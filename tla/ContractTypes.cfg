CONSTANTS
  Types <- MCTypes
  Depth <- MCDepth
  Classes <- MCClasses
  FieldsOf <- MCFieldsOf
  Order <- MCOrder
  Docs <- MCDocs
  Height <- MCHeight
  Texts <- MCTexts
SPECIFICATION Spec
INVARIANTS
  AcceptedTypesReflect
  RegistryIsReachable
  WellFormedCalls
  IllFormedRefused
  
CHECK_DEADLOCK FALSE
