CONSTANTS
  Types <- MCTypes
  Depth <- MCDepth
  Classes <- MCClasses
  FieldsOf <- MCFieldsOf
  Order <- MCOrder
  Docs <- MCDocs
  Height <- MCHeight
  Texts <- MCTexts
SPECIFICATION Spec
INVARIANT DocumentedTypesUsable
CHECK_DEADLOCK FALSE
