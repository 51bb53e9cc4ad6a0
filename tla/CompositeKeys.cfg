CONSTANTS
  MaxRune = 3
  Types <- MCTypes
  Attrs <- MCAttrs
  Simple <- MCSimple
  MaxKeys = 2
SPECIFICATION Spec
INVARIANTS
  SplitsBack
  PartialKeyExact
