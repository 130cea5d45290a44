SPECIFICATION Spec
CONSTANTS
  s = s
  o = o
  Index <- MCIndex
  Str = {s}
  Object = {o}
  Hash <- MCKeyHash
  Val = {v1, v2}
  nil = nil
  None = None
  MAX_INT = 2
SYMMETRY Symmetry
INVARIANTS TypeOK Reachable TraversalOnce LengthIsBorder SetStores 
PROPERTY IsMap
CHECK_DEADLOCK FALSE
