SPECIFICATION Spec
CONSTANTS
  s1 = s1
  s2 = s2
  s3 = s3
  s4 = s4
  s5 = s5
  Str = {s1, s2, s3, s4, s5}
  Obj = {o1, o2, o3, o4, o5}
  None = None
  Hash <- MCHash
  Fixed = {s1}
  MinSize = 1
  MaxSize = 4
SYMMETRY Symmetry
INVARIANTS TypeOK Interned StringsLive DeadOnlyUnswept
CHECK_DEADLOCK FALSE
