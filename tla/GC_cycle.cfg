SPECIFICATION Spec
CONSTANTS
  o1 = o1
  o2 = o2
  o3 = o3
  M = M
  R = R
  Data = Data
  None = None
  Obj <- Objects2
  Kinds <- CycleKinds
  MaxStack = 1
  MaxRefs = 1
  MaxEntries = 1
  KeySet = {Data, o1}
  Metatables <- CycleMetatables
  ModeSet = {"k", "v"}
CONSTRAINT OneFamily
VIEW View
INVARIANTS TypeOK  FinalizedOnce TriColor OneList CleanPause
PROPERTIES WeakOnlyGarbage FinalizeOnlyGarbage
