SPECIFICATION LateSpec
CONSTANTS
  o1 = o1
  o2 = o2
  o3 = o3
  M = M
  R = R
  Data = Data
  None = None
  Obj <- Objects3
  Kinds <- UdataKinds
  MaxStack = 1
  MaxRefs = 1
  MaxEntries = 1
  KeySet = {Data, o2}
  Metatables <- LateMetatables
  ModeSet = {"k"}
PROPERTY FinalizeOnlyDead
