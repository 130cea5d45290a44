SPECIFICATION Spec
CONSTANTS
  Main = Main
  Co = {A, B}
  MAXCCALLS = 3
  ERRCCALLS = 5
  MaxFrames = 4
SYMMETRY Symmetry
INVARIANTS TypeOK CCallsExact  StatusExact
PROPERTY AsymmetricCoroutines
CHECK_DEADLOCK FALSE
