SPECIFICATION Spec
CONSTANTS
  Thread = {L1, L2}
  Main = L1
  Clo = {c1, c2, c3}
  Uv = {u1, u2, u3}
  Data = {d1, d2}
  None = None
  Garbage = Garbage
  MaxTop = 2
  MaxCell = 3
SYMMETRY Symmetry
VIEW View
INVARIANTS TypeOK OpenLists UpvalsLive
PROPERTY LexicalScoping
CHECK_DEADLOCK FALSE
