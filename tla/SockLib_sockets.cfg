SPECIFICATION Spec
CONSTANTS
  Var = {v1, v2}
  Ptr = {p1, p2}
  Handle = {h1, h2}
  Peer = {c1, c2}
  Byte = {0, 1}
  Port = {80, 65616}
  MaxObj = 3
  MaxSent = 1
  None = None
INVARIANTS TypeOK NoAlias OneOwner StreamIntegrity
 
