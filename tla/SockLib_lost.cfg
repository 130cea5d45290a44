SPECIFICATION Spec
CONSTANTS
  Var = {v1}
  Ptr = {p1, p2}
  Handle = {h1, h2}
  Peer = {c1}
  Byte = {0}
  Port = {80}
  MaxObj = 3
  MaxSent = 1
  None = None
PROPERTY SocketsReclaimed
