SPECIFICATION Spec
CONSTANTS
  Request = {r1, r2}
  InMemory = {r2}
  Unnamed = {}
  NamesTwo = {}
  p2 = p2
  p1 = p1
  Plugin = {p1}
  Named <- MCNamed
  Servers = 2
  NextUpstream = {"error", "invalid_response"}
  Header = 1
  BufferSize = 3
  MaxLength = 3
  MaxBody = 1
  Nil = Nil
PROPERTY ReadAlive
CHECK_DEADLOCK FALSE
