SPECIFICATION Spec
CONSTANTS
  Request = {r1, r2}
  InMemory = {}
  Unnamed = {}
  NamesTwo = {r2}
  p1 = p1
  p2 = p2
  Plugin = {p1, p2}
  Named <- MCNamed
  Servers = 2
  NextUpstream = {"error", "invalid_response"}
  Header = 1
  BufferSize = 3
  MaxLength = 3
  MaxBody = 1
  Nil = Nil
INVARIANT OwnPlugin
CHECK_DEADLOCK FALSE
