SPECIFICATION FairSpec
CONSTANTS
  Request = {r1, r2, r3}
  InMemory = {r2}
  Unnamed = {r3}
  NamesTwo = {r2}
  p1 = p1
  p2 = p2
  Plugin = {p1, p2}
  Named <- MCNamed
  Servers = 2
  NextUpstream = {"error", "invalid_response"}
  Header = 1
  BufferSize = 3
  MaxLength = 3
  MaxBody = 1
  Nil = Nil
INVARIANTS TypeOK HandedOnce WholeFrame BodyAlive
PROPERTIES OneServer PromptEnd
CHECK_DEADLOCK FALSE
