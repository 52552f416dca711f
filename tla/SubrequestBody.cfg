SPECIFICATION Spec
CONSTANTS
  Methods = {"GET", "POST"}
  Bodies = {"whole", "partial"}
  MaxSubs = 3
  MaxRounds = 2
  Faults = {"start", "upstream", "abort"}
INVARIANTS ClosedAnswered
CHECK_DEADLOCK FALSE
