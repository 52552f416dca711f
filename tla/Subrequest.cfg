SPECIFICATION FairSpec
CONSTANTS
  Methods = {"GET", "POST", "OTHER"}
  Bodies = {"whole", "partial", "broken"}
  MaxSubs = 3
  MaxRounds = 2
  Faults = {"plugin", "start", "upstream", "abort"}
INVARIANTS TypeOK CountExact UsedAlive PluginSeesAll EndsClean
PROPERTIES Ends
CHECK_DEADLOCK FALSE
