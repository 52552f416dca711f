SPECIFICATION Spec
CONSTANTS
  Cycle = {1, 2, 3}
  Nil = Nil
  Name = {AAA, BBB}
  PluginName = {1, 2}
  Worker = {w1, w2}
  MaxDirectives = 3
SYMMETRY MCSymmetry
INVARIANTS TypeOK FindsOwnZones PointsAtOwnZone ReadyToServe ExitMirrorsInit
CHECK_DEADLOCK FALSE
