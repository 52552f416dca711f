SPECIFICATION Spec
CONSTANTS
  Worker = {w1, w2}
  Key = {k1, k2}
  LegalKey = {k1, k2}
  Value = {"s1"}
  TTL = {0, 1}
  Msec = 1
  Uint32 = 8
  BaseTime = 2
  MaxTime = 4
  SweepLimit = {0, 1}
  MaxExpireCount = 2
  Calls = {"set_exptime", "flush_all", "flush_expired", "foreach"}
  Nil = Nil
  Pages = 1
  Slots = 3
  Addr <- MCAddr
  PageOf <- MCPageOf
  Chunk <- MCChunk
  LenOf <- MCLenOf
  ClassOf <- MCClassOf
SYMMETRY MCSymmetry
INVARIANTS Consistent SweepInsideQueue
PROPERTIES NoCollateralLoss EvictsOldestFirst RecentFirst
