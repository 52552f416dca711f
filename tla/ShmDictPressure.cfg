SPECIFICATION FairSpec
CONSTANTS
  Worker = {w1, w2}
  Key = {k0, k1, k2, k3, k4}
  LegalKey = {k1, k2, k3, k4}
  Value = {"s1", "l1"}
  TTL = {0}
  Msec = 1
  Uint32 = 8
  BaseTime = 2
  MaxTime = 2
  SweepLimit = {0}
  MaxExpireCount = 1
  Calls = {"set_exptime", "flush_expired", "crash"}
  Nil = Nil
  Pages = 1
  Slots = 3
  Addr <- MCAddr
  PageOf <- MCPageOf
  Chunk <- MCChunk
  LenOf <- MCLenOf
  ClassOf <- MCClassOf
INVARIANTS TypeOK SlabSound UniqueKeys
PROPERTIES ImplementsEvictingMap LockIsReleased
