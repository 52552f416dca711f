SPECIFICATION CounterSpec
CONSTANTS
  Worker = {w1, w2}
  Key = {k1, k2, k3}
  LegalKey = {k1, k2, k3}
  TTL = {0}
  Msec = 1
  Uint32 = 8
  BaseTime = 2
  MaxTime = 2
  SweepLimit = {0}
  MaxExpireCount = 2
  Int64 = 3
  MaxCount = 4
  Calls = {"get", "set", "delete", "incr", "set_exptime", "flush_all"}
  Nil = Nil
  Chunks = 2
  LongKey = {k3}
  Value <- MCValue
  Addr <- MCAddr
  PageOf <- MCPageOf
  Chunk <- MCChunk
  KeyLen <- MCKeyLen
  LenOf <- MCLenOf
  ClassOf <- MCClassOf
SYMMETRY MCSymmetry
INVARIANTS CounterTypeOK
PROPERTIES CountsExplained
