SPECIFICATION CounterSpec
CONSTANTS
  Worker = {w1, w2}
  Key = {k1, k2}
  LegalKey = {k1, k2}
  TTL = {0}
  Msec = 1
  Uint32 = 8
  BaseTime = 2
  MaxTime = 2
  SweepLimit = {0}
  MaxExpireCount = 2
  Int64 = 4
  MaxCount = 3
  Calls = {"incr"}
  Nil = Nil
  Chunks = 2
  LongKey = {}
  Value <- MCValue
  Addr <- MCAddr
  PageOf <- MCPageOf
  Chunk <- MCChunk
  KeyLen <- MCKeyLen
  LenOf <- MCLenOf
  ClassOf <- MCClassOf
INVARIANTS IncrementsCount
