---------------------------- MODULE MCShmCounter ----------------------------
(***************************************************************************)
(* Small zones for the counters: one page, split into Chunks small chunks  *)
(* or into one large one, which starts where the first small one does.     *)
(* Counters and short strings have 8 bytes; one key is longer than the     *)
(* others.                                                                 *)
(***************************************************************************)
EXTENDS ShmCounter

CONSTANTS Chunks,    \* number of small chunks in the page
          LongKey    \* the keys that are longer

MCAddr    == 1 .. Chunks
MCPageOf  == [a \in MCAddr |-> 1]
MCChunk   == [small |-> MCAddr, large |-> {1}]
MCValue   == [type : {"string", "int64", "long"}, n : 0 .. Int64 - 1]
MCLenOf   == [v \in MCValue |-> IF v.type = "long" THEN 40 ELSE 8]
MCClassOf == [v \in MCValue |-> IF v.type = "long" THEN "large" ELSE "small"]
MCKeyLen  == [k \in Key |-> IF k \in LongKey THEN 9 ELSE 5]

MCSymmetry ==
  Permutations(Worker) \cup Permutations(Key \ LongKey)
=============================================================================
