----------------------------- MODULE MCShmDict -----------------------------
(***************************************************************************)
(* Small zones for TLC.  Addresses are <<page, slot>>: a page holds one    *)
(* large chunk, which starts where slot 1 does, or Slots small ones, so a  *)
(* large and a small entry never share a page.                             *)
(***************************************************************************)
EXTENDS ShmDictProps

CONSTANTS Pages,     \* number of slab pages in the zone
          Slots       \* small chunks in a page

MCAddr   == (1 .. Pages) \X (1 .. Slots)
MCPageOf == [a \in MCAddr |-> a[1]]
MCChunk  == [small |-> MCAddr, large |-> (1 .. Pages) \X {1}]

(* s1 and s2 are short values of one length, l1 is a long one.             *)
MCLenOf   == [v \in Value |-> IF v = "l1" THEN 40 ELSE 8]
MCClassOf == [v \in Value |-> IF v = "l1" THEN "large" ELSE "small"]
(* Workers and keys (of legal length) are interchangeable.               *)
MCSymmetry == Permutations(Worker) \cup Permutations(LegalKey)
=============================================================================
