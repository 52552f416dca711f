---------------------------- MODULE EvictingMap ----------------------------
(***************************************************************************)
(* What a zone of the dictionary promises its callers as long as nothing   *)
(* in it expires: a map from keys to values that may forget entries when   *)
(* memory is short, never changes one by itself, and answers every call    *)
(* from the map.                                                           *)
(***************************************************************************)
CONSTANTS Key, LegalKey, Value, Nil

VARIABLES map,    \* the value of each key, or Nil
          ret     \* the last call that returned, and its outcome

Answer(c, k, v, rc) == [call |-> c, key |-> k, val |-> v, rc |-> rc]

Shrinks(K) == \A k \in K : map'[k] \in {map[k], Nil}

Init ==
  /\ map = [k \in Key |-> Nil]
  /\ ret = Answer("init", Nil, Nil, "ok")

Refuse(c, k) ==
  /\ k \notin LegalKey
  /\ ret' = Answer(c, k, Nil, "error")
  /\ UNCHANGED map

(* A hit returns the current value, a miss an error.                       *)
Get(k) ==
  /\ ret' = IF map[k] # Nil THEN Answer("get", k, map[k], "ok")
                            ELSE Answer("get", k, Nil, "error")
  /\ UNCHANGED map

Delete(k) ==
  /\ ret' = Answer("delete", k, Nil, "ok")
  /\ map' = [map EXCEPT ![k] = Nil]

(* Refreshing an entry finds it exactly when it is there.                  *)
Refresh(k) ==
  /\ ret' = Answer("set_exptime", k, Nil, IF map[k] # Nil THEN "ok" ELSE "error")
  /\ UNCHANGED map

(* A set that succeeds is visible at once; others may have made room.      *)
SetStores(k, v) ==
  /\ k \in LegalKey
  /\ ret' = Answer("set", k, v, "ok")
  /\ map' \in [Key -> Value \cup {Nil}]
  /\ map'[k] = v
  /\ Shrinks(Key \ {k})

(* A set that fails leaves no value behind, neither the new nor the old.   *)
SetFails(k, v) ==
  /\ k \in LegalKey
  /\ map[k] = Nil
  /\ ret' = Answer("set", k, v, "error")
  /\ UNCHANGED map

(* Entries are forgotten while a set looks for memory.                     *)
Forget ==
  /\ map' \in [Key -> Value \cup {Nil}]
  /\ Shrinks(Key)
  /\ UNCHANGED ret

(* Calls that neither read nor write the map for their caller.             *)
Scan ==
  /\ \/ ret' = Answer("flush_expired", Nil, Nil, "ok")
     \/ \E rc \in {"ok", "error"} : ret' = Answer("foreach", Nil, Nil, rc)
  /\ UNCHANGED map

Next ==
  \/ \E k \in Key :
       \/ \E c \in {"get", "set", "set_exptime"} : Refuse(c, k)
       \/ Get(k)
       \/ Delete(k)
       \/ Refresh(k)
       \/ \E v \in Value : SetStores(k, v) \/ SetFails(k, v)
  \/ Forget
  \/ Scan

Spec == Init /\ [][Next]_<<map, ret>>
=============================================================================
