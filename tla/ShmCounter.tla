----------------------------- MODULE ShmCounter -----------------------------
(***************************************************************************)
(* What callers do with an entry after the dictionary's lock is released.  *)
(* ngx_shm_dict_get hands out a pointer into the zone: inc_int adds to the *)
(* counter behind it, and the C++ interface's Get copies the value from    *)
(* it, both without the lock.  A counter that is missing is created by a   *)
(* set of its own, in a second critical section.                           *)
(***************************************************************************)
EXTENDS ShmDict

CONSTANTS
  KeyLen,      \* the length of each key; the value lies behind the key
  Int64,       \* modulus of a counter (2^64 in the code)
  MaxCount     \* bound on increments (model checking only)

VARIABLES
  held,    \* held[w]: what worker w is doing outside the lock, or Nil
  acked,   \* acked[k]: increments of k answered SHM_OK (history)
  harmed   \* chunks where an add went into something other than a value

allvars == <<vars, held, acked, harmed>>

(* Values carry their value_type and a content; set stores SHM_STRING, of  *)
(* which n says how often an increment has been added to its bytes.  "long"*)
(* is a string, too, of another length than a counter's 8 bytes.           *)
Strings == {v \in Value : v.type \in {"string", "long"} /\ v.n = 0}

(* ngx_str_set_int64(&data, &i) with value_type SHM_INT64.                 *)
Counter(n) == [type |-> "int64", n |-> n]

(* A worker with a pointer into the zone, to len bytes behind key's in the *)
(* entry at a chunk, or on its way to a new counter.                       *)
Pointing == [op : {"add", "copy"}, key : Key, at : Addr, len : Nat]
Creating == [op : {"create", "creating"}, key : Key, at : {Nil}, len : {0}]

Held == Pointing \cup Creating

(* Values have room for every count; a set by inc_int never expires.       *)
ASSUME CounterAssumption ==
  /\ KeyLen \in [Key -> Nat]
  /\ Int64 \in Nat \ {0}
  /\ Value \subseteq [type : {"string", "int64", "long"}, n : 0 .. Int64 - 1]
  /\ [type |-> "int64", n |-> 1] \in Value
  /\ \A v \in Value :
       LET u == [v EXCEPT !.n = (@ + 1) % Int64]
       IN u \in Value /\ LenOf[u] = LenOf[v]
  /\ 0 \in TTL
  /\ Nil \notin Held /\ Nil \notin Addr

CounterInit ==
  /\ Init
  /\ held   = [w \in Worker |-> Nil]
  /\ acked  = [k \in Key |-> 0]
  /\ harmed = {}

Idle(w) == held[w] = Nil

Hold(w, op, k, a, l) ==
  held' = [held EXCEPT ![w] = [op |-> op, key |-> k, at |-> a, len |-> l]]
Release(w) == held' = [held EXCEPT ![w] = Nil]

(* Mutant: the sum is computed and returned, not stored.                   *)
AddNothing(v) == v

(* __sync_add_and_fetch on the 64 bits behind the pointer.                 *)
AddOne(v) == [v EXCEPT !.n = (@ + 1) % Int64]

(* Mutant: a hit leaves the pointer unset.                                 *)
NoEntry == Nil

(* The entry a lookup has just hit.                                        *)
HitEntry == Head(zone'.queue)

IsCounter(v) == v.type = "int64"

(* Bound: increments answered and under way.                               *)
Increments ==
  FoldFunction(+, 0, acked)
    + Cardinality({w \in Worker : held[w] \in Held /\ held[w].op # "copy"})

(* inc_int's get.  A hit leaves the entry at the head of the queue, and    *)
(* the worker with a pointer to it; a miss leaves the counter to create.   *)
IncrLookup(w, k) ==
  /\ "incr" \in Calls
  /\ Increments < MaxCount
  /\ Idle(w)
  /\ Get(w, k)
  /\ \/ /\ ret'.rc = "ok"
        /\ IsCounter(ret'.val)
        /\ Hold(w, "add", k, HitEntry, LenOf[ret'.val])
     \/ /\ ret'.rc = "ok"
        /\ ~ IsCounter(ret'.val)
        /\ UNCHANGED held
     \/ /\ ret'.rc = "error"
        /\ Hold(w, "create", k, Nil, 0)
  /\ UNCHANGED <<acked, harmed>>

(* The counter's 8 bytes behind a key of k's length in chunk a are still   *)
(* those of a value, of the entry there by now, or they are free, in a page*)
(* that has not been split anew for chunks of another size.                *)
InPlace(a, k) ==
  IF zone.node[a] # Nil
  THEN /\ KeyLen[zone.node[a].key] = KeyLen[k]
       /\ LenOf[zone.node[a].val] >= LenOf[Counter(1)]
  ELSE \A b \in Alloc(zone) :
         PageOf[b] = PageOf[a] =>
           ClassOf[zone.node[b].val] = ClassOf[Counter(1)]

(* The add goes to whatever the zone has at that address by now.  Where it *)
(* hits something other than a value, a key, a time, the links of tree and *)
(* queue, the zone is not followed any further.                            *)
IncrAdd(w) ==
  /\ ~ Idle(w)
  /\ held[w].op = "add"
  /\ LET a == held[w].at
     IN \/ /\ InPlace(a, held[w].key)
           /\ zone' = IF zone.node[a] = Nil THEN zone
                      ELSE [zone EXCEPT !.node[a].val = AddOne(@)]
           /\ UNCHANGED harmed
        \/ /\ ~ InPlace(a, held[w].key)
           /\ harmed' = {a}
           /\ UNCHANGED zone
  /\ acked' = [acked EXCEPT ![held[w].key] = @ + 1]
  /\ Release(w)
  /\ UNCHANGED <<clock, mutex, job, ret>>

(* ngx_shm_dict_handler_incr_int passes exptime 0 whatever its caller gave.*)
IncrCreate(w) ==
  /\ ~ Idle(w)
  /\ held[w].op = "create"
  /\ LET k == held[w].key
     IN /\ Set(w, k, Counter(1), 0)
        /\ \/ /\ mutex' = w
              /\ Hold(w, "creating", k, Nil, 0)
              /\ UNCHANGED acked
           \/ /\ mutex' = Nil
              /\ Release(w)
              /\ acked' = [acked EXCEPT ![k] = IF ret'.rc = "ok" THEN @ + 1 ELSE @]
  /\ UNCHANGED harmed

(* insert's eviction loop, on behalf of a set or of inc_int's set.         *)
Evict(w) ==
  /\ EvictRound(w) \/ EvictGiveUp(w)
  /\ IF ~ Idle(w) /\ job' = Nil
     THEN /\ Release(w)
          /\ acked' = [acked EXCEPT ![held[w].key] =
                         IF ret'.rc = "ok" THEN @ + 1 ELSE @]
     ELSE UNCHANGED <<held, acked>>
  /\ UNCHANGED harmed

(* CNgxDictInterface::Get up to the return of ngx_shm_dict_get ...         *)
GetLookup(w, k) ==
  /\ "get" \in Calls
  /\ Idle(w)
  /\ Get(w, k)
  /\ IF ret'.rc = "ok" THEN Hold(w, "copy", k, HitEntry, LenOf[ret'.val])
                       ELSE UNCHANGED held
  /\ UNCHANGED <<acked, harmed>>

(* ... and its copy of the bytes, for the caller: a value where one of that*)
(* length lies there, and bytes of any sort where the chunk has been freed *)
(* or given to another entry.                                              *)
GetCopy(w) ==
  /\ ~ Idle(w)
  /\ held[w].op = "copy"
  /\ LET k == held[w].key
         n == zone.node[held[w].at]
     IN \E v \in {u \in Value : LenOf[u] = held[w].len} :
          /\ (n # Nil /\ KeyLen[n.key] = KeyLen[k] /\ LenOf[n.val] = held[w].len) =>
               v = n.val
          /\ ret' = Call("get", k, v, "ok")
  /\ Release(w)
  /\ UNCHANGED <<zone, clock, mutex, job, acked, harmed>>

(* The interface's other calls, by a worker that holds no pointer; not one *)
(* of them looks at the pointers of others.                                *)
Quietly == UNCHANGED <<held, acked, harmed>>

SetString(w, k) ==
  /\ "set" \in Calls
  /\ Idle(w)
  /\ \E v \in Strings, ttl \in TTL : Set(w, k, v, ttl)
  /\ Quietly

Del(w, k) == "delete" \in Calls /\ Idle(w) /\ Delete(w, k) /\ Quietly

Prolong(w, k) ==
  Idle(w) /\ (\E ttl \in TTL : SetExptime(w, k, ttl)) /\ Quietly

Flush(w) == Idle(w) /\ FlushAll(w) /\ Quietly

Step ==
  \E w \in Worker :
    \/ \E k \in Key :
         \/ IncrLookup(w, k)
         \/ GetLookup(w, k)
         \/ SetString(w, k)
         \/ Del(w, k)
         \/ Prolong(w, k)
    \/ Flush(w)
    \/ IncrAdd(w)
    \/ IncrCreate(w)
    \/ Evict(w)
    \/ GetCopy(w)

(* A zone written over by an add gone astray: anything may follow, nothing *)
(* of which is modelled.                                                   *)
Lost == harmed # {} /\ UNCHANGED allvars

CounterNext == (harmed = {} /\ Step) \/ Lost

CounterSpec == CounterInit /\ [][CounterNext]_allvars

-----------------------------------------------------------------------------
(* Every variable has its shape; history counts, counters stay bounded.    *)
CounterTypeOK ==
  /\ zone.node \in [Addr -> Node \cup {Nil}]
  /\ held \in [Worker -> Held \cup {Nil}]
  /\ acked \in [Key -> Nat]
  /\ harmed \subseteq Addr

(* The entry a get of k hits; no time passes here.                         *)
Hit(z, k) == Live(z, k, BaseTime)

(* The pointer a worker keeps no longer leads to a live entry of its key.  *)
Astray(w) ==
  /\ held[w] \in Pointing
  /\ held[w].at \notin Hit(zone, held[w].key)

(* What a get of the counter would say; 0 if there is none.                *)
Count(z, k) ==
  LET counters == {z.node[a].val : a \in Hit(z, k)}
  IN IF \E v \in counters : IsCounter(v)
     THEN (CHOOSE v \in counters : IsCounter(v)).n ELSE 0

(* Every acknowledged increment is in the counter, once nobody is still    *)
(* creating it: the counter is created when "it does not exist"            *)
(* (ngx_shm_dict.c:787).                                                   *)
IncrementsCount ==
  \A k \in Key :
    (\A w \in Worker : held[w] \in Held => held[w].op = "add") =>
      Count(zone, k) = acked[k]

Unsettled(z, acks, k) == acks[k] - Count(z, k)

(* A get of k can hit one entry at most.                                   *)
Single(z, k) == \A a, b \in Hit(z, k) : a = b

(* What an increment of k was answered to have added is in its counter     *)
(* until the entry is removed or overwritten by a string or the counter    *)
(* wraps, unless another worker is creating the counter (it overwrites the *)
(* first) or adds through a pointer gone astray; and only such a pointer   *)
(* ever adds to a counter what nobody was answered.  In particular         *)
(* unlocked adds to one counter all count (__sync_add_and_fetch,           *)
(* ngx_shm_dict.c:784).  Not said of a key with two live entries, which a  *)
(* dead one left in the tree may cause, nor of a zone written over by an   *)
(* add that hit something other than a value.                              *)
CountsExplained ==
  [][\A k \in Key : Single(zone, k) /\ harmed' = {} =>
       /\ Unsettled(zone', acked', k) > Unsettled(zone, acked, k) =>
            \/ Hit(zone', k) = {}
            \/ \E a \in Hit(zone', k) : ~ IsCounter(zone'.node[a].val)
            \/ Count(zone, k) = Int64 - 1
            \/ \E w \in Worker :
                 /\ held[w] \in Held /\ held[w].key = k
                 /\ held[w].op \in {"create", "creating"} \/ Astray(w)
       /\ Unsettled(zone', acked', k) < Unsettled(zone, acked, k) =>
            \E w \in Worker : Astray(w) /\ held[w].op = "add"]_allvars
=============================================================================
