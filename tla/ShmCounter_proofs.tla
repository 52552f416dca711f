-------------------------- MODULE ShmCounter_proofs --------------------------
(***************************************************************************)
(* What holds of the counters and of the pointers that callers keep past   *)
(* the dictionary's lock, for any workers, keys and values: every variable *)
(* keeps its type, and every increment that was answered is accounted for. *)
(*                                                                         *)
(* The argument.  The dictionary's own invariant survives every call       *)
(* (ShmDict_proofs), and an unlocked add while it hits the bytes of a      *)
(* value, which changes neither its length nor the lists; a step where it  *)
(* hits anything else is the last one that is followed.  Then each step is *)
(* described by the entries of a key it loses, stores or adds to.          *)
(***************************************************************************)
EXTENDS ShmCounter, ShmDictSteps_proofs

CounterInv ==
  /\ IInv
  /\ clock = [w \in Worker |-> BaseTime]
  /\ held \in [Worker -> Held \cup {Nil}]
  /\ acked \in [Key -> Nat]
  /\ harmed \subseteq Addr

(* A worker outside the lock, by what it is doing.                         *)
LEMMA HeldIs ==
  ASSUME NEW h \in Held
  PROVE  /\ h # Nil /\ h.key \in Key
         /\ h.op \in {"add", "copy"} <=> h \in Pointing
         /\ h \in Pointing => h.at \in Addr
         /\ h.op \in {"create", "creating"} => h \notin Pointing
BY CounterAssumption DEF Held, Pointing, Creating

(* What a worker that takes hold of something holds.                       *)
LEMMA Holding ==
  ASSUME NEW k \in Key
  PROVE  /\ \A a \in Addr, l \in Nat :
              /\ [op |-> "add", key |-> k, at |-> a, len |-> l] \in Pointing
              /\ [op |-> "copy", key |-> k, at |-> a, len |-> l] \in Pointing
         /\ [op |-> "create", key |-> k, at |-> Nil, len |-> 0] \in Held \ Pointing
         /\ [op |-> "creating", key |-> k, at |-> Nil, len |-> 0] \in Held \ Pointing
         /\ Pointing \subseteq Held
BY CounterAssumption DEF Held, Pointing, Creating

(* A sum is a value of the same size class.                                *)
LEMMA SumType ==
  ASSUME NEW v \in Value
  PROVE  AddOne(v) \in Value /\ ClassOf[AddOne(v)] = ClassOf[v]
<1>1. AddOne(v) \in Value /\ LenOf[AddOne(v)] = LenOf[v]
  BY CounterAssumption DEF AddOne
<1> QED
  BY <1>1, SlabAssumption

(* The value of a new counter.                                             *)
LEMMA CounterType == Counter(1) \in Value
BY CounterAssumption DEF Counter

-----------------------------------------------------------------------------
(* No call changes a worker's time: not get ...                            *)
LEMMA GetClock ==
  ASSUME NEW w, NEW k, Get(w, k)
  PROVE  UNCHANGED clock
BY DEF Get, RejectKey, Return

(* ... delete ...                                                          *)
LEMMA DeleteClock ==
  ASSUME NEW w, NEW k, Delete(w, k)
  PROVE  UNCHANGED clock
BY DEF Delete, Return

(* ... set_exptime ...                                                     *)
LEMMA SetExptimeClock ==
  ASSUME NEW w, NEW k, NEW ttl, SetExptime(w, k, ttl)
  PROVE  UNCHANGED clock
BY DEF SetExptime, RejectKey, Return

(* ... insert ...                                                          *)
LEMMA InsertClock ==
  ASSUME NEW w, NEW z, NEW k, NEW v, NEW ttl, Insert(w, z, k, v, ttl)
  PROVE  UNCHANGED clock
BY DEF Insert, Return

(* ... or set.                                                             *)
LEMMA SetClock ==
  ASSUME NEW w, NEW k, NEW v, NEW ttl, Set(w, k, v, ttl)
  PROVE  UNCHANGED clock
<1>1. CASE RejectKey(w, "set", k)
  BY <1>1 DEF RejectKey
<1>2. ASSUME NEW z, Insert(w, z, k, v, ttl)
      PROVE  UNCHANGED clock
  BY <1>2, InsertClock
<1>3. ASSUME NEW z, NEW r, Return(z, r)
      PROVE  UNCHANGED clock
  BY <1>3 DEF Return
<1> QED
  BY <1>1, <1>2, <1>3 DEF Set

(* A get that hits ends with its entry at the head of the queue.           *)
LEMMA GetHits ==
  ASSUME CounterInv, NEW w \in Worker, NEW k \in Key, Get(w, k), ret'.rc = "ok"
  PROVE  HitEntry \in Addr /\ LenOf[ret'.val] \in Nat
<1> DEFINE z == ExpireTwo(zone, clock[w])
<1>1. clock[w] = BaseTime /\ GoodZone(zone)
  BY DEF CounterInv, IInv, TypeOK, Consistent, SlabSound, GoodZone
<1>2. GoodZone(z)
  BY <1>1, ExpireTwoGood
<1> HIDE DEF z
<1>3. PICK a \in Live(z, k, clock[w]) :
        zone' = MoveToHead(z, a) /\ ret' = Call("get", k, z.node[a].val, "ok")
  BY DEF Get, RejectKey, Return, Call, z
<1>4. a \in Alloc(z) /\ a \in Found(z, k)
  BY <1>2, <1>3, LookupGood
<1>7. HitEntry = a
  <2>1. z \in Zone /\ z.queue \in Seq(Addr) /\ Distinct(z.queue)
        /\ a \in ToSet(z.queue) /\ a \in Addr
    BY <1>2, <1>4 DEF GoodZone, Zone, Indexed, Alloc, Distinct
  <2>2. QueueRemove(z.queue, a) \in Seq(Addr)
    BY <2>1, QueueRemoveProperties
  <2>3. zone'.queue = <<a>> \o QueueRemove(z.queue, a)
    BY <1>3, <2>1 DEF MoveToHead, Zone
  <2> QED
    BY <2>1, <2>2, <2>3 DEF HitEntry
<1>8. a \in Addr /\ z.node[a] \in Node
  BY <1>2, <1>4 DEF Alloc, GoodZone, Zone
<1>9. ret'.val \in Value
  BY <1>3, <1>8 DEF Call, Node
<1> QED
  BY <1>7, <1>8, <1>9, SlabAssumption

-----------------------------------------------------------------------------
(* A call of the dictionary by a worker that takes hold of h, or of        *)
(* nothing.                                                                *)
LEMMA CallKeeps ==
  ASSUME CounterInv, IInv', UNCHANGED <<clock, harmed>>,
         NEW v \in Worker, NEW h \in Held \cup {Nil},
         held' = [held EXCEPT ![v] = h],
         acked' \in [Key -> Nat]
  PROVE  CounterInv'
BY DEF CounterInv

(* The same when nobody takes hold of anything.                            *)
LEMMA QuietKeeps ==
  ASSUME CounterInv, IInv', UNCHANGED clock, Quietly
  PROVE  CounterInv'
BY DEF Quietly, CounterInv

-----------------------------------------------------------------------------
(* inc_int's lookup and the interface's Get.                               *)
LEMMA LookupsKeep ==
  ASSUME CounterInv, NEW v \in Worker, NEW k \in Key,
         IncrLookup(v, k) \/ GetLookup(v, k)
  PROVE  CounterInv'
<1>1. Get(v, k) /\ UNCHANGED harmed /\ acked' \in [Key -> Nat]
  BY DEF IncrLookup, GetLookup, CounterInv
<1>2. UNCHANGED clock /\ IInv'
  BY <1>1, GetClock, GetKeepsInv DEF CounterInv
<1>3. CASE UNCHANGED held
  <2>1. UNCHANGED acked
    BY DEF IncrLookup, GetLookup
  <2> QED
    BY <1>1, <1>2, <1>3, <2>1, QuietKeeps DEF Quietly
<1>4. CASE Hold(v, "create", k, Nil, 0)
  <2> DEFINE h == [op |-> "create", key |-> k, at |-> Nil, len |-> 0]
  <2>1. h \in Held \ Pointing
    BY Holding, CounterAssumption
  <2>2. held' = [held EXCEPT ![v] = h]
    BY <1>4 DEF Hold
  <2> HIDE DEF h
  <2> QED
    BY <1>1, <1>2, <2>1, <2>2, CallKeeps
<1>5. ASSUME ret'.rc = "ok", NEW op \in {"add", "copy"},
             Hold(v, op, k, HitEntry, LenOf[ret'.val])
      PROVE  CounterInv'
  <2> DEFINE h == [op |-> op, key |-> k, at |-> HitEntry,
               len |-> LenOf[ret'.val]]
  <2>1. HitEntry \in Addr /\ LenOf[ret'.val] \in Nat
    BY <1>1, <1>5, GetHits
  <2>2. h \in Held
    BY <2>1, Holding
  <2>3. held' = [held EXCEPT ![v] = h]
    BY <1>5 DEF Hold
  <2> HIDE DEF h
  <2> QED
    BY <1>1, <1>2, <2>2, <2>3, CallKeeps
<1> QED
  BY <1>3, <1>4, <1>5 DEF IncrLookup, GetLookup

(* An unlocked add leaves a sound zone, if only the value at its chunk or  *)
(* free bytes are hit, and one that is not followed further otherwise.     *)
LEMMA AddKeepsInv ==
  ASSUME CounterInv, NEW v \in Worker, IncrAdd(v)
  PROVE  IInv'
<1> DEFINE a == held[v].at
<1>1. /\ UNCHANGED <<clock, mutex, job, ret>>
      /\ \/ zone' = zone
         \/ /\ zone.node[a] # Nil
            /\ zone' = [zone EXCEPT !.node[a].val = AddOne(@)]
  BY DEF IncrAdd
<1>2. a \in Addr
  BY HeldIs DEF IncrAdd, Idle, CounterInv
<1>3. GoodZone(zone) /\ IInv
  BY DEF CounterInv, IInv, TypeOK, Consistent, SlabSound, GoodZone
<1> HIDE DEF a
<1>4. CASE zone' = zone
  BY <1>1, <1>3, <1>4
     DEF IInv, TypeOK, Consistent, SlabSound, LockHeldByJob, SweepInsideQueue
<1>5. CASE /\ zone.node[a] # Nil
           /\ zone' = [zone EXCEPT !.node[a].val = AddOne(@)]
  <2> DEFINE n == [zone.node[a] EXCEPT !.val = AddOne(@)]
  <2>1. a \in Alloc(zone) /\ zone.node[a] \in Node
    BY <1>2, <1>3, <1>5 DEF Alloc, GoodZone, Zone
  <2>2. n \in Node /\ ClassOf[n.val] = ClassOf[zone.node[a].val]
    BY <2>1, SumType DEF Node
  <2>3. zone' = [zone EXCEPT !.node[a] = n]
    BY <1>5
  <2> HIDE DEF n
  <2>4. GoodZone(zone')
    BY <1>3, <2>1, <2>2, <2>3, OverwriteGood
  <2>5. zone'.queue = zone.queue
    BY <1>3, <2>3 DEF GoodZone, Zone
  <2> QED
    BY <1>1, <1>3, <2>4, <2>5
       DEF GoodZone, IInv, TypeOK, Consistent, SlabSound, LockHeldByJob,
           SweepInsideQueue
<1> QED
  BY <1>1, <1>4, <1>5

(* The add.                                                                *)
LEMMA AddKeeps ==
  ASSUME CounterInv, NEW v \in Worker, IncrAdd(v)
  PROVE  CounterInv'
<1>1. IInv'
  BY AddKeepsInv
<1>2. held[v].at \in Addr /\ held[v].key \in Key
  BY HeldIs DEF IncrAdd, Idle, CounterInv
<1>3. held' = [held EXCEPT ![v] = Nil] /\ UNCHANGED clock
  BY DEF IncrAdd, Release
<1>4. acked' = [acked EXCEPT ![held[v].key] = acked[held[v].key] + 1]
      /\ (harmed' = harmed \/ harmed' = {held[v].at})
  BY DEF IncrAdd
<1>5. acked' \in [Key -> Nat] /\ harmed' \subseteq Addr
  BY <1>2, <1>4 DEF CounterInv
<1>6. held' \in [Worker -> Held \cup {Nil}]
      /\ clock' = [w \in Worker |-> BaseTime]
  BY <1>3 DEF CounterInv
<1> QED
  BY <1>1, <1>5, <1>6 DEF CounterInv

(* The creation of a counter.                                              *)
LEMMA CreateKeeps ==
  ASSUME CounterInv, NEW v \in Worker, IncrCreate(v)
  PROVE  CounterInv'
<1> DEFINE k == held[v].key
<1>1. k \in Key /\ Set(v, k, Counter(1), 0) /\ UNCHANGED harmed
  BY HeldIs DEF IncrCreate, Idle, CounterInv
<1>2. UNCHANGED clock /\ IInv'
  BY <1>1, CounterType, CounterAssumption, SetClock, SetKeepsInv DEF CounterInv
<1>3. CASE Hold(v, "creating", k, Nil, 0) /\ UNCHANGED acked
  <2> DEFINE h == [op |-> "creating", key |-> k, at |-> Nil, len |-> 0]
  <2>1. h \in Held \ Pointing
    BY <1>1, Holding
  <2>2. held' = [held EXCEPT ![v] = h]
    BY <1>3 DEF Hold
  <2>3. acked' \in [Key -> Nat]
    BY <1>3 DEF CounterInv
  <2> HIDE DEF h
  <2> QED
    BY <1>1, <1>2, <2>1, <2>2, <2>3, CallKeeps
<1>4. CASE Release(v) /\ acked' = [acked EXCEPT ![k] =
                           IF ret'.rc = "ok" THEN @ + 1 ELSE @]
  <2>1. held' = [held EXCEPT ![v] = Nil]
    BY <1>4 DEF Release
  <2>2. acked' \in [Key -> Nat]
    BY <1>1, <1>4 DEF CounterInv
  <2> QED
    BY <1>1, <1>2, <2>1, <2>2, CallKeeps
<1> QED
  BY <1>3, <1>4 DEF IncrCreate

(* The turns of insert's loop, for a set of either kind.                   *)
LEMMA EvictKeeps ==
  ASSUME CounterInv, NEW v \in Worker, Evict(v)
  PROVE  CounterInv'
<1>1. UNCHANGED clock /\ IInv' /\ UNCHANGED harmed
  BY EvictRoundKeepsInv, EvictGiveUpKeepsInv
     DEF Evict, EvictRound, EvictGiveUp, CounterInv
<1>2. CASE ~ Idle(v) /\ job' = Nil
  <2>1. held[v].key \in Key
    BY <1>2, HeldIs DEF Idle, CounterInv
  <2>2. held' = [held EXCEPT ![v] = Nil]
    BY <1>2 DEF Evict, Release
  <2>3. acked' = [acked EXCEPT ![held[v].key] =
                    IF ret'.rc = "ok" THEN @ + 1 ELSE @]
    BY <1>2 DEF Evict
  <2>4. acked' \in [Key -> Nat]
    BY <2>1, <2>3 DEF CounterInv
  <2> QED
    BY <1>1, <2>2, <2>4, CallKeeps
<1>3. CASE UNCHANGED <<held, acked>>
  BY <1>1, <1>3, QuietKeeps DEF Quietly
<1> QED
  BY <1>2, <1>3 DEF Evict

(* The copy changes nothing but the answer.                                *)
LEMMA CopyKeeps ==
  ASSUME CounterInv, NEW v \in Worker, GetCopy(v)
  PROVE  CounterInv'
<1>1. held[v].key \in Key
  BY HeldIs DEF GetCopy, Idle, CounterInv
<1>2. ret' \in Result
  BY <1>1 DEF GetCopy, Call, Result
<1>3. UNCHANGED <<zone, clock, mutex, job, acked, harmed>>
      /\ held' = [held EXCEPT ![v] = Nil]
  BY DEF GetCopy, Release
<1>4. IInv'
  BY <1>2, <1>3
     DEF CounterInv, IInv, TypeOK, Consistent, SlabSound, LockHeldByJob,
         SweepInsideQueue
<1> QED
  BY <1>3, <1>4, CallKeeps DEF CounterInv

(* The other calls of the interface.                                       *)
LEMMA OthersKeep ==
  ASSUME CounterInv, NEW v \in Worker,
         \/ \E k \in Key : SetString(v, k) \/ Del(v, k) \/ Prolong(v, k)
         \/ Flush(v)
  PROVE  CounterInv'
<1>1. IInv
  BY DEF CounterInv
<1>2. ASSUME NEW k \in Key, SetString(v, k)
      PROVE  CounterInv'
  <2>1. PICK s \in Value, ttl \in TTL : Set(v, k, s, ttl)
    BY <1>2 DEF SetString, Strings
  <2> QED
    BY <1>1, <1>2, <2>1, SetClock, SetKeepsInv, QuietKeeps DEF SetString
<1>3. ASSUME NEW k \in Key, Del(v, k)
      PROVE  CounterInv'
  BY <1>1, <1>3, DeleteClock, DeleteKeepsInv, QuietKeeps DEF Del
<1>4. ASSUME NEW k \in Key, Prolong(v, k)
      PROVE  CounterInv'
  BY <1>1, <1>4, SetExptimeClock, SetExptimeKeepsInv, QuietKeeps DEF Prolong
<1>5. CASE Flush(v)
  <2>1. UNCHANGED clock
    BY <1>5 DEF Flush, FlushAll, Return
  <2> QED
    BY <1>1, <1>5, <2>1, FlushAllKeepsInv, QuietKeeps DEF Flush
<1> QED
  BY <1>2, <1>3, <1>4, <1>5

-----------------------------------------------------------------------------
(* Every step keeps the invariant.                                         *)
LEMMA CounterStep ==
  ASSUME CounterInv, Step
  PROVE  CounterInv'
<1>1. PICK w \in Worker :
        \/ \E k \in Key :
             \/ IncrLookup(w, k)
             \/ GetLookup(w, k)
             \/ SetString(w, k)
             \/ Del(w, k)
             \/ Prolong(w, k)
        \/ Flush(w)
        \/ IncrAdd(w)
        \/ IncrCreate(w)
        \/ Evict(w)
        \/ GetCopy(w)
  BY DEF Step
<1> QED
  BY <1>1, LookupsKeep, OthersKeep, AddKeeps, CreateKeeps, EvictKeeps, CopyKeeps

(* It holds in every state.                                                *)
THEOREM CounterAlways == CounterSpec => []CounterInv
<1>1. CounterInit => CounterInv
  <2>1. CounterInit => IInv
    BY InitInv DEF CounterInit
  <2> QED
    BY <2>1, CounterAssumption DEF CounterInit, Init, CounterInv, Held
<1>2. CounterInv /\ UNCHANGED allvars => CounterInv'
  BY DEF allvars, vars, CounterInv, IInv, TypeOK, Consistent, SlabSound,
         LockHeldByJob, SweepInsideQueue
<1> QED
  BY <1>1, <1>2, CounterStep, PTL DEF CounterSpec, CounterNext, Lost

(* Values, pointers and counts keep their types under unlocked adds.       *)
THEOREM CounterTypes == CounterSpec => []CounterTypeOK
<1>1. CounterInv => CounterTypeOK
  BY DEF CounterInv, CounterTypeOK, IInv, TypeOK, Zone
<1> QED
  BY <1>1, CounterAlways, PTL

-----------------------------------------------------------------------------
(* Increments answered and increments counted.  What must be carried along *)
(* is whose set the eviction loop is at work for.                          *)

(* What CountsExplained says of a step and a key.                          *)
Explained(k) ==
  Single(zone, k) /\ harmed' = {} =>
    /\ Unsettled(zone', acked', k) > Unsettled(zone, acked, k) =>
         \/ Hit(zone', k) = {}
         \/ \E a \in Hit(zone', k) : ~ IsCounter(zone'.node[a].val)
         \/ Count(zone, k) = Int64 - 1
         \/ \E w \in Worker :
              /\ held[w] \in Held /\ held[w].key = k
              /\ held[w].op \in {"create", "creating"} \/ Astray(w)
    /\ Unsettled(zone', acked', k) < Unsettled(zone, acked, k) =>
         \E w \in Worker : Astray(w) /\ held[w].op = "add"

(* The loop stores a string for a worker that holds nothing, and a new     *)
(* counter for one that is creating it.                                    *)
LoopKnown ==
  job # Nil =>
    /\ job \in InsertJob
    /\ held[mutex] = Nil => job.val \in Strings
    /\ held[mutex] # Nil => /\ held[mutex].op = "creating"
                            /\ held[mutex].key = job.key
                            /\ job.val = Counter(1)

(* The entries a get of k may hit.                                         *)
LEMMA HitIs ==
  ASSUME NEW z, GoodZone(z), NEW k
  PROVE  Hit(z, k) = {a \in Alloc(z) : /\ z.node[a].key = k
                                       /\ ~ Dead(z.node[a], BaseTime)}
BY FoundIs DEF Hit, Live

(* What a counter may say.                                                 *)
LEMMA CountIs ==
  ASSUME NEW z, GoodZone(z), NEW k
  PROVE  /\ Count(z, k) \in Nat
         /\ \/ \E a \in Hit(z, k) : /\ IsCounter(z.node[a].val)
                                    /\ Count(z, k) = z.node[a].val.n
            \/ /\ \A a \in Hit(z, k) : ~ IsCounter(z.node[a].val)
               /\ Count(z, k) = 0
<1> DEFINE counters == {z.node[a].val : a \in Hit(z, k)}
           c == CHOOSE v \in counters : IsCounter(v)
<1>1. Count(z, k) = IF \E v \in counters : IsCounter(v) THEN c.n ELSE 0
  BY DEF Count
<1>2. (\E v \in counters : IsCounter(v)) => c \in counters /\ IsCounter(c)
  OBVIOUS
<1> HIDE DEF c
<1>3. CASE \E v \in counters : IsCounter(v)
  <2>1. PICK a \in Hit(z, k) : c = z.node[a].val
    BY <1>2, <1>3
  <2>2. z.node[a] \in Node
    BY <2>1, HitIs DEF GoodZone, Zone, Alloc
  <2>3. c \in Value /\ c.n \in Nat
    BY <2>1, <2>2, CounterAssumption DEF Node
  <2> QED
    BY <1>1, <1>2, <1>3, <2>1, <2>3
<1>4. CASE ~ \E v \in counters : IsCounter(v)
  BY <1>1, <1>4
<1> QED
  BY <1>3, <1>4

(* The hits of k that are left are hits there were.                        *)
Carried(k, S) ==
  \A a \in Hit(zone', k) \ S :
    a \in Hit(zone, k) /\ zone'.node[a].val = zone.node[a].val

(* A step that only loses entries of k explains what happens to its count. *)
LEMMA KeptCounts ==
  ASSUME CounterInv, GoodZone(zone'), NEW k \in Key, Carried(k, {}),
         acked'[k] = acked[k]
  PROVE  Explained(k)
<1> SUFFICES ASSUME Single(zone, k), Hit(zone', k) # {}
             PROVE  Count(zone', k) = Count(zone, k)
  <2>1. Count(zone, k) \in Nat /\ Count(zone', k) \in Nat /\ acked[k] \in Nat
    BY CountIs DEF CounterInv, IInv, TypeOK, Consistent, SlabSound, GoodZone
  <2>2. Hit(zone', k) = {} => Count(zone', k) = 0
    BY CountIs
  <2> QED
    BY <2>1, <2>2 DEF Explained, Unsettled
<1>1. GoodZone(zone)
  BY DEF CounterInv, IInv, TypeOK, Consistent, SlabSound, GoodZone
<1>2. PICK a \in Hit(zone', k) : TRUE
  OBVIOUS
<1>3. \A b \in Hit(zone', k) \cup Hit(zone, k) : b = a
  BY <1>2 DEF Carried, Single
<1>4. zone'.node[a].val = zone.node[a].val /\ a \in Hit(zone, k)
  BY <1>2 DEF Carried
<1> QED
  BY <1>1, <1>2, <1>3, <1>4, CountIs

(* So does one that stores a string.                                       *)
LEMMA StringCounts ==
  ASSUME CounterInv, GoodZone(zone'), NEW k \in Key, NEW b \in Hit(zone', k),
         ~ IsCounter(zone'.node[b].val), Carried(k, {b}),
         acked'[k] = acked[k]
  PROVE  Explained(k)
<1> SUFFICES ASSUME Single(zone, k)
             PROVE  Count(zone', k) <= Count(zone, k)
  <2>1. Count(zone, k) \in Nat /\ Count(zone', k) \in Nat /\ acked[k] \in Nat
    BY CountIs DEF CounterInv, IInv, TypeOK, Consistent, SlabSound, GoodZone
  <2> QED
    BY <2>1 DEF Explained, Unsettled
<1>1. GoodZone(zone)
  BY DEF CounterInv, IInv, TypeOK, Consistent, SlabSound, GoodZone
<1>2. Count(zone, k) \in Nat
  BY <1>1, CountIs
<1>3. CASE Count(zone', k) = 0
  BY <1>2, <1>3
<1>4. ASSUME NEW a \in Hit(zone', k), IsCounter(zone'.node[a].val),
             Count(zone', k) = zone'.node[a].val.n
      PROVE  Count(zone', k) = Count(zone, k)
  <2>1. a \in Hit(zone, k) /\ zone'.node[a].val = zone.node[a].val
    BY <1>4 DEF Carried
  <2>2. \A c \in Hit(zone, k) : c = a
    BY <2>1 DEF Single
  <2> QED
    BY <1>1, <1>4, <2>1, <2>2, CountIs
<1> QED
  BY <1>2, <1>3, <1>4, CountIs

(* And one that stores a new counter and answers for it: what was counted  *)
(* before is lost, and the creator is the explanation.                     *)
LEMMA CreateCounts ==
  ASSUME CounterInv, GoodZone(zone'), NEW k \in Key, NEW b \in Hit(zone', k),
         zone'.node[b].val = Counter(1), Carried(k, {b}),
         acked'[k] = acked[k] + 1, NEW w \in Worker,
         held[w] \in Held, held[w].key = k,
         held[w].op \in {"create", "creating"}
  PROVE  Explained(k)
<1> SUFFICES ASSUME Single(zone, k)
             PROVE  Count(zone', k) <= Count(zone, k) + 1
  <2>1. Count(zone, k) \in Nat /\ Count(zone', k) \in Nat /\ acked[k] \in Nat
    BY CountIs DEF CounterInv, IInv, TypeOK, Consistent, SlabSound, GoodZone
  <2> QED
    BY <2>1 DEF Explained, Unsettled
<1>1. GoodZone(zone)
  BY DEF CounterInv, IInv, TypeOK, Consistent, SlabSound, GoodZone
<1>2. Count(zone, k) \in Nat
  BY <1>1, CountIs
<1>3. CASE Count(zone', k) = 0
  BY <1>2, <1>3
<1>4. ASSUME NEW a \in Hit(zone', k), IsCounter(zone'.node[a].val),
             Count(zone', k) = zone'.node[a].val.n
      PROVE  Count(zone', k) <= Count(zone, k) + 1
  <2>1. CASE a = b
    BY <1>2, <1>4, <2>1 DEF Counter
  <2>2. CASE a # b
    <3>1. a \in Hit(zone, k) /\ zone'.node[a].val = zone.node[a].val
      BY <1>4, <2>2 DEF Carried
    <3>2. \A c \in Hit(zone, k) : c = a
      BY <3>1 DEF Single
    <3>3. Count(zone', k) = Count(zone, k)
      BY <1>1, <1>4, <3>1, <3>2, CountIs
    <3> QED
      BY <1>2, <3>3
  <2> QED
    BY <2>1, <2>2
<1> QED
  BY <1>2, <1>3, <1>4, CountIs

(* What a zone that has only lost entries carries over ...                 *)
LEMMA KeptCarries ==
  ASSUME GoodZone(zone), GoodZone(zone'), Kept(zone', zone), NEW k
  PROVE  Carried(k, {})
BY HitIs DEF Carried, Kept

(* ... and one that has stored an entry n.                                 *)
LEMMA PutsCarries ==
  ASSUME GoodZone(zone), GoodZone(zone'), NEW b, NEW n \in Node,
         Puts(zone', zone, b, n), ~ Dead(n, BaseTime)
  PROVE  /\ b \in Hit(zone', n.key) /\ zone'.node[b].val = n.val
         /\ Carried(n.key, {b})
         /\ \A k : k # n.key => Carried(k, {})
<1>1. b \in Alloc(zone') /\ zone'.node[b] = n
  BY NilAssumption DEF Puts, Alloc
<1> QED
  BY <1>1, HitIs DEF Carried, Puts

(* What a set stores is not dead when it is stored.                        *)
LEMMA EntryLives ==
  ASSUME NEW k \in Key, NEW v \in Value, NEW ttl \in TTL
  PROVE  LET n == Entry(k, v, ttl, BaseTime)
         IN n \in Node /\ n.key = k /\ n.val = v /\ ~ Dead(n, BaseTime)
<1>1. BaseTime \in Nat
  BY TimeAssumption
<1>2. Entry(k, v, ttl, BaseTime) \in Node
  BY <1>1, EntryType
<1>3. Deadline(ttl, BaseTime) = 0 \/ Deadline(ttl, BaseTime) >= BaseTime
  <2>1. ttl * Msec \in Nat
    BY TimeAssumption
  <2>2. (ttl * Msec) % Uint32 \in Nat
    <3>1. \A x \in Nat, y \in Nat \ {0} : x % y \in Nat
      OBVIOUS
    <3> QED
      BY <2>1, <3>1, TimeAssumption
  <2> DEFINE x == (ttl * Msec) % Uint32
  <2>3. Deadline(ttl, BaseTime) = IF ttl > 0 THEN BaseTime + x ELSE 0
    BY DEF Deadline
  <2> HIDE DEF x
  <2>4. BaseTime + x >= BaseTime
    BY <1>1, <2>2 DEF x
  <2> QED
    BY <2>3, <2>4
<1>4. Deadline(ttl, BaseTime) \in Nat
  BY <1>1, DeadlineType
<1> QED
  BY <1>1, <1>2, <1>3, <1>4 DEF Entry, Dead

-----------------------------------------------------------------------------
(* The steps, one by one.                                                  *)
Accounts == \A k \in Key : Explained(k)

(* The zone before a step, and after one that keeps the invariant.         *)
LEMMA ZonesGood ==
  ASSUME CounterInv, IInv'
  PROVE  /\ GoodZone(zone) /\ GoodZone(zone') /\ IInv
         /\ \A w \in Worker : clock[w] = BaseTime
BY DEF CounterInv, IInv, TypeOK, Consistent, SlabSound, GoodZone

(* Whoever works outside the loop leaves it known.                         *)
LEMMA LoopStays ==
  ASSUME CounterInv, LoopKnown, UNCHANGED <<mutex, job>>, NEW v \in Worker,
         \/ UNCHANGED held
         \/ mutex # v /\ \E h : held' = [held EXCEPT ![v] = h]
  PROVE  LoopKnown'
<1>1. job # Nil => mutex \in Worker
  BY DEF CounterInv, IInv, TypeOK, LockHeldByJob
<1>2. job # Nil => held'[mutex] = held[mutex]
  BY <1>1 DEF CounterInv
<1> QED
  BY <1>2 DEF LoopKnown

(* A worker with a pointer is not in the loop.                             *)
LEMMA PointerOutside ==
  ASSUME CounterInv, LoopKnown, NEW v \in Worker, held[v] # Nil,
         held[v].op # "creating"
  PROVE  mutex # v
BY NilAssumption DEF LoopKnown, CounterInv, IInv, LockHeldByJob

(* Steps that leave zone and answers alone change no count.                *)
LEMMA SameCounts ==
  ASSUME CounterInv, IInv', UNCHANGED <<zone, acked>>
  PROVE  Accounts
<1>1. ASSUME NEW k \in Key
      PROVE  Carried(k, {}) /\ acked'[k] = acked[k]
  BY DEF Carried
<1> QED
  BY <1>1, ZonesGood, KeptCounts DEF Accounts

(* Nor do steps that lose entries.                                         *)
LEMMA LosingCounts ==
  ASSUME CounterInv, IInv', Kept(zone', zone), UNCHANGED acked
  PROVE  Accounts
<1>1. \A k \in Key : acked'[k] = acked[k]
  OBVIOUS
<1> QED
  BY <1>1, ZonesGood, KeptCarries, KeptCounts DEF Accounts

(* inc_int's lookup and the interface's Get.                               *)
LEMMA LookupCounts ==
  ASSUME CounterInv, LoopKnown, IInv', NEW v \in Worker, NEW k \in Key,
         IncrLookup(v, k) \/ GetLookup(v, k)
  PROVE  LoopKnown' /\ Accounts
<1>1. Get(v, k) /\ UNCHANGED acked
  BY DEF IncrLookup, GetLookup
<1>2. Kept(zone', zone)
  BY <1>1, GetEffect, ZonesGood
<1>3. UNCHANGED <<mutex, job>> /\ mutex # v
  BY <1>1, NilAssumption DEF Get, RejectKey, Return
<1>4. UNCHANGED held \/ \E h : held' = [held EXCEPT ![v] = h]
  BY DEF IncrLookup, GetLookup, Hold
<1> QED
  BY <1>1, <1>2, <1>3, <1>4, LosingCounts, LoopStays

(* delete.                                                                 *)
LEMMA DelCounts ==
  ASSUME CounterInv, LoopKnown, IInv', NEW v \in Worker, NEW k \in Key,
         Del(v, k)
  PROVE  LoopKnown' /\ Accounts
<1>1. Delete(v, k) /\ UNCHANGED <<held, acked>>
  BY DEF Del, Quietly
<1>2. Kept(zone', zone)
  BY <1>1, DeleteEffect, ZonesGood
<1>3. UNCHANGED <<mutex, job>>
  BY <1>1 DEF Delete, Return
<1> QED
  BY <1>1, <1>2, <1>3, LosingCounts, LoopStays

(* set_exptime: a live entry stays one.                                    *)
LEMMA ProlongCounts ==
  ASSUME CounterInv, LoopKnown, IInv', NEW v \in Worker, NEW k \in Key,
         Prolong(v, k)
  PROVE  LoopKnown' /\ Accounts
<1>1. PICK ttl \in TTL : SetExptime(v, k, ttl)
  BY DEF Prolong
<1>2. UNCHANGED <<held, acked>>
  BY DEF Prolong, Quietly
<1>3. UNCHANGED <<mutex, job>>
  BY <1>1 DEF SetExptime, RejectKey, Return
<1>4. CASE Kept(zone', zone)
  BY <1>2, <1>3, <1>4, LosingCounts, LoopStays
<1>5. ASSUME NEW a \in Alloc(zone), zone.node[a].key = k,
             ~ Dead(zone.node[a], BaseTime),
             Puts(zone', zone, a, [zone.node[a] EXCEPT
                                     !.exp = Deadline(ttl, clock[v])])
      PROVE  Accounts
  <2>1. GoodZone(zone) /\ GoodZone(zone') /\ zone.node[a] \in Node
    BY ZonesGood DEF GoodZone, Zone, Alloc
  <2>2. a \in Hit(zone, k)
    BY <1>5, <2>1, HitIs
  <2>3. ASSUME NEW j \in Key, NEW b \in Hit(zone', j)
        PROVE  b \in Hit(zone, j) /\ zone'.node[b].val = zone.node[b].val
    <3>1. b \in Alloc(zone') /\ zone'.node[b].key = j
          /\ ~ Dead(zone'.node[b], BaseTime)
      BY <2>1, HitIs
    <3>2. CASE b = a
      BY <1>5, <2>1, <2>2, <3>1, <3>2 DEF Puts, Node
    <3>3. CASE b # a
      BY <1>5, <2>1, <3>1, <3>3, HitIs DEF Puts
    <3> QED
      BY <3>2, <3>3
  <2>4. \A j \in Key : Carried(j, {}) /\ acked'[j] = acked[j]
    BY <1>2, <2>3 DEF Carried
  <2> QED
    BY <2>1, <2>4, KeptCounts DEF Accounts
<1>6. LoopKnown'
  BY <1>2, <1>3, LoopStays
<1> QED
  BY <1>1, <1>4, <1>5, <1>6, SetExptimeEffect, ZonesGood

(* flush_all: nothing is left to hit.                                      *)
LEMMA FlushCounts ==
  ASSUME CounterInv, LoopKnown, IInv', NEW v \in Worker, Flush(v)
  PROVE  LoopKnown' /\ Accounts
<1> DEFINE aged == [a \in Addr |-> IF a \in ToSet(zone.queue)
                                   THEN [zone.node[a] EXCEPT !.exp = 1]
                                   ELSE zone.node[a]]
           y == [zone EXCEPT !.node = aged]
<1>1. UNCHANGED <<held, acked, mutex, job>> /\ zone' = ExpireForced(y, clock[v])
  BY DEF Flush, FlushAll, Quietly, Return
<1>2. LoopKnown'
  BY <1>1, LoopStays
<1>3. GoodZone(zone) /\ GoodZone(zone') /\ GoodZone(y)
  BY ZonesGood, AgedGood
<1>4. \A a \in Alloc(y) : y.node[a].exp = 1
  <2>1. y.node = aged
    BY <1>3 DEF GoodZone, Zone
  <2>2. \A a \in Addr : zone.node[a] # Nil => a \in ToSet(zone.queue)
    BY <1>3 DEF GoodZone, Indexed, Alloc
  <2>3. ASSUME NEW a \in Addr, aged[a] # Nil
        PROVE  aged[a].exp = 1
    <3>1. zone.node[a] # Nil
      BY <1>3, <2>2, <2>3, NilAssumption DEF GoodZone, Indexed, Alloc
    <3>2. zone.node[a] \in Node
      BY <1>3, <3>1 DEF GoodZone, Zone
    <3> QED
      BY <2>2, <3>1, <3>2 DEF Node
  <2> QED
    BY <2>1, <2>3 DEF Alloc
<1> HIDE DEF y
<1>5. Kept(zone', y)
  <2>1. CASE y.queue = <<>>
    BY <1>1, <2>1 DEF ExpireForced, Kept
  <2>2. CASE y.queue # <<>>
    BY <1>1, <1>3, <2>2, ExpireForcedCuts
  <2> QED
    BY <2>1, <2>2
<1>6. \A k : Hit(zone', k) = {}
  BY <1>3, <1>4, <1>5, HitIs, TimeAssumption DEF Kept, Dead
<1>7. \A k \in Key : Carried(k, {}) /\ acked'[k] = acked[k]
  BY <1>1, <1>6 DEF Carried
<1> QED
  BY <1>2, <1>3, <1>7, KeptCounts DEF Accounts

(* The copy.                                                               *)
LEMMA CopyCounts ==
  ASSUME CounterInv, LoopKnown, IInv', NEW v \in Worker, GetCopy(v)
  PROVE  LoopKnown' /\ Accounts
<1>1. UNCHANGED <<zone, acked, mutex, job>>
      /\ held' = [held EXCEPT ![v] = Nil]
  BY DEF GetCopy, Release
<1>2. mutex # v
  BY PointerOutside DEF GetCopy, Idle
<1> QED
  BY <1>1, <1>2, SameCounts, LoopStays

(* A stored entry is a string nobody is answered for, or a new counter one *)
(* worker is answered for.                                                 *)
LEMMA StoringCounts ==
  ASSUME CounterInv, IInv', NEW k \in Key, NEW v \in Value, NEW ttl \in TTL,
         NEW b, Puts(zone', zone, b, Entry(k, v, ttl, BaseTime)),
         \/ v \in Strings /\ UNCHANGED acked
         \/ /\ v = Counter(1)
            /\ acked' = [acked EXCEPT ![k] = @ + 1]
            /\ \E w \in Worker : /\ held[w] \in Held /\ held[w].key = k
                                 /\ held[w].op \in {"create", "creating"}
  PROVE  Accounts
<1> DEFINE n == Entry(k, v, ttl, BaseTime)
<1>1. n \in Node /\ n.key = k /\ n.val = v /\ ~ Dead(n, BaseTime)
  BY EntryLives
<1>2. Puts(zone', zone, b, n)
  OBVIOUS
<1> HIDE DEF n
<1>3. /\ b \in Hit(zone', k) /\ zone'.node[b].val = v
      /\ Carried(k, {b})
      /\ \A j : j # k => Carried(j, {})
  BY <1>1, <1>2, PutsCarries, ZonesGood
<1>4. \A j \in Key : j # k => acked'[j] = acked[j]
  BY DEF CounterInv
<1>5. ASSUME NEW j \in Key, j # k
      PROVE  Explained(j)
  BY <1>3, <1>4, <1>5, KeptCounts, ZonesGood
<1>6. CASE v \in Strings /\ UNCHANGED acked
  <2>1. ~ IsCounter(v)
    BY <1>6 DEF Strings, IsCounter
  <2> QED
    BY <1>3, <1>5, <1>6, <2>1, StringCounts, ZonesGood DEF Accounts
<1>7. ASSUME v = Counter(1), acked' = [acked EXCEPT ![k] = @ + 1],
             NEW w \in Worker, held[w] \in Held, held[w].key = k,
             held[w].op \in {"create", "creating"}
      PROVE  Accounts
  <2>1. acked'[k] = acked[k] + 1
    BY <1>7 DEF CounterInv
  <2> QED
    BY <1>3, <1>5, <1>7, <2>1, CreateCounts, ZonesGood DEF Accounts
<1> QED
  BY <1>6, <1>7

(* The loop is entered with a key and a value that are known.              *)
LEMMA EntersKnown ==
  ASSUME CounterInv, IInv', NEW w \in Worker, NEW k \in Key, NEW v \in Value,
         NEW ttl \in TTL, SetLoops(w, k, v, ttl),
         \/ held'[w] = Nil /\ v \in Strings
         \/ /\ held'[w] # Nil /\ held'[w].op = "creating" /\ held'[w].key = k
            /\ v = Counter(1)
  PROVE  LoopKnown'
<1>1. job'.op = "insert" /\ job'.key = k /\ job'.val = v /\ mutex' = w
      /\ job' = [op |-> "insert", key |-> k, val |-> v, ttl |-> ttl, tries |-> 0]
  BY DEF SetLoops
<1>2. job' \in InsertJob
  BY <1>1, BoundAssumption DEF InsertJob
<1> QED
  BY <1>1, <1>2 DEF LoopKnown

(* set, of a string.                                                       *)
LEMMA SetStringCounts ==
  ASSUME CounterInv, LoopKnown, IInv', NEW w \in Worker, NEW k \in Key,
         SetString(w, k)
  PROVE  LoopKnown' /\ Accounts
<1>1. PICK v \in Strings, ttl \in TTL : Set(w, k, v, ttl)
  BY DEF SetString
<1>2. v \in Value /\ held[w] = Nil /\ UNCHANGED <<held, acked>>
      /\ clock[w] = BaseTime /\ IInv
  BY ZonesGood DEF SetString, Strings, Idle, Quietly
<1>3. CASE RejectKey(w, "set", k)
  BY <1>2, <1>3, SameCounts, LoopStays DEF RejectKey
<1>4. CASE SetStored(w, k, v, ttl)
  BY <1>2, <1>4, StoringCounts, LoopStays DEF SetStored
<1>5. CASE SetLoops(w, k, v, ttl)
  <2>1. Accounts
    BY <1>2, <1>5, LosingCounts DEF SetLoops
  <2> QED
    BY <1>2, <1>5, <2>1, EntersKnown
<1> QED
  BY <1>1, <1>2, <1>3, <1>4, <1>5, SetEffect

(* inc_int's set, of a new counter.                                        *)
LEMMA CreateStepCounts ==
  ASSUME CounterInv, LoopKnown, IInv', NEW w \in Worker, IncrCreate(w)
  PROVE  LoopKnown' /\ Accounts
<1> DEFINE k == held[w].key
<1>1. /\ held[w] \in Held /\ held[w].op = "create" /\ k \in Key
      /\ Set(w, k, Counter(1), 0)
      /\ clock[w] = BaseTime /\ IInv
  BY HeldIs, ZonesGood DEF IncrCreate, Idle, CounterInv
<1>2. Counter(1) \in Value /\ 0 \in TTL /\ held[w] # Nil
  BY <1>1, HeldIs, CounterType, CounterAssumption
<1>3. mutex # w
  BY <1>1, <1>2, PointerOutside
<1> HIDE DEF k
<1>4. \/ mutex' = w /\ Hold(w, "creating", k, Nil, 0) /\ UNCHANGED acked
      \/ /\ mutex' = Nil
         /\ Release(w)
         /\ acked' = [acked EXCEPT ![k] = IF ret'.rc = "ok" THEN @ + 1 ELSE @]
  BY DEF IncrCreate, k
<1>5. \E h : held' = [held EXCEPT ![w] = h]
  BY <1>4 DEF Hold, Release
<1>6. CASE RejectKey(w, "set", k)
  <2>1. UNCHANGED <<zone, mutex, job>> /\ ret'.rc = "error"
    BY <1>6 DEF RejectKey, Call
  <2>2. acked' = acked
    BY <1>3, <1>4, <2>1 DEF CounterInv
  <2> QED
    BY <1>3, <1>5, <2>1, <2>2, SameCounts, LoopStays
<1>7. ASSUME mutex = Nil, SetStored(w, k, Counter(1), 0)
      PROVE  LoopKnown' /\ Accounts
  <2>1. UNCHANGED <<mutex, job>> /\ ret'.rc = "ok"
    BY <1>7 DEF SetStored, Call
  <2>2. acked' = [acked EXCEPT ![k] = @ + 1]
    BY <1>3, <1>4, <2>1
  <2>3. PICK b \in Addr : Puts(zone', zone, b, Entry(k, Counter(1), 0, BaseTime))
    BY <1>1, <1>7 DEF SetStored
  <2>4. \E u \in Worker : /\ held[u] \in Held /\ held[u].key = k
                          /\ held[u].op \in {"create", "creating"}
    BY <1>1 DEF k
  <2>5. Accounts
    BY <1>1, <1>2, <2>2, <2>3, <2>4, StoringCounts
  <2> QED
    BY <1>3, <1>5, <2>1, <2>5, LoopStays
<1>8. CASE SetLoops(w, k, Counter(1), 0)
  <2>1. mutex' = w /\ Kept(zone', zone)
    BY <1>8 DEF SetLoops
  <2>2. Hold(w, "creating", k, Nil, 0) /\ UNCHANGED acked
    BY <1>4, <2>1, NilAssumption
  <2>3. Accounts
    BY <2>1, <2>2, LosingCounts
  <2>4. held'[w] = [op |-> "creating", key |-> k, at |-> Nil, len |-> 0]
    BY <2>2 DEF Hold, CounterInv
  <2>5. held'[w].op = "creating" /\ held'[w].key = k
    BY <2>4
  <2>6. held'[w] # Nil
    BY <1>1, <2>4, Holding, CounterAssumption
  <2> QED
    BY <1>1, <1>2, <1>8, <2>3, <2>5, <2>6, EntersKnown
<1> QED
  BY <1>1, <1>2, <1>6, <1>7, <1>8, SetEffect

(* The turns of insert's loop.                                             *)
LEMMA EvictCounts ==
  ASSUME CounterInv, LoopKnown, IInv', NEW w \in Worker, Evict(w)
  PROVE  LoopKnown' /\ Accounts
<1>1. /\ mutex = w /\ job \in InsertJob /\ job # Nil
      /\ clock[w] = BaseTime /\ GoodZone(zone) /\ IInv
  BY ZonesGood, NilAssumption DEF Evict, EvictRound, EvictGiveUp
<1>2. job.key \in Key /\ job.val \in Value /\ job.ttl \in TTL
  BY <1>1 DEF InsertJob
<1>3. /\ held[w] = Nil => job.val \in Strings
      /\ held[w] # Nil => /\ held[w].op = "creating" /\ held[w].key = job.key
                          /\ job.val = Counter(1)
  BY <1>1 DEF LoopKnown
<1>4. held[w] \in Held \cup {Nil}
  BY DEF CounterInv
<1>5. CASE EvictGiveUp(w)
  <2>1. zone' = zone /\ job' = Nil /\ ret'.rc = "error"
    BY <1>5 DEF EvictGiveUp, Unlock, Call
  <2>2. UNCHANGED acked
    BY <2>1 DEF Evict, CounterInv
  <2> QED
    BY <2>1, <2>2, SameCounts DEF LoopKnown
<1>6. CASE EvictRound(w)
  <2> DEFINE z == ExpireForced(zone, clock[w])
  <2>1. Kept(z, zone) /\ GoodZone(z)
    BY <1>1, <1>6, ExpireForcedCuts DEF EvictRound
  <2> HIDE DEF z
  <2>2. ASSUME NEW a \in Room(z, job.val),
               zone' = Link(z, a, Entry(job.key, job.val, job.ttl, clock[w])),
               Unlock(Call("set", job.key, job.val, "ok"))
        PROVE  LoopKnown' /\ Accounts
    <3>1. job' = Nil /\ ret'.rc = "ok"
      BY <2>2 DEF Unlock, Call
    <3>2. Puts(zone', z, a, Entry(job.key, job.val, job.ttl, BaseTime))
      BY <1>1, <1>2, <2>1, <2>2, RoomFree, LinkPuts
    <3>3. Puts(zone', zone, a, Entry(job.key, job.val, job.ttl, BaseTime))
      BY <2>1, <3>2 DEF Puts, Kept
    <3>4. \/ job.val \in Strings /\ UNCHANGED acked
          \/ /\ job.val = Counter(1)
             /\ acked' = [acked EXCEPT ![job.key] = @ + 1]
             /\ \E u \in Worker : /\ held[u] \in Held /\ held[u].key = job.key
                                  /\ held[u].op \in {"create", "creating"}
      <4>1. CASE held[w] = Nil
        BY <1>3, <3>1, <4>1 DEF Evict, Idle
      <4>2. CASE held[w] # Nil
        <5>1. acked' = [acked EXCEPT ![held[w].key] =
                          IF ret'.rc = "ok" THEN @ + 1 ELSE @]
          BY <3>1, <4>2 DEF Evict, Idle
        <5>2. acked' = [acked EXCEPT ![job.key] = @ + 1]
          BY <1>3, <3>1, <4>2, <5>1
        <5> QED
          BY <1>3, <1>4, <4>2, <5>2
      <4> QED
        BY <4>1, <4>2
    <3>5. Accounts
      BY <1>2, <3>3, <3>4, StoringCounts
    <3> QED
      BY <3>1, <3>5 DEF LoopKnown
  <2>3. ASSUME zone' = z, job' = [job EXCEPT !.tries = @ + 1], mutex' = mutex
        PROVE  LoopKnown' /\ Accounts
    <3>1. job'.op = "insert" /\ job'.key = job.key /\ job'.val = job.val
      BY <1>1, <2>3 DEF InsertJob
    <3>2. job' \in InsertJob /\ job' # Nil
      <4>1. job' \in InsertJob \cup SweepJob \cup {Nil}
        BY DEF IInv, TypeOK
      <4>2. job.tries + 1 \in 0 .. MaxExpireCount
        BY <1>1, <1>6, BoundAssumption DEF EvictRound, TurnsLeft, InsertJob
      <4> QED
        BY <1>1, <2>3, <4>2, NilAssumption DEF InsertJob
    <3>3. UNCHANGED <<held, acked>>
      BY <3>2 DEF Evict
    <3>4. Accounts
      BY <2>1, <2>3, <3>3, LosingCounts
    <3> QED
      BY <1>1, <1>3, <2>3, <3>1, <3>2, <3>3, <3>4 DEF LoopKnown
  <2> QED
    BY <1>6, <2>2, <2>3 DEF EvictRound, z
<1> QED
  BY <1>5, <1>6 DEF Evict

(* An increment lands on its own counter, or on whatever a pointer gone    *)
(* astray leads to; only a sum that wraps takes anything away.             *)
LEMMA AddCounts ==
  ASSUME CounterInv, LoopKnown, IInv', NEW w \in Worker, IncrAdd(w)
  PROVE  LoopKnown' /\ Accounts
<1> DEFINE a == held[w].at
           K == held[w].key
<1>1. /\ held[w] \in Pointing /\ held[w] \in Held /\ held[w].op = "add"
      /\ a \in Addr /\ K \in Key /\ GoodZone(zone) /\ GoodZone(zone')
  BY HeldIs, ZonesGood DEF IncrAdd, Idle, CounterInv
<1>2. /\ UNCHANGED <<mutex, job>> /\ held' = [held EXCEPT ![w] = Nil]
      /\ acked' = [acked EXCEPT ![K] = acked[K] + 1]
      /\ \/ zone' = IF zone.node[a] = Nil THEN zone
                    ELSE [zone EXCEPT !.node[a].val = AddOne(@)]
         \/ harmed' = {a}
  BY DEF IncrAdd, Release
<1>3. LoopKnown'
  <2>1. mutex # w
    BY PointerOutside DEF IncrAdd, Idle
  <2> QED
    BY <1>2, <2>1, LoopStays
<1>s. SUFFICES ASSUME zone' = IF zone.node[a] = Nil THEN zone
                              ELSE [zone EXCEPT !.node[a].val = AddOne(@)]
               PROVE  Accounts
  <2>1. harmed' = {a} => Accounts
    BY DEF Accounts, Explained
  <2> QED
    BY <1>2, <1>3, <2>1
<1>4. ASSUME NEW k \in Key, Astray(w), k = K \/ a \in Hit(zone, k),
             Single(zone, k), Count(zone', k) >= Count(zone, k)
                              \/ k = K
                              \/ Count(zone, k) = Int64 - 1
      PROVE  Explained(k)
  <2>1. Count(zone, k) \in Nat /\ Count(zone', k) \in Nat
        /\ acked[k] \in Nat /\ acked'[k] \in Nat /\ acked'[k] >= acked[k]
    BY <1>1, <1>2, CountIs DEF CounterInv
  <2>2. Count(zone', k) >= Count(zone, k) /\ k # K =>
          ~ (Unsettled(zone', acked', k) > Unsettled(zone, acked, k))
    <3>1. k # K => acked'[k] = acked[k]
      BY <1>2 DEF CounterInv
    <3> QED
      BY <2>1, <3>1 DEF Unsettled
  <2> QED
    BY <1>1, <1>4, <2>2 DEF Explained
<1>5. zone'.tree = zone.tree /\ Alloc(zone') = Alloc(zone)
      /\ (\A b \in Addr \ {a} : zone'.node[b] = zone.node[b])
      /\ (zone.node[a] # Nil =>
            /\ zone'.node[a].key = zone.node[a].key
            /\ zone'.node[a].exp = zone.node[a].exp
            /\ zone'.node[a].val = AddOne(zone.node[a].val))
  <2>1. CASE zone.node[a] = Nil
    BY <1>s, <2>1
  <2>2. CASE zone.node[a] # Nil
    <3> DEFINE n == [zone.node[a] EXCEPT !.val = AddOne(@)]
    <3>1. zone.node[a] \in Node /\ zone \in Zone
          /\ zone.node \in [Addr -> Node \cup {Nil}]
      BY <1>1, <2>2 DEF GoodZone, Zone
    <3>2. zone' = [zone EXCEPT !.node[a] = n]
      BY <1>s, <2>2
    <3>3. /\ n \in Node /\ n.key = zone.node[a].key
          /\ n.exp = zone.node[a].exp /\ n.val = AddOne(zone.node[a].val)
      BY <3>1, SumType DEF Node
    <3> HIDE DEF n
    <3>4. zone'.node = [zone.node EXCEPT ![a] = n] /\ zone'.tree = zone.tree
      BY <3>1, <3>2 DEF Zone
    <3> QED
      BY <1>1, <2>2, <3>1, <3>3, <3>4, NilAssumption DEF Alloc
  <2> QED
    BY <2>1, <2>2
<1>6. ASSUME NEW k
      PROVE  Hit(zone', k) = Hit(zone, k)
  <2>1. \A b \in Alloc(zone) : /\ zone'.node[b].key = zone.node[b].key
                               /\ zone'.node[b].exp = zone.node[b].exp
    BY <1>5 DEF Alloc
  <2>2. /\ Hit(zone, k) = {b \in Alloc(zone) : /\ zone.node[b].key = k
                                               /\ ~ Dead(zone.node[b], BaseTime)}
        /\ Hit(zone', k) = {b \in Alloc(zone') : /\ zone'.node[b].key = k
                                                 /\ ~ Dead(zone'.node[b], BaseTime)}
    BY <1>1, HitIs
  <2>3. Alloc(zone') = Alloc(zone)
    BY <1>5
  <2>4. \A b \in Alloc(zone) : Dead(zone'.node[b], BaseTime)
                                 <=> Dead(zone.node[b], BaseTime)
    BY <2>1 DEF Dead
  <2> QED
    BY <2>1, <2>2, <2>3, <2>4
<1> HIDE DEF a, K
<1>7. ASSUME NEW k \in Key, k # K, a \notin Hit(zone, k)
      PROVE  Explained(k)
  <2>1. acked'[k] = acked[k]
    BY <1>2, <1>7 DEF CounterInv
  <2>2. Carried(k, {})
    BY <1>1, <1>5, <1>6, <1>7, HitIs DEF Carried, Alloc
  <2> QED
    BY <1>1, <2>1, <2>2, KeptCounts
<1>8. ASSUME NEW k \in Key, a \in Hit(zone, k), Single(zone, k)
      PROVE  LET c == Count(zone, k)
                 d == Count(zone', k)
             IN \/ IsCounter(zone'.node[a].val) /\ d = c + 1
                \/ c = Int64 - 1 /\ d = 0
                \/ ~ IsCounter(zone'.node[a].val) /\ d = c
  <2> DEFINE v == zone.node[a].val
  <2>1. a \in Alloc(zone) /\ zone.node[a] \in Node /\ zone.node[a] # Nil
    BY <1>1, <1>8, HitIs DEF GoodZone, Zone, Alloc
  <2>2. v \in Value /\ v \in [type : {"string", "int64", "long"}, n : 0 .. Int64 - 1]
    BY <2>1, CounterAssumption DEF Node
  <2>3. /\ zone'.node[a].val.type = v.type
        /\ zone'.node[a].val.n = (v.n + 1) % Int64
    BY <1>5, <2>1, <2>2 DEF AddOne
  <2>4. \A b \in Hit(zone, k) : b = a
    BY <1>8 DEF Single
  <2>5. CASE ~ IsCounter(v)
    <3>1. Count(zone, k) = 0 /\ Count(zone', k) = 0
      BY <1>1, <1>6, <2>3, <2>4, <2>5, CountIs DEF IsCounter
    <3> QED
      BY <2>3, <2>5, <3>1 DEF IsCounter
  <2>6. CASE IsCounter(v)
    <3>1. Count(zone, k) = v.n /\ Count(zone', k) = (v.n + 1) % Int64
      BY <1>1, <1>6, <1>8, <2>3, <2>4, <2>6, CountIs DEF IsCounter
    <3>2. v.n \in Nat /\ Int64 \in Nat \ {0} /\ v.n <= Int64 - 1
      BY <2>2, CounterAssumption
    <3> HIDE DEF v
    <3>3. v.n < Int64 - 1 => (v.n + 1) % Int64 = v.n + 1
      <4>1. \A x \in Nat, y \in Nat \ {0} : x < y => x % y = x
        OBVIOUS
      <4> QED
        BY <3>2, <4>1
    <3>4. v.n = Int64 - 1 => (v.n + 1) % Int64 = 0
      <4>1. \A y \in Nat \ {0} : y % y = 0
        OBVIOUS
      <4>2. v.n = Int64 - 1 => v.n + 1 = Int64
        BY <3>2
      <4> QED
        BY <3>2, <4>1, <4>2
    <3>5. IsCounter(zone'.node[a].val)
      BY <2>3, <2>6 DEF IsCounter, v
    <3> QED
      BY <3>1, <3>2, <3>3, <3>4, <3>5
  <2> QED
    BY <2>5, <2>6
<1>9. ASSUME NEW k \in Key, a \in Hit(zone, k) \/ k = K
      PROVE  Explained(k)
  <2> SUFFICES ASSUME Single(zone, k)
               PROVE  Explained(k)
    BY DEF Explained
  <2>1. CASE k = K /\ a \notin Hit(zone, k)
    <3>1. Astray(w)
      BY <1>1, <2>1 DEF Astray, a, K
    <3> QED
      BY <1>4, <2>1, <3>1 DEF K
  <2>2. CASE k # K
    <3>1. a \in Hit(zone, k)
      BY <1>9, <2>2
    <3>2. a \notin Hit(zone, K)
      BY <1>1, <2>2, <3>1, HitIs
    <3>3. Astray(w)
      BY <1>1, <3>2 DEF Astray, a, K
    <3>4. Count(zone, k) \in Nat
      BY <1>1, CountIs
    <3>5. Count(zone', k) >= Count(zone, k) \/ Count(zone, k) = Int64 - 1
      BY <1>8, <3>1, <3>4
    <3> QED
      BY <1>4, <3>1, <3>3, <3>5 DEF a
  <2>3. CASE k = K /\ a \in Hit(zone, k)
    <3>1. acked'[k] = acked[k] + 1 /\ acked[k] \in Nat
      BY <1>2, <2>3 DEF CounterInv
    <3>2. Count(zone, k) \in Nat
      BY <1>1, CountIs
    <3>3. CASE IsCounter(zone'.node[a].val) /\ Count(zone', k) = Count(zone, k) + 1
      BY <3>1, <3>2, <3>3 DEF Explained, Unsettled
    <3>4. CASE Count(zone, k) = Int64 - 1 /\ Count(zone', k) = 0
      BY <3>1, <3>2, <3>4 DEF Explained, Unsettled
    <3>5. CASE ~ IsCounter(zone'.node[a].val) /\ Count(zone', k) = Count(zone, k)
      <4>1. \E b \in Hit(zone', k) : ~ IsCounter(zone'.node[b].val)
        BY <1>6, <2>3, <3>5
      <4> QED
        BY <3>1, <3>2, <3>5, <4>1 DEF Explained, Unsettled
    <3> QED
      BY <1>8, <2>3, <3>3, <3>4, <3>5
  <2> QED
    BY <1>9, <2>1, <2>2, <2>3
<1> QED
  BY <1>7, <1>9 DEF Accounts

(* Every step explains what it does to each count.                         *)
LEMMA StepCounts ==
  ASSUME CounterInv, LoopKnown, Step
  PROVE  LoopKnown' /\ Accounts
<1>1. IInv'
  BY CounterStep DEF CounterInv
<1>2. PICK w \in Worker :
        \/ \E k \in Key :
             \/ IncrLookup(w, k)
             \/ GetLookup(w, k)
             \/ SetString(w, k)
             \/ Del(w, k)
             \/ Prolong(w, k)
        \/ Flush(w)
        \/ IncrAdd(w)
        \/ IncrCreate(w)
        \/ Evict(w)
        \/ GetCopy(w)
  BY DEF Step
<1> QED
  BY <1>1, <1>2, LookupCounts, SetStringCounts, DelCounts, ProlongCounts,
     FlushCounts, AddCounts, CreateStepCounts, EvictCounts, CopyCounts

(* What a counter says and what its increments were answered differ only   *)
(* for the reasons named: no unlocked increment of an existing counter is  *)
(* lost, whatever the other workers do to its entry.                       *)
THEOREM EveryIncrementExplained == CounterSpec => CountsExplained
<1>1. CounterInit => LoopKnown
  BY DEF CounterInit, Init, LoopKnown
<1>2. CounterInv /\ LoopKnown /\ [CounterNext]_allvars => LoopKnown'
  BY StepCounts DEF CounterNext, Lost, allvars, vars, LoopKnown
<1>3. CounterSpec => []LoopKnown
  BY <1>1, <1>2, CounterAlways, PTL DEF CounterSpec
<1>4. CounterInv /\ LoopKnown /\ [CounterNext]_allvars => [Accounts]_allvars
  BY StepCounts DEF CounterNext, Lost
<1>5. CounterSpec => [][Accounts]_allvars
  BY <1>3, <1>4, CounterAlways, PTL DEF CounterSpec
<1>6. [][Accounts]_allvars => CountsExplained
  BY PTL DEF Accounts, Explained, CountsExplained
<1> QED
  BY <1>5, <1>6, PTL
=============================================================================
