------------------------- MODULE ShmDictSteps_proofs -------------------------
(***************************************************************************)
(* What a step of the dictionary may and may not do to entries it is not   *)
(* about, for all workers, keys, values, slabs and clocks.                 *)
(*                                                                         *)
(* The argument.  Each operation on a zone is described by what it keeps:  *)
(* expiry keeps all but stale entries, forced expiry and unlinking keep    *)
(* the others as they are, and both cut the queue from its tail.  The      *)
(* inductive invariant of ShmDict_proofs makes these descriptions apply.   *)
(***************************************************************************)
EXTENDS ShmDict_proofs

(* y's entries are entries of z, with the same contents.                   *)
Kept(y, z) == \A a \in Alloc(y) : a \in Alloc(z) /\ y.node[a] = z.node[a]

(* ... and those of z that are missing are past their time.                *)
Expired(y, z, now) ==
  /\ Kept(y, z)
  /\ \A a \in Alloc(z) : a \notin Alloc(y) => Stale(z.node[a], now)

(* y holds the entry n in chunk a, and otherwise entries of z.             *)
Puts(y, z, a, n) ==
  /\ a \in Addr
  /\ y.node[a] = n
  /\ \A b \in Alloc(y) \ {a} : b \in Alloc(z) /\ y.node[b] = z.node[b]

(* In every state the invariant allows, the zone is sound.                 *)
LEMMA ZoneGood == IInv => GoodZone(zone) /\ clock \in [Worker -> Nat]
BY DEF IInv, TypeOK, Consistent, SlabSound, GoodZone

(* Unlinking keeps the other entries ...                                   *)
LEMMA UnlinkKeeps ==
  ASSUME NEW z, GoodZone(z), NEW a \in Alloc(z)
  PROVE  Kept(Unlink(z, a), z)
<1>1. Alloc(Unlink(z, a)) = Alloc(z) \ {a}
  BY UnlinkGood
<1>2. z.node \in [Addr -> Node \cup {Nil}]
  BY DEF GoodZone, Zone
<1> QED
  BY <1>1, <1>2 DEF Kept, Unlink, Alloc

(* ... and freeing a stale tail loses nothing else.                        *)
LEMMA PopStaleExpires ==
  ASSUME NEW z, GoodZone(z), NEW now
  PROVE  Expired(PopStale(z, now), z, now)
<1>1. CASE z.queue # <<>> /\ Stale(z.node[Last(z.queue)], now)
  <2>1. Last(z.queue) \in Alloc(z) /\ PopStale(z, now) = Unlink(z, Last(z.queue))
    BY <1>1, TailAllocated DEF PopStale
  <2>2. Alloc(PopStale(z, now)) = Alloc(z) \ {Last(z.queue)}
    BY <2>1, UnlinkGood
  <2> QED
    BY <1>1, <2>1, <2>2, UnlinkKeeps DEF Expired
<1>2. CASE ~ (z.queue # <<>> /\ Stale(z.node[Last(z.queue)], now))
  <2>1. PopStale(z, now) = z
    BY <1>2 DEF PopStale
  <2> QED
    BY <2>1 DEF Expired, Kept
<1> QED
  BY <1>1, <1>2

(* ngx_shm_dict_expire(ctx, 1) takes nothing but stale entries.            *)
LEMMA ExpireTwoExpires ==
  ASSUME NEW z, GoodZone(z), NEW now
  PROVE  Expired(ExpireTwo(z, now), z, now)
<1> DEFINE y == PopStale(z, now)
<1>1. Expired(y, z, now) /\ GoodZone(y)
  BY PopStaleExpires, PopStaleGood
<1> HIDE DEF y
<1>2. Expired(PopStale(y, now), y, now)
  BY <1>1, PopStaleExpires
<1>3. Expired(PopStale(y, now), z, now)
  BY <1>1, <1>2 DEF Expired, Kept
<1> QED
  BY <1>3 DEF ExpireTwo, y

(* Searches end at entries of their key, and at all of them.               *)
LEMMA FoundIs ==
  ASSUME NEW z, GoodZone(z), NEW k
  PROVE  Found(z, k) = {a \in Alloc(z) : z.node[a].key = k}
BY DEF Found, GoodZone, Indexed

(* A search moves entries and changes none.                                *)
LEMMA LookupKeeps ==
  ASSUME NEW z, GoodZone(z), NEW k, NEW now
  PROVE  /\ \A a \in Live(z, k, now) :
              /\ a \in Alloc(z) /\ z.node[a].key = k
              /\ MoveToHead(z, a).node = z.node
              /\ Alloc(MoveToHead(z, a)) = Alloc(z)
         /\ \A m \in Missed(z, k, now) : m.node = z.node /\ Alloc(m) = Alloc(z)
<1>1. \A a \in Found(z, k) : a \in Alloc(z) /\ z.node[a].key = k
  BY LookupGood
<1>2. Live(z, k, now) \subseteq Found(z, k)
  BY LookupGood
<1>3. \A a \in Alloc(z) : MoveToHead(z, a).node = z.node
                            /\ Alloc(MoveToHead(z, a)) = Alloc(z)
  BY MoveToHeadGood
<1>4. \A m \in Missed(z, k, now) :
        m = z \/ \E a \in Found(z, k) : m = MoveToHead(z, a)
  BY DEF Missed
<1> QED
  BY <1>1, <1>2, <1>3, <1>4

(* Storing an entry keeps the rest.                                        *)
LEMMA LinkPuts ==
  ASSUME NEW z, GoodZone(z), NEW n, NEW a \in Addr
  PROVE  Puts(Link(z, a, n), z, a, n)
BY DEF Puts, Link, Alloc, GoodZone, Zone

(* So does overwriting one where it stands.                                *)
LEMMA OverwritePuts ==
  ASSUME NEW z, GoodZone(z), NEW n, NEW a \in Addr
  PROVE  Puts([z EXCEPT !.node[a] = n], z, a, n)
BY DEF Puts, Alloc, GoodZone, Zone

(* A chunk the allocator hands out is a free one of the zone.              *)
LEMMA RoomFree ==
  ASSUME NEW z, NEW v \in Value, NEW a \in Room(z, v)
  PROVE  a \in Addr /\ z.node[a] = Nil /\ a \notin Alloc(z)
BY SlabAssumption DEF Room, Alloc

-----------------------------------------------------------------------------
(* The calls, as they act on entries.                                      *)

(* What a zone that expired on the way to a call has lost.                 *)
Loses(w, K) ==
  \A a \in Addr : Gone(a) => \/ Stale(zone.node[a], clock[w])
                             \/ zone.node[a].key \in K

(* An entry that is gone was one of the zone.                              *)
LEMMA GoneIs ==
  ASSUME NEW a \in Addr
  PROVE  Gone(a) <=> a \in Alloc(zone) /\ a \notin Alloc(zone')
BY DEF Gone, Alloc

(* get and set_exptime lose stale entries only.                            *)
LEMMA GetEffect ==
  ASSUME IInv, NEW w \in Worker, NEW k \in Key, Get(w, k)
  PROVE  Kept(zone', zone) /\ Loses(w, {})
<1> DEFINE z == ExpireTwo(zone, clock[w])
<1>1. GoodZone(zone) /\ GoodZone(z) /\ Expired(z, zone, clock[w])
  BY ZoneGood, ExpireTwoGood, ExpireTwoExpires
<1> HIDE DEF z
<1>2. \/ zone' = zone
      \/ zone'.node = z.node /\ Alloc(zone') = Alloc(z)
  BY <1>1, LookupKeeps DEF Get, RejectKey, Return, z
<1> QED
  BY <1>1, <1>2, GoneIs DEF Loses, Expired, Kept

(* delete loses stale entries and one of its key.                          *)
LEMMA DeleteEffect ==
  ASSUME IInv, NEW w \in Worker, NEW k \in Key, Delete(w, k)
  PROVE  /\ Kept(zone', zone) /\ Loses(w, {k})
         /\ ret' = Call("delete", k, Nil, "ok")
<1> DEFINE z == ExpireTwo(zone, clock[w])
<1>1. GoodZone(zone) /\ GoodZone(z) /\ Expired(z, zone, clock[w])
  BY ZoneGood, ExpireTwoGood, ExpireTwoExpires
<1> HIDE DEF z
<1>2. ASSUME NEW a \in Live(z, k, clock[w]), zone' = Unlink(MoveToHead(z, a), a)
      PROVE  Kept(zone', zone) /\ Loses(w, {k})
  <2> DEFINE m == MoveToHead(z, a)
  <2>1. a \in Alloc(z) /\ z.node[a].key = k /\ m.node = z.node
        /\ Alloc(m) = Alloc(z) /\ GoodZone(m)
    BY <1>1, LookupKeeps, MoveToHeadGood
  <2>2. zone' = Unlink(m, a)
    BY <1>2
  <2> HIDE DEF m
  <2>3. Kept(zone', m) /\ Alloc(zone') = Alloc(m) \ {a}
    BY <2>1, <2>2, UnlinkKeeps, UnlinkGood
  <2>4. Kept(zone', zone)
    BY <1>1, <2>1, <2>3 DEF Kept, Expired
  <2>5. a \in Alloc(zone) /\ zone.node[a].key = k
    BY <1>1, <2>1 DEF Expired, Kept
  <2> QED
    BY <1>1, <2>1, <2>3, <2>4, <2>5, GoneIs DEF Loses, Expired
<1>3. ASSUME NEW m \in Missed(z, k, clock[w]), zone' = m
      PROVE  Kept(zone', zone) /\ Loses(w, {k})
  <2>1. zone'.node = z.node /\ Alloc(zone') = Alloc(z)
    BY <1>1, <1>3, LookupKeeps
  <2> QED
    BY <1>1, <2>1, GoneIs DEF Loses, Expired, Kept
<1>4. ret' = Call("delete", k, Nil, "ok")
  BY DEF Delete, Return
<1> QED
  BY <1>2, <1>3, <1>4 DEF Delete, Return, z

(* set_exptime changes the time of one entry of its key.                   *)
LEMMA SetExptimeEffect ==
  ASSUME IInv, NEW w \in Worker, NEW k \in Key, NEW ttl \in TTL,
         SetExptime(w, k, ttl)
  PROVE  /\ Loses(w, {})
         /\ \/ Kept(zone', zone)
            \/ \E a \in Alloc(zone) :
                 /\ zone.node[a].key = k
                 /\ ~ Dead(zone.node[a], clock[w])
                 /\ Puts(zone', zone, a, [zone.node[a] EXCEPT
                                            !.exp = Deadline(ttl, clock[w])])
<1> DEFINE z == ExpireTwo(zone, clock[w])
<1>1. GoodZone(zone) /\ GoodZone(z) /\ Expired(z, zone, clock[w])
  BY ZoneGood, ExpireTwoGood, ExpireTwoExpires
<1> HIDE DEF z
<1>2. CASE RejectKey(w, "set_exptime", k)
  BY <1>2, GoneIs DEF RejectKey, Kept, Loses
<1>3. ASSUME NEW m \in Missed(z, k, clock[w]), zone' = m
      PROVE  Kept(zone', zone) /\ Loses(w, {})
  <2>1. zone'.node = z.node /\ Alloc(zone') = Alloc(z)
    BY <1>1, <1>3, LookupKeeps
  <2> QED
    BY <1>1, <2>1, GoneIs DEF Loses, Expired, Kept
<1>4. ASSUME NEW a \in Live(z, k, clock[w]),
             zone' = [MoveToHead(z, a) EXCEPT !.node[a].exp =
                                                Deadline(ttl, clock[w])]
      PROVE  /\ Loses(w, {})
             /\ a \in Alloc(zone) /\ zone.node[a].key = k
             /\ ~ Dead(zone.node[a], clock[w])
             /\ Puts(zone', zone, a, [zone.node[a] EXCEPT
                                        !.exp = Deadline(ttl, clock[w])])
  <2> DEFINE m == MoveToHead(z, a)
             n == [zone.node[a] EXCEPT !.exp = Deadline(ttl, clock[w])]
  <2>1. a \in Alloc(z) /\ z.node[a].key = k /\ m.node = z.node
        /\ Alloc(m) = Alloc(z) /\ GoodZone(m)
    BY <1>1, LookupKeeps, MoveToHeadGood
  <2>2. a \in Alloc(zone) /\ z.node[a] = zone.node[a] /\ a \in Addr
    BY <1>1, <2>1 DEF Expired, Kept, Alloc
  <2>3. zone' = [m EXCEPT !.node[a].exp = Deadline(ttl, clock[w])]
    BY <1>4
  <2> HIDE DEF m
  <2>4. zone' = [m EXCEPT !.node[a] = n]
    BY <2>1, <2>2, <2>3
  <2> HIDE DEF n
  <2>5. Puts(zone', m, a, n)
    BY <2>1, <2>2, <2>4, OverwritePuts
  <2>6. Puts(zone', zone, a, n)
    BY <1>1, <2>1, <2>5 DEF Puts, Expired, Kept
  <2>7. Alloc(z) \subseteq Alloc(zone')
    <3>1. n # Nil
      <4>1. zone.node[a] \in Node
        BY <1>1, <2>2 DEF GoodZone, Zone, Alloc
      <4>2. n \in Node
        BY <4>1, ZoneGood, DeadlineType DEF n, Node
      <4> QED
        BY <4>2, NilAssumption
    <3>2. m.node \in [Addr -> Node \cup {Nil}] /\ m \in Zone
      BY <2>1 DEF GoodZone, Zone
    <3> QED
      BY <2>1, <2>4, <3>1, <3>2 DEF Alloc, Zone
  <2>8. Loses(w, {})
    BY <1>1, <2>7, GoneIs DEF Loses, Expired
  <2>9. ~ Dead(zone.node[a], clock[w])
    BY <2>2 DEF Live
  <2> QED
    BY <2>1, <2>2, <2>6, <2>8, <2>9 DEF n
<1> QED
  BY <1>2, <1>3, <1>4 DEF SetExptime, Return, z

(* insert, from a zone z that has lost entries on the way.                 *)
LEMMA InsertEffect ==
  ASSUME NEW w \in Worker, NEW z, GoodZone(z), NEW k \in Key, NEW v \in Value,
         NEW ttl \in TTL, Insert(w, z, k, v, ttl)
  PROVE  \/ /\ zone' = z
            /\ Room(z, v) = {}
            /\ mutex' = w
            /\ job' = [op |-> "insert", key |-> k, val |-> v, ttl |-> ttl,
                       tries |-> 0]
            /\ ret' = ret
         \/ /\ \E a \in Addr \ Alloc(z) :
                 /\ Puts(zone', z, a, Entry(k, v, ttl, clock[w]))
                 /\ zone' = Link(z, a, Entry(k, v, ttl, clock[w]))
            /\ ret' = Call("set", k, v, "ok")
            /\ UNCHANGED <<mutex, job>>
BY RoomFree, LinkPuts DEF Insert, Return

(* set stores its entry or enters the loop; on the way it has lost stale   *)
(* entries, and one of its key.                                            *)
SetStored(w, k, v, ttl) ==
  /\ \E a \in Addr : Puts(zone', zone, a, Entry(k, v, ttl, clock[w]))
  /\ ret' = Call("set", k, v, "ok")
  /\ UNCHANGED <<mutex, job>>

SetLoops(w, k, v, ttl) ==
  /\ Kept(zone', zone)
  /\ mutex' = w
  /\ job' = [op |-> "insert", key |-> k, val |-> v, ttl |-> ttl, tries |-> 0]
  /\ ret' = ret

(* Entries that Puts keeps out are the only ones a Link can lose.          *)
LEMMA SetEffect ==
  ASSUME IInv, NEW w \in Worker, NEW k \in Key, NEW v \in Value,
         NEW ttl \in TTL, Set(w, k, v, ttl)
  PROVE  \/ RejectKey(w, "set", k)
         \/ /\ mutex = Nil /\ k \in LegalKey
            /\ Loses(w, {k})
            /\ SetStored(w, k, v, ttl) \/ SetLoops(w, k, v, ttl)
<1> DEFINE z == ExpireTwo(zone, clock[w])
           n == Entry(k, v, ttl, clock[w])
<1>1. /\ GoodZone(zone) /\ GoodZone(z) /\ Expired(z, zone, clock[w])
      /\ n \in Node
  BY ZoneGood, ExpireTwoGood, ExpireTwoExpires, EntryType
<1> HIDE DEF z, n
<1>2. ASSUME NEW y, GoodZone(y), Insert(w, y, k, v, ttl), Kept(y, zone),
             \A a \in Alloc(zone) : a \notin Alloc(y) =>
                 Stale(zone.node[a], clock[w]) \/ zone.node[a].key = k
      PROVE  /\ Loses(w, {k})
             /\ SetStored(w, k, v, ttl) \/ SetLoops(w, k, v, ttl)
  <2>1. CASE /\ zone' = y
             /\ mutex' = w
             /\ job' = [op |-> "insert", key |-> k, val |-> v, ttl |-> ttl,
                       tries |-> 0]
             /\ ret' = ret
    BY <1>2, <2>1, GoneIs DEF Loses, SetLoops
  <2>2. ASSUME NEW a \in Addr \ Alloc(y), Puts(zone', y, a, n),
               zone' = Link(y, a, n), ret' = Call("set", k, v, "ok"),
               UNCHANGED <<mutex, job>>
        PROVE  Loses(w, {k}) /\ SetStored(w, k, v, ttl)
    <3>1. Puts(zone', zone, a, n)
      BY <1>2, <2>2 DEF Puts, Kept
    <3>2. Alloc(y) \subseteq Alloc(zone')
      BY <1>2, <2>2 DEF Link, Alloc, GoodZone, Zone
    <3>3. Loses(w, {k})
      BY <1>2, <3>2, GoneIs DEF Loses
    <3> QED
      BY <2>2, <3>1, <3>3 DEF SetStored, n
  <2> QED
    BY <1>2, <2>1, <2>2, InsertEffect DEF n
<1>3. ASSUME NEW m \in Missed(z, k, clock[w]), Insert(w, m, k, v, ttl)
      PROVE  /\ Loses(w, {k})
             /\ SetStored(w, k, v, ttl) \/ SetLoops(w, k, v, ttl)
  <2>1. GoodZone(m) /\ m.node = z.node /\ Alloc(m) = Alloc(z)
    BY <1>1, LookupGood, LookupKeeps
  <2>2. Kept(m, zone)
    BY <1>1, <2>1 DEF Kept, Expired
  <2> QED
    BY <1>1, <1>2, <1>3, <2>1, <2>2 DEF Expired
<1>4. ASSUME NEW a \in Live(z, k, clock[w])
      PROVE  /\ a \in Alloc(z) /\ a \in Addr /\ z.node[a].key = k
             /\ GoodZone(MoveToHead(z, a))
             /\ MoveToHead(z, a).node = z.node
             /\ Alloc(MoveToHead(z, a)) = Alloc(z)
             /\ a \in Alloc(zone) /\ zone.node[a].key = k
  BY <1>1, LookupKeeps, MoveToHeadGood DEF Expired, Kept, Alloc
<1>5. ASSUME NEW a \in Live(z, k, clock[w]),
             Insert(w, Unlink(MoveToHead(z, a), a), k, v, ttl)
      PROVE  /\ Loses(w, {k})
             /\ SetStored(w, k, v, ttl) \/ SetLoops(w, k, v, ttl)
  <2> DEFINE m == MoveToHead(z, a)
             y == Unlink(m, a)
  <2>1. GoodZone(m) /\ m.node = z.node /\ Alloc(m) = Alloc(z) /\ a \in Alloc(m)
    BY <1>4
  <2> HIDE DEF m
  <2>2. GoodZone(y) /\ Kept(y, m) /\ Alloc(y) = Alloc(m) \ {a}
    BY <2>1, UnlinkGood, UnlinkKeeps
  <2>3. Insert(w, y, k, v, ttl)
    BY <1>5 DEF m
  <2> HIDE DEF y
  <2>4. Kept(y, zone)
    BY <1>1, <2>1, <2>2 DEF Kept, Expired
  <2>5. \A b \in Alloc(zone) : b \notin Alloc(y) =>
          Stale(zone.node[b], clock[w]) \/ zone.node[b].key = k
    BY <1>1, <1>4, <2>1, <2>2 DEF Expired
  <2> QED
    BY <1>2, <2>2, <2>3, <2>4, <2>5
<1>6. ASSUME NEW a \in Live(z, k, clock[w]),
             Return([MoveToHead(z, a) EXCEPT !.node[a] = n],
                    Call("set", k, v, "ok"))
      PROVE  Loses(w, {k}) /\ SetStored(w, k, v, ttl)
  <2> DEFINE m == MoveToHead(z, a)
  <2>1. GoodZone(m) /\ m.node = z.node /\ Alloc(m) = Alloc(z) /\ a \in Addr
    BY <1>4
  <2>2. zone' = [m EXCEPT !.node[a] = n]
    BY <1>6 DEF Return
  <2> HIDE DEF m
  <2>3. Puts(zone', m, a, n)
    BY <2>1, <2>2, OverwritePuts
  <2>4. Puts(zone', zone, a, n)
    BY <1>1, <2>1, <2>3 DEF Puts, Expired, Kept
  <2>5. Alloc(m) \subseteq Alloc(zone')
    BY <1>1, <2>1, <2>2, NilAssumption DEF Alloc, GoodZone, Zone
  <2>6. Loses(w, {k})
    BY <1>1, <2>1, <2>5, GoneIs DEF Loses, Expired
  <2> QED
    BY <1>6, <2>1, <2>4, <2>6 DEF SetStored, Return, n
<1> QED
  BY <1>3, <1>5, <1>6 DEF Set, z, n

-----------------------------------------------------------------------------
(* What is evicted comes from the tail.                                    *)
Prefix(p, q) ==
  /\ p \in Seq(Addr) /\ q \in Seq(Addr)
  /\ Len(p) <= Len(q)
  /\ \A i \in 1 .. Len(p) : p[i] = q[i]

(* Removing the last element of a queue leaves the others in place.        *)
LEMMA RemoveLast ==
  ASSUME NEW q \in Seq(Addr), Distinct(q), q # <<>>
  PROVE  Prefix(QueueRemove(q, Last(q)), q)
<1> DEFINE n == Len(q)
           p == SubSeq(q, 1, n - 1)
<1>1. n \in Nat /\ n >= 1 /\ DOMAIN q = 1 .. n /\ (\A i \in 1 .. n : q[i] \in Addr)
  OBVIOUS
<1>2. (CHOOSE i \in DOMAIN q : q[i] = Last(q)) = n
  <2>1. \A i \in DOMAIN q : q[i] = Last(q) => i = n
    BY <1>1 DEF Last, Distinct
  <2>2. n \in DOMAIN q /\ q[n] = Last(q)
    BY <1>1 DEF Last
  <2> QED
    BY <2>1, <2>2
<1> HIDE DEF n
<1>3. SubSeq(q, n + 1, n) = <<>>
  BY <1>1, SubSeqEmpty
<1>4. /\ p \in Seq(Addr)
      /\ Len(p) = n - 1
      /\ \A i \in 1 .. n - 1 : p[i] = q[i]
  <2>1. /\ p \in Seq(Addr)
        /\ Len(p) = IF 1 <= n - 1 THEN n - 1 - 1 + 1 ELSE 0
        /\ \A i \in 1 .. n - 1 - 1 + 1 : p[i] = q[1 + i - 1]
    BY <1>1, SubSeqProperties
  <2> HIDE DEF p
  <2> QED
    BY <1>1, <2>1
<1>5. QueueRemove(q, Last(q)) = p \o <<>>
  BY <1>2, <1>3 DEF QueueRemove, RemoveAt, n
<1> HIDE DEF p
<1>6. p \o <<>> = p
  BY <1>4
<1> QED
  BY <1>1, <1>4, <1>5, <1>6 DEF Prefix, n

(* Freeing the tail cuts the queue ...                                     *)
LEMMA UnlinkLast ==
  ASSUME NEW z, GoodZone(z), z.queue # <<>>
  PROVE  Prefix(Unlink(z, Last(z.queue)).queue, z.queue)
<1>1. z.queue \in Seq(Addr) /\ Distinct(z.queue)
  BY DEF GoodZone, Zone, Indexed, Distinct
<1> QED
  BY <1>1, RemoveLast DEF Unlink

(* ... and a cut of a cut is one.                                          *)
LEMMA PrefixTransitive ==
  ASSUME NEW p, NEW q, NEW r, Prefix(p, q), Prefix(q, r)
  PROVE  Prefix(p, r)
BY DEF Prefix

(* Expiry, by choice or by force, cuts the queue and keeps what is left.   *)
LEMMA ExpireTwoCuts ==
  ASSUME NEW z, GoodZone(z), NEW now
  PROVE  Prefix(ExpireTwo(z, now).queue, z.queue)
<1>1. ASSUME NEW y, GoodZone(y)
      PROVE  Prefix(PopStale(y, now).queue, y.queue) /\ GoodZone(PopStale(y, now))
  <2>1. Prefix(y.queue, y.queue)
    BY <1>1 DEF Prefix, GoodZone, Zone
  <2> QED
    BY <1>1, <2>1, UnlinkLast, PopStaleGood DEF PopStale
<1> DEFINE y == PopStale(z, now)
<1>2. Prefix(y.queue, z.queue) /\ GoodZone(y)
  BY <1>1
<1> HIDE DEF y
<1>3. Prefix(PopStale(y, now).queue, y.queue)
  BY <1>1, <1>2
<1> QED
  BY <1>2, <1>3, PrefixTransitive DEF ExpireTwo, y

(* A forced expiry of a queue that is not empty makes it shorter.          *)
LEMMA ExpireForcedCuts ==
  ASSUME NEW z, GoodZone(z), NEW now, z.queue # <<>>
  PROVE  /\ Prefix(ExpireForced(z, now).queue, z.queue)
         /\ Len(ExpireForced(z, now).queue) <= Len(z.queue) - 1
         /\ Kept(ExpireForced(z, now), z)
         /\ GoodZone(ExpireForced(z, now))
<1> DEFINE y == Unlink(z, Last(z.queue))
<1>1. Last(z.queue) \in Alloc(z)
  BY TailAllocated
<1>2. /\ GoodZone(y) /\ Kept(y, z) /\ Prefix(y.queue, z.queue)
      /\ Len(y.queue) = Len(z.queue) - 1
  BY <1>1, UnlinkGood, UnlinkKeeps, UnlinkLast
<1>3. ExpireForced(z, now) = ExpireTwo(y, now)
  BY DEF ExpireForced
<1> HIDE DEF y
<1>4. /\ Prefix(ExpireTwo(y, now).queue, y.queue)
      /\ Kept(ExpireTwo(y, now), y)
      /\ GoodZone(ExpireTwo(y, now))
  BY <1>2, ExpireTwoCuts, ExpireTwoExpires, ExpireTwoGood DEF Expired
<1>5. Len(ExpireTwo(y, now).queue) <= Len(z.queue) - 1
  BY <1>2, <1>4 DEF Prefix
<1>6. Kept(ExpireTwo(y, now), z)
  BY <1>2, <1>4 DEF Kept
<1>7. Prefix(ExpireTwo(y, now).queue, z.queue)
  BY <1>2, <1>4, PrefixTransitive
<1> QED
  BY <1>3, <1>4, <1>5, <1>6, <1>7

-----------------------------------------------------------------------------
(* What NoCollateralLoss says of a step.                                   *)
LossExplained ==
  \A a \in Addr : Gone(a) =>
    \/ \E w \in Worker : zone.node[a].exp \in 1 .. clock[w]
    \/ job \in InsertJob
    \/ job' \in InsertJob /\ job'.key = zone.node[a].key
    \/ ret'.call \in {"set", "delete"} /\ ret'.key = zone.node[a].key
    \/ ret'.call = "flush_all"

(* A stale entry's time has passed for the worker that looked.             *)
LEMMA StaleIs ==
  ASSUME IInv, NEW w \in Worker, NEW a \in Addr, Gone(a),
         Stale(zone.node[a], clock[w])
  PROVE  zone.node[a].exp \in 1 .. clock[w]
<1>1. zone.node[a] \in Node /\ clock[w] \in Nat
  BY ZoneGood DEF Gone, GoodZone, Zone
<1> QED
  BY <1>1 DEF Stale, Node

(* Every way an entry can go is one of those listed.                       *)
LEMMA StepExplained == IInv /\ Next => LossExplained
<1> SUFFICES ASSUME IInv, Next, NEW a \in Addr, Gone(a)
             PROVE  \/ \E w \in Worker : zone.node[a].exp \in 1 .. clock[w]
                    \/ job \in InsertJob
                    \/ job' \in InsertJob /\ job'.key = zone.node[a].key
                    \/ ret'.call \in {"set", "delete"} /\ ret'.key = zone.node[a].key
                    \/ ret'.call = "flush_all"
  BY DEF LossExplained
<1>1. \A w \in Worker : Stale(zone.node[a], clock[w]) =>
        \E u \in Worker : zone.node[a].exp \in 1 .. clock[u]
  BY StaleIs
<1>2. ASSUME NEW w \in Worker, NEW k \in Key, Get(w, k)
      PROVE  \E u \in Worker : zone.node[a].exp \in 1 .. clock[u]
  BY <1>1, <1>2, GetEffect DEF Loses
<1>3. ASSUME NEW w \in Worker, NEW k \in Key, Delete(w, k)
      PROVE  \/ \E u \in Worker : zone.node[a].exp \in 1 .. clock[u]
             \/ ret'.call = "delete" /\ ret'.key = zone.node[a].key
  BY <1>1, <1>3, DeleteEffect DEF Loses, Call
<1>4. ASSUME NEW w \in Worker, NEW k \in Key, NEW ttl \in TTL,
             SetExptime(w, k, ttl)
      PROVE  \E u \in Worker : zone.node[a].exp \in 1 .. clock[u]
  BY <1>1, <1>4, SetExptimeEffect DEF Loses
<1>5. ASSUME NEW w \in Worker, NEW k \in Key, NEW v \in Value, NEW ttl \in TTL,
             Set(w, k, v, ttl)
      PROVE  \/ \E u \in Worker : zone.node[a].exp \in 1 .. clock[u]
             \/ job' \in InsertJob /\ job'.key = zone.node[a].key
             \/ ret'.call = "set" /\ ret'.key = zone.node[a].key
  <2>1. ~ RejectKey(w, "set", k)
    BY DEF RejectKey, Gone
  <2>2. /\ Stale(zone.node[a], clock[w]) \/ zone.node[a].key = k
        /\ SetStored(w, k, v, ttl) \/ SetLoops(w, k, v, ttl)
    BY <1>5, <2>1, SetEffect DEF Loses
  <2>3. SetLoops(w, k, v, ttl) => job' \in InsertJob /\ job'.key = k
    BY BoundAssumption DEF SetLoops, InsertJob
  <2>4. SetStored(w, k, v, ttl) => ret'.call = "set" /\ ret'.key = k
    BY DEF SetStored, Call
  <2> QED
    BY <1>1, <2>2, <2>3, <2>4
<1>6. ASSUME NEW w \in Worker, FlushAll(w)
      PROVE  ret'.call = "flush_all"
  BY <1>6 DEF FlushAll, Return, Call
<1>7. ASSUME NEW w \in Worker, SweepStep(w)
      PROVE  \E u \in Worker : zone.node[a].exp \in 1 .. clock[u]
  <2>1. PICK b : b = zone.queue[job.at] /\ Stale(zone.node[b], clock[w])
                   /\ zone' = Unlink(zone, b)
    BY <1>7 DEF SweepStep, Gone
  <2>2. zone.node \in [Addr -> Node \cup {Nil}]
    BY ZoneGood DEF GoodZone, Zone
  <2>3. a = b
    BY <2>1, <2>2 DEF Unlink, Gone
  <2> QED
    BY <1>1, <2>1, <2>3
<1>8. ASSUME NEW w \in Worker, NEW limit \in SweepLimit, FlushExpired(w, limit)
      PROVE  FALSE
  BY <1>8 DEF FlushExpired, Return, Gone
<1>9. \A w \in Worker : EvictRound(w) => job \in InsertJob
  BY DEF EvictRound
<1>10. ASSUME NEW w \in Worker,
              EvictGiveUp(w) \/ SweepDone(w) \/ Foreach(w) \/ Tick(w) \/ Crash(w)
       PROVE  FALSE
  BY <1>10 DEF EvictGiveUp, SweepDone, Foreach, Tick, Crash, Gone
<1> QED
  BY <1>2, <1>3, <1>4, <1>5, <1>6, <1>7, <1>8, <1>9, <1>10 DEF Next

(* No collateral loss: an entry disappears only past its time, for want of *)
(* memory, or by a call that names it.                                     *)
THEOREM NothingElseLost == Spec => NoCollateralLoss
<1>1. IInv /\ [Next]_vars => [LossExplained]_vars
  BY StepExplained
<1>2. [][LossExplained]_vars => NoCollateralLoss
  BY PTL DEF LossExplained, NoCollateralLoss
<1> QED
  BY <1>1, <1>2, Invariance, PTL DEF Spec

-----------------------------------------------------------------------------
(* What EvictsOldestFirst says of a step.                                  *)
TailEvicted ==
  (job \in InsertJob) =>
    \E n \in 0 .. Len(zone.queue) :
      LET kept == SubSeq(zone.queue, 1, n)
      IN /\ zone'.queue = kept \/ (zone'.queue # <<>> /\ Tail(zone'.queue) = kept)
         /\ \A a \in ToSet(kept) : zone'.node[a] = zone.node[a]

(* A prefix is what SubSeq makes it.                                       *)
LEMMA PrefixIs ==
  ASSUME NEW p, NEW q, Prefix(p, q)
  PROVE  p = SubSeq(q, 1, Len(p)) /\ Len(p) \in 0 .. Len(q)
<1> DEFINE n == Len(p)
           r == SubSeq(q, 1, n)
<1>1. /\ p \in Seq(Addr) /\ q \in Seq(Addr) /\ n \in Nat /\ n <= Len(q)
      /\ Len(q) \in Nat
      /\ \A i \in 1 .. n : p[i] = q[i] /\ q[i] \in Addr
  BY DEF Prefix
<1>2. /\ r \in Seq(Addr)
      /\ Len(r) = IF 1 <= n THEN n - 1 + 1 ELSE 0
      /\ \A i \in 1 .. n - 1 + 1 : r[i] = q[1 + i - 1]
  <2> HIDE DEF n
  <2> QED
    BY <1>1, SubSeqProperties
<1> HIDE DEF r
<1>3. Len(r) = Len(p) /\ \A i \in 1 .. Len(p) : r[i] = p[i]
  BY <1>1, <1>2
<1>4. p = r
  BY <1>1, <1>2, <1>3
<1> QED
  BY <1>1, <1>4 DEF r

(* While a set looks for memory nobody else touches the zone.              *)
LEMMA OnlyEvicts ==
  ASSUME IInv, Next, job \in InsertJob
  PROVE  zone' = zone \/ \E w \in Worker : EvictRound(w)
<1>1. mutex # Nil /\ job \notin SweepJob
  BY NilAssumption DEF IInv, LockHeldByJob, InsertJob, SweepJob
<1>2. PICK w \in Worker :
        \/ \E k \in Key :
             \/ Get(w, k)
             \/ Delete(w, k)
             \/ \E ttl \in TTL : SetExptime(w, k, ttl)
             \/ \E v \in Value, ttl \in TTL : Set(w, k, v, ttl)
        \/ EvictRound(w)
        \/ EvictGiveUp(w)
        \/ FlushAll(w)
        \/ \E limit \in SweepLimit : FlushExpired(w, limit)
        \/ SweepStep(w)
        \/ SweepDone(w)
        \/ Foreach(w)
        \/ Tick(w)
        \/ Crash(w)
  BY DEF Next
<1> QED
  BY <1>1, <1>2 DEF Get, Delete, SetExptime, Set, RejectKey, EvictGiveUp,
     FlushAll, FlushExpired, SweepStep, SweepDone, Foreach, Tick, Crash

(* A turn of the loop takes from the tail and adds at the head.            *)
LEMMA StepEvicts == IInv /\ Next => TailEvicted
<1> SUFFICES ASSUME IInv, Next, job \in InsertJob
             PROVE  \E n \in 0 .. Len(zone.queue) :
                      LET kept == SubSeq(zone.queue, 1, n)
                      IN /\ \/ zone'.queue = kept
                            \/ zone'.queue # <<>> /\ Tail(zone'.queue) = kept
                         /\ \A a \in ToSet(kept) : zone'.node[a] = zone.node[a]
  BY DEF TailEvicted
<1>1. GoodZone(zone) /\ zone.queue \in Seq(Addr)
  BY ZoneGood DEF GoodZone, Zone
<1>2. CASE zone' = zone
  <2>1. Prefix(zone.queue, zone.queue)
    BY <1>1 DEF Prefix
  <2>2. zone.queue = SubSeq(zone.queue, 1, Len(zone.queue))
        /\ Len(zone.queue) \in 0 .. Len(zone.queue)
    BY <2>1, PrefixIs
  <2> QED
    BY <1>2, <2>2
<1>3. ASSUME NEW w \in Worker, EvictRound(w)
      PROVE  \E n \in 0 .. Len(zone.queue) :
               LET kept == SubSeq(zone.queue, 1, n)
               IN /\ \/ zone'.queue = kept
                     \/ zone'.queue # <<>> /\ Tail(zone'.queue) = kept
                  /\ \A a \in ToSet(kept) : zone'.node[a] = zone.node[a]
  <2> DEFINE z == ExpireForced(zone, clock[w])
             n == Len(z.queue)
  <2>1. /\ Prefix(z.queue, zone.queue) /\ Kept(z, zone) /\ GoodZone(z)
    BY <1>1, <1>3, ExpireForcedCuts DEF EvictRound
  <2>2. z.queue = SubSeq(zone.queue, 1, n) /\ n \in 0 .. Len(zone.queue)
    BY <2>1, PrefixIs
  <2>3. \/ zone' = z
        \/ \E a \in Room(z, job.val) :
             zone' = Link(z, a, Entry(job.key, job.val, job.ttl, clock[w]))
    BY <1>3 DEF EvictRound
  <2> HIDE DEF z
  <2>4. /\ z.queue \in Seq(Addr)
        /\ \A a \in ToSet(z.queue) : a \in Alloc(z) /\ z.node[a] = zone.node[a]
    BY <2>1 DEF GoodZone, Indexed, Kept, Zone
  <2>5. CASE zone' = z
    BY <2>2, <2>4, <2>5
  <2>6. ASSUME NEW a \in Room(z, job.val),
               zone' = Link(z, a, Entry(job.key, job.val, job.ttl, clock[w]))
        PROVE  /\ zone'.queue # <<>> /\ Tail(zone'.queue) = z.queue
               /\ \A b \in ToSet(z.queue) : zone'.node[b] = zone.node[b]
    <3>1. a \in Addr /\ a \notin Alloc(z)
      BY <2>6, RoomFree DEF InsertJob
    <3>2. zone'.queue = <<a>> \o z.queue
      BY <2>6 DEF Link
    <3>3. zone'.queue # <<>> /\ Tail(zone'.queue) = z.queue
      BY <2>4, <3>1, <3>2
    <3>4. \A b \in ToSet(z.queue) : zone'.node[b] = z.node[b]
      BY <2>1, <2>4, <2>6, <3>1 DEF Link, GoodZone, Zone, Alloc
    <3> QED
      BY <2>4, <3>3, <3>4
  <2> QED
    BY <2>2, <2>3, <2>5, <2>6
<1> QED
  BY <1>2, <1>3, OnlyEvicts

(* Memory pressure evicts from the tail: what is left keeps its order and  *)
(* its contents, and the new entry comes first.                            *)
THEOREM OldestFirst == Spec => EvictsOldestFirst
<1>1. IInv /\ [Next]_vars => [TailEvicted]_vars
  BY StepEvicts
<1>2. [][TailEvicted]_vars => EvictsOldestFirst
  BY PTL DEF TailEvicted, EvictsOldestFirst
<1> QED
  BY <1>1, <1>2, Invariance, PTL DEF Spec

-----------------------------------------------------------------------------
(* The queue is the order of last use.                                     *)

(* p's order is q's, but for elements of K, which p has in front.          *)
Used(p, q, K) ==
  \A a, b \in Addr :
    Before(p, b, a) =>
      \/ Before(q, b, a)
      \/ b \in K /\ \A c \in Addr : Before(p, c, b) => c \in K

(* Elements that stand one in front of the other are in the queue.         *)
LEMMA BeforeIn ==
  ASSUME NEW q \in Seq(Addr), NEW a, NEW b, Before(q, a, b)
  PROVE  a \in ToSet(q) /\ b \in ToSet(q)
BY DEF Before, ToSet

(* No two elements stand in front of each other.                           *)
LEMMA BeforeOnce ==
  ASSUME NEW q \in Seq(Addr), Distinct(q), NEW a, NEW b, Before(q, a, b)
  PROVE  ~ Before(q, b, a)
<1>1. DOMAIN q = 1 .. Len(q) /\ Len(q) \in Nat
  OBVIOUS
<1>2. PICK i \in DOMAIN q, j \in DOMAIN q : i < j /\ q[i] = a /\ q[j] = b
  BY DEF Before
<1>3. \A m \in DOMAIN q : (q[m] = a => m = i) /\ (q[m] = b => m = j)
  BY <1>2 DEF Distinct
<1> QED
  BY <1>1, <1>2, <1>3 DEF Before

(* Removing an element keeps the order of the others.                      *)
LEMMA RemoveOrder ==
  ASSUME NEW q \in Seq(Addr), Distinct(q), NEW c \in ToSet(q), NEW a, NEW b,
         Before(QueueRemove(q, c), a, b)
  PROVE  Before(q, a, b)
<1> DEFINE r == QueueRemove(q, c)
<1>1. PICK k \in 1 .. Len(q) :
        \A i \in 1 .. Len(q) - 1 : r[i] = IF i < k THEN q[i] ELSE q[i + 1]
  BY QueueRemoveProperties
<1>2. r \in Seq(Addr) /\ Len(r) = Len(q) - 1
  BY QueueRemoveProperties
<1> HIDE DEF r
<1>3. DOMAIN r = 1 .. Len(q) - 1 /\ DOMAIN q = 1 .. Len(q) /\ Len(q) \in Nat
  BY <1>2
<1>4. PICK i \in 1 .. Len(q) - 1, j \in 1 .. Len(q) - 1 :
        i < j /\ r[i] = a /\ r[j] = b
  BY <1>3 DEF Before, r
<1> DEFINE At(m) == IF m < k THEN m ELSE m + 1
<1>5. At(i) < At(j) /\ At(i) \in DOMAIN q /\ At(j) \in DOMAIN q
  BY <1>3, <1>4
<1>6. q[At(i)] = a /\ q[At(j)] = b
  BY <1>1, <1>4
<1> HIDE DEF At
<1> QED
  BY <1>5, <1>6 DEF Before

(* What a queue with c put in front orders.                                *)
LEMMA InsertOrder ==
  ASSUME NEW q \in Seq(Addr), NEW c \in Addr, c \notin ToSet(q), NEW a, NEW b,
         Before(<<c>> \o q, a, b)
  PROVE  b # c /\ (a = c \/ Before(q, a, b))
<1> DEFINE r == <<c>> \o q
<1>1. /\ DOMAIN r = 1 .. Len(q) + 1 /\ DOMAIN q = 1 .. Len(q) /\ Len(q) \in Nat
      /\ r[1] = c
      /\ \A i \in 1 .. Len(q) : r[i + 1] = q[i]
  OBVIOUS
<1> HIDE DEF r
<1>2. PICK i \in DOMAIN r, j \in DOMAIN r : i < j /\ r[i] = a /\ r[j] = b
  BY DEF Before, r
<1>3. j - 1 \in DOMAIN q /\ q[j - 1] = b /\ i \in Nat /\ j \in Nat
  <2>1. j - 1 \in 1 .. Len(q)
    BY <1>1, <1>2
  <2>2. r[(j - 1) + 1] = q[j - 1]
    BY <1>1, <2>1
  <2> QED
    BY <1>1, <1>2, <2>1, <2>2
<1>4. b # c
  BY <1>3 DEF ToSet
<1>5. CASE i = 1
  BY <1>1, <1>2, <1>4, <1>5
<1>6. CASE i # 1
  <2>1. i - 1 \in 1 .. Len(q)
    BY <1>1, <1>2, <1>6
  <2>2. r[(i - 1) + 1] = q[i - 1]
    BY <1>1, <2>1
  <2>3. i - 1 \in DOMAIN q /\ q[i - 1] = a /\ i - 1 < j - 1
    BY <1>1, <1>2, <1>3, <2>1, <2>2
  <2> QED
    BY <1>3, <1>4, <2>3 DEF Before
<1> QED
  BY <1>5, <1>6

(* A cut queue is in order ...                                             *)
LEMMA UsedCut ==
  ASSUME NEW p, NEW q, NEW K, Prefix(p, q)
  PROVE  Used(p, q, K)
<1>1. \A i \in DOMAIN p : i \in DOMAIN q /\ p[i] = q[i]
  BY DEF Prefix
<1> QED
  BY <1>1 DEF Used, Before

(* ... it stays so when an element of K is put in front ...                *)
LEMMA UsedInsert ==
  ASSUME NEW p \in Seq(Addr), NEW q, NEW K, Used(p, q, K),
         NEW c \in Addr \cap K, c \notin ToSet(p)
  PROVE  Used(<<c>> \o p, q, K)
<1> DEFINE r == <<c>> \o p
<1>1. \A a, b : Before(r, a, b) => b # c /\ (a = c \/ Before(p, a, b))
  BY InsertOrder
<1> HIDE DEF r
<1>2. Used(r, q, K)
  BY <1>1 DEF Used
<1> QED
  BY <1>2 DEF r

(* ... and when one is taken out, an element of K or any other.            *)
LEMMA UsedRemove ==
  ASSUME NEW p \in Seq(Addr), Distinct(p), NEW q, NEW K, NEW c \in ToSet(p),
         Used(p, q, K \cup {c})
  PROVE  Used(QueueRemove(p, c), q, K)
<1> DEFINE r == QueueRemove(p, c)
<1>1. \A a, b : Before(r, a, b) => Before(p, a, b)
  BY RemoveOrder
<1>2. r \in Seq(Addr) /\ ToSet(r) = ToSet(p) \ {c}
  BY QueueRemoveProperties
<1> HIDE DEF r
<1>3. \A a, b : Before(r, a, b) => a # c /\ b # c
  BY <1>2, BeforeIn
<1>4. Used(r, q, K)
  BY <1>1, <1>3 DEF Used
<1> QED
  BY <1>4 DEF r

(* More may be in front.                                                   *)
LEMMA UsedMore ==
  ASSUME NEW p, NEW q, NEW K, NEW L, K \subseteq L, Used(p, q, K)
  PROVE  Used(p, q, L)
BY DEF Used

(* The same of a zone whose entries are moved, unlinked and linked.        *)
LEMMA MoveUsed ==
  ASSUME NEW z, GoodZone(z), NEW q, NEW K, NEW a \in Alloc(z), a \in K,
         Used(z.queue, q, K)
  PROVE  /\ Used(MoveToHead(z, a).queue, q, K)
         /\ MoveToHead(z, a).queue # <<>> /\ Head(MoveToHead(z, a).queue) = a
<1> DEFINE r == QueueRemove(z.queue, a)
<1>1. /\ a \in Addr /\ a \in ToSet(z.queue) /\ z.queue \in Seq(Addr)
      /\ Distinct(z.queue) /\ z \in Zone
  BY DEF GoodZone, Zone, Indexed, Alloc, Distinct
<1>2. r \in Seq(Addr) /\ ToSet(r) = ToSet(z.queue) \ {a}
  BY <1>1, QueueRemoveProperties
<1>3. Used(r, q, K)
  BY <1>1, UsedMore, UsedRemove
<1>4. MoveToHead(z, a).queue = <<a>> \o r
  BY <1>1 DEF MoveToHead, Zone
<1> HIDE DEF r
<1>5. Used(<<a>> \o r, q, K)
  BY <1>1, <1>2, <1>3, UsedInsert
<1>6. <<a>> \o r # <<>> /\ Head(<<a>> \o r) = a
  BY <1>1, <1>2
<1> QED
  BY <1>4, <1>5, <1>6

(* Unlinking one.                                                          *)
LEMMA UnlinkUsed ==
  ASSUME NEW z, GoodZone(z), NEW q, NEW K, NEW a \in Alloc(z),
         Used(z.queue, q, K \cup {a})
  PROVE  Used(Unlink(z, a).queue, q, K)
<1>1. a \in ToSet(z.queue) /\ z.queue \in Seq(Addr) /\ Distinct(z.queue)
  BY DEF GoodZone, Zone, Indexed, Distinct
<1> QED
  BY <1>1, UsedRemove DEF Unlink

(* Linking a new one.                                                      *)
LEMMA LinkUsed ==
  ASSUME NEW z, GoodZone(z), NEW q, NEW K, NEW a \in Addr \ Alloc(z), a \in K,
         NEW n, Used(z.queue, q, K)
  PROVE  /\ Used(Link(z, a, n).queue, q, K)
         /\ Link(z, a, n).queue # <<>> /\ Head(Link(z, a, n).queue) = a
<1>1. a \notin ToSet(z.queue) /\ z.queue \in Seq(Addr)
  BY DEF GoodZone, Zone, Indexed
<1>2. Used(<<a>> \o z.queue, q, K)
  BY <1>1, UsedInsert
<1>3. <<a>> \o z.queue # <<>> /\ Head(<<a>> \o z.queue) = a
  BY <1>1
<1> QED
  BY <1>2, <1>3 DEF Link

(* The chunks of z that hold entries of key k.                             *)
KeyAt(z, k) == {b \in Addr : z.node[b].key = k}

(* A search moves an entry of its key to the front, or nothing.            *)
LEMMA SearchUsed ==
  ASSUME NEW z, GoodZone(z), NEW k, NEW now,
         Used(z.queue, zone.queue, KeyAt(z, k))
  PROVE  /\ \A a \in Live(z, k, now) :
              /\ Used(MoveToHead(z, a).queue, zone.queue, KeyAt(z, k))
              /\ MoveToHead(z, a).queue # <<>> /\ Head(MoveToHead(z, a).queue) = a
         /\ \A m \in Missed(z, k, now) :
              Used(m.queue, zone.queue, KeyAt(z, k))
<1>1. \A a \in Found(z, k) : a \in Alloc(z) /\ a \in KeyAt(z, k)
  BY LookupGood DEF KeyAt, Alloc
<1>2. Live(z, k, now) \subseteq Found(z, k)
  BY LookupGood
<1>3. \A m \in Missed(z, k, now) :
        m = z \/ \E a \in Found(z, k) : m = MoveToHead(z, a)
  BY DEF Missed
<1> QED
  BY <1>1, <1>2, <1>3, MoveUsed

(* What RecentFirst says of a step: the key of the call orders it ...      *)
UseOrder(k) ==
  Used(zone'.queue, zone.queue, KeyAt(zone', k))

InFront(k) == zone'.queue # <<>> /\ zone'.node[Head(zone'.queue)].key = k

(* ... and is in front when a call used it.                                *)
UsedFirst ==
  (/\ ret' # ret
   /\ ret'.rc = "ok"
   /\ ret'.call \in {"get", "set", "set_exptime"}) => InFront(ret'.key)

RecentStep == UseOrder(KeyOfCall) /\ UsedFirst

(* Steps that leave the zone alone.                                        *)
LEMMA SameRecent ==
  ASSUME IInv, zone' = zone,
         \/ ret' = ret
         \/ ret'.rc = "error"
         \/ ret'.call \notin {"get", "set", "set_exptime"}
  PROVE  RecentStep
<1>1. Prefix(zone.queue, zone.queue)
  BY ZoneGood DEF Prefix, GoodZone, Zone
<1> QED
  BY <1>1, UsedCut DEF RecentStep, UseOrder, UsedFirst

(* Calls of a key that return.                                             *)
LEMMA CallRecent ==
  ASSUME NEW k, job' = Nil, ret'.key = k, UseOrder(k),
         (ret'.rc = "ok" /\ ret'.call \in {"get", "set", "set_exptime"}) =>
           InFront(k)
  PROVE  RecentStep
BY NilAssumption DEF RecentStep, UsedFirst, KeyOfCall

(* No loop runs while the mutex is free.                                   *)
LEMMA FreeMeansIdle == ASSUME IInv, mutex = Nil PROVE job = Nil
BY DEF IInv, LockHeldByJob

(* The zone a call searches.                                               *)
LEMMA SearchedZone ==
  ASSUME IInv, NEW w \in Worker, NEW K
  PROVE  /\ GoodZone(ExpireTwo(zone, clock[w]))
         /\ Used(ExpireTwo(zone, clock[w]).queue, zone.queue, K)
BY ZoneGood, ExpireTwoGood, ExpireTwoCuts, UsedCut

(* get, delete, set_exptime: the entry found goes in front, hit or dead.   *)
LEMMA GetRecent ==
  ASSUME IInv, NEW w \in Worker, NEW k \in Key, Get(w, k)
  PROVE  RecentStep
<1> DEFINE z == ExpireTwo(zone, clock[w])
           K == KeyAt(z, k)
<1>1. GoodZone(z) /\ Used(z.queue, zone.queue, K)
  BY SearchedZone
<1> HIDE DEF z
<1>3. CASE RejectKey(w, "get", k)
  BY <1>3, SameRecent DEF RejectKey, Call
<1>4. ASSUME NEW a \in Live(z, k, clock[w]), mutex = Nil,
             Return(MoveToHead(z, a), Call("get", k, z.node[a].val, "ok"))
      PROVE  RecentStep
  <2>1. z.node[a].key = k /\ MoveToHead(z, a).node = z.node
    BY <1>1, LookupKeeps
  <2>2. /\ Used(MoveToHead(z, a).queue, zone.queue, K)
        /\ MoveToHead(z, a).queue # <<>> /\ Head(MoveToHead(z, a).queue) = a
    BY <1>1, SearchUsed
  <2>3. UseOrder(k) /\ InFront(k)
    BY <1>4, <2>1, <2>2 DEF Return, UseOrder, InFront, KeyAt
  <2>4. job' = Nil /\ ret'.key = k
    BY <1>4, FreeMeansIdle DEF Return, Call
  <2> QED
    BY <2>3, <2>4, CallRecent
<1>5. ASSUME NEW m \in Missed(z, k, clock[w]), mutex = Nil,
             Return(m, Call("get", k, Nil, "error"))
      PROVE  RecentStep
  <2>1. m.node = z.node /\ Used(m.queue, zone.queue, K)
    BY <1>1, LookupKeeps, SearchUsed
  <2>2. UseOrder(k)
    BY <1>5, <2>1 DEF Return, UseOrder, KeyAt
  <2>3. job' = Nil /\ ret'.key = k /\ ret'.rc = "error"
    BY <1>5, FreeMeansIdle DEF Return, Call
  <2> QED
    BY <2>2, <2>3, CallRecent
<1> QED
  BY <1>3, <1>4, <1>5 DEF Get, z

(* delete then takes the entry out, and the others keep their order.       *)
LEMMA DeleteRecent ==
  ASSUME IInv, NEW w \in Worker, NEW k \in Key, Delete(w, k)
  PROVE  RecentStep
<1> DEFINE z == ExpireTwo(zone, clock[w])
           K == KeyAt(z, k)
           ok == Call("delete", k, Nil, "ok")
<1>1. GoodZone(z) /\ Used(z.queue, zone.queue, K)
  BY SearchedZone
<1> HIDE DEF z
<1>3. ASSUME NEW y, Return(y, ok), mutex = Nil,
             Used(y.queue, zone.queue, KeyAt(y, k))
      PROVE  RecentStep
  <2>1. UseOrder(k)
    BY <1>3 DEF Return, UseOrder
  <2>2. job' = Nil /\ ret'.key = k /\ ret'.call = "delete"
    BY <1>3, FreeMeansIdle DEF Return, Call
  <2> QED
    BY <2>1, <2>2, CallRecent
<1>4. ASSUME NEW a \in Live(z, k, clock[w]), mutex = Nil,
             Return(Unlink(MoveToHead(z, a), a), ok)
      PROVE  RecentStep
  <2> DEFINE m == MoveToHead(z, a)
             y == Unlink(m, a)
             L == KeyAt(y, k)
  <2>1. m.node = z.node /\ Alloc(m) = Alloc(z) /\ a \in Alloc(z) /\ GoodZone(m)
    BY <1>1, LookupKeeps, MoveToHeadGood
  <2>2. Used(m.queue, zone.queue, K)
    BY <1>1, SearchUsed
  <2> HIDE DEF m
  <2>3. K \subseteq L \cup {a}
    BY <2>1 DEF Unlink, GoodZone, Zone, KeyAt
  <2>4. Used(m.queue, zone.queue, L \cup {a})
    BY <2>2, <2>3, UsedMore
  <2>5. Used(y.queue, zone.queue, L)
    <3> HIDE DEF L
    <3> QED BY <2>1, <2>4, UnlinkUsed
  <2> HIDE DEF y
  <2> QED
    BY <1>3, <1>4, <2>5 DEF m, y
<1>5. ASSUME NEW m \in Missed(z, k, clock[w]), mutex = Nil, Return(m, ok)
      PROVE  RecentStep
  <2>1. m.node = z.node /\ Used(m.queue, zone.queue, K)
    BY <1>1, LookupKeeps, SearchUsed
  <2> QED
    BY <1>3, <1>5, <2>1 DEF KeyAt
<1> QED
  BY <1>4, <1>5 DEF Delete, z

(* set_exptime writes a time into it, where it stands.                     *)
LEMMA SetExptimeRecent ==
  ASSUME IInv, NEW w \in Worker, NEW k \in Key, NEW ttl \in TTL,
         SetExptime(w, k, ttl)
  PROVE  RecentStep
<1> DEFINE z == ExpireTwo(zone, clock[w])
           K == KeyAt(z, k)
<1>1. GoodZone(z) /\ Used(z.queue, zone.queue, K)
  BY SearchedZone
<1> HIDE DEF z
<1>3. CASE RejectKey(w, "set_exptime", k)
  BY <1>3, SameRecent DEF RejectKey, Call
<1>4. ASSUME NEW a \in Live(z, k, clock[w]), mutex = Nil,
             Return([MoveToHead(z, a) EXCEPT !.node[a].exp = Deadline(ttl, clock[w])],
                    Call("set_exptime", k, Nil, "ok"))
      PROVE  RecentStep
  <2> DEFINE m == MoveToHead(z, a)
  <2>1. /\ m.node = z.node /\ a \in Alloc(z) /\ z.node[a].key = k /\ m \in Zone
    BY <1>1, LookupKeeps, MoveToHeadGood DEF GoodZone
  <2>2. /\ Used(m.queue, zone.queue, K)
        /\ m.queue # <<>> /\ Head(m.queue) = a
    BY <1>1, SearchUsed
  <2>3. zone' = [m EXCEPT !.node[a].exp = Deadline(ttl, clock[w])]
    BY <1>4 DEF Return
  <2> HIDE DEF m
  <2>4. a \in Addr /\ z.node[a] \in Node
    BY <2>1, NilAssumption DEF Alloc, Zone
  <2>5. /\ zone'.queue = m.queue
        /\ zone'.node = [m.node EXCEPT ![a].exp = Deadline(ttl, clock[w])]
    BY <2>1, <2>3 DEF Zone
  <2>6. \A b \in Addr : zone'.node[b].key = z.node[b].key
    BY <2>1, <2>4, <2>5 DEF Zone, Node
  <2>7. UseOrder(k) /\ InFront(k)
    BY <2>1, <2>2, <2>4, <2>5, <2>6 DEF UseOrder, InFront, KeyAt
  <2>8. job' = Nil /\ ret'.key = k
    BY <1>4, FreeMeansIdle DEF Return, Call
  <2> QED
    BY <2>7, <2>8, CallRecent
<1>5. ASSUME NEW m \in Missed(z, k, clock[w]), mutex = Nil,
             Return(m, Call("set_exptime", k, Nil, "error"))
      PROVE  RecentStep
  <2>1. m.node = z.node /\ Used(m.queue, zone.queue, K)
    BY <1>1, LookupKeeps, SearchUsed
  <2>2. UseOrder(k)
    BY <1>5, <2>1 DEF Return, UseOrder, KeyAt
  <2>3. job' = Nil /\ ret'.key = k /\ ret'.rc = "error"
    BY <1>5, FreeMeansIdle DEF Return, Call
  <2> QED
    BY <2>2, <2>3, CallRecent
<1> QED
  BY <1>3, <1>4, <1>5 DEF SetExptime, z

(* An entry stored for a set that returns: in front of those of its key.   *)
LEMMA LinkRecent ==
  ASSUME NEW y, GoodZone(y), NEW k, NEW v, NEW n, n.key = k,
         NEW a \in Addr \ Alloc(y), zone' = Link(y, a, n),
         ret' = Call("set", k, v, "ok"), job' = Nil,
         Used(y.queue, zone.queue, KeyAt(y, k))
  PROVE  RecentStep
<1> DEFINE K == KeyAt(y, k)
           L == KeyAt(zone', k)
<1>1. zone'.node[a] = n
      /\ \A b \in Addr \ {a} : zone'.node[b] = y.node[b]
  BY DEF Link, GoodZone, Zone
<1>2. K \subseteq L \cup {a} /\ a \in L
  BY <1>1 DEF KeyAt
<1>3. L = L \cup {a}
  BY <1>2
<1> HIDE DEF K, L
<1>4. Used(y.queue, zone.queue, L)
  BY <1>2, <1>3, UsedMore DEF K
<1>5. /\ Used(zone'.queue, zone.queue, L)
      /\ zone'.queue # <<>> /\ Head(zone'.queue) = a
  BY <1>2, <1>4, LinkUsed
<1>6. UseOrder(k) /\ InFront(k)
  BY <1>1, <1>5 DEF UseOrder, InFront, L
<1> QED
  BY <1>6, CallRecent DEF Call

(* insert puts its entry in front of those of its key.                     *)
LEMMA InsertRecent ==
  ASSUME IInv, mutex = Nil, NEW w \in Worker, NEW y, GoodZone(y),
         NEW k \in Key, NEW v \in Value, NEW ttl \in TTL,
         Insert(w, y, k, v, ttl),
         Used(y.queue, zone.queue, KeyAt(y, k))
  PROVE  RecentStep
<1> DEFINE n == Entry(k, v, ttl, clock[w])
<1>1. CASE /\ zone' = y
           /\ job' = [op |-> "insert", key |-> k, val |-> v, ttl |-> ttl,
                      tries |-> 0]
           /\ ret' = ret
  <2>1. job' \in InsertJob /\ job'.key = k
    BY <1>1, BoundAssumption DEF InsertJob
  <2> QED
    BY <1>1, <2>1 DEF RecentStep, UseOrder, UsedFirst, KeyOfCall
<1>2. ASSUME NEW a \in Addr \ Alloc(y), zone' = Link(y, a, n),
             ret' = Call("set", k, v, "ok"), job' = job
      PROVE  RecentStep
  <2>1. n.key = k
    BY DEF Entry
  <2> HIDE DEF n
  <2> QED
    BY <1>2, <2>1, FreeMeansIdle, LinkRecent
<1> HIDE DEF n
<1> QED
  BY <1>1, <1>2, InsertEffect DEF n

(* set writes the entry in place, replaces it, or inserts a new one.       *)
LEMMA SetRecent ==
  ASSUME IInv, NEW w \in Worker, NEW k \in Key, NEW v \in Value,
         NEW ttl \in TTL, Set(w, k, v, ttl)
  PROVE  RecentStep
<1> DEFINE z == ExpireTwo(zone, clock[w])
           K == KeyAt(z, k)
           n == Entry(k, v, ttl, clock[w])
<1>1. GoodZone(z) /\ Used(z.queue, zone.queue, K)
  BY SearchedZone
<1> HIDE DEF z
<1> HIDE DEF n
<1>3. CASE RejectKey(w, "set", k)
  BY <1>3, SameRecent DEF RejectKey, Call
<1>4. ASSUME NEW m \in Missed(z, k, clock[w]), mutex = Nil,
             Insert(w, m, k, v, ttl)
      PROVE  RecentStep
  <2>1. m.node = z.node /\ GoodZone(m) /\ Used(m.queue, zone.queue, K)
    BY <1>1, LookupKeeps, LookupGood, SearchUsed
  <2>2. Used(m.queue, zone.queue, KeyAt(m, k))
    BY <2>1 DEF KeyAt
  <2> QED
    BY <1>4, <2>1, <2>2, InsertRecent
<1>5. ASSUME NEW a \in Live(z, k, clock[w])
      PROVE  /\ MoveToHead(z, a).node = z.node /\ GoodZone(MoveToHead(z, a))
             /\ a \in Alloc(z) /\ a \in Addr
             /\ Alloc(MoveToHead(z, a)) = Alloc(z)
             /\ Used(MoveToHead(z, a).queue, zone.queue, K)
             /\ MoveToHead(z, a).queue # <<>> /\ Head(MoveToHead(z, a).queue) = a
  BY <1>1, LookupKeeps, MoveToHeadGood, SearchUsed DEF Alloc
<1>6. ASSUME NEW a \in Live(z, k, clock[w]), mutex = Nil,
             Return([MoveToHead(z, a) EXCEPT !.node[a] = n],
                    Call("set", k, v, "ok"))
      PROVE  RecentStep
  <2> DEFINE m == MoveToHead(z, a)
             L == KeyAt(zone', k)
  <2>1. zone' = [m EXCEPT !.node[a] = n] /\ m \in Zone
    BY <1>5, <1>6 DEF Return, GoodZone
  <2>2. /\ m.node = z.node /\ a \in Addr /\ Used(m.queue, zone.queue, K)
        /\ m.queue # <<>> /\ Head(m.queue) = a
    BY <1>5
  <2> HIDE DEF m
  <2>3. /\ zone'.queue = m.queue /\ zone'.node[a] = n
        /\ \A b \in Addr \ {a} : zone'.node[b] = z.node[b]
    BY <2>1, <2>2 DEF Zone
  <2>4. n.key = k
    BY DEF n, Entry
  <2>5. K \subseteq L
    BY <2>3, <2>4 DEF KeyAt
  <2> HIDE DEF L
  <2>6. Used(zone'.queue, zone.queue, L)
    BY <2>2, <2>3, <2>5, UsedMore
  <2>7. UseOrder(k) /\ InFront(k)
    BY <2>2, <2>3, <2>4, <2>6 DEF UseOrder, InFront, L
  <2>8. job' = Nil /\ ret'.key = k
    BY <1>6, FreeMeansIdle DEF Return, Call
  <2> QED
    BY <2>7, <2>8, CallRecent
<1>7. ASSUME NEW a \in Live(z, k, clock[w]), mutex = Nil,
             Insert(w, Unlink(MoveToHead(z, a), a), k, v, ttl)
      PROVE  RecentStep
  <2> DEFINE m == MoveToHead(z, a)
             y == Unlink(m, a)
             L == KeyAt(y, k)
  <2>1. /\ m.node = z.node /\ Alloc(m) = Alloc(z) /\ a \in Alloc(z)
        /\ GoodZone(m) /\ Used(m.queue, zone.queue, K)
    BY <1>5
  <2> HIDE DEF m
  <2>2. K \subseteq L \cup {a}
    BY <2>1 DEF Unlink, GoodZone, Zone, KeyAt
  <2>3. Used(m.queue, zone.queue, L \cup {a})
    BY <2>1, <2>2, UsedMore
  <2>4. Used(y.queue, zone.queue, L)
    <3> HIDE DEF L
    <3> QED BY <2>1, <2>3, UnlinkUsed
  <2>5. GoodZone(y)
    BY <2>1, UnlinkGood
  <2>6. Insert(w, y, k, v, ttl)
    BY <1>7 DEF m
  <2> HIDE DEF y
  <2> QED
    BY <1>7, <2>4, <2>5, <2>6, InsertRecent
<1> QED
  BY <1>3, <1>4, <1>6, <1>7 DEF Set, z, n

(* A turn of insert's loop cuts the queue and puts the new entry in front. *)
LEMMA EvictRoundRecent ==
  ASSUME IInv, NEW w \in Worker, EvictRound(w)
  PROVE  RecentStep
<1> DEFINE z == ExpireForced(zone, clock[w])
           n == Entry(job.key, job.val, job.ttl, clock[w])
<1>1. GoodZone(z) /\ Prefix(z.queue, zone.queue) /\ job \in InsertJob
  BY ZoneGood, ExpireForcedCuts DEF EvictRound
<1>2. \A K : Used(z.queue, zone.queue, K)
  BY <1>1, UsedCut
<1>3. ASSUME NEW a \in Room(z, job.val), zone' = Link(z, a, n),
             Unlock(Call("set", job.key, job.val, "ok"))
      PROVE  RecentStep
  <2> HIDE DEF z
  <2>1. a \in Addr \ Alloc(z)
    BY <1>1, RoomFree DEF InsertJob
  <2>2. n.key = job.key
    BY DEF Entry
  <2>3. job' = Nil /\ ret' = Call("set", job.key, job.val, "ok")
    BY <1>3 DEF Unlock
  <2>4. Used(z.queue, zone.queue, KeyAt(z, job.key))
    BY <1>2
  <2> HIDE DEF n
  <2> QED
    BY <1>1, <1>3, <2>1, <2>2, <2>3, <2>4, LinkRecent
<1>4. ASSUME zone' = z, ret' = ret
      PROVE  RecentStep
  BY <1>2, <1>4 DEF RecentStep, UseOrder, UsedFirst
<1> QED
  BY <1>3, <1>4 DEF EvictRound

(* flush_all cuts the queue it has aged.                                   *)
LEMMA FlushAllRecent ==
  ASSUME IInv, NEW w \in Worker, FlushAll(w)
  PROVE  RecentStep
<1> DEFINE aged == [a \in Addr |-> IF a \in ToSet(zone.queue)
                                   THEN [zone.node[a] EXCEPT !.exp = 1]
                                   ELSE zone.node[a]]
           y == [zone EXCEPT !.node = aged]
<1>1. GoodZone(y) /\ y.queue = zone.queue
  BY ZoneGood, AgedGood DEF GoodZone, Zone
<1>2. /\ zone' = ExpireForced(y, clock[w])
      /\ ret' = Call("flush_all", Nil, Nil, "ok")
  BY DEF FlushAll, Return
<1> HIDE DEF y
<1>3. Prefix(zone'.queue, zone.queue)
  <2>1. CASE y.queue = <<>>
    BY <1>1, <1>2, <2>1 DEF ExpireForced, Prefix, GoodZone, Zone
  <2>2. CASE y.queue # <<>>
    BY <1>1, <1>2, <2>2, ExpireForcedCuts
  <2> QED
    BY <2>1, <2>2
<1> QED
  BY <1>2, <1>3, UsedCut DEF RecentStep, UseOrder, UsedFirst, Call

(* A turn of flush_expired takes an entry out, or none.                    *)
LEMMA SweepStepRecent ==
  ASSUME IInv, NEW w \in Worker, SweepStep(w)
  PROVE  RecentStep
<1> DEFINE a == zone.queue[job.at]
<1>1. CASE zone' = zone
  BY <1>1, SameRecent DEF SweepStep
<1>2. CASE zone' = Unlink(zone, a)
  <2>1. a \in Alloc(zone)
    <3>1. job.at \in Nat /\ job.at # 0 /\ job.at <= Len(zone.queue)
      BY DEF SweepStep, SweepEnds, IInv, SweepInsideQueue, SweepJob
    <3>2. job.at \in DOMAIN zone.queue
      BY <3>1, ZoneGood DEF GoodZone, Zone
    <3> QED
      BY <3>2, ZoneGood DEF GoodZone, Indexed, ToSet
  <2>2. Prefix(zone.queue, zone.queue)
    BY ZoneGood DEF Prefix, GoodZone, Zone
  <2> HIDE DEF a
  <2>3. \A K : Used(zone'.queue, zone.queue, K)
    BY <1>2, <2>1, <2>2, ZoneGood, UsedCut, UnlinkUsed
  <2> QED
    BY <2>3 DEF RecentStep, UseOrder, UsedFirst, SweepStep
<1> QED
  BY <1>1, <1>2 DEF SweepStep

(* Every step keeps the order of use.                                      *)
LEMMA StepRecent == IInv /\ Next => RecentStep
<1> SUFFICES ASSUME IInv, Next PROVE RecentStep
  OBVIOUS
<1>1. ASSUME NEW w \in Worker,
             \/ EvictGiveUp(w)
             \/ \E limit \in SweepLimit : FlushExpired(w, limit)
             \/ SweepDone(w) \/ Foreach(w) \/ Tick(w) \/ Crash(w)
      PROVE  RecentStep
  <2>1. /\ zone' = zone
        /\ \/ ret' = ret
           \/ ret'.rc = "error"
           \/ ret'.call \notin {"get", "set", "set_exptime"}
    BY <1>1 DEF EvictGiveUp, FlushExpired, Return, SweepDone, Foreach, Tick,
       Crash, Unlock, Call
  <2> QED
    BY <2>1, SameRecent
<1> QED
  BY <1>1, GetRecent, DeleteRecent, SetExptimeRecent, SetRecent,
     EvictRoundRecent, FlushAllRecent, SweepStepRecent DEF Next

(* What RecentFirst says of a step.                                        *)
OrderKept ==
  LET q == zone'.queue
  IN /\ \A a, b \in Addr :
          Before(zone.queue, a, b) /\ Before(q, b, a) =>
            /\ zone'.node[b].key = KeyOfCall
            /\ \A c \in Addr : Before(q, c, b) => zone'.node[c].key = KeyOfCall
     /\ (/\ ret' # ret
         /\ ret'.rc = "ok"
         /\ ret'.call \in {"get", "set", "set_exptime"}) =>
          q # <<>> /\ zone'.node[Head(q)].key = ret'.key

(* The queue is ordered by last use: only the entries of the key a call    *)
(* names overtake others, and they stand in front of all when it returns.  *)
THEOREM RecencyKept == Spec => RecentFirst
<1>1. ASSUME IInv, RecentStep PROVE OrderKept
  <2>1. zone.queue \in Seq(Addr) /\ Distinct(zone.queue)
    BY <1>1, ZoneGood DEF GoodZone, Zone, Indexed, Distinct
  <2>2. \A a, b \in Addr : Before(zone.queue, a, b) => ~ Before(zone.queue, b, a)
    BY <2>1, BeforeOnce
  <2> QED
    BY <1>1, <2>2 DEF OrderKept, RecentStep, UseOrder, Used, UsedFirst, InFront, KeyAt
<1>2. IInv /\ [Next]_vars => [OrderKept]_vars
  BY <1>1, StepRecent
<1>3. [][OrderKept]_vars => RecentFirst
  BY PTL DEF OrderKept, RecentFirst
<1> QED
  BY <1>2, <1>3, Invariance, PTL DEF Spec

-----------------------------------------------------------------------------
(***************************************************************************)
(* A zone in which nothing expires is an evicting map: the refinement of   *)
(* EvictingMap by the dictionary, for all workers, keys, values and slabs. *)
(*                                                                         *)
(* The argument.  While nothing expires a key has at most one entry, so    *)
(* the entry a search ends at is the one the key's value lies in, and each *)
(* operation on the zone is an operation on the map it stands for.  What   *)
(* must be carried from step to step is that the worker in insert's loop   *)
(* is looking for memory for a key the zone does not hold.                 *)
(***************************************************************************)

(* Nothing expires: exptime is 0 in every call, and nobody flushes.        *)
Eternal == TTL = {0} /\ "flush_all" \notin Calls

(* Some entry of z is k's.                                                 *)
Bears(z, k) == \E a \in Alloc(z) : z.node[a].key = k

(* A sound zone of entries without a time, one a key.                      *)
Plain(z) ==
  /\ GoodZone(z)
  /\ \A a \in Alloc(z) : z.node[a].exp = 0
  /\ \A a, b \in Alloc(z) : z.node[a].key = z.node[b].key => a = b

(* A worker in insert's loop brings a key the zone does not hold, and a    *)
(* key just deleted is not held.                                           *)
MapInv ==
  /\ Plain(zone)
  /\ job \in InsertJob => job.key \in LegalKey /\ ~ Bears(zone, job.key)
  /\ ret.call = "delete" => ~ Bears(zone, ret.key)

-----------------------------------------------------------------------------
(* The map of a plain zone.                                                *)

(* The map holds the value of each entry under its key, and nothing else.  *)
LEMMA MapIs ==
  ASSUME NEW z, Plain(z)
  PROVE  /\ MapOf(z) \in [Key -> Value \cup {Nil}]
         /\ \A a \in Alloc(z) : /\ z.node[a] \in Node
                                /\ MapOf(z)[z.node[a].key] = z.node[a].val
         /\ \A k \in Key : ~ Bears(z, k) => MapOf(z)[k] = Nil
<1> DEFINE f(k) == CHOOSE a \in Found(z, k) : TRUE
<1>1. \A a \in Alloc(z) : z.node[a] \in Node
  BY DEF Plain, GoodZone, Zone, Alloc
<1>2. \A k : Found(z, k) = {a \in Alloc(z) : z.node[a].key = k}
  BY FoundIs DEF Plain
<1>3. \A k : Found(z, k) # {} => f(k) \in Found(z, k)
  OBVIOUS
<1> HIDE DEF f
<1>4. MapOf(z) = [k \in Key |-> IF Found(z, k) = {} THEN Nil ELSE z.node[f(k)].val]
  BY DEF MapOf, f
<1>5. MapOf(z) \in [Key -> Value \cup {Nil}]
  <2>1. ASSUME NEW k \in Key, Found(z, k) # {}
        PROVE  z.node[f(k)].val \in Value
    <3>1. z.node[f(k)] \in Node
      BY <1>1, <1>2, <1>3, <2>1
    <3> QED
      BY <3>1 DEF Node
  <2> QED
    BY <1>4, <2>1
<1>6. ASSUME NEW a \in Alloc(z)
      PROVE  MapOf(z)[z.node[a].key] = z.node[a].val
  <2> DEFINE k == z.node[a].key
  <2>1. k \in Key
    BY <1>1 DEF Node
  <2>2. a \in Found(z, k)
    BY <1>2
  <2>3. f(k) \in Alloc(z) /\ z.node[f(k)].key = k
    BY <1>2, <1>3, <2>2
  <2>4. f(k) = a
    BY <2>3 DEF Plain
  <2> HIDE DEF k
  <2>5. MapOf(z)[k] = z.node[f(k)].val
    BY <1>4, <2>1, <2>2
  <2> QED
    BY <2>4, <2>5 DEF k
<1>7. ASSUME NEW k \in Key, ~ Bears(z, k)
      PROVE  MapOf(z)[k] = Nil
  BY <1>2, <1>4, <1>7 DEF Bears
<1> QED
  BY <1>1, <1>5, <1>6, <1>7

(* Two maps are the same when they agree on every key.                     *)
LEMMA MapsAgree ==
  ASSUME NEW f, NEW g, NEW S, f \in [Key -> S], g \in [Key -> S],
         \A k \in Key : f[k] = g[k]
  PROVE  f = g
OBVIOUS

(* A key some entry bears has a value in the map.                          *)
LEMMA BearsIs ==
  ASSUME NEW z, Plain(z), NEW k \in Key
  PROVE  Bears(z, k) <=> MapOf(z)[k] # Nil
<1>1. CASE ~ Bears(z, k)
  BY <1>1, MapIs
<1>2. ASSUME NEW a \in Alloc(z), z.node[a].key = k
      PROVE  MapOf(z)[k] # Nil /\ Bears(z, k)
  <2>1. z.node[a].val \in Value /\ MapOf(z)[k] = z.node[a].val
    BY <1>2, MapIs DEF Node
  <2> QED
    BY <1>2, <2>1, NilAssumption DEF Bears
<1> QED
  BY <1>1, <1>2 DEF Bears

(* What is kept keeps its value: a zone that only loses entries shrinks    *)
(* the map.                                                                *)
LEMMA KeptPlain ==
  ASSUME NEW y, NEW z, Plain(z), GoodZone(y), Kept(y, z)
  PROVE  /\ Plain(y)
         /\ \A k : Bears(y, k) => Bears(z, k)
         /\ \A k \in Key : MapOf(y)[k] \in {MapOf(z)[k], Nil}
<1>1. Plain(y)
  BY DEF Plain, Kept
<1>2. \A k : Bears(y, k) => Bears(z, k)
  BY DEF Bears, Kept
<1>3. ASSUME NEW k \in Key, NEW a \in Alloc(y), y.node[a].key = k
      PROVE  MapOf(y)[k] = MapOf(z)[k]
  <2>1. a \in Alloc(z) /\ z.node[a] = y.node[a]
    BY DEF Kept
  <2>2. MapOf(y)[k] = y.node[a].val
    BY <1>1, <1>3, MapIs
  <2>3. MapOf(z)[k] = z.node[a].val
    BY <1>3, <2>1, MapIs
  <2> QED
    BY <2>1, <2>2, <2>3
<1>4. ASSUME NEW k \in Key, ~ Bears(y, k)
      PROVE  MapOf(y)[k] = Nil
  BY <1>1, <1>4, MapIs
<1> QED
  BY <1>1, <1>2, <1>3, <1>4 DEF Bears

(* Moving entries changes nothing but their order.                         *)
LEMMA SameEntries ==
  ASSUME NEW y, NEW z, Plain(z), GoodZone(y), y.node = z.node
  PROVE  /\ Plain(y) /\ MapOf(y) = MapOf(z)
         /\ \A k : Bears(y, k) <=> Bears(z, k)
<1>1. Alloc(y) = Alloc(z)
  BY DEF Alloc
<1>2. Kept(y, z) /\ Kept(z, y) /\ GoodZone(z)
  BY <1>1 DEF Kept, Plain
<1>3. Plain(y) /\ (\A k : Bears(y, k) <=> Bears(z, k))
  BY <1>2, KeptPlain
<1>4. \A k \in Key : /\ MapOf(y)[k] \in {MapOf(z)[k], Nil}
                     /\ MapOf(z)[k] \in {MapOf(y)[k], Nil}
  BY <1>2, <1>3, KeptPlain
<1>5. MapOf(y) = MapOf(z)
  BY <1>3, <1>4, MapIs, MapsAgree
<1> QED
  BY <1>3, <1>5

(* Nothing is stale, and no search ends at a dead entry.                   *)
LEMMA LookupPlain ==
  ASSUME NEW z, Plain(z), NEW k, NEW now
  PROVE  /\ ExpireTwo(z, now) = z
         /\ Live(z, k, now) = {a \in Alloc(z) : z.node[a].key = k}
         /\ Missed(z, k, now) = IF Bears(z, k) THEN {} ELSE {z}
<1>1. Found(z, k) = {a \in Alloc(z) : z.node[a].key = k}
  BY FoundIs DEF Plain
<1>2. PopStale(z, now) = z
  BY TailAllocated DEF Plain, PopStale, Stale
<1>3. ExpireTwo(z, now) = z
  BY <1>2 DEF ExpireTwo
<1>4. Live(z, k, now) = Found(z, k)
  BY <1>1 DEF Live, Dead, Plain
<1>5. Missed(z, k, now) = IF Bears(z, k) THEN {} ELSE {z}
  BY <1>1, <1>4 DEF Missed, Bears
<1> QED
  BY <1>1, <1>3, <1>4, <1>5

(* Freeing an entry takes its key out of the map.                          *)
LEMMA UnlinkPlain ==
  ASSUME NEW z, Plain(z), NEW a \in Alloc(z)
  PROVE  LET y == Unlink(z, a)
             k == z.node[a].key
         IN /\ Plain(y) /\ Kept(y, z) /\ ~ Bears(y, k)
            /\ MapOf(y) = [MapOf(z) EXCEPT ![k] = Nil]
<1> DEFINE y == Unlink(z, a)
           k == z.node[a].key
<1>1. GoodZone(y) /\ Kept(y, z) /\ Alloc(y) = Alloc(z) \ {a}
  BY UnlinkGood, UnlinkKeeps DEF Plain
<1> HIDE DEF y
<1>2. Plain(y)
  BY <1>1, KeptPlain
<1>3. ~ Bears(y, k)
  BY <1>1 DEF Bears, Kept, Plain
<1>4. k \in Key /\ MapOf(z) \in [Key -> Value \cup {Nil}]
      /\ MapOf(y) \in [Key -> Value \cup {Nil}]
  BY <1>2, MapIs DEF Node
<1>5. ASSUME NEW j \in Key
      PROVE  MapOf(y)[j] = [MapOf(z) EXCEPT ![k] = Nil][j]
  <2>1. CASE j = k
    BY <1>2, <1>3, <1>4, <2>1, MapIs
  <2>2. CASE j # k /\ ~ Bears(z, j)
    <3>1. ~ Bears(y, j)
      BY <1>1, <2>2 DEF Bears, Kept
    <3>2. MapOf(y)[j] = Nil /\ MapOf(z)[j] = Nil
      BY <1>2, <2>2, <3>1, MapIs
    <3> QED
      BY <1>4, <2>2, <3>2
  <2>3. ASSUME j # k, NEW b \in Alloc(z), z.node[b].key = j
        PROVE  MapOf(y)[j] = [MapOf(z) EXCEPT ![k] = Nil][j]
    <3>1. b \in Alloc(y) /\ y.node[b] = z.node[b]
      BY <1>1, <2>3 DEF Kept
    <3>2. MapOf(y)[j] = y.node[b].val
      BY <1>2, <2>3, <3>1, MapIs
    <3>3. MapOf(z)[j] = z.node[b].val
      BY <2>3, MapIs
    <3> QED
      BY <1>4, <2>3, <3>1, <3>2, <3>3
  <2> QED
    BY <2>1, <2>2, <2>3 DEF Bears
<1>6. [MapOf(z) EXCEPT ![k] = Nil] \in [Key -> Value \cup {Nil}]
  BY <1>4
<1>7. MapOf(y) = [MapOf(z) EXCEPT ![k] = Nil]
  BY <1>4, <1>5, <1>6, MapsAgree
<1> QED
  BY <1>1, <1>2, <1>3, <1>7 DEF y

(* Storing the only entry of its key, in a free chunk or over the old      *)
(* entry, sets the key's value and leaves the other keys' alone.           *)
LEMMA PutsPlain ==
  ASSUME NEW y, NEW z, Plain(z), GoodZone(y), NEW a, NEW n \in Node,
         Puts(y, z, a, n), n.exp = 0,
         \A b \in Alloc(z) \ {a} : z.node[b].key # n.key
  PROVE  /\ Plain(y)
         /\ MapOf(y)[n.key] = n.val
         /\ \A k \in Key \ {n.key} : MapOf(y)[k] \in {MapOf(z)[k], Nil}
<1>1. a \in Alloc(y) /\ y.node[a] = n
  BY NilAssumption DEF Puts, Alloc
<1>2. Plain(y)
  BY <1>1 DEF Plain, Puts
<1>3. MapOf(y)[n.key] = n.val
  BY <1>1, <1>2, MapIs
<1>4. ASSUME NEW k \in Key \ {n.key}
      PROVE  MapOf(y)[k] \in {MapOf(z)[k], Nil}
  <2>1. CASE ~ Bears(y, k)
    BY <1>2, <2>1, MapIs
  <2>2. ASSUME NEW b \in Alloc(y), y.node[b].key = k
        PROVE  MapOf(y)[k] = MapOf(z)[k]
    <3>1. b \in Alloc(z) /\ y.node[b] = z.node[b]
      BY <1>1, <2>2 DEF Puts
    <3>2. MapOf(y)[k] = y.node[b].val
      BY <1>2, <2>2, MapIs
    <3>3. MapOf(z)[k] = z.node[b].val
      BY <2>2, <3>1, MapIs
    <3> QED
      BY <3>1, <3>2, <3>3
  <2> QED
    BY <2>1, <2>2 DEF Bears
<1> QED
  BY <1>2, <1>3, <1>4

-----------------------------------------------------------------------------
(* The steps of the dictionary as steps of the map.                        *)

(* A step that brings no new key and no new loop keeps the invariant.      *)
LEMMA KeepsMapInv ==
  ASSUME MapInv, Plain(zone'), \A k : Bears(zone', k) => Bears(zone, k),
         \/ job' = job
         \/ job' \notin InsertJob
         \/ job \in InsertJob /\ job'.key = job.key,
         ret'.call # "delete" \/ ret' = ret
  PROVE  MapInv'
BY DEF MapInv

(* A call that leaves the entries as they are leaves the map as it is.     *)
LEMMA SameMap ==
  ASSUME MapInv, GoodZone(zone'), zone'.node = zone.node,
         \/ job' = job
         \/ job' \notin InsertJob
         \/ job \in InsertJob /\ job'.key = job.key,
         ret'.call # "delete" \/ ret' = ret
  PROVE  MapInv' /\ UNCHANGED StoredMap
<1>1. Plain(zone') /\ MapOf(zone') = MapOf(zone)
      /\ \A k : Bears(zone', k) <=> Bears(zone, k)
  BY SameEntries DEF MapInv
<1> QED
  BY <1>1, KeepsMapInv DEF StoredMap

(* get answers from the map and leaves it alone.                           *)
LEMMA GetMaps ==
  ASSUME IInv, MapInv, NEW w \in Worker, NEW k \in Key, Get(w, k)
  PROVE  MapInv' /\ (Abstract!Refuse("get", k) \/ Abstract!Get(k))
<1>1. GoodZone(zone) /\ Plain(zone)
  BY ZoneGood DEF MapInv
<1>2. CASE RejectKey(w, "get", k)
  <2>1. MapInv' /\ UNCHANGED StoredMap
    BY <1>1, <1>2, SameMap DEF RejectKey, Call
  <2> QED
    BY <1>2, <2>1 DEF RejectKey, Call, Abstract!Refuse, Abstract!Answer
<1>3. ASSUME NEW a \in Live(zone, k, clock[w]),
             Return(MoveToHead(zone, a), Call("get", k, zone.node[a].val, "ok"))
      PROVE  MapInv' /\ Abstract!Get(k)
  <2>1. a \in Alloc(zone) /\ zone.node[a].key = k
    BY <1>1, LookupPlain
  <2>2. GoodZone(zone') /\ zone'.node = zone.node /\ job' = job
        /\ ret' = Call("get", k, zone.node[a].val, "ok")
    BY <1>1, <1>3, <2>1, MoveToHeadGood DEF Return
  <2>3. MapInv' /\ UNCHANGED StoredMap
    BY <2>2, SameMap DEF Call
  <2>4. StoredMap[k] = zone.node[a].val /\ StoredMap[k] # Nil
    BY <1>1, <2>1, MapIs, NilAssumption DEF StoredMap, Node
  <2> QED
    BY <2>2, <2>3, <2>4 DEF Call, Abstract!Get, Abstract!Answer
<1>4. ASSUME ~ Bears(zone, k), Return(zone, Call("get", k, Nil, "error"))
      PROVE  MapInv' /\ Abstract!Get(k)
  <2>1. MapInv' /\ UNCHANGED StoredMap
    BY <1>1, <1>4, SameMap DEF Return, Call
  <2>2. StoredMap[k] = Nil
    BY <1>1, <1>4, MapIs DEF StoredMap
  <2> QED
    BY <1>4, <2>1, <2>2 DEF Return, Call, Abstract!Get, Abstract!Answer
<1>5. ExpireTwo(zone, clock[w]) = zone
      /\ Missed(zone, k, clock[w]) = IF Bears(zone, k) THEN {} ELSE {zone}
  BY <1>1, LookupPlain
<1> QED
  BY <1>2, <1>3, <1>4, <1>5 DEF Get

(* delete takes its key out of the map.                                    *)
LEMMA DeleteMaps ==
  ASSUME IInv, MapInv, NEW w \in Worker, NEW k \in Key, Delete(w, k)
  PROVE  MapInv' /\ Abstract!Delete(k)
<1>1. GoodZone(zone) /\ Plain(zone)
  BY ZoneGood DEF MapInv
<1>2. /\ ExpireTwo(zone, clock[w]) = zone
      /\ Missed(zone, k, clock[w]) = IF Bears(zone, k) THEN {} ELSE {zone}
      /\ \A a \in Live(zone, k, clock[w]) : a \in Alloc(zone) /\ zone.node[a].key = k
  <2>1. Live(zone, k, clock[w]) = {a \in Alloc(zone) : zone.node[a].key = k}
    BY <1>1, LookupPlain
  <2> QED
    BY <1>1, <2>1, LookupPlain
<1>3. /\ ret' = Call("delete", k, Nil, "ok") /\ UNCHANGED job
      /\ \/ \E a \in Alloc(zone) :
              zone.node[a].key = k /\ zone' = Unlink(MoveToHead(zone, a), a)
         \/ ~ Bears(zone, k) /\ zone' = zone
  BY <1>2 DEF Delete, Return
<1>4. /\ Plain(zone')
      /\ \A j : Bears(zone', j) => Bears(zone, j)
      /\ ~ Bears(zone', k)
      /\ MapOf(zone') = [MapOf(zone) EXCEPT ![k] = Nil]
  <2>1. ASSUME NEW a \in Alloc(zone), zone.node[a].key = k,
               zone' = Unlink(MoveToHead(zone, a), a)
        PROVE  <1>4!:
    <3> DEFINE m == MoveToHead(zone, a)
    <3>1. GoodZone(m) /\ m.node = zone.node /\ Alloc(m) = Alloc(zone)
      BY <1>1, MoveToHeadGood
    <3>2. zone' = Unlink(m, a)
      BY <2>1
    <3> HIDE DEF m
    <3>3. Plain(m) /\ MapOf(m) = MapOf(zone)
          /\ \A j : Bears(m, j) <=> Bears(zone, j)
      BY <1>1, <3>1, SameEntries
    <3>4. /\ Plain(zone') /\ Kept(zone', m) /\ ~ Bears(zone', k)
          /\ MapOf(zone') = [MapOf(m) EXCEPT ![k] = Nil]
      BY <2>1, <3>1, <3>2, <3>3, UnlinkPlain
    <3>5. \A j : Bears(zone', j) => Bears(m, j)
      BY <3>4 DEF Bears, Kept
    <3> QED
      BY <3>3, <3>4, <3>5
  <2>2. CASE ~ Bears(zone, k) /\ zone' = zone
    <3>1. MapOf(zone)[k] = Nil /\ MapOf(zone) \in [Key -> Value \cup {Nil}]
      BY <1>1, <2>2, MapIs
    <3>2. MapOf(zone) = [MapOf(zone) EXCEPT ![k] = Nil]
      BY <3>1
    <3> QED
      BY <1>1, <2>2, <3>2
  <2> QED
    BY <1>3, <2>1, <2>2
<1>5. MapInv'
  BY <1>3, <1>4 DEF MapInv, Call
<1> QED
  BY <1>3, <1>4, <1>5 DEF StoredMap, Call, Abstract!Delete, Abstract!Answer

(* set_exptime answers from the map; there is no other time to give.       *)
LEMMA SetExptimeMaps ==
  ASSUME IInv, MapInv, NEW w \in Worker, NEW k \in Key, SetExptime(w, k, 0)
  PROVE  MapInv' /\ (Abstract!Refuse("set_exptime", k) \/ Abstract!Refresh(k))
<1>1. GoodZone(zone) /\ Plain(zone)
  BY ZoneGood DEF MapInv
<1>2. CASE RejectKey(w, "set_exptime", k)
  <2>1. MapInv' /\ UNCHANGED StoredMap
    BY <1>1, <1>2, SameMap DEF RejectKey, Call
  <2> QED
    BY <1>2, <2>1 DEF RejectKey, Call, Abstract!Refuse, Abstract!Answer
<1>3. ASSUME NEW a \in Live(zone, k, clock[w]),
             Return([MoveToHead(zone, a) EXCEPT
                       !.node[a].exp = Deadline(0, clock[w])],
                    Call("set_exptime", k, Nil, "ok"))
      PROVE  MapInv' /\ Abstract!Refresh(k)
  <2> DEFINE m == MoveToHead(zone, a)
             n == zone.node[a]
  <2>1. a \in Alloc(zone) /\ a \in Addr /\ n.key = k /\ n \in Node /\ n.exp = 0
    BY <1>1, LookupPlain, MapIs DEF Plain, Alloc
  <2>2. GoodZone(m) /\ m.node = zone.node
    BY <1>1, <2>1, MoveToHeadGood
  <2>3. Deadline(0, clock[w]) = 0
    BY DEF Deadline
  <2>4. zone' = [m EXCEPT !.node[a].exp = 0] /\ job' = job
        /\ ret' = Call("set_exptime", k, Nil, "ok")
    BY <1>3, <2>3 DEF Return
  <2> HIDE DEF m
  <2>5. m \in Zone /\ m.node \in [Addr -> Node \cup {Nil}]
    BY <2>2 DEF GoodZone, Zone
  <2>6. [n EXCEPT !.exp = 0] = n
    BY <2>1 DEF Node
  <2>7. zone' = m
    BY <2>1, <2>2, <2>4, <2>5, <2>6 DEF Zone
  <2>8. MapInv' /\ UNCHANGED StoredMap
    BY <2>2, <2>4, <2>7, SameMap DEF Call
  <2>9. StoredMap[k] # Nil
    BY <1>1, <2>1, MapIs, NilAssumption DEF StoredMap, Node
  <2> QED
    BY <2>4, <2>8, <2>9 DEF Call, Abstract!Refresh, Abstract!Answer
<1>4. ASSUME ~ Bears(zone, k), Return(zone, Call("set_exptime", k, Nil, "error"))
      PROVE  MapInv' /\ Abstract!Refresh(k)
  <2>1. MapInv' /\ UNCHANGED StoredMap
    BY <1>1, <1>4, SameMap DEF Return, Call
  <2>2. StoredMap[k] = Nil
    BY <1>1, <1>4, MapIs DEF StoredMap
  <2> QED
    BY <1>4, <2>1, <2>2 DEF Return, Call, Abstract!Refresh, Abstract!Answer
<1>5. ExpireTwo(zone, clock[w]) = zone
      /\ Missed(zone, k, clock[w]) = IF Bears(zone, k) THEN {} ELSE {zone}
  BY <1>1, LookupPlain
<1>6. \/ RejectKey(w, "set_exptime", k)
      \/ \E a \in Live(zone, k, clock[w]) :
           Return([MoveToHead(zone, a) EXCEPT
                     !.node[a].exp = Deadline(0, clock[w])],
                  Call("set_exptime", k, Nil, "ok"))
      \/ \E m \in Missed(zone, k, clock[w]) :
           Return(m, Call("set_exptime", k, Nil, "error"))
  BY <1>5, Zenon DEF SetExptime
<1>7. \A m \in Missed(zone, k, clock[w]) : m = zone /\ ~ Bears(zone, k)
  BY <1>5
<1> QED
  BY <1>2, <1>3, <1>4, <1>6, <1>7

(* An entry stored for a key the zone y, what is left of the zone, does    *)
(* not hold is a set that succeeds.                                        *)
LEMMA StoreMaps ==
  ASSUME MapInv, NEW y, Plain(y), Kept(y, zone), GoodZone(zone'),
         NEW k \in LegalKey, NEW v \in Value, NEW n \in Node, NEW a,
         n.key = k, n.val = v, n.exp = 0, Puts(zone', y, a, n),
         \A b \in Alloc(y) \ {a} : y.node[b].key # k,
         ret' = Call("set", k, v, "ok"), job' \notin InsertJob
  PROVE  MapInv' /\ Abstract!SetStores(k, v)
<1>1. /\ Plain(zone') /\ MapOf(zone')[k] = v
      /\ \A j \in Key \ {k} : MapOf(zone')[j] \in {MapOf(y)[j], Nil}
  BY PutsPlain
<1>2. GoodZone(y) /\ Plain(zone)
  BY DEF Plain, MapInv
<1>3. \A j \in Key : MapOf(y)[j] \in {MapOf(zone)[j], Nil}
  BY <1>2, KeptPlain
<1>4. \A j \in Key \ {k} : MapOf(zone')[j] \in {MapOf(zone)[j], Nil}
  BY <1>1, <1>3
<1>5. MapOf(zone') \in [Key -> Value \cup {Nil}]
  BY <1>1, MapIs
<1>6. MapInv'
  BY <1>1 DEF MapInv, Call
<1> QED
  BY <1>1, <1>4, <1>5, <1>6
     DEF StoredMap, Call, Abstract!SetStores, Abstract!Answer, Abstract!Shrinks

(* Entries lost while a set looks for memory are forgotten.                *)
LEMMA ForgetMaps ==
  ASSUME MapInv, Kept(zone', zone), GoodZone(zone'), ret' = ret,
         job' \in InsertJob =>
           job'.key \in LegalKey /\ ~ Bears(zone', job'.key)
  PROVE  MapInv' /\ Abstract!Forget
<1>1. /\ Plain(zone') /\ (\A k : Bears(zone', k) => Bears(zone, k))
      /\ \A k \in Key : MapOf(zone')[k] \in {MapOf(zone)[k], Nil}
  BY KeptPlain DEF MapInv
<1>2. MapInv'
  BY <1>1 DEF MapInv
<1>3. MapOf(zone') \in [Key -> Value \cup {Nil}]
  BY <1>1, MapIs
<1> QED
  BY <1>1, <1>2, <1>3 DEF StoredMap, Abstract!Forget, Abstract!Shrinks

(* insert, from a zone y without the key, stores or forgets.               *)
LEMMA InsertMaps ==
  ASSUME IInv, MapInv, NEW w \in Worker, mutex = Nil, NEW y, Plain(y),
         Kept(y, zone), GoodZone(zone'), TTL = {0}, NEW k \in LegalKey,
         NEW v \in Value, ~ Bears(y, k), Insert(w, y, k, v, 0)
  PROVE  MapInv' /\ (Abstract!SetStores(k, v) \/ Abstract!Forget)
<1> DEFINE n == Entry(k, v, 0, clock[w])
<1>1. n \in Node /\ n.key = k /\ n.val = v /\ n.exp = 0
  BY ZoneGood, EntryType, KeyAssumption DEF Entry, Deadline
<1>2. GoodZone(y) /\ 0 \in TTL /\ k \in Key /\ job \notin InsertJob
  BY KeyAssumption, NilAssumption DEF Plain, IInv, LockHeldByJob
<1> HIDE DEF n
<1>3. CASE /\ zone' = y
           /\ job' = [op |-> "insert", key |-> k, val |-> v, ttl |-> 0,
                      tries |-> 0]
           /\ ret' = ret
  BY <1>3, ForgetMaps
<1>4. ASSUME NEW a \in Addr, Puts(zone', y, a, n),
             ret' = Call("set", k, v, "ok"), job' = job
      PROVE  MapInv' /\ Abstract!SetStores(k, v)
  BY <1>1, <1>2, <1>4, StoreMaps DEF Bears
<1> QED
  BY <1>2, <1>3, <1>4, InsertEffect DEF n

(* set stores, overwrites, refuses, or forgets and goes on looking.        *)
LEMMA SetMaps ==
  ASSUME IInv, MapInv, GoodZone(zone'), TTL = {0}, NEW w \in Worker,
         NEW k \in Key, NEW v \in Value, Set(w, k, v, 0)
  PROVE  MapInv' /\ \/ Abstract!Refuse("set", k)
                    \/ Abstract!SetStores(k, v)
                    \/ Abstract!Forget
<1> DEFINE n == Entry(k, v, 0, clock[w])
<1>1. GoodZone(zone) /\ Plain(zone) /\ n \in Node
      /\ n.key = k /\ n.val = v /\ n.exp = 0
  BY ZoneGood, EntryType DEF MapInv, Entry, Deadline
<1> HIDE DEF n
<1>2. CASE RejectKey(w, "set", k)
  <2>1. MapInv' /\ UNCHANGED StoredMap
    BY <1>1, <1>2, SameMap DEF RejectKey, Call
  <2> QED
    BY <1>2, <2>1 DEF RejectKey, Call, Abstract!Refuse, Abstract!Answer
<1>3. ASSUME mutex = Nil, k \in LegalKey, ~ Bears(zone, k),
             Insert(w, zone, k, v, 0)
      PROVE  MapInv' /\ (Abstract!SetStores(k, v) \/ Abstract!Forget)
  <2>1. Kept(zone, zone)
    BY DEF Kept
  <2> QED
    BY <1>1, <1>3, <2>1, InsertMaps
<1>4. ASSUME mutex = Nil, k \in LegalKey, NEW a \in Alloc(zone),
             zone.node[a].key = k
      PROVE  /\ Return([MoveToHead(zone, a) EXCEPT !.node[a] = n],
                       Call("set", k, v, "ok"))
                => MapInv' /\ Abstract!SetStores(k, v)
             /\ Insert(w, Unlink(MoveToHead(zone, a), a), k, v, 0)
                => MapInv' /\ (Abstract!SetStores(k, v) \/ Abstract!Forget)
  <2> DEFINE m == MoveToHead(zone, a)
             y == Unlink(m, a)
  <2>1. GoodZone(m) /\ m.node = zone.node /\ Alloc(m) = Alloc(zone)
    BY <1>1, MoveToHeadGood
  <2> HIDE DEF m
  <2>2. Plain(m) /\ Kept(m, zone)
    BY <1>1, <2>1, SameEntries DEF Kept
  <2>3. Plain(y) /\ Kept(y, m) /\ ~ Bears(y, k)
    BY <1>4, <2>1, <2>2, UnlinkPlain
  <2>4. Kept(y, zone)
    BY <2>2, <2>3 DEF Kept
  <2>5. ASSUME Return([m EXCEPT !.node[a] = n], Call("set", k, v, "ok"))
        PROVE  MapInv' /\ Abstract!SetStores(k, v)
    <3>1. Puts(zone', m, a, n)
      BY <2>1, <2>5, OverwritePuts DEF Return, Alloc
    <3>2. \A b \in Alloc(m) \ {a} : m.node[b].key # k
      BY <1>4, <2>1, <2>2 DEF Plain
    <3>3. job' \notin InsertJob /\ ret' = Call("set", k, v, "ok")
      BY <1>4, <2>5, NilAssumption DEF Return, IInv, LockHeldByJob
    <3> QED
      BY <1>1, <1>4, <2>2, <3>1, <3>2, <3>3, StoreMaps
  <2> HIDE DEF y
  <2>6. ASSUME Insert(w, y, k, v, 0)
        PROVE  MapInv' /\ (Abstract!SetStores(k, v) \/ Abstract!Forget)
    BY <1>4, <2>3, <2>4, <2>6, InsertMaps
  <2> QED
    BY <2>5, <2>6 DEF m, y
<1>5. ExpireTwo(zone, clock[w]) = zone
      /\ Missed(zone, k, clock[w]) = IF Bears(zone, k) THEN {} ELSE {zone}
  BY <1>1, LookupPlain
<1>6. Live(zone, k, clock[w]) = {a \in Alloc(zone) : zone.node[a].key = k}
  BY <1>1, LookupPlain
<1>7. CASE ~ RejectKey(w, "set", k)
  <2>1. /\ mutex = Nil /\ k \in LegalKey
        /\ \/ \E m \in Missed(zone, k, clock[w]) : Insert(w, m, k, v, 0)
           \/ \E a \in Live(zone, k, clock[w]) :
                \/ Return([MoveToHead(zone, a) EXCEPT !.node[a] = n],
                          Call("set", k, v, "ok"))
                \/ Insert(w, Unlink(MoveToHead(zone, a), a), k, v, 0)
    BY <1>5, <1>7, Zenon DEF Set, n
  <2>2. CASE \E m \in Missed(zone, k, clock[w]) : Insert(w, m, k, v, 0)
    BY <1>3, <1>5, <2>1, <2>2
  <2>3. ASSUME NEW a \in Live(zone, k, clock[w]),
               \/ Return([MoveToHead(zone, a) EXCEPT !.node[a] = n],
                         Call("set", k, v, "ok"))
               \/ Insert(w, Unlink(MoveToHead(zone, a), a), k, v, 0)
        PROVE  MapInv' /\ (Abstract!SetStores(k, v) \/ Abstract!Forget)
    <3>1. a \in Alloc(zone) /\ zone.node[a].key = k
      BY <1>6
    <3> QED
      BY <1>4, <2>1, <2>3, <3>1
  <2> QED
    BY <2>1, <2>2, <2>3
<1> QED
  BY <1>2, <1>7

(* A turn of insert's loop stores its entry, or forgets and goes on.       *)
LEMMA EvictRoundMaps ==
  ASSUME IInv, MapInv, GoodZone(zone'), TTL = {0}, NEW w \in Worker,
         EvictRound(w)
  PROVE  MapInv' /\ \/ Abstract!SetStores(job.key, job.val)
                    \/ Abstract!Forget
<1> DEFINE z == ExpireForced(zone, clock[w])
           n == Entry(job.key, job.val, job.ttl, clock[w])
<1>1. /\ GoodZone(zone) /\ Plain(zone) /\ zone.queue # <<>>
      /\ clock[w] \in Nat /\ job \in InsertJob
      /\ job.key \in LegalKey /\ ~ Bears(zone, job.key)
  BY ZoneGood DEF MapInv, EvictRound
<1>2. job.key \in Key /\ job.val \in Value /\ job.ttl \in TTL /\ job.ttl = 0
  BY <1>1 DEF InsertJob
<1>3. n \in Node /\ n.key = job.key /\ n.val = job.val /\ n.exp = 0
  <2>1. n \in Node /\ n.val = job.val
    BY <1>1, <1>2, EntryType
  <2>2. Deadline(job.ttl, clock[w]) = 0
    BY <1>2 DEF Deadline
  <2> QED
    BY <2>1, <2>2 DEF Entry
<1>4. Kept(z, zone) /\ GoodZone(z)
  BY <1>1, ExpireForcedCuts
<1> HIDE DEF z, n
<1>5. Plain(z) /\ ~ Bears(z, job.key)
  BY <1>1, <1>4, KeptPlain
<1>6. ASSUME NEW a \in Room(z, job.val), zone' = Link(z, a, n),
             Unlock(Call("set", job.key, job.val, "ok"))
      PROVE  MapInv' /\ Abstract!SetStores(job.key, job.val)
  <2>1. Puts(zone', z, a, n)
    BY <1>2, <1>4, <1>6, RoomFree, LinkPuts
  <2>2. job' \notin InsertJob /\ ret' = Call("set", job.key, job.val, "ok")
    BY <1>6, NilAssumption DEF Unlock
  <2> QED
    BY <1>1, <1>2, <1>3, <1>4, <1>5, <2>1, <2>2, StoreMaps DEF Bears
<1>7. ASSUME zone' = z, job' = [job EXCEPT !.tries = @ + 1], ret' = ret
      PROVE  MapInv' /\ Abstract!Forget
  <2>1. job'.key = job.key
    BY <1>1, <1>7 DEF InsertJob
  <2> QED
    BY <1>1, <1>4, <1>5, <1>7, <2>1, ForgetMaps
<1> QED
  BY <1>6, <1>7 DEF EvictRound, z, n

(* A loop that gives up leaves no value behind.                            *)
LEMMA EvictGiveUpMaps ==
  ASSUME IInv, MapInv, NEW w \in Worker, EvictGiveUp(w)
  PROVE  MapInv' /\ Abstract!SetFails(job.key, job.val)
<1>1. /\ GoodZone(zone) /\ Plain(zone) /\ job \in InsertJob
      /\ job.key \in LegalKey /\ ~ Bears(zone, job.key)
  BY ZoneGood DEF MapInv, EvictGiveUp
<1>2. /\ zone' = zone /\ job' = Nil
      /\ ret' = Call("set", job.key, job.val, "error")
  BY DEF EvictGiveUp, Unlock
<1>3. MapInv' /\ UNCHANGED StoredMap
  BY <1>1, <1>2, NilAssumption, SameMap DEF Call
<1>4. StoredMap[job.key] = Nil
  BY <1>1, KeyAssumption, MapIs DEF StoredMap
<1> QED
  BY <1>1, <1>2, <1>3, <1>4 DEF Call, Abstract!SetFails, Abstract!Answer

(* The other steps leave the map alone: a sweep finds nothing stale.       *)
LEMMA OtherMaps ==
  ASSUME IInv, MapInv, Eternal, NEW w \in Worker,
         \/ FlushAll(w)
         \/ \E limit \in SweepLimit : FlushExpired(w, limit)
         \/ SweepStep(w) \/ SweepDone(w) \/ Foreach(w) \/ Tick(w) \/ Crash(w)
  PROVE  MapInv' /\ (Abstract!Scan \/ UNCHANGED <<StoredMap, ret>>)
<1>1. GoodZone(zone) /\ Plain(zone)
  BY ZoneGood DEF MapInv
<1>2. zone' = zone
  <2>1. ASSUME SweepStep(w)
        PROVE  ~ Stale(zone.node[zone.queue[job.at]], clock[w])
    <3>1. job.at \in DOMAIN zone.queue
      <4>1. job \in SweepJob /\ job.at # 0 /\ job.at <= Len(zone.queue)
        BY <2>1 DEF SweepStep, SweepEnds, IInv, SweepInsideQueue
      <4>2. job.at \in 1 .. Len(zone.queue)
        BY <4>1 DEF SweepJob
      <4> QED
        BY <1>1, <4>2 DEF GoodZone, Zone
    <3>2. zone.queue[job.at] \in Alloc(zone)
      BY <1>1, <3>1 DEF GoodZone, Indexed, ToSet
    <3> QED
      BY <1>1, <3>2 DEF Stale, Plain
  <2> QED
    BY <2>1 DEF Eternal, FlushAll, FlushExpired, Return, SweepStep, SweepDone,
                Foreach, Tick, Crash
<1>3. \/ job' = job
      \/ job' \notin InsertJob
  <2>1. ASSUME SweepStep(w)
        PROVE  job' \notin InsertJob
    <3>1. job \in SweepJob /\ job'.op = "sweep"
      BY <2>1 DEF SweepStep, Advance, SweepJob
    <3> QED
      BY <3>1 DEF InsertJob
  <2> QED
    BY <2>1, NilAssumption
       DEF Eternal, FlushAll, FlushExpired, Return, SweepDone, Unlock,
           Foreach, Tick, Crash, InsertJob
<1>4. \/ ret' = ret
      \/ ret' = Call("flush_expired", Nil, Nil, "ok")
      \/ \E rc \in {"ok", "error"} : ret' = Call("foreach", Nil, Nil, rc)
  BY DEF Eternal, FlushAll, FlushExpired, Return, SweepStep, SweepDone, Unlock,
         Foreach, Tick, Crash
<1>5. ret'.call # "delete" \/ ret' = ret
  BY <1>4 DEF Call
<1>6. MapInv' /\ UNCHANGED StoredMap
  BY <1>1, <1>2, <1>3, <1>5, SameMap
<1> QED
  BY <1>4, <1>6 DEF Call, Abstract!Scan, Abstract!Answer

(* Every step of the dictionary is one of the map, or none.                *)
LEMMA StepMaps ==
  ASSUME Eternal, IInv, IInv', MapInv, [Next]_vars
  PROVE  MapInv' /\ [Abstract!Next]_<<StoredMap, ret>>
<1>1. GoodZone(zone')
  BY DEF IInv, TypeOK, Consistent, SlabSound, GoodZone
<1>2. CASE UNCHANGED vars
  <2>1. MapInv' /\ UNCHANGED StoredMap
    BY <1>1, <1>2, SameMap DEF vars
  <2> QED
    BY <1>2, <2>1 DEF vars
<1>3. ASSUME NEW w \in Worker, NEW k \in Key, Get(w, k)
      PROVE  MapInv' /\ Abstract!Next
  BY <1>3, GetMaps DEF Abstract!Next
<1>4. ASSUME NEW w \in Worker, NEW k \in Key, Delete(w, k)
      PROVE  MapInv' /\ Abstract!Next
  BY <1>4, DeleteMaps DEF Abstract!Next
<1>5. ASSUME NEW w \in Worker, NEW k \in Key, NEW ttl \in TTL,
             SetExptime(w, k, ttl)
      PROVE  MapInv' /\ Abstract!Next
  <2>1. ttl = 0
    BY DEF Eternal
  <2> QED
    BY <1>5, <2>1, SetExptimeMaps DEF Abstract!Next
<1>6. ASSUME NEW w \in Worker, NEW k \in Key, NEW v \in Value,
             NEW ttl \in TTL, Set(w, k, v, ttl)
      PROVE  MapInv' /\ Abstract!Next
  <2>1. ttl = 0 /\ TTL = {0}
    BY DEF Eternal
  <2> QED
    BY <1>1, <1>6, <2>1, SetMaps DEF Abstract!Next
<1>7. ASSUME NEW w \in Worker, EvictRound(w) \/ EvictGiveUp(w)
      PROVE  MapInv' /\ Abstract!Next
  <2>1. job.key \in Key /\ job.val \in Value
    BY <1>7 DEF EvictRound, EvictGiveUp, InsertJob
  <2>2. MapInv' /\ \/ Abstract!SetStores(job.key, job.val)
                   \/ Abstract!SetFails(job.key, job.val)
                   \/ Abstract!Forget
    BY <1>1, <1>7, EvictRoundMaps, EvictGiveUpMaps DEF Eternal
  <2> QED
    BY <2>1, <2>2 DEF Abstract!Next
<1>8. ASSUME NEW w \in Worker,
             \/ FlushAll(w)
             \/ \E limit \in SweepLimit : FlushExpired(w, limit)
             \/ SweepStep(w) \/ SweepDone(w) \/ Foreach(w) \/ Tick(w) \/ Crash(w)
      PROVE  MapInv' /\ [Abstract!Next]_<<StoredMap, ret>>
  BY <1>8, OtherMaps DEF Abstract!Next
<1> QED
  BY <1>2, <1>3, <1>4, <1>5, <1>6, <1>7, <1>8 DEF Next

(* The empty zone is plain, and its map is empty.                          *)
LEMMA InitMaps == Init => MapInv /\ Abstract!Init
<1> SUFFICES ASSUME Init
             PROVE  MapInv /\ Abstract!Init
  OBVIOUS
<1>1. GoodZone(zone) /\ Alloc(zone) = {}
  BY EmptyZoneGood DEF Init, Alloc
<1>2. Plain(zone) /\ \A k : ~ Bears(zone, k)
  BY <1>1 DEF Plain, Bears
<1>3. MapInv
  BY <1>2, NilAssumption DEF MapInv, Init, Call
<1>4. StoredMap = [k \in Key |-> Nil]
  BY <1>2, MapIs DEF StoredMap
<1> QED
  BY <1>3, <1>4 DEF Init, Call, Abstract!Init, Abstract!Answer

(* The invariant, from which the theorems below follow.                    *)
LEMMA MapInvariance == ASSUME Eternal PROVE Spec => [](IInv /\ MapInv)
<1>1. Init => IInv /\ MapInv
  BY InitInv, InitMaps
<1>2. IInv /\ MapInv /\ [Next]_vars => IInv' /\ MapInv'
  BY StepInv, StepMaps
<1> QED
  BY <1>1, <1>2, PTL DEF Spec

(* "If it does not exist, insert a new one" (ngx_shm_dict.c:705-707): a    *)
(* key has at most one entry, as long as no entry expires.                 *)
THEOREM KeysUnique == ASSUME Eternal PROVE Spec => []UniqueKeys
<1>1. MapInv => UniqueKeys
  BY DEF MapInv, Plain, UniqueKeys
<1> QED
  BY <1>1, MapInvariance, PTL

(* After delete no worker finds its key, as long as no entry expires; the  *)
(* finding of the run on DeleteHides is what becomes of it when they do.   *)
THEOREM DeletedIsHidden == ASSUME Eternal PROVE Spec => []DeleteHides
<1>1. IInv /\ MapInv => DeleteHides
  BY LookupPlain DEF MapInv, DeleteHides, Bears
<1> QED
  BY <1>1, MapInvariance, PTL

(* While nothing expires, a zone under any number of workers, evictions    *)
(* and deaths in the loop is an evicting map: every call answers from the  *)
(* map, no value changes by itself, a failed set leaves nothing behind.    *)
THEOREM ZoneImplementsMap == ASSUME Eternal PROVE Spec => ImplementsEvictingMap
<1>1. Init => Abstract!Init
  BY InitMaps
<1>2. IInv /\ MapInv /\ [Next]_vars => [Abstract!Next]_<<StoredMap, ret>>
  BY StepInv, StepMaps
<1> QED
  BY <1>1, <1>2, MapInvariance, PTL DEF Spec, ImplementsEvictingMap, Abstract!Spec
=============================================================================
