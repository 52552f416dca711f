--------------------------- MODULE ShmDict_proofs ---------------------------
(***************************************************************************)
(* Proofs about the shared-memory dictionary, for every number of workers, *)
(* keys, values and chunks, every slab layout and every eviction bound.    *)
(***************************************************************************)
EXTENDS ShmDictProps, SequenceTheorems, TLAPS

(* No position repeats an address.                                         *)
Distinct(q) == \A i, j \in DOMAIN q : q[i] = q[j] => i = j

(* ngx_queue_remove takes exactly one element out of a duplicate-free      *)
(* queue and leaves the others in place.                                   *)
LEMMA QueueRemoveProperties ==
  ASSUME NEW q \in Seq(Addr), Distinct(q), NEW a \in ToSet(q)
  PROVE  /\ QueueRemove(q, a) \in Seq(Addr)
         /\ Len(QueueRemove(q, a)) = Len(q) - 1
         /\ ToSet(QueueRemove(q, a)) = ToSet(q) \ {a}
         /\ Distinct(QueueRemove(q, a))
         /\ \E k \in 1 .. Len(q) :
              \A i \in 1 .. Len(q) - 1 :
                QueueRemove(q, a)[i] = IF i < k THEN q[i] ELSE q[i + 1]
<1> DEFINE k == CHOOSE i \in DOMAIN q : q[i] = a
           r == QueueRemove(q, a)
<1>1. k \in 1 .. Len(q) /\ q[k] = a /\ Len(q) \in Nat /\ DOMAIN q = 1 .. Len(q)
  <2>1. DOMAIN q = 1 .. Len(q) /\ Len(q) \in Nat
    OBVIOUS
  <2>2. \E i \in DOMAIN q : q[i] = a
    BY DEF ToSet
  <2> QED BY <2>1, <2>2
<1>2. r = SubSeq(q, 1, k - 1) \o SubSeq(q, k + 1, Len(q))
  BY DEF QueueRemove, RemoveAt
<1>3. /\ SubSeq(q, 1, k - 1) \in Seq(Addr)
      /\ Len(SubSeq(q, 1, k - 1)) = k - 1
      /\ \A i \in 1 .. k - 1 : SubSeq(q, 1, k - 1)[i] = q[i]
  <2>1. \A i \in 1 .. k - 1 : q[i] \in Addr
    BY <1>1
  <2> HIDE DEF k
  <2> QED BY <1>1, <2>1, SubSeqProperties
<1>4. /\ SubSeq(q, k + 1, Len(q)) \in Seq(Addr)
      /\ Len(SubSeq(q, k + 1, Len(q))) = Len(q) - k
      /\ \A i \in 1 .. Len(q) - k : SubSeq(q, k + 1, Len(q))[i] = q[k + i]
  <2>1. \A i \in k + 1 .. Len(q) : q[i] \in Addr
    BY <1>1
  <2> HIDE DEF k
  <2>2. k + 1 \in Int /\ Len(q) \in Int /\ k \in Int /\ k <= Len(q)
    BY <1>1
  <2>3. /\ SubSeq(q, k + 1, Len(q)) \in Seq(Addr)
        /\ Len(SubSeq(q, k + 1, Len(q))) =
             IF k + 1 <= Len(q) THEN Len(q) - (k + 1) + 1 ELSE 0
        /\ \A i \in 1 .. Len(q) - (k + 1) + 1 :
             SubSeq(q, k + 1, Len(q))[i] = q[(k + 1) + i - 1]
    BY <2>1, <2>2, SubSeqProperties
  <2>4. Len(q) - (k + 1) + 1 = Len(q) - k
        /\ \A i \in 1 .. Len(q) - k : (k + 1) + i - 1 = k + i
    BY <2>2
  <2>5. (IF k + 1 <= Len(q) THEN Len(q) - (k + 1) + 1 ELSE 0) = Len(q) - k
    BY <2>2
  <2> HIDE DEF r
  <2> QED BY <2>3, <2>4, <2>5
<1> HIDE DEF k
<1>5. /\ r \in Seq(Addr)
      /\ Len(r) = Len(q) - 1
      /\ \A i \in 1 .. Len(q) - 1 : r[i] = IF i < k THEN q[i] ELSE q[i + 1]
  <2> DEFINE s == SubSeq(q, 1, k - 1)
             t == SubSeq(q, k + 1, Len(q))
  <2>1. s \in Seq(Addr) /\ t \in Seq(Addr) /\ r = s \o t
        /\ Len(s) = k - 1 /\ Len(t) = Len(q) - k
        /\ (\A i \in 1 .. k - 1 : s[i] = q[i])
        /\ (\A i \in 1 .. Len(q) - k : t[i] = q[k + i])
    BY <1>2, <1>3, <1>4
  <2> HIDE DEF s, t, r
  <2>2. r \in Seq(Addr) /\ Len(r) = Len(s) + Len(t)
        /\ \A i \in 1 .. Len(s) + Len(t) :
             r[i] = IF i <= Len(s) THEN s[i] ELSE t[i - Len(s)]
    BY <2>1, ConcatProperties
  <2>3. Len(s) + Len(t) = Len(q) - 1
    BY <2>1, <1>1
  <2>4. ASSUME NEW i \in 1 .. Len(q) - 1
        PROVE  r[i] = IF i < k THEN q[i] ELSE q[i + 1]
    <3>1. CASE i < k
      <4>1. i \in 1 .. k - 1 /\ i <= Len(s) BY <3>1, <1>1, <2>1
      <4> QED BY <4>1, <2>1, <2>2, <2>3, <3>1
    <3>2. CASE ~ (i < k)
      <4>1. i - Len(s) \in 1 .. Len(q) - k /\ ~ (i <= Len(s))
        BY <3>2, <1>1, <2>1
      <4>2. t[i - Len(s)] = q[k + (i - Len(s))] BY <4>1, <2>1
      <4>3. k + (i - Len(s)) = i + 1 BY <1>1, <2>1
      <4> QED BY <4>1, <4>2, <4>3, <2>2, <2>3, <3>2
    <3> QED BY <3>1, <3>2
  <2> QED BY <2>2, <2>3, <2>4
<1> HIDE DEF r
<1>6. DOMAIN r = 1 .. Len(q) - 1
  BY <1>5
<1>7. ToSet(r) = ToSet(q) \ {a}
  <2>1. ASSUME NEW x \in ToSet(r) PROVE x \in ToSet(q) \ {a}
    <3>1. PICK i \in 1 .. Len(q) - 1 : r[i] = x
      BY <1>6 DEF ToSet
    <3>2. PICK j \in 1 .. Len(q) : q[j] = x /\ j # k
      BY <3>1, <1>1, <1>5
    <3> QED BY <3>2, <1>1 DEF ToSet, Distinct
  <2>2. ASSUME NEW x \in ToSet(q) \ {a} PROVE x \in ToSet(r)
    <3>1. PICK j \in 1 .. Len(q) : q[j] = x /\ j # k
      BY <1>1 DEF ToSet
    <3>2. CASE j < k
      BY <3>1, <3>2, <1>1, <1>5, <1>6 DEF ToSet
    <3>3. CASE j > k
      <4>1. j - 1 \in 1 .. Len(q) - 1 /\ ~ (j - 1 < k) /\ (j - 1) + 1 = j
        BY <3>1, <3>3, <1>1
      <4>2. r[j - 1] = q[j]
        BY <4>1, <1>5
      <4> QED BY <3>1, <4>1, <4>2, <1>6 DEF ToSet
    <3> QED BY <3>1, <3>2, <3>3, <1>1
  <2> QED BY <2>1, <2>2
<1>8. Distinct(r)
  <2> SUFFICES ASSUME NEW i \in 1 .. Len(q) - 1, NEW j \in 1 .. Len(q) - 1,
                      r[i] = r[j]
               PROVE  i = j
    BY <1>6 DEF Distinct
  <2> DEFINE At(m) == IF m < k THEN m ELSE m + 1
  <2>1. q[At(i)] = q[At(j)]
    BY <1>5
  <2>2. At(i) \in 1 .. Len(q) /\ At(j) \in 1 .. Len(q)
    BY <1>1
  <2>3. At(i) = At(j)
    <3> HIDE DEF At
    <3> QED BY <1>1, <2>1, <2>2 DEF Distinct
  <2> QED BY <1>1, <2>3
<1> QED BY <1>1, <1>5, <1>7, <1>8 DEF r

(* ngx_queue_insert_head of an element that is not linked.                 *)
LEMMA InsertHeadProperties ==
  ASSUME NEW q \in Seq(Addr), Distinct(q), NEW a \in Addr, a \notin ToSet(q)
  PROVE  /\ <<a>> \o q \in Seq(Addr)
         /\ Len(<<a>> \o q) = Len(q) + 1
         /\ ToSet(<<a>> \o q) = ToSet(q) \cup {a}
         /\ Distinct(<<a>> \o q)
<1> DEFINE r == <<a>> \o q
<1>1. r \in Seq(Addr) /\ Len(r) = Len(q) + 1 /\ DOMAIN r = 1 .. Len(q) + 1
      /\ r[1] = a /\ (\A i \in 1 .. Len(q) : r[i + 1] = q[i])
      /\ DOMAIN q = 1 .. Len(q) /\ Len(q) \in Nat
  OBVIOUS
<1> HIDE DEF r
<1>2. \A i \in 2 .. Len(q) + 1 : i - 1 \in 1 .. Len(q) /\ r[i] = q[i - 1]
  BY <1>1
<1>3. ToSet(r) = ToSet(q) \cup {a}
  <2>1. ASSUME NEW x \in ToSet(r) PROVE x \in ToSet(q) \cup {a}
    BY <1>1, <1>2 DEF ToSet
  <2>2. ASSUME NEW x \in ToSet(q) PROVE x \in ToSet(r)
    <3>1. PICK i \in 1 .. Len(q) : q[i] = x BY <1>1 DEF ToSet
    <3>2. i + 1 \in DOMAIN r /\ r[i + 1] = x BY <1>1, <3>1
    <3> QED BY <3>2 DEF ToSet
  <2>3. a \in ToSet(r) BY <1>1 DEF ToSet
  <2> QED BY <2>1, <2>2, <2>3
<1>4. Distinct(r)
  <2> SUFFICES ASSUME NEW i \in 1 .. Len(q) + 1, NEW j \in 1 .. Len(q) + 1,
                      r[i] = r[j]
               PROVE  i = j
    BY <1>1 DEF Distinct
  <2>1. \A m \in 1 .. Len(q) : q[m] # a BY <1>1 DEF ToSet
  <2>2. CASE i = 1 \/ j = 1
    <3>1. \A m \in 2 .. Len(q) + 1 : r[m] # a BY <1>2, <2>1
    <3> QED BY <1>1, <3>1, <2>2
  <2>3. CASE i # 1 /\ j # 1
    <3>1. i \in 2 .. Len(q) + 1 /\ j \in 2 .. Len(q) + 1 BY <2>3, <1>1
    <3>2. i - 1 \in DOMAIN q /\ j - 1 \in DOMAIN q /\ q[i - 1] = q[j - 1]
      BY <1>1, <1>2, <3>1
    <3>3. i - 1 = j - 1 BY <3>2 DEF Distinct
    <3> QED BY <3>3
  <2> QED BY <2>2, <2>3
<1> QED BY <1>1, <1>3, <1>4 DEF r

-----------------------------------------------------------------------------
(* What every operation on a zone preserves.                               *)
GoodZone(z) == z \in Zone /\ Indexed(z) /\ Packed(z)

(* An empty zone is consistent.                                            *)
LEMMA EmptyZoneGood ==
  GoodZone([node |-> [a \in Addr |-> Nil], tree |-> {}, queue |-> <<>>])
<1> DEFINE z == [node |-> [a \in Addr |-> Nil], tree |-> {}, queue |-> <<>>]
<1>1. Alloc(z) = {} /\ z \in Zone
  BY DEF Alloc, Zone
<1>2. ToSet(z.queue) = {} /\ DOMAIN z.queue = {}
  BY DEF ToSet
<1> QED BY <1>1, <1>2 DEF GoodZone, Indexed, Packed

(* Unlinking an entry keeps a zone sound; only that entry goes.            *)
LEMMA UnlinkGood ==
  ASSUME NEW z, GoodZone(z), NEW a \in Alloc(z)
  PROVE  /\ GoodZone(Unlink(z, a))
         /\ Alloc(Unlink(z, a)) = Alloc(z) \ {a}
         /\ Len(Unlink(z, a).queue) = Len(z.queue) - 1
<1> DEFINE y == Unlink(z, a)
<1>1. /\ a \in Addr /\ a \in ToSet(z.queue) /\ z.queue \in Seq(Addr)
      /\ Distinct(z.queue) /\ z.node \in [Addr -> Node \cup {Nil}]
  BY DEF GoodZone, Zone, Indexed, Alloc, Distinct
<1>2. /\ y.queue \in Seq(Addr)
      /\ Len(y.queue) = Len(z.queue) - 1
      /\ ToSet(y.queue) = ToSet(z.queue) \ {a}
      /\ Distinct(y.queue)
  BY <1>1, QueueRemoveProperties DEF Unlink
<1>3. /\ y.node \in [Addr -> Node \cup {Nil}]
      /\ y.node[a] = Nil
      /\ \A b \in Addr \ {a} : y.node[b] = z.node[b]
  BY <1>1 DEF Unlink
<1>4. y.tree = z.tree \ {a} /\ z.tree \in SUBSET Addr
  BY DEF Unlink, GoodZone, Zone
<1>5. Alloc(y) = Alloc(z) \ {a}
  BY <1>3 DEF Alloc
<1>6. y \in Zone
  BY <1>2, <1>3, <1>4 DEF Zone, Unlink
<1>7. Indexed(y)
  BY <1>2, <1>4, <1>5 DEF Indexed, GoodZone, Distinct
<1>8. Packed(y)
  <2>1. \A b \in Alloc(y) : b \in Alloc(z) /\ y.node[b] = z.node[b]
    BY <1>3, <1>5 DEF Alloc
  <2> QED BY <2>1 DEF Packed, GoodZone
<1> QED BY <1>2, <1>5, <1>6, <1>7, <1>8 DEF GoodZone

(* Storing an entry in a chunk the allocator may hand out.                 *)
LEMMA LinkGood ==
  ASSUME NEW z, GoodZone(z), NEW n \in Node, NEW a \in Room(z, n.val)
  PROVE  GoodZone(Link(z, a, n))
<1> DEFINE y == Link(z, a, n)
           c == ClassOf[n.val]
<1>1. /\ a \in Addr /\ z.node[a] = Nil /\ a \in Chunk[c]
      /\ \A b \in Alloc(z) : PageOf[b] = PageOf[a] => ClassOf[z.node[b].val] = c
  BY SlabAssumption DEF Room, Node
<1>2. /\ z.queue \in Seq(Addr) /\ a \notin ToSet(z.queue)
      /\ Distinct(z.queue) /\ z.node \in [Addr -> Node \cup {Nil}]
  BY <1>1 DEF GoodZone, Zone, Indexed, Alloc, Distinct
<1>3. /\ y.queue \in Seq(Addr)
      /\ ToSet(y.queue) = ToSet(z.queue) \cup {a}
      /\ Distinct(y.queue)
  BY <1>1, <1>2, InsertHeadProperties DEF Link
<1>4. /\ y.node \in [Addr -> Node \cup {Nil}]
      /\ y.node[a] = n
      /\ \A b \in Addr \ {a} : y.node[b] = z.node[b]
  BY <1>1, <1>2 DEF Link
<1>5. y.tree = z.tree \cup {a} /\ z.tree \in SUBSET Addr
  BY DEF Link, GoodZone, Zone
<1>6. Alloc(y) = Alloc(z) \cup {a}
  BY <1>1, <1>4, NilAssumption DEF Alloc
<1>7. y \in Zone
  BY <1>1, <1>3, <1>4, <1>5 DEF Zone, Link
<1>8. Indexed(y)
  BY <1>3, <1>5, <1>6 DEF Indexed, GoodZone, Distinct
<1>9. Packed(y)
  <2>1. \A b \in Alloc(y) : b = a \/ (b \in Alloc(z) /\ b # a)
    BY <1>6
  <2>2. \A b \in Alloc(z) : b # a => y.node[b] = z.node[b]
    BY <1>4 DEF Alloc
  <2> QED BY <1>1, <1>4, <2>1, <2>2 DEF Packed, GoodZone
<1> QED BY <1>7, <1>8, <1>9 DEF GoodZone

(* Moving an entry to the head changes nothing but the order.              *)
LEMMA MoveToHeadGood ==
  ASSUME NEW z, GoodZone(z), NEW a \in Alloc(z)
  PROVE  /\ GoodZone(MoveToHead(z, a))
         /\ MoveToHead(z, a).node = z.node
         /\ Alloc(MoveToHead(z, a)) = Alloc(z)
<1> DEFINE y == MoveToHead(z, a)
           r == QueueRemove(z.queue, a)
<1>1. /\ a \in Addr /\ a \in ToSet(z.queue) /\ z.queue \in Seq(Addr)
      /\ Distinct(z.queue) /\ z \in Zone
  BY DEF GoodZone, Zone, Indexed, Alloc, Distinct
<1>2. /\ r \in Seq(Addr) /\ ToSet(r) = ToSet(z.queue) \ {a} /\ Distinct(r)
  BY <1>1, QueueRemoveProperties
<1>3. y.node = z.node /\ y.tree = z.tree /\ y.queue = <<a>> \o r
  BY <1>1 DEF MoveToHead, Zone
<1>4. /\ y.queue \in Seq(Addr)
      /\ ToSet(y.queue) = ToSet(z.queue)
      /\ Distinct(y.queue)
  <2> HIDE DEF r, y
  <2>1. a \notin ToSet(r) /\ ToSet(r) \cup {a} = ToSet(z.queue)
    BY <1>1, <1>2
  <2>2. /\ <<a>> \o r \in Seq(Addr)
        /\ ToSet(<<a>> \o r) = ToSet(r) \cup {a}
        /\ Distinct(<<a>> \o r)
    BY <1>1, <1>2, <2>1, InsertHeadProperties
  <2> QED BY <1>3, <2>1, <2>2
<1>5. Alloc(y) = Alloc(z)
  BY <1>3 DEF Alloc
<1>6. y \in Zone
  BY <1>1, <1>4 DEF Zone, MoveToHead
<1>7. Indexed(y)
  BY <1>3, <1>4, <1>5 DEF Indexed, GoodZone, Distinct
<1>8. Packed(y)
  BY <1>3, <1>5 DEF Packed, GoodZone
<1> QED BY <1>3, <1>5, <1>6, <1>7, <1>8 DEF GoodZone

(* Overwriting an entry by one of the same size class, where it stands.    *)
LEMMA OverwriteGood ==
  ASSUME NEW z, GoodZone(z), NEW a \in Alloc(z), NEW n \in Node,
         ClassOf[n.val] = ClassOf[z.node[a].val]
  PROVE  GoodZone([z EXCEPT !.node[a] = n])
<1> DEFINE y == [z EXCEPT !.node[a] = n]
<1>1. a \in Addr /\ z \in Zone
  BY DEF GoodZone, Alloc
<1>2. /\ y \in Zone /\ y.tree = z.tree /\ y.queue = z.queue
      /\ y.node[a] = n
      /\ \A b \in Addr \ {a} : y.node[b] = z.node[b]
  BY <1>1 DEF Zone
<1>3. Alloc(y) = Alloc(z)
  BY <1>1, <1>2, NilAssumption DEF Alloc
<1>4. Indexed(y)
  BY <1>2, <1>3 DEF Indexed, GoodZone
<1>5. \A b \in Alloc(y) : ClassOf[y.node[b].val] = ClassOf[z.node[b].val]
  BY <1>2, <1>3 DEF Alloc
<1>6. Packed(y)
  BY <1>3, <1>5 DEF Packed, GoodZone
<1> QED BY <1>2, <1>4, <1>6 DEF GoodZone

(* The tail of a queue that is not empty is an entry.                      *)
LEMMA TailAllocated ==
  ASSUME NEW z, GoodZone(z), z.queue # <<>>
  PROVE  Last(z.queue) \in Alloc(z)
<1>1. z.queue \in Seq(Addr) /\ ToSet(z.queue) = Alloc(z)
  BY DEF GoodZone, Zone, Indexed
<1>2. Len(z.queue) \in DOMAIN z.queue
  BY <1>1
<1> QED BY <1>1, <1>2 DEF Last, ToSet

(* Freeing a stale tail, or leaving it, keeps the zone consistent.         *)
LEMMA PopStaleGood ==
  ASSUME NEW z, GoodZone(z), NEW now
  PROVE  /\ GoodZone(PopStale(z, now))
         /\ Alloc(PopStale(z, now)) \subseteq Alloc(z)
BY TailAllocated, UnlinkGood DEF PopStale

(* ngx_shm_dict_expire, by choice and by force.                            *)
LEMMA ExpireTwoGood ==
  ASSUME NEW z, GoodZone(z), NEW now
  PROVE  GoodZone(ExpireTwo(z, now))
BY PopStaleGood DEF ExpireTwo

(* So does forcing the tail out.                                           *)
LEMMA ExpireForcedGood ==
  ASSUME NEW z, GoodZone(z), NEW now
  PROVE  GoodZone(ExpireForced(z, now))
BY TailAllocated, UnlinkGood, ExpireTwoGood DEF ExpireForced

(* A search ends at an entry, and leaves a sound zone when it misses.      *)
LEMMA LookupGood ==
  ASSUME NEW z, GoodZone(z), NEW k, NEW now
  PROVE  /\ \A a \in Found(z, k) : a \in Alloc(z) /\ z.node[a].key = k
         /\ Live(z, k, now) \subseteq Found(z, k)
         /\ \A m \in Missed(z, k, now) : GoodZone(m)
<1>1. \A a \in Found(z, k) : a \in Alloc(z) /\ z.node[a].key = k
  BY DEF Found, GoodZone, Indexed
<1>2. Live(z, k, now) \subseteq Found(z, k)
  BY DEF Live
<1>3. ASSUME NEW m \in Missed(z, k, now)
      PROVE  GoodZone(m)
  <2>1. m = z \/ \E a \in Found(z, k) : m = MoveToHead(z, a)
    BY DEF Missed
  <2> QED BY <1>1, <2>1, MoveToHeadGood
<1> QED BY <1>1, <1>2, <1>3

-----------------------------------------------------------------------------
(* The mutex is held between steps exactly by a worker inside a loop.      *)
LockHeldByJob == mutex = Nil <=> job = Nil

(* The inductive invariant.  Soundness of the zone alone is not inductive: *)
(* a sweep unlinks queue[at], which is an entry only because at has not    *)
(* left the queue, and a job runs with its worker as the mutex's holder.   *)
IInv == TypeOK /\ Consistent /\ SlabSound /\ LockHeldByJob /\ SweepInsideQueue

(* A deadline is a time, wherever the 32-bit product wraps.                *)
LEMMA DeadlineType ==
  ASSUME NEW ttl \in TTL, NEW now \in Nat
  PROVE  Deadline(ttl, now) \in Nat
<1>1. ttl * Msec \in Nat
  BY TimeAssumption
<1>2. (ttl * Msec) % Uint32 \in Nat
  <2> DEFINE p == ttl * Msec
  <2> HIDE DEF p
  <2>1. p \in Nat /\ Uint32 \in Nat \ {0} => p % Uint32 \in Nat
    OBVIOUS
  <2> QED BY <1>1, <2>1, TimeAssumption DEF p
<1> QED BY <1>2 DEF Deadline

(* What set stores is a node.                                              *)
LEMMA EntryType ==
  ASSUME NEW k \in Key, NEW v \in Value, NEW ttl \in TTL, NEW now \in Nat
  PROVE  Entry(k, v, ttl, now) \in Node /\ Entry(k, v, ttl, now).val = v
BY DeadlineType DEF Entry, Node

(* A call that returns at once keeps the invariant if its zone is sound.   *)
LEMMA ReturnKeepsInv ==
  ASSUME NEW z, NEW r, IInv, mutex = Nil, GoodZone(z), r \in Result, Return(z, r)
  PROVE  IInv'
BY NilAssumption
   DEF IInv, TypeOK, Consistent, SlabSound, LockHeldByJob, SweepInsideQueue,
       GoodZone, Return, SweepJob

(* insert's first allocation, from any consistent zone, keeps the          *)
(* invariant.                                                              *)
LEMMA InsertKeepsInv ==
  ASSUME NEW w \in Worker, NEW z, NEW k \in Key, NEW v \in Value,
         NEW ttl \in TTL, IInv, mutex = Nil, GoodZone(z),
         Insert(w, z, k, v, ttl)
  PROVE  IInv'
<1>1. CASE \E a \in Room(z, v) :
             Return(Link(z, a, Entry(k, v, ttl, clock[w])),
                    Call("set", k, v, "ok"))
  <2>1. PICK a \in Room(z, v) :
          Return(Link(z, a, Entry(k, v, ttl, clock[w])), Call("set", k, v, "ok"))
    BY <1>1
  <2>2. clock[w] \in Nat
    BY DEF IInv, TypeOK
  <2>3. GoodZone(Link(z, a, Entry(k, v, ttl, clock[w])))
    BY <2>2, EntryType, LinkGood
  <2>4. Call("set", k, v, "ok") \in Result
    BY DEF Call, Result
  <2> QED BY <2>1, <2>3, <2>4, ReturnKeepsInv
<1>2. CASE /\ zone' = z
           /\ mutex' = w
           /\ job' = [op |-> "insert", key |-> k, val |-> v, ttl |-> ttl,
                      tries |-> 0]
           /\ UNCHANGED <<clock, ret>>
  <2>1. job' \in InsertJob /\ job' \notin SweepJob
    BY <1>2, BoundAssumption DEF InsertJob, SweepJob
  <2> QED
    BY <1>2, <2>1, NilAssumption
    DEF IInv, TypeOK, Consistent, SlabSound, LockHeldByJob, SweepInsideQueue,
        GoodZone
<1> QED BY <1>1, <1>2 DEF Insert

(* A step that leaves the zone alone and ends the current job.             *)
LEMMA UnlockKeepsInv ==
  ASSUME NEW r, IInv, r \in Result, Unlock(r), UNCHANGED clock,
         GoodZone(zone')
  PROVE  IInv'
BY NilAssumption
   DEF IInv, TypeOK, Consistent, SlabSound, LockHeldByJob, SweepInsideQueue,
       GoodZone, Unlock, SweepJob

(* The zone starts empty and unlocked.                                     *)
LEMMA InitInv == Init => IInv
<1> SUFFICES ASSUME Init PROVE IInv
  OBVIOUS
<1>1. GoodZone(zone)
  BY EmptyZoneGood DEF Init
<1>2. TypeOK
  BY <1>1, TimeAssumption DEF Init, TypeOK, GoodZone, Result, Call
<1> QED BY <1>1, <1>2, NilAssumption
   DEF Init, IInv, GoodZone, Consistent, SlabSound, LockHeldByJob,
       SweepInsideQueue

(* A refused call changes nothing but its answer.                          *)
LEMMA RejectKeyKeepsInv ==
  ASSUME IInv, NEW w, NEW k \in Key, NEW c \in {"get", "set", "set_exptime"},
         RejectKey(w, c, k)
  PROVE  IInv'
<1>1. Call(c, k, Nil, "error") \in Result
  BY DEF Call, Result
<1> QED BY <1>1
   DEF RejectKey, IInv, TypeOK, Consistent, SlabSound, LockHeldByJob,
       SweepInsideQueue

(* get moves one entry to the head after freeing stale ones.               *)
LEMMA GetKeepsInv ==
  ASSUME IInv, NEW w \in Worker, NEW k \in Key, Get(w, k)
  PROVE  IInv'
<1> DEFINE now == clock[w]
           z   == ExpireTwo(zone, now)
<1>1. GoodZone(zone)
  BY DEF IInv, TypeOK, Consistent, SlabSound, GoodZone
<1>2. GoodZone(z)
  BY <1>1, ExpireTwoGood
<1> HIDE DEF z
<1>3. CASE RejectKey(w, "get", k)
  BY <1>3, RejectKeyKeepsInv
<1>4. ASSUME mutex = Nil, NEW a \in Live(z, k, now),
             Return(MoveToHead(z, a), Call("get", k, z.node[a].val, "ok"))
      PROVE  IInv'
  <2>1. a \in Alloc(z) /\ z.node[a] \in Node
    BY <1>2, LookupGood DEF GoodZone, Zone, Alloc
  <2>2. GoodZone(MoveToHead(z, a))
    BY <1>2, <2>1, MoveToHeadGood
  <2>3. Call("get", k, z.node[a].val, "ok") \in Result
    BY <2>1 DEF Call, Result, Node
  <2> QED BY <1>4, <2>2, <2>3, ReturnKeepsInv
<1>5. ASSUME mutex = Nil, NEW m \in Missed(z, k, now),
             Return(m, Call("get", k, Nil, "error"))
      PROVE  IInv'
  <2>1. GoodZone(m)
    BY <1>2, LookupGood
  <2>2. Call("get", k, Nil, "error") \in Result
    BY DEF Call, Result
  <2> QED BY <1>5, <2>1, <2>2, ReturnKeepsInv
<1> QED BY <1>3, <1>4, <1>5 DEF Get, z

(* delete unlinks the entry it has just moved.                             *)
LEMMA DeleteKeepsInv ==
  ASSUME IInv, NEW w \in Worker, NEW k \in Key, Delete(w, k)
  PROVE  IInv'
<1> DEFINE now == clock[w]
           z   == ExpireTwo(zone, now)
           ok  == Call("delete", k, Nil, "ok")
<1>1. GoodZone(zone)
  BY DEF IInv, TypeOK, Consistent, SlabSound, GoodZone
<1>2. GoodZone(z) /\ ok \in Result
  BY <1>1, ExpireTwoGood DEF Call, Result
<1> HIDE DEF z
<1>3. ASSUME mutex = Nil, NEW a \in Live(z, k, now),
             Return(Unlink(MoveToHead(z, a), a), ok)
      PROVE  IInv'
  <2>1. a \in Alloc(z)
    BY <1>2, LookupGood
  <2>2. GoodZone(MoveToHead(z, a)) /\ a \in Alloc(MoveToHead(z, a))
    BY <1>2, <2>1, MoveToHeadGood
  <2>3. GoodZone(Unlink(MoveToHead(z, a), a))
    BY <2>2, UnlinkGood
  <2> QED BY <1>2, <1>3, <2>3, ReturnKeepsInv
<1>4. ASSUME mutex = Nil, NEW m \in Missed(z, k, now), Return(m, ok)
      PROVE  IInv'
  BY <1>2, <1>4, LookupGood, ReturnKeepsInv
<1> QED BY <1>3, <1>4 DEF Delete, z

(* set_exptime changes one time and the order of use.                      *)
LEMMA SetExptimeKeepsInv ==
  ASSUME IInv, NEW w \in Worker, NEW k \in Key, NEW ttl \in TTL,
         SetExptime(w, k, ttl)
  PROVE  IInv'
<1> DEFINE now == clock[w]
           z   == ExpireTwo(zone, now)
<1>1. GoodZone(zone) /\ now \in Nat
  BY DEF IInv, TypeOK, Consistent, SlabSound, GoodZone
<1>2. GoodZone(z)
  BY <1>1, ExpireTwoGood
<1> HIDE DEF z
<1>3. CASE RejectKey(w, "set_exptime", k)
  BY <1>3, RejectKeyKeepsInv
<1>4. ASSUME mutex = Nil, NEW a \in Live(z, k, now),
             Return([MoveToHead(z, a) EXCEPT !.node[a].exp = Deadline(ttl, now)],
                    Call("set_exptime", k, Nil, "ok"))
      PROVE  IInv'
  <2> DEFINE m == MoveToHead(z, a)
             n == [m.node[a] EXCEPT !.exp = Deadline(ttl, now)]
  <2>1. a \in Alloc(z)
    BY <1>2, LookupGood
  <2>2. GoodZone(m) /\ a \in Alloc(m)
    BY <1>2, <2>1, MoveToHeadGood
  <2> HIDE DEF m
  <2>3. m.node[a] \in Node
    BY <2>2 DEF GoodZone, Zone, Alloc
  <2>4. n \in Node /\ n.val = m.node[a].val
    BY <1>1, <2>3, DeadlineType DEF Node
  <2>5. GoodZone([m EXCEPT !.node[a] = n])
    <3> HIDE DEF n
    <3> QED BY <2>2, <2>4, OverwriteGood
  <2>6. GoodZone([m EXCEPT !.node[a].exp = Deadline(ttl, now)])
    BY <2>5
  <2>7. Call("set_exptime", k, Nil, "ok") \in Result
    BY DEF Call, Result
  <2> QED BY <1>4, <2>6, <2>7, ReturnKeepsInv DEF m
<1>5. ASSUME mutex = Nil, NEW m \in Missed(z, k, now),
             Return(m, Call("set_exptime", k, Nil, "error"))
      PROVE  IInv'
  <2>1. Call("set_exptime", k, Nil, "error") \in Result
    BY DEF Call, Result
  <2> QED BY <1>2, <1>5, <2>1, LookupGood, ReturnKeepsInv
<1> QED BY <1>3, <1>4, <1>5 DEF SetExptime, z

(* set overwrites in place, replaces, or inserts.                          *)
LEMMA SetKeepsInv ==
  ASSUME IInv, NEW w \in Worker, NEW k \in Key, NEW v \in Value,
         NEW ttl \in TTL, Set(w, k, v, ttl)
  PROVE  IInv'
<1> DEFINE now == clock[w]
           z   == ExpireTwo(zone, now)
           n   == Entry(k, v, ttl, now)
<1>1. GoodZone(zone) /\ now \in Nat
  BY DEF IInv, TypeOK, Consistent, SlabSound, GoodZone
<1>2. GoodZone(z)
  BY <1>1, ExpireTwoGood
<1>3. n \in Node /\ n.val = v
  BY <1>1, EntryType
<1> HIDE DEF z, n
<1>4. CASE RejectKey(w, "set", k)
  BY <1>4, RejectKeyKeepsInv
<1>5. ASSUME mutex = Nil, NEW m \in Missed(z, k, now), Insert(w, m, k, v, ttl)
      PROVE  IInv'
  BY <1>2, <1>5, LookupGood, InsertKeepsInv
<1>6. ASSUME mutex = Nil, NEW a \in Live(z, k, now)
      PROVE  /\ GoodZone(MoveToHead(z, a))
             /\ MoveToHead(z, a).node = z.node
             /\ a \in Alloc(MoveToHead(z, a))
             /\ z.node[a].val \in Value
  <2>1. a \in Alloc(z) /\ z.node[a] \in Node
    BY <1>2, LookupGood DEF GoodZone, Zone, Alloc
  <2> QED BY <1>2, <2>1, MoveToHeadGood DEF Node
<1>7. ASSUME mutex = Nil, NEW a \in Live(z, k, now),
             LenOf[v] = LenOf[z.node[a].val],
             Return([MoveToHead(z, a) EXCEPT !.node[a] = n],
                    Call("set", k, v, "ok"))
      PROVE  IInv'
  <2> DEFINE m == MoveToHead(z, a)
  <2>1. GoodZone(m) /\ a \in Alloc(m) /\ m.node = z.node
    BY <1>6, <1>7
  <2>2. ClassOf[n.val] = ClassOf[m.node[a].val]
    BY <1>3, <1>6, <1>7, <2>1, SlabAssumption
  <2> HIDE DEF m
  <2>3. GoodZone([m EXCEPT !.node[a] = n])
    BY <1>3, <2>1, <2>2, OverwriteGood
  <2>4. Call("set", k, v, "ok") \in Result
    BY DEF Call, Result
  <2> QED BY <1>7, <2>3, <2>4, ReturnKeepsInv DEF m
<1>8. ASSUME mutex = Nil, NEW a \in Live(z, k, now),
             Insert(w, Unlink(MoveToHead(z, a), a), k, v, ttl)
      PROVE  IInv'
  <2>1. GoodZone(Unlink(MoveToHead(z, a), a))
    BY <1>6, <1>8, UnlinkGood
  <2> QED BY <1>8, <2>1, InsertKeepsInv
<1> QED BY <1>4, <1>5, <1>7, <1>8 DEF Set, FitsInPlace, z, n

(* A turn of the eviction loop frees the tail and may link the new entry.  *)
LEMMA EvictRoundKeepsInv ==
  ASSUME IInv, NEW w \in Worker, EvictRound(w)
  PROVE  IInv'
<1> DEFINE z == ExpireForced(zone, clock[w])
<1>1. /\ GoodZone(zone) /\ clock[w] \in Nat
      /\ job \in InsertJob /\ job.tries < MaxExpireCount /\ mutex = w
      /\ UNCHANGED clock
  BY DEF IInv, TypeOK, Consistent, SlabSound, GoodZone, EvictRound, TurnsLeft
<1>2. GoodZone(z)
  BY <1>1, ExpireForcedGood
<1> HIDE DEF z
<1>3. ASSUME NEW a \in Room(z, job.val),
             zone' = Link(z, a, Entry(job.key, job.val, job.ttl, clock[w])),
             Unlock(Call("set", job.key, job.val, "ok"))
      PROVE  IInv'
  <2>1. job.key \in Key /\ job.val \in Value /\ job.ttl \in TTL
    BY <1>1 DEF InsertJob
  <2>2. GoodZone(zone')
    BY <1>1, <1>2, <1>3, <2>1, EntryType, LinkGood
  <2>3. Call("set", job.key, job.val, "ok") \in Result
    BY <2>1 DEF Call, Result
  <2> QED BY <1>1, <1>3, <2>2, <2>3, UnlockKeepsInv
<1>4. ASSUME zone' = z, job' = [job EXCEPT !.tries = @ + 1],
             UNCHANGED <<mutex, ret>>
      PROVE  IInv'
  <2>1. job' \in InsertJob /\ job' \notin SweepJob
    BY <1>1, <1>4, BoundAssumption DEF InsertJob, SweepJob
  <2> QED
    BY <1>1, <1>2, <1>4, <2>1, NilAssumption
    DEF IInv, TypeOK, Consistent, SlabSound, LockHeldByJob, SweepInsideQueue,
        GoodZone
<1> QED BY <1>3, <1>4 DEF EvictRound, z

(* Giving up unlocks and leaves the zone alone.                            *)
LEMMA EvictGiveUpKeepsInv ==
  ASSUME IInv, NEW w \in Worker, EvictGiveUp(w)
  PROVE  IInv'
<1>1. /\ job \in InsertJob /\ UNCHANGED <<zone, clock>>
      /\ Unlock(Call("set", job.key, job.val, "error"))
  BY DEF EvictGiveUp
<1>2. GoodZone(zone')
  BY <1>1 DEF IInv, TypeOK, Consistent, SlabSound, GoodZone
<1>3. Call("set", job.key, job.val, "error") \in Result
  BY <1>1 DEF InsertJob, Call, Result
<1> QED BY <1>1, <1>2, <1>3, UnlockKeepsInv

(* Writing the expiry 1 into every queued entry leaves a sound zone.       *)
LEMMA AgedGood ==
  ASSUME NEW z, GoodZone(z)
  PROVE  GoodZone([z EXCEPT !.node =
            [a \in Addr |-> IF a \in ToSet(z.queue)
                            THEN [z.node[a] EXCEPT !.exp = 1]
                            ELSE z.node[a]]])
<1> DEFINE aged == [a \in Addr |-> IF a \in ToSet(z.queue)
                                   THEN [z.node[a] EXCEPT !.exp = 1]
                                   ELSE z.node[a]]
           y == [z EXCEPT !.node = aged]
<1>1. z \in Zone /\ ToSet(z.queue) = Alloc(z)
  BY DEF GoodZone, Indexed
<1>2. ASSUME NEW a \in Alloc(z)
      PROVE  aged[a] \in Node /\ aged[a].val = z.node[a].val
  <2>1. z.node[a] \in Node /\ a \in Addr
    BY <1>1 DEF Alloc, Zone
  <2>2. aged[a] = [z.node[a] EXCEPT !.exp = 1]
    BY <1>1, <2>1
  <2> QED BY <2>1, <2>2 DEF Node
<1>3. \A a \in Addr \ Alloc(z) : aged[a] = Nil
  BY <1>1 DEF Alloc
<1>4. aged \in [Addr -> Node \cup {Nil}]
  <2>1. \A a \in Addr : aged[a] \in Node \cup {Nil}
    BY <1>2, <1>3
  <2> QED BY <2>1
<1> HIDE DEF aged
<1>5. y \in Zone /\ y.node = aged /\ y.tree = z.tree /\ y.queue = z.queue
  BY <1>1, <1>4 DEF Zone
<1>6. Alloc(y) = Alloc(z)
  BY <1>2, <1>3, <1>5, NilAssumption DEF Alloc
<1>7. Indexed(y)
  BY <1>5, <1>6 DEF Indexed, GoodZone
<1>8. Packed(y)
  BY <1>2, <1>5, <1>6 DEF Packed, GoodZone
<1>9. GoodZone(y)
  BY <1>5, <1>7, <1>8 DEF GoodZone
<1> QED BY <1>9 DEF aged

(* flush_all ages every entry and forces one out.                          *)
LEMMA FlushAllKeepsInv ==
  ASSUME IInv, NEW w \in Worker, FlushAll(w)
  PROVE  IInv'
<1> DEFINE aged == [a \in Addr |-> IF a \in ToSet(zone.queue)
                                   THEN [zone.node[a] EXCEPT !.exp = 1]
                                   ELSE zone.node[a]]
           y == [zone EXCEPT !.node = aged]
<1>1. GoodZone(zone)
  BY DEF IInv, TypeOK, Consistent, SlabSound, GoodZone
<1>2. GoodZone(y)
  BY <1>1, AgedGood
<1> HIDE DEF y
<1>3. GoodZone(ExpireForced(y, clock[w]))
  BY <1>2, ExpireForcedGood
<1>4. Call("flush_all", Nil, Nil, "ok") \in Result
  BY DEF Call, Result
<1>5. /\ mutex = Nil
      /\ Return(ExpireForced(y, clock[w]), Call("flush_all", Nil, Nil, "ok"))
  BY DEF FlushAll, y
<1> QED BY <1>3, <1>4, <1>5, ReturnKeepsInv

(* flush_expired enters its sweep at the tail, with the mutex held.        *)
LEMMA FlushExpiredKeepsInv ==
  ASSUME IInv, NEW w \in Worker, NEW limit \in SweepLimit,
         FlushExpired(w, limit)
  PROVE  IInv'
<1>1. GoodZone(zone)
  BY DEF IInv, TypeOK, Consistent, SlabSound, GoodZone
<1>2. ASSUME Return(zone, Call("flush_expired", Nil, Nil, "ok"))
      PROVE  IInv'
  <2>1. Call("flush_expired", Nil, Nil, "ok") \in Result
    BY DEF Call, Result
  <2> QED BY <1>1, <1>2, <2>1, ReturnKeepsInv DEF FlushExpired
<1>3. ASSUME mutex' = w,
             job' = [op |-> "sweep", at |-> Len(zone.queue), freed |-> 0,
                     limit |-> limit],
             UNCHANGED <<zone, clock, ret>>
      PROVE  IInv'
  <2>1. Len(zone.queue) \in Nat
    BY <1>1 DEF GoodZone, Zone
  <2>2. job' \in SweepJob /\ job'.at = Len(zone.queue)
    BY <1>3, <2>1 DEF SweepJob
  <2>3. job' # Nil /\ mutex' # Nil
    BY <1>3, <2>2, NilAssumption
  <2> QED
    BY <1>1, <1>3, <2>1, <2>2, <2>3
    DEF IInv, TypeOK, Consistent, SlabSound, LockHeldByJob, SweepInsideQueue,
        GoodZone
<1> QED BY <1>2, <1>3 DEF FlushExpired

(* A turn of the sweep frees at most the entry it stands on, behind which  *)
(* it never looks again.                                                   *)
LEMMA SweepStepKeepsInv ==
  ASSUME IInv, NEW w \in Worker, SweepStep(w)
  PROVE  IInv'
<1> DEFINE a == zone.queue[job.at]
<1>1. /\ GoodZone(zone) /\ mutex = w /\ job \in SweepJob
      /\ UNCHANGED <<clock, mutex, ret>>
  BY DEF IInv, TypeOK, Consistent, SlabSound, GoodZone, SweepStep
<1>2. /\ job.at \in 1 .. Len(zone.queue) /\ job.freed \in Nat
      /\ zone.queue \in Seq(Addr)
  <2>1. job.at \in Nat /\ job.freed \in Nat /\ job.at # 0
    BY <1>1 DEF SweepJob, SweepStep, SweepEnds
  <2>2. zone.queue \in Seq(Addr) /\ job.at <= Len(zone.queue)
    BY <1>1 DEF GoodZone, Zone, IInv, SweepInsideQueue
  <2> QED BY <2>1, <2>2
<1>3. a \in Alloc(zone)
  <2>1. ToSet(zone.queue) = Alloc(zone)
    BY <1>1 DEF GoodZone, Indexed
  <2> QED BY <1>2, <2>1 DEF ToSet
<1>4. ASSUME NEW n \in {0, 1}, job' = Advance(n)
      PROVE  job' \in SweepJob /\ job'.at = job.at - 1
  <2>1. job.at - 1 \in Nat /\ job.freed + n \in Nat
    BY <1>2
  <2>2. /\ job'.op = "sweep" /\ job'.limit \in SweepLimit
        /\ job'.at = job.at - 1 /\ job'.freed = job.freed + n
        /\ job' = [op |-> job'.op, at |-> job'.at, freed |-> job'.freed,
                  limit |-> job'.limit]
    BY <1>1, <1>4 DEF Advance, SweepJob
  <2> QED BY <2>1, <2>2 DEF SweepJob
<1>5. ASSUME GoodZone(zone'), job' \in SweepJob, job'.at <= Len(zone'.queue)
      PROVE  IInv'
  <2>1. TypeOK'
    BY <1>1, <1>5 DEF IInv, TypeOK, GoodZone
  <2>2. Consistent' /\ SlabSound'
    BY <1>5 DEF Consistent, SlabSound, GoodZone
  <2>3. LockHeldByJob'
    BY <1>1, <1>5, NilAssumption DEF IInv, LockHeldByJob
  <2> QED BY <1>5, <2>1, <2>2, <2>3 DEF IInv, SweepInsideQueue
<1>6. CASE zone' = Unlink(zone, a) /\ job' = Advance(1)
  <2>1. GoodZone(zone') /\ Len(zone'.queue) = Len(zone.queue) - 1
    BY <1>1, <1>3, <1>6, UnlinkGood
  <2>2. job' \in SweepJob /\ job'.at = job.at - 1
    BY <1>4, <1>6
  <2>3. job'.at <= Len(zone'.queue)
    BY <1>2, <2>1, <2>2
  <2> QED BY <1>5, <2>1, <2>2, <2>3
<1>7. CASE zone' = zone /\ job' = Advance(0)
  <2>1. job' \in SweepJob /\ job'.at = job.at - 1
    BY <1>4, <1>7
  <2>2. GoodZone(zone') /\ job'.at <= Len(zone'.queue)
    BY <1>1, <1>2, <1>7, <2>1
  <2> QED BY <1>5, <2>1, <2>2
<1> QED BY <1>6, <1>7 DEF SweepStep

(* The end of the sweep unlocks.                                           *)
LEMMA SweepDoneKeepsInv ==
  ASSUME IInv, NEW w \in Worker, SweepDone(w)
  PROVE  IInv'
<1>1. GoodZone(zone')
  BY DEF IInv, TypeOK, Consistent, SlabSound, GoodZone, SweepDone
<1>2. Call("flush_expired", Nil, Nil, "ok") \in Result
  BY DEF Call, Result
<1> QED BY <1>1, <1>2, UnlockKeepsInv DEF SweepDone

(* foreach reads.                                                          *)
LEMMA ForeachKeepsInv ==
  ASSUME IInv, NEW w \in Worker, Foreach(w)
  PROVE  IInv'
<1>1. ret' \in Result
  BY DEF Foreach, Call, Result
<1> QED BY <1>1
   DEF Foreach, IInv, TypeOK, Consistent, SlabSound, LockHeldByJob,
       SweepInsideQueue

(* The passing of time touches only the cached clock.                      *)
LEMMA TickKeepsInv ==
  ASSUME IInv, NEW w \in Worker, Tick(w)
  PROVE  IInv'
<1>1. clock' \in [Worker -> Nat]
  BY DEF Tick, IInv, TypeOK
<1> QED BY <1>1
   DEF Tick, IInv, TypeOK, Consistent, SlabSound, LockHeldByJob,
       SweepInsideQueue

(* A worker that dies between two turns leaves a consistent zone and, once *)
(* forced, a free mutex.                                                   *)
LEMMA CrashKeepsInv ==
  ASSUME IInv, NEW w \in Worker, Crash(w)
  PROVE  IInv'
BY NilAssumption
   DEF Crash, IInv, TypeOK, Consistent, SlabSound, LockHeldByJob,
       SweepInsideQueue

(* No step breaks the invariant.                                           *)
LEMMA StepInv == IInv /\ [Next]_vars => IInv'
<1> SUFFICES ASSUME IInv, [Next]_vars PROVE IInv'
  OBVIOUS
<1>1. CASE UNCHANGED vars
  BY <1>1 DEF vars, IInv, TypeOK, Consistent, SlabSound, LockHeldByJob,
              SweepInsideQueue
<1>2. CASE Next
  <2> SUFFICES ASSUME NEW w \in Worker,
        \/ \E k \in Key :
             \/ Get(w, k)
             \/ Delete(w, k)
             \/ \E ttl \in TTL : SetExptime(w, k, ttl)
             \/ \E v \in Value, ttl \in TTL : Set(w, k, v, ttl)
        \/ EvictRound(w)
        \/ EvictGiveUp(w)
        \/ FlushAll(w)
        \/ \E limit \in SweepLimit : FlushExpired(w, limit)
        \/ SweepStep(w)
        \/ SweepDone(w)
        \/ Foreach(w)
        \/ Tick(w)
        \/ Crash(w)
      PROVE IInv'
    BY <1>2 DEF Next
  <2>1. ASSUME NEW k \in Key, Get(w, k) PROVE IInv'
    BY <2>1, GetKeepsInv
  <2>2. ASSUME NEW k \in Key, Delete(w, k) PROVE IInv'
    BY <2>2, DeleteKeepsInv
  <2>3. ASSUME NEW k \in Key, NEW ttl \in TTL, SetExptime(w, k, ttl) PROVE IInv'
    BY <2>3, SetExptimeKeepsInv
  <2>4. ASSUME NEW k \in Key, NEW v \in Value, NEW ttl \in TTL,
               Set(w, k, v, ttl)
        PROVE  IInv'
    BY <2>4, SetKeepsInv
  <2>5. ASSUME NEW limit \in SweepLimit, FlushExpired(w, limit) PROVE IInv'
    BY <2>5, FlushExpiredKeepsInv
  <2>6. CASE EvictRound(w)
    BY <2>6, EvictRoundKeepsInv
  <2>7. CASE EvictGiveUp(w)
    BY <2>7, EvictGiveUpKeepsInv
  <2>8. CASE FlushAll(w)
    BY <2>8, FlushAllKeepsInv
  <2>9. CASE SweepStep(w)
    BY <2>9, SweepStepKeepsInv
  <2>10. CASE SweepDone(w)
    BY <2>10, SweepDoneKeepsInv
  <2>11. CASE Foreach(w)
    BY <2>11, ForeachKeepsInv
  <2>12. CASE Tick(w)
    BY <2>12, TickKeepsInv
  <2>13. CASE Crash(w)
    BY <2>13, CrashKeepsInv
  <2> QED
    BY <2>1, <2>2, <2>3, <2>4, <2>5, <2>6, <2>7, <2>8, <2>9, <2>10, <2>11,
       <2>12, <2>13
<1> QED BY <1>1, <1>2

(* The inductive invariant holds in every reachable state.                 *)
THEOREM Invariance == Spec => []IInv
BY InitInv, StepInv, PTL DEF Spec

(* Every variable keeps its type, whatever the calls, clocks and slabs.    *)
THEOREM TypeCorrect == Spec => []TypeOK
<1>1. IInv => TypeOK
  BY DEF IInv
<1> QED BY <1>1, Invariance, PTL

(* The tree and the queue always hold exactly the allocated entries, once  *)
(* each: no sequence of calls, evictions, sweeps and worker deaths between *)
(* loop turns leaks an entry or leaves one linked after it was freed.      *)
THEOREM ZoneConsistent == Spec => []Consistent
<1>1. IInv => Consistent
  BY DEF IInv
<1> QED BY <1>1, Invariance, PTL

(* Chunks and pages are never mixed up: an in-place update always fits.    *)
THEOREM SlabAlwaysSound == Spec => []SlabSound
<1>1. IInv => SlabSound
  BY DEF IInv
<1> QED BY <1>1, Invariance, PTL

(* flush_expired never walks off the queue it is unlinking from.           *)
THEOREM SweepStaysInside == Spec => []SweepInsideQueue
<1>1. IInv => SweepInsideQueue
  BY DEF IInv
<1> QED BY <1>1, Invariance, PTL
=============================================================================
