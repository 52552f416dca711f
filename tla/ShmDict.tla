------------------------------ MODULE ShmDict ------------------------------
(***************************************************************************)
(* The shared-memory dictionary (module_shm_dict/ngx_shm_dict.c): one zone *)
(* of entries indexed by a red-black tree, ordered by use in an LRU queue  *)
(* and stored in slab chunks, shared by the worker processes under the     *)
(* slab pool's mutex.                                                      *)
(*                                                                         *)
(* A call runs between lock and unlock and is one step, save where its     *)
(* critical section loops: insert's eviction loop and flush_expired's      *)
(* sweep are steps of their own, with the mutex held between them.         *)
(*                                                                         *)
(* Abstractions.  A zone holds node (what each chunk contains), tree (the  *)
(* chunks linked into the red-black tree; which of two equal keys a search *)
(* meets first depends on its rotations and is left open) and queue (head  *)
(* first).  The slab allocator is external: pages are split into chunks of *)
(* one size class while any of their chunks is in use.                     *)
(***************************************************************************)
EXTENDS Integers, FiniteSets, Sequences, SequencesExt

CONSTANTS
  Worker,          \* the nginx worker processes
  Key,             \* keys callers may pass
  LegalKey,        \* the keys of length 1..65535
  Value,           \* values (content and length)
  LenOf,           \* the length of each value
  ClassOf,         \* the slab size class of an entry with that value
  Addr,            \* chunk addresses of the zone
  PageOf,          \* the slab page of each address
  Chunk,           \* the chunk addresses of each size class
  TTL,             \* the exptime arguments, in seconds; 0 = never
  Msec,            \* milliseconds per second (1000 in the code)
  Uint32,          \* modulus of the product exptime * 1000 (2^32 in the code)
  BaseTime,        \* every worker's cached time, in ms, when the zone is made
  MaxTime,         \* bound on the cached time (model checking only)
  SweepLimit,      \* the attempts arguments of flush_expired; 0 = no limit
  MaxExpireCount,  \* NGX_SHM_DICT_MAX_EXPIRE_COUNT (30 in the code)
  Calls,           \* the API calls made besides get, set and delete
  Nil              \* no entry, no key, no value, no job, no holder

VARIABLES
  zone,            \* the shared zone: [node, tree, queue]
  clock,           \* clock[w]: ngx_timeofday() as cached by worker w
  mutex,           \* the worker inside a looping critical section, or Nil
  job,             \* the loop that worker is in, or Nil
  ret              \* the last call that returned, and its outcome

vars == <<zone, clock, mutex, job, ret>>

Node == [key : Key, val : Value, exp : Nat]

InsertJob == [op : {"insert"}, key : Key, val : Value, ttl : TTL,
              tries : 0 .. MaxExpireCount]
SweepJob  == [op : {"sweep"}, at : Nat, freed : Nat, limit : SweepLimit]

Result == [call : {"init", "get", "set", "delete", "set_exptime", "flush_all",
                   "flush_expired", "foreach"},
           key : Key \cup {Nil}, val : Value \cup {Nil}, rc : {"ok", "error"}]

Call(c, k, v, rc) == [call |-> c, key |-> k, val |-> v, rc |-> rc]

(* The key length tests precede the lock.  Equal lengths share a size      *)
(* class.  flush_all writes the expiry 1, which must lie in the past.      *)
ASSUME KeyAssumption   == LegalKey \subseteq Key
ASSUME SlabAssumption  ==
  /\ PageOf \in [Addr -> {PageOf[a] : a \in Addr}]
  /\ LenOf \in [Value -> Nat]
  /\ ClassOf \in [Value -> DOMAIN Chunk]
  /\ Chunk \in [DOMAIN Chunk -> SUBSET Addr]
  /\ \A v, u \in Value : LenOf[v] = LenOf[u] => ClassOf[v] = ClassOf[u]
ASSUME TimeAssumption  ==
  /\ TTL \subseteq Nat
  /\ Msec \in Nat \ {0}
  /\ Uint32 \in Nat \ {0}
  /\ BaseTime \in Nat \ {0, 1}
  /\ MaxTime \in Nat
ASSUME BoundAssumption == MaxExpireCount \in Nat /\ SweepLimit \subseteq Nat
ASSUME NilAssumption   ==
  /\ Nil \notin Worker
  /\ Nil \notin Key
  /\ Nil \notin Value
  /\ Nil \notin Node
  /\ Nil \notin InsertJob \cup SweepJob

-----------------------------------------------------------------------------
(* Operations on a zone, as the code performs them with the mutex held.    *)

Alloc(z) == {a \in Addr : z.node[a] # Nil}

QueueRemove(q, a) == RemoveAt(q, CHOOSE i \in DOMAIN q : q[i] = a)

(* Mutant: the entry is freed but stays in the queue.                      *)
UnlinkTreeOnly(z, a) == [node  |-> [z.node EXCEPT ![a] = Nil],
                         tree  |-> z.tree \ {a},
                         queue |-> z.queue]

(* ngx_queue_remove, ngx_rbtree_delete and ngx_slab_free_locked of one     *)
(* entry, always together.                                                 *)
Unlink(z, a) == [node  |-> [z.node EXCEPT ![a] = Nil],
                 tree  |-> z.tree \ {a},
                 queue |-> QueueRemove(z.queue, a)]

(* Entry n stored in the free chunk a and linked in front of the queue.    *)
Link(z, a, n) == [node  |-> [z.node EXCEPT ![a] = n],
                  tree  |-> z.tree \cup {a},
                  queue |-> <<a>> \o z.queue]

(* Mutant: ngx_queue_insert_tail in place of ngx_queue_insert_head.        *)
MoveToTail(z, a) == [z EXCEPT !.queue = Append(QueueRemove(z.queue, a), a)]

MoveToHead(z, a) == [z EXCEPT !.queue = <<a>> \o QueueRemove(z.queue, a)]

(* Mutant: "never" (0) is taken for a time long past.                      *)
StaleIfNever(n, now) == n.exp <= now

(* What ngx_shm_dict_expire and flush_expired take for expired ...         *)
Stale(n, now) == n.exp # 0 /\ n.exp <= now

(* Mutant: the same slip in the lookup.                                    *)
DeadIfNever(n, now) == n.exp < now

(* ... and what ngx_shm_dict_lookup answers NGX_DONE for.                  *)
Dead(n, now) == n.exp # 0 /\ n.exp < now

(* Mutant: the tail is freed without a look at its time.                   *)
PopAny(z, now) == IF z.queue # <<>> THEN Unlink(z, Last(z.queue)) ELSE z

PopStale(z, now) ==
  IF z.queue # <<>> /\ Stale(z.node[Last(z.queue)], now)
  THEN Unlink(z, Last(z.queue))
  ELSE z

(* ngx_shm_dict_expire(ctx, 1): up to two stale entries from the tail.     *)
ExpireTwo(z, now) == PopStale(PopStale(z, now), now)

(* Mutant: the newest entry is forced out.                                 *)
ExpireHead(z, now) ==
  IF z.queue = <<>> THEN z ELSE ExpireTwo(Unlink(z, Head(z.queue)), now)

(* ngx_shm_dict_expire(ctx, 0): the tail whatever it is, and up to two     *)
(* stale entries; nothing (freed = 0) when the queue is empty.             *)
ExpireForced(z, now) ==
  IF z.queue = <<>> THEN z ELSE ExpireTwo(Unlink(z, Last(z.queue)), now)

(* The entries a search of the tree for key k may end at.                  *)
Found(z, k) == {a \in z.tree : z.node[a].key = k}

Live(z, k, now) == {a \in Found(z, k) : ~ Dead(z.node[a], now)}

(* NGX_DECLINED, or NGX_DONE for an entry past its time: the zone as the   *)
(* lookup leaves it.  A search that ends at a dead entry moves it too.     *)
Missed(z, k, now) ==
  (IF Found(z, k) = {} THEN {z} ELSE {})
    \cup {MoveToHead(z, a) : a \in Found(z, k) \ Live(z, k, now)}

(* ngx_slab_alloc_locked: the free chunks of v's class, on pages that are  *)
(* empty or already split for that class.                                  *)
Room(z, v) ==
  {a \in Chunk[ClassOf[v]] :
     /\ z.node[a] = Nil
     /\ \A b \in Alloc(z) :
          PageOf[b] = PageOf[a] => ClassOf[z.node[b].val] = ClassOf[v]}

(* Mutant: any new value is written over the old one.                      *)
AlwaysFitsInPlace(v, u) == TRUE

(* set overwrites a value by one of the same length.                       *)
FitsInPlace(v, u) == LenOf[v] = LenOf[u]

(* exptime * 1000 is a 32-bit product, added to the 64-bit time.           *)
Deadline(ttl, now) == IF ttl > 0 THEN now + ((ttl * Msec) % Uint32) ELSE 0

Entry(k, v, ttl, now) == [key |-> k, val |-> v, exp |-> Deadline(ttl, now)]

-----------------------------------------------------------------------------
Init ==
  /\ zone  = [node |-> [a \in Addr |-> Nil], tree |-> {}, queue |-> <<>>]
  /\ clock = [w \in Worker |-> BaseTime]
  /\ mutex = Nil
  /\ job   = Nil
  /\ ret   = Call("init", Nil, Nil, "ok")

(* A call that took the lock, left the zone as z and let the lock go.      *)
Return(z, r) ==
  /\ zone' = z
  /\ ret' = r
  /\ UNCHANGED <<clock, mutex, job>>

(* A key of length 0 or above 65535 is refused before the lock is taken.   *)
RejectKey(w, c, k) ==
  /\ mutex # w
  /\ k \notin LegalKey
  /\ ret' = Call(c, k, Nil, "error")
  /\ UNCHANGED <<zone, clock, mutex, job>>

Get(w, k) ==
  \/ RejectKey(w, "get", k)
  \/ /\ mutex = Nil
     /\ k \in LegalKey
     /\ LET now == clock[w]
            z   == ExpireTwo(zone, now)
        IN \/ \E a \in Live(z, k, now) :
                Return(MoveToHead(z, a), Call("get", k, z.node[a].val, "ok"))
           \/ \E m \in Missed(z, k, now) :
                Return(m, Call("get", k, Nil, "error"))

(* delete does not test the key's length, and answers SHM_OK on a miss.    *)
Delete(w, k) ==
  /\ mutex = Nil
  /\ LET now == clock[w]
         z   == ExpireTwo(zone, now)
         ok  == Call("delete", k, Nil, "ok")
     IN \/ \E a \in Live(z, k, now) : Return(Unlink(MoveToHead(z, a), a), ok)
        \/ \E m \in Missed(z, k, now) : Return(m, ok)

SetExptime(w, k, ttl) ==
  /\ "set_exptime" \in Calls
  /\ \/ RejectKey(w, "set_exptime", k)
     \/ /\ mutex = Nil
        /\ k \in LegalKey
        /\ LET now == clock[w]
               z   == ExpireTwo(zone, now)
           IN \/ \E a \in Live(z, k, now) :
                   Return([MoveToHead(z, a) EXCEPT
                             !.node[a].exp = Deadline(ttl, now)],
                          Call("set_exptime", k, Nil, "ok"))
              \/ \E m \in Missed(z, k, now) :
                   Return(m, Call("set_exptime", k, Nil, "error"))

(* ngx_shm_dict_insert up to its first allocation: the entry goes in, or   *)
(* the worker enters the eviction loop with the mutex held.                *)
Insert(w, z, k, v, ttl) ==
  \/ \E a \in Room(z, v) :
       Return(Link(z, a, Entry(k, v, ttl, clock[w])), Call("set", k, v, "ok"))
  \/ /\ Room(z, v) = {}
     /\ zone' = z
     /\ mutex' = w
     /\ job' = [op |-> "insert", key |-> k, val |-> v, ttl |-> ttl, tries |-> 0]
     /\ UNCHANGED <<clock, ret>>

(* A live entry is overwritten when the value lengths agree, replaced when *)
(* they do not; a miss and an entry past its time are followed by insert.  *)
Set(w, k, v, ttl) ==
  \/ RejectKey(w, "set", k)
  \/ /\ mutex = Nil
     /\ k \in LegalKey
     /\ LET now == clock[w]
            z   == ExpireTwo(zone, now)
        IN \/ \E m \in Missed(z, k, now) : Insert(w, m, k, v, ttl)
           \/ \E a \in Live(z, k, now) :
                \/ /\ FitsInPlace(v, z.node[a].val)
                   /\ Return([MoveToHead(z, a) EXCEPT
                                !.node[a] = Entry(k, v, ttl, now)],
                             Call("set", k, v, "ok"))
                \/ /\ ~ FitsInPlace(v, z.node[a].val)
                   /\ Insert(w, Unlink(MoveToHead(z, a), a), k, v, ttl)

(* The worker leaves its loop: the mutex is free again.                    *)
Unlock(r) ==
  /\ mutex' = Nil
  /\ job' = Nil
  /\ ret' = r

(* Mutant: one turn too many.                                              *)
TurnsLeftInclusive == job.tries <= MaxExpireCount

TurnsLeft == job.tries < MaxExpireCount

OutOfMemory == ~ TurnsLeft \/ zone.queue = <<>>

(* One turn of insert's loop: evict the tail, then try to allocate again.  *)
EvictRound(w) ==
  /\ mutex = w
  /\ job \in InsertJob
  /\ TurnsLeft
  /\ zone.queue # <<>>
  /\ LET z == ExpireForced(zone, clock[w])
     IN \/ \E a \in Room(z, job.val) :
             /\ zone' = Link(z, a, Entry(job.key, job.val, job.ttl, clock[w]))
             /\ Unlock(Call("set", job.key, job.val, "ok"))
        \/ /\ Room(z, job.val) = {}
           /\ zone' = z
           /\ job' = [job EXCEPT !.tries = @ + 1]
           /\ UNCHANGED <<mutex, ret>>
  /\ UNCHANGED clock

(* The loop ran out of turns, or of entries to evict.                      *)
EvictGiveUp(w) ==
  /\ mutex = w
  /\ job \in InsertJob
  /\ OutOfMemory
  /\ Unlock(Call("set", job.key, job.val, "error"))
  /\ UNCHANGED <<zone, clock>>

FlushAll(w) ==
  /\ "flush_all" \in Calls
  /\ mutex = Nil
  /\ LET aged == [a \in Addr |-> IF a \in ToSet(zone.queue)
                                 THEN [zone.node[a] EXCEPT !.exp = 1]
                                 ELSE zone.node[a]]
     IN Return(ExpireForced([zone EXCEPT !.node = aged], clock[w]),
               Call("flush_all", Nil, Nil, "ok"))

FlushExpired(w, limit) ==
  /\ "flush_expired" \in Calls
  /\ mutex = Nil
  /\ \/ zone.queue = <<>> /\ Return(zone, Call("flush_expired", Nil, Nil, "ok"))
     \/ /\ zone.queue # <<>>
        /\ mutex' = w
        /\ job' = [op |-> "sweep", at |-> Len(zone.queue), freed |-> 0,
                   limit |-> limit]
        /\ UNCHANGED <<zone, clock, ret>>

(* Mutant: the walk stands still after freeing an entry.                   *)
AdvanceUnlessFreed(n) ==
  [job EXCEPT !.at = IF n = 0 THEN @ - 1 ELSE @, !.freed = @ + n]

(* Mutant: q = prev only when an entry was freed.                          *)
AdvanceIfFreed(n) == [job EXCEPT !.at = @ - n, !.freed = @ + n]

(* To the previous element (q = prev), n entries freed.                    *)
Advance(n) == [job EXCEPT !.at = @ - 1, !.freed = @ + n]

SweepEnds == job.at = 0 \/ (job.limit # 0 /\ job.freed = job.limit)

(* One turn of flush_expired's walk from the tail towards the head.        *)
SweepStep(w) ==
  /\ mutex = w
  /\ job \in SweepJob
  /\ ~ SweepEnds
  /\ LET a == zone.queue[job.at]
     IN \/ /\ Stale(zone.node[a], clock[w])
           /\ zone' = Unlink(zone, a)
           /\ job' = Advance(1)
        \/ /\ ~ Stale(zone.node[a], clock[w])
           /\ job' = Advance(0)
           /\ UNCHANGED zone
  /\ UNCHANGED <<clock, mutex, ret>>

SweepDone(w) ==
  /\ mutex = w
  /\ job \in SweepJob
  /\ SweepEnds
  /\ Unlock(Call("flush_expired", Nil, Nil, "ok"))
  /\ UNCHANGED <<zone, clock>>

(* foreach takes the lock only if it is free; its callback reads entries.  *)
Foreach(w) ==
  /\ "foreach" \in Calls
  /\ mutex # w
  /\ ret' = Call("foreach", Nil, Nil, IF mutex = Nil THEN "ok" ELSE "error")
  /\ UNCHANGED <<zone, clock, mutex, job>>

(* External.  A worker refreshes its cached time between events, never     *)
(* inside a call, so two workers' times may differ.                        *)
Tick(w) ==
  /\ mutex # w
  /\ clock[w] < MaxTime
  /\ clock' = [clock EXCEPT ![w] = @ + 1]
  /\ UNCHANGED <<zone, mutex, job, ret>>

(* External.  A worker dies inside a loop, between two of its turns; the   *)
(* master forces its mutex open and starts another in its place.           *)
Crash(w) ==
  /\ "crash" \in Calls
  /\ mutex = w
  /\ mutex' = Nil
  /\ job' = Nil
  /\ UNCHANGED <<zone, clock, ret>>

Next ==
  \E w \in Worker :
    \/ \E k \in Key :
         \/ Get(w, k)
         \/ Delete(w, k)
         \/ \E ttl \in TTL : SetExptime(w, k, ttl)
         \/ \E v \in Value, ttl \in TTL : Set(w, k, v, ttl)
    \/ EvictRound(w)
    \/ EvictGiveUp(w)
    \/ FlushAll(w)
    \/ \E limit \in SweepLimit : FlushExpired(w, limit)
    \/ SweepStep(w)
    \/ SweepDone(w)
    \/ Foreach(w)
    \/ Tick(w)
    \/ Crash(w)

Spec == Init /\ [][Next]_vars

(* The loops make no system call and wait for nothing: a worker inside one *)
(* keeps running.  Nothing obliges a worker to make calls.                 *)
FairSpec ==
  /\ Spec
  /\ \A w \in Worker :
       WF_vars(EvictRound(w) \/ EvictGiveUp(w) \/ SweepStep(w) \/ SweepDone(w))
=============================================================================
