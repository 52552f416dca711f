---------------------------- MODULE ShmDictProps ----------------------------
(***************************************************************************)
(* What the shared-memory dictionary is meant to guarantee.                *)
(***************************************************************************)
EXTENDS ShmDict

Zone == [node : [Addr -> Node \cup {Nil}], tree : SUBSET Addr, queue : Seq(Addr)]

(* Tree and queue of z hold exactly the allocated entries, each once.      *)
Indexed(z) ==
  /\ z.tree = Alloc(z)
  /\ ToSet(z.queue) = Alloc(z)
  /\ \A i, j \in DOMAIN z.queue : z.queue[i] = z.queue[j] => i = j

(* Entries of z lie in chunks of their class, and no page mixes classes.   *)
Packed(z) ==
  \A a \in Alloc(z) :
    /\ a \in Chunk[ClassOf[z.node[a].val]]
    /\ \A b \in Alloc(z) :
         PageOf[a] = PageOf[b] =>
           ClassOf[z.node[a].val] = ClassOf[z.node[b].val]

(* Every variable has the shape the C declarations give it.                *)
TypeOK ==
  /\ zone \in Zone
  /\ clock \in [Worker -> Nat]
  /\ mutex \in Worker \cup {Nil}
  /\ job \in InsertJob \cup SweepJob \cup {Nil}
  /\ ret \in Result

(* Whatever mixture of lookups, replacements, evictions and sweeps has     *)
(* run, the tree and the queue hold exactly the allocated entries: none    *)
(* leaks, dangles, or is linked twice (unlinking is spelled out at five    *)
(* places in the code, and insert relinks a chunk freed moments before).   *)
Consistent == Indexed(zone)

(* An in-place update (equal value lengths) never writes past the chunk    *)
(* the old value was given, and chunks handed out never overlap.           *)
SlabSound == Packed(zone)

(* A sweep's saved position (q = prev in flush_expired) stays inside the   *)
(* queue although entries behind it are unlinked while it walks.           *)
SweepInsideQueue == job \in SweepJob => job.at <= Len(zone.queue)

Gone(a) == zone.node[a] # Nil /\ zone'.node[a] = Nil

(* No collateral loss: an entry disappears only because its time has       *)
(* passed for some worker, because a set of some key is out of memory, or  *)
(* because the call is a set, a delete or a flush_all that names it.  No   *)
(* lookup, refresh or sweep ever takes a live entry with it.               *)
NoCollateralLoss ==
  [][\A a \in Addr : Gone(a) =>
       \/ \E w \in Worker : zone.node[a].exp \in 1 .. clock[w]
       \/ job \in InsertJob
       \/ job' \in InsertJob /\ job'.key = zone.node[a].key
       \/ ret'.call \in {"set", "delete"} /\ ret'.key = zone.node[a].key
       \/ ret'.call = "flush_all"]_vars

(* Memory pressure evicts in LRU order: a turn of insert's loop keeps the *)
(* n most recently used entries, untouched and in their order, and puts    *)
(* the new entry in front of them if there was room for it.                *)
EvictsOldestFirst ==
  [][(job \in InsertJob) =>
       \E n \in 0 .. Len(zone.queue) :
         LET kept == SubSeq(zone.queue, 1, n)
         IN /\ zone'.queue = kept \/ (zone'.queue # <<>> /\ Tail(zone'.queue) = kept)
            /\ \A a \in ToSet(kept) : zone'.node[a] = zone.node[a]]_vars

(* a stands in front of b in the queue q.                                  *)
Before(q, a, b) == \E i, j \in DOMAIN q : i < j /\ q[i] = a /\ q[j] = b

(* The key of the call that returned, or that went into insert's loop.     *)
KeyOfCall == IF job' \in InsertJob THEN job'.key ELSE ret'.key

(* The queue is the order of last use, on which eviction relies.  Two      *)
(* entries change places only when a call uses an entry of its key (a dead *)
(* one included, which a set then puts the new one in front of), and only  *)
(* entries of that key are then in front of it; and a get, a set or a      *)
(* set_exptime that succeeds leaves an entry of its key in front.          *)
RecentFirst ==
  [][LET q == zone'.queue
     IN /\ \A a, b \in Addr :
             Before(zone.queue, a, b) /\ Before(q, b, a) =>
               /\ zone'.node[b].key = KeyOfCall
               /\ \A c \in Addr : Before(q, c, b) => zone'.node[c].key = KeyOfCall
        /\ (/\ ret' # ret
            /\ ret'.rc = "ok"
            /\ ret'.call \in {"get", "set", "set_exptime"}) =>
             q # <<>> /\ zone'.node[Head(q)].key = ret'.key]_vars

(* At most one entry bears a key: "if it does not exist, insert a new one" *)
(* (ngx_shm_dict.c:705-707).  True while no entry can expire.              *)
UniqueKeys ==
  \A a, b \in Alloc(zone) : zone.node[a].key = zone.node[b].key => a = b

(* delete answered SHM_OK, "not exists" included (ngx_shm_dict.c:475-478): *)
(* no worker can then be served a value for the key.                       *)
DeleteHides ==
  ret.call = "delete" =>
    \A w \in Worker : Live(zone, ret.key, clock[w]) = {}

(* The map a zone stands for: the value of the entry a key is found at.    *)
MapOf(z) ==
  [k \in Key |-> IF Found(z, k) = {} THEN Nil
                 ELSE z.node[CHOOSE a \in Found(z, k) : TRUE].val]

StoredMap == MapOf(zone)

Abstract == INSTANCE EvictingMap WITH map <- StoredMap

(* While nothing expires, a zone is an evicting map: gets return the last  *)
(* value set, a failed set leaves nothing, nothing changes by itself.      *)
ImplementsEvictingMap == Abstract!Spec

(* Whoever enters a critical section leaves it: the loops terminate and    *)
(* every exit unlocks, so no caller spins on the mutex for ever.           *)
LockIsReleased == mutex # Nil ~> mutex = Nil
=============================================================================
