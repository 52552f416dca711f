---------------------------- MODULE ZoneRegistry ----------------------------
(***************************************************************************)
(* The zones of the dictionary by name (ngx_shm_dict_module.c and the      *)
(* lookup of ngx_shm_dict_handler.c): the array g_shm_dict_list, a static  *)
(* variable that outlives the configuration in whose pool it was made.     *)
(* Freed memory keeps its contents until it is used again: whoever reads   *)
(* it finds the old array, something else, or dies.                        *)
(***************************************************************************)
EXTENDS Cycles

CONSTANT Name    \* zone names

VARIABLES
  pool,       \* the cycles whose memory the master holds
  list,       \* g_shm_dict_list in the master
  declared,   \* declared[c]: names a dictionary directive of c was accepted for
  others      \* others[c]: names c gives to zones of other modules

registry == <<pool, list, declared, others>>

ASSUME NilNameAssumption == Nil \notin Name

(* An ngx_shm_zone_t, in the memory of the cycle that declares it.         *)
Zone == [name : Name, cycle : Cycle]

List == [pool : Cycle, zones : Seq(Zone)]

ASSUME NilZoneAssumption == Nil \notin Zone \cup List

(* The elements the loop of ngx_http_get_shm_zone takes for name n; without*)
(* a name (Nil) it takes any, and so the first.                            *)
Hits(l, n) == {i \in DOMAIN l.zones : n = Nil \/ l.zones[i].name = n}

First(S) == CHOOSE i \in S : \A j \in S : i <= j

(* Where a search stops: at a hit, or at a zone in freed memory.           *)
Stops(l, held, n) ==
  Hits(l, n) \cup {i \in DOMAIN l.zones : l.zones[i].cycle \notin held}

(* Mutant: the loop ends one element early.                                *)
SearchAllButLast(l, held, n) ==
  IF l.pool \notin held THEN "freed"
  ELSE LET S == Stops(l, held, n) \ {Len(l.zones)}
       IN IF S = {} THEN "absent"
          ELSE IF l.zones[First(S)].cycle \in held THEN "found" ELSE "freed"

(* The loop over the array, by a process that holds the cycles `held'.     *)
Search(l, held, n) ==
  IF l.pool \notin held THEN "freed"
  ELSE LET S == Stops(l, held, n)
       IN IF S = {} THEN "absent"
          ELSE IF l.zones[First(S)].cycle \in held THEN "found" ELSE "freed"

(* ngx_http_get_shm_zone, as long as freed memory is not used again.       *)
Lookup(l, n) == IF Hits(l, n) = {} THEN Nil ELSE l.zones[First(Hits(l, n))]

-----------------------------------------------------------------------------
RegistryInit ==
  /\ pool = {}
  /\ list = Nil
  /\ declared = [c \in Cycle |-> {}]
  /\ others = [c \in Cycle |-> {}]

(* Mutant: a list of its own for each configuration that has a zone.       *)
ListInitAnew(c) ==
  IF list = Nil \/ declared[c] = {} THEN [pool |-> c, zones |-> <<>>] ELSE list

(* ngx_shm_dict_list_init: made in the pool of the first configuration     *)
(* that names a zone.                                                      *)
ListInit(c) == IF list = Nil THEN [pool |-> c, zones |-> <<>>] ELSE list

(* Mutant: the new zone goes to the front.                                 *)
PushFront(l, c, n) ==
  IF n \in others[c] \cup declared[c] THEN l
  ELSE [l EXCEPT !.zones = <<[name |-> n, cycle |-> c]>> \o @]

(* ngx_shm_dict_list_push.  ngx_shm_dict_init returns no zone if another   *)
(* module has one of this name, or the dictionary has in this              *)
(* configuration; the directive does not look at the result.               *)
Push(l, c, n) ==
  IF n \in others[c] \cup declared[c] THEN l
  ELSE [l EXCEPT !.zones = Append(@, [name |-> n, cycle |-> c])]

(* The directive, accepted: the name is not in the list, or the search     *)
(* read freed memory and did not see it.                                   *)
Declare(c, n) ==
  /\ Search(ListInit(c), pool, n) # "found"
  /\ list' = Push(ListInit(c), c, n)
  /\ declared' = [declared EXCEPT ![c] = @ \cup {n}]
  /\ UNCHANGED <<pool, others>>

(* The directive, refused: the name is in the list, or what the search     *)
(* finds in freed memory looks like it.                                    *)
Repeated(c, n) == Search(ListInit(c), pool, n) # "absent"

(* The search read freed memory and did not survive it.                    *)
Fatal(c, n) == Search(ListInit(c), pool, n) = "freed"

(* External.  The directive of another module that has a shared zone;      *)
(* nginx refuses it if the dictionary has the name already.                *)
OtherZone(c, n) ==
  /\ n \notin declared[c] \ others[c]
  /\ others' = [others EXCEPT ![c] = @ \cup {n}]
  /\ UNCHANGED <<pool, list, declared>>

-----------------------------------------------------------------------------
RegistryTypeOK ==
  /\ pool \subseteq Cycle
  /\ list \in List \cup {Nil}
  /\ declared \in [Cycle -> SUBSET Name]
  /\ others \in [Cycle -> SUBSET Name]
=============================================================================
