---------------------------- MODULE Configuration ----------------------------
(***************************************************************************)
(* The life of an nginx with these modules: the master reads one           *)
(* configuration after the other and forks workers, which copy what the    *)
(* master has at that moment: the list of zones and the plugin manager.    *)
(* Configurations are refused or replaced, workers die and are forked      *)
(* again, old ones finish while new ones serve.                            *)
(*                                                                         *)
(* Abstractions.  The master runs one handler at a time; so does a worker. *)
(* A plugin of a worker uses the dictionary through one CNgxDictInterface. *)
(***************************************************************************)
EXTENDS ZoneRegistry, PluginManager

CONSTANTS
  Worker,          \* slots for worker processes
  MaxDirectives    \* bound on the directives of all configurations

VARIABLES
  phase,           \* what the master is doing
  last,            \* the number of configurations read
  cycle,           \* the configuration served, or Nil
  worker           \* worker[w]: the process in a slot, or Nil

vars == <<registry, plugins, phase, last, cycle, worker>>

Phases == {"idle", "parse", "init", "stop", "exited", "down"}

Running == {"start", "serve"}

(* A worker: its configuration, its copies of g_shm_dict_list and          *)
(* plugin_manager, the plugins whose InitProcess and whose ExitProcess it  *)
(* called, the object's m_zone, and the zone its calls named last.         *)
Pointer == {"unmade", "null", "garbage", "zone"}

Process == [state : Running \cup {"exited", "failed"}, cycle : Cycle,
            list : List \cup {Nil}, manager : Cycle,
            ready : SUBSET PluginName, left : SUBSET PluginName,
            m_zone : Pointer, zone : Zone \cup {Nil}, named : Name \cup {Nil}]

Init ==
  /\ RegistryInit
  /\ PluginInit
  /\ phase = "idle"
  /\ last = 0
  /\ cycle = Nil
  /\ worker = [w \in Worker |-> Nil]

-----------------------------------------------------------------------------
(* External.  ngx_init_cycle begins: the first start, or a reload.         *)
ReadConfiguration ==
  /\ phase = "idle"
  /\ last + 1 \in Cycle
  /\ last' = last + 1
  /\ pool' = pool \cup {last'}
  /\ phase' = "parse"
  /\ UNCHANGED <<list, declared, others, plugins, cycle, worker>>

(* Directives read, over all configurations.                               *)
Directives ==
  FoldFunction(+, 0, [c \in Cycle |-> Len(conf[c]) + Cardinality(declared[c])
                                       + Cardinality(others[c])])

Bounded == Directives < MaxDirectives

(* External.  A configuration is refused and its pool freed; the old one,  *)
(* if there is one, stays.                                                 *)
Refuse ==
  /\ pool' = pool \ {last}
  /\ phase' = IF cycle = Nil THEN "down" ELSE "idle"

Down == phase' = "down" /\ UNCHANGED pool

(* ngx_http__shm_zone, with a name and a size that are fine.               *)
ZoneDirective(n) ==
  /\ phase = "parse"
  /\ Bounded
  /\ \/ Declare(last, n) /\ UNCHANGED phase
     \/ /\ Repeated(last, n)
        /\ list' = ListInit(last)
        /\ Refuse
        /\ UNCHANGED <<declared, others>>
     \/ /\ Fatal(last, n)
        /\ Down
        /\ UNCHANGED <<list, declared, others>>
  /\ UNCHANGED <<plugins, last, cycle, worker>>

(* External.  Another module's zone.                                       *)
OtherDirective(n) ==
  /\ phase = "parse"
  /\ Bounded
  /\ OtherZone(last, n)
  /\ UNCHANGED <<plugins, phase, last, cycle, worker>>

PluginDirective(p) ==
  /\ phase = "parse"
  /\ Bounded
  /\ PluginConf(last, p)
  /\ UNCHANGED <<registry, phase, last, cycle, worker>>

(* A directive with a wrong parameter, of these modules or of another; a   *)
(* zone without max_size, which nginx refuses at the end.                  *)
BadDirective ==
  /\ phase = "parse"
  /\ Refuse
  /\ UNCHANGED <<list, declared, others, plugins, last, cycle, worker>>

(* ngx_http_plugin_init_module makes the manager.  When it fails, nginx    *)
(* exits at once.                                                          *)
LoadPlugins ==
  /\ phase = "parse"
  /\ \/ CreateManager(last, Len(conf[last])) /\ phase' = "init"
     \/ \E k \in 0 .. Len(conf[last]) - 1 :
          CreateManager(last, k) /\ phase' = "down"
  /\ UNCHANGED <<registry, last, cycle, worker>>

(* ... and initializes the plugins.  Then the configuration is accepted    *)
(* and the memory of the old one freed.                                    *)
InitPlugins ==
  /\ phase = "init"
  /\ \/ /\ InitMaster
        /\ phase' = "idle"
        /\ cycle' = last
        /\ pool' = {last}
     \/ /\ \E p \in PluginName : InitMasterFails(p)
        /\ Down
        /\ UNCHANGED cycle
  /\ UNCHANGED <<list, declared, others, last, worker>>

(* External.  nginx is told to quit.                                       *)
Stop ==
  /\ phase = "idle"
  /\ cycle # Nil
  /\ phase' = "stop"
  /\ UNCHANGED <<registry, plugins, last, cycle, worker>>

Exists(w) == worker[w] # Nil /\ worker[w].state \in Running

(* ngx_http_plugin_exit_master, when the last worker is gone.              *)
MasterExit ==
  /\ phase = "stop"
  /\ \A w \in Worker : ~ Exists(w)
  /\ ExitMaster
  /\ phase' = "exited"
  /\ UNCHANGED <<registry, last, cycle, worker>>

-----------------------------------------------------------------------------
master == <<registry, plugins, phase, last, cycle>>

Become(w, p) == worker' = [worker EXCEPT ![w] = p]

(* External.  The master forks a worker; one whose InitProcess failed is   *)
(* not replaced before the next configuration.                             *)
Fork(w) ==
  /\ phase = "idle"
  /\ cycle # Nil
  /\ worker[w] # Nil =>
       \/ worker[w].state = "exited"
       \/ worker[w].state = "failed" /\ worker[w].cycle # cycle
  /\ Become(w, [state |-> "start", cycle |-> cycle, list |-> list,
                manager |-> manager, ready |-> {}, left |-> {},
                m_zone |-> "unmade", zone |-> Nil, named |-> Nil])
  /\ UNCHANGED master

(* Mutants: the failure of a plugin goes unnoticed; the worker leaves by   *)
(* the ordinary way after it.                                              *)
FailedGoesOn(q, p) ==
  [q EXCEPT !.state = "serve", !.ready = Before(q.manager, p)]

FailedCleansUp(q, p) ==
  [q EXCEPT !.state = "exited", !.ready = Before(q.manager, p),
            !.left = loaded[q.manager]]

(* ngx_http_plugin_init_process failed: nginx's worker exits at once.      *)
Failed(q, p) == [q EXCEPT !.state = "failed", !.ready = Before(q.manager, p)]

(* ngx_http_plugin_init_process calls the plugins in the map's order and   *)
(* stops at the first that fails.                                          *)
InitProcess(w) ==
  /\ Exists(w)
  /\ worker[w].state = "start"
  /\ LET q == worker[w]
     IN \/ Become(w, [q EXCEPT !.state = "serve", !.ready = loaded[q.manager]])
        \/ \E p \in loaded[q.manager] : Become(w, Failed(q, p))
  /\ UNCHANGED master

Serves(w) == Exists(w) /\ worker[w].state = "serve"

Dies(w) == Become(w, Nil)

(* GetShmZone found no zone: m_zone keeps what it was made with.           *)
Missed(q) == [q EXCEPT !.m_zone = IF @ = "unmade" THEN "null" ELSE @]

(* GetShmZone, when it searches the list.  A search that reads freed       *)
(* memory finds what was there, misses it, takes something else for a zone *)
(* or kills the worker.                                                    *)
FindZone(w, n) ==
  LET q == worker[w]
      z == IF q.list = Nil THEN Nil ELSE Lookup(q.list, n)
  IN \/ Become(w, IF z = Nil THEN Missed(q)
                  ELSE [q EXCEPT !.m_zone = "zone", !.zone = z,
                                 !.named = IF n = Nil THEN @ ELSE n])
     \/ /\ q.list # Nil
        /\ Search(q.list, {q.cycle}, n) = "freed"
        /\ \/ Become(w, Missed(q))
           \/ Become(w, [q EXCEPT !.m_zone = "garbage"])
           \/ Dies(w)

(* The constructor reads m_zone before anything was written to it.         *)
Construct(w) ==
  /\ Serves(w)
  /\ worker[w].m_zone = "unmade"
  /\ \/ Become(w, [worker[w] EXCEPT !.m_zone = "garbage"])
     \/ FindZone(w, Nil)
  /\ UNCHANGED master

(* A call that names a zone, or SetZoneName.                               *)
CallNamed(w, n) ==
  /\ Serves(w)
  /\ worker[w].m_zone # "unmade"
  /\ FindZone(w, n)
  /\ UNCHANGED master

(* A call that names none: it goes to m_zone, whatever that is by now; if  *)
(* that is NULL, to the first zone.                                        *)
CallUnnamed(w) ==
  /\ Serves(w)
  /\ \/ worker[w].m_zone = "null" /\ FindZone(w, Nil)
     \/ worker[w].m_zone = "garbage" /\ Dies(w)
  /\ UNCHANGED master

(* External.  A worker of an old configuration, or of an nginx that stops, *)
(* finishes: ngx_http_plugin_exit_process.                                 *)
Quit(w) ==
  /\ Serves(w)
  /\ worker[w].cycle # cycle \/ phase = "stop"
  /\ Become(w, [worker[w] EXCEPT !.state = "exited",
                                 !.left = loaded[worker[w].manager]])
  /\ UNCHANGED master

(* External.  A worker is killed.                                          *)
Crash(w) ==
  /\ Exists(w)
  /\ Dies(w)
  /\ UNCHANGED master

-----------------------------------------------------------------------------
Next ==
  \/ ReadConfiguration
  \/ \E n \in Name : ZoneDirective(n) \/ OtherDirective(n)
  \/ \E p \in PluginName : PluginDirective(p)
  \/ BadDirective
  \/ LoadPlugins
  \/ InitPlugins
  \/ Stop
  \/ MasterExit
  \/ \E w \in Worker :
       \/ Fork(w)
       \/ InitProcess(w)
       \/ Construct(w)
       \/ \E n \in Name : CallNamed(w, n)
       \/ CallUnnamed(w)
       \/ Quit(w)
       \/ Crash(w)

Spec == Init /\ [][Next]_vars

-----------------------------------------------------------------------------
(* Every variable has its shape.                                           *)
TypeOK ==
  /\ RegistryTypeOK
  /\ PluginTypeOK
  /\ phase \in Phases
  /\ last \in Cycle \cup {0}
  /\ cycle \in Cycle \cup {Nil}
  /\ worker \in [Worker -> Process \cup {Nil}]

(* c is the first configuration with a zone, even counting those refused.  *)
FirstWithZones(c) == \A b \in Cycle : b < c => declared[b] = {}

(* The zones of a configuration that a lookup ought to find.               *)
Own(c) == declared[c] \ others[c]

(* A name finds its zone: under the first configuration that has zones, a  *)
(* worker, whenever it was forked and whatever reloads were refused by     *)
(* then, finds each of its configuration's zones by name and one of them   *)
(* without a name, and reads no freed memory on the way.  Under later      *)
(* configurations this is not so: the list is in the first one's pool.     *)
FindsOwnZones ==
  \A w \in Worker : Exists(w) =>
    LET q == worker[w]
    IN FirstWithZones(q.cycle) /\ Own(q.cycle) # {} =>
         /\ \A n \in Own(q.cycle) :
              /\ Search(q.list, {q.cycle}, n) = "found"
              /\ Lookup(q.list, n) = [name |-> n, cycle |-> q.cycle]
         /\ Search(q.list, {q.cycle}, Nil) = "found"
         /\ Lookup(q.list, Nil).cycle = q.cycle

(* The zone an object keeps for the calls that name none belongs to its    *)
(* worker's configuration, as long as its callers named zones of theirs.   *)
PointsAtOwnZone ==
  \A w \in Worker : Exists(w) =>
    LET q == worker[w]
    IN /\ FirstWithZones(q.cycle) /\ Own(q.cycle) # {}
       /\ q.m_zone = "zone"
       /\ q.named \in Own(q.cycle) \cup {Nil}
       => q.zone.cycle = q.cycle

(* A request is only ever served where every plugin of the configuration   *)
(* can be found, had its InitMaster in the master before the fork and its  *)
(* InitProcess in this process, through reloads, failures half way and     *)
(* workers that are forked again.                                          *)
ReadyToServe ==
  \A w \in Worker : Serves(w) =>
    LET q == worker[w]
    IN \A p \in ToSet(conf[q.cycle]) :
         GetPlugin(q.manager, p) /\ p \in q.ready \cap inited[q.cycle]

(* Exit mirrors init: a plugin's ExitProcess and ExitMaster are called in  *)
(* a process only if its Init call there succeeded, and then those of all  *)
(* the plugins are.                                                        *)
ExitMirrorsInit ==
  /\ \A w \in Worker : worker[w] # Nil =>
       worker[w].left \in {{}, worker[w].ready}
  /\ \A c \in Cycle : told[c] \in {{}, inited[c]}
=============================================================================
