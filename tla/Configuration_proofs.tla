------------------------- MODULE Configuration_proofs -------------------------
(***************************************************************************)
(* What holds of the configurations and workers of any nginx with these    *)
(* modules: every variable keeps its shape, a worker that serves has all   *)
(* of its plugins ready, exit calls mirror the init calls, and the zones   *)
(* of the first configuration that has any are found by name.              *)
(*                                                                         *)
(* The argument.  The master only ever writes to what belongs to the       *)
(* configuration it reads (lemma Untouched), and that one has no worker    *)
(* yet; so what holds of a configuration when it is accepted holds of it   *)
(* for the lives of its workers.                                           *)
(***************************************************************************)
EXTENDS Configuration, WellFoundedInduction, TLAPS

Reading == phase \in {"parse", "init"}

(* A configuration that was read before the one that is being read now.    *)
Past(c) == c \in Cycle /\ c <= last /\ (Reading => c < last)

(* All of a configuration's plugins are loaded and initialized.            *)
Settled(c) == loaded[c] = ToSet(conf[c]) /\ inited[c] = loaded[c]

(* What the master knows of its configurations, by phase.                  *)
MasterInv ==
  /\ cycle # Nil => Past(cycle) /\ Settled(cycle)
  /\ phase \in {"idle", "parse", "stop"} /\ cycle # Nil => manager = cycle
  /\ phase = "stop" => cycle # Nil
  /\ Reading => last \in Cycle /\ last \in pool
  /\ phase = "init" => manager = last /\ loaded[last] = ToSet(conf[last])
  /\ phase # "exited" => told = [c \in Cycle |-> {}]
  /\ \A c \in Cycle : told[c] \in {{}, inited[c]}

(* A process has the manager of its configuration, all of whose plugins    *)
(* are initialized; those that are running have not been left.             *)
HasPlugins(q) ==
  /\ Past(q.cycle) /\ Settled(q.cycle)
  /\ q.manager = q.cycle
  /\ q.left \in {{}, q.ready}
  /\ q.state \in Running => q.left = {}
  /\ q.state = "serve" => q.ready = loaded[q.cycle]

PluginInv ==
  /\ TypeOK
  /\ MasterInv
  /\ \A w \in Worker : worker[w] # Nil => HasPlugins(worker[w])

-----------------------------------------------------------------------------
(* A process stays one when a field gets a value of its kind.              *)
LEMMA Update ==
  ASSUME NEW q \in Process
  PROVE  /\ \A x \in Running \cup {"exited", "failed"} :
              [q EXCEPT !.state = x] \in Process
         /\ \A x \in SUBSET PluginName : [q EXCEPT !.ready = x] \in Process
         /\ \A x \in SUBSET PluginName : [q EXCEPT !.left = x] \in Process
         /\ \A x \in Pointer : [q EXCEPT !.m_zone = x] \in Process
         /\ \A x \in Zone \cup {Nil} : [q EXCEPT !.zone = x] \in Process
         /\ \A x \in Name \cup {Nil} : [q EXCEPT !.named = x] \in Process
BY DEF Process

(* The fields of a process.                                                *)
LEMMA Members ==
  ASSUME NEW q \in Process
  PROVE  /\ q.state \in Running \cup {"exited", "failed"}
         /\ q.cycle \in Cycle /\ q.manager \in Cycle
         /\ q.list \in List \cup {Nil}
         /\ q.ready \in SUBSET PluginName /\ q.left \in SUBSET PluginName
         /\ q.m_zone \in Pointer /\ q.zone \in Zone \cup {Nil}
         /\ q.named \in Name \cup {Nil}
BY DEF Process

(* A list made or grown by a directive is a list.                          *)
LEMMA PushTyped ==
  ASSUME TypeOK, NEW c \in Cycle, NEW n \in Name
  PROVE  ListInit(c) \in List /\ Push(ListInit(c), c, n) \in List
<1>1. ListInit(c) \in List
  BY DEF TypeOK, RegistryTypeOK, ListInit, List
<1>2. [name |-> n, cycle |-> c] \in Zone
  BY DEF Zone
<1>3. ASSUME NEW l \in List
      PROVE  Push(l, c, n) \in List
  BY <1>2 DEF Push, List
<1> QED
  BY <1>1, <1>3

(* The first of a set of positions is one of them.                         *)
LEMMA FirstIn ==
  ASSUME NEW S \in SUBSET Nat, S # {}
  PROVE  First(S) \in S /\ \A j \in S : First(S) <= j
<1> DEFINE R == {ss \in Nat \X Nat : ss[1] < ss[2]}
<1>1. IsWellFoundedOn(R, Nat)
  BY NatLessThanWellFounded DEF OpToRel
<1> HIDE DEF R
<1>2. PICK i \in S : \A j \in S : ~ (<<j, i>> \in R)
  BY <1>1, WFMin
<1>3. ASSUME NEW j \in S
      PROVE  i <= j
  <2>1. <<j, i>> \in R <=> j < i
    BY Zenon DEF R
  <2> QED
    BY <1>2, <2>1
<1> QED
  BY <1>3 DEF First

(* What a search for a name brings back is a zone of the list, or none.    *)
LEMMA LookupTyped ==
  ASSUME NEW l \in List, NEW n
  PROVE  /\ Hits(l, n) \in SUBSET Nat
         /\ Lookup(l, n) \in Zone \cup {Nil}
         /\ Hits(l, n) # {} =>
              /\ First(Hits(l, n)) \in Hits(l, n)
              /\ Lookup(l, n) = l.zones[First(Hits(l, n))]
              /\ \A j \in Hits(l, n) : First(Hits(l, n)) <= j
<1>1. l.zones \in Seq(Zone)
  BY DEF List
<1>2. Hits(l, n) \in SUBSET Nat /\ Hits(l, n) \subseteq DOMAIN l.zones
  BY <1>1 DEF Hits
<1>3. Hits(l, n) # {} => First(Hits(l, n)) \in Hits(l, n)
                         /\ \A j \in Hits(l, n) : First(Hits(l, n)) <= j
  BY <1>2, FirstIn
<1> QED
  BY <1>1, <1>2, <1>3 DEF Lookup

(* A process that searched a list for a name: where m_zone points now.     *)
Found(q, n) ==
  LET z == IF q.list = Nil THEN Nil ELSE Lookup(q.list, n)
  IN IF z = Nil
     THEN Missed(q)
     ELSE [q EXCEPT !.m_zone = "zone", !.zone = z,
                    !.named = IF n = Nil THEN @ ELSE n]

(* It is a process still, with nothing but the zone changed.               *)
LEMMA FoundTyped ==
  ASSUME NEW q \in Process, NEW n \in Name \cup {Nil}
  PROVE  /\ Found(q, n) \in Process
         /\ \A f \in {"state", "cycle", "list", "manager", "ready", "left"} :
              Found(q, n)[f] = q[f]
<1> DEFINE z == IF q.list = Nil THEN Nil ELSE Lookup(q.list, n)
           m == IF q.m_zone = "unmade" THEN "null" ELSE q.m_zone
           d == IF n = Nil THEN q.named ELSE n
           a == [q EXCEPT !.m_zone = "zone"]
           b == [a EXCEPT !.zone = z]
<1>1. z \in Zone \cup {Nil} /\ m \in Pointer /\ d \in Name \cup {Nil}
  BY Members, LookupTyped DEF Pointer
<1>2. /\ [q EXCEPT !.m_zone = m] \in Process
      /\ [b EXCEPT !.named = d] \in Process
  <2>1. a \in Process
    BY Update DEF Pointer
  <2>2. b \in Process
    BY <1>1, <2>1, Update
  <2> QED
    BY <1>1, <2>2, Update
<1>3. Found(q, n) = IF z = Nil THEN [q EXCEPT !.m_zone = m]
                    ELSE [b EXCEPT !.named = d]
  BY DEF Found, Missed, Process
<1>4. \A f \in {"state", "cycle", "list", "manager", "ready", "left"} :
        /\ [q EXCEPT !.m_zone = m][f] = q[f]
        /\ [b EXCEPT !.named = d][f] = q[f]
  BY DEF Process
<1> QED
  BY <1>2, <1>3, <1>4

(* So it is when the search finds nothing; m_zone points to no other zone. *)
LEMMA MissedTyped ==
  ASSUME NEW q \in Process
  PROVE  /\ Missed(q) \in Process
         /\ Missed(q).m_zone = "zone" => q.m_zone = "zone"
         /\ Missed(q).zone = q.zone /\ Missed(q).named = q.named
         /\ \A f \in {"state", "cycle", "list", "manager", "ready", "left"} :
              Missed(q)[f] = q[f]
<1> DEFINE m == IF q.m_zone = "unmade" THEN "null" ELSE q.m_zone
<1>1. m \in Pointer
  BY Members DEF Pointer, Process
<1>2. Missed(q) = [q EXCEPT !.m_zone = m]
  BY DEF Missed, Process
<1>3. [q EXCEPT !.m_zone = m] \in Process
  BY <1>1, Update
<1>4. /\ [q EXCEPT !.m_zone = m].m_zone = m
      /\ [q EXCEPT !.m_zone = m].zone = q.zone
      /\ [q EXCEPT !.m_zone = m].named = q.named
      /\ \A f \in {"state", "cycle", "list", "manager", "ready", "left"} :
           [q EXCEPT !.m_zone = m][f] = q[f]
  BY DEF Process
<1> QED
  BY <1>2, <1>3, <1>4

(* A step that changes no field but the zone, or ends the process.         *)
LEMMA FindZoneForm ==
  ASSUME NEW w \in Worker, NEW n, FindZone(w, n)
  PROVE  \/ Become(w, Found(worker[w], n))
         \/ Become(w, Missed(worker[w]))
         \/ Become(w, [worker[w] EXCEPT !.m_zone = "garbage"])
         \/ Become(w, Nil)
BY DEF FindZone, Found, Dies

-----------------------------------------------------------------------------
(* The calls that search the list for a zone.                              *)
Calls(w) ==
  \/ Construct(w)
  \/ \E n \in Name : CallNamed(w, n)
  \/ CallUnnamed(w)

(* What becomes of a worker in one of them.                                *)
LEMMA CallsForm ==
  ASSUME NEW w \in Worker, Calls(w)
  PROVE  /\ UNCHANGED master
         /\ worker[w] # Nil
         /\ \/ Become(w, Nil)
            \/ Become(w, [worker[w] EXCEPT !.m_zone = "garbage"])
            \/ Become(w, Missed(worker[w]))
            \/ \E n \in Name \cup {Nil} : Become(w, Found(worker[w], n))
BY FindZoneForm DEF Calls, Construct, CallNamed, CallUnnamed, Serves, Exists,
                    Dies

(* The steps of a worker's process change that process only, into one or   *)
(* none.                                                                   *)
LEMMA WorkerTyped ==
  ASSUME TypeOK, MasterInv, NEW w \in Worker,
         Fork(w) \/ InitProcess(w) \/ Calls(w) \/ Quit(w) \/ Crash(w)
  PROVE  UNCHANGED master /\ \E p \in Process \cup {Nil} : Become(w, p)
<1>1. worker[w] \in Process \cup {Nil}
  BY DEF TypeOK
<1>2. loaded \in [Cycle -> SUBSET PluginName]
  BY DEF TypeOK, PluginTypeOK
<1>3. ASSUME worker[w] \in Process, NEW p \in PluginName
      PROVE  Failed(worker[w], p) \in Process
  <2> DEFINE q == worker[w]
  <2>1. Before(q.manager, p) \in SUBSET PluginName
    BY <1>2, <1>3, Members DEF Before
  <2>2. [q EXCEPT !.state = "failed"] \in Process
    BY <1>3, Update DEF Running
  <2>3. Failed(q, p) = [[q EXCEPT !.state = "failed"]
                          EXCEPT !.ready = Before(q.manager, p)]
    BY <1>3 DEF Failed, Process
  <2> QED
    BY <2>1, <2>2, <2>3, Update
<1>4. CASE Fork(w)
  <2>1. cycle \in Cycle /\ manager = cycle /\ list \in List \cup {Nil}
    BY <1>4 DEF Fork, TypeOK, RegistryTypeOK, MasterInv
  <2> QED
    BY <1>4, <2>1 DEF Fork, Process, Running, Pointer
<1>5. CASE InitProcess(w)
  <2> DEFINE q == worker[w]
  <2>1. q \in Process
    BY <1>1, <1>5 DEF InitProcess, Exists
  <2>2. \A p \in loaded[q.manager] : Failed(q, p) \in Process
    BY <1>2, <1>3, <2>1, Members
  <2>3. [q EXCEPT !.state = "serve", !.ready = loaded[q.manager]] \in Process
    BY <1>2, <2>1 DEF Process, Running
  <2> QED
    BY <1>5, <2>2, <2>3 DEF InitProcess
<1>6. CASE Calls(w)
  <2>1. worker[w] \in Process
    BY <1>1, <1>6, CallsForm
  <2>2. [worker[w] EXCEPT !.m_zone = "garbage"] \in Process
    BY <2>1, Update DEF Pointer
  <2>3. Missed(worker[w]) \in Process
    BY <2>1, MissedTyped
  <2> QED
    BY <1>6, <2>1, <2>2, <2>3, CallsForm, FoundTyped
<1>7. CASE Quit(w)
  <2>1. worker[w] \in Process
    BY <1>1, <1>7 DEF Quit, Serves, Exists
  <2>2. [worker[w] EXCEPT !.state = "exited",
                          !.left = loaded[worker[w].manager]] \in Process
    BY <1>2, <2>1 DEF Process
  <2> QED
    BY <1>7, <2>2 DEF Quit
<1>8. CASE Crash(w)
  BY <1>8 DEF Crash, Dies
<1> QED
  BY <1>4, <1>5, <1>6, <1>7, <1>8

-----------------------------------------------------------------------------
(* The steps of the master that touch the zones, the plugins, neither.     *)
MasterStep ==
  \/ ReadConfiguration
  \/ \E n \in Name : ZoneDirective(n) \/ OtherDirective(n)
  \/ \E p \in PluginName : PluginDirective(p)
  \/ BadDirective
  \/ LoadPlugins
  \/ InitPlugins
  \/ Stop
  \/ MasterExit

WorkerStep(w) == Fork(w) \/ InitProcess(w) \/ Calls(w) \/ Quit(w) \/ Crash(w)

(* Every step is the master's or a worker's.                               *)
LEMMA Steps ==
  ASSUME Next
  PROVE  MasterStep \/ \E w \in Worker : WorkerStep(w)
BY DEF Next, MasterStep, WorkerStep, Calls

(* A directive for a zone gives the name to the configuration that is      *)
(* read, or leaves it as it is, and then the list as well.                 *)
LEMMA ZoneForm ==
  ASSUME TypeOK, MasterInv, NEW n \in Name, ZoneDirective(n)
  PROVE  /\ Reading /\ phase = "parse" /\ last \in Cycle
         /\ UNCHANGED <<plugins, last, cycle, worker, others>>
         /\ \/ /\ list' = Push(ListInit(last), last, n)
               /\ declared' = [declared EXCEPT ![last] = @ \cup {n}]
               /\ UNCHANGED <<pool, phase>>
            \/ UNCHANGED <<list, declared>> /\ Refuse
            \/ UNCHANGED <<list, declared, pool>> /\ phase' = "down"
<1>1. Reading /\ phase = "parse" /\ last \in Cycle /\ last \in pool
  BY DEF ZoneDirective, Reading, MasterInv
<1>2. ASSUME Repeated(last, n)
      PROVE  ListInit(last) = list
  <2>1. SUFFICES ASSUME list = Nil PROVE FALSE
    BY DEF ListInit
  <2>2. ListInit(last) = [pool |-> last, zones |-> <<>>]
    BY <2>1 DEF ListInit
  <2>3. Hits(ListInit(last), n) = {} /\ Stops(ListInit(last), pool, n) = {}
    BY <2>2 DEF Hits, Stops
  <2>4. Search(ListInit(last), pool, n) = "absent"
    BY <1>1, <2>2, <2>3 DEF Search
  <2> QED
    BY <1>2, <2>4 DEF Repeated
<1> QED
  BY <1>1, <1>2 DEF ZoneDirective, Declare, Down, plugins

(* The master's steps keep every variable's shape.                         *)
LEMMA MasterTyped ==
  ASSUME TypeOK, MasterInv, MasterStep
  PROVE  TypeOK' /\ UNCHANGED worker
<1> USE DEF TypeOK
<1>0. RegistryTypeOK /\ PluginTypeOK
  OBVIOUS
<1>1. CASE ReadConfiguration
  BY <1>1 DEF ReadConfiguration, RegistryTypeOK, PluginTypeOK, plugins, Phases
<1>2. ASSUME NEW n \in Name, ZoneDirective(n)
      PROVE  TypeOK' /\ UNCHANGED worker
  <2>1. PluginTypeOK'
    BY <1>0, <1>2, ZoneForm DEF PluginTypeOK, plugins
  <2>2. list' \in List \cup {Nil}
    BY <1>0, <1>2, ZoneForm, PushTyped DEF RegistryTypeOK
  <2>3. pool' \subseteq Cycle /\ phase' \in Phases
    BY <1>2, ZoneForm DEF Refuse, RegistryTypeOK, Phases
  <2>4. declared' \in [Cycle -> SUBSET Name] /\ others' = others
    BY <1>2, ZoneForm DEF RegistryTypeOK
  <2> QED
    BY <1>2, <2>1, <2>2, <2>3, <2>4, ZoneForm DEF RegistryTypeOK
<1>3. ASSUME NEW n \in Name, OtherDirective(n)
      PROVE  TypeOK' /\ UNCHANGED worker
  BY <1>3 DEF OtherDirective, OtherZone, RegistryTypeOK, PluginTypeOK, plugins
<1>4. ASSUME NEW p \in PluginName, PluginDirective(p)
      PROVE  TypeOK' /\ UNCHANGED worker
  <2>1. conf' \in [Cycle -> Seq(PluginName)]
    <3>1. last \in Cycle
      BY <1>4 DEF PluginDirective, MasterInv, Reading
    <3>2. Append(conf[last], p) \in Seq(PluginName)
      BY <3>1 DEF PluginTypeOK
    <3> QED
      BY <1>4, <3>2 DEF PluginDirective, PluginConf, PluginTypeOK
  <2> QED
    BY <1>4, <2>1 DEF PluginDirective, PluginConf, RegistryTypeOK, PluginTypeOK,
                      registry
<1>5. CASE BadDirective
  BY <1>5 DEF BadDirective, Refuse, RegistryTypeOK, PluginTypeOK, plugins, Phases
<1>6. CASE LoadPlugins
  <2>1. last \in Cycle
    BY <1>6 DEF LoadPlugins, MasterInv, Reading
  <2>2. ASSUME NEW k \in Nat, k <= Len(conf[last])
        PROVE  ToSet(SubSeq(conf[last], 1, k)) \in SUBSET PluginName
    <3>1. conf[last] \in Seq(PluginName)
      BY <2>1 DEF PluginTypeOK
    <3>2. SubSeq(conf[last], 1, k) \in Seq(PluginName)
      BY <2>2, <3>1
    <3> QED
      BY <3>2 DEF ToSet
  <2>3. ASSUME NEW k \in Nat, k <= Len(conf[last]), CreateManager(last, k)
        PROVE  PluginTypeOK'
    BY <2>1, <2>2, <2>3 DEF CreateManager, PluginTypeOK
  <2>4. Len(conf[last]) \in Nat
    BY <2>1 DEF PluginTypeOK
  <2>5. PluginTypeOK'
    BY <1>6, <2>3, <2>4 DEF LoadPlugins
  <2> QED
    BY <1>6, <2>5 DEF LoadPlugins, RegistryTypeOK, registry, Phases
<1>7. CASE InitPlugins
  <2>1. last \in Cycle /\ manager = last
    BY <1>7 DEF InitPlugins, MasterInv, Reading
  <2>2. PluginTypeOK'
    BY <1>7, <2>1 DEF InitPlugins, InitMaster, InitMasterFails, Before, PluginTypeOK
  <2> QED
    BY <1>7, <2>1, <2>2 DEF InitPlugins, Down, RegistryTypeOK, Phases
<1>8. CASE Stop
  BY <1>8 DEF Stop, RegistryTypeOK, PluginTypeOK, registry, plugins, Phases
<1>9. CASE MasterExit
  <2>1. manager \in Cycle
    BY <1>9 DEF MasterExit, MasterInv
  <2> QED
    BY <1>9, <2>1 DEF MasterExit, ExitMaster, RegistryTypeOK, PluginTypeOK,
                      registry, Phases
<1> QED
  BY <1>1, <1>2, <1>3, <1>4, <1>5, <1>6, <1>7, <1>8, <1>9 DEF MasterStep

(* A worker's step keeps every variable's shape.                           *)
LEMMA AllTyped ==
  ASSUME TypeOK, MasterInv, [Next]_vars
  PROVE  TypeOK'
<1>1. CASE MasterStep
  BY <1>1, MasterTyped
<1>2. ASSUME NEW w \in Worker, WorkerStep(w)
      PROVE  TypeOK'
  <2>1. PICK p \in Process \cup {Nil} : UNCHANGED master /\ Become(w, p)
    BY <1>2, WorkerTyped DEF WorkerStep
  <2>2. worker' \in [Worker -> Process \cup {Nil}]
    BY <2>1 DEF Become, TypeOK
  <2> QED
    BY <2>1, <2>2 DEF master, registry, plugins, TypeOK, RegistryTypeOK,
                      PluginTypeOK
<1>3. CASE UNCHANGED vars
  BY <1>3 DEF vars, registry, plugins, TypeOK, RegistryTypeOK, PluginTypeOK
<1> QED
  BY <1>1, <1>2, <1>3, Steps

-----------------------------------------------------------------------------
(* What belongs to a configuration.                                        *)
Of(c) == <<conf[c], loaded[c], inited[c], declared[c], others[c]>>

(* Nothing that belongs to a configuration read before is touched again,   *)
(* and it stays one of those.                                              *)
LEMMA Untouched ==
  ASSUME TypeOK, MasterInv, [Next]_vars, NEW c \in Cycle, Past(c)
  PROVE  Past(c)' /\ UNCHANGED Of(c)
<1> USE CycleAssumption DEF Of
<1>0. last \in Nat /\ c \in Nat
  BY DEF TypeOK
<1>1. CASE ReadConfiguration
  BY <1>0, <1>1 DEF ReadConfiguration, plugins, Past
<1>2. ASSUME NEW n \in Name, ZoneDirective(n)
      PROVE  Past(c)' /\ UNCHANGED Of(c)
  <2>1. Reading /\ c < last /\ last' = last
    BY <1>2, ZoneForm DEF Past
  <2>2. declared'[c] = declared[c]
    BY <1>2, <2>1, <1>0, ZoneForm DEF TypeOK, RegistryTypeOK
  <2> QED
    BY <1>0, <1>2, <2>1, <2>2, ZoneForm DEF Past, plugins
<1>3. ASSUME NEW n \in Name, OtherDirective(n)
      PROVE  Past(c)' /\ UNCHANGED Of(c)
  BY <1>0, <1>3 DEF OtherDirective, OtherZone, Past, Reading, plugins,
                    TypeOK, RegistryTypeOK
<1>4. ASSUME NEW p \in PluginName, PluginDirective(p)
      PROVE  Past(c)' /\ UNCHANGED Of(c)
  BY <1>0, <1>4 DEF PluginDirective, PluginConf, Past, Reading, registry,
                    TypeOK, PluginTypeOK
<1>5. CASE BadDirective
  BY <1>5 DEF BadDirective, Refuse, Past, Reading, plugins
<1>6. CASE LoadPlugins
  <2>1. c < last
    BY <1>6 DEF LoadPlugins, Past, Reading
  <2>2. loaded'[c] = loaded[c]
    BY <1>0, <1>6, <2>1 DEF LoadPlugins, CreateManager, TypeOK, PluginTypeOK
  <2> QED
    BY <1>0, <1>6, <2>1, <2>2 DEF LoadPlugins, CreateManager, Past, Reading, registry
<1>7. CASE InitPlugins
  <2>1. c < last /\ manager = last
    BY <1>7 DEF InitPlugins, Past, Reading, MasterInv
  <2>2. inited'[c] = inited[c]
    BY <1>0, <1>7, <2>1 DEF InitPlugins, InitMaster, InitMasterFails, TypeOK,
                            PluginTypeOK
  <2> QED
    BY <1>0, <1>7, <2>1, <2>2 DEF InitPlugins, InitMaster, InitMasterFails, Past,
                                  Reading
<1>8. CASE Stop
  BY <1>8 DEF Stop, Past, Reading, registry, plugins
<1>9. CASE MasterExit
  BY <1>9 DEF MasterExit, ExitMaster, Past, Reading, registry
<1>10. ASSUME NEW w \in Worker, WorkerStep(w)
       PROVE  Past(c)' /\ UNCHANGED Of(c)
  BY <1>10, WorkerTyped DEF WorkerStep, master, registry, plugins, Past, Reading
<1>11. CASE UNCHANGED vars
  BY <1>11 DEF vars, registry, plugins, Past, Reading
<1> QED
  BY <1>1, <1>2, <1>3, <1>4, <1>5, <1>6, <1>7, <1>8, <1>9, <1>10, <1>11, Steps
     DEF MasterStep

(* What the master knows stays true.                                       *)
LEMMA MasterStays ==
  ASSUME TypeOK, MasterInv, [Next]_vars
  PROVE  MasterInv'
<1> USE CycleAssumption
<1>0. last \in Nat /\ (cycle # Nil => cycle \in Cycle)
  BY DEF TypeOK
<1>1. ASSUME cycle # Nil, UNCHANGED cycle
      PROVE  (Past(cycle) /\ Settled(cycle))'
  BY <1>0, <1>1, Untouched DEF MasterInv, Settled, Of
<1>2. CASE ReadConfiguration
  BY <1>0, <1>1, <1>2 DEF ReadConfiguration, plugins, MasterInv, Reading
<1>3. ASSUME NEW n \in Name, ZoneDirective(n)
      PROVE  MasterInv'
  <2>1. phase' \in {"parse", "idle", "down"}
    BY <1>3, ZoneForm DEF Refuse
  <2>2. phase' = "parse" => last' \in pool'
    <3>1. last \in pool /\ last' = last
      BY <1>3, ZoneForm DEF MasterInv
    <3>2. phase' = "parse" => UNCHANGED pool
      BY <1>3, ZoneForm DEF Refuse
    <3> QED
      BY <3>1, <3>2
  <2>3. last' \in Cycle /\ UNCHANGED <<manager, cycle, told, inited>>
    BY <1>3, ZoneForm DEF plugins
  <2> QED
    BY <1>1, <1>3, <2>1, <2>2, <2>3, ZoneForm DEF MasterInv, Reading
<1>4. ASSUME NEW n \in Name, OtherDirective(n)
      PROVE  MasterInv'
  BY <1>1, <1>4 DEF OtherDirective, OtherZone, MasterInv, Reading, plugins
<1>5. ASSUME NEW p \in PluginName, PluginDirective(p)
      PROVE  MasterInv'
  BY <1>1, <1>5 DEF PluginDirective, PluginConf, MasterInv, Reading, registry
<1>6. CASE BadDirective
  BY <1>1, <1>6 DEF BadDirective, Refuse, MasterInv, Reading, plugins
<1>7. CASE LoadPlugins
  <2>1. Reading /\ last \in Cycle /\ last \in pool
    BY <1>7 DEF LoadPlugins, MasterInv, Reading
  <2>2. conf[last] \in Seq(PluginName)
    BY <2>1 DEF TypeOK, PluginTypeOK
  <2>3. SubSeq(conf[last], 1, Len(conf[last])) = conf[last]
    BY <2>2
  <2>4. phase' = "init" => manager' = last /\ loaded'[last] = ToSet(conf'[last])
    BY <1>7, <2>1, <2>3 DEF LoadPlugins, CreateManager, TypeOK, PluginTypeOK
  <2> QED
    BY <1>1, <1>7, <2>1, <2>4 DEF LoadPlugins, CreateManager, MasterInv, Reading,
                                  registry
<1>8. CASE InitPlugins
  <2>1. /\ last \in Cycle /\ manager = last /\ loaded[last] = ToSet(conf[last])
        /\ told = [c \in Cycle |-> {}]
    BY <1>8 DEF InitPlugins, MasterInv, Reading
  <2>2. UNCHANGED <<conf, loaded, manager, told, last>>
    BY <1>8 DEF InitPlugins, InitMaster, InitMasterFails
  <2>3. CASE phase' = "idle"
    <3>1. cycle' = last /\ InitMaster
      BY <1>8, <2>3 DEF InitPlugins, Down
    <3>2. Settled(last)'
      BY <2>1, <2>2, <3>1 DEF Settled, InitMaster, TypeOK, PluginTypeOK
    <3> QED
      BY <1>0, <2>1, <2>2, <2>3, <3>1, <3>2 DEF MasterInv, Past, Reading, Settled
  <2>4. CASE phase' = "down" /\ UNCHANGED cycle
    BY <1>1, <2>1, <2>2, <2>4 DEF MasterInv, Reading
  <2> QED
    BY <1>8, <2>3, <2>4 DEF InitPlugins, Down
<1>9. CASE Stop
  BY <1>1, <1>9 DEF Stop, MasterInv, Reading, registry, plugins
<1>10. CASE MasterExit
  <2>1. manager = cycle /\ cycle \in Cycle /\ inited[cycle] = loaded[cycle]
    BY <1>0, <1>10 DEF MasterExit, MasterInv, Settled
  <2>2. \A c \in Cycle : told'[c] \in {{}, inited[c]}
    BY <1>10, <2>1 DEF MasterExit, ExitMaster, MasterInv
  <2> QED
    BY <1>1, <1>10, <2>1, <2>2 DEF MasterExit, ExitMaster, MasterInv, Reading
<1>11. ASSUME NEW w \in Worker, WorkerStep(w)
       PROVE  MasterInv'
  BY <1>1, <1>11, WorkerTyped DEF WorkerStep, master, registry, plugins, MasterInv,
                                  Reading
<1>12. CASE UNCHANGED vars
  BY <1>1, <1>12 DEF vars, registry, plugins, MasterInv, Reading
<1> QED
  BY <1>2, <1>3, <1>4, <1>5, <1>6, <1>7, <1>8, <1>9, <1>10, <1>11, <1>12, Steps
     DEF MasterStep

-----------------------------------------------------------------------------
(* What a process has of its plugins is said by five of its fields.        *)
LEMMA SamePlugins ==
  ASSUME NEW q, HasPlugins(q), NEW n,
         \A f \in {"state", "cycle", "manager", "ready", "left"} : n[f] = q[f]
  PROVE  HasPlugins(n)
<1>1. /\ n.state = q.state /\ n.cycle = q.cycle /\ n.manager = q.manager
      /\ n.ready = q.ready /\ n.left = q.left
  OBVIOUS
<1> QED
  BY <1>1 DEF HasPlugins

(* A step of a worker leaves its process, if it has one, with its plugins. *)
LEMMA WorkerStays ==
  ASSUME PluginInv, NEW w \in Worker, WorkerStep(w), [Next]_vars, worker'[w] # Nil
  PROVE  HasPlugins(worker'[w])
<1> DEFINE q == worker[w]
<1>0. TypeOK /\ MasterInv /\ q \in Process \cup {Nil} /\ worker \in [Worker -> Process \cup {Nil}]
  BY DEF PluginInv, TypeOK
<1>1. q # Nil => q \in Process /\ HasPlugins(q)
  BY <1>0 DEF PluginInv
<1>2. ASSUME NEW p, Become(w, p)
      PROVE  worker'[w] = p
  BY <1>0, <1>2 DEF Become
<1>4. ASSUME q # Nil, NEW p, worker'[w] = p,
             p.cycle = q.cycle, p.manager = q.manager,
             p.left \in {{}, p.ready}, p.state \in Running => p.left = {},
             p.state = "serve" => p.ready = loaded[p.cycle]
      PROVE  HasPlugins(worker'[w])
  BY <1>1, <1>4 DEF HasPlugins
<1>5. CASE Fork(w)
  <2>1. /\ worker'[w].cycle = cycle /\ worker'[w].manager = manager
        /\ worker'[w].left = {} /\ worker'[w].ready = {}
        /\ worker'[w].state = "start"
    BY <1>2, <1>5 DEF Fork
  <2>2. Past(cycle) /\ Settled(cycle) /\ manager = cycle
    BY <1>0, <1>5 DEF Fork, MasterInv
  <2> QED
    BY <2>1, <2>2 DEF HasPlugins
<1>6. CASE InitProcess(w)
  <2>1. q # Nil /\ q.left = {} /\ q.manager = q.cycle
    BY <1>1, <1>6 DEF InitProcess, Exists, HasPlugins
  <2>2. \/ worker'[w] = [q EXCEPT !.state = "serve", !.ready = loaded[q.manager]]
        \/ \E p \in loaded[q.manager] : worker'[w] = Failed(q, p)
    BY <1>2, <1>6 DEF InitProcess
  <2>3. CASE worker'[w] = [q EXCEPT !.state = "serve", !.ready = loaded[q.manager]]
    BY <1>1, <1>4, <2>1, <2>3 DEF Process
  <2>4. ASSUME NEW p \in loaded[q.manager], worker'[w] = Failed(q, p)
        PROVE  HasPlugins(worker'[w])
    BY <1>1, <1>4, <2>1, <2>4 DEF Process, Failed, Running
  <2> QED
    BY <2>2, <2>3, <2>4
<1>7. CASE Calls(w)
  <2>1. q # Nil
    BY <1>7, CallsForm
  <2>2. CASE worker'[w] = [q EXCEPT !.m_zone = "garbage"]
    <3>1. \A f \in {"state", "cycle", "manager", "ready", "left"} :
            worker'[w][f] = q[f]
      BY <1>1, <2>1, <2>2 DEF Process
    <3> QED
      BY <1>1, <2>1, <3>1, SamePlugins
  <2>3. ASSUME NEW n \in Name \cup {Nil}, worker'[w] = Found(q, n)
        PROVE  HasPlugins(worker'[w])
    <3>1. \A f \in {"state", "cycle", "manager", "ready", "left"} :
            worker'[w][f] = q[f]
      BY <1>1, <2>1, <2>3, FoundTyped
    <3> QED
      BY <1>1, <2>1, <3>1, SamePlugins
  <2>4. CASE worker'[w] = Missed(q)
    <3>1. \A f \in {"state", "cycle", "manager", "ready", "left"} :
            worker'[w][f] = q[f]
      BY <1>1, <2>1, <2>4, MissedTyped
    <3> QED
      BY <1>1, <2>1, <3>1, SamePlugins
  <2> QED
    BY <1>2, <1>7, <2>2, <2>3, <2>4, CallsForm
<1>8. CASE Quit(w)
  <2>1. q # Nil /\ q.manager = q.cycle /\ q.ready = loaded[q.manager]
    BY <1>1, <1>8 DEF Quit, Serves, Exists, HasPlugins
  <2>2. worker'[w] = [q EXCEPT !.state = "exited", !.left = loaded[q.manager]]
    BY <1>2, <1>8 DEF Quit
  <2> QED
    BY <1>1, <1>4, <2>1, <2>2 DEF Process, Running
<1>9. CASE Crash(w)
  BY <1>2, <1>9 DEF Crash, Dies
<1> QED
  BY <1>5, <1>6, <1>7, <1>8, <1>9 DEF WorkerStep

(* The invariant of the plugins holds from the start ...                   *)
LEMMA PluginInvInit == Init => PluginInv
<1> SUFFICES ASSUME Init PROVE PluginInv
  OBVIOUS
<1> USE DEF Init, RegistryInit, PluginInit
<1>1. TypeOK
  BY DEF TypeOK, RegistryTypeOK, PluginTypeOK, Phases
<1>2. MasterInv
  BY DEF MasterInv, Reading
<1> QED
  BY <1>1, <1>2 DEF PluginInv

(* ... and through every step.                                             *)
LEMMA PluginInvNext ==
  ASSUME PluginInv, [Next]_vars
  PROVE  PluginInv'
<1>0. TypeOK /\ MasterInv /\ TypeOK' /\ MasterInv'
  BY AllTyped, MasterStays DEF PluginInv
<1>1. \A q \in Process : HasPlugins(q) => HasPlugins(q)'
  <2> SUFFICES ASSUME NEW q \in Process, HasPlugins(q)
               PROVE  HasPlugins(q)'
    OBVIOUS
  <2>1. Past(q.cycle)' /\ UNCHANGED Of(q.cycle)
    BY <1>0, Members, Untouched DEF HasPlugins
  <2> QED
    BY <2>1 DEF HasPlugins, Settled, Of
<1>2. ASSUME NEW v \in Worker, worker'[v] # Nil
      PROVE  HasPlugins(worker'[v])
  <2>1. CASE UNCHANGED worker[v]
    BY <1>2, <2>1 DEF PluginInv
  <2>2. CASE WorkerStep(v)
    BY <1>2, <2>2, WorkerStays
  <2>3. ASSUME NEW w \in Worker, WorkerStep(w), w # v
        PROVE  UNCHANGED worker[v]
    BY <1>0, <2>3, WorkerTyped DEF WorkerStep, Become, TypeOK
  <2>4. MasterStep \/ UNCHANGED vars => UNCHANGED worker[v]
    BY <1>0, MasterTyped DEF vars
  <2> QED
    BY <2>1, <2>2, <2>3, <2>4, Steps
<1>3. ASSUME NEW v \in Worker, worker'[v] # Nil
      PROVE  HasPlugins(worker[v])'
  <2>1. worker'[v] \in Process
    BY <1>0, <1>3 DEF TypeOK
  <2> QED
    BY <1>1, <1>2, <1>3, <2>1 DEF HasPlugins
<1> QED
  BY <1>0, <1>3 DEF PluginInv

-----------------------------------------------------------------------------
(* Every variable keeps its shape, through every reload, failure and crash.*)
THEOREM Typed == Spec => []TypeOK
<1>1. PluginInv => TypeOK
  BY DEF PluginInv
<1> QED
  BY <1>1, PluginInvInit, PluginInvNext, PTL DEF Spec

(* A worker that serves has every plugin of its configuration in the       *)
(* manager, initialized in the master and in itself.                       *)
THEOREM Ready == Spec => []ReadyToServe
<1>1. PluginInv => ReadyToServe
  BY Members DEF PluginInv, ReadyToServe, Serves, Exists, HasPlugins, Settled,
                 GetPlugin
<1> QED
  BY <1>1, PluginInvInit, PluginInvNext, PTL DEF Spec

(* ExitProcess and ExitMaster are called for those plugins only whose      *)
(* initialization succeeded, and for all of them.                          *)
THEOREM Mirrors == Spec => []ExitMirrorsInit
<1>1. PluginInv => ExitMirrorsInit
  BY DEF PluginInv, ExitMirrorsInit, MasterInv, HasPlugins
<1> QED
  BY <1>1, PluginInvInit, PluginInvNext, PTL DEF Spec

-----------------------------------------------------------------------------
(* The zones of a list stand in the order of their configurations, none of *)
(* which came before the one the list was made for.                        *)
Ordered(l) ==
  /\ \A i, j \in DOMAIN l.zones : i < j => l.zones[i].cycle <= l.zones[j].cycle
  /\ \A i \in DOMAIN l.zones : l.pool <= l.zones[i].cycle

(* Configuration c's own zones are in the list.                            *)
Has(l, c) ==
  \A n \in Own(c) :
    \E i \in DOMAIN l.zones : l.zones[i] = [name |-> n, cycle |-> c]

(* The master's list: it was made for the first configuration that was     *)
(* given a zone, and nothing in it is newer than the configuration read.   *)
ListInv ==
  /\ list = Nil => \A c \in Cycle : declared[c] = {}
  /\ list # Nil =>
       /\ declared[list.pool] # {} /\ FirstWithZones(list.pool)
       /\ list.pool <= last
       /\ Ordered(list)
       /\ \A i \in DOMAIN list.zones : list.zones[i].cycle <= last
       /\ Has(list, list.pool)

(* A process under the first configuration with zones has such a list.     *)
HasZones(q) ==
  FirstWithZones(q.cycle) /\ Own(q.cycle) # {} =>
    /\ q.list # Nil /\ q.list.pool = q.cycle
    /\ Ordered(q.list) /\ Has(q.list, q.cycle)
    /\ q.m_zone = "zone" /\ q.named \in Own(q.cycle) \cup {Nil}
         => q.zone.cycle = q.cycle

ZoneInv ==
  /\ PluginInv
  /\ ListInv
  /\ \A w \in Worker : worker[w] # Nil => HasZones(worker[w])

(* In such a list a search finds what it should before it meets anything   *)
(* that was freed.                                                         *)
LEMMA SearchFinds ==
  ASSUME TypeOK, NEW l \in List, NEW c \in Cycle, l.pool = c, Ordered(l),
         Has(l, c), NEW n \in Own(c)
  PROVE  /\ Search(l, {c}, n) = "found"
         /\ Lookup(l, n) = [name |-> n, cycle |-> c]
         /\ Search(l, {c}, Nil) = "found"
         /\ Lookup(l, Nil) # Nil
         /\ Lookup(l, Nil).cycle = c
<1>1. l.zones \in Seq(Zone)
  BY DEF List
<1>2. n # Nil
  BY NilNameAssumption DEF Own, TypeOK, RegistryTypeOK
<1>3. PICK i \in DOMAIN l.zones : l.zones[i] = [name |-> n, cycle |-> c]
  BY DEF Has
<1>4. \A k \in DOMAIN l.zones : k <= i => l.zones[k].cycle = c
  <2> SUFFICES ASSUME NEW k \in DOMAIN l.zones, k <= i
               PROVE  l.zones[k].cycle = c
    OBVIOUS
  <2>1. k < i \/ k = i
    BY <1>1
  <2>2. l.zones[k] \in Zone /\ l.zones[k].cycle \in Nat /\ c \in Nat
    <3>1. l.zones[k] \in Zone
      BY <1>1
    <3> QED
      BY <3>1, CycleAssumption DEF Zone
  <2>3. c <= l.zones[k].cycle /\ l.zones[k].cycle <= c
    BY <1>3, <2>1, <2>2 DEF Ordered
  <2> QED
    BY <2>2, <2>3
<1>5. ASSUME NEW m \in {n, Nil}
      PROVE  /\ Search(l, {c}, m) = "found"
             /\ Hits(l, m) # {} /\ First(Hits(l, m)) <= i
  <2>1. i \in Hits(l, m) /\ i \in Stops(l, {c}, m)
    BY <1>3 DEF Hits, Stops
  <2>2. Stops(l, {c}, m) \in SUBSET Nat /\ Stops(l, {c}, m) \subseteq DOMAIN l.zones
    BY <1>1 DEF Hits, Stops
  <2>3. /\ First(Stops(l, {c}, m)) \in Stops(l, {c}, m)
        /\ First(Stops(l, {c}, m)) <= i
    BY <2>1, <2>2, FirstIn
  <2>4. l.zones[First(Stops(l, {c}, m))].cycle \in {c}
    BY <1>4, <2>2, <2>3
  <2>5. Search(l, {c}, m) = "found"
    BY <2>1, <2>4 DEF Search
  <2> QED
    BY <2>1, <2>5, LookupTyped
<1>6. ASSUME NEW m \in {n, Nil}
      PROVE  /\ Lookup(l, m) = l.zones[First(Hits(l, m))]
             /\ First(Hits(l, m)) \in Hits(l, m)
             /\ Lookup(l, m) \in Zone /\ Lookup(l, m).cycle = c
  <2>1. /\ Lookup(l, m) = l.zones[First(Hits(l, m))]
        /\ First(Hits(l, m)) \in Hits(l, m)
    BY <1>5, LookupTyped
  <2>2. First(Hits(l, m)) \in DOMAIN l.zones
    BY <2>1 DEF Hits
  <2> QED
    BY <1>1, <1>4, <1>5, <2>1, <2>2
<1>7. Lookup(l, n) = [name |-> n, cycle |-> c]
  <2>1. l.zones[First(Hits(l, n))].name = n
    BY <1>2, <1>6 DEF Hits
  <2> QED
    BY <1>6, <2>1 DEF Zone
<1> QED
  BY <1>5, <1>6, <1>7, NilZoneAssumption

-----------------------------------------------------------------------------
(* A directive leaves the master with a list of that kind.                 *)
LEMMA PushKeeps ==
  ASSUME TypeOK, ListInv, last \in Cycle, NEW n \in Name,
         list' = Push(ListInit(last), last, n),
         declared' = [declared EXCEPT ![last] = @ \cup {n}],
         UNCHANGED <<last, others>>
  PROVE  ListInv'
<1> DEFINE l == ListInit(last)
           z == [name |-> n, cycle |-> last]
<1>0. /\ last \in Nat /\ l \in List /\ list' \in List /\ list' # Nil
      /\ l.zones \in Seq(Zone) /\ l.pool \in Cycle
      /\ declared \in [Cycle -> SUBSET Name] /\ others \in [Cycle -> SUBSET Name]
      /\ Cycle \subseteq Nat
      /\ z \in Zone /\ \A y \in Zone : y.cycle \in Nat
  <2>1. l \in List /\ list' \in List
    BY PushTyped
  <2>2. l.zones \in Seq(Zone) /\ l.pool \in Cycle
    BY <2>1 DEF List
  <2>3. Cycle \subseteq Nat
    BY CycleAssumption
  <2>4. z \in Zone /\ \A y \in Zone : y.cycle \in Nat
    BY <2>3 DEF Zone
  <2> QED
    BY <2>1, <2>2, <2>3, <2>4, NilZoneAssumption DEF TypeOK, RegistryTypeOK
<1>1. /\ l.pool <= last /\ FirstWithZones(l.pool) /\ Ordered(l)
      /\ \A i \in DOMAIN l.zones : l.zones[i].cycle <= last
      /\ Has(l, l.pool)
      /\ declared[l.pool] # {} \/ l.pool = last
  <2>1. CASE list = Nil
    BY <1>0, <2>1 DEF ListInit, ListInv, FirstWithZones, Ordered, Has, Own
  <2>2. CASE list # Nil
    BY <1>0, <2>2 DEF ListInit, ListInv
  <2> QED
    BY <2>1, <2>2
<1> HIDE DEF l
<1>2. /\ list'.pool = l.pool /\ list'.zones \in Seq(Zone)
      /\ list'.zones = IF n \in others[last] \cup declared[last] THEN l.zones
                       ELSE Append(l.zones, z)
  <2>1. list' = Push(l, last, n)
    BY DEF l
  <2> QED
    BY <1>0, <2>1 DEF Push, List
<1>3. declared'[list'.pool] # {} /\ FirstWithZones(list.pool)'
  <2>1. declared'[l.pool] # {}
    BY <1>0, <1>1
  <2>2. \A b \in Cycle : b < l.pool => declared'[b] = {}
    <3> SUFFICES ASSUME NEW b \in Cycle, b < l.pool
                 PROVE  declared'[b] = {}
      OBVIOUS
    <3>1. b \in Nat /\ l.pool \in Nat
      BY <1>0
    <3>2. b # last
      BY <1>0, <1>1, <3>1
    <3>3. declared'[b] = declared[b]
      BY <1>0, <3>2
    <3> QED
      BY <1>1, <3>3 DEF FirstWithZones
  <2> QED
    BY <1>2, <2>1, <2>2 DEF FirstWithZones
<1>4. /\ DOMAIN l.zones \subseteq DOMAIN list'.zones
      /\ \A i \in DOMAIN l.zones : list'.zones[i] = l.zones[i]
      /\ \A i \in DOMAIN list'.zones :
           i \in DOMAIN l.zones
             \/ (list'.zones[i] = z /\ \A j \in DOMAIN l.zones : j < i)
      /\ n \in others[last] \cup declared[last]
           \/ \E i \in DOMAIN list'.zones : list'.zones[i] = z
  <2>1. CASE n \in others[last] \cup declared[last]
    BY <1>2, <2>1
  <2>2. CASE n \notin others[last] \cup declared[last]
    <3>1. /\ DOMAIN l.zones = 1 .. Len(l.zones) /\ Len(l.zones) \in Nat
          /\ DOMAIN list'.zones = 1 .. (Len(l.zones) + 1)
          /\ \A i \in 1 .. Len(l.zones) : list'.zones[i] = l.zones[i]
          /\ list'.zones[Len(l.zones) + 1] = z
      BY <1>0, <1>2, <2>2
    <3> QED
      BY <3>1
  <2> QED
    BY <2>1, <2>2
<1>5. \A i \in DOMAIN list'.zones : list'.zones[i].cycle <= last
  BY <1>0, <1>1, <1>4
<1>6. Ordered(list)'
  <2>1. DOMAIN list'.zones \subseteq Nat /\ DOMAIN l.zones \subseteq Nat
    BY <1>0, <1>2
  <2>2. \A i \in DOMAIN l.zones : l.zones[i].cycle \in Nat
    BY <1>0
  <2>3. \A i \in DOMAIN list'.zones : l.pool <= list'.zones[i].cycle
    BY <1>0, <1>1, <1>4 DEF Ordered
  <2>4. ASSUME NEW i \in DOMAIN list'.zones, NEW j \in DOMAIN list'.zones, i < j
        PROVE  list'.zones[i].cycle <= list'.zones[j].cycle
    <3>1. CASE j \in DOMAIN l.zones
      <4>1. i \in DOMAIN l.zones
        BY <1>4, <2>1, <2>4, <3>1
      <4> QED
        BY <1>1, <1>4, <2>4, <3>1, <4>1 DEF Ordered
    <3>2. CASE list'.zones[j] = z
      BY <1>5, <3>2
    <3> QED
      BY <1>4, <3>1, <3>2
  <2> QED
    BY <1>2, <2>3, <2>4 DEF Ordered
<1>7. Has(list, list.pool)'
  <2> SUFFICES ASSUME NEW m \in declared'[l.pool] \ others[l.pool]
               PROVE  \E i \in DOMAIN list'.zones :
                        list'.zones[i] = [name |-> m, cycle |-> l.pool]
    BY <1>2 DEF Has, Own
  <2>1. CASE m \in Own(l.pool)
    BY <1>1, <1>4, <2>1 DEF Has
  <2>2. CASE m \notin Own(l.pool)
    <3>1. l.pool = last /\ m = n /\ n \notin others[last] \cup declared[last]
      <4>1. m \notin declared[l.pool]
        BY <2>2 DEF Own
      <4> QED
        BY <1>0, <4>1
    <3> QED
      BY <1>4, <3>1
  <2> QED
    BY <2>1, <2>2
<1> QED
  BY <1>0, <1>1, <1>2, <1>3, <1>5, <1>6, <1>7 DEF ListInv

(* What the master knows of its list stays true.                           *)
LEMMA ListStays ==
  ASSUME TypeOK, MasterInv, ListInv, [Next]_vars
  PROVE  ListInv'
<1>0. /\ last \in Nat
      /\ list # Nil => /\ list \in List /\ list.pool \in Nat
                       /\ \A i \in DOMAIN list.zones : list.zones[i].cycle \in Nat
  <2>1. last \in Nat /\ Cycle \subseteq Nat
    BY CycleAssumption DEF TypeOK
  <2>2. \A z \in Zone : z.cycle \in Nat
    BY <2>1 DEF Zone
  <2>3. list # Nil => /\ list \in List /\ list.pool \in Cycle
                      /\ list.zones \in Seq(Zone)
    BY DEF TypeOK, RegistryTypeOK, List
  <2>4. list # Nil => \A i \in DOMAIN list.zones : list.zones[i] \in Zone
    BY <2>3
  <2> QED
    BY <2>1, <2>2, <2>3, <2>4
<1>1. ASSUME UNCHANGED <<list, declared>>, last' \in Nat, last <= last',
             \A c \in Cycle : Own(c)' \subseteq Own(c)
      PROVE  ListInv'
  <2>1. CASE list = Nil
    BY <1>1, <2>1 DEF ListInv
  <2>2. CASE list # Nil
    <3>1. list.pool \in Cycle
      BY <2>2 DEF TypeOK, RegistryTypeOK, List
    <3>2. Has(list, list.pool)'
      BY <1>1, <2>2, <3>1 DEF ListInv, Has
    <3>3. /\ list.pool <= last'
          /\ \A i \in DOMAIN list.zones : list.zones[i].cycle <= last'
      BY <1>0, <1>1, <2>2 DEF ListInv
    <3>4. Ordered(list)' /\ FirstWithZones(list.pool)'
      BY <1>1, <2>2 DEF ListInv, Ordered, FirstWithZones
    <3> QED
      BY <1>1, <2>2, <3>2, <3>3, <3>4 DEF ListInv
  <2> QED
    BY <2>1, <2>2
<1>2. ASSUME UNCHANGED <<list, declared, others, last>>
      PROVE  ListInv'
  BY <1>0, <1>1, <1>2 DEF Own
<1>3. CASE ReadConfiguration
  BY <1>0, <1>1, <1>3 DEF ReadConfiguration, Own
<1>4. ASSUME NEW n \in Name, ZoneDirective(n)
      PROVE  ListInv'
  <2>1. last \in Cycle /\ UNCHANGED <<last, others>>
    BY <1>4, ZoneForm
  <2>2. CASE UNCHANGED <<list, declared>>
    BY <1>2, <2>1, <2>2
  <2>3. CASE /\ list' = Push(ListInit(last), last, n)
             /\ declared' = [declared EXCEPT ![last] = @ \cup {n}]
    BY <2>1, <2>3, PushKeeps
  <2> QED
    BY <1>4, <2>2, <2>3, ZoneForm
<1>5. ASSUME NEW n \in Name, OtherDirective(n)
      PROVE  ListInv'
  <2>1. UNCHANGED <<list, declared, last>>
    BY <1>5 DEF OtherDirective, OtherZone
  <2>2. \A c \in Cycle : others[c] \subseteq others'[c]
    BY <1>5 DEF OtherDirective, OtherZone, TypeOK, RegistryTypeOK
  <2> QED
    BY <1>0, <1>1, <2>1, <2>2 DEF Own
<1>6. ASSUME NEW p \in PluginName, PluginDirective(p)
      PROVE  ListInv'
  BY <1>2, <1>6 DEF PluginDirective, registry
<1>7. BadDirective \/ LoadPlugins \/ InitPlugins \/ Stop \/ MasterExit => ListInv'
  BY <1>2 DEF BadDirective, LoadPlugins, InitPlugins, Stop, MasterExit, registry
<1>8. ASSUME NEW w \in Worker, WorkerStep(w)
      PROVE  ListInv'
  BY <1>2, <1>8, WorkerTyped DEF WorkerStep, master, registry
<1>9. CASE UNCHANGED vars
  BY <1>2, <1>9 DEF vars, registry
<1> QED
  BY <1>3, <1>4, <1>5, <1>6, <1>7, <1>8, <1>9, Steps DEF MasterStep

-----------------------------------------------------------------------------
(* What a process has of its zones is said by five of its fields.          *)
LEMMA SameZones ==
  ASSUME NEW q, HasZones(q), NEW n,
         n.cycle = q.cycle, n.list = q.list, n.m_zone = q.m_zone,
         n.zone = q.zone, n.named = q.named
  PROVE  HasZones(n)
BY DEF HasZones

(* A worker is forked with the zones of its configuration.                 *)
LEMMA ForkedZones ==
  ASSUME TypeOK, MasterInv, ListInv, cycle \in Cycle,
         NEW q, q.cycle = cycle, q.list = list, q.m_zone = "unmade"
  PROVE  HasZones(q)
<1> SUFFICES ASSUME FirstWithZones(cycle), Own(cycle) # {}
             PROVE  /\ list # Nil /\ list.pool = cycle
                    /\ Ordered(list) /\ Has(list, cycle)
  BY DEF HasZones
<1>1. declared[cycle] # {}
  BY DEF Own
<1>2. list # Nil
  BY <1>1 DEF ListInv
<1>3. list.pool \in Cycle /\ Cycle \subseteq Nat
  BY <1>2, CycleAssumption DEF TypeOK, RegistryTypeOK, List
<1>4. ~ (list.pool < cycle) /\ ~ (cycle < list.pool)
  BY <1>1, <1>2, <1>3 DEF ListInv, FirstWithZones
<1>5. list.pool = cycle
  <2>1. list.pool \in Nat /\ cycle \in Nat
    BY <1>3
  <2> QED
    BY <1>4, <2>1
<1> QED
  BY <1>2, <1>5 DEF ListInv

(* A search keeps m_zone on the process's own zone.                        *)
LEMMA FoundZones ==
  ASSUME TypeOK, NEW q \in Process, HasZones(q), NEW n \in Name \cup {Nil}
  PROVE  HasZones(Found(q, n))
<1> DEFINE f == Found(q, n)
           z == Lookup(q.list, n)
<1>1. f \in Process /\ f.cycle = q.cycle /\ f.list = q.list
  BY FoundTyped
<1> SUFFICES ASSUME FirstWithZones(q.cycle), Own(q.cycle) # {},
                    f.m_zone = "zone", f.named \in Own(q.cycle) \cup {Nil}
             PROVE  f.zone.cycle = q.cycle
  BY <1>1 DEF HasZones
<1>2. /\ q.list \in List /\ q.list # Nil /\ q.list.pool = q.cycle
      /\ Ordered(q.list) /\ Has(q.list, q.cycle) /\ q.cycle \in Cycle
  BY Members DEF HasZones
<1>3. CASE z = Nil
  <2>1. f = Missed(q)
    BY <1>2, <1>3 DEF Found
  <2>2. q.m_zone = "zone" /\ f.zone = q.zone /\ f.named = q.named
    BY <2>1, MissedTyped
  <2> QED
    BY <2>2 DEF HasZones
<1>4. CASE z # Nil
  <2>1. f = [q EXCEPT !.m_zone = "zone", !.zone = z,
                      !.named = IF n = Nil THEN @ ELSE n]
    BY <1>2, <1>4 DEF Found
  <2>2. f.zone = z /\ (n = Nil \/ f.named = n)
    BY <2>1 DEF Process
  <2>3. PICK m \in Own(q.cycle) : TRUE
    OBVIOUS
  <2>4. CASE n = Nil
    BY <1>2, <2>2, <2>3, <2>4, SearchFinds
  <2>5. CASE n # Nil
    <3>1. n \in Own(q.cycle)
      BY <2>2, <2>5
    <3>2. Lookup(q.list, n) = [name |-> n, cycle |-> q.cycle]
      BY <1>2, <3>1, SearchFinds
    <3> QED
      BY <2>2, <3>2
  <2> QED
    BY <2>4, <2>5
<1> QED
  BY <1>3, <1>4

(* A worker's step leaves its process, if it has one, with its zones.      *)
LEMMA WorkerZones ==
  ASSUME ZoneInv, NEW w \in Worker, WorkerStep(w), worker'[w] # Nil
  PROVE  HasZones(worker'[w])
<1> DEFINE q == worker[w]
<1>0. TypeOK /\ MasterInv /\ ListInv /\ worker \in [Worker -> Process \cup {Nil}]
  BY DEF ZoneInv, PluginInv, TypeOK
<1>1. q # Nil => q \in Process /\ HasZones(q)
  BY <1>0 DEF ZoneInv
<1>2. ASSUME NEW p, Become(w, p)
      PROVE  worker'[w] = p
  BY <1>0, <1>2 DEF Become
<1>3. ASSUME q # Nil, NEW n \in {[q EXCEPT !.state = "serve", !.ready = loaded[q.manager]],
                    [q EXCEPT !.state = "exited", !.left = loaded[q.manager]]}
                   \cup {Failed(q, p) : p \in loaded[q.manager]}
      PROVE  HasZones(n)
  BY <1>1, <1>3, SameZones DEF Process, Failed
<1>4. CASE Fork(w)
  <2>1. /\ worker'[w].cycle = cycle /\ worker'[w].list = list
        /\ worker'[w].m_zone = "unmade"
    BY <1>2, <1>4 DEF Fork
  <2>2. cycle \in Cycle
    BY <1>0, <1>4 DEF Fork, TypeOK
  <2> QED
    BY <1>0, <2>1, <2>2, ForkedZones
<1>5. CASE InitProcess(w)
  BY <1>2, <1>3, <1>5 DEF InitProcess, Exists
<1>6. CASE Calls(w)
  <2>1. q # Nil
    BY <1>6, CallsForm
  <2>2. CASE worker'[w] = [q EXCEPT !.m_zone = "garbage"]
    BY <1>1, <2>1, <2>2 DEF HasZones, Process
  <2>3. ASSUME NEW n \in Name \cup {Nil}, worker'[w] = Found(q, n)
        PROVE  HasZones(worker'[w])
    BY <1>0, <1>1, <2>1, <2>3, FoundZones
  <2>4. CASE worker'[w] = Missed(q)
    <3>1. /\ Missed(q).cycle = q.cycle /\ Missed(q).list = q.list
          /\ Missed(q).zone = q.zone /\ Missed(q).named = q.named
          /\ Missed(q).m_zone = "zone" => q.m_zone = "zone"
      BY <1>1, <2>1, MissedTyped
    <3> QED
      BY <1>1, <2>1, <2>4, <3>1 DEF HasZones
  <2> QED
    BY <1>2, <1>6, <2>2, <2>3, <2>4, CallsForm
<1>7. CASE Quit(w)
  BY <1>2, <1>3, <1>7 DEF Quit, Serves, Exists
<1>8. CASE Crash(w)
  BY <1>2, <1>8 DEF Crash, Dies
<1> QED
  BY <1>4, <1>5, <1>6, <1>7, <1>8 DEF WorkerStep

(* The invariant of the zones holds from the start ...                     *)
LEMMA ZoneInvInit == Init => ZoneInv
<1> SUFFICES ASSUME Init PROVE ZoneInv
  OBVIOUS
<1>1. ListInv
  BY DEF Init, RegistryInit, ListInv
<1> QED
  BY <1>1, PluginInvInit DEF ZoneInv, Init

(* ... and through every step.                                             *)
LEMMA ZoneInvNext ==
  ASSUME ZoneInv, [Next]_vars
  PROVE  ZoneInv'
<1>0. PluginInv /\ PluginInv' /\ ListInv' /\ TypeOK /\ MasterInv /\ TypeOK'
  BY PluginInvNext, ListStays DEF ZoneInv, PluginInv
<1>1. ASSUME NEW q \in Process, Past(q.cycle), HasZones(q)
      PROVE  HasZones(q)'
  <2>0. q.cycle \in Cycle /\ last \in Nat /\ Cycle \subseteq Nat
    BY <1>0, Members, CycleAssumption DEF TypeOK
  <2>1. UNCHANGED <<declared[q.cycle], others[q.cycle]>>
    BY <1>0, <1>1, <2>0, Untouched DEF Of
  <2>2. \A b \in Cycle : b < q.cycle => UNCHANGED declared[b]
    <3> SUFFICES ASSUME NEW b \in Cycle, b < q.cycle
                 PROVE  UNCHANGED declared[b]
      OBVIOUS
    <3>1. Past(b)
      <4>1. b \in Nat /\ q.cycle \in Nat /\ last \in Nat
        BY <2>0
      <4>2. q.cycle <= last /\ (Reading => q.cycle < last)
        BY <1>1 DEF Past
      <4>3. b <= last /\ (q.cycle < last => b < last)
        BY <4>1, <4>2
      <4> QED
        BY <4>2, <4>3 DEF Past
    <3> QED
      BY <1>0, <3>1, Untouched DEF Of
  <2>3. /\ FirstWithZones(q.cycle)' <=> FirstWithZones(q.cycle)
        /\ Own(q.cycle)' = Own(q.cycle)
    BY <2>1, <2>2 DEF FirstWithZones, Own
  <2>4. (Ordered(q.list)' <=> Ordered(q.list))
        /\ (Has(q.list, q.cycle)' <=> Has(q.list, q.cycle))
    BY <2>3 DEF Ordered, Has
  <2> QED
    BY <1>1, <2>3, <2>4 DEF HasZones
<1>2. ASSUME NEW v \in Worker, worker'[v] # Nil
      PROVE  HasZones(worker'[v]) /\ Past(worker'[v].cycle)
  <2>1. CASE UNCHANGED worker[v]
    BY <1>0, <1>2, <2>1 DEF ZoneInv, PluginInv, HasPlugins
  <2>2. CASE WorkerStep(v)
    BY <1>0, <1>2, <2>2, WorkerStays, WorkerZones DEF HasPlugins
  <2>3. ASSUME NEW w \in Worker, WorkerStep(w), w # v
        PROVE  UNCHANGED worker[v]
    BY <1>0, <2>3, WorkerTyped DEF WorkerStep, Become, TypeOK
  <2>4. MasterStep \/ UNCHANGED vars => UNCHANGED worker[v]
    BY <1>0, MasterTyped DEF vars
  <2> QED
    BY <2>1, <2>2, <2>3, <2>4, Steps
<1>3. ASSUME NEW v \in Worker, worker'[v] # Nil
      PROVE  HasZones(worker[v])'
  <2>1. worker'[v] \in Process
    BY <1>0, <1>3 DEF TypeOK
  <2> QED
    BY <1>1, <1>2, <1>3, <2>1
<1> QED
  BY <1>0, <1>3 DEF ZoneInv

(* A worker under the first configuration with zones finds each of them by *)
(* name, and one without a name, before its search meets freed memory.     *)
THEOREM Finds == Spec => []FindsOwnZones
<1>1. ZoneInv => FindsOwnZones
  <2> SUFFICES ASSUME ZoneInv, NEW w \in Worker, Exists(w),
                      FirstWithZones(worker[w].cycle), NEW n \in Own(worker[w].cycle)
               PROVE  /\ Search(worker[w].list, {worker[w].cycle}, n) = "found"
                      /\ Lookup(worker[w].list, n)
                           = [name |-> n, cycle |-> worker[w].cycle]
                      /\ Search(worker[w].list, {worker[w].cycle}, Nil) = "found"
                      /\ Lookup(worker[w].list, Nil).cycle = worker[w].cycle
    BY DEF FindsOwnZones
  <2>1. TypeOK /\ worker[w] \in Process /\ HasZones(worker[w])
    BY DEF ZoneInv, PluginInv, TypeOK, Exists
  <2>2. worker[w].list \in List /\ worker[w].cycle \in Cycle
    BY <2>1, Members DEF HasZones
  <2> QED
    BY <2>1, <2>2, SearchFinds DEF HasZones
<1> QED
  BY <1>1, ZoneInvInit, ZoneInvNext, PTL DEF Spec

(* Under it, the zone an object keeps is one of the worker's configuration *)
(* as long as its callers name zones of theirs.                            *)
THEOREM Points == Spec => []PointsAtOwnZone
<1>1. ZoneInv => PointsAtOwnZone
  BY DEF ZoneInv, PointsAtOwnZone, HasZones, Exists
<1> QED
  BY <1>1, ZoneInvInit, ZoneInvNext, PTL DEF Spec
=============================================================================
