---------------------------- MODULE PluginManager ----------------------------
(***************************************************************************)
(* The plugins (module_plugin): the master makes a manager for every       *)
(* configuration, loads the plugins the configuration names and calls      *)
(* their InitMaster; each worker is forked with a copy of the manager and  *)
(* calls InitProcess and ExitProcess of its own copies.                    *)
(*                                                                         *)
(* Abstractions.  A plugin is the name its manager knows it by; names are  *)
(* numbers, in the order in which std::map visits them.  A manager is      *)
(* known by the configuration it was made for.  Whether a shared object    *)
(* can be opened and an Init call succeeds is left open.                   *)
(***************************************************************************)
EXTENDS Cycles

CONSTANT PluginName    \* the names of plugins

VARIABLES
  conf,         \* conf[c]: the plugin_conf array of configuration c
  manager,      \* plugin_manager in the master
  loaded,       \* loaded[c]: the names in the manager made for c
  inited,       \* inited[c]: those whose InitMaster succeeded (history)
  told          \* told[c]: those whose ExitMaster was called (history)

plugins == <<conf, manager, loaded, inited, told>>

ASSUME PluginNameAssumption == PluginName \subseteq Nat

PluginInit ==
  /\ conf = [c \in Cycle |-> <<>>]
  /\ manager = Nil
  /\ loaded = [c \in Cycle |-> {}]
  /\ inited = [c \in Cycle |-> {}]
  /\ told = [c \in Cycle |-> {}]

(* ngx_http_plugin_set_conf: one plugin_conf_path directive.               *)
PluginConf(c, p) ==
  /\ conf' = [conf EXCEPT ![c] = Append(@, p)]
  /\ UNCHANGED <<manager, loaded, inited, told>>

(* Mutant: the manager that is there already is kept.                      *)
CreateManagerOnce(c, k) ==
  /\ manager' = IF manager = Nil THEN c ELSE manager
  /\ loaded' = [loaded EXCEPT ![manager'] = ToSet(SubSeq(conf[c], 1, k))]
  /\ UNCHANGED <<conf, inited, told>>

(* Mutant: a failure's code is stored where the pointer should be.         *)
CreateManagerCode(c, k) ==
  /\ manager' = IF k < Len(conf[c]) THEN -1 ELSE c
  /\ loaded' = [loaded EXCEPT ![c] = ToSet(SubSeq(conf[c], 1, k))]
  /\ UNCHANGED <<conf, inited, told>>

(* plugin_create_manager: a new manager over the old one, which nobody     *)
(* deletes, and a LoadPlugin per directive up to the first k, all of them  *)
(* or as many as load.  A second plugin of a name is loaded and dropped.   *)
CreateManager(c, k) ==
  /\ manager' = c
  /\ loaded' = [loaded EXCEPT ![c] = ToSet(SubSeq(conf[c], 1, k))]
  /\ UNCHANGED <<conf, inited, told>>

(* The plugins a loop over the map passes before p.                        *)
Before(c, p) == {q \in loaded[c] : q < p}

(* PluginInitMaster, when every call succeeds ...                          *)
InitMaster ==
  /\ inited' = [inited EXCEPT ![manager] = loaded[manager]]
  /\ UNCHANGED <<conf, manager, loaded, told>>

(* ... and when p's fails: the loop ends there.                            *)
InitMasterFails(p) ==
  /\ p \in loaded[manager]
  /\ inited' = [inited EXCEPT ![manager] = Before(manager, p)]
  /\ UNCHANGED <<conf, manager, loaded, told>>

(* plugin_exit_master: ExitMaster for every plugin of the manager that is  *)
(* there now; then the manager is deleted.                                 *)
ExitMaster ==
  /\ told' = [told EXCEPT ![manager] = loaded[manager]]
  /\ manager' = Nil
  /\ UNCHANGED <<conf, loaded, inited>>

(* GetPlugin in a process whose manager is the one made for c.             *)
GetPlugin(c, p) == p \in loaded[c]

PluginTypeOK ==
  /\ conf \in [Cycle -> Seq(PluginName)]
  /\ manager \in Cycle \cup {Nil}
  /\ loaded \in [Cycle -> SUBSET PluginName]
  /\ inited \in [Cycle -> SUBSET PluginName]
  /\ told \in [Cycle -> SUBSET PluginName]
=============================================================================
