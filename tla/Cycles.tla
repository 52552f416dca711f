-------------------------------- MODULE Cycles --------------------------------
(***************************************************************************)
(* nginx's configurations.  Each is read into a pool of its own, a cycle,  *)
(* which is freed when the configuration is refused or replaced.  Cycles   *)
(* are numbered in the order they are read.                                *)
(***************************************************************************)
EXTENDS Integers, Sequences, SequencesExt

CONSTANTS
  Cycle,      \* numbers of the configurations read
  Nil         \* none: no list, no zone, no manager, no worker, no cycle

ASSUME CycleAssumption == Cycle \subseteq Nat \ {0} /\ Nil \notin Cycle
=============================================================================
