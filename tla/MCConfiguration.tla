--------------------------- MODULE MCConfiguration ---------------------------
(***************************************************************************)
(* A few configurations of a few directives.  The workers' slots and the   *)
(* names of zones are interchangeable; plugins are ordered.                *)
(***************************************************************************)
EXTENDS Configuration

MCSymmetry == Permutations(Worker) \cup Permutations(Name)
=============================================================================
