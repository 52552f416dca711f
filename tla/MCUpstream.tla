---------------------------- MODULE MCUpstream ----------------------------
(***************************************************************************)
(* A location whose requests name the plugin p1 or p2, or set no name at   *)
(* all; those in InMemory are subrequests of another location.             *)
(***************************************************************************)
EXTENDS Upstream

CONSTANTS p1, p2,    \* the plugins
          NamesTwo,  \* the requests whose plugin_name is p2's
          Unnamed    \* the requests without a plugin_name

MCNamed ==
  [r \in Request |->
     IF r \in Unnamed THEN Nil ELSE IF r \in NamesTwo THEN p2 ELSE p1]
=============================================================================
