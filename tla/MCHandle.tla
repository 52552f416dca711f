------------------------------- MODULE MCHandle -------------------------------
(***************************************************************************)
(* Every query string of a few characters that mean something, and longer  *)
(* ones that begin like a parameter; bodies of one or two buffers.         *)
(***************************************************************************)
EXTENDS Handle

CONSTANTS Length,     \* of the short query strings
          Extra       \* of what may follow "a="

(* Percent, plus, equal, ampersand, space, tab and a hexadecimal digit.    *)
MCCharacter == {Percent, Plus, Equal, Amp, Space, 97}

MCArgs == UNION {[1 .. n -> MCCharacter] : n \in 0 .. Length}
            \cup {<<97, Equal>> \o s : s \in [1 .. Extra -> MCCharacter]}
            \cup {<<97, Tab, Equal, 97>>}

MCBuffer(kind, size) == [kind |-> kind, size |-> size]

(* nginx keeps a body in memory, in a file, or its beginning in memory and *)
(* the rest in a file.                                                     *)
MCBodies ==
  {<<>>}
    \cup {<<MCBuffer(k, n)>> : k \in {"memory", "file"}, n \in 1 .. 2}
    \cup {<<MCBuffer("memory", m), MCBuffer(k, n)>> :
            k \in {"memory", "file"}, m \in 1 .. 2, n \in 1 .. 2}
=============================================================================
