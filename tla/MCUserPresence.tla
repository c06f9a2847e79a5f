--------------------------- MODULE MCUserPresence ---------------------------
(* Constant values for checking UserPresence with TLC.                     *)
EXTENDS UserPresence

\* A node with a user on each of two homeservers, and someone on the second
\* server who took the node's name.
MCAddressOf == [u \in Users |-> "node"]
MCServerOf == [u \in Users |-> IF u = "u1" THEN "s1" ELSE "s2"]
==============================================================================
