--------------------------- MODULE MCRuntimeQueue ---------------------------
(* Small instances of RuntimeQueue for TLC. *)
EXTENDS RuntimeQueue, TLC

CONSTANTS j1, j2, t1, w1, w2

OneTicket == [j \in Jobs |-> t1]
Symmetric == Permutations(Workers)
=============================================================================
