-------------------------- MODULE MCTicketSegments --------------------------
(* Small instances of TicketSegments for TLC.                               *)
EXTENDS TicketSegments

Distinct == [t \in 1..NTurns |-> t]
Shared == [t \in 1..NTurns |-> 1]
=============================================================================
