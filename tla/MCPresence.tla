----------------------------- MODULE MCPresence -----------------------------
(* A participant with two connections, an opponent who may leave, and the   *)
(* sweepers of two API processes.                                           *)
EXTENDS Presence

CONSTANTS a, b

MCOwner == [s \in Sockets |-> a]
MCTeamOf == [u \in Users |-> IF u = a THEN 1 ELSE 2]
=============================================================================
