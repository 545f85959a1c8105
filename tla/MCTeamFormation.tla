--------------------------- MODULE MCTeamFormation ---------------------------
(* TeamFormation with solo rosters. *)
EXTENDS TeamFormation, TLC

CONSTANTS u1, u2, u3, w1, w2

MCUsers     == {u1, u2, u3}
MCRosters   == {{u} : u \in MCUsers}
MCWorkers   == {w1, w2}
MCBlockable == {u3}

TwoUsers     == {u1, u2}
TwoRosters   == {{u} : u \in TwoUsers}
NoneBlocked  == {}

Requests == Permutations(MCWorkers) \cup Permutations({u1, u2})
=============================================================================
