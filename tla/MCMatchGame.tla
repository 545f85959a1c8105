----------------------------- MODULE MCMatchGame -----------------------------
(* MatchGame: one against one, and two against two. *)
EXTENDS MatchViews, TLC

CONSTANTS p1, p2, p3, p4, q1, q2, sweeper

OnePlayers == {p1, p2}
One        == {p1}
Other      == {p2}

TwoPlayers == {p1, p2, p3, p4}
FirstTwo   == {p1, p2}
LastTwo    == {p3, p4}

TwoRequests == {q1, q2}
OneRequest  == {q1}
OneReader   == {q2}
Nobody      == {}

OneScores == [p \in OnePlayers |-> {1}]
TwoScores == [p \in TwoPlayers |-> {1}]
=============================================================================
