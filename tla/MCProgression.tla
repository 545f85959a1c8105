---------------------------- MODULE MCProgression ----------------------------
(* Two players who meet twice.                                              *)
EXTENDS Progression, TLC

CONSTANTS m1, m2

MCTeam == m1 :> (1 :> {1} @@ 2 :> {2}) @@ m2 :> (1 :> {2} @@ 2 :> {1})
MCElo == 0 :> {<<0, 0>>} @@ 1 :> {<<2, -2>>} @@ 2 :> {<<-2, 2>>}
=============================================================================
