------------------------------ MODULE Searching ------------------------------
(* The searches beside the team queue: the pair queue of ranked 1v1 and the     *)
(* windows of ranked team search.                                               *)
EXTENDS PairQueue, RankedSearch

(* What a searching player is told is true: the queue leads to the player, or a *)
(* claim does that will be resolved, and of two parties that meet the one that  *)
(* waited longer has the other inside the window it is shown.                   *)
SearchersAreServed == SearchersAreFound /\ MeetsInsideWindow
==============================================================================
