---------------------------- MODULE MatchContest ----------------------------
(***************************************************************************)
(* What a match between two teams promises, whatever requests, sweeps and  *)
(* hooks run it: scores only grow while it is undecided, it is decided     *)
(* once, and the competitive rating, if there is one, is for the result    *)
(* that was decided.                                                       *)
(***************************************************************************)
EXTENDS Naturals

CONSTANTS MaxTotal      \* what one step can add to a team's score

VARIABLES
    score,      \* score[t]: points of team t
    verdict,    \* Undecided, or how the match ended and which team won
    rating      \* Undecided, or the verdict the players were rated for

Teams == {1, 2}

Undecided == [by |-> "none", winner |-> 0]
ByScores  == [by |-> "score",
              winner |-> IF score[1] > score[2] THEN 1 ELSE IF score[2] > score[1] THEN 2 ELSE 0]

ContestInit ==
    /\ score = [t \in Teams |-> 0]
    /\ verdict = Undecided
    /\ rating = Undecided

(* One team scores, or nobody does when a round runs out; the last round's  *)
(* end decides the match by the scores it leaves.                           *)
Play ==
    /\ verdict = Undecided
    /\ \E t \in Teams, s \in 0..MaxTotal : score' = [score EXCEPT ![t] = @ + s]
    /\ verdict' \in {Undecided, ByScores'}

(* A member of the other team leaves, or everybody does.                    *)
BreakOff ==
    /\ verdict = Undecided
    /\ verdict' \in [by : {"forfeit"}, winner : Teams] \cup {[by |-> "abandoned", winner |-> 0]}
    /\ UNCHANGED score

Rate == rating = Undecided /\ rating' = verdict' /\ verdict' # Undecided

ContestNext ==
    /\ Play \/ BreakOff \/ UNCHANGED <<score, verdict>>
    /\ Rate \/ UNCHANGED rating

Contest == ContestInit /\ [][ContestNext]_<<score, verdict, rating>>
=============================================================================
