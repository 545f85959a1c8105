---------------------------- MODULE SeasonLedger -----------------------------
(***************************************************************************)
(* What competitive progression promises, whatever workers, requests and   *)
(* transactions run it: seasons follow one another; a match is rated once, *)
(* in the season that is being played, for all its players together; and   *)
(* nothing else moves a rating that a player already has.                  *)
(***************************************************************************)
EXTENDS Integers

CONSTANTS Users, Matches, Team, InitialRating, AbandonPenalty, Elo, MaxSeason

VARIABLES
    current,    \* the season that is being played
    ratedIn,    \* the season each match was rated in, 0 before it is
    rating      \* rating[s][u]: what u has in season s, or NoRating

NoRating == -1

LedgerInit ==
    /\ current = 1
    /\ ratedIn = [m \in Matches |-> 0]
    /\ rating = [s \in 1..MaxSeason |-> [u \in Users |-> NoRating]]

(* A player without a rating is rated from the initial one; who left the    *)
(* match pays for it, and no rating falls below zero.                       *)
From(s, u)  == IF rating[s][u] = NoRating THEN InitialRating ELSE rating[s][u]
AtLeastZero(n) == IF n < 0 THEN 0 ELSE n

Rate(m) ==
    /\ ratedIn[m] = 0
    /\ ratedIn' = [ratedIn EXCEPT ![m] = current]
    /\ \E winner \in 0..2 : \E delta \in Elo[winner] :
       \E leavers \in SUBSET (Team[m][1] \cup Team[m][2]) :
          /\ \A u, v \in leavers : u = v
          /\ rating' = [rating EXCEPT ![current] = [u \in Users |->
                LET penalty == IF u \in leavers THEN AbandonPenalty ELSE 0 IN
                IF u \in Team[m][1]      THEN AtLeastZero(From(current, u) + delta[1] - penalty)
                ELSE IF u \in Team[m][2] THEN AtLeastZero(From(current, u) + delta[2] - penalty)
                ELSE rating[current][u]]]
    /\ UNCHANGED current

(* Players get a first rating of a season, early or late.                   *)
Enter(s) ==
    /\ \A u \in Users : rating[s][u] # NoRating => rating'[s][u] = rating[s][u]
    /\ \A t \in 1..MaxSeason \ {s} : rating'[t] = rating[t]
    /\ UNCHANGED <<current, ratedIn>>

TurnOver ==
    /\ current < MaxSeason /\ current' = current + 1
    /\ UNCHANGED <<ratedIn, rating>>

LedgerNext == TurnOver \/ (\E m \in Matches : Rate(m)) \/ (\E s \in 1..current : Enter(s))

Ledger == LedgerInit /\ [][LedgerNext]_<<current, ratedIn, rating>>
=============================================================================
