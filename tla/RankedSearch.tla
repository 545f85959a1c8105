---------------------------- MODULE RankedSearch ----------------------------
(* Who may queue together and who may meet in ranked team search:               *)
(* matchmaking/rating_window.go and service.go (the spread of a party, its      *)
(* average, the window it is shown), the claim script's own window              *)
(* (platform/redis/matchmaking_v2.go) and the tiers competitive hands over      *)
(* (competitive/rating.go).  Waiting is counted in half-minutes, the step of    *)
(* the window.                                                                  *)
EXTENDS Integers, FiniteSets, FiniteSetsExt, Functions

CONSTANTS
    Ratings,      \* hidden ratings of the players
    TeamSize,     \* players of a party
    MaxDelta,     \* config: the widest window of the claim script
    MaxWait       \* bound on the half-minutes a ticket waits

RatingWindowInitial == 100
RatingWindowStep == 50
RatingWindowCap == 400
MaxNamedRankSpread == 2
Bands == 7
BandWidth == 300

ASSUME SearchAssumption ==
    /\ Ratings \subseteq Nat /\ TeamSize \in Nat \ {0} /\ MaxWait \in Nat
    /\ MaxDelta \in RatingWindowInitial..RatingWindowCap

Sought == {"one", "two"}

VARIABLES
    team,     \* per party: its members' [rating, placed], as positions of a roster
    search,   \* per party: "none", "searching" or "met"
    average,  \* team_avg_rating of the ticket
    waited    \* half-minutes since the ticket was queued

searchVars == <<team, search, average, waited>>

Standing == [rating : Ratings, placed : BOOLEAN]

SearchInit ==
    /\ team \in [Sought -> [1..TeamSize -> Standing]]
    /\ search = [s \in Sought |-> "none"]
    /\ average = [s \in Sought |-> 0]
    /\ waited = [s \in Sought |-> 0]

(* competitive: Scout is 1, Geo Master 7; 0 while placements hide the rank. *)
StandingTier(m) == IF m.placed THEN Min({m.rating \div BandWidth + 1, Bands}) ELSE 0

(* matchmaking: the same bands from 0, Geo Master is 6. *)
NamedRankTier(r) == Min({r \div BandWidth, Bands - 1})

(* The handed-over tier when there is one, the own reading of the rating else. *)
EffectiveNamedRankTier(m) == IF StandingTier(m) > 0 THEN StandingTier(m) ELSE NamedRankTier(m.rating)

Roster(s) == {team[s][i] : i \in 1..TeamSize}

PartyNamedRankSpreadOK(s) ==
    \A m, n \in Roster(s) : EffectiveNamedRankTier(m) - EffectiveNamedRankTier(n) <= MaxNamedRankSpread

(* TeamAverageRating truncates. *)
TeamAverageRating(s) == SumFunctionOnSet([i \in 1..TeamSize |-> team[s][i].rating], 1..TeamSize) \div TeamSize

(* JoinQueue, teamAverageRating: a party spread too wide is refused, the        *)
(* others' ticket carries their average.                                        *)
JoinRanked(s) ==
    /\ search[s] = "none"
    /\ PartyNamedRankSpreadOK(s)
    /\ search' = [search EXCEPT ![s] = "searching"]
    /\ average' = [average EXCEPT ![s] = TeamAverageRating(s)]
    /\ UNCHANGED <<team, waited>>

(* RatingWindowHalfWidth, and the claim script's halfWidth under its own cap. *)
HalfWidth(w, cap) == Min({RatingWindowInitial + RatingWindowStep * w, cap})

(* RatingWindowForAverage: the window a ticket's status shows. *)
Shown(s) == [low |-> Max({0, average[s] - HalfWidth(waited[s], RatingWindowCap)}),
             high |-> average[s] + HalfWidth(waited[s], RatingWindowCap)]

(* The claim script: within the wider of the two windows.                      *)
Compatible(s, t) ==
    Max({average[s] - average[t], average[t] - average[s]})
        <= Max({HalfWidth(waited[s], MaxDelta), HalfWidth(waited[t], MaxDelta)})

ClaimRanked(s, t) ==
    /\ s # t /\ search[s] = "searching" /\ search[t] = "searching"
    /\ Compatible(s, t)
    /\ search' = [u \in Sought |-> "met"]
    /\ UNCHANGED <<team, average, waited>>

HalfMinute(s) ==
    /\ search[s] = "searching" /\ waited[s] < MaxWait
    /\ waited' = [waited EXCEPT ![s] = @ + 1]
    /\ UNCHANGED <<team, search, average>>

SearchNext ==
    \/ \E s \in Sought : JoinRanked(s)
    \/ \E s, t \in Sought : ClaimRanked(s, t)
    \/ \E s \in Sought : HalfMinute(s)

SearchSpec == SearchInit /\ [][SearchNext]_searchVars

----------------------------------------------------------------------------
(* The ticket holds ratings and waits in range. *)
SearchTypeOK ==
    /\ team \in [Sought -> [1..TeamSize -> Standing]]
    /\ search \in [Sought -> {"none", "searching", "met"}]
    /\ average \in [Sought -> Nat] /\ waited \in [Sought -> 0..MaxWait]

(* What the claim script pairs agrees with what a searching party is shown: of  *)
(* two parties that meet, the one that waited longer has the other's average    *)
(* inside its window.                                                           *)
MeetsInsideWindow ==
    \A s, t \in Sought :
        (s # t /\ search[s] = "met" /\ waited[s] >= waited[t])
            => average[t] >= Shown(s).low /\ average[t] <= Shown(s).high

(* No party searches whose highest and lowest member are more than two named    *)
(* ranks apart, placed or not (spec.md, FR-021).                                *)
PartySpreadKept ==
    \A s \in Sought : search[s] # "none" =>
        \A m, n \in Roster(s) : NamedRankTier(m.rating) - NamedRankTier(n.rating) <= MaxNamedRankSpread
=============================================================================
