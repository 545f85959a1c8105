----------------------------- MODULE GameRounds -----------------------------
(***************************************************************************)
(* One game of package games: its rounds, guesses and players, as a record *)
(* and the operators on it that the transactions of games/repository.go    *)
(* are made of.  MatchGame, HostedRoom and SoloGame keep such a record in  *)
(* a variable and add the callers, the row locks and the lifecycle hooks.  *)
(*                                                                         *)
(* Locations, coordinates and times are left out.  phase is where the      *)
(* clock stands for the active round: before its starts_at ("countdown"),  *)
(* before its ends_at ("open"), or past it ("due").                        *)
(***************************************************************************)
EXTENDS Integers, FiniteSets, FiniteSetsExt, Functions

CONSTANTS
    Players,    \* rows of game_players
    Rounds,     \* number of rounds of a game
    MaxScore    \* scores of one guess are 0..MaxScore

ASSUME PlayersAssumption == IsFiniteSet(Players)
ASSUME RoundsAssumption == Rounds \in Nat \ {0}
ASSUME ScoreAssumption == MaxScore \in Nat

NoGuess  == -1      \* no row for the round and the player
TimedOut == -2      \* a row with timed_out and score 0

Points(x) == IF x > 0 THEN x ELSE 0

GameStatuses   == {"pending", "active", "completed", "abandoned"}
RoundStatuses  == {"pending", "active", "completed", "cancelled"}
PlayerStatuses == {"absent", "active", "disconnected", "left", "kicked"}

Games == [status : GameStatuses,
          round  : [1..Rounds -> RoundStatuses],
          guess  : [1..Rounds -> [Players -> -2..MaxScore]],
          total  : [Players -> Nat],
          player : [Players -> PlayerStatuses],
          phase  : {"countdown", "open", "due"}]

(* A game whose first round is active, with players P and the clock at ph.  *)
NewGame(P, ph) ==
    [status |-> "active",
     round  |-> [r \in 1..Rounds |-> IF r = 1 THEN "active" ELSE "pending"],
     guess  |-> [r \in 1..Rounds |-> [p \in Players |-> NoGuess]],
     total  |-> [p \in Players |-> 0],
     player |-> [p \in Players |-> IF p \in P THEN "active" ELSE "absent"],
     phase  |-> ph]

ActiveRounds(g)  == {r \in 1..Rounds : g.round[r] = "active"}
PendingRounds(g) == {r \in 1..Rounds : g.round[r] = "pending"}

(* GetCurrentRound: the active round, or else the next pending one.         *)
CurrentRound(g) ==
    IF ActiveRounds(g) # {} THEN Min(ActiveRounds(g))
    ELSE IF PendingRounds(g) # {} THEN Min(PendingRounds(g)) ELSE 0

(* The two counts of multiplayerProgress, as the sets they count.           *)
Submitted(g, r) == {p \in Players : g.guess[r][p] # NoGuess}
Eligible(g)     == {p \in Players : g.player[p] = "active"}

(* Whom insertMissingMultiplayerGuesses gives a zero.                       *)
Missing(g, r) == Eligible(g) \ Submitted(g, r)

AllSubmitted(g, r) ==
    Eligible(g) # {} /\ Cardinality(Submitted(g, r)) >= Cardinality(Eligible(g))

InsertGuess(g, r, p, s) ==
    [g EXCEPT !.guess[r][p] = s, !.total[p] = @ + Points(s)]

ZeroFill(g, r, M) ==
    [g EXCEPT !.guess[r] = [p \in Players |-> IF p \in M THEN TimedOut ELSE @[p]]]

(* completeMultiplayerRound: the next pending round opens, or the game is   *)
(* completed.                                                               *)
CompleteRound(g, r) ==
    LET done == [g EXCEPT !.round[r] = "completed"] IN
    IF PendingRounds(done) = {} THEN [done EXCEPT !.status = "completed"]
    ELSE [done EXCEPT !.round[Min(PendingRounds(done))] = "active", !.phase = "open"]

(* What forfeits and abandonments do to the game's own rows.                *)
AbandonGame(g) ==
    IF g.status \notin {"pending", "active"} THEN g
    ELSE [g EXCEPT !.status = "abandoned",
                   !.round = [r \in 1..Rounds |->
                                IF @[r] \in {"pending", "active"} THEN "cancelled" ELSE @[r]]]

(* SumTeamTotals over the players T of one slot, and the scores themselves. *)
TotalOf(g, T)  == SumFunctionOnSet(g.total, T)
ScoredBy(g, p) == SumFunction([r \in 1..Rounds |-> Points(g.guess[r][p])])

(* Bug variant: a three-way comparison is taken for the slot.               *)
DecideTeamResult_Compare(one, two) == IF one > two THEN 1 ELSE IF two > one THEN -1 ELSE 0

(* DecideTeamResult: 0 is a draw.                                           *)
DecideTeamResult(one, two) == IF one > two THEN 1 ELSE IF two > one THEN 2 ELSE 0
=============================================================================
