------------------------------ MODULE MatchGame ------------------------------
(***************************************************************************)
(* A matchmade game and its durable match: guesses and round deadlines     *)
(* (games/service.go, games/repository.go), the hooks that carry a game's  *)
(* end into the match row (matchmaking/lifecycle.go), and the transactions *)
(* that end the match first and the game with it (matchplay/repository.go).*)
(*                                                                         *)
(* Both sides lock rows FOR UPDATE, in opposite orders: a guess or a       *)
(* deadline locks the game and its round and then, in the last round, the  *)
(* match; a leave or an inactivity closure locks the match and then the    *)
(* rounds and the game.  Each worker is one transaction in progress, its   *)
(* pc the next statement that can wait or that reads what others change,   *)
(* its holds the rows it has locked.  Writes appear at the commit.         *)
(* PostgreSQL aborts one transaction of a cycle of waits (BreakDeadlock).  *)
(***************************************************************************)
EXTENDS GameRounds

CONSTANTS
    TeamOne, TeamTwo,   \* game_players.team_slot: the two sides' players
    Requests,           \* API requests in progress at one time
    Sweeper,            \* the deadline worker
    Modes,              \* playlists explored: a subset of {"casual", "ranked"}
    Scores,             \* what a guess of a player can score
    Flaky               \* players whose sockets come and go

ASSUME TeamsAssumption == TeamOne \cup TeamTwo = Players /\ TeamOne \cap TeamTwo = {}
ASSUME ModesAssumption == Modes \subseteq {"casual", "ranked"}
ASSUME ScoresAssumption == Scores \in [Players -> SUBSET (0..MaxScore)]
ASSUME FlakyAssumption == Flaky \subseteq Players

VARIABLES
    mode,       \* matches.playlist
    game,       \* the game's rows (GameRounds)
    match,      \* the match's row
    quit,       \* players whose match_players row has abandoned_at
    work        \* the transactions in progress

vars == <<mode, game, match, quit, work>>

Workers == Requests \cup {Sweeper}
Team(t) == IF t = 1 THEN TeamOne ELSE TeamTwo

Undecided == [by |-> "none", winner |-> 0]
Verdicts  == [by : {"none", "score", "forfeit", "abandoned"}, winner : 0..2]

Match == [status : {"active", "completed"},
          verdict : Verdicts,          \* result and winner_team_slot
          scores : Nat \X Nat,         \* team_one_score, team_two_score
          rated : Verdicts]            \* result given to the rating, at progression_finalized_at

Transaction ==
    [pc : {"idle", "lock", "count", "fill", "match", "end", "commit", "post"},
     op : {"none", "guess", "close", "leave", "inactive"},
     who : Players \cup {"nobody"}, rd : 0..Rounds, pts : 0..MaxScore,
     missing : SUBSET Players, closing : BOOLEAN, holds : SUBSET {"game", "match"}]

Idle == [pc |-> "idle", op |-> "none", who |-> "nobody", rd |-> 0, pts |-> 0,
         missing |-> {}, closing |-> FALSE, holds |-> {}]

MatchTypeOK ==
    /\ mode \in Modes
    /\ game \in Games
    /\ match \in Match
    /\ quit \subseteq Players
    /\ work \in [Workers -> Transaction]

(* CreateTeamFormationBundle, for both queues: match and game are active    *)
(* from the start, and ranked modes count down to the first round.          *)
Init ==
    /\ mode \in Modes
    /\ game = NewGame(Players, IF mode = "ranked" THEN "countdown" ELSE "open")
    /\ match = [status |-> "active", verdict |-> Undecided, scores |-> <<0, 0>>,
                rated |-> Undecided]
    /\ quit = {}
    /\ work = [w \in Workers |-> Idle]

At(w, pc)    == work[w].pc = pc
Set(w, r)    == work' = [work EXCEPT ![w] = r]
Goto(w, p)   == Set(w, [work[w] EXCEPT !.pc = p])
Reply(w)     == Set(w, Idle)
Free(w, row) == \A v \in Workers \ {w} : row \notin work[v].holds
Lock(w, row, p) == Set(w, [work[w] EXCEPT !.pc = p, !.holds = @ \cup {row}])

Live == match.status = "active"
Over == game.status \in {"completed", "abandoned"}

-----------------------------------------------------------------------------
(* Requests, up to their first lock.                                        *)

(* CanGuessBeforeStart and ends_at, by the time read before the transaction.*)
GuessAllowed == IF mode = "ranked" THEN game.phase = "open" ELSE TRUE

(* submitPrivateRoomGuess: the player guesses in the current round, once.   *)
StartGuess(w, p, s) ==
    LET r == CurrentRound(game) IN
    /\ At(w, "idle") /\ game.status = "active" /\ r # 0
    /\ GuessAllowed /\ p \notin Submitted(game, r)
    /\ Set(w, [Idle EXCEPT !.pc = "lock", !.op = "guess", !.who = p, !.rd = r, !.pts = s])
    /\ UNCHANGED <<mode, game, match, quit>>

RoundDue == game.status = "active" /\ ActiveRounds(game) # {} /\ game.phase = "due"

BeginClose(w) == Set(w, [Idle EXCEPT !.pc = "lock", !.op = "close"])

(* GetCurrentRound, or a late guess, finds the round past its end.          *)
StartClose(w) ==
    /\ At(w, "idle") /\ RoundDue
    /\ BeginClose(w)
    /\ UNCHANGED <<mode, game, match, quit>>

(* formationGameMode: games.mode of a match (casual_ and the format).       *)
GameMode == IF mode = "ranked" THEN "ranked" ELSE "casual_solo"

(* ListExpiredTimedMultiplayerGameIDs: the modes in its condition.          *)
SweptModes == {"ranked_solo", "ranked_duo", "ranked_squad", "party_lobby", "private_room"}

(* A tick of the deadline worker closes the due rounds of the games listed. *)
SweepDeadlines ==
    /\ At(Sweeper, "idle")
    /\ IF RoundDue /\ GameMode \in SweptModes THEN BeginClose(Sweeper) ELSE UNCHANGED work
    /\ UNCHANGED <<mode, game, match, quit>>

(* ExplicitLeaveTx of p, or ForfeitDisconnectTx of a player who, when the   *)
(* sweep looked, was disconnected.                                          *)
StartLeave(w, p) ==
    /\ At(w, "idle") /\ Live
    /\ Set(w, [Idle EXCEPT !.pc = "match", !.op = "leave", !.who = p])
    /\ UNCHANGED <<mode, game, match, quit>>

(* The inactivity sweep lists casual matches.                               *)
StartInactive(w) ==
    /\ At(w, "idle") /\ Live /\ mode = "casual"
    /\ Set(w, [Idle EXCEPT !.pc = "match", !.op = "inactive"])
    /\ UNCHANGED <<mode, game, match, quit>>

-----------------------------------------------------------------------------
(* Bug variant: the game's status is not looked at again under its lock.    *)
GuessRefused_NoStatus(r, p) ==
    p \in Submitted(game, r)

(* The checks of SubmitMultiplayerGuessTx under the game's and the round's  *)
(* locks, and the unique guess of a player and a round.                     *)
GuessRefused(r, p) ==
    game.status # "active" \/ game.round[r] # "active" \/ p \in Submitted(game, r)

(* Bug variant: a round that nobody has played yet is left open.            *)
CloseRefused_Unplayed ==
    game.status # "active" \/ ActiveRounds(game) = {} \/ game.phase # "due"
        \/ Submitted(game, CurrentRound(game)) = {}

(* The checks of CloseExpiredMultiplayerRound under the same locks.         *)
CloseRefused ==
    game.status # "active" \/ ActiveRounds(game) = {} \/ game.phase # "due"

LockGame(w) ==
    /\ At(w, "lock") /\ Free(w, "game")
    /\ LET r == work[w]
           held == [r EXCEPT !.holds = {"game"}] IN
       IF r.op = "guess" THEN
            IF GuessRefused(r.rd, r.who) THEN Reply(w)
            ELSE Set(w, [held EXCEPT !.pc = "count"])
       ELSE IF CloseRefused THEN Reply(w)
       ELSE Set(w, [held EXCEPT !.pc = "fill", !.rd = CurrentRound(game), !.closing = TRUE,
                                !.missing = Missing(game, CurrentRound(game))])
    /\ UNCHANGED <<mode, game, match, quit>>

(* multiplayerProgress, the transaction's own guess included.               *)
Count(w) ==
    /\ At(w, "count")
    /\ LET r == work[w]
           all == AllSubmitted(InsertGuess(game, r.rd, r.who, r.pts), r.rd) IN
       Set(w, [r EXCEPT !.pc = IF all THEN "fill" ELSE "commit", !.closing = all])
    /\ UNCHANGED <<mode, game, match, quit>>

LastRound(r) == PendingRounds(game) = {} /\ ActiveRounds(game) = {r}

(* insertMissingMultiplayerGuesses of completeMultiplayerRound; the last    *)
(* round goes on to the match.                                              *)
Fill(w) ==
    /\ At(w, "fill")
    /\ LET r == work[w] IN
       Set(w, [r EXCEPT !.missing = @ \cup (Missing(game, r.rd) \ {r.who}),
                        !.pc = IF LastRound(r.rd) THEN "match" ELSE "commit"])
    /\ UNCHANGED <<mode, game, match, quit>>

(* Bug variant: a leave goes on although the match has ended meanwhile.     *)
LeaveRefused_Once(p) == p \in quit

(* applyForfeitTx, CloseInactiveCasualTx: terminal replay under the lock.   *)
LeaveRefused(p) == ~Live \/ p \in quit

(* matchByGameIDForUpdate of applyTerminalResult; the first lock of leaves. *)
LockMatch(w) ==
    /\ At(w, "match") /\ Free(w, "match")
    /\ IF work[w].op \in {"guess", "close"} THEN Lock(w, "match", "commit")
       ELSE IF LeaveRefused(work[w].who) THEN Reply(w) ELSE Lock(w, "match", "end")
    /\ UNCHANGED <<mode, game, match, quit>>

-----------------------------------------------------------------------------
(* The game's rows after a guess or a deadline.                             *)
PlayedGame(r) ==
    LET own == IF r.op = "guess" THEN InsertGuess(game, r.rd, r.who, r.pts) ELSE game IN
    IF r.closing THEN CompleteRound(ZeroFill(own, r.rd, r.missing), r.rd) ELSE own

ScoreVerdict(g) ==
    [by |-> "score",
     winner |-> DecideTeamResult(TotalOf(g, TeamOne), TotalOf(g, TeamTwo))]

(* tryFinalizeProgression: a ranked result is rated now, or left pending    *)
(* when the rating fails.                                                   *)
TryRate(m) ==
    {m} \cup IF mode = "ranked" /\ m.rated = Undecided
             THEN {[m EXCEPT !.rated = m.verdict]} ELSE {}

(* Bug variant: the scores are loaded before the last guess is written.     *)
TerminalMatch_Stale(g) ==
    IF match.status = "completed" /\ match.rated # Undecided THEN {match}
    ELSE TryRate([match EXCEPT !.status = "completed", !.verdict = ScoreVerdict(game),
                               !.scores = <<TotalOf(game, TeamOne), TotalOf(game, TeamTwo)>>])

(* applyTerminalResult, then ApplyGameCompletedInTx as a replay.            *)
TerminalMatch(g) ==
    IF match.status = "completed" /\ match.rated # Undecided THEN {match}
    ELSE TryRate([match EXCEPT !.status = "completed", !.verdict = ScoreVerdict(g),
                               !.scores = <<TotalOf(g, TeamOne), TotalOf(g, TeamTwo)>>])

(* A guess that completed the game still has its post-commit hooks to call. *)
Commit(w) ==
    /\ At(w, "commit")
    /\ game' = PlayedGame(work[w])
    /\ IF game'.status = "completed"
       THEN /\ match' \in TerminalMatch(game')
            /\ IF work[w].op = "guess" THEN Set(w, [Idle EXCEPT !.pc = "post"]) ELSE Reply(w)
       ELSE UNCHANGED match /\ Reply(w)
    /\ UNCHANGED <<mode, quit>>

(* OnGameCompleted after the commit: its own transaction, on the match row. *)
PostCommit(w) ==
    /\ At(w, "post") /\ Free(w, "match")
    /\ match' \in TryRate(match)
    /\ Reply(w)
    /\ UNCHANGED <<mode, game, quit>>

(* WinningTeamForForfeit.                                                   *)
Opponents(p) == IF p \in TeamOne THEN 2 ELSE 1

(* The rest of applyForfeitTx or CloseInactiveCasualTx, once the rounds and *)
(* the game can be updated.                                                 *)
EndMatch(w) ==
    LET r == work[w]
        leaver == IF r.op = "leave" THEN {r.who} ELSE {}
        out == IF r.op = "leave" THEN [by |-> "forfeit", winner |-> Opponents(r.who)]
               ELSE [by |-> "abandoned", winner |-> 0]
    IN
    /\ At(w, "end") /\ Free(w, "game")
    /\ match' = [match EXCEPT !.status = "completed", !.verdict = out]
    /\ quit' = quit \cup leaver
    /\ game' = AbandonGame([game EXCEPT !.player =
                  [p \in Players |-> IF p \in leaver THEN "left" ELSE @[p]]])
    /\ Reply(w)
    /\ UNCHANGED mode

-----------------------------------------------------------------------------
(* A guess holds its player's row from its update of total_score on.        *)
RowHeld(p) == \E w \in Workers : work[w].who = p /\ "game" \in work[w].holds

(* MarkConnectionState: no lock on the match or the game.                   *)
MarkConnection(p) ==
    /\ Live /\ p \notin quit /\ ~RowHeld(p)
    /\ game.player[p] \in {"active", "disconnected"}
    /\ game' = [game EXCEPT !.player[p] = IF @ = "active" THEN "disconnected" ELSE "active"]
    /\ UNCHANGED <<mode, match, quit, work>>

(* The retry worker of Progression, or a read that retries.                 *)
RetryRating ==
    /\ mode = "ranked" /\ match.status = "completed" /\ match.rated = Undecided
    /\ \A w \in Workers : "match" \notin work[w].holds
    /\ match' = [match EXCEPT !.rated = match.verdict]
    /\ UNCHANGED <<mode, game, quit, work>>

RoundOpens ==
    /\ game.status = "active" /\ game.phase = "countdown"
    /\ game' = [game EXCEPT !.phase = "open"]
    /\ UNCHANGED <<mode, match, quit, work>>

RoundFallsDue ==
    /\ game.status = "active" /\ mode = "ranked" /\ game.phase = "open"
    /\ game' = [game EXCEPT !.phase = "due"]
    /\ UNCHANGED <<mode, match, quit, work>>

WaitsFor(w, row) ==
    /\ ~Free(w, row)
    /\ At(w, IF row = "game" THEN "end" ELSE "match")

(* PostgreSQL aborts one of two transactions that wait for each other.      *)
BreakDeadlock(w) ==
    /\ \E v \in Workers \ {w}, mine, theirs \in {"game", "match"} :
         /\ mine \in work[w].holds /\ WaitsFor(w, theirs)
         /\ theirs \in work[v].holds /\ WaitsFor(v, mine)
    /\ Reply(w)
    /\ UNCHANGED <<mode, game, match, quit>>

Proceed(w) ==
    \/ LockGame(w) \/ Count(w) \/ Fill(w) \/ LockMatch(w)
    \/ Commit(w) \/ PostCommit(w) \/ EndMatch(w)

Next ==
    \/ \E w \in Requests, p \in Players : \E s \in Scores[p] : StartGuess(w, p, s)
    \/ \E w \in Requests : StartClose(w)
    \/ SweepDeadlines
    \/ \E w \in Requests, p \in Players : StartLeave(w, p)
    \/ \E w \in Requests : StartInactive(w)
    \/ \E w \in Workers : Proceed(w)
    \/ \E w \in Workers : BreakDeadlock(w)
    \/ \E p \in Flaky : MarkConnection(p)
    \/ RetryRating
    \/ RoundOpens
    \/ RoundFallsDue

(* Transactions run under a deadline, the clock goes on, and the deadline   *)
(* worker ticks for ever.  PostgreSQL serves the waiters of a row in turn,  *)
(* so nobody who waits for one is passed over for ever (SF); one worker at  *)
(* most waits for the match with the game locked, or the other way round.   *)
Fairness ==
    /\ \A w \in Workers : WF_vars(Proceed(w))
    /\ WF_vars(\E w \in Workers : BreakDeadlock(w))
    /\ SF_vars(\E w \in Workers : "game" \in work[w].holds /\ LockMatch(w))
    /\ SF_vars(\E w \in Workers : EndMatch(w))
    /\ SF_vars(\E w \in Workers : work[w].op = "close" /\ LockGame(w))
    /\ WF_vars(RoundOpens) /\ WF_vars(RoundFallsDue) /\ WF_vars(SweepDeadlines)

(* Clients of a match ask for its round, or guess too late, again and again *)
(* while the round is due; other requests do not keep them out for ever.    *)
ClientsPoll == SF_vars(\E w \in Requests : StartClose(w))

Spec == Init /\ [][Next]_vars /\ Fairness

-----------------------------------------------------------------------------
(* Correctness.                                                             *)

(* The game's rows and the match's row, written by two packages, tell one   *)
(* story after every transaction: the match has ended exactly when the game *)
(* has, by scores if the game was played to its end, and then the match row *)
(* has the teams' totals; totals are the sums of the guesses; nothing of a  *)
(* game that is over is still open (lifecycle.go:279, repository.go:1181,   *)
(* matchplay/repository.go:559).                                            *)
RowsAgree ==
    /\ match.status = "completed" <=> Over
    /\ game.status = "completed" <=> match.verdict.by = "score"
    /\ game.status = "completed" =>
         /\ match.scores = <<TotalOf(game, TeamOne), TotalOf(game, TeamTwo)>>
         /\ match.verdict = ScoreVerdict(game)
    /\ Over => ActiveRounds(game) \cup PendingRounds(game) = {}
    /\ game.status = "active" => Cardinality(ActiveRounds(game)) = 1
    /\ \A p \in Players : game.total[p] = ScoredBy(game, p)

Contest == INSTANCE MatchContest WITH
    MaxTotal <- MaxScore,
    score    <- <<TotalOf(game, TeamOne), TotalOf(game, TeamTwo)>>,
    verdict  <- match.verdict,
    rating   <- match.rated

(* The match is decided once, by the scores as they stand or by one side's  *)
(* leaving, and rated for that result only, although guesses, deadlines,    *)
(* forfeits and retries lock its rows in opposite orders                    *)
(* (lifecycle.go:304 overwrites a result that is not rated yet).            *)
ImplementsContest == Contest!Contest

(* A ranked match ends: no deadlock, abort, leaver or disconnection keeps   *)
(* its rounds from closing.  "Close expired Ranked rounds without requiring *)
(* client polling/submission" (quickstart.md:299): by the worker alone it   *)
(* does not, since its list has no game of mode ranked; with ClientsPoll it *)
(* does.                                                                    *)
RankedMatchEnds == mode = "ranked" ~> Over

(* "When closing via all-submitted, missing guesses should not exist"       *)
(* (repository.go:1183): a guess that closes its round leaves no active     *)
(* player without one.                                                      *)
EarlyCloseLeavesNobodyOut ==
    \A w \in Workers : At(w, "fill") /\ work[w].op = "guess" =>
        Missing(game, work[w].rd) \subseteq {work[w].who}
=============================================================================
