------------------------------ MODULE MatchViews ------------------------------
(***************************************************************************)
(* What players are shown of a match while it goes on: snapshots, round    *)
(* results and the terminal result (matchplay/service.go, games/service.go).*)
(* Each answer is put together from several statements without a           *)
(* transaction or a lock, so guesses, deadlines and leaves may commit      *)
(* between any two of them.                                                *)
(*                                                                         *)
(* A request slot that reads is no transaction in work.  view[w] is what   *)
(* its handler has read so far and, once told, the answer the client holds *)
(* until it asks again.  Rounds are read one after the other in the        *)
(* terminal result and in one step here, because a completed round's rows  *)
(* are not written again.                                                  *)
(***************************************************************************)
EXTENDS MatchGame

CONSTANTS
    Readers,    \* the request slots whose reads are explored
    Viewers     \* the players who ask for snapshots

ASSUME ReadersAssumption == Readers \subseteq Requests /\ Viewers \subseteq Players

VARIABLE view

viewVars == <<mode, game, match, quit, work, view>>

NoRound   == 0
Hidden    == -1      \* a total that is left out of the answer
NoGuesses == [r \in 1..Rounds |-> [p \in Players |-> NoGuess]]

(* of: the endpoint.  verdict, rated: of the match row as it was read;      *)
(* totals: of the players' rows; current: the open round; rounds, guesses: the  *)
(* rounds revealed in the answer.  Who has guessed already, and the counts  *)
(* of those, are left out.                                                  *)
Views ==
    [pc : {"idle", "players", "current", "rounds", "guesses", "told"},
     of : {"none", "round", "shared", "terminal", "snapshot"},
     who : Players \cup {"nobody"}, over : BOOLEAN,
     verdict : Verdicts, rated : Verdicts,
     totals : [Players -> Nat \cup {Hidden}], current : 0..Rounds,
     rounds : SUBSET (1..Rounds), guesses : [1..Rounds -> [Players -> -2..MaxScore]]]

NoView == [pc |-> "idle", of |-> "none", who |-> "nobody", over |-> FALSE,
           verdict |-> Undecided, rated |-> Undecided,
           totals |-> [p \in Players |-> 0], current |-> NoRound,
           rounds |-> {}, guesses |-> NoGuesses]

ViewTypeOK == MatchTypeOK /\ view \in [Readers -> Views]

ViewInit == Init /\ view = [w \in Readers |-> NoView]

Reads(w)   == view[w].pc # "idle"
Show(w, v) == view' = [view EXCEPT ![w] = v]

(* A slot begins to read when it is free.                                   *)
Ask(w, kind, v) ==
    /\ At(w, "idle") /\ ~Reads(w)
    /\ Show(w, [v EXCEPT !.of = kind])
    /\ UNCHANGED vars

-----------------------------------------------------------------------------
Revealed(r) == game.round[r] = "completed"

(* GetRoundResults, LoadRoundResultBundle: any other round is refused.  The *)
(* team scores of the match row, which are zero until it ends, are left out.*)
ReadRound(w, r) ==
    /\ Revealed(r)
    /\ Ask(w, "round", [NoView EXCEPT !.pc = "guesses", !.rounds = {r}])

(* GetSharedRoundResults, the same through package games.                   *)
ReadSharedRound(w, r) ==
    /\ Revealed(r)
    /\ Ask(w, "shared", [NoView EXCEPT !.pc = "guesses", !.rounds = {r}])

(* GetTerminalResult: the match has ended and, when ranked, is rated; both  *)
(* by the row that is read first.                                           *)
ReadTerminal(w) ==
    /\ match.status = "completed"
    /\ mode = "ranked" => match.rated # Undecided
    /\ Ask(w, "terminal", [NoView EXCEPT !.pc = "players", !.over = TRUE,
                             !.verdict = match.verdict, !.rated = match.rated])

(* GetSnapshot of player p: the match row.                                  *)
ReadSnapshot(w, p) ==
    Ask(w, "snapshot", [NoView EXCEPT !.pc = "players", !.who = p,
                          !.over = (match.status = "completed")])

(* The players' rows, and so their totals.                                  *)
ReadPlayers(w) ==
    /\ view[w].pc = "players"
    /\ Show(w, [view[w] EXCEPT !.totals = game.total,
                  !.pc = IF view[w].of = "snapshot" THEN "current" ELSE "rounds"])
    /\ UNCHANGED vars

(* The open round, or none.                                                 *)
ReadCurrent(w) ==
    /\ view[w].pc = "current"
    /\ Show(w, [view[w] EXCEPT !.pc = "rounds", !.current =
                  IF ActiveRounds(game) = {} THEN NoRound ELSE Min(ActiveRounds(game))])
    /\ UNCHANGED vars

(* The completed rounds: all of them, or the last one for a snapshot.       *)
CompletedRounds == {r \in 1..Rounds : game.round[r] = "completed"}

ReadRounds(w) ==
    /\ view[w].pc = "rounds"
    /\ Show(w, [view[w] EXCEPT !.pc = "guesses",
                  !.rounds = IF view[w].of = "terminal" \/ CompletedRounds = {} THEN CompletedRounds
                             ELSE {Max(CompletedRounds)}])
    /\ UNCHANGED vars

(* projectRevealedRound shows the rows there are; LoadSharedRoundResults    *)
(* puts a timed-out zero in the place of a missing one.                     *)
RevealedGuess(kind, r, p) ==
    IF kind = "shared" /\ game.guess[r][p] = NoGuess THEN TimedOut ELSE game.guess[r][p]

(* projectSnapshot: until a round of the match is revealed, opponents come   *)
(* without their totals.                                                    *)
Redacted(v, p) ==
    v.of = "snapshot" /\ v.rounds = {} /\ (p \in TeamOne) # (v.who \in TeamOne)

ReadGuesses(w) ==
    /\ view[w].pc = "guesses"
    /\ Show(w, [view[w] EXCEPT !.pc = "told",
                  !.totals = [p \in Players |-> IF Redacted(view[w], p) THEN Hidden ELSE @[p]],
                  !.guesses = [r \in 1..Rounds |->
                      IF r \in view[w].rounds
                      THEN [p \in Players |-> RevealedGuess(view[w].of, r, p)]
                      ELSE NoGuesses[r]]])
    /\ UNCHANGED vars

(* The client is done with the answer.                                      *)
EndView(w) ==
    /\ view[w].pc = "told"
    /\ Show(w, NoView)
    /\ UNCHANGED vars

-----------------------------------------------------------------------------
Read(w) ==
    \/ \E r \in 1..Rounds : ReadRound(w, r) \/ ReadSharedRound(w, r)
    \/ ReadTerminal(w)
    \/ \E p \in Viewers : ReadSnapshot(w, p)
    \/ ReadPlayers(w) \/ ReadCurrent(w) \/ ReadRounds(w)
    \/ ReadGuesses(w) \/ EndView(w)

(* A slot that reads begins no transaction.                                 *)
Write ==
    /\ Next
    /\ \A w \in Readers : Reads(w) => work'[w] = work[w]
    /\ UNCHANGED view

ViewNext == Write \/ \E w \in Readers : Read(w)

ViewSpec == ViewInit /\ [][ViewNext]_viewVars /\ Fairness /\ ClientsPoll

(* The same with clients that need not ask.                                 *)
UnpolledSpec == ViewInit /\ [][ViewNext]_viewVars /\ Fairness

-----------------------------------------------------------------------------
Told(kinds) == {view[w] : w \in {x \in Readers : view[x].pc = "told" /\ view[x].of \in kinds}}

(* What a player was told as revealed or final is what the rows say for     *)
(* ever after, although it was read in several statements beside guesses,   *)
(* deadlines, leaves and ratings: the guesses of a revealed round, a        *)
(* verdict with the totals under it and the rating made of it; the rounds   *)
(* shown of a match that was played out add up to the totals shown; a       *)
(* snapshot that says the match is over shows no open round (service.go:200,*)
(* :241, repository.go:25, games/repository.go:913).                        *)
ResultsStand ==
    /\ \A v \in Told({"round", "shared", "terminal", "snapshot"}) : \A r \in v.rounds :
         game.round[r] = "completed" /\ v.guesses[r] = [p \in Players |-> RevealedGuess(v.of, r, p)]
    /\ \A v \in Told({"terminal"}) :
         /\ v.verdict = match.verdict /\ v.totals = game.total
         /\ mode = "ranked" => v.rated = v.verdict
         /\ v.verdict.by = "score" => \A p \in Players :
              v.totals[p] = SumFunction([r \in 1..Rounds |-> Points(v.guesses[r][p])])
    /\ \A v \in Told({"snapshot"}) : v.over =>
         /\ v.current = NoRound
         /\ \A p \in Players : v.totals[p] \in {Hidden, game.total[p]}

(* "Before reveal, opponent player totals may be team-level only"           *)
(* (casual-ranked-openapi.md:246).  roundIsRevealed is true from the first  *)
(* revealed round on, so later snapshots show an opponent's total with the  *)
(* score of the open round in it.                                           *)
UnrevealedScoresHidden ==
    \A v \in Told({"snapshot"}) : \A p \in Players :
        (p \in TeamOne) # (v.who \in TeamOne) /\ v.totals[p] # Hidden =>
            v.totals[p] <= SumFunction([r \in 1..Rounds |->
                             IF r <= Max(v.rounds) THEN Points(game.guess[r][p]) ELSE 0])
=============================================================================
