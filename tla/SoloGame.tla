------------------------------ MODULE SoloGame ------------------------------
(***************************************************************************)
(* One game of a single player: solo, daily or practice (games/service.go, *)
(* games/repository.go).  Its owner's requests overlap: a guess locks the  *)
(* game and then the round, the timeout of a daily round locks the round   *)
(* and, for the last one, then updates the game.  Practice has no clock    *)
(* and grows by one round at a time until it is ended.                     *)
(*                                                                         *)
(* Every guess scores one point; the score is what the games row adds up.  *)
(***************************************************************************)
EXTENDS Integers, FiniteSets, FiniteSetsExt

CONSTANTS
    SoloModes,      \* games.mode explored
    SoloRounds,     \* round_count, and the bound on a practice game's rounds
    Tabs,           \* requests of the owner in progress at one time
    GuessKeys       \* Idempotency-Key values, of guesses and of new rounds

ASSUME SoloModesAssumption == SoloModes \subseteq {"solo", "daily", "practice"}
ASSUME SoloRoundsAssumption == SoloRounds \in Nat \ {0}
ASSUME GuessKeysAssumption == "null" \notin GuessKeys  \* a key that is given is a value

VARIABLES
    solo,       \* the rows of games, rounds and guesses
    tab,        \* the requests in progress
    inFlight,   \* idempotency keys claimed in Redis
    shown       \* rounds whose location a response has revealed

soloVars == <<solo, tab, inFlight, shown>>

SoloNos == 1..SoloRounds
KeyColumn == GuessKeys \cup {"null"}

SoloGames ==
    [mode   : SoloModes,
     timed  : BOOLEAN,
     status : {"pending", "active", "completed"},
     round  : [SoloNos -> {"absent", "pending", "active", "completed", "cancelled"}],
     guess  : [SoloNos -> {"none", "guess", "timed_out"}],
     gkey   : [SoloNos -> KeyColumn],       \* guesses.idempotency_key
     ckey   : [SoloNos -> KeyColumn],       \* rounds.creation_idempotency_key
     score  : Nat,
     due    : BOOLEAN]                      \* the active round is past ends_at

SoloTab == [pc : {"idle", "game", "round", "finish"}, op : {"none", "guess", "expire"},
            rd : 0..SoloRounds, key : KeyColumn, holds : SUBSET {"game", "round"}]

IdleTab == [pc |-> "idle", op |-> "none", rd |-> 0, key |-> "null", holds |-> {}]

SoloTypeOK ==
    /\ solo \in SoloGames
    /\ tab \in [Tabs -> SoloTab]
    /\ inFlight \subseteq GuessKeys
    /\ shown \subseteq SoloNos

(* CreateGameBundle: every round of a solo or daily game, the first of a    *)
(* practice one.                                                            *)
SoloBundle(m, t) ==
    [mode |-> m, timed |-> t, status |-> "pending",
     round |-> [r \in SoloNos |-> IF m = "practice" /\ r > 1 THEN "absent" ELSE "pending"],
     guess |-> [r \in SoloNos |-> "none"],
     gkey |-> [r \in SoloNos |-> "null"], ckey |-> [r \in SoloNos |-> "null"],
     score |-> 0, due |-> FALSE]

(* CreateGame: dailies are always timed, practice never, solo as asked.     *)
SoloInit ==
    /\ \E m \in SoloModes : \E t \in (IF m = "solo" THEN BOOLEAN ELSE {m = "daily"}) :
        solo = SoloBundle(m, t)
    /\ tab = [t \in Tabs |-> IdleTab]
    /\ inFlight = {}
    /\ shown = {}

RoundsIn(s)  == {r \in SoloNos : solo.round[r] = s}
GuessKeyUsed(k) == \E r \in SoloNos : solo.gkey[r] = k
TabFree(t, row) == \A u \in Tabs \ {t} : row \notin tab[u].holds

(* GetCurrentRound of the game's repository.                                *)
SoloCurrent == IF RoundsIn("active") # {} THEN Min(RoundsIn("active")) ELSE 0

(* releaseClaim: Release deletes the key, whoever claimed it last.          *)
Released(t) == IF solo.mode = "practice" THEN inFlight ELSE inFlight \ {tab[t].key}

EndTab(t) == tab' = [tab EXCEPT ![t] = IdleTab] /\ inFlight' = Released(t)

-----------------------------------------------------------------------------
(* SubmitGuess, up to its transaction: the current round, not past its end, *)
(* with no guess; a key that is neither stored (that is a replay) nor, but  *)
(* for practice, claimed by a request in flight.                            *)
RequestSoloGuess(t, k) ==
    LET r == SoloCurrent IN
    /\ tab[t].pc = "idle" /\ solo.status = "active" /\ r # 0
    /\ ~solo.due /\ solo.guess[r] = "none"
    /\ k # "null" => ~GuessKeyUsed(k) /\ (solo.mode = "practice" \/ k \notin inFlight)
    /\ tab' = [tab EXCEPT ![t] = [IdleTab EXCEPT !.pc = "game", !.op = "guess", !.rd = r, !.key = k]]
    /\ inFlight' = IF solo.mode = "practice" THEN inFlight ELSE inFlight \cup ({k} \ {"null"})
    /\ UNCHANGED <<solo, shown>>

(* A claim is kept for two minutes.                                         *)
SoloClaimLapses(k) ==
    /\ k \in inFlight
    /\ inFlight' = inFlight \ {k}
    /\ UNCHANGED <<solo, tab, shown>>

LockSolo(t) ==
    /\ tab[t].pc = "game" /\ TabFree(t, "game")
    /\ tab' = [tab EXCEPT ![t].pc = "round", ![t].holds = {"game"}]
    /\ UNCHANGED <<solo, inFlight, shown>>

(* The next pending round opens; without one a practice game waits for the  *)
(* owner and any other is completed.                                        *)
Advanced(s, r) ==
    LET done == [s EXCEPT !.round[r] = "completed", !.due = FALSE]
        pending == RoundsIn("pending")
    IN IF pending # {} THEN [done EXCEPT !.round[Min(pending)] = "active"]
       ELSE IF s.mode = "practice" THEN done
       ELSE [done EXCEPT !.status = "completed"]

(* SubmitGuessTx with both rows locked: the round's status, and the unique  *)
(* guess of a round and of a key.                                           *)
SubmitGuessTx(t) ==
    LET r == tab[t].rd
        k == tab[t].key IN
    /\ tab[t].pc = "round" /\ tab[t].op = "guess" /\ TabFree(t, "round")
    /\ IF solo.round[r] # "active" \/ (k # "null" /\ GuessKeyUsed(k)) THEN UNCHANGED <<solo, shown>>
       ELSE /\ solo' = Advanced([solo EXCEPT !.guess[r] = "guess", !.gkey[r] = k, !.score = @ + 1], r)
            /\ shown' = shown \cup {r}
    /\ EndTab(t)

-----------------------------------------------------------------------------
(* ExpireRound, or GetCurrentRound of a daily game.                         *)
RequestExpire(t) ==
    /\ tab[t].pc = "idle" /\ solo.mode = "daily" /\ solo.status = "active"
    /\ SoloCurrent # 0 /\ solo.due
    /\ tab' = [tab EXCEPT ![t] = [IdleTab EXCEPT !.pc = "round", !.op = "expire", !.rd = SoloCurrent]]
    /\ UNCHANGED <<solo, inFlight, shown>>

(* Bug variant: only the deadline is looked at, not the round's status.     *)
ExpireRefused_DeadlineOnly(r) == r = SoloCurrent /\ ~solo.due

(* ExpireSoloRoundTx under the round's lock.                                *)
ExpireRefused(r) == solo.round[r] # "active" \/ ~solo.due

ExpiredGame(r) == Advanced([solo EXCEPT !.guess[r] = "timed_out"], r)

(* The last round's timeout still has the games row to update.              *)
ExpireSoloRoundTx(t) ==
    LET r == tab[t].rd IN
    /\ tab[t].pc = "round" /\ tab[t].op = "expire" /\ TabFree(t, "round")
    /\ IF ExpireRefused(r) THEN UNCHANGED <<solo, shown>> /\ EndTab(t)
       ELSE IF RoundsIn("pending") # {} THEN solo' = ExpiredGame(r) /\ shown' = shown \cup {r} /\ EndTab(t)
       ELSE /\ tab' = [tab EXCEPT ![t].pc = "finish", ![t].holds = {"round"}]
            /\ UNCHANGED <<solo, inFlight, shown>>

FinishExpire(t) ==
    /\ tab[t].pc = "finish" /\ TabFree(t, "game")
    /\ solo' = ExpiredGame(tab[t].rd)
    /\ shown' = shown \cup {tab[t].rd}
    /\ EndTab(t)

(* A guess holds the game and waits for the round, a timeout the other way  *)
(* round: PostgreSQL aborts one.                                            *)
BreakSoloDeadlock(t) ==
    /\ \E u \in Tabs \ {t} :
         \/ tab[t].holds = {"game"} /\ tab[u].holds = {"round"}
         \/ tab[t].holds = {"round"} /\ tab[u].holds = {"game"}
    /\ UNCHANGED <<solo, shown>>
    /\ EndTab(t)

-----------------------------------------------------------------------------
(* The responses that reveal a location, besides those of guesses.          *)
Reveal(rounds) == shown' = shown \cup rounds /\ UNCHANGED <<solo, tab, inFlight>>

(* A stored key answers with its round; for practice even after the end.    *)
GuessReplay(k) ==
    /\ GuessKeyUsed(k)
    /\ solo.mode = "practice" \/ (solo.status = "active" /\ SoloCurrent # 0)
    /\ Reveal({r \in SoloNos : solo.gkey[r] = k})

(* ListPracticeHistory lists every round, GetPracticeHistory adds the       *)
(* location to those with a guess.                                          *)
HistoryRounds == {r \in SoloNos : solo.guess[r] # "none"}

GetPracticeHistory == solo.mode = "practice" /\ Reveal(HistoryRounds)

(* LoadResults: every round of the game with its location.                  *)
ResultRounds == SoloNos \ RoundsIn("absent")

GetSoloResults ==
    /\ solo.mode # "practice" /\ solo.status = "completed"
    /\ Reveal(ResultRounds)

-----------------------------------------------------------------------------
(* StartGame, and StartAttemptGame of a challenge.                          *)
StartSolo ==
    /\ solo.status = "pending"
    /\ solo' = [solo EXCEPT !.status = "active", !.round[1] = "active"]
    /\ UNCHANGED <<tab, inFlight, shown>>

GameUnlocked == \A t \in Tabs : "game" \notin tab[t].holds

(* NextPracticeRound, AppendPracticeRound: a stored key is a replay.        *)
AppendPracticeRound(k) ==
    LET n == Cardinality(SoloNos \ RoundsIn("absent")) IN
    /\ solo.mode = "practice" /\ solo.status = "active" /\ GameUnlocked
    /\ \A r \in SoloNos : solo.ckey[r] # k
    /\ solo.round[n] = "completed" /\ n < SoloRounds
    /\ solo' = [solo EXCEPT !.round[n + 1] = "active", !.ckey[n + 1] = k]
    /\ UNCHANGED <<tab, inFlight, shown>>

(* What EndPractice makes of the rounds.                                    *)
ClosedRounds ==
    [r \in SoloNos |-> IF solo.round[r] \in {"active", "pending"} THEN "cancelled" ELSE solo.round[r]]

EndPractice ==
    /\ solo.mode = "practice" /\ solo.status \in {"pending", "active"} /\ GameUnlocked
    /\ solo' = [solo EXCEPT !.status = "completed", !.round = ClosedRounds]
    /\ UNCHANGED <<tab, inFlight, shown>>

(* ends_at passes.  Only a daily game has something that closes the round:  *)
(* a timed solo game rests here.                                            *)
SoloRoundDue ==
    /\ solo.timed /\ solo.status = "active" /\ ~solo.due
    /\ solo' = [solo EXCEPT !.due = TRUE]
    /\ UNCHANGED <<tab, inFlight, shown>>

SoloNext ==
    \/ \E t \in Tabs : \/ \E k \in KeyColumn : RequestSoloGuess(t, k)
                       \/ LockSolo(t) \/ SubmitGuessTx(t)
                       \/ RequestExpire(t) \/ ExpireSoloRoundTx(t) \/ FinishExpire(t)
                       \/ BreakSoloDeadlock(t)
    \/ \E k \in GuessKeys : SoloClaimLapses(k) \/ GuessReplay(k) \/ AppendPracticeRound(k)
    \/ GetPracticeHistory \/ GetSoloResults
    \/ StartSolo \/ EndPractice \/ SoloRoundDue

SoloSpec == SoloInit /\ [][SoloNext]_soloVars

-----------------------------------------------------------------------------
(* Correctness.                                                             *)

(* Whatever overlaps, retries or times out: rounds are played one by one,   *)
(* each gets one guess or one timeout, the score is that of the guesses, a  *)
(* key is stored once, a game is over exactly when none of its rounds is    *)
(* left, and no response reveals the location of a round not yet answered   *)
(* (repository.go:397, :485, :251, service.go:795, :1088).                  *)
SoloRowsAgree ==
    /\ \A r \in shown : solo.guess[r] # "none"
    /\ \A r \in SoloNos : solo.round[r] = "completed" <=> solo.guess[r] # "none"
    /\ solo.score = Cardinality({r \in SoloNos : solo.guess[r] = "guess"})
    /\ \A r \in RoundsIn("active") : \A q \in 1..(r - 1) : solo.round[q] = "completed"
    /\ \A q, r \in SoloNos : q # r =>
         /\ solo.gkey[q] = solo.gkey[r] => solo.gkey[q] = "null"
         /\ solo.ckey[q] = solo.ckey[r] => solo.ckey[q] = "null"
    /\ solo.mode # "practice" =>
         solo.status = "completed" <=> RoundsIn("active") \cup RoundsIn("pending") = {}
=============================================================================
