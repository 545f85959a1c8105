--------------------------- MODULE MatchGameProofs ---------------------------
(***************************************************************************)
(* Proofs about MatchGame and MatchViews, for any teams, rounds, scores    *)
(* and any number of requests.                                             *)
(*                                                                         *)
(* What a transaction has read stays true while it holds the rows it read  *)
(* it from (Sound): with the game locked, its one active round and the     *)
(* guesses in it; with the match locked as well, or first, that the match  *)
(* is not decided.  Hence the transaction that closes the last round, or   *)
(* ends the match, is the only one to write both rows, and writes them     *)
(* when they still agree.                                                  *)
(***************************************************************************)
EXTENDS MatchViews, GameRoundsProofs

(* The rounds of a game that goes on or was played out are not cancelled,   *)
(* and the match is decided when it ends and rated for what was decided.    *)
DecidedInv ==
    /\ game.status \in {"active", "completed", "abandoned"}
    /\ game.status # "abandoned" => \A r \in 1..Rounds : game.round[r] # "cancelled"
    /\ Live <=> match.verdict = Undecided
    /\ match.rated \in {Undecided, match.verdict}

(* Transaction t has the game g locked and knows its open round.            *)
InGame(t, g) ==
    /\ "game" \in t.holds
    /\ g.status = "active" /\ ActiveRounds(g) = {t.rd}
    /\ t.missing \cap Submitted(g, t.rd) = {}
    /\ t.op = "guess" => /\ t.who \in Players
                         /\ t.who \notin Submitted(g, t.rd) \cup t.missing

Playing(t) == t.op \in {"guess", "close"}
Ending(t)  == t.op = "inactive" \/ (t.op = "leave" /\ t.who \in Players)

(* What is true of a transaction at each of its steps, beside the rows g of *)
(* the game and m of the match, and the players Q who have quit.            *)
Sound(t, g, m, Q) ==
    /\ t.pc \in {"idle", "lock", "post"} => t.holds = {}
    /\ t.pc = "lock"   => /\ Playing(t) /\ t.missing = {} /\ ~t.closing
                          /\ t.op = "guess" => t.who \in Players /\ t.rd \in 1..Rounds
    /\ t.pc = "count"  => InGame(t, g) /\ t.op = "guess" /\ t.holds = {"game"}
    /\ t.pc = "fill"   => InGame(t, g) /\ Playing(t) /\ t.closing /\ t.holds = {"game"}
    /\ t.pc = "match"  => \/ InGame(t, g) /\ Playing(t) /\ t.closing /\ t.holds = {"game"}
                          \/ Ending(t) /\ t.holds = {}
    /\ t.pc = "commit" => /\ InGame(t, g) /\ Playing(t)
                          /\ t.op = "close" => t.closing
                          /\ t.closing => "match" \in t.holds \/ PendingRounds(g) # {}
    /\ t.pc = "end"    => /\ Ending(t) /\ t.holds = {"match"} /\ m.status = "active"
                          /\ t.op = "leave" => t.who \notin Q
    /\ t.pc = "post"   => m.status = "completed"

SoundInv == \A w \in Workers : Sound(work[w], game, match, quit)

(* No row is locked twice.                                                  *)
Exclusive ==
    \A v, w \in Workers : v # w => work[v].holds \cap work[w].holds = {}

MInv == MatchTypeOK /\ RowsAgree /\ DecidedInv /\ SoundInv /\ Exclusive

-----------------------------------------------------------------------------
(* A transaction goes on as it is while others write the rows it has not    *)
(* locked, and the match does not come back to life.                        *)
LEMMA SoundStays ==
    ASSUME NEW t, NEW g, NEW h, NEW m, NEW n, NEW Q, NEW R, Sound(t, g, m, Q),
           "game" \in t.holds => h.status = g.status /\ h.round = g.round /\ h.guess = g.guess,
           "match" \in t.holds => n.status = m.status /\ R = Q,
           m.status = "completed" => n.status = "completed"
    PROVE  Sound(t, h, n, R)
<1>1. "game" \in t.holds => (InGame(t, g) <=> InGame(t, h)) /\ PendingRounds(g) = PendingRounds(h)
  BY DEF InGame, ActiveRounds, PendingRounds, Submitted
<1>2. InGame(t, g) => "game" \in t.holds
  BY DEF InGame
<1>. QED  BY <1>1, <1>2 DEF Sound

(* While a game goes on it has one open round.                              *)
LEMMA OpenRound ==
    ASSUME MatchTypeOK, RowsAgree, game.status = "active"
    PROVE  CurrentRound(game) \in 1..Rounds /\ ActiveRounds(game) = {CurrentRound(game)}
<1>1. IsFiniteSet(ActiveRounds(game)) /\ ActiveRounds(game) \subseteq 1..Rounds
  BY RoundsAreFinite, FS_Subset DEF ActiveRounds
<1>2. PICK r : ActiveRounds(game) = {r}
  BY <1>1, FS_Singleton DEF RowsAgree
<1>3. Min(ActiveRounds(game)) \in ActiveRounds(game)
  BY <1>1, <1>2, FirstRound
<1>. QED  BY <1>1, <1>2, <1>3 DEF CurrentRound

(* A new match has nothing to disagree about.                               *)
LEMMA MInvInit == Init => MInv
<1>. SUFFICES ASSUME Init PROVE MInv
  OBVIOUS
<1>. DEFINE ph == IF mode = "ranked" THEN "countdown" ELSE "open"
<1>1. /\ game = NewGame(Players, ph) /\ game \in Games /\ Summed(game)
      /\ game.status = "active" /\ ActiveRounds(game) = {1}
  BY NewGameFacts DEF Init
<1>2. \A r \in 1..Rounds : game.round[r] # "cancelled"
  BY <1>1 DEF NewGame
<1>3. Idle \in Transaction /\ Sound(Idle, game, match, quit) /\ Idle.holds = {}
  BY ScoreAssumption, RoundsAssumption DEF Idle, Transaction, Sound
<1>4. Cardinality(ActiveRounds(game)) = 1
  BY <1>1, FS_Singleton
<1>5. /\ match.status = "active" /\ match.verdict = Undecided /\ match.rated = Undecided
      /\ match \in Match /\ match.verdict.by = "none"
  BY DEF Init, Match, Verdicts, Undecided
<1>6. MatchTypeOK
  BY <1>1, <1>3, <1>5 DEF MatchTypeOK, Init
<1>7. RowsAgree
  BY <1>1, <1>4, <1>5 DEF RowsAgree, Summed, Over
<1>8. DecidedInv
  BY <1>1, <1>2, <1>5 DEF DecidedInv, Live
<1>9. SoundInv /\ Exclusive
  BY <1>3 DEF SoundInv, Exclusive, Init
<1>. QED  BY <1>6, <1>7, <1>8, <1>9 DEF MInv

(* A step of one transaction that writes no row yet.                        *)
LEMMA WritesNothing ==
    ASSUME MInv, NEW w \in Workers, NEW t \in Transaction, Set(w, t),
           UNCHANGED <<mode, game, match, quit>>,
           Sound(t, game, match, quit), \A row \in t.holds : Free(w, row)
    PROVE  MInv'
<1>1. work' \in [Workers -> Transaction]
  BY DEF Set, MInv, MatchTypeOK
<1>2. \A v \in Workers : work'[v] = IF v = w THEN t ELSE work[v]
  BY DEF Set, MInv, MatchTypeOK
<1>3. MatchTypeOK'
  BY <1>1 DEF MInv, MatchTypeOK
<1>4. RowsAgree' /\ DecidedInv'
  BY DEF MInv, RowsAgree, DecidedInv, Over, Live, ScoreVerdict
<1>5. SoundInv'
  BY <1>2 DEF MInv, SoundInv
<1>6. Exclusive'
  <2>. SUFFICES ASSUME NEW u \in Workers, NEW v \in Workers, u # v
                PROVE  work'[u].holds \cap work'[v].holds = {}
    BY DEF Exclusive
  <2>. QED  BY <1>2 DEF MInv, Exclusive, Free
<1>. QED  BY <1>3, <1>4, <1>5, <1>6 DEF MInv

(* A transaction that answers or is aborted lets go of its rows.            *)
LEMMA IdleSound == \A g, m, Q : Sound(Idle, g, m, Q)
BY DEF Sound, Idle

LEMMA IdleType == Idle \in Transaction /\ Idle.holds = {} /\ Idle.pc = "idle"
BY ScoreAssumption, RoundsAssumption DEF Idle, Transaction

LEMMA ReplyStep ==
    ASSUME MInv, NEW w \in Workers, Reply(w), UNCHANGED <<mode, game, match, quit>>
    PROVE  MInv'
BY IdleSound, IdleType, WritesNothing DEF Reply

-----------------------------------------------------------------------------
(* One lemma for each request and each statement.                           *)
LEMMA StartGuessStep ==
    ASSUME MInv, NEW w \in Workers, NEW p \in Players, NEW s \in Scores[p], StartGuess(w, p, s)
    PROVE  MInv'
<1>. DEFINE t == [Idle EXCEPT !.pc = "lock", !.op = "guess", !.who = p, !.rd = CurrentRound(game), !.pts = s]
<1>1. CurrentRound(game) \in 1..Rounds
  BY OpenRound DEF StartGuess, MInv
<1>2. s \in 0..MaxScore
  BY ScoresAssumption
<1>3. t \in Transaction /\ t.holds = {}
  <2>1. CurrentRound(game) \in 0..Rounds
    BY <1>1, RoundsAssumption
  <2>. QED  BY <1>2, <2>1, IdleType DEF Transaction
<1>4. Sound(t, game, match, quit)
  BY <1>1 DEF Sound, Idle, Playing
<1>5. Set(w, t)
  BY DEF StartGuess
<1>. HIDE DEF t
<1>. QED  BY <1>3, <1>4, <1>5, WritesNothing DEF StartGuess

LEMMA BeginCloseStep ==
    ASSUME MInv, NEW w \in Workers, BeginClose(w), UNCHANGED <<mode, game, match, quit>>
    PROVE  MInv'
<1>. DEFINE t == [Idle EXCEPT !.pc = "lock", !.op = "close"]
<1>1. t \in Transaction /\ t.holds = {}
  BY IdleType DEF Transaction
<1>2. Sound(t, game, match, quit)
  BY DEF Sound, Idle, Playing
<1>3. Set(w, t)
  BY DEF BeginClose
<1>. HIDE DEF t
<1>. QED  BY <1>1, <1>2, <1>3, WritesNothing

LEMMA StartLeaveStep ==
    ASSUME MInv, NEW w \in Workers, NEW p \in Players, StartLeave(w, p)
    PROVE  MInv'
<1>. DEFINE t == [Idle EXCEPT !.pc = "match", !.op = "leave", !.who = p]
<1>1. t \in Transaction /\ t.holds = {}
  BY IdleType DEF Transaction
<1>2. Sound(t, game, match, quit)
  BY DEF Sound, Idle, Ending
<1>3. Set(w, t)
  BY DEF StartLeave
<1>. HIDE DEF t
<1>. QED  BY <1>1, <1>2, <1>3, WritesNothing DEF StartLeave

LEMMA StartInactiveStep ==
    ASSUME MInv, NEW w \in Workers, StartInactive(w)
    PROVE  MInv'
<1>. DEFINE t == [Idle EXCEPT !.pc = "match", !.op = "inactive"]
<1>1. t \in Transaction /\ t.holds = {}
  BY IdleType DEF Transaction
<1>2. Sound(t, game, match, quit)
  BY DEF Sound, Idle, Ending
<1>3. Set(w, t)
  BY DEF StartInactive
<1>. HIDE DEF t
<1>. QED  BY <1>1, <1>2, <1>3, WritesNothing DEF StartInactive

LEMMA LockGameStep ==
    ASSUME MInv, NEW w \in Workers, LockGame(w)
    PROVE  MInv'
<1>. DEFINE r == work[w]
            c == CurrentRound(game)
            g == [r EXCEPT !.holds = {"game"}, !.pc = "count"]
            f == [r EXCEPT !.holds = {"game"}, !.pc = "fill", !.rd = c, !.closing = TRUE,
                           !.missing = Missing(game, c)]
<1>0. /\ r \in Transaction /\ Sound(r, game, match, quit) /\ r.pc = "lock"
      /\ Free(w, "game") /\ UNCHANGED <<mode, game, match, quit>>
      /\ game \in Games
  BY DEF LockGame, MInv, SoundInv, MatchTypeOK, At
<1>1. CASE Reply(w)
  BY <1>0, <1>1, ReplyStep
<1>2. CASE r.op = "guess" /\ ~GuessRefused(r.rd, r.who) /\ Set(w, g)
  <2>1. game.status = "active" /\ game.round[r.rd] = "active" /\ r.who \notin Submitted(game, r.rd)
    BY <1>2 DEF GuessRefused
  <2>2. r.who \in Players /\ r.rd \in 1..Rounds /\ r.missing = {}
    BY <1>0, <1>2 DEF Sound
  <2>3. ActiveRounds(game) = {r.rd}
    <3>1. r.rd \in ActiveRounds(game)
      BY <2>1, <2>2 DEF ActiveRounds
    <3>. QED  BY <2>1, <3>1, OpenRound DEF MInv
  <2>4. /\ g \in Transaction /\ g.holds = {"game"} /\ g.pc = "count" /\ g.op = r.op
        /\ g.who = r.who /\ g.rd = r.rd /\ g.missing = r.missing
    BY <1>0 DEF Transaction
  <2>. HIDE DEF g
  <2>5. Sound(g, game, match, quit)
    BY <1>2, <2>1, <2>2, <2>3, <2>4 DEF Sound, InGame, Playing
  <2>. QED  BY <1>0, <1>2, <2>4, <2>5, WritesNothing
<1>3. CASE r.op = "close" /\ ~CloseRefused /\ Set(w, f)
  <2>1. game.status = "active"
    BY <1>3 DEF CloseRefused
  <2>2. c \in 1..Rounds /\ ActiveRounds(game) = {c}
    BY <2>1, OpenRound DEF MInv
  <2>3. Missing(game, c) \subseteq Players /\ Missing(game, c) \cap Submitted(game, c) = {}
    BY DEF Missing, Eligible
  <2>4. /\ f \in Transaction /\ f.holds = {"game"} /\ f.pc = "fill" /\ f.op = r.op
        /\ f.rd = c /\ f.missing = Missing(game, c) /\ f.closing
    <3>1. c \in 0..Rounds
      BY <2>2, RoundsAssumption
    <3>. HIDE DEF c
    <3>. QED  BY <1>0, <2>3, <3>1 DEF Transaction
  <2>. HIDE DEF f
  <2>5. Sound(f, game, match, quit)
    BY <1>3, <2>1, <2>2, <2>3, <2>4 DEF Sound, InGame, Playing
  <2>. QED  BY <1>0, <1>3, <2>4, <2>5, WritesNothing
<1>4. r.op \in {"guess", "close"}
  BY <1>0 DEF Sound, Playing
<1>. QED  BY <1>1, <1>2, <1>3, <1>4 DEF LockGame

(* A row that is held is free for its holder only.                          *)
LEMMA HeldIsFree ==
    ASSUME MInv, NEW w \in Workers, NEW row \in work[w].holds
    PROVE  Free(w, row)
BY DEF MInv, Exclusive, Free

LEMMA CountStep ==
    ASSUME MInv, NEW w \in Workers, Count(w)
    PROVE  MInv'
<1>. DEFINE r == work[w]
            all == AllSubmitted(InsertGuess(game, r.rd, r.who, r.pts), r.rd)
            t == [r EXCEPT !.pc = IF all THEN "fill" ELSE "commit", !.closing = all]
<1>1. /\ r \in Transaction /\ Sound(r, game, match, quit) /\ r.pc = "count"
      /\ UNCHANGED <<mode, game, match, quit>> /\ Set(w, t)
  BY DEF Count, MInv, SoundInv, MatchTypeOK, At
<1>2. InGame(r, game) /\ r.op = "guess" /\ r.holds = {"game"}
  BY <1>1 DEF Sound
<1>3. all \in BOOLEAN
  BY DEF AllSubmitted
<1>. HIDE DEF all
<1>4. /\ t \in Transaction /\ t.holds = r.holds /\ t.op = r.op /\ t.who = r.who /\ t.rd = r.rd
      /\ t.missing = r.missing /\ t.pc = IF all THEN "fill" ELSE "commit"
      /\ t.closing = all
  BY <1>1, <1>3 DEF Transaction
<1>. HIDE DEF t
<1>5. Sound(t, game, match, quit)
  BY <1>2, <1>3, <1>4 DEF Sound, InGame, Playing
<1>. QED  BY <1>1, <1>2, <1>4, <1>5, HeldIsFree, WritesNothing

LEMMA FillStep ==
    ASSUME MInv, NEW w \in Workers, Fill(w)
    PROVE  MInv'
<1>. DEFINE r == work[w]
            M == r.missing \cup (Missing(game, r.rd) \ {r.who})
            t == [r EXCEPT !.missing = M, !.pc = IF LastRound(r.rd) THEN "match" ELSE "commit"]
<1>1. /\ r \in Transaction /\ Sound(r, game, match, quit) /\ r.pc = "fill"
      /\ UNCHANGED <<mode, game, match, quit>> /\ Set(w, t)
  BY DEF Fill, MInv, SoundInv, MatchTypeOK, At
<1>2. InGame(r, game) /\ Playing(r) /\ r.closing /\ r.holds = {"game"}
  BY <1>1 DEF Sound
<1>3. /\ M \subseteq Players /\ M \cap Submitted(game, r.rd) = {}
      /\ r.op = "guess" => r.who \notin M
  BY <1>1, <1>2 DEF InGame, Missing, Eligible, Transaction
<1>. HIDE DEF M
<1>4. /\ t \in Transaction /\ t.holds = r.holds /\ t.op = r.op /\ t.who = r.who /\ t.rd = r.rd
      /\ t.missing = M /\ t.pc = IF LastRound(r.rd) THEN "match" ELSE "commit"
      /\ t.closing = r.closing
  BY <1>1, <1>3 DEF Transaction
<1>. HIDE DEF t
<1>5. ~LastRound(r.rd) => PendingRounds(game) # {}
  BY <1>2 DEF InGame, LastRound
<1>6. Sound(t, game, match, quit)
  BY <1>2, <1>3, <1>4, <1>5 DEF Sound, InGame, Playing
<1>. QED  BY <1>1, <1>2, <1>4, <1>6, HeldIsFree, WritesNothing

LEMMA LockMatchStep ==
    ASSUME MInv, NEW w \in Workers, LockMatch(w)
    PROVE  MInv'
<1>. DEFINE r == work[w]
            t == [r EXCEPT !.pc = "commit", !.holds = @ \cup {"match"}]
            e == [r EXCEPT !.pc = "end", !.holds = @ \cup {"match"}]
<1>1. /\ r \in Transaction /\ Sound(r, game, match, quit) /\ r.pc = "match" /\ Free(w, "match")
      /\ UNCHANGED <<mode, game, match, quit>>
  BY DEF LockMatch, MInv, SoundInv, MatchTypeOK, At
<1>2. CASE r.op \in {"guess", "close"} /\ Set(w, t)
  <2>1. InGame(r, game) /\ Playing(r) /\ r.closing /\ r.holds = {"game"}
    BY <1>1, <1>2 DEF Sound, Ending
  <2>2. /\ t \in Transaction /\ t.holds = {"game", "match"} /\ t.op = r.op /\ t.who = r.who
        /\ t.rd = r.rd /\ t.missing = r.missing /\ t.pc = "commit" /\ t.closing = r.closing
    BY <1>1, <2>1 DEF Transaction
  <2>. HIDE DEF t
  <2>3. Sound(t, game, match, quit)
    BY <2>1, <2>2 DEF Sound, InGame, Playing
  <2>. QED  BY <1>1, <1>2, <2>1, <2>2, <2>3, HeldIsFree, WritesNothing
<1>3. CASE r.op \notin {"guess", "close"} /\ ~LeaveRefused(r.who) /\ Set(w, e)
  <2>1. Ending(r) /\ r.holds = {} /\ Live /\ r.who \notin quit
    BY <1>1, <1>3 DEF Sound, Playing, LeaveRefused
  <2>2. e \in Transaction /\ e.holds = {"match"} /\ e.op = r.op /\ e.who = r.who /\ e.pc = "end"
    BY <1>1, <2>1 DEF Transaction
  <2>. HIDE DEF e
  <2>3. Sound(e, game, match, quit)
    BY <2>1, <2>2 DEF Sound, Ending, Live
  <2>. QED  BY <1>1, <1>3, <2>2, <2>3, WritesNothing
<1>4. CASE Reply(w)
  BY <1>1, <1>4, ReplyStep
<1>. QED  BY <1>2, <1>3, <1>4 DEF LockMatch, Lock

-----------------------------------------------------------------------------
(* The game's rows after a guess or a deadline: the scores of the guess are *)
(* added, and closing the round opens the next one or ends the game.        *)
LEMMA PlayedGameFacts ==
    ASSUME MInv, NEW t \in Transaction, InGame(t, game), Playing(t), t.op = "close" => t.closing,
           NEW h, h = PlayedGame(t)
    PROVE  /\ h \in Games /\ Summed(h) /\ h.player = game.player
           /\ \/ h.status = "active" /\ Cardinality(ActiveRounds(h)) = 1
              \/ /\ h.status = "completed" /\ ActiveRounds(h) = {} /\ PendingRounds(h) = {}
                 /\ t.closing /\ PendingRounds(game) = {}
           /\ \A r \in 1..Rounds : h.round[r] # "cancelled"
           /\ \A r \in 1..Rounds : game.round[r] = "completed" =>
                 h.round[r] = "completed" /\ h.guess[r] = game.guess[r]
           /\ \A T \in SUBSET Players :
                 TotalOf(h, T) = IF t.op = "guess" /\ t.who \in T THEN TotalOf(game, T) + t.pts
                                 ELSE TotalOf(game, T)
<1>. DEFINE own == IF t.op = "guess" THEN InsertGuess(game, t.rd, t.who, t.pts) ELSE game
            zero == ZeroFill(own, t.rd, t.missing)
<1>1. /\ game \in Games /\ Summed(game) /\ game.status = "active" /\ ActiveRounds(game) = {t.rd}
      /\ t.rd \in 1..Rounds /\ t.missing \in SUBSET Players /\ t.pts \in 0..MaxScore
      /\ game.round[t.rd] = "active"
  BY DEF MInv, MatchTypeOK, RowsAgree, Summed, InGame, ActiveRounds, Transaction
<1>2. /\ own \in Games /\ Summed(own)
      /\ own.status = "active" /\ own.round = game.round /\ own.player = game.player
      /\ t.missing \cap Submitted(own, t.rd) = {}
      /\ \A r \in 1..Rounds : r # t.rd => own.guess[r] = game.guess[r]
      /\ \A T \in SUBSET Players :
            TotalOf(own, T) = IF t.op = "guess" /\ t.who \in T THEN TotalOf(game, T) + t.pts
                              ELSE TotalOf(game, T)
  <2>1. CASE t.op = "guess"
    <3>1. /\ t.who \in Players /\ t.who \notin Submitted(game, t.rd) /\ t.who \notin t.missing
          /\ t.missing \cap Submitted(game, t.rd) = {}
      BY <2>1 DEF InGame
    <3>. DEFINE g == InsertGuess(game, t.rd, t.who, t.pts)
    <3>. HIDE DEF g, own
    <3>2. game \in Games /\ Summed(game) /\ t.rd \in 1..Rounds /\ t.pts \in 0..MaxScore
      BY <1>1
    <3>4. /\ g \in Games /\ Summed(g)
          /\ g.status = game.status /\ g.round = game.round /\ g.player = game.player
      BY <3>1, <3>2, InsertGuessFacts DEF g
    <3>5. \A T \in SUBSET Players :
             TotalOf(g, T) = IF t.who \in T THEN TotalOf(game, T) + t.pts ELSE TotalOf(game, T)
      BY <3>1, <3>2, InsertGuessFacts DEF g
    <3>6. Submitted(g, t.rd) = Submitted(game, t.rd) \cup {t.who}
      BY <3>1, <3>2, InsertGuessFacts DEF g
    <3>7. \A q \in 1..Rounds : q # t.rd => g.guess[q] = game.guess[q]
      BY <3>1, <3>2, InsertGuessFacts DEF g
    <3>3. own = g
      BY <2>1 DEF g, own
    <3>. QED  BY <1>1, <2>1, <3>1, <3>3, <3>4, <3>5, <3>6, <3>7
  <2>2. CASE t.op # "guess"
    BY <1>1, <2>2 DEF InGame
  <2>. QED  BY <2>1, <2>2
<1>. HIDE DEF own
<1>3. \A r \in 1..Rounds : game.round[r] = "completed" => r # t.rd
  BY <1>1
<1>4. \A r \in 1..Rounds : game.round[r] # "cancelled"
  BY <1>1 DEF MInv, DecidedInv
<1>5. CASE ~t.closing
  <2>1. h = own
    BY <1>5 DEF PlayedGame, own
  <2>2. ActiveRounds(own) = {t.rd}
    BY <1>1, <1>2 DEF ActiveRounds
  <2>. QED  BY SMTT(30), <1>2, <1>3, <1>4, <2>1, <2>2, FS_Singleton
<1>6. CASE t.closing
  <2>1. h = CompleteRound(zero, t.rd)
    BY <1>6 DEF PlayedGame, own
  <2>2. /\ zero \in Games /\ Summed(zero)
        /\ zero.status = own.status /\ zero.round = own.round /\ zero.player = own.player
        /\ zero.total = own.total
        /\ \A q \in 1..Rounds : q # t.rd => zero.guess[q] = own.guess[q]
    BY <1>1, <1>2, ZeroFillFacts
  <2>. HIDE DEF zero
  <2>3. ActiveRounds(zero) = {t.rd} /\ PendingRounds(zero) = PendingRounds(game)
    BY <1>1, <1>2, <2>2 DEF ActiveRounds, PendingRounds
  <2>4. /\ h \in Games /\ Summed(h)
        /\ h.guess = zero.guess /\ h.total = zero.total /\ h.player = zero.player
        /\ \A q \in 1..Rounds : /\ zero.round[q] = "completed" => h.round[q] = "completed"
                                /\ h.round[q] = "cancelled" => zero.round[q] = "cancelled"
        /\ PendingRounds(zero) = {} => /\ h.status = "completed"
                                       /\ ActiveRounds(h) = {} /\ PendingRounds(h) = {}
        /\ PendingRounds(zero) # {} => /\ h.status = "active"
                                       /\ ActiveRounds(h) = {Min(PendingRounds(zero))}
    BY <1>2, <2>1, <2>2, <2>3, CompleteRoundFacts
  <2>5. \A T \in SUBSET Players : TotalOf(h, T) = TotalOf(own, T)
    BY <2>2, <2>4 DEF TotalOf
  <2>6. PendingRounds(zero) # {} => Cardinality(ActiveRounds(h)) = 1
    <3>1. PendingRounds(zero) # {} => \E n : ActiveRounds(h) = {n}
      BY <2>4
    <3>. QED  BY <3>1, FS_Singleton
  <2>7. \A r \in 1..Rounds : h.round[r] # "cancelled"
    BY <1>2, <1>4, <2>2, <2>4
  <2>8. \A r \in 1..Rounds : game.round[r] = "completed" =>
           h.round[r] = "completed" /\ h.guess[r] = game.guess[r]
    BY <1>2, <1>3, <2>2, <2>4
  <2>9. /\ h.player = game.player
        /\ \/ h.status = "active" /\ Cardinality(ActiveRounds(h)) = 1
           \/ /\ h.status = "completed" /\ ActiveRounds(h) = {} /\ PendingRounds(h) = {}
              /\ t.closing /\ PendingRounds(game) = {}
    BY <1>2, <1>6, <2>2, <2>3, <2>4, <2>6
  <2>. QED  BY <1>2, <2>4, <2>5, <2>7, <2>8, <2>9
<1>. QED  BY <1>5, <1>6

(* Scores have a verdict.                                                   *)
LEMMA VerdictType ==
    ASSUME NEW g \in Games
    PROVE  /\ ScoreVerdict(g) \in Verdicts /\ ScoreVerdict(g) # Undecided
           /\ ScoreVerdict(g).by = "score"
           /\ <<TotalOf(g, TeamOne), TotalOf(g, TeamTwo)>> \in Nat \X Nat
<1>1. TotalOf(g, TeamOne) \in Nat /\ TotalOf(g, TeamTwo) \in Nat
  BY TotalType, TeamsAssumption
<1>2. DecideTeamResult(TotalOf(g, TeamOne), TotalOf(g, TeamTwo)) \in 0..2
  BY <1>1 DEF DecideTeamResult
<1>. QED  BY <1>1, <1>2 DEF ScoreVerdict, Verdicts, Undecided

(* A rating is made of the verdict or left pending.                         *)
LEMMA TryRateFacts ==
    ASSUME NEW m \in Match, m.rated \in {Undecided, m.verdict}, NEW n \in TryRate(m)
    PROVE  /\ n \in Match /\ n.status = m.status /\ n.verdict = m.verdict /\ n.scores = m.scores
           /\ n.rated \in {m.rated, m.verdict} /\ (m.rated # Undecided => n = m)
<1>1. CASE n = m
  BY <1>1
<1>2. CASE m.rated = Undecided /\ n = [m EXCEPT !.rated = m.verdict]
  BY <1>2 DEF Match
<1>. QED  BY <1>1, <1>2 DEF TryRate

(* While the game goes on nothing is decided.                               *)
LEMMA NothingDecided ==
    ASSUME MInv, game.status = "active" \/ Live
    PROVE  /\ game.status = "active" /\ match.status = "active"
           /\ match.verdict = Undecided /\ match.rated = Undecided
BY DEF MInv, RowsAgree, DecidedInv, Over, Live, MatchTypeOK, Match

(* What a guess or a deadline writes: the game alone, or, when it ends the  *)
(* game, the match with the scores it leaves.                               *)
LEMMA CommitWrites ==
    ASSUME MInv, NEW w \in Workers, Commit(w)
    PROVE  LET t == work[w] IN
           /\ t \in Transaction /\ InGame(t, game) /\ Playing(t) /\ (t.op = "close" => t.closing)
           /\ game' = PlayedGame(t)
           /\ game'.status = "active" => match' = match
           /\ game'.status = "completed" =>
                /\ "match" \in t.holds
                /\ match' \in Match /\ match'.status = "completed"
                /\ match'.verdict = ScoreVerdict(game')
                /\ match'.scores = <<TotalOf(game', TeamOne), TotalOf(game', TeamTwo)>>
                /\ match'.rated \in {Undecided, match'.verdict}
           /\ game'.status \in {"active", "completed"}
           /\ UNCHANGED <<mode, quit>>
           /\ \/ Set(w, Idle)
              \/ Set(w, [Idle EXCEPT !.pc = "post"]) /\ game'.status = "completed"
<1>. DEFINE t == work[w]
<1>1. /\ t \in Transaction /\ Sound(t, game, match, quit) /\ t.pc = "commit"
      /\ game' = PlayedGame(t) /\ UNCHANGED <<mode, quit>>
      /\ match \in Match
  BY DEF Commit, MInv, SoundInv, MatchTypeOK, At
<1>2. /\ InGame(t, game) /\ Playing(t) /\ (t.op = "close" => t.closing)
      /\ t.closing => "match" \in t.holds \/ PendingRounds(game) # {}
  BY <1>1 DEF Sound
<1>3. /\ game' \in Games
      /\ \/ game'.status = "active"
         \/ game'.status = "completed" /\ t.closing /\ PendingRounds(game) = {}
  BY <1>1, <1>2, PlayedGameFacts
<1>4. CASE game'.status = "active"
  <2>1. match' = match /\ Set(w, Idle)
    BY <1>4 DEF Commit, Reply
  <2>. QED  BY <1>1, <1>2, <1>4, <2>1
<1>5. CASE game'.status = "completed"
  <2>. DEFINE m == [match EXCEPT !.status = "completed", !.verdict = ScoreVerdict(game'),
                                 !.scores = <<TotalOf(game', TeamOne), TotalOf(game', TeamTwo)>>]
  <2>1. game.status = "active"
    BY <1>2 DEF InGame
  <2>2. match.status = "active" /\ match.verdict = Undecided /\ match.rated = Undecided
    BY <2>1, NothingDecided
  <2>3. match' \in TryRate(m)
    <3>1. match' \in TerminalMatch(game')
      BY <1>5 DEF Commit
    <3>. QED  BY <2>2, <3>1 DEF TerminalMatch
  <2>4. /\ m.status = "completed" /\ m.verdict = ScoreVerdict(game')
        /\ m.scores = <<TotalOf(game', TeamOne), TotalOf(game', TeamTwo)>>
        /\ m.rated = match.rated /\ m \in Match
    <3>1. /\ ScoreVerdict(game') \in Verdicts
          /\ <<TotalOf(game', TeamOne), TotalOf(game', TeamTwo)>> \in Nat \X Nat
      BY <1>3, VerdictType
    <3>. DEFINE V == ScoreVerdict(game')
                S == <<TotalOf(game', TeamOne), TotalOf(game', TeamTwo)>>
    <3>. HIDE DEF V, S
    <3>2. V \in Verdicts /\ S \in Nat \X Nat
      BY <3>1 DEF V, S
    <3>3. m = [match EXCEPT !.status = "completed", !.verdict = V, !.scores = S]
      BY DEF V, S
    <3>. HIDE DEF m
    <3>4. m.status = "completed" /\ m.verdict = V /\ m.scores = S /\ m.rated = match.rated /\ m \in Match
      BY <1>1, <3>2, <3>3 DEF Match
    <3>. QED  BY <3>4 DEF V, S
  <2>. HIDE DEF m
  <2>5. /\ match' \in Match /\ match'.status = "completed" /\ match'.verdict = ScoreVerdict(game')
        /\ match'.scores = <<TotalOf(game', TeamOne), TotalOf(game', TeamTwo)>>
        /\ match'.rated \in {Undecided, match'.verdict}
    BY <2>2, <2>3, <2>4, TryRateFacts
  <2>6. Set(w, Idle) \/ Set(w, [Idle EXCEPT !.pc = "post"])
    BY <1>5 DEF Commit, Reply
  <2>7. "match" \in t.holds
    BY <1>2, <1>3, <1>5
  <2>. QED  BY <1>1, <1>2, <1>5, <2>5, <2>6, <2>7
<1>. QED  BY <1>3, <1>4, <1>5

(* A transaction that writes the rows it holds and lets go of them leaves   *)
(* the others as they were.                                                 *)
LEMMA OthersStay ==
    ASSUME MInv, NEW w \in Workers, NEW t \in Transaction, Set(w, t), t.holds = {},
           Sound(t, game', match', quit'),
           Free(w, "game") \/ (game'.status = game.status /\ game'.round = game.round /\ game'.guess = game.guess),
           Free(w, "match") \/ (match'.status = match.status /\ quit' = quit),
           match.status = "completed" => match'.status = "completed"
    PROVE  work' \in [Workers -> Transaction] /\ SoundInv' /\ Exclusive'
<1>1. work' \in [Workers -> Transaction]
  BY DEF Set, MInv, MatchTypeOK
<1>2. \A v \in Workers : work'[v] = IF v = w THEN t ELSE work[v]
  BY DEF Set, MInv, MatchTypeOK
<1>3. ASSUME NEW v \in Workers \ {w} PROVE Sound(work[v], game', match', quit')
  <2>1. Sound(work[v], game, match, quit)
    BY DEF MInv, SoundInv
  <2>2. "game" \in work[v].holds =>
          game'.status = game.status /\ game'.round = game.round /\ game'.guess = game.guess
    BY DEF Free
  <2>3. "match" \in work[v].holds => match'.status = match.status /\ quit' = quit
    BY DEF Free
  <2>. QED  BY <2>1, <2>2, <2>3, SoundStays
<1>4. SoundInv'
  BY <1>2, <1>3 DEF SoundInv
<1>5. Exclusive'
  BY <1>2 DEF MInv, Exclusive
<1>. QED  BY <1>1, <1>4, <1>5

LEMMA CommitStep ==
    ASSUME MInv, NEW w \in Workers, Commit(w)
    PROVE  MInv'
<1>. DEFINE t == work[w]
            post == [Idle EXCEPT !.pc = "post"]
<1>1. /\ t \in Transaction /\ InGame(t, game) /\ Playing(t) /\ (t.op = "close" => t.closing)
      /\ game' = PlayedGame(t)
      /\ game'.status = "active" => match' = match
      /\ game'.status = "completed" =>
           /\ "match" \in t.holds
           /\ match' \in Match /\ match'.status = "completed"
           /\ match'.verdict = ScoreVerdict(game')
           /\ match'.scores = <<TotalOf(game', TeamOne), TotalOf(game', TeamTwo)>>
           /\ match'.rated \in {Undecided, match'.verdict}
      /\ game'.status \in {"active", "completed"}
      /\ UNCHANGED <<mode, quit>>
      /\ Set(w, Idle) \/ (Set(w, post) /\ game'.status = "completed")
  BY CommitWrites
<1>2. /\ game' \in Games /\ Summed(game')
      /\ \/ game'.status = "active" /\ Cardinality(ActiveRounds(game')) = 1
         \/ game'.status = "completed" /\ ActiveRounds(game') = {} /\ PendingRounds(game') = {}
      /\ \A r \in 1..Rounds : game'.round[r] # "cancelled"
  BY <1>1, PlayedGameFacts
<1>3. /\ match.status = "active" /\ match.verdict = Undecided /\ match.rated = Undecided
      /\ match \in Match
  BY <1>1, NothingDecided DEF InGame, MInv, MatchTypeOK
<1>4. Undecided.by # "score" /\ ScoreVerdict(game') # Undecided /\ ScoreVerdict(game').by = "score"
  BY <1>2, VerdictType DEF Undecided
<1>5. Free(w, "game") /\ (game'.status = "completed" => Free(w, "match"))
  BY <1>1, HeldIsFree DEF InGame
<1>6. post \in Transaction /\ post.holds = {} /\ post.pc = "post"
  BY IdleType DEF Transaction
<1>7. Set(w, post) => Sound(post, game', match', quit') \/ game'.status = "active"
  BY <1>1, <1>6 DEF Sound
<1>8. work' \in [Workers -> Transaction] /\ SoundInv' /\ Exclusive'
  <2>. HIDE DEF post
  <2>1. CASE game'.status = "active"
    BY <1>1, <1>5, <2>1, IdleSound, IdleType, OthersStay
  <2>2. CASE game'.status = "completed"
    BY <1>1, <1>3, <1>5, <1>6, <1>7, <2>2, IdleSound, IdleType, OthersStay
  <2>. QED  BY <1>1, <2>1, <2>2
<1>9. MatchTypeOK'
  BY <1>1, <1>2, <1>3, <1>8 DEF MInv, MatchTypeOK
<1>10. RowsAgree'
  <2>1. CASE game'.status = "active"
    BY <1>1, <1>2, <1>3, <1>4, <2>1 DEF RowsAgree, Over, Summed
  <2>2. CASE game'.status = "completed"
    BY <1>1, <1>2, <1>4, <2>2 DEF RowsAgree, Over, Summed, ScoreVerdict
  <2>. QED  BY <1>1, <2>1, <2>2
<1>11. DecidedInv'
  BY <1>1, <1>2, <1>3, <1>4 DEF DecidedInv, Live
<1>. QED  BY <1>8, <1>9, <1>10, <1>11 DEF MInv

(* A rating, by the hook after the commit or by the retry, changes nothing  *)
(* but the match row's rated.                                               *)
LEMMA RatingKeeps ==
    ASSUME MInv, match' \in TryRate(match), UNCHANGED <<mode, game, quit>>
    PROVE  /\ match' \in Match /\ match'.status = match.status
           /\ RowsAgree' /\ DecidedInv'
<1>1. /\ match' \in Match /\ match'.status = match.status
      /\ match'.verdict = match.verdict /\ match'.scores = match.scores
      /\ match'.rated \in {match.rated, match.verdict}
  BY TryRateFacts DEF MInv, MatchTypeOK, DecidedInv
<1>2. match'.rated \in {Undecided, match'.verdict}
  BY <1>1 DEF MInv, DecidedInv
<1>. QED  BY <1>1, <1>2 DEF MInv, RowsAgree, DecidedInv, Over, Live, ScoreVerdict

LEMMA PostCommitStep ==
    ASSUME MInv, NEW w \in Workers, PostCommit(w)
    PROVE  MInv'
<1>1. Set(w, Idle) /\ match' \in TryRate(match) /\ UNCHANGED <<mode, game, quit>>
  BY DEF PostCommit, Reply
<1>2. match' \in Match /\ match'.status = match.status /\ RowsAgree' /\ DecidedInv'
  BY <1>1, RatingKeeps
<1>3. work' \in [Workers -> Transaction] /\ SoundInv' /\ Exclusive'
  BY <1>1, <1>2, IdleSound, IdleType, OthersStay
<1>4. MatchTypeOK'
  BY <1>1, <1>2, <1>3 DEF MInv, MatchTypeOK
<1>. QED  BY <1>2, <1>3, <1>4 DEF MInv

(* What a leave or a closure writes: the match is decided, and the game is  *)
(* abandoned as it stands.                                                  *)
LEMMA EndMatchWrites ==
    ASSUME MInv, NEW w \in Workers, EndMatch(w)
    PROVE  /\ game.status = "active" /\ match.status = "active"
           /\ match.verdict = Undecided /\ match.rated = Undecided
           /\ match' \in Match /\ match'.status = "completed" /\ match'.rated = Undecided
           /\ match'.verdict \in [by : {"forfeit"}, winner : {1, 2}]
                                    \cup {[by |-> "abandoned", winner |-> 0]}
           /\ quit' \subseteq Players
           /\ game' \in Games /\ Summed(game')
           /\ game'.guess = game.guess /\ game'.total = game.total
           /\ game'.status = "abandoned" /\ ActiveRounds(game') = {} /\ PendingRounds(game') = {}
           /\ \A r \in 1..Rounds : game.round[r] = "completed" <=> game'.round[r] = "completed"
           /\ "match" \in work[w].holds /\ Free(w, "game") /\ Set(w, Idle) /\ mode' = mode
<1>. DEFINE r == work[w]
            leaver == IF r.op = "leave" THEN {r.who} ELSE {}
            out == IF r.op = "leave" THEN [by |-> "forfeit", winner |-> Opponents(r.who)]
                   ELSE [by |-> "abandoned", winner |-> 0]
            went == [p \in Players |-> IF p \in leaver THEN "left" ELSE game.player[p]]
            g == [game EXCEPT !.player = went]
<1>1. /\ r \in Transaction /\ Sound(r, game, match, quit) /\ r.pc = "end"
      /\ game \in Games /\ match \in Match /\ Summed(game)
  BY DEF EndMatch, MInv, SoundInv, MatchTypeOK, RowsAgree, Summed, At
<1>2. /\ match' = [match EXCEPT !.status = "completed", !.verdict = out]
      /\ quit' = quit \cup leaver
      /\ game' = AbandonGame(g)
      /\ Set(w, Idle) /\ mode' = mode /\ Free(w, "game")
  BY DEF EndMatch, Reply
<1>3. Ending(r) /\ r.holds = {"match"} /\ Live
  BY <1>1 DEF Sound, Live
<1>4. /\ game.status = "active" /\ match.status = "active"
      /\ match.verdict = Undecided /\ match.rated = Undecided
  BY <1>3, NothingDecided
<1>5. leaver \subseteq Players
  BY <1>3 DEF Ending
<1>6. /\ g \in Games /\ g.status = "active" /\ g.guess = game.guess /\ g.total = game.total
      /\ g.round = game.round
  <2>1. went \in [Players -> PlayerStatuses]
    <3>1. game.player \in [Players -> PlayerStatuses] /\ "left" \in PlayerStatuses
      BY <1>1 DEF Games, PlayerStatuses
    <3>. HIDE DEF leaver
    <3>. QED  BY <3>1
  <2>. HIDE DEF went
  <2>. QED  BY <1>1, <1>4, <2>1 DEF Games
<1>7. Summed(g)
  BY <1>1, <1>6 DEF Summed, ScoredBy
<1>. HIDE DEF g
<1>8. /\ game' \in Games /\ Summed(game')
      /\ game'.guess = g.guess /\ game'.total = g.total
      /\ game'.status = "abandoned" /\ ActiveRounds(game') = {} /\ PendingRounds(game') = {}
      /\ \A q \in 1..Rounds : g.round[q] = "completed" <=> game'.round[q] = "completed"
  BY <1>2, <1>6, <1>7, AbandonGameFacts
<1>9. out \in [by : {"forfeit"}, winner : {1, 2}] \cup {[by |-> "abandoned", winner |-> 0]}
  BY DEF Opponents
<1>10. match' \in Match /\ match'.status = "completed" /\ match'.rated = Undecided /\ match'.verdict = out
  <2>1. out \in Verdicts
    BY DEF Verdicts, Opponents
  <2>. HIDE DEF out
  <2>. QED  BY <1>1, <1>2, <1>4, <2>1 DEF Match
<1>11. quit' \subseteq Players
  BY <1>2, <1>5 DEF MInv, MatchTypeOK
<1>. HIDE DEF out, leaver, went
<1>. QED  BY <1>2, <1>3, <1>4, <1>6, <1>8, <1>9, <1>10, <1>11

LEMMA EndMatchStep ==
    ASSUME MInv, NEW w \in Workers, EndMatch(w)
    PROVE  MInv'
<1>1. /\ match' \in Match /\ match'.status = "completed" /\ match'.rated = Undecided
      /\ match'.verdict.by \in {"forfeit", "abandoned"} /\ match'.verdict # Undecided
      /\ quit' \subseteq Players
      /\ game' \in Games /\ Summed(game')
      /\ game'.status = "abandoned" /\ ActiveRounds(game') = {} /\ PendingRounds(game') = {}
      /\ "match" \in work[w].holds /\ Free(w, "game") /\ Set(w, Idle) /\ mode' = mode
  BY EndMatchWrites DEF Undecided
<1>2. work' \in [Workers -> Transaction] /\ SoundInv' /\ Exclusive'
  BY <1>1, HeldIsFree, IdleSound, IdleType, OthersStay
<1>3. MatchTypeOK'
  BY <1>1, <1>2 DEF MInv, MatchTypeOK
<1>4. RowsAgree' /\ DecidedInv'
  BY <1>1 DEF RowsAgree, DecidedInv, Over, Live, Summed
<1>. QED  BY <1>2, <1>3, <1>4 DEF MInv

(* A connection or the clock changes what no transaction has locked.        *)
LEMMA ClockStep ==
    ASSUME MInv, UNCHANGED <<mode, match, quit, work>>, game' \in Games,
           game'.status = game.status, game'.round = game.round,
           game'.guess = game.guess, game'.total = game.total
    PROVE  MInv'
<1>1. MatchTypeOK'
  BY DEF MInv, MatchTypeOK
<1>2. \A T : TotalOf(game', T) = TotalOf(game, T)
  BY DEF TotalOf
<1>3. RowsAgree' /\ DecidedInv'
  BY <1>2 DEF MInv, RowsAgree, DecidedInv, Over, Live, ScoreVerdict, ActiveRounds, PendingRounds, ScoredBy
<1>4. SoundInv'
  <2>. SUFFICES ASSUME NEW w \in Workers PROVE Sound(work[w], game', match, quit)
    BY DEF SoundInv
  <2>1. Sound(work[w], game, match, quit)
    BY DEF MInv, SoundInv
  <2>. QED  BY <2>1, SoundStays
<1>. QED  BY <1>1, <1>3, <1>4 DEF MInv, Exclusive

LEMMA MarkConnectionWrites ==
    ASSUME MInv, NEW p \in Players, MarkConnection(p)
    PROVE  /\ UNCHANGED <<mode, match, quit, work>> /\ game' \in Games
           /\ game'.status = game.status /\ game'.round = game.round
           /\ game'.guess = game.guess /\ game'.total = game.total
<1>. DEFINE went == [game.player EXCEPT ![p] = IF @ = "active" THEN "disconnected" ELSE "active"]
<1>1. game \in Games /\ UNCHANGED <<mode, match, quit, work>>
  BY DEF MInv, MatchTypeOK, MarkConnection
<1>2. went \in [Players -> PlayerStatuses]
  BY <1>1 DEF Games, PlayerStatuses
<1>3. game' = [game EXCEPT !.player = went]
  BY <1>1 DEF MarkConnection, Games
<1>. HIDE DEF went
<1>. QED  BY <1>1, <1>2, <1>3 DEF Games

LEMMA RoundClockWrites ==
    ASSUME MInv, RoundOpens \/ RoundFallsDue
    PROVE  /\ UNCHANGED <<mode, match, quit, work>> /\ game' \in Games
           /\ game'.status = game.status /\ game'.round = game.round
           /\ game'.guess = game.guess /\ game'.total = game.total
<1>1. game \in Games
  BY DEF MInv, MatchTypeOK
<1>. QED  BY <1>1 DEF RoundOpens, RoundFallsDue, Games

LEMMA RetryRatingStep ==
    ASSUME MInv, RetryRating
    PROVE  MInv'
<1>1. match' \in TryRate(match) /\ UNCHANGED <<mode, game, quit, work>>
  BY DEF RetryRating, TryRate
<1>2. match' \in Match /\ match'.status = match.status /\ RowsAgree' /\ DecidedInv'
  BY <1>1, RatingKeeps
<1>3. MatchTypeOK'
  BY <1>1, <1>2 DEF MInv, MatchTypeOK
<1>4. SoundInv'
  <2>. SUFFICES ASSUME NEW w \in Workers PROVE Sound(work[w], game, match', quit)
    BY <1>1 DEF SoundInv
  <2>1. Sound(work[w], game, match, quit)
    BY DEF MInv, SoundInv
  <2>. QED  BY <1>2, <2>1, SoundStays
<1>. QED  BY <1>1, <1>2, <1>3, <1>4 DEF MInv, Exclusive

-----------------------------------------------------------------------------
(* Every step keeps the invariant.                                          *)
LEMMA MInvNext == MInv /\ [Next]_vars => MInv'
<1>. SUFFICES ASSUME MInv, [Next]_vars PROVE MInv'
  OBVIOUS
<1>1. CASE UNCHANGED vars
  <2>1. game \in Games /\ UNCHANGED <<mode, game, match, quit, work>>
    BY <1>1 DEF vars, MInv, MatchTypeOK
  <2>. QED  BY <2>1, ClockStep
<1>2. ASSUME NEW w \in Requests, NEW p \in Players, NEW s \in Scores[p], StartGuess(w, p, s)
      PROVE  MInv'
  BY <1>2, StartGuessStep DEF Workers
<1>3. ASSUME NEW w \in Requests, StartClose(w) PROVE MInv'
  BY <1>3, BeginCloseStep DEF StartClose, Workers
<1>4. CASE SweepDeadlines
  <2>1. CASE BeginClose(Sweeper)
    BY <1>4, <2>1, BeginCloseStep DEF SweepDeadlines, Workers
  <2>2. CASE UNCHANGED work
    <3>1. game \in Games /\ UNCHANGED <<mode, game, match, quit, work>>
      BY <1>4, <2>2 DEF SweepDeadlines, MInv, MatchTypeOK
    <3>. QED  BY <3>1, ClockStep
  <2>. QED  BY <1>4, <2>1, <2>2 DEF SweepDeadlines
<1>5. ASSUME NEW w \in Requests, NEW p \in Players, StartLeave(w, p) PROVE MInv'
  BY <1>5, StartLeaveStep DEF Workers
<1>6. ASSUME NEW w \in Requests, StartInactive(w) PROVE MInv'
  BY <1>6, StartInactiveStep DEF Workers
<1>7. ASSUME NEW w \in Workers, Proceed(w) PROVE MInv'
  BY <1>7, LockGameStep, CountStep, FillStep, LockMatchStep, CommitStep, PostCommitStep, EndMatchStep
     DEF Proceed
<1>8. ASSUME NEW w \in Workers, BreakDeadlock(w) PROVE MInv'
  BY <1>8, ReplyStep DEF BreakDeadlock
<1>9. ASSUME NEW p \in Flaky, MarkConnection(p) PROVE MInv'
  BY <1>9, FlakyAssumption, MarkConnectionWrites, ClockStep
<1>10. CASE RetryRating
  BY <1>10, RetryRatingStep
<1>11. CASE RoundOpens \/ RoundFallsDue
  BY <1>11, RoundClockWrites, ClockStep
<1>. QED  BY <1>1, <1>2, <1>3, <1>4, <1>5, <1>6, <1>7, <1>8, <1>9, <1>10, <1>11 DEF Next

(* The invariant of MatchGame: what transactions have read of the rows they *)
(* hold is true, and the two rows agree.                                    *)
THEOREM MatchInvariant == Spec => []MInv
<1>1. Init => MInv
  BY MInvInit
<1>2. MInv /\ [Next]_vars => MInv'
  BY MInvNext
<1>. QED  BY <1>1, <1>2, PTL DEF Spec

(* Readers change nothing of the match: what holds of MatchGame holds of it *)
(* beside MatchViews too.                                                   *)
THEOREM ViewsOnlyRead == ViewSpec => Spec
<1>1. ViewInit => Init
  BY DEF ViewInit
<1>2. [ViewNext]_viewVars => [Next]_vars
  <2>1. ASSUME NEW w \in Readers, Read(w) PROVE UNCHANGED vars
    BY <2>1 DEF Read, ReadRound, ReadSharedRound, ReadTerminal, ReadSnapshot, Ask, ReadPlayers,
                ReadCurrent, ReadRounds, ReadGuesses, EndView
  <2>. QED  BY <2>1 DEF ViewNext, Write, viewVars, vars
<1>. QED  BY <1>1, <1>2, PTL DEF ViewSpec, Spec

(* The match's row and the game's rows, written by two packages under locks *)
(* taken in opposite orders, agree after every transaction: RowsAgree.      *)
THEOREM RowsTellOneStory == ViewSpec => []RowsAgree
<1>1. MInv => RowsAgree
  BY DEF MInv
<1>. QED  BY <1>1, MatchInvariant, ViewsOnlyRead, PTL

(* The game, the match and the transactions have their types.               *)
THEOREM MatchTypeCorrect == ViewSpec => []MatchTypeOK
<1>1. MInv => MatchTypeOK
  BY DEF MInv
<1>. QED  BY <1>1, MatchInvariant, ViewsOnlyRead, PTL

-----------------------------------------------------------------------------
(* The contest.                                                             *)

(* What a step may write of the game and the match: nothing that counts, a  *)
(* rating, or what a commit and the end of a match write.                   *)
SameGame == game'.status = game.status /\ game'.round = game.round
            /\ game'.guess = game.guess /\ game'.total = game.total

LEMMA StepWrites ==
    ASSUME MInv, [Next]_vars
    PROVE  \/ UNCHANGED <<mode, match>> /\ SameGame
           \/ match' \in TryRate(match) /\ UNCHANGED <<mode, game>>
           \/ \E w \in Workers : Commit(w) \/ EndMatch(w)
<1>1. CASE UNCHANGED <<mode, game, match>>
  BY <1>1 DEF SameGame
<1>2. ASSUME NEW w \in Workers, Proceed(w), ~Commit(w), ~EndMatch(w)
      PROVE  UNCHANGED <<mode, game, match>> \/ (match' \in TryRate(match) /\ UNCHANGED <<mode, game>>)
  BY <1>2 DEF Proceed, LockGame, Count, Fill, LockMatch, PostCommit
<1>3. ASSUME NEW p \in Flaky, MarkConnection(p) PROVE UNCHANGED <<mode, match>> /\ SameGame
  BY <1>3, FlakyAssumption, MarkConnectionWrites DEF SameGame
<1>4. CASE RetryRating
  BY <1>4 DEF RetryRating, TryRate
<1>5. CASE RoundOpens \/ RoundFallsDue
  BY <1>5, RoundClockWrites DEF SameGame
<1>6. CASE \/ \E w \in Requests, p \in Players : \E s \in Scores[p] : StartGuess(w, p, s)
           \/ \E w \in Requests : StartClose(w)
           \/ SweepDeadlines
           \/ \E w \in Requests, p \in Players : StartLeave(w, p)
           \/ \E w \in Requests : StartInactive(w)
           \/ \E w \in Workers : BreakDeadlock(w)
           \/ UNCHANGED vars
  <2>1. UNCHANGED <<mode, game, match>>
    BY <1>6 DEF StartGuess, StartClose, SweepDeadlines, StartLeave, StartInactive, BreakDeadlock, vars
  <2>. QED  BY <1>1, <2>1
<1>. QED  BY <1>1, <1>2, <1>3, <1>4, <1>5, <1>6 DEF Next

Score(g) == <<TotalOf(g, TeamOne), TotalOf(g, TeamTwo)>>

(* The verdict by scores is the abstract one.                               *)
LEMMA VerdictByScores ==
    ASSUME NEW g
    PROVE  ScoreVerdict(g) = [by |-> "score",
              winner |-> IF Score(g)[1] > Score(g)[2] THEN 1
                         ELSE IF Score(g)[2] > Score(g)[1] THEN 2 ELSE 0]
BY DEF ScoreVerdict, DecideTeamResult, Score

(* A match begins undecided at nil-nil.                                     *)
LEMMA ContestBegins == Init => Contest!ContestInit
<1>. SUFFICES ASSUME Init PROVE Contest!ContestInit
  OBVIOUS
<1>. DEFINE ph == IF mode = "ranked" THEN "countdown" ELSE "open"
<1>1. /\ game = NewGame(Players, ph)
      /\ \A T \in SUBSET Players : TotalOf(game, T) = 0
  BY NewGameFacts DEF Init
<1>2. TotalOf(game, TeamOne) = 0 /\ TotalOf(game, TeamTwo) = 0
  BY <1>1, TeamsAssumption
<1>3. match.verdict = Undecided /\ match.rated = Undecided
  BY DEF Init
<1>4. <<TotalOf(game, TeamOne), TotalOf(game, TeamTwo)>> = [t \in {1, 2} |-> 0]
  BY <1>2
<1>. QED  BY <1>3, <1>4 DEF Contest!ContestInit, Contest!Undecided, Contest!Teams, Undecided

(* A rating changes nothing but the rating, and rates what was decided.     *)
LEMMA RatingRefines ==
    ASSUME MInv, match' \in TryRate(match), UNCHANGED game
    PROVE  /\ match'.verdict = match.verdict
           /\ \/ match'.rated = match.rated
              \/ match.rated = Undecided /\ match'.rated = match'.verdict /\ match'.verdict # Undecided
<1>1. /\ match'.verdict = match.verdict /\ match'.rated \in {match.rated, match.verdict}
      /\ (match.rated # Undecided => match' = match)
  BY TryRateFacts DEF MInv, MatchTypeOK, DecidedInv
<1>. QED  BY <1>1

(* A guess adds its points to one side's score.                             *)
LEMMA GuessScores ==
    ASSUME MInv, NEW w \in Workers, Commit(w)
    PROVE  \E t \in {1, 2}, s \in 0..MaxScore : Score(game') = [Score(game) EXCEPT ![t] = @ + s]
<1>. DEFINE r == work[w]
            a == TotalOf(game, TeamOne)
            b == TotalOf(game, TeamTwo)
<1>1. /\ r \in Transaction /\ InGame(r, game) /\ Playing(r) /\ (r.op = "close" => r.closing)
      /\ game' = PlayedGame(r)
  BY CommitWrites
<1>2. \A T \in SUBSET Players :
        TotalOf(game', T) = IF r.op = "guess" /\ r.who \in T THEN TotalOf(game, T) + r.pts
                            ELSE TotalOf(game, T)
  BY <1>1, PlayedGameFacts
<1>3. a \in Nat /\ b \in Nat /\ r.pts \in 0..MaxScore /\ TeamOne \subseteq Players /\ TeamTwo \subseteq Players
  BY <1>1, TotalType, TeamsAssumption DEF MInv, MatchTypeOK, Transaction
<1>4. /\ TotalOf(game', TeamOne) = IF r.op = "guess" /\ r.who \in TeamOne THEN a + r.pts ELSE a
      /\ TotalOf(game', TeamTwo) = IF r.op = "guess" /\ r.who \in TeamTwo THEN b + r.pts ELSE b
  BY <1>2, <1>3
<1>5. Score(game) = <<a, b>> /\ Score(game') = <<TotalOf(game', TeamOne), TotalOf(game', TeamTwo)>>
  BY DEF Score
<1>. HIDE DEF a, b
<1>6. CASE r.op = "guess" /\ r.who \in TeamOne
  <2>1. Score(game') = <<a + r.pts, b>>
    BY <1>4, <1>5, <1>6, TeamsAssumption
  <2>2. <<a + r.pts, b>> = [<<a, b>> EXCEPT ![1] = @ + r.pts]
    BY <1>3
  <2>. QED  BY <1>3, <1>5, <2>1, <2>2
<1>7. CASE r.op = "guess" /\ r.who \in TeamTwo
  <2>1. Score(game') = <<a, b + r.pts>>
    BY <1>4, <1>5, <1>7, TeamsAssumption
  <2>2. <<a, b + r.pts>> = [<<a, b>> EXCEPT ![2] = @ + r.pts]
    BY <1>3
  <2>. QED  BY <1>3, <1>5, <2>1, <2>2
<1>8. CASE r.op # "guess"
  <2>1. Score(game') = <<a, b>>
    BY <1>4, <1>5, <1>8
  <2>2. <<a, b>> = [<<a, b>> EXCEPT ![1] = @ + 0]
    BY <1>3
  <2>. QED  BY <1>5, <2>1, <2>2, ScoreAssumption
<1>9. r.op = "guess" => r.who \in TeamOne \cup TeamTwo
  BY <1>1, TeamsAssumption DEF InGame
<1>. QED  BY <1>6, <1>7, <1>8, <1>9

(* Every step is a step of the contest or leaves it alone.                  *)
LEMMA ContestSteps ==
    ASSUME MInv, [Next]_vars
    PROVE  [Contest!ContestNext]_<<Score(game), match.verdict, match.rated>>
<1>1. CASE UNCHANGED <<mode, match>> /\ SameGame
  BY <1>1 DEF SameGame, Score, TotalOf
<1>2. CASE match' \in TryRate(match) /\ UNCHANGED <<mode, game>>
  <2>1. UNCHANGED Score(game)
    BY <1>2 DEF Score
  <2>2. match'.verdict = match.verdict /\ (match'.rated = match.rated \/ Contest!Rate)
    BY <1>2, RatingRefines DEF Contest!Rate, Contest!Undecided, Undecided
  <2>. QED  BY <2>1, <2>2 DEF Contest!ContestNext, Score
<1>3. ASSUME NEW w \in Workers, EndMatch(w) PROVE Contest!ContestNext
  <2>1. /\ match.verdict = Undecided /\ match.rated = Undecided /\ match'.rated = Undecided
        /\ match'.verdict \in [by : {"forfeit"}, winner : {1, 2}] \cup {[by |-> "abandoned", winner |-> 0]}
        /\ game'.total = game.total
    BY <1>3, EndMatchWrites
  <2>2. UNCHANGED Score(game)
    BY <2>1 DEF Score, TotalOf
  <2>3. Contest!BreakOff
    BY <2>1, <2>2 DEF Contest!BreakOff, Contest!Undecided, Contest!Teams, Undecided, Score
  <2>. QED  BY <2>1, <2>3 DEF Contest!ContestNext
<1>4. ASSUME NEW w \in Workers, Commit(w) PROVE Contest!ContestNext
  <2>1. match.verdict = Undecided /\ match.rated = Undecided
    BY <1>4, CommitWrites, NothingDecided DEF InGame
  <2>2. \E t \in {1, 2}, s \in 0..MaxScore : Score(game') = [Score(game) EXCEPT ![t] = @ + s]
    BY <1>4, GuessScores
  <2>3. \/ match' = match
        \/ /\ match'.verdict = ScoreVerdict(game') /\ match'.rated \in {Undecided, match'.verdict}
           /\ match'.verdict # Undecided
    <3>1. /\ game'.status = "active" => match' = match
          /\ game'.status = "completed" =>
               match'.verdict = ScoreVerdict(game') /\ match'.rated \in {Undecided, match'.verdict}
          /\ game'.status \in {"active", "completed"}
      BY <1>4, CommitWrites
    <3>2. ScoreVerdict(game') # Undecided
      BY DEF ScoreVerdict, Undecided
    <3>. QED  BY <3>1, <3>2
  <2>4. ScoreVerdict(game') = Contest!ByScores'
    BY VerdictByScores DEF Contest!ByScores, Score
  <2>5. Contest!Play
    BY <2>1, <2>2, <2>3, <2>4 DEF Contest!Play, Contest!Undecided, Contest!Teams, Undecided, Score
  <2>6. Contest!Rate \/ match'.rated = match.rated
    BY <2>1, <2>3 DEF Contest!Rate, Contest!Undecided, Undecided
  <2>. QED  BY <2>5, <2>6 DEF Contest!ContestNext
<1>. QED  BY <1>1, <1>2, <1>3, <1>4, StepWrites

(* The match is decided once and rated for that result only, whatever the   *)
(* order of guesses, deadlines, leaves and retries: ImplementsContest.      *)
THEOREM MatchImplementsContest == ViewSpec => ImplementsContest
<1>1. Init => Contest!ContestInit
  BY ContestBegins
<1>2. MInv /\ [Next]_vars => [Contest!ContestNext]_<<<<TotalOf(game, TeamOne), TotalOf(game, TeamTwo)>>, match.verdict, match.rated>>
  BY ContestSteps DEF Score
<1>. QED  BY <1>1, <1>2, MatchInvariant, ViewsOnlyRead, PTL DEF Spec, ImplementsContest, Contest!Contest

-----------------------------------------------------------------------------
(* What players are shown.                                                  *)

(* A completed round is not written again, and of a match that has ended    *)
(* only a rating that was pending.                                          *)
ResultsKept ==
    /\ \A r \in 1..Rounds : game.round[r] = "completed" =>
          game'.round[r] = "completed" /\ game'.guess[r] = game.guess[r]
    /\ match.status = "completed" =>
         /\ match'.status = "completed" /\ match'.verdict = match.verdict
         /\ match.rated # Undecided => match'.rated = match.rated
         /\ game'.total = game.total /\ game'.round = game.round
    /\ mode' = mode

LEMMA StepKeepsResults ==
    ASSUME MInv, [Next]_vars
    PROVE  ResultsKept
<1>1. CASE UNCHANGED <<mode, match>> /\ SameGame
  BY <1>1 DEF SameGame, ResultsKept
<1>2. CASE match' \in TryRate(match) /\ UNCHANGED <<mode, game>>
  <2>1. /\ match'.verdict = match.verdict /\ match'.status = match.status
        /\ match.rated # Undecided => match' = match
    BY <1>2, TryRateFacts DEF MInv, MatchTypeOK, DecidedInv
  <2>. QED  BY <1>2, <2>1 DEF ResultsKept
<1>3. ASSUME NEW w \in Workers, EndMatch(w) PROVE ResultsKept
  <2>1. /\ match.status = "active" /\ mode' = mode /\ game'.guess = game.guess
        /\ \A r \in 1..Rounds : game.round[r] = "completed" <=> game'.round[r] = "completed"
    BY <1>3, EndMatchWrites
  <2>. QED  BY <2>1 DEF ResultsKept
<1>4. ASSUME NEW w \in Workers, Commit(w) PROVE ResultsKept
  <2>. DEFINE t == work[w]
  <2>1. /\ t \in Transaction /\ InGame(t, game) /\ Playing(t) /\ (t.op = "close" => t.closing)
        /\ game' = PlayedGame(t) /\ mode' = mode
    BY <1>4, CommitWrites
  <2>2. match.status = "active"
    BY <2>1, NothingDecided DEF InGame
  <2>3. \A r \in 1..Rounds : game.round[r] = "completed" =>
           game'.round[r] = "completed" /\ game'.guess[r] = game.guess[r]
    BY <2>1, PlayedGameFacts
  <2>. QED  BY <2>1, <2>2, <2>3 DEF ResultsKept
<1>. QED  BY <1>1, <1>2, <1>3, <1>4, StepWrites

(* What has been shown or decided stands from one step to the next.         *)
THEOREM ResultsAreKept == ViewSpec => [][ResultsKept]_vars
<1>1. MInv /\ [Next]_vars => [ResultsKept]_vars
  BY StepKeepsResults
<1>. QED  BY <1>1, MatchInvariant, ViewsOnlyRead, PTL DEF Spec

(* Of several completed rounds one is the last.                             *)
LEMMA LastRoundOf ==
    ASSUME NEW S \in SUBSET (1..Rounds), S # {}
    PROVE  Max(S) \in S
<1>. DEFINE Left == {Rounds - r : r \in S}
<1>1. Left \subseteq Nat /\ Left # {}
  <2>1. \A r \in 1..Rounds : Rounds - r \in Nat
    BY RoundsAssumption
  <2>. QED  BY <2>1
<1>2. PICK n \in Left : \A m \in Left : n <= m
  <2>. HIDE DEF Left
  <2>. QED  BY <1>1, LeastNumber
<1>3. PICK x \in S : n = Rounds - x
  BY <1>2
<1>4. \A y \in S : x >= y
  BY <1>2, <1>3, RoundsAssumption
<1>. QED  BY <1>3, <1>4 DEF Max

(* What a reader has read so far is what the rows say, as far as it is      *)
(* final: revealed rounds, and everything once the match has ended.         *)
ViewSound(v) ==
    /\ v.pc \in {"idle", "players", "current", "rounds"} => v.rounds = {}
    /\ v.pc \in {"players", "rounds"} => v.of \in {"terminal", "snapshot"}
    /\ v.pc = "current" => v.of = "snapshot"
    /\ \A r \in v.rounds : Revealed(r)
    /\ v.of = "terminal" =>
         /\ match.status = "completed" /\ v.verdict = match.verdict
         /\ mode = "ranked" => v.rated = match.rated /\ v.rated # Undecided
         /\ v.pc \in {"rounds", "guesses", "told"} => v.totals = game.total
         /\ v.pc \in {"guesses", "told"} => v.rounds = CompletedRounds
    /\ v.of = "snapshot" /\ v.over =>
         /\ match.status = "completed"
         /\ v.pc \in {"current", "rounds", "guesses"} => v.totals = game.total
         /\ v.pc \in {"rounds", "guesses", "told"} => v.current = NoRound
         /\ v.pc = "told" => \A p \in Players : v.totals[p] \in {Hidden, game.total[p]}
    /\ v.pc = "told" =>
         \A r \in v.rounds : v.guesses[r] = [p \in Players |-> RevealedGuess(v.of, r, p)]

ViewInv == ViewTypeOK /\ \A w \in Readers : ViewSound(view[w])

(* A view stays sound while the match goes on beside it.                    *)
LEMMA ViewsAge ==
    ASSUME MInv, ResultsKept, NEW v \in Views, ViewSound(v)
    PROVE  ViewSound(v)'
<1>1. \A r \in v.rounds : r \in 1..Rounds /\ game.round[r] = "completed"
  BY DEF ViewSound, Revealed, Views
<1>2. \A r \in v.rounds : game'.round[r] = "completed" /\ game'.guess[r] = game.guess[r]
  BY <1>1 DEF ResultsKept
<1>3. \A r \in v.rounds, p \in Players : RevealedGuess(v.of, r, p)' = RevealedGuess(v.of, r, p)
  BY <1>2 DEF RevealedGuess
<1>4. match.status = "completed" => CompletedRounds' = CompletedRounds
  BY DEF ResultsKept, CompletedRounds
<1>5. v.pc = "told" =>
         \A r \in v.rounds : v.guesses[r] = [p \in Players |-> RevealedGuess(v.of, r, p)']
  BY <1>3 DEF ViewSound
<1>6. v.of = "terminal" =>
         /\ match'.status = "completed" /\ v.verdict = match'.verdict
         /\ mode' = "ranked" => v.rated = match'.rated /\ v.rated # Undecided
         /\ v.pc \in {"rounds", "guesses", "told"} => v.totals = game'.total
         /\ v.pc \in {"guesses", "told"} => v.rounds = CompletedRounds'
  BY <1>4 DEF ViewSound, ResultsKept
<1>7. v.of = "snapshot" /\ v.over =>
         /\ match'.status = "completed"
         /\ v.pc \in {"current", "rounds", "guesses"} => v.totals = game'.total
         /\ v.pc \in {"rounds", "guesses", "told"} => v.current = NoRound
         /\ v.pc = "told" => \A p \in Players : v.totals[p] \in {Hidden, game'.total[p]}
  BY DEF ViewSound, ResultsKept
<1>. QED  BY <1>2, <1>5, <1>6, <1>7 DEF ViewSound, Revealed

LEMMA NoViewType == NoView \in Views
<1>1. NoGuess \in -2..MaxScore /\ 0 \in 0..Rounds
  BY ScoreAssumption, RoundsAssumption DEF NoGuess
<1>2. NoGuesses \in [1..Rounds -> [Players -> -2..MaxScore]]
  BY <1>1 DEF NoGuesses
<1>3. [p \in Players |-> 0] \in [Players -> Nat \cup {Hidden}]
  OBVIOUS
<1>4. Undecided \in Verdicts
  BY DEF Undecided, Verdicts
<1>. QED  BY <1>1, <1>2, <1>3, <1>4 DEF NoView, Views, NoRound

LEMMA ViewBegins == ViewInit => ViewInv
<1>. SUFFICES ASSUME ViewInit PROVE ViewInv
  OBVIOUS
<1>1. ViewSound(NoView)
  BY DEF ViewSound, NoView
<1>2. MatchTypeOK
  BY MInvInit DEF ViewInit, MInv
<1>. QED  BY <1>1, <1>2, NoViewType DEF ViewInv, ViewTypeOK, ViewInit

(* A statement of one reader, or the start of a request.                    *)
LEMMA ShowStep ==
    ASSUME ViewInv, NEW w \in Readers, NEW v \in Views, ViewSound(v), Show(w, v), UNCHANGED vars
    PROVE  ViewInv'
<1>1. \A u \in Views : ViewSound(u)' <=> ViewSound(u)
  BY DEF vars, ViewSound, Revealed, CompletedRounds, RevealedGuess
<1>2. \A u \in Readers : view'[u] = IF u = w THEN v ELSE view[u]
  BY DEF Show, ViewInv, ViewTypeOK
<1>3. view' \in [Readers -> Views]
  BY DEF Show, ViewInv, ViewTypeOK
<1>4. MatchTypeOK'
  BY DEF vars, ViewInv, ViewTypeOK, MatchTypeOK
<1>. QED  BY <1>1, <1>2, <1>3, <1>4 DEF ViewInv, ViewTypeOK

LEMMA ReadRoundStep ==
    ASSUME ViewInv, NEW w \in Readers, NEW r \in 1..Rounds, NEW k \in {"round", "shared"},
           Revealed(r), Ask(w, k, [NoView EXCEPT !.pc = "guesses", !.rounds = {r}])
    PROVE  ViewInv'
<1>. DEFINE v == [NoView EXCEPT !.pc = "guesses", !.rounds = {r}, !.of = k]
<1>1. v \in Views /\ v.pc = "guesses" /\ v.rounds = {r} /\ v.of = k
  BY NoViewType DEF Views
<1>2. Show(w, v) /\ UNCHANGED vars
  BY DEF Ask
<1>. HIDE DEF v
<1>3. ViewSound(v)
  BY <1>1 DEF ViewSound
<1>. QED  BY <1>1, <1>2, <1>3, ShowStep

LEMMA ReadTerminalStep ==
    ASSUME ViewInv, NEW w \in Readers, ReadTerminal(w)
    PROVE  ViewInv'
<1>. DEFINE v == [NoView EXCEPT !.pc = "players", !.over = TRUE, !.verdict = match.verdict,
                                !.rated = match.rated, !.of = "terminal"]
<1>1. match.verdict \in Verdicts /\ match.rated \in Verdicts
  BY DEF ViewInv, ViewTypeOK, MatchTypeOK, Match
<1>2. /\ v \in Views /\ v.pc = "players" /\ v.rounds = NoView.rounds /\ v.of = "terminal"
      /\ v.verdict = match.verdict /\ v.rated = match.rated
  BY <1>1, NoViewType DEF Views
<1>3. Show(w, v) /\ UNCHANGED vars
  BY DEF ReadTerminal, Ask
<1>. HIDE DEF v
<1>4. ViewSound(v)
  BY <1>2 DEF ViewSound, ReadTerminal, NoView
<1>. QED  BY <1>2, <1>3, <1>4, ShowStep

LEMMA ReadSnapshotStep ==
    ASSUME ViewInv, NEW w \in Readers, NEW p \in Viewers, ReadSnapshot(w, p)
    PROVE  ViewInv'
<1>. DEFINE over == match.status = "completed"
            v == [NoView EXCEPT !.pc = "players", !.who = p, !.over = over, !.of = "snapshot"]
<1>1. over \in BOOLEAN /\ p \in Players
  BY ReadersAssumption
<1>. HIDE DEF over
<1>2. /\ v \in Views /\ v.pc = "players" /\ v.rounds = NoView.rounds /\ v.of = "snapshot"
      /\ v.over = over
  BY <1>1, NoViewType DEF Views
<1>3. Show(w, v) /\ UNCHANGED vars
  BY DEF ReadSnapshot, Ask, over
<1>. HIDE DEF v
<1>4. ViewSound(v)
  BY <1>2 DEF ViewSound, NoView, over
<1>. QED  BY <1>2, <1>3, <1>4, ShowStep

LEMMA ReadPlayersStep ==
    ASSUME ViewInv, NEW w \in Readers, ReadPlayers(w)
    PROVE  ViewInv'
<1>. DEFINE u == view[w]
            pc == IF u.of = "snapshot" THEN "current" ELSE "rounds"
            v == [u EXCEPT !.totals = game.total, !.pc = pc]
<1>1. u \in Views /\ ViewSound(u) /\ u.pc = "players" /\ Show(w, v) /\ UNCHANGED vars
  BY DEF ViewInv, ViewTypeOK, ReadPlayers
<1>2. game.total \in [Players -> Nat \cup {Hidden}]
  BY DEF ViewInv, ViewTypeOK, MatchTypeOK, Games
<1>3. /\ v \in Views /\ v.pc = pc /\ v.of = u.of /\ v.rounds = u.rounds /\ v.totals = game.total
      /\ v.over = u.over /\ v.verdict = u.verdict /\ v.rated = u.rated
  BY <1>1, <1>2 DEF Views
<1>4. pc \in {"current", "rounds"} /\ (pc = "current" <=> u.of = "snapshot")
  OBVIOUS
<1>. HIDE DEF v, pc
<1>5. ViewSound(v)
  BY <1>1, <1>3, <1>4 DEF ViewSound
<1>. QED  BY <1>1, <1>3, <1>5, ShowStep

LEMMA ReadCurrentStep ==
    ASSUME ViewInv, MInv, NEW w \in Readers, ReadCurrent(w)
    PROVE  ViewInv'
<1>. DEFINE u == view[w]
            c == IF ActiveRounds(game) = {} THEN NoRound ELSE Min(ActiveRounds(game))
            v == [u EXCEPT !.pc = "rounds", !.current = c]
<1>1. u \in Views /\ ViewSound(u) /\ u.pc = "current" /\ Show(w, v) /\ UNCHANGED vars
  BY DEF ViewInv, ViewTypeOK, ReadCurrent
<1>2. c \in 0..Rounds
  BY FirstRound, RoundsAssumption DEF ActiveRounds, NoRound
<1>3. match.status = "completed" => c = NoRound
  BY DEF MInv, RowsAgree
<1>. HIDE DEF c
<1>4. /\ v \in Views /\ v.pc = "rounds" /\ v.of = u.of /\ v.rounds = u.rounds /\ v.totals = u.totals
      /\ v.over = u.over /\ v.current = c
  BY <1>1, <1>2 DEF Views
<1>. HIDE DEF v
<1>5. ViewSound(v)
  BY <1>1, <1>3, <1>4 DEF ViewSound
<1>. QED  BY <1>1, <1>4, <1>5, ShowStep

LEMMA ReadRoundsStep ==
    ASSUME ViewInv, NEW w \in Readers, ReadRounds(w)
    PROVE  ViewInv'
<1>. DEFINE u == view[w]
            S == IF u.of = "terminal" \/ CompletedRounds = {} THEN CompletedRounds
                 ELSE {Max(CompletedRounds)}
            v == [u EXCEPT !.pc = "guesses", !.rounds = S]
<1>1. u \in Views /\ ViewSound(u) /\ u.pc = "rounds" /\ Show(w, v) /\ UNCHANGED vars
  BY DEF ViewInv, ViewTypeOK, ReadRounds
<1>2. S \subseteq CompletedRounds /\ (u.of = "terminal" => S = CompletedRounds)
  BY LastRoundOf DEF CompletedRounds
<1>. HIDE DEF S
<1>3. S \subseteq 1..Rounds /\ \A r \in S : Revealed(r)
  BY <1>2 DEF CompletedRounds, Revealed
<1>4. /\ v \in Views /\ v.pc = "guesses" /\ v.of = u.of /\ v.rounds = S /\ v.totals = u.totals
      /\ v.over = u.over /\ v.current = u.current /\ v.verdict = u.verdict /\ v.rated = u.rated
  BY <1>1, <1>3 DEF Views
<1>. HIDE DEF v
<1>5. ViewSound(v)
  BY <1>1, <1>2, <1>3, <1>4 DEF ViewSound
<1>. QED  BY <1>1, <1>4, <1>5, ShowStep

LEMMA ReadGuessesStep ==
    ASSUME ViewInv, NEW w \in Readers, ReadGuesses(w)
    PROVE  ViewInv'
<1>. DEFINE u == view[w]
            T == [p \in Players |-> IF Redacted(u, p) THEN Hidden ELSE u.totals[p]]
            G == [r \in 1..Rounds |->
                    IF r \in u.rounds THEN [p \in Players |-> RevealedGuess(u.of, r, p)]
                    ELSE NoGuesses[r]]
            v == [u EXCEPT !.pc = "told", !.totals = T, !.guesses = G]
<1>1. u \in Views /\ ViewSound(u) /\ u.pc = "guesses" /\ Show(w, v) /\ UNCHANGED vars
  BY DEF ViewInv, ViewTypeOK, ReadGuesses
<1>2. T \in [Players -> Nat \cup {Hidden}]
  BY <1>1 DEF Views
<1>3. G \in [1..Rounds -> [Players -> -2..MaxScore]]
  <2>1. \A r \in 1..Rounds, p \in Players : RevealedGuess(u.of, r, p) \in -2..MaxScore
    <3>1. game.guess \in [1..Rounds -> [Players -> -2..MaxScore]]
      BY DEF ViewInv, ViewTypeOK, MatchTypeOK, Games
    <3>2. TimedOut \in -2..MaxScore
      BY ScoreAssumption DEF TimedOut
    <3>. QED  BY <3>1, <3>2 DEF RevealedGuess
  <2>2. \A r \in 1..Rounds : NoGuesses[r] \in [Players -> -2..MaxScore]
    BY NoViewType DEF NoView, Views
  <2>3. \A r \in 1..Rounds : [p \in Players |-> RevealedGuess(u.of, r, p)] \in [Players -> -2..MaxScore]
    BY <2>1
  <2>. QED  BY <2>2, <2>3
<1>4. \A r \in u.rounds : G[r] = [p \in Players |-> RevealedGuess(u.of, r, p)]
  BY <1>1 DEF Views
<1>5. \A p \in Players : T[p] \in {Hidden, u.totals[p]}
  OBVIOUS
<1>6. u.of = "terminal" => T = u.totals
  <2>1. u.totals \in [Players -> Nat \cup {Hidden}]
    BY <1>1 DEF Views
  <2>. QED  BY <2>1 DEF Redacted
<1>. HIDE DEF T, G
<1>7. /\ v \in Views /\ v.pc = "told" /\ v.of = u.of /\ v.rounds = u.rounds /\ v.totals = T
      /\ v.over = u.over /\ v.current = u.current /\ v.verdict = u.verdict /\ v.rated = u.rated
      /\ v.guesses = G
  BY <1>1, <1>2, <1>3 DEF Views
<1>. HIDE DEF v
<1>8. ViewSound(v)
  BY <1>1, <1>4, <1>5, <1>6, <1>7 DEF ViewSound
<1>. QED  BY <1>1, <1>7, <1>8, ShowStep

(* Every step of a reader or of the match keeps what readers know sound.    *)
LEMMA ViewStep ==
    ASSUME MInv, ViewInv, [ViewNext]_viewVars
    PROVE  ViewInv'
<1>1. ASSUME NEW w \in Readers, Read(w) PROVE ViewInv'
  <2>1. ASSUME NEW r \in 1..Rounds, ReadRound(w, r) \/ ReadSharedRound(w, r) PROVE ViewInv'
    BY <2>1, ReadRoundStep DEF ReadRound, ReadSharedRound
  <2>2. CASE EndView(w)
    <3>1. ViewSound(NoView)
      BY DEF ViewSound, NoView
    <3>. QED  BY <2>2, <3>1, NoViewType, ShowStep DEF EndView
  <2>. QED  BY <1>1, <2>1, <2>2, ReadTerminalStep, ReadSnapshotStep, ReadPlayersStep,
               ReadCurrentStep, ReadRoundsStep, ReadGuessesStep DEF Read
<1>2. CASE [Next]_vars /\ UNCHANGED view
  <2>1. ResultsKept /\ MInv'
    BY <1>2, StepKeepsResults, MInvNext
  <2>2. ASSUME NEW w \in Readers PROVE ViewSound(view[w])'
    <3>1. view[w] \in Views /\ ViewSound(view[w])
      BY DEF ViewInv, ViewTypeOK
    <3>2. ASSUME NEW v \in Views, ViewSound(v) PROVE ViewSound(v)'
      BY <2>1, <3>2, ViewsAge
    <3>. QED  BY <1>2, <3>1, <3>2
  <2>. QED  BY <1>2, <2>1, <2>2 DEF ViewInv, ViewTypeOK, MInv
<1>. QED  BY <1>1, <1>2 DEF ViewNext, Write, viewVars, vars

(* What was told as revealed or final is what the rows say.                 *)
LEMMA SoundViewsStand ==
    ASSUME MInv, ViewInv
    PROVE  ResultsStand
<1>1. \A w \in Readers : view[w] \in Views /\ ViewSound(view[w])
  BY DEF ViewInv, ViewTypeOK
<1>2. ASSUME NEW v \in Told({"round", "shared", "terminal", "snapshot"})
      PROVE  v \in Views /\ ViewSound(v) /\ v.pc = "told"
  BY <1>1 DEF Told
<1>3. ASSUME NEW v \in Told({"terminal"})
      PROVE  v \in Views /\ ViewSound(v) /\ v.pc = "told" /\ v.of = "terminal"
  BY <1>1 DEF Told
<1>4. ASSUME NEW v \in Told({"snapshot"})
      PROVE  v \in Views /\ ViewSound(v) /\ v.pc = "told" /\ v.of = "snapshot"
  BY <1>1 DEF Told
<1>5. ASSUME NEW v \in Told({"terminal"}), v.verdict.by = "score", NEW p \in Players
      PROVE  v.totals[p] = SumFunction([r \in 1..Rounds |-> Points(v.guesses[r][p])])
  <2>1. /\ v.totals = game.total /\ v.verdict = match.verdict /\ v.rounds = CompletedRounds
        /\ \A r \in v.rounds : v.guesses[r] = [q \in Players |-> RevealedGuess("terminal", r, q)]
    BY <1>3 DEF ViewSound
  <2>2. game.status = "completed"
    BY <1>5, <2>1 DEF MInv, RowsAgree
  <2>3. \A r \in 1..Rounds : game.round[r] = "completed"
    <3>1. \A r \in 1..Rounds : game.round[r] \in RoundStatuses \ {"cancelled"}
      BY <2>2 DEF MInv, MatchTypeOK, Games, DecidedInv
    <3>2. ActiveRounds(game) = {} /\ PendingRounds(game) = {}
      BY <2>2 DEF MInv, RowsAgree, Over
    <3>. QED  BY <3>1, <3>2 DEF ActiveRounds, PendingRounds, RoundStatuses
  <2>4. \A r \in 1..Rounds : v.guesses[r][p] = game.guess[r][p]
    <3>1. \A r \in 1..Rounds : v.guesses[r] = [q \in Players |-> RevealedGuess("terminal", r, q)]
      BY <2>1, <2>3 DEF CompletedRounds
    <3>2. \A r \in 1..Rounds, q \in Players : RevealedGuess("terminal", r, q) = game.guess[r][q]
      BY DEF RevealedGuess
    <3>. QED  BY ZenonT(30), <3>1, <3>2
  <2>5. [r \in 1..Rounds |-> Points(v.guesses[r][p])] = [r \in 1..Rounds |-> Points(game.guess[r][p])]
    BY <2>4
  <2>6. game.total[p] = ScoredBy(game, p)
    BY DEF MInv, RowsAgree
  <2>. QED  BY <2>1, <2>5, <2>6 DEF ScoredBy
<1>6. \A v \in Told({"round", "shared", "terminal", "snapshot"}) : \A r \in v.rounds :
         game.round[r] = "completed" /\ v.guesses[r] = [p \in Players |-> RevealedGuess(v.of, r, p)]
  BY <1>2 DEF ViewSound, Revealed
<1>7. \A v \in Told({"terminal"}) :
         /\ v.verdict = match.verdict /\ v.totals = game.total
         /\ mode = "ranked" => v.rated = v.verdict
  BY <1>3 DEF ViewSound, MInv, DecidedInv
<1>8. \A v \in Told({"snapshot"}) : v.over =>
         /\ v.current = NoRound
         /\ \A p \in Players : v.totals[p] \in {Hidden, game.total[p]}
  BY <1>4 DEF ViewSound
<1>. QED  BY <1>5, <1>6, <1>7, <1>8 DEF ResultsStand

(* Answers put together from several statements, without a lock, beside     *)
(* guesses, deadlines, leaves and ratings, say what the rows say ever after *)
(* of what they show as revealed or final: ResultsStand.                    *)
THEOREM ShownResultsStand == ViewSpec => []ResultsStand
<1>1. ViewInit => ViewInv
  BY ViewBegins
<1>2. MInv /\ ViewInv /\ [ViewNext]_viewVars => ViewInv'
  BY ViewStep
<1>3. MInv /\ ViewInv => ResultsStand
  BY SoundViewsStand
<1>. QED  BY <1>1, <1>2, <1>3, MatchInvariant, ViewsOnlyRead, PTL DEF ViewSpec

(* The readers' views have their type as well.                              *)
THEOREM ViewTypeCorrect == ViewSpec => []ViewTypeOK
<1>1. ViewInit => ViewInv
  BY ViewBegins
<1>2. MInv /\ ViewInv /\ [ViewNext]_viewVars => ViewInv'
  BY ViewStep
<1>3. ViewInv => ViewTypeOK
  BY DEF ViewInv
<1>. QED  BY <1>1, <1>2, <1>3, MatchInvariant, ViewsOnlyRead, PTL DEF ViewSpec
=============================================================================
