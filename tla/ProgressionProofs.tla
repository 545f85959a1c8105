-------------------------- MODULE ProgressionProofs --------------------------
(***************************************************************************)
(* Proofs about Progression, for any users, matches, rosters, seasons and  *)
(* any number of workers of each kind.                                     *)
(*                                                                         *)
(* The row lock of the active season does the work: at most one rating or  *)
(* closing transaction holds it (Exclusive), so the season a rating        *)
(* transaction found active when it took the lock is active still when it  *)
(* writes (WorkersInv), and a closed season is out of its reach.           *)
(*                                                                         *)
(* The row lock of the match does the rest: a worker holds it from the     *)
(* look at the marker to the commit (RatedOnce), so a match is rated once. *)
(* Its changes are then the history of its players (HistoryInv), and the   *)
(* ranks a rollover froze are those of the rows still there (Positions).   *)
(***************************************************************************)
EXTENDS Progression, TLAPS, FiniteSetTheorems, WellFoundedInduction

WorkerState == [step : {"idle", "next", "season", "rate"}, todo : SUBSET Matches,
                match : Matches \cup {None}]

RequestState == [step : {"idle", "profile", "insert"}, users : SUBSET Users,
                 season : Seasons \cup {0}, rating : Nat]

(* One season is active: those before it are closed, those after it do not  *)
(* exist yet.                                                               *)
OneActiveSeason ==
    \E s \in Seasons : \A t \in Seasons :
        status[t] = IF t < s THEN "closed" ELSE IF t = s THEN "active" ELSE "absent"

(* Matches have a season, no match is formed twice, and a request knows     *)
(* which season it is for.                                                  *)
SeasonsKnown ==
    /\ \A m \in Matches : match[m].status # "none" => match[m].season \in Seasons
    /\ \A m \in Matches : forming[m] # 0 => match[m].status = "none"
    /\ \A r \in Requests : request[r].step # "idle" => request[r].season \in Seasons

Done(m) == m \in Matches /\ match[m].status = "completed"

(* Workers deal with ended matches, and rate in the active season.          *)
WorkersInv ==
    \A w \in Workers :
        /\ \A m \in worker[w].todo : Done(m)
        /\ worker[w].step \in {"season", "rate"} => Done(worker[w].match)
        /\ worker[w].step = "rate" => status[match[worker[w].match].season] = "active"

(* Who holds the active season's row excludes everybody else.               *)
Exclusive ==
    /\ \A v, w \in Workers : worker[v].step = "rate" /\ worker[w].step = "rate" => v = w
    /\ \A w \in Workers, p \in Rollers : worker[w].step = "rate" => roller[p] # "closing"
    /\ \A p, q \in Rollers : roller[p] = "closing" /\ roller[q] = "closing" => p = q
    /\ \A p \in Rollers : roller[p] = "closing" => due

PInv == ProgressionTypeOK /\ OneActiveSeason /\ SeasonsKnown /\ WorkersInv /\ Exclusive

-----------------------------------------------------------------------------
(* A nonempty set of seasons has a last one.                                *)
LEMMA LastSeason ==
    ASSUME NEW S \in SUBSET Seasons, S # {}
    PROVE  \E c \in S : \A d \in S : d <= c
<1> DEFINE Below == {MaxSeason - c : c \in S}
<1>1. \A c \in S : MaxSeason - c \in Nat
  BY BoundAssumption DEF Seasons
<1>2. Below \subseteq Nat
  BY <1>1
<1>3. Below # {}
  OBVIOUS
<1> HIDE DEF Below
<1>4. PICK x \in Below : \A y \in Below : <<y, x>> \notin OpToRel(<, Nat)
  BY <1>2, <1>3, NatLessThanWellFounded, WFMin
<1>5. \A y \in Below : ~(y < x)
  BY <1>2, <1>4 DEF OpToRel
<1>6. PICK c \in S : x = MaxSeason - c
  BY DEF Below
<1>7. \A d \in S : MaxSeason - d \in Below
  BY DEF Below
<1>8. \A d \in S : d <= c
  BY <1>5, <1>6, <1>7, BoundAssumption DEF Seasons
<1>. QED  BY <1>8

-----------------------------------------------------------------------------
(* What the transactions write has the types of the tables.                 *)

LEMMA RosterUsers ==
    ASSUME NEW m \in Matches
    PROVE  Roster(m) \subseteq Users
BY TeamAssumption DEF Roster

LEMMA NowType == Now \in Nat
<1>1. IsFiniteSet(Finalized)
  BY MatchesAssumption, FS_Subset DEF Finalized
<1>. QED  BY <1>1, FS_CardinalityType DEF Now

LEMMA NewStandingType ==
    ASSUME NEW rating \in Nat
    PROVE  NewStanding(rating) \in Standing /\ NewStanding(rating).played = 0
BY NowType DEF NewStanding, Standing

LEMMA FlooredType ==
    ASSUME NEW rating \in Int
    PROVE  Floored(rating) \in Nat
BY DEF Floored

LEMMA BeforeType ==
    ASSUME ProgressionTypeOK, NEW m \in Matches, match[m].season \in Seasons, NEW u \in Users
    PROVE  Before(m, u) \in Standing
<1>1. standing[match[m].season][u] \in Standing \cup {None}
  BY DEF ProgressionTypeOK
<1>2. NewStanding(InitialRating) \in Standing
  BY NewStandingType, RatingAssumption
<1>. QED  BY <1>1, <1>2 DEF Before

LEMMA ApplyRatingType ==
    ASSUME ProgressionTypeOK, NEW m \in Matches, match[m].season \in Seasons, NEW u \in Users,
           NEW base \in Int
    PROVE  ApplyRating(m, u, base) \in Nat /\ Penalty(m, u) \in Int
<1>1. Penalty(m, u) \in Int
  BY RatingAssumption DEF Penalty
<1>2. Before(m, u).rating \in Nat
  BY BeforeType DEF Standing
<1>3. ApplyRating(m, u, base) \in Nat
  BY <1>1, <1>2, FlooredType DEF ApplyRating
<1>. QED  BY <1>1, <1>3

LEMMA RatedType ==
    ASSUME ProgressionTypeOK, NEW m \in Matches, match[m].season \in Seasons, NEW u \in Users,
           NEW base \in Int
    PROVE  /\ Rated(m, u, base) \in Standing
           /\ RatingChange(m, u, base) \in Change
           /\ RatingChange(m, u, base).season = match[m].season
<1> DEFINE row == Before(m, u)
           new == ApplyRating(m, u, base)
<1>1. row \in Standing /\ new \in Nat /\ Penalty(m, u) \in Int /\ Now \in Nat
  BY BeforeType, ApplyRatingType, NowType
<1>2. NextPlacements(row.placements) \in Nat
  BY <1>1, RatingAssumption DEF NextPlacements, Standing
<1>3. /\ Count(Outcome(m, u) = "win") \in Nat
      /\ Count(Outcome(m, u) = "loss") \in Nat
      /\ Count(Outcome(m, u) = "draw") \in Nat
      /\ Count(u = match[m].quitter) \in Nat
  BY DEF Count
<1>4. /\ row.played + 1 \in Nat
      /\ row.wins + Count(Outcome(m, u) = "win") \in Nat
      /\ row.losses + Count(Outcome(m, u) = "loss") \in Nat
      /\ row.draws + Count(Outcome(m, u) = "draw") \in Nat
      /\ row.abandons + Count(u = match[m].quitter) \in Nat
  BY <1>1, <1>3 DEF Standing
<1>5. (IF new # row.rating THEN Now ELSE row.reached) \in Nat
  BY <1>1 DEF Standing
<1>6. Rated(m, u, base) \in Standing
  BY ZenonT(60), <1>1, <1>2, <1>4, <1>5 DEF Rated, Standing
<1>7. row.rating \in Nat
  BY <1>1 DEF Standing
<1>8. RatingChange(m, u, base) \in Change
  BY <1>1, <1>7 DEF RatingChange, Change
<1>. QED  BY <1>6, <1>8 DEF RatingChange

LEMMA FrozenRowType ==
    ASSUME ProgressionTypeOK, NEW s \in Seasons, NEW u \in Users, standing[s][u] # None
    PROVE  /\ [standing[s][u] EXCEPT !.position = FinalPosition(s, u),
                                     !.ending = EndingRank(s, u)] \in Standing
           /\ FinalPosition(s, u) \in Nat
<1>1. standing[s][u] \in Standing
  BY DEF ProgressionTypeOK
<1>2. IsFiniteSet({v \in Eligible(s) : Ahead(s, v, u)})
  BY UsersAssumption, FS_Subset, {v \in Eligible(s) : Ahead(s, v, u)} \subseteq Users DEF Eligible
<1>3. FinalPosition(s, u) \in Nat
  BY <1>2, FS_CardinalityType DEF FinalPosition
<1>4. EndingRank(s, u) \in {"none", "division", "legend"}
  BY DEF EndingRank
<1>. QED  BY <1>1, <1>3, <1>4 DEF Standing

LEMMA FreezeType ==
    ASSUME ProgressionTypeOK, NEW s \in Seasons
    PROVE  Freeze(s) \in [Users -> Standing \cup {None}]
BY FrozenRowType DEF Freeze

LEMMA SoftResetType ==
    ASSUME NEW rating \in Nat
    PROVE  SoftReset(rating) \in Nat
<1> DEFINE n == (rating - InitialRating) * ResetBPS
<1>1. n \in Int
  BY RatingAssumption
<1> HIDE DEF n
<1>2. Rounded(n, 10000) \in Int
  BY <1>1 DEF Rounded
<1>3. InitialRating + Rounded(n, 10000) \in Int
  BY <1>2, RatingAssumption
<1>4. Floored(InitialRating + Rounded(n, 10000)) \in Nat
  BY <1>3, FlooredType
<1>. QED  BY <1>4 DEF SoftReset, n

LEMMA StartRatingType ==
    ASSUME ProgressionTypeOK, NEW s \in Seasons, NEW u \in Users
    PROVE  StartRating(u, s) \in Nat
<1>1. CASE ClosedWith(u, s) = {}
  BY <1>1, RatingAssumption DEF StartRating
<1>2. CASE ClosedWith(u, s) # {}
  <2> DEFINE last == CHOOSE c \in ClosedWith(u, s) : \A d \in ClosedWith(u, s) : d <= c
  <2>1. ClosedWith(u, s) \in SUBSET Seasons
    BY DEF ClosedWith
  <2>2. \E c \in ClosedWith(u, s) : \A d \in ClosedWith(u, s) : d <= c
    BY <1>2, <2>1, LastSeason
  <2>3. last \in ClosedWith(u, s)
    BY <2>2
  <2> HIDE DEF last
  <2>4. standing[last][u] \in Standing
    BY <2>3 DEF ClosedWith, ProgressionTypeOK
  <2>5. SoftReset(standing[last][u].rating) \in Nat
    BY <2>4, SoftResetType DEF Standing
  <2>. QED  BY <1>2, <2>5 DEF StartRating, last
<1>. QED  BY <1>1, <1>2

-----------------------------------------------------------------------------
(* A worker that turns to the next match, and any other worker's move.      *)
LEMMA WorkerMoves ==
    ASSUME ProgressionTypeOK, NEW w \in Workers, NEW r \in WorkerState,
           worker' = [worker EXCEPT ![w] = r]
    PROVE  /\ worker' \in [Workers -> WorkerState]
           /\ \A v \in Workers : worker'[v] = IF v = w THEN r ELSE worker[v]
BY DEF ProgressionTypeOK, WorkerState

LEMMA ProceedMoves ==
    ASSUME ProgressionTypeOK, NEW w \in Workers, NEW m \in Matches, Proceed(w, m)
    PROVE  \E r \in WorkerState : /\ worker' = [worker EXCEPT ![w] = r]
                                  /\ r.step \in {"idle", "next"}
                                  /\ r.todo \subseteq worker[w].todo
<1> DEFINE rest == worker[w].todo \ {m}
           r == [step |-> IF rest = {} THEN "idle" ELSE "next", todo |-> rest, match |-> None]
<1>1. r \in WorkerState
  BY DEF WorkerState, ProgressionTypeOK
<1>2. worker' = [worker EXCEPT ![w] = r]
  BY DEF Proceed
<1>. QED  BY <1>1, <1>2

(* The step of a worker whose own record alone changes.                     *)
LEMMA RetryWorkerMoves ==
    ASSUME ProgressionTypeOK, WorkersInv, NEW w \in Workers,
           \/ ListPending(w)
           \/ \E m \in Matches : LockMatch(w, m)
           \/ LockSeason(w)
           \/ RateMatch(w)
    PROVE  \E r \in WorkerState :
              /\ worker' = [worker EXCEPT ![w] = r]
              /\ \A m \in r.todo : Done(m)
              /\ r.step \in {"season", "rate"} => Done(r.match)
              /\ r.step = "rate" => /\ LockSeason(w)
                                    /\ status[match[r.match].season] = "active"
              /\ RateMatch(w) => r.step # "rate"
<1>1. worker[w] \in WorkerState
  BY DEF ProgressionTypeOK, WorkerState
<1>2. \A m \in worker[w].todo : Done(m)
  BY DEF WorkersInv
<1>3. CASE ListPending(w)
  <2> DEFINE r == [step |-> "next", todo |-> Batch, match |-> None]
  <2>1. r \in WorkerState /\ \A m \in Batch : Done(m)
    BY DEF Batch, Pending, WorkerState, Done
  <2>2. worker' = [worker EXCEPT ![w] = r] /\ ~RateMatch(w)
    BY <1>3 DEF ListPending, RateMatch
  <2>. QED  BY <2>1, <2>2
<1>4. CASE \E m \in Matches : LockMatch(w, m)
  <2>1. PICK m \in Matches : LockMatch(w, m)
    BY <1>4
  <2>2. ~RateMatch(w)
    BY <2>1 DEF LockMatch, RateMatch
  <2>3. CASE match[m].finalized
    <3>1. Proceed(w, m)
      BY <2>1, <2>3 DEF LockMatch
    <3>. QED  BY <1>2, <2>2, <3>1, ProceedMoves
  <2>4. CASE ~match[m].finalized
    <3> DEFINE r == [worker[w] EXCEPT !.step = "season", !.match = m]
    <3>1. r \in WorkerState /\ r.step = "season" /\ r.match = m /\ r.todo = worker[w].todo
      BY <1>1 DEF WorkerState
    <3>2. worker' = [worker EXCEPT ![w] = r]
      BY <2>1, <2>4 DEF LockMatch
    <3>3. Done(m)
      BY <1>2, <2>1 DEF LockMatch
    <3>. QED  BY <1>2, <2>2, <3>1, <3>2, <3>3
  <2>. QED  BY <2>3, <2>4
<1>5. CASE LockSeason(w)
  <2> DEFINE m == worker[w].match
  <2>1. Done(m)
    BY <1>5 DEF LockSeason, WorkersInv
  <2>2. ~RateMatch(w)
    BY <1>5 DEF LockSeason, RateMatch
  <2>3. CASE status[match[m].season] = "active"
    <3> DEFINE r == [worker[w] EXCEPT !.step = "rate"]
    <3>1. r \in WorkerState /\ r.step = "rate" /\ r.match = m /\ r.todo = worker[w].todo
      BY <1>1 DEF WorkerState
    <3>2. worker' = [worker EXCEPT ![w] = r]
      BY <1>5, <2>3 DEF LockSeason
    <3>. QED  BY <1>2, <1>5, <2>1, <2>2, <2>3, <3>1, <3>2
  <2>4. CASE status[match[m].season] # "active"
    <3>1. Proceed(w, m)
      BY <1>5, <2>4 DEF LockSeason
    <3>. QED  BY <1>2, <2>1, <2>2, <3>1, ProceedMoves DEF Done
  <2>. QED  BY <2>3, <2>4
<1>6. CASE RateMatch(w)
  <2>1. Done(worker[w].match)
    BY <1>6 DEF RateMatch, WorkersInv
  <2>2. Proceed(w, worker[w].match)
    BY <1>6 DEF RateMatch
  <2>. QED  BY <1>2, <2>1, <2>2, ProceedMoves DEF Done
<1>. QED  BY <1>3, <1>4, <1>5, <1>6

-----------------------------------------------------------------------------
(* The tables keep their types: the actions that write them.                *)
LEMMA RateMatchTypes ==
    ASSUME ProgressionTypeOK, SeasonsKnown, WorkersInv, NEW w \in Workers, RateMatch(w)
    PROVE  /\ match' \in [Matches -> Match]
           /\ standing' \in [Seasons -> [Users -> Standing \cup {None}]]
           /\ change' \in [Matches -> [Users -> Change \cup {None}]]
<1> DEFINE m == worker[w].match
           s == match[m].season
<1>1. m \in Matches /\ s \in Seasons
  BY DEF RateMatch, WorkersInv, SeasonsKnown, Done
<1>2. PICK base \in Elo[match[m].winner] :
         /\ standing' = [standing EXCEPT ![s] =
                [u \in Users |-> IF u \in Roster(m) THEN Rated(m, u, base[SlotOf(m, u)]) ELSE @[u]]]
         /\ change' = [change EXCEPT ![m] =
                [u \in Users |-> IF u \in Roster(m) THEN RatingChange(m, u, base[SlotOf(m, u)]) ELSE @[u]]]
  BY DEF RateMatch
<1>3. match[m].winner \in 0 .. 2
  BY <1>1 DEF ProgressionTypeOK, Match
<1>4. \A u \in Users : base[SlotOf(m, u)] \in Int
  BY SMTT(30), <1>2, <1>3, EloAssumption DEF SlotOf
<1>5. \A u \in Users : /\ Rated(m, u, base[SlotOf(m, u)]) \in Standing
                        /\ RatingChange(m, u, base[SlotOf(m, u)]) \in Change
  BY <1>1, <1>4, RatedType
<1>6. match' = [match EXCEPT ![m].finalized = TRUE]
  BY DEF RateMatch
<1>7. match' \in [Matches -> Match]
  <2>1. match[m] \in Match
    BY <1>1 DEF ProgressionTypeOK
  <2>2. [match[m] EXCEPT !.finalized = TRUE] \in Match
    BY <2>1 DEF Match
  <2>3. match' = [match EXCEPT ![m] = [@ EXCEPT !.finalized = TRUE]]
    BY <1>6
  <2>. QED  BY <1>1, <2>2, <2>3 DEF ProgressionTypeOK
<1> HIDE DEF m, s
<1>8. standing' \in [Seasons -> [Users -> Standing \cup {None}]]
  BY <1>1, <1>2, <1>5 DEF ProgressionTypeOK
<1>9. change' \in [Matches -> [Users -> Change \cup {None}]]
  BY <1>1, <1>2, <1>5 DEF ProgressionTypeOK
<1>. QED  BY <1>7, <1>8, <1>9

LEMMA EndMatchTypes ==
    ASSUME ProgressionTypeOK, NEW m \in Matches, CompleteMatch(m) \/ ForfeitMatch(m)
    PROVE  match' \in [Matches -> Match] /\ match'[m].season = match[m].season
<1>1. PICK winner \in 0 .. 2, quitter \in Users \cup {None} : EndMatch(m, winner, quitter)
  <2>1. CASE CompleteMatch(m)
    BY <2>1, BoundAssumption DEF CompleteMatch
  <2>2. CASE ForfeitMatch(m)
    <3>1. PICK u \in Roster(m) : EndMatch(m, 3 - SlotOf(m, u), u)
      BY <2>2 DEF ForfeitMatch
    <3>2. 3 - SlotOf(m, u) \in 0 .. 2
      BY DEF SlotOf
    <3>. QED  BY <3>1, <3>2, RosterUsers
  <2>. QED  BY <2>1, <2>2
<1> DEFINE n == Cardinality({k \in Matches : match[k].status = "completed"})
<1>2. n \in Nat
  BY MatchesAssumption, FS_Subset, FS_CardinalityType,
     {k \in Matches : match[k].status = "completed"} \subseteq Matches
<1> HIDE DEF n
<1>3. match' = [match EXCEPT ![m] = [@ EXCEPT !.status = "completed", !.winner = winner,
                                              !.quitter = quitter, !.order = n + 1]]
  BY <1>1 DEF EndMatch, n
<1>4. [match[m] EXCEPT !.status = "completed", !.winner = winner,
                       !.quitter = quitter, !.order = n + 1] \in Match
  <2>1. match[m] \in Match
    BY DEF ProgressionTypeOK
  <2>2. n + 1 \in Nat
    BY <1>2
  <2>3. \A k \in Nat : [match[m] EXCEPT !.status = "completed", !.winner = winner,
                                        !.quitter = quitter, !.order = k] \in Match
    BY <2>1 DEF Match
  <2>. QED  BY <2>2, <2>3
<1>5. match'[m].season = match[m].season
  <2>1. match[m] \in Match
    BY DEF ProgressionTypeOK
  <2>. QED  BY <1>3, <2>1 DEF ProgressionTypeOK, Match
<1>. QED  BY <1>3, <1>4, <1>5 DEF ProgressionTypeOK

LEMMA CloseSeasonTypes ==
    ASSUME ProgressionTypeOK, NEW p \in Rollers, CloseSeason(p)
    PROVE  /\ status' \in [Seasons -> {"absent", "active", "closed"}]
           /\ standing' \in [Seasons -> [Users -> Standing \cup {None}]]
<1>1. PICK s \in 1 .. (MaxSeason - 1) :
         /\ standing' = [standing EXCEPT ![s] = Freeze(s)]
         /\ status' = [status EXCEPT ![s] = "closed", ![s + 1] = "active"]
  BY DEF CloseSeason
<1>2. s \in Seasons
  BY BoundAssumption DEF Seasons
<1>3. Freeze(s) \in [Users -> Standing \cup {None}]
  BY <1>2, FreezeType
<1>. QED  BY <1>1, <1>2, <1>3 DEF ProgressionTypeOK

LEMMA InsertStandingsTypes ==
    ASSUME ProgressionTypeOK, SeasonsKnown, NEW r \in Requests, InsertStandings(r)
    PROVE  standing' \in [Seasons -> [Users -> Standing \cup {None}]]
<1> DEFINE s == request[r].season
<1>1. s \in Seasons /\ request[r].rating \in Nat
  BY DEF InsertStandings, SeasonsKnown, ProgressionTypeOK
<1>2. NewStanding(request[r].rating) \in Standing
  BY <1>1, NewStandingType
<1>3. standing' = [standing EXCEPT ![s] =
         [u \in Users |-> IF u \in request[r].users /\ @[u] = None
                          THEN NewStanding(request[r].rating) ELSE @[u]]]
  BY DEF InsertStandings
<1> HIDE DEF s
<1>. QED  BY <1>1, <1>2, <1>3 DEF ProgressionTypeOK

(* Requests keep their types and know their season.                         *)
LEMMA RequestMoves ==
    ASSUME ProgressionTypeOK, SeasonsKnown, NEW r \in Requests,
           \/ \E u \in Users : OpenProfile(r, u)
           \/ ReadPrevious(r)
           \/ \E m \in Matches, slot \in {1, 2} : JoinQueue(r, m, slot)
           \/ InsertStandings(r)
    PROVE  /\ request' \in [Requests -> RequestState]
           /\ \A q \in Requests : request'[q].step # "idle" => request'[q].season \in Seasons
<1>1. request \in [Requests -> RequestState]
  BY DEF ProgressionTypeOK, RequestState
<1>2. SUFFICES \E q \in RequestState : /\ request' = [request EXCEPT ![r] = q]
                                       /\ q.step # "idle" => q.season \in Seasons
  BY <1>1 DEF SeasonsKnown
<1> DEFINE idle == [step |-> "idle", users |-> {}, season |-> 0, rating |-> 0]
<1>3. idle \in RequestState /\ idle.step = "idle"
  BY DEF RequestState
<1>4. CASE \E u \in Users : OpenProfile(r, u)
  <2>1. PICK u \in Users, s \in Seasons :
           request' = [request EXCEPT ![r] = [step |-> "profile", users |-> {u}, season |-> s, rating |-> 0]]
    BY <1>4 DEF OpenProfile
  <2>2. [step |-> "profile", users |-> {u}, season |-> s, rating |-> 0] \in RequestState
    BY DEF RequestState
  <2>. QED  BY <2>1, <2>2
<1>5. CASE ReadPrevious(r)
  <2> DEFINE s == request[r].season
  <2>1. s \in Seasons
    BY <1>5 DEF ReadPrevious, SeasonsKnown
  <2>2. PICK u \in request[r].users :
           request' = [request EXCEPT
               ![r] = IF standing[s][u] # None THEN idle
                      ELSE [@ EXCEPT !.step = "insert", !.rating = StartRating(u, s)]]
    BY <1>5 DEF ReadPrevious
  <2>3. StartRating(u, s) \in Nat
    BY <1>1, <2>1, StartRatingType DEF RequestState
  <2> DEFINE q == [request[r] EXCEPT !.step = "insert", !.rating = StartRating(u, s)]
  <2>4. q \in RequestState /\ q.season = s
    BY <1>1, <2>3 DEF RequestState
  <2>5. request' = [request EXCEPT ![r] = idle] \/ request' = [request EXCEPT ![r] = q]
    BY <1>1, <2>2
  <2> HIDE DEF s, q, idle
  <2>. QED  BY <1>3, <2>1, <2>4, <2>5
<1>6. CASE \E m \in Matches, slot \in {1, 2} : JoinQueue(r, m, slot)
  <2>1. PICK m \in Matches, slot \in {1, 2}, s \in Seasons :
           request' = [request EXCEPT ![r] = [step |-> "insert", users |-> Team[m][slot],
                                              season |-> s, rating |-> InitialRating]]
    BY <1>6 DEF JoinQueue
  <2>2. [step |-> "insert", users |-> Team[m][slot], season |-> s, rating |-> InitialRating] \in RequestState
    BY TeamAssumption, RatingAssumption DEF RequestState
  <2>. QED  BY <2>1, <2>2
<1>7. CASE InsertStandings(r)
  BY <1>3, <1>7 DEF InsertStandings
<1>. QED  BY <1>4, <1>5, <1>6, <1>7

LEMMA InitInv ==
    ASSUME Init
    PROVE  PInv
<1> USE BoundAssumption DEF Init
<1>1. ProgressionTypeOK
  <2>1. match \in [Matches -> Match]
    BY DEF Match
  <2>2. worker \in [Workers -> WorkerState] /\ request \in [Requests -> RequestState]
    BY DEF WorkerState, RequestState
  <2>3. /\ status \in [Seasons -> {"absent", "active", "closed"}]
        /\ standing \in [Seasons -> [Users -> Standing \cup {None}]]
        /\ change \in [Matches -> [Users -> Change \cup {None}]]
        /\ forming \in [Matches -> Seasons \cup {0}]
        /\ roller \in [Rollers -> {"idle", "closing"}]
    OBVIOUS
  <2>. QED  BY <2>1, <2>2, <2>3 DEF ProgressionTypeOK, WorkerState, RequestState
<1>2. OneActiveSeason
  <2>1. 1 \in Seasons
    BY DEF Seasons
  <2>2. \A t \in Seasons : status[t] = IF t < 1 THEN "closed" ELSE IF t = 1 THEN "active" ELSE "absent"
    BY DEF Seasons
  <2>. QED  BY <2>1, <2>2 DEF OneActiveSeason
<1>3. SeasonsKnown /\ WorkersInv /\ Exclusive
  BY DEF SeasonsKnown, WorkersInv, Exclusive
<1>. QED  BY <1>1, <1>2, <1>3 DEF PInv

(* Every step keeps the variables in their types.                           *)
LEMMA StepKeepsTypes ==
    ASSUME PInv, [Next]_vars
    PROVE  ProgressionTypeOK'
<1> USE DEF PInv, db
<1>1. ASSUME NEW m \in Matches, LockUsers(m)
      PROVE  ProgressionTypeOK'
  BY <1>1 DEF LockUsers, ProgressionTypeOK
<1>2. ASSUME NEW m \in Matches, InsertMatch(m)
      PROVE  ProgressionTypeOK'
  <2>1. match' = [match EXCEPT ![m] = [@ EXCEPT !.status = "active", !.season = forming[m]]]
    BY <1>2 DEF InsertMatch
  <2>2. match[m] \in Match /\ forming[m] \in Seasons \cup {0}
    BY DEF ProgressionTypeOK
  <2>3. [match[m] EXCEPT !.status = "active", !.season = forming[m]] \in Match
    BY <2>2 DEF Match
  <2>4. match' \in [Matches -> Match]
    BY <2>1, <2>3 DEF ProgressionTypeOK
  <2>. QED  BY <1>2, <2>4 DEF InsertMatch, ProgressionTypeOK
<1>3. ASSUME NEW m \in Matches, CompleteMatch(m) \/ ForfeitMatch(m)
      PROVE  ProgressionTypeOK'
  BY ZenonT(30), <1>3, EndMatchTypes DEF CompleteMatch, ForfeitMatch, EndMatch, ProgressionTypeOK
<1>4. ASSUME NEW w \in Workers, RetryWorker(w)
      PROVE  ProgressionTypeOK'
  <2>1. worker' \in [Workers -> WorkerState]
    BY <1>4, RetryWorkerMoves, WorkerMoves DEF RetryWorker
  <2>2. CASE RateMatch(w)
    BY <2>1, <2>2, RateMatchTypes DEF RateMatch, ProgressionTypeOK, WorkerState
  <2>3. CASE ~RateMatch(w)
    <3>1. UNCHANGED <<db, forming, roller, request>>
      BY <1>4, <2>3 DEF RetryWorker, ListPending, LockMatch, LockSeason
    <3>. QED  BY <2>1, <3>1 DEF ProgressionTypeOK, WorkerState
  <2>. QED  BY <2>2, <2>3
<1>5. CASE EndSeason
  BY <1>5 DEF EndSeason, ProgressionTypeOK
<1>6. ASSUME NEW p \in Rollers, LockEndedSeason(p)
      PROVE  ProgressionTypeOK'
  BY <1>6 DEF LockEndedSeason, ProgressionTypeOK
<1>7. ASSUME NEW p \in Rollers, CloseSeason(p)
      PROVE  ProgressionTypeOK'
  BY <1>7, CloseSeasonTypes DEF CloseSeason, ProgressionTypeOK
<1>8. ASSUME NEW r \in Requests,
             \/ \E u \in Users : OpenProfile(r, u)
             \/ ReadPrevious(r)
             \/ \E m \in Matches, slot \in {1, 2} : JoinQueue(r, m, slot)
             \/ InsertStandings(r)
      PROVE  ProgressionTypeOK'
  <2>1. request' \in [Requests -> RequestState]
    BY <1>8, RequestMoves
  <2>2. CASE InsertStandings(r)
    BY <2>1, <2>2, InsertStandingsTypes DEF InsertStandings, ProgressionTypeOK, RequestState
  <2>3. CASE ~InsertStandings(r)
    <3>1. UNCHANGED <<db, forming, worker, roller>>
      BY <1>8, <2>3 DEF OpenProfile, ReadPrevious, JoinQueue
    <3>. QED  BY <2>1, <3>1 DEF ProgressionTypeOK, RequestState
  <2>. QED  BY <2>2, <2>3
<1>9. ASSUME NEW w \in Workers, NEW m \in Matches, BreakDeadlock(w, m)
      PROVE  ProgressionTypeOK'
  <2>1. CASE Proceed(w, worker[w].match) /\ UNCHANGED forming
    <3>1. worker[w].match \in Matches
      BY <1>9 DEF BreakDeadlock, Deadlocked, WorkersInv, Done
    <3>2. worker' \in [Workers -> WorkerState]
      BY <2>1, <3>1, ProceedMoves, WorkerMoves
    <3>. QED  BY <1>9, <2>1, <3>2 DEF BreakDeadlock, ProgressionTypeOK, WorkerState
  <2>2. CASE forming' = [forming EXCEPT ![m] = 0] /\ UNCHANGED worker
    BY <1>9, <2>2 DEF BreakDeadlock, ProgressionTypeOK
  <2>. QED  BY <1>9, <2>1, <2>2 DEF BreakDeadlock
<1>10. CASE UNCHANGED vars
  BY <1>10 DEF vars, ProgressionTypeOK
<1>. QED  BY <1>1, <1>2, <1>3, <1>4, <1>5, <1>6, <1>7, <1>8, <1>9, <1>10
             DEF Next, RolloverWorker, Deadlock

-----------------------------------------------------------------------------
(* Nobody rates or closes while the active season's row is free.            *)
LEMMA FreeSeason ==
    ASSUME OneActiveSeason, \A s \in Seasons : ~SeasonHeld(s)
    PROVE  /\ \A w \in Workers : worker[w].step # "rate"
           /\ \A p \in Rollers : roller[p] # "closing"
<1>1. PICK s \in Seasons : status[s] = "active"
  BY DEF OneActiveSeason, Seasons
<1>. QED  BY <1>1 DEF SeasonHeld

(* Ended matches stay ended, in their season, as long as no step starts a   *)
(* match again.                                                             *)
LEMMA DoneStays ==
    ASSUME UNCHANGED worker, UNCHANGED status, WorkersInv,
           \A m \in Matches : Done(m) => /\ match'[m].status = "completed"
                                         /\ match'[m].season = match[m].season
    PROVE  WorkersInv'
<1> SUFFICES ASSUME NEW w \in Workers
             PROVE  /\ \A m \in worker[w].todo : Done(m)'
                    /\ worker[w].step \in {"season", "rate"} => Done(worker[w].match)'
                    /\ worker[w].step = "rate" => status[match'[worker[w].match].season] = "active"
  BY DEF WorkersInv
<1>1. \A m : Done(m) => Done(m)'
  BY DEF Done
<1>2. \A m \in worker[w].todo : Done(m)'
  BY <1>1 DEF WorkersInv
<1>3. ASSUME worker[w].step \in {"season", "rate"}
      PROVE  Done(worker[w].match) /\ Done(worker[w].match)'
  BY <1>1, <1>3 DEF WorkersInv
<1>4. worker[w].step = "rate" => status[match'[worker[w].match].season] = "active"
  BY <1>3 DEF WorkersInv, Done
<1>. QED  BY <1>2, <1>3, <1>4

(* A worker that moves by itself keeps the invariants of the workers.       *)
LEMMA MoveKeepsWorkers ==
    ASSUME ProgressionTypeOK, OneActiveSeason, WorkersInv, Exclusive,
           UNCHANGED <<status, due, roller>>,
           NEW w \in Workers, NEW r \in WorkerState, worker' = [worker EXCEPT ![w] = r],
           \A m \in r.todo : Done(m),
           r.step \in {"season", "rate"} => Done(r.match),
           r.step = "rate" => LockSeason(w) /\ status[match[r.match].season] = "active",
           \A m \in Matches : /\ match'[m].status = match[m].status
                              /\ match'[m].season = match[m].season
    PROVE  WorkersInv' /\ Exclusive'
<1>1. \A v \in Workers : worker'[v] = IF v = w THEN r ELSE worker[v]
  BY WorkerMoves
<1>2. \A m : Done(m) => Done(m)' /\ match'[m].season = match[m].season
  BY DEF Done
<1>3. WorkersInv'
  <2> SUFFICES ASSUME NEW v \in Workers
               PROVE  /\ \A m \in worker'[v].todo : Done(m)'
                      /\ worker'[v].step \in {"season", "rate"} => (Done(worker[v].match))'
                      /\ worker'[v].step = "rate" => status'[match'[worker'[v].match].season] = "active"
    BY DEF WorkersInv, Done
  <2>1. /\ \A m \in worker'[v].todo : Done(m)
        /\ worker'[v].step \in {"season", "rate"} => Done(worker'[v].match)
        /\ worker'[v].step = "rate" => status[match[worker'[v].match].season] = "active"
    BY <1>1 DEF WorkersInv
  <2>2. \A m \in worker'[v].todo : Done(m)'
    BY <1>2, <2>1
  <2>3. worker'[v].step \in {"season", "rate"} => (Done(worker[v].match))'
    BY <1>2, <2>1 DEF Done
  <2>4. worker'[v].step = "rate" => status'[match'[worker'[v].match].season] = "active"
    BY <1>2, <2>1
  <2>. QED  BY <2>2, <2>3, <2>4
<1>4. Exclusive'
  <2>1. CASE r.step = "rate"
    <3>1. /\ \A v \in Workers : worker[v].step # "rate"
          /\ \A p \in Rollers : roller[p] # "closing"
      BY <2>1, FreeSeason DEF LockSeason
    <3>. QED  BY <1>1, <3>1 DEF Exclusive
  <2>2. CASE r.step # "rate"
    BY <1>1, <2>2 DEF Exclusive
  <2>. QED  BY <2>1, <2>2
<1>. QED  BY <1>3, <1>4

(* Every step keeps the rest of the invariant.                              *)
LEMMA StepKeepsInv ==
    ASSUME PInv, [Next]_vars
    PROVE  (OneActiveSeason /\ SeasonsKnown /\ WorkersInv /\ Exclusive)'
<1> USE DEF PInv, db
<1>1. ASSUME NEW m \in Matches, LockUsers(m)
      PROVE  (OneActiveSeason /\ SeasonsKnown /\ WorkersInv /\ Exclusive)'
  <2>1. UNCHANGED <<db, worker, roller, request>>
    BY <1>1 DEF LockUsers
  <2>2. \A k \in Matches : forming'[k] # 0 => match[k].status = "none"
    BY <1>1 DEF LockUsers, SeasonsKnown, ProgressionTypeOK
  <2>3. SeasonsKnown'
    BY <2>1, <2>2 DEF SeasonsKnown
  <2>4. WorkersInv'
    BY <2>1, DoneStays DEF Done
  <2>. QED  BY <2>1, <2>3, <2>4 DEF OneActiveSeason, Exclusive
<1>2. ASSUME NEW m \in Matches, InsertMatch(m)
      PROVE  (OneActiveSeason /\ SeasonsKnown /\ WorkersInv /\ Exclusive)'
  <2>1. UNCHANGED <<status, due, worker, roller, request>>
    BY <1>2 DEF InsertMatch
  <2>2. /\ forming[m] \in Seasons /\ match[m].status = "none"
        /\ \A k \in Matches \ {m} : match'[k] = match[k] /\ forming'[k] = forming[k]
        /\ forming'[m] = 0 /\ match'[m].season = forming[m]
    BY <1>2 DEF InsertMatch, SeasonsKnown, ProgressionTypeOK, Match
  <2>3. SeasonsKnown'
    BY <2>1, <2>2 DEF SeasonsKnown
  <2>4. WorkersInv'
    BY <2>1, <2>2, DoneStays DEF Done
  <2>. QED  BY <2>1, <2>3, <2>4 DEF OneActiveSeason, Exclusive
<1>3. ASSUME NEW m \in Matches, CompleteMatch(m) \/ ForfeitMatch(m)
      PROVE  (OneActiveSeason /\ SeasonsKnown /\ WorkersInv /\ Exclusive)'
  <2>1. UNCHANGED <<status, due, standing, change, forming, worker, roller, request>>
    BY <1>3 DEF CompleteMatch, ForfeitMatch, EndMatch
  <2>2. match[m].status = "active"
    BY <1>3 DEF CompleteMatch, ForfeitMatch, EndMatch
  <2>3. \A k \in Matches \ {m} : match'[k] = match[k]
    BY <1>3 DEF CompleteMatch, ForfeitMatch, EndMatch, ProgressionTypeOK, Match
  <2>4. match'[m].season = match[m].season
    BY <1>3, EndMatchTypes
  <2>5. SeasonsKnown'
    BY <2>1, <2>2, <2>3, <2>4 DEF SeasonsKnown
  <2>6. WorkersInv'
    BY <2>1, <2>2, <2>3, DoneStays DEF Done
  <2>. QED  BY <2>1, <2>5, <2>6 DEF OneActiveSeason, Exclusive
<1>4. ASSUME NEW w \in Workers, RetryWorker(w)
      PROVE  (OneActiveSeason /\ SeasonsKnown /\ WorkersInv /\ Exclusive)'
  <2>1. UNCHANGED <<status, due, forming, roller, request>>
    BY <1>4 DEF RetryWorker, ListPending, LockMatch, LockSeason, RateMatch
  <2>2. \A m \in Matches : match'[m].status = match[m].status /\ match'[m].season = match[m].season
    <3>1. CASE RateMatch(w)
      BY <3>1 DEF RateMatch, ProgressionTypeOK, Match
    <3>2. CASE ~RateMatch(w)
      BY <1>4, <3>2 DEF RetryWorker, ListPending, LockMatch, LockSeason
    <3>. QED  BY <3>1, <3>2
  <2>3. SeasonsKnown'
    BY <2>1, <2>2 DEF SeasonsKnown
  <2>4. WorkersInv' /\ Exclusive'
    BY <1>4, <2>1, <2>2, RetryWorkerMoves, MoveKeepsWorkers DEF RetryWorker
  <2>. QED  BY <2>1, <2>3, <2>4 DEF OneActiveSeason
<1>5. CASE EndSeason
  <2>1. UNCHANGED <<status, match, forming, worker, roller, request>> /\ due' = TRUE
    BY <1>5 DEF EndSeason
  <2>2. WorkersInv'
    BY <2>1, DoneStays DEF Done
  <2>3. Exclusive'
    BY <2>1 DEF Exclusive
  <2>. QED  BY <2>1, <2>2, <2>3 DEF OneActiveSeason, SeasonsKnown
<1>6. ASSUME NEW p \in Rollers, LockEndedSeason(p)
      PROVE  (OneActiveSeason /\ SeasonsKnown /\ WorkersInv /\ Exclusive)'
  <2>1. UNCHANGED <<db, forming, worker, request>> /\ due
    BY <1>6 DEF LockEndedSeason
  <2>2. \A q \in Rollers : roller'[q] = "closing" => q = p
    BY <1>6 DEF LockEndedSeason, ProgressionTypeOK
  <2>3. \A w \in Workers : worker[w].step # "rate"
    BY <1>6, FreeSeason DEF LockEndedSeason
  <2>4. WorkersInv'
    BY <2>1, DoneStays DEF Done
  <2>5. Exclusive'
    BY <2>1, <2>2, <2>3 DEF Exclusive
  <2>. QED  BY <2>1, <2>4, <2>5 DEF OneActiveSeason, SeasonsKnown
<1>7. ASSUME NEW p \in Rollers, CloseSeason(p)
      PROVE  (OneActiveSeason /\ SeasonsKnown /\ WorkersInv /\ Exclusive)'
  <2>1. UNCHANGED <<match, forming, worker, request>>
    BY <1>7 DEF CloseSeason
  <2>2. roller[p] = "closing" /\ \A w \in Workers : worker[w].step # "rate"
    BY <1>7 DEF CloseSeason, Exclusive
  <2>3. \A q \in Rollers : roller'[q] # "closing"
    BY <1>7, <2>2 DEF CloseSeason, Exclusive, ProgressionTypeOK
  <2>4. OneActiveSeason'
    <3>1. PICK s \in 1 .. (MaxSeason - 1) :
             /\ status[s] = "active"
             /\ status' = [status EXCEPT ![s] = "closed", ![s + 1] = "active"]
      BY <1>7 DEF CloseSeason
    <3>2. s \in Seasons /\ s + 1 \in Seasons
      BY BoundAssumption DEF Seasons
    <3>3. PICK a \in Seasons : \A t \in Seasons :
             status[t] = IF t < a THEN "closed" ELSE IF t = a THEN "active" ELSE "absent"
      BY DEF OneActiveSeason
    <3>4. a = s
      BY <3>1, <3>2, <3>3
    <3>5. \A t \in Seasons : status'[t] = IF t = s + 1 THEN "active" ELSE IF t = s THEN "closed" ELSE status[t]
      BY <3>1, <3>2 DEF ProgressionTypeOK, Seasons
    <3>6. \A t \in Seasons : status'[t] = IF t < s + 1 THEN "closed" ELSE IF t = s + 1 THEN "active" ELSE "absent"
      BY <3>2, <3>3, <3>4, <3>5, BoundAssumption DEF Seasons
    <3>. QED  BY <3>2, <3>6 DEF OneActiveSeason
  <2>5. WorkersInv'
    BY <2>1, <2>2 DEF WorkersInv, Done
  <2>6. Exclusive'
    BY <2>1, <2>2, <2>3 DEF Exclusive
  <2>. QED  BY <2>1, <2>4, <2>5, <2>6 DEF SeasonsKnown
<1>8. ASSUME NEW r \in Requests,
             \/ \E u \in Users : OpenProfile(r, u)
             \/ ReadPrevious(r)
             \/ \E m \in Matches, slot \in {1, 2} : JoinQueue(r, m, slot)
             \/ InsertStandings(r)
      PROVE  (OneActiveSeason /\ SeasonsKnown /\ WorkersInv /\ Exclusive)'
  <2>1. UNCHANGED <<status, due, match, forming, worker, roller>>
    BY <1>8 DEF OpenProfile, ReadPrevious, JoinQueue, InsertStandings
  <2>2. \A q \in Requests : request'[q].step # "idle" => request'[q].season \in Seasons
    BY <1>8, RequestMoves
  <2>3. SeasonsKnown'
    BY <2>1, <2>2 DEF SeasonsKnown
  <2>4. WorkersInv'
    BY <2>1, DoneStays DEF Done
  <2>. QED  BY <2>1, <2>3, <2>4 DEF OneActiveSeason, Exclusive
<1>9. ASSUME NEW w \in Workers, NEW m \in Matches, BreakDeadlock(w, m)
      PROVE  (OneActiveSeason /\ SeasonsKnown /\ WorkersInv /\ Exclusive)'
  <2>1. UNCHANGED <<db, roller, request>>
    BY <1>9 DEF BreakDeadlock
  <2>2. CASE Proceed(w, worker[w].match) /\ UNCHANGED forming
    <3>1. worker[w].match \in Matches
      BY <1>9 DEF BreakDeadlock, Deadlocked, WorkersInv, Done
    <3>2. PICK r \in WorkerState : /\ worker' = [worker EXCEPT ![w] = r]
                                  /\ r.step \in {"idle", "next"}
                                  /\ r.todo \subseteq worker[w].todo
      BY <2>2, <3>1, ProceedMoves
    <3>3. \A k \in r.todo : Done(k)
      BY <3>2 DEF WorkersInv
    <3>4. WorkersInv' /\ Exclusive'
      BY <2>1, <3>2, <3>3, MoveKeepsWorkers
    <3>. QED  BY <2>1, <2>2, <3>4 DEF OneActiveSeason, SeasonsKnown
  <2>3. CASE forming' = [forming EXCEPT ![m] = 0] /\ UNCHANGED worker
    <3>1. WorkersInv'
      BY <2>1, <2>3, DoneStays DEF Done
    <3>2. SeasonsKnown'
      BY <2>1, <2>3 DEF SeasonsKnown, ProgressionTypeOK
    <3>. QED  BY <2>1, <2>3, <3>1, <3>2 DEF OneActiveSeason, Exclusive
  <2>. QED  BY <1>9, <2>2, <2>3 DEF BreakDeadlock
<1>10. CASE UNCHANGED vars
  <2>1. UNCHANGED <<status, due, match, forming, worker, roller, request>>
    BY <1>10 DEF vars
  <2>2. WorkersInv'
    BY <2>1, DoneStays DEF Done
  <2>. QED  BY <2>1, <2>2 DEF OneActiveSeason, SeasonsKnown, Exclusive
<1>. QED  BY <1>1, <1>2, <1>3, <1>4, <1>5, <1>6, <1>7, <1>8, <1>9, <1>10
             DEF Next, RolloverWorker, Deadlock

-----------------------------------------------------------------------------
(* A season that is closed is out of every transaction's reach, except for  *)
(* new rows of late requests.                                               *)
LEMMA StepFreezesClosed ==
    ASSUME PInv, [Next]_vars, NEW s \in Seasons, status[s] = "closed"
    PROVE  /\ status'[s] = "closed"
           /\ \A u \in Users : standing[s][u] # None => standing'[s][u] = standing[s][u]
           /\ \A u \in Users : (standing[s][u] = None /\ standing'[s][u] # None) => standing'[s][u].played = 0
           /\ \A m \in Matches, u \in Users :
                 (change[m][u] = None /\ change'[m][u] # None) => change'[m][u].season # s
<1> DEFINE Frozen == /\ status'[s] = "closed"
                     /\ standing'[s] = standing[s]
                     /\ \A m \in Matches, u \in Users :
                           (change[m][u] = None /\ change'[m][u] # None) => change'[m][u].season # s
<1> USE DEF PInv, db
<1>1. CASE UNCHANGED <<status, standing, change>>
  BY <1>1
<1>2. ASSUME NEW w \in Workers, RateMatch(w)
      PROVE  Frozen
  <2> DEFINE m == worker[w].match
             t == match[m].season
  <2>1. m \in Matches /\ t \in Seasons /\ t # s
    BY <1>2 DEF RateMatch, WorkersInv, SeasonsKnown, Done
  <2>2. PICK base \in Elo[match[m].winner] :
           /\ standing' = [standing EXCEPT ![t] =
                  [u \in Users |-> IF u \in Roster(m) THEN Rated(m, u, base[SlotOf(m, u)]) ELSE @[u]]]
           /\ change' = [change EXCEPT ![m] =
                  [u \in Users |-> IF u \in Roster(m) THEN RatingChange(m, u, base[SlotOf(m, u)]) ELSE @[u]]]
    BY <1>2 DEF RateMatch
  <2>3. \A u \in Users : RatingChange(m, u, base[SlotOf(m, u)]).season = t
    BY DEF RatingChange
  <2>4. status'[s] = "closed"
    BY <1>2 DEF RateMatch
  <2> HIDE DEF m, t
  <2>5. standing'[s] = standing[s]
    BY <2>1, <2>2 DEF ProgressionTypeOK
  <2>6. ASSUME NEW k \in Matches, NEW u \in Users, change[k][u] = None, change'[k][u] # None
        PROVE  change'[k][u].season # s
    <3>1. change \in [Matches -> [Users -> Change \cup {None}]]
      BY DEF ProgressionTypeOK
    <3>2. k = m /\ u \in Roster(m) /\ change'[k][u] = RatingChange(m, u, base[SlotOf(m, u)])
      BY <2>1, <2>2, <2>6, <3>1
    <3>. QED  BY <2>1, <2>3, <3>2
  <2>. QED  BY <2>4, <2>5, <2>6
<1>3. ASSUME NEW p \in Rollers, CloseSeason(p)
      PROVE  Frozen
  <2>1. PICK a \in 1 .. (MaxSeason - 1) :
           /\ status[a] = "active"
           /\ standing' = [standing EXCEPT ![a] = Freeze(a)]
           /\ status' = [status EXCEPT ![a] = "closed", ![a + 1] = "active"]
    BY <1>3 DEF CloseSeason
  <2>2. a \in Seasons /\ a + 1 \in Seasons /\ a # s
    BY <2>1, BoundAssumption DEF Seasons
  <2>3. a + 1 # s
    BY <2>1, <2>2 DEF OneActiveSeason, Seasons
  <2>4. status'[s] = "closed" /\ standing'[s] = standing[s]
    BY <2>1, <2>2, <2>3 DEF ProgressionTypeOK
  <2>5. UNCHANGED change
    BY <1>3 DEF CloseSeason
  <2>. QED  BY <2>4, <2>5
<1>4. ASSUME NEW r \in Requests, InsertStandings(r)
      PROVE  /\ UNCHANGED <<status, change>>
             /\ \A u \in Users : standing[s][u] # None => standing'[s][u] = standing[s][u]
             /\ \A u \in Users : (standing[s][u] = None /\ standing'[s][u] # None)
                                       => standing'[s][u].played = 0
  <2> DEFINE t == request[r].season
             new == NewStanding(request[r].rating)
  <2>1. t \in Seasons /\ request[r].rating \in Nat
    BY <1>4 DEF InsertStandings, SeasonsKnown, ProgressionTypeOK
  <2>2. new.played = 0
    BY <2>1, NewStandingType
  <2>3. standing' = [standing EXCEPT ![t] =
           [u \in Users |-> IF u \in request[r].users /\ @[u] = None THEN new ELSE @[u]]]
    BY <1>4 DEF InsertStandings
  <2> HIDE DEF t, new
  <2>4. \A u \in Users : standing'[s][u] = IF s = t /\ u \in request[r].users /\ standing[s][u] = None
                                            THEN new ELSE standing[s][u]
    BY <2>1, <2>3 DEF ProgressionTypeOK
  <2>. QED  BY <1>4, <2>2, <2>4 DEF InsertStandings
<1>5. CASE UNCHANGED vars
  BY <1>1, <1>5 DEF vars
<1>. QED  BY <1>1, <1>2, <1>3, <1>4, <1>5
             DEF Next, RetryWorker, RolloverWorker, Deadlock, LockUsers, InsertMatch, CompleteMatch,
                 ForfeitMatch, EndMatch, ListPending, LockMatch, LockSeason, EndSeason,
                 LockEndedSeason, OpenProfile, ReadPrevious, JoinQueue, BreakDeadlock

-----------------------------------------------------------------------------
(* The inductive invariant of progression: types, one active season, and    *)
(* one holder of its row.                                                   *)
THEOREM ProgressionInvariant == Spec => []PInv
<1>1. PInv /\ [Next]_vars => PInv'
  BY StepKeepsTypes, StepKeepsInv DEF PInv
<1>. QED  BY <1>1, InitInv, PTL DEF Spec

(* The tables and the transactions keep their types: ratings never fall     *)
(* below zero.                                                              *)
THEOREM ProgressionTypeCorrect == Spec => []ProgressionTypeOK
<1>1. PInv => ProgressionTypeOK
  BY DEF PInv
<1>. QED  BY <1>1, ProgressionInvariant, PTL

(* No transaction rates a match in a closed season or touches a standing of *)
(* it, however long it waited for the season's row.                         *)
THEOREM ClosedSeasonsAreHistory == Spec => ClosedSeasonFrozen
<1> DEFINE FrozenStep ==
               \A s \in Seasons : status[s] = "closed" =>
                   /\ status'[s] = "closed"
                   /\ \A u \in Users : standing[s][u] # None => standing'[s][u] = standing[s][u]
                   /\ \A u \in Users : (standing[s][u] = None /\ standing'[s][u] # None)
                                             => standing'[s][u].played = 0
                   /\ \A m \in Matches, u \in Users :
                         (change[m][u] = None /\ change'[m][u] # None) => change'[m][u].season # s
<1>1. PInv /\ [Next]_vars => [FrozenStep]_vars
  <2> SUFFICES ASSUME PInv, [Next]_vars
               PROVE  FrozenStep
    OBVIOUS
  <2>. QED  BY StepFreezesClosed
<1>2. Spec => [][FrozenStep]_vars
  BY <1>1, ProgressionInvariant, PTL DEF Spec
<1>. QED  BY <1>2 DEF ClosedSeasonFrozen

(* A season is closed when it has ended and once only, whatever rollovers   *)
(* of other processes run or wait.                                          *)
THEOREM SeasonsCloseWhenEnded == Spec => ClosedOnlyWhenEnded
<1>1. PInv /\ [Next]_vars => [status' # status => due /\ ~due']_vars
  <2> SUFFICES ASSUME PInv, [Next]_vars, status' # status
               PROVE  due /\ ~due'
    OBVIOUS
  <2>1. PICK p \in Rollers : CloseSeason(p)
    BY DEF Next, vars, db, RetryWorker, RolloverWorker, Deadlock, LockUsers, InsertMatch, CompleteMatch,
           ForfeitMatch, EndMatch, ListPending, LockMatch, LockSeason, RateMatch, EndSeason,
           LockEndedSeason, OpenProfile, ReadPrevious, JoinQueue, InsertStandings, BreakDeadlock
  <2>2. due
    BY <2>1 DEF CloseSeason, PInv, Exclusive
  <2>. QED  BY <2>1, <2>2 DEF CloseSeason
<1>2. Spec => [][status' # status => due /\ ~due']_vars
  BY <1>1, ProgressionInvariant, PTL DEF Spec
<1>. QED  BY <1>2 DEF ClosedOnlyWhenEnded
-----------------------------------------------------------------------------
(* What a rating relies on beyond the season's row: the match row.  A       *)
(* worker that holds one found it unrated, and nobody else holds it; a      *)
(* rated match has one rating change for each player of its roster, made    *)
(* in its season and before now.                                            *)
Holds(w) == worker[w].step \in {"season", "rate"}

RatedOnce ==
    \A w \in Workers : Holds(w) =>
        /\ ~match[worker[w].match].finalized
        /\ \A v \in Workers : Holds(v) /\ worker[v].match = worker[w].match => v = w

ChangesInv ==
    \A m \in Matches :
        /\ match[m].finalized => match[m].status = "completed"
        /\ \A u \in Users : change[m][u] # None <=> match[m].finalized /\ u \in Roster(m)
        /\ \A u \in Roster(m) : match[m].finalized =>
              change[m][u].season = match[m].season /\ change[m][u].at < Now

(* One worker moves and the marker of no other held match changes.          *)
LEMMA MoveKeepsHolders ==
    ASSUME ProgressionTypeOK, RatedOnce, NEW w \in Workers, NEW r \in WorkerState,
           worker' = [worker EXCEPT ![w] = r],
           r.step \in {"season", "rate"} =>
               /\ ~match'[r.match].finalized
               /\ \A v \in Workers \ {w} : Holds(v) => worker[v].match # r.match,
           \A v \in Workers \ {w} : Holds(v) => ~match'[worker[v].match].finalized
    PROVE  RatedOnce'
<1>1. \A v \in Workers : worker'[v] = IF v = w THEN r ELSE worker[v]
  BY WorkerMoves
<1>2. \A v \in Workers \ {w} : Holds(v)' <=> Holds(v)
  BY <1>1 DEF Holds
<1>3. Holds(w)' <=> r.step \in {"season", "rate"}
  BY <1>1 DEF Holds
<1>. QED  BY <1>1, <1>2, <1>3 DEF RatedOnce

(* A match keeps its marker unless this step rates it.                      *)
LEMMA MarkersStay ==
    ASSUME PInv, [Next]_vars, \A w \in Workers : ~RateMatch(w)
    PROVE  /\ \A m \in Matches : match'[m].finalized = match[m].finalized
           /\ UNCHANGED change
           /\ \A m \in Matches : match[m].status = "completed" => match'[m] = match[m]
<1> USE DEF PInv, db
<1>1. CASE UNCHANGED <<match, change>>
  BY <1>1
<1>2. ASSUME NEW m \in Matches, InsertMatch(m)
      PROVE  /\ \A k \in Matches : match'[k].finalized = match[k].finalized
             /\ UNCHANGED change
             /\ \A k \in Matches : match[k].status = "completed" => match'[k] = match[k]
  <2>1. match[m].status = "none"
    BY <1>2 DEF InsertMatch, SeasonsKnown
  <2>. QED  BY <1>2, <2>1 DEF InsertMatch, ProgressionTypeOK, Match
<1>3. ASSUME NEW m \in Matches, CompleteMatch(m) \/ ForfeitMatch(m)
      PROVE  /\ \A k \in Matches : match'[k].finalized = match[k].finalized
             /\ UNCHANGED change
             /\ \A k \in Matches : match[k].status = "completed" => match'[k] = match[k]
  <2>1. PICK winner, quitter : EndMatch(m, winner, quitter)
    BY <1>3 DEF CompleteMatch, ForfeitMatch
  <2> DEFINE n == Cardinality({k \in Matches : match[k].status = "completed"})
  <2>2. match' = [match EXCEPT ![m] = [@ EXCEPT !.status = "completed", !.winner = winner,
                                                !.quitter = quitter, !.order = n + 1]]
    BY <2>1 DEF EndMatch
  <2> HIDE DEF n
  <2>3. match \in [Matches -> Match]
    BY DEF ProgressionTypeOK
  <2>4. match'[m].finalized = match[m].finalized
    BY <2>2, <2>3 DEF Match
  <2>5. \A k \in Matches \ {m} : match'[k] = match[k]
    BY <2>2, <2>3
  <2>6. match[m].status = "active" /\ UNCHANGED change
    BY <2>1 DEF EndMatch
  <2>. QED  BY <2>4, <2>5, <2>6
<1>4. CASE UNCHANGED vars
  BY <1>1, <1>4 DEF vars
<1>. QED  BY <1>1, <1>2, <1>3, <1>4
             DEF Next, RetryWorker, RolloverWorker, Deadlock, LockUsers, ListPending, LockMatch,
                 LockSeason, EndSeason, LockEndedSeason, CloseSeason, OpenProfile, ReadPrevious,
                 JoinQueue, InsertStandings, BreakDeadlock

LEMMA StepKeepsHolders ==
    ASSUME PInv, RatedOnce, [Next]_vars
    PROVE  RatedOnce'
<1> USE DEF PInv, db
<1>1. CASE UNCHANGED worker /\ \A w \in Workers : ~RateMatch(w)
  <2>1. \A m \in Matches : match'[m].finalized = match[m].finalized
    BY <1>1, MarkersStay
  <2>2. \A w \in Workers : Holds(w) => worker[w].match \in Matches
    BY DEF Holds, WorkersInv, Done
  <2>. QED  BY <1>1, <2>1, <2>2 DEF RatedOnce, Holds
<1>2. ASSUME NEW w \in Workers, RateMatch(w)
      PROVE  RatedOnce'
  <2> DEFINE m == worker[w].match
  <2>1. m \in Matches /\ Holds(w)
    BY <1>2 DEF RateMatch, WorkersInv, Done, Holds
  <2>2. PICK r \in WorkerState : worker' = [worker EXCEPT ![w] = r] /\ r.step \in {"idle", "next"}
    BY <1>2, <2>1, ProceedMoves DEF RateMatch
  <2>3. \A k \in Matches \ {m} : match'[k] = match[k]
    BY <1>2, <2>1 DEF RateMatch, ProgressionTypeOK
  <2>4. \A v \in Workers \ {w} : Holds(v) => worker[v].match \in Matches \ {m}
    BY <2>1 DEF Holds, WorkersInv, Done, RatedOnce
  <2>5. \A v \in Workers \ {w} : Holds(v) => ~match'[worker[v].match].finalized
    BY <2>3, <2>4 DEF RatedOnce
  <2>. QED  BY <2>2, <2>5, MoveKeepsHolders
<1>3. ASSUME NEW w \in Workers, NEW r \in WorkerState, worker' = [worker EXCEPT ![w] = r],
             UNCHANGED match,
             r.step \in {"season", "rate"} =>
                 \/ Holds(w) /\ r.match = worker[w].match
                 \/ ~match[r.match].finalized /\ ~MatchHeld(r.match)
      PROVE  RatedOnce'
  <2>1. r.step \in {"season", "rate"} =>
           /\ ~match[r.match].finalized
           /\ \A v \in Workers \ {w} : Holds(v) => worker[v].match # r.match
    BY <1>3 DEF RatedOnce, MatchHeld, Holds
  <2>2. \A v \in Workers \ {w} : Holds(v) => ~match[worker[v].match].finalized
    BY DEF RatedOnce
  <2>. QED  BY <1>3, <2>1, <2>2, MoveKeepsHolders
<1>4. ASSUME NEW w \in Workers, NEW m \in Matches, Proceed(w, m), UNCHANGED match
      PROVE  RatedOnce'
  <2>1. PICK r \in WorkerState : worker' = [worker EXCEPT ![w] = r] /\ r.step \in {"idle", "next"}
    BY <1>4, ProceedMoves
  <2>. QED  BY <1>3, <1>4, <2>1
<1>5. ASSUME NEW w \in Workers, ListPending(w)
      PROVE  RatedOnce'
  <2> DEFINE r == [step |-> "next", todo |-> Batch, match |-> None]
  <2>1. r \in WorkerState
    BY DEF Batch, Pending, WorkerState
  <2>2. worker' = [worker EXCEPT ![w] = r] /\ UNCHANGED match
    BY <1>5 DEF ListPending
  <2>. QED  BY <1>3, <2>1, <2>2
<1>6. ASSUME NEW w \in Workers, NEW m \in Matches, LockMatch(w, m)
      PROVE  RatedOnce'
  <2> DEFINE r == [worker[w] EXCEPT !.step = "season", !.match = m]
  <2>1. CASE match[m].finalized
    BY <1>4, <1>6, <2>1 DEF LockMatch
  <2>2. CASE ~match[m].finalized
    <3>1. worker[w] \in WorkerState
      BY DEF ProgressionTypeOK, WorkerState
    <3>2. r \in WorkerState /\ r.match = m
      BY <3>1 DEF WorkerState
    <3>3. worker' = [worker EXCEPT ![w] = r] /\ ~MatchHeld(r.match) /\ UNCHANGED match
      BY <1>6, <2>2, <3>2 DEF LockMatch
    <3> HIDE DEF r
    <3>. QED  BY <1>3, <2>2, <3>2, <3>3
  <2>. QED  BY <2>1, <2>2
<1>7. ASSUME NEW w \in Workers, LockSeason(w)
      PROVE  RatedOnce'
  <2> DEFINE r == [worker[w] EXCEPT !.step = "rate"]
  <2>1. Holds(w) /\ worker[w].match \in Matches /\ UNCHANGED match
    BY <1>7 DEF LockSeason, Holds, WorkersInv, Done
  <2>2. CASE Proceed(w, worker[w].match)
    BY <1>4, <2>1, <2>2
  <2>3. CASE worker' = [worker EXCEPT ![w].step = "rate"]
    <3>1. worker[w] \in WorkerState
      BY DEF ProgressionTypeOK, WorkerState
    <3>2. r \in WorkerState /\ r.match = worker[w].match
      BY <3>1 DEF WorkerState
    <3>3. worker' = [worker EXCEPT ![w] = r]
      BY <2>3
    <3> HIDE DEF r
    <3>. QED  BY <1>3, <2>1, <3>2, <3>3
  <2>. QED  BY <1>7, <2>2, <2>3 DEF LockSeason
<1>8. ASSUME NEW w \in Workers, NEW m \in Matches, BreakDeadlock(w, m)
      PROVE  RatedOnce'
  <2>1. CASE Proceed(w, worker[w].match)
    <3>1. worker[w].match \in Matches /\ UNCHANGED match
      BY <1>8 DEF BreakDeadlock, Deadlocked, WorkersInv, Done
    <3>. QED  BY <1>4, <2>1, <3>1
  <2>2. CASE UNCHANGED worker
    BY <1>1, <1>2, <2>2
  <2>. QED  BY <1>8, <2>1, <2>2 DEF BreakDeadlock
<1>9. CASE UNCHANGED worker
  BY <1>1, <1>2, <1>9
<1>. QED  BY <1>2, <1>5, <1>6, <1>7, <1>8, <1>9
             DEF Next, vars, RetryWorker, RolloverWorker, Deadlock, LockUsers, InsertMatch,
                 CompleteMatch, ForfeitMatch, EndMatch, EndSeason, LockEndedSeason, CloseSeason,
                 OpenProfile, ReadPrevious, JoinQueue, InsertStandings
(* What a rating transaction does to the match, and to every row.           *)
LEMMA RateMatchMarks ==
    ASSUME PInv, RatedOnce, NEW w \in Workers, RateMatch(w), NEW m, m = worker[w].match
    PROVE  /\ m \in Matches /\ match[m].season \in Seasons
           /\ match[m].status = "completed" /\ m \notin Finalized
           /\ \A k \in Matches \ {m} : match'[k] = match[k]
           /\ match'[m] = [match[m] EXCEPT !.finalized = TRUE]
           /\ Finalized' = Finalized \cup {m}
           /\ Now' = Now + 1
<1>1. m \in Matches /\ match[m].season \in Seasons /\ match[m].status = "completed"
  BY DEF RateMatch, PInv, WorkersInv, SeasonsKnown, Done
<1>2. m \notin Finalized
  BY DEF RateMatch, RatedOnce, Holds, Finalized
<1>3. match' = [match EXCEPT ![m] = [match[m] EXCEPT !.finalized = TRUE]]
  BY DEF RateMatch
<1>4. match \in [Matches -> Match]
  BY DEF PInv, ProgressionTypeOK
<1>5. /\ \A k \in Matches \ {m} : match'[k] = match[k]
      /\ match'[m] = [match[m] EXCEPT !.finalized = TRUE]
  BY <1>1, <1>3, <1>4
<1>6. match'[m].finalized
  BY <1>1, <1>4, <1>5 DEF Match
<1>7. Finalized' = Finalized \cup {m}
  BY <1>1, <1>5, <1>6 DEF Finalized
<1>8. IsFiniteSet(Finalized)
  BY MatchesAssumption, FS_Subset, Finalized \subseteq Matches DEF Finalized
<1>9. Now' = Now + 1
  BY <1>2, <1>7, <1>8, FS_AddElement DEF Now
<1>. QED  BY <1>1, <1>2, <1>5, <1>7, <1>9

LEMMA RateMatchRows ==
    ASSUME PInv, NEW w \in Workers, RateMatch(w)
    PROVE  LET m == worker[w].match
           IN  \E base \in [Users -> Int] :
                  /\ \A s \in Seasons, u \in Users : standing'[s][u] =
                        IF s = match[m].season /\ u \in Roster(m) THEN Rated(m, u, base[u])
                                                                  ELSE standing[s][u]
                  /\ \A k \in Matches, u \in Users : change'[k][u] =
                        IF k = m /\ u \in Roster(m) THEN RatingChange(m, u, base[u]) ELSE change[k][u]
<1> DEFINE m == worker[w].match
           s == match[m].season
<1>1. m \in Matches /\ s \in Seasons
  BY DEF PInv, RateMatch, WorkersInv, SeasonsKnown, Done
<1>2. PICK pair \in Elo[match[m].winner] :
         /\ standing' = [standing EXCEPT ![s] =
                [u \in Users |-> IF u \in Roster(m) THEN Rated(m, u, pair[SlotOf(m, u)]) ELSE @[u]]]
         /\ change' = [change EXCEPT ![m] =
                [u \in Users |-> IF u \in Roster(m) THEN RatingChange(m, u, pair[SlotOf(m, u)]) ELSE @[u]]]
  BY DEF RateMatch
<1>3. match[m].winner \in 0 .. 2
  BY <1>1 DEF PInv, ProgressionTypeOK, Match
<1> DEFINE base == [u \in Users |-> pair[SlotOf(m, u)]]
<1>4. base \in [Users -> Int]
  BY SMTT(30), <1>2, <1>3, EloAssumption DEF SlotOf
<1> HIDE DEF m, s
<1>5. \A t \in Seasons, u \in Users : standing'[t][u] =
         IF t = s /\ u \in Roster(m) THEN Rated(m, u, base[u]) ELSE standing[t][u]
  BY <1>1, <1>2 DEF PInv, ProgressionTypeOK
<1>6. \A k \in Matches, u \in Users : change'[k][u] =
         IF k = m /\ u \in Roster(m) THEN RatingChange(m, u, base[u]) ELSE change[k][u]
  BY <1>1, <1>2 DEF PInv, ProgressionTypeOK
<1>. QED  BY <1>4, <1>5, <1>6 DEF m, s

LEMMA StepKeepsChanges ==
    ASSUME PInv, RatedOnce, ChangesInv, [Next]_vars
    PROVE  ChangesInv'
<1> SUFFICES ASSUME NEW k \in Matches
             PROVE  /\ match'[k].finalized => match'[k].status = "completed"
                    /\ \A u \in Users : change'[k][u] # None <=> match'[k].finalized /\ u \in Roster(k)
                    /\ \A u \in Roster(k) : match'[k].finalized =>
                          change'[k][u].season = match'[k].season /\ change'[k][u].at < Now'
  BY DEF ChangesInv, Roster
<1>1. /\ match[k].finalized => match[k].status = "completed"
      /\ \A u \in Users : change[k][u] # None <=> match[k].finalized /\ u \in Roster(k)
      /\ \A u \in Roster(k) : match[k].finalized =>
            change[k][u].season = match[k].season /\ change[k][u].at < Now
  BY DEF ChangesInv
<1>2. CASE \A w \in Workers : ~RateMatch(w)
  <2>1. /\ \A m \in Matches : match'[m].finalized = match[m].finalized
        /\ UNCHANGED change
        /\ \A m \in Matches : match[m].status = "completed" => match'[m] = match[m]
    BY <1>2, MarkersStay
  <2>2. Now' = Now
    BY <2>1 DEF Now, Finalized
  <2>. QED  BY <1>1, <2>1, <2>2
<1>3. ASSUME NEW w \in Workers, RateMatch(w)
      PROVE  /\ match'[k].finalized => match'[k].status = "completed"
             /\ \A u \in Users : change'[k][u] # None <=> match'[k].finalized /\ u \in Roster(k)
             /\ \A u \in Roster(k) : match'[k].finalized =>
                   change'[k][u].season = match'[k].season /\ change'[k][u].at < Now'
  <2> DEFINE m == worker[w].match
  <2>1. /\ m \in Matches /\ match[m].season \in Seasons
        /\ match[m].status = "completed" /\ m \notin Finalized
        /\ \A j \in Matches \ {m} : match'[j] = match[j]
        /\ match'[m] = [match[m] EXCEPT !.finalized = TRUE]
        /\ Now' = Now + 1
    BY <1>3, RateMatchMarks
  <2>2. PICK base \in [Users -> Int] : \A j \in Matches, u \in Users : change'[j][u] =
           IF j = m /\ u \in Roster(m) THEN RatingChange(m, u, base[u]) ELSE change[j][u]
    BY <1>3, RateMatchRows
  <2> HIDE DEF m
  <2>3. Now \in Nat /\ Roster(k) \subseteq Users
    BY NowType, RosterUsers
  <2>4. CASE k = m
    <3>1. match[m] \in Match /\ ~match[m].finalized
      BY <2>1 DEF Finalized, PInv, ProgressionTypeOK
    <3>2. /\ match'[k].finalized /\ match'[k].status = "completed"
          /\ match'[k].season = match[m].season
      BY <2>1, <2>4, <3>1 DEF Match
    <3>3. \A u \in Roster(m) : RatingChange(m, u, base[u]) \in Change
      BY <2>1, <2>3, <2>4, RatedType DEF PInv
    <3>4. \A u \in Roster(m) : /\ RatingChange(m, u, base[u]) # None
                               /\ RatingChange(m, u, base[u]).season = match[m].season
                               /\ RatingChange(m, u, base[u]).at = Now
      BY <3>3, RowsAssumption DEF RatingChange
    <3>5. \A u \in Users \ Roster(m) : change'[k][u] = None
      BY <1>1, <2>2, <2>4, <3>1
    <3>. QED  BY <2>1, <2>2, <2>3, <2>4, <3>2, <3>4, <3>5
  <2>5. CASE k # m
    <3>1. match'[k] = match[k] /\ \A u \in Users : change'[k][u] = change[k][u]
      BY <2>1, <2>2, <2>5
    <3>2. \A u \in Roster(k) : match[k].finalized => change[k][u].at \in Nat
      BY <1>1, <2>3, RowsAssumption DEF PInv, ProgressionTypeOK, Change
    <3>. QED  BY <1>1, <2>1, <2>3, <3>1, <3>2
  <2>. QED  BY <2>4, <2>5
<1>. QED  BY <1>2, <1>3
-----------------------------------------------------------------------------
(* What the standings have to say: the matches rated in a season of a       *)
(* player, counted by their outcomes and chained by their changes.          *)
Hist(s, u) == {m \in Finalized : match[m].season = s /\ u \in Roster(m)}

Times(s, u, outcome) == Cardinality({m \in Hist(s, u) : Outcome(m, u) = outcome})

Counted(row, s, u) ==
    /\ row.played = Cardinality(Hist(s, u))
    /\ row.wins = Times(s, u, "win")
    /\ row.losses = Times(s, u, "loss")
    /\ row.draws = Times(s, u, "draw")
    /\ row.abandons = Cardinality({m \in Hist(s, u) : match[m].quitter = u})

Later(m, s, u) == {k \in Hist(s, u) : change[k][u].at > change[m][u].at}

Chained(row, s, u) ==
    \A m \in Hist(s, u) :
        IF Later(m, s, u) = {} THEN change[m][u].new = row.rating
        ELSE \E k \in Later(m, s, u) :
                /\ change[m][u].new = change[k][u].old
                /\ \A j \in Later(m, s, u) : change[k][u].at <= change[j][u].at

HistoryInv ==
    \A s \in Seasons, u \in Users :
        IF standing[s][u] = None THEN Hist(s, u) = {}
        ELSE Counted(standing[s][u], s, u) /\ Chained(standing[s][u], s, u)

LEMMA HistFinite ==
    ASSUME NEW s, NEW u
    PROVE  IsFiniteSet(Hist(s, u))
BY MatchesAssumption, FS_Subset, Hist(s, u) \subseteq Matches DEF Hist, Finalized

(* One more or not.                                                         *)
LEMMA OneMore ==
    ASSUME NEW D, IsFiniteSet(D), NEW D1, NEW m, m \notin D, NEW n \in {0, 1},
           n = 1 => D1 = D \cup {m},
           n = 0 => D1 = D
    PROVE  Cardinality(D1) = Cardinality(D) + n
<1>1. Cardinality(D) \in Nat
  BY FS_CardinalityType
<1>2. Cardinality(D \cup {m}) = Cardinality(D) + 1
  BY FS_AddElement
<1>3. CASE n = 1
  BY <1>2, <1>3
<1>4. CASE n = 0
  BY <1>1, <1>4
<1>. QED  BY <1>3, <1>4

(* A row without matches counts none.                                       *)
LEMMA NothingCounted ==
    ASSUME NEW s, NEW u, Hist(s, u) = {}, NEW rating
    PROVE  Counted(NewStanding(rating), s, u) /\ Chained(NewStanding(rating), s, u)
<1>1. Cardinality({}) = 0
  BY FS_EmptySet
<1>2. /\ \A o : {m \in Hist(s, u) : Outcome(m, u) = o} = {}
      /\ {m \in Hist(s, u) : match[m].quitter = u} = {}
  OBVIOUS
<1>. QED  BY <1>1, <1>2 DEF Counted, Chained, Times, NewStanding

(* Steps that rate nothing: a row is as it was, new, or frozen.             *)
LEMMA OtherRows ==
    ASSUME PInv, [Next]_vars, \A w \in Workers : ~RateMatch(w),
           NEW s \in Seasons, NEW u \in Users
    PROVE  \/ standing'[s][u] = standing[s][u] /\ (status'[s] = "closed" => status[s] = "closed")
           \/ /\ standing[s][u] = None
              /\ \E rating \in Nat : standing'[s][u] = NewStanding(rating)
              /\ UNCHANGED status
           \/ /\ status[s] = "active" /\ status'[s] = "closed" /\ standing' = [standing EXCEPT ![s] = Freeze(s)]
<1> USE DEF PInv, db
<1>1. CASE UNCHANGED <<status, standing>>
  BY <1>1
<1>2. ASSUME NEW p \in Rollers, CloseSeason(p)
      PROVE  \/ standing'[s][u] = standing[s][u] /\ (status'[s] = "closed" => status[s] = "closed")
             \/ /\ status[s] = "active" /\ status'[s] = "closed"
                /\ standing' = [standing EXCEPT ![s] = Freeze(s)]
  <2>1. PICK a \in 1 .. (MaxSeason - 1) :
           /\ status[a] = "active"
           /\ standing' = [standing EXCEPT ![a] = Freeze(a)]
           /\ status' = [status EXCEPT ![a] = "closed", ![a + 1] = "active"]
    BY <1>2 DEF CloseSeason
  <2>2. a \in Seasons /\ a + 1 \in Seasons /\ a + 1 # a
    BY BoundAssumption DEF Seasons
  <2>3. status'[a] = "closed" /\ status'[a + 1] = "active"
    BY <2>1, <2>2 DEF ProgressionTypeOK
  <2>4. \A t \in Seasons \ {a} : standing'[t] = standing[t] /\ status'[t] \in {status[t], "active"}
    BY <2>1, <2>2 DEF ProgressionTypeOK
  <2>. QED  BY <2>1, <2>2, <2>3, <2>4
<1>3. ASSUME NEW r \in Requests, InsertStandings(r)
      PROVE  /\ UNCHANGED status
             /\ \/ standing'[s][u] = standing[s][u]
                \/ /\ standing[s][u] = None
                   /\ \E rating \in Nat : standing'[s][u] = NewStanding(rating)
  <2> DEFINE t == request[r].season
             new == NewStanding(request[r].rating)
  <2>1. t \in Seasons /\ request[r].rating \in Nat
    BY <1>3 DEF InsertStandings, SeasonsKnown, ProgressionTypeOK
  <2>2. standing' = [standing EXCEPT ![t] =
           [v \in Users |-> IF v \in request[r].users /\ @[v] = None THEN new ELSE @[v]]]
    BY <1>3 DEF InsertStandings
  <2>3. \E rating \in Nat : new = NewStanding(rating)
    BY <2>1
  <2> HIDE DEF t, new
  <2>4. standing'[s][u] = IF s = t /\ u \in request[r].users /\ standing[s][u] = None
                          THEN new ELSE standing[s][u]
    BY <2>1, <2>2 DEF ProgressionTypeOK
  <2>. QED  BY <1>3, <2>3, <2>4 DEF InsertStandings
<1>4. CASE UNCHANGED vars
  BY <1>1, <1>4 DEF vars
<1>. QED  BY ZenonT(30), <1>1, <1>2, <1>3, <1>4
             DEF Next, RetryWorker, RolloverWorker, Deadlock, LockUsers, InsertMatch, CompleteMatch,
                 ForfeitMatch, EndMatch, ListPending, LockMatch, LockSeason, EndSeason,
                 LockEndedSeason, OpenProfile, ReadPrevious, JoinQueue, BreakDeadlock
(* They keep every player's history, and a row that was there keeps what    *)
(* the history says of it.                                                  *)
LEMMA OtherStepsKeepHistory ==
    ASSUME PInv, ChangesInv, HistoryInv, [Next]_vars, \A w \in Workers : ~RateMatch(w)
    PROVE  HistoryInv'
<1> SUFFICES ASSUME NEW s \in Seasons, NEW u \in Users
             PROVE  (IF standing[s][u] = None THEN Hist(s, u) = {}
                     ELSE Counted(standing[s][u], s, u) /\ Chained(standing[s][u], s, u))'
  BY DEF HistoryInv
<1>1. /\ \A m \in Matches : match'[m].finalized = match[m].finalized
      /\ change' = change
      /\ \A m \in Finalized : match'[m] = match[m]
  BY MarkersStay DEF ChangesInv, Finalized
<1>2. Finalized' = Finalized
  BY <1>1 DEF Finalized
<1>3. Hist(s, u)' = Hist(s, u)
  BY <1>1, <1>2 DEF Hist
<1>4. \A m \in Hist(s, u) : match'[m] = match[m]
  BY <1>1 DEF Hist
<1>5. \A m \in Hist(s, u) : Outcome(m, u)' = Outcome(m, u)
  BY <1>4 DEF Outcome
<1>6. \A o : Times(s, u, o)' = Times(s, u, o)
  <2> SUFFICES ASSUME NEW o
               PROVE  Times(s, u, o)' = Times(s, u, o)
    OBVIOUS
  <2>1. {m \in Hist(s, u)' : Outcome(m, u)' = o} = {m \in Hist(s, u) : Outcome(m, u) = o}
    BY <1>3, <1>5
  <2>. QED  BY <2>1 DEF Times
<1>7. {m \in Hist(s, u)' : match'[m].quitter = u} = {m \in Hist(s, u) : match[m].quitter = u}
  BY <1>3, <1>4
<1>8. \A m : Later(m, s, u)' = Later(m, s, u)
  BY <1>1, <1>3 DEF Later
<1>9. ASSUME NEW a, NEW b, Counted(a, s, u), Chained(a, s, u),
             /\ b.rating = a.rating /\ b.played = a.played /\ b.wins = a.wins
             /\ b.losses = a.losses /\ b.draws = a.draws /\ b.abandons = a.abandons,
             b = standing'[s][u]
      PROVE  Counted(standing[s][u], s, u)' /\ Chained(standing[s][u], s, u)'
  <2>1. Counted(standing[s][u], s, u)'
    BY <1>3, <1>6, <1>7, <1>9 DEF Counted
  <2>2. Chained(standing[s][u], s, u)'
    BY <1>1, <1>3, <1>8, <1>9 DEF Chained
  <2>. QED  BY <2>1, <2>2
<1>10. IF standing[s][u] = None THEN Hist(s, u) = {}
       ELSE Counted(standing[s][u], s, u) /\ Chained(standing[s][u], s, u)
  BY DEF HistoryInv
<1>11. CASE standing'[s][u] = standing[s][u]
  <2>1. CASE standing[s][u] = None
    BY <1>3, <1>10, <1>11, <2>1
  <2>2. CASE standing[s][u] # None
    <3>1. Counted(standing[s][u], s, u)' /\ Chained(standing[s][u], s, u)'
      BY <1>9, <1>10, <1>11, <2>2
    <3>. QED  BY <1>11, <2>2, <3>1
  <2>. QED  BY <2>1, <2>2
<1>12. ASSUME standing[s][u] = None, NEW rating \in Nat, standing'[s][u] = NewStanding(rating)
       PROVE  Hist(s, u)' = {} /\ Counted(standing[s][u], s, u)' /\ Chained(standing[s][u], s, u)'
  <2>1. Hist(s, u) = {}
    BY <1>10, <1>12
  <2>2. Counted(NewStanding(rating), s, u) /\ Chained(NewStanding(rating), s, u)
    BY <2>1, NothingCounted
  <2>. QED  BY <1>3, <1>9, <1>12, <2>1, <2>2
<1>13. CASE standing' = [standing EXCEPT ![s] = Freeze(s)]
  <2>1. standing'[s][u] = IF standing[s][u] = None THEN None
                          ELSE [standing[s][u] EXCEPT !.position = FinalPosition(s, u),
                                                      !.ending = EndingRank(s, u)]
    BY <1>13 DEF PInv, ProgressionTypeOK, Freeze
  <2>2. CASE standing[s][u] = None
    BY <1>11, <2>1, <2>2
  <2>3. CASE standing[s][u] # None
    <3>1. standing[s][u] \in Standing
      BY <2>3 DEF PInv, ProgressionTypeOK
    <3>2. /\ standing'[s][u].rating = standing[s][u].rating
          /\ standing'[s][u].played = standing[s][u].played
          /\ standing'[s][u].wins = standing[s][u].wins
          /\ standing'[s][u].losses = standing[s][u].losses
          /\ standing'[s][u].draws = standing[s][u].draws
          /\ standing'[s][u].abandons = standing[s][u].abandons
      BY <2>1, <2>3, <3>1 DEF Standing
    <3>3. Counted(standing[s][u], s, u)' /\ Chained(standing[s][u], s, u)'
      BY <1>9, <1>10, <2>3, <3>2
    <3>4. standing'[s][u] # None
      BY ZenonT(30), <2>1, <2>3, FrozenRowType, RowsAssumption DEF PInv
    <3>. QED  BY <3>3, <3>4
  <2>. QED  BY <2>2, <2>3
<1>. QED  BY <1>11, <1>12, <1>13, OtherRows
(* A rating adds its match to the history of the players on its roster, and *)
(* to nobody else's.                                                        *)
LEMMA RatingKeepsHistory ==
    ASSUME PInv, RatedOnce, ChangesInv, HistoryInv, NEW w \in Workers, RateMatch(w)
    PROVE  HistoryInv'
<1>0. PICK m : m = worker[w].match
  OBVIOUS
<1>1. /\ m \in Matches /\ match[m].season \in Seasons /\ m \notin Finalized
      /\ \A k \in Matches \ {m} : match'[k] = match[k]
      /\ match'[m] = [match[m] EXCEPT !.finalized = TRUE]
      /\ Finalized' = Finalized \cup {m}
  BY <1>0, RateMatchMarks
<1>2. PICK base \in [Users -> Int] :
         /\ \A s \in Seasons, u \in Users : standing'[s][u] =
               IF s = match[m].season /\ u \in Roster(m) THEN Rated(m, u, base[u])
                                                         ELSE standing[s][u]
         /\ \A k \in Matches, u \in Users : change'[k][u] =
               IF k = m /\ u \in Roster(m) THEN RatingChange(m, u, base[u]) ELSE change[k][u]
  BY <1>0, RateMatchRows
<1>3. match[m] \in Match
  BY <1>1 DEF PInv, ProgressionTypeOK
<1>4. \A k \in Matches : /\ match'[k].winner = match[k].winner
                         /\ match'[k].season = match[k].season
                         /\ match'[k].quitter = match[k].quitter
  BY <1>1, <1>3 DEF Match
<1>5. \A k \in Matches : \A u : Outcome(k, u)' = Outcome(k, u)
  BY <1>4 DEF Outcome
<1> SUFFICES ASSUME NEW s \in Seasons, NEW u \in Users
             PROVE  (IF standing[s][u] = None THEN Hist(s, u) = {}
                     ELSE Counted(standing[s][u], s, u) /\ Chained(standing[s][u], s, u))'
  BY DEF HistoryInv
<1>6. IF standing[s][u] = None THEN Hist(s, u) = {}
      ELSE Counted(standing[s][u], s, u) /\ Chained(standing[s][u], s, u)
  BY DEF HistoryInv
<1>7. Hist(s, u) \subseteq Matches \ {m}
  BY <1>1 DEF Hist, Finalized
<1>8. \A k \in Hist(s, u) : change'[k][u] = change[k][u]
  BY <1>2, <1>7
<1>9. CASE ~(s = match[m].season /\ u \in Roster(m))
  <2>1. Hist(s, u)' = Hist(s, u)
    BY <1>1, <1>4, <1>9 DEF Hist, Finalized
  <2>2. standing'[s][u] = standing[s][u]
    BY <1>2, <1>9
  <2>3. \A o : {k \in Hist(s, u)' : Outcome(k, u)' = o} = {k \in Hist(s, u) : Outcome(k, u) = o}
    BY <1>5, <1>7, <2>1
  <2>4. {k \in Hist(s, u)' : match'[k].quitter = u} = {k \in Hist(s, u) : match[k].quitter = u}
    BY <1>4, <1>7, <2>1
  <2>5. \A k \in Hist(s, u) : Later(k, s, u)' = Later(k, s, u)
    BY <1>8, <2>1 DEF Later
  <2>6. Counted(standing[s][u], s, u) => Counted(standing[s][u], s, u)'
    BY <2>1, <2>2, <2>3, <2>4 DEF Counted, Times
  <2>7. ASSUME Chained(standing[s][u], s, u)
        PROVE  Chained(standing[s][u], s, u)'
    <3>1. \A k \in Hist(s, u) : Later(k, s, u) \subseteq Hist(s, u)
      BY DEF Later
    <3>. QED  BY <1>8, <2>1, <2>2, <2>5, <2>7, <3>1 DEF Chained
  <2>. QED  BY <1>6, <2>1, <2>2, <2>6, <2>7
<1>10. CASE s = match[m].season /\ u \in Roster(m)
  <2> DEFINE old == Before(m, u)
             new == Rated(m, u, base[u])
             made == RatingChange(m, u, base[u])
  <2>1. standing'[s][u] = new /\ change'[m][u] = made
    BY <1>1, <1>2, <1>10
  <2>2. old \in Standing /\ new \in Standing /\ made \in Change /\ Now \in Nat
    BY <1>1, BeforeType, RatedType, NowType DEF PInv
  <2>3. Counted(old, s, u) /\ Chained(old, s, u)
    BY <1>6, <1>10, NothingCounted DEF Before
  <2>4. /\ new.rating = made.new /\ made.old = old.rating /\ made.at = Now
        /\ new.played = old.played + 1
        /\ new.wins = old.wins + Count(Outcome(m, u) = "win")
        /\ new.losses = old.losses + Count(Outcome(m, u) = "loss")
        /\ new.draws = old.draws + Count(Outcome(m, u) = "draw")
        /\ new.abandons = old.abandons + Count(u = match[m].quitter)
    BY <2>2 DEF Rated, RatingChange, Standing
  <2> HIDE DEF old, new, made
  <2>5. Hist(s, u)' = Hist(s, u) \cup {m} /\ m \notin Hist(s, u)
    BY <1>1, <1>4, <1>7, <1>10 DEF Hist, Finalized
  <2>6. IsFiniteSet(Hist(s, u))
    BY HistFinite
  <2>7. \A o : Times(s, u, o)' = Times(s, u, o) + Count(Outcome(m, u) = o)
    <3> SUFFICES ASSUME NEW o
                 PROVE  Times(s, u, o)' = Times(s, u, o) + Count(Outcome(m, u) = o)
      OBVIOUS
    <3> DEFINE D == {k \in Hist(s, u) : Outcome(k, u) = o}
               D1 == {k \in Hist(s, u)' : Outcome(k, u)' = o}
               n == Count(Outcome(m, u) = o)
    <3>1. IsFiniteSet(D) /\ m \notin D
      BY <2>5, <2>6, FS_Subset
    <3>2. D1 = {k \in Hist(s, u) \cup {m} : Outcome(k, u) = o}
      BY <1>1, <1>5, <1>7, <2>5
    <3>3. n \in {0, 1} /\ (n = 1 => D1 = D \cup {m}) /\ (n = 0 => D1 = D)
      BY <3>2 DEF Count
    <3> HIDE DEF D, D1, n
    <3>4. Cardinality(D1) = Cardinality(D) + n
      BY <3>1, <3>3, OneMore
    <3>. QED  BY <3>4 DEF Times, D, D1, n
  <2>8. Cardinality(Hist(s, u)') = Cardinality(Hist(s, u)) + 1
    BY <2>5, <2>6, FS_AddElement
  <2>9. Cardinality({k \in Hist(s, u)' : match'[k].quitter = u})
           = Cardinality({k \in Hist(s, u) : match[k].quitter = u}) + Count(u = match[m].quitter)
    <3> DEFINE D == {k \in Hist(s, u) : match[k].quitter = u}
               D1 == {k \in Hist(s, u)' : match'[k].quitter = u}
               n == Count(u = match[m].quitter)
    <3>1. IsFiniteSet(D) /\ m \notin D
      BY <2>5, <2>6, FS_Subset
    <3>2. D1 = {k \in Hist(s, u) \cup {m} : match[k].quitter = u}
      BY <1>1, <1>4, <1>7, <2>5
    <3>3. n \in {0, 1} /\ (n = 1 => D1 = D \cup {m}) /\ (n = 0 => D1 = D)
      BY <3>2 DEF Count
    <3> HIDE DEF D, D1, n
    <3>4. Cardinality(D1) = Cardinality(D) + n
      BY <3>1, <3>3, OneMore
    <3>. QED  BY <3>4 DEF D, D1, n
  <2>10. Counted(standing[s][u], s, u)'
    BY <2>1, <2>3, <2>4, <2>7, <2>8, <2>9 DEF Counted
  <2>11. \A k \in Hist(s, u) : change[k][u].at \in Nat /\ change[k][u].at < Now
    <3>1. \A k \in Hist(s, u) : k \in Matches /\ match[k].finalized /\ u \in Roster(k)
      BY DEF Hist, Finalized
    <3>2. \A k \in Hist(s, u) : change[k][u] \in Change
      BY <3>1 DEF ChangesInv, PInv, ProgressionTypeOK
    <3>. QED  BY <3>1, <3>2 DEF ChangesInv, Change
  <2>12. \A k \in Hist(s, u) : Later(k, s, u)' = Later(k, s, u) \cup {m}
    <3> SUFFICES ASSUME NEW k \in Hist(s, u)
                 PROVE  Later(k, s, u)' = Later(k, s, u) \cup {m}
      OBVIOUS
    <3>1. Later(k, s, u)' = {j \in Hist(s, u) \cup {m} : change'[j][u].at > change[k][u].at}
      BY <1>8, <2>5 DEF Later
    <3>2. change'[m][u].at > change[k][u].at
      BY <2>1, <2>2, <2>4, <2>11
    <3>. QED  BY <1>8, <2>5, <3>1, <3>2 DEF Later
  <2>13. Later(m, s, u)' = {}
    <3>1. Later(m, s, u)' = {j \in Hist(s, u) \cup {m} : change'[j][u].at > Now}
      BY <2>1, <2>4, <2>5 DEF Later
    <3>2. \A j \in Hist(s, u) \cup {m} : ~(change'[j][u].at > Now)
      BY <1>8, <2>1, <2>2, <2>4, <2>11
    <3>. QED  BY <3>1, <3>2
  <2>14. Chained(standing[s][u], s, u)'
    <3> SUFFICES ASSUME NEW k \in Hist(s, u) \cup {m}
                 PROVE  IF Later(k, s, u)' = {} THEN change'[k][u].new = standing'[s][u].rating
                        ELSE \E i \in Later(k, s, u)' :
                                /\ change'[k][u].new = change'[i][u].old
                                /\ \A j \in Later(k, s, u)' : change'[i][u].at <= change'[j][u].at
      BY <2>5 DEF Chained
    <3>1. CASE k = m
      BY <2>1, <2>4, <2>13, <3>1
    <3>2. CASE k # m /\ Later(k, s, u) = {}
      <4>1. k \in Hist(s, u) /\ Later(k, s, u)' = {m}
        BY <2>12, <3>2
      <4>2. change[k][u].new = old.rating
        BY <2>3, <3>2, <4>1 DEF Chained
      <4>3. change'[m][u].at <= change'[m][u].at
        BY <2>1, <2>2, <2>4
      <4>. QED  BY <1>8, <2>1, <2>4, <4>1, <4>2, <4>3
    <3>3. CASE k # m /\ Later(k, s, u) # {}
      <4>1. k \in Hist(s, u) /\ Later(k, s, u)' = Later(k, s, u) \cup {m}
        BY <2>12, <3>3
      <4>2. PICK i \in Later(k, s, u) :
               /\ change[k][u].new = change[i][u].old
               /\ \A j \in Later(k, s, u) : change[i][u].at <= change[j][u].at
        BY <2>3, <3>3, <4>1 DEF Chained
      <4>3. Later(k, s, u) \subseteq Hist(s, u)
        BY DEF Later
      <4>4. change'[i][u].at <= change'[m][u].at
        BY <1>8, <2>1, <2>2, <2>4, <2>11, <4>2, <4>3
      <4>5. \A j \in Later(k, s, u)' : change'[i][u].at <= change'[j][u].at
        BY <1>8, <4>1, <4>2, <4>3, <4>4
      <4>. QED  BY <1>8, <4>1, <4>2, <4>3, <4>5
    <3>. QED  BY <3>1, <3>2, <3>3
  <2>15. standing'[s][u] # None
    BY <2>1, <2>2, RowsAssumption
  <2>. QED  BY <2>10, <2>14, <2>15
<1>. QED  BY <1>9, <1>10

LEMMA InitHistory ==
    ASSUME Init
    PROVE  RatedOnce /\ ChangesInv /\ HistoryInv
<1>1. RatedOnce
  BY DEF Init, RatedOnce, Holds
<1>2. ChangesInv
  BY DEF Init, ChangesInv, Roster
<1>3. Finalized = {}
  BY DEF Init, Finalized
<1>4. HistoryInv
  BY <1>3 DEF Init, HistoryInv, Hist
<1>. QED  BY <1>1, <1>2, <1>4

LEMMA HistoryImpliesStandings ==
    ASSUME ChangesInv, HistoryInv
    PROVE  StandingsMatchHistory
<1> SUFFICES ASSUME NEW s \in Seasons, NEW u \in Users
             PROVE  LET row == standing[s][u]
                        hist == {m \in Finalized : match[m].season = s /\ u \in Roster(m)}
                        T(outcome) == Cardinality({m \in hist : Outcome(m, u) = outcome})
                    IN  /\ hist = {m \in Matches : change[m][u] # None /\ change[m][u].season = s}
                        /\ row = None => hist = {}
                        /\ row # None =>
                             /\ row.played = Cardinality(hist)
                             /\ <<row.wins, row.losses, row.draws>> = <<T("win"), T("loss"), T("draw")>>
                             /\ row.abandons = Cardinality({m \in hist : match[m].quitter = u})
                             /\ \A m \in hist :
                                   LET later == {k \in hist : change[k][u].at > change[m][u].at}
                                   IN  IF later = {} THEN change[m][u].new = row.rating
                                       ELSE \E k \in later :
                                               /\ change[m][u].new = change[k][u].old
                                               /\ \A j \in later : change[k][u].at <= change[j][u].at
  BY DEF StandingsMatchHistory
<1>1. Hist(s, u) = {m \in Matches : change[m][u] # None /\ change[m][u].season = s}
  BY DEF ChangesInv, Hist, Finalized
<1>2. IF standing[s][u] = None THEN Hist(s, u) = {}
      ELSE Counted(standing[s][u], s, u) /\ Chained(standing[s][u], s, u)
  BY DEF HistoryInv
<1>. QED  BY <1>1, <1>2 DEF Hist, Counted, Chained, Times, Later
-----------------------------------------------------------------------------
(* The theorem about histories.                                             *)
HInv == PInv /\ RatedOnce /\ ChangesInv /\ HistoryInv

LEMMA StepKeepsHistory ==
    ASSUME HInv, [Next]_vars
    PROVE  HInv'
<1> USE DEF HInv
<1>1. PInv'
  BY StepKeepsTypes, StepKeepsInv DEF PInv
<1>2. RatedOnce' /\ ChangesInv'
  BY StepKeepsHolders, StepKeepsChanges
<1>3. HistoryInv'
  BY OtherStepsKeepHistory, RatingKeepsHistory
<1>. QED  BY <1>1, <1>2, <1>3

THEOREM HistoryInvariant == Spec => []HInv
<1>1. Init => HInv
  BY InitInv, InitHistory DEF HInv
<1>2. HInv /\ [Next]_vars => HInv'
  BY StepKeepsHistory
<1>. QED  BY <1>1, <1>2, PTL DEF Spec

(* Every rated match counts once in the standings of its players, whoever   *)
(* retried it, and their rating is where the chain of their rating changes  *)
(* ends.                                                                    *)
THEOREM RatingsAreAppliedOnce == Spec => []StandingsMatchHistory
<1>1. HInv => StandingsMatchHistory
  BY HistoryImpliesStandings DEF HInv
<1>. QED  BY <1>1, HistoryInvariant, PTL

-----------------------------------------------------------------------------
(* The final positions: Ahead is a strict total order of the players who    *)
(* are eligible, so each is placed behind as many of them as are ahead.     *)
AheadOf(s, u) == {v \in Eligible(s) : Ahead(s, v, u)}

LEMMA AheadIsAnOrder ==
    ASSUME ProgressionTypeOK, NEW s \in Seasons
    PROVE  /\ \A u \in Eligible(s) : ~Ahead(s, u, u)
           /\ \A u, v \in Eligible(s) : u # v => Ahead(s, u, v) \/ Ahead(s, v, u)
           /\ \A u, v, x \in Eligible(s) : Ahead(s, u, v) /\ Ahead(s, v, x) => Ahead(s, u, x)
<1>1. \A u \in Eligible(s) : u \in Nat /\ standing[s][u] \in Standing
  BY UsersAssumption DEF Eligible, ProgressionTypeOK
<1>2. \A u \in Eligible(s) : /\ standing[s][u].rating \in Nat
                             /\ standing[s][u].wins \in Nat
                             /\ standing[s][u].reached \in Nat
  BY <1>1 DEF Standing
<1>3. \A u \in Eligible(s) : ~Ahead(s, u, u)
  BY <1>1, <1>2 DEF Ahead
<1>4. \A u, v \in Eligible(s) : u # v => Ahead(s, u, v) \/ Ahead(s, v, u)
  BY <1>1, <1>2 DEF Ahead
<1>5. \A u, v, x \in Eligible(s) : Ahead(s, u, v) /\ Ahead(s, v, x) => Ahead(s, u, x)
  BY <1>1, <1>2 DEF Ahead
<1>. QED  BY <1>3, <1>4, <1>5

LEMMA EligibleFinite ==
    ASSUME NEW s
    PROVE  /\ IsFiniteSet(Eligible(s))
           /\ \A u : /\ IsFiniteSet(AheadOf(s, u))
                     /\ Cardinality(AheadOf(s, u)) \in Nat
<1>1. IsFiniteSet(Eligible(s))
  BY UsersAssumption, FS_Subset, Eligible(s) \subseteq Users DEF Eligible
<1>2. \A u : IsFiniteSet(AheadOf(s, u))
  BY <1>1, FS_Subset DEF AheadOf
<1>. QED  BY <1>1, <1>2, FS_CardinalityType

LEMMA PositionsAreRanks ==
    ASSUME ProgressionTypeOK, NEW s \in Seasons
    PROVE  /\ \A u, v \in Eligible(s) : Ahead(s, u, v) => FinalPosition(s, u) < FinalPosition(s, v)
           /\ {FinalPosition(s, u) : u \in Eligible(s)} = 1 .. Cardinality(Eligible(s))
<1> DEFINE E == Eligible(s)
           n == Cardinality(E)
           f == [u \in E |-> FinalPosition(s, u)]
<1>1. IsFiniteSet(E) /\ n \in Nat
  BY EligibleFinite, FS_CardinalityType
<1>2. \A u \in E : FinalPosition(s, u) = 1 + Cardinality(AheadOf(s, u))
  BY DEF FinalPosition, AheadOf
<1>3. ASSUME NEW u \in E, NEW v \in E, Ahead(s, u, v)
      PROVE  FinalPosition(s, u) < FinalPosition(s, v)
  <2>1. AheadOf(s, u) \subseteq AheadOf(s, v) /\ u \in AheadOf(s, v) /\ u \notin AheadOf(s, u)
    BY <1>3, AheadIsAnOrder DEF AheadOf
  <2>2. Cardinality(AheadOf(s, u)) <= Cardinality(AheadOf(s, v))
    BY <2>1, EligibleFinite, FS_Subset
  <2>3. Cardinality(AheadOf(s, u)) # Cardinality(AheadOf(s, v))
    BY <2>1, EligibleFinite, FS_Subset
  <2>4. Cardinality(AheadOf(s, u)) \in Nat /\ Cardinality(AheadOf(s, v)) \in Nat
    BY EligibleFinite
  <2>. QED  BY <1>2, <2>2, <2>3, <2>4
<1>4. \A u \in E : FinalPosition(s, u) \in 1 .. n
  <2> SUFFICES ASSUME NEW u \in E
               PROVE  FinalPosition(s, u) \in 1 .. n
    OBVIOUS
  <2>1. AheadOf(s, u) \subseteq E /\ u \in E /\ u \notin AheadOf(s, u)
    BY AheadIsAnOrder DEF AheadOf
  <2>2. Cardinality(AheadOf(s, u)) <= n /\ Cardinality(AheadOf(s, u)) # n
    BY <1>1, <2>1, FS_Subset
  <2>3. Cardinality(AheadOf(s, u)) \in Nat
    BY EligibleFinite
  <2> HIDE DEF n, E
  <2>. QED  BY <1>1, <1>2, <2>2, <2>3
<1>5. f \in Injection(E, 1 .. n)
  <2>1. f \in [E -> 1 .. n]
    BY <1>4
  <2>2. \A u, v \in E : f[u] = f[v] => u = v
    <3> SUFFICES ASSUME NEW u \in E, NEW v \in E, u # v
                 PROVE  FinalPosition(s, u) # FinalPosition(s, v)
      OBVIOUS
    <3>1. FinalPosition(s, u) \in Int /\ FinalPosition(s, v) \in Int
      BY <1>4
    <3>2. FinalPosition(s, u) < FinalPosition(s, v) \/ FinalPosition(s, v) < FinalPosition(s, u)
      BY <1>3, AheadIsAnOrder
    <3>. QED  BY <3>1, <3>2
  <2>. QED  BY <2>1, <2>2 DEF Injection, IsInjective
<1>6. IsFiniteSet(1 .. n) /\ Cardinality(1 .. n) = n
  <2> HIDE DEF n
  <2>1. IsFiniteSet(1 .. n) /\ Cardinality(1 .. n) = IF 1 > n THEN 0 ELSE n - 1 + 1
    BY <1>1, FS_Interval
  <2>. QED  BY <1>1, <2>1
<1>7. f \in Surjection(E, 1 .. n)
  BY <1>1, <1>5, <1>6, FS_Injection
<1>8. {FinalPosition(s, u) : u \in E} = 1 .. n
  BY <1>4, <1>7 DEF Surjection
<1>. QED  BY <1>3, <1>8
(* A row of a closed season says the position its player ended at; before   *)
(* the season is closed, none.                                              *)
Positions ==
    \A s \in Seasons, u \in Users : standing[s][u] # None =>
        standing[s][u].position = IF status[s] = "closed" THEN FinalPosition(s, u) ELSE 0

(* Positions depend on nothing but what orders the eligible players.        *)
LEMMA SameRanks ==
    ASSUME NEW s, Eligible(s)' = Eligible(s),
           \A u \in Eligible(s) : /\ standing'[s][u].rating = standing[s][u].rating
                                  /\ standing'[s][u].wins = standing[s][u].wins
                                  /\ standing'[s][u].reached = standing[s][u].reached
    PROVE  \A u : FinalPosition(s, u)' = FinalPosition(s, u)
<1>1. \A u, v \in Eligible(s) : Ahead(s, v, u)' <=> Ahead(s, v, u)
  BY DEF Ahead
<1>2. \A u \in Eligible(s) : {v \in Eligible(s)' : Ahead(s, v, u)'} = {v \in Eligible(s) : Ahead(s, v, u)}
  BY <1>1
<1>. QED  BY <1>2 DEF FinalPosition

LEMMA FrozenRow ==
    ASSUME PInv, NEW s \in Seasons, NEW u \in Users, standing[s][u] # None
    PROVE  LET row == Freeze(s)[u]
           IN  /\ row # None /\ row.rating = standing[s][u].rating
               /\ row.wins = standing[s][u].wins /\ row.reached = standing[s][u].reached
               /\ row.played = standing[s][u].played
               /\ row.placements = standing[s][u].placements
               /\ row.position = FinalPosition(s, u)
<1> DEFINE row == [standing[s][u] EXCEPT !.position = FinalPosition(s, u), !.ending = EndingRank(s, u)]
<1>1. standing[s][u] \in Standing
  BY DEF PInv, ProgressionTypeOK
<1>2. row # None
  BY FrozenRowType, RowsAssumption DEF PInv
<1>3. /\ row.rating = standing[s][u].rating
      /\ row.wins = standing[s][u].wins /\ row.reached = standing[s][u].reached
      /\ row.played = standing[s][u].played
      /\ row.placements = standing[s][u].placements
      /\ row.position = FinalPosition(s, u)
  BY <1>1 DEF Standing
<1>4. Freeze(s)[u] = row
  BY DEF Freeze
<1> HIDE DEF row
<1>. QED  BY <1>2, <1>3, <1>4

LEMMA FreezingRanks ==
    ASSUME PInv, NEW s \in Seasons, \A u \in Users : standing'[s][u] = Freeze(s)[u]
    PROVE  /\ \A u : FinalPosition(s, u)' = FinalPosition(s, u)
           /\ \A u \in Users : standing'[s][u] # None =>
                  standing[s][u] # None /\ standing'[s][u].position = FinalPosition(s, u)
<1>1. \A u \in Users : standing[s][u] = None => standing'[s][u] = None
  BY DEF Freeze
<1>2. \A u \in Users : standing[s][u] # None =>
         /\ standing'[s][u] # None
         /\ standing'[s][u].rating = standing[s][u].rating
         /\ standing'[s][u].wins = standing[s][u].wins
         /\ standing'[s][u].reached = standing[s][u].reached
         /\ standing'[s][u].played = standing[s][u].played
         /\ standing'[s][u].placements = standing[s][u].placements
         /\ standing'[s][u].position = FinalPosition(s, u)
  BY FrozenRow
<1>3. Eligible(s)' = Eligible(s)
  BY <1>1, <1>2, UsersAssumption DEF Eligible
<1>4. \A u \in Eligible(s) : u \in Users /\ standing[s][u] # None
  BY UsersAssumption DEF Eligible
<1>5. \A u : FinalPosition(s, u)' = FinalPosition(s, u)
  BY <1>2, <1>3, <1>4, SameRanks
<1>. QED  BY <1>1, <1>2, <1>5

(* Rows that come late to a closed season are of players who have not       *)
(* played: they are not eligible and nobody's position changes.             *)
LEMMA LateRowsKeepRanks ==
    ASSUME PInv, NEW s \in Seasons,
           \A u \in Users : \/ standing'[s][u] = standing[s][u]
                            \/ /\ standing[s][u] = None
                               /\ \E rating \in Nat : standing'[s][u] = NewStanding(rating)
    PROVE  /\ \A u : FinalPosition(s, u)' = FinalPosition(s, u)
           /\ \A u \in Users : standing'[s][u] = standing[s][u] \/ u \notin Eligible(s)
<1>1. \A rating : NewStanding(rating).placements = 0
  BY DEF NewStanding
<1>2. \A u \in Users : standing'[s][u] = standing[s][u] \/
         /\ standing[s][u] = None
         /\ ~(standing'[s][u].placements >= PlacementsRequired)
  BY <1>1, RatingAssumption
<1>3. Eligible(s)' = Eligible(s)
  BY <1>2, UsersAssumption DEF Eligible
<1>4. \A u \in Eligible(s) : standing'[s][u] = standing[s][u]
  BY <1>2, UsersAssumption DEF Eligible
<1>. QED  BY <1>2, <1>3, <1>4, SameRanks DEF Eligible

LEMMA StepKeepsPositions ==
    ASSUME PInv, Positions, [Next]_vars
    PROVE  Positions'
<1> SUFFICES ASSUME NEW s \in Seasons, NEW u \in Users, standing'[s][u] # None
             PROVE  standing'[s][u].position = IF status'[s] = "closed" THEN FinalPosition(s, u)' ELSE 0
  BY DEF Positions
<1>1. standing[s][u] # None =>
         standing[s][u].position = IF status[s] = "closed" THEN FinalPosition(s, u) ELSE 0
  BY DEF Positions
<1>2. \A rating : NewStanding(rating).position = 0
  BY DEF NewStanding
<1>3. ASSUME NEW w \in Workers, RateMatch(w)
      PROVE  standing'[s][u].position = IF status'[s] = "closed" THEN FinalPosition(s, u)' ELSE 0
  <2>0. PICK m : m = worker[w].match
    OBVIOUS
  <2>1. m \in Matches /\ match[m].season \in Seasons /\ status[match[m].season] = "active"
    BY <1>3, <2>0 DEF RateMatch, PInv, WorkersInv, SeasonsKnown, Done
  <2>2. UNCHANGED status
    BY <1>3 DEF RateMatch
  <2>3. PICK base \in [Users -> Int] : \A t \in Seasons, v \in Users : standing'[t][v] =
           IF t = match[m].season /\ v \in Roster(m) THEN Rated(m, v, base[v]) ELSE standing[t][v]
    BY <1>3, <2>0, RateMatchRows
  <2>4. CASE s = match[m].season
    <3>1. status'[s] # "closed"
      BY <2>1, <2>2, <2>4
    <3>2. CASE u \in Roster(m)
      <4>1. Before(m, u) \in Standing
        BY <2>1, BeforeType DEF PInv
      <4>2. Before(m, u).position = 0
        BY <1>1, <1>2, <2>1, <2>4 DEF Before
      <4>3. Rated(m, u, base[u]).position = 0
        BY <4>1, <4>2 DEF Rated, Standing
      <4>. QED  BY <2>3, <2>4, <3>1, <3>2, <4>3
    <3>3. CASE u \notin Roster(m)
      BY <1>1, <2>1, <2>3, <2>4, <3>1, <3>3
    <3>. QED  BY <3>2, <3>3
  <2>5. CASE s # match[m].season
    <3>1. \A v \in Users : standing'[s][v] = standing[s][v]
      BY <2>3, <2>5
    <3>2. FinalPosition(s, u)' = FinalPosition(s, u)
      BY <3>1, LateRowsKeepRanks
    <3>. QED  BY <1>1, <2>2, <3>1, <3>2
  <2>. QED  BY <2>4, <2>5
<1>4. CASE \A w \in Workers : ~RateMatch(w)
  <2>1. CASE status'[s] = "closed" /\ status[s] # "closed"
    <3>1. standing' = [standing EXCEPT ![s] = Freeze(s)]
      BY <1>4, <2>1, OtherRows
    <3>2. \A v \in Users : standing'[s][v] = Freeze(s)[v]
      BY <3>1 DEF PInv, ProgressionTypeOK
    <3>. QED  BY <2>1, <3>2, FreezingRanks
  <2>2. CASE status'[s] # "closed"
    <3>1. status[s] # "closed"
      BY <2>2, StepFreezesClosed
    <3>. QED  BY <1>1, <1>2, <1>4, <2>2, <3>1, OtherRows
  <2>3. CASE status[s] = "closed"
    <3>1. status'[s] = "closed"
      BY <2>3, StepFreezesClosed
    <3>2. \A v \in Users : \/ standing'[s][v] = standing[s][v]
                           \/ /\ standing[s][v] = None
                              /\ \E rating \in Nat : standing'[s][v] = NewStanding(rating)
      BY <1>4, <2>3, OtherRows
    <3>3. FinalPosition(s, u)' = FinalPosition(s, u)
      BY <3>2, LateRowsKeepRanks
    <3>4. CASE standing'[s][u] = standing[s][u]
      BY <1>1, <2>3, <3>1, <3>3, <3>4
    <3>5. CASE standing'[s][u] # standing[s][u]
      <4>1. FinalPosition(s, u) = 0
        BY <3>2, <3>5, LateRowsKeepRanks DEF FinalPosition
      <4>. QED  BY <1>2, <3>1, <3>2, <3>3, <3>5, <4>1
    <3>. QED  BY <3>4, <3>5
  <2>. QED  BY <2>1, <2>2, <2>3
<1>. QED  BY <1>3, <1>4

LEMMA PositionsImplyOrder ==
    ASSUME ProgressionTypeOK, Positions
    PROVE  FinalPositionsStand
<1> SUFFICES ASSUME NEW s \in Seasons, status[s] = "closed"
             PROVE  /\ {standing[s][u].position : u \in Eligible(s)} = 1 .. Cardinality(Eligible(s))
                    /\ \A u, v \in Eligible(s) :
                          standing[s][u].rating > standing[s][v].rating
                              => standing[s][u].position < standing[s][v].position
                    /\ \A u \in Users \ Eligible(s) :
                          standing[s][u] # None => standing[s][u].position = 0
  BY DEF FinalPositionsStand
<1>1. \A u \in Users : standing[s][u] # None => standing[s][u].position = FinalPosition(s, u)
  BY DEF Positions
<1>2. \A u \in Eligible(s) : standing[s][u].position = FinalPosition(s, u)
  BY <1>1, UsersAssumption DEF Eligible
<1>3. {standing[s][u].position : u \in Eligible(s)} = 1 .. Cardinality(Eligible(s))
  BY <1>2, PositionsAreRanks
<1>4. \A u, v \in Eligible(s) : standing[s][u].rating > standing[s][v].rating => Ahead(s, u, v)
  BY DEF Ahead
<1>5. \A u \in Users \ Eligible(s) : FinalPosition(s, u) = 0
  BY DEF FinalPosition
<1>. QED  BY <1>1, <1>2, <1>3, <1>4, <1>5, PositionsAreRanks

(* When a season is closed its eligible players have the positions 1, 2,    *)
(* ... by the ratings they ended with, and rows that come late, or ratings  *)
(* of the next season, disturb none of them.                                *)
THEOREM PositionsAreFinal == Spec => []FinalPositionsStand
<1>1. Init => Positions
  BY DEF Init, Positions
<1>2. PInv /\ Positions /\ [Next]_vars => Positions'
  BY StepKeepsPositions
<1>3. PInv /\ Positions => FinalPositionsStand
  BY PositionsImplyOrder DEF PInv
<1>. QED  BY <1>1, <1>2, <1>3, ProgressionInvariant, PTL DEF Spec

-----------------------------------------------------------------------------
(* The ledger of the seasons.  A request is for a season that has begun: it *)
(* found it active, and no season is withdrawn.                             *)
RequestsTimely ==
    \A r \in Requests : request[r].step # "idle" => status[request[r].season] # "absent"

LEMMA StepKeepsTimely ==
    ASSUME PInv, RequestsTimely, [Next]_vars
    PROVE  RequestsTimely'
<1> USE DEF PInv, db
<1>1. \A s \in Seasons : status[s] # "absent" => status'[s] # "absent"
  BY DEF Next, vars, RetryWorker, RolloverWorker, Deadlock, LockUsers, InsertMatch, CompleteMatch,
         ForfeitMatch, EndMatch, ListPending, LockMatch, LockSeason, RateMatch, EndSeason,
         LockEndedSeason, CloseSeason, OpenProfile, ReadPrevious, JoinQueue, InsertStandings,
         BreakDeadlock, ProgressionTypeOK
<1>2. CASE UNCHANGED request
  BY <1>1, <1>2 DEF RequestsTimely, SeasonsKnown
<1>3. ASSUME NEW r \in Requests, NEW q, request' = [request EXCEPT ![r] = q],
             q.step # "idle" => q.season \in Seasons /\ status[q.season] # "absent"
      PROVE  RequestsTimely'
  BY <1>1, <1>3 DEF RequestsTimely, SeasonsKnown, ProgressionTypeOK
<1>4. ASSUME NEW r \in Requests, NEW u \in Users, OpenProfile(r, u)
      PROVE  RequestsTimely'
  BY <1>3, <1>4 DEF OpenProfile
<1>5. ASSUME NEW r \in Requests, NEW m \in Matches, NEW slot \in {1, 2}, JoinQueue(r, m, slot)
      PROVE  RequestsTimely'
  BY <1>3, <1>5 DEF JoinQueue
<1>6. ASSUME NEW r \in Requests, ReadPrevious(r)
      PROVE  RequestsTimely'
  <2>1. request[r] \in RequestState /\ request[r].season \in Seasons /\ status[request[r].season] # "absent"
    BY <1>6 DEF ReadPrevious, ProgressionTypeOK, RequestState, RequestsTimely, SeasonsKnown
  <2>2. \A n : [request[r] EXCEPT !.step = "insert", !.rating = n].season = request[r].season
    BY <2>1 DEF RequestState
  <2>3. PICK q : request' = [request EXCEPT ![r] = q] /\ (q.step = "idle" \/ q.season = request[r].season)
    <3>1. PICK u \in request[r].users :
             request' = [request EXCEPT
                  ![r] = IF standing[request[r].season][u] # None
                         THEN [step |-> "idle", users |-> {}, season |-> 0, rating |-> 0]
                         ELSE [request[r] EXCEPT !.step = "insert", !.rating = StartRating(u, request[r].season)]]
      BY <1>6 DEF ReadPrevious
    <3>. QED  BY <2>2, <3>1
  <2>. QED  BY <1>3, <2>1, <2>3
<1>7. ASSUME NEW r \in Requests, InsertStandings(r)
      PROVE  RequestsTimely'
  BY <1>3, <1>7 DEF InsertStandings
<1>. QED  BY <1>2, <1>4, <1>5, <1>6, <1>7
          DEF Next, vars, RetryWorker, RolloverWorker, Deadlock, LockUsers, InsertMatch, CompleteMatch,
              ForfeitMatch, EndMatch, ListPending, LockMatch, LockSeason, RateMatch, EndSeason,
              LockEndedSeason, CloseSeason, BreakDeadlock

(* Where one season is active, it is the one the ledger calls current. *)
LEMMA OneIsChosen ==
    ASSUME NEW f, NEW s \in Seasons,
           \A t \in Seasons : f[t] = IF t < s THEN "closed" ELSE IF t = s THEN "active" ELSE "absent"
    PROVE  s = CHOOSE t \in Seasons : f[t] = "active"
<1>1. \A t \in Seasons : f[t] = "active" <=> t = s
  BY DEF Seasons
<1>. QED  BY <1>1

LEMMA CurrentIsActive ==
    ASSUME OneActiveSeason
    PROVE  /\ CurrentSeason \in Seasons
           /\ \A t \in Seasons : status[t] = "active" <=> t = CurrentSeason
           /\ \A t \in Seasons : status[t] # "absent" <=> t <= CurrentSeason
<1>1. PICK s \in Seasons : \A t \in Seasons : status[t] = IF t < s THEN "closed" ELSE IF t = s THEN "active" ELSE "absent"
  BY DEF OneActiveSeason
<1>2. s = CurrentSeason
  BY <1>1, OneIsChosen DEF CurrentSeason
<1>. QED  BY <1>1, <1>2 DEF Seasons

(* The ledger sees nothing of a step that leaves standings and seasons alone *)
(* and rates no match.                                                       *)
LEMMA RatedInStays ==
    ASSUME HInv, [Next]_vars, \A w \in Workers : ~RateMatch(w)
    PROVE  UNCHANGED RatedIn
<1>1. /\ \A m \in Matches : match'[m].finalized = match[m].finalized
      /\ \A m \in Matches : match[m].status = "completed" => match'[m] = match[m]
  BY MarkersStay DEF HInv
<1>2. \A m \in Matches : match[m].finalized => match'[m].season = match[m].season
  BY <1>1 DEF HInv, ChangesInv
<1>. QED  BY <1>1, <1>2 DEF RatedIn

(* A rating transaction is one entry of the ledger.                         *)
LEMMA RatingIsEntered ==
    ASSUME HInv, NEW w \in Workers, RateMatch(w)
    PROVE  \E m \in Matches : Promised!Rate(m)
<1> USE DEF HInv
<1> DEFINE m == worker[w].match
           s == match[m].season
<1>1. m = worker[w].match
  OBVIOUS
<1>2. s = match[m].season
  OBVIOUS
<1>7. PICK base \in Elo[match[m].winner] :
         standing' = [standing EXCEPT ![s] =
                [u \in Users |-> IF u \in Roster(m) THEN Rated(m, u, base[SlotOf(m, u)]) ELSE @[u]]]
  BY DEF RateMatch
<1> HIDE DEF m, s
<1>3. /\ m \in Matches /\ s \in Seasons /\ m \notin Finalized
      /\ \A k \in Matches \ {m} : match'[k] = match[k]
      /\ match'[m] = [match[m] EXCEPT !.finalized = TRUE]
  BY <1>1, <1>2, RateMatchMarks
<1>4. match[m] \in Match /\ standing \in [Seasons -> [Users -> Standing \cup {None}]]
  BY <1>3 DEF PInv, ProgressionTypeOK
<1>5. s = CurrentSeason /\ CurrentSeason' = CurrentSeason
  <2>1. status[s] = "active" /\ UNCHANGED status
    BY <1>1, <1>2 DEF RateMatch, PInv, WorkersInv
  <2>. QED  BY <1>3, <2>1, CurrentIsActive DEF PInv, CurrentSeason
<1>6. RatedIn[m] = 0 /\ RatedIn' = [RatedIn EXCEPT ![m] = s]
  <2>1. match'[m].finalized /\ match'[m].season = s /\ ~match[m].finalized
    BY <1>2, <1>3, <1>4 DEF Match, Finalized
  <2>. QED  BY <1>3, <2>1 DEF RatedIn
<1>8. match[m].winner \in 0..2 /\ base \in Int \X Int
  BY <1>4, EloAssumption DEF Match
<1>9. PICK leavers : leavers = {u \in Roster(m) : u = match[m].quitter}
  OBVIOUS
<1>10. Roster(m) = Team[m][1] \cup Team[m][2] /\ Roster(m) \subseteq Users /\ Team[m][1] \cap Team[m][2] = {}
  BY <1>3, RosterUsers, TeamAssumption DEF Roster
<1>11. ASSUME NEW u \in Roster(m)
       PROVE  RatingIn'[s][u] = Promised!AtLeastZero(Promised!From(s, u) + base[SlotOf(m, u)]
                                                       - (IF u \in leavers THEN AbandonPenalty ELSE 0))
  <2>1. u \in Users /\ SlotOf(m, u) \in {1, 2}
    BY <1>10 DEF SlotOf
  <2>2. standing'[s][u] = Rated(m, u, base[SlotOf(m, u)])
    BY <1>3, <1>4, <1>7, <2>1
  <2>3. Before(m, u) \in Standing /\ ApplyRating(m, u, base[SlotOf(m, u)]) \in Nat
        /\ Rated(m, u, base[SlotOf(m, u)]) \in Standing
    <3>1. base[SlotOf(m, u)] \in Int
      BY <1>8, <2>1
    <3>. QED  BY <1>2, <1>3, <2>1, <3>1, BeforeType, ApplyRatingType, RatedType DEF PInv
  <2>4. Rated(m, u, base[SlotOf(m, u)]).rating = ApplyRating(m, u, base[SlotOf(m, u)])
    BY <2>3 DEF Rated, Standing
  <2>5. standing'[s][u] # None
    BY <2>2, <2>3, RowsAssumption
  <2>6. RatingIn'[s][u] = ApplyRating(m, u, base[SlotOf(m, u)])
    BY <1>3, <2>1, <2>2, <2>4, <2>5 DEF RatingIn
  <2>7. Before(m, u).rating = Promised!From(s, u)
    <3>1. standing[s][u] # None => standing[s][u].rating \in Nat
      BY <1>3, <1>4, <2>1 DEF Standing
    <3>2. standing[s][u] = None => Before(m, u).rating = InitialRating
      BY <1>2 DEF Before, NewStanding
    <3>3. standing[s][u] # None => Before(m, u) = standing[s][u]
      BY <1>2 DEF Before
    <3>. QED  BY <1>3, <2>1, <3>1, <3>2, <3>3 DEF Promised!From, Promised!NoRating, RatingIn
  <2>8. Penalty(m, u) = - (IF u \in leavers THEN AbandonPenalty ELSE 0) /\ AbandonPenalty \in Nat
    BY <1>9, RatingAssumption DEF Penalty
  <2>9. base[SlotOf(m, u)] \in Int /\ Before(m, u).rating \in Int
    BY <1>8, <2>1, <2>3 DEF Standing
  <2>. QED  BY <2>6, <2>7, <2>8, <2>9 DEF ApplyRating, Floored, Promised!AtLeastZero
<1>12. \A u \in Users \ Roster(m) : RatingIn'[s][u] = RatingIn[s][u]
  BY <1>3, <1>4, <1>7 DEF RatingIn
<1>13. RatingIn' = [RatingIn EXCEPT ![s] = [u \in Users |->
          LET penalty == IF u \in leavers THEN AbandonPenalty ELSE 0 IN
          IF u \in Team[m][1]      THEN Promised!AtLeastZero(Promised!From(s, u) + base[1] - penalty)
          ELSE IF u \in Team[m][2] THEN Promised!AtLeastZero(Promised!From(s, u) + base[2] - penalty)
          ELSE RatingIn[s][u]]]
  <2>1. \A t \in Seasons \ {s} : RatingIn'[t] = RatingIn[t]
    BY <1>4, <1>7 DEF RatingIn
  <2>2. RatingIn' = [t \in Seasons |-> RatingIn'[t]] /\ RatingIn'[s] = [u \in Users |-> RatingIn'[s][u]]
        /\ DOMAIN RatingIn = Seasons
    BY <1>3 DEF RatingIn
  <2>3. /\ \A u \in Team[m][1] : SlotOf(m, u) = 1
        /\ \A u \in Team[m][2] : SlotOf(m, u) = 2
    BY <1>10 DEF SlotOf
  <2>. QED  BY <1>3, <1>10, <1>11, <1>12, <2>1, <2>2, <2>3
<1>14. Promised!Rate(m)
  <2>1. leavers \in SUBSET (Team[m][1] \cup Team[m][2]) /\ \A u, v \in leavers : u = v
    BY <1>9, <1>10
  <2>2. RatingIn' = [RatingIn EXCEPT ![CurrentSeason] = [u \in Users |->
          LET penalty == IF u \in leavers THEN AbandonPenalty ELSE 0 IN
          IF u \in Team[m][1]      THEN Promised!AtLeastZero(Promised!From(CurrentSeason, u) + base[1] - penalty)
          ELSE IF u \in Team[m][2] THEN Promised!AtLeastZero(Promised!From(CurrentSeason, u) + base[2] - penalty)
          ELSE RatingIn[CurrentSeason][u]]]
    BY <1>5, <1>13
  <2>3. \E winner \in 0..2 : base \in Elo[winner]
    BY <1>7, <1>8
  <2>. QED  BY ZenonT(30), <1>5, <1>6, <2>1, <2>2, <2>3 DEF Promised!Rate
<1>. QED  BY <1>3, <1>14

(* Closing a season turns the ledger over.                                  *)
LEMMA ClosingTurnsOver ==
    ASSUME HInv, PInv', [Next]_vars, NEW p \in Rollers, CloseSeason(p)
    PROVE  Promised!TurnOver
<1> USE DEF HInv, PInv
<1>1. PICK s \in 1 .. (MaxSeason - 1) :
         /\ status[s] = "active"
         /\ standing' = [standing EXCEPT ![s] = Freeze(s)]
         /\ status' = [status EXCEPT ![s] = "closed", ![s + 1] = "active"]
  BY DEF CloseSeason
<1>2. s \in Seasons /\ s + 1 \in Seasons /\ s < MaxSeason
  BY <1>1, BoundAssumption DEF Seasons
<1>3. CurrentSeason = s
  BY <1>1, <1>2, CurrentIsActive
<1>4. CurrentSeason' = s + 1
  <2>1. status'[s + 1] = "active"
    BY <1>1, <1>2 DEF ProgressionTypeOK
  <2>2. PICK t \in Seasons : \A q \in Seasons : status'[q] = IF q < t THEN "closed" ELSE IF q = t THEN "active" ELSE "absent"
    BY DEF OneActiveSeason
  <2>3. t = CurrentSeason'
    BY <2>2, OneIsChosen DEF CurrentSeason
  <2>4. t = s + 1
    BY <1>2, <2>1, <2>2
  <2>. QED  BY <2>3, <2>4
<1>5. UNCHANGED RatingIn
  <2>1. \A u \in Users : /\ Freeze(s)[u] = None <=> standing[s][u] = None
                         /\ standing[s][u] # None => Freeze(s)[u].rating = standing[s][u].rating
    <3> SUFFICES ASSUME NEW u \in Users, standing[s][u] # None
                 PROVE  Freeze(s)[u] # None /\ Freeze(s)[u].rating = standing[s][u].rating
      BY DEF Freeze
    <3>1. standing[s][u] \in Standing
      BY <1>2 DEF ProgressionTypeOK
    <3>2. Freeze(s)[u] = [standing[s][u] EXCEPT !.position = FinalPosition(s, u), !.ending = EndingRank(s, u)]
      BY DEF Freeze
    <3>3. Freeze(s)[u].rating = standing[s][u].rating
      BY <3>1, <3>2 DEF Standing
    <3>4. Freeze(s)[u] # None
      <4>1. Freeze(s)[u] \in Standing
        BY <1>2, <3>1, <3>2, FrozenRowType
      <4>. QED  BY <4>1, RowsAssumption
    <3>. QED  BY <3>3, <3>4
  <2>2. \A t \in Seasons : standing'[t] = IF t = s THEN Freeze(s) ELSE standing[t]
    BY <1>1, <1>2 DEF ProgressionTypeOK
  <2>. QED  BY <2>1, <2>2 DEF RatingIn
<1>6. UNCHANGED RatedIn
  BY DEF CloseSeason, RatedIn
<1>. QED  BY <1>2, <1>3, <1>4, <1>5, <1>6 DEF Promised!TurnOver

(* A row that is inserted gives a rating to who has none.                   *)
LEMMA InsertingEnters ==
    ASSUME HInv, RequestsTimely, NEW r \in Requests, InsertStandings(r)
    PROVE  \E s \in 1..CurrentSeason : Promised!Enter(s)
<1> USE DEF HInv, PInv
<1>1. PICK s : s = request[r].season
  OBVIOUS
<1>2. s \in Seasons /\ status[s] # "absent"
  BY <1>1 DEF InsertStandings, SeasonsKnown, RequestsTimely
<1>3. s \in 1..CurrentSeason
  BY <1>2, CurrentIsActive DEF Seasons
<1>4. standing' = [standing EXCEPT ![s] =
              [u \in Users |-> IF u \in request[r].users /\ @[u] = None
                               THEN NewStanding(request[r].rating) ELSE @[u]]]
      /\ UNCHANGED <<status, match>>
  BY <1>1 DEF InsertStandings
<1>5. \A u \in Users : standing[s][u] # None => standing'[s][u] = standing[s][u]
  BY <1>2, <1>4 DEF ProgressionTypeOK
<1>6. \A t \in Seasons \ {s} : standing'[t] = standing[t]
  BY <1>4 DEF ProgressionTypeOK
<1>7. \A u \in Users : RatingIn[s][u] # -1 => RatingIn'[s][u] = RatingIn[s][u]
  BY <1>2, <1>5 DEF RatingIn
<1>8. \A t \in 1..MaxSeason \ {s} : RatingIn'[t] = RatingIn[t]
  BY <1>6 DEF RatingIn, Seasons
<1>9. UNCHANGED <<CurrentSeason, RatedIn>>
  BY <1>4 DEF CurrentSeason, RatedIn
<1>10. Promised!Enter(s)
  BY <1>7, <1>8, <1>9 DEF Promised!Enter, Promised!NoRating
<1>. QED  BY <1>3, <1>10

LEMMA LedgerStep ==
    ASSUME HInv, PInv', RequestsTimely, [Next]_vars
    PROVE  [Promised!LedgerNext]_<<CurrentSeason, RatedIn, RatingIn>>
<1>1. ASSUME NEW w \in Workers, RateMatch(w) PROVE Promised!LedgerNext
  BY <1>1, RatingIsEntered DEF Promised!LedgerNext
<1>2. ASSUME NEW p \in Rollers, CloseSeason(p) PROVE Promised!LedgerNext
  BY <1>2, ClosingTurnsOver DEF Promised!LedgerNext
<1>3. ASSUME NEW r \in Requests, InsertStandings(r) PROVE Promised!LedgerNext
  BY <1>3, InsertingEnters DEF Promised!LedgerNext
<1>4. CASE /\ \A w \in Workers : ~RateMatch(w)
           /\ \A p \in Rollers : ~CloseSeason(p)
           /\ \A r \in Requests : ~InsertStandings(r)
  <2>1. UNCHANGED RatedIn
    BY <1>4, RatedInStays
  <2>2. UNCHANGED <<status, standing>>
    <3>1. \A m \in Matches : CompleteMatch(m) \/ ForfeitMatch(m) => UNCHANGED <<status, standing>>
      BY DEF CompleteMatch, ForfeitMatch, EndMatch
    <3>. QED
     BY <1>4, <3>1 DEF Next, vars, db, RetryWorker, RolloverWorker, Deadlock, LockUsers, InsertMatch,
         ListPending, LockMatch, LockSeason, EndSeason, LockEndedSeason, OpenProfile, ReadPrevious, JoinQueue, BreakDeadlock
  <2>. QED  BY <2>1, <2>2 DEF CurrentSeason, RatingIn
<1>. QED  BY <1>1, <1>2, <1>3, <1>4

(* Progression implements the ledger of the seasons: whatever workers,      *)
(* rollovers and requests interleave, each of their steps rates one match   *)
(* in the current season, turns the season over, gives first ratings to     *)
(* players who have none, or is not seen.                                   *)
THEOREM LedgerIsKept == Spec => KeepsLedger
<1>1. Init => RequestsTimely /\ Promised!LedgerInit
  <2> SUFFICES ASSUME Init PROVE RequestsTimely /\ Promised!LedgerInit
    OBVIOUS
  <2>1. RequestsTimely
    BY DEF Init, RequestsTimely
  <2>2. 1 \in Seasons /\ \A t \in Seasons : status[t] = "active" <=> t = 1
    BY BoundAssumption DEF Init, Seasons
  <2>3. CurrentSeason = 1
    BY <2>2 DEF CurrentSeason
  <2>. QED  BY <2>1, <2>3 DEF Init, Promised!LedgerInit, Promised!NoRating, RatedIn, RatingIn, Seasons
<1>2. HInv /\ HInv' /\ RequestsTimely /\ [Next]_vars => RequestsTimely' /\ [Promised!LedgerNext]_<<CurrentSeason, RatedIn, RatingIn>>
  BY StepKeepsTimely, LedgerStep DEF HInv
<1>. QED  BY <1>1, <1>2, HistoryInvariant, PTL DEF Spec, KeepsLedger, Promised!Ledger
=============================================================================
