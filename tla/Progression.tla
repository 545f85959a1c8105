----------------------------- MODULE Progression -----------------------------
(***************************************************************************)
(* Competitive progression: how ranked matches change ratings, and how one *)
(* season becomes the next (competitive/).                                 *)
(*                                                                         *)
(* A ranked match takes the season that is active when it is formed.  When *)
(* it ends, its ratings stay pending; a retry worker of every API process  *)
(* lists the oldest pending matches and rates them one transaction each,   *)
(* while a rollover worker of every process closes the season that ended   *)
(* and opens the next.  Profile reads and queue joins create the standing  *)
(* rows these transactions update.                                         *)
(*                                                                         *)
(* Transactions are READ COMMITTED and only their row locks order them.  A *)
(* step of a transaction that may wait is an action of its own, enabled    *)
(* when the lock it asks for is free; a foreign key check asks for a share *)
(* of the row it refers to, which FOR UPDATE excludes.  The holder of a    *)
(* lock follows from the steps of the transactions.                        *)
(***************************************************************************)
EXTENDS Integers, FiniteSets

CONSTANTS
    Users,          \* numbered in the order of their ids
    GoodStanding,   \* users with an active account
    Matches,
    Team,           \* rosters: [Matches -> [{1, 2} -> SUBSET Users]]
    Workers,        \* retry workers, one per API process
    Rollers,        \* rollover workers, one per API process
    Requests,       \* profile reads and queue joins in flight
    None,
    InitialRating, ResetBPS, PlacementsRequired, TopMinMatches, LegendRating, TopLimit,
    AbandonPenalty,
    Elo,            \* winner slot -> base deltas <<team one, team two>> the Elo curve can give
    BatchSize,      \* pending matches one tick of a retry worker takes
    MaxSeason,      \* bound: seasons
    Results         \* bound: winner slots of matches played out

Seasons == 1 .. MaxSeason

ASSUME UsersAssumption == Users \subseteq Nat /\ IsFiniteSet(Users) /\ GoodStanding \subseteq Users
ASSUME MatchesAssumption == IsFiniteSet(Matches) /\ None \notin Matches
ASSUME TeamAssumption == /\ Team \in [Matches -> [{1, 2} -> SUBSET Users]]
                         /\ \A m \in Matches : Team[m][1] \cap Team[m][2] = {}
ASSUME RatingAssumption == /\ {InitialRating, PlacementsRequired, TopMinMatches,
                               AbandonPenalty, LegendRating, TopLimit} \subseteq Nat
                           /\ ResetBPS \in 0 .. 10000 /\ PlacementsRequired > 0
ASSUME EloAssumption == Elo \in [0 .. 2 -> SUBSET (Int \X Int)]
ASSUME BoundAssumption == MaxSeason \in Nat \ {0} /\ BatchSize \in Nat \ {0}
                         /\ Results \subseteq 0 .. 2

VARIABLES
    status,     \* competitive_seasons.status: "absent", "active", "closed"
    due,        \* the active season's ends_at has passed
    match,      \* matches: status, season, result, progression_finalized_at
    standing,   \* competitive_standings: [Seasons -> [Users -> row or None]]
    change,     \* competitive_rating_changes: [Matches -> [Users -> row or None]]
    forming,    \* formation transactions: the season resolved, 0 without one
    worker,     \* retry workers: matches left of the tick, the transaction under way
    roller,     \* rollover transactions
    request     \* profile reads and queue joins

db == <<status, due, match, standing, change>>
vars == <<db, forming, worker, roller, request>>

-----------------------------------------------------------------------------
Roster(m) == Team[m][1] \cup Team[m][2]

SlotOf(m, u) == IF u \in Team[m][1] THEN 1 ELSE 2

Outcome(m, u) ==
    CASE match[m].winner = 0            -> "draw"
      [] match[m].winner = SlotOf(m, u) -> "win"
      [] OTHER                          -> "loss"

Finalized == {m \in Matches : match[m].finalized}

(* Rows are timed by the number of matches rated before them.               *)
Now == Cardinality(Finalized)

Standing == [rating : Nat, placements : Nat, played : Nat, wins : Nat, losses : Nat,
             draws : Nat, abandons : Nat, reached : Nat,
             position : Nat, ending : {"none", "division", "legend"}]

NewStanding(rating) ==
    [rating |-> rating, placements |-> 0, played |-> 0, wins |-> 0, losses |-> 0, draws |-> 0,
     abandons |-> 0, reached |-> Now, position |-> 0, ending |-> "none"]

Change == [season : Seasons, base : Int, penalty : Int, old : Nat, new : Nat, at : Nat]

Match == [status : {"none", "active", "completed"}, season : Seasons \cup {0},
          winner : 0 .. 2, quitter : Users \cup {None}, order : Nat, finalized : BOOLEAN]

ASSUME RowsAssumption == None \notin Standing /\ None \notin Change

ProgressionTypeOK ==
    /\ status \in [Seasons -> {"absent", "active", "closed"}]
    /\ due \in BOOLEAN
    /\ match \in [Matches -> Match]
    /\ standing \in [Seasons -> [Users -> Standing \cup {None}]]
    /\ change \in [Matches -> [Users -> Change \cup {None}]]
    /\ forming \in [Matches -> Seasons \cup {0}]
    /\ worker \in [Workers -> [step : {"idle", "next", "season", "rate"}, todo : SUBSET Matches,
                                 match : Matches \cup {None}]]
    /\ roller \in [Rollers -> {"idle", "closing"}]
    /\ request \in [Requests -> [step : {"idle", "profile", "insert"}, users : SUBSET Users,
                                 season : Seasons \cup {0}, rating : Nat]]

Init ==
    /\ status = [s \in Seasons |-> IF s = 1 THEN "active" ELSE "absent"]
    /\ due = FALSE
    /\ match = [m \in Matches |-> [status |-> "none", season |-> 0, winner |-> 0,
                                   quitter |-> None, order |-> 0, finalized |-> FALSE]]
    /\ standing = [s \in Seasons |-> [u \in Users |-> None]]
    /\ change = [m \in Matches |-> [u \in Users |-> None]]
    /\ forming = [m \in Matches |-> 0]
    /\ worker = [w \in Workers |-> [step |-> "idle", todo |-> {}, match |-> None]]
    /\ roller = [p \in Rollers |-> "idle"]
    /\ request = [r \in Requests |-> [step |-> "idle", users |-> {}, season |-> 0, rating |-> 0]]

-----------------------------------------------------------------------------
(* Who holds which row.                                                     *)

(* Bug variant: the match row is read without FOR UPDATE.                   *)
MatchHeld_Never(m) == FALSE

MatchHeld(m) == \E w \in Workers : worker[w].step \in {"season", "rate"} /\ worker[w].match = m

SeasonHeld(s) ==
    /\ status[s] = "active"
    /\ \/ \E w \in Workers : worker[w].step = "rate"
       \/ \E p \in Rollers : roller[p] = "closing"

UserHeld(u) == \E m \in Matches : forming[m] # 0 /\ u \in Roster(m)

-----------------------------------------------------------------------------
(* Ranked matches: formed, and ended by their last round or by a forfeit.   *)

LockUsers(m) ==
    /\ match[m].status = "none" /\ forming[m] = 0
    /\ \A u \in Roster(m) :
          /\ ~UserHeld(u)
          /\ ~\E k \in Matches : match[k].status = "active" /\ u \in Roster(k)
    /\ \E s \in Seasons : status[s] = "active" /\ forming' = [forming EXCEPT ![m] = s]
    /\ UNCHANGED <<db, worker, roller, request>>

InsertMatch(m) ==
    /\ forming[m] # 0 /\ ~SeasonHeld(forming[m])
    /\ match' = [match EXCEPT ![m].status = "active", ![m].season = forming[m]]
    /\ forming' = [forming EXCEPT ![m] = 0]
    /\ UNCHANGED <<status, due, standing, change, worker, roller, request>>

EndMatch(m, winner, quitter) ==
    /\ match[m].status = "active"
    /\ match' = [match EXCEPT ![m].status = "completed", ![m].winner = winner,
                              ![m].quitter = quitter,
                              ![m].order = Cardinality({k \in Matches : match[k].status = "completed"}) + 1]
    /\ UNCHANGED <<status, due, standing, change, forming, worker, roller, request>>

CompleteMatch(m) == \E winner \in Results : EndMatch(m, winner, None)

ForfeitMatch(m) == \E u \in Roster(m) : EndMatch(m, 3 - SlotOf(m, u), u)

-----------------------------------------------------------------------------
(* The retry worker.                                                        *)

Pending == {m \in Matches : match[m].status = "completed" /\ ~match[m].finalized}

Batch == {m \in Pending :
            Cardinality({k \in Pending : match[k].order < match[m].order}) < BatchSize}

ListPending(w) ==
    /\ worker[w].step = "idle" /\ Pending # {}
    /\ worker' = [worker EXCEPT ![w] = [step |-> "next", todo |-> Batch, match |-> None]]
    /\ UNCHANGED <<db, forming, roller, request>>

(* The worker is done with a match, rated or not, and turns to the next.    *)
Proceed(w, m) ==
    LET rest == worker[w].todo \ {m}
    IN  worker' = [worker EXCEPT ![w] = [step |-> IF rest = {} THEN "idle" ELSE "next",
                                         todo |-> rest, match |-> None]]

(* A match rated meanwhile is replayed, which writes nothing.               *)
LockMatch(w, m) ==
    /\ worker[w].step = "next" /\ m \in worker[w].todo
    /\ \A k \in worker[w].todo : match[m].order <= match[k].order
    /\ ~MatchHeld(m)
    /\ IF match[m].finalized
       THEN Proceed(w, m)
       ELSE worker' = [worker EXCEPT ![w].step = "season", ![w].match = m]
    /\ UNCHANGED <<db, forming, roller, request>>

(* Bug variant: the match's season is not compared with the active one.     *)
LockSeason_AnySeason(w) ==
    /\ worker[w].step = "season"
    /\ \A s \in Seasons : ~SeasonHeld(s)
    /\ worker' = [worker EXCEPT ![w].step = "rate"]
    /\ UNCHANGED <<db, forming, roller, request>>

(* The active season is locked, and it must be the match's.  A worker that  *)
(* waited while its season was closed finds no active row and fails too.    *)
LockSeason(w) ==
    LET m == worker[w].match
    IN  /\ worker[w].step = "season"
        /\ \A s \in Seasons : ~SeasonHeld(s)
        /\ IF status[match[m].season] = "active"
           THEN worker' = [worker EXCEPT ![w].step = "rate"]
           ELSE Proceed(w, m)
        /\ UNCHANGED <<db, forming, roller, request>>

Before(m, u) ==
    LET row == standing[match[m].season][u]
    IN  IF row = None THEN NewStanding(InitialRating) ELSE row

Penalty(m, u) == IF u = match[m].quitter THEN -AbandonPenalty ELSE 0

(* Bug variant: nothing keeps a rating from falling below zero.             *)
Floored_Unclamped(rating) == rating

Floored(rating) == IF rating < 0 THEN 0 ELSE rating

ApplyRating(m, u, base) == Floored(Before(m, u).rating + base + Penalty(m, u))

NextPlacements(n) == IF n >= PlacementsRequired THEN PlacementsRequired ELSE n + 1

RatingChange(m, u, base) ==
    [season |-> match[m].season, base |-> base, penalty |-> Penalty(m, u),
     old |-> Before(m, u).rating, new |-> ApplyRating(m, u, base), at |-> Now]

Count(b) == IF b THEN 1 ELSE 0

Rated(m, u, base) ==
    LET row == Before(m, u)
        new == ApplyRating(m, u, base)
    IN  [row EXCEPT !.rating = new,
                    !.placements = NextPlacements(@),
                    !.played = @ + 1,
                    !.wins = @ + Count(Outcome(m, u) = "win"),
                    !.losses = @ + Count(Outcome(m, u) = "loss"),
                    !.draws = @ + Count(Outcome(m, u) = "draw"),
                    !.abandons = @ + Count(u = match[m].quitter),
                    !.reached = IF new # row.rating THEN Now ELSE @]

(* Standings, rating changes and the marker are written in one transaction; *)
(* its inserts refer to the users.                                          *)
RateMatch(w) ==
    LET m == worker[w].match
        s == match[m].season
    IN  /\ worker[w].step = "rate"
        /\ \A u \in Roster(m) : ~UserHeld(u)
        /\ \E base \in Elo[match[m].winner] :
              /\ standing' = [standing EXCEPT ![s] =
                    [u \in Users |-> IF u \in Roster(m) THEN Rated(m, u, base[SlotOf(m, u)]) ELSE @[u]]]
              /\ change' = [change EXCEPT ![m] =
                    [u \in Users |-> IF u \in Roster(m) THEN RatingChange(m, u, base[SlotOf(m, u)]) ELSE @[u]]]
        /\ match' = [match EXCEPT ![m].finalized = TRUE]
        /\ Proceed(w, m)
        /\ UNCHANGED <<status, due, forming, roller, request>>

-----------------------------------------------------------------------------
(* The rollover worker.                                                     *)

EndSeason ==
    /\ ~due /\ status[MaxSeason] = "absent"
    /\ due' = TRUE
    /\ UNCHANGED <<status, match, standing, change, forming, worker, roller, request>>

(* One rollover at a time under the advisory lock; it waits for the season's*)
(* row and leaves a season alone that has not ended.                        *)
LockEndedSeason(p) ==
    /\ \A q \in Rollers : roller[q] = "idle"
    /\ \A s \in Seasons : ~SeasonHeld(s)
    /\ due
    /\ roller' = [roller EXCEPT ![p] = "closing"]
    /\ UNCHANGED <<db, forming, worker, request>>

(* Bug variant: players with equal ratings are not told apart.              *)
Ahead_RatingOnly(s, v, u) == standing[s][v].rating > standing[s][u].rating

Ahead(s, v, u) ==
    LET a == standing[s][v]
        b == standing[s][u]
    IN  \/ a.rating > b.rating
        \/ a.rating = b.rating /\ a.wins > b.wins
        \/ a.rating = b.rating /\ a.wins = b.wins /\ a.reached < b.reached
        \/ a.rating = b.rating /\ a.wins = b.wins /\ a.reached = b.reached /\ v < u

Eligible(s) ==
    {u \in GoodStanding : /\ standing[s][u] # None
                          /\ standing[s][u].placements >= PlacementsRequired
                          /\ standing[s][u].played >= TopMinMatches
                          /\ standing[s][u].rating >= LegendRating}

FinalPosition(s, u) ==
    IF u \in Eligible(s) THEN 1 + Cardinality({v \in Eligible(s) : Ahead(s, v, u)}) ELSE 0

EndingRank(s, u) ==
    CASE standing[s][u].placements < PlacementsRequired -> "none"
      [] FinalPosition(s, u) \in 1 .. TopLimit          -> "legend"
      [] OTHER                                          -> "division"

Freeze(s) ==
    [u \in Users |-> IF standing[s][u] = None THEN None
                     ELSE [standing[s][u] EXCEPT !.position = FinalPosition(s, u),
                                                 !.ending = EndingRank(s, u)]]

CloseSeason(p) ==
    /\ roller[p] = "closing"
    /\ \E s \in 1 .. (MaxSeason - 1) :
          /\ status[s] = "active"
          /\ standing' = [standing EXCEPT ![s] = Freeze(s)]
          /\ status' = [status EXCEPT ![s] = "closed", ![s + 1] = "active"]
    /\ due' = FALSE
    /\ roller' = [roller EXCEPT ![p] = "idle"]
    /\ UNCHANGED <<match, change, forming, worker, request>>

-----------------------------------------------------------------------------
(* Standings made on first use: a profile read looks for the season's row   *)
(* and for the last closed season's rating, then inserts; a queue join      *)
(* inserts its whole roster at the season's initial rating.                 *)

Rounded(n, d) == IF n >= 0 THEN (2 * n + d) \div (2 * d) ELSE -((d - 2 * n) \div (2 * d))

SoftReset(rating) == Floored(InitialRating + Rounded((rating - InitialRating) * ResetBPS, 10000))

ClosedWith(u, s) == {c \in Seasons \ {s} : status[c] = "closed" /\ standing[c][u] # None}

StartRating(u, s) ==
    IF ClosedWith(u, s) = {} THEN InitialRating
    ELSE LET last == CHOOSE c \in ClosedWith(u, s) : \A d \in ClosedWith(u, s) : d <= c
         IN  SoftReset(standing[last][u].rating)

OpenProfile(r, u) ==
    /\ request[r].step = "idle"
    /\ \E s \in Seasons :
          /\ status[s] = "active"
          /\ request' = [request EXCEPT ![r] = [step |-> "profile", users |-> {u}, season |-> s, rating |-> 0]]
    /\ UNCHANGED <<db, forming, worker, roller>>

ReadPrevious(r) ==
    LET s == request[r].season
    IN  /\ request[r].step = "profile"
        /\ \E u \in request[r].users :
              request' = [request EXCEPT
                  ![r] = IF standing[s][u] # None
                         THEN [step |-> "idle", users |-> {}, season |-> 0, rating |-> 0]
                         ELSE [@ EXCEPT !.step = "insert", !.rating = StartRating(u, s)]]
        /\ UNCHANGED <<db, forming, worker, roller>>

JoinQueue(r, m, slot) ==
    /\ request[r].step = "idle" /\ match[m].status = "none"
    /\ \E s \in Seasons :
          /\ status[s] = "active"
          /\ request' = [request EXCEPT ![r] = [step |-> "insert", users |-> Team[m][slot],
                                                season |-> s, rating |-> InitialRating]]
    /\ UNCHANGED <<db, forming, worker, roller>>

(* Bug variant: a row that exists is set back (no ON CONFLICT DO NOTHING).  *)
InsertStandings_Upsert(r) ==
    LET s == request[r].season
    IN  /\ request[r].step = "insert"
        /\ ~SeasonHeld(s) /\ \A u \in request[r].users : ~UserHeld(u)
        /\ standing' = [standing EXCEPT ![s] =
              [u \in Users |-> IF u \in request[r].users THEN NewStanding(request[r].rating) ELSE @[u]]]
        /\ request' = [request EXCEPT ![r] = [step |-> "idle", users |-> {}, season |-> 0, rating |-> 0]]
        /\ UNCHANGED <<status, due, match, change, forming, worker, roller>>

InsertStandings(r) ==
    LET s == request[r].season
    IN  /\ request[r].step = "insert"
        /\ ~SeasonHeld(s) /\ \A u \in request[r].users : ~UserHeld(u)
        /\ standing' = [standing EXCEPT ![s] =
              [u \in Users |-> IF u \in request[r].users /\ @[u] = None
                               THEN NewStanding(request[r].rating) ELSE @[u]]]
        /\ request' = [request EXCEPT ![r] = [step |-> "idle", users |-> {}, season |-> 0, rating |-> 0]]
        /\ UNCHANGED <<status, due, match, change, forming, worker, roller>>

-----------------------------------------------------------------------------
(* The worker holds the season the formation's match refers to, and its     *)
(* rating changes refer to users the formation holds: PostgreSQL aborts one *)
(* of the two.  A transaction lost in any other way ends like these.        *)

Deadlocked(w, m) ==
    /\ worker[w].step = "rate"
    /\ forming[m] = match[worker[w].match].season
    /\ Roster(m) \cap Roster(worker[w].match) # {}

BreakDeadlock(w, m) ==
    /\ Deadlocked(w, m)
    /\ \/ Proceed(w, worker[w].match) /\ UNCHANGED forming
       \/ forming' = [forming EXCEPT ![m] = 0] /\ UNCHANGED worker
    /\ UNCHANGED <<db, roller, request>>

-----------------------------------------------------------------------------
RetryWorker(w) ==
    \/ ListPending(w)
    \/ \E m \in Matches : LockMatch(w, m)
    \/ LockSeason(w)
    \/ RateMatch(w)

RolloverWorker(p) == LockEndedSeason(p) \/ CloseSeason(p)

Deadlock == \E w \in Workers, m \in Matches : BreakDeadlock(w, m)

Next ==
    \/ \E m \in Matches : \/ LockUsers(m) \/ InsertMatch(m) \/ CompleteMatch(m)
                          \/ ForfeitMatch(m)
    \/ \E w \in Workers : RetryWorker(w)
    \/ EndSeason
    \/ \E p \in Rollers : RolloverWorker(p)
    \/ \E r \in Requests : \/ \E u \in Users : OpenProfile(r, u)
                           \/ ReadPrevious(r)
                           \/ \E m \in Matches, slot \in {1, 2} : JoinQueue(r, m, slot)
                           \/ InsertStandings(r)
    \/ Deadlock

Spec == Init /\ [][Next]_vars

(* Workers tick for ever; a transaction that waits for a row gets it in the *)
(* order of PostgreSQL's wait queue, hence strong fairness, and a deadlock  *)
(* is detected.  Nobody has to form, end or read anything.                  *)
FairSpec ==
    /\ Spec
    /\ \A m \in Matches : SF_vars(InsertMatch(m))
    /\ \A w \in Workers : SF_vars(RetryWorker(w))
    /\ \A p \in Rollers : SF_vars(RolloverWorker(p))
    /\ WF_vars(Deadlock)

-----------------------------------------------------------------------------
(* Ratings are applied exactly once, whoever retries: the matches a player  *)
(* has rating changes of are the finalized ones of the season; each counts  *)
(* once in the standing, by its outcome; each change starts from the rating *)
(* the one before it left, and the last one leaves the standing's rating    *)
(* (FinalizeMatchProgression).                                              *)
StandingsMatchHistory ==
    \A s \in Seasons, u \in Users :
        LET row == standing[s][u]
            hist == {m \in Finalized : match[m].season = s /\ u \in Roster(m)}
            Times(outcome) == Cardinality({m \in hist : Outcome(m, u) = outcome})
        IN  /\ hist = {m \in Matches : change[m][u] # None /\ change[m][u].season = s}
            /\ row = None => hist = {}
            /\ row # None =>
                 /\ row.played = Cardinality(hist)
                 /\ <<row.wins, row.losses, row.draws>> = <<Times("win"), Times("loss"), Times("draw")>>
                 /\ row.abandons = Cardinality({m \in hist : match[m].quitter = u})
                 /\ \A m \in hist :
                       LET later == {k \in hist : change[k][u].at > change[m][u].at}
                       IN  IF later = {} THEN change[m][u].new = row.rating
                           ELSE \E k \in later : /\ change[m][u].new = change[k][u].old
                                                 /\ \A j \in later : change[k][u].at <= change[j][u].at

(* The final positions of a closed season are 1, 2, ... over its eligible   *)
(* players, and order them by the ratings they ended with.                  *)
FinalPositionsStand ==
    \A s \in Seasons : status[s] = "closed" =>
        /\ {standing[s][u].position : u \in Eligible(s)} = 1 .. Cardinality(Eligible(s))
        /\ \A u, v \in Eligible(s) :
              standing[s][u].rating > standing[s][v].rating => standing[s][u].position < standing[s][v].position
        /\ \A u \in Users \ Eligible(s) : standing[s][u] # None => standing[s][u].position = 0

(* A closed season is history: its standings stay as the rollover froze     *)
(* them and no match is rated in it, though matches, requests and retries   *)
(* begun before the rollover end after it.                                  *)
ClosedSeasonFrozen ==
    [][\A s \in Seasons : status[s] = "closed" =>
          /\ status'[s] = "closed"
          /\ \A u \in Users : standing[s][u] # None => standing'[s][u] = standing[s][u]
          /\ \A u \in Users : (standing[s][u] = None /\ standing'[s][u] # None) => standing'[s][u].played = 0
          /\ \A m \in Matches, u \in Users :
                (change[m][u] = None /\ change'[m][u] # None) => change'[m][u].season # s]_vars

(* The ledger of the seasons, as the tables have it.                        *)
CurrentSeason == CHOOSE s \in Seasons : status[s] = "active"

RatedIn == [m \in Matches |-> IF match[m].finalized THEN match[m].season ELSE 0]

RatingIn == [s \in Seasons |-> [u \in Users |->
                IF standing[s][u] = None THEN -1 ELSE standing[s][u].rating]]

Promised == INSTANCE SeasonLedger WITH current <- CurrentSeason, ratedIn <- RatedIn, rating <- RatingIn

(* Ratings move only when a match is rated, which happens once, in its own   *)
(* season and for both teams in one step; a row that is inserted by one      *)
(* transaction is never set back by another that inserts it too              *)
(* (FinalizeMatchProgression, EnsureStandingsInTx, RollOverIfDue).           *)
KeepsLedger == Promised!Ledger

(* A match completed in a season that stays active is rated, whatever       *)
(* matches of earlier seasons are pending (RetryPendingFinalizations).      *)
PendingNow(m) == m \in Pending /\ status[match[m].season] = "active"

CurrentSeasonRated == \A m \in Matches : PendingNow(m) ~> ~PendingNow(m)

(* A season is closed only when it has ended, once for each end, however    *)
(* many rollover workers tick (RollOverIfDue).                              *)
ClosedOnlyWhenEnded == [][status' # status => due /\ ~due']_vars

(* A player who has a standing of an earlier, closed season starts the next *)
(* one at its soft reset (EnsureStandingWithSoftReset).                     *)
SoftResetApplied ==
    \A s \in Seasons, u \in Users :
        (standing[s][u] # None /\ standing[s][u].played = 0 /\ status[s] = "active")
            => standing[s][u].rating = StartRating(u, s)
=============================================================================
