---------------------------- MODULE Leaderboards ----------------------------
(***************************************************************************)
(* Leaderboards as read models (leaderboards/repository.go, service.go,    *)
(* cache.go): a completed game is projected into the boards it belongs to; *)
(* pages of a board are cached under a version, which each projection      *)
(* bumps.  A projection dies anywhere, runs again, and overlaps with       *)
(* others and with readers.                                                *)
(*                                                                         *)
(* One player's entry stands for those of all: entries of different users  *)
(* share nothing.  One board stands for the global board and the map's,    *)
(* which one transaction writes by the same code, and for the daily's,     *)
(* which the challenge hook writes before (see DailyChallenge) and whose   *)
(* pages are read, cached and invalidated by the same steps.  A page is    *)
(* represented by the number of commits it saw.                            *)
(***************************************************************************)
EXTENDS Integers, FiniteSets, FiniteSetsExt

CONSTANTS
    BoardGames,     \* the player's games
    PracticeGames,  \* those of them of mode practice
    BestScore,      \* scores are 1..BestScore
    Projections,    \* OnGameCompleted calls in progress at one time
    Readers,        \* page reads in progress at one time
    MaxBumps,       \* bound: changes of a board's version
    MaxCommits      \* bound: projections committed to a board

ASSUME BoardAssumption ==
    /\ IsFiniteSet(BoardGames) /\ PracticeGames \subseteq BoardGames
    /\ BestScore \in Nat \ {0} /\ MaxBumps \in Nat /\ MaxCommits \in Nat

VARIABLES
    score,      \* games.total_score of completed games; 0 is not completed
    entry,      \* leaderboard_entries of the player
    commits,    \* transactions that changed the board
    version,    \* version counter in Redis; 0 is a missing key
    pages,      \* cached page of each version; -1 is none
    projection, \* OnGameCompleted
    reader,     \* page reads
    projected,  \* history: games whose entries were committed
    sealed      \* history: commits before the last effective bump

boardVars == <<score, entry, commits, version, pages, projection, reader, projected, sealed>>

NoEntry == [score |-> 0, played |-> 0, game |-> "none"]
IdleProjection == [pc |-> "idle", game |-> "none"]
IdleReader == [pc |-> "idle", ver |-> 0, page |-> 0, floor |-> 0]

BoardTypeOK ==
    /\ score \in [BoardGames -> 0..BestScore]
    /\ entry \in [score : 0..BestScore, played : 0..Cardinality(BoardGames), game : BoardGames \cup {"none"}]
    /\ commits \in 0..MaxCommits /\ version \in 0..MaxBumps
    /\ pages \in [1..(MaxBumps + 1) -> -1..MaxCommits]
    /\ projection \in [Projections -> [pc : {"idle", "boards", "bump"}, game : BoardGames \cup {"none"}]]
    /\ reader \in [Readers -> [pc : {"idle", "get", "load", "set", "reply"},
                               ver : 0..(MaxBumps + 1), page : 0..MaxCommits, floor : 0..MaxCommits]]
    /\ projected \subseteq BoardGames /\ sealed \in 0..MaxCommits

BoardInit ==
    /\ score = [g \in BoardGames |-> 0]
    /\ entry = NoEntry
    /\ commits = 0 /\ version = 0
    /\ pages = [v \in 1..(MaxBumps + 1) |-> -1]
    /\ projection = [p \in Projections |-> IdleProjection]
    /\ reader = [r \in Readers |-> IdleReader]
    /\ projected = {} /\ sealed = 0

Played == {g \in BoardGames : score[g] > 0}

-----------------------------------------------------------------------------
(* Completed games; practice games complete, too, but call no hook.         *)
CompleteBoardGame(g, s) ==
    /\ score[g] = 0
    /\ score' = [score EXCEPT ![g] = s]
    /\ UNCHANGED <<entry, commits, version, pages, projection, reader, projected, sealed>>

(* OnGameCompleted, from the completing request or any later owned read;    *)
(* IsProgressionNeutralMode keeps practice out.                             *)
StartProjection(p, g) ==
    /\ projection[p].pc = "idle" /\ score[g] > 0 /\ g \notin PracticeGames
    /\ projection' = [projection EXCEPT ![p] = [pc |-> "boards", game |-> g]]
    /\ UNCHANGED <<score, entry, commits, version, pages, reader, projected, sealed>>

(* bestEntryForScopeTx: of all completed games, whatever their mode.        *)
BestGame(g) == CHOOSE b \in Played : \A o \in Played : score[b] >= score[o]

(* leaderboard_entry_is_better; games_played is always the new one.         *)
BetterEntry(old, new) ==
    IF new.score > old.score THEN new ELSE [old EXCEPT !.played = new.played]

UpsertBestEntry(g) ==
    BetterEntry(entry, [score |-> score[BestGame(g)], played |-> Cardinality(Played), game |-> BestGame(g)])

(* MaterializeCompletedGame: ensureLeaderboardTx locks the global board's   *)
(* row first, so that the transactions run one after the other.             *)
MaterializeCompletedGame(p) ==
    /\ projection[p].pc = "boards" /\ commits < MaxCommits
    /\ entry' = UpsertBestEntry(projection[p].game)
    /\ commits' = commits + 1
    /\ projected' = projected \cup {projection[p].game}
    /\ projection' = [projection EXCEPT ![p].pc = "bump"]
    /\ UNCHANGED <<score, version, pages, reader, sealed>>

(* invalidateScope: INCR makes a missing version 1, which is what a missing *)
(* version is read as: the first bump of a board changes nothing.           *)
BumpVersion(p) ==
    /\ projection[p].pc = "bump" /\ version < MaxBumps
    /\ version' = version + 1
    /\ sealed' = IF version = 0 THEN sealed ELSE commits
    /\ projection' = [projection EXCEPT ![p] = IdleProjection]
    /\ UNCHANGED <<score, entry, commits, pages, reader, projected>>

(* Before its transaction, before its bump, or when the bump fails, which   *)
(* is logged and passed over.                                               *)
ProjectionDies(p) ==
    /\ projection[p].pc # "idle"
    /\ projection' = [projection EXCEPT ![p] = IdleProjection]
    /\ UNCHANGED <<score, entry, commits, version, pages, reader, projected, sealed>>

-----------------------------------------------------------------------------
CurrentVersion == IF version < 1 THEN 1 ELSE version

(* getGeneral, GetDaily: the version first; 0 when it cannot be read.       *)
StartRead(r) ==
    /\ reader[r].pc = "idle"
    /\ \E v \in {CurrentVersion, 0} :
         reader' = [reader EXCEPT ![r] = [pc |-> IF v = 0 THEN "load" ELSE "get",
                                          ver |-> v, page |-> 0, floor |-> sealed]]
    /\ UNCHANGED <<score, entry, commits, version, pages, projection, projected, sealed>>

(* The page may be gone (leaderboardCacheTTL) or Redis may not answer.      *)
CacheGet(r) ==
    LET cached == pages[reader[r].ver] IN
    /\ reader[r].pc = "get"
    /\ \/ reader' = [reader EXCEPT ![r].pc = "load"]
       \/ cached # -1 /\ reader' = [reader EXCEPT ![r].pc = "reply", ![r].page = cached]
    /\ UNCHANGED <<score, entry, commits, version, pages, projection, projected, sealed>>

(* ListGeneralEntries, ListDailyEntries.                                    *)
LoadPage(r) ==
    /\ reader[r].pc = "load"
    /\ reader' = [reader EXCEPT ![r].pc = IF reader[r].ver = 0 THEN "reply" ELSE "set",
                                ![r].page = commits]
    /\ UNCHANGED <<score, entry, commits, version, pages, projection, projected, sealed>>

(* Bug variant: the version is read again for the key to write.             *)
CacheKey_Now(r) == CurrentVersion

(* The key is that of the version read first.                               *)
CacheKey(r) == reader[r].ver

CacheSet(r) ==
    /\ reader[r].pc = "set"
    /\ pages' \in {pages, [pages EXCEPT ![CacheKey(r)] = reader[r].page]}
    /\ reader' = [reader EXCEPT ![r].pc = "reply"]
    /\ UNCHANGED <<score, entry, commits, version, projection, projected, sealed>>

(* GetFriends never uses the cache: its entries are those of the database.  *)
ListFriendsEntries == commits

FriendsPage(r) ==
    /\ reader[r].pc = "idle"
    /\ reader' = [reader EXCEPT ![r] = [pc |-> "reply", ver |-> 0, page |-> ListFriendsEntries, floor |-> sealed]]
    /\ UNCHANGED <<score, entry, commits, version, pages, projection, projected, sealed>>

ReplyPage(r) ==
    /\ reader[r].pc = "reply"
    /\ reader' = [reader EXCEPT ![r] = IdleReader]
    /\ UNCHANGED <<score, entry, commits, version, pages, projection, projected, sealed>>

BoardNext ==
    \/ \E g \in BoardGames : \E s \in 1..BestScore : CompleteBoardGame(g, s)
    \/ \E p \in Projections : \/ \E g \in BoardGames : StartProjection(p, g)
                              \/ MaterializeCompletedGame(p)
                              \/ BumpVersion(p) \/ ProjectionDies(p)
    \/ \E r \in Readers : \/ StartRead(r) \/ CacheGet(r) \/ LoadPage(r) \/ CacheSet(r)
                          \/ FriendsPage(r) \/ ReplyPage(r)

BoardSpec == BoardInit /\ [][BoardNext]_boardVars

-----------------------------------------------------------------------------
(* Correctness.                                                             *)

(* However projections repeat, die and overlap, the entry of a board is a   *)
(* completed game, at least as good as every game whose projection was      *)
(* committed, and counts them all (repository.go:386, :426, :467).          *)
EntryIsBest ==
    /\ entry.score > 0 => entry.game \in Played /\ score[entry.game] = entry.score
    /\ \A g \in projected : entry.score >= score[g]
    /\ Cardinality(projected) <= entry.played /\ entry.played <= Cardinality(Played)

(* A read that begins after a bump never answers with a page from before    *)
(* the commits the bump announced, from the cache or not; but for the first *)
(* bump of a board (cache.go:67, service.go:268).                           *)
PagesFollowBumps ==
    \A r \in Readers : reader[r].pc = "reply" => reader[r].page >= reader[r].floor

(* Practice games do not affect public leaderboards.                        *)
PracticeStaysOut == entry.game \notin PracticeGames
=============================================================================
