----------------------------- MODULE SeasonPages -----------------------------
(* The cached pages of a competitive season: competitive/service_reads.go       *)
(* (profile, live and closed leaderboard) over competitive/cache.go.  A page    *)
(* is cached under the season's cache generation; ratings and the rollover      *)
(* commit first and raise the generation afterwards.                            *)
(*                                                                              *)
(* What a page shows is the number of commits its rows were read after.         *)
EXTENDS Naturals, FiniteSets

CONSTANTS
    PageReaders,   \* concurrent page requests
    MaxRatings,    \* bound on the commits to the season
    CacheFaults    \* TRUE: the cache may fail to give its generation

ASSUME PageAssumption == MaxRatings \in Nat \ {0} /\ CacheFaults \in BOOLEAN

VARIABLES
    rated,       \* commits to the season's standings
    closedAt,    \* the commit that closed it, 0 while it is active
    owed,        \* commits whose writer has not yet raised the generation
    generation,  \* competitive:v1:season:<id>:version
    seasonPages, \* per kind and generation: what the cached page shows, or none
    reading,     \* the requests: [at, kind, version, rows, since]
    lastAnswer   \* the last answer: [kind, rows, since]

pageVars == <<rated, closedAt, owed, generation, seasonPages, reading, lastAnswer>>

PageKinds == {"profile", "live", "closed"}
NoPage == MaxRatings + 1
Reader0 == [at |-> "idle"]
Generations == 1..MaxRatings + 1

(* Everything committed and already announced through the generation. *)
Announced == IF owed = {} THEN rated ELSE (CHOOSE c \in owed : \A d \in owed : c <= d) - 1

PagesInit ==
    /\ rated = 0 /\ closedAt = 0 /\ owed = {} /\ generation = 1
    /\ seasonPages = [kg \in PageKinds \X Generations |-> NoPage]
    /\ reading = [r \in PageReaders |-> Reader0]
    /\ lastAnswer = [kind |-> "live", rows |-> 0, since |-> 0]

(* FinalizeMatch and RollOverIfDue: the transaction commits ... *)
Rate ==
    /\ rated < MaxRatings /\ closedAt = 0
    /\ rated' = rated + 1 /\ owed' = owed \union {rated + 1}
    /\ \/ UNCHANGED closedAt
       \/ closedAt' = rated + 1
    /\ UNCHANGED <<generation, seasonPages, reading, lastAnswer>>

(* ... and then InvalidateSeasonCache raises the generation. *)
InvalidateSeason(c) ==
    /\ c \in owed
    /\ owed' = owed \ {c} /\ generation' = generation + 1
    /\ UNCHANGED <<rated, closedAt, seasonPages, reading, lastAnswer>>

ReadsAt(r, step) == reading[r].at = step
Show(r, rows) == lastAnswer' = [kind |-> reading[r].kind, rows |-> rows, since |-> reading[r].since]

Opens(r, kind) ==
    /\ reading[r] = Reader0
    /\ reading' = [reading EXCEPT ![r] = [at |-> "version", kind |-> kind, since |-> Announced]]
    /\ UNCHANGED <<rated, closedAt, owed, generation, seasonPages, lastAnswer>>

(* The caller's profile and the live leaderboard are pages of the active        *)
(* season; without one they are refused.                                        *)
GetProfile(r) == closedAt = 0 /\ Opens(r, "profile")

GetLeaderboard(r) == closedAt = 0 /\ Opens(r, "live")

(* A season asked for by its id: the frozen page once it is closed, the live    *)
(* one before.                                                                  *)
GetClosedLeaderboard(r) == Opens(r, IF closedAt > 0 THEN "closed" ELSE "live")

(* Version: a cache that fails is taken for generation 1. *)
CacheVersion(r) ==
    /\ ReadsAt(r, "version")
    /\ \E v \in {generation} \union (IF CacheFaults THEN {1} ELSE {}) :
          reading' = [reading EXCEPT ![r] = [at |-> "lookup", kind |-> @.kind, since |-> @.since, version |-> v]]
    /\ UNCHANGED <<rated, closedAt, owed, generation, seasonPages, lastAnswer>>

(* GetLeaderboard, GetProfile of the cache: a hit is the answer. *)
CachedPage(r) ==
    /\ ReadsAt(r, "lookup")
    /\ LET page == seasonPages[<<reading[r].kind, reading[r].version>>] IN
       \/ /\ page # NoPage
          /\ Show(r, page)
          /\ reading' = [reading EXCEPT ![r] = Reader0]
       \/ /\ page = NoPage
          /\ reading' = [reading EXCEPT ![r].at = "rows"]
          /\ UNCHANGED lastAnswer
    /\ UNCHANGED <<rated, closedAt, owed, generation, seasonPages>>

(* ListEligibleStandings, ListClosedTop500, the standing of a profile. *)
ListStandings(r) ==
    /\ ReadsAt(r, "rows")
    /\ reading' = [reading EXCEPT ![r] = [at |-> "set", kind |-> @.kind, since |-> @.since,
                                          version |-> @.version, rows |-> rated]]
    /\ UNCHANGED <<rated, closedAt, owed, generation, seasonPages, lastAnswer>>

(* LeaderboardCacheKey, ProfileCacheKey: the generation read at the start. *)
PageKey(r) == <<reading[r].kind, reading[r].version>>

(* SetLeaderboard, SetProfile: a failing cache loses the page, not the answer. *)
SetPage(r) ==
    /\ ReadsAt(r, "set")
    /\ Show(r, reading[r].rows)
    /\ \/ seasonPages' = [seasonPages EXCEPT ![PageKey(r)] = reading[r].rows]
       \/ UNCHANGED seasonPages
    /\ reading' = [reading EXCEPT ![r] = Reader0]
    /\ UNCHANGED <<rated, closedAt, owed, generation>>

(* The page's time to live is over. *)
PageExpires(k, g) ==
    /\ seasonPages[<<k, g>>] # NoPage
    /\ seasonPages' = [seasonPages EXCEPT ![<<k, g>>] = NoPage]
    /\ UNCHANGED <<rated, closedAt, owed, generation, reading, lastAnswer>>

PagesNext ==
    \/ Rate
    \/ \E c \in owed : InvalidateSeason(c)
    \/ \E r \in PageReaders : GetProfile(r)
    \/ \E r \in PageReaders : GetLeaderboard(r)
    \/ \E r \in PageReaders : GetClosedLeaderboard(r)
    \/ \E r \in PageReaders : CacheVersion(r)
    \/ \E r \in PageReaders : CachedPage(r)
    \/ \E r \in PageReaders : ListStandings(r)
    \/ \E r \in PageReaders : SetPage(r)
    \/ \E k \in PageKinds, g \in Generations : PageExpires(k, g)

PagesSpec == PagesInit /\ [][PagesNext]_pageVars

----------------------------------------------------------------------------
(* Generations, pages and requests are ones the code can produce. *)
PageTypeOK ==
    /\ rated \in 0..MaxRatings /\ closedAt \in 0..rated
    /\ owed \subseteq 1..rated /\ generation = 1 + rated - Cardinality(owed)
    /\ seasonPages \in [PageKinds \X Generations -> 0..MaxRatings + 1]

(* A player who opens a page after a rating was announced sees it, whichever    *)
(* reader filled the cache and however slowly; a closed season's page shows its *)
(* final standings.                                                             *)
PagesKeepUp == lastAnswer.rows >= lastAnswer.since /\ (lastAnswer.kind = "closed" => lastAnswer.rows = closedAt)
=============================================================================
