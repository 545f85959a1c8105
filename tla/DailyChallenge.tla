--------------------------- MODULE DailyChallenge ---------------------------
(***************************************************************************)
(* What one registered player earns by daily challenges                    *)
(* (challenges/service.go, challenges/repository.go): attempts, results,   *)
(* the streak, mission progress and experience points.                     *)
(*                                                                         *)
(* When a game is over, OnGameCompleted derives all of it in a chain of    *)
(* separate transactions.  It dies anywhere, and every owned read of the   *)
(* completed game runs it again (games/service.go:1133), so chains of the  *)
(* same and of other games overlap.                                        *)
(***************************************************************************)
EXTENDS Integers, FiniteSets, FiniteSetsExt

CONSTANTS
    LastDay,        \* the days explored
    GamesPerDay,    \* DailyGamesPerDay (5 in the code)
    Hooks,          \* completion chains in progress at one time
    Milestone,      \* target of the weekly streak_milestone mission
    MaxChains       \* bound: completion chains ever started

ASSUME DailyAssumption ==
    {LastDay, GamesPerDay, Milestone, MaxChains} \subseteq Nat \ {0}

VARIABLES
    today,      \* the clock, in days; one week holds them all
    attempt,    \* challenge_attempts, their games and their results
    streak,     \* the row of streaks; last = 0 is no row
    mission,    \* mission_progress and its events
    xp,         \* user_profiles.experience_points, in grants
    hook,       \* the completion chains
    chains,     \* how many were started
    finished    \* history: attempts whose chain once ran to its end

dailyVars == <<today, attempt, streak, mission, xp, hook, chains, finished>>

Days     == 1..LastDay
GameNos  == 1..GamesPerDay
Attempts == Days \X GameNos
Week     == 0
Missions == Days \cup {Week}        \* daily_completion by period, streak_milestone
Sources  == Days \X (0..GamesPerDay) \* number 0: the day's challenge itself

NoAttempt == [game |-> "none", status |-> "none", result |-> FALSE, awarded |-> FALSE]
NoStreak  == [count |-> 0, best |-> 0, last |-> 0]
IdleHook  == [pc |-> "idle", of |-> <<1, 1>>, known |-> FALSE, saw |-> NoStreak,
              replay |-> FALSE]

Streaks == [count : 0..LastDay, best : 0..LastDay, last : 0..LastDay]

DailyTypeOK ==
    /\ today \in Days
    /\ attempt \in [Attempts -> [game : {"none", "pending", "active", "completed"},
                                 status : {"none", "pending", "active", "completed"},
                                 result : BOOLEAN, awarded : BOOLEAN]]
    /\ streak \in Streaks
    /\ mission \in [Missions -> [value : Nat, events : SUBSET Sources, claimed : BOOLEAN]]
    /\ xp \in Nat
    /\ hook \in [Hooks -> [pc : {"idle", "mark", "result", "read", "save", "missions", "milestone", "xp"},
                           of : Attempts, known : BOOLEAN, saw : Streaks, replay : BOOLEAN]]
    /\ chains \in 0..MaxChains
    /\ finished \subseteq Attempts

DailyInit ==
    /\ today = 1
    /\ attempt = [a \in Attempts |-> NoAttempt]
    /\ streak = NoStreak
    /\ mission = [m \in Missions |-> [value |-> 0, events |-> {}, claimed |-> FALSE]]
    /\ xp = 0
    /\ hook = [h \in Hooks |-> IdleHook]
    /\ chains = 0
    /\ finished = {}

Created(d) == {n \in GameNos : attempt[<<d, n>>].status # "none"}
Completed(d, n) == attempt[<<d, n>>].status = "completed"

(* getAttemptForOwnerTx: the owner's attempt with the highest number.       *)
LatestNo(d) == IF Created(d) = {} THEN 0 ELSE Max(Created(d))

-----------------------------------------------------------------------------
(* CreateAttemptWithGame answers with the latest attempt unless it is       *)
(* completed and not the day's last; 0 stands for that answer.              *)
NewAttemptNo(d) ==
    IF LatestNo(d) = 0 THEN 1
    ELSE IF Completed(d, LatestNo(d)) /\ LatestNo(d) < GamesPerDay THEN LatestNo(d) + 1
    ELSE 0

(* startAttempt for the challenge of date d.                                *)
CreateAttempt(d) ==
    LET n == NewAttemptNo(d) IN
    /\ n # 0
    /\ attempt' = [attempt EXCEPT ![<<d, n>>].game = "pending", ![<<d, n>>].status = "pending"]
    /\ UNCHANGED <<today, streak, mission, xp, hook, chains, finished>>

StartDailyAttempt == CreateAttempt(today)

(* By the challenge's id; GetDaily materializes the daily of any date.      *)
StartChallengeAttempt(d) == CreateAttempt(d)

(* StartAttemptGame of the latest attempt, also of a game already started   *)
(* by its own endpoint.                                                     *)
StartAttemptGame(d) ==
    LET latest == <<d, LatestNo(d)>> IN
    /\ LatestNo(d) # 0
    /\ attempt[latest].game = "pending" \/ (attempt[latest].game = "active" /\ attempt[latest].status # "active")
    /\ attempt' = [attempt EXCEPT ![latest].game = "active", ![latest].status = "active"]
    /\ UNCHANGED <<today, streak, mission, xp, hook, chains, finished>>

(* StartGame of the games API knows nothing of the attempt.                 *)
StartGameOfAttempt(a) ==
    /\ attempt[a].game = "pending"
    /\ attempt' = [attempt EXCEPT ![a].game = "active"]
    /\ UNCHANGED <<today, streak, mission, xp, hook, chains, finished>>

CompleteGameOfAttempt(a) ==
    /\ attempt[a].game = "active"
    /\ attempt' = [attempt EXCEPT ![a].game = "completed"]
    /\ UNCHANGED <<today, streak, mission, xp, hook, chains, finished>>

-----------------------------------------------------------------------------
(* OnGameCompleted, from the completing request or a later read.            *)
OnGameCompleted(h, a) ==
    /\ hook[h].pc = "idle" /\ attempt[a].game = "completed" /\ chains < MaxChains
    /\ chains' = chains + 1
    /\ hook' = [hook EXCEPT ![h] = [IdleHook EXCEPT !.pc = "mark", !.of = a,
                                    !.known = (attempt[a].status = "completed"),
                                    !.replay = (a \in finished)]]
    /\ UNCHANGED <<today, attempt, streak, mission, xp, finished>>

HookTo(h, pc) == hook' = [hook EXCEPT ![h].pc = pc]

(* UpdateAttemptCompletion, skipped when the attempt was read as completed. *)
UpdateAttemptCompletion(h) ==
    /\ hook[h].pc = "mark"
    /\ attempt' = IF hook[h].known THEN attempt
                  ELSE [attempt EXCEPT ![hook[h].of].status = "completed"]
    /\ hook' = [hook EXCEPT ![h].pc = "result", ![h].known = FALSE]
    /\ UNCHANGED <<today, streak, mission, xp, chains, finished>>

(* CreateResultAndLeaderboardEntry: ON CONFLICT DO NOTHING.                 *)
CreateResult(h) ==
    /\ hook[h].pc = "result"
    /\ attempt' = [attempt EXCEPT ![hook[h].of].result = TRUE]
    /\ HookTo(h, "read")
    /\ UNCHANGED <<today, streak, mission, xp, chains, finished>>

ReadStreak(h) ==
    /\ hook[h].pc = "read"
    /\ hook' = [hook EXCEPT ![h].pc = "save", ![h].saw = streak]
    /\ UNCHANGED <<today, attempt, streak, mission, xp, chains, finished>>

(* The streak after the daily of date d.                                    *)
ApplyDailyCompletion(s, d) ==
    IF s.last = d THEN s
    ELSE LET count == IF s.last # 0 /\ s.last + 1 = d THEN s.count + 1 ELSE 1
         IN [count |-> count, best |-> Max({s.best, count}), last |-> d]

(* updateStreak writes nothing when the count stays what it was: neither    *)
(* the same date again nor a new run of one after a run of one.             *)
SaveStreak(h) ==
    LET next == ApplyDailyCompletion(hook[h].saw, hook[h].of[1]) IN
    /\ hook[h].pc = "save"
    /\ streak' = IF next.count = hook[h].saw.count THEN streak ELSE next
    /\ hook' = [hook EXCEPT ![h].pc = "missions", ![h].saw = NoStreak]
    /\ UNCHANGED <<today, attempt, mission, xp, chains, finished>>

(* ApplyMissionProgressEvent: an event counts once, up to the target.       *)
WithEvent(m, e, target) ==
    IF e \in m.events THEN m
    ELSE [m EXCEPT !.events = @ \cup {e}, !.value = Min({@ + 1, target})]

(* fireMissionProgress takes the missions of the present day, not those of  *)
(* the day the game was completed or is of.                                 *)
FireDailyMission(h) ==
    /\ hook[h].pc = "missions"
    /\ mission' = [mission EXCEPT ![today] = WithEvent(@, hook[h].of, 1)]
    /\ HookTo(h, "milestone")
    /\ UNCHANGED <<today, attempt, streak, xp, chains, finished>>

(* streak_milestone has no source attempt: once for each challenge.         *)
FireMilestone(h) ==
    /\ hook[h].pc = "milestone"
    /\ mission' = [mission EXCEPT ![Week] = WithEvent(@, <<hook[h].of[1], 0>>, Milestone)]
    /\ HookTo(h, "xp")
    /\ UNCHANGED <<today, attempt, streak, xp, chains, finished>>

(* Bug variant: whatever was awarded before.                                *)
AwardDue_Always(a) == attempt[a].game = "completed"

(* awarded_xp is read with the attempt locked.                              *)
AwardDue(a) == ~attempt[a].awarded

AwardAccountXP(h) ==
    LET done == hook[h].of IN
    /\ hook[h].pc = "xp"
    /\ xp' = IF AwardDue(done) THEN xp + 1 ELSE xp
    /\ attempt' = [attempt EXCEPT ![done].awarded = TRUE]
    /\ hook' = [hook EXCEPT ![h] = IdleHook]
    /\ finished' = finished \cup {done}
    /\ UNCHANGED <<today, streak, mission, chains>>

HookDies(h) ==
    /\ hook[h].pc # "idle"
    /\ hook' = [hook EXCEPT ![h] = IdleHook]
    /\ UNCHANGED <<today, attempt, streak, mission, xp, chains, finished>>

-----------------------------------------------------------------------------
Target(m) == IF m = Week THEN Milestone ELSE 1
ActiveMissions == {today, Week}

(* GetMissions, from mission_progress.status and claimed_at.                *)
MissionStatus(m) ==
    IF mission[m].claimed THEN "claimed"
    ELSE IF mission[m].value >= Target(m) THEN "completed"
    ELSE IF mission[m].value > 0 THEN "in_progress" ELSE "not_started"

(* ClaimMissionAndAwardXP locks the active mission and its progress.        *)
ClaimMission(m) ==
    /\ m \in ActiveMissions /\ MissionStatus(m) = "completed"
    /\ mission' = [mission EXCEPT ![m].claimed = TRUE]
    /\ xp' = xp + 1
    /\ UNCHANGED <<today, attempt, streak, hook, chains, finished>>

NextDay ==
    /\ today < LastDay
    /\ today' = today + 1
    /\ UNCHANGED <<attempt, streak, mission, xp, hook, chains, finished>>

DailyNext ==
    \/ StartDailyAttempt
    \/ \E d \in Days : StartChallengeAttempt(d) \/ StartAttemptGame(d)
    \/ \E a \in Attempts : StartGameOfAttempt(a) \/ CompleteGameOfAttempt(a)
    \/ \E h \in Hooks : \/ \E a \in Attempts : OnGameCompleted(h, a)
                        \/ UpdateAttemptCompletion(h) \/ CreateResult(h)
                        \/ ReadStreak(h) \/ SaveStreak(h)
                        \/ FireDailyMission(h) \/ FireMilestone(h)
                        \/ AwardAccountXP(h) \/ HookDies(h)
    \/ \E m \in Missions : ClaimMission(m)
    \/ NextDay

DailySpec == DailyInit /\ [][DailyNext]_dailyVars

-----------------------------------------------------------------------------
(* Correctness.                                                             *)

(* GamesPlayed as dailyAttemptPresentation shows it.                        *)
GamesPlayed(d) ==
    IF LatestNo(d) = 0 THEN 0
    ELSE IF Completed(d, LatestNo(d)) THEN LatestNo(d) ELSE LatestNo(d) - 1

(* Chains that die, repeat and overlap grant each reward at most once, and  *)
(* only for what has been done: experience is that of the awarded attempts  *)
(* and the claimed missions, an awarded attempt has its result, progress is *)
(* that of distinct events, and the games of a day follow one another       *)
(* (repository.go:236, :312, :555, :653).                                   *)
RewardsAddUp ==
    /\ xp = Cardinality({a \in Attempts : attempt[a].awarded})
            + Cardinality({m \in Missions : mission[m].claimed})
    /\ \A a \in Attempts : attempt[a].awarded => attempt[a].result /\ attempt[a].status = "completed"
    /\ \A a \in Attempts : attempt[a].result => attempt[a].game = "completed"
    /\ \A m \in Missions :
         /\ mission[m].value = Min({Target(m), Cardinality(mission[m].events)})
         /\ mission[m].claimed => mission[m].value = Target(m)
    /\ \A d \in Days : GamesPlayed(d) = Cardinality({n \in GameNos : Completed(d, n)})

(* Whatever the order of chains and whichever are lost, a streak never      *)
(* claims a day without a completed daily (streaks.go:15, service.go:929).  *)
StreakNeverOverstated ==
    LET played == {d \in Days : \E n \in GameNos : Completed(d, n)} IN
    /\ streak.count > 0 => (streak.last - streak.count + 1)..streak.last \subseteq played
    /\ streak.best > 0 =>
         \E d \in Days : d + streak.best - 1 <= LastDay /\ d..(d + streak.best - 1) \subseteq played

(* What a player has been credited with, however completion chains overlap, *)
(* die and are repeated.                                                    *)
CreditsStand == RewardsAddUp /\ StreakNeverOverstated

(* A chain repeated for an attempt whose chain once ran to its end changes  *)
(* nothing (games/service.go:1131 and :1132).                               *)
RepeatChangesNothing ==
    [][\A h \in Hooks : hook[h].replay /\ hook'[h] # hook[h] /\ hook[h].pc # "idle"
         => UNCHANGED <<streak, mission, xp>>]_dailyVars
=============================================================================
