------------------------------ MODULE Presence ------------------------------
(***************************************************************************)
(* Who is still there: the sockets of one match's participants, the socket *)
(* counts and reconnect windows in Redis (platform/redis/realtime.go), the *)
(* durable connection marker in PostgreSQL (game_players.status) and the   *)
(* lifecycle sweepers that forfeit a participant who stayed away past the  *)
(* reconnect grace (matchplay/service.go).                                 *)
(*                                                                         *)
(* The two stores are only brought in line by the handlers of              *)
(* app/wiring_adapters.go, which call one after the other and hold nothing *)
(* in between.  A socket is one serveChannel call: the pc says which call  *)
(* it makes next.  Its write pump's heartbeat is awaited before the        *)
(* deferred Disconnected runs, so it is part of the same sequence.  Every  *)
(* API process runs a sweeper.                                             *)
(***************************************************************************)
EXTENDS Integers, FiniteSets

CONSTANTS
    Users,      \* the participants of the match
    Sockets,    \* one per connection open at a time
    Owner,      \* whose connection a socket is
    TeamOf,     \* team slot of each participant
    Sweepers,   \* API processes running the lifecycle sweep
    None,
    MaxFaults,  \* bound: failed calls, process crashes, Redis restarts
    PromptHandlers
                \* TRUE: the 5 s deadline of the deferred Disconnected is over
                \* before the grace (default 90 s) of the marker it set is;
                \* FALSE: any configured grace

ASSUME FiniteAssumption == IsFiniteSet(Sockets)
ASSUME OwnerAssumption == Owner \in [Sockets -> Users]
ASSUME TeamAssumption == TeamOf \in [Users -> {1, 2}]
ASSUME BoundAssumption == MaxFaults \in Nat /\ PromptHandlers \in BOOLEAN

VARIABLES
    count,      \* Redis: global socket count of each participant
    window,     \* Redis: has a reconnect window
    marker,     \* game_players.status: "active", "disconnected", "left"
    aged,       \* the disconnected marker's left_at is past the grace
    match,      \* "live" (matched or active) or "over"
    abandoned,  \* participants with abandoned_at set
    winner,     \* winner_team_slot of a forfeit, 0 without one
    socket,     \* the next call of each connection's handler
    sweep,      \* the sweepers: candidates listed, the one being handled
    faults

redis == <<count, window>>
db == <<marker, aged, match, abandoned, winner>>
vars == <<redis, db, socket, sweep, faults>>

-----------------------------------------------------------------------------
(* "marking": Connected counted the first socket and marks it connected;    *)
(* "reacquire", "reviving": the heartbeat found no count and repeats        *)
(* Connected; the rest are Disconnected's four calls.                       *)
PCs == {"closed", "marking", "open", "reacquire", "reviving",
        "releasing", "parting", "recheck", "repairing"}

Counted == {"marking", "open", "reacquire", "reviving", "releasing"}
Up == {"open", "reacquire", "reviving"}

SocketsOf(u) == {s \in Sockets : Owner[s] = u}
CountedOf(u) == {s \in SocketsOf(u) : socket[s] \in Counted}

Sweep == [step : {"idle", "next", "forfeit", "clear"}, todo : SUBSET Users,
          user : Users \cup {None}]
Resting == [step |-> "idle", todo |-> {}, user |-> None]

PresenceTypeOK ==
    /\ count \in [Users -> Nat]
    /\ window \in [Users -> BOOLEAN]
    /\ marker \in [Users -> {"active", "disconnected", "left"}]
    /\ aged \in [Users -> BOOLEAN]
    /\ match \in {"live", "over"}
    /\ abandoned \subseteq Users
    /\ winner \in {0, 1, 2}
    /\ socket \in [Sockets -> PCs]
    /\ sweep \in [Sweepers -> Sweep]
    /\ faults \in 0..MaxFaults

Init ==
    /\ count = [u \in Users |-> 0]
    /\ window = [u \in Users |-> FALSE]
    /\ marker = [u \in Users |-> "active"]
    /\ aged = [u \in Users |-> FALSE]
    /\ match = "live"
    /\ abandoned = {}
    /\ winner = 0
    /\ socket = [s \in Sockets |-> "closed"]
    /\ sweep = [w \in Sweepers |-> Resting]
    /\ faults = 0

-----------------------------------------------------------------------------
(* The calls the handlers are made of.                                      *)

To(s, pc) == socket' = [socket EXCEPT ![s] = pc]

(* Bug variant: an off-by-one in who is first.                              *)
AcquirePresence_SecondMarks(s, first) ==
    LET u == Owner[s] IN
    /\ count' = [count EXCEPT ![u] = @ + 1]
    /\ window' = [window EXCEPT ![u] = FALSE]
    /\ To(s, IF count[u] = 1 THEN first ELSE "open")
    /\ UNCHANGED <<db, sweep, faults>>

(* acquirePresenceScript: count the socket, drop the reconnect window; the  *)
(* first socket goes on to mark the participant connected.                  *)
AcquirePresence(s, first) ==
    LET u == Owner[s] IN
    /\ count' = [count EXCEPT ![u] = @ + 1]
    /\ window' = [window EXCEPT ![u] = FALSE]
    /\ To(s, IF count[u] = 0 THEN first ELSE "open")
    /\ UNCHANGED <<db, sweep, faults>>

(* MarkConnectionState: only in a live match, for a participant who has not *)
(* abandoned it, and only from the other state; left_at starts afresh.      *)
MarkConnectionState(u, from, to) ==
    LET hit == match = "live" /\ u \notin abandoned /\ marker[u] = from IN
    /\ marker' = IF hit THEN [marker EXCEPT ![u] = to] ELSE marker
    /\ aged' = IF hit THEN [aged EXCEPT ![u] = FALSE] ELSE aged
    /\ UNCHANGED <<match, abandoned, winner>>

MarkConnected(s, next) ==
    /\ MarkConnectionState(Owner[s], "disconnected", "active")
    /\ To(s, next)
    /\ UNCHANGED <<redis, sweep, faults>>

(***************************************************************************)
(* A connection.                                                           *)
(***************************************************************************)

(* The upgrade is authorized, the socket subscribed and counted.            *)
Open(s) == socket[s] = "closed" /\ AcquirePresence(s, "marking")

Connected(s) == socket[s] = "marking" /\ MarkConnected(s, "open")

(* Bug variant: every heartbeat acquires.                                   *)
Heartbeat_AlwaysAcquires(s) ==
    /\ socket[s] = "open"
    /\ count[Owner[s]] < Cardinality(Sockets)
    /\ To(s, "reacquire")
    /\ UNCHANGED <<redis, db, sweep, faults>>

(* A ping's Heartbeat refreshes the count; the case that changes more than  *)
(* a TTL is the lost count, which it acquires again.                        *)
Heartbeat(s) ==
    /\ socket[s] = "open"
    /\ count[Owner[s]] = 0
    /\ To(s, "reacquire")
    /\ UNCHANGED <<redis, db, sweep, faults>>

(* Bug variant: a heartbeat only refreshes.                                 *)
Reacquire_RefreshOnly(s) ==
    /\ socket[s] = "reacquire"
    /\ To(s, "open")
    /\ UNCHANGED <<redis, db, sweep, faults>>

Reacquire(s) == socket[s] = "reacquire" /\ AcquirePresence(s, "reviving")

Revived(s) == socket[s] = "reviving" /\ MarkConnected(s, "open")

(* The client goes, is too slow, or the ping fails: a heartbeat under way   *)
(* is cancelled, then the deferred Disconnected starts.                     *)
Close(s) ==
    /\ socket[s] \in Up
    /\ To(s, "releasing")
    /\ UNCHANGED <<redis, db, sweep, faults>>

(* Bug variant: a release that was never acquired counts too.               *)
ReleasePresence_Unguarded(s) ==
    LET u == Owner[s] IN
    /\ socket[s] = "releasing"
    /\ count' = [count EXCEPT ![u] = @ - 1]
    /\ window' = IF count[u] = 1 THEN [window EXCEPT ![u] = TRUE] ELSE window
    /\ To(s, IF count[u] = 1 THEN "parting" ELSE "closed")
    /\ UNCHANGED <<db, sweep, faults>>

(* releasePresenceScript: the last socket leaves a reconnect window.        *)
ReleasePresence(s) ==
    LET u == Owner[s] IN
    /\ socket[s] = "releasing"
    /\ IF count[u] = 0
       THEN UNCHANGED redis
       ELSE /\ count' = [count EXCEPT ![u] = @ - 1]
            /\ window' = IF count[u] = 1 THEN [window EXCEPT ![u] = TRUE] ELSE window
    /\ To(s, IF count[u] = 1 THEN "parting" ELSE "closed")
    /\ UNCHANGED <<db, sweep, faults>>

MarkDisconnected(s) ==
    /\ socket[s] = "parting"
    /\ MarkConnectionState(Owner[s], "active", "disconnected")
    /\ To(s, "recheck")
    /\ UNCHANGED <<redis, sweep, faults>>

(* Bug variant: Disconnected ends without looking at the count again.       *)
Recheck_Skipped(s) ==
    /\ socket[s] = "recheck"
    /\ To(s, "closed")
    /\ UNCHANGED <<redis, db, sweep, faults>>

Recheck(s) ==
    /\ socket[s] = "recheck"
    /\ To(s, IF count[Owner[s]] = 0 THEN "closed" ELSE "repairing")
    /\ UNCHANGED <<redis, db, sweep, faults>>

Repair(s) == socket[s] = "repairing" /\ MarkConnected(s, "closed")

(***************************************************************************)
(* Time.                                                                   *)
(***************************************************************************)

(* The reconnect window's TTL (the grace) runs out.                         *)
WindowExpires(u) ==
    /\ window[u]
    /\ window' = [window EXCEPT ![u] = FALSE]
    /\ UNCHANGED <<count, db, socket, sweep, faults>>

(* left_at of a disconnected marker passes the grace.                       *)
GraceElapses(u) ==
    /\ marker[u] = "disconnected" /\ ~aged[u]
    /\ PromptHandlers =>
         \A s \in SocketsOf(u) : socket[s] \notin {"recheck", "repairing"}
    /\ aged' = [aged EXCEPT ![u] = TRUE]
    /\ UNCHANGED <<redis, marker, match, abandoned, winner, socket, sweep, faults>>

(* The TTL of a count no open socket refreshes runs out: no window is left. *)
CountExpires(u) ==
    /\ count[u] > 0
    /\ \A s \in SocketsOf(u) : socket[s] \notin Up
    /\ CountedOf(u) = {}
    /\ count' = [count EXCEPT ![u] = 0]
    /\ UNCHANGED <<window, db, socket, sweep, faults>>

(***************************************************************************)
(* The end of a match.                                                     *)
(***************************************************************************)

WinningTeamForForfeit(team) == IF team = 1 THEN 2 ELSE 1

(* Bug variant: a second forfeit is applied to a match that is over.        *)
ApplyForfeit_NotIdempotent(u) ==
    /\ abandoned' = abandoned \cup {u}
    /\ marker' = [marker EXCEPT ![u] = "left"]
    /\ winner' = WinningTeamForForfeit(TeamOf[u])
    /\ match' = "over"
    /\ UNCHANGED aged

(* applyForfeitTx, one transaction under the match row's lock: a terminal   *)
(* match is left as it is; otherwise u alone has abandoned it, the other    *)
(* team wins and the match is over.  Nothing in it reads the marker.        *)
ApplyForfeit(u) ==
    IF match = "over" THEN UNCHANGED db
    ELSE /\ abandoned' = abandoned \cup {u}
         /\ marker' = [marker EXCEPT ![u] = "left"]
         /\ winner' = WinningTeamForForfeit(TeamOf[u])
         /\ match' = "over"
         /\ UNCHANGED aged

(* ExplicitLeaveTx.                                                         *)
Leave(u) ==
    /\ match = "live"
    /\ ApplyForfeit(u)
    /\ UNCHANGED <<redis, socket, sweep, faults>>

(* The game is played to its end, or casual inactivity closes the match.    *)
EndMatch ==
    /\ match = "live"
    /\ match' = "over"
    /\ UNCHANGED <<redis, marker, aged, abandoned, winner, socket, sweep, faults>>

(***************************************************************************)
(* SweepDisconnectGrace of sweeper w.                                      *)
(***************************************************************************)
SweepTo(w, record) == sweep' = [sweep EXCEPT ![w] = record]

(* ListDisconnectCandidates.                                                *)
Candidates == {u \in Users : /\ match = "live" /\ u \notin abandoned
                             /\ marker[u] = "disconnected" /\ aged[u]}

List(w) ==
    /\ sweep[w].step = "idle"
    /\ Candidates # {}
    /\ SweepTo(w, [step |-> "next", todo |-> Candidates, user |-> None])
    /\ UNCHANGED <<redis, db, socket, faults>>

(* HasReconnectWindow of the next candidate: with a window it is skipped;   *)
(* a failed call counts as no window.                                       *)
HasReconnectWindow(w) ==
    /\ sweep[w].step = "next"
    /\ \E u \in sweep[w].todo, failed \in BOOLEAN :
         /\ failed => faults < MaxFaults
         /\ faults' = IF failed THEN faults + 1 ELSE faults
         /\ SweepTo(w, [step |-> IF window[u] /\ ~failed THEN "next" ELSE "forfeit",
                        todo |-> sweep[w].todo \ {u},
                        user |-> IF window[u] /\ ~failed THEN None ELSE u])
    /\ UNCHANGED <<redis, db, socket>>

SweepDone(w) ==
    /\ sweep[w].step = "next" /\ sweep[w].todo = {}
    /\ SweepTo(w, Resting)
    /\ UNCHANGED <<redis, db, socket, faults>>

(* ForfeitDisconnectTx; presence is cleared only by who ended the match.    *)
ForfeitDisconnect(w) ==
    /\ sweep[w].step = "forfeit"
    /\ ApplyForfeit(sweep[w].user)
    /\ SweepTo(w, IF match = "over" THEN [sweep[w] EXCEPT !.step = "next", !.user = None]
                                    ELSE [sweep[w] EXCEPT !.step = "clear"])
    /\ UNCHANGED <<redis, socket, faults>>

(* ClearPresence: the window goes, the socket count stays.                  *)
ClearPresence(w) ==
    /\ sweep[w].step = "clear"
    /\ window' = [window EXCEPT ![sweep[w].user] = FALSE]
    /\ SweepTo(w, [sweep[w] EXCEPT !.step = "next", !.user = None])
    /\ UNCHANGED <<count, db, socket, faults>>

(***************************************************************************)
(* Faults.                                                                 *)
(***************************************************************************)
Fault == faults < MaxFaults /\ faults' = faults + 1

(* A handler's call fails.  A failed Connected still runs the deferred      *)
(* Disconnected; heartbeat errors are ignored; Disconnected gives up.       *)
AfterError(pc) == CASE pc = "marking" -> "releasing"
                    [] pc \in Up -> "open"
                    [] OTHER -> "closed"

CallFails(s) ==
    /\ socket[s] \notin {"closed", "open"}
    /\ Fault /\ To(s, AfterError(socket[s]))
    /\ UNCHANGED <<redis, db, sweep>>

(* AcquirePresence fails: the socket was never counted.                     *)
OpenFails(s) ==
    /\ socket[s] = "closed"
    /\ Fault /\ To(s, "releasing")
    /\ UNCHANGED <<redis, db, sweep>>

(* The API process dies, and its sockets and its sweep with it.             *)
Crash(s, w) ==
    /\ socket[s] # "closed" \/ sweep[w] # Resting
    /\ Fault /\ To(s, "closed")
    /\ SweepTo(w, Resting)
    /\ UNCHANGED <<redis, db>>

(* Redis restarts empty.                                                    *)
RedisLoss ==
    /\ Fault
    /\ count' = [u \in Users |-> 0]
    /\ window' = [u \in Users |-> FALSE]
    /\ UNCHANGED <<db, socket, sweep>>

-----------------------------------------------------------------------------
SocketStep(s) ==
    \/ Connected(s) \/ Heartbeat(s) \/ Reacquire(s) \/ Revived(s)
    \/ ReleasePresence(s) \/ MarkDisconnected(s) \/ Recheck(s) \/ Repair(s)

SweepStep(w) ==
    List(w) \/ HasReconnectWindow(w) \/ SweepDone(w) \/ ForfeitDisconnect(w) \/ ClearPresence(w)

Time(u) == WindowExpires(u) \/ GraceElapses(u) \/ CountExpires(u)

Next ==
    \/ \E s \in Sockets : Open(s) \/ Close(s) \/ SocketStep(s)
    \/ \E s \in Sockets : CallFails(s) \/ OpenFails(s)
    \/ \E s \in Sockets, w \in Sweepers : Crash(s, w)
    \/ \E u \in Users : Leave(u) \/ Time(u)
    \/ \E w \in Sweepers : SweepStep(w)
    \/ EndMatch
    \/ RedisLoss

Spec == Init /\ [][Next]_vars

(* Handlers have deadlines and pings are periodic.  Clients open and close  *)
(* sockets as they like, nobody must leave, and no property needs a sweep.  *)
Fairness == \A s \in Sockets : WF_vars(SocketStep(s))

FairSpec == Spec /\ Fairness

-----------------------------------------------------------------------------
(* Safety.                                                                  *)

(* Undisturbed, the global count is the number of sockets between their     *)
(* acquire and their release, however opens, closes and heartbeats of the   *)
(* same participant interleave on different API processes.                  *)
CountExact ==
    faults = 0 => \A u \in Users : count[u] = Cardinality(CountedOf(u))

(* Undisturbed, a participant of a live match whom the database calls       *)
(* disconnected while a socket is counted has a handler under way that      *)
(* marks them connected again or looks once more: this is what the second   *)
(* look at the count in Disconnected is for.                                *)
Repairing(u) ==
    \E s \in SocketsOf(u) : socket[s] \in {"marking", "reviving", "recheck", "repairing"}

MarkerGetsRepaired ==
    (faults = 0 /\ match = "live") => \A u \in Users :
        (marker[u] = "disconnected" /\ count[u] > 0) => Repairing(u)

(* Leaves, sweeps of several processes and the end of the game all close    *)
(* the match, whichever is first: at most one participant has abandoned it, *)
(* their marker stays "left" whatever socket events follow, and the team    *)
(* that wins is the other one.                                              *)
OneForfeit ==
    \A u \in abandoned :
        /\ abandoned = {u}
        /\ marker[u] = "left"
        /\ match = "over"
        /\ winner # TeamOf[u]

(* A sweep forfeits only a participant who, in that very step, is still     *)
(* marked disconnected.                                                     *)
ForfeitsTheDisconnected ==
    [][\A w \in Sweepers : ForfeitDisconnect(w) /\ match = "live"
                             => marker[sweep[w].user] = "disconnected"]_vars

(* When the last socket of a participant of a live match is closed, and its *)
(* handler and every other one of theirs has returned, the database says    *)
(* so: nothing else would make the sweep see that they are away.            *)
Present(u) == \E s \in SocketsOf(u) : socket[s] # "closed"

LastCloseIsRecorded ==
    [][\A u \in Users : (Present(u) /\ ~Present(u)' /\ match = "live")
         => marker'[u] # "active"]_vars

-----------------------------------------------------------------------------
(* Liveness.                                                                *)

(* After restarts, crashes and failed calls, a participant whose last       *)
(* socket stays open is counted again for good: the heartbeat restores a    *)
(* lost count.                                                              *)
LastSocket(s) ==
    socket[s] \in Up /\ \A t \in SocketsOf(Owner[s]) \ {s} : socket[t] = "closed"

PresenceRecovers ==
    \A s \in Sockets : <>[]LastSocket(s) => <>[](count[Owner[s]] > 0)

(* Undisturbed, a participant who keeps a socket open is marked connected   *)
(* in the end and stays so, or the match is over.                           *)
ConnectedIsMarked ==
    \A s \in Sockets : (<>[](socket[s] \in Up) /\ [](faults = 0)) =>
        <>[](marker[Owner[s]] = "active" \/ match = "over")
=============================================================================
