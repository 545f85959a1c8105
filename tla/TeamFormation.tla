---------------------------- MODULE TeamFormation ----------------------------
(***************************************************************************)
(* Team matchmaking end to end: concurrent requests of                     *)
(* matchmaking/service.go (join, status poll, leave) working on the ticket *)
(* queue of TicketStore and on the durable matches in PostgreSQL.          *)
(*                                                                         *)
(* Matches are formed by requests: a join or a poll reconciles expired     *)
(* claims, then claims a pair and forms its match, in separate calls to    *)
(* two stores, with nothing held in between.  Each worker is one request   *)
(* in progress; its record is what the handler has read so far.  A request *)
(* can end in error, or its process can die, between any two calls         *)
(* (Fault); ambiguous outcomes (the call took effect, the reply was lost)  *)
(* are a step followed by a fault.                                         *)
(*                                                                         *)
(* The formation key of a match is the claim id, so match[c] is the row    *)
(* with that key.  CreateTeamFormationBundle is one transaction that locks *)
(* the rows of its users before it reads their assignments, and is one     *)
(* atomic step here.                                                       *)
(***************************************************************************)
EXTENDS TicketStore

CONSTANTS
    Workers,    \* requests in progress at one time
    Blockable,  \* users whom a suspension or another game may block
    MaxFaults,  \* bound: requests that fail or die
    ClaimOutlivesRequest
                \* TRUE: a request is over before recover_after of the claim it
                \* made (defaults: 15 s request deadline, 15 s claim TTL, one
                \* clock); FALSE: a shorter claim TTL, or clocks that differ

ASSUME DeadlineAssumption == ClaimOutlivesRequest \in BOOLEAN
ASSUME FaultsAssumption == MaxFaults \in Nat

VARIABLES
    match,      \* durable matches by formation key: "none", "active", "over"
    blocked,    \* users not active, or in a conflicting game
    work,       \* the requests in progress
    faults      \* faults so far

vars == <<tickets, ptr, queue, claims, claimRec, index, nextTicket, nextClaim,
          match, blocked, work, faults>>

-----------------------------------------------------------------------------
ClaimUsers(c) == claimRec[c].usersA \cup claimRec[c].usersB

(* FindActiveAssignment.                                                    *)
Assigned(u) == \E c \in ClaimIds : match[c] = "active" /\ u \in ClaimUsers(c)

(* candidateRequeue: active account, no assignment, no conflicting game.    *)
CandidateRequeue(u) == u \notin blocked /\ ~Assigned(u)

(* Bug variant: one ineligible member costs both sides their place.         *)
RosterRequeue_AllOrNone(c) ==
    {s \in Sides : \A u \in ClaimUsers(c) : CandidateRequeue(u)}

(* rosterRequeue of both sides of claim c: the sides that may be requeued.  *)
RosterRequeue(c) == {s \in Sides : \A u \in ClaimRoster(c, s) : CandidateRequeue(u)}

-----------------------------------------------------------------------------
PCs == {"idle", "join", "leave", "list", "get", "find", "assess", "release",
        "finalize", "claim", "check", "commit", "status", "recover", "renew"}

(* op: the endpoint; who: the roster (join) or the caller; claim: the claim *)
(* snapshot held, by id; todo: expired claims listed and not yet handled;   *)
(* requeue: the sides found eligible; then: where the handler goes once     *)
(* the claim at hand is resolved.                                           *)
Request == [pc : PCs, op : {"none", "join", "poll", "leave"}, who : SUBSET Users,
            claim : ClaimIds \cup {None}, todo : SUBSET ClaimIds,
            requeue : SUBSET Sides, then : {"none", "claim", "formed", "renew"}]

Idle == [pc |-> "idle", op |-> "none", who |-> {}, claim |-> None,
         todo |-> {}, requeue |-> {}, then |-> "none"]

FormationTypeOK ==
    /\ TypeOK
    /\ match \in [ClaimIds -> {"none", "active", "over"}]
    /\ blocked \subseteq Users
    /\ work \in [Workers -> Request]
    /\ faults \in 0..MaxFaults

Init ==
    /\ StoreInit
    /\ match = [c \in ClaimIds |-> "none"]
    /\ blocked = {}
    /\ work = [w \in Workers |-> Idle]
    /\ faults = 0

At(w, pc)  == work[w].pc = pc
Set(w, r)  == work' = [work EXCEPT ![w] = r]
Goto(w, p) == Set(w, [work[w] EXCEPT !.pc = p])
Reply(w)   == Set(w, Idle)

(* After tryFormTeamMatch a join answers; a poll goes on to the status.     *)
Formed(r) ==
    IF r.op = "join" THEN Idle
    ELSE [Idle EXCEPT !.pc = "status", !.op = r.op, !.who = r.who]

(* Bug variant: the handler falls through without answering.                *)
Resolved_FallThrough(rec) ==
    LET r == [rec EXCEPT !.claim = None, !.requeue = {}] IN
    [r EXCEPT !.pc = IF r.todo # {} THEN "get" ELSE r.then]

(* The next expired claim of the list, or what follows it.                  *)
Resolved(rec) ==
    LET r == [rec EXCEPT !.claim = None, !.requeue = {}] IN
    IF r.todo # {} THEN [r EXCEPT !.pc = "get"]
    ELSE IF r.then = "formed" THEN Formed(r)
    ELSE [r EXCEPT !.pc = r.then]

-----------------------------------------------------------------------------
(* JoinQueue and joinTicketQueue up to the script: every member of the      *)
(* roster is found eligible and unassigned.                                 *)
StartJoin(w, R) ==
    /\ At(w, "idle")
    /\ nextTicket + Cardinality({v \in Workers : At(v, "join")}) <= MaxTickets
    /\ \A u \in R : CandidateRequeue(u)
    /\ Set(w, [Idle EXCEPT !.pc = "join", !.op = "join", !.who = R])
    /\ UNCHANGED <<storeVars, match, blocked, faults>>

Join(w) ==
    /\ At(w, "join")
    /\ \/ JoinCreates(work[w].who) /\ Goto(w, "list")
       \/ JoinConflict(work[w].who) /\ Reply(w)
       \/ \E t \in TicketIds :
            /\ JoinExisting(work[w].who, t)
            /\ IF Claimed(t)
               THEN Set(w, [work[w] EXCEPT !.pc = "recover", !.claim = tickets[t].claim])
               ELSE Goto(w, "list")
    /\ UNCHANGED <<match, blocked, faults>>

(* GetStatus for a user without an assignment: formation first when the     *)
(* user's ticket is searching, then statusWithoutDurable.                   *)
StartPoll(w, u) ==
    /\ At(w, "idle")
    /\ ptr[u] # None
    /\ ~Assigned(u)
    /\ Set(w, [Idle EXCEPT !.pc = IF Searching(ptr[u]) THEN "list" ELSE "status",
                           !.op = "poll", !.who = {u}])
    /\ UNCHANGED <<storeVars, match, blocked, faults>>

Status(w) ==
    /\ At(w, "status")
    /\ \E u \in work[w].who :
         IF Assigned(u)
         THEN Reply(w) /\ UNCHANGED storeVars
         ELSE /\ RenewTicket(u)
              /\ IF Claimed(ptr[u])
                 THEN Set(w, [work[w] EXCEPT !.pc = "recover",
                                             !.claim = tickets[ptr[u]].claim])
                 ELSE Reply(w)
    /\ UNCHANGED <<match, blocked, faults>>

(* A poll that is answered from what it reads: matched, or not queued.      *)
PollUnchanged(u) ==
    /\ Assigned(u) \/ ptr[u] = None
    /\ UNCHANGED vars

(* LeaveQueue: nothing to do for an assigned user or one without a ticket,  *)
(* and a claimed ticket is refused; else leaveTicketScript.                 *)
StartLeave(w, u) ==
    /\ At(w, "idle")
    /\ Searching(ptr[u])
    /\ ~Assigned(u)
    /\ Set(w, [Idle EXCEPT !.pc = "leave", !.op = "leave", !.who = {u}])
    /\ UNCHANGED <<storeVars, match, blocked, faults>>

Leave(w) ==
    /\ At(w, "leave")
    /\ \E u \in work[w].who : LeaveTicket(u)
    /\ Reply(w)
    /\ UNCHANGED <<match, blocked, faults>>

-----------------------------------------------------------------------------
(* reconcileExpiredTeamClaims, first thing in tryFormTeamMatch.             *)
List(w) ==
    /\ At(w, "list")
    /\ Set(w, Resolved([work[w] EXCEPT !.todo = ExpiredClaims, !.then = "claim"]))
    /\ UNCHANGED <<storeVars, match, blocked, faults>>

(* Bug variant: the index entry is dropped without reading the hash.        *)
Get_DropsUnread(w) ==
    /\ At(w, "get")
    /\ \E c \in work[w].todo :
         /\ Set(w, Resolved([work[w] EXCEPT !.todo = @ \ {c}]))
         /\ DropTeamClaimIndex(c)
    /\ UNCHANGED <<match, blocked, faults>>

Get(w) ==
    /\ At(w, "get")
    /\ \E c \in work[w].todo :
         /\ \A d \in work[w].todo : c <= d
         /\ LET r == [work[w] EXCEPT !.todo = @ \ {c}] IN
            IF c \in claims
            THEN /\ Set(w, [r EXCEPT !.pc = "find", !.claim = c])
                 /\ UNCHANGED storeVars
            ELSE /\ Set(w, Resolved(r))
                 /\ DropTeamClaimIndex(c)
    /\ UNCHANGED <<match, blocked, faults>>

(* FindMatchByFormationKey of the claim at hand.                            *)
Find(w) ==
    /\ At(w, "find")
    /\ Goto(w, IF match[work[w].claim] = "none" THEN "assess" ELSE "finalize")
    /\ UNCHANGED <<storeVars, match, blocked, faults>>

(* rosterRequeue of both sides.                                             *)
Assess(w) ==
    /\ At(w, "assess")
    /\ Set(w, [work[w] EXCEPT !.pc = "release", !.requeue = RosterRequeue(work[w].claim)])
    /\ UNCHANGED <<storeVars, match, blocked, faults>>

Release(w) ==
    /\ At(w, "release")
    /\ ReleaseTeamClaim(work[w].claim, work[w].requeue)
    /\ Set(w, Resolved(work[w]))
    /\ UNCHANGED <<match, blocked, faults>>

Finalize(w) ==
    /\ At(w, "finalize")
    /\ FinalizeTeamClaim(work[w].claim)
    /\ IF work[w].then = "renew" THEN Reply(w) ELSE Set(w, Resolved(work[w]))
    /\ UNCHANGED <<match, blocked, faults>>

(* recoverTicketClaimedStatus: the match first, then the claim, which is    *)
(* left alone until recover_after has passed.                               *)
Recover(w) ==
    LET c == work[w].claim IN
    /\ At(w, "recover")
    /\ \/ /\ match[c] # "none" /\ c \in claims
          /\ Set(w, [work[w] EXCEPT !.pc = "finalize", !.then = "renew"])
       \/ /\ match[c] = "none" /\ ClaimDue(c)
          /\ Set(w, [work[w] EXCEPT !.pc = "find", !.then = "renew"])
       \/ /\ IF match[c] # "none" THEN c \notin claims ELSE ~ClaimDue(c)
          /\ Reply(w)
    /\ UNCHANGED <<storeVars, match, blocked, faults>>

RenewAfterRelease(w) ==
    /\ At(w, "renew")
    /\ \E u \in work[w].who : RenewTicket(u)
    /\ Reply(w)
    /\ UNCHANGED <<match, blocked, faults>>

-----------------------------------------------------------------------------
(* tryFormTeamMatch from the claim on.                                      *)
Claim(w) ==
    /\ At(w, "claim")
    /\ \/ /\ ClaimPair
          /\ Set(w, [work[w] EXCEPT !.pc = "check", !.claim = nextClaim, !.then = "formed"])
       \/ /\ ClaimNothing
          /\ Set(w, Formed(work[w]))
    /\ UNCHANGED <<match, blocked, faults>>

(* rosterRequeue of both sides, then SelectLocations.  Without enough       *)
(* locations both sides go back to the queue.                               *)
Check(w) ==
    LET ok == RosterRequeue(work[w].claim) IN
    /\ At(w, "check")
    /\ \/ ok = Sides /\ Goto(w, "commit")
       \/ Set(w, [work[w] EXCEPT !.pc = "release", !.requeue = ok])
    /\ UNCHANGED <<storeVars, match, blocked, faults>>

(* Bug variant: the transaction trusts the checks made before it.           *)
LockAndValidateUsers_AccountsOnly(c) == \A u \in ClaimUsers(c) : u \notin blocked

(* lockAndValidateUsers: no member blocked, no member assigned.             *)
LockAndValidateUsers(c) == \A u \in ClaimUsers(c) : CandidateRequeue(u)

(* CreateTeamFormationBundle.  A rejection is re-assessed and released.     *)
Commit(w) ==
    LET c == work[w].claim IN
    /\ At(w, "commit")
    /\ IF LockAndValidateUsers(c)
       THEN match' = [match EXCEPT ![c] = "active"] /\ Goto(w, "finalize")
       ELSE UNCHANGED match /\ Goto(w, "assess")
    /\ UNCHANGED <<storeVars, blocked, faults>>

-----------------------------------------------------------------------------
(* A call fails or the process dies, and the request is over.  But         *)
(* reconciling goes on with the next expired claim, or gives up and leaves  *)
(* the rest to later requests, and a failed ClaimTickets counts as no pair. *)
Fault(w) ==
    /\ ~At(w, "idle")
    /\ faults < MaxFaults
    /\ faults' = faults + 1
    /\ \/ Reply(w)
       \/ /\ work[w].then = "claim"
          /\ work[w].pc \in {"find", "assess", "release", "finalize"}
          /\ Set(w, Resolved(work[w]))
       \/ /\ work[w].pc \in {"list", "get"}
          /\ Set(w, [work[w] EXCEPT !.pc = "claim", !.todo = {}, !.then = "claim"])
       \/ At(w, "claim") /\ Set(w, Formed(work[w]))
    /\ UNCHANGED <<storeVars, match, blocked>>

(* The rest of the backend: matches end, accounts are suspended and         *)
(* restored, other games are entered and left.                              *)
EndMatch(c) ==
    /\ match[c] = "active"
    /\ match' = [match EXCEPT ![c] = "over"]
    /\ UNCHANGED <<storeVars, blocked, work, faults>>

Block(u) ==
    /\ u \in Blockable
    /\ blocked' = IF u \in blocked THEN blocked \ {u} ELSE blocked \cup {u}
    /\ UNCHANGED <<storeVars, match, work, faults>>

LeaseRunsOut(t) ==
    /\ ExpireLease(t)
    /\ UNCHANGED <<match, blocked, work, faults>>

(* recover_after of claim c passes.  The request that made the claim has    *)
(* then met its own deadline (middleware.Timeout), if the claim outlives it.*)
ClaimFallsDue(c) ==
    /\ PassRecoverAfter(c)
    /\ work' = [w \in Workers |->
                  IF ClaimOutlivesRequest /\ work[w].then = "formed" /\ work[w].claim = c
                  THEN Idle ELSE work[w]]
    /\ UNCHANGED <<match, blocked, faults>>

(* A run of the claim-sweep worker (matchmaking/worker.go).  It calls       *)
(* reconcileExpiredClaims, which lists the claims of the older pair queue,  *)
(* kept under other keys, and none of these.                                *)
ClaimSweep == UNCHANGED vars

(* One step of a request that has started.                                  *)
Proceed(w) ==
    \/ Join(w) \/ Status(w) \/ Leave(w)
    \/ List(w) \/ Get(w) \/ Find(w) \/ Assess(w) \/ Release(w) \/ Finalize(w)
    \/ Recover(w) \/ RenewAfterRelease(w)
    \/ Claim(w) \/ Check(w) \/ Commit(w)

Next ==
    \/ \E w \in Workers :
          \/ \E R \in Rosters : StartJoin(w, R)
          \/ \E u \in Users : StartPoll(w, u) \/ StartLeave(w, u)
          \/ Proceed(w)
          \/ Fault(w)
    \/ \E c \in ClaimIds : EndMatch(c)
    \/ \E u \in Users : Block(u)
    \/ \E t \in TicketIds : LeaseRunsOut(t)
    \/ \E c \in ClaimIds : ClaimFallsDue(c)
    \/ \E u \in Users : PollUnchanged(u)
    \/ ClaimSweep

Spec == Init /\ [][Next]_vars

(* Requests that started run; every client keeps polling while it has no    *)
(* match (specs/008 research.md: every 2 seconds while searching), and time *)
(* passes.  Nobody is obliged to join or to leave, and no match to end.     *)
Fairness ==
    /\ \A w \in Workers : WF_vars(Proceed(w))
    /\ \A u \in Users : SF_vars(\E w \in Workers : StartPoll(w, u))
    /\ \A c \in ClaimIds : WF_vars(ClaimFallsDue(c))

FairSpec == Spec /\ Fairness

(* The same without the clients: requests that started run, time passes,    *)
(* and the claim-sweep worker runs every few seconds.                       *)
SweepSpec ==
    /\ Spec
    /\ \A w \in Workers : WF_vars(Proceed(w))
    /\ \A c \in ClaimIds : WF_vars(ClaimFallsDue(c))
    /\ WF_vars(ClaimSweep)

-----------------------------------------------------------------------------
(* Properties.                                                              *)

(* Whatever the requests do and however late they are, the ticket queue sees *)
(* nothing but its own scripts, called with claims that were issued: the     *)
(* whole implements StoreSpec, and what is proved of StoreSpec holds of it.  *)
UsesTicketStore == StoreSpec

(* A user is in at most one active match, however late the worker that      *)
(* commits is with its claim.  The transaction's own validation ensures it: *)
(* the unique index match_players_active_user_uidx never has to fire.       *)
OneActiveAssignment ==
    \A c, d \in ClaimIds :
        c # d /\ match[c] = "active" /\ match[d] = "active" =>
            ClaimUsers(c) \cap ClaimUsers(d) = {}

(* A worker is about to leave the queue for a member of roster R.           *)
Leaving(R) == \E w \in Workers : At(w, "leave") /\ work'[w] = Idle
                                 /\ work[w].who \cap R # {}

(* A ticket whose members were never blocked or matched is removed only by  *)
(* its own members' leave or by the end of its lease: whatever happens to   *)
(* the opponent it was paired with, and however late anyone is, an innocent *)
(* roster keeps its place.                                                  *)
NoInnocentDrop ==
    [][\A t \in TicketIds :
         tickets[t].state # "absent" /\ tickets'[t].state = "absent" =>
            \/ tickets[t].state = "searching" /\ ~tickets[t].live
            \/ Leaving(tickets[t].roster)
            \/ tickets[t].roster \cap Blockable # {}
            \/ \E c \in ClaimIds : /\ match[c] # "none"
                                   /\ tickets[t].roster \cap ClaimUsers(c) # {}]_vars

(* specs/008 spec.md, story 3: an entry that was closed is not selected for *)
(* a later match.  A match is committed only while both entries are open.   *)
MatchedFromOpenEntries ==
    [][\A c \in ClaimIds : match[c] = "none" /\ match'[c] = "active" =>
          \A s \in Sides : tickets[ClaimTicket(c, s)].state # "absent"]_vars

(* specs/012 spec.md FR-004: at most one queue entry or match assignment at *)
(* a time.  An assigned user has no searching ticket of their own.          *)
AssignedNotSearching ==
    \A u \in Users : Assigned(u) => ~Searching(ptr[u])

(* Nobody is trapped in a claim (specs/008 spec.md, story 3): a player whose *)
(* ticket is claimed and who has no match gets the match or the ticket back, *)
(* though the request that claimed it may have died at any step.  (The claim *)
(* itself may stay behind while the match is played: an assigned player's    *)
(* poll answers from PostgreSQL and never looks at Redis.)                   *)
NobodyTrapped ==
    \A u \in Users : (Claimed(ptr[u]) /\ ~Assigned(u))
                        ~> (~Claimed(ptr[u]) \/ Assigned(u))

(* specs/012 data-model.md:349: the claim sweep lets "abandoned team claims *)
(* recover without user traffic".  A claim that has fallen due is resolved. *)
AbandonedClaimsRecover ==
    \A c \in ClaimIds : (c \in claims /\ index[c] = "due") ~> c \notin claims
=============================================================================
