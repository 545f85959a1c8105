----------------------------- MODULE TicketStore -----------------------------
(***************************************************************************)
(* The Redis side of team matchmaking: the v2 ticket queue.  Every action  *)
(* is one Lua script of platform/redis/matchmaking_v2.go (Redis runs a     *)
(* script atomically), over these keys:                                    *)
(*                                                                         *)
(*   matchmaking:v2:ticket:<id>   tickets    (hash)                        *)
(*   matchmaking:v2:user:<id>     ptr        (user -> ticket id)           *)
(*   matchmaking:v2:queue:<mode>  queue      (sorted set, score = enq)     *)
(*   matchmaking:v2:claim:<id>    claims     (hash, no TTL)                *)
(*   matchmaking:v2:claims        index      (sorted set, recover_after)   *)
(*                                                                         *)
(* One mode is modelled: a queue holds rosters of one size.  In a ranked   *)
(* mode ratings and waiting times decide who may meet whom: any pair may,  *)
(* or may not.  UUIDs are fresh numbers, and so are enqueue times.  Clock  *)
(* readings are abstracted to what the scripts compare: `live' says that a *)
(* searching lease has not run out, index[c] = "due" that recover_after of *)
(* claim c has passed; ExpireLease and PassRecoverAfter let that time pass *)
(* at any moment.                                                          *)
(***************************************************************************)
EXTENDS Integers, FiniteSets

CONSTANTS
    Users,       \* registered users
    Rosters,     \* rosters that may ask for a ticket in this mode
    Ranked,      \* a ranked mode (max_rating_delta > 0), else a casual one
    ScanLimit,   \* candidate_scan_limit of one claim attempt
    MaxTickets,  \* bound: tickets ever created
    MaxClaims    \* bound: claims ever created

ASSUME RostersAssumption == Rosters \subseteq (SUBSET Users) \ {{}}
ASSUME BoundsAssumption  == /\ MaxTickets \in Nat
                            /\ MaxClaims \in Nat
                            /\ ScanLimit \in Nat

VARIABLES
    tickets,     \* ticket hashes; NoTicket where the key does not exist
    ptr,         \* user pointers; None where the key does not exist
    queue,       \* members of the queue's sorted set
    claims,      \* ids of the claim hashes that exist
    claimRec,    \* what ClaimTickets wrote (or will write) under each claim id
    index,       \* recovery index: "none", "waiting" or "due"
    nextTicket,  \* next fresh ticket id, and the next enqueue time stamp
    nextClaim    \* next fresh claim id

storeVars == <<tickets, ptr, queue, claims, claimRec, index,
               nextTicket, nextClaim>>

None      == 0
TicketIds == 1..MaxTickets
ClaimIds  == 1..MaxClaims

Ticket == [roster : SUBSET Users, enq : Nat,
           state : {"absent", "searching", "claimed"},
           claim : ClaimIds \cup {None}, live : BOOLEAN]

NoTicket == [roster |-> {}, enq |-> 0, state |-> "absent",
             claim |-> None, live |-> FALSE]

ClaimHash == [a : TicketIds \cup {None}, b : TicketIds \cup {None},
              usersA : SUBSET Users, usersB : SUBSET Users,
              enqA : Nat, enqB : Nat]

NoClaimHash == [a |-> None, b |-> None, usersA |-> {}, usersB |-> {},
                enqA |-> 0, enqB |-> 0]

(* Types of the keys. *)
TypeOK ==
    /\ tickets \in [TicketIds -> Ticket]
    /\ ptr \in [Users -> TicketIds \cup {None}]
    /\ queue \subseteq TicketIds
    /\ claims \subseteq ClaimIds
    /\ claimRec \in [ClaimIds -> ClaimHash]
    /\ index \in [ClaimIds -> {"none", "waiting", "due"}]
    /\ nextTicket \in 1..(MaxTickets + 1)
    /\ nextClaim \in 1..(MaxClaims + 1)

StoreInit ==
    /\ tickets = [t \in TicketIds |-> NoTicket]
    /\ ptr = [u \in Users |-> None]
    /\ queue = {}
    /\ claims = {}
    /\ claimRec = [c \in ClaimIds |-> NoClaimHash]
    /\ index = [c \in ClaimIds |-> "none"]
    /\ nextTicket = 1
    /\ nextClaim = 1

-----------------------------------------------------------------------------
Searching(t) == t \in TicketIds /\ tickets[t].state = "searching"
Claimed(t)   == t \in TicketIds /\ tickets[t].state = "claimed"

(* Bug variant: the join script clears claimed tickets too.                  *)
Holds_SearchingOnly(t) == Searching(t) /\ tickets[t].live

(* A ticket the join script will not clear: claimed, or a current lease.   *)
Holds(t) == Claimed(t) \/ (Searching(t) /\ tickets[t].live)

(* The pointers of the roster all have the value t (None: all absent).     *)
PointsTo(R, t) == \A u \in R : ptr[u] = t

(* clearTicket for every ticket of T: the hash goes, and each member's     *)
(* pointer that still has this ticket's id.                                *)
WithoutTickets(T) == [t \in TicketIds |-> IF t \in T THEN NoTicket ELSE tickets[t]]

(* Bug variant: the hash is deleted and the pointers are forgotten.         *)
WithoutPointers_Kept(T) == ptr

WithoutPointers(T) ==
    [u \in Users |-> IF \E t \in T \cap TicketIds :
                            ptr[u] = t /\ u \in tickets[t].roster
                     THEN None ELSE ptr[u]]

-----------------------------------------------------------------------------
(* joinTicketScript.  The members' pointers differ (some may be absent), or *)
(* they name a ticket of another roster: err_user_conflict.                 *)
JoinConflict(R) ==
    /\ \/ ~ \E t \in TicketIds \cup {None} : PointsTo(R, t)
       \/ \E t \in TicketIds : /\ PointsTo(R, t)
                               /\ Holds(t)
                               /\ tickets[t].roster # R
    /\ UNCHANGED storeVars

(* The roster already has ticket t: `existing' or `existing_claimed'.       *)
JoinExisting(R, t) ==
    /\ PointsTo(R, t)
    /\ Holds(t)
    /\ tickets[t].roster = R
    /\ UNCHANGED storeVars

(* No pointer, or pointers to a missing hash or to an expired searching     *)
(* ticket, which is cleared: a fresh ticket is created at the tail.         *)
JoinCreates(R) ==
    /\ nextTicket <= MaxTickets
    /\ \E old \in TicketIds \cup {None} :
          /\ PointsTo(R, old)
          /\ ~Holds(old)
          /\ tickets' = [WithoutTickets({old}) EXCEPT ![nextTicket] =
                            [roster |-> R, enq |-> nextTicket, state |-> "searching",
                             claim |-> None, live |-> TRUE]]
          /\ ptr' = [u \in Users |-> IF u \in R THEN nextTicket
                                     ELSE WithoutPointers({old})[u]]
          /\ queue' = (queue \ {old}) \cup {nextTicket}
    /\ nextTicket' = nextTicket + 1
    /\ UNCHANGED <<claims, claimRec, index, nextClaim>>

(* renewTicketScript.  A claimed ticket is returned as it is; an expired    *)
(* search is cleared; a current one gets a new lease and keeps its place.   *)
RenewTicket(u) ==
    LET t == ptr[u] IN
    /\ \/ /\ Searching(t)
          /\ tickets[t].live
          /\ tickets' = [tickets EXCEPT ![t].live = TRUE]
          /\ UNCHANGED <<ptr, queue>>
       \/ /\ Searching(t)
          /\ ~tickets[t].live
          /\ tickets' = WithoutTickets({t})
          /\ ptr' = WithoutPointers({t})
          /\ queue' = queue \ {t}
       \/ /\ Claimed(t)
          /\ UNCHANGED <<tickets, ptr, queue>>
       \/ /\ ~Searching(t) /\ ~Claimed(t)
          /\ ptr' = [ptr EXCEPT ![u] = None]
          /\ UNCHANGED <<tickets, queue>>
    /\ UNCHANGED <<claims, claimRec, index, nextTicket, nextClaim>>

(* Bug variant of leaveTicketScript: a claimed ticket is removed as well.    *)
LeaveTicket_AnyState(u) ==
    /\ tickets' = WithoutTickets({ptr[u]})
    /\ ptr' = WithoutPointers({ptr[u]})
    /\ queue' = queue \ {ptr[u]}
    /\ UNCHANGED <<claims, claimRec, index, nextTicket, nextClaim>>

(* leaveTicketScript: `left' for a searching ticket (expired or not), which *)
(* goes with the pointers of the whole roster; a claimed one is refused.    *)
LeaveTicket(u) ==
    LET t == ptr[u] IN
    /\ \/ /\ Searching(t)
          /\ tickets' = WithoutTickets({t})
          /\ ptr' = WithoutPointers({t})
          /\ queue' = queue \ {t}
       \/ /\ Claimed(t)
          /\ UNCHANGED <<tickets, ptr, queue>>
       \/ /\ ~Searching(t) /\ ~Claimed(t)
          /\ ptr' = [ptr EXCEPT ![u] = None]
          /\ UNCHANGED <<tickets, queue>>
    /\ UNCHANGED <<claims, claimRec, index, nextTicket, nextClaim>>

-----------------------------------------------------------------------------
(* claimTicketsScript.                                                      *)
Before(s, t) == tickets[s].enq < tickets[t].enq

(* The oldest scanLimit members, never fewer than two.                      *)
ScanSize == IF ScanLimit < 2 THEN 2 ELSE ScanLimit

Scanned == {t \in queue : Cardinality({s \in queue : Before(s, t)}) < ScanSize}

(* Candidates that pass the checks: a current lease, and every member's     *)
(* pointer still names this ticket.                                         *)
Valid == {t \in Scanned : /\ Searching(t)
                          /\ tickets[t].live
                          /\ PointsTo(tickets[t].roster, t)}

(* Candidates that are cleared, and queue members that name no search.      *)
Stale    == {t \in Scanned \ Valid : Searching(t)}
Detached == {t \in Scanned : ~Searching(t)}

(* Compatible candidates, the older one first.                              *)
Opposed(a, b) == Before(a, b) /\ tickets[a].roster \cap tickets[b].roster = {}

(* The pair the nested loops reach first: oldest a, then oldest b.          *)
FirstPair(a, b) ==
    /\ Opposed(a, b)
    /\ \A c, d \in Valid :
          Opposed(c, d) => Before(a, c) \/ (a = c /\ ~Before(d, b))

(* In a ranked mode the first compatible pair within the rating window.     *)
Chosen(a, b) == FirstPair(a, b) \/ (Ranked /\ Opposed(a, b))

(* Bug variant: the ticket's own id is written in its claim field.          *)
ClaimedBy_OwnId(t, c) == [tickets[t] EXCEPT !.state = "claimed", !.claim = t]

(* The pair takes the claim id, the claim record copies both tickets, and   *)
(* the clean-up of the scan happens in the same script.                     *)
ClaimedBy(t, c) == [tickets[t] EXCEPT !.state = "claimed", !.claim = c]

ClaimRecord(a, b) ==
    [a |-> a, b |-> b,
     usersA |-> tickets[a].roster, usersB |-> tickets[b].roster,
     enqA |-> tickets[a].enq, enqB |-> tickets[b].enq]

ClaimTickets(a, b, c) ==
    /\ tickets' = [t \in TicketIds |-> IF t \in {a, b} THEN ClaimedBy(t, c)
                                      ELSE WithoutTickets(Stale)[t]]
    /\ queue' = queue \ (Stale \cup Detached \cup {a, b})
    /\ claimRec' = [claimRec EXCEPT ![c] = ClaimRecord(a, b)]
    /\ ptr' = WithoutPointers(Stale)
    /\ claims' = claims \cup {c}
    /\ index' = [index EXCEPT ![c] = "waiting"]
    /\ UNCHANGED nextTicket

ClaimPair ==
    /\ nextClaim <= MaxClaims
    /\ \E a, b \in Valid : Chosen(a, b) /\ ClaimTickets(a, b, nextClaim)
    /\ nextClaim' = nextClaim + 1

(* No pair among the scanned candidates; the clean-up stays.  (With         *)
(* MaxClaims used up, a pair counts as none.)                               *)
ClaimNothing ==
    /\ nextClaim > MaxClaims \/ Ranked \/ ~ \E a, b \in Valid : Opposed(a, b)
    /\ tickets' = WithoutTickets(Stale)
    /\ ptr' = WithoutPointers(Stale)
    /\ queue' = queue \ (Stale \cup Detached)
    /\ UNCHANGED <<claims, claimRec, index, nextTicket, nextClaim>>

-----------------------------------------------------------------------------
ClaimTicket(c, side) == IF side = "A" THEN claimRec[c].a ELSE claimRec[c].b
ClaimRoster(c, side) == IF side = "A" THEN claimRec[c].usersA ELSE claimRec[c].usersB
ClaimEnq(c, side)    == IF side = "A" THEN claimRec[c].enqA ELSE claimRec[c].enqB
Sides == {"A", "B"}

(* Bug variant: any claimed ticket passes, whichever claim holds it.        *)
HeldBy_AnyClaim(t, c) == Claimed(t)

(* The hash of ticket t is still the one claim c claimed.  (Finalize checks *)
(* id and state, release the id: only a claimed hash carries an id.)        *)
HeldBy(t, c) == Claimed(t) /\ tickets[t].claim = c

(* finalizeTeamClaimScript.  The caller passes the claim as it read it, so  *)
(* the claim may be long gone.  A hash goes only while this claim holds it; *)
(* a pointer goes whenever it names the ticket.                             *)
FinalizeTeamClaim(c) ==
    /\ tickets' = [t \in TicketIds |->
                     IF \E s \in Sides : t = ClaimTicket(c, s) /\ HeldBy(t, c)
                     THEN NoTicket ELSE tickets[t]]
    /\ ptr' = [u \in Users |->
                 IF \E s \in Sides : u \in ClaimRoster(c, s) /\ ptr[u] = ClaimTicket(c, s)
                 THEN None ELSE ptr[u]]
    /\ claims' = claims \ {c}
    /\ index' = [index EXCEPT ![c] = "none"]
    /\ UNCHANGED <<queue, claimRec, nextTicket, nextClaim>>

(* releaseTicket of one side, as the ticket hash and the members' pointers  *)
(* it leaves behind.  requeue is the set of sides to put back.              *)
ReleasedTicket(c, s, requeue) ==
    LET t == ClaimTicket(c, s) IN
    IF s \in requeue
    THEN [tickets[t] EXCEPT !.state = "searching", !.claim = None, !.live = TRUE,
                            !.enq = ClaimEnq(c, s), !.roster = ClaimRoster(c, s)]
    ELSE NoTicket

(* Sides whose hash still carries this claim id.                            *)
HeldSides(c) == {s \in Sides : HeldBy(ClaimTicket(c, s), c)}

(* Sides whose hash is missing: only their pointers are cleaned.            *)
LostSides(c) == {s \in Sides : ~Searching(ClaimTicket(c, s)) /\ ~Claimed(ClaimTicket(c, s))}

(* releaseTeamClaimScript: `released' while the claim hash exists, else     *)
(* `absent'.                                                                *)
ReleaseTeamClaim(c, requeue) ==
    LET back == HeldSides(c) \cap requeue
        gone == (HeldSides(c) \ requeue) \cup LostSides(c)
    IN
    /\ IF c \in claims
       THEN /\ tickets' = [t \in TicketIds |->
                             IF \E s \in HeldSides(c) : t = ClaimTicket(c, s)
                             THEN ReleasedTicket(c, CHOOSE s \in HeldSides(c) :
                                                        t = ClaimTicket(c, s), requeue)
                             ELSE tickets[t]]
            /\ queue' = queue \cup {ClaimTicket(c, s) : s \in back}
            /\ ptr' = [u \in Users |->
                         IF \E s \in back : u \in ClaimRoster(c, s)
                         THEN ClaimTicket(c, CHOOSE s \in back : u \in ClaimRoster(c, s))
                         ELSE IF \E s \in gone : u \in ClaimRoster(c, s)
                                                 /\ ptr[u] = ClaimTicket(c, s)
                              THEN None ELSE ptr[u]]
            /\ claims' = claims \ {c}
       ELSE UNCHANGED <<tickets, queue, ptr, claims>>
    /\ index' = [index EXCEPT ![c] = "none"]
    /\ UNCHANGED <<claimRec, nextTicket, nextClaim>>

(* ListExpiredTeamClaims reads the due part of the recovery index;          *)
(* GetTeamClaim reads a hash.                                               *)
ExpiredClaims == {c \in ClaimIds : index[c] = "due"}
ClaimDue(c)   == c \in claims /\ index[c] = "due"

(* DropTeamClaimIndex, after GetTeamClaim found no hash.                    *)
DropTeamClaimIndex(c) ==
    /\ index' = [index EXCEPT ![c] = "none"]
    /\ UNCHANGED <<tickets, ptr, queue, claims, claimRec, nextTicket, nextClaim>>

-----------------------------------------------------------------------------
(* Time.                                                                    *)
ExpireLease(t) ==
    /\ Searching(t)
    /\ tickets[t].live
    /\ tickets' = [tickets EXCEPT ![t].live = FALSE]
    /\ UNCHANGED <<ptr, queue, claims, claimRec, index, nextTicket, nextClaim>>

PassRecoverAfter(c) ==
    /\ index[c] = "waiting"
    /\ index' = [index EXCEPT ![c] = "due"]
    /\ UNCHANGED <<tickets, ptr, queue, claims, claimRec, nextTicket, nextClaim>>

(* The scripts called in any order by any caller.  A caller that finalizes, *)
(* releases or drops a claim read it before: its id has been issued.        *)
Issued == {c \in ClaimIds : c < nextClaim}

StoreNext ==
    \/ \E R \in Rosters : JoinCreates(R)
    \/ \E u \in Users : RenewTicket(u) \/ LeaveTicket(u)
    \/ ClaimPair
    \/ ClaimNothing
    \/ \E c \in Issued : FinalizeTeamClaim(c)
    \/ \E c \in Issued, requeue \in SUBSET Sides : ReleaseTeamClaim(c, requeue)
    \/ \E c \in Issued \ claims : DropTeamClaimIndex(c)
    \/ \E t \in TicketIds : ExpireLease(t)
    \/ \E c \in ClaimIds : PassRecoverAfter(c)

StoreSpec == StoreInit /\ [][StoreNext]_storeVars
-----------------------------------------------------------------------------
(* Properties.                                                              *)

(* A user pointer never dangles: it names an existing ticket that lists the *)
(* user.  (The scripts have code for dangling pointers; no sequence of      *)
(* script calls, with callers as late as they like, needs it.)              *)
PointersNeverDangle ==
    \A u \in Users : ptr[u] # None => /\ Searching(ptr[u]) \/ Claimed(ptr[u])
                                      /\ u \in tickets[ptr[u]].roster

(* The queue holds the searching tickets and nothing else: a claimed ticket *)
(* cannot be claimed again, a searching one is never lost from the queue.   *)
QueueIsSearching == \A t \in TicketIds : t \in queue <=> Searching(t)

(* Claims and claimed tickets correspond, and the recovery index lists the  *)
(* claims: since neither has a TTL, a claimed ticket without its claim      *)
(* record, or a claim outside the index, would lock its users out forever.  *)
ClaimRecoverable ==
    /\ \A t \in TicketIds : Claimed(t) =>
          /\ tickets[t].claim \in claims
          /\ \E s \in Sides : /\ ClaimTicket(tickets[t].claim, s) = t
                              /\ ClaimRoster(tickets[t].claim, s) = tickets[t].roster
    /\ \A c \in claims : HeldSides(c) = Sides /\ index[c] # "none"

(* A claimed ticket stands still until the step that removes the claim that *)
(* holds it: a caller late with an older claim of the same ticket, a join,  *)
(* a renewal or a leave cannot disturb it.                                  *)
Frozen == \A t \in TicketIds : Claimed(t) =>
             tickets'[t] = tickets[t] \/ tickets[t].claim \notin claims'

(* A ticket keeps its roster and its place in the queue as long as it       *)
(* exists, through renewals, claims and releases (specs/008 data-model.md:  *)
(* "original queue time; never changed by retries or lease renewal").       *)
Kept == \A t \in TicketIds :
           tickets[t].state # "absent" /\ tickets'[t].state # "absent" =>
              /\ tickets'[t].enq = tickets[t].enq
              /\ tickets'[t].roster = tickets[t].roster

(* What no caller, however late, does to a ticket: disturb it while another *)
(* holds it, or move it or its members (finalizeTeamClaimScript,            *)
(* releaseTeamClaimScript).                                                 *)
TicketsStand == [][Frozen /\ Kept]_storeVars
=============================================================================
