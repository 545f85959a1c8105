------------------------------ MODULE PairQueue ------------------------------
(***************************************************************************)
(* Ranked 1v1 matchmaking on the older pair queue: the Lua scripts of      *)
(* platform/redis/matchmaking.go and the requests of matchmaking/service.go *)
(* that use them while team modes are off.  Unlike the ticket queue, a     *)
(* player is found through two more keys: the queue holds entry ids, and   *)
(* owner (matchmaking:v1:entry:<id>) says whose player hash to look at.    *)
(*                                                                         *)
(* As in TeamFormation a request calls two stores one after the other, and *)
(* can fail or die between any two calls.  Entries and claims are fresh    *)
(* numbers, an entry's number its place in the queue.                      *)
(***************************************************************************)
EXTENDS Naturals, FiniteSets

CONSTANTS
    Seekers,     \* registered users
    PairCalls,   \* requests in progress at one time
    Entries,     \* entries that may be made: a range 1..n
    PairClaims,  \* claims that may be made: a range 1..n
    PairFaults,  \* bound: requests that fail or die
    ClaimOutlives  \* a request is over before recover_after of its claim

ASSUME PairAssumption == /\ Entries \subseteq Nat \ {0} /\ PairClaims \subseteq Nat \ {0} /\ "none" \notin Seekers
                         /\ PairFaults \in Nat /\ ClaimOutlives \in BOOLEAN

VARIABLES
    player,    \* player hashes
    lane,      \* the queue's sorted set: entry ids
    owner,     \* entry maps; "none" where the key does not exist
    pairHash,  \* claim hashes that exist
    pairClaim, \* what ClaimPair wrote under a claim id: two entries
    pairIndex, \* recovery index: "unused", "waiting", "due", "gone"
    made,      \* history: for which user an entry was made
    duel,      \* durable matches by formation key: "none", "active", "over"
    pairBlock, \* users suspended, or in another game
    pairCall,  \* requests in progress
    pairFault  \* faults so far

pairVars == <<player, lane, owner, pairHash, pairClaim, pairIndex, made, duel, pairBlock, pairCall, pairFault>>
redisVars == <<player, lane, owner, pairHash, pairClaim, pairIndex, made>>

Nobody == [entry |-> 0, state |-> "absent", claim |-> 0, live |-> FALSE]
Quiet  == [pc |-> "idle", op |-> "none", who |-> "none", claim |-> 0, todo |-> {}, keep |-> {}, then |-> "none"]

PairTypeOK ==
    /\ player \in [Seekers -> [entry : Entries \cup {0}, state : {"absent", "searching", "claimed"},
                               claim : PairClaims \cup {0}, live : BOOLEAN]]
    /\ lane \subseteq Entries
    /\ owner \in [Entries -> Seekers \cup {"none"}] /\ made \in [Entries -> Seekers \cup {"none"}]
    /\ pairHash \subseteq PairClaims /\ pairClaim \in [PairClaims -> SUBSET Entries]
    /\ pairIndex \in [PairClaims -> {"unused", "waiting", "due", "gone"}]
    /\ duel \in [PairClaims -> {"none", "active", "over"}]
    /\ pairBlock \subseteq Seekers /\ pairFault \in 0..PairFaults
    /\ \A c \in PairCalls : pairCall[c].pc \in {"idle", "join", "leave", "list", "get", "find", "assess", "release",
            "finalize", "claim", "check", "commit", "status", "recover", "renew"}

PairInit ==
    /\ player = [u \in Seekers |-> Nobody] /\ lane = {}
    /\ owner = [e \in Entries |-> "none"] /\ made = [e \in Entries |-> "none"]
    /\ pairHash = {} /\ pairClaim = [c \in PairClaims |-> {}] /\ pairIndex = [c \in PairClaims |-> "unused"]
    /\ duel = [c \in PairClaims |-> "none"]
    /\ pairBlock = {} /\ pairFault = 0
    /\ pairCall = [c \in PairCalls |-> Quiet]

FirstUnused(S) == {x \in S : \A y \in S : x <= y}  \* the next of the unused numbers S

-----------------------------------------------------------------------------
(* joinScript: a current searching entry or a claimed one is returned, a    *)
(* stale one is cleared for a new one.                                      *)
JoinPair(u) ==
    IF player[u].state = "claimed" \/ (player[u].state = "searching" /\ player[u].live)
    THEN UNCHANGED redisVars
    ELSE \E e \in Entries :
           /\ e \in FirstUnused({d \in Entries : made[d] = "none"})
           /\ player' = [player EXCEPT ![u] = [entry |-> e, state |-> "searching", claim |-> 0, live |-> TRUE]]
           /\ lane' = (lane \ {player[u].entry}) \cup {e}
           /\ owner' = [d \in Entries |-> IF d = e THEN u ELSE IF d = player[u].entry THEN "none" ELSE owner[d]]
           /\ made' = [made EXCEPT ![e] = u]
           /\ UNCHANGED <<pairHash, pairClaim, pairIndex>>

(* The keys of an entry and its player are removed.                         *)
Cleared(u) ==
    /\ player' = [player EXCEPT ![u] = Nobody]
    /\ lane' = lane \ {player[u].entry}
    /\ owner' = [e \in Entries |-> IF e = player[u].entry THEN "none" ELSE owner[e]]
    /\ UNCHANGED <<pairHash, pairClaim, pairIndex, made>>

(* renewScript: a searching entry whose lease ran out goes, another gets a  *)
(* new lease; a claimed one is left to its claim.                           *)
RenewPair(u) ==
    IF player[u].state # "searching" THEN UNCHANGED redisVars
    ELSE IF player[u].live THEN UNCHANGED redisVars ELSE Cleared(u)

(* leaveScript: only a searching entry.                                     *)
LeavePair(u) == IF player[u].state = "searching" THEN Cleared(u) ELSE UNCHANGED redisVars

(* claimPairScript: entries the scan cannot use, and why.                   *)
Unusable(e) ==
    \/ owner[e] = "none"
    \/ LET p == player[owner[e]] IN p.entry # e \/ p.state # "searching" \/ ~p.live

(* The scan goes through the oldest entries, drops what it cannot use, with *)
(* the keys of the player when they still name the entry, and stops at the  *)
(* second it can use.                                                       *)
Usable == {e \in lane : ~Unusable(e)}
Pair   == {e \in Usable : Cardinality({d \in Usable : d <= e}) <= 2}
Scanned == IF Cardinality(Pair) < 2 THEN lane ELSE {e \in lane : \E d \in Pair : e <= d}
Dropped == {e \in Scanned : Unusable(e)}

PlayersSwept == [u \in Seekers |-> IF player[u].entry \in Dropped /\ owner[player[u].entry] = u THEN Nobody ELSE player[u]]

OwnersSwept == [e \in Entries |->
    IF e \in Dropped /\ owner[e] # "none" /\ player[owner[e]].entry \in {e, 0} THEN "none" ELSE owner[e]]

ClaimPair(k) ==
    /\ Cardinality(Pair) = 2
    /\ k \in FirstUnused({c \in PairClaims : pairIndex[c] = "unused"})
    /\ pairHash' = pairHash \cup {k}
    /\ pairClaim' = [pairClaim EXCEPT ![k] = Pair]
    /\ pairIndex' = [pairIndex EXCEPT ![k] = "waiting"]
    /\ player' = [u \in Seekers |-> IF player[u].entry \in Pair
                                    THEN [player[u] EXCEPT !.state = "claimed", !.claim = k] ELSE PlayersSwept[u]]
    /\ owner' = OwnersSwept
    /\ lane' = lane \ (Dropped \cup Pair)
    /\ UNCHANGED made

ClaimNone ==
    /\ Cardinality(Pair) < 2
    /\ player' = PlayersSwept /\ owner' = OwnersSwept /\ lane' = lane \ Dropped
    /\ UNCHANGED <<pairHash, pairClaim, pairIndex, made>>

(* finalizeClaimScript: hashes that still hold the claim, and the entry     *)
(* maps in any case.                                                        *)
FinalizePair(k) ==
    /\ player' = [u \in Seekers |-> IF player[u].claim = k /\ player[u].entry \in pairClaim[k] THEN Nobody ELSE player[u]]
    /\ owner' = [e \in Entries |-> IF e \in pairClaim[k] THEN "none" ELSE owner[e]]
    /\ pairHash' = pairHash \ {k} /\ pairIndex' = [pairIndex EXCEPT ![k] = "gone"]
    /\ UNCHANGED <<lane, pairClaim, made>>

Releasable(k) == {e \in pairClaim[k] : player[made[e]].claim = k /\ player[made[e]].entry = e}

(* releaseClaimScript: the entries of keep go back to their place.          *)
ReleasePair(k, keep) ==
    IF k \notin pairHash THEN /\ pairIndex' = [pairIndex EXCEPT ![k] = "gone"]
                             /\ UNCHANGED <<player, lane, owner, pairHash, pairClaim, made>>
    ELSE /\ player' = [u \in Seekers |->
              IF player[u].entry \notin Releasable(k) THEN player[u]
              ELSE IF player[u].entry \in keep
                   THEN [player[u] EXCEPT !.state = "searching", !.claim = 0, !.live = TRUE] ELSE Nobody]
         /\ lane' = lane \cup (Releasable(k) \cap keep)
         /\ owner' = [e \in Entries |->
              IF e \in Releasable(k) THEN IF e \in keep THEN made[e] ELSE "none"
              ELSE IF e \in pairClaim[k] /\ player[made[e]].state = "absent" THEN "none" ELSE owner[e]]
         /\ pairHash' = pairHash \ {k} /\ pairIndex' = [pairIndex EXCEPT ![k] = "gone"]
         /\ UNCHANGED <<pairClaim, made>>

DropPairIndex(k) ==
    /\ pairIndex' = [pairIndex EXCEPT ![k] = "gone"]
    /\ UNCHANGED <<player, lane, owner, pairHash, pairClaim, made>>

-----------------------------------------------------------------------------
(* PostgreSQL.                                                              *)
DuelUsers(k) == {made[e] : e \in pairClaim[k]}
Matched(u)   == \E k \in PairClaims : duel[k] = "active" /\ u \in DuelUsers(k)

(* candidateRequeue: active, unassigned, in no other game.                  *)
MayDuel(u) == u \notin pairBlock /\ ~Matched(u)

Keepable(k) == {e \in pairClaim[k] : MayDuel(made[e])}

-----------------------------------------------------------------------------
(* The requests.                                                            *)
In(c, pc)   == pairCall[c].pc = pc
Put(c, r)   == pairCall' = [pairCall EXCEPT ![c] = r]
Step(c, pc) == Put(c, [pairCall[c] EXCEPT !.pc = pc])
Done(c)     == Put(c, Quiet)

(* After tryFormMatch: a join answers, a poll goes on to its status.        *)
AfterForm(r) == IF r.op = "poll" THEN [Quiet EXCEPT !.pc = "status", !.op = "poll", !.who = r.who] ELSE Quiet

(* The claim at hand is resolved: the next one listed, or what follows.     *)
AfterClaim(rec) ==
    LET r == [rec EXCEPT !.claim = 0, !.keep = {}] IN
    IF r.todo # {} THEN [r EXCEPT !.pc = "get"]
    ELSE IF r.then = "formed" THEN AfterForm(r) ELSE [r EXCEPT !.pc = r.then]

(* JoinQueue: no assignment, eligible, no conflicting game.                 *)
JoinQueue(c, u) ==
    /\ In(c, "idle") /\ MayDuel(u)
    /\ \/ player[u].state # "absent"
       \/ Cardinality({d \in PairCalls : In(d, "join")}) < Cardinality({e \in Entries : made[e] = "none"})
    /\ Put(c, [Quiet EXCEPT !.pc = "join", !.op = "join", !.who = u])
    /\ UNCHANGED <<redisVars, duel, pairBlock, pairFault>>

JoinLegacyPairQueue(c) ==
    LET u == pairCall[c].who IN
    /\ In(c, "join") /\ JoinPair(u)
    /\ IF player[u].state = "claimed" THEN Put(c, [pairCall[c] EXCEPT !.pc = "recover", !.claim = player[u].claim])
       ELSE Step(c, "list")
    /\ UNCHANGED <<duel, pairBlock, pairFault>>

(* LeaveQueue: assigned users, and those without an entry, have nothing to  *)
(* leave, and a claimed entry refuses.                                      *)
LeaveQueue(c, u) ==
    /\ In(c, "idle") /\ ~Matched(u) /\ player[u].state = "searching"
    /\ Put(c, [Quiet EXCEPT !.pc = "leave", !.who = u])
    /\ UNCHANGED <<redisVars, duel, pairBlock, pairFault>>

LeaveNow(c) == In(c, "leave") /\ LeavePair(pairCall[c].who) /\ Done(c) /\ UNCHANGED <<duel, pairBlock, pairFault>>

(* GetStatus: every poll of an unassigned user tries to form a match first. *)
GetStatus(c, u) ==
    /\ In(c, "idle") /\ ~Matched(u)
    /\ Put(c, [Quiet EXCEPT !.pc = "list", !.op = "poll", !.who = u])
    /\ UNCHANGED <<redisVars, duel, pairBlock, pairFault>>

StatusWithoutDurable(c) ==
    LET u == pairCall[c].who IN
    /\ In(c, "status")
    /\ IF Matched(u) THEN Done(c) /\ UNCHANGED redisVars
       ELSE /\ RenewPair(u)
            /\ IF player[u].state = "claimed"
               THEN Put(c, [pairCall[c] EXCEPT !.pc = "recover", !.claim = player[u].claim]) ELSE Done(c)
    /\ UNCHANGED <<duel, pairBlock, pairFault>>

(* reconcileExpiredClaims: the claims past recover_after, one by one.       *)
ListExpired(c) ==
    /\ In(c, "list")
    /\ Put(c, AfterClaim([pairCall[c] EXCEPT !.todo = {k \in PairClaims : pairIndex[k] = "due"}, !.then = "claim"]))
    /\ UNCHANGED <<redisVars, duel, pairBlock, pairFault>>

(* Bug variant: the index entry is dropped without reading the hash.        *)
GetClaim_Unread(c) ==
    LET k == CHOOSE d \in pairCall[c].todo : \A e \in pairCall[c].todo : d <= e IN
    /\ In(c, "get")
    /\ Put(c, AfterClaim([pairCall[c] EXCEPT !.todo = @ \ {k}])) /\ DropPairIndex(k)
    /\ UNCHANGED <<duel, pairBlock, pairFault>>

GetClaim(c) ==
    LET k == CHOOSE d \in pairCall[c].todo : \A e \in pairCall[c].todo : d <= e
        r == [pairCall[c] EXCEPT !.todo = @ \ {k}] IN
    /\ In(c, "get")
    /\ IF k \in pairHash THEN Put(c, [r EXCEPT !.pc = "find", !.claim = k]) /\ UNCHANGED redisVars
       ELSE Put(c, AfterClaim(r)) /\ DropPairIndex(k)
    /\ UNCHANGED <<duel, pairBlock, pairFault>>

FindMatch(c) ==
    /\ In(c, "find")
    /\ Step(c, IF duel[pairCall[c].claim] = "none" THEN "assess" ELSE "finalize")
    /\ UNCHANGED <<redisVars, duel, pairBlock, pairFault>>

Assess(c) ==
    /\ In(c, "assess")
    /\ Put(c, [pairCall[c] EXCEPT !.pc = "release", !.keep = Keepable(pairCall[c].claim)])
    /\ UNCHANGED <<redisVars, duel, pairBlock, pairFault>>

Release(c) ==
    /\ In(c, "release")
    /\ ReleasePair(pairCall[c].claim, pairCall[c].keep) /\ Put(c, AfterClaim(pairCall[c]))
    /\ UNCHANGED <<duel, pairBlock, pairFault>>

Finalize(c) ==
    /\ In(c, "finalize")
    /\ FinalizePair(pairCall[c].claim)
    /\ IF pairCall[c].then = "renew" THEN Done(c) ELSE Put(c, AfterClaim(pairCall[c]))
    /\ UNCHANGED <<duel, pairBlock, pairFault>>

(* recoverClaimedStatus: the match first, then a claim that is due.         *)
RecoverClaimed(c) ==
    LET k == pairCall[c].claim IN
    /\ In(c, "recover")
    /\ IF duel[k] # "none" /\ k \in pairHash THEN Put(c, [pairCall[c] EXCEPT !.pc = "finalize", !.then = "renew"])
       ELSE IF duel[k] = "none" /\ k \in pairHash /\ pairIndex[k] = "due"
            THEN Put(c, [pairCall[c] EXCEPT !.pc = "find", !.then = "renew"])
       ELSE Done(c)
    /\ UNCHANGED <<redisVars, duel, pairBlock, pairFault>>

RenewReleased(c) ==
    In(c, "renew") /\ RenewPair(pairCall[c].who) /\ Done(c) /\ UNCHANGED <<duel, pairBlock, pairFault>>

(* tryFormMatch, once the expired claims are done with.                     *)
Claim(c) ==
    /\ In(c, "claim")
    /\ \/ \E k \in PairClaims : ClaimPair(k) /\ Put(c, [pairCall[c] EXCEPT !.pc = "check", !.claim = k, !.then = "formed"])
       \/ ClaimNone /\ Put(c, AfterForm(pairCall[c]))
    /\ UNCHANGED <<duel, pairBlock, pairFault>>

(* Both players are looked at, then locations are drawn; without enough of  *)
(* those both go back.                                                      *)
Check(c) ==
    LET keep == Keepable(pairCall[c].claim) IN
    /\ In(c, "check")
    /\ \/ Cardinality(keep) = 2 /\ Step(c, "commit")
       \/ Put(c, [pairCall[c] EXCEPT !.pc = "release", !.keep = keep])
    /\ UNCHANGED <<redisVars, duel, pairBlock, pairFault>>

(* CreateFormationBundle: one transaction that looks again.                 *)
CreateFormationBundle(c) ==
    LET k == pairCall[c].claim IN
    /\ In(c, "commit")
    /\ IF Cardinality(Keepable(k)) = 2 THEN duel' = [duel EXCEPT ![k] = "active"] /\ Step(c, "finalize")
       ELSE UNCHANGED duel /\ Step(c, "assess")
    /\ UNCHANGED <<redisVars, pairBlock, pairFault>>

(* A call fails, or the process dies: the request is over, or goes on where *)
(* it tolerates it.                                                         *)
PairFault(c) ==
    /\ ~In(c, "idle") /\ pairFault < PairFaults /\ pairFault' = pairFault + 1
    /\ \/ Done(c)
       \/ pairCall[c].then = "claim" /\ pairCall[c].pc \in {"find", "assess", "release", "finalize"}
          /\ Put(c, AfterClaim(pairCall[c]))
       \/ pairCall[c].pc \in {"list", "get"} /\ Put(c, [pairCall[c] EXCEPT !.pc = "claim", !.todo = {}, !.then = "claim"])
       \/ In(c, "claim") /\ Put(c, AfterForm(pairCall[c]))
    /\ UNCHANGED <<redisVars, duel, pairBlock>>

(* Time, and the rest of the backend.                                       *)
LeaseEnds(u) ==
    /\ player[u].state = "searching" /\ player[u].live /\ player' = [player EXCEPT ![u].live = FALSE]
    /\ UNCHANGED <<lane, owner, pairHash, pairClaim, pairIndex, made, duel, pairBlock, pairCall, pairFault>>

ClaimFallsDue(k) ==
    /\ pairIndex[k] = "waiting" /\ pairIndex' = [pairIndex EXCEPT ![k] = "due"]
    /\ pairCall' = [c \in PairCalls |-> IF ClaimOutlives /\ pairCall[c].then = "formed" /\ pairCall[c].claim = k
                                        THEN Quiet ELSE pairCall[c]]
    /\ UNCHANGED <<player, lane, owner, pairHash, pairClaim, made, duel, pairBlock, pairFault>>

DuelEnds(k) ==
    /\ duel[k] = "active" /\ duel' = [duel EXCEPT ![k] = "over"]
    /\ UNCHANGED <<redisVars, pairBlock, pairCall, pairFault>>

Suspend(u) ==
    /\ u \notin pairBlock /\ pairBlock' = pairBlock \cup {u}
    /\ UNCHANGED <<redisVars, duel, pairCall, pairFault>>

PairNext ==
    \/ \E c \in PairCalls :
         \/ \E u \in Seekers : JoinQueue(c, u) \/ LeaveQueue(c, u) \/ GetStatus(c, u)
         \/ JoinLegacyPairQueue(c) \/ LeaveNow(c) \/ StatusWithoutDurable(c)
         \/ ListExpired(c) \/ GetClaim(c) \/ FindMatch(c) \/ Assess(c) \/ Release(c) \/ Finalize(c)
         \/ RecoverClaimed(c) \/ RenewReleased(c)
         \/ Claim(c) \/ Check(c) \/ CreateFormationBundle(c)
         \/ PairFault(c)
    \/ \E u \in Seekers : LeaseEnds(u) \/ Suspend(u)
    \/ \E k \in PairClaims : ClaimFallsDue(k) \/ DuelEnds(k)

PairSpec == PairInit /\ [][PairNext]_pairVars

-----------------------------------------------------------------------------
(* Correctness.                                                             *)

(* A player who is told to be searching can be found: the entry is in the   *)
(* queue and leads back to the player.  A player who is claimed is held by  *)
(* a claim that exists, names the entry, and that reconciling will come to; *)
(* nobody waits for a claim that was lost (redis/matchmaking.go:413, :446). *)
SearchersAreFound ==
    \A u \in Seekers : LET p == player[u] IN
        /\ p.state = "searching" => p.entry \in lane /\ owner[p.entry] = u
        /\ p.state = "claimed" => p.claim \in pairHash /\ p.entry \in pairClaim[p.claim]
                                  /\ pairIndex[p.claim] \in {"waiting", "due"}
=============================================================================
