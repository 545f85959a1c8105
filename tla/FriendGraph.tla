---------------------------- MODULE FriendGraph -----------------------------
(***************************************************************************)
(* The social graph (friends/repository.go, service.go): one row for each  *)
(* pair of users, pending, accepted or blocked.  Every write runs in one   *)
(* transaction under the users' rows, which are locked in order, or is one *)
(* conditional DELETE, so each is one step.  No row is "none"; "by" is the *)
(* requester of a pending row and the blocker of a blocked one.            *)
(***************************************************************************)
EXTENDS Naturals, FiniteSets

CONSTANTS
    Users,      \* registered, active users
    MaxSocial   \* bound: steps that change the graph

ASSUME FriendAssumption == MaxSocial \in Nat

VARIABLES
    pair,   \* friendships, by pair of users
    social  \* steps taken, bounded by MaxSocial

friendVars == <<pair, social>>

PairOf(u, v) == {u, v}
Pairs == {PairOf(u, v) : u, v \in Users} \ {{u} : u \in Users}
NoRow == [status |-> "none", by |-> "none"]
Row(s, u) == [status |-> s, by |-> u]

FriendTypeOK ==
    /\ pair \in [Pairs -> [status : {"none", "pending", "accepted", "blocked"}, by : Users \cup {"none"}]]
    /\ social \in 0..MaxSocial

Friends(u, v) == pair[PairOf(u, v)].status = "accepted"
Blocked(u, v) == PairOf(u, v) \in Pairs /\ pair[PairOf(u, v)].status = "blocked"

SetPair(u, v, row) ==
    /\ social < MaxSocial /\ social' = social + 1
    /\ pair' = [pair EXCEPT ![PairOf(u, v)] = row]

-----------------------------------------------------------------------------
CreateRequest(u, v) ==
    /\ pair[PairOf(u, v)].status = "none"
    /\ SetPair(u, v, Row("pending", u))

(* Both look at the row again once the users are locked.                    *)
PendingFor(u, v) == pair[PairOf(u, v)] = Row("pending", v)

AcceptRequest(u, v) == PendingFor(u, v) /\ SetPair(u, v, Row("accepted", "none"))

DeclineRequest(u, v) == PendingFor(u, v) /\ SetPair(u, v, NoRow)

RemoveFriendship(u, v) == Friends(u, v) /\ SetPair(u, v, NoRow)

(* The first blocker keeps the row.                                         *)
BlockUser(u, v) == ~Blocked(u, v) /\ SetPair(u, v, Row("blocked", u))

UnblockUser(u, v) == pair[PairOf(u, v)] = Row("blocked", u) /\ SetPair(u, v, NoRow)

(* The service refuses a pair of one user.                                  *)
Request(u, v) == u # v /\ CreateRequest(u, v)
Accept(u, v)  == u # v /\ AcceptRequest(u, v)
Decline(u, v) == u # v /\ DeclineRequest(u, v)
Unfriend(u, v) == u # v /\ RemoveFriendship(u, v)
Block(u, v)   == u # v /\ BlockUser(u, v)
Unblock(u, v) == u # v /\ UnblockUser(u, v)

FriendNext ==
    \E u, v \in Users : \/ Request(u, v) \/ Accept(u, v) \/ Decline(u, v)
                        \/ Unfriend(u, v) \/ Block(u, v) \/ Unblock(u, v)
=============================================================================
