------------------------------ MODULE Parties -------------------------------
(***************************************************************************)
(* Premade parties (parties/repository.go, service.go): their roster,      *)
(* leader, readiness and invitations, with the social graph an invitation  *)
(* consults and the queue a ready party is put into.  A transaction locks  *)
(* the users and then the party, so it is one step; what a request reads   *)
(* before it (the friend policy, the snapshot of a party to queue) is a    *)
(* step of its own.                                                        *)
(*                                                                         *)
(* A roster is a sequence in the order of joined_at.  Versions, events and *)
(* replies are left out (for the latter see CommandKeys).                  *)
(***************************************************************************)
EXTENDS FriendGraph, Sequences, SequencesExt

CONSTANTS
    PartyIds,       \* parties that may be created
    PartyCapacity,  \* their capacity: 2 for duo, 4 for squad
    Invites,        \* rows of party_invites that may be created
    PartyCalls,     \* requests in progress at one time
    CasualEnabled   \* configuration: party commands are served

ASSUME PartyAssumption == PartyCapacity \in Nat \ {0, 1} /\ CasualEnabled \in BOOLEAN

VARIABLES
    party,      \* parties and their active members
    invite,     \* party_invites
    partyCall,  \* requests between their read and their write
    ticket,     \* roster queued for a party, <<>> when none
    match,      \* users of the match formed from the ticket
    vouched     \* history: the members of the roster a user is ready for

partyVars == <<pair, social, party, invite, partyCall, ticket, match, vouched>>

NoParty == [status |-> "none", leader |-> "none", roster |-> <<>>, ready |-> {}]
NoInvite == [status |-> "none", party |-> "none", inviter |-> "none", invitee |-> "none", due |-> FALSE]
OverInvite == [NoInvite EXCEPT !.status = "over"]  \* accepted, declined, expired or revoked
NoCall == [pc |-> "idle", user |-> "none", party |-> "none", other |-> "none", invite |-> "none",
           roster |-> <<>>]

PartyTypeOK ==
    /\ FriendTypeOK
    /\ \A p \in PartyIds :
         /\ party[p].status \in {"none", "forming", "queued", "in_match", "closed"}
         /\ party[p].leader \in Users \cup {"none"}
         /\ party[p].roster \in Seq(Users) /\ party[p].ready \subseteq ToSet(party[p].roster)
    /\ \A i \in Invites :
         invite[i].status \in {"none", "pending", "over"}
    /\ \A c \in PartyCalls : partyCall[c].pc \in {"idle", "invite", "accept", "queue", "join"}
    /\ \A p \in PartyIds : ticket[p] \in Seq(Users)
    /\ match \in [PartyIds -> SUBSET Users] /\ vouched \in [Users -> SUBSET Users]

(* All users are friends: the graph their requests have made so far.        *)
PartyInit ==
    /\ pair = [q \in Pairs |-> Row("accepted", "none")] /\ social = 0
    /\ party = [p \in PartyIds |-> NoParty]
    /\ invite = [i \in Invites |-> NoInvite]
    /\ partyCall = [c \in PartyCalls |-> NoCall]
    /\ ticket = [p \in PartyIds |-> <<>>] /\ match = [p \in PartyIds |-> {}]
    /\ vouched = [u \in Users |-> {}]

Member(u, p) == u \in ToSet(party[p].roster)
InParty(u)   == \E p \in PartyIds : Member(u, p)
Busy(u)      == \E p \in PartyIds : u \in match[p]
Forming(p)   == party[p].status = "forming"

-----------------------------------------------------------------------------
(* Bug variant: readiness survives a change of the roster.                  *)
NewRoster_KeepsReady(p, roster) == [party[p] EXCEPT !.roster = roster]

(* Every change of the roster clears all readiness.                         *)
NewRoster(p, roster) == [party[p] EXCEPT !.roster = roster, !.ready = {}]

CreateParty(u, p) ==
    /\ party[p].status = "none"
    /\ ~InParty(u) /\ ~Busy(u)
    /\ party' = [party EXCEPT ![p] = [status |-> "forming", leader |-> u, roster |-> <<u>>, ready |-> {}]]
    /\ UNCHANGED <<pair, social, invite, partyCall, ticket, match, vouched>>

(* CanInvite: asked before the transactions of Invite and AcceptInvite.     *)
CanInvite(u, v) == Friends(u, v)

StartInvite(c, u, p, v) ==
    /\ CasualEnabled /\ partyCall[c].pc = "idle" /\ u # v /\ party[p].status # "none"
    /\ CanInvite(u, v)
    /\ partyCall' = [partyCall EXCEPT ![c] = [NoCall EXCEPT !.pc = "invite", !.user = u, !.party = p, !.other = v]]
    /\ UNCHANGED <<pair, social, party, invite, ticket, match, vouched>>

(* A pending invitation refuses another, expired or not.                    *)
InviteRefused(u, p, v) ==
    \/ ~Forming(p) \/ party[p].leader # u
    \/ Len(party[p].roster) >= PartyCapacity
    \/ InParty(v) \/ Busy(v)
    \/ \E i \in Invites : invite[i].status = "pending" /\ invite[i].party = p /\ invite[i].invitee = v

CreateInvite(c) ==
    LET call == partyCall[c] IN
    /\ call.pc = "invite"
    /\ IF InviteRefused(call.user, call.party, call.other) THEN UNCHANGED invite
       ELSE \E i \in Invites :
              /\ invite[i].status = "none"
              /\ invite' = [invite EXCEPT ![i] = [status |-> "pending", party |-> call.party,
                              inviter |-> call.user, invitee |-> call.other, due |-> FALSE]]
    /\ partyCall' = [partyCall EXCEPT ![c] = NoCall]
    /\ UNCHANGED <<pair, social, party, ticket, match, vouched>>

(* InviteTTL passes.                                                        *)
InviteFallsDue(i) ==
    /\ invite[i].status = "pending" /\ ~invite[i].due
    /\ invite' = [invite EXCEPT ![i].due = TRUE]
    /\ UNCHANGED <<pair, social, party, partyCall, ticket, match, vouched>>

(* Listing expires the caller's stale invitations.                          *)
ListPendingInvites(v) ==
    LET stale == {i \in Invites : invite[i].invitee = v /\ invite[i].status = "pending" /\ invite[i].due} IN
    /\ stale # {}
    /\ invite' = [i \in Invites |-> IF i \in stale THEN OverInvite ELSE invite[i]]
    /\ UNCHANGED <<pair, social, party, partyCall, ticket, match, vouched>>

DeclineInvite(i) ==
    /\ invite[i].status = "pending"
    /\ invite' = [invite EXCEPT ![i] = OverInvite]
    /\ UNCHANGED <<pair, social, party, partyCall, ticket, match, vouched>>

StartAccept(c, i) ==
    /\ CasualEnabled /\ partyCall[c].pc = "idle" /\ invite[i].status = "pending"
    /\ CanInvite(invite[i].inviter, invite[i].invitee)
    /\ partyCall' = [partyCall EXCEPT ![c] = [NoCall EXCEPT !.pc = "accept", !.user = invite[i].invitee, !.invite = i]]
    /\ UNCHANGED <<pair, social, party, invite, ticket, match, vouched>>

(* Bug variant: the other parties are not looked at again.                  *)
AcceptRefused_Trusting(u, i) ==
    \/ invite[i].status # "pending" \/ invite[i].due
    \/ ~Forming(invite[i].party) \/ Len(party[invite[i].party].roster) >= PartyCapacity \/ Busy(u)

(* Everything again, now under the locks; an overdue invitation is refused  *)
(* with an error, which rolls its expiry back.                              *)
AcceptRefused(u, i) ==
    \/ invite[i].status # "pending" \/ invite[i].due
    \/ ~Forming(invite[i].party) \/ Len(party[invite[i].party].roster) >= PartyCapacity
    \/ InParty(u) \/ Busy(u)

AcceptInvite(c) ==
    LET i == partyCall[c].invite
        u == partyCall[c].user
        p == invite[i].party IN
    /\ partyCall[c].pc = "accept"
    /\ IF AcceptRefused(u, i) THEN UNCHANGED <<party, invite>>
       ELSE /\ party' = [party EXCEPT ![p] = NewRoster(p, Append(party[p].roster, u))]
            /\ invite' = [invite EXCEPT ![i] = OverInvite]
    /\ partyCall' = [partyCall EXCEPT ![c] = NoCall]
    /\ UNCHANGED <<pair, social, ticket, match, vouched>>

-----------------------------------------------------------------------------
SetReadiness(u, p) ==
    /\ Forming(p) /\ Member(u, p)
    /\ \/ /\ u \in party[p].ready
          /\ party' = [party EXCEPT ![p].ready = @ \ {u}]
          /\ vouched' = [vouched EXCEPT ![u] = {}]
       \/ /\ u \notin party[p].ready
          /\ party' = [party EXCEPT ![p].ready = @ \cup {u}]
          /\ vouched' = [vouched EXCEPT ![u] = ToSet(party[p].roster)]
    /\ UNCHANGED <<pair, social, invite, partyCall, ticket, match>>

Without(roster, u) == RemoveAt(roster, CHOOSE i \in DOMAIN roster : roster[i] = u)

Closed(p) == [NoParty EXCEPT !.status = "closed"]

(* The earliest member leads once the leader is gone.                       *)
LedBy(p, roster) == IF party[p].leader \in ToSet(roster) THEN party[p].leader ELSE Head(roster)

LeaveParty(u, p) ==
    LET rest == Without(party[p].roster, u) IN
    /\ Forming(p) /\ Member(u, p)
    /\ party' = [party EXCEPT ![p] = IF rest = <<>> THEN Closed(p)
                                     ELSE [NewRoster(p, rest) EXCEPT !.leader = LedBy(p, rest)]]
    /\ UNCHANGED <<pair, social, invite, partyCall, ticket, match, vouched>>

KickMember(l, p, u) ==
    /\ Forming(p) /\ party[p].leader = l /\ Member(u, p)
    /\ party' = [party EXCEPT ![p] = NewRoster(p, Without(party[p].roster, u))]
    /\ invite' = [i \in Invites |-> IF invite[i].status = "pending" /\ invite[i].party = p /\ invite[i].invitee = u
                                    THEN OverInvite ELSE invite[i]]
    /\ UNCHANGED <<pair, social, partyCall, ticket, match, vouched>>

DisbandParty(l, p) ==
    /\ Forming(p) /\ party[p].leader = l
    /\ party' = [party EXCEPT ![p] = Closed(p)]
    /\ invite' = [i \in Invites |-> IF invite[i].status = "pending" /\ invite[i].party = p
                                    THEN OverInvite ELSE invite[i]]
    /\ UNCHANGED <<pair, social, partyCall, ticket, match, vouched>>

-----------------------------------------------------------------------------
(* ReadyPartyForQueue reads the party's row and then its members.           *)
StartQueue(c, u, p) ==
    /\ partyCall[c].pc = "idle"
    /\ Member(u, p) /\ party[p].leader = u /\ Forming(p)
    /\ partyCall' = [partyCall EXCEPT ![c] = [NoCall EXCEPT !.pc = "queue", !.user = u, !.party = p]]
    /\ UNCHANGED <<pair, social, party, invite, ticket, match, vouched>>

(* AllReady, of the members read.                                           *)
QueueReady(p) == ToSet(party[p].roster) \subseteq party[p].ready

ReadyPartyForQueue(c) ==
    LET p == partyCall[c].party IN
    /\ partyCall[c].pc = "queue"
    /\ partyCall' = [partyCall EXCEPT ![c] =
         IF Len(party[p].roster) = PartyCapacity /\ QueueReady(p)
         THEN [@ EXCEPT !.pc = "join", !.roster = party[p].roster] ELSE NoCall]
    /\ UNCHANGED <<pair, social, party, invite, ticket, match, vouched>>

(* JoinTicket (see TicketStore); the party's row is not written.            *)
JoinTicket(c) ==
    LET call == partyCall[c] IN
    /\ call.pc = "join"
    /\ ticket' = IF \E q \in PartyIds : ToSet(ticket[q]) \cap ToSet(call.roster) # {} THEN ticket
                 ELSE [ticket EXCEPT ![call.party] = call.roster]
    /\ partyCall' = [partyCall EXCEPT ![c] = NoCall]
    /\ UNCHANGED <<pair, social, party, invite, match, vouched>>

(* The leader leaves the queue, or the lease runs out.                      *)
DropTicket(p) ==
    /\ ticket[p] # <<>> /\ ticket' = [ticket EXCEPT ![p] = <<>>]
    /\ UNCHANGED <<pair, social, party, invite, partyCall, match, vouched>>

(* A match is formed of the ticket's users (see TeamFormation).             *)
FormMatch(p) ==
    /\ ticket[p] # <<>> /\ match[p] = {} /\ \A u \in ToSet(ticket[p]) : ~Busy(u)
    /\ match' = [match EXCEPT ![p] = ToSet(ticket[p])]
    /\ ticket' = [ticket EXCEPT ![p] = <<>>]
    /\ UNCHANGED <<pair, social, party, invite, partyCall, vouched>>

(* RestoreAfterTerminalMatch: only a party in_match, which nothing sets.    *)
Restored(p) ==
    IF party[p].status = "in_match" THEN [party[p] EXCEPT !.status = "forming", !.ready = {}] ELSE party[p]

EndMatch(p) ==
    /\ match[p] # {} /\ match' = [match EXCEPT ![p] = {}]
    /\ party' = [party EXCEPT ![p] = Restored(p)]
    /\ UNCHANGED <<pair, social, invite, partyCall, ticket, vouched>>

(* The service: a disabled feature still lets players leave, decline and    *)
(* read.                                                                    *)
CreateAs(u, p)     == CasualEnabled /\ CreateParty(u, p)
ReadyAs(u, p)      == CasualEnabled /\ SetReadiness(u, p)
LeaveAs(u, p)      == LeaveParty(u, p)
KickAs(l, p, u)    == CasualEnabled /\ l # u /\ KickMember(l, p, u)
DisbandAs(l, p)    == CasualEnabled /\ DisbandParty(l, p)
DeclineAs(i)       == DeclineInvite(i)
ListInvites(u)     == ListPendingInvites(u)

PartyNext ==
    \/ FriendNext /\ UNCHANGED <<party, invite, partyCall, ticket, match, vouched>>
    \/ \E u \in Users : ListInvites(u)
    \/ \E u \in Users : \E p \in PartyIds :
         \/ CreateAs(u, p) \/ ReadyAs(u, p) \/ LeaveAs(u, p) \/ DisbandAs(u, p)
         \/ \E v \in Users : KickAs(u, p, v)
    \/ \E i \in Invites : InviteFallsDue(i) \/ DeclineAs(i)
    \/ \E c \in PartyCalls :
         \/ \E u \in Users : \E p \in PartyIds : \/ StartQueue(c, u, p)
                                                 \/ \E v \in Users : StartInvite(c, u, p, v)
         \/ \E i \in Invites : StartAccept(c, i)
         \/ CreateInvite(c) \/ AcceptInvite(c) \/ ReadyPartyForQueue(c) \/ JoinTicket(c)
    \/ \E p \in PartyIds : DropTicket(p) \/ FormMatch(p) \/ EndMatch(p)

PartySpec == PartyInit /\ [][PartyNext]_partyVars

-----------------------------------------------------------------------------
(* Correctness.                                                             *)

(* Whatever invitations are accepted, members kicked and leaders gone at    *)
(* the same time, a user is in one party, a party never holds more than its *)
(* capacity, and a party that is not closed is led by a member of it        *)
(* (repository.go:319, :594, :665).                                         *)
OnePartyEach ==
    /\ \A u \in Users : \A p, q \in PartyIds : Member(u, p) /\ Member(u, q) => p = q
    /\ \A p \in PartyIds :
         /\ Len(party[p].roster) <= PartyCapacity /\ IsInjective(party[p].roster)
         /\ Forming(p) => party[p].leader \in ToSet(party[p].roster)

(* A roster that goes to the queue is one that each of its users was made   *)
(* ready for: nobody is queued with a teammate who came after (service.go:  *)
(* 735, repository.go:542).                                                 *)
QueuedByConsent ==
    [][\A c \in PartyCalls : partyCall'[c].pc = "join" /\ partyCall[c].pc # "join" =>
          \A u \in ToSet(partyCall'[c].roster) : vouched[u] = ToSet(partyCall'[c].roster)]_partyVars

(* "A party cannot change while queued; the leader must leave the queue     *)
(* first" (specs/012-casual-ranked-modes/data-model.md:48).                 *)
QueuedPartyStands ==
    [][\A p \in PartyIds : ticket[p] # <<>> /\ ticket'[p] = ticket[p] => party'[p].roster = party[p].roster]_partyVars

(* "blocked users MUST NOT be placed in the same premade party"             *)
(* (specs/012-casual-ranked-modes/spec.md:155, FR-019).                     *)
BlockedKeptApart ==
    [][\A p \in PartyIds : \A u \in ToSet(party'[p].roster) \ ToSet(party[p].roster) :
          \A v \in ToSet(party[p].roster) : ~Blocked(u, v)]_partyVars
=============================================================================
