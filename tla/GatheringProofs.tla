-------------------------- MODULE GatheringProofs ---------------------------
(***************************************************************************)
(* Proofs about how players come together outside the team queue: parties  *)
(* (Parties), private rooms with their games (HostedRoom), the pair queue  *)
(* (PairQueue) and the windows of ranked search (RankedSearch).            *)
(***************************************************************************)
EXTENDS Parties, HostedRoom, Searching, GameRoundsProofs, SequenceTheorems, FiniteSetTheorems, TLAPS

-----------------------------------------------------------------------------
(* Parties.                                                                 *)

(* Of a roster that somebody joins, nobody is in twice if he was not in it. *)
LEMMA Joined ==
    ASSUME NEW roster \in Seq(Users), IsInjective(roster), NEW u \in Users, u \notin ToSet(roster)
    PROVE  /\ Append(roster, u) \in Seq(Users)
           /\ IsInjective(Append(roster, u))
           /\ Len(Append(roster, u)) = Len(roster) + 1
           /\ ToSet(Append(roster, u)) = ToSet(roster) \cup {u}
<1>1. /\ Append(roster, u) \in Seq(Users) /\ Len(Append(roster, u)) = Len(roster) + 1
      /\ \A i \in 1..Len(roster) : Append(roster, u)[i] = roster[i]
      /\ Append(roster, u)[Len(roster) + 1] = u
  BY AppendProperties
<1>2. \A i \in 1..Len(roster) : roster[i] # u
  BY DEF ToSet
<1>3. IsInjective(Append(roster, u))
  BY <1>1, <1>2 DEF IsInjective
<1>4. ToSet(Append(roster, u)) = ToSet(roster) \cup {u}
  BY <1>1 DEF ToSet
<1>. QED  BY <1>1, <1>3, <1>4

(* Of a roster that a member leaves, the others remain, in their order.     *)
LEMMA Left ==
    ASSUME NEW roster \in Seq(Users), IsInjective(roster), NEW u \in ToSet(roster)
    PROVE  /\ Without(roster, u) \in Seq(Users)
           /\ IsInjective(Without(roster, u))
           /\ Len(Without(roster, u)) = Len(roster) - 1
           /\ ToSet(Without(roster, u)) = ToSet(roster) \ {u}
<1>. DEFINE k == CHOOSE i \in DOMAIN roster : roster[i] = u
            rest == Without(roster, u)
<1>1. k \in 1..Len(roster) /\ roster[k] = u
  BY DEF ToSet
<1>2. rest \in Seq(Users) /\ Len(rest) = Len(roster) - 1
  BY SMTT(30), <1>1 DEF Without, RemoveAt
<1>3. \A i \in 1..(Len(roster) - 1) : rest[i] = IF i < k THEN roster[i] ELSE roster[i + 1]
  <2>1. rest = SubSeq(roster, 1, k - 1) \o SubSeq(roster, k + 1, Len(roster))
    BY DEF Without, RemoveAt
  <2>. HIDE DEF k, rest
  <2>2. PICK front, back : front = SubSeq(roster, 1, k - 1) /\ back = SubSeq(roster, k + 1, Len(roster))
    OBVIOUS
  <2>3. front \in Seq(Users) /\ Len(front) = k - 1 /\ \A i \in 1..(k - 1) : front[i] = roster[i]
    BY <1>1, <2>2
  <2>4. /\ back \in Seq(Users) /\ Len(back) = Len(roster) - k
        /\ \A i \in 1..(Len(roster) - k) : back[i] = roster[k + i]
    BY <1>1, <2>2
  <2>5. ASSUME NEW i \in 1..(Len(roster) - 1) PROVE rest[i] = IF i < k THEN roster[i] ELSE roster[i + 1]
    <3>1. rest[i] = IF i <= Len(front) THEN front[i] ELSE back[i - Len(front)]
      <4>1. i \in 1..(Len(front) + Len(back))
        BY <1>1, <2>3, <2>4
      <4>2. rest = front \o back
        BY <2>1, <2>2
      <4>3. (front \o back)[i] = IF i <= Len(front) THEN front[i] ELSE back[i - Len(front)]
        BY <2>3, <2>4, <4>1, ConcatProperties
      <4>. QED  BY <4>2, <4>3
    <3>2. i - (k - 1) \in Int
      BY <1>1
    <3>. QED  BY <1>1, <2>3, <2>4, <3>1, <3>2
  <2>. QED  BY <2>5
<1>. HIDE DEF k, rest
<1>4. IsInjective(rest)
  BY SMTT(30), <1>1, <1>2, <1>3 DEF IsInjective
<1>5. ASSUME NEW i \in 1..Len(rest) PROVE rest[i] \in ToSet(roster) /\ rest[i] # u
  BY <1>1, <1>2, <1>3 DEF IsInjective, ToSet
<1>6. ASSUME NEW m \in ToSet(roster), m # u PROVE m \in ToSet(rest)
  <2>1. PICK j \in 1..Len(roster) : roster[j] = m
    BY DEF ToSet
  <2>2. CASE j < k
    BY <1>1, <1>2, <1>3, <1>6, <2>1, <2>2 DEF ToSet
  <2>3. CASE j > k
    <3>1. j - 1 \in 1..Len(rest) /\ rest[j - 1] = roster[j]
      BY <1>1, <1>2, <1>3, <2>1, <2>3
    <3>. QED  BY <1>2, <2>1, <3>1 DEF ToSet
  <2>. QED  BY <1>1, <1>6, <2>1, <2>2, <2>3
<1>7. ToSet(rest) = ToSet(roster) \ {u}
  <2>1. ToSet(rest) \subseteq ToSet(roster) \ {u}
    <3>1. ToSet(rest) = {rest[i] : i \in 1..Len(rest)}
      BY <1>2 DEF ToSet
    <3>. QED  BY <1>5, <3>1
  <2>. QED  BY <1>6, <2>1
<1>. QED  BY <1>2, <1>4, <1>7 DEF rest

LEMMA MembersAreUsers ==
    ASSUME NEW roster \in Seq(Users)
    PROVE  ToSet(roster) \subseteq Users
BY DEF ToSet

(* The rows of the parties, invitations and requests.  No statement stores  *)
(* a status other than these three.                                         *)
PartyRow == [status : {"none", "forming", "closed"}, leader : Users \cup {"none"},
             roster : Seq(Users), ready : SUBSET Users]

InviteRow == [status : {"none", "pending", "over"}, party : PartyIds \cup {"none"},
              inviter : Users \cup {"none"}, invitee : Users \cup {"none"}, due : BOOLEAN]

PartyCallRow == [pc : {"idle", "invite", "accept", "queue", "join"}, user : Users \cup {"none"},
                 party : PartyIds \cup {"none"}, other : Users \cup {"none"},
                 invite : Invites \cup {"none"}, roster : Seq(Users)]

PartyRows ==
    /\ FriendTypeOK
    /\ party \in [PartyIds -> PartyRow]
    /\ invite \in [Invites -> InviteRow]
    /\ partyCall \in [PartyCalls -> PartyCallRow]
    /\ ticket \in [PartyIds -> Seq(Users)]
    /\ match \in [PartyIds -> SUBSET Users]
    /\ vouched \in [Users -> SUBSET Users]

(* An invitation that may be accepted and a request under way name a party, *)
(* an invitation and users that exist.                                      *)
NamesInv ==
    /\ \A i \in Invites : invite[i].status = "pending" =>
          {invite[i].inviter, invite[i].invitee} \subseteq Users /\ invite[i].party \in PartyIds
    /\ \A c \in PartyCalls :
         LET req == partyCall[c] IN
         /\ req.pc # "idle" => req.user \in Users
         /\ req.pc = "invite" => req.other \in Users
         /\ req.pc = "accept" => req.invite \in Invites
         /\ req.pc \in {"invite", "queue", "join"} => req.party \in PartyIds

(* One party: nobody twice in it, no more than it holds, led by a member.   *)
SoundRoster(row) ==
    /\ Len(row.roster) <= PartyCapacity
    /\ IsInjective(row.roster)
    /\ row.status = "forming" => row.leader \in ToSet(row.roster)

(* Who is ready is a member, and was made ready for the roster as it is.    *)
ReadyInv ==
    \A p \in PartyIds : \A u \in party[p].ready :
        u \in ToSet(party[p].roster) /\ vouched[u] = ToSet(party[p].roster)

PartyInv == PartyRows /\ NamesInv /\ OnePartyEach /\ ReadyInv

LEMMA RostersSound ==
    OnePartyEach <=> /\ \A u \in Users : \A p, q \in PartyIds : Member(u, p) /\ Member(u, q) => p = q
                     /\ \A p \in PartyIds : SoundRoster(party[p])
BY DEF OnePartyEach, SoundRoster, Forming

LEMMA PartyBegins == PartyInit => PartyInv
<1>. SUFFICES ASSUME PartyInit PROVE PartyInv
  OBVIOUS
<1>1. ToSet(<<>>) = {} /\ <<>> \in Seq(Users) /\ Len(<<>>) = 0 /\ IsInjective(<<>>)
  BY DEF ToSet, IsInjective
<1>2. PartyRows
  BY <1>1, FriendAssumption DEF PartyInit, PartyRows, FriendTypeOK, Row, PartyRow, InviteRow, PartyCallRow,
            NoParty, NoInvite, NoCall
<1>3. NamesInv
  BY DEF PartyInit, NamesInv, NoInvite, NoCall
<1>4. OnePartyEach
  BY <1>1, PartyAssumption DEF PartyInit, OnePartyEach, Member, Forming, NoParty
<1>5. ReadyInv
  BY DEF PartyInit, ReadyInv, NoParty
<1>. QED  BY <1>2, <1>3, <1>4, <1>5 DEF PartyInv

(* The one way a roster is written: whoever is in it is in no other party,  *)
(* it is sound again, and nobody is ready.                                  *)
LEMMA RosterWritten ==
    ASSUME PartyInv, NEW p \in PartyIds, NEW row \in PartyRow,
           party' = [party EXCEPT ![p] = row], vouched' = vouched,
           row.ready = {}, SoundRoster(row),
           \A u \in ToSet(row.roster), q \in PartyIds : Member(u, q) => p = q
    PROVE  party' \in [PartyIds -> PartyRow] /\ OnePartyEach' /\ ReadyInv'
<1>1. party \in [PartyIds -> PartyRow] /\ party' \in [PartyIds -> PartyRow]
  BY DEF PartyInv, PartyRows
<1>2. \A q \in PartyIds : party'[q] = IF q = p THEN row ELSE party[q]
  BY <1>1
<1>3. \A q \in PartyIds : SoundRoster(party'[q])
  BY <1>2, RostersSound DEF PartyInv
<1>4. \A u \in Users : \A q, r \in PartyIds : Member(u, q)' /\ Member(u, r)' => q = r
  BY <1>2 DEF PartyInv, OnePartyEach, Member
<1>5. OnePartyEach'
  BY <1>3, <1>4 DEF OnePartyEach, SoundRoster, Forming
<1>6. ReadyInv'
  BY <1>2 DEF PartyInv, ReadyInv
<1>. QED  BY <1>1, <1>5, <1>6

(* The friend graph changes beside the parties.                             *)
LEMMA GraphMoves ==
    ASSUME FriendTypeOK, FriendNext
    PROVE  FriendTypeOK'
<1>1. \A u, v \in Users : u # v => PairOf(u, v) \in Pairs
  BY DEF Pairs, PairOf
<1>2. ASSUME NEW u \in Users, NEW v \in Users, u # v,
             NEW row \in [status : {"none", "pending", "accepted", "blocked"}, by : Users \cup {"none"}],
             SetPair(u, v, row)
      PROVE  FriendTypeOK'
  BY <1>1, <1>2, FriendAssumption DEF FriendTypeOK, SetPair
<1>3. PICK u \in Users, v \in Users : \/ Request(u, v) \/ Accept(u, v) \/ Decline(u, v)
                                      \/ Unfriend(u, v) \/ Block(u, v) \/ Unblock(u, v)
  BY DEF FriendNext
<1>. QED
  BY <1>2, <1>3 DEF Request, Accept, Decline, Unfriend, Block, Unblock, CreateRequest, AcceptRequest,
                    DeclineRequest, RemoveFriendship, BlockUser, UnblockUser, Row, NoRow

LEMMA CreatesParty ==
    ASSUME PartyInv, NEW u \in Users, NEW p \in PartyIds, CreateAs(u, p)
    PROVE  PartyInv'
<1>. DEFINE row == [status |-> "forming", leader |-> u, roster |-> <<u>>, ready |-> {}]
<1>1. /\ party[p].status = "none" /\ ~InParty(u)
      /\ party' = [party EXCEPT ![p] = row]
      /\ UNCHANGED <<pair, social, invite, partyCall, ticket, match, vouched>>
  BY DEF CreateAs, CreateParty
<1>2. <<u>> \in Seq(Users) /\ Len(<<u>>) = 1 /\ ToSet(<<u>>) = {u} /\ IsInjective(<<u>>)
  BY DEF ToSet, IsInjective
<1>3. row \in PartyRow /\ SoundRoster(row)
  BY <1>2, PartyAssumption DEF PartyRow, SoundRoster
<1>4. party' \in [PartyIds -> PartyRow] /\ OnePartyEach' /\ ReadyInv'
  <2>1. \A v \in ToSet(row.roster), q \in PartyIds : ~Member(v, q)
    BY <1>1, <1>2 DEF InParty
  <2>2. row.ready = {} /\ vouched' = vouched
    BY <1>1
  <2>. QED  BY <1>1, <1>3, <2>1, <2>2, RosterWritten
<1>. QED  BY <1>1, <1>4 DEF PartyInv, PartyRows, NamesInv, FriendTypeOK

LEMMA InviteMoves ==
    ASSUME PartyInv,
           \/ \E c \in PartyCalls : CreateInvite(c)
           \/ \E i \in Invites : InviteFallsDue(i) \/ DeclineAs(i)
           \/ \E v \in Users : ListInvites(v)
    PROVE  PartyInv'
<1>1. UNCHANGED <<pair, social, party, ticket, match, vouched>>
  BY DEF CreateInvite, InviteFallsDue, DeclineAs, DeclineInvite, ListInvites, ListPendingInvites
<1>2. invite \in [Invites -> InviteRow] /\ partyCall \in [PartyCalls -> PartyCallRow] /\ NamesInv
  BY DEF PartyInv, PartyRows
<1>3. invite' \in [Invites -> InviteRow] /\ partyCall' \in [PartyCalls -> PartyCallRow] /\ NamesInv'
  <2>1. ASSUME NEW c \in PartyCalls, CreateInvite(c)
        PROVE  invite' \in [Invites -> InviteRow] /\ partyCall' \in [PartyCalls -> PartyCallRow] /\ NamesInv'
    <3>1. /\ partyCall[c].user \in Users /\ partyCall[c].other \in Users /\ partyCall[c].party \in PartyIds
          /\ partyCall' = [partyCall EXCEPT ![c] = NoCall]
      BY <1>2, <2>1 DEF NamesInv, CreateInvite
    <3>2. partyCall' \in [PartyCalls -> PartyCallRow]
      BY <1>2, <3>1 DEF PartyCallRow, NoCall
    <3>3. CASE UNCHANGED invite
      BY <1>1, <1>2, <3>1, <3>2, <3>3 DEF NamesInv, NoCall
    <3>4. CASE invite' # invite
      <4>1. PICK i \in Invites :
               invite' = [invite EXCEPT ![i] = [status |-> "pending", party |-> partyCall[c].party,
                            inviter |-> partyCall[c].user, invitee |-> partyCall[c].other, due |-> FALSE]]
        BY <2>1, <3>4 DEF CreateInvite
      <4>2. invite' \in [Invites -> InviteRow]
        BY <1>2, <3>1, <4>1 DEF InviteRow
      <4>. QED  BY <1>1, <1>2, <3>1, <3>2, <4>1, <4>2 DEF NamesInv, NoCall
    <3>. QED  BY <3>3, <3>4
  <2>2. ASSUME NEW i \in Invites, InviteFallsDue(i)
        PROVE  invite' \in [Invites -> InviteRow] /\ partyCall' \in [PartyCalls -> PartyCallRow] /\ NamesInv'
    BY ZenonT(30), <1>2, <2>2 DEF InviteFallsDue, InviteRow, NamesInv
  <2>3. ASSUME NEW i \in Invites, DeclineAs(i)
        PROVE  invite' \in [Invites -> InviteRow] /\ partyCall' \in [PartyCalls -> PartyCallRow] /\ NamesInv'
    BY <1>2, <2>3 DEF DeclineAs, DeclineInvite, InviteRow, OverInvite, NoInvite, NamesInv
  <2>4. ASSUME NEW v \in Users, ListInvites(v)
        PROVE  invite' \in [Invites -> InviteRow] /\ partyCall' \in [PartyCalls -> PartyCallRow] /\ NamesInv'
    BY <1>2, <2>4 DEF ListInvites, ListPendingInvites, InviteRow, OverInvite, NoInvite, NamesInv
  <2>. QED  BY <2>1, <2>2, <2>3, <2>4
<1>. QED
  BY <1>1, <1>3 DEF PartyInv, PartyRows, FriendTypeOK, OnePartyEach, Member, Forming, ReadyInv

LEMMA Accepts ==
    ASSUME PartyInv, NEW c \in PartyCalls, AcceptInvite(c)
    PROVE  PartyInv'
<1>. DEFINE i == partyCall[c].invite
            u == partyCall[c].user
            p == invite[i].party
            row == NewRoster(p, Append(party[p].roster, u))
<1>1. /\ u \in Users /\ i \in Invites
      /\ partyCall' = [partyCall EXCEPT ![c] = NoCall]
      /\ UNCHANGED <<pair, social, ticket, match, vouched>>
  BY DEF AcceptInvite, PartyInv, NamesInv
<1>2. partyCall' \in [PartyCalls -> PartyCallRow]
  BY <1>1 DEF PartyInv, PartyRows, PartyCallRow, NoCall
<1>3. CASE UNCHANGED <<party, invite>>
  <2>1. NamesInv'
    BY <1>1, <1>2, <1>3 DEF PartyInv, PartyRows, NamesInv, NoCall
  <2>. QED
    BY <1>1, <1>2, <1>3, <2>1 DEF PartyInv, PartyRows, FriendTypeOK, OnePartyEach, Member, Forming, ReadyInv
<1>4. CASE ~UNCHANGED <<party, invite>>
  <2>1. /\ ~AcceptRefused(u, i)
        /\ party' = [party EXCEPT ![p] = row]
        /\ invite' = [invite EXCEPT ![i] = OverInvite]
    BY <1>4 DEF AcceptInvite
  <2>2. /\ invite[i].status = "pending" /\ p \in PartyIds /\ Forming(p)
        /\ Len(party[p].roster) < PartyCapacity /\ ~InParty(u)
        /\ party[p] \in PartyRow /\ SoundRoster(party[p])
    <3>1. invite[i].status = "pending" /\ Forming(p) /\ ~InParty(u) /\ ~(Len(party[p].roster) >= PartyCapacity)
      BY <2>1 DEF AcceptRefused
    <3>2. p \in PartyIds
      BY <1>1, <3>1 DEF PartyInv, NamesInv
    <3>3. party[p] \in PartyRow /\ SoundRoster(party[p])
      BY <3>2, RostersSound DEF PartyInv, PartyRows
    <3>. QED  BY SMTT(30), <3>1, <3>2, <3>3, PartyAssumption DEF PartyRow
  <2>3. u \notin ToSet(party[p].roster)
    BY <2>2 DEF InParty, Member
  <2>4. /\ Append(party[p].roster, u) \in Seq(Users)
        /\ IsInjective(Append(party[p].roster, u))
        /\ Len(Append(party[p].roster, u)) = Len(party[p].roster) + 1
        /\ ToSet(Append(party[p].roster, u)) = ToSet(party[p].roster) \cup {u}
    <3>1. party[p].roster \in Seq(Users) /\ IsInjective(party[p].roster)
      BY <2>2 DEF PartyRow, SoundRoster
    <3>. QED  BY <1>1, <2>3, <3>1, Joined
  <2>5. /\ row.ready = {} /\ row.roster = Append(party[p].roster, u)
        /\ row.leader = party[p].leader /\ row.status = "forming" /\ row \in PartyRow
    BY <2>2, <2>4 DEF NewRoster, PartyRow, Forming
  <2>6. SoundRoster(row)
    <3>1. Len(party[p].roster) \in Nat
      BY SMTT(30), <2>2 DEF PartyRow
    <3>2. party[p].leader \in ToSet(party[p].roster)
      BY <2>2 DEF SoundRoster, Forming
    <3>. HIDE DEF row, p
    <3>. QED  BY <2>2, <2>4, <2>5, <3>1, <3>2, PartyAssumption DEF SoundRoster
  <2>7. \A v \in ToSet(row.roster), q \in PartyIds : Member(v, q) => p = q
    <3>1. \A v \in ToSet(party[p].roster) : v \in Users /\ Member(v, p)
      BY <2>2, MembersAreUsers DEF Member, PartyRow
    <3>2. \A v \in ToSet(party[p].roster), q \in PartyIds : Member(v, q) => p = q
      BY <2>2, <3>1 DEF PartyInv, OnePartyEach
    <3>. QED  BY <2>2, <2>4, <2>5, <3>2 DEF InParty
  <2>8. party' \in [PartyIds -> PartyRow] /\ OnePartyEach' /\ ReadyInv'
    <3>. HIDE DEF row, p
    <3>. QED  BY <1>1, <2>1, <2>2, <2>5, <2>6, <2>7, RosterWritten
  <2>9. invite' \in [Invites -> InviteRow] /\ NamesInv'
    BY <1>1, <1>2, <2>1 DEF PartyInv, PartyRows, InviteRow, OverInvite, NoInvite, NamesInv, NoCall
  <2>. QED  BY <1>1, <1>2, <2>8, <2>9 DEF PartyInv, PartyRows, FriendTypeOK
<1>. QED  BY <1>3, <1>4

LEMMA ReadinessMoves ==
    ASSUME PartyInv, NEW u \in Users, NEW p \in PartyIds, ReadyAs(u, p)
    PROVE  PartyInv'
<1>1. /\ Member(u, p)
      /\ UNCHANGED <<pair, social, invite, partyCall, ticket, match>>
      /\ PartyRows /\ NamesInv /\ OnePartyEach /\ ReadyInv
  BY DEF ReadyAs, SetReadiness, PartyInv
<1>2. /\ party[p] \in PartyRow /\ party[p].roster \in Seq(Users)
      /\ ToSet(party[p].roster) \subseteq Users
  BY <1>1, MembersAreUsers DEF PartyRows, PartyRow
<1>3. PICK ready \in SUBSET Users :
         /\ party' = [party EXCEPT ![p].ready = ready]
         /\ \/ ready = party[p].ready \ {u} /\ vouched' = [vouched EXCEPT ![u] = {}]
            \/ /\ ready = party[p].ready \cup {u}
               /\ vouched' = [vouched EXCEPT ![u] = ToSet(party[p].roster)]
  <2>1. party[p].ready \in SUBSET Users
    BY <1>2 DEF PartyRow
  <2>. QED  BY <2>1 DEF ReadyAs, SetReadiness
<1>4. /\ party' \in [PartyIds -> PartyRow] /\ vouched' \in [Users -> SUBSET Users]
      /\ \A v \in Users : v # u => vouched'[v] = vouched[v]
      /\ \A q \in PartyIds : q # p => party'[q] = party[q]
      /\ party'[p].roster = party[p].roster /\ party'[p].leader = party[p].leader
      /\ party'[p].status = party[p].status /\ party'[p].ready = ready
  <2>1. [party[p] EXCEPT !.ready = ready] \in PartyRow
    BY <1>2 DEF PartyRow
  <2>2. party' = [party EXCEPT ![p] = [party[p] EXCEPT !.ready = ready]]
    BY <1>3
  <2>3. party' \in [PartyIds -> PartyRow]
    BY <1>1, <2>1, <2>2 DEF PartyRows
  <2>4. vouched' \in [Users -> SUBSET Users]
    BY <1>1, <1>2, <1>3 DEF PartyRows
  <2>5. \A v \in Users : v # u => vouched'[v] = vouched[v]
    BY <1>1, <1>3 DEF PartyRows
  <2>6. party'[p] = [party[p] EXCEPT !.ready = ready] /\ \A q \in PartyIds : q # p => party'[q] = party[q]
    BY <1>1, <2>2 DEF PartyRows
  <2>. QED  BY <1>2, <2>3, <2>4, <2>5, <2>6 DEF PartyRow
<1>5. \A q \in PartyIds : /\ party'[q].roster = party[q].roster /\ party'[q].leader = party[q].leader
                          /\ party'[q].status = party[q].status
  BY <1>4
<1>6. OnePartyEach'
  BY <1>1, <1>5 DEF OnePartyEach, Member, Forming
<1>7. ReadyInv'
  <2>1. ASSUME NEW q \in PartyIds, q # p, NEW v \in party[q].ready PROVE v # u /\ v \in Users
    <3>1. v \in ToSet(party[q].roster) /\ v \in Users
      BY <1>1, <2>1 DEF ReadyInv, PartyRows, PartyRow
    <3>. QED  BY <1>1, <2>1, <3>1 DEF OnePartyEach, Member
  <2>2. ASSUME NEW v \in ready
        PROVE  v \in ToSet(party[p].roster) /\ vouched'[v] = ToSet(party[p].roster)
    BY <1>1, <1>3, <2>2 DEF ReadyInv, Member, PartyRows
  <2>. QED  BY <1>1, <1>4, <1>5, <2>1, <2>2 DEF ReadyInv
<1>. QED  BY <1>1, <1>4, <1>6, <1>7 DEF PartyInv, PartyRows, FriendTypeOK, NamesInv

(* A party that is left, or loses a member, keeps a leader of its own.      *)
LEMMA Remains ==
    ASSUME PartyInv, NEW p \in PartyIds, NEW u, Member(u, p)
    PROVE  /\ Without(party[p].roster, u) \in Seq(Users)
           /\ IsInjective(Without(party[p].roster, u))
           /\ Len(Without(party[p].roster, u)) <= PartyCapacity
           /\ ToSet(Without(party[p].roster, u)) = ToSet(party[p].roster) \ {u}
           /\ \A v \in ToSet(Without(party[p].roster, u)), q \in PartyIds : Member(v, q) => p = q
<1>1. party[p].roster \in Seq(Users) /\ SoundRoster(party[p])
  BY RostersSound DEF PartyInv, PartyRows, PartyRow
<1>2. u \in ToSet(party[p].roster)
  BY DEF Member
<1>3. /\ Without(party[p].roster, u) \in Seq(Users)
      /\ IsInjective(Without(party[p].roster, u))
      /\ Len(Without(party[p].roster, u)) = Len(party[p].roster) - 1
      /\ ToSet(Without(party[p].roster, u)) = ToSet(party[p].roster) \ {u}
  BY <1>1, <1>2, Left DEF SoundRoster
<1>4. Len(Without(party[p].roster, u)) <= PartyCapacity
  <2>1. Len(party[p].roster) \in Nat /\ Len(party[p].roster) <= PartyCapacity
    BY <1>1 DEF SoundRoster
  <2>. QED  BY <1>3, <2>1, PartyAssumption
<1>5. \A v \in ToSet(party[p].roster) : v \in Users /\ Member(v, p)
  BY <1>1, MembersAreUsers DEF Member
<1>. QED  BY <1>3, <1>4, <1>5 DEF PartyInv, OnePartyEach

LEMMA ClosedIsSound ==
    ASSUME NEW p
    PROVE  Closed(p) \in PartyRow /\ SoundRoster(Closed(p)) /\ Closed(p).ready = {} /\ ToSet(Closed(p).roster) = {}
<1>1. ToSet(<<>>) = {} /\ <<>> \in Seq(Users) /\ Len(<<>>) = 0 /\ IsInjective(<<>>)
  BY DEF ToSet, IsInjective
<1>2. Closed(p) = [status |-> "closed", leader |-> "none", roster |-> <<>>, ready |-> {}]
  BY DEF Closed, NoParty
<1>. QED  BY <1>1, <1>2, PartyAssumption DEF PartyRow, SoundRoster

LEMMA Leaves ==
    ASSUME PartyInv, NEW u \in Users, NEW p \in PartyIds, LeaveAs(u, p)
    PROVE  PartyInv'
<1>. DEFINE rest == Without(party[p].roster, u)
            row == IF rest = <<>> THEN Closed(p) ELSE [NewRoster(p, rest) EXCEPT !.leader = LedBy(p, rest)]
<1>1. /\ Member(u, p) /\ Forming(p)
      /\ party' = [party EXCEPT ![p] = row]
      /\ UNCHANGED <<pair, social, invite, partyCall, ticket, match, vouched>>
  BY DEF LeaveAs, LeaveParty
<1>2. /\ rest \in Seq(Users) /\ IsInjective(rest) /\ Len(rest) <= PartyCapacity
      /\ ToSet(rest) = ToSet(party[p].roster) \ {u}
      /\ \A v \in ToSet(rest), q \in PartyIds : Member(v, q) => p = q
  BY <1>1, Remains
<1>3. /\ row \in PartyRow /\ SoundRoster(row) /\ row.ready = {}
      /\ ToSet(row.roster) \subseteq ToSet(rest)
  <2>1. CASE rest = <<>>
    BY <2>1, ClosedIsSound
  <2>2. CASE rest # <<>>
    <3>1. party[p] \in PartyRow
      BY DEF PartyInv, PartyRows
    <3>2. Head(rest) \in ToSet(rest) /\ ToSet(rest) \subseteq Users
      BY <1>2, <2>2, MembersAreUsers DEF ToSet
    <3>3. LedBy(p, rest) \in ToSet(rest)
      BY <3>2 DEF LedBy
    <3>. HIDE DEF rest
    <3>4. /\ row \in PartyRow /\ row.roster = rest /\ row.ready = {} /\ row.leader \in ToSet(rest)
      BY <1>2, <2>2, <3>1, <3>2, <3>3 DEF NewRoster, PartyRow
    <3>. QED  BY <1>2, <3>4 DEF SoundRoster
  <2>. QED  BY <2>1, <2>2
<1>4. party' \in [PartyIds -> PartyRow] /\ OnePartyEach' /\ ReadyInv'
  <2>1. \A v \in ToSet(row.roster), q \in PartyIds : Member(v, q) => p = q
    BY <1>2, <1>3
  <2>. HIDE DEF row
  <2>. QED  BY <1>1, <1>3, <2>1, RosterWritten
<1>. QED  BY <1>1, <1>4 DEF PartyInv, PartyRows, NamesInv, FriendTypeOK

(* Invitations of a party are taken back.                                   *)
LEMMA InvitesTakenBack ==
    ASSUME PartyInv, NEW taken \in SUBSET Invites,
           invite' = [i \in Invites |-> IF i \in taken THEN OverInvite ELSE invite[i]],
           UNCHANGED partyCall
    PROVE  invite' \in [Invites -> InviteRow] /\ NamesInv'
BY DEF PartyInv, PartyRows, NamesInv, InviteRow, OverInvite, NoInvite

LEMMA Kicks ==
    ASSUME PartyInv, NEW l \in Users, NEW p \in PartyIds, NEW u \in Users, KickAs(l, p, u)
    PROVE  PartyInv'
<1>. DEFINE rest == Without(party[p].roster, u)
            row == NewRoster(p, rest)
            taken == {i \in Invites : invite[i].status = "pending" /\ invite[i].party = p /\ invite[i].invitee = u}
<1>1. /\ Member(u, p) /\ Forming(p) /\ party[p].leader = l /\ l # u
      /\ party' = [party EXCEPT ![p] = row]
      /\ invite' = [i \in Invites |-> IF i \in taken THEN OverInvite ELSE invite[i]]
      /\ UNCHANGED <<pair, social, partyCall, ticket, match, vouched>>
  BY DEF KickAs, KickMember
<1>2. /\ rest \in Seq(Users) /\ IsInjective(rest) /\ Len(rest) <= PartyCapacity
      /\ ToSet(rest) = ToSet(party[p].roster) \ {u}
      /\ \A v \in ToSet(rest), q \in PartyIds : Member(v, q) => p = q
  BY <1>1, Remains
<1>3. row \in PartyRow /\ SoundRoster(row) /\ row.ready = {} /\ row.roster = rest
  <2>1. party[p] \in PartyRow /\ party[p].leader \in ToSet(party[p].roster)
    BY <1>1 DEF PartyInv, PartyRows, OnePartyEach
  <2>. HIDE DEF rest
  <2>2. /\ row \in PartyRow /\ row.roster = rest /\ row.ready = {} /\ row.leader = party[p].leader
    BY <1>2, <2>1 DEF NewRoster, PartyRow
  <2>. QED  BY <1>1, <1>2, <2>1, <2>2 DEF SoundRoster
<1>4. party' \in [PartyIds -> PartyRow] /\ OnePartyEach' /\ ReadyInv'
  <2>1. \A v \in ToSet(row.roster), q \in PartyIds : Member(v, q) => p = q
    BY <1>2, <1>3
  <2>. HIDE DEF row
  <2>. QED  BY <1>1, <1>3, <2>1, RosterWritten
<1>5. invite' \in [Invites -> InviteRow] /\ NamesInv'
  BY <1>1, InvitesTakenBack
<1>. QED  BY <1>1, <1>4, <1>5 DEF PartyInv, PartyRows, FriendTypeOK

LEMMA Disbands ==
    ASSUME PartyInv, NEW l \in Users, NEW p \in PartyIds, DisbandAs(l, p)
    PROVE  PartyInv'
<1>. DEFINE taken == {i \in Invites : invite[i].status = "pending" /\ invite[i].party = p}
<1>1. /\ party' = [party EXCEPT ![p] = Closed(p)]
      /\ invite' = [i \in Invites |-> IF i \in taken THEN OverInvite ELSE invite[i]]
      /\ UNCHANGED <<pair, social, partyCall, ticket, match, vouched>>
  BY DEF DisbandAs, DisbandParty
<1>2. party' \in [PartyIds -> PartyRow] /\ OnePartyEach' /\ ReadyInv'
  BY <1>1, ClosedIsSound, RosterWritten
<1>3. invite' \in [Invites -> InviteRow] /\ NamesInv'
  BY <1>1, InvitesTakenBack
<1>. QED  BY <1>1, <1>2, <1>3 DEF PartyInv, PartyRows, FriendTypeOK

(* A request reads, and goes on or gives up.                                *)
LEMMA CallMoves ==
    ASSUME PartyInv, NEW c \in PartyCalls, NEW req \in PartyCallRow,
           partyCall' = [partyCall EXCEPT ![c] = req],
           UNCHANGED <<pair, social, party, invite, ticket, match, vouched>>,
           req.pc # "idle" => req.user \in Users,
           req.pc = "invite" => req.other \in Users,
           req.pc = "accept" => req.invite \in Invites,
           req.pc \in {"invite", "queue", "join"} => req.party \in PartyIds
    PROVE  PartyInv'
<1>1. partyCall' \in [PartyCalls -> PartyCallRow] /\ NamesInv'
  BY DEF PartyInv, PartyRows, NamesInv
<1>. QED
  BY <1>1 DEF PartyInv, PartyRows, FriendTypeOK, OnePartyEach, Member, Forming, ReadyInv

LEMMA IdleCall == NoCall \in PartyCallRow /\ NoCall.pc = "idle"
BY EmptySeq DEF NoCall, PartyCallRow

LEMMA Reads ==
    ASSUME PartyInv, NEW c \in PartyCalls,
           \/ \E u \in Users : \E p \in PartyIds : \/ StartQueue(c, u, p)
                                                   \/ \E v \in Users : StartInvite(c, u, p, v)
           \/ \E i \in Invites : StartAccept(c, i)
           \/ ReadyPartyForQueue(c)
    PROVE  PartyInv'
<1>1. ASSUME NEW u \in Users, NEW p \in PartyIds, StartQueue(c, u, p) PROVE PartyInv'
  <2>. DEFINE req == [NoCall EXCEPT !.pc = "queue", !.user = u, !.party = p]
  <2>1. req \in PartyCallRow /\ req.pc = "queue" /\ req.user = u /\ req.party = p
    BY EmptySeq DEF NoCall, PartyCallRow
  <2>2. /\ partyCall' = [partyCall EXCEPT ![c] = req]
        /\ UNCHANGED <<pair, social, party, invite, ticket, match, vouched>>
    BY <1>1 DEF StartQueue
  <2>. HIDE DEF req
  <2>. QED  BY <2>1, <2>2, CallMoves
<1>2. ASSUME NEW u \in Users, NEW p \in PartyIds, NEW v \in Users, StartInvite(c, u, p, v) PROVE PartyInv'
  <2>. DEFINE req == [NoCall EXCEPT !.pc = "invite", !.user = u, !.party = p, !.other = v]
  <2>1. /\ req \in PartyCallRow /\ req.pc = "invite" /\ req.user = u /\ req.party = p /\ req.other = v
    BY EmptySeq DEF NoCall, PartyCallRow
  <2>2. /\ partyCall' = [partyCall EXCEPT ![c] = req]
        /\ UNCHANGED <<pair, social, party, invite, ticket, match, vouched>>
    BY <1>2 DEF StartInvite
  <2>. HIDE DEF req
  <2>. QED  BY <2>1, <2>2, CallMoves
<1>3. ASSUME NEW i \in Invites, StartAccept(c, i) PROVE PartyInv'
  <2>. DEFINE req == [NoCall EXCEPT !.pc = "accept", !.user = invite[i].invitee, !.invite = i]
  <2>1. invite[i].invitee \in Users
    BY <1>3 DEF StartAccept, PartyInv, NamesInv
  <2>2. req \in PartyCallRow /\ req.pc = "accept" /\ req.user \in Users /\ req.invite = i
    BY <2>1, EmptySeq DEF NoCall, PartyCallRow
  <2>3. /\ partyCall' = [partyCall EXCEPT ![c] = req]
        /\ UNCHANGED <<pair, social, party, invite, ticket, match, vouched>>
    BY <1>3 DEF StartAccept
  <2>. HIDE DEF req
  <2>. QED  BY <2>2, <2>3, CallMoves
<1>4. CASE ReadyPartyForQueue(c)
  <2>1. /\ partyCall[c] \in PartyCallRow /\ partyCall[c].user \in Users /\ partyCall[c].party \in PartyIds
        /\ party[partyCall[c].party].roster \in Seq(Users)
    BY <1>4 DEF ReadyPartyForQueue, PartyInv, NamesInv, PartyRows, PartyRow
  <2>2. PICK req : /\ req \in {[partyCall[c] EXCEPT !.pc = "join", !.roster = party[partyCall[c].party].roster],
                                 NoCall}
                    /\ partyCall' = [partyCall EXCEPT ![c] = req]
                    /\ UNCHANGED <<pair, social, party, invite, ticket, match, vouched>>
    BY <1>4 DEF ReadyPartyForQueue
  <2>3. CASE req = NoCall
    BY <2>2, <2>3, IdleCall, CallMoves
  <2>4. CASE req = [partyCall[c] EXCEPT !.pc = "join", !.roster = party[partyCall[c].party].roster]
    <3>1. /\ req \in PartyCallRow /\ req.pc = "join" /\ req.user \in Users /\ req.party \in PartyIds
      BY <2>1, <2>4 DEF PartyCallRow
    <3>. QED  BY <2>2, <3>1, CallMoves
  <2>. QED  BY <2>2, <2>3, <2>4
<1>. QED  BY <1>1, <1>2, <1>3, <1>4

(* The queue and the matches formed from it write no party.                 *)
LEMMA QueueMoves ==
    ASSUME PartyInv,
           \/ \E c \in PartyCalls : JoinTicket(c)
           \/ \E p \in PartyIds : DropTicket(p) \/ FormMatch(p) \/ EndMatch(p)
    PROVE  PartyInv'
<1>1. <<>> \in Seq(Users)
  OBVIOUS
<1>2. ASSUME NEW c \in PartyCalls, JoinTicket(c) PROVE PartyInv'
  <2>1. partyCall[c].roster \in Seq(Users) /\ partyCall[c].party \in PartyIds
    BY <1>2 DEF JoinTicket, PartyInv, PartyRows, PartyCallRow, NamesInv
  <2>2. ticket' \in [PartyIds -> Seq(Users)]
    BY <1>2, <2>1 DEF JoinTicket, PartyInv, PartyRows
  <2>3. partyCall' \in [PartyCalls -> PartyCallRow] /\ NamesInv'
    BY <1>2, IdleCall DEF JoinTicket, PartyInv, PartyRows, NamesInv
  <2>4. UNCHANGED <<pair, social, party, invite, match, vouched>>
    BY <1>2 DEF JoinTicket
  <2>. QED
    BY <2>2, <2>3, <2>4 DEF PartyInv, PartyRows, FriendTypeOK, OnePartyEach, Member, Forming, ReadyInv
<1>3. ASSUME NEW p \in PartyIds, DropTicket(p) \/ FormMatch(p) PROVE PartyInv'
  <2>1. UNCHANGED <<pair, social, party, invite, partyCall, vouched>>
    BY <1>3 DEF DropTicket, FormMatch
  <2>2. ticket' \in [PartyIds -> Seq(Users)]
    BY <1>1, <1>3 DEF DropTicket, FormMatch, PartyInv, PartyRows
  <2>3. match' \in [PartyIds -> SUBSET Users]
    <3>1. ToSet(ticket[p]) \subseteq Users
      BY MembersAreUsers DEF PartyInv, PartyRows
    <3>. QED  BY <1>3, <3>1 DEF DropTicket, FormMatch, PartyInv, PartyRows
  <2>. QED
    BY <2>1, <2>2, <2>3 DEF PartyInv, PartyRows, NamesInv, FriendTypeOK, OnePartyEach, Member, Forming, ReadyInv
<1>4. ASSUME NEW p \in PartyIds, EndMatch(p) PROVE PartyInv'
  <2>1. party \in [PartyIds -> PartyRow] /\ Restored(p) = party[p]
    BY DEF PartyInv, PartyRows, PartyRow, Restored
  <2>2. party' = party /\ match' \in [PartyIds -> SUBSET Users]
    BY <1>4, <2>1 DEF EndMatch, PartyInv, PartyRows
  <2>3. UNCHANGED <<pair, social, invite, partyCall, ticket, vouched>>
    BY <1>4 DEF EndMatch
  <2>. QED
    BY <2>2, <2>3 DEF PartyInv, PartyRows, NamesInv, FriendTypeOK, OnePartyEach, Member, Forming, ReadyInv
<1>. QED  BY <1>2, <1>3, <1>4

LEMMA PartyStep == PartyInv /\ [PartyNext]_partyVars => PartyInv'
<1>. SUFFICES ASSUME PartyInv, [PartyNext]_partyVars PROVE PartyInv'
  OBVIOUS
<1>1. CASE UNCHANGED partyVars
  BY <1>1 DEF partyVars, PartyInv, PartyRows, NamesInv, FriendTypeOK, OnePartyEach, Member, Forming, ReadyInv
<1>2. CASE FriendNext /\ UNCHANGED <<party, invite, partyCall, ticket, match, vouched>>
  <2>1. FriendTypeOK'
    BY <1>2, GraphMoves DEF PartyInv, PartyRows
  <2>. QED
    BY <1>2, <2>1 DEF PartyInv, PartyRows, NamesInv, OnePartyEach, Member, Forming, ReadyInv
<1>3. ASSUME NEW u \in Users, NEW p \in PartyIds,
             \/ CreateAs(u, p) \/ ReadyAs(u, p) \/ LeaveAs(u, p) \/ DisbandAs(u, p)
             \/ \E v \in Users : KickAs(u, p, v)
      PROVE  PartyInv'
  BY <1>3, CreatesParty, ReadinessMoves, Leaves, Disbands, Kicks
<1>. QED
  BY <1>1, <1>2, <1>3, InviteMoves, Accepts, Reads, QueueMoves DEF PartyNext

(* The inductive invariant of the parties.                                  *)
THEOREM PartyInvariant == PartySpec => []PartyInv
<1>. QED  BY PartyBegins, PartyStep, PTL DEF PartySpec

(* Whatever is accepted, left, kicked or disbanded at one time, for any     *)
(* number of users and parties of any capacity: OnePartyEach.               *)
THEOREM EveryoneInOneParty == PartySpec => []OnePartyEach
<1>1. PartyInv => OnePartyEach
  BY DEF PartyInv
<1>. QED  BY <1>1, PartyInvariant, PTL

(* What goes to the queue is what everybody in it agreed to: readiness is   *)
(* of the roster as it was, and any change of the roster takes it away.     *)
THEOREM NobodyQueuedUnasked == PartySpec => QueuedByConsent
<1>. DEFINE Asked == \A c \in PartyCalls : partyCall'[c].pc = "join" /\ partyCall[c].pc # "join" =>
                        \A u \in ToSet(partyCall'[c].roster) : vouched[u] = ToSet(partyCall'[c].roster)
<1>1. ASSUME PartyInv, NEW c \in PartyCalls, NEW d \in PartyCalls, ReadyPartyForQueue(d),
             partyCall'[c].pc = "join", partyCall[c].pc # "join", NEW u \in ToSet(partyCall'[c].roster)
      PROVE  vouched[u] = ToSet(partyCall'[c].roster)
  <2>1. PICK p \in PartyIds : p = partyCall[d].party
    BY <1>1 DEF ReadyPartyForQueue, PartyInv, NamesInv
  <2>2. c = d /\ partyCall'[c].roster = party[p].roster /\ QueueReady(p)
    BY <1>1, <2>1, IdleCall DEF ReadyPartyForQueue, PartyInv, PartyRows, PartyCallRow
  <2>3. u \in party[p].ready
    BY <1>1, <2>2 DEF QueueReady
  <2>. QED  BY <1>1, <2>2, <2>3 DEF PartyInv, ReadyInv
<1>2. ASSUME PartyInv, NEW d \in PartyCalls, ~ReadyPartyForQueue(d), NEW c \in PartyCalls, 
             \/ \E u \in Users : \E p \in PartyIds : \/ StartQueue(d, u, p)
                                                     \/ \E v \in Users : StartInvite(d, u, p, v)
             \/ \E i \in Invites : StartAccept(d, i)
             \/ CreateInvite(d) \/ AcceptInvite(d) \/ JoinTicket(d),
             partyCall'[c].pc = "join"
      PROVE  partyCall[c].pc = "join"
  <2>1. PICK req : partyCall' = [partyCall EXCEPT ![d] = req] /\ req.pc # "join"
    <3>. DEFINE Elsewhere == \E req : partyCall' = [partyCall EXCEPT ![d] = req] /\ req.pc # "join"
    <3>1. ASSUME CreateInvite(d) \/ AcceptInvite(d) \/ JoinTicket(d) PROVE Elsewhere
      <4>1. partyCall' = [partyCall EXCEPT ![d] = NoCall] /\ NoCall.pc # "join"
        BY <3>1, IdleCall DEF CreateInvite, AcceptInvite, JoinTicket
      <4>. QED  BY <4>1
    <3>2. ASSUME NEW u \in Users, NEW p \in PartyIds, StartQueue(d, u, p) PROVE Elsewhere
      <4>1. PICK req : req = [NoCall EXCEPT !.pc = "queue", !.user = u, !.party = p]
        OBVIOUS
      <4>2. partyCall' = [partyCall EXCEPT ![d] = req] /\ req.pc # "join"
        BY <3>2, <4>1 DEF StartQueue, NoCall
      <4>. QED  BY <4>2
    <3>3. ASSUME NEW u \in Users, NEW p \in PartyIds, NEW v \in Users, StartInvite(d, u, p, v)
          PROVE  Elsewhere
      <4>1. PICK req : req = [NoCall EXCEPT !.pc = "invite", !.user = u, !.party = p, !.other = v]
        OBVIOUS
      <4>2. partyCall' = [partyCall EXCEPT ![d] = req] /\ req.pc # "join"
        BY <3>3, <4>1 DEF StartInvite, NoCall
      <4>. QED  BY <4>2
    <3>4. ASSUME NEW i \in Invites, StartAccept(d, i) PROVE Elsewhere
      <4>1. PICK req : req = [NoCall EXCEPT !.pc = "accept", !.user = invite[i].invitee, !.invite = i]
        OBVIOUS
      <4>2. partyCall' = [partyCall EXCEPT ![d] = req] /\ req.pc # "join"
        BY <3>4, <4>1 DEF StartAccept, NoCall
      <4>. QED  BY <4>2
    <3>. QED  BY <1>2, <3>1, <3>2, <3>3, <3>4
  <2>. QED  BY <1>2, <2>1 DEF PartyInv, PartyRows
<1>3. PartyInv /\ [PartyNext]_partyVars => [Asked]_partyVars
  <2>. SUFFICES ASSUME PartyInv, PartyNext PROVE Asked
    BY DEF partyVars
  <2>1. CASE UNCHANGED partyCall
    BY <2>1
  <2>2. ASSUME NEW d \in PartyCalls,
               \/ \E u \in Users : \E p \in PartyIds : \/ StartQueue(d, u, p)
                                                       \/ \E v \in Users : StartInvite(d, u, p, v)
               \/ \E i \in Invites : StartAccept(d, i)
               \/ CreateInvite(d) \/ AcceptInvite(d) \/ ReadyPartyForQueue(d) \/ JoinTicket(d)
        PROVE  Asked
    BY <1>1, <1>2, <2>2
  <2>3. CASE \/ \E u \in Users : ListInvites(u)
             \/ \E u \in Users : \E p \in PartyIds :
                  \/ CreateAs(u, p) \/ ReadyAs(u, p) \/ LeaveAs(u, p) \/ DisbandAs(u, p)
                  \/ \E v \in Users : KickAs(u, p, v)
             \/ \E i \in Invites : InviteFallsDue(i) \/ DeclineAs(i)
             \/ \E p \in PartyIds : DropTicket(p) \/ FormMatch(p) \/ EndMatch(p)
    <3>1. UNCHANGED partyCall
      BY <2>3 DEF ListInvites, ListPendingInvites, CreateAs, CreateParty, ReadyAs, SetReadiness, LeaveAs, LeaveParty,
                  DisbandAs, DisbandParty, KickAs, KickMember, InviteFallsDue, DeclineAs, DeclineInvite,
                  DropTicket, FormMatch, EndMatch
    <3>. QED  BY <2>1, <3>1
  <2>. QED  BY <2>1, <2>2, <2>3 DEF PartyNext
<1>. QED  BY <1>3, PartyInvariant, PTL DEF PartySpec, QueuedByConsent

-----------------------------------------------------------------------------
(* Private rooms.                                                           *)

-----------------------------------------------------------------------------
(* Rooms.                                                                   *)

(* The game of the room: waiting for its start with nothing played, played  *)
(* with one round open, or played out.                                      *)
LobbyInv ==
    /\ Summed(lobby)
    /\ lobby.status \in {"pending", "active", "completed"}
    /\ lobby.status = "pending" => ActiveRounds(lobby) = {}
    /\ lobby.status = "active" => \E n \in 1..Rounds : ActiveRounds(lobby) = {n}

(* A guess ends the game g, or a deadline does: no round is left to open.   *)
EndsGame(r, g) ==
    /\ g.status = "active" /\ PendingRounds(g) = {}
    /\ r.op = "guess" =>
         /\ g.round[r.arg] = "active" /\ r.who \notin Submitted(g, r.arg)
         /\ AllSubmitted(InsertGuess(g, r.arg, r.who, 1), r.arg)

(* A player may join the members m, of max at most.                         *)
MayJoin(p, m, max) == m[p] = "none" /\ Cardinality({q \in Players : m[q] = "joined"}) < max

(* What a call is about, what it holds, and what it has found under the     *)
(* lock it holds, which is still so of the members m and the game g.        *)
SoundCall(r, m, max, g) ==
    /\ r.op \in {"join", "kick", "guess"} /\ r.pc # "publish" => r.who \in Players
    /\ r.op = "kick" => r.who # Host
    /\ r.op = "guess" /\ r.pc # "publish" => r.arg \in 1..Rounds
    /\ r.op = "settings" => r.arg \in Capacities
    /\ r.pc = "room" => r.op \in {"join", "kick", "settings"}
    /\ r.pc = "game" => r.op \in {"start", "guess", "close", "poll"}
    /\ r.pc = "finish" /\ r.op \in {"join", "settings"} => r.holds = {"room"}
    /\ r.pc = "finish" /\ r.op \notin {"join", "settings"} =>
         r.op \in {"start", "guess", "close"} /\ r.holds = {"game"}
    /\ r.pc # "finish" => r.holds = {}
    /\ r.pc = "finish" /\ r.op = "join" => MayJoin(r.who, m, max)
    /\ r.pc = "finish" /\ r.op = "start" => g.status = "pending"
    /\ r.pc = "finish" /\ r.op \in {"guess", "close"} => EndsGame(r, g)
    /\ r.pc = "publish" /\ r.arg = GameOver => g.status = "completed"

CallsInv == \A c \in Calls : SoundCall(call[c], member, room.max, lobby)

RowsHeldOnce == \A c, d \in Calls : c # d => call[c].holds \cap call[d].holds = {}

RoomInv == RoomTypeOK /\ LobbyInv /\ CallsInv /\ RowsHeldOnce /\ RoomFollowsGame

LEMMA OnlyRound == ASSUME NEW n \in Nat PROVE Min({n}) = n
BY DEF Min

LEMMA OpenRound ==
    ASSUME NEW n \in 1..Rounds, ActiveRounds(lobby) = {n}
    PROVE  CurrentRound(lobby) = n /\ lobby.round[n] = "active"
<1>1. n \in Nat
  BY RoundsAssumption
<1>2. Min(ActiveRounds(lobby)) = n
  BY <1>1, OnlyRound
<1>. QED  BY <1>2 DEF CurrentRound, ActiveRounds

LEMMA RoomBegins == RoomInit => RoomInv
<1>. SUFFICES ASSUME RoomInit PROVE RoomInv
  OBVIOUS
<1>. DEFINE g == NewGame({Host}, "open")
<1>1. g \in Games /\ Summed(g)
  BY HostAssumption, NewGameFacts
<1>2. lobby = [g EXCEPT !.status = "pending", !.round = [r \in 1..Rounds |-> "pending"]]
  BY DEF RoomInit
<1>. HIDE DEF g
<1>3. /\ lobby \in Games /\ lobby.status = "pending" /\ lobby.round = [r \in 1..Rounds |-> "pending"]
      /\ lobby.guess = g.guess /\ lobby.total = g.total
  BY <1>1, <1>2 DEF Games, GameStatuses, RoundStatuses
<1>4. LobbyInv
  BY <1>1, <1>3 DEF LobbyInv, Summed, ScoredBy, ActiveRounds
<1>5. RoomTypeOK
  BY <1>3, CapacitiesAssumption, RoomFaultsAssumption DEF RoomInit, RoomTypeOK, NoRoomCall, RoomCall
<1>6. CallsInv /\ RowsHeldOnce
  BY DEF RoomInit, CallsInv, SoundCall, RowsHeldOnce, NoRoomCall
<1>7. RoomFollowsGame
  BY <1>3 DEF RoomInit, RoomFollowsGame
<1>. QED  BY <1>4, <1>5, <1>6, <1>7 DEF RoomInv

(* What a guess or a deadline makes of the game.                            *)
LEMMA LobbyPlays ==
    ASSUME lobby \in Games, LobbyInv, lobby.status = "active", NEW r \in RoomCall,
           r.op = "guess" => /\ r.who \in Players /\ r.arg \in 1..Rounds
                             /\ lobby.round[r.arg] = "active" /\ r.who \notin Submitted(lobby, r.arg)
    PROVE  LET h == LobbyAfter(r) IN
           /\ h \in Games /\ Summed(h)
           /\ h.status \in {"active", "completed"}
           /\ h.status = "active" => \E n \in 1..Rounds : ActiveRounds(h) = {n}
           /\ h.status = "completed" => EndsGame(r, lobby) /\ h.round # lobby.round
           /\ EndsGame(r, lobby) => h.status = "completed"
<1>1. PICK n \in 1..Rounds : ActiveRounds(lobby) = {n}
  BY DEF LobbyInv
<1>2. /\ CurrentRound(lobby) = n /\ lobby.round[n] = "active"
      /\ \A q \in 1..Rounds : lobby.round[q] = "active" => q = n
  BY <1>1, OpenRound DEF ActiveRounds
<1>3. r.op = "guess" => r.arg = n
  BY <1>2
<1>4. PICK own : own = IF r.op = "guess" THEN InsertGuess(lobby, n, r.who, 1) ELSE lobby
  OBVIOUS
<1>5. own \in Games /\ Summed(own) /\ own.status = "active" /\ own.round = lobby.round
  <2>1. CASE r.op = "guess"
    <3>1. 1 \in 0..MaxScore
      BY GuessAssumption, ScoreAssumption
    <3>. QED  BY <1>3, <1>4, <2>1, <3>1, InsertGuessFacts DEF LobbyInv
  <2>2. CASE r.op # "guess"
    BY <1>4, <2>2 DEF LobbyInv
  <2>. QED  BY <2>1, <2>2
<1>6. CASE r.op = "guess" /\ ~AllSubmitted(own, n)
  <2>1. LobbyAfter(r) = own
    BY <1>2, <1>4, <1>6 DEF LobbyAfter
  <2>2. ActiveRounds(own) = {n} /\ ~EndsGame(r, lobby)
    BY <1>1, <1>3, <1>4, <1>5, <1>6 DEF ActiveRounds, EndsGame
  <2>. QED  BY <1>5, <2>1, <2>2
<1>7. CASE ~(r.op = "guess" /\ ~AllSubmitted(own, n))
  <2>1. PICK full : full = ZeroFill(own, n, Missing(own, n))
    OBVIOUS
  <2>2. LobbyAfter(r) = CompleteRound(full, n)
    BY <1>2, <1>4, <1>7, <2>1 DEF LobbyAfter
  <2>3. full \in Games /\ Summed(full) /\ full.status = "active" /\ full.round = lobby.round
    <3>1. Missing(own, n) \in SUBSET Players /\ Missing(own, n) \cap Submitted(own, n) = {}
      BY DEF Missing, Eligible
    <3>. QED  BY <1>5, <2>1, <3>1, ZeroFillFacts
  <2>4. ActiveRounds(full) = {n} /\ PendingRounds(full) = PendingRounds(lobby)
    BY <1>1, <2>3 DEF ActiveRounds, PendingRounds
  <2>5. PICK h : h = CompleteRound(full, n)
    OBVIOUS
  <2>6. /\ h \in Games /\ Summed(h) /\ h.round[n] = "completed"
        /\ PendingRounds(full) = {} => h.status = "completed"
        /\ PendingRounds(full) # {} => h.status = "active" /\ ActiveRounds(h) = {Min(PendingRounds(full))}
    BY <2>3, <2>4, <2>5, CompleteRoundFacts
  <2>7. PendingRounds(full) # {} => Min(PendingRounds(full)) \in 1..Rounds
    BY FirstRound DEF PendingRounds
  <2>8. EndsGame(r, lobby) <=> PendingRounds(lobby) = {}
    BY <1>3, <1>4, <1>7 DEF EndsGame
  <2>. QED  BY <1>2, <2>2, <2>4, <2>5, <2>6, <2>7, <2>8
<1>. QED  BY <1>6, <1>7

(* A call goes on, and writes nothing but itself.                           *)
LEMMA OneCallMoves ==
    ASSUME RoomInv, NEW c \in Calls, NEW r \in RoomCall,
           call' = [call EXCEPT ![c] = r], UNCHANGED <<room, member, lobby>>,
           SoundCall(r, member, room.max, lobby), \A d \in Calls \ {c} : r.holds \cap call[d].holds = {}
    PROVE  /\ call' \in [Calls -> RoomCall] /\ LobbyInv' /\ CallsInv' /\ RowsHeldOnce'
           /\ \A d \in Calls : call'[d] = IF d = c THEN r ELSE call[d]
<1>1. call' \in [Calls -> RoomCall] /\ \A d \in Calls : call'[d] = IF d = c THEN r ELSE call[d]
  BY DEF RoomInv, RoomTypeOK
<1>2. LobbyInv'
  BY DEF RoomInv, LobbyInv, Summed, ScoredBy, ActiveRounds
<1>3. CallsInv'
  <2>1. \A d \in Calls : SoundCall(call'[d], member, room.max, lobby)
    BY <1>1 DEF RoomInv, CallsInv
  <2>. QED  BY <2>1 DEF CallsInv
<1>4. RowsHeldOnce'
  BY <1>1 DEF RoomInv, RowsHeldOnce
<1>. QED  BY <1>1, <1>2, <1>3, <1>4

LEMMA IdleRoomCall == NoRoomCall \in RoomCall /\ SoundCall(NoRoomCall, member, room.max, lobby) /\ NoRoomCall.pc = "idle" /\ NoRoomCall.holds = {}
BY DEF NoRoomCall, RoomCall, SoundCall

(* ... and the room still follows the game.                                 *)
LEMMA QuietCall ==
    ASSUME RoomInv, NEW c \in Calls, NEW r \in RoomCall,
           call' = [call EXCEPT ![c] = r], UNCHANGED <<room, member, lobby, roomFaults>>,
           SoundCall(r, member, room.max, lobby), \A d \in Calls \ {c} : r.holds \cap call[d].holds = {},
           call[c].pc # "publish"
    PROVE  RoomInv'
<1>1. /\ call' \in [Calls -> RoomCall] /\ LobbyInv' /\ CallsInv' /\ RowsHeldOnce'
      /\ \A d \in Calls : call'[d] = IF d = c THEN r ELSE call[d]
  BY OneCallMoves
<1>2. RoomFollowsGame'
  BY <1>1 DEF RoomInv, RoomFollowsGame, CallAt
<1>. QED  BY <1>1, <1>2 DEF RoomInv, RoomTypeOK

LEMMA RoomRequests ==
    ASSUME RoomInv, NEW c \in Calls,
           \/ \E p \in Players : RequestJoin(c, p) \/ RequestKick(c, p) \/ RequestGuess(c, p)
           \/ \E n \in Capacities : RequestSettings(c, n)
           \/ RequestStart(c)
           \/ \E op \in {"close", "poll"} : RequestClose(c, op)
    PROVE  RoomInv'
<1>1. ASSUME NEW pc \in {"room", "game"}, NEW op \in {"join", "kick", "settings", "start", "guess", "close", "poll"},
             NEW p \in Players \cup {"nobody"}, NEW n \in Nat, StartCall(c, pc, op, p, n),
             SoundCall([NoRoomCall EXCEPT !.pc = pc, !.op = op, !.who = p, !.arg = n],
                       member, room.max, lobby)
      PROVE  RoomInv'
  <2>. DEFINE r == [NoRoomCall EXCEPT !.pc = pc, !.op = op, !.who = p, !.arg = n]
  <2>1. r \in RoomCall /\ r.holds = {}
    BY DEF NoRoomCall, RoomCall
  <2>2. call' = [call EXCEPT ![c] = r] /\ UNCHANGED <<room, member, lobby, roomFaults>> /\ call[c].pc = "idle"
    BY <1>1 DEF StartCall, SetCall, CallAt
  <2>. HIDE DEF r
  <2>. QED  BY <1>1, <2>1, <2>2, QuietCall DEF r
<1>2. ASSUME NEW pc \in {"room", "game"}, NEW op, NEW p, NEW n,
             op \in {"join", "kick", "guess"} => p \in Players,
             op = "kick" => p # Host,
             op = "guess" => n \in 1..Rounds,
             op = "settings" => n \in Capacities,
             pc = "room" => op \in {"join", "kick", "settings"},
             pc = "game" => op \in {"start", "guess", "close", "poll"}
      PROVE  SoundCall([NoRoomCall EXCEPT !.pc = pc, !.op = op, !.who = p, !.arg = n],
                       member, room.max, lobby)
  BY <1>2 DEF SoundCall, NoRoomCall
<1>3. ASSUME NEW p \in Players, RequestJoin(c, p) PROVE RoomInv'
  BY <1>1, <1>2, <1>3 DEF RequestJoin
<1>4. ASSUME NEW p \in Players, RequestKick(c, p) PROVE RoomInv'
  BY <1>1, <1>2, <1>4 DEF RequestKick
<1>5. ASSUME NEW p \in Players, RequestGuess(c, p) PROVE RoomInv'
  <2>1. CurrentRound(lobby) \in 1..Rounds /\ CurrentRound(lobby) \in Nat
    BY <1>5, OpenRound, RoundsAssumption DEF RequestGuess, RoomInv, LobbyInv
  <2>. QED  BY <1>1, <1>2, <1>5, <2>1 DEF RequestGuess
<1>6. ASSUME NEW n \in Capacities, RequestSettings(c, n) PROVE RoomInv'
  BY <1>1, <1>2, <1>6, CapacitiesAssumption, HostAssumption DEF RequestSettings
<1>7. ASSUME RequestStart(c) PROVE RoomInv'
  BY <1>1, <1>2, <1>7, HostAssumption DEF RequestStart
<1>8. ASSUME NEW op \in {"close", "poll"}, RequestClose(c, op) PROVE RoomInv'
  BY <1>1, <1>2, <1>8 DEF RequestClose
<1>. QED  BY <1>3, <1>4, <1>5, <1>6, <1>7, <1>8

(* The calls after a step that writes more than a call.                     *)
LEMMA CallsStand ==
    ASSUME RoomInv, NEW c \in Calls, NEW r \in RoomCall, call' = [call EXCEPT ![c] = r],
           SoundCall(r, member', room'.max, lobby'),
           \A d \in Calls \ {c} : SoundCall(call[d], member', room'.max, lobby'),
           \A d \in Calls \ {c} : r.holds \cap call[d].holds = {}
    PROVE  /\ call' \in [Calls -> RoomCall] /\ CallsInv' /\ RowsHeldOnce'
           /\ \A d \in Calls : call'[d] = IF d = c THEN r ELSE call[d]
<1>1. call' \in [Calls -> RoomCall] /\ \A d \in Calls : call'[d] = IF d = c THEN r ELSE call[d]
  BY DEF RoomInv, RoomTypeOK
<1>2. CallsInv'
  BY <1>1 DEF CallsInv
<1>3. RowsHeldOnce'
  BY <1>1 DEF RoomInv, RowsHeldOnce
<1>. QED  BY <1>1, <1>2, <1>3

(* A call that holds no row has found nothing that others may change.       *)
LEMMA HoldsNothing ==
    ASSUME RoomInv, NEW d \in Calls, NEW m, NEW max, NEW g,
           lobby.status = "completed" => g.status = "completed"
    PROVE  /\ call[d].holds = {} => SoundCall(call[d], m, max, g)
           /\ "room" \notin call[d].holds => SoundCall(call[d], m, max, lobby)
           /\ "game" \notin call[d].holds => SoundCall(call[d], member, room.max, g)
           /\ call[d].holds \subseteq {"room", "game"}
<1>1. SoundCall(call[d], member, room.max, lobby) /\ call[d] \in RoomCall
  BY DEF RoomInv, CallsInv, RoomTypeOK
<1>. QED  BY <1>1 DEF SoundCall, RoomCall

(* The lock that a call takes is in no other hands.                         *)
LEMMA LockIsOnly ==
    ASSUME RoomInv, NEW c \in Calls, NEW row \in {"room", "game"}, RowFree(c, row)
    PROVE  \A d \in Calls \ {c} : {row} \cap call[d].holds = {}
BY DEF RowFree

LEMMA LocksRoom ==
    ASSUME RoomInv, NEW c \in Calls, LockRoom(c)
    PROVE  RoomInv'
<1>1. PICK r : r = call[c]
  OBVIOUS
<1>2. /\ r \in RoomCall /\ SoundCall(r, member, room.max, lobby) /\ r.pc = "room" /\ r.holds = {}
      /\ UNCHANGED <<room, lobby, roomFaults>>
      /\ \A d \in Calls \ {c} : {"room"} \cap call[d].holds = {}
  BY <1>1, LockIsOnly DEF LockRoom, CallAt, RoomInv, RoomTypeOK, CallsInv, SoundCall
<1>3. CASE EndCall(c) /\ UNCHANGED member
  BY <1>1, <1>2, <1>3, IdleRoomCall, QuietCall DEF EndCall, SetCall
<1>4. CASE Hold(c, "room", "finish") /\ UNCHANGED member /\ (r.op = "settings" \/ (r.op = "join" /\ MayJoin(r.who, member, room.max)))
  <2>. DEFINE s == [r EXCEPT !.pc = "finish", !.holds = @ \cup {"room"}]
  <2>1. s \in RoomCall /\ s.pc = "finish" /\ s.holds = {"room"} /\ s.op = r.op /\ s.who = r.who /\ s.arg = r.arg
    BY <1>2 DEF RoomCall
  <2>2. call' = [call EXCEPT ![c] = s]
    BY <1>1, <1>4 DEF Hold, SetCall
  <2>. HIDE DEF s
  <2>3. SoundCall(s, member, room.max, lobby)
    BY <1>2, <1>4, <2>1 DEF SoundCall
  <2>. QED  BY ZenonT(30), <1>1, <1>2, <1>4, <2>1, <2>2, <2>3, QuietCall
<1>5. CASE r.op = "kick" /\ member' = [member EXCEPT ![r.who] = "kicked"] /\ EndCall(c)
  <2>1. \A d \in Calls \ {c} : SoundCall(call[d], member', room'.max, lobby')
    BY <1>2, HoldsNothing
  <2>2. SoundCall(NoRoomCall, member', room'.max, lobby')
    BY DEF SoundCall, NoRoomCall
  <2>3. /\ call' \in [Calls -> RoomCall] /\ CallsInv' /\ RowsHeldOnce'
        /\ \A d \in Calls : call'[d] = IF d = c THEN NoRoomCall ELSE call[d]
    BY <1>5, <2>1, <2>2, IdleRoomCall, CallsStand DEF EndCall, SetCall
  <2>4. member' \in [Players -> {"none", "joined", "kicked"}]
    BY <1>5 DEF RoomInv, RoomTypeOK
  <2>5. RoomFollowsGame'
    BY <1>1, <1>2, <2>3 DEF RoomInv, RoomFollowsGame, CallAt
  <2>6. LobbyInv'
    BY <1>2 DEF RoomInv, LobbyInv, Summed, ScoredBy, ActiveRounds
  <2>. QED  BY <1>2, <2>3, <2>4, <2>5, <2>6 DEF RoomInv, RoomTypeOK
<1>. QED
  <2>1. r.op \in {"join", "kick", "settings"}
    BY <1>2 DEF SoundCall
  <2>2. ASSUME r.op = "join", ~JoinRefused(r.who), member[r.who] # "joined" PROVE MayJoin(r.who, member, room.max)
    <3>1. r.who \in Players
      BY <1>2, <2>2 DEF SoundCall
    <3>2. member[r.who] = "none" /\ ~(Cardinality(Members) >= room.max)
      BY <2>2, <3>1 DEF JoinRefused, RoomInv, RoomTypeOK
    <3>3. Cardinality(Members) \in Nat /\ room.max \in Nat
      <4>1. IsFiniteSet(Members)
        BY PlayersAssumption, FS_Subset DEF Members
      <4>. QED  BY <4>1, FS_CardinalityType, CapacitiesAssumption DEF RoomInv, RoomTypeOK
    <3>. QED  BY <3>2, <3>3 DEF MayJoin, Members
  <2>3. CASE r.op = "join"
    BY <1>1, <1>2, <1>3, <1>4, <2>2, <2>3 DEF LockRoom
  <2>4. CASE r.op = "kick"
    BY <1>1, <1>2, <1>5, <2>4 DEF LockRoom
  <2>5. CASE r.op = "settings"
    BY <1>1, <1>2, <1>3, <1>4, <2>5 DEF LockRoom
  <2>. QED  BY <2>1, <2>3, <2>4, <2>5

(* A call that ends with both rows in hand: no other holds one.             *)
LEMMA FinishesAlone ==
    ASSUME RoomInv, NEW c \in Calls, call[c].pc = "finish",
           call[c].op \in {"join", "settings"} => RowFree(c, "game"),
           call[c].op \notin {"join", "settings"} => RowFree(c, "room")
    PROVE  \A d \in Calls \ {c} : \A m, max, g :
             (lobby.status = "completed" => g.status = "completed") => SoundCall(call[d], m, max, g)
<1>1. SoundCall(call[c], member, room.max, lobby)
  BY DEF RoomInv, CallsInv
<1>2. ASSUME NEW d \in Calls \ {c} PROVE call[d].holds = {}
  <2>1. call[c].holds \cap call[d].holds = {} /\ call[d].holds \subseteq {"room", "game"}
    BY HoldsNothing DEF RoomInv, RowsHeldOnce
  <2>. QED  BY <1>1, <2>1 DEF SoundCall, RowFree
<1>. QED  BY <1>2, HoldsNothing

LEMMA JoinsRoom ==
    ASSUME RoomInv, NEW c \in Calls, FinishJoin(c)
    PROVE  RoomInv'
<1>1. PICK p : p = call[c].who
  OBVIOUS
<1>2. /\ call[c].pc = "finish" /\ call[c].op = "join" /\ p \in Players /\ RowFree(c, "game")
      /\ member' = [member EXCEPT ![p] = "joined"]
      /\ lobby' = [lobby EXCEPT !.player[p] = "active"]
      /\ call' = [call EXCEPT ![c] = NoRoomCall] /\ UNCHANGED <<room, roomFaults>>
  BY <1>1 DEF FinishJoin, CallAt, EndCall, SetCall, RoomInv, CallsInv, SoundCall
<1>3. SoundCall(NoRoomCall, member', room'.max, lobby')
  BY DEF SoundCall, NoRoomCall
<1>4. /\ lobby' \in Games /\ lobby'.status = lobby.status /\ lobby'.round = lobby.round
      /\ lobby'.guess = lobby.guess /\ lobby'.total = lobby.total
  BY <1>2 DEF RoomInv, RoomTypeOK, Games, PlayerStatuses
<1>5. /\ call' \in [Calls -> RoomCall] /\ CallsInv' /\ RowsHeldOnce'
      /\ \A d \in Calls : call'[d] = IF d = c THEN NoRoomCall ELSE call[d]
  BY <1>2, <1>3, <1>4, IdleRoomCall, FinishesAlone, CallsStand
<1>6. LobbyInv'
  BY <1>4 DEF RoomInv, LobbyInv, Summed, ScoredBy, ActiveRounds
<1>7. member' \in [Players -> {"none", "joined", "kicked"}]
  BY <1>2 DEF RoomInv, RoomTypeOK
<1>8. RoomFollowsGame'
  BY <1>2, <1>4, <1>5 DEF RoomInv, RoomFollowsGame, CallAt
<1>. QED  BY <1>2, <1>4, <1>5, <1>6, <1>7, <1>8 DEF RoomInv, RoomTypeOK

LEMMA SetsSettings ==
    ASSUME RoomInv, NEW c \in Calls, FinishSettings(c)
    PROVE  RoomInv'
<1>1. /\ call[c].pc = "finish" /\ call[c].op = "settings" /\ call[c].arg \in Capacities /\ RowFree(c, "game")
      /\ room' = [room EXCEPT !.max = call[c].arg]
      /\ call' = [call EXCEPT ![c] = NoRoomCall] /\ UNCHANGED <<member, lobby, roomFaults>>
  BY DEF FinishSettings, CallAt, EndCall, SetCall, RoomInv, CallsInv, SoundCall
<1>2. SoundCall(NoRoomCall, member', room'.max, lobby')
  BY DEF SoundCall, NoRoomCall
<1>3. /\ call' \in [Calls -> RoomCall] /\ CallsInv' /\ RowsHeldOnce'
      /\ \A d \in Calls : call'[d] = IF d = c THEN NoRoomCall ELSE call[d]
  <2>1. \A d \in Calls \ {c} : SoundCall(call[d], member', room'.max, lobby')
    BY <1>1, FinishesAlone
  <2>. QED  BY <1>1, <1>2, <2>1, IdleRoomCall, CallsStand
<1>4. room' \in [status : {"lobby", "active", "completed"}, max : Capacities] /\ room'.status = room.status
  BY <1>1 DEF RoomInv, RoomTypeOK
<1>5. LobbyInv'
  BY <1>1 DEF RoomInv, LobbyInv, Summed, ScoredBy, ActiveRounds
<1>6. RoomFollowsGame'
  BY <1>1, <1>3, <1>4 DEF RoomInv, RoomFollowsGame, CallAt
<1>. QED  BY <1>1, <1>3, <1>4, <1>5, <1>6 DEF RoomInv, RoomTypeOK

LEMMA LocksLobby ==
    ASSUME RoomInv, NEW c \in Calls, LockLobby(c)
    PROVE  RoomInv'
<1>1. PICK r : r = call[c]
  OBVIOUS
<1>2. /\ r \in RoomCall /\ SoundCall(r, member, room.max, lobby) /\ r.pc = "game" /\ r.holds = {}
      /\ r.op \in {"start", "guess", "close", "poll"}
      /\ UNCHANGED <<room, member, roomFaults>>
      /\ \A d \in Calls \ {c} : {"game"} \cap call[d].holds = {}
  BY <1>1, LockIsOnly DEF LockLobby, CallAt, RoomInv, RoomTypeOK, CallsInv, SoundCall
<1>3. CASE EndCall(c) /\ UNCHANGED lobby
  BY <1>1, <1>2, <1>3, IdleRoomCall, QuietCall DEF EndCall, SetCall
<1>4. ASSUME ~GameRefused(r), r.op # "start"
      PROVE  /\ lobby.status = "active"
             /\ r.op = "guess" => /\ r.who \in Players /\ r.arg \in 1..Rounds
                                  /\ lobby.round[r.arg] = "active" /\ r.who \notin Submitted(lobby, r.arg)
  BY <1>2, <1>4 DEF GameRefused, SoundCall
<1>5. CASE Hold(c, "game", "finish") /\ UNCHANGED lobby /\ ~GameRefused(r)
           /\ (r.op = "start" \/ (r.op # "poll" /\ LobbyAfter(r).status = "completed"))
  <2>. DEFINE s == [r EXCEPT !.pc = "finish", !.holds = @ \cup {"game"}]
  <2>1. s \in RoomCall /\ s.pc = "finish" /\ s.holds = {"game"} /\ s.op = r.op /\ s.who = r.who /\ s.arg = r.arg
    BY <1>2 DEF RoomCall
  <2>2. call' = [call EXCEPT ![c] = s]
    BY <1>1, <1>5 DEF Hold, SetCall
  <2>3. r.op = "start" => lobby.status = "pending"
    BY <1>5 DEF GameRefused
  <2>4. r.op # "start" => EndsGame(r, lobby)
    BY <1>2, <1>4, <1>5, LobbyPlays DEF RoomInv, RoomTypeOK
  <2>. HIDE DEF s
  <2>5. EndsGame(r, lobby) => EndsGame(s, lobby)
    BY <2>1 DEF EndsGame
  <2>6. SoundCall(s, member, room.max, lobby)
    BY <1>2, <1>5, <2>1, <2>3, <2>4, <2>5 DEF SoundCall
  <2>. QED  BY ZenonT(30), <1>1, <1>2, <1>5, <2>1, <2>2, <2>6, QuietCall
<1>6. CASE /\ ~GameRefused(r) /\ ~(r.op = "start" \/ (r.op # "poll" /\ LobbyAfter(r).status = "completed"))
           /\ lobby' = LobbyAfter(r)
           /\ IF lobby'.round = lobby.round THEN EndCall(c) ELSE Announce(c)
  <2>1. /\ lobby' \in Games /\ Summed(lobby') /\ lobby.status = "active"
        /\ lobby'.status \in {"active", "completed"}
        /\ lobby'.status = "active" => \E n \in 1..Rounds : ActiveRounds(lobby') = {n}
        /\ lobby'.status = "completed" => lobby'.round # lobby.round /\ r.op = "poll"
    BY <1>2, <1>4, <1>6, LobbyPlays DEF RoomInv, RoomTypeOK
  <2>2. LobbyInv'
    BY <2>1 DEF LobbyInv, Summed, ScoredBy, ActiveRounds
  <2>3. PICK s : /\ s = (IF lobby'.round = lobby.round THEN NoRoomCall
                         ELSE [NoRoomCall EXCEPT !.pc = "publish", !.op = r.op,
                                 !.arg = IF lobby'.status = "completed" THEN GameOver ELSE 0])
    OBVIOUS
  <2>4. /\ s \in RoomCall /\ s.holds = {} /\ SoundCall(s, member', room'.max, lobby')
        /\ lobby'.round # lobby.round => s.pc = "publish" /\ s.op = r.op
        /\ lobby'.round # lobby.round /\ lobby'.status = "completed" => s.arg = GameOver
    <3>1. PICK n : n = IF lobby'.status = "completed" THEN GameOver ELSE 0
      OBVIOUS
    <3>2. n \in Nat /\ (n = GameOver <=> lobby'.status = "completed")
      BY <3>1 DEF GameOver
    <3>3. CASE lobby'.round = lobby.round
      BY <2>3, <3>3 DEF NoRoomCall, RoomCall, SoundCall
    <3>4. CASE lobby'.round # lobby.round
      <4>1. s = [pc |-> "publish", op |-> r.op, who |-> "nobody", arg |-> n, holds |-> {}]
        BY <2>3, <3>1, <3>4 DEF NoRoomCall
      <4>. QED  BY <1>2, <3>2, <3>4, <4>1 DEF RoomCall, SoundCall
    <3>. QED  BY <3>3, <3>4
  <2>5. call' = [call EXCEPT ![c] = s]
    BY <1>1, <1>6, <2>3 DEF EndCall, SetCall, Announce
  <2>6. \A d \in Calls \ {c} : SoundCall(call[d], member', room'.max, lobby')
    BY <1>2, <2>1, HoldsNothing
  <2>7. /\ call' \in [Calls -> RoomCall] /\ CallsInv' /\ RowsHeldOnce'
        /\ \A d \in Calls : call'[d] = IF d = c THEN s ELSE call[d]
    BY <2>4, <2>5, <2>6, CallsStand
  <2>8. RoomFollowsGame'
    BY <1>2, <2>1, <2>4, <2>7 DEF RoomInv, RoomFollowsGame, CallAt
  <2>. QED  BY <1>2, <2>1, <2>2, <2>7, <2>8 DEF RoomInv, RoomTypeOK
<1>. QED  BY <1>1, <1>3, <1>5, <1>6 DEF LockLobby

LEMMA StartsGame ==
    ASSUME RoomInv, NEW c \in Calls, FinishStart(c)
    PROVE  RoomInv'
<1>1. /\ call[c].pc = "finish" /\ call[c].op = "start" /\ lobby.status = "pending" /\ RowFree(c, "room")
      /\ call' = [call EXCEPT ![c] = NoRoomCall] /\ UNCHANGED <<member, roomFaults>>
  BY DEF FinishStart, CallAt, EndCall, SetCall, RoomInv, CallsInv, SoundCall
<1>2. room' = [room EXCEPT !.status = "active"] /\ lobby' = StartedGame
  BY <1>1 DEF FinishStart, RoomStarted, RoomInv, RoomFollowsGame
<1>3. /\ lobby' \in Games /\ lobby'.status = "active" /\ lobby'.round = [lobby.round EXCEPT ![1] = "active"]
      /\ lobby'.guess = lobby.guess /\ lobby'.total = lobby.total
  BY <1>2 DEF StartedGame, RoomInv, RoomTypeOK, Games, GameStatuses, RoundStatuses
<1>4. ActiveRounds(lobby') = {1} /\ 1 \in 1..Rounds
  <2>1. lobby.round \in [1..Rounds -> RoundStatuses] /\ ActiveRounds(lobby) = {} /\ 1 \in 1..Rounds
    BY <1>1, RoundsAssumption DEF RoomInv, RoomTypeOK, LobbyInv, Games
  <2>. QED  BY <1>3, <2>1 DEF ActiveRounds
<1>5. LobbyInv'
  BY <1>3, <1>4 DEF RoomInv, LobbyInv, Summed, ScoredBy, ActiveRounds
<1>6. SoundCall(NoRoomCall, member', room'.max, lobby')
  BY DEF SoundCall, NoRoomCall
<1>7. /\ call' \in [Calls -> RoomCall] /\ CallsInv' /\ RowsHeldOnce'
      /\ \A d \in Calls : call'[d] = IF d = c THEN NoRoomCall ELSE call[d]
  <2>1. \A d \in Calls \ {c} : SoundCall(call[d], member', room'.max, lobby')
    BY <1>1, FinishesAlone
  <2>. QED  BY <1>1, <1>6, <2>1, IdleRoomCall, CallsStand
<1>8. room' \in [status : {"lobby", "active", "completed"}, max : Capacities] /\ room'.status = "active"
  BY <1>2 DEF RoomInv, RoomTypeOK
<1>9. RoomFollowsGame'
  BY <1>3, <1>8 DEF RoomFollowsGame
<1>. QED  BY <1>1, <1>3, <1>5, <1>7, <1>8, <1>9 DEF RoomInv, RoomTypeOK

LEMMA FinishesGame ==
    ASSUME RoomInv, NEW c \in Calls, FinishGame(c)
    PROVE  RoomInv'
<1>1. PICK r : r = call[c]
  OBVIOUS
<1>2. /\ r \in RoomCall /\ SoundCall(r, member, room.max, lobby)
      /\ r.pc = "finish" /\ r.op \in {"guess", "close"} /\ RowFree(c, "room") /\ EndsGame(r, lobby)
      /\ lobby' = LobbyAfter(r) /\ room' = [room EXCEPT !.status = "completed"]
      /\ call' = [call EXCEPT ![c] = [NoRoomCall EXCEPT !.pc = "publish", !.op = r.op,
                     !.arg = IF lobby'.status = "completed" THEN GameOver ELSE 0]]
      /\ UNCHANGED <<member, roomFaults>>
  BY <1>1 DEF FinishGame, CallAt, SetCall, Announce, RoomCompleted, RoomInv, RoomTypeOK, CallsInv, SoundCall
<1>3. lobby' \in Games /\ Summed(lobby') /\ lobby'.status = "completed"
  BY <1>2, LobbyPlays DEF RoomInv, RoomTypeOK, EndsGame, SoundCall
<1>4. LobbyInv'
  BY <1>3 DEF LobbyInv, Summed, ScoredBy
<1>5. PICK s : s = [NoRoomCall EXCEPT !.pc = "publish", !.op = r.op,
                      !.arg = IF lobby'.status = "completed" THEN GameOver ELSE 0]
  OBVIOUS
<1>6. s \in RoomCall /\ s.holds = {} /\ SoundCall(s, member', room'.max, lobby')
  BY <1>2, <1>3, <1>5 DEF NoRoomCall, RoomCall, SoundCall, GameOver
<1>7. \A d \in Calls \ {c} : SoundCall(call[d], member', room'.max, lobby')
  BY <1>1, <1>2, <1>3, FinishesAlone
<1>8. call' \in [Calls -> RoomCall] /\ CallsInv' /\ RowsHeldOnce'
  BY <1>2, <1>5, <1>6, <1>7, CallsStand
<1>9. room' \in [status : {"lobby", "active", "completed"}, max : Capacities] /\ room'.status = "completed"
  BY <1>2 DEF RoomInv, RoomTypeOK
<1>10. RoomFollowsGame'
  BY <1>3, <1>9 DEF RoomFollowsGame
<1>. QED  BY <1>2, <1>3, <1>4, <1>8, <1>9, <1>10 DEF RoomInv, RoomTypeOK

LEMMA OutcomeMoves ==
    ASSUME RoomInv, NEW c \in Calls, PublishOutcome(c) \/ LoseOutcome(c)
    PROVE  RoomInv'
<1>1. /\ call' = [call EXCEPT ![c] = NoRoomCall] /\ UNCHANGED <<member, lobby>> /\ room'.max = room.max
      /\ room' \in [status : {"lobby", "active", "completed"}, max : Capacities]
  BY DEF PublishOutcome, LoseOutcome, EndCall, SetCall, RoomInv, RoomTypeOK
<1>2. SoundCall(NoRoomCall, member', room'.max, lobby')
  BY DEF SoundCall, NoRoomCall
<1>3. \A d \in Calls \ {c} : SoundCall(call[d], member', room'.max, lobby')
  BY <1>1 DEF RoomInv, CallsInv
<1>4. /\ call' \in [Calls -> RoomCall] /\ CallsInv' /\ RowsHeldOnce'
      /\ \A d \in Calls : call'[d] = IF d = c THEN NoRoomCall ELSE call[d]
  BY <1>1, <1>2, <1>3, IdleRoomCall, CallsStand
<1>5. LobbyInv'
  BY <1>1 DEF RoomInv, LobbyInv, Summed, ScoredBy, ActiveRounds
<1>6. CASE PublishOutcome(c)
  <2>1. RoomFollowsGame'
    <3>1. call[c].arg = GameOver => lobby.status = "completed"
      BY <1>6 DEF PublishOutcome, CallAt, RoomInv, CallsInv, SoundCall
    <3>2. IF call[c].arg = GameOver THEN room'.status = "completed" ELSE room' = room
      BY <1>6 DEF PublishOutcome, RoomInv, RoomTypeOK
    <3>. QED  BY <1>1, <1>4, <1>6, <3>1, <3>2 DEF PublishOutcome, RoomInv, RoomFollowsGame, CallAt
  <2>. QED  BY <1>1, <1>4, <1>5, <1>6, <2>1 DEF PublishOutcome, RoomInv, RoomTypeOK
<1>7. CASE LoseOutcome(c)
  <2>1. roomFaults' \in 0..MaxRoomFaults /\ roomFaults' > 0 /\ room' = room
    BY <1>7, RoomFaultsAssumption DEF LoseOutcome, RoomInv, RoomTypeOK
  <2>2. RoomFollowsGame'
    BY <1>1, <2>1 DEF RoomInv, RoomFollowsGame
  <2>. QED  BY <1>1, <1>4, <1>5, <2>1, <2>2 DEF RoomInv, RoomTypeOK
<1>. QED  BY <1>6, <1>7

LEMMA BreaksDeadlock ==
    ASSUME RoomInv, NEW c \in Calls, BreakRoomDeadlock(c)
    PROVE  RoomInv'
<1>1. call' = [call EXCEPT ![c] = NoRoomCall] /\ UNCHANGED <<room, member, lobby, roomFaults>>
  BY DEF BreakRoomDeadlock, EndCall, SetCall
<1>2. call[c].pc # "publish"
  BY DEF BreakRoomDeadlock, CallAt
<1>. QED  BY <1>1, <1>2, IdleRoomCall, QuietCall

LEMMA RoomClock ==
    ASSUME RoomInv, LobbyRoundDue
    PROVE  RoomInv'
<1>1. /\ lobby' = [lobby EXCEPT !.phase = "due"] /\ UNCHANGED <<room, member, call, roomFaults>>
  BY DEF LobbyRoundDue
<1>2. /\ lobby' \in Games /\ lobby'.status = lobby.status /\ lobby'.round = lobby.round
      /\ lobby'.guess = lobby.guess /\ lobby'.total = lobby.total /\ lobby'.player = lobby.player
  BY <1>1 DEF RoomInv, RoomTypeOK, Games
<1>3. LobbyInv'
  BY <1>2 DEF RoomInv, LobbyInv, Summed, ScoredBy, ActiveRounds
<1>4. ASSUME NEW r \in RoomCall, EndsGame(r, lobby), r.op = "guess" => r.arg \in 1..Rounds /\ r.who \in Players
      PROVE  EndsGame(r, lobby')
  <2>1. PendingRounds(lobby') = PendingRounds(lobby) /\ Eligible(lobby') = Eligible(lobby)
    BY <1>2 DEF PendingRounds, Eligible
  <2>2. CASE r.op # "guess"
    BY <1>2, <1>4, <2>1, <2>2 DEF EndsGame
  <2>3. CASE r.op = "guess"
    <3>1. Submitted(lobby', r.arg) = Submitted(lobby, r.arg)
      BY <1>2 DEF Submitted
    <3>2. PICK old, new : old = InsertGuess(lobby, r.arg, r.who, 1) /\ new = InsertGuess(lobby', r.arg, r.who, 1)
      OBVIOUS
    <3>3. old.guess = new.guess /\ old.player = new.player
      BY <1>2, <3>2, lobby \in Games DEF InsertGuess, Games, RoomInv, RoomTypeOK
    <3>4. Submitted(old, r.arg) = Submitted(new, r.arg) /\ Eligible(old) = Eligible(new)
      BY <3>3 DEF Submitted, Eligible
    <3>5. AllSubmitted(old, r.arg) => AllSubmitted(new, r.arg)
      BY <3>4 DEF AllSubmitted
    <3>. QED  BY <1>2, <1>4, <2>1, <2>3, <3>1, <3>2, <3>5 DEF EndsGame
  <2>. QED  BY <2>2, <2>3
<1>5. CallsInv'
  <2>1. ASSUME NEW c \in Calls PROVE SoundCall(call[c], member, room.max, lobby')
    <3>1. call[c] \in RoomCall /\ SoundCall(call[c], member, room.max, lobby)
      BY DEF RoomInv, RoomTypeOK, CallsInv
    <3>. QED  BY <1>2, <1>4, <3>1 DEF SoundCall
  <2>. QED  BY <1>1, <2>1 DEF CallsInv
<1>6. RoomFollowsGame' /\ RowsHeldOnce'
  BY <1>1, <1>2 DEF RoomInv, RoomFollowsGame, RowsHeldOnce, CallAt
<1>. QED  BY <1>1, <1>2, <1>3, <1>5, <1>6 DEF RoomInv, RoomTypeOK

LEMMA RoomStep == RoomInv /\ [RoomNext]_roomVars => RoomInv'
<1>. SUFFICES ASSUME RoomInv, [RoomNext]_roomVars PROVE RoomInv'
  OBVIOUS
<1>1. CASE UNCHANGED roomVars
  <2>1. UNCHANGED <<room, member, lobby, call, roomFaults>>
    BY <1>1 DEF roomVars
  <2>2. RoomTypeOK' /\ LobbyInv' /\ CallsInv' /\ RowsHeldOnce'
    BY <2>1 DEF RoomInv, RoomTypeOK, LobbyInv, Summed, ScoredBy, ActiveRounds, CallsInv, RowsHeldOnce
  <2>3. RoomFollowsGame'
    BY <2>1 DEF RoomInv, RoomFollowsGame, CallAt
  <2>. QED  BY <2>2, <2>3 DEF RoomInv
<1>2. CASE RoomNext
  BY <1>2, RoomRequests, LocksRoom, JoinsRoom, SetsSettings, LocksLobby, StartsGame, FinishesGame, OutcomeMoves,
     BreaksDeadlock, RoomClock DEF RoomNext
<1>. QED  BY <1>1, <1>2

(* The inductive invariant of a room and its game under their row locks.    *)
THEOREM RoomInvariant == RoomSpec => []RoomInv
<1>. QED  BY RoomBegins, RoomStep, PTL DEF RoomSpec

(* Room and game, locked in opposite orders, start and end together but for *)
(* a poll's publication, for any number of calls: RoomFollowsGame.          *)
THEOREM RoomNeverAhead == RoomSpec => []RoomFollowsGame
<1>1. RoomInv => RoomFollowsGame
  BY DEF RoomInv
<1>. QED  BY <1>1, RoomInvariant, PTL

LEMMA MembersAreFinite == IsFiniteSet(Members) /\ Cardinality(Members) \in Nat
BY PlayersAssumption, FS_Subset, FS_CardinalityType DEF Members

(* A removed player never comes back, and a room is never joined beyond the *)
(* size it has at that moment, though both were checked under a lock that   *)
(* was released to nobody in between: MembershipKept.                       *)
THEOREM MembersStay == RoomSpec => MembershipKept
<1>. DEFINE Kept == /\ \A p \in Players : member[p] = "kicked" => member'[p] = "kicked"
                    /\ \A p \in Members' \ Members :
                         Cardinality(Members') <= room.max /\ lobby'.player[p] = "active"
<1>1. ASSUME RoomInv, NEW c \in Calls, FinishJoin(c) PROVE Kept
  <2>1. PICK p \in Players : p = call[c].who /\ MayJoin(p, member, room.max)
    BY <1>1 DEF FinishJoin, CallAt, RoomInv, CallsInv, SoundCall
  <2>2. /\ member' = [member EXCEPT ![p] = "joined"] /\ lobby' = [lobby EXCEPT !.player[p] = "active"]
        /\ member \in [Players -> {"none", "joined", "kicked"}] /\ lobby \in Games
    BY <1>1, <2>1 DEF FinishJoin, RoomInv, RoomTypeOK
  <2>3. Members' = Members \cup {p} /\ p \notin Members /\ Cardinality(Members) < room.max
    BY <2>1, <2>2 DEF Members, MayJoin
  <2>4. Cardinality(Members') = Cardinality(Members) + 1
    BY <2>3, MembersAreFinite, FS_AddElement
  <2>5. room.max \in Nat
    BY <1>1, CapacitiesAssumption DEF RoomInv, RoomTypeOK
  <2>6. lobby'.player[p] = "active"
    BY <2>2 DEF Games
  <2>7. Cardinality(Members') <= room.max
    BY <2>3, <2>4, <2>5, MembersAreFinite
  <2>8. \A q \in Players : member[q] = "kicked" => member'[q] = "kicked"
    BY <2>1, <2>2 DEF MayJoin
  <2>. QED  BY <2>3, <2>6, <2>7, <2>8
<1>2. ASSUME RoomInv, NEW c \in Calls, LockRoom(c) PROVE Kept
  <2>1. UNCHANGED member \/ \E p : member' = [member EXCEPT ![p] = "kicked"]
    <3>1. call[c].op \in {"join", "kick", "settings"}
      BY <1>2 DEF LockRoom, CallAt, RoomInv, CallsInv, SoundCall
    <3>. QED  BY <1>2, <3>1 DEF LockRoom
  <2>2. Members' \subseteq Members
    BY <1>2, <2>1 DEF Members, RoomInv, RoomTypeOK
  <2>3. \A q \in Players : member[q] = "kicked" => member'[q] = "kicked"
    BY <1>2, <2>1 DEF RoomInv, RoomTypeOK
  <2>. QED  BY <2>2, <2>3
<1>3. ASSUME UNCHANGED member PROVE Kept
  BY <1>3 DEF Members
<1>4. RoomInv /\ [RoomNext]_roomVars => [Kept]_roomVars
  <2>. SUFFICES ASSUME RoomInv, RoomNext PROVE Kept
    BY DEF roomVars
  <2>1. PICK c \in Calls :
        \/ \E p \in Players : RequestJoin(c, p) \/ RequestKick(c, p) \/ RequestGuess(c, p)
        \/ \E n \in Capacities : RequestSettings(c, n)
        \/ RequestStart(c)
        \/ \E op \in {"close", "poll"} : RequestClose(c, op)
        \/ LockRoom(c) \/ FinishJoin(c) \/ FinishSettings(c)
        \/ LockLobby(c) \/ FinishStart(c) \/ FinishGame(c)
        \/ PublishOutcome(c) \/ LoseOutcome(c)
        \/ BreakRoomDeadlock(c)
        \/ LobbyRoundDue
    BY DEF RoomNext
  <2>2. CASE ~LockRoom(c) /\ ~FinishJoin(c)
    <3>1. UNCHANGED member
      BY <2>1, <2>2 DEF RequestJoin, RequestKick, RequestGuess, RequestSettings, RequestStart, RequestClose, StartCall,
         FinishSettings, LockLobby, FinishStart, FinishGame, PublishOutcome, LoseOutcome, BreakRoomDeadlock, LobbyRoundDue
    <3>. QED  BY <1>3, <3>1
  <2>. QED  BY <1>1, <1>2, <2>2
<1>. QED  BY <1>4, RoomInvariant, PTL DEF RoomSpec, MembershipKept

-----------------------------------------------------------------------------
(* The pair queue.                                                          *)

(* What a player hash says is so: the entry is the player's own, and the    *)
(* queue or a claim that exists holds it.                                   *)
SoundPlayer(u) ==
    /\ player[u].state = "absent" => player[u] = Nobody
    /\ player[u].state # "absent" => player[u].entry \in Entries /\ made[player[u].entry] = u
    /\ player[u].state = "searching" =>
         player[u].claim = 0 /\ player[u].entry \in lane /\ owner[player[u].entry] = u
    /\ player[u].state = "claimed" =>
         player[u].claim \in pairHash /\ player[u].entry \in pairClaim[player[u].claim]

(* While a claim exists, and once its match does, nobody's entry of the     *)
(* claim is held by anything else.                                          *)
HoldsItsEntries(k) == \A u \in Seekers : player[u].entry \in pairClaim[k] => player[u].claim = k

QueueInv ==
    /\ player \in [Seekers -> [entry : Entries \cup {0}, state : {"absent", "searching", "claimed"},
                               claim : PairClaims \cup {0}, live : BOOLEAN]]
    /\ lane \subseteq Entries /\ made \in [Entries -> Seekers \cup {"none"}]
    /\ owner \in [Entries -> Seekers \cup {"none"}] /\ \A e \in Entries : owner[e] \in {"none", made[e]}
    /\ pairHash \subseteq PairClaims /\ pairClaim \in [PairClaims -> SUBSET Entries]
    /\ pairIndex \in [PairClaims -> {"unused", "waiting", "due", "gone"}]
    /\ duel \in [PairClaims -> {"none", "active", "over"}]
    /\ \A u \in Seekers : SoundPlayer(u)
    /\ \A k \in PairClaims :
         /\ k \in pairHash => pairIndex[k] \in {"waiting", "due"}
         /\ pairIndex[k] = "waiting" => k \in pairHash
         /\ pairIndex[k] = "unused" => duel[k] = "none"
         /\ \A e \in pairClaim[k] : made[e] # "none"
         /\ k \in pairHash \/ duel[k] # "none" => HoldsItsEntries(k)

ACall == [pc : {"idle", "join", "leave", "list", "get", "find", "assess", "release", "finalize", "claim", "check",
                "commit", "status", "recover", "renew", "none"},
          op : {"none", "join", "poll"}, who : Seekers \cup {"none"}, claim : PairClaims \cup {0},
          todo : SUBSET PairClaims, keep : SUBSET Entries, then : {"none", "claim", "formed", "renew"}]

(* The request that made a claim still has it.                              *)
Forms(r) == r.then = "formed" /\ r.pc \in {"check", "commit", "assess", "release", "finalize"}

(* What a request may rely on, the index being ix and the matches du: those *)
(* who recover a claim do so after it fell due, when its maker is over.     *)
SoundPairCall(r, ix, du) ==
    /\ r \in ACall
    /\ r.pc # "idle" => r.who \in Seekers
    /\ \A k \in r.todo : ix[k] \in {"due", "gone"}
    /\ r.then = "formed" \/ r.pc = "claim" => r.todo = {}
    /\ r.pc \in {"find", "assess", "release", "finalize", "check", "commit"} => r.claim \in PairClaims
    /\ r.pc \in {"find", "assess", "release"} /\ r.then # "formed" => ix[r.claim] \in {"due", "gone"}
    /\ r.pc \in {"check", "commit"} => r.then = "formed" /\ ix[r.claim] = "waiting"
    /\ r.pc \in {"check", "commit", "assess", "release"} => du[r.claim] = "none"
    /\ r.pc = "finalize" => du[r.claim] # "none"
    /\ Forms(r) => ix[r.claim] \in {"waiting", "gone"}
    /\ r.pc = "find" => r.then # "formed"
    /\ r.pc = "get" => r.todo # {}

PairCallsInv ==
    /\ pairCall \in [PairCalls -> ACall]
    /\ \A c \in PairCalls : SoundPairCall(pairCall[c], pairIndex, duel)
    /\ \A c, d \in PairCalls :
         c # d /\ Forms(pairCall[c]) /\ Forms(pairCall[d]) => pairCall[c].claim # pairCall[d].claim

PairInv == QueueInv /\ PairCallsInv

-----------------------------------------------------------------------------
LEMMA OwnEntry ==
    ASSUME QueueInv, NEW u \in Seekers
    PROVE  /\ player[u].entry \in Entries <=> player[u].state # "absent"
           /\ player[u].entry \in Entries => made[player[u].entry] = u
           /\ player[u].state = "absent" => player[u] = Nobody /\ player[u].entry = 0
           /\ player[u].state \in {"absent", "searching", "claimed"}
           /\ u # "none" /\ 0 \notin Entries
<1>1. 0 \notin Entries /\ u # "none"
  BY PairAssumption
<1>2. SoundPlayer(u) /\ player[u].state \in {"absent", "searching", "claimed"}
  BY DEF QueueInv
<1>3. player[u].state = "absent" => player[u].entry = 0
  BY <1>2 DEF SoundPlayer, Nobody
<1>. QED  BY <1>1, <1>2, <1>3 DEF SoundPlayer

LEMMA NobodyIsSound ==
    Nobody \in [entry : Entries \cup {0}, state : {"absent", "searching", "claimed"}, claim : PairClaims \cup {0}, live : BOOLEAN]
    /\ Nobody.state = "absent" /\ Nobody.entry = 0 /\ Nobody.claim = 0
  BY DEF Nobody

(* Only the index of a claim changes, and not of one that exists.           *)
LEMMA QueueStands ==
    ASSUME QueueInv, UNCHANGED <<player, lane, owner, pairHash, pairClaim, made>>,
           duel' \in [PairClaims -> {"none", "active", "over"}],
           pairIndex' \in [PairClaims -> {"unused", "waiting", "due", "gone"}],
           \A k \in PairClaims : /\ k \in pairHash => pairIndex'[k] \in {"waiting", "due"}
                                 /\ pairIndex'[k] = "waiting" => k \in pairHash
                                 /\ pairIndex'[k] = "unused" => duel'[k] = "none"
                                 /\ duel'[k] # "none" => k \in pairHash \/ duel[k] # "none"
    PROVE  QueueInv'
<1>1. \A u \in Seekers : SoundPlayer(u)'
  BY DEF QueueInv, SoundPlayer
<1>2. \A k \in PairClaims : HoldsItsEntries(k)' <=> HoldsItsEntries(k)
  BY DEF HoldsItsEntries
<1>. QED  BY <1>1, <1>2 DEF QueueInv

LEMMA JoinsPair ==
    ASSUME QueueInv, NEW u \in Seekers, JoinPair(u), UNCHANGED duel PROVE QueueInv'
<1>1. CASE UNCHANGED redisVars
  <2>1. UNCHANGED <<player, lane, owner, pairHash, pairClaim, pairIndex, made>>
    BY <1>1 DEF redisVars
  <2>. QED  BY <2>1, QueueStands DEF QueueInv
<1>2. CASE ~(UNCHANGED redisVars)
  <2>1. PICK e \in Entries :
          /\ e \in FirstUnused({d \in Entries : made[d] = "none"})
          /\ player' = [player EXCEPT ![u] = [entry |-> e, state |-> "searching", claim |-> 0, live |-> TRUE]]
          /\ lane' = (lane \ {player[u].entry}) \cup {e}
          /\ owner' = [d \in Entries |-> IF d = e THEN u ELSE IF d = player[u].entry THEN "none" ELSE owner[d]]
          /\ made' = [made EXCEPT ![e] = u]
          /\ UNCHANGED <<pairHash, pairClaim, pairIndex>>
    BY <1>2 DEF JoinPair
  <2>2. made[e] = "none"
    BY <2>1 DEF FirstUnused
  <2>3. PICK p : p = [entry |-> e, state |-> "searching", claim |-> 0, live |-> TRUE]
    OBVIOUS
  <2>4. /\ player'[u] = p /\ \A v \in Seekers : v # u => player'[v] = player[v]
        /\ player' \in [Seekers -> [entry : Entries \cup {0}, state : {"absent", "searching", "claimed"},
                                    claim : PairClaims \cup {0}, live : BOOLEAN]]
    BY <2>1, <2>3 DEF QueueInv
  <2>5. made' \in [Entries -> Seekers \cup {"none"}] /\ made'[e] = u /\ \A d \in Entries : d # e => made'[d] = made[d]
    BY <2>1 DEF QueueInv
  <2>6. /\ owner' \in [Entries -> Seekers \cup {"none"}] /\ owner'[e] = u
        /\ \A d \in Entries : d # e => owner'[d] \in {"none", owner[d]} /\ (d # player[u].entry => owner'[d] = owner[d])
    BY <2>1 DEF QueueInv
  <2>7. \A v \in Seekers : v # u /\ player[v].entry \in Entries => player[v].entry # e /\ player[v].entry # player[u].entry
    BY <2>2, OwnEntry
  <2>8. ASSUME NEW v \in Seekers PROVE SoundPlayer(v)'
    <3>1. CASE v = u
      BY <2>1, <2>3, <2>4, <2>5, <2>6, <3>1 DEF SoundPlayer
    <3>2. CASE v # u
      <4>1. SoundPlayer(v) /\ player'[v] = player[v]
        BY <2>4, <3>2 DEF QueueInv
      <4>2. CASE player[v].state = "absent"
        BY <4>1, <4>2 DEF SoundPlayer
      <4>3. CASE player[v].state # "absent"
        <5>1. PICK f : f = player[v].entry
          OBVIOUS
        <5>2. f \in Entries /\ f # e /\ f # player[u].entry
          BY <2>7, <3>2, <4>3, <5>1, OwnEntry
        <5>3. made'[f] = made[f] /\ owner'[f] = owner[f] /\ (f \in lane => f \in lane')
          BY <2>1, <2>5, <2>6, <5>2
        <5>. QED  BY <2>1, <4>1, <4>3, <5>1, <5>2, <5>3 DEF SoundPlayer
      <4>. QED  BY <4>2, <4>3
    <3>. QED  BY <3>1, <3>2
  <2>9. \A d \in Entries : owner'[d] \in {"none", made'[d]}
    BY <2>5, <2>6 DEF QueueInv
  <2>10. ASSUME NEW k \in PairClaims
         PROVE  (\A d \in pairClaim[k] : d # e /\ made'[d] # "none") /\ (HoldsItsEntries(k) => HoldsItsEntries(k)')
    <3>1. \A d \in pairClaim[k] : d \in Entries /\ made[d] # "none"
      BY DEF QueueInv
    <3>2. \A d \in pairClaim[k] : d # e /\ made'[d] # "none"
      BY <2>2, <2>5, <3>1
    <3>. QED  BY <2>1, <2>3, <2>4, <3>2 DEF HoldsItsEntries
  <2>11. lane' \subseteq Entries
    BY <2>1 DEF QueueInv
  <2>. QED  BY <2>1, <2>4, <2>5, <2>6, <2>8, <2>9, <2>10, <2>11 DEF QueueInv
<1>. QED  BY <1>1, <1>2

LEMMA Clears ==
    ASSUME QueueInv, NEW u \in Seekers, Cleared(u), UNCHANGED duel PROVE QueueInv'
<1>1. /\ player' = [player EXCEPT ![u] = Nobody] /\ lane' = lane \ {player[u].entry}
      /\ owner' = [e \in Entries |-> IF e = player[u].entry THEN "none" ELSE owner[e]]
      /\ UNCHANGED <<pairHash, pairClaim, pairIndex, made>>
  BY DEF Cleared
<1>2. /\ player'[u] = Nobody /\ \A v \in Seekers : v # u => player'[v] = player[v]
      /\ player' \in [Seekers -> [entry : Entries \cup {0}, state : {"absent", "searching", "claimed"},
                                  claim : PairClaims \cup {0}, live : BOOLEAN]]
  BY <1>1, NobodyIsSound DEF QueueInv
<1>3. /\ owner' \in [Entries -> Seekers \cup {"none"}]
      /\ \A d \in Entries : owner'[d] \in {"none", owner[d]} /\ (d # player[u].entry => owner'[d] = owner[d])
  BY <1>1 DEF QueueInv
<1>4. ASSUME NEW v \in Seekers PROVE SoundPlayer(v)'
  <2>1. CASE v = u
    BY <1>2, <2>1, NobodyIsSound DEF SoundPlayer, Nobody
  <2>2. CASE v # u
    <3>1. SoundPlayer(v) /\ player'[v] = player[v]
      BY <1>2, <2>2 DEF QueueInv
    <3>2. CASE player[v].state = "absent"
      BY <3>1, <3>2 DEF SoundPlayer, Nobody
    <3>3. CASE player[v].state # "absent"
      <4>1. player[v].entry \in Entries /\ player[v].entry # player[u].entry
        BY <2>2, <3>3, OwnEntry
      <4>. QED  BY <1>1, <1>3, <3>1, <3>3, <4>1 DEF SoundPlayer
    <3>. QED  BY <3>2, <3>3
  <2>. QED  BY <2>1, <2>2
<1>5. \A k \in PairClaims : pairClaim[k] \subseteq Entries
  BY DEF QueueInv
<1>6. \A k \in PairClaims : HoldsItsEntries(k) => HoldsItsEntries(k)'
  BY <1>1, <1>2, <1>5, NobodyIsSound, PairAssumption DEF HoldsItsEntries
<1>7. \A d \in Entries : owner'[d] \in {"none", made'[d]}
  BY <1>1, <1>3 DEF QueueInv
<1>8. lane' \subseteq Entries
  BY <1>1 DEF QueueInv
<1>. QED  BY <1>1, <1>2, <1>3, <1>4, <1>6, <1>7, <1>8 DEF QueueInv

LEMMA RenewsOrLeaves ==
    ASSUME QueueInv, NEW u \in Seekers, RenewPair(u) \/ LeavePair(u), UNCHANGED duel PROVE QueueInv'
<1>1. CASE UNCHANGED redisVars
  <2>1. UNCHANGED <<player, lane, owner, pairHash, pairClaim, pairIndex, made>>
    BY <1>1 DEF redisVars
  <2>. QED  BY <2>1, QueueStands DEF QueueInv
<1>2. Cleared(u) \/ UNCHANGED redisVars
  BY DEF RenewPair, LeavePair
<1>. QED  BY <1>1, <1>2, Clears

(* What the scan drops belongs to nobody who searches: of a player it finds *)
(* under an entry nothing is left, and who stays keeps place and owner.     *)
LEMMA Sweeps ==
    ASSUME QueueInv, NEW u \in Seekers
    PROVE  /\ PlayersSwept[u] \in {player[u], Nobody} /\ u \in DOMAIN PlayersSwept
           /\ PlayersSwept[u] = player[u] /\ player[u].state = "searching" =>
                player[u].entry \notin Dropped /\ OwnersSwept[player[u].entry] = owner[player[u].entry]
<1>1. PlayersSwept[u] = IF player[u].entry \in Dropped /\ owner[player[u].entry] = u THEN Nobody ELSE player[u]
  BY DEF PlayersSwept
<1>2. u \in DOMAIN PlayersSwept
  BY DEF PlayersSwept
<1>3. ASSUME PlayersSwept[u] = player[u], player[u].state = "searching"
      PROVE  player[u].entry \notin Dropped /\ OwnersSwept[player[u].entry] = owner[player[u].entry]
  <2>1. player[u].entry \in Entries /\ owner[player[u].entry] = u /\ player[u] # Nobody
    BY <1>3, NobodyIsSound DEF QueueInv, SoundPlayer
  <2>2. player[u].entry \notin Dropped
    BY <1>1, <1>3, <2>1
  <2>. QED  BY <2>1, <2>2 DEF OwnersSwept
<1>. QED  BY <1>1, <1>2, <1>3

LEMMA OwnersSweptType ==
    ASSUME QueueInv
    PROVE  /\ OwnersSwept \in [Entries -> Seekers \cup {"none"}]
           /\ \A e \in Entries : OwnersSwept[e] \in {"none", owner[e]}
  BY DEF QueueInv, OwnersSwept

LEMMA ClaimsNone ==
    ASSUME QueueInv, ClaimNone, UNCHANGED duel PROVE QueueInv'
<1>1. /\ player' = PlayersSwept /\ owner' = OwnersSwept /\ lane' = lane \ Dropped
      /\ UNCHANGED <<pairHash, pairClaim, pairIndex, made>>
  BY DEF ClaimNone
<1>2. \A u \in Seekers : player'[u] \in {player[u], Nobody}
  BY <1>1, Sweeps
<1>3. player' \in [Seekers -> [entry : Entries \cup {0}, state : {"absent", "searching", "claimed"},
                               claim : PairClaims \cup {0}, live : BOOLEAN]]
  <2>1. player' = [u \in Seekers |-> player'[u]]
    BY <1>1 DEF PlayersSwept
  <2>. QED  BY <1>2, <2>1, NobodyIsSound DEF QueueInv
<1>4. ASSUME NEW u \in Seekers PROVE SoundPlayer(u)'
  <2>1. CASE player'[u] = Nobody
    BY <2>1, NobodyIsSound DEF SoundPlayer, Nobody
  <2>2. CASE player'[u] = player[u] /\ player'[u] # Nobody
    <3>1. SoundPlayer(u)
      BY DEF QueueInv
    <3>2. player[u].state = "searching" =>
            player[u].entry \notin Dropped /\ owner'[player[u].entry] = owner[player[u].entry]
      BY <1>1, <2>2, Sweeps
    <3>. QED  BY <1>1, <2>2, <3>1, <3>2 DEF SoundPlayer, Nobody
  <2>. QED  BY <1>2, <2>1, <2>2
<1>5. \A k \in PairClaims : pairClaim[k] \subseteq Entries
  BY DEF QueueInv
<1>6. \A k \in PairClaims : HoldsItsEntries(k) => HoldsItsEntries(k)'
  BY <1>1, <1>2, <1>5, NobodyIsSound, PairAssumption DEF HoldsItsEntries
<1>7. owner' \in [Entries -> Seekers \cup {"none"}] /\ \A d \in Entries : owner'[d] \in {"none", made'[d]}
  BY <1>1, OwnersSweptType DEF QueueInv
<1>8. lane' \subseteq Entries
  BY <1>1 DEF QueueInv
<1>. QED  BY <1>1, <1>3, <1>4, <1>6, <1>7, <1>8 DEF QueueInv

LEMMA PairIsUsable ==
    ASSUME QueueInv, NEW u \in Seekers, player[u].entry \in Pair
    PROVE  player[u].state = "searching" /\ player[u].claim = 0 /\ player[u].entry \in Entries
<1>1. PICK e : e = player[u].entry
  OBVIOUS
<1>2. e \in lane /\ ~Unusable(e)
  BY <1>1 DEF Pair, Usable
<1>3. e \in Entries /\ owner[e] # "none" /\ player[owner[e]].state = "searching"
  BY <1>2 DEF QueueInv, Unusable
<1>4. owner[e] = made[e] /\ made[e] = u
  BY <1>1, <1>3, OwnEntry DEF QueueInv
<1>. QED  BY <1>1, <1>3, <1>4 DEF QueueInv, SoundPlayer

LEMMA ClaimsPair ==
    ASSUME QueueInv, NEW k \in PairClaims, ClaimPair(k), UNCHANGED duel PROVE QueueInv'
<1>1. /\ pairHash' = pairHash \cup {k} /\ pairClaim' = [pairClaim EXCEPT ![k] = Pair]
      /\ pairIndex' = [pairIndex EXCEPT ![k] = "waiting"] /\ pairIndex[k] = "unused"
      /\ owner' = OwnersSwept /\ lane' = lane \ (Dropped \cup Pair) /\ made' = made
  BY DEF ClaimPair, FirstUnused
<1>2. \A u \in Seekers : player'[u] = IF player[u].entry \in Pair
                                      THEN [player[u] EXCEPT !.state = "claimed", !.claim = k] ELSE PlayersSwept[u]
  BY DEF ClaimPair
<1>3. ASSUME NEW u \in Seekers, player[u].entry \in Pair
      PROVE  player'[u] = [entry |-> player[u].entry, state |-> "claimed", claim |-> k, live |-> player[u].live]
  <2>1. player[u] \in [entry : Entries \cup {0}, state : {"absent", "searching", "claimed"},
                       claim : PairClaims \cup {0}, live : BOOLEAN]
    BY DEF QueueInv
  <2>2. player'[u] = [player[u] EXCEPT !.state = "claimed", !.claim = k]
    BY <1>2, <1>3
  <2>. QED  BY <2>1, <2>2
<1>4. \A u \in Seekers : player[u].entry \notin Pair => player'[u] \in {player[u], Nobody}
  BY <1>2, Sweeps
<1>5. player' \in [Seekers -> [entry : Entries \cup {0}, state : {"absent", "searching", "claimed"},
                               claim : PairClaims \cup {0}, live : BOOLEAN]]
  <2>1. player' = [u \in Seekers |-> player'[u]]
    BY DEF ClaimPair
  <2>2. ASSUME NEW u \in Seekers
        PROVE  player'[u] \in [entry : Entries \cup {0}, state : {"absent", "searching", "claimed"},
                               claim : PairClaims \cup {0}, live : BOOLEAN]
    <3>1. player[u] \in [entry : Entries \cup {0}, state : {"absent", "searching", "claimed"},
                         claim : PairClaims \cup {0}, live : BOOLEAN]
      BY DEF QueueInv
    <3>2. CASE player[u].entry \in Pair
      <4>1. player[u].entry \in Entries \cup {0} /\ player[u].live \in BOOLEAN
        BY <3>1
      <4>2. player'[u] = [entry |-> player[u].entry, state |-> "claimed", claim |-> k, live |-> player[u].live]
        BY <1>3, <3>2
      <4>. QED  BY <4>1, <4>2
    <3>3. CASE player[u].entry \notin Pair
      BY <1>4, <3>1, <3>3, NobodyIsSound
    <3>. QED  BY <3>2, <3>3
  <2>. QED  BY <2>1, <2>2
<1>6. Pair \subseteq Entries
  BY DEF Pair, Usable, QueueInv
<1>7. k \notin pairHash /\ duel[k] = "none"
  BY <1>1 DEF QueueInv
<1>8. /\ pairClaim' \in [PairClaims -> SUBSET Entries] /\ pairClaim'[k] = Pair
      /\ \A j \in PairClaims : j # k => pairClaim'[j] = pairClaim[j]
      /\ pairIndex' \in [PairClaims -> {"unused", "waiting", "due", "gone"}] /\ pairIndex'[k] = "waiting"
      /\ \A j \in PairClaims : j # k => pairIndex'[j] = pairIndex[j]
  BY <1>1, <1>6 DEF QueueInv
<1>9. ASSUME NEW u \in Seekers PROVE SoundPlayer(u)'
  <2>1. SoundPlayer(u)
    BY DEF QueueInv
  <2>2. CASE player[u].entry \in Pair
    <3>1. made[player[u].entry] = u /\ player[u].entry \in Entries
      BY <2>2, PairIsUsable, OwnEntry
    <3>2. player'[u].entry = player[u].entry /\ player'[u].state = "claimed" /\ player'[u].claim = k
      <4>1. player'[u] = [entry |-> player[u].entry, state |-> "claimed", claim |-> k, live |-> player[u].live]
        BY <1>3, <2>2
      <4>. QED  BY <4>1
    <3>. QED  BY <1>1, <1>8, <2>2, <3>1, <3>2 DEF SoundPlayer
  <2>3. CASE player'[u] = Nobody
    BY <2>3, NobodyIsSound DEF SoundPlayer, Nobody
  <2>4. CASE player[u].entry \notin Pair /\ player'[u] = player[u] /\ player'[u] # Nobody
    <3>1. player[u].state = "searching" =>
            player[u].entry \notin Dropped /\ owner'[player[u].entry] = owner[player[u].entry]
      BY <1>1, <1>2, <2>4, Sweeps
    <3>2. player[u].state = "claimed" => player[u].claim \in pairHash /\ player[u].claim \in PairClaims /\ player[u].claim # k
      BY <1>7, <2>1 DEF SoundPlayer, QueueInv
    <3>. QED  BY <1>1, <1>8, <2>1, <2>4, <3>1, <3>2 DEF SoundPlayer, Nobody
  <2>. QED  BY <1>4, <2>2, <2>3, <2>4
<1>10. HoldsItsEntries(k)'
  <2>1. ASSUME NEW u \in Seekers, player'[u].entry \in Pair PROVE player'[u].claim = k
    <3>1. player[u].entry \in Pair
      <4>1. Nobody.entry \notin Pair
        BY <1>6, NobodyIsSound, PairAssumption
      <4>. QED  BY <1>4, <2>1, <4>1
    <3>2. player'[u] = [entry |-> player[u].entry, state |-> "claimed", claim |-> k, live |-> player[u].live]
      BY <1>3, <3>1
    <3>. QED  BY <3>2
  <2>. QED  BY <1>8, <2>1 DEF HoldsItsEntries
<1>11. ASSUME NEW j \in PairClaims, j # k, HoldsItsEntries(j) PROVE HoldsItsEntries(j)'
  <2>1. pairClaim'[j] = pairClaim[j] /\ pairClaim[j] \subseteq Entries
    BY <1>8, <1>11 DEF QueueInv
  <2>2. ASSUME NEW u \in Seekers, player'[u].entry \in pairClaim[j] PROVE player'[u].claim = j
    <3>1. CASE player[u].entry \in Pair
      <4>1. player[u].entry \in pairClaim[j] /\ player[u].claim = 0
        <5>1. player'[u] = [entry |-> player[u].entry, state |-> "claimed", claim |-> k, live |-> player[u].live]
          BY <1>3, <3>1
        <5>. QED  BY <2>2, <3>1, <5>1, PairIsUsable
      <4>2. player[u].claim = j
        BY <1>11, <4>1 DEF HoldsItsEntries
      <4>. QED  BY <4>1, <4>2, PairAssumption
    <3>2. CASE player[u].entry \notin Pair
      BY <1>4, <1>11, <2>1, <2>2, <3>2, NobodyIsSound, PairAssumption DEF HoldsItsEntries
    <3>. QED  BY <3>1, <3>2
  <2>. QED  BY <2>1, <2>2 DEF HoldsItsEntries
<1>12. \A e \in Pair : made[e] # "none"
  BY <1>6 DEF Pair, Usable, Unusable, QueueInv
<1>13. ASSUME NEW j \in PairClaims
       PROVE  /\ j \in pairHash' => pairIndex'[j] \in {"waiting", "due"}
              /\ pairIndex'[j] = "waiting" => j \in pairHash'
              /\ pairIndex'[j] = "unused" => duel'[j] = "none"
              /\ \A e \in pairClaim'[j] : made'[e] # "none"
              /\ j \in pairHash' \/ duel'[j] # "none" => HoldsItsEntries(j)'
  <2>1. CASE j = k
    BY <1>1, <1>8, <1>10, <1>12, <2>1
  <2>2. CASE j # k
    BY <1>1, <1>8, <1>11, <2>2 DEF QueueInv
  <2>. QED  BY <2>1, <2>2
<1>14. owner' \in [Entries -> Seekers \cup {"none"}] /\ \A d \in Entries : owner'[d] \in {"none", made'[d]}
  BY <1>1, OwnersSweptType DEF QueueInv
<1>15. lane' \subseteq Entries /\ pairHash' \subseteq PairClaims /\ made' = made /\ duel' = duel
  BY <1>1 DEF QueueInv
<1>. QED  BY <1>5, <1>8, <1>9, <1>13, <1>14, <1>15 DEF QueueInv

(* A claim whose match is durable: whoever still has an entry of it is      *)
(* claimed by it, so that clearing its entries strands nobody.              *)
LEMMA FinalizesPair ==
    ASSUME QueueInv, NEW k \in PairClaims, duel[k] # "none", FinalizePair(k), UNCHANGED duel PROVE QueueInv'
<1>1. /\ player' = [u \in Seekers |-> IF player[u].claim = k /\ player[u].entry \in pairClaim[k] THEN Nobody ELSE player[u]]
      /\ owner' = [e \in Entries |-> IF e \in pairClaim[k] THEN "none" ELSE owner[e]]
      /\ pairHash' = pairHash \ {k} /\ pairIndex' = [pairIndex EXCEPT ![k] = "gone"]
      /\ UNCHANGED <<lane, pairClaim, made>>
  BY DEF FinalizePair
<1>2. HoldsItsEntries(k)
  BY DEF QueueInv
<1>3. \A u \in Seekers : player'[u] = IF player[u].entry \in pairClaim[k] THEN Nobody ELSE player[u]
  BY <1>1, <1>2 DEF HoldsItsEntries
<1>4. player' \in [Seekers -> [entry : Entries \cup {0}, state : {"absent", "searching", "claimed"},
                               claim : PairClaims \cup {0}, live : BOOLEAN]]
  BY <1>1, NobodyIsSound DEF QueueInv
<1>5. /\ pairIndex' \in [PairClaims -> {"unused", "waiting", "due", "gone"}] /\ pairIndex'[k] = "gone"
      /\ \A j \in PairClaims : j # k => pairIndex'[j] = pairIndex[j]
  BY <1>1 DEF QueueInv
<1>6. /\ owner' \in [Entries -> Seekers \cup {"none"}]
      /\ \A e \in Entries : owner'[e] \in {"none", owner[e]} /\ (e \notin pairClaim[k] => owner'[e] = owner[e])
  BY <1>1 DEF QueueInv
<1>7. ASSUME NEW u \in Seekers PROVE SoundPlayer(u)'
  <2>1. SoundPlayer(u)
    BY DEF QueueInv
  <2>2. CASE player[u].entry \in pairClaim[k]
    <3>1. player'[u] = Nobody
      BY <1>3, <2>2
    <3>. QED  BY <3>1, NobodyIsSound DEF SoundPlayer, Nobody
  <2>3. CASE player[u].entry \notin pairClaim[k]
    <3>1. player'[u] = player[u]
      BY <1>3, <2>3
    <3>2. player[u].state = "claimed" => player[u].claim # k
      BY <2>1, <2>3 DEF SoundPlayer
    <3>. QED  BY <1>1, <1>6, <2>1, <2>3, <3>1, <3>2 DEF SoundPlayer, Nobody
  <2>. QED  BY <2>2, <2>3
<1>8. ASSUME NEW j \in PairClaims, HoldsItsEntries(j) PROVE HoldsItsEntries(j)'
  <2>1. pairClaim[j] \subseteq Entries /\ 0 \notin Entries
    BY PairAssumption DEF QueueInv
  <2>. QED  BY <1>1, <1>3, <1>8, <2>1, NobodyIsSound DEF HoldsItsEntries
<1>9. ASSUME NEW j \in PairClaims
      PROVE  /\ j \in pairHash' => pairIndex'[j] \in {"waiting", "due"}
             /\ pairIndex'[j] = "waiting" => j \in pairHash'
             /\ pairIndex'[j] = "unused" => duel'[j] = "none"
             /\ \A e \in pairClaim'[j] : made'[e] # "none"
             /\ j \in pairHash' \/ duel'[j] # "none" => HoldsItsEntries(j)'
  <2>1. CASE j = k
    BY <1>1, <1>2, <1>5, <1>8, <2>1 DEF QueueInv
  <2>2. CASE j # k
    BY <1>1, <1>5, <1>8, <2>2 DEF QueueInv
  <2>. QED  BY <2>1, <2>2
<1>10. \A e \in Entries : owner'[e] \in {"none", made'[e]}
  BY <1>1, <1>6 DEF QueueInv
<1>11. pairHash' \subseteq PairClaims
  BY <1>1 DEF QueueInv
<1>. QED  BY <1>1, <1>4, <1>5, <1>6, <1>7, <1>9, <1>10, <1>11 DEF QueueInv

LEMMA ReleasesPair ==
    ASSUME QueueInv, NEW k \in PairClaims, NEW keep, duel[k] = "none", ReleasePair(k, keep), UNCHANGED duel
    PROVE  QueueInv'
<1>1. CASE k \notin pairHash
  <2>1. pairIndex' = [pairIndex EXCEPT ![k] = "gone"] /\ UNCHANGED <<player, lane, owner, pairHash, pairClaim, made>>
    BY <1>1 DEF ReleasePair
  <2>2. /\ pairIndex' \in [PairClaims -> {"unused", "waiting", "due", "gone"}] /\ pairIndex'[k] = "gone"
        /\ \A j \in PairClaims : j # k => pairIndex'[j] = pairIndex[j]
    BY <2>1 DEF QueueInv
  <2>. QED  BY <1>1, <2>1, <2>2, QueueStands DEF QueueInv
<1>2. CASE k \in pairHash
  <2>1. /\ player' = [u \in Seekers |->
              IF player[u].entry \notin Releasable(k) THEN player[u]
              ELSE IF player[u].entry \in keep
                   THEN [player[u] EXCEPT !.state = "searching", !.claim = 0, !.live = TRUE] ELSE Nobody]
        /\ lane' = lane \cup (Releasable(k) \cap keep)
        /\ owner' = [e \in Entries |->
              IF e \in Releasable(k) THEN IF e \in keep THEN made[e] ELSE "none"
              ELSE IF e \in pairClaim[k] /\ player[made[e]].state = "absent" THEN "none" ELSE owner[e]]
        /\ pairHash' = pairHash \ {k} /\ pairIndex' = [pairIndex EXCEPT ![k] = "gone"]
        /\ UNCHANGED <<pairClaim, made>>
    BY <1>2 DEF ReleasePair
  <2>2. HoldsItsEntries(k) /\ pairClaim[k] \subseteq Entries /\ \A e \in pairClaim[k] : made[e] \in Seekers
    BY <1>2 DEF QueueInv
  <2>3. \A u \in Seekers : player[u].entry \in Releasable(k) <=> player[u].entry \in pairClaim[k]
    BY <2>2, OwnEntry DEF Releasable, HoldsItsEntries
  <2>4. ASSUME NEW u \in Seekers
        PROVE  \/ player[u].entry \notin pairClaim[k] /\ player'[u] = player[u]
               \/ player[u].entry \in pairClaim[k] /\ player[u].entry \notin keep /\ player'[u] = Nobody
               \/ /\ player[u].entry \in pairClaim[k] /\ player[u].entry \in keep
                  /\ player'[u] = [entry |-> player[u].entry, state |-> "searching", claim |-> 0, live |-> TRUE]
    <3>1. player[u] \in [entry : Entries \cup {0}, state : {"absent", "searching", "claimed"},
                         claim : PairClaims \cup {0}, live : BOOLEAN]
      BY DEF QueueInv
    <3>. QED  BY <2>1, <2>3, <3>1
  <2>5. ASSUME NEW u \in Seekers, player[u].entry \in pairClaim[k]
        PROVE  /\ player[u].entry \in Releasable(k) /\ player[u].entry \in Entries
               /\ made[player[u].entry] = u /\ player[u].claim = k
    BY <2>2, <2>3, <2>5, OwnEntry DEF HoldsItsEntries
  <2>6. player' \in [Seekers -> [entry : Entries \cup {0}, state : {"absent", "searching", "claimed"},
                                 claim : PairClaims \cup {0}, live : BOOLEAN]]
    <3>1. player' = [u \in Seekers |-> player'[u]]
      BY <2>1
    <3>2. ASSUME NEW u \in Seekers
          PROVE  player'[u] \in [entry : Entries \cup {0}, state : {"absent", "searching", "claimed"},
                                 claim : PairClaims \cup {0}, live : BOOLEAN]
      <4>1. player[u] \in [entry : Entries \cup {0}, state : {"absent", "searching", "claimed"},
                           claim : PairClaims \cup {0}, live : BOOLEAN]
        BY DEF QueueInv
      <4>2. [entry |-> player[u].entry, state |-> "searching", claim |-> 0, live |-> TRUE]
              \in [entry : Entries \cup {0}, state : {"absent", "searching", "claimed"},
                   claim : PairClaims \cup {0}, live : BOOLEAN]
        BY <4>1
      <4>. QED  BY <2>4, <4>1, <4>2, NobodyIsSound
    <3>. QED  BY <3>1, <3>2
  <2>7. /\ pairIndex' \in [PairClaims -> {"unused", "waiting", "due", "gone"}] /\ pairIndex'[k] = "gone"
        /\ \A j \in PairClaims : j # k => pairIndex'[j] = pairIndex[j]
    BY <2>1 DEF QueueInv
  <2>8. /\ owner' \in [Entries -> Seekers \cup {"none"}]
        /\ \A e \in Entries : owner'[e] \in {"none", made[e]}
        /\ \A e \in Entries : e \in Releasable(k) /\ e \in keep => owner'[e] = made[e]
        /\ \A e \in Entries : e \notin Releasable(k) /\ player[made[e]].state # "absent" => owner'[e] = owner[e]
    <3>1. \A e \in Entries : owner'[e] = IF e \in Releasable(k) THEN IF e \in keep THEN made[e] ELSE "none"
              ELSE IF e \in pairClaim[k] /\ player[made[e]].state = "absent" THEN "none" ELSE owner[e]
      BY <2>1
    <3>2. \A e \in Entries : owner[e] \in {"none", made[e]} /\ made[e] \in Seekers \cup {"none"}
      BY DEF QueueInv
    <3>3. \A e \in Entries : owner'[e] \in {"none", made[e]}
      BY <3>1, <3>2
    <3>4. owner' = [e \in Entries |-> owner'[e]]
      BY <2>1
    <3>. QED  BY <3>1, <3>2, <3>3, <3>4
  <2>9. ASSUME NEW u \in Seekers PROVE SoundPlayer(u)'
    <3>1. SoundPlayer(u)
      BY DEF QueueInv
    <3>2. CASE player'[u] = Nobody
      BY <3>2, NobodyIsSound DEF SoundPlayer, Nobody
    <3>3. CASE player[u].entry \in pairClaim[k] /\ player[u].entry \in keep
      <4>1. player'[u] = [entry |-> player[u].entry, state |-> "searching", claim |-> 0, live |-> TRUE]
        BY <2>4, <3>3
      <4>2. player'[u].entry = player[u].entry /\ player'[u].state = "searching" /\ player'[u].claim = 0
        BY <4>1
      <4>3. player[u].entry \in lane' /\ owner'[player[u].entry] = u
        BY <2>1, <2>5, <2>8, <3>3
      <4>. QED  BY <2>1, <2>5, <3>3, <4>2, <4>3 DEF SoundPlayer
    <3>4. CASE player[u].entry \notin pairClaim[k] /\ player[u].state # "absent"
      <4>1. player'[u] = player[u] /\ player[u].entry \notin Releasable(k)
        BY <2>3, <2>4, <3>4
      <4>2. owner'[player[u].entry] = owner[player[u].entry]
        BY <2>8, <3>4, <4>1, OwnEntry
      <4>3. player[u].state = "claimed" => player[u].claim # k
        BY <3>1, <3>4 DEF SoundPlayer
      <4>. QED  BY <2>1, <3>1, <3>4, <4>1, <4>2, <4>3 DEF SoundPlayer
    <3>5. CASE player[u].state = "absent"
      <4>1. player[u] = Nobody /\ player[u].entry \notin pairClaim[k]
        BY <2>2, <3>5, OwnEntry
      <4>. QED  BY <2>4, <3>2, <4>1
    <3>. QED  BY <2>4, <3>2, <3>3, <3>4, <3>5
  <2>10. ASSUME NEW j \in PairClaims, j # k, j \in pairHash \/ duel[j] # "none" PROVE HoldsItsEntries(j)'
    <3>1. HoldsItsEntries(j) /\ pairClaim[j] \subseteq Entries
      BY <2>10 DEF QueueInv
    <3>2. ASSUME NEW u \in Seekers, player'[u].entry \in pairClaim[j] PROVE player'[u].claim = j
      <4>1. CASE player[u].entry \notin pairClaim[k]
        BY <2>4, <3>1, <3>2, <4>1 DEF HoldsItsEntries
      <4>2. CASE player'[u] = Nobody
        BY <3>1, <3>2, <4>2, NobodyIsSound, PairAssumption
      <4>3. CASE player[u].entry \in pairClaim[k] /\ player[u].entry \in keep
        <5>1. player'[u] = [entry |-> player[u].entry, state |-> "searching", claim |-> 0, live |-> TRUE]
          BY <2>4, <4>3
        <5>2. player'[u].entry = player[u].entry
          BY <5>1
        <5>3. player[u].claim = j /\ player[u].claim = k
          BY <2>5, <3>1, <3>2, <4>3, <5>2 DEF HoldsItsEntries
        <5>. QED  BY <2>10, <5>3
      <4>. QED  BY <2>4, <4>1, <4>2, <4>3
    <3>. QED  BY <2>1, <3>2 DEF HoldsItsEntries
  <2>11. ASSUME NEW j \in PairClaims
         PROVE  /\ j \in pairHash' => pairIndex'[j] \in {"waiting", "due"}
                /\ pairIndex'[j] = "waiting" => j \in pairHash'
                /\ pairIndex'[j] = "unused" => duel'[j] = "none"
                /\ \A e \in pairClaim'[j] : made'[e] # "none"
                /\ j \in pairHash' \/ duel'[j] # "none" => HoldsItsEntries(j)'
    <3>1. /\ j \in pairHash => pairIndex[j] \in {"waiting", "due"}
          /\ pairIndex[j] = "waiting" => j \in pairHash
          /\ pairIndex[j] = "unused" => duel[j] = "none"
          /\ \A e \in pairClaim[j] : made[e] # "none"
      BY DEF QueueInv
    <3>2. pairClaim' = pairClaim /\ made' = made /\ duel' = duel /\ pairHash' = pairHash \ {k}
      BY <2>1
    <3>3. CASE j = k
      BY <2>7, <3>1, <3>2, <3>3
    <3>4. CASE j # k
      <4>1. pairIndex'[j] = pairIndex[j] /\ (j \in pairHash' <=> j \in pairHash)
        BY <2>7, <3>2, <3>4
      <4>. QED  BY <2>10, <3>1, <3>2, <3>4, <4>1
    <3>. QED  BY <3>3, <3>4
  <2>12. lane' \subseteq Entries /\ pairHash' \subseteq PairClaims
    BY <2>1, <2>2 DEF QueueInv, Releasable
  <2>. QED  BY <2>1, <2>6, <2>7, <2>8, <2>9, <2>11, <2>12 DEF QueueInv
<1>. QED  BY <1>1, <1>2

LEMMA DropsPairIndex ==
    ASSUME QueueInv, NEW k \in PairClaims, k \notin pairHash, DropPairIndex(k), UNCHANGED duel PROVE QueueInv'
<1>1. pairIndex' = [pairIndex EXCEPT ![k] = "gone"] /\ UNCHANGED <<player, lane, owner, pairHash, pairClaim, made>>
  BY DEF DropPairIndex
<1>2. /\ pairIndex' \in [PairClaims -> {"unused", "waiting", "due", "gone"}] /\ pairIndex'[k] = "gone"
      /\ \A j \in PairClaims : j # k => pairIndex'[j] = pairIndex[j]
  BY <1>1 DEF QueueInv
<1>. QED  BY <1>1, <1>2, QueueStands DEF QueueInv

(* Time passes over a player's lease, or over a claim.                      *)
LEMMA LeasesEnd ==
    ASSUME QueueInv, NEW u \in Seekers, LeaseEnds(u) PROVE QueueInv'
<1>1. /\ player[u].state = "searching" /\ player' = [player EXCEPT ![u].live = FALSE]
      /\ UNCHANGED <<lane, owner, pairHash, pairClaim, pairIndex, made, duel>>
  BY DEF LeaseEnds
<1>2. /\ player' \in [Seekers -> [entry : Entries \cup {0}, state : {"absent", "searching", "claimed"},
                                  claim : PairClaims \cup {0}, live : BOOLEAN]]
      /\ \A v \in Seekers : /\ player'[v].entry = player[v].entry /\ player'[v].state = player[v].state
                            /\ player'[v].claim = player[v].claim
                            /\ player[v].state = "absent" => player'[v] = player[v]
  <2>1. player \in [Seekers -> [entry : Entries \cup {0}, state : {"absent", "searching", "claimed"},
                                claim : PairClaims \cup {0}, live : BOOLEAN]]
    BY DEF QueueInv
  <2>2. player' \in [Seekers -> [entry : Entries \cup {0}, state : {"absent", "searching", "claimed"},
                                 claim : PairClaims \cup {0}, live : BOOLEAN]]
    BY <1>1, <2>1
  <2>3. \A v \in Seekers : v # u => player'[v] = player[v]
    BY <1>1, <2>1
  <2>4. /\ player'[u].entry = player[u].entry /\ player'[u].state = player[u].state
        /\ player'[u].claim = player[u].claim
    BY <1>1, <2>1
  <2>. QED  BY <1>1, <2>2, <2>3, <2>4
<1>3. ASSUME NEW v \in Seekers PROVE SoundPlayer(v)'
  <2>1. SoundPlayer(v)
    BY DEF QueueInv
  <2>2. CASE player[v].state = "absent"
    <3>1. player'[v] = player[v]
      BY <1>2, <2>2
    <3>. QED  BY <1>1, <2>1, <2>2, <3>1 DEF SoundPlayer
  <2>3. CASE player[v].state # "absent"
    <3>1. player'[v].entry = player[v].entry /\ player'[v].state = player[v].state /\ player'[v].claim = player[v].claim
      BY <1>2
    <3>. QED  BY <1>1, <2>1, <2>3, <3>1 DEF SoundPlayer
  <2>. QED  BY <2>2, <2>3
<1>4. \A k \in PairClaims : HoldsItsEntries(k)' <=> HoldsItsEntries(k)
  BY <1>1, <1>2 DEF HoldsItsEntries
<1>. QED  BY <1>1, <1>2, <1>3, <1>4 DEF QueueInv

-----------------------------------------------------------------------------
(* One request moves on; the others may rely on what they relied on.        *)
LEMMA PairCallMoves ==
    ASSUME PairCallsInv, NEW c \in PairCalls, NEW r, pairCall' = [pairCall EXCEPT ![c] = r],
           SoundPairCall(r, pairIndex', duel'),
           \A d \in PairCalls : d # c => SoundPairCall(pairCall[d], pairIndex', duel'),
           Forms(r) => \A d \in PairCalls : d # c /\ Forms(pairCall[d]) => pairCall[d].claim # r.claim
    PROVE  PairCallsInv'
<1>1. r \in ACall
  BY DEF SoundPairCall
<1>2. pairCall' \in [PairCalls -> ACall] /\ pairCall'[c] = r /\ \A d \in PairCalls : d # c => pairCall'[d] = pairCall[d]
  BY <1>1 DEF PairCallsInv
<1>3. \A d \in PairCalls : SoundPairCall(pairCall'[d], pairIndex', duel')
  BY <1>2
<1>4. ASSUME NEW d \in PairCalls, NEW e \in PairCalls, d # e, Forms(pairCall'[d]), Forms(pairCall'[e])
      PROVE  pairCall'[d].claim # pairCall'[e].claim
  BY <1>2, <1>4 DEF PairCallsInv
<1>. QED  BY <1>2, <1>3, <1>4 DEF PairCallsInv, Forms

(* A request that changes neither index nor matches.                        *)
LEMMA PairCallPasses ==
    ASSUME PairCallsInv, NEW c \in PairCalls, NEW r, pairCall' = [pairCall EXCEPT ![c] = r],
           UNCHANGED <<pairIndex, duel>>, SoundPairCall(r, pairIndex, duel),
           Forms(r) => Forms(pairCall[c]) /\ r.claim = pairCall[c].claim
    PROVE  PairCallsInv'
<1>1. SoundPairCall(r, pairIndex', duel') /\ \A d \in PairCalls : SoundPairCall(pairCall[d], pairIndex', duel')
  BY DEF PairCallsInv
<1>2. Forms(r) => \A d \in PairCalls : d # c /\ Forms(pairCall[d]) => pairCall[d].claim # r.claim
  BY DEF PairCallsInv
<1>. QED  BY <1>1, <1>2, PairCallMoves

LEMMA QuietIsSound ==
    ASSUME NEW ix, NEW du PROVE SoundPairCall(Quiet, ix, du) /\ ~Forms(Quiet) /\ Quiet \in ACall
  BY DEF Quiet, SoundPairCall, Forms, ACall

LEMMA AfterFormIsSound ==
    ASSUME NEW ix, NEW du, NEW r \in ACall, r.who \in Seekers
    PROVE  SoundPairCall(AfterForm(r), ix, du) /\ ~Forms(AfterForm(r))
<1>1. CASE r.op = "poll"
  <2>1. AfterForm(r) = [pc |-> "status", op |-> "poll", who |-> r.who, claim |-> 0, todo |-> {}, keep |-> {}, then |-> "none"]
    BY <1>1 DEF AfterForm, Quiet
  <2>. QED  BY <2>1 DEF SoundPairCall, Forms, ACall
<1>2. CASE r.op # "poll"
  BY <1>2, QuietIsSound DEF AfterForm
<1>. QED  BY <1>1, <1>2

LEMMA AfterClaimIsSound ==
    ASSUME NEW ix, NEW du, NEW r \in ACall, r.who \in Seekers, \A k \in r.todo : ix[k] \in {"due", "gone"},
           r.then = "formed" => r.todo = {}
    PROVE  SoundPairCall(AfterClaim(r), ix, du) /\ ~Forms(AfterClaim(r))
<1>1. PICK s : s = [r EXCEPT !.claim = 0, !.keep = {}]
  OBVIOUS
<1>2. s = [pc |-> r.pc, op |-> r.op, who |-> r.who, claim |-> 0, todo |-> r.todo, keep |-> {}, then |-> r.then]
  BY <1>1 DEF ACall
<1>3. s \in ACall /\ s.who = r.who /\ s.todo = r.todo /\ s.then = r.then
  BY <1>2 DEF ACall
<1>4. AfterClaim(r) = IF s.todo # {} THEN [s EXCEPT !.pc = "get"]
                      ELSE IF s.then = "formed" THEN AfterForm(s) ELSE [s EXCEPT !.pc = s.then]
  BY <1>1 DEF AfterClaim
<1>5. CASE s.todo # {}
  <2>1. AfterClaim(r) = [pc |-> "get", op |-> r.op, who |-> r.who, claim |-> 0, todo |-> r.todo, keep |-> {}, then |-> r.then]
    BY <1>2, <1>4, <1>5
  <2>2. r.then # "formed" /\ r.todo # {}
    BY <1>3, <1>5
  <2>. QED  BY <2>1, <2>2 DEF SoundPairCall, Forms, ACall
<1>6. CASE s.todo = {} /\ s.then = "formed"
  BY <1>3, <1>4, <1>6, AfterFormIsSound
<1>7. CASE s.todo = {} /\ s.then # "formed"
  <2>1. AfterClaim(r) = [pc |-> r.then, op |-> r.op, who |-> r.who, claim |-> 0, todo |-> {}, keep |-> {}, then |-> r.then]
    BY <1>2, <1>4, <1>7
  <2>2. r.then \in {"none", "claim", "renew"}
    BY <1>3, <1>7 DEF ACall
  <2>. QED  BY <2>1, <2>2 DEF SoundPairCall, Forms, ACall
<1>. QED  BY <1>5, <1>6, <1>7

(* A request's next step where it relies on no more than before.            *)
LEMMA StepIsSound ==
    ASSUME NEW ix, NEW du, NEW r \in ACall, SoundPairCall(r, ix, du), r.pc # "idle",
           NEW p \in {"idle", "join", "leave", "list", "status", "recover", "renew"}
    PROVE  SoundPairCall([r EXCEPT !.pc = p], ix, du) /\ ~Forms([r EXCEPT !.pc = p])
<1>1. [r EXCEPT !.pc = p] = [pc |-> p, op |-> r.op, who |-> r.who, claim |-> r.claim, todo |-> r.todo,
                             keep |-> r.keep, then |-> r.then]
  BY DEF ACall
<1>. QED  BY <1>1 DEF SoundPairCall, Forms, ACall

(* Index entries of claims that others do not need any more.                *)
LEMMA IndexGoes ==
    ASSUME NEW ix \in [PairClaims -> {"unused", "waiting", "due", "gone"}], NEW du, NEW k \in PairClaims,
           NEW s, SoundPairCall(s, ix, du), ~(s.pc \in {"check", "commit"} /\ s.claim = k)
    PROVE  SoundPairCall(s, [ix EXCEPT ![k] = "gone"], du)
<1>1. PICK jx : jx = [ix EXCEPT ![k] = "gone"]
  OBVIOUS
<1>2. \A j \in PairClaims : jx[j] = IF j = k THEN "gone" ELSE ix[j]
  BY <1>1
<1>3. s.todo \subseteq PairClaims
  BY DEF SoundPairCall, ACall
<1>4. SoundPairCall(s, jx, du)
  BY <1>2, <1>3 DEF SoundPairCall, Forms
<1>. QED  BY <1>1, <1>4

LEMMA QueueRests == ASSUME QueueInv, UNCHANGED redisVars, UNCHANGED duel PROVE QueueInv'
<1>1. UNCHANGED <<player, lane, owner, pairHash, pairClaim, pairIndex, made>>
  BY DEF redisVars
<1>. QED  BY <1>1, QueueStands DEF QueueInv

LEMMA IndexStays == UNCHANGED redisVars => pairIndex' = pairIndex
  BY DEF redisVars

LEMMA ScriptsKeepIndex ==
    ASSUME NEW u, JoinPair(u) \/ RenewPair(u) \/ LeavePair(u) PROVE pairIndex' = pairIndex
  BY IndexStays DEF JoinPair, RenewPair, LeavePair, Cleared

-----------------------------------------------------------------------------
(* Requests that begin.                                                     *)
LEMMA RequestBegins ==
    ASSUME PairInv, NEW c \in PairCalls, NEW u \in Seekers, JoinQueue(c, u) \/ LeaveQueue(c, u) \/ GetStatus(c, u)
    PROVE  PairInv'
<1>1. QueueInv /\ PairCallsInv /\ UNCHANGED redisVars /\ UNCHANGED duel
  BY DEF PairInv, JoinQueue, LeaveQueue, GetStatus
<1>2. ASSUME NEW p \in {"join", "leave", "list"}, NEW o \in {"join", "none", "poll"}, NEW r,
             pairCall' = [pairCall EXCEPT ![c] = r],
             r = [pc |-> p, op |-> o, who |-> u, claim |-> 0, todo |-> {}, keep |-> {}, then |-> "none"]
      PROVE  PairInv'
  <2>1. SoundPairCall(r, pairIndex, duel) /\ ~Forms(r)
    BY <1>2 DEF SoundPairCall, Forms, ACall
  <2>2. PairCallsInv'
    BY <1>1, <1>2, <2>1, PairCallPasses, IndexStays
  <2>. QED  BY <1>1, <2>2, QueueRests DEF PairInv
<1>3. CASE JoinQueue(c, u)
  <2>1. PICK r : r = [Quiet EXCEPT !.pc = "join", !.op = "join", !.who = u]
    OBVIOUS
  <2>2. pairCall' = [pairCall EXCEPT ![c] = r]
    BY <1>3, <2>1 DEF JoinQueue, Put
  <2>3. r = [pc |-> "join", op |-> "join", who |-> u, claim |-> 0, todo |-> {}, keep |-> {}, then |-> "none"]
    BY <2>1 DEF Quiet
  <2>. QED  BY <1>2, <2>2, <2>3
<1>4. CASE LeaveQueue(c, u)
  <2>1. PICK r : r = [Quiet EXCEPT !.pc = "leave", !.who = u]
    OBVIOUS
  <2>2. pairCall' = [pairCall EXCEPT ![c] = r]
    BY <1>4, <2>1 DEF LeaveQueue, Put
  <2>3. r = [pc |-> "leave", op |-> "none", who |-> u, claim |-> 0, todo |-> {}, keep |-> {}, then |-> "none"]
    BY <2>1 DEF Quiet
  <2>. QED  BY <1>2, <2>2, <2>3
<1>5. CASE GetStatus(c, u)
  <2>1. PICK r : r = [Quiet EXCEPT !.pc = "list", !.op = "poll", !.who = u]
    OBVIOUS
  <2>2. pairCall' = [pairCall EXCEPT ![c] = r]
    BY <1>5, <2>1 DEF GetStatus, Put
  <2>3. r = [pc |-> "list", op |-> "poll", who |-> u, claim |-> 0, todo |-> {}, keep |-> {}, then |-> "none"]
    BY <2>1 DEF Quiet
  <2>. QED  BY <1>2, <2>2, <2>3
<1>. QED  BY <1>3, <1>4, <1>5

(* A request told of a claim goes on to recover it.                         *)
LEMMA RecoverIsSound ==
    ASSUME NEW ix, NEW du, NEW r \in ACall, SoundPairCall(r, ix, du), r.pc # "idle", NEW k \in PairClaims \cup {0}
    PROVE  SoundPairCall([r EXCEPT !.pc = "recover", !.claim = k], ix, du) /\ ~Forms([r EXCEPT !.pc = "recover", !.claim = k])
<1>1. PICK s : s = [r EXCEPT !.pc = "recover", !.claim = k]
  OBVIOUS
<1>2. s = [pc |-> "recover", op |-> r.op, who |-> r.who, claim |-> k, todo |-> r.todo, keep |-> r.keep, then |-> r.then]
  BY <1>1 DEF ACall
<1>3. SoundPairCall(s, ix, du) /\ ~Forms(s)
  BY <1>2 DEF SoundPairCall, Forms, ACall
<1>. QED  BY <1>1, <1>3

LEMMA SoundPairCallAt ==
    ASSUME PairCallsInv, NEW c \in PairCalls
    PROVE  pairCall[c] \in ACall /\ SoundPairCall(pairCall[c], pairIndex, duel)
  BY DEF PairCallsInv

(* The requests' own scripts: join, leave, renew.                           *)
LEMMA RequestScripts ==
    ASSUME PairInv, NEW c \in PairCalls,
           JoinLegacyPairQueue(c) \/ LeaveNow(c) \/ StatusWithoutDurable(c) \/ RenewReleased(c)
    PROVE  PairInv'
<1>1. QueueInv /\ PairCallsInv /\ UNCHANGED duel
  BY DEF PairInv, JoinLegacyPairQueue, LeaveNow, StatusWithoutDurable, RenewReleased
<1>2. PICK u : u = pairCall[c].who
  OBVIOUS
<1>3. pairCall[c] \in ACall /\ SoundPairCall(pairCall[c], pairIndex, duel) /\ pairCall[c].pc # "idle"
  BY <1>1, SoundPairCallAt DEF JoinLegacyPairQueue, LeaveNow, StatusWithoutDurable, RenewReleased, In
<1>4. u \in Seekers
  BY <1>2, <1>3 DEF SoundPairCall
<1>5. JoinPair(u) \/ RenewPair(u) \/ LeavePair(u) \/ UNCHANGED redisVars
  BY <1>2 DEF JoinLegacyPairQueue, LeaveNow, StatusWithoutDurable, RenewReleased
<1>6. QueueInv' /\ pairIndex' = pairIndex
  BY <1>1, <1>4, <1>5, JoinsPair, RenewsOrLeaves, QueueRests, IndexStays, ScriptsKeepIndex
<1>7. player[u].claim \in PairClaims \cup {0}
  BY <1>1, <1>4 DEF QueueInv
<1>8. PICK r : /\ pairCall' = [pairCall EXCEPT ![c] = r]
               /\ \/ r = Quiet \/ r = [pairCall[c] EXCEPT !.pc = "list"]
                  \/ r = [pairCall[c] EXCEPT !.pc = "recover", !.claim = player[u].claim]
  BY <1>2 DEF JoinLegacyPairQueue, LeaveNow, StatusWithoutDurable, RenewReleased, Done, Step, Put
<1>9. SoundPairCall(r, pairIndex, duel) /\ ~Forms(r)
  <2>1. CASE r = Quiet
    BY <2>1, QuietIsSound
  <2>2. CASE r = [pairCall[c] EXCEPT !.pc = "list"]
    BY <1>3, <2>2, StepIsSound
  <2>3. CASE r = [pairCall[c] EXCEPT !.pc = "recover", !.claim = player[u].claim]
    <3>1. PICK k : k = player[u].claim
      OBVIOUS
    <3>. QED  BY <1>3, <1>7, <2>3, <3>1, RecoverIsSound
  <2>. QED  BY <1>8, <2>1, <2>2, <2>3
<1>10. PairCallsInv'
  BY <1>1, <1>6, <1>8, <1>9, PairCallPasses
<1>. QED  BY <1>6, <1>10 DEF PairInv

LEMMA ListsExpired ==
    ASSUME PairInv, NEW c \in PairCalls, ListExpired(c) PROVE PairInv'
<1>1. QueueInv /\ PairCallsInv /\ UNCHANGED redisVars /\ UNCHANGED duel /\ pairCall[c].pc = "list"
  BY DEF PairInv, ListExpired, In
<1>2. pairCall[c] \in ACall /\ SoundPairCall(pairCall[c], pairIndex, duel)
  BY <1>1, SoundPairCallAt
<1>3. PICK T : T = {k \in PairClaims : pairIndex[k] = "due"}
  OBVIOUS
<1>4. PICK s : s = [pairCall[c] EXCEPT !.todo = T, !.then = "claim"]
  OBVIOUS
<1>5. s = [pc |-> pairCall[c].pc, op |-> pairCall[c].op, who |-> pairCall[c].who, claim |-> pairCall[c].claim,
           todo |-> T, keep |-> pairCall[c].keep, then |-> "claim"]
  BY <1>2, <1>4 DEF ACall
<1>6. T \in SUBSET PairClaims /\ \A k \in T : pairIndex[k] = "due"
  BY <1>3
<1>7. s \in ACall /\ s.who \in Seekers /\ s.todo = T /\ s.then = "claim"
  BY <1>1, <1>2, <1>5, <1>6 DEF ACall, SoundPairCall
<1>8. SoundPairCall(AfterClaim(s), pairIndex, duel) /\ ~Forms(AfterClaim(s))
  <2>1. \A k \in s.todo : pairIndex[k] \in {"due", "gone"}
    BY <1>6, <1>7
  <2>2. s.then = "formed" => s.todo = {}
    BY <1>7
  <2>. QED  BY <1>7, <2>1, <2>2, AfterClaimIsSound
<1>9. pairCall' = [pairCall EXCEPT ![c] = AfterClaim(s)]
  BY <1>3, <1>4 DEF ListExpired, Put
<1>10. PairCallsInv'
  BY <1>1, <1>8, <1>9, PairCallPasses, IndexStays
<1>. QED  BY <1>1, <1>10, QueueRests DEF PairInv

LEMMA GetsClaim ==
    ASSUME PairInv, NEW c \in PairCalls, GetClaim(c) PROVE PairInv'
<1>1. QueueInv /\ PairCallsInv /\ UNCHANGED duel /\ pairCall[c].pc = "get"
  BY DEF PairInv, GetClaim, In
<1>2. pairCall[c] \in ACall /\ SoundPairCall(pairCall[c], pairIndex, duel)
  BY <1>1, SoundPairCallAt
<1>3. pairCall[c].todo \in SUBSET Nat /\ pairCall[c].todo # {} /\ pairCall[c].todo \subseteq PairClaims
  BY <1>1, <1>2, PairAssumption DEF SoundPairCall, ACall
<1>4. PICK k : k = CHOOSE d \in pairCall[c].todo : \A e \in pairCall[c].todo : d <= e
  OBVIOUS
<1>5. k \in pairCall[c].todo /\ k \in PairClaims
  <2>1. PICK m \in pairCall[c].todo : \A n \in pairCall[c].todo : m <= n
    BY <1>3, LeastNumber
  <2>. QED  BY <1>3, <1>4, <2>1
<1>6. pairIndex[k] \in {"due", "gone"} /\ pairCall[c].then # "formed" /\ pairCall[c].who \in Seekers
  BY <1>1, <1>2, <1>5 DEF SoundPairCall
<1>7. PICK s : s = [pairCall[c] EXCEPT !.todo = @ \ {k}]
  OBVIOUS
<1>8. s = [pc |-> "get", op |-> pairCall[c].op, who |-> pairCall[c].who, claim |-> pairCall[c].claim,
           todo |-> pairCall[c].todo \ {k}, keep |-> pairCall[c].keep, then |-> pairCall[c].then]
  BY <1>1, <1>2, <1>7 DEF ACall
<1>9. s \in ACall /\ s.who \in Seekers /\ s.then # "formed" /\ s.todo \subseteq pairCall[c].todo
  BY <1>2, <1>6, <1>8 DEF ACall
<1>10. CASE k \in pairHash
  <2>1. pairCall' = [pairCall EXCEPT ![c] = [s EXCEPT !.pc = "find", !.claim = k]] /\ UNCHANGED redisVars
    BY <1>4, <1>7, <1>10 DEF GetClaim, Put
  <2>2. PICK r : r = [s EXCEPT !.pc = "find", !.claim = k]
    OBVIOUS
  <2>3. r = [pc |-> "find", op |-> s.op, who |-> s.who, claim |-> k, todo |-> s.todo, keep |-> s.keep, then |-> s.then]
    BY <1>9, <2>2 DEF ACall
  <2>4. SoundPairCall(r, pairIndex, duel) /\ ~Forms(r)
    BY <1>2, <1>5, <1>6, <1>9, <2>3 DEF SoundPairCall, Forms, ACall
  <2>5. PairCallsInv'
    BY <1>1, <2>1, <2>2, <2>4, PairCallPasses, IndexStays
  <2>. QED  BY <1>1, <2>1, <2>5, QueueRests DEF PairInv
<1>11. CASE k \notin pairHash
  <2>1. pairCall' = [pairCall EXCEPT ![c] = AfterClaim(s)] /\ DropPairIndex(k)
    BY <1>4, <1>7, <1>11 DEF GetClaim, Put
  <2>2. QueueInv'
    BY <1>1, <1>5, <1>11, <2>1, DropsPairIndex
  <2>3. pairIndex' = [pairIndex EXCEPT ![k] = "gone"] /\ pairIndex \in [PairClaims -> {"unused", "waiting", "due", "gone"}]
    BY <1>1, <2>1 DEF DropPairIndex, QueueInv
  <2>4. \A j \in s.todo : pairIndex'[j] \in {"due", "gone"}
    BY <1>2, <1>3, <1>9, <2>3 DEF SoundPairCall
  <2>5. SoundPairCall(AfterClaim(s), pairIndex', duel') /\ ~Forms(AfterClaim(s))
    BY <1>9, <2>4, AfterClaimIsSound
  <2>6. ASSUME NEW d \in PairCalls PROVE SoundPairCall(pairCall[d], pairIndex', duel')
    <3>1. SoundPairCall(pairCall[d], pairIndex, duel)
      BY <1>1, SoundPairCallAt
    <3>2. ~(pairCall[d].pc \in {"check", "commit"} /\ pairCall[d].claim = k)
      BY <1>6, <3>1 DEF SoundPairCall
    <3>. QED  BY <1>1, <1>5, <2>3, <3>1, <3>2, IndexGoes
  <2>7. PairCallsInv'
    BY <1>1, <2>1, <2>5, <2>6, PairCallMoves
  <2>. QED  BY <2>2, <2>7 DEF PairInv
<1>. QED  BY <1>10, <1>11

LEMMA FindsAndAssesses ==
    ASSUME PairInv, NEW c \in PairCalls, FindMatch(c) \/ Assess(c) \/ Check(c) PROVE PairInv'
<1>1. QueueInv /\ PairCallsInv /\ UNCHANGED duel /\ UNCHANGED redisVars
  BY DEF PairInv, FindMatch, Assess, Check
<1>2. pairCall[c] \in ACall /\ SoundPairCall(pairCall[c], pairIndex, duel)
  BY <1>1, SoundPairCallAt
<1>3. pairCall[c].pc \in {"find", "assess", "check"}
  BY DEF FindMatch, Assess, Check, In
<1>4. pairCall[c].claim \in PairClaims /\ Keepable(pairCall[c].claim) \subseteq Entries
  BY <1>1, <1>2, <1>3 DEF SoundPairCall, Keepable, QueueInv
<1>5. ASSUME NEW p \in {"assess", "finalize", "release", "commit"}, NEW K \in SUBSET Entries,
             pairCall' = [pairCall EXCEPT ![c] = [pairCall[c] EXCEPT !.pc = p, !.keep = K]],
             \/ pairCall[c].pc = "find" /\ p = (IF duel[pairCall[c].claim] = "none" THEN "assess" ELSE "finalize")
             \/ pairCall[c].pc \in {"assess", "check"} /\ p = "release"
             \/ pairCall[c].pc = "check" /\ p = "commit"
      PROVE  PairCallsInv'
  <2>1. PICK r : r = [pairCall[c] EXCEPT !.pc = p, !.keep = K]
    OBVIOUS
  <2>2. r = [pc |-> p, op |-> pairCall[c].op, who |-> pairCall[c].who, claim |-> pairCall[c].claim,
             todo |-> pairCall[c].todo, keep |-> K, then |-> pairCall[c].then]
    BY <1>2, <2>1 DEF ACall
  <2>3. r \in ACall
    BY <1>2, <2>2 DEF ACall
  <2>4. SoundPairCall(r, pairIndex, duel)
    BY <1>2, <1>3, <1>5, <2>2, <2>3 DEF SoundPairCall, Forms
  <2>5. Forms(r) => Forms(pairCall[c]) /\ r.claim = pairCall[c].claim
    BY <1>2, <1>5, <2>2 DEF SoundPairCall, Forms
  <2>. QED  BY <1>1, <1>5, <2>1, <2>4, <2>5, PairCallPasses, IndexStays
<1>6. \A p : [pairCall[c] EXCEPT !.pc = p] = [pairCall[c] EXCEPT !.pc = p, !.keep = pairCall[c].keep]
             /\ pairCall[c].keep \subseteq Entries
  BY <1>2 DEF ACall
<1>7. CASE FindMatch(c)
  <2>1. PICK p \in {"assess", "finalize"} : p = IF duel[pairCall[c].claim] = "none" THEN "assess" ELSE "finalize"
    OBVIOUS
  <2>2. pairCall' = [pairCall EXCEPT ![c] = [pairCall[c] EXCEPT !.pc = p]] /\ pairCall[c].pc = "find"
    BY <1>7, <2>1 DEF FindMatch, Step, Put, In
  <2>. QED  BY <1>1, <1>5, <1>6, <2>1, <2>2, QueueRests DEF PairInv
<1>8. CASE Assess(c)
  <2>1. pairCall' = [pairCall EXCEPT ![c] = [pairCall[c] EXCEPT !.pc = "release", !.keep = Keepable(pairCall[c].claim)]]
        /\ pairCall[c].pc = "assess"
    BY <1>8 DEF Assess, Put, In
  <2>. QED  BY <1>1, <1>4, <1>5, <2>1, QueueRests DEF PairInv
<1>9. CASE Check(c)
  <2>1. pairCall[c].pc = "check"
    BY <1>9 DEF Check, In
  <2>2. CASE pairCall' = [pairCall EXCEPT ![c] = [pairCall[c] EXCEPT !.pc = "commit"]]
    BY <1>1, <1>5, <1>6, <2>1, <2>2, QueueRests DEF PairInv
  <2>3. CASE pairCall' = [pairCall EXCEPT ![c] = [pairCall[c] EXCEPT !.pc = "release", !.keep = Keepable(pairCall[c].claim)]]
    BY <1>1, <1>4, <1>5, <2>1, <2>3, QueueRests DEF PairInv
  <2>. QED  BY <1>9, <2>2, <2>3 DEF Check, Step, Put
<1>. QED  BY <1>7, <1>8, <1>9

(* A claim is given up or its match made final: nobody else had it at hand. *)
LEMMA ClaimSettles ==
    ASSUME PairInv, NEW c \in PairCalls, NEW k \in PairClaims, NEW r,
           pairIndex' = [pairIndex EXCEPT ![k] = "gone"], UNCHANGED duel,
           \A d \in PairCalls : d # c => ~(pairCall[d].pc \in {"check", "commit"} /\ pairCall[d].claim = k),
           pairCall' = [pairCall EXCEPT ![c] = r], r = Quiet \/ r = AfterClaim(pairCall[c]),
           pairCall[c].pc # "idle"
    PROVE  PairCallsInv'
<1>1. PairCallsInv /\ pairIndex \in [PairClaims -> {"unused", "waiting", "due", "gone"}]
  BY DEF PairInv, QueueInv
<1>2. pairCall[c] \in ACall /\ SoundPairCall(pairCall[c], pairIndex, duel) /\ pairCall[c].who \in Seekers
  BY <1>1, SoundPairCallAt DEF SoundPairCall
<1>3. \A j \in pairCall[c].todo : pairIndex'[j] \in {"due", "gone"}
  <2>1. \A j \in pairCall[c].todo : j \in PairClaims /\ pairIndex[j] \in {"due", "gone"}
    BY <1>2 DEF SoundPairCall, ACall
  <2>. QED  BY <1>1, <2>1
<1>4. pairCall[c].then = "formed" => pairCall[c].todo = {}
  BY <1>2 DEF SoundPairCall
<1>5. SoundPairCall(r, pairIndex', duel') /\ ~Forms(r)
  <2>1. CASE r = Quiet
    BY <2>1, QuietIsSound
  <2>2. CASE r = AfterClaim(pairCall[c])
    BY <1>2, <1>3, <1>4, <2>2, AfterClaimIsSound
  <2>. QED  BY <2>1, <2>2
<1>6. ASSUME NEW d \in PairCalls, d # c PROVE SoundPairCall(pairCall[d], pairIndex', duel')
  <2>1. SoundPairCall(pairCall[d], pairIndex, duel)
    BY <1>1, SoundPairCallAt
  <2>2. ~(pairCall[d].pc \in {"check", "commit"} /\ pairCall[d].claim = k)
    BY <1>6
  <2>. QED  BY <1>1, <2>1, <2>2, IndexGoes
<1>. QED  BY <1>1, <1>5, <1>6, PairCallMoves

LEMMA Releases ==
    ASSUME PairInv, NEW c \in PairCalls, Release(c) PROVE PairInv'
<1>1. QueueInv /\ PairCallsInv /\ UNCHANGED duel /\ pairCall[c].pc = "release"
  BY DEF PairInv, Release, In
<1>2. PICK k : k = pairCall[c].claim
  OBVIOUS
<1>3. SoundPairCall(pairCall[c], pairIndex, duel)
  BY <1>1, SoundPairCallAt
<1>4. k \in PairClaims /\ duel[k] = "none" /\ (pairCall[c].then # "formed" => pairIndex[k] \in {"due", "gone"})
  BY <1>1, <1>2, <1>3 DEF SoundPairCall
<1>5. ReleasePair(k, pairCall[c].keep) /\ pairCall' = [pairCall EXCEPT ![c] = AfterClaim(pairCall[c])]
  BY <1>2 DEF Release, Put
<1>6. QueueInv'
  BY <1>1, <1>4, <1>5, ReleasesPair
<1>7. pairIndex' = [pairIndex EXCEPT ![k] = "gone"]
  BY <1>5 DEF ReleasePair
<1>8. ASSUME NEW d \in PairCalls, d # c PROVE ~(pairCall[d].pc \in {"check", "commit"} /\ pairCall[d].claim = k)
  <2>1. SUFFICES ASSUME pairCall[d].pc \in {"check", "commit"}, pairCall[d].claim = k PROVE FALSE
    OBVIOUS
  <2>2. pairCall[d].then = "formed" /\ pairIndex[k] = "waiting"
    BY <1>1, <2>1, SoundPairCallAt DEF SoundPairCall
  <2>3. Forms(pairCall[d])
    BY <2>1, <2>2 DEF Forms
  <2>4. Forms(pairCall[c])
    BY <1>1, <1>4, <2>2 DEF Forms
  <2>. QED  BY <1>1, <1>2, <1>8, <2>1, <2>3, <2>4 DEF PairCallsInv
<1>9. PairCallsInv'
  BY <1>1, <1>4, <1>5, <1>7, <1>8, ClaimSettles
<1>. QED  BY <1>6, <1>9 DEF PairInv

LEMMA Finalizes ==
    ASSUME PairInv, NEW c \in PairCalls, Finalize(c) PROVE PairInv'
<1>1. QueueInv /\ PairCallsInv /\ UNCHANGED duel /\ pairCall[c].pc = "finalize"
  BY DEF PairInv, Finalize, In
<1>2. PICK k : k = pairCall[c].claim
  OBVIOUS
<1>3. SoundPairCall(pairCall[c], pairIndex, duel)
  BY <1>1, SoundPairCallAt
<1>4. k \in PairClaims /\ duel[k] # "none"
  BY <1>1, <1>2, <1>3 DEF SoundPairCall
<1>5. PICK r : pairCall' = [pairCall EXCEPT ![c] = r] /\ (r = Quiet \/ r = AfterClaim(pairCall[c]))
  BY DEF Finalize, Put, Done
<1>6. FinalizePair(k)
  BY <1>2 DEF Finalize
<1>7. QueueInv' /\ pairIndex' = [pairIndex EXCEPT ![k] = "gone"]
  BY <1>1, <1>4, <1>6, FinalizesPair DEF FinalizePair
<1>8. ASSUME NEW d \in PairCalls, d # c PROVE ~(pairCall[d].pc \in {"check", "commit"} /\ pairCall[d].claim = k)
  <2>1. SoundPairCall(pairCall[d], pairIndex, duel)
    BY <1>1, SoundPairCallAt
  <2>. QED  BY <1>4, <2>1 DEF SoundPairCall
<1>9. PairCallsInv'
  BY <1>1, <1>4, <1>5, <1>7, <1>8, ClaimSettles
<1>. QED  BY <1>7, <1>9 DEF PairInv

(* A claimed player asks for the outcome of the claim.                      *)
LEMMA RecoversClaimed ==
    ASSUME PairInv, NEW c \in PairCalls, RecoverClaimed(c) PROVE PairInv'
<1>1. QueueInv /\ PairCallsInv /\ UNCHANGED duel /\ UNCHANGED redisVars /\ pairCall[c].pc = "recover"
  BY DEF PairInv, RecoverClaimed, In
<1>2. pairCall[c] \in ACall /\ SoundPairCall(pairCall[c], pairIndex, duel) /\ pairCall[c].who \in Seekers
  BY <1>1, SoundPairCallAt DEF SoundPairCall
<1>3. PICK k : k = pairCall[c].claim
  OBVIOUS
<1>4. ASSUME NEW r, pairCall' = [pairCall EXCEPT ![c] = r], SoundPairCall(r, pairIndex, duel), ~Forms(r) PROVE PairInv'
  <2>1. PairCallsInv'
    BY <1>1, <1>4, PairCallPasses, IndexStays
  <2>. QED  BY <1>1, <2>1, QueueRests DEF PairInv
<1>5. CASE pairCall' = [pairCall EXCEPT ![c] = Quiet]
  BY <1>4, <1>5, QuietIsSound
<1>6. ASSUME NEW p \in {"find", "finalize"}, k \in pairHash,
             p = "finalize" => duel[k] # "none", p = "find" => pairIndex[k] = "due",
             pairCall' = [pairCall EXCEPT ![c] = [pairCall[c] EXCEPT !.pc = p, !.then = "renew"]]
      PROVE  PairInv'
  <2>1. PICK r : r = [pairCall[c] EXCEPT !.pc = p, !.then = "renew"]
    OBVIOUS
  <2>2. r = [pc |-> p, op |-> pairCall[c].op, who |-> pairCall[c].who, claim |-> k,
             todo |-> pairCall[c].todo, keep |-> pairCall[c].keep, then |-> "renew"]
    BY <1>2, <1>3, <2>1 DEF ACall
  <2>3. k \in PairClaims
    BY <1>1, <1>6 DEF QueueInv
  <2>4. r \in ACall
    BY <1>2, <2>2, <2>3 DEF ACall
  <2>5. SoundPairCall(r, pairIndex, duel) /\ ~Forms(r)
    BY <1>2, <1>6, <2>2, <2>3, <2>4 DEF SoundPairCall, Forms
  <2>. QED  BY <1>4, <1>6, <2>1, <2>5
<1>7. \/ pairCall' = [pairCall EXCEPT ![c] = Quiet]
      \/ /\ k \in pairHash /\ duel[k] # "none"
         /\ pairCall' = [pairCall EXCEPT ![c] = [pairCall[c] EXCEPT !.pc = "finalize", !.then = "renew"]]
      \/ /\ k \in pairHash /\ pairIndex[k] = "due"
         /\ pairCall' = [pairCall EXCEPT ![c] = [pairCall[c] EXCEPT !.pc = "find", !.then = "renew"]]
  BY <1>3 DEF RecoverClaimed, Put, Done
<1>8. CASE /\ k \in pairHash /\ duel[k] # "none"
           /\ pairCall' = [pairCall EXCEPT ![c] = [pairCall[c] EXCEPT !.pc = "finalize", !.then = "renew"]]
  BY <1>6, <1>8
<1>9. CASE /\ k \in pairHash /\ pairIndex[k] = "due"
           /\ pairCall' = [pairCall EXCEPT ![c] = [pairCall[c] EXCEPT !.pc = "find", !.then = "renew"]]
  BY <1>6, <1>9
<1>. QED  BY <1>5, <1>7, <1>8, <1>9

-----------------------------------------------------------------------------
(* A new claim: nobody has its number yet.                                  *)
LEMMA Claims ==
    ASSUME PairInv, NEW c \in PairCalls, Claim(c) PROVE PairInv'
<1>1. QueueInv /\ PairCallsInv /\ UNCHANGED duel /\ pairCall[c].pc = "claim"
  BY DEF PairInv, Claim, In
<1>2. pairCall[c] \in ACall /\ SoundPairCall(pairCall[c], pairIndex, duel) /\ pairCall[c].who \in Seekers
      /\ pairCall[c].todo = {}
  BY <1>1, SoundPairCallAt DEF SoundPairCall
<1>3. CASE ClaimNone /\ Put(c, AfterForm(pairCall[c]))
  <2>1. QueueInv' /\ pairIndex' = pairIndex
    BY <1>1, <1>3, ClaimsNone DEF ClaimNone
  <2>2. SoundPairCall(AfterForm(pairCall[c]), pairIndex, duel) /\ ~Forms(AfterForm(pairCall[c]))
    BY <1>2, AfterFormIsSound
  <2>3. PairCallsInv'
    BY <1>1, <1>3, <2>1, <2>2, PairCallPasses DEF Put
  <2>. QED  BY <2>1, <2>3 DEF PairInv
<1>4. ASSUME NEW k \in PairClaims, ClaimPair(k),
             Put(c, [pairCall[c] EXCEPT !.pc = "check", !.claim = k, !.then = "formed"])
      PROVE  PairInv'
  <2>1. QueueInv' /\ pairIndex[k] = "unused" /\ pairIndex' = [pairIndex EXCEPT ![k] = "waiting"]
    BY <1>1, <1>4, ClaimsPair DEF ClaimPair, FirstUnused
  <2>2. pairIndex'[k] = "waiting" /\ duel[k] = "none" /\ \A j \in PairClaims : j # k => pairIndex'[j] = pairIndex[j]
    BY <1>1, <2>1 DEF QueueInv
  <2>3. PICK r : r = [pairCall[c] EXCEPT !.pc = "check", !.claim = k, !.then = "formed"]
    OBVIOUS
  <2>4. r = [pc |-> "check", op |-> pairCall[c].op, who |-> pairCall[c].who, claim |-> k, todo |-> {},
             keep |-> pairCall[c].keep, then |-> "formed"]
    BY <1>2, <2>3 DEF ACall
  <2>5. r \in ACall
    BY <1>2, <2>4 DEF ACall
  <2>6. SoundPairCall(r, pairIndex', duel') /\ r.claim = k
    BY <1>1, <1>2, <2>2, <2>4, <2>5 DEF SoundPairCall, Forms
  <2>7. ASSUME NEW d \in PairCalls
        PROVE  SoundPairCall(pairCall[d], pairIndex', duel') /\ (Forms(pairCall[d]) => pairCall[d].claim # r.claim)
    <3>1. SoundPairCall(pairCall[d], pairIndex, duel) /\ pairCall[d].todo \subseteq PairClaims
      BY <1>1, SoundPairCallAt DEF ACall
    <3>2. \A j \in pairCall[d].todo : pairIndex'[j] \in {"due", "gone"}
      BY <2>1, <2>2, <3>1 DEF SoundPairCall
    <3>3. pairCall[d].claim \in PairClaims /\ pairIndex[pairCall[d].claim] # "unused"
            => pairIndex'[pairCall[d].claim] = pairIndex[pairCall[d].claim]
      BY <2>1, <2>2
    <3>. QED  BY <1>1, <2>1, <2>6, <3>1, <3>2, <3>3 DEF SoundPairCall, Forms
  <2>8. pairCall' = [pairCall EXCEPT ![c] = r]
    BY <1>4, <2>3 DEF Put
  <2>9. PairCallsInv'
    BY <1>1, <2>6, <2>7, <2>8, PairCallMoves
  <2>. QED  BY <2>1, <2>9 DEF PairInv
<1>. QED  BY <1>3, <1>4 DEF Claim

(* The match becomes durable, or was refused.                               *)
LEMMA Commits ==
    ASSUME PairInv, NEW c \in PairCalls, CreateFormationBundle(c) PROVE PairInv'
<1>1. QueueInv /\ PairCallsInv /\ UNCHANGED redisVars /\ pairCall[c].pc = "commit" /\ pairIndex' = pairIndex
  BY IndexStays DEF PairInv, CreateFormationBundle, In
<1>2. PICK k : k = pairCall[c].claim
  OBVIOUS
<1>3. pairCall[c] \in ACall /\ SoundPairCall(pairCall[c], pairIndex, duel)
  BY <1>1, SoundPairCallAt
<1>4. k \in PairClaims /\ pairCall[c].then = "formed" /\ pairIndex[k] = "waiting" /\ duel[k] = "none"
  BY <1>1, <1>2, <1>3 DEF SoundPairCall
<1>5. Forms(pairCall[c])
  BY <1>1, <1>4 DEF Forms
<1>6. CASE duel' = [duel EXCEPT ![k] = "active"] /\ pairCall' = [pairCall EXCEPT ![c] = [pairCall[c] EXCEPT !.pc = "finalize"]]
  <2>1. /\ duel' \in [PairClaims -> {"none", "active", "over"}] /\ duel'[k] = "active"
        /\ \A j \in PairClaims : j # k => duel'[j] = duel[j]
    <3>1. duel \in [PairClaims -> {"none", "active", "over"}]
      BY <1>1 DEF QueueInv
    <3>. QED  BY <1>4, <1>6, <3>1
  <2>2. UNCHANGED <<player, lane, owner, pairHash, pairClaim, made>> /\ k \in pairHash
    BY <1>1, <1>4 DEF redisVars, QueueInv
  <2>3. \A j \in PairClaims : /\ j \in pairHash => pairIndex'[j] \in {"waiting", "due"}
                              /\ pairIndex'[j] = "waiting" => j \in pairHash
                              /\ pairIndex'[j] = "unused" => duel'[j] = "none"
                              /\ duel'[j] # "none" => j \in pairHash \/ duel[j] # "none"
    BY <1>1, <1>4, <2>1, <2>2 DEF QueueInv
  <2>4. QueueInv'
    <3>1. pairIndex' \in [PairClaims -> {"unused", "waiting", "due", "gone"}]
      BY <1>1 DEF QueueInv
    <3>. QED  BY <1>1, <2>1, <2>2, <2>3, <3>1, QueueStands
  <2>5. PICK r : r = [pairCall[c] EXCEPT !.pc = "finalize"]
    OBVIOUS
  <2>6. r = [pc |-> "finalize", op |-> pairCall[c].op, who |-> pairCall[c].who, claim |-> k, todo |-> pairCall[c].todo,
             keep |-> pairCall[c].keep, then |-> pairCall[c].then]
    BY <1>2, <1>3, <2>5 DEF ACall
  <2>7. r \in ACall
    BY <1>3, <1>4, <2>6 DEF ACall
  <2>8. SoundPairCall(r, pairIndex', duel') /\ r.claim = k
    BY <1>1, <1>3, <1>4, <2>1, <2>6, <2>7 DEF SoundPairCall, Forms
  <2>9. ASSUME NEW d \in PairCalls, d # c
        PROVE  SoundPairCall(pairCall[d], pairIndex', duel') /\ (Forms(pairCall[d]) => pairCall[d].claim # k)
    <3>1. SoundPairCall(pairCall[d], pairIndex, duel)
      BY <1>1, SoundPairCallAt
    <3>2. Forms(pairCall[d]) => pairCall[d].claim # k
      BY <1>1, <1>2, <1>5, <2>9 DEF PairCallsInv
    <3>3. pairCall[d].pc \in {"check", "commit", "assess", "release"} => pairCall[d].claim # k
      BY <1>4, <3>1, <3>2 DEF SoundPairCall, Forms
    <3>4. pairCall[d].pc \in {"check", "commit", "assess", "release", "finalize"} => pairCall[d].claim \in PairClaims
      BY <3>1 DEF SoundPairCall
    <3>5. /\ pairCall[d].pc \in {"check", "commit", "assess", "release"} => duel'[pairCall[d].claim] = "none"
          /\ pairCall[d].pc = "finalize" => duel'[pairCall[d].claim] # "none"
      BY <2>1, <3>1, <3>3, <3>4 DEF SoundPairCall
    <3>. QED  BY <1>1, <3>1, <3>2, <3>5 DEF SoundPairCall
  <2>10. PairCallsInv'
    BY <1>1, <1>6, <2>5, <2>8, <2>9, PairCallMoves
  <2>. QED  BY <2>4, <2>10 DEF PairInv
<1>7. CASE UNCHANGED duel /\ pairCall' = [pairCall EXCEPT ![c] = [pairCall[c] EXCEPT !.pc = "assess"]]
  <2>1. PICK r : r = [pairCall[c] EXCEPT !.pc = "assess"]
    OBVIOUS
  <2>2. r = [pc |-> "assess", op |-> pairCall[c].op, who |-> pairCall[c].who, claim |-> k, todo |-> pairCall[c].todo,
             keep |-> pairCall[c].keep, then |-> pairCall[c].then]
    BY <1>2, <1>3, <2>1 DEF ACall
  <2>3. r \in ACall
    BY <1>3, <1>4, <2>2 DEF ACall
  <2>4. SoundPairCall(r, pairIndex, duel) /\ r.claim = pairCall[c].claim
    BY <1>1, <1>2, <1>3, <1>4, <2>2, <2>3 DEF SoundPairCall, Forms
  <2>5. PairCallsInv'
    BY <1>1, <1>5, <1>7, <2>1, <2>4, PairCallPasses
  <2>. QED  BY <1>1, <1>7, <2>5, QueueRests DEF PairInv
<1>. QED  BY <1>2, <1>6, <1>7 DEF CreateFormationBundle, Step, Put

-----------------------------------------------------------------------------
(* A call fails, or its process dies.                                       *)
LEMMA CallFails ==
    ASSUME PairInv, NEW c \in PairCalls, PairFault(c) PROVE PairInv'
<1>1. QueueInv /\ PairCallsInv /\ UNCHANGED duel /\ UNCHANGED redisVars /\ pairCall[c].pc # "idle"
  BY DEF PairInv, PairFault, In
<1>2. pairCall[c] \in ACall /\ SoundPairCall(pairCall[c], pairIndex, duel) /\ pairCall[c].who \in Seekers
  BY <1>1, SoundPairCallAt DEF SoundPairCall
<1>3. ASSUME NEW r, pairCall' = [pairCall EXCEPT ![c] = r], SoundPairCall(r, pairIndex, duel), ~Forms(r) PROVE PairInv'
  <2>1. PairCallsInv'
    BY <1>1, <1>3, PairCallPasses, IndexStays
  <2>. QED  BY <1>1, <2>1, QueueRests DEF PairInv
<1>4. CASE pairCall' = [pairCall EXCEPT ![c] = Quiet]
  BY <1>3, <1>4, QuietIsSound
<1>5. CASE pairCall[c].then = "claim" /\ pairCall' = [pairCall EXCEPT ![c] = AfterClaim(pairCall[c])]
  <2>1. \A j \in pairCall[c].todo : pairIndex[j] \in {"due", "gone"}
    BY <1>2 DEF SoundPairCall
  <2>2. SoundPairCall(AfterClaim(pairCall[c]), pairIndex, duel) /\ ~Forms(AfterClaim(pairCall[c]))
    BY <1>2, <1>5, <2>1, AfterClaimIsSound
  <2>. QED  BY <1>3, <1>5, <2>2
<1>6. CASE pairCall' = [pairCall EXCEPT ![c] = [pairCall[c] EXCEPT !.pc = "claim", !.todo = {}, !.then = "claim"]]
  <2>1. PICK r : r = [pairCall[c] EXCEPT !.pc = "claim", !.todo = {}, !.then = "claim"]
    OBVIOUS
  <2>2. r = [pc |-> "claim", op |-> pairCall[c].op, who |-> pairCall[c].who, claim |-> pairCall[c].claim,
             todo |-> {}, keep |-> pairCall[c].keep, then |-> "claim"]
    BY <1>2, <2>1 DEF ACall
  <2>3. SoundPairCall(r, pairIndex, duel) /\ ~Forms(r)
    BY <1>2, <2>2 DEF SoundPairCall, Forms, ACall
  <2>. QED  BY <1>3, <1>6, <2>1, <2>3
<1>7. CASE pairCall' = [pairCall EXCEPT ![c] = AfterForm(pairCall[c])]
  <2>1. SoundPairCall(AfterForm(pairCall[c]), pairIndex, duel) /\ ~Forms(AfterForm(pairCall[c]))
    BY <1>2, AfterFormIsSound
  <2>. QED  BY <1>3, <1>7, <2>1
<1>. QED  BY <1>4, <1>5, <1>6, <1>7 DEF PairFault, Put, Done

(* A claim falls due: where its maker is over by then, as ClaimOutlives     *)
(* says, nobody relies on its waiting.                                      *)
LEMMA FallsDue ==
    ASSUME PairInv, ClaimOutlives, NEW k \in PairClaims, ClaimFallsDue(k) PROVE PairInv'
<1>1. /\ QueueInv /\ PairCallsInv /\ duel' = duel /\ pairIndex[k] = "waiting" /\ pairIndex' = [pairIndex EXCEPT ![k] = "due"]
      /\ UNCHANGED <<player, lane, owner, pairHash, pairClaim, made>>
  BY DEF PairInv, ClaimFallsDue
<1>2. /\ pairIndex' \in [PairClaims -> {"unused", "waiting", "due", "gone"}] /\ pairIndex'[k] = "due"
      /\ \A j \in PairClaims : j # k => pairIndex'[j] = pairIndex[j]
  BY <1>1 DEF QueueInv
<1>3. QueueInv'
  <2>1. \A j \in PairClaims : /\ j \in pairHash => pairIndex'[j] \in {"waiting", "due"}
                              /\ pairIndex'[j] = "waiting" => j \in pairHash
                              /\ pairIndex'[j] = "unused" => duel'[j] = "none"
                              /\ duel'[j] # "none" => j \in pairHash \/ duel[j] # "none"
    BY <1>1, <1>2 DEF QueueInv
  <2>2. duel' \in [PairClaims -> {"none", "active", "over"}]
    BY <1>1 DEF QueueInv
  <2>. QED  BY <1>1, <1>2, <2>1, <2>2, QueueStands
<1>4. /\ DOMAIN pairCall' = PairCalls /\ pairCall' = [d \in PairCalls |-> pairCall'[d]]
      /\ \A d \in PairCalls : \/ pairCall'[d] = Quiet
                              \/ pairCall'[d] = pairCall[d] /\ ~(pairCall[d].then = "formed" /\ pairCall[d].claim = k)
  BY DEF ClaimFallsDue
<1>5. ASSUME NEW d \in PairCalls
      PROVE  SoundPairCall(pairCall'[d], pairIndex', duel') /\ (Forms(pairCall'[d]) => pairCall'[d] = pairCall[d])
  <2>1. CASE pairCall'[d] = Quiet
    BY <2>1, QuietIsSound
  <2>2. CASE pairCall'[d] = pairCall[d] /\ ~(pairCall[d].then = "formed" /\ pairCall[d].claim = k)
    <3>1. SoundPairCall(pairCall[d], pairIndex, duel) /\ pairCall[d].todo \subseteq PairClaims
      BY <1>1, SoundPairCallAt DEF ACall
    <3>2. \A j \in pairCall[d].todo : pairIndex'[j] \in {"due", "gone"}
      BY <1>2, <3>1 DEF SoundPairCall
    <3>3. pairCall[d].claim \in PairClaims => \/ pairIndex'[pairCall[d].claim] = pairIndex[pairCall[d].claim]
                                              \/ pairCall[d].claim = k /\ pairIndex'[pairCall[d].claim] = "due"
      BY <1>2
    <3>4. SoundPairCall(pairCall[d], pairIndex', duel')
      BY <1>1, <2>2, <3>1, <3>2, <3>3 DEF SoundPairCall, Forms
    <3>. QED  BY <2>2, <3>4
  <2>. QED  BY <1>4, <2>1, <2>2
<1>6. pairCall' \in [PairCalls -> ACall]
  BY <1>4, <1>5 DEF SoundPairCall
<1>7. PairCallsInv'
  BY <1>1, <1>5, <1>6 DEF PairCallsInv
<1>. QED  BY <1>3, <1>7 DEF PairInv

LEMMA DuelsEnd ==
    ASSUME PairInv, NEW k \in PairClaims, DuelEnds(k) PROVE PairInv'
<1>1. /\ QueueInv /\ PairCallsInv /\ UNCHANGED redisVars /\ duel[k] = "active" /\ duel' = [duel EXCEPT ![k] = "over"]
      /\ pairCall' = pairCall /\ pairIndex' = pairIndex
  BY IndexStays DEF PairInv, DuelEnds
<1>2. /\ duel' \in [PairClaims -> {"none", "active", "over"}]
      /\ \A j \in PairClaims : duel'[j] = "none" <=> duel[j] = "none"
  <2>1. duel \in [PairClaims -> {"none", "active", "over"}]
    BY <1>1 DEF QueueInv
  <2>. QED  BY <1>1, <2>1
<1>3. QueueInv'
  <2>1. \A j \in PairClaims : /\ j \in pairHash => pairIndex'[j] \in {"waiting", "due"}
                              /\ pairIndex'[j] = "waiting" => j \in pairHash
                              /\ pairIndex'[j] = "unused" => duel'[j] = "none"
                              /\ duel'[j] # "none" => j \in pairHash \/ duel[j] # "none"
    BY <1>1, <1>2 DEF QueueInv
  <2>2. UNCHANGED <<player, lane, owner, pairHash, pairClaim, made>>
    BY <1>1 DEF redisVars
  <2>3. pairIndex' \in [PairClaims -> {"unused", "waiting", "due", "gone"}]
    BY <1>1 DEF QueueInv
  <2>. QED  BY <1>1, <1>2, <2>1, <2>2, <2>3, QueueStands
<1>4. \A d \in PairCalls : SoundPairCall(pairCall[d], pairIndex, duel')
  BY <1>1, <1>2, SoundPairCallAt DEF SoundPairCall
<1>5. PairCallsInv'
  BY <1>1, <1>4 DEF PairCallsInv
<1>. QED  BY <1>3, <1>5 DEF PairInv

LEMMA OthersPass ==
    ASSUME PairInv, NEW u \in Seekers, LeaseEnds(u) \/ Suspend(u) PROVE PairInv'
<1>1. QueueInv /\ PairCallsInv /\ UNCHANGED <<pairCall, pairIndex, duel>>
  BY IndexStays DEF PairInv, LeaseEnds, Suspend
<1>2. PairCallsInv'
  BY <1>1 DEF PairCallsInv
<1>3. CASE LeaseEnds(u)
  BY <1>1, <1>2, <1>3, LeasesEnd DEF PairInv
<1>4. CASE Suspend(u)
  <2>1. UNCHANGED redisVars /\ UNCHANGED duel
    BY <1>4 DEF Suspend
  <2>. QED  BY <1>1, <1>2, <2>1, QueueRests DEF PairInv
<1>. QED  BY <1>3, <1>4

LEMMA PairStarts == PairInit => PairInv
<1>1. SUFFICES ASSUME PairInit PROVE PairInv
  OBVIOUS
<1>2. /\ player = [u \in Seekers |-> Nobody] /\ lane = {}
      /\ owner = [e \in Entries |-> "none"] /\ made = [e \in Entries |-> "none"]
      /\ pairHash = {} /\ pairClaim = [k \in PairClaims |-> {}] /\ pairIndex = [k \in PairClaims |-> "unused"]
      /\ duel = [k \in PairClaims |-> "none"] /\ pairCall = [c \in PairCalls |-> Quiet]
  BY <1>1 DEF PairInit
<1>3. player \in [Seekers -> [entry : Entries \cup {0}, state : {"absent", "searching", "claimed"},
                               claim : PairClaims \cup {0}, live : BOOLEAN]]
  BY <1>2, NobodyIsSound
<1>4. \A u \in Seekers : SoundPlayer(u)
  BY <1>2, NobodyIsSound DEF SoundPlayer
<1>5. QueueInv
  BY <1>2, <1>3, <1>4 DEF QueueInv
<1>6. pairCall \in [PairCalls -> ACall] /\ \A c \in PairCalls : pairCall[c] = Quiet
  BY <1>2, QuietIsSound
<1>7. PairCallsInv
  BY <1>6, QuietIsSound DEF PairCallsInv
<1>. QED  BY <1>5, <1>7 DEF PairInv

(* Under ClaimOutlives, as every request's deadline is short of             *)
(* recover_after: what players are told of queue and claims is so, and no   *)
(* request acts on a claim that another settles differently.                *)
THEOREM PairInvariant == ASSUME ClaimOutlives PROVE PairSpec => []PairInv
<1>1. PairInit => PairInv
  BY PairStarts
<1>2. PairInv /\ [PairNext]_pairVars => PairInv'
  <2>1. SUFFICES ASSUME PairInv, [PairNext]_pairVars PROVE PairInv'
    OBVIOUS
  <2>2. CASE UNCHANGED pairVars
    <3>1. QueueInv /\ PairCallsInv /\ UNCHANGED <<redisVars, duel, pairCall>>
      BY <2>1, <2>2 DEF PairInv, pairVars, redisVars
    <3>2. PairCallsInv'
      BY <3>1, IndexStays DEF PairCallsInv
    <3>. QED  BY <3>1, <3>2, QueueRests DEF PairInv
  <2>3. ASSUME NEW c \in PairCalls, NEW u \in Seekers, JoinQueue(c, u) \/ LeaveQueue(c, u) \/ GetStatus(c, u) PROVE PairInv'
    BY <2>1, <2>3, RequestBegins
  <2>4. ASSUME NEW c \in PairCalls,
               \/ JoinLegacyPairQueue(c) \/ LeaveNow(c) \/ StatusWithoutDurable(c) \/ RenewReleased(c)
               \/ ListExpired(c) \/ GetClaim(c) \/ FindMatch(c) \/ Assess(c) \/ Check(c) \/ Release(c) \/ Finalize(c)
               \/ RecoverClaimed(c) \/ Claim(c) \/ CreateFormationBundle(c) \/ PairFault(c)
        PROVE  PairInv'
    <3>1. CASE JoinLegacyPairQueue(c) \/ LeaveNow(c) \/ StatusWithoutDurable(c) \/ RenewReleased(c)
      BY <2>1, <3>1, RequestScripts
    <3>2. CASE FindMatch(c) \/ Assess(c) \/ Check(c)
      BY <2>1, <3>2, FindsAndAssesses
    <3>. QED  BY <2>1, <2>4, <3>1, <3>2, ListsExpired, GetsClaim, Releases, Finalizes, RecoversClaimed, Claims,
                 Commits, CallFails
  <2>5. ASSUME NEW u \in Seekers, LeaseEnds(u) \/ Suspend(u) PROVE PairInv'
    BY <2>1, <2>5, OthersPass
  <2>6. ASSUME NEW k \in PairClaims, ClaimFallsDue(k) \/ DuelEnds(k) PROVE PairInv'
    BY <2>1, <2>6, FallsDue, DuelsEnd
  <2>. QED  BY <2>1, <2>2, <2>3, <2>4, <2>5, <2>6 DEF PairNext
<1>. QED  BY <1>1, <1>2, PTL DEF PairSpec

LEMMA PlayersAreFound == PairInv => SearchersAreFound
<1>1. SUFFICES ASSUME PairInv PROVE SearchersAreFound
  OBVIOUS
<1>2. \A u \in Seekers : SoundPlayer(u)
  BY <1>1 DEF PairInv, QueueInv
<1>3. \A k \in pairHash : pairIndex[k] \in {"waiting", "due"}
  BY <1>1 DEF PairInv, QueueInv
<1>. QED  BY <1>2, <1>3 DEF SearchersAreFound, SoundPlayer

THEOREM SearchersAlwaysFound == ASSUME ClaimOutlives PROVE PairSpec => []SearchersAreFound
  BY PairInvariant, PlayersAreFound, PTL

-----------------------------------------------------------------------------
(* The windows of ranked search.                                            *)

(* What MeetsInsideWindow needs: parties meet together, and a meeting is of *)
(* parties whose averages were, and still are, within the wider window.     *)
SearchInv ==
    /\ team \in [Sought -> [1..TeamSize -> Standing]]
    /\ search \in [Sought -> {"none", "searching", "met"}]
    /\ average \in [Sought -> Nat] /\ waited \in [Sought -> Nat]
    /\ \A s, t \in Sought : search[s] = "met" => search[t] = "met" /\ (s # t => Compatible(s, t))

(* A window never narrows with waiting, nor with a wider cap.               *)
LEMMA WindowsWiden ==
    ASSUME NEW v \in Nat, NEW w \in Nat, v <= w, NEW c \in Nat, NEW d \in Nat, c <= d
    PROVE  HalfWidth(v, c) \in Nat /\ HalfWidth(w, d) \in Nat /\ HalfWidth(v, c) <= HalfWidth(w, d)
<1>1. ASSUME NEW u \in Nat, NEW e \in Nat PROVE HalfWidth(u, e) = IF 100 + 50 * u <= e THEN 100 + 50 * u ELSE e
  <2>1. 100 + 50 * u \in Int /\ e \in Int
    OBVIOUS
  <2>. QED  BY <2>1, LesserOfTwo DEF HalfWidth, RatingWindowInitial, RatingWindowStep
<1>2. HalfWidth(v, c) = IF 100 + 50 * v <= c THEN 100 + 50 * v ELSE c
  BY <1>1
<1>3. HalfWidth(w, d) = IF 100 + 50 * w <= d THEN 100 + 50 * w ELSE d
  BY <1>1
<1>4. 100 + 50 * v <= 100 + 50 * w /\ 100 + 50 * v \in Nat /\ 100 + 50 * w \in Nat
  OBVIOUS
<1>. QED  BY <1>2, <1>3, <1>4

(* Parties are compatible either way round.                                 *)
LEMMA CompatibleEitherWay ==
    ASSUME SearchInv, NEW s \in Sought, NEW t \in Sought, Compatible(s, t) PROVE Compatible(t, s)
<1>1. {average[s] - average[t], average[t] - average[s]} = {average[t] - average[s], average[s] - average[t]}
      /\ {HalfWidth(waited[s], MaxDelta), HalfWidth(waited[t], MaxDelta)}
           = {HalfWidth(waited[t], MaxDelta), HalfWidth(waited[s], MaxDelta)}
  OBVIOUS
<1>. QED  BY <1>1 DEF Compatible

(* The average of a party's ratings is a rating's magnitude: a number.      *)
LEMMA AverageIsNat ==
    ASSUME SearchInv, NEW s \in Sought PROVE TeamAverageRating(s) \in Nat
<1>. DEFINE f == [i \in 1..TeamSize |-> team[s][i].rating]
<1>1. TeamSize \in Nat /\ TeamSize > 0 /\ Ratings \subseteq Nat
  BY SearchAssumption
<1>2. \A i \in 1..TeamSize : f[i] \in Nat
  BY <1>1 DEF SearchInv, Standing
<1>3. IsFiniteSet(1..TeamSize)
  BY <1>1, FS_Interval
<1>4. PICK n : n = SumFunctionOnSet(f, 1..TeamSize)
  OBVIOUS
<1>. HIDE DEF f
<1>5. n \in Nat
  BY <1>2, <1>3, <1>4, SumIsNat
<1>6. n \div TeamSize \in Nat
  BY <1>1, <1>5
<1>. QED  BY <1>4, <1>6 DEF TeamAverageRating, f

LEMMA SearchStep == SearchInv /\ [SearchNext]_searchVars => SearchInv'
<1>. SUFFICES ASSUME SearchInv, [SearchNext]_searchVars PROVE SearchInv'
  OBVIOUS
<1>1. ASSUME NEW s \in Sought, JoinRanked(s) PROVE SearchInv'
  <2>1. /\ search[s] = "none" /\ search' = [search EXCEPT ![s] = "searching"]
        /\ average' = [average EXCEPT ![s] = TeamAverageRating(s)] /\ UNCHANGED <<team, waited>>
    BY <1>1 DEF JoinRanked
  <2>2. TeamAverageRating(s) \in Nat
    BY AverageIsNat
  <2>3. \A t \in Sought : search[t] # "met" /\ search'[t] # "met"
    BY <2>1 DEF SearchInv
  <2>. QED  BY <2>1, <2>2, <2>3 DEF SearchInv
<1>2. ASSUME NEW s \in Sought, NEW t \in Sought, ClaimRanked(s, t) PROVE SearchInv'
  <2>1. s # t /\ Compatible(s, t) /\ search' = [u \in Sought |-> "met"] /\ UNCHANGED <<team, average, waited>>
    BY <1>2 DEF ClaimRanked
  <2>2. Compatible(t, s)
    BY <2>1, CompatibleEitherWay
  <2>3. \A u, v \in Sought : u # v => Compatible(u, v)
    BY <2>1, <2>2 DEF Sought
  <2>4. \A u, v \in Sought : u # v => Compatible(u, v)'
    BY <2>1, <2>3 DEF Compatible
  <2>. QED  BY <2>1, <2>4 DEF SearchInv
<1>3. ASSUME NEW s \in Sought, HalfMinute(s) PROVE SearchInv'
  <2>1. search[s] = "searching" /\ waited' = [waited EXCEPT ![s] = @ + 1] /\ UNCHANGED <<team, search, average>>
    BY <1>3 DEF HalfMinute
  <2>2. \A t \in Sought : search[t] # "met"
    BY <2>1 DEF SearchInv
  <2>. QED  BY <2>1, <2>2 DEF SearchInv
<1>4. CASE UNCHANGED searchVars
  BY <1>4 DEF searchVars, SearchInv, Compatible
<1>5. CASE SearchNext
  BY <1>1, <1>2, <1>3, <1>5 DEF SearchNext
<1>. QED  BY <1>4, <1>5

LEMMA MeetingsAreShown == SearchInv => MeetsInsideWindow
<1>. SUFFICES ASSUME SearchInv, NEW s \in Sought, NEW t \in Sought,
                     s # t, search[s] = "met", waited[s] >= waited[t]
              PROVE  average[t] >= Shown(s).low /\ average[t] <= Shown(s).high
  BY DEF MeetsInsideWindow
<1>1. Compatible(s, t) /\ waited[s] \in Nat /\ waited[t] \in Nat /\ average[s] \in Nat /\ average[t] \in Nat
  BY DEF SearchInv
<1>2. MaxDelta \in Nat /\ 400 \in Nat /\ MaxDelta <= 400 /\ RatingWindowCap = 400
  BY SearchAssumption DEF RatingWindowInitial, RatingWindowCap
<1>3. PICK h, i, j : h = HalfWidth(waited[s], 400) /\ i = HalfWidth(waited[s], MaxDelta) /\ j = HalfWidth(waited[t], MaxDelta)
  OBVIOUS
<1>4. h \in Nat /\ i \in Nat /\ j \in Nat /\ j <= i /\ i <= h
  <2>1. waited[s] \in Nat /\ waited[t] \in Nat /\ waited[t] <= waited[s] /\ waited[s] <= waited[s]
    BY <1>1
  <2>2. MaxDelta \in Nat /\ 400 \in Nat /\ MaxDelta <= 400 /\ MaxDelta <= MaxDelta
    BY <1>2
  <2>3. HalfWidth(waited[s], MaxDelta) <= HalfWidth(waited[s], 400) /\ HalfWidth(waited[s], 400) \in Nat
    <3>1. ASSUME NEW w \in Nat, NEW v \in Nat, v <= w
          PROVE  HalfWidth(v, MaxDelta) <= HalfWidth(w, 400) /\ HalfWidth(w, 400) \in Nat
      BY <2>2, <3>1, WindowsWiden
    <3>. QED  BY <2>1, <3>1
  <2>4. HalfWidth(waited[t], MaxDelta) <= HalfWidth(waited[s], MaxDelta)
        /\ HalfWidth(waited[t], MaxDelta) \in Nat /\ HalfWidth(waited[s], MaxDelta) \in Nat
    BY ZenonT(30), <2>1, <2>2, WindowsWiden
  <2>. QED  BY <1>3, <2>3, <2>4
<1>5. PICK m, n : m = average[s] /\ n = average[t]
  OBVIOUS
<1>6. m \in Nat /\ n \in Nat /\ m - n \in Int /\ n - m \in Int /\ m - h \in Int
  BY <1>1, <1>4, <1>5
<1>7. Max({m - n, n - m}) <= Max({i, j})
  BY <1>1, <1>3, <1>5 DEF Compatible
<1>8. Max({i, j}) = i
  BY <1>4, GreaterOfTwo
<1>9. Max({m - n, n - m}) = IF m - n >= n - m THEN m - n ELSE n - m
  BY <1>6, GreaterOfTwo
<1>10. m - n <= h /\ n - m <= h
  BY <1>4, <1>6, <1>7, <1>8, <1>9
<1>11. Max({0, m - h}) = IF 0 >= m - h THEN 0 ELSE m - h
  BY <1>6, GreaterOfTwo
<1>12. n >= Max({0, m - h}) /\ n <= m + h
  BY <1>4, <1>6, <1>10, <1>11
<1>13. Shown(s).low = Max({0, m - h}) /\ Shown(s).high = m + h
  BY <1>2, <1>3, <1>5 DEF Shown
<1>. QED  BY <1>5, <1>12, <1>13

(* Whatever the ratings, the team size and the waiting, of two parties that *)
(* the claim script pairs the one that waited longer has the other's average *)
(* inside the window its status shows.                                      *)
THEOREM PartiesMeetInside == SearchSpec => []MeetsInsideWindow
<1>1. SearchInit => SearchInv
  BY DEF SearchInit, SearchInv
<1>2. SearchInv /\ [SearchNext]_searchVars => SearchInv'
  BY SearchStep
<1>. QED  BY <1>1, <1>2, MeetingsAreShown, PTL DEF SearchSpec

(* Both searches beside the team queue keep what they tell their players.   *)
THEOREM SearchersAlwaysServed == ASSUME ClaimOutlives PROVE PairSpec /\ SearchSpec => []SearchersAreServed
<1>1. SearchersAreFound /\ MeetsInsideWindow => SearchersAreServed
  BY DEF SearchersAreServed
<1>. QED  BY <1>1, SearchersAlwaysFound, PartiesMeetInside, PTL

-----------------------------------------------------------------------------
(* The types of the pair queue hold however late requests are.              *)
APlayer == [entry : Entries \cup {0}, state : {"absent", "searching", "claimed"}, claim : PairClaims \cup {0}, live : BOOLEAN]

PairRows ==
    /\ player \in [Seekers -> APlayer]
    /\ \A u \in Seekers : player[u].state = "claimed" => player[u].claim \in PairClaims
    /\ lane \subseteq Entries
    /\ owner \in [Entries -> Seekers \cup {"none"}] /\ made \in [Entries -> Seekers \cup {"none"}]
    /\ pairHash \subseteq PairClaims /\ pairClaim \in [PairClaims -> SUBSET Entries]
    /\ pairIndex \in [PairClaims -> {"unused", "waiting", "due", "gone"}]

(* A request knows whom it is for, which claim it handles, and what follows. *)
SoundShape(r) ==
    /\ r \in ACall /\ r.pc # "none" /\ (r.pc # "idle" => r.who \in Seekers)
    /\ r.pc \in {"find", "assess", "release", "finalize", "check", "commit", "recover"} => r.claim \in PairClaims
    /\ r.pc \in {"get", "find", "assess", "release", "finalize", "check", "commit"} => r.then # "none"
    /\ r.pc = "get" => r.todo # {}

PairShapes ==
    /\ PairRows /\ pairBlock \subseteq Seekers /\ pairFault \in 0..PairFaults
    /\ duel \in [PairClaims -> {"none", "active", "over"}]
    /\ DOMAIN pairCall = PairCalls /\ pairCall = [c \in PairCalls |-> pairCall[c]]
    /\ \A c \in PairCalls : SoundShape(pairCall[c])

LEMMA ShapesTyped == PairShapes => PairTypeOK
<1>. SUFFICES ASSUME PairShapes PROVE PairTypeOK
  OBVIOUS
<1>1. \A c \in PairCalls : pairCall[c].pc \in {"idle", "join", "leave", "list", "get", "find", "assess", "release",
         "finalize", "claim", "check", "commit", "status", "recover", "renew"}
  BY DEF PairShapes, SoundShape, ACall
<1>. QED  BY <1>1 DEF PairShapes, PairRows, APlayer, PairTypeOK

(* Every script leaves rows of their types. *)
LEMMA ScriptsKeepRows ==
    ASSUME PairRows,
           \/ UNCHANGED redisVars
           \/ \E u \in Seekers : JoinPair(u) \/ RenewPair(u) \/ LeavePair(u)
           \/ ClaimNone
           \/ \E k \in PairClaims : ClaimPair(k) \/ FinalizePair(k) \/ DropPairIndex(k)
                                      \/ \E keep : ReleasePair(k, keep)
    PROVE  PairRows'
<1>1. ASSUME UNCHANGED redisVars PROVE PairRows'
  BY <1>1 DEF redisVars, PairRows
<1>2. Nobody \in APlayer /\ Nobody.state = "absent"
  BY DEF Nobody, APlayer
<1>3. ASSUME NEW u \in Seekers, Cleared(u) PROVE PairRows'
  BY <1>2, <1>3 DEF Cleared, PairRows
<1>4. ASSUME NEW u \in Seekers, JoinPair(u) PROVE PairRows'
  <2>1. CASE ~(UNCHANGED redisVars)
    <3>1. PICK e \in Entries :
            /\ player' = [player EXCEPT ![u] = [entry |-> e, state |-> "searching", claim |-> 0, live |-> TRUE]]
            /\ lane' = (lane \ {player[u].entry}) \cup {e}
            /\ owner' = [d \in Entries |-> IF d = e THEN u ELSE IF d = player[u].entry THEN "none" ELSE owner[d]]
            /\ made' = [made EXCEPT ![e] = u]
            /\ UNCHANGED <<pairHash, pairClaim, pairIndex>>
      BY <1>4, <2>1 DEF JoinPair
    <3>2. [entry |-> e, state |-> "searching", claim |-> 0, live |-> TRUE] \in APlayer
      BY DEF APlayer
    <3>. QED  BY <3>1, <3>2 DEF PairRows
  <2>. QED  BY <1>1, <2>1
<1>5. ASSUME NEW u \in Seekers, RenewPair(u) \/ LeavePair(u) PROVE PairRows'
  BY <1>1, <1>3, <1>5 DEF RenewPair, LeavePair
<1>6. \A u \in Seekers : PlayersSwept[u] \in {player[u], Nobody}
  BY DEF PlayersSwept
<1>7. OwnersSwept \in [Entries -> Seekers \cup {"none"}] /\ Pair \subseteq Entries
  BY DEF PairRows, OwnersSwept, Pair, Usable
<1>8. CASE ClaimNone
  <2>1. PlayersSwept = [u \in Seekers |-> PlayersSwept[u]]
    BY DEF PlayersSwept
  <2>. QED  BY <1>2, <1>6, <1>7, <1>8, <2>1 DEF ClaimNone, PairRows
<1>9. ASSUME NEW k \in PairClaims, ClaimPair(k) PROVE PairRows'
  <2>1. \A u \in Seekers : /\ [player[u] EXCEPT !.state = "claimed", !.claim = k] \in APlayer
                           /\ [player[u] EXCEPT !.state = "claimed", !.claim = k].claim = k
    BY DEF PairRows, APlayer
  <2>2. \A u \in Seekers : player'[u] \in APlayer /\ (player'[u].state = "claimed" => player'[u].claim \in PairClaims)
    BY <1>2, <1>6, <1>9, <2>1 DEF ClaimPair, PairRows
  <2>3. player' = [u \in Seekers |-> player'[u]]
    BY <1>9 DEF ClaimPair
  <2>. QED  BY <1>7, <1>9, <2>2, <2>3 DEF ClaimPair, PairRows
<1>10. ASSUME NEW k \in PairClaims, FinalizePair(k) PROVE PairRows'
  BY <1>2, <1>10 DEF FinalizePair, PairRows
<1>11. ASSUME NEW k \in PairClaims, DropPairIndex(k) PROVE PairRows'
  BY <1>11 DEF DropPairIndex, PairRows
<1>12. ASSUME NEW k \in PairClaims, NEW keep, ReleasePair(k, keep) PROVE PairRows'
  <2>1. CASE k \notin pairHash
    BY <1>12, <2>1 DEF ReleasePair, PairRows
  <2>2. CASE k \in pairHash
    <3>1. /\ player' = [u \in Seekers |->
                IF player[u].entry \notin Releasable(k) THEN player[u]
                ELSE IF player[u].entry \in keep
                     THEN [player[u] EXCEPT !.state = "searching", !.claim = 0, !.live = TRUE] ELSE Nobody]
          /\ lane' = lane \cup (Releasable(k) \cap keep)
          /\ owner' = [e \in Entries |->
                IF e \in Releasable(k) THEN IF e \in keep THEN made[e] ELSE "none"
                ELSE IF e \in pairClaim[k] /\ player[made[e]].state = "absent" THEN "none" ELSE owner[e]]
      BY <1>12, <2>2 DEF ReleasePair
    <3>2. \A u \in Seekers : player'[u] \in APlayer /\ (player'[u].state = "claimed" => player'[u].claim \in PairClaims)
      <4>1. ASSUME NEW u \in Seekers
            PROVE  \/ player'[u] \in {player[u], Nobody}
                   \/ player'[u] = [entry |-> player[u].entry, state |-> "searching", claim |-> 0, live |-> TRUE]
        <5>1. player[u] \in APlayer
          BY DEF PairRows
        <5>. QED  BY <3>1, <5>1 DEF APlayer
      <4>2. \A u \in Seekers : [entry |-> player[u].entry, state |-> "searching", claim |-> 0, live |-> TRUE] \in APlayer
        BY DEF PairRows, APlayer
      <4>3. ASSUME NEW u \in Seekers
            PROVE  player'[u] \in APlayer /\ (player'[u].state = "claimed" => player'[u].claim \in PairClaims)
        <5>1. PICK q : q = [entry |-> player[u].entry, state |-> "searching", claim |-> 0, live |-> TRUE]
          OBVIOUS
        <5>2. q \in APlayer /\ q.state = "searching"
          BY <4>2, <5>1
        <5>3. player[u] \in APlayer /\ (player[u].state = "claimed" => player[u].claim \in PairClaims)
          BY DEF PairRows
        <5>4. \/ player'[u] = player[u]
              \/ player'[u] = Nobody
              \/ player'[u] = q
          BY <4>1, <5>1
        <5>5. Nobody.state # "claimed" /\ q.state # "claimed"
          BY <1>2, <5>2
        <5>. QED  BY <1>2, <5>2, <5>3, <5>4, <5>5
      <4>. QED  BY <4>3
    <3>3. player' = [u \in Seekers |-> player'[u]]
      BY <3>1
    <3>4. Releasable(k) \subseteq Entries
      BY DEF Releasable, PairRows
    <3>5. owner' \in [Entries -> Seekers \cup {"none"}] /\ lane' \subseteq Entries
      BY <3>1, <3>4 DEF PairRows
    <3>. QED  BY <1>12, <2>2, <3>2, <3>3, <3>5 DEF ReleasePair, PairRows
  <2>. QED  BY <2>1, <2>2
<1>. QED  BY <1>1, <1>4, <1>5, <1>8, <1>9, <1>10, <1>11, <1>12

LEMMA QuietShapes ==
    /\ SoundShape(Quiet)
    /\ \A r : r.who \in Seekers => SoundShape(AfterForm(r))
    /\ \A r \in ACall : r.who \in Seekers /\ r.then # "none" => SoundShape(AfterClaim(r))
<1>1. SoundShape(Quiet)
  BY DEF SoundShape, Quiet, ACall
<1>2. ASSUME NEW r, r.who \in Seekers PROVE SoundShape(AfterForm(r))
  <2>1. CASE r.op = "poll"
    <3>1. AfterForm(r) = [pc |-> "status", op |-> "poll", who |-> r.who, claim |-> 0, todo |-> {}, keep |-> {}, then |-> "none"]
      BY <2>1 DEF AfterForm, Quiet
    <3>. QED  BY <1>2, <3>1 DEF SoundShape, ACall
  <2>. QED  BY <1>1, <2>1 DEF AfterForm
<1>3. ASSUME NEW r \in ACall, r.who \in Seekers, r.then # "none" PROVE SoundShape(AfterClaim(r))
  <2>1. PICK q : q = [r EXCEPT !.claim = 0, !.keep = {}]
    OBVIOUS
  <2>2. q = [pc |-> r.pc, op |-> r.op, who |-> r.who, claim |-> 0, todo |-> r.todo, keep |-> {}, then |-> r.then]
    BY <2>1 DEF ACall
  <2>3. /\ [q EXCEPT !.pc = "get"] = [pc |-> "get", op |-> r.op, who |-> r.who, claim |-> 0, todo |-> r.todo,
                                      keep |-> {}, then |-> r.then]
        /\ [q EXCEPT !.pc = q.then] = [pc |-> r.then, op |-> r.op, who |-> r.who, claim |-> 0, todo |-> r.todo,
                                       keep |-> {}, then |-> r.then]
    BY <2>2
  <2>4. AfterClaim(r) = IF q.todo # {} THEN [q EXCEPT !.pc = "get"]
                        ELSE IF q.then = "formed" THEN AfterForm(q) ELSE [q EXCEPT !.pc = q.then]
    BY <2>1 DEF AfterClaim
  <2>5. r.todo # {} => SoundShape([q EXCEPT !.pc = "get"])
    BY <1>3, <2>3 DEF SoundShape, ACall
  <2>6. r.then # "formed" => SoundShape([q EXCEPT !.pc = q.then])
    BY <1>3, <2>3 DEF SoundShape, ACall
  <2>. QED  BY <1>2, <1>3, <2>2, <2>4, <2>5, <2>6
<1>. QED  BY <1>1, <1>2, <1>3

(* A request takes a step. *)
LEMMA ShapesStep ==
    ASSUME PairShapes, PairRows', NEW c \in PairCalls, NEW r, pairCall' = [pairCall EXCEPT ![c] = r], SoundShape(r),
           UNCHANGED pairBlock, duel' \in [PairClaims -> {"none", "active", "over"}], pairFault' \in 0..PairFaults
    PROVE  PairShapes'
BY DEF PairShapes

LEMMA RequestShapes ==
    ASSUME PairShapes, NEW c \in PairCalls,
           \/ \E u \in Seekers : JoinQueue(c, u) \/ LeaveQueue(c, u) \/ GetStatus(c, u)
           \/ JoinLegacyPairQueue(c) \/ LeaveNow(c) \/ StatusWithoutDurable(c) \/ RenewReleased(c)
    PROVE  PairShapes'
<1>1. SoundShape(pairCall[c]) /\ pairCall[c] \in ACall /\ PairRows
  BY DEF PairShapes, SoundShape
<1>2. ASSUME NEW r, pairCall' = [pairCall EXCEPT ![c] = r], SoundShape(r), PairRows', UNCHANGED <<duel, pairBlock, pairFault>>
      PROVE  PairShapes'
  BY <1>2, ShapesStep DEF PairShapes
<1>3. ASSUME UNCHANGED redisVars PROVE PairRows'
  BY <1>1, <1>3, ScriptsKeepRows
<1>4. ASSUME NEW u \in Seekers, JoinQueue(c, u) \/ LeaveQueue(c, u) \/ GetStatus(c, u) PROVE PairShapes'
  <2>1. /\ SoundShape([Quiet EXCEPT !.pc = "join", !.op = "join", !.who = u])
        /\ SoundShape([Quiet EXCEPT !.pc = "leave", !.who = u])
        /\ SoundShape([Quiet EXCEPT !.pc = "list", !.op = "poll", !.who = u])
    <3>1. Quiet \in ACall /\ Quiet.claim = 0 /\ Quiet.todo = {} /\ Quiet.keep = {} /\ Quiet.then = "none" /\ Quiet.op = "none"
      BY DEF Quiet, ACall
    <3>2. PICK q \in ACall : q = Quiet
      BY <3>1
    <3>3. /\ SoundShape([q EXCEPT !.pc = "join", !.op = "join", !.who = u])
          /\ SoundShape([q EXCEPT !.pc = "leave", !.who = u])
          /\ SoundShape([q EXCEPT !.pc = "list", !.op = "poll", !.who = u])
      BY DEF SoundShape, ACall
    <3>. QED  BY <3>2, <3>3
  <2>. QED  BY <1>2, <1>3, <1>4, <2>1 DEF JoinQueue, LeaveQueue, GetStatus, Put
<1>5. \A u \in Seekers : player[u].state = "claimed" => player[u].claim \in PairClaims
  BY <1>1 DEF PairRows
<1>6. CASE JoinLegacyPairQueue(c)
  <2>1. pairCall[c].pc = "join" /\ pairCall[c].who \in Seekers
    BY <1>1, <1>6 DEF JoinLegacyPairQueue, In, SoundShape
  <2>2. PICK u \in Seekers : u = pairCall[c].who
    BY <2>1
  <2>3. PairRows'
    BY <1>1, <1>6, <2>2, ScriptsKeepRows DEF JoinLegacyPairQueue
  <2>4. SoundShape([pairCall[c] EXCEPT !.pc = "list"])
    BY <1>1, <2>1 DEF SoundShape, ACall
  <2>5. player[u].state = "claimed" => SoundShape([pairCall[c] EXCEPT !.pc = "recover", !.claim = player[u].claim])
    BY <1>1, <1>5, <2>1 DEF SoundShape, ACall
  <2>. QED  BY <1>2, <1>6, <2>2, <2>3, <2>4, <2>5 DEF JoinLegacyPairQueue, Put, Step
<1>7. CASE LeaveNow(c) \/ RenewReleased(c)
  <2>1. pairCall[c].who \in Seekers
    BY <1>1, <1>7 DEF LeaveNow, RenewReleased, In, SoundShape
  <2>2. PairRows'
    BY <1>1, <1>7, <2>1, ScriptsKeepRows DEF LeaveNow, RenewReleased
  <2>. QED  BY <1>2, <1>7, <2>2, QuietShapes DEF LeaveNow, RenewReleased, Put, Done
<1>8. CASE StatusWithoutDurable(c)
  <2>1. pairCall[c].pc = "status" /\ pairCall[c].who \in Seekers
    BY <1>1, <1>8 DEF StatusWithoutDurable, In, SoundShape
  <2>2. PICK u \in Seekers : u = pairCall[c].who
    BY <2>1
  <2>3. PairRows'
    BY <1>1, <1>8, <2>2, ScriptsKeepRows DEF StatusWithoutDurable
  <2>4. player[u].state = "claimed" => SoundShape([pairCall[c] EXCEPT !.pc = "recover", !.claim = player[u].claim])
    BY <1>1, <1>5, <2>1 DEF SoundShape, ACall
  <2>. QED  BY <1>2, <1>8, <2>2, <2>3, <2>4, QuietShapes DEF StatusWithoutDurable, Put, Done
<1>. QED  BY <1>4, <1>6, <1>7, <1>8

LEMMA ClaimShapes ==
    ASSUME PairShapes, NEW c \in PairCalls,
           \/ ListExpired(c) \/ GetClaim(c) \/ FindMatch(c) \/ Assess(c) \/ Release(c) \/ Finalize(c)
           \/ RecoverClaimed(c) \/ Claim(c) \/ Check(c) \/ CreateFormationBundle(c) \/ PairFault(c)
    PROVE  PairShapes'
<1>1. SoundShape(pairCall[c]) /\ pairCall[c] \in ACall /\ PairRows /\ pairFault \in 0..PairFaults /\ PairFaults \in Nat
      /\ duel \in [PairClaims -> {"none", "active", "over"}]
  BY PairAssumption DEF PairShapes, SoundShape
<1>2. ASSUME NEW r, pairCall' = [pairCall EXCEPT ![c] = r], SoundShape(r), PairRows', UNCHANGED <<duel, pairBlock, pairFault>>
      PROVE  PairShapes'
  BY <1>1, <1>2, ShapesStep
<1>3. ASSUME UNCHANGED redisVars PROVE PairRows'
  BY <1>1, <1>3, ScriptsKeepRows
<1>4. CASE ListExpired(c)
  <2>1. pairCall[c].who \in Seekers
    BY <1>1, <1>4 DEF ListExpired, In, SoundShape
  <2>2. PICK r : r = [pairCall[c] EXCEPT !.todo = {k \in PairClaims : pairIndex[k] = "due"}, !.then = "claim"]
    OBVIOUS
  <2>3. r \in ACall /\ r.who \in Seekers /\ r.then = "claim"
    BY <1>1, <2>1, <2>2 DEF ACall
  <2>. QED  BY <1>2, <1>3, <1>4, <2>2, <2>3, QuietShapes DEF ListExpired, Put
<1>5. CASE GetClaim(c)
  <2>1. pairCall[c].who \in Seekers /\ pairCall[c].then # "none" /\ pairCall[c].todo # {} /\ pairCall[c].todo \subseteq PairClaims
    BY <1>1, <1>5 DEF GetClaim, In, SoundShape, ACall
  <2>2. PICK k : k = CHOOSE d \in pairCall[c].todo : \A e \in pairCall[c].todo : d <= e
    OBVIOUS
  <2>3. k \in PairClaims
    <3>1. pairCall[c].todo \in SUBSET Nat
      BY <2>1, PairAssumption
    <3>2. \E d \in pairCall[c].todo : \A e \in pairCall[c].todo : d <= e
      BY <2>1, <3>1, LeastNumber
    <3>. QED  BY <2>1, <2>2, <3>2
  <2>4. PICK r : r = [pairCall[c] EXCEPT !.todo = @ \ {k}]
    OBVIOUS
  <2>5. r \in ACall /\ r.who \in Seekers /\ r.then # "none"
    BY <1>1, <2>1, <2>4 DEF ACall
  <2>6. SoundShape([r EXCEPT !.pc = "find", !.claim = k])
    BY <2>3, <2>5 DEF SoundShape, ACall
  <2>7. \/ pairCall' = [pairCall EXCEPT ![c] = [r EXCEPT !.pc = "find", !.claim = k]] /\ UNCHANGED redisVars
        \/ pairCall' = [pairCall EXCEPT ![c] = AfterClaim(r)] /\ DropPairIndex(k)
    BY <1>5, <2>2, <2>4 DEF GetClaim, Put
  <2>8. PairRows'
    BY <1>1, <2>3, <2>7, ScriptsKeepRows
  <2>9. UNCHANGED <<duel, pairBlock, pairFault>>
    BY <1>5 DEF GetClaim
  <2>. QED  BY <1>2, <2>5, <2>6, <2>7, <2>8, <2>9, QuietShapes
<1>6. CASE FindMatch(c) \/ Assess(c)
  <2>1. pairCall[c].who \in Seekers /\ pairCall[c].claim \in PairClaims /\ pairCall[c].then # "none"
    BY <1>1, <1>6 DEF FindMatch, Assess, In, SoundShape
  <2>2. Keepable(pairCall[c].claim) \subseteq Entries
    BY <1>1, <2>1 DEF Keepable, PairRows
  <2>3. /\ SoundShape([pairCall[c] EXCEPT !.pc = "assess"]) /\ SoundShape([pairCall[c] EXCEPT !.pc = "finalize"])
        /\ SoundShape([pairCall[c] EXCEPT !.pc = "release", !.keep = Keepable(pairCall[c].claim)])
    BY <1>1, <2>1, <2>2 DEF SoundShape, ACall
  <2>. QED  BY <1>2, <1>3, <1>6, <2>3 DEF FindMatch, Assess, Put, Step
<1>7. CASE Release(c) \/ Finalize(c)
  <2>1. pairCall[c].who \in Seekers /\ pairCall[c].claim \in PairClaims /\ pairCall[c].then # "none"
    BY <1>1, <1>7 DEF Release, Finalize, In, SoundShape
  <2>2. PairRows'
    BY <1>1, <1>7, <2>1, ScriptsKeepRows DEF Release, Finalize
  <2>. QED  BY <1>1, <1>2, <1>7, <2>1, <2>2, QuietShapes DEF Release, Finalize, Put, Done
<1>8. CASE RecoverClaimed(c)
  <2>1. pairCall[c].who \in Seekers /\ pairCall[c].claim \in PairClaims
    BY <1>1, <1>8 DEF RecoverClaimed, In, SoundShape
  <2>2. /\ SoundShape([pairCall[c] EXCEPT !.pc = "finalize", !.then = "renew"])
        /\ SoundShape([pairCall[c] EXCEPT !.pc = "find", !.then = "renew"])
    BY <1>1, <2>1 DEF SoundShape, ACall
  <2>. QED  BY <1>2, <1>3, <1>8, <2>2, QuietShapes DEF RecoverClaimed, Put, Done
<1>9. CASE Claim(c)
  <2>1. pairCall[c].who \in Seekers
    BY <1>1, <1>9 DEF Claim, In, SoundShape
  <2>2. ASSUME NEW k \in PairClaims
        PROVE  SoundShape([pairCall[c] EXCEPT !.pc = "check", !.claim = k, !.then = "formed"])
    BY <1>1, <2>1 DEF SoundShape, ACall
  <2>3. PairRows'
    BY <1>1, <1>9, ScriptsKeepRows DEF Claim
  <2>. QED  BY <1>2, <1>9, <2>1, <2>2, <2>3, QuietShapes DEF Claim, Put
<1>10. CASE Check(c)
  <2>1. pairCall[c].who \in Seekers /\ pairCall[c].claim \in PairClaims /\ pairCall[c].then # "none"
    BY <1>1, <1>10 DEF Check, In, SoundShape
  <2>2. Keepable(pairCall[c].claim) \subseteq Entries
    BY <1>1, <2>1 DEF Keepable, PairRows
  <2>3. /\ SoundShape([pairCall[c] EXCEPT !.pc = "commit"])
        /\ SoundShape([pairCall[c] EXCEPT !.pc = "release", !.keep = Keepable(pairCall[c].claim)])
    BY <1>1, <2>1, <2>2 DEF SoundShape, ACall
  <2>. QED  BY <1>2, <1>3, <1>10, <2>3 DEF Check, Put, Step
<1>11. CASE CreateFormationBundle(c)
  <2>1. pairCall[c].who \in Seekers /\ pairCall[c].claim \in PairClaims /\ pairCall[c].then # "none"
    BY <1>1, <1>11 DEF CreateFormationBundle, In, SoundShape
  <2>2. SoundShape([pairCall[c] EXCEPT !.pc = "finalize"]) /\ SoundShape([pairCall[c] EXCEPT !.pc = "assess"])
    BY <1>1, <2>1 DEF SoundShape, ACall
  <2>3. duel' \in [PairClaims -> {"none", "active", "over"}] /\ PairRows'
    BY <1>1, <1>3, <1>11, <2>1 DEF CreateFormationBundle
  <2>4. pairFault' \in 0..PairFaults /\ UNCHANGED pairBlock
    BY <1>1, <1>11 DEF CreateFormationBundle
  <2>. QED  BY <1>11, <2>2, <2>3, <2>4, ShapesStep DEF CreateFormationBundle, Put, Step
<1>12. CASE PairFault(c)
  <2>1. pairCall[c].who \in Seekers
    BY <1>1, <1>12 DEF PairFault, In, SoundShape
  <2>2. pairFault' \in 0..PairFaults /\ UNCHANGED <<pairBlock, duel>> /\ PairRows'
    BY <1>1, <1>3, <1>12 DEF PairFault
  <2>3. SoundShape([pairCall[c] EXCEPT !.pc = "claim", !.todo = {}, !.then = "claim"])
    BY <1>1, <2>1 DEF SoundShape, ACall
  <2>4. /\ pairCall[c].then = "claim" => SoundShape(AfterClaim(pairCall[c]))
        /\ SoundShape(AfterForm(pairCall[c])) /\ SoundShape(Quiet)
    BY <1>1, <2>1, QuietShapes
  <2>5. PICK r : pairCall' = [pairCall EXCEPT ![c] = r] /\ SoundShape(r)
    BY <1>12, <2>3, <2>4 DEF PairFault, Put, Done
  <2>. QED  BY <1>1, <2>2, <2>5, ShapesStep
<1>. QED  BY <1>4, <1>5, <1>6, <1>7, <1>8, <1>9, <1>10, <1>11, <1>12

LEMMA PairTypeCorrect == PairSpec => []PairTypeOK
<1>1. PairInit => PairShapes
  <2>. SUFFICES ASSUME PairInit PROVE PairShapes
    OBVIOUS
  <2>1. Nobody \in APlayer /\ Nobody.state = "absent"
    BY DEF Nobody, APlayer
  <2>. QED  BY <2>1, QuietShapes, PairAssumption DEF PairInit, PairShapes, PairRows
<1>2. PairShapes /\ [PairNext]_pairVars => PairShapes'
  <2>. SUFFICES ASSUME PairShapes, [PairNext]_pairVars PROVE PairShapes'
    OBVIOUS
  <2>1. CASE UNCHANGED pairVars
    BY <2>1 DEF pairVars, PairShapes, PairRows
  <2>2. ASSUME NEW u \in Seekers, LeaseEnds(u) PROVE PairShapes'
    <3>1. [player[u] EXCEPT !.live = FALSE] \in APlayer /\ [player[u] EXCEPT !.live = FALSE].state = "searching"
      BY <2>2 DEF LeaseEnds, PairShapes, PairRows, APlayer
    <3>. QED  BY <2>2, <3>1 DEF LeaseEnds, PairShapes, PairRows
  <2>3. ASSUME NEW u \in Seekers, Suspend(u) PROVE PairShapes'
    BY <2>3 DEF Suspend, redisVars, PairShapes, PairRows
  <2>4. ASSUME NEW k \in PairClaims, ClaimFallsDue(k) PROVE PairShapes'
    BY <2>4, QuietShapes DEF ClaimFallsDue, PairShapes, PairRows
  <2>5. ASSUME NEW k \in PairClaims, DuelEnds(k) PROVE PairShapes'
    BY <2>5 DEF DuelEnds, redisVars, PairShapes, PairRows
  <2>. QED  BY <2>1, <2>2, <2>3, <2>4, <2>5, RequestShapes, ClaimShapes DEF PairNext
<1>. QED  BY <1>1, <1>2, ShapesTyped, PTL DEF PairSpec
=============================================================================
