------------------------- MODULE TeamFormationProofs -------------------------
(***************************************************************************)
(* Team matchmaking for any number of users, rosters, requests and claims. *)
(*                                                                         *)
(* First the ticket queue (StoreSpec) for every order of script calls,     *)
(* including calls by callers that hold a claim long since finalized or    *)
(* released.  IInv adds to the properties what was issued so far and what  *)
(* a claim record says of its two tickets: as long as one of them exists,  *)
(* it still has the roster and the place the record names, so a caller     *)
(* late with a claim clears exactly the pointers of the ticket it removes. *)
(*                                                                         *)
(* Then team formation (Spec): the requests use the ticket queue only      *)
(* through its scripts, and no user is ever in two active matches,         *)
(* whatever is stale, late or lost.  FInv adds what a request in progress  *)
(* holds: the claims it is about to act on have been issued, so their      *)
(* records never change again; and that a match exists only for an issued  *)
(* claim, so the record a commit validated is the one it commits.          *)
(*                                                                         *)
(* A second invariant (LateInv) says why each request may do what it is    *)
(* about to do with the claim it holds, and when.  It gives the two action *)
(* properties: nobody loses a ticket to a late request, and a match is     *)
(* committed only from open tickets.                                       *)
(***************************************************************************)
EXTENDS TeamFormation, TLAPS


Exists(t) == Searching(t) \/ Claimed(t)

(* Ids not yet issued are unused. *)
IssuedInv ==
    /\ \A t \in TicketIds : t >= nextTicket => tickets[t].state = "absent"
    /\ \A c \in claims : c < nextClaim

(* What an issued claim record says. *)
RecordInv ==
    \A c \in ClaimIds : c < nextClaim =>
        /\ claimRec[c].a \in TicketIds
        /\ claimRec[c].b \in TicketIds
        /\ claimRec[c].a # claimRec[c].b
        /\ \A s \in Sides :
             /\ ClaimTicket(c, s) < nextTicket
             /\ Exists(ClaimTicket(c, s)) =>
                  /\ tickets[ClaimTicket(c, s)].roster = ClaimRoster(c, s)
                  /\ tickets[ClaimTicket(c, s)].enq = ClaimEnq(c, s)

IInv == /\ TypeOK
        /\ PointersNeverDangle
        /\ QueueIsSearching
        /\ ClaimRecoverable
        /\ IssuedInv
        /\ RecordInv

-----------------------------------------------------------------------------
(* The initial state satisfies the invariant. *)
LEMMA InitIInv == StoreInit => IInv
<1> SUFFICES ASSUME StoreInit PROVE IInv
    OBVIOUS
<1> USE BoundsAssumption DEF StoreInit, TicketIds, ClaimIds, None, NoTicket, NoClaimHash
<1>1. TypeOK
    BY DEF TypeOK, Ticket, ClaimHash
<1>2. PointersNeverDangle /\ QueueIsSearching
    BY DEF PointersNeverDangle, QueueIsSearching, Searching
<1>3. ClaimRecoverable
    BY DEF ClaimRecoverable, Claimed
<1>4. IssuedInv /\ RecordInv
    BY DEF IssuedInv, RecordInv
<1> QED BY <1>1, <1>2, <1>3, <1>4 DEF IInv

(* Clearing searching tickets with their pointers and queue entries, as     *)
(* renew, leave and the scan of a claim attempt do, keeps the invariant.    *)
LEMMA ClearKeepsIInv ==
    ASSUME IInv, NEW T \in SUBSET TicketIds, \A t \in T : Searching(t),
           tickets' = WithoutTickets(T), ptr' = WithoutPointers(T), queue' = queue \ T,
           UNCHANGED <<claims, claimRec, index, nextTicket, nextClaim>>
    PROVE  IInv' /\ Frozen /\ Kept
<1> USE BoundsAssumption DEF IInv
<1>1. \A t \in TicketIds : tickets'[t] = IF t \in T THEN NoTicket ELSE tickets[t]
    BY DEF WithoutTickets
<1>2. \A t \in T : tickets[t].state = "searching"
    BY DEF Searching
<1>3. TypeOK'
  <2>1. NoTicket \in Ticket
      BY DEF NoTicket, Ticket, None
  <2>2. tickets' \in [TicketIds -> Ticket]
      BY <2>1 DEF TypeOK, WithoutTickets
  <2>3. ptr' \in [Users -> TicketIds \cup {None}]
      BY DEF TypeOK, WithoutPointers
  <2> QED BY <2>2, <2>3 DEF TypeOK
<1>4. PointersNeverDangle'
  <2> SUFFICES ASSUME NEW u \in Users, ptr'[u] # None
               PROVE  /\ Searching(ptr[u])' \/ Claimed(ptr[u])'
                      /\ u \in tickets'[ptr'[u]].roster
      BY DEF PointersNeverDangle
  <2>1. ptr'[u] = ptr[u] /\ ptr[u] # None
      BY DEF WithoutPointers
  <2>2. Exists(ptr[u]) /\ u \in tickets[ptr[u]].roster /\ ptr[u] \in TicketIds
      BY <2>1 DEF PointersNeverDangle, Exists, Searching, Claimed
  <2>3. ptr[u] \notin T
      BY <2>1, <2>2 DEF WithoutPointers
  <2> QED BY <1>1, <2>1, <2>2, <2>3 DEF Exists, Searching, Claimed
<1>5. QueueIsSearching'
    BY <1>1 DEF QueueIsSearching, Searching, NoTicket
<1>6. ClaimRecoverable'
  <2>1. \A t \in TicketIds : Claimed(t)' <=> Claimed(t)
      BY <1>1, <1>2 DEF Claimed, NoTicket
  <2>2. \A t \in TicketIds : Claimed(t) => tickets'[t] = tickets[t]
      BY <1>1, <1>2 DEF Claimed
  <2>3. ASSUME NEW c \in claims PROVE HeldSides(c)' = Sides /\ index'[c] # "none"
      BY <2>1, <2>2 DEF ClaimRecoverable, HeldSides, HeldBy, Claimed, ClaimTicket, Sides
  <2>4. ASSUME NEW t \in TicketIds, Claimed(t)'
        PROVE  /\ tickets'[t].claim \in claims'
               /\ \E s \in Sides : /\ ClaimTicket(tickets[t].claim, s)' = t
                                   /\ ClaimRoster(tickets[t].claim, s)' = tickets'[t].roster
      BY <2>1, <2>2, <2>4 DEF ClaimRecoverable, ClaimTicket, ClaimRoster
  <2> QED BY <2>3, <2>4 DEF ClaimRecoverable
<1>7. IssuedInv'
    BY <1>1 DEF IssuedInv, NoTicket
<1>8. RecordInv'
  <2>1. \A t \in TicketIds : Exists(t)' => Exists(t) /\ tickets'[t] = tickets[t]
      BY <1>1 DEF Exists, Searching, Claimed, NoTicket
  <2> QED BY <2>1 DEF RecordInv, ClaimTicket, ClaimRoster, ClaimEnq, Sides
<1>9. Frozen /\ Kept
    BY <1>1, <1>2 DEF Frozen, Kept, Claimed, NoTicket
<1> QED BY <1>3, <1>4, <1>5, <1>6, <1>7, <1>8, <1>9 DEF IInv

-----------------------------------------------------------------------------
(* A join that creates a ticket: the new id was unused, and the old ticket  *)
(* the roster pointed to, if any, was an expired search.                    *)
LEMMA JoinKeepsIInv ==
    ASSUME IInv, NEW R \in Rosters, JoinCreates(R)
    PROVE  IInv' /\ Frozen /\ Kept
<1> USE BoundsAssumption DEF IInv
<1> DEFINE n == nextTicket
<1>1. PICK old \in TicketIds \cup {None} :
          /\ PointsTo(R, old)
          /\ ~Holds(old)
          /\ tickets' = [WithoutTickets({old}) EXCEPT ![n] =
                            [roster |-> R, enq |-> n, state |-> "searching",
                             claim |-> None, live |-> TRUE]]
          /\ ptr' = [u \in Users |-> IF u \in R THEN n ELSE WithoutPointers({old})[u]]
          /\ queue' = (queue \ {old}) \cup {n}
    BY DEF JoinCreates
<1>2. n \in TicketIds /\ n # None /\ n \in Nat /\ nextTicket' = n + 1 /\ R \in SUBSET Users
    BY RostersAssumption DEF JoinCreates, TypeOK, TicketIds, None
<1>3. /\ UNCHANGED <<claims, claimRec, index, nextClaim>>
      /\ tickets[n].state = "absent"
    BY <1>2 DEF JoinCreates, IssuedInv
<1>4. \A t \in TicketIds : tickets'[t] = IF t = n
                 THEN [roster |-> R, enq |-> n, state |-> "searching", claim |-> None, live |-> TRUE]
                 ELSE IF t = old THEN NoTicket ELSE tickets[t]
    BY <1>1, <1>2 DEF WithoutTickets
<1>5. \A t \in TicketIds : Claimed(t) => t # old /\ t # n
    BY <1>1, <1>3 DEF Holds, Claimed
<1>6. TypeOK'
  <2>1. /\ NoTicket \in Ticket
        /\ [roster |-> R, enq |-> n, state |-> "searching", claim |-> None, live |-> TRUE] \in Ticket
      BY <1>2 DEF NoTicket, Ticket, None
  <2>2. tickets' \in [TicketIds -> Ticket]
      BY <1>1, <2>1 DEF TypeOK, WithoutTickets
  <2>3. ptr' \in [Users -> TicketIds \cup {None}]
      BY <1>1, <1>2 DEF TypeOK, WithoutPointers
  <2>4. nextTicket' \in 1..(MaxTickets + 1)
      BY <1>2 DEF TicketIds
  <2> QED BY <1>1, <1>2, <1>3, <2>2, <2>3, <2>4 DEF TypeOK
<1>7. PointersNeverDangle'
  <2> SUFFICES ASSUME NEW u \in Users, ptr'[u] # None
               PROVE  /\ Searching(ptr[u])' \/ Claimed(ptr[u])'
                      /\ u \in tickets'[ptr'[u]].roster
      BY DEF PointersNeverDangle
  <2>1. CASE u \in R
      BY <1>1, <1>2, <1>4, <2>1 DEF Searching
  <2>2. CASE u \notin R
    <3>1. ptr'[u] = ptr[u] /\ ptr[u] # None
        BY <1>1, <2>2 DEF WithoutPointers
    <3>2. Exists(ptr[u]) /\ u \in tickets[ptr[u]].roster /\ ptr[u] \in TicketIds
        BY <3>1 DEF PointersNeverDangle, Exists, Searching, Claimed
    <3>3. ptr[u] # old /\ ptr[u] # n
        BY <1>1, <1>3, <2>2, <3>1, <3>2 DEF WithoutPointers, Exists, Searching, Claimed
    <3> QED BY <1>4, <3>1, <3>2, <3>3 DEF Exists, Searching, Claimed
  <2> QED BY <2>1, <2>2
<1>8. QueueIsSearching'
  <2> SUFFICES ASSUME NEW t \in TicketIds PROVE t \in queue' <=> Searching(t)'
      BY DEF QueueIsSearching
  <2>1. t \in queue' <=> t = n \/ (t # old /\ t \in queue)
      BY <1>1
  <2>2. Searching(t)' <=> t = n \/ (t # old /\ Searching(t))
      BY <1>4 DEF Searching, NoTicket
  <2> QED BY <2>1, <2>2 DEF QueueIsSearching
<1>9. ClaimRecoverable'
  <2>1. \A t \in TicketIds : Claimed(t)' <=> Claimed(t)
      BY <1>4, <1>5 DEF Claimed, NoTicket
  <2>2. \A t \in TicketIds : Claimed(t) => tickets'[t] = tickets[t]
      BY <1>4, <1>5
  <2>3. ASSUME NEW c \in claims PROVE HeldSides(c)' = Sides /\ index'[c] # "none"
      BY <1>3, <2>1, <2>2 DEF ClaimRecoverable, HeldSides, HeldBy, Claimed, ClaimTicket, Sides
  <2>4. ASSUME NEW t \in TicketIds, Claimed(t)'
        PROVE  /\ tickets'[t].claim \in claims'
               /\ \E s \in Sides : /\ ClaimTicket(tickets[t].claim, s)' = t
                                   /\ ClaimRoster(tickets[t].claim, s)' = tickets'[t].roster
      BY <1>3, <2>1, <2>2, <2>4 DEF ClaimRecoverable, ClaimTicket, ClaimRoster
  <2> QED BY <1>3, <2>3, <2>4 DEF ClaimRecoverable
<1>10. IssuedInv'
  <2>1. \A t \in TicketIds : t >= nextTicket' => t >= nextTicket /\ t # n
      BY <1>2 DEF TicketIds
  <2> QED BY <1>3, <1>4, <2>1 DEF IssuedInv, NoTicket
<1>11. RecordInv'
  <2> SUFFICES ASSUME NEW c \in ClaimIds, c < nextClaim, NEW s \in Sides
               PROVE  /\ claimRec[c].a \in TicketIds
                      /\ claimRec[c].b \in TicketIds
                      /\ claimRec[c].a # claimRec[c].b
                      /\ ClaimTicket(c, s) < nextTicket'
                      /\ Exists(ClaimTicket(c, s))' =>
                           /\ tickets'[ClaimTicket(c, s)].roster = ClaimRoster(c, s)
                           /\ tickets'[ClaimTicket(c, s)].enq = ClaimEnq(c, s)
      BY <1>3 DEF RecordInv, ClaimTicket, ClaimRoster, ClaimEnq, Sides
  <2>1. /\ claimRec[c].a \in TicketIds /\ claimRec[c].b \in TicketIds
        /\ claimRec[c].a # claimRec[c].b
        /\ ClaimTicket(c, s) \in TicketIds
        /\ ClaimTicket(c, s) < n
        /\ Exists(ClaimTicket(c, s)) =>
             /\ tickets[ClaimTicket(c, s)].roster = ClaimRoster(c, s)
             /\ tickets[ClaimTicket(c, s)].enq = ClaimEnq(c, s)
      BY DEF RecordInv, ClaimTicket, Sides
  <2>2. ClaimTicket(c, s) # n /\ ClaimTicket(c, s) < n + 1
      BY <1>2, <2>1 DEF TicketIds
  <2>3. Exists(ClaimTicket(c, s))' =>
             Exists(ClaimTicket(c, s)) /\ tickets'[ClaimTicket(c, s)] = tickets[ClaimTicket(c, s)]
      BY <1>3, <1>4, <2>1, <2>2 DEF Exists, Searching, Claimed, NoTicket, ClaimTicket
  <2> QED BY <1>2, <2>1, <2>2, <2>3
<1>12. Frozen /\ Kept
    BY <1>3, <1>4, <1>5 DEF Frozen, Kept, NoTicket
<1> QED BY <1>6, <1>7, <1>8, <1>9, <1>10, <1>11, <1>12 DEF IInv

-----------------------------------------------------------------------------
(* A claim: the stale candidates are cleared first (ClearKeepsIInv), the    *)
(* two tickets of the pair are searching and take the new claim's id.       *)
LEMMA ClaimPairKeepsIInv ==
    ASSUME IInv, ClaimPair
    PROVE  IInv' /\ Frozen /\ Kept
<1> USE BoundsAssumption DEF IInv
<1>0. PICK n \in ClaimIds : n = nextClaim
  <2>1. nextClaim <= MaxClaims /\ nextClaim \in 1..(MaxClaims + 1)
      BY DEF ClaimPair, TypeOK
  <2>2. nextClaim \in ClaimIds
      BY <2>1 DEF ClaimIds
  <2> QED BY <2>2
<1>1. PICK a \in Valid, b \in Valid : Chosen(a, b) /\ ClaimTickets(a, b, n)
    BY <1>0 DEF ClaimPair
<1>2. /\ n # None /\ n \in Nat /\ n \notin claims
      /\ nextClaim' = n + 1 /\ nextTicket' = nextTicket
      /\ claims' = claims \cup {n}
      /\ index' = [index EXCEPT ![n] = "waiting"]
      /\ ptr' = WithoutPointers(Stale)
      /\ queue' = queue \ (Stale \cup Detached \cup {a, b})
  <2>1. n # None /\ n \in Nat /\ n \notin claims
      BY <1>0 DEF ClaimIds, None, IssuedInv
  <2>2. nextClaim' = n + 1
      BY <1>0 DEF ClaimPair
  <2> QED BY <1>1, <2>1, <2>2 DEF ClaimTickets
<1>3. /\ a \in TicketIds /\ b \in TicketIds /\ a # b
      /\ Searching(a) /\ Searching(b)
      /\ a \notin Stale /\ b \notin Stale
      /\ a < nextTicket /\ b < nextTicket
  <2>1. /\ a \in Valid /\ b \in Valid /\ Before(a, b)
      BY <1>1 DEF Chosen, FirstPair, Opposed
  <2>2. /\ Searching(a) /\ Searching(b)
        /\ a \in TicketIds /\ b \in TicketIds
        /\ a \notin Stale /\ b \notin Stale
      BY <2>1 DEF Valid, Stale, Searching
  <2>3. a # b
      BY <2>1, <2>2 DEF Before, TypeOK, Ticket
  <2>4. a < nextTicket /\ b < nextTicket
      BY <2>2 DEF IssuedInv, Searching, TypeOK, TicketIds
  <2> QED BY <2>2, <2>3, <2>4
<1>4. \A t \in Stale : t \in TicketIds /\ Searching(t)
    BY DEF Stale, Searching
<1>5. Detached = {}
    BY DEF Detached, Scanned, QueueIsSearching, TypeOK
<1>6. \A t \in TicketIds : tickets'[t] =
          IF t = a \/ t = b THEN ClaimedBy(t, n)
          ELSE IF t \in Stale THEN NoTicket ELSE tickets[t]
    BY <1>1 DEF ClaimTickets, WithoutTickets
<1>7. \A t \in TicketIds : Claimed(t) => t # a /\ t # b /\ t \notin Stale
    BY <1>3, <1>4 DEF Claimed, Searching
<1>8. /\ \A c \in ClaimIds : c # n => claimRec'[c] = claimRec[c]
      /\ claimRec'[n] = ClaimRecord(a, b)
      /\ claimRec' = [claimRec EXCEPT ![n] = ClaimRecord(a, b)]
  <2>1. claimRec' = [claimRec EXCEPT ![n] = ClaimRecord(a, b)]
      BY <1>1 DEF ClaimTickets
  <2>2. claimRec \in [ClaimIds -> ClaimHash]
      BY DEF TypeOK
  <2> QED BY <2>1, <2>2
<1>81. \A c \in ClaimIds, s \in Sides :
            c # n => /\ ClaimTicket(c, s)' = ClaimTicket(c, s)
                     /\ ClaimRoster(c, s)' = ClaimRoster(c, s)
                     /\ ClaimEnq(c, s)' = ClaimEnq(c, s)
    BY <1>8 DEF ClaimTicket, ClaimRoster, ClaimEnq
<1>82. /\ ClaimTicket(n, "A")' = a /\ ClaimTicket(n, "B")' = b
       /\ ClaimRoster(n, "A")' = tickets[a].roster /\ ClaimRoster(n, "B")' = tickets[b].roster
       /\ ClaimEnq(n, "A")' = tickets[a].enq /\ ClaimEnq(n, "B")' = tickets[b].enq
       /\ claimRec'[n].a = a /\ claimRec'[n].b = b
    BY <1>8 DEF ClaimTicket, ClaimRoster, ClaimEnq, ClaimRecord
<1>9. \A t \in {a, b} : /\ tickets'[t].state = "claimed"
                        /\ tickets'[t].claim = n
                        /\ tickets'[t].roster = tickets[t].roster
                        /\ tickets'[t].enq = tickets[t].enq
                        /\ tickets'[t] \in Ticket
  <2> SUFFICES ASSUME NEW t \in {a, b}
               PROVE  /\ ClaimedBy(t, n).state = "claimed"
                      /\ ClaimedBy(t, n).claim = n
                      /\ ClaimedBy(t, n).roster = tickets[t].roster
                      /\ ClaimedBy(t, n).enq = tickets[t].enq
                      /\ ClaimedBy(t, n) \in Ticket
      BY <1>3, <1>6
  <2>1. tickets[t] \in Ticket
      BY <1>3 DEF TypeOK
  <2> QED BY <2>1 DEF ClaimedBy, Ticket
<1>10. TypeOK'
  <2>1. NoTicket \in Ticket
      BY DEF NoTicket, Ticket, None
  <2>2. tickets' \in [TicketIds -> Ticket]
    <3>1. \A t \in TicketIds : tickets'[t] \in Ticket
        BY <1>6, <1>9, <2>1 DEF TypeOK
    <3> QED BY <1>1, <3>1 DEF ClaimTickets
  <2>3. ptr' \in [Users -> TicketIds \cup {None}]
      BY <1>2 DEF TypeOK, WithoutPointers
  <2>4. claimRec' \in [ClaimIds -> ClaimHash]
    <3>1. /\ tickets[a].roster \in SUBSET Users /\ tickets[b].roster \in SUBSET Users
          /\ tickets[a].enq \in Nat /\ tickets[b].enq \in Nat
        BY <1>3 DEF TypeOK, Ticket
    <3>2. ClaimRecord(a, b) \in ClaimHash
        BY <1>3, <3>1 DEF ClaimRecord, ClaimHash
    <3> QED BY <1>8, <3>2 DEF TypeOK
  <2>5. /\ queue' \subseteq TicketIds
        /\ claims' \subseteq ClaimIds
        /\ index' \in [ClaimIds -> {"none", "waiting", "due"}]
        /\ nextTicket' \in 1..(MaxTickets + 1)
        /\ nextClaim' \in 1..(MaxClaims + 1)
      BY <1>2 DEF TypeOK, ClaimIds
  <2> QED BY <2>2, <2>3, <2>4, <2>5 DEF TypeOK
<1>11. PointersNeverDangle'
  <2> SUFFICES ASSUME NEW u \in Users, ptr'[u] # None
               PROVE  /\ Searching(ptr[u])' \/ Claimed(ptr[u])'
                      /\ u \in tickets'[ptr'[u]].roster
      BY DEF PointersNeverDangle
  <2>1. ptr'[u] = ptr[u] /\ ptr[u] # None
      BY <1>2 DEF WithoutPointers
  <2>2. Exists(ptr[u]) /\ u \in tickets[ptr[u]].roster /\ ptr[u] \in TicketIds
      BY <2>1 DEF PointersNeverDangle, Exists, Searching, Claimed
  <2>3. ptr[u] \notin Stale
      BY <1>2, <1>4, <2>1, <2>2 DEF WithoutPointers
  <2> QED BY <1>6, <1>9, <2>1, <2>2, <2>3 DEF Exists, Searching, Claimed
<1>12. QueueIsSearching'
  <2> SUFFICES ASSUME NEW t \in TicketIds PROVE t \in queue' <=> Searching(t)'
      BY DEF QueueIsSearching
  <2>1. t \in queue' <=> t \in queue /\ t \notin Stale /\ t # a /\ t # b
      BY <1>2, <1>5
  <2>2. Searching(t)' <=> Searching(t) /\ t \notin Stale /\ t # a /\ t # b
      BY <1>6, <1>9 DEF Searching, NoTicket
  <2> QED BY <2>1, <2>2 DEF QueueIsSearching
<1>13. ClaimRecoverable'
  <2>1. \A t \in TicketIds : Claimed(t)' <=> Claimed(t) \/ (t = a \/ t = b)
      BY <1>6, <1>7, <1>9 DEF Claimed, NoTicket
  <2>2. \A t \in TicketIds : Claimed(t) => tickets'[t] = tickets[t]
      BY <1>6, <1>7
  <2>3. ASSUME NEW c \in claims PROVE HeldSides(c)' = Sides /\ index'[c] # "none"
    <3>1. c # n /\ c \in ClaimIds
        BY <1>2 DEF TypeOK
    <3>2. index'[c] # "none"
        BY <1>2, <3>1 DEF ClaimRecoverable, TypeOK
    <3>3. ASSUME NEW s \in Sides PROVE HeldBy(ClaimTicket(c, s), c)'
      <4>1. HeldBy(ClaimTicket(c, s), c) /\ ClaimTicket(c, s) \in TicketIds
          BY DEF ClaimRecoverable, HeldSides, HeldBy, Claimed
      <4> QED BY <1>81, <2>1, <2>2, <3>1, <4>1 DEF HeldBy
    <3> QED BY <3>2, <3>3 DEF HeldSides
  <2>4. HeldSides(n)' = Sides /\ index'[n] # "none"
    <3>1. HeldBy(a, n)' /\ HeldBy(b, n)'
        BY <1>3, <1>9, <2>1 DEF HeldBy
    <3>2. index'[n] # "none"
        BY <1>2 DEF TypeOK
    <3> QED BY <1>82, <3>1, <3>2 DEF HeldSides, Sides
  <2>5. ASSUME NEW t \in TicketIds, Claimed(t)'
        PROVE  /\ tickets'[t].claim \in claims'
               /\ \E s \in Sides : /\ ClaimTicket(tickets[t].claim, s)' = t
                                   /\ ClaimRoster(tickets[t].claim, s)' = tickets'[t].roster
    <3>1. CASE (t = a \/ t = b)
        BY <1>2, <1>82, <1>9, <3>1 DEF Sides
    <3>2. CASE t # a /\ t # b
      <4>1. Claimed(t) /\ tickets'[t] = tickets[t]
          BY <2>1, <2>2, <2>5, <3>2
      <4>2. tickets[t].claim \in claims /\ tickets[t].claim # n /\ tickets[t].claim \in ClaimIds
          BY <1>2, <4>1 DEF ClaimRecoverable, TypeOK
      <4> QED BY <1>2, <1>81, <4>1, <4>2 DEF ClaimRecoverable
    <3> QED BY <3>1, <3>2
  <2> QED BY <1>2, <2>3, <2>4, <2>5 DEF ClaimRecoverable
<1>14. IssuedInv'
  <2>1. \A t \in TicketIds : t >= nextTicket => t # a /\ t # b
      BY <1>3 DEF TicketIds, TypeOK
  <2>2. \A c \in claims' : c < nextClaim'
    <3> SUFFICES ASSUME NEW c \in claims' PROVE c < n + 1
        BY <1>2
    <3>1. CASE c = n
        BY <1>2, <3>1
    <3>2. CASE c \in claims
        BY <1>0, <1>2, <3>2 DEF IssuedInv, TypeOK, ClaimIds
    <3> QED BY <1>2, <3>1, <3>2
  <2> QED BY <1>2, <1>6, <2>1, <2>2 DEF IssuedInv, NoTicket
<1>15. RecordInv'
  <2>1. \A t \in TicketIds : Exists(t)' => /\ Exists(t)
                                           /\ tickets'[t].roster = tickets[t].roster
                                           /\ tickets'[t].enq = tickets[t].enq
      BY <1>3, <1>6, <1>9 DEF Exists, Searching, Claimed, NoTicket
  <2> SUFFICES ASSUME NEW c \in ClaimIds, c < nextClaim'
               PROVE  /\ claimRec'[c].a \in TicketIds
                      /\ claimRec'[c].b \in TicketIds
                      /\ claimRec'[c].a # claimRec'[c].b
                      /\ \A s \in Sides :
                           /\ ClaimTicket(c, s)' < nextTicket
                           /\ Exists(ClaimTicket(c, s))' =>
                                /\ tickets'[ClaimTicket(c, s)'].roster = ClaimRoster(c, s)'
                                /\ tickets'[ClaimTicket(c, s)'].enq = ClaimEnq(c, s)'
      BY <1>2 DEF RecordInv
  <2>2. CASE c = n
      BY <1>3, <1>82, <1>9, <2>2 DEF Sides
  <2>3. CASE c # n
    <3>1. c < nextClaim /\ claimRec'[c] = claimRec[c]
        BY <1>0, <1>2, <1>8, <2>3 DEF ClaimIds
    <3>2. ASSUME NEW s \in Sides
          PROVE  /\ ClaimTicket(c, s)' < nextTicket
                 /\ Exists(ClaimTicket(c, s))' =>
                      /\ tickets'[ClaimTicket(c, s)'].roster = ClaimRoster(c, s)'
                      /\ tickets'[ClaimTicket(c, s)'].enq = ClaimEnq(c, s)'
      <4>1. PICK t \in TicketIds : t = ClaimTicket(c, s)
          BY <3>1 DEF RecordInv, ClaimTicket
      <4>2. /\ t < nextTicket
            /\ Exists(t) => /\ tickets[t].roster = ClaimRoster(c, s)
                            /\ tickets[t].enq = ClaimEnq(c, s)
          BY <3>1, <4>1 DEF RecordInv
      <4>3. /\ ClaimTicket(c, s)' = t
            /\ ClaimRoster(c, s)' = ClaimRoster(c, s)
            /\ ClaimEnq(c, s)' = ClaimEnq(c, s)
          BY <1>81, <2>3, <4>1
      <4>4. Exists(ClaimTicket(c, s))' <=> Exists(t)'
          BY <4>3 DEF Exists, Searching, Claimed
      <4> QED BY <2>1, <4>2, <4>3, <4>4
    <3> QED BY <3>1, <3>2 DEF RecordInv
  <2> QED BY <2>2, <2>3
<1>16. Frozen /\ Kept
    BY <1>6, <1>7, <1>9 DEF Frozen, Kept, NoTicket
<1> QED BY <1>10, <1>11, <1>12, <1>13, <1>14, <1>15, <1>16 DEF IInv

-----------------------------------------------------------------------------
(* What the invariant says of the two sides of an issued claim.             *)
LEMMA SideFacts ==
    ASSUME IInv, NEW c \in Issued, NEW s \in Sides
    PROVE  /\ ClaimTicket(c, s) \in TicketIds
           /\ Exists(ClaimTicket(c, s)) =>
                /\ tickets[ClaimTicket(c, s)].roster = ClaimRoster(c, s)
                /\ tickets[ClaimTicket(c, s)].enq = ClaimEnq(c, s)
           /\ ClaimTicket(c, "A") # ClaimTicket(c, "B")
BY DEF IInv, Issued, RecordInv, ClaimTicket

(* Finalizing or releasing claim c touches no ticket but the ones it holds  *)
(* and leaves none of them claimed: the other claims keep theirs.           *)
LEMMA UnclaimKeepsClaims ==
    ASSUME IInv, NEW c \in Issued, NEW H \in SUBSET TicketIds,
           H = {ClaimTicket(c, s) : s \in HeldSides(c)},
           \A t \in TicketIds \ H : tickets'[t] = tickets[t],
           \A t \in H : \/ tickets'[t].state = "absent"
                        \/ /\ tickets'[t].state = "searching"
                           /\ tickets'[t].roster = tickets[t].roster
                           /\ tickets'[t].enq = tickets[t].enq,
           claims' = claims \ {c}, index' = [index EXCEPT ![c] = "none"],
           UNCHANGED <<claimRec, nextTicket, nextClaim>>
    PROVE  ClaimRecoverable' /\ IssuedInv' /\ RecordInv' /\ Frozen /\ Kept
<1> USE DEF IInv
<1>1. \A t \in H : Claimed(t) /\ tickets[t].claim = c
    BY DEF HeldSides, HeldBy
<1>2. \A t \in TicketIds : Claimed(t) /\ tickets[t].claim = c => t \in H
    BY DEF ClaimRecoverable, HeldSides, HeldBy
<1>3. \A t \in TicketIds : Claimed(t)' <=> Claimed(t) /\ t \notin H
    BY DEF Claimed
<1>4. \A d \in ClaimIds, s \in Sides : /\ ClaimTicket(d, s)' = ClaimTicket(d, s)
                                       /\ ClaimRoster(d, s)' = ClaimRoster(d, s)
                                       /\ ClaimEnq(d, s)' = ClaimEnq(d, s)
    BY DEF ClaimTicket, ClaimRoster, ClaimEnq
<1>5. ClaimRecoverable'
  <2>1. ASSUME NEW d \in claims, d # c
        PROVE  HeldSides(d)' = Sides /\ index'[d] # "none"
    <3>1. d \in ClaimIds /\ index'[d] # "none"
        BY <2>1 DEF ClaimRecoverable, TypeOK
    <3>2. ASSUME NEW s \in Sides PROVE HeldBy(ClaimTicket(d, s), d)'
      <4>1. HeldBy(ClaimTicket(d, s), d) /\ ClaimTicket(d, s) \in TicketIds
          BY DEF ClaimRecoverable, HeldSides, HeldBy, Claimed
      <4>2. ClaimTicket(d, s) \notin H
          BY <1>1, <2>1, <4>1 DEF HeldBy
      <4> QED BY <1>3, <1>4, <3>1, <4>1, <4>2 DEF HeldBy
    <3> QED BY <3>1, <3>2 DEF HeldSides
  <2>2. ASSUME NEW t \in TicketIds, Claimed(t)'
        PROVE  /\ tickets'[t].claim \in claims'
               /\ \E s \in Sides : /\ ClaimTicket(tickets[t].claim, s)' = t
                                   /\ ClaimRoster(tickets[t].claim, s)' = tickets'[t].roster
    <3>1. Claimed(t) /\ t \notin H /\ tickets'[t] = tickets[t]
        BY <1>3, <2>2
    <3>2. tickets[t].claim # c /\ tickets[t].claim \in claims /\ tickets[t].claim \in ClaimIds
        BY <1>2, <3>1 DEF ClaimRecoverable, TypeOK
    <3> QED BY <1>4, <3>1, <3>2 DEF ClaimRecoverable
  <2> QED BY <2>1, <2>2 DEF ClaimRecoverable
<1>6. IssuedInv'
  <2>1. \A t \in TicketIds : tickets[t].state = "absent" => tickets'[t].state = "absent"
      BY <1>1 DEF Claimed
  <2> QED BY <2>1 DEF IssuedInv
<1>7. RecordInv'
  <2>1. \A t \in TicketIds : Exists(t)' => /\ Exists(t)
                                           /\ tickets'[t].roster = tickets[t].roster
                                           /\ tickets'[t].enq = tickets[t].enq
      BY <1>1 DEF Exists, Searching, Claimed
  <2> SUFFICES ASSUME NEW d \in ClaimIds, d < nextClaim, NEW s \in Sides
               PROVE  /\ claimRec[d].a \in TicketIds /\ claimRec[d].b \in TicketIds
                      /\ claimRec[d].a # claimRec[d].b
                      /\ ClaimTicket(d, s) < nextTicket
                      /\ Exists(ClaimTicket(d, s))' =>
                           /\ tickets'[ClaimTicket(d, s)].roster = ClaimRoster(d, s)
                           /\ tickets'[ClaimTicket(d, s)].enq = ClaimEnq(d, s)
      BY <1>4 DEF RecordInv, Sides
  <2>2. PICK t \in TicketIds : t = ClaimTicket(d, s)
      BY DEF RecordInv, ClaimTicket
  <2>3. Exists(ClaimTicket(d, s))' <=> Exists(t)'
      BY <1>4, <2>2 DEF Exists, Searching, Claimed
  <2> QED BY <2>1, <2>2, <2>3 DEF RecordInv
<1>8. Frozen /\ Kept
    BY <1>1 DEF Frozen, Kept
<1> QED BY <1>5, <1>6, <1>7, <1>8

(* Finalizing, also by a caller whose claim is gone: the pointers to a       *)
(* removed ticket go with it, because the record names its whole roster.    *)
LEMMA FinalizeKeepsIInv ==
    ASSUME IInv, NEW c \in Issued, FinalizeTeamClaim(c)
    PROVE  IInv' /\ Frozen /\ Kept
<1> USE DEF IInv
<1>1. PICK H \in SUBSET TicketIds : H = {ClaimTicket(c, s) : s \in HeldSides(c)}
  <2>1. {ClaimTicket(c, s) : s \in HeldSides(c)} \in SUBSET TicketIds
      BY SideFacts DEF HeldSides
  <2> QED BY <2>1
<1>2. \A t \in TicketIds : tickets'[t] = IF t \in H THEN NoTicket ELSE tickets[t]
    BY <1>1 DEF FinalizeTeamClaim, HeldSides
<1>3. \A t \in H : Claimed(t)
    BY <1>1 DEF HeldSides, HeldBy
<1>4. \A u \in Users : /\ ptr'[u] = None \/ ptr'[u] = ptr[u]
                       /\ (ptr[u] \in H /\ u \in tickets[ptr[u]].roster) => ptr'[u] = None
  <2> SUFFICES ASSUME NEW u \in Users
               PROVE  /\ ptr'[u] = None \/ ptr'[u] = ptr[u]
                      /\ (ptr[u] \in H /\ u \in tickets[ptr[u]].roster) => ptr'[u] = None
      OBVIOUS
  <2>1. ptr'[u] = IF \E s \in Sides : u \in ClaimRoster(c, s) /\ ptr[u] = ClaimTicket(c, s)
                  THEN None ELSE ptr[u]
      BY DEF FinalizeTeamClaim
  <2>2. ASSUME ptr[u] \in H, u \in tickets[ptr[u]].roster
        PROVE  \E s \in Sides : u \in ClaimRoster(c, s) /\ ptr[u] = ClaimTicket(c, s)
    <3>1. PICK s \in Sides : ptr[u] = ClaimTicket(c, s)
        BY <1>1, <2>2 DEF HeldSides
    <3>2. tickets[ptr[u]].roster = ClaimRoster(c, s)
        BY <1>3, <2>2, <3>1, SideFacts DEF Exists
    <3> QED BY <2>2, <3>1, <3>2
  <2> QED BY <2>1, <2>2
<1>5. TypeOK'
  <2>1. tickets' \in [TicketIds -> Ticket]
    <3>1. NoTicket \in Ticket
        BY DEF NoTicket, Ticket, None
    <3> QED BY <3>1 DEF TypeOK, FinalizeTeamClaim
  <2>2. ptr' \in [Users -> TicketIds \cup {None}]
      BY DEF TypeOK, FinalizeTeamClaim
  <2> QED BY <2>1, <2>2 DEF TypeOK, FinalizeTeamClaim
<1>6. PointersNeverDangle'
  <2> SUFFICES ASSUME NEW u \in Users, ptr'[u] # None
               PROVE  /\ Searching(ptr[u])' \/ Claimed(ptr[u])'
                      /\ u \in tickets'[ptr'[u]].roster
      BY DEF PointersNeverDangle
  <2>1. ptr'[u] = ptr[u] /\ ptr[u] # None
      BY <1>4
  <2>2. Exists(ptr[u]) /\ u \in tickets[ptr[u]].roster /\ ptr[u] \in TicketIds
      BY <2>1 DEF PointersNeverDangle, Exists, Searching, Claimed
  <2>3. tickets'[ptr[u]] = tickets[ptr[u]]
      BY <1>2, <1>4, <2>1, <2>2
  <2> QED BY <2>1, <2>2, <2>3 DEF Exists, Searching, Claimed
<1>7. QueueIsSearching'
    BY <1>2, <1>3 DEF QueueIsSearching, Searching, Claimed, NoTicket, FinalizeTeamClaim
<1>8. ClaimRecoverable' /\ IssuedInv' /\ RecordInv' /\ Frozen /\ Kept
  <2>1. \A t \in TicketIds \ H : tickets'[t] = tickets[t]
      BY <1>2
  <2>2. \A t \in H : tickets'[t].state = "absent"
      BY <1>2 DEF NoTicket
  <2>3. /\ claims' = claims \ {c}
        /\ index' = [index EXCEPT ![c] = "none"]
        /\ UNCHANGED <<claimRec, nextTicket, nextClaim>>
      BY DEF FinalizeTeamClaim
  <2> HIDE DEF IInv
  <2> QED BY <1>1, <2>1, <2>2, <2>3, UnclaimKeepsClaims
<1> QED BY <1>5, <1>6, <1>7, <1>8

(* A step that only moves a claim in the recovery index, and never takes a   *)
(* claim whose hash exists out of it.                                       *)
LEMMA IndexKeepsIInv ==
    ASSUME IInv, index' \in [ClaimIds -> {"none", "waiting", "due"}],
           \A c \in claims : index'[c] # "none",
           UNCHANGED <<tickets, ptr, queue, claims, claimRec, nextTicket, nextClaim>>
    PROVE  IInv' /\ Frozen /\ Kept
<1> USE DEF IInv
<1>0. \A t : Searching(t)' = Searching(t) /\ Claimed(t)' = Claimed(t)
    BY DEF Searching, Claimed
<1>1. TypeOK' /\ PointersNeverDangle' /\ QueueIsSearching'
    BY <1>0 DEF TypeOK, PointersNeverDangle, QueueIsSearching, Searching, Claimed
<1>2. ClaimRecoverable'
    BY DEF ClaimRecoverable, HeldSides, HeldBy, Claimed, ClaimTicket, ClaimRoster
<1>3. IssuedInv'
    BY DEF IssuedInv
<1>4. RecordInv'
    BY DEF RecordInv, Exists, Searching, Claimed, ClaimTicket, ClaimRoster, ClaimEnq
<1>5. Frozen /\ Kept
    BY DEF Frozen, Kept
<1> QED BY <1>1, <1>2, <1>3, <1>4, <1>5

(* A lease that is renewed or runs out.                                     *)
LEMMA LeaseKeepsIInv ==
    ASSUME IInv, NEW t \in TicketIds, Searching(t), NEW x \in BOOLEAN,
           tickets' = [tickets EXCEPT ![t].live = x],
           UNCHANGED <<ptr, queue, claims, claimRec, index, nextTicket, nextClaim>>
    PROVE  IInv' /\ Frozen /\ Kept
<1> USE DEF IInv
<1>1. tickets' \in [TicketIds -> Ticket]
    BY DEF TypeOK, Ticket
<1>2. \A d \in TicketIds : /\ tickets'[d].roster = tickets[d].roster
                           /\ tickets'[d].enq = tickets[d].enq
                           /\ tickets'[d].state = tickets[d].state
                           /\ tickets'[d].claim = tickets[d].claim
    BY DEF TypeOK, Ticket
<1>3. \A d : Searching(d)' = Searching(d) /\ Claimed(d)' = Claimed(d)
    BY <1>2 DEF Searching, Claimed
<1>4. TypeOK'
    BY <1>1 DEF TypeOK
<1>5. PointersNeverDangle' /\ QueueIsSearching'
    BY <1>2, <1>3 DEF PointersNeverDangle, QueueIsSearching, Searching, Claimed
<1>6. ClaimRecoverable'
    BY <1>2, <1>3 DEF ClaimRecoverable, HeldSides, HeldBy, Claimed, ClaimTicket, ClaimRoster
<1>7. IssuedInv'
    BY <1>2 DEF IssuedInv
<1>8. RecordInv'
    BY <1>2, <1>3 DEF RecordInv, Exists, Searching, Claimed, ClaimTicket, ClaimRoster, ClaimEnq
<1>9. Frozen /\ Kept
  <2>1. \A d \in TicketIds : d # t => tickets'[d] = tickets[d]
      BY DEF TypeOK
  <2>2. ~Claimed(t)
      BY DEF Searching, Claimed
  <2> QED BY <1>2, <2>1, <2>2 DEF Frozen, Kept
<1> QED BY <1>4, <1>5, <1>6, <1>7, <1>8, <1>9

(* Releasing a claim that is gone only drops its index entry; releasing one *)
(* that exists puts back the sides of `requeue' as the record names them,   *)
(* with all their pointers, and clears the other side with all of its.      *)
LEMMA ReleaseKeepsIInv ==
    ASSUME IInv, NEW c \in Issued, NEW requeue \in SUBSET Sides,
           ReleaseTeamClaim(c, requeue)
    PROVE  IInv' /\ Frozen /\ Kept
<1>1. CASE c \notin claims
  <2>1. /\ index' = [index EXCEPT ![c] = "none"]
        /\ UNCHANGED <<tickets, ptr, queue, claims, claimRec, nextTicket, nextClaim>>
      BY <1>1 DEF ReleaseTeamClaim
  <2>2. /\ index' \in [ClaimIds -> {"none", "waiting", "due"}]
        /\ \A d \in claims : index'[d] # "none"
      BY <1>1, <2>1 DEF IInv, TypeOK, ClaimRecoverable
  <2> QED BY <2>1, <2>2, IndexKeepsIInv
<1>2. CASE c \in claims
  <2> USE DEF IInv
  <2>1. HeldSides(c) = Sides
      BY <1>2 DEF ClaimRecoverable
  <2>2. PICK H \in SUBSET TicketIds : H = {ClaimTicket(c, s) : s \in HeldSides(c)}
    <3>1. {ClaimTicket(c, s) : s \in HeldSides(c)} \in SUBSET TicketIds
        BY SideFacts DEF HeldSides
    <3> QED BY <3>1
  <2>3. \A s \in Sides : /\ ClaimTicket(c, s) \in H
                         /\ Claimed(ClaimTicket(c, s))
                         /\ tickets[ClaimTicket(c, s)] \in Ticket
                         /\ tickets[ClaimTicket(c, s)].roster = ClaimRoster(c, s)
                         /\ tickets[ClaimTicket(c, s)].enq = ClaimEnq(c, s)
                         /\ ClaimRoster(c, s) \in SUBSET Users
                         /\ ClaimEnq(c, s) \in Nat
    <3> SUFFICES ASSUME NEW s \in Sides
                 PROVE  /\ Claimed(ClaimTicket(c, s))
                        /\ tickets[ClaimTicket(c, s)] \in Ticket
                        /\ tickets[ClaimTicket(c, s)].roster = ClaimRoster(c, s)
                        /\ tickets[ClaimTicket(c, s)].enq = ClaimEnq(c, s)
                        /\ ClaimRoster(c, s) \in SUBSET Users
                        /\ ClaimEnq(c, s) \in Nat
        BY <2>1, <2>2
    <3>1. Claimed(ClaimTicket(c, s)) /\ ClaimTicket(c, s) \in TicketIds
        BY <2>1 DEF HeldSides, HeldBy, Claimed
    <3>2. /\ tickets[ClaimTicket(c, s)].roster = ClaimRoster(c, s)
          /\ tickets[ClaimTicket(c, s)].enq = ClaimEnq(c, s)
        BY <3>1, SideFacts DEF Exists
    <3>3. tickets[ClaimTicket(c, s)] \in Ticket
        BY <3>1 DEF TypeOK
    <3> QED BY <3>1, <3>2, <3>3 DEF Ticket
  <2>4. \A t \in TicketIds \ H : tickets'[t] = tickets[t]
      BY <1>2, <2>2 DEF ReleaseTeamClaim
  <2>5. \A s \in Sides : tickets'[ClaimTicket(c, s)] = ReleasedTicket(c, s, requeue)
    <3> SUFFICES ASSUME NEW s \in Sides
                 PROVE  tickets'[ClaimTicket(c, s)] = ReleasedTicket(c, s, requeue)
        OBVIOUS
    <3>1. \A r \in Sides : ClaimTicket(c, r) = ClaimTicket(c, s) <=> r = s
        BY SideFacts DEF Sides
    <3>2. (CHOOSE r \in HeldSides(c) : ClaimTicket(c, s) = ClaimTicket(c, r)) = s
        BY <2>1, <3>1
    <3> QED BY <1>2, <2>1, <3>2, SideFacts DEF ReleaseTeamClaim
  <2>6. \A s \in Sides :
          /\ tickets'[ClaimTicket(c, s)] \in Ticket
          /\ s \notin requeue => tickets'[ClaimTicket(c, s)].state = "absent"
          /\ s \in requeue => /\ tickets'[ClaimTicket(c, s)].state = "searching"
                              /\ tickets'[ClaimTicket(c, s)].roster = ClaimRoster(c, s)
                              /\ tickets'[ClaimTicket(c, s)].enq = ClaimEnq(c, s)
    <3> SUFFICES ASSUME NEW s \in Sides
                 PROVE  /\ ReleasedTicket(c, s, requeue) \in Ticket
                        /\ s \notin requeue => ReleasedTicket(c, s, requeue).state = "absent"
                        /\ s \in requeue =>
                             /\ ReleasedTicket(c, s, requeue).state = "searching"
                             /\ ReleasedTicket(c, s, requeue).roster = ClaimRoster(c, s)
                             /\ ReleasedTicket(c, s, requeue).enq = ClaimEnq(c, s)
        BY <2>5
    <3> HIDE DEF IInv
    <3>1. CASE s \notin requeue
        BY <3>1 DEF ReleasedTicket, NoTicket, Ticket, None
    <3>2. CASE s \in requeue
      <4>1. ReleasedTicket(c, s, requeue)
              = [tickets[ClaimTicket(c, s)] EXCEPT !.state = "searching", !.claim = None,
                    !.live = TRUE, !.enq = ClaimEnq(c, s), !.roster = ClaimRoster(c, s)]
          BY <3>2 DEF ReleasedTicket
      <4>2. /\ tickets[ClaimTicket(c, s)] \in Ticket
            /\ ClaimRoster(c, s) \in SUBSET Users /\ ClaimEnq(c, s) \in Nat
          BY <2>3
      <4> QED BY <3>2, <4>1, <4>2 DEF Ticket
    <3> QED BY <3>1, <3>2
  <2>7. \A u \in Users :
          IF \E s \in requeue : u \in ClaimRoster(c, s)
          THEN \E s \in requeue : u \in ClaimRoster(c, s) /\ ptr'[u] = ClaimTicket(c, s)
          ELSE IF \E s \in Sides : u \in ClaimRoster(c, s) /\ ptr[u] = ClaimTicket(c, s)
               THEN ptr'[u] = None
               ELSE ptr'[u] = ptr[u]
    <3>1. LostSides(c) = {}
        BY <2>3 DEF LostSides
    <3>2. ptr' = [u \in Users |->
                    IF \E s \in requeue : u \in ClaimRoster(c, s)
                    THEN ClaimTicket(c, CHOOSE s \in requeue : u \in ClaimRoster(c, s))
                    ELSE IF \E s \in Sides \ requeue : /\ u \in ClaimRoster(c, s)
                                                       /\ ptr[u] = ClaimTicket(c, s)
                         THEN None ELSE ptr[u]]
      <4>1. Sides \cap requeue = requeue /\ (Sides \ requeue) \cup {} = Sides \ requeue
          OBVIOUS
      <4> QED BY <1>2, <2>1, <3>1, <4>1 DEF ReleaseTeamClaim
    <3> QED BY <3>2
  <2>8. queue' = queue \cup {ClaimTicket(c, s) : s \in requeue}
    <3>1. Sides \cap requeue = requeue
        OBVIOUS
    <3> QED BY <1>2, <2>1, <3>1 DEF ReleaseTeamClaim
  <2>9. /\ claims' = claims \ {c}
        /\ index' = [index EXCEPT ![c] = "none"]
        /\ UNCHANGED <<claimRec, nextTicket, nextClaim>>
      BY <1>2 DEF ReleaseTeamClaim
  <2>10. TypeOK'
    <3>1. tickets' \in [TicketIds -> Ticket]
      <4>1. \A t \in TicketIds : tickets'[t] \in Ticket
          BY <2>1, <2>2, <2>4, <2>6 DEF TypeOK
      <4>2. \E f : tickets' = [t \in TicketIds |-> f[t]]
          BY <1>2 DEF ReleaseTeamClaim
      <4> QED BY <4>1, <4>2
    <3>2. ptr' \in [Users -> TicketIds \cup {None}]
      <4>1. \A u \in Users : ptr'[u] \in TicketIds \cup {None}
          BY <2>7, SideFacts DEF TypeOK
      <4>2. \E f : ptr' = [u \in Users |-> f[u]]
          BY <1>2 DEF ReleaseTeamClaim
      <4> QED BY <4>1, <4>2
    <3>3. queue' \subseteq TicketIds
        BY <2>8, SideFacts DEF TypeOK
    <3> QED BY <2>9, <3>1, <3>2, <3>3 DEF TypeOK
  <2>11. PointersNeverDangle'
    <3> SUFFICES ASSUME NEW u \in Users, ptr'[u] # None
                 PROVE  /\ Searching(ptr[u])' \/ Claimed(ptr[u])'
                        /\ u \in tickets'[ptr'[u]].roster
        BY DEF PointersNeverDangle
    <3>1. CASE \E s \in requeue : u \in ClaimRoster(c, s)
      <4>1. PICK s \in requeue : u \in ClaimRoster(c, s) /\ ptr'[u] = ClaimTicket(c, s)
          BY <2>7, <3>1
      <4> QED BY <2>6, <4>1, SideFacts DEF Searching
    <3>2. CASE ~ \E s \in requeue : u \in ClaimRoster(c, s)
      <4>1. ptr'[u] = ptr[u] /\ ptr[u] # None
          BY <2>7, <3>2
      <4>2. Exists(ptr[u]) /\ u \in tickets[ptr[u]].roster /\ ptr[u] \in TicketIds
          BY <4>1 DEF PointersNeverDangle, Exists, Searching, Claimed
      <4>3. ptr[u] \notin H
        <5>1. ASSUME NEW s \in Sides, ptr[u] = ClaimTicket(c, s) PROVE FALSE
            BY <2>3, <2>7, <3>2, <4>1, <4>2, <5>1
        <5> QED BY <2>1, <2>2, <5>1
      <4> QED BY <2>4, <4>1, <4>2, <4>3 DEF Exists, Searching, Claimed
    <3> QED BY <3>1, <3>2
  <2>12. QueueIsSearching'
    <3> SUFFICES ASSUME NEW t \in TicketIds PROVE t \in queue' <=> Searching(t)'
        BY DEF QueueIsSearching
    <3>1. CASE t \notin H
        BY <2>1, <2>2, <2>4, <2>8, <3>1 DEF QueueIsSearching, Searching
    <3>2. CASE t \in H
      <4>1. PICK s \in Sides : t = ClaimTicket(c, s)
          BY <2>1, <2>2, <3>2
      <4>2. t \notin queue
          BY <2>3, <4>1 DEF QueueIsSearching, Searching, Claimed
      <4>3. \A r \in Sides : ClaimTicket(c, r) = t <=> r = s
          BY <4>1, SideFacts DEF Sides
      <4>4. t \in queue' <=> s \in requeue
          BY <2>8, <4>2, <4>3
      <4>5. Searching(t)' <=> s \in requeue
          BY <2>6, <4>1 DEF Searching
      <4> QED BY <4>4, <4>5
    <3> QED BY <3>1, <3>2
  <2>13. ClaimRecoverable' /\ IssuedInv' /\ RecordInv' /\ Frozen /\ Kept
    <3>1. \A t \in H : \/ tickets'[t].state = "absent"
                       \/ /\ tickets'[t].state = "searching"
                          /\ tickets'[t].roster = tickets[t].roster
                          /\ tickets'[t].enq = tickets[t].enq
        BY <2>1, <2>2, <2>3, <2>6
    <3> HIDE DEF IInv
    <3> QED BY <2>2, <2>4, <2>9, <3>1, UnclaimKeepsClaims
  <2> QED BY <2>10, <2>11, <2>12, <2>13
<1> QED BY <1>1, <1>2

-----------------------------------------------------------------------------
(* The two clean-ups of renew and leave: the caller's own search goes with  *)
(* the pointers of its roster; otherwise there is no pointer to clear.      *)
LEMMA ClearOwnKeepsIInv ==
    ASSUME IInv, NEW u \in Users, Searching(ptr[u]),
           tickets' = WithoutTickets({ptr[u]}), ptr' = WithoutPointers({ptr[u]}),
           queue' = queue \ {ptr[u]},
           UNCHANGED <<claims, claimRec, index, nextTicket, nextClaim>>
    PROVE  IInv' /\ Frozen /\ Kept
<1>1. {ptr[u]} \in SUBSET TicketIds /\ \A t \in {ptr[u]} : Searching(t)
    BY DEF Searching
<1> QED BY <1>1, ClearKeepsIInv

(* A caller whose pointers are all missing has nothing to clear.            *)
LEMMA NothingToClear ==
    ASSUME IInv, NEW u \in Users, ~Searching(ptr[u]), ~Claimed(ptr[u]),
           ptr' = [ptr EXCEPT ![u] = None],
           UNCHANGED <<tickets, queue, claims, claimRec, index, nextTicket, nextClaim>>
    PROVE  UNCHANGED storeVars
<1>1. ptr[u] = None /\ ptr \in [Users -> TicketIds \cup {None}]
    BY DEF IInv, PointersNeverDangle, TypeOK
<1>2. ptr' = ptr
    BY <1>1
<1> QED BY <1>2 DEF storeVars

(* A step that changes nothing.                                             *)
LEMMA StutterKeepsIInv ==
    ASSUME IInv, UNCHANGED storeVars PROVE IInv' /\ Frozen /\ Kept
<1>1. /\ index' \in [ClaimIds -> {"none", "waiting", "due"}]
      /\ \A c \in claims : index'[c] # "none"
    BY DEF storeVars, IInv, TypeOK, ClaimRecoverable
<1> QED BY <1>1, IndexKeepsIInv DEF storeVars

(* A lease renewal, in each of its branches, keeps the invariant.           *)
LEMMA RenewKeepsIInv ==
    ASSUME IInv, NEW u \in Users, RenewTicket(u) PROVE IInv' /\ Frozen /\ Kept
<1>1. UNCHANGED <<claims, claimRec, index, nextTicket, nextClaim>>
    BY DEF RenewTicket
<1>2. CASE Searching(ptr[u]) /\ tickets[ptr[u]].live
  <2>1. ptr[u] \in TicketIds
      BY <1>2 DEF Searching
  <2>2. ~Claimed(ptr[u])
      BY <1>2 DEF Searching, Claimed
  <2>3. /\ tickets' = [tickets EXCEPT ![ptr[u]].live = TRUE]
        /\ UNCHANGED <<ptr, queue>>
      BY <1>2, <2>2, Zenon DEF RenewTicket
  <2> QED BY <1>1, <1>2, <2>1, <2>3, LeaseKeepsIInv
<1>3. CASE Searching(ptr[u]) /\ ~tickets[ptr[u]].live
    BY <1>1, <1>3, ClearOwnKeepsIInv DEF RenewTicket, Searching, Claimed
<1>4. CASE Claimed(ptr[u])
    BY <1>1, <1>4, StutterKeepsIInv DEF RenewTicket, Searching, Claimed, storeVars
<1>5. CASE ~Searching(ptr[u]) /\ ~Claimed(ptr[u])
    BY <1>1, <1>5, NothingToClear, StutterKeepsIInv DEF RenewTicket
<1> QED BY <1>2, <1>3, <1>4, <1>5

(* Leaving the queue, in each of its branches, keeps the invariant.         *)
LEMMA LeaveKeepsIInv ==
    ASSUME IInv, NEW u \in Users, LeaveTicket(u) PROVE IInv' /\ Frozen /\ Kept
<1>1. UNCHANGED <<claims, claimRec, index, nextTicket, nextClaim>>
    BY DEF LeaveTicket
<1>2. CASE Searching(ptr[u])
    BY <1>1, <1>2, ClearOwnKeepsIInv DEF LeaveTicket, Searching, Claimed
<1>3. CASE Claimed(ptr[u])
    BY <1>1, <1>3, StutterKeepsIInv DEF LeaveTicket, Searching, Claimed, storeVars
<1>4. CASE ~Searching(ptr[u]) /\ ~Claimed(ptr[u])
    BY <1>1, <1>4, NothingToClear, StutterKeepsIInv DEF LeaveTicket
<1> QED BY <1>2, <1>3, <1>4

(* Every script keeps the invariant, the claimed tickets and the places.    *)
LEMMA StepKeepsIInv ==
    ASSUME IInv, StoreNext PROVE IInv' /\ Frozen /\ Kept
<1>1. ASSUME NEW R \in Rosters, JoinCreates(R) PROVE IInv' /\ Frozen /\ Kept
    BY <1>1, JoinKeepsIInv
<1>2. ASSUME NEW u \in Users, RenewTicket(u) \/ LeaveTicket(u)
      PROVE  IInv' /\ Frozen /\ Kept
    BY <1>2, RenewKeepsIInv, LeaveKeepsIInv
<1>3. CASE ClaimPair
    BY <1>3, ClaimPairKeepsIInv
<1>4. CASE ClaimNothing
  <2>1. Stale \in SUBSET TicketIds /\ \A t \in Stale : Searching(t)
      BY DEF Stale, Searching
  <2>2. Detached = {}
      BY DEF Detached, Scanned, IInv, QueueIsSearching, TypeOK
  <2> QED BY <1>4, <2>1, <2>2, ClearKeepsIInv DEF ClaimNothing
<1>5. ASSUME NEW c \in Issued, FinalizeTeamClaim(c) PROVE IInv' /\ Frozen /\ Kept
    BY <1>5, FinalizeKeepsIInv
<1>6. ASSUME NEW c \in Issued, NEW requeue \in SUBSET Sides, ReleaseTeamClaim(c, requeue)
      PROVE  IInv' /\ Frozen /\ Kept
    BY <1>6, ReleaseKeepsIInv
<1>7. ASSUME NEW c \in Issued \ claims, DropTeamClaimIndex(c) PROVE IInv' /\ Frozen /\ Kept
  <2>1. /\ index' \in [ClaimIds -> {"none", "waiting", "due"}]
        /\ \A d \in claims : index'[d] # "none"
      BY <1>7 DEF DropTeamClaimIndex, IInv, TypeOK, ClaimRecoverable
  <2> QED BY <1>7, <2>1, IndexKeepsIInv DEF DropTeamClaimIndex
<1>8. ASSUME NEW t \in TicketIds, ExpireLease(t) PROVE IInv' /\ Frozen /\ Kept
    BY <1>8, LeaseKeepsIInv DEF ExpireLease
<1>9. ASSUME NEW c \in ClaimIds, PassRecoverAfter(c) PROVE IInv' /\ Frozen /\ Kept
  <2>1. /\ index' \in [ClaimIds -> {"none", "waiting", "due"}]
        /\ \A d \in claims : index'[d] # "none"
      BY <1>9 DEF PassRecoverAfter, IInv, TypeOK, ClaimRecoverable
  <2> QED BY <1>9, <2>1, IndexKeepsIInv DEF PassRecoverAfter
<1> QED BY <1>1, <1>2, <1>3, <1>4, <1>5, <1>6, <1>7, <1>8, <1>9 DEF StoreNext

(* IInv is an inductive invariant of the scripts in any order.              *)
THEOREM StoreInvariant == StoreSpec => []IInv
<1>1. StoreInit => IInv
    BY InitIInv
<1>2. IInv /\ [StoreNext]_storeVars => IInv'
    BY StepKeepsIInv, StutterKeepsIInv
<1> QED BY <1>1, <1>2, PTL DEF StoreSpec

(* Every key always holds a value of its type.                              *)
THEOREM StoreTypeCorrect == StoreSpec => []TypeOK
<1>1. IInv => TypeOK
    BY DEF IInv
<1> QED BY <1>1, StoreInvariant, PTL

(* No user pointer ever dangles: the clean-up code for dangling pointers in *)
(* the scripts of matchmaking_v2.go is never needed by these scripts alone. *)
THEOREM NoDanglingPointer == StoreSpec => []PointersNeverDangle
<1>1. IInv => PointersNeverDangle
    BY DEF IInv
<1> QED BY <1>1, StoreInvariant, PTL

(* The sorted set and the ticket hashes never disagree.                     *)
THEOREM QueueMatchesTickets == StoreSpec => []QueueIsSearching
<1>1. IInv => QueueIsSearching
    BY DEF IInv
<1> QED BY <1>1, StoreInvariant, PTL

(* No claimed ticket is ever out of the reach of the recovery index.        *)
THEOREM EveryClaimRecoverable == StoreSpec => []ClaimRecoverable
<1>1. IInv => ClaimRecoverable
    BY DEF IInv
<1> QED BY <1>1, StoreInvariant, PTL

(* A late caller never disturbs a ticket claimed by somebody else, and a    *)
(* roster keeps its place in the queue as long as its ticket exists.        *)
THEOREM TicketsKeepStill == StoreSpec => TicketsStand
<1>1. IInv /\ [StoreNext]_storeVars => [Frozen /\ Kept]_storeVars
    BY StepKeepsIInv
<1> QED BY <1>1, StoreInvariant, PTL DEF StoreSpec, TicketsStand

-----------------------------------------------------------------------------
(* Team formation.                                                          *)
(* The program counters at which a request acts on the claim it holds.      *)
HoldsClaim == {"find", "assess", "release", "finalize", "check", "commit", "recover"}

(* The program counters from which the request goes on to r.then.           *)
GoesOn == {"get", "find", "assess", "release", "finalize", "check", "commit"}

(* A request record that is sound when the claims of I have been issued.    *)
Sound(r, I) == /\ r \in Request
               /\ r.todo \subseteq I
               /\ r.pc \in HoldsClaim => r.claim \in I
               /\ r.pc \in GoesOn => r.then # "none"
               /\ r.pc = "join" => r.who \in Rosters

WorkInv == \A w \in Workers : Sound(work[w], Issued)

IndexInv == \A c \in ClaimIds : index[c] # "none" => c \in Issued

MatchInv == \A c \in ClaimIds : match[c] # "none" => c \in Issued

FInv == /\ IInv
        /\ FormationTypeOK
        /\ WorkInv
        /\ IndexInv
        /\ MatchInv
        /\ OneActiveAssignment

-----------------------------------------------------------------------------
(* Claims stay issued, and the record of an issued claim never changes.     *)
RecordsFixed == /\ Issued \subseteq Issued'
                /\ \A c \in Issued : claimRec'[c] = claimRec[c]

(* A step of the store keeps the records and the recovery index of issued   *)
(* claims.                                                                  *)
LEMMA StoreStepFacts ==
    ASSUME IInv, IndexInv, [StoreNext]_storeVars
    PROVE  RecordsFixed /\ IndexInv'
<1> USE DEF IInv, TypeOK
<1>1. nextClaim \in Nat /\ nextClaim \in Int
    BY BoundsAssumption
<1>2. CASE ClaimPair
  <2>1. PICK n \in ClaimIds : n = nextClaim
    <3>1. nextClaim <= MaxClaims /\ nextClaim \in 1..(MaxClaims + 1)
        BY <1>2 DEF ClaimPair
    <3>2. nextClaim \in ClaimIds
        BY <3>1, BoundsAssumption DEF ClaimIds
    <3> QED BY <3>2
  <2>2. PICK a \in Valid, b \in Valid : ClaimTickets(a, b, n)
      BY <1>2, <2>1 DEF ClaimPair
  <2>3. /\ claimRec' = [claimRec EXCEPT ![n] = ClaimRecord(a, b)]
        /\ index' = [index EXCEPT ![n] = "waiting"]
      BY <2>2 DEF ClaimTickets
  <2>4. nextClaim' = n + 1
      BY <1>2, <2>1 DEF ClaimPair
  <2>5. \A c \in ClaimIds : /\ c < nextClaim <=> c < n
                            /\ c < n => c # n /\ c < n + 1
                            /\ n < n + 1
      BY <2>1 DEF ClaimIds
  <2>6. \A c \in ClaimIds : c # n => claimRec'[c] = claimRec[c] /\ index'[c] = index[c]
      BY <2>3
  <2> QED BY <2>1, <2>4, <2>5, <2>6 DEF RecordsFixed, IndexInv, Issued
<1>3. CASE ~ClaimPair
  <2>1. UNCHANGED <<claimRec, nextClaim>>
      BY <1>3 DEF StoreNext, storeVars, JoinCreates, RenewTicket, LeaveTicket, ClaimNothing,
                  FinalizeTeamClaim, ReleaseTeamClaim, DropTeamClaimIndex, ExpireLease,
                  PassRecoverAfter
  <2>2. \A c \in ClaimIds : index'[c] # "none" => index[c] # "none"
    <3>1. CASE UNCHANGED index
        BY <3>1
    <3>2. CASE \E c \in ClaimIds : index' = [index EXCEPT ![c] = "none"]
        BY <3>2
    <3>3. CASE \E c \in ClaimIds : PassRecoverAfter(c)
        BY <3>3 DEF PassRecoverAfter
    <3> QED BY <1>3, <3>1, <3>2, <3>3
            DEF StoreNext, storeVars, JoinCreates, RenewTicket, LeaveTicket, ClaimNothing,
                FinalizeTeamClaim, ReleaseTeamClaim, DropTeamClaimIndex, ExpireLease, Issued
  <2>3. Issued' = Issued
      BY <2>1 DEF Issued
  <2> QED BY <2>1, <2>2, <2>3 DEF RecordsFixed, IndexInv
<1> QED BY <1>2, <1>3

-----------------------------------------------------------------------------
(* The request records the handlers write.                                  *)
LEMMA IdleSound == ASSUME NEW I \in SUBSET ClaimIds PROVE Sound(Idle, I)
BY DEF Sound, Idle, Request, PCs, HoldsClaim, GoesOn, None

(* The record of a request whose claim has just formed a match is sound.    *)
LEMMA FormedSound ==
    ASSUME NEW I \in SUBSET ClaimIds, NEW r \in Request PROVE Sound(Formed(r), I)
<1>1. CASE r.op = "join"
    BY <1>1, IdleSound DEF Formed
<1>2. CASE r.op # "join"
    BY <1>2 DEF Formed, Sound, Idle, Request, PCs, HoldsClaim, GoesOn, None
<1> QED BY <1>1, <1>2

(* So is the record of a request that is done with the claim it held.       *)
LEMMA ResolvedSound ==
    ASSUME NEW I \in SUBSET ClaimIds, NEW rec \in Request, rec.todo \subseteq I,
           rec.then # "none"
    PROVE  Sound(Resolved(rec), I)
<1>1. PICK r \in Request : r = [rec EXCEPT !.claim = None, !.requeue = {}]
    BY DEF Request, None
<1>2. r.todo = rec.todo /\ r.then = rec.then
    BY <1>1 DEF Request
<1>3. Resolved(rec) = IF r.todo # {} THEN [r EXCEPT !.pc = "get"]
                      ELSE IF r.then = "formed" THEN Formed(r)
                      ELSE [r EXCEPT !.pc = r.then]
    BY <1>1 DEF Resolved
<1>4. CASE r.todo # {}
    BY <1>2, <1>3, <1>4 DEF Sound, Request, PCs, HoldsClaim, GoesOn
<1>5. CASE r.todo = {} /\ r.then = "formed"
    BY <1>3, <1>5, FormedSound
<1>6. CASE r.todo = {} /\ r.then # "formed"
  <2>1. r.then \in {"claim", "renew"}
      BY <1>2, <1>6 DEF Request
  <2>2. Resolved(rec) = [r EXCEPT !.pc = r.then]
      BY <1>3, <1>6
  <2> QED BY <1>6, <2>1, <2>2 DEF Sound, Request, PCs, HoldsClaim, GoesOn
<1> QED BY <1>4, <1>5, <1>6

(* A sound record stays sound, and writing a sound one keeps WorkInv.       *)
LEMMA SetKeepsWork ==
    ASSUME WorkInv, Issued \subseteq Issued', work \in [Workers -> Request],
           NEW w \in Workers, NEW r, Sound(r, Issued'), Set(w, r)
    PROVE  WorkInv' /\ work' \in [Workers -> Request]
BY DEF WorkInv, Sound, Set

(* Requests stay sound when nothing but the other variables changes.        *)
LEMMA WorkStays ==
    ASSUME WorkInv, Issued \subseteq Issued', UNCHANGED work
    PROVE  WorkInv'
BY DEF WorkInv, Sound

-----------------------------------------------------------------------------
(* Every step is one script of the ticket queue, or none.                   *)
LEMMA StepIsStoreStep ==
    ASSUME FInv, Next PROVE [StoreNext]_storeVars
<1> SUFFICES StoreNext \/ UNCHANGED storeVars
    OBVIOUS
<1>1. \A w \in Workers : Sound(work[w], Issued) /\ work[w].who \subseteq Users
                         /\ work[w].requeue \subseteq Sides
    BY DEF FInv, WorkInv, Sound, Request
<1>2. ASSUME NEW w \in Workers, NEW u \in work[w].who, RenewTicket(u) \/ LeaveTicket(u)
      PROVE  StoreNext
    BY <1>1, <1>2 DEF StoreNext
<1>3. ASSUME NEW w \in Workers, Join(w) PROVE StoreNext \/ UNCHANGED storeVars
  <2>1. work[w].who \in Rosters
      BY <1>1, <1>3 DEF Join, At, Sound
  <2> QED BY <1>3, <2>1 DEF Join, StoreNext, JoinConflict, JoinExisting
<1>4. ASSUME NEW w \in Workers, Status(w) \/ Leave(w) \/ RenewAfterRelease(w)
      PROVE  StoreNext \/ UNCHANGED storeVars
    BY <1>2, <1>4 DEF Status, Leave, RenewAfterRelease
<1>5. ASSUME NEW w \in Workers, Get(w) PROVE StoreNext \/ UNCHANGED storeVars
  <2>1. work[w].todo \subseteq Issued
      BY <1>1 DEF Sound
  <2> QED BY <1>5, <2>1 DEF Get, StoreNext
<1>6. ASSUME NEW w \in Workers, Release(w) \/ Finalize(w) PROVE StoreNext
  <2>1. work[w].claim \in Issued /\ work[w].requeue \in SUBSET Sides
      BY <1>1, <1>6 DEF Release, Finalize, At, Sound, HoldsClaim
  <2> QED BY <1>6, <2>1 DEF Release, Finalize, StoreNext
<1>7. ASSUME NEW w \in Workers, Claim(w) PROVE StoreNext
    BY <1>7 DEF Claim, StoreNext
<1>8. ASSUME NEW w \in Workers,
             List(w) \/ Find(w) \/ Assess(w) \/ Recover(w) \/ Check(w) \/ Commit(w) \/ Fault(w)
      PROVE  UNCHANGED storeVars
    BY <1>8 DEF List, Find, Assess, Recover, Check, Commit, Fault
<1>9. ASSUME NEW w \in Workers, NEW R \in Rosters, StartJoin(w, R)
      PROVE  UNCHANGED storeVars
    BY <1>9 DEF StartJoin
<1>10. ASSUME NEW w \in Workers, NEW u \in Users, StartPoll(w, u) \/ StartLeave(w, u)
       PROVE  UNCHANGED storeVars
    BY <1>10 DEF StartPoll, StartLeave
<1>11. ASSUME NEW t \in TicketIds, LeaseRunsOut(t) PROVE StoreNext
    BY <1>11 DEF LeaseRunsOut, StoreNext
<1>12. ASSUME NEW c \in ClaimIds, ClaimFallsDue(c) PROVE StoreNext
    BY <1>12 DEF ClaimFallsDue, StoreNext
<1>13. ASSUME NEW c \in ClaimIds, EndMatch(c) PROVE UNCHANGED storeVars
    BY <1>13 DEF EndMatch
<1>14. ASSUME NEW u \in Users, Block(u) \/ PollUnchanged(u) PROVE UNCHANGED storeVars
    BY <1>14 DEF Block, PollUnchanged, vars, storeVars
<1>15. ASSUME ClaimSweep PROVE UNCHANGED storeVars
    BY <1>15 DEF ClaimSweep, vars, storeVars
<1> QED BY <1>3, <1>4, <1>5, <1>6, <1>7, <1>8, <1>9, <1>10, <1>11, <1>12, <1>13, <1>14, <1>15
        DEF Next, Proceed

-----------------------------------------------------------------------------
(* Every step leaves the requests sound.                                    *)
LEMMA StepKeepsWork ==
    ASSUME FInv, Next, Issued \subseteq Issued', Issued' \subseteq ClaimIds,
           ClaimPair => nextClaim \in Issued'
    PROVE  WorkInv' /\ work' \in [Workers -> Request]
<1> DEFINE Done == WorkInv' /\ work' \in [Workers -> Request]
<1>0. WorkInv /\ work \in [Workers -> Request]
    BY DEF FInv, FormationTypeOK
<1>1. ASSUME NEW w \in Workers, NEW r, Sound(r, Issued'), Set(w, r) PROVE Done
    BY <1>0, <1>1, SetKeepsWork
<1>2. ASSUME UNCHANGED work PROVE Done
    BY <1>0, <1>2, WorkStays
<1> HIDE DEF Done
<1>3. ASSUME NEW w \in Workers, Reply(w) PROVE Done
    BY <1>1, <1>3, IdleSound DEF Reply
<1>4. \A w \in Workers : Sound(work[w], Issued')
    BY <1>0 DEF WorkInv, Sound
<1>5. ASSUME NEW w \in Workers, NEW rec \in Request, rec.todo \subseteq Issued',
             rec.then # "none", Set(w, Resolved(rec))
      PROVE  Done
    BY <1>1, <1>5, ResolvedSound
<1>6. ASSUME NEW w \in Workers, NEW p \in PCs, Goto(w, p),
             p \in HoldsClaim => work[w].claim \in Issued',
             p \in GoesOn => work[w].then # "none", p # "join"
      PROVE  Done
  <2>1. Sound([work[w] EXCEPT !.pc = p], Issued')
      BY <1>4, <1>6 DEF Sound, Request
  <2> QED BY <1>1, <1>6, <2>1 DEF Goto
<1>7. ASSUME NEW w \in Workers, Join(w) PROVE Done
  <2>1. CASE \E t \in TicketIds : Claimed(t) /\
               Set(w, [work[w] EXCEPT !.pc = "recover", !.claim = tickets[t].claim])
    <3>1. PICK t \in TicketIds : Claimed(t) /\
               Set(w, [work[w] EXCEPT !.pc = "recover", !.claim = tickets[t].claim])
        BY <2>1
    <3>2. tickets[t].claim \in Issued' /\ tickets[t].claim \in ClaimIds
        BY <3>1 DEF FInv, IInv, TypeOK, ClaimRecoverable, IssuedInv, Issued
    <3>3. Sound([work[w] EXCEPT !.pc = "recover", !.claim = tickets[t].claim], Issued')
        BY <1>4, <3>2 DEF Sound, Request, PCs, HoldsClaim, GoesOn
    <3> QED BY <1>1, <3>1, <3>3
  <2>2. CASE Goto(w, "list")
      BY <1>6, <2>2 DEF PCs, HoldsClaim, GoesOn
  <2> QED BY <1>3, <1>7, <2>1, <2>2 DEF Join
<1>8. ASSUME NEW w \in Workers, Status(w) PROVE Done
  <2>1. CASE \E u \in work[w].who : Claimed(ptr[u]) /\
               Set(w, [work[w] EXCEPT !.pc = "recover", !.claim = tickets[ptr[u]].claim])
    <3>1. PICK u \in work[w].who : Claimed(ptr[u]) /\
               Set(w, [work[w] EXCEPT !.pc = "recover", !.claim = tickets[ptr[u]].claim])
        BY <2>1
    <3>2. PICK t \in TicketIds : t = ptr[u] /\ Claimed(t)
        BY <3>1 DEF Claimed
    <3>3. tickets[t].claim \in Issued' /\ tickets[t].claim \in ClaimIds
        BY <3>2 DEF FInv, IInv, TypeOK, ClaimRecoverable, IssuedInv, Issued
    <3>4. Sound([work[w] EXCEPT !.pc = "recover", !.claim = tickets[t].claim], Issued')
        BY <1>4, <3>3 DEF Sound, Request, PCs, HoldsClaim, GoesOn
    <3> QED BY <1>1, <3>1, <3>2, <3>4
  <2> QED BY <1>3, <1>8, <2>1 DEF Status
<1>9. ASSUME NEW w \in Workers, Leave(w) \/ RenewAfterRelease(w) PROVE Done
    BY <1>3, <1>9 DEF Leave, RenewAfterRelease
<1>10. ASSUME NEW w \in Workers, List(w) PROVE Done
  <2>1. /\ [work[w] EXCEPT !.todo = ExpiredClaims, !.then = "claim"] \in Request
        /\ [work[w] EXCEPT !.todo = ExpiredClaims, !.then = "claim"].todo \subseteq Issued'
        /\ [work[w] EXCEPT !.todo = ExpiredClaims, !.then = "claim"].then # "none"
      BY <1>4 DEF Sound, Request, ExpiredClaims, FInv, IndexInv
  <2> QED BY <1>5, <1>10, <2>1 DEF List
<1>11. ASSUME NEW w \in Workers, Get(w) PROVE Done
  <2>1. PICK c \in work[w].todo :
           IF c \in claims
           THEN Set(w, [[work[w] EXCEPT !.todo = @ \ {c}] EXCEPT !.pc = "find", !.claim = c])
           ELSE Set(w, Resolved([work[w] EXCEPT !.todo = @ \ {c}]))
      BY <1>11 DEF Get
  <2>2. /\ c \in Issued' /\ work[w].then # "none" /\ work[w].pc = "get"
      BY <1>4, <1>11 DEF Sound, Get, At, GoesOn
  <2>3. /\ [work[w] EXCEPT !.todo = @ \ {c}] \in Request
        /\ [work[w] EXCEPT !.todo = @ \ {c}].todo \subseteq Issued'
        /\ [work[w] EXCEPT !.todo = @ \ {c}].then # "none"
      BY <1>4, <2>2 DEF Sound, Request
  <2>4. Sound([[work[w] EXCEPT !.todo = @ \ {c}] EXCEPT !.pc = "find", !.claim = c], Issued')
      BY <2>2, <2>3 DEF Sound, Request, PCs, HoldsClaim, GoesOn
  <2> QED BY <1>1, <1>5, <2>1, <2>3, <2>4
<1>12. ASSUME NEW w \in Workers, Find(w) PROVE Done
  <2>1. work[w].claim \in Issued' /\ work[w].then # "none"
      BY <1>4, <1>12 DEF Sound, Find, At, HoldsClaim, GoesOn
  <2> QED BY <1>6, <1>12, <2>1 DEF Find, PCs
<1>13. ASSUME NEW w \in Workers, Assess(w) \/ Check(w) PROVE Done
  <2>1. work[w].claim \in Issued' /\ work[w].then # "none"
      BY <1>4, <1>13 DEF Sound, Assess, Check, At, HoldsClaim, GoesOn
  <2>2. RosterRequeue(work[w].claim) \in SUBSET Sides
      BY DEF RosterRequeue
  <2>3. Sound([work[w] EXCEPT !.pc = "release", !.requeue = RosterRequeue(work[w].claim)], Issued')
      BY <1>4, <2>1, <2>2 DEF Sound, Request, PCs, HoldsClaim, GoesOn
  <2>4. CASE Goto(w, "commit")
      BY <1>6, <2>1, <2>4 DEF PCs
  <2> QED BY <1>1, <1>13, <2>3, <2>4 DEF Assess, Check
<1>14. ASSUME NEW w \in Workers, Release(w) \/ Finalize(w) PROVE Done
  <2>1. work[w] \in Request /\ work[w].todo \subseteq Issued' /\ work[w].then # "none"
      BY <1>4, <1>14 DEF Sound, Release, Finalize, At, GoesOn
  <2> QED BY <1>3, <1>5, <1>14, <2>1 DEF Release, Finalize
<1>15. ASSUME NEW w \in Workers, Recover(w) PROVE Done
  <2>1. work[w].claim \in Issued'
      BY <1>4, <1>15 DEF Sound, Recover, At, HoldsClaim
  <2>2. /\ Sound([work[w] EXCEPT !.pc = "finalize", !.then = "renew"], Issued')
        /\ Sound([work[w] EXCEPT !.pc = "find", !.then = "renew"], Issued')
      BY <1>4, <2>1 DEF Sound, Request, PCs, HoldsClaim, GoesOn
  <2> QED BY <1>1, <1>3, <1>15, <2>2 DEF Recover
<1>16. ASSUME NEW w \in Workers, Claim(w) PROVE Done
  <2>1. CASE /\ ClaimPair
             /\ Set(w, [work[w] EXCEPT !.pc = "check", !.claim = nextClaim, !.then = "formed"])
    <3>1. nextClaim \in Issued' /\ nextClaim \in ClaimIds
        BY <2>1
    <3>2. Sound([work[w] EXCEPT !.pc = "check", !.claim = nextClaim, !.then = "formed"], Issued')
        BY <1>4, <3>1 DEF Sound, Request, PCs, HoldsClaim, GoesOn
    <3> QED BY <1>1, <2>1, <3>2
  <2>2. CASE Set(w, Formed(work[w]))
    <3>1. work[w] \in Request
        BY <1>4 DEF Sound
    <3> QED BY <1>1, <2>2, <3>1, FormedSound
  <2> QED BY <1>16, <2>1, <2>2 DEF Claim
<1>17. ASSUME NEW w \in Workers, Commit(w) PROVE Done
  <2>1. work[w].claim \in Issued' /\ work[w].then # "none"
      BY <1>4, <1>17 DEF Sound, Commit, At, HoldsClaim, GoesOn
  <2> QED BY <1>6, <1>17, <2>1 DEF Commit, PCs
<1>18. ASSUME NEW w \in Workers, Fault(w) PROVE Done
  <2>1. work[w] \in Request /\ work[w].todo \subseteq Issued'
      BY <1>4 DEF Sound
  <2>2. CASE /\ work[w].pc \in {"list", "get"}
             /\ Set(w, [work[w] EXCEPT !.pc = "claim", !.todo = {}, !.then = "claim"])
    <3>1. Sound([work[w] EXCEPT !.pc = "claim", !.todo = {}, !.then = "claim"], Issued')
        BY <1>4 DEF Sound, Request, PCs, HoldsClaim, GoesOn
    <3> QED BY <1>1, <2>2, <3>1
  <2>3. CASE Set(w, Formed(work[w]))
      BY <1>1, <2>1, <2>3, FormedSound
  <2> QED BY <1>3, <1>5, <1>18, <2>1, <2>2, <2>3 DEF Fault
<1>19. ASSUME NEW w \in Workers, NEW R \in Rosters, StartJoin(w, R) PROVE Done
  <2>1. R \in SUBSET Users
      BY RostersAssumption
  <2>2. Sound([Idle EXCEPT !.pc = "join", !.op = "join", !.who = R], Issued')
      BY <2>1 DEF Sound, Idle, Request, PCs, HoldsClaim, GoesOn, None
  <2> QED BY <1>1, <1>19, <2>2 DEF StartJoin
<1>20. ASSUME NEW w \in Workers, NEW u \in Users, StartPoll(w, u) \/ StartLeave(w, u) PROVE Done
  <2>1. /\ Sound([Idle EXCEPT !.pc = "list", !.op = "poll", !.who = {u}], Issued')
        /\ Sound([Idle EXCEPT !.pc = "status", !.op = "poll", !.who = {u}], Issued')
        /\ Sound([Idle EXCEPT !.pc = "leave", !.op = "leave", !.who = {u}], Issued')
      BY DEF Sound, Idle, Request, PCs, HoldsClaim, GoesOn, None
  <2> QED BY <1>1, <1>20, <2>1 DEF StartPoll, StartLeave
<1>21. ASSUME NEW c \in ClaimIds, ClaimFallsDue(c) PROVE Done
  <2>1. \A w \in Workers : work'[w] = Idle \/ work'[w] = work[w]
      BY <1>21 DEF ClaimFallsDue
  <2>2. \A w \in Workers : Sound(work'[w], Issued')
      BY <1>4, <2>1, IdleSound
  <2>3. \E f : work' = [w \in Workers |-> f[w]]
      BY <1>21 DEF ClaimFallsDue
  <2>4. work' \in [Workers -> Request]
      BY <2>2, <2>3 DEF Sound
  <2> QED BY <2>2, <2>4 DEF Done, WorkInv
<1>22. ASSUME NEW t \in TicketIds, LeaseRunsOut(t) PROVE Done
    BY <1>2, <1>22 DEF LeaseRunsOut
<1>23. ASSUME NEW c \in ClaimIds, EndMatch(c) PROVE Done
    BY <1>2, <1>23 DEF EndMatch
<1>24. ASSUME NEW u \in Users, Block(u) \/ PollUnchanged(u) PROVE Done
    BY <1>2, <1>24 DEF Block, PollUnchanged, vars
<1>25. ASSUME ClaimSweep PROVE Done
    BY <1>2, <1>25 DEF ClaimSweep, vars
<1>26. Done
    BY <1>7, <1>8, <1>9, <1>10, <1>11, <1>12, <1>13, <1>14, <1>15, <1>16, <1>17, <1>18,
       <1>19, <1>20, <1>21, <1>22, <1>23, <1>24, <1>25 DEF Next, Proceed
<1> QED BY <1>26 DEF Done

-----------------------------------------------------------------------------
(* Only a commit makes a match active, and it validated every member of the *)
(* claim against the matches there are; the records of the other active     *)
(* matches cannot change under it.                                          *)
LEMMA StepKeepsMatches ==
    ASSUME FInv, Next, RecordsFixed
    PROVE  /\ match' \in [ClaimIds -> {"none", "active", "over"}]
           /\ blocked' \subseteq Users
           /\ faults' \in 0..MaxFaults
           /\ MatchInv'
           /\ OneActiveAssignment'
<1>0. /\ match \in [ClaimIds -> {"none", "active", "over"}] /\ MatchInv /\ OneActiveAssignment
      /\ blocked \subseteq Users /\ faults \in 0..MaxFaults
    BY DEF FInv, FormationTypeOK
<1>1. \A c \in Issued : ClaimUsers(c)' = ClaimUsers(c)
    BY DEF RecordsFixed, ClaimUsers
<1>2. blocked' \subseteq Users /\ faults' \in 0..MaxFaults
  <2>1. CASE UNCHANGED <<blocked, faults>>
      BY <1>0, <2>1
  <2>2. ASSUME NEW u \in Users, Block(u) PROVE blocked' \subseteq Users /\ UNCHANGED faults
      BY <1>0, <2>2 DEF Block
  <2>3. ASSUME NEW w \in Workers, Fault(w)
        PROVE  faults' \in 0..MaxFaults /\ UNCHANGED blocked
      BY <1>0, <2>3, FaultsAssumption DEF Fault
  <2> QED BY <1>0, <2>1, <2>2, <2>3
          DEF Next, Proceed, StartJoin, StartPoll, StartLeave, Join, Status, Leave, List, Get,
              Find, Assess, Release, Finalize, Recover, RenewAfterRelease, Claim, Check, Commit,
              EndMatch, LeaseRunsOut, ClaimFallsDue, PollUnchanged, ClaimSweep, vars
<1>3. \/ UNCHANGED match
      \/ \E c \in ClaimIds : match[c] = "active" /\ match' = [match EXCEPT ![c] = "over"]
      \/ \E c \in Issued : LockAndValidateUsers(c) /\ match' = [match EXCEPT ![c] = "active"]
  <2>1. ASSUME NEW w \in Workers, Commit(w)
        PROVE  \/ UNCHANGED match
               \/ \E c \in Issued : /\ LockAndValidateUsers(c)
                                    /\ match' = [match EXCEPT ![c] = "active"]
    <3>1. work[w].claim \in Issued
        BY <2>1 DEF FInv, WorkInv, Sound, Commit, At, HoldsClaim
    <3> QED BY <2>1, <3>1 DEF Commit
  <2>2. ASSUME NEW c \in ClaimIds, EndMatch(c)
        PROVE  match[c] = "active" /\ match' = [match EXCEPT ![c] = "over"]
      BY <2>2 DEF EndMatch
  <2> QED BY <2>1, <2>2
          DEF Next, Proceed, StartJoin, StartPoll, StartLeave, Join, Status, Leave, List, Get,
              Find, Assess, Release, Finalize, Recover, RenewAfterRelease, Claim, Check,
              Fault, Block, LeaseRunsOut, ClaimFallsDue, PollUnchanged, ClaimSweep, vars
<1>4. Issued \subseteq ClaimIds /\ Issued \subseteq Issued'
    BY DEF Issued, RecordsFixed
<1>5. ASSUME UNCHANGED match
      PROVE  /\ match' \in [ClaimIds -> {"none", "active", "over"}]
             /\ MatchInv' /\ OneActiveAssignment'
  <2>1. \A c \in ClaimIds : match[c] # "none" => c \in Issued
      BY <1>0 DEF MatchInv
  <2>2. OneActiveAssignment'
      BY <1>0, <1>1, <1>5, <2>1 DEF OneActiveAssignment
  <2> QED BY <1>0, <1>4, <1>5, <2>1, <2>2 DEF MatchInv
<1>6. ASSUME NEW c \in ClaimIds, match[c] = "active", match' = [match EXCEPT ![c] = "over"]
      PROVE  /\ match' \in [ClaimIds -> {"none", "active", "over"}]
             /\ MatchInv' /\ OneActiveAssignment'
  <2>1. \A d \in ClaimIds : /\ match'[d] = "active" => match[d] = "active"
                            /\ match'[d] # "none" => match[d] # "none"
      BY <1>0, <1>6
  <2>2. match' \in [ClaimIds -> {"none", "active", "over"}]
      BY <1>0, <1>6
  <2> QED BY <1>0, <1>1, <1>4, <2>1, <2>2 DEF MatchInv, OneActiveAssignment
<1>7. ASSUME NEW c \in Issued, LockAndValidateUsers(c), match' = [match EXCEPT ![c] = "active"]
      PROVE  /\ match' \in [ClaimIds -> {"none", "active", "over"}]
             /\ MatchInv' /\ OneActiveAssignment'
  <2>1. match' \in [ClaimIds -> {"none", "active", "over"}]
      BY <1>0, <1>7
  <2>2. \A d \in ClaimIds : d # c => match'[d] = match[d]
      BY <1>0, <1>7
  <2>3. MatchInv'
      BY <1>0, <1>4, <2>2 DEF MatchInv
  <2>4. \A d \in ClaimIds : match[d] = "active" => ClaimUsers(c) \cap ClaimUsers(d) = {}
      BY <1>7 DEF LockAndValidateUsers, CandidateRequeue, Assigned
  <2>5. \A d \in ClaimIds : match'[d] = "active" => d \in Issued
      BY <1>0, <1>7, <2>2 DEF MatchInv
  <2>6. OneActiveAssignment'
      BY <1>0, <1>1, <2>2, <2>4, <2>5 DEF OneActiveAssignment
  <2> QED BY <2>1, <2>3, <2>6
<1> QED BY <1>2, <1>3, <1>0, <1>5, <1>6, <1>7

-----------------------------------------------------------------------------
(* The initial state, and one step.                                         *)
LEMMA InitFInv == Init => FInv
<1> SUFFICES ASSUME Init PROVE FInv
    OBVIOUS
<1>1. IInv
    BY InitIInv DEF Init
<1>2. WorkInv /\ work \in [Workers -> Request]
  <2>1. {} \in SUBSET ClaimIds /\ Issued \in SUBSET ClaimIds
      BY DEF Issued
  <2>2. \A w \in Workers : work[w] = Idle
      BY DEF Init
  <2>3. \A w \in Workers : Sound(work[w], Issued)
      BY <2>1, <2>2, IdleSound
  <2>4. Idle \in Request
      BY <2>1, IdleSound DEF Sound
  <2> QED BY <2>3, <2>4 DEF WorkInv, Init
<1>3. IndexInv
    BY DEF IndexInv, Init, StoreInit
<1>4. MatchInv /\ OneActiveAssignment
    BY DEF MatchInv, OneActiveAssignment, Init
<1>5. FormationTypeOK
    BY <1>1, <1>2, FaultsAssumption DEF FormationTypeOK, Init, IInv
<1> QED BY <1>1, <1>2, <1>3, <1>4, <1>5 DEF FInv

(* Every step keeps the invariant and is a step of the ticket store.        *)
LEMMA StepFInv == ASSUME FInv, [Next]_vars PROVE FInv' /\ [StoreNext]_storeVars
<1>1. CASE Next
  <2>1. [StoreNext]_storeVars
      BY <1>1, StepIsStoreStep
  <2>2. IInv'
      BY <2>1, StepKeepsIInv, StutterKeepsIInv DEF FInv
  <2>3. RecordsFixed /\ IndexInv'
      BY <2>1, StoreStepFacts DEF FInv
  <2>4. ClaimPair => nextClaim \in Issued'
    <3> SUFFICES ASSUME ClaimPair PROVE nextClaim \in Issued'
        OBVIOUS
    <3>1. nextClaim <= MaxClaims /\ nextClaim \in 1..(MaxClaims + 1) /\ nextClaim' = nextClaim + 1
        BY DEF ClaimPair, FInv, IInv, TypeOK
    <3> QED BY <3>1, BoundsAssumption DEF Issued, ClaimIds
  <2>5. WorkInv' /\ work' \in [Workers -> Request]
    <3>1. Issued' \subseteq ClaimIds
        BY DEF Issued
    <3> QED BY <1>1, <2>3, <2>4, <3>1, StepKeepsWork DEF RecordsFixed
  <2>6. /\ match' \in [ClaimIds -> {"none", "active", "over"}]
        /\ blocked' \subseteq Users
        /\ faults' \in 0..MaxFaults
        /\ MatchInv'
        /\ OneActiveAssignment'
      BY <1>1, <2>3, StepKeepsMatches
  <2>7. FormationTypeOK'
      BY <2>2, <2>5, <2>6 DEF FormationTypeOK, IInv
  <2> QED BY <2>1, <2>2, <2>3, <2>5, <2>6, <2>7 DEF FInv
<1>2. CASE UNCHANGED vars
  <2>1. UNCHANGED storeVars /\ UNCHANGED <<match, blocked, work, faults>>
      BY <1>2 DEF vars, storeVars
  <2>2. IInv'
      BY <2>1, StutterKeepsIInv DEF FInv
  <2>3. Issued' = Issued
      BY <2>1 DEF storeVars, Issued
  <2>4. WorkInv'
      BY <2>1, <2>3, WorkStays DEF FInv
  <2>5. IndexInv' /\ MatchInv'
      BY <2>1, <2>3 DEF FInv, IndexInv, MatchInv, storeVars
  <2>6. OneActiveAssignment'
      BY <2>1 DEF FInv, OneActiveAssignment, ClaimUsers, storeVars
  <2>7. FormationTypeOK'
      BY <2>1, <2>2 DEF FInv, FormationTypeOK, IInv
  <2> QED BY <2>1, <2>2, <2>4, <2>5, <2>6, <2>7 DEF FInv
<1> QED BY <1>1, <1>2

(* FInv is an inductive invariant of team formation.                        *)
THEOREM FormationInvariant == Spec => []FInv
<1>1. Init => FInv
    BY InitFInv
<1>2. FInv /\ [Next]_vars => FInv'
    BY StepFInv
<1> QED BY <1>1, <1>2, PTL DEF Spec

(* Team formation implements the ticket queue's specification: requests of  *)
(* service.go reach the keys through the scripts alone, with issued claims. *)
THEOREM FormationUsesTicketStore == Spec => UsesTicketStore
<1>1. Init => StoreInit
    BY DEF Init
<1>2. FInv /\ [Next]_vars => [StoreNext]_storeVars
    BY StepFInv
<1> QED BY <1>1, <1>2, FormationInvariant, PTL DEF Spec, UsesTicketStore, StoreSpec

(* No user is ever in two active matches.                                   *)
THEOREM NoDoubleAssignment == Spec => []OneActiveAssignment
<1>1. FInv => OneActiveAssignment
    BY DEF FInv
<1> QED BY <1>1, FormationInvariant, PTL

(* The types of the requests in progress and of the durable matches.        *)
THEOREM FormationTypeCorrect == Spec => []FormationTypeOK
<1>1. FInv => FormationTypeOK
    BY DEF FInv
<1> QED BY <1>1, FormationInvariant, PTL

-----------------------------------------------------------------------------
(* Nobody's place is lost by what others do.  A ticket goes for reasons its *)
(* members know, because every member's pointer leads to the ticket unless  *)
(* the member has been in a match, and because a request removes only what  *)
(* it has a reason to: a match made, or a side found ineligible.            *)

(* A user of a claim whose match was made, be it over by now.               *)
EverMatched(u) == \E c \in ClaimIds : match[c] # "none" /\ u \in ClaimUsers(c)

PointedAt ==
    \A t \in TicketIds : Exists(t) =>
        /\ tickets[t].roster # {}
        /\ \A u \in tickets[t].roster : ptr[u] = t \/ EverMatched(u)

(* Why request w finalizes its claim, or does not put back a side.          *)
Reasoned(w) ==
    /\ At(w, "finalize") => match[work[w].claim] # "none"
    /\ At(w, "release") =>
         \A s \in Sides \ work[w].requeue : \E u \in ClaimRoster(work[w].claim, s) :
             u \in Blockable \/ EverMatched(u)

(* Where a request is that has made a claim: it has listed no other.        *)
MakerPCs == {"check", "commit", "assess", "release", "finalize"}

Maker(w) ==
    /\ work[w].then = "formed" => work[w].pc \in MakerPCs
    /\ work[w].then = "formed" \/ At(w, "claim") => work[w].todo = {}
    /\ work[w].pc \in {"check", "commit"} => work[w].then = "formed"

(* If claims outlive their requests: who handles a claim of another does so *)
(* when it is no longer waiting, and the claim to be committed still is.    *)
OnTime(w) ==
    /\ \A c \in work[w].todo : index[c] # "waiting"
    /\ work[w].pc \in {"find", "assess", "release"} /\ work[w].then # "formed" =>
         index[work[w].claim] # "waiting"
    /\ work[w].pc \in {"check", "commit"} =>
         /\ work[w].claim \in claims
         /\ index[work[w].claim] = "waiting"
         /\ match[work[w].claim] = "none"

(* Every claim has one maker.                                               *)
OneMaker ==
    \A v, w \in Workers :
        v # w /\ work[v].then = "formed" /\ work[w].then = "formed" =>
            work[v].claim # work[w].claim

Good(w) == Reasoned(w) /\ Maker(w) /\ (ClaimOutlivesRequest => OnTime(w))

LateInv ==
    /\ FInv
    /\ PointedAt
    /\ blocked \subseteq Blockable
    /\ \A w \in Workers : Good(w)
    /\ OneMaker

(* What a step says of ticket t: it is there only if it was, and its        *)
(* members' pointers stay with it, but for those who have been matched.     *)
Stays(t) ==
    /\ Exists(t)' => Exists(t)
    /\ Exists(t) /\ Exists(t)' =>
         \A u \in tickets[t].roster : ptr[u] = t => ptr'[u] = t \/ EverMatched(u)

(* The reasons that NoInnocentDrop admits.                                  *)
Excused(t) ==
    \/ tickets[t].state = "searching" /\ ~tickets[t].live
    \/ Leaving(tickets[t].roster)
    \/ tickets[t].roster \cap Blockable # {}
    \/ \E c \in ClaimIds : /\ match[c] # "none"
                           /\ tickets[t].roster \cap ClaimUsers(c) # {}

Drops(t) == Exists(t) /\ ~Exists(t)'

-----------------------------------------------------------------------------
(* Clearing searching tickets with their pointers takes those tickets and   *)
(* nobody else's pointer.                                                   *)
LEMMA ClearingStays ==
    ASSUME IInv, NEW T \in SUBSET TicketIds, \A t \in T : Searching(t),
           \A t \in TicketIds \ T : Exists(t)' <=> Exists(t),
           \A t \in T : ~Exists(t)',
           ptr' = WithoutPointers(T)
    PROVE  \A t \in TicketIds : Stays(t) /\ (Drops(t) => t \in T)
<1> SUFFICES ASSUME NEW t \in TicketIds PROVE Stays(t) /\ (Drops(t) => t \in T)
    OBVIOUS
<1>1. CASE t \in T
    BY <1>1 DEF Stays, Drops
<1>2. CASE t \notin T
  <2>1. Exists(t)' <=> Exists(t)
      BY <1>2
  <2>2. ASSUME Exists(t), NEW u \in tickets[t].roster, ptr[u] = t PROVE ptr'[u] = t
    <3>1. u \in Users
        BY DEF IInv, TypeOK, Ticket
    <3>2. ~ \E d \in T \cap TicketIds : ptr[u] = d /\ u \in tickets[d].roster
        BY <1>2, <2>2
    <3> QED BY <2>2, <3>1, <3>2 DEF WithoutPointers
  <2> QED BY <1>2, <2>1, <2>2 DEF Stays, Drops
<1> QED BY <1>1, <1>2

(* The same for the tickets of T taken out whole.                           *)
LEMMA ClearStays ==
    ASSUME IInv, NEW T \in SUBSET TicketIds, \A t \in T : Searching(t),
           tickets' = WithoutTickets(T), ptr' = WithoutPointers(T)
    PROVE  \A t \in TicketIds : Stays(t) /\ (Drops(t) => t \in T)
<1>1. \A t \in TicketIds : tickets'[t] = IF t \in T THEN NoTicket ELSE tickets[t]
    BY DEF WithoutTickets
<1>2. /\ \A t \in TicketIds \ T : Exists(t)' <=> Exists(t)
      /\ \A t \in T : ~Exists(t)'
    BY <1>1 DEF Exists, Searching, Claimed, NoTicket
<1> QED BY <1>2, ClearingStays

(* A step that leaves the hashes' states and the pointers alone.            *)
LEMMA NothingDrops ==
    ASSUME \A t \in TicketIds : tickets'[t].state = tickets[t].state, UNCHANGED ptr
    PROVE  \A t \in TicketIds : Stays(t) /\ ~Drops(t)
BY DEF Stays, Drops, Exists, Searching, Claimed

(* The scan of a claim attempt clears only who lost the lease, or a pointer *)
(* to a match.                                                              *)
LEMMA StaleExcused ==
    ASSUME IInv, PointedAt, NEW t \in Stale
    PROVE  Excused(t)
<1>1. t \in TicketIds /\ Searching(t) /\ t \in Scanned /\ t \notin Valid
    BY DEF Stale, Searching
<1>2. CASE ~tickets[t].live
    BY <1>1, <1>2 DEF Excused, Searching
<1>3. CASE ~PointsTo(tickets[t].roster, t)
  <2>1. PICK u \in tickets[t].roster : ptr[u] # t
      BY <1>3 DEF PointsTo
  <2>2. EverMatched(u)
      BY <1>1, <2>1 DEF PointedAt, Exists
  <2> QED BY <2>1, <2>2 DEF EverMatched, Excused
<1> QED BY <1>1, <1>2, <1>3 DEF Valid

LEMMA ClaimStays ==
    ASSUME IInv, PointedAt, ClaimPair \/ ClaimNothing
    PROVE  \A t \in TicketIds : Stays(t) /\ (Drops(t) => Excused(t))
<1>1. Stale \in SUBSET TicketIds /\ \A t \in Stale : Searching(t)
    BY DEF Stale, Searching
<1>2. CASE ClaimNothing
    BY <1>1, <1>2, ClearStays, StaleExcused DEF ClaimNothing
<1>3. CASE ClaimPair
  <2>1. PICK a \in Valid, b \in Valid : ClaimTickets(a, b, nextClaim)
      BY <1>3 DEF ClaimPair
  <2>2. \A t \in {a, b} : Searching(t) /\ t \in TicketIds /\ t \notin Stale
      BY DEF Valid, Stale, Searching
  <2>3. \A t \in TicketIds : tickets'[t] = IF t \in {a, b} THEN ClaimedBy(t, nextClaim)
                                           ELSE IF t \in Stale THEN NoTicket ELSE tickets[t]
      BY <2>1 DEF ClaimTickets, WithoutTickets
  <2>4. \A t \in {a, b} : tickets'[t].state = "claimed"
    <3>1. \A t \in {a, b} : tickets[t] \in Ticket /\ tickets'[t] = ClaimedBy(t, nextClaim)
        BY <2>2, <2>3 DEF IInv, TypeOK
    <3> QED BY <3>1 DEF ClaimedBy, Ticket
  <2>5. /\ \A t \in TicketIds \ Stale : Exists(t)' <=> Exists(t)
        /\ \A t \in Stale : ~Exists(t)'
      BY <1>1, <2>2, <2>3, <2>4 DEF Exists, Searching, Claimed, NoTicket
  <2>6. ptr' = WithoutPointers(Stale)
      BY <2>1 DEF ClaimTickets
  <2> QED BY <1>1, <2>5, <2>6, ClearingStays, StaleExcused
<1> QED BY <1>2, <1>3

(* Finalizing the claim of a match: its tickets and pointers are of players *)
(* who have been matched.                                                   *)
LEMMA FinalizeStays ==
    ASSUME IInv, PointedAt, NEW c \in Issued, match[c] # "none", FinalizeTeamClaim(c)
    PROVE  \A t \in TicketIds : Stays(t) /\ (Drops(t) => Excused(t))
<1> SUFFICES ASSUME NEW t \in TicketIds PROVE Stays(t) /\ (Drops(t) => Excused(t))
    OBVIOUS
<1>1. tickets'[t] = IF \E s \in Sides : t = ClaimTicket(c, s) /\ HeldBy(t, c)
                    THEN NoTicket ELSE tickets[t]
    BY DEF FinalizeTeamClaim
<1>2. Exists(t)' => Exists(t) /\ tickets'[t] = tickets[t]
    BY <1>1 DEF Exists, Searching, Claimed, NoTicket
<1>3. c \in ClaimIds /\ \A s \in Sides : ClaimRoster(c, s) \subseteq ClaimUsers(c)
    BY DEF Issued, ClaimRoster, ClaimUsers, Sides
<1>4. ASSUME Exists(t), NEW u \in tickets[t].roster, ptr[u] = t, ptr'[u] # t
      PROVE  EverMatched(u)
  <2>1. u \in Users
      BY DEF IInv, TypeOK, Ticket
  <2>2. PICK s \in Sides : u \in ClaimRoster(c, s)
      BY <1>4, <2>1 DEF FinalizeTeamClaim
  <2> QED BY <1>3, <2>2 DEF EverMatched
<1>5. ASSUME Drops(t) PROVE Excused(t)
  <2>1. PICK s \in Sides : t = ClaimTicket(c, s) /\ HeldBy(t, c)
      BY <1>1, <1>5 DEF Drops, Exists, Searching, Claimed
  <2>2. Exists(t) /\ tickets[t].roster = ClaimRoster(c, s)
      BY <1>5, <2>1, SideFacts DEF Drops
  <2>3. tickets[t].roster # {}
      BY <2>2 DEF PointedAt
  <2>4. tickets[t].roster \cap ClaimUsers(c) # {}
      BY <1>3, <2>2, <2>3
  <2> QED BY <1>3, <2>4 DEF Excused
<1> QED BY <1>2, <1>4, <1>5 DEF Stays

(* Releasing a claim: a pointer that is set led to that ticket already, or  *)
(* its user has been matched; the sides that are taken out have a reason.   *)
LEMMA ReleaseStays ==
    ASSUME IInv, PointedAt, NEW c \in Issued, NEW requeue \in SUBSET Sides, ReleaseTeamClaim(c, requeue),
           \A s \in Sides \ requeue : \E u \in ClaimRoster(c, s) : u \in Blockable \/ EverMatched(u)
    PROVE  \A t \in TicketIds : Stays(t) /\ (Drops(t) => Excused(t))
<1>1. CASE c \notin claims
    BY <1>1, NothingDrops DEF ReleaseTeamClaim
<1>2. CASE c \in claims
  <2>1. HeldSides(c) = Sides
      BY <1>2 DEF IInv, ClaimRecoverable
  <2>2. \A s \in Sides : /\ ClaimTicket(c, s) \in TicketIds
                         /\ Exists(ClaimTicket(c, s)) /\ Claimed(ClaimTicket(c, s))
                         /\ tickets[ClaimTicket(c, s)].roster = ClaimRoster(c, s)
      BY <2>1, SideFacts DEF HeldSides, HeldBy, Exists
  <2> DEFINE held == {ClaimTicket(c, s) : s \in Sides}
  <2>3. /\ \A t \in TicketIds \ held : tickets'[t] = tickets[t]
        /\ \A s \in Sides : tickets'[ClaimTicket(c, s)] = ReleasedTicket(c, s, requeue)
    <3>1. ASSUME NEW s \in Sides PROVE tickets'[ClaimTicket(c, s)] = ReleasedTicket(c, s, requeue)
      <4>1. \A r \in Sides : ClaimTicket(c, s) = ClaimTicket(c, r) <=> r = s
          BY SideFacts DEF Sides
      <4>2. (CHOOSE r \in Sides : ClaimTicket(c, s) = ClaimTicket(c, r)) = s
          BY <4>1
      <4>3. \E r \in Sides : ClaimTicket(c, s) = ClaimTicket(c, r)
          OBVIOUS
      <4> QED BY <1>2, <2>1, <2>2, <4>2, <4>3 DEF ReleaseTeamClaim
    <3> QED BY <1>2, <2>1, <3>1 DEF ReleaseTeamClaim
  <2>4. \A s \in requeue : Exists(ClaimTicket(c, s))'
    <3> SUFFICES ASSUME NEW s \in requeue PROVE Exists(ClaimTicket(c, s))'
        OBVIOUS
    <3>1. tickets[ClaimTicket(c, s)] \in Ticket /\ ClaimTicket(c, s) \in TicketIds
        BY <2>2 DEF IInv, TypeOK
    <3>2. ReleasedTicket(c, s, requeue).state = "searching"
        BY <3>1 DEF ReleasedTicket, Ticket
    <3>3. UNCHANGED claimRec
        BY DEF ReleaseTeamClaim
    <3> QED BY <2>3, <3>1, <3>2, <3>3 DEF Exists, Searching, ClaimTicket
  <2>5. \A t \in TicketIds : Exists(t)' => Exists(t)
      BY <2>2, <2>3 DEF Exists, Searching, Claimed
  <2>6. LostSides(c) = {}
      BY <2>2 DEF LostSides
  <2>7. ptr' = [u \in Users |->
                  IF \E s \in requeue : u \in ClaimRoster(c, s)
                  THEN ClaimTicket(c, CHOOSE s \in requeue : u \in ClaimRoster(c, s))
                  ELSE IF \E s \in Sides \ requeue : /\ u \in ClaimRoster(c, s)
                                                     /\ ptr[u] = ClaimTicket(c, s)
                       THEN None ELSE ptr[u]]
    <3>1. Sides \cap requeue = requeue /\ (Sides \ requeue) \cup {} = Sides \ requeue
        OBVIOUS
    <3> QED BY <1>2, <2>1, <2>6, <3>1 DEF ReleaseTeamClaim
  <2>8. ASSUME NEW t \in TicketIds, Exists(t), Exists(t)', NEW u \in tickets[t].roster, ptr[u] = t,
               ~EverMatched(u)
        PROVE  ptr'[u] = t
    <3>1. u \in Users
        BY DEF IInv, TypeOK, Ticket
    <3>2. \A s \in Sides : u \in ClaimRoster(c, s) => ClaimTicket(c, s) = t
        BY <2>2, <2>8 DEF PointedAt
    <3>3. CASE \E s \in requeue : u \in ClaimRoster(c, s)
      <4>1. PICK s \in requeue : s = (CHOOSE r \in requeue : u \in ClaimRoster(c, r)) /\ u \in ClaimRoster(c, s)
          BY <3>3
      <4>2. ptr'[u] = ClaimTicket(c, s)
          BY <2>7, <3>1, <3>3, <4>1
      <4> QED BY <3>2, <4>1, <4>2
    <3>4. CASE ~ \E s \in requeue : u \in ClaimRoster(c, s)
      <4>1. ASSUME NEW s \in Sides \ requeue, u \in ClaimRoster(c, s) PROVE FALSE
        <5>1. ClaimTicket(c, s) = t
            BY <3>2, <4>1
        <5>2. tickets'[t] = NoTicket
            BY <2>3, <4>1, <5>1 DEF ReleasedTicket
        <5> QED BY <2>8, <5>2 DEF Exists, Searching, Claimed, NoTicket
      <4>2. ~ \E s \in Sides \ requeue : u \in ClaimRoster(c, s) /\ ptr[u] = ClaimTicket(c, s)
          BY <4>1
      <4>3. ptr'[u] = ptr[u]
          BY <2>7, <3>1, <3>4, <4>2
      <4> QED BY <2>8, <4>3
    <3> QED BY <3>3, <3>4
  <2>9. ASSUME NEW t \in TicketIds, Drops(t) PROVE Excused(t)
    <3>1. PICK s \in Sides : t = ClaimTicket(c, s)
        BY <2>3, <2>9 DEF Drops, Exists, Searching, Claimed
    <3>2. s \notin requeue
        <4>1. UNCHANGED claimRec
            BY DEF ReleaseTeamClaim
        <4>2. ClaimTicket(c, s)' = ClaimTicket(c, s)
            BY <4>1 DEF ClaimTicket
        <4> QED BY <2>4, <2>9, <3>1, <4>2 DEF Drops, Exists, Searching, Claimed
    <3>3. PICK u \in tickets[t].roster : u \in Blockable \/ EverMatched(u)
        BY <2>2, <3>1, <3>2
    <3> QED BY <3>3 DEF Excused, EverMatched
  <2> QED BY <2>5, <2>8, <2>9 DEF Stays
<1> QED BY <1>1, <1>2

(* The clean-ups of a renewal and of a leave.                               *)
LEMMA RenewStays ==
    ASSUME IInv, NEW u \in Users, RenewTicket(u)
    PROVE  \A t \in TicketIds : Stays(t) /\ (Drops(t) => Excused(t))
<1>1. CASE Searching(ptr[u]) /\ tickets[ptr[u]].live
  <2>1. PICK d \in TicketIds : d = ptr[u] /\ Searching(d) /\ ~Claimed(d)
      BY <1>1 DEF Searching, Claimed
  <2>2. tickets' = [tickets EXCEPT ![d].live = TRUE] /\ UNCHANGED ptr
      BY <1>1, <2>1, Zenon DEF RenewTicket
  <2>3. \A t \in TicketIds : tickets'[t].state = tickets[t].state
      BY <2>2 DEF IInv, TypeOK, Ticket
  <2> QED BY <2>2, <2>3, NothingDrops
<1>2. CASE Searching(ptr[u]) /\ ~tickets[ptr[u]].live
  <2>1. PICK d \in TicketIds : d = ptr[u] /\ Searching(d) /\ ~tickets[d].live
      BY <1>2 DEF Searching
  <2>2. tickets' = WithoutTickets({d}) /\ ptr' = WithoutPointers({d})
      BY <1>2, <2>1 DEF RenewTicket, Searching, Claimed
  <2>3. \A t \in TicketIds : Stays(t) /\ (Drops(t) => t \in {d})
      BY <2>1, <2>2, ClearStays
  <2>4. Excused(d)
      BY <2>1 DEF Excused, Searching
  <2> QED BY <2>3, <2>4
<1>3. CASE Claimed(ptr[u])
    BY <1>3, NothingDrops DEF RenewTicket, Searching, Claimed
<1>4. CASE ~Searching(ptr[u]) /\ ~Claimed(ptr[u])
    BY <1>4, NothingToClear, NothingDrops DEF RenewTicket, storeVars
<1> QED BY <1>1, <1>2, <1>3, <1>4

LEMMA LeaveStays ==
    ASSUME IInv, NEW u \in Users, LeaveTicket(u)
    PROVE  \A t \in TicketIds : Stays(t) /\ (Drops(t) => u \in tickets[t].roster)
<1>1. CASE Searching(ptr[u])
  <2>1. PICK d \in TicketIds : d = ptr[u] /\ Searching(d)
      BY <1>1 DEF Searching
  <2>2. tickets' = WithoutTickets({d}) /\ ptr' = WithoutPointers({d})
      BY <1>1, <2>1 DEF LeaveTicket, Searching, Claimed
  <2>3. \A t \in TicketIds : Stays(t) /\ (Drops(t) => t \in {d})
      BY <2>1, <2>2, ClearStays
  <2>4. d # None
      BY BoundsAssumption DEF TicketIds, None
  <2>5. u \in tickets[d].roster
      BY <2>1, <2>4 DEF IInv, PointersNeverDangle
  <2> QED BY <2>3, <2>5
<1>2. CASE Claimed(ptr[u])
    BY <1>2, NothingDrops DEF LeaveTicket, Searching, Claimed
<1>3. CASE ~Searching(ptr[u]) /\ ~Claimed(ptr[u])
    BY <1>3, NothingToClear, NothingDrops DEF LeaveTicket, storeVars
<1> QED BY <1>1, <1>2, <1>3

(* A join gives every member a pointer to the new ticket.  The one it takes *)
(* the place of had no lease.                                               *)
LEMMA JoinStays ==
    ASSUME IInv, PointedAt, NEW R \in Rosters, JoinCreates(R)
    PROVE  \A t \in TicketIds :
              /\ t # nextTicket => Stays(t) /\ (Drops(t) => Excused(t))
              /\ t = nextTicket => /\ ~Drops(t)
                                   /\ tickets'[t].roster = R
                                   /\ \A u \in R : ptr'[u] = t
<1>1. PICK old \in TicketIds \cup {None} :
          /\ PointsTo(R, old)
          /\ ~Holds(old)
          /\ tickets' = [WithoutTickets({old}) EXCEPT ![nextTicket] =
                            [roster |-> R, enq |-> nextTicket, state |-> "searching",
                             claim |-> None, live |-> TRUE]]
          /\ ptr' = [u \in Users |-> IF u \in R THEN nextTicket ELSE WithoutPointers({old})[u]]
    BY DEF JoinCreates
<1>2. nextTicket \in TicketIds /\ R \in SUBSET Users /\ ~Exists(nextTicket)
    BY RostersAssumption DEF JoinCreates, IInv, TypeOK, TicketIds, IssuedInv, Exists, Searching, Claimed
<1>3. \A t \in TicketIds : t # nextTicket => tickets'[t] = IF t = old THEN NoTicket ELSE tickets[t]
    BY <1>1, <1>2 DEF WithoutTickets
<1>4. tickets'[nextTicket].roster = R /\ \A u \in R : ptr'[u] = nextTicket
    BY <1>1, <1>2 DEF WithoutTickets
<1>5. ASSUME NEW t \in TicketIds, t # nextTicket PROVE Stays(t) /\ (Drops(t) => Excused(t))
  <2>1. Exists(t)' => Exists(t) /\ t # old
      BY <1>3, <1>5 DEF Exists, Searching, Claimed, NoTicket
  <2>2. ASSUME Exists(t), Exists(t)', NEW u \in tickets[t].roster, ptr[u] = t, ptr'[u] # t PROVE EverMatched(u)
    <3>1. u \in Users
        BY DEF IInv, TypeOK, Ticket
    <3>2. u \notin R
        BY <1>1, <2>1, <2>2 DEF PointsTo
    <3>3. ptr'[u] = WithoutPointers({old})[u]
        BY <1>1, <3>1, <3>2
    <3>4. ptr'[u] = ptr[u]
        BY <2>1, <2>2, <3>1, <3>3 DEF WithoutPointers
    <3> QED BY <2>2, <3>4
  <2>3. ASSUME Drops(t) PROVE Excused(t)
    <3>1. t = old
        BY <1>3, <1>5, <2>3 DEF Drops, Exists, Searching, Claimed
    <3>2. tickets[t].state = "searching" /\ ~tickets[t].live
        BY <1>1, <2>3, <3>1 DEF Drops, Exists, Holds, Searching
    <3> QED BY <3>2 DEF Excused
  <2> QED BY <2>1, <2>2, <2>3 DEF Stays
<1> QED BY <1>2, <1>4, <1>5 DEF Drops

-----------------------------------------------------------------------------
(* What the requests do to the matches, the claims and the pointers.        *)

(* A match is made by the request that commits its claim, and lasts.        *)
MatchesLast == \A c \in ClaimIds : match[c] # "none" => match'[c] # "none"

(* No step but the claim of a pair sets an index entry to "waiting".        *)
NoNewWait == \A c \in Issued : index[c] # "waiting" => index'[c] # "waiting"

LEMMA MatchSteps ==
    ASSUME FInv, blocked \subseteq Blockable, Next
    PROVE  /\ MatchesLast
           /\ blocked' \subseteq Blockable
           /\ \/ UNCHANGED match
              \/ \E w \in Workers : Commit(w)
              \/ \E c \in ClaimIds : EndMatch(c)
<1>1. match \in [ClaimIds -> {"none", "active", "over"}]
    BY DEF FInv, FormationTypeOK
<1>2. \/ UNCHANGED match
      \/ \E w \in Workers : Commit(w)
      \/ \E c \in ClaimIds : EndMatch(c)
    BY DEF Next, Proceed, StartJoin, StartPoll, StartLeave, Join, Status, Leave, List, Get,
           Find, Assess, Release, Finalize, Recover, RenewAfterRelease, Claim, Check,
           Fault, Block, LeaseRunsOut, ClaimFallsDue, PollUnchanged, ClaimSweep, vars
<1>3. MatchesLast
    BY <1>1, <1>2 DEF MatchesLast, Commit, EndMatch
<1>4. \/ UNCHANGED blocked
      \/ \E u \in Users : Block(u)
    BY DEF Next, Proceed, StartJoin, StartPoll, StartLeave, Join, Status, Leave, List, Get,
           Find, Assess, Release, Finalize, Recover, RenewAfterRelease, Claim, Check, Commit,
           Fault, EndMatch, LeaseRunsOut, ClaimFallsDue, PollUnchanged, ClaimSweep, vars
<1>5. blocked' \subseteq Blockable
    BY <1>4 DEF Block
<1> QED BY <1>2, <1>3, <1>5

(* Having been matched lasts.                                               *)
LEMMA EverMatchedLasts ==
    ASSUME MatchInv, RecordsFixed, MatchesLast, NEW u, EverMatched(u)
    PROVE  EverMatched(u)'
<1>1. PICK c \in ClaimIds : match[c] # "none" /\ u \in ClaimUsers(c)
    BY DEF EverMatched
<1>2. claimRec'[c] = claimRec[c]
    BY <1>1 DEF MatchInv, RecordsFixed
<1> QED BY <1>1, <1>2 DEF EverMatched, MatchesLast, ClaimUsers

LEMMA WaitsAreNew ==
    ASSUME IInv, StoreNext PROVE NoNewWait
<1>1. index \in [ClaimIds -> {"none", "waiting", "due"}] /\ Issued \subseteq ClaimIds
    BY DEF IInv, TypeOK, Issued
<1>2. CASE UNCHANGED index
    BY <1>2 DEF NoNewWait
<1>3. CASE \E c \in ClaimIds : index' = [index EXCEPT ![c] = "none"]
    BY <1>1, <1>3 DEF NoNewWait
<1>4. CASE \E c \in ClaimIds : PassRecoverAfter(c)
    BY <1>1, <1>4 DEF NoNewWait, PassRecoverAfter
<1>5. CASE ClaimPair
  <2>1. index' = [index EXCEPT ![nextClaim] = "waiting"]
      BY <1>5 DEF ClaimPair, ClaimTickets
  <2>2. \A c \in Issued : c # nextClaim
      BY BoundsAssumption DEF Issued, IInv, TypeOK, ClaimIds
  <2> QED BY <1>1, <2>1, <2>2 DEF NoNewWait
<1> QED BY <1>2, <1>3, <1>4, <1>5
        DEF StoreNext, JoinCreates, RenewTicket, LeaveTicket, ClaimNothing,
            FinalizeTeamClaim, ReleaseTeamClaim, DropTeamClaimIndex, ExpireLease, Issued

(* No step takes a ticket but for an admitted reason, nor a pointer.  A     *)
(* ticket that is new has the pointers of its members.                      *)
PlacesStand ==
    \A t \in TicketIds :
        /\ \/ Stays(t)
           \/ tickets'[t].roster # {} /\ \A u \in tickets'[t].roster : ptr'[u] = t
        /\ Drops(t) => Excused(t)

LEMMA StepStays == ASSUME LateInv, Next PROVE PlacesStand
<1> USE DEF LateInv, FInv
<1>1. ASSUME UNCHANGED <<tickets, ptr>> PROVE PlacesStand
    BY <1>1, NothingDrops DEF PlacesStand
<1>2. ASSUME \A t \in TicketIds : Stays(t) /\ (Drops(t) => Excused(t)) PROVE PlacesStand
    BY <1>2 DEF PlacesStand
<1>3. \A w \in Workers : Sound(work[w], Issued) /\ work[w] \in Request
    BY DEF WorkInv, Sound
<1>4. \A w \in Workers : \A u \in work[w].who : u \in Users
    BY <1>3 DEF Request
<1>5. ASSUME NEW w \in Workers, Join(w) PROVE PlacesStand
  <2>1. CASE JoinCreates(work[w].who)
    <3>1. work[w].who \in Rosters /\ work[w].who # {}
        BY <1>3, <1>5, RostersAssumption DEF Join, At, Sound
    <3> QED BY <2>1, <3>1, JoinStays DEF PlacesStand
  <2>2. CASE UNCHANGED storeVars
      BY <1>1, <2>2 DEF storeVars
  <2> QED BY <1>5, <2>1, <2>2 DEF Join, JoinConflict, JoinExisting
<1>6. ASSUME NEW w \in Workers, Status(w) PROVE PlacesStand
  <2>1. CASE \E u \in work[w].who : RenewTicket(u)
      BY <1>2, <1>4, <2>1, RenewStays
  <2>2. CASE UNCHANGED storeVars
      BY <1>1, <2>2 DEF storeVars
  <2> QED BY <1>6, <2>1, <2>2 DEF Status
<1>7. ASSUME NEW w \in Workers, RenewAfterRelease(w) PROVE PlacesStand
    BY <1>2, <1>4, <1>7, RenewStays DEF RenewAfterRelease
<1>8. ASSUME NEW w \in Workers, Leave(w) PROVE PlacesStand
  <2>1. PICK u \in work[w].who : LeaveTicket(u)
      BY <1>8 DEF Leave
  <2>2. At(w, "leave") /\ work'[w] = Idle
    <3>1. work \in [Workers -> Request]
        BY DEF FormationTypeOK
    <3> QED BY <1>8, <3>1 DEF Leave, Reply, Set
  <2>3. \A t \in TicketIds : Stays(t) /\ (Drops(t) => u \in tickets[t].roster)
      BY <1>4, <2>1, LeaveStays
  <2>4. \A t \in TicketIds : u \in tickets[t].roster => Excused(t)
      BY <2>1, <2>2 DEF Excused, Leaving
  <2> QED BY <1>2, <2>3, <2>4
<1>9. ASSUME NEW w \in Workers, Get(w) PROVE PlacesStand
    BY <1>1, <1>9 DEF Get, DropTeamClaimIndex, storeVars
<1>10. ASSUME NEW w \in Workers, Release(w) PROVE PlacesStand
  <2>1. /\ work[w].claim \in Issued /\ work[w].requeue \in SUBSET Sides
        /\ ReleaseTeamClaim(work[w].claim, work[w].requeue)
      BY <1>3, <1>10 DEF Release, At, Sound, HoldsClaim, Request
  <2>2. \A s \in Sides \ work[w].requeue : \E u \in ClaimRoster(work[w].claim, s) :
            u \in Blockable \/ EverMatched(u)
      BY <1>10 DEF Release, Good, Reasoned
  <2> QED BY <1>2, <2>1, <2>2, ReleaseStays
<1>11. ASSUME NEW w \in Workers, Finalize(w) PROVE PlacesStand
  <2>1. /\ work[w].claim \in Issued /\ match[work[w].claim] # "none"
        /\ FinalizeTeamClaim(work[w].claim)
      BY <1>3, <1>11 DEF Finalize, At, Sound, HoldsClaim, Good, Reasoned
  <2> QED BY <1>2, <2>1, FinalizeStays
<1>12. ASSUME NEW w \in Workers, Claim(w) PROVE PlacesStand
    BY <1>2, <1>12, ClaimStays DEF Claim
<1>13. ASSUME NEW t \in TicketIds, LeaseRunsOut(t) PROVE PlacesStand
  <2>1. tickets' = [tickets EXCEPT ![t].live = FALSE] /\ UNCHANGED ptr
      BY <1>13 DEF LeaseRunsOut, ExpireLease
  <2>2. \A d \in TicketIds : tickets'[d].state = tickets[d].state
      BY <2>1 DEF IInv, TypeOK, Ticket
  <2> QED BY <1>2, <2>1, <2>2, NothingDrops
<1>14. ASSUME NEW c \in ClaimIds, ClaimFallsDue(c) \/ EndMatch(c) PROVE PlacesStand
    BY <1>1, <1>14 DEF ClaimFallsDue, PassRecoverAfter, EndMatch, storeVars
<1>15. ASSUME NEW w \in Workers,
              List(w) \/ Find(w) \/ Assess(w) \/ Recover(w) \/ Check(w) \/ Commit(w) \/ Fault(w)
       PROVE  PlacesStand
    BY <1>1, <1>15 DEF List, Find, Assess, Recover, Check, Commit, Fault, storeVars
<1>16. ASSUME NEW w \in Workers, NEW R \in Rosters, StartJoin(w, R) PROVE PlacesStand
    BY <1>1, <1>16 DEF StartJoin, storeVars
<1>17. ASSUME NEW w \in Workers, NEW u \in Users, StartPoll(w, u) \/ StartLeave(w, u)
       PROVE  PlacesStand
    BY <1>1, <1>17 DEF StartPoll, StartLeave, storeVars
<1>18. ASSUME NEW u \in Users, Block(u) \/ PollUnchanged(u) PROVE PlacesStand
    BY <1>1, <1>18 DEF Block, PollUnchanged, vars, storeVars
<1>19. ASSUME ClaimSweep PROVE PlacesStand
    BY <1>1, <1>19 DEF ClaimSweep, vars
<1> QED BY <1>5, <1>6, <1>7, <1>8, <1>9, <1>10, <1>11, <1>12, <1>13, <1>14, <1>15, <1>16,
           <1>17, <1>18, <1>19 DEF Next, Proceed

(* So pointers go on leading to the tickets of those not yet matched.       *)
LEMMA PointersKept ==
    ASSUME MatchInv, PointedAt, PlacesStand, Kept, RecordsFixed, MatchesLast
    PROVE  PointedAt'
<1> SUFFICES ASSUME NEW t \in TicketIds, Exists(t)'
             PROVE  /\ tickets'[t].roster # {}
                    /\ \A u \in tickets'[t].roster : ptr'[u] = t \/ EverMatched(u)'
    BY DEF PointedAt
<1>1. CASE Stays(t)
  <2>1. Exists(t) /\ tickets'[t].roster = tickets[t].roster
      BY <1>1 DEF Stays, Kept, Exists, Searching, Claimed
  <2>2. ASSUME NEW u \in tickets[t].roster PROVE ptr'[u] = t \/ EverMatched(u)'
    <3>1. ptr'[u] = t \/ EverMatched(u)
        BY <1>1, <2>1, <2>2 DEF Stays, PointedAt
    <3> QED BY <3>1, EverMatchedLasts
  <2> QED BY <2>1, <2>2 DEF PointedAt
<1>2. CASE ~Stays(t)
    BY <1>2 DEF PlacesStand
<1> QED BY <1>1, <1>2

-----------------------------------------------------------------------------
(* The requests keep to their claims.                                       *)

(* What is known of a step, whichever it is.                                *)
Underway ==
    /\ LateInv /\ FInv' /\ RecordsFixed /\ MatchesLast /\ NoNewWait

(* The request is good after the step, and makes a claim only if it made it *)
(* before, or the claim is new.                                             *)
StaysGood(w) ==
    /\ Good(w)'
    /\ work'[w].then = "formed" => \/ work[w].then = "formed" /\ work'[w].claim = work[w].claim
                                   \/ work'[w].claim = nextClaim

(* Where a request is that neither makes a claim nor resolves one.          *)
QuietPCs == {"idle", "join", "leave", "list", "status", "recover", "get", "renew", "claim"}

LEMMA QuietStaysGood ==
    ASSUME NEW w \in Workers, work'[w].pc \in QuietPCs, work'[w].then # "formed",
           work'[w].pc = "claim" => work'[w].todo = {},
           ClaimOutlivesRequest => \A c \in work'[w].todo : index'[c] # "waiting"
    PROVE  StaysGood(w)
BY DEF StaysGood, Good, Reasoned, Maker, OnTime, QuietPCs, MakerPCs, At

LEMMA IdleStaysGood ==
    ASSUME NEW w \in Workers, work'[w] = Idle PROVE StaysGood(w)
BY QuietStaysGood DEF Idle, QuietPCs

LEMMA FormedStaysGood ==
    ASSUME NEW w \in Workers, NEW r \in Request, work'[w] = Formed(r) PROVE StaysGood(w)
<1>1. CASE r.op = "join"
    BY <1>1, IdleStaysGood DEF Formed
<1>2. CASE r.op # "join"
  <2>1. /\ work'[w].pc = "status" /\ work'[w].then = "none" /\ work'[w].todo = {}
      BY <1>2 DEF Formed, Idle
  <2> QED BY <2>1, QuietStaysGood DEF QuietPCs
<1> QED BY <1>1, <1>2

(* A request that goes on to its next claim, or to what follows.            *)
LEMMA ResolvedStaysGood ==
    ASSUME NEW w \in Workers, NEW rec \in Request, work'[w] = Resolved(rec),
           rec.then # "none", rec.then = "formed" => rec.todo = {},
           ClaimOutlivesRequest => \A c \in rec.todo : index'[c] # "waiting"
    PROVE  StaysGood(w)
<1>1. PICK r \in Request : r = [rec EXCEPT !.claim = None, !.requeue = {}]
    BY DEF Request, None
<1>2. r.todo = rec.todo /\ r.then = rec.then
    BY <1>1 DEF Request
<1>3. Resolved(rec) = IF r.todo # {} THEN [r EXCEPT !.pc = "get"]
                      ELSE IF r.then = "formed" THEN Formed(r)
                      ELSE [r EXCEPT !.pc = r.then]
    BY <1>1 DEF Resolved
<1>4. CASE r.todo # {}
  <2>1. work'[w].pc = "get" /\ work'[w].todo = rec.todo /\ work'[w].then # "formed"
      BY <1>2, <1>3, <1>4 DEF Request
  <2> QED BY <2>1, QuietStaysGood DEF QuietPCs
<1>5. CASE r.todo = {} /\ r.then = "formed"
    BY <1>3, <1>5, FormedStaysGood
<1>6. CASE r.todo = {} /\ r.then # "formed"
  <2>1. r.then \in {"claim", "renew"}
      BY <1>2, <1>6 DEF Request
  <2>2. Resolved(rec) = [r EXCEPT !.pc = r.then]
      BY <1>3, <1>6
  <2>3. work'[w].pc \in {"claim", "renew"} /\ work'[w].todo = {} /\ work'[w].then # "formed"
      BY <1>6, <2>1, <2>2 DEF Request
  <2> QED BY <2>3, QuietStaysGood DEF QuietPCs
<1> QED BY <1>4, <1>5, <1>6

(* A request at "check" or "commit" finds its claim as it made it, if it    *)
(* comes before recover_after of the claim: nobody else handles it.         *)
LEMMA OthersLeaveIt ==
    ASSUME Underway, Next, ClaimOutlivesRequest, NEW v \in Workers,
           work[v].pc \in {"check", "commit"}, work'[v] = work[v]
    PROVE  /\ work[v].claim \in claims'
           /\ index'[work[v].claim] = "waiting"
           /\ match'[work[v].claim] = "none"
<1> DEFINE c == work[v].claim
           Left == c \in claims' /\ index'[c] = "waiting" /\ match'[c] = "none"
<1>1. /\ c \in Issued /\ c \in ClaimIds
      /\ c \in claims /\ index[c] = "waiting" /\ match[c] = "none"
      /\ work[v].then = "formed"
    BY DEF Underway, LateInv, FInv, WorkInv, Sound, HoldsClaim, Good, Maker, OnTime, Issued
<1>2. \A w \in Workers : Good(w) /\ OnTime(w) /\ Sound(work[w], Issued)
    BY DEF Underway, LateInv, FInv, WorkInv, Good
<1>3. /\ match \in [ClaimIds -> {"none", "active", "over"}]
      /\ index \in [ClaimIds -> {"none", "waiting", "due"}]
      /\ work \in [Workers -> Request]
    BY DEF Underway, LateInv, FInv, FormationTypeOK, TypeOK
<1>4. \A w \in Workers : w # v /\ work[w].then = "formed" => work[w].claim # c
    BY <1>1 DEF Underway, LateInv, OneMaker
<1> HIDE DEF c
<1>5. ASSUME UNCHANGED <<claims, index, match>> PROVE Left
    BY <1>1, <1>5
<1>6. ASSUME NEW d \in ClaimIds, d # c, UNCHANGED match,
             index' = [index EXCEPT ![d] = "none"], claims' = claims \/ claims' = claims \ {d}
      PROVE  Left
    BY <1>1, <1>3, <1>6
<1>7. ASSUME NEW w \in Workers, Finalize(w) PROVE Left
  <2>1. work[w].claim \in ClaimIds /\ match[work[w].claim] # "none"
      BY <1>2, <1>7 DEF Finalize, At, Good, Reasoned, Sound, HoldsClaim, Issued
  <2> QED BY <1>1, <1>6, <1>7, <2>1 DEF Finalize, FinalizeTeamClaim
<1>8. ASSUME NEW w \in Workers, Release(w) PROVE Left
  <2>1. work[w].claim \in ClaimIds /\ w # v
      BY <1>2, <1>8 DEF Release, At, Sound, HoldsClaim, Issued
  <2>2. work[w].claim # c
    <3>1. work[w].then # "formed" => index[work[w].claim] # "waiting"
        BY <1>2, <1>8 DEF Release, At, OnTime
    <3> QED BY <1>1, <1>4, <2>1, <3>1
  <2> QED BY <1>6, <1>8, <2>1, <2>2 DEF Release, ReleaseTeamClaim
<1>9. ASSUME NEW w \in Workers, Get(w) PROVE Left
  <2>1. PICK d \in work[w].todo : DropTeamClaimIndex(d) \/ UNCHANGED storeVars
      BY <1>9 DEF Get
  <2>2. d \in ClaimIds /\ d # c
      BY <1>1, <1>2 DEF Sound, Issued, OnTime
  <2>3. UNCHANGED match
      BY <1>9 DEF Get
  <2> QED BY <1>5, <1>6, <2>1, <2>2, <2>3 DEF DropTeamClaimIndex, storeVars
<1>10. ASSUME NEW w \in Workers, Claim(w) PROVE Left
  <2>1. CASE ClaimPair
    <3>1. c # nextClaim
        BY <1>1, BoundsAssumption DEF Issued, Underway, LateInv, FInv, IInv, TypeOK, ClaimIds
    <3>2. claims' = claims \cup {nextClaim} /\ index' = [index EXCEPT ![nextClaim] = "waiting"]
        BY <2>1 DEF ClaimPair, ClaimTickets
    <3>3. UNCHANGED match
        BY <1>10 DEF Claim
    <3> QED BY <1>1, <1>3, <3>1, <3>2, <3>3
  <2>2. CASE ClaimNothing
      BY <1>5, <1>10, <2>2 DEF Claim, ClaimNothing
  <2> QED BY <1>10, <2>1, <2>2 DEF Claim
<1>11. ASSUME NEW w \in Workers, Commit(w) PROVE Left
  <2>1. w # v
      BY <1>3, <1>11 DEF Commit, Goto, Set, At, Request
  <2>2. work[w].then = "formed" /\ work[w].claim \in ClaimIds
      BY <1>2, <1>11 DEF Commit, At, Good, Maker, Sound, HoldsClaim, Issued
  <2>3. match'[c] = match[c]
      BY <1>1, <1>3, <1>4, <1>11, <2>1, <2>2 DEF Commit
  <2> QED BY <1>1, <1>11, <2>3 DEF Commit, storeVars
<1>12. ASSUME NEW d \in ClaimIds, ClaimFallsDue(d) PROVE Left
  <2>1. d # c
    <3>1. ASSUME d = c PROVE FALSE
      <4>1. work'[v] = Idle
          BY <1>1, <1>12, <3>1 DEF ClaimFallsDue, c
      <4> QED BY <4>1 DEF Idle
    <3> QED BY <3>1
  <2> QED BY <1>1, <1>3, <1>12, <2>1 DEF ClaimFallsDue, PassRecoverAfter
<1>13. ASSUME NEW d \in ClaimIds, EndMatch(d) PROVE Left
    BY <1>1, <1>3, <1>13 DEF EndMatch, storeVars
<1>14. ASSUME NEW w \in Workers, Join(w) \/ Status(w) \/ Leave(w) \/ RenewAfterRelease(w)
       PROVE  Left
    BY <1>5, <1>14 DEF Join, Status, Leave, RenewAfterRelease, JoinCreates, JoinConflict,
                       JoinExisting, RenewTicket, LeaveTicket, storeVars
<1>15. ASSUME NEW w \in Workers,
              List(w) \/ Find(w) \/ Assess(w) \/ Recover(w) \/ Check(w) \/ Fault(w)
       PROVE  Left
    BY <1>5, <1>15 DEF List, Find, Assess, Recover, Check, Fault, storeVars
<1>16. ASSUME NEW w \in Workers, NEW R \in Rosters, StartJoin(w, R) PROVE Left
    BY <1>5, <1>16 DEF StartJoin, storeVars
<1>17. ASSUME NEW w \in Workers, NEW u \in Users, StartPoll(w, u) \/ StartLeave(w, u) PROVE Left
    BY <1>5, <1>17 DEF StartPoll, StartLeave, storeVars
<1>18. ASSUME NEW u \in Users, Block(u) \/ PollUnchanged(u) PROVE Left
    BY <1>5, <1>18 DEF Block, PollUnchanged, vars, storeVars
<1>19. ASSUME NEW t \in TicketIds, LeaseRunsOut(t) PROVE Left
    BY <1>5, <1>19 DEF LeaseRunsOut, ExpireLease
<1>20. ASSUME ClaimSweep PROVE Left
    BY <1>5, <1>20 DEF ClaimSweep, vars
<1>21. Left
    BY <1>7, <1>8, <1>9, <1>10, <1>11, <1>12, <1>13, <1>14, <1>15, <1>16, <1>17, <1>18,
       <1>19, <1>20 DEF Next, Proceed
<1> QED BY <1>21 DEF c

(* A request that does not move stays good.                                 *)
LEMMA BystanderStaysGood ==
    ASSUME Underway, Next, NEW w \in Workers, work'[w] = work[w]
    PROVE  StaysGood(w)
<1>1. Good(w) /\ Sound(work[w], Issued) /\ work[w] \in Request /\ MatchInv
    BY DEF Underway, LateInv, FInv, WorkInv, Sound
<1>2. Reasoned(w)'
  <2>1. At(w, "finalize")' => match'[work'[w].claim] # "none"
      BY <1>1 DEF Good, Reasoned, At, Underway, MatchesLast, Sound, HoldsClaim, Issued
  <2>2. ASSUME At(w, "release")', NEW s \in Sides \ work'[w].requeue
        PROVE  \E u \in ClaimRoster(work[w].claim, s)' : u \in Blockable \/ EverMatched(u)'
    <3>1. PICK u \in ClaimRoster(work[w].claim, s) : u \in Blockable \/ EverMatched(u)
        BY <1>1, <2>2 DEF Good, Reasoned, At
    <3>2. work[w].claim \in Issued
        BY <1>1, <2>2 DEF At, Sound, HoldsClaim
    <3>3. ClaimRoster(work[w].claim, s)' = ClaimRoster(work[w].claim, s)
        BY <3>2 DEF Underway, RecordsFixed, ClaimRoster
    <3> QED BY <1>1, <3>1, <3>3, EverMatchedLasts DEF Underway
  <2> QED BY <2>1, <2>2 DEF Reasoned, At, ClaimRoster
<1>3. Maker(w)'
    BY <1>1 DEF Good, Maker, At
<1>4. ASSUME ClaimOutlivesRequest PROVE OnTime(w)'
  <2>1. OnTime(w)
      BY <1>1, <1>4 DEF Good
  <2>2. \A c \in work'[w].todo : index'[c] # "waiting"
      BY <1>1, <2>1 DEF OnTime, Sound, Underway, NoNewWait
  <2>3. work'[w].pc \in {"find", "assess", "release"} /\ work'[w].then # "formed" =>
            index'[work'[w].claim] # "waiting"
      BY <1>1, <2>1 DEF OnTime, Sound, HoldsClaim, Underway, NoNewWait
  <2>4. work'[w].pc \in {"check", "commit"} =>
            /\ work'[w].claim \in claims'
            /\ index'[work'[w].claim] = "waiting"
            /\ match'[work'[w].claim] = "none"
      BY <1>4, OthersLeaveIt
  <2> QED BY <2>2, <2>3, <2>4 DEF OnTime
<1> QED BY <1>2, <1>3, <1>4 DEF StaysGood, Good

-----------------------------------------------------------------------------
(* The request that moves stays good, action by action.                     *)
LEMMA MoverStaysGood ==
    ASSUME Underway, NEW w \in Workers, Proceed(w) PROVE StaysGood(w)
<1>1. /\ Good(w) /\ Reasoned(w) /\ Maker(w) /\ (ClaimOutlivesRequest => OnTime(w))
      /\ Sound(work[w], Issued) /\ work[w] \in Request /\ MatchInv
      /\ work \in [Workers -> Request]
    BY DEF Underway, LateInv, FInv, WorkInv, Sound, Good, FormationTypeOK
<1>2. \A r : Set(w, r) => work'[w] = r
    BY <1>1 DEF Set
<1>3. ASSUME Reply(w) PROVE StaysGood(w)
    BY <1>2, <1>3, IdleStaysGood DEF Reply
<1>4. ClaimOutlivesRequest => \A c \in work[w].todo : index'[c] # "waiting"
    BY <1>1 DEF OnTime, Sound, Underway, NoNewWait
<1>5. ASSUME NEW rec \in Request, Set(w, Resolved(rec)), rec.then = work[w].then,
             rec.todo \subseteq work[w].todo, work[w].then # "none"
      PROVE  StaysGood(w)
  <2>1. rec.then = "formed" => rec.todo = {}
      BY <1>1, <1>5 DEF Maker
  <2> QED BY <1>2, <1>4, <1>5, <2>1, ResolvedStaysGood
<1>6. CASE Join(w)
  <2>1. work[w].then # "formed"
      BY <1>1, <1>6 DEF Join, At, Maker, MakerPCs
  <2>2. ASSUME NEW c, Set(w, [work[w] EXCEPT !.pc = "recover", !.claim = c]) PROVE StaysGood(w)
    <3>1. work'[w].pc = "recover" /\ work'[w].then # "formed" /\ work'[w].todo = work[w].todo
        BY <1>1, <1>2, <2>1, <2>2 DEF Request
    <3> QED BY <1>4, <3>1, QuietStaysGood DEF QuietPCs
  <2>3. ASSUME Goto(w, "list") PROVE StaysGood(w)
    <3>1. work'[w].pc = "list" /\ work'[w].then # "formed" /\ work'[w].todo = work[w].todo
        BY <1>1, <1>2, <2>1, <2>3 DEF Request, Goto
    <3> QED BY <1>4, <3>1, QuietStaysGood DEF QuietPCs
  <2> QED BY <1>3, <1>6, <2>2, <2>3 DEF Join
<1>7. CASE Status(w)
  <2>1. work[w].then # "formed"
      BY <1>1, <1>7 DEF Status, At, Maker, MakerPCs
  <2>2. ASSUME NEW c, Set(w, [work[w] EXCEPT !.pc = "recover", !.claim = c]) PROVE StaysGood(w)
    <3>1. work'[w].pc = "recover" /\ work'[w].then # "formed" /\ work'[w].todo = work[w].todo
        BY <1>1, <1>2, <2>1, <2>2 DEF Request
    <3> QED BY <1>4, <3>1, QuietStaysGood DEF QuietPCs
  <2> QED BY <1>3, <1>7, <2>2 DEF Status
<1>8. CASE Leave(w) \/ RenewAfterRelease(w)
    BY <1>3, <1>8 DEF Leave, RenewAfterRelease
<1>9. CASE List(w)
  <2> DEFINE rec == [work[w] EXCEPT !.todo = ExpiredClaims, !.then = "claim"]
  <2>1. /\ rec \in Request /\ rec.then = "claim" /\ rec.todo = ExpiredClaims
        /\ work'[w] = Resolved(rec)
      BY <1>1, <1>2, <1>9 DEF List, Request, ExpiredClaims
  <2>2. \A c \in ExpiredClaims : index'[c] # "waiting"
    <3>1. UNCHANGED index
        BY <1>9 DEF List, storeVars
    <3> QED BY <3>1 DEF ExpiredClaims
  <2> HIDE DEF rec
  <2> QED BY <2>1, <2>2, ResolvedStaysGood
<1>10. CASE Get(w)
  <2>1. PICK c \in work[w].todo :
           IF c \in claims
           THEN Set(w, [[work[w] EXCEPT !.todo = @ \ {c}] EXCEPT !.pc = "find", !.claim = c])
           ELSE Set(w, Resolved([work[w] EXCEPT !.todo = @ \ {c}]))
      BY <1>10 DEF Get
  <2>2. work[w].pc = "get" /\ work[w].then # "none" /\ work[w].then # "formed"
      BY <1>1, <1>10 DEF Get, At, Sound, GoesOn, Maker, MakerPCs
  <2>3. CASE c \notin claims
    <3>1. /\ [work[w] EXCEPT !.todo = @ \ {c}] \in Request
          /\ [work[w] EXCEPT !.todo = @ \ {c}].then = work[w].then
          /\ [work[w] EXCEPT !.todo = @ \ {c}].todo \subseteq work[w].todo
        BY <1>1 DEF Request
    <3> QED BY <1>5, <2>1, <2>2, <2>3, <3>1
  <2>4. CASE c \in claims
    <3> DEFINE r == [work[w] EXCEPT !.todo = @ \ {c}]
    <3>0. /\ r \in Request /\ r.then = work[w].then /\ r.todo = work[w].todo \ {c}
          /\ work'[w] = [r EXCEPT !.pc = "find", !.claim = c]
        BY <1>1, <1>2, <2>1, <2>4 DEF Request
    <3> HIDE DEF r
    <3>1. /\ work'[w].pc = "find" /\ work'[w].claim = c
          /\ work'[w].todo \subseteq work[w].todo /\ work'[w].then # "formed"
        BY <2>2, <3>0 DEF Request
    <3>2. ClaimOutlivesRequest => index'[c] # "waiting"
        BY <1>4, <2>1
    <3> QED BY <1>4, <3>1, <3>2 DEF StaysGood, Good, Reasoned, Maker, OnTime, At
  <2> QED BY <2>3, <2>4
<1>11. CASE Find(w)
  <2>1. /\ work[w].pc = "find" /\ work[w].then # "formed" /\ work[w].claim \in Issued
        /\ UNCHANGED <<match, index>>
      BY <1>1, <1>11 DEF Find, At, Sound, HoldsClaim, Maker, MakerPCs, storeVars
  <2>2. work'[w] = [work[w] EXCEPT !.pc = IF match[work[w].claim] = "none" THEN "assess" ELSE "finalize"]
      BY <1>2, <1>11 DEF Find, Goto
  <2>3. /\ work'[w].claim = work[w].claim /\ work'[w].then = work[w].then
        /\ work'[w].todo = work[w].todo
        /\ work'[w].pc = IF match[work[w].claim] = "none" THEN "assess" ELSE "finalize"
      BY <1>1, <2>2 DEF Request
  <2>4. ClaimOutlivesRequest => index'[work[w].claim] # "waiting"
      BY <1>1, <2>1 DEF OnTime
  <2> QED BY <1>4, <2>1, <2>3, <2>4 DEF StaysGood, Good, Reasoned, Maker, OnTime, At
<1>12. CASE Assess(w) \/ Check(w)
  <2>1. /\ work[w].claim \in Issued /\ work[w].pc \in {"assess", "check"}
        /\ UNCHANGED <<claims, claimRec, index, match>>
      BY <1>1, <1>12 DEF Assess, Check, At, Sound, HoldsClaim, storeVars
  <2>2. CASE Set(w, [work[w] EXCEPT !.pc = "release", !.requeue = RosterRequeue(work[w].claim)])
    <3>1. /\ work'[w].pc = "release" /\ work'[w].requeue = RosterRequeue(work[w].claim)
          /\ work'[w].claim = work[w].claim /\ work'[w].then = work[w].then
          /\ work'[w].todo = work[w].todo
        BY <1>1, <1>2, <2>2 DEF Request, RosterRequeue
    <3>2. ASSUME NEW s \in Sides \ RosterRequeue(work[w].claim)
          PROVE  \E u \in ClaimRoster(work[w].claim, s) : u \in Blockable \/ EverMatched(u)'
      <4>1. PICK u \in ClaimRoster(work[w].claim, s) : u \in blocked \/ Assigned(u)
          BY <3>2 DEF RosterRequeue, CandidateRequeue
      <4>2. u \in Blockable \/ EverMatched(u)
          BY <4>1 DEF Underway, LateInv, Assigned, EverMatched
      <4>3. EverMatched(u)' <=> EverMatched(u)
          BY <2>1 DEF EverMatched, ClaimUsers
      <4> QED BY <4>1, <4>2, <4>3
    <3>3. Reasoned(w)'
        BY <2>1, <3>1, <3>2 DEF Reasoned, At, ClaimRoster
    <3>4. Maker(w)'
        BY <1>1, <2>1, <3>1 DEF Maker, MakerPCs, At
    <3>5. ASSUME ClaimOutlivesRequest PROVE OnTime(w)'
      <4>1. work[w].then # "formed" => index'[work[w].claim] # "waiting"
          BY <1>1, <2>1, <3>5 DEF OnTime, Maker
      <4> QED BY <1>4, <3>1, <3>5, <4>1 DEF OnTime
    <3> QED BY <3>1, <3>3, <3>4, <3>5 DEF StaysGood, Good
  <2>3. CASE Check(w) /\ Goto(w, "commit")
    <3>1. /\ work'[w].pc = "commit"
          /\ work'[w].claim = work[w].claim /\ work'[w].then = work[w].then
          /\ work'[w].todo = work[w].todo
        BY <1>1, <1>2, <2>3 DEF Request, Goto
    <3>2. work[w].pc = "check"
        BY <2>3 DEF Check, At
    <3>3. Reasoned(w)'
        BY <3>1 DEF Reasoned, At
    <3>4. Maker(w)'
        BY <1>1, <3>1, <3>2 DEF Maker, MakerPCs, At
    <3>5. ASSUME ClaimOutlivesRequest PROVE OnTime(w)'
        BY <1>1, <2>1, <3>1, <3>2, <3>5 DEF OnTime
    <3> QED BY <3>1, <3>3, <3>4, <3>5 DEF StaysGood, Good
  <2> QED BY <1>12, <2>2, <2>3 DEF Assess, Check
<1>13. CASE Release(w) \/ Finalize(w)
  <2>1. work[w].then # "none"
      BY <1>1, <1>13 DEF Release, Finalize, At, Sound, GoesOn
  <2> QED BY <1>1, <1>3, <1>5, <1>13, <2>1 DEF Release, Finalize
<1>14. CASE Recover(w)
  <2>1. /\ work[w].pc = "recover" /\ UNCHANGED <<match, index>>
      BY <1>14 DEF Recover, At, storeVars
  <2>2. CASE /\ match[work[w].claim] # "none"
             /\ Set(w, [work[w] EXCEPT !.pc = "finalize", !.then = "renew"])
    <3>1. /\ work'[w].pc = "finalize" /\ work'[w].then = "renew"
          /\ work'[w].claim = work[w].claim /\ work'[w].todo = work[w].todo
        BY <1>1, <1>2, <2>2 DEF Request
    <3> QED BY <1>4, <2>1, <2>2, <3>1 DEF StaysGood, Good, Reasoned, Maker, OnTime, At
  <2>3. CASE /\ ClaimDue(work[w].claim)
             /\ Set(w, [work[w] EXCEPT !.pc = "find", !.then = "renew"])
    <3>1. /\ work'[w].pc = "find" /\ work'[w].then = "renew"
          /\ work'[w].claim = work[w].claim /\ work'[w].todo = work[w].todo
        BY <1>1, <1>2, <2>3 DEF Request
    <3>2. index'[work[w].claim] # "waiting"
        BY <2>1, <2>3 DEF ClaimDue
    <3> QED BY <1>4, <3>1, <3>2 DEF StaysGood, Good, Reasoned, Maker, OnTime, At
  <2> QED BY <1>3, <1>14, <2>2, <2>3 DEF Recover
<1>15. CASE Claim(w)
  <2>1. work[w].pc = "claim" /\ work[w].todo = {} /\ UNCHANGED match
      BY <1>1, <1>15 DEF Claim, At, Maker
  <2>2. CASE /\ ClaimPair
             /\ Set(w, [work[w] EXCEPT !.pc = "check", !.claim = nextClaim, !.then = "formed"])
    <3>1. nextClaim \in ClaimIds /\ nextClaim \notin Issued
        BY <2>2, BoundsAssumption DEF ClaimPair, ClaimIds, Issued, Underway, LateInv, FInv, IInv, TypeOK
    <3>2. /\ work'[w].pc = "check" /\ work'[w].then = "formed"
          /\ work'[w].claim = nextClaim /\ work'[w].todo = {}
        BY <1>1, <1>2, <2>1, <2>2, <3>1 DEF Request
    <3>3. nextClaim \in claims' /\ index'[nextClaim] = "waiting"
      <4>1. index \in [ClaimIds -> {"none", "waiting", "due"}]
          BY DEF Underway, LateInv, FInv, IInv, TypeOK
      <4> QED BY <2>2, <3>1, <4>1 DEF ClaimPair, ClaimTickets
    <3>4. match'[nextClaim] = "none"
        BY <1>1, <2>1, <3>1 DEF MatchInv
    <3> QED BY <3>2, <3>3, <3>4 DEF StaysGood, Good, Reasoned, Maker, MakerPCs, OnTime, At
  <2> QED BY <1>1, <1>2, <1>15, <2>2, FormedStaysGood DEF Claim
<1>16. CASE Commit(w)
  <2>1. /\ work[w].pc = "commit" /\ work[w].then = "formed" /\ work[w].todo = {}
        /\ work[w].claim \in ClaimIds
      BY <1>1, <1>16 DEF Commit, At, Maker, Sound, HoldsClaim, Issued
  <2>2. CASE match' = [match EXCEPT ![work[w].claim] = "active"] /\ Goto(w, "finalize")
    <3>1. /\ work'[w].pc = "finalize" /\ work'[w].then = "formed"
          /\ work'[w].claim = work[w].claim /\ work'[w].todo = {}
        BY <1>1, <1>2, <2>1, <2>2 DEF Request, Goto
    <3>2. match'[work[w].claim] # "none"
        BY <2>1, <2>2 DEF Underway, LateInv, FInv, FormationTypeOK
    <3> QED BY <2>1, <3>1, <3>2 DEF StaysGood, Good, Reasoned, Maker, MakerPCs, OnTime, At
  <2>3. CASE Goto(w, "assess")
    <3>1. /\ work'[w].pc = "assess" /\ work'[w].then = "formed"
          /\ work'[w].claim = work[w].claim /\ work'[w].todo = {}
        BY <1>1, <1>2, <2>1, <2>3 DEF Request, Goto
    <3> QED BY <2>1, <3>1 DEF StaysGood, Good, Reasoned, Maker, MakerPCs, OnTime, At
  <2> QED BY <1>16, <2>2, <2>3 DEF Commit
<1> QED BY <1>6, <1>7, <1>8, <1>9, <1>10, <1>11, <1>12, <1>13, <1>14, <1>15, <1>16 DEF Proceed

(* So does one that starts, or fails.                                       *)
LEMMA StarterStaysGood ==
    ASSUME Underway, NEW w \in Workers, NEW R \in Rosters \cup {{u} : u \in Users},
           NEW p \in {"join", "leave", "list", "status"}, NEW o,
           Set(w, [Idle EXCEPT !.pc = p, !.op = o, !.who = R])
    PROVE  StaysGood(w)
<1>1. work \in [Workers -> Request]
    BY DEF Underway, LateInv, FInv, FormationTypeOK
<1>2. work'[w].pc = p /\ work'[w].then = "none" /\ work'[w].todo = {}
    BY <1>1 DEF Set, Idle
<1> QED BY <1>2, QuietStaysGood DEF QuietPCs

LEMMA FaultStaysGood ==
    ASSUME Underway, NEW w \in Workers, Fault(w) PROVE StaysGood(w)
<1>1. /\ (ClaimOutlivesRequest => OnTime(w)) /\ Sound(work[w], Issued) /\ work[w] \in Request
      /\ work \in [Workers -> Request] /\ UNCHANGED index
    BY DEF Underway, LateInv, FInv, WorkInv, Sound, Good, FormationTypeOK, Fault, storeVars
<1>2. \A r : Set(w, r) => work'[w] = r
    BY <1>1 DEF Set
<1>3. CASE Reply(w)
    BY <1>2, <1>3, IdleStaysGood DEF Reply
<1>4. CASE work[w].then = "claim" /\ Set(w, Resolved(work[w]))
    BY <1>1, <1>2, <1>4, ResolvedStaysGood DEF OnTime
<1>5. CASE Set(w, [work[w] EXCEPT !.pc = "claim", !.todo = {}, !.then = "claim"])
  <2>1. work'[w].pc = "claim" /\ work'[w].then = "claim" /\ work'[w].todo = {}
      BY <1>1, <1>2, <1>5 DEF Request
  <2> QED BY <2>1, QuietStaysGood DEF QuietPCs
<1>6. CASE Set(w, Formed(work[w]))
    BY <1>1, <1>2, <1>6, FormedStaysGood
<1> QED BY <1>3, <1>4, <1>5, <1>6 DEF Fault

-----------------------------------------------------------------------------
(* LateInv is inductive.                                                    *)
LEMMA RequestsStayGood ==
    ASSUME Underway, Next
    PROVE  (\A w \in Workers : Good(w)') /\ OneMaker'
<1>1. work \in [Workers -> Request]
    BY DEF Underway, LateInv, FInv, FormationTypeOK
<1>2. ASSUME \A w \in Workers : work'[w] = work[w] \/ work'[w] = Idle
      PROVE  (\A w \in Workers : Good(w)') /\ OneMaker'
  <2>1. \A w \in Workers : Good(w)'
      BY <1>2, BystanderStaysGood, IdleStaysGood DEF StaysGood
  <2>2. \A w \in Workers : work'[w].then = "formed" => work'[w] = work[w]
      BY <1>2 DEF Idle
  <2>3. OneMaker'
      BY <2>2 DEF OneMaker, Underway, LateInv
  <2> QED BY <2>1, <2>3
<1>3. ASSUME NEW w \in Workers, StaysGood(w), NEW r, Set(w, r)
      PROVE  (\A v \in Workers : Good(v)') /\ OneMaker'
  <2>1. \A v \in Workers \ {w} : work'[v] = work[v]
      BY <1>1, <1>3 DEF Set
  <2>2. \A v \in Workers : Good(v)'
      BY <1>3, <2>1, BystanderStaysGood DEF StaysGood
  <2>3. ASSUME NEW v \in Workers \ {w}, work'[v].then = "formed", work'[w].then = "formed"
        PROVE  work'[v].claim # work'[w].claim
    <3>1. work[v].then = "formed" /\ work'[v].claim = work[v].claim
        BY <2>1, <2>3
    <3>2. CASE work[w].then = "formed" /\ work'[w].claim = work[w].claim
        BY <3>1, <3>2 DEF Underway, LateInv, OneMaker
    <3>3. CASE work'[w].claim = nextClaim
      <4>1. work[v].claim \in Issued
          BY <3>1 DEF Underway, LateInv, FInv, WorkInv, Sound, Good, Maker, MakerPCs, HoldsClaim
      <4>2. nextClaim \notin Issued
          BY BoundsAssumption DEF Issued, Underway, LateInv, FInv, IInv, TypeOK
      <4> QED BY <3>1, <3>3, <4>1, <4>2
    <3> QED BY <1>3, <2>3, <3>2, <3>3 DEF StaysGood
  <2>4. OneMaker'
    <3> SUFFICES ASSUME NEW v \in Workers, NEW x \in Workers, v # x,
                        work'[v].then = "formed", work'[x].then = "formed"
                 PROVE  work'[v].claim # work'[x].claim
        BY DEF OneMaker
    <3>1. CASE v = w \/ x = w
        BY <2>3, <3>1
    <3>2. CASE v # w /\ x # w
        BY <2>1, <3>2 DEF Underway, LateInv, OneMaker
    <3> QED BY <3>1, <3>2
  <2> QED BY <2>2, <2>4
<1>4. ASSUME NEW w \in Workers, Proceed(w) \/ Fault(w) PROVE \E r : Set(w, r)
    BY <1>4 DEF Proceed, Fault, Join, Status, Leave, List, Get, Find, Assess, Release, Finalize,
                Recover, RenewAfterRelease, Claim, Check, Commit, Goto, Reply
<1>5. ASSUME NEW w \in Workers, Proceed(w) \/ Fault(w)
      PROVE  (\A v \in Workers : Good(v)') /\ OneMaker'
    BY <1>3, <1>4, <1>5, MoverStaysGood, FaultStaysGood
<1>6. ASSUME NEW w \in Workers, NEW R \in Rosters, StartJoin(w, R)
      PROVE  (\A v \in Workers : Good(v)') /\ OneMaker'
  <2>1. Set(w, [Idle EXCEPT !.pc = "join", !.op = "join", !.who = R])
      BY <1>6 DEF StartJoin
  <2>2. StaysGood(w)
      BY <2>1, StarterStaysGood
  <2> QED BY <1>3, <2>1, <2>2
<1>7. ASSUME NEW w \in Workers, NEW u \in Users, StartPoll(w, u) \/ StartLeave(w, u)
      PROVE  (\A v \in Workers : Good(v)') /\ OneMaker'
  <2>1. PICK p \in {"leave", "list", "status"}, o \in {"poll", "leave"} :
            Set(w, [Idle EXCEPT !.pc = p, !.op = o, !.who = {u}])
    <3>1. CASE StartPoll(w, u) /\ Searching(ptr[u])
        BY <3>1 DEF StartPoll
    <3>2. CASE StartPoll(w, u) /\ ~Searching(ptr[u])
        BY <3>2 DEF StartPoll
    <3>3. CASE StartLeave(w, u)
        BY <3>3 DEF StartLeave
    <3> QED BY <1>7, <3>1, <3>2, <3>3
  <2>2. StaysGood(w)
      BY <2>1, StarterStaysGood
  <2> QED BY <1>3, <2>1, <2>2
<1>8. CASE UNCHANGED work
    BY <1>2, <1>8
<1>9. ASSUME NEW c \in ClaimIds, ClaimFallsDue(c)
      PROVE  (\A v \in Workers : Good(v)') /\ OneMaker'
    BY <1>2, <1>9 DEF ClaimFallsDue
<1> QED BY <1>5, <1>6, <1>7, <1>8, <1>9
        DEF Next, EndMatch, Block, LeaseRunsOut, PollUnchanged, ClaimSweep, vars

LEMMA InitLateInv == Init => LateInv
<1> SUFFICES ASSUME Init PROVE LateInv
    OBVIOUS
<1>1. FInv
    BY InitFInv
<1>2. PointedAt
    BY DEF PointedAt, Exists, Searching, Claimed, Init, StoreInit, NoTicket
<1>3. \A w \in Workers : Good(w)
    BY DEF Init, Good, Reasoned, Maker, OnTime, MakerPCs, At, Idle
<1>4. OneMaker /\ blocked \subseteq Blockable
    BY DEF Init, OneMaker, Idle
<1> QED BY <1>1, <1>2, <1>3, <1>4 DEF LateInv

(* Every step keeps the invariant, and drops no ticket without a reason.    *)
LEMMA StepLateInv == ASSUME LateInv, Next PROVE LateInv' /\ PlacesStand /\ Underway
<1>1. FInv' /\ [StoreNext]_storeVars
    BY StepFInv DEF LateInv
<1>2. RecordsFixed
    BY <1>1, StoreStepFacts DEF LateInv, FInv
<1>3. MatchesLast /\ blocked' \subseteq Blockable
    BY MatchSteps DEF LateInv
<1>4. NoNewWait /\ Kept
  <2>1. CASE StoreNext
      BY <2>1, WaitsAreNew, StepKeepsIInv DEF LateInv, FInv
  <2>2. CASE UNCHANGED storeVars
      BY <2>2 DEF storeVars, NoNewWait, Kept
  <2> QED BY <1>1, <2>1, <2>2
<1>5. PlacesStand
    BY StepStays
<1>6. PointedAt'
    BY <1>2, <1>3, <1>4, <1>5, PointersKept DEF LateInv, FInv
<1>7. Underway
    BY <1>1, <1>2, <1>3, <1>4 DEF Underway
<1>8. (\A w \in Workers : Good(w)') /\ OneMaker'
    BY <1>7, RequestsStayGood
<1> QED BY <1>1, <1>3, <1>5, <1>6, <1>7, <1>8 DEF LateInv

(* No request is late without its knowing, and no ticket is without the     *)
(* pointers of members who have not been matched.                           *)
THEOREM LateInvariant == Spec => []LateInv
<1>1. LateInv /\ UNCHANGED vars => LateInv'
  <2> SUFFICES ASSUME LateInv, UNCHANGED vars PROVE LateInv'
      OBVIOUS
  <2>1. FInv'
      BY StepFInv DEF LateInv
  <2>2. PointedAt' /\ blocked' \subseteq Blockable /\ OneMaker'
      BY DEF LateInv, vars, PointedAt, Exists, Searching, Claimed, EverMatched, ClaimUsers, OneMaker
  <2>3. \A w \in Workers : Good(w)'
      BY DEF LateInv, vars, Good, Reasoned, Maker, OnTime, At, EverMatched, ClaimUsers, ClaimRoster
  <2> QED BY <2>1, <2>2, <2>3 DEF LateInv
<1>2. LateInv /\ [Next]_vars => LateInv'
    BY <1>1, StepLateInv
<1> QED BY <1>2, InitLateInv, PTL DEF Spec

(* A ticket whose members were never blocked or matched is removed only by  *)
(* its own members' leave or by the end of its lease.                       *)
THEOREM InnocentsKeepTheirPlace == Spec => NoInnocentDrop
<1> DEFINE NoDrop ==
        \A t \in TicketIds :
         tickets[t].state # "absent" /\ tickets'[t].state = "absent" =>
            \/ tickets[t].state = "searching" /\ ~tickets[t].live
            \/ Leaving(tickets[t].roster)
            \/ tickets[t].roster \cap Blockable # {}
            \/ \E c \in ClaimIds : /\ match[c] # "none"
                                   /\ tickets[t].roster \cap ClaimUsers(c) # {}
<1>1. LateInv /\ [Next]_vars => [NoDrop]_vars
  <2> SUFFICES ASSUME LateInv, Next PROVE NoDrop
      OBVIOUS
  <2>1. ASSUME NEW t \in TicketIds, tickets[t].state # "absent", tickets'[t].state = "absent"
        PROVE  Drops(t)
      BY <2>1 DEF Drops, Exists, Searching, Claimed, LateInv, FInv, IInv, TypeOK, Ticket
  <2>2. \A t \in TicketIds : Drops(t) => Excused(t)
      BY StepLateInv DEF PlacesStand
  <2> QED BY <2>1, <2>2 DEF Excused
<1> QED BY <1>1, LateInvariant, PTL DEF Spec, NoInnocentDrop

(* While claims outlive the requests that made them, a match is committed   *)
(* only while both entries are open: the claim still holds its tickets.     *)
THEOREM MatchedWhileOpen ==
    ASSUME ClaimOutlivesRequest
    PROVE  Spec => MatchedFromOpenEntries
<1> DEFINE FromOpen ==
        \A c \in ClaimIds : match[c] = "none" /\ match'[c] = "active" =>
          \A s \in Sides : tickets[ClaimTicket(c, s)].state # "absent"
<1>1. LateInv /\ [Next]_vars => [FromOpen]_vars
  <2> SUFFICES ASSUME LateInv, Next, NEW c \in ClaimIds, match[c] = "none", match'[c] = "active",
                      NEW s \in Sides
               PROVE  tickets[ClaimTicket(c, s)].state # "absent"
      OBVIOUS
  <2>1. match \in [ClaimIds -> {"none", "active", "over"}]
      BY DEF LateInv, FInv, FormationTypeOK
  <2>2. PICK w \in Workers : Commit(w)
      BY <2>1, MatchSteps DEF LateInv, EndMatch
  <2>3. c = work[w].claim
      BY <2>1, <2>2 DEF Commit
  <2>4. c \in claims
      BY <2>2, <2>3 DEF LateInv, Good, OnTime, Commit, At
  <2>5. HeldBy(ClaimTicket(c, s), c)
      BY <2>4 DEF LateInv, FInv, IInv, ClaimRecoverable, HeldSides
  <2> QED BY <2>5 DEF HeldBy, Claimed
<1> QED BY <1>1, LateInvariant, PTL DEF Spec, MatchedFromOpenEntries
==============================================================================
