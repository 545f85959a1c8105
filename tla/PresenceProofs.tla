--------------------------- MODULE PresenceProofs ---------------------------
(***************************************************************************)
(* Proofs about Presence, for any participants, connections, sweepers and  *)
(* any number of disturbances.                                             *)
(*                                                                         *)
(* CountExact and MarkerGetsRepaired need each other's company: while      *)
(* nothing has failed the count is exact, so an open socket is always      *)
(* counted, so no heartbeat ever reacquires (NoRevival), so the only       *)
(* handlers that can be cancelled before they mark a participant connected *)
(* do not exist, and every handler MarkerGetsRepaired counts on runs to    *)
(* its end.                                                                *)
(***************************************************************************)
EXTENDS Presence, TLAPS, FiniteSetTheorems

(* The candidate a sweeper forfeits or clears is a participant.             *)
SweepInv == \A w \in Sweepers : sweep[w].step \in {"forfeit", "clear"} => sweep[w].user \in Users

(* Nobody has abandoned a live match.                                       *)
ForfeitInv == OneForfeit /\ (match = "live" => abandoned = {})

NoRevival == faults = 0 => \A s \in Sockets : socket[s] \notin {"reacquire", "reviving"}

CountInv == CountExact /\ NoRevival

PInv == PresenceTypeOK /\ SweepInv /\ ForfeitInv /\ CountInv /\ MarkerGetsRepaired

USE DEF redis, db, PCs, Sweep, Resting

-----------------------------------------------------------------------------
(* The records a sweeper moves to by resetting fields of its own.           *)
LEMMA SweepRecords ==
    ASSUME PresenceTypeOK, NEW w \in Sweepers
    PROVE  LET next == [sweep[w] EXCEPT !.step = "next", !.user = None]
               clear == [sweep[w] EXCEPT !.step = "clear"]
           IN  /\ next \in Sweep /\ next.step = "next"
               /\ clear \in Sweep /\ clear.step = "clear" /\ clear.user = sweep[w].user
<1>1. sweep[w] \in Sweep
  BY DEF PresenceTypeOK
<1>. QED  BY <1>1

(* A sweeper that moves to a record with a candidate fit for it keeps the   *)
(* invariant of all sweepers.                                               *)
LEMMA SweepMoves ==
    ASSUME PresenceTypeOK, SweepInv, NEW w \in Sweepers, NEW r \in Sweep,
           r.step \in {"forfeit", "clear"} => r.user \in Users, SweepTo(w, r)
    PROVE  sweep' \in [Sweepers -> Sweep] /\ SweepInv'
<1>1. sweep' = [sweep EXCEPT ![w] = r]
  BY DEF SweepTo
<1>2. sweep' \in [Sweepers -> Sweep]
  BY <1>1 DEF PresenceTypeOK
<1>3. \A v \in Sweepers : sweep'[v] = IF v = w THEN r ELSE sweep[v]
  BY <1>1 DEF PresenceTypeOK
<1>. QED  BY <1>2, <1>3 DEF SweepInv

(* Every step keeps the variables in their types, and a sweeper's candidate *)
(* among the participants.                                                  *)
LEMMA StepKeepsTypes ==
    ASSUME PresenceTypeOK, SweepInv, [Next]_vars
    PROVE  PresenceTypeOK' /\ SweepInv'
<1> USE OwnerAssumption, TeamAssumption, BoundAssumption DEF PresenceTypeOK, SweepInv
<1>1. CASE UNCHANGED vars
  BY <1>1 DEF vars
<1>2. ASSUME NEW s \in Sockets, Open(s) \/ Reacquire(s)  PROVE PresenceTypeOK' /\ SweepInv'
  <2>1. Owner[s] \in Users
    BY OwnerAssumption
  <2>2. count' \in [Users -> Nat] /\ window' \in [Users -> BOOLEAN]
    <3>1. /\ count' = [count EXCEPT ![Owner[s]] = @ + 1]
          /\ window' = [window EXCEPT ![Owner[s]] = FALSE]
      BY <1>2 DEF Open, Reacquire, AcquirePresence
    <3>. QED  BY <2>1, <3>1
  <2>3. socket' \in [Sockets -> PCs]
    BY <1>2 DEF Open, Reacquire, AcquirePresence, To
  <2>. QED  BY <1>2, <2>2, <2>3 DEF Open, Reacquire, AcquirePresence
<1>3. ASSUME NEW s \in Sockets, Connected(s) \/ Revived(s) \/ Repair(s)
      PROVE PresenceTypeOK' /\ SweepInv'
  <2>1. Owner[s] \in Users
    BY OwnerAssumption
  <2>2. /\ marker' \in [Users -> {"active", "disconnected", "left"}]
        /\ aged' \in [Users -> BOOLEAN]
    BY ZenonT(30), <1>3, <2>1 DEF Connected, Revived, Repair, MarkConnected, MarkConnectionState
  <2>3. socket' \in [Sockets -> PCs]
    BY <1>3 DEF Connected, Revived, Repair, MarkConnected, To
  <2>. QED
    BY <1>3, <2>2, <2>3 DEF Connected, Revived, Repair, MarkConnected, MarkConnectionState
<1>4. ASSUME NEW s \in Sockets, Close(s) \/ Heartbeat(s) \/ Recheck(s)
      PROVE PresenceTypeOK' /\ SweepInv'
  BY <1>4 DEF Close, Heartbeat, Recheck, To
<1>5. ASSUME NEW s \in Sockets, ReleasePresence(s)  PROVE PresenceTypeOK' /\ SweepInv'
  <2>1. Owner[s] \in Users
    BY OwnerAssumption
  <2>2. count' \in [Users -> Nat]
    <3>1. CASE count[Owner[s]] = 0
      BY <1>5, <3>1 DEF ReleasePresence
    <3>2. CASE count[Owner[s]] # 0
      <4>1. count' = [count EXCEPT ![Owner[s]] = @ - 1]
        BY <1>5, <3>2 DEF ReleasePresence
      <4>2. count[Owner[s]] - 1 \in Nat
        BY <2>1, <3>2
      <4>. QED  BY <4>1, <4>2, <2>1
    <3>. QED  BY <3>1, <3>2
  <2>3. window' \in [Users -> BOOLEAN]
    BY <1>5, <2>1 DEF ReleasePresence
  <2>4. socket' \in [Sockets -> PCs]
    BY <1>5 DEF ReleasePresence, To
  <2>. QED  BY <1>5, <2>2, <2>3, <2>4 DEF ReleasePresence
<1>6. ASSUME NEW s \in Sockets, MarkDisconnected(s)  PROVE PresenceTypeOK' /\ SweepInv'
  BY <1>6 DEF MarkDisconnected, MarkConnectionState, To
<1>7. ASSUME NEW s \in Sockets, CallFails(s) \/ OpenFails(s)  PROVE PresenceTypeOK' /\ SweepInv'
  BY <1>7 DEF CallFails, OpenFails, Fault, AfterError, To, Up
<1>8. ASSUME NEW s \in Sockets, NEW w \in Sweepers, Crash(s, w)  PROVE PresenceTypeOK' /\ SweepInv'
  <2>1. socket' \in [Sockets -> PCs]
    BY <1>8 DEF Crash, Fault, To
  <2>2. sweep' \in [Sweepers -> Sweep] /\ SweepInv'
    BY <1>8 DEF Crash, SweepTo
  <2>3. faults' \in 0..MaxFaults
    BY <1>8 DEF Crash, Fault
  <2>. QED  BY <1>8, <2>1, <2>2, <2>3 DEF Crash
<1>9. ASSUME NEW u \in Users, Leave(u)  PROVE PresenceTypeOK' /\ SweepInv'
  BY <1>9 DEF Leave, ApplyForfeit, WinningTeamForForfeit
<1>10. ASSUME NEW u \in Users, Time(u)  PROVE PresenceTypeOK' /\ SweepInv'
  <2>1. CASE WindowExpires(u)
    BY <2>1 DEF WindowExpires
  <2>2. CASE GraceElapses(u)
    BY <2>2 DEF GraceElapses
  <2>3. CASE CountExpires(u)
    <3>1. count' \in [Users -> Nat]
      BY <2>3 DEF CountExpires
    <3>. QED  BY <2>3, <3>1 DEF CountExpires
  <2>. QED  BY <1>10, <2>1, <2>2, <2>3 DEF Time
<1>11. ASSUME NEW w \in Sweepers, List(w) \/ SweepDone(w)  PROVE PresenceTypeOK' /\ SweepInv'
  <2>1. sweep' \in [Sweepers -> Sweep] /\ SweepInv'
    BY <1>11, SweepMoves DEF List, Candidates, SweepDone
  <2>. QED  BY <1>11, <2>1 DEF List, SweepDone
<1>12. ASSUME NEW w \in Sweepers, HasReconnectWindow(w)  PROVE PresenceTypeOK' /\ SweepInv'
  <2>1. PICK u \in sweep[w].todo, failed \in BOOLEAN :
          /\ failed => faults < MaxFaults
          /\ faults' = IF failed THEN faults + 1 ELSE faults
          /\ SweepTo(w, [step |-> IF window[u] /\ ~failed THEN "next" ELSE "forfeit",
                         todo |-> sweep[w].todo \ {u},
                         user |-> IF window[u] /\ ~failed THEN None ELSE u])
    BY <1>12 DEF HasReconnectWindow
  <2>2. faults' \in 0..MaxFaults
    BY <2>1, BoundAssumption
  <2>3. u \in Users /\ sweep[w].todo \ {u} \in SUBSET Users
    OBVIOUS
  <2>4. sweep' \in [Sweepers -> Sweep] /\ SweepInv'
    BY <2>1, <2>3, SweepMoves
  <2>. QED  BY <1>12, <2>2, <2>4 DEF HasReconnectWindow
<1>13. ASSUME NEW w \in Sweepers, ForfeitDisconnect(w)  PROVE PresenceTypeOK' /\ SweepInv'
  <2>1. sweep[w].user \in Users
    BY <1>13 DEF ForfeitDisconnect
  <2>2. /\ marker' \in [Users -> {"active", "disconnected", "left"}]
        /\ match' \in {"live", "over"} /\ abandoned' \subseteq Users /\ winner' \in {0, 1, 2}
    BY <1>13, <2>1 DEF ForfeitDisconnect, ApplyForfeit, WinningTeamForForfeit
  <2>3. sweep' \in [Sweepers -> Sweep] /\ SweepInv'
    BY <1>13, <2>1, SweepMoves, SweepRecords DEF ForfeitDisconnect
  <2>. QED  BY <1>13, <2>2, <2>3 DEF ForfeitDisconnect, ApplyForfeit
<1>14. ASSUME NEW w \in Sweepers, ClearPresence(w)  PROVE PresenceTypeOK' /\ SweepInv'
  <2>1. window' \in [Users -> BOOLEAN]
    BY <1>14 DEF ClearPresence
  <2>2. sweep' \in [Sweepers -> Sweep] /\ SweepInv'
    BY <1>14, SweepMoves, SweepRecords DEF ClearPresence
  <2>. QED  BY <1>14, <2>1, <2>2 DEF ClearPresence
<1>15. CASE EndMatch
  BY <1>15 DEF EndMatch
<1>16. CASE RedisLoss
  BY <1>16 DEF RedisLoss, Fault
<1>. QED
  BY <1>1, <1>2, <1>3, <1>4, <1>5, <1>6, <1>7, <1>8, <1>9, <1>10, <1>11, <1>12,
     <1>13, <1>14, <1>15, <1>16 DEF Next, SocketStep, SweepStep

-----------------------------------------------------------------------------
(* One participant at most is ever marked as having abandoned the match.    *)
(* Once it is over, neither a late leave or sweep nor a socket event        *)
(* changes who that is, their marker or the winner.                         *)
LEMMA StepKeepsForfeit ==
    ASSUME PresenceTypeOK, SweepInv, ForfeitInv, [Next]_vars
    PROVE  ForfeitInv'
<1> USE DEF ForfeitInv, OneForfeit
<1>1. CASE UNCHANGED <<marker, match, abandoned, winner>>
  BY <1>1
<1>2. ASSUME NEW u \in Users, NEW from, NEW to, MarkConnectionState(u, from, to)
      PROVE  ForfeitInv'
  BY <1>2 DEF MarkConnectionState, PresenceTypeOK
<1>3. ASSUME NEW u \in Users, ApplyForfeit(u)
      PROVE  ForfeitInv'
  <2>1. CASE match = "over"
    BY <1>3, <2>1 DEF ApplyForfeit
  <2>2. CASE match = "live"
    <3>1. abandoned' = {u} /\ marker'[u] = "left" /\ match' = "over"
      BY <1>3, <2>2 DEF ApplyForfeit, PresenceTypeOK
    <3>2. winner' # TeamOf[u]
      BY <1>3, <2>2, TeamAssumption DEF ApplyForfeit, WinningTeamForForfeit
    <3>. QED  BY <3>1, <3>2
  <2>. QED  BY <2>1, <2>2 DEF PresenceTypeOK
<1>4. CASE EndMatch
  BY <1>4 DEF EndMatch, PresenceTypeOK
<1>5. ASSUME NEW s \in Sockets, Open(s) \/ Close(s) \/ SocketStep(s)
      PROVE  ForfeitInv'
  <2>1. Owner[s] \in Users
    BY OwnerAssumption
  <2>2. CASE Connected(s) \/ Revived(s) \/ Repair(s) \/ MarkDisconnected(s)
    BY <2>1, <2>2, <1>2 DEF Connected, Revived, Repair, MarkConnected, MarkDisconnected
  <2>3. CASE ~(Connected(s) \/ Revived(s) \/ Repair(s) \/ MarkDisconnected(s))
    BY <1>1, <1>5, <2>3 DEF SocketStep, Open, Reacquire, AcquirePresence, Close, Heartbeat,
       ReleasePresence, Recheck
  <2>. QED  BY <2>2, <2>3
<1>6. ASSUME NEW w \in Sweepers, SweepStep(w)
      PROVE  ForfeitInv'
  <2>1. CASE ForfeitDisconnect(w)
    BY <2>1, <1>3 DEF ForfeitDisconnect, SweepInv
  <2>2. CASE ~ForfeitDisconnect(w)
    BY <1>1, <1>6, <2>2 DEF SweepStep, List, HasReconnectWindow, SweepDone, ClearPresence
  <2>. QED  BY <2>1, <2>2
<1>7. ASSUME NEW u \in Users, Leave(u) \/ Time(u)
      PROVE  ForfeitInv'
  BY <1>1, <1>3, <1>7 DEF Leave, Time, WindowExpires, GraceElapses, CountExpires
<1>8. ASSUME \/ \E s \in Sockets : CallFails(s) \/ OpenFails(s)
             \/ \E s \in Sockets, w \in Sweepers : Crash(s, w)
             \/ RedisLoss
             \/ UNCHANGED vars
      PROVE  ForfeitInv'
  BY <1>1, <1>8 DEF CallFails, OpenFails, Crash, RedisLoss, vars
<1>. QED  BY <1>4, <1>5, <1>6, <1>7, <1>8 DEF Next

-----------------------------------------------------------------------------
(* How one socket's move changes the sockets counted for a participant.     *)
LEMMA CountedAfter ==
    ASSUME PresenceTypeOK, NEW s \in Sockets, NEW pc \in PCs, To(s, pc), NEW u \in Users
    PROVE  CountedOf(u)' = IF Owner[s] # u THEN CountedOf(u)
                           ELSE IF pc \in Counted THEN CountedOf(u) \cup {s}
                           ELSE CountedOf(u) \ {s}
BY DEF PresenceTypeOK, To, CountedOf, SocketsOf

(* Cardinality of a participant's counted sockets with one more or one less. *)
LEMMA CountedSizes ==
    ASSUME NEW u, NEW s \in Sockets
    PROVE  /\ Cardinality(CountedOf(u)) \in Nat
           /\ s \notin CountedOf(u) =>
                Cardinality(CountedOf(u) \cup {s}) = Cardinality(CountedOf(u)) + 1
           /\ s \in CountedOf(u) =>
                Cardinality(CountedOf(u) \ {s}) = Cardinality(CountedOf(u)) - 1
<1>1. IsFiniteSet(CountedOf(u))
  BY FiniteAssumption, FS_Subset DEF CountedOf, SocketsOf
<1>. QED  BY <1>1, FS_CardinalityType, FS_AddElement, FS_RemoveElement

(* A step that leaves no disturbance on record caused none.                 *)
LEMMA StepFaults ==
    ASSUME PresenceTypeOK, [Next]_vars, faults' = 0
    PROVE  UNCHANGED faults
<1>1. SUFFICES ASSUME ~ UNCHANGED faults  PROVE FALSE
  OBVIOUS
<1>2. CASE \/ \E s \in Sockets : CallFails(s) \/ OpenFails(s)
           \/ \E s \in Sockets, w \in Sweepers : Crash(s, w)
           \/ RedisLoss
  <2>1. faults' = faults + 1
    BY <1>2 DEF CallFails, OpenFails, Crash, RedisLoss, Fault
  <2>. QED  BY <2>1, BoundAssumption DEF PresenceTypeOK
<1>3. CASE \E w \in Sweepers : SweepStep(w)
  <2>1. faults' = faults + 1
    BY <1>1, <1>3 DEF SweepStep, List, HasReconnectWindow, SweepDone, ForfeitDisconnect, ClearPresence
  <2>. QED  BY <2>1, BoundAssumption DEF PresenceTypeOK
<1>4. CASE \E s \in Sockets : Open(s) \/ Close(s) \/ SocketStep(s)
  BY <1>1, <1>4 DEF SocketStep, Open, Close, Connected, Heartbeat, Reacquire, Revived,
     ReleasePresence, MarkDisconnected, Recheck, Repair, AcquirePresence, MarkConnected
<1>5. CASE \/ \E u \in Users : Leave(u) \/ Time(u)
           \/ EndMatch
           \/ UNCHANGED vars
  BY <1>1, <1>5 DEF Leave, Time, WindowExpires, GraceElapses, CountExpires, EndMatch, vars
<1>. QED  BY <1>2, <1>3, <1>4, <1>5 DEF Next

(* While nothing has failed, every step keeps the count exact, and no       *)
(* heartbeat finds it lost: an open socket is among the counted ones.       *)
LEMMA StepKeepsCount ==
    ASSUME PresenceTypeOK, PresenceTypeOK', CountInv, [Next]_vars
    PROVE  CountInv'
<1> USE DEF CountInv
<1>1. SUFFICES ASSUME faults' = 0
               PROVE  /\ \A u \in Users : count'[u] = Cardinality(CountedOf(u)')
                      /\ \A s \in Sockets : socket'[s] \notin {"reacquire", "reviving"}
  BY DEF CountExact, NoRevival
<1>2. UNCHANGED faults
  BY <1>1, StepFaults DEF PresenceTypeOK
<1>3. /\ faults = 0
      /\ \A u \in Users : count[u] = Cardinality(CountedOf(u))
      /\ \A s \in Sockets : socket[s] \notin {"reacquire", "reviving"}
  BY <1>1, <1>2 DEF CountExact, NoRevival
<1> DEFINE Goal == /\ \A u \in Users : count'[u] = Cardinality(CountedOf(u)')
                   /\ \A s \in Sockets : socket'[s] \notin {"reacquire", "reviving"}
<1>4. CASE UNCHANGED <<count, socket>>
  BY <1>3, <1>4 DEF CountedOf, SocketsOf
<1>5. ASSUME NEW s \in Sockets, Open(s)  PROVE Goal
  <2>1. Owner[s] \in Users /\ s \notin CountedOf(Owner[s])
    BY <1>5, OwnerAssumption DEF Open, CountedOf, Counted
  <2>2. PICK pc \in {"marking", "open"} : To(s, pc)
    BY <1>5 DEF Open, AcquirePresence
  <2>3. count' = [count EXCEPT ![Owner[s]] = @ + 1]
    BY <1>5 DEF Open, AcquirePresence
  <2>4. \A u \in Users : CountedOf(u)' = IF Owner[s] # u THEN CountedOf(u) ELSE CountedOf(u) \cup {s}
    BY <2>2, CountedAfter DEF Counted
  <2>5. \A u \in Users : count'[u] = Cardinality(CountedOf(u)')
    BY <1>3, <2>1, <2>3, <2>4, CountedSizes DEF PresenceTypeOK
  <2>. QED  BY <1>3, <2>2, <2>5 DEF To, PresenceTypeOK
<1>6. ASSUME NEW s \in Sockets, Connected(s) \/ Close(s) \/ MarkDisconnected(s) \/ Recheck(s) \/ Repair(s)
      PROVE  Goal
  <2>1. PICK pc \in PCs : To(s, pc) /\ (pc \in Counted <=> socket[s] \in Counted)
                         /\ pc \notin {"reacquire", "reviving"}
    BY <1>6 DEF Connected, Close, MarkDisconnected, Recheck, Repair, MarkConnected, Counted, Up
  <2>2. \A u \in Users : CountedOf(u)' = CountedOf(u)
    BY <2>1, CountedAfter DEF CountedOf, SocketsOf
  <2>3. UNCHANGED count
    BY <1>6 DEF Connected, Close, MarkDisconnected, Recheck, Repair, MarkConnected
  <2>. QED  BY <1>3, <2>1, <2>2, <2>3 DEF To, PresenceTypeOK
<1>7. ASSUME NEW s \in Sockets, Heartbeat(s) \/ Reacquire(s) \/ Revived(s)  PROVE FALSE
  <2>1. Heartbeat(s)
    BY <1>3, <1>7 DEF Reacquire, Revived
  <2>2. Owner[s] \in Users /\ s \in CountedOf(Owner[s]) /\ Cardinality(CountedOf(Owner[s])) = 0
    BY <1>3, <2>1, OwnerAssumption DEF Heartbeat, CountedOf, SocketsOf, Counted
  <2>3. IsFiniteSet(CountedOf(Owner[s]))
    BY FiniteAssumption, FS_Subset DEF CountedOf, SocketsOf
  <2>. QED  BY <2>2, <2>3, FS_EmptySet
<1>8. ASSUME NEW s \in Sockets, ReleasePresence(s)  PROVE Goal
  <2>1. Owner[s] \in Users /\ s \in CountedOf(Owner[s])
    BY <1>8, OwnerAssumption DEF ReleasePresence, CountedOf, SocketsOf, Counted
  <2>2. count[Owner[s]] # 0
    <3>1. IsFiniteSet(CountedOf(Owner[s]))
      BY FiniteAssumption, FS_Subset DEF CountedOf, SocketsOf
    <3>. QED  BY <1>3, <2>1, <3>1, FS_EmptySet
  <2>3. count' = [count EXCEPT ![Owner[s]] = @ - 1]
    BY <1>8, <2>2 DEF ReleasePresence
  <2>4. PICK pc \in {"parting", "closed"} : To(s, pc)
    BY <1>8 DEF ReleasePresence
  <2>5. \A u \in Users : CountedOf(u)' = IF Owner[s] # u THEN CountedOf(u) ELSE CountedOf(u) \ {s}
    BY <2>4, CountedAfter DEF Counted
  <2>6. \A u \in Users : count'[u] = Cardinality(CountedOf(u)')
    BY <1>3, <2>1, <2>3, <2>5, CountedSizes DEF PresenceTypeOK
  <2>. QED  BY <1>3, <2>4, <2>6 DEF To, PresenceTypeOK
<1>9. ASSUME NEW u \in Users, CountExpires(u)  PROVE FALSE
  <2>1. count[u] > 0 /\ count[u] = Cardinality({})
    BY <1>3, <1>9 DEF CountExpires
  <2>. QED  BY <2>1, FS_EmptySet
<1>10. ASSUME NEW u \in Users, Leave(u) \/ WindowExpires(u) \/ GraceElapses(u)  PROVE Goal
  BY <1>4, <1>10 DEF Leave, WindowExpires, GraceElapses
<1>11. ASSUME NEW w \in Sweepers, SweepStep(w)  PROVE Goal
  BY <1>4, <1>11 DEF SweepStep, List, HasReconnectWindow, SweepDone, ForfeitDisconnect, ClearPresence
<1>12. ASSUME \/ \E s \in Sockets : CallFails(s) \/ OpenFails(s)
              \/ \E s \in Sockets, w \in Sweepers : Crash(s, w)
              \/ RedisLoss
       PROVE  FALSE
  <2>1. faults' = faults + 1
    BY <1>12 DEF CallFails, OpenFails, Crash, RedisLoss, Fault
  <2>. QED  BY <1>1, <1>3, <2>1
<1>13. CASE EndMatch \/ UNCHANGED vars
  BY <1>4, <1>13 DEF EndMatch, vars
<1>. QED
  BY <1>5, <1>6, <1>7, <1>8, <1>9, <1>10, <1>11, <1>12, <1>13 DEF Next, SocketStep, Time

-----------------------------------------------------------------------------
(* While nothing has failed, every step of a handler that others rely on    *)
(* for the marker leaves another one behind, or the marker repaired, or the *)
(* participant without a socket.                                            *)
LEMMA StepKeepsMarker ==
    ASSUME PresenceTypeOK, PresenceTypeOK', CountInv, CountInv', ForfeitInv,
           MarkerGetsRepaired, [Next]_vars
    PROVE  MarkerGetsRepaired'
<1>1. SUFFICES ASSUME faults' = 0, match' = "live", NEW u \in Users,
                      marker'[u] = "disconnected", count'[u] > 0
               PROVE  Repairing(u)'
  BY DEF MarkerGetsRepaired
<1> DEFINE Busy == {"marking", "reviving", "recheck", "repairing"}
<1>2. ASSUME NEW s \in SocketsOf(u), socket'[s] \in Busy  PROVE Repairing(u)'
  BY <1>2 DEF Repairing, SocketsOf
<1>3. faults = 0 /\ match = "live"
  <2>1. match = "live"
    BY <1>1 DEF Next, vars, SocketStep, SweepStep, Time, Open, Close, Connected, Heartbeat,
       Reacquire, Revived, ReleasePresence, MarkDisconnected, Recheck, Repair, AcquirePresence,
       MarkConnected, MarkConnectionState, CallFails, OpenFails, Crash, RedisLoss, Leave,
       ApplyForfeit, WindowExpires, GraceElapses, CountExpires, List, HasReconnectWindow,
       SweepDone, ForfeitDisconnect, ClearPresence, EndMatch, PresenceTypeOK
  <2>. QED  BY <2>1, <1>1, StepFaults
<1>4. ASSUME marker[u] = "disconnected", count[u] > 0
      PROVE  \E t \in SocketsOf(u) : socket[t] \in Busy
  BY <1>3, <1>4 DEF MarkerGetsRepaired, Repairing
<1>5. CASE UNCHANGED <<marker, count, socket>>
  BY <1>1, <1>2, <1>4, <1>5
<1>6. ASSUME NEW s \in Sockets, Open(s)  PROVE Repairing(u)'
  <2>1. UNCHANGED marker /\ count' = [count EXCEPT ![Owner[s]] = @ + 1]
    BY <1>6 DEF Open, AcquirePresence
  <2>2. To(s, IF count[Owner[s]] = 0 THEN "marking" ELSE "open") /\ socket[s] = "closed"
    BY <1>6 DEF Open, AcquirePresence
  <2>3. CASE count[u] > 0
    <3>1. PICK t \in SocketsOf(u) : socket[t] \in Busy
      BY <1>1, <1>4, <2>1, <2>3
    <3>. QED  BY <1>2, <2>2, <3>1 DEF To, PresenceTypeOK, SocketsOf
  <2>4. CASE count[u] = 0
    <3>1. Owner[s] = u
      BY <1>1, <2>1, <2>4, OwnerAssumption DEF PresenceTypeOK
    <3>. QED  BY <1>2, <2>2, <2>4, <3>1 DEF To, PresenceTypeOK, SocketsOf
  <2>. QED  BY <2>3, <2>4 DEF PresenceTypeOK
<1>7. ASSUME NEW s \in Sockets, NEW next, MarkConnected(s, next)  PROVE Repairing(u)'
  <2>1. To(s, next) /\ UNCHANGED count /\ Owner[s] \in Users
    BY <1>7, OwnerAssumption DEF MarkConnected
  <2>2. marker' = IF marker[Owner[s]] = "disconnected"
                  THEN [marker EXCEPT ![Owner[s]] = "active"] ELSE marker
    BY <1>3, <1>7 DEF MarkConnected, MarkConnectionState, ForfeitInv
  <2>3. Owner[s] # u /\ marker[u] = "disconnected"
    BY <1>1, <2>1, <2>2 DEF PresenceTypeOK
  <2>4. PICK t \in SocketsOf(u) : socket[t] \in Busy
    BY <1>1, <1>4, <2>1, <2>3
  <2>. QED  BY <1>2, <2>1, <2>3, <2>4 DEF To, PresenceTypeOK, SocketsOf
<1>8. ASSUME NEW s \in Sockets, Close(s) \/ ReleasePresence(s)  PROVE Repairing(u)'
  <2>1. socket[s] \notin Busy
    BY <1>3, <1>8 DEF Close, ReleasePresence, Up, CountInv, NoRevival
  <2>2. UNCHANGED marker /\ count[u] > 0
    <3>1. CASE Close(s)
      BY <1>1, <3>1 DEF Close
    <3>2. CASE ReleasePresence(s)
      BY <1>1, <3>2, OwnerAssumption DEF ReleasePresence, PresenceTypeOK
    <3>. QED  BY <1>8, <3>1, <3>2
  <2>3. PICK t \in SocketsOf(u) : socket[t] \in Busy
    BY <1>1, <1>4, <2>2
  <2>4. PICK pc \in PCs : To(s, pc)
    BY <1>8 DEF Close, ReleasePresence
  <2>. QED  BY <1>2, <2>1, <2>3, <2>4 DEF To, PresenceTypeOK, SocketsOf
<1>9. ASSUME NEW s \in Sockets, MarkDisconnected(s)  PROVE Repairing(u)'
  <2>1. socket[s] = "parting" /\ To(s, "recheck") /\ UNCHANGED count
    BY <1>9 DEF MarkDisconnected
  <2>2. CASE Owner[s] = u
    BY <1>2, <2>1, <2>2 DEF To, PresenceTypeOK, SocketsOf
  <2>3. CASE Owner[s] # u
    <3>1. marker'[u] = marker[u]
      BY <1>9, <2>3 DEF MarkDisconnected, MarkConnectionState, PresenceTypeOK
    <3>2. PICK t \in SocketsOf(u) : socket[t] \in Busy
      BY <1>1, <1>4, <2>1, <3>1
    <3>. QED  BY <1>2, <2>1, <3>2 DEF To, PresenceTypeOK, SocketsOf
  <2>. QED  BY <2>2, <2>3
<1>10. ASSUME NEW s \in Sockets, Recheck(s)  PROVE Repairing(u)'
  <2>1. /\ To(s, IF count[Owner[s]] = 0 THEN "closed" ELSE "repairing")
        /\ UNCHANGED <<marker, count>>
    BY <1>10 DEF Recheck
  <2>2. PICK t \in SocketsOf(u) : socket[t] \in Busy
    BY <1>1, <1>4, <2>1
  <2>. QED  BY <1>1, <1>2, <2>1, <2>2 DEF To, PresenceTypeOK, SocketsOf
<1>11. ASSUME NEW s \in Sockets, Heartbeat(s) \/ Reacquire(s)  PROVE FALSE
  <2>1. socket'[s] = "reacquire" \/ socket[s] = "reacquire"
    BY <1>11 DEF Heartbeat, Reacquire, To, PresenceTypeOK
  <2>. QED  BY <1>1, <1>3, <2>1 DEF CountInv, NoRevival
<1>12. ASSUME NEW v \in Users, Leave(v)  PROVE FALSE
  BY <1>1, <1>3, <1>12 DEF Leave, ApplyForfeit
<1>13. ASSUME NEW v \in Users, Time(v)  PROVE Repairing(u)'
  <2>1. CASE CountExpires(v)
    <3>1. UNCHANGED <<marker, socket>> /\ count[u] > 0
      BY <1>1, <2>1 DEF CountExpires, PresenceTypeOK
    <3>. QED  BY <1>1, <1>2, <1>4, <3>1
  <2>2. CASE WindowExpires(v) \/ GraceElapses(v)
    BY <1>5, <2>2 DEF WindowExpires, GraceElapses
  <2>. QED  BY <1>13, <2>1, <2>2 DEF Time
<1>14. ASSUME NEW w \in Sweepers, SweepStep(w)  PROVE Repairing(u)'
  <2>1. CASE ForfeitDisconnect(w)
    BY <1>1, <1>3, <2>1 DEF ForfeitDisconnect, ApplyForfeit
  <2>2. CASE ~ForfeitDisconnect(w)
    BY <1>5, <1>14, <2>2 DEF SweepStep, List, HasReconnectWindow, SweepDone, ClearPresence
  <2>. QED  BY <2>1, <2>2
<1>15. CASE EndMatch \/ UNCHANGED vars
  BY <1>1, <1>3, <1>5, <1>15 DEF EndMatch, vars
<1>16. ~ \/ \E s \in Sockets : CallFails(s) \/ OpenFails(s)
         \/ \E s \in Sockets, w \in Sweepers : Crash(s, w)
         \/ RedisLoss
  BY <1>1, <1>3 DEF CallFails, OpenFails, Crash, RedisLoss, Fault
<1>. QED
  BY <1>6, <1>7, <1>8, <1>9, <1>10, <1>11, <1>12, <1>13, <1>14, <1>15, <1>16
  DEF Next, SocketStep, Connected, Revived, Repair

-----------------------------------------------------------------------------
(* The inductive invariant.                                                 *)
THEOREM PresenceInvariant == Spec => []PInv
<1>1. Init => PInv
  <2> SUFFICES ASSUME Init PROVE PInv
    OBVIOUS
  <2>1. PresenceTypeOK /\ SweepInv /\ ForfeitInv /\ NoRevival /\ MarkerGetsRepaired
    BY BoundAssumption DEF Init, PresenceTypeOK, SweepInv, ForfeitInv, OneForfeit, NoRevival,
       MarkerGetsRepaired
  <2>2. \A u \in Users : CountedOf(u) = {}
    BY DEF Init, CountedOf, SocketsOf, Counted
  <2>3. CountExact
    BY <2>2, FS_EmptySet DEF Init, CountExact
  <2>. QED  BY <2>1, <2>3 DEF PInv, CountInv
<1>2. PInv /\ [Next]_vars => PInv'
  BY StepKeepsTypes, StepKeepsForfeit, StepKeepsCount, StepKeepsMarker DEF PInv
<1>. QED  BY <1>1, <1>2, PTL DEF Spec

(* The variables keep their types for any number of connections, sweepers   *)
(* and disturbances; counts never turn negative.                            *)
THEOREM PresenceTypeCorrect == Spec => []PresenceTypeOK
<1>1. PInv => PresenceTypeOK
  BY DEF PInv
<1>. QED  BY <1>1, PresenceInvariant, PTL

(* While nothing fails, a participant's global socket count is the number   *)
(* of their counted sockets.                                                *)
THEOREM CountIsExact == Spec => []CountExact
<1>1. PInv => CountExact
  BY DEF PInv, CountInv
<1>. QED  BY <1>1, PresenceInvariant, PTL

(* While nothing fails, a connected participant whom the database calls     *)
(* disconnected always has a handler under way that will look again.        *)
THEOREM MarkerIsRepaired == Spec => []MarkerGetsRepaired
<1>1. PInv => MarkerGetsRepaired
  BY DEF PInv
<1>. QED  BY <1>1, PresenceInvariant, PTL

(* However leaves, sweeps and socket events interleave, crash or are lost,  *)
(* a match is forfeited by one participant at most, to the other team.      *)
THEOREM ForfeitedOnce == Spec => []OneForfeit
<1>1. PInv => OneForfeit
  BY DEF PInv, ForfeitInv
<1>. QED  BY <1>1, PresenceInvariant, PTL
=============================================================================
