----------------------------- MODULE HostedRoom -----------------------------
(***************************************************************************)
(* A private room, its members and its party lobby game: rooms/service.go  *)
(* and rooms/repository.go on one side, the game transactions of           *)
(* games/repository.go with the hosted room's hooks on the other.          *)
(*                                                                         *)
(* Services read the room and its members without locks and then run one   *)
(* transaction.  Transactions of the room lock its row and then the game   *)
(* (settings; a join, whose new row references the game); transactions of  *)
(* the game lock it and then update the room (start, last round).  Each    *)
(* call is a request or worker between two statements that can wait or     *)
(* read what others change; its writes appear at the end.                  *)
(***************************************************************************)
EXTENDS GameRounds

CONSTANTS
    Host,           \* the player who made the room
    Calls,          \* requests and workers in progress at one time
    Capacities,     \* values of max_players
    MaxRoomFaults   \* bound: publications lost with their process

ASSUME HostAssumption == Host \in Players
ASSUME CapacitiesAssumption == Capacities \subseteq Nat \ {0}
ASSUME RoomFaultsAssumption == MaxRoomFaults \in Nat
ASSUME GuessAssumption == MaxScore > 0  \* a guess in the room's game scores 1

VARIABLES
    room,       \* rooms: status and max_players
    member,     \* room_players by player: "none", "joined", "kicked"
    lobby,      \* the game's rows (GameRounds)
    call,       \* the calls in progress
    roomFaults  \* publications lost so far

roomVars == <<room, member, lobby, call, roomFaults>>

RoomCall == [pc : {"idle", "room", "game", "finish", "publish"},
             op : {"none", "join", "kick", "settings", "start", "guess", "close", "poll"},
             who : Players \cup {"nobody"}, arg : Nat, holds : SUBSET {"room", "game"}]

NoRoomCall == [pc |-> "idle", op |-> "none", who |-> "nobody", arg |-> 0, holds |-> {}]

RoomTypeOK ==
    /\ room \in [status : {"lobby", "active", "completed"}, max : Capacities]
    /\ member \in [Players -> {"none", "joined", "kicked"}]
    /\ lobby \in Games
    /\ call \in [Calls -> RoomCall]
    /\ roomFaults \in 0..MaxRoomFaults

(* CreateRoomBundle: the room, its pending game, and the host in both.      *)
RoomInit ==
    /\ room \in [status : {"lobby"}, max : Capacities]
    /\ member = [p \in Players |-> IF p = Host THEN "joined" ELSE "none"]
    /\ lobby = [NewGame({Host}, "open") EXCEPT
                    !.status = "pending", !.round = [r \in 1..Rounds |-> "pending"]]
    /\ call = [c \in Calls |-> NoRoomCall]
    /\ roomFaults = 0

Members == {p \in Players : member[p] = "joined"}

CallAt(c, pc) == call[c].pc = pc
SetCall(c, r) == call' = [call EXCEPT ![c] = r]
EndCall(c)    == SetCall(c, NoRoomCall)
RowFree(c, row) == \A d \in Calls \ {c} : row \notin call[d].holds
Hold(c, row, pc) == SetCall(c, [call[c] EXCEPT !.pc = pc, !.holds = @ \cup {row}])

-----------------------------------------------------------------------------
(* Requests, by what they read before their transaction.                    *)

StartCall(c, pc, op, p, n) ==
    /\ CallAt(c, "idle")
    /\ SetCall(c, [NoRoomCall EXCEPT !.pc = pc, !.op = op, !.who = p, !.arg = n])
    /\ UNCHANGED <<room, member, lobby, roomFaults>>

(* JoinRoom: the room's status is looked at here and never again.           *)
RequestJoin(c, p) == room.status = "lobby" /\ StartCall(c, "room", "join", p, 0)

(* RemovePlayer, by the host, of a participant of any status.               *)
RequestKick(c, p) ==
    p # Host /\ member[p] # "none" /\ StartCall(c, "room", "kick", p, 0)

(* validateSettingsUpdate: not below the members counted now.               *)
RequestSettings(c, n) ==
    /\ room.status = "lobby" /\ n >= Cardinality(Members)
    /\ StartCall(c, "room", "settings", Host, n)

(* StartRoom: at least two members, counted now.                            *)
RequestStart(c) ==
    /\ room.status = "lobby" /\ Cardinality(Members) >= 2
    /\ StartCall(c, "game", "start", Host, 0)

(* submitPrivateRoomGuess: a player of the game, kicked from the room or    *)
(* not, guesses in the current round.                                       *)
RequestGuess(c, p) ==
    LET r == CurrentRound(lobby) IN
    /\ lobby.status = "active" /\ lobby.player[p] # "absent" /\ lobby.phase = "open"
    /\ p \notin Submitted(lobby, r)
    /\ StartCall(c, "game", "guess", p, r)

(* The deadline worker or a room poll (op close) or GetCurrentRound (poll), *)
(* which passes the matchmade hooks whatever the game's mode.               *)
RequestClose(c, op) ==
    /\ lobby.status = "active" /\ lobby.phase = "due"
    /\ StartCall(c, "game", op, "nobody", 0)

-----------------------------------------------------------------------------
(* Bug variant: a removed player may come back like one who left.           *)
JoinRefused_Forgiving(p) == member[p] = "none" /\ Cardinality(Members) >= room.max

(* The checks of JoinRoom under the room's lock.                            *)
JoinRefused(p) ==
    \/ member[p] = "kicked"
    \/ member[p] = "none" /\ Cardinality(Members) >= room.max

(* Room transactions: the first lock, and all that needs no second one.     *)
LockRoom(c) ==
    LET r == call[c] IN
    /\ CallAt(c, "room") /\ RowFree(c, "room")
    /\ CASE r.op = "join" /\ (JoinRefused(r.who) \/ member[r.who] = "joined") ->
                EndCall(c) /\ UNCHANGED member
         [] r.op = "join" /\ ~JoinRefused(r.who) /\ member[r.who] # "joined" ->
                Hold(c, "room", "finish") /\ UNCHANGED member
         [] r.op = "kick" ->
                member' = [member EXCEPT ![r.who] = "kicked"] /\ EndCall(c)
         [] r.op = "settings" ->
                /\ IF room.status = "lobby" THEN Hold(c, "room", "finish") ELSE EndCall(c)
                /\ UNCHANGED member
    /\ UNCHANGED <<room, lobby, roomFaults>>

(* JoinRoom: the new rows of game_players and room_players.                 *)
FinishJoin(c) ==
    LET p == call[c].who IN
    /\ CallAt(c, "finish") /\ call[c].op = "join" /\ RowFree(c, "game")
    /\ member' = [member EXCEPT ![p] = "joined"]
    /\ lobby' = [lobby EXCEPT !.player[p] = "active"]
    /\ EndCall(c)
    /\ UNCHANGED <<room, roomFaults>>

(* UpdateSettings: the room's row and, for the map and the timer, the game's*)
FinishSettings(c) ==
    /\ CallAt(c, "finish") /\ call[c].op = "settings" /\ RowFree(c, "game")
    /\ room' = [room EXCEPT !.max = call[c].arg]
    /\ EndCall(c)
    /\ UNCHANGED <<member, lobby, roomFaults>>

-----------------------------------------------------------------------------
(* StartPrivateRoomGame: rounds, the first one active.                      *)
StartedGame == [lobby EXCEPT !.status = "active", !.round[1] = "active"]

(* The game's rows after a guess or a deadline (MatchGame!PlayedGame with   *)
(* nobody's status changing).                                               *)
LobbyAfter(r) ==
    LET n == CurrentRound(lobby)
        own == IF r.op = "guess" THEN InsertGuess(lobby, n, r.who, 1) ELSE lobby
    IN IF r.op = "guess" /\ ~AllSubmitted(own, n) THEN own
       ELSE CompleteRound(ZeroFill(own, n, Missing(own, n)), n)

(* The checks under the game's lock.                                        *)
GameRefused(r) ==
    CASE r.op = "start" -> lobby.status # "pending"
      [] r.op = "guess" ->
            lobby.status # "active" \/ lobby.round[r.arg] # "active" \/ r.who \in Submitted(lobby, r.arg)
      [] OTHER -> lobby.status # "active" \/ lobby.phase # "due"

(* The outcome to publish: what the transaction made of the game (arg),     *)
(* whatever comes of the game before it is published.                       *)
GameOver == 1
Announce(c) == SetCall(c, [NoRoomCall EXCEPT !.pc = "publish", !.op = call[c].op,
                             !.arg = IF lobby'.status = "completed" THEN GameOver ELSE 0])

(* Game transactions: the game's lock; a start and a last round go on to    *)
(* the room, unless the caller's hooks leave the room out.                  *)
LockLobby(c) ==
    LET r == call[c] IN
    /\ CallAt(c, "game") /\ RowFree(c, "game")
    /\ IF GameRefused(r) THEN EndCall(c) /\ UNCHANGED lobby
       ELSE IF r.op = "start" \/ (r.op # "poll" /\ LobbyAfter(r).status = "completed")
       THEN Hold(c, "game", "finish") /\ UNCHANGED lobby
       ELSE /\ lobby' = LobbyAfter(r)
            /\ IF lobby'.round = lobby.round THEN EndCall(c) ELSE Announce(c)
    /\ UNCHANGED <<room, member, roomFaults>>

(* ApplyRoomStartedInTx fails unless it moved the room out of the lobby.    *)
RoomStarted == room.status = "lobby"

FinishStart(c) ==
    /\ CallAt(c, "finish") /\ call[c].op = "start" /\ RowFree(c, "room")
    /\ IF RoomStarted
       THEN room' = [room EXCEPT !.status = "active"] /\ lobby' = StartedGame
       ELSE UNCHANGED <<room, lobby>>
    /\ EndCall(c)
    /\ UNCHANGED <<member, roomFaults>>

(* Bug variant: the room is completed by the publication only.              *)
RoomCompleted_Later == room

(* ApplyRoomCompletedInTx.                                                  *)
RoomCompleted == [room EXCEPT !.status = "completed"]

FinishGame(c) ==
    /\ CallAt(c, "finish") /\ call[c].op \in {"guess", "close"} /\ RowFree(c, "room")
    /\ lobby' = LobbyAfter(call[c])
    /\ room' = RoomCompleted
    /\ Announce(c)
    /\ UNCHANGED <<member, roomFaults>>

(* PublishMultiplayerOutcome after the commit: ApplyGameOutcome, events.    *)
PublishOutcome(c) ==
    /\ CallAt(c, "publish") /\ RowFree(c, "room")
    /\ room' = IF call[c].arg = GameOver THEN [room EXCEPT !.status = "completed"] ELSE room
    /\ EndCall(c)
    /\ UNCHANGED <<member, lobby, roomFaults>>

(* The process dies, or the publication fails, which is only logged.        *)
LoseOutcome(c) ==
    /\ CallAt(c, "publish") /\ roomFaults < MaxRoomFaults
    /\ roomFaults' = roomFaults + 1
    /\ EndCall(c)
    /\ UNCHANGED <<room, member, lobby>>

LobbyRoundDue ==
    /\ lobby.status = "active" /\ lobby.phase = "open"
    /\ lobby' = [lobby EXCEPT !.phase = "due"]
    /\ UNCHANGED <<room, member, call, roomFaults>>

(* A room transaction that waits for the game and a game transaction that   *)
(* waits for the room: PostgreSQL aborts one.                               *)
BreakRoomDeadlock(c) ==
    /\ CallAt(c, "finish")
    /\ \E d \in Calls : CallAt(d, "finish") /\ call[c].holds \cup call[d].holds = {"room", "game"}
    /\ EndCall(c)
    /\ UNCHANGED <<room, member, lobby, roomFaults>>

RoomNext ==
    \E c \in Calls :
        \/ \E p \in Players : RequestJoin(c, p) \/ RequestKick(c, p) \/ RequestGuess(c, p)
        \/ \E n \in Capacities : RequestSettings(c, n)
        \/ RequestStart(c)
        \/ \E op \in {"close", "poll"} : RequestClose(c, op)
        \/ LockRoom(c) \/ FinishJoin(c) \/ FinishSettings(c)
        \/ LockLobby(c) \/ FinishStart(c) \/ FinishGame(c)
        \/ PublishOutcome(c) \/ LoseOutcome(c)
        \/ BreakRoomDeadlock(c)
        \/ LobbyRoundDue

RoomSpec == RoomInit /\ [][RoomNext]_roomVars

-----------------------------------------------------------------------------
(* Correctness.                                                             *)

(* The room is ahead of its game never, and behind it only where a poll     *)
(* closed the last round: then that publication is still to come, or was    *)
(* lost (service.go:384, repository.go:254).                                *)
RoomFollowsGame ==
    /\ room.status = "lobby" <=> lobby.status = "pending"
    /\ room.status = "completed" => lobby.status = "completed"
    /\ lobby.status = "completed" =>
          \/ room.status = "completed"
          \/ roomFaults > 0
          \/ \E c \in Calls : CallAt(c, "publish") /\ call[c].op = "poll" /\ call[c].arg = GameOver

(* Membership under races of joins, removals and settings: nobody removed   *)
(* comes back, nobody joins a room that is full at that moment, and who is  *)
(* in the room plays in its game (repository.go:60).                        *)
MembershipKept ==
    [][/\ \A p \in Players : member[p] = "kicked" => member'[p] = "kicked"
       /\ \A p \in Members' \ Members :
            Cardinality(Members') <= room.max /\ lobby'.player[p] = "active"]_roomVars

(* "Durable room completion commits with the final Party Lobby round and    *)
(* game." (rooms/repository.go:257)                                         *)
RoomCompletesWithGame == lobby.status = "completed" => room.status = "completed"
=============================================================================
