---------------------------- MODULE MatchChannel ----------------------------
(***************************************************************************)
(* The live channel of one match, during one round: one-time tickets,      *)
(* sockets spread over API instances, the hub of each instance with a      *)
(* bounded queue per socket, the Redis Pub/Sub subscription the instance's *)
(* sockets share, and the two kinds of publisher: services that announce   *)
(* what they committed, and the marker, view and spectate commands a       *)
(* socket sends.                                                           *)
(*                                                                         *)
(* An event is taken from its counter in one step and published in a later *)
(* one.  Redis carries it to every instance that listens; the instance     *)
(* drops an event id it has seen and offers the event to the queues of the *)
(* audience.  SUBSCRIBE and UNSUBSCRIBE are only written by the instance:  *)
(* Redis takes them later, and the connection may break in between.        *)
(* Presence counts are the subject of Presence.                            *)
(***************************************************************************)
EXTENDS Naturals, Sequences, SequencesExt, FiniteSets

CONSTANTS Participants, TeamOf,          \* the players and the team slot of each
          Sockets, UserOf,        \* the connections and who opens each
          Instances, InstanceOf,  \* the API instances and where each connects
          Commands,               \* command ids
          QueueSize,              \* events a socket's queue holds
          MaxEvents,              \* bound: events of the run
          PubFaults,              \* subset of {"retried", "refused", "unknown"}
          SubFaults               \* a SUBSCRIBE, a snapshot may fail

ASSUME ChannelAssumption ==
    /\ UserOf \in [Sockets -> Participants] /\ InstanceOf \in [Sockets -> Instances]
    /\ IsFiniteSet(Sockets) /\ QueueSize \in Nat /\ MaxEvents \in Nat
    /\ SubFaults \in BOOLEAN

VARIABLES phase,      \* phase[s]: how far the connection has come
          shut,       \* sockets the hub has closed as slow consumers
          queue,      \* queue[s]: events waiting for the write pump
          got,        \* got[s]: events written to the client
          past,       \* history: events published before a served s took its snapshot
          refs,       \* refs[i]: the refcount of the channel on i
          asked,      \* instances whose SUBSCRIBE Redis has yet to take
          listening,  \* instances Redis has subscribed
          steady,     \* history: served sockets listened for since their snapshot
          wire,       \* wire[i]: messages on the way from Redis to i
          seen,       \* seen[i]: event ids i has dispatched
          events,     \* the events drawn so far, in order
          command,    \* command[s]: the command the read pump is handling
          acks,       \* <<user, command id>> with a stored acknowledgement
          guessed,    \* players whose guess of the round is stored
          locked,     \* the round's locked set in Redis
          marker      \* marker[u]: the event that set u's proposed marker

socketVars == <<phase, shut, queue, got, past>>
subVars == <<refs, asked, listening, steady>>
pubsubVars == <<subVars, wire, seen>>
roundVars == <<guessed, locked, marker>>
channelVars == <<socketVars, pubsubVars, events, command, acks, roundVars>>

Idle == [step |-> "idle", kind |-> "none", id |-> "none", event |-> 0]

(* Connections a hub serves: subscribed, and not dropped as slow. *)
InHub == {s \in Sockets : phase[s] \in {"joined", "wired", "live", "unwired"}} \ shut

(* A participant is marked disconnected when the last socket has left. *)
Offline == {u \in Participants :
              /\ \E s \in Sockets : UserOf[s] = u /\ phase[s] = "gone"
              /\ \A s \in Sockets : UserOf[s] = u => phase[s] \in {"away", "ticketed", "gone"}}

-----------------------------------------------------------------------------
(* Events.  live events draw their version from the match's live counter,  *)
(* service events from the channel's: the version is the event's rank      *)
(* among the events of its counter.                                        *)

Counter(e) == IF events[e].kind = "service" THEN "channel" ELSE "live"
Version(e) == Cardinality({f \in 1 .. e : Counter(f) = Counter(e)})

Draw(kind, source, instance, audience) ==
    /\ Len(events) < MaxEvents
    /\ events' = Append(events, [kind |-> kind, source |-> source, at |-> instance,
                                 audience |-> audience, status |-> "drawn"])

Published == {e \in DOMAIN events : events[e].status = "redis"}

(* HubChannelPublisher and Hub.publishFiltered: offer e to the queues of   *)
(* its audience on i; a full queue closes its socket instead.              *)
Addressed(i, e) == {s \in InHub : InstanceOf[s] = i /\ UserOf[s] \in events[e].audience}
Full(s) == Len(queue[s]) >= QueueSize

Offer(i, e) ==
    /\ queue' = [s \in Sockets |-> IF s \in Addressed(i, e) /\ ~ Full(s)
                                     THEN Append(queue[s], e) ELSE queue[s]]
    /\ shut' = shut \cup {s \in Addressed(i, e) : Full(s)}
    /\ UNCHANGED <<phase, got, past>>

Carry(copies, e) ==
    wire' = [i \in Instances |-> IF i \in listening
                                   THEN wire[i] \o [k \in 1 .. copies |-> e] ELSE wire[i]]

(* FanoutPublisher.Publish.  The Redis client repeats a PUBLISH whose      *)
(* connection broke; one that ends in an error falls back to the local     *)
(* hub, whether or not Redis carried it.                                   *)
Mark(e, status) == events' = [events EXCEPT ![e].status = status]

PublishEvent(e) ==
    \/ Carry(1, e) /\ Mark(e, "redis") /\ UNCHANGED <<socketVars, subVars, seen>>
    \/ /\ "retried" \in PubFaults
       /\ Carry(2, e) /\ Mark(e, "redis") /\ UNCHANGED <<socketVars, subVars, seen>>
    \/ /\ "refused" \in PubFaults
       /\ Offer(events[e].at, e) /\ Mark(e, "local") /\ UNCHANGED pubsubVars
    \/ /\ "unknown" \in PubFaults
       /\ Carry(1, e) /\ Offer(events[e].at, e) /\ Mark(e, "local")
       /\ UNCHANGED <<subVars, seen>>

(* A service has committed a change and takes a version for the event that *)
(* announces it, on some instance.                                         *)
NextVersion(i) ==
    /\ Draw("service", "none", i, Participants)
    /\ UNCHANGED <<socketVars, pubsubVars, command, acks, roundVars>>

PublishMatchEvent(e) ==
    /\ events[e].kind = "service" /\ events[e].status = "drawn"
    /\ PublishEvent(e)
    /\ UNCHANGED <<command, acks, roundVars>>

(* Bug variant: what is older than an event already handled is dropped.    *)
Fresh_Newer(i, e) == \A f \in seen[i] : Counter(f) = Counter(e) => Version(f) < Version(e)

(* RealtimePubSub.receiveLoop: one message, handled unless its id was.     *)
Fresh(i, e) == e \notin seen[i]

Receive(i) ==
    /\ wire[i] # <<>>
    /\ wire' = [wire EXCEPT ![i] = Tail(@)]
    /\ seen' = [seen EXCEPT ![i] = @ \cup {Head(wire[i])}]
    /\ IF Fresh(i, Head(wire[i])) THEN Offer(i, Head(wire[i])) ELSE UNCHANGED socketVars
    /\ UNCHANGED <<subVars, events, command, acks, roundVars>>

-----------------------------------------------------------------------------
(* Tickets and connections. *)

Enter(s, p) == phase' = [phase EXCEPT ![s] = p]

IssueTicket(s) ==
    /\ phase[s] = "away"
    /\ Enter(s, "ticketed")
    /\ UNCHANGED <<shut, queue, got, past, pubsubVars, events, command, acks, roundVars>>

TicketExpires(s) ==
    /\ phase[s] = "ticketed"
    /\ Enter(s, "away")
    /\ UNCHANGED <<shut, queue, got, past, pubsubVars, events, command, acks, roundVars>>

(* The ticket is consumed, the membership looked up, the upgrade accepted: *)
(* the client is in the hub and its presence is acquired.                  *)
Upgrade(s) ==
    /\ phase[s] = "ticketed"
    /\ Enter(s, "joined")
    /\ UNCHANGED <<shut, queue, got, past, pubsubVars, events, command, acks, roundVars>>

(* RealtimePubSub.Subscribe: the first reference writes a SUBSCRIBE and    *)
(* does not wait for Redis; later ones only count.  A failure is ignored   *)
(* by the handler, which unsubscribes at its end all the same; the client  *)
(* library may remember the channel and ask again.                         *)
SubscribeChannel(s) ==
    LET i == InstanceOf[s] IN
    /\ phase[s] = "joined"
    /\ Enter(s, "wired")
    /\ \/ /\ refs' = [refs EXCEPT ![i] = @ + 1]
          /\ asked' = IF refs[i] = 0 THEN asked \cup {i} ELSE asked
       \/ /\ SubFaults /\ refs[i] = 0
          /\ asked' \in {asked, asked \cup {i}}
          /\ UNCHANGED refs
    /\ UNCHANGED <<shut, queue, got, past, listening, steady, wire, seen, events, command,
                   acks, roundVars>>

(* Redis takes the SUBSCRIBE: from here on it delivers to the instance.    *)
SubscribeLands(i) ==
    /\ i \in asked
    /\ asked' = asked \ {i}
    /\ listening' = listening \cup {i}
    /\ UNCHANGED <<socketVars, refs, steady, wire, seen, events, command, acks, roundVars>>

(* Redis takes an UNSUBSCRIBE, or the connection breaks: what the instance *)
(* has not read may be lost, and the library asks again for the channels   *)
(* it still holds.                                                         *)
SubscriptionEnds(i) ==
    /\ i \in listening
    /\ listening' = listening \ {i}
    /\ \/ /\ refs[i] > 0 \/ SubFaults
          /\ asked' = asked \cup {i}
       \/ refs[i] = 0 /\ UNCHANGED asked
    /\ steady' = {s \in steady : InstanceOf[s] # i}
    /\ \E kept \in 0 .. Len(wire[i]) : wire' = [wire EXCEPT ![i] = SubSeq(@, 1, kept)]
    /\ UNCHANGED <<socketVars, refs, seen, events, command, acks, roundVars>>

(* The first message is a snapshot of what has been committed so far. *)
WriteSnapshot(s) ==
    /\ phase[s] = "wired"
    /\ past' = [past EXCEPT ![s] = Published]
    /\ steady' = IF InstanceOf[s] \in listening THEN steady \cup {s} ELSE steady
    /\ Enter(s, "live")
    /\ UNCHANGED <<shut, queue, got, refs, asked, listening, wire, seen, events, command, acks,
                   roundVars>>

(* The write pump.  Once the hub has shut the socket it may still find     *)
(* events in the queue before it finds it closed.                          *)
WritePump(s) ==
    /\ phase[s] = "live"
    /\ queue[s] # <<>>
    /\ got' = [got EXCEPT ![s] = Append(@, Head(queue[s]))]
    /\ queue' = [queue EXCEPT ![s] = Tail(@)]
    /\ UNCHANGED <<phase, shut, past, pubsubVars, events, command, acks, roundVars>>

(* Bug variant: the first socket to leave takes the subscription with it. *)
Dropped_All(count) == 0

(* RealtimePubSub.Unsubscribe: a reference less; after the last one the    *)
(* channel is forgotten and its UNSUBSCRIBE is on the way.                 *)
Dropped(count) == IF count > 1 THEN count - 1 ELSE 0

UnsubscribeChannel(s) == refs' = [refs EXCEPT ![InstanceOf[s]] = Dropped(@)]

(* serveChannel returns: the client has gone (the read pump ends, with no  *)
(* command in hand) or the snapshot failed; the deferred calls undo the    *)
(* subscription, then the hub entry and the presence.                      *)
Returns(s) ==
    \/ phase[s] = "live" /\ command[s].step = "idle"
    \/ phase[s] = "wired" /\ SubFaults

Hangup(s) ==
    /\ Returns(s)
    /\ UnsubscribeChannel(s)
    /\ Enter(s, "unwired")
    /\ steady' = steady \ {s} /\ past' = [past EXCEPT ![s] = {}]
    /\ UNCHANGED <<shut, queue, got, asked, listening, wire, seen, events, command, acks,
                   roundVars>>

Unsubscribe(s) ==
    /\ phase[s] = "unwired"
    /\ Enter(s, "gone")
    /\ queue' = [queue EXCEPT ![s] = <<>>]
    /\ UNCHANGED <<shut, got, past, pubsubVars, events, command, acks, roundVars>>

-----------------------------------------------------------------------------
(* Commands of a socket, one at a time. *)

(* dispatchCommand: a command with a stored acknowledgement is answered    *)
(* from it; any other goes on to its handler.                              *)
LoadCommandAck(s, id, kind) ==
    /\ phase[s] = "live" /\ command[s].step = "idle"
    /\ <<UserOf[s], id>> \notin acks
    /\ command' = [command EXCEPT ![s] = [step |-> "apply", kind |-> kind, id |-> id,
                                          event |-> 0]]
    /\ UNCHANGED <<socketVars, pubsubVars, events, acks, roundVars>>

(* The command is applied, as the next event, or refused (throttled,       *)
(* unchanged, locked, forbidden) and the socket is idle again.             *)
Stored(s, next) ==
    command' = [command EXCEPT ![s].step = next, ![s].event = Len(events) + 1]

Refused(s) ==
    /\ command[s].step = "apply"
    /\ command' = [command EXCEPT ![s] = Idle]
    /\ UNCHANGED <<socketVars, pubsubVars, events, acks, roundVars>>

(* setMarkerScript: refused for a locked player, else stored and versioned.*)
Teammates(u) == {v \in Participants : TeamOf[v] = TeamOf[u]}

StoreMarker(u, i) ==
    /\ u \notin locked
    /\ Draw("marker", u, i, Teammates(u))
    /\ marker' = [marker EXCEPT ![u] = Len(events) + 1]

HandleMarkerSet(s) ==
    /\ command[s].step = "apply" /\ command[s].kind = "marker"
    /\ StoreMarker(UserOf[s], InstanceOf[s])
    /\ Stored(s, "publish")
    /\ UNCHANGED <<socketVars, pubsubVars, acks, guessed, locked>>

(* setViewScript, for a scene that changed; its recipients are looked up   *)
(* afterwards.                                                             *)
StoreView(u, i) == Draw("view", u, i, {})

HandleViewUpdate(s) ==
    /\ command[s].step = "apply" /\ command[s].kind = "view"
    /\ StoreView(UserOf[s], InstanceOf[s])
    /\ Stored(s, "recipients")
    /\ UNCHANGED <<socketVars, pubsubVars, acks, roundVars>>

(* Who may watch whom: a player who has guessed watches those who have not *)
(* and are present, opponents in a solo match and teammates in a team one. *)
RoundActive == guessed # Participants
Solo == \A u, v \in Participants : TeamOf[u] = TeamOf[v] => u = v
MayWatch(viewer, target) ==
    /\ target # viewer
    /\ target \notin guessed /\ target \notin Offline
    /\ IF Solo THEN TeamOf[target] # TeamOf[viewer] ELSE TeamOf[target] = TeamOf[viewer]

CanSpectate(viewer) == viewer \in guessed /\ RoundActive

AllowedTargets(viewer) ==
    {t \in Participants : CanSpectate(viewer) /\ MayWatch(viewer, t)}

SpectatorsOf(source) == {v \in Participants : source \in AllowedTargets(v)}

ViewRecipients(s) ==
    /\ command[s].step = "recipients"
    /\ events' = [events EXCEPT ![command[s].event].audience = SpectatorsOf(UserOf[s])]
    /\ command' = [command EXCEPT ![s].step =
                     IF SpectatorsOf(UserOf[s]) = {} THEN "ack" ELSE "publish"]
    /\ UNCHANGED <<socketVars, pubsubVars, acks, roundVars>>

(* A target is selected, and announced to its viewer only. *)
SelectSpectate(u, i) ==
    /\ AllowedTargets(u) # {}
    /\ Draw("spectate", u, i, {u})

HandleSpectateSelect(s) ==
    /\ command[s].step = "apply" /\ command[s].kind = "spectate"
    /\ SelectSpectate(UserOf[s], InstanceOf[s])
    /\ Stored(s, "publish")
    /\ UNCHANGED <<socketVars, pubsubVars, acks, roundVars>>

PublishCommand(s) ==
    /\ command[s].step = "publish"
    /\ PublishEvent(command[s].event)
    /\ command' = [command EXCEPT ![s].step = "ack"]
    /\ UNCHANGED <<acks, roundVars>>

(* The answer is written and stored, unless one is stored already. *)
SaveCommandAck(s) ==
    /\ command[s].step = "ack"
    /\ acks' = acks \cup {<<UserOf[s], command[s].id>>}
    /\ command' = [command EXCEPT ![s] = Idle]
    /\ UNCHANGED <<socketVars, pubsubVars, events, roundVars>>

(* The games service stores a guess.  Nothing writes the locked set. *)
SubmitGuess(u) ==
    /\ u \notin guessed
    /\ guessed' = guessed \cup {u}
    /\ UNCHANGED <<socketVars, pubsubVars, events, command, acks, locked, marker>>

-----------------------------------------------------------------------------
ChannelInit ==
    /\ phase = [s \in Sockets |-> "away"]
    /\ shut = {}
    /\ queue = [s \in Sockets |-> <<>>]
    /\ got = [s \in Sockets |-> <<>>]
    /\ past = [s \in Sockets |-> {}]
    /\ refs = [i \in Instances |-> 0]
    /\ asked = {} /\ listening = {} /\ steady = {}
    /\ wire = [i \in Instances |-> <<>>]
    /\ seen = [i \in Instances |-> {}]
    /\ events = <<>>
    /\ command = [s \in Sockets |-> Idle]
    /\ acks = {}
    /\ guessed = {} /\ locked = {}
    /\ marker = [u \in Participants |-> 0]

Kinds == {"marker", "view", "spectate"}

ChannelServer ==
    \/ \E i \in Instances : Receive(i)
    \/ \E e \in DOMAIN events : PublishMatchEvent(e)
    \/ \E s \in Sockets :
         \/ SubscribeChannel(s) \/ WriteSnapshot(s) \/ WritePump(s) \/ Unsubscribe(s)
         \/ Refused(s) \/ HandleMarkerSet(s) \/ HandleViewUpdate(s) \/ ViewRecipients(s)
         \/ HandleSpectateSelect(s) \/ PublishCommand(s) \/ SaveCommandAck(s)

ChannelNext ==
    \/ ChannelServer
    \/ \E i \in Instances : NextVersion(i) \/ SubscribeLands(i) \/ SubscriptionEnds(i)
    \/ \E u \in Participants : SubmitGuess(u)
    \/ \E s \in Sockets :
         \/ IssueTicket(s) \/ TicketExpires(s) \/ Upgrade(s) \/ Hangup(s)
         \/ \E id \in Commands, kind \in Kinds : LoadCommandAck(s, id, kind)

ChannelSpec == ChannelInit /\ [][ChannelNext]_channelVars

(* The instances keep running, a socket's own goroutines beside its        *)
(* commands, and Redis takes what it is asked; what clients and            *)
(* connections do is up to them.                                           *)
Served(s) == SubscribeChannel(s) \/ WriteSnapshot(s) \/ WritePump(s) \/ Unsubscribe(s)

ChannelLive ==
    /\ ChannelSpec /\ WF_channelVars(ChannelServer)
    /\ \A s \in Sockets : WF_channelVars(Served(s))
    /\ \A i \in Instances : WF_channelVars(SubscribeLands(i))

-----------------------------------------------------------------------------
ChannelTypeOK ==
    /\ phase \in [Sockets -> {"away", "ticketed", "joined", "wired", "live", "unwired", "gone"}]
    /\ shut \subseteq Sockets
    /\ \A s \in Sockets : /\ queue[s] \in Seq(DOMAIN events) /\ Len(queue[s]) <= QueueSize
                          /\ got[s] \in Seq(DOMAIN events)
                          /\ past[s] \subseteq DOMAIN events
                          /\ command[s].event \in {0} \cup DOMAIN events
    /\ refs \in [Instances -> 0 .. Cardinality(Sockets)]
    /\ asked \subseteq Instances /\ listening \subseteq Instances /\ steady \subseteq Sockets
    /\ \A i \in Instances : wire[i] \in Seq(DOMAIN events) /\ seen[i] \subseteq DOMAIN events
    /\ \A e \in DOMAIN events : events[e].audience \subseteq Participants
    /\ acks \subseteq Participants \X Commands
    /\ guessed \subseteq Participants /\ locked \subseteq guessed
    /\ marker \in [Participants -> 0 .. MaxEvents]

(* What a connected socket the hub has not shut was or will be sent: every *)
(* event for its player that its instance has received since its snapshot, *)
(* and, while Redis has listened for it ever since that snapshot, every    *)
(* one published (serveChannel joins the hub and subscribes first).        *)
Awaited(s) == {e \in Published \ past[s] : UserOf[s] \in events[e].audience}
Coming(s) == Range(got[s]) \cup Range(queue[s])
Live == {s \in Sockets \ shut : phase[s] = "live"}

NothingMissed ==
    \A s \in Live :
        /\ Awaited(s) \cap seen[InstanceOf[s]] \subseteq Coming(s)
        /\ s \in steady => Awaited(s) \subseteq Coming(s) \cup Range(wire[InstanceOf[s]])

(* While a socket is served, Redis delivers to its instance or is asked to,*)
(* whoever else leaves and whenever the connection breaks.                 *)
StaysSubscribed ==
    \A s \in Sockets : phase[s] \in {"wired", "live"} => InstanceOf[s] \in asked \cup listening

(* No client is sent an event twice, although Redis may carry it twice and *)
(* the instance that publishes hears it too (fanout.go: "avoids local+echo *)
(* double delivery").                                                      *)
EachEventOnce == \A s \in Sockets : IsInjective(got[s] \o queue[s])

(* What a player sees of the round reaches, and waits for, only those who  *)
(* have already guessed: teammates in a team match, opponents in a duel.   *)
ScenesStayPrivate ==
    \A s \in Sockets : \A e \in Range(got[s] \o queue[s]) :
        events[e].kind = "view" =>
            /\ UserOf[s] \in guessed
            /\ (TeamOf[UserOf[s]] = TeamOf[events[e].source]) <=> ~ Solo

(* What an instance receives reaches everybody there it is for, once, and  *)
(* nobody else; what Redis carries reaches the instance of a socket whose  *)
(* subscription stood, and a served socket's instance stays subscribed.    *)
DeliveredExactly == NothingMissed /\ StaysSubscribed /\ EachEventOnce /\ ScenesStayPrivate

(* The snapshot and the events leave no gap, whenever Redis takes the      *)
(* SUBSCRIBE.  The code does not promise it: Subscribe returns before      *)
(* Redis has answered (realtime_pubsub_test.go waits for that: "Allow      *)
(* Redis subscription to propagate").                                      *)
SnapshotLeavesNoGap ==
    \A s \in Live : Awaited(s) \subseteq Coming(s) \cup Range(wire[InstanceOf[s]])

(* A proposed marker can be moved until that player's guess is stored      *)
(* (specs/012-casual-ranked-modes: "independently movable until that       *)
(* player's guess locks").                                                 *)
MarkerStandsOnceGuessed ==
    [][\A u \in guessed : marker'[u] = marker[u]]_channelVars

(* The versions a client is sent grow (specs/012: "monotonic version"; a   *)
(* client ignores events at or below the version it has).                  *)
VersionsGrow ==
    \A s \in Sockets : \A j, k \in DOMAIN got[s] :
        j < k => Version(got[s][j]) < Version(got[s][k])

(* A slow client is closed (specs/012 contract: "A slow client is closed   *)
(* with application code 4008").                                           *)
SlowClientsAreClosed ==
    \A s \in Sockets : s \in shut ~> phase[s] = "gone"
=============================================================================
