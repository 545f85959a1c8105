# TLA+ models of the GeoGuesser backend

This directory holds TLA+ specifications of the Go backend under `backend/`
(module root `src/backend/` in the path names below), TLC configurations that
model-check them on small instances, and TLAPS proofs of the safety properties
for every instance. The specifications are written from the code; where a
document of the repository says something else, the difference is a *finding*
(section 7).

Contents: 1 inventory, 2 plan, 3 modules, 4 runs and bounds, 5 fairness,
6 proofs, 7 findings, 8 what the models leave out.

## 1. Inventory

The backend is one Go process type (`cmd/api`), run in several copies behind a
load balancer. PostgreSQL holds everything durable; Redis holds queues, claims,
presence, tickets and rate limits; six background workers run in every copy
(`cmd/api/main.go:395-428`): match lifecycle, round deadlines, claim sweep,
progression retry, season rollover, clean-up. The processes share no memory;
all coordination is through row locks, Lua scripts and publish/subscribe.

| Component | State | Operations | What is hard | What makes it right |
|---|---|---|---|---|
| Team ticket queue (`platform/redis/matchmaking_v2.go`) | tickets, user pointers, queue, claims, recovery index | six Lua scripts, one removal from the index | callers late by any amount; no TTL on claims | pointers, queue and tickets agree; a claim can always be found again; a ticket keeps its place |
| Team match formation (`matchmaking/service.go`, `repository.go`) | the matches and their players in PostgreSQL | join, poll, leave; each may reconcile, claim, commit, finalize | two stores, nothing held in between; crash after any call | one active match per user; nobody trapped in a claim; the innocent side keeps its place |
| Presence, grace and forfeit (`app/wiring_adapters.go`, `platform/redis/realtime.go`, `matchplay/`) | socket counts, reconnect windows, `game_players.status`, match status | connect, ping, disconnect, sweep, leave | two stores, several sockets and sweepers; Redis restarts | counts are exact; a connected player is marked so; one forfeit per match |
| Competitive progression (`competitive/`) | ratings, progression status, seasons, cached pages | finalize, retry, rollover, page reads | retries by several processes, season change, slow readers | rated exactly once; a closed season stays; pages keep up |
| Games and match lifecycle (`games/`, `matchmaking/lifecycle.go`, `matchplay/repository.go`) | games, rounds, guesses, players, the match row | start, guess, expire, advance, leave, inactivity, rate | opposite lock orders, late guesses, disconnects, aborts | game and match agree; revealed rounds stand; decided once; it ends |
| Solo, daily and practice games (`games/`) | as above, with idempotency keys in Redis | guess, expire, next round, end, history, results | several tabs, timeouts that race guesses, retries | one answer per round; nothing revealed early |
| Rooms (`rooms/`) | room, members, lobby game | join, kick, settings, start, polls | reads before locks; game hooks and publications | room follows game; membership and capacity hold |
| Parties and friends (`parties/`, `friends/`) | parties, members, invites, readiness, friendship rows | invite, accept, leave, kick, disband, ready, queue, restore; request, accept, remove, block | reads before the transaction, concurrent accepts | one party per user, never overfull; nobody queued without consent |
| Pair queue (`platform/redis/matchmaking.go`, `matchmaking/service.go`) | player hashes, queue, entry map, claims | join, renew, leave, claim, finalize, release | as the ticket queue | a searching player can be found; a claim is resolved |
| Rating windows (`matchmaking/rating_window.go`) | parties' ratings and waits | join, widen, claim | two functions computed in Go and in Lua | who meets is inside the window shown |
| Command idempotency (`platform/redis/command_idempotency.go`, `challenges/idempotency.go`) | key records, locks | claim, complete, release | overlapping retries, process death, lock expiry | one run per key, its answer replayed |
| Challenges, missions, streaks (`challenges/`) | attempts, results, progress, experience | start, completion chain, claim | chains that die, repeat and overlap | rewards once, streaks never overstated |
| Leaderboards (`leaderboards/`) | entries, versions, cached pages | project, read | repeated projections, caches filled late | the best game stands; pages keep up |
| Realtime channel, tickets and live match data (`realtime/`, `platform/redis/realtime*.go`, `matchplay.go`) | sockets, queues, subscriptions, counters, markers | ticket, upgrade, commands, publish | subscriptions that take effect late and break, duplicated and refused publications, slow consumers, snapshots | what an instance receives is sent once, to its audience; nothing is lost while the subscription stands |
| Team chat, uploads and clean-up (`matchplay/chat_*`, `cleanup.go`, `uploads/`) | messages, reports, mutes, uploads, objects | send, report, complete, sweep | object storage outside the transaction, a worker that dies | what is shown can be opened; what is reported is kept |
| Auth (`auth/`, `session/`) | sessions, refresh tokens, codes | login, refresh, revoke, verify | concurrent refresh | one refresh token is used once |
| Profiles, users, home, maps | rows | reads and updates | little | access rules |
| Workers, HTTP, middleware, configuration, storage, clock, ids | none or plumbing | | | |

How they interact:

- a client's join or poll runs *formation*, which moves tickets in Redis, writes
  a match and its game in PostgreSQL, and then tells Redis;
- *games* call the *lifecycle hooks* inside their own transactions when a round
  advances or a game ends; the hooks end the match and leave its progression
  pending (`cmd/api/main.go` wires them without a finalizer), and the *retry
  worker* rates it later;
- a ranked formation takes the active *season*, and the queue join before it
  creates the players' *standings*;
- the realtime *match handler* calls *presence* when sockets open, ping and
  close; presence writes the durable marker that the *lifecycle worker* reads
  to forfeit players, which ends the match and its game;
- *parties* consult the *friend* graph, enter the queue as rosters and are
  restored when a match ends;
- *rooms* own a lobby game: the room's transactions lock the room and then the
  game, the game's hooks lock the game and then the room;
- completed games run chains of projections: *challenges*, *leaderboards*;
- every change is announced on channels by the *hub*, on a best-effort basis:
  no component's state depends on an announcement.

`PROJECT.json` lists each component with its status, and the 40 hazards that
matter most with the line where each bites. A hazard without a property has a
note saying why.

## 2. Plan

What is there, in the order in which it was built:

1. **Ticket queue, formation, presence, progression**: `TicketStore`,
   `TeamFormation`, `Presence`, `Progression`, with `SeasonLedger`, the abstract
   specification of the last one. `TeamFormation` extends `TicketStore`, whose
   own next-state relation (any caller calls any script at any time) is the
   abstract specification that the requests are shown to implement.
2. **The game of a match**: `GameRounds` (the record and its operators),
   `MatchGame` (callers, row locks, hooks), `MatchContest` (what a match
   promises), with the refinement between the last two; `MatchViews` (which
   extends `MatchGame`) adds what players are shown of it.
3. **Games of other kinds**: `HostedRoom` and `SoloGame`; `GameRounds` serves
   both match and room games.
4. **The services around them**: `FriendGraph` and `Parties` (which extends it),
   `PairQueue` and `RankedSearch` (put together in `Searching`), `CommandKeys`,
   `DailyChallenge`, `Leaderboards` and `SeasonPages` (put together in
   `ReadModels`), all of them side by side in `Services`.
5. **The live side**: `MatchChannel` and `TeamChat`, side by side in `Realtime`.
6. **The proofs**, in the same order: `TeamFormationProofs` (the queue, then the
   requests), `PresenceProofs`, `ProgressionProofs`; `GameRoundsProofs` (totals of a
   game) and `MatchGameProofs`, which uses it; `GatheringProofs` (parties, rooms and
   the two searches: how players come together); `ServicesProofs` (command keys, solo
   games, daily challenges, boards and season pages, and the services together);
   `RealtimeProofs` (chat and channel).

What is left, in the order of its worth:

- **auth**: refresh rotation with reuse detection, one-time codes;
- lobby and party channels of the hub; batches of the deadline sweep; camera
  data and rate limits of the live commands.

## 3. Modules

### TicketStore: the team ticket queue

One action (or two, by outcome) per Lua script of `matchmaking_v2.go`; Redis runs a script
atomically, so an action is the whole script, clean-up included.

| Redis key | Variable |
|---|---|
| `matchmaking:v2:ticket:<id>` | `tickets[t]` (roster, enqueue time, state, claim, lease) |
| `matchmaking:v2:user:<id>` | `ptr[u]` |
| `matchmaking:v2:queue:<mode>` | `queue` |
| `matchmaking:v2:claim:<id>` | `claims` (existing ids) and `claimRec` (contents) |
| `matchmaking:v2:claims` | `index` |

| Script | Actions |
|---|---|
| joinTicketScript | `JoinCreates`; `JoinExisting`, `JoinConflict` (replies without a change, used by formation) |
| renewTicketScript | `RenewTicket` |
| leaveTicketScript | `LeaveTicket` |
| claimTicketsScript | `ClaimPair`, `ClaimNothing` (both clear the stale candidates they scanned) |
| finalizeTeamClaimScript | `FinalizeTeamClaim` |
| releaseTeamClaimScript | `ReleaseTeamClaim` with the set of sides to put back |
| ZREM of the index | `DropTeamClaimIndex` |

`claimRec` outlives its hash, because callers keep what they read:
`FinalizeTeamClaim` is called with such a copy, at any later time. Clock
readings are replaced by what is compared: `live` (the lease), `index[c]`
(`recover_after`). Enqueue times are fresh numbers; two joins in one
millisecond, which Redis orders by member id, do not tie. Rating windows decide
nondeterministically whether two ranked tickets may meet. Party ids and
versions (`err_party_version`) and the order of a roster are left out.

### TeamFormation: the requests

`match[c]` is the row whose formation key is claim `c`; `work[w]` is a request
in progress, with what its handler has read so far (the claim, the expired
claims listed, the sides found eligible) and the next call it makes. Each call
to Redis or PostgreSQL is one step:

| Code (`matchmaking/service.go`) | Actions |
|---|---|
| JoinQueue, joinTicketQueue | `StartJoin` (reads), `Join` (script) |
| GetStatus, statusWithoutDurable | `StartPoll`, `Status`, `PollUnchanged` |
| LeaveQueue | `StartLeave`, `Leave` |
| tryFormTeamMatch | `Claim`, `Check`, `Commit`, then `Finalize` or `Assess`, `Release` |
| reconcileExpiredTeamClaims | `List`, `Get`, `Find`, then the same |
| recoverTicketClaimedStatus | `Recover`, then the same, then `RenewAfterRelease` |
| CreateTeamFormationBundle (`repository.go`) | `Commit`, atomic under its row locks, with `LockAndValidateUsers` |
| claim sweep (`worker.go`) | `ClaimSweep`: nothing of this queue |

`Fault` ends a request between any two calls (an error, a time-out, the death
of the process), or lets the handler go on where the code does: reconciliation
goes on with the next claim, a failed claim attempt counts as no pair.
`ClaimOutlivesRequest` says whether `recover_after` of a claim can pass while
the request that made it still runs. With the defaults it cannot: the request
deadline is 15 s (`config/config.go:121`), and the claim TTL, which starts
later, is 15 s too (`config.go:173`). But the configuration only has to be
positive (`config.go:268`), so both values are checked: `FALSE` where the
property survives it, `TRUE` where it needs it. `MatchedFromOpenEntries` does:
with `FALSE` a match can be committed from entries that were already released.

Simplifications: members of a roster are checked one after the other in the
code and in one read here; the batch limit of `ListExpiredTeamClaims` is above
the number of claims; `Recover` reads the match and the claim together; the
lookup of a match right after a fresh claim (`service.go:618`) finds nothing,
and is no step; `recoverTicketClaimedStatus` answers "matched" also for a match
that is over, which is a reply and changes nothing.

### Presence: sockets, windows, the marker and forfeits

`socket[s]` is the next call of a connection's handler
(`app/wiring_adapters.go`); `count` and `window` are the Redis keys; `marker`
and `aged` are `game_players.status` and whether `left_at` has passed the
grace; `sweep[w]` is one process's grace sweep.

| Code | Actions |
|---|---|
| Connected (`wiring_adapters.go`) | `Open` (acquirePresenceScript), `Connected` (MarkConnectionState) |
| Heartbeat | `Heartbeat`, `Reacquire`, `Revived` |
| Disconnected | `ReleasePresence`, `MarkDisconnected`, `Recheck`, `Repair` |
| socket ends | `Close` |
| SweepDisconnectGrace (`matchplay/service.go`) | `List`, `HasReconnectWindow`, `ForfeitDisconnect`, `ClearPresence`, `SweepDone` |
| ExplicitLeaveTx, applyForfeitTx (`matchplay/repository.go`) | `Leave`, `ApplyForfeit` (one transaction under the match row's lock) |
| TTLs and the clock | `WindowExpires`, `CountExpires`, `GraceElapses` |
| completion of the game, closing of inactive casual matches | `EndMatch` |

The write pump's heartbeat is cancelled and awaited before the deferred
`Disconnected` runs, so heartbeat and disconnect of one socket are sequential.
A socket whose `Connected` failed still runs `Disconnected` (`CallFails`,
`OpenFails`). `Crash` kills one socket and one sweep; several are several
faults. The presence *status* key (only shown to team mates) is left out.

`PromptHandlers` is `TRUE` in the two violation runs, where it makes the
counterexample realistic: the 5 s context of `Disconnected` ends before the
grace (default 90 s, `config.go:185`). The passing run uses `FALSE`.

### Progression: ratings and seasons

`standing`, `change`, `status` and `match` are the tables
`competitive_standings`, `competitive_rating_changes`, `competitive_seasons` and
the progression columns of `matches`. `worker`, `roller`, `forming` and
`request` are transactions and requests under way, with what they have read.

| Code (`competitive/`) | Actions |
|---|---|
| CreateTeamFormationBundle (`matchmaking/repository.go`) | `LockUsers` (users, active season), `InsertMatch` |
| ApplyGameCompletedInTx, applyForfeitTx | `CompleteMatch`, `ForfeitMatch`: a result, pending progression |
| RetryPendingFinalizations (`service.go`) | `ListPending` |
| FinalizeMatchProgression (`repository.go`) | `LockMatch` (or replay), `LockSeason` (or ErrSeasonMismatch), `RateMatch` (standings, changes, marker) |
| RollOverIfDue (`season.go`) | `LockEndedSeason` (advisory lock, row, ends_at), `CloseSeason` (freeze, close, open the next) |
| EnsureStandingWithSoftReset, by profile and viewer reads | `OpenProfile`, `ReadPrevious`, `InsertStandings` |
| EnsureStandings, by ranked queue joins | `JoinQueue`, `InsertStandings` |
| PostgreSQL | `EndSeason` (time), `BreakDeadlock` |

Row locks are not variables: who holds one follows from the steps
(`MatchHeld`, `SeasonHeld`, `UserHeld`), and a step that may wait is enabled
when its lock is free. Foreign keys matter: an insert takes a share of the rows
it refers to, which `FOR UPDATE` excludes, so a formation (users, then season)
and a rating transaction (season, then users) can deadlock; PostgreSQL aborts
one. Any other abort writes nothing either, and looks like a worker or request
that stops or a tick that goes on with the next match.

Abstractions: the Elo curve is the constant `Elo` (a winner slot gives one of
some pairs of base deltas), so the properties hold whatever it computes; the
times in `rating_reached_at` are counts of rated matches; rank codes are
reduced to the ending rank's kind; peak ratings are left out; a cancelled match
is one that never ends (both are never pending); a transaction's own inserts and
updates are one step, since nobody sees them before it commits.

`SeasonLedger` is what all of this promises, with three variables (the season that is
being played, the season each match was rated in, the ratings of each season) and three
actions: a match is rated once, in the current season, for both teams in one
step; the season turns over; players who have no rating of a season get one. No
worker, lock or request is in it. `KeepsLedger` maps the tables to it
(`CurrentSeason`, `RatedIn`, `RatingIn`).

### GameRounds, MatchGame, MatchContest: the game of a match

`GameRounds` holds no state: it is the record of one game (`status`, `round`,
`guess`, `player`, `total`, `phase`) with the operators of `games/repository.go`
on it (`InsertGuess`, `ZeroFill`, `CompleteRound`, `AbandonGame`,
`AllSubmitted`). `phase` is where the clock stands for the active round.

`MatchGame` adds the callers. `game` and `match` are the two rows written by two
packages, `quit` the players who left, `work[w]` a transaction in progress: its
`pc` is the next statement that can wait for a row or reads what others
change, its `holds` the rows it has locked. Writes appear at the commit.

| Code | Actions |
|---|---|
| SubmitMultiplayerGuessTx (`games/repository.go`) | `StartGuess`, `LockGame`, `Count`, `Fill`, `LockMatch`, `Commit` |
| CloseExpiredMultiplayerRound for a poll or a late guess | `StartClose`, `LockGame`, `Fill`, `LockMatch`, `Commit` |
| the same for the deadline worker (SweepExpiredTimedMultiplayerRounds) | `SweepDeadlines`, then as above |
| ExplicitLeaveTx, ForfeitDisconnectTx, closing of inactive casual matches (`matchplay/repository.go`) | `StartLeave`, `StartInactive`, `LockMatch`, `EndMatch` |
| ApplyGameCompletedInTx (`matchmaking/lifecycle.go`) | in `Commit`, `PostCommit` |
| tryFinalizeProgression, retry worker | `PostCommit`, `RetryRating` |
| MarkConnectionState | `MarkConnection` |
| the clock | `RoundOpens`, `RoundFallsDue` |
| PostgreSQL | `BreakDeadlock` |

A guess locks the game, its round and in the last round the match; a leave locks
the match first. The cycle of waits is real, PostgreSQL breaks it by aborting one
transaction, and the model has that step; deadlock therefore never lasts.

The deadline worker closes the due rounds of the games its query lists, by
`games.mode` (`SweptModes`); formation gives every ranked game another mode
(`GameMode`), so in these matches its tick finds nothing and rounds close by
polls, late guesses and leaves (section 7, `RankedDeadlines`). Party lobbies are
listed; `HostedRoom` has the worker among its calls. Formation also creates
every match as `active`, so the status `matched` and the hook that leaves it
(ApplyMatchActiveInTx) concern rows of older versions only and are left out.

`MatchContest` is the abstract specification: scores grow while the match is
undecided, it is decided once, by the scores as they stand or by a side's
leaving, and rated for that result. `MatchGame` implements it under the mapping
`Contest` (`INSTANCE MatchContest WITH`): team totals, the match's verdict, the
result the ratings were computed for.

### MatchViews: what players are shown of a match

Snapshots, round results and terminal results are put together from several
statements without a transaction, so guesses, deadlines and leaves commit between
any two of them. `view[w]` is what the handler in request slot `w` has read and,
once `told`, the answer its client holds; a slot that reads begins no transaction.

| Code | Actions |
|---|---|
| GetSnapshot, LoadSnapshotBundle (`matchplay/`) | `ReadSnapshot` (the match row), `ReadPlayers`, `ReadCurrent`, `ReadRounds`, `ReadGuesses` |
| GetRoundResults, LoadRoundResultBundle | `ReadRound`, `ReadGuesses` |
| GetSharedRoundResults (`games/`) | `ReadSharedRound`, `ReadGuesses` |
| GetTerminalResult | `ReadTerminal` (the match row), `ReadPlayers`, `ReadRounds`, `ReadGuesses` |
| the client | `EndView` |

Left out: who has guessed already and the counts of those, permissions, and the
team scores of the match row in a round's answer (zero until the match ends). The
rounds of a terminal result are read one after the other in the code and in one
step here, since a completed round's rows are not written again.

### HostedRoom: rooms and their lobby game

`room`, `member` are the tables of `rooms/`, `lobby` is a `GameRounds` record,
`call[c]` a request between two statements. Services read without locks first
(`RequestJoin`, `RequestKick`, `RequestSettings`, `RequestStart`,
`RequestGuess`, `RequestClose`), then lock (`LockRoom`, `LockLobby`) and write
(`FinishJoin`, `FinishSettings`, `FinishStart`, `FinishGame`). A poll that closes
the last round publishes the outcome afterwards (`PublishOutcome`), or dies
(`LoseOutcome`). What is published is what the transaction made of the game
(`Announce`), whatever has become of it since. The failing branch of `FinishStart` is for a room that is no
longer in its lobby when its game is; the bounds never reach it, because no
code separates the two.

### SoloGame: solo, daily and practice

One owner with several tabs. `solo` has the rows, `tab[t]` a request in progress,
`inFlight` the idempotency keys claimed in Redis, `shown` the rounds whose
location a response has revealed. Actions: `StartSolo`, `RequestSoloGuess`,
`LockSolo`, `SubmitGuessTx`, `RequestExpire`, `ExpireSoloRoundTx`,
`FinishExpire`, `AppendPracticeRound`, `EndPractice`, `GetPracticeHistory`,
`GetSoloResults`, the lapse of a key and PostgreSQL's deadlock detection. A
timeout locks the round and then updates the game, a guess locks the game and
then the round.

### FriendGraph and Parties

`FriendGraph` is one row for each pair of users; its writes lock both users in
order, so each is one step (`Request`, `Accept`, `Decline`, `Unfriend`, `Block`,
`Unblock`). `Parties` extends it. `party` holds roster and leader, `invite` the
invitations, `ticket[p]` the roster a party is queued with, `partyCall[c]` what a
request read before its transaction. `CreateAs`, `StartInvite`/`CreateInvite`,
`StartAccept`/`AcceptInvite`, `DeclineAs`, `ReadyAs`, `LeaveAs`, `KickAs`,
`DisbandAs`, `StartQueue`/`ReadyPartyForQueue`/`JoinTicket`, `DropTicket`,
`FormMatch` and `EndMatch` (restoration) are the operations of
`parties/service.go` and the parts of matchmaking that move a roster.
`vouched` is a history variable: whom each user was ready to play with.

### PairQueue and RankedSearch

`PairQueue` is the older ranked 1v1 queue: `player`, `lane`, `owner`, `pairHash`,
`pairClaim`, `pairIndex` are its Redis keys; the six scripts are operators that
the requests apply (`JoinQueue`, `GetStatus`, `LeaveQueue`, then reconciliation
`ListExpired`, `GetClaim`, `FindMatch`, `Assess`, `Release`, `Finalize`,
`RecoverClaimed`, `RenewReleased`, or formation `Claim`, `Check`,
`CreateFormationBundle`). `PairFault` fails or kills a request between two calls.

`RankedSearch` computes what Go and Lua compute: a party's spread and average, the
window it is shown (`HalfWidth`, 100 + 50 per half-minute up to 400) and the
window of the claim script. Ratings are the configuration's (three values on
either side of band edges).

### CommandKeys: idempotency

Two protocols over the same keys: party commands claim one hash by a script
(`Begin`, `Run`, `Complete`, `ReleaseClaim`), shared challenges read a record and
then take a lock (`GetRecord`, `ClaimLock`, `Run`, `StoreResponse`,
`ReleaseLock`, `LockExpires`). `Ask` is a client that sends or repeats a command,
`Dies` the process ending anywhere. `runs` counts commits, `answered` what
clients were told. Two things are left out. A party's claim (a day) does not lapse
while clients repeat a command. And a transaction that commits although its answer
is lost is not modelled: the services report it as failed and `releaseIdem`
(`parties/service.go:235`) frees the key, so a repeat would run the command again.
`PartyKeysRunOnce` is therefore about commits whose outcome the service learns.

### DailyChallenge, Leaderboards, SeasonPages: projections

`DailyChallenge`: `attempt`, `streak`, `mission`, `xp` are the tables; `hook[h]` is
one completion chain of separate transactions (result, streak, missions,
experience), which `HookDies` ends anywhere and which every read of the completed
game starts again. `Leaderboards`: `OnGameCompleted` as
`StartProjection`, `MaterializeCompletedGame`, `BumpVersion`, `ProjectionDies`, and
a page read as `StartRead`, `CurrentVersion`, `CacheGet`, `LoadPage`, `CacheSet`,
`ReplyPage`. `SeasonPages` is the same question for the competitive season pages
(`GetProfile`, `GetLeaderboard`, `GetClosedLeaderboard` over `competitive/cache.go`),
whose closed page must show the final standings.

### MatchChannel: sockets, fan-out, live commands

`phase[s]` is how far a connection is in `serveChannel` (ticket, hub, Redis
subscription, snapshot, pumps), `refs[i]` the count of an instance's references to
the channel, `asked` and `listening` its SUBSCRIBE that Redis has yet to take and
its subscription, `wire[i]` messages under way from Redis, `seen[i]` the
event ids it dispatched, `queue[s]` the bounded queue, `got[s]` what was written.

`Subscribe` writes the SUBSCRIBE and returns (`realtime_pubsub.go:120`), and a
second socket only counts (`:103`), so `SubscribeChannel` moves `refs` and `asked`;
Redis takes the command in a step of its own (`SubscribeLands`), at any later time,
after the snapshot too. `SubscriptionEnds` is Redis taking an UNSUBSCRIBE or the
connection breaking under `receiveLoop`, at any time and any number of times: messages not yet
read may be lost, and go-redis asks again for what it still holds. What was
published in between never arrives, and the code has no answer to that: clients
are to notice a gap of versions and fetch a snapshot (specs/012 data-model.md:342). `past[s]` and
`steady` are history variables for saying exactly what is promised: the events
published before the socket's snapshot, and the served sockets whose instance
has been subscribed ever since theirs. `WritePump` may still write after the hub has
closed a socket, until it finds it closed.

An event is drawn from its counter in one step (`NextVersion`, `HandleMarkerSet`,
`HandleViewUpdate`, `HandleSpectateSelect`) and published in a later one
(`PublishMatchEvent`, `PublishCommand`). `PubFaults` says what a PUBLISH may do:
be carried twice ("retried"), fail and fall back to the local hub ("refused"),
fail although it was carried ("unknown"). `Command` steps load and save
acknowledgements without atomicity, as the code does. Commands of one socket are
sequential; two sockets of the instances race.

`DeliveredExactly` says, of every served socket that is not closed as slow:
whatever its instance received since the snapshot for that player is with the socket
(`NothingMissed`), and so is, or is on the wire, what Redis carried while the subscription
stood; the instance is subscribed or has asked (`StaysSubscribed`), whichever
other socket leaves; no event comes twice (`EachEventOnce`); and a view reaches
only who may watch (`ScenesStayPrivate`). That snapshot and events leave *no gap* is
not among it: `SnapshotLeavesNoGap` is violated (section 7).

### TeamChat: chat, uploads, retention

`age` is how old the match is; `messages`, `reported`, `mutes`, `uploads`,
`files` are rows, `objects` the object store, `calls` the requests and `sweep` the
retention worker, each of whose calls (list, delete messages, delete files, delete
objects) is a step that can be its last. `StorageFaults` lets any storage call
fail. `RetriesOverlap` says whether a second completion of an upload may begin
before the first has ended: `FALSE` in `Realtime`, `TRUE` in `ChatRetries`, where
the property fails because of it.

### Services and Realtime: parts side by side

The services share no state, so nothing is gained by interleaving them, and the
product of their state spaces would be out of reach. `Services` therefore
chooses one part (`part`) at the start and leaves the others in an initial state;
the run of its instance `MCServices` is the union of ten state spaces. A property of one part is thus checked in
every behaviour of that part, and holds trivially elsewhere. Where parts do share
state they are composed instead: `Parties` with `FriendGraph`, `HostedRoom` with
the game, `MatchGame` with the match, `MatchChannel` with tickets and live data.
`Searching` and `ReadModels` add no state: each says of two parts that answer the
same question (can a searching player be found, do pages keep up) that both do.
`Realtime`, with its instance `MCRealtime`, does the same for channel and chat.

## 4. Runs

| Run | Checks | Shows |
|---|---|---|
| `TicketStore` | `TypeOK`, `PointersNeverDangle`, `ClaimRecoverable`, `TicketsStand` | the scripts in any order by any caller keep the keys consistent |
| `TeamFormation` | `FormationTypeOK`, `OneActiveAssignment`, `NoInnocentDrop` | two interleaved requests, even later than the claim TTL, never put a user in two active matches or cost an innocent roster its ticket |
| `TeamFormationLive` | `UsesTicketStore`, `MatchedFromOpenEntries`, `NobodyTrapped` | the requests implement the abstract queue; after a request dies at any step, polling clients get the players out |
| `Presence` | `PresenceTypeOK`, `CountExact`, `MarkerGetsRepaired`, `OneForfeit`, `PresenceRecovers`, `ConnectedIsMarked` | counts and markers with two sockets, two sweepers and one fault |
| `Progression` | `ProgressionTypeOK`, `StandingsMatchHistory`, `FinalPositionsStand`, `ClosedSeasonFrozen`, `KeepsLedger` | ratings are applied once whoever retries, seasons close once, a closed season stays as it was frozen, and nothing else moves a rating |
| `MatchGame` | `ViewTypeOK`, `RowsAgree`, `ResultsStand`, `ImplementsContest`, `RankedMatchEnds` | two transactions over both rows: one story, decided once, rated for that, and a ranked match whose clients ask for its round ends; an answer read in several statements beside them stands for ever |
| `Services` | `ServicesTypeOK`, `RoomFollowsGame`, `MembershipKept`, `OnePartyEach`, `QueuedByConsent`, `SearchersAreServed`, `PartyKeysRunOnce`, `SoloRowsAgree`, `CreditsStand`, `BoardsKeepUp` | one property or two for each service, under all interleavings of its own requests |
| `Realtime` | `RealtimeTypeOK`, `DeliveredExactly`, `AttachmentsOpen`, `ReportedAreKept` | what an instance receives, and what Redis carries while its subscription stands, is sent once and to nobody else, with subscriptions that land late and break; what a team is shown can be opened |
| `PresenceReconnected`, `ProgressionStarved`, `RankedDeadlines`, `ChatRetries` | one property each, violated | section 7 |

Bounds, and why they suffice:

- `TicketStore`: six users, duo rosters {12}, {34}, {13}, {56}, 4 tickets, 3
  claims, 505 573 states. Two disjoint pairs and one overlapping roster are
  needed for conflicts, and for a user in two rosters over time; a third claim
  lets a ticket be claimed, released and claimed again while a caller still
  holds the first claim; a fourth ticket lets a roster join afresh after its
  ticket was finalized. `Ranked = TRUE` lets any disjoint pair meet or not,
  which includes what a casual queue does.
- `TeamFormation`: three solo users, one of whom can be suspended, two
  requests, 3 tickets, 2 claims, 2.2 million states, symmetric in the requests
  and the other two users. Two claims with a common user need three users; two
  requests are the two that race. No faults: a request that stops for ever is
  already among the interleavings.
- `TeamFormationLive`: two users, two requests, 2 tickets, 2 claims, one fault,
  84 414 states, no symmetry (it is unsound for liveness).
- `Presence`: one participant with two sockets, an opponent who can leave, two
  sweepers, one fault, 50 858 states. The races are between two handlers of one
  participant, or a handler and a sweep. Two faults pass too; three sockets
  take too long to repeat on every change.
- `Progression`: two players who meet twice, two seasons, two workers of each
  kind, one request, 1 093 368 states. Two matches of the same players are what
  a standing's history needs; the second worker is the rival for a match, a
  season or the rollover; a match, a batch and a request can each begin before
  the rollover and end after it. Small ratings (4, deltas of 2, a penalty of 1)
  reach the floor at zero. `ProgressionStarved` has one worker and a batch of
  one; with a batch of two, which the one match left over cannot fill, its
  property holds.
- `MatchGame`: one against one, two rounds, two requests and the sweeper, both
  playlists, 165 349 states, no symmetry. Two rounds distinguish the last from
  others; two requests form every cycle of waits the two lock orders allow (the
  worker's tick finds no game of these modes to close). One player's socket
  comes and goes. One of the two requests also reads, beside the other (readers
  change nothing, so two readers are no rivals), and one player asks for
  snapshots. `EarlyClose` has no readers and needs two against two (a
  disconnected player, the one whose guess closes the round, and one left out)
  and one round. `RankedDeadlines` is one against one, ranked only, with sockets
  that stay, since neither a leaver nor a reader is needed to see a due round
  that nobody closes.
- `Services`, 814 251 states in all: a room of three players with two calls in
  progress, capacity 2 or 3; three users, two parties of capacity 2, one invite,
  one change of the graph beside them (four when the graph is explored alone);
  two seekers, two entries, two claims, one fault; two parties of two with three
  ratings; one key, two bodies, two requests; three rounds, two tabs, two keys;
  two days of one daily game, two chains at a time and three in all; two games,
  two projections, one reader. Each is the smallest with a rival for every
  row and one repetition.
- `Realtime`, 1 516 017 states: two players of one team with a socket each on one
  instance, two events, a queue of one, `PubFaults = {"retried"}`; two messages, two
  uploads (one unfit), two requests, a failing store. The two sockets share a
  subscription that lands late and breaks as often as it likes, and an event doubled by Redis
  meets a full queue. A PUBLISH that is refused and falls back to the local hub, and
  a second instance, would take the run beyond a few minutes: `DeliveryIsExact` is proved
  with both. `RetriesOverlap` is `FALSE` here; `ChatRetries` has it `TRUE`.
- What the bounds of `Services` leave to the proofs or out: with one invite a party is
  never full (`EveryoneInOneParty` proves the capacity clause for any number); the
  pair queue has no mixed rank tiers (`PartySpreadKept`, section 7); the boards have no cache
  faults and no practice games (section 7).

`PairQueue`'s and `MatchGame`'s faults are ends of a request at any step.
Deadlock is checked in the runs of the first four modules, where no state is
final. In `MatchGame`, `Services`, `Realtime` and their violation runs it is not:
a game that is over, an expired chat, or a bound that is used up has no next
step, and `RankedMatchEnds` says of a ranked match what absence of deadlock would.

## 5. Fairness

- `TeamFormation!FairSpec`: weak fairness of each started request (handlers run
  to their end or are cut off by the deadline of `middleware.Timeout`); strong
  fairness of each user's `StartPoll` (clients poll every two seconds while
  searching, `specs/008` research.md; strong, because whether a request slot of
  the model is free comes and goes); weak fairness of `ClaimFallsDue` (time).
  Nobody must join or leave, no match must end, no fault must happen.
- `TeamFormation!SweepSpec` is the same without the clients, plus the sweep.
- `Progression!FairSpec` (used by the violated `CurrentSeasonRated` only):
  strong fairness of each worker and of `InsertMatch`, because a transaction
  that waits for a row gets its turn in PostgreSQL's queue although the row is
  taken again and again; weak fairness of deadlock detection. Seasons need not
  end, and nobody must play or read.
- `MatchGame!Fairness`: strong fairness of the steps that wait for a row
  (PostgreSQL queues the waiters; the row is taken again and again), weak
  fairness of deadlock detection, of the clock of a round, and of the deadline
  worker's tick, which every copy of the process runs each few seconds
  (`games/worker.go:24`). That tick finds no game of mode `ranked`, so
  `ViewSpec` adds `ClientsPoll`, an assumption about clients and not about this
  code: while a round is due, a client of the match asks for it or guesses too
  late, and is not kept out for ever by other requests. Nobody need guess in
  time. Without `ClientsPoll` the property fails, which is what
  `RankedDeadlines` shows. It is not claimed of casual matches, whose rounds
  have no clock of this kind.
- `Realtime!RealtimeLive` (only for `SlowClientsAreClosed`, section 7): weak
  fairness of what the instances do, of each socket's own goroutines, and of Redis
  taking each SUBSCRIBE; clients owe nothing.
- `Presence!FairSpec`: weak fairness of each socket's steps (contexts of the
  handlers have deadlines, pings are periodic). Sweeps, clients and time owe
  nothing.

`NobodyTrapped` speaks of players, not claims: after a commit whose request
died, the claim may stay in Redis while the match is played, because polls of
an assigned player answer from PostgreSQL and never look at it.
`PresenceRecovers` is stated for the *last* socket, since a ping may miss the
moments in which the count is 0. `ConnectedIsMarked` is for undisturbed
behaviours: after a failed call the marker can stay wrong (see the hazard at
`wiring_adapters.go:272`).

## 6. Proofs

Proved are all invariants and all action properties that the passing runs check, and the
three refinements, for every value of the constants: any sets of users, sockets,
instances, requests, workers, tabs, keys, games and readers, and any bounds on
tickets, claims, rounds, events, queues, faults and seasons.
Three invariants are proved that no run repeats, because each holds in every model
as soon as its neighbours do: `QueueIsSearching` (part of `IInv`),
`ClosedOnlyWhenEnded` and `ResultsKept`.

All proofs are complete and rest on the named assumptions on the constants only,
which TLC evaluates in every run that uses the module:

| Module | Assumptions |
|---|---|
| `TicketStore` | `RostersAssumption` (a roster has a member: the caller, or a full party), `BoundsAssumption` |
| `TeamFormation` | `DeadlineAssumption`, `FaultsAssumption` |
| `Presence` | `FiniteAssumption`, `OwnerAssumption`, `TeamAssumption`, `BoundAssumption` |
| `Progression` | `UsersAssumption`, `MatchesAssumption`, `TeamAssumption`, `RatingAssumption` (placements take at least one match), `EloAssumption`, `BoundAssumption`, `RowsAssumption` (a missing row is no row) |
| `GameRounds` | `PlayersAssumption` (finitely many), `RoundsAssumption`, `ScoreAssumption` |
| `MatchGame` | `TeamsAssumption`, `ModesAssumption`, `ScoresAssumption`, `FlakyAssumption` |
| `MatchViews` | `ReadersAssumption` |
| `HostedRoom` | `HostAssumption`, `CapacitiesAssumption`, `RoomFaultsAssumption`, `GuessAssumption` |
| `FriendGraph`, `Parties` | `FriendAssumption`, `PartyAssumption` (a party holds two at least) |
| `PairQueue`, `RankedSearch` | `PairAssumption`, `SearchAssumption` |
| `CommandKeys` | `KeyAssumption` (finitely many bodies under a key) |
| `SoloGame` | `SoloModesAssumption`, `SoloRoundsAssumption`, `GuessKeysAssumption` |
| `DailyChallenge` | `DailyAssumption` |
| `Leaderboards`, `SeasonPages` | `BoardAssumption`, `PageAssumption` |
| `Services` | `PartsAssumption` (a part is one of the ten) |
| `MatchChannel`, `TeamChat` | `ChannelAssumption`, `ChatAssumption` |

Some theorems have a hypothesis beside these. Those of the pair queue assume
`ClaimOutlives`, and `MatchedWhileOpen` assumes `ClaimOutlivesRequest`: a request
is over before the claim it made falls due, which the default deadlines give
(section 3, TeamFormation). `BoardsAlwaysKeepUp` assumes
`~CacheFaults`, a cache that gives its generation when asked; without it the
property is false (section 7). `AttachmentsStayOpen` assumes `~RetriesOverlap`,
completions of one upload that do not overlap; `ChatRetries` shows the property
false without it. `DeliveryIsExact` assumes `~SubFaults` (every SUBSCRIBE can be
written, though Redis may take it at any time later and the connection may break) and
`"unknown" \notin PubFaults` (no PUBLISH loses its reply, though it may fail), and
section 7 has a counterexample for each of them. Which part of the property needs
which is visible in `NoEventTwice` (the second) and `StaysSubscribed` (the first);
that nothing received is missed (`NoEventIsMissed`) and that no scene reaches the
other side (`ScenesArePrivate`) needs neither. The passing runs check no case that the
theorems leave out.

The theorems, by the property each states (the others state invariants of their
own, named in the paragraphs below):

| Module | Theorem: property |
|---|---|
| `TeamFormationProofs` | `StoreTypeCorrect`: `TypeOK`; `NoDanglingPointer`: `PointersNeverDangle`; `EveryClaimRecoverable`: `ClaimRecoverable`; `TicketsKeepStill`: `TicketsStand`; `FormationUsesTicketStore`: `UsesTicketStore`; `NoDoubleAssignment`: `OneActiveAssignment`; `InnocentsKeepTheirPlace`: `NoInnocentDrop`; `MatchedWhileOpen`: `MatchedFromOpenEntries`; `FormationTypeCorrect`: `FormationTypeOK`; and `StoreInvariant`, `QueueMatchesTickets`, `FormationInvariant`, `LateInvariant` |
| `PresenceProofs` | `PresenceTypeCorrect`: `PresenceTypeOK`; `CountIsExact`: `CountExact`; `MarkerIsRepaired`: `MarkerGetsRepaired`; `ForfeitedOnce`: `OneForfeit`; and `PresenceInvariant` |
| `ProgressionProofs` | `ProgressionTypeCorrect`: `ProgressionTypeOK`; `ClosedSeasonsAreHistory`: `ClosedSeasonFrozen`; `RatingsAreAppliedOnce`: `StandingsMatchHistory`; `PositionsAreFinal`: `FinalPositionsStand`; `LedgerIsKept`: `KeepsLedger`; and `ProgressionInvariant`, `SeasonsCloseWhenEnded`, `HistoryInvariant` |
| `MatchGameProofs` | `RowsTellOneStory`: `RowsAgree`; `MatchImplementsContest`: `ImplementsContest`; `ShownResultsStand`: `ResultsStand`; `ViewTypeCorrect`: `ViewTypeOK`; and `MatchInvariant`, `MatchTypeCorrect`, `ResultsAreKept` |
| `GatheringProofs` | `EveryoneInOneParty`: `OnePartyEach`; `NobodyQueuedUnasked`: `QueuedByConsent`; `RoomNeverAhead`: `RoomFollowsGame`; `MembersStay`: `MembershipKept`; `SearchersAlwaysServed`: `SearchersAreServed`; and `PartyInvariant`, `RoomInvariant`, `PairInvariant`, `PartiesMeetInside` |
| `ServicesProofs` | `PartyCommandsRunOnce`: `PartyKeysRunOnce`; `SoloRowsStayTrue`: `SoloRowsAgree`; `CreditsAlwaysStand`: `CreditsStand`; `BoardsAlwaysKeepUp`: `BoardsKeepUp`; `ServicesTypeCorrect`: `ServicesTypeOK`; and `KeysAreHeld`, `SoloInvariant`, `BoardEntryIsBest`, `BoardPagesFollow`, `SeasonPagesInvariant`, `ClosedPagesAreFinal` |
| `RealtimeProofs` | `ReportsAreKept`: `ReportedAreKept`; `AttachmentsStayOpen`: `AttachmentsOpen`; `DeliveryIsExact`: `DeliveredExactly`; `RealtimeTypeCorrect`: `RealtimeTypeOK`; and `ChatInvariant`, `ChannelInvariant` |

**`TeamFormationProofs`: the queue.** `IInv` is `TypeOK`, `PointersNeverDangle`,
`QueueIsSearching` and `ClaimRecoverable`, strengthened by two conjuncts.
`IssuedInv`: ids not yet issued are unused. `RecordInv`: as long as a ticket
that an issued claim names exists, it has the roster and the place of the claim
record. The last one is why late callers are harmless: `FinalizeTeamClaim`
deletes pointers by ticket id alone, and by `RecordInv` these are the pointers
of exactly the ticket it removes (or of none, when the ticket is held by
another claim; then the record's claim hash is gone as well, which
`ClaimRecoverable` implies). The state properties follow, and from the same
invariant the action property `TicketsStand`, a conjunction of `Frozen` (a claimed
ticket changes only when its claim goes) and `Kept` (roster and place never change).

**`TeamFormationProofs`: the requests.** `FInv` is `IInv` (kept, because each step is a
step of the store or leaves it alone), the type invariant, `WorkInv` (a request
holds issued claims only, and listed claims were issued), `IndexInv` (so are
those in the index), `MatchInv` (matches have issued claims, whose
records never change any more) and `OneActiveAssignment`. That every step maps
to a step of `StoreNext` or a stutter gives `Spec => UsesTicketStore`, hence
every property proved of the queue holds of the whole.

`LateInv` strengthens `FInv` for what late requests may do. `PointedAt`: every
member of a ticket points to it, unless the member has been in a match
(`EverMatched`; the release of an old claim may then have cleared the pointer).
`Good` says why each request may do what it is about to: it finalizes a claim only
if its match was made, and leaves out of the requeue only a side with a member who
is `Blockable` or `EverMatched` (`Reasoned`); while it makes a claim it has no other
claims to handle (`Maker`), and `OneMaker` keeps the claims of two makers apart. From
`PointedAt` and `Reasoned` every script's removals have one of the reasons that
`NoInnocentDrop` admits (`PlacesStand`), whether or not claims outlive requests. If
they do, `OnTime` holds too: a claim handled by a request that did not make it is
past its `recover_after`, and one to be committed is still waiting, so nobody else
can have released it (`OthersLeaveIt`) and by `ClaimRecoverable` it still holds both
tickets. That is `MatchedFromOpenEntries`.

**`PresenceProofs`.** `PInv` is the type invariant, `CountInv` (`CountExact`),
`MarkerGetsRepaired`, `ForfeitInv` (`OneForfeit`) and `SweepInv` (what a sweeper
holds). `MarkerGetsRepaired` is not inductive without `CountExact`: a marker
could be set while a socket is counted by accident. With it, an open socket is
counted, so no heartbeat acquires a second time, and `MarkDisconnected` itself
leaves the handler at `recheck`.

**`ProgressionProofs`.** `PInv` is the type invariant, `OneActiveSeason`,
`SeasonsKnown` (matches and requests have a season, none is formed twice),
`WorkersInv` (a worker's matches have ended, and one that is being rated is of
the active season) and `Exclusive` (the season's row has one holder, and who
closes the season found it due). `ClosedSeasonFrozen` needs the last two
together: a rating transaction found its season active when it locked the row,
and nobody can close the season before it is done. `ClosedOnlyWhenEnded` needs
that `due` can only be reset by the one roller that holds the row. The types
need `LastSeason` (a nonempty set of seasons has a last one, from the
well-foundedness of `<`) and that no rating is negative.

`HInv` adds the history. `RatedOnce`: a transaction that holds a match's row found
the match unrated, and is alone with it. `ChangesInv`: a match has a rating change
for each of its players exactly when it is rated, with the match's season and an
earlier time than now. `HistoryInv`: a standing counts the matches in its player's
changes of the season (`Counted`), and the changes form a chain, each beginning
with the rating where the one before it ended and the last ending with the
standing's (`Chained`). `StandingsMatchHistory` follows. A rating adds one match
that is later than all others to the history of each of its players; that it was
not there yet is where `RatedOnce` is needed. `Positions` says that the frozen positions
of a closed season are those of its standings: `Ahead` is a strict total order on
the eligible players, so counting who is ahead gives the ranks 1..n.

`LedgerIsKept` maps each step to one of `SeasonLedger` or a stutter: `RateMatch` to
a rating (the worker's match is unrated by `RatedOnce` and of the current season by
`WorkersInv`), `CloseSeason` to the turn of the season (freezing a row leaves its rating),
`InsertStandings` to the entry of players, for which `RequestsTimely` is needed: a request's
season has begun. All other steps are invisible.

**`GameRoundsProofs`.** The sums of `GameRounds` are folds over finite sets, whose
induction theorem takes an operator as a parameter. The module derives what it
needs without one: a set of numbers has a least member (`LeastNumber`), so a claim
about sums has a least counterexample, and there is none. With it, a sum changes
with one of its terms, by as much (`SumChanges`), a team's total stays the sum of its players'
scores under every operation of the record, and `GreaterOfTwo` and `LesserOfTwo`
say what the community modules' `Max` and `Min` of two numbers are.

**`MatchGameProofs`.** `MInv` is the type invariant, `RowsAgree`, `DecidedInv` (a
match is undecided exactly as long as it is live, and rated for what was decided),
`SoundInv` and `Exclusive` (no row is locked twice). `SoundInv` says what each
transaction has read under the locks it holds, at each of its statements, and that
it is still so: who holds the game's row knows its open round; who closes the last
round holds the match's row, or rounds are pending. A write to a row that
a transaction holds is its own by `Exclusive`, and no other step disturbs what it
read. `MatchImplementsContest` maps each transaction to a step of `MatchContest`
or a stutter: `Commit` of a guess to a score, of the last round and `EndMatch` to
the decision, `PostCommit` and `RetryRating` to the rating. `ResultsKept` (a
completed round keeps its guesses, a decided match its verdict) then carries `ViewInv`: what a reader
has put together so far is part of rows that are not written again, so
`ResultsStand` holds although no transaction spans its statements.

**`GatheringProofs`: parties.** `PartyInv` is the types, `NamesInv` (requests and
invitations name what exists), `OnePartyEach` and `ReadyInv` (a ready member was
vouched for the roster as it is). `OnePartyEach` survives concurrent accepts
because `AcceptInvite` looks again under its locks, whatever `StartAccept` read.
`QueuedByConsent` follows at the step that takes the roster to the queue from
`ReadyInv`, as every change of a roster clears its ready players.

**`GatheringProofs`: rooms.** `RoomInv` is the types, `LobbyInv` (an active lobby
game has one open round), `CallsInv`, `RowsHeldOnce` and `RoomFollowsGame`. Room
calls lock the room and then the game, the game's hooks the game and then the room;
`CallsInv` says for each call what it found under the one lock it holds between its
two steps: that there is a place for who joins, that the game has not begun, or that the
guess or deadline ends it; and of an outcome still to be published, that it says the
game is over only if it is. `MembershipKept` is read off the steps.

**`GatheringProofs`: searches.** `PairInv` is `QueueInv` (a searching player's entry is in the
queue and leads back to the player; a claimed one's claim exists and names the
entry; nobody's entry of a live claim is held by anything else) and
`PairCallsInv`: requests that make or recover a claim never do so at the same time, because
recovery begins when the claim falls due, its maker being over (`ClaimOutlives`).
That separation is what the invariant is for: without it a late release would free
entries of a match that was just made. `SearchInv` says that parties that met are
compatible, and stays true because a window never narrows with waiting
(`WindowsWiden`); `PartiesMeetInside` holds for any ratings and team size.

**`ServicesProofs`: command keys.** `KInv` is the type invariant and three parts.
`HolderInv`: while a request works on a key under the hash, the key's value is
pending for that request's body, and no other request works on it. `RunInv`: once
a body has run, the hash stays with it, pending or completed, because a claim is
released only by a request whose command failed. `AnswerInv`: what a client was
told is what ran. `PartyKeysRunOnce` follows from the last two and is not
inductive alone: nothing in it keeps a second request from beginning between the
run and the completion of the first.

**`ServicesProofs`: solo games.** `SoloInv` replaces the many clauses of
`SoloRowsAgree` by one: there is a `Stage`, the round that play has come to, with
all rounds before it completed and all after it untouched; scores count guesses and
keys are stored once. `TabsInv` says which row each tab holds (guesses the
game before the round, timeouts the round before the game).

**`ServicesProofs`: challenges.** `DailyInv`: attempts of a day are numbered without
a gap; a chain has done what its place in the order says (`SoundHook`), and the
streak it read is a run of days that were played (`RunWithin`). Days played only grow, so
a streak written late is still such a run. Missions count distinct events, and
experience is the number of awards and claims.

**`ServicesProofs`: boards and pages.** `EntryInv`: only completed games are
projected, and the entry is the best of them. `BoardPagesInv`: all readers under
the current version began with the same announced commits, and a cached page is no
older (`FitsRead`). `PagesInv` is the same for season pages, where a generation is
one more than the announcements made, and an announcement may be late (`KeptPage`,
`SoundReading`); that a closed page shows the final standings needs no
hypothesis on the cache (`ClosedPagesAreFinal`).

**The services' types.** In `ServicesTypeCorrect` every service keeps its types
whichever part runs, since each part takes its own step or none (`ServicesParts`). For
rooms, parties, solo games and season pages the invariants above include the types; the
others are proved here. Those of the pair queue are kept apart from `PairInv`,
because they hold without `ClaimOutlives` (`PairShapes`: rows, and for each point of a
request whether it has a claim and knows what follows). What is not obvious is that
counters end at their bounds: of a key's runs, because the sum over its bodies is compared
and one term grows by one (`RunsCounted`); of a streak, because what it counts are
distinct days (`RunsAreDays`); of what a board's entry counts, because those are games
that were played, each once.

**`RealtimeProofs`: chat.** `ChatInv` is the types, the shapes of requests and
sweeps (`ChatShapes`), `UnderLock` (a message is inserted under its author's lock, below
the limit) and `SweptAreDue` (messages are swept when the match is old enough, reported
ones when they may be forgotten). The sweep lists in one call and deletes in another, and
`ReportsAreKept` needs that no report comes in between: what it has listed is of a match
so old that its chat takes no more reports. `FilesInv` adds what attachments need when completions do not
overlap: `OneCompletion`; `UploadAtCall` and `KeysMatch` (what the row of an upload says
of its objects at each point of a completion); `Attached` (what a standing message
shows is completed, stored and sanitised); `SweptAreLoose` (what a sweep
has listed is not attached, or goes with its message) and `RequestsEnd` (a request is over long
before the match is old). `AttachmentsStayOpen` follows.

**`RealtimeProofs`: channel.** `ChannelInv` has seven parts. `ChannelShapes` and
`CommandsInHand`: the event that a command has drawn is its own, of its player, and not
yet published. `InFlight`: only published events travel, only to their audience, and
a queue has its bound. `ViewAudiences`: a view is for players who have guessed and
are on the right side, which stays true because a guess is never taken back.
`References`: an instance's count is at most the number of its sockets between subscribing and
hanging up, and if every SUBSCRIBE can be written it is that number; while it is not zero the
instance is subscribed or has asked; and a socket is `steady` only while its instance
is subscribed. `OneWay` (when a failed PUBLISH carried nothing): what Redis carried is
not also delivered locally, and a socket has an event once, across its queue and what it
has got. `AllArrives`, without a hypothesis: what the instance of a live socket has received
since its snapshot is with the socket, and for a steady socket what was published since
is with it or on the wire; a break of the connection cuts the wire and ends
the steadiness of every socket of the instance in one step, and a socket that takes its snapshot before
the SUBSCRIBE lands is not steady at all. `DeliveryIsExact` puts the parts of
`DeliveredExactly` together.

Only model-checked is what is temporal beyond `[]`: `NobodyTrapped`,
`PresenceRecovers`, `ConnectedIsMarked` and `RankedMatchEnds`, since liveness and
fairness are outside the prover's reach.

## 7. Findings

Each of the four runs checks one property that TLC violates; the details and the
quoted lines are in `PROJECT.json`.

- `PresenceReconnected`: a sweep forfeits on what it read before; a participant
  who is marked connected in between is forfeited, which the comment in
  `Disconnected` says never happens.
- `ProgressionStarved`: a ranked match that missed its season's close can never
  be rated and never leaves the list of pending matches; as many of them as a
  batch holds, and no match is rated any more. `ClosedSeasonFrozen` is the good
  side of the same refusal.
- `RankedDeadlines`: the deadline worker's query lists games by mode and has none
  for the mode that formation stores for ranked matches, so a ranked round whose
  players stay connected and send nothing more is never closed
  (`games/repository.go:768`, `matchmaking/repository.go:556`;
  specs/012 quickstart.md:299). With that mode in `SweptModes`, `RankedMatchEnds`
  holds in this run too.
- `ChatRetries`: an upload completion repeated while the first still runs rejects
  the upload that the first completed; a day later the clean-up deletes an image
  that a standing message shows.

### Further counterexamples

These properties are defined in the modules with the sentence they quote, and TLC
violates each. Five have a configuration of their own:

| Configuration (module) | Property | What happens |
|---|---|---|
| `AssignedSearching.cfg` (`MCTeamFormation`) | `AssignedNotSearching` | a join that overlaps the formation of the same player's match leaves an assignment *and* a searching ticket (specs/012 FR-004); `OneActiveAssignment` bounds the damage |
| `AbandonedClaims.cfg` (`MCTeamFormation`) | `AbandonedClaimsRecover` | the claim sweep reconciles the pair queue's claims only; an abandoned *team* claim waits for client traffic |
| `PresenceLastClose.cfg` (`MCPresence`) | `LastCloseIsRecorded` | the repair in `Disconnected` overtakes a later final close and leaves the marker `active` with no socket open |
| `ProgressionSoftReset.cfg` (`MCProgression`) | `SoftResetApplied` | a ranked queue join that comes first creates the new season's row at the initial rating |
| `EarlyClose.cfg` (`MCMatchGame`) | `EarlyCloseLeavesNobodyOut` | guesses of disconnected players count against the active ones (`games/repository.go:1131`), so a round closes as answered by all and zero-fills an active player ("missing guesses should not exist", `:1183`) |

For the others, take `Services.cfg` (or `Realtime.cfg`), set `Parts` to the one
part named, and check the one property.

| Part | Property | Change | What happens |
|---|---|---|---|
| keys | `SharedCreatedOnce` | | the stored answer is read before the lock is taken (`challenges/service.go:827-846`): a second challenge is created under one key (specs/005 research.md:85) |
| search | `PartySpreadKept` | | the spread compares tiers counted from 0 and from 1 (`rating_window.go:100`, `:87`, `competitive/rating.go:167`; specs/012 FR-021) |
| challenges | `RepeatChangesNothing` | | a chain repeated after another day's moves the streak again (`challenges/service.go:960`, `:929`; `games/service.go:1132`) |
| boards | `PracticeStaysOut` | `PracticeGames = {g2}` | practice games are read as candidates (`leaderboards/repository.go:426`, `:467`; specs/013 FR-022) |
| parties | `QueuedPartyStands` | | a queued party changes its members (`parties/model.go:18`, `repository.go:826`; specs/012 data-model.md:48) |
| parties | `BlockedKeptApart` | | a block after the invitation is not looked at again (`parties/service.go:471-561`; FR-019) |
| rooms | `RoomCompletesWithGame` | | a poll that closes the last round completes the game without the room (`games/service.go:384`; `rooms/repository.go:256`) |
| seasons | `BoardsKeepUp` | `CacheFaults = TRUE` | a cache that cannot give its generation is taken for generation 1 |
| channel | `MarkerStandsOnceGuessed` | | `MarkGuessLocked` (`redis/matchplay.go:267`) has no caller: a marker moves after the guess (FR-020) |
| channel | `VersionsGrow` | | service events and live events draw from two counters (`redis/matchplay.go:159`, `realtime.go:311`) |
| channel | `SlowClientsAreClosed` | `SPECIFICATION RealtimeLive`, no `SYMMETRY` | a client that the hub dropped keeps its socket while it stays silent (`realtime/match_handler.go:275`) |
| channel | `SnapshotLeavesNoGap` | | an event published after the snapshot and before Redis has taken the SUBSCRIBE, or while the connection is broken, is never sent; no fault is needed. The tests wait for it ("Allow Redis subscription to propagate", `realtime_pubsub_test.go:90`), and clients are to fetch a snapshot when versions skip (specs/012 data-model.md:342) |
| channel | `DeliveredExactly` | `SubFaults = TRUE` | a failed SUBSCRIBE is ignored, and its deferred unsubscribe still counts down |
| channel | `DeliveredExactly` | `"unknown"` in `PubFaults` | a publication whose reply is lost is carried *and* delivered locally |

And with `MatchGame.cfg`, checking this one property instead of its own:

| Property | What happens |
|---|---|
| `UnrevealedScoresHidden` | from the first revealed round on, a snapshot shows an opponent's total with the score of the open round in it (`matchplay/service.go:663`; casual-ranked-openapi.md:246) |

## 8. Not modelled

Whole components: auth and sessions (planned, section 2); profiles, users, home,
maps and locations, which read and update rows without a protocol; workers, HTTP,
middleware, configuration, storage and clock adapters, which are plumbing; the
web client.

Inside the modelled parts: event payloads, error wording, logging and metrics;
the order of a roster in the team queue; the scoring and Elo formulas (any score,
any pair of deltas); ranks and cursors of boards; ready flags, names and codes of
rooms; lobby and party channels (the same hub as the match's); image processing;
row locks inside a transaction, except where `Progression`, `MatchGame`,
`HostedRoom` and `SoloGame` name them; a participant who never opens a socket
(never marked disconnected); and an API process that dies with a socket open,
whose marker stays `active` and whose count runs out by TTL: the model has these
steps, but no property promises anything for them.

Seen while reading, and without a property:

- `DeleteRoundKeys`, `ExpireRoundKeys`, `SetReconnectWindow`, `GetTeamMarkers` and
  `CleanupExpiredUploads` have no caller;
- `CreateTeamGame`, `CreateTeamGameBundle`, `TeamAveragesCompatible` and
  `PartySpreadFromStandings` have no caller either: matches are created by
  `CreateTeamFormationBundle` and paired by the claim script;
- an overdue invite is marked expired in a transaction that then returns an error
  and rolls back (`parties/repository.go:391-397`);
- the first bump of a board's version is no change, because a missing version
  reads as the value the bump writes (`leaderboards/cache.go:67-95`);
- a snapshot may show one round as open and as revealed, because two statements
  read the two (`matchplay/repository.go:26`);
- two rank recomputations of a daily may overlap (`challenges/repository.go:744`);
- a clean-up that dies after `DeleteMessages` leaves files and objects behind
  (`matchplay/cleanup.go:158-190`): nothing shows them, nothing deletes them;
- a party command whose answer cannot be stored leaves its key pending for a day;
- a solo game with a timer whose deadline has passed stays open: guesses are
  refused (`games/repository.go:413`) and ExpireRound serves daily games only
  (`games/service.go:898`).
