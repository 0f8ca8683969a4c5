# DDNet-PvP server: TLA+ models and proofs

DDNet-PvP is a Teeworlds/DDNet server with *rooms*: one process hosts up to 64
independent matches (deathmatch, team deathmatch, CTF, LMS, LTS, FNG, catch) on
one map. This directory models the parts of it whose correctness depends on
the order of events, checks them with TLC on small instances, and proves what
matters most with TLAPS for every value of the constants. Paths below are
relative to `src/src/`.

## The system

| component | state | operations | hard because | modelled in |
|---|---|---|---|---|
| match controller (`game/server/gamecontroller.cpp`, one per room; `gamemodes/*`) | game state and timer, team sizes, ready states, pause request, sudden death, settings | joins, leaves, team changes, ready and pause requests, settings, rcon commands, `Tick` | handlers call each other deeply (a leave may start a match that balances the teams that the leave is counted in); timers race players; the pause flag lives in another object | `Match` |
| players (`game/server/player.cpp`) | team, ready, dead spectator mode, pending spawn, respawn permission | spawn, die, spectate, change team | flags are written by the player, the controller and the world at different moments | `Match` |
| rooms (`game/server/teams.cpp`, `game/teamscore.cpp`, chat commands) | which client is in which room; per room instance, lock, invitations, pending reload | create, destroy, join, invite, lock, reload; `OnTick` runs all rooms | rooms are destroyed from inside their own tick (votes); reloads are delayed; slots and room numbers are used again | `Rooms` |
| game context (`game/server/gamecontext.cpp`) | players, votes, chat | message handlers, votes, snapshots | votes run commands that end the room they are held in; a login changes a team from a thread of its own | kick votes in `Rooms`, team messages and logins in `Match` |
| reliable connection (`engine/shared/network_conn.cpp`) | sequence numbers, acks, resend buffer, handshake state | queue, flush, feed, resend, time out | packets are lost, duplicated, reordered; 10-bit sequence numbers wrap; bounded buffer | `Connection` |
| job pool (`engine/shared/jobs.cpp`) | queue, running jobs, semaphore, shutdown flag | add, run, abort, shut down | real threads; a job changes hands without being in any list | `JobPool` |
| HTTP (`engine/shared/http.cpp`) | pending and running requests, shutdown | hand over, wait, shut down; the thread's loop | real threads; libcurl may fail at any point; the lock is kept from an error to the end | `Http` |
| exit of the server (`engine/server/server.cpp`, `main.cpp`) | | leave the loop, delete the registration, stop pool and HTTP thread | threads that wait for each other are stopped one after the other | `Background` |
| registration (`engine/server/register.cpp`) | one protocol state per address family | announce, answers, retry | answers and tokens come late, in any order, or not at all | `Register` |
| world and entities (`gameworld.cpp`, `entities/*`), physics core | entity lists, positions | insert, remove, tick | floating point | no |
| server slots (`engine/shared/network_server.cpp`, `engine/server/server.cpp`) | slot states, security tokens, client states, timeout protection | accept, drop, rejoin, drive map download, enter | stateless and vanilla handshakes; a returning client takes its old slot | no |
| econ, bans, snapshots, database pool, ring buffer and heap, packing, compression, files, demos, console, configuration, OS layer | | | data structures, codecs, I/O | no |

The game runs on the main thread: a network message, a console command and a
room's tick run to completion. What makes it hard is *re-entrancy* and the free
order of those handlers. The other threads are the workers of the job pool, the
HTTP thread, the loggers and those of logins: `/timeout` and `/login` each start
a detached thread (`ddracechat.cpp:263`, `:870`) that waits for the answer of the
Axiom service and calls `CGameContext::LoginAxiom` (`gamecontext.cpp:3991`). That is
the one place where another thread writes to the game: `SetTeam(0)` changes a
player's team without a lock and without its controller (`Login` in `Match`).

## Modules

| module | what it is |
|---|---|
| `Match`, `MatchProofs`, `MatchPlayersProofs` | one room's controller, with the part of `CPlayer` it drives and with the room's creation and soft reload as `CGameTeams::OnTick` runs them |
| `MCMatch` | constants of `Match` for TLC |
| `Rooms`, `MCRooms`, `RoomsProofs` | `CGameTeams`: all rooms, the clients in them and the loops of `OnTick` |
| `Connection`, `MCConnection`, `ConnectionProofs` | the two ends of a connection and the network between them |
| `ReliableChannel` | what a connection promises; `Connection` implements it |
| `JobPool`, `JobPoolProofs` | `CJobPool`: worker threads, the main thread and the owners of jobs |
| `TaskPool` | what a pool promises; `JobPool` implements it |
| `Http`, `HttpProofs` | `CHttp`: its thread and the threads that use it |
| `Background`, `MCBackground`, `BackgroundProofs` | the composition of `JobPool` and `Http` with the main thread, up to the exit of the server |
| `Register`, `MCRegister`, `RegisterProofs` | `CRegister`, its jobs, the master server and the network between them |

How they meet. `Match` is one room and `Rooms` is all of them: `Rooms` keeps of a
controller only the number of its players, its vote to kick and whether it is
ready, and decides who joins, who leaves and when a controller is created,
loaded, reloaded and destroyed; `Match` takes joins, leaves, loading and soft
reloads in any order, which is more than `Rooms` lets happen. A room and a
connection share nothing but the messages that a player's client sends: `Match`
and `Rooms` take them in any order, which is what `Connection` justifies for one
client (in order, once) and leaves free between clients. The requests of
`Register` are jobs of `JobPool` that wait for `Http`: `Background` composes the
two, and `Register` takes from them that a request ends, in any order with the others.

### Match: state and actions

The variable `room` is a record; each field is a member of `IGameController`,
`CGameWorld` or `CPlayer` (the comments on `Room` and `Player` give the names
that differ). The code's functions are operators from a room to a room under
their own names (`StartMatch`, `ResetGame`, `TryStartWarmup`,
`CheckReadyStates`, ...). `SetGameState` is split by target state:
`WaitForPlayers` (IGS_WARMUP_GAME), `ToWarmup`, `ToCountdown`, `ToPaused`,
`ToRunning`, `EndMatch`, `EndRound`; a refused transition is the identity, as
in the code. An action is a whole handler: what a client message, a console
command or a tick does from its first to its last call, composed of those
operators in the code's order. The loops that call `DoTeamChange` once for each player
(`swap_teams`, `shuffle_teams`, `set_team_all`, and the balancer in `Tick`) are
split into one step an iteration, and no other handler is enabled until the loop
is over, so their atomicity is the code's.

| action | code |
|---|---|
| `Join`, `Leave` | `OnInternalPlayerJoin`, `OnInternalPlayerLeave` |
| `SetTeamMessage`, `SetTeam` | NETMSGTYPE_CL_SETTEAM; rcon `set_team` and the inactivity check |
| `RequestPause`, `ToggleReady` | `OnPlayerReadyChange` |
| `Login` | `LoginAxiom` on the thread of a `/timeout` or `/login` |
| `AskRespawn`, `Spawn`, `Die` | `CPlayer::Respawn` / `TryRespawn`, `OnInternalCharacterDeath` (survival modes) |
| `Pause`, `Restart`, `SetMinimumPlayers`, `SetCountdown`, `SetPlayerReadyMode`, `SwapTeams`, `ShuffleTeams`, `SetTeamAll` + `CommandStep` | console commands and their chains |
| `Tick`, `TickBalances` + `BalanceStep` | `IGameController::Tick` then `CGameWorld::Tick`; the second form when `DoTeamBalance` runs |
| `FinishSetup`, `LoadTick`, `StartController`, `SoftReload` | `CreateGameInstance`, the entity loop of `OnTick`, `StartController`, a `map` reload |

`Login` is an environment of the controller: it kills the player's character and puts the
player on team 0, and nothing else. It may come between any two steps, those of
a loop included. The second variable, `loggedIn`, remembers who has logged in
while in the room; only `Login` reads it, as `LoginAxiom` reads `IsLoginAxiom`: a client
logs in once. `Accounts` are the clients that can. A
login leaves two lies behind: the counted sizes, and a spectator who plays
without having been asked for readiness. The properties that rest on either
say `NoLogin`, that is, they are promised until the first login (with one, TLC
refutes them; see the findings), and so does `EmptiedRoomWaits` of rooms with teams. The
others are about what the controller has counted and hold with logins:
`NoWaitWithEnoughPlayers`, `StartsWithEnoughPlayers`, `RespawnInWarmup` and `PauseCoherence`
by proof, `DecidedRoundEnds` and `GameGoesOn` by the run `MatchLMS`.

Abstractions. Scores, limits and positions are gone: a win check has any outcome
the game type allows, a balancing run moves any players of the bigger team (the
code picks by score). Deaths and spawns are tracked in the survival modes only,
where the rules read them. `m_UnbalancedTick` keeps `CHECK`, `OK` or "since some
tick"; the balancing delay is any number of ticks. `m_GameStartTick` is reduced to
"equals the current tick", which `GetStartRespawnState` reads. Left out, and to
be kept in mind when reading results:

* the hooks CTF, FNG and catch override (`CanPause`, `CanChangeTeam`,
  `CanBeMovedOnBalance`, `IsDisruptiveLeave`), votes, chat and broadcasts;
* commands inside the settings that create a room other than settings
  themselves; `warmup`, `match_swap`, `reset_on_match_end` and slot limits are
  chosen at creation and fixed;
* a login in the middle of a handler that is one step, or of its own `SetTeam`; the takeover of a
  timed out client by another of the same account (`SetTimedOut` in `LoginAxiom`), and what the
  service answers: whether it lets an account log in is open;
* `DoTeamBalance` inside `ResetGame` switches teams only. The rest of
  `DoTeamChange` has no effect there unless the sizes are already wrong (the
  findings on leaving and on logins). Then the last player moved may be the last one
  counted, and `TryStartWarmup` resets the match to the state in which the callers of
  `ResetGame` leave a room without players anyway; only in a survival game the
  flags of the players moved may differ. The same holds of `match_swap` at the end of a match,
  after which such a room is in `WARMUP_USER` here and may be in `WARMUP_GAME` in the code;
  both wait for players without a time limit;
* no score or time limit is met in the very tick in which a match is resumed;
* LMS `OnWorldReset` (sudden death cancels spawns by score).

### Connection: state and actions

`conn[e]` is the `CNetConnection` of end `e` with the packet its
`CNetRecvUnpacker` is unpacking; `net[e]` is the set of packets in flight to
`e`. A packet stays in the set when it is received, so it may be received again
at any time until `Lose` takes it: loss, duplication and reordering in one.
`sent` and `delivered` are history, and so are the numbers `data` and `acked`,
which say what a wrapping sequence number stands for; no guard of the code's
part reads them.

| action | code |
|---|---|
| `QueueChunk` | `QueueChunk`, `QueueChunkEx` with the flushes it causes, and the `Flush` that `CNetServer::Send` and `CNetClient::Send` add |
| `Update` | `Update`: the resend of the oldest chunk, the flush after 500 ms, the keepalive |
| `Feed` | `Feed`: the test of the ack, the resend on request, CLOSE, `AckChunks`; then the start of unpacking |
| `FetchChunk` | one round of `CNetRecvUnpacker::FetchChunk`: in sequence, old, or a gap that asks for a resend |
| `TimeOut`, `ProtectionOver` | the other branches of `Update` |
| `Disconnect` | `Disconnect` and `Reset`, called by a drop or for a connection in state ERROR |
| `Lose` | the network |

Between two `FetchChunk` steps the application may queue chunks or disconnect,
as the handlers of messages do; `Feed`, `Update` and `TimeOut` wait until the
packet is unpacked, as `PumpNetwork` does. `Update` may find either clock test
true. Sizes in bytes are counts of chunks: the space test of `QueueChunkEx`
fails when `PacketChunks` chunks are packed, `Allocate` fails when
`BufferSlots` are kept. Left out: the handshake (CONNECT, PENDING),
`m_UnknownSeq`, `SetTimedOut`, tokens, chunks that are not vital (they carry no
sequence number and promise nothing).

### Rooms: state and actions

`team` and `size` are `m_Core.m_Team` and `m_TeamSize`, `inst` the controllers and
`room` what `CGameTeams` keeps of a room by its number. A client is out, connecting
or in the game. `visit` numbers the players that use a slot one after another: the
code does not tell them apart, the properties do. `crashed` is history: it says
that a handler goes on in a controller that `SetForcePlayerTeam` has deleted.

| action | code |
|---|---|
| `Connect`, `Enter`, `Disconnect` | `CGameContext::OnClientConnected`, `OnClientEnter`, `OnClientDrop` with `OnPlayerConnect` and `OnPlayerDisconnect` |
| `JoinRoom`, `CreateRoom` | `/room join`, `/room create` with `SetPlayerTeam`, `SetForcePlayerTeam` |
| `SetLock`, `Invite`, `Uninvite` | `/room lock`, `/room unlock`, `/room invite`, `SetClientInvited` |
| `CallKickVote`, `CallServerVote` | the kick vote of NETMSGTYPE_CL_CALLVOTE; a vote of the server |
| `AskReload` | `gametype` (soft) and `map` (hard) of a room |
| `BeginTick`, `TickRoom` | the first loop of `OnTick`, a room a step: the reload of the room, or the `Tick` of its controller, in which a vote may fail (`VoteFails`) or pass (`KickFromServer`, `KickFromRoom`) |
| `CreateEntity` | one round of the loop over entities and the test of the loop around it |

`Instances`, `RoomsAfter`, `Vacates` and `MoveTo` are the parts of
`SetForcePlayerTeam` and `m_Core.Team`, which all of these share. `Rooms` leaves
out: whether the two of a kick vote have characters (any call may be refused), the super room, spectators, the delays between two commands, the votes
that list rooms and game types, and the settings of a new room. Commands wait
while `OnTick` runs, as in the code.

### JobPool, Http, Background: state and actions

An action is what a thread does between two points at which another thread can
see the difference: a section under a lock, an operation on a semaphore or on an
atomic state. `job[w]` is the job a worker holds; between `FetchJob` and `Push` the
job is in no list at all, which is what the proof is about.

| action | code |
|---|---|
| `Add`, `AddSignal` | `CJobPool::Add` up to and after the semaphore |
| `Shutdown`, `AbortQueued`, `AbortRunning`, `WakeWorkers`, `Join` | `CJobPool::Shutdown`, a section a step; the queue that is left may be in any order that `AbortQueued` can leave |
| `Wait`, `FetchJob` or `FindNoJob`, `Start`, `Push`, `RunEnds`, `Erase`, `Finish` | `CJobPool::RunLoop` |
| `Abort` | `IJob::Abort`, by the job's owner at any time |
| `Run`, `Close` | `CHttp::Run`, `CHttp::Shutdown` |
| `Poll`, `Perform`, `PerformFails`, `TakePending`, `BeginTransfer`, `BeginFails`, `RoundOver`, `Stop` | `CHttp::RunLoop`; libcurl is external: it may fail at each of these points, a transfer ends with any result |
| `JobRequests`, `JobWaits` | `CRegister`'s job: `CHttp::Run`, then `CHttpRequest::Wait` |
| `DeleteRegistration`, `Leave` | `CRegister::OnShutdown`, the end of `CServer::Run` |
| `DestroyHttp`, `DestroyServer` | `~CHttp` in the destruction of the kernel, after the pool's shutdown: `CHttp::Shutdown` once more, which changes nothing after that of `Leave`, then the wait for the thread |

A job of another kind makes no request and just runs. The threads of logins hand
requests to `CHttp` like anybody else, but nobody waits for them on the way out; what they then
do to a game that is gone is not modelled. Left out: files that
requests are written to, aborting a request, failures of `CHttp::Init`.

### Register: state and actions

`flight[p]` holds the requests of protocol `p` that are not yet worked off, oldest
first; a request carries the serial of the info, whether it has the info with it, and its token. The code compares
`m_Index` of requests only with one another, so a place in the sequence and the flags `newest` and
`overtaken` stand for it.

| action | code |
|---|---|
| `Update`, `OnToken` | `CProtocol::Update`, `CProtocol::OnToken` with `CheckChallengeStatus` and `SendRegister` |
| `OnNewInfo`, `OnConfigChange`, `OnShutdown` | the same in `CRegister` |
| `TimePasses` | the clock reaches `m_NextRegister` |
| `NoteAnswer`, `Count` | the two sections of `CJob::Run`, under the protocol's lock and the shared one |
| `Serve`, `ServeDelete`, `LoseRequest`, `LoseMail`, `MasterRestarts` | the master and the network (external) |

Left out: settings that change before the first `Update` with an info, the tw0.7
protocols, which `OnConfigChange` always disables, and how long the master keeps
a server that does not register again.

### Bounds

`TickSpeed = 1` and `TimerEnd = 2` scale timers down: what matters is that a
timer runs for some ticks, for one, or not at all, and all three occur.
Players: 2 for survival liveness (a round needs two and both may die), 3 for
deathmatch (a minimum of 2 can be lost and regained while one stays), 4 where
ready states meet and where teams are balanced (3-1 is the smallest unbalanced pair that can be balanced),
5 for `MatchLeave` (3-2 after a leave that makes 3-1). Configuration sets in
`MCMatch` contain each setting at its values that change control: warmup and
countdown 0 and 1, every ready mode, `pause_per_match` 0 and 1, and so on. Players
are symmetric in runs without liveness properties, those with an account apart
from those without. `MatchSettings` and `MatchLMS` have one account: one login
makes the sizes wrong and wakes an unready player, and a second one can only do the
same to somebody else. The other runs of `Match` have none, because what they check
is promised until the first login.

`MCRooms` has three rooms, so that two can be left and created beside room 0, and
three parts: two clients whose players are each replaced once by another
(`MaxVisits = 2`), who lock, unlock and invite; three clients who call votes to kick (the
caller may leave, the victim may move, a third may join); two clients and
`MaxReloads = 2` reloads. A room has two entities and a tick creates two
(`MapEntities`, `EntitiesPerTick`): two rooms that load together need more than a
tick, and the limit is met in the middle of a round over the rooms. `MCBackground` runs the
pool by itself (three jobs, two workers, so that a job waits), the HTTP thread by itself (three
requests) and both with the main thread (a job with a request, and a deletion).
`MCRegister` runs one protocol with two requests in flight (`MaxFlight`), so that
answers overtake each other, and two protocols with one each, which share the
serial; `MaxEvents = 2` lets a loss meet a restart or a new info. The parts of
a run are checked together and the theorems below need none of these bounds.

In `Connection`, `MAX_SEQUENCE` is 1024 in the code and 5 in the runs, so that
the numbers wrap within the 7 chunks of `ConnSafe`. Two bounds are assumptions
on the surroundings, as any protocol with wrapping numbers needs them. `Window`: an
end has fewer than `MAX_SEQUENCE / 2` chunks unacknowledged. A chunk that is not
acknowledged for `conn_timeout` (5 s) ends the connection, so to break it an end
would have to queue 512 vital chunks in that time.
`Lifetime`: the network does not keep a packet while a whole round of sequence
numbers is queued. Without the second, an old duplicate is taken for a new chunk;
without the first, a new chunk for an old one. The runs take a window of 2 of 5
and two packets in flight to the client and one to the server, which lets an
old copy, an old ack, a gap and a request for a resend meet. Only the server
queues chunks in the runs: the two directions share nothing but packets, and
the theorems cover both.

### Fairness

* `Match` (`FairSpec`): weak fairness of the end of a room's setup, of the end of its
  loading and of the ticks (with the loops inside them): the main loop of
  `engine/server/server.cpp` calls `OnTick` forever and every `OnTick` creates
  further entities of a loading room. Nothing is assumed of players, console or deaths.
* `Rooms` (`FairSpec`): weak fairness of the steps of `OnTick`, for the same reason.
* `Connection` (`FairSpec`): applications fetch the chunks they are given (the loops of
  `PumpNetwork`); both ends call `Update` again and again, with both timers due again and
  again (strong fairness, because the end is now and then busy unpacking); a packet does not
  stay in flight for ever; of the packets with a new chunk or a new ack, sent again and
  again, one gets through (strong fairness of `FeedNews`, the least a network must do);
  an end that hears nothing from a peer that is gone times out, and an end in state ERROR
  is dropped by an `Update` of `CNetServer` or `CNetClient`. `CNetServer::Update` keeps such a
  connection while its client is under timeout protection or would leave a match disruptively
  (network_server.cpp:134); both are taken to end, so `BothEnd` says nothing of how long that takes.
* `Background`: every thread that can go on does, and the main thread does not stop on its
  way out (weak fairness). A transfer ends (strong fairness of `EndTransfer`, which is
  possible only when the thread performs): each request of the server has a time
  limit (engine/shared/http.h:285). Nobody need add a job, abort one or leave.
* `Register`: the main loop and the workers go on, time passes, and what is not
  lost arrives (weak fairness); tokens are taken with strong fairness, because
  the bound on requests in flight, which the code does not have, can disable `OnToken` for a while.

## Runs

| run | instance | shows |
|---|---|---|
| `MatchSettings` | deathmatch, 3 players, one of whom may log in; settings, pauses, restarts, forced teams, reloads at any time | `TypeOK`; `NoWaitWithEnoughPlayers`; `StartsWithEnoughPlayers`; `EmptiedRoomWaits` |
| `MatchReady` | TDM, 4 players, ready modes 1 to 3, with and without pause limit, rcon `pause` and `set_team` | `ReadyWaitHasUnready`, `RunningAllReady`, `PauseCoherence`; `StartsBalanced`: matches start with balanced teams |
| `MatchTeams` | TDM, 4 players, swap and shuffle | `SizesMatch`, `BalanceOk` |
| `MatchLMS` | LMS, 2 players, one of whom may log in, 16 settings | `RespawnInWarmup`, `DecidedRoundEnds`, `GameGoesOn`: a room that keeps enough players plays again and again, whatever warmup, countdown, slots and resets |
| `Rooms` | 3 rooms; locks, votes, reloads | `SizesAreTrue`; `RoomsLiveWithPlayers`; `ControllersCount`; `VictimsAreHere`; `TickEnds` and `RoomsGetReady`: `OnTick` returns and every room that is kept gets ready |
| `ConnSafe` | the server sends 7 chunks with 5 sequence numbers, packets of two | `TypeOK`, `DeliveredInOrder`, `NothingForgotten`, `ImplementsChannel` |
| `ConnLive` | fair losses; timeouts and drops at any time | `EverythingArrives`, `BothEnd` |
| `Background` | 2 workers, the HTTP thread, the main thread | `ScheduledJobsComplete`, `ImplementsPool`, `JobsEnd`; `AnsweredOnce`, `ShutdownStartsAll`, `EachIsAnswered`; `ServerExits`: whoever leaves gets out |
| `Register` | 2 protocols, losses, restarts, changes | `InfoReachedMaster`: the info is left out of a request only if the master has it; `EventuallyListed`: once nothing changes or fails any more, the server is listed with its last info |

Each property of these runs is broken by a mutant of the code it is about; the
mutants stand beside their originals in the modules. Deadlock is not checked where the system
really ends: chunks are limited in `Connection`, the server is gone in
`Background`, it is offline in `Register`, and a crash ends `Rooms`.

Three runs end in a violation on purpose; each is a disagreement between the
code and what the repository says of it.

| run | what happens |
|---|---|
| `MatchLateSpawn` (`SpawnsAreAllowed`) | a spawn pending at a team change happens in the middle of a survival round |
| `MatchLeave` (`EmptyRoomIsKnown`) | a leaving player is moved by the balancer: the team sizes are wrong for ever |
| `RoomsKickVote` (`KickVotesAreAborted`) | a kick vote goes on when its player has left, and kicks whoever has the slot by then |

`SizesMatch` and `BalanceOk` hold in `MatchTeams`, which has neither what
`MatchLeave` needs (five players and ready mode 1) nor teams of 4 and 0, which only
rcon `set_team` makes and which lead to the finding on `DoTeamBalance` below.

### Other findings

Met while modelling, without a run of their own:

* A login changes a team behind the controller's back (gamecontext.cpp:4048): sizes and readiness
  are wrong from then on, an empty room may count a player, and the balancer may rest on teams
  that are not balanced. With an account in the configuration TLC refutes `SizesMatch`, `EmptyRoomIsKnown`,
  `RunningAllReady`, `ReadyWaitHasUnready`, `BalanceOk` and, with teams, `EmptiedRoomWaits` without their
  `NoLogin` (a match starts with -1 and 1 counted, the balancer makes 0 and 0 of it), and with three
  accounts `StartsBalanced`.
* `map` in a paused or ended match: the new world is not paused while the game
  state is (teams.cpp:471); `PauseCoherence` is therefore checked and proved
  without reloads.
* A match that has started while entities load outlives its players:
  `StartController` cannot make the room wait (gamecontroller.cpp:497);
  `StartControllerWaits` states it.
* `DoTeamBalance` re-enters itself through the match start it causes and may leave
  1-3 marked as balanced (gamecontroller.cpp:634).
* A player in the slot of an invited one that has left is invited as well (teams.cpp:420).
* A hard reload of room 0 counts connecting players, who are counted again when
  they enter (teams.cpp:331). `ControllersCount` says "at least" of room 0 for this
  reason; `LobbyCounts` states the equality that fails.
* A vote can kick the last player out of its own room and so delete the
  controller whose `Tick` runs it (gamecontroller.cpp:290);
  `NoHandlerOutlivesItsRoom` states it.
* A reload asked for in a room that is destroyed reloads the next room with the
  number (teams.cpp:373).
* `Shutdown` does not abort an abortable job that a worker has just taken
  (jobs.cpp:88).
* A token that arrives late makes a disabled protocol register (register.cpp:410).
* The help of `restart` says "0 = abort" (gamecontroller.cpp:459) and `ConRestart`
  restarts for 0 (gamecontroller.cpp:88).

## Proofs

`MatchProofs` proves, for all sets of players, settings, commands and arguments
that satisfy `MatchAssumption`:

* `TypeCorrectness`: `Spec => []TypeOK`;
* `WaitingRoomLacksPlayers`: `Spec => []NoWaitWithEnoughPlayers`;
* `WorldFollowsGameState`: `Spec => []PauseCoherence` if rooms are not reloaded
  (`"map" \notin Commands`; with reloads it is false, see the findings).

They follow from one inductive invariant, `Inv == GoodRoom(room) /\
NoWait(room)`. `NoWaitWithEnoughPlayers` is not inductive: `TryStartWarmup` returns early
when the timer is not infinite, so `GoodRoom` adds that a room waiting for
players has an infinite timer (`Patient`); and the loops and the loading phase
need `NoWait` in every phase, not only while `Running`. The proof follows the
call graph: a lemma for each operator says that it preserves `GoodRoom` and what
it does to the state and the team sizes; `StartMatch`, `StartRound`,
`ResetMatch` and `TryStartWarmup` establish `NoWait` whatever held before; each
action is then a short composition. Assumptions: finitely many players (sizes
are cardinalities), `TickSpeed > 0`, `TimerEnd >= 2` (`END_ROUND` lasts
`TimerEnd / 2` seconds), well-formed settings.

Logins disturb none of this: `Login` changes neither state nor sizes (`LoginInv`).

`MatchPlayersProofs` proves of the players of a room, under the same assumptions:

| theorem | property | further hypotheses |
|---|---|---|
| `WarmupsLetRespawn` | `RespawnInWarmup` | |
| `RunningGamesAreReady` | `RunningAllReady` (until the first login) | |
| `ReadyWaitsEnd` | `ReadyWaitHasUnready` (until the first login) | no survival game, no `player_ready_mode` |
| `MatchesHavePlayers` | `StartsWithEnoughPlayers` | `NoAbort` |
| `SizesAreTrue` | `SizesMatch` (until the first login) | `CountsAreSafe` |
| `EmptyRoomsAreKnown` | `EmptyRoomIsKnown` (until the first login) | `CountsAreSafe` |
| `EmptiedRoomsWait` | `EmptiedRoomWaits` (with teams until the first login) | `CountsAreSafe` |
| `MatchesAreBalanced` | `StartsBalanced` (until the first login) | `NoAbort`, `CountsAreSafe` |
| `BalancerIsAwake` | `BalanceOk` (until the first login) | `CountsAreSafe`, `LoopsAreSafe` |

"Until the first login" is part of these properties: their `NoLogin`. A login
makes the sizes false in every kind of room, so no hypothesis about settings could
save them. `EmptiedRoomWaits` needs true sizes only because balancing may change
whether they are 0 if they are wrong, so rooms without teams keep it.

The hypotheses are the borders of what the code does. A dead spectator of a
survival game keeps its readiness when everybody else is asked for theirs
(gamecontroller.cpp:524), and `player_ready_mode` changes the rule of a warmup
that is under way. `NoAbort`: `restart` with a negative argument aborts a
warmup and runs the game however few players there are. `CountsAreSafe`: the
room has no teams, or never balances them, or never waits for readiness to
start. In the other rooms a player that leaves may be the last one that was not
ready, the match starts while it is still counted, and the balancer may move it:
the finding of `MatchLeave`, where `SizesMatch` is false. `LoopsAreSafe`: the
loop of `DoTeamBalance` never moves two players or more (there are at most three),
or every warmup has a length. Otherwise `DoTeamChange` may start a match between two
passes, whose reset balances the teams, and the passes that are left unbalance them
again: the finding on `DoTeamBalance` above, where `BalanceOk` is false.

The invariant is `PlayersInv`. To `Inv` it adds `PlayersOk` (who may respawn,
who is ready, and that nobody is a dead spectator outside the survival games:
without that `SetPlayersReadyState` would leave somebody's readiness as it was),
`PendingOk` (only who is in the room is still to be moved by a command), `Waits`
and `Counted`. `Counted` is what makes leaving inductive: when the room does
not wait for readiness, a warmup without a time limit lacks players (`Lacks`); it
lacks them after somebody has left as well, so `CheckReadyStates` and
`TryStartWarmup` start nothing while the leaving player is in the room
(`LackingRallyWaits`). The conjuncts that a login breaks stand under `NoLogin`; `LoginStep` shows that the others
survive one. Balancing keeps the sizes true because whoever it moves
is in the room (`SwitchTeamsSizes`), and it balances because half of the
difference is moved, which leaves at most one (`HalfIsMoved`).

The proof goes through the call graph once more. Each operator either leaves
the players where they are (`SamePlaces`), keeps who they are (`Keeps`), or may start
a match (`Begins`, `Tries`: then it has enough players, is balanced and has asked
everybody). `Goes` says what all steps have in common and composes:
`GoesSettles`, `StaysThenGoes` and `GoesBy` put a handler together from its calls. Only three
actions do less and have lemmas of their own: `Leave`, `Restart` with a
negative argument, and `SetPlayerReadyMode`. `PlayersNext` collects them, and the
action properties are read off its conclusion `Steps`.

`BalanceOk` takes one more invariant, `BalanceInv`. Whoever changes a size sets
`m_UnbalancedTick` to "check" (`Watches`), so the balancer can only miss something
when its loop ends and says "ok". `LoopOk` gives what the loop has left to do: before
a pass the sides differ by twice `numBalance`, or one more. A pass takes two off the
difference (`PassMoves`) if the `DoTeamChange` in it starts no match, which
`WarmRallyStays` shows of warmups with a length, and which after the last pass is no
matter, because the teams are balanced then and `ResetGame` moves nobody. No other
handler runs in the loop (`OutsideLoopMinds`).

`ConnectionProofs` proves, for every `MAX_SEQUENCE`, packet and buffer size,
window, lifetime and bound that satisfy `ConnectionAssumption`:

* `TypeCorrectness`: `Spec => []TypeOK`;
* `InOrderDelivery`: `Spec => []DeliveredInOrder`;
* `ForgetsNothing`: `Spec => []NothingForgotten`;
* `Implementation`: `Spec => Channel!Spec`, that is, `ReliableChannel` is implemented.

None of them is inductive: whether a chunk may be delivered depends on sequence
numbers that only say where it stands modulo `MAX_SEQUENCE`. `Inv` adds, for
each number kept by an end or carried by a packet, which chunk it stands for
and how old that can be: copies are younger than `Lifetime` (`CopiesOk`), the
resend buffer holds increasing chunks above the acknowledged one (`BufferOk`),
all of them if it has room (`BufferFull`), an ack never passes what the peer has
(`CountersOk`, `PacketOk`). Three lemmas carry the argument: two numbers closer
than `MAX_SEQUENCE` with the same sequence number are equal (`SameWire`), within
a window `IsSeqInBackroom` is the order of the numbers (`Backroom`), and `Feed`'s
test of the ack lets no older ack pass (`AckWindow`). Then one lemma for each
action; those that neither queue nor deliver share `QuietStep`.

`RoomsProofs` proves, for finitely many clients, any number of rooms and entities
(`RoomsAssumption`), every safety property of the run `Rooms`: `TypeCorrectness`,
`SizesStayTrue`, `RoomsDieEmpty`, `CountsOfControllers`, `VictimsStay`. None is
inductive alone: whether a room is destroyed is read from the count in the core
(`Vacates`), the count is right only if controllers exist where players are, and
the players that join a new controller are those the core says are there. `RoomInv`
takes them together: the players are where the counts say (`PlayersOK`), and
the controller and the record of each room fit its players (`Fit`). As every move of
a player goes through `SetForcePlayerTeam`, the proof has two lemmas about it:
`MoveFits` for a player that moves, `DropFits` for one that leaves the server. They
show that the old room fits one player less, the new one one more, and all others
are as before; votes, kicks and commands are these lemmas with the end of a vote
or an invitation on top. `Vacates` reads the count before `m_Core.Team` moves the player,
and `VacatesIff` says what that means: the room is destroyed exactly if the
player is alone in it.

`JobPoolProofs` proves, for any jobs and workers: `TypeCorrectness`;
`Completion` (`ScheduledJobsComplete`); `Implementation` (`Spec => Pool!Spec`). Its `Inv`
says who holds a job: a job that is queued is in the queue once or in the hands of
one worker (`QueueOk`, `HandsOk`), a running one with one worker (`StatesOk`), and a worker
leaves its loop only after the shutdown and with the queue empty (`MainOk`). The refinement maps a job
that nobody has begun, wherever it is, to `todo`.

`HttpProofs` proves, for any requests: `Answers` (`AnsweredOnce`) and `ShutdownIsLast`
(`ShutdownStartsAll`). Its invariant says in which of `pending`, `batch` and
`transfers` an unanswered request is, in one of them and once (`HeldOk`), and that the thread stops
either after an error, which keeps the lock, or a round after it has seen the shutdown, with nothing pending (`StopOk`).

`BackgroundProofs` composes them: every step of the server is a step or a stutter
of the pool (`PoolOfServer`) and of `CHttp` (`HttpOfServer`), so that what is proved
of each holds of the server (`ServerKeepsPromises`).

`RegisterProofs` proves, for any protocols, losses and restarts: `TypeCorrectness`
and `InfoIsNotLeftOut` (`InfoReachedMaster`). `InfoReachedMaster`
is not inductive: `Count` takes the serial of an answered request for one the master
has, in whatever order the answers come. The invariant adds that a request in
flight is no newer than the server's info and, if a master that never restarted
has answered it "ok", no newer than the master's (`Fine`).

Only model-checked: liveness (`GameGoesOn`, `DecidedRoundEnds`, `TickEnds`,
`RoomsGetReady`, `EverythingArrives`, `BothEnd`, `JobsEnd`, `EachIsAnswered`,
`ServerExits`, `EventuallyListed`), which is out of the prover's reach. Every
other property of a passing run is stated by a theorem.

## Not modelled

* Codecs, storage, physics: snapshots, packing, compression, maps, demos,
  collision, movement, weapons. Nothing in them depends on an order of events,
  and positions are floating point. With the generated tables (Unicode data,
  protocol messages) and the platform layer they are by far the largest part
  of the code, which is why the models cover a small part of its lines.
* The rules of CTF, FNG and catch, and LMS sudden death by score: they are
  decided by positions, hits and scores.
* The Axiom service, the takeover of a timed out client in `LoginAxiom`, and what a login thread does with
  a player that is deleted or a game that is destroyed meanwhile (ddracechat.cpp:266, 320).
* Handshakes, slots, timeout protection: the next component to model. Questions
  to settle there: a duplicated ACCEPT of an established client resets one end
  (network_server.cpp:508); a lost ACCEPT leaves a client online without a slot;
  `SetTimedOut` copies neither `m_PeerAck` nor `m_Token`.
* The database pool: nobody in this repository hands it a query.
* Bans, console, configuration, econ: one thread, one operation at a time.
* Votes other than to kick, chat, the super room, spectators in `Rooms`.
