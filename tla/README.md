# A TLA+ model of Kenshi-Online

Kenshi-Online turns a single-player game into a co-operative one. A DLL injected
into the game (`KenshiMP.Core`) hooks its functions, reports what the local
player does and shows what the others do; a dedicated server
(`KenshiMP.Server`) keeps the sessions and the entities; a master server
(`KenshiMP.MasterServer`) keeps the list of running servers. All of them talk
over ENet. This directory holds TLA+ specifications of the parts of the program
that carry its own logic, the TLC configurations that check them on small
instances, and proofs checked with TLAPS.

## 1. Inventory

### KenshiMP.Server (dedicated server)

| | |
|---|---|
| State | `m_players` (id -> session), `peer->data` (the id in the ENet slot), `m_hostPlayerId`, `m_nextPlayerId`, `m_entities` (id -> entity with its owner), `m_nextEntityId`, `m_nextSquadId`, time of day, weather, the save file, the connection to the master server |
| Operations | one handler per client message (`HandlePacket`), `HandleConnect`, `HandleDisconnect`, tick work in `Update` (positions, time sync, autosave, master heartbeat), console commands (`kick`, `say`, `save`, `stop`), `LoadWorld`, `SaveWorld` |
| Concurrency | `Update` and the console commands exclude each other with `m_mutex`, so a handler is one atomic step; the order of events of different peers is arbitrary; the process may die between any two steps. `Stop` and `LoadWorld` take no lock |
| Hard | slots reused while a session is closing, kicks that only start a disconnect, capacity checked in two places, host re-election, ids rebuilt from the save file, ownership by ids that restart at 1 |
| Correct when | sessions and slots agree, capacity holds, somebody connected is host, entities do not outlive their owners, ids are never reused while in use, saves survive crashes |

### KenshiMP.MasterServer (server list)

| | |
|---|---|
| State | `g_servers`: "ip:port" -> entry with the peer that registered it and the time of its last heartbeat |
| Operations | register, heartbeat, deregister, disconnect, query, pruning every 30 s of entries silent for 90 s; on the game server's side `ConnectToMaster`, heartbeats, reconnection with back-off |
| Hard | an entry pruned while its server is still connected, re-registration from another peer, the console thread reading the map without a lock |
| Correct when | a live server is listed (again) eventually, a dead one disappears, an entry belongs to the peer that can keep it alive |

### KenshiMP.Common

Message layouts, binary reader and writer, compression of rotations and floats,
configuration. Pure functions; no state that outlives a call.

### KenshiMP.Core (client DLL)

| Part | State | Operations | Correct when |
|---|---|---|---|
| Network client (`net/client`) | ENet host, server peer, connected and connecting flags under `m_enetMutex` | `Connect`, `ConnectAsync`, `Disconnect`, `Update`, `Send` | no self-deadlock, flags agree with the peer |
| Packet handler (`net/packet_handler`) | none of its own; drives the registry, the spawn queue, interpolation and the lobby | one handler per server message, deferral while the game is not loaded | what the server holds is shown, in order, nothing is shown twice |
| Entity registry (`sync/entity_registry`) | id -> info, game object -> id, next local id | `Register`, `RegisterRemote`, `SetGameObject`, `RemapEntityId`, `Unregister`, `Clear`... | the two maps stay inverse to each other |
| Spawn manager (`game/spawn_manager`) and `HandleSpawnQueue` | pending requests, retry counts, per-player caps | queue, in-place replay, direct creation, retry, give up | every remote entity is shown once, or its request is dropped for a documented reason |
| Position sync (`PollLocalPositions`, `BackgroundReadEntities`, `frame_data.h`) | double-buffered frames, last sent positions | read in the background, swap, send changes | no movement is lost, no torn frame is read |
| Client phases (`core.cpp`) | phase, connected, loaded | connect, load, gap detection, tick | features run only in the phases that allow them, disconnect resets everything |
| Interpolation (`sync/interpolation`) | per entity ring of snapshots | add snapshot, evaluate, remove | ordered snapshots, bounded extrapolation |
| Orchestrators (`sync_orchestrator`, `pipeline_orchestrator`, `player_engine`, `zone_engine`, `entity_resolver`, `sync_facilitator`) | sync pipeline stages, player states, zones | one tick per frame | state machines agree with sessions and phases |
| Task orchestrator (`sys/task_orchestrator`) | queue of jobs, worker threads, pending counters | post, wait, start, stop | no job is lost, stop waits for no one forever |
| Loading orchestrator (`game/loading_orchestrator`) | phase, pending resources, burst counters | resource notifications, tick | spawning is allowed only between bursts, loading ends |
| Lobby manager, shared save sync, player controller | faction slot, owned characters | assignment, matching, reset | each client controls its own faction only |
| Hooks (`hooks/*`) | trampolines, enabled flags | detours of game functions | install and remove are balanced, no recursion |
| Game wrappers (`game/game_*`) | none: raw access to the game's memory | read and write game structures | outside a model: offsets and pointers |
| Commands, UI (`sys/builtin_commands`, `ui/*`) | chat log, panels | text commands, drawing | presentation |

### KenshiMP.Scanner, KenshiMP.Injector, tests

The scanner finds the game's functions by patterns, strings and call graphs and
manages hooks; the injector starts the game with the DLL. The test programs
(`UnitTest`, `IntegrationTest`, `LiveTest`, `TestClient`) exercise serialization
and a live server with one or two clients.

### Interactions

A client's hook or poll produces a message; the server's handler changes the
session and entity maps and broadcasts; every client's packet handler changes
its registry, spawn queue and interpolation buffers from the network thread,
while the game's own thread runs the hooks and `OnGameTick`. Reliable ENet
channels are FIFO per channel; positions are unreliable. The server calls the
master server from its tick.

## 2. Plan

The order follows what the program depends on: first who takes part and who has
authority (the server), then that this survives on disk, then what a client does
with it, then the machinery below and around it. What is not marked done is in
the order in which it is to be written.

| Module | Models | Composed with | Abstract specification | Theorems |
|---|---|---|---|---|
| `GameServer`, `GameServerAuthority` (done) | sessions, host, capacity, ownership, save and restart | `Maps` | `Authority`, implemented by the server | types, sessions, host, ghosts, capacity, ids, ownership, the refinement |
| `WorldFile` (done) | one save, file operation by file operation | - | the file is the last completed save | that it is that or absent, with whole writes |
| `EntityRegistry`, `ClientWorld` (done) | registry; packet handler, spawn queue, loss and renewal of connection and world | `ClientWorld` extends `EntityRegistry` | `RegistrySpec`, implemented by the client | the registry's invariants under any calls, the refinement, what the client shows and what it calls its own |
| `TaskOrchestrator`, `FramePipeline` (done) | workers, the two condition variables, the frame-work counter, stop; the tick that swaps the buffers the workers fill | `FramePipeline` extends `TaskOrchestrator` | - | counter, quiet swaps, one writer per vector, no forgotten task |
| `MasterRegistry` (done) | the server list, heartbeats, pruning, and the game servers' reconnection, with crashes of both | `Maps` | listed while connected | that, and that entries belong to live connections |
| `ClientSession` (done) | dialling, greeting, answers, loss, retries, loads, the player's clicks, on two threads | - | - | types, one handshake per connection |
| `Combat` (done) | attacks, knock-outs, deaths, the hooks that echo them, the bodies they find | - | - | types, no death told that is not recorded, none forgotten, echoes do not multiply |
| `PositionSync` | what the frames carry, the poll that sends, the shared last position | `FramePipeline` | the last position sent is the last one read | no change is forgotten |
| `ClientWorld` with `ClientSession` | the phases in place of `ClientWorld`'s two booleans, the loading gate | both | - | features run only in the phases that allow them |
| `Interpolation`, `Compression` | ring of snapshots, extrapolation; rotations and floats | - | a reference definition over bounded inputs | bounds of the result |
| `GameServer`, continued | the handlers that change an entity's data or forward: equipment, items, doors, squads, stance, chat, time, weather | `Combat` | - | an entity's data is changed by its owner or the server only |
| `Lobby` | faction slots on the client, shared save, matching of characters | `ClientWorld` | each client controls one faction | - |

## 3. Modules

`Maps` holds the two operations on partial functions everything else is written
with: `Put` (store under a key) and `Without` (erase keys).

### GameServer

`src/KenshiMP.Server/server.cpp`, `world_persistence.cpp`, `main.cpp`.

| Variable | In the code |
|---|---|
| `running` | the process is in its main loop |
| `link[p]` | the ENet state of a peer slot; `closing` stands for `DISCONNECTING`, `DISCONNECT_LATER` and `ZOMBIE`: no packet is delivered any more and a `DISCONNECT` event is still to come |
| `data[p]` | `peer->data`, the player id kept in the slot; 0 is `nullptr` |
| `players` | `m_players`, reduced to the peer of each session |
| `host`, `nextPlayerId` | `m_hostPlayerId`, `m_nextPlayerId` |
| `entities`, `nextEntityId` | `m_entities` reduced to owner, kind of position and the history flag `restored`; `m_nextEntityId` |
| `disk` | the save file, as one value (how it gets there is `WorldFile`) |
| `torn` | history: an exception cut the load of this process short |

One action is one handler: `Update` holds `m_mutex` while it handles an event and
the console commands take the same lock. What interleaves is the order of the
events of different peers, the console and the death of the process. A slot may
be used again after its `DISCONNECT` event; `HandleConnect` of a full server
returns before it resets `peer->data`, as the code does. `HostsAfter` is a set,
because `m_players.begin()` of an unordered map is any player. `LoadComplete` and
`LoadThrows` read any subset of the saved entities, because the file has the hash
order of the map that was saved, and both the entity cap and an exception end the
loop in the middle.

Positions are `ok`, `far` (outside what the loader accepts: skipped, but its id
counts) and `nan` (accepted by the spawn and build handlers, written as JSON
`null`, and fatal to the loop that reads it). A load that throws keeps what it
has read and leaves the counter of entity ids at 1. `IdsFresh` and `OwnerIsStable`
therefore except what such a load restored, and nothing else; `server_nan` shows that
they must.

### Authority and GameServerAuthority

`Authority` says what the server promises without slots, packets, counters or
files: members join and leave, one leads as long as there is one, an entity is
claimed by one member, never changes hands and goes when its holder goes.
`GameServerAuthority` maps sessions to members, the host to the leader and the
entities created since the start of the process to claims. Restored entities are
outside the promise: their owner field is an id of an earlier run (section 5
shows what that leads to).

### WorldFile

`SaveWorldToFile` as its file operations: open (truncates `.tmp`), write, rename,
and where the rename fails because the file exists, remove and rename again. A
world is a version number, a file holds a version, nothing (`Absent`) or half a
write (`Torn`). The server is built for Windows only, with the MSVC runtime, whose
`std::rename` fails where the target exists; so the module has no other rename. The
constant `ShortWrites` says whether a disk that fills up may cut a write short. Saves come from the autosave timer, which
skips an empty world, the console and the shutdown; every opening, and the second
rename, may fail; the process may die in every phase.

### EntityRegistry

`src/KenshiMP.Core/sync/entity_registry.cpp`: `entities` (`m_entities`),
`ptrToId` (`m_ptrToId`) and `nextId` (`m_nextId`), one operator per method. Every
method holds `m_mutex` throughout, so it is one step. `RegistrySpec` is the
registry under any sequence of calls with any arguments, the most general client.
Note that `SetGameObject` of an object another entity has moves the index entry
without touching that entity: the code relies on its callers not to do this, and
`ClientWorld` checks that they do not (`LinkedMeansIndexed`).

### ClientWorld

`packet_handler.cpp`, `core.cpp` (`HandleSpawnQueue`, `OnGameLoaded`,
`OnLoadingGapDetected`, `SendExistingEntitiesToServer`), `core.h` (`SetConnected`),
`net/client.cpp`, `spawn_manager`, `entity_hooks.cpp`, `world_hooks.cpp`; what the
server sends to whom, in `server.cpp`.

| Variable | In the code |
|---|---|
| `entities`, `ptrToId`, `nextId` | the registry (`EntityRegistry`) |
| `linked`, `session` | the ENet connection to the server; the player the server keeps for it, 0 before the handshake is answered |
| `connected`, `me`, `loaded` | `m_connected` and `m_localPlayerId` of `Core`, set by the acknowledgement; `m_gameLoaded` |
| `inbox` | messages from the server, in order; the first may be in the hands of the network thread |
| `queue`, `announced`, `spawning` | `m_spawnQueue`; the request the network thread is about to queue; the one the game thread has popped |
| `at` | what the game thread is about: nothing, the tick's spawn, the hook's, or `SetConnected(false)` between the registry and the queue |
| `capped`, `hijacks`, `made` | `s_directSpawnsPerPlayer` at its limit, `s_spawnsPerPlayer`, the bodies in the game's world |
| `srv`, `others`, `lastPlayer`, `lastId`, `zones` | the server, and zone loads so far |
| `missed` | history: entities whose removal may pass the client by |

Two threads run. The network thread handles messages from the server in order.
The game thread runs `OnGameTick`, the hooks and the user interface. Where a
handler gives the other thread a chance to run, the model has two steps:

- an entity is registered (`ReceiveSpawn`) and its request is queued afterwards
  (`QueueSpawn`); in between it is in `announced`;
- the tick pops a request (`PopDirect`), the game's factory runs, and the result is
  linked (`SpawnSucceeds`) or the request is put back or given up (`SpawnFails`); in
  between it is in `spawning`;
- the second consumer of the queue, the hook that takes over a character the game
  creates anyway, pops (`PopHijack`) and links, or puts the request back, afterwards
  (`Hijack`);
- the end of a connection closes it and clears the others' entities
  (`SetConnectedFalse`) and clears the queue afterwards (`ClearSpawnQueue`). Neither
  excludes the network thread: a message it has taken already is handled
  after the clear, and what it registers stays (`InHands`).

A connection, a session and the client's own view of them begin and end apart.
`Broadcast` goes to every ENet connection, `BroadcastExcept`, which tells of a
leaver, to players only; the client handles spawns before its handshake is
answered. `HandleHandshake` gives the session, the acknowledgement and the snapshot;
the client learns of it in `HandleHandshakeAck`, which clears nothing. A connection may
be lost (`LinkLost`) and dialled again (`Dial`) before the game thread has noticed the
loss and cleared anything.

The server is reduced to what a client can see of `GameServer`: the owners of its
entities, ids that only grow (`IdsFresh` is what licenses that), other sessions
that come and go, and one FIFO channel. It does not restart within a behaviour: ids
that are given out again while a client keeps its squad are not modelled. That my
own earlier session may end late is: `SessionEnds` moves it to `others`.
Positions are dropped, so the
choices that depend on them are open: which of my characters is nearest to a
confirmation, and which entities are in a zone. `HandleEntityDespawn`'s two calls
and `HandlePlayerLeft`'s loop are one step, since no other operation could tell
the difference. A request's announcement to the server and its answer are one
step, and when a character is announced is left open.

`missed` is used by the properties only. It collects exactly what the code lets
pass: what was registered, queued or under way while the server had no session for this
connection (the removals of leavers are not sent then), what a connection showed that
was dialled anew before its loss was noticed, and what is removed while the game
loads, when the packet handler drops removals but not spawns. A closed connection
empties it: a remote that survives `SetConnectedFalse` or a removal without being
in it breaks `NoStaleRemotes`.

### TaskOrchestrator and FramePipeline

`src/KenshiMP.Core/sys/task_orchestrator.cpp`; `Core::OnGameTick`,
`KickBackgroundWork`, `BackgroundReadEntities` in `core.cpp`.

`tasks` is the queue, `pending` the counter of frame work, `running` the flag of
`Stop`; `wpc[w]` is where a worker stands in `WorkerLoop`, `job[w]` what it has
taken, `caller` where the main thread stands in a call. A wait on a condition
variable is three states, because every notification of this class is sent without
the mutex of its waiter: the test has failed and the mutex is still held
(`drowsy`), asleep, up again. A worker that is drowsy holds `m_taskMutex`, so
nobody can push then; nothing protects a drowsy main thread, since workers never
take `m_frameMutex`. Spurious wake-ups are an action. A task may end by an
exception, which `SEH_ExecuteTask` catches: it is counted down all the same.

`FramePipeline` adds the tick: `step` is where the main thread stands in it,
`started` is `m_pipelineStarted`, `writeBuffer` the index the workers read once,
when their task begins (`target[w]`). An exception in the middle of a tick
(`GameSteps` going back to `frame`) leaves the buffers swapped but not cleared and
no work posted. `ResetPipeline` is `SetConnected(false)` and the load of a save:
both buffers are cleared and the pipeline starts over without waiting for the
workers; `late` says so until the next wait returns, and `MaxLateWork` bounds
the work that may be left behind. `Shutdown` ends ticks and stops the workers.

### MasterRegistry

`src/KenshiMP.MasterServer/main.cpp`; `ConnectToMaster`,
`UpdateMasterConnection`, `SendMaster...` and `Stop` in
`src/KenshiMP.Server/server.cpp`.

`list` is `g_servers` (peer and age of an entry), `up` the master's process;
`held`, `cut`, `silence` and `inbox` are the master's slots: who is connected
there, which of these connections are broken, for how long, and the packets under
way. `state` and `peer` are a game server's process and its view of the connection
(`off` is a server that could create no ENet host, or whose first attempt could
not be started: the code never tries again), `sinceBeat` its timer. A broken
connection ends for each side in its own time. The unit of time is the
heartbeat interval of 30 s; `Tick` lets it pass and waits for what is due. Packets
take at most `Delay` units, a silent peer is dropped after `DropAfter`, an entry
is pruned after `PruneAfter` (3, the 90 s of the code). A server may register
under another address (`RegisterKey`, the external one it was told) than the
one its heartbeats come from (`HeartbeatKey`), as behind a router. No two servers
share a key (`KeysAssumption`): two of them behind one address and port would
take each other's entry. The delays of the reconnection, what an entry tells, and
the browsers, which only read the list, are left out.

### ClientSession

`src/KenshiMP.Core`: `net/client.cpp`, `core.cpp`, `core.h`, `hooks/render_hooks.cpp`,
`ui/overlay.cpp`, `ui/native_menu.cpp`, `sys/builtin_commands.cpp`, the handshake
handlers of `net/packet_handler.cpp`.

| Variable | In the code |
|---|---|
| `phase`, `gameLoaded`, `coreConnected` | `Core::m_clientPhase`, `m_gameLoaded`, `m_connected` |
| `connected`, `connecting` | the two flags of `NetworkClient` |
| `ovConnecting`, `retryPending`, `attempt` | the overlay's own `m_connecting`, `m_retryPending`, `m_connectAttempt` |
| `link`, `hello`, `reply` | what ENet and the server hold of the connection: its state, the handshakes sent on it, the answer under way |
| `world`, `gap` | the game has characters; the pause before the next frame |
| `game`, `net` | where the game thread is in its frame, the network thread in its handler |

A frame is six steps, cut where the network thread may change what is read next:
`HookPresent` tells a load from a pause (`PresentPhase`), `Overlay::Update` polls,
retries, reads `IsConnected` and after it `IsConnecting`, compares for a loss,
and `OnGameTick` runs. Clicks and commands come between frames. An acknowledgement
is two steps, `SetConnected(true)` and the phase. The server answers the first
handshake of a connection, rejects it, kicks later, or the connection ends. One
answer is under way at a time. `Disconnect` is one step (its race with the
network thread is undefined behaviour, see the hazards).

### Combat

`HandleAttackIntent`, `HandleCombatDeath`, `HandleCombatKO` of the server with
`combat_resolver.cpp`; `hooks/combat_hooks.cpp` and the two packet handlers of the
client.

`alive` and `health` are the server's, `body[c][e]` the character's object in a game
(none, living, dead, or made after its death was recorded),
`ring[c]` and `processed[c]` the event ring of the hooks and the events its tick
has handled, `reports` and `inbox` the messages under way; the two ENet channels
are two queues, which may overtake each other. Health is kept in levels, as only two
thresholds count and a hit is too small to cross both. The server resolves an
attack and broadcasts its verdict; the packet handler calls the game's own
function; that one is hooked, so an event goes into the ring and, if the character
is the client's own, back to the server as a report, which is broadcast in turn, to the
reporter too. `sources` counts what is no echo. The bodies of the others come
(`Appears`, when a spawn request is served) and go (`Vanishes`); a message that finds
none, or a client that is still loading and has none, is dropped by `HandlePacket`.
A body made afterwards is alive, since the flag the snapshot carries is never read:
that is the state `late`. Every client stays in the session; `ClientWorld` has the
rest.

## 4. Hazards and properties

The properties aim at what a test with one or two clients would hardly reach. Each
has at least one mutant in the module (a definition marked *Mutant of*): a
plausible mistake in the code it models which makes the property fail.

| Property | What would go wrong |
|---|---|
| `SessionsMatch` | a session no `DISCONNECT` event can find, after a kick, a second handshake or a reused slot |
| `CapacityHolds` | several accepted connections handshake after the last place was free |
| `HostIsConnected`, `HostKeepsRole` | an election that chooses the leaver, or a newcomer that takes the role |
| `NoGhosts`, `KickedPlayerLeaves` | entities of somebody who is gone; a kick that only starts a disconnect which never ends |
| `IdsFresh`, `OwnerIsStable` | an id handed out again while in use, over saves, crashes and restarts |
| `ImplementsAuthority` | any of these seen from outside, in one statement |
| `FileIsLastSaveOrGone`, `WorldReachesDisk` | a restart that loads half a world or an old one; a world that is never saved |
| `IndexIsSound`, `LinkedMeansIndexed`, `UsesRegistry` | a hook that is handed a character and takes it for another |
| `NoStaleRemotes` | a character the server has removed is shown for ever, other than through the three gaps `missed` names |
| `WaitingEnds` | an entity that waits for a body without a request, for ever |
| `OwnKeepTheirObject`, `OwnIdsAreMine` | my character linked to another body or known under another's id |
| `CounterCountsWork`, `WritersStayOnWriteBuffer`, `OneWriterPerVector` | a buffer swapped, cleared or refilled while a worker writes it, after exceptions and resets too |
| `NoTaskIsForgotten`, `PostedWorkIsDone` | a task in the queue with every worker asleep; a worker that dies with its task |
| `EntriesAreHeld`, `ConnectedMeansListed`, `ListedAgain` | the late end of an old connection, a reused slot, another server or pruning takes a live server from the list; one that is never listed again |
| `OneHandshake`, `LossIsNoticed`, `RetriesEnd`, `LoadingEnds` | a connection greeted twice; a session shown for ever without a connection; endless retries; a second load that never ends |
| `DeathIsVerdict`, `DeathArrives` | a death some games saw and the server's snapshot does not have; one that some game with the character in it never hears of |
| `EchoDoesNotGrow` | reports of broadcasts of reports that multiply until every ring and channel is full of them |

`PROJECT.json` lists all hazards with their lines, including those no property
covers yet.

## 5. Runs

| Run | Configuration | Instance | Shows |
|---|---|---|---|
| `server` | `GameServerAll` | 3 slots, 2 places, limit of 1 entity, player ids to 3, entity ids to 2, positions `ok` and `nan` | the nine properties of the server and that it implements `Authority` |
| `server_adoption` | `GameServerAdoption` | player and entity ids to 3 | **fails**: a newcomer owns what a save restored |
| `server_nan` | `GameServerNan` | 2 slots, 1 place, limit of 2 entities, positions `ok` and `nan` | **fails**: after a load that threw, the id of a restored entity is given out again |
| `file_msvc` | `WorldFileMsvc` | whole writes, 3 versions | a restart never loads a wrong world; every world that stays reaches the disk |
| `file_msvc_loss` | `WorldFileMsvcLoss` | the same | **fails**: between remove and rename there is no save |
| `client` | `ClientWorld` | 1 other player beside me, 1 character of mine, 2 server ids and 1 local id, 2 bodies, 2 attempts, 1 hijack, inbox 2, queue 1, 1 zone load, 4 events | the others' characters are shown, given up or removed, and never stay without an excuse; mine keep object and name |
| `client_orphan` | `ClientWorldOrphan` | 1 other player, 2 attempts | **fails**: a request is put back after its player left |
| `pipeline` | `FramePipeline` | 2 workers, 2 kinds of work, 2 late tasks | buffers, counter and queue stay right over ticks, exceptions, resets and shutdown; posted work is done |
| `pipeline_wait` | `FramePipelineWait` | the same | **fails**: the wait for frame work sleeps for ever |
| `master` | `MasterRegistry` | 2 servers, one behind a router, 2 slots, 2 faults | a server whose connection works is listed; one that stays up is listed again |
| `session` | `ClientSession` | 6 attempts, 5 clicks or commands | one handshake, losses noticed, retries and loads end |
| `combat` | `Combat` | 2 players, 1 character each, ring of 2, cap of 1, channels of 1, 2 deaths or knock-outs | deaths are recorded, reach every game that shows the character, echoes do not grow |

**The bounds.** For the server, three slots for two places are the least with which
somebody is refused at connect and at handshake, a slot is used again, and the
host role can go to more than nobody; three player ids let a slot be reused by a
new id without a restart, and a restart starts them again. Two entity ids with a
limit of one suffice for a build request past the limit, a load the cap cuts
short, and a load that throws after it has restored one. The position `far`, which only
makes a load skip an entity, is left to the theorems: with all three kinds the run is
too long, and a load that reads a subset covers most of what it adds.

The client needs two bodies and an id of each kind to mix up an index, two attempts for
a request that is put back once, an inbox of two for the removal of an entity
followed by `PlayerLeft`, and two connections for everything that outlives one. Player
1 is there from the start, so four events (player and entity ids given, zone loads)
are: his session, mine, and two more out of a second session of mine, entities and a
zone load. Connections that do not reach a session, losses, reloads and removals are
not events and are not bounded. `NoStaleRemotes` and the parts of the invariant of
section 6 were also checked once with an inbox of three and five events, on 17 million
states. Bounds are in the guards (`LastPlayerId`,
`LastEntityId`, `LastServerId`, `LastPlayer`, `EventBound`, `LastWorld`, `InboxBound`,
`QueueBound`, `ZoneBound`, `MaxLateWork`, `MaxFaults`, `MaxClicks`, `ChannelBound`,
`MaxSources`, and `Id` for local ids): an action past its bound is
not enabled. The theorems of section 6 hold for every value of them.
Symmetry is not used, since most runs check temporal properties.

Two workers are what the client starts, and the least that can fill one vector
twice or leave one asleep while the other is drowsy. Two faults let an old
connection end late after a new one is in use, and a crash of the master meet
one of a server; two slots for two servers make every connection wait for a
slot now and then. Six attempts are the code's, and five clicks let the player interrupt a series of
retries and begin another. In `combat` a knock-out and the death after
it use up the two sources, each of two players attacks, owns and is told; the ring
of two overflows, and its cap of one drops an event.

**Deadlock** is checked in every run but three: in the two `pipeline` runs the
program ends with `Shutdown`, and in `combat` the events may get lost and the
sources are used up, so that nothing is left to do.

### Fairness

- `GameServer`: ENet ends every disconnect that was begun, with the
  acknowledgement or with the timeout that `enet_peer_timeout` sets. Nothing is
  assumed of clients, the console or saves.
- `WorldFile`: a save that began is finished (the loop is one thread and goes on);
  the autosave timer fires again and again while the server is up, and neither
  opening the file nor the second rename fails for ever. The last is a statement
  about the disk, without which no save can be promised.
- `ClientWorld`: the threads go on (`QueueSpawn`, the return of the factory, of the
  hook and of `SetConnected(false)`, the end of loading: weak fairness). The tick looks at the queue every
  second and at stuck entities every ten, whatever a hook did in between (strong
  fairness): hooks run on the game's own thread, within a call, so the tick has
  its turn. The gate that delays spawning while the game loads is by-passed after
  eight seconds, and the factory is assumed captured. Zone loads are bounded, so the
  queue can become empty; with a server that reloads zones for ever the cleanup,
  which waits for an empty queue, might never run.

- `FramePipeline`: the main thread goes on with a tick it has begun and each worker
  with its loop; a mutex that is free again and again is not withheld for ever
  (strong fairness). No new tick, no notification that was not sent, and no
  spurious wake-up is assumed: the last is what lets `pipeline_wait` fail.
- `MasterRegistry`: loops that run go on (weak fairness of the packet handlers,
  the heartbeats, the `DISCONNECT` event, the reconnection), and ENet delivers,
  accepts and times out. That somebody starts a process is not assumed.
- `ClientSession`: frames go on and the network thread goes round (weak); the two
  timers of the overlay elapse in frames that come again and again (strong). The
  player and the server are free.
- `Combat` assumes no fairness: `DeathArrives` says that the message is under way, which
  is an invariant.

### Where the code and its texts disagree

The five runs that fail each check one statement of a comment or a document;
`PROJECT.json` quotes them.

1. *"Skip entities owned by disconnected players (orphans from stale saves)"*
   (`server.cpp:1084`, `server_adoption`): owner ids are compared with present ids,
   which begin at 1 again after a restart.
2. *"Still track max ID to prevent collisions"* (`world_persistence.cpp:116`,
   `server_nan`): a coordinate that is not a number is accepted, saved as `null`, and makes
   the load throw before the check above that comment; the entities read so far
   stay and the counter starts at 1.
3. *"Atomic write: write to temp file, then rename (safe on NTFS)"*
   (`world_persistence.cpp:50`, `file_msvc_loss`): where the first rename fails the
   save is removed first, and `LoadWorld` does not look at `.tmp`.
4. *"Without this, orphaned spawn requests would be processed later for a player who
   no longer exists"* (`packet_handler.cpp:345`, `client_orphan`): a request that is
   in the factory (or in the hook) when the queue is cleared is put back.
5. *"Block until all PostFrameWork tasks have completed"* (`task_orchestrator.h:24`,
   `pipeline_wait`): they have completed, and the wait goes on, because the last
   worker notifies between the test and the sleep of the main thread.

In the model, without a run of its own:

- *"Each player gets a unique faction string"* (`server.cpp:533`): slots are
  `(id - 1) % 2`, and ids only grow.
- *"Enforce global entity limit"* (`server.cpp:912`): `HandleBuildRequest` does not
  check it.
- *"JSON format with atomic writes"* (Technical Reference, line 537): a short write
  is not noticed.
- *"Reset statics on reconnect"* (`core.cpp:2715`): one of them is forgotten.
- *"Changed Broadcast to BroadcastExcept in combat handlers"* (Technical Reference,
  line 923, also line 533): results go to everybody. A death or knock-out therefore goes
  round between the server and the owner for as long as both are there.
- *"write to health[0] (chest)"* (`server.cpp:1604`): index 0 is the head
  (`types.h:205`).
- The ring's *"single producer"* (`combat_hooks.cpp:57`): packet handlers push on
  the network thread; the model takes a push as one step.
- A client whose connection ends without a reject while it waits (a full server), or
  whose connection is replaced between two frames, stays in the phase `Connecting`
  until the player acts; a connection made between the overlay's two reads
  (`overlay.cpp:124` and `:148`) counts as a failure.

Seen while modelling the client's world: `PlayerLeft` and `EntityDespawn`
that arrive before the game is loaded are logged as deferred but dropped (the
model's `missed`); spawns reach, and are handled by, a client that has no session yet
and so is told of no leaver, and an entity registered by a handler that outlives its
connection stays (both in `missed` once a session begins); a client that has no body for
a character drops its death and makes the body alive afterwards; a late `PlayerLeft` for one's own earlier session unregisters
one's own squad; characters kept over a reconnection are never announced to the
new server session; the cleanup of stuck entities unregisters the entities of
capped players that the comment at `core.cpp:2852` wants kept, and may run between
`RegisterRemote` and `QueueSpawn`; a world that has become empty is never
autosaved, so a crash brings the old one back. In the documents: player ids are
not limited to 1-16 (Technical Reference, line 503), there is no orphan cleanup on load (line
540), positions are sent to everyone without a zone filter (6.4), and the save
does not contain the next entity id (the user guide says it does).

## 6. What is proved

All proofs are checked by TLAPS, with no step left out; the only assumptions are
the named ones about constants (`MaxPlayersAssumption`, `EntityLimitAssumption`,
`PositionsAssumption`, `BoundsAssumption`, `ShortWritesAssumption`,
`ContentAssumption`, `LastWorldAssumption`, `NoObjectAssumption`, `IdAssumption`,
`NoWorkAssumption`, `WorksAssumption`, `WorkersAssumption`, `MaxLateWorkAssumption`,
`ServersAssumption`, `NoSlotAssumption`, `TimesAssumption`, `MaxFaultsAssumption`,
`KeysAssumption`, `AttemptsAssumption`, `ClicksAssumption`, `OwnerAssumption`,
`CharactersAssumption`, `NumbersAssumption`, `LimitsAssumption`), which TLC evaluates in
the runs. All but four say no more than what kind of values the constants have:
`TimesAssumption` wants the pruning time to cover a heartbeat interval and the longest
delay, `KeysAssumption` that no server is known under another's address,
`CharactersAssumption` that the bodies the game makes for others are new objects and
none of my squad, and `NumbersAssumption` that the ids the server gives start at 1 and
stay below the client's local ones, which start at 2^28 (the code relies on this too). `Peers`, `Object`, `Player`, `Slots`, `Clients` and `Entities` may be any sets.

**GameServer_proofs.** `TypeCorrect` first. `SessionsCorrect` proves the inductive
invariant `SessionInv`: `SessionsMatch`, every id in use is below
`nextPlayerId` (without it `AdmitPlayer` could overwrite a session),
`HostIsConnected` and `NoGhosts`. They must go together: that no entity is left behind needs
`SessionsMatch`, because `HandleDisconnect` finds what to remove through
`peer->data`. Three lemmas do the work (a slot that only closes, an admission, a
departure); every other handler is a case that touches none of the variables. From
it follow `SessionsAlwaysMatch`, `HostAlwaysConnected`, `NeverGhosts`,
`HostAlwaysKeepsRole`; `CapacityAlwaysHolds` needs in addition that the set of
players is finite, and that only an admission, which checks, adds to it.

`IdsAlwaysFresh` and `OwnerAlwaysStable` hold for all kinds of coordinates, NaN
included. They except what the code does break: the entities a load restored that an
exception cut short (`torn`). A file that a torn process saves is no danger to the next
one, since a complete load counts every id in it. `OwnerAlwaysStable` rests in addition
on `ClaimsBelowNext` below: even in a torn process, what is stored since its start
has ids below the counter, so only a restored entity can be replaced.

Last in the same module, `ServerImplementsAuthority`: initial states map to
initial states, and each handler to `Join`, `Leave`, `Claim`, `Release`, `Disband`
or a stutter (one lemma for each). It needs no exception for torn loads, as what is
claimed since the start always has ids below the counter. `ServerIsOrderly` carries the
promise of `Authority` over to the server.

**WorldFile_proofs.** Between writing and renaming, `.tmp` holds the world
(`TmpIsWritten`). `SaveIsWholeOrGone`: with whole writes the file is the last completed
save, or absent, whenever the process dies. That it is never absent is what
`file_msvc_loss` refutes.

**EntityRegistry_proofs.** `RegistryIsSound`: under any sequence of calls with any
arguments the index names existing entities linked to those very objects, and
the counter stays ahead of every id in use; one lemma per operation.

**ClientWorld_proofs.** `ClientUsesRegistry` is the refinement: every step of the client
is a call of the registry or leaves it alone, so what was proved of the registry holds
in the client too. `WorldIsSound` is the inductive invariant `WorldInv`, from which the
rest follow. Its parts, and why they are there:

- `NamesAgree`: an entity has one owner, whoever names it: the server, a message under
  way, a request that waits, the registry. Without it a request for one player's entity
  could be answered for another's, and `NoStaleRemotes` would not survive the answer.
- `SpawnsComeFirst`: in a session, what a message announces exists, or its removal
  follows in the channel, or it was announced too early. This is what makes an entity
  shown late still go away.
- `SessionIsNamed`: in a session the client knows its name, or the acknowledgement that
  tells it is the last of its kind under way, and all that is announced before it is
  another's and in `missed`.
- `MineAreMine`: what belongs to the player of the session is a character of mine with
  its own object, under a local id or one the server holds for me, and no body waits to be
  made for it. `OwnKeepTheirObject` and `OwnIdsAreMine` are this part once the
  client knows its name; before it, a confirmation could still go astray.
- `EarlyAreMissed`: while there is no session, or the client does not count itself
  connected, whatever is shown is in `missed`, so that the session which begins next
  finds nothing stale that is not.
- `LocalIdsAreHigh`, `LinkedAreMade`, `PlayersAreKnown`: local and server ids do not mix, a
  body is linked only once it was made, every owner is a player the server knew.

`LinkedStayIndexed` is what the registry itself cannot promise (`SetGameObject` takes
the index entry from another entity): this client never links an object twice.
`NothingStaleIsShown`, `MineKeepTheirObject` and `ServerKnowsMine` state the three
invariants of the run. The proof looks at what each step does to the registry, to the
requests, to the messages and to the server by lemmas of their own, which the
theorem joins. TLC checked every part of `WorldInv` on the constants of the `client` run
and on a larger instance before the proof was begun.

**FramePipeline_proofs.** `CounterCorrect` comes first: the counter is the length of
the queue, plus the busy workers (a finite set), plus one while a post is between
its count and its push; a worker that is about to count down is still busy. A
zero counter therefore means that nobody writes, which gives `SwapsAreQuiet`,
`ClearsAreQuiet` and `WritersKeepTheirBuffer`. `OneWriter` needs that the tasks
in the queue and in the workers' hands are different ones, unless a reset did not wait. `NoLostTask`
rests on the mutex alone: a push needs it, so no worker is drowsy at a push.

**MasterRegistry_proofs.** `EntriesHeld` and `ServerListed`. The age of an entry is
bounded by what has happened since the last heartbeat that refreshed it: a
heartbeat that is due, one under way, or one that arrived; with `TimesAssumption`
an entry of a working connection never gets stale. `EntriesHeld` is needed beside
it, as an entry is taken out through its peer.

**ClientSession_proofs.** `GreetedOnce`: while the overlay waits for a connection,
nothing has been sent on it. `TypeCorrect` bounds the series of retries: one is
pending only below the limit.

**Combat_proofs.** `TypeCorrect`, `DeathsAreVerdicts` and `DeathsArrive`. The second needs that
`alive` never becomes true again and that every broadcast of a death comes with
its record (lemma `Recorded`); what is reported can be anything. The third is inductive
with the types: a death is recorded and put into everybody's ordered channel in one step
(`BroadcastTells`), a message leaves the channel only when it is applied or
finds no body (`PacketArrives`), and a body made for a dead character is `late`
(`BodiesArrive`). `EchoesDoNotMultiply`
counts, for one client, the messages about its own characters in the ring, in its
reports and in its channels: appending adds one if the message is its own and taking the
head takes one (lemmas on the places in a queue, by bijections), a broadcast puts one
into each channel but only the owner's counts, and so every step moves a message,
drops one, or adds one for each death or knock-out that starts a round.

## 7. What is only checked, and what is not modelled

Only model-checked, on the instances above: the liveness properties
(`KickedPlayerLeaves`, `WorldReachesDisk`, `WaitingEnds`, `PostedWorkIsDone`,
`ListedAgain`, `LossIsNoticed`, `RetriesEnd`, `LoadingEnds`), since
TLAPS does not reason about fairness here.

Not modelled yet, and planned (section 2): the other handlers of the server that
change an entity's data or forward, what the frames of position synchronization
carry, the loading gate, interpolation, lobby. Not modelled
at all: the game wrappers and hooks (raw access to another program's memory), the scanner and
injector, user interface and commands, the pipeline orchestrator (a debugger's
view), the sync orchestrator and its engines (behind a flag that is off by default).
In the modelled parts the following is left out: data an entity carries beyond what is
named above; templates, capture of the factory, the force-spawn command and
building spawns on the client; the race of `LoadWorld` and `Stop` with the console
thread; message loss on a connection that works (the modelled messages are
reliable); in the session, the host flag, which the client sets once from the number
of players and never corrects, and the data race inside `Disconnect`; in the master
server, the browsers and the console thread that reads the list without a lock.
Most of the repository's lines are vendored libraries (JSON, Dear ImGui, ENet,
MinHook, spdlog), which are not modelled: their behaviour enters as the actions
marked external in `PROJECT.json`.

`PROJECT.json` gives for every definition the lines of source it stands for.
