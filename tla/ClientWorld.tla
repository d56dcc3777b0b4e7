---------------------------- MODULE ClientWorld -----------------------------
(***************************************************************************)
(* What one client shows of the others' characters, and how it names its   *)
(* own: the packet handler, the spawn queue with its two consumers, the    *)
(* registry they share, and the loss and renewal of connection and world.  *)
(*                                                                         *)
(* Two threads: the network thread handles messages; the game thread runs  *)
(* OnGameTick, the hooks and the user interface. A spawn request popped    *)
(* from the queue is in `spawning` while the game's factory or the hook    *)
(* that took it runs, and an entity registered by the network thread is in *)
(* `announced` until its request is queued: the other thread may run in    *)
(* between. Every step makes at most one call to the registry              *)
(* (HandleEntityDespawn's two, and HandlePlayerLeft's loop, have the       *)
(* effect of one). The first message of `inbox` may be in the hands of the *)
(* network thread already: then it is handled although the game thread has *)
(* closed the connection.                                                  *)
(*                                                                         *)
(* The server is as much of GameServer as a client sees: the owners of its *)
(* entities, ids that are never reused, and one FIFO channel. Three things *)
(* begin and end apart: the ENet connection (linked), the session that the *)
(* server keeps for it (session), and what the client makes of both        *)
(* (connected, me).                                                        *)
(*                                                                         *)
(* Positions are left out: which of my characters is within 5 m of the     *)
(* place a confirmation names, and which entities are in a zone, is open.  *)
(***************************************************************************)
EXTENDS EntityRegistry, Sequences, FiniteSets, SequencesExt

CONSTANTS
    Squad,          \* my characters, in the game
    Body,           \* characters the game can make for the others
    LastServerId,   \* bound: entities the server ever names
    LastPlayer,     \* bound: player ids the server ever gives
    EventBound,     \* bound: ids of both kinds and zone loads together
    MaxRetries,     \* MAX_SPAWN_RETRIES
    MaxHijacks,     \* MAX_SPAWNS_PER_PLAYER
    InboxBound,     \* bound: messages on their way
    QueueBound,     \* bound: spawn requests
    ZoneBound       \* bound: zone loads

ASSUME CharactersAssumption ==
    Squad \subseteq Object /\ Body \subseteq Object /\ Squad \cap Body = {}

\* The server counts its ids up from 1 and stays below the local ones, which start
\* at 2^28; it numbers players from 1 as well.
ASSUME NumbersAssumption ==
    /\ LastServerId \in Nat /\ 1 .. LastServerId \subseteq Id /\ LastServerId < FirstLocalId
    /\ LastPlayer \in Nat \ {0} /\ 1 .. LastPlayer \subseteq Player

ASSUME LimitsAssumption == {MaxRetries, MaxHijacks, EventBound, InboxBound, QueueBound, ZoneBound} \subseteq Nat

VARIABLES
    linked,         \* ENet connection to the server
    session,        \* server: the player this connection belongs to, or 0
    connected,      \* m_connected of Core
    loaded,         \* m_gameLoaded
    me,             \* m_localPlayerId (0 before the first acceptance)
    at,             \* what the game thread is about
    queue,          \* m_spawnQueue
    announced,      \* <<the request the network thread is about to queue>>, or <<>>
    spawning,       \* <<the request the game thread has popped>>, or <<>>
    capped,         \* players with MAX_DIRECT_SPAWNS_PER_PLAYER in s_directSpawnsPerPlayer
    hijacks,        \* s_spawnsPerPlayer
    made,           \* bodies made in the game's world
    srv,            \* server: entity -> owner
    others,         \* server: players with a session, apart from mine of now
    lastPlayer,     \* server: last id given to a player
    lastId,         \* server: last id given to an entity
    inbox,          \* messages from the server, in order
    zones,          \* zone loads so far
    missed          \* history: entities whose removal may pass the client by

linkVars == <<linked, session, connected, loaded, me, inbox, missed>>
spawnVars == <<queue, announced, spawning, at, capped, hijacks, made>>
serverVars == <<srv, others, lastPlayer, lastId, zones>>
vars == <<registryVars, linkVars, spawnVars, serverVars>>

\* Nothing of its own, a request popped by the tick or by the creation hook, or
\* SetConnected(false) between the registry and the queue.
Places == {"idle", "tick", "hook", "reset"}

Request == [id : Id, owner : Player, retries : 0 .. MaxRetries]
Message == [kind : {"spawn"}, id : Id, owner : Player] \cup [kind : {"despawn"}, id : Id]
             \cup [kind : {"left", "ack"}, owner : Player]

Spawned(id, p) == [kind |-> "spawn", id |-> id, owner |-> p]
Despawned(id) == [kind |-> "despawn", id |-> id]
Left(p) == [kind |-> "left", owner |-> p]
Ack(p) == [kind |-> "ack", owner |-> p]

OwnedBy(p) == {id \in DOMAIN srv : srv[id] = p}
SpawnsOf(ids) == [i \in 1 .. Cardinality(ids) |-> LET id == SetToSeq(ids)[i] IN Spawned(id, srv[id])]
DespawnsOf(ids) == [i \in 1 .. Cardinality(ids) |-> Despawned(SetToSeq(ids)[i])]

MoreEvents == lastId + lastPlayer + zones < EventBound

Deliver(msgs) == inbox' = inbox \o msgs /\ Len(inbox') <= InboxBound

\* To every ENet connection, accepted or not.
Broadcast(msgs) == IF linked THEN Deliver(msgs) ELSE UNCHANGED inbox

\* To the players, whoever leaves.
BroadcastExcept(msgs) == IF session # 0 THEN Deliver(msgs) ELSE UNCHANGED inbox

-----------------------------------------------------------------------------
(* The server, as far as this client can tell. *)

\* Another player's character is created.
RemoteSpawn(p) ==
    /\ p \in others /\ lastId < LastServerId /\ MoreEvents
    /\ lastId' = lastId + 1
    /\ srv' = Put(srv, lastId + 1, p)
    /\ Broadcast(<<Spawned(lastId + 1, p)>>)
    /\ UNCHANGED <<registryVars, linked, session, connected, loaded, me, missed, spawnVars, others,
                   lastPlayer, zones>>

RemoteDespawn(id) ==
    /\ id \in DOMAIN srv /\ srv[id] \in others
    /\ srv' = Without(srv, {id})
    /\ Broadcast(<<Despawned(id)>>)
    /\ UNCHANGED <<registryVars, linked, session, connected, loaded, me, missed, spawnVars, others,
                   lastPlayer, lastId, zones>>

\* Another session ends; it may be an earlier one of mine, noticed late.
RemoteLeaves(p) ==
    /\ p \in others
    /\ others' = others \ {p}
    /\ srv' = Without(srv, OwnedBy(p))
    /\ BroadcastExcept(Append(DespawnsOf(OwnedBy(p)), Left(p)))
    /\ UNCHANGED <<registryVars, linked, session, connected, loaded, me, missed, spawnVars,
                   lastPlayer, lastId, zones>>

\* The answer to a zone load names every entity of the others that is near.
ZoneLoad ==
    /\ connected /\ session # 0 /\ zones < ZoneBound /\ MoreEvents
    /\ zones' = zones + 1
    /\ \E near \in SUBSET {id \in DOMAIN srv : srv[id] # session} : Deliver(SpawnsOf(near))
    /\ UNCHANGED <<registryVars, linked, session, connected, loaded, me, missed, spawnVars, srv,
                   others, lastPlayer, lastId>>

\* What the client has been told of and has not shown yet.
Pending ==
    {m.id : m \in {n \in ToSet(inbox) : n.kind = "spawn"}}
      \cup {r.id : r \in ToSet(queue \o announced \o spawning)}

\* The handshake is answered by the acceptance and the snapshot. What was told before
\* may be gone already.
HandleHandshake ==
    /\ linked /\ session = 0 /\ lastPlayer < LastPlayer /\ MoreEvents
    /\ session' = lastPlayer + 1 /\ lastPlayer' = lastPlayer + 1
    /\ Deliver(<<Ack(lastPlayer + 1)>> \o SpawnsOf(DOMAIN srv))
    /\ missed' = missed \cup Pending
    /\ UNCHANGED <<registryVars, linked, connected, loaded, me, spawnVars, srv, others, lastId, zones>>

-----------------------------------------------------------------------------
(* Connection and world. *)

\* The player dials, perhaps before a loss is noticed: then what is shown stays.
Dial ==
    /\ ~linked
    /\ linked' = TRUE
    /\ missed' = IF connected THEN missed \cup RemoteIds ELSE missed
    /\ UNCHANGED <<registryVars, session, connected, loaded, me, inbox, spawnVars, serverVars>>

\* The server will notice the end of the session later.
SessionEnds ==
    /\ linked' = FALSE /\ session' = 0
    /\ others' = IF session = 0 THEN others ELSE others \cup {session}

\* The network thread is told that the connection is lost, with all that was on its way.
LinkLost ==
    /\ linked /\ announced = <<>>
    /\ SessionEnds
    /\ inbox' = <<>>
    /\ UNCHANGED <<registryVars, connected, loaded, me, missed, spawnVars, srv, lastPlayer, lastId, zones>>

HandleHandshakeAck ==
    /\ inbox # <<>> /\ Head(inbox).kind = "ack" /\ announced = <<>>
    /\ connected' = TRUE /\ me' = Head(inbox).owner
    /\ hijacks' = [p \in Player |-> 0]
    /\ inbox' = Tail(inbox)
    /\ UNCHANGED <<registryVars, linked, session, loaded, missed, queue, announced, spawning, at,
                   capped, made, serverVars>>

\* Closing drops what the network thread has not taken yet.
InHands == {<<>>} \cup {<<m>> : m \in IF announced = <<>> /\ inbox # <<>> THEN {Head(inbox)} ELSE {}}

\* Mutant of SetConnectedFalse: the others' entities stay.
SetConnectedFalseKeepsRemotes ==
    /\ connected \/ linked
    /\ at = "idle" /\ at' = "reset"
    /\ SessionEnds
    /\ inbox' \in InHands
    /\ connected' = FALSE /\ missed' = {}
    /\ UNCHANGED <<registryVars, loaded, me, queue, announced, spawning, capped, hijacks, made, srv,
                   lastPlayer, lastId, zones>>

\* Lost, left or dialled anew, the connection takes the others' entities with it, but
\* not those of a message in the hands of the network thread. Mine stay in the
\* registry, under the ids this server gave them.
SetConnectedFalse ==
    /\ connected \/ linked
    /\ at = "idle" /\ at' = "reset"
    /\ SessionEnds
    /\ inbox' \in InHands
    /\ connected' = FALSE /\ missed' = {}
    /\ ClearRemoteEntities
    /\ UNCHANGED <<loaded, me, queue, announced, spawning, capped, hijacks, made, srv, lastPlayer,
                   lastId, zones>>

\* Its second half: the requests, with what was queued meanwhile.
ClearSpawnQueue ==
    /\ at = "reset" /\ at' = "idle"
    /\ queue' = <<>>
    /\ UNCHANGED <<registryVars, linkVars, announced, spawning, capped, hijacks, made, serverVars>>

\* Another save is loaded, which is noticed only in GameReady.
OnLoadingGapDetected ==
    /\ loaded /\ ~connected /\ at = "idle"
    /\ loaded' = FALSE
    /\ Clear
    /\ made' = {}
    /\ UNCHANGED <<linked, session, connected, me, inbox, missed, queue, announced, spawning, at,
                   capped, hijacks, serverVars>>

OnGameLoaded ==
    /\ ~loaded
    /\ loaded' = TRUE
    /\ UNCHANGED <<registryVars, linked, session, connected, me, inbox, missed, spawnVars, serverVars>>

\* The scan after connecting, or the creation hook, finds a character of mine. The
\* server names it for the session it has, unless it holds too many entities.
AnnounceCharacter(o) ==
    /\ connected /\ loaded /\ at = "idle"
    /\ o \notin DOMAIN ptrToId
    /\ Register(o, me)
    /\ \/ /\ session # 0 /\ lastId < LastServerId /\ MoreEvents
          /\ lastId' = lastId + 1
          /\ srv' = Put(srv, lastId + 1, session)
          /\ Broadcast(<<Spawned(lastId + 1, session)>>)
       \/ UNCHANGED <<lastId, srv, inbox>>
    /\ UNCHANGED <<linked, session, connected, loaded, me, missed, spawnVars, others, lastPlayer, zones>>

\* A zone unload takes the others' entities that are in it.
RemoveEntitiesInZone ==
    /\ connected /\ loaded /\ at = "idle"
    /\ \E ids \in SUBSET RemoteIds : ids # {} /\ RemoveAll(ids)
    /\ UNCHANGED <<linkVars, spawnVars, serverVars>>

-----------------------------------------------------------------------------
(* The network thread. *)

\* My own character, confirmed: the nearest of mine gets the server's id, even if
\* it has one already.
RemapNearest(m) ==
    \/ UNCHANGED registryVars
    \/ \E near \in {id \in DOMAIN entities : ~entities[id].remote /\ entities[id].owner = me} :
          RemapEntityId(near, m.id)

NewRequest(m) == [id |-> m.id, owner |-> m.owner, retries |-> 0]

\* Mutant of HandleEntitySpawn: a confirmation is queued as well.
HandleEntitySpawnQueuesOwn(m) ==
    /\ IF m.owner = me THEN RemapNearest(m) ELSE RegisterRemote(m.id, m.owner)
    /\ announced' = <<NewRequest(m)>>

\* Mutant of HandleEntitySpawn: the owner is not looked at.
HandleEntitySpawnAnyOwner(m) == RemapNearest(m) /\ UNCHANGED announced

\* Somebody else's character is registered now and queued in the thread's next
\* step, even if it was known.
HandleEntitySpawn(m) ==
    IF m.owner = me
      THEN RemapNearest(m) /\ UNCHANGED announced
      ELSE RegisterRemote(m.id, m.owner) /\ announced' = <<NewRequest(m)>>

QueueSpawn ==
    /\ announced # <<>> /\ Len(queue) < QueueBound
    /\ queue' = queue \o announced
    /\ announced' = <<>>
    /\ UNCHANGED <<registryVars, linkVars, spawning, at, capped, hijacks, made, serverVars>>

\* Handled before any session, and with no game loaded. The removals of a player who
\* leaves are not sent to a client without a session.
ReceiveSpawn ==
    /\ inbox # <<>> /\ Head(inbox).kind = "spawn" /\ announced = <<>>
    /\ HandleEntitySpawn(Head(inbox))
    /\ inbox' = Tail(inbox)
    /\ missed' = IF session = 0 THEN missed \cup {Head(inbox).id} ELSE missed
    /\ UNCHANGED <<linked, session, connected, loaded, me, queue, spawning, at, capped, hijacks, made,
                   serverVars>>

\* A removal that arrives before the game is loaded is dropped, "deferring" or not.
ReceiveRemovalEarly ==
    /\ inbox # <<>> /\ Head(inbox).kind \in {"despawn", "left"} /\ announced = <<>> /\ ~loaded
    /\ missed' = missed \cup
         IF Head(inbox).kind = "despawn" THEN {Head(inbox).id}
         ELSE {id \in DOMAIN entities : entities[id].owner = Head(inbox).owner}
    /\ inbox' = Tail(inbox)
    /\ UNCHANGED <<registryVars, linked, session, connected, loaded, me, spawnVars, serverVars>>

\* Mutant of HandleEntityDespawn: the entity is unlinked but stays registered.
HandleEntityDespawnUnlinks ==
    /\ inbox # <<>> /\ Head(inbox).kind = "despawn" /\ announced = <<>> /\ loaded
    /\ SetGameObject(Head(inbox).id, NoObject)
    /\ inbox' = Tail(inbox)
    /\ UNCHANGED <<linked, session, connected, loaded, me, missed, spawnVars, serverVars>>

\* Mutant of HandleEntityDespawn: the entity goes without the registry's operation.
HandleEntityDespawnErases ==
    /\ inbox # <<>> /\ Head(inbox).kind = "despawn" /\ announced = <<>> /\ loaded
    /\ entities' = Without(entities, {Head(inbox).id})
    /\ inbox' = Tail(inbox)
    /\ UNCHANGED <<ptrToId, nextId, linked, session, connected, loaded, me, missed, spawnVars,
                   serverVars>>

\* The request for the entity, if there is one, stays in the queue.
HandleEntityDespawn ==
    /\ inbox # <<>> /\ Head(inbox).kind = "despawn" /\ announced = <<>> /\ loaded
    /\ Unregister(Head(inbox).id)
    /\ inbox' = Tail(inbox)
    /\ UNCHANGED <<linked, session, connected, loaded, me, missed, spawnVars, serverVars>>

\* The requests of the others than p, in their order: position n holds the n-th.
ClearSpawnsForOwner(requests, p) ==
    LET kept == {i \in DOMAIN requests : requests[i].owner # p}
        nth(n) == CHOOSE i \in kept : Cardinality({j \in kept : j <= i}) = n
    IN  [n \in 1 .. Cardinality(kept) |-> requests[nth(n)]]

\* First the player's requests, then its entities, whoever made them.
HandlePlayerLeft ==
    /\ inbox # <<>> /\ Head(inbox).kind = "left" /\ announced = <<>> /\ loaded
    /\ LET p == Head(inbox).owner
       IN  /\ queue' = ClearSpawnsForOwner(queue, p)
           /\ RemoveAll({id \in DOMAIN entities : entities[id].owner = p})
    /\ inbox' = Tail(inbox)
    /\ UNCHANGED <<linked, session, connected, loaded, me, missed, announced, spawning, at, capped,
                   hijacks, made, serverVars>>

-----------------------------------------------------------------------------
(* The game thread: two consumers of the queue. *)

\* OnGameTick: a player who has had a body made here gets no other.
PopDirect ==
    /\ connected /\ loaded /\ at = "idle" /\ queue # <<>>
    /\ queue' = Tail(queue)
    /\ IF Head(queue).owner \in capped THEN UNCHANGED <<spawning, at>>
       ELSE spawning' = <<Head(queue)>> /\ at' = "tick"
    /\ UNCHANGED <<registryVars, linkVars, announced, capped, hijacks, made, serverVars>>

\* The game has created a character, and its hook takes the request at the head.
PopHijack ==
    /\ connected /\ loaded /\ at = "idle" /\ queue # <<>>
    /\ queue' = Tail(queue)
    /\ spawning' = <<Head(queue)>> /\ at' = "hook"
    /\ UNCHANGED <<registryVars, linkVars, announced, capped, hijacks, made, serverVars>>

\* Mutant of Requeued: the limit is not looked at.
RequeuedAlways(rest, r) == Append(rest, [r EXCEPT !.retries = @ + 1])

\* The queue after a failed attempt at its head.
Requeued(rest, r) ==
    IF r.retries + 1 < MaxRetries THEN Append(rest, [r EXCEPT !.retries = @ + 1]) ELSE rest

\* The next character that the game makes is the request's.
Link(id) ==
    /\ Body \ made # {}
    /\ LET o == CHOOSE b \in Body \ made : TRUE
       IN  SetGameObject(id, o) /\ made' = made \cup {o}

\* The hook takes the character over for the request; the attempt may fail, before or
\* after the link; a player with enough of them is put back.
Hijack ==
    /\ at = "hook" /\ at' = "idle" /\ spawning' = <<>>
    /\ LET r == spawning[1]
       IN  \/ /\ hijacks[r.owner] < MaxHijacks
              /\ Link(r.id)
              /\ hijacks' = [hijacks EXCEPT ![r.owner] = @ + 1]
              /\ UNCHANGED queue
           \/ /\ hijacks[r.owner] < MaxHijacks
              /\ Link(r.id) \/ UNCHANGED <<registryVars, made>>
              /\ queue' = Requeued(queue, r)
              /\ UNCHANGED hijacks
           \/ /\ hijacks[r.owner] >= MaxHijacks
              /\ queue' = Append(queue, r)
              /\ UNCHANGED <<registryVars, made, hijacks>>
    /\ UNCHANGED <<linkVars, announced, capped, serverVars>>

\* The factory returned a character.
SpawnSucceeds ==
    /\ at = "tick" /\ at' = "idle" /\ spawning' = <<>>
    /\ LET r == spawning[1]
       IN  /\ Link(r.id)
           /\ capped' = capped \cup {r.owner}
    /\ UNCHANGED <<linkVars, queue, announced, hijacks, serverVars>>

\* The factory returned nothing: try again later, or give up.
SpawnFails ==
    /\ at = "tick" /\ at' = "idle" /\ spawning' = <<>>
    /\ LET r == spawning[1]
       IN  /\ queue' = Requeued(queue, r)
           /\ IF queue' = queue THEN Unregister(r.id) ELSE UNCHANGED registryVars
    /\ UNCHANGED <<linkVars, announced, capped, hijacks, made, serverVars>>

\* Mutant of CleanUpStuck: it looks at linked entities.
CleanUpStuckLinked(id) ==
    /\ connected /\ loaded /\ at = "idle" /\ queue = <<>>
    /\ id \in RemoteIds /\ entities[id].state = "Spawning" /\ entities[id].obj # NoObject
    /\ Unregister(id)
    /\ UNCHANGED <<linkVars, spawnVars, serverVars>>

\* Every 10 s: an entity that waits for a body while no request waits.
CleanUpStuck(id) ==
    /\ connected /\ loaded /\ at = "idle" /\ queue = <<>>
    /\ id \in RemoteIds /\ entities[id].state = "Spawning" /\ entities[id].obj = NoObject
    /\ Unregister(id)
    /\ UNCHANGED <<linkVars, spawnVars, serverVars>>

-----------------------------------------------------------------------------

Init ==
    /\ RegistryInit
    /\ linked = FALSE /\ session = 0 /\ connected = FALSE /\ loaded \in BOOLEAN /\ me = 0
    /\ inbox = <<>> /\ missed = {}
    /\ queue = <<>> /\ announced = <<>> /\ spawning = <<>> /\ at = "idle"
    /\ capped = {} /\ hijacks = [p \in Player |-> 0] /\ made = {}
    /\ srv = EmptyMap /\ others = {1} /\ lastPlayer = 1 /\ lastId = 0 /\ zones = 0

Server == \/ \E p \in Player : RemoteSpawn(p) \/ RemoteLeaves(p)
          \/ \E id \in Id : RemoteDespawn(id)
          \/ ZoneLoad \/ HandleHandshake

NetworkThread == \/ LinkLost \/ HandleHandshakeAck
                 \/ ReceiveSpawn \/ QueueSpawn
                 \/ ReceiveRemovalEarly \/ HandleEntityDespawn \/ HandlePlayerLeft

GameThread == \/ Dial \/ SetConnectedFalse \/ ClearSpawnQueue \/ OnLoadingGapDetected \/ OnGameLoaded
              \/ \E o \in Squad : AnnounceCharacter(o)
              \/ RemoveEntitiesInZone
              \/ PopDirect \/ PopHijack \/ Hijack \/ SpawnSucceeds \/ SpawnFails
              \/ \E id \in Id : CleanUpStuck(id)

Next == Server \/ NetworkThread \/ GameThread

\* The threads go on; a tick looks at the queue every second and at stuck entities
\* every ten, whatever happened in between; loading ends.
Fairness ==
    /\ WF_vars(QueueSpawn) /\ WF_vars(SpawnSucceeds \/ SpawnFails \/ Hijack \/ ClearSpawnQueue)
    /\ WF_vars(OnGameLoaded) /\ SF_vars(PopDirect)
    /\ \A id \in 1 .. LastServerId : SF_vars(CleanUpStuck(id))

Spec == Init /\ [][Next]_vars
FairSpec == Spec /\ Fairness

-----------------------------------------------------------------------------

TypeOK ==
    /\ RegistryTypeOK
    /\ linked \in BOOLEAN /\ connected \in BOOLEAN /\ loaded \in BOOLEAN
    /\ queue \in Seq(Request) /\ announced \in Seq(Request) /\ spawning \in Seq(Request)
    /\ Len(announced) <= 1 /\ at \in Places
    /\ Len(spawning) = IF at \in {"tick", "hook"} THEN 1 ELSE 0
    /\ capped \subseteq Player /\ hijacks \in [Player -> 0 .. MaxHijacks]
    /\ made \subseteq Body /\ missed \subseteq Id
    /\ lastId \in 0 .. LastServerId /\ lastPlayer \in 1 .. LastPlayer /\ zones \in 0 .. ZoneBound
    /\ others \subseteq 1 .. lastPlayer /\ me \in 0 .. lastPlayer
    /\ session \in 0 .. lastPlayer /\ session \notin others /\ (session # 0 => linked)
    /\ DOMAIN srv \subseteq 1 .. lastId /\ \A id \in DOMAIN srv : srv[id] \in others \cup {session}
    /\ inbox \in Seq(Message) /\ (~linked => Len(inbox) <= 1)

\* Every entity with an object is found by that object: a hook that is handed a
\* character by the game recognizes it, across reloads that reuse addresses,
\* repeated spawns and confirmations.
LinkedMeansIndexed ==
    \A id \in DOMAIN entities :
       LET o == entities[id].obj IN o # NoObject => o \in DOMAIN ptrToId /\ ptrToId[o] = id

\* What the client shows of the others in a session exists on the server, or its
\* removal is on its way. The exceptions are those the code makes: what was registered
\* while the server had no session for the client, what a connection showed that was
\* dialled anew before its loss was noticed, and what is removed while the game loads.
\* Nothing else survives a connection, a removal or a player who leaves.
NoStaleRemotes ==
    session # 0 => \A id \in RemoteIds :
       id \in DOMAIN srv \/ Despawned(id) \in ToSet(inbox) \/ id \in missed

\* Client and server agree on who I am.
InSession == connected /\ session # 0 /\ me = session

\* A character of mine keeps its own object, whatever is spawned for the others.
OwnKeepTheirObject ==
    InSession => \A id \in DOMAIN entities :
       entities[id].owner = me => ~entities[id].remote /\ entities[id].obj \in Squad

\* The server calls a character mine by the id I use for it.
OwnIdsAreMine ==
    InSession => \A id \in DOMAIN entities :
       entities[id].owner = me /\ id < FirstLocalId => id \in OwnedBy(me)

\* The registry is used through its operations only.
UsesRegistry == RegistrySpec

\* An entity that waits for a body gets one, or is given up.
WaitsForBody(id) == connected /\ id \in RemoteIds /\ entities[id].state = "Spawning"
WaitingEnds == \A id \in 1 .. LastServerId : WaitsForBody(id) ~> ~WaitsForBody(id)

\* A request is for a player who is there, or whose leaving is not known yet:
\* "Without this, orphaned spawn requests would be processed later for a player
\* who no longer exists" (HandlePlayerLeft).
NoOrphanedRequests ==
    InSession => \A r \in ToSet(queue) :
       r.owner \in others \/ Left(r.owner) \in ToSet(inbox) \/ r.id \in missed
=============================================================================
