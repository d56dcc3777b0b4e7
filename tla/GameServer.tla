----------------------------- MODULE GameServer -----------------------------
(***************************************************************************)
(* The dedicated server (KenshiMP.Server): sessions, host election, entity *)
(* ownership, kicks, persistence and restarts.                             *)
(*                                                                         *)
(* Every handler runs under m_mutex inside GameServer::Update, so a        *)
(* handler is one atomic step; what interleaves is the order in which ENet *)
(* delivers connections, packets and disconnections of different peers,    *)
(* the console thread's commands, and crashes of the process.              *)
(*                                                                         *)
(* Entity data is reduced to what the properties tell apart: the owner,    *)
(* whether the position is usable, beyond the map or not a number, and a   *)
(* history flag that says the entity came from the save file.              *)
(***************************************************************************)
EXTENDS Integers, FiniteSets, Maps

CONSTANTS
    Peers,          \* ENet peer slots of the host (maxPlayers * 4 in the code)
    MaxPlayers,     \* m_config.maxPlayers
    EntityLimit,    \* KMP_MAX_SYNC_ENTITIES
    Positions,      \* the positions a spawn or build request may carry
    LastPlayerId,   \* bound on player ids handed out between two restarts
    LastEntityId    \* bound on entity ids handed out between two restarts

ASSUME MaxPlayersAssumption == MaxPlayers \in Nat \ {0}
ASSUME EntityLimitAssumption == EntityLimit \in Nat \ {0}
ASSUME PositionsAssumption == Positions \subseteq {"ok", "far", "nan"}
ASSUME BoundsAssumption == LastPlayerId \in Nat /\ LastEntityId \in Nat

VARIABLES
    running,        \* the process is up and in its main loop
    link,           \* ENet state of each peer slot
    data,           \* peer->data: the player id stored in the slot, 0 for nullptr
    players,        \* m_players: player id -> the peer of the session
    host,           \* m_hostPlayerId, 0 when there is none
    nextPlayerId,   \* m_nextPlayerId
    entities,       \* m_entities: entity id -> entity
    nextEntityId,   \* m_nextEntityId
    disk,           \* the world save file: entity id -> saved entity
    torn            \* history: an exception cut this process's load short

vars == <<running, link, data, players, host, nextPlayerId, entities, nextEntityId, disk, torn>>
netVars == <<link, data>>
sessionVars == <<players, host, nextPlayerId>>
worldVars == <<entities, nextEntityId>>
fileVars == <<disk, torn>>

-----------------------------------------------------------------------------
PlayerId == 1 .. LastPlayerId
EntityId == 1 .. LastEntityId

\* closing covers DISCONNECTING, DISCONNECT_LATER and ZOMBIE: ENet delivers no
\* more packets of such a peer and sends it nothing new, and a DISCONNECT event
\* is still to come.
LinkState == {"closed", "connected", "closing"}

Position == {"ok", "far", "nan"}
SavedEntity == [owner : PlayerId, pos : Position]
Entity == [owner : PlayerId, pos : Position, restored : BOOLEAN]

-----------------------------------------------------------------------------
(* GetPlayer(peer): the session of a peer, if peer->data names a live one. *)
HasSession(p) == data[p] # 0 /\ data[p] \in DOMAIN players

\* Mutant of FromPlayer: packets are handled before the handshake as well.
FromAnyPeer(p) == running /\ link[p] = "connected"

\* HandlePacket dispatches a packet of p to a handler that needs a player.
FromPlayer(p) == running /\ link[p] = "connected" /\ HasSession(p)

Owns(p, e) == e \in DOMAIN entities /\ entities[e].owner = data[p]

OwnedBy(id) == {e \in DOMAIN entities : entities[e].owner = id}

\* Mutant of Full: one player too many is admitted.
FullOffByOne == Cardinality(DOMAIN players) > MaxPlayers

Full == Cardinality(DOMAIN players) >= MaxPlayers

Closed(ps) == [p \in Peers |-> IF p \in ps THEN "closing" ELSE link[p]]

-----------------------------------------------------------------------------
(* Connections and sessions *)

\* ENET_EVENT_TYPE_CONNECT: a full server disconnects the newcomer at once and
\* returns before it resets peer->data.
HandleConnect(p) ==
    /\ running
    /\ link[p] = "closed"
    /\ IF Full
         THEN /\ link' = [link EXCEPT ![p] = "closing"]
              /\ UNCHANGED data
         ELSE /\ link' = [link EXCEPT ![p] = "connected"]
              /\ data' = [data EXCEPT ![p] = 0]
    /\ UNCHANGED <<running, sessionVars, worldVars, fileVars>>

\* C2S_Handshake is refused (server full, or another protocol version): the
\* reject is queued and the peer is disconnected once it is delivered.
RejectHandshake(p, versionOk) ==
    /\ Full \/ ~versionOk
    /\ link' = Closed({p})
    /\ UNCHANGED <<data, sessionVars>>

\* Mutant of AdmitPlayer: every newcomer takes the host role over.
AdmitAsHost(p, versionOk) ==
    /\ ~Full /\ versionOk
    /\ nextPlayerId \in PlayerId
    /\ nextPlayerId' = nextPlayerId + 1
    /\ data' = [data EXCEPT ![p] = nextPlayerId]
    /\ players' = Put(players, nextPlayerId, p)
    /\ host' = nextPlayerId
    /\ UNCHANGED link

\* ... and otherwise a session is created; the first one becomes the host.
AdmitPlayer(p, versionOk) ==
    /\ ~Full /\ versionOk
    /\ nextPlayerId \in PlayerId
    /\ nextPlayerId' = nextPlayerId + 1
    /\ data' = [data EXCEPT ![p] = nextPlayerId]
    /\ players' = Put(players, nextPlayerId, p)
    /\ host' = IF host = 0 THEN nextPlayerId ELSE host
    /\ UNCHANGED link

\* Mutant of HandleHandshake: without the duplicate check.
HandleHandshakeAgain(p) ==
    /\ running
    /\ link[p] = "connected"
    /\ \E versionOk \in BOOLEAN : RejectHandshake(p, versionOk) \/ AdmitPlayer(p, versionOk)
    /\ UNCHANGED <<running, worldVars, fileVars>>

\* A second handshake on a peer that already has a player is ignored.
HandleHandshake(p) ==
    /\ running
    /\ link[p] = "connected"
    /\ data[p] = 0
    /\ \E versionOk \in BOOLEAN : RejectHandshake(p, versionOk) \/ AdmitPlayer(p, versionOk)
    /\ UNCHANGED <<running, worldVars, fileVars>>

\* Mutant of HostsAfter: the role is not passed on.
HostsAfterNone(id, rest) == {host}

\* Who may be host once player id has left and rest remain: m_players.begin() of
\* an unordered_map is any of them.
HostsAfter(id, rest) ==
    IF host # id THEN {host} ELSE IF rest = {} THEN {0} ELSE rest

\* Mutant of HandleDisconnect: the leaver's entities stay.
HandleDisconnectKeepsEntities(p) ==
    /\ running
    /\ link[p] # "closed"
    /\ link' = [link EXCEPT ![p] = "closed"]
    /\ data' = [data EXCEPT ![p] = 0]
    /\ IF HasSession(p)
         THEN /\ players' = Without(players, {data[p]})
              /\ host' \in HostsAfter(data[p], DOMAIN players \ {data[p]})
         ELSE UNCHANGED <<players, host>>
    /\ UNCHANGED <<running, entities, nextPlayerId, nextEntityId, fileVars>>

\* Mutant of HandleDisconnect: a slot that was asked to close is only reset.
HandleDisconnectSkipsClosing(p) ==
    /\ running
    /\ link[p] = "closing"
    /\ link' = [link EXCEPT ![p] = "closed"]
    /\ data' = [data EXCEPT ![p] = 0]
    /\ UNCHANGED <<running, sessionVars, worldVars, fileVars>>

\* ENET_EVENT_TYPE_DISCONNECT: the acknowledgement of a disconnect either side
\* asked for, or a timeout of a peer that stopped answering.
HandleDisconnect(p) ==
    /\ running
    /\ link[p] # "closed"
    /\ link' = [link EXCEPT ![p] = "closed"]
    /\ data' = [data EXCEPT ![p] = 0]
    /\ IF HasSession(p)
         THEN /\ entities' = Without(entities, OwnedBy(data[p]))
              /\ players' = Without(players, {data[p]})
              /\ host' \in HostsAfter(data[p], DOMAIN players \ {data[p]})
         ELSE UNCHANGED <<entities, players, host>>
    /\ UNCHANGED <<running, nextPlayerId, nextEntityId, fileVars>>

\* C2S_Disconnect and C2S_ServerQuery, from any connected peer: the server only
\* asks ENet to disconnect; the session goes when the DISCONNECT event fires.
HandleDisconnectRequest(p) ==
    /\ running
    /\ link[p] = "connected"
    /\ link' = Closed({p})
    /\ UNCHANGED <<running, data, sessionVars, worldVars, fileVars>>

\* The console's kick: the host can be kicked too.
KickPlayer(id) ==
    /\ running
    /\ id \in DOMAIN players
    /\ link' = Closed({players[id]})
    /\ UNCHANGED <<running, data, sessionVars, worldVars, fileVars>>

\* C2S_AdminCommand 0 (kick): only from the host, never of the host.
HandleAdminKick(p, id) ==
    /\ FromPlayer(p)
    /\ data[p] = host
    /\ id \in DOMAIN players /\ id # host
    /\ link' = Closed({players[id]})
    /\ UNCHANGED <<running, data, sessionVars, worldVars, fileVars>>

-----------------------------------------------------------------------------
(* Entities *)

\* Mutant of StoreEntity: the id is not consumed.
StoreEntityReusesId(p, pos) ==
    /\ nextEntityId \in EntityId
    /\ entities' = Put(entities, nextEntityId,
                       [owner |-> data[p], pos |-> pos, restored |-> FALSE])
    /\ UNCHANGED nextEntityId

\* The server gives the entity the next id and stores it with the sender as
\* owner; the client's own id for the entity is not kept.
StoreEntity(p, pos) ==
    /\ nextEntityId \in EntityId
    /\ entities' = Put(entities, nextEntityId,
                       [owner |-> data[p], pos |-> pos, restored |-> FALSE])
    /\ nextEntityId' = nextEntityId + 1

HandleEntitySpawnReq(p, pos) ==
    /\ FromPlayer(p)
    /\ Cardinality(DOMAIN entities) < EntityLimit
    /\ StoreEntity(p, pos)
    /\ UNCHANGED <<running, netVars, sessionVars, fileVars>>

\* A building is an entity too, but this handler checks no limit.
HandleBuildRequest(p, pos) ==
    /\ FromPlayer(p)
    /\ StoreEntity(p, pos)
    /\ UNCHANGED <<running, netVars, sessionVars, fileVars>>

HandleEntityDespawnReq(p, e) ==
    /\ FromPlayer(p)
    /\ Owns(p, e)
    /\ entities' = Without(entities, {e})
    /\ UNCHANGED <<running, netVars, sessionVars, nextEntityId, fileVars>>

\* The owner or the host dismantles; the entity's type is not looked at.
HandleBuildDismantle(p, e) ==
    /\ FromPlayer(p)
    /\ e \in DOMAIN entities
    /\ Owns(p, e) \/ data[p] = host
    /\ entities' = Without(entities, {e})
    /\ UNCHANGED <<running, netVars, sessionVars, nextEntityId, fileVars>>

\* Only the owner moves an entity, and only to usable coordinates.
HandlePositionUpdate(p, e) ==
    /\ FromPlayer(p)
    /\ Owns(p, e)
    /\ entities' = [entities EXCEPT ![e].pos = "ok"]
    /\ UNCHANGED <<running, netVars, sessionVars, nextEntityId, fileVars>>

-----------------------------------------------------------------------------
(* Persistence, crashes and restarts *)

\* The save holds every entity with its owner; the id counters are not saved.
Saved == [e \in DOMAIN entities |-> [owner |-> entities[e].owner, pos |-> entities[e].pos]]

SaveWorld ==
    /\ running
    /\ disk' = Saved
    /\ UNCHANGED <<running, netVars, sessionVars, worldVars, torn>>

\* What a new process starts from: no peer, no session, ids from 1.
FreshProcess ==
    /\ link' = [p \in Peers |-> "closed"]
    /\ data' = [p \in Peers |-> 0]
    /\ players' = EmptyMap
    /\ host' = 0
    /\ nextPlayerId' = 1
    /\ torn' = FALSE

\* main(): the signal or "stop" ends the loop, the world is saved, Stop() drops
\* the peers and the sessions, and the process exits.
Shutdown ==
    /\ running
    /\ running' = FALSE
    /\ disk' = Saved
    /\ entities' = EmptyMap
    /\ nextEntityId' = 1
    /\ FreshProcess

\* The process dies: everything since the last save is lost.
Crash ==
    /\ running
    /\ running' = FALSE
    /\ entities' = EmptyMap
    /\ nextEntityId' = 1
    /\ FreshProcess
    /\ UNCHANGED disk

\* LoadWorldFromFile visits the saved entities in file order, which is the hash
\* order of the map that was saved: the entries read before it stops are any
\* subset.  It keeps those with a usable position.
Kept(read) == {e \in read : disk[e].pos = "ok"}
NotANumber == {e \in DOMAIN disk : disk[e].pos = "nan"}
Restore(read) == [e \in Kept(read) |->
                     [owner |-> disk[e].owner, pos |-> disk[e].pos, restored |-> TRUE]]

\* Mutant of LoadComplete: the counter is set to the highest id, not above it.
LoadCompleteOffByOne(read) ==
    /\ read \cap NotANumber = {}
    /\ Cardinality(Kept(read)) <= EntityLimit
    /\ read = DOMAIN disk \/ Cardinality(Kept(read)) = EntityLimit
    /\ \E n \in {1} \cup read :
          /\ \A e \in read : e <= n
          /\ nextEntityId' = n
    /\ torn' = FALSE

\* All entries are visited, or the entity cap stops the loop: the next id is one
\* above the highest id visited, those skipped for their position included.
LoadComplete(read) ==
    /\ read \cap NotANumber = {}
    /\ Cardinality(Kept(read)) <= EntityLimit
    /\ read = DOMAIN disk \/ Cardinality(Kept(read)) = EntityLimit
    /\ \E n \in {1} \cup {e + 1 : e \in read} :
          /\ \A e \in read : e < n
          /\ nextEntityId' = n
    /\ torn' = FALSE

\* A NaN or infinite coordinate was written as null: reading it back as a number
\* throws.  The entities read before it stay, the id counter is not set.
LoadThrows(read) ==
    /\ read \cap NotANumber = {}
    /\ NotANumber # {}
    /\ Cardinality(Kept(read)) < EntityLimit
    /\ nextEntityId' = 1
    /\ torn' = TRUE

\* main(): Start, then LoadWorld.
Startup ==
    /\ ~running
    /\ running' = TRUE
    /\ \E read \in SUBSET DOMAIN disk :
          /\ LoadComplete(read) \/ LoadThrows(read)
          /\ entities' = Restore(read)
    /\ UNCHANGED <<netVars, sessionVars, disk>>

-----------------------------------------------------------------------------

Init ==
    /\ running = FALSE
    /\ link = [p \in Peers |-> "closed"]
    /\ data = [p \in Peers |-> 0]
    /\ players = EmptyMap
    /\ host = 0
    /\ nextPlayerId = 1
    /\ entities = EmptyMap
    /\ nextEntityId = 1
    /\ disk = EmptyMap
    /\ torn = FALSE

\* What the peers, ENet and the console make the server do.
SessionStep ==
    \/ \E p \in Peers :
          \/ HandleConnect(p)
          \/ HandleHandshake(p)
          \/ HandleDisconnect(p)
          \/ HandleDisconnectRequest(p)
          \/ \E id \in PlayerId : HandleAdminKick(p, id)
    \/ \E id \in PlayerId : KickPlayer(id)

EntityStep ==
    \E p \in Peers :
       \/ \E pos \in Positions : HandleEntitySpawnReq(p, pos) \/ HandleBuildRequest(p, pos)
       \/ \E e \in EntityId :
             \/ HandleEntityDespawnReq(p, e)
             \/ HandleBuildDismantle(p, e)
             \/ HandlePositionUpdate(p, e)

ProcessStep == SaveWorld \/ Shutdown \/ Crash \/ Startup

Next == SessionStep \/ EntityStep \/ ProcessStep

Spec == Init /\ [][Next]_vars

\* ENet completes every disconnect that was started: by the acknowledgement, or
\* by the timeout enet_peer_timeout sets when the peer no longer answers.
Fairness == \A p \in Peers : WF_vars(link[p] = "closing" /\ HandleDisconnect(p))

FairSpec == Spec /\ Fairness

-----------------------------------------------------------------------------
(* Correctness *)

\* Type correctness of the server's state.
TypeOK ==
    /\ running \in BOOLEAN
    /\ link \in [Peers -> LinkState]
    /\ data \in [Peers -> PlayerId \cup {0}]
    /\ DOMAIN players \subseteq PlayerId
    /\ players \in [DOMAIN players -> Peers]
    /\ host \in PlayerId \cup {0}
    /\ nextPlayerId \in Nat \ {0}
    /\ DOMAIN entities \subseteq EntityId
    /\ entities \in [DOMAIN entities -> Entity]
    /\ nextEntityId \in Nat \ {0}
    /\ DOMAIN disk \subseteq EntityId
    /\ disk \in [DOMAIN disk -> SavedEntity]
    /\ torn \in BOOLEAN

\* peer->data and m_players never disagree: a peer that names a player is that
\* player's peer, every player's peer names it, and its slot is still in use.
\* HandleDisconnect finds the session through peer->data alone, so a player this
\* misses would stay connected for ever (GetPlayer, HandleHandshake).
SessionsMatch ==
    /\ \A p \in Peers : data[p] # 0 => data[p] \in DOMAIN players /\ players[data[p]] = p
    /\ \A id \in DOMAIN players : data[players[id]] = id /\ link[players[id]] # "closed"

\* There is a host exactly while somebody is connected, and it is one of the
\* connected players (first handshake, reassignment in HandleDisconnect).
HostIsConnected ==
    /\ host = 0 <=> DOMAIN players = {}
    /\ host # 0 => host \in DOMAIN players

\* A session never outlives its capacity check: the server never has more than
\* maxPlayers players, kicked ones that are still closing included.
CapacityHolds == Cardinality(DOMAIN players) <= MaxPlayers

\* No ghosts: an entity created since the process started belongs to a player
\* who is still connected (HandleDisconnect removes what a leaver owned).
NoGhosts ==
    \A e \in DOMAIN entities : ~entities[e].restored => entities[e].owner \in DOMAIN players

\* Unless an exception cut its load short, the next entity id of a process is above
\* every id in use, so a new entity never replaces one that exists, the ones loaded
\* from the save file included; a file a torn process saved is loaded right again.
IdsFresh == ~torn => \A e \in DOMAIN entities : e < nextEntityId

\* The host keeps its role until it leaves (or the process ends): a newcomer or
\* another player's departure never moves it.
HostKeepsRole ==
    [][host # 0 /\ host' # host => ~running' \/ host \notin DOMAIN players']_vars

\* An entity never changes hands, unless the load was cut short: as long as its id
\* exists its owner is the same, although ids come from a counter that is rebuilt
\* from the save file. Even then only an entity of the file can be replaced.
OwnerIsStable ==
    [][\A e \in DOMAIN entities \cap DOMAIN entities' :
          entities'[e].owner = entities[e].owner \/ (torn /\ entities[e].restored)]_vars

\* A player the server or the console began to disconnect (kick, graceful
\* disconnect) does leave, and everything it created goes with it.
KickedPlayerLeaves ==
    \A id \in PlayerId :
       (id \in DOMAIN players /\ link[players[id]] = "closing")
       ~> (id \notin DOMAIN players /\ \A e \in OwnedBy(id) : entities[e].restored)

-----------------------------------------------------------------------------
(* What the documentation and comments promise and the code does not keep *)

\* "Skip entities owned by disconnected players (orphans from stale saves)"
\* (SendWorldSnapshot): what was restored from a save passes for an orphan.
RestoredAreOrphans ==
    \A e \in DOMAIN entities : entities[e].restored => entities[e].owner \notin DOMAIN players

\* "Still track max ID to prevent collisions" (LoadWorldFromFile, at an entity whose
\* position is not a number): no restored entity has an id that is given out again.
RestoredIdsStayTaken ==
    \A e \in DOMAIN entities : entities[e].restored => e < nextEntityId
=============================================================================
