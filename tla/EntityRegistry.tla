--------------------------- MODULE EntityRegistry ---------------------------
(***************************************************************************)
(* The client's entity registry (KenshiMP.Core/sync/entity_registry): the  *)
(* entities by network id, the index from game object to network id, and   *)
(* the counter for the ids of local objects that the server has not named  *)
(* yet.                                                                    *)
(*                                                                         *)
(* Every operation holds m_mutex from its first read to its last write, so *)
(* it is one step; the calls come from the network thread, the game thread *)
(* and the hooks, in any order.                                            *)
(*                                                                         *)
(* Positions, health, equipment and dirty flags are left out: no operation *)
(* below depends on them, except FindLocalEntityNear and                   *)
(* RemoveEntitiesInZone, whose choice is left open here.                   *)
(***************************************************************************)
EXTENDS Integers, Maps

CONSTANTS
    Object,         \* game objects (pointers that pass the address checks)
    NoObject,       \* nullptr
    Player,         \* player ids
    Id,             \* entity ids: server ids and local ones
    FirstLocalId    \* first id given to a local object (0x10000000)

ASSUME NoObjectAssumption == NoObject \notin Object
ASSUME IdAssumption == Id \subseteq Nat /\ FirstLocalId \in Nat

VARIABLES
    entities,       \* m_entities: id -> info
    ptrToId,        \* m_ptrToId: game object -> id
    nextId          \* m_nextId

registryVars == <<entities, ptrToId, nextId>>

Info == [obj : Object \cup {NoObject}, owner : Player, remote : BOOLEAN,
         state : {"Spawning", "Active"}]

-----------------------------------------------------------------------------

\* A server id at or above the counter pushes it on.
StayAhead(id) == nextId' = IF id >= nextId THEN id + 1 ELSE nextId

\* A registered object keeps its id. (Id bounds the local ids of a run.)
Register(o, p) ==
    IF o \in DOMAIN ptrToId
      THEN UNCHANGED registryVars
      ELSE /\ nextId \in Id
           /\ entities' = Put(entities, nextId,
                              [obj |-> o, owner |-> p, remote |-> FALSE, state |-> "Active"])
           /\ ptrToId' = Put(ptrToId, o, nextId)
           /\ nextId' = nextId + 1

\* A second announcement of the same entity is ignored.
RegisterRemote(id, p) ==
    IF id \in DOMAIN entities
      THEN UNCHANGED registryVars
      ELSE /\ entities' = Put(entities, id,
                              [obj |-> NoObject, owner |-> p, remote |-> TRUE,
                               state |-> "Spawning"])
           /\ StayAhead(id)
           /\ UNCHANGED ptrToId

\* An entity that gets an object becomes active; one that loses it keeps its state.
Linked(info, o) ==
    [obj |-> o, owner |-> info.owner, remote |-> info.remote,
     state |-> IF o = NoObject THEN info.state ELSE "Active"]

\* Mutant of SetGameObject: the mapping of the previous object stays behind.
SetGameObjectKeepsOld(id, o) ==
    IF id \notin DOMAIN entities
      THEN UNCHANGED registryVars
      ELSE /\ entities' = [entities EXCEPT ![id] = Linked(@, o)]
           /\ ptrToId' = IF o = NoObject THEN ptrToId ELSE Put(ptrToId, o, id)
           /\ UNCHANGED nextId

\* Links an object (or, with nullptr, unlinks the one there is). An object that
\* another entity is linked to moves in the index, but not in that entity.
SetGameObject(id, o) ==
    IF id \notin DOMAIN entities
      THEN UNCHANGED registryVars
      ELSE /\ entities' = [entities EXCEPT ![id] = Linked(@, o)]
           /\ LET kept == Without(ptrToId, {entities[id].obj})
              IN  ptrToId' = IF o = NoObject THEN kept ELSE Put(kept, o, id)
           /\ UNCHANGED nextId

\* Mutant of RemapEntityId: the index keeps the old id.
RemapForgetsIndex(old, new) ==
    IF old \notin DOMAIN entities \/ new \in DOMAIN entities
      THEN UNCHANGED registryVars
      ELSE /\ entities' = Put(Without(entities, {old}), new, entities[old])
           /\ StayAhead(new)
           /\ UNCHANGED ptrToId

\* The server's id replaces a local one, unless it is taken.
RemapEntityId(old, new) ==
    IF old \notin DOMAIN entities \/ new \in DOMAIN entities
      THEN UNCHANGED registryVars
      ELSE LET info == entities[old]
           IN  /\ entities' = Put(Without(entities, {old}), new, info)
               /\ ptrToId' = IF info.obj = NoObject THEN ptrToId ELSE Put(ptrToId, info.obj, new)
               /\ StayAhead(new)

UpdateOwner(id, p) ==
    /\ entities' = IF id \in DOMAIN entities THEN [entities EXCEPT ![id].owner = p] ELSE entities
    /\ UNCHANGED <<ptrToId, nextId>>

\* Unregister, and the loops over it (ClearRemoteEntities, RemoveEntitiesInZone).
RemoveAll(ids) ==
    /\ entities' = Without(entities, ids)
    /\ ptrToId' = Without(ptrToId, {entities[id].obj : id \in ids \cap DOMAIN entities})
    /\ UNCHANGED nextId

Unregister(id) == RemoveAll({id})

RemoteIds == {id \in DOMAIN entities : entities[id].remote}

ClearRemoteEntities == RemoveAll(RemoteIds)

\* Clear leaves the counter alone.
Clear ==
    /\ entities' = EmptyMap
    /\ ptrToId' = EmptyMap
    /\ UNCHANGED nextId

RegistryInit ==
    /\ entities = EmptyMap
    /\ ptrToId = EmptyMap
    /\ nextId = FirstLocalId

RegistryNext ==
    \/ \E o \in Object, p \in Player : Register(o, p)
    \/ \E id \in Id, p \in Player : RegisterRemote(id, p) \/ UpdateOwner(id, p)
    \/ \E id \in Id, o \in Object \cup {NoObject} : SetGameObject(id, o)
    \/ \E old, new \in Id : RemapEntityId(old, new)
    \/ \E ids \in SUBSET DOMAIN entities : RemoveAll(ids)
    \/ Clear

RegistrySpec == RegistryInit /\ [][RegistryNext]_registryVars

-----------------------------------------------------------------------------
(* Correctness, whatever the order of the calls. *)

RegistryTypeOK ==
    /\ DOMAIN entities \subseteq Id /\ entities \in [DOMAIN entities -> Info]
    /\ DOMAIN ptrToId \subseteq Object /\ ptrToId \in [DOMAIN ptrToId -> Id]
    /\ nextId \in Nat

\* The index never names an entity that is gone, nor one linked to another
\* object: what a hook finds by pointer is the entity of that very object.
IndexIsSound ==
    \A o \in DOMAIN ptrToId :
       ptrToId[o] \in DOMAIN entities /\ entities[ptrToId[o]].obj = o

\* The counter is ahead of every id in use ("Keep our local ID counter ahead of
\* server IDs", RemapEntityId): Register never overwrites an entity.
CounterIsAhead == \A id \in DOMAIN entities : id < nextId
=============================================================================
