----------------------- MODULE EntityRegistry_proofs -----------------------
(* The registry under any sequence of calls, for any number of objects. *)
EXTENDS EntityRegistry, TLAPS

RegistryInv == RegistryTypeOK /\ IndexIsSound /\ CounterIsAhead

\* The registry starts empty.
LEMMA RegistryStartsSound == RegistryInit => RegistryInv
<1> SUFFICES ASSUME RegistryInit PROVE RegistryInv
  OBVIOUS
<1>1. DOMAIN entities = {} /\ DOMAIN ptrToId = {}
  BY DEF RegistryInit, EmptyMap
<1>2. entities \in [DOMAIN entities -> Info] /\ ptrToId \in [DOMAIN ptrToId -> Id]
  BY <1>1 DEF RegistryInit, EmptyMap
<1> QED BY <1>1, <1>2, IdAssumption
        DEF RegistryInit, RegistryInv, RegistryTypeOK, IndexIsSound, CounterIsAhead

\* Registering a local object, known or not, keeps both maps in agreement.
LEMMA RegisterIsSound ==
    ASSUME RegistryInv, NEW o \in Object, NEW p \in Player, Register(o, p)
    PROVE  RegistryInv'
<1> USE DEF RegistryInv, RegistryTypeOK, IndexIsSound, CounterIsAhead
<1>1. CASE o \in DOMAIN ptrToId
  BY <1>1 DEF Register, registryVars
<1>2. CASE o \notin DOMAIN ptrToId
  <2> DEFINE new == [obj |-> o, owner |-> p, remote |-> FALSE, state |-> "Active"]
  <2>1. /\ nextId \in Id
        /\ entities' = Put(entities, nextId, new)
        /\ ptrToId' = Put(ptrToId, o, nextId)
        /\ nextId' = nextId + 1
    BY <1>2 DEF Register
  <2>2. new \in Info
    BY DEF Info
  <2>3. nextId \notin DOMAIN entities
    BY IdAssumption
  <2> HIDE DEF new
  <2>4. RegistryTypeOK'
    BY <2>1, <2>2 DEF Put
  <2>5. CounterIsAhead'
    BY <2>1, IdAssumption DEF Put
  <2>6. IndexIsSound'
    <3>1. new.obj = o
      BY DEF new
    <3> QED BY <2>1, <2>3, <3>1 DEF Put
  <2> QED BY <2>4, <2>5, <2>6
<1> QED BY <1>1, <1>2

\* Announcing a remote entity touches no object.
LEMMA RegisterRemoteIsSound ==
    ASSUME RegistryInv, NEW id \in Id, NEW p \in Player, RegisterRemote(id, p)
    PROVE  RegistryInv'
<1> USE DEF RegistryInv, RegistryTypeOK, IndexIsSound, CounterIsAhead
<1>1. CASE id \in DOMAIN entities
  BY <1>1 DEF RegisterRemote, registryVars
<1>2. CASE id \notin DOMAIN entities
  <2> DEFINE new == [obj |-> NoObject, owner |-> p, remote |-> TRUE, state |-> "Spawning"]
  <2>1. /\ entities' = Put(entities, id, new)
        /\ ptrToId' = ptrToId
        /\ nextId' = IF id >= nextId THEN id + 1 ELSE nextId
    BY <1>2 DEF RegisterRemote, StayAhead
  <2>2. new \in Info
    BY DEF Info
  <2> HIDE DEF new
  <2>3. RegistryTypeOK'
    BY <2>1, <2>2, IdAssumption DEF Put
  <2>4. CounterIsAhead'
    BY <2>1, IdAssumption DEF Put
  <2>5. IndexIsSound'
    BY <1>2, <2>1 DEF Put
  <2> QED BY <2>3, <2>4, <2>5
<1> QED BY <1>1, <1>2

\* Linking an object replaces what the entity was linked to, in both maps.
LEMMA SetGameObjectIsSound ==
    ASSUME RegistryInv, NEW id \in Id, NEW o \in Object \cup {NoObject}, SetGameObject(id, o)
    PROVE  RegistryInv'
<1> USE DEF RegistryInv, RegistryTypeOK, IndexIsSound, CounterIsAhead
<1>1. CASE id \notin DOMAIN entities
  BY <1>1 DEF SetGameObject, registryVars
<1>2. CASE id \in DOMAIN entities
  <2> DEFINE kept == Without(ptrToId, {entities[id].obj})
             new == Linked(entities[id], o)
  <2>1. /\ entities' = [entities EXCEPT ![id] = new]
        /\ ptrToId' = IF o = NoObject THEN kept ELSE Put(kept, o, id)
        /\ nextId' = nextId
    BY <1>2 DEF SetGameObject
  <2>2. new \in Info /\ new.obj = o
    <3>1. entities[id] \in Info
      BY <1>2
    <3>2. /\ entities[id].owner \in Player /\ entities[id].remote \in BOOLEAN
          /\ entities[id].state \in {"Spawning", "Active"}
      BY <3>1 DEF Info
    <3> QED BY <3>2 DEF Info, Linked
  <2>3. /\ DOMAIN kept = DOMAIN ptrToId \ {entities[id].obj}
        /\ \A x \in DOMAIN kept : kept[x] = ptrToId[x] /\ kept[x] # id
    BY DEF Without
  <2> HIDE DEF new, kept
  <2>4. RegistryTypeOK'
    <3>1. kept \in [DOMAIN kept -> Id] /\ DOMAIN kept \subseteq Object
      BY <2>3 DEF kept, Without
    <3>2. ptrToId' \in [DOMAIN ptrToId' -> Id] /\ DOMAIN ptrToId' \subseteq Object
      <4>1. CASE o = NoObject
        BY <4>1, <2>1, <3>1
      <4>2. CASE o \in Object
        BY <4>2, <2>1, <3>1, NoObjectAssumption DEF Put
      <4> QED BY <4>1, <4>2
    <3>3. DOMAIN entities' \subseteq Id /\ entities' \in [DOMAIN entities' -> Info]
      BY <1>2, <2>1, <2>2
    <3> QED BY <2>1, <3>2, <3>3
  <2>5. CounterIsAhead'
    BY <2>1
  <2>6. IndexIsSound'
    BY <1>2, <2>1, <2>2, <2>3 DEF Put
  <2> QED BY <2>4, <2>5, <2>6
<1> QED BY <1>1, <1>2

\* Renaming an entity renames it in the index too.
LEMMA RemapIsSound ==
    ASSUME RegistryInv, NEW old \in Id, NEW new \in Id, RemapEntityId(old, new)
    PROVE  RegistryInv'
<1> USE DEF RegistryInv, RegistryTypeOK, IndexIsSound, CounterIsAhead
<1>1. CASE old \notin DOMAIN entities \/ new \in DOMAIN entities
  BY <1>1 DEF RemapEntityId, registryVars
<1>2. CASE old \in DOMAIN entities /\ new \notin DOMAIN entities
  <2> DEFINE info == entities[old]
  <2>1. /\ entities' = Put(Without(entities, {old}), new, info)
        /\ ptrToId' = IF info.obj = NoObject THEN ptrToId ELSE Put(ptrToId, info.obj, new)
        /\ nextId' = IF new >= nextId THEN new + 1 ELSE nextId
    BY <1>2 DEF RemapEntityId, StayAhead
  <2>2. info \in Info /\ info.obj \in Object \cup {NoObject}
    <3>1. info \in Info
      BY <1>2
    <3> QED BY <3>1 DEF Info
  <2>3. \A x \in DOMAIN ptrToId : ptrToId[x] = old => x = info.obj
    OBVIOUS
  <2> HIDE DEF info
  <2>4. /\ DOMAIN entities' = (DOMAIN entities \ {old}) \cup {new}
        /\ entities'[new] = info
        /\ \A i \in DOMAIN entities \ {old} : entities'[i] = entities[i]
        /\ entities' \in [DOMAIN entities' -> Info]
    BY <1>2, <2>1, <2>2 DEF Put, Without
  <2>5. RegistryTypeOK'
    <3>1. ptrToId' \in [DOMAIN ptrToId' -> Id] /\ DOMAIN ptrToId' \subseteq Object
      <4>1. CASE info.obj = NoObject
        BY <4>1, <2>1
      <4>2. CASE info.obj \in Object
        BY <4>2, <2>1, NoObjectAssumption DEF Put
      <4> QED BY <2>2, <4>1, <4>2
    <3>2. DOMAIN entities' \subseteq Id
      BY <2>4
    <3>3. nextId' \in Nat
      BY <2>1, IdAssumption
    <3> QED BY <2>4, <3>1, <3>2, <3>3
  <2>6. CounterIsAhead'
    BY <2>1, <2>4, IdAssumption
  <2>7. IndexIsSound'
    <3> SUFFICES ASSUME NEW x \in DOMAIN ptrToId'
                 PROVE  ptrToId'[x] \in DOMAIN entities' /\ entities'[ptrToId'[x]].obj = x
      OBVIOUS
    <3>1. CASE x = info.obj /\ info.obj # NoObject
      BY <2>1, <2>4, <3>1 DEF Put
    <3>2. CASE x # info.obj
      <4>1. x \in DOMAIN ptrToId /\ ptrToId'[x] = ptrToId[x]
        BY <2>1, <3>2 DEF Put
      <4>2. ptrToId[x] \in DOMAIN entities \ {old}
        BY <2>3, <3>2, <4>1
      <4> QED BY <2>4, <4>1, <4>2
    <3>3. CASE x = info.obj /\ info.obj = NoObject
      BY <2>1, <3>3, NoObjectAssumption
    <3> QED BY <3>1, <3>2, <3>3
  <2> QED BY <2>5, <2>6, <2>7
<1> QED BY <1>1, <1>2

\* Removing entities removes what the index says about them.
LEMMA RemoveIsSound ==
    ASSUME RegistryInv, NEW ids, RemoveAll(ids)
    PROVE  RegistryInv'
<1> USE DEF RegistryInv, RegistryTypeOK, IndexIsSound, CounterIsAhead
<1>1. /\ entities' = Without(entities, ids)
      /\ ptrToId' = Without(ptrToId, {entities[id].obj : id \in ids \cap DOMAIN entities})
      /\ nextId' = nextId
  BY DEF RemoveAll
<1>2. RegistryTypeOK'
  BY <1>1 DEF Without
<1>3. CounterIsAhead'
  BY <1>1 DEF Without
<1>4. IndexIsSound'
  BY <1>1 DEF Without
<1> QED BY <1>2, <1>3, <1>4

\* Every call keeps the two maps in agreement and the counter ahead.
LEMMA RegistryStepIsSound ==
    RegistryInv /\ [RegistryNext]_registryVars => RegistryInv'
<1> SUFFICES ASSUME RegistryInv, [RegistryNext]_registryVars PROVE RegistryInv'
  OBVIOUS
<1>1. ASSUME NEW id \in Id, NEW p \in Player, UpdateOwner(id, p) PROVE RegistryInv'
  <2>1. entities' \in [DOMAIN entities -> Info] /\ DOMAIN entities' = DOMAIN entities
    BY <1>1 DEF UpdateOwner, RegistryInv, RegistryTypeOK, Info
  <2>2. \A i \in DOMAIN entities : entities'[i].obj = entities[i].obj
    BY <1>1 DEF UpdateOwner, RegistryInv, RegistryTypeOK, Info
  <2> QED BY <1>1, <2>1, <2>2
          DEF UpdateOwner, RegistryInv, RegistryTypeOK, IndexIsSound, CounterIsAhead
<1>2. CASE Clear
  <2>1. DOMAIN entities' = {} /\ DOMAIN ptrToId' = {}
    BY <1>2 DEF Clear, EmptyMap
  <2>2. entities' \in [DOMAIN entities' -> Info] /\ ptrToId' \in [DOMAIN ptrToId' -> Id]
    BY <1>2, <2>1 DEF Clear, EmptyMap
  <2> QED BY <1>2, <2>1, <2>2
          DEF Clear, RegistryInv, RegistryTypeOK, IndexIsSound, CounterIsAhead
<1>3. CASE UNCHANGED registryVars
  BY <1>3 DEF registryVars, RegistryInv, RegistryTypeOK, IndexIsSound, CounterIsAhead
<1> QED BY <1>1, <1>2, <1>3, RegisterIsSound, RegisterRemoteIsSound, SetGameObjectIsSound,
           RemapIsSound, RemoveIsSound DEF RegistryNext

\* Whatever the threads call, in any order and with any arguments, the two maps
\* agree and no id is given out twice.
THEOREM RegistryIsSound == RegistrySpec => [](RegistryTypeOK /\ IndexIsSound /\ CounterIsAhead)
<1>1. RegistryInv => RegistryTypeOK /\ IndexIsSound /\ CounterIsAhead
  BY DEF RegistryInv
<1> QED BY <1>1, RegistryStepIsSound, RegistryStartsSound, PTL DEF RegistrySpec
=============================================================================
