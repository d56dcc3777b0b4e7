-------------------------- MODULE ClientWorld_proofs --------------------------
(* What a client shows and names, for any number of players, characters,       *)
(* requests and messages.                                                      *)
EXTENDS ClientWorld, EntityRegistry_proofs, SequenceTheorems, FunctionTheorems, FiniteSetTheorems

-----------------------------------------------------------------------------
(* The inductive invariant.                                                    *)

\* The requests, wherever they wait.
Requests == ToSet(queue) \cup ToSet(announced) \cup ToSet(spawning)

\* Local ids are above those of the server.
LocalIdsAreHigh == nextId >= FirstLocalId

\* An object is linked only after it was made, and mine are my squad's.
LinkedAreMade == \A id \in DOMAIN entities : entities[id].obj \in Squad \cup made \cup {NoObject}

\* Everybody who names an entity of the server names the same owner: the server,
\* the messages under way, the requests that wait, and the registry.
NamedAfter(owner) ==
    /\ \A id \in DOMAIN srv : srv[id] = owner[id]
    /\ \A m \in ToSet(inbox) : m.kind = "spawn" => m.id \in 1 .. lastId /\ m.owner = owner[m.id]
    /\ \A r \in Requests : r.id \in 1 .. lastId /\ r.owner = owner[r.id]
    /\ \A id \in DOMAIN entities :
          id < FirstLocalId => id \in 1 .. lastId /\ entities[id].owner = owner[id]

NamesAgree == \E owner \in [1 .. lastId -> 1 .. lastPlayer] : NamedAfter(owner)

\* Whoever owns an entity, or is told to be a player, has an id that the server gave.
PlayersAreKnown ==
    /\ \A id \in DOMAIN entities : entities[id].owner \in 1 .. lastPlayer
    /\ \A m \in ToSet(inbox) : m.kind = "ack" => m.owner \in 1 .. lastPlayer
    /\ connected => me # 0

\* In a session I know my name, or the acceptance is under way, the last of its kind.
\* What comes before it is of an earlier time: not mine, and accounted as missed.
SessionIsNamed ==
    session # 0 =>
       \/ connected /\ me = session /\ \A i \in 1 .. Len(inbox) : inbox[i].kind # "ack"
       \/ /\ me # session
          /\ \E i \in 1 .. Len(inbox) :
                /\ inbox[i] = Ack(session)
                /\ \A j \in 1 .. Len(inbox) :
                      /\ j > i => inbox[j].kind # "ack"
                      /\ j < i /\ inbox[j].kind = "ack" => inbox[j].owner # session
                      /\ j < i /\ inbox[j].kind = "spawn" =>
                            inbox[j].owner # session /\ inbox[j].id \in missed

\* What is announced exists, or its removal comes later, or it is too late for that;
\* what is announced as mine exists.
SpawnsComeFirst ==
    session # 0 => \A i \in 1 .. Len(inbox) : inbox[i].kind = "spawn" =>
       \/ inbox[i].id \in DOMAIN srv
       \/ /\ inbox[i].owner # session
          /\ \/ inbox[i].id \in missed
             \/ \E j \in i + 1 .. Len(inbox) : inbox[j] = Despawned(inbox[i].id)

\* What is owned by the player of this session is a character of mine, under a local id
\* or one that the server holds for me, and no body is wanted for it.
MineAreMine ==
    session # 0 =>
       /\ \A id \in DOMAIN entities : entities[id].owner = session =>
             /\ ~entities[id].remote /\ entities[id].obj \in Squad
             /\ id < FirstLocalId => id \in OwnedBy(session)
       /\ \A r \in Requests : r.owner # session

\* What is shown before a session, or without a connection, may have gone unnoticed.
EarlyAreMissed == ~connected \/ (linked /\ session = 0) => RemoteIds \subseteq missed

WorldInv ==
    /\ TypeOK /\ RegistryInv
    /\ LocalIdsAreHigh /\ LinkedAreMade /\ LinkedMeansIndexed
    /\ NamesAgree /\ PlayersAreKnown
    /\ SessionIsNamed /\ SpawnsComeFirst /\ MineAreMine /\ EarlyAreMissed
    /\ NoStaleRemotes

ObjectsInv == RegistryInv /\ LinkedMeansIndexed /\ LinkedAreMade /\ LocalIdsAreHigh

-----------------------------------------------------------------------------
(* The registry's calls, as this client makes them: what each does to the      *)
(* entities, and that an object stays findable.                                *)

\* The entity was there before, for the same owner, whatever it is linked to.
SameEntity(id) ==
    /\ id \in DOMAIN entities
    /\ entities'[id].owner = entities[id].owner /\ entities'[id].remote = entities[id].remote

\* A character of mine gets the next local id.
LEMMA RegisterOwn ==
    ASSUME ObjectsInv, NEW o \in Squad, NEW p \in Player, o \notin DOMAIN ptrToId,
           Register(o, p), made' = made
    PROVE  /\ LinkedMeansIndexed' /\ LinkedAreMade' /\ LocalIdsAreHigh'
           /\ \A id \in DOMAIN entities' :
                \/ SameEntity(id) /\ entities'[id].obj = entities[id].obj
                \/ /\ id = nextId /\ entities'[id].owner = p /\ ~entities'[id].remote
                   /\ entities'[id].obj = o
<1> USE DEF ObjectsInv, RegistryInv, RegistryTypeOK, IndexIsSound, CounterIsAhead
<1>1. /\ entities' = Put(entities, nextId,
                         [obj |-> o, owner |-> p, remote |-> FALSE, state |-> "Active"])
      /\ ptrToId' = Put(ptrToId, o, nextId)
      /\ nextId' = nextId + 1
  BY DEF Register
<1>2. nextId \notin DOMAIN entities
  BY IdAssumption
<1>3. /\ DOMAIN entities' = DOMAIN entities \cup {nextId}
      /\ \A id \in DOMAIN entities : entities'[id] = entities[id]
      /\ entities'[nextId].owner = p /\ ~entities'[nextId].remote /\ entities'[nextId].obj = o
  BY <1>1, <1>2 DEF Put
<1>4. \A id \in DOMAIN entities : entities[id].obj # o
  BY CharactersAssumption, NoObjectAssumption DEF LinkedMeansIndexed
<1>5. LinkedMeansIndexed'
  BY <1>1, <1>3, <1>4 DEF LinkedMeansIndexed, Put
<1>6. LinkedAreMade'
  BY <1>3 DEF LinkedAreMade
<1>7. LocalIdsAreHigh'
  BY <1>1, IdAssumption DEF LocalIdsAreHigh
<1> QED BY <1>3, <1>5, <1>6, <1>7 DEF SameEntity

\* Somebody else's entity is new, or it is known already.
LEMMA RegisterOther ==
    ASSUME ObjectsInv, NEW i \in Id, NEW p \in Player, RegisterRemote(i, p), made' = made
    PROVE  /\ LinkedMeansIndexed' /\ LinkedAreMade' /\ LocalIdsAreHigh'
           /\ \A id \in DOMAIN entities' :
                \/ SameEntity(id) /\ entities'[id].obj = entities[id].obj
                \/ id = i /\ entities'[id].owner = p /\ entities'[id].remote
<1> USE DEF ObjectsInv, RegistryInv, RegistryTypeOK
<1>1. CASE i \in DOMAIN entities
  BY <1>1 DEF RegisterRemote, registryVars, LinkedMeansIndexed, LinkedAreMade, LocalIdsAreHigh,
              SameEntity
<1>2. CASE i \notin DOMAIN entities
  <2>1. /\ entities' = Put(entities, i, [obj |-> NoObject, owner |-> p, remote |-> TRUE,
                                         state |-> "Spawning"])
        /\ ptrToId' = ptrToId
        /\ nextId' = IF i >= nextId THEN i + 1 ELSE nextId
    BY <1>2 DEF RegisterRemote, StayAhead
  <2>2. /\ DOMAIN entities' = DOMAIN entities \cup {i}
        /\ \A id \in DOMAIN entities : entities'[id] = entities[id]
        /\ entities'[i].owner = p /\ entities'[i].remote /\ entities'[i].obj = NoObject
    BY <1>2, <2>1 DEF Put
  <2>3. LinkedMeansIndexed'
    BY <2>1, <2>2 DEF LinkedMeansIndexed
  <2>4. LinkedAreMade'
    BY <2>2 DEF LinkedAreMade
  <2>5. LocalIdsAreHigh'
    BY <2>1, IdAssumption DEF LocalIdsAreHigh
  <2> QED BY <2>2, <2>3, <2>4, <2>5 DEF SameEntity
<1> QED BY <1>1, <1>2

\* A new body is linked to the entity, which may have had another.
LEMMA LinkBody ==
    ASSUME ObjectsInv, NEW i \in Id, Link(i)
    PROVE  /\ LinkedMeansIndexed' /\ LinkedAreMade' /\ LocalIdsAreHigh'
           /\ \A id \in DOMAIN entities' :
                SameEntity(id) /\ (id # i => entities'[id].obj = entities[id].obj)
           /\ \E o \in Body : SetGameObject(i, o) /\ made' = made \cup {o}
<1> USE DEF ObjectsInv, RegistryInv, RegistryTypeOK, IndexIsSound
<1>1. PICK o \in Body \ made : SetGameObject(i, o) /\ made' = made \cup {o}
  <2>1. \E b : b \in Body \ made
    BY DEF Link
  <2>2. (CHOOSE b \in Body \ made : TRUE) \in Body \ made
    BY <2>1
  <2> QED BY <2>2 DEF Link
<1>2. CASE i \notin DOMAIN entities
  <2>1. UNCHANGED registryVars
    BY <1>1, <1>2 DEF SetGameObject
  <2> QED BY <1>1, <2>1
          DEF registryVars, LinkedMeansIndexed, LinkedAreMade, LocalIdsAreHigh, SameEntity
<1>3. CASE i \in DOMAIN entities
  <2>1. o # NoObject
    BY CharactersAssumption, NoObjectAssumption
  <2>2. /\ entities' = [entities EXCEPT ![i] = Linked(entities[i], o)]
        /\ ptrToId' = Put(Without(ptrToId, {entities[i].obj}), o, i)
        /\ nextId' = nextId
    BY <1>1, <1>3, <2>1 DEF SetGameObject
  <2>3. /\ DOMAIN entities' = DOMAIN entities
        /\ \A id \in DOMAIN entities : id # i => entities'[id] = entities[id]
        /\ entities'[i].obj = o /\ entities'[i].owner = entities[i].owner
        /\ entities'[i].remote = entities[i].remote
    BY <1>3, <2>2 DEF Linked
  <2>4. \A id \in DOMAIN entities : entities[id].obj # o
    BY <1>1, <2>1, CharactersAssumption DEF LinkedAreMade
  <2>5. LinkedMeansIndexed'
    <3> SUFFICES ASSUME NEW id \in DOMAIN entities', entities'[id].obj # NoObject
                 PROVE  /\ entities'[id].obj \in DOMAIN ptrToId'
                        /\ ptrToId'[entities'[id].obj] = id
      BY DEF LinkedMeansIndexed
    <3>1. CASE id = i
      BY <2>2, <2>3, <3>1 DEF Put
    <3>2. CASE id # i
      <4>1. /\ entities[id].obj \in DOMAIN ptrToId /\ ptrToId[entities[id].obj] = id
            /\ entities'[id].obj = entities[id].obj /\ entities[id].obj # o
        BY <2>3, <2>4, <3>2 DEF LinkedMeansIndexed
      <4>2. entities[id].obj # entities[i].obj
        BY <1>3, <3>2, <4>1 DEF LinkedMeansIndexed
      <4> QED BY <2>2, <4>1, <4>2 DEF Put, Without
    <3> QED BY <3>1, <3>2
  <2>6. LinkedAreMade' /\ LocalIdsAreHigh'
    BY <1>1, <2>2, <2>3 DEF LinkedAreMade, LocalIdsAreHigh
  <2> QED BY <1>1, <2>3, <2>5, <2>6 DEF SameEntity
<1> QED BY <1>2, <1>3

\* A renamed entity keeps all but its id.
LEMMA RemapOwn ==
    ASSUME ObjectsInv, NEW old \in DOMAIN entities, NEW new \in Id, RemapEntityId(old, new),
           made' = made
    PROVE  /\ LinkedMeansIndexed' /\ LinkedAreMade' /\ LocalIdsAreHigh'
           /\ \A id \in DOMAIN entities' :
                \/ SameEntity(id) /\ entities'[id].obj = entities[id].obj
                \/ id = new /\ entities'[id] = entities[old]
<1> USE DEF ObjectsInv, RegistryInv, RegistryTypeOK, IndexIsSound
<1>1. CASE new \in DOMAIN entities
  BY <1>1 DEF RemapEntityId, registryVars, LinkedMeansIndexed, LinkedAreMade, LocalIdsAreHigh,
              SameEntity
<1>2. CASE new \notin DOMAIN entities
  <2> DEFINE info == entities[old]
  <2>1. /\ entities' = Put(Without(entities, {old}), new, info)
        /\ ptrToId' = IF info.obj = NoObject THEN ptrToId ELSE Put(ptrToId, info.obj, new)
        /\ nextId' = IF new >= nextId THEN new + 1 ELSE nextId
    BY <1>2 DEF RemapEntityId, StayAhead
  <2> HIDE DEF info
  <2>2. /\ DOMAIN entities' = (DOMAIN entities \ {old}) \cup {new}
        /\ entities'[new] = info
        /\ \A id \in DOMAIN entities \ {old} : entities'[id] = entities[id]
    BY <1>2, <2>1 DEF Put, Without
  <2>3. \A id \in DOMAIN entities \ {old} : entities[id].obj # NoObject => entities[id].obj # info.obj
    BY DEF LinkedMeansIndexed, info
  <2>4. LinkedMeansIndexed'
    <3> SUFFICES ASSUME NEW id \in DOMAIN entities', entities'[id].obj # NoObject
                 PROVE  /\ entities'[id].obj \in DOMAIN ptrToId'
                        /\ ptrToId'[entities'[id].obj] = id
      BY DEF LinkedMeansIndexed
    <3>1. CASE id = new
      BY <2>1, <2>2, <3>1 DEF Put
    <3>2. CASE id # new
      BY <2>1, <2>2, <2>3, <3>2 DEF Put, LinkedMeansIndexed
    <3> QED BY <3>1, <3>2
  <2>5. LinkedAreMade'
    <3>1. info.obj \in Squad \cup made \cup {NoObject}
      BY DEF LinkedAreMade, info
    <3> QED BY <2>2, <3>1 DEF LinkedAreMade
  <2>6. LocalIdsAreHigh'
    BY <2>1, IdAssumption DEF LocalIdsAreHigh
  <2> QED BY <2>2, <2>4, <2>5, <2>6 DEF SameEntity, info
<1> QED BY <1>1, <1>2

\* Removal leaves the rest as it is.
LEMMA RemoveSome ==
    ASSUME ObjectsInv, NEW ids, RemoveAll(ids), made' = made
    PROVE  /\ LinkedMeansIndexed' /\ LinkedAreMade' /\ LocalIdsAreHigh'
           /\ \A id \in DOMAIN entities' :
                id \notin ids /\ SameEntity(id) /\ entities'[id].obj = entities[id].obj
<1> USE DEF ObjectsInv, RegistryInv, RegistryTypeOK, IndexIsSound
<1>1. /\ entities' = Without(entities, ids)
      /\ ptrToId' = Without(ptrToId, {entities[id].obj : id \in ids \cap DOMAIN entities})
      /\ nextId' = nextId
  BY DEF RemoveAll
<1>2. /\ DOMAIN entities' = DOMAIN entities \ ids
      /\ \A id \in DOMAIN entities' : entities'[id] = entities[id]
  BY <1>1 DEF Without
<1>3. LinkedMeansIndexed'
  <2> SUFFICES ASSUME NEW id \in DOMAIN entities', entities'[id].obj # NoObject
               PROVE  /\ entities'[id].obj \in DOMAIN ptrToId'
                      /\ ptrToId'[entities'[id].obj] = id
    BY DEF LinkedMeansIndexed
  <2>1. /\ entities[id].obj \in DOMAIN ptrToId /\ ptrToId[entities[id].obj] = id
        /\ \A other \in ids \cap DOMAIN entities : entities[other].obj # entities[id].obj
    BY <1>2 DEF LinkedMeansIndexed
  <2> QED BY <1>1, <1>2, <2>1 DEF Without
<1>4. LinkedAreMade' /\ LocalIdsAreHigh'
  BY <1>1, <1>2 DEF LinkedAreMade, LocalIdsAreHigh
<1> QED BY <1>2, <1>3, <1>4 DEF SameEntity

-----------------------------------------------------------------------------
(* Sequences.                                                                  *)

\* A finite set in some order: every element has its place.
LEMMA SetToSeqFacts ==
    ASSUME NEW S, IsFiniteSet(S)
    PROVE  /\ Cardinality(S) \in Nat
           /\ SetToSeq(S) \in [1 .. Cardinality(S) -> S]
           /\ \A x \in S : \E i \in 1 .. Cardinality(S) : SetToSeq(S)[i] = x
<1> DEFINE n == Cardinality(S)
           f == SetToSeq(S)
<1>1. n \in Nat /\ ExistsBijection(1 .. n, S)
  BY FS_CardinalityType
<1>2. PICK b : b \in Bijection(1 .. n, S)
  BY <1>1 DEF ExistsBijection
<1>3. b \in [1 .. n -> S] /\ IsInjective(b)
  BY <1>2 DEF Bijection, Injection
<1>4. f \in [1 .. n -> S] /\ IsInjective(f)
  BY <1>3 DEF SetToSeq
<1>5. f \in Injection(1 .. n, S)
  BY <1>4 DEF Injection
<1>6. Cardinality(1 .. n) = n
  BY <1>1, FS_Interval
<1>7. f \in Surjection(1 .. n, S)
  BY <1>5, <1>6, FS_Injection
<1>8. \A x \in S : \E i \in 1 .. n : f[i] = x
  BY <1>7 DEF Surjection
<1> QED BY <1>1, <1>4, <1>8

\* The announcement of entities names each of them, with its owner.
LEMMA SpawnsOfFacts ==
    ASSUME NEW ids \in SUBSET DOMAIN srv, IsFiniteSet(ids), ids \subseteq Id,
           \A id \in ids : srv[id] \in Player
    PROVE  /\ SpawnsOf(ids) \in Seq(Message)
           /\ \A i \in 1 .. Len(SpawnsOf(ids)) :
                \E id \in ids : SpawnsOf(ids)[i] = Spawned(id, srv[id])
<1> DEFINE n == Cardinality(ids)
           f == SetToSeq(ids)
           t == SpawnsOf(ids)
<1>1. n \in Nat /\ f \in [1 .. n -> ids]
  BY SetToSeqFacts
<1>2. t = [i \in 1 .. n |-> Spawned(f[i], srv[f[i]])]
  BY DEF SpawnsOf
<1> HIDE DEF n, f, t
<1>3. \A i \in 1 .. n : t[i] \in Message /\ t[i] = Spawned(f[i], srv[f[i]]) /\ f[i] \in ids
  BY <1>1, <1>2 DEF Message, Spawned
<1>4. t \in [1 .. n -> Message]
  BY <1>2, <1>3
<1>5. t \in Seq(Message) /\ Len(t) = n
  BY <1>1, <1>4
<1> QED BY <1>3, <1>5 DEF t

\* So does that of their removal.
LEMMA DespawnsOfFacts ==
    ASSUME NEW ids \in SUBSET Id, IsFiniteSet(ids)
    PROVE  /\ DespawnsOf(ids) \in Seq(Message)
           /\ \A i \in 1 .. Len(DespawnsOf(ids)) : DespawnsOf(ids)[i].kind = "despawn"
           /\ \A id \in ids : \E i \in 1 .. Len(DespawnsOf(ids)) : DespawnsOf(ids)[i] = Despawned(id)
<1> DEFINE n == Cardinality(ids)
           f == SetToSeq(ids)
           t == DespawnsOf(ids)
<1>1. /\ n \in Nat /\ f \in [1 .. n -> ids]
      /\ \A id \in ids : \E i \in 1 .. n : f[i] = id
  BY SetToSeqFacts
<1>2. t = [i \in 1 .. n |-> Despawned(f[i])]
  BY DEF DespawnsOf
<1> HIDE DEF n, f, t
<1>3. \A i \in 1 .. n : t[i] \in Message /\ t[i] = Despawned(f[i]) /\ t[i].kind = "despawn"
  BY <1>1, <1>2 DEF Message, Despawned
<1>4. t \in [1 .. n -> Message]
  BY <1>2, <1>3
<1>5. t \in Seq(Message) /\ Len(t) = n
  BY <1>1, <1>4
<1> QED BY <1>1, <1>3, <1>5 DEF t

\* Clearing a player's requests keeps exactly the others', in their order.
LEMMA ClearKeepsOthers ==
    ASSUME NEW S, NEW s \in Seq(S), NEW p
    PROVE  LET t == ClearSpawnsForOwner(s, p)
               kept == {i \in 1 .. Len(s) : s[i].owner # p}
           IN  /\ t \in Seq(S) /\ Len(t) <= Len(s) /\ ToSet(t) \subseteq ToSet(s)
               /\ \E pos \in Bijection(1 .. Len(t), kept) :
                     /\ \A n \in 1 .. Len(t) : t[n] = s[pos[n]]
                     /\ \A m, n \in 1 .. Len(t) : m < n => pos[m] < pos[n]
<1> DEFINE kept == {i \in 1 .. Len(s) : s[i].owner # p}
           below(i) == {j \in kept : j <= i}
           rank == [i \in kept |-> Cardinality(below(i))]
           n == Cardinality(kept)
           t == ClearSpawnsForOwner(s, p)
           pos == [k \in 1 .. n |-> CHOOSE i \in kept : Cardinality(below(i)) = k]
<1>1. /\ Len(s) \in Nat /\ DOMAIN s = 1 .. Len(s) /\ IsFiniteSet(1 .. Len(s))
      /\ Cardinality(1 .. Len(s)) = Len(s)
  <2>1. Len(s) \in Nat /\ DOMAIN s = 1 .. Len(s)
    BY LenProperties
  <2>2. /\ IsFiniteSet(1 .. Len(s))
        /\ Cardinality(1 .. Len(s)) = IF 1 > Len(s) THEN 0 ELSE Len(s) - 1 + 1
    BY <2>1, FS_Interval
  <2> QED BY <2>1, <2>2
<1>2. IsFiniteSet(kept) /\ n \in Nat /\ n <= Len(s)
  BY <1>1, FS_Subset, FS_CardinalityType
<1>3. \A i \in kept : /\ IsFiniteSet(below(i)) /\ Cardinality(below(i)) \in Nat
                      /\ Cardinality(below(i)) \in 1 .. n
  <2> SUFFICES ASSUME NEW i \in kept
               PROVE  /\ IsFiniteSet(below(i)) /\ Cardinality(below(i)) \in Nat
                      /\ Cardinality(below(i)) \in 1 .. n
    OBVIOUS
  <2>1. IsFiniteSet(below(i)) /\ Cardinality(below(i)) <= n
    BY <1>2, FS_Subset
  <2>2. Cardinality(below(i)) \in Nat /\ (Cardinality(below(i)) = 0 <=> below(i) = {})
    BY <2>1, FS_CardinalityType, FS_EmptySet
  <2>3. i \in below(i)
    BY <1>1
  <2> QED BY <1>2, <2>1, <2>2, <2>3
<1>4. \A i, j \in kept : i < j => Cardinality(below(i)) < Cardinality(below(j))
  <2> SUFFICES ASSUME NEW i \in kept, NEW j \in kept, i < j
               PROVE  Cardinality(below(i)) < Cardinality(below(j))
    OBVIOUS
  <2>1. below(i) \subseteq below(j) /\ j \in below(j) /\ j \notin below(i)
    BY <1>1
  <2>2. /\ Cardinality(below(i)) <= Cardinality(below(j))
        /\ Cardinality(below(j)) = Cardinality(below(i)) => below(j) = below(i)
    BY <1>3, <2>1, FS_Subset
  <2>3. Cardinality(below(i)) # Cardinality(below(j))
    BY <2>1, <2>2
  <2>4. Cardinality(below(i)) \in Nat /\ Cardinality(below(j)) \in Nat
    BY <1>3
  <2> HIDE DEF below
  <2> QED BY <2>2, <2>3, <2>4
<1>5. rank \in Injection(kept, 1 .. n)
  <2>1. rank \in [kept -> 1 .. n]
    BY <1>3
  <2>2. ASSUME NEW i \in kept, NEW j \in kept, rank[i] = rank[j] PROVE i = j
    <3>1. i \in Nat /\ j \in Nat /\ Cardinality(below(i)) = Cardinality(below(j))
      BY <1>1, <2>2
    <3>2. Cardinality(below(i)) \in Nat
      BY <1>3
    <3>3. ~(i < j) /\ ~(j < i)
      <4> HIDE DEF below
      <4> QED BY <1>4, <3>1, <3>2
    <3> QED BY <3>1, <3>3
  <2> QED BY <2>1, <2>2, Fun_IsInj
<1>6. rank \in Surjection(kept, 1 .. n)
  BY <1>2, <1>5, FS_Injection, FS_Interval
<1>7. \A k \in 1 .. n : \E i \in kept : Cardinality(below(i)) = k
  <2>1. \A k \in 1 .. n : \E i \in kept : rank[i] = k
    <3> HIDE DEF rank, n
    <3> QED BY <1>6 DEF Surjection
  <2> QED BY <2>1
<1>8. \A k \in 1 .. n : pos[k] \in kept /\ Cardinality(below(pos[k])) = k
  BY <1>7
<1>9. t = [k \in 1 .. n |-> s[pos[k]]]
  BY <1>1 DEF ClearSpawnsForOwner
<1> HIDE DEF t, pos, n, rank, below
<1>10. t \in Seq(S) /\ Len(t) = n /\ \A k \in 1 .. n : t[k] = s[pos[k]]
  <2>1. \A k \in 1 .. n : s[pos[k]] \in S
    BY <1>1, <1>8, ElementOfSeq
  <2>2. t \in [1 .. n -> S]
    BY <1>9, <2>1
  <2> QED BY <1>2, <1>9, <2>2
<1>11. \A k, l \in 1 .. n : k < l => pos[k] < pos[l]
  <2> SUFFICES ASSUME NEW k \in 1 .. n, NEW l \in 1 .. n, k < l PROVE pos[k] < pos[l]
    OBVIOUS
  <2>1. pos[k] \in kept /\ pos[l] \in kept /\ pos[k] \in Nat /\ pos[l] \in Nat
    BY <1>1, <1>8
  <2>2. pos[k] # pos[l] /\ ~(pos[l] < pos[k])
    BY <1>2, <1>4, <1>8, <2>1
  <2> QED BY <2>1, <2>2
<1>12. pos \in Bijection(1 .. n, kept)
  <2>1. pos \in [1 .. n -> kept]
    BY <1>8 DEF pos
  <2>2. \A k, l \in 1 .. n : pos[k] = pos[l] => k = l
    BY <1>8
  <2>3. \A i \in kept : \E k \in 1 .. n : pos[k] = i
    <3> SUFFICES ASSUME NEW i \in kept PROVE \E k \in 1 .. n : pos[k] = i
      OBVIOUS
    <3>1. Cardinality(below(i)) \in 1 .. n
      BY <1>3
    <3>2. pos[Cardinality(below(i))] \in kept
          /\ Cardinality(below(pos[Cardinality(below(i))])) = Cardinality(below(i))
      BY <1>8, <3>1
    <3>3. pos[Cardinality(below(i))] = i
      BY <1>1, <1>2, <1>4, <3>1, <3>2
    <3> QED BY <3>1, <3>3
  <2> QED BY <2>1, <2>2, <2>3, Fun_IsBij
<1>13. ToSet(t) \subseteq ToSet(s)
  <2>1. DOMAIN t = 1 .. n /\ DOMAIN s = 1 .. Len(s) /\ \A k \in 1 .. n : pos[k] \in 1 .. Len(s)
    BY <1>1, <1>8, <1>9
  <2> QED BY <1>10, <2>1 DEF ToSet
<1> HIDE DEF kept
<1> QED BY <1>2, <1>10, <1>11, <1>12, <1>13 DEF t, kept

-----------------------------------------------------------------------------
(* Messages.                                                                   *)

\* The fields of a message, by its kind.
LEMMA MessageFields ==
    ASSUME NEW m \in Message
    PROVE  /\ m.kind \in {"spawn", "despawn", "left", "ack"}
           /\ m.kind = "spawn" => m.id \in Id /\ m.owner \in Player
           /\ m.kind = "despawn" => m.id \in Id /\ m = Despawned(m.id)
           /\ m.kind \in {"left", "ack"} => m.owner \in Player
BY DEF Message, Despawned

\* A message taken from the inbox was the first; the rest moves up.
LEMMA TakeMessage ==
    ASSUME inbox \in Seq(Message), inbox # <<>>
    PROVE  /\ Len(inbox) \in Nat /\ Len(inbox) >= 1
           /\ Head(inbox) = inbox[1] /\ Head(inbox) \in Message
           /\ Tail(inbox) \in Seq(Message) /\ Len(Tail(inbox)) = Len(inbox) - 1
           /\ \A i \in 1 .. Len(inbox) - 1 : Tail(inbox)[i] = inbox[i + 1]
<1>1. Len(inbox) \in Nat /\ Len(inbox) # 0
  BY EmptySeq, LenProperties
<1>2. Head(inbox) = inbox[1]
  OBVIOUS
<1> QED BY <1>1, <1>2, HeadTailProperties

\* What a sequence holds is what is at its positions.
LEMMA ToSetIsElements ==
    ASSUME NEW S, NEW s \in Seq(S)
    PROVE  /\ Len(s) \in Nat
           /\ \A x : x \in ToSet(s) <=> \E i \in 1 .. Len(s) : s[i] = x
           /\ ToSet(s) \subseteq S
<1>1. DOMAIN s = 1 .. Len(s) /\ Len(s) \in Nat /\ \A i \in 1 .. Len(s) : s[i] \in S
  BY LenProperties, ElementOfSeq
<1> QED BY <1>1 DEF ToSet

\* What the server sends comes last, if it is sent at all.
\* What the server sends comes last.
LEMMA DeliverAppends ==
    ASSUME inbox \in Seq(Message), NEW msgs \in Seq(Message), Deliver(msgs)
    PROVE  /\ inbox' \in Seq(Message) /\ Len(inbox) \in Nat /\ Len(inbox') \in Nat
           /\ Len(msgs) \in Nat /\ Len(inbox') = Len(inbox) + Len(msgs)
           /\ \A i \in 1 .. Len(inbox) : i \in 1 .. Len(inbox') /\ inbox'[i] = inbox[i]
           /\ \A i \in 1 .. Len(msgs) :
                 Len(inbox) + i \in 1 .. Len(inbox') /\ inbox'[Len(inbox) + i] = msgs[i]
           /\ \A i \in 1 .. Len(inbox') : i > Len(inbox) =>
                 i - Len(inbox) \in 1 .. Len(msgs) /\ inbox'[i] = msgs[i - Len(inbox)]
<1>1. Len(inbox) \in Nat /\ Len(msgs) \in Nat
  BY LenProperties
<1>2. inbox' = inbox \o msgs
  BY DEF Deliver
<1>3. /\ inbox \o msgs \in Seq(Message) /\ Len(inbox \o msgs) = Len(inbox) + Len(msgs)
      /\ \A i \in 1 .. Len(inbox) + Len(msgs) : (inbox \o msgs)[i] =
               IF i <= Len(inbox) THEN inbox[i] ELSE msgs[i - Len(inbox)]
  BY ConcatProperties
<1>4. \A i \in 1 .. Len(msgs) :
         Len(inbox) + i \in 1 .. Len(inbox') /\ inbox'[Len(inbox) + i] = msgs[i]
  BY <1>1, <1>2, <1>3
<1> QED BY <1>1, <1>2, <1>3, <1>4

-----------------------------------------------------------------------------
(* One step and the registry.                                                  *)

\* The next message announces an entity of owner p.
NextIsSpawn(id, p) ==
    /\ inbox # <<>> /\ Head(inbox).kind = "spawn"
    /\ Head(inbox).id = id /\ Head(inbox).owner = p
    /\ inbox' = Tail(inbox)
    /\ missed' = IF session = 0 THEN missed \cup {id} ELSE missed
    /\ UNCHANGED <<linked, session, connected, me, serverVars>>

\* Where an entity comes from: it was there, and has another object only if a
\* request asked for one; or it is a character of mine, of somebody else, or one
\* of mine under its new id.
EntityComesFrom(id) ==
    \/ /\ SameEntity(id)
       /\ entities'[id].obj # entities[id].obj => \E r \in Requests : r.id = id
    \/ /\ connected /\ id = nextId
       /\ entities'[id].owner = me /\ ~entities'[id].remote /\ entities'[id].obj \in Squad
    \/ \E p \in Player :
          p # me /\ NextIsSpawn(id, p) /\ entities'[id].owner = p /\ entities'[id].remote
    \/ /\ NextIsSpawn(id, me)
       /\ \E old \in DOMAIN entities :
             entities[old].owner = me /\ ~entities[old].remote /\ entities'[id] = entities[old]

\* Removing ids that are not registered removes nothing.
LEMMA RemoveIsCall ==
    ASSUME RegistryTypeOK, NEW ids, RemoveAll(ids)
    PROVE  [RegistryNext]_registryVars
<1> DEFINE known == ids \cap DOMAIN entities
<1>1. RemoveAll(known)
  <2>1. Without(entities, ids) = Without(entities, known)
    BY DEF Without
  <2>2. ids \cap DOMAIN entities = known \cap DOMAIN entities
    OBVIOUS
  <2> QED BY <2>1, <2>2 DEF RemoveAll
<1>2. known \in SUBSET DOMAIN entities
  OBVIOUS
<1> QED BY <1>1, <1>2 DEF RegistryNext

\* A request names an entity that may be registered.
LEMMA RequestFields ==
    ASSUME TypeOK
    PROVE  /\ \A r \in Requests : r \in Request /\ r.id \in Id /\ r.owner \in Player
           /\ queue # <<>> => Head(queue) \in Requests
           /\ spawning # <<>> => spawning[1] \in Requests /\ spawning = <<spawning[1]>>
           /\ at \in {"tick", "hook"} => spawning # <<>>
<1>1. /\ queue \in Seq(Request) /\ announced \in Seq(Request) /\ spawning \in Seq(Request)
      /\ Len(spawning) <= 1
  BY DEF TypeOK
<1>2. \A r \in Requests : r \in Request
  BY <1>1, ToSetIsElements DEF Requests
<1>3. queue # <<>> => Head(queue) = queue[1] /\ 1 \in 1 .. Len(queue)
  BY <1>1, EmptySeq
<1>4. spawning # <<>> => 1 \in 1 .. Len(spawning) /\ Len(spawning) = 1
  <2> SUFFICES ASSUME spawning # <<>> PROVE Len(spawning) = 1
    OBVIOUS
  <2>1. Len(spawning) \in Nat
    BY <1>1, LenProperties
  <2>2. Len(spawning) # 0
    BY <1>1, EmptySeq
  <2> DEFINE n == Len(spawning)
  <2>3. n \in Nat /\ n # 0 /\ n <= 1
    BY <1>1, <2>1, <2>2
  <2> HIDE DEF n
  <2>4. n = 1
    BY <2>3
  <2> QED BY <2>4 DEF n
<1>5. queue # <<>> => Head(queue) \in Requests
  BY <1>1, <1>3, ToSetIsElements DEF Requests
<1>6. spawning # <<>> => spawning[1] \in Requests /\ spawning = <<spawning[1]>>
  BY <1>1, <1>4, ToSetIsElements DEF Requests
<1>7. at \in {"tick", "hook"} => spawning # <<>>
  <2>1. at \in {"tick", "hook"} => Len(spawning) = 1
    BY DEF TypeOK
  <2>2. Len(<<>>) = 0
    OBVIOUS
  <2> QED BY <2>1, <2>2
<1> QED BY <1>2, <1>5, <1>6, <1>7 DEF Request

\* What a step does to the registry, whoever takes it: it is one of the registry's
\* calls, objects stay findable, and every entity has an origin.
RegistryStep ==
    /\ [RegistryNext]_registryVars
    /\ LinkedMeansIndexed' /\ LinkedAreMade' /\ LocalIdsAreHigh'
    /\ \A id \in DOMAIN entities' : EntityComesFrom(id)

\* A step that leaves the registry alone.
LEMMA QuietIsRegistryStep ==
    ASSUME ObjectsInv, UNCHANGED <<registryVars, made>>
    PROVE  RegistryStep
BY DEF RegistryStep, ObjectsInv, registryVars, LinkedMeansIndexed, LinkedAreMade, LocalIdsAreHigh,
       EntityComesFrom, SameEntity

\* A step that removes entities.
LEMMA RemovalIsRegistryStep ==
    ASSUME ObjectsInv, NEW ids, RemoveAll(ids), made' = made
    PROVE  RegistryStep
<1>1. [RegistryNext]_registryVars
  BY RemoveIsCall DEF ObjectsInv, RegistryInv
<1> QED BY <1>1, RemoveSome DEF RegistryStep, EntityComesFrom

\* A step that links a body to the entity of a request.
LEMMA LinkIsRegistryStep ==
    ASSUME ObjectsInv, TypeOK, NEW r \in Requests, Link(r.id)
    PROVE  RegistryStep
<1>1. r.id \in Id
  BY RequestFields
<1>2. /\ LinkedMeansIndexed' /\ LinkedAreMade' /\ LocalIdsAreHigh'
      /\ \A id \in DOMAIN entities' :
            SameEntity(id) /\ (id # r.id => entities'[id].obj = entities[id].obj)
      /\ \E o \in Body : SetGameObject(r.id, o)
  BY <1>1, LinkBody
<1>3. RegistryNext
  BY <1>1, <1>2, CharactersAssumption DEF RegistryNext
<1> QED BY <1>2, <1>3 DEF RegistryStep, EntityComesFrom

\* A step that announces a character of mine.
LEMMA AnnounceIsRegistryStep ==
    ASSUME ObjectsInv, NEW o \in Squad, me \in Player, connected, o \notin DOMAIN ptrToId,
           Register(o, me), made' = made
    PROVE  RegistryStep
<1>1. RegistryNext
  BY CharactersAssumption DEF RegistryNext
<1>2. /\ LinkedMeansIndexed' /\ LinkedAreMade' /\ LocalIdsAreHigh'
      /\ \A id \in DOMAIN entities' :
           \/ SameEntity(id) /\ entities'[id].obj = entities[id].obj
           \/ /\ id = nextId /\ entities'[id].owner = me /\ ~entities'[id].remote
              /\ entities'[id].obj = o
  BY RegisterOwn
<1> QED BY <1>1, <1>2 DEF RegistryStep, EntityComesFrom

\* A step that takes the announcement of an entity from the inbox.
LEMMA SpawnIsRegistryStep ==
    ASSUME ObjectsInv, TypeOK, ReceiveSpawn
    PROVE  RegistryStep
<1> DEFINE m == Head(inbox)
<1>1. /\ inbox # <<>> /\ m.kind = "spawn" /\ HandleEntitySpawn(m) /\ inbox' = Tail(inbox)
      /\ missed' = IF session = 0 THEN missed \cup {m.id} ELSE missed
      /\ UNCHANGED <<linked, session, connected, me, serverVars, made>>
  BY DEF ReceiveSpawn
<1>2. m \in Message /\ m.id \in Id /\ m.owner \in Player
  <2>1. m \in Message
    BY <1>1, TakeMessage DEF TypeOK
  <2> QED BY <1>1, <2>1, MessageFields
<1>3. NextIsSpawn(m.id, m.owner)
  BY <1>1 DEF NextIsSpawn
<1> HIDE DEF m
<1>4. CASE m.owner # me
  <2>1. RegisterRemote(m.id, m.owner)
    BY <1>1, <1>4 DEF HandleEntitySpawn
  <2>2. RegistryNext
    BY <1>2, <2>1 DEF RegistryNext
  <2>3. /\ LinkedMeansIndexed' /\ LinkedAreMade' /\ LocalIdsAreHigh'
        /\ \A id \in DOMAIN entities' :
             \/ SameEntity(id) /\ entities'[id].obj = entities[id].obj
             \/ id = m.id /\ entities'[id].owner = m.owner /\ entities'[id].remote
    BY <1>1, <1>2, <2>1, RegisterOther
  <2> QED BY <1>2, <1>3, <1>4, <2>2, <2>3 DEF RegistryStep, EntityComesFrom
<1>5. CASE m.owner = me
  <2>1. RemapNearest(m)
    BY <1>1, <1>5 DEF HandleEntitySpawn
  <2>2. CASE UNCHANGED registryVars
    BY <1>1, <2>2, QuietIsRegistryStep
  <2>3. ASSUME NEW near \in DOMAIN entities, ~entities[near].remote, entities[near].owner = me,
               RemapEntityId(near, m.id)
        PROVE  RegistryStep
    <3>1. near \in Id
      BY DEF ObjectsInv, RegistryInv, RegistryTypeOK
    <3>2. RegistryNext
      BY <1>2, <2>3, <3>1 DEF RegistryNext
    <3>3. /\ LinkedMeansIndexed' /\ LinkedAreMade' /\ LocalIdsAreHigh'
          /\ \A id \in DOMAIN entities' :
               \/ SameEntity(id) /\ entities'[id].obj = entities[id].obj
               \/ id = m.id /\ entities'[id] = entities[near]
      BY <1>1, <1>2, <2>3, RemapOwn
    <3> QED BY <1>3, <1>5, <2>3, <3>2, <3>3 DEF RegistryStep, EntityComesFrom
  <2> QED BY <2>1, <2>2, <2>3 DEF RemapNearest
<1> QED BY <1>4, <1>5

\* Every step of the client is one of these.
LEMMA EveryStepIsRegistryStep ==
    ASSUME ObjectsInv, TypeOK, PlayersAreKnown, [Next]_vars
    PROVE  RegistryStep
<1>1. connected => me \in Player
  BY NumbersAssumption DEF PlayersAreKnown, TypeOK
<1>2. ASSUME NEW o \in Squad, AnnounceCharacter(o) PROVE RegistryStep
  BY <1>1, <1>2, AnnounceIsRegistryStep DEF AnnounceCharacter, spawnVars
<1>3. CASE ReceiveSpawn
  BY <1>3, SpawnIsRegistryStep
<1>4. CASE HandleEntityDespawn
  BY <1>4, RemovalIsRegistryStep DEF HandleEntityDespawn, Unregister, spawnVars
<1>5. CASE HandlePlayerLeft
  BY <1>5, RemovalIsRegistryStep DEF HandlePlayerLeft
<1>6. CASE SetConnectedFalse
  BY <1>6, RemovalIsRegistryStep DEF SetConnectedFalse, ClearRemoteEntities
<1>7. CASE RemoveEntitiesInZone
  BY <1>7, RemovalIsRegistryStep DEF RemoveEntitiesInZone, spawnVars
<1>8. ASSUME NEW id \in Id, CleanUpStuck(id) PROVE RegistryStep
  BY <1>8, RemovalIsRegistryStep DEF CleanUpStuck, Unregister, spawnVars
<1>9. CASE Hijack
  <2>1. spawning[1] \in Requests
    BY <1>9, RequestFields DEF Hijack
  <2>2. Link(spawning[1].id) \/ UNCHANGED <<registryVars, made>>
    BY <1>9 DEF Hijack
  <2> QED BY <2>1, <2>2, LinkIsRegistryStep, QuietIsRegistryStep
<1>10. CASE SpawnSucceeds
  BY <1>10, RequestFields, LinkIsRegistryStep DEF SpawnSucceeds
<1>11. CASE SpawnFails
  BY <1>11, RemovalIsRegistryStep, QuietIsRegistryStep DEF SpawnFails, Unregister
<1>12. CASE OnLoadingGapDetected
  <2>1. Clear /\ DOMAIN entities' = {} /\ nextId' = nextId
    BY <1>12 DEF OnLoadingGapDetected, Clear, EmptyMap
  <2> QED BY <2>1 DEF RegistryStep, RegistryNext, ObjectsInv, LinkedMeansIndexed, LinkedAreMade,
                      LocalIdsAreHigh
<1>13. CASE UNCHANGED <<registryVars, made>>
  BY <1>13, QuietIsRegistryStep
<1> QED BY <1>2, <1>3, <1>4, <1>5, <1>6, <1>7, <1>8, <1>9, <1>10, <1>11, <1>12, <1>13
        DEF Next, Server, NetworkThread, GameThread, vars, spawnVars, linkVars, RemoteSpawn,
            RemoteLeaves, RemoteDespawn, ZoneLoad, HandleHandshake, LinkLost, HandleHandshakeAck,
            QueueSpawn, ReceiveRemovalEarly, Dial, ClearSpawnQueue, OnGameLoaded, PopDirect,
            PopHijack

-----------------------------------------------------------------------------
(* One step and the requests.                                                  *)

\* Taking from a sequence or adding to it adds no other element.
LEMMA ElementsStay ==
    ASSUME NEW S, NEW s \in Seq(S)
    PROVE  /\ s # <<>> => /\ Tail(s) \in Seq(S) /\ ToSet(Tail(s)) \subseteq ToSet(s)
                          /\ Head(s) \in ToSet(s) /\ Head(s) \in S
           /\ \A e \in S : /\ Append(s, e) \in Seq(S)
                           /\ ToSet(Append(s, e)) \subseteq ToSet(s) \cup {e}
           /\ \A t \in Seq(S) : s \o t \in Seq(S) /\ ToSet(s \o t) \subseteq ToSet(s) \cup ToSet(t)
<1>1. Len(s) \in Nat /\ \A x : x \in ToSet(s) <=> \E i \in 1 .. Len(s) : s[i] = x
  BY ToSetIsElements
<1>2. ASSUME s # <<>>
      PROVE  /\ Tail(s) \in Seq(S) /\ ToSet(Tail(s)) \subseteq ToSet(s)
             /\ Head(s) \in ToSet(s) /\ Head(s) \in S
  <2>1. /\ Tail(s) \in Seq(S) /\ Len(Tail(s)) = Len(s) - 1 /\ Head(s) \in S
        /\ \A i \in 1 .. Len(Tail(s)) : Tail(s)[i] = s[i + 1]
    BY <1>2, HeadTailProperties
  <2>2. \A x : x \in ToSet(Tail(s)) <=> \E i \in 1 .. Len(Tail(s)) : Tail(s)[i] = x
    BY <2>1, ToSetIsElements
  <2>3. ToSet(Tail(s)) \subseteq ToSet(s)
    <3> SUFFICES ASSUME NEW x \in ToSet(Tail(s)) PROVE x \in ToSet(s)
      OBVIOUS
    <3>1. PICK i \in 1 .. Len(s) - 1 : s[i + 1] = x
      BY <2>1, <2>2
    <3>2. i + 1 \in 1 .. Len(s)
      BY <1>1
    <3> QED BY <1>1, <3>1, <3>2
  <2>4. Head(s) = s[1] /\ 1 \in 1 .. Len(s)
    BY <1>1, <1>2, EmptySeq
  <2> QED BY <1>1, <2>1, <2>3, <2>4
<1>3. ASSUME NEW e \in S
      PROVE  Append(s, e) \in Seq(S) /\ ToSet(Append(s, e)) \subseteq ToSet(s) \cup {e}
  <2> DEFINE t == Append(s, e)
  <2>1. /\ t \in Seq(S) /\ Len(t) = Len(s) + 1
        /\ \A i \in 1 .. Len(s) : t[i] = s[i]
        /\ t[Len(s) + 1] = e
    BY AppendProperties
  <2>2. \A x : x \in ToSet(t) <=> \E i \in 1 .. Len(t) : t[i] = x
    BY <2>1, ToSetIsElements
  <2> HIDE DEF t
  <2>3. \A i \in 1 .. Len(t) : i \in 1 .. Len(s) \/ i = Len(s) + 1
    BY <1>1, <2>1
  <2>4. \A x \in ToSet(t) : x \in ToSet(s) \/ x = e
    BY <1>1, <2>1, <2>2, <2>3
  <2> QED BY <2>1, <2>4 DEF t
<1>4. ASSUME NEW t \in Seq(S)
      PROVE  s \o t \in Seq(S) /\ ToSet(s \o t) \subseteq ToSet(s) \cup ToSet(t)
  <2> DEFINE u == s \o t
  <2>1. /\ u \in Seq(S) /\ Len(u) = Len(s) + Len(t)
        /\ \A i \in 1 .. Len(s) + Len(t) : u[i] = IF i <= Len(s) THEN s[i] ELSE t[i - Len(s)]
    BY ConcatProperties
  <2>2. /\ \A x : x \in ToSet(u) <=> \E i \in 1 .. Len(u) : u[i] = x
        /\ \A x : x \in ToSet(t) <=> \E i \in 1 .. Len(t) : t[i] = x
        /\ Len(t) \in Nat
    BY <2>1, ToSetIsElements
  <2> HIDE DEF u
  <2>3. ASSUME NEW x \in ToSet(u) PROVE x \in ToSet(s) \cup ToSet(t)
    <3>1. PICK i \in 1 .. Len(s) + Len(t) : u[i] = x
      BY <2>1, <2>2
    <3>2. CASE i <= Len(s)
      BY <1>1, <2>1, <3>1, <3>2
    <3>3. CASE ~(i <= Len(s))
      <4>1. i - Len(s) \in 1 .. Len(t)
        BY <1>1, <2>2, <3>3
      <4> QED BY <2>1, <2>2, <3>1, <3>3, <4>1
    <3> QED BY <3>2, <3>3
  <2> QED BY <2>1, <2>3 DEF u
<1> QED BY <1>2, <1>3, <1>4

\* The same wish, whatever number of attempts it has seen.
SameRequest(r, q) == r.id = q.id /\ r.owner = q.owner

\* After a failed attempt the queue holds what it held, and the request again or not.
LEMMA RequeuedFacts ==
    ASSUME NEW rest \in Seq(Request), NEW r \in Request
    PROVE  /\ Requeued(rest, r) \in Seq(Request)
           /\ \A x \in ToSet(Requeued(rest, r)) : x \in ToSet(rest) \/ SameRequest(x, r)
<1>1. CASE r.retries + 1 < MaxRetries
  <2> DEFINE again == [r EXCEPT !.retries = @ + 1]
  <2>1. again \in Request /\ SameRequest(again, r)
    <3>1. /\ r.id \in Id /\ r.owner \in Player /\ r.retries \in 0 .. MaxRetries
          /\ MaxRetries \in Nat
          /\ r = [id |-> r.id, owner |-> r.owner, retries |-> r.retries]
      BY LimitsAssumption DEF Request
    <3>2. again = [id |-> r.id, owner |-> r.owner, retries |-> r.retries + 1]
      BY <3>1
    <3>3. r.retries + 1 \in 0 .. MaxRetries
      BY <1>1, <3>1
    <3> QED BY <3>1, <3>2, <3>3 DEF Request, SameRequest
  <2>2. Requeued(rest, r) = Append(rest, again)
    BY <1>1 DEF Requeued
  <2> HIDE DEF again
  <2> QED BY <2>1, <2>2, ElementsStay
<1>2. CASE ~(r.retries + 1 < MaxRetries)
  BY <1>2 DEF Requeued
<1> QED BY <1>1, <1>2

RequestsTyped ==
    /\ queue \in Seq(Request) /\ announced \in Seq(Request) /\ spawning \in Seq(Request)
    /\ Len(announced) <= 1 /\ at \in Places
    /\ Len(spawning) = IF at \in {"tick", "hook"} THEN 1 ELSE 0

\* What a step does to the requests: each was there, or the network thread makes
\* it from the message it takes.
RequestsStep ==
    /\ RequestsTyped'
    /\ \A r \in Requests' :
          \/ \E q \in Requests : SameRequest(r, q)
          \/ r.owner # me /\ NextIsSpawn(r.id, r.owner)

\* Requests that only move, or go.
LEMMA MoveIsRequestsStep ==
    ASSUME RequestsTyped',
           \A r \in Requests' : \E q \in Requests : SameRequest(r, q)
    PROVE  RequestsStep
BY DEF RequestsStep

\* The empty sequence holds nothing, a sequence of one only that.
LEMMA ShortSequences ==
    /\ ToSet(<<>>) = {} /\ Len(<<>>) = 0 /\ \A S : <<>> \in Seq(S)
    /\ \A S : \A x \in S : ToSet(<<x>>) = {x} /\ <<x>> \in Seq(S) /\ Len(<<x>>) = 1
<1>1. ToSet(<<>>) = {}
  BY DEF ToSet
<1>2. \A x : ToSet(<<x>>) = {x}
  BY DEF ToSet
<1> QED BY <1>1, <1>2

\* Every step keeps the requests typed, and adds at most the network thread's.
LEMMA EveryStepIsRequestsStep ==
    ASSUME TypeOK, [Next]_vars
    PROVE  RequestsStep
<1>1. RequestsTyped
  BY DEF TypeOK, RequestsTyped
<1>2. \A r \in Requests : r \in Request
  BY RequestFields
<1>3. CASE QueueSpawn
  <2>1. /\ queue' = queue \o announced /\ announced' = <<>> /\ UNCHANGED <<spawning, at>>
    BY <1>3 DEF QueueSpawn
  <2>2. queue' \in Seq(Request) /\ ToSet(queue') \subseteq ToSet(queue) \cup ToSet(announced)
    BY <1>1, <2>1, ElementsStay DEF RequestsTyped
  <2> QED BY <1>1, <2>1, <2>2, ShortSequences, MoveIsRequestsStep
          DEF RequestsTyped, Requests, SameRequest
<1>4. CASE ReceiveSpawn
  <2> DEFINE m == Head(inbox)
  <2>1. /\ inbox # <<>> /\ m.kind = "spawn" /\ HandleEntitySpawn(m) /\ inbox' = Tail(inbox)
        /\ missed' = IF session = 0 THEN missed \cup {m.id} ELSE missed
        /\ UNCHANGED <<linked, session, connected, me, serverVars, queue, spawning, at>>
    BY <1>4 DEF ReceiveSpawn
  <2>2. m.id \in Id /\ m.owner \in Player
    BY <2>1, TakeMessage, MessageFields DEF TypeOK
  <2>3. NextIsSpawn(m.id, m.owner)
    BY <2>1, <2>2 DEF NextIsSpawn
  <2> HIDE DEF m
  <2>4. CASE m.owner = me
    BY <1>1, <2>1, <2>4, MoveIsRequestsStep
       DEF HandleEntitySpawn, RequestsTyped, Requests, SameRequest
  <2>5. CASE m.owner # me
    <3>1. /\ announced' = <<NewRequest(m)>> /\ NewRequest(m) \in Request
          /\ NewRequest(m).id = m.id /\ NewRequest(m).owner = m.owner
      BY <2>1, <2>2, <2>5, LimitsAssumption DEF HandleEntitySpawn, NewRequest, Request
    <3>2. Requests' \subseteq Requests \cup {NewRequest(m)}
      BY <2>1, <3>1, ShortSequences DEF Requests
    <3>3. RequestsTyped'
      BY <1>1, <2>1, <3>1, ShortSequences DEF RequestsTyped
    <3> QED BY <2>3, <2>5, <3>1, <3>2, <3>3 DEF RequestsStep, SameRequest
  <2> QED BY <2>4, <2>5
<1>5. CASE HandlePlayerLeft
  <2>1. /\ queue' = ClearSpawnsForOwner(queue, Head(inbox).owner)
        /\ UNCHANGED <<announced, spawning, at>>
    BY <1>5 DEF HandlePlayerLeft
  <2>2. queue' \in Seq(Request) /\ ToSet(queue') \subseteq ToSet(queue)
    BY <1>1, <2>1, ClearKeepsOthers DEF RequestsTyped
  <2> QED BY <1>1, <2>1, <2>2, MoveIsRequestsStep DEF RequestsTyped, Requests, SameRequest
<1>6. ASSUME queue # <<>>, queue' = Tail(queue), announced' = announced, at = "idle",
             \/ UNCHANGED <<spawning, at>>
             \/ spawning' = <<Head(queue)>> /\ at' \in {"tick", "hook"}
      PROVE  RequestsStep
  <2>1. /\ Tail(queue) \in Seq(Request) /\ ToSet(Tail(queue)) \subseteq ToSet(queue)
        /\ Head(queue) \in ToSet(queue) /\ Head(queue) \in Request
    BY <1>1, <1>6, ElementsStay DEF RequestsTyped
  <2>2. CASE UNCHANGED <<spawning, at>>
    BY <1>1, <1>6, <2>1, <2>2, MoveIsRequestsStep DEF RequestsTyped, Requests, SameRequest
  <2>3. CASE spawning' = <<Head(queue)>> /\ at' \in {"tick", "hook"}
    <3>1. spawning' \in Seq(Request) /\ Len(spawning') = 1 /\ ToSet(spawning') = {Head(queue)}
      BY <2>1, <2>3, ShortSequences
    <3> QED BY <1>1, <1>6, <2>1, <2>3, <3>1, MoveIsRequestsStep
            DEF RequestsTyped, Requests, SameRequest, Places
  <2> QED BY <1>6, <2>2, <2>3
<1>7. CASE PopDirect
  BY <1>6, <1>7 DEF PopDirect
<1>8. CASE PopHijack
  BY <1>6, <1>8 DEF PopHijack
<1>9. ASSUME at \in {"tick", "hook"}, at' = "idle", spawning' = <<>>, announced' = announced,
             \/ queue' = queue
             \/ queue' = Requeued(queue, spawning[1])
             \/ queue' = Append(queue, spawning[1])
      PROVE  RequestsStep
  <2> DEFINE r == spawning[1]
  <2>1. r \in Requests /\ r \in Request
    BY <1>2, <1>9, RequestFields
  <2>2. /\ queue' = queue \/ queue' = Requeued(queue, r) \/ queue' = Append(queue, r)
        /\ queue \in Seq(Request)
    BY <1>1, <1>9 DEF RequestsTyped
  <2> HIDE DEF r
  <2>3. queue' \in Seq(Request) /\ \A x \in ToSet(queue') : x \in ToSet(queue) \/ SameRequest(x, r)
    <3>1. CASE queue' = queue
      BY <2>2, <3>1
    <3>2. CASE queue' = Requeued(queue, r)
      BY <2>1, <2>2, <3>2, RequeuedFacts
    <3>3. CASE queue' = Append(queue, r)
      <4>1. queue' \in Seq(Request) /\ ToSet(queue') \subseteq ToSet(queue) \cup {r}
        BY <2>1, <2>2, <3>3, ElementsStay
      <4> QED BY <4>1 DEF SameRequest
    <3> QED BY <2>2, <3>1, <3>2, <3>3
  <2>4. RequestsTyped'
    BY <1>1, <1>9, <2>3, ShortSequences DEF RequestsTyped, Places
  <2>5. Requests' = ToSet(queue') \cup ToSet(announced)
    BY <1>9, ShortSequences DEF Requests
  <2> QED BY <2>1, <2>3, <2>4, <2>5, MoveIsRequestsStep DEF Requests, SameRequest
<1>10. CASE Hijack
  BY <1>9, <1>10 DEF Hijack
<1>11. CASE SpawnSucceeds
  BY <1>9, <1>11 DEF SpawnSucceeds
<1>12. CASE SpawnFails
  BY <1>9, <1>12 DEF SpawnFails
<1>13. CASE SetConnectedFalse
  BY <1>1, <1>13, MoveIsRequestsStep
     DEF SetConnectedFalse, RequestsTyped, Requests, SameRequest, Places
<1>14. CASE ClearSpawnQueue
  <2>1. queue' = <<>> /\ at = "reset" /\ at' = "idle" /\ UNCHANGED <<announced, spawning>>
    BY <1>14 DEF ClearSpawnQueue
  <2> QED BY <1>1, <2>1, ShortSequences, MoveIsRequestsStep
          DEF RequestsTyped, Requests, SameRequest, Places
<1>15. CASE UNCHANGED <<queue, announced, spawning, at>>
  BY <1>1, <1>15, MoveIsRequestsStep DEF RequestsTyped, Requests, SameRequest
<1> QED BY <1>3, <1>4, <1>5, <1>7, <1>8, <1>10, <1>11, <1>12, <1>13, <1>14, <1>15
        DEF Next, Server, NetworkThread, GameThread, vars, spawnVars, RemoteSpawn, RemoteLeaves,
            RemoteDespawn, ZoneLoad, HandleHandshake, Dial, LinkLost, HandleHandshakeAck,
            OnLoadingGapDetected, OnGameLoaded, AnnounceCharacter, RemoveEntitiesInZone,
            ReceiveRemovalEarly, HandleEntityDespawn, CleanUpStuck

-----------------------------------------------------------------------------
(* One step and the messages.                                                  *)

\* The entity exists, or the client is told that it does not, or will not be told.
Accounted(id) == id \in DOMAIN srv \/ Despawned(id) \in ToSet(inbox) \/ id \in missed

\* What a step does to the messages: announcements are of what exists, what is
\* removed is announced as well, and what was accounted for stays so, unless it is
\* removed here or the session is over.
MessagesStep ==
    /\ inbox' \in Seq(Message) /\ (~linked' => Len(inbox') <= 1)
    /\ \A m \in ToSet(inbox') :
          /\ m.kind = "spawn" => m \in ToSet(inbox) \/ (m.id \in DOMAIN srv' /\ m.owner = srv'[m.id])
          /\ m.kind = "ack" => m \in ToSet(inbox) \/ m.owner \in 1 .. lastPlayer'
    /\ SpawnsComeFirst' /\ SessionIsNamed'
    /\ \A id : session # 0 /\ Accounted(id) =>
          Accounted(id)' \/ session' = 0 \/ id \notin DOMAIN entities'

\* The inbox by its positions, the names in it, and when there is no session.
LEMMA InboxFacts ==
    ASSUME WorldInv
    PROVE  /\ inbox \in Seq(Message) /\ Len(inbox) \in Nat
           /\ \A x : x \in ToSet(inbox) <=> \E i \in 1 .. Len(inbox) : inbox[i] = x
           /\ \A m \in ToSet(inbox) : m.kind \in {"spawn", "ack"} => m.owner \in 1 .. lastPlayer
           /\ \A m \in ToSet(inbox) : m.kind = "spawn" /\ m.id \in DOMAIN srv => m.owner = srv[m.id]
           /\ (~linked => session = 0)
<1>1. inbox \in Seq(Message) /\ (~linked => session = 0)
  BY DEF WorldInv, TypeOK
<1>2. Len(inbox) \in Nat /\ \A x : x \in ToSet(inbox) <=> \E i \in 1 .. Len(inbox) : inbox[i] = x
  BY <1>1, ToSetIsElements
<1>3. PICK owner \in [1 .. lastId -> 1 .. lastPlayer] : NamedAfter(owner)
  BY DEF WorldInv, NamesAgree
<1>4. \A m \in ToSet(inbox) : m.kind = "spawn" =>
         m.owner \in 1 .. lastPlayer /\ (m.id \in DOMAIN srv => m.owner = srv[m.id])
  BY <1>3 DEF NamedAfter
<1>5. \A m \in ToSet(inbox) : m.kind = "ack" => m.owner \in 1 .. lastPlayer
  BY DEF WorldInv, PlayersAreKnown
<1> QED BY <1>1, <1>2, <1>4, <1>5

\* There is no session after the step, and nothing new under way.
LEMMA ApartIsMessagesStep ==
    ASSUME WorldInv, session' = 0, inbox' \in Seq(Message), ToSet(inbox') \subseteq ToSet(inbox),
           ~linked' => Len(inbox') <= 1
    PROVE  MessagesStep
BY DEF MessagesStep, SpawnsComeFirst, SessionIsNamed

\* The server sends: what it announces exists, what it takes away it announces.
LEMMA DeliverIsMessagesStep ==
    ASSUME WorldInv, linked, NEW msgs \in Seq(Message), Deliver(msgs),
           UNCHANGED <<linked, session, connected, me, missed>>,
           \A i \in 1 .. Len(msgs) :
              /\ msgs[i].kind # "ack"
              /\ msgs[i].kind = "spawn" => msgs[i].id \in DOMAIN srv' /\ msgs[i].owner = srv'[msgs[i].id],
           session # 0 => \A id \in DOMAIN srv : id \notin DOMAIN srv' =>
              srv[id] # session /\ \E i \in 1 .. Len(msgs) : msgs[i] = Despawned(id)
    PROVE  MessagesStep
<1>1. /\ inbox' \in Seq(Message) /\ Len(inbox) \in Nat /\ Len(inbox') \in Nat
      /\ Len(msgs) \in Nat /\ Len(inbox') = Len(inbox) + Len(msgs)
      /\ \A i \in 1 .. Len(inbox) : i \in 1 .. Len(inbox') /\ inbox'[i] = inbox[i]
      /\ \A i \in 1 .. Len(msgs) :
            Len(inbox) + i \in 1 .. Len(inbox') /\ inbox'[Len(inbox) + i] = msgs[i]
      /\ \A i \in 1 .. Len(inbox') : i > Len(inbox) =>
            i - Len(inbox) \in 1 .. Len(msgs) /\ inbox'[i] = msgs[i - Len(inbox)]
  BY InboxFacts, DeliverAppends
<1>2. /\ \A x : x \in ToSet(inbox) <=> \E i \in 1 .. Len(inbox) : inbox[i] = x
      /\ \A x : x \in ToSet(inbox') <=> \E i \in 1 .. Len(inbox') : inbox'[i] = x
  BY <1>1, InboxFacts, ToSetIsElements
<1>3. \A i \in 1 .. Len(inbox') : i > Len(inbox) =>
         /\ inbox'[i].kind # "ack"
         /\ inbox'[i].kind = "spawn" => inbox'[i].id \in DOMAIN srv' /\ inbox'[i].owner = srv'[inbox'[i].id]
  BY <1>1
<1>4. \A i \in 1 .. Len(inbox') :
         (i \in 1 .. Len(inbox) /\ inbox'[i] \in ToSet(inbox)) \/ i > Len(inbox)
  <2> SUFFICES ASSUME NEW i \in 1 .. Len(inbox'), ~(i > Len(inbox))
               PROVE  i \in 1 .. Len(inbox) /\ inbox'[i] \in ToSet(inbox)
    OBVIOUS
  <2>1. i \in 1 .. Len(inbox)
    BY <1>1
  <2> QED BY <1>1, <1>2, <2>1
<1>5. \A m \in ToSet(inbox') :
         /\ m.kind = "spawn" => m \in ToSet(inbox) \/ (m.id \in DOMAIN srv' /\ m.owner = srv'[m.id])
         /\ m.kind = "ack" => m \in ToSet(inbox)
  BY <1>2, <1>3, <1>4
<1>6. session # 0 => \A id \in DOMAIN srv : id \notin DOMAIN srv' =>
         srv[id] # session /\ \E j \in Len(inbox) + 1 .. Len(inbox') : inbox'[j] = Despawned(id)
  <2> SUFFICES ASSUME session # 0, NEW id \in DOMAIN srv, id \notin DOMAIN srv'
               PROVE  srv[id] # session
                      /\ \E j \in Len(inbox) + 1 .. Len(inbox') : inbox'[j] = Despawned(id)
    OBVIOUS
  <2>1. PICK i \in 1 .. Len(msgs) : msgs[i] = Despawned(id)
    OBVIOUS
  <2>2. /\ Len(inbox) + i \in Len(inbox) + 1 .. Len(inbox')
        /\ inbox'[Len(inbox) + i] = Despawned(id)
    BY <1>1, <2>1
  <2> QED BY <2>2
<1>7. SpawnsComeFirst'
  <2> SUFFICES ASSUME session # 0, NEW i \in 1 .. Len(inbox'), inbox'[i].kind = "spawn",
                      inbox'[i].id \notin DOMAIN srv'
               PROVE  /\ inbox'[i].owner # session
                      /\ \/ inbox'[i].id \in missed
                         \/ \E j \in i + 1 .. Len(inbox') : inbox'[j] = Despawned(inbox'[i].id)
    BY DEF SpawnsComeFirst
  <2>1. i \in 1 .. Len(inbox) /\ inbox'[i] = inbox[i] /\ inbox[i] \in ToSet(inbox)
    BY <1>1, <1>3, <1>4
  <2>2. CASE inbox[i].id \in DOMAIN srv
    <3>1. inbox[i].owner = srv[inbox[i].id]
      BY <2>1, <2>2, InboxFacts
    <3>2. PICK j \in Len(inbox) + 1 .. Len(inbox') : inbox'[j] = Despawned(inbox[i].id)
      BY <1>6, <2>1, <2>2
    <3>3. j \in i + 1 .. Len(inbox')
      BY <1>1, <2>1
    <3> QED BY <1>6, <2>1, <2>2, <3>1, <3>2, <3>3
  <2>3. CASE inbox[i].id \notin DOMAIN srv
    <3>1. /\ inbox[i].owner # session
          /\ \/ inbox[i].id \in missed
             \/ \E j \in i + 1 .. Len(inbox) : inbox[j] = Despawned(inbox[i].id)
      BY <2>1, <2>3 DEF WorldInv, SpawnsComeFirst
    <3>2. CASE \E j \in i + 1 .. Len(inbox) : inbox[j] = Despawned(inbox[i].id)
      <4>1. PICK j \in i + 1 .. Len(inbox) : inbox[j] = Despawned(inbox[i].id)
        BY <3>2
      <4>2. j \in 1 .. Len(inbox) /\ j \in i + 1 .. Len(inbox')
        BY <1>1, <2>1
      <4> QED BY <1>1, <2>1, <3>1, <4>1, <4>2
    <3> QED BY <2>1, <3>1, <3>2
  <2> QED BY <2>2, <2>3
<1>8. SessionIsNamed'
  <2> SUFFICES ASSUME session # 0 PROVE SessionIsNamed'
    BY DEF SessionIsNamed
  <2>1. CASE connected /\ me = session /\ \A i \in 1 .. Len(inbox) : inbox[i].kind # "ack"
    <3>1. \A i \in 1 .. Len(inbox') : inbox'[i].kind # "ack"
      BY <1>1, <1>3, <1>4, <2>1
    <3> QED BY <2>1, <3>1 DEF SessionIsNamed
  <2>2. ASSUME me # session, NEW i \in 1 .. Len(inbox), inbox[i] = Ack(session),
               \A j \in 1 .. Len(inbox) :
                  /\ j > i => inbox[j].kind # "ack"
                  /\ j < i /\ inbox[j].kind = "ack" => inbox[j].owner # session
                  /\ j < i /\ inbox[j].kind = "spawn" => inbox[j].owner # session /\ inbox[j].id \in missed
        PROVE  SessionIsNamed'
    <3>1. i \in 1 .. Len(inbox') /\ inbox'[i] = Ack(session)'
      BY <1>1, <2>2 DEF Ack
    <3>2. ASSUME NEW j \in 1 .. Len(inbox')
          PROVE  /\ j > i => inbox'[j].kind # "ack"
                 /\ j < i /\ inbox'[j].kind = "ack" => inbox'[j].owner # session
                 /\ j < i /\ inbox'[j].kind = "spawn" => inbox'[j].owner # session /\ inbox'[j].id \in missed
      <4>1. CASE j \in 1 .. Len(inbox)
        BY <1>1, <2>2, <4>1
      <4>2. CASE j > Len(inbox)
        BY <1>1, <1>3, <4>2
      <4> QED BY <1>4, <4>1, <4>2
    <3> QED BY <2>2, <3>1, <3>2 DEF SessionIsNamed
  <2> QED BY <2>1, <2>2 DEF WorldInv, SessionIsNamed
<1>9. ASSUME NEW id, session # 0, Accounted(id) PROVE Accounted(id)'
  <2>1. CASE id \in DOMAIN srv
    <3>1. CASE id \notin DOMAIN srv'
      <4>1. PICK j \in Len(inbox) + 1 .. Len(inbox') : inbox'[j] = Despawned(id)
        BY <1>6, <1>9, <2>1, <3>1
      <4>2. j \in 1 .. Len(inbox')
        BY <1>1
      <4> QED BY <1>2, <4>1, <4>2 DEF Accounted, Despawned
    <3> QED BY <3>1 DEF Accounted
  <2>2. CASE Despawned(id) \in ToSet(inbox)
    <3>1. PICK j \in 1 .. Len(inbox) : inbox[j] = Despawned(id)
      BY <1>2, <2>2
    <3> QED BY <1>1, <1>2, <3>1 DEF Accounted, Despawned
  <2>3. CASE id \in missed
    BY <2>3 DEF Accounted
  <2> QED BY <1>9, <2>1, <2>2, <2>3 DEF Accounted
<1> QED BY <1>1, <1>5, <1>7, <1>8, <1>9 DEF MessagesStep

\* The client takes a message: a removal takes effect or is missed, and an acceptance
\* tells who I am.
LEMMA TakeIsMessagesStep ==
    ASSUME WorldInv, inbox # <<>>, inbox' = Tail(inbox), UNCHANGED <<linked, session, srv>>,
           IF Head(inbox).kind = "ack" THEN connected' /\ me' = Head(inbox).owner
                                       ELSE UNCHANGED <<connected, me>>,
           missed \subseteq missed',
           \A id : Head(inbox) = Despawned(id) => id \in missed' \/ id \notin DOMAIN entities'
    PROVE  MessagesStep
<1>1. inbox \in Seq(Message) /\ (~linked => Len(inbox) <= 1)
  BY DEF WorldInv, TypeOK
<1>2. /\ Len(inbox) \in Nat /\ Len(inbox) >= 1 /\ Head(inbox) = inbox[1]
      /\ inbox' \in Seq(Message) /\ Len(inbox') = Len(inbox) - 1
      /\ \A i \in 1 .. Len(inbox) - 1 : inbox'[i] = inbox[i + 1]
  BY <1>1, TakeMessage
<1>3. /\ \A x : x \in ToSet(inbox) <=> \E i \in 1 .. Len(inbox) : inbox[i] = x
      /\ \A x : x \in ToSet(inbox') <=> \E i \in 1 .. Len(inbox') : inbox'[i] = x
  <2>1. \A t \in Seq(Message) : \A x : x \in ToSet(t) <=> \E i \in 1 .. Len(t) : t[i] = x
    BY ToSetIsElements
  <2> QED BY <1>1, <1>2, <2>1
<1>4. ToSet(inbox') \subseteq ToSet(inbox) /\ (~linked' => Len(inbox') <= 1)
  BY <1>1, <1>2, ElementsStay
<1>5. \A i \in 1 .. Len(inbox) : i # 1 => i - 1 \in 1 .. Len(inbox') /\ inbox'[i - 1] = inbox[i]
  BY <1>2
<1>6. \A i \in 1 .. Len(inbox') : i + 1 \in 1 .. Len(inbox) /\ inbox'[i] = inbox[i + 1]
  BY <1>2
<1>7. SpawnsComeFirst'
  <2> SUFFICES ASSUME session # 0, NEW i \in 1 .. Len(inbox'), inbox'[i].kind = "spawn",
                      inbox'[i].id \notin DOMAIN srv'
               PROVE  /\ inbox'[i].owner # session
                      /\ \/ inbox'[i].id \in missed'
                         \/ \E j \in i + 1 .. Len(inbox') : inbox'[j] = Despawned(inbox'[i].id)
    BY DEF SpawnsComeFirst
  <2>1. i + 1 \in 1 .. Len(inbox) /\ inbox'[i] = inbox[i + 1]
    BY <1>6
  <2>2. /\ inbox[i + 1].owner # session
        /\ \/ inbox[i + 1].id \in missed
           \/ \E j \in i + 1 + 1 .. Len(inbox) : inbox[j] = Despawned(inbox[i + 1].id)
    BY <2>1 DEF WorldInv, SpawnsComeFirst
  <2>3. CASE \E j \in i + 1 + 1 .. Len(inbox) : inbox[j] = Despawned(inbox[i + 1].id)
    <3>1. PICK j \in i + 1 + 1 .. Len(inbox) : inbox[j] = Despawned(inbox[i + 1].id)
      BY <2>3
    <3>2. j \in 1 .. Len(inbox) /\ j # 1 /\ j - 1 \in i + 1 .. Len(inbox')
      BY <1>2, <2>1
    <3> QED BY <1>5, <2>1, <2>2, <3>1, <3>2
  <2> QED BY <2>1, <2>2, <2>3
<1>8. SessionIsNamed'
  <2> SUFFICES ASSUME session # 0 PROVE SessionIsNamed'
    BY DEF SessionIsNamed
  <2>1. CASE connected /\ me = session /\ \A i \in 1 .. Len(inbox) : inbox[i].kind # "ack"
    <3>1. UNCHANGED <<connected, me>>
      <4>1. 1 \in 1 .. Len(inbox)
        BY <1>2
      <4> QED BY <1>2, <2>1, <4>1
    <3>2. \A i \in 1 .. Len(inbox') : inbox'[i].kind # "ack"
      BY <1>6, <2>1
    <3> QED BY <2>1, <3>1, <3>2 DEF SessionIsNamed
  <2>2. ASSUME me # session, NEW i \in 1 .. Len(inbox), inbox[i] = Ack(session),
               \A j \in 1 .. Len(inbox) :
                  /\ j > i => inbox[j].kind # "ack"
                  /\ j < i /\ inbox[j].kind = "ack" => inbox[j].owner # session
                  /\ j < i /\ inbox[j].kind = "spawn" => inbox[j].owner # session /\ inbox[j].id \in missed
        PROVE  SessionIsNamed'
    <3>1. CASE i = 1
      <4>1. Head(inbox).kind = "ack" /\ Head(inbox).owner = session
        BY <1>2, <2>2, <3>1 DEF Ack
      <4>2. \A j \in 1 .. Len(inbox') : inbox'[j].kind # "ack"
        <5>1. \A j \in 1 .. Len(inbox') : j + 1 > i
          BY <1>2, <3>1
        <5> QED BY <1>6, <2>2, <5>1
      <4> QED BY <4>1, <4>2 DEF SessionIsNamed
    <3>2. CASE i # 1
      <4>1. me' # session
        <5>1. 1 \in 1 .. Len(inbox) /\ 1 < i
          BY <1>2, <3>2
        <5> QED BY <1>2, <2>2, <5>1
      <4>2. PICK k \in 1 .. Len(inbox') : k = i - 1 /\ inbox'[k] = Ack(session)'
        BY <1>5, <2>2, <3>2 DEF Ack
      <4>3. ASSUME NEW j \in 1 .. Len(inbox')
            PROVE  /\ j > k => inbox'[j].kind # "ack"
                   /\ j < k /\ inbox'[j].kind = "ack" => inbox'[j].owner # session
                   /\ j < k /\ inbox'[j].kind = "spawn" =>
                         inbox'[j].owner # session /\ inbox'[j].id \in missed'
        <5>1. j + 1 \in 1 .. Len(inbox) /\ inbox'[j] = inbox[j + 1]
          BY <1>6
        <5>2. (j > k => j + 1 > i) /\ (j < k => j + 1 < i)
          BY <1>2, <4>2
        <5> QED BY <2>2, <5>1, <5>2
      <4>4. session' = session
        OBVIOUS
      <4>5. \E l \in 1 .. Len(inbox') :
               /\ inbox'[l] = Ack(session')
               /\ \A j \in 1 .. Len(inbox') :
                     /\ j > l => inbox'[j].kind # "ack"
                     /\ j < l /\ inbox'[j].kind = "ack" => inbox'[j].owner # session'
                     /\ j < l /\ inbox'[j].kind = "spawn" =>
                           inbox'[j].owner # session' /\ inbox'[j].id \in missed'
        BY <4>2, <4>3, <4>4
      <4> QED BY <4>1, <4>4, <4>5 DEF SessionIsNamed
    <3> QED BY <3>1, <3>2
  <2> QED BY <2>1, <2>2 DEF WorldInv, SessionIsNamed
<1>9. ASSUME NEW id, Accounted(id) PROVE Accounted(id)' \/ id \notin DOMAIN entities'
  <2>1. CASE id \in DOMAIN srv \/ id \in missed
    BY <2>1 DEF Accounted
  <2>2. CASE Despawned(id) \in ToSet(inbox)
    <3>1. PICK j \in 1 .. Len(inbox) : inbox[j] = Despawned(id)
      BY <1>3, <2>2
    <3>2. CASE j = 1
      BY <1>2, <3>1, <3>2 DEF Accounted
    <3>3. CASE j # 1
      <4>1. j - 1 \in 1 .. Len(inbox') /\ inbox'[j - 1] = Despawned(id)
        BY <1>5, <3>1, <3>3
      <4> QED BY <1>3, <4>1 DEF Accounted, Despawned
    <3> QED BY <3>2, <3>3
  <2> QED BY <1>9, <2>1, <2>2 DEF Accounted
<1> QED BY <1>2, <1>4, <1>7, <1>8, <1>9 DEF MessagesStep

\* Neither messages nor entities of the server change.
LEMMA QuietIsMessagesStep ==
    ASSUME WorldInv, UNCHANGED <<linked, session, connected, me, inbox, srv, missed>>
    PROVE  MessagesStep
BY DEF WorldInv, TypeOK, MessagesStep, SpawnsComeFirst, SessionIsNamed, Accounted, Despawned, Ack

\* The entities the server holds are finitely many.
LEMMA ServerIsFinite ==
    ASSUME TypeOK, NEW ids \in SUBSET DOMAIN srv
    PROVE  IsFiniteSet(ids) /\ ids \subseteq Id
<1>1. lastId \in Nat /\ ids \in SUBSET (1 .. lastId) /\ 1 .. lastId \subseteq 1 .. LastServerId
  BY NumbersAssumption DEF TypeOK
<1>2. IsFiniteSet(1 .. lastId)
  BY <1>1, FS_Interval
<1> QED BY <1>1, <1>2, FS_Subset, NumbersAssumption

\* The server's announcement of what it holds.
LEMMA AnnouncementIsTyped ==
    ASSUME WorldInv, NEW ids \in SUBSET DOMAIN srv
    PROVE  /\ SpawnsOf(ids) \in Seq(Message)
           /\ \A i \in 1 .. Len(SpawnsOf(ids)) :
                 /\ SpawnsOf(ids)[i].kind = "spawn" /\ SpawnsOf(ids)[i].id \in ids
                 /\ SpawnsOf(ids)[i].owner = srv[SpawnsOf(ids)[i].id]
<1>1. IsFiniteSet(ids) /\ ids \subseteq Id
  BY ServerIsFinite DEF WorldInv
<1>2. \A id \in ids : srv[id] \in Player
  <2>1. PICK owner \in [1 .. lastId -> 1 .. lastPlayer] : NamedAfter(owner)
    BY DEF WorldInv, NamesAgree
  <2>2. DOMAIN srv \subseteq 1 .. lastId /\ 1 .. lastPlayer \subseteq Player
    BY NumbersAssumption DEF WorldInv, TypeOK
  <2> QED BY <2>1, <2>2 DEF NamedAfter
<1>3. /\ SpawnsOf(ids) \in Seq(Message)
      /\ \A i \in 1 .. Len(SpawnsOf(ids)) :
            \E id \in ids : SpawnsOf(ids)[i] = Spawned(id, srv[id])
  BY <1>1, <1>2, SpawnsOfFacts
<1>4. ASSUME NEW i \in 1 .. Len(SpawnsOf(ids))
      PROVE  /\ SpawnsOf(ids)[i].kind = "spawn" /\ SpawnsOf(ids)[i].id \in ids
             /\ SpawnsOf(ids)[i].owner = srv[SpawnsOf(ids)[i].id]
  <2>1. PICK id \in ids : SpawnsOf(ids)[i] = Spawned(id, srv[id])
    BY <1>3
  <2>2. /\ Spawned(id, srv[id]).kind = "spawn" /\ Spawned(id, srv[id]).id = id
        /\ Spawned(id, srv[id]).owner = srv[id]
    BY DEF Spawned
  <2> QED BY <2>1, <2>2
<1> QED BY <1>3, <1>4

\* The server sends nothing while it has no session with me.
LEMMA UnheardIsMessagesStep ==
    ASSUME WorldInv, session = 0, UNCHANGED <<linked, session, inbox>>
    PROVE  MessagesStep
<1>1. inbox \in Seq(Message) /\ (~linked => Len(inbox) <= 1)
  BY DEF WorldInv, TypeOK
<1> QED BY <1>1, ApartIsMessagesStep

\* A new entity is announced.
LEMMA SpawnedIsMessagesStep ==
    ASSUME WorldInv, NEW id \in Id \ DOMAIN srv, NEW p \in Player, srv' = Put(srv, id, p),
           Broadcast(<<Spawned(id, p)>>), UNCHANGED <<linked, session, connected, me, missed>>
    PROVE  MessagesStep
<1>1. CASE ~linked
  BY <1>1, InboxFacts, UnheardIsMessagesStep DEF Broadcast
<1>2. CASE linked
  <2> DEFINE msgs == <<Spawned(id, p)>>
  <2>1. /\ msgs \in Seq(Message) /\ Len(msgs) = 1
        /\ msgs[1].kind = "spawn" /\ msgs[1].id = id /\ msgs[1].owner = p
    BY DEF Spawned, Message
  <2>2. Deliver(msgs)
    BY <1>2 DEF Broadcast
  <2> HIDE DEF msgs
  <2>3. DOMAIN srv' = DOMAIN srv \cup {id} /\ srv'[id] = p
    BY DEF Put
  <2>4. \A i \in 1 .. Len(msgs) :
           /\ msgs[i].kind # "ack"
           /\ msgs[i].kind = "spawn" => msgs[i].id \in DOMAIN srv' /\ msgs[i].owner = srv'[msgs[i].id]
    BY <2>1, <2>3
  <2>5. \A x \in DOMAIN srv : x \in DOMAIN srv'
    BY <2>3
  <2> QED BY <1>2, <2>1, <2>2, <2>4, <2>5, DeliverIsMessagesStep
<1> QED BY <1>1, <1>2

\* The acceptance and the snapshot come after whatever was told before.
LEMMA HandshakeIsMessagesStep ==
    ASSUME WorldInv, HandleHandshake
    PROVE  MessagesStep
<1> DEFINE p == lastPlayer + 1
           told == SpawnsOf(DOMAIN srv)
           msgs == <<Ack(p)>> \o told
<1>1. /\ linked /\ session = 0 /\ session' = p /\ lastPlayer' = p /\ Deliver(msgs)
      /\ missed' = missed \cup Pending /\ UNCHANGED <<linked, connected, me, srv>>
      /\ lastPlayer < LastPlayer
  BY DEF HandleHandshake
<1>2. /\ lastPlayer \in Nat /\ p \in Nat /\ p # 0 /\ p \in Player /\ me # p
      /\ p \notin 1 .. lastPlayer /\ p \in 1 .. lastPlayer'
  BY <1>1, NumbersAssumption DEF WorldInv, TypeOK
<1>3. /\ told \in Seq(Message) /\ Len(told) \in Nat
      /\ \A i \in 1 .. Len(told) : told[i].kind = "spawn" /\ told[i].id \in DOMAIN srv
                                  /\ told[i].owner = srv[told[i].id]
  BY AnnouncementIsTyped, LenProperties
<1>4. <<Ack(p)>> \in Seq(Message) /\ Len(<<Ack(p)>>) = 1 /\ <<Ack(p)>>[1] = Ack(p)
  BY <1>2 DEF Ack, Message
<1> HIDE DEF told
<1>5. /\ msgs \in Seq(Message) /\ Len(msgs) = 1 + Len(told) /\ msgs[1] = Ack(p)
      /\ \A i \in 1 .. Len(msgs) : i # 1 => i - 1 \in 1 .. Len(told) /\ msgs[i] = told[i - 1]
  <2> DEFINE first == <<Ack(p)>>
  <2>1. first \in Seq(Message) /\ Len(first) = 1 /\ first[1] = Ack(p) /\ msgs = first \o told
    BY <1>4
  <2> HIDE DEF first
  <2>2. /\ first \o told \in Seq(Message) /\ Len(first \o told) = Len(first) + Len(told)
        /\ \A i \in 1 .. Len(first) + Len(told) : (first \o told)[i] =
                 IF i <= Len(first) THEN first[i] ELSE told[i - Len(first)]
    BY <1>3, <2>1, ConcatProperties
  <2> HIDE DEF msgs
  <2> QED BY <1>3, <2>1, <2>2
<1> HIDE DEF msgs, p
<1>6. /\ inbox' \in Seq(Message) /\ Len(inbox) \in Nat /\ Len(inbox') \in Nat
      /\ Len(inbox') = Len(inbox) + Len(msgs)
      /\ \A i \in 1 .. Len(inbox) : i \in 1 .. Len(inbox') /\ inbox'[i] = inbox[i]
      /\ \A i \in 1 .. Len(msgs) :
            Len(inbox) + i \in 1 .. Len(inbox') /\ inbox'[Len(inbox) + i] = msgs[i]
      /\ \A i \in 1 .. Len(inbox') : i > Len(inbox) =>
            i - Len(inbox) \in 1 .. Len(msgs) /\ inbox'[i] = msgs[i - Len(inbox)]
  BY <1>1, <1>5, InboxFacts, DeliverAppends
<1>7. PICK k \in 1 .. Len(inbox') : k = Len(inbox) + 1 /\ inbox'[k] = Ack(p)
  BY <1>3, <1>5, <1>6
<1>8. \A i \in 1 .. Len(inbox') : i < k =>
         i \in 1 .. Len(inbox) /\ inbox'[i] = inbox[i] /\ inbox[i] \in ToSet(inbox)
  BY <1>6, <1>7, InboxFacts
<1>9. \A i \in 1 .. Len(inbox') : i > k =>
         /\ inbox'[i].kind = "spawn" /\ inbox'[i].id \in DOMAIN srv
         /\ inbox'[i].owner = srv[inbox'[i].id]
  <2> SUFFICES ASSUME NEW i \in 1 .. Len(inbox'), i > k
               PROVE  /\ inbox'[i].kind = "spawn" /\ inbox'[i].id \in DOMAIN srv
                      /\ inbox'[i].owner = srv[inbox'[i].id]
    OBVIOUS
  <2>1. PICK j \in 1 .. Len(msgs) : j # 1 /\ inbox'[i] = msgs[j]
    <3>1. i > Len(inbox) /\ i - Len(inbox) # 1
      BY <1>6, <1>7
    <3> QED BY <1>6, <3>1
  <2>2. j - 1 \in 1 .. Len(told) /\ msgs[j] = told[j - 1]
    BY <1>5, <2>1
  <2> QED BY <1>3, <2>1, <2>2
<1>10. \A i \in 1 .. Len(inbox') : i < k /\ inbox'[i].kind \in {"spawn", "ack"} =>
          /\ inbox'[i].owner # p
          /\ inbox'[i].kind = "spawn" => inbox'[i].id \in missed'
  <2>1. \A m \in ToSet(inbox) : m.kind = "spawn" => m.id \in Pending
    BY DEF Pending
  <2> QED BY <1>1, <1>2, <1>8, <2>1, InboxFacts
<1>11. \A i \in 1 .. Len(inbox') : i < k \/ i = k \/ i > k
  BY <1>6, <1>7
<1>12. SpawnsComeFirst'
  <2>1. Ack(p).kind = "ack"
    BY DEF Ack
  <2> QED BY <1>1, <1>7, <1>9, <1>10, <1>11, <2>1 DEF SpawnsComeFirst
<1>13. SessionIsNamed'
  <2>1. me' # session' /\ inbox'[k] = Ack(session')
    BY <1>1, <1>2, <1>7
  <2>2. \A j \in 1 .. Len(inbox') :
           /\ j > k => inbox'[j].kind # "ack"
           /\ j < k /\ inbox'[j].kind = "ack" => inbox'[j].owner # session'
           /\ j < k /\ inbox'[j].kind = "spawn" => inbox'[j].owner # session' /\ inbox'[j].id \in missed'
    BY <1>1, <1>9, <1>10
  <2> QED BY <2>1, <2>2 DEF SessionIsNamed
<1>14. \A m \in ToSet(inbox') :
          /\ m.kind = "spawn" => m \in ToSet(inbox) \/ (m.id \in DOMAIN srv' /\ m.owner = srv'[m.id])
          /\ m.kind = "ack" => m \in ToSet(inbox) \/ m.owner \in 1 .. lastPlayer'
  <2>1. \A x : x \in ToSet(inbox') <=> \E i \in 1 .. Len(inbox') : inbox'[i] = x
    BY <1>6, ToSetIsElements
  <2>2. Ack(p).kind = "ack" /\ Ack(p).owner = p
    BY DEF Ack
  <2> QED BY <1>1, <1>2, <1>7, <1>8, <1>9, <1>11, <2>1, <2>2
<1> QED BY <1>1, <1>6, <1>12, <1>13, <1>14 DEF MessagesStep

\* Every step treats the messages this way.
LEMMA EveryStepIsMessagesStep ==
    ASSUME WorldInv, [Next]_vars
    PROVE  MessagesStep
<1>1. /\ lastId \in 0 .. LastServerId /\ lastPlayer \in 1 .. LastPlayer
      /\ session \in 0 .. lastPlayer /\ session \notin others /\ (session # 0 => linked)
      /\ DOMAIN srv \subseteq 1 .. lastId /\ LastServerId \in Nat /\ LastPlayer \in Nat
      /\ 1 .. LastServerId \subseteq Id /\ 1 .. LastPlayer \subseteq Player
      /\ inbox \in Seq(Message)
  BY NumbersAssumption DEF WorldInv, TypeOK
<1>2. lastId < LastServerId => lastId + 1 \in Id \ DOMAIN srv
  BY <1>1
<1>3. ASSUME NEW p \in Player, RemoteSpawn(p) PROVE MessagesStep
  BY <1>2, <1>3, SpawnedIsMessagesStep DEF RemoteSpawn
<1>4. ASSUME NEW id \in Id, RemoteDespawn(id) PROVE MessagesStep
  <2>1. /\ srv' = Without(srv, {id}) /\ Broadcast(<<Despawned(id)>>) /\ srv[id] \in others
        /\ UNCHANGED <<linked, session, connected, me, missed>>
    BY <1>4 DEF RemoteDespawn
  <2>2. CASE ~linked
    BY <1>1, <2>1, <2>2, UnheardIsMessagesStep DEF Broadcast
  <2>3. CASE linked
    <3>1. \A x \in DOMAIN srv : x \notin DOMAIN srv' => x = id
      BY <2>1 DEF Without
    <3> DEFINE msgs == <<Despawned(id)>>
    <3>2. /\ msgs \in Seq(Message) /\ Len(msgs) = 1 /\ msgs[1] = Despawned(id)
          /\ msgs[1].kind = "despawn" /\ 1 \in 1 .. Len(msgs)
      BY DEF Despawned, Message
    <3>3. Deliver(msgs)
      BY <2>1, <2>3 DEF Broadcast
    <3> HIDE DEF msgs
    <3>4. \A x \in DOMAIN srv : x \notin DOMAIN srv' =>
             srv[x] # session /\ \E i \in 1 .. Len(msgs) : msgs[i] = Despawned(x)
      BY <1>1, <2>1, <3>1, <3>2
    <3>5. \A i \in 1 .. Len(msgs) : msgs[i].kind = "despawn"
      BY <3>2
    <3> QED BY <2>1, <2>3, <3>2, <3>3, <3>4, <3>5, DeliverIsMessagesStep
  <2> QED BY <2>2, <2>3
<1>5. ASSUME NEW p \in Player, RemoteLeaves(p) PROVE MessagesStep
  <2> DEFINE gone == DespawnsOf(OwnedBy(p))
             msgs == Append(gone, Left(p))
  <2>1. /\ srv' = Without(srv, OwnedBy(p)) /\ BroadcastExcept(msgs) /\ p \in others
        /\ UNCHANGED <<linked, session, connected, me, missed>>
    BY <1>5 DEF RemoteLeaves
  <2>2. IsFiniteSet(OwnedBy(p)) /\ OwnedBy(p) \in SUBSET Id
    BY ServerIsFinite DEF WorldInv, OwnedBy
  <2>3. /\ gone \in Seq(Message)
        /\ \A i \in 1 .. Len(gone) : gone[i].kind = "despawn"
        /\ \A id \in OwnedBy(p) : \E i \in 1 .. Len(gone) : gone[i] = Despawned(id)
    BY <2>2, DespawnsOfFacts
  <2>4. Left(p) \in Message /\ Left(p).kind = "left"
    BY DEF Left, Message
  <2> HIDE DEF gone
  <2>5. /\ msgs \in Seq(Message) /\ Len(msgs) = Len(gone) + 1 /\ Len(gone) \in Nat
        /\ \A i \in 1 .. Len(gone) : msgs[i] = gone[i]
        /\ msgs[Len(gone) + 1] = Left(p)
    BY <2>3, <2>4, AppendProperties, LenProperties
  <2> HIDE DEF msgs
  <2>6. \A i \in 1 .. Len(msgs) : msgs[i].kind \in {"despawn", "left"}
    <3>1. \A i \in 1 .. Len(msgs) : i \in 1 .. Len(gone) \/ i = Len(gone) + 1
      BY <2>5
    <3> QED BY <2>3, <2>4, <2>5, <3>1
  <2>7. \A id \in DOMAIN srv : id \notin DOMAIN srv' =>
           srv[id] = p /\ \E i \in 1 .. Len(msgs) : msgs[i] = Despawned(id)
    <3>1. \A id \in DOMAIN srv : id \notin DOMAIN srv' => id \in OwnedBy(p) /\ srv[id] = p
      BY <2>1 DEF Without, OwnedBy
    <3>2. \A i \in 1 .. Len(gone) : i \in 1 .. Len(msgs)
      BY <2>5
    <3> QED BY <2>3, <2>5, <3>1, <3>2
  <2>8. CASE session = 0
    BY <2>1, <2>8, UnheardIsMessagesStep DEF BroadcastExcept
  <2>9. CASE session # 0
    <3>1. linked /\ Deliver(msgs) /\ p # session
      BY <1>1, <2>1, <2>9 DEF BroadcastExcept
    <3> QED BY <2>1, <2>5, <2>6, <2>7, <3>1, DeliverIsMessagesStep
  <2> QED BY <2>8, <2>9
<1>6. CASE ZoneLoad
  <2>1. PICK near \in SUBSET DOMAIN srv : Deliver(SpawnsOf(near))
    BY <1>6 DEF ZoneLoad
  <2>2. linked /\ UNCHANGED <<linked, session, connected, me, missed, srv>>
    BY <1>1, <1>6 DEF ZoneLoad
  <2> QED BY <2>1, <2>2, AnnouncementIsTyped, DeliverIsMessagesStep
<1>7. ASSUME NEW o \in Squad, AnnounceCharacter(o) PROVE MessagesStep
  <2>1. UNCHANGED <<linked, session, connected, me, missed>>
    BY <1>7 DEF AnnounceCharacter
  <2>2. CASE UNCHANGED <<lastId, srv, inbox>>
    BY <2>1, <2>2, QuietIsMessagesStep
  <2>3. CASE /\ session # 0 /\ lastId < LastServerId /\ srv' = Put(srv, lastId + 1, session)
             /\ Broadcast(<<Spawned(lastId + 1, session)>>)
    <3>1. session \in Player
      BY <1>1, <2>3
    <3> QED BY <1>2, <2>1, <2>3, <3>1, SpawnedIsMessagesStep
  <2> QED BY <1>7, <2>2, <2>3 DEF AnnounceCharacter
<1>8. CASE HandleHandshakeAck
  BY <1>8, TakeIsMessagesStep DEF HandleHandshakeAck, serverVars, Despawned
<1>9. CASE SetConnectedFalse
  <2>1. session' = 0 /\ (inbox' = <<>> \/ (inbox # <<>> /\ inbox' = <<Head(inbox)>>))
    BY <1>9 DEF SetConnectedFalse, SessionEnds, InHands
  <2>2. CASE inbox' = <<>>
    BY <2>1, <2>2, ShortSequences, ApartIsMessagesStep
  <2>3. CASE inbox # <<>> /\ inbox' = <<Head(inbox)>>
    <3>1. Head(inbox) \in ToSet(inbox) /\ Head(inbox) \in Message
      BY <1>1, <2>3, ElementsStay
    <3>2. inbox' \in Seq(Message) /\ ToSet(inbox') = {Head(inbox)} /\ Len(inbox') = 1
      BY <2>3, <3>1, ShortSequences
    <3> QED BY <2>1, <3>1, <3>2, ApartIsMessagesStep
  <2> QED BY <2>1, <2>2, <2>3
<1>10. CASE LinkLost
  BY <1>10, ShortSequences, ApartIsMessagesStep DEF LinkLost, SessionEnds
<1>11. CASE Dial
  <2>1. session = 0 /\ session' = 0 /\ inbox' = inbox /\ linked'
    BY <1>1, <1>11, InboxFacts DEF Dial
  <2> QED BY <1>1, <2>1, ApartIsMessagesStep
<1>12. CASE HandleHandshake
  BY <1>12, HandshakeIsMessagesStep
<1>13. CASE ReceiveSpawn
  BY <1>13, TakeIsMessagesStep DEF ReceiveSpawn, serverVars, Despawned
<1>14. CASE ReceiveRemovalEarly
  <2>1. /\ inbox # <<>> /\ inbox' = Tail(inbox) /\ missed \subseteq missed'
        /\ Head(inbox).kind = "despawn" => Head(inbox).id \in missed'
        /\ Head(inbox).kind # "ack" /\ UNCHANGED <<linked, session, connected, me, srv>>
    BY <1>14 DEF ReceiveRemovalEarly, serverVars
  <2> QED BY <2>1, TakeIsMessagesStep DEF Despawned
<1>15. CASE HandleEntityDespawn
  <2>1. /\ inbox # <<>> /\ inbox' = Tail(inbox) /\ missed' = missed
        /\ Head(inbox).kind # "ack" /\ Head(inbox).id \notin DOMAIN entities'
        /\ UNCHANGED <<linked, session, connected, me, srv>>
    BY <1>15 DEF HandleEntityDespawn, Unregister, RemoveAll, Without, serverVars
  <2> QED BY <2>1, TakeIsMessagesStep DEF Despawned
<1>16. CASE HandlePlayerLeft
  BY <1>16, TakeIsMessagesStep DEF HandlePlayerLeft, serverVars, Despawned
<1>17. CASE UNCHANGED <<linked, session, connected, me, inbox, srv, missed>>
  BY <1>17, QuietIsMessagesStep
<1> QED BY <1>3, <1>4, <1>5, <1>6, <1>7, <1>8, <1>9, <1>10, <1>11, <1>12, <1>13, <1>14, <1>15,
           <1>16, <1>17
        DEF Next, Server, NetworkThread, GameThread, vars, linkVars, serverVars, QueueSpawn,
            ClearSpawnQueue, OnLoadingGapDetected, OnGameLoaded, RemoveEntitiesInZone, PopDirect,
            PopHijack, Hijack, SpawnSucceeds, SpawnFails, CleanUpStuck

-----------------------------------------------------------------------------
(* One step and the server.                                                    *)

\* A session begins: its player has an id that nobody had.
SessionBegins ==
    /\ linked /\ session = 0 /\ session' = lastPlayer + 1
    /\ UNCHANGED <<entities, srv>> /\ missed \subseteq missed'

\* What a step does to players and to the server's entities: ids are given in
\* order and to nobody twice, and what is mine stays for the session.
ServerStep ==
    /\ lastId' \in 0 .. LastServerId /\ lastId <= lastId'
    /\ lastPlayer' \in 1 .. LastPlayer /\ lastPlayer <= lastPlayer'
    /\ zones' \in 0 .. ZoneBound
    /\ others' \subseteq 1 .. lastPlayer' /\ me' \in 0 .. lastPlayer' /\ (connected' => me' # 0)
    /\ session' \in 0 .. lastPlayer' /\ session' \notin others' /\ (session' # 0 => linked')
    /\ DOMAIN srv' \subseteq 1 .. lastId' /\ \A id \in DOMAIN srv' : srv'[id] \in others' \cup {session'}
    /\ \A id \in DOMAIN srv' : \/ id \in DOMAIN srv /\ srv'[id] = srv[id]
                               \/ id \in lastId + 1 .. lastId'
    /\ \A id \in lastId + 1 .. lastId' : id \in DOMAIN srv' /\ srv'[id] \in 1 .. lastPlayer'
    /\ session' # 0 => \/ SessionBegins
                       \/ session' = session /\ \A id \in OwnedBy(session) : id \in OwnedBy(session)'

\* The bounds and the players, as facts about numbers.
LEMMA ServerFacts ==
    ASSUME TypeOK, PlayersAreKnown
    PROVE  /\ LastServerId \in Nat /\ LastPlayer \in Nat /\ ZoneBound \in Nat
           /\ lastId \in Nat /\ lastId <= LastServerId
           /\ lastPlayer \in Nat /\ 1 <= lastPlayer /\ lastPlayer <= LastPlayer
           /\ zones \in Nat /\ zones <= ZoneBound
           /\ others \subseteq 1 .. lastPlayer /\ me \in 0 .. lastPlayer /\ (connected => me # 0)
           /\ session \in 0 .. lastPlayer /\ session \notin others /\ (session # 0 => linked)
           /\ DOMAIN srv \subseteq 1 .. lastId
           /\ \A id \in DOMAIN srv : srv[id] \in others \cup {session}
BY NumbersAssumption, LimitsAssumption DEF TypeOK, PlayersAreKnown

\* Neither players nor the server's entities change.
LEMMA QuietIsServerStep ==
    ASSUME TypeOK, PlayersAreKnown, UNCHANGED <<session, srv, others, lastPlayer, lastId>>,
           linked' = linked \/ session = 0, zones' \in 0 .. ZoneBound,
           me' \in 0 .. lastPlayer, connected' => me' # 0
    PROVE  ServerStep
<1>1. \A id \in OwnedBy(session) : id \in OwnedBy(session)'
  BY DEF OwnedBy
<1> QED BY <1>1, ServerFacts DEF ServerStep

\* The server names an entity of a player it has a session with.
LEMMA NewEntityIsServerStep ==
    ASSUME TypeOK, PlayersAreKnown, NEW p \in others \cup {session}, p # 0,
           lastId < LastServerId, lastId' = lastId + 1, srv' = Put(srv, lastId + 1, p),
           UNCHANGED <<linked, session, connected, me, others, lastPlayer, zones>>
    PROVE  ServerStep
<1>1. /\ DOMAIN srv' = DOMAIN srv \cup {lastId + 1}
      /\ srv'[lastId + 1] = p /\ \A id \in DOMAIN srv : id # lastId + 1 => srv'[id] = srv[id]
  BY DEF Put
<1>2. lastId + 1 \notin DOMAIN srv /\ p \in 1 .. lastPlayer
  BY ServerFacts
<1>3. /\ lastId + 1 .. lastId' = {lastId + 1} /\ lastId' \in 0 .. LastServerId /\ lastId <= lastId'
      /\ DOMAIN srv' \subseteq 1 .. lastId'
  BY <1>1, ServerFacts
<1>4. \A id \in DOMAIN srv' : \/ id \in DOMAIN srv /\ srv'[id] = srv[id]
                              \/ id = lastId + 1 /\ srv'[id] = p
  BY <1>1, <1>2
<1>5. \A id \in OwnedBy(session) : id \in OwnedBy(session)'
  BY <1>1, <1>2 DEF OwnedBy
<1> QED BY <1>1, <1>2, <1>3, <1>4, <1>5, ServerFacts DEF ServerStep

\* Some of the others' entities go, and perhaps one of the others.
LEMMA GoneIsServerStep ==
    ASSUME TypeOK, PlayersAreKnown, NEW ids, srv' = Without(srv, ids),
           \A id \in ids \cap DOMAIN srv : srv[id] \in others,
           others' \subseteq others, \A id \in DOMAIN srv \ ids : srv[id] \in others' \cup {session},
           UNCHANGED <<linked, session, connected, me, lastPlayer, lastId, zones>>
    PROVE  ServerStep
<1>1. DOMAIN srv' = DOMAIN srv \ ids /\ \A x \in DOMAIN srv' : srv'[x] = srv[x]
  BY DEF Without
<1>2. \A x \in OwnedBy(session) : x \in OwnedBy(session)'
  BY <1>1, ServerFacts DEF OwnedBy
<1> QED BY <1>1, <1>2, ServerFacts DEF ServerStep

\* The session is over; the server will notice.
LEMMA EndIsServerStep ==
    ASSUME TypeOK, PlayersAreKnown, SessionEnds, UNCHANGED <<srv, lastPlayer, lastId, zones, me>>,
           connected' => connected
    PROVE  ServerStep
<1>1. session' = 0 /\ others \subseteq others' /\ others' \subseteq 1 .. lastPlayer /\ 0 \notin others'
  BY ServerFacts DEF SessionEnds
<1>2. \A id \in DOMAIN srv : srv[id] \in others' \cup {0}
  BY ServerFacts DEF SessionEnds
<1> QED BY <1>1, <1>2, ServerFacts DEF ServerStep

\* Every step treats the server this way.
LEMMA EveryStepIsServerStep ==
    ASSUME TypeOK, NamesAgree, PlayersAreKnown, [Next]_vars
    PROVE  ServerStep
<1>1. ASSUME NEW p \in Player, RemoteSpawn(p) PROVE ServerStep
  BY <1>1, ServerFacts, NewEntityIsServerStep DEF RemoteSpawn
<1>2. ASSUME NEW id \in Id, RemoteDespawn(id) PROVE ServerStep
  BY <1>2, ServerFacts, GoneIsServerStep DEF RemoteDespawn
<1>3. ASSUME NEW p \in Player, RemoteLeaves(p) PROVE ServerStep
  <2>1. /\ p \in others /\ others' = others \ {p} /\ srv' = Without(srv, OwnedBy(p))
        /\ UNCHANGED <<linked, session, connected, me, lastPlayer, lastId, zones>>
    BY <1>3 DEF RemoteLeaves
  <2>2. /\ \A id \in OwnedBy(p) \cap DOMAIN srv : srv[id] \in others
        /\ \A id \in DOMAIN srv \ OwnedBy(p) : srv[id] \in others' \cup {session}
    BY <2>1, ServerFacts DEF OwnedBy
  <2> QED BY <2>1, <2>2, GoneIsServerStep
<1>4. CASE ZoneLoad
  <2>1. /\ zones < ZoneBound /\ zones' = zones + 1
        /\ UNCHANGED <<linked, session, connected, me, srv, others, lastPlayer, lastId>>
    BY <1>4 DEF ZoneLoad
  <2>2. zones' \in 0 .. ZoneBound
    BY <2>1, ServerFacts
  <2> QED BY <2>1, <2>2, ServerFacts, QuietIsServerStep
<1>5. CASE HandleHandshake
  <2>1. /\ linked /\ session = 0 /\ lastPlayer < LastPlayer
        /\ session' = lastPlayer + 1 /\ lastPlayer' = lastPlayer + 1
        /\ UNCHANGED <<registryVars, linked, connected, me, srv, others, lastId, zones>>
        /\ missed \subseteq missed'
    BY <1>5 DEF HandleHandshake
  <2>2. SessionBegins
    BY <2>1 DEF SessionBegins, registryVars
  <2>3. \A id \in DOMAIN srv' : srv'[id] \in others' \cup {session'}
    <3>1. PICK owner \in [1 .. lastId -> 1 .. lastPlayer] : NamedAfter(owner)
      BY DEF NamesAgree
    <3>2. \A id \in DOMAIN srv : srv[id] # 0
      BY <3>1, ServerFacts DEF NamedAfter
    <3> QED BY <2>1, <3>2, ServerFacts
  <2>4. /\ lastPlayer' \in 1 .. LastPlayer /\ lastPlayer <= lastPlayer'
        /\ others' \subseteq 1 .. lastPlayer' /\ me' \in 0 .. lastPlayer' /\ (connected' => me' # 0)
        /\ session' \in 0 .. lastPlayer' /\ session' \notin others' /\ linked'
    BY <2>1, ServerFacts
  <2>5. lastId + 1 .. lastId' = {} /\ lastId' \in 0 .. LastServerId /\ zones' \in 0 .. ZoneBound
    BY <2>1, ServerFacts
  <2>6. /\ lastId <= lastId' /\ DOMAIN srv' \subseteq 1 .. lastId'
        /\ \A id \in DOMAIN srv' : id \in DOMAIN srv /\ srv'[id] = srv[id]
    BY <2>1, ServerFacts
  <2>7. \A id \in lastId + 1 .. lastId' : id \in DOMAIN srv' /\ srv'[id] \in 1 .. lastPlayer'
    BY <2>5
  <2> QED BY <2>2, <2>3, <2>4, <2>5, <2>6, <2>7 DEF ServerStep
<1>6. CASE SetConnectedFalse
  BY <1>6, EndIsServerStep DEF SetConnectedFalse
<1>7. CASE LinkLost
  BY <1>7, EndIsServerStep DEF LinkLost
<1>8. CASE Dial
  <2>1. session = 0
    BY <1>8, ServerFacts DEF Dial
  <2>2. UNCHANGED <<session, srv, others, lastPlayer, lastId, zones, me, connected>>
    BY <1>8 DEF Dial, serverVars
  <2>3. zones' \in 0 .. ZoneBound /\ me' \in 0 .. lastPlayer /\ (connected' => me' # 0)
    BY <2>2, ServerFacts
  <2> QED BY <2>1, <2>2, <2>3, QuietIsServerStep
<1>9. CASE HandleHandshakeAck
  <2>1. /\ inbox # <<>> /\ Head(inbox).kind = "ack" /\ me' = Head(inbox).owner
        /\ UNCHANGED <<linked, session, serverVars>>
    BY <1>9 DEF HandleHandshakeAck
  <2>2. Head(inbox) \in ToSet(inbox)
    BY <2>1, ElementsStay DEF TypeOK
  <2>3. me' \in 1 .. lastPlayer
    BY <2>1, <2>2 DEF PlayersAreKnown
  <2> QED BY <2>1, <2>3, ServerFacts, QuietIsServerStep DEF serverVars
<1>10. ASSUME NEW o \in Squad, AnnounceCharacter(o) PROVE ServerStep
  <2>1. UNCHANGED <<linked, session, connected, me, others, lastPlayer, zones>>
    BY <1>10 DEF AnnounceCharacter
  <2>2. CASE UNCHANGED <<lastId, srv>>
    BY <2>1, <2>2, ServerFacts, QuietIsServerStep
  <2>3. CASE /\ session # 0 /\ lastId < LastServerId /\ lastId' = lastId + 1
             /\ srv' = Put(srv, lastId + 1, session)
    BY <2>1, <2>3, NewEntityIsServerStep
  <2> QED BY <1>10, <2>2, <2>3 DEF AnnounceCharacter
<1>11. CASE UNCHANGED <<linked, session, connected, me, serverVars>>
  BY <1>11, ServerFacts, QuietIsServerStep DEF serverVars
<1> QED BY <1>1, <1>2, <1>3, <1>4, <1>5, <1>6, <1>7, <1>8, <1>9, <1>10, <1>11
        DEF Next, Server, NetworkThread, GameThread, vars, linkVars, ReceiveSpawn, QueueSpawn,
            ReceiveRemovalEarly, HandleEntityDespawn, HandlePlayerLeft, ClearSpawnQueue,
            OnLoadingGapDetected, OnGameLoaded, RemoveEntitiesInZone, PopDirect, PopHijack, Hijack,
            SpawnSucceeds, SpawnFails, CleanUpStuck

-----------------------------------------------------------------------------
(* One step and the counts that limit the bodies.                              *)

LimitsTyped ==
    /\ linked \in BOOLEAN /\ connected \in BOOLEAN /\ loaded \in BOOLEAN
    /\ capped \subseteq Player /\ hijacks \in [Player -> 0 .. MaxHijacks]
    /\ made \subseteq Body /\ missed \subseteq Id

\* A body more, or none.
LEMMA LinkMakesBody ==
    ASSUME made \subseteq Body, NEW i, Link(i)
    PROVE  made' \subseteq Body
<1>1. \E b : b \in Body \ made
  BY DEF Link
<1>2. (CHOOSE b \in Body \ made : TRUE) \in Body
  BY <1>1
<1> QED BY <1>2 DEF Link

\* What is under way, wanted or shown are entities.
LEMMA NamedAreIds ==
    ASSUME TypeOK
    PROVE  RemoteIds \subseteq Id /\ Pending \subseteq Id
<1>1. RemoteIds \subseteq Id
  BY DEF TypeOK, RegistryTypeOK, RemoteIds
<1>2. \A m \in ToSet(inbox) : m.kind = "spawn" => m.id \in Id
  <2>1. ToSet(inbox) \subseteq Message
    BY ToSetIsElements DEF TypeOK
  <2> QED BY <2>1, MessageFields
<1>3. \A r \in ToSet(queue \o announced \o spawning) : r.id \in Id
  <2>1. queue \in Seq(Request) /\ announced \in Seq(Request) /\ spawning \in Seq(Request)
    BY DEF TypeOK
  <2>2. queue \o announced \in Seq(Request)
    BY <2>1, ElementsStay
  <2>3. (queue \o announced) \o spawning \in Seq(Request)
    BY <2>1, <2>2, ElementsStay
  <2>4. ToSet(queue \o announced \o spawning) \subseteq Request
    BY <2>3, ToSetIsElements
  <2> QED BY <2>4 DEF Request
<1> QED BY <1>1, <1>2, <1>3 DEF Pending

\* Every step keeps the flags, the counts and the sets typed.
LEMMA EveryStepKeepsLimits ==
    ASSUME TypeOK, [Next]_vars
    PROVE  LimitsTyped'
<1>1. LimitsTyped
  BY DEF TypeOK, LimitsTyped
<1>2. MaxHijacks \in Nat
  BY LimitsAssumption
<1>3. CASE HandleHandshakeAck
  <2>1. hijacks' = [p \in Player |-> 0]
    BY <1>3 DEF HandleHandshakeAck
  <2>2. hijacks' \in [Player -> 0 .. MaxHijacks]
    BY <1>2, <2>1
  <2> QED BY <1>1, <1>3, <2>2 DEF LimitsTyped, HandleHandshakeAck
<1>4. CASE SetConnectedFalse
  BY <1>1, <1>4 DEF LimitsTyped, SetConnectedFalse, SessionEnds
<1>5. CASE LinkLost
  BY <1>1, <1>5 DEF LimitsTyped, LinkLost, SessionEnds, spawnVars
<1>6. CASE OnLoadingGapDetected
  BY <1>1, <1>6 DEF LimitsTyped, OnLoadingGapDetected
<1>7. CASE OnGameLoaded
  BY <1>1, <1>7 DEF LimitsTyped, OnGameLoaded, spawnVars
<1>8. CASE Dial
  BY <1>1, <1>8, NamedAreIds DEF LimitsTyped, Dial, spawnVars
<1>9. CASE HandleHandshake
  BY <1>1, <1>9, NamedAreIds DEF LimitsTyped, HandleHandshake, spawnVars
<1>10. CASE ReceiveSpawn
  <2>1. Head(inbox).id \in Id
    BY <1>10, TakeMessage, MessageFields DEF ReceiveSpawn, TypeOK
  <2> QED BY <1>1, <1>10, <2>1 DEF LimitsTyped, ReceiveSpawn
<1>11. CASE ReceiveRemovalEarly
  <2>1. inbox # <<>> /\ Head(inbox) \in Message
    BY <1>11, TakeMessage DEF ReceiveRemovalEarly, TypeOK
  <2>2. DOMAIN entities \subseteq Id
    BY DEF TypeOK, RegistryTypeOK
  <2>3. missed' \subseteq Id
    <3>1. CASE Head(inbox).kind = "despawn"
      BY <1>1, <1>11, <2>1, <3>1, MessageFields DEF ReceiveRemovalEarly, LimitsTyped
    <3>2. CASE Head(inbox).kind # "despawn"
      BY <1>1, <1>11, <2>2, <3>2 DEF ReceiveRemovalEarly, LimitsTyped
    <3> QED BY <3>1, <3>2
  <2> QED BY <1>1, <1>11, <2>3 DEF LimitsTyped, ReceiveRemovalEarly, spawnVars
<1>12. CASE Hijack
  <2> DEFINE r == spawning[1]
  <2>1. r.owner \in Player
    BY <1>12, RequestFields DEF Hijack
  <2>2. /\ Link(r.id) \/ made' = made
        /\ \/ hijacks' = hijacks
           \/ hijacks[r.owner] < MaxHijacks /\ hijacks' = [hijacks EXCEPT ![r.owner] = @ + 1]
        /\ UNCHANGED <<linked, connected, loaded, missed, capped>>
    BY <1>12 DEF Hijack, linkVars
  <2> HIDE DEF r
  <2>3. made' \subseteq Body
    BY <1>1, <2>2, LinkMakesBody DEF LimitsTyped
  <2>4. hijacks' \in [Player -> 0 .. MaxHijacks]
    BY <1>1, <1>2, <2>1, <2>2 DEF LimitsTyped
  <2> QED BY <1>1, <2>2, <2>3, <2>4 DEF LimitsTyped
<1>13. CASE SpawnSucceeds
  <2>1. spawning[1].owner \in Player
    BY <1>13, RequestFields DEF SpawnSucceeds
  <2>2. /\ Link(spawning[1].id) /\ capped' = capped \cup {spawning[1].owner}
        /\ UNCHANGED <<linked, connected, loaded, missed, hijacks>>
    BY <1>13 DEF SpawnSucceeds, linkVars
  <2> QED BY <1>1, <2>1, <2>2, LinkMakesBody DEF LimitsTyped
<1>14. CASE UNCHANGED <<linked, connected, loaded, capped, hijacks, made, missed>>
  BY <1>1, <1>14 DEF LimitsTyped
<1> QED BY <1>3, <1>4, <1>5, <1>6, <1>7, <1>8, <1>9, <1>10, <1>11, <1>12, <1>13, <1>14
        DEF Next, Server, NetworkThread, GameThread, vars, linkVars, spawnVars, RemoteSpawn,
            RemoteDespawn, RemoteLeaves, ZoneLoad, QueueSpawn, HandleEntityDespawn,
            HandlePlayerLeft, ClearSpawnQueue, AnnounceCharacter, RemoveEntitiesInZone, PopDirect,
            PopHijack, SpawnFails, CleanUpStuck

-----------------------------------------------------------------------------
(* The invariant is inductive.                                                 *)

\* At the start there is nothing.
LEMMA StartIsSound == Init => WorldInv
<1> SUFFICES ASSUME Init PROVE WorldInv
  OBVIOUS
<1> USE DEF Init
<1>1. RegistryInv
  BY RegistryStartsSound DEF Init
<1>2. DOMAIN entities = {} /\ DOMAIN srv = {}
  BY DEF RegistryInit, EmptyMap
<1>3. ToSet(inbox) = {} /\ Len(inbox) = 0 /\ Requests = {}
  BY ShortSequences DEF Requests
<1>4. TypeOK
  <2>1. RegistryTypeOK
    BY <1>1 DEF RegistryInv
  <2>2. hijacks \in [Player -> 0 .. MaxHijacks]
    BY LimitsAssumption
  <2>3. /\ queue \in Seq(Request) /\ announced \in Seq(Request) /\ spawning \in Seq(Request)
        /\ inbox \in Seq(Message) /\ Len(announced) <= 1 /\ Len(spawning) = 0 /\ Len(inbox) <= 1
    BY ShortSequences
  <2>4. /\ lastId \in 0 .. LastServerId /\ lastPlayer \in 1 .. LastPlayer /\ zones \in 0 .. ZoneBound
        /\ others \subseteq 1 .. lastPlayer /\ me \in 0 .. lastPlayer
        /\ session \in 0 .. lastPlayer /\ session \notin others /\ session = 0
    BY NumbersAssumption, LimitsAssumption
  <2>5. at \in Places /\ at \notin {"tick", "hook"}
    BY DEF Places
  <2> QED BY <1>2, <2>1, <2>2, <2>3, <2>4, <2>5 DEF TypeOK
<1>5. NamesAgree
  <2> DEFINE none == [i \in 1 .. lastId |-> 1]
  <2>1. none \in [1 .. lastId -> 1 .. lastPlayer]
    OBVIOUS
  <2>2. NamedAfter(none)
    BY <1>2, <1>3 DEF NamedAfter
  <2> QED BY <2>1, <2>2 DEF NamesAgree
<1>6. LocalIdsAreHigh /\ LinkedAreMade /\ LinkedMeansIndexed /\ PlayersAreKnown
  BY <1>2, <1>3, IdAssumption DEF LocalIdsAreHigh, LinkedAreMade, LinkedMeansIndexed,
                                  PlayersAreKnown, RegistryInit
<1>7. SessionIsNamed /\ SpawnsComeFirst /\ MineAreMine /\ NoStaleRemotes
  BY DEF SessionIsNamed, SpawnsComeFirst, MineAreMine, NoStaleRemotes
<1>8. EarlyAreMissed
  BY <1>2 DEF EarlyAreMissed, RemoteIds
<1> QED BY <1>1, <1>4, <1>5, <1>6, <1>7, <1>8 DEF WorldInv

\* The message that is taken is one of those under way; in a session, what it names
\* exists, or its removal is behind it, or it is missed, as it is before I am accepted;
\* what it names as mine exists, and I know my name.
LEMMA NextSpawnFacts ==
    ASSUME WorldInv, NEW id, NEW p, NextIsSpawn(id, p)
    PROVE  /\ Head(inbox) \in ToSet(inbox) /\ Head(inbox).kind = "spawn"
           /\ Head(inbox).id = id /\ Head(inbox).owner = p
           /\ session # 0 => Accounted(id)
           /\ session # 0 /\ ~connected => id \in missed
           /\ session # 0 /\ p = session => me = session /\ id \in OwnedBy(session)
<1>1. inbox \in Seq(Message) /\ inbox # <<>>
  BY DEF WorldInv, TypeOK, NextIsSpawn
<1>2. /\ Len(inbox) \in Nat /\ 1 \in 1 .. Len(inbox) /\ Head(inbox) = inbox[1]
      /\ \A x : x \in ToSet(inbox) <=> \E i \in 1 .. Len(inbox) : inbox[i] = x
  <2>1. Len(inbox) \in Nat /\ Len(inbox) >= 1 /\ Head(inbox) = inbox[1]
    BY <1>1, TakeMessage
  <2>2. \A x : x \in ToSet(inbox) <=> \E i \in 1 .. Len(inbox) : inbox[i] = x
    BY <1>1, ToSetIsElements
  <2> QED BY <2>1, <2>2
<1>3. Head(inbox) \in ToSet(inbox)
  BY <1>2
<1>4. ASSUME session # 0
      PROVE  \/ id \in DOMAIN srv
             \/ p # session /\ (id \in missed \/ \E j \in 1 + 1 .. Len(inbox) : inbox[j] = Despawned(id))
  BY <1>2, <1>4 DEF WorldInv, SpawnsComeFirst, NextIsSpawn
<1>5. ASSUME session # 0 PROVE Accounted(id)
  <2>1. CASE \E j \in 1 + 1 .. Len(inbox) : inbox[j] = Despawned(id)
    <3>1. PICK j \in 1 + 1 .. Len(inbox) : inbox[j] = Despawned(id)
      BY <2>1
    <3>2. j \in 1 .. Len(inbox)
      BY <1>2
    <3> QED BY <1>2, <3>1, <3>2 DEF Accounted
  <2> QED BY <1>4, <1>5, <2>1 DEF Accounted
<1>6. ASSUME session # 0
      PROVE  (connected /\ me = session) \/ (p # session /\ id \in missed)
  <2>1. CASE connected /\ me = session
    BY <2>1
  <2>2. ASSUME NEW i \in 1 .. Len(inbox), inbox[i] = Ack(session),
               \A j \in 1 .. Len(inbox) :
                  j < i /\ inbox[j].kind = "spawn" => inbox[j].owner # session /\ inbox[j].id \in missed
        PROVE  p # session /\ id \in missed
    <3>1. i # 1
      BY <1>2, <2>2 DEF Ack, NextIsSpawn
    <3>2. 1 < i
      BY <1>2, <3>1
    <3> QED BY <1>2, <2>2, <3>2 DEF NextIsSpawn
  <2> QED BY <1>6, <2>1, <2>2 DEF WorldInv, SessionIsNamed
<1>7. session # 0 /\ p = session => id \in OwnedBy(session)
  BY <1>3, <1>4, InboxFacts DEF NextIsSpawn, OwnedBy
<1> QED BY <1>3, <1>5, <1>6, <1>7 DEF NextIsSpawn

\* What one step gives: the four views of it.
LEMMA StepFacts ==
    ASSUME WorldInv, [Next]_vars
    PROVE  /\ RegistryStep /\ RequestsStep /\ MessagesStep /\ ServerStep
           /\ RegistryInv' /\ LimitsTyped'
<1>1. RegistryStep /\ RequestsStep /\ MessagesStep /\ ServerStep /\ LimitsTyped'
  BY EveryStepIsRegistryStep, EveryStepIsRequestsStep, EveryStepIsMessagesStep,
     EveryStepIsServerStep, EveryStepKeepsLimits DEF WorldInv, ObjectsInv
<1>2. RegistryInv'
  BY <1>1, RegistryStepIsSound DEF RegistryStep, WorldInv
<1> QED BY <1>1, <1>2

\* Names stay: a new entity takes the owner the server gave it.
LEMMA NamesStay ==
    ASSUME WorldInv, RegistryStep, RequestsStep, MessagesStep, ServerStep, RegistryInv'
    PROVE  NamesAgree'
<1>1. PICK owner \in [1 .. lastId -> 1 .. lastPlayer] : NamedAfter(owner)
  BY DEF WorldInv, NamesAgree
<1>2. /\ lastId \in Nat /\ lastId' \in Nat /\ lastId <= lastId' /\ lastId < FirstLocalId
      /\ lastPlayer \in Nat /\ lastPlayer' \in Nat /\ lastPlayer <= lastPlayer'
      /\ DOMAIN srv \subseteq 1 .. lastId /\ DOMAIN srv' \subseteq 1 .. lastId'
  BY NumbersAssumption, IdAssumption DEF ServerStep, WorldInv, TypeOK
<1>3. \E next \in [1 .. lastId' -> 1 .. lastPlayer'] :
         next = [i \in 1 .. lastId' |-> IF i \in 1 .. lastId THEN owner[i] ELSE srv'[i]]
  <2> DEFINE next == [i \in 1 .. lastId' |-> IF i \in 1 .. lastId THEN owner[i] ELSE srv'[i]]
  <2> SUFFICES ASSUME NEW i \in 1 .. lastId' PROVE next[i] \in 1 .. lastPlayer'
    OBVIOUS
  <2>1. CASE i \in 1 .. lastId
    <3>1. owner[i] \in 1 .. lastPlayer
      BY <1>1, <2>1
    <3> QED BY <1>2, <2>1, <3>1
  <2>2. CASE i \notin 1 .. lastId
    <3>1. i \in lastId + 1 .. lastId'
      BY <1>2, <2>2
    <3> QED BY <2>2, <3>1 DEF ServerStep
  <2> QED BY <2>1, <2>2
<1> PICK next \in [1 .. lastId' -> 1 .. lastPlayer'] :
            next = [i \in 1 .. lastId' |-> IF i \in 1 .. lastId THEN owner[i] ELSE srv'[i]]
  BY <1>3
<1>4. \A i \in 1 .. lastId : i \in 1 .. lastId' /\ next[i] = owner[i]
  BY <1>2
<1>5. \A id \in DOMAIN srv' : id \in 1 .. lastId' /\ srv'[id] = next[id]
  <2> SUFFICES ASSUME NEW id \in DOMAIN srv' PROVE id \in 1 .. lastId' /\ srv'[id] = next[id]
    OBVIOUS
  <2>1. id \in 1 .. lastId'
    BY <1>2
  <2>2. CASE id \in 1 .. lastId
    <3>1. id \in DOMAIN srv /\ srv'[id] = srv[id]
      BY <1>2, <2>2 DEF ServerStep
    <3> QED BY <1>1, <1>4, <2>1, <2>2, <3>1 DEF NamedAfter
  <2>3. CASE id \notin 1 .. lastId
    BY <2>1, <2>3
  <2> QED BY <2>1, <2>2, <2>3
<1>6. \A m \in ToSet(inbox) : m.kind = "spawn" => m.id \in 1 .. lastId' /\ m.owner = next[m.id]
  BY <1>1, <1>4 DEF NamedAfter
<1>7. \A m \in ToSet(inbox') : m.kind = "spawn" => m.id \in 1 .. lastId' /\ m.owner = next[m.id]
  BY <1>5, <1>6 DEF MessagesStep
<1>8. \A id, p : NextIsSpawn(id, p) => id \in 1 .. lastId' /\ p = next[id]
  BY <1>6, NextSpawnFacts
<1>9. \A r \in Requests' : r.id \in 1 .. lastId' /\ r.owner = next[r.id]
  <2>1. \A q \in Requests : q.id \in 1 .. lastId' /\ q.owner = next[q.id]
    BY <1>1, <1>4 DEF NamedAfter
  <2> SUFFICES ASSUME NEW r \in Requests' PROVE r.id \in 1 .. lastId' /\ r.owner = next[r.id]
    OBVIOUS
  <2>2. (\E q \in Requests : SameRequest(r, q)) \/ NextIsSpawn(r.id, r.owner)
    BY DEF RequestsStep
  <2> QED BY <1>8, <2>1, <2>2 DEF SameRequest
<1>10. \A id \in DOMAIN entities' :
          id < FirstLocalId => id \in 1 .. lastId' /\ entities'[id].owner = next[id]
  <2> SUFFICES ASSUME NEW id \in DOMAIN entities', id < FirstLocalId
               PROVE  id \in 1 .. lastId' /\ entities'[id].owner = next[id]
    OBVIOUS
  <2>1. EntityComesFrom(id)
    BY DEF RegistryStep
  <2>2. CASE SameEntity(id)
    BY <1>1, <1>4, <2>2 DEF NamedAfter, SameEntity
  <2>3. id # nextId
    BY IdAssumption DEF WorldInv, LocalIdsAreHigh, RegistryInv, RegistryTypeOK
  <2>4. CASE \E p : NextIsSpawn(id, p) /\ entities'[id].owner = p
    BY <1>8, <2>4
  <2> QED BY <2>1, <2>2, <2>3, <2>4 DEF EntityComesFrom
<1>11. NamedAfter(next)'
  BY <1>5, <1>7, <1>9, <1>10 DEF NamedAfter
<1> QED BY <1>11 DEF NamesAgree

\* Players stay known.
LEMMA PlayersStay ==
    ASSUME WorldInv, RegistryStep, MessagesStep, ServerStep
    PROVE  PlayersAreKnown' /\ \A id \in DOMAIN entities' : entities'[id].owner \in 1 .. lastPlayer
<1>1. /\ lastPlayer \in Nat /\ lastPlayer' \in Nat /\ lastPlayer <= lastPlayer'
      /\ connected => me \in 1 .. lastPlayer
  BY NumbersAssumption DEF ServerStep, WorldInv, TypeOK, PlayersAreKnown
<1>2. \A id, p : NextIsSpawn(id, p) => p \in 1 .. lastPlayer
  BY NextSpawnFacts, InboxFacts
<1>3. ASSUME NEW id \in DOMAIN entities' PROVE entities'[id].owner \in 1 .. lastPlayer
  <2>1. EntityComesFrom(id)
    BY <1>3 DEF RegistryStep
  <2> QED BY <1>1, <1>2, <2>1 DEF EntityComesFrom, SameEntity, WorldInv, PlayersAreKnown
<1>4. \A m \in ToSet(inbox') : m.kind = "ack" => m.owner \in 1 .. lastPlayer'
  BY <1>1 DEF MessagesStep, WorldInv, PlayersAreKnown
<1>5. connected' => me' # 0
  BY DEF ServerStep
<1> QED BY <1>1, <1>3, <1>4, <1>5 DEF PlayersAreKnown

\* What is mine stays mine: my characters keep their objects, and the ids the server
\* knows them by.
LEMMA MineStay ==
    ASSUME WorldInv, RegistryStep, RequestsStep, MessagesStep, ServerStep
    PROVE  MineAreMine'
<1>1. PICK owner \in [1 .. lastId -> 1 .. lastPlayer] : NamedAfter(owner)
  BY DEF WorldInv, NamesAgree
<1>2. /\ lastId \in Nat /\ lastId < FirstLocalId /\ FirstLocalId \in Nat /\ lastPlayer \in Nat
      /\ nextId \in Nat /\ nextId >= FirstLocalId
  BY NumbersAssumption, IdAssumption
     DEF WorldInv, TypeOK, RegistryInv, RegistryTypeOK, LocalIdsAreHigh
<1>3. \A id, p : NextIsSpawn(id, p) => p \in 1 .. lastPlayer
  BY NextSpawnFacts, InboxFacts
<1>4. CASE session' = 0
  BY <1>4 DEF MineAreMine
<1>5. CASE SessionBegins
  <2>1. session' \notin 1 .. lastPlayer
    BY <1>2, <1>5 DEF SessionBegins
  <2>2. \A r \in Requests' : r.owner \in 1 .. lastPlayer
    <3>1. \A r \in Requests : r.owner \in 1 .. lastPlayer
      BY <1>1 DEF NamedAfter
    <3> QED BY <1>3, <3>1 DEF RequestsStep, SameRequest
  <2> QED BY <2>1, <2>2, PlayersStay DEF MineAreMine
<1>6. ASSUME session # 0, session' = session, \A x \in OwnedBy(session) : x \in OwnedBy(session)'
      PROVE  MineAreMine'
  <2>1. ASSUME NEW r \in Requests' PROVE r.owner # session
    <3>1. CASE \E q \in Requests : SameRequest(r, q)
      BY <1>6, <3>1 DEF SameRequest, WorldInv, MineAreMine
    <3>2. CASE r.owner # me /\ NextIsSpawn(r.id, r.owner)
      BY <1>6, <3>2, NextSpawnFacts
    <3> QED BY <2>1, <3>1, <3>2 DEF RequestsStep
  <2>2. ASSUME NEW r \in Requests, r.id \in DOMAIN entities PROVE entities[r.id].owner # session
    <3>1. r.id \in 1 .. lastId /\ r.owner = owner[r.id] /\ r.owner # session
      BY <1>1, <1>6, <2>2 DEF NamedAfter, WorldInv, MineAreMine
    <3>2. r.id < FirstLocalId
      BY <1>2, <3>1
    <3> QED BY <1>1, <2>2, <3>1, <3>2 DEF NamedAfter
  <2>3. ASSUME NEW id \in DOMAIN entities', entities'[id].owner = session
        PROVE  /\ ~entities'[id].remote /\ entities'[id].obj \in Squad
               /\ id < FirstLocalId => id \in OwnedBy(session)
    <3>1. EntityComesFrom(id)
      BY DEF RegistryStep
    <3>2. CASE /\ SameEntity(id)
               /\ entities'[id].obj # entities[id].obj => \E r \in Requests : r.id = id
      <4>1. /\ id \in DOMAIN entities /\ entities[id].owner = session
            /\ entities'[id].remote = entities[id].remote
        BY <2>3, <3>2 DEF SameEntity
      <4>2. entities'[id].obj = entities[id].obj
        BY <2>2, <3>2, <4>1
      <4> QED BY <1>6, <4>1, <4>2 DEF WorldInv, MineAreMine
    <3>3. CASE id = nextId /\ ~entities'[id].remote /\ entities'[id].obj \in Squad
      BY <1>2, <3>3
    <3>4. CASE \E p \in Player : p # me /\ NextIsSpawn(id, p) /\ entities'[id].owner = p
      BY <1>6, <2>3, <3>4, NextSpawnFacts
    <3>5. ASSUME NextIsSpawn(id, me), NEW old \in DOMAIN entities, entities[old].owner = me,
                 entities'[id] = entities[old]
          PROVE  /\ ~entities'[id].remote /\ entities'[id].obj \in Squad
                 /\ id < FirstLocalId => id \in OwnedBy(session)
      <4>1. me = session
        BY <2>3, <3>5
      <4>2. id \in OwnedBy(session)
        BY <1>6, <3>5, <4>1, NextSpawnFacts
      <4> QED BY <1>6, <3>5, <4>1, <4>2 DEF WorldInv, MineAreMine
    <3> QED BY <3>1, <3>2, <3>3, <3>4, <3>5 DEF EntityComesFrom
  <2>4. \A id \in DOMAIN entities' : entities'[id].owner = session' =>
           /\ ~entities'[id].remote /\ entities'[id].obj \in Squad
           /\ id < FirstLocalId => id \in OwnedBy(session)'
    BY <1>6, <2>3
  <2> QED BY <1>6, <2>1, <2>4 DEF MineAreMine
<1> QED BY <1>4, <1>5, <1>6 DEF ServerStep

\* What is shown of the others comes from before, or from the message that is taken.
LEMMA RemoteComesFrom ==
    ASSUME RegistryStep, NEW id \in RemoteIds'
    PROVE  id \in RemoteIds \/ \E p : NextIsSpawn(id, p)
BY DEF RegistryStep, EntityComesFrom, RemoteIds, SameEntity

\* What is shown before a session, or without a connection, stays accounted as missed.
LEMMA EarlyStay ==
    ASSUME WorldInv, RegistryStep, [Next]_vars
    PROVE  EarlyAreMissed'
<1> USE DEF EarlyAreMissed
<1>1. EarlyAreMissed
  BY DEF WorldInv
<1>2. \A id \in RemoteIds' : id \in RemoteIds \/ \E p : NextIsSpawn(id, p)
  BY RemoteComesFrom
<1>3. ASSUME UNCHANGED <<linked, session, connected>>, missed \subseteq missed'
      PROVE  EarlyAreMissed'
  <2> SUFFICES ASSUME ~connected \/ (linked /\ session = 0), NEW id \in RemoteIds'
               PROVE  id \in missed'
    BY <1>3
  <2>1. CASE id \in RemoteIds
    BY <1>1, <1>3, <2>1
  <2>2. ASSUME NEW p, NextIsSpawn(id, p) PROVE id \in missed'
    <3>1. CASE session = 0
      BY <2>2, <3>1 DEF NextIsSpawn
    <3>2. CASE session # 0
      BY <1>3, <2>2, <3>2, NextSpawnFacts
    <3> QED BY <3>1, <3>2
  <2> QED BY <1>2, <2>1, <2>2
<1>4. CASE SetConnectedFalse
  <2>1. entities' = Without(entities, RemoteIds)
    BY <1>4 DEF SetConnectedFalse, ClearRemoteEntities, RemoveAll
  <2>2. RemoteIds' = {}
    BY <2>1 DEF RemoteIds, Without
  <2> QED BY <2>2
<1>5. CASE Dial
  <2>1. /\ RemoteIds' = RemoteIds /\ connected' = connected
        /\ missed' = IF connected THEN missed \cup RemoteIds ELSE missed
    BY <1>5 DEF Dial, registryVars, RemoteIds
  <2> QED BY <1>1, <2>1
<1>6. CASE HandleHandshake \/ LinkLost
  <2>1. /\ RemoteIds' = RemoteIds /\ connected' = connected /\ missed \subseteq missed'
        /\ ~linked' \/ session' # 0
    BY <1>6, NumbersAssumption
       DEF HandleHandshake, LinkLost, SessionEnds, registryVars, RemoteIds, WorldInv, TypeOK
  <2> QED BY <1>1, <2>1
<1>7. CASE HandleHandshakeAck
  <2>1. RemoteIds' = RemoteIds /\ connected' /\ UNCHANGED <<linked, session, missed>>
    BY <1>7 DEF HandleHandshakeAck, registryVars, RemoteIds
  <2> QED BY <1>1, <2>1
<1>8. CASE ReceiveSpawn
  BY <1>3, <1>8 DEF ReceiveSpawn
<1>9. CASE ReceiveRemovalEarly
  BY <1>3, <1>9 DEF ReceiveRemovalEarly
<1>10. CASE UNCHANGED <<linked, session, connected, missed>>
  BY <1>3, <1>10
<1> QED BY <1>4, <1>5, <1>6, <1>7, <1>8, <1>9, <1>10
        DEF Next, Server, NetworkThread, GameThread, vars, linkVars, RemoteSpawn, RemoteLeaves,
            RemoteDespawn, ZoneLoad, QueueSpawn, HandleEntityDespawn, HandlePlayerLeft,
            ClearSpawnQueue, OnLoadingGapDetected, OnGameLoaded, AnnounceCharacter,
            RemoveEntitiesInZone, PopDirect, PopHijack, Hijack, SpawnSucceeds, SpawnFails,
            CleanUpStuck

\* What is shown of the others in a session stays accounted for.
LEMMA RemotesStayAccounted ==
    ASSUME WorldInv, RegistryStep, MessagesStep, ServerStep
    PROVE  NoStaleRemotes'
<1> SUFFICES ASSUME session' # 0, NEW id \in RemoteIds' PROVE Accounted(id)'
  BY DEF NoStaleRemotes, Accounted
<1>1. CASE SessionBegins
  <2>1. id \in RemoteIds /\ RemoteIds \subseteq missed /\ missed \subseteq missed'
    BY <1>1 DEF SessionBegins, RemoteIds, WorldInv, EarlyAreMissed
  <2> QED BY <2>1 DEF Accounted
<1>2. CASE session' = session
  <2>1. id \in RemoteIds \/ \E p : NextIsSpawn(id, p)
    BY RemoteComesFrom
  <2>2. Accounted(id)
    <3>1. CASE id \in RemoteIds
      BY <1>2, <3>1 DEF WorldInv, NoStaleRemotes, Accounted
    <3>2. CASE \E p : NextIsSpawn(id, p)
      BY <1>2, <3>2, NextSpawnFacts
    <3> QED BY <2>1, <3>1, <3>2
  <2>3. id \in DOMAIN entities'
    BY DEF RemoteIds
  <2> QED BY <1>2, <2>2, <2>3 DEF MessagesStep
<1> QED BY <1>1, <1>2 DEF ServerStep

\* Every step keeps the invariant.
LEMMA StepIsSound == WorldInv /\ [Next]_vars => WorldInv'
<1> SUFFICES ASSUME WorldInv, [Next]_vars PROVE WorldInv'
  OBVIOUS
<1>1. /\ RegistryStep /\ RequestsStep /\ MessagesStep /\ ServerStep
      /\ RegistryInv' /\ LimitsTyped'
  BY StepFacts
<1>2. TypeOK'
  BY <1>1 DEF TypeOK, RegistryInv, RequestsStep, RequestsTyped, MessagesStep, ServerStep, LimitsTyped
<1>3. /\ LocalIdsAreHigh' /\ LinkedAreMade' /\ LinkedMeansIndexed'
      /\ SpawnsComeFirst' /\ SessionIsNamed'
  BY <1>1 DEF RegistryStep, MessagesStep
<1>4. NamesAgree'
  BY <1>1, NamesStay
<1>5. PlayersAreKnown'
  BY <1>1, PlayersStay
<1>6. MineAreMine'
  BY <1>1, MineStay
<1>7. EarlyAreMissed'
  BY <1>1, EarlyStay
<1>8. NoStaleRemotes'
  BY <1>1, RemotesStayAccounted
<1> QED BY <1>1, <1>2, <1>3, <1>4, <1>5, <1>6, <1>7, <1>8 DEF WorldInv

\* The client's world is sound for good: the names that server, messages, requests
\* and registry use agree, and all the parts below hold at once.
THEOREM WorldIsSound == Spec => []WorldInv
<1>1. Init => WorldInv
  BY StartIsSound
<1>2. WorldInv /\ [Next]_vars => WorldInv'
  BY StepIsSound
<1> QED BY <1>1, <1>2, PTL DEF Spec

\* Types, of the client and of what it sees of the server.
THEOREM WorldIsTyped == Spec => []TypeOK
<1>1. WorldInv => TypeOK
  BY DEF WorldInv
<1> QED BY <1>1, WorldIsSound, PTL

\* The client implements the registry: whatever thread acts, the registry sees one
\* of its operations, or nothing.
THEOREM ClientUsesRegistry == Spec => UsesRegistry
<1>1. Init => RegistryInit
  BY DEF Init
<1>2. WorldInv /\ [Next]_vars => [RegistryNext]_registryVars
  BY StepFacts DEF RegistryStep
<1> QED BY <1>1, <1>2, WorldIsSound, PTL DEF Spec, UsesRegistry, RegistrySpec

\* In this use every linked entity is found by its object: no two entities ever
\* share one, since a body is made once and a registered character keeps its entry.
THEOREM LinkedStayIndexed == Spec => [](LinkedMeansIndexed /\ IndexIsSound)
<1>1. WorldInv => LinkedMeansIndexed /\ IndexIsSound
  BY DEF WorldInv, RegistryInv
<1> QED BY <1>1, WorldIsSound, PTL

\* In a session nothing of the others is shown without a reason, for any number of
\* players, entities, messages, connections and reloads: whatever was told before the
\* session, and whatever outlived the connection in the hands of the network thread.
THEOREM NothingStaleIsShown == Spec => []NoStaleRemotes
<1>1. WorldInv => NoStaleRemotes
  BY DEF WorldInv
<1> QED BY <1>1, WorldIsSound, PTL

\* No spawn for the others ever takes a character of mine, and none of mine is ever
\* announced as another's.
THEOREM MineKeepTheirObject == Spec => []OwnKeepTheirObject
<1>1. WorldInv => OwnKeepTheirObject
  BY DEF WorldInv, MineAreMine, OwnKeepTheirObject, InSession
<1> QED BY <1>1, WorldIsSound, PTL

\* An id below the local ones that I use for a character of mine is one the server
\* holds for me.
THEOREM ServerKnowsMine == Spec => []OwnIdsAreMine
<1>1. WorldInv => OwnIdsAreMine
  BY DEF WorldInv, MineAreMine, OwnIdsAreMine, InSession
<1> QED BY <1>1, WorldIsSound, PTL

=============================================================================
