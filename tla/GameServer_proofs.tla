-------------------------- MODULE GameServer_proofs --------------------------
(* Proofs about GameServer, for every value of its constants, NaN coordinates  *)
(* included: sessions, host, capacity, ids and owners; then that it implements *)
(* Authority, and that Authority keeps its promise.                            *)
EXTENDS GameServerAuthority, FiniteSetTheorems, TLAPS

(* The finite maps. *)

\* The empty map has no key, and is a map into any set.
LEMMA EmptyMapFacts ==
    ASSUME NEW f, f = EmptyMap, NEW S
    PROVE  DOMAIN f = {} /\ f \in [DOMAIN f -> S]
<1>1. DOMAIN f = {}
  BY DEF EmptyMap
<1>2. f = [x \in {} |-> x]
  BY DEF EmptyMap
<1>3. f \in [{} -> S]
  BY <1>2
<1> QED BY <1>1, <1>3

-----------------------------------------------------------------------------
(* Type correctness. *)

\* Every reachable state of the server is well typed, whatever the peers send,
\* whenever the process dies and whatever its save file holds.
THEOREM TypeCorrect == Spec => []TypeOK
<1>1. Init => TypeOK
  <2> SUFFICES ASSUME Init PROVE TypeOK
    OBVIOUS
  <2>1. players = EmptyMap /\ entities = EmptyMap /\ disk = EmptyMap
    BY DEF Init
  <2>2. /\ DOMAIN players = {} /\ players \in [DOMAIN players -> Peers]
        /\ DOMAIN entities = {} /\ entities \in [DOMAIN entities -> Entity]
        /\ DOMAIN disk = {} /\ disk \in [DOMAIN disk -> SavedEntity]
    BY <2>1, EmptyMapFacts
  <2>3. /\ running \in BOOLEAN /\ link \in [Peers -> LinkState]
        /\ data \in [Peers -> PlayerId \cup {0}] /\ host = 0
        /\ nextPlayerId = 1 /\ nextEntityId = 1 /\ torn \in BOOLEAN
    BY DEF Init, LinkState
  <2> QED BY <2>2, <2>3 DEF TypeOK
<1>2. TypeOK /\ [Next]_vars => TypeOK'
  <2> SUFFICES ASSUME TypeOK, [Next]_vars PROVE TypeOK'
    OBVIOUS
  <2> USE DEF TypeOK, fileVars
  <2>1. ASSUME NEW p \in Peers, HandleConnect(p) PROVE TypeOK'
    BY <2>1 DEF HandleConnect, LinkState, sessionVars, worldVars
  <2>2. ASSUME NEW p \in Peers, HandleHandshake(p) PROVE TypeOK'
    <3>1. CASE \E versionOk \in BOOLEAN : RejectHandshake(p, versionOk)
      BY <2>2, <3>1 DEF HandleHandshake, RejectHandshake, Closed, LinkState, sessionVars, worldVars
    <3>2. CASE \E versionOk \in BOOLEAN : AdmitPlayer(p, versionOk)
      <4>1. /\ nextPlayerId \in PlayerId
            /\ nextPlayerId' = nextPlayerId + 1
            /\ data' = [data EXCEPT ![p] = nextPlayerId]
            /\ players' = Put(players, nextPlayerId, p)
            /\ host' \in PlayerId \cup {0}
            /\ UNCHANGED <<running, link, entities, nextEntityId, disk, torn>>
        BY <2>2, <3>2 DEF HandleHandshake, AdmitPlayer, worldVars
      <4>2. DOMAIN players' \subseteq PlayerId /\ players' \in [DOMAIN players' -> Peers]
        BY <4>1 DEF Put
      <4>3. nextPlayerId' \in Nat \ {0}
        BY <4>1
      <4> QED BY <4>1, <4>2, <4>3
    <3> QED BY <2>2, <3>1, <3>2 DEF HandleHandshake
  <2>3. ASSUME NEW p \in Peers, HandleDisconnect(p) PROVE TypeOK'
    <3>1. link' \in [Peers -> LinkState] /\ data' \in [Peers -> PlayerId \cup {0}]
      BY <2>3 DEF HandleDisconnect, LinkState
    <3>2. CASE HasSession(p)
      <4>1. entities' = Without(entities, OwnedBy(data[p])) /\ players' = Without(players, {data[p]})
        BY <2>3, <3>2 DEF HandleDisconnect
      <4>2. host' \in PlayerId \cup {0}
        BY <2>3, <3>2 DEF HandleDisconnect, HostsAfter
      <4>3. /\ DOMAIN players' \subseteq PlayerId
            /\ players' \in [DOMAIN players' -> Peers]
            /\ DOMAIN entities' \subseteq EntityId
            /\ entities' \in [DOMAIN entities' -> Entity]
        BY <4>1 DEF Without
      <4> QED BY <2>3, <3>1, <4>2, <4>3 DEF HandleDisconnect
    <3>3. CASE ~HasSession(p)
      BY <2>3, <3>1, <3>3 DEF HandleDisconnect
    <3> QED BY <3>2, <3>3
  <2>4. ASSUME NEW p \in Peers, HandleDisconnectRequest(p) PROVE TypeOK'
    BY <2>4 DEF HandleDisconnectRequest, Closed, LinkState, sessionVars, worldVars
  <2>5. ASSUME NEW p \in Peers, NEW id \in PlayerId, HandleAdminKick(p, id) PROVE TypeOK'
    BY <2>5 DEF HandleAdminKick, Closed, LinkState, sessionVars, worldVars
  <2>6. ASSUME NEW id \in PlayerId, KickPlayer(id) PROVE TypeOK'
    BY <2>6 DEF KickPlayer, Closed, LinkState, sessionVars, worldVars
  <2>7. ASSUME NEW p \in Peers, NEW pos \in Positions,
               HandleEntitySpawnReq(p, pos) \/ HandleBuildRequest(p, pos)
        PROVE  TypeOK'
    <3>1. FromPlayer(p) /\ StoreEntity(p, pos) /\ UNCHANGED <<running, netVars, sessionVars, fileVars>>
      BY <2>7 DEF HandleEntitySpawnReq, HandleBuildRequest
    <3>2. [owner |-> data[p], pos |-> pos, restored |-> FALSE] \in Entity
      BY <3>1, PositionsAssumption DEF FromPlayer, HasSession, Entity, Position
    <3>3. DOMAIN entities' \subseteq EntityId /\ entities' \in [DOMAIN entities' -> Entity]
      <4> DEFINE new == [owner |-> data[p], pos |-> pos, restored |-> FALSE]
      <4>1. entities' = Put(entities, nextEntityId, new) /\ nextEntityId \in EntityId
        BY <3>1 DEF StoreEntity
      <4> HIDE DEF new
      <4>2. new \in Entity
        BY <3>2 DEF new
      <4> QED BY <4>1, <4>2 DEF Put
    <3>4. nextEntityId' \in Nat \ {0}
      BY <3>1 DEF StoreEntity
    <3>5. UNCHANGED <<running, link, data, players, host, nextPlayerId, disk, torn>>
      BY <3>1 DEF netVars, sessionVars
    <3> QED BY <3>3, <3>4, <3>5
  <2>8. ASSUME NEW p \in Peers, NEW e \in EntityId,
               HandleEntityDespawnReq(p, e) \/ HandleBuildDismantle(p, e)
        PROVE  TypeOK'
    <3>1. entities' = Without(entities, {e})
      BY <2>8 DEF HandleEntityDespawnReq, HandleBuildDismantle
    <3>2. DOMAIN entities' \subseteq EntityId /\ entities' \in [DOMAIN entities' -> Entity]
      BY <3>1 DEF Without
    <3> QED BY <2>8, <3>2 DEF HandleEntityDespawnReq, HandleBuildDismantle, netVars, sessionVars
  <2>9. ASSUME NEW p \in Peers, NEW e \in EntityId, HandlePositionUpdate(p, e) PROVE TypeOK'
    BY <2>9 DEF HandlePositionUpdate, Entity, Position, netVars, sessionVars
  <2>10. CASE SaveWorld
    BY <2>10 DEF SaveWorld, Saved, SavedEntity, Entity, netVars, sessionVars, worldVars
  <2>11. CASE Shutdown
    <3>1. players' = EmptyMap /\ entities' = EmptyMap
      BY <2>11 DEF Shutdown, FreshProcess
    <3>2. /\ DOMAIN players' = {} /\ players' \in [DOMAIN players' -> Peers]
          /\ DOMAIN entities' = {} /\ entities' \in [DOMAIN entities' -> Entity]
      BY <3>1, EmptyMapFacts
    <3>3. disk' \in [DOMAIN disk' -> SavedEntity] /\ DOMAIN disk' \subseteq EntityId
      BY <2>11 DEF Shutdown, Saved, SavedEntity, Entity
    <3>4. /\ running' \in BOOLEAN /\ link' \in [Peers -> LinkState]
          /\ data' \in [Peers -> PlayerId \cup {0}] /\ host' = 0
          /\ nextPlayerId' = 1 /\ nextEntityId' = 1 /\ torn' \in BOOLEAN
      BY <2>11 DEF Shutdown, FreshProcess, LinkState
    <3> QED BY <3>2, <3>3, <3>4
  <2>12. CASE Crash
    <3>1. players' = EmptyMap /\ entities' = EmptyMap
      BY <2>12 DEF Crash, FreshProcess
    <3>2. /\ DOMAIN players' = {} /\ players' \in [DOMAIN players' -> Peers]
          /\ DOMAIN entities' = {} /\ entities' \in [DOMAIN entities' -> Entity]
      BY <3>1, EmptyMapFacts
    <3>3. /\ running' \in BOOLEAN /\ link' \in [Peers -> LinkState]
          /\ data' \in [Peers -> PlayerId \cup {0}] /\ host' = 0
          /\ nextPlayerId' = 1 /\ nextEntityId' = 1 /\ UNCHANGED disk
          /\ torn' \in BOOLEAN
      BY <2>12 DEF Crash, FreshProcess, LinkState
    <3> QED BY <3>2, <3>3
  <2>13. CASE Startup
    <3>1. PICK read \in SUBSET DOMAIN disk :
             (LoadComplete(read) \/ LoadThrows(read)) /\ entities' = Restore(read)
      BY <2>13 DEF Startup
    <3>2. DOMAIN entities' \subseteq EntityId /\ entities' \in [DOMAIN entities' -> Entity]
      BY <3>1 DEF Restore, Kept, SavedEntity, Entity
    <3>3. nextEntityId' \in Nat \ {0}
      BY <3>1 DEF LoadComplete, LoadThrows, EntityId
    <3>4. torn' \in BOOLEAN
      BY <3>1, Zenon DEF LoadComplete, LoadThrows
    <3> QED BY <2>13, <3>2, <3>3, <3>4 DEF Startup, netVars, sessionVars
  <2>14. CASE UNCHANGED vars
    BY <2>14 DEF vars
  <2> QED BY <2>1, <2>2, <2>3, <2>4, <2>5, <2>6, <2>7, <2>8, <2>9, <2>10, <2>11, <2>12, <2>13,
             <2>14 DEF Next, SessionStep, EntityStep, ProcessStep
<1> QED BY <1>1, <1>2, PTL DEF Spec

-----------------------------------------------------------------------------
(* Sessions, the host and ownership.  SessionsMatch is inductive only together *)
(* with the fact that a new player id is unused; HostIsConnected and NoGhosts  *)
(* need SessionsMatch, because HandleDisconnect removes the player that the    *)
(* peer names.                                                                 *)

PlayerIdsUsed == \A id \in DOMAIN players : id < nextPlayerId

SessionInv == SessionsMatch /\ PlayerIdsUsed /\ HostIsConnected /\ NoGhosts

\* A player id is never 0, the value that stands for "nobody".
LEMMA IdsAreNotZero ==
    ASSUME TypeOK
    PROVE  \A x \in DOMAIN players : x # 0 /\ x \in Nat /\ players[x] \in Peers
<1>1. \A x \in PlayerId : x # 0 /\ x \in Nat
  BY BoundsAssumption DEF PlayerId
<1>2. \A x \in DOMAIN players : x \in PlayerId
  BY DEF TypeOK
<1>3. \A x \in DOMAIN players : players[x] \in Peers
  BY DEF TypeOK
<1> QED BY <1>1, <1>2, <1>3

\* Asking ENet to close some slots touches no session.
LEMMA ClosingKeepsSessions ==
    ASSUME TypeOK, SessionInv, NEW ps, link' = Closed(ps),
           UNCHANGED <<data, players, host, nextPlayerId, entities>>
    PROVE  SessionInv'
<1>1. \A p \in Peers : link[p] # "closed" => link'[p] # "closed"
  BY DEF Closed, TypeOK
<1>2. SessionsMatch'
  BY <1>1 DEF SessionInv, SessionsMatch, TypeOK
<1>3. PlayerIdsUsed' /\ HostIsConnected' /\ NoGhosts'
  BY DEF SessionInv, PlayerIdsUsed, HostIsConnected, NoGhosts
<1> QED BY <1>2, <1>3 DEF SessionInv

\* A handshake that is accepted adds one session under an unused id.
LEMMA AdmissionKeepsSessions ==
    ASSUME TypeOK, SessionInv, NEW p \in Peers, NEW versionOk,
           link[p] = "connected", data[p] = 0, AdmitPlayer(p, versionOk), UNCHANGED entities
    PROVE  SessionInv'
<1> DEFINE id == nextPlayerId
<1>1. /\ id \in PlayerId /\ id \in Nat /\ id # 0
      /\ nextPlayerId' = id + 1
      /\ data' = [data EXCEPT ![p] = id]
      /\ players' = Put(players, id, p)
      /\ link' = link
      /\ host' = IF host = 0 THEN id ELSE host
  BY DEF AdmitPlayer, TypeOK
<1>2. id \notin DOMAIN players
  BY DEF SessionInv, PlayerIdsUsed, TypeOK
<1>3. /\ DOMAIN players' = DOMAIN players \cup {id}
      /\ players'[id] = p
      /\ \A x \in DOMAIN players : players'[x] = players[x]
  BY <1>1, <1>2 DEF Put
<1>4. \A x \in DOMAIN players : players[x] # p
  BY IdsAreNotZero DEF SessionInv, SessionsMatch
<1>5. \A x \in DOMAIN players : players[x] \in Peers
  BY DEF TypeOK
<1>6. /\ data'[p] = id
      /\ \A q \in Peers : q # p => data'[q] = data[q]
  BY <1>1 DEF TypeOK
<1>7. SessionsMatch'
  <2>1. ASSUME NEW q \in Peers, data'[q] # 0
        PROVE  data'[q] \in DOMAIN players' /\ players'[data'[q]] = q
    <3>1. CASE q = p
      BY <3>1, <1>3, <1>6
    <3>2. CASE q # p
      BY <2>1, <3>2, <1>3, <1>6 DEF SessionInv, SessionsMatch
    <3> QED BY <3>1, <3>2
  <2>2. ASSUME NEW x \in DOMAIN players'
        PROVE  data'[players'[x]] = x /\ link'[players'[x]] # "closed"
    <3>1. CASE x = id
      BY <3>1, <1>1, <1>3, <1>6
    <3>2. CASE x # id
      BY <2>2, <3>2, <1>1, <1>3, <1>4, <1>5, <1>6 DEF SessionInv, SessionsMatch
    <3> QED BY <3>1, <3>2
  <2> QED BY <2>1, <2>2 DEF SessionsMatch
<1>8. PlayerIdsUsed'
  <2> SUFFICES ASSUME NEW x \in DOMAIN players' PROVE x < nextPlayerId'
    BY DEF PlayerIdsUsed
  <2>1. CASE x = id
    BY <2>1, <1>1
  <2>2. CASE x \in DOMAIN players
    BY <2>2, <1>1 DEF SessionInv, PlayerIdsUsed, TypeOK, PlayerId
  <2> QED BY <2>1, <2>2, <1>3
<1>9. HostIsConnected'
  BY <1>1, <1>3 DEF SessionInv, HostIsConnected
<1>10. NoGhosts'
  BY <1>3 DEF SessionInv, NoGhosts
<1> QED BY <1>7, <1>8, <1>9, <1>10 DEF SessionInv

\* A disconnect removes the one session of the peer, its entities and, when it
\* was the host, passes the role on.
LEMMA DepartureKeepsSessions ==
    ASSUME TypeOK, SessionInv, NEW p \in Peers, HandleDisconnect(p)
    PROVE  SessionInv'
<1>1. /\ link' = [link EXCEPT ![p] = "closed"]
      /\ data' = [data EXCEPT ![p] = 0]
      /\ nextPlayerId' = nextPlayerId
  BY DEF HandleDisconnect
<1>2. CASE ~HasSession(p)
  <2>1. UNCHANGED <<entities, players, host>>
    BY <1>2 DEF HandleDisconnect
  <2>2. data[p] = 0
    BY <1>2 DEF HasSession, SessionInv, SessionsMatch
  <2>3. \A x \in DOMAIN players : players[x] \in Peers /\ players[x] # p
    BY <2>2, IdsAreNotZero DEF SessionInv, SessionsMatch
  <2>4. /\ data'[p] = 0
        /\ \A q \in Peers : q # p => data'[q] = data[q] /\ link'[q] = link[q]
    BY <1>1 DEF TypeOK
  <2>5. SessionsMatch'
    BY <2>1, <2>3, <2>4 DEF SessionInv, SessionsMatch
  <2> QED BY <1>1, <2>1, <2>5 DEF SessionInv, PlayerIdsUsed, HostIsConnected, NoGhosts
<1>3. CASE HasSession(p)
  <2> DEFINE id == data[p]
  <2>1. /\ id \in DOMAIN players /\ players[id] = p /\ id # 0
        /\ players' = Without(players, {id})
        /\ entities' = Without(entities, OwnedBy(id))
        /\ host' \in HostsAfter(id, DOMAIN players \ {id})
    BY <1>3 DEF HandleDisconnect, HasSession, SessionInv, SessionsMatch
  <2>2. /\ DOMAIN players' = DOMAIN players \ {id}
        /\ \A x \in DOMAIN players' : players'[x] = players[x]
    BY <2>1 DEF Without
  <2>3. /\ DOMAIN entities' = DOMAIN entities \ OwnedBy(id)
        /\ \A e \in DOMAIN entities' : entities'[e] = entities[e]
    BY <2>1 DEF Without
  <2>4. \A q \in Peers : q # p => data'[q] = data[q] /\ link'[q] = link[q] /\ data[q] # id
    <3>1. \A q \in Peers : q # p => data'[q] = data[q] /\ link'[q] = link[q]
      BY <1>1 DEF TypeOK
    <3>2. \A q \in Peers : q # p => data[q] # id
      BY <2>1 DEF SessionInv, SessionsMatch
    <3> QED BY <3>1, <3>2
  <2>5. \A x \in DOMAIN players' : players[x] \in Peers /\ players[x] # p
    BY <2>1, <2>2, IdsAreNotZero DEF SessionInv, SessionsMatch
  <2>6. SessionsMatch'
    <3>1. data'[p] = 0
      BY <1>1 DEF TypeOK
    <3>2. ASSUME NEW q \in Peers, data'[q] # 0
          PROVE  data'[q] \in DOMAIN players' /\ players'[data'[q]] = q
      BY <3>1, <3>2, <2>2, <2>4 DEF SessionInv, SessionsMatch
    <3>3. ASSUME NEW x \in DOMAIN players'
          PROVE  data'[players'[x]] = x /\ link'[players'[x]] # "closed"
      BY <2>2, <2>4, <2>5 DEF SessionInv, SessionsMatch
    <3> QED BY <3>2, <3>3 DEF SessionsMatch
  <2>7. PlayerIdsUsed'
    BY <1>1, <2>2 DEF SessionInv, PlayerIdsUsed
  <2>8. HostIsConnected'
    <3>1. CASE host # id
      BY <3>1, <2>1, <2>2 DEF HostsAfter, SessionInv, HostIsConnected
    <3>2. CASE host = id
      <4> DEFINE rest == DOMAIN players \ {id}
      <4>1. CASE rest = {}
        BY <4>1, <3>2, <2>1, <2>2 DEF HostsAfter, HostIsConnected
      <4>2. CASE rest # {}
        <5>1. host' \in rest
          BY <4>2, <3>2, <2>1 DEF HostsAfter
        <5>2. host' # 0
          BY <5>1, IdsAreNotZero
        <5> QED BY <5>1, <5>2, <4>2, <2>2 DEF HostIsConnected
      <4> QED BY <4>1, <4>2
    <3> QED BY <3>1, <3>2
  <2>9. NoGhosts'
    BY <2>2, <2>3 DEF SessionInv, NoGhosts, OwnedBy
  <2> QED BY <2>6, <2>7, <2>8, <2>9 DEF SessionInv
<1> QED BY <1>2, <1>3

\* A process that starts afresh has no session and no entity.
LEMMA FreshProcessHasNoSessions ==
    ASSUME FreshProcess, entities' = EmptyMap
    PROVE  SessionInv'
<1>1. DOMAIN players' = {} /\ DOMAIN entities' = {} /\ host' = 0
      /\ \A p \in Peers : data'[p] = 0
  BY EmptyMapFacts DEF FreshProcess
<1> QED BY <1>1 DEF SessionInv, SessionsMatch, PlayerIdsUsed, HostIsConnected, NoGhosts

\* What holds of sessions, host and ownership in every reachable state.
THEOREM SessionsCorrect == Spec => []SessionInv
<1>1. Init => SessionInv
  <2> SUFFICES ASSUME Init PROVE SessionInv
    OBVIOUS
  <2>1. DOMAIN players = {} /\ DOMAIN entities = {} /\ host = 0
        /\ \A p \in Peers : data[p] = 0
    BY EmptyMapFacts DEF Init
  <2> QED BY <2>1 DEF SessionInv, SessionsMatch, PlayerIdsUsed, HostIsConnected, NoGhosts
<1>2. TypeOK /\ SessionInv /\ [Next]_vars => SessionInv'
  <2> SUFFICES ASSUME TypeOK, SessionInv, [Next]_vars PROVE SessionInv'
    OBVIOUS
  <2>1. ASSUME NEW p \in Peers, HandleConnect(p) PROVE SessionInv'
    <3>1. link[p] = "closed" /\ UNCHANGED <<players, host, nextPlayerId, entities>>
      BY <2>1 DEF HandleConnect, sessionVars, worldVars
    <3>2. data[p] = 0
      BY <3>1 DEF SessionInv, SessionsMatch
    <3>3. data' = data
      BY <2>1, <3>2 DEF HandleConnect, TypeOK
    <3>4. \A q \in Peers : q # p => link'[q] = link[q]
      BY <2>1 DEF HandleConnect, TypeOK
    <3>5. \A id \in DOMAIN players : players[id] \in Peers /\ players[id] # p
      BY <3>1, IdsAreNotZero DEF SessionInv, SessionsMatch
    <3> QED BY <3>1, <3>3, <3>4, <3>5
            DEF SessionInv, SessionsMatch, PlayerIdsUsed, HostIsConnected, NoGhosts
  <2>2. ASSUME NEW p \in Peers, HandleHandshake(p) PROVE SessionInv'
    <3>1. PICK versionOk \in BOOLEAN : RejectHandshake(p, versionOk) \/ AdmitPlayer(p, versionOk)
      BY <2>2 DEF HandleHandshake
    <3>2. CASE RejectHandshake(p, versionOk)
      BY <2>2, <3>2, ClosingKeepsSessions DEF HandleHandshake, RejectHandshake, sessionVars, worldVars
    <3>3. CASE AdmitPlayer(p, versionOk)
      BY <2>2, <3>3, AdmissionKeepsSessions DEF HandleHandshake, worldVars
    <3> QED BY <3>1, <3>2, <3>3
  <2>3. ASSUME NEW p \in Peers, HandleDisconnect(p) PROVE SessionInv'
    BY <2>3, DepartureKeepsSessions
  <2>4. ASSUME NEW p \in Peers, HandleDisconnectRequest(p) PROVE SessionInv'
    BY <2>4, ClosingKeepsSessions DEF HandleDisconnectRequest, sessionVars, worldVars
  <2>5. ASSUME NEW p \in Peers, NEW id \in PlayerId, HandleAdminKick(p, id) PROVE SessionInv'
    BY <2>5, ClosingKeepsSessions DEF HandleAdminKick, sessionVars, worldVars
  <2>6. ASSUME NEW id \in PlayerId, KickPlayer(id) PROVE SessionInv'
    BY <2>6, ClosingKeepsSessions DEF KickPlayer, sessionVars, worldVars
  <2>7. ASSUME NEW p \in Peers, NEW pos \in Positions,
               HandleEntitySpawnReq(p, pos) \/ HandleBuildRequest(p, pos)
        PROVE  SessionInv'
    <3>1. FromPlayer(p) /\ StoreEntity(p, pos) /\ UNCHANGED <<netVars, sessionVars>>
      BY <2>7 DEF HandleEntitySpawnReq, HandleBuildRequest
    <3>2. \A e \in DOMAIN entities' :
             \/ entities'[e].owner = data[p]
             \/ e \in DOMAIN entities /\ entities'[e] = entities[e]
      BY <3>1 DEF StoreEntity, Put
    <3>3. NoGhosts'
      BY <3>1, <3>2 DEF SessionInv, NoGhosts, FromPlayer, HasSession, sessionVars
    <3> QED BY <3>1, <3>3
            DEF SessionInv, SessionsMatch, PlayerIdsUsed, HostIsConnected, netVars, sessionVars
  <2>8. ASSUME NEW p \in Peers, NEW e \in EntityId,
               HandleEntityDespawnReq(p, e) \/ HandleBuildDismantle(p, e)
        PROVE  SessionInv'
    <3>1. entities' = Without(entities, {e}) /\ UNCHANGED <<netVars, sessionVars>>
      BY <2>8 DEF HandleEntityDespawnReq, HandleBuildDismantle
    <3>2. \A x \in DOMAIN entities' : x \in DOMAIN entities /\ entities'[x] = entities[x]
      BY <3>1 DEF Without
    <3> QED BY <3>1, <3>2 DEF SessionInv, SessionsMatch, PlayerIdsUsed, HostIsConnected,
                              NoGhosts, netVars, sessionVars
  <2>9. ASSUME NEW p \in Peers, NEW e \in EntityId, HandlePositionUpdate(p, e) PROVE SessionInv'
    <3>1. entities' = [entities EXCEPT ![e].pos = "ok"] /\ UNCHANGED <<netVars, sessionVars>>
      BY <2>9 DEF HandlePositionUpdate
    <3>2. /\ DOMAIN entities' = DOMAIN entities
          /\ \A x \in DOMAIN entities : /\ entities'[x].owner = entities[x].owner
                                       /\ entities'[x].restored = entities[x].restored
      BY <3>1 DEF TypeOK, Entity
    <3> QED BY <3>1, <3>2 DEF SessionInv, SessionsMatch, PlayerIdsUsed, HostIsConnected,
                              NoGhosts, netVars, sessionVars
  <2>10. CASE SaveWorld
    BY <2>10 DEF SaveWorld, SessionInv, SessionsMatch, PlayerIdsUsed, HostIsConnected, NoGhosts,
                 netVars, sessionVars, worldVars
  <2>11. CASE Shutdown \/ Crash
    BY <2>11, FreshProcessHasNoSessions DEF Shutdown, Crash
  <2>12. CASE Startup
    <3>1. \A e \in DOMAIN entities' : entities'[e].restored
      BY <2>12 DEF Startup, Restore
    <3> QED BY <2>12, <3>1 DEF Startup, SessionInv, SessionsMatch, PlayerIdsUsed, HostIsConnected,
                               NoGhosts, netVars, sessionVars
  <2>13. CASE UNCHANGED vars
    BY <2>13 DEF vars, SessionInv, SessionsMatch, PlayerIdsUsed, HostIsConnected, NoGhosts
  <2> QED BY <2>1, <2>2, <2>3, <2>4, <2>5, <2>6, <2>7, <2>8, <2>9, <2>10, <2>11, <2>12, <2>13
          DEF Next, SessionStep, EntityStep, ProcessStep
<1> QED BY <1>1, <1>2, TypeCorrect, PTL DEF Spec

\* peer->data and m_players agree in every reachable state.
THEOREM SessionsAlwaysMatch == Spec => []SessionsMatch
BY SessionsCorrect, PTL DEF SessionInv

\* Somebody connected is host exactly while somebody is connected.
THEOREM HostAlwaysConnected == Spec => []HostIsConnected
BY SessionsCorrect, PTL DEF SessionInv

\* No entity created since the start outlives its owner's session.
THEOREM NeverGhosts == Spec => []NoGhosts
BY SessionsCorrect, PTL DEF SessionInv

-----------------------------------------------------------------------------
(* Capacity: the check in HandleHandshake and the admission are one step. *)

\* There are finitely many sessions, so they can be counted.
LEMMA PlayersAreFinite == TypeOK => IsFiniteSet(DOMAIN players)
<1>1. IsFiniteSet(PlayerId)
  <2>1. 1 \in Int /\ LastPlayerId \in Int
    BY BoundsAssumption
  <2> QED BY <2>1, FS_Interval DEF PlayerId
<1>2. TypeOK => DOMAIN players \in SUBSET PlayerId
  BY DEF TypeOK
<1> QED BY <1>1, <1>2, FS_Subset

\* The server never holds more sessions than maxPlayers.
THEOREM CapacityAlwaysHolds == Spec => []CapacityHolds
<1>1. Init => CapacityHolds
  <2> SUFFICES ASSUME Init PROVE CapacityHolds
    OBVIOUS
  <2>1. DOMAIN players = {}
    BY EmptyMapFacts DEF Init
  <2> QED BY <2>1, FS_EmptySet, MaxPlayersAssumption DEF CapacityHolds
<1>2. TypeOK /\ SessionInv /\ CapacityHolds /\ [Next]_vars => CapacityHolds'
  <2> SUFFICES ASSUME TypeOK, SessionInv, CapacityHolds, [Next]_vars PROVE CapacityHolds'
    OBVIOUS
  <2>1. IsFiniteSet(DOMAIN players) /\ Cardinality(DOMAIN players) \in Nat
    BY PlayersAreFinite, FS_CardinalityType
  <2>2. ASSUME NEW p \in Peers, HandleHandshake(p) PROVE CapacityHolds'
    <3>1. CASE UNCHANGED players
      BY <3>1 DEF CapacityHolds
    <3>2. CASE \E versionOk \in BOOLEAN : AdmitPlayer(p, versionOk)
      <4>1. ~Full /\ players' = Put(players, nextPlayerId, p)
        BY <3>2 DEF AdmitPlayer
      <4>2. DOMAIN players' = DOMAIN players \cup {nextPlayerId}
        BY <4>1 DEF Put
      <4>3. nextPlayerId \notin DOMAIN players
        BY DEF SessionInv, PlayerIdsUsed, TypeOK
      <4>4. Cardinality(DOMAIN players') = Cardinality(DOMAIN players) + 1
        BY <2>1, <4>2, <4>3, FS_AddElement
      <4> QED BY <2>1, <4>1, <4>4, MaxPlayersAssumption DEF CapacityHolds, Full
    <3> QED BY <2>2, <3>1, <3>2 DEF HandleHandshake, RejectHandshake, sessionVars
  <2>3. ASSUME DOMAIN players' \subseteq DOMAIN players PROVE CapacityHolds'
    <3>1. Cardinality(DOMAIN players') <= Cardinality(DOMAIN players)
          /\ Cardinality(DOMAIN players') \in Nat
      BY <2>1, <2>3, FS_Subset, FS_CardinalityType
    <3> QED BY <2>1, <3>1, MaxPlayersAssumption DEF CapacityHolds
  <2>4. ASSUME NEW p \in Peers, HandleDisconnect(p) PROVE DOMAIN players' \subseteq DOMAIN players
    BY <2>4 DEF HandleDisconnect, Without
  <2>5. CASE Shutdown \/ Crash
    <3>1. DOMAIN players' = {}
      BY <2>5, EmptyMapFacts DEF Shutdown, Crash, FreshProcess
    <3> QED BY <3>1, <2>3
  <2>6. CASE UNCHANGED players
    BY <2>6 DEF CapacityHolds
  <2> QED BY <2>2, <2>3, <2>4, <2>5, <2>6
          DEF Next, SessionStep, EntityStep, ProcessStep, vars, sessionVars, HandleConnect,
              HandleDisconnectRequest, HandleAdminKick, KickPlayer, HandleEntitySpawnReq,
              HandleBuildRequest, HandleEntityDespawnReq, HandleBuildDismantle,
              HandlePositionUpdate, SaveWorld, Startup
<1> QED BY <1>1, <1>2, TypeCorrect, SessionsCorrect, PTL DEF Spec

\* The host role moves only when the host leaves or the process ends.
THEOREM HostAlwaysKeepsRole == Spec => HostKeepsRole
<1> DEFINE Step == host # 0 /\ host' # host => ~running' \/ host \notin DOMAIN players'
<1>1. TypeOK /\ SessionInv /\ [Next]_vars => [Step]_vars
  <2> SUFFICES ASSUME TypeOK, SessionInv, [Next]_vars, host # 0, host' # host
               PROVE  ~running' \/ host \notin DOMAIN players'
    OBVIOUS
  <2>1. ASSUME NEW p \in Peers, HandleDisconnect(p) PROVE host \notin DOMAIN players'
    BY <2>1 DEF HandleDisconnect, HostsAfter, Without
  <2>2. ASSUME NEW p \in Peers, HandleHandshake(p) PROVE FALSE
    BY <2>2 DEF HandleHandshake, RejectHandshake, AdmitPlayer, sessionVars
  <2>3. CASE Shutdown \/ Crash
    BY <2>3 DEF Shutdown, Crash
  <2> QED BY <2>1, <2>2, <2>3
          DEF Next, SessionStep, EntityStep, ProcessStep, vars, sessionVars, HandleConnect,
              HandleDisconnectRequest, HandleAdminKick, KickPlayer, HandleEntitySpawnReq,
              HandleBuildRequest, HandleEntityDespawnReq, HandleBuildDismantle,
              HandlePositionUpdate, SaveWorld, Startup
<1> QED BY <1>1, TypeCorrect, SessionsCorrect, PTL DEF Spec, HostKeepsRole

-----------------------------------------------------------------------------
(* Entity ids.  They stay fresh over saves, crashes and restarts in every       *)
(* process whose load was not cut short, whatever its file held and whatever    *)
(* the processes before it did.                                                 *)

\* What an untorn process holds has ids below its counter.
THEOREM IdsAlwaysFresh == Spec => []IdsFresh
<1>1. Init => IdsFresh
  <2> SUFFICES ASSUME Init PROVE IdsFresh
    OBVIOUS
  <2>1. DOMAIN entities = {}
    BY EmptyMapFacts DEF Init
  <2> QED BY <2>1 DEF IdsFresh
<1>2. TypeOK /\ IdsFresh /\ [Next]_vars => IdsFresh'
  <2> SUFFICES ASSUME TypeOK, IdsFresh, [Next]_vars PROVE IdsFresh'
    OBVIOUS
  <2>1. ASSUME NEW p \in Peers, NEW pos \in Positions, StoreEntity(p, pos), UNCHANGED torn
        PROVE  IdsFresh'
    <3>1. /\ nextEntityId \in Nat /\ nextEntityId' = nextEntityId + 1
          /\ \A e \in DOMAIN entities : e \in Nat
      BY <2>1, BoundsAssumption DEF StoreEntity, TypeOK, EntityId
    <3>2. \A e \in DOMAIN entities' : e = nextEntityId \/ e \in DOMAIN entities
      BY <2>1 DEF StoreEntity, Put
    <3> QED BY <2>1, <3>1, <3>2 DEF IdsFresh
  <2>2. ASSUME NEW K, entities' = Without(entities, K), UNCHANGED <<nextEntityId, torn>>
        PROVE  IdsFresh'
    <3>1. DOMAIN entities' \subseteq DOMAIN entities
      BY <2>2 DEF Without
    <3> QED BY <2>2, <3>1 DEF IdsFresh
  <2>3. ASSUME NEW p \in Peers, HandleDisconnect(p) PROVE IdsFresh'
    <3>1. CASE HasSession(p)
      BY <2>2, <2>3, <3>1 DEF HandleDisconnect, fileVars
    <3>2. CASE ~HasSession(p)
      BY <2>3, <3>2 DEF HandleDisconnect, IdsFresh, fileVars
    <3> QED BY <3>1, <3>2
  <2>4. ASSUME NEW p \in Peers, NEW e \in EntityId, HandlePositionUpdate(p, e) PROVE IdsFresh'
    <3>1. DOMAIN entities' = DOMAIN entities
      BY <2>4 DEF HandlePositionUpdate
    <3> QED BY <2>4, <3>1 DEF HandlePositionUpdate, IdsFresh, fileVars
  <2>5. CASE Shutdown \/ Crash
    <3>1. DOMAIN entities' = {}
      BY <2>5, EmptyMapFacts DEF Shutdown, Crash
    <3> QED BY <3>1 DEF IdsFresh
  <2>6. CASE Startup
    <3>1. PICK read \in SUBSET DOMAIN disk :
             (LoadComplete(read) \/ LoadThrows(read)) /\ entities' = Restore(read)
      BY <2>6 DEF Startup
    <3>2. CASE LoadComplete(read)
      <4>1. DOMAIN entities' \subseteq read
        BY <3>1 DEF Restore, Kept
      <4>2. \A e \in read : e < nextEntityId'
        BY <3>2 DEF LoadComplete
      <4> QED BY <4>1, <4>2 DEF IdsFresh
    <3>3. CASE LoadThrows(read)
      BY <3>3 DEF LoadThrows, IdsFresh
    <3> QED BY <3>1, <3>2, <3>3
  <2>7. CASE UNCHANGED <<entities, nextEntityId, torn>>
    BY <2>7 DEF IdsFresh
  <2> QED BY <2>1, <2>2, <2>3, <2>4, <2>5, <2>6, <2>7
          DEF Next, SessionStep, EntityStep, ProcessStep, vars, worldVars, fileVars, HandleConnect,
              HandleHandshake, HandleDisconnectRequest, HandleAdminKick, KickPlayer,
              HandleEntitySpawnReq, HandleBuildRequest, HandleEntityDespawnReq,
              HandleBuildDismantle, SaveWorld
<1> QED BY <1>1, <1>2, TypeCorrect, PTL DEF Spec

-----------------------------------------------------------------------------
(* A restart begins with an empty map. *)

DownIsEmpty == ~running => DOMAIN entities = {}

\* While the process is down it holds no entity.
LEMMA EmptyWhileDown == Spec => []DownIsEmpty
<1>1. Init => DownIsEmpty
  BY EmptyMapFacts DEF Init, DownIsEmpty
<1>2. DownIsEmpty /\ [Next]_vars => DownIsEmpty'
  <2> SUFFICES ASSUME DownIsEmpty, [Next]_vars PROVE DownIsEmpty'
    OBVIOUS
  <2>1. CASE Shutdown \/ Crash
    BY <2>1, EmptyMapFacts DEF Shutdown, Crash, DownIsEmpty
  <2>2. CASE SessionStep
    <3>1. running /\ running' = running
      BY <2>2 DEF SessionStep, FromPlayer, HandleConnect, HandleHandshake, HandleDisconnect,
                  HandleDisconnectRequest, HandleAdminKick, KickPlayer
    <3> QED BY <3>1 DEF DownIsEmpty
  <2>3. CASE EntityStep
    <3>1. running /\ running' = running
      BY <2>3 DEF EntityStep, FromPlayer, HandleEntitySpawnReq, HandleBuildRequest,
                  HandleEntityDespawnReq, HandleBuildDismantle, HandlePositionUpdate
    <3> QED BY <3>1 DEF DownIsEmpty
  <2>4. CASE SaveWorld
    <3>1. running /\ running' = running
      BY <2>4 DEF SaveWorld
    <3> QED BY <3>1 DEF DownIsEmpty
  <2>5. CASE Startup
    BY <2>5 DEF Startup, DownIsEmpty
  <2>6. CASE UNCHANGED vars
    BY <2>6 DEF vars, DownIsEmpty
  <2> QED BY <2>1, <2>2, <2>3, <2>4, <2>5, <2>6 DEF Next, ProcessStep
<1> QED BY <1>1, <1>2, PTL DEF Spec

-----------------------------------------------------------------------------
(* The entities claimed since the start have ids below the counter, whatever   *)
(* was loaded: a claim always takes an id that is not claimed.                 *)

ClaimsBelowNext == \A e \in Claimed : e < nextEntityId

\* No two claims of one run of the server share an id.
LEMMA ClaimsStayBelowNext == Spec => []ClaimsBelowNext
<1>1. Init => ClaimsBelowNext
  <2> SUFFICES ASSUME Init PROVE ClaimsBelowNext
    OBVIOUS
  <2>1. DOMAIN entities = {}
    BY EmptyMapFacts DEF Init
  <2> QED BY <2>1 DEF ClaimsBelowNext, Claimed
<1>2. TypeOK /\ ClaimsBelowNext /\ [Next]_vars => ClaimsBelowNext'
  <2> SUFFICES ASSUME TypeOK, ClaimsBelowNext, [Next]_vars PROVE ClaimsBelowNext'
    OBVIOUS
  <2>1. ASSUME NEW p \in Peers, NEW pos \in Positions, StoreEntity(p, pos)
        PROVE  ClaimsBelowNext'
    <3>1. /\ nextEntityId \in Nat /\ nextEntityId' = nextEntityId + 1
          /\ \A e \in DOMAIN entities : e \in Nat
      BY <2>1, BoundsAssumption DEF StoreEntity, TypeOK, EntityId
    <3>2. \A e \in DOMAIN entities' :
             e = nextEntityId \/ (e \in DOMAIN entities /\ entities'[e] = entities[e])
      BY <2>1 DEF StoreEntity, Put
    <3> QED BY <3>1, <3>2 DEF ClaimsBelowNext, Claimed
  <2>2. ASSUME NEW K, entities' = Without(entities, K), UNCHANGED nextEntityId
        PROVE  ClaimsBelowNext'
    <3>1. \A e \in DOMAIN entities' : e \in DOMAIN entities /\ entities'[e] = entities[e]
      BY <2>2 DEF Without
    <3> QED BY <2>2, <3>1 DEF ClaimsBelowNext, Claimed
  <2>3. ASSUME NEW p \in Peers, HandleDisconnect(p) PROVE ClaimsBelowNext'
    <3>1. CASE HasSession(p)
      BY <2>2, <2>3, <3>1 DEF HandleDisconnect
    <3>2. CASE ~HasSession(p)
      BY <2>3, <3>2 DEF HandleDisconnect, ClaimsBelowNext, Claimed
    <3> QED BY <3>1, <3>2
  <2>4. ASSUME NEW p \in Peers, NEW e \in EntityId, HandlePositionUpdate(p, e)
        PROVE  ClaimsBelowNext'
    <3>1. /\ DOMAIN entities' = DOMAIN entities
          /\ \A x \in DOMAIN entities : entities'[x].restored = entities[x].restored
      BY <2>4 DEF HandlePositionUpdate, TypeOK, Entity
    <3> QED BY <2>4, <3>1 DEF HandlePositionUpdate, ClaimsBelowNext, Claimed
  <2>5. CASE Shutdown \/ Crash
    <3>1. DOMAIN entities' = {}
      BY <2>5, EmptyMapFacts DEF Shutdown, Crash
    <3> QED BY <3>1 DEF ClaimsBelowNext, Claimed
  <2>6. CASE Startup
    <3>1. \A e \in DOMAIN entities' : entities'[e].restored
      BY <2>6 DEF Startup, Restore
    <3> QED BY <3>1 DEF ClaimsBelowNext, Claimed
  <2>7. CASE UNCHANGED <<entities, nextEntityId>>
    BY <2>7 DEF ClaimsBelowNext, Claimed
  <2> QED BY <2>1, <2>2, <2>3, <2>4, <2>5, <2>6, <2>7
          DEF Next, SessionStep, EntityStep, ProcessStep, vars, worldVars, HandleConnect,
              HandleHandshake, HandleDisconnectRequest, HandleAdminKick, KickPlayer,
              HandleEntitySpawnReq, HandleBuildRequest, HandleEntityDespawnReq,
              HandleBuildDismantle, SaveWorld
<1> QED BY <1>1, <1>2, TypeCorrect, PTL DEF Spec

-----------------------------------------------------------------------------
(* No id changes hands: a step either stores under the counter's id, which at   *)
(* worst an entity of a torn load has, or keeps the owner, or empties the map.  *)

\* An entity id has one owner for as long as it exists; only an entity restored by
\* a load that was cut short can be replaced.
THEOREM OwnerAlwaysStable == Spec => OwnerIsStable
<1> DEFINE Step == \A e \in DOMAIN entities \cap DOMAIN entities' :
                      entities'[e].owner = entities[e].owner \/ (torn /\ entities[e].restored)
<1>1. TypeOK /\ IdsFresh /\ ClaimsBelowNext /\ DownIsEmpty /\ [Next]_vars => [Step]_vars
  <2> SUFFICES ASSUME TypeOK, IdsFresh, ClaimsBelowNext, DownIsEmpty, [Next]_vars
               PROVE  Step \/ UNCHANGED vars
    OBVIOUS
  <2>1. ASSUME NEW p \in Peers, NEW pos \in Positions, StoreEntity(p, pos) PROVE Step
    <3>1. nextEntityId \in Nat /\ \A e \in DOMAIN entities : entities[e].restored \in BOOLEAN
      BY DEF TypeOK, Entity
    <3>2. \A e \in DOMAIN entities : e # nextEntityId \/ (torn /\ entities[e].restored)
      BY <3>1, BoundsAssumption DEF IdsFresh, ClaimsBelowNext, Claimed, TypeOK, EntityId
    <3>3. \A e \in DOMAIN entities : e # nextEntityId => entities'[e] = entities[e]
      BY <2>1 DEF StoreEntity, Put
    <3> QED BY <3>2, <3>3
  <2>2. ASSUME NEW K, entities' = Without(entities, K) PROVE Step
    BY <2>2 DEF Without
  <2>3. ASSUME NEW p \in Peers, NEW e \in EntityId, HandlePositionUpdate(p, e) PROVE Step
    BY <2>3 DEF HandlePositionUpdate, TypeOK, Entity
  <2>4. CASE Shutdown \/ Crash
    BY <2>4, EmptyMapFacts DEF Shutdown, Crash
  <2>5. CASE Startup
    BY <2>5 DEF Startup, DownIsEmpty
  <2>6. CASE UNCHANGED entities
    BY <2>6
  <2> QED BY <2>1, <2>2, <2>3, <2>4, <2>5, <2>6
          DEF Next, SessionStep, EntityStep, ProcessStep, vars, worldVars, HandleConnect,
              HandleHandshake, HandleDisconnect, HandleDisconnectRequest, HandleAdminKick,
              KickPlayer, HandleEntitySpawnReq, HandleBuildRequest, HandleEntityDespawnReq,
              HandleBuildDismantle, SaveWorld
<1> QED BY <1>1, TypeCorrect, IdsAlwaysFresh, ClaimsStayBelowNext, EmptyWhileDown, PTL
        DEF Spec, OwnerIsStable

-----------------------------------------------------------------------------
(* Every step of the server is a step of Authority, or none.                   *)

Holder == [e \in Claimed |-> entities[e].owner]

\* What a server step leaves of sessions, host and entities, Authority sees
\* unchanged.
LEMMA QuietSteps ==
    ASSUME UNCHANGED <<players, host, entities>>
    PROVE  UNCHANGED Auth!vars
BY DEF Auth!vars, Claimed

\* An accepted handshake is a Join.
LEMMA AdmissionIsJoin ==
    ASSUME TypeOK, SessionInv, NEW p \in Peers, NEW versionOk,
           AdmitPlayer(p, versionOk), UNCHANGED entities
    PROVE  \E m \in PlayerId : Auth!Join(m)
<1>1. /\ nextPlayerId \in PlayerId
      /\ players' = Put(players, nextPlayerId, p)
      /\ host' = IF host = 0 THEN nextPlayerId ELSE host
  BY DEF AdmitPlayer
<1>2. nextPlayerId \notin DOMAIN players
  BY DEF SessionInv, PlayerIdsUsed, TypeOK
<1>3. DOMAIN players' = DOMAIN players \cup {nextPlayerId}
  BY <1>1 DEF Put
<1>4. UNCHANGED Holder
  BY DEF Holder, Claimed
<1>5. Auth!Join(nextPlayerId)
  BY <1>1, <1>2, <1>3, <1>4 DEF Auth!Join, Holder
<1> QED BY <1>1, <1>5

\* A disconnect of a peer with a session is a Leave.
LEMMA DepartureIsLeave ==
    ASSUME TypeOK, SessionInv, NEW p \in Peers, HandleDisconnect(p), HasSession(p)
    PROVE  \E m \in PlayerId : Auth!Leave(m)
<1>0. PICK id \in PlayerId : id = data[p]
  BY DEF HasSession, TypeOK
<1> DEFINE rest == DOMAIN players \ {id}
<1>1. /\ id \in DOMAIN players
      /\ players' = Without(players, {id})
      /\ entities' = Without(entities, OwnedBy(id))
      /\ host' \in HostsAfter(id, rest)
  BY <1>0 DEF HandleDisconnect, HasSession
<1>2. DOMAIN players' = rest
  BY <1>1 DEF Without
<1>3. IF host # id THEN host' = host ELSE host' \in IF DOMAIN players' = {} THEN {0} ELSE DOMAIN players'
  BY <1>1, <1>2 DEF HostsAfter
<1>4. Holder' = [e \in {x \in DOMAIN Holder : Holder[x] # id} |-> Holder[e]]
  <2>1. Claimed' = {e \in Claimed : entities[e].owner # id}
        /\ \A e \in Claimed' : entities'[e].owner = entities[e].owner
    BY <1>1 DEF Claimed, Without, OwnedBy
  <2> QED BY <2>1 DEF Holder
<1>5. Auth!Leave(id)
  BY <1>1, <1>2, <1>3, <1>4 DEF Auth!Leave, Holder
<1> QED BY <1>1, <1>5

\* Storing a new entity, spawned or built, is a Claim.
LEMMA StoreIsClaim ==
    ASSUME TypeOK, ClaimsBelowNext, NEW p \in Peers, NEW pos, FromPlayer(p),
           StoreEntity(p, pos), UNCHANGED <<players, host>>
    PROVE  \E m \in PlayerId, e \in EntityId : Auth!Claim(m, e)
<1>0. PICK m \in PlayerId, id \in EntityId : m = data[p] /\ id = nextEntityId
  BY DEF StoreEntity, FromPlayer, HasSession, TypeOK
<1> DEFINE new == [owner |-> m, pos |-> pos, restored |-> FALSE]
<1>1. /\ id \in Nat /\ id = nextEntityId
      /\ entities' = Put(entities, id, new)
      /\ m \in DOMAIN players
  BY <1>0, BoundsAssumption DEF StoreEntity, FromPlayer, HasSession, EntityId
<1>2. id \notin Claimed
  BY <1>1 DEF ClaimsBelowNext
<1>3. /\ DOMAIN entities' = DOMAIN entities \cup {id}
      /\ entities'[id] = new
      /\ \A e \in DOMAIN entities \ {id} : entities'[e] = entities[e]
  BY <1>1 DEF Put
<1>4. new.owner = m /\ new.restored = FALSE
  OBVIOUS
<1>5. /\ Claimed' = Claimed \cup {id}
      /\ entities'[id].owner = m
      /\ \A e \in Claimed : entities'[e].owner = entities[e].owner
  BY <1>2, <1>3, <1>4 DEF Claimed
<1>6. Holder' = [x \in DOMAIN Holder \cup {id} |-> IF x = id THEN m ELSE Holder[x]]
  BY <1>2, <1>5 DEF Holder
<1>7. Auth!Claim(m, id)
  BY <1>1, <1>2, <1>6 DEF Auth!Claim, Holder
<1> QED BY <1>1, <1>7

\* Removing an entity at the owner's or the host's request is a Release; of a
\* restored entity nobody claims, it is no step at all.
LEMMA RemovalIsRelease ==
    ASSUME TypeOK, NEW p \in Peers, NEW e \in EntityId, FromPlayer(p), e \in DOMAIN entities,
           Owns(p, e) \/ data[p] = host, entities' = Without(entities, {e}),
           UNCHANGED <<players, host>>
    PROVE  (\E m \in PlayerId : Auth!Release(m, e)) \/ UNCHANGED Auth!vars
<1>1. data[p] \in DOMAIN players /\ data[p] \in PlayerId
  BY DEF FromPlayer, HasSession, TypeOK
<1>2. /\ Claimed' = Claimed \ {e}
      /\ \A x \in Claimed' : entities'[x].owner = entities[x].owner
  BY DEF Claimed, Without
<1>3. Holder' = [x \in DOMAIN Holder \ {e} |-> Holder[x]]
  BY <1>2 DEF Holder
<1>4. CASE e \in Claimed
  <2>1. data[p] \in {Holder[e], host}
    BY <1>4 DEF Owns, Holder
  <2>2. Auth!Release(data[p], e)
    BY <1>1, <1>3, <1>4, <2>1 DEF Auth!Release, Holder
  <2> QED BY <1>1, <2>2
<1>5. CASE e \notin Claimed
  <2>1. UNCHANGED Holder
    BY <1>3, <1>5 DEF Holder
  <2> QED BY <2>1 DEF Auth!vars, Holder
<1> QED BY <1>4, <1>5

\* A shutdown or a crash disbands the session.
LEMMA ExitIsDisband ==
    ASSUME FreshProcess, entities' = EmptyMap
    PROVE  Auth!Disband
<1>1. DOMAIN players' = {} /\ DOMAIN entities' = {} /\ host' = 0
  BY EmptyMapFacts DEF FreshProcess
<1>2. Claimed' = {}
  BY <1>1 DEF Claimed
<1> QED BY <1>1, <1>2 DEF Auth!Disband

\* The server implements Authority: for any number of peers, players and
\* entities, in any interleaving, over crashes and restarts.
THEOREM ServerImplementsAuthority == Spec => ImplementsAuthority
<1>1. Init => Auth!Init
  <2> SUFFICES ASSUME Init PROVE Auth!Init
    OBVIOUS
  <2>1. DOMAIN players = {} /\ DOMAIN entities = {} /\ host = 0
    BY EmptyMapFacts DEF Init
  <2>2. Claimed = {}
    BY <2>1 DEF Claimed
  <2> QED BY <2>1, <2>2 DEF Auth!Init
<1>2. TypeOK /\ SessionInv /\ ClaimsBelowNext /\ DownIsEmpty /\ [Next]_vars => [Auth!Next]_(Auth!vars)
  <2> SUFFICES ASSUME TypeOK, SessionInv, ClaimsBelowNext, DownIsEmpty, [Next]_vars
               PROVE  Auth!Next \/ UNCHANGED Auth!vars
    OBVIOUS
  <2>1. ASSUME NEW p \in Peers, HandleHandshake(p) PROVE Auth!Next \/ UNCHANGED Auth!vars
    <3>1. CASE \E versionOk \in BOOLEAN : RejectHandshake(p, versionOk)
      BY <2>1, <3>1, QuietSteps DEF HandleHandshake, RejectHandshake, sessionVars, worldVars
    <3>2. CASE \E versionOk \in BOOLEAN : AdmitPlayer(p, versionOk)
      BY <2>1, <3>2, AdmissionIsJoin DEF HandleHandshake, worldVars, Auth!Next
    <3> QED BY <2>1, <3>1, <3>2 DEF HandleHandshake
  <2>2. ASSUME NEW p \in Peers, HandleDisconnect(p) PROVE Auth!Next \/ UNCHANGED Auth!vars
    <3>1. CASE HasSession(p)
      BY <2>2, <3>1, DepartureIsLeave DEF Auth!Next
    <3>2. CASE ~HasSession(p)
      BY <2>2, <3>2, QuietSteps DEF HandleDisconnect
    <3> QED BY <3>1, <3>2
  <2>3. ASSUME NEW p \in Peers, NEW pos \in Positions,
               HandleEntitySpawnReq(p, pos) \/ HandleBuildRequest(p, pos)
        PROVE  Auth!Next \/ UNCHANGED Auth!vars
    <3>1. FromPlayer(p) /\ StoreEntity(p, pos) /\ UNCHANGED <<players, host>>
      BY <2>3 DEF HandleEntitySpawnReq, HandleBuildRequest, sessionVars
    <3> QED BY <3>1, StoreIsClaim DEF Auth!Next
  <2>4. ASSUME NEW p \in Peers, NEW e \in EntityId,
               HandleEntityDespawnReq(p, e) \/ HandleBuildDismantle(p, e)
        PROVE  Auth!Next \/ UNCHANGED Auth!vars
    <3>1. /\ FromPlayer(p) /\ e \in DOMAIN entities /\ (Owns(p, e) \/ data[p] = host)
          /\ entities' = Without(entities, {e}) /\ UNCHANGED <<players, host>>
      BY <2>4 DEF HandleEntityDespawnReq, HandleBuildDismantle, Owns, sessionVars
    <3> QED BY <3>1, RemovalIsRelease DEF Auth!Next
  <2>5. ASSUME NEW p \in Peers, NEW e \in EntityId, HandlePositionUpdate(p, e)
        PROVE  UNCHANGED Auth!vars
    <3>1. /\ DOMAIN entities' = DOMAIN entities /\ UNCHANGED <<players, host>>
          /\ \A x \in DOMAIN entities : /\ entities'[x].restored = entities[x].restored
                                        /\ entities'[x].owner = entities[x].owner
      BY <2>5 DEF HandlePositionUpdate, TypeOK, Entity, sessionVars
    <3>2. Claimed' = Claimed
      BY <3>1 DEF Claimed
    <3>3. UNCHANGED Holder
      BY <3>1, <3>2 DEF Holder, Claimed
    <3> QED BY <3>1, <3>3 DEF Auth!vars, Holder
  <2>6. CASE Shutdown \/ Crash
    BY <2>6, ExitIsDisband DEF Shutdown, Crash, Auth!Next
  <2>7. CASE Startup
    <3>1. DOMAIN entities = {} /\ UNCHANGED <<players, host>>
      BY <2>7 DEF Startup, DownIsEmpty, sessionVars
    <3>2. \A e \in DOMAIN entities' : entities'[e].restored
      BY <2>7 DEF Startup, Restore
    <3>3. Claimed = {} /\ Claimed' = {}
      BY <3>1, <3>2 DEF Claimed
    <3> QED BY <3>1, <3>3 DEF Auth!vars
  <2>8. CASE UNCHANGED <<players, host, entities>>
    BY <2>8, QuietSteps
  <2> QED BY <2>1, <2>2, <2>3, <2>4, <2>5, <2>6, <2>7, <2>8
          DEF Next, SessionStep, EntityStep, ProcessStep, vars, sessionVars, worldVars,
              HandleConnect, HandleDisconnectRequest, HandleAdminKick, KickPlayer, SaveWorld
<1> QED BY <1>1, <1>2, TypeCorrect, SessionsCorrect, ClaimsStayBelowNext, EmptyWhileDown, PTL
        DEF Spec, ImplementsAuthority, Auth!Spec

\* What Authority promises therefore holds of the server: every entity created
\* since the start is held by somebody connected, and somebody connected leads.
THEOREM ServerIsOrderly == Spec => []Auth!Orderly
<1>1. SessionInv => Auth!Orderly
  <2> SUFFICES ASSUME SessionInv PROVE Auth!Orderly
    OBVIOUS
  <2>1. host = 0 <=> DOMAIN players = {}
    BY DEF SessionInv, HostIsConnected
  <2>2. host # 0 => host \in DOMAIN players
    BY DEF SessionInv, HostIsConnected
  <2>3. \A e \in Claimed : entities[e].owner \in DOMAIN players
    BY DEF SessionInv, NoGhosts, Claimed
  <2> QED BY <2>1, <2>2, <2>3 DEF Auth!Orderly
<1> QED BY <1>1, SessionsCorrect, PTL
=============================================================================
