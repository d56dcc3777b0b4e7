------------------------ MODULE MasterRegistry_proofs -----------------------
(***************************************************************************)
(* A game server whose connection works is in the master's list, for any   *)
(* numbers of servers and slots and any faults. The argument is about      *)
(* time: an entry is never older than the interval between two heartbeats  *)
(* and the way of the next one, which the pruning time covers.             *)
(***************************************************************************)
EXTENDS MasterRegistry, TLAPS

-----------------------------------------------------------------------------
(* Queues of packets *)

LEMMA TailIsShorter ==
    ASSUME NEW S, NEW q \in Seq(S), q # <<>>
    PROVE  /\ Tail(q) \in Seq(S) /\ Len(q) \in Nat /\ Len(q) >= 1
           /\ Len(Tail(q)) = Len(q) - 1
           /\ \A i \in 1 .. Len(Tail(q)) : Tail(q)[i] = q[i + 1] /\ i + 1 \in 1 .. Len(q)
           /\ Head(q) = q[1] /\ q[1] \in S
  OBVIOUS

LEMMA AppendIsLonger ==
    ASSUME NEW S, NEW q \in Seq(S), NEW e \in S
    PROVE  /\ Append(q, e) \in Seq(S) /\ Len(q) \in Nat
           /\ Len(Append(q, e)) = Len(q) + 1
           /\ \A i \in 1 .. Len(q) : Append(q, e)[i] = q[i]
           /\ Append(q, e)[Len(q) + 1] = e
  OBVIOUS

LEMMA DelayKeepsPackets ==
    ASSUME NEW q \in Seq(Packet), \A i \in 1 .. Len(q) : q[i].wait < Delay
    PROVE  /\ Delayed(q) \in Seq(Packet)
           /\ Len(Delayed(q)) = Len(q)
           /\ \A i \in 1 .. Len(q) : /\ Delayed(q)[i].type = q[i].type
                                     /\ Delayed(q)[i].wait = q[i].wait + 1
<1>1. Len(q) \in Nat /\ \A i \in 1 .. Len(q) : q[i] \in Packet
  OBVIOUS
<1>2. \A i \in 1 .. Len(q) : [q[i] EXCEPT !.wait = @ + 1] \in Packet
  <2> SUFFICES ASSUME NEW i \in 1 .. Len(q) PROVE [q[i] EXCEPT !.wait = @ + 1] \in Packet
    OBVIOUS
  <2>1. q[i] \in Packet /\ q[i].wait < Delay
    BY <1>1
  <2>2. q[i].wait + 1 \in 0 .. Delay
    BY <2>1, TimesAssumption DEF Packet
  <2> QED BY <2>1, <2>2 DEF Packet
<1>3. Delayed(q) \in Seq(Packet) /\ Len(Delayed(q)) = Len(q)
  BY <1>1, <1>2 DEF Delayed
<1> QED BY <1>1, <1>3 DEF Delayed, Packet

-----------------------------------------------------------------------------
(* Types *)

\* The state of both sides is well typed; a connected server has a peer.
THEOREM TypeCorrect == Spec => []TypeOK
<1>1. Init => TypeOK
  <2> SUFFICES ASSUME Init PROVE TypeOK
    OBVIOUS
  <2>1. list = EmptyMap /\ held = EmptyMap
    BY DEF Init
  <2>2. inbox \in [Slots -> Seq(Packet)] /\ \A p \in Slots : inbox[p] = <<>>
    BY DEF Init
  <2>3. silence \in [Slots -> 0 .. DropAfter] /\ faults \in 0 .. MaxFaults
    BY MaxFaultsAssumption, TimesAssumption DEF Init
  <2>4. state \in [Servers -> State] /\ \A s \in Servers : state[s] # "connected"
    BY DEF Init, State
  <2> QED BY <2>1, <2>2, <2>3, <2>4 DEF Init, TypeOK, EmptyMap
<1>2. TypeOK /\ [Next]_vars => TypeOK'
  <2> SUFFICES ASSUME TypeOK, [Next]_vars PROVE TypeOK'
    OBVIOUS
  <2> USE NoSlotAssumption, MaxFaultsAssumption, TimesAssumption
  <2>1. CASE UNCHANGED vars
    BY <2>1 DEF TypeOK, vars, masterVars, linkVars, serverVars
  <2>2. ASSUME NEW s \in Servers, ConnectToMaster(s) PROVE TypeOK'
    BY <2>2 DEF ConnectToMaster, TypeOK, State, masterVars, linkVars
  <2>3. ASSUME NEW s \in Servers, Accept(s) PROVE TypeOK'
    BY <2>3 DEF Accept, TypeOK, Put, masterVars
  <2>4. ASSUME NEW s \in Servers, ConnectEvent(s) PROVE TypeOK'
    <3>1. /\ peer[s] \in Slots /\ inbox' \in [Slots -> Seq(Packet)]
          /\ \A p \in Slots \ DOMAIN held : inbox'[p] = <<>>
      <4>1. [type |-> "register", wait |-> 0] \in Packet
        BY DEF Packet
      <4>2. peer[s] \in Slots /\ peer[s] \in DOMAIN held
        BY <2>4 DEF ConnectEvent, TypeOK, Intact
      <4> QED BY <2>4, <4>1, <4>2, AppendIsLonger DEF ConnectEvent, Send, TypeOK
    <3> QED BY <2>4, <3>1 DEF ConnectEvent, TypeOK, State, masterVars
  <2>5. ASSUME NEW s \in Servers, SendMasterHeartbeat(s) PROVE TypeOK'
    <3>1. /\ inbox' \in [Slots -> Seq(Packet)]
          /\ \A p \in Slots \ DOMAIN held : inbox'[p] = <<>>
      <4>1. [type |-> "heartbeat", wait |-> 0] \in Packet
        BY DEF Packet
      <4> QED BY <2>5, <4>1, AppendIsLonger DEF SendMasterHeartbeat, Send, TypeOK, Intact
    <3> QED BY <2>5, <3>1 DEF SendMasterHeartbeat, TypeOK, masterVars
  <2>6. ASSUME NEW s \in Servers, DisconnectEvent(s) PROVE TypeOK'
    BY <2>6 DEF DisconnectEvent, TypeOK, State, masterVars, linkVars
  <2>7. ASSUME NEW s \in Servers, Reconnect(s) PROVE TypeOK'
    BY <2>7 DEF Reconnect, TypeOK, State, masterVars, linkVars
  <2>8. ASSUME NEW p \in Slots, HandlePacket(p) PROVE TypeOK'
    <3>1. inbox' \in [Slots -> Seq(Packet)]
      BY <2>8, TailIsShorter DEF HandlePacket, TypeOK
    <3>2. DOMAIN list' \subseteq Key /\ \A k \in DOMAIN list' : list'[k] \in Entry
      <4>0. held[p] \in Servers /\ p \in Slots
        BY <2>8 DEF HandlePacket, TypeOK
      <4>1. CASE HandleRegister(p)
        BY <4>0, <4>1 DEF HandleRegister, TypeOK, Put, Key, Entry
      <4>2. CASE HandleHeartbeat(p)
        <5>1. \A e \in Entry : [e EXCEPT !.age = 0] \in Entry
          BY DEF Entry
        <5>2. /\ DOMAIN list' = DOMAIN list
              /\ \A k \in DOMAIN list : list'[k] = list[k] \/ list'[k] = [list[k] EXCEPT !.age = 0]
          BY <4>2 DEF HandleHeartbeat
        <5> QED BY <5>1, <5>2 DEF TypeOK
      <4>3. CASE HandleDeregister(p)
        BY <4>3 DEF HandleDeregister, TypeOK, Without
      <4> QED BY <2>8, <4>1, <4>2, <4>3 DEF HandlePacket
    <3> QED BY <2>8, <3>1, <3>2 DEF HandlePacket, TypeOK, serverVars
  <2>9. ASSUME NEW p \in Slots, HandleDisconnect(p) PROVE TypeOK'
    BY <2>9 DEF HandleDisconnect, TypeOK, Without, serverVars
  <2>10. ASSUME NEW p \in Slots, LosePackets(p) PROVE TypeOK'
    BY <2>10 DEF LosePackets, TypeOK, masterVars, serverVars
  <2>11. CASE PruneStaleServers
    BY <2>11 DEF PruneStaleServers, TypeOK, Without, linkVars, serverVars
  <2>12. CASE MasterStarts
    BY <2>12 DEF MasterStarts, TypeOK, linkVars, serverVars
  <2>13. ASSUME NEW s \in Servers, Stop(s) \/ Crash(s) PROVE TypeOK'
    <3>1. /\ inbox' \in [Slots -> Seq(Packet)]
          /\ \A p \in Slots \ DOMAIN held : inbox'[p] = <<>>
      <4>1. [type |-> "deregister", wait |-> 0] \in Packet
        BY DEF Packet
      <4>2. \/ inbox' = inbox
            \/ /\ Intact(s)
               /\ inbox' = [inbox EXCEPT ![peer[s]] =
                              Append(@, [type |-> "deregister", wait |-> 0])]
        BY <2>13 DEF Stop, Crash, Send
      <4>3. CASE inbox' = inbox
        BY <4>3 DEF TypeOK
      <4>4. CASE Intact(s) /\ inbox' = [inbox EXCEPT ![peer[s]] =
                                          Append(@, [type |-> "deregister", wait |-> 0])]
        <5>1. peer[s] \in Slots /\ peer[s] \in DOMAIN held
          BY <4>4 DEF TypeOK, Intact
        <5>2. Append(inbox[peer[s]], [type |-> "deregister", wait |-> 0]) \in Seq(Packet)
          BY <4>1, <5>1, AppendIsLonger DEF TypeOK
        <5> QED BY <4>4, <5>1, <5>2 DEF TypeOK
      <4> QED BY <4>2, <4>3, <4>4
    <3>2. Ends(s)
      BY <2>13 DEF Stop, Crash
    <3>3. cut' \subseteq DOMAIN held
      BY <3>2 DEF Ends, TypeOK, Intact
    <3> QED BY <3>1, <3>2, <3>3 DEF Ends, TypeOK, State, masterVars
  <2>14. ASSUME NEW p \in Slots, CutConnection(p) PROVE TypeOK'
    BY <2>14 DEF CutConnection, TypeOK, masterVars, serverVars
  <2>15. CASE MasterEnds
    <3>1. list' = EmptyMap /\ held' = EmptyMap /\ cut' = {} /\ UNCHANGED serverVars
      BY <2>15 DEF MasterEnds
    <3>2. inbox' \in [Slots -> Seq(Packet)] /\ \A p \in Slots : inbox'[p] = <<>>
      BY <2>15 DEF MasterEnds
    <3>3. silence' \in [Slots -> 0 .. DropAfter] /\ faults' \in 0 .. MaxFaults /\ up' \in BOOLEAN
      <4>1. 0 \in 0 .. DropAfter /\ silence' = [p \in Slots |-> 0]
        BY <2>15 DEF MasterEnds
      <4>2. faults' = faults + 1 /\ faults \in 0 .. MaxFaults /\ faults < MaxFaults /\ up' = FALSE
        BY <2>15 DEF MasterEnds, TypeOK
      <4>3. silence' \in [Slots -> 0 .. DropAfter]
        BY <4>1
      <4>4. faults' \in 0 .. MaxFaults
        BY <4>2
      <4> QED BY <4>2, <4>3, <4>4
    <3> QED BY <3>1, <3>2, <3>3 DEF TypeOK, EmptyMap, serverVars
  <2>16. CASE Tick
    <3>1. inbox' \in [Slots -> Seq(Packet)]
      <4>1. ASSUME NEW p \in Slots, p \notin cut, p \in DOMAIN held PROVE Delayed(inbox[p]) \in Seq(Packet)
        BY <2>16, <4>1, DelayKeepsPackets DEF Tick, TypeOK
      <4>2. ASSUME NEW p \in Slots, p \notin DOMAIN held PROVE Delayed(inbox[p]) \in Seq(Packet)
        BY <4>2 DEF TypeOK, Delayed
      <4> QED BY <2>16, <4>1, <4>2 DEF Tick, TypeOK
    <3>2. DOMAIN list' \subseteq Key /\ \A k \in DOMAIN list' : list'[k] \in Entry
      <4>1. \A e \in Entry : Older(e) \in Entry
        BY DEF Older, Entry
      <4> QED BY <2>16, <4>1 DEF Tick, TypeOK
    <3>3. silence' \in [Slots -> 0 .. DropAfter]
      BY <2>16 DEF Tick, TypeOK
    <3>4. \A p \in Slots \ DOMAIN held : inbox'[p] = <<>>
      BY <2>16 DEF Tick, TypeOK, Delayed
    <3>5. sinceBeat' \in [Servers -> {0, 1}]
      BY <2>16 DEF Tick, TypeOK
    <3> QED BY <2>16, <3>1, <3>2, <3>3, <3>4, <3>5 DEF Tick, TypeOK
  <2> QED BY <2>1, <2>2, <2>3, <2>4, <2>5, <2>6, <2>7, <2>8, <2>9, <2>10, <2>11, <2>12,
             <2>13, <2>14, <2>15, <2>16 DEF Next, LinkStep, Fault
<1> QED BY <1>1, <1>2, PTL DEF Spec

-----------------------------------------------------------------------------
(* Entries and connections *)

\* An entry's peer is always a connection the master has, of the very server that
\* registered the entry: no event finds the entry of somebody else.
THEOREM EntriesHeld == Spec => []EntriesAreHeld
<1>1. Init => EntriesAreHeld
  BY DEF Init, EntriesAreHeld, EmptyMap
<1>2. TypeOK /\ EntriesAreHeld /\ [Next]_vars => EntriesAreHeld'
  <2> SUFFICES ASSUME TypeOK, EntriesAreHeld, [Next]_vars PROVE EntriesAreHeld'
    OBVIOUS
  <2>1. ASSUME NEW s \in Servers, Accept(s) PROVE EntriesAreHeld'
    BY <2>1 DEF Accept, EntriesAreHeld, Put, masterVars
  <2>2. ASSUME NEW p \in Slots, HandlePacket(p) PROVE EntriesAreHeld'
    <3>1. held' = held /\ p \in DOMAIN held
      BY <2>2 DEF HandlePacket
    <3>2. CASE HandleRegister(p)
      BY <3>1, <3>2 DEF HandleRegister, EntriesAreHeld, Put
    <3>3. CASE HandleHeartbeat(p)
      <4>1. DOMAIN list' = DOMAIN list /\ \A k \in DOMAIN list : list'[k].peer = list[k].peer
        <5>1. \A k \in DOMAIN list : list[k] \in Entry
          BY DEF TypeOK
        <5> QED BY <3>3, <5>1 DEF HandleHeartbeat, Entry
      <4> QED BY <3>1, <4>1 DEF EntriesAreHeld
    <3>4. CASE HandleDeregister(p)
      BY <3>1, <3>4 DEF HandleDeregister, EntriesAreHeld, Without
    <3> QED BY <2>2, <3>2, <3>3, <3>4 DEF HandlePacket
  <2>3. ASSUME NEW p \in Slots, HandleDisconnect(p) PROVE EntriesAreHeld'
    BY <2>3 DEF HandleDisconnect, EntriesAreHeld, EntriesOf, Without
  <2>4. CASE PruneStaleServers
    BY <2>4 DEF PruneStaleServers, EntriesAreHeld, Without, linkVars
  <2>5. CASE MasterEnds
    BY <2>5 DEF MasterEnds, EntriesAreHeld, EmptyMap
  <2>6. CASE Tick
    <3>1. DOMAIN list' = DOMAIN list /\ \A k \in DOMAIN list : list'[k].peer = list[k].peer
      BY <2>6 DEF Tick, Older, TypeOK, Entry
    <3> QED BY <2>6, <3>1 DEF Tick, EntriesAreHeld
  <2>7. CASE UNCHANGED <<list, held>>
    BY <2>7 DEF EntriesAreHeld
  <2> QED BY <2>1, <2>2, <2>3, <2>4, <2>5, <2>6, <2>7
          DEF Next, LinkStep, Fault, ConnectToMaster, ConnectEvent, SendMasterHeartbeat,
              DisconnectEvent, Reconnect, LosePackets, MasterStarts, Stop, Crash, Ends,
              CutConnection, vars, masterVars, linkVars
<1> QED BY <1>1, <1>2, TypeCorrect, PTL DEF Spec

\* Nothing is under way on a connection that its server has given up for a new one,
\* and no farewell on one that works.
OldIsSilent == \A q \in DOMAIN held : peer[held[q]] \in {NoSlot, q} \/ inbox[q] = <<>>
NoFarewell ==
    \A p \in DOMAIN held \ cut : \A i \in 1 .. Len(inbox[p]) : inbox[p][i].type # "deregister"

\* What is under way to the master, in every reachable state.
THEOREM LinksCorrect == Spec => [](OldIsSilent /\ NoFarewell)
<1>1. Init => OldIsSilent /\ NoFarewell
  BY DEF Init, OldIsSilent, NoFarewell, EmptyMap
<1>2. TypeOK /\ TypeOK' /\ OldIsSilent /\ NoFarewell /\ [Next]_vars => OldIsSilent' /\ NoFarewell'
  <2> SUFFICES ASSUME TypeOK, TypeOK', OldIsSilent, NoFarewell, [Next]_vars
               PROVE  OldIsSilent' /\ NoFarewell'
    OBVIOUS
  <2>1. ASSUME NEW s \in Servers, Accept(s) PROVE OldIsSilent' /\ NoFarewell'
    <3>1. PICK p \in Slots \ DOMAIN held :
             held' = Put(held, p, s) /\ peer' = [peer EXCEPT ![s] = p]
      BY <2>1 DEF Accept
    <3>2. inbox[p] = <<>> /\ UNCHANGED <<inbox, cut>> /\ peer \in [Servers -> Slots \cup {NoSlot}]
      BY <2>1, <3>1 DEF Accept, TypeOK
    <3>3. OldIsSilent'
      BY <2>1, <3>1, <3>2 DEF Accept, OldIsSilent, Put, TypeOK
    <3>4. NoFarewell'
      BY <3>1, <3>2 DEF NoFarewell, Put
    <3> QED BY <3>3, <3>4
  <2>2. ASSUME NEW s \in Servers, ConnectEvent(s) \/ SendMasterHeartbeat(s)
        PROVE  OldIsSilent' /\ NoFarewell'
    <3>1. UNCHANGED <<held, cut, peer>>
      BY <2>2 DEF ConnectEvent, SendMasterHeartbeat
    <3>2. PICK e \in Packet : /\ e.type # "deregister"
                              /\ \/ inbox' = inbox
                                 \/ Intact(s) /\ inbox' = [inbox EXCEPT ![peer[s]] = Append(@, e)]
      <4>1. /\ [type |-> "register", wait |-> 0] \in Packet
            /\ [type |-> "heartbeat", wait |-> 0] \in Packet
        BY TimesAssumption DEF Packet
      <4>2. CASE ConnectEvent(s)
        BY <4>1, <4>2 DEF ConnectEvent, Send
      <4>3. CASE SendMasterHeartbeat(s)
        BY <4>1, <4>3 DEF SendMasterHeartbeat, Send
      <4> QED BY <2>2, <4>2, <4>3
    <3>3. CASE inbox' = inbox
      BY <3>1, <3>3 DEF OldIsSilent, NoFarewell
    <3>4. CASE Intact(s) /\ inbox' = [inbox EXCEPT ![peer[s]] = Append(@, e)]
      <4>1. peer[s] \in Slots /\ peer[s] \in DOMAIN held /\ held[peer[s]] = s
        BY <3>4 DEF Intact, TypeOK
      <4>2. inbox'[peer[s]] = Append(inbox[peer[s]], e) /\ inbox[peer[s]] \in Seq(Packet)
        BY <3>4, <4>1 DEF TypeOK
      <4>3. \A q \in Slots : q # peer[s] => inbox'[q] = inbox[q]
        BY <3>4, <4>1 DEF TypeOK
      <4>4. OldIsSilent'
        BY <3>1, <4>1, <4>3 DEF OldIsSilent, TypeOK
      <4>5. NoFarewell'
        <5>1. ASSUME NEW i \in 1 .. Len(inbox'[peer[s]]), peer[s] \notin cut
              PROVE  inbox'[peer[s]][i].type # "deregister"
          <6>1. i \in 1 .. Len(inbox[peer[s]]) \/ i = Len(inbox[peer[s]]) + 1
            BY <4>2, AppendIsLonger
          <6> QED BY <3>2, <4>1, <4>2, <5>1, <6>1, AppendIsLonger DEF NoFarewell
        <5> QED BY <3>1, <4>3, <5>1 DEF NoFarewell, TypeOK
      <4> QED BY <4>4, <4>5
    <3> QED BY <3>2, <3>3, <3>4
  <2>3. ASSUME NEW s \in Servers, DisconnectEvent(s) PROVE OldIsSilent' /\ NoFarewell'
    BY <2>3 DEF DisconnectEvent, linkVars, OldIsSilent, NoFarewell, TypeOK
  <2>4. ASSUME NEW s \in Servers, Stop(s) \/ Crash(s) PROVE OldIsSilent' /\ NoFarewell'
    <3>1. held' = held /\ peer' = [peer EXCEPT ![s] = NoSlot]
      BY <2>4 DEF Stop, Crash, Ends
    <3>2. \A q \in Slots : q \in DOMAIN held /\ q \notin cut' => inbox'[q] = inbox[q] /\ q \notin cut
      BY <2>4 DEF Stop, Crash, Ends, Send, TypeOK
    <3>3. \A q \in Slots : inbox'[q] = inbox[q] \/ (q \in DOMAIN held /\ held[q] = s)
      BY <2>4 DEF Stop, Crash, Ends, Send, Intact, TypeOK
    <3>4. OldIsSilent'
      BY <3>1, <3>3 DEF OldIsSilent, TypeOK
    <3>5. NoFarewell'
      BY <3>1, <3>2 DEF NoFarewell, TypeOK
    <3> QED BY <3>4, <3>5
  <2>5. ASSUME NEW p \in Slots, HandlePacket(p) PROVE OldIsSilent' /\ NoFarewell'
    <3>1. /\ UNCHANGED <<held, cut, peer>> /\ inbox[p] # <<>> /\ inbox[p] \in Seq(Packet)
          /\ inbox' = [inbox EXCEPT ![p] = Tail(@)]
      BY <2>5 DEF HandlePacket, serverVars, TypeOK
    <3>2. OldIsSilent'
      BY <3>1 DEF OldIsSilent, TypeOK
    <3>3. NoFarewell'
      BY <3>1, TailIsShorter DEF NoFarewell, TypeOK
    <3> QED BY <3>2, <3>3
  <2>6. ASSUME NEW p \in Slots, HandleDisconnect(p) PROVE OldIsSilent' /\ NoFarewell'
    BY <2>6 DEF HandleDisconnect, Without, serverVars, OldIsSilent, NoFarewell, TypeOK
  <2>7. ASSUME NEW p \in Slots, LosePackets(p) PROVE OldIsSilent' /\ NoFarewell'
    BY <2>7 DEF LosePackets, serverVars, OldIsSilent, NoFarewell, TypeOK
  <2>8. ASSUME NEW p \in Slots, CutConnection(p) PROVE OldIsSilent' /\ NoFarewell'
    BY <2>8 DEF CutConnection, serverVars, OldIsSilent, NoFarewell, TypeOK
  <2>9. CASE MasterEnds
    BY <2>9 DEF MasterEnds, OldIsSilent, NoFarewell, EmptyMap
  <2>10. CASE Tick
    <3>1. UNCHANGED <<held, cut, peer>>
      BY <2>10 DEF Tick
    <3>2. ASSUME NEW p \in DOMAIN held
          PROVE  /\ inbox[p] = <<>> => inbox'[p] = <<>>
                 /\ p \notin cut => /\ Len(inbox'[p]) = Len(inbox[p])
                                    /\ \A i \in 1 .. Len(inbox[p]) :
                                          inbox'[p][i].type = inbox[p][i].type
      <4>1. inbox[p] \in Seq(Packet) /\ p \in Slots
        BY DEF TypeOK
      <4>2. CASE p \in cut
        BY <2>10, <4>1, <4>2 DEF Tick
      <4>3. CASE p \notin cut
        <5>1. inbox'[p] = Delayed(inbox[p])
          BY <2>10, <4>1, <4>3 DEF Tick
        <5>2. inbox[p] = <<>> => Delayed(inbox[p]) = <<>>
          BY DEF Delayed
        <5> QED BY <2>10, <4>1, <4>3, <5>1, <5>2, DelayKeepsPackets DEF Tick
      <4> QED BY <4>2, <4>3
    <3> QED BY <3>1, <3>2 DEF OldIsSilent, NoFarewell
  <2>11. CASE UNCHANGED <<held, cut, peer, inbox>>
    BY <2>11 DEF OldIsSilent, NoFarewell
  <2> QED BY <2>1, <2>2, <2>3, <2>4, <2>5, <2>6, <2>7, <2>8, <2>9, <2>10, <2>11
          DEF Next, LinkStep, Fault, ConnectToMaster, Reconnect, PruneStaleServers, MasterStarts,
              vars, linkVars, serverVars
<1> QED BY <1>1, <1>2, TypeCorrect, PTL DEF Spec

-----------------------------------------------------------------------------
(* Connected servers are listed. *)

\* The age of a server's entry: while nothing is under way, at most the time since
\* its last heartbeat; otherwise at most one interval and the way so far of the
\* packet that arrives next.
InTime(s) ==
    LET age == list[RegisterKey[s]].age
        q == inbox[peer[s]]
    IN  age <= IF q = <<>> THEN sinceBeat[s] ELSE 1 + q[1].wait

ListedInTime ==
    \A s \in Servers \ Outdated :
       Registered(s) => /\ RegisterKey[s] \in DOMAIN list
                        /\ list[RegisterKey[s]].peer = peer[s]
                        /\ InTime(s)

\* A server none of whose variables change stays listed in time.
LEMMA ListedStays ==
    ASSUME ListedInTime, NEW s \in Servers \ Outdated,
           Registered(s), peer'[s] = peer[s], sinceBeat'[s] = sinceBeat[s],
           inbox'[peer[s]] = inbox[peer[s]],
           RegisterKey[s] \in DOMAIN list =>
              RegisterKey[s] \in DOMAIN list' /\ list'[RegisterKey[s]] = list[RegisterKey[s]]
    PROVE  /\ RegisterKey[s] \in DOMAIN list'
           /\ list'[RegisterKey[s]].peer = peer'[s]
           /\ InTime(s)'
  BY DEF ListedInTime, InTime

\* The time that an entry has left covers the heartbeat that is due.
LEMMA InTimeIsFresh ==
    ASSUME TypeOK, ListedInTime, NEW s \in Servers \ Outdated, Registered(s)
    PROVE  list[RegisterKey[s]].age <= PruneAfter
<1>1. peer[s] \in Slots /\ inbox[peer[s]] \in Seq(Packet) /\ sinceBeat[s] \in {0, 1}
  BY DEF TypeOK, Registered, Intact
<1>2. list[RegisterKey[s]].age \in Nat /\ InTime(s)
  BY DEF TypeOK, ListedInTime, Entry
<1>3. CASE inbox[peer[s]] = <<>>
  <2>1. list[RegisterKey[s]].age <= sinceBeat[s]
    BY <1>2, <1>3 DEF InTime
  <2> QED BY <1>1, <1>2, <2>1, TimesAssumption
<1>4. CASE inbox[peer[s]] # <<>>
  <2>1. inbox[peer[s]][1] \in Packet
    BY <1>1, <1>4
  <2>2. inbox[peer[s]][1].wait \in Nat /\ inbox[peer[s]][1].wait <= Delay
    BY <2>1, TimesAssumption DEF Packet
  <2> QED BY <1>2, <1>4, <2>2, TimesAssumption DEF InTime
<1> QED BY <1>3, <1>4

\* A packet arrives: it makes its sender's entry young, or its sender listed.
LEMMA PacketKeepsListed ==
    ASSUME TypeOK, TypeOK', OldIsSilent, NoFarewell, ListedInTime,
           NEW p \in Slots, HandlePacket(p)
    PROVE  ListedInTime'
<1> SUFFICES ASSUME NEW s \in Servers \ Outdated, Registered(s)'
             PROVE  /\ RegisterKey[s] \in DOMAIN list'
                    /\ list'[RegisterKey[s]].peer = peer'[s]
                    /\ InTime(s)'
  BY DEF ListedInTime
<1> DEFINE k == RegisterKey[s]
           t == held[p]
<1>1. UNCHANGED <<held, cut, state, peer, sinceBeat>>
  BY DEF HandlePacket, serverVars
<1>2. /\ Intact(s) /\ state[s] = "connected" /\ peer[s] \in Slots /\ t \in Servers
      /\ p \in DOMAIN held /\ k \in Key /\ RegisterKey[t] \in Key
      /\ sinceBeat[s] \in {0, 1}
  BY <1>1 DEF Registered, Intact, HandlePacket, TypeOK, Key
<1>3. /\ inbox[p] \in Seq(Packet) /\ inbox[p] # <<>>
      /\ inbox' = [inbox EXCEPT ![p] = Tail(@)]
  BY DEF HandlePacket, TypeOK
<1>4. CASE p = peer[s]
  <2>1. t = s
    BY <1>2, <1>4 DEF Intact
  <2>2. inbox'[p] = Tail(inbox[p]) /\ inbox[p][1] = Head(inbox[p])
    BY <1>2, <1>3, <1>4, TailIsShorter DEF TypeOK
  <2>3. /\ k \in DOMAIN list' /\ list'[k].peer = p /\ list'[k].age = 0
    <3>1. CASE HandleRegister(p)
      BY <2>1, <3>1 DEF HandleRegister, Put
    <3>2. CASE HandleHeartbeat(p) /\ Head(inbox[p]).type = "heartbeat"
      <4>1. Registered(s)
        <5>1. ASSUME NEW i \in 1 .. Len(inbox[p]) PROVE inbox[p][i].type # "register"
          <6>1. CASE i = 1
            BY <2>2, <3>2, <6>1
          <6>2. CASE i # 1
            <7>1. i - 1 \in 1 .. Len(Tail(inbox[p])) /\ Tail(inbox[p])[i - 1] = inbox[p][i]
              BY <1>3, <6>2, TailIsShorter
            <7> QED BY <1>1, <1>4, <2>2, <7>1 DEF Registered
          <6> QED BY <6>1, <6>2
        <5> QED BY <1>2, <1>4, <5>1 DEF Registered
      <4>2. k \in DOMAIN list /\ list[k].peer = p /\ list[k] \in Entry
        BY <1>4, <4>1 DEF ListedInTime, TypeOK
      <4>3. HeartbeatKey[s] \in DOMAIN list => HeartbeatKey[s] = k
        BY KeysAssumption DEF TypeOK, Key
      <4> QED BY <2>1, <3>2, <4>2, <4>3 DEF HandleHeartbeat, Entry
    <3>3. Head(inbox[p]).type # "deregister"
      <4>1. 1 \in 1 .. Len(inbox[p])
        BY <1>3, TailIsShorter
      <4> QED BY <1>2, <1>4, <2>2, <4>1 DEF NoFarewell, Intact
    <3> QED BY <3>1, <3>2, <3>3 DEF HandlePacket
  <2>4. InTime(s)'
    <3>1. CASE inbox'[p] = <<>>
      BY <1>1, <1>2, <1>4, <2>3, <3>1 DEF InTime
    <3>2. CASE inbox'[p] # <<>>
      <4>1. inbox'[p][1] \in Packet
        BY <3>2 DEF TypeOK
      <4>2. inbox'[p][1].wait \in Nat
        BY <4>1, TimesAssumption DEF Packet
      <4> QED BY <1>1, <1>4, <2>3, <3>2, <4>2 DEF InTime
    <3> QED BY <3>1, <3>2
  <2> QED BY <1>1, <1>4, <2>3, <2>4
<1>5. CASE p # peer[s]
  <2>1. inbox'[peer[s]] = inbox[peer[s]]
    BY <1>2, <1>3, <1>5 DEF TypeOK
  <2>2. Registered(s)
    BY <1>1, <2>1 DEF Registered, Intact
  <2>3. k \in DOMAIN list /\ list[k].peer = peer[s] /\ InTime(s) /\ list[k] \in Entry
    BY <2>2 DEF ListedInTime, TypeOK
  <2>4. t # s
    BY <1>2, <1>3, <1>5, NoSlotAssumption DEF OldIsSilent
  <2>5. CASE HandleRegister(p)
    <3>1. RegisterKey[t] # k
      BY <1>2, <2>4, KeysAssumption
    <3> QED BY <1>1, <2>1, <2>2, <2>5, <3>1, ListedStays DEF HandleRegister, Put
  <2>6. CASE HandleHeartbeat(p)
    <3>1. HeartbeatKey[t] # k
      BY <1>2, <2>4, KeysAssumption
    <3>2. k \in DOMAIN list' /\ list'[k] = list[k]
      BY <1>5, <2>3, <2>6, <3>1 DEF HandleHeartbeat
    <3> QED BY <1>1, <2>1, <2>2, <3>2, ListedStays
  <2>7. CASE HandleDeregister(p)
    BY <1>1, <1>5, <2>1, <2>2, <2>3, <2>7, ListedStays DEF HandleDeregister, EntriesOf, Without
  <2> QED BY <2>5, <2>6, <2>7 DEF HandlePacket
<1> QED BY <1>4, <1>5

\* Time passes: whatever is due has happened, so nobody gets too old.
LEMMA TickKeepsListed ==
    ASSUME TypeOK, TypeOK', ListedInTime, Tick
    PROVE  ListedInTime'
<1> SUFFICES ASSUME NEW s \in Servers \ Outdated, Registered(s)'
             PROVE  /\ RegisterKey[s] \in DOMAIN list'
                    /\ list'[RegisterKey[s]].peer = peer'[s]
                    /\ InTime(s)'
  BY DEF ListedInTime
<1> DEFINE k == RegisterKey[s]
           q == inbox[peer[s]]
<1>1. UNCHANGED <<held, cut, state, peer>>
  BY DEF Tick
<1>2. /\ peer[s] \in Slots /\ peer[s] \in DOMAIN held \ cut /\ Intact(s)
      /\ state[s] = "connected" /\ q \in Seq(Packet)
  BY <1>1 DEF Registered, Intact, TypeOK
<1>3. /\ inbox'[peer[s]] = Delayed(q)
      /\ \A i \in 1 .. Len(q) : q[i].wait < Delay
  BY <1>2 DEF Tick
<1>4. /\ Len(Delayed(q)) = Len(q)
      /\ \A i \in 1 .. Len(q) : Delayed(q)[i].type = q[i].type /\ Delayed(q)[i].wait = q[i].wait + 1
  BY <1>2, <1>3, DelayKeepsPackets
<1>5. Registered(s)
  BY <1>1, <1>2, <1>3, <1>4 DEF Registered
<1>6. k \in DOMAIN list /\ list[k].peer = peer[s] /\ InTime(s) /\ list[k] \in Entry
  BY <1>5 DEF ListedInTime, TypeOK
<1>7. k \in DOMAIN list' /\ list'[k].peer = peer'[s] /\ list'[k].age <= list[k].age + 1
  BY <1>1, <1>6, TimesAssumption DEF Tick, Older, Entry
<1>8. list[k].age \in Nat /\ list'[k].age \in Nat
  BY <1>6, <1>7 DEF TypeOK, Entry
<1>9. sinceBeat[s] = 0 /\ sinceBeat'[s] = 1
  BY <1>2 DEF Tick
<1>10. CASE q = <<>>
  <2>1. inbox'[peer[s]] = <<>>
    BY <1>3, <1>10 DEF Delayed
  <2> QED BY <1>1, <1>6, <1>7, <1>8, <1>9, <1>10, <2>1 DEF InTime
<1>11. CASE q # <<>>
  <2>1. Len(q) \in Nat /\ Len(q) >= 1 /\ q[1] \in Packet
    BY <1>2, <1>11
  <2>2. inbox'[peer[s]] # <<>> /\ inbox'[peer[s]][1].wait = q[1].wait + 1 /\ q[1].wait \in Nat
    BY <1>3, <1>4, <2>1, TimesAssumption DEF Packet
  <2>3. list[k].age <= 1 + q[1].wait
    BY <1>6, <1>11 DEF InTime
  <2> QED BY <1>1, <1>7, <1>8, <2>2, <2>3 DEF InTime
<1> QED BY <1>10, <1>11

\* The list never loses a server whose connection works: neither through the
\* DISCONNECT of an earlier connection, nor through another server, nor by pruning.
THEOREM ServerListed == Spec => []ConnectedMeansListed
<1>1. Init => ListedInTime
  BY DEF Init, ListedInTime, Registered
<1>2. TypeOK /\ TypeOK' /\ OldIsSilent /\ NoFarewell /\ ListedInTime /\ [Next]_vars
        => ListedInTime'
  <2> SUFFICES ASSUME TypeOK, TypeOK', OldIsSilent, NoFarewell, ListedInTime, [Next]_vars
               PROVE  ListedInTime'
    OBVIOUS
  <2>1. ASSUME NEW t \in Servers, Accept(t) PROVE ListedInTime'
    <3> SUFFICES ASSUME NEW s \in Servers \ Outdated, Registered(s)'
                 PROVE  /\ RegisterKey[s] \in DOMAIN list'
                        /\ list'[RegisterKey[s]].peer = peer'[s]
                        /\ InTime(s)'
      BY DEF ListedInTime
    <3>1. state[s] = "connected" /\ state[t] = "connecting" /\ s # t
      BY <2>1 DEF Accept, Registered
    <3>2. peer'[s] = peer[s] /\ UNCHANGED <<list, inbox, sinceBeat, cut>>
      BY <2>1, <3>1 DEF Accept, masterVars, TypeOK
    <3>3. Registered(s)
      BY <2>1, <3>1, <3>2 DEF Accept, Registered, Intact, Put
    <3> QED BY <3>2, <3>3, ListedStays
  <2>2. ASSUME NEW t \in Servers, ConnectEvent(t) PROVE ListedInTime'
    <3> SUFFICES ASSUME NEW s \in Servers \ Outdated, Registered(s)'
                 PROVE  /\ RegisterKey[s] \in DOMAIN list'
                        /\ list'[RegisterKey[s]].peer = peer'[s]
                        /\ InTime(s)'
      BY DEF ListedInTime
    <3>1. /\ UNCHANGED <<list, held, cut, peer, sinceBeat>> /\ Intact(t) /\ peer[t] \in Slots
          /\ inbox' = [inbox EXCEPT ![peer[t]] = Append(@, [type |-> "register", wait |-> 0])]
          /\ inbox[peer[t]] \in Seq(Packet) /\ [type |-> "register", wait |-> 0] \in Packet
      BY <2>2, TimesAssumption DEF ConnectEvent, Send, Intact, masterVars, TypeOK, Packet
    <3>2. s # t
      <4>1. inbox'[peer[t]] = Append(inbox[peer[t]], [type |-> "register", wait |-> 0])
        BY <3>1 DEF TypeOK
      <4>2. /\ Len(inbox[peer[t]]) + 1 \in 1 .. Len(inbox'[peer[t]])
            /\ inbox'[peer[t]][Len(inbox[peer[t]]) + 1].type = "register"
        BY <3>1, <4>1, AppendIsLonger
      <4> QED BY <3>1, <4>2 DEF Registered
    <3>3. state[s] = "connected" /\ Intact(s)
      BY <2>2, <3>1, <3>2 DEF ConnectEvent, Registered, Intact, TypeOK
    <3>4. inbox'[peer[s]] = inbox[peer[s]]
      BY <3>1, <3>2, <3>3 DEF Intact, TypeOK
    <3> QED BY <3>1, <3>3, <3>4, ListedStays DEF Registered
  <2>3. ASSUME NEW t \in Servers, SendMasterHeartbeat(t) PROVE ListedInTime'
    <3> SUFFICES ASSUME NEW s \in Servers \ Outdated, Registered(s)'
                 PROVE  /\ RegisterKey[s] \in DOMAIN list'
                        /\ list'[RegisterKey[s]].peer = peer'[s]
                        /\ InTime(s)'
      BY DEF ListedInTime
    <3>1. /\ UNCHANGED <<list, held, cut, peer, state>>
          /\ sinceBeat' = [sinceBeat EXCEPT ![t] = 0] /\ sinceBeat[t] = 1
      BY <2>3 DEF SendMasterHeartbeat, masterVars
    <3>2. Intact(s) /\ peer[s] \in Slots /\ inbox[peer[s]] \in Seq(Packet)
      BY <3>1 DEF Registered, Intact, TypeOK
    <3>3. CASE s # t
      <4>1. inbox'[peer[s]] = inbox[peer[s]]
        BY <2>3, <3>2, <3>3 DEF SendMasterHeartbeat, Send, Intact, TypeOK
      <4> QED BY <3>1, <3>3, <4>1, ListedStays DEF Registered, Intact, TypeOK
    <3>4. CASE s = t
      <4> DEFINE q == inbox[peer[s]]
                 e == [type |-> "heartbeat", wait |-> 0]
      <4>1. inbox'[peer[s]] = Append(q, e) /\ e \in Packet
        BY <2>3, <3>2, <3>4, TimesAssumption DEF SendMasterHeartbeat, Send, Packet, TypeOK
      <4>2. /\ Len(q) \in Nat /\ Len(Append(q, e)) = Len(q) + 1
            /\ \A i \in 1 .. Len(q) : Append(q, e)[i] = q[i]
            /\ Append(q, e)[Len(q) + 1] = e
        BY <3>2, <4>1, AppendIsLonger
      <4>3. Registered(s)
        BY <3>1, <3>2, <4>1, <4>2 DEF Registered
      <4>4. RegisterKey[s] \in DOMAIN list /\ list[RegisterKey[s]].peer = peer[s] /\ InTime(s)
        BY <4>3 DEF ListedInTime
      <4>5. inbox'[peer[s]] # <<>>
        BY <4>1, <4>2
      <4>6. CASE q = <<>>
        <5>1. list[RegisterKey[s]].age <= 1
          BY <3>1, <3>4, <4>4, <4>6 DEF InTime
        <5>2. inbox'[peer[s]][1].wait = 0
          BY <4>1, <4>2, <4>6
        <5> QED BY <3>1, <4>4, <4>5, <5>1, <5>2 DEF InTime
      <4>7. CASE q # <<>>
        <5>1. inbox'[peer[s]][1] = q[1]
          BY <3>2, <4>1, <4>2, <4>7
        <5> QED BY <3>1, <4>4, <4>5, <4>7, <5>1 DEF InTime
      <4> QED BY <4>6, <4>7
    <3> QED BY <3>3, <3>4
  <2>4. ASSUME NEW p \in Slots, HandlePacket(p) PROVE ListedInTime'
    BY <2>4, PacketKeepsListed
  <2>5. ASSUME NEW p \in Slots, HandleDisconnect(p) PROVE ListedInTime'
    <3> SUFFICES ASSUME NEW s \in Servers \ Outdated, Registered(s)'
                 PROVE  /\ RegisterKey[s] \in DOMAIN list'
                        /\ list'[RegisterKey[s]].peer = peer'[s]
                        /\ InTime(s)'
      BY DEF ListedInTime
    <3>1. peer[s] # p /\ peer[s] \in Slots /\ UNCHANGED <<state, peer, sinceBeat>>
      BY <2>5 DEF HandleDisconnect, Without, Registered, Intact, serverVars, TypeOK
    <3>2. inbox'[peer[s]] = inbox[peer[s]]
      BY <2>5, <3>1 DEF HandleDisconnect, TypeOK
    <3>3. Registered(s)
      BY <2>5, <3>1, <3>2 DEF HandleDisconnect, Without, Registered, Intact
    <3>4. list[RegisterKey[s]].peer = peer[s]
      BY <3>3 DEF ListedInTime
    <3> QED BY <2>5, <3>1, <3>2, <3>3, <3>4, ListedStays DEF HandleDisconnect, EntriesOf, Without
  <2>6. CASE PruneStaleServers
    <3> SUFFICES ASSUME NEW s \in Servers \ Outdated, Registered(s)'
                 PROVE  /\ RegisterKey[s] \in DOMAIN list'
                        /\ list'[RegisterKey[s]].peer = peer'[s]
                        /\ InTime(s)'
      BY DEF ListedInTime
    <3>1. UNCHANGED <<linkVars, serverVars>>
      BY <2>6 DEF PruneStaleServers
    <3>2. Registered(s)
      BY <3>1 DEF Registered, Intact, linkVars, serverVars
    <3>3. ~Stale(RegisterKey[s])
      <4>1. list[RegisterKey[s]].age <= PruneAfter /\ list[RegisterKey[s]].age \in Nat
        BY <3>2, InTimeIsFresh DEF ListedInTime, TypeOK, Entry
      <4> QED BY <4>1, TimesAssumption DEF Stale
    <3> QED BY <2>6, <3>1, <3>2, <3>3, ListedStays
            DEF PruneStaleServers, Without, linkVars, serverVars
  <2>7. CASE MasterEnds
    BY <2>7 DEF MasterEnds, ListedInTime, Registered, Intact, EmptyMap
  <2>8. CASE Tick
    BY <2>8, TickKeepsListed
  <2>9. ASSUME NEW t \in Servers, \/ Stop(t) \/ Crash(t)
                                  \/ ConnectToMaster(t) \/ DisconnectEvent(t) \/ Reconnect(t)
        PROVE  ListedInTime'
    <3> SUFFICES ASSUME NEW s \in Servers \ Outdated, Registered(s)'
                 PROVE  /\ RegisterKey[s] \in DOMAIN list'
                        /\ list'[RegisterKey[s]].peer = peer'[s]
                        /\ InTime(s)'
      BY DEF ListedInTime
    <3>1. s # t
      BY <2>9 DEF Stop, Crash, Ends, ConnectToMaster, DisconnectEvent, Reconnect, Registered, TypeOK
    <3>2. /\ state[s] = "connected" /\ peer'[s] = peer[s] /\ sinceBeat'[s] = sinceBeat[s]
          /\ UNCHANGED <<list, held>> /\ cut \subseteq cut'
      BY <2>9, <3>1 DEF Stop, Crash, Ends, ConnectToMaster, DisconnectEvent, Reconnect, Registered,
                        TypeOK, masterVars, linkVars
    <3>3. Intact(s) /\ peer[s] \in Slots
      BY <3>2 DEF Registered, Intact, TypeOK
    <3>4. inbox'[peer[s]] = inbox[peer[s]]
      BY <2>9, <3>1, <3>3 DEF Stop, Crash, Ends, Send, ConnectToMaster, DisconnectEvent, Reconnect,
                              Intact, TypeOK, linkVars
    <3> QED BY <3>2, <3>3, <3>4, ListedStays DEF Registered
  <2>10. ASSUME NEW p \in Slots, CutConnection(p) \/ LosePackets(p) PROVE ListedInTime'
    <3> SUFFICES ASSUME NEW s \in Servers \ Outdated, Registered(s)'
                 PROVE  /\ RegisterKey[s] \in DOMAIN list'
                        /\ list'[RegisterKey[s]].peer = peer'[s]
                        /\ InTime(s)'
      BY DEF ListedInTime
    <3>1. UNCHANGED <<list, held, serverVars>> /\ cut \subseteq cut' /\ (p \in cut' )
      BY <2>10 DEF CutConnection, LosePackets, masterVars
    <3>2. Intact(s) /\ peer[s] # p /\ peer[s] \in Slots
      BY <3>1 DEF Registered, Intact, serverVars, TypeOK
    <3>3. inbox'[peer[s]] = inbox[peer[s]]
      BY <2>10, <3>2 DEF CutConnection, LosePackets, TypeOK
    <3> QED BY <3>1, <3>2, <3>3, ListedStays DEF Registered, Intact, serverVars
  <2>11. CASE MasterStarts \/ UNCHANGED vars
    BY <2>11 DEF MasterStarts, ListedInTime, Registered, Intact, InTime,
                 vars, masterVars, linkVars, serverVars
  <2> QED BY <2>1, <2>2, <2>3, <2>4, <2>5, <2>6, <2>7, <2>8, <2>9, <2>10, <2>11
          DEF Next, LinkStep, Fault
<1>3. ListedInTime => ConnectedMeansListed
  BY DEF ListedInTime, ConnectedMeansListed
<1> QED BY <1>1, <1>2, <1>3, TypeCorrect, LinksCorrect, PTL DEF Spec
=============================================================================
