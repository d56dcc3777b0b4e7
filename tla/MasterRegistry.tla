--------------------------- MODULE MasterRegistry ---------------------------
(***************************************************************************)
(* The list of running game servers: the master server's table g_servers   *)
(* (KenshiMP.MasterServer) and the game servers' side of it                *)
(* (ConnectToMaster .. UpdateMasterConnection in KenshiMP.Server), over    *)
(* ENet connections that break, with both kinds of process crashing and    *)
(* being started again.                                                    *)
(*                                                                         *)
(* A connection is a peer slot of the master. It breaks for both sides at  *)
(* once ("cut"), and each side gets its DISCONNECT event in its own time;  *)
(* until then it takes the connection for alive. Time is counted in        *)
(* heartbeat intervals of 30 s: Tick waits for what is due by then.        *)
(*                                                                         *)
(* Left out: what an entry tells about its server, the delays of the       *)
(* reconnection, and the browsers, which only read the list.               *)
(***************************************************************************)
EXTENDS Integers, Sequences, Maps

CONSTANTS
    Servers,        \* game servers
    Outdated,       \* those with another protocol version
    RegisterKey,    \* server -> "ip:port" it registers (its external IP, if it knows it)
    HeartbeatKey,   \* server -> "ip:port" the master sees it under
    Slots,          \* peer slots of the master's ENet host
    NoSlot,
    Delay,          \* heartbeat intervals a packet is under way at most
    DropAfter,      \* ... until ENet gives up a silent peer
    PruneAfter,     \* HEARTBEAT_TIMEOUT_SEC in heartbeat intervals
    MaxFaults       \* bound on cuts, stops and crashes

ASSUME ServersAssumption == Outdated \subseteq Servers
ASSUME NoSlotAssumption == NoSlot \notin Slots
ASSUME TimesAssumption ==
    Delay \in Nat /\ DropAfter \in Nat /\ PruneAfter \in Nat /\ PruneAfter >= 1 + Delay
ASSUME MaxFaultsAssumption == MaxFaults \in Nat

\* No server is known under an address that another one registers.
ASSUME KeysAssumption ==
    \A s, t \in Servers :
       RegisterKey[s] = RegisterKey[t] \/ HeartbeatKey[s] = RegisterKey[t] => s = t

VARIABLES
    up,             \* the master's process runs
    list,           \* g_servers: key -> [peer, age]; age is the time since lastHeartbeat
    held,           \* slot -> the server connected there, as the master sees it
    cut,            \* held slots whose connection is broken
    silence,        \* cut slot -> time since then
    inbox,          \* slot -> packets under way to the master
    state,          \* server -> its process and its side of the connection
    peer,           \* server -> the slot its m_masterPeer is connected to, if any
    sinceBeat,      \* server -> m_timeSinceMasterHeartbeat
    faults

masterVars == <<up, list>>
linkVars == <<held, cut, silence, inbox>>
serverVars == <<state, peer, sinceBeat>>
vars == <<masterVars, linkVars, serverVars, faults>>

\* "off": running, without m_masterHost; "idle": m_masterPeer is null.
State == {"down", "off", "idle", "connecting", "connected"}
Packet == [type : {"register", "heartbeat", "deregister"}, wait : 0 .. Delay]
Entry == [peer : Slots, age : 0 .. PruneAfter + 1]
Key == {RegisterKey[s] : s \in Servers}

\* The connection that s believes in works.
Intact(s) == peer[s] \in DOMAIN held /\ held[peer[s]] = s /\ peer[s] \notin cut

EntriesOf(p) == {k \in DOMAIN list : list[k].peer = p}

Init ==
    /\ up = FALSE
    /\ list = EmptyMap
    /\ held = EmptyMap
    /\ cut = {}
    /\ silence = [p \in Slots |-> 0]
    /\ inbox = [p \in Slots |-> <<>>]
    /\ state = [s \in Servers |-> "down"]
    /\ peer = [s \in Servers |-> NoSlot]
    /\ sinceBeat = [s \in Servers |-> 0]
    /\ faults = 0

-----------------------------------------------------------------------------
(* A game server *)

\* A packet sent over a broken connection gets lost.
Send(s, type) ==
    inbox' = IF Intact(s)
               THEN [inbox EXCEPT ![peer[s]] = Append(@, [type |-> type, wait |-> 0])]
               ELSE inbox

\* Without an ENet host there is no second attempt.
ConnectToMaster(s) ==
    /\ state[s] = "down"
    /\ \E new \in {"connecting", "off"} : state' = [state EXCEPT ![s] = new]
    /\ UNCHANGED <<masterVars, linkVars, peer, sinceBeat, faults>>

\* The CONNECT event, with SendMasterRegister.
ConnectEvent(s) ==
    /\ state[s] = "connecting"
    /\ Intact(s)
    /\ state' = [state EXCEPT ![s] = "connected"]
    /\ Send(s, "register")
    /\ UNCHANGED <<masterVars, held, cut, silence, peer, sinceBeat, faults>>

SendMasterHeartbeat(s) ==
    /\ state[s] = "connected"
    /\ sinceBeat[s] = 1
    /\ Send(s, "heartbeat")
    /\ sinceBeat' = [sinceBeat EXCEPT ![s] = 0]
    /\ UNCHANGED <<masterVars, held, cut, silence, state, peer, faults>>

\* A connect request gets no answer while the master is down or full.
NoAnswer(s) == peer[s] = NoSlot /\ (~up \/ DOMAIN held = Slots)

\* Mutant of DisconnectEvent: m_masterConnected stays set.
DisconnectEventStaysConnected(s) ==
    /\ \/ state[s] = "connected" /\ ~Intact(s)
       \/ state[s] = "connecting" /\ (NoAnswer(s) \/ (peer[s] # NoSlot /\ ~Intact(s)))
    /\ peer' = [peer EXCEPT ![s] = NoSlot]
    /\ state' = [state EXCEPT ![s] = IF @ = "connected" THEN @ ELSE "idle"]
    /\ UNCHANGED <<masterVars, linkVars, sinceBeat, faults>>

\* The DISCONNECT event: a lost connection, or a failed attempt.
DisconnectEvent(s) ==
    /\ \/ state[s] = "connected" /\ ~Intact(s)
       \/ state[s] = "connecting" /\ (NoAnswer(s) \/ (peer[s] # NoSlot /\ ~Intact(s)))
    /\ peer' = [peer EXCEPT ![s] = NoSlot]
    /\ state' = [state EXCEPT ![s] = "idle"]
    /\ UNCHANGED <<masterVars, linkVars, sinceBeat, faults>>

\* Mutant of Reconnect: given up after the first loss.
ReconnectOnce(s) ==
    /\ state[s] = "idle"
    /\ faults = 0
    /\ state' = [state EXCEPT ![s] = "connecting"]
    /\ UNCHANGED <<masterVars, linkVars, peer, sinceBeat, faults>>

\* After 5 s, 10 s, .. 60 s.
Reconnect(s) ==
    /\ state[s] = "idle"
    /\ state' = [state EXCEPT ![s] = "connecting"]
    /\ UNCHANGED <<masterVars, linkVars, peer, sinceBeat, faults>>

\* The end of the process is the end of its connection.
Ends(s) ==
    /\ state[s] # "down"
    /\ faults < MaxFaults
    /\ faults' = faults + 1
    /\ state' = [state EXCEPT ![s] = "down"]
    /\ peer' = [peer EXCEPT ![s] = NoSlot]
    /\ cut' = IF Intact(s) THEN cut \cup {peer[s]} ELSE cut
    /\ sinceBeat' = [sinceBeat EXCEPT ![s] = 0]
    /\ UNCHANGED <<masterVars, held, silence>>

\* Stop: SendMasterDeregister, then the connection is closed by a packet that
\* nobody acknowledges.
Stop(s) ==
    /\ Ends(s)
    /\ IF state[s] = "connected" THEN Send(s, "deregister") ELSE UNCHANGED inbox

Crash(s) == Ends(s) /\ UNCHANGED inbox

-----------------------------------------------------------------------------
(* The master server *)

\* Mutant of HandleRegister: an entry that exists keeps its peer.
HandleRegisterKeepsPeer(p) ==
    LET s == held[p]
        old == IF RegisterKey[s] \in DOMAIN list THEN list[RegisterKey[s]].peer ELSE p
    IN  list' = IF s \in Outdated THEN list
                                  ELSE Put(list, RegisterKey[s], [peer |-> old, age |-> 0])

HandleRegister(p) ==
    LET s == held[p]
    IN  list' = IF s \in Outdated THEN list
                                  ELSE Put(list, RegisterKey[s], [peer |-> p, age |-> 0])

\* The entry of the address the heartbeat comes from, or else the sender's.
HandleHeartbeat(p) ==
    LET s == held[p]
    IN  list' = IF HeartbeatKey[s] \in DOMAIN list
                  THEN [list EXCEPT ![HeartbeatKey[s]].age = 0]
                  ELSE [k \in DOMAIN list |->
                           IF list[k].peer = p THEN [list[k] EXCEPT !.age = 0] ELSE list[k]]

HandleDeregister(p) == list' = Without(list, EntriesOf(p))

HandlePacket(p) ==
    /\ p \in DOMAIN held
    /\ inbox[p] # <<>>
    /\ \/ Head(inbox[p]).type = "register" /\ HandleRegister(p)
       \/ Head(inbox[p]).type = "heartbeat" /\ HandleHeartbeat(p)
       \/ Head(inbox[p]).type = "deregister" /\ HandleDeregister(p)
    /\ inbox' = [inbox EXCEPT ![p] = Tail(@)]
    /\ UNCHANGED <<up, held, cut, silence, serverVars, faults>>

\* Mutant of HandleDisconnect: the entries stay until they are pruned.
HandleDisconnectKeepsEntries(p) ==
    /\ p \in DOMAIN held
    /\ p \in cut
    /\ held' = Without(held, {p})
    /\ cut' = cut \ {p}
    /\ silence' = [silence EXCEPT ![p] = 0]
    /\ inbox' = [inbox EXCEPT ![p] = <<>>]
    /\ UNCHANGED <<up, list, serverVars, faults>>

\* The DISCONNECT event; the slot may be used again.
HandleDisconnect(p) ==
    /\ p \in DOMAIN held
    /\ p \in cut
    /\ list' = Without(list, EntriesOf(p))
    /\ held' = Without(held, {p})
    /\ cut' = cut \ {p}
    /\ silence' = [silence EXCEPT ![p] = 0]
    /\ inbox' = [inbox EXCEPT ![p] = <<>>]
    /\ UNCHANGED <<up, serverVars, faults>>

Stale(k) == list[k].age > PruneAfter

PruneStaleServers ==
    /\ \E k \in DOMAIN list : Stale(k)
    /\ list' = Without(list, {k \in DOMAIN list : Stale(k)})
    /\ UNCHANGED <<up, linkVars, serverVars, faults>>

MasterStarts ==
    /\ ~up
    /\ up' = TRUE
    /\ UNCHANGED <<list, linkVars, serverVars, faults>>

\* Stopped or crashed: the list was in memory only.
MasterEnds ==
    /\ up
    /\ faults < MaxFaults
    /\ faults' = faults + 1
    /\ up' = FALSE
    /\ list' = EmptyMap
    /\ held' = EmptyMap
    /\ cut' = {}
    /\ silence' = [p \in Slots |-> 0]
    /\ inbox' = [p \in Slots |-> <<>>]
    /\ UNCHANGED serverVars

-----------------------------------------------------------------------------
(* The network, and time *)

\* ENet gives the server a free slot of the master. Packets of its earlier
\* connections are not under way any more.
Accept(s) ==
    /\ up
    /\ state[s] = "connecting"
    /\ peer[s] = NoSlot
    /\ \A q \in DOMAIN held : held[q] = s => inbox[q] = <<>>
    /\ \E p \in Slots \ DOMAIN held :
          /\ held' = Put(held, p, s)
          /\ peer' = [peer EXCEPT ![s] = p]
    /\ UNCHANGED <<masterVars, cut, silence, inbox, state, sinceBeat, faults>>

CutConnection(p) ==
    /\ p \in DOMAIN held
    /\ p \notin cut
    /\ faults < MaxFaults
    /\ faults' = faults + 1
    /\ cut' = cut \cup {p}
    /\ UNCHANGED <<masterVars, held, silence, inbox, serverVars>>

LosePackets(p) ==
    /\ p \in cut
    /\ inbox[p] # <<>>
    /\ inbox' = [inbox EXCEPT ![p] = <<>>]
    /\ UNCHANGED <<masterVars, held, cut, silence, serverVars, faults>>

Older(e) == [e EXCEPT !.age = IF @ > PruneAfter THEN @ ELSE @ + 1]
Delayed(q) == [i \in 1 .. Len(q) |-> [q[i] EXCEPT !.wait = @ + 1]]

\* One heartbeat interval passes: the heartbeats that are due have been sent, packets
\* have arrived and silent peers have been dropped in time. Connections take time.
Tick ==
    /\ \A s \in Servers : state[s] = "connected" => sinceBeat[s] = 0
    /\ \A p \in cut : silence[p] < DropAfter
    /\ \A p \in DOMAIN held \ cut : \A i \in 1 .. Len(inbox[p]) : inbox[p][i].wait < Delay
    /\ list' = [k \in DOMAIN list |-> Older(list[k])]
    /\ silence' = [p \in Slots |-> IF p \in cut THEN silence[p] + 1 ELSE silence[p]]
    /\ inbox' = [p \in Slots |-> IF p \in cut THEN inbox[p] ELSE Delayed(inbox[p])]
    /\ sinceBeat' = [s \in Servers |-> IF state[s] = "connected" THEN 1 ELSE sinceBeat[s]]
    /\ UNCHANGED <<up, held, cut, state, peer, faults>>

-----------------------------------------------------------------------------
LinkStep(p) == HandlePacket(p) \/ HandleDisconnect(p)

Fault ==
    \/ \E s \in Servers : Stop(s) \/ Crash(s)
    \/ \E p \in Slots : CutConnection(p)
    \/ MasterEnds

Next ==
    \/ \E s \in Servers : \/ ConnectToMaster(s)
                          \/ Accept(s)
                          \/ ConnectEvent(s)
                          \/ SendMasterHeartbeat(s)
                          \/ DisconnectEvent(s)
                          \/ Reconnect(s)
    \/ \E p \in Slots : LinkStep(p) \/ LosePackets(p)
    \/ PruneStaleServers
    \/ MasterStarts
    \/ Fault
    \/ Tick

Spec == Init /\ [][Next]_vars

\* Processes that run keep running their loops, ENet delivers, retries and times
\* out. That somebody starts the master or a server is not assumed.
FairSpec ==
    /\ Spec
    /\ \A s \in Servers :
          /\ WF_vars(Accept(s))
          /\ WF_vars(ConnectEvent(s))
          /\ WF_vars(SendMasterHeartbeat(s))
          /\ WF_vars(DisconnectEvent(s))
          /\ WF_vars(Reconnect(s))
    /\ \A p \in Slots : WF_vars(LinkStep(p)) /\ WF_vars(LosePackets(p))

-----------------------------------------------------------------------------
(* Properties *)

TypeOK ==
    /\ up \in BOOLEAN
    /\ DOMAIN list \subseteq Key /\ \A k \in DOMAIN list : list[k] \in Entry
    /\ DOMAIN held \subseteq Slots /\ \A p \in DOMAIN held : held[p] \in Servers
    /\ cut \subseteq DOMAIN held
    /\ silence \in [Slots -> 0 .. DropAfter]
    /\ inbox \in [Slots -> Seq(Packet)]
    /\ \A p \in Slots \ DOMAIN held : inbox[p] = <<>>
    /\ state \in [Servers -> State]
    /\ peer \in [Servers -> Slots \cup {NoSlot}]
    /\ \A s \in Servers : state[s] = "connected" => peer[s] \in Slots
    /\ sinceBeat \in [Servers -> {0, 1}]
    /\ faults \in 0 .. MaxFaults

\* An entry's peer is a connection the master still has, never a slot that was freed
\* or given to somebody else: DISCONNECT and Deregister find entries by it.
EntriesAreHeld ==
    \A k \in DOMAIN list :
       list[k].peer \in DOMAIN held /\ RegisterKey[held[list[k].peer]] = k

Registered(s) ==
    /\ state[s] = "connected"
    /\ Intact(s)
    /\ \A i \in 1 .. Len(inbox[peer[s]]) : inbox[peer[s]][i].type # "register"

\* A server whose connection works is in the list, under that connection, as soon as
\* its registration has arrived: neither the end of an earlier connection, nor other
\* servers, nor pruning can take it out.
ConnectedMeansListed ==
    \A s \in Servers \ Outdated :
       Registered(s) =>
          RegisterKey[s] \in DOMAIN list /\ list[RegisterKey[s]].peer = peer[s]

\* When master and server stay up, the server is listed (again), and for good:
\* lost connections and crashes of the master are made up for.
ListedAgain ==
    \A s \in Servers \ Outdated :
       <>[](up /\ state[s] \notin {"down", "off"}) => <>[](RegisterKey[s] \in DOMAIN list)
=============================================================================
