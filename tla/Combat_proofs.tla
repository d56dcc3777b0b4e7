----------------------------- MODULE Combat_proofs -----------------------------
(***************************************************************************)
(* Proofs about Combat for any clients, entities, owners and limits: the   *)
(* ring and the channels stay within their limits, and no death is told    *)
(* that the server has not recorded.  The second rests on the first, on    *)
(* alive never becoming true again, and on every broadcast of a death      *)
(* coming with the record of it.  Last, the messages that go round do not  *)
(* multiply: every step moves one, drops one, or adds one for each death   *)
(* or knock-out that starts a round; the characters of another client add  *)
(* nothing to a client's own.                                              *)
(***************************************************************************)
EXTENDS Combat, FiniteSetTheorems, FunctionTheorems, TLAPS

\* The variables are functions of the right types.
Shape ==
  /\ alive \in [Entities -> BOOLEAN]
  /\ health \in [Entities -> [Parts -> Levels]]
  /\ body \in [Clients -> [Entities -> Bodies]]
  /\ ring \in [Clients -> Seq(Message)]
  /\ processed \in [Clients -> 0..TickCap]
  /\ reports \in [Clients -> Seq(Message)]
  /\ inbox \in [Clients -> [Channels -> Seq(Message)]]
  /\ sources \in 0..MaxSources

\* The queues are within their limits.
Limits ==
  \A c \in Clients :
    /\ Len(ring[c]) <= RingRoom /\ Len(reports[c]) <= ChannelBound
    /\ \A ch \in Channels : Len(inbox[c][ch]) <= ChannelBound

IInv == Shape /\ Limits /\ DeathIsVerdict

\* The limits are positive numbers.
LEMMA BoundsAreNat ==
  RingRoom \in Nat /\ TickCap \in Nat /\ ChannelBound \in Nat /\ MaxSources \in Nat
    /\ RingRoom > 0 /\ TickCap > 0 /\ ChannelBound > 0 /\ MaxSources > 0
  BY SMT, BoundsAssumption

\* A death or a knock-out of an entity is a message.
LEMMA MessageTypes == \A e \in Entities : Death(e) \in Message /\ KO(e) \in Message
  BY DEF Death, KO, Message

\* What holds of a queue survives its first element being taken.
LEMMA TailOK ==
  ASSUME NEW s \in Seq(Message), s # <<>>
  PROVE  /\ Tail(s) \in Seq(Message) /\ Head(s) \in Message
         /\ Len(Tail(s)) = Len(s) - 1 /\ Len(s) \in Nat /\ Len(s) >= 1
         /\ \A i \in 1..Len(Tail(s)) : i + 1 \in 1..Len(s) /\ Tail(s)[i] = s[i + 1]
  BY SMT

\* Nothing is under way at the start (the initial state of server and clients).
LEMMA InitHolds == Init => IInv
<1> SUFFICES ASSUME Init PROVE IInv
  OBVIOUS
<1>1. <<>> \in Seq(Message) /\ Len(<<>>) = 0
  BY SMT
<1>2. Shape
  <2>1. body \in [Clients -> [Entities -> Bodies]]
    <3>1. "living" \in Bodies /\ "none" \in Bodies
      BY DEF Bodies
    <3> QED
      BY <3>1 DEF Init
  <2> QED
    BY <1>1, <2>1, BoundsAreNat, SMT DEF Init, Shape, Levels
<1>3. Limits
  BY <1>1, BoundsAreNat, SMT DEF Init, Limits
<1>4. DeathIsVerdict
  BY <1>1, SMT DEF Init, DeathIsVerdict
<1> QED
  BY <1>2, <1>3, <1>4 DEF IInv

\* PushEvent keeps the ring typed and within its size.
LEMMA Pushed ==
  ASSUME Shape, Limits, NEW c \in Clients, NEW m \in Message, PushEvent(c, m)
  PROVE  /\ ring' \in [Clients -> Seq(Message)]
         /\ \A d \in Clients : Len(ring'[d]) <= RingRoom
<1>1. CASE Len(ring[c]) < RingRoom
  <2>1. ring' = [ring EXCEPT ![c] = Append(@, m)]
    BY <1>1 DEF PushEvent
  <2>2. Append(ring[c], m) \in Seq(Message) /\ Len(Append(ring[c], m)) = Len(ring[c]) + 1
          /\ Len(ring[c]) \in Nat
    BY SMT DEF Shape
  <2>3. Len(ring[c]) + 1 <= RingRoom
    BY <1>1, <2>2, BoundsAreNat, SMT
  <2> QED
    BY <2>1, <2>2, <2>3 DEF Shape, Limits
<1>2. CASE ~(Len(ring[c]) < RingRoom)
  BY <1>2 DEF PushEvent, Shape, Limits
<1> QED
  BY <1>1, <1>2

\* Broadcast puts its message at the end of one channel of every client.
LEMMA Sent ==
  ASSUME Shape, Limits, NEW ch \in Channels, NEW m \in Message, Broadcast(ch, m)
  PROVE  /\ inbox' \in [Clients -> [Channels -> Seq(Message)]]
         /\ \A c \in Clients : \A k \in Channels :
              /\ Len(inbox'[c][k]) <= ChannelBound
              /\ \A i \in 1..Len(inbox'[c][k]) :
                   \/ i \in 1..Len(inbox[c][k]) /\ inbox'[c][k][i] = inbox[c][k][i]
                   \/ inbox'[c][k][i] = m
<1>1. \A c \in Clients : inbox[c] \in [Channels -> Seq(Message)]
  BY DEF Shape
<1>2. \A c \in Clients : inbox'[c] = [inbox[c] EXCEPT ![ch] = Append(@, m)]
  BY DEF Broadcast
<1>3. ASSUME NEW c \in Clients
      PROVE  /\ Append(inbox[c][ch], m) \in Seq(Message)
             /\ Len(Append(inbox[c][ch], m)) = Len(inbox[c][ch]) + 1
             /\ Len(inbox[c][ch]) \in Nat
             /\ \A i \in 1..(Len(inbox[c][ch]) + 1) :
                  \/ i \in 1..Len(inbox[c][ch]) /\ Append(inbox[c][ch], m)[i] = inbox[c][ch][i]
                  \/ Append(inbox[c][ch], m)[i] = m
  <2>1. inbox[c][ch] \in Seq(Message)
    BY <1>1
  <2> QED
    BY <2>1, SMT
<1>4. inbox' \in [Clients -> [Channels -> Seq(Message)]]
  <2>1. \A c \in Clients : inbox'[c] \in [Channels -> Seq(Message)]
    BY <1>1, <1>2, <1>3
  <2>2. inbox' = [c \in Clients |-> inbox'[c]]
    BY DEF Broadcast
  <2> QED
    BY <2>1, <2>2
<1>5. ASSUME NEW c \in Clients, NEW k \in Channels
      PROVE  /\ Len(inbox'[c][k]) <= ChannelBound
             /\ \A i \in 1..Len(inbox'[c][k]) :
                  \/ i \in 1..Len(inbox[c][k]) /\ inbox'[c][k][i] = inbox[c][k][i]
                  \/ inbox'[c][k][i] = m
  <2>1. CASE k = ch
    <3>1. inbox'[c][k] = Append(inbox[c][ch], m)
      BY <1>1, <1>2, <2>1
    <3>2. Len(inbox[c][ch]) < ChannelBound
      BY DEF Broadcast, HasRoom
    <3>3. Len(inbox[c][ch]) + 1 <= ChannelBound
      BY <3>2, <1>3, BoundsAreNat, SMT
    <3> QED
      BY <3>1, <3>3, <1>3, <2>1
  <2>2. CASE k # ch
    <3>1. inbox'[c][k] = inbox[c][k]
      BY <1>1, <1>2, <2>2
    <3> QED
      BY <3>1 DEF Limits
  <2> QED
    BY <2>1, <2>2
<1> QED
  BY <1>4, <1>5

\* A broadcast tells only of recorded deaths when its own death is recorded
\* and no record is taken back (the order of HandleAttackIntent and
\* HandleCombatDeath: alive first, then the broadcast).
LEMMA Recorded ==
  ASSUME IInv, NEW ch \in Channels, NEW m \in Message, Broadcast(ch, m),
         m.kind = "death" => ~alive'[m.id],
         \A e \in Entities : ~alive[e] => ~alive'[e]
  PROVE  DeathIsVerdict'
<1> SUFFICES ASSUME NEW c \in Clients, NEW k \in Channels,
                    NEW i \in 1..Len(inbox'[c][k]), inbox'[c][k][i].kind = "death"
             PROVE  ~alive'[inbox'[c][k][i].id]
  BY DEF DeathIsVerdict
<1>1. CASE i \in 1..Len(inbox[c][k]) /\ inbox'[c][k][i] = inbox[c][k][i]
  <2>1. inbox[c][k] \in Seq(Message)
    BY DEF IInv, Shape
  <2>2. inbox[c][k][i] \in Message
    BY <1>1, <2>1, SMT
  <2>3. inbox[c][k][i].id \in Entities
    BY <2>2 DEF Message
  <2>4. ~alive[inbox[c][k][i].id]
    BY <1>1 DEF IInv, DeathIsVerdict
  <2> QED
    BY <1>1, <2>3, <2>4
<1>2. CASE inbox'[c][k][i] = m
  BY <1>2
<1> QED
  BY <1>1, <1>2, Sent DEF IInv

\* An attack gives its target a health by levels.
LEMMA ResolveTypes ==
  ASSUME NEW h \in [Parts -> Levels]
  PROVE  ResolveCombat(h) \subseteq [Parts -> Levels]
<1> SUFFICES ASSUME NEW g \in ResolveCombat(h) PROVE g \in [Parts -> Levels]
  OBVIOUS
<1>1. CASE g = h
  BY <1>1
<1>2. CASE \E p \in Parts : h[p] < 2 /\ g = [h EXCEPT ![p] = @ + 1]
  BY <1>2, SMT DEF Levels
<1> QED
  BY <1>1, <1>2 DEF ResolveCombat

\* The loop of ProcessDeferredEvents moves an event of the ring to the reports.
LEMMA ProcessKeeps ==
  ASSUME IInv, NEW c \in Clients, ProcessDeferredEvents(c)
  PROVE  IInv'
<1> DEFINE r == ring[c]  q == reports[c]
<1>1. r \in Seq(Message) /\ r # <<>> /\ q \in Seq(Message)
  BY DEF IInv, Shape, ProcessDeferredEvents
<1>2. Tail(r) \in Seq(Message) /\ Head(r) \in Message /\ Len(Tail(r)) = Len(r) - 1 /\ Len(r) \in Nat
  BY <1>1, TailOK
<1>3. Append(q, Head(r)) \in Seq(Message) /\ Len(Append(q, Head(r))) = Len(q) + 1 /\ Len(q) \in Nat
  BY <1>1, <1>2, SMT
<1>4. ring' = [ring EXCEPT ![c] = Tail(r)]
  BY DEF ProcessDeferredEvents
<1>5. ring' \in [Clients -> Seq(Message)] /\ \A d \in Clients : Len(ring'[d]) <= RingRoom
  <2>1. Len(r) <= RingRoom
    BY DEF IInv, Limits
  <2>2. Len(Tail(r)) <= RingRoom
    BY <2>1, <1>2, BoundsAreNat, SMT
  <2> QED
    BY <1>2, <1>4, <2>2 DEF IInv, Shape, Limits
<1>6. processed' \in [Clients -> 0..TickCap]
  <2>1. CASE processed[c] = TickCap
    <3>1. processed' = [processed EXCEPT ![c] = 0] /\ 0 \in 0..TickCap
      BY <2>1, BoundsAreNat, SMT DEF ProcessDeferredEvents
    <3> QED
      BY <3>1 DEF IInv, Shape
  <2>2. CASE processed[c] # TickCap
    <3>1. processed[c] + 1 \in 0..TickCap /\ 0 \in 0..TickCap
      BY <2>2, BoundsAreNat, SMT DEF IInv, Shape
    <3> QED
      BY <2>2, <3>1 DEF ProcessDeferredEvents, IInv, Shape
  <2> QED
    BY <2>1, <2>2
<1>7. reports' \in [Clients -> Seq(Message)] /\ \A d \in Clients : Len(reports'[d]) <= ChannelBound
  <2>1. CASE reports' = reports
    BY <2>1 DEF IInv, Shape, Limits
  <2>0. \/ reports' = reports
        \/ Len(q) < ChannelBound /\ reports' = [reports EXCEPT ![c] = Append(q, Head(r))]
    BY Zenon DEF ProcessDeferredEvents
  <2>2. CASE Len(q) < ChannelBound /\ reports' = [reports EXCEPT ![c] = Append(q, Head(r))]
    <3>1. Len(q) + 1 <= ChannelBound
      BY <2>2, <1>3, BoundsAreNat, SMT
    <3> QED
      BY <2>2, <3>1, <1>3 DEF IInv, Shape, Limits
  <2> QED
    BY <2>0, <2>1, <2>2
<1>8. UNCHANGED <<alive, health, body, inbox, sources>>
  BY DEF ProcessDeferredEvents
<1> QED
  BY <1>5, <1>6, <1>7, <1>8 DEF IInv, Shape, Limits, DeathIsVerdict

\* A character that dies in a game has a dead body there.
LEMMA Bodied ==
  ASSUME Shape, NEW c \in Clients, NEW e \in Entities, NEW b \in Bodies
  PROVE  [body EXCEPT ![c][e] = b] \in [Clients -> [Entities -> Bodies]]
<1>1. [body[c] EXCEPT ![e] = b] \in [Entities -> Bodies]
  BY DEF Shape
<1> QED
  BY <1>1 DEF Shape

\* A packet handler takes the head of a channel and pushes it into the ring, or drops it.
LEMMA HandlePacketKeeps ==
  ASSUME IInv, NEW c \in Clients, NEW ch \in Channels, HandlePacket(c, ch)
  PROVE  IInv'
<1> DEFINE s == inbox[c][ch]  m == Head(s)
<1>1. s \in Seq(Message) /\ s # <<>>
  BY DEF IInv, Shape, HandlePacket
<1>2. /\ Tail(s) \in Seq(Message) /\ m \in Message
      /\ Len(Tail(s)) = Len(s) - 1 /\ Len(s) \in Nat
      /\ \A i \in 1..Len(Tail(s)) : i + 1 \in 1..Len(s) /\ Tail(s)[i] = s[i + 1]
  BY <1>1, TailOK
<1>3. ring' \in [Clients -> Seq(Message)] /\ \A d \in Clients : Len(ring'[d]) <= RingRoom
  <2>1. PushEvent(c, m) \/ UNCHANGED ring
    BY DEF HandlePacket
  <2>2. CASE UNCHANGED ring
    BY <2>2 DEF IInv, Shape, Limits
  <2> QED
    BY <2>1, <2>2, <1>2, Pushed DEF IInv
<1>4. body' \in [Clients -> [Entities -> Bodies]]
  <2>1. m.id \in Entities /\ "dead" \in Bodies
    BY <1>2 DEF Message, Bodies
  <2>2. body' = body \/ body' = [body EXCEPT ![c][m.id] = "dead"]
    BY Zenon DEF HandlePacket
  <2>3. body \in [Clients -> [Entities -> Bodies]]
    BY DEF IInv, Shape
  <2> QED
    BY <2>1, <2>2, <2>3, Bodied DEF IInv
<1>5. /\ inbox' \in [Clients -> [Channels -> Seq(Message)]]
      /\ \A d \in Clients : \A k \in Channels :
           inbox'[d][k] = IF d = c /\ k = ch THEN Tail(s) ELSE inbox[d][k]
  <2>1. inbox' = [inbox EXCEPT ![c] = [inbox[c] EXCEPT ![ch] = Tail(s)]]
    BY DEF HandlePacket
  <2>2. inbox[c] \in [Channels -> Seq(Message)]
    BY DEF IInv, Shape
  <2>3. [inbox[c] EXCEPT ![ch] = Tail(s)] \in [Channels -> Seq(Message)]
    BY <2>2, <1>2
  <2> QED
    BY <2>1, <2>2, <2>3 DEF IInv, Shape
<1>6. \A d \in Clients : \A k \in Channels : Len(inbox'[d][k]) <= ChannelBound
  <2>1. Len(s) <= ChannelBound
    BY DEF IInv, Limits
  <2>2. Len(Tail(s)) <= ChannelBound
    BY <2>1, <1>2, BoundsAreNat, SMT
  <2> QED
    BY <2>2, <1>5 DEF IInv, Limits
<1>7. UNCHANGED <<alive, health, processed, reports, sources>>
  BY DEF HandlePacket
<1>8. DeathIsVerdict'
  <2> SUFFICES ASSUME NEW d \in Clients, NEW k \in Channels,
                      NEW i \in 1..Len(inbox'[d][k]), inbox'[d][k][i].kind = "death"
               PROVE  ~alive[inbox'[d][k][i].id]
    BY <1>7 DEF DeathIsVerdict
  <2>1. CASE d = c /\ k = ch
    <3>1. inbox'[d][k] = Tail(s)
      BY <2>1, <1>5
    <3>2. i + 1 \in 1..Len(s) /\ inbox'[d][k][i] = s[i + 1]
      BY <3>1, <1>2
    <3>3. s[i + 1].kind = "death" => ~alive[s[i + 1].id]
      BY <3>2 DEF IInv, DeathIsVerdict
    <3> QED
      BY <3>2, <3>3
  <2>2. CASE ~(d = c /\ k = ch)
    BY <2>2, <1>5 DEF IInv, DeathIsVerdict
  <2> QED
    BY <2>1, <2>2
<1> QED
  BY <1>3, <1>4, <1>5, <1>6, <1>7, <1>8 DEF IInv, Shape, Limits

\* A hook pushes an event and, for a death, the character is dead in the game.
LEMMA HooksKeep ==
  ASSUME IInv, NEW c \in Clients, NEW e \in Entities,
         Hook_CharacterDeath(c, e) \/ Hook_CharacterKO(c, e)
  PROVE  IInv'
<1>1. ring' \in [Clients -> Seq(Message)] /\ \A d \in Clients : Len(ring'[d]) <= RingRoom
  BY Pushed, MessageTypes DEF Hook_CharacterDeath, Hook_CharacterKO, IInv
<1>2. body' \in [Clients -> [Entities -> Bodies]]
  <2>1. body' = body \/ body' = [body EXCEPT ![c][e] = "dead"]
    BY Zenon DEF Hook_CharacterDeath, Hook_CharacterKO
  <2>2. "dead" \in Bodies
    BY DEF Bodies
  <2>3. body \in [Clients -> [Entities -> Bodies]] /\ Shape
    BY DEF IInv, Shape
  <2>4. [body EXCEPT ![c][e] = "dead"] \in [Clients -> [Entities -> Bodies]]
    BY <2>2, <2>3, Bodied
  <2> QED
    BY <2>1, <2>3, <2>4
<1>3. sources' \in 0..MaxSources
  BY BoundsAreNat, SMT DEF Hook_CharacterDeath, Hook_CharacterKO, IInv, Shape
<1>4. UNCHANGED <<alive, health, processed, reports, inbox>>
  BY DEF Hook_CharacterDeath, Hook_CharacterKO
<1> QED
  BY <1>1, <1>2, <1>3, <1>4 DEF IInv, Shape, Limits, DeathIsVerdict

\* A character comes into a game or leaves it.
LEMMA BodiesKeep ==
  ASSUME IInv, NEW c \in Clients, NEW e \in Entities, Appears(c, e) \/ Vanishes(c, e)
  PROVE  IInv'
<1>1. \E b \in Bodies : body' = [body EXCEPT ![c][e] = b]
  <2>1. CASE Appears(c, e)
    <3>1. (IF alive[e] THEN "living" ELSE "late") \in Bodies
      BY DEF Bodies
    <3> QED
      BY <2>1, <3>1 DEF Appears
  <2>2. CASE Vanishes(c, e)
    BY <2>2 DEF Vanishes, Bodies
  <2> QED
    BY <2>1, <2>2
<1>2. body' \in [Clients -> [Entities -> Bodies]]
  BY <1>1, Bodied DEF IInv
<1>3. UNCHANGED <<alive, health, ring, processed, reports, inbox, sources>>
  BY DEF Appears, Vanishes
<1> QED
  BY <1>2, <1>3 DEF IInv, Shape, Limits, DeathIsVerdict

\* An attack records a death before it tells of it.
LEMMA HandleAttackIntentKeeps ==
  ASSUME IInv, NEW c \in Clients, NEW e \in Entities, HandleAttackIntent(c, e)
  PROVE  IInv'
<1>0. PICK h \in ResolveCombat(health[e]) :
        /\ health' = [health EXCEPT ![e] = h]
        /\ \/ /\ IsDeath(h) /\ sources < MaxSources /\ sources' = sources + 1
              /\ alive' = [alive EXCEPT ![e] = FALSE]
              /\ Broadcast("ordered", Death(e))
           \/ /\ IsKO(h) /\ ~IsDeath(h) /\ sources < MaxSources /\ sources' = sources + 1
              /\ Broadcast("ordered", KO(e)) /\ UNCHANGED alive
           \/ ~IsKO(h) /\ UNCHANGED <<alive, inbox, sources>>
  BY Zenon DEF HandleAttackIntent
<1>1. UNCHANGED <<body, ring, processed, reports>>
  BY DEF HandleAttackIntent
<1>2. health' \in [Entities -> [Parts -> Levels]]
  <2>1. health[e] \in [Parts -> Levels]
    BY DEF IInv, Shape
  <2>2. h \in [Parts -> Levels]
    BY <2>1, ResolveTypes
  <2> QED
    BY <2>2, <1>0 DEF IInv, Shape
<1>3. "ordered" \in Channels
  BY DEF Channels
<1>4. CASE /\ sources < MaxSources /\ sources' = sources + 1
           /\ alive' = [alive EXCEPT ![e] = FALSE] /\ Broadcast("ordered", Death(e))
  <2>1. Death(e) \in Message /\ Death(e).id = e
    BY MessageTypes DEF Death
  <2>2. DeathIsVerdict'
    <3>1. ~alive'[e] /\ \A f \in Entities : ~alive[f] => ~alive'[f]
      BY <1>4 DEF IInv, Shape
    <3> QED
      BY <1>3, <1>4, <2>1, <3>1, Recorded
  <2>3. sources' \in 0..MaxSources
    BY <1>4, BoundsAreNat, SMT DEF IInv, Shape
  <2>4. alive' \in [Entities -> BOOLEAN]
    BY <1>4 DEF IInv, Shape
  <2>5. /\ inbox' \in [Clients -> [Channels -> Seq(Message)]]
        /\ \A d \in Clients : \A k \in Channels : Len(inbox'[d][k]) <= ChannelBound
    BY <1>3, <1>4, <2>1, Sent DEF IInv
  <2> QED
    BY <1>1, <1>2, <2>2, <2>3, <2>4, <2>5 DEF IInv, Shape, Limits
<1>5. CASE /\ sources < MaxSources /\ sources' = sources + 1
           /\ Broadcast("ordered", KO(e)) /\ UNCHANGED alive
  <2>1. KO(e) \in Message /\ KO(e).kind # "death"
    BY MessageTypes DEF KO
  <2>2. DeathIsVerdict'
    BY <1>3, <1>5, <2>1, Recorded
  <2>3. sources' \in 0..MaxSources
    BY <1>5, BoundsAreNat, SMT DEF IInv, Shape
  <2>4. /\ inbox' \in [Clients -> [Channels -> Seq(Message)]]
        /\ \A d \in Clients : \A k \in Channels : Len(inbox'[d][k]) <= ChannelBound
    BY <1>3, <1>5, <2>1, Sent DEF IInv
  <2> QED
    BY <1>1, <1>2, <1>5, <2>2, <2>3, <2>4 DEF IInv, Shape, Limits
<1>6. CASE UNCHANGED <<alive, inbox, sources>>
  BY <1>1, <1>2, <1>6 DEF IInv, Shape, Limits, DeathIsVerdict
<1> QED
  BY <1>0, <1>4, <1>5, <1>6

\* A report of a death is recorded before it is passed on, one of a
\* knock-out records nothing, one about a stranger's character is dropped.
LEMMA HandleReportKeeps ==
  ASSUME IInv, NEW c \in Clients, HandleReport(c)
  PROVE  IInv'
<1> DEFINE q == reports[c]  m == Head(q)
<1>1. q \in Seq(Message) /\ q # <<>>
  BY DEF IInv, Shape, HandleReport
<1>2. Tail(q) \in Seq(Message) /\ m \in Message /\ Len(Tail(q)) = Len(q) - 1 /\ Len(q) \in Nat
  BY <1>1, TailOK
<1>3. m.id \in Entities
  BY <1>2 DEF Message
<1>4. reports' \in [Clients -> Seq(Message)] /\ \A d \in Clients : Len(reports'[d]) <= ChannelBound
  <2>1. reports' = [reports EXCEPT ![c] = Tail(q)]
    BY DEF HandleReport
  <2>2. Len(q) <= ChannelBound
    BY DEF IInv, Limits
  <2>3. Len(Tail(q)) <= ChannelBound
    BY <2>2, <1>2, BoundsAreNat, SMT
  <2> QED
    BY <2>1, <2>3, <1>2 DEF IInv, Shape, Limits
<1>5. UNCHANGED <<body, ring, processed, sources>>
  BY DEF HandleReport
<1>6. "ordered" \in Channels /\ "unordered" \in Channels
  BY DEF Channels
<1>7. CASE UNCHANGED <<alive, health, inbox>>
  BY <1>4, <1>5, <1>7 DEF IInv, Shape, Limits, DeathIsVerdict
<1>8. CASE HandleCombatDeath(m.id)
  <2>1. /\ Broadcast("ordered", Death(m.id)) /\ UNCHANGED health
        /\ alive' = [alive EXCEPT ![m.id] = FALSE]
    BY <1>8 DEF HandleCombatDeath
  <2>2. Death(m.id) \in Message /\ Death(m.id).id = m.id
    BY <1>3, MessageTypes DEF Death
  <2>3. ~alive'[m.id] /\ \A f \in Entities : ~alive[f] => ~alive'[f]
    BY <1>3, <2>1 DEF IInv, Shape
  <2>4. DeathIsVerdict'
    BY <1>6, <2>1, <2>2, <2>3, Recorded
  <2>5. alive' \in [Entities -> BOOLEAN]
    BY <1>3, <2>1 DEF IInv, Shape
  <2>6. /\ inbox' \in [Clients -> [Channels -> Seq(Message)]]
        /\ \A d \in Clients : \A k \in Channels : Len(inbox'[d][k]) <= ChannelBound
    BY <1>6, <2>1, <2>2, Sent DEF IInv
  <2> QED
    BY <1>4, <1>5, <2>1, <2>4, <2>5, <2>6 DEF IInv, Shape, Limits
<1>9. CASE HandleCombatKO(m.id)
  <2>1. PICK l \in Levels : /\ Broadcast("unordered", KO(m.id)) /\ UNCHANGED alive
                            /\ health' = [health EXCEPT ![m.id]["Head"] = l]
    BY <1>9 DEF HandleCombatKO
  <2>2. KO(m.id) \in Message /\ KO(m.id).kind # "death"
    BY <1>3, MessageTypes DEF KO
  <2>3. DeathIsVerdict'
    BY <1>6, <2>1, <2>2, Recorded
  <2>4. health' \in [Entities -> [Parts -> Levels]]
    <3>1. health[m.id] \in [Parts -> Levels]
      BY <1>3 DEF IInv, Shape
    <3>2. [health[m.id] EXCEPT !["Head"] = l] \in [Parts -> Levels]
      BY <3>1
    <3> QED
      BY <1>3, <2>1, <3>2 DEF IInv, Shape
  <2>5. /\ inbox' \in [Clients -> [Channels -> Seq(Message)]]
        /\ \A d \in Clients : \A k \in Channels : Len(inbox'[d][k]) <= ChannelBound
    BY <1>6, <2>1, <2>2, Sent DEF IInv
  <2> QED
    BY <1>4, <1>5, <2>1, <2>3, <2>4, <2>5 DEF IInv, Shape, Limits
<1> QED
  BY <1>7, <1>8, <1>9, Zenon DEF HandleReport

\* Every step of a client, of a hook or of the server keeps the invariant.
LEMMA NextKeeps == IInv /\ [Next]_vars => IInv'
<1> SUFFICES ASSUME IInv, [Next]_vars PROVE IInv'
  OBVIOUS
<1>1. CASE UNCHANGED vars
  BY <1>1 DEF vars, IInv, Shape, Limits, DeathIsVerdict
<1>2. ASSUME NEW c \in Clients,
             \/ ProcessDeferredEvents(c) \/ HandleReport(c)
             \/ \E ch \in Channels : HandlePacket(c, ch)
             \/ \E e \in Entities :
                  \/ Hook_CharacterDeath(c, e) \/ Hook_CharacterKO(c, e) \/ HandleAttackIntent(c, e)
                  \/ Appears(c, e) \/ Vanishes(c, e)
      PROVE IInv'
  BY <1>2, ProcessKeeps, HandleReportKeeps, HandlePacketKeeps, HooksKeep, HandleAttackIntentKeeps,
     BodiesKeep
<1> QED
  BY <1>1, <1>2, Zenon DEF Next

\* The invariant holds in every state.
LEMMA Inductive == Spec => []IInv
  BY InitHolds, NextKeeps, PTL DEF Spec

\* The state is well typed and every queue stays within its limit, for any
\* players, characters, owners and sizes (combat_hooks.cpp:61, the ring).
THEOREM TypeCorrect == Spec => []TypeOK
<1>1. IInv => TypeOK
  BY DEF IInv, Shape, Limits, TypeOK
<1> QED
  BY <1>1, Inductive, PTL

\* The server never tells of a death it has not recorded, whoever attacks and
\* whatever is reported (server.cpp:719 and 1633, alive before the broadcast).
THEOREM DeathsAreVerdicts == Spec => []DeathIsVerdict
<1>1. IInv => DeathIsVerdict
  BY DEF IInv
<1> QED
  BY <1>1, Inductive, PTL

-----------------------------------------------------------------------------
(* The messages that go round.                                             *)

\* What a message adds to those about a client's own characters.
Share(c, m) == IF Owner[m.id] = c THEN 1 ELSE 0

\* The places in a queue that hold a client's own.
OwnPlaces(c, messages) == {i \in 1..Len(messages) : Owner[messages[i].id] = c}

\* They are finitely many.
LEMMA PlacesAreFinite ==
  ASSUME NEW s \in Seq(Message), NEW c
  PROVE  IsFiniteSet(OwnPlaces(c, s)) /\ OwnMessages(c, s) \in Nat
<1>1. Len(s) \in Nat /\ IsFiniteSet(1..Len(s))
  BY FS_Interval, SMT
<1>2. IsFiniteSet(OwnPlaces(c, s))
  BY <1>1, FS_Subset DEF OwnPlaces
<1> QED
  BY <1>2, FS_CardinalityType DEF OwnMessages, OwnPlaces

\* Nothing is in an empty queue.
LEMMA NoOwnMessages == \A c : OwnMessages(c, <<>>) = 0
<1> SUFFICES ASSUME NEW c PROVE OwnMessages(c, <<>>) = 0
  OBVIOUS
<1>1. {i \in 1..Len(<<>>) : Owner[<<>>[i].id] = c} = {}
  BY SMT
<1> QED
  BY <1>1, FS_EmptySet DEF OwnMessages

\* A message put at the end of a queue adds its share.
LEMMA AppendAddsShare ==
  ASSUME NEW s \in Seq(Message), NEW m \in Message, NEW c
  PROVE  OwnMessages(c, Append(s, m)) = OwnMessages(c, s) + Share(c, m)
<1> DEFINE t == Append(s, m)
           n == Len(s)
<1>1. /\ n \in Nat /\ Len(t) = n + 1 /\ t[n + 1] = m
      /\ \A i \in 1..n : t[i] = s[i]
  BY SMT
<1>2. OwnPlaces(c, t) = OwnPlaces(c, s) \cup (IF Owner[m.id] = c THEN {n + 1} ELSE {})
  <2> HIDE DEF t, n
  <2>1. 1..Len(t) = 1..n \cup {n + 1}
    BY <1>1, SMT
  <2>2. OwnPlaces(c, s) = {i \in 1..n : Owner[s[i].id] = c}
    BY DEF OwnPlaces, n
  <2> QED
    BY <1>1, <2>1, <2>2 DEF OwnPlaces
<1>3. IsFiniteSet(OwnPlaces(c, s)) /\ n + 1 \notin OwnPlaces(c, s)
  <2>1. n + 1 \notin 1..n
    BY <1>1, SMT
  <2> QED
    BY <2>1, PlacesAreFinite DEF OwnPlaces
<1> HIDE DEF t, n
<1>4. Cardinality(OwnPlaces(c, t)) = Cardinality(OwnPlaces(c, s)) + Share(c, m)
  <2>1. CASE Owner[m.id] = c
    <3>1. OwnPlaces(c, t) = OwnPlaces(c, s) \cup {n + 1}
      BY <1>2, <2>1
    <3> QED
      BY <1>3, <2>1, <3>1, FS_AddElement DEF Share
  <2>2. CASE Owner[m.id] # c
    <3>1. OwnPlaces(c, t) = OwnPlaces(c, s) /\ Cardinality(OwnPlaces(c, s)) \in Nat
      BY <1>2, <1>3, <2>2, FS_CardinalityType
    <3> QED
      BY <2>2, <3>1, SMT DEF Share
  <2> QED
    BY <2>1, <2>2
<1> QED
  BY <1>4 DEF OwnMessages, OwnPlaces, t

\* The message taken from the front of a queue takes its share with it.
LEMMA TailTakesShare ==
  ASSUME NEW s \in Seq(Message), s # <<>>, NEW c
  PROVE  OwnMessages(c, s) = OwnMessages(c, Tail(s)) + Share(c, Head(s))
<1> DEFINE t == Tail(s)
           n == Len(s)
           later == {i \in OwnPlaces(c, s) : i # 1}
           up == [i \in OwnPlaces(c, t) |-> i + 1]
<1>1. /\ n \in Nat /\ n >= 1 /\ Len(t) = n - 1 /\ t \in Seq(Message) /\ Head(s) = s[1]
      /\ \A i \in 1..Len(t) : t[i] = s[i + 1]
  BY TailOK, SMT
<1>2. up \in Bijection(OwnPlaces(c, t), later)
  <2>1. \A i \in OwnPlaces(c, t) : i \in Nat /\ i + 1 \in later
    <3> SUFFICES ASSUME NEW i \in OwnPlaces(c, t) PROVE i \in Nat /\ i + 1 \in later
      OBVIOUS
    <3>1. i \in 1..Len(t) /\ Owner[t[i].id] = c
      BY DEF OwnPlaces
    <3>2. t[i] = s[i + 1]
      BY <1>1, <3>1
    <3> HIDE DEF t
    <3>3. i \in Nat /\ i + 1 \in 1..n /\ i + 1 # 1
      BY <1>1, <3>1, SMT
    <3> QED
      BY <3>1, <3>2, <3>3 DEF OwnPlaces
  <2>2. up \in [OwnPlaces(c, t) -> later]
    BY <2>1
  <2>3. \A i, j \in OwnPlaces(c, t) : up[i] = up[j] => i = j
    <3> SUFFICES ASSUME NEW i \in OwnPlaces(c, t), NEW j \in OwnPlaces(c, t), up[i] = up[j]
                 PROVE  i = j
      OBVIOUS
    <3>1. i \in Nat /\ j \in Nat /\ i + 1 = j + 1
      BY <2>1
    <3> QED
      BY <3>1, SMT
  <2>4. \A i \in later : \E j \in OwnPlaces(c, t) : up[j] = i
    <3> SUFFICES ASSUME NEW i \in later PROVE \E j \in OwnPlaces(c, t) : up[j] = i
      OBVIOUS
    <3>1. i \in 1..n /\ i # 1 /\ Owner[s[i].id] = c
      BY DEF OwnPlaces
    <3> HIDE DEF t
    <3>2. i - 1 \in 1..Len(t) /\ (i - 1) + 1 = i
      BY <1>1, <3>1, SMT
    <3>3. t[i - 1] = s[i]
      BY <1>1, <3>2
    <3>4. i - 1 \in OwnPlaces(c, t)
      BY <3>1, <3>2, <3>3 DEF OwnPlaces
    <3> QED
      BY <3>2, <3>4
  <2> QED
    BY <2>2, <2>3, <2>4, Fun_IsBij
<1>3. IsFiniteSet(OwnPlaces(c, t)) /\ IsFiniteSet(OwnPlaces(c, s))
  BY <1>1, PlacesAreFinite
<1> HIDE DEF t, n, up
<1>4. Cardinality(later) = Cardinality(OwnPlaces(c, t))
  <2>1. ExistsBijection(OwnPlaces(c, t), later)
    BY <1>2 DEF ExistsBijection
  <2> HIDE DEF later
  <2> QED
    BY <1>3, <2>1, FS_Bijection
<1>5. later = OwnPlaces(c, s) \ {1}
  OBVIOUS
<1>6. 1 \in OwnPlaces(c, s) <=> Owner[Head(s).id] = c
  <2>1. 1 \in 1..n
    BY <1>1, SMT
  <2> QED
    BY <1>1, <2>1 DEF OwnPlaces, n
<1>7. Cardinality(later) =
        IF 1 \in OwnPlaces(c, s) THEN Cardinality(OwnPlaces(c, s)) - 1
                                 ELSE Cardinality(OwnPlaces(c, s))
  <2> HIDE DEF later
  <2> QED
    BY <1>3, <1>5, FS_RemoveElement
<1> HIDE DEF later
<1>8. Cardinality(OwnPlaces(c, s)) \in Nat /\ Cardinality(OwnPlaces(c, t)) \in Nat
  BY <1>3, FS_CardinalityType
<1>9. Cardinality(OwnPlaces(c, s)) = Cardinality(OwnPlaces(c, t)) + Share(c, Head(s))
  BY <1>4, <1>6, <1>7, <1>8, SMT DEF Share
<1> QED
  BY <1>9 DEF OwnMessages, OwnPlaces, t

\* A client's own messages, queue by queue.
LEMMA CountsAreNat ==
  ASSUME Shape, NEW c \in Clients
  PROVE  /\ OwnMessages(c, ring[c]) \in Nat /\ OwnMessages(c, reports[c]) \in Nat
         /\ \A ch \in Channels : OwnMessages(c, inbox[c][ch]) \in Nat
         /\ "ordered" \in Channels /\ "unordered" \in Channels
         /\ \A ch \in Channels : ch = "ordered" \/ ch = "unordered"
         /\ \A m : Share(c, m) \in {0, 1}
         /\ sources \in Nat
BY PlacesAreFinite, BoundsAreNat, SMT DEF Shape, Channels, Share

\* PushEvent adds the event's share to the ring, or nothing.
LEMMA PushCounts ==
  ASSUME Shape, NEW c \in Clients, NEW m \in Message, PushEvent(c, m), NEW d \in Clients
  PROVE  \/ OwnMessages(d, ring'[d]) = OwnMessages(d, ring[d])
         \/ d = c /\ OwnMessages(d, ring'[d]) = OwnMessages(d, ring[d]) + Share(d, m)
<1>1. ring[c] \in Seq(Message)
  BY DEF Shape
<1>2. CASE ring' = ring
  BY <1>2
<1>3. CASE ring' = [ring EXCEPT ![c] = Append(ring[c], m)]
  <2>1. CASE d = c
    <3>1. ring'[d] = Append(ring[c], m)
      BY <1>3, <2>1 DEF Shape
    <3> QED
      BY <1>1, <2>1, <3>1, AppendAddsShare
  <2>2. CASE d # c
    BY <1>3, <2>2 DEF Shape
  <2> QED
    BY <2>1, <2>2
<1> QED
  BY <1>2, <1>3 DEF PushEvent

\* Broadcast adds its message's share to one channel of every client.
LEMMA BroadcastCounts ==
  ASSUME Shape, NEW ch \in Channels, NEW m \in Message, Broadcast(ch, m),
         NEW d \in Clients, NEW k \in Channels
  PROVE  OwnMessages(d, inbox'[d][k]) =
           OwnMessages(d, inbox[d][k]) + (IF k = ch THEN Share(d, m) ELSE 0)
<1>1. inbox[d] \in [Channels -> Seq(Message)] /\ inbox[d][k] \in Seq(Message)
  BY DEF Shape
<1>2. inbox'[d] = [inbox[d] EXCEPT ![ch] = Append(inbox[d][ch], m)]
  BY DEF Broadcast
<1>3. CASE k = ch
  <2>1. inbox'[d][k] = Append(inbox[d][k], m)
    BY <1>1, <1>2, <1>3
  <2> QED
    BY <1>1, <1>3, <2>1, AppendAddsShare
<1>4. CASE k # ch
  <2>1. inbox'[d][k] = inbox[d][k] /\ OwnMessages(d, inbox[d][k]) \in Nat
    BY <1>1, <1>2, <1>4, CountsAreNat
  <2> QED
    BY <1>4, <2>1, SMT
<1> QED
  BY <1>3, <1>4

\* An event the tick takes from the ring becomes a report, or is gone.
LEMMA ProcessDoesNotGrow ==
  ASSUME Shape, EchoDoesNotGrow, NEW c \in Clients, ProcessDeferredEvents(c)
  PROVE  EchoDoesNotGrow'
<1> DEFINE m == Head(ring[c])
<1>1. ring[c] \in Seq(Message) /\ ring[c] # <<>> /\ m \in Message /\ reports[c] \in Seq(Message)
  BY TailOK DEF Shape, ProcessDeferredEvents
<1>2. /\ ring' = [ring EXCEPT ![c] = Tail(ring[c])]
      /\ reports' = reports \/ reports' = [reports EXCEPT ![c] = Append(reports[c], m)]
      /\ UNCHANGED <<inbox, sources>>
  BY Zenon DEF ProcessDeferredEvents
<1> SUFFICES ASSUME NEW d \in Clients PROVE Circulating(d)' <= sources'
  BY DEF EchoDoesNotGrow
<1>3. Circulating(d) <= sources
  BY DEF EchoDoesNotGrow
<1>4. CASE d # c
  <2>1. ring'[d] = ring[d] /\ reports'[d] = reports[d]
    BY <1>2, <1>4 DEF Shape
  <2> QED
    BY <1>2, <1>3, <2>1 DEF Circulating
<1>5. CASE d = c
  <2> DEFINE r == OwnMessages(d, ring[d])  q == OwnMessages(d, reports[d])
             rr == OwnMessages(d, ring'[d])  qq == OwnMessages(d, reports'[d])
             x == OwnMessages(d, inbox[d]["ordered"])  y == OwnMessages(d, inbox[d]["unordered"])
  <2>1. r = rr + Share(d, m)
    <3>1. ring'[d] = Tail(ring[d])
      BY <1>2, <1>5 DEF Shape
    <3> QED
      BY <1>1, <1>5, <3>1, TailTakesShare
  <2>2. qq = q \/ qq = q + Share(d, m)
    <3>1. reports'[d] = reports[d] \/ reports'[d] = Append(reports[d], m)
      BY <1>2, <1>5 DEF Shape
    <3> QED
      BY <1>1, <1>5, <3>1, AppendAddsShare
  <2>3. rr \in Nat
    <3>1. Tail(ring[d]) \in Seq(Message) /\ ring'[d] = Tail(ring[d])
      BY <1>1, <1>2, <1>5, TailOK DEF Shape
    <3> QED
      BY <3>1, PlacesAreFinite
  <2>4. /\ r \in Nat /\ q \in Nat /\ x \in Nat /\ y \in Nat /\ Share(d, m) \in {0, 1}
        /\ sources \in Nat
    BY CountsAreNat
  <2>5. r + q + x + y <= sources
    BY <1>3 DEF Circulating
  <2>6. Circulating(d)' = rr + qq + x + y
    BY <1>2 DEF Circulating
  <2> HIDE DEF r, q, rr, qq, x, y, m
  <2>7. rr + qq + x + y <= sources
    BY <2>1, <2>2, <2>3, <2>4, <2>5, SMT
  <2> QED
    BY <1>2, <2>6, <2>7
<1> QED
  BY <1>4, <1>5

\* A message a client takes from a channel goes into its ring, or is gone.
LEMMA PacketDoesNotGrow ==
  ASSUME Shape, EchoDoesNotGrow, NEW c \in Clients, NEW ch \in Channels, HandlePacket(c, ch)
  PROVE  EchoDoesNotGrow'
<1> DEFINE m == Head(inbox[c][ch])
<1>1. inbox[c][ch] \in Seq(Message) /\ inbox[c][ch] # <<>> /\ m \in Message
  BY TailOK DEF Shape, HandlePacket
<1>2. /\ inbox' = [inbox EXCEPT ![c][ch] = Tail(inbox[c][ch])]
      /\ PushEvent(c, m) \/ UNCHANGED ring
      /\ UNCHANGED <<reports, sources>>
  BY Zenon DEF HandlePacket
<1>3. \A d \in Clients : \A k \in Channels :
        inbox'[d][k] = IF d = c /\ k = ch THEN Tail(inbox[c][ch]) ELSE inbox[d][k]
  BY <1>2 DEF Shape
<1> SUFFICES ASSUME NEW d \in Clients PROVE Circulating(d)' <= sources'
  BY DEF EchoDoesNotGrow
<1> DEFINE r == OwnMessages(d, ring[d])  rr == OwnMessages(d, ring'[d])
           q == OwnMessages(d, reports[d])
           in(k) == OwnMessages(d, inbox[d][k])  after(k) == OwnMessages(d, inbox'[d][k])
           s == Share(d, m)
<1>4. /\ r \in Nat /\ q \in Nat /\ \A k \in Channels : in(k) \in Nat
      /\ s \in {0, 1} /\ sources \in Nat
      /\ "ordered" \in Channels /\ "unordered" \in Channels
      /\ \A k \in Channels : k = "ordered" \/ k = "unordered"
  BY CountsAreNat
<1>5. r + q + in("ordered") + in("unordered") <= sources
  BY DEF EchoDoesNotGrow, Circulating
<1>6. Circulating(d)' = rr + q + after("ordered") + after("unordered")
  BY <1>2 DEF Circulating
<1>7. rr = r \/ (d = c /\ rr = r + s)
  <2>1. CASE UNCHANGED ring
    BY <2>1
  <2> QED
    BY <1>1, <1>2, <2>1, PushCounts
<1>8. CASE d # c
  <2>1. after("ordered") = in("ordered") /\ after("unordered") = in("unordered")
    BY <1>3, <1>4, <1>8
  <2> QED
    BY <1>2, <1>5, <1>6, <1>7, <1>8, <2>1
<1>9. CASE d = c
  <2>1. in(ch) = after(ch) + s /\ \A k \in Channels : k # ch => after(k) = in(k)
    BY <1>1, <1>3, <1>9, TailTakesShare
  <2>2. after(ch) \in Nat
    <3>1. Tail(inbox[c][ch]) \in Seq(Message)
      BY <1>1, TailOK
    <3> QED
      BY <1>3, <1>9, <3>1, PlacesAreFinite
  <2> HIDE DEF r, rr, q, in, after, s
  <2>3. rr + q + after("ordered") + after("unordered") <= sources
    <3>1. CASE ch = "ordered"
      <4>1. in("ordered") = after("ordered") + s /\ after("unordered") = in("unordered")
        BY <1>4, <2>1, <3>1
      <4> QED
        BY <1>4, <1>5, <1>7, <2>2, <3>1, <4>1, SMT
    <3>2. CASE ch = "unordered"
      <4>1. in("unordered") = after("unordered") + s /\ after("ordered") = in("ordered")
        BY <1>4, <2>1, <3>2
      <4> QED
        BY <1>4, <1>5, <1>7, <2>2, <3>2, <4>1, SMT
    <3> QED
      BY <1>4, <3>1, <3>2
  <2> QED
    BY <1>2, <1>6, <2>3
<1> QED
  BY <1>8, <1>9

\* A hook's event is one more, and so is the death or knock-out it reports.
LEMMA HooksDoNotGrow ==
  ASSUME Shape, EchoDoesNotGrow, NEW c \in Clients, NEW e \in Entities,
         Hook_CharacterDeath(c, e) \/ Hook_CharacterKO(c, e)
  PROVE  EchoDoesNotGrow'
<1>1. PICK m \in Message : PushEvent(c, m) /\ sources' = sources + 1 /\ UNCHANGED <<reports, inbox>>
  BY MessageTypes DEF Hook_CharacterDeath, Hook_CharacterKO
<1> SUFFICES ASSUME NEW d \in Clients PROVE Circulating(d)' <= sources'
  BY DEF EchoDoesNotGrow
<1> DEFINE r == OwnMessages(d, ring[d])  rr == OwnMessages(d, ring'[d])
           q == OwnMessages(d, reports[d])
           x == OwnMessages(d, inbox[d]["ordered"])  y == OwnMessages(d, inbox[d]["unordered"])
           s == Share(d, m)
<1>2. r \in Nat /\ q \in Nat /\ x \in Nat /\ y \in Nat /\ s \in {0, 1} /\ sources \in Nat
  BY CountsAreNat
<1>3. rr = r \/ rr = r + s
  BY <1>1, PushCounts
<1>4. r + q + x + y <= sources
  BY DEF EchoDoesNotGrow, Circulating
<1>5. Circulating(d)' = rr + q + x + y
  BY <1>1 DEF Circulating
<1> HIDE DEF r, rr, q, x, y, s
<1>6. rr + q + x + y <= sources + 1
  BY <1>2, <1>3, <1>4, SMT
<1> QED
  BY <1>1, <1>5, <1>6

\* A broadcast adds at most its share to what circulates.
LEMMA BroadcastAdds ==
  ASSUME Shape, NEW ch \in Channels, NEW m \in Message, Broadcast(ch, m), ring' = ring,
         NEW d \in Clients, OwnMessages(d, reports'[d]) \in Nat
  PROVE  /\ Circulating(d)' \in Nat
         /\ Circulating(d)' + OwnMessages(d, reports[d]) =
              Circulating(d) + Share(d, m) + OwnMessages(d, reports'[d])
<1> DEFINE r == OwnMessages(d, ring[d])
           q == OwnMessages(d, reports[d])  qq == OwnMessages(d, reports'[d])
           in(k) == OwnMessages(d, inbox[d][k])  after(k) == OwnMessages(d, inbox'[d][k])
           s == Share(d, m)
<1>1. /\ r \in Nat /\ q \in Nat /\ \A k \in Channels : in(k) \in Nat /\ s \in {0, 1}
      /\ "ordered" \in Channels /\ "unordered" \in Channels
      /\ \A k \in Channels : k = "ordered" \/ k = "unordered"
  BY CountsAreNat
<1>2. \A k \in Channels : after(k) = in(k) + (IF k = ch THEN s ELSE 0)
  BY BroadcastCounts
<1>3. Circulating(d) = r + q + in("ordered") + in("unordered")
  BY DEF Circulating
<1>4. Circulating(d)' = r + qq + after("ordered") + after("unordered")
  BY DEF Circulating
<1> HIDE DEF r, q, qq, in, after, s
<1>5. qq \in Nat /\ after("ordered") + after("unordered") = in("ordered") + in("unordered") + s
  <2>1. qq \in Nat
    BY DEF qq
  <2>2. CASE ch = "ordered"
    <3>1. after("ordered") = in("ordered") + s /\ after("unordered") = in("unordered") + 0
      BY <1>1, <1>2, <2>2
    <3> QED
      BY <1>1, <2>1, <3>1, SMT
  <2>3. CASE ch = "unordered"
    <3>1. after("unordered") = in("unordered") + s /\ after("ordered") = in("ordered") + 0
      BY <1>1, <1>2, <2>3
    <3> QED
      BY <1>1, <2>1, <3>1, SMT
  <2> QED
    BY <1>1, <2>2, <2>3
<1>6. \A k \in Channels : after(k) \in Nat
  BY <1>1, <1>2, SMT
<1>7. Circulating(d)' \in Nat /\ Circulating(d)' + q = Circulating(d) + s + qq
  <2>1. after("ordered") \in Nat /\ after("unordered") \in Nat
    BY <1>1, <1>6
  <2> QED
    BY <1>1, <1>3, <1>4, <1>5, <2>1, SMT
<1> QED
  BY <1>7 DEF q, qq, s

\* What circulates is a number.
LEMMA CirculatingIsNat ==
  ASSUME Shape, NEW d \in Clients
  PROVE  Circulating(d) \in Nat
<1> DEFINE r == OwnMessages(d, ring[d])  q == OwnMessages(d, reports[d])
           x == OwnMessages(d, inbox[d]["ordered"])  y == OwnMessages(d, inbox[d]["unordered"])
<1>1. r \in Nat /\ q \in Nat /\ x \in Nat /\ y \in Nat
  BY CountsAreNat
<1>2. Circulating(d) = r + q + x + y
  BY DEF Circulating
<1> HIDE DEF r, q, x, y
<1> QED
  BY <1>1, <1>2, SMT

\* An attack's verdict is one more, for the target's owner, and counts as one.
LEMMA AttackDoesNotGrow ==
  ASSUME Shape, Shape', EchoDoesNotGrow, NEW c \in Clients, NEW e \in Entities,
         HandleAttackIntent(c, e)
  PROVE  EchoDoesNotGrow'
<1>1. UNCHANGED <<ring, reports>>
  BY DEF HandleAttackIntent
<1>2. \/ \E m \in Message : Broadcast("ordered", m) /\ sources' = sources + 1
      \/ UNCHANGED <<inbox, sources>>
  BY MessageTypes DEF HandleAttackIntent
<1>3. CASE UNCHANGED <<inbox, sources>>
  BY <1>1, <1>3 DEF EchoDoesNotGrow, Circulating
<1>4. ASSUME NEW m \in Message, Broadcast("ordered", m), sources' = sources + 1
      PROVE  EchoDoesNotGrow'
  <2> SUFFICES ASSUME NEW d \in Clients PROVE Circulating(d)' <= sources'
    BY DEF EchoDoesNotGrow
  <2> DEFINE q == OwnMessages(d, reports[d])  n == Circulating(d)  nn == Circulating(d)'
             s == Share(d, m)
  <2>1. /\ q \in Nat /\ s \in {0, 1} /\ sources \in Nat /\ "ordered" \in Channels
        /\ reports'[d] = reports[d]
    BY <1>1, CountsAreNat
  <2>2. n \in Nat /\ n <= sources
    BY CirculatingIsNat DEF EchoDoesNotGrow
  <2>3. nn \in Nat /\ nn + q = n + s + q
    BY <1>1, <1>4, <2>1, BroadcastAdds
  <2> HIDE DEF q, n, nn, s
  <2>4. nn <= sources + 1
    BY <2>1, <2>2, <2>3, SMT
  <2> QED
    BY <1>4, <2>4 DEF nn
<1> QED
  BY <1>2, <1>3, <1>4

\* A report is passed on once, to its sender and to everybody else; for the others
\* it is not one of their own.
LEMMA ReportDoesNotGrow ==
  ASSUME Shape, Shape', EchoDoesNotGrow, NEW c \in Clients, HandleReport(c)
  PROVE  EchoDoesNotGrow'
<1> DEFINE m == Head(reports[c])
<1>1. /\ reports[c] \in Seq(Message) /\ reports[c] # <<>> /\ m \in Message /\ m.id \in Entities
      /\ Tail(reports[c]) \in Seq(Message)
  <2>1. reports[c] \in Seq(Message) /\ reports[c] # <<>>
    BY DEF Shape, HandleReport
  <2>2. m \in Message /\ Tail(reports[c]) \in Seq(Message)
    BY <2>1, TailOK
  <2> QED
    BY <2>1, <2>2 DEF Message
<1>2. reports' = [reports EXCEPT ![c] = Tail(reports[c])] /\ UNCHANGED <<ring, sources>>
  BY DEF HandleReport
<1>3. \/ UNCHANGED inbox
      \/ Owner[m.id] = c /\ \E ch \in Channels : \E b \in {Death(m.id), KO(m.id)} : Broadcast(ch, b)
  BY Zenon DEF HandleReport, HandleCombatDeath, HandleCombatKO, Channels
<1>4. \A d \in Clients : reports'[d] = IF d = c THEN Tail(reports[c]) ELSE reports[d]
  BY <1>2 DEF Shape
<1> SUFFICES ASSUME NEW d \in Clients PROVE Circulating(d)' <= sources'
  BY DEF EchoDoesNotGrow
<1> DEFINE q == OwnMessages(d, reports[d])  qq == OwnMessages(d, reports'[d])
           n == Circulating(d)  nn == Circulating(d)'
<1>5. q \in Nat /\ qq \in Nat /\ n \in Nat /\ n <= sources /\ sources \in Nat
  <2>1. q \in Nat /\ sources \in Nat
    BY CountsAreNat
  <2>2. qq \in Nat
    BY PlacesAreFinite DEF Shape
  <2> QED
    BY <2>1, <2>2, CirculatingIsNat DEF EchoDoesNotGrow
<1>6. q = qq + (IF d = c THEN Share(d, m) ELSE 0)
  <2>1. CASE d = c
    BY <1>1, <1>4, <2>1, TailTakesShare
  <2>2. CASE d # c
    BY <1>4, <1>5, <2>2, SMT
  <2> QED
    BY <2>1, <2>2
<1>7. CASE UNCHANGED inbox
  <2> DEFINE r == OwnMessages(d, ring[d])
             x == OwnMessages(d, inbox[d]["ordered"])  y == OwnMessages(d, inbox[d]["unordered"])
             s == Share(d, m)
  <2>1. n = r + q + x + y /\ nn = r + qq + x + y
    BY <1>2, <1>7 DEF Circulating
  <2>2. r \in Nat /\ x \in Nat /\ y \in Nat /\ s \in {0, 1}
    BY CountsAreNat
  <2> HIDE DEF q, qq, n, nn, r, x, y
  <2>3. q = qq + s \/ q = qq
    BY <1>5, <1>6, SMT
  <2> HIDE DEF s
  <2>4. nn <= sources
    BY <1>5, <2>1, <2>2, <2>3, SMT
  <2> QED
    BY <1>2, <2>4 DEF nn
<1>8. ASSUME Owner[m.id] = c, NEW ch \in Channels, NEW b \in {Death(m.id), KO(m.id)}, Broadcast(ch, b)
      PROVE  Circulating(d)' <= sources'
  <2>1. b \in Message /\ b.id = m.id
    <3> DEFINE e == m.id
    <3>1. e \in Entities
      BY <1>1
    <3> HIDE DEF e
    <3>2. /\ Death(e) \in Message /\ Death(e).id = e
          /\ KO(e) \in Message /\ KO(e).id = e
      BY <3>1, MessageTypes DEF Death, KO
    <3> QED
      BY <3>2 DEF e
  <2>2. nn \in Nat /\ nn + q = n + Share(d, b) + qq
    BY <1>2, <1>5, <1>8, <2>1, BroadcastAdds
  <2>3. Share(d, b) = (IF d = c THEN Share(d, m) ELSE 0) /\ Share(d, b) \in {0, 1}
    BY <1>8, <2>1 DEF Share
  <2> DEFINE s == Share(d, b)
  <2>4. q = qq + s /\ s \in {0, 1} /\ nn + q = n + s + qq /\ nn \in Nat
    BY <1>6, <2>2, <2>3
  <2> HIDE DEF q, qq, n, nn, s
  <2>5. nn <= sources
    BY <1>5, <2>4, SMT
  <2> QED
    BY <1>2, <2>5 DEF nn
<1> QED
  BY <1>3, <1>7, <1>8

\* Every step keeps the bound.
LEMMA EchoStep == IInv /\ EchoDoesNotGrow /\ [Next]_vars => EchoDoesNotGrow'
<1> SUFFICES ASSUME IInv, EchoDoesNotGrow, [Next]_vars PROVE EchoDoesNotGrow'
  OBVIOUS
<1>1. Shape /\ Shape'
  BY NextKeeps DEF IInv
<1>2. CASE UNCHANGED vars
  BY <1>2 DEF vars, EchoDoesNotGrow, Circulating
<1>3. ASSUME NEW c \in Clients,
             \/ ProcessDeferredEvents(c) \/ HandleReport(c)
             \/ \E ch \in Channels : HandlePacket(c, ch)
             \/ \E e \in Entities :
                  \/ Hook_CharacterDeath(c, e) \/ Hook_CharacterKO(c, e) \/ HandleAttackIntent(c, e)
                  \/ Appears(c, e) \/ Vanishes(c, e)
      PROVE EchoDoesNotGrow'
  <2>1. CASE \E e \in Entities : Appears(c, e) \/ Vanishes(c, e)
    BY <2>1 DEF Appears, Vanishes, EchoDoesNotGrow, Circulating
  <2> QED
    BY <1>1, <1>3, <2>1, ProcessDoesNotGrow, ReportDoesNotGrow, PacketDoesNotGrow, HooksDoNotGrow,
       AttackDoesNotGrow
<1> QED
  BY <1>2, <1>3, Zenon DEF Next

\* Nothing circulates at the start.
LEMMA EchoInit == Init => EchoDoesNotGrow
<1> SUFFICES ASSUME Init, NEW c \in Clients PROVE Circulating(c) <= sources
  BY DEF EchoDoesNotGrow
<1>1. /\ ring[c] = <<>> /\ reports[c] = <<>> /\ sources = 0
      /\ inbox[c]["ordered"] = <<>> /\ inbox[c]["unordered"] = <<>>
  BY DEF Init, Channels
<1>2. Circulating(c) = 0 + 0 + 0 + 0
  BY <1>1, NoOwnMessages DEF Circulating
<1> QED
  BY <1>1, <1>2, SMT

\* Deaths and knock-outs go round between the server and the owner, but they do
\* not multiply, whatever the number of players and the sizes of the queues
\* (packet_handler.cpp:673, the hooked functions called for a broadcast).
THEOREM EchoesDoNotMultiply == Spec => []EchoDoesNotGrow
  BY EchoInit, EchoStep, Inductive, PTL DEF Spec

-----------------------------------------------------------------------------
(* The deaths that arrive.                                                 *)

\* The message of a death is under way to a client.
Told(c, e) == \E i \in 1..Len(inbox[c]["ordered"]) : inbox[c]["ordered"][i] = Death(e)

\* A broadcast leaves on the way what was there, and puts its message there.
LEMMA BroadcastTells ==
  ASSUME Shape, NEW ch \in Channels, NEW m \in Message, Broadcast(ch, m),
         NEW c \in Clients, NEW e \in Entities
  PROVE  /\ Told(c, e) => Told(c, e)'
         /\ ch = "ordered" /\ m = Death(e) => Told(c, e)'
<1> DEFINE s == inbox[c]["ordered"]
<1>1. s \in Seq(Message) /\ inbox[c] \in [Channels -> Seq(Message)] /\ "ordered" \in Channels
  BY DEF Shape, Channels
<1>2. inbox'[c]["ordered"] = IF ch = "ordered" THEN Append(s, m) ELSE s
  BY <1>1 DEF Broadcast
<1>3. /\ Len(s) \in Nat /\ Len(Append(s, m)) = Len(s) + 1 /\ Append(s, m)[Len(s) + 1] = m
      /\ \A i \in 1..Len(s) : Append(s, m)[i] = s[i]
      /\ Len(s) + 1 \in 1..(Len(s) + 1) /\ 1..Len(s) \subseteq 1..(Len(s) + 1)
  BY <1>1, SMT
<1> HIDE DEF s
<1>4. CASE ch = "ordered"
  BY <1>2, <1>3, <1>4 DEF Told, s
<1>5. CASE ch # "ordered"
  BY <1>2, <1>5 DEF Told, s
<1> QED
  BY <1>4, <1>5

\* The handler applies the death it takes, and moves the others up.
LEMMA PacketArrives ==
  ASSUME Shape, DeathArrives, NEW c \in Clients, NEW ch \in Channels, HandlePacket(c, ch)
  PROVE  DeathArrives'
<1> DEFINE s == inbox[c][ch]  m == Head(s)
<1>1. s \in Seq(Message) /\ s # <<>> /\ "ordered" \in Channels
  BY DEF Shape, HandlePacket, Channels
<1>2. /\ m \in Message /\ m.id \in Entities /\ Len(s) \in Nat /\ Tail(s) \in Seq(Message)
      /\ Len(Tail(s)) = Len(s) - 1
      /\ \A i \in 1..Len(s) : i = 1 \/ (i - 1 \in 1..Len(Tail(s)) /\ Tail(s)[i - 1] = s[i])
      /\ s[1] = m
  <2>1. m \in Message
    BY <1>1, TailOK
  <2> QED
    BY <1>1, <2>1, SMT DEF Message
<1>3. \A d \in Clients : \A k \in Channels :
        inbox'[d][k] = IF d = c /\ k = ch THEN Tail(s) ELSE inbox[d][k]
  BY DEF HandlePacket, Shape
<1>4. /\ UNCHANGED alive
      /\ body' = body \/ body' = [body EXCEPT ![c][m.id] = "dead"]
      /\ m.kind = "death" /\ body[c][m.id] # "none" => body' = [body EXCEPT ![c][m.id] = "dead"]
  BY Zenon DEF HandlePacket
<1>5. ASSUME NEW d \in Clients, NEW e \in Entities
      PROVE  body'[d][e] = body[d][e] \/ body'[d][e] = "dead"
  <2>1. CASE body' = body
    BY <2>1
  <2>2. CASE body' = [body EXCEPT ![c][m.id] = "dead"]
    <3>1. body'[d][e] = IF d = c /\ e = m.id THEN "dead" ELSE body[d][e]
      BY <2>2 DEF Shape
    <3> QED
      BY <3>1
  <2> QED
    BY <1>4, <2>1, <2>2
<1> SUFFICES ASSUME NEW d \in Clients, NEW e \in Entities, ~alive[e], body'[d][e] = "living"
             PROVE  Told(d, e)'
  BY <1>4 DEF DeathArrives, Told
<1>6. body[d][e] = "living" /\ Told(d, e)
  BY <1>5 DEF DeathArrives, Told
<1>7. CASE ~(d = c /\ ch = "ordered")
  BY <1>1, <1>3, <1>6, <1>7 DEF Told
<1>8. CASE d = c /\ ch = "ordered"
  <2>1. PICK i \in 1..Len(s) : s[i] = Death(e)
    BY <1>6, <1>8 DEF Told
  <2>2. i # 1
    <3> SUFFICES ASSUME i = 1 PROVE FALSE
      OBVIOUS
    <3>1. m = Death(e) /\ m.kind = "death" /\ m.id = e
      BY <1>2, <2>1 DEF Death
    <3>2. body' = [body EXCEPT ![c][e] = "dead"]
      BY <1>4, <1>6, <1>8, <3>1
    <3>3. body'[c][e] = "dead"
      BY <3>2 DEF Shape
    <3> QED
      BY <1>8, <3>3
  <2>3. i - 1 \in 1..Len(Tail(s)) /\ Tail(s)[i - 1] = Death(e)
    BY <1>2, <2>1, <2>2
  <2>4. inbox'[d]["ordered"] = Tail(s)
    BY <1>1, <1>3, <1>8
  <2> QED
    BY <2>3, <2>4 DEF Told
<1> QED
  BY <1>7, <1>8

\* The server records a death and tells everybody of it in one handler.
LEMMA VerdictArrives ==
  ASSUME Shape, DeathArrives, NEW e \in Entities, UNCHANGED body,
         \/ UNCHANGED <<alive, inbox>>
         \/ alive' = [alive EXCEPT ![e] = FALSE] /\ Broadcast("ordered", Death(e))
         \/ UNCHANGED alive /\ \E ch \in Channels : Broadcast(ch, KO(e))
  PROVE  DeathArrives'
<1>0. Death(e) \in Message /\ KO(e) \in Message /\ "ordered" \in Channels
  BY MessageTypes DEF Channels
<1> SUFFICES ASSUME NEW d \in Clients, NEW f \in Entities, ~alive'[f], body[d][f] = "living"
             PROVE  Told(d, f)'
  BY DEF DeathArrives, Told
<1>1. CASE UNCHANGED <<alive, inbox>>
  BY <1>1 DEF DeathArrives, Told
<1>2. CASE alive' = [alive EXCEPT ![e] = FALSE] /\ Broadcast("ordered", Death(e))
  <2>1. CASE f = e
    BY <1>0, <1>2, <2>1, BroadcastTells
  <2>2. CASE f # e
    <3>1. ~alive[f]
      BY <1>2, <2>2 DEF Shape
    <3>2. Told(d, f)
      BY <3>1 DEF DeathArrives, Told
    <3> QED
      BY <1>0, <1>2, <3>2, BroadcastTells
  <2> QED
    BY <2>1, <2>2
<1>3. CASE UNCHANGED alive /\ \E ch \in Channels : Broadcast(ch, KO(e))
  <2>1. Told(d, f)
    BY <1>3 DEF DeathArrives, Told
  <2> QED
    BY <1>0, <1>3, <2>1, BroadcastTells
<1> QED
  BY <1>1, <1>2, <1>3

\* A body that comes, goes or dies by itself is not a dead character that lives.
LEMMA BodiesArrive ==
  ASSUME Shape, DeathArrives, NEW c \in Clients, NEW e \in Entities, UNCHANGED <<alive, inbox>>,
         \/ UNCHANGED body
         \/ \E b \in Bodies : body' = [body EXCEPT ![c][e] = b] /\ (b = "living" => alive[e])
  PROVE  DeathArrives'
<1> SUFFICES ASSUME NEW d \in Clients, NEW f \in Entities, ~alive[f], body'[d][f] = "living"
             PROVE  Told(d, f)'
  BY DEF DeathArrives, Told
<1>1. body[d][f] = "living"
  <2>1. CASE UNCHANGED body
    BY <2>1
  <2>2. ASSUME NEW b \in Bodies, body' = [body EXCEPT ![c][e] = b], b = "living" => alive[e]
        PROVE  body[d][f] = "living"
    <3>1. body'[d][f] = IF d = c /\ f = e THEN b ELSE body[d][f]
      BY <2>2 DEF Shape
    <3> QED
      BY <2>2, <3>1
  <2> QED
    BY <2>1, <2>2
<1> QED
  BY <1>1 DEF DeathArrives, Told

\* Every step keeps it.
LEMMA ArrivesStep == IInv /\ DeathArrives /\ [Next]_vars => DeathArrives'
<1> SUFFICES ASSUME IInv, DeathArrives, [Next]_vars PROVE DeathArrives'
  OBVIOUS
<1>1. Shape
  BY DEF IInv
<1>2. CASE UNCHANGED vars
  BY <1>2 DEF vars, DeathArrives
<1>3. ASSUME NEW c \in Clients, ProcessDeferredEvents(c)
      PROVE  DeathArrives'
  BY <1>3 DEF ProcessDeferredEvents, DeathArrives
<1>4. ASSUME NEW c \in Clients, HandleReport(c)
      PROVE  DeathArrives'
  <2> DEFINE m == Head(reports[c])
  <2>1. m.id \in Entities
    <3>1. reports[c] \in Seq(Message) /\ reports[c] # <<>>
      BY <1>1, <1>4 DEF Shape, HandleReport
    <3> QED
      BY <3>1, TailOK DEF Message
  <2>2. UNCHANGED body
    BY <1>4 DEF HandleReport
  <2>3. \/ UNCHANGED <<alive, inbox>>
        \/ alive' = [alive EXCEPT ![m.id] = FALSE] /\ Broadcast("ordered", Death(m.id))
        \/ UNCHANGED alive /\ \E ch \in Channels : Broadcast(ch, KO(m.id))
    BY <1>4, Zenon DEF HandleReport, HandleCombatDeath, HandleCombatKO, Channels
  <2> HIDE DEF m
  <2> QED
    BY <1>1, <2>1, <2>2, <2>3, VerdictArrives
<1>5. ASSUME NEW c \in Clients, NEW e \in Entities, HandleAttackIntent(c, e)
      PROVE  DeathArrives'
  <2>1. UNCHANGED body
    BY <1>5 DEF HandleAttackIntent
  <2>2. \/ UNCHANGED <<alive, inbox>>
        \/ alive' = [alive EXCEPT ![e] = FALSE] /\ Broadcast("ordered", Death(e))
        \/ UNCHANGED alive /\ \E ch \in Channels : Broadcast(ch, KO(e))
    BY <1>5, Zenon DEF HandleAttackIntent, Channels
  <2> QED
    BY <1>1, <2>1, <2>2, VerdictArrives
<1>6. ASSUME NEW c \in Clients, NEW e \in Entities,
             \/ Hook_CharacterDeath(c, e) \/ Hook_CharacterKO(c, e)
             \/ Appears(c, e) \/ Vanishes(c, e)
      PROVE  DeathArrives'
  <2>1. UNCHANGED <<alive, inbox>>
    BY <1>6 DEF Hook_CharacterDeath, Hook_CharacterKO, Appears, Vanishes
  <2>2. \/ UNCHANGED body
        \/ \E b \in Bodies : body' = [body EXCEPT ![c][e] = b] /\ (b = "living" => alive[e])
    <3>1. {"none", "living", "dead", "late"} = Bodies
      BY DEF Bodies
    <3>2. CASE Appears(c, e)
      <4> DEFINE b == IF alive[e] THEN "living" ELSE "late"
      <4>1. b \in Bodies /\ (b = "living" => alive[e])
        BY <3>1, Zenon
      <4>2. body' = [body EXCEPT ![c][e] = b]
        BY <3>2, Zenon DEF Appears
      <4> HIDE DEF b
      <4> QED
        BY <4>1, <4>2
    <3>3. CASE Vanishes(c, e)
      <4>1. "none" \in Bodies /\ "none" # "living" /\ body' = [body EXCEPT ![c][e] = "none"]
        BY <3>1, <3>3 DEF Vanishes
      <4> QED
        BY <4>1
    <3>4. CASE Hook_CharacterDeath(c, e)
      <4>1. "dead" \in Bodies /\ "dead" # "living" /\ body' = [body EXCEPT ![c][e] = "dead"]
        BY <3>1, <3>4 DEF Hook_CharacterDeath
      <4> QED
        BY <4>1
    <3>5. CASE Hook_CharacterKO(c, e)
      BY <3>5 DEF Hook_CharacterKO
    <3> QED
      BY <1>6, <3>2, <3>3, <3>4, <3>5
  <2> QED
    BY <1>1, <2>1, <2>2, BodiesArrive
<1>7. ASSUME NEW c \in Clients, NEW ch \in Channels, HandlePacket(c, ch)
      PROVE  DeathArrives'
  BY <1>1, <1>7, PacketArrives
<1> QED
  BY <1>2, <1>3, <1>4, <1>5, <1>6, <1>7, Zenon DEF Next

\* A death the server records is told to every game that shows the character with a
\* body made before, and stays under way until it is applied there, whatever the number
\* of players and the sizes of the queues (server.cpp:719-735 and 1633-1642).
THEOREM DeathsArrive == Spec => []DeathArrives
<1>1. Init => DeathArrives
  BY DEF Init, DeathArrives
<1> QED
  BY <1>1, ArrivesStep, Inductive, PTL DEF Spec
=============================================================================
