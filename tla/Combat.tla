-------------------------------- MODULE Combat --------------------------------
(***************************************************************************)
(* Deaths and knock-outs: the server's verdict on an attack, the reports   *)
(* of the clients' hooks, and the broadcasts that apply both in every      *)
(* game.  A broadcast calls the game's own function, which is hooked, so   *)
(* the client that owns the character reports it again: a death and a      *)
(* knock-out go round between the server and the owner.                    *)
(*                                                                         *)
(* Health is kept in levels per vital part: 0 above -50, 1 down to -100,   *)
(* 2 at or below; a hit (at most 21.6) lowers a part by one level at most. *)
(* Every client stays in the session.  Its own characters are in its game  *)
(* until it loads another one, which gives them new ids; those of the      *)
(* others come into it, alive, and leave it again, as ClientWorld has it.  *)
(* While its game loads a client shows none.  A message of a hit only      *)
(* lowers what a game shows; it is left out.                               *)
(***************************************************************************)
EXTENDS Naturals, Sequences, FiniteSets

CONSTANTS Clients, Entities,
          Owner,         \* the client each entity belongs to
          RingRoom,      \* MAX_DEFERRED_EVENTS - 1 (63 in the code)
          TickCap,       \* events a tick handles (16 in the code)
          ChannelBound,  \* bound: messages under way on one channel
          MaxSources     \* bound: deaths and knock-outs that are no echo

ASSUME OwnerAssumption == Owner \in [Entities -> Clients]
ASSUME BoundsAssumption == {RingRoom, TickCap, ChannelBound, MaxSources} \subseteq Nat \ {0}

VARIABLES alive,    \* ServerEntity::alive
          health,   \* ServerEntity::health, by level
          body,     \* an entity's object in a client's game
          ring,     \* s_eventRing of a client
          processed, \* events this tick has handled
          reports,  \* C2S_CombatDeath and C2S_CombatKO under way
          inbox,    \* S2C_CombatDeath and S2C_CombatKO under way, by channel
          sources   \* deaths and knock-outs so far that are no echo

vars == <<alive, health, body, ring, processed, reports, inbox, sources>>

Parts == {"Head", "Chest", "Limb"}
Levels == 0..2
Bodies == {"none", "living", "dead",
           "late"}   \* living, and made when the server had recorded the death
Channels == {"ordered", "unordered"}   \* two ENet channels, each in order
Message == [kind : {"death", "ko"}, id : Entities]

Death(e) == [kind |-> "death", id |-> e]
KO(e) == [kind |-> "ko", id |-> e]

Init ==
  /\ alive = [e \in Entities |-> TRUE]
  /\ health = [e \in Entities |-> [p \in Parts |-> 0]]
  /\ body = [c \in Clients |-> [e \in Entities |-> IF Owner[e] = c THEN "living" ELSE "none"]]
  /\ ring = [c \in Clients |-> <<>>]
  /\ processed = [c \in Clients |-> 0]
  /\ reports = [c \in Clients |-> <<>>]
  /\ inbox = [c \in Clients |-> [ch \in Channels |-> <<>>]]
  /\ sources = 0

-----------------------------------------------------------------------------
(* A client.                                                               *)

\* Mutant of PushEvent: the test for a full ring is missing.
PushAlways(c, m) == ring' = [ring EXCEPT ![c] = Append(@, m)]

\* A full ring drops the event.  One step, as the comment on the ring assumes
\* (combat_hooks.cpp:57), although the packet handlers push on the network thread.
PushEvent(c, m) ==
  ring' = IF Len(ring[c]) < RingRoom THEN [ring EXCEPT ![c] = Append(@, m)] ELSE ring

\* A queued spawn request gets its body.  It lives: the request's alive flag is set
\* (packet_handler.cpp:504) and never read.
Appears(c, e) ==
  /\ Owner[e] # c /\ body[c][e] = "none"
  /\ body' = [body EXCEPT ![c][e] = IF alive[e] THEN "living" ELSE "late"]
  /\ UNCHANGED <<alive, health, ring, processed, reports, inbox, sources>>

\* Its zone is unloaded, it is despawned, or the player loads another game: the
\* registry knows it no more.
Vanishes(c, e) ==
  /\ body[c][e] # "none"
  /\ body' = [body EXCEPT ![c][e] = "none"]
  /\ UNCHANGED <<alive, health, ring, processed, reports, inbox, sources>>

\* The hook of CharacterDeath, called by the game for a character of the
\* player's or for another player's, which the local game may kill as well.
Hook_CharacterDeath(c, e) ==
  /\ body[c][e] \notin {"none", "dead"} /\ sources < MaxSources /\ sources' = sources + 1
  /\ body' = [body EXCEPT ![c][e] = "dead"]
  /\ PushEvent(c, Death(e))
  /\ UNCHANGED <<alive, health, processed, reports, inbox>>

Hook_CharacterKO(c, e) ==
  /\ body[c][e] \notin {"none", "dead"} /\ sources < MaxSources /\ sources' = sources + 1
  /\ PushEvent(c, KO(e))
  /\ UNCHANGED <<alive, health, body, processed, reports, inbox>>

\* One turn of the loop over the ring.  An event of a character the registry knows
\* as the client's own is reported.  The loop pops before it looks at the cap: one event more is
\* popped, and lost.  That, or an empty ring, ends the tick.
ProcessDeferredEvents(c) ==
  /\ ring[c] # <<>>
  /\ ring' = [ring EXCEPT ![c] = Tail(@)]
  /\ IF processed[c] = TickCap
     THEN processed' = [processed EXCEPT ![c] = 0] /\ UNCHANGED reports
     ELSE /\ Len(reports[c]) < ChannelBound
          /\ reports' = IF Owner[Head(ring[c]).id] = c /\ body[c][Head(ring[c]).id] # "none"
                        THEN [reports EXCEPT ![c] = Append(@, Head(ring[c]))]
                        ELSE reports
          /\ processed' = [processed EXCEPT ![c] = IF Len(ring[c]) = 1 THEN 0 ELSE @ + 1]
  /\ UNCHANGED <<alive, health, body, inbox, sources>>

\* The packet handlers call the game's function, and so the hook.  A death or a
\* knock-out of a character that has no object in the game, or that comes before
\* the game is loaded, is dropped.
HandlePacket(c, ch) ==
  /\ inbox[c][ch] # <<>>
  /\ inbox' = [inbox EXCEPT ![c][ch] = Tail(@)]
  /\ LET m == Head(inbox[c][ch]) IN
       IF body[c][m.id] = "none" THEN UNCHANGED <<body, ring>>
       ELSE /\ body' = IF m.kind = "death" THEN [body EXCEPT ![c][m.id] = "dead"] ELSE body
            /\ PushEvent(c, m)
  /\ UNCHANGED <<alive, health, processed, reports, sources>>

-----------------------------------------------------------------------------
(* The server.                                                             *)

HasRoom(ch) == \A c \in Clients : Len(inbox[c][ch]) < ChannelBound

Broadcast(ch, m) ==
  /\ HasRoom(ch)
  /\ inbox' = [c \in Clients |-> [inbox[c] EXCEPT ![ch] = Append(@, m)]]

\* The broadcast before the audit (Technical Reference 6.5): not to the sender.
BroadcastExcept(c, ch, m) ==
  /\ HasRoom(ch)
  /\ inbox' = [d \in Clients |->
                 IF d = c THEN inbox[d] ELSE [inbox[d] EXCEPT ![ch] = Append(@, m)]]

IsKO(h) == \E p \in Parts : h[p] > 0
IsDeath(h) == h["Head"] = 2 \/ h["Chest"] = 2

\* One part of the target goes down by a level, or stays in its level.
ResolveCombat(h) ==
  {h} \cup {[h EXCEPT ![p] = @ + 1] : p \in {q \in Parts : h[q] < 2}}

\* Mutant of HandleAttackIntent: the attacker, who saw the blow, is left out.
AttackExceptSender(c, target) ==
  /\ alive[target] /\ \E e \in Entities : Owner[e] = c
  /\ \E h \in ResolveCombat(health[target]) :
       /\ health' = [health EXCEPT ![target] = h]
       /\ \/ /\ IsDeath(h) /\ sources < MaxSources /\ sources' = sources + 1
             /\ alive' = [alive EXCEPT ![target] = FALSE]
             /\ BroadcastExcept(c, "ordered", Death(target))
          \/ /\ IsKO(h) /\ ~IsDeath(h) /\ sources < MaxSources /\ sources' = sources + 1
             /\ Broadcast("ordered", KO(target)) /\ UNCHANGED alive
          \/ ~IsKO(h) /\ UNCHANGED <<alive, inbox, sources>>
  /\ UNCHANGED <<body, ring, processed, reports>>

\* Any client may attack; whether the attacker is its own and near enough is
\* checked, whether the attacker lives is not.
HandleAttackIntent(c, target) ==
  /\ alive[target] /\ \E e \in Entities : Owner[e] = c
  /\ \E h \in ResolveCombat(health[target]) :
       /\ health' = [health EXCEPT ![target] = h]
       /\ \/ /\ IsDeath(h) /\ sources < MaxSources /\ sources' = sources + 1
             /\ alive' = [alive EXCEPT ![target] = FALSE]
             /\ Broadcast("ordered", Death(target))
          \/ /\ IsKO(h) /\ ~IsDeath(h) /\ sources < MaxSources /\ sources' = sources + 1
             /\ Broadcast("ordered", KO(target)) /\ UNCHANGED alive
          \/ ~IsKO(h) /\ UNCHANGED <<alive, inbox, sources>>
  /\ UNCHANGED <<body, ring, processed, reports>>

\* Mutant of HandleCombatDeath: the report is passed on, not recorded.
HandleCombatDeathForwards(e) ==
  /\ Broadcast("ordered", Death(e)) /\ UNCHANGED <<alive, health>>

HandleCombatDeath(e) ==
  /\ Broadcast("ordered", Death(e))
  /\ alive' = [alive EXCEPT ![e] = FALSE] /\ UNCHANGED health

\* Mutant of HandleCombatKO: the knock-out goes out on both channels.
HandleCombatKOTwice(e) ==
  /\ \A ch \in Channels : HasRoom(ch)
  /\ inbox' = [c \in Clients |-> [ch \in Channels |-> Append(inbox[c][ch], KO(e))]]
  /\ \E l \in Levels : health' = [health EXCEPT ![e]["Head"] = l]
  /\ UNCHANGED alive

\* The chest's health, as the owner's game has it, is written to health[0]:
\* the head.
HandleCombatKO(e) ==
  /\ Broadcast("unordered", KO(e))
  /\ \E l \in Levels : health' = [health EXCEPT ![e]["Head"] = l]
  /\ UNCHANGED alive

\* A report about a character of someone else is dropped.
HandleReport(c) ==
  /\ reports[c] # <<>>
  /\ reports' = [reports EXCEPT ![c] = Tail(@)]
  /\ LET m == Head(reports[c]) IN
       IF Owner[m.id] # c THEN UNCHANGED <<alive, health, inbox>>
       ELSE \/ m.kind = "death" /\ HandleCombatDeath(m.id)
            \/ m.kind = "ko" /\ HandleCombatKO(m.id)
  /\ UNCHANGED <<body, ring, processed, sources>>

Next == \E c \in Clients :
  \/ ProcessDeferredEvents(c) \/ HandleReport(c)
  \/ \E ch \in Channels : HandlePacket(c, ch)
  \/ \E e \in Entities :
       \/ Hook_CharacterDeath(c, e) \/ Hook_CharacterKO(c, e) \/ HandleAttackIntent(c, e)
       \/ Appears(c, e) \/ Vanishes(c, e)

Spec == Init /\ [][Next]_vars

-----------------------------------------------------------------------------
(* Properties.                                                             *)

\* The state is well typed, the ring and the channels within their limits.
TypeOK ==
  /\ alive \in [Entities -> BOOLEAN]
  /\ health \in [Entities -> [Parts -> Levels]]
  /\ body \in [Clients -> [Entities -> Bodies]]
  /\ \A c \in Clients :
       /\ ring[c] \in Seq(Message) /\ Len(ring[c]) <= RingRoom
       /\ reports[c] \in Seq(Message) /\ Len(reports[c]) <= ChannelBound
       /\ \A ch \in Channels :
            inbox[c][ch] \in Seq(Message) /\ Len(inbox[c][ch]) <= ChannelBound
  /\ processed \in [Clients -> 0..TickCap]
  /\ sources \in 0..MaxSources

\* The server tells nobody of a death it has not recorded: every game that
\* is told to kill a character agrees with the snapshot of a late joiner.
DeathIsVerdict ==
  \A c \in Clients : \A ch \in Channels : \A i \in 1..Len(inbox[c][ch]) :
    inbox[c][ch][i].kind = "death" => ~alive[inbox[c][ch][i].id]

\* What goes round between the server and an owner does not multiply: there
\* are never more messages under way for the characters of a client than
\* there were deaths and knock-outs.
OwnMessages(c, messages) == Cardinality({i \in 1..Len(messages) : Owner[messages[i].id] = c})

Circulating(c) ==
  OwnMessages(c, ring[c]) + OwnMessages(c, reports[c])
    + OwnMessages(c, inbox[c]["ordered"]) + OwnMessages(c, inbox[c]["unordered"])

EchoDoesNotGrow == \A c \in Clients : Circulating(c) <= sources

\* A character the server has recorded as dead lives on in no game without the message
\* of its death being under way there, the attacker's and the reporter's games
\* included, although bodies come and go meanwhile; only a body that was made after
\* the death is told nothing.
DeathArrives ==
  \A c \in Clients : \A e \in Entities :
    ~alive[e] /\ body[c][e] = "living"
      => \E i \in 1..Len(inbox[c]["ordered"]) : inbox[c]["ordered"][i] = Death(e)
===============================================================================
