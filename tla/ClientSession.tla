---------------------------- MODULE ClientSession ----------------------------
(***************************************************************************)
(* How a client gets into a session and out of it: the phases of Core, the *)
(* flags of NetworkClient, and the overlay that dials, greets, retries and *)
(* notices a loss.  Two threads work on that state.  The game thread runs  *)
(* the Present hook once per frame (phases, Overlay::Update, OnGameTick)   *)
(* and, between two frames, what the player clicks or types.  The network  *)
(* thread runs NetworkClient::Update and the handlers of packets.  A step  *)
(* ends where the other thread may see or change what the code reads next. *)
(*                                                                         *)
(* Entities, hooks and the host flag, which SetConnected clears too, are   *)
(* left out; ClientWorld has the entities.                                 *)
(***************************************************************************)
EXTENDS Naturals

CONSTANTS MaxAttempts,  \* m_maxConnectAttempts (6 in the code)
          MaxClicks     \* bound: connects and disconnects the player asks for

ASSUME AttemptsAssumption == MaxAttempts \in Nat \ {0}
ASSUME ClicksAssumption == MaxClicks \in Nat

VARIABLES phase,          \* Core::m_clientPhase
          gameLoaded,     \* Core::m_gameLoaded
          coreConnected,  \* Core::m_connected
          connected,      \* NetworkClient::m_connected
          connecting,     \* NetworkClient::m_connecting
          ovConnecting,   \* Overlay::m_connecting
          retryPending,   \* Overlay::m_retryPending
          attempt,        \* Overlay::m_connectAttempt
          link,           \* what ENet and the server hold of m_serverPeer
          hello,          \* handshakes sent on this connection
          reply,          \* the server's answer under way
          world,          \* the game has characters to be found
          gap,            \* the pause before the next frame
          game,           \* where the game thread is in its frame
          net,            \* where the network thread is in its handler
          clicks          \* connects and disconnects asked for

core == <<phase, gameLoaded, coreConnected>>
client == <<connected, connecting, link, hello, reply>>
overlay == <<ovConnecting, retryPending, attempt>>
vars == <<core, client, overlay, world, gap, game, net, clicks>>

Phases == {"Startup", "MainMenu", "Loading", "GameReady", "Connecting", "Connected"}

Init ==
  /\ phase = "Startup" /\ gameLoaded = FALSE /\ coreConnected = FALSE
  /\ connected = FALSE /\ connecting = FALSE
  /\ link = "none" /\ hello = 0 /\ reply = "none"
  /\ ovConnecting = FALSE /\ retryPending = FALSE /\ attempt = 0
  /\ world = FALSE /\ gap = "none" /\ game = "idle" /\ net = "idle" /\ clicks = 0

-----------------------------------------------------------------------------
(* What several handlers call.                                             *)

\* SetConnected(false), with Overlay::ResetForReconnect; m_connecting stays.
SetConnectedFalse ==
  /\ coreConnected' = FALSE
  /\ phase' = IF gameLoaded THEN "GameReady" ELSE phase
  /\ attempt' = 0 /\ retryPending' = FALSE

ConnectAsync ==
  /\ connecting' = TRUE /\ connected' = FALSE
  /\ link' = "dialing" /\ hello' = 0 /\ reply' = "none"

Disconnect ==
  /\ connected' = FALSE /\ connecting' = FALSE
  /\ link' = "none" /\ hello' = 0 /\ reply' = "none"

\* Mutant of OnLoadingGapDetected: the flag of the last load is not reset.
GapKeepsLoaded == gameLoaded' = gameLoaded /\ phase' = "Loading"

OnLoadingGapDetected == gameLoaded' = FALSE /\ phase' = "Loading"

OnGameLoaded == ~gameLoaded /\ gameLoaded' = TRUE /\ phase' = "GameReady"

-----------------------------------------------------------------------------
(* A frame of the game thread: HookPresent, Overlay::Update, OnGameTick.   *)

\* The pause before this frame, and the phase it is seen in, tell a load.
PresentPhase ==
  /\ game = "idle" /\ game' = "poll" /\ gap' = "none"
  /\ \/ /\ \/ phase = "MainMenu" /\ gap # "none"
           \/ phase = "GameReady" /\ gap = "long"
        /\ OnLoadingGapDetected
     \/ phase = "Startup" /\ phase' = "MainMenu" /\ UNCHANGED gameLoaded
     \/ /\ phase = "MainMenu" => gap = "none"
        /\ phase = "GameReady" => gap # "long"
        /\ UNCHANGED <<phase, gameLoaded>>
  /\ UNCHANGED <<coreConnected, client, overlay, world, net, clicks>>

PollForGameLoad ==
  /\ game = "poll" /\ game' = "retry"
  /\ phase = "Loading" /\ world /\ OnGameLoaded
  /\ UNCHANGED <<coreConnected, client, overlay, world, gap, net, clicks>>

NoPoll ==
  /\ game = "poll" /\ game' = "retry"
  /\ UNCHANGED <<core, client, overlay, world, gap, net, clicks>>

\* Mutant of RetryConnection: the attempt is not counted.
RetryUncounted ==
  /\ game = "retry" /\ game' = "result" /\ retryPending /\ ~ovConnecting
  /\ retryPending' = FALSE
  /\ \/ /\ ~connected /\ ~connecting /\ ConnectAsync
        /\ ovConnecting' = TRUE /\ phase' = "Connecting"
        /\ UNCHANGED attempt
     \/ attempt' = MaxAttempts /\ UNCHANGED <<client, ovConnecting, phase>>
  /\ UNCHANGED <<gameLoaded, coreConnected, world, gap, net, clicks>>

\* Five seconds after a failure; a name that is not found ends the series.
RetryConnection ==
  /\ game = "retry" /\ game' = "result" /\ retryPending /\ ~ovConnecting
  /\ retryPending' = FALSE
  /\ \/ /\ ~connected /\ ~connecting /\ ConnectAsync
        /\ ovConnecting' = TRUE /\ phase' = "Connecting"
        /\ attempt' = attempt + 1
     \/ attempt' = MaxAttempts /\ UNCHANGED <<client, ovConnecting, phase>>
  /\ UNCHANGED <<gameLoaded, coreConnected, world, gap, net, clicks>>

NoRetry ==
  /\ game = "retry" /\ game' = "result"
  /\ UNCHANGED <<core, client, overlay, world, gap, net, clicks>>

\* Mutant of Greet: the overlay goes on waiting for the connection.
GreetAgain ==
  /\ game = "result" /\ game' = "detect" /\ ovConnecting /\ connected
  /\ attempt' = 0 /\ retryPending' = FALSE
  /\ hello' = hello + 1
  /\ UNCHANGED <<core, ovConnecting, connected, connecting, link, reply, world, gap, net, clicks>>

Greet ==
  /\ game = "result" /\ game' = "detect" /\ ovConnecting /\ connected
  /\ ovConnecting' = FALSE /\ attempt' = 0 /\ retryPending' = FALSE
  /\ hello' = hello + 1
  /\ UNCHANGED <<core, connected, connecting, link, reply, world, gap, net, clicks>>

\* IsConnected was false; IsConnecting is read after it.
NotYetConnected ==
  /\ game = "result"
  /\ game' = IF ovConnecting THEN "failed" ELSE "detect"
  /\ ~(ovConnecting /\ connected)
  /\ UNCHANGED <<core, client, overlay, world, gap, net, clicks>>

\* Mutant of AttemptFailed: one attempt more than the limit.
AttemptFailedLate ==
  /\ game = "failed" /\ game' = "detect" /\ ~connecting
  /\ ovConnecting' = FALSE
  /\ \/ /\ attempt <= MaxAttempts /\ retryPending' = TRUE
        /\ UNCHANGED <<attempt, phase>>
     \/ /\ attempt > MaxAttempts /\ attempt' = 0 /\ UNCHANGED retryPending
        /\ phase' = IF gameLoaded THEN "GameReady" ELSE phase
  /\ UNCHANGED <<gameLoaded, coreConnected, client, world, gap, net, clicks>>

AttemptFailed ==
  /\ game = "failed" /\ game' = "detect" /\ ~connecting
  /\ ovConnecting' = FALSE
  /\ \/ /\ attempt < MaxAttempts /\ retryPending' = TRUE
        /\ UNCHANGED <<attempt, phase>>
     \/ /\ attempt >= MaxAttempts /\ attempt' = 0 /\ UNCHANGED retryPending
        /\ phase' = IF gameLoaded THEN "GameReady" ELSE phase
  /\ UNCHANGED <<gameLoaded, coreConnected, client, world, gap, net, clicks>>

StillConnecting ==
  /\ game = "failed" /\ game' = "detect" /\ connecting
  /\ UNCHANGED <<core, client, overlay, world, gap, net, clicks>>

\* Mutant of DetectLoss: a loss is looked for in the phase Connected only.
DetectLossInPhase ==
  /\ game = "detect" /\ game' = "tick"
  /\ \/ /\ coreConnected /\ ~connected /\ phase = "Connected"
        /\ SetConnectedFalse /\ ovConnecting' = FALSE
        /\ UNCHANGED gameLoaded
     \/ /\ ~(coreConnected /\ ~connected /\ phase = "Connected")
        /\ UNCHANGED <<core, overlay>>
  /\ UNCHANGED <<client, world, gap, net, clicks>>

DetectLoss ==
  /\ game = "detect" /\ game' = "tick"
  /\ \/ /\ coreConnected /\ ~connected
        /\ SetConnectedFalse /\ ovConnecting' = FALSE
        /\ UNCHANGED gameLoaded
     \/ /\ ~(coreConnected /\ ~connected)
        /\ UNCHANGED <<core, overlay>>
  /\ UNCHANGED <<client, world, gap, net, clicks>>

\* A client that connected before the load finds the world in its tick.
GameTick ==
  /\ game = "tick" /\ game' = "idle"
  /\ \/ coreConnected /\ world /\ OnGameLoaded /\ UNCHANGED coreConnected
     \/ UNCHANGED core
  /\ UNCHANGED <<client, overlay, world, gap, net, clicks>>

GameStep ==
  \/ PresentPhase \/ PollForGameLoad \/ NoPoll \/ RetryConnection \/ NoRetry
  \/ Greet \/ NotYetConnected \/ AttemptFailed \/ StillConnecting
  \/ DetectLoss \/ GameTick

-----------------------------------------------------------------------------
(* Between two frames: the player, and the game's own loading.             *)

\* The Connect button of the menu: leaves what there is and dials anew.
OnConnectClicked ==
  /\ game = "idle" /\ gameLoaded /\ clicks < MaxClicks /\ clicks' = clicks + 1
  /\ retryPending' = FALSE /\ attempt' = 0
  /\ \/ /\ ConnectAsync /\ ovConnecting' = TRUE /\ phase' = "Connecting"
        /\ coreConnected' = (coreConnected /\ ~connected /\ ~connecting)
     \/ IF connected \/ connecting
        THEN Disconnect /\ SetConnectedFalse /\ UNCHANGED ovConnecting
        ELSE UNCHANGED <<client, coreConnected, phase, ovConnecting>>
  /\ UNCHANGED <<gameLoaded, world, gap, game, net>>

\* /connect, in any phase.
ConnectCommand ==
  /\ game = "idle" /\ clicks < MaxClicks /\ clicks' = clicks + 1
  /\ ~coreConnected /\ ~connected /\ ~connecting
  /\ ConnectAsync /\ phase' = "Connecting" /\ ovConnecting' = TRUE
  /\ UNCHANGED <<gameLoaded, coreConnected, retryPending, attempt, world, gap, game, net>>

\* /disconnect
DisconnectCommand ==
  /\ game = "idle" /\ clicks < MaxClicks /\ clicks' = clicks + 1
  /\ coreConnected /\ Disconnect /\ SetConnectedFalse
  /\ UNCHANGED <<gameLoaded, ovConnecting, world, gap, game, net>>

\* The player loads a save, at any time: the game thread stands still.
LoadSave ==
  /\ game = "idle" /\ world' = TRUE
  /\ \E g \in {"none", "short", "long"} : gap' = g
  /\ UNCHANGED <<core, client, overlay, game, net, clicks>>

\* A pause that is no load: a zone streams in, the window loses the focus.
OtherPause ==
  /\ game = "idle" /\ gap' = "short"
  /\ UNCHANGED <<core, client, overlay, world, game, net, clicks>>

-----------------------------------------------------------------------------
(* The network thread: NetworkClient::Update and the packet handlers.      *)

NetConnect ==
  /\ net = "idle" /\ link = "dialing" /\ link' = "up"
  /\ connected' = TRUE /\ connecting' = FALSE
  /\ UNCHANGED <<core, overlay, hello, reply, world, gap, game, net, clicks>>

\* Nobody answered for KMP_CONNECT_TIMEOUT_MS, or the connection ended.
NetDisconnect ==
  /\ net = "idle" /\ link \in {"dialing", "closed"} /\ Disconnect
  /\ UNCHANGED <<core, overlay, world, gap, game, net, clicks>>

NetReceive ==
  /\ net = "idle" /\ reply \in {"ack", "reject"}
  /\ net' = reply /\ reply' = "done"
  /\ UNCHANGED <<core, overlay, connected, connecting, link, hello, world, gap, game, clicks>>

\* HandleHandshakeAck: SetConnected(true), ...
HandleHandshakeAck ==
  /\ net = "ack" /\ net' = "accepted" /\ coreConnected' = TRUE
  /\ UNCHANGED <<phase, gameLoaded, client, overlay, world, gap, game, clicks>>

\* ... then TransitionTo(Connected).
AckPhase ==
  /\ net = "accepted" /\ net' = "idle" /\ phase' = "Connected"
  /\ UNCHANGED <<gameLoaded, coreConnected, client, overlay, world, gap, game, clicks>>

HandleHandshakeReject ==
  /\ net = "reject" /\ net' = "idle"
  /\ phase' = IF gameLoaded THEN "GameReady" ELSE phase
  /\ UNCHANGED <<gameLoaded, coreConnected, client, overlay, world, gap, game, clicks>>

NetStep == NetConnect \/ NetDisconnect \/ NetReceive
           \/ HandleHandshakeAck \/ AckPhase \/ HandleHandshakeReject

-----------------------------------------------------------------------------
(* The server at the other end.                                            *)

\* It answers the first handshake of a connection, and ignores another.
ServerAnswers ==
  /\ link = "up" /\ hello > 0 /\ reply = "none" /\ reply' = "ack"
  /\ UNCHANGED <<core, overlay, connected, connecting, link, hello, world, gap, game, net, clicks>>

\* A full server, a wrong version or, after the answer, a kick: a reject,
\* then the end.
ServerRejects ==
  /\ link = "up" /\ hello > 0 /\ reply \in {"none", "done"}
  /\ reply' = "reject" /\ link' = "closed"
  /\ UNCHANGED <<core, overlay, connected, connecting, hello, world, gap, game, net, clicks>>

\* A server that is full when ENet connects, stops or dies, a dead network.
ConnectionEnds ==
  /\ link = "up" /\ link' = "closed"
  /\ UNCHANGED <<core, overlay, connected, connecting, hello, reply, world, gap, game, net, clicks>>

Next ==
  \/ GameStep \/ NetStep
  \/ OnConnectClicked \/ ConnectCommand \/ DisconnectCommand \/ LoadSave \/ OtherPause
  \/ ServerAnswers \/ ServerRejects \/ ConnectionEnds

Spec == Init /\ [][Next]_vars

\* Frames go on, the network thread goes round, ENet ends every dial; the
\* two timers of the overlay (2 s and 5 s) elapse in frames that come again
\* and again, hence strong fairness.
Fairness ==
  /\ WF_vars(GameStep) /\ WF_vars(NetStep)
  /\ SF_vars(PollForGameLoad) /\ SF_vars(RetryConnection)

FairSpec == Spec /\ Fairness

-----------------------------------------------------------------------------
(* Properties.                                                             *)

\* The variables are well typed; a series of retries stays within its limit.
TypeOK ==
  /\ phase \in Phases
  /\ gameLoaded \in BOOLEAN /\ coreConnected \in BOOLEAN /\ world \in BOOLEAN
  /\ connected \in BOOLEAN /\ connecting \in BOOLEAN
  /\ ovConnecting \in BOOLEAN /\ retryPending \in BOOLEAN
  /\ attempt \in 0..MaxAttempts
  /\ link \in {"none", "dialing", "up", "closed"}
  /\ hello \in Nat /\ reply \in {"none", "ack", "reject", "done"}
  /\ gap \in {"none", "short", "long"}
  /\ game \in {"idle", "poll", "retry", "result", "failed", "detect", "tick"}
  /\ net \in {"idle", "ack", "accepted", "reject"}
  /\ clicks \in 0..MaxClicks

\* However clicks, retries and losses mix, a connection is greeted once at
\* most: the server would drop a second handshake (server.cpp:448), and the
\* player would wait for an answer that never comes.
OneHandshake == hello <= 1

\* A session whose connection broke is not shown as connected for good: the
\* overlay notices, in whatever phase the loss finds the client.
LossIsNoticed == coreConnected /\ ~connected ~> ~coreConnected \/ connected

\* The overlay does not dial for ever: a series of attempts ends.
RetriesEnd == []<>(~ovConnecting /\ ~retryPending)

\* A load that was noticed ends with GameReady, the second as well as the
\* first, unless the player connects meanwhile.
LoadingEnds == phase = "Loading" /\ world ~> phase # "Loading"
=============================================================================
