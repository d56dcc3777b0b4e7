------------------------- MODULE ClientSession_proofs -------------------------
(***************************************************************************)
(* Proofs about ClientSession for every limit of attempts and any number   *)
(* of clicks.  Two facts carry them: while the overlay waits for a         *)
(* connection, nothing has been sent on it; and a retry is pending only    *)
(* while the count of attempts is below the limit.                         *)
(***************************************************************************)
EXTENDS ClientSession, TLAPS

\* The overlay waits only for a connection it has not greeted (overlay.cpp:121).
WaitsUngreeted == ovConnecting => hello = 0

\* A retry is planned only below the limit (overlay.cpp:153).
RetryBelowLimit == retryPending => attempt < MaxAttempts

\* TypeOK in two parts: the flags, and what is not a flag.
FlagsOK ==
  /\ gameLoaded \in BOOLEAN /\ coreConnected \in BOOLEAN /\ world \in BOOLEAN
  /\ connected \in BOOLEAN /\ connecting \in BOOLEAN
  /\ ovConnecting \in BOOLEAN /\ retryPending \in BOOLEAN

DataOK ==
  /\ phase \in Phases /\ attempt \in 0..MaxAttempts
  /\ link \in {"none", "dialing", "up", "closed"}
  /\ hello \in Nat /\ reply \in {"none", "ack", "reject", "done"}
  /\ gap \in {"none", "short", "long"}
  /\ game \in {"idle", "poll", "retry", "result", "failed", "detect", "tick"}
  /\ net \in {"idle", "ack", "accepted", "reject"}
  /\ clicks \in 0..MaxClicks

Flags == FlagsOK /\ WaitsUngreeted /\ RetryBelowLimit
IInv == Flags /\ DataOK /\ OneHandshake

\* The two parts make up TypeOK.
LEMMA TypeParts == TypeOK <=> FlagsOK /\ DataOK
  BY Zenon DEF TypeOK, FlagsOK, DataOK

\* A client starts without a connection: everything holds.
LEMMA InitHolds == Init => IInv
<1>1. Init => Flags
  BY Zenon DEF Init, Flags, FlagsOK, WaitsUngreeted, RetryBelowLimit
<1>2. Init => DataOK /\ OneHandshake
  BY SMT, AttemptsAssumption, ClicksAssumption DEF Init, DataOK, OneHandshake, Phases
<1> QED
  BY <1>1, <1>2 DEF IInv

\* No step of either thread, the player or the server sets a flag to what
\* the count it goes with does not allow.
LEMMA FlagsKept == IInv /\ [Next]_vars => Flags'
<1> SUFFICES ASSUME IInv, [Next]_vars PROVE Flags'
  OBVIOUS
<1> USE DEF IInv, Flags, FlagsOK, WaitsUngreeted, RetryBelowLimit, core, client, overlay
<1>0. 0 < MaxAttempts
  BY SMT, AttemptsAssumption
<1>1. CASE PresentPhase
  BY <1>1, Zenon DEF PresentPhase, OnLoadingGapDetected
<1>2. CASE PollForGameLoad
  BY <1>2, Zenon DEF PollForGameLoad, OnGameLoaded
<1>3. CASE NoPoll
  BY <1>3, Zenon DEF NoPoll
<1>4. CASE RetryConnection
  <2>1. FlagsOK'
    BY <1>4, Zenon DEF RetryConnection, ConnectAsync
  <2>2. WaitsUngreeted'
    BY <1>4, Zenon DEF RetryConnection, ConnectAsync
  <2>3. RetryBelowLimit'
    BY <1>4, Zenon DEF RetryConnection, ConnectAsync
  <2> QED
    BY <2>1, <2>2, <2>3
<1>5. CASE NoRetry
  BY <1>5, Zenon DEF NoRetry
<1>6. CASE Greet
  BY <1>6, Zenon DEF Greet
<1>7. CASE NotYetConnected
  BY <1>7, Zenon DEF NotYetConnected
<1>8. CASE AttemptFailed
  BY <1>0, <1>8, Zenon DEF AttemptFailed
<1>9. CASE StillConnecting
  BY <1>9, Zenon DEF StillConnecting
<1>10. CASE DetectLoss
  <2>1. FlagsOK'
    BY <1>10, Zenon DEF DetectLoss, SetConnectedFalse
  <2>2. WaitsUngreeted'
    BY <1>10, Zenon DEF DetectLoss, SetConnectedFalse
  <2>3. RetryBelowLimit'
    BY <1>10, Zenon DEF DetectLoss, SetConnectedFalse
  <2> QED
    BY <2>1, <2>2, <2>3
<1>11. CASE GameTick
  BY <1>11, Zenon DEF GameTick, OnGameLoaded
<1>12. CASE NetConnect
  BY <1>12, Zenon DEF NetConnect
<1>13. CASE NetDisconnect
  BY <1>13, Zenon DEF NetDisconnect, Disconnect
<1>14. CASE NetReceive
  BY <1>14, Zenon DEF NetReceive
<1>15. CASE HandleHandshakeAck
  BY <1>15, Zenon DEF HandleHandshakeAck
<1>16. CASE AckPhase
  BY <1>16, Zenon DEF AckPhase
<1>17. CASE HandleHandshakeReject
  BY <1>17, Zenon DEF HandleHandshakeReject
<1>18. CASE OnConnectClicked
  BY <1>18, Zenon DEF OnConnectClicked, ConnectAsync, Disconnect, SetConnectedFalse
<1>19. CASE ConnectCommand
  BY <1>19, Zenon DEF ConnectCommand, ConnectAsync
<1>20. CASE DisconnectCommand
  BY <1>20, Zenon DEF DisconnectCommand, Disconnect, SetConnectedFalse
<1>21. CASE LoadSave
  BY <1>21, Zenon DEF LoadSave
<1>22. CASE OtherPause
  BY <1>22, Zenon DEF OtherPause
<1>23. CASE ServerAnswers
  BY <1>23, Zenon DEF ServerAnswers
<1>24. CASE ServerRejects
  BY <1>24, Zenon DEF ServerRejects
<1>25. CASE ConnectionEnds
  BY <1>25, Zenon DEF ConnectionEnds
<1>26. CASE UNCHANGED vars
  BY <1>26, Zenon DEF vars
<1> QED
  BY <1>1, <1>2, <1>3, <1>4, <1>5, <1>6, <1>7, <1>8, <1>9, <1>10, <1>11, <1>12, <1>13, <1>14, <1>15, <1>16, <1>17, <1>18, <1>19, <1>20, <1>21, <1>22, <1>23, <1>24, <1>25, <1>26
  DEF Next, GameStep, NetStep

\* Nor does a step bring the other variables out of their range, or send a
\* second handshake.
LEMMA DataKept == IInv /\ [Next]_vars => DataOK' /\ OneHandshake'
<1> SUFFICES ASSUME IInv, [Next]_vars PROVE DataOK' /\ OneHandshake'
  OBVIOUS
<1> USE AttemptsAssumption, ClicksAssumption
<1> USE DEF IInv, Flags, WaitsUngreeted, RetryBelowLimit, DataOK, OneHandshake, Phases, core, client, overlay
<1>1. CASE PresentPhase
  BY <1>1, SMT DEF PresentPhase, OnLoadingGapDetected
<1>2. CASE PollForGameLoad
  BY <1>2, SMT DEF PollForGameLoad, OnGameLoaded
<1>3. CASE NoPoll
  BY <1>3, SMT DEF NoPoll
<1>4. CASE RetryConnection
  BY <1>4, SMT DEF RetryConnection, ConnectAsync
<1>5. CASE NoRetry
  BY <1>5, SMT DEF NoRetry
<1>6. CASE Greet
  BY <1>6, SMT DEF Greet
<1>7. CASE NotYetConnected
  BY <1>7, SMT DEF NotYetConnected
<1>8. CASE AttemptFailed
  BY <1>8, SMT DEF AttemptFailed
<1>9. CASE StillConnecting
  BY <1>9, SMT DEF StillConnecting
<1>10. CASE DetectLoss
  BY <1>10, SMT DEF DetectLoss, SetConnectedFalse
<1>11. CASE GameTick
  BY <1>11, SMT DEF GameTick, OnGameLoaded
<1>12. CASE NetConnect
  BY <1>12, SMT DEF NetConnect
<1>13. CASE NetDisconnect
  BY <1>13, SMT DEF NetDisconnect, Disconnect
<1>14. CASE NetReceive
  BY <1>14, SMT DEF NetReceive
<1>15. CASE HandleHandshakeAck
  BY <1>15, SMT DEF HandleHandshakeAck
<1>16. CASE AckPhase
  BY <1>16, SMT DEF AckPhase
<1>17. CASE HandleHandshakeReject
  BY <1>17, SMT DEF HandleHandshakeReject
<1>18. CASE OnConnectClicked
  BY <1>18, SMT DEF OnConnectClicked, ConnectAsync, Disconnect, SetConnectedFalse
<1>19. CASE ConnectCommand
  BY <1>19, SMT DEF ConnectCommand, ConnectAsync
<1>20. CASE DisconnectCommand
  BY <1>20, SMT DEF DisconnectCommand, Disconnect, SetConnectedFalse
<1>21. CASE LoadSave
  BY <1>21, SMT DEF LoadSave
<1>22. CASE OtherPause
  BY <1>22, SMT DEF OtherPause
<1>23. CASE ServerAnswers
  BY <1>23, SMT DEF ServerAnswers
<1>24. CASE ServerRejects
  BY <1>24, SMT DEF ServerRejects
<1>25. CASE ConnectionEnds
  BY <1>25, SMT DEF ConnectionEnds
<1>26. CASE UNCHANGED vars
  BY <1>26, SMT DEF vars
<1> QED
  BY <1>1, <1>2, <1>3, <1>4, <1>5, <1>6, <1>7, <1>8, <1>9, <1>10, <1>11, <1>12, <1>13, <1>14, <1>15, <1>16, <1>17, <1>18, <1>19, <1>20, <1>21, <1>22, <1>23, <1>24, <1>25, <1>26
  DEF Next, GameStep, NetStep

\* The strengthened invariant holds throughout.
THEOREM Inductive == Spec => []IInv
<1>1. IInv /\ [Next]_vars => IInv'
  BY FlagsKept, DataKept DEF IInv
<1> QED
  BY InitHolds, <1>1, PTL DEF Spec

\* Both threads keep the session's state well typed, and a series of
\* retries within the limit (overlay.cpp:96-178).
THEOREM TypeCorrect == Spec => []TypeOK
<1>1. IInv => TypeOK
  BY TypeParts DEF IInv, Flags
<1> QED
  BY Inductive, <1>1, PTL

\* No connection is greeted twice, whatever the player clicks and the
\* network loses (overlay.cpp:122-139).
THEOREM GreetedOnce == Spec => []OneHandshake
<1>1. IInv => OneHandshake
  BY DEF IInv
<1> QED
  BY Inductive, <1>1, PTL
===============================================================================
