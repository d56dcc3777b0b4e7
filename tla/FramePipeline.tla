--------------------------- MODULE FramePipeline ----------------------------
(***************************************************************************)
(* The frame pipeline of Core: each tick of the main thread waits for the  *)
(* frame work of the tick before, swaps the two frame buffers, runs the    *)
(* steps that touch the game, clears the write buffer and posts new work,  *)
(* which the workers write into that buffer while the game draws.          *)
(*                                                                         *)
(* Ticks, the overlay, the commands and the shutdown run on the main       *)
(* thread, from the Present hook; the network thread sets m_connected.     *)
(* What the buffers hold is left out: since PollLocalPositions and         *)
(* ApplyRemotePositionsDirect, nothing reads them. Who writes which, while *)
(* it is cleared or swapped, is what remains.                              *)
(***************************************************************************)
EXTENDS TaskOrchestrator, FiniteSets

CONSTANTS
    ReadEntities,   \* BackgroundReadEntities
    Interpolate,    \* BackgroundInterpolate
    MaxLateWork     \* bound on the tasks a reset may leave under way

ASSUME WorksAssumption == ReadEntities # Interpolate /\ Works = {ReadEntities, Interpolate}
ASSUME WorkersAssumption == Workers # {} /\ IsFiniteSet(Workers)
ASSUME MaxLateWorkAssumption == MaxLateWork \in Nat

VARIABLES
    step,           \* the main thread: "frame" between ticks, or the step of a tick
    connected,      \* m_connected, with the game loaded
    started,        \* m_pipelineStarted
    writeBuffer,    \* m_writeBuffer; m_readBuffer is the other one
    target,         \* worker -> the buffer its task took for the write buffer
    late            \* history: a reset did not wait for the work under way

pipelineVars == <<step, connected, started, writeBuffer, target, late>>
vars == <<orchestratorVars, pipelineVars>>

Buffers == {0, 1}
Steps == {"frame", "wait", "swap", "game", "clear", "kickRead", "kickInterpolate",
          "shutdown", "down"}

Init ==
    /\ OrchestratorInit
    /\ step = "frame"
    /\ connected = FALSE
    /\ started = FALSE
    /\ writeBuffer = 0
    /\ target = [w \in Workers |-> 0]
    /\ late = FALSE

Goto(s) == step' = s

BusyWorkers == {w \in Workers : Busy(w)}

\* No frame work is queued, taken or counted.
Quiet == tasks = <<>> /\ BusyWorkers = {} /\ pending = 0

-----------------------------------------------------------------------------
(* A tick *)

\* Mutant of TickBegins: the tick does not wait.
TickDoesNotWait ==
    /\ step = "frame"
    /\ connected
    /\ Goto("game")
    /\ UNCHANGED <<orchestratorVars, connected, started, writeBuffer, target, late>>

\* Mutant of TickBegins: the buffers are swapped whether or not the pipeline runs.
TickAlwaysSwaps ==
    /\ step = "frame"
    /\ connected
    /\ Goto(IF started THEN "wait" ELSE "swap")
    /\ UNCHANGED <<orchestratorVars, connected, started, writeBuffer, target, late>>

\* OnGameTick: only a pipeline that has been started is waited for and swapped.
TickBegins ==
    /\ step = "frame"
    /\ connected
    /\ Goto(IF started THEN "wait" ELSE "game")
    /\ UNCHANGED <<orchestratorVars, connected, started, writeBuffer, target, late>>

WaitForFrameWork ==
    /\ step = "wait"
    /\ \/ FrameWaitTest /\ UNCHANGED <<step, late>>
       \/ FrameWaitSleep /\ UNCHANGED <<step, late>>
       \/ /\ caller = "out"
          /\ FrameWorkDone
          /\ Goto("swap")
          /\ late' = FALSE
          /\ UNCHANGED caller
    /\ UNCHANGED <<tasks, pending, running, wpc, job, connected, started, writeBuffer, target>>

\* Mutant of SwapBuffers: the index runs on.
NextBuffer ==
    /\ step = "swap"
    /\ writeBuffer' = writeBuffer + 1
    /\ Goto("game")
    /\ UNCHANGED <<orchestratorVars, connected, started, target, late>>

SwapBuffers ==
    /\ step = "swap"
    /\ writeBuffer' = 1 - writeBuffer
    /\ Goto("game")
    /\ UNCHANGED <<orchestratorVars, connected, started, target, late>>

\* Interpolation, positions, spawns, deferred events: an exception in one of them
\* ends the tick in SEH_OnGameTick.
GameSteps ==
    /\ step = "game"
    /\ Goto("clear") \/ Goto("frame")
    /\ UNCHANGED <<orchestratorVars, connected, started, writeBuffer, target, late>>

ClearWriteBuffer ==
    /\ step = "clear"
    /\ Goto("kickRead")
    /\ UNCHANGED <<orchestratorVars, connected, started, writeBuffer, target, late>>

\* KickBackgroundWork, then m_pipelineStarted = true.
KickBackgroundWork ==
    /\ \/ /\ step \in {"kickRead", "kickInterpolate"}
          /\ CountFrameWork
          /\ UNCHANGED <<step, started>>
       \/ /\ step = "kickRead"
          /\ PushTask(ReadEntities)
          /\ UNCHANGED <<step, started>>
       \/ /\ step = "kickRead"
          /\ NotifyWorker
          /\ Goto("kickInterpolate")
          /\ UNCHANGED started
       \/ /\ step = "kickInterpolate"
          /\ PushTask(Interpolate)
          /\ UNCHANGED <<step, started>>
       \/ /\ step = "kickInterpolate"
          /\ NotifyWorker
          /\ Goto("frame")
          /\ started' = TRUE
    /\ UNCHANGED <<connected, writeBuffer, target, late>>

-----------------------------------------------------------------------------
(* A worker's task *)

\* A task reads m_writeBuffer once, when it begins.
WorkBegins(w) ==
    /\ wpc[w] = "taken"
    /\ wpc' = [wpc EXCEPT ![w] = "run"]
    /\ target' = [target EXCEPT ![w] = writeBuffer]
    /\ UNCHANGED <<tasks, pending, running, job, caller,
                   step, connected, started, writeBuffer, late>>

WorkerStep(w) ==
    \/ WorkBegins(w)
    \/ /\ \/ WorkerLoops(w)
          \/ WorkerTests(w)
          \/ WorkerSleeps(w)
          \/ WorkerFinishes(w)
          \/ WorkerCountsDown(w)
          \/ WorkerNotifies(w)
       /\ UNCHANGED pipelineVars

SpuriousWakeup ==
    /\ \/ \E w \in Workers : WorkerWakes(w)
       \/ FrameWaitWakes /\ UNCHANGED <<tasks, pending, running, wpc, job>>
    /\ UNCHANGED pipelineVars

-----------------------------------------------------------------------------
(* Between ticks *)

\* HandleHandshakeAck, on the network thread.
SetConnected ==
    /\ ~connected
    /\ step \notin {"shutdown", "down"}
    /\ connected' = TRUE
    /\ UNCHANGED <<orchestratorVars, step, started, writeBuffer, target, late>>

\* SetConnected(false), and a save loaded in the game: both buffers are cleared and
\* the pipeline starts over, without waiting for the work under way. (Connecting
\* again takes a round trip: MaxLateWork bounds the work that outlives it.)
ResetPipeline ==
    /\ step = "frame"
    /\ connected
    /\ pending <= MaxLateWork
    /\ connected' = FALSE
    /\ started' = FALSE
    /\ late' = ~Quiet
    /\ UNCHANGED <<orchestratorVars, step, writeBuffer, target>>

\* Shutdown: no tick any more, then TaskOrchestrator::Stop.
Shutdown ==
    /\ \/ step = "frame" /\ StopBegins /\ connected' = FALSE /\ Goto("shutdown")
       \/ step = "shutdown" /\ StopNotifies /\ UNCHANGED <<step, connected>>
       \/ step = "shutdown" /\ StopEnds /\ Goto("down") /\ UNCHANGED connected
    /\ UNCHANGED <<started, writeBuffer, target, late>>

-----------------------------------------------------------------------------
\* The main thread inside a tick.
TickStep ==
    \/ WaitForFrameWork
    \/ SwapBuffers
    \/ GameSteps
    \/ ClearWriteBuffer
    \/ KickBackgroundWork

Next ==
    \/ TickBegins
    \/ TickStep
    \/ \E w \in Workers : WorkerStep(w)
    \/ SpuriousWakeup
    \/ SetConnected
    \/ ResetPipeline
    \/ Shutdown

Spec == Init /\ [][Next]_vars

\* The main thread keeps executing a tick it has begun, each worker its loop. A
\* mutex that is free again and again is not withheld from a thread for ever
\* (strong fairness). Nothing makes a spurious wake-up happen.
FairSpec ==
    /\ Spec
    /\ SF_vars(TickStep)
    /\ \A w \in Workers : SF_vars(WorkerStep(w))

-----------------------------------------------------------------------------
(* Properties *)

TypeOK ==
    /\ tasks \in Seq(Works)
    /\ pending \in Int
    /\ running \in BOOLEAN
    /\ wpc \in [Workers -> WorkerState]
    /\ job \in [Workers -> Works \cup {NoWork}]
    /\ caller \in CallerState
    /\ step \in Steps
    /\ connected \in BOOLEAN
    /\ started \in BOOLEAN
    /\ writeBuffer \in Buffers
    /\ target \in [Workers -> Buffers]
    /\ late \in BOOLEAN

\* The counter the main thread waits on is the frame work that is on its way into
\* the queue, in it, or with a worker.
CounterCountsWork ==
    pending = Len(tasks) + Cardinality(BusyWorkers) + (IF caller = "counted" THEN 1 ELSE 0)

\* The buffers are swapped only when the workers are done with them.
SwapIsQuiet == step = "swap" => Quiet

\* The write buffer is cleared, and new work posted, only when no worker is busy
\* with it, except after a reset that did not wait.
ClearIsQuiet == step = "clear" => Quiet \/ late

\* A task writes into the write buffer to its end: the buffer is not swapped away
\* from under it, reset or not.
WritersStayOnWriteBuffer == \A w \in Workers : wpc[w] = "run" => target[w] = writeBuffer

\* Except after a reset that did not wait, no two workers fill the same vector.
OneWriterPerVector ==
    late \/ \A v, w \in Workers : v # w /\ wpc[v] = "run" /\ wpc[w] = "run" => job[v] # job[w]

\* While the orchestrator runs, a queued task has a worker that is awake, or the
\* notification that wakes one is about to be sent.
NoTaskIsForgotten ==
    tasks # <<>> /\ running =>
        caller = "pushed" \/ \E w \in Workers : wpc[w] \notin {"drowsy", "asleep", "exited"}

\* Unless resets keep leaving work behind, all frame work that has been posted gets
\* done, or the orchestrator is stopped.
PostedWorkIsDone == <>[]~late => (pending > 0 ~> (pending = 0 \/ ~running))

\* WaitForFrameWork returns: the tick goes on.
WaitReturns == step = "wait" ~> step # "wait"
=============================================================================
