------------------------ MODULE FramePipeline_proofs ------------------------
(* Safety of the frame pipeline for every set of workers.                    *)
EXTENDS FramePipeline, FiniteSetTheorems, TLAPS

-----------------------------------------------------------------------------
(* Types *)

\* A worker has a job from taking it to finishing it.
JobFits == \A w \in Workers : wpc[w] \in {"taken", "run"} <=> job[w] \in Works

TypeInv == TypeOK /\ JobFits

\* The variables keep their types, and a job is held exactly while it is run.
LEMMA TypeInvCorrect == Spec => []TypeInv
<1> USE NoWorkAssumption, WorksAssumption DEF WorkerState, CallerState, Steps, Buffers
<1>0. <<>> \in Seq(Works)
  OBVIOUS
<1>1. Init => TypeInv
  <2> SUFFICES ASSUME Init PROVE TypeInv
    OBVIOUS
  <2> USE DEF Init, OrchestratorInit
  <2>1. TypeOK
    <3>1. tasks \in Seq(Works)
      BY <1>0
    <3>2. pending \in Int
      OBVIOUS
    <3>3. running \in BOOLEAN /\ connected \in BOOLEAN /\ started \in BOOLEAN /\ late \in BOOLEAN
      OBVIOUS
    <3>4. caller \in CallerState /\ step \in Steps
      OBVIOUS
    <3>6. writeBuffer \in Buffers
      OBVIOUS
    <3>7. wpc \in [Workers -> WorkerState] /\ target \in [Workers -> Buffers] /\ job \in [Workers -> Works \cup {NoWork}]
      OBVIOUS
    <3> QED BY <3>1, <3>2, <3>3, <3>4, <3>6, <3>7 DEF TypeOK
  <2>2. JobFits
    BY DEF JobFits
  <2> QED BY <2>1, <2>2 DEF TypeInv
<1>2. TypeInv /\ [Next]_vars => TypeInv'
  <2> SUFFICES ASSUME TypeInv, [Next]_vars PROVE TypeInv'
    OBVIOUS
  <2> USE DEF TypeInv, TypeOK, JobFits
  <2>1. CASE TickBegins
    BY <2>1 DEF TickBegins, Goto, orchestratorVars
  <2>2. CASE WaitForFrameWork
    BY <2>2 DEF WaitForFrameWork, FrameWaitTest, FrameWaitSleep, Goto
  <2>3. CASE SwapBuffers
    BY <2>3 DEF SwapBuffers, Goto, orchestratorVars
  <2>4. CASE GameSteps \/ ClearWriteBuffer
    BY <2>4 DEF GameSteps, ClearWriteBuffer, Goto, orchestratorVars
  <2>5. CASE KickBackgroundWork
    <3>1. CASE CountFrameWork /\ UNCHANGED <<step, started>>
      BY <2>5, <3>1 DEF KickBackgroundWork, CountFrameWork
    <3>2. ASSUME NEW k \in Works, PushTask(k), UNCHANGED <<step, started>>
          PROVE  TypeInv'
      BY <2>5, <3>2 DEF KickBackgroundWork, PushTask
    <3>3. ASSUME NotifyWorker, Goto("kickInterpolate") \/ Goto("frame"),
                 started' \in BOOLEAN
          PROVE  TypeInv'
      BY <2>5, <3>3 DEF KickBackgroundWork, NotifyWorker, Goto
    <3> QED BY <2>5, <3>1, <3>2, <3>3 DEF KickBackgroundWork
  <2>6. ASSUME NEW w \in Workers, WorkerStep(w) PROVE TypeInv'
    <3>1. CASE WorkBegins(w)
      BY <3>1 DEF WorkBegins
    <3>2. CASE WorkerTests(w) /\ UNCHANGED pipelineVars
      <4>1. CASE tasks # <<>>
        <5>1. Head(tasks) \in Works /\ Tail(tasks) \in Seq(Works)
          BY <4>1
        <5> QED BY <3>2, <4>1, <5>1 DEF WorkerTests, pipelineVars
      <4> QED BY <3>2, <4>1 DEF WorkerTests, pipelineVars
    <3>3. CASE UNCHANGED pipelineVars /\ ~WorkerTests(w)
      BY <2>6, <3>3 DEF WorkerStep, WorkBegins, WorkerLoops, WorkerSleeps, WorkerFinishes,
                        WorkerCountsDown, WorkerNotifies, pipelineVars
    <3> QED BY <2>6, <3>1, <3>2, <3>3 DEF WorkerStep
  <2>7. CASE SpuriousWakeup
    BY <2>7 DEF SpuriousWakeup, WorkerWakes, FrameWaitWakes, pipelineVars
  <2>8. CASE SetConnected \/ ResetPipeline
    BY <2>8 DEF SetConnected, ResetPipeline, orchestratorVars
  <2>9. CASE Shutdown
    <3>1. CASE StopBegins \/ StopNotifies
      BY <2>9, <3>1 DEF Shutdown, StopBegins, StopNotifies, Goto
    <3>2. CASE StopEnds
      <4>1. tasks' \in Seq(Works) /\ pending' \in Int
        BY <1>0, <3>2 DEF StopEnds
      <4>2. /\ caller' \in CallerState /\ step' \in Steps
            /\ UNCHANGED <<running, wpc, job, connected, started, writeBuffer, target, late>>
        BY <2>9, <3>2 DEF Shutdown, StopEnds, StopBegins, StopNotifies, Goto
      <4> QED BY <4>1, <4>2
    <3> QED BY <2>9, <3>1, <3>2 DEF Shutdown
  <2>10. CASE UNCHANGED vars
    BY <2>10 DEF vars, orchestratorVars, pipelineVars
  <2> QED BY <2>1, <2>2, <2>3, <2>4, <2>5, <2>6, <2>7, <2>8, <2>9, <2>10 DEF Next, TickStep
<1> QED BY <1>1, <1>2, PTL DEF Spec

\* Type correctness.
THEOREM TypeCorrect == Spec => []TypeOK
BY TypeInvCorrect, PTL DEF TypeInv

-----------------------------------------------------------------------------
(* The counter *)

\* A worker that is no longer busy, or newly so, changes the count by one.
LEMMA BusyCount ==
    ASSUME TypeInv
    PROVE  /\ IsFiniteSet(BusyWorkers) /\ Cardinality(BusyWorkers) \in Nat
           /\ Cardinality(BusyWorkers) = 0 <=> BusyWorkers = {}
           /\ \A w \in Workers :
                /\ ~Busy(w) => Cardinality(BusyWorkers \cup {w}) = Cardinality(BusyWorkers) + 1
                /\ Busy(w) => Cardinality(BusyWorkers \ {w}) = Cardinality(BusyWorkers) - 1
<1>1. IsFiniteSet(BusyWorkers)
  BY FS_Subset, WorkersAssumption DEF BusyWorkers
<1>2. Cardinality(BusyWorkers) \in Nat
  BY <1>1, FS_CardinalityType
<1>3. Cardinality(BusyWorkers) = 0 <=> BusyWorkers = {}
  BY <1>1, FS_EmptySet
<1>4. ASSUME NEW w \in Workers, ~Busy(w)
      PROVE  Cardinality(BusyWorkers \cup {w}) = Cardinality(BusyWorkers) + 1
  <2>1. w \notin BusyWorkers
    BY <1>4 DEF BusyWorkers
  <2> QED BY <1>1, <2>1, FS_AddElement
<1>5. ASSUME NEW w \in Workers, Busy(w)
      PROVE  Cardinality(BusyWorkers \ {w}) = Cardinality(BusyWorkers) - 1
  <2>1. w \in BusyWorkers
    BY <1>5 DEF BusyWorkers
  <2> QED BY <1>1, <2>1, FS_RemoveElement
<1> QED BY <1>1, <1>2, <1>3, <1>4, <1>5

\* Steps that leave the queue, the counter and the busy workers alone.
LEMMA CounterKept ==
    ASSUME TypeInv, CounterCountsWork, UNCHANGED <<tasks, pending>>,
           BusyWorkers' = BusyWorkers, caller' = "counted" <=> caller = "counted"
    PROVE  CounterCountsWork'
BY DEF CounterCountsWork

\* A worker step that moves a worker from a busy state to a busy one, or between
\* others, keeps the busy workers.
LEMMA BusyKept ==
    ASSUME TypeInv, TypeOK', \A w \in Workers : Busy(w)' <=> Busy(w)
    PROVE  BusyWorkers' = BusyWorkers
BY DEF BusyWorkers

\* The counter that WaitForFrameWork tests is the number of tasks posted and not
\* done.
THEOREM CounterCorrect == Spec => []CounterCountsWork
<1>1. Init => CounterCountsWork
  <2> SUFFICES ASSUME Init PROVE CounterCountsWork
    OBVIOUS
  <2>1. BusyWorkers = {} /\ pending = 0 /\ Len(tasks) = 0 /\ caller # "counted"
    BY DEF Init, OrchestratorInit, BusyWorkers, Busy
  <2> QED BY <2>1, FS_EmptySet DEF CounterCountsWork
<1>2. TypeInv /\ TypeInv' /\ CounterCountsWork /\ [Next]_vars => CounterCountsWork'
  <2> SUFFICES ASSUME TypeInv, TypeInv', CounterCountsWork, [Next]_vars
               PROVE  CounterCountsWork'
    OBVIOUS
  <2>0. TypeOK /\ TypeOK'
    BY DEF TypeInv
  <2>1. CASE UNCHANGED orchestratorVars
    BY <2>0, <2>1, BusyKept, CounterKept DEF orchestratorVars, Busy
  <2>2. CASE WaitForFrameWork
    BY <2>0, <2>2, BusyKept, CounterKept
       DEF WaitForFrameWork, FrameWaitTest, FrameWaitSleep, Busy
  <2>3. CASE KickBackgroundWork
    <3>1. ASSUME UNCHANGED wpc
          PROVE  BusyWorkers' = BusyWorkers
      BY <3>1 DEF BusyWorkers, Busy
    <3>2. CASE CountFrameWork
      BY <2>0, <3>1, <3>2, BusyCount DEF CountFrameWork, CounterCountsWork, TypeOK
    <3>3. ASSUME NEW k \in Works, PushTask(k) PROVE CounterCountsWork'
      <4>1. Len(tasks') = Len(tasks) + 1 /\ Len(tasks) \in Nat
        BY <2>0, <3>3 DEF PushTask, TypeOK
      <4>2. caller = "counted" /\ caller' # "counted" /\ pending' = pending
        BY <3>3 DEF PushTask
      <4>3. BusyWorkers' = BusyWorkers
        BY <3>1, <3>3 DEF PushTask
      <4> QED BY <2>0, <4>1, <4>2, <4>3, BusyCount DEF CounterCountsWork, TypeOK
    <3>4. CASE NotifyWorker
      <4>1. \A w \in Workers : Busy(w)' <=> Busy(w)
        BY <2>0, <3>4 DEF NotifyWorker, Busy, TypeOK
      <4> QED BY <2>0, <3>4, <4>1, BusyKept, CounterKept DEF NotifyWorker
    <3> QED BY <2>3, <3>2, <3>3, <3>4, WorksAssumption DEF KickBackgroundWork
  <2>4. ASSUME NEW w \in Workers, WorkerStep(w) PROVE CounterCountsWork'
    <3>1. CASE WorkerTests(w) /\ tasks # <<>>
      <4>1. Len(tasks') = Len(tasks) - 1 /\ Len(tasks) \in Nat
        BY <2>0, <3>1 DEF WorkerTests, TypeOK
      <4>2. ~Busy(w) /\ BusyWorkers' = BusyWorkers \cup {w}
        BY <2>0, <3>1 DEF WorkerTests, BusyWorkers, Busy, TypeOK
      <4>3. Cardinality(BusyWorkers') = Cardinality(BusyWorkers) + 1
        BY <4>2, BusyCount
      <4>4. UNCHANGED <<pending, caller>>
        BY <3>1 DEF WorkerTests
      <4> QED BY <2>0, <4>1, <4>3, <4>4, BusyCount DEF CounterCountsWork, TypeOK
    <3>2. CASE WorkerCountsDown(w)
      <4>1. Busy(w) /\ BusyWorkers' = BusyWorkers \ {w}
        BY <2>0, <3>2 DEF WorkerCountsDown, BusyWorkers, Busy, TypeOK
      <4>2. Cardinality(BusyWorkers') = Cardinality(BusyWorkers) - 1
        BY <4>1, BusyCount
      <4>3. UNCHANGED <<tasks, caller>> /\ pending' = pending - 1
        BY <3>2 DEF WorkerCountsDown
      <4>4. Len(tasks) \in Nat
        BY <2>0 DEF TypeOK
      <4> QED BY <2>0, <4>2, <4>3, <4>4, BusyCount DEF CounterCountsWork, TypeOK
    <3>3. CASE ~(WorkerTests(w) /\ tasks # <<>>) /\ ~WorkerCountsDown(w)
      <4>1. /\ UNCHANGED <<tasks, pending>>
            /\ caller' = "counted" <=> caller = "counted"
        BY <2>4, <3>3 DEF WorkerStep, WorkBegins, WorkerLoops, WorkerTests, WorkerSleeps,
                          WorkerFinishes, WorkerNotifies
      <4>2. \A v \in Workers : Busy(v)' <=> Busy(v)
        BY <2>0, <2>4, <3>3 DEF WorkerStep, WorkBegins, WorkerLoops, WorkerTests, WorkerSleeps,
                          WorkerFinishes, WorkerNotifies, Busy, TypeOK
      <4> QED BY <2>0, <4>1, <4>2, BusyKept, CounterKept
    <3> QED BY <3>1, <3>2, <3>3
  <2>5. CASE SpuriousWakeup
    <3>1. \A v \in Workers : Busy(v)' <=> Busy(v)
      BY <2>0, <2>5 DEF SpuriousWakeup, WorkerWakes, FrameWaitWakes, Busy, TypeOK
    <3> QED BY <2>0, <2>5, <3>1, BusyKept, CounterKept
            DEF SpuriousWakeup, WorkerWakes, FrameWaitWakes
  <2>6. CASE Shutdown
    <3>1. CASE StopBegins
      BY <2>0, <3>1, BusyKept, CounterKept DEF StopBegins, Busy
    <3>2. CASE StopNotifies
      <4>1. \A v \in Workers : Busy(v)' <=> Busy(v)
        BY <2>0, <3>2 DEF StopNotifies, Busy, TypeOK
      <4> QED BY <2>0, <3>2, <4>1, BusyKept, CounterKept DEF StopNotifies
    <3>3. CASE StopEnds
      <4>1. BusyWorkers' = {} /\ Len(tasks') = 0 /\ pending' = 0 /\ caller' # "counted"
        BY <3>3 DEF StopEnds, BusyWorkers, Busy
      <4> QED BY <4>1, FS_EmptySet DEF CounterCountsWork
    <3> QED BY <2>6, <3>1, <3>2, <3>3 DEF Shutdown
  <2> QED BY <2>1, <2>2, <2>3, <2>4, <2>5, <2>6
          DEF Next, TickStep, TickBegins, SwapBuffers, GameSteps, ClearWriteBuffer,
              SetConnected, ResetPipeline, vars
<1> QED BY <1>1, <1>2, TypeInvCorrect, PTL DEF Spec

-----------------------------------------------------------------------------
(* The buffers *)

\* Where the main thread is in a call goes with the step of its tick.
CallFits ==
    /\ caller \in {"counted", "pushed"} => step \in {"kickRead", "kickInterpolate"}
    /\ caller \in {"drowsy", "asleep"} => step = "wait"
    /\ caller \in {"stopping", "joining"} <=> step = "shutdown"
    /\ running <=> step \notin {"shutdown", "down"}

\* From the end of the wait to the first task posted no work is under way, and
\* none is before the pipeline starts, but for a reset that did not wait.
QuietUnlessLate ==
    /\ step = "swap" => Quiet /\ ~late
    /\ step \in {"game", "clear"} => Quiet \/ late
    /\ step = "frame" /\ ~started => Quiet \/ late
    /\ step = "kickRead" /\ caller = "out" => Quiet \/ late

BufferInv == CallFits /\ QuietUnlessLate /\ WritersStayOnWriteBuffer

\* A counter of zero means that nothing is under way.
LEMMA ZeroIsQuiet ==
    ASSUME TypeInv, CounterCountsWork, pending <= 0
    PROVE  Quiet
<1>1. Len(tasks) \in Nat /\ (Len(tasks) = 0 => tasks = <<>>) /\ pending \in Int
  BY DEF TypeInv, TypeOK
<1>2. Len(tasks) = 0 /\ Cardinality(BusyWorkers) = 0 /\ pending = 0
  BY <1>1, BusyCount DEF CounterCountsWork
<1> QED BY <1>1, <1>2, BusyCount DEF Quiet

\* A quiet pipeline stays quiet through every step but the posting of work.
LEMMA QuietKept ==
    ASSUME TypeInv, TypeInv', Quiet, [Next]_vars, ~KickBackgroundWork
    PROVE  Quiet'
<1>0. TypeOK /\ TypeOK' /\ tasks = <<>> /\ pending = 0 /\ \A w \in Workers : ~Busy(w)
  BY DEF TypeInv, Quiet, BusyWorkers
<1>1. CASE UNCHANGED orchestratorVars
  BY <1>1 DEF orchestratorVars, Quiet, BusyWorkers, Busy
<1>2. CASE WaitForFrameWork
  BY <1>2 DEF WaitForFrameWork, Quiet, BusyWorkers, Busy
<1>3. ASSUME NEW w \in Workers, WorkerStep(w) PROVE Quiet'
  <2>1. UNCHANGED <<tasks, pending>> /\ \A v \in Workers : ~Busy(v)'
    BY <1>0, <1>3 DEF WorkerStep, WorkBegins, WorkerLoops, WorkerTests, WorkerSleeps,
                      WorkerFinishes, WorkerCountsDown, WorkerNotifies, Busy, TypeOK
  <2> QED BY <1>0, <2>1 DEF Quiet, BusyWorkers
<1>4. CASE SpuriousWakeup
  <2>1. UNCHANGED <<tasks, pending>> /\ \A v \in Workers : ~Busy(v)'
    BY <1>0, <1>4 DEF SpuriousWakeup, WorkerWakes, FrameWaitWakes, Busy, TypeOK
  <2> QED BY <1>0, <2>1 DEF Quiet, BusyWorkers
<1>5. CASE Shutdown
  <2>1. tasks' = <<>> /\ pending' = 0
    BY <1>0, <1>5 DEF Shutdown, StopBegins, StopNotifies, StopEnds
  <2>2. \A v \in Workers : ~Busy(v)'
    BY <1>0, <1>5 DEF Shutdown, StopBegins, StopNotifies, StopEnds, Busy, TypeOK
  <2> QED BY <2>1, <2>2 DEF Quiet, BusyWorkers
<1> QED BY <1>1, <1>2, <1>3, <1>4, <1>5
        DEF Next, TickStep, TickBegins, SwapBuffers, GameSteps, ClearWriteBuffer,
            SetConnected, ResetPipeline, vars

\* Swaps and clears find the workers at rest, and a task's buffer stays the write
\* buffer.
LEMMA BufferInvCorrect == Spec => []BufferInv
<1>1. Init => BufferInv
  BY DEF Init, OrchestratorInit, BufferInv, CallFits, QuietUnlessLate, Quiet, BusyWorkers, Busy,
         WritersStayOnWriteBuffer
<1>2. TypeInv /\ TypeInv' /\ CounterCountsWork /\ BufferInv /\ [Next]_vars => BufferInv'
  <2> SUFFICES ASSUME TypeInv, TypeInv', CounterCountsWork, BufferInv, [Next]_vars
               PROVE  BufferInv'
    OBVIOUS
  <2>0. TypeOK /\ TypeOK' /\ CallFits /\ QuietUnlessLate /\ WritersStayOnWriteBuffer
    BY DEF TypeInv, BufferInv
  <2>1. CallFits'
    <3> USE <2>0 DEF CallFits
    <3>1. CASE TickStep
      BY <3>1 DEF TickStep, WaitForFrameWork, FrameWaitTest, FrameWaitSleep, SwapBuffers, GameSteps,
                  ClearWriteBuffer, KickBackgroundWork, CountFrameWork, PushTask, NotifyWorker,
                  Goto, orchestratorVars
    <3>2. CASE TickBegins \/ SetConnected \/ ResetPipeline \/ UNCHANGED vars
      BY <3>2 DEF TickBegins, SetConnected, ResetPipeline, Goto, vars, orchestratorVars, pipelineVars
    <3>3. ASSUME NEW w \in Workers, WorkerStep(w) PROVE CallFits'
      BY <3>3 DEF WorkerStep, WorkBegins, WorkerLoops, WorkerTests, WorkerSleeps, WorkerFinishes,
                  WorkerCountsDown, WorkerNotifies, pipelineVars
    <3>4. CASE SpuriousWakeup
      BY <3>4 DEF SpuriousWakeup, WorkerWakes, FrameWaitWakes, pipelineVars
    <3>5. CASE Shutdown
      BY <3>5 DEF Shutdown, StopBegins, StopNotifies, StopEnds, Goto
    <3> QED BY <3>1, <3>2, <3>3, <3>4, <3>5 DEF Next
  <2>2. QuietUnlessLate'
    <3>1. CASE WaitForFrameWork
      <4>1. CASE step' = "swap"
        <5>1. pending <= 0 /\ ~late'
          BY <3>1, <4>1 DEF WaitForFrameWork, FrameWorkDone
        <5>2. Quiet'
          BY <3>1, <5>1, ZeroIsQuiet, QuietKept DEF WaitForFrameWork, KickBackgroundWork, Next, TickStep
        <5> QED BY <4>1, <5>1, <5>2 DEF QuietUnlessLate
      <4>2. CASE step' = "wait"
        BY <4>2 DEF QuietUnlessLate
      <4> QED BY <3>1, <4>1, <4>2 DEF WaitForFrameWork, Goto
    <3>2. CASE KickBackgroundWork
      BY <3>2, <2>0 DEF KickBackgroundWork, CountFrameWork, PushTask, NotifyWorker, QuietUnlessLate, Goto
    <3>3. CASE ResetPipeline
      <4>1. Quiet' <=> Quiet
        BY <3>3 DEF ResetPipeline, orchestratorVars, Quiet, BusyWorkers, Busy
      <4> QED BY <3>3, <4>1 DEF ResetPipeline, QuietUnlessLate
    <3>4. CASE TickBegins \/ SwapBuffers \/ GameSteps \/ ClearWriteBuffer
      <4>1. Quiet' <=> Quiet
        BY <3>4 DEF TickBegins, SwapBuffers, GameSteps, ClearWriteBuffer, orchestratorVars,
                    Quiet, BusyWorkers, Busy
      <4>2. CASE GameSteps
        BY <2>0, <4>1, <4>2 DEF GameSteps, QuietUnlessLate, Goto
      <4> QED BY <2>0, <3>4, <4>1, <4>2
              DEF TickBegins, SwapBuffers, ClearWriteBuffer, QuietUnlessLate, Goto
    <3>5. ASSUME \/ \E w \in Workers : WorkerStep(w)
                 \/ SpuriousWakeup \/ SetConnected \/ Shutdown \/ UNCHANGED vars
          PROVE  QuietUnlessLate'
      <4>1. /\ UNCHANGED <<started, late>>
            /\ step' = step \/ step' \in {"shutdown", "down"}
            /\ step' = "kickRead" /\ caller' = "out" => caller = "out"
        <5>1. CASE \E w \in Workers : WorkerStep(w)
          BY <2>0, <5>1 DEF WorkerStep, WorkBegins, WorkerLoops, WorkerTests, WorkerSleeps,
             WorkerFinishes, WorkerCountsDown, WorkerNotifies, pipelineVars, CallFits
        <5>2. CASE SpuriousWakeup \/ SetConnected \/ UNCHANGED vars
          BY <2>0, <5>2 DEF SpuriousWakeup, WorkerWakes, FrameWaitWakes, SetConnected,
             pipelineVars, vars, orchestratorVars, CallFits
        <5>3. CASE Shutdown
          BY <5>3 DEF Shutdown, Goto
        <5> QED BY <3>5, <5>1, <5>2, <5>3
      <4>2. Quiet => Quiet' \/ KickBackgroundWork
        BY QuietKept
      <4>3. KickBackgroundWork => step \in {"kickRead", "kickInterpolate"} /\ caller' \in {"counted", "pushed", "out"}
        BY DEF KickBackgroundWork, CountFrameWork, PushTask, NotifyWorker
      <4> QED BY <2>0, <3>2, <4>1, <4>2, <4>3 DEF QuietUnlessLate
    <3> QED BY <3>1, <3>2, <3>3, <3>4, <3>5 DEF Next, TickStep
  <2>3. WritersStayOnWriteBuffer'
    <3>1. CASE SwapBuffers
      <4>1. \A w \in Workers : ~Busy(w)
        BY <2>0, <3>1 DEF SwapBuffers, QuietUnlessLate, Quiet, BusyWorkers
      <4> QED BY <3>1, <4>1 DEF SwapBuffers, orchestratorVars, WritersStayOnWriteBuffer, Busy
    <3>2. ASSUME NEW w \in Workers, WorkerStep(w) PROVE WritersStayOnWriteBuffer'
      BY <2>0, <3>2 DEF WorkerStep, WorkBegins, WorkerLoops, WorkerTests, WorkerSleeps,
         WorkerFinishes, WorkerCountsDown, WorkerNotifies, pipelineVars, WritersStayOnWriteBuffer, TypeOK
    <3>3. ASSUME UNCHANGED <<target, writeBuffer>>, \A w \in Workers : wpc'[w] = "run" => wpc[w] = "run"
          PROVE  WritersStayOnWriteBuffer'
      BY <2>0, <3>3 DEF WritersStayOnWriteBuffer
    <3>4. CASE KickBackgroundWork
      <4>1. UNCHANGED <<target, writeBuffer>> /\ \A w \in Workers : wpc'[w] = "run" => wpc[w] = "run"
        BY <2>0, <3>4 DEF KickBackgroundWork, CountFrameWork, PushTask, NotifyWorker, TypeOK
      <4> QED BY <3>3, <4>1
    <3>5. CASE SpuriousWakeup \/ Shutdown
      <4>1. UNCHANGED <<target, writeBuffer>> /\ \A w \in Workers : wpc'[w] = "run" => wpc[w] = "run"
        BY <2>0, <3>5 DEF SpuriousWakeup, WorkerWakes, FrameWaitWakes, Shutdown, StopBegins,
           StopNotifies, StopEnds, pipelineVars, TypeOK
      <4> QED BY <3>3, <4>1
    <3>6. CASE UNCHANGED <<wpc, target, writeBuffer>>
      BY <3>3, <3>6
    <3> QED BY <3>1, <3>2, <3>4, <3>5, <3>6
            DEF Next, TickStep, TickBegins, WaitForFrameWork, GameSteps, ClearWriteBuffer,
                SetConnected, ResetPipeline, vars, orchestratorVars, pipelineVars
  <2> QED BY <2>1, <2>2, <2>3 DEF BufferInv
<1> QED BY <1>1, <1>2, TypeInvCorrect, CounterCorrect, PTL DEF Spec

\* The buffers are swapped only when all posted work is done.
THEOREM SwapsAreQuiet == Spec => []SwapIsQuiet
<1>1. BufferInv => SwapIsQuiet
  BY DEF BufferInv, QuietUnlessLate, SwapIsQuiet
<1> QED BY <1>1, BufferInvCorrect, PTL

\* The write buffer is cleared only when no worker writes into it, except after a
\* reset that did not wait.
THEOREM ClearsAreQuiet == Spec => []ClearIsQuiet
<1>1. BufferInv => ClearIsQuiet
  BY DEF BufferInv, QuietUnlessLate, ClearIsQuiet
<1> QED BY <1>1, BufferInvCorrect, PTL

\* No buffer is swapped away from under a worker that writes into it.
THEOREM WritersKeepTheirBuffer == Spec => []WritersStayOnWriteBuffer
BY BufferInvCorrect, PTL DEF BufferInv

-----------------------------------------------------------------------------
(* No lost wake-up of a worker *)

\* A worker about to sleep has seen an empty queue, to which nothing is added
\* while it holds the mutex; none leaves while the orchestrator runs.
QueueFits ==
    /\ \A w \in Workers : wpc[w] = "drowsy" => tasks = <<>>
    /\ running => \A w \in Workers : wpc[w] # "exited"

\* A queued task always has a worker that is awake or about to be woken.
THEOREM NoLostTask == Spec => []NoTaskIsForgotten
<1>1. Init => QueueFits /\ NoTaskIsForgotten
  BY DEF Init, OrchestratorInit, QueueFits, NoTaskIsForgotten
<1>2. TypeInv /\ TypeInv' /\ CallFits /\ QueueFits /\ NoTaskIsForgotten /\ [Next]_vars
        => QueueFits' /\ NoTaskIsForgotten'
  <2> SUFFICES ASSUME TypeInv, TypeInv', CallFits, QueueFits, NoTaskIsForgotten, [Next]_vars
               PROVE  QueueFits' /\ NoTaskIsForgotten'
    OBVIOUS
  <2>0. TypeOK /\ TypeOK'
    BY DEF TypeInv
  <2> USE DEF QueueFits, NoTaskIsForgotten
  <2>1. CASE UNCHANGED <<tasks, running, wpc>> /\ (caller = "pushed" => caller' = "pushed")
    BY <2>1
  <2>2. CASE KickBackgroundWork
    <3>1. CASE CountFrameWork
      BY <3>1 DEF CountFrameWork
    <3>2. ASSUME NEW k \in Works, PushTask(k) PROVE QueueFits' /\ NoTaskIsForgotten'
      BY <3>2 DEF PushTask, TaskMutexFree
    <3>3. CASE NotifyWorker
      <4>1. CASE \E w \in Workers : wpc[w] = "asleep"
        <5>1. PICK w \in Workers : wpc[w] = "asleep" /\ wpc' = [wpc EXCEPT ![w] = "test"]
          BY <3>3, <4>1 DEF NotifyWorker
        <5>2. wpc'[w] = "test"
          BY <2>0, <5>1 DEF TypeOK
        <5> QED BY <2>0, <3>3, <5>1, <5>2 DEF NotifyWorker, TypeOK
      <4>2. CASE \A w \in Workers : wpc[w] # "asleep"
        <5>1. UNCHANGED <<tasks, running, wpc>>
          BY <3>3, <4>2 DEF NotifyWorker
        <5>2. PICK w \in Workers : TRUE
          BY WorkersAssumption
        <5>3. tasks # <<>> /\ running => wpc[w] \notin {"drowsy", "asleep", "exited"}
          BY <4>2
        <5> QED BY <5>1, <5>3
      <4> QED BY <4>1, <4>2
    <3> QED BY <2>2, <3>1, <3>2, <3>3, WorksAssumption DEF KickBackgroundWork
  <2>3. ASSUME NEW w \in Workers, WorkerStep(w) PROVE QueueFits' /\ NoTaskIsForgotten'
    <3>0. wpc' = [wpc EXCEPT ![w] = wpc'[w]]
      BY <2>0, <2>3 DEF WorkerStep, WorkBegins, WorkerLoops, WorkerTests, WorkerSleeps,
         WorkerFinishes, WorkerCountsDown, WorkerNotifies, TypeOK
    <3>1. \A v \in Workers : v # w => wpc'[v] = wpc[v]
      BY <2>0, <3>0 DEF TypeOK
    <3>2. CASE WorkerTests(w) /\ tasks # <<>>
      <4>1. wpc'[w] = "taken" /\ running' = running /\ \A v \in Workers : wpc[v] # "drowsy"
        BY <2>0, <3>2 DEF WorkerTests, TaskMutexFree, TypeOK
      <4> QED BY <3>1, <4>1
    <3>3. CASE WorkerTests(w) /\ tasks = <<>>
      <4>1. tasks' = <<>> /\ running' = running /\ (running => wpc'[w] = "drowsy")
        BY <2>0, <3>3 DEF WorkerTests, TypeOK
      <4> QED BY <3>1, <4>1
    <3>4. CASE WorkerSleeps(w)
      <4>1. tasks = <<>> /\ UNCHANGED <<tasks, running>> /\ wpc'[w] = "asleep"
        BY <2>0, <3>4 DEF WorkerSleeps, TypeOK
      <4> QED BY <3>1, <4>1
    <3>5. CASE ~WorkerTests(w) /\ ~WorkerSleeps(w)
      <4>1. /\ UNCHANGED <<tasks, running>>
            /\ running => wpc'[w] \notin {"drowsy", "asleep", "exited"}
            /\ wpc'[w] # "drowsy"
        BY <2>0, <2>3, <3>5 DEF WorkerStep, WorkBegins, WorkerLoops, WorkerFinishes,
           WorkerCountsDown, WorkerNotifies, TypeOK
      <4>2. caller = "pushed" => caller' = "pushed"
        BY <2>3, <3>5 DEF WorkerStep, WorkBegins, WorkerLoops, WorkerFinishes,
           WorkerCountsDown, WorkerNotifies
      <4> QED BY <3>1, <4>1, <4>2
    <3> QED BY <3>2, <3>3, <3>4, <3>5
  <2>4. CASE SpuriousWakeup
    <3>1. ASSUME NEW w \in Workers, WorkerWakes(w) PROVE QueueFits' /\ NoTaskIsForgotten'
      <4>1. wpc'[w] = "test" /\ \A v \in Workers : v # w => wpc'[v] = wpc[v]
        BY <2>0, <3>1 DEF WorkerWakes, TypeOK
      <4> QED BY <3>1, <4>1 DEF WorkerWakes
    <3> QED BY <2>1, <2>4, <3>1 DEF SpuriousWakeup, FrameWaitWakes
  <2>5. CASE Shutdown
    <3>1. ~running'
      BY <2>0, <2>5 DEF Shutdown, StopBegins, StopNotifies, StopEnds, CallFits
    <3>2. tasks' = tasks \/ tasks' = <<>>
      BY <2>5 DEF Shutdown, StopBegins, StopNotifies, StopEnds
    <3>3. \A w \in Workers : wpc'[w] = "drowsy" => wpc[w] = "drowsy"
      BY <2>0, <2>5 DEF Shutdown, StopBegins, StopNotifies, StopEnds, TypeOK
    <3> QED BY <3>1, <3>2, <3>3
  <2> QED BY <2>1, <2>2, <2>3, <2>4, <2>5
          DEF Next, TickStep, TickBegins, WaitForFrameWork, FrameWaitTest, FrameWaitSleep,
              SwapBuffers, GameSteps, ClearWriteBuffer, SetConnected, ResetPipeline,
              vars, orchestratorVars
<1>3. BufferInv => CallFits
  BY DEF BufferInv
<1> QED BY <1>1, <1>2, <1>3, TypeInvCorrect, BufferInvCorrect, PTL DEF Spec

-----------------------------------------------------------------------------
(* One writer for each vector *)

\* No work is queued or run twice.
Distinct ==
    /\ \A i, j \in 1 .. Len(tasks) : i # j => tasks[i] # tasks[j]
    /\ \A i \in 1 .. Len(tasks), w \in Workers : job[w] # tasks[i]
    /\ \A v, w \in Workers : v # w /\ job[v] # NoWork => job[v] # job[w]

NothingToRun == tasks = <<>> /\ \A w \in Workers : job[w] = NoWork

OnlyReadEntities ==
    /\ \A i \in 1 .. Len(tasks) : tasks[i] = ReadEntities
    /\ \A w \in Workers : job[w] # Interpolate

DistinctUnlessLate ==
    late \/ /\ Distinct
            /\ step = "kickRead" /\ caller = "counted" => NothingToRun
            /\ \/ step = "kickRead" /\ caller = "pushed"
               \/ step = "kickInterpolate" /\ caller \in {"out", "counted"}
               => OnlyReadEntities

\* A quiet pipeline has nothing to run, and so nothing twice.
LEMMA QuietHasNothing ==
    ASSUME TypeInv, Quiet
    PROVE  NothingToRun /\ Distinct
<1>1. \A w \in Workers : job[w] = NoWork
  BY DEF TypeInv, TypeOK, JobFits, Quiet, BusyWorkers, Busy
<1>2. tasks = <<>> /\ Len(tasks) = 0
  BY DEF Quiet
<1> QED BY <1>1, <1>2 DEF NothingToRun, Distinct

\* Distinctness through the steps of a worker: taking moves a task, finishing drops it.
LEMMA DistinctKept ==
    ASSUME TypeInv, TypeInv', NEW w \in Workers, WorkerStep(w)
    PROVE  /\ Distinct => Distinct'
           /\ NothingToRun => NothingToRun'
           /\ OnlyReadEntities => OnlyReadEntities'
<1>0. TypeOK /\ TypeOK'
  BY DEF TypeInv
<1>1. CASE WorkerTests(w) /\ tasks # <<>>
  <2>1. /\ tasks \in Seq(Works) /\ Len(tasks) > 0
        /\ Len(tasks') = Len(tasks) - 1
        /\ \A i \in 1 .. Len(tasks') : tasks'[i] = tasks[i + 1]
    <3>1. tasks \in Seq(Works) /\ tasks # <<>> /\ tasks' = Tail(tasks)
      BY <1>0, <1>1 DEF WorkerTests, TypeOK
    <3> QED BY <3>1
  <2>2. job'[w] = tasks[1] /\ \A v \in Workers : v # w => job'[v] = job[v]
    BY <1>0, <1>1 DEF WorkerTests, TypeOK
  <2>3. \A i \in 1 .. Len(tasks') : i + 1 \in 1 .. Len(tasks) /\ i + 1 # 1
    BY <2>1
  <2>4. 1 \in 1 .. Len(tasks)
    BY <2>1
  <2>5. ASSUME Distinct PROVE Distinct'
    <3>1. ASSUME NEW i \in 1 .. Len(tasks'), NEW j \in 1 .. Len(tasks'), i # j
          PROVE  tasks'[i] # tasks'[j]
      BY <2>1, <2>3, <2>5, <3>1 DEF Distinct
    <3>2. ASSUME NEW i \in 1 .. Len(tasks'), NEW v \in Workers PROVE job'[v] # tasks'[i]
      BY <2>1, <2>2, <2>3, <2>4, <2>5 DEF Distinct
    <3>3. ASSUME NEW u \in Workers, NEW v \in Workers, u # v, job'[u] # NoWork
          PROVE  job'[u] # job'[v]
      <4>1. \A x \in Workers : job[x] # tasks[1]
        BY <2>4, <2>5 DEF Distinct
      <4> QED BY <2>2, <2>5, <3>3, <4>1 DEF Distinct
    <3> QED BY <3>1, <3>2, <3>3 DEF Distinct
  <2>6. ASSUME OnlyReadEntities PROVE OnlyReadEntities'
    <3>1. tasks[1] = ReadEntities /\ ReadEntities # Interpolate
      BY <2>4, <2>6, WorksAssumption DEF OnlyReadEntities
    <3> QED BY <2>1, <2>2, <2>3, <2>6, <3>1 DEF OnlyReadEntities
  <2> QED BY <1>1, <2>5, <2>6 DEF NothingToRun
<1>2. CASE ~(WorkerTests(w) /\ tasks # <<>>)
  <2>1. tasks' = tasks /\ \A v \in Workers : job'[v] = job[v] \/ job'[v] = NoWork
    BY <1>0, <1>2 DEF WorkerStep, WorkBegins, WorkerLoops, WorkerTests, WorkerSleeps,
       WorkerFinishes, WorkerCountsDown, WorkerNotifies, TypeOK
  <2>2. /\ \A i \in 1 .. Len(tasks) : tasks[i] # NoWork
        /\ NoWork # Interpolate
    BY <1>0, NoWorkAssumption, WorksAssumption DEF TypeOK
  <2> QED BY <2>1, <2>2 DEF Distinct, NothingToRun, OnlyReadEntities
<1> QED BY <1>1, <1>2

\* Unless a reset did not wait, the two tasks of a tick never run twice at once, so
\* each vector of the write buffer has one writer.
THEOREM OneWriter == Spec => []OneWriterPerVector
<1>1. Init => DistinctUnlessLate
  <2> SUFFICES ASSUME Init PROVE DistinctUnlessLate
    OBVIOUS
  <2>1. tasks = <<>> /\ Len(tasks) = 0 /\ step = "frame" /\ \A w \in Workers : job[w] = NoWork
    BY DEF Init, OrchestratorInit
  <2> QED BY <2>1 DEF DistinctUnlessLate, Distinct
<1>2. TypeInv /\ TypeInv' /\ CounterCountsWork /\ BufferInv /\ BufferInv' /\ DistinctUnlessLate
        /\ [Next]_vars => DistinctUnlessLate'
  <2> SUFFICES ASSUME TypeInv, TypeInv', CounterCountsWork, BufferInv, BufferInv',
                      DistinctUnlessLate, [Next]_vars
               PROVE  DistinctUnlessLate'
    OBVIOUS
  <2>0. /\ TypeOK /\ TypeOK' /\ CallFits /\ CallFits'
        /\ QuietUnlessLate /\ QuietUnlessLate'
    BY DEF TypeInv, BufferInv
  <2>1. CASE KickBackgroundWork
    <3> SUFFICES ASSUME ~late PROVE DistinctUnlessLate'
      BY <2>1 DEF KickBackgroundWork, DistinctUnlessLate
    <3>0. UNCHANGED <<job, late>>
      BY <2>1 DEF KickBackgroundWork, CountFrameWork, PushTask, NotifyWorker
    <3>1. CASE CountFrameWork
      <4>1. UNCHANGED <<tasks, job, step>> /\ caller = "out" /\ caller' = "counted"
        BY <2>1, <3>1 DEF KickBackgroundWork, CountFrameWork, PushTask, NotifyWorker
      <4>2. step = "kickRead" => NothingToRun
        BY <2>0, <4>1, QuietHasNothing DEF QuietUnlessLate
      <4> QED BY <4>1, <4>2 DEF DistinctUnlessLate, Distinct, NothingToRun, OnlyReadEntities
    <3>2. CASE step = "kickRead" /\ PushTask(ReadEntities)
      <4>1. NothingToRun
        BY <3>2 DEF DistinctUnlessLate, PushTask
      <4>2. tasks' = <<ReadEntities>> /\ Len(tasks') = 1 /\ tasks'[1] = ReadEntities
        BY <3>2, <4>1 DEF PushTask, NothingToRun
      <4>3. caller' = "pushed" /\ \A w \in Workers : job'[w] = NoWork
        BY <3>0, <3>2, <4>1 DEF PushTask, NothingToRun
      <4> QED BY <4>2, <4>3, NoWorkAssumption, WorksAssumption
              DEF DistinctUnlessLate, Distinct, OnlyReadEntities
    <3>3. CASE step = "kickInterpolate" /\ PushTask(Interpolate) /\ step' = step
      <4>1. OnlyReadEntities /\ Distinct
        BY <3>3 DEF DistinctUnlessLate, PushTask
      <4>2. /\ Len(tasks') = Len(tasks) + 1 /\ Len(tasks) \in Nat
            /\ \A i \in 1 .. Len(tasks) : tasks'[i] = tasks[i]
            /\ tasks'[Len(tasks) + 1] = Interpolate
        BY <2>0, <3>3, WorksAssumption DEF PushTask, TypeOK
      <4>3. \A i \in 1 .. Len(tasks') : i \in 1 .. Len(tasks) \/ i = Len(tasks) + 1
        BY <4>2
      <4>4. Distinct'
        <5>1. ASSUME NEW i \in 1 .. Len(tasks'), NEW j \in 1 .. Len(tasks'), i # j
              PROVE  tasks'[i] # tasks'[j]
          BY <4>1, <4>2, <4>3, <5>1, WorksAssumption DEF Distinct, OnlyReadEntities
        <5>2. ASSUME NEW i \in 1 .. Len(tasks'), NEW w \in Workers PROVE job'[w] # tasks'[i]
          BY <3>0, <4>1, <4>2, <4>3 DEF Distinct, OnlyReadEntities
        <5>3. \A v, w \in Workers : v # w /\ job'[v] # NoWork => job'[v] # job'[w]
          BY <3>0, <4>1 DEF Distinct
        <5> QED BY <5>1, <5>2, <5>3 DEF Distinct
      <4>5. caller' = "pushed"
        BY <3>3 DEF PushTask
      <4> QED BY <3>3, <4>4, <4>5 DEF DistinctUnlessLate
    <3>4. CASE NotifyWorker
      <4>1. UNCHANGED <<tasks, job>> /\ caller = "pushed" /\ caller' = "out"
        BY <3>4 DEF NotifyWorker
      <4>2. \/ step = "kickRead" /\ step' = "kickInterpolate"
            \/ step = "kickInterpolate" /\ step' = "frame"
        BY <2>1, <3>4, <4>1 DEF KickBackgroundWork, CountFrameWork, PushTask, Goto
      <4> QED BY <4>1, <4>2 DEF DistinctUnlessLate, Distinct, OnlyReadEntities
    <3>5. \/ step = "kickRead" /\ PushTask(ReadEntities)
          \/ step = "kickInterpolate" /\ PushTask(Interpolate) /\ step' = step
          \/ CountFrameWork
          \/ NotifyWorker
      BY <2>1 DEF KickBackgroundWork
    <3> QED BY <3>1, <3>2, <3>3, <3>4, <3>5
  <2>2. ASSUME NEW w \in Workers, WorkerStep(w) PROVE DistinctUnlessLate'
    <3>1. UNCHANGED <<step, late>> /\ (caller' = caller \/ step = "wait")
      BY <2>0, <2>2 DEF WorkerStep, WorkBegins, WorkerLoops, WorkerTests, WorkerSleeps,
         WorkerFinishes, WorkerCountsDown, WorkerNotifies, pipelineVars, CallFits
    <3> QED BY <2>2, <3>1, DistinctKept DEF DistinctUnlessLate
  <2>3. CASE WaitForFrameWork
    <3>1. CASE step' = "swap"
      <4>1. Quiet'
        BY <2>0, <3>1 DEF QuietUnlessLate
      <4>2. Distinct'
        <5>1. TypeOK' /\ JobFits'
          BY DEF TypeInv
        <5>2. \A w \in Workers : job'[w] = NoWork
          BY <4>1, <5>1 DEF TypeOK, JobFits, Quiet, BusyWorkers, Busy
        <5>3. Len(tasks') = 0
          BY <4>1 DEF Quiet
        <5> QED BY <5>2, <5>3 DEF Distinct
      <4> QED BY <3>1, <4>2 DEF DistinctUnlessLate
    <3>2. CASE step' = "wait" /\ late' = late
      <4>1. tasks' = tasks /\ job' = job
        BY <2>3 DEF WaitForFrameWork
      <4> QED BY <3>2, <4>1 DEF DistinctUnlessLate, Distinct
    <3>3. step' = "swap" \/ (step' = "wait" /\ late' = late)
      BY <2>3 DEF WaitForFrameWork, Goto
    <3> QED BY <3>1, <3>2, <3>3
  <2>4. CASE ResetPipeline
    <3>1. late' <=> ~Quiet
      BY <2>4 DEF ResetPipeline
    <3>2. Quiet => Distinct
      BY QuietHasNothing
    <3> QED BY <2>4, <3>1, <3>2 DEF ResetPipeline, orchestratorVars, DistinctUnlessLate, Distinct
  <2>5. CASE Shutdown
    <3>1. /\ UNCHANGED <<late, job>> /\ step' \notin {"kickRead", "kickInterpolate"}
          /\ tasks' = tasks \/ (tasks' = <<>> /\ Len(tasks') = 0)
      BY <2>5 DEF Shutdown, StopBegins, StopNotifies, StopEnds, Goto
    <3> QED BY <3>1 DEF DistinctUnlessLate, Distinct
  <2>6. CASE SpuriousWakeup
    <3>1. UNCHANGED <<tasks, job, step, late>> /\ (caller' = caller \/ step = "wait")
      BY <2>0, <2>6 DEF SpuriousWakeup, WorkerWakes, FrameWaitWakes, pipelineVars, CallFits
    <3> QED BY <3>1 DEF DistinctUnlessLate, Distinct, NothingToRun, OnlyReadEntities
  <2>7. CASE ClearWriteBuffer
    <3>1. step' = "kickRead" /\ caller' # "counted" /\ caller' # "pushed"
      BY <2>0, <2>7 DEF ClearWriteBuffer, orchestratorVars, CallFits, Goto
    <3> QED BY <2>7, <3>1 DEF ClearWriteBuffer, orchestratorVars, DistinctUnlessLate, Distinct
  <2>8. CASE TickBegins \/ SwapBuffers \/ GameSteps \/ SetConnected \/ UNCHANGED vars
    <3>1. /\ UNCHANGED <<tasks, job, caller, late>>
          /\ step' = step \/ step' \notin {"kickRead", "kickInterpolate"}
      BY <2>8 DEF TickBegins, SwapBuffers, GameSteps, SetConnected, Goto, vars, orchestratorVars,
                  pipelineVars
    <3> QED BY <3>1 DEF DistinctUnlessLate, Distinct, NothingToRun, OnlyReadEntities
  <2> QED BY <2>1, <2>2, <2>3, <2>4, <2>5, <2>6, <2>7, <2>8 DEF Next, TickStep
<1>3. TypeInv /\ DistinctUnlessLate => OneWriterPerVector
  <2> SUFFICES ASSUME TypeInv, DistinctUnlessLate PROVE OneWriterPerVector
    OBVIOUS
  <2>1. \A w \in Workers : wpc[w] = "run" => job[w] # NoWork
    BY NoWorkAssumption DEF TypeInv, JobFits
  <2> QED BY <2>1 DEF DistinctUnlessLate, Distinct, OneWriterPerVector
<1> QED BY <1>1, <1>2, <1>3, TypeInvCorrect, CounterCorrect, BufferInvCorrect, PTL DEF Spec
=============================================================================
