-------------------------- MODULE TaskOrchestrator --------------------------
(***************************************************************************)
(* The client's background workers (KenshiMP.Core/sys/task_orchestrator):  *)
(* a FIFO of tasks, worker threads that run them, and a counter of frame   *)
(* work that the main thread waits on.                                     *)
(*                                                                         *)
(* A wait on a condition variable is three states: the predicate has been  *)
(* found false and the mutex is still held ("drowsy"), the thread sleeps   *)
(* ("asleep"), and it is up to test again. Every notification here is sent *)
(* without the mutex, so it may come while its receiver is drowsy, and is  *)
(* lost. A thread may also wake without a notification.                    *)
(*                                                                         *)
(* The calls come from the main thread alone: OnGameTick and Shutdown.     *)
(* Post, for work that no frame waits for, has no caller in the client, so *)
(* every task here is frame work.                                          *)
(***************************************************************************)
EXTENDS Integers, Sequences

CONSTANTS
    Workers,        \* worker threads
    Works,          \* the frame work posted in a tick
    NoWork          \* a worker without a task

ASSUME NoWorkAssumption == NoWork \notin Works

VARIABLES
    tasks,          \* m_tasks
    pending,        \* m_pendingFrameWork
    running,        \* m_running
    wpc,            \* worker -> where it stands in WorkerLoop
    job,            \* worker -> the task it has taken
    caller          \* where the main thread stands in a call, "out" of one

orchestratorVars == <<tasks, pending, running, wpc, job, caller>>

WorkerState == {"loop", "test", "drowsy", "asleep", "taken", "run", "done", "notify", "exited"}
CallerState == {"out", "counted", "pushed", "drowsy", "asleep", "stopping", "joining"}

\* Has taken a task and not yet counted it as done.
Busy(w) == wpc[w] \in {"taken", "run", "done"}

\* m_taskMutex is held across steps only by a worker about to sleep.
TaskMutexFree == \A w \in Workers : wpc[w] # "drowsy"

OrchestratorInit ==
    /\ tasks = <<>>
    /\ pending = 0
    /\ running = TRUE
    /\ wpc = [w \in Workers |-> "loop"]
    /\ job = [w \in Workers |-> NoWork]
    /\ caller = "out"

-----------------------------------------------------------------------------
(* The main thread posts: count, push, notify. *)

\* Mutant of CountFrameWork: posted without being counted.
PostUncounted ==
    /\ caller = "out"
    /\ caller' = "counted"
    /\ UNCHANGED <<tasks, pending, running, wpc, job>>

CountFrameWork ==
    /\ caller = "out"
    /\ pending' = pending + 1
    /\ caller' = "counted"
    /\ UNCHANGED <<tasks, running, wpc, job>>

PushTask(work) ==
    /\ caller = "counted"
    /\ TaskMutexFree
    /\ tasks' = Append(tasks, work)
    /\ caller' = "pushed"
    /\ UNCHANGED <<pending, running, wpc, job>>

\* Mutant of NotifyWorker: no worker is told.
NotifyNobody ==
    /\ caller = "pushed"
    /\ caller' = "out"
    /\ UNCHANGED <<tasks, pending, running, wpc, job>>

\* notify_one, after m_taskMutex is released.
NotifyWorker ==
    /\ caller = "pushed"
    /\ LET Sleepers == {w \in Workers : wpc[w] = "asleep"}
       IN  IF Sleepers = {}
             THEN UNCHANGED wpc
             ELSE \E w \in Sleepers : wpc' = [wpc EXCEPT ![w] = "test"]
    /\ caller' = "out"
    /\ UNCHANGED <<tasks, pending, running, job>>

-----------------------------------------------------------------------------
(* The main thread waits for the frame work. *)

FrameWorkDone == pending <= 0

\* m_frameMutex is taken by no other thread, so the test is one step.
FrameWaitTest == caller = "out" /\ ~FrameWorkDone /\ caller' = "drowsy"
FrameWaitSleep == caller = "drowsy" /\ caller' = "asleep"

FrameWaitWakes == caller = "asleep" /\ caller' = "out"

-----------------------------------------------------------------------------
(* The main thread stops the workers. *)

StopBegins ==
    /\ caller = "out"
    /\ running
    /\ running' = FALSE
    /\ caller' = "stopping"
    /\ UNCHANGED <<tasks, pending, wpc, job>>

\* m_taskCV.notify_all, without m_taskMutex.
StopNotifies ==
    /\ caller = "stopping"
    /\ wpc' = [w \in Workers |-> IF wpc[w] = "asleep" THEN "test" ELSE wpc[w]]
    /\ caller' = "joining"
    /\ UNCHANGED <<tasks, pending, running, job>>

\* All workers have been joined: what is left in the queue is dropped.
StopEnds ==
    /\ caller = "joining"
    /\ \A w \in Workers : wpc[w] = "exited"
    /\ tasks' = <<>>
    /\ pending' = 0
    /\ caller' = "out"
    /\ UNCHANGED <<running, wpc, job>>

-----------------------------------------------------------------------------
(* A worker *)

WorkerLoops(w) ==
    /\ wpc[w] = "loop"
    /\ wpc' = [wpc EXCEPT ![w] = IF running THEN "test" ELSE "exited"]
    /\ UNCHANGED <<tasks, pending, running, job, caller>>

\* With m_taskMutex: take the first task, leave, or get ready to sleep.
WorkerTests(w) ==
    /\ wpc[w] = "test"
    /\ TaskMutexFree
    /\ IF tasks # <<>>
         THEN /\ wpc' = [wpc EXCEPT ![w] = "taken"]
              /\ job' = [job EXCEPT ![w] = Head(tasks)]
              /\ tasks' = Tail(tasks)
         ELSE /\ wpc' = [wpc EXCEPT ![w] = IF running THEN "drowsy" ELSE "exited"]
              /\ UNCHANGED <<tasks, job>>
    /\ UNCHANGED <<pending, running, caller>>

WorkerSleeps(w) ==
    /\ wpc[w] = "drowsy"
    /\ wpc' = [wpc EXCEPT ![w] = "asleep"]
    /\ UNCHANGED <<tasks, pending, running, job, caller>>

WorkerWakes(w) ==
    /\ wpc[w] = "asleep"
    /\ wpc' = [wpc EXCEPT ![w] = "test"]
    /\ UNCHANGED <<tasks, pending, running, job, caller>>

\* Mutant of WorkerFinishes: an exception ends the thread.
WorkerMayDie(w) ==
    /\ wpc[w] = "run"
    /\ \E s \in {"done", "exited"} : wpc' = [wpc EXCEPT ![w] = s]
    /\ job' = [job EXCEPT ![w] = NoWork]
    /\ UNCHANGED <<tasks, pending, running, caller>>

\* The task is over, in whatever way: structured exceptions are caught.
WorkerFinishes(w) ==
    /\ wpc[w] = "run"
    /\ wpc' = [wpc EXCEPT ![w] = "done"]
    /\ job' = [job EXCEPT ![w] = NoWork]
    /\ UNCHANGED <<tasks, pending, running, caller>>

WorkerCountsDown(w) ==
    /\ wpc[w] = "done"
    /\ pending' = pending - 1
    /\ wpc' = [wpc EXCEPT ![w] = IF pending <= 1 THEN "notify" ELSE "loop"]
    /\ UNCHANGED <<tasks, running, job, caller>>

\* m_frameCV.notify_all, without m_frameMutex.
WorkerNotifies(w) ==
    /\ wpc[w] = "notify"
    /\ wpc' = [wpc EXCEPT ![w] = "loop"]
    /\ caller' = IF caller = "asleep" THEN "out" ELSE caller
    /\ UNCHANGED <<tasks, pending, running, job>>
=============================================================================
