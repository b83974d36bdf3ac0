--------------------------- MODULE AsyncDbWorker ---------------------------
(***************************************************************************)
(* core/components/async_db_worker.cpp: one background thread that owns    *)
(* the SQLite connection, the mutex-protected task queue the main thread   *)
(* fills, and the queue of completion callbacks the main thread drains on  *)
(* SceneTree.process_frame.                                                *)
(*                                                                         *)
(* A critical section is two steps, one that takes queue_mutex_ and one    *)
(* that does the body and releases it; evaluating the wait predicate and   *)
(* blocking on the condition variable are separate steps, both under the   *)
(* mutex, as in std::condition_variable::wait.  A task is its submission   *)
(* number and whether it has an on_complete.                               *)
(***************************************************************************)
EXTENDS Integers, Sequences, FiniteSets

CONSTANT MaxTasks      \* bound on the number of push_task calls

ASSUME MaxTasksAssumption == MaxTasks \in Nat

VARIABLES
    queue_mutex_,          \* "free", or the thread that holds it
    task_queue_,           \* tasks pushed and not yet taken
    completed_callbacks_,  \* callbacks of tasks that ran, not yet swapped out
    stop_,
    joinable,              \* worker_.joinable()
    connected,             \* _flush_callbacks is connected to process_frame
    local,                 \* the callbacks _flush_callbacks swapped out
    mpc,                   \* where the main thread is
    wpc,                   \* where thread_loop is
    task,                  \* thread_loop's current task
    submitted, wants, executed, delivered   \* history, see TaskExecutor

shared  == <<queue_mutex_, task_queue_, completed_callbacks_, stop_>>
history == <<submitted, wants, executed, delivered>>
vars == <<shared, joinable, connected, local, mpc, wpc, task, history>>

Tasks == [id : 1..MaxTasks, on_complete : BOOLEAN]
NoTask == [id |-> 0, on_complete |-> FALSE]

MainStates == {"idle", "push", "pushNotify", "flush", "stop", "stopNotify",
               "join", "dtor", "freed"}
WorkerStates == {"lock", "check", "block", "waiting", "take", "work",
                 "publish", "publishing", "exited"}

\* The critical sections of each thread.
MainLocked   == {"push", "flush", "stop"}
WorkerLocked == {"check", "block", "take", "publishing"}

Lock(thread) == queue_mutex_ = "free" /\ queue_mutex_' = thread
Unlock == queue_mutex_' = "free"

\* cv_.notify_one(): wakes the worker if it is blocked, is lost otherwise.
notify_one == wpc' = IF wpc = "waiting" THEN "lock" ELSE wpc

Init ==
    /\ queue_mutex_ = "free"
    /\ task_queue_ = <<>>
    /\ completed_callbacks_ = <<>>
    /\ stop_ = FALSE
    /\ joinable = TRUE
    /\ connected = TRUE
    /\ local = <<>>
    /\ mpc = "idle"
    /\ wpc = "lock"
    /\ task = NoTask
    /\ submitted = 0
    /\ wants = {}
    /\ executed = 0
    /\ delivered = <<>>

-----------------------------------------------------------------------------
(* Main thread: push_task.  Callbacks may push, hence no guard on local.   *)

PushLock ==
    /\ mpc = "idle"
    /\ submitted < MaxTasks
    /\ Lock("main")
    /\ mpc' = "push"
    /\ UNCHANGED <<task_queue_, completed_callbacks_, stop_, joinable,
                   connected, local, wpc, task, history>>

PushEmplace(callback) ==
    /\ mpc = "push"
    /\ task_queue_' = Append(task_queue_,
                          [id |-> submitted + 1, on_complete |-> callback])
    /\ submitted' = submitted + 1
    /\ wants' = IF callback THEN wants \cup {submitted + 1} ELSE wants
    /\ Unlock
    /\ mpc' = "pushNotify"
    /\ UNCHANGED <<completed_callbacks_, stop_, joinable, connected, local,
                   wpc, task, executed, delivered>>

\* Mutant: the notify_one after the push is forgotten.
PushNotify_Silent ==
    /\ mpc = "pushNotify"
    /\ mpc' = "idle"
    /\ UNCHANGED <<shared, joinable, connected, local, wpc, task, history>>

PushNotify ==
    /\ mpc = "pushNotify"
    /\ notify_one
    /\ mpc' = "idle"
    /\ UNCHANGED <<shared, joinable, connected, local, task, history>>

-----------------------------------------------------------------------------
(* Main thread: _flush_callbacks, once per frame.                          *)

\* Mutant: the swap of completed_callbacks_ is not protected by the mutex.
FlushLock_Unprotected ==
    /\ mpc = "idle"
    /\ connected
    /\ local = <<>>
    /\ mpc' = "flush"
    /\ UNCHANGED <<shared, joinable, connected, local, wpc, task, history>>

FlushLock ==
    /\ mpc = "idle"
    /\ connected
    /\ local = <<>>
    /\ Lock("main")
    /\ mpc' = "flush"
    /\ UNCHANGED <<task_queue_, completed_callbacks_, stop_, joinable,
                   connected, local, wpc, task, history>>

\* Mutant: the callbacks are copied out and the shared queue is not emptied.
FlushSwap_Copy ==
    /\ mpc = "flush"
    /\ local' = completed_callbacks_
    /\ Unlock
    /\ mpc' = "idle"
    /\ UNCHANGED <<completed_callbacks_, task_queue_, stop_, joinable, connected,
                   wpc, task, history>>

\* Mutant: the shared queue is cleared and nothing is kept to run.
FlushSwap_Drop ==
    /\ mpc = "flush"
    /\ completed_callbacks_' = <<>>
    /\ Unlock
    /\ mpc' = "idle"
    /\ UNCHANGED <<local, task_queue_, stop_, joinable, connected, wpc, task,
                   history>>

FlushSwap ==
    /\ mpc = "flush"
    /\ local' = completed_callbacks_
    /\ completed_callbacks_' = local
    /\ Unlock
    /\ mpc' = "idle"
    /\ UNCHANGED <<task_queue_, stop_, joinable, connected, wpc, task, history>>

\* Callbacks run outside the mutex.  One of them may drop the last reference
\* to the worker; the rest of local, a stack variable, still runs.
RunCallback ==
    /\ mpc \in {"idle", "freed"}
    /\ local # <<>>
    /\ delivered' = Append(delivered, Head(local))
    /\ local' = Tail(local)
    /\ UNCHANGED <<shared, joinable, connected, mpc, wpc, task,
                   submitted, wants, executed>>

-----------------------------------------------------------------------------
(* Main thread: NOTIFICATION_PREDELETE when the last Ref goes, then the    *)
(* destructor, which repeats the stop and finds nothing left to join.      *)

\* Mutant: stop_ is an atomic, so it is set without taking queue_mutex_.
StopLock_Atomic ==
    /\ mpc \in {"idle", "dtor"}
    /\ mpc' = "stop"
    /\ UNCHANGED <<shared, joinable, connected, local, wpc, task, history>>

StopLock ==
    /\ mpc \in {"idle", "dtor"}
    /\ Lock("main")
    /\ mpc' = "stop"
    /\ UNCHANGED <<task_queue_, completed_callbacks_, stop_, joinable,
                   connected, local, wpc, task, history>>

StopSet ==
    /\ mpc = "stop"
    /\ stop_' = TRUE
    /\ Unlock
    /\ mpc' = "stopNotify"
    /\ UNCHANGED <<task_queue_, completed_callbacks_, joinable, connected,
                   local, wpc, task, history>>

\* Mutant: join without waking the worker.
StopNotify_Silent ==
    /\ mpc = "stopNotify"
    /\ mpc' = "join"
    /\ UNCHANGED <<shared, joinable, connected, local, wpc, task, history>>

StopNotify ==
    /\ mpc = "stopNotify"
    /\ notify_one
    /\ mpc' = "join"
    /\ UNCHANGED <<shared, joinable, connected, local, task, history>>

Join ==
    /\ mpc = "join"
    /\ joinable => wpc = "exited"
    /\ joinable' = FALSE
    /\ connected' = FALSE
    /\ mpc' = IF joinable THEN "dtor" ELSE "freed"
    /\ UNCHANGED <<shared, local, wpc, task, history>>

-----------------------------------------------------------------------------
(* Worker thread: thread_loop.                                             *)

WorkerLock ==
    /\ wpc = "lock"
    /\ Lock("worker")
    /\ wpc' = "check"
    /\ UNCHANGED <<task_queue_, completed_callbacks_, stop_, joinable,
                   connected, local, mpc, task, history>>

WorkerCheck ==
    /\ wpc = "check"
    /\ wpc' = IF stop_ \/ task_queue_ # <<>> THEN "take" ELSE "block"
    /\ UNCHANGED <<shared, joinable, connected, local, mpc, task, history>>

WorkerBlock ==
    /\ wpc = "block"
    /\ Unlock
    /\ wpc' = "waiting"
    /\ UNCHANGED <<task_queue_, completed_callbacks_, stop_, joinable,
                   connected, local, mpc, task, history>>

WorkerSpuriousWake ==
    /\ wpc = "waiting"
    /\ wpc' = "lock"
    /\ UNCHANGED <<shared, joinable, connected, local, mpc, task, history>>

\* Mutant: the thread leaves as soon as it is told to stop.
WorkerTake_StopFirst ==
    /\ wpc = "take"
    /\ Unlock
    /\ IF stop_
         THEN /\ wpc' = "exited"
              /\ UNCHANGED <<task_queue_, task>>
         ELSE /\ wpc' = "work"
              /\ task' = Head(task_queue_)
              /\ task_queue_' = Tail(task_queue_)
    /\ UNCHANGED <<completed_callbacks_, stop_, joinable, connected, local,
                   mpc, history>>

\* Mutant: the newest task is taken, as from a stack.
WorkerTake_Newest ==
    /\ wpc = "take"
    /\ Unlock
    /\ IF stop_ /\ task_queue_ = <<>>
         THEN /\ wpc' = "exited"
              /\ UNCHANGED <<task_queue_, task>>
         ELSE /\ wpc' = "work"
              /\ task' = task_queue_[Len(task_queue_)]
              /\ task_queue_' = SubSeq(task_queue_, 1, Len(task_queue_) - 1)
    /\ UNCHANGED <<completed_callbacks_, stop_, joinable, connected, local,
                   mpc, history>>

WorkerTake ==
    /\ wpc = "take"
    /\ Unlock
    /\ IF stop_ /\ task_queue_ = <<>>
         THEN /\ wpc' = "exited"
              /\ UNCHANGED <<task_queue_, task>>
         ELSE /\ wpc' = "work"
              /\ task' = Head(task_queue_)
              /\ task_queue_' = Tail(task_queue_)
    /\ UNCHANGED <<completed_callbacks_, stop_, joinable, connected, local,
                   mpc, history>>

WorkerWork ==
    /\ wpc = "work"
    /\ executed' = task.id
    /\ wpc' = IF task.on_complete THEN "publish" ELSE "lock"
    /\ UNCHANGED <<shared, joinable, connected, local, mpc, task, submitted,
                   wants, delivered>>

WorkerPublishLock ==
    /\ wpc = "publish"
    /\ Lock("worker")
    /\ wpc' = "publishing"
    /\ UNCHANGED <<task_queue_, completed_callbacks_, stop_, joinable,
                   connected, local, mpc, task, history>>

\* Mutant: the callback is published after its task was moved from.
WorkerPublish_Moved ==
    /\ wpc = "publishing"
    /\ completed_callbacks_' = Append(completed_callbacks_, NoTask.id)
    /\ Unlock
    /\ wpc' = "lock"
    /\ UNCHANGED <<task_queue_, stop_, joinable, connected, local, mpc, task,
                   history>>

WorkerPublish ==
    /\ wpc = "publishing"
    /\ completed_callbacks_' = Append(completed_callbacks_, task.id)
    /\ Unlock
    /\ wpc' = "lock"
    /\ UNCHANGED <<task_queue_, stop_, joinable, connected, local, mpc, task,
                   history>>

-----------------------------------------------------------------------------

Terminated ==
    /\ mpc = "freed"
    /\ local = <<>>
    /\ UNCHANGED vars

Main ==
    \/ PushLock
    \/ \E callback \in BOOLEAN : PushEmplace(callback)
    \/ PushNotify
    \/ FlushLock \/ FlushSwap \/ RunCallback
    \/ StopLock \/ StopSet \/ StopNotify \/ Join

Worker ==
    \/ WorkerLock \/ WorkerCheck \/ WorkerBlock \/ WorkerSpuriousWake
    \/ WorkerTake \/ WorkerWork \/ WorkerPublishLock \/ WorkerPublish

Next == Main \/ Worker \/ Terminated

Safety == Init /\ [][Next]_vars

(***************************************************************************)
(* Fairness.  Both threads keep running the code they are in; the engine   *)
(* keeps emitting process_frame; the mutex does not starve a thread        *)
(* forever.  Nothing forces the main thread to push or to drop the worker, *)
(* and spurious wake-ups need not happen.                                  *)
(***************************************************************************)
Fairness ==
    /\ WF_vars(PushEmplace(TRUE) \/ PushEmplace(FALSE)) /\ WF_vars(PushNotify)
    /\ SF_vars(FlushLock) /\ WF_vars(FlushSwap) /\ WF_vars(RunCallback)
    /\ SF_vars(mpc = "dtor" /\ StopLock) /\ WF_vars(StopSet)
    /\ WF_vars(StopNotify) /\ WF_vars(Join)
    /\ SF_vars(WorkerLock) /\ WF_vars(WorkerCheck) /\ WF_vars(WorkerBlock)
    /\ WF_vars(WorkerTake) /\ WF_vars(WorkerWork)
    /\ SF_vars(WorkerPublishLock) /\ WF_vars(WorkerPublish)

Spec == Safety /\ Fairness

-----------------------------------------------------------------------------
(* Properties.                                                             *)

\* Types of the thread, queue and history variables.
TypeOK ==
    /\ queue_mutex_ \in {"free", "main", "worker"}
    /\ task_queue_ \in Seq(Tasks)
    /\ completed_callbacks_ \in Seq(1..MaxTasks)
    /\ stop_ \in BOOLEAN
    /\ joinable \in BOOLEAN
    /\ connected \in BOOLEAN
    /\ local \in Seq(1..MaxTasks)
    /\ mpc \in MainStates
    /\ wpc \in WorkerStates
    /\ task \in Tasks \cup {NoTask}
    /\ submitted \in 0..MaxTasks
    /\ wants \subseteq 1..MaxTasks
    /\ executed \in 0..MaxTasks
    /\ delivered \in Seq(1..MaxTasks)

\* The two threads are never both inside a queue_mutex_ section, so a task or
\* a callback queue is never read while the other thread changes it.
MutualExclusion == ~(mpc \in MainLocked /\ wpc \in WorkerLocked)

\* No wake-up is lost: a worker blocked on cv_ while there is work, or while
\* it has been told to stop, is about to be notified.  This is what setting
\* stop_ and filling task_queue_ under queue_mutex_ is for.
NoLostWakeup ==
    wpc = "waiting" /\ (task_queue_ # <<>> \/ stop_)
        => mpc \in {"pushNotify", "stopNotify"}

\* PREDELETE returns from join only with the queue drained: every pushed
\* task has reached the database before the connection is closed.
DrainedBeforeFree ==
    mpc \in {"dtor", "freed"}
        => wpc = "exited" /\ task_queue_ = <<>> /\ executed = submitted

\* Every task is in exactly one place - taken or still queued, in submission
\* order: the worker neither loses, repeats nor reorders a task.
Taken == IF wpc = "work" THEN executed + 1 ELSE executed
FifoQueue ==
    /\ Len(task_queue_) = submitted - Taken
    /\ \A i \in 1..Len(task_queue_) : task_queue_[i].id = Taken + i

\* The implementation is a TaskExecutor that closes when the object is gone.
Exec == INSTANCE TaskExecutor WITH closed <- mpc = "freed"
ExecutorSafety == Exec!Safety

\* A pushed task is eventually executed, even if the worker object is
\* dropped right after the push.
EveryTaskRuns ==
    \A t \in 1..MaxTasks : submitted >= t ~> executed >= t

\* The callback of a task that ran is eventually called, unless the worker
\* is destroyed first (its process_frame connection goes with it).
CallbackCalled ==
    \A t \in 1..MaxTasks :
        (t \in wants /\ executed >= t)
            ~> ((\E i \in DOMAIN delivered : delivered[i] = t) \/ ~connected)

\* Dropping the last reference does not hang the main thread in join().
DestructionEnds == mpc = "stop" ~> mpc = "freed"
=============================================================================
