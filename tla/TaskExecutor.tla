---------------------------- MODULE TaskExecutor ----------------------------
(***************************************************************************)
(* What AsyncDbWorker promises the main thread: tasks run one at a time,   *)
(* in the order they were submitted; the completion callback of a task is  *)
(* called once, after the task, in submission order; the executor closes   *)
(* only when every submitted task has run.  Tasks are numbered by their    *)
(* submission.  Threads, locks and queues are left to the implementation.  *)
(***************************************************************************)
EXTENDS Integers, Sequences, FiniteSets

CONSTANT MaxTasks      \* bound on the number of submissions

VARIABLES
    submitted,  \* number of tasks submitted
    wants,      \* the tasks submitted with a completion callback
    executed,   \* number of tasks that have run
    delivered,  \* the callbacks called, in call order
    closed      \* the executor no longer exists

execVars == <<submitted, wants, executed, delivered, closed>>

Init ==
    /\ submitted = 0
    /\ wants = {}
    /\ executed = 0
    /\ delivered = <<>>
    /\ closed = FALSE

Submit(callback) ==
    /\ ~closed
    /\ submitted < MaxTasks
    /\ submitted' = submitted + 1
    /\ wants' = IF callback THEN wants \cup {submitted + 1} ELSE wants
    /\ UNCHANGED <<executed, delivered, closed>>

Execute ==
    /\ executed < submitted
    /\ executed' = executed + 1
    /\ UNCHANGED <<submitted, wants, delivered, closed>>

\* The next callback due is the one of the earliest executed task whose
\* callback has not been called.
Deliver(t) ==
    /\ t \in wants
    /\ t <= executed
    /\ \A i \in DOMAIN delivered : delivered[i] < t
    /\ \A w \in wants : w < t => \E i \in DOMAIN delivered : delivered[i] = w
    /\ delivered' = Append(delivered, t)
    /\ UNCHANGED <<submitted, wants, executed, closed>>

Close ==
    /\ ~closed
    /\ executed = submitted
    /\ closed' = TRUE
    /\ UNCHANGED <<submitted, wants, executed, delivered>>

Next ==
    \/ \E callback \in BOOLEAN : Submit(callback)
    \/ Execute
    \/ \E t \in wants : Deliver(t)
    \/ Close

Safety == Init /\ [][Next]_execVars

\* A submitted task is not left in the queue.
Spec == Safety /\ WF_execVars(Execute)
=============================================================================
