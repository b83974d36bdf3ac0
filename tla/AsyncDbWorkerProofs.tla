------------------------ MODULE AsyncDbWorkerProofs ------------------------
(***************************************************************************)
(* Proofs about AsyncDbWorker for every MaxTasks: the inductive invariant  *)
(* behind the safety run, and that the worker implements TaskExecutor.     *)
(***************************************************************************)
EXTENDS AsyncDbWorker, TLAPS

\* Who holds the mutex is who is inside a critical section.
LockInv ==
    /\ queue_mutex_ = "main" <=> mpc \in MainLocked
    /\ queue_mutex_ = "worker" <=> wpc \in WorkerLocked

\* A worker about to block, still under the mutex, has nothing to do.
WaitInv ==
    /\ wpc = "block" => task_queue_ = <<>> /\ ~stop_
    /\ wpc = "take" => task_queue_ # <<>> \/ stop_
    /\ NoLostWakeup

\* The current task is the one after, or the one of, the last execution.
TaskInv ==
    /\ wpc = "work" => task.id = executed + 1
    /\ wpc \in {"publish", "publishing"} => task.id = executed /\ executed \in wants
    /\ wpc = "work" => (task.on_complete <=> task.id \in wants)
    /\ \A i \in 1..Len(task_queue_) :
           task_queue_[i].on_complete <=> task_queue_[i].id \in wants
    /\ \A w \in wants : w <= submitted

\* What the place of the main thread says of the shutdown and of its locals.
MainInv ==
    /\ mpc \in {"stopNotify", "join", "dtor", "freed"} => stop_
    /\ stop_ => mpc \in {"stop", "stopNotify", "join", "dtor", "freed"}
    /\ wpc = "exited" => stop_ /\ task_queue_ = <<>>
    /\ mpc \in {"dtor", "freed"} => wpc = "exited"
    /\ ~joinable => wpc = "exited"
    /\ mpc = "push" => submitted < MaxTasks
    /\ mpc = "flush" => local = <<>>

\* The tasks whose callbacks have reached completed_callbacks_.
Published == IF wpc \in {"publish", "publishing"} THEN executed - 1 ELSE executed

\* Every element of s is smaller than every element of t.
Below(s, t) == \A i \in 1..Len(s), j \in 1..Len(t) : s[i] < t[j]
Increasing(s) == \A i, j \in 1..Len(s) : i < j => s[i] < s[j]
Due(s) == \A i \in 1..Len(s) : s[i] \in wants /\ s[i] <= Published
Has(s, w) == \E i \in 1..Len(s) : s[i] = w

\* delivered, local and completed_callbacks_, one after the other, list the
\* published callbacks in increasing order, without gap or repetition.
CallbackInv ==
    /\ Increasing(local) /\ Increasing(completed_callbacks_)
    /\ Below(delivered, local)
    /\ Below(delivered, completed_callbacks_)
    /\ Below(local, completed_callbacks_)
    /\ Due(delivered) /\ Due(local) /\ Due(completed_callbacks_)
    /\ \A w \in wants : w <= Published =>
           Has(delivered, w) \/ Has(local, w) \/ Has(completed_callbacks_, w)

ThreadInv == TypeOK /\ LockInv /\ WaitInv /\ FifoQueue /\ TaskInv /\ MainInv

IInv == ThreadInv /\ CallbackInv

-----------------------------------------------------------------------------
(* Two facts about the queues' operators, in the form the steps use them.  *)

\* Taking the front of a queue shifts the rest by one.
LEMMA FrontOfQueue ==
    ASSUME NEW S, NEW q \in Seq(S), q # <<>>
    PROVE  /\ Len(q) \in Nat \ {0}
           /\ Head(q) = q[1] /\ Head(q) \in S
           /\ Tail(q) \in Seq(S)
           /\ Len(Tail(q)) = Len(q) - 1
           /\ \A i \in 1..Len(Tail(q)) : Tail(q)[i] = q[i + 1]
OBVIOUS

\* Appending to a queue leaves its elements where they are.
LEMMA BackOfQueue ==
    ASSUME NEW S, NEW q \in Seq(S), NEW x \in S
    PROVE  /\ Append(q, x) \in Seq(S)
           /\ Len(q) \in Nat
           /\ Len(Append(q, x)) = Len(q) + 1
           /\ Append(q, x)[Len(q) + 1] = x
           /\ \A i \in 1..Len(q) : Append(q, x)[i] = q[i]
OBVIOUS

-----------------------------------------------------------------------------

USE MaxTasksAssumption

\* The locks and the queues are consistent at start.
LEMMA ThreadInit == Init => ThreadInv
<1> SUFFICES ASSUME Init PROVE ThreadInv
  OBVIOUS
<1> USE DEF Init
<1>1. TypeOK
  <2>1. <<>> \in Seq(Tasks) /\ <<>> \in Seq(1..MaxTasks)
    OBVIOUS
  <2>2. /\ 0 \in 0..MaxTasks /\ {} \subseteq 1..MaxTasks
        /\ "idle" \in MainStates /\ "lock" \in WorkerStates
    BY DEF MainStates, WorkerStates
  <2> QED
    BY <2>1, <2>2, Zenon DEF TypeOK
<1>2. LockInv /\ WaitInv /\ MainInv
  BY DEF LockInv, WaitInv, NoLostWakeup, MainInv, MainLocked, WorkerLocked
<1>3. FifoQueue /\ TaskInv
  BY DEF FifoQueue, Taken, TaskInv
<1> QED
  BY <1>1, <1>2, <1>3 DEF ThreadInv

\* Every step of either thread keeps the locks and the task queue consistent.
LEMMA ThreadStep == ThreadInv /\ [Next]_vars => ThreadInv'
<1> SUFFICES ASSUME ThreadInv, [Next]_vars PROVE ThreadInv'
  OBVIOUS
<1> USE DEF ThreadInv, TypeOK, LockInv, WaitInv, NoLostWakeup, FifoQueue, Taken,
            TaskInv, MainInv, MainLocked, WorkerLocked, MainStates,
            WorkerStates, NoTask, shared, history, Lock, Unlock
<1>1. CASE PushLock
  BY <1>1 DEF PushLock
<1>2. CASE PushNotify
  BY <1>2 DEF PushNotify, notify_one
<1>3. CASE FlushLock
  BY <1>3 DEF FlushLock
<1>4. CASE FlushSwap
  BY <1>4 DEF FlushSwap
<1>5. CASE RunCallback
  <2>1. /\ delivered' \in Seq(1..MaxTasks)
        /\ local' \in Seq(1..MaxTasks)
    BY <1>5, FrontOfQueue, BackOfQueue DEF RunCallback
  <2> QED
    BY <1>5, <2>1 DEF RunCallback
<1>6. CASE StopLock
  BY <1>6 DEF StopLock
<1>7. CASE StopSet
  BY <1>7 DEF StopSet
<1>8. CASE StopNotify
  BY <1>8 DEF StopNotify, notify_one
<1>9. CASE Join
  BY <1>9 DEF Join
<1>10. CASE WorkerLock
  BY <1>10 DEF WorkerLock
<1>11. CASE WorkerCheck
  BY <1>11 DEF WorkerCheck
<1>12. CASE WorkerBlock
  BY <1>12 DEF WorkerBlock
<1>13. CASE WorkerSpuriousWake
  BY <1>13 DEF WorkerSpuriousWake
<1>14. CASE WorkerTake
  <2>1. CASE stop_ /\ task_queue_ = <<>>
    BY <1>14, <2>1 DEF WorkerTake
  <2>2. CASE ~(stop_ /\ task_queue_ = <<>>)
    <3>1. task_queue_ # <<>>
      BY <1>14, <2>2 DEF WorkerTake
    <3> DEFINE q == task_queue_
               r == task_queue_'
               t == task'
    <3>2. /\ Len(q) \in Nat \ {0}
          /\ t = q[1] /\ t \in Tasks
          /\ r \in Seq(Tasks)
          /\ Len(r) = Len(q) - 1
          /\ \A i \in 1..Len(r) : r[i] = q[i + 1]
      <4>1. q \in Seq(Tasks) /\ q # <<>> /\ t = Head(q) /\ r = Tail(q)
        BY <1>14, <2>2, <3>1 DEF WorkerTake
      <4> HIDE DEF q, r, t
      <4> QED
        BY ONLY <4>1, FrontOfQueue
    <3>3. TypeOK' /\ LockInv' /\ WaitInv' /\ MainInv'
      BY <1>14, <2>2, <3>1, <3>2 DEF WorkerTake, Tasks
    <3>4. /\ Taken = executed /\ Taken' = executed + 1 /\ executed \in Nat
          /\ submitted' = submitted /\ submitted \in Nat /\ wants' = wants
          /\ executed' = executed /\ wpc' = "work"
      BY <1>14, <2>2, <3>1 DEF WorkerTake
    <3>5. /\ Len(q) = submitted - executed
          /\ \A i \in 1..Len(q) : q[i].id = executed + i
          /\ \A i \in 1..Len(q) : q[i].on_complete <=> q[i].id \in wants
          /\ \A w \in wants : w <= submitted
      BY <3>4
    <3>6. /\ Len(r) = submitted - (executed + 1)
          /\ \A i \in 1..Len(r) : r[i].id = (executed + 1) + i
          /\ \A i \in 1..Len(r) : r[i].on_complete <=> r[i].id \in wants
          /\ t.id = executed + 1 /\ (t.on_complete <=> t.id \in wants)
      <4> HIDE DEF q, r, t
      <4>1. Len(r) = submitted - (executed + 1)
        BY ONLY <3>2, <3>4, <3>5
      <4>2. ASSUME NEW i \in 1..Len(r)
            PROVE  i + 1 \in 1..Len(q) /\ r[i] = q[i + 1]
        BY ONLY <3>2, <4>2
      <4>3. ASSUME NEW i \in 1..Len(r)
            PROVE  r[i].id = (executed + 1) + i
        BY ONLY <3>4, <3>5, <4>2, <4>3
      <4>4. ASSUME NEW i \in 1..Len(r)
            PROVE  r[i].on_complete <=> r[i].id \in wants
        BY ONLY <3>5, <4>2, <4>4
      <4>5. t.id = executed + 1 /\ (t.on_complete <=> t.id \in wants)
        BY ONLY <3>2, <3>4, <3>5
      <4> QED
        BY ONLY <4>1, <4>3, <4>4, <4>5
    <3>7. FifoQueue' /\ TaskInv'
      BY ONLY <3>4, <3>5, <3>6 DEF FifoQueue, TaskInv
    <3> QED
      BY <3>3, <3>7
  <2> QED
    BY <2>1, <2>2
<1>15. CASE WorkerWork
  <2>1. /\ task \in Tasks /\ executed' = executed + 1
        /\ task_queue_' = task_queue_ /\ Len(task_queue_) \in Nat
        /\ executed' <= submitted
    BY <1>15 DEF WorkerWork, Tasks
  <2>2. TypeOK' /\ LockInv' /\ WaitInv' /\ MainInv'
    BY <1>15, <2>1 DEF WorkerWork, Tasks
  <2>3. FifoQueue'
    BY <1>15, <2>1 DEF WorkerWork, Tasks
  <2>4. TaskInv'
    BY <1>15, <2>1 DEF WorkerWork, Tasks
  <2> QED
    BY <2>2, <2>3, <2>4
<1>16. CASE WorkerPublishLock
  BY <1>16 DEF WorkerPublishLock
<1>17. CASE WorkerPublish
  BY <1>17 DEF WorkerPublish
<1>18. CASE Terminated
  BY <1>18 DEF Terminated, vars
<1>19. ASSUME NEW callback \in BOOLEAN, PushEmplace(callback) PROVE ThreadInv'
  <2> DEFINE new == [id |-> submitted + 1, on_complete |-> callback]
  <2>1. new \in Tasks
    BY <1>19 DEF PushEmplace, Tasks
  <2> DEFINE q == task_queue_
             r == task_queue_'
  <2>2. /\ r \in Seq(Tasks)
        /\ Len(q) \in Nat
        /\ Len(r) = Len(q) + 1
        /\ r[Len(q) + 1] = new
        /\ \A i \in 1..Len(q) : r[i] = q[i]
    <3>1. q \in Seq(Tasks) /\ r = Append(q, new)
      BY <1>19 DEF PushEmplace
    <3> HIDE DEF q, r, new
    <3> QED
      BY ONLY <2>1, <3>1, BackOfQueue
  <2>3. TypeOK' /\ LockInv' /\ WaitInv' /\ MainInv'
    BY <1>19, <2>1, <2>2 DEF PushEmplace
  <2>4. /\ Taken' = Taken /\ Taken \in Nat /\ submitted \in Nat
        /\ submitted' = submitted + 1 /\ wpc' = wpc /\ task' = task
        /\ executed' = executed
        /\ wants' = IF callback THEN wants \cup {submitted + 1} ELSE wants
    BY <1>19 DEF PushEmplace
  <2>5. /\ Len(q) = submitted - Taken
        /\ \A i \in 1..Len(q) : q[i].id = Taken + i
        /\ \A i \in 1..Len(q) : q[i].on_complete <=> q[i].id \in wants
        /\ \A w \in wants : w \in Nat /\ w <= submitted
    <3>1. \A w \in wants : w \in Nat /\ w <= submitted
      <4>1. wants \subseteq 1..MaxTasks /\ \A w \in wants : w <= submitted
        BY DEF TypeOK, TaskInv
      <4> QED
        BY ONLY <4>1, MaxTasksAssumption
    <3>2. /\ Len(q) = submitted - Taken
          /\ \A i \in 1..Len(q) : q[i].id = Taken + i
      BY DEF FifoQueue
    <3>3. \A i \in 1..Len(q) : q[i].on_complete <=> q[i].id \in wants
      BY DEF TaskInv
    <3> QED
      BY <3>1, <3>2, <3>3
  <2>6. /\ Len(r) = submitted' - Taken
        /\ \A i \in 1..Len(r) : r[i].id = Taken + i
        /\ \A i \in 1..Len(r) : r[i].on_complete <=> r[i].id \in wants'
        /\ \A w \in wants' : w <= submitted'
    <3>1. new.id = submitted + 1 /\ new.on_complete = callback
      OBVIOUS
    <3>2. \A n \in Nat : n <= submitted => (n \in wants <=> n \in wants')
      BY <2>4
    <3>3. submitted + 1 \in wants' <=> callback
      BY <2>4, <2>5
    <3>4. \A w \in wants' : w <= submitted'
      BY <2>4, <2>5
    <3> HIDE DEF q, r, new
    <3>5. ASSUME NEW i \in 1..Len(r)
          PROVE  r[i].id = Taken + i /\ (r[i].on_complete <=> r[i].id \in wants')
      <4>1. CASE i \in 1..Len(q)
        <5>1. r[i] = q[i] /\ q[i].id = Taken + i
          BY ONLY <4>1, <2>2, <2>5
        <5>2. Taken + i \in Nat /\ Taken + i <= submitted
          BY ONLY <4>1, <2>2, <2>4, <2>5
        <5>3. q[i].on_complete <=> q[i].id \in wants
          BY ONLY <4>1, <2>5
        <5> QED
          BY ONLY <5>1, <5>2, <5>3, <3>2
      <4>2. CASE i = Len(q) + 1
        BY ONLY <4>2, <2>2, <2>4, <2>5, <3>1, <3>3
      <4> QED
        BY ONLY <3>5, <4>1, <4>2, <2>2
    <3> QED
      BY ONLY <3>4, <3>5, <2>2, <2>4, <2>5
  <2>7. FifoQueue' /\ TaskInv'
    BY <2>4, <2>6
  <2> QED
    BY <2>3, <2>7
<1>20. CASE UNCHANGED vars
  BY <1>20 DEF vars
<1> QED
  BY <1>1, <1>2, <1>3, <1>4, <1>5, <1>6, <1>7, <1>8, <1>9, <1>10, <1>11, <1>12, <1>13, <1>14, <1>15, <1>16, <1>17, <1>18, <1>19, <1>20 DEF Next, Main, Worker

-----------------------------------------------------------------------------
(* The callbacks.                                                          *)

\* The steps that touch no callback queue and publish nothing.
LEMMA CallbackFrame ==
    ASSUME CallbackInv,
           UNCHANGED <<delivered, local, completed_callbacks_, wants>>,
           Published' = Published
    PROVE  CallbackInv'
BY DEF CallbackInv, Increasing, Below, Due, Has

\* Every step keeps the three callback queues an ordered, gapless listing.
LEMMA CallbackStep == ThreadInv /\ CallbackInv /\ [Next]_vars => CallbackInv'
<1> SUFFICES ASSUME ThreadInv, CallbackInv, [Next]_vars PROVE CallbackInv'
  OBVIOUS
<1>t. /\ delivered \in Seq(1..MaxTasks) /\ local \in Seq(1..MaxTasks)
      /\ completed_callbacks_ \in Seq(1..MaxTasks)
      /\ wants \subseteq 1..MaxTasks /\ executed \in Nat /\ submitted \in Nat
      /\ task \in Tasks \cup {NoTask}
  BY DEF ThreadInv, TypeOK
<1> USE DEF shared, history, Lock, Unlock
<1>1. CASE PushLock
  BY <1>1, CallbackFrame DEF PushLock, Published
<1>2. CASE PushNotify
  BY <1>2, CallbackFrame DEF PushNotify, notify_one, Published
<1>3. CASE FlushLock
  BY <1>3, CallbackFrame DEF FlushLock, Published
<1>4. CASE FlushSwap
  <2>1. /\ Published' = Published /\ wants' = wants /\ delivered' = delivered
        /\ local' = completed_callbacks_ /\ completed_callbacks_' = <<>>
    BY <1>4 DEF FlushSwap, Published, ThreadInv, MainInv
  <2>2. Len(<<>>) = 0
    OBVIOUS
  <2>3. (Increasing(local) /\ Increasing(completed_callbacks_))'
    BY <2>1, <2>2 DEF CallbackInv, Increasing
  <2>4. (/\ Below(delivered, local) /\ Below(delivered, completed_callbacks_)
         /\ Below(local, completed_callbacks_))'
    BY <2>1, <2>2 DEF CallbackInv, Below
  <2>5. (Due(delivered) /\ Due(local) /\ Due(completed_callbacks_))'
    BY <2>1, <2>2 DEF CallbackInv, Due
  <2>6. ASSUME NEW w \in wants, w <= Published
        PROVE  (Has(delivered, w) \/ Has(local, w))'
    <3>1. local = <<>>
      BY <1>4 DEF FlushSwap, ThreadInv, MainInv
    <3> QED
      BY <2>1, <2>2, <2>6, <3>1 DEF CallbackInv, Has
  <2> QED
    BY <2>1, <2>3, <2>4, <2>5, <2>6 DEF CallbackInv, Has
<1>5. CASE RunCallback
  <2> DEFINE d == delivered  dd == delivered'  l == local  ll == local'
             c == completed_callbacks_  x == Head(local)
  <2>1. /\ Published' = Published /\ wants' = wants /\ c' = c
        /\ dd = Append(d, x) /\ ll = Tail(l) /\ l # <<>>
        /\ d \in Seq(1..MaxTasks) /\ l \in Seq(1..MaxTasks)
    BY <1>5, <1>t DEF RunCallback, Published
  <2>2. /\ Len(l) \in Nat \ {0} /\ x = l[1] /\ x \in 1..MaxTasks
        /\ Len(ll) = Len(l) - 1
        /\ \A i \in 1..Len(ll) : ll[i] = l[i + 1]
    <3>1. x = Head(l)
      OBVIOUS
    <3> HIDE DEF d, dd, l, ll, x
    <3> QED
      BY ONLY <2>1, <3>1, FrontOfQueue
  <2>3. /\ Len(d) \in Nat /\ Len(dd) = Len(d) + 1 /\ dd[Len(d) + 1] = x
        /\ \A i \in 1..Len(d) : dd[i] = d[i]
    <3> HIDE DEF d, dd, l, ll, x
    <3> QED
      BY ONLY <2>1, <2>2, BackOfQueue
  <2>4. /\ \A i \in 1..Len(ll) : i + 1 \in 1..Len(l) /\ ll[i] = l[i + 1]
        /\ 1 \in 1..Len(l)
        /\ \A i \in 1..Len(dd) : (i \in 1..Len(d) /\ dd[i] = d[i]) \/ dd[i] = x
    BY ONLY <2>2, <2>3
  <2>5. Increasing(ll)
    BY ONLY <2>2, <2>4, CallbackInv DEF CallbackInv, Increasing
  <2>6. Below(dd, ll)
    <3>1. ASSUME NEW j \in 1..Len(ll) PROVE x < ll[j]
      BY ONLY <3>1, <2>2, <2>4, CallbackInv DEF CallbackInv, Increasing
    <3> QED
      BY ONLY <3>1, <2>4, CallbackInv DEF CallbackInv, Below
  <2>7. Below(dd, c) /\ Below(ll, c)
    BY ONLY <2>2, <2>4, CallbackInv DEF CallbackInv, Below
  <2>8. Due(dd) /\ Due(ll)
    BY ONLY <2>2, <2>4, CallbackInv DEF CallbackInv, Due
  <2>9. ASSUME NEW w \in wants, w <= Published
        PROVE  Has(dd, w) \/ Has(ll, w) \/ Has(c, w)
    <3>1. CASE Has(d, w)
      <4>1. PICK i \in 1..Len(d) : d[i] = w
        BY <3>1 DEF Has
      <4>2. i \in 1..Len(dd) /\ dd[i] = w
        BY ONLY <4>1, <2>3
      <4> QED
        BY <4>2 DEF Has
    <3>2. CASE Has(l, w)
      <4>1. PICK i \in 1..Len(l) : l[i] = w
        BY <3>2 DEF Has
      <4>2. CASE i = 1
        <5>1. Len(d) + 1 \in 1..Len(dd) /\ dd[Len(d) + 1] = w
          BY ONLY <4>1, <4>2, <2>2, <2>3
        <5> QED
          BY <5>1 DEF Has
      <4>3. CASE i # 1
        <5>1. i - 1 \in 1..Len(ll) /\ ll[i - 1] = w
          BY ONLY <4>1, <4>3, <2>2
        <5> QED
          BY <5>1 DEF Has
      <4> QED
        BY <4>2, <4>3
    <3> QED
      BY <2>9, <3>1, <3>2 DEF CallbackInv
  <2>10. (Increasing(local) /\ Increasing(completed_callbacks_))'
    BY <2>1, <2>5 DEF CallbackInv, Increasing
  <2>11. (/\ Below(delivered, local) /\ Below(delivered, completed_callbacks_)
          /\ Below(local, completed_callbacks_))'
    BY <2>1, <2>6, <2>7 DEF CallbackInv, Below
  <2>12. (Due(delivered) /\ Due(local) /\ Due(completed_callbacks_))'
    BY <2>1, <2>8 DEF CallbackInv, Due
  <2>13. ASSUME NEW w \in wants', w <= Published'
         PROVE  (Has(delivered, w) \/ Has(local, w) \/ Has(completed_callbacks_, w))'
    BY <2>1, <2>9, <2>13 DEF Has
  <2> QED
    BY <2>10, <2>11, <2>12, <2>13 DEF CallbackInv, Has
<1>6. CASE StopLock
  BY <1>6, CallbackFrame DEF StopLock, Published
<1>7. CASE StopSet
  BY <1>7, CallbackFrame DEF StopSet, Published
<1>8. CASE StopNotify
  BY <1>8, CallbackFrame DEF StopNotify, notify_one, Published
<1>9. CASE Join
  BY <1>9, CallbackFrame DEF Join, Published
<1>10. CASE WorkerLock
  BY <1>10, CallbackFrame DEF WorkerLock, Published
<1>11. CASE WorkerCheck
  BY <1>11, CallbackFrame DEF WorkerCheck, Published
<1>12. CASE WorkerBlock
  BY <1>12, CallbackFrame DEF WorkerBlock, Published
<1>13. CASE WorkerSpuriousWake
  BY <1>13, CallbackFrame DEF WorkerSpuriousWake, Published
<1>14. CASE WorkerTake
  BY <1>14, CallbackFrame DEF WorkerTake, Published
<1>15. CASE WorkerWork
  <2>1. /\ executed' = executed + 1 /\ Published = executed /\ wants' = wants
        /\ UNCHANGED <<delivered, local, completed_callbacks_>>
        /\ task.on_complete <=> executed + 1 \in wants
        /\ wpc' = IF task.on_complete THEN "publish" ELSE "lock"
    BY <1>15 DEF WorkerWork, ThreadInv, TaskInv, Published
  <2>2. CASE task.on_complete
    BY <1>t, <2>1, <2>2, CallbackFrame DEF Published
  <2>3. CASE ~task.on_complete
    <3>1. Published' = executed + 1 /\ executed + 1 \notin wants
      BY <2>1, <2>3 DEF Published
    <3>2. \A w \in wants : w <= Published' <=> w <= Published
      BY <1>t, <2>1, <3>1
    <3> QED
      BY <2>1, <3>2 DEF CallbackInv, Increasing, Below, Due, Has
  <2> QED
    BY <2>2, <2>3
<1>16. CASE WorkerPublishLock
  BY <1>16, CallbackFrame DEF WorkerPublishLock, Published
<1>17. CASE WorkerPublish
  <2> DEFINE c == completed_callbacks_  cc == completed_callbacks_'
             x == task.id
  <2>1. /\ cc = Append(c, x) /\ x = executed /\ executed \in wants
        /\ c \in Seq(1..MaxTasks) /\ x \in 1..MaxTasks
        /\ Published = executed - 1 /\ Published' = executed /\ wants' = wants
        /\ local' = local /\ delivered' = delivered
    BY <1>17, <1>t DEF WorkerPublish, ThreadInv, TaskInv, Published
  <2>2. /\ Len(c) \in Nat /\ Len(cc) = Len(c) + 1 /\ cc[Len(c) + 1] = x
        /\ \A i \in 1..Len(c) : cc[i] = c[i]
    <3> HIDE DEF c, cc, x
    <3> QED
      BY ONLY <2>1, BackOfQueue
  <2>3. /\ \A i \in 1..Len(cc) :
              (i \in 1..Len(c) /\ cc[i] = c[i]) \/ (i = Len(c) + 1 /\ cc[i] = x)
        /\ Len(c) + 1 \in 1..Len(cc)
        /\ \A i \in 1..Len(c) : i \in 1..Len(cc)
    BY ONLY <2>2
  <2>4. \A w \in wants : w <= Published => w < x
    BY ONLY <1>t, <2>1
  <2>5. Increasing(cc)
    BY ONLY <2>2, <2>3, <2>4, CallbackInv DEF CallbackInv, Increasing, Due
  <2>6. Below(delivered, cc) /\ Below(local, cc)
    BY ONLY <2>3, <2>4, CallbackInv DEF CallbackInv, Below, Due
  <2>7. \A w \in wants : w <= Published => w <= Published'
    BY ONLY <1>t, <2>1
  <2> DEFINE due(q) == \A i \in 1..Len(q) : q[i] \in wants /\ q[i] <= Published'
  <2>8. due(delivered) /\ due(local) /\ due(cc)
    <3>1. due(delivered) /\ due(local) /\ due(c)
      BY <2>7 DEF CallbackInv, Due
    <3>2. x \in wants /\ x <= Published'
      BY ONLY <1>t, <2>1
    <3> QED
      BY <2>3, <3>1, <3>2
  <2>9. ASSUME NEW w \in wants, w <= Published'
        PROVE  Has(delivered, w) \/ Has(local, w) \/ Has(cc, w)
    <3>1. CASE w = x
      BY <3>1, <2>2, <2>3 DEF Has
    <3>2. CASE w # x
      <4>1. w <= Published
        BY ONLY <1>t, <2>1, <2>9, <3>2
      <4>2. Has(c, w) => Has(cc, w)
        BY ONLY <2>2, <2>3 DEF Has
      <4> QED
        BY <4>1, <4>2 DEF CallbackInv
    <3> QED
      BY <3>1, <3>2
  <2>10. (Increasing(local) /\ Increasing(completed_callbacks_))'
    BY <2>1, <2>5 DEF CallbackInv, Increasing
  <2>11. (/\ Below(delivered, local) /\ Below(delivered, completed_callbacks_)
          /\ Below(local, completed_callbacks_))'
    BY <2>1, <2>6 DEF CallbackInv, Below
  <2>12. (Due(delivered) /\ Due(local) /\ Due(completed_callbacks_))'
    BY <2>1, <2>8 DEF CallbackInv, Due
  <2>13. ASSUME NEW w \in wants', w <= Published'
         PROVE  (Has(delivered, w) \/ Has(local, w) \/ Has(completed_callbacks_, w))'
    BY <2>1, <2>9, <2>13 DEF Has
  <2> QED
    BY <2>10, <2>11, <2>12, <2>13 DEF CallbackInv, Has
<1>18. CASE Terminated
  BY <1>18, CallbackFrame DEF Terminated, vars, Published
<1>19. ASSUME NEW callback \in BOOLEAN, PushEmplace(callback) PROVE CallbackInv'
  <2>1. /\ UNCHANGED <<delivered, local, completed_callbacks_>>
        /\ Published' = Published /\ wants \subseteq wants'
        /\ \A w \in wants' : w \in wants \/ w = submitted + 1
    BY <1>19 DEF PushEmplace, Published
  <2>2. executed <= submitted
    <3>1. Len(task_queue_) \in Nat /\ Len(task_queue_) = submitted - Taken
      BY DEF ThreadInv, TypeOK, FifoQueue
    <3> QED
      BY ONLY <1>t, <3>1 DEF Taken
  <2>3. Published \in Int /\ Published <= submitted
    BY ONLY <1>t, <2>2 DEF Published
  <2>4. \A w \in wants' : w <= Published' => w \in wants /\ w <= Published
    BY ONLY <1>t, <2>1, <2>3
  <2> QED
    BY <2>1, <2>4 DEF CallbackInv, Increasing, Below, Due, Has
<1>20. CASE UNCHANGED vars
  BY <1>20, CallbackFrame DEF vars, Published
<1> QED
  BY <1>1, <1>2, <1>3, <1>4, <1>5, <1>6, <1>7, <1>8, <1>9, <1>10, <1>11, <1>12,
     <1>13, <1>14, <1>15, <1>16, <1>17, <1>18, <1>19, <1>20
  DEF Next, Main, Worker

-----------------------------------------------------------------------------
(* The theorems.                                                           *)

\* No callback queue holds anything at start.
LEMMA CallbackInit == Init => CallbackInv
BY DEF Init, CallbackInv, Increasing, Below, Due, Has

\* The inductive invariant holds of every behaviour, with or without fairness.
THEOREM Invariance == Safety => []IInv
<1>1. Init => IInv
  BY ThreadInit, CallbackInit DEF IInv
<1>2. IInv /\ [Next]_vars => IInv'
  BY ThreadStep, CallbackStep DEF IInv
<1> QED
  BY <1>1, <1>2, PTL DEF Safety

\* The queues only ever hold tasks and callbacks of pushed tasks.
THEOREM TypeCorrect == Safety => []TypeOK
<1>1. IInv => TypeOK
  BY DEF IInv, ThreadInv
<1> QED
  BY <1>1, Invariance, PTL

\* task_queue_ and completed_callbacks_ are never accessed by both threads.
THEOREM MutexProtects == Safety => []MutualExclusion
<1>1. IInv => MutualExclusion
  BY DEF IInv, ThreadInv, LockInv, MutualExclusion
<1> QED
  BY <1>1, Invariance, PTL

\* A blocked worker with work to do is always about to be notified.
THEOREM WakeupsKept == Safety => []NoLostWakeup
<1>1. IInv => NoLostWakeup
  BY DEF IInv, ThreadInv, WaitInv
<1> QED
  BY <1>1, Invariance, PTL

\* Tasks are taken from task_queue_ in push order, each of them once.
THEOREM QueueIsFifo == Safety => []FifoQueue
<1>1. IInv => FifoQueue
  BY DEF IInv, ThreadInv
<1> QED
  BY <1>1, Invariance, PTL

\* The worker is not freed before every pushed task has run.
THEOREM FreedAfterDrain == Safety => []DrainedBeforeFree
<1>1. IInv => DrainedBeforeFree
  <2> SUFFICES ASSUME IInv, mpc \in {"dtor", "freed"}
               PROVE  wpc = "exited" /\ task_queue_ = <<>> /\ executed = submitted
    BY DEF DrainedBeforeFree
  <2>1. wpc = "exited" /\ task_queue_ = <<>>
    BY DEF IInv, ThreadInv, MainInv
  <2>2. Len(task_queue_) = submitted - Taken /\ Taken = executed
        /\ executed \in Nat /\ submitted \in Nat
    BY <2>1 DEF IInv, ThreadInv, FifoQueue, Taken, TypeOK
  <2> QED
    BY <2>1, <2>2
<1> QED
  BY <1>1, Invariance, PTL

\* AsyncDbWorker implements TaskExecutor: each step submits, executes,
\* delivers or closes as the abstract executor allows, or is invisible to it.
THEOREM ImplementsExecutor == Safety => ExecutorSafety
<1>1. Init => Exec!Init
  BY DEF Init, Exec!Init
<1>2. IInv /\ [Next]_vars => [Exec!Next]_Exec!execVars
  <2> SUFFICES ASSUME IInv, [Next]_vars
               PROVE  Exec!Next \/ UNCHANGED Exec!execVars
    OBVIOUS
  <2> USE DEF shared, history, Exec!execVars
  <2>t. /\ executed \in Nat /\ submitted \in Nat
        /\ wants \subseteq 1..MaxTasks /\ local \in Seq(1..MaxTasks)
        /\ delivered \in Seq(1..MaxTasks)
    BY DEF IInv, ThreadInv, TypeOK
  <2>1. ASSUME NEW callback \in BOOLEAN, PushEmplace(callback)
        PROVE  Exec!Submit(callback)
    BY <2>1 DEF PushEmplace, Exec!Submit, IInv, ThreadInv, MainInv
  <2>2. CASE WorkerWork
    <3>1. executed' = executed + 1
      BY <2>2 DEF WorkerWork, IInv, ThreadInv, TaskInv
    <3>2. executed < submitted
      <4>1. /\ Len(task_queue_) \in Nat /\ Taken = executed + 1
            /\ Len(task_queue_) = submitted - Taken
        BY <2>2 DEF WorkerWork, IInv, ThreadInv, FifoQueue, TypeOK, Taken
      <4> QED
        BY <4>1, <2>t
    <3> QED
      BY <2>2, <3>1, <3>2 DEF WorkerWork, Exec!Execute, Exec!Next
  <2>3. CASE RunCallback
    <3> DEFINE x == Head(local)
    <3>1. local # <<>> /\ Len(local) \in Nat \ {0} /\ x = local[1]
      BY <2>3, <2>t, FrontOfQueue DEF RunCallback
    <3>2. x \in wants /\ x <= Published /\ x \in Nat
      BY <3>1, <2>t DEF IInv, CallbackInv, Due
    <3>3. x <= executed
      BY <3>2, <2>t DEF Published
    <3>4. \A i \in DOMAIN delivered : delivered[i] < x
      BY <3>1, <2>t DEF IInv, CallbackInv, Below
    <3>5. ASSUME NEW w \in wants, w < x
          PROVE  \E i \in DOMAIN delivered : delivered[i] = w
      <4>1. w <= Published /\ w \in Nat
        BY ONLY <3>2, <3>5, <2>t DEF Published
      <4>2. ~Has(local, w)
        <5> SUFFICES ASSUME NEW i \in 1..Len(local), local[i] = w PROVE FALSE
          BY DEF Has
        <5>1. i = 1 \/ local[1] < local[i]
          BY <3>1 DEF IInv, CallbackInv, Increasing
        <5> QED
          BY <5>1, <3>1, <3>2, <3>5, <4>1
      <4>3. ~Has(completed_callbacks_, w)
        <5> SUFFICES ASSUME NEW i \in 1..Len(completed_callbacks_),
                            completed_callbacks_[i] = w
                     PROVE FALSE
          BY DEF Has
        <5>1. local[1] < completed_callbacks_[i]
          BY <3>1 DEF IInv, CallbackInv, Below
        <5> QED
          BY <5>1, <3>1, <3>2, <3>5, <4>1
      <4>4. Has(delivered, w)
        BY <4>1, <4>2, <4>3 DEF IInv, CallbackInv
      <4> QED
        BY <4>4, <2>t DEF Has
    <3>6. Exec!Deliver(x)
      BY <2>3, <3>2, <3>3, <3>4, <3>5 DEF RunCallback, Exec!Deliver
    <3> QED
      BY <3>2, <3>6 DEF Exec!Next
  <2>4. CASE Join
    <3>1. CASE joinable
      BY <2>4, <3>1 DEF Join
    <3>2. CASE ~joinable
      <4>1. /\ wpc = "exited" /\ task_queue_ = <<>>
        BY <3>2 DEF IInv, ThreadInv, MainInv
      <4>2. Len(task_queue_) = submitted - executed
        BY <4>1 DEF IInv, ThreadInv, FifoQueue, Taken
      <4>3. executed = submitted
        BY <4>1, <4>2, <2>t
      <4> QED
        BY <2>4, <3>2, <4>3 DEF Join, Exec!Close, Exec!Next
    <3>3. joinable \/ ~joinable
      BY DEF IInv, ThreadInv, TypeOK
    <3> QED
      BY <3>1, <3>2, <3>3
  <2>5. CASE \/ PushLock \/ PushNotify \/ FlushLock \/ FlushSwap
             \/ StopLock \/ StopSet \/ StopNotify \/ WorkerLock \/ WorkerCheck
             \/ WorkerBlock \/ WorkerSpuriousWake \/ WorkerTake
             \/ WorkerPublishLock \/ WorkerPublish \/ Terminated \/ UNCHANGED vars
    BY <2>5 DEF PushLock, PushNotify, FlushLock, FlushSwap, StopLock, StopSet,
                StopNotify, WorkerLock, WorkerCheck, WorkerBlock, WorkerTake,
                WorkerSpuriousWake, WorkerPublishLock, WorkerPublish, Terminated, vars
  <2> QED
    BY <2>1, <2>2, <2>3, <2>4, <2>5 DEF Next, Main, Worker, Exec!Next
<1> QED
  BY <1>1, <1>2, Invariance, PTL DEF Safety, ExecutorSafety, Exec!Safety
=============================================================================
