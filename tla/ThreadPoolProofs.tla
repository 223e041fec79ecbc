-------------------------- MODULE ThreadPoolProofs --------------------------
(***************************************************************************)
(* The safety of ThreadPool for every number of threads and tasks.         *)
(***************************************************************************)
EXTENDS ThreadPool, FiniteSetTheorems, SequenceTheorems, TLAPS

\* Why DrainedWhenDestroyed holds: a thread leaves only a stopped, empty pool,
\* which accepts nothing any more; a submitter between its unlock and its
\* notify_one() is a task still running, or the owner of a pool that is alive;
\* and after notify_all() nobody waits again.
Shutdown ==
    /\ stop <=> dtor # "alive"
    /\ \A th \in Threads : pc[th] = "exited" => stop /\ queue = <<>>
    /\ dtor \in {"joining", "destroyed"} => Waiting = {}
    /\ dtor = "destroyed" => \A th \in Threads : pc[th] = "exited"
    /\ \A s \in notifying : IF s = Owner THEN dtor = "alive" ELSE s \in Running

IInv == TypeOK /\ OneHolder /\ Shutdown /\ NoLostWakeup

-----------------------------------------------------------------------------
(* Type correctness                                                        *)

LEMMA TypeInit == Init => TypeOK
  BY EmptySeq DEF Init, TypeOK

LEMMA TypeStep == TypeOK /\ [Next]_vars => TypeOK'
<1> SUFFICES ASSUME TypeOK, [Next]_vars PROVE TypeOK'
  OBVIOUS
<1> USE DEF TypeOK
<1>1. ASSUME NEW s \in Submitters, NEW t \in Tasks, Enqueue(s, t) PROVE TypeOK'
  BY <1>1, AppendProperties DEF Enqueue
<1>2. ASSUME NEW s \in Submitters, NEW t \in Tasks, Refuse(s, t) PROVE TypeOK'
  BY <1>2 DEF Refuse
<1>3. ASSUME NEW s \in Submitters, NotifyOne(s) PROVE TypeOK'
  BY <1>3 DEF NotifyOne, Waiting
<1>4. ASSUME NEW th \in Threads, WaitForWork(th) PROVE TypeOK'
  BY <1>4 DEF WaitForWork
<1>5. ASSUME NEW th \in Threads, Take(th) PROVE TypeOK'
  BY <1>5, HeadTailProperties DEF Take
<1>6. ASSUME NEW th \in Threads, Exit(th) PROVE TypeOK'
  BY <1>6 DEF Exit
<1>7. ASSUME NEW th \in Threads, SpuriousWakeup(th) PROVE TypeOK'
  BY <1>7 DEF SpuriousWakeup
<1>8. ASSUME NEW th \in Threads, Finish(th) PROVE TypeOK'
  BY <1>8 DEF Finish
<1>9. CASE BeginStop \/ NotifyAll \/ Join
  BY <1>9 DEF BeginStop, NotifyAll, Join
<1>10. CASE UNCHANGED vars
  BY <1>10 DEF vars
<1>11. QED
  BY <1>1, <1>2, <1>3, <1>4, <1>5, <1>6, <1>7, <1>8, <1>9, <1>10 DEF Next, WorkerLoop

\* Every variable keeps its type.
THEOREM TypeCorrect == Spec => []TypeOK
  BY TypeInit, TypeStep, PTL DEF Spec

-----------------------------------------------------------------------------
(* Every accepted task has exactly one holder                              *)

LEMMA OneHolderInit == Init => OneHolder
  BY DEF Init, OneHolder, InQueue, InHand, Running

LEMMA EnqueueOneHolder ==
  ASSUME TypeOK, OneHolder, NEW s \in Submitters, NEW t \in Tasks, Enqueue(s, t)
  PROVE  OneHolder'
<1> USE DEF Running
<1>1. /\ Len(queue') = Len(queue) + 1 /\ Len(queue) \in Nat
      /\ \A i \in 1..Len(queue) : queue'[i] = queue[i]
      /\ queue'[Len(queue) + 1] = t
  BY AppendProperties DEF TypeOK, Enqueue
<1>2. ~InQueue(t) /\ ~InHand(t)
  BY DEF OneHolder, Enqueue, TypeOK
<1>3. \A u : InQueue(u)' <=> InQueue(u) \/ u = t
  BY <1>1 DEF InQueue
<1>4. \A u : InHand(u)' <=> InHand(u)
  BY DEF InHand, Enqueue
<1>5. \A u \in Tasks : future'[u] = "pending" <=> InQueue(u)' \/ InHand(u)'
  BY <1>3, <1>4 DEF OneHolder, Enqueue, TypeOK
<1>6. \A i, j \in 1..Len(queue') : queue'[i] = queue'[j] => i = j
  BY <1>1, <1>2 DEF OneHolder, InQueue
<1>7. (\A th \in Running : ~InQueue(job[th]))'
  BY <1>2, <1>3 DEF OneHolder, InHand, Enqueue
<1>8. QED
  BY <1>5, <1>6, <1>7 DEF OneHolder, Enqueue

LEMMA TakeOneHolder ==
  ASSUME TypeOK, OneHolder, NEW th \in Threads, Take(th)
  PROVE  OneHolder'
<1> DEFINE t == queue[1]
<1>1. /\ Len(queue') = Len(queue) - 1 /\ Len(queue) \in Nat \ {0}
      /\ \A i \in 1..Len(queue') : queue'[i] = queue[i + 1]
      /\ Head(queue) = t
  BY HeadTailProperties DEF TypeOK, Take
<1>2. Running' = Running \cup {th} /\ th \notin Running
  BY DEF Running, Take, TypeOK
<1>3. job' = [job EXCEPT ![th] = t] /\ job \in [Threads -> Tasks \cup {NoTask}]
  BY <1>1 DEF Take, TypeOK
<1>4. InQueue(t) /\ ~InHand(t)
  BY <1>1 DEF OneHolder, InQueue, InHand
<1>5. \A u : InQueue(u)' <=> InQueue(u) /\ u # t
  <2>1. ASSUME NEW u, InQueue(u)' PROVE InQueue(u) /\ u # t
    <3>1. PICK i \in 1..Len(queue') : queue'[i] = u
      BY <2>1 DEF InQueue
    <3>2. i + 1 \in 1..Len(queue) /\ queue[i + 1] = u /\ i + 1 # 1
      BY <1>1, <3>1
    <3>3. QED
      BY <1>1, <3>2 DEF InQueue, OneHolder
  <2>2. ASSUME NEW u, InQueue(u), u # t PROVE InQueue(u)'
    <3>1. PICK i \in 1..Len(queue) : queue[i] = u
      BY <2>2 DEF InQueue
    <3>2. i - 1 \in 1..Len(queue') /\ queue'[i - 1] = u
      BY <1>1, <2>2, <3>1
    <3>3. QED
      BY <3>2 DEF InQueue
  <2>3. QED
    BY <2>1, <2>2
<1>6. \A u : InHand(u)' <=> InHand(u) \/ u = t
  BY <1>2, <1>3 DEF InHand, Running
<1>7. \A u \in Tasks : future'[u] = "pending" <=> InQueue(u)' \/ InHand(u)'
  BY <1>4, <1>5, <1>6 DEF OneHolder, Take
<1>8. \A i, j \in 1..Len(queue') : queue'[i] = queue'[j] => i = j
  BY <1>1 DEF OneHolder
<1>9. \A a, b \in Running' : job'[a] = job'[b] => a = b
  BY <1>2, <1>3, <1>4 DEF OneHolder, InHand, Running
<1>10. (\A a \in Running : ~InQueue(job[a]))'
  BY <1>2, <1>3, <1>5 DEF OneHolder, Running
<1>11. QED
  BY <1>7, <1>8, <1>9, <1>10 DEF OneHolder

LEMMA FinishOneHolder ==
  ASSUME TypeOK, OneHolder, NEW th \in Threads, Finish(th)
  PROVE  OneHolder'
<1>1. /\ Running' = Running \ {th} /\ th \in Running /\ queue' = queue
      /\ \A a \in Running' : job'[a] = job[a]
  BY DEF Running, Finish, TypeOK
<1>2. \A u : InQueue(u)' <=> InQueue(u)
  BY <1>1 DEF InQueue
<1>3. \A u : InHand(u)' <=> InHand(u) /\ u # job[th]
  BY <1>1 DEF InHand, OneHolder
<1>4. \A u \in Tasks : future'[u] = "pending" <=> InQueue(u)' \/ InHand(u)'
  BY <1>1, <1>2, <1>3 DEF OneHolder, Finish, TypeOK
<1>5. QED
  BY <1>1, <1>2, <1>4 DEF OneHolder

LEMMA OneHolderNext == TypeOK /\ OneHolder /\ [Next]_vars => OneHolder'
<1> SUFFICES ASSUME TypeOK, OneHolder, [Next]_vars PROVE OneHolder'
  OBVIOUS
<1>1. ASSUME NEW s \in Submitters, NEW t \in Tasks, Refuse(s, t) PROVE OneHolder'
  BY <1>1 DEF Refuse, OneHolder, InQueue, InHand, Running, TypeOK
<1>2. ASSUME UNCHANGED <<queue, job, future>>, Running' = Running PROVE OneHolder'
  BY <1>2 DEF OneHolder, InQueue, InHand
<1>3. ASSUME NEW s \in Submitters, NotifyOne(s) PROVE OneHolder'
  <2>1. Running' = Running
    BY <1>3 DEF NotifyOne, Waiting, Running, TypeOK
  <2>2. QED
    BY <1>2, <1>3, <2>1 DEF NotifyOne
<1>4. ASSUME NEW th \in Threads, WaitForWork(th) \/ Exit(th) \/ SpuriousWakeup(th)
      PROVE  OneHolder'
  <2>1. Running' = Running
    BY <1>4 DEF WaitForWork, Exit, SpuriousWakeup, Running, TypeOK
  <2>2. QED
    BY <1>2, <1>4, <2>1 DEF WaitForWork, Exit, SpuriousWakeup
<1>5. CASE BeginStop \/ NotifyAll \/ Join \/ UNCHANGED vars
  <2>1. Running' = Running
    BY <1>5 DEF BeginStop, NotifyAll, Join, vars, Running, TypeOK
  <2>2. QED
    BY <1>2, <1>5, <2>1 DEF BeginStop, NotifyAll, Join, vars
<1>6. QED
  BY <1>1, <1>3, <1>4, <1>5, EnqueueOneHolder, TakeOneHolder, FinishOneHolder
  DEF Next, WorkerLoop

-----------------------------------------------------------------------------
(* Shutdown                                                                *)

LEMMA ShutdownInit == Init => Shutdown
  BY DEF Init, Shutdown, Waiting

LEMMA ShutdownNext == TypeOK /\ Shutdown /\ [Next]_vars => Shutdown'
<1> SUFFICES ASSUME TypeOK, Shutdown, [Next]_vars PROVE Shutdown'
  OBVIOUS
<1> USE OwnerAssumption DEF Shutdown, Running, Waiting, TypeOK
<1>1. ASSUME NEW s \in Submitters, NEW t \in Tasks, Enqueue(s, t) PROVE Shutdown'
  BY <1>1 DEF Enqueue, MaySubmit
<1>2. ASSUME NEW s \in Submitters, NEW t \in Tasks, Refuse(s, t) PROVE Shutdown'
  BY <1>2 DEF Refuse
<1>3. ASSUME NEW s \in Submitters, NotifyOne(s) PROVE Shutdown'
  BY <1>3 DEF NotifyOne, Submitters
<1>4. ASSUME NEW th \in Threads, WaitForWork(th) PROVE Shutdown'
  BY <1>4 DEF WaitForWork
<1>5. ASSUME NEW th \in Threads, Take(th) PROVE Shutdown'
  BY <1>5 DEF Take
<1>6. ASSUME NEW th \in Threads, Exit(th) PROVE Shutdown'
  BY <1>6 DEF Exit
<1>7. ASSUME NEW th \in Threads, SpuriousWakeup(th) PROVE Shutdown'
  BY <1>7 DEF SpuriousWakeup
<1>8. ASSUME NEW th \in Threads, Finish(th) PROVE Shutdown'
  BY <1>8 DEF Finish
<1>9. CASE BeginStop
  BY <1>9 DEF BeginStop
<1>10. CASE NotifyAll
  BY <1>10 DEF NotifyAll
<1>11. CASE Join
  BY <1>11 DEF Join
<1>12. CASE UNCHANGED vars
  BY <1>12 DEF vars
<1>13. QED
  BY <1>1, <1>2, <1>3, <1>4, <1>5, <1>6, <1>7, <1>8, <1>9, <1>10, <1>11, <1>12
  DEF Next, WorkerLoop

-----------------------------------------------------------------------------
(* No wakeup is lost                                                       *)

\* The counts that NoLostWakeup compares are numbers.
Counts ==
    /\ IsFiniteSet(notifying) /\ Cardinality(notifying) \in Nat
    /\ IsFiniteSet(Locking) /\ Cardinality(Locking) \in Nat
    /\ Len(queue) \in Nat

LEMMA CountsAreNat == TypeOK => Counts
<1> SUFFICES ASSUME TypeOK PROVE Counts
  OBVIOUS
<1>1. IsFiniteSet(Submitters)
  BY ThreadsAssumption, FS_AddElement DEF Submitters
<1>2. IsFiniteSet(notifying) /\ IsFiniteSet(Locking)
  BY <1>1, ThreadsAssumption, FS_Subset DEF TypeOK, Locking
<1>3. QED
  BY <1>2, FS_CardinalityType, LenProperties DEF TypeOK, Counts

LEMMA NoLostWakeupInit == Init => NoLostWakeup
  BY DEF Init, NoLostWakeup, Waiting

LEMMA NoLostWakeupNext == TypeOK /\ NoLostWakeup /\ [Next]_vars => NoLostWakeup'
<1> SUFFICES ASSUME TypeOK, NoLostWakeup, [Next]_vars PROVE NoLostWakeup'
  OBVIOUS
<1> Counts /\ Counts'
  BY CountsAreNat, TypeStep, PTL
<1> USE DEF Counts
<1>1. ASSUME NEW s \in Submitters, NEW t \in Tasks, Enqueue(s, t) PROVE NoLostWakeup'
  <2>1. Len(queue)' = Len(queue) + 1 /\ Waiting' = Waiting /\ Locking' = Locking
    BY <1>1, AppendProperties DEF Enqueue, TypeOK, Waiting, Locking
  <2>2. Cardinality(notifying)' = Cardinality(notifying) + 1
    BY <1>1, FS_AddElement DEF Enqueue, MaySubmit
  <2>3. QED
    BY <2>1, <2>2 DEF NoLostWakeup
<1>2. ASSUME NEW s \in Submitters, NotifyOne(s) PROVE NoLostWakeup'
  <2>1. CASE Waiting = {} /\ pc' = pc
    BY <2>1 DEF NoLostWakeup, Waiting
  <2>2. CASE \E th \in Waiting : pc' = [pc EXCEPT ![th] = "locking"]
    <3>1. PICK th \in Waiting : pc' = [pc EXCEPT ![th] = "locking"]
      BY <2>2
    <3>2. Locking' = Locking \cup {th} /\ th \notin Locking
      BY <3>1 DEF Locking, Waiting, TypeOK
    <3>3. Cardinality(Locking)' = Cardinality(Locking) + 1
      BY <3>2, FS_AddElement
    <3>4. Cardinality(notifying)' = Cardinality(notifying) - 1
      BY <1>2, FS_RemoveElement DEF NotifyOne
    <3>5. QED
      BY <1>2, <3>1, <3>3, <3>4 DEF NoLostWakeup, NotifyOne
  <2>3. QED
    BY <1>2, <2>1, <2>2 DEF NotifyOne
<1>3. ASSUME NEW th \in Threads, WaitForWork(th) \/ Exit(th) PROVE NoLostWakeup'
  <2>1. queue' = <<>>
    BY <1>3 DEF WaitForWork, Exit
  <2>2. QED
    BY <2>1, EmptySeq DEF NoLostWakeup
<1>4. ASSUME NEW th \in Threads, Take(th) PROVE NoLostWakeup'
  <2>1. Len(queue)' = Len(queue) - 1 /\ notifying' = notifying
    BY <1>4, HeadTailProperties DEF Take, TypeOK
  <2>2. Waiting' = Waiting /\ Locking' = Locking \ {th} /\ th \in Locking
    BY <1>4 DEF Take, Waiting, Locking, TypeOK
  <2>3. Cardinality(Locking)' = Cardinality(Locking) - 1
    BY <2>2, FS_RemoveElement
  <2>4. QED
    BY <2>1, <2>2, <2>3 DEF NoLostWakeup
<1>5. ASSUME NEW th \in Threads, SpuriousWakeup(th) \/ Finish(th) PROVE NoLostWakeup'
  <2>1. queue' = queue /\ notifying' = notifying
    BY <1>5 DEF SpuriousWakeup, Finish
  <2>2. Waiting' \subseteq Waiting /\ Locking' = Locking \cup {th} /\ th \notin Locking
    BY <1>5 DEF SpuriousWakeup, Finish, Waiting, Locking, TypeOK
  <2>3. Cardinality(Locking)' = Cardinality(Locking) + 1
    BY <2>2, FS_AddElement
  <2>4. QED
    BY <2>1, <2>2, <2>3 DEF NoLostWakeup
<1>6. CASE NotifyAll
  BY <1>6 DEF NotifyAll, NoLostWakeup, Waiting, TypeOK
<1>7. ASSUME UNCHANGED <<queue, pc, notifying>> PROVE NoLostWakeup'
  BY <1>7 DEF NoLostWakeup, Waiting, Locking
<1>8. ASSUME NEW s \in Submitters, NEW t \in Tasks, Refuse(s, t) PROVE NoLostWakeup'
  BY <1>7, <1>8 DEF Refuse
<1>9. CASE BeginStop \/ Join \/ UNCHANGED vars
  BY <1>7, <1>9 DEF BeginStop, Join, vars
<1>10. QED
  BY <1>1, <1>2, <1>3, <1>4, <1>5, <1>6, <1>8, <1>9 DEF Next, WorkerLoop

-----------------------------------------------------------------------------
(* The theorems                                                            *)

LEMMA InductiveInvariant == Spec => []IInv
<1>1. Init => IInv
  BY TypeInit, OneHolderInit, ShutdownInit, NoLostWakeupInit DEF IInv
<1>2. IInv /\ [Next]_vars => IInv'
  BY TypeStep, OneHolderNext, ShutdownNext, NoLostWakeupNext DEF IInv
<1>3. QED
  BY <1>1, <1>2, PTL DEF Spec

\* No accepted task is lost and none is executed twice.
THEOREM TaskHasOneHolder == Spec => []OneHolder
<1>1. IInv => OneHolder
  BY DEF IInv
<1>2. QED
  BY <1>1, InductiveInvariant, PTL

\* No notify_one() is lost, however many threads and submitters there are.
THEOREM WakeupsSuffice == Spec => []NoLostWakeup
<1>1. IInv => NoLostWakeup
  BY DEF IInv
<1>2. QED
  BY <1>1, InductiveInvariant, PTL

\* When ~ThreadPool returns, every future it handed out is ready.
THEOREM DestroyedPoolIsDrained == Spec => []DrainedWhenDestroyed
<1>1. IInv => DrainedWhenDestroyed
  <2> SUFFICES ASSUME IInv, dtor = "destroyed"
               PROVE  (\A t \in Tasks : future[t] # "pending") /\ notifying = {}
    BY DEF DrainedWhenDestroyed
  <2>1. \A th \in Threads : pc[th] = "exited" /\ queue = <<>>
    BY ThreadsAssumption DEF IInv, Shutdown
  <2>2. \A t \in Tasks : ~InQueue(t) /\ ~InHand(t)
    BY <2>1, ThreadsAssumption, EmptySeq DEF InQueue, InHand, Running
  <2>3. \A t \in Tasks : future[t] # "pending"
    BY <2>2 DEF IInv, OneHolder
  <2>4. notifying = {}
    BY <2>1 DEF IInv, Shutdown, Running
  <2>5. QED
    BY <2>3, <2>4
<1>2. QED
  BY <1>1, InductiveInvariant, PTL

-----------------------------------------------------------------------------
(* The pool implements WorkQueue                                           *)

\* A thread has a task in its local variable exactly while it runs it, and
\* only tasks run.
JobWhileRunning == \A th \in Threads : job[th] # NoTask <=> pc[th] = "running"

LEMMA JobInit == Init => JobWhileRunning
  BY DEF Init, JobWhileRunning

LEMMA JobNext == TypeOK /\ JobWhileRunning /\ [Next]_vars => JobWhileRunning'
<1> SUFFICES ASSUME TypeOK, JobWhileRunning, [Next]_vars PROVE JobWhileRunning'
  OBVIOUS
<1> USE DEF JobWhileRunning, TypeOK
<1>1. ASSUME NEW th \in Threads, Take(th) PROVE JobWhileRunning'
  BY <1>1, HeadTailProperties, NoTaskAssumption DEF Take
<1>2. ASSUME NEW th \in Threads, Finish(th) PROVE JobWhileRunning'
  BY <1>2 DEF Finish
<1>3. ASSUME NEW s \in Submitters, NotifyOne(s) PROVE JobWhileRunning'
  BY <1>3 DEF NotifyOne, Waiting
<1>4. ASSUME NEW th \in Threads, WaitForWork(th) \/ Exit(th) \/ SpuriousWakeup(th)
      PROVE  JobWhileRunning'
  BY <1>4 DEF WaitForWork, Exit, SpuriousWakeup
<1>5. CASE NotifyAll
  BY <1>5 DEF NotifyAll
<1>6. ASSUME UNCHANGED <<pc, job>> PROVE JobWhileRunning'
  BY <1>6
<1>7. ASSUME NEW s \in Submitters, NEW t \in Tasks, Enqueue(s, t) \/ Refuse(s, t)
      PROVE  JobWhileRunning'
  BY <1>6, <1>7 DEF Enqueue, Refuse
<1>8. CASE BeginStop \/ Join \/ UNCHANGED vars
  BY <1>6, <1>8 DEF BeginStop, Join, vars
<1>9. QED
  BY <1>1, <1>2, <1>3, <1>4, <1>5, <1>7, <1>8 DEF Next, WorkerLoop

LEMMA InitIsAbstract == Init => Abstract!Init
  BY DEF Init, Abstract!Init

\* A step of the pool is a step of the queue, or one that its users cannot see.
LEMMA StepIsAbstract ==
  ASSUME IInv, JobWhileRunning, [Next]_vars
  PROVE  [Abstract!Next]_(Abstract!queueVars)
<1> USE DEF Abstract!queueVars
<1>1. ASSUME NEW s \in Submitters, NEW t \in Tasks, Enqueue(s, t) PROVE Abstract!Next
  <2>1. Abstract!Submit(s, t)
    BY <1>1, OwnerAssumption
    DEF Enqueue, MaySubmit, Abstract!Submit, Abstract!MaySubmit, Running, JobWhileRunning
  <2>2. QED
    BY <2>1 DEF Abstract!Next, Submitters
<1>2. ASSUME NEW s \in Submitters, NEW t \in Tasks, Refuse(s, t) PROVE Abstract!Next
  <2>1. Abstract!MaySubmit(s)
    BY <1>2 DEF Refuse, MaySubmit, Abstract!MaySubmit, Running, JobWhileRunning,
                IInv, Shutdown
  <2>2. Abstract!Refuse(s, t)
    BY <1>2, <2>1 DEF Refuse, Abstract!Refuse
  <2>3. QED
    BY <2>2 DEF Abstract!Next, Submitters
<1>3. ASSUME NEW th \in Threads, Take(th) PROVE Abstract!Next
  <2>1. Abstract!Take(th)
    BY <1>3 DEF Take, Abstract!Take, JobWhileRunning
  <2>2. QED
    BY <2>1 DEF Abstract!Next
<1>4. ASSUME NEW th \in Threads, Finish(th) PROVE Abstract!Next
  <2>1. Abstract!Finish(th)
    BY <1>4 DEF Finish, Abstract!Finish, JobWhileRunning
  <2>2. QED
    BY <2>1 DEF Abstract!Next
<1>5. CASE BeginStop
  <2>1. Abstract!Close
    BY <1>5 DEF BeginStop, Abstract!Close, IInv, Shutdown
  <2>2. QED
    BY <2>1 DEF Abstract!Next
<1>6. CASE Join
  <2>1. queue = <<>> /\ \A th \in Threads : job[th] = NoTask
    BY <1>6, ThreadsAssumption DEF Join, JobWhileRunning, IInv, Shutdown
  <2>2. Abstract!Destroy
    BY <1>6, <2>1 DEF Join, Abstract!Destroy, IInv, Shutdown
  <2>3. QED
    BY <2>2 DEF Abstract!Next
<1>7. CASE NotifyAll
  BY <1>7 DEF NotifyAll
<1>8. ASSUME NEW s \in Submitters, NotifyOne(s) PROVE UNCHANGED Abstract!queueVars
  BY <1>8 DEF NotifyOne
<1>9. ASSUME NEW th \in Threads, WaitForWork(th) \/ Exit(th) \/ SpuriousWakeup(th)
      PROVE  UNCHANGED Abstract!queueVars
  BY <1>9 DEF WaitForWork, Exit, SpuriousWakeup
<1>10. CASE UNCHANGED vars
  BY <1>10 DEF vars
<1>11. QED
  BY <1>1, <1>2, <1>3, <1>4, <1>5, <1>6, <1>7, <1>8, <1>9, <1>10 DEF Next, WorkerLoop

\* ThreadPool implements the safety part of WorkQueue.
THEOREM PoolIsWorkQueue == Spec => Abstract!Spec
<1>1. Init => JobWhileRunning /\ Abstract!Init
  BY JobInit, InitIsAbstract
<1>2. IInv /\ JobWhileRunning /\ [Next]_vars => JobWhileRunning'
  BY JobNext DEF IInv
<1>3. IInv /\ JobWhileRunning /\ [Next]_vars => [Abstract!Next]_(Abstract!queueVars)
  BY StepIsAbstract
<1>4. QED
  BY <1>1, <1>2, <1>3, InductiveInvariant, PTL DEF Spec, Abstract!Spec
=============================================================================
