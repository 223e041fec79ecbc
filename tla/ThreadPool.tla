------------------------------ MODULE ThreadPool ------------------------------
(***************************************************************************)
(* include/utils/thread_pool.hpp: a fixed set of std::threads serving one  *)
(* FIFO queue under one mutex and one condition variable.                  *)
(*                                                                         *)
(* Every critical section of the code is one step.  What happens outside   *)
(* the mutex is a step of its own: submit() enqueues under the lock and    *)
(* calls notify_one() after releasing it, and the destructor sets stop_    *)
(* under the lock, calls notify_all() after it, and then joins.  A thread  *)
(* that finds nothing to do gives up the mutex and joins the wait set of   *)
(* the condition variable in one step, and may leave it spuriously.        *)
(*                                                                         *)
(* submit() is called by the thread that owns the pool and by the tasks    *)
(* that run on it.                                                         *)
(***************************************************************************)
EXTENDS Naturals, Sequences, FiniteSets

CONSTANTS
    Threads,    \* workers_: the pool's threads
    Tasks,      \* the callables that may be submitted, each of them once
    Owner,      \* the thread that constructs the pool, submits and destroys it
    NoTask      \* what a thread executes between two tasks

ASSUME ThreadsAssumption == IsFiniteSet(Threads) /\ Threads # {}
ASSUME OwnerAssumption == Owner \notin Threads
ASSUME NoTaskAssumption == NoTask \notin Tasks

VARIABLES
    queue,      \* queue_: submitted tasks no thread has taken
    pc,         \* where each pool thread is in worker_loop
    job,        \* the task in the local variable of each thread
    notifying,  \* the submitters between the unlock and notify_one()
    future,     \* the state of each task's std::future
    stop,       \* stop_
    dtor        \* progress of ~ThreadPool

vars == <<queue, pc, job, notifying, future, stop, dtor>>

Submitters == Threads \cup {Owner}

Locking == {th \in Threads : pc[th] = "locking"}
Waiting == {th \in Threads : pc[th] = "waiting"}
Running == {th \in Threads : pc[th] = "running"}

Init ==
    /\ queue = <<>>
    /\ pc = [th \in Threads |-> "locking"]
    /\ job = [th \in Threads |-> NoTask]
    /\ notifying = {}
    /\ future = [t \in Tasks |-> "none"]
    /\ stop = FALSE
    /\ dtor = "alive"

-----------------------------------------------------------------------------
(* submit()                                                                *)

\* Who may be inside submit(): the owner while the pool is alive, and a thread
\* through the task it runs.
MaySubmit(s) ==
    /\ s \notin notifying
    /\ IF s = Owner THEN dtor = "alive" ELSE s \in Running

\* Fault: the submitter signals only when it finds the queue empty.
EnqueueSignalsFirstOnly(s, t) ==
    /\ MaySubmit(s)
    /\ future[t] = "none"
    /\ ~stop
    /\ queue' = Append(queue, t)
    /\ future' = [future EXCEPT ![t] = "pending"]
    /\ notifying' = IF queue = <<>> THEN notifying \cup {s} ELSE notifying
    /\ UNCHANGED <<pc, job, stop, dtor>>

\* The critical section of submit().
Enqueue(s, t) ==
    /\ MaySubmit(s)
    /\ future[t] = "none"
    /\ ~stop
    /\ queue' = Append(queue, t)
    /\ future' = [future EXCEPT ![t] = "pending"]
    /\ notifying' = notifying \cup {s}
    /\ UNCHANGED <<pc, job, stop, dtor>>

\* Fault: a stopped pool destroys the packaged_task and hands out its future.
RefuseBreaksPromise(s, t) ==
    /\ MaySubmit(s)
    /\ future[t] = "none"
    /\ stop
    /\ future' = [future EXCEPT ![t] = "broken"]
    /\ UNCHANGED <<queue, pc, job, notifying, stop, dtor>>

\* submit() on a stopped pool throws: the caller gets no future.
Refuse(s, t) ==
    /\ MaySubmit(s)
    /\ future[t] = "none"
    /\ stop
    /\ future' = [future EXCEPT ![t] = "refused"]
    /\ UNCHANGED <<queue, pc, job, notifying, stop, dtor>>

\* Fault: the signal wakes nobody.
NotifyNobody(s) ==
    /\ s \in notifying
    /\ notifying' = notifying \ {s}
    /\ UNCHANGED <<queue, pc, job, future, stop, dtor>>

\* notify_one() wakes one waiting thread, and nobody when none waits.
NotifyOne(s) ==
    /\ s \in notifying
    /\ notifying' = notifying \ {s}
    /\ \/ Waiting = {} /\ pc' = pc
       \/ \E th \in Waiting : pc' = [pc EXCEPT ![th] = "locking"]
    /\ UNCHANGED <<queue, job, future, stop, dtor>>

-----------------------------------------------------------------------------
(* worker_loop()                                                           *)

\* The critical section when the wait's predicate does not hold.
WaitForWork(th) ==
    /\ pc[th] = "locking"
    /\ ~stop /\ queue = <<>>
    /\ pc' = [pc EXCEPT ![th] = "waiting"]
    /\ UNCHANGED <<queue, job, notifying, future, stop, dtor>>

\* Fault: the task is copied out of the queue and not popped.
TakeWithoutPop(th) ==
    /\ pc[th] = "locking"
    /\ queue # <<>>
    /\ job' = [job EXCEPT ![th] = Head(queue)]
    /\ pc' = [pc EXCEPT ![th] = "running"]
    /\ UNCHANGED <<queue, notifying, future, stop, dtor>>

\* ... when there is a task.  A stopped pool still hands out its tasks.
Take(th) ==
    /\ pc[th] = "locking"
    /\ queue # <<>>
    /\ job' = [job EXCEPT ![th] = Head(queue)]
    /\ queue' = Tail(queue)
    /\ pc' = [pc EXCEPT ![th] = "running"]
    /\ UNCHANGED <<notifying, future, stop, dtor>>

\* Fault: a thread leaves as soon as it sees stop_.
ExitAtOnce(th) ==
    /\ pc[th] = "locking"
    /\ stop
    /\ pc' = [pc EXCEPT ![th] = "exited"]
    /\ UNCHANGED <<queue, job, notifying, future, stop, dtor>>

\* ... when the pool is stopped and empty.
Exit(th) ==
    /\ pc[th] = "locking"
    /\ stop /\ queue = <<>>
    /\ pc' = [pc EXCEPT ![th] = "exited"]
    /\ UNCHANGED <<queue, job, notifying, future, stop, dtor>>

SpuriousWakeup(th) ==
    /\ pc[th] = "waiting"
    /\ pc' = [pc EXCEPT ![th] = "locking"]
    /\ UNCHANGED <<queue, job, notifying, future, stop, dtor>>

\* task() returns: its future is ready, with a value or with an exception, and
\* the local variable that held it goes out of scope.
Finish(th) ==
    /\ pc[th] = "running"
    /\ th \notin notifying
    /\ future' = [future EXCEPT ![job[th]] = "ready"]
    /\ pc' = [pc EXCEPT ![th] = "locking"]
    /\ job' = [job EXCEPT ![th] = NoTask]
    /\ UNCHANGED <<queue, notifying, stop, dtor>>

-----------------------------------------------------------------------------
(* ~ThreadPool()                                                           *)

BeginStop ==
    /\ dtor = "alive"
    /\ Owner \notin notifying
    /\ stop' = TRUE
    /\ dtor' = "stopping"
    /\ UNCHANGED <<queue, pc, job, notifying, future>>

\* Fault: the destructor calls notify_one().
NotifyOnlyOne ==
    /\ dtor = "stopping"
    /\ \/ Waiting = {} /\ pc' = pc
       \/ \E th \in Waiting : pc' = [pc EXCEPT ![th] = "locking"]
    /\ dtor' = "joining"
    /\ UNCHANGED <<queue, job, notifying, future, stop>>

NotifyAll ==
    /\ dtor = "stopping"
    /\ pc' = [th \in Threads |-> IF pc[th] = "waiting" THEN "locking" ELSE pc[th]]
    /\ dtor' = "joining"
    /\ UNCHANGED <<queue, job, notifying, future, stop>>

Join ==
    /\ dtor = "joining"
    /\ \A th \in Threads : pc[th] = "exited"
    /\ dtor' = "destroyed"
    /\ UNCHANGED <<queue, pc, job, notifying, future, stop>>

-----------------------------------------------------------------------------
WorkerLoop(th) == WaitForWork(th) \/ Take(th) \/ Exit(th)

Next ==
    \/ \E s \in Submitters, t \in Tasks : Enqueue(s, t) \/ Refuse(s, t)
    \/ \E s \in Submitters : NotifyOne(s)
    \/ \E th \in Threads : WorkerLoop(th) \/ SpuriousWakeup(th) \/ Finish(th)
    \/ BeginStop \/ NotifyAll \/ Join

Spec == Init /\ [][Next]_vars

\* The scheduler runs every thread that can run, and the tasks return.  Nobody
\* has to submit or to destroy, and nobody wakes spuriously for free.
Fairness ==
    /\ \A s \in Submitters : WF_vars(NotifyOne(s))
    /\ \A th \in Threads : WF_vars(WorkerLoop(th)) /\ WF_vars(Finish(th))
    /\ WF_vars(NotifyAll) /\ WF_vars(Join)

FairSpec == Spec /\ Fairness

-----------------------------------------------------------------------------
(* Correctness                                                             *)

TypeOK ==
    /\ queue \in Seq(Tasks)
    /\ pc \in [Threads -> {"locking", "waiting", "running", "exited"}]
    /\ job \in [Threads -> Tasks \cup {NoTask}]
    /\ notifying \subseteq Submitters
    /\ future \in [Tasks -> {"none", "pending", "ready", "refused"}]
    /\ stop \in BOOLEAN
    /\ dtor \in {"alive", "stopping", "joining", "destroyed"}

InQueue(t) == \E i \in 1..Len(queue) : queue[i] = t
InHand(t)  == \E th \in Running : job[th] = t

\* A future is pending exactly while its task is in the queue or in the hands
\* of a thread, and never in two places: no accepted task is lost (its future
\* would block for ever) and none is executed twice (packaged_task would throw).
OneHolder ==
    /\ \A t \in Tasks : future[t] = "pending" <=> InQueue(t) \/ InHand(t)
    /\ \A i, j \in 1..Len(queue) : queue[i] = queue[j] => i = j
    /\ \A th1, th2 \in Running : job[th1] = job[th2] => th1 = th2
    /\ \A th \in Running : ~InQueue(job[th])

\* No wakeup is lost, although notify_one() is called outside the lock: while a
\* thread waits, every queued task has a thread of its own on its way to the
\* queue, or a submitter about to wake one.  Were it false, a task would sit
\* behind a long one while a thread sleeps.
NoLostWakeup ==
    Waiting # {} => Len(queue) <= Cardinality(notifying) + Cardinality(Locking)

\* thread_pool.hpp, header: "In-flight tasks complete before the pool is
\* destroyed".  When ~ThreadPool returns every future it handed out is ready and
\* nobody is still inside the pool.
DrainedWhenDestroyed ==
    dtor = "destroyed" =>
        /\ \A t \in Tasks : future[t] # "pending"
        /\ notifying = {}

\* Every task a pool accepted gets executed, whether or not the pool is
\* destroyed meanwhile.
FutureResolves == \A t \in Tasks : (future[t] = "pending") ~> (future[t] = "ready")

\* The pool is a work queue: what its users see of it is WorkQueue, liveness
\* included (no thread sleeps through notify_all(), so ~ThreadPool returns).
Abstract == INSTANCE WorkQueue WITH destroyed <- (dtor = "destroyed")
ImplementsWorkQueue == Abstract!FairSpec
=============================================================================
