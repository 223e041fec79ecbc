----------------------------- MODULE WorkQueue -----------------------------
(***************************************************************************)
(* What include/utils/thread_pool.hpp promises to its users: accepted      *)
(* tasks are executed in order of submission by whichever thread is free,  *)
(* each of them once, and the destructor returns when all are done.  There *)
(* is no mutex, no condition variable and no wakeup here; ThreadPool is    *)
(* shown to implement this, and AgentTree runs the agents on top of it.    *)
(***************************************************************************)
EXTENDS Naturals, Sequences

CONSTANTS
    Threads,    \* the pool's threads
    Tasks,      \* the callables that may be submitted, each of them once
    Owner,      \* the thread that constructs the pool, submits and destroys it
    NoTask      \* what a free thread executes

VARIABLES
    queue,      \* accepted tasks no thread has taken, oldest first
    job,        \* what each thread executes
    future,     \* the state of each task's std::future
    stop,       \* the destructor has begun
    destroyed   \* ... and has returned

queueVars == <<queue, job, future, stop, destroyed>>

Init ==
    /\ queue = <<>>
    /\ job = [th \in Threads |-> NoTask]
    /\ future = [t \in Tasks |-> "none"]
    /\ stop = FALSE
    /\ destroyed = FALSE

\* The owner submits while the pool lives, a thread through the task it runs.
MaySubmit(s) == IF s = Owner THEN ~stop ELSE job[s] # NoTask

Submit(s, t) ==
    /\ MaySubmit(s)
    /\ future[t] = "none"
    /\ ~stop
    /\ queue' = Append(queue, t)
    /\ future' = [future EXCEPT ![t] = "pending"]
    /\ UNCHANGED <<job, stop, destroyed>>

\* A pool that is being destroyed takes nothing more.
Refuse(s, t) ==
    /\ MaySubmit(s)
    /\ future[t] = "none"
    /\ stop
    /\ future' = [future EXCEPT ![t] = "refused"]
    /\ UNCHANGED <<queue, job, stop, destroyed>>

\* Fault: a task is copied out of the queue and stays in it.
TakeWithoutPop(th) ==
    /\ job[th] = NoTask
    /\ queue # <<>>
    /\ job' = [job EXCEPT ![th] = Head(queue)]
    /\ UNCHANGED <<queue, future, stop, destroyed>>

Take(th) ==
    /\ job[th] = NoTask
    /\ queue # <<>>
    /\ job' = [job EXCEPT ![th] = Head(queue)]
    /\ queue' = Tail(queue)
    /\ UNCHANGED <<future, stop, destroyed>>

Finish(th) ==
    /\ job[th] # NoTask
    /\ future' = [future EXCEPT ![job[th]] = "ready"]
    /\ job' = [job EXCEPT ![th] = NoTask]
    /\ UNCHANGED <<queue, stop, destroyed>>

Close ==
    /\ ~stop
    /\ stop' = TRUE
    /\ UNCHANGED <<queue, job, future, destroyed>>

Destroy ==
    /\ stop /\ ~destroyed
    /\ queue = <<>>
    /\ \A th \in Threads : job[th] = NoTask
    /\ destroyed' = TRUE
    /\ UNCHANGED <<queue, job, future, stop>>

Next ==
    \/ \E s \in Threads \cup {Owner}, t \in Tasks : Submit(s, t) \/ Refuse(s, t)
    \/ \E th \in Threads : Take(th) \/ Finish(th)
    \/ Close \/ Destroy

\* A free thread takes a waiting task, a task returns, and the destructor of an
\* empty pool returns.
Fairness ==
    /\ WF_queueVars(\E th \in Threads : Take(th))
    /\ \A th \in Threads : WF_queueVars(Finish(th))
    /\ WF_queueVars(Destroy)

Spec == Init /\ [][Next]_queueVars
FairSpec == Spec /\ Fairness
=============================================================================
