----------------------------- MODULE AgentTree -----------------------------
(***************************************************************************)
(* One call of DirectorAgent::dispatch_managers, with everything that runs *)
(* below it: the Director on the main thread, Managers and Workers as      *)
(* tasks of the ONE thread pool that main.cpp creates and passes to the    *)
(* Director and, through the Manager factory, to every Manager.  A Manager *)
(* therefore runs on a pool thread, submits its atomic tasks to the same   *)
(* pool, and keeps its thread while it blocks in future.get().             *)
(*                                                                         *)
(* WorkQueue, which ThreadPool implements, supplies the pool's own steps   *)
(* and ManagerPool the allocation of Manager objects.  What an LLM call    *)
(* returns is a choice; a call always returns (HTTP requests have a        *)
(* timeout).                                                               *)
(***************************************************************************)
EXTENDS Naturals, Sequences, FiniteSets

CONSTANTS
    Threads,        \* the pool's threads
    Owner,          \* the main thread, which runs the Director
    NoTask,         \* what a free thread executes
    Count,          \* how many subtasks the Director dispatches
    Atoms,          \* names of the atomic tasks of a subtask
    Plans,          \* decompositions: the waves of atomic tasks, in order
    MaxRetries,     \* ManagerAgent::max_atomic_retries_
    TypeOf,         \* the task type of each subtask
    MaxManagers     \* ManagerPool::max_managers_

Subtasks == 1..Count

ASSUME ThreadsAssumption == IsFiniteSet(Threads) /\ Owner \notin Threads
ASSUME CountAssumption == Count \in Nat \ {0}
ASSUME AtomsAssumption == 0 \notin Atoms /\ Atoms \subseteq Nat
ASSUME PlansAssumption == Plans \subseteq Seq(SUBSET Atoms)
\* ManagerAgent::dispatch() marks a task done when it has run: no task is in two waves.
ASSUME WavesAssumption ==
    \A p \in Plans : \A k, l \in 1..Len(p) : k # l => p[k] \cap p[l] = {}
ASSUME RetriesAssumption == MaxRetries \in Nat

VARIABLES
    queue, job, future, stop, destroyed,    \* the thread pool
    entries, made, holding,                 \* the ManagerPool
    sequential,     \* should_dispatch_sequentially(tasks)
    dir,            \* the Director: [at, sub], what it does for which subtask
    mgr,            \* where process() of each subtask is
    plan,           \* what decompose() returned for it
    collected,      \* the atomic tasks whose result it has
    failed,         \* worker tasks that returned TaskStatus::Failed
    retry,          \* attempts of the retry_atomic() in progress, 0 if none
    report,         \* the status of each subtask's report, "none" before
    cancelled       \* the cancel flag that all agents share

threadVars == <<queue, job, future, stop, destroyed>>
poolVars == <<entries, made, holding>>
mgrVars == <<mgr, plan, collected, retry>>
vars == <<threadVars, poolVars, sequential, dir, mgrVars, failed, report, cancelled>>

\* The callables submitted to the pool: <<m, 0>> is the lambda that runs
\* process() for subtask m, <<m, a>> the one that executes its atomic task a.
PoolTasks == Subtasks \X ({0} \cup Atoms)
MgrTask(m) == <<m, 0>>

ASSUME NoTaskAssumption == NoTask \notin PoolTasks

Pool == INSTANCE WorkQueue WITH Tasks <- PoolTasks
Managers == INSTANCE ManagerPool WITH Users <- Subtasks,
                                      TaskTypes <- {TypeOf[m] : m \in Subtasks}

Init ==
    /\ Pool!Init
    /\ Managers!Init
    /\ sequential \in BOOLEAN
    /\ dir = [at |-> "acquire", sub |-> 1]
    /\ mgr = [m \in Subtasks |-> "idle"]
    /\ plan = [m \in Subtasks |-> <<>>]
    /\ collected = [m \in Subtasks |-> {}]
    /\ failed = {}
    /\ retry = [m \in Subtasks |-> 0]
    /\ report = [m \in Subtasks |-> "none"]
    /\ cancelled = FALSE

-----------------------------------------------------------------------------
(* The Director                                                            *)

\* The next subtask of a loop over the subtasks, or what follows the loop.
Advance(at, after) ==
    dir' = IF dir.sub < Count THEN [at |-> at, sub |-> dir.sub + 1]
                              ELSE [at |-> after, sub |-> 1]

\* mgr_pool_.acquire(task).  A sequential Director goes on to run process().
DirAcquire ==
    LET m == dir.sub IN
    /\ dir.at = "acquire"
    /\ Managers!Acquire(m, TypeOf[m])
    /\ IF sequential
       THEN /\ mgr' = [mgr EXCEPT ![m] = "started"]
            /\ dir' = [dir EXCEPT !.at = "process"]
       ELSE /\ mgr' = [mgr EXCEPT ![m] = "submitted"]
            /\ dir' = [dir EXCEPT !.at = "submit"]
    /\ UNCHANGED <<threadVars, sequential, plan, collected, retry, failed, report, cancelled>>

\* Fault: the parallel loop goes on without a future for the subtask.
DirAcquireThrowsSkips ==
    LET m == dir.sub IN
    /\ dir.at = "acquire"
    /\ Managers!AcquireThrows(m, TypeOf[m])
    /\ report' = [report EXCEPT ![m] = "Failed"]
    /\ mgr' = [mgr EXCEPT ![m] = "released"]
    /\ Advance("acquire", IF sequential THEN "done" ELSE "collect")
    /\ UNCHANGED <<threadVars, sequential, plan, collected, retry, failed, cancelled>>

\* acquire() throws: the subtask's report says Failed.  A parallel Director
\* still submits a task that returns that report.
DirAcquireThrows ==
    LET m == dir.sub IN
    /\ dir.at = "acquire"
    /\ Managers!AcquireThrows(m, TypeOf[m])
    /\ report' = [report EXCEPT ![m] = "Failed"]
    /\ mgr' = [mgr EXCEPT ![m] = "released"]
    /\ IF sequential THEN Advance("acquire", "done")
                     ELSE dir' = [dir EXCEPT !.at = "submit"]
    /\ UNCHANGED <<threadVars, sequential, plan, collected, retry, failed, cancelled>>

DirSubmit ==
    /\ dir.at = "submit"
    /\ Pool!Submit(Owner, MgrTask(dir.sub))
    /\ Advance("acquire", "collect")
    /\ UNCHANGED <<poolVars, sequential, mgrVars, failed, report, cancelled>>

\* f.get() of the futures in the order of the subtasks.
DirCollect ==
    /\ dir.at = "collect"
    /\ future[MgrTask(dir.sub)] = "ready"
    /\ Advance("collect", "done")
    /\ UNCHANGED <<threadVars, poolVars, sequential, mgrVars, failed, report, cancelled>>

\* Sequential dispatch: process() and release() have returned.
DirNextSequential ==
    /\ dir.at = "process"
    /\ mgr[dir.sub] = "released"
    /\ Advance("acquire", "done")
    /\ UNCHANGED <<threadVars, poolVars, sequential, mgrVars, failed, report, cancelled>>

\* The session is over: main destroys the pool.
DirFinish ==
    /\ dir.at = "done"
    /\ Pool!Close
    /\ UNCHANGED <<poolVars, sequential, dir, mgrVars, failed, report, cancelled>>

Director == DirAcquire \/ DirAcquireThrows \/ DirSubmit \/ DirCollect
            \/ DirNextSequential \/ DirFinish

-----------------------------------------------------------------------------
(* ManagerAgent::process, on the thread that runs it.                      *)

\* Thread s runs process() of subtask m: a pool thread, or the Director's own.
RunsOn(m, s) ==
    IF s = Owner THEN dir.at = "process" /\ dir.sub = m
                 ELSE job[s] = MgrTask(m)

OnThread(m) == \E s \in Threads \cup {Owner} : RunsOn(m, s)

\* A pool thread calls process() of a Manager it was handed.
MgrStart(m) ==
    /\ mgr[m] = "submitted"
    /\ OnThread(m)
    /\ mgr' = [mgr EXCEPT ![m] = "started"]
    /\ UNCHANGED <<threadVars, poolVars, sequential, dir, plan, collected, retry,
                   failed, report, cancelled>>

\* Fault: the early return for a cancelled run skips release().
MgrCancelledLeaks(m) ==
    /\ mgr[m] = "started"
    /\ OnThread(m)
    /\ cancelled
    /\ report' = [report EXCEPT ![m] = "Failed"]
    /\ mgr' = [mgr EXCEPT ![m] = "released"]
    /\ UNCHANGED <<threadVars, poolVars, sequential, dir, plan, collected, retry,
                   failed, cancelled>>

\* The cancel flag is read once, before anything is done.
MgrCancelled(m) ==
    /\ mgr[m] = "started"
    /\ OnThread(m)
    /\ cancelled
    /\ report' = [report EXCEPT ![m] = "Failed"]
    /\ mgr' = [mgr EXCEPT ![m] = "returned"]
    /\ UNCHANGED <<threadVars, poolVars, sequential, dir, plan, collected, retry,
                   failed, cancelled>>

\* The result cache has a summary and process() returns it; or decompose() throws
\* until its retries are used up; or it gives a plan.
MgrDecompose(m) ==
    /\ mgr[m] = "started"
    /\ OnThread(m)
    /\ ~cancelled
    /\ \/ /\ \E p \in Plans : plan' = [plan EXCEPT ![m] = p]
          /\ mgr' = [mgr EXCEPT ![m] = "dispatch"]
          /\ report' = report
       \/ /\ \E status \in {"Done", "Failed"} : report' = [report EXCEPT ![m] = status]
          /\ mgr' = [mgr EXCEPT ![m] = "returned"]
          /\ plan' = plan
    /\ UNCHANGED <<threadVars, poolVars, sequential, dir, collected, retry, failed, cancelled>>

\* The waves that still have results to come, and the first of them.
OpenWaves(m) == {k \in 1..Len(plan[m]) : ~(plan[m][k] \subseteq collected[m])}

\* Fault: the dependencies are ignored and everything is dispatched at once.
WaveOfEverything(m) == UNION {plan[m][k] : k \in 1..Len(plan[m])}

Wave(m) == plan[m][CHOOSE k \in OpenWaves(m) : \A l \in OpenWaves(m) : k <= l]

Lowest(S) == CHOOSE a \in S : \A b \in S : a <= b
Unsubmitted(m) == {a \in Wave(m) : future[<<m, a>>] = "none"}

\* pool_.submit() of the next task of the wave, from the Manager's own thread.
MgrSubmit(m) ==
    /\ mgr[m] = "dispatch"
    /\ OpenWaves(m) # {} /\ Unsubmitted(m) # {}
    /\ \E s \in Threads \cup {Owner} :
         /\ RunsOn(m, s)
         /\ Pool!Submit(s, <<m, Lowest(Unsubmitted(m))>>)
    /\ UNCHANGED <<poolVars, sequential, dir, mgrVars, failed, report, cancelled>>

\* future.get() of the wave's tasks in order.  A failed one is retried on the
\* Manager's own thread before the next is waited for.
MgrCollect(m) ==
    /\ mgr[m] = "dispatch"
    /\ OnThread(m)
    /\ OpenWaves(m) # {} /\ Unsubmitted(m) = {}
    /\ retry[m] = 0
    /\ LET a == Lowest(Wave(m) \ collected[m]) IN
         /\ future[<<m, a>>] = "ready"
         /\ IF <<m, a>> \in failed /\ MaxRetries > 0
            THEN retry' = [retry EXCEPT ![m] = 1] /\ collected' = collected
            ELSE collected' = [collected EXCEPT ![m] = @ \cup {a}] /\ retry' = retry
    /\ UNCHANGED <<threadVars, poolVars, sequential, dir, mgr, plan, failed, report, cancelled>>

\* One attempt of retry_atomic(): worker->execute() inline, then the result
\* stands if it did not fail or the attempts are used up.
MgrRetry(m) ==
    /\ retry[m] > 0
    /\ OnThread(m)
    /\ \/ /\ retry[m] < MaxRetries
          /\ retry' = [retry EXCEPT ![m] = @ + 1]
          /\ collected' = collected
       \/ /\ retry' = [retry EXCEPT ![m] = 0]
          /\ collected' = [collected EXCEPT ![m] = @ \cup {Lowest(Wave(m) \ @)}]
    /\ UNCHANGED <<threadVars, poolVars, sequential, dir, mgr, plan, failed, report, cancelled>>

\* validate() approves, rejects or throws, and process() returns.
MgrValidate(m) ==
    /\ mgr[m] = "dispatch"
    /\ OnThread(m)
    /\ OpenWaves(m) = {}
    /\ \E status \in {"Done", "Rejected", "Failed"} : report' = [report EXCEPT ![m] = status]
    /\ mgr' = [mgr EXCEPT ![m] = "returned"]
    /\ UNCHANGED <<threadVars, poolVars, sequential, dir, plan, collected, retry,
                   failed, cancelled>>

\* mgr_pool_.release(), on the thread that ran process().
MgrRelease(m) ==
    /\ mgr[m] = "returned"
    /\ OnThread(m)
    /\ Managers!Release(m)
    /\ mgr' = [mgr EXCEPT ![m] = "released"]
    /\ UNCHANGED <<threadVars, sequential, dir, plan, collected, retry, failed, report, cancelled>>

Manager(m) == MgrStart(m) \/ MgrCancelled(m) \/ MgrDecompose(m) \/ MgrSubmit(m)
              \/ MgrCollect(m) \/ MgrRetry(m) \/ MgrValidate(m) \/ MgrRelease(m)

-----------------------------------------------------------------------------
(* The pool threads                                                        *)

\* The lambda around process() returns its report.
FinishManager(th) ==
    /\ \E m \in Subtasks : job[th] = MgrTask(m) /\ mgr[m] = "released"
    /\ Pool!Finish(th)
    /\ UNCHANGED failed

\* WorkerAgent::execute returns, with a failure or without.  It never blocks on
\* another task.
FinishWorker(th) ==
    /\ job[th] \in Subtasks \X Atoms
    /\ Pool!Finish(th)
    /\ failed' = failed \/ failed' = failed \cup {job[th]}

Finish(th) ==
    /\ FinishManager(th) \/ FinishWorker(th)
    /\ UNCHANGED <<poolVars, sequential, dir, mgrVars, report, cancelled>>

\* A free thread takes the oldest task.
Take(th) ==
    /\ Pool!Take(th)
    /\ UNCHANGED <<poolVars, sequential, dir, mgrVars, failed, report, cancelled>>

DestroyPool ==
    /\ Pool!Destroy
    /\ UNCHANGED <<poolVars, sequential, dir, mgrVars, failed, report, cancelled>>

\* SIGINT through the shutdown watcher, or the Supervisor: the shared flag.
Cancel ==
    /\ ~cancelled /\ dir.at # "done"
    /\ cancelled' = TRUE
    /\ UNCHANGED <<threadVars, poolVars, sequential, dir, mgrVars, failed, report>>

Terminated == destroyed /\ UNCHANGED vars

Next ==
    \/ Director
    \/ \E m \in Subtasks : Manager(m)
    \/ \E th \in Threads : Take(th) \/ Finish(th)
    \/ DestroyPool
    \/ Cancel
    \/ Terminated

Spec == Init /\ [][Next]_vars

\* The pool's fairness, and every thread that can move eventually does.  Nobody
\* has to cancel.
Fairness ==
    /\ WF_vars(Director)
    /\ \A m \in Subtasks : WF_vars(Manager(m))
    /\ WF_vars(\E th \in Threads : Take(th))
    /\ \A th \in Threads : WF_vars(Finish(th))
    /\ WF_vars(DestroyPool)

FairSpec == Spec /\ Fairness

-----------------------------------------------------------------------------
TypeOK ==
    /\ queue \in Seq(PoolTasks)
    /\ job \in [Threads -> PoolTasks \cup {NoTask}]
    /\ future \in [PoolTasks -> {"none", "pending", "ready", "refused"}]
    /\ stop \in BOOLEAN /\ destroyed \in BOOLEAN
    /\ Managers!PoolTypeOK
    /\ sequential \in BOOLEAN
    /\ dir \in [at : {"acquire", "submit", "collect", "process", "done"}, sub : Subtasks]
    /\ mgr \in [Subtasks -> {"idle", "submitted", "started", "dispatch", "returned", "released"}]
    /\ plan \in [Subtasks -> Plans \cup {<<>>}]
    /\ collected \in [Subtasks -> SUBSET Atoms]
    /\ failed \subseteq PoolTasks
    /\ retry \in [Subtasks -> 0..MaxRetries]
    /\ report \in [Subtasks -> {"none", "Done", "Rejected", "Failed"}]
    /\ cancelled \in BOOLEAN

AtWork(m) == mgr[m] \in {"submitted", "started", "dispatch", "returned"}

\* A Manager that has been given a subtask belongs to it alone until process()
\* has returned, although it is released on a pool thread while the Director is
\* still acquiring: its state machine, its context and its corrections are those
\* of one subtask.
ManagerExclusive ==
    /\ \A m \in Subtasks : AtWork(m) => holding[m] # 0
    /\ \A m, n \in Subtasks : m # n /\ holding[m] # 0 => holding[m] # holding[n]

\* When the Director has its reports, every pooled Manager is idle again.
NoManagerLeaked ==
    dir.at = "done" => \A i \in 1..Len(entries) : ~entries[i].inUse

\* No Manager gets ahead of its data: a wave starts when every earlier wave has
\* its results (a later task reads the output of an earlier one), and process()
\* returns when every task it has submitted has returned, so that no Worker
\* outlives the Manager and the results vector it reports into.
WavesInOrder ==
    \A m \in Subtasks :
        /\ \A k, l \in 1..Len(plan[m]) :
             k < l /\ (\E a \in plan[m][l] : future[<<m, a>>] # "none")
               => plan[m][k] \subseteq collected[m]
        /\ mgr[m] \in {"returned", "released"} =>
             \A a \in Atoms : future[<<m, a>>] \in {"none", "ready"}

\* The Managers never occupy the whole pool, so there is always a thread for the
\* tasks they wait for.  This is what keeps the nested get() from a deadlock,
\* and it needs Count < Cardinality(Threads).
ThreadLeftForWorkers ==
    \E th \in Threads : \A m \in Subtasks : job[th] # MgrTask(m)

\* What each party can do now: the guards of its steps.
DirectorCan ==
    \/ dir.at = "acquire" /\ holding[dir.sub] = 0
    \/ dir.at = "submit" /\ ~stop /\ future[MgrTask(dir.sub)] = "none"
    \/ dir.at = "collect" /\ future[MgrTask(dir.sub)] = "ready"
    \/ dir.at = "process" /\ mgr[dir.sub] = "released"

ManagerCan(m) ==
    /\ OnThread(m)
    /\ \/ mgr[m] \in {"submitted", "started"}
       \/ mgr[m] = "dispatch" /\ OpenWaves(m) = {}
       \/ mgr[m] = "dispatch" /\ Unsubmitted(m) # {} /\ ~stop
       \/ mgr[m] = "dispatch" /\ future[<<m, Lowest(Wave(m) \ collected[m])>>] = "ready"
       \/ mgr[m] = "returned" /\ holding[m] # 0

ThreadCan(th) ==
    \/ job[th] = NoTask /\ queue # <<>>
    \/ job[th] \in Subtasks \X Atoms
    \/ \E m \in Subtasks : job[th] = MgrTask(m) /\ mgr[m] = "released"

\* The futures that the Director and its Managers wait for never form a circle
\* with the threads that are to make them ready: until the dispatch ends somebody
\* can go on, with or without a cancellation.
NeverStuck ==
    dir.at # "done" =>
        \/ DirectorCan
        \/ \E m \in Subtasks : ManagerCan(m)
        \/ \E th \in Threads : ThreadCan(th)

\* What the Director synthesises from has a report for every subtask.
ReportsComplete == dir.at = "done" => \A m \in Subtasks : report[m] # "none"

\* The Director gets a report for every subtask, cancelled or not.
DispatchReturns == <>(dir.at = "done" /\ \A m \in Subtasks : report[m] # "none")

\* main.cpp: "Wire g_shutdown_requested to cancel_flag so SIGINT/Ctrl+C cancels
\* the run".  Once the flag is set, the dispatch ends.
CancelEndsRun == cancelled ~> (dir.at = "done")
=============================================================================
