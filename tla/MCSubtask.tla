------------------------------- MODULE MCSubtask ------------------------------
(***************************************************************************)
(* One process() of a Manager, one execute() of a Worker, the state file     *)
(* their state machines write and the health server, side by side: a         *)
(* behaviour is about one of them (focus) and the others stay in an initial  *)
(* state, so that the state space is the sum of theirs.                     *)
(***************************************************************************)
EXTENDS ManagerTask, StateFile, HealthServer

VARIABLE focus

mcVars == <<focus, managerVars, workerVars, sfVars, hsVars>>

ManagerAtRest == mpc = "idle" /\ ~creation
WorkerAtRest == wpc = "idle" /\ ~tool /\ ~placeholder /\ peer = "none"

MCInit ==
    /\ focus \in {"manager", "worker", "file", "health"}
    /\ MtInit /\ WkInit /\ SfInit /\ HsInit
    /\ focus # "manager" => ManagerAtRest
    /\ focus # "worker" => WorkerAtRest

ManagerOnly == focus = "manager" /\ UNCHANGED <<focus, workerVars, sfVars, hsVars>>
WorkerOnly == focus = "worker" /\ UNCHANGED <<focus, managerVars, sfVars, hsVars>>
FileOnly == focus = "file" /\ UNCHANGED <<focus, managerVars, workerVars, hsVars>>
HealthOnly == focus = "health" /\ UNCHANGED <<focus, managerVars, workerVars, sfVars>>

MCNext ==
    \/ ManagerOnly /\ MtNext
    \/ WorkerOnly /\ WkNext
    \/ FileOnly /\ SfNext
    \/ HealthOnly /\ HsNext

\* Calls return and threads run: the steps within process(), execute(),
\* write_state(), serve() and stop() are taken.  The Supervisor, the LLM, the
\* clients and other processes owe nothing.
MCSpec ==
    /\ MCInit /\ [][MCNext]_mcVars
    /\ WF_mcVars(ManagerOnly /\ MtSteps)
    /\ WF_mcVars(WorkerOnly /\ WkSteps)
    /\ \A a \in Agents : WF_mcVars(FileOnly /\ WriteState(a))
    /\ WF_mcVars(HealthOnly /\ Serve)
    /\ WF_mcVars(HealthOnly /\ (ShutSocket \/ JoinServer))

-----------------------------------------------------------------------------
(* Atomic tasks of a Manager.                                               *)

MCAtomIds == {"a", "b", "c"}

A(d, ds) == [id |-> d, deps |-> ds, tool |-> "known", placeholder |-> FALSE]

\* One task, two without dependencies, a chain, a join, a repeated id, a missing
\* id, a cycle beside a task that can run, and two that are refused.
MCDecompositions ==
    {<<A("a", {})>>,
     <<[A("a", {}) EXCEPT !.tool = "described"], [A("b", {}) EXCEPT !.tool = ""]>>,
     <<A("a", {}), A("b", {"a"}), A("c", {"b"})>>,
     <<A("c", {"a", "b"}), A("a", {}), A("b", {})>>,
     <<A("a", {}), A("a", {}), A("b", {"a"})>>,
     <<A("a", {}), A("b", {"c"})>>,
     <<A("a", {"b"}), A("b", {"a"}), A("c", {})>>,
     <<[A("a", {}) EXCEPT !.tool = "described"], [A("b", {}) EXCEPT !.tool = "unknown"]>>,
     <<[A("a", {}) EXCEPT !.placeholder = TRUE]>>}

=============================================================================
