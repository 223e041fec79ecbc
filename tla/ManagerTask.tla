----------------------------- MODULE ManagerTask ----------------------------
(***************************************************************************)
(* One call of ManagerAgent::process() (src/agent/manager_agent.cpp): the   *)
(* decompose retries, the dispatch of the atomic tasks in waves with their  *)
(* dependencies resolved by id, the local retries, the validation and the   *)
(* report.                                                                  *)
(*                                                                          *)
(* AgentTree has the pool threads that this runs on; here an execution on a *)
(* Worker is one step whose result is one of WorkerOutcomes, which module   *)
(* WorkerTask shows to be all that WorkerAgent::execute() can return.       *)
(***************************************************************************)
EXTENDS WorkerTask, Sequences

CONSTANTS AtomIds,         \* ids an LLM may give to atomic tasks
          Decompositions,  \* lists of atomic tasks that the LLM may answer with
          AtomicRetries    \* ManagerAgent::max_atomic_retries_

\* The tool an atomic task names is none, one of available_tools_, another, or
\* one that only its description names ("Use ...").
Atom == [id : AtomIds, deps : SUBSET AtomIds,
         tool : {"", "known", "unknown", "described"}, placeholder : BOOLEAN]

ASSUME ManagerAssumption ==
    Decompositions \subseteq Seq(Atom) \ {<< >>} /\ AtomicRetries \in Nat

VARIABLES
    mpc,         \* where process() is
    creation,    \* the subtask's text reads as a creation
    misparsed,   \* failed decompose attempts
    atoms,       \* the atomic tasks
    waves,       \* waves still allowed (max_waves)
    submitted,   \* indexes handed to the pool
    executing,   \* those that have not returned
    future,      \* what an execution returned
    results,     \* [index -> AtomicResult]
    collected,   \* done[]
    retried,     \* attempt of the retry_atomic() in progress, 0 if none
    tries,       \* history: executions of each atomic task
    judged,      \* history: the LLM was asked to validate
    report,      \* status of the SubTaskReport
    magent       \* state of the Manager's state machine

waveVars == <<atoms, waves, submitted, executing, future, results, collected, tries>>
managerVars == <<mpc, creation, misparsed, waveVars, retried, judged, report, magent>>

Indexes == DOMAIN atoms

\* process() tells a Failed and a trusted result from the others; "Running"
\* stands for every status that is neither Done nor Failed.
Outcomes == {o \in WorkerOutcomes : o.status \in {"Done", "Failed", "Running"}}

Default == [status |-> "Pending", fast |-> FALSE]

MtInit ==
    /\ mpc = "idle" /\ creation \in BOOLEAN /\ misparsed = 0
    /\ atoms = << >> /\ waves = 0 /\ submitted = {} /\ executing = {} /\ future = << >> /\ results = << >>
    /\ collected = {} /\ tries = << >> /\ retried = 0
    /\ judged = FALSE /\ report = "Running" /\ magent = "Idle"

MtReturn(s) == mpc' = "returned" /\ report' = s

MtFail == MtReturn("Failed") /\ magent' = "Failed"

-----------------------------------------------------------------------------
(* Decompose.                                                               *)

\* A cancelled run is reported without a change of the Manager's state.
BeginProcess ==
    /\ mpc = "idle"
    /\ magent' = "Running"
    /\ MtReturn("Failed") \/ (mpc' = "decompose" /\ UNCHANGED report)
    /\ UNCHANGED <<creation, misparsed, waveVars, retried, judged>>

\* Fault: a wave less than a chain of n tasks needs.
WavesForChainOf(n) == n - 1
\* max_waves
WavesFor(n) == n + 1

\* decompose() throws at the first unknown tool or placeholder in an input.
Refused(list) == \E i \in DOMAIN list : list[i].tool = "unknown" \/ list[i].placeholder

\* Its third validation: a tool that is only in the description is filled in.
WithTool(a) == IF a.tool = "described" THEN [a EXCEPT !.tool = "known"] ELSE a

DecomposeTask ==
    /\ mpc = "decompose"
    /\ \E list \in Decompositions :
          /\ ~Refused(list)
          /\ atoms' = [i \in DOMAIN list |-> WithTool(list[i])]
          /\ waves' = WavesFor(Len(list))
          /\ future' = [i \in DOMAIN list |-> Default]
          /\ results' = [i \in DOMAIN list |-> Default]
          /\ tries' = [i \in DOMAIN list |-> 0]
    /\ mpc' = "dispatch"
    /\ UNCHANGED <<creation, misparsed, submitted, executing, collected, retried,
                   judged, report, magent>>

\* A ParseException: no JSON array, an empty one, or a refused task.
DecomposeMisparsed ==
    /\ mpc = "decompose"
    /\ IF misparsed = AtomicRetries
       THEN MtFail /\ UNCHANGED misparsed
       ELSE misparsed' = misparsed + 1 /\ UNCHANGED <<mpc, report, magent>>
    /\ UNCHANGED <<creation, waveVars, retried, judged>>

DecomposeFails ==
    /\ mpc = "decompose" /\ MtFail
    /\ UNCHANGED <<creation, misparsed, waveVars, retried, judged>>

-----------------------------------------------------------------------------
(* Dispatch.                                                                *)

\* idx_map: the last task with an id is the one the id stands for.
IndexOf(d) == {i \in Indexes : /\ atoms[i].id = d
                               /\ \A j \in Indexes : atoms[j].id = d => j <= i}

Met(d) == \E i \in IndexOf(d) : i \in collected

Ready == {i \in Indexes \ collected : \A d \in atoms[i].deps : Met(d)}

InFlight == submitted \ collected

\* Without dependencies every task is ready, and this is the parallel path.
SubmitWave ==
    /\ mpc = "dispatch" /\ retried = 0 /\ InFlight = {}
    /\ collected # Indexes /\ waves > 0 /\ Ready # {}
    /\ waves' = waves - 1
    /\ submitted' = submitted \union Ready /\ executing' = Ready
    /\ UNCHANGED <<mpc, creation, misparsed, atoms, future, results, collected, tries,
                   retried, judged, report, magent>>

\* Fault: the loop only ends when every task is done.
EndDispatchWhenDone ==
    /\ mpc = "dispatch" /\ retried = 0 /\ InFlight = {}
    /\ collected = Indexes
    /\ mpc' = "validate"
    /\ UNCHANGED <<creation, misparsed, waveVars, retried, judged, report, magent>>

\* All collected, or a cycle, a missing id or no wave left: what has not run
\* keeps a default result.
EndDispatch ==
    /\ mpc = "dispatch" /\ retried = 0 /\ InFlight = {}
    /\ collected = Indexes \/ waves = 0 \/ Ready = {}
    /\ mpc' = "validate"
    /\ UNCHANGED <<creation, misparsed, waveVars, retried, judged, report, magent>>

\* A Worker executes on a pool thread, in any order within the wave.
WorkerExecutes(i) ==
    /\ mpc = "dispatch" /\ i \in executing
    /\ executing' = executing \ {i}
    /\ \E o \in Outcomes : future' = [future EXCEPT ![i] = o]
    /\ tries' = [tries EXCEPT ![i] = @ + 1]
    /\ UNCHANGED <<mpc, creation, misparsed, atoms, waves, submitted, results,
                   collected, retried, judged, report, magent>>

First(S) == CHOOSE i \in S : \A j \in S : i <= j

Keep(i, o) ==
    /\ results' = [results EXCEPT ![i] = o]
    /\ collected' = collected \union {i}

\* futures are waited for in order; a Failed result is retried in place.
Collect ==
    /\ mpc = "dispatch" /\ retried = 0 /\ InFlight # {}
    /\ LET i == First(InFlight) IN
       /\ i \notin executing
       /\ IF future[i].status = "Failed"
          THEN retried' = 1 /\ UNCHANGED <<results, collected>>
          ELSE Keep(i, future[i]) /\ UNCHANGED retried
    /\ UNCHANGED <<mpc, creation, misparsed, atoms, waves, submitted, executing,
                   future, tries, judged,
                   report, magent>>

\* Fault: the loop is `attempt < max_atomic_retries_`.
RetryAtomicOneLess ==
    /\ mpc = "dispatch" /\ retried > 0
    /\ LET i == First(InFlight) IN
       \/ /\ retried < AtomicRetries
          /\ tries' = [tries EXCEPT ![i] = @ + 1]
          /\ \E o \in Outcomes :
                IF o.status = "Failed"
                THEN retried' = retried + 1 /\ UNCHANGED <<results, collected>>
                ELSE retried' = 0 /\ Keep(i, o)
       \/ /\ retried >= AtomicRetries
          /\ retried' = 0 /\ UNCHANGED tries
          /\ Keep(i, [status |-> "Failed", fast |-> FALSE])
    /\ UNCHANGED <<mpc, creation, misparsed, atoms, waves, submitted, executing,
                   future, judged, report, magent>>

\* retry_atomic(): on the Manager's own thread.
RetryAtomic ==
    /\ mpc = "dispatch" /\ retried > 0
    /\ LET i == First(InFlight) IN
       \/ /\ retried <= AtomicRetries
          /\ tries' = [tries EXCEPT ![i] = @ + 1]
          /\ \E o \in Outcomes :
                IF o.status = "Failed"
                THEN retried' = retried + 1 /\ UNCHANGED <<results, collected>>
                ELSE retried' = 0 /\ Keep(i, o)
       \/ /\ retried > AtomicRetries
          /\ retried' = 0 /\ UNCHANGED tries
          /\ Keep(i, [status |-> "Failed", fast |-> FALSE])
    /\ UNCHANGED <<mpc, creation, misparsed, atoms, waves, submitted, executing,
                   future, judged, report, magent>>

-----------------------------------------------------------------------------
(* Validate and report.                                                     *)

\* Fault: one trusted result is enough.
AnyFastPath == \E i \in Indexes : results[i].fast /\ results[i].status = "Done"

AllFastPath == \A i \in Indexes : results[i].fast /\ results[i].status = "Done"

\* Only raw tool output for a subtask that creates nothing is trusted.
Trusted == AllFastPath /\ ~creation

Approve == MtReturn("Done") /\ magent' = "Done"

ApproveTrusted ==
    /\ mpc = "validate" /\ Trusted
    /\ Approve
    /\ UNCHANGED <<creation, misparsed, waveVars, retried, judged>>

\* A validation that fails or cannot be parsed counts as a rejection.
Judge ==
    /\ mpc = "validate" /\ ~Trusted
    /\ judged' = TRUE
    /\ Approve \/ (MtReturn("Rejected") /\ magent' = "Failed")
    /\ UNCHANGED <<creation, misparsed, waveVars, retried>>

-----------------------------------------------------------------------------
MtSteps ==
    \/ DecomposeTask \/ DecomposeMisparsed \/ DecomposeFails
    \/ SubmitWave \/ EndDispatch \/ (\E i \in Indexes : WorkerExecutes(i))
    \/ Collect \/ RetryAtomic \/ ApproveTrusted \/ Judge

MtNext == BeginProcess \/ MtSteps

\* Executions return, and process() goes on.
MtSpec == MtInit /\ [][MtNext]_managerVars /\ WF_managerVars(MtSteps)

-----------------------------------------------------------------------------
(* Properties.                                                              *)

\* The tasks that can never become ready: each depends on a missing id or on
\* another of them.
Unresolvable(S) ==
    \A i \in S : \E d \in atoms[i].deps : IndexOf(d) = {} \/ \E j \in IndexOf(d) : j \in S

\* The waves allowed suffice: what has not run when a subtask is validated is
\* a set of tasks that wait for each other or for a task that does not exist.
OnlyUnresolvableSkipped ==
    mpc = "validate" => Unresolvable(Indexes \ collected)

\* A Failed result was tried once and then max_atomic_retries_ times more; no
\* task is executed more often, and none that was collected never ran.
FailedMeansExhausted ==
    \A i \in Indexes :
        /\ tries[i] <= 1 + AtomicRetries
        /\ i \in collected => tries[i] > 0
        /\ results[i].status = "Failed" => tries[i] = 1 + AtomicRetries

\* A subtask is approved without asking the LLM only if every atomic task ran
\* and all results are raw tool output: one default result of an unresolvable
\* task, one result of an LLM or one retry that was exhausted forbids it.
TrustedOnlyIfAllRan ==
    (report = "Done" /\ ~judged) =>
        /\ collected = Indexes /\ ~creation
        /\ \A i \in Indexes : results[i].status = "Done" /\ results[i].fast

\* Every subtask is reported.
ProcessEnds == (mpc = "decompose") ~> (mpc = "returned")
=============================================================================
