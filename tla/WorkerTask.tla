----------------------------- MODULE WorkerTask -----------------------------
(***************************************************************************)
(* One call of WorkerAgent::execute() (src/agent/worker_agent.cpp): the     *)
(* pre-flight checks, the tool, the fast path, the self-fixes, the LLM loop *)
(* with its tool chain, and the cancel and pause flags that the Supervisor  *)
(* sets meanwhile.                                                          *)
(*                                                                          *)
(* A tool's output is abstracted to what execute() tells apart by searching *)
(* the text: which error marker it holds.  Definitions are prefixed so that *)
(* MCSubtask can extend this module together with ManagerTask, which uses   *)
(* WorkerOutcomes as what an execution can return.                          *)
(***************************************************************************)
EXTENDS Naturals, FiniteSets

CONSTANTS WorkerRetries,   \* WorkerAgent::max_retries_
          MaxPauses        \* bound: how often the Supervisor pauses

ASSUME WorkerAssumption == WorkerRetries \in Nat /\ MaxPauses \in Nat

(* Tool output: "none" is the empty string, "good" has no marker, and the   *)
(* others hold "[Tool error:", "[Tool '", "cannot open", "failed:",         *)
(* "path not found" or "Access is denied".                                  *)
ToolOutputs == {"none", "good", "tool_error", "no_tool", "cannot_open",
                "failed", "not_found"}

\* The four classifiers of execute().
IsToolError == {"tool_error", "no_tool", "cannot_open", "failed"}
ToolHasError == {"tool_error", "no_tool", "cannot_open", "not_found"}
D1ToolFailed == {"tool_error", "cannot_open", "failed"}
FixFailed == {"tool_error", "no_tool"}

Statuses == {"Pending", "Running", "Done", "Failed", "Rejected", "Cancelled"}

\* What execute() can return: a fast result is Done.
WorkerOutcomes ==
    {[status |-> s, fast |-> FALSE] : s \in Statuses}
    \union {[status |-> "Done", fast |-> TRUE]}

MaxReactSteps == 5      \* kMaxReactSteps
MaxFixes == 2

VARIABLES
    wpc,          \* where execute() is
    tool,         \* the task names a tool (itself or in its description)
    placeholder,  \* its input holds a placeholder path
    peer,         \* the entry of the shared directory for (tool, input)
    output,       \* tool_output
    source,       \* history: where tool_output comes from
    toolFailed,   \* tool_failed
    fixes, attempt, react,
    asked,        \* history: the LLM was asked
    late,         \* history: LLM calls begun after the task was cancelled
    outcome,      \* the AtomicResult
    wagent,       \* state of the Worker's state machine
    cancel, pause, pauses

taskVars == <<tool, placeholder>>
toolVars == <<peer, output, source, toolFailed>>
callVars == <<asked, late>>
countVars == <<fixes, attempt, react, callVars>>
flagVars == <<cancel, pause, pauses>>
workerVars == <<wpc, taskVars, toolVars, countVars, outcome, wagent, flagVars>>

Working == [status |-> "Running", fast |-> FALSE]

WkInit ==
    /\ wpc = "idle"
    /\ tool \in BOOLEAN /\ placeholder \in BOOLEAN
    /\ peer \in ToolOutputs
    /\ output = "none" /\ source = "nothing" /\ toolFailed = FALSE
    /\ fixes = 0 /\ attempt = 0 /\ react = 0
    /\ asked = FALSE /\ late = 0
    /\ outcome = Working /\ wagent = "Idle"
    /\ cancel = FALSE /\ pause = FALSE /\ pauses = 0

Return(s, f) ==
    /\ wpc' = "returned"
    /\ outcome' = [status |-> s, fast |-> f]

\* check_control() and the wait of a paused agent: a step behind it waits
\* until the pause is lifted or the task cancelled.
MayProceed == ~cancel /\ ~pause

-----------------------------------------------------------------------------
(* The flags, set at any time: cancel_flag by the watcher or the Supervisor,*)
(* the pause flag by the Supervisor's pause_agent() and resume_agent().      *)

SetCancel ==
    /\ ~cancel /\ cancel' = TRUE
    /\ UNCHANGED <<wpc, taskVars, toolVars, countVars, outcome, wagent, pause, pauses>>

SetPause ==
    /\ ~pause /\ pauses < MaxPauses
    /\ pause' = TRUE /\ pauses' = pauses + 1
    /\ UNCHANGED <<wpc, taskVars, toolVars, countVars, outcome, wagent, cancel>>

LiftPause ==
    /\ pause /\ pause' = FALSE
    /\ UNCHANGED <<wpc, taskVars, toolVars, countVars, outcome, wagent, cancel, pauses>>

-----------------------------------------------------------------------------
(* Before the LLM.                                                          *)

BeginTask ==
    /\ wpc = "idle"
    /\ wpc' = "control" /\ wagent' = "Running"
    /\ UNCHANGED <<taskVars, toolVars, countVars, outcome, flagVars>>

CheckControl ==
    /\ wpc = "control"
    /\ \/ cancel /\ Return("Cancelled", FALSE) /\ wagent' = "Cancelled"
       \/ MayProceed /\ wpc' = "prepare" /\ UNCHANGED <<outcome, wagent>>
    /\ UNCHANGED <<taskVars, toolVars, countVars, flagVars>>

\* The output of a predecessor is put before the input, and a task without a
\* tool takes the tool (and perhaps the input) its description names: either
\* may bring a placeholder into the input.
PrepareInput ==
    /\ wpc = "prepare" /\ wpc' = "preflight"
    /\ tool' \in {tool, TRUE}
    /\ placeholder' \in IF tool' = tool THEN {placeholder, TRUE} ELSE BOOLEAN
    /\ UNCHANGED <<toolVars, countVars, outcome, wagent, flagVars>>

IsPlaceholderPath == tool /\ placeholder

\* check_peer_cache(): an empty entry is none.
PeerCacheHit == tool /\ peer # "none"

\* A placeholder path is answered by a hint instead of the tool's output;
\* otherwise a sibling's output in the shared directory replaces the call.
Preflight ==
    /\ wpc = "preflight"
    /\ IF IsPlaceholderPath
       THEN output' = "good" /\ source' = "hint" /\ wpc' = "tried"
       ELSE IF PeerCacheHit
            THEN output' = peer /\ source' = "peer" /\ wpc' = "tried"
            ELSE wpc' = "tool" /\ UNCHANGED <<output, source>>
    /\ UNCHANGED <<taskVars, peer, toolFailed, countVars, outcome,
                   wagent, flagVars>>

\* call_tool(): an exception is an output too.
CallTool ==
    /\ wpc = "tool"
    /\ IF tool
       THEN \E c \in ToolOutputs :
                /\ output' = c /\ source' = "tool"
       ELSE UNCHANGED <<output, source>>
    /\ wpc' = "tried"
    /\ UNCHANGED <<taskVars, peer, toolFailed, countVars, outcome, wagent, flagVars>>

\* Fault: the result is built but not returned.
FastPathFallsThrough ==
    /\ wpc = "tried"
    /\ tool /\ output # "none" /\ output \notin ToolHasError
    /\ toolFailed' = (output \in IsToolError)
    /\ outcome' = [status |-> "Done", fast |-> TRUE] /\ wagent' = "Done"
    /\ wpc' = "fix"
    /\ UNCHANGED <<taskVars, peer, output, source, countVars, flagVars>>

\* The result of the fast path is output that tool_has_error() passes.
FastPath ==
    /\ wpc = "tried"
    /\ tool /\ output # "none" /\ output \notin ToolHasError
    /\ toolFailed' = (output \in IsToolError)
    /\ Return("Done", TRUE) /\ wagent' = "Done"
    /\ UNCHANGED <<taskVars, peer, output, source, countVars, flagVars>>

NoFastPath ==
    /\ wpc = "tried"
    /\ ~(tool /\ output # "none" /\ output \notin ToolHasError)
    /\ toolFailed' = (output \in IsToolError)
    /\ wpc' = "fix"
    /\ UNCHANGED <<taskVars, peer, output, source, countVars, outcome,
                   wagent, flagVars>>

\* reflect_tool_failure() proposes another tool.  Output it does not call an
\* error is returned at once; the agent's state is not changed then.
SelfFix ==
    /\ wpc = "fix" /\ toolFailed /\ fixes < MaxFixes
    /\ fixes' = fixes + 1
    /\ \E c \in ToolOutputs :
          /\ IF c \in FixFailed
             THEN output' = "tool_error" /\ UNCHANGED <<wpc, outcome, toolFailed, source>>
             ELSE /\ output' = c /\ source' = "fix" /\ toolFailed' = FALSE
                  /\ Return("Done", TRUE)
    /\ UNCHANGED <<taskVars, peer, attempt, react, callVars, wagent, flagVars>>

\* No failure, no attempt left, or no known fix: the LLM takes over.
AskLlm ==
    /\ wpc = "fix"
    /\ wpc' = "llm" /\ wagent' = "Running"
    /\ UNCHANGED <<taskVars, toolVars, countVars, outcome, flagVars>>

-----------------------------------------------------------------------------
(* The loop `for attempt = 0 .. max_retries_`.                              *)

\* Fault: the flags are read only before the first attempt.
EnterAttemptUnchecked ==
    /\ wpc = "llm" /\ attempt <= WorkerRetries /\ (attempt > 0 \/ MayProceed)
    /\ wpc' = "attempt"
    /\ UNCHANGED <<taskVars, toolVars, countVars, outcome, wagent, flagVars>>

\* check_control() at the head of the loop; what follows is an LLM call.
EnterAttempt ==
    /\ wpc = "llm" /\ attempt <= WorkerRetries /\ MayProceed
    /\ wpc' = "attempt"
    /\ UNCHANGED <<taskVars, toolVars, countVars, outcome, wagent, flagVars>>

Ask ==
    /\ wpc = "attempt"
    /\ asked' = TRUE
    /\ late' = IF cancel THEN late + 1 ELSE late

CancelledInLoop ==
    /\ wpc = "llm" /\ attempt <= WorkerRetries /\ cancel
    /\ outcome' = [outcome EXCEPT !.status = "Cancelled"]
    /\ wpc' = "returned" /\ wagent' = "Cancelled"
    /\ UNCHANGED <<taskVars, toolVars, countVars, flagVars>>

\* is_agent_giving_up(): an explanation in prose is a result.
GivesUp ==
    /\ Ask
    /\ Return("Done", FALSE) /\ wagent' = "Done"
    /\ UNCHANGED <<taskVars, toolVars, fixes, attempt, react, flagVars>>

\* try_react(): status "running" with a tool in "error" and its input in
\* "output".  The tool's output replaces tool_output, `continue` ends the
\* attempt.
Chain ==
    /\ Ask /\ wpc' = "llm"
    /\ react < MaxReactSteps /\ react' = react + 1 /\ attempt' = attempt + 1
    /\ \E c \in ToolOutputs :
          /\ output' = c /\ source' = "chain"
    /\ UNCHANGED <<taskVars, peer, toolFailed, fixes, outcome, wagent, flagVars>>

\* The siblings get the output of a tool call that did not fail, under the key
\* of this task; after a chain that is the output of the chain's last tool.
ShareWithPeers ==
    peer' = IF tool /\ output # "none" /\ ~toolFailed THEN output ELSE peer

\* Any status the JSON names is the task's status ("running" when no tool is
\* named or the chain is used up).
Parsed ==
    /\ Ask
    /\ \E s \in Statuses : Return(s, FALSE)
    /\ ShareWithPeers
    /\ wagent' = "Done"
    /\ UNCHANGED <<taskVars, output, source, toolFailed, fixes, attempt,
                   react, flagVars>>

\* Fault: a response without a result is asked for again for nothing.
UnparsedUncounted ==
    /\ Ask /\ wpc' = "llm"
    /\ UNCHANGED <<taskVars, toolVars, fixes, attempt, react, outcome, wagent, flagVars>>

\* No JSON, no "output" or an unknown status: the attempt is spent.
Unparsed ==
    /\ Ask /\ wpc' = "llm"
    /\ attempt' = attempt + 1
    /\ UNCHANGED <<taskVars, toolVars, fixes, react, outcome, wagent, flagVars>>

\* ModelException and unexpected exceptions end the task, an AgentException
\* only on the last attempt.
LlmThrows ==
    /\ Ask
    /\ \/ /\ outcome' = [outcome EXCEPT !.status = "Failed"]
          /\ wpc' = "returned" /\ wagent' = "Failed" /\ UNCHANGED attempt
       \/ /\ attempt < WorkerRetries /\ attempt' = attempt + 1
          /\ wpc' = "llm" /\ UNCHANGED <<outcome, wagent>>
    /\ UNCHANGED <<taskVars, toolVars, fixes, react, flagVars>>

\* "Exceeded max retries".
RetriesExceeded ==
    /\ wpc = "llm" /\ attempt > WorkerRetries
    /\ outcome' = [outcome EXCEPT !.status = "Failed"]
    /\ wpc' = "returned" /\ wagent' = "Failed"
    /\ UNCHANGED <<taskVars, toolVars, countVars, flagVars>>

-----------------------------------------------------------------------------
WkSteps ==
    \/ CheckControl \/ PrepareInput \/ Preflight \/ CallTool \/ FastPath \/ NoFastPath
    \/ SelfFix \/ AskLlm \/ EnterAttempt \/ CancelledInLoop \/ GivesUp \/ Chain \/ Parsed
    \/ Unparsed \/ LlmThrows \/ RetriesExceeded

WkNext == BeginTask \/ WkSteps \/ SetCancel \/ SetPause \/ LiftPause

\* Calls return: execute() goes on unless it is paused.
WkSpec == WkInit /\ [][WkNext]_workerVars /\ WF_workerVars(WkSteps)

-----------------------------------------------------------------------------
(* Properties.                                                              *)

\* What an execution returns is one of the outcomes the Manager's model
\* assumes: in particular a result marked fast_path, which the Manager may
\* trust without an LLM, is Done and no LLM was asked for it.
ReturnsAnOutcome ==
    wpc = "returned" => /\ outcome \in WorkerOutcomes
                        /\ outcome.fast => ~asked

\* After the run is cancelled a task begins at most the one LLM call it was
\* about to make, whichever attempt it is in.
OneLateCall == late <= 1

\* Every execution returns, unless it is left paused: one that has been paused
\* goes on when the last pause is lifted.
ExecuteEnds == (wpc = "control") ~> (wpc = "returned" \/ <>[]pause)

\* "When a tool ran and produced output without errors, return immediately"
\* (the comment of the fast path): a fast result is the output of a tool, its
\* own or a sibling's, and not one that is_tool_error() has just flagged.
FastPathMeansToolSucceeded ==
    outcome.fast => source # "hint" /\ ~toolFailed
=============================================================================
