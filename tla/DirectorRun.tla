----------------------------- MODULE DirectorRun -----------------------------
(***************************************************************************)
(* DirectorAgent::run() (src/agent/director_agent.cpp): the route a request *)
(* takes (chat, single tool, full pipeline), the decompose retries, the     *)
(* review and its rounds of re-issues, and the result that is returned.     *)
(*                                                                          *)
(* What the LLM answers is the choice of the environment.  dispatch_        *)
(* managers() is module AgentTree; here it is one step that leaves one      *)
(* report per subtask.  A subtask is what the phases tell apart: its id and *)
(* whether its text reads as a creation or as a validation of a real path.  *)
(* The run-wide session memory is never given to the Director by main.cpp,  *)
(* so the steps that need it are left out.                                  *)
(***************************************************************************)
EXTENDS Naturals, Sequences, FiniteSets, SequencesExt

CONSTANTS Ids,          \* subtask ids that plans and reviews may name
          Requests,     \* requests: [heuristic, creation, rule]
          Plans,        \* subtask lists the LLM may decompose into
          Reviews,      \* feedback lists the LLM may answer
          MaxRetries,   \* max_subtask_retries
          Budget,       \* max_cost_per_run_usd in answered calls, 0 = none
          MaxRuns       \* bound: runs of one Director (Supervisor retries)

Labels == {"L0", "L1", "L2", "L3", "L4"}
Task == [id : Ids, creates : BOOLEAN, validates : BOOLEAN]
Feedback == [id : Ids, approved : BOOLEAN]
Report == [id : Ids, try : Nat]

ASSUME DirectorAssumption ==
    /\ Requests \subseteq [heuristic : Labels, creation : BOOLEAN, rule : BOOLEAN]
    /\ Plans \subseteq Seq(Task) \ {<< >>}
    /\ Reviews \subseteq Seq(Feedback)
    /\ MaxRetries \in Nat /\ Budget \in Nat /\ MaxRuns \in Nat
    /\ {"subtask-1", "subtask-2", "rule-subtask-1"} \subseteq Ids

VARIABLES
    pc,          \* phase of run()
    workspace,   \* the program runs with a workspace (chosen once, at start)
    run,         \* runs so far
    req,         \* the request of this run
    misses,      \* failed decompose attempts
    tasks, reports, feedbacks,
    rejections,  \* rejection_counts
    round,       \* round of the review loop
    meter,       \* answered LLM calls since client_.reset_usage()
    result,      \* the FinalResult being built
    agent,       \* state of the Director's state machine
    files,       \* files of this run in the workspace
    executions,  \* history: executions of the subtask at each position
    aligned      \* history: every review so far listed the plan in order

vars == <<pc, workspace, run, req, misses, tasks, reports, feedbacks, rejections,
          round, meter, result, agent, files, executions, aligned>>
plan == <<tasks, reports, executions>>
loop == <<feedbacks, rejections, round, aligned>>
fixed == <<workspace, run, req>>

NoResult == [status |-> "Pending", answer |-> "none", usage |-> 0, reports |-> << >>]

Init ==
    /\ pc = "idle" /\ workspace \in BOOLEAN /\ run = 0 /\ req \in Requests
    /\ misses = 0 /\ tasks = << >> /\ reports = << >> /\ feedbacks = << >>
    /\ rejections = [d \in Ids |-> 0] /\ round = 0
    /\ meter = 0
    /\ result = NoResult /\ agent = "Idle" /\ files = {}
    /\ executions = << >> /\ aligned = TRUE

-----------------------------------------------------------------------------
(* Accounting of LLM calls and the two ends of a run.                       *)

Answered == meter' = meter + 1
Unanswered == UNCHANGED meter

Save(f) == files' = IF workspace THEN files \union {f} ELSE files

\* StateMachine::transition(): Done is final, also for a later run.
Becomes(state) == agent' = IF agent = "Done" THEN agent ELSE state

\* `n` is the usage of the client when the result is taken.
Complete(answer, n, reps) ==
    /\ pc' = "done"
    /\ result' = [status |-> "Done", answer |-> answer, usage |-> n, reports |-> reps]
    /\ meter' = 0
    /\ Becomes("Done")

\* The two catch clauses: neither the usage nor the reports are touched.
Fail ==
    /\ pc' = "failed"
    /\ result' = [result EXCEPT !.status = "Failed"]
    /\ Becomes("Failed")

\* A model error, or an answer that cannot be parsed (which is metered).
CallFails == (Unanswered \/ Answered) /\ Fail

-----------------------------------------------------------------------------
(* Steps of a run.                                                          *)

Start(r) ==
    /\ pc \in {"idle", "done", "failed"} /\ run < MaxRuns
    /\ pc' = "classify" /\ run' = run + 1 /\ req' = r
    /\ misses' = 0 /\ tasks' = << >> /\ reports' = << >> /\ executions' = << >>
    /\ feedbacks' = << >> /\ rejections' = [d \in Ids |-> 0] /\ round' = 0
    /\ meter' = 0 /\ result' = NoResult /\ Becomes("Running")
    /\ aligned' = TRUE
    /\ UNCHANGED <<workspace, files>>

\* The classifier may not send an actionable request to the chat route.
Route(heuristic, label) ==
    IF label = "L0" /\ heuristic # "L0" THEN heuristic ELSE label

PhaseOf(route) ==
    CASE route = "L0" -> "direct"
      [] route = "L1" -> "single"
      [] OTHER -> "plan"

\* An unrecognised label or a failed call falls back to the heuristic.
Classify ==
    /\ pc = "classify"
    /\ \/ \E label \in Labels : Answered /\ pc' = PhaseOf(Route(req.heuristic, label))
       \/ (Answered \/ Unanswered) /\ pc' = PhaseOf(req.heuristic)
    /\ UNCHANGED <<fixed, misses, plan, loop, result, agent, files>>

AnswerDirectly ==
    /\ pc = "direct"
    /\ \/ Complete("direct", meter + 1, << >>)
       \/ Unanswered /\ Fail
    /\ UNCHANGED <<fixed, misses, plan, loop, files>>

\* L1: one subtask for one Manager; any report but Done falls through.
DispatchSingle ==
    /\ pc = "single"
    /\ pc' \in {"single_answer", "plan"}
    /\ UNCHANGED <<fixed, misses, plan, loop, meter, result, agent, files>>

OverBudget == ~workspace /\ Budget > 0 /\ meter >= Budget

AnswerSingle ==
    /\ pc = "single_answer"
    /\ LET reps == <<[id |-> "subtask-1", try |-> 1]>> IN
       \/ OverBudget /\ Complete("budget", meter, reps)
       \/ ~OverBudget /\ Complete("synthesised", meter + 1, reps)
       \/ ~OverBudget /\ Complete("summary", meter, reps)
    /\ UNCHANGED <<fixed, misses, plan, loop, files>>

-----------------------------------------------------------------------------
(* The plan: a rule, or the LLM's list, then compaction.                    *)

Creates(ts) == {i \in DOMAIN ts : ts[i].creates}
Validates(ts) == {i \in DOMAIN ts : ts[i].validates}
Verify == [id |-> "subtask-2", creates |-> FALSE, validates |-> TRUE]

FirstOr(ts, places, default) == IF places = {} THEN default ELSE ts[Min(places)]

\* compact_file_creation_subtasks(): first creation and first validation,
\* renumbered; a missing validation is made up.
Compact(ts) ==
    IF req.creation /\ Len(ts) > 2 /\ Creates(ts) # {}
    THEN <<[FirstOr(ts, Creates(ts), Verify) EXCEPT !.id = "subtask-1"],
           [FirstOr(ts, Validates(ts), Verify) EXCEPT !.id = "subtask-2"]>>
    ELSE ts

TakePlan(ts) ==
    /\ tasks' = Compact(ts)
    /\ Save("subtasks.json")
    /\ pc' = "dispatch"
    /\ UNCHANGED <<reports, executions>>

PlanByRule ==
    /\ pc = "plan" /\ req.rule
    /\ TakePlan(<<[id |-> "rule-subtask-1", creates |-> FALSE, validates |-> FALSE]>>)
    /\ UNCHANGED <<fixed, misses, loop, meter, result, agent>>

\* An empty list becomes one fallback subtask, so a plan has a subtask.
Decompose ==
    /\ pc = "plan" /\ ~req.rule
    /\ \E ts \in Plans : TakePlan(ts)
    /\ Answered
    /\ UNCHANGED <<fixed, misses, loop, result, agent>>

\* ParseException: the attempts 0..MaxRetries, the last one is rethrown.
DecomposeUnparsed ==
    /\ pc = "plan" /\ ~req.rule
    /\ Answered
    /\ IF misses = MaxRetries
       THEN Fail /\ UNCHANGED misses
       ELSE misses' = misses + 1 /\ UNCHANGED <<pc, result, agent>>
    /\ UNCHANGED <<fixed, plan, loop, files>>

\* Any other exception of decompose_goal() ends the run at once.
DecomposeThrows ==
    /\ pc = "plan" /\ ~req.rule
    /\ Unanswered /\ Fail
    /\ UNCHANGED <<fixed, misses, plan, loop, files>>

\* dispatch_managers(), then the checkpoint.
Dispatch ==
    /\ pc = "dispatch"
    /\ pc' = "review"
    /\ reports' = [i \in DOMAIN tasks |-> [id |-> tasks[i].id, try |-> 1]]
    /\ executions' = [i \in DOMAIN tasks |-> 1]
    /\ result' = [result EXCEPT !.reports = reports']
    /\ Save("checkpoint.json")
    /\ UNCHANGED <<fixed, misses, tasks, loop, meter, agent>>

-----------------------------------------------------------------------------
(* Review and re-issue.                                                     *)

ListsPlan(fs) ==
    /\ Len(fs) = Len(tasks)
    /\ \A i \in DOMAIN fs : fs[i].id = tasks[i].id

Review ==
    /\ pc = "review"
    /\ \/ \E fs \in Reviews :
            /\ feedbacks' = fs
            /\ aligned' = (aligned /\ ListsPlan(fs))
            /\ Answered
            /\ pc' = "rounds"
            /\ UNCHANGED <<result, agent>>
       \/ CallFails /\ UNCHANGED <<feedbacks, aligned>>
    /\ UNCHANGED <<fixed, misses, plan, rejections, round, files>>

RejectedAt(fs) == {i \in DOMAIN fs : ~fs[i].approved}

\* Rejections after this pass over the feedbacks.
Counted ==
    [d \in Ids |-> rejections[d] +
                   Cardinality({i \in RejectedAt(feedbacks) : feedbacks[i].id = d})]

\* A rejection that is the first of its subtask.
Actionable == \E i \in RejectedAt(feedbacks) : rejections[feedbacks[i].id] = 0

\* Fault: a second rejection is not taken as final.
ForcedThirdTime(counts, f) ==
    IF counts[f.id] >= 3 THEN [f EXCEPT !.approved = TRUE] ELSE f

Forced(counts, f) ==
    IF counts[f.id] >= 2 THEN [f EXCEPT !.approved = TRUE] ELSE f

\* Fault: the loop stops as soon as one rejection is a repeated one.
ExamineStopsEarly ==
    /\ pc = "rounds" /\ round < MaxRetries
    /\ rejections' = Counted
    /\ feedbacks' = [i \in DOMAIN feedbacks |-> Forced(Counted, feedbacks[i])]
    /\ pc' = IF \E i \in RejectedAt(feedbacks) : rejections[feedbacks[i].id] > 0
                \/ ~Actionable THEN "synthesise" ELSE "retry"
    /\ UNCHANGED <<fixed, misses, plan, round, aligned, meter, result,
                   agent, files>>

\* The body of the round before retry_rejected().
Examine ==
    /\ pc = "rounds" /\ round < MaxRetries
    /\ rejections' = Counted
    /\ feedbacks' = [i \in DOMAIN feedbacks |-> Forced(Counted, feedbacks[i])]
    /\ pc' = IF Actionable THEN "retry" ELSE "synthesise"
    /\ UNCHANGED <<fixed, misses, plan, round, aligned, meter, result,
                   agent, files>>

RoundsExhausted ==
    /\ pc = "rounds" /\ round >= MaxRetries
    /\ pc' = "synthesise"
    /\ UNCHANGED <<fixed, misses, plan, loop, meter, result, agent, files>>

\* Feedbacks are taken as positions of the plan: `tasks[idx]`.
Overrun == \E i \in RejectedAt(feedbacks) : i > Len(tasks)

\* Fault: reports[fi] for reports[rejected[fi]].
RetryPacked ==
    /\ pc = "retry" /\ ~Overrun
    /\ LET rejected == SetToSortSeq(RejectedAt(feedbacks), <) IN
       /\ reports' = [i \in DOMAIN reports |->
                        IF i \in DOMAIN rejected
                        THEN [id |-> tasks[rejected[i]].id, try |-> reports[i].try + 1]
                        ELSE reports[i]]
    /\ executions' = [i \in DOMAIN executions |->
                    IF i \in RejectedAt(feedbacks) THEN executions[i] + 1 ELSE executions[i]]
    /\ round' = round + 1
    /\ pc' = IF RejectedAt(feedbacks) = {} THEN "rounds" ELSE "review"
    /\ UNCHANGED <<fixed, misses, tasks, feedbacks, rejections, aligned, meter,
                   result, agent, files>>

\* retry_rejected() up to its review; without a rejected feedback it returns
\* and no review is made.  A factory that throws leaves a Failed report.
Retry ==
    /\ pc = "retry" /\ ~Overrun
    /\ LET again == RejectedAt(feedbacks) IN
       /\ reports' = [i \in DOMAIN reports |->
                        IF i \in again
                        THEN [id |-> tasks[i].id, try |-> reports[i].try + 1]
                        ELSE reports[i]]
       /\ executions' = [i \in DOMAIN executions |-> IF i \in again THEN executions[i] + 1 ELSE executions[i]]
       /\ pc' = IF again = {} THEN "rounds" ELSE "review"
    /\ round' = round + 1
    /\ UNCHANGED <<fixed, misses, tasks, feedbacks, rejections, aligned, meter,
                   result, agent, files>>

\* An index beyond the plan: the read of tasks[idx] is undefined behaviour
\* and the program has no defined continuation.
RetryOverruns ==
    /\ pc = "retry" /\ Overrun
    /\ pc' = "undefined"
    /\ UNCHANGED <<fixed, misses, plan, loop, meter, result, agent, files>>

Synthesise ==
    /\ pc = "synthesise"
    /\ \/ /\ OverBudget
          /\ Complete("budget", meter, reports)
          /\ Save("result.json")
       \/ /\ ~OverBudget
          /\ Complete("synthesised", meter + 1, reports)
          /\ Save("result.json")
       \/ /\ ~OverBudget
          /\ Unanswered
          /\ pc' = "failed" /\ Becomes("Failed")
          /\ result' = [result EXCEPT !.status = "Failed", !.reports = reports]
          /\ UNCHANGED files
    /\ UNCHANGED <<fixed, misses, plan, loop>>

-----------------------------------------------------------------------------
Steps ==
    \/ Classify \/ AnswerDirectly \/ DispatchSingle \/ AnswerSingle
    \/ PlanByRule \/ Decompose \/ DecomposeUnparsed \/ DecomposeThrows
    \/ Dispatch \/ Review \/ Examine \/ RoundsExhausted
    \/ Retry \/ RetryOverruns \/ Synthesise

Next == (\E r \in Requests : Start(r)) \/ Steps

Spec == Init /\ [][Next]_vars

-----------------------------------------------------------------------------
(* Properties.                                                              *)

\* The report at a position is the report of the subtask at that position and
\* of its latest execution, however often and in whatever set subtasks were
\* re-issued: review() and synthesise() pair them by position.
ReportsInPlace ==
    /\ DOMAIN reports = DOMAIN executions
    /\ \A i \in DOMAIN reports :
          i \in DOMAIN tasks /\ reports[i] = [id |-> tasks[i].id, try |-> executions[i]]

\* "Same subtask has been rejected 2+ times -> force approve": as long as the
\* reviews list the plan in its order, one run executes no subtask more than
\* twice, whatever is rejected in whatever round.
RunTwiceAtMost == aligned => \A i \in DOMAIN executions : executions[i] <= 2

\* A rejection that stands when the answer is written was made by the review
\* after the last round; in every earlier round a rejected subtask was re-run
\* or approved by force.
RejectionsSettled ==
    pc = "synthesise" => (RejectedAt(feedbacks) = {} \/ round = MaxRetries)
=============================================================================
