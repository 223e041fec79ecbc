---------------------------- MODULE Supervision ----------------------------
(***************************************************************************)
(* One run of SupervisorAgent::run as main.cpp sets it up: the retry loop  *)
(* of the quality gate on the main thread, around DirectorAgent::run; the  *)
(* monitor thread, which polls the agents' state machines and cancels a    *)
(* stuck one; the MessageBus between them; and the shutdown watcher.       *)
(*                                                                         *)
(* Every agent has its own StateMachine, and all agents of a run share ONE *)
(* cancel flag (main.cpp makes one pair of flags per run and registers it  *)
(* for every agent).  pause_agent() and resume_agent() have no caller, so  *)
(* nobody is ever paused.                                                  *)
(*                                                                         *)
(* Time is counted in polls of the monitor: age[a] is the number of polls  *)
(* since the last transition of a, and stuck_timeout expires between the   *)
(* polls StuckAfter - 1 and StuckAfter.  The order in which the monitor    *)
(* treats the agents is that of an unordered_map: any.                     *)
(*                                                                         *)
(* Of the bus the model keeps which inboxes exist and what is in that of   *)
(* the Supervisor.  A correction in the inbox of a Worker only extends its *)
(* next prompt, the Director never reads its inbox, and the other messages *)
(* are only logged.                                                        *)
(***************************************************************************)
EXTENDS Naturals

CONSTANTS
    Workers,        \* the WorkerAgents
    Director,       \* "dir-001"
    Sup,            \* "sup-001"
    StuckAfter,     \* the first poll that finds an agent idle for stuck_timeout
    MaxRetries,     \* SupervisorAgent::max_retries_
    HasAdvisor,     \* cfg.supervisor_advisor_enabled
    LLMRetries,     \* WorkerAgent::max_retries_
    TaskBound,      \* bound: tasks that one Worker is given during the run
    Inboxes         \* bound: the agents whose inbox is kept; no other is

Agents == Workers \cup {Director}

\* stuck_timeout is at least the poll interval (300 s and 5 s by default).
ASSUME StuckAssumption == StuckAfter \in Nat /\ StuckAfter >= 2
ASSUME NamesAssumption == Director # Sup /\ {Director, Sup} \cap Workers = {}
ASSUME BoundsAssumption == MaxRetries \in Nat /\ LLMRetries \in Nat /\ TaskBound \in Nat
ASSUME AdvisorAssumption == HasAdvisor \in BOOLEAN

MaxAge == StuckAfter + 3    \* bound: ages are not counted any further

VARIABLES
    sm,         \* StateMachine::state() of each agent
    age,        \* polls since its last transition, while it is Running
    cancelled,  \* the shared cancel flag
    mail,       \* the events in the inbox of the Supervisor: <<from, type>>
    boxes,      \* the inboxes that exist
    worker,     \* where execute() of each Worker is
    tries,      \* attempt, in the loop over LLM calls
    given,      \* how many tasks each Worker has been given
    dir,        \* where DirectorAgent::run is
    sup,        \* where SupervisorAgent::run is: [at, attempt]
    result,     \* what the Director returned, and what the gate made of it
    failures,   \* error_history_.size()
    goal,       \* what was added to the user's goal for this attempt
    mon,        \* the monitor thread
    todo,       \* the agents it has still to treat in this poll
    snap,       \* its snapshot: the age of each agent that was Running, or 0
    count,      \* stuck_counts
    main,       \* the main thread around SupervisorAgent::run
    watcher     \* the shutdown watcher of the run

smVars == <<sm, age>>
busVars == <<mail, boxes>>
workerVars == <<worker, tries, given>>
supVars == <<sup, result, failures, goal>>
monVars == <<mon, todo, snap, count>>
mainVars == <<main, watcher>>
vars == <<smVars, cancelled, busVars, workerVars, dir, supVars, monVars, mainVars>>

Init ==
    /\ sm = [a \in Agents |-> "Idle"]
    /\ age = [a \in Agents |-> 0]
    /\ cancelled = FALSE
    /\ mail = {} /\ boxes = {}
    /\ worker = [w \in Workers |-> "free"]
    /\ tries = [w \in Workers |-> 0]
    /\ given = [w \in Workers |-> 0]
    /\ dir = "out"
    /\ sup = [at |-> "start", attempt |-> 0]
    /\ result = "none"
    /\ failures = 0 /\ goal = "nothing"
    /\ mon = "off" /\ todo = {}
    /\ snap = [a \in Agents |-> 0]
    /\ count = [a \in Agents |-> 0]
    /\ main = "supervising"
    /\ watcher = "watching"

-----------------------------------------------------------------------------
(* StateMachine::transition and MessageBus                                 *)

Terminal == {"Done", "Cancelled"}

Transition(a, next) ==
    IF sm[a] \in Terminal
    THEN UNCHANGED smVars
    ELSE sm' = [sm EXCEPT ![a] = next] /\ age' = [age EXCEPT ![a] = 0]

Broadcast(from, type) ==
    /\ mail' = IF Sup \in boxes THEN mail \cup {<<from, type>>} ELSE mail
    /\ boxes' = boxes

\* inject_correction(): send() creates the inbox of the recipient.
Correct(to) == boxes' = boxes \cup ({to} \cap Inboxes) /\ mail' = mail

-----------------------------------------------------------------------------
(* WorkerAgent::execute, called while the Director dispatches              *)

WorkerStep == UNCHANGED <<cancelled, dir, supVars, monVars, mainVars>>

\* The end of execute(), with the state machine's last transition.
Return(w, state) ==
    /\ worker' = [worker EXCEPT ![w] = "free"]
    /\ tries' = [tries EXCEPT ![w] = 0]
    /\ given' = given
    /\ Transition(w, state)
    /\ WorkerStep

Goto(w, place) ==
    /\ worker' = [worker EXCEPT ![w] = place]
    /\ UNCHANGED given
    /\ WorkerStep

Start(w) ==
    /\ dir \in {"single", "dispatching", "retrying"}
    /\ worker[w] = "free" /\ given[w] < TaskBound
    /\ given' = [given EXCEPT ![w] = @ + 1]
    /\ worker' = [worker EXCEPT ![w] = "starting"]
    /\ Transition(w, "Running")
    /\ UNCHANGED <<busVars, tries>> /\ WorkerStep

\* check_control() before any work.
StartCancelled(w) ==
    /\ worker[w] = "starting" /\ cancelled
    /\ Return(w, "Cancelled") /\ UNCHANGED busVars

StartWork(w) ==
    /\ worker[w] = "starting" /\ ~cancelled
    /\ Goto(w, "tool") /\ UNCHANGED <<busVars, tries, smVars>>

\* The fast path: no LLM needed.  An output that mentions "failed:" takes it
\* too, although it is announced as a failure.
ToolSucceeds(w) ==
    /\ worker[w] = "tool"
    /\ Return(w, "Done")
    /\ UNCHANGED busVars \/ Broadcast(w, "ToolFailed")

ToolFails(w) ==
    /\ worker[w] = "tool"
    /\ Broadcast(w, "ToolFailed")
    /\ Goto(w, "fixing") /\ UNCHANGED <<tries, smVars>>

\* A tool that is not available: a failure that is not announced.
ToolIsMissing(w) ==
    /\ worker[w] = "tool"
    /\ Goto(w, "fixing") /\ UNCHANGED <<busVars, tries, smVars>>

\* A self-fix succeeds and execute() returns.  The state machine is not told.
SelfFix(w) ==
    /\ worker[w] = "fixing"
    /\ Goto(w, "free") /\ UNCHANGED <<busVars, tries, smVars>>

\* No fix is known or the fixes have failed too; or there is no tool, no output,
\* or an error the self-fix does not look for.
AskLLM(w) ==
    /\ worker[w] \in {"tool", "fixing"}
    /\ Goto(w, "ready")
    /\ Transition(w, "Running")
    /\ UNCHANGED <<busVars, tries>>

\* The head of the loop: check_control() before each attempt.
LLMCancelled(w) ==
    /\ worker[w] = "ready" /\ tries[w] <= LLMRetries /\ cancelled
    /\ Return(w, "Cancelled") /\ UNCHANGED busVars

\* The corrections are drained and the LLM is called.
LLMCall(w) ==
    /\ worker[w] = "ready" /\ tries[w] <= LLMRetries /\ ~cancelled
    /\ Goto(w, "calling") /\ UNCHANGED <<busVars, tries, smVars>>

\* An answer that came late is announced.
MaybeSlow(w) == UNCHANGED busVars \/ Broadcast(w, "SlowWarning")

\* An answer that can be parsed, or the LLM gives up.
LLMAnswers(w) ==
    /\ worker[w] = "calling"
    /\ Return(w, "Done") /\ MaybeSlow(w)

\* An answer that cannot be parsed or that asks for another tool, which is a
\* transition; or an AgentException, which is none.
LLMTriesAgain(w) ==
    /\ worker[w] = "calling"
    /\ Goto(w, "ready")
    /\ tries' = [tries EXCEPT ![w] = @ + 1]
    /\ \/ Transition(w, "Running") /\ MaybeSlow(w)
       \/ UNCHANGED <<smVars, busVars>>

\* A ModelException in the call, or an AgentException in the last attempt.
LLMFails(w) ==
    /\ worker[w] = "calling"
    /\ Return(w, "Failed") /\ UNCHANGED busVars

NoAttemptLeft(w) ==
    /\ worker[w] = "ready" /\ tries[w] > LLMRetries
    /\ Return(w, "Failed") /\ UNCHANGED busVars

\* What a tool or a call is waited for.
CallReturns(w) == ToolSucceeds(w) \/ ToolFails(w) \/ ToolIsMissing(w) \/ SelfFix(w)
                  \/ AskLLM(w) \/ LLMAnswers(w) \/ LLMTriesAgain(w) \/ LLMFails(w)

\* What the Worker does by itself.
Moves(w) == StartCancelled(w) \/ StartWork(w) \/ LLMCancelled(w) \/ LLMCall(w)
            \/ NoAttemptLeft(w)

-----------------------------------------------------------------------------
(* DirectorAgent::run                                                      *)

DirStep == UNCHANGED <<cancelled, busVars, workerVars, monVars, mainVars>>

\* The Director returns to SupervisorAgent::run, which will judge the result.
DirReturns(state, outcome) ==
    /\ dir' = "out"
    /\ Transition(Director, state)
    /\ result' = outcome
    /\ sup' = [sup EXCEPT !.at = "judging"]
    /\ UNCHANGED <<failures, goal>> /\ DirStep

\* The answer may be empty and every subtask may have failed ("hollow").
DirFinishes == \E outcome \in {"sound", "hollow"} : DirReturns("Done", outcome)

DirThrows ==
    /\ dir \in {"decomposing", "planning", "reviewing", "reviewing again", "synthesising"}
    /\ DirReturns("Failed", "failed")

DirAnswersDirectly == dir = "decomposing" /\ DirFinishes
DirSynthesises == dir = "synthesising" /\ DirFinishes

DirGoes(from, to) ==
    /\ dir = from
    /\ dir' = to
    /\ Transition(Director, "Running")
    /\ UNCHANGED supVars /\ DirStep

AllFree == \A w \in Workers : worker[w] = "free"

\* A request for one tool is dispatched as it is, without a transition, and what
\* fails is planned.
DirTriesOne ==
    /\ \/ dir = "decomposing" /\ dir' = "single"
       \/ dir = "single" /\ AllFree /\ dir' = "planning"
    /\ UNCHANGED <<smVars, supVars>> /\ DirStep

DirAnswersWithOne == dir = "single" /\ AllFree /\ DirFinishes

DirDispatches == \E from \in {"decomposing", "planning"} : DirGoes(from, "dispatching")
DirReviews == AllFree /\ DirGoes("dispatching", "reviewing")

\* retry_rejected() dispatches once more and does not touch the state machine.
\* Bound: one round (max_subtask_retries = 1).
DirRetries ==
    /\ \/ dir = "reviewing" /\ dir' = "retrying"
       \/ dir = "retrying" /\ AllFree /\ dir' = "reviewing again"
    /\ UNCHANGED <<smVars, supVars>> /\ DirStep

DirApproves == \E from \in {"reviewing", "reviewing again"} : DirGoes(from, "synthesising")

\* A dispatch may hang with a Worker's call; the rest are calls that return.
DirProceeds == DirAnswersDirectly \/ DirTriesOne \/ DirAnswersWithOne \/ DirThrows
               \/ DirDispatches \/ DirReviews \/ DirRetries \/ DirApproves \/ DirSynthesises

-----------------------------------------------------------------------------
(* SupervisorAgent::run                                                    *)

SupStep == UNCHANGED <<cancelled, busVars, workerVars, mainVars>>

SupStart ==
    /\ sup.at = "start"
    /\ sup' = [sup EXCEPT !.at = "attempt"]
    /\ mon' = "sleeping"
    /\ UNCHANGED <<smVars, dir, result, failures, goal, todo, snap, count>> /\ SupStep

AdvisorThreshold == 1   \* kAdvisorThreshold

\* AdvisorAgent::advise(): an analysis also when the call fails, with a goal that
\* may be rewritten (not told apart).  Its should_retry is read by nobody.
Advise == "analysis"

\* consult_advisor(): always from the user's goal and the whole history.
ConsultAdvisor == IF HasAdvisor THEN Advise ELSE "last failure"

\* A retry; without a history it would only get result.error, if any.
RefinedGoals ==
    IF failures >= AdvisorThreshold THEN {ConsultAdvisor} ELSE {"nothing", "error"}

\* result = director_.run(current_goal): the last result is not read again.
SupAttempt ==
    /\ sup.at = "attempt" /\ dir = "out"
    /\ goal' \in IF sup.attempt = 0 THEN {"nothing"} ELSE RefinedGoals
    /\ dir' = "decomposing"
    /\ result' = "none"
    /\ Transition(Director, "Running")
    /\ UNCHANGED <<sup, failures, monVars>> /\ SupStep

\* detect_structural_issues(): of a result that is Done.
StructuralIssue == result = "hollow"

\* evaluate(): what the LLM answers; when the call fails or its answer cannot be
\* read, a result without a structural issue passes.
Verdicts == BOOLEAN

Approve ==
    /\ result' = "approved"
    /\ sup' = [sup EXCEPT !.at = "stop"]
    /\ UNCHANGED failures

\* The next attempt while there is one; after the last, the result is returned
\* as it is ("best effort").
Reject ==
    /\ sup' = IF sup.attempt < MaxRetries
              THEN [at |-> "attempt", attempt |-> sup.attempt + 1]
              ELSE [sup EXCEPT !.at = "stop"]
    /\ UNCHANGED result

\* Fault: a structural issue is not recorded.
SupJudgeUnrecorded ==
    /\ sup.at = "judging"
    /\ \/ StructuralIssue /\ Reject /\ UNCHANGED failures
       \/ result = "failed" /\ Reject /\ failures' = failures + 1
       \/ /\ result = "sound"
          /\ \E satisfied \in Verdicts :
                IF satisfied THEN Approve ELSE Reject /\ failures' = failures + 1
    /\ UNCHANGED <<goal, smVars, dir, monVars>> /\ SupStep

\* A structural issue, a failure and a verdict that is not satisfied.
SupJudge ==
    /\ sup.at = "judging"
    /\ \/ StructuralIssue /\ Reject /\ failures' = failures + 1
       \/ result = "failed" /\ Reject /\ failures' = failures + 1
       \/ /\ result = "sound"
          /\ \E satisfied \in Verdicts :
                IF satisfied THEN Approve ELSE Reject /\ failures' = failures + 1
    /\ UNCHANGED <<goal, smVars, dir, monVars>> /\ SupStep

\* stop_monitor_ is set (at = "stop"), the monitor thread is joined.
SupReturns ==
    /\ sup.at = "stop" /\ mon = "off"
    /\ sup' = [sup EXCEPT !.at = "returned"]
    /\ UNCHANGED <<smVars, dir, result, failures, goal, monVars>> /\ SupStep

-----------------------------------------------------------------------------
(* The monitor thread                                                      *)

MonStep == UNCHANGED <<workerVars, dir, supVars, mainVars>>

MonStops ==
    /\ mon = "sleeping" /\ sup.at = "stop"
    /\ mon' = "off"
    /\ UNCHANGED <<smVars, cancelled, busVars, todo, snap, count>> /\ MonStep

Older(n) == IF n < MaxAge THEN n + 1 ELSE n

\* The thread wakes up and takes its snapshot.
MonPolls ==
    /\ mon = "sleeping" /\ sup.at # "stop"
    /\ age' = [a \in Agents |-> IF sm[a] = "Running" THEN Older(age[a]) ELSE 0]
    /\ snap' = age'
    /\ todo' = Agents
    /\ mon' = "treating"
    /\ UNCHANGED <<sm, cancelled, busVars, count>> /\ MonStep

\* Fault: a timeout in milliseconds is taken for one in seconds, and does not expire.
StuckMuchLater(a) == snap[a] >= 1000 * StuckAfter

Stuck(a) == snap[a] >= StuckAfter

\* handle_high_fail_rate(): a correction to an agent that was Running and has
\* failed too often.
MaySend(a) == UNCHANGED busVars \/ (snap[a] > 0 /\ Correct(a))

\* cancel_agent(): the shared flag, and the state machine of this agent.
CancelAgent(a) ==
    /\ cancelled' = TRUE
    /\ Transition(a, "Cancelled")

\* handle_stuck_agent(): corrections at the first and the third detection, and
\* cancellation at the fourth.
HandleStuck(a) ==
    LET n == IF count[a] < 4 THEN count[a] + 1 ELSE 4 IN
    /\ count' = [count EXCEPT ![a] = n]
    /\ \/ n \in {1, 3} /\ Correct(a) /\ UNCHANGED <<smVars, cancelled>>
       \/ n = 2 /\ MaySend(a) /\ UNCHANGED <<smVars, cancelled>>
       \/ n = 4 /\ CancelAgent(a) /\ MaySend(a)

\* Fault: the counter is not reset when the agent shows activity.
TreatNoReset(a) ==
    /\ mon = "treating" /\ a \in todo
    /\ todo' = todo \ {a}
    /\ \/ Stuck(a) /\ HandleStuck(a)
       \/ /\ ~Stuck(a) /\ count' = count
          /\ MaySend(a) /\ UNCHANGED <<smVars, cancelled>>
    /\ snap' = [snap EXCEPT ![a] = 0]
    /\ UNCHANGED mon /\ MonStep

\* One agent of the snapshot, which may be out of date by now.  The counter of
\* an agent that was not Running stays as it is.
Treat(a) ==
    /\ mon = "treating" /\ a \in todo
    /\ todo' = todo \ {a}
    /\ \/ Stuck(a) /\ HandleStuck(a)
       \/ /\ ~Stuck(a)
          /\ count' = IF snap[a] > 0 THEN [count EXCEPT ![a] = 0] ELSE count
          /\ MaySend(a) /\ UNCHANGED <<smVars, cancelled>>
    /\ snap' = [snap EXCEPT ![a] = 0]
    /\ UNCHANGED mon /\ MonStep

\* The Supervisor's own inbox is drained: a Worker whose tool failed
\* or whose LLM is slow gets a hint.
MonDrains ==
    /\ mon = "treating" /\ todo = {}
    /\ mail' = {}
    /\ boxes' = boxes \cup ({event[1] : event \in mail} \cap Inboxes)
    /\ mon' = "sleeping"
    /\ UNCHANGED <<smVars, cancelled, todo, snap, count>> /\ MonStep

Monitor == MonStops \/ MonPolls \/ (\E a \in Agents : Treat(a)) \/ MonDrains

-----------------------------------------------------------------------------
(* main.cpp: the shutdown watcher, and the end of the run                  *)

MainStep == UNCHANGED <<smVars, busVars, workerVars, dir, supVars, monVars>>

\* SIGINT or SIGTERM has been seen.
WatcherCancels ==
    /\ watcher = "watching"
    /\ cancelled' = TRUE
    /\ UNCHANGED mainVars /\ MainStep

WatcherExits ==
    /\ watcher = "watching" /\ cancelled
    /\ watcher' = "gone"
    /\ UNCHANGED <<cancelled, main>> /\ MainStep

\* Fault: the watcher is joined without the flag it waits for.
MainStopsQuietly ==
    /\ main = "supervising" /\ sup.at = "returned"
    /\ cancelled' = cancelled
    /\ main' = "joining"
    /\ UNCHANGED watcher /\ MainStep

MainStopsWatcher ==
    /\ main = "supervising" /\ sup.at = "returned"
    /\ cancelled' = TRUE
    /\ main' = "joining"
    /\ UNCHANGED watcher /\ MainStep

\* Fault: the flag is reset without waiting for the watcher.
MainResetsEarly ==
    /\ main = "joining"
    /\ cancelled' = FALSE
    /\ main' = "prompt"
    /\ UNCHANGED watcher /\ MainStep

MainResets ==
    /\ main = "joining" /\ watcher = "gone"
    /\ cancelled' = FALSE
    /\ main' = "prompt"
    /\ UNCHANGED watcher /\ MainStep

Supervisor == SupStart \/ SupAttempt \/ SupJudge \/ SupReturns
Session == WatcherExits \/ MainStopsWatcher \/ MainResets

Next ==
    \/ Supervisor
    \/ DirProceeds
    \/ \E w \in Workers : Start(w) \/ Moves(w) \/ CallReturns(w)
    \/ Monitor
    \/ Session
    \/ WatcherCancels

Spec == Init /\ [][Next]_vars

\* The Supervisor's loop and the Director's run() are calls of the main thread,
\* which is in one of them at a time.
MainThread == Supervisor \/ DirProceeds \/ MainStopsWatcher \/ MainResets

\* Every thread that can move does.  A tool or an LLM call need not return, the
\* Managers need not give a Worker anything to do, and nobody need interrupt.
Fairness ==
    /\ WF_vars(MainThread) /\ WF_vars(Monitor) /\ WF_vars(WatcherExits)
    /\ \A w \in Workers : WF_vars(Moves(w))

FairSpec == Spec /\ Fairness

-----------------------------------------------------------------------------
TypeOK ==
    /\ sm \in [Agents -> {"Idle", "Running", "Done", "Failed", "Cancelled"}]
    /\ age \in [Agents -> 0..MaxAge]
    /\ cancelled \in BOOLEAN
    /\ boxes \subseteq Agents \cup {Sup}
    /\ mail \subseteq (Workers \X {"ToolFailed", "SlowWarning"})
    /\ mail # {} => Sup \in boxes
    /\ worker \in [Workers -> {"free", "starting", "tool", "fixing", "ready", "calling"}]
    /\ tries \in [Workers -> 0..LLMRetries + 1]
    /\ given \in [Workers -> 0..TaskBound]
    /\ dir \in {"out", "decomposing", "single", "planning", "dispatching", "reviewing", "retrying",
                "reviewing again", "synthesising"}
    /\ sup \in [at : {"start", "attempt", "judging", "stop", "returned"},
                attempt : 0..MaxRetries]
    /\ result \in {"none", "sound", "hollow", "failed", "approved"}
    /\ failures \in 0..MaxRetries + 1
    /\ goal \in {"nothing", "error", "analysis", "last failure"}
    /\ mon \in {"off", "sleeping", "treating"}
    /\ todo \subseteq Agents
    /\ snap \in [Agents -> 0..MaxAge]
    /\ count \in [Agents -> 0..4]
    /\ main \in {"supervising", "joining", "prompt"}
    /\ watcher \in {"watching", "gone"}

\* supervisor_agent.cpp: "4+ detections without progress: cancel".  When the
\* monitor comes to cancel an agent, that agent has gone without a transition
\* through stuck_timeout and three more polls, whatever it did before and
\* however stale the counter was.  (It may have moved since the snapshot.)
NoHastyCancel ==
    [][\A a \in Agents : count'[a] = 4 /\ count[a] < 4 => snap[a] >= StuckAfter + 3]_vars

Hung == dir # "out" /\ \E a \in Agents : age[a] = MaxAge

\* The cancel flag of a hung run is set: an agent that stays Running without a
\* transition while the Director is at work, a Worker in a call that never
\* returns or the Director waiting for it, is noticed by the monitor.
HangIsCancelled == Hung ~> cancelled \/ ~Hung

\* The user gets the prompt back whenever the calls of the Workers return: the
\* retry loop ends, and neither the monitor nor the watcher is waited for in
\* vain.
RunReturns ==
    (\A w \in Workers : WF_vars(CallReturns(w))) => <>(main = "prompt")

\* No retry is blind: whatever was wrong with the earlier attempts, an exception
\* in the Director, a structural issue or a verdict, each of them is in the
\* history that the goal of this attempt was made from.
EveryFailureIsHeard ==
    dir # "out" /\ sup.attempt > 0 =>
        failures >= sup.attempt /\ goal = ConsultAdvisor

\* The watcher, which may set the flag at any moment, is gone before the flag is
\* reset for the next run.
PromptIsClean == main = "prompt" => ~cancelled

\* agent_state.hpp: Running means "actively executing".  The monitor takes a
\* Worker in this state that does not move for stuck, and cancels the run.
RunningMeansExecuting ==
    \A w \in Workers : sm[w] = "Running" => worker[w] # "free"

\* worker_agent.cpp: "Broadcast ToolFailed immediately when tool errors out";
\* supervisor_agent.cpp drains its inbox for it, "event-driven immediate
\* responses".
ToolFailureReachesSupervisor ==
    [][\A w \in Workers : ToolFails(w) => <<w, "ToolFailed">> \in mail']_vars
=============================================================================
