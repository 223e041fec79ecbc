# Verification of three-layer-agent

TLA+ models of this C++ program, the TLC runs that check them on small
instances, and proofs that TLAPS checks for every instance. PROJECT.json lists
the components, maps every definition to the lines it models, and gives the
hazards, each at its line and with the properties that cover it.

## 1. The system

One process. The main thread reads a line and gives a goal to the
**Supervisor**, which calls the **Director**, which splits the goal into subtasks
for **Managers**, which split a subtask into atomic tasks for **Workers**. All
Managers and all Workers run as tasks of one **thread pool**. Besides the pool's
threads there are, during a run, the Supervisor's **monitor** thread, the
**shutdown watcher** and a progress printer, and, for the whole session, the
**health server**'s thread. Everybody asks the model over HTTP.

| Component | Source | State | Operations | Talks to |
|---|---|---|---|---|
| Thread pool | `include/utils/thread_pool.hpp` | queue, stop flag, threads | submit, worker loop, destructor | Director, Managers |
| Manager pool | `src/agent/manager_pool.cpp` | entries (Manager, type, in use) | acquire, release | Director and, at the end of a Manager's task, pool threads |
| Director | `src/agent/director_agent.cpp` | tasks, reports, feedbacks, rejection counts | run, dispatch_managers, review, retry_rejected, synthesise | pool, Manager pool, LLM |
| Manager | `src/agent/manager_agent.cpp` | atomic tasks, results, done | process, decompose, dispatch, retry_atomic, validate | pool, Workers, LLM |
| Worker | `src/agent/worker_agent.cpp` | attempts, ReAct steps, tool output | execute | tools, LLM, bus, reflection |
| Supervisor, Advisor | `src/agent/{supervisor,advisor}_agent.cpp` | registry, stuck counters, error history | run, monitor_loop, cancel_agent, advise | Director, state machines, flags, bus |
| Agent state machine | `include/agent/agent_state.hpp` | state, time of the last event | transition, snapshot | its agent, Supervisor, state file |
| Message bus | `src/utils/message_bus.cpp` | inboxes | send, broadcast, receive | all agents |
| State file | `src/utils/{workspace,file_lock}.cpp` | `state.md`, its lock | init, write_state | all agents, those of another process in the same conversation |
| Session | `src/main.cpp`, `src/utils/memory_store.cpp` | history, memory, `MEMORY.md`, flags | run loop, /new, /switch, reload | everything |
| Command line | `src/cli/*`, `src/main.cpp` | settings, pending goal | read a line, execute a command | Session |
| Configuration | `src/agent/models.cpp`, `src/setup.cpp` | config.json, the live record | load, save, validate, wizard, SIGHUP | Session, Workers |
| API client | `src/agent/api_client.cpp` | buffers of one exchange | complete, post_with_retry, stream | server |
| Resilience | `src/agent/{circuit_breaker,retry_policy,worker_executor}.cpp` | breaker | allow, record, execute_with_retry | API client |
| Tools | `src/agent/{tool_registry,tool_cache}.cpp`, `src/utils/tool_set.cpp` | tools, LRU cache, files, dynamic tools | invoke, get, put | Workers, file system |
| Learning | `src/agent/reflection.cpp`, `include/utils/tfidf.hpp` | index, experience records | record_success, record_failure | Workers, memory |
| Health server | `include/utils/health_server.hpp` | socket, running flag | start, serve, stop | HTTP clients |

What is hard here:

- *Concurrency.* Managers block a pool thread while they wait for tasks of the
  same pool; Manager, Worker, cache and client objects are shared; condition
  variable, notify outside the lock, destructor against running submitters; a
  file lock that belongs to the process, not to the thread.
- *Failure and retry.* Failed atomic tasks are retried on the Manager's thread,
  rejected subtasks in rounds, whole runs by the quality gate, HTTP requests by
  the client and again by the executor; `acquire()` and the LLM throw at any point.
- *Cancellation.* One flag is shared by all agents and is set by the watcher, by
  the monitor and by main itself.
- *Time.* A polling monitor acts on snapshots; the state it needs is only
  refreshed by transitions, and some of them are refused or missing. File times
  have whole seconds, the breaker has a clock.
- *Delivery.* A broadcast reaches the inboxes that happen to exist; a stream is
  cut into pieces that no event respects.
- *Persistence.* Memory, configuration and dynamic tools survive a process that
  may end between any two steps; a conversation is left and resumed.

What makes each part correct: the pool loses and repeats no task and drains
before it dies; a Manager belongs to one subtask; a dispatch returns a report for
each subtask, whatever is cancelled or throws; waves of atomic tasks respect
their order, run everything that can run, and are trusted without the LLM only
if all of it ran; reports stay with their subtasks through every retry round; an
agent is cancelled when, and only when, it has made no progress for the
configured time; a retry of the quality gate knows every earlier failure; a run
ends and leaves the flag clean; what is written is what is loaded.

## 2. Modules

| Module | Models |
|---|---|
| `WorkQueue` | what the pool promises: tasks run once, in order, by any free thread |
| `ThreadPool` | `thread_pool.hpp`: critical sections, condition variable, destructor; implements `WorkQueue` |
| `ManagerPool` | `acquire()` and `release()` |
| `AgentTree` | `dispatch_managers()` with everything below it, on `WorkQueue` and `ManagerPool` |
| `Supervision` | one `SupervisorAgent::run`: quality gate with its advisor, monitor, Workers' and Director's state machines, bus, watcher, main's flag |
| `DirectorRun` | `DirectorAgent::run()`, run again by the quality gate: route of a request, decompose retries, compaction, review, rounds of re-issues, budget |
| `WorkerTask` | `WorkerAgent::execute()`: pre-flights, peer cache, tool, fast path, self-fix, ReAct loop, cancel and pause |
| `ManagerTask` | `ManagerAgent::process()`: decompose, waves, retries, validation and its fast path; uses what `WorkerTask` can return |
| `StateFile` | `init()` for each goal, without the lock, and `write_state()` from the agents' transitions, under it; the same in a second process of the conversation, whose agents have the same ids |
| `HealthServer` | `start()`, `serve()` and `stop()` with socket and clients |
| `Session` | the conversation loop with memory, `MEMORY.md`, crash and restart |
| `CommandLine` | which line goes where, the commands that change settings, the end of the loop |
| `Config` | wizard, file, `from_json`, `to_json`, `validate`, reload |
| `ModelAccess` | circuit breaker and retry policy around the client's own retries |
| `HttpTransport` | one HTTP exchange, whole or streamed, piece by piece |
| `Tools` | registry, cache, the tools that change files or make tools, and the shell behind two of them, which may give a path any content and any time |
| `Learning` | experience records and the TF-IDF index behind them |
| `MC*` | constants of the TLC instances, and compositions of parts |
| `ThreadPoolProofs`, `ManagerPoolProofs`, `AgentTreeProofs`, `SupervisionProofs`, `DirectorRunProofs` | theorems about the module of that name |
| `SubtaskProofs` | theorems about `WorkerTask`, `ManagerTask` and `StateFile` |
| `SessionProofs` | theorems about `Session`, `CommandLine` and `Config` |
| `ServicesProofs` | theorems about `ModelAccess`, `HttpTransport`, `Tools` and `Learning` |

**How the modules fit.** `AgentTree` is built on `WorkQueue` (which `ThreadPool`
is shown to implement) and on `ManagerPool`; it knows a process() only as
decompose, waves and report. `ManagerTask` and `WorkerTask` are those two from
the inside: `ManagerTask` takes the result of an execution from
`WorkerOutcomes`, and `ReturnsAnOutcome` shows that `WorkerTask` returns nothing
else. `DirectorRun` has one step where `AgentTree` has a dispatch, and
`Supervision` has few steps where `DirectorRun` has many: it keeps the state
machine's transitions and the places that can throw. `Session` has one step for
a run of `Supervision`. `MCServices` and `MCSubtask` put modules side by side
that share no state in the code: a behaviour is about one of them (`focus`) and
the others rest in an initial state, so that the state space is the sum of
theirs and not the product. A behaviour of `MCServices` about the tools either
reads files or lists the directory (`LeftOut`: where files are read they are
removed by a shell), and is one for both orders of its
two callers (`SYMMETRY`: no action and no property names one of them).

**How state and actions map to the code.** One critical section, or one stretch
between two points where another thread can interfere, is one action.
`ThreadPool!Enqueue` is the block under the lock in `submit()`, and `NotifyOne`
the call after it; the variable `notifying` holds who is in between. A wait set
is the set of threads with `pc = "waiting"`. In `AgentTree` the tasks of the pool
are pairs: `<<m, 0>>` runs `process()` of subtask m, `<<m, a>>` executes its
atomic task a; a Manager's steps are enabled only on the thread that runs
its lambda (`RunsOn`). `collected` is the vector `done`. In `Supervision` time is
counted in polls of the monitor: `age` is `now - last_event_ms` in polls,
`snap` the vector of snapshots, `count` the map `stuck_counts`, `failures` the
length of `error_history_`. The Director is seen by its transitions, on the route of
a planned request and on that of a single task, which makes none. In `DirectorRun` a report is the id of its subtask
and the number of the execution it is from. `WorkerTask` reduces a tool's output
to the error markers `execute()` looks for, and has the code's four
classifiers over them, which do not agree. `HttpTransport` cuts a response into
pieces of which a `read()` takes any number.

Operators whose comment begins with "Fault:" are mutations: plausible bugs of the
definition after them. They are not part of any specification; substituted for
that definition they make a property fail, which shows that the property has
teeth.

**Data.** An LLM, a person, a server or another process is a choice over the
outcomes the code tells apart. Texts, prompts, token accounting and logs are
left out.

## 3. Runs

| Run | Question | Instance |
|---|---|---|
| `thread_pool` | safety, liveness and refinement of the pool | 3 threads, 3 tasks, submitters the owner and every running task |
| `agent_tree` | nested dispatch with fewer subtasks than threads | 3 threads, 2 subtasks of different types, plans of zero, one and two waves, 1 retry, 1 pooled Manager |
| `supervision` | blind retries, stuck detection, cancellation, end of the run | 1 Worker with up to 2 tasks, the Director, stuck after 2 polls, 1 retry of the gate, with an advisor, 1 attempt at the LLM, of the inboxes only the Supervisor's |
| `subtask` | one `process()`, one `execute()`, the state file, the health server: what is skipped, retried, trusted, lost, and that each ends | 9 plans of up to 3 tasks, 1 atomic retry, 2 Worker retries, 2 pauses, 2 agents with 2 transitions in a goal and 1 agent of a second process, 3 clients |
| `services` | the Director's run and the services around it | see below |
| `agent_tree_saturated` | does cancellation end a dispatch when Managers fill the pool? violated | 2 threads, 2 subtasks |
| `supervision_idle` | is a Running Worker executing? violated | as `supervision`, 2 attempts, all inboxes |
| `supervision_bus` | do tool failures reach the Supervisor? violated | as `supervision`, 2 attempts, all inboxes |
| `subtask_fast_path` | does a fast result mean that its tool succeeded? violated | as `subtask` |
| `config_reload` | does a rejected reload keep the configuration? violated | as in `services` |
| `state_file_overlap` | does the state file keep every agent? violated | as `subtask`, without the second process |
| `tool_cache_race` | is the registry thread-safe? violated | as in `services`, with one tool, which only reads |

*Bounds of `services`.* Director: 3 requests (one per route), 5 plans (single,
two, a repeated id, two that are compacted), all reviews of up to two entries and
longer ones, 2 rounds, a budget of 3 calls, 2 runs of one
Director. Session: 2 conversations, 2 goals, 4 summaries. Config: 3 typed
numbers, 4 hand-written files, 2 edits, 1 wizard. Model access: 2 threads, 2
executor and 1 client retries, thresholds 3 and 2. Transport: 6 responses, 2
addresses. Tools: 2 callers, 1 file, 7 tools, a cache of 2, 2 seconds, 2 writes,
those of a shell included.
Learning: 2 Workers, 2 contexts, 2 terms, summaries
of up to 3 lines, 3 records. Command line: one line of
every kind and of every kind of error, 2 typed.

*Why these bounds are enough to be interesting.* Three threads and three tasks
admit a submitter on a pool thread, a waiter and a thread in between, which a
lost wakeup needs. Two subtasks on three threads leave one thread for atomic
tasks, the tightest case in which dispatch must return. One pooled Manager makes
the second `acquire()` transient or, in sequential mode, a reuse with another
type. `StuckAfter = 2` is the least value that lets a poll see an agent that has
just moved, and ages are counted to `StuckAfter + 3`, where the fourth detection
falls. The properties of `supervision` read no inbox and the monitor acts only on the
Supervisor's, so the others (`Inboxes`) are kept in the run about the bus. Three atomic tasks give a chain, a join, a cycle beside a task that can
run, a repeated and a missing id. Two rounds of review and a repeated id are what
forced approval counts. Thresholds of 3 and 2 with two threads let a late result
of one thread arrive in a state the other has made. A cache of two entries with
three keys evicts; two writes within one second, or a write and a shell that sets the time back,
leave a file whose time does not tell. Two agents and two transitions give two
writes at once, and with the one agent of the other process a write given up, an
entry overwritten, and a goal of either process that empties the file under the
other's agents. A summary of three lines
fills an entry by itself, and its successor then pushes out its first line. One
of the hand-written files has a negative token limit, which is read and not
written back.

*Deadlock checking* is on in `agent_tree`. It is off where the system may really
stop: in `thread_pool`, where a pool whose owner does nothing more waits for
ever; in `agent_tree_saturated`, whose subject is a deadlock; in the
`supervision` runs, where a call may hang; and in the others, where a single
task, exchange or process ends.

**Fairness.** Threads that can move do (weak fairness per thread; the
Supervisor's loop and the Director's `run()` are both the main thread). Tasks and LLM
calls return in `ThreadPool`, `AgentTree`, `ManagerTask` and `WorkerTask` (HTTP
requests and commands have timeouts). In `Supervision` a Worker's call need not
return; `RunReturns` assumes it where it needs it, `HangIsCancelled` is about the
opposite. Nobody is obliged to submit, cancel, pause, resume, connect, edit or
interrupt. `ExecuteEnds` therefore allows a Worker to be left paused, for ever
(`<>[]pause`): one that is resumed goes on and returns. `services`
has only safety properties and no fairness.

**What the violated runs show.**

1. `agent_tree_saturated`: when the Director dispatches as many parallel
   subtasks as the pool has threads (4 by default, and the prompt asks for 2 to
   4), every thread runs a Manager that blocks in `get()` for tasks no thread
   is left to take. Neither `get()` reads the cancel flag, so Ctrl+C, which
   main.cpp wires to that flag, does not end the run.
2. `supervision_idle`: a Worker whose self-fix succeeds returns without a
   transition and stays Running while idle; the monitor will take it for stuck
   and cancel the whole run.
3. `supervision_bus`: `ToolFailed` is broadcast to existing inboxes, and
   nothing ever creates the Supervisor's.
4. `subtask_fast_path`: the fast path takes for success every output without one
   of a list of phrases; a rejected placeholder path, a deletion the user
   refused and failures worded otherwise have none of them.
5. `config_reload`: fields go into the live configuration before the whole is
   validated, so a rejected file has changed what "keeping old config" keeps.
6. `state_file_overlap`: an fcntl lock does not exclude the threads of one
   process: two transitions read the same text and one entry is lost.
7. `tool_cache_race`: the registry calls its cache outside its mutex, and the
   cache has none.

More facts the models show and no property states: Done is terminal, so a Worker
in its second task is invisible to the monitor; a flag set for one stuck agent
cancels all and stays set through the remaining attempts; the advisor's
`should_retry` is read by nobody; a streamed answer is never retried and its
HTTP status is not looked at; a reload does not rebuild the clients; "keep last 3"
experiences (reflection.cpp:207 and 226) counts lines and drops one of them per
record, so that with summaries of several lines an entry grows, and after one of
three lines the outcome before the newest has lost its first line; a negative
`max_tokens_per_run`, written by hand, is dropped when the wizard saves.

## 4. Proofs

| Theorem | Statement |
|---|---|
| `ThreadPoolProofs!TypeCorrect` | `Spec => []TypeOK` |
| `ThreadPoolProofs!TaskHasOneHolder` | `Spec => []OneHolder` |
| `ThreadPoolProofs!WakeupsSuffice` | `Spec => []NoLostWakeup` |
| `ThreadPoolProofs!DestroyedPoolIsDrained` | `Spec => []DrainedWhenDestroyed` |
| `ThreadPoolProofs!PoolIsWorkQueue` | `Spec => Abstract!Spec`: the safety part of the refinement |
| `ManagerPoolProofs!ManagersAreExclusive` | `Spec => []ManagerExclusive` |
| `ManagerPoolProofs!NoManagerIsLost` | `Spec => []InUseMeansHeld` |
| `AgentTreeProofs!TypeCorrect` | `Spec => []TypeOK` |
| `AgentTreeProofs!ManagersAreExclusive` | `Spec => []ManagerExclusive` |
| `AgentTreeProofs!WorkersHaveAThread` | `Spec => []ThreadLeftForWorkers`, if `Count < Cardinality(Threads)` |
| `AgentTreeProofs!DispatchIsNeverStuck` | `Spec => []NeverStuck`, if `Count < Cardinality(Threads)` |
| `AgentTreeProofs!ReportsAreIn` | `Spec => []ReportsComplete` |
| `AgentTreeProofs!DispatchUsesQueue` | `Spec => Pool!Spec` (`WorkQueue`) |
| `AgentTreeProofs!DispatchUsesManagers` | `Spec => MP!Spec` (`ManagerPool`) |
| `AgentTreeProofs!AllManagersReturn` | `Spec => []NoManagerLeaked` |
| `AgentTreeProofs!WavesKeepOrder` | `Spec => []WavesInOrder` |
| `SupervisionProofs!TypeCorrect` | `Spec => []TypeOK` |
| `SupervisionProofs!NoBlindRetry` | `Spec => []EveryFailureIsHeard` |
| `SupervisionProofs!NextRunStartsClean` | `Spec => []PromptIsClean` |
| `SupervisionProofs!CancelIsPatient` | `Spec => NoHastyCancel` |
| `DirectorRunProofs!ReportsStayInPlace` | `Spec => []ReportsInPlace` |
| `DirectorRunProofs!NothingRunsThrice` | `Spec => []RunTwiceAtMost` |
| `DirectorRunProofs!RejectionsAreSettled` | `Spec => []RejectionsSettled` |
| `SubtaskProofs!ExecuteReturnsAnOutcome` | `WkSpec => []ReturnsAnOutcome` |
| `SubtaskProofs!AtMostOneLateCall` | `WkSpec => []OneLateCall` |
| `SubtaskProofs!WavesSuffice` | `MtSpec => []OnlyUnresolvableSkipped` |
| `SubtaskProofs!FailedIsExhausted` | `MtSpec => []FailedMeansExhausted` |
| `SubtaskProofs!TrustIsEarned` | `MtSpec => []TrustedOnlyIfAllRan` |
| `SubtaskProofs!SnapshotsAreKept` | `SfSpec => []LostForKnownReasons` |
| `SessionProofs!TurnsOfConversation` | `SeSpec => []HistoryOfConversation` |
| `SessionProofs!SummariesAreKept` | `SeSpec => []MemoryFileKeepsSummaries` |
| `SessionProofs!NoSecondGoal` | `ClSpec => []OneGoalOnly` |
| `SessionProofs!WizardIsHeeded` | `CfSpec => []WrittenIsLoaded` |
| `ServicesProofs!BreakerIsOnTime` | `MaSpec => []BreakerOnTime` |
| `ServicesProofs!BreakerClosesOnEvidence` | `MaSpec => ClosesOnEvidence` |
| `ServicesProofs!LossesHaveReasons` | `HtSpec => []LossesExplained` |
| `ServicesProofs!LruIsTheCache` | `ToSpec => []LruMatchesCache` |
| `ServicesProofs!StaleIsExplained` | `ToSpec => []StaleForKnownReasons` |
| `ServicesProofs!CountsCoverDocs` | `LrSpec => []DfCoversDocs` |
| `ServicesProofs!NewestAreKept` | `LrSpec => []NewestTwoKept` |

So every safety property that a passing run checks is a theorem; what the runs
check beyond them is liveness.

The assumptions are those of the modules, named where the constants are
declared: a finite set of threads (non-empty in `ThreadPool`), an owner that is
none of them, a value `NoTask` that is no task, at least one subtask, plans that are
sequences of pairwise disjoint sets of atomic tasks (a task of
`ManagerAgent::dispatch()` that has run is done), numbers of retries, a stuck timeout
no shorter than the poll interval, names that differ, positive thresholds,
a cache with room for a key, `.` not the name of a file, and responses as a server
sends them (`WellFormed`: one header, events of two halves with at most chunk
sizes between them, nothing after `[DONE]`). The
numbers of threads, tasks, subtasks, Workers, users, types, pooled Managers,
rounds, retries and the plans and reviews are arbitrary.

*Thread pool.* `NoLostWakeup` and `DrainedWhenDestroyed` are not inductive. The
invariant adds `Shutdown`: the flag and the destructor agree; a thread exits only
from an empty, stopped pool; after `notify_all()` nobody waits; and whoever is
between its unlock and its `notify_one()` is a running task or the
owner of a living pool. The last part is why a task cannot be submitted behind
the back of the last thread. `NoLostWakeup` counts: queued tasks are at most as
many as pending notifications and threads on their way to the lock, while
anybody waits. The refinement maps `dtor = "destroyed"` to the abstract flag;
notification, waiting and spurious wakeups are stuttering steps.

*Manager pool.* The invariant adds that Managers are numbered in the order of
their making, so that a new one is held by nobody, and that the entries are
distinct, so that `release()` clears one.

*Dispatch.* `AgentTreeProofs` reuses the two modules below it: every step of a
dispatch is a step of `WorkQueue` or leaves the pool alone, and a step of
`ManagerPool` or leaves the Managers alone (`QueueStep`, `ManagersStep`), so that
`ManagerPoolProofs` supplies its invariant. What is added: a task is in one
place (`OnePlace`), which makes two threads with the same `process()`
impossible; a retry is of a task of the first open wave (`RetryInWave`); and
`holding` is non-zero exactly from `acquire()` to `release()` (`HoldsAtWork`).
`WorkersHaveAThread` is the pigeonhole principle on `OnePlace`; its hypothesis is
the one that `agent_tree_saturated` drops. `NeverStuck` names for each party the
guards of its steps (ENABLED is out of the provers' reach) and says that one of
them holds until the dispatch ends; it needs `Waits`: what is pending is in the queue
or on a thread, the pool refuses nothing as long as the Director lives, and the
future the Director waits for exists. Whoever waits then waits for a task that is
queued, which the thread left for Workers takes, or that runs; and a Worker's task
waits for nobody. This is the safety half of `DispatchReturns`: that somebody can
always go on, for any number of threads and subtasks; that everybody gets there
stays with TLC. `NoManagerLeaked` needs `Progress`: a
future of `process()` is ready only when its Manager has been released, a
subtask the Director has not come to has no future, and one it has left behind
has its Manager released. `WavesInOrder` needs `Ordering`: the subtasks ahead of
the Director are idle; before decompose() none of a subtask's Worker tasks is
submitted; what is submitted belongs to a wave; what is collected, and the task
that is being retried, has returned. Disjoint waves make the submission of a
task say which wave it is of.

*Supervision.* Besides the types, `Control` ties three threads together: where
the Supervisor's loop is decides whether the Director runs, whether the monitor
exists and how many failures are recorded (as many as attempts). That the
monitor is gone before the loop returns, and the watcher before the flag is
reset, is why nobody can set the flag at the prompt. `NoHastyCancel` needs
`Silence`: of an agent that this poll has treated, or that is not treated now,
the counter is no more than its age accounts for; of one that is still to be
treated, the counter is that of an age one poll younger, and a snapshot that is
out of date belongs to an agent that has moved since. An agent that is not
Running keeps its counter, but its next age is below the timeout, which resets
it: this is where the assumption on the timeout is used.

*Director.* `PlaceInv`: before the dispatch there are no reports. `SettledInv`: a
round that goes on to retry is not the last. `TwiceInv`: while the reviews list
the plan in its order, only a rejected subtask has run twice and what is about to
run again has run once. Forced approval counts by id; without the hypothesis
that the review names every subtask in order, a subtask may run more often.

*Worker.* `ResultInv`: until it returns, the result is the initial one, and no LLM
is asked before the loop. `CallInv`: a late call is that of an attempt entered
before the cancellation.

*Manager.* `EnoughWaves`: the waves left are more than the tasks no wave has taken,
because each takes at least one; this is why the n + 1 waves of `dispatch()`
(manager_agent.cpp:484) suffice for any plan, and why only what waits for itself or for nothing is skipped.
`TriesInv`: how often a task has been executed follows from where it is.
`TrustInv`: an approval without the LLM is made only in a state all of whose
results are trusted, and nothing changes them afterwards.

*Breaker.* `BreakerInv`: successes are held only in the half-open state, and the
history variable `steady`, successes since the last failure, is no less.

*State file.* `FileInv`: as long as no two writers of the goal have overlapped,
those of the other process and the unlocked `init()` of either included, one
party at a time has the file in hand (`Alone`), what it has read is `Good`
(`Kept`), and so is the file whenever it is not truncated (`Whole`). Good means that
it says of each agent its latest snapshot, unless the write of that one is
pending or the entry is `lost`: given up for want of the lock, or written over or
emptied by the other process since. `lost` and `overlap` are histories, set by
the steps that do these things. Overlap is a fact: two threads of one process
hold the lock at once, as `state_file_overlap` shows, and `init()` asks for none.

*Session.* `TurnsInv`: the run in progress is of the conversation the loop is in,
and a loop that is in none has no turns. `SummariesInv`: of every run this process has
persisted, of whatever conversation, the summary is in memory as well as in the
file, because the file is rewritten from memory.

*Command line.* `GoalInv`: where one goal was asked for, the loop is back at the
prompt only as long as none has been run, and a goal given with `-g` is not read again.

*Configuration.* `WrittenInv`: the wizard's draft is always a record of all fields,
and the file is `ToJson` of what was written until something else changes it.
The proof attempt showed that a limit below zero, possible only in a
hand-written file, is read, kept by the wizard and not written; `WrittenIsLoaded`
says so, and the run has such a file.

*Transport.* `BufferInv`: the buffer is the window of the response from the first
piece not handled to the last one read. `SaidInv`: what has been handled ends with a
line and its deltas have been handed on. A line of the buffer is then a whole
line of the response, and it is an event exactly if its left half stands before
its right one, which `WellFormed` and the absence of a split give.

*Tools.* `LruInv` is inductive as it stands; the work is in the lemmas on lists
without repetition (`RemoveAt`, `Front`, a new head). `AnswersInv`: what a thread
waits with is a call of an idempotent tool (`CallersOK`); the times paths have,
and the times in keys, are among the `stamps`, those the path has had in this
process (`DiskOK`, `KeyOK`); and every pair of key and answer in the cache or on
its way there (`Held`), and every answer whose key is still to be timed (`Heard`),
is explained. All changes of files, those of `write_file` and those of a shell,
are instances of one step (`FileStep`): what it changes is gone or gets one of the
times of the set `ss`. If the path has had that time before, or somebody has read
and not yet taken the time, the time becomes `doubt`; otherwise it is one
that no key in the cache has for that path, so that the old answers are not found.
Nothing is assumed of the order of times, only that they lie after the epoch,
because the code takes time 0 for "no file". `stamps` and `doubt` begin anew
with the process, as the cache does.

*Learning.* `IndexInv` adds that documents and counts are finite. `TailsInv`: an
entry ends with the newest outcome, and before it lies the one before, short of
one line if it had three or more. The property first claimed that both are whole, and the
run agreed with summaries of two lines; the proof attempt gave the counterexample of
three, which the run now includes.

**Only model-checked.** Liveness: `FutureResolves`, the liveness part of
`ImplementsWorkQueue`, `DispatchReturns`, `HangIsCancelled`, `RunReturns`,
`ProcessEnds`, `ExecuteEnds`, `TransitionEnds`, `StopReturns`. The installed
provers have no ENABLED and decide no leads-to under fairness for unbounded data.
What a recursive or folded definition computes for every input would need
induction over data, which is out of reach here too; where a proof would have
wanted it (the lines of a stream, the list of the cache) the invariant says what
one step does to the sequence, by the lemmas on `SubSeq`, `\o` and `RemoveAt`.

## 5. Not modelled

*Not reached by `main()`:* result cache, request deduplicator, Manager dispatcher,
parallel executor, dependency analyzer, parallel scheduler, incremental engine,
distributed mode (its context fields are never set), asynchronous and event
buses, batch client, tool composer, TUI input, global summary, tool statistics,
prompt optimizer, experience database. `WorkerExecutor`, with its breaker and
retry policy, is not made by `main()` either; it is modelled in `ModelAccess`
because it is the one place where several threads share a breaker.
`pause_agent()` and `resume_agent()` have no caller; `WorkerTask` models the flag
the Worker reads, `Supervision` does not. Step 4 of `ManagerPool::acquire()` can
never run, because steps 1 and 2 take any idle entry.

*Text only:* prompts, routing heuristics, summaries, logging, the code index, the
formats of the providers, the Windows half of the client and of the tools, tools
that only return text, commands that only print.

*Hazards without a property* (in PROJECT.json with the reason): terminal states
of reused state machines; `g_shutdown_requested`, which is never lowered; one
Worker object shared by a retry and a wave; a predecessor's output given twice;
the unlocked update of `completed_subtasks`; inboxes that only grow, and a
correction left in one for the next run; the race on `last_usage_`; the loop at
the end of input; peer-cache entries of earlier runs. They are data the models
abstract from, or plain from one line of the code.

## 6. Where to go next

1. Worker objects in `ManagerTask`: `select_worker()` with its capability counts,
   so that sharing by a retry and a wave becomes a property.
2. Several runs in `Supervision`: flags, state machines and inboxes that
   survive a run.
3. `DirectorRun` shown to implement the few steps `Supervision` has for it.
4. The schedulers and the dispatcher, once something uses them.
