--------------------------- MODULE SessionProofs ----------------------------
(***************************************************************************)
(* The conversation loop of main(): the turns and summaries a conversation *)
(* keeps, the goals a command line runs, and the configuration that the    *)
(* setup wizard writes, for every number of conversations, lines and edits.*)
(***************************************************************************)
EXTENDS Session, CommandLine, Config, SequenceTheorems, TLAPS


-----------------------------------------------------------------------------
(* Turns and summaries.                                                     *)

Runs == [conv : Convs, n : Nat]
Summary == [of : Runs, lines : {1, 2}]
InRun == {"running", "joinDone", "joinFailed", "summary", "persist"}

SeTypeOK ==
    /\ convId \in Convs \union {NoConv}
    /\ history \in Seq(Runs) /\ longTerm \in Seq(Summary)
    /\ memoryMd \in [Convs -> Seq(Summary)]
    /\ begun \in Nat /\ persisted \subseteq Runs

\* The run in progress is of the conversation the loop is in, and a loop that
\* is in none has no turns: the next run may give it any.
TurnsInv ==
    /\ spc \in InRun => current \in Runs /\ current.conv = convId
    /\ convId = NoConv => history = << >>
    /\ HistoryOfConversation

\* The file is written from what is in memory, so a summary must be there too:
\* of every run this process has persisted, of whatever conversation.
SummariesInv ==
    \A r \in persisted : /\ \E i \in DOMAIN longTerm : longTerm[i].of = r
                         /\ \E i \in DOMAIN memoryMd[r.conv] : memoryMd[r.conv][i].of = r

SessionInv == SeTypeOK /\ TurnsInv /\ SummariesInv

\* What is appended to the memory leaves what it held.
LEMMA MemoryGrows ==
  ASSUME NEW S, NEW s \in Seq(S), NEW t \in Seq(S)
  PROVE  s \o t \in Seq(S) /\ \A i \in DOMAIN s : i \in DOMAIN (s \o t) /\ (s \o t)[i] = s[i]
  BY ConcatProperties

LEMMA LoadedSummaries ==
  ASSUME NEW c \in Convs, SeTypeOK
  PROVE  [i \in DOMAIN memoryMd[c] |-> [memoryMd[c][i] EXCEPT !.lines = 1]] \in Seq(Summary)
<1>1. memoryMd[c] \in Seq(Summary)
  BY DEF SeTypeOK
<1>2. ASSUME NEW i \in DOMAIN memoryMd[c]
      PROVE  [memoryMd[c][i] EXCEPT !.lines = 1] \in Summary
  <2>1. memoryMd[c][i] \in Summary
    BY <1>1, <1>2
  <2>2. QED
    BY <2>1 DEF Summary
<1>3. DOMAIN memoryMd[c] = 1..Len(memoryMd[c]) /\ Len(memoryMd[c]) \in Nat
  BY <1>1
<1>4. QED
  BY <1>2, <1>3, IsASeq

LEMMA SessionInit == SeInit => SessionInv
  BY DEF SeInit, SessionInv, SeTypeOK, TurnsInv, SummariesInv, InRun, HistoryOfConversation

\* A step that leaves the turns, the memory and the files alone.
LEMMA QuietStep ==
  ASSUME SessionInv, UNCHANGED <<convVars, longTerm, begun, memoryMd, persisted>>,
         UNCHANGED current, spc' \in InRun => spc \in InRun
  PROVE  SessionInv'
  BY DEF SessionInv, SeTypeOK, TurnsInv, SummariesInv, HistoryOfConversation, convVars

LEMMA StartKeepsInv == SessionInv /\ StartProcess => SessionInv'
<1> SUFFICES ASSUME SessionInv, StartProcess PROVE SessionInv'
  OBVIOUS
<1>1. longTerm' = longTerm /\ spc' \notin InRun
  BY ConcatEmptySeq DEF StartProcess, LoadedLongTerm, LegacyLongTerm, SessionInv, SeTypeOK, InRun
<1>2. QED
  BY <1>1 DEF StartProcess, SessionInv, SeTypeOK, TurnsInv, SummariesInv, HistoryOfConversation, convVars, runVars, diskVars, mdVars
LEMMA StopKeepsInv == SessionInv /\ Stop => SessionInv'
  BY DEF Stop, SessionInv, SeTypeOK, TurnsInv, SummariesInv, InRun, HistoryOfConversation, diskVars, mdVars
LEMMA NewKeepsInv == SessionInv /\ New => SessionInv'
  BY DEF New, SessionInv, SeTypeOK, TurnsInv, SummariesInv, InRun, HistoryOfConversation, diskVars, mdVars, memoryVars, runVars
LEMMA SwitchKeepsInv ==
  ASSUME SessionInv, NEW c \in Convs, Switch(c)
  PROVE  SessionInv'
<1>1. UNCHANGED <<spc, begun, memoryMd, persisted>> /\ convId' = c /\ history' = << >> /\ spc \notin InRun
  BY DEF Switch, InRun, runVars, diskVars, mdVars
<1>2. longTerm' \in Seq(Summary) /\ \A i \in DOMAIN longTerm : i \in DOMAIN longTerm' /\ longTerm'[i] = longTerm[i]
  BY LoadedSummaries, MemoryGrows DEF Switch, LoadConversationMd, SessionInv, SeTypeOK
<1>3. SeTypeOK'
  BY <1>1, <1>2 DEF SessionInv, SeTypeOK
<1>4. TurnsInv'
  BY <1>1, SessionAssumption DEF TurnsInv, HistoryOfConversation
<1>5. SummariesInv'
  BY <1>1, <1>2 DEF SessionInv, SummariesInv
<1>6. QED
  BY <1>3, <1>4, <1>5 DEF SessionInv
LEMMA BeginKeepsInv == SessionInv /\ BeginRun => SessionInv'
<1> SUFFICES ASSUME SessionInv, BeginRun PROVE SessionInv'
  OBVIOUS
<1>1. UNCHANGED <<history, longTerm, memoryMd, persisted>> /\ begun' = begun + 1 /\ convId' \in Convs
      /\ current' = [conv |-> convId', n |-> begun']
  BY DEF BeginRun, mdVars, memoryVars, SessionInv, SeTypeOK
<1>2. convId' = convId \/ history = << >>
  BY DEF BeginRun, SessionInv, TurnsInv
<1>3. SeTypeOK'
  BY <1>1 DEF SessionInv, SeTypeOK
<1>4. current' \in Runs /\ current'.conv = convId'
  BY <1>1, <1>3 DEF SeTypeOK, Runs
<1>5. TurnsInv'
  BY <1>1, <1>2, <1>4, SessionAssumption DEF SessionInv, TurnsInv, HistoryOfConversation
<1>6. SummariesInv'
  BY <1>1 DEF SessionInv, SummariesInv
<1>7. QED
  BY <1>3, <1>5, <1>6 DEF SessionInv
LEMMA JoinKeepsInv == SessionInv /\ JoinDone => SessionInv'
<1> SUFFICES ASSUME SessionInv, JoinDone PROVE SessionInv'
  OBVIOUS
<1>1. UNCHANGED <<convId, longTerm, begun, memoryMd, persisted, current>> /\ history' = Append(history, current)
      /\ spc \in InRun
  BY DEF JoinDone, mdVars, memoryVars, runVars, diskVars, InRun
<1>2. current \in Runs /\ current.conv = convId /\ history \in Seq(Runs)
  BY <1>1 DEF SessionInv, TurnsInv, SeTypeOK
<1>3. SeTypeOK'
  BY <1>1, <1>2, AppendProperties DEF SessionInv, SeTypeOK
<1>4. TurnsInv'
  <2>1. convId # NoConv
    BY <1>2, SessionAssumption DEF Runs
  <2>2. ASSUME NEW i \in DOMAIN history'
        PROVE  history'[i].conv = convId
    BY <1>1, <1>2, <2>2, AppendProperties DEF SessionInv, TurnsInv, HistoryOfConversation
  <2>3. QED
    BY <1>1, <1>2, <2>1, <2>2 DEF TurnsInv, HistoryOfConversation
<1>5. SummariesInv'
  BY <1>1 DEF SessionInv, SummariesInv
<1>6. QED
  BY <1>3, <1>4, <1>5 DEF SessionInv
LEMMA SummariseKeepsInv == SessionInv /\ Summarise => SessionInv'
<1> SUFFICES ASSUME SessionInv, Summarise PROVE SessionInv'
  OBVIOUS
<1>1. UNCHANGED <<convVars, begun, memoryMd, persisted, current>> /\ spc \in InRun
  BY DEF Summarise, mdVars, memoryVars, runVars, diskVars, InRun
<1>2. current \in Runs /\ longTerm \in Seq(Summary)
  BY <1>1 DEF SessionInv, TurnsInv, SeTypeOK
<1>3. longTerm' \in Seq(Summary) /\ \A i \in DOMAIN longTerm : i \in DOMAIN longTerm' /\ longTerm'[i] = longTerm[i]
  <2>1. CASE UNCHANGED longTerm
    BY <1>2, <2>1
  <2>2. ASSUME NEW n \in 1..2, longTerm' = Append(longTerm, [of |-> current, lines |-> n])
        PROVE  /\ longTerm' \in Seq(Summary)
               /\ \A i \in DOMAIN longTerm : i \in DOMAIN longTerm' /\ longTerm'[i] = longTerm[i]
    <3>1. [of |-> current, lines |-> n] \in Summary
      BY <1>2 DEF Summary
    <3>2. QED
      BY <1>2, <2>2, <3>1, AppendProperties
  <2>3. QED
    BY <2>1, <2>2 DEF Summarise, GenerateAndStoreSummary
<1>4. SeTypeOK'
  BY <1>1, <1>3 DEF SessionInv, SeTypeOK, convVars
<1>5. TurnsInv'
  BY <1>1 DEF SessionInv, TurnsInv, HistoryOfConversation, convVars
<1>6. SummariesInv'
  BY <1>1, <1>3 DEF SessionInv, SummariesInv
<1>7. QED
  BY <1>4, <1>5, <1>6 DEF SessionInv
LEMMA PersistKeepsInv == SessionInv /\ Persist => SessionInv'
<1> SUFFICES ASSUME SessionInv, Persist PROVE SessionInv'
  OBVIOUS
<1>1. UNCHANGED <<convVars, begun, longTerm>> /\ spc \in InRun /\ spc' \notin InRun
  BY DEF Persist, memoryVars, InRun
<1>2. current \in Runs /\ current.conv = convId /\ convId \in Convs
  BY <1>1 DEF SessionInv, TurnsInv, Runs
<1>3. TurnsInv'
  BY <1>1 DEF SessionInv, TurnsInv, HistoryOfConversation, convVars
<1>4. CASE UNCHANGED <<memoryMd, persisted>>
  BY <1>1, <1>3, <1>4 DEF SessionInv, SeTypeOK, SummariesInv, convVars
<1>5. CASE /\ memoryMd' = [memoryMd EXCEPT ![convId] = longTerm]
           /\ persisted' = IF Summarised THEN persisted \union {current} ELSE persisted
  <2>1. SeTypeOK'
    BY <1>1, <1>2, <1>5 DEF SessionInv, SeTypeOK, convVars
  <2>2. ASSUME NEW r \in persisted'
        PROVE  r \in Runs /\ \E i \in DOMAIN longTerm : longTerm[i].of = r
    BY <1>2, <1>5, <2>2 DEF SessionInv, SeTypeOK, SummariesInv, Summarised, Elems
  <2>3. ASSUME NEW r \in persisted'
        PROVE  \E i \in DOMAIN memoryMd'[r.conv] : memoryMd'[r.conv][i].of = r
    <3>1. CASE r.conv = convId
      BY <1>2, <1>5, <2>2, <3>1 DEF SessionInv, SeTypeOK
    <3>2. CASE r.conv # convId
      <4>1. r \in persisted /\ r \in Runs
        BY <1>2, <1>5, <2>3, <2>2, <3>2
      <4>2. memoryMd'[r.conv] = memoryMd[r.conv]
        BY <1>5, <3>2, <4>1 DEF SessionInv, SeTypeOK, Runs
      <4>3. QED
        BY <4>1, <4>2 DEF SessionInv, SummariesInv
    <3>3. QED
      BY <3>1, <3>2
  <2>4. SummariesInv'
    BY <1>1, <2>2, <2>3 DEF SummariesInv
  <2>5. QED
    BY <1>3, <2>1, <2>4 DEF SessionInv
<1>6. QED
  BY <1>4, <1>5 DEF Persist, SaveConversationMd, mdVars

LEMMA SessionNext == SessionInv /\ [SeNext]_seVars => SessionInv'
<1> SUFFICES ASSUME SessionInv, [SeNext]_seVars PROVE SessionInv'
  OBVIOUS
<1>1. CASE ApplyConvArgument \/ Interrupt \/ ReloadConfig \/ Watch
  BY <1>1, QuietStep DEF ApplyConvArgument, Interrupt, ReloadConfig, Watch, memoryVars,
     runVars, diskVars, mdVars, InRun
<1>2. CASE SupervisorCancels \/ Answer
  BY <1>2, QuietStep DEF SupervisorCancels, Answer, memoryVars,
     runVars, diskVars, mdVars, InRun
<1>3. CASE JoinFailed
  BY <1>3 DEF JoinFailed, memoryVars, diskVars, mdVars, InRun, SessionInv, SeTypeOK, TurnsInv, SummariesInv, HistoryOfConversation, convVars
<1>4. CASE UNCHANGED seVars
  BY <1>4, QuietStep DEF seVars, memoryVars, runVars, diskVars, mdVars
<1>5. QED
  BY <1>1, <1>2, <1>3, <1>4, StartKeepsInv, StopKeepsInv, NewKeepsInv, SwitchKeepsInv, BeginKeepsInv,
     JoinKeepsInv, SummariseKeepsInv, PersistKeepsInv DEF SeNext

\* The turns put before a goal are those of its conversation, for every number
\* of conversations and runs.
THEOREM TurnsOfConversation == SeSpec => []HistoryOfConversation
<1>1. SessionInv => HistoryOfConversation
  BY DEF SessionInv, TurnsInv
<1>2. QED
  BY <1>1, SessionInit, SessionNext, PTL DEF SeSpec

\* Every summary this process has persisted is in the file of its conversation,
\* whatever other conversations were persisted or loaded since.
THEOREM SummariesAreKept == SeSpec => []MemoryFileKeepsSummaries
<1>1. SessionInv => MemoryFileKeepsSummaries
  BY DEF SessionInv, SummariesInv, MemoryFileKeepsSummaries, Elems
<1>2. QED
  BY <1>1, SessionInit, SessionNext, PTL DEF SeSpec

-----------------------------------------------------------------------------
(* Goals of the command line.                                               *)

OneGoal == single \/ (given # NoLine /\ ~tty)

\* The loop asks for a goal only while none was run, and a line that is read
\* when a goal was given is that goal or comes after it.
GoalInv ==
    /\ runs \in Nat
    /\ OneGoal => runs <= 1 /\ (at \in {"prompt", "line"} => runs = 0)
    /\ at = "line" /\ given # NoLine => ~first

LEMMA GoalInit == ClInit => GoalInv
  BY DEF ClInit, GoalInv, OneGoal

LEMMA GoalNext == GoalInv /\ [ClNext]_clVars => GoalInv'
<1> SUFFICES ASSUME GoalInv, [ClNext]_clVars PROVE GoalInv'
  OBVIOUS
<1> USE DEF GoalInv, OneGoal, optionVars
<1>1. CASE TakeGiven
  BY <1>1 DEF TakeGiven
<1>2. CASE ReadLine \/ InputEnds
  BY <1>2 DEF ReadLine, InputEnds
<1>3. ASSUME Handled, at = "line" PROVE GoalInv'
  BY <1>3 DEF Handled
<1>4. CASE OwnCommand \/ Refused \/ SetSettings \/ Reset \/ RetryPolicyCommand \/ Preset
  BY <1>3, <1>4, Zenon DEF OwnCommand, Refused, SetSettings, Reset, RetryPolicyCommand, Preset, Command
<1>9. CASE Model \/ Provider \/ PrintOnly
  BY <1>3, <1>9, Zenon DEF Model, Provider, PrintOnly, Command
<1>5. CASE Exit \/ Aborts
  BY <1>5 DEF Exit, Aborts
<1>6. CASE RunGoal
  BY <1>6 DEF RunGoal
<1>7. CASE UNCHANGED clVars
  BY <1>7 DEF clVars
<1>8. QED
  BY <1>1, <1>2, <1>3, <1>4, <1>5, <1>6, <1>7, <1>9 DEF ClNext

\* main() with --no-loop, or with a goal and no terminal, gives the agents at
\* most one goal, whatever lines are typed and however many.
THEOREM NoSecondGoal == ClSpec => []OneGoalOnly
<1>1. GoalInv => OneGoalOnly
  BY DEF GoalInv, OneGoal, OneGoalOnly
<1>2. QED
  BY <1>1, GoalInit, GoalNext, PTL DEF ClSpec

-----------------------------------------------------------------------------
(* The wizard and the configuration file.                                   *)

\* A configuration has the fields of AgentConfig, whatever they hold.
IsConfig(c) == c = [f \in DOMAIN DefaultConfig |-> c[f]]

\* The wizard works on a whole configuration, and nobody has touched the file
\* since it was written.
WrittenInv ==
    /\ IsConfig(draft)
    /\ written # NoFile => IsConfig(written) /\ file = ToJson(written)

AsFunction(r) == r = [f \in DOMAIN r |-> r[f]]

\* The numbers are hidden from the prover that knows about records.
LEMMA DefaultIsConfig == IsConfig(DefaultConfig)
<1> DEFINE C(n, t, r, w, q, s) ==
             [provider |-> "anthropic", api_key |-> "", base_url |-> "",
              default_model |-> "opus", worker_model |-> NoSpec, supervisor_model |-> NoSpec,
              max_tokens |-> n, temperature |-> t, memory_session_enabled |-> TRUE,
              max_network_retries |-> r, worker_threads |-> w, request_timeout |-> q,
              supervisor_stuck_timeout_ms |-> s, max_tokens_per_run |-> 0]
<1>1. ASSUME NEW n, NEW t, NEW r, NEW w, NEW q, NEW s
      PROVE  AsFunction(C(n, t, r, w, q, s))
  BY Zenon DEF AsFunction
<1>2. DefaultConfig = C(2048, -1, 3, 4, 60, 300000)
  BY DEF DefaultConfig
<1> HIDE DEF C
<1>3. AsFunction(DefaultConfig)
  BY <1>1, <1>2, SMT
<1>4. QED
  BY <1>3 DEF IsConfig, AsFunction

LEMMA GenerationIsConfig ==
  ASSUME NEW c, IsConfig(c), NEW n, NEW t
  PROVE  IsConfig([c EXCEPT !.max_tokens = n, !.temperature = t])
  BY DEF IsConfig

LEMMA LoadIsConfig == IsConfig(Load)
  BY DEF IsConfig, Load, FromJson

\* to_json() leaves out only a limit that is none, which is the default.
LEMMA LoadedAsWritten ==
  ASSUME NEW c, IsConfig(c)
  PROVE  FromJson(ToJson(c), DefaultConfig)
           = [c EXCEPT !.max_tokens_per_run = IF @ > 0 THEN @ ELSE 0]
<1> DEFINE D == DOMAIN DefaultConfig
           l == FromJson(ToJson(c), DefaultConfig)
           r == [c EXCEPT !.max_tokens_per_run = IF @ > 0 THEN @ ELSE 0]
<1>1. DOMAIN c = D /\ "max_tokens_per_run" \in D /\ DefaultConfig.max_tokens_per_run = 0
  BY DEF IsConfig, DefaultConfig
<1>2. l = [f \in D |-> l[f]] /\ r = [f \in D |-> r[f]]
  BY <1>1 DEF FromJson, IsConfig
<1>3. ASSUME NEW f \in D
      PROVE  l[f] = r[f]
  BY <1>1, <1>3 DEF FromJson, ToJson, IsConfig
<1>4. QED
  BY <1>2, <1>3

LEMMA WrittenInit == CfInit => WrittenInv
  BY DefaultIsConfig DEF CfInit, WrittenInv

LEMMA WrittenNext == WrittenInv /\ [CfNext]_cfVars => WrittenInv'
<1> SUFFICES ASSUME WrittenInv, [CfNext]_cfVars PROVE WrittenInv'
  OBVIOUS
<1>1. CASE BeginWizard
  BY <1>1, DefaultIsConfig, LoadIsConfig DEF BeginWizard, WrittenInv, processVars
<1>2. ASSUME UNCHANGED <<file, written>>, IsConfig(draft')
      PROVE  WrittenInv'
  BY <1>2 DEF WrittenInv
<1>3. CASE AskProvider
  <2>1. PICK p : draft' = [draft EXCEPT !.provider = p]
    BY <1>3 DEF AskProvider
  <2>2. QED
    BY <1>2, <1>3, <2>1 DEF AskProvider, At, WrittenInv, IsConfig
<1>4. CASE AskConnection
  <2>1. PICK c : draft' = [draft EXCEPT !.api_key = c.key, !.base_url = c.url]
    BY <1>4, Zenon DEF AskConnection
  <2>2. QED
    BY <1>2, <1>4, <2>1 DEF AskConnection, At, WrittenInv, IsConfig
<1>5. CASE AskModels
  <2>1. PICK m, s : draft' = [[draft EXCEPT !.default_model = m] EXCEPT !.worker_model = s]
    BY <1>5, Zenon DEF AskModels
  <2>2. QED
    BY <1>2, <1>5, <2>1 DEF AskModels, At, WrittenInv, IsConfig
<1>6. CASE AskGeneration
  <2>1. ASSUME NEW n, NEW t, draft' = [draft EXCEPT !.max_tokens = n, !.temperature = t]
        PROVE  IsConfig(draft')
    BY <2>1, GenerationIsConfig DEF WrittenInv
  <2>2. IsConfig(draft')
    BY <1>6, <2>1 DEF AskGeneration
  <2>3. QED
    BY <1>2, <1>6, <2>2 DEF AskGeneration, At
<1>7. CASE AskBehaviour
  <2>1. PICK r, w, t : draft' = [draft EXCEPT !.max_network_retries = r, !.worker_threads = w,
                                              !.request_timeout = t]
    BY <1>7, Zenon DEF AskBehaviour
  <2>2. QED
    BY <1>2, <1>7, <2>1 DEF AskBehaviour, At, WrittenInv, IsConfig
<1>8. CASE AskMemory
  <2>1. PICK on : draft' = [draft EXCEPT !.memory_session_enabled = on]
    BY <1>8 DEF AskMemory
  <2>2. QED
    BY <1>2, <1>8, <2>1 DEF AskMemory, At, WrittenInv, IsConfig
<1>9. CASE AskSupervisor
  <2>1. PICK s : draft' = [draft EXCEPT !.supervisor_stuck_timeout_ms = s * 1000]
    BY <1>9, SMT DEF AskSupervisor
  <2>2. QED
    BY <1>2, <1>9, <2>1 DEF AskSupervisor, At, WrittenInv, IsConfig
<1>10. CASE SaveDraft
  BY <1>10, DefaultIsConfig DEF SaveDraft, WrittenInv
<1>11. CASE EditFile
  BY <1>11 DEF EditFile, WrittenInv, wizardVars
<1>12. CASE (\E env \in {"", "env"} : Boot(env)) \/ Shutdown \/ Reload
  <2>1. UNCHANGED <<file, written, draft>>
    BY <1>12 DEF Boot, Shutdown, Reload, wizardVars
  <2>2. QED
    BY <2>1 DEF WrittenInv
<1>13. CASE UNCHANGED cfVars
  BY <1>13 DEF cfVars, wizardVars, WrittenInv
<1>14. QED
  BY <1>1, <1>3, <1>4, <1>5, <1>6, <1>7, <1>8, <1>9, <1>10, <1>11, <1>12, <1>13
     DEF CfNext, WizardSteps

\* Whatever file was there before and whatever is answered, the next process or
\* the next wizard loads what the wizard wrote.
THEOREM WizardIsHeeded == CfSpec => []WrittenIsLoaded
<1>1. WrittenInv => WrittenIsLoaded
  BY LoadedAsWritten DEF WrittenInv, WrittenIsLoaded, Load
<1>2. QED
  BY <1>1, WrittenInit, WrittenNext, PTL DEF CfSpec
=============================================================================
