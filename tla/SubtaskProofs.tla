--------------------------- MODULE SubtaskProofs ----------------------------
(***************************************************************************)
(* One subtask: what WorkerAgent::execute() returns and what it still does *)
(* after a cancellation; what ManagerAgent::process() runs, retries, skips *)
(* and trusts, for every decomposition (cycles, missing and repeated ids   *)
(* among them); and what of the agents' state file survives their writes.  *)
(***************************************************************************)
EXTENDS ManagerTask, StateFile, FiniteSetTheorems, WellFoundedInduction, TLAPS


-----------------------------------------------------------------------------
(* WorkerAgent::execute().                                                  *)

BeforeLlm == {"idle", "control", "prepare", "preflight", "tool", "tried", "fix"}

\* Until it returns the result is the one execute() starts with, and until
\* the loop is entered no LLM was asked: a result of the fast path or of a
\* self-fix is therefore one no LLM was asked for.
ResultInv ==
    /\ wpc # "returned" => outcome = Working
    /\ wpc \in BeforeLlm => ~asked
    /\ ReturnsAnOutcome

\* A late call is the one of an attempt entered before the cancellation.
CallInv ==
    /\ late \in {0, 1}
    /\ late = 1 => cancel /\ wpc # "attempt"

LEMMA WorkerInit == WkInit => ResultInv /\ CallInv
  BY DEF WkInit, ResultInv, CallInv, ReturnsAnOutcome, BeforeLlm

LEMMA PlainOutcome ==
  ASSUME NEW s \in Statuses
  PROVE  /\ [status |-> s, fast |-> FALSE] \in WorkerOutcomes
         /\ ~[status |-> s, fast |-> FALSE].fast
  BY DEF WorkerOutcomes

\* The status of the result is set and nothing else of it.
LEMMA StatusSet ==
  ASSUME NEW s \in Statuses, outcome = Working,
         wpc' = "returned", outcome' = [outcome EXCEPT !.status = s]
  PROVE  ResultInv'
<1>1. outcome' = [status |-> s, fast |-> FALSE]
  BY DEF Working
<1>2. outcome' \in WorkerOutcomes /\ ~outcome'.fast
  BY <1>1, PlainOutcome
<1>3. QED
  BY <1>2 DEF ResultInv, ReturnsAnOutcome, BeforeLlm

\* The result is a new one that is not fast.
LEMMA PlainReturned ==
  ASSUME NEW s \in Statuses, Return(s, FALSE)
  PROVE  ResultInv'
<1>1. outcome' \in WorkerOutcomes /\ ~outcome'.fast
  BY PlainOutcome DEF Return
<1>2. QED
  BY <1>1 DEF ResultInv, ReturnsAnOutcome, BeforeLlm, Return

LEMMA ResultNext == ResultInv /\ [WkNext]_workerVars => ResultInv'
<1> SUFFICES ASSUME ResultInv, [WkNext]_workerVars
             PROVE  ResultInv'
  OBVIOUS
<1> USE DEF ResultInv, ReturnsAnOutcome, WorkerOutcomes, Statuses, Working, Return,
            BeforeLlm, callVars, countVars
<1>1. CASE BeginTask
  BY <1>1 DEF BeginTask
<1>2. CASE CheckControl
  BY <1>2 DEF CheckControl
<1>3. CASE PrepareInput
  BY <1>3 DEF PrepareInput
<1>4. CASE Preflight
  BY <1>4 DEF Preflight
<1>5. CASE CallTool
  BY <1>5 DEF CallTool
<1>6. CASE FastPath
  BY <1>6 DEF FastPath
<1>7. CASE NoFastPath
  BY <1>7 DEF NoFastPath
<1>8. CASE SelfFix
  BY <1>8 DEF SelfFix
<1>9. CASE AskLlm
  BY <1>9 DEF AskLlm
<1>10. CASE EnterAttempt
  BY <1>10 DEF EnterAttempt
<1>11. CASE CancelledInLoop
  BY <1>11, StatusSet DEF CancelledInLoop
<1>12. CASE GivesUp
  BY <1>12, PlainReturned DEF GivesUp
<1>13. CASE Chain
  BY <1>13 DEF Chain, Ask
<1>14. CASE Parsed
  BY <1>14, PlainReturned DEF Parsed
<1>15. CASE Unparsed
  BY <1>15 DEF Unparsed, Ask
<1>16. CASE LlmThrows
  <2>1. CASE outcome' = [outcome EXCEPT !.status = "Failed"] /\ wpc' = "returned"
    BY <1>16, <2>1, StatusSet DEF LlmThrows, Ask
  <2>2. CASE wpc' = "llm" /\ UNCHANGED outcome
    BY <1>16, <2>2 DEF LlmThrows, Ask
  <2>3. QED
    BY <1>16, <2>1, <2>2 DEF LlmThrows
<1>17. CASE RetriesExceeded
  BY <1>17, StatusSet DEF RetriesExceeded
<1>18. CASE SetCancel \/ SetPause \/ LiftPause
  BY <1>18 DEF SetCancel, SetPause, LiftPause
<1>19. CASE UNCHANGED workerVars
  BY <1>19 DEF workerVars
<1>20. QED
  BY <1>1, <1>2, <1>3, <1>4, <1>5, <1>6, <1>7, <1>8, <1>9, <1>10, <1>11, <1>12,
     <1>13, <1>14, <1>15, <1>16, <1>17, <1>18, <1>19 DEF WkNext, WkSteps

\* Only a step that asks the LLM counts, and it leaves the attempt.
LEMMA AskKeepsCalls ==
  ASSUME CallInv, Ask, UNCHANGED cancel, wpc' # "attempt"
  PROVE  CallInv'
  BY DEF CallInv, Ask

LEMMA CallNext == CallInv /\ [WkNext]_workerVars => CallInv'
<1> SUFFICES ASSUME CallInv, [WkNext]_workerVars
             PROVE  CallInv'
  OBVIOUS
<1>1. CASE GivesUp \/ Chain \/ Parsed \/ Unparsed \/ LlmThrows
  <2>1. Ask /\ UNCHANGED cancel /\ wpc' # "attempt"
    BY <1>1 DEF GivesUp, Chain, Parsed, Unparsed, LlmThrows, Return, flagVars
  <2>2. QED
    BY <2>1, AskKeepsCalls
<1>2. CASE EnterAttempt
  BY <1>2 DEF CallInv, EnterAttempt, MayProceed, countVars, callVars, flagVars
<1>3. CASE SetCancel \/ SetPause \/ LiftPause
  BY <1>3 DEF CallInv, SetCancel, SetPause, LiftPause, countVars, callVars
<1>4. CASE BeginTask \/ CheckControl \/ PrepareInput \/ Preflight \/ CallTool
  BY <1>4 DEF CallInv, BeginTask, CheckControl, PrepareInput, Preflight, CallTool, Return,
              countVars, callVars, flagVars
<1>5. CASE FastPath \/ NoFastPath \/ SelfFix \/ AskLlm \/ CancelledInLoop \/ RetriesExceeded
  BY <1>5 DEF CallInv, FastPath, NoFastPath, SelfFix, AskLlm, CancelledInLoop,
              RetriesExceeded, Return, countVars, callVars, flagVars
<1>6. CASE UNCHANGED workerVars
  BY <1>6 DEF CallInv, workerVars, countVars, callVars, flagVars
<1>7. QED
  BY <1>1, <1>2, <1>3, <1>4, <1>5, <1>6 DEF WkNext, WkSteps

\* execute() returns a result the Manager's model assumes: one of the statuses,
\* and marked as fast only when it is Done and no LLM was asked.
THEOREM ExecuteReturnsAnOutcome == WkSpec => []ReturnsAnOutcome
<1>1. WkInit => ResultInv
  BY WorkerInit
<1>2. ResultInv => ReturnsAnOutcome
  BY DEF ResultInv
<1>3. QED
  BY <1>1, <1>2, ResultNext, PTL DEF WkSpec

\* After a cancellation execute() begins at most one more call to the model,
\* however many attempts and pauses it is configured for.
THEOREM AtMostOneLateCall == WkSpec => []OneLateCall
<1>1. WkInit => CallInv
  BY WorkerInit
<1>2. CallInv => OneLateCall
  BY DEF CallInv, OneLateCall
<1>3. QED
  BY <1>1, <1>2, CallNext, PTL DEF WkSpec

-----------------------------------------------------------------------------
(* ManagerAgent::process().                                                 *)

Before == {"idle", "decompose"}

ManagerTypeOK ==
    /\ atoms \in Seq(Atom)
    /\ waves \in Nat /\ retried \in Nat
    /\ executing \subseteq submitted /\ collected \subseteq submitted /\ submitted \subseteq Indexes
    /\ executing \cap collected = {}
    /\ future \in [Indexes -> Outcomes \union {Default}]
    /\ results \in [Indexes -> Outcomes \union {Default}]
    /\ tries \in [Indexes -> Nat]
    /\ mpc \in Before => atoms = << >>
    /\ mpc # "dispatch" => retried = 0
    /\ retried > 0 => InFlight # {} /\ First(InFlight) \notin executing

\* The waves left are more than the tasks no wave has taken yet.
EnoughWaves ==
    mpc = "dispatch" => waves > Cardinality(Indexes \ submitted)

SkipInv == EnoughWaves /\ OnlyUnresolvableSkipped

\* The executions of a task follow from where it is: waiting, on a Worker, in
\* its retries, or collected.
TriesInv ==
    /\ \A i \in Indexes \ submitted : tries[i] = 0 /\ results[i] = Default
    /\ \A i \in executing : tries[i] = 0
    /\ \A i \in InFlight : results[i] = Default
    /\ \A i \in InFlight \ executing :
          tries[i] = IF retried > 0 /\ i = First(InFlight) THEN retried ELSE 1
    /\ \A i \in collected :
          /\ tries[i] > 0 /\ tries[i] <= 1 + AtomicRetries
          /\ results[i].status = "Failed" => tries[i] = 1 + AtomicRetries
    /\ retried <= 1 + AtomicRetries

\* A report exists when process() has returned; one made without the LLM
\* rests on results that are all trusted.
TrustInv ==
    /\ mpc # "returned" => report = "Running"
    /\ (report = "Done" /\ ~judged) => Trusted

-----------------------------------------------------------------------------
(* The operators.                                                           *)

LEMMA FirstIsIn ==
  ASSUME NEW S, S # {}, S \subseteq Nat
  PROVE  First(S) \in S
<1>1. PICK a \in S : \A b \in S : <<b, a>> \notin OpToRel(<, Nat)
  BY NatLessThanWellFounded, WFMin, Zenon
<1>2. \A b \in S : ~(b < a)
  BY <1>1, Zenon DEF OpToRel
<1>3. \A b \in S : a <= b
  BY <1>2
<1>4. QED
  BY <1>3 DEF First

LEMMA FirstInFlight ==
  ASSUME ManagerTypeOK, InFlight # {}
  PROVE  First(InFlight) \in InFlight
<1>1. Indexes \subseteq Nat
  BY DEF Indexes, ManagerTypeOK
<1>2. InFlight \subseteq Nat
  BY <1>1 DEF InFlight, ManagerTypeOK
<1>3. QED
  BY <1>2, FirstIsIn

LEMMA OutcomeFacts ==
    /\ Default.status = "Pending" /\ Default.fast = FALSE
    /\ [status |-> "Failed", fast |-> FALSE] \in Outcomes
    /\ Default # [status |-> "Done", fast |-> TRUE]
  BY DEF Default, Outcomes, WorkerOutcomes, Statuses

LEMMA IndexesFinite ==
  ASSUME ManagerTypeOK
  PROVE  /\ Indexes = 1..Len(atoms) /\ Len(atoms) \in Nat
         /\ \A S : IsFiniteSet(Indexes \ S) /\ Cardinality(Indexes \ S) \in Nat
<1>1. Indexes = 1..Len(atoms) /\ Len(atoms) \in Nat
  BY DEF Indexes, ManagerTypeOK
<1>2. IsFiniteSet(Indexes)
  BY <1>1, FS_Interval
<1>3. QED
  BY <1>1, <1>2, FS_Subset, FS_CardinalityType

-----------------------------------------------------------------------------
(* Steps that keep the tasks and their results.                             *)

Still == UNCHANGED <<waveVars, retried>>

LEMMA StillSteps ==
  ASSUME \/ BeginProcess \/ DecomposeMisparsed \/ DecomposeFails
         \/ EndDispatch \/ ApproveTrusted \/ Judge
  PROVE  /\ Still
         /\ mpc' \in Before => mpc \in Before
         /\ mpc' # "dispatch"
         /\ mpc # "dispatch" \/ retried = 0
<1> USE DEF Still, Before, MtReturn, MtFail, Approve
<1>1. CASE BeginProcess \/ DecomposeMisparsed \/ DecomposeFails
  BY <1>1 DEF BeginProcess, DecomposeMisparsed, DecomposeFails
<1>2. CASE EndDispatch
  BY <1>2 DEF EndDispatch
<1>3. CASE ApproveTrusted \/ Judge
  BY <1>3 DEF ApproveTrusted, Judge
<1>4. QED
  BY <1>1, <1>2, <1>3

LEMMA TypesStill ==
  ASSUME ManagerTypeOK, Still, mpc' \in Before => mpc \in Before,
         mpc # "dispatch" \/ retried = 0
  PROVE  ManagerTypeOK'
  BY DEF ManagerTypeOK, Still, waveVars, Indexes, InFlight

LEMMA WithToolType ==
  ASSUME NEW a \in Atom
  PROVE  WithTool(a) \in Atom
<1> DEFINE T == {"", "known", "unknown", "described"}
<1>1. a \in [id : AtomIds, deps : SUBSET AtomIds, tool : T, placeholder : BOOLEAN]
  BY DEF Atom
<1>2. "known" \in T
  OBVIOUS
<1> HIDE DEF T
<1>3. [a EXCEPT !.tool = "known"]
         \in [id : AtomIds, deps : SUBSET AtomIds, tool : T, placeholder : BOOLEAN]
  BY <1>1, <1>2
<1>4. [a EXCEPT !.tool = "known"] \in Atom
  BY <1>3 DEF Atom, T
<1>5. QED
  BY <1>4 DEF WithTool

LEMMA PlanTypes ==
  ASSUME NEW list \in Seq(Atom)
  PROVE  /\ [i \in DOMAIN list |-> WithTool(list[i])] \in Seq(Atom)
         /\ DOMAIN list = 1..Len(list) /\ Len(list) \in Nat
<1>1. DOMAIN list = 1..Len(list) /\ Len(list) \in Nat
  OBVIOUS
<1>2. \A i \in 1..Len(list) : WithTool(list[i]) \in Atom
  <2> TAKE i \in 1..Len(list)
  <2>1. list[i] \in Atom
    OBVIOUS
  <2>2. QED
    BY <2>1, WithToolType
<1>3. [i \in 1..Len(list) |-> WithTool(list[i])] \in Seq(Atom)
  BY <1>1, <1>2
<1>4. QED
  BY <1>1, <1>3

\* Before the plan there is nothing in flight.
LEMMA NothingBefore ==
  ASSUME ManagerTypeOK, mpc \in Before
  PROVE  submitted = {} /\ executing = {} /\ collected = {} /\ retried = 0 /\ Indexes = {}
<1>1. Indexes = {}
  BY DEF ManagerTypeOK, Indexes
<1>2. QED
  BY <1>1 DEF ManagerTypeOK, Before

\* Keeping the result of the first task in flight.
LEMMA KeepTypes ==
  ASSUME ManagerTypeOK, NEW o \in Outcomes \union {Default}, Keep(First(InFlight), o),
         First(InFlight) \in InFlight \ executing
  PROVE  /\ results' \in [Indexes -> Outcomes \union {Default}]
         /\ collected' \subseteq submitted /\ executing \cap collected' = {}
<1> DEFINE f == First(InFlight)
           O == Outcomes \union {Default}
<1>1. f \in submitted /\ f \notin executing /\ f \in Indexes
  BY DEF InFlight, ManagerTypeOK
<1>2. results' = [results EXCEPT ![f] = o] /\ collected' = collected \union {f}
  BY DEF Keep
<1>3. results \in [Indexes -> O] /\ o \in O
  BY DEF ManagerTypeOK
<1> HIDE DEF f, O
<1>4. results' \in [Indexes -> O]
  BY <1>1, <1>2, <1>3
<1>5. collected' \subseteq submitted /\ executing \cap collected' = {}
  BY <1>1, <1>2 DEF ManagerTypeOK
<1>6. QED
  BY <1>4, <1>5 DEF O

LEMMA TypesNext ==
  ASSUME ManagerTypeOK, [MtNext]_managerVars
  PROVE  ManagerTypeOK'
<1>1. CASE \/ BeginProcess \/ DecomposeMisparsed \/ DecomposeFails
           \/ EndDispatch \/ ApproveTrusted \/ Judge
  BY <1>1, StillSteps, TypesStill
<1>2. CASE DecomposeTask
  <2>1. PICK list \in Decompositions :
          /\ atoms' = [i \in DOMAIN list |-> WithTool(list[i])]
          /\ waves' = WavesFor(Len(list))
          /\ future' = [i \in DOMAIN list |-> Default]
          /\ results' = [i \in DOMAIN list |-> Default]
          /\ tries' = [i \in DOMAIN list |-> 0]
    BY <1>2 DEF DecomposeTask
  <2>a. list \in Seq(Atom)
    BY ManagerAssumption
  <2>2. /\ atoms' \in Seq(Atom) /\ Indexes' = DOMAIN list /\ waves' \in Nat
    BY <2>1, <2>a, PlanTypes DEF WavesFor, Indexes
  <2>3. submitted' = {} /\ executing' = {} /\ collected' = {} /\ retried' = 0 /\ mpc' = "dispatch"
    BY <1>2, NothingBefore DEF DecomposeTask, Before
  <2>4. QED
    <3> DEFINE O == Outcomes \union {Default}
    <3>1. future' \in [Indexes' -> O] /\ results' \in [Indexes' -> O] /\ tries' \in [Indexes' -> Nat]
      BY <2>1, <2>2
    <3>2. QED
      BY <2>2, <2>3, <3>1 DEF ManagerTypeOK, Before
<1>3. CASE SubmitWave
  BY <1>3 DEF SubmitWave, ManagerTypeOK, Indexes, Ready, Before, InFlight
<1>4. ASSUME NEW i \in Indexes, WorkerExecutes(i)
      PROVE  ManagerTypeOK'
  BY <1>4 DEF WorkerExecutes, ManagerTypeOK, Indexes, Before, InFlight
<1>5. CASE Collect
  <2>1. First(InFlight) \in InFlight \ executing /\ mpc = "dispatch"
    BY <1>5, FirstInFlight DEF Collect
  <2>2. UNCHANGED <<mpc, atoms, waves, submitted, executing, future, tries>>
    BY <1>5 DEF Collect
  <2>3. CASE retried' = 1 /\ UNCHANGED <<results, collected>>
    BY <2>1, <2>2, <2>3 DEF ManagerTypeOK, Indexes, Before, InFlight
  <2>4. CASE Keep(First(InFlight), future[First(InFlight)]) /\ UNCHANGED retried
    <3>1. retried' = 0
      BY <1>5, <2>4 DEF Collect
    <3>2. future[First(InFlight)] \in Outcomes \union {Default}
      BY <2>1 DEF InFlight, ManagerTypeOK
    <3>3. QED
      BY <3>1, <3>2, <2>1, <2>2, <2>4, KeepTypes DEF ManagerTypeOK, Indexes, Before
  <2>5. QED
    BY <1>5, <2>3, <2>4 DEF Collect
<1>6. CASE RetryAtomic
  <2>1. mpc = "dispatch" /\ UNCHANGED <<mpc, atoms, waves, submitted, executing, future>>
    BY <1>6 DEF RetryAtomic
  <2>2. tries' \in [Indexes -> Nat] /\ retried' \in Nat
    BY <1>6 DEF RetryAtomic, ManagerTypeOK
  <2>a. First(InFlight) \in InFlight \ executing
    BY <1>6, FirstInFlight DEF RetryAtomic, ManagerTypeOK
  <2>3. CASE UNCHANGED <<results, collected>>
    BY <2>1, <2>2, <2>3, <2>a DEF ManagerTypeOK, Indexes, Before, InFlight
  <2>4. ASSUME NEW o \in Outcomes, Keep(First(InFlight), o), retried' = 0
        PROVE  ManagerTypeOK'
    BY <2>1, <2>2, <2>4, <2>a, KeepTypes DEF ManagerTypeOK, Indexes, Before
  <2>5. QED
    BY <1>6, <2>3, <2>4, OutcomeFacts DEF RetryAtomic
<1>7. CASE UNCHANGED managerVars
  BY <1>7 DEF managerVars, waveVars, ManagerTypeOK, Indexes, InFlight
<1>8. QED
  BY <1>1, <1>2, <1>3, <1>4, <1>5, <1>6, <1>7 DEF MtNext, MtSteps

-----------------------------------------------------------------------------
(* Executions.                                                              *)

LEMMA KeepTries ==
  ASSUME ManagerTypeOK, TriesInv, retried' = 0,
         First(InFlight) \in InFlight \ executing,
         UNCHANGED <<atoms, submitted, executing>>,
         NEW o, Keep(First(InFlight), o),
         NEW n \in Nat, n > 0, n <= 1 + AtomicRetries,
         o.status = "Failed" => n = 1 + AtomicRetries,
         tries'[First(InFlight)] = n,
         \A i \in Indexes \ {First(InFlight)} : tries'[i] = tries[i]
  PROVE  TriesInv'
<1> DEFINE f == First(InFlight)
<1>1. f \in Indexes /\ f \in submitted /\ f \notin collected /\ f \notin executing
  BY DEF InFlight, ManagerTypeOK
<1>2. /\ results'[f] = o /\ \A i \in Indexes \ {f} : results'[i] = results[i]
      /\ collected' = collected \union {f}
  BY <1>1 DEF Keep, ManagerTypeOK
<1>3. Indexes' = Indexes /\ InFlight' = InFlight \ {f}
  BY <1>2 DEF InFlight, Indexes
<1>4. \A i \in Indexes \ {f} : tries'[i] = tries[i]
  OBVIOUS
<1>5. tries'[f] = n
  OBVIOUS
<1>6. submitted \subseteq Indexes /\ executing \subseteq submitted /\ collected \subseteq submitted
      /\ AtomicRetries \in Nat
  BY ManagerAssumption DEF ManagerTypeOK
<1>7. \A i \in InFlight \ executing : i # f => tries[i] = 1
  BY DEF TriesInv
<1>8. InFlight \subseteq Indexes
  BY <1>6 DEF InFlight
<1> HIDE DEF f
<1>9. \A i \in Indexes \ submitted : tries'[i] = 0 /\ results'[i] = Default
  BY <1>1, <1>2, <1>4 DEF TriesInv
<1>10. \A i \in executing : tries'[i] = 0
  BY <1>1, <1>4, <1>6 DEF TriesInv
<1>11. \A i \in InFlight \ {f} : results'[i] = Default
  BY <1>2, <1>8 DEF TriesInv
<1>12. \A i \in (InFlight \ {f}) \ executing : tries'[i] = 1
  BY <1>4, <1>7, <1>8
<1>13. \A i \in collected' :
          /\ tries'[i] > 0 /\ tries'[i] <= 1 + AtomicRetries
          /\ results'[i].status = "Failed" => tries'[i] = 1 + AtomicRetries
  <2> TAKE i \in collected'
  <2>1. CASE i = f
    BY <2>1, <1>2, <1>5
  <2>2. CASE i # f
    BY <2>2, <1>1, <1>2, <1>4, <1>6 DEF TriesInv
  <2>3. QED
    BY <2>1, <2>2
<1>14. QED
  BY <1>3, <1>6, <1>9, <1>10, <1>11, <1>12, <1>13 DEF TriesInv

LEMMA TriesNext ==
  ASSUME ManagerTypeOK, TriesInv, [MtNext]_managerVars
  PROVE  TriesInv'
<1> AtomicRetries \in Nat
  BY ManagerAssumption
<1>1. CASE Still
  BY <1>1 DEF Still, waveVars, TriesInv, Indexes, InFlight
<1>2. CASE DecomposeTask
  <2>1. submitted' = {} /\ executing' = {} /\ collected' = {} /\ retried' = 0
    BY <1>2, NothingBefore DEF DecomposeTask, Before
  <2>2. \A i \in Indexes' : tries'[i] = 0 /\ results'[i] = Default
    BY <1>2 DEF DecomposeTask, Indexes
  <2>3. QED
    BY <2>1, <2>2 DEF TriesInv, InFlight
<1>3. CASE SubmitWave
  <2>1. /\ submitted' = submitted \union Ready /\ executing' = Ready
        /\ UNCHANGED <<atoms, collected, tries, results, retried>> /\ retried = 0
    BY <1>3 DEF SubmitWave
  <2>2. Ready \subseteq Indexes \ submitted /\ Ready \cap collected = {}
    BY <1>3 DEF SubmitWave, Ready, InFlight
  <2>3. Indexes' = Indexes /\ InFlight' = Ready
    BY <1>3, <2>1, <2>2 DEF SubmitWave, InFlight, Indexes
  <2> HIDE DEF Ready
  <2>4. QED
    BY <2>1, <2>2, <2>3 DEF TriesInv
<1>4. ASSUME NEW i \in Indexes, WorkerExecutes(i)
      PROVE  TriesInv'
  <2>1. /\ i \in executing /\ executing' = executing \ {i}
        /\ UNCHANGED <<atoms, submitted, collected, results, retried>>
        /\ tries' = [tries EXCEPT ![i] = @ + 1]
    BY <1>4 DEF WorkerExecutes
  <2>2. Indexes' = Indexes /\ InFlight' = InFlight
    BY <2>1 DEF Indexes, InFlight
  <2>3. /\ tries[i] = 0 /\ tries'[i] = 1 /\ i \in submitted /\ i \notin collected
        /\ \A j \in Indexes \ {i} : tries'[j] = tries[j]
    BY <1>4, <2>1 DEF TriesInv, ManagerTypeOK
  <2>4. retried > 0 => i # First(InFlight)
    BY <2>1 DEF ManagerTypeOK
  <2>5. InFlight \subseteq Indexes /\ executing \subseteq Indexes /\ collected \subseteq Indexes
    BY DEF InFlight, ManagerTypeOK
  <2>6. \A j \in InFlight \ executing' :
           tries'[j] = IF retried > 0 /\ j = First(InFlight) THEN retried ELSE 1
    <3> TAKE j \in InFlight \ executing'
    <3>1. CASE j = i
      BY <3>1, <2>3, <2>4
    <3>2. CASE j # i
      BY <3>2, <2>1, <2>3, <2>5 DEF TriesInv
    <3>3. QED
      BY <3>1, <3>2
  <2>7. QED
    BY <2>1, <2>2, <2>3, <2>5, <2>6 DEF TriesInv
<1>5. CASE Collect
  <2>1. /\ First(InFlight) \in InFlight \ executing /\ retried = 0
        /\ UNCHANGED <<atoms, submitted, executing, tries>>
    BY <1>5, FirstInFlight DEF Collect
  <2>2. tries[First(InFlight)] = 1
    BY <2>1 DEF TriesInv
  <2>3. CASE retried' = 1 /\ UNCHANGED <<results, collected>>
    <3>1. Indexes' = Indexes /\ InFlight' = InFlight
      BY <2>1, <2>3 DEF Indexes, InFlight
    <3>2. QED
      BY <2>1, <2>2, <2>3, <3>1 DEF TriesInv
  <2>4. CASE /\ future[First(InFlight)].status # "Failed" /\ retried' = 0
             /\ Keep(First(InFlight), future[First(InFlight)])
    BY <2>1, <2>2, <2>4, KeepTries
  <2>5. QED
    BY <1>5, <2>3, <2>4 DEF Collect
<1>6. CASE RetryAtomic
  <2> DEFINE f == First(InFlight)
  <2>1. /\ f \in InFlight \ executing /\ retried > 0
        /\ UNCHANGED <<atoms, submitted, executing>>
    BY <1>6, FirstInFlight DEF RetryAtomic, ManagerTypeOK
  <2>2. tries[f] = retried /\ retried \in Nat /\ retried <= 1 + AtomicRetries /\ f \in Indexes
    BY <2>1 DEF TriesInv, ManagerTypeOK, InFlight
  <2>3. CASE /\ retried <= AtomicRetries /\ retried' = retried + 1
             /\ tries' = [tries EXCEPT ![f] = @ + 1]
             /\ UNCHANGED <<results, collected>>
    <3>1. Indexes' = Indexes /\ InFlight' = InFlight
      BY <2>1, <2>3 DEF Indexes, InFlight
    <3>2. /\ tries'[f] = retried' /\ \A i \in Indexes \ {f} : tries'[i] = tries[i]
      BY <2>2, <2>3 DEF ManagerTypeOK
    <3>3. f \notin executing /\ f \in submitted /\ f \notin collected
          /\ executing \subseteq Indexes /\ collected \subseteq Indexes /\ InFlight \subseteq Indexes
      BY <2>1 DEF InFlight, ManagerTypeOK
    <3>4. \A i \in InFlight \ executing :
             tries'[i] = IF retried' > 0 /\ i = f THEN retried' ELSE 1
      BY <2>1, <2>2, <2>3, <3>2, <3>3 DEF TriesInv
    <3>5. QED
      BY <2>1, <2>2, <2>3, <3>1, <3>2, <3>3, <3>4 DEF TriesInv
  <2>4. ASSUME NEW o \in Outcomes, o.status # "Failed", retried <= AtomicRetries, retried' = 0,
               tries' = [tries EXCEPT ![f] = @ + 1], Keep(f, o)
        PROVE  TriesInv'
    <3>1. tries'[f] = retried + 1 /\ \A i \in Indexes \ {f} : tries'[i] = tries[i]
      BY <2>2, <2>4 DEF ManagerTypeOK
    <3>2. retried + 1 \in Nat /\ retried + 1 > 0 /\ retried + 1 <= 1 + AtomicRetries
      BY <2>2, <2>4
    <3>3. QED
      BY <2>1, <2>4, <3>1, <3>2, KeepTries
  <2>5. CASE /\ retried > AtomicRetries /\ retried' = 0 /\ UNCHANGED tries
             /\ Keep(f, [status |-> "Failed", fast |-> FALSE])
    <3>1. retried = 1 + AtomicRetries
      BY <2>2, <2>5
    <3>2. QED
      BY <2>1, <2>2, <2>5, <3>1, KeepTries
  <2>6. QED
    BY <1>6, <2>3, <2>4, <2>5 DEF RetryAtomic
<1>7. QED
  BY <1>1, <1>2, <1>3, <1>4, <1>5, <1>6, StillSteps DEF MtNext, MtSteps, Still, managerVars

-----------------------------------------------------------------------------
(* Waves.                                                                   *)

LEMMA SkipNext ==
  ASSUME ManagerTypeOK, SkipInv, [MtNext]_managerVars
  PROVE  SkipInv'
<1> USE DEF SkipInv
<1>1. CASE DecomposeTask
  <2>1. PICK list \in Decompositions :
          /\ atoms' = [i \in DOMAIN list |-> WithTool(list[i])]
          /\ waves' = WavesFor(Len(list))
    BY <1>1 DEF DecomposeTask
  <2>2. list \in Seq(Atom)
    BY ManagerAssumption
  <2>3. Indexes' = 1..Len(list) /\ Len(list) \in Nat
    BY <2>1, <2>2, PlanTypes DEF Indexes
  <2>4. submitted' = {} /\ mpc' = "dispatch"
    BY <1>1, NothingBefore DEF DecomposeTask, Before
  <2>5. Indexes' \ submitted' = 1..Len(list)
    BY <2>3, <2>4
  <2>6. Cardinality(1..Len(list)) = Len(list)
    <3>1. Cardinality(1..Len(list)) = IF 1 > Len(list) THEN 0 ELSE Len(list) - 1 + 1
      BY <2>3, FS_Interval
    <3>2. QED
      BY <2>3, <3>1
  <2>7. EnoughWaves'
    <3>1. Cardinality(Indexes' \ submitted') = Len(list) /\ waves' = Len(list) + 1
      BY <2>1, <2>5, <2>6 DEF WavesFor
    <3>2. QED
      BY <2>3, <3>1 DEF EnoughWaves
  <2>8. QED
    BY <2>4, <2>7 DEF OnlyUnresolvableSkipped
<1>2. CASE SubmitWave
  <2>1. /\ mpc = "dispatch" /\ mpc' = "dispatch" /\ UNCHANGED atoms
        /\ waves > 0 /\ waves' = waves - 1 /\ Ready # {}
        /\ submitted' = submitted \union Ready
    BY <1>2 DEF SubmitWave
  <2>2. Ready \subseteq Indexes \ submitted
    BY <1>2 DEF SubmitWave, Ready, InFlight
  <2>3. Indexes' = Indexes
    BY <2>1 DEF Indexes
  <2> DEFINE A == Indexes \ submitted
             B == Indexes \ submitted'
  <2>4. B \subseteq A /\ B # A
    BY <2>1, <2>2
  <2>5. IsFiniteSet(A) /\ Cardinality(A) \in Nat /\ Cardinality(B) \in Nat
    BY IndexesFinite
  <2>6. Cardinality(B) < Cardinality(A)
    BY <2>4, <2>5, FS_Subset
  <2>7. waves > Cardinality(A)
    BY <2>1 DEF EnoughWaves
  <2>8. waves' > Cardinality(B)
    <3> HIDE DEF A, B
    <3>1. QED
      BY <2>1, <2>5, <2>6, <2>7 DEF ManagerTypeOK
  <2>9. QED
    BY <2>1, <2>3, <2>8 DEF EnoughWaves, OnlyUnresolvableSkipped
<1>3. CASE EndDispatch
  <2>1. mpc' = "validate" /\ UNCHANGED <<atoms, collected>>
    BY <1>3 DEF EndDispatch, waveVars
  <2>2. waves # 0
    <3>1. Cardinality(Indexes \ submitted) \in Nat
      BY IndexesFinite
    <3>2. waves > Cardinality(Indexes \ submitted)
      BY <1>3 DEF EndDispatch, EnoughWaves
    <3>3. QED
      BY <3>1, <3>2
  <2>3. Unresolvable(Indexes \ collected)
    <3>1. CASE collected = Indexes
      BY <3>1 DEF Unresolvable
    <3>2. CASE Ready = {}
      <4> SUFFICES ASSUME NEW i \in Indexes \ collected
                   PROVE  \E d \in atoms[i].deps : \/ IndexOf(d) = {}
                                                  \/ \E j \in IndexOf(d) : j \in Indexes \ collected
        BY DEF Unresolvable
      <4>1. PICK d \in atoms[i].deps : ~Met(d)
        BY <3>2 DEF Ready
      <4>2. \A j \in IndexOf(d) : j \in Indexes \ collected
        BY <4>1 DEF Met, IndexOf
      <4>3. QED
        BY <4>2
    <3>3. QED
      BY <1>3, <2>2, <3>1, <3>2 DEF EndDispatch
  <2>4. QED
    BY <2>1, <2>3 DEF EnoughWaves, OnlyUnresolvableSkipped, Unresolvable, Indexes, IndexOf
<1>4. CASE \/ (\E i \in Indexes : WorkerExecutes(i)) \/ Collect \/ RetryAtomic
  <2>1. mpc = "dispatch" /\ UNCHANGED <<mpc, atoms, waves, submitted>>
    BY <1>4 DEF WorkerExecutes, Collect, RetryAtomic
  <2>2. QED
    BY <2>1 DEF EnoughWaves, OnlyUnresolvableSkipped, Indexes
<1>5. CASE BeginProcess \/ DecomposeMisparsed \/ DecomposeFails \/ ApproveTrusted \/ Judge
  <2>1. mpc' # "dispatch" /\ mpc' # "validate"
    <3>1. CASE BeginProcess \/ DecomposeMisparsed \/ DecomposeFails
      BY <3>1 DEF BeginProcess, DecomposeMisparsed, DecomposeFails, MtReturn, MtFail
    <3>2. CASE ApproveTrusted \/ Judge
      BY <3>2 DEF ApproveTrusted, Judge, Approve, MtReturn
    <3>3. QED
      BY <1>5, <3>1, <3>2
  <2>2. QED
    BY <2>1 DEF EnoughWaves, OnlyUnresolvableSkipped
<1>6. CASE UNCHANGED managerVars
  BY <1>6 DEF managerVars, waveVars, EnoughWaves, OnlyUnresolvableSkipped, Unresolvable,
              Indexes, IndexOf
<1>7. QED
  BY <1>1, <1>2, <1>3, <1>4, <1>5, <1>6 DEF MtNext, MtSteps

-----------------------------------------------------------------------------
(* Reports.                                                                 *)

LEMMA TrustNext ==
  ASSUME ManagerTypeOK, TrustInv, [MtNext]_managerVars
  PROVE  TrustInv'
<1> USE DEF TrustInv
<1>1. CASE BeginProcess \/ DecomposeMisparsed \/ DecomposeFails
  BY <1>1 DEF BeginProcess, DecomposeMisparsed, DecomposeFails, MtFail, MtReturn
<1>2. CASE DecomposeTask \/ SubmitWave \/ EndDispatch
  BY <1>2 DEF DecomposeTask, SubmitWave, EndDispatch
<1>3. CASE (\E i \in Indexes : WorkerExecutes(i)) \/ Collect \/ RetryAtomic
  BY <1>3 DEF WorkerExecutes, Collect, RetryAtomic
<1>4. CASE ApproveTrusted
  <2>1. UNCHANGED <<atoms, results, creation>> /\ Trusted /\ mpc' = "returned"
    BY <1>4 DEF ApproveTrusted, waveVars, Approve, MtReturn
  <2>2. Trusted'
    BY <2>1 DEF Trusted, AllFastPath, Indexes
  <2>3. QED
    BY <2>1, <2>2
<1>5. CASE Judge
  BY <1>5 DEF Judge, Approve, MtReturn
<1>6. CASE UNCHANGED managerVars
  BY <1>6 DEF managerVars, waveVars, Trusted, AllFastPath, Indexes
<1>7. QED
  BY <1>1, <1>2, <1>3, <1>4, <1>5, <1>6 DEF MtNext, MtSteps

-----------------------------------------------------------------------------
(* The theorems.                                                            *)

ManagerInv == ManagerTypeOK /\ TriesInv /\ SkipInv /\ TrustInv

LEMMA ManagerInit == MtInit => ManagerInv
<1> SUFFICES ASSUME MtInit PROVE ManagerInv
  OBVIOUS
<1> AtomicRetries \in Nat
  BY ManagerAssumption
<1>1. Indexes = {}
  BY DEF MtInit, Indexes
<1>2. ManagerTypeOK
  BY <1>1 DEF MtInit, ManagerTypeOK, InFlight
<1>3. TriesInv
  BY <1>1 DEF MtInit, TriesInv, InFlight
<1>4. SkipInv /\ TrustInv
  BY DEF MtInit, SkipInv, EnoughWaves, OnlyUnresolvableSkipped, TrustInv
<1>5. QED
  BY <1>2, <1>3, <1>4 DEF ManagerInv

LEMMA ManagerNext == ManagerInv /\ [MtNext]_managerVars => ManagerInv'
  BY TypesNext, TriesNext, SkipNext, TrustNext DEF ManagerInv

\* max_waves suffices: what process() has not run when it validates are tasks
\* that wait for each other or for an id no task has.
THEOREM WavesSuffice == MtSpec => []OnlyUnresolvableSkipped
<1>1. ManagerInv => OnlyUnresolvableSkipped
  BY DEF ManagerInv, SkipInv
<1>2. QED
  BY <1>1, ManagerInit, ManagerNext, PTL DEF MtSpec

\* A task whose result stands as Failed was executed once by its wave and
\* max_atomic_retries_ times by retry_atomic(); no task is executed more often
\* and none is collected unexecuted.
THEOREM FailedIsExhausted == MtSpec => []FailedMeansExhausted
<1>1. ASSUME ManagerInv PROVE FailedMeansExhausted
  <2> AtomicRetries \in Nat
    BY ManagerAssumption
  <2> SUFFICES ASSUME NEW i \in Indexes
               PROVE  /\ tries[i] <= 1 + AtomicRetries
                      /\ i \in collected => tries[i] > 0
                      /\ results[i].status = "Failed" => tries[i] = 1 + AtomicRetries
    BY DEF FailedMeansExhausted
  <2>1. i \in collected \/ (i \in InFlight /\ i \notin executing) \/ i \in executing
        \/ i \in Indexes \ submitted
    BY DEF InFlight
  <2>2. CASE i \in collected
    BY <1>1, <2>2 DEF ManagerInv, TriesInv
  <2>3. CASE i \in Indexes \ submitted
    BY <1>1, <2>3, OutcomeFacts DEF ManagerInv, ManagerTypeOK, TriesInv
  <2>4. CASE i \in executing
    BY <1>1, <2>4, OutcomeFacts DEF ManagerInv, ManagerTypeOK, TriesInv, InFlight
  <2>5. CASE i \in InFlight /\ i \notin executing
    BY <1>1, <2>5, OutcomeFacts DEF ManagerInv, ManagerTypeOK, TriesInv, InFlight
  <2>6. QED
    BY <2>1, <2>2, <2>3, <2>4, <2>5
<1>2. QED
  BY <1>1, ManagerInit, ManagerNext, PTL DEF MtSpec

\* A subtask approved without the LLM has run all its tasks, and each returned
\* raw tool output.
THEOREM TrustIsEarned == MtSpec => []TrustedOnlyIfAllRan
<1>1. ASSUME ManagerInv PROVE TrustedOnlyIfAllRan
  <2> SUFFICES ASSUME report = "Done", ~judged
               PROVE  /\ collected = Indexes /\ ~creation
                      /\ \A i \in Indexes : results[i].status = "Done" /\ results[i].fast
    BY DEF TrustedOnlyIfAllRan
  <2>1. Trusted
    BY <1>1 DEF ManagerInv, TrustInv
  <2>2. ~creation /\ \A i \in Indexes : results[i].status = "Done" /\ results[i].fast
    BY <2>1 DEF Trusted, AllFastPath
  <2>3. \A i \in Indexes \ collected : results[i] = Default
    BY <1>1 DEF ManagerInv, TriesInv, InFlight
  <2>4. collected \subseteq Indexes
    BY <1>1 DEF ManagerInv, ManagerTypeOK
  <2>5. QED
    BY <2>2, <2>3, <2>4, OutcomeFacts
<1>2. QED
  BY <1>1, ManagerInit, ManagerNext, PTL DEF MtSpec

-----------------------------------------------------------------------------
(* The state file.                                                          *)

Places == {"idle", "lock", "read", "open", "flush", "unlock"}

Entry == Nat \union {Theirs}

SfTypeOK ==
    /\ lpc \in [Writers -> Places] /\ latest \in [Agents -> Nat] /\ moves \in Nat
    /\ lost \in [Agents -> BOOLEAN] /\ overlap \in BOOLEAN
    /\ starting \subseteq {"us", "them"}
    /\ seen \in [Writers -> [Agents -> Entry]]
    /\ text \in [Agents -> Entry] \union {Torn}

\* The transition of b that the file is not yet to hold.
Pending(b) == lpc[b] \in {"lock", "read", "open", "flush"}

\* What f says of each agent is its latest snapshot, unless the write of that one
\* is pending or the entry is lost.
Good(f) ==
    /\ f \in [Agents -> Entry]
    /\ \A b \in Agents : lost[b] \/ Pending(b) \/ f[b] = latest[b]

\* One at a time has the file in hand.
Alone ==
    /\ \A v, w \in Writers : Writing(v) /\ Writing(w) => v = w
    /\ starting # {} => text = Nobody /\ \A w \in Writers : ~Writing(w)
    /\ \A p, q \in starting : p = q

\* What is not in the file is with the one that writes.
Kept ==
    \A w \in Writers :
        /\ lpc[w] \in {"open", "flush"} => Good(seen[w])
        /\ lpc[w] = "flush" => text = Nobody

Whole == (\A w \in Writers : lpc[w] # "flush") => Good(text)

\* LostForKnownReasons speaks of a quiet file only; this is what holds in between.
FileInv == SfTypeOK /\ (~overlap => Alone /\ Kept /\ Whole)

\* A text that parses is not one that does not.
LEMMA ParsesIsWhole ==
  ASSUME NEW f \in [Agents -> Entry]
  PROVE  f # Torn
<1>1. CASE Agents = {"torn"}
  <2>1. f["torn"] \in Nat \union {-1} /\ Torn["torn"] = -2
    BY <1>1 DEF Torn, Entry, Theirs
  <2>2. QED
    BY <2>1
<1>2. CASE Agents # {"torn"}
  <2>1. DOMAIN f = Agents /\ DOMAIN Torn = {"torn"}
    BY DEF Torn
  <2>2. QED
    BY <2>1, <1>2
<1>3. QED
  BY <1>1, <1>2

LEMMA NobodyIsText == Nobody \in [Agents -> Entry] /\ Nobody \in [Agents -> Nat]
BY DEF Nobody, Entry

LEMMA FileInit == SfInit => FileInv
<1> SUFFICES ASSUME SfInit PROVE FileInv
  OBVIOUS
<1>1. SfTypeOK
  BY NobodyIsText DEF SfInit, SfTypeOK, Places, Nobody
<1>2. \A w \in Writers : lpc[w] = "idle"
  BY DEF SfInit
<1>3. \A b \in Agents : text[b] = latest[b]
  BY DEF SfInit
<1>4. Good(text)
  BY <1>3, NobodyIsText DEF SfInit, Good
<1>5. QED
  BY <1>1, <1>2, <1>4 DEF SfInit, FileInv, Alone, Kept, Whole, Writing

\* What a writer writes is an entry.
LEMMA SnapshotIsEntry ==
  ASSUME SfTypeOK, NEW w \in Writers
  PROVE  Snapshot(w) \in Entry
BY DEF SfTypeOK, Snapshot, Entry, Theirs, Writers

LEMMA FileTypeNext == SfTypeOK /\ [SfNext]_sfVars => SfTypeOK'
<1> SUFFICES ASSUME SfTypeOK, [SfNext]_sfVars PROVE SfTypeOK'
  OBVIOUS
<1> USE NobodyIsText
<1>1. CASE UNCHANGED sfVars
  BY <1>1 DEF SfTypeOK, sfVars, snapshots
<1>2. CASE StartGoal
  BY <1>2 DEF SfTypeOK, StartGoal, InitOpens, InUse
<1>3. CASE OtherStartsGoal
  BY <1>3 DEF SfTypeOK, OtherStartsGoal, InitOpens, InUse, snapshots
<1>4. ASSUME NEW p \in {"us", "them"}, InitCloses(p)
      PROVE  SfTypeOK'
  BY <1>4 DEF SfTypeOK, InitCloses, snapshots
<1>5. ASSUME NEW a \in Agents, Transition(a)
      PROVE  SfTypeOK'
  BY <1>5 DEF SfTypeOK, Transition, LGoto, Places, Writers
<1>6. ASSUME NEW o \in Others, OtherTransition(o)
      PROVE  SfTypeOK'
  BY <1>6 DEF SfTypeOK, OtherTransition, LGoto, Places, Writers, snapshots
<1>7. ASSUME NEW w \in Writers, TryLock(w) \/ GiveUp(w) \/ OpenState(w) \/ Unlock(w)
      PROVE  SfTypeOK'
  BY <1>7 DEF SfTypeOK, TryLock, GiveUp, OpenState, Unlock, LGoto, Places, InUse, snapshots
<1>8. ASSUME NEW w \in Writers, ReadState(w)
      PROVE  SfTypeOK'
  BY <1>8 DEF SfTypeOK, ReadState, LGoto, Places, snapshots
<1>9. ASSUME NEW w \in Writers, FlushState(w)
      PROVE  SfTypeOK'
  <2>1. PICK a \in Entries(w) :
            /\ text' \in {[seen[w] EXCEPT ![a] = Snapshot(w)]}
                            \union (IF text = Nobody THEN {} ELSE {Torn})
            /\ lost' = [lost EXCEPT ![a] = w \notin Agents]
    BY <1>9 DEF FlushState
  <2>2. [seen[w] EXCEPT ![a] = Snapshot(w)] \in [Agents -> Entry]
    BY SnapshotIsEntry DEF SfTypeOK
  <2>3. text' \in [Agents -> Entry] \union {Torn}
    BY <2>1, <2>2
  <2>4. QED
    BY <1>9, <2>1, <2>3 DEF SfTypeOK, FlushState, LGoto, Places, snapshots
<1>10. QED
  BY <1>1, <1>2, <1>3, <1>4, <1>5, <1>6, <1>7, <1>8, <1>9 DEF SfNext, WriteState

\* A step that takes w to l, and changes no snapshot, keeps a good text good: no
\* agent stops pending in it but by giving up.
LEMMA MoveKeepsGood ==
  ASSUME NEW w \in Writers, NEW f, Good(f), SfTypeOK, UNCHANGED latest,
         NEW l, lpc' = [lpc EXCEPT ![w] = l],
         \A b \in Agents : lost[b] => lost'[b],
         w \in Agents /\ Pending(w) => lost'[w] \/ l \in {"lock", "read", "open", "flush"}
  PROVE  Good(f)'
<1>1. ASSUME NEW b \in Writers, b # w
      PROVE  lpc'[b] = lpc[b]
  BY <1>1 DEF SfTypeOK
<1>2. lpc'[w] = l
  BY DEF SfTypeOK
<1>3. ASSUME NEW b \in Agents
      PROVE  lost'[b] \/ Pending(b)' \/ f[b] = latest'[b]
  <2>1. b \in Writers
    BY DEF Writers
  <2>2. QED
    BY <2>1, <1>1, <1>2 DEF Good, Pending
<1>4. QED
  BY <1>3 DEF Good

\* Only w has the file in hand, before and after a step of its write.
LEMMA OneWrites ==
  ASSUME NEW w \in Writers, Writing(w), Alone, SfTypeOK, UNCHANGED starting,
         NEW l \in {"open", "flush", "unlock", "idle"}, lpc' = [lpc EXCEPT ![w] = l]
  PROVE  /\ lpc'[w] = l /\ Alone' /\ starting = {}
         /\ \A v \in Writers \ {w} : lpc'[v] = lpc[v] /\ ~Writing(v) /\ ~Writing(v)'
BY DEF SfTypeOK, Alone, Writing

LEMMA FileNext == FileInv /\ [SfNext]_sfVars => FileInv'
<1> SUFFICES ASSUME FileInv, [SfNext]_sfVars, ~overlap' PROVE (Alone /\ Kept /\ Whole)'
  BY FileTypeNext DEF FileInv
<1>a. SfTypeOK /\ SfTypeOK'
  BY FileTypeNext DEF FileInv
<1>b. ~overlap => Alone /\ Kept /\ Whole
  BY DEF FileInv
<1>1. CASE UNCHANGED sfVars
  BY <1>1, <1>b DEF sfVars, snapshots, Alone, Kept, Whole, Writing, Good, Pending
<1>2. CASE StartGoal
  <2>1. /\ starting = {} /\ starting' = {"us"} /\ lpc' = lpc /\ \A w \in Writers : ~Writing(w)
        /\ text' = Nobody /\ latest' = Nobody
    BY <1>2 DEF StartGoal, InitOpens, InUse
  <2>2. Good(text)'
    BY <2>1, NobodyIsText DEF Good
  <2>3. QED
    BY <2>1, <2>2 DEF Alone, Kept, Whole, Writing
<1>3. CASE OtherStartsGoal
  <2>1. /\ starting = {} /\ starting' = {"them"} /\ lpc' = lpc /\ \A w \in Writers : ~Writing(w)
        /\ text' = Nobody /\ \A b \in Agents : lost'[b]
    BY <1>3 DEF OtherStartsGoal, InitOpens, InUse
  <2>2. Good(text)'
    BY <2>1, NobodyIsText DEF Good
  <2>3. QED
    BY <2>1, <2>2 DEF Alone, Kept, Whole, Writing
<1>4. ASSUME NEW p \in {"us", "them"}, InitCloses(p)
      PROVE  (Alone /\ Kept /\ Whole)'
  <2>1. Alone /\ Kept /\ Whole
    BY <1>4, <1>b DEF InitCloses
  <2>2. /\ text = Nobody /\ starting = {p} /\ \A w \in Writers : ~Writing(w)
    BY <1>4, <2>1 DEF Alone, InitCloses
  <2>3. /\ text' = text /\ starting' = {} /\ lpc' = lpc /\ latest' = latest /\ lost' = lost
    BY <1>4, <2>2 DEF InitCloses, snapshots
  <2>4. QED
    BY <2>1, <2>2, <2>3 DEF Alone, Kept, Whole, Writing, Good, Pending
<1>5. ASSUME NEW a \in Agents, Transition(a)
      PROVE  (Alone /\ Kept /\ Whole)'
  <2>1. Alone /\ Kept /\ Whole
    BY <1>5, <1>b DEF Transition
  <2>2. a \in Writers
    BY DEF Writers
  <2>3. /\ lpc[a] = "idle" /\ lpc'[a] = "lock" /\ \A w \in Writers \ {a} : lpc'[w] = lpc[w]
        /\ UNCHANGED <<seen, text, lost, starting>>
        /\ \A b \in Agents \ {a} : latest'[b] = latest[b]
    BY <1>5, <1>a, <2>2 DEF SfTypeOK, Transition, LGoto
  <2>4. ASSUME NEW f, Good(f) PROVE Good(f)'
    BY <2>3, <2>4 DEF Good, Pending, Writers
  <2>5. Alone'
    BY <2>1, <2>3 DEF Alone, Writing
  <2>6. Kept'
    BY <2>1, <2>3, <2>4 DEF Kept
  <2>7. Whole'
    BY <2>1, <2>3, <2>4 DEF Whole
  <2>8. QED
    BY <2>5, <2>6, <2>7
<1>6. ASSUME NEW w \in Writers, NEW l \in {"lock", "idle", "read"},
             lpc[w] \in {"idle", "lock"}, lpc' = [lpc EXCEPT ![w] = l],
             l = "read" => ~InUse,
             ~overlap, UNCHANGED <<seen, text, starting, latest>>,
             \A b \in Agents : lost[b] => lost'[b],
             w \in Agents /\ Pending(w) => lost'[w] \/ l \in {"lock", "read"}
      PROVE  (Alone /\ Kept /\ Whole)'
  <2>1. Alone /\ Kept /\ Whole
    BY <1>6, <1>b
  <2>2. lpc'[w] = l /\ \A v \in Writers \ {w} : lpc'[v] = lpc[v]
    BY <1>6, <1>a DEF SfTypeOK
  <2>3. \A f : Good(f) => Good(f)'
    BY <1>6, <1>a, MoveKeepsGood
  <2>4. Alone'
    BY <1>6, <2>1, <2>2 DEF Alone, Writing, InUse
  <2>5. Kept'
    BY <1>6, <2>1, <2>2, <2>3 DEF Kept
  <2>6. Whole'
    BY <1>6, <2>1, <2>2, <2>3 DEF Whole
  <2>7. QED
    BY <2>4, <2>5, <2>6
<1>7. ASSUME NEW o \in Others, OtherTransition(o)
      PROVE  (Alone /\ Kept /\ Whole)'
  <2>1. o \in Writers
    BY DEF Writers
  <2>2. QED
    BY <1>6, <1>7, <2>1 DEF OtherTransition, LGoto, snapshots, Pending
<1>8. ASSUME NEW w \in Writers, TryLock(w)
      PROVE  (Alone /\ Kept /\ Whole)'
  BY <1>6, <1>8 DEF TryLock, LGoto, snapshots
<1>9. ASSUME NEW w \in Writers, GiveUp(w)
      PROVE  (Alone /\ Kept /\ Whole)'
  <2>1. \A b \in Agents : lost[b] => lost'[b]
    BY <1>9 DEF GiveUp
  <2>2. w \in Agents => lost'[w]
    BY <1>9 DEF GiveUp
  <2>3. QED
    BY <1>6, <1>9, <2>1, <2>2 DEF GiveUp, LGoto, snapshots
<1>10. ASSUME NEW w \in Writers, ReadState(w)
       PROVE  (Alone /\ Kept /\ Whole)'
  <2>1. /\ lpc[w] = "read" /\ lpc' = [lpc EXCEPT ![w] = "open"]
        /\ UNCHANGED <<text, latest, lost, starting>> /\ ~overlap
    BY <1>10 DEF ReadState, LGoto, snapshots
  <2>2. Alone /\ Kept /\ Whole
    BY <2>1, <1>b
  <2>3. /\ lpc'[w] = "open" /\ Alone' /\ starting = {}
        /\ \A v \in Writers \ {w} : lpc'[v] = lpc[v] /\ ~Writing(v) /\ ~Writing(v)'
    BY <2>1, <2>2, <1>a, OneWrites DEF Writing
  <2>4. Good(text)
    BY <2>1, <2>2, <2>3 DEF Whole, Writing
  <2>5. Good(text)'
    BY <2>1, <2>4, <1>a, MoveKeepsGood
  <2>6. seen'[w] = text
    BY <1>10, <1>a, <2>4, ParsesIsWhole DEF ReadState, SfTypeOK, Good
  <2>7. Good(seen[w])'
    BY <2>1, <2>5, <2>6 DEF Good
  <2>8. Kept'
    BY <2>3, <2>7 DEF Writing, Kept
  <2>9. QED
    BY <2>3, <2>5, <2>8 DEF Whole
<1>11. ASSUME NEW w \in Writers, OpenState(w)
       PROVE  (Alone /\ Kept /\ Whole)'
  <2>1. /\ lpc[w] = "open" /\ lpc' = [lpc EXCEPT ![w] = "flush"] /\ text' = Nobody
        /\ UNCHANGED <<seen, latest, lost, starting>> /\ ~overlap
    BY <1>11 DEF OpenState, LGoto, snapshots
  <2>2. Alone /\ Kept /\ Whole
    BY <2>1, <1>b
  <2>3. /\ lpc'[w] = "flush" /\ Alone' /\ starting = {}
        /\ \A v \in Writers \ {w} : lpc'[v] = lpc[v] /\ ~Writing(v) /\ ~Writing(v)'
    BY <2>1, <2>2, <1>a, OneWrites DEF Writing
  <2>4. Good(seen[w])'
    <3>1. Good(seen[w]) /\ seen[w]' = seen[w]
      BY <2>1, <2>2 DEF Kept
    <3>2. QED
      BY <2>1, <3>1, <1>a, MoveKeepsGood
  <2>5. Kept'
    BY <2>1, <2>3, <2>4, NobodyIsText DEF Writing, Kept, Nobody
  <2>6. QED
    BY <2>3, <2>5 DEF Whole
<1>12. ASSUME NEW w \in Writers, FlushState(w)
       PROVE  (Alone /\ Kept /\ Whole)'
  <2>1. /\ lpc[w] = "flush" /\ lpc' = [lpc EXCEPT ![w] = "unlock"]
        /\ UNCHANGED <<latest, starting>> /\ ~overlap
    BY <1>12 DEF FlushState, LGoto, snapshots
  <2>2. Alone /\ Kept /\ Whole
    BY <2>1, <1>b
  <2>3. /\ lpc'[w] = "unlock" /\ Alone' /\ starting = {}
        /\ \A v \in Writers \ {w} : lpc'[v] = lpc[v] /\ ~Writing(v) /\ ~Writing(v)'
    BY <2>1, <2>2, <1>a, OneWrites DEF Writing
  <2>4. Good(seen[w]) /\ text = Nobody
    BY <2>1, <2>2 DEF Kept
  <2>5. PICK a \in Entries(w) :
            /\ text' = [seen[w] EXCEPT ![a] = Snapshot(w)]
            /\ lost' = [lost EXCEPT ![a] = w \notin Agents]
    BY <1>12, <2>4 DEF FlushState
  <2>6. a \in Agents /\ (w \in Agents => a = w)
    BY DEF Entries
  <2>7. text' \in [Agents -> Entry]
    BY <2>4, <2>5, <2>6, <1>a, SnapshotIsEntry DEF Good
  <2>8. lost'[a] \/ text'[a] = latest'[a]
    BY <2>1, <2>4, <2>5, <2>6, <1>a DEF SfTypeOK, Good, Snapshot
  <2>9. ASSUME NEW b \in Agents, b # a
        PROVE  lost'[b] \/ Pending(b)' \/ text'[b] = latest'[b]
    <3>1. text'[b] = seen[w][b] /\ lost'[b] = lost[b]
      BY <2>4, <2>5, <2>6, <2>9, <1>a DEF SfTypeOK, Good
    <3>2. b # w /\ b \in Writers
      BY <2>6, <2>9 DEF Writers
    <3>3. lpc'[b] = lpc[b]
      BY <2>3, <3>2
    <3>4. QED
      BY <2>1, <2>4, <3>1, <3>3 DEF Good, Pending
  <2>10. Good(text)'
    BY <2>7, <2>8, <2>9 DEF Good
  <2>11. Kept'
    BY <2>3 DEF Writing, Kept
  <2>12. QED
    BY <2>3, <2>10, <2>11 DEF Whole
<1>13. ASSUME NEW w \in Writers, Unlock(w)
       PROVE  (Alone /\ Kept /\ Whole)'
  <2>1. /\ lpc[w] = "unlock" /\ lpc' = [lpc EXCEPT ![w] = "idle"]
        /\ UNCHANGED <<text, latest, lost, starting>> /\ ~overlap
    BY <1>13 DEF Unlock, LGoto, snapshots
  <2>2. Alone /\ Kept /\ Whole
    BY <2>1, <1>b
  <2>3. /\ lpc'[w] = "idle" /\ Alone' /\ starting = {}
        /\ \A v \in Writers \ {w} : lpc'[v] = lpc[v] /\ ~Writing(v) /\ ~Writing(v)'
    BY <2>1, <2>2, <1>a, OneWrites DEF Writing
  <2>4. Good(text)
    BY <2>1, <2>2, <2>3 DEF Whole, Writing
  <2>5. Good(text)'
    BY <2>1, <2>4, <1>a, MoveKeepsGood DEF Pending
  <2>6. Kept'
    BY <2>3 DEF Writing, Kept
  <2>7. QED
    BY <2>3, <2>5, <2>6 DEF Whole
<1>14. QED
  BY <1>1, <1>2, <1>3, <1>4, <1>5, <1>7, <1>8, <1>9, <1>10, <1>11, <1>12, <1>13
     DEF SfNext, WriteState

\* When nobody writes state.md, every agent's latest snapshot is in it unless it
\* was given up or the other process has been at the entry or the file since, or
\* two have had the file open at once: for every number of agents, of goals and of
\* transitions, whatever the other process writes and when.
THEOREM SnapshotsAreKept == SfSpec => []LostForKnownReasons
<1>1. ASSUME FileInv PROVE LostForKnownReasons
  <2>1. SUFFICES ASSUME Quiet, ~overlap
                 PROVE  text # Torn /\ \A a \in Agents : lost[a] \/ text[a] = latest[a]
    BY DEF LostForKnownReasons
  <2>2. Good(text)
    BY <1>1, <2>1 DEF FileInv, Quiet, Whole
  <2>3. QED
    BY <2>1, <2>2, ParsesIsWhole DEF Good, Quiet, Pending, Writers
<1>2. QED
  BY <1>1, FileInit, FileNext, PTL DEF SfSpec
=============================================================================
