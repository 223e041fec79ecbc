-------------------------- MODULE DirectorRunProofs --------------------------
(***************************************************************************)
(* The rounds of review of DirectorAgent::run(), for every plan, review,   *)
(* number of rounds and of runs: reports stay with their subtasks, nothing *)
(* is executed a third time, and rejections are settled.                   *)
(***************************************************************************)
EXTENDS DirectorRun, FiniteSetTheorems, WellFoundedInduction, TLAPS

Planning == {"idle", "classify", "direct", "single", "single_answer", "plan", "dispatch"}

RunTypeOK ==
    /\ tasks \in Seq(Task) /\ feedbacks \in Seq(Feedback)
    /\ rejections \in [Ids -> Nat] /\ round \in Nat
    /\ req \in Requests /\ aligned \in BOOLEAN
    /\ DOMAIN executions \subseteq DOMAIN tasks
    /\ \A i \in DOMAIN executions : executions[i] \in Nat

\* Before the dispatch there is nothing a report could be in place of.
PlaceInv ==
    /\ pc \in Planning => reports = << >> /\ executions = << >>
    /\ ReportsInPlace

\* A round that goes on to retry is not the last one.
SettledInv ==
    /\ round <= MaxRetries
    /\ pc = "retry" => round < MaxRetries
    /\ RejectionsSettled

\* What the counts of rejections say of the executions while the reviews list
\* the plan: only what was rejected has run twice, and what is about to run
\* again has run once.
TwiceInv ==
    aligned =>
      /\ pc \in {"rounds", "retry"} => ListsPlan(feedbacks)
      /\ \A i \in DOMAIN executions :
            /\ executions[i] <= 2
            /\ rejections[tasks[i].id] = 0 => executions[i] = 1
      /\ pc = "retry" =>
            \A i \in RejectedAt(feedbacks) : i \in DOMAIN executions =>
                /\ executions[i] = 1
                /\ rejections[tasks[i].id] # 0

-----------------------------------------------------------------------------
(* The operators.                                                           *)

LEMMA LeastExists ==
  ASSUME NEW S, S # {}, S \subseteq Nat
  PROVE  Min(S) \in S
<1>1. PICK a \in S : \A b \in S : <<b, a>> \notin OpToRel(<, Nat)
  BY NatLessThanWellFounded, WFMin, Zenon
<1>2. \A b \in S : ~(b < a)
  BY <1>1, Zenon DEF OpToRel
<1>3. \A b \in S : a <= b
  BY <1>2
<1>4. QED
  BY <1>3 DEF Min

LEMMA FirstOrType ==
  ASSUME NEW ts \in Seq(Task), NEW places, places \subseteq DOMAIN ts,
         NEW default \in Task
  PROVE  FirstOr(ts, places, default) \in Task
<1>1. CASE places = {}
  BY <1>1 DEF FirstOr
<1>2. CASE places # {}
  <2>1. Min(places) \in DOMAIN ts
    BY <1>2, LeastExists
  <2>2. QED
    BY <1>2, <2>1 DEF FirstOr
<1>3. QED
  BY <1>1, <1>2

\* Compaction makes a plan of a plan.
LEMMA CompactType ==
  ASSUME NEW ts \in Seq(Task)
  PROVE  Compact(ts) \in Seq(Task)
<1>1. {"subtask-1", "subtask-2"} \subseteq Ids
  BY DirectorAssumption
<1>2. Verify \in Task
  BY <1>1 DEF Verify, Task
<1>3. \A t \in Task : /\ [t EXCEPT !.id = "subtask-1"] \in Task
                      /\ [t EXCEPT !.id = "subtask-2"] \in Task
  BY <1>1 DEF Task
<1>4. /\ FirstOr(ts, Creates(ts), Verify) \in Task
      /\ FirstOr(ts, Validates(ts), Verify) \in Task
  BY <1>2, FirstOrType DEF Creates, Validates
<1>5. \A a, b \in Task : <<a, b>> \in Seq(Task)
  OBVIOUS
<1>6. <<[FirstOr(ts, Creates(ts), Verify) EXCEPT !.id = "subtask-1"],
        [FirstOr(ts, Validates(ts), Verify) EXCEPT !.id = "subtask-2"]>> \in Seq(Task)
  BY <1>3, <1>4, <1>5
<1>7. QED
  BY <1>6 DEF Compact

\* The pass over the feedbacks counts each rejection.
LEMMA CountedGrows ==
  ASSUME RunTypeOK
  PROVE  /\ Counted \in [Ids -> Nat]
         /\ \A d \in Ids : Counted[d] >= rejections[d]
         /\ \A i \in RejectedAt(feedbacks) : Counted[feedbacks[i].id] > rejections[feedbacks[i].id]
<1> DEFINE Of(d) == {i \in RejectedAt(feedbacks) : feedbacks[i].id = d}
<1>1. \A d \in Ids : IsFiniteSet(Of(d)) /\ Cardinality(Of(d)) \in Nat
  <2>1. DOMAIN feedbacks = 1..Len(feedbacks) /\ Len(feedbacks) \in Nat
    BY DEF RunTypeOK
  <2>2. IsFiniteSet(1..Len(feedbacks))
    BY <2>1, FS_Interval
  <2>3. \A d \in Ids : Of(d) \subseteq 1..Len(feedbacks)
    BY <2>1 DEF RejectedAt
  <2>4. QED
    BY <2>2, <2>3, FS_Subset, FS_CardinalityType
<1>2. \A i \in RejectedAt(feedbacks) :
         feedbacks[i].id \in Ids /\ Cardinality(Of(feedbacks[i].id)) # 0
  <2> TAKE i \in RejectedAt(feedbacks)
  <2>1. feedbacks[i].id \in Ids
    <3>1. feedbacks[i] \in Feedback
      BY DEF RejectedAt, RunTypeOK
    <3>2. QED
      BY <3>1 DEF Feedback
  <2>2. Of(feedbacks[i].id) # {}
    <3>1. i \in Of(feedbacks[i].id)
      OBVIOUS
    <3>2. QED
      BY <3>1
  <2>3. QED
    BY <1>1, <2>1, <2>2, FS_EmptySet
<1> HIDE DEF Of
<1>3. Counted = [d \in Ids |-> rejections[d] + Cardinality(Of(d))]
  BY DEF Counted, Of
<1>4. QED
  BY <1>1, <1>2, <1>3 DEF RunTypeOK

-----------------------------------------------------------------------------
(* Types.                                                                   *)

\* Steps that leave the plan and the loop alone.
Quiet == UNCHANGED <<tasks, feedbacks, rejections, round, req, aligned, executions>>

LEMMA QuietKeepsTypes ==
  ASSUME RunTypeOK, Quiet
  PROVE  RunTypeOK'
  BY DEF RunTypeOK, Quiet

LEMMA QuietSteps ==
  ASSUME \/ Classify \/ AnswerDirectly \/ DispatchSingle \/ AnswerSingle
         \/ DecomposeUnparsed \/ DecomposeThrows \/ RoundsExhausted
         \/ RetryOverruns \/ Synthesise \/ UNCHANGED vars
  PROVE  Quiet /\ UNCHANGED reports
<1> USE DEF Quiet, plan, loop, fixed
<1>1. CASE Classify \/ AnswerDirectly
  BY <1>1 DEF Classify, AnswerDirectly
<1>2. CASE DispatchSingle \/ AnswerSingle
  BY <1>2 DEF DispatchSingle, AnswerSingle
<1>3. CASE DecomposeUnparsed \/ DecomposeThrows
  BY <1>3 DEF DecomposeUnparsed, DecomposeThrows
<1>4. CASE RoundsExhausted \/ RetryOverruns \/ Synthesise
  BY <1>4 DEF RoundsExhausted, RetryOverruns, Synthesise
<1>5. CASE UNCHANGED vars
  BY <1>5 DEF vars
<1>6. QED
  BY <1>1, <1>2, <1>3, <1>4, <1>5

LEMMA NewPlanType ==
  ASSUME RunTypeOK, PlanByRule \/ Decompose
  PROVE  tasks' \in Seq(Task)
<1>1. CASE PlanByRule
  <2>1. <<[id |-> "rule-subtask-1", creates |-> FALSE, validates |-> FALSE]>> \in Seq(Task)
    BY DirectorAssumption DEF Task
  <2>2. QED
    BY <1>1, <2>1, CompactType DEF PlanByRule, TakePlan
<1>2. CASE Decompose
  <2>1. PICK ts \in Plans : tasks' = Compact(ts)
    BY <1>2 DEF Decompose, TakePlan
  <2>2. ts \in Seq(Task)
    BY DirectorAssumption
  <2>3. QED
    BY <2>1, <2>2, CompactType
<1>3. QED
  BY <1>1, <1>2

LEMMA ForcedType ==
  ASSUME RunTypeOK, NEW i \in DOMAIN feedbacks
  PROVE  /\ Forced(Counted, feedbacks[i]) \in Feedback
         /\ Forced(Counted, feedbacks[i]).id = feedbacks[i].id
         /\ ~Forced(Counted, feedbacks[i]).approved =>
                ~feedbacks[i].approved /\ ~(Counted[feedbacks[i].id] >= 2)
<1>1. feedbacks[i] \in Feedback
  BY DEF RunTypeOK
<1>2. CASE Counted[feedbacks[i].id] >= 2
  BY <1>1, <1>2 DEF Forced, Feedback
<1>3. CASE ~(Counted[feedbacks[i].id] >= 2)
  BY <1>1, <1>3 DEF Forced, Feedback
<1>4. QED
  BY <1>2, <1>3

LEMMA ExamineFeedbacks ==
  ASSUME RunTypeOK, Examine
  PROVE  /\ feedbacks' \in Seq(Feedback)
         /\ Len(feedbacks') = Len(feedbacks) /\ DOMAIN feedbacks' = DOMAIN feedbacks
         /\ \A i \in DOMAIN feedbacks : feedbacks'[i] = Forced(Counted, feedbacks[i])
<1>1. feedbacks' = [i \in DOMAIN feedbacks |-> Forced(Counted, feedbacks[i])]
  BY DEF Examine
<1>2. DOMAIN feedbacks = 1..Len(feedbacks) /\ Len(feedbacks) \in Nat
  BY DEF RunTypeOK
<1> HIDE DEF Counted
<1>3. \A i \in DOMAIN feedbacks : Forced(Counted, feedbacks[i]) \in Feedback
  BY ForcedType
<1>4. feedbacks' \in Seq(Feedback) /\ DOMAIN feedbacks' = 1..Len(feedbacks)
  BY <1>1, <1>2, <1>3
<1>5. QED
  BY <1>1, <1>2, <1>4

LEMMA RetryFacts ==
  ASSUME RunTypeOK, Retry
  PROVE  /\ UNCHANGED <<tasks, feedbacks, rejections, aligned>>
         /\ DOMAIN executions' = DOMAIN executions
         /\ \A i \in DOMAIN executions :
               executions'[i] = IF i \in RejectedAt(feedbacks)
                                THEN executions[i] + 1 ELSE executions[i]
         /\ pc' \in {"rounds", "review"}
  BY DEF Retry

LEMMA TypesNext ==
  ASSUME RunTypeOK, PlaceInv, [Next]_vars
  PROVE  RunTypeOK'
<1>1. ASSUME NEW r \in Requests, Start(r)
      PROVE  RunTypeOK'
  BY <1>1 DEF RunTypeOK, Start
<1>2. CASE PlanByRule \/ Decompose
  <2>1. executions = << >>
    BY <1>2 DEF PlaceInv, Planning, PlanByRule, Decompose
  <2>2. UNCHANGED <<feedbacks, rejections, round, req, aligned, executions>>
    BY <1>2 DEF PlanByRule, Decompose, TakePlan, loop, fixed
  <2>3. QED
    BY <1>2, <2>1, <2>2, NewPlanType DEF RunTypeOK
<1>3. CASE Dispatch
  BY <1>3 DEF RunTypeOK, Dispatch, loop, fixed
<1>4. CASE Review
  <2>1. feedbacks' \in Seq(Feedback) /\ aligned' \in BOOLEAN
    <3>1. CASE UNCHANGED <<feedbacks, aligned>>
      BY <3>1 DEF RunTypeOK
    <3>2. CASE \E fs \in Reviews : feedbacks' = fs /\ aligned' = (aligned /\ ListsPlan(fs))
      <4>1. aligned' \in BOOLEAN
        BY <3>2
      <4>2. feedbacks' \in Seq(Feedback)
        BY <3>2, DirectorAssumption
      <4>3. QED
        BY <4>1, <4>2
    <3>3. QED
      BY <1>4, <3>1, <3>2 DEF Review
  <2>2. QED
    BY <1>4, <2>1 DEF RunTypeOK, Review, plan, fixed
<1>5. CASE Examine
  BY <1>5, CountedGrows, ExamineFeedbacks DEF RunTypeOK, Examine, plan, fixed
<1>6. CASE Retry
  <2>1. UNCHANGED req /\ round' \in Nat
    BY <1>6 DEF RunTypeOK, Retry, fixed
  <2>2. \A i \in DOMAIN executions : executions'[i] \in Nat
    BY <1>6, RetryFacts DEF RunTypeOK
  <2>3. QED
    BY <1>6, <2>1, <2>2, RetryFacts DEF RunTypeOK
<1>7. QED
  BY <1>1, <1>2, <1>3, <1>4, <1>5, <1>6, QuietSteps, QuietKeepsTypes DEF Next, Steps

-----------------------------------------------------------------------------
(* Reports and rejections.                                                  *)

\* No phase before the dispatch is entered from one behind it.
LEMMA QuietPlanning ==
  ASSUME \/ Classify \/ AnswerDirectly \/ DispatchSingle \/ AnswerSingle
         \/ DecomposeUnparsed \/ DecomposeThrows \/ RoundsExhausted
         \/ RetryOverruns \/ Synthesise \/ UNCHANGED vars
  PROVE  pc' \in Planning => pc \in Planning
<1> USE DEF Planning
<1>1. CASE Classify \/ DispatchSingle
  BY <1>1 DEF Classify, DispatchSingle
<1>2. CASE AnswerDirectly \/ AnswerSingle
  BY <1>2 DEF AnswerDirectly, AnswerSingle
<1>3. CASE DecomposeUnparsed \/ DecomposeThrows
  BY <1>3 DEF DecomposeUnparsed, DecomposeThrows
<1>4. CASE RoundsExhausted \/ RetryOverruns
  BY <1>4 DEF RoundsExhausted, RetryOverruns
<1>5. CASE Synthesise
  BY <1>5 DEF Synthesise, Complete
<1>6. CASE UNCHANGED vars
  BY <1>6 DEF vars
<1>7. QED
  BY <1>1, <1>2, <1>3, <1>4, <1>5, <1>6

LEMMA PlaceNext ==
  ASSUME RunTypeOK, PlaceInv, [Next]_vars
  PROVE  PlaceInv'
<1>1. ASSUME NEW r \in Requests, Start(r)
      PROVE  PlaceInv'
  <2>1. reports' = << >> /\ executions' = << >>
    BY <1>1 DEF Start
  <2>2. QED
    BY <2>1 DEF PlaceInv, ReportsInPlace
<1>2. CASE PlanByRule \/ Decompose
  <2>1. reports' = << >> /\ executions' = << >>
    BY <1>2 DEF PlaceInv, Planning, PlanByRule, Decompose, TakePlan
  <2>2. QED
    BY <2>1 DEF PlaceInv, ReportsInPlace
<1>3. CASE Dispatch
  BY <1>3 DEF PlaceInv, ReportsInPlace, Planning, Dispatch
<1>4. CASE Review \/ Examine
  <2>1. pc' \notin Planning /\ UNCHANGED <<tasks, reports, executions>>
    <3>1. CASE Review
      BY <3>1 DEF Review, CallFails, Fail, Planning, plan
    <3>2. CASE Examine
      BY <3>2 DEF Examine, Planning, plan
    <3>3. QED
      BY <1>4, <3>1, <3>2
  <2>2. QED
    BY <2>1 DEF PlaceInv, ReportsInPlace
<1>5. CASE Retry
  <2>1. reports' = [i \in DOMAIN reports |->
                      IF i \in RejectedAt(feedbacks)
                      THEN [id |-> tasks[i].id, try |-> reports[i].try + 1]
                      ELSE reports[i]]
    BY <1>5 DEF Retry
  <2>2. \A i \in DOMAIN reports : i \in DOMAIN tasks /\ reports[i] = [id |-> tasks[i].id, try |-> executions[i]]
    BY DEF PlaceInv, ReportsInPlace
  <2>3. \A i \in DOMAIN reports : reports'[i] = [id |-> tasks[i].id, try |-> executions'[i]]
    BY <1>5, <2>1, <2>2, RetryFacts DEF PlaceInv, ReportsInPlace
  <2>4. pc' \notin Planning
    BY <1>5, RetryFacts DEF Planning
  <2>5. QED
    BY <1>5, <2>1, <2>2, <2>3, <2>4, RetryFacts DEF PlaceInv, ReportsInPlace
<1>6. CASE \/ Classify \/ AnswerDirectly \/ DispatchSingle \/ AnswerSingle
           \/ DecomposeUnparsed \/ DecomposeThrows \/ RoundsExhausted
           \/ RetryOverruns \/ Synthesise \/ UNCHANGED vars
  BY <1>6, QuietSteps, QuietPlanning DEF PlaceInv, ReportsInPlace, Quiet
<1>7. QED
  BY <1>1, <1>2, <1>3, <1>4, <1>5, <1>6 DEF Next, Steps

\* What is still rejected after the pass was rejected for the first time.
LEMMA StillRejected ==
  ASSUME RunTypeOK, Examine, NEW i \in RejectedAt(feedbacks')
  PROVE  /\ i \in RejectedAt(feedbacks)
         /\ rejections[feedbacks[i].id] = 0
         /\ rejections'[feedbacks[i].id] # 0
<1>1. i \in DOMAIN feedbacks /\ ~feedbacks'[i].approved
  BY ExamineFeedbacks DEF RejectedAt
<1>2. ~feedbacks[i].approved /\ ~(Counted[feedbacks[i].id] >= 2)
  BY <1>1, ExamineFeedbacks, ForcedType
<1>3. i \in RejectedAt(feedbacks) /\ feedbacks[i].id \in Ids
  <2>1. feedbacks[i] \in Feedback
    BY <1>1 DEF RunTypeOK
  <2>2. QED
    BY <1>1, <1>2, <2>1 DEF RejectedAt, Feedback
<1>4. rejections' = Counted
  BY DEF Examine
<1> HIDE DEF Counted
<1>5. /\ Counted[feedbacks[i].id] > rejections[feedbacks[i].id]
      /\ Counted[feedbacks[i].id] \in Nat /\ rejections[feedbacks[i].id] \in Nat
  BY <1>3, CountedGrows DEF RunTypeOK
<1>6. QED
  BY <1>2, <1>3, <1>4, <1>5

LEMMA SettledNext ==
  ASSUME RunTypeOK, SettledInv, [Next]_vars
  PROVE  SettledInv'
<1> MaxRetries \in Nat
  BY DirectorAssumption
<1> USE DEF SettledInv, RejectionsSettled
<1>1. ASSUME NEW r \in Requests, Start(r)
      PROVE  SettledInv'
  BY <1>1 DEF Start
<1>2. CASE Classify
  BY <1>2 DEF Classify, PhaseOf, loop
<1>3. CASE AnswerDirectly \/ AnswerSingle
  BY <1>3 DEF AnswerDirectly, AnswerSingle, Complete, Fail, loop
<1>4. CASE DispatchSingle \/ RetryOverruns
  BY <1>4 DEF DispatchSingle, RetryOverruns, loop
<1>5. CASE PlanByRule \/ Decompose
  BY <1>5 DEF PlanByRule, Decompose, TakePlan, loop
<1>6. CASE DecomposeUnparsed \/ DecomposeThrows
  BY <1>6 DEF DecomposeUnparsed, DecomposeThrows, Fail, loop
<1>7. CASE Dispatch
  BY <1>7 DEF Dispatch, loop
<1>8. CASE Review
  BY <1>8 DEF Review, CallFails, Fail
<1>9. CASE Examine
  <2>1. round < MaxRetries /\ UNCHANGED round
    BY <1>9 DEF Examine
  <2>2. pc' = "synthesise" => RejectedAt(feedbacks') = {}
    <3> SUFFICES ASSUME pc' = "synthesise", NEW i \in RejectedAt(feedbacks')
                 PROVE  FALSE
      OBVIOUS
    <3>1. ~Actionable
      BY <1>9 DEF Examine
    <3>2. QED
      BY <1>9, <3>1, StillRejected DEF Actionable
  <2>3. QED
    BY <2>1, <2>2
<1>10. CASE RoundsExhausted
  BY <1>10 DEF RoundsExhausted, loop, RunTypeOK
<1>11. CASE Retry
  BY <1>11, RetryFacts DEF Retry, RunTypeOK
<1>12. CASE Synthesise
  BY <1>12 DEF Synthesise, Complete, loop
<1>13. CASE UNCHANGED vars
  BY <1>13 DEF vars
<1>14. QED
  BY <1>1, <1>2, <1>3, <1>4, <1>5, <1>6, <1>7, <1>8, <1>9, <1>10, <1>11, <1>12, <1>13
     DEF Next, Steps

\* The loop of rounds is entered through a review and a round.
LEMMA QuietLoop ==
  ASSUME \/ Classify \/ AnswerDirectly \/ DispatchSingle \/ AnswerSingle
         \/ DecomposeUnparsed \/ DecomposeThrows \/ RoundsExhausted
         \/ RetryOverruns \/ Synthesise
  PROVE  pc' \notin {"rounds", "retry"}
<1>1. CASE Classify \/ DispatchSingle
  BY <1>1 DEF Classify, DispatchSingle, PhaseOf
<1>2. CASE AnswerDirectly \/ AnswerSingle
  BY <1>2 DEF AnswerDirectly, AnswerSingle, Complete, Fail
<1>3. CASE DecomposeUnparsed \/ DecomposeThrows
  BY <1>3 DEF DecomposeUnparsed, DecomposeThrows, Fail
<1>4. CASE RoundsExhausted \/ RetryOverruns
  BY <1>4 DEF RoundsExhausted, RetryOverruns
<1>5. CASE Synthesise
  BY <1>5 DEF Synthesise, Complete
<1>6. QED
  BY <1>1, <1>2, <1>3, <1>4, <1>5

LEMMA TwiceExamine ==
  ASSUME RunTypeOK, TwiceInv, Examine
  PROVE  TwiceInv'
<1> SUFFICES ASSUME aligned
             PROVE  /\ ListsPlan(feedbacks')
                    /\ \A i \in DOMAIN executions :
                          /\ executions[i] <= 2
                          /\ rejections'[tasks[i].id] = 0 => executions[i] = 1
                    /\ \A i \in RejectedAt(feedbacks') : i \in DOMAIN executions =>
                          executions[i] = 1 /\ rejections'[tasks[i].id] # 0
  BY DEF TwiceInv, Examine, plan, ListsPlan, RejectedAt
<1>1. ListsPlan(feedbacks)
  BY DEF TwiceInv, Examine
<1>2. ListsPlan(feedbacks')
  <2>1. \A i \in DOMAIN feedbacks : feedbacks'[i].id = feedbacks[i].id
    BY ExamineFeedbacks, ForcedType
  <2>2. QED
    BY <1>1, <2>1, ExamineFeedbacks DEF ListsPlan
<1>3. ASSUME NEW i \in DOMAIN executions
      PROVE  /\ executions[i] <= 2
             /\ rejections'[tasks[i].id] = 0 => executions[i] = 1
  <2>1. tasks[i].id \in Ids
    <3>1. tasks[i] \in Task
      BY DEF RunTypeOK
    <3>2. QED
      BY <3>1 DEF Task
  <2>2. rejections' = Counted
    BY DEF Examine
  <2> HIDE DEF Counted
  <2>3. Counted[tasks[i].id] >= rejections[tasks[i].id]
    BY <2>1, CountedGrows
  <2>4. Counted[tasks[i].id] = 0 => rejections[tasks[i].id] = 0
    BY <2>1, <2>3 DEF RunTypeOK
  <2>5. QED
    BY <2>2, <2>4 DEF TwiceInv
<1>4. ASSUME NEW i \in RejectedAt(feedbacks'), i \in DOMAIN executions
      PROVE  executions[i] = 1 /\ rejections'[tasks[i].id] # 0
  <2>1. feedbacks[i].id = tasks[i].id
    BY <1>1, <1>4, StillRejected DEF ListsPlan, RejectedAt
  <2>2. rejections[tasks[i].id] = 0 /\ rejections'[tasks[i].id] # 0
    BY <2>1, StillRejected
  <2>3. QED
    BY <1>4, <2>2 DEF TwiceInv
<1>5. QED
  BY <1>2, <1>3, <1>4

LEMMA TwiceRetry ==
  ASSUME RunTypeOK, TwiceInv, Retry
  PROVE  TwiceInv'
<1> SUFFICES ASSUME aligned
             PROVE  /\ ListsPlan(feedbacks)
                    /\ \A i \in DOMAIN executions :
                          /\ executions'[i] <= 2
                          /\ rejections[tasks[i].id] = 0 => executions'[i] = 1
  BY RetryFacts DEF TwiceInv, ListsPlan
<1>1. pc = "retry"
  BY DEF Retry
<1>2. ListsPlan(feedbacks)
  BY <1>1 DEF TwiceInv
<1>3. ASSUME NEW i \in DOMAIN executions
      PROVE  /\ executions'[i] <= 2
             /\ rejections[tasks[i].id] = 0 => executions'[i] = 1
  <2>1. CASE i \in RejectedAt(feedbacks)
    BY <1>1, <2>1, RetryFacts DEF TwiceInv
  <2>2. CASE i \notin RejectedAt(feedbacks)
    BY <2>2, RetryFacts DEF TwiceInv
  <2>3. QED
    BY <2>1, <2>2
<1>4. QED
  BY <1>2, <1>3

LEMMA TwiceNext ==
  ASSUME RunTypeOK, PlaceInv, TwiceInv, [Next]_vars
  PROVE  TwiceInv'
<1>1. ASSUME NEW r \in Requests, Start(r)
      PROVE  TwiceInv'
  BY <1>1 DEF Start, TwiceInv
<1>2. CASE PlanByRule \/ Decompose
  <2>1. executions' = << >> /\ pc' = "dispatch"
    BY <1>2 DEF PlaceInv, Planning, PlanByRule, Decompose, TakePlan
  <2>2. QED
    BY <2>1 DEF TwiceInv
<1>3. CASE Dispatch
  BY <1>3 DEF Dispatch, TwiceInv
<1>4. CASE Review
  <2>1. UNCHANGED <<tasks, executions, rejections>>
    BY <1>4 DEF Review, plan
  <2>2. CASE pc' = "rounds" /\ aligned' = (aligned /\ ListsPlan(feedbacks'))
    BY <2>1, <2>2 DEF TwiceInv, ListsPlan
  <2>3. CASE pc' = "failed" /\ aligned' = aligned
    BY <2>1, <2>3 DEF TwiceInv
  <2>4. QED
    BY <1>4, <2>2, <2>3 DEF Review, CallFails, Fail
<1>5. CASE Examine \/ Retry
  BY <1>5, TwiceExamine, TwiceRetry
<1>6. CASE \/ Classify \/ AnswerDirectly \/ DispatchSingle \/ AnswerSingle
           \/ DecomposeUnparsed \/ DecomposeThrows \/ RoundsExhausted
           \/ RetryOverruns \/ Synthesise
  <2>1. pc' \notin {"rounds", "retry"} /\ Quiet
    BY <1>6, QuietLoop, QuietSteps
  <2>2. QED
    BY <2>1 DEF TwiceInv, Quiet
<1>7. CASE UNCHANGED vars
  BY <1>7 DEF vars, TwiceInv, ListsPlan, RejectedAt
<1>8. QED
  BY <1>1, <1>2, <1>3, <1>4, <1>5, <1>6, <1>7 DEF Next, Steps

-----------------------------------------------------------------------------
(* The theorems.                                                            *)

RunInv == RunTypeOK /\ PlaceInv /\ SettledInv /\ TwiceInv

LEMMA RunInit == Init => RunInv
<1> SUFFICES ASSUME Init PROVE RunInv
  OBVIOUS
<1> MaxRetries \in Nat
  BY DirectorAssumption
<1>1. RunTypeOK
  BY DEF Init, RunTypeOK
<1>2. PlaceInv
  BY DEF Init, PlaceInv, ReportsInPlace
<1>3. SettledInv
  BY DEF Init, SettledInv, RejectionsSettled
<1>4. TwiceInv
  BY DEF Init, TwiceInv
<1>5. QED
  BY <1>1, <1>2, <1>3, <1>4 DEF RunInv

LEMMA RunNext == RunInv /\ [Next]_vars => RunInv'
  BY TypesNext, PlaceNext, SettledNext, TwiceNext DEF RunInv

\* review() and synthesise() pair reports with subtasks by position: a report
\* is always that of the subtask at its position and of its last execution.
THEOREM ReportsStayInPlace == Spec => []ReportsInPlace
<1>1. RunInv => ReportsInPlace
  BY DEF RunInv, PlaceInv
<1>2. QED
  BY <1>1, RunInit, RunNext, PTL DEF Spec

\* While the reviews list the plan in its order no subtask is executed a third
\* time by one run, however many rounds are configured.
THEOREM NothingRunsThrice == Spec => []RunTwiceAtMost
<1>1. RunInv => RunTwiceAtMost
  BY DEF RunInv, TwiceInv, RunTwiceAtMost
<1>2. QED
  BY <1>1, RunInit, RunNext, PTL DEF Spec

\* When the answer is written every rejection was re-run, approved by force or
\* made by the review after the last round.
THEOREM RejectionsAreSettled == Spec => []RejectionsSettled
<1>1. RunInv => RejectionsSettled
  BY DEF RunInv, SettledInv
<1>2. QED
  BY <1>1, RunInit, RunNext, PTL DEF Spec
=============================================================================
