-------------------------- MODULE AgentTreeProofs --------------------------
(***************************************************************************)
(* The safety of a dispatch for every number of threads, subtasks, atomic  *)
(* tasks and pooled Managers: who holds what, why nested tasks find a      *)
(* thread, why the waves of a Manager run in order and why nested waiting  *)
(* never comes to a standstill.                                            *)
(***************************************************************************)
EXTENDS AgentTree, FiniteSetTheorems, SequenceTheorems, TLAPS

\* The invariant of the pool of Managers, and the proof that its steps keep it.
MP == INSTANCE ManagerPoolProofs WITH Users <- Subtasks,
                                      TaskTypes <- {TypeOf[m] : m \in Subtasks}

-----------------------------------------------------------------------------
\* An accepted task is in one place: in the queue once, or on one thread.
OnePlace ==
    /\ \A i \in 1..Len(queue) : future[queue[i]] = "pending"
    /\ \A th \in Threads : job[th] # NoTask => future[job[th]] = "pending"
    /\ \A i, j \in 1..Len(queue) : queue[i] = queue[j] => i = j
    /\ \A th \in Threads, i \in 1..Len(queue) : job[th] # queue[i]
    /\ \A s, t \in Threads : job[s] = job[t] /\ job[s] # NoTask => s = t

\* Only a Manager that waits for a wave retries one of its tasks.
RetryInWave ==
    \A m \in Subtasks : retry[m] > 0 => mgr[m] = "dispatch" /\ OpenWaves(m) # {}

\* A subtask holds a Manager exactly while process() has it.
HoldsAtWork == \A m \in Subtasks : AtWork(m) <=> holding[m] # 0

IInv == TypeOK /\ OnePlace /\ RetryInWave /\ HoldsAtWork /\ MP!PoolInv

USE DEF threadVars, poolVars, mgrVars

-----------------------------------------------------------------------------
(* What the operators of a Manager return                                  *)

LEMMA LowestIsIn ==
  ASSUME NEW S, S # {}, S \subseteq Atoms
  PROVE  Lowest(S) \in Atoms /\ Lowest(S) \in S
<1>1. \E a \in S : \A b \in S : a <= b
  BY MP!LeastExists, AtomsAssumption
<1>2. QED
  BY <1>1 DEF Lowest

\* The current wave is one of the plan's, and it has results to come.
LEMMA WaveIsOpen ==
  ASSUME NEW m \in Subtasks, plan[m] \in Plans \cup {<<>>}, OpenWaves(m) # {}
  PROVE  Wave(m) \subseteq Atoms /\ Wave(m) \ collected[m] # {}
<1> DEFINE k == CHOOSE k \in OpenWaves(m) : \A l \in OpenWaves(m) : k <= l
<1>1. plan[m] \in Seq(SUBSET Atoms)
  BY PlansAssumption, EmptySeq
<1>2. Len(plan[m]) \in Nat
  BY <1>1, LenProperties
<1>3. OpenWaves(m) \subseteq Nat
  BY <1>2 DEF OpenWaves
<1>4. \E a \in OpenWaves(m) : \A b \in OpenWaves(m) : a <= b
  BY <1>3, MP!LeastExists
<1>5. k \in OpenWaves(m)
  BY <1>4
<1>6. Wave(m) = plan[m][k]
  BY DEF Wave
<1> HIDE DEF k
<1>7. k \in 1..Len(plan[m]) /\ ~(plan[m][k] \subseteq collected[m])
  BY <1>5 DEF OpenWaves
<1>8. plan[m][k] \in SUBSET Atoms
  BY <1>1, <1>7, ElementOfSeq
<1>9. QED
  BY <1>6, <1>7, <1>8

-----------------------------------------------------------------------------
(* The dispatch uses the pool and the Managers only through their steps    *)

LEMMA MgrTaskIsTask == \A m \in Subtasks : MgrTask(m) \in PoolTasks
  BY DEF MgrTask, PoolTasks

LEMMA SubmitsWaveTask ==
  ASSUME NEW m \in Subtasks, TypeOK, OpenWaves(m) # {}, Unsubmitted(m) # {}
  PROVE  <<m, Lowest(Unsubmitted(m))>> \in Subtasks \X Atoms
<1>1. Wave(m) \subseteq Atoms
  BY WaveIsOpen DEF TypeOK
<1>2. QED
  BY <1>1, LowestIsIn DEF Unsubmitted

\* What a step of the dispatch is to the thread pool.
LEMMA QueueStep == TypeOK /\ [Next]_vars => [Pool!Next]_threadVars
<1> SUFFICES ASSUME TypeOK, [Next]_vars PROVE [Pool!Next]_threadVars
  OBVIOUS
<1>1. CASE Director
  <2>1. ASSUME DirSubmit PROVE Pool!Next
    <3>1. MgrTask(dir.sub) \in PoolTasks
      BY MgrTaskIsTask DEF TypeOK
    <3>2. Pool!Submit(Owner, MgrTask(dir.sub))
      BY <2>1 DEF DirSubmit
    <3>3. QED
      BY <3>1, <3>2 DEF Pool!Next
  <2>2. ASSUME DirFinish PROVE Pool!Next
    BY <2>2 DEF DirFinish, Pool!Next
  <2>3. QED
    BY <1>1, <2>1, <2>2 DEF Director, DirAcquire, DirAcquireThrows, DirCollect, DirNextSequential
<1>2. ASSUME NEW m \in Subtasks, Manager(m) PROVE [Pool!Next]_threadVars
  <2>1. ASSUME MgrSubmit(m) PROVE Pool!Next
    <3>1. PICK s \in Threads \cup {Owner} : Pool!Submit(s, <<m, Lowest(Unsubmitted(m))>>)
      BY <2>1 DEF MgrSubmit
    <3>2. <<m, Lowest(Unsubmitted(m))>> \in PoolTasks
      BY <2>1, SubmitsWaveTask DEF MgrSubmit, PoolTasks
    <3>3. QED
      BY <3>1, <3>2 DEF Pool!Next
  <2>2. QED
    BY <1>2, <2>1 DEF Manager, MgrStart, MgrCancelled, MgrDecompose, MgrCollect, MgrRetry,
                      MgrValidate, MgrRelease
<1>3. ASSUME NEW th \in Threads, Take(th) \/ Finish(th) PROVE Pool!Next
  BY <1>3 DEF Take, Finish, FinishManager, FinishWorker, Pool!Next
<1>4. CASE DestroyPool
  BY <1>4 DEF DestroyPool, Pool!Next
<1>5. CASE Cancel \/ Terminated \/ UNCHANGED vars
  BY <1>5 DEF Cancel, Terminated, vars
<1>6. QED
  BY <1>1, <1>2, <1>3, <1>4, <1>5 DEF Next

\* ... and to the pool of Managers.
LEMMA ManagersStep == TypeOK /\ [Next]_vars => [MP!Next]_poolVars
<1> SUFFICES ASSUME TypeOK, [Next]_vars PROVE [MP!Next]_poolVars
  OBVIOUS
<1>1. ASSUME NEW m \in Subtasks, NEW type, Managers!Acquire(m, type) PROVE MP!Acquire(m, type)
  BY <1>1 DEF Managers!Acquire, Managers!Reuse, Managers!Grow, Managers!Transient,
              Managers!IdleEntries, Managers!Candidates, Managers!First,
              MP!Acquire, MP!Reuse, MP!Grow, MP!Transient, MP!IdleEntries, MP!Candidates, MP!First
<1>2. CASE Director
  <2>1. dir.sub \in Subtasks /\ TypeOf[dir.sub] \in {TypeOf[m] : m \in Subtasks}
    BY DEF TypeOK
  <2>2. ASSUME DirAcquire PROVE MP!Next
    BY <1>1, <2>1, <2>2 DEF DirAcquire, MP!Next
  <2>3. ASSUME DirAcquireThrows PROVE UNCHANGED poolVars
    BY <2>3 DEF DirAcquireThrows, Managers!AcquireThrows, Managers!poolVars
  <2>4. QED
    BY <1>2, <2>2, <2>3 DEF Director, DirSubmit, DirCollect, DirNextSequential, DirFinish
<1>3. ASSUME NEW m \in Subtasks, Manager(m) PROVE [MP!Next]_poolVars
  <2>1. ASSUME MgrRelease(m) PROVE MP!Next
    BY <2>1 DEF MgrRelease, Managers!Release, MP!Release, MP!Next
  <2>2. QED
    BY <1>3, <2>1 DEF Manager, MgrStart, MgrCancelled, MgrDecompose, MgrCollect, MgrRetry,
                      MgrValidate, MgrSubmit
<1>4. CASE (\E th \in Threads : Take(th) \/ Finish(th)) \/ DestroyPool \/ Cancel \/ Terminated
           \/ UNCHANGED vars
  BY <1>4 DEF Take, Finish, DestroyPool, Cancel, Terminated, vars
<1>5. QED
  BY <1>2, <1>3, <1>4 DEF Next

-----------------------------------------------------------------------------
(* The thread pool                                                         *)

QueueType ==
    /\ queue \in Seq(PoolTasks)
    /\ job \in [Threads -> PoolTasks \cup {NoTask}]
    /\ future \in [PoolTasks -> {"none", "pending", "ready", "refused"}]
    /\ stop \in BOOLEAN /\ destroyed \in BOOLEAN

LEMMA SubmitKeeps ==
  ASSUME QueueType, OnePlace, NEW s, NEW t \in PoolTasks, Pool!Submit(s, t)
  PROVE  QueueType' /\ OnePlace'
<1> USE DEF QueueType, OnePlace
<1>1. /\ future[t] = "none" /\ future' = [future EXCEPT ![t] = "pending"]
      /\ job' = job /\ stop' = stop /\ destroyed' = destroyed
      /\ queue' = Append(queue, t)
  BY DEF Pool!Submit
<1>2. /\ queue' \in Seq(PoolTasks) /\ Len(queue') = Len(queue) + 1 /\ Len(queue) \in Nat
      /\ \A i \in 1..Len(queue) : queue'[i] = queue[i]
      /\ queue'[Len(queue) + 1] = t
  BY <1>1, AppendProperties
<1>3. \A i \in 1..Len(queue) : queue[i] \in PoolTasks /\ queue[i] # t
  BY <1>1, ElementOfSeq
<1>4. \A th \in Threads : job[th] # t
  BY <1>1, NoTaskAssumption
<1>5. QueueType'
  BY <1>1, <1>2
<1>6. \A i \in 1..Len(queue') : future'[queue'[i]] = "pending"
  BY <1>1, <1>2, <1>3
<1>7. \A th \in Threads : job'[th] # NoTask => future'[job'[th]] = "pending"
  BY <1>1, <1>4
<1>8. \A i, j \in 1..Len(queue') : queue'[i] = queue'[j] => i = j
  BY <1>2, <1>3
<1>9. \A th \in Threads, i \in 1..Len(queue') : job'[th] # queue'[i]
  BY <1>1, <1>2, <1>4
<1>10. QED
  BY <1>1, <1>5, <1>6, <1>7, <1>8, <1>9

LEMMA TakeKeeps ==
  ASSUME QueueType, OnePlace, NEW th \in Threads, Pool!Take(th)
  PROVE  QueueType' /\ OnePlace'
<1> USE DEF QueueType, OnePlace
<1>1. /\ queue # <<>> /\ queue' = Tail(queue) /\ job' = [job EXCEPT ![th] = Head(queue)]
      /\ future' = future /\ stop' = stop /\ destroyed' = destroyed
  BY DEF Pool!Take
<1>2. /\ Len(queue) \in Nat \ {0} /\ Head(queue) = queue[1] /\ queue[1] \in PoolTasks
      /\ queue' \in Seq(PoolTasks) /\ Len(queue') = Len(queue) - 1
      /\ \A i \in 1..Len(queue') : queue'[i] = queue[i + 1]
  BY <1>1, HeadTailProperties, EmptySeq, LenProperties
<1>3. /\ \A i \in 1..Len(queue') : i + 1 \in 1..Len(queue) /\ i + 1 # 1
      /\ 1 \in 1..Len(queue)
  BY <1>2
<1>4. QueueType'
  BY <1>1, <1>2
<1>5. \A i \in 1..Len(queue') : future'[queue'[i]] = "pending"
  BY <1>1, <1>2, <1>3
<1>6. \A s \in Threads : job'[s] # NoTask => future'[job'[s]] = "pending"
  BY <1>1, <1>2, <1>3
<1>7. \A i, j \in 1..Len(queue') : queue'[i] = queue'[j] => i = j
  <2>1. \A i, j \in 1..Len(queue') : queue'[i] = queue'[j] => i + 1 = j + 1
    BY <1>2, <1>3
  <2>2. QED
    BY <1>2, <2>1
<1>8. \A s \in Threads, i \in 1..Len(queue') : job'[s] # queue'[i]
  BY <1>1, <1>2, <1>3
<1>9. \A s, t \in Threads : job'[s] = job'[t] /\ job'[s] # NoTask => s = t
  BY <1>1, <1>2, <1>3
<1>10. QED
  BY <1>4, <1>5, <1>6, <1>7, <1>8, <1>9

LEMMA FinishKeeps ==
  ASSUME QueueType, OnePlace, NEW th \in Threads, Pool!Finish(th)
  PROVE  QueueType' /\ OnePlace'
<1> USE DEF QueueType, OnePlace
<1>1. /\ job[th] # NoTask /\ job[th] \in PoolTasks /\ queue' = queue
      /\ future' = [future EXCEPT ![job[th]] = "ready"]
      /\ job' = [job EXCEPT ![th] = NoTask] /\ stop' = stop /\ destroyed' = destroyed
  BY DEF Pool!Finish
<1>2. \A i \in 1..Len(queue) : queue[i] \in PoolTasks
  BY ElementOfSeq
<1>3. \A s \in Threads : s # th => job[s] = NoTask \/ job[s] # job[th]
  BY <1>1
<1>4. QueueType'
  BY <1>1
<1>5. \A i \in 1..Len(queue') : future'[queue'[i]] = "pending"
  BY <1>1, <1>2
<1>6. \A s \in Threads : job'[s] # NoTask => future'[job'[s]] = "pending"
  BY <1>1, <1>3
<1>7. \A s \in Threads, i \in 1..Len(queue') : job'[s] # queue'[i]
  BY <1>1, <1>2, NoTaskAssumption
<1>8. \A s, t \in Threads : job'[s] = job'[t] /\ job'[s] # NoTask => s = t
  BY <1>1
<1>9. QED
  BY <1>1, <1>4, <1>5, <1>6, <1>7, <1>8

LEMMA QueueStepKeeps ==
  ASSUME QueueType, OnePlace, [Pool!Next]_threadVars
  PROVE  QueueType' /\ OnePlace'
<1>1. ASSUME NEW s, NEW t \in PoolTasks, Pool!Refuse(s, t) PROVE QueueType' /\ OnePlace'
  <2>1. \A i \in 1..Len(queue) : queue[i] \in PoolTasks
    BY ElementOfSeq DEF QueueType
  <2>2. QED
    BY <1>1, <2>1, NoTaskAssumption DEF Pool!Refuse, QueueType, OnePlace
<1>2. CASE Pool!Close \/ Pool!Destroy \/ UNCHANGED threadVars
  BY <1>2 DEF Pool!Close, Pool!Destroy, QueueType, OnePlace
<1>3. QED
  BY <1>1, <1>2, SubmitKeeps, TakeKeeps, FinishKeeps DEF Pool!Next

-----------------------------------------------------------------------------
(* Type correctness                                                        *)

LocalType ==
    /\ sequential \in BOOLEAN
    /\ dir \in [at : {"acquire", "submit", "collect", "process", "done"}, sub : Subtasks]
    /\ mgr \in [Subtasks -> {"idle", "submitted", "started", "dispatch", "returned", "released"}]
    /\ plan \in [Subtasks -> Plans \cup {<<>>}]
    /\ collected \in [Subtasks -> SUBSET Atoms]
    /\ failed \subseteq PoolTasks
    /\ retry \in [Subtasks -> 0..MaxRetries]
    /\ report \in [Subtasks -> {"none", "Done", "Rejected", "Failed"}]
    /\ cancelled \in BOOLEAN

LEMMA TypeParts == TypeOK <=> QueueType /\ MP!PoolTypeOK /\ LocalType
  BY DEF TypeOK, QueueType, LocalType, MP!PoolTypeOK, MP!Entry,
         Managers!PoolTypeOK, Managers!Entry

LEMMA AdvanceType ==
  ASSUME LocalType, NEW at, NEW after, Advance(at, after),
         {at, after} \subseteq {"acquire", "submit", "collect", "process", "done"}
  PROVE  dir' \in [at : {"acquire", "submit", "collect", "process", "done"}, sub : Subtasks]
  BY CountAssumption DEF LocalType, Advance, Subtasks

LEMMA WaveTask ==
  ASSUME NEW m \in Subtasks, LocalType, OpenWaves(m) # {}
  PROVE  Lowest(Wave(m) \ collected[m]) \in Atoms
<1>1. Wave(m) \subseteq Atoms /\ Wave(m) \ collected[m] # {}
  BY WaveIsOpen DEF LocalType
<1>2. QED
  BY <1>1, LowestIsIn

LEMMA LocalTypeStep ==
  ASSUME TypeOK, RetryInWave, [Next]_vars
  PROVE  LocalType'
<1> USE TypeParts DEF LocalType
<1>1. CASE Director
  <2>1. CASE DirAcquire
    BY <2>1 DEF DirAcquire
  <2>2. CASE DirAcquireThrows
    <3>1. dir' \in [at : {"acquire", "submit", "collect", "process", "done"}, sub : Subtasks]
      BY <2>2, AdvanceType DEF DirAcquireThrows
    <3>2. QED
      BY <2>2, <3>1 DEF DirAcquireThrows
  <2>3. CASE DirSubmit
    BY <2>3, AdvanceType DEF DirSubmit
  <2>4. CASE DirCollect
    BY <2>4, AdvanceType DEF DirCollect
  <2>5. CASE DirNextSequential
    BY <2>5, AdvanceType DEF DirNextSequential
  <2>6. CASE DirFinish
    BY <2>6 DEF DirFinish
  <2>7. QED
    BY <1>1, <2>1, <2>2, <2>3, <2>4, <2>5, <2>6 DEF Director
<1>2. ASSUME NEW m \in Subtasks, Manager(m) PROVE LocalType'
  <2>1. CASE MgrStart(m) \/ MgrCancelled(m) \/ MgrValidate(m) \/ MgrRelease(m)
    BY <2>1 DEF MgrStart, MgrCancelled, MgrValidate, MgrRelease
  <2>2. CASE MgrDecompose(m)
    <3>1. UNCHANGED <<sequential, dir, collected, retry, failed, cancelled>>
      BY <2>2 DEF MgrDecompose
    <3>2. ASSUME NEW p \in Plans, plan' = [plan EXCEPT ![m] = p],
                 mgr' = [mgr EXCEPT ![m] = "dispatch"], report' = report
          PROVE  LocalType'
      BY <3>1, <3>2
    <3>3. ASSUME NEW status \in {"Done", "Failed"}, report' = [report EXCEPT ![m] = status],
                 mgr' = [mgr EXCEPT ![m] = "returned"], plan' = plan
          PROVE  LocalType'
      BY <3>1, <3>3
    <3>4. QED
      BY <2>2, <3>2, <3>3 DEF MgrDecompose
  <2>3. CASE MgrSubmit(m)
    BY <2>3 DEF MgrSubmit
  <2>4. CASE MgrCollect(m)
    BY <2>4, WaveTask, RetriesAssumption DEF MgrCollect
  <2>5. CASE MgrRetry(m)
    <3>1. Lowest(Wave(m) \ collected[m]) \in Atoms
      BY <2>5, WaveTask DEF MgrRetry, RetryInWave
    <3>2. collected' \in [Subtasks -> SUBSET Atoms]
      BY <2>5, <3>1 DEF MgrRetry
    <3>3. retry' \in [Subtasks -> 0..MaxRetries]
      BY <2>5, RetriesAssumption DEF MgrRetry
    <3>4. QED
      BY <2>5, <3>2, <3>3 DEF MgrRetry
  <2>6. QED
    BY <1>2, <2>1, <2>2, <2>3, <2>4, <2>5 DEF Manager
<1>3. ASSUME NEW th \in Threads, Take(th) \/ Finish(th) PROVE LocalType'
  BY <1>3 DEF Take, Finish, FinishManager, FinishWorker, PoolTasks
<1>4. CASE DestroyPool \/ Cancel \/ Terminated \/ UNCHANGED vars
  BY <1>4 DEF DestroyPool, Cancel, Terminated, vars
<1>5. QED
  BY <1>1, <1>2, <1>3, <1>4 DEF Next

-----------------------------------------------------------------------------
(* Managers and their subtasks                                             *)

LEMMA RetryStep ==
  ASSUME TypeOK, RetryInWave, HoldsAtWork, [Next]_vars
  PROVE  RetryInWave'
<1> USE TypeParts DEF LocalType, RetryInWave
<1>1. CASE Director
  <2>1. dir.sub \in Subtasks
    OBVIOUS
  <2>2. UNCHANGED <<plan, collected, retry>>
    BY <1>1 DEF Director, DirAcquire, DirAcquireThrows, DirSubmit, DirCollect,
                DirNextSequential, DirFinish
  <2>3. \A m \in Subtasks : OpenWaves(m)' = OpenWaves(m)
    BY <2>2 DEF OpenWaves
  <2>4. ASSUME DirAcquire \/ DirAcquireThrows PROVE mgr[dir.sub] # "dispatch"
    BY <2>1, <2>4 DEF DirAcquire, DirAcquireThrows, Managers!Acquire, Managers!AcquireThrows,
                      HoldsAtWork, AtWork
  <2>5. \A m \in Subtasks : mgr[m] = "dispatch" => mgr'[m] = "dispatch"
    BY <1>1, <2>1, <2>4 DEF Director, DirAcquire, DirAcquireThrows, DirSubmit, DirCollect,
                DirNextSequential, DirFinish
  <2>6. QED
    BY <2>2, <2>3, <2>5
<1>2. ASSUME NEW m \in Subtasks, Manager(m) PROVE RetryInWave'
  <2>1. ASSUME NEW n \in Subtasks, n # m PROVE (retry[n] > 0 => mgr[n] = "dispatch" /\ OpenWaves(n) # {})'
    <3>1. mgr'[n] = mgr[n] /\ retry'[n] = retry[n] /\ plan'[n] = plan[n] /\ collected'[n] = collected[n]
      BY <1>2, <2>1 DEF Manager, MgrStart, MgrCancelled, MgrDecompose, MgrSubmit, MgrCollect,
                        MgrRetry, MgrValidate, MgrRelease
    <3>2. OpenWaves(n)' = OpenWaves(n)
      BY <3>1 DEF OpenWaves
    <3>3. QED
      BY <3>1, <3>2
  <2>2. (retry[m] > 0 => mgr[m] = "dispatch" /\ OpenWaves(m) # {})'
    <3>1. CASE MgrStart(m) \/ MgrCancelled(m) \/ MgrDecompose(m) \/ MgrRelease(m) \/ MgrValidate(m)
      BY <3>1 DEF MgrStart, MgrCancelled, MgrDecompose, MgrRelease, MgrValidate
    <3>2. CASE MgrSubmit(m)
      BY <3>2 DEF MgrSubmit, OpenWaves
    <3>3. CASE MgrCollect(m)
      <4>1. retry'[m] > 0 => collected' = collected /\ plan' = plan /\ mgr' = mgr
        BY <3>3 DEF MgrCollect
      <4>2. mgr[m] = "dispatch" /\ OpenWaves(m) # {}
        BY <3>3 DEF MgrCollect
      <4>3. QED
        BY <4>1, <4>2 DEF OpenWaves
    <3>4. CASE MgrRetry(m)
      <4>1. retry'[m] > 0 => collected' = collected /\ plan' = plan /\ mgr' = mgr
        BY <3>4 DEF MgrRetry
      <4>2. mgr[m] = "dispatch" /\ OpenWaves(m) # {}
        BY <3>4 DEF MgrRetry
      <4>3. QED
        BY <4>1, <4>2 DEF OpenWaves
    <3>5. QED
      BY <1>2, <3>1, <3>2, <3>3, <3>4 DEF Manager
  <2>3. QED
    BY <2>1, <2>2
<1>3. ASSUME UNCHANGED mgrVars PROVE RetryInWave'
  BY <1>3 DEF OpenWaves
<1>4. QED
  BY <1>1, <1>2, <1>3 DEF Next, Take, Finish, DestroyPool, Cancel, Terminated, vars

LEMMA HoldsStep ==
  ASSUME TypeOK, MP!PoolInv, HoldsAtWork, [Next]_vars
  PROVE  HoldsAtWork'
<1> USE TypeParts DEF LocalType, HoldsAtWork, AtWork, MP!PoolTypeOK
<1>1. CASE DirAcquire
  <2>1. dir.sub \in Subtasks
    OBVIOUS
  <2>2. /\ mgr' = [mgr EXCEPT ![dir.sub] = mgr'[dir.sub]]
        /\ mgr'[dir.sub] \in {"started", "submitted"}
    BY <1>1, <2>1 DEF DirAcquire
  <2>3. /\ holding' = [holding EXCEPT ![dir.sub] = holding'[dir.sub]]
        /\ holding'[dir.sub] # 0
    <3>1. CASE Managers!Reuse(dir.sub, TypeOf[dir.sub])
      <4>1. Managers!IdleEntries # {}
        BY <3>1 DEF Managers!Reuse
      <4> DEFINE i == Managers!First(Managers!Candidates(TypeOf[dir.sub]))
      <4>2. i \in MP!IdleEntries
        BY <4>1, MP!CandidateIsIdle DEF MP!IdleEntries, MP!Candidates, MP!First,
             Managers!IdleEntries, Managers!Candidates, Managers!First, MP!PoolInv
      <4>3. holding' = [holding EXCEPT ![dir.sub] = entries[i].mgr]
        BY <3>1 DEF Managers!Reuse
      <4> HIDE DEF i
      <4>4. entries[i].mgr # 0
        BY <4>2, MP!FreshManager DEF MP!IdleEntries, MP!Entry
      <4>5. QED
        BY <2>1, <4>3, <4>4
    <3>2. CASE Managers!Grow(dir.sub, TypeOf[dir.sub]) \/ Managers!Transient(dir.sub, TypeOf[dir.sub])
      BY <2>1, <3>2 DEF Managers!Grow, Managers!Transient
    <3>3. QED
      BY <1>1, <3>1, <3>2 DEF DirAcquire, Managers!Acquire
  <2>4. QED
    BY <2>1, <2>2, <2>3
<1>2. CASE DirAcquireThrows
  BY <1>2 DEF DirAcquireThrows, Managers!AcquireThrows, Managers!poolVars
<1>3. ASSUME NEW m \in Subtasks, MgrRelease(m) PROVE HoldsAtWork'
  BY <1>3 DEF MgrRelease, Managers!Release
<1>4. ASSUME NEW m \in Subtasks,
             MgrStart(m) \/ MgrCancelled(m) \/ MgrDecompose(m) \/ MgrSubmit(m) \/ MgrCollect(m)
               \/ MgrRetry(m) \/ MgrValidate(m)
      PROVE  HoldsAtWork'
  BY <1>4 DEF MgrStart, MgrCancelled, MgrDecompose, MgrSubmit, MgrCollect, MgrRetry, MgrValidate
<1>5. ASSUME UNCHANGED <<mgr, holding>> PROVE HoldsAtWork'
  BY <1>5
<1>6. QED
  BY <1>1, <1>2, <1>3, <1>4, <1>5 DEF Next, Director, DirSubmit, DirCollect, DirNextSequential,
       DirFinish, Manager, Take, Finish, DestroyPool, Cancel, Terminated, vars

-----------------------------------------------------------------------------
LEMMA InitInv == Init => IInv
<1> SUFFICES ASSUME Init PROVE IInv
  OBVIOUS
<1>1. MP!PoolInv
  BY MP!PoolInitInv DEF Init, MP!Init, Managers!Init
<1>2. QueueType /\ OnePlace
  <2>1. /\ queue = <<>> /\ job = [th \in Threads |-> NoTask]
        /\ future = [t \in PoolTasks |-> "none"] /\ stop = FALSE /\ destroyed = FALSE
    BY DEF Init, Pool!Init
  <2>2. QueueType
    BY <2>1, EmptySeq DEF QueueType
  <2>3. OnePlace
    BY <2>1, EmptySeq DEF OnePlace
  <2>4. QED
    BY <2>2, <2>3
<1>3. LocalType
  <2>1. 1 \in Subtasks /\ 0 \in 0..MaxRetries
    BY CountAssumption, RetriesAssumption DEF Subtasks
  <2>2. QED
    BY <2>1 DEF Init, LocalType
<1>4. RetryInWave /\ HoldsAtWork
  BY DEF Init, RetryInWave, HoldsAtWork, AtWork, Managers!Init
<1>5. QED
  BY <1>1, <1>2, <1>3, <1>4, TypeParts DEF IInv, MP!PoolInv

LEMMA StepInv == IInv /\ [Next]_vars => IInv'
<1> SUFFICES ASSUME IInv, [Next]_vars PROVE IInv'
  OBVIOUS
<1> USE DEF IInv
<1>1. MP!PoolInv'
  BY ManagersStep, MP!PoolStepInv DEF MP!poolVars
<1>2. QueueType' /\ OnePlace'
  BY QueueStep, QueueStepKeeps, TypeParts
<1>3. LocalType'
  BY LocalTypeStep
<1>4. TypeOK'
  BY <1>1, <1>2, <1>3 DEF TypeOK, QueueType, LocalType, MP!PoolInv, MP!PoolTypeOK, MP!Entry,
         Managers!PoolTypeOK, Managers!Entry
<1>5. RetryInWave' /\ HoldsAtWork'
  BY RetryStep, HoldsStep
<1>6. QED
  BY <1>1, <1>2, <1>4, <1>5

\* Every variable of a dispatch keeps its type; in particular no retry exceeds
\* max_atomic_retries and no task is submitted that does not exist.
THEOREM TypeCorrect == Spec => []TypeOK
<1>1. IInv => TypeOK
  BY DEF IInv
<1>2. QED
  BY <1>1, InitInv, StepInv, PTL DEF Spec

\* While process() has a subtask its Manager is its own.
THEOREM ManagersAreExclusive == Spec => []ManagerExclusive
<1>1. IInv => ManagerExclusive
  BY DEF IInv, HoldsAtWork, ManagerExclusive, MP!PoolInv, MP!ManagerExclusive
<1>2. QED
  BY <1>1, InitInv, StepInv, PTL DEF Spec

-----------------------------------------------------------------------------
(* A thread for the Workers                                                *)

\* Fewer subtasks than threads: two threads get the same subtask.
LEMMA ThreadsShareSubtask ==
  ASSUME Count < Cardinality(Threads), NEW f \in [Threads -> Subtasks]
  PROVE  \E s, t \in Threads : s # t /\ f[s] = f[t]
<1>1. IsFiniteSet(Subtasks) /\ Cardinality(Subtasks) = Count
  BY FS_Interval, CountAssumption DEF Subtasks
<1>2. Cardinality(Subtasks) < Cardinality(Threads)
  BY <1>1
<1>3. IsFiniteSet(Threads)
  BY ThreadsAssumption
<1>4. QED
  BY <1>1, <1>2, <1>3, FS_PigeonHole

LEMMA ThreadLeft ==
  ASSUME IInv, Count < Cardinality(Threads)
  PROVE  ThreadLeftForWorkers
<1> SUFFICES ASSUME \A th \in Threads : \E m \in Subtasks : job[th] = MgrTask(m)
             PROVE  FALSE
  BY DEF ThreadLeftForWorkers
<1> DEFINE f == [th \in Threads |-> CHOOSE m \in Subtasks : job[th] = MgrTask(m)]
<1>1. \A th \in Threads : f[th] \in Subtasks /\ job[th] = MgrTask(f[th])
  OBVIOUS
<1>2. f \in [Threads -> Subtasks]
  BY <1>1
<1> HIDE DEF f
<1>3. PICK s, t \in Threads : s # t /\ f[s] = f[t]
  BY <1>2, ThreadsShareSubtask
<1>4. job[s] = job[t] /\ job[s] # NoTask
  BY <1>1, <1>3, MgrTaskIsTask, NoTaskAssumption
<1>5. QED
  BY <1>3, <1>4 DEF IInv, OnePlace

\* With fewer subtasks than threads the Managers never fill the pool.
THEOREM WorkersHaveAThread ==
  ASSUME Count < Cardinality(Threads)
  PROVE  Spec => []ThreadLeftForWorkers
<1>1. IInv => ThreadLeftForWorkers
  BY ThreadLeft
<1>2. QED
  BY <1>1, InitInv, StepInv, PTL DEF Spec

-----------------------------------------------------------------------------
(* The end of a dispatch                                                   *)

\* Why the Director leaves no Manager at work: the future of process() is ready
\* only after release(), and the Director passes a subtask only with its report.
Progress ==
    /\ \A m \in Subtasks : future[MgrTask(m)] = "ready" => mgr[m] = "released"
    /\ dir.at \in {"acquire", "submit", "process"} =>
         \A m \in Subtasks : m >= dir.sub => future[MgrTask(m)] = "none"
    /\ dir.at \in {"submit", "collect"} => ~sequential
    /\ dir.at = "process" => sequential
    /\ sequential \/ dir.at = "collect" =>
         \A m \in Subtasks : m < dir.sub => mgr[m] = "released"
    /\ dir.at = "done" => \A m \in Subtasks : mgr[m] = "released"

LEMMA MgrTasksDiffer ==
  /\ \A m, n \in Subtasks : m # n => MgrTask(m) # MgrTask(n)
  /\ \A m \in Subtasks : MgrTask(m) \notin Subtasks \X Atoms
  BY AtomsAssumption DEF MgrTask

\* Steps that change neither the Director nor a finished subtask's Manager.
LEMMA QuietStep ==
  ASSUME Progress, dir' = dir, sequential' = sequential,
         \A m \in Subtasks : mgr[m] = "released" => mgr'[m] = "released",
         \A m \in Subtasks : \/ future'[MgrTask(m)] = future[MgrTask(m)]
                             \/ /\ future[MgrTask(m)] # "none"
                                /\ mgr'[m] = "released"
  PROVE  Progress'
  BY DEF Progress

LEMMA SubtaskOrder ==
  ASSUME NEW m \in Subtasks, NEW n \in Subtasks
  PROVE  /\ m >= n + 1 => m >= n /\ m # n
         /\ m < n + 1 => m < n \/ m = n
         /\ ~(n < Count) => m < n \/ m = n
         /\ ~(m < 1)
  BY CountAssumption DEF Subtasks

LEMMA ProgressStep ==
  ASSUME IInv, Progress, [Next]_vars
  PROVE  Progress'
<1> USE TypeParts DEF IInv, LocalType
<1>1. dir.sub \in Subtasks
  OBVIOUS
<1>2. CASE DirAcquire
  <2>1. /\ dir.at = "acquire" /\ dir'.sub = dir.sub
        /\ dir'.at = IF sequential THEN "process" ELSE "submit"
        /\ future' = future /\ sequential' = sequential
    BY <1>2 DEF DirAcquire
  <2>2. \A m \in Subtasks : m # dir.sub => mgr'[m] = mgr[m]
    BY <1>1, <1>2 DEF DirAcquire
  <2>3. \A m \in Subtasks : m >= dir.sub => future[MgrTask(m)] = "none"
    BY <2>1 DEF Progress
  <2>4. dir.sub >= dir.sub /\ \A m \in Subtasks : m < dir.sub => m # dir.sub
    BY <1>1 DEF Subtasks
  <2>5. \A m \in Subtasks : future[MgrTask(m)] = "ready" => mgr'[m] = "released"
    BY <1>1, <2>2, <2>3, <2>4 DEF Progress
  <2>6. sequential => \A m \in Subtasks : m < dir.sub => mgr'[m] = "released"
    BY <2>2, <2>4 DEF Progress
  <2>7. QED
    BY <2>1, <2>3, <2>5, <2>6 DEF Progress
<1>3. CASE DirAcquireThrows
  <2>1. /\ dir.at = "acquire" /\ mgr'[dir.sub] = "released"
        /\ future' = future /\ sequential' = sequential
    BY <1>1, <1>3 DEF DirAcquireThrows
  <2>2. \A m \in Subtasks : mgr[m] = "released" => mgr'[m] = "released"
    BY <1>1, <1>3 DEF DirAcquireThrows
  <2>3. \A m \in Subtasks : future'[MgrTask(m)] = "ready" => mgr'[m] = "released"
    BY <2>1, <2>2 DEF Progress
  <2>4. \A m \in Subtasks : m >= dir.sub => future[MgrTask(m)] = "none"
    BY <2>1 DEF Progress
  <2>5. sequential => \A m \in Subtasks : m < dir.sub => mgr'[m] = "released"
    BY <2>2 DEF Progress
  <2>6. CASE ~sequential
    <3>1. dir'.at = "submit" /\ dir'.sub = dir.sub
      BY <1>3, <2>6 DEF DirAcquireThrows
    <3>2. QED
      BY <2>1, <2>3, <2>4, <2>6, <3>1 DEF Progress
  <2>7. CASE sequential /\ dir.sub < Count
    <3>1. dir' = [at |-> "acquire", sub |-> dir.sub + 1]
      BY <1>3, <2>7 DEF DirAcquireThrows, Advance
    <3>2. \A m \in Subtasks : m < dir.sub + 1 => mgr'[m] = "released"
      BY <1>1, <2>1, <2>5, <2>7, SubtaskOrder
    <3>3. \A m \in Subtasks : m >= dir.sub + 1 => future'[MgrTask(m)] = "none"
      BY <1>1, <2>1, <2>4, SubtaskOrder
    <3>4. QED
      BY <2>1, <2>3, <2>7, <3>1, <3>2, <3>3 DEF Progress
  <2>8. CASE sequential /\ ~(dir.sub < Count)
    <3>1. dir' = [at |-> "done", sub |-> 1]
      BY <1>3, <2>8 DEF DirAcquireThrows, Advance
    <3>2. \A m \in Subtasks : mgr'[m] = "released"
      BY <1>1, <2>1, <2>5, <2>8, SubtaskOrder
    <3>3. QED
      BY <2>1, <2>3, <3>1, <3>2 DEF Progress
  <2>9. QED
    BY <2>6, <2>7, <2>8
<1>4. CASE DirSubmit
  <2>1. dir.at = "submit" /\ ~sequential /\ sequential' = sequential /\ mgr' = mgr
    BY <1>4 DEF DirSubmit, Progress
  <2>2. MgrTask(dir.sub) \in PoolTasks
    BY <1>1, MgrTaskIsTask
  <2>3. future' = [future EXCEPT ![MgrTask(dir.sub)] = "pending"]
    BY <1>4 DEF DirSubmit, Pool!Submit
  <2>4. future'[MgrTask(dir.sub)] = "pending"
    BY <2>2, <2>3 DEF QueueType
  <2>5. \A m \in Subtasks : m # dir.sub => future'[MgrTask(m)] = future[MgrTask(m)]
    BY <1>1, <2>2, <2>3, MgrTasksDiffer, MgrTaskIsTask DEF QueueType
  <2>6. \A m \in Subtasks : future'[MgrTask(m)] = "ready" => mgr'[m] = "released"
    BY <2>1, <2>4, <2>5 DEF Progress
  <2>7. \/ dir' = [at |-> "acquire", sub |-> dir.sub + 1]
        \/ dir' = [at |-> "collect", sub |-> 1]
    BY <1>4 DEF DirSubmit, Advance
  <2>8. CASE dir' = [at |-> "acquire", sub |-> dir.sub + 1]
    <3>1. \A m \in Subtasks : m >= dir.sub + 1 => m >= dir.sub /\ m # dir.sub
      BY <1>1, SubtaskOrder
    <3>2. \A m \in Subtasks : m >= dir.sub + 1 => future'[MgrTask(m)] = "none"
      BY <2>1, <2>5, <3>1 DEF Progress
    <3>3. QED
      BY <2>1, <2>6, <2>8, <3>2 DEF Progress
  <2>9. CASE dir' = [at |-> "collect", sub |-> 1]
    BY <1>1, <2>1, <2>6, <2>9 DEF Progress, Subtasks
  <2>10. QED
    BY <2>7, <2>8, <2>9
<1>5. CASE DirCollect
  <2>1. /\ dir.at = "collect" /\ ~sequential /\ mgr[dir.sub] = "released"
        /\ mgr' = mgr /\ future' = future /\ sequential' = sequential
    BY <1>1, <1>5 DEF DirCollect, Progress
  <2>2. \A m \in Subtasks : m < dir.sub => mgr[m] = "released"
    BY <2>1 DEF Progress
  <2>3. CASE dir.sub < Count
    <3>1. dir' = [at |-> "collect", sub |-> dir.sub + 1]
      BY <1>5, <2>3 DEF DirCollect, Advance
    <3>2. \A m \in Subtasks : m < dir.sub + 1 => mgr[m] = "released"
      BY <1>1, <2>1, <2>2, SubtaskOrder
    <3>3. QED
      BY <2>1, <3>1, <3>2 DEF Progress
  <2>4. CASE ~(dir.sub < Count)
    <3>1. dir' = [at |-> "done", sub |-> 1]
      BY <1>5, <2>4 DEF DirCollect, Advance
    <3>2. \A m \in Subtasks : mgr[m] = "released"
      BY <1>1, <2>1, <2>2, <2>4, SubtaskOrder
    <3>3. QED
      BY <2>1, <3>1, <3>2 DEF Progress
  <2>5. QED
    BY <2>3, <2>4
<1>6. CASE DirNextSequential
  <2>1. /\ dir.at = "process" /\ sequential /\ mgr[dir.sub] = "released"
        /\ mgr' = mgr /\ future' = future /\ sequential' = sequential
    BY <1>6 DEF DirNextSequential, Progress
  <2>2. \A m \in Subtasks : m < dir.sub => mgr[m] = "released"
    BY <2>1 DEF Progress
  <2>3. CASE dir.sub < Count
    <3>1. dir' = [at |-> "acquire", sub |-> dir.sub + 1]
      BY <1>6, <2>3 DEF DirNextSequential, Advance
    <3>2. \A m \in Subtasks : m < dir.sub + 1 => mgr[m] = "released"
      BY <1>1, <2>1, <2>2, SubtaskOrder
    <3>3. \A m \in Subtasks : m >= dir.sub + 1 => future[MgrTask(m)] = "none"
      <4>1. \A m \in Subtasks : m >= dir.sub + 1 => m >= dir.sub
        BY <1>1, SubtaskOrder
      <4>2. QED
        BY <2>1, <4>1 DEF Progress
    <3>4. QED
      BY <2>1, <3>1, <3>2, <3>3 DEF Progress
  <2>4. CASE ~(dir.sub < Count)
    <3>1. dir' = [at |-> "done", sub |-> 1]
      BY <1>6, <2>4 DEF DirNextSequential, Advance
    <3>2. \A m \in Subtasks : mgr[m] = "released"
      BY <1>1, <2>1, <2>2, <2>4, SubtaskOrder
    <3>3. QED
      BY <1>1, <2>1, <3>1, <3>2 DEF Progress
  <2>5. QED
    BY <2>3, <2>4
<1>7. ASSUME NEW m \in Subtasks,
             MgrStart(m) \/ MgrCancelled(m) \/ MgrDecompose(m) \/ MgrCollect(m)
               \/ MgrRetry(m) \/ MgrValidate(m) \/ MgrRelease(m)
      PROVE  Progress'
  BY <1>7, QuietStep DEF MgrStart, MgrCancelled, MgrDecompose, MgrCollect,
                         MgrRetry, MgrValidate, MgrRelease
<1>8. ASSUME NEW m \in Subtasks, MgrSubmit(m) PROVE Progress'
  <2>1. <<m, Lowest(Unsubmitted(m))>> \in Subtasks \X Atoms
    BY <1>8, SubmitsWaveTask DEF MgrSubmit
  <2>2. future' = [future EXCEPT ![<<m, Lowest(Unsubmitted(m))>>] = "pending"]
    BY <1>8 DEF MgrSubmit, Pool!Submit
  <2>3. \A n \in Subtasks : future'[MgrTask(n)] = future[MgrTask(n)]
    BY <2>1, <2>2, MgrTaskIsTask, MgrTasksDiffer DEF QueueType
  <2>4. QED
    BY <1>8, <2>3, QuietStep DEF MgrSubmit
<1>9. ASSUME NEW th \in Threads, Finish(th) PROVE Progress'
  <2>1. /\ job[th] \in PoolTasks /\ future[job[th]] = "pending"
        /\ future' = [future EXCEPT ![job[th]] = "ready"]
    BY <1>9 DEF Finish, FinishManager, FinishWorker, Pool!Finish, QueueType, OnePlace
  <2>2. \A m \in Subtasks : job[th] = MgrTask(m) => mgr[m] = "released"
    BY <1>9, MgrTasksDiffer DEF Finish, FinishManager, FinishWorker
  <2>3. \A m \in Subtasks : job[th] # MgrTask(m) => future'[MgrTask(m)] = future[MgrTask(m)]
    BY <2>1, MgrTaskIsTask DEF QueueType
  <2>4. QED
    BY <1>9, <2>1, <2>2, <2>3, QuietStep DEF Finish
<1>10. ASSUME UNCHANGED <<future, mgr, dir, sequential>> PROVE Progress'
  BY <1>10, QuietStep
<1>11. QED
  BY <1>2, <1>3, <1>4, <1>5, <1>6, <1>7, <1>8, <1>9, <1>10
     DEF Next, Director, DirFinish, Pool!Close, Manager, Take, Pool!Take, DestroyPool,
         Pool!Destroy, Cancel, Terminated, vars

LEMMA ProgressInit == Init => Progress
  BY MgrTaskIsTask DEF Init, Pool!Init, Progress, Subtasks

\* When the Director has its reports, no entry of the Manager pool is in use.
THEOREM AllManagersReturn == Spec => []NoManagerLeaked
<1>1. IInv /\ Progress => NoManagerLeaked
  <2> SUFFICES ASSUME IInv, Progress, dir.at = "done", NEW i \in 1..Len(entries)
               PROVE  ~entries[i].inUse
    BY DEF NoManagerLeaked
  <2>1. \A m \in Subtasks : holding[m] = 0
    BY DEF IInv, Progress, HoldsAtWork, AtWork
  <2>2. entries[i].mgr # 0
    BY MP!FreshManager DEF IInv, MP!Entry
  <2>3. QED
    BY <2>1, <2>2 DEF IInv, MP!PoolInv, MP!InUseMeansHeld
<1>2. QED
  BY <1>1, InitInv, StepInv, ProgressInit, ProgressStep, PTL DEF Spec

-----------------------------------------------------------------------------
(* The order of the waves                                                  *)

\* The Director has not touched the subtasks ahead of it.
Ahead ==
    /\ dir.at = "acquire" => \A m \in Subtasks : m >= dir.sub => mgr[m] = "idle"
    /\ dir.at \in {"submit", "process"} =>
         \A m \in Subtasks : m >= dir.sub + 1 => mgr[m] = "idle"

Of(m, a) == future[<<m, a>>]

\* The Worker tasks of one subtask, from none before decompose() to all returned
\* at the end of process().  What is submitted belongs to a wave, what is
\* collected has returned, and the task that is retried has returned.
Ordered(m) ==
    /\ mgr[m] \in {"idle", "submitted", "started"} => \A a \in Atoms : Of(m, a) = "none"
    /\ mgr[m] \in {"returned", "released"} => \A a \in Atoms : Of(m, a) \in {"none", "ready"}
    /\ \A a \in collected[m] : Of(m, a) = "ready"
    /\ \A a \in Atoms : Of(m, a) # "none" => \E l \in 1..Len(plan[m]) : a \in plan[m][l]
    /\ \A k, l \in 1..Len(plan[m]) :
         k < l /\ (\E a \in plan[m][l] : Of(m, a) # "none") => plan[m][k] \subseteq collected[m]
    /\ retry[m] > 0 => Of(m, Lowest(Wave(m) \ collected[m])) = "ready"

Ordering == Ahead /\ \A m \in Subtasks : Ordered(m)

\* The current wave is one of the plan, and those before it are collected.
LEMMA WaveFacts ==
  ASSUME NEW m \in Subtasks, plan[m] \in Plans \cup {<<>>}, OpenWaves(m) # {}
  PROVE  \E k \in 1..Len(plan[m]) :
           /\ Wave(m) = plan[m][k]
           /\ \A l \in 1..Len(plan[m]) : l < k => plan[m][l] \subseteq collected[m]
<1> DEFINE k == CHOOSE k \in OpenWaves(m) : \A l \in OpenWaves(m) : k <= l
<1>1. plan[m] \in Seq(SUBSET Atoms)
  BY PlansAssumption, EmptySeq
<1>2. Len(plan[m]) \in Nat
  BY <1>1, LenProperties
<1>3. OpenWaves(m) \subseteq Nat
  BY <1>2 DEF OpenWaves
<1>4. \E a \in OpenWaves(m) : \A b \in OpenWaves(m) : a <= b
  BY <1>3, MP!LeastExists
<1>5. k \in OpenWaves(m) /\ \A l \in OpenWaves(m) : k <= l
  BY <1>4
<1>6. Wave(m) = plan[m][k]
  BY DEF Wave
<1> HIDE DEF k
<1>7. k \in 1..Len(plan[m])
  BY <1>5 DEF OpenWaves
<1>8. \A l \in 1..Len(plan[m]) : l < k => l \notin OpenWaves(m)
  BY <1>2, <1>5, <1>7
<1>9. QED
  BY <1>6, <1>7, <1>8 DEF OpenWaves

\* Of(m, a) is a task of the pool, and no Manager's.
LEMMA AtomTasks ==
  ASSUME TypeOK, NEW m \in Subtasks, NEW a \in Atoms
  PROVE  /\ <<m, a>> \in PoolTasks /\ Of(m, a) \in {"none", "pending", "ready", "refused"}
         /\ \A n \in Subtasks : <<m, a>> # MgrTask(n)
         /\ \A n \in Subtasks, b \in Atoms : <<m, a>> = <<n, b>> => m = n /\ a = b
  BY AtomsAssumption DEF TypeOK, PoolTasks, MgrTask, Of

\* Steps that leave the subtask's own state alone; a task of it may return.
LEMMA OrderedKept ==
  ASSUME IInv, NEW m \in Subtasks, Ordered(m),
         mgr'[m] = mgr[m], plan'[m] = plan[m], collected'[m] = collected[m],
         retry'[m] = retry[m],
         \A a \in Atoms : Of(m, a)' = Of(m, a) \/ (Of(m, a) = "pending" /\ Of(m, a)' = "ready")
  PROVE  Ordered(m)'
<1>1. /\ plan[m] \in Plans \cup {<<>>} /\ collected[m] \subseteq Atoms
      /\ retry[m] > 0 => OpenWaves(m) # {}
  BY DEF IInv, TypeOK, RetryInWave
<1>2. plan[m] \in Seq(SUBSET Atoms)
  BY <1>1, PlansAssumption, EmptySeq
<1>3. \A l \in 1..Len(plan[m]) : plan[m][l] \subseteq Atoms
  BY <1>2, ElementOfSeq
<1>4. \A a \in Atoms : Of(m, a)' = "none" <=> Of(m, a) = "none"
  OBVIOUS
<1>5. Wave(m)' = Wave(m)
  BY DEF Wave, OpenWaves
<1>6. retry[m] > 0 => Lowest(Wave(m) \ collected[m]) \in Atoms
  BY <1>1, WaveIsOpen, LowestIsIn
<1>7. (\A k, l \in 1..Len(plan[m]) :
         k < l /\ (\E a \in plan[m][l] : Of(m, a) # "none") => plan[m][k] \subseteq collected[m])'
  BY <1>3, <1>4 DEF Ordered
<1>8. (retry[m] > 0 => Of(m, Lowest(Wave(m) \ collected[m])) = "ready")'
  BY <1>5, <1>6 DEF Ordered
<1>9. (/\ mgr[m] \in {"idle", "submitted", "started"} => \A a \in Atoms : Of(m, a) = "none"
       /\ mgr[m] \in {"returned", "released"} => \A a \in Atoms : Of(m, a) \in {"none", "ready"}
       /\ \A a \in collected[m] : Of(m, a) = "ready"
       /\ \A a \in Atoms : Of(m, a) # "none" => \E l \in 1..Len(plan[m]) : a \in plan[m][l])'
  BY <1>1, <1>4 DEF Ordered
<1>10. QED
  BY <1>7, <1>8, <1>9 DEF Ordered

\* A subtask none of whose Worker tasks is submitted is in order anywhere.
LEMMA OrderedBefore ==
  ASSUME IInv, NEW m \in Subtasks, Ordered(m),
         mgr[m] \in {"idle", "submitted", "started"},
         plan'[m] \in Plans \cup {<<>>},
         collected' = collected, retry' = retry, future' = future
  PROVE  Ordered(m)'
<1>1. \A a \in Atoms : Of(m, a) = "none" /\ Of(m, a)' = "none"
  BY DEF Ordered, Of
<1>2. collected[m] = {} /\ collected[m] \subseteq Atoms
  BY <1>1 DEF Ordered, IInv, TypeOK
<1>3. ~(retry'[m] > 0)
  BY DEF IInv, RetryInWave
<1>4. plan'[m] \in Seq(SUBSET Atoms)
  BY PlansAssumption, EmptySeq
<1>5. \A l \in 1..Len(plan'[m]) : plan'[m][l] \subseteq Atoms
  BY <1>4, ElementOfSeq
<1>6. QED
  BY <1>1, <1>2, <1>3, <1>5 DEF Ordered

\* The Director moves past a subtask, or begins it; the Managers and the threads
\* never touch one that is idle.
LEMMA AheadStep ==
  ASSUME IInv, Ahead, [Next]_vars
  PROVE  Ahead'
<1>1. dir \in [at : {"acquire", "submit", "collect", "process", "done"}, sub : Subtasks]
      /\ mgr \in [Subtasks -> {"idle", "submitted", "started", "dispatch", "returned", "released"}]
  BY DEF IInv, TypeOK
<1>2. \A at, after : at \in {"acquire", "collect"} /\ after \in {"done", "collect"}
           /\ Advance(at, after) =>
        \/ dir'.at = at /\ dir'.sub = dir.sub + 1
        \/ dir'.at = after
  BY <1>1 DEF Advance
<1>3. CASE DirAcquire
  <2>1. dir.at = "acquire" /\ dir'.at \in {"process", "submit"} /\ dir'.sub = dir.sub
    BY <1>1, <1>3 DEF DirAcquire
  <2>2. \A m \in Subtasks : m # dir.sub => mgr'[m] = mgr[m]
    BY <1>1, <1>3 DEF DirAcquire
  <2>3. \A m \in Subtasks : m >= dir.sub + 1 => m >= dir.sub /\ m # dir.sub
    BY <1>1, SubtaskOrder
  <2>4. QED
    BY <2>1, <2>2, <2>3 DEF Ahead
<1>4. CASE DirAcquireThrows
  <2>1. dir.at = "acquire"
        /\ \/ dir'.at = "acquire" /\ dir'.sub = dir.sub + 1
           \/ dir'.at = "done"
           \/ dir'.at = "submit" /\ dir'.sub = dir.sub
    BY <1>1, <1>2, <1>4 DEF DirAcquireThrows
  <2>2. \A m \in Subtasks : m # dir.sub => mgr'[m] = mgr[m]
    BY <1>1, <1>4 DEF DirAcquireThrows
  <2>3. \A m \in Subtasks : m >= dir.sub + 1 => m >= dir.sub /\ m # dir.sub
    BY <1>1, SubtaskOrder
  <2>4. QED
    BY <2>1, <2>2, <2>3 DEF Ahead
<1>5. CASE DirSubmit \/ DirCollect \/ DirNextSequential \/ DirFinish
  <2>1. /\ mgr' = mgr
        /\ \/ dir.at \in {"submit", "process"} /\ dir'.at = "acquire" /\ dir'.sub = dir.sub + 1
           \/ dir'.at \in {"collect", "done"}
    BY <1>1, <1>2, <1>5 DEF DirSubmit, DirCollect, DirNextSequential, DirFinish
  <2>2. QED
    BY <2>1 DEF Ahead
<1>6. ASSUME dir' = dir, \A m \in Subtasks : mgr[m] = "idle" => mgr'[m] = "idle"
      PROVE  Ahead'
  BY <1>6 DEF Ahead
<1>7. ASSUME NEW m \in Subtasks, Manager(m)
      PROVE  dir' = dir /\ \A n \in Subtasks : mgr[n] = "idle" => mgr'[n] = "idle"
  BY <1>1, <1>7 DEF Manager, MgrStart, MgrCancelled, MgrDecompose, MgrSubmit, MgrCollect,
                    MgrRetry, MgrValidate, MgrRelease
<1>8. QED
  BY <1>3, <1>4, <1>5, <1>6, <1>7
  DEF Next, Director, Take, Finish, DestroyPool, Cancel, Terminated, vars

\* What a Manager's step does to the Worker tasks of its subtask.
LEMMA ManagerOrders ==
  ASSUME IInv, IInv', NEW m \in Subtasks, Ordered(m), Manager(m)
  PROVE  Ordered(m)'
<1>1. /\ plan[m] \in Plans \cup {<<>>} /\ plan'[m] \in Plans \cup {<<>>}
      /\ mgr \in [Subtasks -> {"idle", "submitted", "started", "dispatch", "returned", "released"}]
      /\ plan \in [Subtasks -> Plans \cup {<<>>}] /\ retry \in [Subtasks -> 0..MaxRetries]
      /\ collected \in [Subtasks -> SUBSET Atoms]
      /\ future \in [PoolTasks -> {"none", "pending", "ready", "refused"}]
  BY DEF IInv, TypeOK
<1>2. plan[m] \in Seq(SUBSET Atoms)
  BY <1>1, PlansAssumption, EmptySeq
<1>3. \A l \in 1..Len(plan[m]) : plan[m][l] \subseteq Atoms
  BY <1>2, ElementOfSeq
<1>4. CASE MgrStart(m) \/ MgrCancelled(m) \/ MgrDecompose(m)
  BY <1>1, <1>4, OrderedBefore DEF MgrStart, MgrCancelled, MgrDecompose
<1>5. CASE MgrSubmit(m)
  <2> DEFINE new == Lowest(Unsubmitted(m))
  <2>1. PICK k \in 1..Len(plan[m]) :
          /\ Wave(m) = plan[m][k]
          /\ \A l \in 1..Len(plan[m]) : l < k => plan[m][l] \subseteq collected[m]
    BY <1>1, <1>5, WaveFacts DEF MgrSubmit
  <2>2. Unsubmitted(m) \subseteq Atoms /\ Unsubmitted(m) # {}
    BY <1>3, <1>5, <2>1 DEF MgrSubmit, Unsubmitted
  <2>3. new \in Unsubmitted(m)
    BY <2>2, LowestIsIn
  <2>4. new \in Atoms /\ new \in plan[m][k] /\ Of(m, new) = "none"
    BY <2>1, <2>2, <2>3 DEF Unsubmitted, Of
  <2>5. future' = [future EXCEPT ![<<m, new>>] = "pending"]
    BY <1>5 DEF MgrSubmit, Pool!Submit
  <2> HIDE DEF new
  <2>6. \A a \in Atoms : Of(m, a)' = IF a = new THEN "pending" ELSE Of(m, a)
    BY <1>1, <2>4, <2>5, AtomTasks DEF IInv, Of
  <2>7. /\ mgr[m] = "dispatch" /\ mgr' = mgr /\ plan' = plan /\ collected' = collected
        /\ retry' = retry
    BY <1>5 DEF MgrSubmit
  <2>8. collected[m] \subseteq Atoms /\ new \notin collected[m]
    BY <1>1, <2>4 DEF Ordered
  <2>9. \A l \in 1..Len(plan[m]) : new \in plan[m][l] => l = k
    <3>1. plan[m] \in Plans \/ Len(plan[m]) = 0
      BY <1>1
    <3>2. QED
      BY <2>1, <2>4, <3>1, WavesAssumption
  <2>10. (\A i, l \in 1..Len(plan[m]) :
            i < l /\ (\E a \in plan[m][l] : Of(m, a) # "none") => plan[m][i] \subseteq collected[m])'
    <3> SUFFICES ASSUME NEW i \in 1..Len(plan[m]), NEW l \in 1..Len(plan[m]), i < l,
                        NEW a \in plan[m][l], Of(m, a)' # "none"
                 PROVE  plan[m][i] \subseteq collected[m]
      BY <2>7
    <3>1. CASE a = new
      BY <2>1, <2>9, <3>1
    <3>2. CASE a # new
      BY <1>3, <2>6, <3>2 DEF Ordered
    <3>3. QED
      BY <3>1, <3>2
  <2>11. (\A a \in Atoms : Of(m, a) # "none" => \E l \in 1..Len(plan[m]) : a \in plan[m][l])'
    BY <2>1, <2>4, <2>6, <2>7 DEF Ordered
  <2>12. (\A a \in collected[m] : Of(m, a) = "ready")'
    BY <2>6, <2>7, <2>8 DEF Ordered
  <2>13. (retry[m] > 0 => Of(m, Lowest(Wave(m) \ collected[m])) = "ready")'
    <3>1. Wave(m)' = Wave(m)
      BY <2>7 DEF Wave, OpenWaves
    <3>2. retry[m] > 0 => Lowest(Wave(m) \ collected[m]) \in Atoms
      BY <1>1, WaveIsOpen, LowestIsIn DEF IInv, RetryInWave
    <3>3. retry[m] > 0 => Lowest(Wave(m) \ collected[m]) # new
      BY <2>4 DEF Ordered
    <3>4. QED
      BY <2>6, <2>7, <3>1, <3>2, <3>3 DEF Ordered
  <2>14. QED
    BY <2>7, <2>10, <2>11, <2>12, <2>13 DEF Ordered
<1>6. CASE MgrCollect(m) \/ MgrRetry(m)
  <2> DEFINE next == Lowest(Wave(m) \ collected[m])
  <2>1. mgr[m] = "dispatch" /\ OpenWaves(m) # {}
    BY <1>6 DEF MgrCollect, MgrRetry, IInv, RetryInWave
  <2>2. next \in Atoms /\ Of(m, next) = "ready"
    <3>1. next \in Atoms
      BY <1>1, <2>1, WaveIsOpen, LowestIsIn
    <3>2. QED
      BY <1>6, <3>1 DEF MgrCollect, MgrRetry, Ordered, Of
  <2>3. /\ mgr' = mgr /\ plan' = plan /\ future' = future
        /\ \/ collected'[m] = collected[m]
           \/ collected'[m] = collected[m] \cup {next} /\ retry'[m] = 0
    BY <1>1, <1>6 DEF MgrCollect, MgrRetry
  <2> HIDE DEF next
  <2>4. collected[m] \subseteq collected'[m] /\ \A a \in Atoms : Of(m, a)' = Of(m, a)
    BY <2>3 DEF Of
  <2>5. \A a \in collected'[m] : Of(m, a) = "ready"
    BY <2>2, <2>3 DEF Ordered
  <2>6. retry'[m] > 0 => Of(m, Lowest(Wave(m) \ collected[m]))' = "ready"
    <3>1. CASE collected'[m] = collected[m]
      <4>1. Wave(m)' = Wave(m)
        BY <2>3, <3>1 DEF Wave, OpenWaves
      <4>2. QED
        BY <2>2, <2>3, <3>1, <4>1 DEF next, Of
    <3>2. QED
      BY <2>3, <3>1
  <2>7. collected'[m] \subseteq Atoms
    BY DEF IInv, TypeOK
  <2>8. (\A k, l \in 1..Len(plan[m]) :
           k < l /\ (\E a \in plan[m][l] : Of(m, a) # "none") => plan[m][k] \subseteq collected[m])'
    BY <1>3, <2>3, <2>4 DEF Ordered
  <2>9. QED
    BY <2>1, <2>3, <2>4, <2>5, <2>6, <2>7, <2>8 DEF Ordered
<1>7. CASE MgrValidate(m)
  <2>1. mgr[m] = "dispatch" /\ mgr'[m] = "returned" /\ OpenWaves(m) = {}
        /\ UNCHANGED <<plan, collected, retry, future>>
    BY <1>1, <1>7 DEF MgrValidate
  <2>2. \A l \in 1..Len(plan[m]) : plan[m][l] \subseteq collected[m]
    BY <2>1 DEF OpenWaves
  <2>3. \A a \in Atoms : Of(m, a) \in {"none", "ready"}
    BY <2>2 DEF Ordered
  <2>4. Wave(m)' = Wave(m) /\ \A a : Of(m, a)' = Of(m, a)
    BY <2>1 DEF Wave, OpenWaves, Of
  <2>5. ~(retry[m] > 0)
    BY <2>1 DEF IInv, RetryInWave
  <2>6. QED
    BY <2>1, <2>3, <2>4, <2>5 DEF Ordered
<1>8. CASE MgrRelease(m)
  <2>1. mgr[m] = "returned" /\ mgr'[m] = "released"
        /\ UNCHANGED <<plan, collected, retry, future>>
    BY <1>1, <1>8 DEF MgrRelease
  <2>2. Wave(m)' = Wave(m) /\ \A a : Of(m, a)' = Of(m, a)
    BY <2>1 DEF Wave, OpenWaves, Of
  <2>3. QED
    BY <2>1, <2>2 DEF Ordered
<1>9. QED
  BY <1>4, <1>5, <1>6, <1>7, <1>8 DEF Manager

\* Every step keeps every subtask in order.
LEMMA OrderedStep ==
  ASSUME IInv, Ordering, [Next]_vars, NEW m \in Subtasks
  PROVE  Ordered(m)'
<1>1. IInv'
  BY StepInv
<1>2. /\ mgr \in [Subtasks -> {"idle", "submitted", "started", "dispatch", "returned", "released"}]
      /\ plan \in [Subtasks -> Plans \cup {<<>>}] /\ retry \in [Subtasks -> 0..MaxRetries]
      /\ collected \in [Subtasks -> SUBSET Atoms] /\ dir.sub \in Subtasks
      /\ future \in [PoolTasks -> {"none", "pending", "ready", "refused"}]
      /\ plan'[m] \in Plans \cup {<<>>}
  BY <1>1 DEF IInv, TypeOK
<1>3. Ordered(m)
  BY DEF Ordering
<1>4. ASSUME UNCHANGED <<mgrVars, future>>
      PROVE  Ordered(m)'
  BY <1>3, <1>4, OrderedKept DEF Of
<1>5. CASE DirAcquire \/ DirAcquireThrows
  <2>1. UNCHANGED <<plan, collected, retry, future>>
    BY <1>5 DEF DirAcquire, DirAcquireThrows
  <2>2. CASE m = dir.sub
    <3>1. mgr[m] = "idle"
      BY <1>2, <1>5, <2>2 DEF Ordering, Ahead, DirAcquire, DirAcquireThrows, Subtasks
    <3>2. QED
      BY <1>2, <1>3, <2>1, <3>1, OrderedBefore
  <2>3. CASE m # dir.sub
    <3>1. mgr'[m] = mgr[m]
      BY <1>2, <1>5, <2>3 DEF DirAcquire, DirAcquireThrows
    <3>2. QED
      BY <1>3, <2>1, <3>1, OrderedKept DEF Of
  <2>4. QED
    BY <2>2, <2>3
<1>6. CASE DirSubmit
  <2>1. future' = [future EXCEPT ![MgrTask(dir.sub)] = "pending"] /\ UNCHANGED mgrVars
    BY <1>6 DEF DirSubmit, Pool!Submit
  <2>2. \A a \in Atoms : Of(m, a)' = Of(m, a)
    BY <1>2, <2>1, AtomTasks DEF IInv, Of
  <2>3. QED
    BY <1>3, <2>1, <2>2, OrderedKept
<1>7. ASSUME NEW n \in Subtasks, Manager(n)
      PROVE  Ordered(m)'
  <2>1. CASE n = m
    BY <1>1, <1>3, <1>7, <2>1, ManagerOrders
  <2>2. CASE n # m
    <3>1. /\ mgr'[m] = mgr[m] /\ plan'[m] = plan[m] /\ collected'[m] = collected[m]
          /\ retry'[m] = retry[m]
      BY <1>2, <1>7, <2>2 DEF Manager, MgrStart, MgrCancelled, MgrDecompose, MgrSubmit,
                              MgrCollect, MgrRetry, MgrValidate, MgrRelease
    <3>2. CASE MgrSubmit(n)
      <4>1. <<n, Lowest(Unsubmitted(n))>> \in Subtasks \X Atoms
        BY <3>2, SubmitsWaveTask DEF MgrSubmit, IInv
      <4>2. future' = [future EXCEPT ![<<n, Lowest(Unsubmitted(n))>>] = "pending"]
        BY <3>2 DEF MgrSubmit, Pool!Submit
      <4>3. \A a \in Atoms : Of(m, a)' = Of(m, a)
        BY <1>2, <2>2, <4>1, <4>2, AtomTasks DEF IInv, Of
      <4>4. QED
        BY <1>3, <3>1, <4>3, OrderedKept
    <3>3. CASE ~MgrSubmit(n)
      <4>1. future' = future
        BY <1>7, <3>3 DEF Manager, MgrStart, MgrCancelled, MgrDecompose, MgrCollect,
                          MgrRetry, MgrValidate, MgrRelease
      <4>2. QED
        BY <1>3, <3>1, <4>1, OrderedKept DEF Of
    <3>4. QED
      BY <3>2, <3>3
  <2>3. QED
    BY <2>1, <2>2
<1>8. ASSUME NEW th \in Threads, Finish(th)
      PROVE  Ordered(m)'
  <2>1. /\ job[th] \in PoolTasks /\ future[job[th]] = "pending"
        /\ future' = [future EXCEPT ![job[th]] = "ready"] /\ UNCHANGED mgrVars
    BY <1>8 DEF Finish, FinishManager, FinishWorker, Pool!Finish, IInv, TypeOK, OnePlace
  <2>2. \A a \in Atoms : Of(m, a)' = Of(m, a) \/ (Of(m, a) = "pending" /\ Of(m, a)' = "ready")
    BY <1>2, <2>1, AtomTasks DEF IInv, Of
  <2>3. QED
    BY <1>3, <2>1, <2>2, OrderedKept
<1>9. QED
  BY <1>4, <1>5, <1>6, <1>7, <1>8
  DEF Next, Director, DirCollect, DirNextSequential, DirFinish, Pool!Close, Take, Pool!Take,
      DestroyPool, Pool!Destroy, Cancel, Terminated, vars

\* Before the dispatch nothing is submitted.
LEMMA OrderingInit == Init => Ordering
<1> SUFFICES ASSUME Init
             PROVE  Ordering
  OBVIOUS
<1>1. \A m \in Subtasks, a \in Atoms : Of(m, a) = "none"
  BY DEF Init, Pool!Init, PoolTasks, Of
<1>2. \A m \in Subtasks : Ordered(m)
  BY <1>1 DEF Init, Ordered
<1>3. Ahead
  BY DEF Init, Ahead
<1>4. QED
  BY <1>2, <1>3 DEF Ordering

\* No Manager gets ahead of its data, and none returns before its Workers
\* (WavesInOrder), for any plan whose waves are disjoint and however often a task
\* is retried.
THEOREM WavesKeepOrder == Spec => []WavesInOrder
<1>1. IInv /\ Ordering => WavesInOrder
  BY DEF Ordering, Ordered, WavesInOrder, Of
<1>2. IInv /\ Ordering /\ [Next]_vars => Ordering'
  BY AheadStep, OrderedStep DEF Ordering
<1>3. QED
  BY <1>1, <1>2, InitInv, StepInv, OrderingInit, PTL DEF Spec

-----------------------------------------------------------------------------
(* Nobody waits for ever                                                   *)

\* What is pending is in the queue or on a thread, the pool refuses nothing, and
\* a task of process() exists once the Director has been past its subtask.
Waits ==
    /\ \A t \in PoolTasks : future[t] = "pending" =>
         (\E i \in 1..Len(queue) : queue[i] = t) \/ (\E th \in Threads : job[th] = t)
    /\ \A t \in PoolTasks : future[t] # "refused"
    /\ dir.at # "done" => ~stop
    /\ \A m \in Subtasks : future[MgrTask(m)] # "none" => mgr[m] # "idle"
    /\ dir.at \in {"submit", "process"} => mgr[dir.sub] # "idle"
    /\ ~sequential /\ dir.at \in {"acquire", "submit"} =>
         \A m \in Subtasks : m < dir.sub => future[MgrTask(m)] # "none"
    /\ dir.at = "collect" => \A m \in Subtasks : future[MgrTask(m)] # "none"

\* The steps of the pool keep what is pending in its place.
LEMMA PlacedStep ==
  ASSUME QueueType, [Pool!Next]_threadVars,
         \A t \in PoolTasks : future[t] = "pending" =>
           (\E i \in 1..Len(queue) : queue[i] = t) \/ (\E th \in Threads : job[th] = t)
  PROVE  (\A t \in PoolTasks : future[t] = "pending" =>
           (\E i \in 1..Len(queue) : queue[i] = t) \/ (\E th \in Threads : job[th] = t))'
<1> SUFFICES ASSUME NEW t \in PoolTasks, future'[t] = "pending"
             PROVE  \/ \E i \in 1..Len(queue') : queue'[i] = t
                    \/ \E th \in Threads : job'[th] = t
  OBVIOUS
<1> USE DEF QueueType
<1>1. ASSUME NEW s, NEW u \in PoolTasks, Pool!Submit(s, u)
      PROVE  \/ \E i \in 1..Len(queue') : queue'[i] = t
             \/ \E th \in Threads : job'[th] = t
  <2>1. /\ future' = [future EXCEPT ![u] = "pending"] /\ job' = job
        /\ queue' = Append(queue, u)
    BY <1>1 DEF Pool!Submit
  <2>2. /\ Len(queue') = Len(queue) + 1 /\ Len(queue) \in Nat
        /\ \A i \in 1..Len(queue) : queue'[i] = queue[i]
        /\ queue'[Len(queue) + 1] = u
    BY <2>1, AppendProperties
  <2>3. CASE t = u
    BY <2>2, <2>3
  <2>4. CASE t # u
    <3>1. future[t] = "pending"
      BY <2>1, <2>4
    <3>2. QED
      BY <2>1, <2>2, <3>1
  <2>5. QED
    BY <2>3, <2>4
<1>2. ASSUME NEW th \in Threads, Pool!Take(th)
      PROVE  \/ \E i \in 1..Len(queue') : queue'[i] = t
             \/ \E s \in Threads : job'[s] = t
  <2>1. /\ queue # <<>> /\ queue' = Tail(queue) /\ job' = [job EXCEPT ![th] = Head(queue)]
        /\ future' = future /\ job[th] = NoTask
    BY <1>2 DEF Pool!Take
  <2>2. /\ Len(queue) \in Nat \ {0} /\ Head(queue) = queue[1]
        /\ Len(queue') = Len(queue) - 1
        /\ \A i \in 1..Len(queue') : queue'[i] = queue[i + 1]
    BY <2>1, HeadTailProperties, EmptySeq, LenProperties
  <2>3. ASSUME NEW i \in 1..Len(queue), queue[i] = t
        PROVE  \/ \E j \in 1..Len(queue') : queue'[j] = t
               \/ \E s \in Threads : job'[s] = t
    <3>1. CASE i = 1
      BY <2>1, <2>2, <2>3, <3>1
    <3>2. CASE i # 1
      <4>1. i - 1 \in 1..Len(queue') /\ (i - 1) + 1 = i
        BY <2>2, <3>2
      <4>2. queue'[i - 1] = t
        BY <2>2, <2>3, <4>1
      <4>3. QED
        BY <4>1, <4>2
    <3>3. QED
      BY <3>1, <3>2
  <2>4. ASSUME NEW s \in Threads, job[s] = t PROVE job'[s] = t
    BY <2>1, <2>4, NoTaskAssumption
  <2>5. QED
    BY <2>1, <2>3, <2>4
<1>3. ASSUME NEW th \in Threads, Pool!Finish(th)
      PROVE  \/ \E i \in 1..Len(queue') : queue'[i] = t
             \/ \E s \in Threads : job'[s] = t
  <2>1. /\ job[th] \in PoolTasks /\ queue' = queue /\ job' = [job EXCEPT ![th] = NoTask]
        /\ future' = [future EXCEPT ![job[th]] = "ready"]
    BY <1>3 DEF Pool!Finish
  <2>2. t # job[th] /\ future[t] = "pending"
    BY <2>1
  <2>3. QED
    BY <2>1, <2>2
<1>4. ASSUME NEW s, NEW u \in PoolTasks, Pool!Refuse(s, u)
      PROVE  \/ \E i \in 1..Len(queue') : queue'[i] = t
             \/ \E th \in Threads : job'[th] = t
  BY <1>4 DEF Pool!Refuse
<1>5. CASE Pool!Close \/ Pool!Destroy \/ UNCHANGED threadVars
  BY <1>5 DEF Pool!Close, Pool!Destroy
<1>6. QED
  BY <1>1, <1>2, <1>3, <1>4, <1>5 DEF Pool!Next

\* With a free thread, or one that runs no process(), whatever is pending will
\* be made ready by somebody who can go on.
LEMMA PendingMoves ==
  ASSUME IInv, Waits, Count < Cardinality(Threads),
         NEW t \in PoolTasks, future[t] = "pending"
  PROVE  (\E th \in Threads : ThreadCan(th)) \/ (\E th \in Threads : job[th] = t)
<1>1. CASE \E i \in 1..Len(queue) : queue[i] = t
  <2>1. queue # <<>>
    BY <1>1, EmptySeq
  <2>2. PICK th \in Threads : \A m \in Subtasks : job[th] # MgrTask(m)
    BY ThreadLeft DEF ThreadLeftForWorkers
  <2>3. job[th] = NoTask \/ job[th] \in Subtasks \X Atoms
    <3>1. job[th] = NoTask \/ job[th] \in PoolTasks
      BY DEF IInv, TypeOK
    <3>2. QED
      BY <2>2, <3>1 DEF PoolTasks, MgrTask
  <2>4. QED
    BY <2>1, <2>3 DEF ThreadCan
<1>2. QED
  BY <1>1 DEF Waits

\* process() on a thread can go on, or the Director can, or it waits for a
\* Worker's task, and then a thread can.
LEMMA ManagerMoves ==
  ASSUME IInv, Waits, Count < Cardinality(Threads), dir.at # "done",
         NEW m \in Subtasks, OnThread(m), mgr[m] # "idle"
  PROVE  DirectorCan \/ ManagerCan(m) \/ \E th \in Threads : ThreadCan(th)
<1>1. ~stop /\ (AtWork(m) => holding[m] # 0)
  BY DEF Waits, IInv, HoldsAtWork
<1>2. mgr[m] \in {"submitted", "started", "dispatch", "returned", "released"}
  BY DEF IInv, TypeOK
<1>3. CASE mgr[m] \in {"submitted", "started", "returned"}
  BY <1>1, <1>3 DEF ManagerCan, AtWork
<1>4. CASE mgr[m] = "released"
  BY <1>4 DEF OnThread, RunsOn, DirectorCan, ThreadCan
<1>5. CASE mgr[m] = "dispatch"
  <2> DEFINE a == Lowest(Wave(m) \ collected[m])
  <2>1. CASE OpenWaves(m) = {} \/ Unsubmitted(m) # {}
    BY <1>1, <1>5, <2>1 DEF ManagerCan
  <2>2. CASE OpenWaves(m) # {} /\ Unsubmitted(m) = {}
    <3>1. a \in Atoms /\ a \in Wave(m)
      BY <2>2, WaveIsOpen, LowestIsIn DEF IInv, TypeOK
    <3> HIDE DEF a
    <3>2. <<m, a>> \in Subtasks \X Atoms /\ <<m, a>> \in PoolTasks
      BY <3>1 DEF PoolTasks
    <3>3. future[<<m, a>>] \in {"pending", "ready"}
      <4>1. future[<<m, a>>] # "none"
        BY <2>2, <3>1 DEF Unsubmitted
      <4>2. QED
        BY <3>2, <4>1 DEF Waits, IInv, TypeOK
    <3>4. CASE future[<<m, a>>] = "pending"
      BY <3>2, <3>4, PendingMoves DEF ThreadCan
    <3>5. CASE future[<<m, a>>] = "ready"
      BY <1>5, <3>5 DEF ManagerCan, a
    <3>6. QED
      BY <3>3, <3>4, <3>5
  <2>3. QED
    BY <2>1, <2>2
<1>6. QED
  BY <1>2, <1>3, <1>4, <1>5

LEMMA SomebodyMoves ==
  ASSUME IInv, Progress, Ahead, Waits, Count < Cardinality(Threads)
  PROVE  NeverStuck
<1> SUFFICES ASSUME dir.at # "done"
             PROVE  \/ DirectorCan
                    \/ \E m \in Subtasks : ManagerCan(m)
                    \/ \E th \in Threads : ThreadCan(th)
  BY DEF NeverStuck
<1>1. /\ dir.sub \in Subtasks /\ dir.sub >= dir.sub
      /\ dir.at \in {"acquire", "submit", "collect", "process"}
  BY DEF IInv, TypeOK, Subtasks
<1>2. CASE dir.at = "acquire"
  BY <1>1, <1>2 DEF DirectorCan, Ahead, IInv, HoldsAtWork, AtWork, TypeOK, Managers!PoolTypeOK
<1>3. CASE dir.at = "submit"
  BY <1>1, <1>3 DEF DirectorCan, Progress, Waits
<1>4. CASE dir.at = "process"
  <2>1. OnThread(dir.sub)
    BY <1>4 DEF OnThread, RunsOn
  <2>2. QED
    BY <1>1, <1>4, <2>1, ManagerMoves DEF Waits
<1>5. CASE dir.at = "collect"
  <2> DEFINE m == dir.sub
  <2>1. m \in Subtasks /\ MgrTask(m) \in PoolTasks
    BY <1>1, MgrTaskIsTask
  <2>2. future[MgrTask(m)] \in {"pending", "ready"} /\ mgr[m] # "idle"
    BY <1>5, <2>1 DEF Waits, IInv, TypeOK
  <2>3. CASE future[MgrTask(m)] = "ready"
    BY <1>5, <2>3 DEF DirectorCan
  <2>4. CASE future[MgrTask(m)] = "pending"
    <3>1. SUFFICES ASSUME NEW th \in Threads, job[th] = MgrTask(m)
                   PROVE  DirectorCan \/ ManagerCan(m) \/ \E s \in Threads : ThreadCan(s)
      BY <2>1, <2>4, PendingMoves
    <3>2. OnThread(m)
      BY <3>1, ThreadsAssumption DEF OnThread, RunsOn
    <3>3. QED
      BY <2>1, <2>2, <3>2, ManagerMoves
  <2>5. QED
    BY <2>2, <2>3, <2>4
<1>6. QED
  BY <1>1, <1>2, <1>3, <1>4, <1>5

-----------------------------------------------------------------------------
LEMMA WaitsInit == Init => Waits
<1> SUFFICES ASSUME Init PROVE Waits
  OBVIOUS
<1>1. /\ queue = <<>> /\ future = [t \in PoolTasks |-> "none"] /\ stop = FALSE
      /\ dir = [at |-> "acquire", sub |-> 1]
  BY DEF Init, Pool!Init
<1>2. QED
  BY <1>1, MgrTaskIsTask DEF Waits, Subtasks

\* Steps that leave the Director where it is, and add no task of process().
LEMMA WaitsKept ==
  ASSUME Waits, dir' = dir, sequential' = sequential, stop' = stop,
         \A t \in PoolTasks : future'[t] # "refused",
         \A m \in Subtasks : /\ mgr'[m] = "idle" => mgr[m] = "idle"
                             /\ future'[MgrTask(m)] = "none" <=> future[MgrTask(m)] = "none",
         (\A t \in PoolTasks : future[t] = "pending" =>
           (\E i \in 1..Len(queue) : queue[i] = t) \/ (\E th \in Threads : job[th] = t))',
         dir.sub \in Subtasks
  PROVE  Waits'
<1>1. dir'.at # "done" => ~stop'
  BY DEF Waits
<1>2. \A m \in Subtasks : future'[MgrTask(m)] # "none" => mgr'[m] # "idle"
  BY DEF Waits
<1>3. dir'.at \in {"submit", "process"} => mgr'[dir'.sub] # "idle"
  BY DEF Waits
<1>4. ~sequential' /\ dir'.at \in {"acquire", "submit"} =>
         \A m \in Subtasks : m < dir'.sub => future'[MgrTask(m)] # "none"
  BY DEF Waits
<1>5. dir'.at = "collect" => \A m \in Subtasks : future'[MgrTask(m)] # "none"
  BY DEF Waits
<1>6. QED
  BY <1>1, <1>2, <1>3, <1>4, <1>5 DEF Waits

LEMMA WaitsStep ==
  ASSUME IInv, Progress, Waits, [Next]_vars
  PROVE  Waits'
<1> USE TypeParts DEF IInv, LocalType
<1>1. /\ dir.sub \in Subtasks /\ dir.at \in {"acquire", "submit", "collect", "process", "done"}
      /\ QueueType
  OBVIOUS
<1>2. (\A t \in PoolTasks : future[t] = "pending" =>
         (\E i \in 1..Len(queue) : queue[i] = t) \/ (\E th \in Threads : job[th] = t))'
  BY QueueStep, PlacedStep DEF Waits
<1>3. ASSUME dir.at # "done", UNCHANGED <<threadVars, sequential>>, dir'.sub \in Subtasks,
             \A m \in Subtasks : mgr'[m] = "idle" => mgr[m] = "idle",
             dir'.at \in {"submit", "process"} => mgr'[dir'.sub] # "idle",
             ~sequential /\ dir'.at \in {"acquire", "submit"} =>
               \A m \in Subtasks : m < dir'.sub => future[MgrTask(m)] # "none",
             dir'.at = "collect" => \A m \in Subtasks : future[MgrTask(m)] # "none"
      PROVE  Waits'
  BY <1>2, <1>3 DEF Waits
<1>4. CASE DirAcquire
  <2>1. /\ dir.at = "acquire" /\ dir'.sub = dir.sub /\ UNCHANGED <<threadVars, sequential>>
        /\ dir'.at = IF sequential THEN "process" ELSE "submit"
    BY <1>4 DEF DirAcquire
  <2>2. /\ \A m \in Subtasks : mgr'[m] = "idle" => mgr[m] = "idle"
        /\ mgr'[dir.sub] # "idle"
    BY <1>1, <1>4 DEF DirAcquire
  <2>3. QED
    BY <1>1, <1>3, <2>1, <2>2 DEF Waits
<1>5. CASE DirAcquireThrows
  <2>1. /\ dir.at = "acquire" /\ UNCHANGED <<threadVars, sequential>>
        /\ \/ sequential /\ dir'.at \in {"acquire", "done"}
           \/ ~sequential /\ dir' = [dir EXCEPT !.at = "submit"]
    BY <1>5 DEF DirAcquireThrows, Advance
  <2>2. dir'.sub \in Subtasks
    <3>1. dir' \in [at : {"acquire", "submit", "collect", "process", "done"}, sub : Subtasks]
      BY <1>5, AdvanceType DEF DirAcquireThrows
    <3>2. QED
      BY <3>1
  <2>3. /\ \A m \in Subtasks : mgr'[m] = "idle" => mgr[m] = "idle"
        /\ mgr'[dir.sub] # "idle"
    BY <1>1, <1>5 DEF DirAcquireThrows
  <2>4. QED
    BY <1>1, <1>3, <2>1, <2>2, <2>3 DEF Waits
<1>6. CASE DirSubmit
  <2>1. /\ dir.at = "submit" /\ ~sequential /\ sequential' = sequential /\ mgr' = mgr
        /\ stop' = stop /\ future' = [future EXCEPT ![MgrTask(dir.sub)] = "pending"]
    BY <1>6 DEF DirSubmit, Pool!Submit, Progress
  <2>2. MgrTask(dir.sub) \in PoolTasks
    BY <1>1, MgrTaskIsTask
  <2>3. /\ \A t \in PoolTasks : future'[t] # "refused"
        /\ future'[MgrTask(dir.sub)] # "none"
        /\ \A m \in Subtasks : future[MgrTask(m)] # "none" => future'[MgrTask(m)] # "none"
        /\ \A m \in Subtasks : m # dir.sub => future'[MgrTask(m)] = future[MgrTask(m)]
    BY <1>1, <2>1, <2>2, MgrTasksDiffer, MgrTaskIsTask DEF QueueType, Waits
  <2>4. \A m \in Subtasks : future'[MgrTask(m)] # "none" => mgr'[m] # "idle"
    BY <2>1, <2>3 DEF Waits
  <2>5. \A m \in Subtasks : m < dir.sub => future'[MgrTask(m)] # "none"
    BY <2>1, <2>3 DEF Waits
  <2>6. CASE dir.sub < Count
    <3>1. dir' = [at |-> "acquire", sub |-> dir.sub + 1]
      BY <1>6, <2>6 DEF DirSubmit, Advance
    <3>2. \A m \in Subtasks : m < dir.sub + 1 => future'[MgrTask(m)] # "none"
      BY <1>1, <2>3, <2>5, SubtaskOrder
    <3>3. QED
      BY <1>2, <2>1, <2>3, <2>4, <3>1, <3>2 DEF Waits
  <2>7. CASE ~(dir.sub < Count)
    <3>1. dir' = [at |-> "collect", sub |-> 1]
      BY <1>6, <2>7 DEF DirSubmit, Advance
    <3>2. \A m \in Subtasks : future'[MgrTask(m)] # "none"
      BY <1>1, <2>3, <2>5, <2>7, SubtaskOrder
    <3>3. QED
      BY <1>2, <2>1, <2>3, <2>4, <3>1, <3>2 DEF Waits
  <2>8. QED
    BY <2>6, <2>7
<1>7. CASE DirCollect
  <2>1. /\ dir.at = "collect" /\ UNCHANGED <<threadVars, sequential>> /\ mgr' = mgr
        /\ dir'.at \in {"collect", "done"}
    BY <1>7 DEF DirCollect, Advance
  <2>2. dir'.sub \in Subtasks
    BY <1>7, AdvanceType DEF DirCollect
  <2>3. QED
    BY <1>3, <2>1, <2>2 DEF Waits
<1>8. CASE DirNextSequential
  <2>1. /\ dir.at = "process" /\ UNCHANGED <<threadVars, sequential>> /\ mgr' = mgr
        /\ dir'.at \in {"acquire", "done"} /\ sequential
    BY <1>8 DEF DirNextSequential, Advance, Progress
  <2>2. dir'.sub \in Subtasks
    BY <1>8, AdvanceType DEF DirNextSequential
  <2>3. QED
    BY <1>3, <2>1, <2>2 DEF Waits
<1>9. CASE DirFinish
  <2>1. dir.at = "done" /\ UNCHANGED <<dir, sequential, mgr, future>>
    BY <1>9 DEF DirFinish, Pool!Close
  <2>2. QED
    BY <1>2, <2>1 DEF Waits
<1>10. ASSUME NEW m \in Subtasks,
              MgrStart(m) \/ MgrCancelled(m) \/ MgrDecompose(m) \/ MgrCollect(m)
                \/ MgrRetry(m) \/ MgrValidate(m) \/ MgrRelease(m)
       PROVE  Waits'
  <2>1. /\ UNCHANGED <<dir, sequential, stop, future>>
        /\ \A n \in Subtasks : mgr'[n] = "idle" => mgr[n] = "idle"
    BY <1>10 DEF MgrStart, MgrCancelled, MgrDecompose, MgrCollect, MgrRetry, MgrValidate,
                 MgrRelease
  <2>2. \A t \in PoolTasks : future'[t] # "refused"
    BY <2>1 DEF Waits
  <2>3. QED
    BY <1>1, <1>2, <2>1, <2>2, WaitsKept
<1>11. ASSUME NEW m \in Subtasks, MgrSubmit(m) PROVE Waits'
  <2>1. <<m, Lowest(Unsubmitted(m))>> \in Subtasks \X Atoms
    BY <1>11, SubmitsWaveTask DEF MgrSubmit
  <2>2. /\ future' = [future EXCEPT ![<<m, Lowest(Unsubmitted(m))>>] = "pending"]
        /\ UNCHANGED <<dir, sequential, stop, mgr>>
    BY <1>11 DEF MgrSubmit, Pool!Submit
  <2>3. \A n \in Subtasks : future'[MgrTask(n)] = future[MgrTask(n)]
    BY <2>1, <2>2, MgrTaskIsTask, MgrTasksDiffer DEF QueueType
  <2>4. \A t \in PoolTasks : future'[t] # "refused"
    BY <2>2 DEF Waits, QueueType
  <2>5. QED
    BY <1>1, <1>2, <2>2, <2>3, <2>4, WaitsKept
<1>12. ASSUME NEW th \in Threads, Finish(th) PROVE Waits'
  <2>1. /\ job[th] \in PoolTasks /\ future[job[th]] = "pending"
        /\ future' = [future EXCEPT ![job[th]] = "ready"]
        /\ UNCHANGED <<dir, sequential, stop, mgr>>
    BY <1>12 DEF Finish, FinishManager, FinishWorker, Pool!Finish, QueueType, OnePlace
  <2>2. \A t \in PoolTasks : /\ future'[t] # "refused"
                             /\ future'[t] = "none" <=> future[t] = "none"
    BY <2>1 DEF Waits, QueueType
  <2>3. QED
    BY <1>1, <1>2, <2>1, <2>2, MgrTaskIsTask, WaitsKept
<1>13. ASSUME UNCHANGED <<future, mgr, dir, sequential, stop>> PROVE Waits'
  <2>1. \A t \in PoolTasks : future'[t] # "refused"
    BY <1>13 DEF Waits
  <2>2. QED
    BY <1>1, <1>2, <1>13, <2>1, WaitsKept
<1>14. QED
  BY <1>4, <1>5, <1>6, <1>7, <1>8, <1>9, <1>10, <1>11, <1>12, <1>13
     DEF Next, Director, Manager, Take, Pool!Take, DestroyPool, Pool!Destroy, Cancel,
         Terminated, vars

\* Ahead is part of Ordering, which every step keeps.
LEMMA OrderingStep == IInv /\ Ordering /\ [Next]_vars => Ordering'
  BY AheadStep, OrderedStep DEF Ordering

\* With fewer subtasks than threads nested waiting never comes to a standstill,
\* whatever the plans, the retries, the cancellations and the failures of
\* acquire().
THEOREM DispatchIsNeverStuck ==
  ASSUME Count < Cardinality(Threads)
  PROVE  Spec => []NeverStuck
<1>1. IInv /\ Progress /\ Ordering /\ Waits => NeverStuck
  BY SomebodyMoves DEF Ordering
<1>2. QED
  BY <1>1, InitInv, StepInv, ProgressInit, ProgressStep, OrderingInit, OrderingStep,
     WaitsInit, WaitsStep, PTL DEF Spec

-----------------------------------------------------------------------------
(* The reports                                                             *)

Reported == \A m \in Subtasks : mgr[m] \in {"returned", "released"} => report[m] # "none"

LEMMA ReportedStep == TypeOK /\ Reported /\ [Next]_vars => Reported'
<1> SUFFICES ASSUME TypeOK, Reported, [Next]_vars PROVE Reported'
  OBVIOUS
<1> USE DEF TypeOK, Reported
<1>1. CASE Director
  BY <1>1 DEF Director, DirAcquire, DirAcquireThrows, DirSubmit, DirCollect, DirNextSequential,
              DirFinish
<1>2. ASSUME NEW m \in Subtasks, Manager(m) PROVE Reported'
  BY <1>2 DEF Manager, MgrStart, MgrCancelled, MgrDecompose, MgrSubmit, MgrCollect, MgrRetry,
              MgrValidate, MgrRelease
<1>3. QED
  BY <1>1, <1>2 DEF Next, Take, Finish, DestroyPool, Cancel, Terminated, vars

\* When the Director goes on, every subtask has its report: also those that were
\* cancelled, that failed or for which no Manager could be made.
THEOREM ReportsAreIn == Spec => []ReportsComplete
<1>1. Init => Reported
  BY DEF Init, Reported
<1>2. Progress /\ Reported => ReportsComplete
  BY DEF Progress, Reported, ReportsComplete
<1>3. IInv => TypeOK
  BY DEF IInv
<1>4. QED
  BY <1>1, <1>2, <1>3, InitInv, StepInv, ProgressInit, ProgressStep, ReportedStep, PTL DEF Spec

-----------------------------------------------------------------------------
(* The parts                                                               *)

\* Every dispatch uses the thread pool as WorkQueue allows, so that what is shown
\* of it, and of ThreadPool, which implements it, holds here.
THEOREM DispatchUsesQueue == Spec => Pool!Spec
<1>1. Init => Pool!Init
  BY DEF Init
<1>2. TypeOK /\ [Next]_vars => [Pool!Next]_(Pool!queueVars)
  BY QueueStep DEF Pool!queueVars
<1>3. QED
  BY <1>1, <1>2, TypeCorrect, PTL DEF Spec, Pool!Spec

\* ... and the pool of Managers as ManagerPool allows.
THEOREM DispatchUsesManagers == Spec => MP!Spec
<1>1. Init => MP!Init
  BY DEF Init, Managers!Init, MP!Init
<1>2. TypeOK /\ [Next]_vars => [MP!Next]_(MP!poolVars)
  BY ManagersStep DEF MP!poolVars
<1>3. QED
  BY <1>1, <1>2, TypeCorrect, PTL DEF Spec, MP!Spec
=============================================================================
