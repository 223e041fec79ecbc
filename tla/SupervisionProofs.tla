------------------------- MODULE SupervisionProofs -------------------------
(***************************************************************************)
(* The safety properties of Supervision, for any number of Workers, any    *)
(* stuck_timeout, any number of retries and with or without the advisor:   *)
(* no retry is blind, the cancel flag is clean when the user gets the      *)
(* prompt, and nobody is cancelled before four polls of one and the same   *)
(* silence.                                                                *)
(*                                                                         *)
(* The inductive invariant has three parts besides the types.  Control     *)
(* ties the three threads of the run together: where the Supervisor's loop *)
(* is decides whether the Director runs, whether the monitor exists and    *)
(* how many failures are on record.  InLoop bounds the Worker's attempts.  *)
(* Silence relates the monitor's counter to the age it was counted for.    *)
(***************************************************************************)
EXTENDS Supervision, TLAPS

USE DEF Agents

States == {"Idle", "Running", "Done", "Failed", "Cancelled"}

Control ==
    /\ sup.at = "start" => mon = "off" /\ sup.attempt = 0
    /\ sup.at \in {"start", "attempt", "judging"} => failures = sup.attempt
    /\ dir # "out" => sup.at = "attempt"
    /\ dir # "out" /\ sup.attempt > 0 => goal = ConsultAdvisor
    /\ sup.at = "returned" => mon = "off"
    /\ main # "supervising" => sup.at = "returned"
    /\ main = "prompt" => watcher = "gone" /\ ~cancelled

InLoop == \A w \in Workers : worker[w] = "calling" => tries[w] <= LLMRetries

\* Counter c is no more than what age n, the age at the last poll, accounts for.
Earned(n, c) ==
    \/ c = 4
    \/ /\ n >= 1 /\ n < StuckAfter => c = 0
       /\ n >= StuckAfter => n + 1 >= StuckAfter + c

Pending(a) == mon = "treating" /\ a \in todo

\* An agent that is still to be treated has its counter from the poll before
\* this one, where it was one younger; if the snapshot is out of date, the agent
\* has moved since.
Silence ==
    \A a \in Agents :
        IF Pending(a)
        THEN /\ age[a] \in {0, snap[a]}
             /\ snap[a] >= 2 => Earned(snap[a] - 1, count[a])
        ELSE Earned(age[a], count[a])

IInv == TypeOK /\ Control /\ InLoop /\ Silence

-----------------------------------------------------------------------------
(* Steps of everybody but the monitor                                      *)

\* Transition() makes its agent young or leaves it alone.
LEMMA TransitionFacts ==
    ASSUME TypeOK, NEW a \in Agents, NEW s \in States, Transition(a, s)
    PROVE  /\ sm' \in [Agents -> States] /\ age' \in [Agents -> 0..MaxAge]
           /\ \A b \in Agents : age'[b] \in {0, age[b]}
<1>1. 0 \in 0..MaxAge
  BY StuckAssumption DEF MaxAge
<1>2. sm \in [Agents -> States] /\ age \in [Agents -> 0..MaxAge]
  BY DEF TypeOK, States
<1>3. CASE sm[a] \in Terminal
  BY <1>2, <1>3 DEF Transition, smVars
<1>4. CASE sm[a] \notin Terminal
  <2>1. sm' = [sm EXCEPT ![a] = s] /\ age' = [age EXCEPT ![a] = 0]
    BY <1>4 DEF Transition
  <2> QED
    BY <1>1, <1>2, <2>1
<1> QED
  BY <1>3, <1>4

\* What a broadcast does to the inboxes.
LEMMA BroadcastFacts ==
    ASSUME TypeOK, NEW w \in Workers, NEW e \in {"ToolFailed", "SlowWarning"},
           Broadcast(w, e)
    PROVE  /\ boxes' \subseteq Agents \cup {Sup}
           /\ mail' \subseteq (Workers \X {"ToolFailed", "SlowWarning"})
           /\ mail' # {} => Sup \in boxes'
<1>1. CASE Sup \in boxes
  <2>1. mail' = mail \cup {<<w, e>>} /\ boxes' = boxes
    BY <1>1 DEF Broadcast
  <2>2. <<w, e>> \in Workers \X {"ToolFailed", "SlowWarning"}
    OBVIOUS
  <2> QED
    BY <1>1, <2>1, <2>2 DEF TypeOK
<1>2. CASE Sup \notin boxes
  BY <1>2 DEF TypeOK, Broadcast
<1> QED
  BY <1>1, <1>2

\* The parts of the state that a Worker's step leaves alone or keeps in bounds.
AgesQuiet ==
    /\ sm' \in [Agents -> States] /\ age' \in [Agents -> 0..MaxAge]
    /\ \A b \in Agents : age'[b] \in {0, age[b]}
BusTyped ==
    /\ boxes' \subseteq Agents \cup {Sup}
    /\ mail' \subseteq (Workers \X {"ToolFailed", "SlowWarning"})
    /\ mail' # {} => Sup \in boxes'
PlacesTyped ==
    /\ worker' \in [Workers -> {"free", "starting", "tool", "fixing", "ready", "calling"}]
    /\ tries' \in [Workers -> 0..LLMRetries + 1]
    /\ given' \in [Workers -> 0..TaskBound]
    /\ InLoop'

\* What a step leaves alone keeps its types.
LEMMA SameAges == TypeOK /\ UNCHANGED smVars => AgesQuiet
  BY DEF TypeOK, smVars, AgesQuiet, States

\* Likewise the inboxes.
LEMMA SameBus == TypeOK /\ UNCHANGED busVars => BusTyped
  BY DEF TypeOK, busVars, BusTyped

\* PlacesTyped is InLoop and its part of TypeOK, one step later.
LEMMA PlacesFacts ==
    ASSUME TypeOK, InLoop
    PROVE  /\ worker \in [Workers -> {"free", "starting", "tool", "fixing", "ready", "calling"}]
           /\ tries \in [Workers -> 0..LLMRetries + 1]
           /\ given \in [Workers -> 0..TaskBound]
           /\ \A w \in Workers : worker[w] = "calling" => tries[w] <= LLMRetries
  BY DEF TypeOK, InLoop

\* Likewise the Workers' places and counters.
LEMMA SamePlaces == TypeOK /\ InLoop /\ UNCHANGED workerVars => PlacesTyped
  BY DEF TypeOK, workerVars, PlacesTyped, InLoop

\* TransitionFacts in one word.
LEMMA MovesAges ==
    ASSUME TypeOK, NEW a \in Agents, NEW s \in States, Transition(a, s)
    PROVE  AgesQuiet
  BY TransitionFacts DEF AgesQuiet

\* BroadcastFacts in one word.
LEMMA MovesBus ==
    ASSUME TypeOK, NEW w \in Workers, NEW e \in {"ToolFailed", "SlowWarning"},
           Broadcast(w, e)
    PROVE  BusTyped
  BY BroadcastFacts DEF BusTyped

\* The end of execute().
LEMMA ReturnFacts ==
    ASSUME TypeOK, InLoop, NEW w \in Workers, NEW s \in States, Return(w, s)
    PROVE  AgesQuiet /\ PlacesTyped /\ WorkerStep
<1>1. AgesQuiet
  BY MovesAges DEF Return
<1>2. PlacesTyped
  <2>1. 0 \in 0..LLMRetries + 1
    BY BoundsAssumption
  <2>2. /\ worker' = [worker EXCEPT ![w] = "free"]
        /\ tries' = [tries EXCEPT ![w] = 0] /\ given' = given
    BY DEF Return
  <2> QED
    BY <2>1, <2>2, PlacesFacts DEF PlacesTyped, InLoop
<1> QED
  BY <1>1, <1>2 DEF Return

\* Every step of a Worker keeps what it writes in bounds, writes nothing of the
\* other threads, and makes agents young if it touches their ages at all.
LEMMA WorkerFacts ==
    ASSUME TypeOK, InLoop, NEW w \in Workers,
           Start(w) \/ Moves(w) \/ CallReturns(w)
    PROVE  AgesQuiet /\ BusTyped /\ PlacesTyped /\ WorkerStep
<1>1. CASE Start(w)
  <2>1. AgesQuiet
    BY <1>1, MovesAges DEF Start, States
  <2>2. PlacesTyped
    <3>1. given[w] + 1 \in 0..TaskBound
      BY <1>1, PlacesFacts, BoundsAssumption DEF Start
    <3>2. /\ worker' = [worker EXCEPT ![w] = "starting"] /\ tries' = tries
          /\ given' = [given EXCEPT ![w] = given[w] + 1]
      BY <1>1 DEF Start
    <3> QED
      BY <3>1, <3>2, PlacesFacts DEF PlacesTyped, InLoop
  <2> QED
    BY <1>1, <2>1, <2>2, SameBus DEF Start, busVars
<1>2. CASE StartCancelled(w) \/ LLMCancelled(w)
  BY <1>2, ReturnFacts, SameBus DEF StartCancelled, LLMCancelled, States
<1>3. CASE StartWork(w) \/ LLMCall(w)
  <2>1. PlacesTyped
    BY <1>3, BoundsAssumption
    DEF StartWork, LLMCall, Goto, TypeOK, InLoop, PlacesTyped
  <2> QED
    BY <1>3, <2>1, SameBus, SameAges DEF StartWork, LLMCall, Goto, smVars, busVars
<1>4. CASE NoAttemptLeft(w) \/ LLMFails(w)
  BY <1>4, ReturnFacts, SameBus DEF NoAttemptLeft, LLMFails, States
<1>5. CASE ToolSucceeds(w)
  <2>1. BusTyped
    BY <1>5, SameBus, MovesBus DEF ToolSucceeds
  <2> QED
    BY <1>5, <2>1, ReturnFacts DEF ToolSucceeds, States
<1>6. CASE ToolFails(w) \/ ToolIsMissing(w) \/ SelfFix(w)
  <2>1. PlacesTyped
    BY <1>6 DEF ToolFails, ToolIsMissing, SelfFix, Goto, TypeOK, InLoop, PlacesTyped
  <2>2. BusTyped
    BY <1>6, SameBus, MovesBus DEF ToolFails, ToolIsMissing, SelfFix, busVars
  <2> QED
    BY <1>6, <2>1, <2>2, SameAges DEF ToolFails, ToolIsMissing, SelfFix, Goto, smVars
<1>7. CASE AskLLM(w)
  <2>1. AgesQuiet
    BY <1>7, MovesAges DEF AskLLM, States
  <2>2. PlacesTyped
    BY <1>7 DEF AskLLM, Goto, TypeOK, InLoop, PlacesTyped
  <2> QED
    BY <1>7, <2>1, <2>2, SameBus DEF AskLLM, Goto, busVars
<1>8. CASE LLMAnswers(w)
  <2>1. BusTyped
    BY <1>8, SameBus, MovesBus DEF LLMAnswers, MaybeSlow
  <2> QED
    BY <1>8, <2>1, ReturnFacts DEF LLMAnswers, States
<1>9. CASE LLMTriesAgain(w)
  <2>1. AgesQuiet /\ BusTyped
    BY <1>9, MovesAges, SameAges, SameBus, MovesBus
    DEF LLMTriesAgain, MaybeSlow, smVars, busVars, States
  <2>2. PlacesTyped
    <3>1. tries[w] + 1 \in 0..LLMRetries + 1
      BY <1>9, PlacesFacts, BoundsAssumption DEF LLMTriesAgain
    <3>2. /\ worker' = [worker EXCEPT ![w] = "ready"] /\ given' = given
          /\ tries' = [tries EXCEPT ![w] = tries[w] + 1]
      BY <1>9 DEF LLMTriesAgain, Goto
    <3> QED
      BY <3>1, <3>2, PlacesFacts DEF PlacesTyped, InLoop
  <2> QED
    BY <1>9, <2>1, <2>2 DEF LLMTriesAgain, Goto
<1> QED
  BY <1>1, <1>2, <1>3, <1>4, <1>5, <1>6, <1>7, <1>8, <1>9 DEF Moves, CallReturns

\* Silence survives whatever only makes agents young.
LEMMA SilenceKept ==
    ASSUME TypeOK, Silence, AgesQuiet, UNCHANGED <<todo, snap, count>>,
           mon' = mon \/ (mon # "treating" /\ mon' # "treating")
    PROVE  Silence'
<1> SUFFICES ASSUME NEW a \in Agents
             PROVE  IF Pending(a)'
                    THEN /\ age'[a] \in {0, snap'[a]}
                         /\ snap'[a] >= 2 => Earned(snap'[a] - 1, count'[a])
                    ELSE Earned(age'[a], count'[a])
  BY DEF Silence
<1>1. Pending(a)' = Pending(a)
  BY DEF Pending
<1>2. age'[a] \in {0, age[a]}
  BY DEF AgesQuiet
<1>3. CASE Pending(a)
  BY <1>1, <1>2, <1>3 DEF Silence
<1>4. CASE ~Pending(a)
  <2>1. Earned(age[a], count[a])
    BY <1>4 DEF Silence
  <2>2. Earned(0, count[a])
    BY StuckAssumption DEF Earned
  <2> QED
    BY <1>1, <1>2, <1>4, <2>1, <2>2
<1> QED
  BY <1>3, <1>4

-----------------------------------------------------------------------------
(* The threads, one lemma each                                             *)

\* The rest of the types, one step later: what the threads other than the
\* Workers write.
LoopTyped ==
    /\ dir' \in {"out", "decomposing", "single", "planning", "dispatching", "reviewing", "retrying",
                 "reviewing again", "synthesising"}
    /\ sup' \in [at : {"start", "attempt", "judging", "stop", "returned"},
                 attempt : 0..MaxRetries]
    /\ result' \in {"none", "sound", "hollow", "failed", "approved"}
    /\ failures' \in 0..MaxRetries + 1
    /\ goal' \in {"nothing", "error", "analysis", "last failure"}
MonTyped ==
    /\ mon' \in {"off", "sleeping", "treating"}
    /\ todo' \subseteq Agents
    /\ snap' \in [Agents -> 0..MaxAge]
    /\ count' \in [Agents -> 0..4]
EndTyped ==
    /\ main' \in {"supervising", "joining", "prompt"}
    /\ watcher' \in {"watching", "gone"}

\* The Director's and the Supervisor's variables, left alone.
LEMMA SameLoop == TypeOK /\ UNCHANGED <<dir, supVars>> => LoopTyped
<1> SUFFICES ASSUME TypeOK, UNCHANGED <<dir, sup, result, failures, goal>>
             PROVE  LoopTyped
  BY DEF supVars
<1>1. sup' \in [at : {"start", "attempt", "judging", "stop", "returned"},
                attempt : 0..MaxRetries]
  BY DEF TypeOK
<1>2. result' \in {"none", "sound", "hollow", "failed", "approved"}
  BY DEF TypeOK
<1>3. failures' \in 0..MaxRetries + 1
  BY DEF TypeOK
<1> QED
  BY <1>1, <1>2, <1>3 DEF TypeOK, LoopTyped

\* The monitor's variables, left alone.
LEMMA SameMon == TypeOK /\ UNCHANGED monVars => MonTyped
<1> SUFFICES ASSUME TypeOK, UNCHANGED <<mon, todo, snap, count>>
             PROVE  MonTyped
  BY DEF monVars
<1>1. snap' \in [Agents -> 0..MaxAge]
  BY DEF TypeOK
<1>2. count' \in [Agents -> 0..4]
  BY DEF TypeOK
<1> QED
  BY <1>1, <1>2 DEF TypeOK, MonTyped

\* The main thread's and the watcher's, left alone.
LEMMA SameEnd == TypeOK /\ UNCHANGED mainVars => EndTyped
  BY DEF TypeOK, mainVars, EndTyped

\* The parts make the whole.
LEMMA TypesAgain ==
    /\ AgesQuiet /\ BusTyped /\ PlacesTyped /\ LoopTyped /\ MonTyped /\ EndTyped
    /\ cancelled' \in BOOLEAN
    => TypeOK'
  BY DEF AgesQuiet, BusTyped, PlacesTyped, LoopTyped, MonTyped, EndTyped, TypeOK, States

\* Facts about single variables, to be cited instead of the whole TypeOK.
LEMMA CounterTypes ==
    ASSUME TypeOK
    PROVE  /\ snap \in [Agents -> 0..MaxAge] /\ count \in [Agents -> 0..4]
           /\ age \in [Agents -> 0..MaxAge]
  BY DEF TypeOK

LEMMA LoopTypes ==
    ASSUME TypeOK
    PROVE  /\ sup.at \in {"start", "attempt", "judging", "stop", "returned"}
           /\ sup.attempt \in 0..MaxRetries /\ sup.attempt \in Nat
           /\ failures \in 0..MaxRetries + 1
           /\ main \in {"supervising", "joining", "prompt"}
           /\ cancelled \in BOOLEAN
<1>1. sup \in [at : {"start", "attempt", "judging", "stop", "returned"},
               attempt : 0..MaxRetries]
  BY DEF TypeOK
<1>2. failures \in 0..MaxRetries + 1 /\ cancelled \in BOOLEAN
      /\ main \in {"supervising", "joining", "prompt"}
  BY DEF TypeOK
<1> QED
  BY <1>1, <1>2, BoundsAssumption

\* The Supervisor's loop moves and counts no attempt.
LEMMA SupAt ==
    ASSUME TypeOK, NEW p \in {"attempt", "judging", "stop", "returned"},
           sup' = [sup EXCEPT !.at = p]
    PROVE  /\ sup'.at = p /\ sup'.attempt = sup.attempt
           /\ sup' \in [at : {"start", "attempt", "judging", "stop", "returned"},
                        attempt : 0..MaxRetries]
<1>1. sup \in [at : {"start", "attempt", "judging", "stop", "returned"},
               attempt : 0..MaxRetries]
  BY DEF TypeOK
<1> QED
  BY <1>1

\* A Worker.
LEMMA WorkerKeeps ==
    ASSUME IInv, NEW w \in Workers, Start(w) \/ Moves(w) \/ CallReturns(w)
    PROVE  IInv'
<1>1. TypeOK /\ Control /\ InLoop /\ Silence
  BY DEF IInv
<1>2. AgesQuiet /\ BusTyped /\ PlacesTyped /\ WorkerStep
  BY <1>1, WorkerFacts
<1>3. LoopTyped /\ MonTyped /\ EndTyped /\ cancelled' \in BOOLEAN
  BY <1>1, <1>2, SameLoop, SameMon, SameEnd, LoopTypes DEF WorkerStep
<1>4. Control'
  BY <1>1, <1>2 DEF Control, WorkerStep, supVars, monVars, mainVars, ConsultAdvisor
<1>5. Silence'
  BY <1>1, <1>2, SilenceKept DEF WorkerStep, monVars
<1> QED
  BY <1>2, <1>3, <1>4, <1>5, TypesAgain DEF IInv, PlacesTyped

\* The Director and the Supervisor's own loop write neither inboxes nor the
\* Workers' places.
LEMMA DirectorKeeps == IInv /\ DirProceeds => IInv'
<1> SUFFICES ASSUME IInv, DirProceeds
             PROVE  IInv'
  OBVIOUS
<1>1. TypeOK /\ Control /\ InLoop /\ Silence
  BY DEF IInv
<1>2. DirStep /\ AgesQuiet /\ failures' = failures /\ goal' = goal
      /\ dir # "out"
      /\ \/ /\ dir' = "out" /\ sup' = [sup EXCEPT !.at = "judging"]
            /\ result' \in {"sound", "hollow", "failed"}
         \/ /\ dir' \in {"single", "planning", "dispatching", "reviewing", "retrying",
                        "reviewing again", "synthesising"}
            /\ sup' = sup /\ result' = result
  <2>1. ASSUME NEW s \in {"Done", "Failed"}, NEW o \in {"sound", "hollow", "failed"},
               DirReturns(s, o)
        PROVE  DirStep /\ AgesQuiet /\ failures' = failures /\ goal' = goal
               /\ dir' = "out" /\ sup' = [sup EXCEPT !.at = "judging"]
               /\ result' \in {"sound", "hollow", "failed"}
    BY <1>1, <2>1, MovesAges DEF DirReturns, States
  <2>2. ASSUME NEW from, NEW to, DirGoes(from, to)
        PROVE  DirStep /\ AgesQuiet /\ failures' = failures /\ goal' = goal
               /\ dir = from /\ dir' = to /\ sup' = sup /\ result' = result
    BY <1>1, <2>2, MovesAges DEF DirGoes, States, supVars
  <2>3. CASE DirAnswersDirectly \/ DirAnswersWithOne \/ DirSynthesises
    BY <2>1, <2>3 DEF DirAnswersDirectly, DirAnswersWithOne, DirSynthesises, DirFinishes
  <2>4. CASE DirThrows
    BY <2>1, <2>4 DEF DirThrows
  <2>5. CASE DirDispatches
    <3>1. PICK from \in {"decomposing", "planning"} : DirGoes(from, "dispatching")
      BY <2>5 DEF DirDispatches
    <3> QED
      BY <2>2, <3>1
  <2>8. CASE DirReviews
    <3>1. PICK from \in {"dispatching"} : DirGoes(from, "reviewing")
      BY <2>8 DEF DirReviews
    <3> QED
      BY <2>2, <3>1
  <2>7. CASE DirApproves
    <3>1. PICK from \in {"reviewing", "reviewing again"} : DirGoes(from, "synthesising")
      BY <2>7 DEF DirApproves
    <3> QED
      BY <2>2, <3>1
  <2>6. CASE DirRetries
    BY <1>1, <2>6, SameAges DEF DirRetries, supVars, smVars
  <2>9. CASE DirTriesOne
    BY <1>1, <2>9, SameAges DEF DirTriesOne, supVars, smVars
  <2> QED
    BY <2>3, <2>4, <2>5, <2>6, <2>7, <2>8, <2>9 DEF DirProceeds
<1>3. BusTyped /\ PlacesTyped
  BY <1>1, <1>2, SameBus, SamePlaces DEF DirStep, busVars, workerVars
<1>4. sup.at = "attempt" /\ failures = sup.attempt
  BY <1>1, <1>2 DEF Control
<1>5. LoopTyped /\ MonTyped /\ EndTyped /\ cancelled' \in BOOLEAN
  <2>1. MonTyped /\ EndTyped /\ cancelled' \in BOOLEAN
    BY <1>1, <1>2, SameMon, SameEnd, LoopTypes DEF DirStep
  <2>2. sup' \in [at : {"start", "attempt", "judging", "stop", "returned"},
                  attempt : 0..MaxRetries]
    BY <1>1, <1>2, SupAt DEF TypeOK
  <2>3. /\ result' \in {"none", "sound", "hollow", "failed", "approved"}
        /\ failures' \in 0..MaxRetries + 1
        /\ goal' \in {"nothing", "error", "analysis", "last failure"}
    BY <1>1, <1>2 DEF TypeOK
  <2>4. dir' \in {"out", "decomposing", "single", "planning", "dispatching", "reviewing", "retrying",
                  "reviewing again", "synthesising"}
    BY <1>2
  <2> QED
    BY <2>1, <2>2, <2>3, <2>4 DEF LoopTyped
<1>6. Control'
  <2>1. /\ dir' = "out" => sup'.at = "judging"
        /\ dir' # "out" => sup'.at = "attempt"
        /\ sup'.attempt = sup.attempt
    BY <1>1, <1>2, <1>4, SupAt
  <2>2. main = "supervising"
    BY <1>1, <1>4, LoopTypes DEF Control
  <2> QED
    BY <1>1, <1>2, <1>4, <2>1, <2>2 DEF Control, DirStep, monVars, mainVars, ConsultAdvisor
<1>7. Silence'
  BY <1>1, <1>2, SilenceKept DEF DirStep, monVars
<1> QED
  BY <1>2, <1>3, <1>5, <1>6, <1>7, TypesAgain DEF IInv, PlacesTyped

\* The Supervisor's loop.  A rejected result adds a failure and an attempt.
LEMMA SupervisorKeeps == IInv /\ Supervisor => IInv'
<1> SUFFICES ASSUME IInv, Supervisor
             PROVE  IInv'
  OBVIOUS
<1>1. TypeOK /\ Control /\ InLoop /\ Silence
  BY DEF IInv
<1>2. SupStep /\ UNCHANGED <<todo, snap, count>>
  BY DEF Supervisor, SupStart, SupAttempt, SupJudge, SupReturns, monVars
<1>3. BusTyped /\ PlacesTyped
  BY <1>1, <1>2, SameBus, SamePlaces DEF SupStep, busVars, workerVars
<1>4. AgesQuiet
  BY <1>1, SameAges, MovesAges
  DEF Supervisor, SupStart, SupAttempt, SupJudge, SupReturns, smVars, States
<1>5. /\ mon' = mon \/ (mon # "treating" /\ mon' # "treating")
      /\ LoopTyped /\ MonTyped /\ Control'
  <2> USE <1>1, <1>2 DEF SupStep, mainVars
  <2>1. CASE SupStart
    <3>1. sup' = [sup EXCEPT !.at = "attempt"] /\ sup.at = "start" /\ mon' = "sleeping"
          /\ UNCHANGED <<dir, result, failures, goal>>
      BY <2>1 DEF SupStart
    <3>2. sup'.at = "attempt" /\ sup'.attempt = sup.attempt
          /\ sup' \in [at : {"start", "attempt", "judging", "stop", "returned"},
                       attempt : 0..MaxRetries]
      BY <3>1, SupAt
    <3>3. mon = "off" /\ sup.attempt = 0 /\ failures = 0 /\ dir = "out"
      BY <3>1 DEF Control
    <3>4. LoopTyped
      BY <3>1, <3>2 DEF LoopTyped, TypeOK
    <3>5. MonTyped
      BY <3>1 DEF MonTyped, TypeOK
    <3> QED
      BY <3>1, <3>2, <3>3, <3>4, <3>5 DEF Control
  <2>2. CASE SupAttempt
    <3>1. goal' \in {"nothing", "error", "analysis", "last failure"}
      BY <2>2 DEF SupAttempt, RefinedGoals, ConsultAdvisor, Advise
    <3>2. sup.attempt \in Nat /\ failures = sup.attempt
      BY <2>2, LoopTypes DEF SupAttempt, Control
    <3>3. sup.attempt > 0 => goal' = ConsultAdvisor
      <4>1. sup.attempt > 0 => RefinedGoals = {ConsultAdvisor}
        BY <3>2 DEF RefinedGoals, AdvisorThreshold
      <4> QED
        BY <2>2, <3>2, <4>1 DEF SupAttempt
    <3>4. main = "supervising"
      BY <2>2, LoopTypes DEF SupAttempt, Control
    <3>5. LoopTyped
      <4>1. dir' = "decomposing" /\ result' = "none" /\ UNCHANGED <<sup, failures>>
        BY <2>2 DEF SupAttempt
      <4> QED
        BY <3>1, <4>1 DEF LoopTyped, TypeOK
    <3>6. MonTyped
      BY <2>2, SameMon DEF SupAttempt
    <3> QED
      BY <2>2, <3>2, <3>3, <3>4, <3>5, <3>6
      DEF SupAttempt, Control, monVars, ConsultAdvisor
  <2>3. CASE SupJudge
    <3>1. sup.at = "judging" /\ failures = sup.attempt /\ dir = "out"
          /\ main = "supervising" /\ UNCHANGED <<goal, dir, monVars>>
      BY <2>3, LoopTypes DEF SupJudge, Control
    <3>2. MonTyped
      BY <3>1, SameMon
    <3>3. \/ Approve
          \/ Reject /\ failures' = failures + 1
      BY <2>3 DEF SupJudge
    <3>4. sup.attempt \in 0..MaxRetries
      BY LoopTypes
    <3>5. CASE Approve
      <4>1. sup'.at = "stop" /\ sup'.attempt = sup.attempt
            /\ sup' \in [at : {"start", "attempt", "judging", "stop", "returned"},
                         attempt : 0..MaxRetries]
        BY <3>5, SupAt DEF Approve
      <4>2. result' = "approved" /\ failures' = failures
        BY <3>5 DEF Approve
      <4>3. LoopTyped
        BY <3>1, <4>1, <4>2 DEF LoopTyped, TypeOK
      <4> QED
        BY <3>1, <3>2, <4>1, <4>3 DEF Control, monVars
    <3>6. CASE Reject /\ failures' = failures + 1
      <4>1. failures' \in 0..MaxRetries + 1 /\ result' = result
        BY <3>1, <3>4, <3>6, BoundsAssumption DEF Reject
      <4>2. /\ sup' \in [at : {"start", "attempt", "judging", "stop", "returned"},
                         attempt : 0..MaxRetries]
            /\ \/ sup'.at = "attempt" /\ sup'.attempt = failures'
               \/ sup'.at = "stop"
        <5>1. CASE sup.attempt < MaxRetries
          BY <3>1, <3>4, <3>6, <5>1, BoundsAssumption DEF Reject
        <5>2. CASE ~(sup.attempt < MaxRetries)
          BY <3>6, <5>2, SupAt DEF Reject
        <5> QED
          BY <5>1, <5>2
      <4>3. LoopTyped
        BY <3>1, <4>1, <4>2 DEF LoopTyped, TypeOK
      <4> QED
        BY <3>1, <3>2, <4>2, <4>3 DEF Control, monVars
    <3> QED
      BY <3>3, <3>5, <3>6
  <2>4. CASE SupReturns
    <3>1. sup' = [sup EXCEPT !.at = "returned"] /\ sup.at = "stop" /\ mon = "off"
          /\ UNCHANGED <<dir, result, failures, goal, monVars>>
      BY <2>4 DEF SupReturns
    <3>2. sup'.at = "returned"
          /\ sup' \in [at : {"start", "attempt", "judging", "stop", "returned"},
                       attempt : 0..MaxRetries]
      BY <3>1, SupAt
    <3>3. dir = "out"
      BY <3>1 DEF Control
    <3>4. LoopTyped
      BY <3>1, <3>2 DEF LoopTyped, TypeOK
    <3>5. MonTyped
      BY <3>1, SameMon
    <3> QED
      BY <3>1, <3>2, <3>3, <3>4, <3>5 DEF Control, monVars
  <2> QED
    BY <2>1, <2>2, <2>3, <2>4 DEF Supervisor
<1>8. EndTyped /\ cancelled' \in BOOLEAN
  BY <1>1, <1>2, SameEnd, LoopTypes DEF SupStep
<1>6. Silence'
  BY <1>1, <1>2, <1>4, <1>5, SilenceKept
<1> QED
  BY <1>3, <1>4, <1>5, <1>6, <1>8, TypesAgain DEF IInv, PlacesTyped

\* The ends of the run: the watcher and the main thread behind SupervisorAgent.
LEMMA SessionKeeps == IInv /\ (Session \/ WatcherCancels) => IInv'
<1> SUFFICES ASSUME IInv, Session \/ WatcherCancels
             PROVE  IInv'
  OBVIOUS
<1>1. TypeOK /\ Control /\ InLoop /\ Silence
  BY DEF IInv
<1>2. MainStep
  BY DEF Session, WatcherCancels, WatcherExits, MainStopsWatcher, MainResets
<1>3. AgesQuiet /\ BusTyped /\ PlacesTyped
  BY <1>1, <1>2, SameAges, SameBus, SamePlaces DEF MainStep, smVars, busVars, workerVars
<1>4. LoopTyped /\ MonTyped /\ EndTyped /\ cancelled' \in BOOLEAN
  <2>1. LoopTyped /\ MonTyped
    BY <1>1, <1>2, SameLoop, SameMon DEF MainStep
  <2>2. cancelled' = cancelled \/ cancelled' \in BOOLEAN
    BY DEF Session, WatcherCancels, WatcherExits, MainStopsWatcher, MainResets
  <2>3. EndTyped
    BY <1>1
    DEF Session, WatcherCancels, WatcherExits, MainStopsWatcher, MainResets, mainVars,
        TypeOK, EndTyped
  <2> QED
    BY <1>1, <2>1, <2>2, <2>3, LoopTypes
<1>5. Control'
  BY <1>1, <1>2
  DEF Session, WatcherCancels, WatcherExits, MainStopsWatcher, MainResets, mainVars,
      MainStep, supVars, monVars, Control, ConsultAdvisor
<1>6. Silence'
  BY <1>1, <1>2, <1>3, SilenceKept DEF MainStep, monVars
<1> QED
  BY <1>3, <1>4, <1>5, <1>6, TypesAgain DEF IInv, PlacesTyped

-----------------------------------------------------------------------------
(* The monitor                                                             *)

\* Older() counts a poll up to MaxAge, which is no less than the counter needs.
LEMMA OlderEarns ==
    ASSUME NEW n \in 0..MaxAge, NEW c \in 0..4, Earned(n, c), Older(n) >= 2
    PROVE  Earned(Older(n) - 1, c)
  BY StuckAssumption DEF Older, Earned, MaxAge

\* The snapshot: everybody is pending, with the counter of the previous poll.
LEMMA PollKeeps == IInv /\ MonPolls => IInv'
<1> SUFFICES ASSUME IInv, MonPolls
             PROVE  IInv'
  OBVIOUS
<1>1. TypeOK /\ Control /\ InLoop /\ Silence
  BY DEF IInv
<1>2. MaxAge \in Nat /\ MaxAge >= 1
  BY StuckAssumption DEF MaxAge
<1>3. age' \in [Agents -> 0..MaxAge] /\ snap' \in [Agents -> 0..MaxAge]
  <2>1. \A n \in 0..MaxAge : Older(n) \in 0..MaxAge
    BY <1>2 DEF Older
  <2>2. \A a \in Agents : age[a] \in 0..MaxAge
    BY <1>1, CounterTypes
  <2> QED
    BY <1>2, <2>1, <2>2 DEF MonPolls
<1>4. BusTyped /\ PlacesTyped
  BY <1>1, SameBus, SamePlaces DEF MonPolls, MonStep
<1>5. TypeOK'
  <2>1. LoopTyped /\ EndTyped /\ cancelled' \in BOOLEAN
    BY <1>1, SameLoop, SameEnd, LoopTypes DEF MonPolls, MonStep
  <2>2. MonTyped
    BY <1>1, <1>3 DEF MonPolls, MonTyped, TypeOK
  <2>3. sm' \in [Agents -> States]
    BY <1>1 DEF MonPolls, TypeOK, States
  <2> QED
    BY <1>3, <1>4, <2>1, <2>2, <2>3
    DEF TypeOK, BusTyped, PlacesTyped, LoopTyped, MonTyped, EndTyped, States
<1>6. Control'
  BY <1>1 DEF MonPolls, MonStep, supVars, mainVars, Control, ConsultAdvisor
<1>7. Silence'
  <2> SUFFICES ASSUME NEW a \in Agents
               PROVE  /\ age'[a] \in {0, snap'[a]}
                      /\ snap'[a] >= 2 => Earned(snap'[a] - 1, count'[a])
    BY DEF Silence, Pending, MonPolls
  <2>1. Earned(age[a], count[a])
    BY <1>1 DEF Silence, Pending, MonPolls
  <2>2. snap'[a] = IF sm[a] = "Running" THEN Older(age[a]) ELSE 0
    BY DEF MonPolls
  <2>3. age[a] \in 0..MaxAge /\ count[a] \in 0..4
    BY <1>1 DEF TypeOK
  <2> QED
    BY <2>1, <2>2, <2>3, OlderEarns DEF MonPolls
<1> QED
  BY <1>4, <1>5, <1>6, <1>7 DEF IInv, PlacesTyped

\* The two steps of the monitor that treat nobody.
LEMMA QuietMonitorKeeps == IInv /\ (MonStops \/ MonDrains) => IInv'
<1> SUFFICES ASSUME IInv, MonStops \/ MonDrains
             PROVE  IInv'
  OBVIOUS
<1>1. TypeOK /\ Control /\ InLoop /\ Silence
  BY DEF IInv
<1>2. AgesQuiet /\ PlacesTyped
  BY <1>1, SameAges, SamePlaces DEF MonStops, MonDrains, MonStep
<1>3. BusTyped
  <2>1. CASE MonStops
    BY <1>1, <2>1, SameBus DEF MonStops
  <2>2. CASE MonDrains
    <3>1. \A event \in mail : event[1] \in Workers
      BY <1>1 DEF TypeOK
    <3>2. boxes \subseteq Agents \cup {Sup}
      BY <1>1 DEF TypeOK
    <3>3. mail' = {} /\ boxes' = boxes \cup ({event[1] : event \in mail} \cap Inboxes)
      BY <2>2 DEF MonDrains
    <3> QED
      BY <3>1, <3>2, <3>3 DEF BusTyped
  <2> QED
    BY <2>1, <2>2
<1>4. UNCHANGED <<cancelled, dir, sup, result, failures, goal, todo, snap, count, main,
                  watcher>>
      /\ mon' \in {"off", "sleeping"}
  BY DEF MonStops, MonDrains, MonStep, supVars, mainVars
<1>5. LoopTyped /\ MonTyped /\ EndTyped /\ cancelled' \in BOOLEAN
  <2>1. LoopTyped /\ EndTyped /\ cancelled' \in BOOLEAN
    BY <1>1, <1>4, SameLoop, SameEnd, LoopTypes DEF supVars, mainVars
  <2>2. MonTyped
    BY <1>1, <1>4, CounterTypes DEF MonTyped, TypeOK
  <2> QED
    BY <2>1, <2>2
<1>6. Control'
  <2>1. sup.at # "returned" /\ sup.at # "start"
    BY <1>1 DEF Control, MonStops, MonDrains
  <2> QED
    BY <1>1, <1>4, <2>1 DEF Control, ConsultAdvisor
<1>7. Silence'
  <2>1. \A a \in Agents : ~Pending(a) /\ ~Pending(a)'
    BY <1>4 DEF MonStops, MonDrains, Pending
  <2>2. UNCHANGED <<age, count>>
    BY DEF MonStops, MonDrains, smVars
  <2> QED
    BY <1>1, <2>1, <2>2 DEF Silence
<1> QED
  BY <1>2, <1>3, <1>5, <1>6, <1>7, TypesAgain DEF IInv, PlacesTyped

\* One agent is treated: its counter is that of this poll now.  If it is
\* cancelled here, the snapshot was StuckAfter + 3 polls old.
LEMMA TreatFacts ==
    ASSUME IInv, NEW a \in Agents, Treat(a)
    PROVE  /\ AgesQuiet /\ BusTyped
           /\ cancelled' \in BOOLEAN
           /\ count' \in [Agents -> 0..4] /\ \A b \in Agents \ {a} : count'[b] = count[b]
           /\ age[a] \in {0, snap[a]}
           /\ Earned(snap[a], count'[a]) \/ snap[a] = 0
           /\ count'[a] = 4 /\ count[a] < 4 => snap[a] >= StuckAfter + 3
<1>1. TypeOK /\ Silence /\ Pending(a)
  BY DEF IInv, Treat, Pending
<1>2. snap[a] \in 0..MaxAge /\ count[a] \in 0..4
  BY <1>1 DEF TypeOK
<1>3. /\ age[a] \in {0, snap[a]}
      /\ snap[a] >= 2 => Earned(snap[a] - 1, count[a])
  BY <1>1 DEF Silence
<1>4. MaySend(a) \/ Correct(a) => BusTyped
  <2>1. Correct(a) => BusTyped
    BY <1>1 DEF Correct, BusTyped, TypeOK
  <2> QED
    BY <1>1, <2>1, SameBus DEF MaySend
<1>5. CASE Stuck(a) /\ HandleStuck(a)
  <2> DEFINE n == IF count[a] < 4 THEN count[a] + 1 ELSE 4
  <2>1. n \in 1..4 /\ count' = [count EXCEPT ![a] = n]
    BY <1>2, <1>5 DEF HandleStuck
  <2>2. BusTyped
    BY <1>4, <1>5 DEF HandleStuck
  <2>3. AgesQuiet
    BY <1>1, <1>5, SameAges, MovesAges DEF HandleStuck, CancelAgent, States
  <2>4. cancelled' \in BOOLEAN
    BY <1>1, <1>5 DEF HandleStuck, CancelAgent, TypeOK
  <2>5. count' \in [Agents -> 0..4] /\ count'[a] = n
        /\ \A b \in Agents \ {a} : count'[b] = count[b]
    BY <1>1, <2>1, CounterTypes
  <2>6. snap[a] >= StuckAfter /\ Earned(snap[a] - 1, count[a])
    BY <1>2, <1>3, <1>5, StuckAssumption DEF Stuck
  <2>7. Earned(snap[a], n) /\ (n = 4 /\ count[a] < 4 => snap[a] >= StuckAfter + 3)
    BY <1>2, <2>6, StuckAssumption DEF Earned, MaxAge
  <2> HIDE DEF n
  <2> QED
    BY <1>3, <2>2, <2>3, <2>4, <2>5, <2>7
<1>6. CASE ~Stuck(a) /\ MaySend(a) /\ UNCHANGED <<smVars, cancelled>>
           /\ count' = IF snap[a] > 0 THEN [count EXCEPT ![a] = 0] ELSE count
  <2>1. BusTyped /\ AgesQuiet
    BY <1>1, <1>4, <1>6, SameAges
  <2>2. cancelled' \in BOOLEAN
    BY <1>1, <1>6 DEF TypeOK
  <2>3. /\ count' \in [Agents -> 0..4] /\ \A b \in Agents \ {a} : count'[b] = count[b]
        /\ snap[a] > 0 => count'[a] = 0
        /\ count'[a] = 4 => count[a] = 4
    BY <1>1, <1>2, <1>6, CounterTypes
  <2>4. snap[a] < StuckAfter
    BY <1>2, <1>6, StuckAssumption DEF Stuck
  <2>5. Earned(snap[a], count'[a]) \/ snap[a] = 0
    BY <1>2, <2>3, <2>4, StuckAssumption DEF Earned
  <2> QED
    BY <1>2, <1>3, <2>1, <2>2, <2>3, <2>5
<1> QED
  BY <1>5, <1>6 DEF Treat

\* Treating one agent leaves the others as they were.
LEMMA TreatKeeps == ASSUME IInv, NEW a \in Agents, Treat(a) PROVE IInv'
<1>1. TypeOK /\ Control /\ InLoop /\ Silence
  BY DEF IInv
<1>2. /\ AgesQuiet /\ BusTyped
      /\ cancelled' \in BOOLEAN
      /\ count' \in [Agents -> 0..4] /\ \A b \in Agents \ {a} : count'[b] = count[b]
      /\ age[a] \in {0, snap[a]}
      /\ Earned(snap[a], count'[a]) \/ snap[a] = 0
  BY TreatFacts
<1>3. /\ mon = "treating" /\ mon' = mon /\ a \in todo /\ todo' = todo \ {a}
      /\ snap' = [snap EXCEPT ![a] = 0] /\ MonStep
  BY DEF Treat
<1>4. PlacesTyped
  BY <1>1, <1>3, SamePlaces DEF MonStep
<1>5. LoopTyped /\ MonTyped /\ EndTyped
  <2>1. snap' \in [Agents -> 0..MaxAge]
    BY <1>1, <1>3, CounterTypes, StuckAssumption DEF MaxAge
  <2>2. MonTyped
    <3>1. mon' \in {"off", "sleeping", "treating"} /\ todo' \subseteq Agents
      BY <1>1, <1>3 DEF TypeOK
    <3> QED
      BY <1>2, <2>1, <3>1 DEF MonTyped
  <2> QED
    BY <1>1, <1>3, <2>2, SameLoop, SameEnd DEF MonStep
<1>6. Control'
  <2>1. main = "supervising"
    BY <1>1, <1>3, LoopTypes DEF Control
  <2> QED
    BY <1>1, <1>3, <2>1 DEF Control, MonStep, supVars, mainVars, ConsultAdvisor
<1>7. Silence'
  <2> SUFFICES ASSUME NEW b \in Agents
               PROVE  IF Pending(b)'
                      THEN /\ age'[b] \in {0, snap'[b]}
                           /\ snap'[b] >= 2 => Earned(snap'[b] - 1, count'[b])
                      ELSE Earned(age'[b], count'[b])
    BY DEF Silence
  <2>1. age'[b] \in {0, age[b]}
    BY <1>2 DEF AgesQuiet
  <2>2. \A c \in 0..4 : Earned(0, c)
    BY StuckAssumption DEF Earned
  <2>3. CASE b = a
    <3>1. ~Pending(b)'
      BY <1>3, <2>3 DEF Pending
    <3>2. age'[b] = 0 \/ (age'[b] = snap[a] /\ Earned(snap[a], count'[a]))
      BY <1>2, <2>1, <2>3
    <3>3. count'[b] \in 0..4
      BY <1>2
    <3> QED
      BY <2>2, <2>3, <3>1, <3>2, <3>3
  <2>4. CASE b # a
    <3>1. Pending(b)' = Pending(b) /\ snap'[b] = snap[b] /\ count'[b] = count[b]
      BY <1>1, <1>2, <1>3, <2>4, CounterTypes DEF Pending
    <3>2. count[b] \in 0..4
      BY <1>1, CounterTypes
    <3>3. CASE Pending(b)
      BY <1>1, <2>1, <3>1, <3>3 DEF Silence
    <3>4. CASE ~Pending(b)
      <4>1. Earned(age[b], count[b])
        BY <1>1, <3>4 DEF Silence
      <4> QED
        BY <2>1, <2>2, <3>1, <3>2, <3>4, <4>1
    <3> QED
      BY <3>3, <3>4
  <2> QED
    BY <2>3, <2>4
<1> QED
  BY <1>2, <1>4, <1>5, <1>6, <1>7, TypesAgain DEF IInv, PlacesTyped

-----------------------------------------------------------------------------
(* The invariant and what it gives                                         *)

\* Before the run nobody is counted for anything.
LEMMA InitHolds == Init => IInv
<1> SUFFICES ASSUME Init
             PROVE  IInv
  OBVIOUS
<1>1. MaxAge \in Nat
  BY StuckAssumption DEF MaxAge
<1>2. TypeOK
  <2>1. /\ age \in [Agents -> 0..MaxAge] /\ snap \in [Agents -> 0..MaxAge]
        /\ count \in [Agents -> 0..4] /\ sm \in [Agents -> States]
    BY <1>1 DEF Init, States
  <2>2. /\ tries \in [Workers -> 0..LLMRetries + 1] /\ given \in [Workers -> 0..TaskBound]
        /\ worker \in [Workers -> {"free", "starting", "tool", "fixing", "ready", "calling"}]
    BY BoundsAssumption DEF Init
  <2>3. /\ sup \in [at : {"start", "attempt", "judging", "stop", "returned"},
                   attempt : 0..MaxRetries]
        /\ failures \in 0..MaxRetries + 1
    BY BoundsAssumption DEF Init
  <2>4. /\ cancelled \in BOOLEAN /\ boxes \subseteq Agents \cup {Sup}
        /\ mail \subseteq (Workers \X {"ToolFailed", "SlowWarning"})
        /\ mail # {} => Sup \in boxes
        /\ dir = "out" /\ result = "none" /\ goal = "nothing" /\ mon = "off"
        /\ todo \subseteq Agents /\ main = "supervising" /\ watcher = "watching"
    BY DEF Init
  <2> QED
    BY <2>1, <2>2, <2>3, <2>4 DEF TypeOK, States
<1>3. Control /\ InLoop
  BY DEF Init, Control, InLoop
<1>4. Silence
  BY StuckAssumption DEF Init, Silence, Pending, Earned
<1> QED
  BY <1>2, <1>3, <1>4 DEF IInv

\* A step that changes nothing.
LEMMA StutterKeeps == IInv /\ UNCHANGED vars => IInv'
<1> SUFFICES ASSUME IInv, UNCHANGED vars
             PROVE  IInv'
  OBVIOUS
<1>1. TypeOK /\ Control /\ InLoop /\ Silence
  BY DEF IInv
<1>2. UNCHANGED <<smVars, cancelled, busVars, workerVars, dir, supVars, monVars, mainVars>>
  BY DEF vars
<1>3. TypeOK' /\ InLoop'
  BY <1>1, <1>2, SameAges, SameBus, SamePlaces, SameLoop, SameMon, SameEnd, LoopTypes,
     TypesAgain DEF PlacesTyped
<1>4. Control'
  BY <1>1, <1>2 DEF Control, ConsultAdvisor, supVars, monVars, mainVars
<1>5. Silence'
  BY <1>1, <1>2, SameAges, SilenceKept DEF monVars
<1> QED
  BY <1>3, <1>4, <1>5 DEF IInv

\* Every step, thread by thread.
LEMMA NextKeeps == IInv /\ [Next]_vars => IInv'
<1>1. IInv /\ Monitor => IInv'
  BY PollKeeps, QuietMonitorKeeps, TreatKeeps DEF Monitor
<1> QED
  BY <1>1, WorkerKeeps, DirectorKeeps, SupervisorKeeps, SessionKeeps, StutterKeeps
  DEF Next

\* The invariant holds in every reachable state.
THEOREM Invariance == Spec => []IInv
  BY InitHolds, NextKeeps, PTL DEF Spec

\* Every variable keeps its type: the counters of the run (attempts, failures,
\* detections) are within the limits the code gives them.
THEOREM TypeCorrect == Spec => []TypeOK
<1>1. IInv => TypeOK
  BY DEF IInv
<1> QED
  BY <1>1, Invariance, PTL

\* No retry is blind (EveryFailureIsHeard), however many attempts max_retries
\* allows: every attempt of the Director after the first has as many failures on
\* record as there were attempts, and its goal was made from them.
THEOREM NoBlindRetry == Spec => []EveryFailureIsHeard
<1>1. IInv => EveryFailureIsHeard
  <2> SUFFICES ASSUME IInv, dir # "out", sup.attempt > 0
               PROVE  failures >= sup.attempt /\ goal = ConsultAdvisor
    BY DEF EveryFailureIsHeard
  <2>1. failures = sup.attempt /\ goal = ConsultAdvisor
    BY DEF IInv, Control
  <2> QED
    BY <2>1, LoopTypes DEF IInv
<1> QED
  BY <1>1, Invariance, PTL

\* When the user gets the prompt back, the cancel flag is clean and the watcher,
\* which might set it, is gone (PromptIsClean): neither a signal nor the monitor
\* of this run reaches the next one.
THEOREM NextRunStartsClean == Spec => []PromptIsClean
<1>1. IInv => PromptIsClean
  BY DEF IInv, Control, PromptIsClean
<1> QED
  BY <1>1, Invariance, PTL

\* Nobody is cancelled for being stuck (NoHastyCancel) before a silence of
\* stuck_timeout and three polls, for any number of Workers and any timeout.
THEOREM CancelIsPatient == Spec => NoHastyCancel
<1> DEFINE Patient == \A a \in Agents :
              count'[a] = 4 /\ count[a] < 4 => snap[a] >= StuckAfter + 3
<1>1. IInv /\ [Next]_vars => [Patient]_vars
  <2> SUFFICES ASSUME IInv, Next
               PROVE  Patient
    OBVIOUS
  <2>1. ASSUME UNCHANGED count
        PROVE  Patient
    BY <2>1, CounterTypes DEF IInv
  <2>2. CASE \E a \in Agents : Treat(a)
    <3>1. PICK a \in Agents : Treat(a)
      BY <2>2
    <3> QED
      BY <3>1, TreatFacts, CounterTypes DEF IInv
  <2>3. CASE ~\E a \in Agents : Treat(a)
    <3>1. Supervisor \/ DirProceeds => UNCHANGED count
      BY DEF Supervisor, SupStart, SupAttempt, SupJudge, SupReturns, DirProceeds, DirStep,
             DirAnswersDirectly, DirThrows, DirSynthesises, DirFinishes, DirReturns,
             DirDispatches, DirReviews, DirApproves, DirGoes, DirRetries, DirTriesOne,
             DirAnswersWithOne, monVars
    <3>2. MonStops \/ MonPolls \/ MonDrains => UNCHANGED count
      BY DEF MonStops, MonPolls, MonDrains
    <3>3. Session \/ WatcherCancels => UNCHANGED count
      BY DEF Session, WatcherExits, MainStopsWatcher, MainResets, WatcherCancels, MainStep,
             monVars
    <3>4. (\E w \in Workers : Start(w) \/ Moves(w) \/ CallReturns(w)) => UNCHANGED count
      BY WorkerFacts DEF IInv, WorkerStep, monVars
    <3> QED
      BY <2>1, <2>3, <3>1, <3>2, <3>3, <3>4 DEF Next, Monitor
  <2> QED
    BY <2>2, <2>3
<1> QED
  BY <1>1, Invariance, PTL DEF NoHastyCancel, Spec
=============================================================================
