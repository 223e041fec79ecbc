------------------------------ MODULE StateFile ------------------------------
(***************************************************************************)
(* state.md, the file that holds the latest state of every agent of a        *)
(* conversation: each StateMachine calls WorkspaceManager::write_state()     *)
(* (workspace.cpp) from its transitions, on whatever thread the agent runs,  *)
(* under a FileLock (file_lock.cpp); init() empties the file for each goal   *)
(* and takes no lock.  Another agent_runner may have switched to the same    *)
(* conversation ("them"): it does the same, and its agents have the same     *)
(* ids as this process's ("us"), so that it writes the same entries.         *)
(*                                                                          *)
(* A snapshot of ours is abstracted to the number of the transition it was   *)
(* taken at, one of theirs to Theirs; the text of the file is the snapshots  *)
(* it holds, or it does not parse.                                           *)
(***************************************************************************)
EXTENDS Integers

CONSTANTS Agents,          \* agents of this process, each on a thread
          Others,          \* agents of the other process; {} when there is none
          MaxTransitions   \* bound: transitions of this process's agents in a goal

ASSUME StateFileAssumption == MaxTransitions \in Nat /\ Agents \cap Others = {}

VARIABLES
    owner,     \* fcntl's view of state.md.lock: "free", "us", "them"
    lpc,       \* [Writers -> where its write_state() is]
    seen,      \* [Writers -> what it has read]
    text,      \* what state.md holds
    starting,  \* processes within init(), which have the file open
    latest,    \* [Agents -> its StateMachine's info_, as a number]
    moves,     \* transitions of the goal so far
    overlap,   \* history: in this goal, two have written the file at once
    lost       \* history: [Agents -> its entry is known not to be its latest]

snapshots == <<latest, moves>>
sfVars == <<owner, lpc, seen, text, starting, snapshots, overlap, lost>>

Writers == Agents \union Others
ProcessOf(w) == IF w \in Agents THEN "us" ELSE "them"

\* The snapshots of nobody, an entry of the other process, and text that does
\* not parse.
Nobody == [a \in Agents |-> 0]
Theirs == -1
Torn == [torn |-> -2]

\* init() has emptied the file for this process's first goal.
SfInit ==
    /\ owner = "free" /\ lpc = [w \in Writers |-> "idle"]
    /\ seen = [w \in Writers |-> Nobody] /\ text = Nobody /\ starting = {}
    /\ latest = Nobody /\ moves = 0
    /\ overlap = FALSE /\ lost = [a \in Agents |-> FALSE]

LGoto(w, l) == lpc' = [lpc EXCEPT ![w] = l]

Writing(w) == lpc[w] \in {"read", "open", "flush", "unlock"}

-----------------------------------------------------------------------------
(* init(), for each goal and before the goal has agents.                     *)

InitOpens(p) ==
    /\ p \notin starting /\ \A w \in Writers : ProcessOf(w) = p => lpc[w] = "idle"
    /\ starting' = starting \union {p} /\ text' = Nobody
    /\ UNCHANGED <<owner, lpc, seen>>

InUse == starting # {} \/ \E w \in Writers : Writing(w)

\* A new goal has new state machines and a new, empty file.
StartGoal ==
    /\ InitOpens("us")
    /\ latest' = Nobody /\ moves' = 0
    /\ lost' = [a \in Agents |-> FALSE] /\ overlap' = InUse

\* The other process's goal empties the file under this one's agents.
OtherStartsGoal ==
    /\ Others # {} /\ InitOpens("them")
    /\ lost' = [a \in Agents |-> TRUE] /\ overlap' = (overlap \/ InUse)
    /\ UNCHANGED snapshots

\* Closing the stream writes "{}" over the start of what is there by now.
InitCloses(p) ==
    /\ p \in starting /\ starting' = starting \ {p}
    /\ text' = IF text = Nobody THEN Nobody ELSE Torn
    /\ UNCHANGED <<owner, lpc, seen, snapshots, overlap, lost>>

-----------------------------------------------------------------------------
\* StateMachine::transition(): the callback runs within it, so that an agent has
\* one write in progress.  Done and Cancelled are final: there, as anywhere, an
\* agent may make no further transition in the goal.
Transition(a) ==
    /\ "us" \notin starting
    /\ lpc[a] = "idle" /\ moves < MaxTransitions
    /\ moves' = moves + 1 /\ latest' = [latest EXCEPT ![a] = moves + 1]
    /\ LGoto(a, "lock")
    /\ UNCHANGED <<owner, seen, text, starting, overlap, lost>>

\* The same in the other process, whose snapshots are not told apart.
OtherTransition(o) ==
    /\ "them" \notin starting
    /\ lpc[o] = "idle" /\ LGoto(o, "lock")
    /\ UNCHANGED <<owner, seen, text, starting, snapshots, overlap, lost>>

\* fcntl(F_SETLK): a process does not exclude itself.
MayLock(w) == owner \in {"free", ProcessOf(w)}

TryLock(w) ==
    /\ lpc[w] = "lock" /\ MayLock(w)
    /\ owner' = ProcessOf(w) /\ LGoto(w, "read") /\ overlap' = (overlap \/ InUse)
    /\ UNCHANGED <<seen, text, starting, snapshots, lost>>

\* Fault: a deadline that is never compared.
KeepTrying(w) ==
    /\ lpc[w] = "lock" /\ ~MayLock(w) /\ UNCHANGED sfVars

\* The deadline has passed: the snapshot is not written.
GiveUp(w) ==
    /\ lpc[w] = "lock" /\ ~MayLock(w) /\ LGoto(w, "idle")
    /\ lost' = [a \in Agents |-> lost[a] \/ a = w]
    /\ UNCHANGED <<owner, seen, text, starting, snapshots, overlap>>

\* Text that does not parse counts as no snapshots.
ReadState(w) ==
    /\ lpc[w] = "read" /\ LGoto(w, "open")
    /\ seen' = [seen EXCEPT ![w] = IF text = Torn THEN Nobody ELSE text]
    /\ UNCHANGED <<owner, text, starting, snapshots, overlap, lost>>

\* Opening the stream truncates the file.
OpenState(w) ==
    /\ lpc[w] = "open" /\ LGoto(w, "flush") /\ text' = Nobody
    /\ UNCHANGED <<owner, seen, starting, snapshots, overlap, lost>>

\* The entry w writes, and what it writes there.
Entries(w) == IF w \in Agents THEN {w} ELSE Agents
Snapshot(w) == IF w \in Agents THEN latest[w] ELSE Theirs

\* Fault: what was read is not written back.
FlushAlone(w) ==
    /\ lpc[w] = "flush" /\ LGoto(w, "unlock")
    /\ \E a \in Entries(w) :
         /\ text' = [Nobody EXCEPT ![a] = Snapshot(w)]
         /\ lost' = [lost EXCEPT ![a] = w \notin Agents]
    /\ seen' = [seen EXCEPT ![w] = Nobody]
    /\ UNCHANGED <<owner, starting, snapshots, overlap>>

\* Closing the stream writes at the start of the file; what another stream
\* has written since it was opened may stick out beyond.
FlushState(w) ==
    /\ lpc[w] = "flush" /\ LGoto(w, "unlock")
    /\ \E a \in Entries(w) :
         /\ text' \in {[seen[w] EXCEPT ![a] = Snapshot(w)]}
                         \union (IF text = Nobody THEN {} ELSE {Torn})
         /\ lost' = [lost EXCEPT ![a] = w \notin Agents]
    /\ seen' = [seen EXCEPT ![w] = Nobody]
    /\ UNCHANGED <<owner, starting, snapshots, overlap>>

\* F_UNLCK, and close(), release what the process holds, whoever holds it.
Unlock(w) ==
    /\ lpc[w] = "unlock" /\ LGoto(w, "idle")
    /\ owner' = "free"
    /\ UNCHANGED <<seen, text, starting, snapshots, overlap, lost>>

-----------------------------------------------------------------------------
WriteState(w) ==
    \/ TryLock(w) \/ GiveUp(w) \/ ReadState(w) \/ OpenState(w) \/ FlushState(w) \/ Unlock(w)

SfNext ==
    \/ StartGoal \/ OtherStartsGoal \/ \E p \in {"us", "them"} : InitCloses(p)
    \/ \E a \in Agents : Transition(a)
    \/ \E o \in Others : OtherTransition(o)
    \/ \E w \in Writers : WriteState(w)

\* Threads run and try_lock() has a deadline; the other process owes nothing.
SfSpec == SfInit /\ [][SfNext]_sfVars /\ \A a \in Agents : WF_sfVars(WriteState(a))

-----------------------------------------------------------------------------
(* Properties.                                                              *)

Quiet == starting = {} /\ \A w \in Writers : lpc[w] = "idle"

\* "the current StateInfo snapshot of all agents" (workspace.hpp): when nobody
\* writes, the file holds the latest snapshot of every agent, if none was given
\* up and no other process has been at the file.
AllAgentsInFile == Quiet /\ (\A a \in Agents : ~lost[a]) => text = latest

\* When nobody writes, the file parses and holds the latest snapshot of every
\* agent, but for those whose last write was given up, or since whose last write
\* the other process has written the same entry or started a goal, unless two
\* have written the file at once: threads of either process that read, merge
\* and write the whole file one after the other lose nothing else.
LostForKnownReasons ==
    Quiet /\ ~overlap => text # Torn /\ \A a \in Agents : lost[a] \/ text[a] = latest[a]

\* An agent is held up by its own transition for a bounded time, whatever
\* another process does with the lock.
TransitionEnds == \A a \in Agents : (lpc[a] = "lock") ~> (lpc[a] = "idle")
=============================================================================
