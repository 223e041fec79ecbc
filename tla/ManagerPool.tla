---------------------------- MODULE ManagerPool ----------------------------
(***************************************************************************)
(* src/agent/manager_pool.cpp: the bounded pool of Manager objects that    *)
(* the Director draws from, with one mutex around acquire() and release(). *)
(*                                                                         *)
(* A Manager is known by the number of the factory call that made it.      *)
(* entries is pool_, in its order; a Manager that is in no entry is        *)
(* transient and dies with its user.  Step 4 of acquire(), which evicts    *)
(* the least recently used idle entry, has no action: it is tried only     *)
(* when no entry is idle, so no state enables it.  Its time stamps and the *)
(* counters of handled and failed tasks, which nothing reads, are left     *)
(* out.                                                                    *)
(***************************************************************************)
EXTENDS Naturals, Sequences

CONSTANTS
    MaxManagers,    \* max_managers_
    TaskTypes,      \* the results of classify_task_type
    Users           \* the subtasks that Managers are acquired for

VARIABLES
    entries,    \* pool_: sequence of [mgr, type, inUse]
    made,       \* how many Managers the factory has made
    holding     \* the Manager each user has acquired and not yet released, or 0

poolVars == <<entries, made, holding>>

Entry == [mgr : Nat \ {0}, type : TaskTypes, inUse : BOOLEAN]

Init ==
    /\ entries = <<>>
    /\ made = 0
    /\ holding = [u \in Users |-> 0]

-----------------------------------------------------------------------------
IdleEntries == {i \in 1..Len(entries) : ~entries[i].inUse}

\* Steps 1 and 2 of acquire(): idle Managers of the type, else any idle one.
Candidates(type) ==
    LET sameType == {i \in IdleEntries : entries[i].type = type}
    IN  IF sameType # {} THEN sameType ELSE IdleEntries

First(S) == CHOOSE i \in S : \A j \in S : i <= j

\* Steps 1 and 2.  A Manager of another type changes its type and keeps its
\* memory.
Reuse(u, type) ==
    /\ IdleEntries # {}
    /\ LET i == First(Candidates(type)) IN
         /\ entries' = [entries EXCEPT ![i] =
                          [mgr |-> entries[i].mgr, type |-> type, inUse |-> TRUE]]
         /\ holding' = [holding EXCEPT ![u] = entries[i].mgr]
    /\ made' = made

\* Fault: the new entry is not marked as in use.
GrowIdle(u, type) ==
    /\ IdleEntries = {}
    /\ Len(entries) < MaxManagers
    /\ made' = made + 1
    /\ entries' = Append(entries, [mgr |-> made + 1, type |-> type, inUse |-> FALSE])
    /\ holding' = [holding EXCEPT ![u] = made + 1]

\* Step 3: a new Manager while the pool is below its limit.
Grow(u, type) ==
    /\ IdleEntries = {}
    /\ Len(entries) < MaxManagers
    /\ made' = made + 1
    /\ entries' = Append(entries, [mgr |-> made + 1, type |-> type, inUse |-> TRUE])
    /\ holding' = [holding EXCEPT ![u] = made + 1]

\* Step 5: a Manager that never enters the pool.
Transient(u, type) ==
    /\ IdleEntries = {}
    /\ Len(entries) >= MaxManagers
    /\ made' = made + 1
    /\ holding' = [holding EXCEPT ![u] = made + 1]
    /\ entries' = entries

\* acquire()
Acquire(u, type) ==
    /\ holding[u] = 0
    /\ Reuse(u, type) \/ Grow(u, type) \/ Transient(u, type)

\* The factory throws in step 3 or 5: acquire() has changed nothing.
AcquireThrows(u, type) ==
    /\ holding[u] = 0
    /\ IdleEntries = {}
    /\ UNCHANGED poolVars

\* release(): a transient Manager is in no entry and just goes away.
Release(u) ==
    /\ holding[u] # 0
    /\ entries' = [i \in 1..Len(entries) |->
                     IF entries[i].mgr = holding[u]
                     THEN [entries[i] EXCEPT !.inUse = FALSE] ELSE entries[i]]
    /\ holding' = [holding EXCEPT ![u] = 0]
    /\ made' = made

\* Any number of threads acquire and release, each critical section a step.
Next == \E u \in Users :
    \/ \E type \in TaskTypes : Acquire(u, type) \/ AcquireThrows(u, type)
    \/ Release(u)

Spec == Init /\ [][Next]_poolVars

-----------------------------------------------------------------------------
PoolTypeOK ==
    /\ entries \in Seq(Entry)
    /\ made \in Nat
    /\ holding \in [Users -> Nat]

\* Two subtasks never run on one Manager object: its process() keeps the state
\* of one subtask in the agent's state machine and has no lock of its own.
ManagerExclusive ==
    \A u, v \in Users : u # v /\ holding[u] # 0 => holding[u] # holding[v]

\* An entry is marked in use exactly while some subtask holds its Manager: no
\* Manager is leaked, and none is handed out while it works.
InUseMeansHeld ==
    \A i \in 1..Len(entries) :
        entries[i].inUse <=> \E u \in Users : holding[u] = entries[i].mgr

\* The pool holds each Manager once, so that release() finds the right entry.
EntriesDistinct ==
    \A i, j \in 1..Len(entries) : entries[i].mgr = entries[j].mgr => i = j
=============================================================================
