------------------------- MODULE ManagerPoolProofs -------------------------
(***************************************************************************)
(* A Manager object belongs to one subtask at a time, for every number of  *)
(* subtasks, types and pooled Managers.                                    *)
(***************************************************************************)
EXTENDS ManagerPool, SequenceTheorems, WellFoundedInduction, TLAPS

\* Managers are numbered as they are made.
NumbersMade ==
    /\ \A i \in 1..Len(entries) : entries[i].mgr <= made
    /\ \A u \in Users : holding[u] <= made

PoolInv == PoolTypeOK /\ NumbersMade /\ EntriesDistinct /\ InUseMeansHeld /\ ManagerExclusive

LEMMA PoolInitInv == Init => PoolInv
  BY EmptySeq DEF Init, PoolInv, PoolTypeOK, NumbersMade, EntriesDistinct,
                  InUseMeansHeld, ManagerExclusive

LEMMA LeastExists ==
  ASSUME NEW S, S # {}, S \subseteq Nat
  PROVE  \E a \in S : \A b \in S : a <= b
<1>1. PICK a \in S : \A b \in S : <<b, a>> \notin OpToRel(<, Nat)
  BY NatLessThanWellFounded, WFMin, Zenon
<1>2. \A b \in S : ~(b < a)
  BY <1>1, Zenon DEF OpToRel
<1>3. QED
  BY <1>2

\* The entry that acquire() reuses is one of the idle ones.
LEMMA CandidateIsIdle ==
  ASSUME NEW type, PoolTypeOK, IdleEntries # {}
  PROVE  First(Candidates(type)) \in IdleEntries
<1>1. Candidates(type) # {} /\ Candidates(type) \subseteq IdleEntries
  BY DEF Candidates
<1>2. Candidates(type) \subseteq Nat
  BY <1>1 DEF IdleEntries
<1>3. \E i \in Candidates(type) : \A j \in Candidates(type) : i <= j
  BY <1>1, <1>2, LeastExists
<1>4. QED
  BY <1>1, <1>3 DEF First

-----------------------------------------------------------------------------
\* A Manager that has just been made is held by nobody else and is in no entry.
LEMMA FreshManager ==
  ASSUME PoolInv
  PROVE  /\ \A v \in Users : holding[v] # made + 1
         /\ \A i \in 1..Len(entries) : entries[i].mgr # made + 1
         /\ \A i \in 1..Len(entries) : entries[i] \in Entry
<1> USE DEF PoolInv, PoolTypeOK
<1>1. \A i \in 1..Len(entries) : entries[i] \in Entry
  BY ElementOfSeq
<1>2. \A i \in 1..Len(entries) : entries[i].mgr \in Nat
  BY <1>1 DEF Entry
<1>3. \A v \in Users : holding[v] \in Nat
  OBVIOUS
<1>4. QED
  BY <1>1, <1>2, <1>3 DEF NumbersMade

LEMMA ReusePreserves ==
  ASSUME PoolInv, NEW u \in Users, NEW type \in TaskTypes, holding[u] = 0, Reuse(u, type)
  PROVE  PoolInv'
<1> DEFINE i == First(Candidates(type))
<1> USE DEF PoolInv, PoolTypeOK
<1>1. i \in 1..Len(entries) /\ ~entries[i].inUse
  BY CandidateIsIdle DEF Reuse, IdleEntries
<1>2. entries[i] \in Entry
  BY <1>1, ElementOfSeq
<1>3. /\ entries' = [entries EXCEPT ![i] =
                       [mgr |-> entries[i].mgr, type |-> type, inUse |-> TRUE]]
      /\ holding' = [holding EXCEPT ![u] = entries[i].mgr]
      /\ made' = made
  BY DEF Reuse
<1> HIDE DEF i
<1>4. entries' \in Seq(Entry) /\ Len(entries') = Len(entries)
  BY <1>1, <1>2, <1>3, ExceptSeq DEF Entry
<1>5. /\ \A j \in 1..Len(entries) : entries'[j].mgr = entries[j].mgr
      /\ \A j \in 1..Len(entries) : j # i => entries'[j] = entries[j]
      /\ entries'[i].inUse
  BY <1>1, <1>2, <1>3, <1>4 DEF Entry
<1>6. \A v \in Users : holding[v] # entries[i].mgr
  BY <1>1 DEF InUseMeansHeld
<1>7. PoolTypeOK'
  BY <1>2, <1>3, <1>4 DEF Entry
<1>8. NumbersMade'
  BY <1>1, <1>3, <1>4, <1>5 DEF NumbersMade
<1>9. EntriesDistinct'
  BY <1>4, <1>5 DEF EntriesDistinct
<1>10. InUseMeansHeld'
  <2>1. SUFFICES ASSUME NEW j \in 1..Len(entries)
                 PROVE  entries'[j].inUse <=> \E v \in Users : holding'[v] = entries[j].mgr
    BY <1>4, <1>5 DEF InUseMeansHeld
  <2>2. CASE j = i
    BY <1>3, <1>5, <2>2
  <2>3. CASE j # i
    <3>1. entries'[j] = entries[j] /\ entries[j].mgr # entries[i].mgr
      BY <1>1, <1>5, <2>3 DEF EntriesDistinct
    <3>2. entries[j].mgr # 0
      BY FreshManager DEF Entry
    <3>3. \A v \in Users : holding'[v] = entries[j].mgr <=> holding[v] = entries[j].mgr
      BY <1>3, <3>1, <3>2
    <3>4. QED
      BY <3>1, <3>3 DEF InUseMeansHeld
  <2>4. QED
    BY <2>2, <2>3
<1>11. ManagerExclusive'
  BY <1>3, <1>6 DEF ManagerExclusive
<1>12. QED
  BY <1>7, <1>8, <1>9, <1>10, <1>11

LEMMA GrowPreserves ==
  ASSUME PoolInv, NEW u \in Users, NEW type \in TaskTypes, holding[u] = 0, Grow(u, type)
  PROVE  PoolInv'
<1> USE DEF PoolInv, PoolTypeOK
<1> DEFINE e == [mgr |-> made + 1, type |-> type, inUse |-> TRUE]
<1>1. e \in Entry
  BY DEF Entry
<1>2. /\ entries' \in Seq(Entry) /\ Len(entries') = Len(entries) + 1
      /\ \A i \in 1..Len(entries) : entries'[i] = entries[i]
      /\ entries'[Len(entries) + 1] = e
      /\ Len(entries) \in Nat
  BY <1>1, AppendProperties DEF Grow
<1>3. made' = made + 1 /\ holding' = [holding EXCEPT ![u] = made + 1]
  BY DEF Grow
<1> HIDE DEF e
<1>4. e.mgr = made + 1 /\ e.inUse
  BY DEF e
<1>5. PoolTypeOK' /\ NumbersMade'
  <2>1. PoolTypeOK'
    BY <1>2, <1>3
  <2>2. \A i \in 1..Len(entries') : entries'[i].mgr <= made'
    <3>1. \A i \in 1..Len(entries) : entries[i].mgr \in Nat
      BY FreshManager DEF Entry
    <3>2. QED
      BY <1>2, <1>3, <1>4, <3>1 DEF NumbersMade
  <2>3. \A v \in Users : holding'[v] <= made'
    BY <1>3 DEF NumbersMade
  <2>4. QED
    BY <2>1, <2>2, <2>3 DEF NumbersMade
<1>6. EntriesDistinct'
  BY <1>2, <1>4, FreshManager DEF EntriesDistinct
<1>7. InUseMeansHeld'
  <2>1. ASSUME NEW i \in 1..Len(entries)
        PROVE  entries'[i].inUse <=> \E v \in Users : holding'[v] = entries'[i].mgr
    <3>1. entries[i].mgr # made + 1 /\ entries[i].mgr # 0
      BY FreshManager DEF Entry
    <3>2. \A v \in Users : holding'[v] = entries[i].mgr <=> holding[v] = entries[i].mgr
      BY <1>3, <3>1
    <3>3. QED
      BY <1>2, <3>2 DEF InUseMeansHeld
  <2>2. \E v \in Users : holding'[v] = made + 1
    BY <1>3
  <2>3. QED
    BY <1>2, <1>4, <2>1, <2>2 DEF InUseMeansHeld
<1>8. ManagerExclusive'
  BY <1>3, FreshManager DEF ManagerExclusive
<1>9. QED
  BY <1>5, <1>6, <1>7, <1>8

LEMMA TransientPreserves ==
  ASSUME PoolInv, NEW u \in Users, NEW type, holding[u] = 0, Transient(u, type)
  PROVE  PoolInv'
<1> USE DEF PoolInv, PoolTypeOK
<1>1. made' = made + 1 /\ holding' = [holding EXCEPT ![u] = made + 1] /\ entries' = entries
  BY DEF Transient
<1>2. PoolTypeOK' /\ NumbersMade' /\ EntriesDistinct'
  BY <1>1, FreshManager DEF NumbersMade, EntriesDistinct, Entry
<1>3. InUseMeansHeld'
  BY <1>1, FreshManager DEF InUseMeansHeld, Entry
<1>4. ManagerExclusive'
  BY <1>1, FreshManager DEF ManagerExclusive
<1>5. QED
  BY <1>2, <1>3, <1>4

LEMMA ReleasePreserves ==
  ASSUME PoolInv, NEW u \in Users, Release(u)
  PROVE  PoolInv'
<1> USE DEF PoolInv, PoolTypeOK
<1>1. /\ holding[u] # 0 /\ made' = made
      /\ holding' = [holding EXCEPT ![u] = 0]
      /\ entries' = [i \in 1..Len(entries) |->
                       IF entries[i].mgr = holding[u]
                       THEN [entries[i] EXCEPT !.inUse = FALSE] ELSE entries[i]]
  BY DEF Release
<1>2. \A i \in 1..Len(entries) : entries[i] \in Entry
  BY FreshManager
<1>3. entries' \in Seq(Entry) /\ Len(entries') = Len(entries)
  <2>1. \A i \in 1..Len(entries) : entries'[i] \in Entry
    BY <1>1, <1>2 DEF Entry
  <2>2. Len(entries) \in Nat /\ entries' \in [1..Len(entries) -> Entry]
    BY <1>1, <2>1, LenProperties
  <2>3. QED
    BY <2>2, IsASeq, LenProperties
<1>4. \A i \in 1..Len(entries) :
        /\ entries'[i].mgr = entries[i].mgr
        /\ entries'[i].inUse <=> entries[i].inUse /\ entries[i].mgr # holding[u]
  BY <1>1, <1>2 DEF Entry
<1>5. PoolTypeOK' /\ NumbersMade' /\ EntriesDistinct'
  BY <1>1, <1>3, <1>4 DEF NumbersMade, EntriesDistinct
<1>6. InUseMeansHeld'
  <2>1. SUFFICES ASSUME NEW i \in 1..Len(entries)
                 PROVE  entries'[i].inUse <=> \E v \in Users : holding'[v] = entries[i].mgr
    BY <1>3, <1>4 DEF InUseMeansHeld
  <2>2. entries[i].mgr # 0
    BY <1>2 DEF Entry
  <2>3. \A v \in Users :
          holding'[v] = entries[i].mgr <=> v # u /\ holding[v] = entries[i].mgr
    BY <1>1, <2>2
  <2>4. (\E v \in Users : v # u /\ holding[v] = entries[i].mgr)
          <=> (\E v \in Users : holding[v] = entries[i].mgr) /\ entries[i].mgr # holding[u]
    BY <1>1 DEF ManagerExclusive
  <2>5. QED
    BY <1>4, <2>3, <2>4 DEF InUseMeansHeld
<1>7. ManagerExclusive'
  BY <1>1 DEF ManagerExclusive
<1>8. QED
  BY <1>5, <1>6, <1>7

LEMMA PoolStepInv == PoolInv /\ [Next]_poolVars => PoolInv'
<1> SUFFICES ASSUME PoolInv, [Next]_poolVars PROVE PoolInv'
  OBVIOUS
<1>1. ASSUME UNCHANGED poolVars PROVE PoolInv'
  BY <1>1 DEF poolVars, PoolInv, PoolTypeOK, NumbersMade, EntriesDistinct,
              InUseMeansHeld, ManagerExclusive
<1>2. ASSUME NEW u \in Users, NEW type \in TaskTypes, Acquire(u, type) PROVE PoolInv'
  BY <1>2, ReusePreserves, GrowPreserves, TransientPreserves DEF Acquire
<1>3. QED
  BY <1>1, <1>2, ReleasePreserves DEF Next, AcquireThrows

\* Two subtasks never hold the same Manager.
THEOREM ManagersAreExclusive == Spec => []ManagerExclusive
<1>1. PoolInv => ManagerExclusive
  BY DEF PoolInv
<1>2. QED
  BY <1>1, PoolInitInv, PoolStepInv, PTL DEF Spec

\* An entry is in use exactly while its Manager is held: none is leaked.
THEOREM NoManagerIsLost == Spec => []InUseMeansHeld
<1>1. PoolInv => InUseMeansHeld
  BY DEF PoolInv
<1>2. QED
  BY <1>1, PoolInitInv, PoolStepInv, PTL DEF Spec
=============================================================================
