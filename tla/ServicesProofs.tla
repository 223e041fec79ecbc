--------------------------- MODULE ServicesProofs ---------------------------
(***************************************************************************)
(* What the Workers' threads share: the circuit breaker before the model, the*)
(* transport to it, the cache before the tools, and the experiences; for   *)
(* every number of threads, thresholds, sizes of the cache and responses.  *)
(***************************************************************************)
EXTENDS ModelAccess, HttpTransport, Tools, Learning, SequenceTheorems, FiniteSetTheorems,
    TLAPS


-----------------------------------------------------------------------------
(* The circuit breaker.                                                     *)

BreakerTypeOK ==
    /\ breaker \in {"Closed", "Open", "HalfOpen"}
    /\ failures \in Nat /\ successes \in Nat /\ steady \in Nat
    /\ cooled \in BOOLEAN

\* BreakerOnTime is not inductive: that the successes held are recent needs
\* that none is held outside the half-open state, and that the history
\* variable stops at the threshold.
BreakerInv ==
    /\ BreakerTypeOK
    /\ BreakerOnTime
    /\ steady <= SuccessThreshold
    /\ breaker # "HalfOpen" => successes = 0

LEMMA Thresholds ==
    /\ FailureThreshold \in Nat /\ 0 < FailureThreshold
    /\ SuccessThreshold \in Nat /\ 0 < SuccessThreshold
  BY ModelAccessAssumption

LEMMA BreakerInit == MaInit => BreakerInv
<1> SUFFICES ASSUME MaInit PROVE BreakerInv
  OBVIOUS
<1>1. breaker = "Closed" /\ failures = 0 /\ successes = 0 /\ cooled = FALSE /\ steady = 0
  BY DEF MaInit
<1>2. BreakerTypeOK
  BY <1>1 DEF BreakerTypeOK
<1>3. BreakerOnTime /\ steady <= SuccessThreshold
  BY <1>1, Thresholds DEF BreakerOnTime
<1>4. QED
  BY <1>1, <1>2, <1>3 DEF BreakerInv

LEMMA AllowKeepsInv ==
  ASSUME BreakerInv, AllowRequest
  PROVE  BreakerInv'
  BY Thresholds DEF BreakerInv, BreakerTypeOK, BreakerOnTime, AllowRequest

LEMMA SuccessKeepsInv ==
  ASSUME BreakerInv, RecordSuccess
  PROVE  BreakerInv'
  BY Thresholds DEF BreakerInv, BreakerTypeOK, BreakerOnTime, RecordSuccess

LEMMA FailureKeepsInv ==
  ASSUME BreakerInv, RecordFailure
  PROVE  BreakerInv'
<1>a. steady' = 0 /\ successes' = 0
  BY DEF RecordFailure
<1>1. CASE breaker' = "Open" /\ failures' = 0 /\ cooled' = FALSE
  <2>1. BreakerTypeOK'
    BY <1>1, <1>a DEF BreakerTypeOK
  <2>2. BreakerOnTime' /\ steady' <= SuccessThreshold
    BY <1>1, <1>a, Thresholds DEF BreakerOnTime
  <2>3. QED
    BY <1>1, <1>a, <2>1, <2>2 DEF BreakerInv
<1>2. CASE /\ ~(breaker = "HalfOpen" \/ (breaker = "Closed" /\ failures + 1 >= FailureThreshold))
           /\ failures' = failures + 1 /\ UNCHANGED <<breaker, cooled>>
  BY <1>2, <1>a, Thresholds DEF BreakerInv, BreakerTypeOK, BreakerOnTime
<1>3. QED
  BY <1>1, <1>2 DEF RecordFailure

LEMMA IdleKeepsInv ==
  ASSUME BreakerInv, UNCHANGED breakerVars
  PROVE  BreakerInv'
  BY Thresholds DEF BreakerInv, BreakerTypeOK, BreakerOnTime, breakerVars

LEMMA TimeoutKeepsInv ==
  ASSUME BreakerInv, TimeoutPasses
  PROVE  BreakerInv'
  BY Thresholds DEF BreakerInv, BreakerTypeOK, BreakerOnTime, TimeoutPasses

\* Whatever a thread does, it does one of four things to the breaker.
LEMMA BreakerSteps ==
  ASSUME [MaNext]_maVars
  PROVE  \/ AllowRequest \/ RecordSuccess \/ RecordFailure
         \/ TimeoutPasses \/ UNCHANGED breakerVars
<1>1. CASE TimeoutPasses
  BY <1>1
<1>2. ASSUME NEW t \in Threads, Call(t)
      PROVE  UNCHANGED breakerVars
  BY <1>2 DEF Call
<1>3. ASSUME NEW t \in Threads, MaStep(t)
      PROVE  AllowRequest \/ RecordSuccess \/ RecordFailure \/ UNCHANGED breakerVars
  <2>1. CASE Admit(t)
    BY <2>1 DEF Admit
  <2>2. CASE Handle(t)
    BY <2>2 DEF Handle
  <2>3. CASE ExtractText(t)
    BY <2>3 DEF ExtractText
  <2>4. CASE Refuse(t) \/ CallTool(t) \/ Responded(t)
    BY <2>4 DEF Refuse, CallTool, Responded
  <2>5. CASE RateLimited(t) \/ Unavailable(t) \/ ClientError(t) \/ Exhausted(t)
    BY <2>5 DEF RateLimited, Unavailable, ClientError, Exhausted
  <2>6. QED
    BY <1>3, <2>1, <2>2, <2>3, <2>4, <2>5 DEF MaStep
<1>4. CASE UNCHANGED maVars
  BY <1>4 DEF maVars, breakerVars
<1>5. QED
  BY <1>1, <1>2, <1>3, <1>4 DEF MaNext

LEMMA BreakerNext == BreakerInv /\ [MaNext]_maVars => BreakerInv'
  BY BreakerSteps, AllowKeepsInv, SuccessKeepsInv, FailureKeepsInv,
     IdleKeepsInv, TimeoutKeepsInv

\* execute_with_retry() of any number of threads: the closed breaker never
\* holds FailureThreshold failures, nor the half-open one as many successes as
\* close it, and the successes it holds follow the last failure.
THEOREM BreakerIsOnTime == MaSpec => []BreakerOnTime
<1>1. BreakerInv => BreakerOnTime
  BY DEF BreakerInv
<1>2. QED
  BY <1>1, BreakerInit, BreakerNext, PTL DEF MaSpec

\* The breaker closes only when SuccessThreshold successes follow each other
\* with no failure of any thread between them.
THEOREM BreakerClosesOnEvidence == MaSpec => ClosesOnEvidence
<1>1. ASSUME BreakerInv, [MaNext]_maVars
      PROVE  [breaker = "HalfOpen" /\ breaker' = "Closed" => steady' = SuccessThreshold]_maVars
  <2>1. CASE RecordSuccess
    BY <1>1, <2>1, Thresholds DEF RecordSuccess, BreakerInv, BreakerTypeOK, BreakerOnTime
  <2>2. CASE AllowRequest \/ TimeoutPasses \/ UNCHANGED breakerVars
    BY <2>2 DEF AllowRequest, TimeoutPasses, breakerVars
  <2>3. CASE RecordFailure
    BY <2>3 DEF RecordFailure
  <2>4. QED
    BY <1>1, <2>1, <2>2, <2>3, BreakerSteps
<1>2. QED
  BY <1>1, BreakerInit, BreakerNext, PTL DEF MaSpec, ClosesOnEvidence

-----------------------------------------------------------------------------
(* The transport.                                                           *)

PieceType == [part : STRING, of : Nat]

\* Pieces of the response that are in the buffer no more.
Handled == taken - Len(buffer)

\* The buffer is what was read last, from the first piece not handled on.
BufferInv ==
    /\ response \in Responses
    /\ taken \in Nat /\ taken <= Len(response.pieces)
    /\ buffer \in Seq(PieceType) /\ Len(buffer) <= taken
    /\ \A i \in 1..Len(buffer) : buffer[i] = response.pieces[Handled + i]
    /\ headerDone \in BOOLEAN
    /\ ~headerDone => Handled = 0
    /\ headerDone => HeadEnd <= Handled /\ (~streaming => Handled = HeadEnd)
    /\ hpc \in {"idle", "connect", "send"} => taken = 0 /\ buffer = << >> /\ ~headerDone

\* What was handled ends with a line, and its deltas are handed on.
SaidInv ==
    /\ chunks \in Seq(Nat)
    /\ ~headerDone => chunks = << >>
    /\ streaming /\ headerDone /\ Unsplit => EndsLine(response.pieces[Handled]) /\ SaidUpTo(Handled)

TransportInv == BufferInv /\ SaidInv /\ LossesExplained

-----------------------------------------------------------------------------
LEMMA Window ==
  ASSUME NEW S, NEW s \in Seq(S), NEW a \in Nat, NEW b \in Nat, a <= b, b <= Len(s)
  PROVE  /\ SubSeq(s, a + 1, b) \in Seq(S) /\ Len(SubSeq(s, a + 1, b)) = b - a
         /\ \A i \in 1..(b - a) : SubSeq(s, a + 1, b)[i] = s[a + i]
<1>1. Len(s) \in Nat /\ \A i \in 1..Len(s) : s[i] \in S
  BY LenProperties
<1>2. a + 1 \in Int /\ b \in Int /\ \A i \in (a + 1)..b : s[i] \in S
  BY <1>1
<1> DEFINE w == SubSeq(s, a + 1, b)
<1>3. /\ w \in Seq(S) /\ Len(w) = IF a + 1 <= b THEN b - (a + 1) + 1 ELSE 0
      /\ \A i \in 1..(b - (a + 1) + 1) : w[i] = s[(a + 1) + i - 1]
  BY <1>2, SubSeqProperties
<1> HIDE DEF w
<1>4. b - (a + 1) + 1 = b - a /\ \A i \in 1..(b - a) : (a + 1) + i - 1 = a + i
  OBVIOUS
<1>5. w \in Seq(S) /\ Len(w) = b - a /\ \A i \in 1..(b - a) : w[i] = s[a + i]
  BY <1>3, <1>4
<1>6. QED
  BY <1>5 DEF w

LEMMA Pieces ==
  ASSUME response \in Responses
  PROVE  /\ response.pieces \in Seq(PieceType) /\ Len(response.pieces) \in Nat
         /\ DOMAIN response.pieces = 1..Len(response.pieces)
<1>1. response.pieces \in Seq(PieceType)
  BY TransportAssumption DEF WellFormed, PieceType
<1>2. QED
  BY <1>1, LenProperties

LEMMA HeaderEnds ==
  ASSUME response \in Responses
  PROVE  /\ HeadEnd \in 1..Len(response.pieces)
         /\ response.pieces[HeadEnd].part = "head_end"
         /\ \A i \in 1..Len(response.pieces) :
               /\ response.pieces[i].part = "head_end" => i = HeadEnd
               /\ i < HeadEnd => response.pieces[i].part = "head"
               /\ i > HeadEnd => response.pieces[i].part \notin {"head", "head_end"}
<1> DEFINE p == response.pieces
<1>1. DOMAIN p = 1..Len(p) /\ Len(p) \in Nat
  BY Pieces
<1>2. PICK h \in DOMAIN p : /\ p[h].part = "head_end"
                            /\ \A i \in DOMAIN p : i < h => p[i].part = "head"
                            /\ \A i \in DOMAIN p : i > h => p[i].part \notin {"head", "head_end"}
  BY TransportAssumption DEF WellFormed
<1>3. \A i \in DOMAIN p : p[i].part = "head_end" => i = h
  BY <1>1, <1>2
<1>4. HeadEnd = h
  BY <1>2, <1>3 DEF HeadEnd
<1>5. QED
  BY <1>1, <1>2, <1>3, <1>4

LEMMA Smallest ==
  ASSUME NEW S, S \subseteq Nat, S # {}
  PROVE  \E x \in S : \A y \in S : x <= y
<1>1. PICK x \in S : ~(\E y \in S : <<y, x>> \in OpToRel(<, Nat))
  BY NatLessThanWellFounded, WFMin
<1>2. QED
  BY <1>1 DEF OpToRel

\* The first line of the buffer and what is after it.
LEMMA FirstLineIs ==
  ASSUME buffer \in Seq(PieceType), HasLine
  PROVE  \E m \in 1..Len(buffer) :
            /\ EndsLine(buffer[m]) /\ \A i \in 1..(m - 1) : ~EndsLine(buffer[i])
            /\ FirstLine \in Seq(PieceType) /\ Len(FirstLine) = m
            /\ \A i \in 1..m : FirstLine[i] = buffer[i]
            /\ AfterLine \in Seq(PieceType) /\ Len(AfterLine) = Len(buffer) - m
            /\ \A i \in 1..(Len(buffer) - m) : AfterLine[i] = buffer[m + i]
<1>1. Len(buffer) \in Nat /\ DOMAIN buffer = 1..Len(buffer)
  BY LenProperties
<1> DEFINE m == CHOOSE i \in LineEnds : \A j \in LineEnds : i <= j
<1>2. \E i \in LineEnds : \A j \in LineEnds : i <= j
  <2>1. LineEnds \subseteq Nat
    BY <1>1 DEF LineEnds
  <2>2. QED
    BY <2>1, Smallest DEF HasLine
<1>3. m \in LineEnds /\ \A j \in LineEnds : m <= j
  BY <1>2
<1>4. FirstLine = SubSeq(buffer, 1, m)
  BY DEF FirstLine
<1> HIDE DEF m
<1>5. m \in 1..Len(buffer) /\ EndsLine(buffer[m]) /\ \A i \in 1..(m - 1) : ~EndsLine(buffer[i])
  BY <1>1, <1>3 DEF LineEnds
<1>6. /\ FirstLine \in Seq(PieceType) /\ Len(FirstLine) = m
      /\ \A i \in 1..m : FirstLine[i] = buffer[i]
  <2>1. /\ SubSeq(buffer, 0 + 1, m) \in Seq(PieceType) /\ Len(SubSeq(buffer, 0 + 1, m)) = m - 0
        /\ \A i \in 1..(m - 0) : SubSeq(buffer, 0 + 1, m)[i] = buffer[0 + i]
    BY <1>1, <1>5, Window
  <2>2. 0 + 1 = 1 /\ m - 0 = m /\ \A i \in 1..m : 0 + i = i
    BY <1>5
  <2>3. QED
    BY <1>4, <2>1, <2>2
<1>7. /\ AfterLine \in Seq(PieceType) /\ Len(AfterLine) = Len(buffer) - m
      /\ \A i \in 1..(Len(buffer) - m) : AfterLine[i] = buffer[m + i]
  <2>1. AfterLine = SubSeq(buffer, m + 1, Len(buffer))
    BY <1>6 DEF AfterLine
  <2>2. m \in Nat /\ m <= Len(buffer) /\ Len(buffer) <= Len(buffer)
    BY <1>1, <1>5
  <2>3. QED
    BY <1>1, <2>1, <2>2, Window
<1>8. QED
  BY <1>5, <1>6, <1>7

\* A line that follows a whole line of an unsplit response is an event or holds
\* no part of any.
LEMMA LineIsEvent ==
  ASSUME response \in Responses, Unsplit,
         NEW n \in Nat, HeadEnd <= n, EndsLine(response.pieces[n]),
         NEW m \in Nat \ {0}, n + m <= Len(response.pieces), EndsLine(response.pieces[n + m]),
         \A i \in 1..(m - 1) : ~EndsLine(response.pieces[n + i])
  PROVE  \/ /\ m = 2 /\ response.pieces[n + 2].part = "right"
            /\ response.pieces[n + 1] = [part |-> "left", of |-> response.pieces[n + 2].of]
         \/ m = 1 /\ response.pieces[n + 1].part # "right"
<1> DEFINE p == response.pieces
<1>1. Len(p) \in Nat /\ DOMAIN p = 1..Len(p) /\ HeadEnd \in 1..Len(p)
  BY Pieces, HeaderEnds
<1>2. \A i \in 1..Len(p) : i > HeadEnd => p[i].part \notin {"head", "head_end"}
  BY HeaderEnds
<1>3. \A i \in 1..Len(p) : p[i].part = "left" => i + 1 \in 1..Len(p) /\ p[i + 1].part = "right"
  BY <1>1 DEF Unsplit, Deltas
<1>4. \A i \in 1..Len(p) : p[i].part = "right" =>
          \E j \in 1..Len(p) : /\ j < i /\ p[j] = [part |-> "left", of |-> p[i].of]
                               /\ \A k \in 1..Len(p) : j < k /\ k < i => p[k].part = "frame"
  <2>1. WellFormed(p)
    BY TransportAssumption
  <2>2. \A i \in DOMAIN p : p[i].part = "right" =>
          \E j \in DOMAIN p : /\ j < i /\ p[j] = [part |-> "left", of |-> p[i].of]
                             /\ \A k \in DOMAIN p : j < k /\ k < i => p[k].part = "frame"
    BY <2>1, Zenon DEF WellFormed
  <2>3. QED
    BY <1>1, <2>2
<1>5. ASSUME NEW i \in 1..Len(p), p[i].part = "right"
      PROVE  i > 1 /\ p[i - 1] = [part |-> "left", of |-> p[i].of]
  <2>1. PICK j \in 1..Len(p) : /\ j < i /\ p[j] = [part |-> "left", of |-> p[i].of]
                               /\ \A k \in 1..Len(p) : j < k /\ k < i => p[k].part = "frame"
    BY <1>4, <1>5
  <2>2. p[j + 1].part = "right" /\ j + 1 \in 1..Len(p)
    BY <1>3, <2>1
  <2>3. ~(j + 1 < i)
    BY <2>1, <2>2
  <2>4. i - 1 = j /\ i > 1
    BY <2>1, <2>3
  <2>5. QED
    BY <2>1, <2>4
<1> HIDE DEF p
<1>6. EndsLine(p[n]) /\ EndsLine(p[n + m]) /\ n + m <= Len(p) /\ \A i \in 1..(m - 1) : ~EndsLine(p[n + i])
  BY DEF p
<1>7. ASSUME NEW i \in 1..(m - 1) PROVE p[n + i].part = "left" /\ p[n + (i + 1)].part = "right"
  <2>1. n + i \in 1..Len(p) /\ n + i > HeadEnd /\ (n + i) + 1 = n + (i + 1)
    BY <1>1, <1>6
  <2>2. p[n + i].part = "left"
    BY <1>2, <1>6, <2>1 DEF EndsLine
  <2>3. QED
    BY <1>3, <2>1, <2>2
<1>8. CASE m = 1
  <2>1. n + 1 \in 1..Len(p) /\ (n + 1) - 1 = n
    BY <1>6, <1>8
  <2>2. p[n].part # "left"
    BY <1>6 DEF EndsLine
  <2>3. p[n + 1].part # "right"
    <3>1. SUFFICES ASSUME p[n + 1].part = "right" PROVE FALSE
      OBVIOUS
    <3>2. p[(n + 1) - 1] = [part |-> "left", of |-> p[n + 1].of]
      BY <1>5, <2>1, <3>1
    <3>3. p[n] = [part |-> "left", of |-> p[n + 1].of]
      BY <2>1, <3>2
    <3>4. QED
      BY <2>2, <3>3
  <2>4. QED
    BY <1>8, <2>3 DEF p
<1>9. CASE m # 1
  <2>1. m = 2
    <3>1. SUFFICES ASSUME m > 2 PROVE FALSE
      BY <1>9
    <3>2. 1 \in 1..(m - 1) /\ 1 + 1 \in 1..(m - 1)
      BY <3>1
    <3>3. p[n + (1 + 1)].part = "right" /\ p[n + (1 + 1)].part = "left"
      BY <1>7, <3>2
    <3>4. QED
      BY <3>3
  <2>2. 1 \in 1..(m - 1) /\ n + (1 + 1) = n + 2 /\ (n + 2) - 1 = n + 1 /\ n + 2 \in 1..Len(p)
    BY <1>6, <2>1
  <2>3. p[n + 2].part = "right"
    BY <1>7, <2>2
  <2>4. p[n + 1] = [part |-> "left", of |-> p[n + 2].of]
    BY <1>5, <2>2, <2>3
  <2>5. QED
    BY <2>1, <2>3, <2>4 DEF p
<1>10. QED
  BY <1>8, <1>9

LEMMA DeltasCount ==
  ASSUME response \in Responses, NEW n
  PROVE  IsFiniteSet(DeltasUpTo(n)) /\ Cardinality(DeltasUpTo(n)) \in Nat
<1>1. DeltasUpTo(n) \subseteq 1..Len(response.pieces) /\ Len(response.pieces) \in Nat
  BY Pieces DEF DeltasUpTo, Deltas
<1>2. IsFiniteSet(1..Len(response.pieces))
  BY <1>1, FS_Interval
<1>3. QED
  BY <1>1, <1>2, FS_Subset, FS_CardinalityType

\* A line without a delta changes nothing of what was said.
LEMMA NothingSaid ==
  ASSUME response \in Responses, NEW n \in Nat, SaidUpTo(n), n + 1 \notin Deltas
  PROVE  SaidUpTo(n + 1)
<1>1. DeltasUpTo(n + 1) = DeltasUpTo(n)
  BY Pieces DEF DeltasUpTo, Deltas
<1>2. QED
  BY <1>1 DEF SaidUpTo

\* An event's delta comes after those said.
LEMMA OneSaid ==
  ASSUME response \in Responses, response' = response, chunks \in Seq(Nat),
         NEW n \in Nat, SaidUpTo(n), n + 1 \notin Deltas, n + 2 \in Deltas,
         chunks' = Append(chunks, response.pieces[n + 2].of)
  PROVE  SaidUpTo(n + 2)' /\ chunks' \in Seq(Nat)
<1> DEFINE e == response.pieces[n + 2].of
           U == DeltasUpTo(n)
           V == DeltasUpTo(n + 2)
<1>1. e \in Nat
  <2>1. n + 2 \in 1..Len(response.pieces) /\ response.pieces \in Seq(PieceType)
    BY Pieces DEF Deltas
  <2>2. response.pieces[n + 2] \in PieceType
    BY <2>1, ElementOfSeq
  <2>3. QED
    BY <2>2 DEF PieceType
<1>2. V = U \cup {n + 2} /\ n + 2 \notin U
  BY Pieces DEF DeltasUpTo, Deltas
<1>3. IsFiniteSet(U) /\ Cardinality(U) \in Nat
  BY DeltasCount
<1>4. Cardinality(V) = Cardinality(U) + 1
  <2> HIDE DEF U, V
  <2>1. QED
    BY <1>2, <1>3, FS_AddElement
<1>5. Len(chunks) = Cardinality(U) /\ \A i \in U : chunks[Cardinality(DeltasUpTo(i))] = response.pieces[i].of
  BY DEF SaidUpTo
<1>6. /\ chunks' \in Seq(Nat) /\ Len(chunks') = Len(chunks) + 1
      /\ chunks'[Len(chunks) + 1] = e /\ \A j \in 1..Len(chunks) : chunks'[j] = chunks[j]
  BY <1>1
<1>7. ASSUME NEW i \in V PROVE chunks'[Cardinality(DeltasUpTo(i))] = response.pieces[i].of
  <2>1. CASE i = n + 2
    BY <1>4, <1>5, <1>6, <2>1
  <2>2. CASE i \in U
    <3>1. DeltasUpTo(i) \subseteq U /\ i \in DeltasUpTo(i)
      BY <2>2, Pieces DEF DeltasUpTo, Deltas
    <3>2. IsFiniteSet(DeltasUpTo(i)) /\ Cardinality(DeltasUpTo(i)) \in Nat
      BY DeltasCount
    <3>3. Cardinality(DeltasUpTo(i)) <= Cardinality(U)
      BY <1>3, <3>1, FS_Subset
    <3>4. Cardinality(DeltasUpTo(i)) # 0
      BY <3>1, <3>2, FS_EmptySet
    <3>5. Cardinality(DeltasUpTo(i)) \in 1..Len(chunks)
      BY <1>3, <1>5, <3>2, <3>3, <3>4
    <3>6. QED
      BY <1>5, <1>6, <2>2, <3>5
  <2>3. QED
    BY <1>2, <2>1, <2>2
<1>8. \A x : DeltasUpTo(x)' = DeltasUpTo(x)
  BY DEF DeltasUpTo, Deltas
<1>9. Len(chunks') = Cardinality(V)
  BY <1>4, <1>5, <1>6
<1>10. SaidUpTo(n + 2)'
  <2>1. \A i \in DeltasUpTo(n + 2)' : chunks'[Cardinality(DeltasUpTo(i)')] = response'.pieces[i].of
    BY <1>7, <1>8
  <2>2. QED
    BY <1>8, <1>9, <2>1 DEF SaidUpTo
<1>11. QED
  BY <1>6, <1>10

\* What is in the buffer when there is nothing more to read.
LEMMA AllRead ==
  ASSUME BufferInv, taken = Len(response.pieces), ~ToDo
  PROVE  headerDone /\ (~streaming => buffer = Body)
<1> DEFINE p == response.pieces
<1>1. /\ p \in Seq(PieceType) /\ Len(p) \in Nat /\ HeadEnd \in 1..Len(p) /\ p[HeadEnd].part = "head_end"
  BY Pieces, HeaderEnds DEF BufferInv
<1>2. /\ buffer \in Seq(PieceType) /\ Len(buffer) \in Nat /\ DOMAIN buffer = 1..Len(buffer)
      /\ \A i \in 1..Len(buffer) : buffer[i] = p[Handled + i]
      /\ Handled = Len(p) - Len(buffer)
  BY LenProperties DEF BufferInv, Handled
<1>3. headerDone
  <2>1. SUFFICES ASSUME ~headerDone PROVE FALSE
    BY DEF BufferInv
  <2>2. Handled = 0 /\ Len(buffer) = Len(p)
    BY <1>1, <1>2, <2>1 DEF BufferInv
  <2>3. buffer[HeadEnd] = p[0 + HeadEnd] /\ HeadEnd \in DOMAIN buffer
    BY <1>1, <1>2, <2>2
  <2>4. 0 + HeadEnd = HeadEnd
    BY <1>1
  <2>5. HasHeadEnd
    BY <1>1, <2>3, <2>4 DEF HasHeadEnd
  <2>6. QED
    BY <2>1, <2>5 DEF ToDo
<1>4. ASSUME ~streaming PROVE buffer = Body
  <2>1. Handled = HeadEnd /\ Len(buffer) = Len(p) - HeadEnd
    BY <1>1, <1>2, <1>3, <1>4 DEF BufferInv
  <2>2. /\ Body \in Seq(PieceType) /\ Len(Body) = Len(p) - HeadEnd
        /\ \A i \in 1..(Len(p) - HeadEnd) : Body[i] = p[HeadEnd + i]
    BY <1>1, Window DEF Body
  <2>3. \A i \in 1..Len(buffer) : buffer[i] = Body[i]
    BY <1>2, <2>1, <2>2
  <2>4. QED
    BY <1>2, <2>1, <2>2, <2>3, SeqEqual
<1>5. QED
  BY <1>3, <1>4

LEMMA ReadKeeps ==
  ASSUME TransportInv, Read
  PROVE  TransportInv'
<1> DEFINE p == response.pieces
<1>1. /\ hpc = "read" /\ hpc' = "read"
      /\ UNCHANGED <<streaming, response, headerDone, chunks, cut>>
  BY DEF Read
<1>2. PICK n \in 1..(Len(p) - taken) :
         buffer' = buffer \o SubSeq(p, taken + 1, taken + n) /\ taken' = taken + n
  BY DEF Read
<1>3. /\ p \in Seq(PieceType) /\ Len(p) \in Nat /\ taken \in Nat /\ taken <= Len(p)
      /\ buffer \in Seq(PieceType) /\ Len(buffer) \in Nat /\ Len(buffer) <= taken
      /\ \A i \in 1..Len(buffer) : buffer[i] = p[Handled + i]
  BY Pieces, LenProperties DEF TransportInv, BufferInv
<1>4. n \in Nat /\ taken + n \in Nat /\ taken <= taken + n /\ taken + n <= Len(p) /\ (taken + n) - taken = n
  BY <1>3
<1> DEFINE w == SubSeq(p, taken + 1, taken + n)
<1>5. w \in Seq(PieceType) /\ Len(w) = n /\ \A i \in 1..n : w[i] = p[taken + i]
  BY <1>3, <1>4, Window
<1>6. buffer' = buffer \o w
  BY <1>2
<1> HIDE DEF w
<1>7. /\ buffer' \in Seq(PieceType) /\ Len(buffer') = Len(buffer) + n
      /\ \A i \in 1..(Len(buffer) + n) :
            buffer'[i] = IF i <= Len(buffer) THEN buffer[i] ELSE w[i - Len(buffer)]
  <2>1. /\ buffer \o w \in Seq(PieceType) /\ Len(buffer \o w) = Len(buffer) + Len(w)
        /\ \A i \in 1..(Len(buffer) + Len(w)) :
              (buffer \o w)[i] = IF i <= Len(buffer) THEN buffer[i] ELSE w[i - Len(buffer)]
    BY <1>3, <1>5, ConcatProperties
  <2>2. QED
    BY <1>5, <1>6, <2>1
<1>8. Handled' = Handled /\ Handled \in Nat
  BY <1>2, <1>3, <1>4, <1>7 DEF Handled
<1>9. ASSUME NEW i \in 1..Len(buffer') PROVE buffer'[i] = p[Handled + i]
  <2>1. CASE i <= Len(buffer)
    BY <1>3, <1>4, <1>7, <2>1
  <2>2. CASE ~(i <= Len(buffer))
    <3>1. i - Len(buffer) \in 1..n /\ taken + (i - Len(buffer)) = Handled + i
      BY <1>3, <1>4, <1>7, <2>2 DEF Handled
    <3>2. buffer'[i] = w[i - Len(buffer)]
      BY <1>7, <2>2
    <3>3. QED
      BY <1>5, <3>1, <3>2
  <2>3. QED
    BY <2>1, <2>2
<1>10. HeadEnd' = HeadEnd
  BY <1>1 DEF HeadEnd
<1>11. BufferInv'
  <2>1. taken' \in Nat /\ taken' <= Len(p) /\ Len(buffer') <= taken'
    BY <1>2, <1>3, <1>4, <1>7
  <2>2. \A i \in 1..Len(buffer') : buffer'[i] = response'.pieces[Handled' + i]
    BY <1>1, <1>8, <1>9
  <2>3. QED
    BY <1>1, <1>7, <1>8, <1>10, <2>1, <2>2 DEF TransportInv, BufferInv
<1>12. SaidInv'
  BY <1>1, <1>8 DEF TransportInv, SaidInv, Unsplit, SaidUpTo, DeltasUpTo, Deltas
<1>13. QED
  BY <1>1, <1>11, <1>12 DEF TransportInv, LossesExplained

LEMMA InTheRest ==
  ASSUME NEW a \in Nat, NEW b \in Nat, b <= a, NEW i \in 1..a, ~(i <= a - b)
  PROVE  i - (a - b) \in 1..b /\ (a - b) + (i - (a - b)) = i
  OBVIOUS

\* No part of the response is left that was not handed on.
LEMMA AllSaid ==
  ASSUME BufferInv, SaidInv, taken = Len(response.pieces), ~ToDo, streaming, Unsplit
  PROVE  SaidUpTo(Len(response.pieces))
<1> DEFINE p == response.pieces
<1>1. /\ headerDone /\ SaidUpTo(Handled)
  BY AllRead DEF SaidInv
<1>2. /\ buffer \in Seq(PieceType) /\ Len(buffer) \in Nat /\ DOMAIN buffer = 1..Len(buffer)
      /\ Len(p) \in Nat /\ DOMAIN p = 1..Len(p)
      /\ \A i \in 1..Len(buffer) : buffer[i] = p[Handled + i]
      /\ Handled = Len(p) - Len(buffer) /\ Len(buffer) <= Len(p)
  BY Pieces, LenProperties DEF BufferInv, Handled
<1>3. ASSUME NEW i \in Deltas PROVE i <= Handled
  <2>1. SUFFICES ASSUME ~(i <= Handled) PROVE FALSE
    OBVIOUS
  <2>2. i \in 1..Len(p) /\ p[i].part = "right"
    BY <1>2 DEF Deltas
  <2> DEFINE h == Len(p) - Len(buffer)
  <2>a. h \in Nat /\ Handled = h
    BY <1>2
  <2>b. i - h \in 1..Len(buffer) /\ h + (i - h) = i
    BY <1>2, <2>1, <2>2, <2>a, InTheRest
  <2>3. i - Handled \in 1..Len(buffer) /\ Handled + (i - Handled) = i
    BY <2>a, <2>b
  <2>4. buffer[i - Handled] = p[i]
    BY <1>2, <2>3
  <2>5. HasLine
    BY <1>2, <2>2, <2>3, <2>4 DEF HasLine, LineEnds, EndsLine
  <2>6. QED
    BY <1>1, <2>5 DEF ToDo
<1>4. DeltasUpTo(Len(p)) = DeltasUpTo(Handled)
  BY <1>2, <1>3 DEF DeltasUpTo, Deltas
<1>5. QED
  BY <1>1, <1>4 DEF SaidUpTo

LEMMA SameTransport ==
  ASSUME TransportInv, UNCHANGED <<streaming, response, taken, buffer, headerDone, chunks>>,
         hpc' \notin {"idle", "connect", "send"}
  PROVE  BufferInv' /\ SaidInv'
<1>1. HeadEnd' = HeadEnd /\ Handled' = Handled
  BY DEF HeadEnd, Handled
<1>2. BufferInv'
  BY <1>1 DEF TransportInv, BufferInv
<1>3. SaidInv'
  BY <1>1 DEF TransportInv, SaidInv, Unsplit, SaidUpTo, DeltasUpTo, Deltas
<1>4. QED
  BY <1>2, <1>3

LEMMA ReadNothingKeeps ==
  ASSUME TransportInv, ReadNothing
  PROVE  TransportInv'
<1>1. /\ hpc' = "returned" /\ ~ToDo /\ cut' = (taken < Len(response.pieces))
      /\ UNCHANGED <<streaming, response, taken, buffer, headerDone, chunks>>
  BY DEF ReadNothing
<1>2. BufferInv' /\ SaidInv'
  BY <1>1, SameTransport
<1>3. LossesExplained'
  <2>1. SUFFICES ASSUME ~cut' PROVE (IF streaming THEN Unsplit => SaidUpTo(Len(response.pieces)) ELSE buffer = Body)'
    BY DEF LossesExplained
  <2>2. taken = Len(response.pieces)
    <3>1. ~(taken < Len(response.pieces))
      BY <1>1, <2>1, Zenon
    <3>2. taken \in Nat /\ taken <= Len(response.pieces) /\ Len(response.pieces) \in Nat
      BY Pieces DEF TransportInv, BufferInv
    <3>3. QED
      BY <3>1, <3>2
  <2>3. IF streaming THEN Unsplit => SaidUpTo(Len(response.pieces)) ELSE buffer = Body
    BY <1>1, <2>2, AllRead, AllSaid DEF TransportInv
  <2>4. QED
    BY <1>1, <2>3 DEF Unsplit, SaidUpTo, DeltasUpTo, Deltas, Body, HeadEnd
<1>4. QED
  BY <1>2, <1>3 DEF TransportInv

LEMMA CompleteKeeps ==
  ASSUME TransportInv, BodyComplete
  PROVE  TransportInv'
<1> DEFINE p == response.pieces
<1>1. /\ hpc' = "returned" /\ ~streaming /\ headerDone /\ Len(buffer) >= Len(Body)
      /\ UNCHANGED <<streaming, response, taken, buffer, headerDone, chunks, cut>>
  BY DEF BodyComplete, exchangeVars
<1>2. BufferInv' /\ SaidInv'
  BY <1>1, SameTransport
<1>3. /\ p \in Seq(PieceType) /\ Len(p) \in Nat /\ HeadEnd \in 1..Len(p)
      /\ buffer \in Seq(PieceType) /\ Len(buffer) \in Nat /\ Handled = HeadEnd
      /\ taken \in Nat /\ taken <= Len(p) /\ \A i \in 1..Len(buffer) : buffer[i] = p[Handled + i]
  BY <1>1, Pieces, HeaderEnds, LenProperties DEF TransportInv, BufferInv
<1>4. /\ Body \in Seq(PieceType) /\ Len(Body) = Len(p) - HeadEnd
      /\ \A i \in 1..(Len(p) - HeadEnd) : Body[i] = p[HeadEnd + i]
  BY <1>3, Window DEF Body
<1>5. Len(buffer) = Len(Body)
  BY <1>1, <1>3, <1>4 DEF Handled
<1>6. \A i \in 1..Len(buffer) : buffer[i] = Body[i]
  BY <1>3, <1>4, <1>5
<1>7. buffer = Body
  BY <1>3, <1>4, <1>5, <1>6, SeqEqual
<1>8. LossesExplained'
  BY <1>1, <1>7 DEF LossesExplained, Body, HeadEnd
<1>9. QED
  BY <1>2, <1>8 DEF TransportInv

LEMMA DropKeeps ==
  ASSUME TransportInv, DropHeader
  PROVE  TransportInv'
<1> DEFINE p == response.pieces
<1>1. /\ hpc = "read" /\ hpc' = "read" /\ ~headerDone /\ HasHeadEnd /\ headerDone' = TRUE
      /\ buffer' = SubSeq(buffer, HeadEnd + 1, Len(buffer))
      /\ UNCHANGED <<streaming, response, taken, chunks, cut>>
  BY DEF DropHeader
<1>2. /\ p \in Seq(PieceType) /\ Len(p) \in Nat /\ HeadEnd \in 1..Len(p)
      /\ p[HeadEnd].part = "head_end" /\ \A i \in 1..Len(p) : p[i].part = "head_end" => i = HeadEnd
      /\ \A i \in 1..Len(p) : i < HeadEnd => p[i].part = "head"
      /\ buffer \in Seq(PieceType) /\ Len(buffer) \in Nat /\ DOMAIN buffer = 1..Len(buffer)
      /\ taken \in Nat /\ taken <= Len(p) /\ Handled = 0 /\ taken = Len(buffer)
      /\ \A i \in 1..Len(buffer) : buffer[i] = p[i]
      /\ chunks = << >>
  <2>1. /\ BufferInv /\ SaidInv /\ response \in Responses
    BY DEF TransportInv, BufferInv
  <2>2. /\ buffer \in Seq(PieceType) /\ Len(buffer) \in Nat /\ DOMAIN buffer = 1..Len(buffer)
        /\ taken \in Nat /\ taken <= Len(p) /\ Handled = 0
        /\ \A i \in 1..Len(buffer) : buffer[i] = p[Handled + i]
    BY <1>1, <2>1, LenProperties DEF BufferInv
  <2>3. taken = Len(buffer) /\ \A i \in 1..Len(buffer) : 0 + i = i
    <3>1. taken - Len(buffer) = 0
      BY <2>2, Zenon DEF Handled
    <3>2. QED
      BY <2>2, <3>1
  <2>4. \A i \in 1..Len(buffer) : buffer[i] = p[i]
    BY <2>2, <2>3
  <2>5. QED
    BY <1>1, <2>1, <2>2, <2>3, <2>4, Pieces, HeaderEnds DEF SaidInv
<1>3. HeadEnd <= Len(buffer)
  <2>1. PICK i \in 1..Len(buffer) : buffer[i].part = "head_end"
    BY <1>1, <1>2 DEF HasHeadEnd
  <2>2. i \in 1..Len(p) /\ p[i].part = "head_end"
    BY <1>2, <2>1
  <2>3. i = HeadEnd
    BY <1>2, <2>2
  <2>4. QED
    BY <1>2, <2>1, <2>3
<1>4. /\ buffer' \in Seq(PieceType) /\ Len(buffer') = Len(buffer) - HeadEnd
      /\ \A i \in 1..(Len(buffer) - HeadEnd) : buffer'[i] = buffer[HeadEnd + i]
  BY <1>1, <1>2, <1>3, Window
<1>5. Handled' = HeadEnd /\ HeadEnd' = HeadEnd
  <2>1. HeadEnd' = HeadEnd
    BY <1>1 DEF HeadEnd
  <2>2. taken' - Len(buffer') = HeadEnd
    BY <1>1, <1>2, <1>3, <1>4
  <2>3. QED
    BY <2>1, <2>2, Zenon DEF Handled
<1>6. \A i \in 1..Len(buffer') : buffer'[i] = p[HeadEnd + i]
  <2> SUFFICES ASSUME NEW i \in 1..(Len(buffer) - HeadEnd) PROVE buffer'[i] = p[HeadEnd + i]
    BY <1>4
  <2>1. HeadEnd \in Nat /\ Len(buffer) \in Nat /\ HeadEnd + i \in 1..Len(buffer)
    BY <1>2, <1>3
  <2>2. QED
    BY <1>2, <1>4, <2>1
<1>7. BufferInv'
  BY <1>1, <1>2, <1>3, <1>4, <1>5, <1>6 DEF TransportInv, BufferInv
<1>8. SaidInv'
  <2>1. EndsLine(p[HeadEnd])
    BY <1>2 DEF EndsLine
  <2>2. DeltasUpTo(HeadEnd) = {}
    BY <1>2, Pieces DEF DeltasUpTo, Deltas, TransportInv, BufferInv
  <2>3. SaidUpTo(HeadEnd)
    BY <1>2, <2>2, FS_EmptySet DEF SaidUpTo
  <2>4. SaidUpTo(HeadEnd)' /\ EndsLine(p[HeadEnd])'
    BY <1>1, <1>5, <2>1, <2>3 DEF SaidUpTo, DeltasUpTo, Deltas, EndsLine
  <2>5. QED
    BY <1>1, <1>2, <1>5, <2>4 DEF SaidInv
<1>9. QED
  BY <1>1, <1>7, <1>8 DEF TransportInv, LossesExplained

LEMMA LineKeeps ==
  ASSUME TransportInv, HandleLine
  PROVE  TransportInv'
<1> DEFINE p == response.pieces
<1>1. /\ hpc = "read" /\ streaming /\ headerDone /\ HasLine /\ buffer' = AfterLine
      /\ hpc' = IF FirstLine = <<Piece("done")>> THEN "returned" ELSE "read"
      /\ chunks' = IF \E i \in {x.of : x \in ToSet(FirstLine)} : FirstLine = Event(i)
                   THEN Append(chunks, FirstLine[1].of) ELSE chunks
      /\ UNCHANGED <<streaming, response, taken, headerDone, cut>>
  BY DEF HandleLine
<1>2. /\ p \in Seq(PieceType) /\ Len(p) \in Nat /\ DOMAIN p = 1..Len(p) /\ HeadEnd \in 1..Len(p)
      /\ buffer \in Seq(PieceType) /\ Len(buffer) \in Nat
      /\ taken \in Nat /\ taken <= Len(p) /\ Len(buffer) <= taken
      /\ \A i \in 1..Len(buffer) : buffer[i] = p[Handled + i]
      /\ HeadEnd <= Handled /\ response \in Responses /\ chunks \in Seq(Nat)
  BY <1>1, Pieces, HeaderEnds, LenProperties DEF TransportInv, BufferInv, SaidInv
<1>3. Handled \in Nat /\ taken = Handled + Len(buffer)
  BY <1>2 DEF Handled
<1>4. PICK m \in 1..Len(buffer) :
            /\ EndsLine(buffer[m]) /\ \A i \in 1..(m - 1) : ~EndsLine(buffer[i])
            /\ FirstLine \in Seq(PieceType) /\ Len(FirstLine) = m
            /\ \A i \in 1..m : FirstLine[i] = buffer[i]
            /\ AfterLine \in Seq(PieceType) /\ Len(AfterLine) = Len(buffer) - m
            /\ \A i \in 1..(Len(buffer) - m) : AfterLine[i] = buffer[m + i]
  BY <1>1, <1>2, FirstLineIs
<1>a. PICK n \in Nat : n = Handled
  BY <1>3
<1>b. m \in Nat \ {0} /\ Len(buffer) \in Nat /\ m <= Len(buffer) /\ taken = n + Len(buffer)
  BY <1>2, <1>3, <1>4, <1>a
<1>5. Handled' = n + m
  <2>1. taken' - Len(buffer') = n + m
    BY <1>1, <1>2, <1>3, <1>4, <1>a
  <2>2. QED
    BY <2>1, Zenon DEF Handled
<1>6. HeadEnd' = HeadEnd
  BY <1>1 DEF HeadEnd
<1>7. \A i \in 1..m : FirstLine[i] = p[n + i]
  <2> SUFFICES ASSUME NEW i \in 1..m PROVE FirstLine[i] = p[n + i]
    OBVIOUS
  <2>1. i \in 1..Len(buffer)
    BY <1>b
  <2>2. QED
    BY <1>2, <1>4, <1>a, <2>1
<1>8. \A i \in 1..Len(buffer') : buffer'[i] = p[(n + m) + i]
  <2> SUFFICES ASSUME NEW i \in 1..(Len(buffer) - m) PROVE AfterLine[i] = p[(n + m) + i]
    BY <1>1, <1>4
  <2>1. m + i \in 1..Len(buffer) /\ n + (m + i) = (n + m) + i
    BY <1>a, <1>b
  <2>2. AfterLine[i] = buffer[m + i]
    BY <1>4
  <2>3. QED
    BY <1>2, <1>a, <2>1, <2>2
<1>9. BufferInv'
  <2>1. buffer' \in Seq(PieceType) /\ Len(buffer') = Len(buffer) - m /\ Len(buffer') <= taken'
    BY <1>1, <1>2, <1>4
  <2>2. HeadEnd' <= Handled' /\ headerDone' /\ headerDone' \in BOOLEAN
    BY <1>1, <1>2, <1>4, <1>5, <1>6, <1>a DEF TransportInv, BufferInv
  <2>3. hpc' \notin {"idle", "connect", "send"}
    BY <1>1
  <2>4. response' \in Responses /\ taken' \in Nat /\ taken' <= Len(response'.pieces) /\ streaming'
    BY <1>1, <1>2
  <2>5. \A i \in 1..Len(buffer') : buffer'[i] = response'.pieces[Handled' + i]
    BY <1>1, <1>5, <1>8
  <2>6. QED
    BY <2>1, <2>2, <2>3, <2>4, <2>5 DEF BufferInv
<1>10. chunks' \in Seq(Nat)
  <2>1. FirstLine[1] \in PieceType
    BY <1>4, ElementOfSeq
  <2>2. FirstLine[1].of \in Nat
    BY <2>1 DEF PieceType
  <2>3. QED
    BY <1>1, <1>2, <2>2
<1>11. n + m <= Len(p) /\ m \in Nat \ {0}
  BY <1>2, <1>3, <1>4, <1>a
<1>12. EndsLine(p[n + m]) /\ \A i \in 1..(m - 1) : ~EndsLine(p[n + i])
  <2>1. buffer[m] = p[n + m] /\ \A i \in 1..(m - 1) : buffer[i] = p[n + i]
    BY <1>2, <1>4, <1>a
  <2>2. QED
    BY <1>4, <2>1
<1>13. ASSUME Unsplit PROVE SaidUpTo(n + m)'
  <2>1. EndsLine(p[n]) /\ SaidUpTo(n)
    BY <1>1, <1>13, <1>a DEF TransportInv, SaidInv
  <2>2. \/ m = 2 /\ p[n + 2].part = "right" /\ p[n + 1] = [part |-> "left", of |-> p[n + 2].of]
        \/ m = 1 /\ p[n + 1].part # "right"
    BY <1>2, <1>11, <1>12, <1>13, <1>a, <2>1, LineIsEvent
  <2>3. CASE m = 2 /\ p[n + 2].part = "right" /\ p[n + 1] = [part |-> "left", of |-> p[n + 2].of]
    <3>1. n + 2 \in Deltas /\ n + 1 \notin Deltas
      BY <1>2, <1>11, <1>a, <2>3 DEF Deltas
    <3>2. p[n + 2] \in PieceType
      BY <1>2, <1>11, <1>a, <2>3, ElementOfSeq
    <3>3. p[n + 2] = [part |-> "right", of |-> p[n + 2].of]
      BY <2>3, <3>2 DEF PieceType
    <3>4. FirstLine[1] = p[n + 1] /\ FirstLine[2] = p[n + 2] /\ Len(FirstLine) = 2
      BY <1>4, <1>7, <2>3
    <3> DEFINE e == p[n + 2].of
    <3>5. FirstLine = <<[part |-> "left", of |-> e], [part |-> "right", of |-> e]>>
      BY <1>4, <2>3, <3>3, <3>4
    <3>6. FirstLine = Event(e)
      BY <3>5 DEF Event
    <3>7. e \in {x.of : x \in ToSet(FirstLine)}
      <4>1. 1 \in DOMAIN FirstLine
        BY <1>4, <3>4, LenProperties
      <4>2. FirstLine[1] \in ToSet(FirstLine) /\ FirstLine[1].of = e
        BY <2>3, <3>4, <4>1 DEF ToSet
      <4>3. QED
        BY <4>2
    <3>8. chunks' = Append(chunks, FirstLine[1].of)
      BY <1>1, <3>6, <3>7
    <3>9. chunks' = Append(chunks, p[n + 2].of)
      BY <2>3, <3>4, <3>8
    <3>10. SaidUpTo(n + 2)'
      BY <1>1, <1>2, <1>a, <2>1, <3>1, <3>9, OneSaid
    <3>11. QED
      BY <2>3, <3>10
  <2>4. CASE m = 1 /\ p[n + 1].part # "right"
    <3>1. \A i : FirstLine # Event(i)
      <4>1. \A i : Len(Event(i)) = 2
        BY DEF Event
      <4>2. ASSUME NEW i, FirstLine = Event(i) PROVE FALSE
        <5>1. Len(FirstLine) = 2
          BY <4>1, <4>2, Zenon
        <5>2. Len(FirstLine) = m /\ m = 1
          BY <1>4, <2>4, Zenon
        <5>3. QED
          BY <5>1, <5>2
      <4>3. QED
        BY <4>2
    <3>2. chunks' = chunks
      BY <1>1, <3>1
    <3>3. SaidUpTo(n + 1)
      BY <1>2, <1>a, <2>1, <2>4, NothingSaid DEF Deltas
    <3>4. SaidUpTo(n + 1)'
      BY <1>1, <3>2, <3>3 DEF SaidUpTo, DeltasUpTo, Deltas
    <3>5. QED
      BY <2>4, <3>4
  <2>5. QED
    BY <2>2, <2>3, <2>4
<1>14. Unsplit' <=> Unsplit
  BY <1>1 DEF Unsplit, Deltas
<1>15. SaidInv'
  <2>1. EndsLine(p[n + m])'
    BY <1>1, <1>12 DEF EndsLine
  <2>2. QED
    BY <1>1, <1>5, <1>10, <1>13, <1>14, <2>1 DEF SaidInv
<1>16. LossesExplained'
  <2> SUFFICES ASSUME hpc' = "returned", Unsplit PROVE SaidUpTo(Len(p))'
    BY <1>1, <1>14 DEF LossesExplained
  <2>1. FirstLine = <<Piece("done")>>
    BY <1>1
  <2>2. m = 1 /\ FirstLine[1] = Piece("done")
    BY <1>4, <2>1
  <2>3. p[n + 1] = Piece("done") /\ n + 1 \in DOMAIN p
    BY <1>2, <1>7, <1>11, <1>a, <2>2
  <2>4. \A j \in DOMAIN p : p[j].part = "right" => j < n + 1
    <3>1. WellFormed(p)
      BY <1>2, TransportAssumption
    <3>2. \A i, j \in DOMAIN p : p[i] = Piece("done") /\ p[j].part = "right" => j < i
      BY <3>1, Zenon DEF WellFormed
    <3>3. QED
      BY <2>3, <3>2
  <2>5. DeltasUpTo(Len(p)) = DeltasUpTo(n + 1)
    BY <1>2, <1>a, <2>4 DEF DeltasUpTo, Deltas
  <2>6. SaidUpTo(n + 1)'
    BY <1>13, <2>2
  <2>7. DeltasUpTo(Len(p))' = DeltasUpTo(n + 1)'
    BY <1>1, <2>5 DEF DeltasUpTo, Deltas
  <2>8. QED
    BY <2>6, <2>7 DEF SaidUpTo
<1>17. QED
  BY <1>9, <1>15, <1>16 DEF TransportInv

LEMMA TransportInit == HtInit => TransportInv
<1> SUFFICES ASSUME HtInit PROVE TransportInv
  OBVIOUS
<1>1. /\ hpc = "idle" /\ response \in Responses /\ taken = 0 /\ buffer = << >>
      /\ headerDone = FALSE /\ chunks = << >>
  BY DEF HtInit
<1>2. buffer \in Seq(PieceType) /\ Len(buffer) = 0 /\ chunks \in Seq(Nat)
  BY <1>1, EmptySeq
<1>3. Handled = 0
  <2>1. taken - Len(buffer) = 0
    <3>1. taken = 0 /\ Len(buffer) = 0
      BY <1>1, <1>2, Zenon
    <3>2. QED
      BY <3>1
  <2>2. QED
    BY <2>1, Zenon DEF Handled
<1>4. BufferInv
  <2>1. Len(response.pieces) \in Nat
    BY <1>1, Pieces
  <2>2. taken <= Len(response.pieces) /\ Len(buffer) <= taken /\ 1..Len(buffer) = {}
    BY <1>1, <1>2, <2>1
  <2>3. QED
    BY <1>1, <1>2, <1>3, <2>2 DEF BufferInv
<1>5. SaidInv /\ LossesExplained
  BY <1>1, <1>2 DEF SaidInv, LossesExplained
<1>6. QED
  BY <1>4, <1>5 DEF TransportInv

\* Before the first read nothing has arrived.
LEMMA BeforeRead ==
  ASSUME TransportInv, hpc \in {"idle", "connect", "send"}, response' \in Responses,
         UNCHANGED <<taken, buffer, headerDone, chunks>>, hpc' # "returned"
  PROVE  TransportInv'
<1>1. taken' = 0 /\ buffer' = << >> /\ headerDone' = FALSE /\ chunks' = << >>
  BY DEF TransportInv, BufferInv, SaidInv
<1>2. buffer' \in Seq(PieceType) /\ Len(buffer') = 0 /\ chunks' \in Seq(Nat)
  BY <1>1, EmptySeq
<1>3. Handled' = 0
  <2>1. taken' - Len(buffer') = 0
    <3>1. taken' = 0 /\ Len(buffer') = 0
      BY <1>1, <1>2, Zenon
    <3>2. QED
      BY <3>1
  <2>2. QED
    BY <2>1, Zenon DEF Handled
<1>4. Len(response'.pieces) \in Nat
  <2>1. response'.pieces \in Seq(PieceType)
    BY TransportAssumption DEF WellFormed, PieceType
  <2>2. QED
    BY <2>1, LenProperties
<1>5. BufferInv'
  <2>1. taken' <= Len(response'.pieces) /\ Len(buffer') <= taken' /\ 1..Len(buffer') = {}
    BY <1>1, <1>2, <1>4
  <2>2. taken' \in Nat /\ headerDone' \in BOOLEAN
    <3>1. taken' = 0 /\ 0 \in Nat
      BY <1>1, Zenon
    <3>2. headerDone' \in BOOLEAN
      BY <1>1, Zenon
    <3>3. QED
      BY <3>1, <3>2, Zenon
  <2>3. \A i \in 1..Len(buffer') : buffer'[i] = response'.pieces[Handled' + i]
    BY <2>1
  <2>4. QED
    BY <1>1, <1>2, <1>3, <2>1, <2>2, <2>3, Zenon DEF BufferInv
<1>6. SaidInv' /\ LossesExplained'
  BY <1>1, <1>2 DEF SaidInv, LossesExplained
<1>7. QED
  BY <1>5, <1>6 DEF TransportInv

LEMMA TransportNext == TransportInv /\ [HtNext]_htVars => TransportInv'
<1> SUFFICES ASSUME TransportInv, [HtNext]_htVars PROVE TransportInv'
  OBVIOUS
<1>1. CASE BeginPost
  BY <1>1, BeforeRead DEF BeginPost
<1>2. CASE Connect
  BY <1>2, BeforeRead DEF Connect, exchangeVars, TransportInv, BufferInv
<1>3. CASE SendRequest
  BY <1>3, BeforeRead DEF SendRequest, exchangeVars, TransportInv, BufferInv
<1>4. CASE Read
  BY <1>4, ReadKeeps
<1>5. CASE ReadNothing
  BY <1>5, ReadNothingKeeps
<1>6. CASE DropHeader
  BY <1>6, DropKeeps
<1>7. CASE BodyComplete
  BY <1>7, CompleteKeeps
<1>8. CASE HandleLine
  BY <1>8, LineKeeps
<1>9. CASE UNCHANGED htVars
  <2>1. UNCHANGED <<hpc, streaming, response, taken, buffer, headerDone, chunks, cut>>
    BY <1>9 DEF htVars, exchangeVars
  <2>2. HeadEnd' = HeadEnd /\ Handled' = Handled /\ Body' = Body
    BY <2>1 DEF HeadEnd, Handled, Body
  <2>3. BufferInv'
    BY <2>1, <2>2 DEF TransportInv, BufferInv
  <2>4. SaidInv'
    BY <2>1, <2>2 DEF TransportInv, SaidInv, Unsplit, SaidUpTo, DeltasUpTo, Deltas
  <2>5. LossesExplained'
    BY <2>1, <2>2 DEF TransportInv, LossesExplained, Unsplit, SaidUpTo, DeltasUpTo, Deltas
  <2>6. QED
    BY <2>3, <2>4, <2>5 DEF TransportInv
<1>10. QED
  BY <1>1, <1>2, <1>3, <1>4, <1>5, <1>6, <1>7, <1>8, <1>9 DEF HtNext

\* Every response a server may well send, in whatever pieces it is read, is
\* handed on whole and in order by a request that returns, but for an early end
\* and a chunk boundary inside an event.
THEOREM LossesHaveReasons == HtSpec => []LossesExplained
<1>1. TransportInv => LossesExplained
  BY DEF TransportInv
<1>2. QED
  BY <1>1, TransportInit, TransportNext, PTL DEF HtSpec

-----------------------------------------------------------------------------
(* The cache: its list.                                                     *)

\* l holds every element of D, once.
Lists(l, D) == l \in Seq(D) /\ IsInjective(l) /\ ToSet(l) = D

LruInv == raced \/ (Lists(lru, DOMAIN cache) /\ Len(lru) <= CacheSize)

LEMMA NothingListed == Lists(<< >>, DOMAIN << >>) /\ Len(<< >>) <= CacheSize
<1>1. << >> \in Seq({}) /\ Len(<< >>) = 0 /\ DOMAIN << >> = {}
  BY EmptySeq
<1>2. QED
  BY <1>1, ToolsAssumption DEF Lists, IsInjective, ToSet

LEMMA ListCounts ==
  ASSUME NEW D, NEW l, Lists(l, D)
  PROVE  IsFiniteSet(D) /\ Cardinality(D) = Len(l) /\ Len(l) \in Nat
<1>1. Len(l) \in Nat /\ l \in [1..Len(l) -> D] /\ DOMAIN l = 1..Len(l)
  BY LenProperties DEF Lists
<1>2. l \in Bijection(1..Len(l), D)
  BY <1>1 DEF Lists, IsInjective, ToSet, Bijection, Injection, Surjection
<1>3. ExistsBijection(1..Len(l), D)
  BY <1>2 DEF ExistsBijection
<1>4. IsFiniteSet(1..Len(l)) /\ Cardinality(1..Len(l)) = Len(l)
  <2>1. 1 \in Int /\ Len(l) \in Int
    BY <1>1
  <2>2. IsFiniteSet(1..Len(l)) /\ Cardinality(1..Len(l)) = IF 1 > Len(l) THEN 0 ELSE Len(l)-1+1
    BY <2>1, FS_Interval
  <2>3. QED
    BY <1>1, <2>2
<1>5. QED
  BY <1>1, <1>3, <1>4, FS_Bijection

LEMMA ListPush ==
  ASSUME NEW D, NEW l, Lists(l, D), NEW k, k \notin D
  PROVE  Lists(<<k>> \o l, D \cup {k}) /\ Len(<<k>> \o l) = Len(l) + 1
<1> DEFINE E == D \cup {k}
           s == <<k>> \o l
<1>1. l \in Seq(E) /\ <<k>> \in Seq(E) /\ Len(<<k>>) = 1
  BY SeqMonotonic DEF Lists
<1>2. Len(l) \in Nat /\ DOMAIN l = 1..Len(l) /\ \A i \in 1..Len(l) : l[i] \in D
  BY LenProperties DEF Lists
<1>3. /\ s \in Seq(E) /\ Len(s) = 1 + Len(l)
      /\ \A i \in 1..(1 + Len(l)) : s[i] = IF i <= 1 THEN <<k>>[i] ELSE l[i - 1]
  BY <1>1, ConcatProperties
<1>4. DOMAIN s = 1..(1 + Len(l))
  BY <1>3
<1>5. s[1] = k /\ \A i \in 2..(1 + Len(l)) : s[i] = l[i - 1]
  BY <1>2, <1>3
<1> HIDE DEF s
<1>6. IsInjective(s)
  <2> SUFFICES ASSUME NEW i \in 1..(1 + Len(l)), NEW j \in 1..(1 + Len(l)), s[i] = s[j]
               PROVE  i = j
    BY <1>4 DEF IsInjective
  <2>1. CASE i = 1 /\ j = 1
    BY <2>1
  <2>2. CASE i = 1 /\ j # 1
    <3>1. j \in 2..(1 + Len(l)) /\ j - 1 \in 1..Len(l)
      BY <1>2, <2>2
    <3>2. QED
      BY <1>2, <1>5, <2>2, <3>1
  <2>3. CASE i # 1 /\ j = 1
    <3>1. i \in 2..(1 + Len(l)) /\ i - 1 \in 1..Len(l)
      BY <1>2, <2>3
    <3>2. QED
      BY <1>2, <1>5, <2>3, <3>1
  <2>4. CASE i # 1 /\ j # 1
    <3>1. i \in 2..(1 + Len(l)) /\ j \in 2..(1 + Len(l)) /\ i - 1 \in 1..Len(l) /\ j - 1 \in 1..Len(l)
      BY <1>2, <2>4
    <3>2. l[i - 1] = l[j - 1]
      BY <1>5, <3>1
    <3>3. i - 1 = j - 1
      BY <1>2, <3>1, <3>2 DEF Lists, IsInjective
    <3>4. QED
      BY <3>1, <3>3
  <2>5. QED
    BY <2>1, <2>2, <2>3, <2>4
<1>7. ToSet(s) = E
  <2>1. ASSUME NEW x \in D PROVE \E i \in DOMAIN s : s[i] = x
    <3>1. PICK j \in 1..Len(l) : l[j] = x
      BY <1>2 DEF Lists, ToSet
    <3>2. j + 1 \in 2..(1 + Len(l)) /\ (j + 1) - 1 = j /\ j + 1 \in DOMAIN s
      BY <1>2, <1>4, <3>1
    <3>3. QED
      BY <1>5, <3>1, <3>2
  <2>2. 1 \in DOMAIN s
    BY <1>2, <1>4
  <2>3. ASSUME NEW i \in DOMAIN s PROVE s[i] \in E
    BY <1>3, <1>4, ElementOfSeq
  <2>4. QED
    BY <1>5, <2>1, <2>2, <2>3 DEF ToSet
<1>8. QED
  BY <1>2, <1>3, <1>6, <1>7 DEF Lists, s

LEMMA ListErase ==
  ASSUME NEW D, NEW l, Lists(l, D), NEW p \in DOMAIN l
  PROVE  Lists(RemoveAt(l, p), D \ {l[p]}) /\ Len(RemoveAt(l, p)) = Len(l) - 1
<1> DEFINE E == D \ {l[p]}
           s == RemoveAt(l, p)
           x == SubSeq(l, 1, p - 1)
           y == SubSeq(l, p + 1, Len(l))
<1>1. Len(l) \in Nat /\ DOMAIN l = 1..Len(l) /\ \A i \in 1..Len(l) : l[i] \in D
  BY LenProperties DEF Lists
<1>2. p \in 1..Len(l) /\ p - 1 \in Int /\ p + 1 \in Int /\ Len(l) \in Int
  BY <1>1
<1>3. \A i \in 1..Len(l) : i # p => l[i] \in E
  BY <1>1, <1>2 DEF Lists, IsInjective
<1>4. x \in Seq(E) /\ Len(x) = p - 1 /\ \A i \in 1..(p - 1) : x[i] = l[i]
  <2>1. \A i \in 1..(p - 1) : l[i] \in E
    BY <1>2, <1>3
  <2>2. /\ x \in Seq(E) /\ Len(x) = IF 1 <= p - 1 THEN (p - 1) - 1 + 1 ELSE 0
        /\ \A i \in 1..((p - 1) - 1 + 1) : x[i] = l[1 + i - 1]
    BY <1>2, <2>1, SubSeqProperties
  <2> HIDE DEF x
  <2>3. (p - 1) - 1 + 1 = p - 1 /\ \A i \in 1..(p - 1) : 1 + i - 1 = i
    BY <1>2
  <2>4. QED
    BY <1>2, <2>2, <2>3
<1>5. y \in Seq(E) /\ Len(y) = Len(l) - p /\ \A i \in 1..(Len(l) - p) : y[i] = l[p + i]
  <2>1. \A i \in (p + 1)..Len(l) : l[i] \in E
    BY <1>2, <1>3
  <2>2. /\ y \in Seq(E) /\ Len(y) = IF p + 1 <= Len(l) THEN Len(l) - (p + 1) + 1 ELSE 0
        /\ \A i \in 1..(Len(l) - (p + 1) + 1) : y[i] = l[(p + 1) + i - 1]
    BY <1>2, <2>1, SubSeqProperties
  <2> HIDE DEF y
  <2>3. Len(l) - (p + 1) + 1 = Len(l) - p /\ \A i \in 1..(Len(l) - p) : (p + 1) + i - 1 = p + i
    BY <1>2
  <2>4. QED
    BY <1>2, <2>2, <2>3
<1>6. s = x \o y
  BY DEF RemoveAt
<1> HIDE DEF x, y, s
<1>7. /\ s \in Seq(E) /\ Len(s) = Len(l) - 1
      /\ \A i \in 1..(Len(l) - 1) : s[i] = IF i <= p - 1 THEN l[i] ELSE l[i + 1]
  <2>1. /\ s \in Seq(E) /\ Len(s) = (p - 1) + (Len(l) - p)
        /\ \A i \in 1..((p - 1) + (Len(l) - p)) :
              s[i] = IF i <= p - 1 THEN x[i] ELSE y[i - (p - 1)]
    <3>1. /\ s \in Seq(E) /\ Len(s) = Len(x) + Len(y)
          /\ \A i \in 1..(Len(x) + Len(y)) : s[i] = IF i <= Len(x) THEN x[i] ELSE y[i - Len(x)]
      BY <1>4, <1>5, <1>6, ConcatProperties
    <3>2. QED
      BY <1>4, <1>5, <3>1
  <2>2. (p - 1) + (Len(l) - p) = Len(l) - 1
    BY <1>2
  <2>3. ASSUME NEW i \in 1..(Len(l) - 1)
        PROVE  s[i] = IF i <= p - 1 THEN l[i] ELSE l[i + 1]
    <3>1. CASE i <= p - 1
      <4>1. i \in 1..((p - 1) + (Len(l) - p)) /\ i \in 1..(p - 1)
        BY <1>2, <2>2, <3>1
      <4>2. s[i] = x[i]
        BY <2>1, <3>1, <4>1
      <4>3. QED
        BY <1>4, <3>1, <4>1, <4>2
    <3>2. CASE ~(i <= p - 1)
      <4>1. i - (p - 1) \in 1..(Len(l) - p) /\ p + (i - (p - 1)) = i + 1
        BY <1>2, <3>2
      <4>2. i \in 1..((p - 1) + (Len(l) - p))
        BY <2>2
      <4>3. s[i] = y[i - (p - 1)]
        BY <2>1, <3>2, <4>2
      <4>4. QED
        BY <1>5, <3>2, <4>1, <4>3
    <3>3. QED
      BY <3>1, <3>2
  <2>4. QED
    BY <2>1, <2>2, <2>3
<1>8. DOMAIN s = 1..(Len(l) - 1)
  BY <1>7
<1>9. IsInjective(s)
  <2> SUFFICES ASSUME NEW i \in 1..(Len(l) - 1), NEW j \in 1..(Len(l) - 1), s[i] = s[j]
               PROVE  i = j
    BY <1>8 DEF IsInjective
  <2> DEFINE a == IF i <= p - 1 THEN i ELSE i + 1
             b == IF j <= p - 1 THEN j ELSE j + 1
  <2>1. a \in DOMAIN l /\ b \in DOMAIN l
    BY <1>1, <1>2
  <2>2. l[a] = l[b]
    BY <1>7
  <2>3. a = b
    <3> HIDE DEF a, b
    <3>1. QED
      BY <2>1, <2>2 DEF Lists, IsInjective
  <2>4. QED
    BY <1>2, <2>3
<1>10. ToSet(s) = E
  <2>1. ASSUME NEW e \in E PROVE \E i \in DOMAIN s : s[i] = e
    <3>1. PICK j \in 1..Len(l) : l[j] = e
      BY <1>1 DEF Lists, ToSet
    <3>2. j # p
      BY <3>1
    <3>3. CASE j < p
      <4>1. j \in 1..(Len(l) - 1) /\ j <= p - 1
        BY <1>2, <3>3
      <4>2. QED
        BY <1>7, <1>8, <3>1, <4>1
    <3>4. CASE j > p
      <4>1. j - 1 \in 1..(Len(l) - 1) /\ ~(j - 1 <= p - 1) /\ (j - 1) + 1 = j
        BY <1>2, <3>4
      <4>2. s[j - 1] = l[j]
        BY <1>7, <4>1
      <4>3. QED
        BY <1>8, <3>1, <4>1, <4>2
    <3>5. QED
      BY <1>2, <3>2, <3>3, <3>4
  <2>2. ASSUME NEW i \in DOMAIN s PROVE s[i] \in E
    BY <1>7, <1>8, ElementOfSeq
  <2>3. QED
    BY <2>1, <2>2 DEF ToSet
<1>11. QED
  BY <1>7, <1>9, <1>10 DEF Lists, s

LEMMA FrontErases ==
  ASSUME NEW D, NEW l, Lists(l, D), Len(l) > 0
  PROVE  Lists(Front(l), D \ {Last(l)}) /\ Len(Front(l)) = Len(l) - 1
<1>1. Len(l) \in Nat /\ DOMAIN l = 1..Len(l) /\ \A i \in 1..Len(l) : l[i] \in D
  BY LenProperties DEF Lists
<1>2. SubSeq(l, Len(l) + 1, Len(l)) = << >>
  BY <1>1, SubSeqEmpty
<1>3. SubSeq(l, 1, Len(l) - 1) \in Seq(D)
  BY <1>1, SubSeqProperties
<1>4. RemoveAt(l, Len(l)) = Front(l)
  BY <1>2, <1>3, ConcatEmptySeq DEF RemoveAt, Front
<1>5. Len(l) \in DOMAIN l
  BY <1>1
<1>6. QED
  BY <1>4, <1>5, ListErase DEF Last

\* A get or a put moves its key to the front.
LEMMA MoveToFront ==
  ASSUME NEW k, LruInv, ~raced, Listed(k)
  PROVE  /\ Lists(<<k>> \o Erased(k), DOMAIN cache)
         /\ Len(<<k>> \o Erased(k)) <= CacheSize
<1> DEFINE D == DOMAIN cache
           rest == Erased(k)
<1>1. Lists(lru, D) /\ Len(lru) <= CacheSize
  BY DEF LruInv
<1>2. Place(k) \in DOMAIN lru /\ lru[Place(k)] = k
  BY DEF Listed, ToSet, Place
<1>3. Lists(rest, D \ {k}) /\ Len(rest) = Len(lru) - 1
  BY <1>1, <1>2, ListErase DEF Erased
<1>4. k \in D
  BY <1>1 DEF Listed, Lists
<1>5. (D \ {k}) \cup {k} = D /\ k \notin D \ {k}
  BY <1>4
<1> HIDE DEF D, rest
<1>6. Lists(<<k>> \o rest, D) /\ Len(<<k>> \o rest) = Len(rest) + 1
  BY <1>3, <1>5, ListPush
<1>7. Len(lru) \in Nat
  BY <1>1, ListCounts
<1>8. QED
  BY <1>1, <1>3, <1>6, <1>7, ToolsAssumption DEF D, rest

LEMMA CachedKeys ==
  ASSUME NEW k, NEW v, NEW out
  PROVE  DOMAIN Cached(k, v, out) = (DOMAIN cache \ out) \cup {k}
  BY DEF Cached

LEMMA PutKeepsLru ==
  ASSUME NEW k, NEW v, LruInv, ~raced, ToolCachePut(k, v)
  PROVE  LruInv'
<1> DEFINE D == DOMAIN cache
<1>1. Lists(lru, D) /\ Len(lru) <= CacheSize
  BY DEF LruInv
<1>2. Len(lru) \in Nat /\ Cardinality(D) = Len(lru) /\ ToSet(lru) = D
  BY <1>1, ListCounts DEF Lists
<1>3. CacheSize \in Nat /\ CacheSize > 0
  BY ToolsAssumption
<1>4. CASE Listed(k) /\ cache' = Cached(k, v, {}) /\ lru' = <<k>> \o Erased(k)
  <2>1. k \in D
    BY <1>2, <1>4 DEF Listed
  <2>2. DOMAIN cache' = D
    <3>1. DOMAIN cache' = (DOMAIN cache \ {}) \cup {k}
      BY <1>4, CachedKeys
    <3>2. QED
      BY <2>1, <3>1
  <2>3. QED
    BY <1>4, <2>2, MoveToFront DEF LruInv
<1>5. CASE ~Listed(k) /\ Full /\ cache' = Cached(k, v, EvictLru) /\ lru' = <<k>> \o Front(lru)
  <2> DEFINE e == Last(lru)
             rest == Front(lru)
  <2>1. Len(lru) = CacheSize /\ Len(lru) > 0 /\ lru # << >>
    BY <1>1, <1>2, <1>3, <1>5, EmptySeq DEF Full, Lists
  <2>2. Lists(rest, D \ {e}) /\ Len(rest) = Len(lru) - 1
    BY <1>1, <2>1, FrontErases
  <2>3. DOMAIN cache' = (D \ {e}) \cup {k}
    BY <1>5, <2>1, CachedKeys DEF EvictLru
  <2>4. k \notin D \ {e}
    BY <1>2, <1>5 DEF Listed
  <2>5. lru' = <<k>> \o rest
    BY <1>5
  <2> HIDE DEF e, rest, D
  <2>6. Lists(lru', DOMAIN cache') /\ Len(lru') = Len(rest) + 1
    BY <2>2, <2>3, <2>4, <2>5, ListPush
  <2>7. Len(lru') <= CacheSize
    BY <1>3, <2>1, <2>2, <2>6
  <2>8. QED
    BY <2>6, <2>7 DEF LruInv
<1>6. CASE ~Listed(k) /\ ~Full /\ cache' = Cached(k, v, {}) /\ lru' = <<k>> \o lru
  <2>1. DOMAIN cache' = D \cup {k} /\ k \notin D
    BY <1>2, <1>6, CachedKeys DEF Listed
  <2>2. Lists(lru', DOMAIN cache') /\ Len(lru') = Len(lru) + 1
    BY <1>1, <1>6, <2>1, ListPush
  <2>3. Len(lru) < CacheSize
    BY <1>2, <1>3, <1>6 DEF Full
  <2>4. QED
    BY <1>2, <1>3, <2>2, <2>3 DEF LruInv
<1>7. QED
  BY <1>4, <1>5, <1>6 DEF ToolCachePut

LEMMA LruInit == ToInit => LruInv
<1> SUFFICES ASSUME ToInit PROVE LruInv
  OBVIOUS
<1>1. cache = << >> /\ lru = << >>
  BY DEF ToInit
<1>2. QED
  BY <1>1, NothingListed DEF LruInv

LEMMA LruNext == LruInv /\ [ToNext]_toolsVars => LruInv'
<1> SUFFICES ASSUME LruInv, [ToNext]_toolsVars PROVE LruInv'
  OBVIOUS
<1>1. CASE UNCHANGED cacheVars
  BY <1>1 DEF LruInv, cacheVars
<1>2. ASSUME NEW t \in Callers, CacheHit(t) PROVE LruInv'
  <2>1. ~raced /\ ToolCacheGet(key[t]) /\ cache' = cache
    BY <1>2 DEF CacheHit
  <2>2. CASE Listed(key[t])
    BY <2>1, <2>2, MoveToFront DEF ToolCacheGet, LruInv
  <2>3. CASE ~Listed(key[t])
    BY <2>1, <2>3 DEF ToolCacheGet, LruInv
  <2>4. QED
    BY <2>2, <2>3
<1>3. ASSUME NEW t \in Callers, CacheMiss(t) PROVE LruInv'
  BY <1>3 DEF CacheMiss, LruInv
<1>4. ASSUME NEW t \in Callers, CachePut(t) PROVE LruInv'
  BY <1>4, PutKeepsLru DEF CachePut
<1>5. CASE Restart
  BY <1>5, NothingListed DEF Restart, LruInv
<1>6. CASE Tick
  BY <1>1, <1>6 DEF Tick
<1>7. ASSUME NEW t \in Callers,
             \/ Begin(t) \/ ToolThrows(t) \/ Observe(t) \/ Restat(t) \/ Truncate(t)
             \/ Write(t) \/ DeleteFile(t) \/ RunCommand(t) \/ CreateTool(t)
      PROVE  UNCHANGED cacheVars
  BY <1>7 DEF Begin, ToolThrows, Observe, Restat, Truncate, Write, DeleteFile, RunCommand, CreateTool
<1>8. CASE UNCHANGED toolsVars
  BY <1>1, <1>8 DEF toolsVars
<1>9. QED
  BY <1>1, <1>2, <1>3, <1>4, <1>5, <1>6, <1>7, <1>8 DEF ToNext, Invoke

\* For every size of the cache and every order of gets and puts that do not race,
\* the list that says which key goes next holds the keys of the cache, each
\* once, and the cache stays within its size.
THEOREM LruIsTheCache == ToSpec => []LruMatchesCache
<1>1. LruInv => LruMatchesCache
  BY ListCounts DEF LruInv, LruMatchesCache, Lists
<1>2. QED
  BY <1>1, LruInit, LruNext, PTL DEF ToSpec

-----------------------------------------------------------------------------
(* The cache: its answers.                                                  *)

\* The times that paths have are among those they have had.
DiskOK ==
    /\ second \in Nat /\ second > 0
    /\ dirTime \in Nat /\ dirTime > 0 /\ <<".", dirTime>> \in stamps
    /\ DOMAIN disk = Files
    /\ \A f \in Files : disk[f].time \in Nat
    /\ \A f \in Files : disk[f].time > 0 => <<f, disk[f].time>> \in stamps

\* What a caller is at.
CallersOK ==
    /\ DOMAIN tpc = Callers /\ DOMAIN call = Callers
    /\ DOMAIN key = Callers /\ DOMAIN answer = Callers
    /\ \A t \in Callers : tpc[t] # "idle" => call[t] \in Calls
    /\ \A t \in Callers : tpc[t] \in {"returned", "putting"} => call[t].tool \in Idempotent
    /\ \A t \in Callers : tpc[t] = "opened" => call[t].tool = "write_file"

CallOf(k) == [tool |-> k.tool, input |-> k.input]

\* A key of an idempotent call, with a time only for a path that has had it.
KeyOK(k) ==
    /\ CallOf(k) \in Calls /\ k.tool \in Idempotent
    /\ k.mtime \in Nat
    /\ ~k.input.exact => k.mtime = 0
    /\ k.mtime # 0 => <<k.input.path, k.mtime>> \in stamps

\* Answers with their keys: those in the cache and those about to be.
Held ==
    {<<k, cache[k]>> : k \in DOMAIN cache}
    \cup {<<key[t], answer[t]>> : t \in {u \in Callers : tpc[u] = "putting"}}

\* Answers whose keys have no time yet.
Heard == {<<call[t], answer[t]>> : t \in {u \in Callers : tpc[u] = "returned"}}

AnswersInv ==
    /\ DiskOK /\ CallersOK
    /\ raced \/ /\ \A h \in Held : KeyOK(h[1]) /\ Explained(h[1], h[2])
                /\ \A h \in Heard : Explained(KeyNow(h[1]), h[2])

LEMMA Dot == "." \notin Files
  BY ToolsAssumption

LEMMA TimedCalls ==
  ASSUME NEW c \in Calls, c.tool \in Idempotent
  PROVE  /\ c = [tool |-> c.tool, input |-> c.input]
         /\ c.input.exact \in BOOLEAN
         /\ c.input.exact => \/ c.tool \in {"read_file", "stat_file"} /\ c.input.path \in Files
                             \/ c.tool = "list_dir" /\ c.input.path = "."
<1>1. CASE \E n \in Names \cap {"read_file", "stat_file"}, f \in Files, e \in BOOLEAN :
              c = [tool |-> n, input |-> In(f, e)]
  <2>1. PICK n \in Names \cap {"read_file", "stat_file"}, f \in Files, e \in BOOLEAN :
              c = [tool |-> n, input |-> [path |-> f, exact |-> e]]
    BY <1>1 DEF In
  <2>2. c.tool = n /\ c.input = [path |-> f, exact |-> e]
    BY <2>1
  <2>3. c = [tool |-> c.tool, input |-> c.input]
    BY <2>1, <2>2
  <2>4. QED
    BY <2>2, <2>3
<1>2. CASE \E n \in Names \cap {"list_dir"} : c = [tool |-> n, input |-> In(".", TRUE)]
  <2>1. c = [tool |-> "list_dir", input |-> [path |-> ".", exact |-> TRUE]]
    BY <1>2 DEF In
  <2>2. c.tool = "list_dir" /\ c.input = [path |-> ".", exact |-> TRUE]
    BY <2>1
  <2>3. c.input.path = "." /\ c.input.exact = TRUE
    BY <2>2
  <2>4. c = [tool |-> c.tool, input |-> c.input]
    BY <2>1, <2>2
  <2>5. QED
    BY <2>2, <2>3, <2>4
<1>3. CASE c.tool \in {"write_file", "delete_file"}
  BY <1>3 DEF Idempotent
<1>4. CASE \E n \in Names \ {"read_file", "stat_file", "list_dir", "write_file", "delete_file"} :
              c = [tool |-> n, input |-> In(".", FALSE)]
  <2>1. PICK n \in Names : c = [tool |-> n, input |-> [path |-> ".", exact |-> FALSE]]
    BY <1>4 DEF In
  <2>2. c.tool = n /\ c.input = [path |-> ".", exact |-> FALSE]
    BY <2>1
  <2>3. c.input.path = "." /\ c.input.exact = FALSE
    BY <2>2
  <2>4. c = [tool |-> c.tool, input |-> c.input]
    BY <2>1, <2>2
  <2>5. QED
    BY <2>3, <2>4
<1>5. QED
  <2> DEFINE A == {[tool |-> n, input |-> In(f, e)] : n \in Names \cap {"read_file", "stat_file"},
                                                     f \in Files, e \in BOOLEAN}
             B == {[tool |-> n, input |-> In(".", TRUE)] : n \in Names \cap {"list_dir"}}
             C == {[tool |-> n, input |-> In(f, TRUE)] :
                     n \in Names \cap {"write_file", "delete_file"}, f \in Files}
             D == {[tool |-> n, input |-> In(".", FALSE)] :
                     n \in Names \ {"read_file", "stat_file", "list_dir", "write_file", "delete_file"}}
  <2>1. Calls = ((A \cup B) \cup C) \cup D
    BY DEF Calls
  <2>2. c \in A => \E n \in Names \cap {"read_file", "stat_file"}, f \in Files, e \in BOOLEAN :
              c = [tool |-> n, input |-> In(f, e)]
    BY SMT
  <2>3. c \in B => \E n \in Names \cap {"list_dir"} : c = [tool |-> n, input |-> In(".", TRUE)]
    BY Zenon
  <2>4. c \in C => c.tool \in {"write_file", "delete_file"}
    BY DEF In
  <2>5. c \in D => \E n \in Names \ {"read_file", "stat_file", "list_dir", "write_file", "delete_file"} :
              c = [tool |-> n, input |-> In(".", FALSE)]
    BY Zenon
  <2> HIDE DEF A, B, C, D
  <2>6. c \in A \/ c \in B \/ c \in C \/ c \in D
    BY <2>1
  <2>7. QED
    BY <1>1, <1>2, <1>3, <1>4, <2>2, <2>3, <2>4, <2>5, <2>6, Zenon

LEMMA WritingCalls ==
  ASSUME NEW c \in Calls, c.tool \in {"write_file", "delete_file"}
  PROVE  c.input.path \in Files
  BY DEF Calls, In

\* What GetMtime and Fits come to for a call with a time.
LEMMA TimeOfFile ==
  ASSUME NEW c, c.input.exact, c.input.path \in Files
  PROVE  GetMtime(c.input) = disk[c.input.path].time
  BY DEF GetMtime

LEMMA TimeOfDirectory ==
  ASSUME NEW c, c.input.exact, c.input.path = "."
  PROVE  GetMtime(c.input) = dirTime
  BY Dot DEF GetMtime

LEMMA FitsFile ==
  ASSUME NEW c, NEW a, c.tool \in {"read_file", "stat_file"}
  PROVE  Fits(c, a) <=> /\ disk[c.input.path].time > 0
                        /\ a = IF c.tool = "read_file" THEN [content |-> disk[c.input.path].content]
                               ELSE disk[c.input.path]
  BY DEF Fits, Throws, Exists, Observed, Contents, Stat

LEMMA FitsListing ==
  ASSUME NEW c, NEW a, c.tool = "list_dir"
  PROVE  Fits(c, a) <=> DOMAIN a.sizes = {g \in Files : disk[g].time > 0}
<1>1. DOMAIN Listing.sizes = {g \in Files : disk[g].time > 0}
  BY DEF Listing, Exists
<1>2. ~Throws(c)
  BY DEF Throws
<1>3. QED
  BY <1>1, <1>2 DEF Fits

\* A step of the files that gives paths the times of ss: whatever it changes has
\* one of them, or is gone.
FileStep(ss) ==
    /\ Stamp(ss) /\ DOMAIN disk' = Files
    /\ \A f \in Files : \/ disk'[f] = disk[f]
                        \/ disk'[f].time = 0
                        \/ /\ disk'[f].time \in Nat /\ disk'[f].time > 0
                           /\ <<f, disk'[f].time>> \in ss
    /\ \/ dirTime' \in Nat /\ dirTime' > 0 /\ <<".", dirTime'>> \in ss
       \/ dirTime' = dirTime /\ \A f \in Files : disk'[f].time > 0 <=> disk[f].time > 0

LEMMA NoStep ==
  ASSUME DiskOK, UNCHANGED fileVars
  PROVE  \E ss : FileStep(ss)
<1>1. FileStep({})
  BY DEF DiskOK, fileVars, FileStep, Stamp
<1>2. QED
  BY <1>1

\* The entries of the directory stay the same when its time does.
LEMMA PutStep ==
  ASSUME DiskOK, NEW f \in Files, NEW v, NEW m \in Nat, m > 0, NEW d \in BOOLEAN,
         ~Exists(f) => d, Put(f, v, m, d)
  PROVE  \E ss : FileStep(ss)
<1> DEFINE ss == {<<f, m>>} \cup IF d THEN {<<".", second>>} ELSE {}
<1>1. Stamp(ss)
  BY DEF Put
<1>2. /\ disk' = [disk EXCEPT ![f] = [content |-> v, time |-> m]]
      /\ dirTime' = IF d THEN second ELSE dirTime
  BY DEF Put
<1>3. /\ DOMAIN disk' = Files /\ disk'[f].time = m
      /\ \A g \in Files : g # f => disk'[g] = disk[g]
  BY <1>2 DEF DiskOK
<1>4. <<f, m>> \in ss /\ (d => <<".", second>> \in ss)
  OBVIOUS
<1>5. CASE d
  BY <1>1, <1>2, <1>3, <1>4, <1>5 DEF FileStep, DiskOK
<1>6. CASE ~d
  BY <1>1, <1>2, <1>3, <1>4, <1>6 DEF FileStep, DiskOK, Exists
<1>7. QED
  BY <1>5, <1>6

LEMMA ModifyStep ==
  ASSUME DiskOK, NEW f \in Files, NEW v, Modify(f, v)
  PROVE  \E ss : FileStep(ss)
<1>1. Put(f, v, second, ~Exists(f)) /\ second \in Nat /\ second > 0
  BY DEF Modify, DiskOK
<1>2. CASE Exists(f)
  BY <1>1, <1>2, PutStep
<1>3. CASE ~Exists(f)
  BY <1>1, <1>3, PutStep
<1>4. QED
  BY <1>2, <1>3

LEMMA RemoveStep ==
  ASSUME DiskOK, NEW f \in Files, RemoveFile(f)
  PROVE  \E ss : FileStep(ss)
<1>1. /\ disk' = [disk EXCEPT ![f] = [content |-> 0, time |-> 0]]
      /\ dirTime' = second /\ Stamp({<<".", second>>})
  BY DEF RemoveFile
<1>2. DOMAIN disk' = Files /\ disk'[f].time = 0 /\ \A g \in Files : g # f => disk'[g] = disk[g]
  BY <1>1 DEF DiskOK
<1>3. FileStep({<<".", second>>})
  BY <1>1, <1>2 DEF FileStep, DiskOK
<1>4. QED
  BY <1>3

LEMMA ShellSteps ==
  ASSUME DiskOK, ShellStep
  PROVE  \E ss : FileStep(ss)
<1>1. \A m \in 1..MaxSeconds : m \in Nat /\ m > 0
  BY ToolsAssumption
<1>2. CASE \E f \in Files, m \in 1..MaxSeconds :
              \E v \in {writes + 1} \cup {disk[g].content : g \in Files}, d \in {TRUE, ~Exists(f)} :
                 Put(f, v, m, d)
  <2>1. PICK f \in Files, m \in 1..MaxSeconds :
           \E v \in {writes + 1} \cup {disk[g].content : g \in Files}, d \in {TRUE, ~Exists(f)} :
              Put(f, v, m, d)
    BY <1>2
  <2>2. PICK v \in {writes + 1} \cup {disk[g].content : g \in Files}, d \in {TRUE, ~Exists(f)} :
               Put(f, v, m, d)
    BY <2>1
  <2>3. d \in BOOLEAN /\ (~Exists(f) => d)
    BY Zenon DEF Exists
  <2>4. QED
    BY <1>1, <2>2, <2>3, PutStep
<1>3. CASE \E f \in Files : Exists(f) /\ RemoveFile(f)
  BY <1>3, RemoveStep
<1>4. CASE \E m \in 1..MaxSeconds : TouchDirectory(m)
  <2>1. PICK m \in 1..MaxSeconds : TouchDirectory(m)
    BY <1>4
  <2>2. FileStep({<<".", m>>})
    BY <1>1, <2>1 DEF TouchDirectory, FileStep, DiskOK
  <2>3. QED
    BY <2>2
<1>5. QED
  BY <1>2, <1>3, <1>4 DEF ShellStep

LEMMA DiskThroughStep ==
  ASSUME DiskOK, NEW ss, FileStep(ss), second' = second
  PROVE  DiskOK'
<1>1. stamps' = stamps \cup ss
  BY DEF FileStep, Stamp
<1>2. dirTime' \in Nat /\ dirTime' > 0 /\ <<".", dirTime'>> \in stamps'
  BY <1>1 DEF FileStep, DiskOK
<1>3. ASSUME NEW f \in Files
      PROVE  disk'[f].time \in Nat /\ (disk'[f].time > 0 => <<f, disk'[f].time>> \in stamps')
  <2>1. disk[f].time \in Nat /\ (disk[f].time > 0 => <<f, disk[f].time>> \in stamps)
    BY DEF DiskOK
  <2>2. CASE disk'[f] = disk[f]
    BY <1>1, <2>1, <2>2
  <2>3. CASE disk'[f].time = 0
    BY <2>3
  <2>4. CASE disk'[f].time \in Nat /\ disk'[f].time > 0 /\ <<f, disk'[f].time>> \in ss
    BY <1>1, <2>4
  <2>5. QED
    BY <2>2, <2>3, <2>4 DEF FileStep
<1>4. DOMAIN disk' = Files
  BY DEF FileStep
<1>5. QED
  BY <1>2, <1>3, <1>4 DEF DiskOK

\* A path's answer through a step: the step leaves the path alone, removes it, or
\* gives it one of the times of ss.
LEMMA SeenThroughStep ==
  ASSUME DiskOK, NEW ss, FileStep(ss),
         NEW c \in Calls, c.tool \in Idempotent, c.input.exact, NEW a
  PROVE  \/ GetMtime(c.input)' = GetMtime(c.input) /\ (Fits(c, a) => Fits(c, a)')
         \/ GetMtime(c.input)' = 0
         \/ <<c.input.path, GetMtime(c.input)'>> \in ss
<1>1. CASE c.tool \in {"read_file", "stat_file"} /\ c.input.path \in Files
  <2>1. GetMtime(c.input) = disk[c.input.path].time /\ GetMtime(c.input)' = disk'[c.input.path].time
    BY <1>1 DEF GetMtime
  <2>2. CASE disk'[c.input.path] = disk[c.input.path]
    <3>1. Fits(c, a) => Fits(c, a)'
      BY <1>1, <2>2 DEF Fits, Throws, Exists, Observed, Contents, Stat
    <3>2. QED
      BY <2>1, <2>2, <3>1
  <2>3. CASE disk'[c.input.path] # disk[c.input.path]
    BY <1>1, <2>1, <2>3 DEF FileStep
  <2>4. QED
    BY <2>2, <2>3
<1>2. CASE c.tool = "list_dir" /\ c.input.path = "."
  <2>1. GetMtime(c.input) = dirTime /\ GetMtime(c.input)' = dirTime'
    BY <1>2, Dot DEF GetMtime
  <2>2. CASE <<".", dirTime'>> \in ss
    BY <1>2, <2>1, <2>2
  <2>3. CASE dirTime' = dirTime /\ \A f \in Files : disk'[f].time > 0 <=> disk[f].time > 0
    <3>1. {g \in Files : disk'[g].time > 0} = {g \in Files : disk[g].time > 0}
      BY <2>3
    <3>2. Fits(c, a) => Fits(c, a)'
      BY <1>2, <3>1 DEF Fits, Throws, Exists, Listing
    <3>3. QED
      BY <2>1, <2>3, <3>2
  <2>4. QED
    BY <2>2, <2>3 DEF FileStep
<1>3. QED
  BY <1>1, <1>2, TimedCalls

\* The time of a key that is given to its path again does not tell contents apart.
LEMMA KeyThroughStep ==
  ASSUME DiskOK, NEW ss, FileStep(ss), NEW k, NEW a, KeyOK(k), Explained(k, a)
  PROVE  KeyOK(k)' /\ Explained(k, a)'
<1> DEFINE c == CallOf(k)
<1>1. stamps' = stamps \cup ss /\ doubt' = doubt \cup {s \in ss : Ambiguous(s)}
  BY DEF FileStep, Stamp
<1>2. KeyOK(k)'
  BY <1>1 DEF KeyOK
<1>3. CASE k.mtime = 0 \/ <<k.input.path, k.mtime>> \in doubt
  BY <1>1, <1>2, <1>3 DEF Explained
<1>4. CASE k.mtime # 0 /\ <<k.input.path, k.mtime>> \notin doubt
  <2>1. c \in Calls /\ c.tool \in Idempotent /\ c.input = k.input /\ c.input.exact
    BY <1>4 DEF KeyOK, CallOf
  <2>2. k.mtime # GetMtime(c.input) \/ Fits(c, a)
    BY <1>4, <2>1 DEF Explained, CallOf
  <2>3. CASE <<k.input.path, k.mtime>> \in ss
    <3>1. Ambiguous(<<k.input.path, k.mtime>>)
      BY <1>4 DEF Ambiguous, KeyOK
    <3>2. <<k.input.path, k.mtime>> \in doubt'
      BY <1>1, <2>3, <3>1
    <3>3. QED
      BY <1>2, <3>2 DEF Explained
  <2>4. CASE <<k.input.path, k.mtime>> \notin ss
    <3>1. k.mtime # GetMtime(c.input)' \/ Fits(c, a)'
      <4> HIDE DEF c
      <4>1. QED
        BY <1>4, <2>1, <2>2, <2>4, SeenThroughStep
    <3>2. QED
      BY <1>2, <2>1, <3>1 DEF Explained, CallOf
  <2>5. QED
    BY <2>3, <2>4
<1>5. QED
  BY <1>3, <1>4

\* The time of a call whose caller has its answer.
LEMMA HeardThroughStep ==
  ASSUME DiskOK, NEW ss, FileStep(ss),
         NEW c \in Calls, NEW a, c.tool \in Idempotent, Explained(KeyNow(c), a),
         \E u \in Callers : tpc[u] = "returned" /\ call[u] = c
  PROVE  Explained(KeyNow(c), a)'
<1>1. doubt' = doubt \cup {s \in ss : Ambiguous(s)}
  BY DEF FileStep, Stamp
<1>2. \A x : Ambiguous(<<c.input.path, x>>)
  BY DEF Ambiguous
<1>3. c = [tool |-> c.tool, input |-> c.input]
  BY TimedCalls
<1>4. CASE ~c.input.exact
  BY <1>4 DEF Explained, KeyNow, GetMtime
<1>5. CASE c.input.exact
  <2>1. CASE GetMtime(c.input)' = 0
    BY <2>1 DEF Explained, KeyNow
  <2>2. CASE <<c.input.path, GetMtime(c.input)'>> \in ss
    <3>1. <<c.input.path, GetMtime(c.input)'>> \in doubt'
      BY <1>1, <1>2, <2>2
    <3>2. QED
      BY <3>1 DEF Explained, KeyNow
  <2>3. CASE GetMtime(c.input)' = GetMtime(c.input) /\ (Fits(c, a) => Fits(c, a)')
    <3>1. \/ GetMtime(c.input) = 0 \/ <<c.input.path, GetMtime(c.input)>> \in doubt
          \/ Fits(c, a)
      BY <1>3 DEF Explained, KeyNow
    <3>2. QED
      BY <1>1, <1>3, <2>3, <3>1 DEF Explained, KeyNow
  <2>4. QED
    BY <1>5, <2>1, <2>2, <2>3, SeenThroughStep
<1>6. QED
  BY <1>4, <1>5

\* Nothing that the tools see has changed.
LEMMA SameAnswers ==
  ASSUME UNCHANGED <<disk, dirTime, second, dynamic, stamps, doubt>>, NEW k, NEW c, NEW a
  PROVE  /\ KeyOK(k)' <=> KeyOK(k)
         /\ Explained(k, a)' <=> Explained(k, a)
         /\ Explained(KeyNow(c), a)' <=> Explained(KeyNow(c), a)
<1>1. \A i : GetMtime(i)' = GetMtime(i)
  BY DEF GetMtime
<1>2. \A f : Exists(f)' <=> Exists(f)
  BY DEF Exists
<1>3. Listing' = Listing /\ Found' = Found
  BY <1>2 DEF Listing, Found, Exists
<1>4. \A d : Throws(d)' <=> Throws(d)
  BY <1>2 DEF Throws
<1>5. \A d : Observed(d)' = Observed(d)
  BY <1>3 DEF Observed, Contents, Stat
<1>6. \A d : Fits(d, a)' <=> Fits(d, a)
  BY <1>3, <1>4, <1>5 DEF Fits
<1>7. KeyOK(k)' <=> KeyOK(k)
  BY DEF KeyOK
<1>8. Explained(k, a)' <=> Explained(k, a)
  BY <1>1, <1>6 DEF Explained
<1>9. Explained(KeyNow(c), a)' <=> Explained(KeyNow(c), a)
  BY <1>1, <1>6 DEF Explained, KeyNow
<1>10. QED
  BY <1>7, <1>8, <1>9

\* A step that brings no new answers, whatever it does to the files.
LEMMA FilesChange ==
  ASSUME AnswersInv, ~raced, second' = second, \E ss : FileStep(ss),
         Held' \subseteq Held, Heard' \subseteq Heard, CallersOK'
  PROVE  AnswersInv'
<1>1. /\ DiskOK /\ CallersOK
      /\ \A h \in Held : KeyOK(h[1]) /\ Explained(h[1], h[2])
      /\ \A h \in Heard : Explained(KeyNow(h[1]), h[2])
  BY DEF AnswersInv
<1>2. \A h \in Heard : /\ h[1] \in Calls /\ h[1].tool \in Idempotent
                       /\ \E u \in Callers : tpc[u] = "returned" /\ call[u] = h[1]
  BY <1>1 DEF Heard, CallersOK
<1>3. PICK ss : FileStep(ss)
  OBVIOUS
<1>4. DiskOK'
  BY <1>1, <1>3, DiskThroughStep
<1>5. ASSUME NEW h \in Held' PROVE KeyOK(h[1])' /\ Explained(h[1], h[2])'
  BY <1>1, <1>3, KeyThroughStep
<1>6. ASSUME NEW h \in Heard' PROVE Explained(KeyNow(h[1]), h[2])'
  BY <1>1, <1>2, <1>3, HeardThroughStep
<1>7. QED
  BY <1>4, <1>5, <1>6 DEF AnswersInv

\* invoke() leaves: what it held is gone.
LEMMA ReturnForgets ==
  ASSUME CallersOK, NEW t \in Callers, InvokeReturns(t)
  PROVE  /\ CallersOK' /\ Heard' \subseteq Heard
         /\ cache' = cache => Held' \subseteq Held
<1>1. /\ tpc' = [tpc EXCEPT ![t] = "idle"] /\ call' = [call EXCEPT ![t] = NoCall]
      /\ key' = [key EXCEPT ![t] = NoKey] /\ answer' = [answer EXCEPT ![t] = NoAnswer]
  BY DEF InvokeReturns, TGoto
<1>2. /\ DOMAIN tpc' = Callers /\ DOMAIN call' = Callers /\ DOMAIN key' = Callers /\ DOMAIN answer' = Callers
      /\ tpc'[t] = "idle"
      /\ \A u \in Callers \ {t} : /\ tpc'[u] = tpc[u] /\ call'[u] = call[u]
                                  /\ key'[u] = key[u] /\ answer'[u] = answer[u]
  BY <1>1 DEF CallersOK
<1>3. CallersOK'
  BY <1>2 DEF CallersOK
<1>4. Heard' \subseteq Heard
  BY <1>2 DEF Heard
<1>5. cache' = cache => Held' \subseteq Held
  BY <1>2 DEF Held
<1>6. QED
  BY <1>3, <1>4, <1>5

\* t moves to a place where it holds no answer.
LEMMA MoveOn ==
  ASSUME CallersOK, NEW t \in Callers, NEW l \in {"getting", "run", "opened"}, TGoto(t, l),
         call'[t] \in Calls, l = "opened" => call'[t].tool = "write_file",
         DOMAIN call' = Callers, \A u \in Callers \ {t} : call'[u] = call[u],
         \E k : key' = [key EXCEPT ![t] = k],
         UNCHANGED <<answer, cache>>
  PROVE  CallersOK' /\ Heard' \subseteq Heard /\ Held' \subseteq Held
<1>1. PICK k : key' = [key EXCEPT ![t] = k]
  OBVIOUS
<1>3. /\ DOMAIN tpc' = Callers /\ DOMAIN key' = Callers /\ DOMAIN answer' = Callers
      /\ tpc'[t] = l
      /\ \A u \in Callers \ {t} : tpc'[u] = tpc[u] /\ key'[u] = key[u] /\ answer'[u] = answer[u]
  BY <1>1 DEF CallersOK, TGoto
<1>4. CallersOK'
  <2>1. \A u \in Callers : tpc'[u] # "idle" => call'[u] \in Calls
    BY <1>3 DEF CallersOK
  <2>2. \A u \in Callers : tpc'[u] \in {"returned", "putting"} => call'[u].tool \in Idempotent
    BY <1>3 DEF CallersOK
  <2>3. \A u \in Callers : tpc'[u] = "opened" => call'[u].tool = "write_file"
    BY <1>3 DEF CallersOK
  <2>4. QED
    BY <1>3, <2>1, <2>2, <2>3 DEF CallersOK
<1>5. Heard' \subseteq Heard
  BY <1>3 DEF Heard
<1>6. Held' \subseteq Held
  BY <1>3 DEF Held
<1>7. QED
  BY <1>4, <1>5, <1>6

LEMMA BeginKeeps ==
  ASSUME AnswersInv, NEW t \in Callers, Begin(t)
  PROVE  AnswersInv'
<1>1. CallersOK /\ ~raced /\ UNCHANGED <<fileVars, second, dynamic, answer, cache>>
  BY DEF Begin, AnswersInv, cacheVars
<1>2. PICK c \in Calls :
         /\ call' = [call EXCEPT ![t] = c]
         /\ IF c.tool \in Idempotent
            THEN key' = [key EXCEPT ![t] = KeyNow(c)] /\ TGoto(t, "getting")
            ELSE key' = [key EXCEPT ![t] = NoKey] /\ TGoto(t, "run")
  BY DEF Begin
<1>a. DOMAIN call' = Callers /\ call'[t] \in Calls /\ \A u \in Callers \ {t} : call'[u] = call[u]
  BY <1>1, <1>2 DEF CallersOK
<1>3. CallersOK' /\ Heard' \subseteq Heard /\ Held' \subseteq Held
  <2>1. CASE TGoto(t, "getting") /\ key' = [key EXCEPT ![t] = KeyNow(c)]
    BY <1>1, <1>a, <2>1, MoveOn
  <2>2. CASE TGoto(t, "run") /\ key' = [key EXCEPT ![t] = NoKey]
    BY <1>1, <1>a, <2>2, MoveOn
  <2>3. QED
    BY <1>2, <2>1, <2>2
<1>4. \E ss : FileStep(ss)
  BY <1>1, NoStep DEF AnswersInv
<1>5. QED
  BY <1>1, <1>3, <1>4, FilesChange

LEMMA MissKeeps ==
  ASSUME AnswersInv, NEW t \in Callers, CacheMiss(t)
  PROVE  AnswersInv'
<1>1. CallersOK /\ ~raced /\ UNCHANGED <<fileVars, second, dynamic, answer, cache, call>>
  BY DEF CacheMiss, AnswersInv
<1>2. TGoto(t, "run") /\ key' = [key EXCEPT ![t] = NoKey] /\ tpc[t] = "getting"
  BY DEF CacheMiss
<1>3. DOMAIN call' = Callers /\ call'[t] \in Calls /\ \A u \in Callers \ {t} : call'[u] = call[u]
  BY <1>1, <1>2 DEF CallersOK
<1>4. CallersOK' /\ Heard' \subseteq Heard /\ Held' \subseteq Held
  BY <1>1, <1>2, <1>3, MoveOn
<1>5. \E ss : FileStep(ss)
  BY <1>1, NoStep DEF AnswersInv
<1>6. QED
  BY <1>1, <1>4, <1>5, FilesChange

LEMMA ObserveKeeps ==
  ASSUME AnswersInv, NEW t \in Callers, Observe(t)
  PROVE  AnswersInv'
<1>1. /\ CallersOK /\ DiskOK /\ ~raced
      /\ \A h \in Held : KeyOK(h[1]) /\ Explained(h[1], h[2])
      /\ \A h \in Heard : Explained(KeyNow(h[1]), h[2])
  BY DEF Observe, AnswersInv
<1>2. /\ UNCHANGED <<disk, dirTime, stamps, doubt, second, dynamic, cache, call, key>>
      /\ tpc[t] = "run" /\ call[t].tool \in Idempotent /\ ~Throws(call[t])
      /\ answer' = [answer EXCEPT ![t] = Observed(call[t])]
      /\ tpc' = [tpc EXCEPT ![t] = "returned"]
  BY DEF Observe, fileVars, cacheVars, TGoto
<1>3. /\ DOMAIN tpc' = Callers /\ DOMAIN answer' = Callers
      /\ tpc'[t] = "returned" /\ answer'[t] = Observed(call[t])
      /\ \A u \in Callers \ {t} : tpc'[u] = tpc[u] /\ answer'[u] = answer[u]
  BY <1>1, <1>2 DEF CallersOK
<1>4. CallersOK' /\ DiskOK'
  BY <1>1, <1>2, <1>3 DEF CallersOK, DiskOK
<1>5. Held' \subseteq Held
  BY <1>2, <1>3 DEF Held
<1>6. Heard' \subseteq Heard \cup {<<call[t], Observed(call[t])>>}
  BY <1>2, <1>3 DEF Heard
<1>7. call[t] \in Calls /\ call[t] = [tool |-> call[t].tool, input |-> call[t].input]
  BY <1>1, <1>2, TimedCalls DEF CallersOK
<1>8. Explained(KeyNow(call[t]), Observed(call[t]))
  <2>1. Fits(call[t], Observed(call[t]))
    BY <1>2 DEF Fits, Observed
  <2>2. QED
    BY <1>7, <2>1 DEF Explained, KeyNow
<1>9. \A h \in Heard' : Explained(KeyNow(h[1]), h[2])
  BY <1>1, <1>6, <1>8
<1>10. \A h \in Held' : (KeyOK(h[1]) /\ Explained(h[1], h[2]))'
  BY <1>1, <1>2, <1>5, SameAnswers
<1>11. \A h \in Heard' : Explained(KeyNow(h[1]), h[2])'
  BY <1>2, <1>9, SameAnswers
<1>12. QED
  BY <1>4, <1>10, <1>11 DEF AnswersInv

LEMMA KeyNowOK ==
  ASSUME DiskOK, NEW c \in Calls, c.tool \in Idempotent
  PROVE  KeyOK(KeyNow(c))
<1> DEFINE k == KeyNow(c)
<1>1. k.tool = c.tool /\ k.input = c.input /\ k.mtime = GetMtime(c.input)
  BY DEF KeyNow
<1>2. CallOf(k) \in Calls /\ k.tool \in Idempotent
  BY <1>1, TimedCalls DEF CallOf
<1>3. /\ GetMtime(c.input) \in Nat
      /\ ~c.input.exact => GetMtime(c.input) = 0
      /\ GetMtime(c.input) # 0 => <<c.input.path, GetMtime(c.input)>> \in stamps
  <2>1. CASE ~c.input.exact
    BY <2>1 DEF GetMtime
  <2>2. CASE c.input.exact /\ c.input.path \in Files
    <3>1. GetMtime(c.input) = disk[c.input.path].time
      BY <2>2 DEF GetMtime
    <3>2. QED
      BY <2>2, <3>1 DEF DiskOK
  <2>3. CASE c.input.exact /\ c.input.path = "."
    <3>1. GetMtime(c.input) = dirTime
      BY <2>3, Dot DEF GetMtime
    <3>2. QED
      BY <2>3, <3>1 DEF DiskOK
  <2>4. QED
    BY <2>1, <2>2, <2>3, TimedCalls
<1> HIDE DEF k
<1>4. KeyOK(k)
  BY <1>1, <1>2, <1>3 DEF KeyOK
<1>5. QED
  BY <1>4 DEF k

LEMMA RestatKeeps ==
  ASSUME AnswersInv, NEW t \in Callers, Restat(t)
  PROVE  AnswersInv'
<1>1. /\ CallersOK /\ DiskOK /\ ~raced
      /\ \A h \in Held : KeyOK(h[1]) /\ Explained(h[1], h[2])
      /\ \A h \in Heard : Explained(KeyNow(h[1]), h[2])
  BY DEF Restat, AnswersInv
<1>2. /\ UNCHANGED <<disk, dirTime, stamps, doubt, second, dynamic, cache, call, answer>>
      /\ tpc[t] = "returned"
      /\ key' = [key EXCEPT ![t] = KeyNow(call[t])]
      /\ tpc' = [tpc EXCEPT ![t] = "putting"]
  BY DEF Restat, fileVars, cacheVars, TGoto
<1>3. /\ DOMAIN tpc' = Callers /\ DOMAIN key' = Callers
      /\ tpc'[t] = "putting" /\ key'[t] = KeyNow(call[t])
      /\ \A u \in Callers \ {t} : tpc'[u] = tpc[u] /\ key'[u] = key[u]
  BY <1>1, <1>2 DEF CallersOK
<1>4. CallersOK' /\ DiskOK'
  BY <1>1, <1>2, <1>3 DEF CallersOK, DiskOK
<1>5. Held' \subseteq Held \cup {<<KeyNow(call[t]), answer[t]>>}
  BY <1>2, <1>3 DEF Held
<1>6. Heard' \subseteq Heard
  BY <1>2, <1>3 DEF Heard
<1>7. call[t] \in Calls /\ call[t].tool \in Idempotent /\ <<call[t], answer[t]>> \in Heard
  BY <1>1, <1>2 DEF CallersOK, Heard
<1>8. KeyOK(KeyNow(call[t])) /\ Explained(KeyNow(call[t]), answer[t])
  BY <1>1, <1>7, KeyNowOK
<1>9. \A h \in Held' : KeyOK(h[1]) /\ Explained(h[1], h[2])
  BY <1>1, <1>5, <1>8
<1>10. \A h \in Held' : (KeyOK(h[1]) /\ Explained(h[1], h[2]))'
  BY <1>2, <1>9, SameAnswers
<1>11. \A h \in Heard' : Explained(KeyNow(h[1]), h[2])'
  BY <1>1, <1>2, <1>6, SameAnswers
<1>12. QED
  BY <1>4, <1>10, <1>11 DEF AnswersInv

LEMMA PutKeepsAnswers ==
  ASSUME AnswersInv, NEW t \in Callers, CachePut(t)
  PROVE  AnswersInv'
<1>1. CallersOK /\ ~raced /\ tpc[t] = "putting" /\ InvokeReturns(t) /\ ToolCachePut(key[t], answer[t])
      /\ UNCHANGED <<fileVars, second, dynamic>>
  BY DEF CachePut, AnswersInv
<1>2. PICK out : cache' = Cached(key[t], answer[t], out)
  BY <1>1 DEF ToolCachePut
<1>3. CallersOK' /\ Heard' \subseteq Heard
  BY <1>1, ReturnForgets
<1>4. <<key[t], answer[t]>> \in Held
  BY <1>1 DEF Held
<1>5. \A k \in DOMAIN cache' : <<k, cache'[k]>> \in Held
  BY <1>2, <1>4 DEF Cached, Held
<1>6. \A u \in Callers : tpc'[u] = "putting" => tpc[u] = "putting" /\ key'[u] = key[u] /\ answer'[u] = answer[u]
  BY <1>1 DEF InvokeReturns, TGoto, CallersOK
<1>7. Held' \subseteq Held
  BY <1>5, <1>6 DEF Held
<1>8. \E ss : FileStep(ss)
  BY <1>1, NoStep DEF AnswersInv
<1>9. QED
  BY <1>1, <1>3, <1>7, <1>8, FilesChange

LEMMA TickKeeps ==
  ASSUME AnswersInv, Tick
  PROVE  AnswersInv'
<1>1. /\ CallersOK /\ DiskOK /\ ~raced
      /\ \A h \in Held : KeyOK(h[1]) /\ Explained(h[1], h[2])
      /\ \A h \in Heard : Explained(KeyNow(h[1]), h[2])
  BY DEF Tick, AnswersInv
<1>2. /\ UNCHANGED <<disk, dirTime, stamps, doubt, dynamic, cache, tpc, call, key, answer>>
      /\ second' = second + 1
  BY DEF Tick, fileVars, cacheVars, invokeVars
<1>3. CallersOK' /\ DiskOK'
  BY <1>1, <1>2 DEF CallersOK, DiskOK
<1>4. Held' = Held /\ Heard' = Heard
  BY <1>2 DEF Held, Heard
<1>5. \A i : GetMtime(i)' = GetMtime(i)
  BY <1>2 DEF GetMtime
<1>6. ASSUME NEW c \in Calls, c.tool \in Idempotent, c.input.exact, NEW a, Fits(c, a)
      PROVE  Fits(c, a)'
  BY <1>2, <1>6, TimedCalls DEF Fits, Throws, Exists, Observed, Contents, Stat, Listing
<1>7. ASSUME NEW k, NEW a, KeyOK(k), Explained(k, a)
      PROVE  KeyOK(k)' /\ Explained(k, a)'
  <2>1. KeyOK(k)'
    BY <1>1, <1>2, <1>7 DEF KeyOK, DiskOK
  <2>2. CASE k.mtime # 0 /\ Fits(CallOf(k), a)
    BY <1>6, <1>7, <2>1, <2>2 DEF KeyOK, Explained, CallOf
  <2>3. CASE ~(k.mtime # 0 /\ Fits(CallOf(k), a))
    BY <1>2, <1>5, <1>7, <2>1, <2>3 DEF Explained, CallOf
  <2>4. QED
    BY <2>2, <2>3
<1>8. ASSUME NEW c \in Calls, c.tool \in Idempotent, NEW a, Explained(KeyNow(c), a)
      PROVE  Explained(KeyNow(c), a)'
  <2>1. KeyNow(c)' = KeyNow(c)
    BY <1>5 DEF KeyNow
  <2>2. KeyOK(KeyNow(c))
    BY <1>1, <1>8, KeyNowOK
  <2>3. PICK k : k = KeyNow(c)
    OBVIOUS
  <2>4. Explained(k, a)'
    BY <1>7, <1>8, <2>2, <2>3
  <2>5. QED
    BY <2>1, <2>3, <2>4 DEF Explained
<1>9. \A h \in Heard : h[1] \in Calls /\ h[1].tool \in Idempotent
  BY <1>1 DEF Heard, CallersOK
<1>10. \A h \in Held' : (KeyOK(h[1]) /\ Explained(h[1], h[2]))'
  BY <1>1, <1>4, <1>7
<1>11. \A h \in Heard' : Explained(KeyNow(h[1]), h[2])'
  BY <1>1, <1>4, <1>8, <1>9
<1>12. QED
  BY <1>3, <1>10, <1>11 DEF AnswersInv

\* invoke() leaves, whatever it does to the files.
LEMMA ReturnKeeps ==
  ASSUME AnswersInv, ~raced, NEW t \in Callers, InvokeReturns(t),
         cache' = cache, second' = second, \E ss : FileStep(ss)
  PROVE  AnswersInv'
<1>1. CallersOK
  BY DEF AnswersInv
<1>2. CallersOK' /\ Heard' \subseteq Heard /\ Held' \subseteq Held
  BY <1>1, ReturnForgets
<1>3. QED
  BY <1>2, FilesChange

LEMMA TruncateKeeps ==
  ASSUME AnswersInv, NEW t \in Callers, Truncate(t)
  PROVE  AnswersInv'
<1>1. CallersOK /\ DiskOK /\ ~raced /\ UNCHANGED <<second, cache, call, key, answer>>
  BY DEF Truncate, AnswersInv, cacheVars
<1>2. TGoto(t, "opened") /\ tpc[t] = "run" /\ call[t].tool = "write_file" /\ Modify(call[t].input.path, 0)
  BY DEF Truncate
<1>3. call[t] \in Calls /\ call[t].input.path \in Files
  BY <1>1, <1>2, WritingCalls DEF CallersOK
<1>4. tpc' = [tpc EXCEPT ![t] = "opened"]
  BY <1>2 DEF TGoto
<1>5. /\ DOMAIN tpc' = Callers /\ tpc'[t] = "opened"
      /\ \A u \in Callers \ {t} : tpc'[u] = tpc[u]
  BY <1>1, <1>4 DEF CallersOK
<1>6. CallersOK'
  BY <1>1, <1>2, <1>5 DEF CallersOK
<1>7. Heard' \subseteq Heard /\ Held' \subseteq Held
  BY <1>1, <1>5 DEF Heard, Held
<1>8. \E ss : FileStep(ss)
  BY <1>1, <1>2, <1>3, ModifyStep
<1>9. QED
  BY <1>1, <1>6, <1>7, <1>8, FilesChange

LEMMA WriteKeeps ==
  ASSUME AnswersInv, NEW t \in Callers, Write(t)
  PROVE  AnswersInv'
<1>1. CallersOK /\ DiskOK /\ ~raced /\ InvokeReturns(t) /\ UNCHANGED <<second, cache>>
      /\ tpc[t] = "opened"
  BY DEF Write, AnswersInv, cacheVars
<1>2. call[t].input.path \in Files
  BY <1>1, WritingCalls DEF CallersOK
<1>3. UNCHANGED fileVars \/ Modify(call[t].input.path, writes + 1)
  BY DEF Write
<1>4. \E ss : FileStep(ss)
  BY <1>1, <1>2, <1>3, NoStep, ModifyStep
<1>5. QED
  BY <1>1, <1>4, ReturnKeeps

LEMMA DeleteKeeps ==
  ASSUME AnswersInv, NEW t \in Callers, DeleteFile(t)
  PROVE  AnswersInv'
<1>1. CallersOK /\ DiskOK /\ ~raced /\ InvokeReturns(t) /\ UNCHANGED <<second, cache>>
      /\ tpc[t] = "run" /\ call[t].tool = "delete_file"
  BY DEF DeleteFile, AnswersInv, cacheVars
<1>2. call[t].input.path \in Files
  BY <1>1, WritingCalls DEF CallersOK
<1>3. UNCHANGED fileVars \/ RemoveFile(call[t].input.path)
  BY DEF DeleteFile
<1>4. \E ss : FileStep(ss)
  BY <1>1, <1>2, <1>3, NoStep, RemoveStep
<1>5. QED
  BY <1>1, <1>4, ReturnKeeps

LEMMA CommandKeeps ==
  ASSUME AnswersInv, NEW t \in Callers, RunCommand(t)
  PROVE  AnswersInv'
<1>1. CallersOK /\ DiskOK /\ ~raced /\ UNCHANGED <<second, cache>>
  BY DEF RunCommand, AnswersInv, cacheVars
<1>2. CASE UNCHANGED fileVars /\ InvokeReturns(t)
  BY <1>1, <1>2, NoStep, ReturnKeeps
<1>3. CASE ShellStep /\ UNCHANGED invokeVars
  <2>1. CallersOK' /\ Held' = Held /\ Heard' = Heard
    BY <1>1, <1>3 DEF invokeVars, CallersOK, Held, Heard
  <2>2. \E ss : FileStep(ss)
    BY <1>1, <1>3, ShellSteps
  <2>3. QED
    BY <1>1, <2>1, <2>2, FilesChange
<1>4. QED
  BY <1>2, <1>3 DEF RunCommand

LEMMA CreateKeeps ==
  ASSUME AnswersInv, NEW t \in Callers, CreateTool(t)
  PROVE  AnswersInv'
<1>1. /\ CallersOK /\ DiskOK /\ ~raced
      /\ \A h \in Held : KeyOK(h[1]) /\ Explained(h[1], h[2])
      /\ \A h \in Heard : Explained(KeyNow(h[1]), h[2])
  BY DEF CreateTool, AnswersInv
<1>2. InvokeReturns(t) /\ UNCHANGED <<disk, dirTime, stamps, doubt, second, dynamic, cache>>
  BY DEF CreateTool, cacheVars
<1>3. CallersOK' /\ Heard' \subseteq Heard /\ Held' \subseteq Held
  BY <1>1, <1>2, ReturnForgets
<1>4. DiskOK'
  BY <1>1, <1>2 DEF DiskOK
<1>5. \A h \in Held' : (KeyOK(h[1]) /\ Explained(h[1], h[2]))'
  BY <1>1, <1>2, <1>3, SameAnswers
<1>6. \A h \in Heard' : Explained(KeyNow(h[1]), h[2])'
  BY <1>1, <1>2, <1>3, SameAnswers
<1>7. QED
  BY <1>3, <1>4, <1>5, <1>6 DEF AnswersInv

LEMMA RestartKeeps ==
  ASSUME AnswersInv, Restart
  PROVE  AnswersInv'
<1>1. /\ cache' = << >> /\ UNCHANGED <<disk, dirTime, second>> /\ stamps' = Stamps
      /\ tpc' = [t \in Callers |-> "idle"] /\ key' = [t \in Callers |-> NoKey]
      /\ answer' = [t \in Callers |-> NoAnswer] /\ call' = [t \in Callers |-> NoCall]
  BY DEF Restart
<1>2. DiskOK'
  BY <1>1 DEF AnswersInv, DiskOK, Stamps, Exists
<1>3. CallersOK'
  BY <1>1 DEF CallersOK
<1>4. Held' = {} /\ Heard' = {}
  <2>1. DOMAIN cache' = {}
    BY <1>1
  <2>2. \A t \in Callers : tpc'[t] = "idle"
    BY <1>1
  <2>3. QED
    BY <2>1, <2>2 DEF Held, Heard
<1>5. QED
  BY <1>2, <1>3, <1>4 DEF AnswersInv

LEMMA AnswersInit == ToInit => AnswersInv
<1> SUFFICES ASSUME ToInit PROVE AnswersInv
  OBVIOUS
<1>1. /\ disk \in [Files -> {[content |-> 0, time |-> 0], [content |-> 0, time |-> 1]}]
      /\ dirTime = 1 /\ second = 1 /\ stamps = Stamps /\ cache = << >>
      /\ tpc = [t \in Callers |-> "idle"] /\ call = [t \in Callers |-> NoCall]
      /\ key = [t \in Callers |-> NoKey] /\ answer = [t \in Callers |-> NoAnswer]
  BY DEF ToInit
<1>2. DiskOK
  <2>1. \A f \in Files : disk[f].time = 0 \/ disk[f].time = 1
    BY <1>1
  <2>2. QED
    BY <1>1, <2>1 DEF DiskOK, Stamps, Exists
<1>3. CallersOK
  BY <1>1 DEF CallersOK
<1>4. Held = {} /\ Heard = {}
  <2>1. DOMAIN cache = {}
    BY <1>1
  <2>2. \A t \in Callers : tpc[t] = "idle"
    BY <1>1
  <2>3. QED
    BY <2>1, <2>2 DEF Held, Heard
<1>5. QED
  BY <1>2, <1>3, <1>4 DEF AnswersInv

LEMMA AnswersNext == AnswersInv /\ [ToNext]_toolsVars => AnswersInv'
<1> SUFFICES ASSUME AnswersInv, [ToNext]_toolsVars PROVE AnswersInv'
  OBVIOUS
<1>1. ASSUME NEW t \in Callers, Begin(t) PROVE AnswersInv'
  BY <1>1, BeginKeeps
<1>2. ASSUME NEW t \in Callers, CacheHit(t) PROVE AnswersInv'
  BY <1>2, NoStep, ReturnKeeps DEF CacheHit, AnswersInv
<1>3. ASSUME NEW t \in Callers, CacheMiss(t) PROVE AnswersInv'
  BY <1>3, MissKeeps
<1>4. ASSUME NEW t \in Callers, ToolThrows(t) PROVE AnswersInv'
  BY <1>4, NoStep, ReturnKeeps DEF ToolThrows, cacheVars, AnswersInv
<1>5. ASSUME NEW t \in Callers, Observe(t) PROVE AnswersInv'
  BY <1>5, ObserveKeeps
<1>6. ASSUME NEW t \in Callers, Restat(t) PROVE AnswersInv'
  BY <1>6, RestatKeeps
<1>7. ASSUME NEW t \in Callers, CachePut(t) PROVE AnswersInv'
  BY <1>7, PutKeepsAnswers
<1>8. ASSUME NEW t \in Callers, Truncate(t) PROVE AnswersInv'
  BY <1>8, TruncateKeeps
<1>9. ASSUME NEW t \in Callers, Write(t) PROVE AnswersInv'
  BY <1>9, WriteKeeps
<1>10. ASSUME NEW t \in Callers, DeleteFile(t) PROVE AnswersInv'
  BY <1>10, DeleteKeeps
<1>11. ASSUME NEW t \in Callers, RunCommand(t) PROVE AnswersInv'
  BY <1>11, CommandKeeps
<1>12. ASSUME NEW t \in Callers, CreateTool(t) PROVE AnswersInv'
  BY <1>12, CreateKeeps
<1>13. CASE Tick
  BY <1>13, TickKeeps
<1>14. CASE Restart
  BY <1>14, RestartKeeps
<1>15. CASE UNCHANGED toolsVars
  <2>1. UNCHANGED <<disk, dirTime, stamps, doubt, second, dynamic, cache, raced, tpc, call, key, answer>>
    BY <1>15 DEF toolsVars, fileVars, cacheVars, invokeVars
  <2>2. DiskOK' /\ CallersOK' /\ Held' = Held /\ Heard' = Heard
    BY <2>1 DEF AnswersInv, DiskOK, CallersOK, Held, Heard
  <2>3. \A h \in Held : KeyOK(h[1])' /\ Explained(h[1], h[2])' <=> KeyOK(h[1]) /\ Explained(h[1], h[2])
    BY <2>1, SameAnswers
  <2>4. \A h \in Heard : Explained(KeyNow(h[1]), h[2])' <=> Explained(KeyNow(h[1]), h[2])
    BY <2>1, SameAnswers
  <2>5. QED
    BY <2>1, <2>2, <2>3, <2>4 DEF AnswersInv
<1>16. QED
  BY <1>1, <1>2, <1>3, <1>4, <1>5, <1>6, <1>7, <1>8, <1>9, <1>10, <1>11, <1>12, <1>13, <1>14, <1>15
     DEF ToNext, Invoke

\* Whatever is called, written, moved, touched or removed by any number of threads
\* over any number of files, steps of a shell and seconds, an answer that a get of
\* the cache would find is the tool's own, unless its key's time says nothing, or
\* the path was given that time again or between the tool's return and the stat.
THEOREM StaleIsExplained == ToSpec => []StaleForKnownReasons
<1>1. AnswersInv => StaleForKnownReasons
  <2> SUFFICES ASSUME AnswersInv, ~raced, NEW k \in DOMAIN cache PROVE Explained(k, cache[k])
    BY DEF StaleForKnownReasons
  <2> DEFINE h == <<k, cache[k]>>
  <2>1. h \in Held /\ h[1] = k /\ h[2] = cache[k]
    BY DEF Held
  <2> HIDE DEF h
  <2>2. Explained(h[1], h[2])
    BY <2>1 DEF AnswersInv
  <2>3. QED
    BY <2>1, <2>2
<1>2. QED
  BY <1>1, AnswersInit, AnswersNext, PTL DEF ToSpec

-----------------------------------------------------------------------------
(* The experiences.                                                         *)

\* No document is counted twice and none that is held is uncounted.
IndexInv ==
    /\ IsFiniteSet(docs) /\ df \in [Terms -> Nat]
    /\ DfCoversDocs

Line == Nat \X Nat
Outcome == [id : Nat, lines : Nat]

LearningTypeOK ==
    /\ records \in Nat
    /\ entries \in [ExpKeys -> Seq(Line)]
    /\ log \in [ExpKeys -> Seq(Outcome)]
    /\ DOMAIN learner = Learners
    /\ \A t \in Learners : learner[t].at \in {"get", "set"} =>
          learner[t].key \in ExpKeys /\ learner[t].id \in Nat /\ learner[t].lines \in Nat
    /\ \A t \in Learners : learner[t].at = "set" => learner[t].existing \in Seq(Line)

\* The lines of outcome o are in e from position p on, those that would come
\* before the first position excepted.
LiesAt(e, o, p) == \A n \in 1..o.lines : p + n > 0 => e[p + n] = <<o.id, n>>

\* The newest outcome is the end of the entry, and the one before it lies
\* before that, but for one line if it had three or more.
EndsWith(e, l) ==
    LET p == Len(e) - l[Len(l)].lines
        q == p - l[Len(l) - 1].lines
    IN  /\ Len(l) > 0 => p >= 0 /\ LiesAt(e, l[Len(l)], p)
        /\ Len(l) > 1 => /\ q >= (IF l[Len(l) - 1].lines > 2 THEN -1 ELSE 0)
                         /\ LiesAt(e, l[Len(l) - 1], q)

TailsInv == \A k \in ExpKeys \ lost : EndsWith(entries[k], log[k])

-----------------------------------------------------------------------------
(* The index.                                                               *)

LEMMA IndexInit == LrInit => IndexInv
<1> SUFFICES ASSUME LrInit PROVE IndexInv
  OBVIOUS
<1>1. docs = {} /\ df = [x \in Terms |-> 0]
  BY DEF LrInit
<1>2. \A x \in Terms : {d \in docs : x \in d.terms} = {}
  BY <1>1
<1>3. QED
  BY <1>1, <1>2, FS_EmptySet DEF IndexInv, DfCoversDocs

LEMMA UpsertKeepsIndex ==
  ASSUME IndexInv, NEW k, NEW terms, Upsert(k, terms)
  PROVE  IndexInv'
<1> DEFINE new == [key |-> k, terms |-> terms]
<1>1. docs' \subseteq docs \cup {new} /\ (terms = {} => docs' \subseteq docs)
  BY DEF Upsert, Reindexed
<1>2. IsFiniteSet(docs')
  BY <1>1, FS_AddElement, FS_Subset DEF IndexInv
<1>3. df' \in [Terms -> Nat]
  BY DEF Upsert, IndexInv
<1>4. ASSUME NEW x \in Terms
      PROVE  df'[x] >= Cardinality({d \in docs' : x \in d.terms})
  <2> DEFINE S == {d \in docs : x \in d.terms}
             T == {d \in docs' : x \in d.terms}
  <2>1. IsFiniteSet(S) /\ df[x] >= Cardinality(S) /\ df[x] \in Nat
    BY FS_Subset DEF IndexInv, DfCoversDocs
  <2>2. Cardinality(S) \in Nat
    BY <2>1, FS_CardinalityType
  <2>3. IsFiniteSet(T) /\ Cardinality(T) \in Nat
    BY <1>2, FS_Subset, FS_CardinalityType
  <2>4. CASE x \in terms
    <3>1. T \subseteq S \cup {new}
      BY <1>1
    <3> HIDE DEF S, T, new
    <3>2. /\ IsFiniteSet(S \cup {new}) /\ Cardinality(S \cup {new}) \in Nat
          /\ Cardinality(S \cup {new}) <= Cardinality(S) + 1
      <4>1. IsFiniteSet(S \cup {new})
        BY <2>1, FS_AddElement
      <4>2. Cardinality(S \cup {new}) = IF new \in S THEN Cardinality(S) ELSE Cardinality(S) + 1
        BY <2>1, FS_AddElement
      <4>3. QED
        BY <2>2, <4>1, <4>2, FS_CardinalityType
    <3>3. Cardinality(T) <= Cardinality(S \cup {new})
      BY <3>1, <3>2, FS_Subset
    <3>4. df'[x] = df[x] + 1
      BY <2>4 DEF Upsert, IndexInv
    <3>5. df'[x] >= Cardinality(T)
      BY <2>1, <2>2, <2>3, <3>2, <3>3, <3>4
    <3>6. QED
      BY <3>5 DEF T
  <2>5. CASE x \notin terms
    <3>1. T \subseteq S
      BY <1>1, <2>5
    <3>2. Cardinality(T) <= Cardinality(S)
      BY <2>1, <3>1, FS_Subset
    <3>3. df'[x] = df[x]
      BY <2>1, <2>5 DEF Upsert
    <3>4. QED
      BY <2>1, <2>2, <2>3, <3>2, <3>3
  <2>6. QED
    BY <2>4, <2>5
<1>5. QED
  BY <1>2, <1>3, <1>4 DEF IndexInv, DfCoversDocs

LEMMA IndexNext == IndexInv /\ [LrNext]_learningVars => IndexInv'
<1> SUFFICES ASSUME IndexInv, [LrNext]_learningVars PROVE IndexInv'
  OBVIOUS
<1>1. ASSUME NEW t \in Learners, RecordOutcome(t)
      PROVE  IndexInv'
  BY <1>1, UpsertKeepsIndex DEF RecordOutcome
<1>2. CASE UNCHANGED <<docs, df>>
  BY <1>2 DEF IndexInv, DfCoversDocs
<1>3. QED
  BY <1>1, <1>2 DEF LrNext, Get, Set, learningVars

\* However often Learners record, the index counts each term at least as often
\* as documents have it: no idf is of a term it has forgotten.
THEOREM CountsCoverDocs == LrSpec => []DfCoversDocs
<1>1. IndexInv => DfCoversDocs
  BY DEF IndexInv
<1>2. QED
  BY <1>1, IndexInit, IndexNext, PTL DEF LrSpec

-----------------------------------------------------------------------------
(* The entries.                                                             *)

LEMMA LinesOfProperties ==
  ASSUME NEW id \in Nat, NEW n \in Nat
  PROVE  /\ LinesOf(id, n) \in Seq(Line) /\ Len(LinesOf(id, n)) = n
         /\ \A i \in 1..n : LinesOf(id, n)[i] = <<id, i>>
<1>1. \A i \in 1..n : <<id, i>> \in Line
  BY DEF Line
<1>2. QED
  BY <1>1, IsASeq DEF LinesOf

\* g is e followed by f, less d lines at the start of e.
Joined(e, f, g, d) ==
    /\ d = 1 => Len(e) > 2
    /\ Len(g) = Len(e) - d + Len(f)
    /\ \A i \in 1..Len(e) - d : g[i] = e[i + d]
    /\ \A i \in 1..Len(f) : g[Len(e) - d + i] = f[i]

\* What is appended to keeps its lines in place, counted from their end, but
\* one when there were three.
LEMMA AppendedProperties ==
  ASSUME NEW S, NEW e \in Seq(S), NEW f \in Seq(S)
  PROVE  /\ Appended(e, f) \in Seq(S)
         /\ \E d \in {0, 1} : Joined(e, f, Appended(e, f), d)
<1>0. Len(e) \in Nat /\ Len(f) \in Nat
  OBVIOUS
<1>1. CASE Len(e) + 1 > 3
  <2>1. Tail(e) \in Seq(S) /\ Len(Tail(e)) = Len(e) - 1 /\ \A i \in 1..Len(e) - 1 : Tail(e)[i] = e[i + 1]
    BY <1>1, HeadTailProperties, EmptySeq
  <2>2. Appended(e, f) = Tail(e) \o f
    BY <1>1 DEF Appended
  <2>3. /\ Appended(e, f) \in Seq(S)
        /\ Len(Appended(e, f)) = Len(e) - 1 + Len(f)
        /\ \A i \in 1..Len(e) - 1 : Appended(e, f)[i] = e[i + 1]
        /\ \A i \in 1..Len(f) : Appended(e, f)[Len(e) - 1 + i] = f[i]
    BY <1>0, <1>1, <2>1, <2>2, ConcatProperties
  <2>4. QED
    BY <1>0, <1>1, <2>3 DEF Joined
<1>2. CASE ~(Len(e) + 1 > 3)
  <2>1. Appended(e, f) = e \o f
    BY <1>2 DEF Appended
  <2>2. /\ Appended(e, f) \in Seq(S)
        /\ Len(Appended(e, f)) = Len(e) - 0 + Len(f)
        /\ \A i \in 1..Len(e) - 0 : Appended(e, f)[i] = e[i + 0]
        /\ \A i \in 1..Len(f) : Appended(e, f)[Len(e) - 0 + i] = f[i]
    BY <1>0, <2>1, ConcatProperties
  <2>3. QED
    BY <1>0, <2>2 DEF Joined
<1>3. QED
  BY <1>1, <1>2

LEMMA TailsInit == LrInit => LearningTypeOK /\ TailsInv
  BY DEF LrInit, LearningTypeOK, TailsInv, EndsWith, Resting

LEMMA LearningTypeNext == LearningTypeOK /\ [LrNext]_learningVars => LearningTypeOK'
<1> SUFFICES ASSUME LearningTypeOK, [LrNext]_learningVars PROVE LearningTypeOK'
  OBVIOUS
<1>1. ASSUME NEW t \in Learners, RecordOutcome(t)
      PROVE  LearningTypeOK'
  <2>1. PICK k \in ExpKeys, n \in 1..MaxLines : learner' = [learner EXCEPT ![t] =
                          [at |-> "get", key |-> k, id |-> records + 1, lines |-> n]]
    BY <1>1 DEF RecordOutcome
  <2>2. records' = records + 1 /\ UNCHANGED <<entries, log>>
    BY <1>1 DEF RecordOutcome
  <2>3. n \in Nat
    BY <2>1, LearningAssumption
  <2>4. QED
    BY <2>1, <2>2, <2>3 DEF LearningTypeOK
<1>2. ASSUME NEW t \in Learners, Get(t)
      PROVE  LearningTypeOK'
  <2>1. entries[learner[t].key] \in Seq(Line)
    BY <1>2 DEF Get, LearningTypeOK
  <2>2. learner' = [learner EXCEPT ![t] = [at |-> "set", existing |-> entries[learner[t].key],
                      key |-> learner[t].key, id |-> learner[t].id, lines |-> learner[t].lines]]
    BY <1>2 DEF Get, LearningTypeOK
  <2>3. UNCHANGED <<entries, log, records>> /\ learner[t].at = "get"
    BY <1>2 DEF Get
  <2>4. QED
    BY <2>1, <2>2, <2>3 DEF LearningTypeOK
<1>3. ASSUME NEW t \in Learners, Set(t)
      PROVE  LearningTypeOK'
  <2> DEFINE r == learner[t]
  <2>1. r.key \in ExpKeys /\ r.id \in Nat /\ r.lines \in Nat /\ r.existing \in Seq(Line)
    BY <1>3 DEF Set, LearningTypeOK
  <2>2. Appended(r.existing, LinesOf(r.id, r.lines)) \in Seq(Line)
    BY <2>1, LinesOfProperties, AppendedProperties
  <2>3. [id |-> r.id, lines |-> r.lines] \in Outcome
    BY <2>1 DEF Outcome
  <2>4. Append(log[r.key], [id |-> r.id, lines |-> r.lines]) \in Seq(Outcome)
    BY <2>1, <2>3, AppendProperties DEF LearningTypeOK
  <2>5. /\ entries' = [entries EXCEPT ![r.key] = Appended(r.existing, LinesOf(r.id, r.lines))]
        /\ log' = [log EXCEPT ![r.key] = Append(log[r.key], [id |-> r.id, lines |-> r.lines])]
        /\ learner' = [learner EXCEPT ![t] = Resting] /\ records' = records
    BY <1>3, <2>1 DEF Set, LearningTypeOK
  <2>6. QED
    BY <2>1, <2>2, <2>4, <2>5 DEF LearningTypeOK, Resting
<1>4. CASE UNCHANGED learningVars
  BY <1>4 DEF learningVars, LearningTypeOK
<1>5. QED
  BY <1>1, <1>2, <1>3, <1>4 DEF LrNext

LEMMA AppendKeepsTails ==
  ASSUME NEW e \in Seq(Line), NEW l \in Seq(Outcome), NEW o \in Outcome, EndsWith(e, l)
  PROVE  EndsWith(Appended(e, LinesOf(o.id, o.lines)), Append(l, o))
<1> DEFINE e2 == Appended(e, LinesOf(o.id, o.lines))
           l2 == Append(l, o)
<1>1. o.id \in Nat /\ o.lines \in Nat /\ Len(e) \in Nat /\ Len(l) \in Nat
  BY DEF Outcome
<1>2. /\ LinesOf(o.id, o.lines) \in Seq(Line) /\ Len(LinesOf(o.id, o.lines)) = o.lines
      /\ \A i \in 1..o.lines : LinesOf(o.id, o.lines)[i] = <<o.id, i>>
  BY <1>1, LinesOfProperties
<1>a. PICK d \in {0, 1} : Joined(e, LinesOf(o.id, o.lines), e2, d)
  BY <1>2, AppendedProperties
<1>3. /\ d = 1 => Len(e) > 2
      /\ Len(e2) = Len(e) - d + o.lines
      /\ \A i \in 1..Len(e) - d : e2[i] = e[i + d]
      /\ \A i \in 1..o.lines : e2[Len(e) - d + i] = <<o.id, i>>
  BY <1>2, <1>a DEF Joined
<1>4. Len(l2) = Len(l) + 1 /\ l2[Len(l2)] = o /\ (Len(l) > 0 => l2[Len(l2) - 1] = l[Len(l)])
  BY <1>1, AppendProperties
<1> HIDE DEF e2, l2
<1>5. Len(e2) - o.lines = Len(e) - d /\ Len(e) - d >= 0 /\ LiesAt(e2, o, Len(e) - d)
  BY <1>1, <1>3 DEF LiesAt
<1>6. ASSUME Len(l) > 0
      PROVE  LET b == l[Len(l)]
                 q == Len(e) - d - b.lines
             IN  q >= (IF b.lines > 2 THEN -1 ELSE 0) /\ LiesAt(e2, b, q)
  <2> DEFINE b == l[Len(l)]
             q == Len(e) - d - b.lines
  <2>1. b \in Outcome
    BY <1>6
  <2>2. b.lines \in Nat /\ b.id \in Nat
    BY <2>1 DEF Outcome
  <2>3. Len(e) - b.lines >= 0 /\ LiesAt(e, b, Len(e) - b.lines)
    BY <1>6 DEF EndsWith
  <2>4. q >= (IF b.lines > 2 THEN -1 ELSE 0)
    BY <1>1, <1>3, <2>2, <2>3
  <2>5. ASSUME NEW n \in 1..b.lines, q + n > 0
        PROVE  e2[q + n] = <<b.id, n>>
    <3>1. q + n \in 1..Len(e) - d
      BY <1>1, <2>2, <2>5
    <3>2. e2[q + n] = e[q + n + d]
      BY <1>3, <3>1
    <3>3. q + n + d = Len(e) - b.lines + n /\ Len(e) - b.lines + n > 0
      <4>1. d \in Nat /\ n \in Nat
        BY <1>a, <2>2
      <4>2. QED
        BY <1>1, <2>2, <2>5, <4>1
    <3>4. QED
      BY <2>3, <3>2, <3>3 DEF LiesAt
  <2>6. QED
    BY <2>4, <2>5 DEF LiesAt
<1>7. EndsWith(e2, l2)
  BY <1>1, <1>4, <1>5, <1>6 DEF EndsWith
<1>8. QED
  BY <1>7 DEF e2, l2

LEMMA InPlace ==
  ASSUME NEW a \in Nat, NEW b \in Nat, NEW c \in Nat, NEW n \in 1..b, NEW p,
         p = a - c - b, p >= -1, n = 1 => p >= 0
  PROVE  p + n > 0 /\ p + n \in 1..a
  OBVIOUS

LEMMA TailsNext == LearningTypeOK /\ TailsInv /\ [LrNext]_learningVars => TailsInv'
<1> SUFFICES ASSUME LearningTypeOK, TailsInv, [LrNext]_learningVars PROVE TailsInv'
  OBVIOUS
<1>1. CASE UNCHANGED <<entries, log, lost>>
  BY <1>1 DEF TailsInv
<1>2. ASSUME NEW t \in Learners, Set(t)
      PROVE  TailsInv'
  <2> DEFINE r == learner[t]
             o == [id |-> r.id, lines |-> r.lines]
  <2>1. r.key \in ExpKeys /\ r.id \in Nat /\ r.lines \in Nat
    BY <1>2 DEF Set, LearningTypeOK
  <2>2. /\ entries' = [entries EXCEPT ![r.key] = Appended(r.existing, LinesOf(r.id, r.lines))]
        /\ log' = [log EXCEPT ![r.key] = Append(log[r.key], o)]
        /\ lost' = IF entries[r.key] = r.existing THEN lost ELSE lost \cup {r.key}
    BY <1>2, <2>1 DEF Set, LearningTypeOK
  <2>3. ASSUME NEW k \in ExpKeys \ lost', k # r.key
        PROVE  EndsWith(entries'[k], log'[k])
    <3>1. entries'[k] = entries[k] /\ log'[k] = log[k] /\ k \notin lost
      BY <2>2, <2>3 DEF LearningTypeOK
    <3>2. QED
      BY <3>1 DEF TailsInv
  <2>4. CASE r.key \notin lost'
    <3>1. r.key \notin lost /\ r.existing = entries[r.key]
      BY <2>2, <2>4
    <3>2. o \in Outcome /\ entries[r.key] \in Seq(Line) /\ log[r.key] \in Seq(Outcome)
      BY <2>1 DEF Outcome, LearningTypeOK
    <3>3. EndsWith(Appended(entries[r.key], LinesOf(o.id, o.lines)), Append(log[r.key], o))
      BY <2>1, <3>1, <3>2, AppendKeepsTails DEF TailsInv
    <3>4. entries'[r.key] = Appended(entries[r.key], LinesOf(o.id, o.lines)) /\ log'[r.key] = Append(log[r.key], o)
      BY <2>1, <2>2, <3>1 DEF LearningTypeOK
    <3>5. EndsWith(entries'[r.key], log'[r.key])
      BY <3>3, <3>4
    <3>6. QED
      BY <2>3, <3>5 DEF TailsInv
  <2>5. QED
    BY <2>3, <2>4 DEF TailsInv
<1>3. QED
  BY <1>1, <1>2 DEF LrNext, RecordOutcome, Get, learningVars

LEMMA NotTheLast == ASSUME NEW n \in Nat, NEW i, i = n - 1 PROVE i # n
  OBVIOUS

\* Unless two Learners wrote an entry at once, truncation takes the oldest lines:
\* the newest outcome is whole and of the one before at most a line is gone,
\* for every number of lines of a summary.
THEOREM NewestAreKept == LrSpec => []NewestTwoKept
<1>1. ASSUME LearningTypeOK, TailsInv PROVE NewestTwoKept
  <2> SUFFICES ASSUME NEW k \in ExpKeys \ lost, NEW i \in DOMAIN log[k], i + 2 > Len(log[k]),
                      NEW n \in 1..log[k][i].lines,
                      ~(i + 1 = Len(log[k]) /\ n = 1 /\ log[k][i].lines > 2)
               PROVE  \E j \in DOMAIN entries[k] : entries[k][j] = <<log[k][i].id, n>>
    BY DEF NewestTwoKept
  <2> DEFINE e == entries[k]
             l == log[k]
  <2>1. e \in Seq(Line) /\ l \in Seq(Outcome) /\ EndsWith(e, l)
    BY <1>1 DEF LearningTypeOK, TailsInv
  <2> HIDE DEF e, l
  <2>2. Len(e) \in Nat /\ Len(l) \in Nat /\ DOMAIN e = 1..Len(e) /\ DOMAIN l = 1..Len(l)
    BY <2>1
  <2>3. i \in 1..Len(l) /\ (i = Len(l) \/ i = Len(l) - 1)
    BY <2>2 DEF l
  <2>4. l[i] \in Outcome /\ l[Len(l)] \in Outcome
    BY <2>1, <2>2, <2>3
  <2>5. l[i].lines \in Nat /\ l[Len(l)].lines \in Nat
    BY <2>4 DEF Outcome
  <2>6. n \in 1..l[i].lines /\ ~(i + 1 = Len(l) /\ n = 1 /\ l[i].lines > 2)
    BY DEF l
  <2> DEFINE b == l[i]
             m == b.lines
             c == IF i = Len(l) THEN 0 ELSE l[Len(l)].lines
             p == Len(e) - c - m
  <2>7. m \in Nat /\ c \in Nat /\ n \in 1..m
    BY <2>5, <2>6
  <2>8. p >= -1 /\ (n = 1 => p >= 0) /\ LiesAt(e, b, p)
    <3>1. CASE i = Len(l)
      <4>1. Len(e) - m >= 0 /\ LiesAt(e, b, Len(e) - m)
        BY <2>1, <2>2, <2>3, <3>1 DEF EndsWith
      <4>2. p = Len(e) - m
        BY <2>2, <2>7, <3>1
      <4>3. QED
        BY <2>2, <2>7, <4>1, <4>2
    <3>2. CASE i = Len(l) - 1
      <4>0. i # Len(l)
        BY <2>2, <3>2, NotTheLast
      <4>1. c = l[Len(l)].lines /\ l[Len(l) - 1] = b
        BY <3>2, <4>0, Zenon
      <4>a. Len(l) > 1
        BY <2>2, <2>3, <3>2
      <4>2. p >= (IF m > 2 THEN -1 ELSE 0) /\ LiesAt(e, b, p)
        <5> HIDE DEF c, b
        <5>1. QED
          BY <2>1, <4>1, <4>a DEF EndsWith
      <4>3. n = 1 => ~(m > 2)
        BY <2>6, <3>2, <2>2
      <4>4. QED
        BY <2>2, <2>7, <4>2, <4>3
    <3>3. QED
      BY <2>3, <3>1, <3>2
  <2>9. p + n > 0 /\ p + n \in 1..Len(e)
    <3> HIDE DEF m, c
    <3>1. QED
      BY <2>2, <2>7, <2>8, InPlace
  <2>10. e[p + n] = <<b.id, n>>
    BY <2>7, <2>8, <2>9 DEF LiesAt
  <2>11. QED
    BY <2>2, <2>9, <2>10 DEF e, l
<1>2. QED
  BY <1>1, TailsInit, TailsNext, LearningTypeNext, PTL DEF LrSpec
=============================================================================
