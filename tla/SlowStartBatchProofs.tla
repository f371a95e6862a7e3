------------------------ MODULE SlowStartBatchProofs ------------------------
(***************************************************************************)
(* SlowStartBatch is correct for every number of calls and every initial   *)
(* batch size.                                                             *)
(***************************************************************************)
EXTENDS SlowStartBatch, FiniteSetTheorems, TLAPS

\* The calls of the completed batches, the current batch, and the rest.
Completed == Count - remaining

Bookkeeping ==
    /\ index = Completed + i
    /\ i <= batchSize
    /\ batchSize <= remaining
    /\ pc = "launch" => i < batchSize
    /\ pc = "wait" => i = batchSize /\ batchSize > 0

CallsSoFar ==
    /\ \A n \in Indices : call[n] = "none" <=> n >= index
    /\ \A n \in Indices : n < Completed => call[n] = "ok"
    /\ Cardinality(Calls("err")) = errCh

Answer ==
    /\ pc # "done" => /\ ~failed
                      /\ successes = Completed
                      /\ batchSize <= IF successes = 0 THEN InitialBatchSize ELSE 2 * successes
    /\ pc = "done" => /\ Calls("running") = {}
                      /\ failed => errCh > 0 /\ i = batchSize
                                   /\ successes = Completed + (batchSize - errCh)
                      /\ ~failed => errCh = 0 /\ remaining = 0 /\ successes = Count

IInv == TypeOK /\ Bookkeeping /\ CallsSoFar /\ Answer

USE CountAssumption, InitialBatchSizeAssumption

\* The sets of calls are finite, and the failed and running ones belong to
\* the current batch.
LEMMA CallSets ==
    ASSUME TypeOK, Bookkeeping, CallsSoFar, NEW o
    PROVE  /\ IsFiniteSet(Calls(o))
           /\ Cardinality(Calls(o)) \in 0 .. Count
           /\ o \in {"running", "err"} => Cardinality(Calls(o)) <= i
<1>1. IsFiniteSet(Indices) /\ Cardinality(Indices) = Count
  BY FS_Interval DEF Indices
<1>2. Calls(o) \in SUBSET Indices
  BY DEF Calls
<1>3. /\ IsFiniteSet(Calls(o))
      /\ Cardinality(Calls(o)) <= Count
  BY <1>1, <1>2, FS_Subset
<1>4. Cardinality(Calls(o)) \in Nat
  BY <1>3, FS_CardinalityType
<1>5. ASSUME o \in {"running", "err"}
      PROVE  Cardinality(Calls(o)) <= i
  <2> DEFINE Batch == Completed .. index - 1
  <2>1. Calls(o) \in SUBSET Batch
    BY <1>5 DEF Calls, CallsSoFar, Completed, Indices, TypeOK
  <2>2. IsFiniteSet(Batch) /\ Cardinality(Batch) = i
    BY FS_Interval DEF Bookkeeping, Completed, TypeOK
  <2>3. QED
    BY <2>1, <2>2, FS_Subset
<1>6. QED
  BY <1>3, <1>4, <1>5

LEMMA Initially == Init => IInv
<1> SUFFICES ASSUME Init PROVE IInv
  OBVIOUS
<1>1. Calls("err") = {} /\ Calls("running") = {}
  BY DEF Init, Calls, Indices
<1>2. Cardinality(Calls("err")) = 0
  BY <1>1, FS_EmptySet
<1>3. batchSize \in 0 .. Count /\ batchSize <= InitialBatchSize /\ (batchSize = 0 => Count = 0)
  BY DEF Init, IntMin
<1>4. TypeOK
  <2>1. pc \in {"launch", "wait", "done"}
    BY DEF Init
  <2>2. call \in [Indices -> {"none", "running", "ok", "err"}]
    BY DEF Init
  <2>3. 0 \in 0 .. Count /\ Count \in 0 .. Count
    OBVIOUS
  <2>4. QED
    BY <1>3, <2>1, <2>2, <2>3, Zenon DEF Init, TypeOK
<1>5. Bookkeeping
  BY <1>3 DEF Init, Bookkeeping, Completed
<1>6. CallsSoFar
  BY <1>2 DEF Init, CallsSoFar, Completed, Indices
<1>7. Answer
  BY <1>1, <1>3 DEF Init, Answer, Completed
<1>8. QED
  BY <1>4, <1>5, <1>6, <1>7 DEF IInv

LEMMA LaunchStep == IInv /\ Launch => IInv'
<1> SUFFICES ASSUME IInv, Launch PROVE IInv'
  OBVIOUS
<1> USE DEF IInv
<1>1. index \in Indices /\ call[index] = "none"
  BY DEF Launch, TypeOK, Bookkeeping, CallsSoFar, Completed, Indices
<1>2. Calls("err")' = Calls("err")
  BY <1>1 DEF Launch, Calls, TypeOK
<1>3. TypeOK'
  BY <1>1 DEF Launch, TypeOK, Bookkeeping, Completed, Indices
<1>4. Bookkeeping'
  BY DEF Launch, TypeOK, Bookkeeping, Completed
<1>5. CallsSoFar'
  BY <1>1, <1>2 DEF Launch, TypeOK, Bookkeeping, CallsSoFar, Completed, Indices
<1>6. Answer'
  BY DEF Launch, TypeOK, Answer, Completed
<1>7. QED
  BY <1>3, <1>4, <1>5, <1>6

LEMMA SucceedStep ==
    ASSUME NEW n \in Indices, IInv, Succeed(n)
    PROVE  IInv'
<1> USE DEF IInv
<1>1. Calls("err")' = Calls("err")
  BY DEF Succeed, Calls, TypeOK
<1>2. TypeOK'
  BY DEF Succeed, TypeOK
<1>3. Bookkeeping'
  BY DEF Succeed, Bookkeeping, Completed
<1>4. CallsSoFar'
  BY <1>1 DEF Succeed, TypeOK, CallsSoFar, Completed, Indices
<1>5. pc # "done"
  BY DEF Succeed, Answer, Calls
<1>6. Answer'
  BY <1>5 DEF Succeed, Answer, Completed
<1>7. QED
  BY <1>2, <1>3, <1>4, <1>6

LEMMA FailStep ==
    ASSUME NEW n \in Indices, IInv, Fail(n)
    PROVE  IInv'
<1> USE DEF IInv
<1>1. Calls("err")' = Calls("err") \cup {n} /\ n \notin Calls("err")
  BY DEF Fail, Calls, TypeOK
<1>2. Cardinality(Calls("err")') = errCh'
  BY <1>1, CallSets, FS_AddElement DEF Fail, CallsSoFar
<1>3. index' = index /\ remaining' = remaining /\ i' = i /\ pc' = pc /\ batchSize' = batchSize
  BY DEF Fail
<1>4. call' \in [Indices -> {"none", "running", "ok", "err"}]
  BY DEF Fail, TypeOK
<1>5. Bookkeeping'
  BY <1>3 DEF Bookkeeping, Completed
<1>6. n >= Completed /\ n < index
  BY DEF Fail, TypeOK, CallsSoFar, Completed, Indices
<1>7. CallsSoFar'
  BY <1>2, <1>3, <1>6 DEF Fail, TypeOK, CallsSoFar, Completed, Indices
<1>8. errCh' \in 0 .. Count
  <2>1. Calls("err")' \in SUBSET Indices /\ IsFiniteSet(Indices) /\ Cardinality(Indices) = Count
    BY FS_Interval DEF Calls, Indices
  <2>2. IsFiniteSet(Calls("err")') /\ Cardinality(Calls("err")') <= Count
    BY <2>1, FS_Subset
  <2>3. QED
    BY <1>2, <2>2, FS_CardinalityType
<1>9. TypeOK'
  BY <1>4, <1>8 DEF Fail, TypeOK
<1>10. pc # "done"
  BY DEF Fail, Answer, Calls
<1>11. Answer'
  BY <1>10 DEF Fail, Answer, Completed
<1>12. QED
  BY <1>5, <1>7, <1>9, <1>11

LEMMA ReturnErrorStep == IInv /\ ReturnError => IInv'
<1> SUFFICES ASSUME IInv, ReturnError PROVE IInv'
  OBVIOUS
<1> USE DEF IInv
<1>1. Calls("err")' = Calls("err") /\ Calls("running")' = {}
  BY DEF ReturnError, BatchCompleted, Calls
<1>2. errCh <= batchSize /\ i = batchSize /\ successes = Completed /\ pc = "wait"
  BY CallSets DEF ReturnError, BatchCompleted, Bookkeeping, CallsSoFar, Answer
<1>3. TypeOK'
  BY <1>2 DEF ReturnError, TypeOK, Bookkeeping, Completed
<1>4. Bookkeeping'
  BY DEF ReturnError, Bookkeeping, Completed
<1>5. CallsSoFar'
  BY <1>1 DEF ReturnError, CallsSoFar, Completed
<1>6. Answer'
  BY <1>1, <1>2 DEF ReturnError, Answer, Completed
<1>7. QED
  BY <1>3, <1>4, <1>5, <1>6

LEMMA NextBatchStep == IInv /\ NextBatch => IInv'
<1> SUFFICES ASSUME IInv, NextBatch PROVE IInv'
  OBVIOUS
<1> USE DEF IInv
<1>1. Calls("err") = {}
  BY CallSets, FS_EmptySet DEF NextBatch, CallsSoFar
<1>2. Calls("err")' = Calls("err") /\ Calls("running")' = {}
  BY DEF NextBatch, BatchCompleted, Calls
<1>3. i = batchSize /\ batchSize > 0 /\ successes = Completed /\ pc = "wait" /\ ~failed
  BY DEF NextBatch, BatchCompleted, Bookkeeping, Answer
<1>4. /\ batchSize' \in 0 .. Count
      /\ batchSize' <= remaining'
      /\ batchSize' <= 2 * batchSize
      /\ batchSize' = 0 => remaining' = 0
  BY <1>3 DEF NextBatch, IntMin, TypeOK, Bookkeeping
<1>5. TypeOK'
  BY <1>3, <1>4 DEF NextBatch, TypeOK, Bookkeeping, Completed
<1>6. Bookkeeping'
  BY <1>3, <1>4 DEF NextBatch, TypeOK, Bookkeeping, Completed
<1>7. \A n \in Indices : n < index => call[n] = "ok"
  BY <1>1 DEF NextBatch, BatchCompleted, Calls, CallsSoFar, TypeOK, Indices
<1>8. CallsSoFar'
  BY <1>2, <1>3, <1>7 DEF NextBatch, TypeOK, Bookkeeping, CallsSoFar, Completed, Indices
<1>9. Answer'
  BY <1>2, <1>3, <1>4 DEF NextBatch, TypeOK, Bookkeeping, Answer, Completed
<1>10. QED
  BY <1>5, <1>6, <1>8, <1>9

LEMMA Inductive == IInv /\ [Next]_vars => IInv'
<1> SUFFICES ASSUME IInv, [Next]_vars PROVE IInv'
  OBVIOUS
<1>1. CASE Launch
  BY <1>1, LaunchStep
<1>2. ASSUME NEW n \in Indices, Succeed(n) PROVE IInv'
  BY <1>2, SucceedStep
<1>3. ASSUME NEW n \in Indices, Fail(n) PROVE IInv'
  BY <1>3, FailStep
<1>4. CASE ReturnError
  BY <1>4, ReturnErrorStep
<1>5. CASE NextBatch
  BY <1>5, NextBatchStep
<1>6. CASE UNCHANGED vars
  BY <1>6 DEF vars, IInv, TypeOK, Bookkeeping, CallsSoFar, Answer, Completed, Calls
<1>7. QED
  BY <1>1, <1>2, <1>3, <1>4, <1>5, <1>6 DEF Next

\* The inductive invariant holds of every behaviour.
THEOREM Invariance == Spec => []IInv
  BY Initially, Inductive, PTL DEF Spec

\* The variables keep their types: no index is out of range, and errCh never
\* holds more errors than there are calls.
THEOREM TypeCorrect == Spec => []TypeOK
<1>1. IInv => TypeOK
  BY DEF IInv
<1>2. QED
  BY <1>1, Invariance, PTL

LEMMA TruthWhenReturned == IInv => ReturnIsTruthful
<1> SUFFICES ASSUME IInv, pc = "done"
             PROVE  /\ successes = Cardinality(Calls("ok"))
                    /\ Calls("running") = {}
                    /\ failed <=> Calls("err") # {}
                    /\ ~failed => \A n \in Indices : call[n] = "ok"
  BY DEF ReturnIsTruthful
<1> USE DEF IInv
<1>1. Calls("running") = {} /\ (failed <=> errCh > 0)
  BY DEF Answer
<1>2. Calls("err") = {} <=> errCh = 0
  BY CallSets, FS_EmptySet DEF CallsSoFar
<1>3. failed <=> Calls("err") # {}
  BY <1>1, <1>2 DEF TypeOK
<1> DEFINE Called == 0 .. index - 1
<1>4. IsFiniteSet(Called) /\ Cardinality(Called) = index
  BY FS_Interval DEF TypeOK
<1>5. Calls("ok") \cup Calls("err") = Called /\ Calls("ok") \cap Calls("err") = {}
  BY <1>1 DEF Calls, CallsSoFar, TypeOK, Indices
<1>6. Cardinality(Called) = Cardinality(Calls("ok")) + Cardinality(Calls("err"))
  <2>1. IsFiniteSet(Calls("ok")) /\ IsFiniteSet(Calls("err"))
    BY CallSets
  <2>2. Cardinality(Calls("ok") \cup Calls("err"))
           = Cardinality(Calls("ok")) + Cardinality(Calls("err"))
               - Cardinality(Calls("ok") \cap Calls("err"))
    BY <2>1, FS_Union
  <2>3. Cardinality(Calls("ok") \cap Calls("err")) = 0
    BY <1>5, FS_EmptySet
  <2>4. Cardinality(Calls("ok")) \in Nat /\ Cardinality(Calls("err")) \in Nat
    BY <2>1, FS_CardinalityType
  <2>5. Cardinality(Calls("ok") \cup Calls("err")) = Cardinality(Called)
    BY <1>5, Zenon
  <2>6. QED
    BY <2>2, <2>3, <2>4, <2>5
<1>7. Cardinality(Calls("ok")) = index - errCh
  BY <1>4, <1>6, CallSets DEF CallsSoFar, TypeOK
<1>8. successes = Cardinality(Calls("ok"))
  BY <1>7 DEF Answer, Bookkeeping, Completed, TypeOK
<1>9. ~failed => \A n \in Indices : call[n] = "ok"
  BY DEF Answer, CallsSoFar, Completed, Indices, TypeOK
<1>10. QED
  BY <1>1, <1>3, <1>8, <1>9

\* The number and the error returned are the truth about the calls.
THEOREM Truthful == Spec => []ReturnIsTruthful
  BY TruthWhenReturned, Invariance, PTL

\* However many calls there are and whatever fails, no more than the initial
\* batch or twice the past successes is ever exposed to failure.
THEOREM StartsSlow == Spec => []SlowStart
<1>1. IInv => SlowStart
  <2> SUFFICES ASSUME IInv, pc # "done"
               PROVE  Cardinality(Calls("running") \cup Calls("err"))
                        <= IF successes = 0 THEN InitialBatchSize ELSE 2 * successes
    BY DEF SlowStart
  <2> USE DEF IInv
  <2> DEFINE Batch == Completed .. index - 1
  <2>1. Calls("running") \cup Calls("err") \in SUBSET Batch
    BY DEF Calls, CallsSoFar, Completed, Indices, TypeOK
  <2>2. IsFiniteSet(Batch) /\ Cardinality(Batch) = i
    BY FS_Interval DEF Bookkeeping, Completed, TypeOK
  <2>3. /\ Cardinality(Calls("running") \cup Calls("err")) <= i
        /\ IsFiniteSet(Calls("running") \cup Calls("err"))
    BY <2>1, <2>2, FS_Subset
  <2>4. Cardinality(Calls("running") \cup Calls("err")) \in Nat
    BY <2>3, FS_CardinalityType
  <2>5. QED
    BY <2>3, <2>4 DEF Answer, Bookkeeping, TypeOK
<1>2. QED
  BY <1>1, Invariance, PTL

\* No index is called twice, and an outcome stands.
THEOREM CalledOnce == Spec => EachIndexOnce
<1> DEFINE Once(n) == call'[n] # call[n] =>
                        \/ call[n] = "none" /\ call'[n] = "running"
                        \/ call[n] = "running" /\ call'[n] \in {"ok", "err"}
<1>1. ASSUME IInv, [Next]_vars, NEW n \in Indices
      PROVE  Once(n)
  <2> USE <1>1 DEF IInv
  <2>1. CASE Launch
    BY <2>1 DEF Launch, TypeOK, Bookkeeping, CallsSoFar, Completed, Indices
  <2>2. ASSUME NEW m \in Indices, Succeed(m) \/ Fail(m) PROVE Once(n)
    BY <2>2 DEF Succeed, Fail, TypeOK
  <2>3. CASE ReturnError \/ NextBatch \/ UNCHANGED vars
    BY <2>3 DEF ReturnError, NextBatch, vars
  <2>4. QED
    BY <1>1, <2>1, <2>2, <2>3 DEF Next
<1>2. IInv /\ [Next]_vars => [\A n \in Indices : Once(n)]_vars
  BY <1>1
<1>3. QED
  BY <1>2, Invariance, PTL DEF Spec, EachIndexOnce

\* Once a call has failed nothing outside its batch is called.
THEOREM SkipsRemainingBatches == Spec => NoCallAfterFailedBatch
<1> DEFINE InBatch(n) == (call[n] = "none" /\ call'[n] = "running") =>
                            /\ n >= Count - remaining
                            /\ n < Count - remaining + batchSize
                            /\ \A m \in Calls("err") : m >= Count - remaining
<1>1. ASSUME IInv, [Next]_vars, NEW n \in Indices
      PROVE  InBatch(n)
  <2> USE <1>1 DEF IInv
  <2>1. CASE Launch
    <3>1. SUFFICES ASSUME call[n] = "none", call'[n] = "running"
                   PROVE  InBatch(n)
      OBVIOUS
    <3>2. n = index /\ pc = "launch"
      BY <2>1, <3>1 DEF Launch, TypeOK
    <3>3. \A m \in Calls("err") : m >= Count - remaining
      BY DEF Calls, CallsSoFar, Completed, Indices, TypeOK
    <3>4. QED
      BY <3>2, <3>3 DEF Bookkeeping, Completed, TypeOK
  <2>2. ASSUME NEW m \in Indices, Succeed(m) \/ Fail(m) PROVE InBatch(n)
    BY <2>2 DEF Succeed, Fail, TypeOK
  <2>3. CASE ReturnError \/ NextBatch \/ UNCHANGED vars
    BY <2>3 DEF ReturnError, NextBatch, vars
  <2>4. QED
    BY <1>1, <2>1, <2>2, <2>3 DEF Next
<1>2. IInv /\ [Next]_vars => [\A n \in Indices : InBatch(n)]_vars
  BY <1>1
<1>3. QED
  BY <1>2, Invariance, PTL DEF Spec, NoCallAfterFailedBatch

-----------------------------------------------------------------------------
(* Refinement: every step of the loop is a step of BulkCall or hidden.      *)

LEMMA SameCardinality == \A S : Bulk!Cardinality(S) = Cardinality(S)
  BY DEF Bulk!Cardinality, Cardinality

LEMMA BulkInitially == Init => Bulk!Init
<1> SUFFICES ASSUME Init PROVE Bulk!Init
  OBVIOUS
<1>1. (pc = "done") <=> Indices = {}
  BY DEF Init, IntMin, Indices
<1>2. QED
  BY <1>1 DEF Init, Bulk!Init

\* No call is started, finished or answered twice, and the answer is given
\* when BulkCall would give it.
LEMMA BulkStep == IInv /\ IInv' /\ [Next]_vars => [Bulk!Next]_(Bulk!vars)
<1> SUFFICES ASSUME IInv, IInv', [Next]_vars
             PROVE  [Bulk!Next]_(Bulk!vars)
  OBVIOUS
<1> USE DEF IInv
<1>1. CASE Launch
  <2>1. index \in Indices /\ call[index] = "none"
    BY <1>1 DEF Launch, TypeOK, Bookkeeping, CallsSoFar, Completed, Indices
  <2>2. Bulk!Start(index)
    BY <1>1, <2>1 DEF Launch, Bulk!Start
  <2>3. QED
    BY <2>1, <2>2 DEF Bulk!Next
<1>2. ASSUME NEW n \in Indices, Succeed(n) \/ Fail(n)
      PROVE  [Bulk!Next]_(Bulk!vars)
  <2>1. Bulk!Finish(n)
    BY <1>2 DEF Succeed, Fail, Bulk!Finish
  <2>2. QED
    BY <2>1 DEF Bulk!Next
<1>3. ASSUME ReturnError \/ NextBatch, pc' = "done"
      PROVE  [Bulk!Next]_(Bulk!vars)
  <2>1. pc = "wait" /\ call' = call /\ ~failed
    BY <1>3 DEF ReturnError, NextBatch, BatchCompleted, Answer
  <2>2. ReturnIsTruthful'
    BY TruthWhenReturned, PTL
  <2>3. /\ successes' = Cardinality({n \in Indices : call[n] = "ok"})
        /\ failed' <=> \E n \in Indices : call[n] = "err"
        /\ \A n \in Indices : call[n] # "running"
        /\ ~failed' => \A n \in Indices : call[n] = "ok"
    BY <1>3, <2>1, <2>2 DEF ReturnIsTruthful, Calls
  <2>4. Bulk!Return
    BY <1>3, <2>1, <2>3, SameCardinality DEF Bulk!Return, TypeOK
  <2>5. QED
    BY <2>4 DEF Bulk!Next
<1>4. ASSUME ReturnError \/ NextBatch, pc' # "done"
      PROVE  UNCHANGED Bulk!vars
  BY <1>4 DEF ReturnError, NextBatch, BatchCompleted, Bulk!vars
<1>5. CASE UNCHANGED vars
  BY <1>5 DEF vars, Bulk!vars
<1>6. QED
  BY <1>1, <1>2, <1>3, <1>4, <1>5 DEF Next

\* SlowStartBatch implements what its callers rely on.
THEOREM Refinement == Spec => ImplementsBulkCall
  BY BulkInitially, BulkStep, Invariance, PTL DEF Spec, Bulk!Spec, ImplementsBulkCall
=============================================================================
