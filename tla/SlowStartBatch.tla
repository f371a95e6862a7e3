--------------------------- MODULE SlowStartBatch ---------------------------
(***************************************************************************)
(* util.SlowStartBatch (src/pkg/yurtappmanager/util/tools.go): every       *)
(* controller of the manager issues its create and delete calls with it.   *)
(* fn(0) ... fn(Count-1) are called in batches of growing size; the calls  *)
(* of a batch are goroutines, and the batch after a failed one is skipped. *)
(***************************************************************************)
EXTENDS Integers, FiniteSets

CONSTANTS
    Count,              \* the parameter count
    InitialBatchSize    \* the parameter initialBatchSize

ASSUME CountAssumption == Count \in Nat
ASSUME InitialBatchSizeAssumption == InitialBatchSize \in Nat \ {0}

VARIABLES
    pc,         \* where the calling goroutine is
    remaining,  \* calls of the batches not yet completed
    successes,  \* successful calls of the completed batches
    index,      \* the next index to hand to fn
    batchSize,  \* size of the current batch
    i,          \* goroutines of the current batch already started
    errCh,      \* errors buffered by the current batch
    call,       \* call[n]: what became of fn(n)
    failed      \* the returned error is not nil

vars == <<pc, remaining, successes, index, batchSize, i, errCh, call, failed>>

Indices == 0 .. Count - 1

IntMin(a, b) == IF a < b THEN a ELSE b

TypeOK ==
    /\ pc \in {"launch", "wait", "done"}
    /\ remaining \in 0 .. Count
    /\ successes \in 0 .. Count
    /\ index \in 0 .. Count
    /\ batchSize \in 0 .. Count
    /\ i \in 0 .. Count
    /\ errCh \in 0 .. Count
    /\ call \in [Indices -> {"none", "running", "ok", "err"}]
    /\ failed \in BOOLEAN

Calls(outcome) == {n \in Indices : call[n] = outcome}

-----------------------------------------------------------------------------

InitAtFullSpeed ==  \* mutant: the initial batch size is ignored
    /\ remaining = Count /\ batchSize = Count
    /\ successes = 0 /\ index = 0 /\ i = 0 /\ errCh = 0
    /\ call = [n \in Indices |-> "none"]
    /\ failed = FALSE
    /\ pc = IF batchSize > 0 THEN "launch" ELSE "done"

Init ==
    /\ remaining = Count
    /\ successes = 0
    /\ index = 0
    /\ batchSize = IntMin(Count, InitialBatchSize)
    /\ i = 0
    /\ errCh = 0
    /\ call = [n \in Indices |-> "none"]
    /\ failed = FALSE
    /\ pc = IF batchSize > 0 THEN "launch" ELSE "done"

LaunchSameIndex ==  \* mutant: index++ is missing
    /\ pc = "launch"
    /\ call' = [call EXCEPT ![index] = "running"]
    /\ i' = i + 1
    /\ pc' = IF i' < batchSize THEN "launch" ELSE "wait"
    /\ UNCHANGED <<index, remaining, successes, batchSize, errCh, failed>>

\* go func(idx int) {...}(index): start one more call of the batch.
Launch ==
    /\ pc = "launch"
    /\ call' = [call EXCEPT ![index] = "running"]
    /\ index' = index + 1
    /\ i' = i + 1
    /\ pc' = IF i' < batchSize THEN "launch" ELSE "wait"
    /\ UNCHANGED <<remaining, successes, batchSize, errCh, failed>>

\* fn(n) returns nil, or an error that the goroutine sends to errCh.
Succeed(n) ==
    /\ call[n] = "running"
    /\ call' = [call EXCEPT ![n] = "ok"]
    /\ UNCHANGED <<pc, remaining, successes, index, batchSize, i, errCh, failed>>

Fail(n) ==
    /\ call[n] = "running"
    /\ call' = [call EXCEPT ![n] = "err"]
    /\ errCh' = errCh + 1
    /\ UNCHANGED <<pc, remaining, successes, index, batchSize, i, failed>>

BatchSucceeded ==  \* mutant: a call that fails does not reach wg.Done
    pc = "wait" /\ Calls("running") = {} /\ Calls("err") = {}

\* wg.Wait() returns once no call of the batch is running.
BatchCompleted == pc = "wait" /\ Calls("running") = {}

ReturnErrorCountingAll ==  \* mutant: the failures are counted as successes
    /\ BatchCompleted
    /\ errCh > 0
    /\ successes' = successes + batchSize
    /\ failed' = TRUE
    /\ pc' = "done"
    /\ UNCHANGED <<remaining, index, batchSize, i, errCh, call>>

\* Return successes, <-errCh: the batch failed, the others are skipped.
ReturnError ==
    /\ BatchCompleted
    /\ errCh > 0
    /\ successes' = successes + (batchSize - errCh)
    /\ failed' = TRUE
    /\ pc' = "done"
    /\ UNCHANGED <<remaining, index, batchSize, i, errCh, call>>

NextBatchUncapped ==  \* mutant: the size is not cut to what remains
    /\ BatchCompleted
    /\ errCh = 0
    /\ successes' = successes + batchSize
    /\ remaining' = remaining - batchSize
    /\ batchSize' = IF remaining' > 0 THEN 2 * batchSize ELSE 0
    /\ i' = 0
    /\ pc' = IF batchSize' > 0 THEN "launch" ELSE "done"
    /\ UNCHANGED <<index, errCh, call, failed>>

NextBatchRegardless ==  \* mutant: len(errCh) is not looked at
    /\ BatchCompleted
    /\ successes' = successes + batchSize
    /\ remaining' = remaining - batchSize
    /\ batchSize' = IntMin(2 * batchSize, remaining')
    /\ i' = 0
    /\ pc' = IF batchSize' > 0 THEN "launch" ELSE "done"
    /\ UNCHANGED <<index, errCh, call, failed>>

\* The batch succeeded: the next one is twice as large, within what remains,
\* and an empty one ends the loop.
NextBatch ==
    /\ BatchCompleted
    /\ errCh = 0
    /\ successes' = successes + batchSize
    /\ remaining' = remaining - batchSize
    /\ batchSize' = IntMin(2 * batchSize, remaining')
    /\ i' = 0
    /\ pc' = IF batchSize' > 0 THEN "launch" ELSE "done"
    /\ UNCHANGED <<index, errCh, call, failed>>

Next ==
    \/ Launch
    \/ \E n \in Indices : Succeed(n) \/ Fail(n)
    \/ ReturnError
    \/ NextBatch

Spec == Init /\ [][Next]_vars

\* The goroutines are scheduled and every call returns (the client's requests
\* have a timeout), so no enabled step is postponed for ever.
FairSpec ==
    /\ Spec
    /\ WF_vars(Launch)
    /\ \A n \in Indices : WF_vars(Succeed(n) \/ Fail(n))
    /\ WF_vars(ReturnError \/ NextBatch)

-----------------------------------------------------------------------------

\* What the function returns is the truth about the calls: the count is the
\* number of calls that returned nil, no call is left running behind the
\* caller's back, and a nil error means that every index was called and
\* succeeded ("returns the number of successful calls to the function").
ReturnIsTruthful ==
    pc = "done" =>
        /\ successes = Cardinality(Calls("ok"))
        /\ Calls("running") = {}
        /\ failed <=> Calls("err") # {}
        /\ ~failed => \A n \in Indices : call[n] = "ok"

\* "Starting slow": the calls in flight or failed never exceed the initial
\* batch or twice the calls already known to have succeeded, so a server
\* that rejects everything is bothered InitialBatchSize times and no more.
SlowStart ==
    pc # "done" =>
        Cardinality(Calls("running") \cup Calls("err"))
            <= IF successes = 0 THEN InitialBatchSize ELSE 2 * successes

\* The loop implements the specification its callers rely on.
Bulk == INSTANCE BulkCall WITH
            returned <- (pc = "done"),
            successes <- (IF pc = "done" THEN successes ELSE 0)

\* Every behaviour of the loop is one that BulkCall allows: the batches, the
\* buffered errors and the bookkeeping of remaining and successes are hidden.
ImplementsBulkCall == Bulk!Spec

\* Once a call has failed, no index outside the failed call's own batch is
\* ever called ("all remaining batches are skipped").
NoCallAfterFailedBatch ==
    [][\A n \in Indices :
         (call[n] = "none" /\ call'[n] = "running") =>
            /\ n >= Count - remaining
            /\ n < Count - remaining + batchSize
            /\ \A m \in Calls("err") : m >= Count - remaining]_vars

\* A call is made at most once and its outcome stands: fn is a create or a
\* delete, and repeating it would not be harmless.
EachIndexOnce ==
    [][\A n \in Indices :
         call'[n] # call[n] =>
            \/ call[n] = "none" /\ call'[n] = "running"
            \/ call[n] = "running" /\ call'[n] \in {"ok", "err"}]_vars

\* The caller gets an answer.
Termination == <>(pc = "done")

=============================================================================
