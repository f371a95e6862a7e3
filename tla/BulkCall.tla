------------------------------ MODULE BulkCall ------------------------------
(***************************************************************************)
(* What a caller of SlowStartBatch may rely on, without batches: indices   *)
(* are called at most once each, and a single answer is given when no call *)
(* is in flight, which counts the successful calls and is an error exactly *)
(* when some call failed.  Without an error every index has been called.   *)
(***************************************************************************)
EXTENDS Integers, FiniteSets

CONSTANT Indices

VARIABLES call, returned, successes, failed

vars == <<call, returned, successes, failed>>

Init ==
    /\ call = [n \in Indices |-> "none"]
    /\ returned = (Indices = {})
    /\ successes = 0
    /\ failed = FALSE

Start(n) ==
    /\ ~returned
    /\ call[n] = "none"
    /\ call' = [call EXCEPT ![n] = "running"]
    /\ UNCHANGED <<returned, successes, failed>>

Finish(n) ==
    /\ call[n] = "running"
    /\ \E outcome \in {"ok", "err"} : call' = [call EXCEPT ![n] = outcome]
    /\ UNCHANGED <<returned, successes, failed>>

Return ==
    /\ ~returned
    /\ \A n \in Indices : call[n] # "running"
    /\ returned' = TRUE
    /\ successes' = Cardinality({n \in Indices : call[n] = "ok"})
    /\ failed' = (\E n \in Indices : call[n] = "err")
    /\ ~failed' => \A n \in Indices : call[n] = "ok"
    /\ UNCHANGED call

Next == Return \/ \E n \in Indices : Start(n) \/ Finish(n)

Spec == Init /\ [][Next]_vars
=============================================================================
