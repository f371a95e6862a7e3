-------------------------- MODULE MCYurtAppDaemon --------------------------
(***************************************************************************)
(* Small instances of YurtAppDaemon for TLC.                               *)
(***************************************************************************)
EXTENDS YurtAppDaemon, TLC

CONSTANTS a, b, t1, t2, bad, taint, east, west

TwoPools == {a, b}

\* The second template tolerates the taint by itself.
Tolerates == t1 :> {} @@ t2 :> {taint} @@ bad :> {}

Plain == [kind |-> "Deployment", template |-> t1, selector |-> east]
AllSpecs == {Plain, [Plain EXCEPT !.template = t2, !.selector = west],
             [Plain EXCEPT !.template = bad], [Plain EXCEPT !.kind = "StatefulSet"]}

NodePools == {[label |-> east, taints |-> {}], [label |-> east, taints |-> {taint}]}
OnePool == a :> [label |-> east, taints |-> {}] @@ b :> Absent
=============================================================================
