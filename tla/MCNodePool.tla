----------------------------- MODULE MCNodePool -----------------------------
(***************************************************************************)
(* Small instances of NodePool for TLC.                                    *)
(***************************************************************************)
EXTENDS NodePool, TLC

CONSTANTS n1, n2, edge, pool, label, taint, other, v, w, u, none

OneNode == {n1}
BothNodes == {n1, n2}
BothPools == {edge, pool}

Asked(value, t) ==
    [attrs |-> (label :> value), taints |-> (taint :> t @@ other :> none)]

\* A label and a taint; another value of the label and no taint.
Full == Asked(v, v)
Edited == Asked(w, none)
TwoSpecs == {Full, Edited}

=============================================================================
