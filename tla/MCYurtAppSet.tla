---------------------------- MODULE MCYurtAppSet ----------------------------
(***************************************************************************)
(* Small instances of YurtAppSet for TLC.                                  *)
(***************************************************************************)
EXTENDS YurtAppSet, TLC

CONSTANTS a, b, t1, t2, none, good, bad

TwoPools == {a, b}
TwoTemplates == {t1, t2}
ThreePatches == {none, good, bad}

Config(n, patch) == [replicas |-> n, patch |-> patch]

\* One pool; the same with another pool and a new template; the other pool
\* instead; only the other pool, from the other kind of template.
OnePool == [kind |-> "Deployment", template |-> t1, pools |-> (a :> Config(1, none))]
BothPools == [kind |-> "Deployment", template |-> t2,
              pools |-> (a :> Config(2, none) @@ b :> Config(1, none))]
OtherPool == [OnePool EXCEPT !.pools = (b :> Config(1, none))]
OtherKind == [kind |-> "StatefulSet", template |-> t1, pools |-> (b :> Config(1, none))]

\* The other pool, with a patch that cannot be merged.
BadPatch == [kind |-> "Deployment", template |-> t1,
             pools |-> (a :> Config(1, good) @@ b :> Config(1, bad))]

GrowMoveAndPatch == {OnePool, BothPools, OtherPool, OtherKind, BadPatch}
GrowOnly == {OnePool, BothPools}
=============================================================================
