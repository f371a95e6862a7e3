--------------------------- MODULE MCYurtIngress ---------------------------
(***************************************************************************)
(* Small instances of YurtIngress for TLC.                                 *)
(***************************************************************************)
EXTENDS YurtIngress, TLC

CONSTANTS first, second, hangzhou, shanghai, i1, i2

Pool(p) == p :> "ips"
Ask(n, image, pools) == [replicas |-> n, image |-> image, certgen |-> "c", pools |-> pools]
None == [p \in {} |-> "ips"]

One == Ask(1, i1, Pool(hangzhou))
OneOrNone == (first :> {One, Ask(1, i1, None)})

\* The first has one pool, or two with other values, or none; the second takes
\* over the first's pool, or asks for the one the first may come to ask for.
BothSpecs ==
    first :> {One, [Ask(2, i2, hangzhou :> "other" @@ Pool(shanghai)) EXCEPT !.certgen = "d"],
              Ask(1, i1, None)}
    @@ second :> {One, Ask(1, i1, Pool(shanghai))}

\* The two of them come and go with one pool.
HandoverSpecs == OneOrNone @@ second :> {One}

\* Objects of the namespace, which go with it, and the configuration, which
\* goes with its owner.
TwoParts == <<"webhook", "configuration">>
ThreeParts == <<"webhook", "service", "configuration">>
=============================================================================
