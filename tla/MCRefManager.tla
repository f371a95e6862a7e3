---------------------------- MODULE MCRefManager ----------------------------
(***************************************************************************)
(* Small instances of RefManager for TLC.                                  *)
(***************************************************************************)
EXTENDS RefManager, TLC

CONSTANTS old, new, rival, set, other, o1, blue, red

\* An owner, the one that takes its name, and another whose selector
\* matches what theirs does, and more.
AllUids == {old, new, rival}
NameOfUid == old :> set @@ new :> set @@ rival :> other
Selectors == old :> {blue} @@ new :> {blue} @@ rival :> {blue, red}
=============================================================================
