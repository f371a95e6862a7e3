------------------------- MODULE MCRevisionHistory -------------------------
(***************************************************************************)
(* Small instances of RevisionHistory for TLC.                             *)
(***************************************************************************)
EXTENDS RevisionHistory

CONSTANTS t1, t2, t3, n1, n3, m1, m2, m3

ThreeTemplates == {t1, t2, t3}

\* t1 and t2 have the same first name; t3's first name is somebody else's.
CollidingNames == {n1, n3, m1, m2, m3}
CollidingHash == [tk \in ThreeTemplates \X {0, 1} |->
                     CASE tk[2] = 0 -> (IF tk[1] = t3 THEN n3 ELSE n1)
                       [] tk = <<t1, 1>> -> m1 [] tk = <<t2, 1>> -> m2 [] tk = <<t3, 1>> -> m3]
=============================================================================
