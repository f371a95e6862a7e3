-------------------------- MODULE MCSlowStartBatch --------------------------
(***************************************************************************)
(* Model checking of SlowStartBatch.  Eight calls starting with one give   *)
(* batches of 1, 2 and 4, and a last one cut from 8 to 1; the controllers  *)
(* use slowStartInitialBatchSize = 1.                                      *)
(***************************************************************************)
EXTENDS SlowStartBatch

EightCalls == 8
=============================================================================
