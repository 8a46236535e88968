------------------------- MODULE MCShinjukuWorkers --------------------------
(***************************************************************************)
(* ShinjukuWorkers on one CPU for the threads and one for the lord: every  *)
(* shot but the first competes for a CPU that is taken.                    *)
(***************************************************************************)
EXTENDS ShinjukuWorkers
=============================================================================
