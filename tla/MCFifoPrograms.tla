--------------------------- MODULE MCFifoPrograms ---------------------------
(***************************************************************************)
(* FifoPrograms with three threads on one CPU and one for the lord.        *)
(***************************************************************************)
EXTENDS FifoPrograms
=============================================================================
