---------------------------- MODULE MCFifoSystem ----------------------------
(***************************************************************************)
(* FifoSystem on two CPUs for the threads and one for the lord.            *)
(***************************************************************************)
EXTENDS FifoSystem
=============================================================================
