----------------------------- MODULE MCFifoLord -----------------------------
(***************************************************************************)
(* FifoLord alone, under every message and every verdict.                  *)
(***************************************************************************)
EXTENDS FifoLord
=============================================================================
