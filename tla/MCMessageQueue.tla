--------------------------- MODULE MCMessageQueue ---------------------------
(***************************************************************************)
(* A ring of 5 slots that the kernel fills to the last, whose counters     *)
(* wrap at 18, no multiple of 5: 3 messages after the wrap share slots     *)
(* with 3 before it.                                                       *)
(***************************************************************************)
EXTENDS MessageQueue
=============================================================================
