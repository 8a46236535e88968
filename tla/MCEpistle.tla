----------------------------- MODULE MCEpistle ------------------------------
(***************************************************************************)
(* Two callers and three keys in a table of four slots: two keys start     *)
(* at the last slot and wrap, the third starts where they wrap to.         *)
(***************************************************************************)
EXTENDS Epistle
=============================================================================
