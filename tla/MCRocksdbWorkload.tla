------------------------- MODULE MCRocksdbWorkload --------------------------
(***************************************************************************)
(* Two workers, batches of two, three requests: one batch is full, one is  *)
(* not.  The first request arrives in the discard period.                  *)
(***************************************************************************)
EXTENDS RocksdbWorkload
=============================================================================
