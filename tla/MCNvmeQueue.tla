---------------------------- MODULE MCNvmeQueue ----------------------------
(* A queue of three entries: up to two commands in flight, indices that wrap *)
(* on every third command, so that both phases of the ring are reached.      *)
EXTENDS NvmeQueue
MCSize == 3
MCStats == {0, 1}
=============================================================================
