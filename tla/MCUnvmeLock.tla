---------------------------- MODULE MCUnvmeLock ----------------------------
(* Four threads, each of them a reader and a writer in turn. *)
EXTENDS UnvmeLock
CONSTANTS t1, t2, t3, t4
MCThreads == {t1, t2, t3, t4}
=============================================================================
