--------------------------- MODULE MCUnvmeSession ---------------------------
(* Threads opening and closing sessions on two PCI devices with two         *)
(* namespaces each; no thread takes the lock for reading.                   *)
EXTENDS UnvmeSession
CONSTANTS t1, t2, t3
TwoThreads == {t1, t2}
ThreeThreads == {t1, t2, t3}
NoReaders == {}
TwoPcis == {1, 2}
AnyCallers == {TRUE, FALSE}
BadCallers == {TRUE}
=============================================================================
