-------------------------- MODULE MCBuddyAllocator --------------------------
(* Two threads on three blocks of four units, two of which a refill takes:  *)
(* both refill, and the pool runs out.  With two free lists a thread that   *)
(* starts after another has ended finds none left.                          *)
EXTENDS BuddyAllocator
CONSTANTS t1, t2
TwoThreads == {t1, t2}
=============================================================================
