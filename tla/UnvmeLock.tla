----------------------------- MODULE UnvmeLock -----------------------------
(***************************************************************************)
(* The reader-writer spin lock of unvme_lock.h, one action per atomic      *)
(* operation on the lock word: readers count in its low bits, the write    *)
(* bit is WBit (2^31 in the code).                                         *)
(***************************************************************************)
EXTENDS Integers, FiniteSets

CONSTANTS Threads,  \* threads that take the lock
          Readers,  \* the threads that may take it for reading
          WBit      \* UNVME_LOCKWBIT

\* A transient or real reader count never reaches the write bit.
ASSUME ThreadsAssumption == IsFiniteSet(Threads) /\ Readers \subseteq Threads
ASSUME WBitAssumption == WBit \in Nat /\ Cardinality(Threads) < WBit

VARIABLES lock,     \* the lock word
          pc        \* pc[t]: where thread t is

lvars == <<lock, pc>>

HasW(val) == val >= WBit

LInit == lock = 0 /\ pc = [t \in Threads |-> "idle"]

\* unvme_lockr: atomic_fetch_add; the increment is taken back, in a step of
\* its own, when the old value has the write bit.
unvme_lockr_NoCheck(t) ==
    /\ pc[t] \in {"idle", "lockr"}
    /\ lock' = lock + 1
    /\ pc' = [pc EXCEPT ![t] = "reading"]
unvme_lockr(t) ==
    /\ pc[t] \in {"idle", "lockr"}
    /\ lock' = lock + 1
    /\ pc' = [pc EXCEPT ![t] = IF HasW(lock) THEN "lockr_undo" ELSE "reading"]
lockr_undo(t) ==
    /\ pc[t] = "lockr_undo"
    /\ lock' = lock - 1
    /\ pc' = [pc EXCEPT ![t] = "lockr"]

unvme_unlockr_NoSub(t) ==
    /\ pc[t] = "reading"
    /\ pc' = [pc EXCEPT ![t] = "idle"]
    /\ UNCHANGED lock
unvme_unlockr(t) ==
    /\ pc[t] = "reading"
    /\ lock' = lock - 1
    /\ pc' = [pc EXCEPT ![t] = "idle"]

\* unvme_lockw: atomic_fetch_or.  Old value 0: the lock is taken.  No write
\* bit in it: the bit is ours, wait for the readers.  Else try again.
unvme_lockw(t) ==
    /\ pc[t] \in {"idle", "lockw"}
    /\ lock' = IF HasW(lock) THEN lock ELSE lock + WBit
    /\ pc' = [pc EXCEPT ![t] = IF lock = 0 THEN "writing"
                               ELSE IF HasW(lock) THEN "lockw" ELSE "drain"]
\* ... and the atomic_load that ends the wait.
lockw_drained_AnyReader(t) ==
    /\ pc[t] = "drain"
    /\ pc' = [pc EXCEPT ![t] = "writing"]
    /\ UNCHANGED lock
lockw_drained(t) ==
    /\ pc[t] = "drain"
    /\ lock = WBit
    /\ pc' = [pc EXCEPT ![t] = "writing"]
    /\ UNCHANGED lock

\* unvme_unlockw: atomic_fetch_and of the complement.
ClearW_Zero(val) == 0
ClearW_Lost(val) == val
ClearW(val) == IF HasW(val) THEN val - WBit ELSE val
unvme_unlockw(t) ==
    /\ pc[t] = "writing"
    /\ lock' = ClearW(lock)
    /\ pc' = [pc EXCEPT ![t] = "idle"]

LNext ==
    \E t \in Threads :
        \/ t \in Readers /\ unvme_lockr(t)
        \/ lockr_undo(t)
        \/ unvme_unlockr(t)
        \/ unvme_lockw(t)
        \/ lockw_drained(t)
        \/ unvme_unlockw(t)

LSpec == LInit /\ [][LNext]_lvars

-----------------------------------------------------------------------------
\* Every variable has its type; the word holds a write bit and a count.
LTypeOK ==
    /\ lock \in 0 .. (2 * WBit - 1)
    /\ pc \in [Threads -> {"idle", "lockr", "lockr_undo", "reading",
                           "lockw", "drain", "writing"}]

Counting == {t \in Threads : pc[t] \in {"reading", "lockr_undo"}}
Owners == {t \in Threads : pc[t] \in {"drain", "writing"}}
Reading == {t \in Threads : pc[t] = "reading"}

\* The lock word says who has it: the write bit is set while one thread, and
\* never two, drains or writes; the low bits count the readers and those that
\* have yet to take their increment back.
LockWord ==
    /\ \A t, u \in Owners : t = u
    /\ lock = Cardinality(Counting) + (IF Owners = {} THEN 0 ELSE WBit)

\* A writer is alone: no other writer, no reader.
MutualExclusion ==
    \A t, u \in Threads : pc[t] = "writing" /\ t # u => pc[u] \notin {"reading", "writing"}

\* A writer that waits for the readers to leave is not overtaken by new ones:
\* readers only leave while the write bit is set.
NoNewReaders == [][Owners # {} => Reading' \subseteq Reading]_lvars
=============================================================================
