---------------------------- MODULE MCUnvmeQueue ----------------------------
(* Constants for UnvmeQueue: command ids on a ring of three or four entries, *)
(* up to three descriptors of which the last is allocated on demand.         *)
EXTENDS UnvmeQueue
StatsOk == {0}
StatsFail == {0, 1}

(* What the next steps can depend on.  The driver and the controller use a   *)
(* ring from its head to its tail only, by the phase bit as PhaseAgrees says *)
(* (proved for every size in NvmeQueueProofs, as are Doorbells, InFlightOnce *)
(* and ReapedEntryIntact), so where on the ring they are makes no            *)
(* difference: a ring is its entries in order.  A command id is compared     *)
(* with qcid, not with a position.  ret and the error field of a descriptor  *)
(* are never read; descriptors are told apart by their place in the use list *)
(* only, and one on the free list is cleared before it is used and cannot be *)
(* polled.  Whether the ring facts hold is kept in the view, so that a state *)
(* in which one fails is never taken for another.                            *)
Nth(a, i) == (a + i - 1) % Size
UnfetchedCids == [i \in 1 .. Dist(dev_sqhead, sq_tail) |-> sq[Nth(dev_sqhead, i)]]
PostedEntries ==
    [i \in 1 .. Dist(cq_head, dev_cqtail) |->
        LET e == cq[Nth(cq_head, i)] IN <<e.cid, e.stat>>]
Reaped == IF cqe = NoSlot THEN <<>> ELSE <<cq[cqe].cid, cq[cqe].stat>>
RingFacts == Doorbells /\ PhaseAgrees /\ InFlightOnce /\ ReapedEntryIntact
Place(i) ==
    LET d == desclist[i]
    IN  <<desc[d].cidmask, desc[d].cidcount, d = descpend, d = cur, d \in held>>
LiveView ==
    <<UnfetchedCids, PostedEntries, Reaped, RingFacts, stat, cidmask, executing,
      qcid, cidcount, [i \in DOMAIN desclist |-> Place(i)], descpend \in InUse,
      Len(descfree), op, sync, left, err>>
=============================================================================
