-------------------------- MODULE NvmeQueueProofs --------------------------
(***************************************************************************)
(* Proofs about NvmeQueue for every queue size and every set of statuses.  *)
(***************************************************************************)
EXTENDS NvmeQueue, FiniteSetTheorems, TLAPS

-----------------------------------------------------------------------------
\* An index stays on the ring when nvme_submit_cmd, nvme_check_completion or
\* the controller advances it.
LEMMA SuccType == \A i \in Slots : Succ(i) \in Slots /\ Succ(i) # i
  BY SizeAssumption DEF Slots, Succ

LEMMA SlotsInt == /\ Slots \subseteq Int /\ Cids = Slots /\ 0 \in Slots /\ NoSlot \notin Slots
                  /\ \A s \in Slots : 0 <= s /\ s < Size
  BY SizeAssumption DEF Slots, Cids, NoSlot

LEMMA InitTypeOK == QInit => QTypeOK
  BY SizeAssumption, StatsAssumption DEF QInit, QTypeOK, Slots, Cids, NoSlot, NoRet

LEMMA NextTypeOK ==
  ASSUME QTypeOK, [QNext]_qvars
  PROVE  QTypeOK'
<1> USE SuccType DEF QTypeOK
<1>1. ASSUME NEW c \in Cids, Submit(c) PROVE QTypeOK'
  BY <1>1 DEF Submit, nvme_submit_cmd, TailDoorbell, devvars
<1>2. CASE Reap
  BY <1>2 DEF Reap, nvme_check_completion, EntryStatus, NextPhase, HeadDoorbell, devvars
<1>3. CASE ReapReturn
  BY <1>3, StatsAssumption DEF ReapReturn, check_completion_return, ReturnedCid, devvars
<1>4. CASE DeviceFetch
  BY <1>4 DEF DeviceFetch, hostvars
<1>5. ASSUME NEW c \in Cids, NEW st \in Stats, DevicePost(c, st) PROVE QTypeOK'
  BY <1>5 DEF DevicePost, hostvars
<1>6. CASE UNCHANGED qvars
  BY <1>6 DEF qvars, hostvars, devvars
<1> QED
  BY <1>1, <1>2, <1>3, <1>4, <1>5, <1>6 DEF QNext

\* Type correctness: whatever the caller and the controller do, indices stay
\* on their rings and phases stay bits.
THEOREM TypeCorrect == QSpec => []QTypeOK
  BY InitTypeOK, NextTypeOK, PTL DEF QSpec

-----------------------------------------------------------------------------
\* Arithmetic of the ring.  Advancing the upper end of a segment adds the
\* entry at that end, unless the segment would close on itself.
LEMMA SegGrow ==
  ASSUME NEW a \in Slots, NEW b \in Slots, Succ(b) # a
  PROVE  /\ Dist(a, Succ(b)) = Dist(a, b) + 1
         /\ ~InSeg(b, a, b)
         /\ \A s \in Slots : InSeg(s, a, Succ(b)) <=> (InSeg(s, a, b) \/ s = b)
  BY SizeAssumption DEF Slots, Succ, Dist, InSeg

\* Advancing the lower end removes the entry at that end.
LEMMA SegShrink ==
  ASSUME NEW a \in Slots, NEW b \in Slots, a # b
  PROVE  /\ Dist(Succ(a), b) = Dist(a, b) - 1
         /\ InSeg(a, a, b)
         /\ \A s \in Slots : InSeg(s, Succ(a), b) <=> (InSeg(s, a, b) /\ s # a)
  BY SizeAssumption DEF Slots, Succ, Dist, InSeg

LEMMA DistRange ==
  ASSUME NEW a \in Slots, NEW b \in Slots
  PROVE  /\ Dist(a, b) \in 0 .. (Size - 1)
         /\ Dist(a, b) = 0 <=> a = b
         /\ Dist(a, b) + 1 < Size => Succ(b) # a
  BY SizeAssumption DEF Slots, Succ, Dist

LEMMA SuccInjective == \A a, b \in Slots : Succ(a) = Succ(b) => a = b
  BY SizeAssumption DEF Slots, Succ

\* Sets of command ids are finite and have a size.
LEMMA CidSets ==
  ASSUME NEW S \in SUBSET Cids
  PROVE  /\ IsFiniteSet(S) /\ Cardinality(S) \in Nat
         /\ \A c : c \notin S => Cardinality(S \cup {c}) = Cardinality(S) + 1
         /\ \A c \in S : Cardinality(S \ {c}) = Cardinality(S) - 1
<1>1. IsFiniteSet(Cids)
  BY SizeAssumption, FS_Interval DEF Cids
<1>2. IsFiniteSet(S)
  BY <1>1, FS_Subset
<1> QED
  BY <1>2, FS_CardinalityType, FS_AddElement, FS_RemoveElement

-----------------------------------------------------------------------------
\* The inductive invariant of the queue pair.  The parts need each other: the
\* count keeps the segments from closing on themselves, the phase bits are
\* right because the segments are, and a command id is removed from one place
\* only because it is nowhere else.
QInv ==
  /\ QTypeOK
  /\ Doorbells
  /\ PhaseAgrees
  /\ Counted
  /\ InFlightOnce
  /\ ReapedEntryIntact

LEMMA InitQInv == QInit => QInv
<1> SUFFICES ASSUME QInit PROVE QInv
  OBVIOUS
<1>1. QTypeOK
  BY SizeAssumption, StatsAssumption DEF QInit, QTypeOK, Slots, Cids, NoSlot, NoRet
<1>2. Unfetched = {} /\ Posted = {}
  <2>1. \A s \in Slots : ~InSeg(s, 0, 0)
    BY SlotsInt DEF InSeg
  <2> QED
    BY <2>1 DEF QInit, Unfetched, Posted
<1>3. Doorbells /\ ReapedEntryIntact
  BY DEF QInit, Doorbells, ReapedEntryIntact
<1>4. PhaseAgrees
  BY <1>2, SlotsInt DEF QInit, PhaseAgrees
<1>5. Counted
  BY FS_EmptySet, SizeAssumption DEF QInit, Counted, Dist, Reaping
<1>6. InFlightOnce
  BY <1>2 DEF QInit, InFlightOnce
<1> QED
  BY <1>1, <1>3, <1>4, <1>5, <1>6 DEF QInv

\* What the phase test tells: there is a new completion if and only if the
\* completion ring holds a posted entry.
LEMMA PhaseTest ==
  ASSUME QTypeOK, PhaseAgrees
  PROVE  /\ NewCompletion <=> cq_head # dev_cqtail
         /\ NewCompletion <=> cq_head \in Posted
<1>1. cq_head \in Slots /\ dev_cqtail \in Slots /\ cq_head <= cq_head
  BY SlotsInt DEF QTypeOK
<1>2. NewCompletion <=> cq_head \in Posted
  BY <1>1 DEF PhaseAgrees, NewCompletion
<1>3. cq_head \in Posted <=> InSeg(cq_head, cq_head, dev_cqtail)
  BY <1>1 DEF Posted
<1>4. InSeg(cq_head, cq_head, dev_cqtail) <=> cq_head # dev_cqtail
  BY <1>1, SlotsInt DEF InSeg
<1> QED
  BY <1>2, <1>3, <1>4

-----------------------------------------------------------------------------
LEMMA SubmitQInv ==
  ASSUME QInv, NEW c \in Cids, Submit(c), QTypeOK'
  PROVE  QInv'
<1> USE DEF QInv
<1>1. /\ cidmask' = cidmask \cup {c} /\ c \notin cidmask
      /\ sq' = [sq EXCEPT ![sq_tail] = c]
      /\ sq_tail' = Succ(sq_tail) /\ sq_doorbell' = Succ(sq_tail)
      /\ cqe = NoSlot /\ cqe' = NoSlot
      /\ UNCHANGED <<cq, cq_head, cq_phase, cq_doorbell, stat, dev_sqhead,
                     dev_cqtail, dev_phase, executing>>
  BY DEF Submit, nvme_submit_cmd, TailDoorbell, devvars
<1>2. /\ sq_tail \in Slots /\ dev_sqhead \in Slots /\ sq \in [Slots -> Cids]
      /\ cidmask \in SUBSET Cids /\ executing \in SUBSET Cids
      /\ cq_head \in Slots /\ dev_cqtail \in Slots
  BY DEF QTypeOK
<1>3. Cardinality(cidmask) + 1 < Size
  BY <1>2, CidSets, SizeAssumption DEF Submit, QueueFull, Counted
<1>4. Dist(dev_sqhead, sq_tail) + 1 < Size
  BY <1>1, <1>2, <1>3, CidSets, DistRange, SizeAssumption DEF Counted, Reaping
<1>5. Succ(sq_tail) # dev_sqhead
  BY <1>2, <1>4, DistRange
<1>6. Posted' = Posted
  BY <1>1 DEF Posted
<1>7. Unfetched' = Unfetched \cup {sq_tail} /\ sq_tail \notin Unfetched
  BY <1>1, <1>2, <1>5, SegGrow DEF Unfetched
<1>8. /\ \A s \in Unfetched : s \in Slots /\ sq'[s] = sq[s]
      /\ sq'[sq_tail] = c
  BY <1>1, <1>2, <1>7 DEF Unfetched
<1>9. Doorbells'
  BY <1>1 DEF Doorbells
<1>10. PhaseAgrees'
  BY <1>1, <1>6 DEF PhaseAgrees
<1>11. Counted'
  <2>1. Cardinality(cidmask') = Cardinality(cidmask) + 1
    BY <1>1, <1>2, CidSets
  <2>2. Dist(dev_sqhead, sq_tail)' = Dist(dev_sqhead, sq_tail) + 1
    BY <1>1, <1>2, <1>5, SegGrow
  <2>3. /\ Dist(cq_head, dev_cqtail)' = Dist(cq_head, dev_cqtail)
        /\ Reaping' = Reaping /\ Reaping = 0 /\ executing' = executing
    BY <1>1 DEF Dist, Reaping
  <2>4. /\ Cardinality(executing) \in Nat /\ Cardinality(cidmask) \in Nat
        /\ Dist(dev_sqhead, sq_tail) \in Int /\ Dist(cq_head, dev_cqtail) \in Int
    BY <1>2, CidSets, DistRange
  <2> QED
    BY <2>1, <2>2, <2>3, <2>4, <1>3, SizeAssumption DEF Counted
<1>12. InFlightOnce'
  <2>1. \A s \in Unfetched' : sq'[s] \in cidmask' /\ sq'[s] \notin executing'
    BY <1>1, <1>7, <1>8 DEF InFlightOnce
  <2>2. \A s \in Posted' : cq'[s].cid \in cidmask' /\ cq'[s].cid \notin executing'
    BY <1>1, <1>6 DEF InFlightOnce
  <2>3. \A s, t \in Unfetched' : sq'[s] = sq'[t] => s = t
    BY <1>1, <1>7, <1>8 DEF InFlightOnce
  <2>4. \A s \in Unfetched', t \in Posted' : sq'[s] # cq'[t].cid
    BY <1>1, <1>6, <1>7, <1>8 DEF InFlightOnce
  <2>5. ASSUME NEW e \in cidmask'
        PROVE  \/ e \in executing'
               \/ \E s \in Unfetched' : sq'[s] = e
               \/ \E s \in Posted' : cq'[s].cid = e
               \/ cqe' # NoSlot /\ cq'[cqe'].cid = e
    BY <1>1, <1>6, <1>7, <1>8 DEF InFlightOnce
  <2> QED
    BY <1>1, <1>6, <2>1, <2>2, <2>3, <2>4, <2>5 DEF InFlightOnce
<1>13. ReapedEntryIntact'
  BY <1>1 DEF ReapedEntryIntact
<1> QED
  BY <1>9, <1>10, <1>11, <1>12, <1>13

LEMMA ReapQInv ==
  ASSUME QInv, Reap, QTypeOK'
  PROVE  QInv'
<1> USE DEF QInv
<1>1. /\ cqe = NoSlot /\ NewCompletion
      /\ cqe' = cq_head /\ stat' = cq[cq_head].stat
      /\ cq_head' = Succ(cq_head) /\ cq_doorbell' = Succ(cq_head)
      /\ cq_phase' = (IF cq_head + 1 = Size THEN 1 - cq_phase ELSE cq_phase)
      /\ UNCHANGED <<sq, sq_tail, sq_doorbell, cidmask, cq, dev_sqhead,
                     dev_cqtail, dev_phase, executing>>
  BY DEF Reap, nvme_check_completion, EntryStatus, NextPhase, HeadDoorbell, devvars
<1>2. /\ sq_tail \in Slots /\ dev_sqhead \in Slots
      /\ cidmask \in SUBSET Cids /\ executing \in SUBSET Cids
      /\ cq_head \in Slots /\ dev_cqtail \in Slots
      /\ cq_phase \in {0, 1} /\ dev_phase \in {0, 1}
      /\ \A s \in Slots : cq[s].p \in {0, 1}
  BY DEF QTypeOK
<1>3. cq_head # dev_cqtail /\ cq_head \in Posted
  BY <1>1, PhaseTest
<1>4. Unfetched' = Unfetched
  BY <1>1 DEF Unfetched
<1>5. Posted' = Posted \ {cq_head}
  BY <1>1, <1>2, <1>3, SegShrink DEF Posted
<1>6. cqe' # NoSlot
  BY <1>1, <1>2, SlotsInt
<1>7. Doorbells'
  BY <1>1 DEF Doorbells
<1>8. PhaseAgrees'
  <2>1. CASE cq_head + 1 = Size
    <3>1. cq_head' = 0 /\ cq_phase' = 1 - cq_phase
      BY <2>1, <1>1 DEF Succ
    <3>2. dev_cqtail < cq_head /\ dev_phase = cq_phase
      BY <2>1, <1>2, <1>3, SlotsInt DEF PhaseAgrees, Slots
    <3>3. \A s \in Slots : 0 <= s /\ (s # cq_head => s < cq_head)
      BY <2>1, <1>2, SlotsInt, SizeAssumption
    <3>4. ~(cq_head \in Posted') /\ cq[cq_head].p # cq_phase
      BY <1>5, <1>1 DEF NewCompletion
    <3>5. \A s \in Slots : (cq[s].p # 1 - cq_phase) <=> s \in Posted'
      <4> SUFFICES ASSUME NEW s \in Slots
                   PROVE  (cq[s].p # 1 - cq_phase) <=> s \in Posted'
        OBVIOUS
      <4>1. (cq[s].p # 1 - cq_phase) <=> cq[s].p = cq_phase
        BY <1>2
      <4>2. CASE s = cq_head
        BY <4>1, <4>2, <3>4
      <4>3. CASE s # cq_head
        <5>1. ~(cq_head <= s)
          BY <4>3, <3>3, <1>2, SlotsInt
        <5>2. (cq[s].p = cq_phase) <=> s \in Posted
          BY <5>1 DEF PhaseAgrees
        <5> QED
          BY <4>1, <4>3, <5>2, <1>5
      <4> QED
        BY <4>2, <4>3
    <3>6. (dev_phase # 1 - cq_phase) /\ 0 <= dev_cqtail
      BY <3>2, <1>2, SlotsInt
    <3> QED
      BY <3>1, <3>3, <3>5, <3>6, <1>1 DEF PhaseAgrees
  <2>2. CASE cq_head + 1 # Size
    <3>1. cq_head' = cq_head + 1 /\ cq_phase' = cq_phase
      BY <2>2, <1>1 DEF Succ
    <3>2. (dev_phase # cq_phase) <=> (cq_head + 1 <= dev_cqtail)
      BY <1>2, <1>3, SlotsInt DEF PhaseAgrees, Slots
    <3>3. cq[cq_head].p # cq_phase /\ cq_head \notin Posted'
      BY <1>1, <1>5 DEF NewCompletion
    <3>4. \A s \in Slots : /\ cq_head + 1 <= s <=> (cq_head <= s /\ s # cq_head)
                           /\ cq_head + 1 <= s => cq_head <= s
      BY <1>2, SlotsInt DEF Slots
    <3>5. \A s \in Slots :
            IF cq_head + 1 <= s THEN (cq[s].p # cq_phase) <=> s \in Posted'
                                ELSE (cq[s].p = cq_phase) <=> s \in Posted'
      BY <3>3, <3>4, <1>5 DEF PhaseAgrees
    <3> QED
      BY <3>1, <3>2, <3>5, <1>1 DEF PhaseAgrees
  <2> QED
    BY <2>1, <2>2
<1>9. Counted'
  <2>1. Dist(cq_head, dev_cqtail)' = Dist(cq_head, dev_cqtail) - 1
    BY <1>1, <1>2, <1>3, SegShrink
  <2>2. Reaping = 0 /\ Reaping' = 1
    BY <1>1, <1>6 DEF Reaping
  <2>3. Dist(dev_sqhead, sq_tail)' = Dist(dev_sqhead, sq_tail)
    BY <1>1 DEF Dist
  <2>4. /\ Cardinality(executing) \in Nat /\ Cardinality(cidmask) \in Nat
        /\ Dist(dev_sqhead, sq_tail) \in Int /\ Dist(cq_head, dev_cqtail) \in Int
    BY <1>2, CidSets, DistRange
  <2> QED
    BY <2>1, <2>2, <2>3, <2>4, <1>1 DEF Counted
<1>10. InFlightOnce'
  <2>1. ASSUME NEW e \in cidmask'
        PROVE  \/ e \in executing'
               \/ \E s \in Unfetched' : sq'[s] = e
               \/ \E s \in Posted' : cq'[s].cid = e
               \/ cqe' # NoSlot /\ cq'[cqe'].cid = e
    BY <1>1, <1>4, <1>5, <1>6 DEF InFlightOnce
  <2> QED
    BY <1>1, <1>4, <1>5, <2>1 DEF InFlightOnce
<1>11. ReapedEntryIntact'
  BY <1>1, <1>3, <1>4, <1>5 DEF ReapedEntryIntact, InFlightOnce
<1> QED
  BY <1>7, <1>8, <1>9, <1>10, <1>11

LEMMA ReapReturnQInv ==
  ASSUME QInv, ReapReturn, QTypeOK'
  PROVE  QInv'
<1> USE DEF QInv
<1> DEFINE c == cq[cqe].cid
<1>1. /\ cqe # NoSlot /\ cqe' = NoSlot
      /\ cidmask' = cidmask \ {c}
      /\ UNCHANGED <<sq, sq_tail, sq_doorbell, cq, cq_head, cq_phase, cq_doorbell,
                     dev_sqhead, dev_cqtail, dev_phase, executing>>
  BY DEF ReapReturn, check_completion_return, ReturnedCid, devvars
<1>2. /\ sq_tail \in Slots /\ dev_sqhead \in Slots
      /\ cidmask \in SUBSET Cids /\ executing \in SUBSET Cids
      /\ cq_head \in Slots /\ dev_cqtail \in Slots
  BY DEF QTypeOK
<1>3. /\ c \in cidmask /\ c \notin executing
      /\ \A s \in Unfetched : sq[s] # c
      /\ \A s \in Posted : cq[s].cid # c
  BY <1>1 DEF ReapedEntryIntact
<1>4. Unfetched' = Unfetched /\ Posted' = Posted
  BY <1>1 DEF Unfetched, Posted
<1>5. Doorbells'
  BY <1>1 DEF Doorbells
<1>6. PhaseAgrees'
  BY <1>1, <1>4 DEF PhaseAgrees
<1>7. Counted'
  <2>1. Cardinality(cidmask') = Cardinality(cidmask) - 1
    BY <1>1, <1>2, <1>3, CidSets
  <2>2. Reaping = 1 /\ Reaping' = 0
    BY <1>1 DEF Reaping
  <2>3. /\ Dist(dev_sqhead, sq_tail)' = Dist(dev_sqhead, sq_tail)
        /\ Dist(cq_head, dev_cqtail)' = Dist(cq_head, dev_cqtail)
    BY <1>1 DEF Dist
  <2>4. /\ Cardinality(executing) \in Nat /\ Cardinality(cidmask) \in Nat
        /\ Dist(dev_sqhead, sq_tail) \in Int /\ Dist(cq_head, dev_cqtail) \in Int
    BY <1>2, CidSets, DistRange
  <2> QED
    BY <2>1, <2>2, <2>3, <2>4, <1>1, SizeAssumption DEF Counted
<1>8. InFlightOnce'
  <2>1. ASSUME NEW e \in cidmask'
        PROVE  \/ e \in executing'
               \/ \E s \in Unfetched' : sq'[s] = e
               \/ \E s \in Posted' : cq'[s].cid = e
               \/ cqe' # NoSlot /\ cq'[cqe'].cid = e
    BY <1>1, <1>4 DEF InFlightOnce
  <2> QED
    BY <1>1, <1>3, <1>4, <2>1 DEF InFlightOnce
<1>9. ReapedEntryIntact'
  BY <1>1 DEF ReapedEntryIntact
<1> QED
  BY <1>5, <1>6, <1>7, <1>8, <1>9

LEMMA DeviceFetchQInv ==
  ASSUME QInv, DeviceFetch, QTypeOK'
  PROVE  QInv'
<1> USE DEF QInv
<1> DEFINE c == sq[dev_sqhead]
<1>1. /\ dev_sqhead # sq_doorbell
      /\ executing' = executing \cup {c}
      /\ dev_sqhead' = Succ(dev_sqhead)
      /\ UNCHANGED <<sq, sq_tail, sq_doorbell, cq, cq_head, cq_phase, cq_doorbell,
                     cqe, stat, dev_cqtail, dev_phase, cidmask>>
  BY DEF DeviceFetch, hostvars
<1>2. /\ sq_tail \in Slots /\ dev_sqhead \in Slots
      /\ cidmask \in SUBSET Cids /\ executing \in SUBSET Cids
      /\ cq_head \in Slots /\ dev_cqtail \in Slots
  BY DEF QTypeOK
<1>3. dev_sqhead # sq_tail
  BY <1>1 DEF Doorbells
<1>4. dev_sqhead \in Unfetched
  BY <1>2, <1>3, SegShrink DEF Unfetched
<1>5. c \in cidmask /\ c \notin executing
  BY <1>4 DEF InFlightOnce
<1>6. Unfetched' = Unfetched \ {dev_sqhead}
  BY <1>1, <1>2, <1>3, SegShrink DEF Unfetched
<1>7. Posted' = Posted
  BY <1>1 DEF Posted
<1>8. Doorbells'
  BY <1>1 DEF Doorbells
<1>9. PhaseAgrees'
  BY <1>1, <1>7 DEF PhaseAgrees
<1>10. Counted'
  <2>1. Cardinality(executing') = Cardinality(executing) + 1
    BY <1>1, <1>2, <1>5, CidSets
  <2>2. Dist(dev_sqhead, sq_tail)' = Dist(dev_sqhead, sq_tail) - 1
    BY <1>1, <1>2, <1>3, SegShrink
  <2>3. /\ Dist(cq_head, dev_cqtail)' = Dist(cq_head, dev_cqtail)
        /\ Reaping' = Reaping /\ Reaping \in Int
    BY <1>1 DEF Dist, Reaping
  <2>4. /\ Cardinality(executing) \in Nat /\ Cardinality(cidmask) \in Nat
        /\ Dist(dev_sqhead, sq_tail) \in Int /\ Dist(cq_head, dev_cqtail) \in Int
    BY <1>2, CidSets, DistRange
  <2> QED
    BY <2>1, <2>2, <2>3, <2>4, <1>1 DEF Counted
<1>11. InFlightOnce'
  <2>1. \A s \in Unfetched' : sq'[s] \in cidmask' /\ sq'[s] \notin executing'
    BY <1>1, <1>4, <1>6 DEF InFlightOnce
  <2>2. \A s \in Posted' : cq'[s].cid \in cidmask' /\ cq'[s].cid \notin executing'
    BY <1>1, <1>4, <1>7 DEF InFlightOnce
  <2>3. ASSUME NEW e \in cidmask'
        PROVE  \/ e \in executing'
               \/ \E s \in Unfetched' : sq'[s] = e
               \/ \E s \in Posted' : cq'[s].cid = e
               \/ cqe' # NoSlot /\ cq'[cqe'].cid = e
    BY <1>1, <1>6, <1>7 DEF InFlightOnce
  <2> QED
    BY <1>1, <1>5, <1>6, <1>7, <2>1, <2>2, <2>3 DEF InFlightOnce
<1>12. ReapedEntryIntact'
  BY <1>1, <1>4, <1>6, <1>7 DEF ReapedEntryIntact
<1> QED
  BY <1>8, <1>9, <1>10, <1>11, <1>12

LEMMA DevicePostQInv ==
  ASSUME QInv, NEW c \in Cids, NEW st \in Stats, DevicePost(c, st), QTypeOK'
  PROVE  QInv'
<1> USE DEF QInv
<1>1. /\ c \in executing /\ executing' = executing \ {c}
      /\ Succ(dev_cqtail) # cq_doorbell
      /\ cq' = [cq EXCEPT ![dev_cqtail] = [cid |-> c, p |-> dev_phase, stat |-> st]]
      /\ dev_cqtail' = Succ(dev_cqtail)
      /\ dev_phase' = (IF dev_cqtail + 1 = Size THEN 1 - dev_phase ELSE dev_phase)
      /\ UNCHANGED <<sq, sq_tail, sq_doorbell, cq_head, cq_phase, cq_doorbell,
                     cqe, stat, dev_sqhead, cidmask>>
  BY DEF DevicePost, hostvars
<1>2. /\ sq_tail \in Slots /\ dev_sqhead \in Slots
      /\ cidmask \in SUBSET Cids /\ executing \in SUBSET Cids
      /\ cq_head \in Slots /\ dev_cqtail \in Slots
      /\ cqe \in Slots \cup {NoSlot}
      /\ cq_phase \in {0, 1} /\ dev_phase \in {0, 1}
      /\ cq \in [Slots -> [cid : Cids, p : {0, 1}, stat : Stats]]
  BY DEF QTypeOK
<1>3. Succ(dev_cqtail) # cq_head
  BY <1>1 DEF Doorbells
<1>4. Unfetched' = Unfetched
  BY <1>1 DEF Unfetched
<1>5. Posted' = Posted \cup {dev_cqtail} /\ dev_cqtail \notin Posted
  BY <1>1, <1>2, <1>3, SegGrow DEF Posted
<1>6. /\ cq'[dev_cqtail] = [cid |-> c, p |-> dev_phase, stat |-> st]
      /\ \A s \in Slots : s # dev_cqtail => cq'[s] = cq[s]
  BY <1>1, <1>2
<1>7. /\ c \in cidmask
      /\ \A s \in Unfetched : sq[s] # c
      /\ \A s \in Posted : cq[s].cid # c
  BY <1>1 DEF InFlightOnce
<1>8. \A s \in Posted : s \in Slots /\ s # dev_cqtail /\ cq'[s] = cq[s]
  BY <1>5, <1>6 DEF Posted
\* The entry whose id is about to be read is not the one written here: that
\* entry would have to be the last before the head.
<1>9. cqe # NoSlot => cqe \in Slots /\ cqe # dev_cqtail /\ cq'[cqe] = cq[cqe]
  BY <1>2, <1>3, <1>6 DEF Doorbells
<1>10. Doorbells'
  BY <1>1 DEF Doorbells
<1>11. PhaseAgrees'
  <2>1. (dev_phase' # cq_phase) <=> (cq_head <= dev_cqtail')
    <3>1. CASE dev_cqtail + 1 = Size
      <4>1. dev_cqtail' = 0 /\ dev_phase' = 1 - dev_phase /\ cq_head # 0
        BY <3>1, <1>1, <1>3 DEF Succ
      <4>2. cq_head <= dev_cqtail /\ dev_phase # cq_phase
        BY <3>1, <1>2, SlotsInt, SizeAssumption DEF PhaseAgrees
      <4> QED
        BY <4>1, <4>2, <1>2, SlotsInt
    <3>2. CASE dev_cqtail + 1 # Size
      <4>1. dev_cqtail' = dev_cqtail + 1 /\ dev_phase' = dev_phase
            /\ cq_head # dev_cqtail + 1
        BY <3>2, <1>1, <1>3 DEF Succ
      <4>2. (cq_head <= dev_cqtail + 1) <=> (cq_head <= dev_cqtail)
        BY <4>1, <1>2, SlotsInt
      <4> QED
        BY <4>1, <4>2 DEF PhaseAgrees
    <3> QED
      BY <3>1, <3>2
  <2>2. ASSUME NEW s \in Slots
        PROVE  IF cq_head <= s THEN (cq'[s].p # cq_phase) <=> s \in Posted'
                               ELSE (cq'[s].p = cq_phase) <=> s \in Posted'
    <3>1. CASE s = dev_cqtail
      <4>1. cq'[s].p = dev_phase /\ s \in Posted'
        BY <3>1, <1>5, <1>6
      <4>2. (dev_phase # cq_phase) <=> (cq_head <= s)
        BY <3>1 DEF PhaseAgrees
      <4> QED
        BY <4>1, <4>2
    <3>2. CASE s # dev_cqtail
      BY <3>2, <1>5, <1>6 DEF PhaseAgrees
    <3> QED
      BY <3>1, <3>2
  <2> QED
    BY <2>1, <2>2, <1>1 DEF PhaseAgrees
<1>12. Counted'
  <2>1. Cardinality(executing') = Cardinality(executing) - 1
    BY <1>1, <1>2, CidSets
  <2>2. Dist(cq_head, dev_cqtail)' = Dist(cq_head, dev_cqtail) + 1
    BY <1>1, <1>2, <1>3, SegGrow
  <2>3. /\ Dist(dev_sqhead, sq_tail)' = Dist(dev_sqhead, sq_tail)
        /\ Reaping' = Reaping /\ Reaping \in Int
    BY <1>1 DEF Dist, Reaping
  <2>4. /\ Cardinality(executing) \in Nat /\ Cardinality(cidmask) \in Nat
        /\ Dist(dev_sqhead, sq_tail) \in Int /\ Dist(cq_head, dev_cqtail) \in Int
    BY <1>2, CidSets, DistRange
  <2> QED
    BY <2>1, <2>2, <2>3, <2>4, <1>1 DEF Counted
<1>13. InFlightOnce'
  <2>1. \A s \in Posted' : cq'[s].cid \in cidmask' /\ cq'[s].cid \notin executing'
    BY <1>1, <1>5, <1>6, <1>7, <1>8 DEF InFlightOnce
  <2>2. \A s, t \in Posted' : cq'[s].cid = cq'[t].cid => s = t
    BY <1>5, <1>6, <1>7, <1>8 DEF InFlightOnce
  <2>3. \A s \in Unfetched', t \in Posted' : sq'[s] # cq'[t].cid
    BY <1>1, <1>4, <1>5, <1>6, <1>7, <1>8 DEF InFlightOnce
  <2>4. ASSUME NEW e \in cidmask'
        PROVE  \/ e \in executing'
               \/ \E s \in Unfetched' : sq'[s] = e
               \/ \E s \in Posted' : cq'[s].cid = e
               \/ cqe' # NoSlot /\ cq'[cqe'].cid = e
    <3>1. CASE e = c
      BY <3>1, <1>5, <1>6
    <3>2. CASE e # c
      BY <3>2, <1>1, <1>4, <1>5, <1>8, <1>9 DEF InFlightOnce
    <3> QED
      BY <3>1, <3>2
  <2> QED
    BY <1>1, <1>4, <2>1, <2>2, <2>3, <2>4 DEF InFlightOnce
<1>14. ReapedEntryIntact'
  <2> SUFFICES ASSUME cqe' # NoSlot
               PROVE  /\ cq'[cqe'].stat = stat'
                      /\ cq'[cqe'].cid \in cidmask'
                      /\ cq'[cqe'].cid \notin executing'
                      /\ \A s \in Unfetched' : sq'[s] # cq'[cqe'].cid
                      /\ \A s \in Posted' : cq'[s].cid # cq'[cqe'].cid
    BY DEF ReapedEntryIntact
  <2>1. cqe # NoSlot /\ cqe' = cqe /\ cq'[cqe] = cq[cqe]
    BY <1>1, <1>9
  <2>2. cq[cqe].cid # c
    BY <2>1, <1>1 DEF ReapedEntryIntact
  <2> QED
    BY <2>1, <2>2, <1>1, <1>4, <1>5, <1>6, <1>8 DEF ReapedEntryIntact
<1> QED
  BY <1>10, <1>11, <1>12, <1>13, <1>14

-----------------------------------------------------------------------------
LEMMA NextQInv ==
  ASSUME QInv, [QNext]_qvars
  PROVE  QInv'
<1>1. QTypeOK'
  BY NextTypeOK DEF QInv
<1>2. CASE UNCHANGED qvars
  BY <1>2 DEF QInv, qvars, hostvars, devvars, QTypeOK, Doorbells, PhaseAgrees,
              Counted, Reaping, InFlightOnce, ReapedEntryIntact, Unfetched, Posted
<1> QED
  BY <1>1, <1>2, SubmitQInv, ReapQInv, ReapReturnQInv, DeviceFetchQInv, DevicePostQInv
     DEF QNext

\* The invariant is inductive: every step of the driver and of the controller
\* keeps it, for every size of the queue.
THEOREM QueueInvariant == QSpec => []QInv
  BY InitQInv, NextQInv, PTL DEF QSpec

\* No command is lost, executed twice or reported twice by the queue pair.
THEOREM CommandsInFlightOnce == QSpec => []InFlightOnce
<1>1. QInv => InFlightOnce
  BY DEF QInv
<1> QED
  BY <1>1, QueueInvariant, PTL

\* nvme_submit_cmd never overruns the submission ring and the controller never
\* finds the completion ring full, though neither is tested for: the ids the
\* caller keeps outstanding bound what both rings hold.
THEOREM RingsNeverOverrun == QSpec => []Counted
<1>1. QInv => Counted
  BY DEF QInv
<1> QED
  BY <1>1, QueueInvariant, PTL

\* nvme_check_completion's phase test is exact over any number of laps.
THEOREM PhaseTestExact == QSpec => []PhaseAgrees
<1>1. QInv => PhaseAgrees
  BY DEF QInv
<1> QED
  BY <1>1, QueueInvariant, PTL

\* The id that nvme_check_completion reads after the doorbell belongs to the
\* status that it took before it.
THEOREM ReadAfterDoorbellSafe == QSpec => []ReapedEntryIntact
<1>1. QInv => ReapedEntryIntact
  BY DEF QInv
<1> QED
  BY <1>1, QueueInvariant, PTL

-----------------------------------------------------------------------------
(***************************************************************************)
(* NvmeQueue implements NvmeCommands for every queue size: the rings, the  *)
(* doorbells and the phase bit keep what the abstract queue pair promises. *)
(* The invariant QInv is all that is needed.                               *)
(***************************************************************************)

\* The refinement mapping of Commands, with names.
AbsState == [c \in Cids |-> IF c \notin cidmask THEN "free"
                            ELSE IF DoneAt(c) = {} THEN "pending" ELSE "done"]
AbsStatus == [c \in Cids |-> IF c \in cidmask /\ DoneAt(c) # {}
                             THEN cq[CHOOSE s \in DoneAt(c) : TRUE].stat ELSE 0]

\* Where a completion may stand that the driver has not taken to the end.
Held == Posted \cup ({cqe} \ {NoSlot})

-----------------------------------------------------------------------------
\* A held entry is a slot; it names an outstanding command that no other held
\* entry names and that the controller is not executing.
LEMMA HeldEntries ==
  ASSUME QInv
  PROVE  /\ Held \subseteq Slots
         /\ \A s \in Held : cq[s].cid \in cidmask \ executing
         /\ \A s, t \in Held : cq[s].cid = cq[t].cid => s = t
<1>1. Held \subseteq Slots
  BY DEF QInv, QTypeOK, Held, Posted
<1>2. \A s \in Held : cq[s].cid \in cidmask \ executing
  BY DEF QInv, InFlightOnce, ReapedEntryIntact, Held
<1>3. \A s, t \in Held : cq[s].cid = cq[t].cid => s = t
  BY DEF QInv, InFlightOnce, ReapedEntryIntact, Held
<1>. QED  BY <1>1, <1>2, <1>3

\* A command has at most one held entry, whose status is its abstract status.
LEMMA DoneOnce ==
  ASSUME QInv, NEW s \in Held
  PROVE  /\ cq[s].cid \in Cids
         /\ DoneAt(cq[s].cid) = {s}
         /\ AbsState[cq[s].cid] = "done"
         /\ AbsStatus[cq[s].cid] = cq[s].stat
<1>1. cq[s].cid \in Cids /\ cq[s].cid \in cidmask
  BY HeldEntries DEF QInv, QTypeOK
<1>2. DoneAt(cq[s].cid) = {s}
  BY HeldEntries DEF DoneAt, Held
<1>3. (CHOOSE t \in {s} : TRUE) = s
  OBVIOUS
<1>. QED  BY <1>1, <1>2, <1>3 DEF AbsState, AbsStatus

\* A command keeps its abstract status as long as its entry stays.
LEMMA StatusKept ==
  ASSUME NEW d \in Cids, d \in cidmask' <=> d \in cidmask,
         DoneAt(d)' = DoneAt(d), \A s \in DoneAt(d) : cq'[s] = cq[s]
  PROVE  AbsStatus'[d] = AbsStatus[d]
<1>1. CASE d \in cidmask /\ DoneAt(d) # {}
  <2>1. (CHOOSE s \in DoneAt(d) : TRUE) \in DoneAt(d)
    BY <1>1
  <2>2. cq'[CHOOSE s \in DoneAt(d)' : TRUE] = cq[CHOOSE s \in DoneAt(d) : TRUE]
    BY <2>1
  <2>3. AbsStatus[d] = cq[CHOOSE s \in DoneAt(d) : TRUE].stat
    BY <1>1 DEF AbsStatus
  <2>4. AbsStatus'[d] = cq'[CHOOSE s \in DoneAt(d)' : TRUE].stat
    BY <1>1 DEF AbsStatus
  <2>. QED  BY <2>2, <2>3, <2>4
<1>2. CASE ~(d \in cidmask /\ DoneAt(d) # {})
  BY <1>2 DEF AbsStatus
<1>. QED  BY <1>1, <1>2

LEMMA StatusFunction ==
  /\ AbsStatus = [c \in Cids |-> AbsStatus[c]]
  /\ AbsStatus' = [c \in Cids |-> AbsStatus'[c]]
  BY DEF AbsStatus

\* The abstract state depends on cidmask and on the held entries only.
LEMMA SameView ==
  ASSUME cidmask' = cidmask, \A c \in Cids : DoneAt(c)' = DoneAt(c), cq' = cq
  PROVE  AbsState' = AbsState /\ AbsStatus' = AbsStatus
<1>1. AbsState' = AbsState
  BY DEF AbsState
<1>2. \A c \in Cids : AbsStatus'[c] = AbsStatus[c]
  BY StatusKept
<1>. QED  BY <1>1, <1>2, StatusFunction

-----------------------------------------------------------------------------
\* The driver hands over a command: its id was free and no entry named it.
LEMMA SubmitMaps ==
  ASSUME QInv, NEW c \in Cids, Submit(c)
  PROVE  Commands!Submit(c)
<1>1. /\ c \notin cidmask /\ cidmask' = cidmask \cup {c}
      /\ ~QueueFull(Cardinality(cidmask))
      /\ UNCHANGED <<cq, cq_head, dev_cqtail, cqe, ret>>
  BY DEF Submit, devvars
<1>2. \A d \in Cids : DoneAt(d)' = DoneAt(d)
  BY <1>1 DEF DoneAt, Posted
<1>3. DoneAt(c) = {}
  BY <1>1, HeldEntries DEF DoneAt, Held
<1>4. AbsState[c] = "free" /\ AbsState' = [AbsState EXCEPT ![c] = "pending"]
  BY <1>1, <1>2, <1>3 DEF AbsState
<1>5. AbsStatus' = AbsStatus
  <2>1. AbsStatus[c] = 0 /\ AbsStatus'[c] = 0
    BY <1>1, <1>2, <1>3 DEF AbsStatus
  <2>2. \A d \in Cids : d # c => AbsStatus'[d] = AbsStatus[d]
    BY <1>1, <1>2, StatusKept
  <2>. QED  BY <2>1, <2>2, StatusFunction
<1>6. {d \in Cids : AbsState[d] # "free"} = cidmask
  BY DEF AbsState, QInv, QTypeOK
<1>7. Commands!Cardinality(cidmask) = Cardinality(cidmask)
  BY DEF Cardinality, Commands!Cardinality
<1>8. Cardinality(cidmask) + 1 < Size
  BY <1>1, CidSets, SizeAssumption DEF QInv, QTypeOK, Counted, QueueFull
<1>. QED
  BY <1>1, <1>4, <1>5, <1>6, <1>7, <1>8
     DEF Commands!Submit, Commands!Outstanding, Commands!Ids, Cids, AbsState, AbsStatus

\* Taking an entry from the completion ring changes nothing yet: the entry
\* moves from the ring to the hands of nvme_check_completion.
LEMMA ReapStutters ==
  ASSUME QInv, Reap
  PROVE  AbsState' = AbsState /\ AbsStatus' = AbsStatus /\ ret' = ret
<1>1. /\ cqe = NoSlot /\ cqe' = cq_head /\ NewCompletion /\ cq_head' = Succ(cq_head)
      /\ UNCHANGED <<cq, dev_cqtail, cidmask, ret>>
  BY DEF Reap, nvme_check_completion, devvars
<1>2. cq_head \in Slots /\ dev_cqtail \in Slots /\ NoSlot \notin Slots
  BY SlotsInt DEF QInv, QTypeOK
<1>3. cq_head # dev_cqtail /\ cq_head \in Posted
  BY <1>1, PhaseTest DEF QInv
<1>4. Posted' = Posted \ {cq_head}
  BY <1>1, <1>2, <1>3, SegShrink DEF Posted
<1>5. Held' = Held
  BY <1>1, <1>2, <1>3, <1>4 DEF Held
<1>6. \A d \in Cids : DoneAt(d)' = DoneAt(d)
  BY <1>1, <1>5 DEF DoneAt, Held
<1>. QED  BY <1>1, <1>6, SameView

\* Returning the id of the entry delivers that command with its own status.
LEMMA ReapReturnMaps ==
  ASSUME QInv, ReapReturn
  PROVE  \E c \in Cids : Commands!Deliver(c)
<1>0. PICK c \in Cids : cqe \in Held /\ c = cq[cqe].cid
  BY DoneOnce DEF ReapReturn, check_completion_return, Held
<1>1. /\ cqe # NoSlot /\ cqe' = NoSlot
      /\ ret' = [cid |-> c, stat |-> stat] /\ cidmask' = cidmask \ {c}
      /\ UNCHANGED <<cq, cq_head, dev_cqtail>>
  BY <1>0 DEF ReapReturn, check_completion_return, ReturnedCid, devvars
<1>2. cqe \in Held /\ cqe \notin Posted /\ c \in cidmask /\ cq[cqe].stat = stat
  BY <1>0, <1>1 DEF QInv, ReapedEntryIntact
<1>3. AbsState[c] = "done" /\ AbsStatus[c] = stat
  BY <1>0, <1>2, DoneOnce
<1>4. \A d \in Cids : d # c => DoneAt(d)' = DoneAt(d)
  BY <1>0, <1>1 DEF DoneAt, Posted
<1>5. AbsState' = [AbsState EXCEPT ![c] = "free"]
  BY <1>1, <1>3, <1>4 DEF AbsState
<1>6. AbsStatus' = [AbsStatus EXCEPT ![c] = 0]
  <2>1. AbsStatus'[c] = 0
    BY <1>1, <1>3 DEF AbsStatus
  <2>2. \A d \in Cids : d # c => AbsStatus'[d] = AbsStatus[d]
    BY <1>1, <1>4, StatusKept
  <2>. QED  BY <2>1, <2>2, <1>3, StatusFunction
<1>7. ret' = [cid |-> c, stat |-> AbsStatus[c]]
  BY <1>1, <1>3
<1>8. Commands!Deliver(c)
  BY <1>3, <1>5, <1>6, <1>7 DEF Commands!Deliver, Commands!Ids, Cids, AbsState, AbsStatus
<1>. QED  BY <1>8

\* The controller's fetch is not seen.
LEMMA DeviceFetchStutters ==
  ASSUME DeviceFetch
  PROVE  AbsState' = AbsState /\ AbsStatus' = AbsStatus /\ ret' = ret
<1>1. UNCHANGED <<cidmask, cq, cq_head, dev_cqtail, cqe, ret>>
  BY DEF DeviceFetch, hostvars
<1>. QED  BY <1>1 DEF AbsState, AbsStatus, DoneAt, Posted

\* Posting completes the command: until now no entry named it, and the entry
\* written is none that the driver still holds.
LEMMA DevicePostMaps ==
  ASSUME QInv, NEW c \in Cids, NEW st \in Stats, DevicePost(c, st)
  PROVE  Commands!Complete(c, st)
<1>1. /\ c \in executing /\ Succ(dev_cqtail) # cq_doorbell
      /\ cq' = [cq EXCEPT ![dev_cqtail] = [cid |-> c, p |-> dev_phase, stat |-> st]]
      /\ dev_cqtail' = Succ(dev_cqtail)
      /\ UNCHANGED <<cq_head, cqe, ret, cidmask>>
  BY DEF DevicePost, hostvars
<1>2. /\ cq_head \in Slots /\ dev_cqtail \in Slots
      /\ cq \in [Slots -> [cid : Cids, p : {0, 1}, stat : Stats]]
      /\ Succ(dev_cqtail) # cq_head /\ (cqe # NoSlot => Succ(cqe) = cq_head)
  BY <1>1 DEF QInv, QTypeOK, Doorbells
<1>3. Posted' = Posted \cup {dev_cqtail} /\ dev_cqtail \notin Posted
  BY <1>1, <1>2, SegGrow DEF Posted
<1>4. dev_cqtail \notin Held /\ dev_cqtail # NoSlot
  BY <1>2, <1>3, SlotsInt DEF Held
<1>5. Held' = Held \cup {dev_cqtail}
  BY <1>1, <1>3, <1>4 DEF Held
<1>6. /\ cq'[dev_cqtail].cid = c /\ cq'[dev_cqtail].stat = st
      /\ \A s \in Held : cq'[s] = cq[s]
  BY <1>1, <1>2, <1>4, HeldEntries
<1>7. c \in cidmask /\ DoneAt(c) = {}
  BY <1>1, HeldEntries DEF DoneAt, Held, QInv, InFlightOnce
<1>8. DoneAt(c)' = {dev_cqtail}
  BY <1>5, <1>6, <1>7 DEF DoneAt, Held
<1>9. \A d \in Cids : d # c => DoneAt(d)' = DoneAt(d)
  BY <1>5, <1>6 DEF DoneAt, Held
<1>10. AbsState[c] = "pending" /\ AbsState' = [AbsState EXCEPT ![c] = "done"]
  BY <1>1, <1>7, <1>8, <1>9 DEF AbsState
<1>11. AbsStatus'[c] = st
  <2>1. (CHOOSE s \in DoneAt(c)' : TRUE) = dev_cqtail
    BY <1>8
  <2>2. AbsStatus'[c] = cq'[CHOOSE s \in DoneAt(c)' : TRUE].stat
    BY <1>1, <1>7, <1>8 DEF AbsStatus
  <2>. QED  BY <2>1, <2>2, <1>6
<1>12. ASSUME NEW d \in Cids, d # c PROVE AbsStatus'[d] = AbsStatus[d]
  <2>1. DoneAt(d)' = DoneAt(d) /\ \A s \in DoneAt(d) : cq'[s] = cq[s]
    BY <1>6, <1>9, <1>12 DEF DoneAt, Held
  <2>. QED  BY <2>1, <1>1, StatusKept
<1>13. AbsStatus' = [AbsStatus EXCEPT ![c] = st]
  BY <1>11, <1>12, StatusFunction
<1>. QED
  BY <1>1, <1>10, <1>13 DEF Commands!Complete, Commands!Ids, Cids, AbsState, AbsStatus

-----------------------------------------------------------------------------
\* A pair of queues keeps the promise of NvmeCommands, whatever its size and
\* whatever the order in which the controller completes commands: each one is
\* executed once and nvme_check_completion reports it once, with its status.
THEOREM QueueImplementsCommands == QSpec => ImplementsCommands
<1>1. QInit => Commands!CInit
  <2>. SUFFICES ASSUME QInit PROVE Commands!CInit
    OBVIOUS
  <2>1. AbsState = [c \in Cids |-> "free"] /\ AbsStatus = [c \in Cids |-> 0]
    BY DEF QInit, AbsState, AbsStatus
  <2>. QED
    BY <2>1 DEF QInit, NoRet, Commands!CInit, Commands!NoRet, Commands!Ids, Cids,
                AbsState, AbsStatus
<1>2. QInv /\ [QNext]_qvars => [Commands!CNext]_(Commands!cvars)
  <2>. SUFFICES ASSUME QInv, [QNext]_qvars
                PROVE  Commands!CNext \/ UNCHANGED Commands!cvars
    OBVIOUS
  <2>1. ASSUME AbsState' = AbsState /\ AbsStatus' = AbsStatus /\ ret' = ret
        PROVE  UNCHANGED Commands!cvars
    BY <2>1 DEF Commands!cvars, AbsState, AbsStatus
  <2>2. CASE \E c \in Cids : Submit(c)
    BY <2>2, SubmitMaps DEF Commands!CNext, Commands!Ids, Cids
  <2>3. CASE Reap
    BY <2>1, <2>3, ReapStutters
  <2>4. CASE ReapReturn
    BY <2>4, ReapReturnMaps DEF Commands!CNext, Commands!Ids, Cids
  <2>5. CASE DeviceFetch
    BY <2>1, <2>5, DeviceFetchStutters
  <2>6. CASE \E c \in Cids, st \in Stats : DevicePost(c, st)
    BY <2>6, DevicePostMaps DEF Commands!CNext, Commands!Ids, Cids
  <2>7. CASE UNCHANGED qvars
    BY <2>1, <2>7 DEF qvars, hostvars, devvars, AbsState, AbsStatus, DoneAt, Posted
  <2>. QED
    BY <2>2, <2>3, <2>4, <2>5, <2>6, <2>7 DEF QNext
<1>. QED
  BY <1>1, <1>2, QueueInvariant, PTL DEF QSpec, ImplementsCommands, Commands!CSpec
=============================================================================
