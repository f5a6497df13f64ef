-------------------------- MODULE UnvmeQueueProofs --------------------------
(***************************************************************************)
(* What UnvmeQueue promises, for every size of the queue, every number of  *)
(* descriptors and every split of an I/O.                                  *)
(*                                                                         *)
(* The parts of UInv need each other, and the ring's invariant: a          *)
(* completion has an owner because its id is outstanding (QInv) and all    *)
(* outstanding ids are shared out among the descriptors in use             *)
(* (CidAccounting); an id is got from the mask only because the count that *)
(* says the queue is not full is the mask's; and the queue's steps are     *)
(* steps of NvmeQueue, which keep QInv, because of both.                   *)
(***************************************************************************)
EXTENDS UnvmeQueue, NvmeQueueProofs, ListLemmas

Types ==
  /\ qcid \in Cids
  /\ descpend \in Descs \cup {NoDesc}
  /\ desc \in [Descs -> [cidmask : SUBSET Cids, cidcount : 0 .. Size, error : Stats]]
  /\ sync \in BOOLEAN /\ cur \in Descs \cup {NoDesc}
  /\ left \in 0 .. MaxChunks /\ err \in Stats \cup {-1}
  /\ held \subseteq Descs

\* The descriptors created so far are on one of the lists, once.
Lists ==
  /\ desclist \in Seq(Descs) /\ descfree \in Seq(Descs)
  /\ Distinct(desclist) /\ Distinct(descfree)
  /\ InUse \cap ToSet(descfree) = {}
  /\ Allocated = 1 .. (Len(desclist) + Len(descfree))
  /\ desclist # <<>> => descpend \in InUse
  /\ \A d \in ToSet(descfree) : desc[d].cidmask = {}

\* The descriptor of the call in progress is in use; the one that commands
\* are submitted for is the newest.
Calls ==
  /\ op \in {"idle", "rw", "poll", "timeout"}
  /\ op \in {"rw", "poll"} => cur \in InUse
  /\ op = "rw" => cur = desclist[Len(desclist)]

UInv == QInv /\ Types /\ Lists /\ CidAccounting /\ PendingHead /\ Calls

-----------------------------------------------------------------------------
\* Where a descriptor in use is on the list.
LEMMA AtIndex ==
  ASSUME Lists, NEW d \in InUse
  PROVE  /\ At(d) \in DOMAIN desclist /\ desclist[At(d)] = d
         /\ \A j \in DOMAIN desclist : desclist[j] = d => j = At(d)
  BY DEF Lists, InUse, ToSet, At, Distinct

LEMMA ListTypes ==
  ASSUME Lists
  PROVE  /\ Len(desclist) \in Nat /\ DOMAIN desclist = 1 .. Len(desclist)
         /\ InUse \subseteq Descs /\ ToSet(descfree) \subseteq Descs
         /\ desclist = <<>> <=> InUse = {}
         /\ NoDesc \notin Descs
         /\ \A i \in DOMAIN desclist : desclist[i] \in InUse
<1>1. NoDesc \notin Descs
  BY DescAssumption DEF NoDesc, Descs
<1>2. desclist = <<>> <=> InUse = {}
  BY DEF Lists, InUse, ToSet
<1>. QED  BY <1>1, <1>2 DEF Lists, InUse, ToSet

\* The list that starts at d: d and what is behind it first.
LEMMA RingFrom ==
  ASSUME Lists, NEW d \in InUse
  PROVE  /\ Ring(d) \in Seq(Descs) /\ Len(Ring(d)) = Len(desclist)
         /\ \A k \in At(d) .. Len(desclist) : Ring(d)[k - At(d) + 1] = desclist[k]
         /\ \A k \in 1 .. (At(d) - 1) : Ring(d)[Len(desclist) - At(d) + 1 + k] = desclist[k]
<1>1. At(d) \in DOMAIN desclist /\ desclist \in Seq(Descs)
  BY AtIndex DEF Lists
<1>2. Ring(d) \in Seq(Descs) /\ Rotated(desclist, At(d), Ring(d))
  BY <1>1, RotateSeq, Zenon DEF Ring
<1>. QED  BY <1>2 DEF Rotated

\* An entry of the ring is an entry of the list: behind d, or else before it.
LEMMA RingEntry ==
  ASSUME Lists, NEW d \in InUse, NEW m \in DOMAIN Ring(d)
  PROVE  \E k \in DOMAIN desclist :
            /\ Ring(d)[m] = desclist[k]
            /\ \/ k >= At(d) /\ m = k - At(d) + 1
               \/ k < At(d) /\ m = Len(desclist) - At(d) + 1 + k
<1>1. /\ Len(desclist) \in Nat /\ DOMAIN desclist = 1 .. Len(desclist)
      /\ At(d) \in 1 .. Len(desclist)
  BY ListTypes, AtIndex
<1>2. m \in 1 .. Len(desclist)
  BY RingFrom
<1>3. CASE m <= Len(desclist) - At(d) + 1
  <2>1. /\ At(d) + m - 1 \in At(d) .. Len(desclist)
        /\ (At(d) + m - 1) - At(d) + 1 = m /\ At(d) + m - 1 \in DOMAIN desclist
    BY <1>1, <1>2, <1>3
  <2>2. Ring(d)[m] = desclist[At(d) + m - 1]
    BY <2>1, RingFrom
  <2>. QED  BY <2>1, <2>2
<1>4. CASE ~(m <= Len(desclist) - At(d) + 1)
  <2>. DEFINE k == m - (Len(desclist) - At(d) + 1)
  <2>1. /\ k \in 1 .. (At(d) - 1) /\ Len(desclist) - At(d) + 1 + k = m /\ k < At(d)
        /\ k \in DOMAIN desclist
    BY <1>1, <1>2, <1>4
  <2>2. Ring(d)[m] = desclist[k]
    BY <2>1, RingFrom
  <2>. QED  BY <2>1, <2>2
<1>. QED  BY <1>3, <1>4

\* Every descriptor in use is on the ring.
LEMMA RingCovers ==
  ASSUME Lists, NEW d \in InUse, NEW e \in InUse
  PROVE  \E m \in DOMAIN Ring(d) : Ring(d)[m] = e
<1>1. /\ Len(desclist) \in Nat /\ DOMAIN desclist = 1 .. Len(desclist)
      /\ At(d) \in 1 .. Len(desclist)
      /\ At(e) \in 1 .. Len(desclist) /\ desclist[At(e)] = e
  BY ListTypes, AtIndex
<1>2. DOMAIN Ring(d) = 1 .. Len(desclist)
  BY RingFrom
<1>3. CASE At(e) >= At(d)
  <2>1. At(e) \in At(d) .. Len(desclist) /\ At(e) - At(d) + 1 \in DOMAIN Ring(d)
    BY <1>1, <1>2, <1>3
  <2>2. Ring(d)[At(e) - At(d) + 1] = e
    BY <2>1, <1>1, RingFrom
  <2>. QED  BY <2>1, <2>2
<1>4. CASE ~(At(e) >= At(d))
  <2>1. /\ At(e) \in 1 .. (At(d) - 1)
        /\ Len(desclist) - At(d) + 1 + At(e) \in DOMAIN Ring(d)
    BY <1>1, <1>2, <1>4
  <2>2. Ring(d)[Len(desclist) - At(d) + 1 + At(e)] = e
    BY <2>1, <1>1, RingFrom
  <2>. QED  BY <2>1, <2>2
<1>. QED  BY <1>3, <1>4

-----------------------------------------------------------------------------
\* The counts are numbers.
LEMMA Counts ==
  ASSUME UInv
  PROVE  /\ Size \in Nat /\ Size >= 2 /\ cidmask \in SUBSET Cids /\ IsFiniteSet(cidmask)
         /\ cidcount = Cardinality(cidmask) /\ cidcount \in Nat /\ cidcount < Size
<1>1. Size \in Nat /\ Size >= 2 /\ cidmask \in SUBSET Cids
  BY SizeAssumption DEF UInv, QInv, QTypeOK
<1>2. IsFiniteSet(Cids)
  BY <1>1, FS_Interval DEF Cids
<1>3. IsFiniteSet(cidmask) /\ Cardinality(cidmask) \in Nat
  BY <1>1, <1>2, FS_Subset, FS_CardinalityType
<1>. QED  BY <1>1, <1>3 DEF UInv, CidAccounting, QInv, Counted

\* unvme_get_cid finds an id, and a free one: the queue never has all of them
\* outstanding.
LEMMA FreeCidExists ==
  ASSUME UInv
  PROVE  FreeCid \in Cids \ cidmask
<1>1. Cids \ cidmask # {}
  <2>1. SUFFICES ASSUME Cids = cidmask PROVE FALSE
    BY Counts
  <2>2. Size - 1 \in Int /\ 0 \in Int /\ Size - 1 - 0 + 1 = Size /\ 0 <= Size - 1
    BY Counts
  <2>3. Cardinality(Cids) = Size
    BY <2>2, FS_Interval DEF Cids
  <2>. QED  BY <2>1, <2>3, Counts
<1>. DEFINE T == {Dist(qcid, c) : c \in Cids \ cidmask}
<1>2. qcid \in Cids
  BY DEF UInv, Types
<1>3. T \in SUBSET Nat /\ T # {}
  BY <1>1, <1>2, SizeAssumption DEF Dist, Cids
<1>4. PICK m \in T : \A k \in T : m <= k
  BY <1>3, Least
<1>5. \E c \in Cids \ cidmask : \A e \in Cids \ cidmask : Dist(qcid, c) <= Dist(qcid, e)
  BY <1>4
<1>. QED  BY <1>5 DEF FreeCid

\* An id that a completion reports belongs to a descriptor in use, from whose
\* neighbourhood the search starts: the abort is not reached.
LEMMA CompletionOwned ==
  ASSUME UInv, check_completion_return
  PROVE  /\ ret'.cid \in cidmask /\ ret'.cid \in Cids
         /\ descpend \in InUse
         /\ \E e \in InUse : ret'.cid \in desc[e].cidmask
<1>1. ret'.cid = cq[cqe].cid /\ cqe # NoSlot
  BY DEF check_completion_return, ReturnedCid
<1>2. ret'.cid \in cidmask
  BY <1>1 DEF UInv, QInv, ReapedEntryIntact
<1>3. PICK e \in InUse : ret'.cid \in desc[e].cidmask
  BY <1>2 DEF UInv, CidAccounting
<1>4. descpend \in InUse
  BY <1>3, ListTypes DEF UInv, Lists
<1>. QED  BY <1>2, <1>3, <1>4, Counts

-----------------------------------------------------------------------------
\* What the queue does to its nvmeq is what NvmeQueue allows.
LEMMA QueueSteps ==
  ASSUME UInv, [UNext]_uvars
  PROVE  [QNext]_qvars
<1>1. CASE UNCHANGED uvars
  BY <1>1 DEF uvars
<1>2. ASSUME NEW n \in Nat, NEW s \in BOOLEAN, unvme_do_rw(n, s) PROVE UNCHANGED qvars
  BY <1>2 DEF unvme_do_rw
<1>3. CASE unvme_submit_io
  <2>1. PICK c \in Cids : unvme_get_cid(cur, c) /\ nvme_submit_cmd(c)
    BY <1>3 DEF unvme_submit_io
  <2>2. c \notin cidmask /\ cidmask' = cidmask \cup {c}
    BY <2>1, FreeCidExists DEF unvme_get_cid
  <2>3. ~QueueFull(Cardinality(cidmask))
    BY <1>3, Counts DEF unvme_submit_io
  <2>4. Submit(c)
    BY <1>3, <2>1, <2>2, <2>3 DEF unvme_submit_io, Submit
  <2>. QED  BY <2>4 DEF QNext
<1>4. CASE check_completion_begin
  BY <1>4 DEF check_completion_begin, QNext, Reap
<1>5. CASE unvme_check_completion
  <2>1. check_completion_return
    BY <1>5 DEF unvme_check_completion
  <2>2. cidmask' = cidmask \ {ret'.cid}
    BY <1>5, <2>1, CompletionOwned DEF unvme_check_completion
  <2>. QED  BY <1>5, <2>1, <2>2 DEF unvme_check_completion, QNext, ReapReturn
<1>6. CASE unvme_do_rw_return
  BY <1>6 DEF unvme_do_rw_return
<1>7. CASE unvme_do_poll_return
  BY <1>7 DEF unvme_do_poll_return
<1>8. CASE check_completion_timeout
  BY <1>8 DEF check_completion_timeout
<1>9. CASE Device
  BY <1>9 DEF Device, DeviceStep, QNext
<1>10. ASSUME NEW d, unvme_apoll(d) PROVE UNCHANGED qvars
  BY <1>10 DEF unvme_apoll, unvme_do_poll
<1>11. 0 .. MaxChunks \subseteq Nat /\ 1 \in Nat
  OBVIOUS
<1>. QED
  BY <1>1, <1>2, <1>3, <1>4, <1>5, <1>6, <1>7, <1>8, <1>9, <1>10, <1>11
     DEF UNext, HostStep, unvme_aread, unvme_read, unvme_acmd, unvme_cmd, unvme_do_cmd

-----------------------------------------------------------------------------
\* The part of UInv that is not the ring's.
Own == Types /\ Lists /\ CidAccounting /\ PendingHead /\ Calls

\* Steps that leave the lists, the descriptors and the ids alone.
LEMMA Quiet ==
  ASSUME Lists, CidAccounting, PendingHead, UNCHANGED <<qstate, cidmask>>
  PROVE  Lists' /\ CidAccounting' /\ PendingHead'
<1>1. /\ desclist' = desclist /\ descfree' = descfree /\ descpend' = descpend
      /\ desc' = desc /\ cidmask' = cidmask /\ cidcount' = cidcount
  BY DEF qstate
<1>2. InUse' = InUse /\ ToSet(descfree)' = ToSet(descfree) /\ Allocated' = Allocated
  BY <1>1 DEF InUse, Allocated
<1>3. Lists'
  BY <1>1, <1>2 DEF Lists, Distinct
<1>4. CidAccounting'
  BY <1>1, <1>2 DEF CidAccounting
<1>5. PendingHead'
  BY <1>1 DEF PendingHead
<1>. QED  BY <1>3, <1>4, <1>5

LEMMA OwnInit == UInit => Own
<1>. SUFFICES ASSUME UInit PROVE Own
  OBVIOUS
<1>1. /\ InitDescs \in Nat \ {0} /\ MaxDesc \in Nat /\ InitDescs <= MaxDesc
      /\ Size \in Nat /\ Size >= 2 /\ MaxChunks \in Nat /\ 0 \in Stats
  BY DescAssumption, SizeAssumption, ChunkAssumption, StatsAssumption
<1>2. Types
  <2>1. ZeroDesc \in [cidmask : SUBSET Cids, cidcount : 0 .. Size, error : Stats]
    BY <1>1 DEF ZeroDesc, Cids
  <2>2. desc \in [Descs -> [cidmask : SUBSET Cids, cidcount : 0 .. Size, error : Stats]]
    BY <2>1 DEF UInit
  <2>3. err \in Stats \cup {-1} /\ left \in 0 .. MaxChunks /\ held \subseteq Descs
    BY <1>1 DEF UInit
  <2>4. qcid \in Cids /\ descpend \in Descs
    BY <1>1 DEF UInit, Cids, Descs
  <2>5. cur = NoDesc /\ sync \in BOOLEAN
    BY Zenon DEF UInit
  <2>. QED  BY <2>2, <2>3, <2>4, <2>5 DEF Types
<1>3. desclist = <<>> /\ InUse = {}
  BY DEF UInit, InUse, ToSet
<1>4. ToSet(descfree) = 1 .. InitDescs /\ Len(descfree) = InitDescs /\ descfree \in Seq(Descs)
  BY <1>1 DEF UInit, ToSet, Descs
<1>5. Distinct(descfree) /\ Distinct(desclist)
  BY <1>1, <1>3 DEF UInit, Distinct
<1>6. Allocated = 1 .. (Len(desclist) + Len(descfree))
  BY <1>1, <1>3, <1>4 DEF Allocated
<1>7. \A d \in ToSet(descfree) : desc[d].cidmask = {}
  BY <1>1, <1>4 DEF UInit, ZeroDesc, Descs
<1>8. Lists
  BY <1>3, <1>4, <1>5, <1>6, <1>7 DEF Lists
<1>9. CidAccounting
  <2>1. cidmask = {} /\ cidcount = 0
    BY DEF UInit, QInit
  <2>. QED  BY <2>1, <1>3, FS_EmptySet DEF CidAccounting
<1>10. PendingHead /\ Calls
  BY <1>3 DEF PendingHead, Calls, UInit
<1>. QED  BY <1>2, <1>8, <1>9, <1>10 DEF Own

\* unvme_desc_get: the descriptor that an I/O gets was not in use.
LEMMA OwnGet ==
  ASSUME UInv, NEW n \in 0 .. MaxChunks, NEW s \in BOOLEAN, unvme_do_rw(n, s)
  PROVE  Own'
<1>. USE DEF UInv
<1>1. PICK d \in Descs : unvme_desc_get(d) /\ cur' = d
  BY DEF unvme_do_rw
<1>2. /\ desclist \in Seq(Descs) /\ descfree \in Seq(Descs)
      /\ Distinct(desclist) /\ Distinct(descfree)
      /\ Len(desclist) \in Nat /\ Len(descfree) \in Nat
      /\ InUse \cap ToSet(descfree) = {}
      /\ Allocated = InUse \cup ToSet(descfree)
      /\ Allocated = 1 .. (Len(desclist) + Len(descfree))
  BY DEF Lists, Allocated
<1>3. /\ d \notin InUse
      /\ descfree' \in Seq(Descs) /\ Distinct(descfree') /\ Len(descfree') \in Nat
      /\ ToSet(descfree') = ToSet(descfree) \ {d}
      /\ Allocated \cup {d} = 1 .. (Len(desclist) + 1 + Len(descfree'))
  <2>1. CASE descfree # <<>>
    <3>1. d = Head(descfree) /\ descfree' = Tail(descfree)
      BY <2>1, <1>1 DEF unvme_desc_get
    <3>2. /\ d \in ToSet(descfree) /\ descfree' \in Seq(Descs) /\ Distinct(descfree')
          /\ ToSet(descfree') = ToSet(descfree) \ {d} /\ Len(descfree') = Len(descfree) - 1
      BY <3>1, <2>1, <1>2, TailList
    <3>3. Len(descfree') \in Nat /\ Len(desclist) + 1 + Len(descfree') = Len(desclist) + Len(descfree)
      BY <3>2, <1>2
    <3>. QED  BY <3>2, <3>3, <1>2
  <2>2. CASE descfree = <<>>
    <3>1. d = Len(desclist) + 1 /\ descfree' = descfree
      BY <2>2, <1>1 DEF unvme_desc_get
    <3>2. ToSet(descfree) = {} /\ Len(descfree) = 0
      BY <2>2 DEF ToSet
    <3>3. InUse = 1 .. Len(desclist)
      BY <3>2, <1>2
    <3>4. d \notin InUse /\ InUse \cup {d} = 1 .. (Len(desclist) + 1)
      BY <3>1, <3>3, <1>2
    <3>. QED  BY <3>1, <3>2, <3>4, <1>2
  <2>. QED  BY <2>1, <2>2
<1>4. /\ desclist' \in Seq(Descs) /\ Len(desclist') = Len(desclist) + 1
      /\ \A i \in DOMAIN desclist : desclist'[i] = desclist[i]
      /\ desclist'[Len(desclist) + 1] = d
      /\ InUse' = InUse \cup {d} /\ Distinct(desclist')
  <2>1. desclist' = Append(desclist, d)
    BY <1>1 DEF unvme_desc_get
  <2>. QED  BY <2>1, <1>2, <1>3, AppendList DEF InUse
<1>5. /\ DOMAIN desclist' = 1 .. (Len(desclist) + 1)
      /\ DOMAIN desclist = 1 .. Len(desclist) /\ desclist' # <<>>
      /\ \A i \in DOMAIN desclist : desclist[i] \in InUse
      /\ InUse \subseteq Descs /\ ToSet(descfree) \subseteq Descs
  BY <1>4, <1>2, ListTypes
<1>6. /\ desc' = [desc EXCEPT ![d] = ZeroDesc]
      /\ desc \in [Descs -> [cidmask : SUBSET Cids, cidcount : 0 .. Size, error : Stats]]
  BY <1>1 DEF unvme_desc_get, Types
<1>7. /\ desc' \in [Descs -> [cidmask : SUBSET Cids, cidcount : 0 .. Size, error : Stats]]
      /\ \A e \in Descs : e # d => desc'[e] = desc[e]
      /\ desc'[d].cidmask = {} /\ desc'[d].cidcount = 0
  <2>1. ZeroDesc \in [cidmask : SUBSET Cids, cidcount : 0 .. Size, error : Stats]
    BY SizeAssumption, StatsAssumption DEF ZeroDesc, Cids
  <2>2. desc'[d] = ZeroDesc /\ \A e \in Descs : e # d => desc'[e] = desc[e]
    BY <1>6
  <2>3. desc'[d].cidmask = {} /\ desc'[d].cidcount = 0
    BY <2>2 DEF ZeroDesc
  <2>. QED  BY <1>6, <2>1, <2>2, <2>3
<1>8. descpend' = (IF desclist = <<>> THEN d ELSE descpend)
  BY <1>1 DEF unvme_desc_get, PendAfterGet
<1>9. Types'
  BY <1>1, <1>7, <1>8 DEF Types, unvme_do_rw
<1>10. Lists'
  <2>1. InUse' \cap ToSet(descfree)' = {}
    BY <1>2, <1>3, <1>4
  <2>2. Allocated' = 1 .. (Len(desclist') + Len(descfree'))
    BY <1>2, <1>3, <1>4 DEF Allocated
  <2>3. descpend' \in InUse'
    BY <1>4, <1>8 DEF Lists
  <2>4. \A e \in ToSet(descfree') : desc'[e].cidmask = {}
    BY <1>3, <1>5, <1>7 DEF Lists
  <2>. QED  BY <1>3, <1>4, <2>1, <2>2, <2>3, <2>4 DEF Lists
<1>11. CidAccounting'
  <2>1. cidmask' = cidmask /\ cidcount' = cidcount
    BY DEF unvme_do_rw, qvars
  <2>2. \A e \in InUse : desc'[e] = desc[e]
    BY <1>3, <1>5, <1>7
  <2>3. cidmask = UNION {desc'[e].cidmask : e \in InUse'}
    <3>1. cidmask = UNION {desc[e].cidmask : e \in InUse}
      BY DEF CidAccounting
    <3>2. UNION {desc'[e].cidmask : e \in InUse'} = UNION {desc[e].cidmask : e \in InUse}
      BY <2>2, <1>4, <1>7
    <3>. QED  BY <3>1, <3>2
  <2>4. \A e \in InUse' : desc'[e].cidcount = Cardinality(desc'[e].cidmask)
    BY <2>2, <1>4, <1>7, FS_EmptySet DEF CidAccounting
  <2>5. \A e, f \in InUse' : e # f => desc'[e].cidmask \cap desc'[f].cidmask = {}
    BY <2>2, <1>4, <1>7 DEF CidAccounting
  <2>. QED  BY <2>1, <2>3, <2>4, <2>5 DEF CidAccounting
<1>12. PendingHead'
  <2>. SUFFICES ASSUME NEW i \in DOMAIN desclist', NEW j \in DOMAIN desclist',
                       desclist'[j] = descpend', i < j
                PROVE  desc'[desclist'[i]].cidcount = 0
    BY DEF PendingHead
  <2>1. i \in DOMAIN desclist
    BY <1>5
  <2>2. desclist # <<>>
    BY <2>1, <1>5
  <2>3. descpend' = descpend /\ descpend \in InUse
    BY <2>2, <1>8 DEF Lists
  <2>4. j # Len(desclist) + 1
    BY <2>3, <1>3, <1>4
  <2>5. j \in DOMAIN desclist /\ desclist[j] = descpend
    BY <2>3, <2>4, <1>2, <1>4, <1>5
  <2>6. desc[desclist[i]].cidcount = 0
    BY <2>1, <2>5 DEF PendingHead
  <2>7. desclist'[i] = desclist[i] /\ desclist[i] \in InUse
    BY <2>1, <1>4, <1>5
  <2>. QED  BY <2>6, <2>7, <1>3, <1>5, <1>7
<1>13. Calls'
  BY <1>1, <1>4 DEF Calls, unvme_do_rw
<1>. QED  BY <1>9, <1>10, <1>11, <1>12, <1>13 DEF Own

\* unvme_get_cid and the submission: the id becomes the current descriptor's,
\* which is the newest, so none behind it is overtaken by the pending head.
LEMMA OwnSubmit ==
  ASSUME UInv, unvme_submit_io
  PROVE  Own'
<1>. USE DEF UInv
<1>1. PICK c \in Cids : unvme_get_cid(cur, c)
  BY DEF unvme_submit_io
<1>2. c \notin cidmask /\ cidmask' = cidmask \cup {c} /\ cidcount' = cidcount + 1
  BY <1>1, FreeCidExists DEF unvme_get_cid
<1>3. /\ cur \in InUse /\ cur \in Descs /\ InUse \subseteq Descs
      /\ ToSet(descfree) \subseteq Descs /\ cur = desclist[Len(desclist)]
  BY ListTypes DEF unvme_submit_io, Calls
<1>4. /\ desclist' = desclist /\ descfree' = descfree /\ descpend' = descpend
      /\ InUse' = InUse /\ ToSet(descfree)' = ToSet(descfree) /\ Allocated' = Allocated
      /\ op' = op /\ cur' = cur
  BY DEF unvme_submit_io, InUse, Allocated
<1>5. /\ desc \in [Descs -> [cidmask : SUBSET Cids, cidcount : 0 .. Size, error : Stats]]
      /\ desc' = [desc EXCEPT ![cur].cidmask = @ \cup {c}, ![cur].cidcount = @ + 1]
  BY <1>1 DEF unvme_get_cid, Types
<1>6. /\ \A e \in Descs : e # cur => desc'[e] = desc[e]
      /\ desc'[cur].cidmask = desc[cur].cidmask \cup {c}
      /\ desc'[cur].cidcount = desc[cur].cidcount + 1
      /\ desc'[cur].error = desc[cur].error
      /\ desc'[cur] = [cidmask |-> desc[cur].cidmask \cup {c},
                       cidcount |-> desc[cur].cidcount + 1, error |-> desc[cur].error]
  BY <1>3, <1>5
<1>7. /\ desc[cur].cidmask \subseteq cidmask /\ IsFiniteSet(desc[cur].cidmask)
      /\ desc[cur].cidcount = Cardinality(desc[cur].cidmask)
      /\ desc[cur].cidcount \in Nat /\ desc[cur].cidcount < Size
  <2>1. desc[cur].cidmask \subseteq cidmask /\ desc[cur].cidcount = Cardinality(desc[cur].cidmask)
    BY <1>3 DEF CidAccounting
  <2>2. /\ IsFiniteSet(desc[cur].cidmask) /\ Cardinality(desc[cur].cidmask) \in Nat
        /\ Cardinality(desc[cur].cidmask) <= Cardinality(cidmask)
    BY <2>1, Counts, FS_Subset, FS_CardinalityType
  <2>. QED  BY <2>1, <2>2, Counts
<1>8. Types'
  <2>1. qcid' \in Cids
    BY <1>1, SizeAssumption DEF unvme_get_cid, NextCid, Succ, Cids
  <2>2. desc'[cur] \in [cidmask : SUBSET Cids, cidcount : 0 .. Size, error : Stats]
    BY <1>3, <1>5, <1>6, <1>7, SizeAssumption
  <2>3. desc' \in [Descs -> [cidmask : SUBSET Cids, cidcount : 0 .. Size, error : Stats]]
    BY <2>2, <1>5, <1>6
  <2>4. left' \in 0 .. MaxChunks
    BY ChunkAssumption DEF unvme_submit_io, Types
  <2>. QED  BY <2>1, <2>3, <2>4, <1>4 DEF unvme_submit_io, Types
<1>9. Lists'
  <2>1. \A d \in ToSet(descfree) : desc'[d].cidmask = {}
    BY <1>3, <1>6 DEF Lists
  <2>. QED  BY <2>1, <1>4 DEF Lists, Distinct
<1>10. CidAccounting'
  <2>1. cidcount' = Cardinality(cidmask')
    BY <1>2, Counts, FS_AddElement
  <2>2. desc'[cur].cidcount = Cardinality(desc'[cur].cidmask)
    BY <1>2, <1>6, <1>7, FS_AddElement
  <2>3. \A e \in InUse : e # cur => desc'[e] = desc[e]
    BY <1>3, <1>6
  <2>4. \A e \in InUse : desc[e].cidmask \subseteq cidmask
    BY DEF CidAccounting
  <2>5. cidmask' = UNION {desc'[e].cidmask : e \in InUse}
    <3>1. cidmask = UNION {desc[e].cidmask : e \in InUse}
      BY DEF CidAccounting
    <3>. QED  BY <3>1, <2>3, <1>2, <1>3, <1>6
  <2>6. \A e \in InUse : desc'[e].cidcount = Cardinality(desc'[e].cidmask)
    BY <2>2, <2>3 DEF CidAccounting
  <2>7. \A e, f \in InUse : e # f => desc'[e].cidmask \cap desc'[f].cidmask = {}
    BY <2>3, <2>4, <1>2, <1>3, <1>6 DEF CidAccounting
  <2>. QED  BY <2>1, <2>5, <2>6, <2>7, <1>4 DEF CidAccounting
<1>11. PendingHead'
  <2>. SUFFICES ASSUME NEW i \in DOMAIN desclist, NEW j \in DOMAIN desclist,
                       desclist[j] = descpend, i < j
                PROVE  desc'[desclist[i]].cidcount = 0
    BY <1>4 DEF PendingHead
  <2>1. desclist[i] \in Descs /\ Len(desclist) \in DOMAIN desclist /\ i # Len(desclist)
    BY ListTypes
  <2>2. desclist[i] # cur
    BY <2>1, <1>3 DEF Lists, Distinct
  <2>. QED  BY <2>1, <2>2, <1>6 DEF PendingHead
<1>12. Calls'
  BY <1>4 DEF Calls
<1>. QED  BY <1>8, <1>9, <1>10, <1>11, <1>12 DEF Own

\* The owner that the search finds, and the place where the pending head
\* stops: the first of the ring with the property, if any has it.
LEMMA OwnerFound ==
  ASSUME Lists, descpend \in InUse, NEW c, NEW e \in InUse, c \in desc[e].cidmask
  PROVE  Owner(c) \in InUse /\ c \in desc[Owner(c)].cidmask
<1>1. PICK k \in DOMAIN Ring(descpend) : Ring(descpend)[k] = e
  BY RingCovers
<1>2. Ring(descpend) \in Seq(Descs)
  BY RingFrom
<1>. DEFINE T == {d \in Descs : c \in desc[d].cidmask}
<1>3. \E m \in DOMAIN Ring(descpend) :
         Ring(descpend)[m] \in T /\ \A j \in 1 .. (m - 1) : Ring(descpend)[j] \notin T
  <2>1. Ring(descpend)[k] \in T
    BY <1>1, ListTypes
  <2>. QED  BY <1>1, <1>2, <2>1, FirstIndex
<1>4. \A j \in DOMAIN Ring(descpend) : Ring(descpend)[j] \in Descs
  BY <1>2
<1>5. PICK m \in DOMAIN Ring(descpend) :
         Owner(c) = Ring(descpend)[m] /\ c \in desc[Ring(descpend)[m]].cidmask
  <2>1. \E m \in DOMAIN Ring(descpend) :
           /\ c \in desc[Ring(descpend)[m]].cidmask
           /\ \A j \in 1 .. (m - 1) : ~(c \in desc[Ring(descpend)[j]].cidmask)
    <3>1. PICK m \in DOMAIN Ring(descpend) :
             Ring(descpend)[m] \in T /\ \A j \in 1 .. (m - 1) : Ring(descpend)[j] \notin T
      BY <1>3
    <3>2. \A j \in 1 .. (m - 1) : j \in DOMAIN Ring(descpend)
      BY <1>2
    <3>. QED  BY <3>1, <3>2, <1>4
  <2>. QED  BY <2>1 DEF Owner, First
<1>6. Ring(descpend)[m] \in InUse
  BY RingEntry, ListTypes
<1>. QED  BY <1>5, <1>6

LEMMA PendingFound ==
  ASSUME Lists, descpend \in InUse, NEW D, NEW e \in InUse, D[e].cidcount # 0
  PROVE  \E k \in DOMAIN desclist :
            /\ desclist[k] = First(Ring(descpend), LAMBDA x : D[x].cidcount # 0)
            /\ D[desclist[k]].cidcount # 0
            /\ k >= At(descpend) =>
                  \A i \in At(descpend) .. (k - 1) : D[desclist[i]].cidcount = 0
<1>1. PICK k \in DOMAIN Ring(descpend) : Ring(descpend)[k] = e
  BY RingCovers
<1>2. Ring(descpend) \in Seq(Descs)
  BY RingFrom
<1>. DEFINE T == {d \in Descs : D[d].cidcount # 0}
<1>3. PICK m \in DOMAIN Ring(descpend) :
         Ring(descpend)[m] \in T /\ \A j \in 1 .. (m - 1) : Ring(descpend)[j] \notin T
  <2>1. Ring(descpend)[k] \in T
    BY <1>1, ListTypes
  <2>. QED  BY <1>1, <1>2, <2>1, FirstIndex
<1>4. \A j \in DOMAIN Ring(descpend) : Ring(descpend)[j] \in Descs
  BY <1>2
<1>5. \E n \in DOMAIN Ring(descpend) :
         /\ D[Ring(descpend)[n]].cidcount # 0
         /\ \A j \in 1 .. (n - 1) : ~(D[Ring(descpend)[j]].cidcount # 0)
  <2>1. \A j \in 1 .. (m - 1) : j \in DOMAIN Ring(descpend)
    BY <1>2
  <2>. QED  BY <2>1, <1>3, <1>4
<1>6. PICK n \in DOMAIN Ring(descpend) :
         /\ First(Ring(descpend), LAMBDA x : D[x].cidcount # 0) = Ring(descpend)[n]
         /\ D[Ring(descpend)[n]].cidcount # 0
         /\ \A j \in 1 .. (n - 1) : D[Ring(descpend)[j]].cidcount = 0
  BY <1>5 DEF First
<1>7. PICK l \in DOMAIN desclist :
         /\ Ring(descpend)[n] = desclist[l]
         /\ \/ l >= At(descpend) /\ n = l - At(descpend) + 1
            \/ l < At(descpend) /\ n = Len(desclist) - At(descpend) + 1 + l
  BY RingEntry
<1>8. ASSUME l >= At(descpend), NEW i \in At(descpend) .. (l - 1)
      PROVE  D[desclist[i]].cidcount = 0
  <2>1. /\ i - At(descpend) + 1 \in 1 .. (n - 1) /\ i \in At(descpend) .. Len(desclist)
    BY <1>7, <1>8, ListTypes, AtIndex
  <2>2. Ring(descpend)[i - At(descpend) + 1] = desclist[i]
    BY <2>1, RingFrom
  <2>. QED  BY <2>1, <2>2, <1>6
<1>. QED  BY <1>6, <1>7, <1>8

\* unvme_check_completion: the id leaves its owner and the queue; the pending
\* head stops at the oldest descriptor that is left with one.
LEMMA OwnCompletion ==
  ASSUME UInv, unvme_check_completion
  PROVE  Own'
<1>. USE DEF UInv
<1>1. PICK c : c = ret'.cid
  OBVIOUS
<1>2. check_completion_return
  BY DEF unvme_check_completion
<1>3. /\ c \in cidmask /\ c \in Cids /\ descpend \in InUse
      /\ \E e \in InUse : c \in desc[e].cidmask
  BY <1>1, <1>2, CompletionOwned
<1>4. PICK d : d = Owner(c)
  OBVIOUS
<1>5. d \in InUse /\ c \in desc[d].cidmask
  BY <1>3, <1>4, OwnerFound
<1>6. PICK D : D = [desc EXCEPT ![d].cidmask = @ \ {c}, ![d].cidcount = @ - 1,
                               ![d].error = IF stat # 0 THEN stat ELSE @]
  OBVIOUS
<1>7. /\ desc' = D /\ cidmask' = cidmask \ {c} /\ cidcount' = cidcount - 1 /\ qcid' = c
      /\ err' = IF op = "poll" THEN stat ELSE err
  BY <1>1, <1>3, <1>4, <1>6 DEF unvme_check_completion
<1>8. /\ desclist' = desclist /\ descfree' = descfree
      /\ InUse' = InUse /\ ToSet(descfree)' = ToSet(descfree) /\ Allocated' = Allocated
      /\ cur' = cur /\ sync' = sync /\ left' = left /\ held' = held
  BY DEF unvme_check_completion, InUse, Allocated
<1>9. /\ InUse \subseteq Descs /\ ToSet(descfree) \subseteq Descs /\ Len(desclist) \in Nat
      /\ DOMAIN desclist = 1 .. Len(desclist)
      /\ \A i \in DOMAIN desclist : desclist[i] \in InUse
  BY ListTypes
<1>10. desc \in [Descs -> [cidmask : SUBSET Cids, cidcount : 0 .. Size, error : Stats]]
  BY DEF Types
<1>11. /\ \A e \in Descs : e # d => D[e] = desc[e]
       /\ D[d].cidmask = desc[d].cidmask \ {c}
       /\ D[d].cidcount = desc[d].cidcount - 1
       /\ D[d] = [cidmask |-> desc[d].cidmask \ {c}, cidcount |-> desc[d].cidcount - 1,
                   error |-> IF stat # 0 THEN stat ELSE desc[d].error]
  BY <1>5, <1>6, <1>9, <1>10
<1>12. /\ IsFiniteSet(desc[d].cidmask) /\ desc[d].cidcount = Cardinality(desc[d].cidmask)
       /\ Cardinality(desc[d].cidmask \ {c}) = Cardinality(desc[d].cidmask) - 1
       /\ desc[d].cidcount \in 1 .. Size
  <2>1. desc[d].cidmask \subseteq cidmask /\ desc[d].cidcount = Cardinality(desc[d].cidmask)
    BY <1>5 DEF CidAccounting
  <2>2. IsFiniteSet(desc[d].cidmask)
    BY <2>1, Counts, FS_Subset
  <2>3. Cardinality(desc[d].cidmask \ {c}) = Cardinality(desc[d].cidmask) - 1
    BY <2>2, <1>5, FS_RemoveElement
  <2>4. Cardinality(desc[d].cidmask) # 0
    BY <2>2, <1>5, FS_EmptySet
  <2>5. desc[d].cidcount \in 0 .. Size
    BY <1>5, <1>9, <1>10
  <2>. QED  BY <2>1, <2>2, <2>3, <2>4, <2>5, SizeAssumption
<1>13. desc' \in [Descs -> [cidmask : SUBSET Cids, cidcount : 0 .. Size, error : Stats]]
  <2>1. D[d] \in [cidmask : SUBSET Cids, cidcount : 0 .. Size, error : Stats]
    <3>1. desc[d].cidmask \ {c} \in SUBSET Cids /\ desc[d].error \in Stats
      BY <1>5, <1>9, <1>10
    <3>2. desc[d].cidcount - 1 \in 0 .. Size /\ stat \in Stats
      BY <1>12, SizeAssumption DEF QInv, QTypeOK
    <3>. QED  BY <3>1, <3>2, <1>11
  <2>2. D \in [Descs -> [cidmask : SUBSET Cids, cidcount : 0 .. Size, error : Stats]]
    <3>1. DOMAIN D = Descs /\ D = [e \in Descs |-> D[e]]
      BY <1>6, <1>10
    <3>2. \A e \in Descs : D[e] \in [cidmask : SUBSET Cids, cidcount : 0 .. Size, error : Stats]
      BY <2>1, <1>10, <1>11
    <3>. QED  BY <3>1, <3>2
  <2>. QED  BY <2>2, <1>7
<1>14. CidAccounting'
  <2>1. cidcount' = Cardinality(cidmask')
    BY <1>3, <1>7, Counts, FS_RemoveElement
  <2>2. D[d].cidcount = Cardinality(D[d].cidmask)
    BY <1>11, <1>12
  <2>3. \A e \in InUse : e # d => D[e] = desc[e]
    BY <1>9, <1>11
  <2>4. \A e \in InUse : e # d => c \notin desc[e].cidmask
    BY <1>5 DEF CidAccounting
  <2>5. cidmask' = UNION {D[e].cidmask : e \in InUse}
    <3>1. cidmask = UNION {desc[e].cidmask : e \in InUse}
      BY DEF CidAccounting
    <3>. QED  BY <3>1, <2>3, <2>4, <1>5, <1>7, <1>11
  <2>6. \A e \in InUse : D[e].cidcount = Cardinality(D[e].cidmask)
    BY <2>2, <2>3 DEF CidAccounting
  <2>7. \A e, f \in InUse : e # f => D[e].cidmask \cap D[f].cidmask = {}
    BY <2>3, <1>11 DEF CidAccounting
  <2>. QED  BY <2>1, <2>5, <2>6, <2>7, <1>7, <1>8 DEF CidAccounting
\* The pending head finds a descriptor to stop at.
<1>15. ASSUME cidcount' # 0 PROVE \E e \in InUse : D[e].cidcount # 0
  <2>1. cidmask' # {}
    BY <1>14, <1>15, FS_EmptySet DEF CidAccounting
  <2>2. PICK e \in InUse : D[e].cidmask # {}
    BY <2>1, <1>7, <1>8, <1>14 DEF CidAccounting
  <2>3. D[e].cidcount = Cardinality(D[e].cidmask) /\ D[e].cidmask \subseteq cidmask
    BY <1>7, <1>8, <1>14 DEF CidAccounting
  <2>4. IsFiniteSet(D[e].cidmask)
    BY <2>3, Counts, FS_Subset
  <2>. QED  BY <2>2, <2>3, <2>4, FS_EmptySet
<1>16. /\ op' = op
       /\ descpend' = IF cidcount' = 0 THEN descpend
                      ELSE First(Ring(descpend), LAMBDA e : D[e].cidcount # 0)
  BY <1>1, <1>3, <1>4, <1>7, <1>15 DEF unvme_check_completion
\* A descriptor without pending ids stays without.
<1>17. \A e \in InUse : desc[e].cidcount = 0 => D[e].cidcount = 0
  BY <1>9, <1>11, <1>12
<1>18. ASSUME cidcount' # 0
       PROVE  \E k \in DOMAIN desclist :
                 /\ desclist[k] = descpend'
                 /\ \A i \in 1 .. (k - 1) : D[desclist[i]].cidcount = 0
  <2>1. PICK k \in DOMAIN desclist :
           /\ desclist[k] = First(Ring(descpend), LAMBDA x : D[x].cidcount # 0)
           /\ D[desclist[k]].cidcount # 0
           /\ k >= At(descpend) =>
                 \A i \in At(descpend) .. (k - 1) : D[desclist[i]].cidcount = 0
    BY <1>3, <1>15, <1>18, PendingFound
  <2>2. desclist[k] = descpend'
    BY <2>1, <1>16, <1>18
  <2>3. At(descpend) \in DOMAIN desclist /\ desclist[At(descpend)] = descpend
    BY <1>3, AtIndex
  <2>4. \A i \in DOMAIN desclist : i < At(descpend) => D[desclist[i]].cidcount = 0
    BY <2>3, <1>9, <1>17 DEF PendingHead
  <2>5. k >= At(descpend)
    BY <2>1, <2>3, <2>4, <1>9
  <2>6. ASSUME NEW i \in 1 .. (k - 1) PROVE D[desclist[i]].cidcount = 0
    <3>1. i \in DOMAIN desclist /\ (i < At(descpend) \/ i \in At(descpend) .. (k - 1))
      BY <2>3, <1>9
    <3>. QED  BY <3>1, <2>1, <2>4, <2>5
  <2>. QED  BY <2>2, <2>6
<1>19. descpend' \in InUse
  BY <1>3, <1>9, <1>16, <1>18
<1>20. Types'
  <2>1. qcid' \in Cids /\ descpend' \in Descs \cup {NoDesc}
    BY <1>3, <1>7, <1>9, <1>19
  <2>2. err' \in Stats \cup {-1}
    BY <1>7 DEF Types, QInv, QTypeOK
  <2>. QED  BY <2>1, <2>2, <1>8, <1>13 DEF Types
<1>21. Lists'
  <2>1. \A e \in ToSet(descfree) : desc'[e].cidmask = {}
    BY <1>5, <1>7, <1>9, <1>11 DEF Lists
  <2>. QED  BY <2>1, <1>8, <1>19 DEF Lists, Distinct
<1>22. PendingHead'
  <2>. SUFFICES ASSUME NEW i \in DOMAIN desclist, NEW j \in DOMAIN desclist,
                       desclist[j] = descpend', i < j
                PROVE  D[desclist[i]].cidcount = 0
    BY <1>7, <1>8 DEF PendingHead
  <2>1. CASE cidcount' = 0
    BY <2>1, <1>9, <1>16, <1>17 DEF PendingHead
  <2>2. CASE cidcount' # 0
    <3>1. PICK k \in DOMAIN desclist :
             desclist[k] = descpend' /\ \A l \in 1 .. (k - 1) : D[desclist[l]].cidcount = 0
      BY <2>2, <1>18
    <3>2. j = k
      BY <3>1 DEF Lists, Distinct
    <3>. QED  BY <3>1, <3>2, <1>9
  <2>. QED  BY <2>1, <2>2
<1>23. Calls'
  BY <1>8, <1>16 DEF Calls
<1>. QED  BY <1>14, <1>20, <1>21, <1>22, <1>23 DEF Own

\* unvme_do_poll returns and unvme_desc_put takes a descriptor without
\* pending ids off the use list; the next one is the pending head if it was.
LEMMA OwnPut ==
  ASSUME UInv, unvme_do_poll_return, Releases
  PROVE  Own'
<1>. USE DEF UInv
<1>1. /\ cur \in InUse /\ unvme_desc_put(cur) /\ desc' = desc /\ cidmask' = cidmask
      /\ cidcount' = cidcount /\ qcid' = qcid
  BY DEF unvme_do_poll_return, PollReturns, Calls, qvars
<1>2. PICK k : k = At(cur)
  OBVIOUS
<1>3. /\ k \in DOMAIN desclist /\ desclist[k] = cur
      /\ desclist \in Seq(Descs) /\ descfree \in Seq(Descs)
      /\ Distinct(desclist) /\ Distinct(descfree) /\ cur \in Descs
      /\ DOMAIN desclist = 1 .. Len(desclist) /\ Len(desclist) \in Nat
  BY <1>1, <1>2, AtIndex, ListTypes DEF Lists
<1>4. PICK r : r = desclist'
  OBVIOUS
<1>5. /\ r \in Seq(Descs) /\ Len(r) = Len(desclist) - 1
      /\ \A j \in 1 .. (k - 1) : r[j] = desclist[j]
      /\ \A j \in k .. (Len(desclist) - 1) : r[j] = desclist[j + 1]
      /\ ToSet(r) = InUse \ {cur} /\ Distinct(r)
  <2>1. r = RemoveAt(desclist, k)
    BY <1>1, <1>2, <1>4 DEF unvme_desc_put
  <2>. QED  BY <2>1, <1>3, RemoveAtSeq, RemoveList DEF InUse
<1>6. DOMAIN r = 1 .. (Len(desclist) - 1) /\ InUse' = InUse \ {cur}
  BY <1>4, <1>5 DEF InUse
<1>7. ASSUME NEW i \in DOMAIN r, NEW j \in DOMAIN r, i < j
      PROVE  \E a, b \in DOMAIN desclist :
                a < b /\ a # k /\ b # k /\ r[i] = desclist[a] /\ r[j] = desclist[b]
  <2>. DEFINE a == IF i < k THEN i ELSE i + 1
              b == IF j < k THEN j ELSE j + 1
  <2>1. a \in DOMAIN desclist /\ b \in DOMAIN desclist /\ a < b /\ a # k /\ b # k
    BY <1>3, <1>6, <1>7
  <2>2. r[i] = desclist[a] /\ r[j] = desclist[b]
    BY <1>3, <1>5, <1>6
  <2>. QED  BY <2>1, <2>2
<1>8. /\ descfree' \in Seq(Descs) /\ Len(descfree') = Len(descfree) + 1
      /\ ToSet(descfree') = ToSet(descfree) \cup {cur} /\ Distinct(descfree')
  <2>1. cur \notin ToSet(descfree) /\ descfree' = Append(descfree, cur)
    BY <1>1 DEF Lists, unvme_desc_put
  <2>. QED  BY <2>1, <1>3, AppendList
\* The next descriptor, when it is the pending head that leaves.
<1>9. ASSUME cur = descpend, Len(desclist) > 1
      PROVE  \E l \in DOMAIN desclist :
                descpend' = desclist[l] /\ l # k /\ (l = k + 1 \/ l = 1)
  <2>1. descpend' = Ring(cur)[2]
    BY <1>1, <1>9 DEF unvme_desc_put, PendAfterPut
  <2>2. 2 \in DOMAIN Ring(cur)
    BY <1>1, <1>9, RingFrom
  <2>3. PICK l \in DOMAIN desclist :
           /\ Ring(cur)[2] = desclist[l]
           /\ \/ l >= k /\ 2 = l - k + 1
              \/ l < k /\ 2 = Len(desclist) - k + 1 + l
    BY <1>1, <1>2, <2>2, RingEntry
  <2>4. l # k /\ (l = k + 1 \/ l = 1)
    BY <2>3, <1>3
  <2>. QED  BY <2>1, <2>3, <2>4
<1>10. cur # descpend => descpend' = descpend
  BY <1>1 DEF unvme_desc_put, PendAfterPut
<1>11. descpend' \in Descs \cup {NoDesc} /\ (r # <<>> => descpend' \in InUse')
  <2>1. CASE cur # descpend
    <3>1. descpend \in InUse
      BY <1>1, ListTypes DEF Lists
    <3>. QED  BY <2>1, <3>1, <1>6, <1>10 DEF Types
  <2>2. CASE cur = descpend /\ Len(desclist) > 1
    <3>1. PICK l \in DOMAIN desclist : descpend' = desclist[l] /\ l # k
      BY <2>2, <1>9
    <3>2. desclist[l] \in InUse /\ desclist[l] # cur /\ desclist[l] \in Descs
      BY <3>1, <1>3, ListTypes DEF Distinct
    <3>. QED  BY <3>1, <3>2, <1>6
  <2>3. CASE cur = descpend /\ ~(Len(desclist) > 1)
    <3>1. descpend' = NoDesc
      BY <2>3, <1>1 DEF unvme_desc_put, PendAfterPut
    <3>2. r = <<>>
      BY <2>3, <1>3, <1>5
    <3>. QED  BY <3>1, <3>2
  <2>. QED  BY <2>1, <2>2, <2>3
<1>12. Types'
  <2>1. err' \in Stats \cup {-1} /\ cur' = NoDesc /\ left' = left
    BY StatsAssumption DEF unvme_do_poll_return
  <2>2. sync' \in BOOLEAN
    BY Zenon DEF unvme_do_poll_return
  <2>3. held' \subseteq Descs
    BY DEF unvme_do_poll_return, Types
  <2>. QED  BY <2>1, <2>2, <2>3, <1>1, <1>11 DEF Types
<1>13. desc[cur].cidmask = {}
  <2>1. desc[cur].cidmask \subseteq cidmask /\ Cardinality(desc[cur].cidmask) = 0
    BY <1>1 DEF CidAccounting, Releases
  <2>. QED  BY <2>1, Counts, FS_Subset, FS_EmptySet
<1>14. Lists'
  <2>1. InUse' \cap ToSet(descfree') = {}
    BY <1>6, <1>8 DEF Lists
  <2>2. Len(desclist') + Len(descfree') = Len(desclist) + Len(descfree) /\ Len(descfree) \in Nat
    BY <1>3, <1>4, <1>5, <1>8
  <2>3. Allocated' = Allocated
    BY <1>1, <1>6, <1>8 DEF Allocated
  <2>4. \A e \in ToSet(descfree') : desc'[e].cidmask = {}
    BY <1>1, <1>8, <1>13 DEF Lists
  <2>5. Allocated' = 1 .. (Len(desclist') + Len(descfree'))
    BY <2>2, <2>3 DEF Lists
  <2>6. desclist' \in Seq(Descs) /\ Distinct(desclist') /\ (desclist' # <<>> => descpend' \in InUse')
    BY <1>4, <1>5, <1>11
  <2>. QED  BY <2>1, <2>4, <2>5, <2>6, <1>8 DEF Lists
<1>15. CidAccounting'
  <2>1. UNION {desc[e].cidmask : e \in InUse'} = UNION {desc[e].cidmask : e \in InUse}
    BY <1>1, <1>6, <1>13
  <2>. QED  BY <2>1, <1>1, <1>6 DEF CidAccounting
<1>16. PendingHead'
  <2>. SUFFICES ASSUME NEW i \in DOMAIN r, NEW j \in DOMAIN r, r[j] = descpend', i < j
                PROVE  desc[r[i]].cidcount = 0
    BY <1>1, <1>4 DEF PendingHead
  <2>1. PICK a, b \in DOMAIN desclist :
           a < b /\ a # k /\ b # k /\ r[i] = desclist[a] /\ r[j] = desclist[b]
    BY <1>7
  <2>2. CASE cur # descpend
    BY <2>1, <2>2, <1>10 DEF PendingHead
  <2>3. CASE cur = descpend
    <3>1. Len(desclist) > 1
      BY <1>3, <1>6
    <3>2. PICK l \in DOMAIN desclist : descpend' = desclist[l] /\ (l = k + 1 \/ l = 1)
      BY <2>3, <3>1, <1>9
    <3>3. b = l
      BY <2>1, <3>2, <1>3 DEF Distinct
    <3>4. a < k
      BY <2>1, <3>2, <3>3, <1>3
    <3>. QED  BY <2>1, <2>3, <3>4, <1>3 DEF PendingHead
  <2>. QED  BY <2>2, <2>3
<1>17. Calls'
  BY DEF unvme_do_poll_return, Calls
<1>. QED  BY <1>12, <1>14, <1>15, <1>16, <1>17 DEF Own

\* The other steps of the thread, and the controller's.
LEMMA OwnQuiet ==
  ASSUME UInv,
         \/ UNCHANGED uvars \/ unvme_do_rw_return \/ \E d \in Descs : unvme_apoll(d)
         \/ check_completion_begin \/ check_completion_timeout \/ Device
         \/ (unvme_do_poll_return /\ ~Releases)
  PROVE  Own'
<1>. USE DEF UInv
<1>1. UNCHANGED <<qstate, cidmask>>
  <2>1. ASSUME Device PROVE UNCHANGED <<qstate, cidmask>>
    BY <2>1 DEF Device, DeviceStep, DeviceFetch, DevicePost
  <2>2. ASSUME unvme_do_poll_return, ~Releases PROVE UNCHANGED <<qstate, cidmask>>
    BY <2>2 DEF unvme_do_poll_return, qvars
  <2>. QED
    BY <2>1, <2>2 DEF uvars, qvars, unvme_do_rw_return, unvme_apoll, unvme_do_poll,
                      check_completion_begin, check_completion_timeout
<1>2. Lists' /\ CidAccounting' /\ PendingHead'
  BY <1>1, Quiet
<1>3. /\ desclist' = desclist /\ InUse' = InUse /\ qcid' = qcid /\ descpend' = descpend
      /\ desc' = desc
  BY <1>1 DEF qstate, InUse
<1>4. CASE UNCHANGED callvars
  BY <1>2, <1>3, <1>4 DEF Own, Types, Calls, callvars
<1>5. CASE unvme_do_rw_return
  <2>1. /\ sync' = sync /\ left' = left /\ err' = err
        /\ (cur' = cur \/ cur' = NoDesc) /\ (held' = held \/ held' = held \cup {cur})
        /\ ((op' = "poll" /\ cur' = cur) \/ op' = "idle")
    <3>1. CASE sync
      BY <1>5, <3>1, Zenon DEF unvme_do_rw_return
    <3>2. CASE ~sync
      BY <1>5, <3>2, Zenon DEF unvme_do_rw_return
    <3>. QED  BY <3>1, <3>2, Zenon
  <2>2. cur \in InUse /\ cur \in Descs
    BY <1>5, ListTypes DEF unvme_do_rw_return, Calls
  <2>3. Types'
    BY <2>1, <2>2, <1>3 DEF Types
  <2>. QED  BY <2>1, <2>2, <2>3, <1>2, <1>3 DEF Own, Calls
<1>6. ASSUME NEW d \in Descs, unvme_apoll(d) PROVE Own'
  <2>1. /\ sync' = sync /\ left' = left /\ err' = err /\ held' = held
        /\ cur' = d /\ op' = "poll" /\ d \in InUse
    BY <1>6 DEF unvme_apoll, unvme_do_poll
  <2>2. Types'
    BY <2>1, <1>3 DEF Types
  <2>. QED  BY <2>1, <2>2, <1>2, <1>3 DEF Own, Calls
<1>7. CASE check_completion_timeout
  <2>1. /\ sync' = sync /\ left' = left /\ cur' = cur /\ held' = held
    BY <1>7, Zenon DEF check_completion_timeout
  <2>2. (err' = -1 /\ op' = op) \/ (err' = err /\ op' = "timeout")
    BY <1>7, Zenon DEF check_completion_timeout
  <2>3. Types'
    BY <2>1, <2>2, <1>3 DEF Types
  <2>. QED  BY <2>1, <2>2, <2>3, <1>2, <1>3 DEF Own, Calls
<1>8. CASE unvme_do_poll_return
  <2>1. /\ left' = left /\ cur' = NoDesc /\ err' = 0 /\ op' = "idle"
        /\ (held' = held \/ held' = held \ {cur})
    BY <1>8 DEF unvme_do_poll_return
  <2>2. sync' \in BOOLEAN
    BY <1>8, Zenon DEF unvme_do_poll_return
  <2>3. Types'
    BY <2>1, <2>2, <1>3, StatsAssumption DEF Types
  <2>. QED  BY <2>1, <2>3, <1>2, <1>3 DEF Own, Calls
<1>. QED
  BY <1>4, <1>5, <1>6, <1>7, <1>8 DEF uvars, check_completion_begin, Device

-----------------------------------------------------------------------------
\* UInv is inductive.
LEMMA UInvInit == UInit => UInv
  BY OwnInit, InitQInv DEF UInit, UInv, Own

LEMMA UInvNext == UInv /\ [UNext]_uvars => UInv'
<1>. SUFFICES ASSUME UInv, [UNext]_uvars PROVE UInv'
  OBVIOUS
<1>1. QInv'
  BY QueueSteps, NextQInv DEF UInv
<1>2. ASSUME NEW n \in 0 .. MaxChunks, NEW s \in BOOLEAN, unvme_do_rw(n, s) PROVE Own'
  BY <1>2, OwnGet
<1>3. 1 \in 0 .. MaxChunks
  BY ChunkAssumption
<1>4. Own'
  BY <1>2, <1>3, OwnSubmit, OwnCompletion, OwnPut, OwnQuiet
     DEF UNext, HostStep, unvme_aread, unvme_read, unvme_acmd, unvme_cmd, unvme_do_cmd
<1>. QED  BY <1>1, <1>4 DEF UInv, Own

THEOREM DescriptorInvariant == USpec => []UInv
  BY UInvInit, UInvNext, PTL DEF USpec

\* Every variable of the I/O queue has its type: ids, indices and counts stay
\* in range over any number of calls.
THEOREM QueueTypeCorrect == USpec => []UTypeOK
<1>1. UInv => UTypeOK
  <2>. SUFFICES ASSUME UInv PROVE UTypeOK
    OBVIOUS
  <2>1. cidcount \in 0 .. (Size - 1)
    BY Counts
  <2>2. InUse \subseteq Descs /\ ToSet(descfree) \subseteq Descs
    BY ListTypes DEF UInv
  <2>. QED  BY <2>1, <2>2 DEF UInv, QInv, Types, Calls, UTypeOK
<1>. QED  BY <1>1, DescriptorInvariant, PTL

\* The ids outstanding in the queue are shared out among the descriptors in
\* use and the two levels of counts and masks of unvme_core.c agree, across
\* unvme_get_cid, completions for other descriptors and release.
THEOREM IdsAccountedFor == USpec => []CidAccounting
<1>1. UInv => CidAccounting
  BY DEF UInv
<1>. QED  BY <1>1, DescriptorInvariant, PTL

\* A descriptor is on the use list or on the free list, once, and
\* unvme_check_completion has a pending head to start from.
THEOREM DescriptorOnOneList == USpec => []DescLists
<1>1. UInv => DescLists
  BY DistinctCount DEF UInv, Lists, DescLists, InUse
<1>. QED  BY <1>1, DescriptorInvariant, PTL

\* No descriptor older than the pending head waits for a completion.
THEOREM PendingHeadOldest == USpec => []PendingHead
<1>1. UInv => PendingHead
  BY DEF UInv
<1>. QED  BY <1>1, DescriptorInvariant, PTL

\* unvme_check_completion never finds a completion without an owner and never
\* runs around the list for ever.
THEOREM CompletionsOwned == USpec => []EveryCompletionOwned
<1>1. UInv => EveryCompletionOwned
  BY DEF UInv, Calls, EveryCompletionOwned
<1>. QED  BY <1>1, DescriptorInvariant, PTL

\* The I/O queue uses its nvmeq as NvmeQueue says: it submits free ids only,
\* and never more than the ring holds.
THEOREM QueueContractKept == USpec => KeepsQueueContract
<1>1. UInit => QInit
  BY DEF UInit
<1>2. UInv /\ [UNext]_uvars => [QNext]_qvars
  BY QueueSteps
<1>. QED  BY <1>1, <1>2, DescriptorInvariant, PTL DEF USpec, QSpec, KeepsQueueContract

\* Hence the whole driver above the ring gives what NvmeCommands promises:
\* each id is answered once, with its own status.
THEOREM DriverImplementsCommands == USpec => ImplementsCommands
  BY QueueContractKept, QueueImplementsCommands, PTL DEF KeepsQueueContract

-----------------------------------------------------------------------------
\* Without failures.  A poll of the application's that gives up keeps the
\* descriptor, as commands of it are pending then and until it returns.
Lossless ==
  /\ NoDescriptorLost
  /\ op \in {"idle", "rw", "poll"}
  /\ op = "idle" => cur = NoDesc
  /\ op = "idle" => sync = FALSE
  /\ op = "poll" /\ sync = FALSE => cur \in held
  /\ err \in {0, -1}
  /\ err = -1 => op = "poll" /\ sync = FALSE /\ cqe = NoSlot /\ desc[cur].cidcount # 0

\* What desc_get and desc_put do to the descriptors in use.
LEMMA InUseGet ==
  ASSUME UInv, NEW n, NEW s, unvme_do_rw(n, s)
  PROVE  InUse' = InUse \cup {cur'} /\ cur' \in Descs
<1>1. PICK d \in Descs : unvme_desc_get(d) /\ cur' = d
  BY DEF unvme_do_rw
<1>2. desclist' = Append(desclist, d) /\ desclist \in Seq(Descs)
  BY <1>1 DEF unvme_desc_get, UInv, Lists
<1>. QED  BY <1>1, <1>2, AppendList DEF InUse

LEMMA InUsePut ==
  ASSUME UInv, op = "poll", unvme_desc_put(cur)
  PROVE  InUse' = InUse \ {cur}
<1>1. cur \in InUse /\ desclist \in Seq(Descs) /\ Distinct(desclist)
  BY DEF UInv, Calls, Lists
<1>2. At(cur) \in DOMAIN desclist /\ desclist[At(cur)] = cur
  BY <1>1, AtIndex DEF UInv
<1>3. desclist' = RemoveAt(desclist, At(cur))
  BY DEF unvme_desc_put
<1>. QED  BY <1>1, <1>2, <1>3, RemoveList DEF InUse

LEMMA LosslessNext ==
  ASSUME Stats = {0}, CanTimeout = FALSE, UInv, Lossless, [UNext]_uvars
  PROVE  Lossless'
<1>1. /\ InUse = held \cup ({cur} \ {NoDesc}) /\ sync \in BOOLEAN /\ stat = 0
      /\ NoDesc \notin Descs
  BY ListTypes DEF UInv, Lossless, NoDescriptorLost, Types, QInv, QTypeOK
<1>2. ASSUME NEW n, NEW s \in BOOLEAN, unvme_do_rw(n, s) PROVE Lossless'
  <2>1. InUse' = InUse \cup {cur'} /\ cur' # NoDesc
    BY <1>1, <1>2, InUseGet
  <2>2. held' = held /\ err' = err /\ op' = "rw" /\ op = "idle"
    BY <1>2 DEF unvme_do_rw
  <2>. QED  BY <1>1, <2>1, <2>2 DEF Lossless, NoDescriptorLost
<1>3. CASE unvme_submit_io
  <2>1. InUse' = InUse /\ held' = held /\ cur' = cur /\ op' = "rw" /\ err' = err /\ op = "rw"
    BY <1>3 DEF unvme_submit_io, InUse
  <2>. QED  BY <2>1 DEF Lossless, NoDescriptorLost
<1>4. CASE unvme_do_rw_return
  <2>1. /\ InUse' = InUse /\ err' = err /\ op = "rw" /\ sync' = sync /\ cur \in InUse
        /\ cur # NoDesc
    BY <1>1, <1>4, ListTypes DEF unvme_do_rw_return, InUse, qstate, UInv, Calls
  <2>2. CASE sync = TRUE
    <3>1. held' = held /\ cur' = cur /\ op' = "poll"
      BY <1>4, <2>2, Zenon DEF unvme_do_rw_return
    <3>. QED  BY <2>1, <2>2, <3>1 DEF Lossless, NoDescriptorLost
  <2>3. CASE sync = FALSE
    <3>1. held' = held \cup {cur} /\ cur' = NoDesc /\ op' = "idle"
      BY <1>4, <2>3, Zenon DEF unvme_do_rw_return
    <3>. QED  BY <1>1, <2>1, <2>3, <3>1 DEF Lossless, NoDescriptorLost
  <2>. QED  BY <1>1, <2>2, <2>3
<1>5. ASSUME NEW d \in Descs, unvme_apoll(d) PROVE Lossless'
  <2>1. /\ InUse' = InUse /\ err' = err /\ op = "idle" /\ op' = "poll" /\ sync' = sync
        /\ held' = held /\ cur' = d /\ d \in held
    BY <1>5 DEF unvme_apoll, unvme_do_poll, InUse, qstate
  <2>. QED  BY <1>1, <2>1 DEF Lossless, NoDescriptorLost
<1>6. CASE check_completion_begin
  <2>1. /\ InUse' = InUse /\ err' = err /\ op' = op /\ sync' = sync /\ held' = held
        /\ cur' = cur
    BY <1>6 DEF check_completion_begin, InUse, qstate, callvars
  <2>2. err # -1
    BY <1>6 DEF check_completion_begin, PollWaits, GetCidWaits, Lossless
  <2>. QED  BY <2>1, <2>2 DEF Lossless, NoDescriptorLost
<1>7. CASE unvme_check_completion
  <2>1. check_completion_return /\ cqe # NoSlot
    BY <1>7 DEF unvme_check_completion, check_completion_return
  <2>2. /\ descpend \in InUse /\ \E e \in InUse : ret'.cid \in desc[e].cidmask
    BY <2>1, CompletionOwned
  <2>3. err' = IF op = "poll" THEN stat ELSE err
    BY <1>7, <2>2 DEF unvme_check_completion
  <2>4. Calls' /\ op' \in {op, "notfound", "endless"}
    BY <1>7, OwnCompletion DEF Own, unvme_check_completion
  <2>5. op' = op
    BY <2>4 DEF Calls
  <2>6. InUse' = InUse /\ sync' = sync /\ cur' = cur /\ held' = held
    BY <1>7 DEF unvme_check_completion, InUse
  <2>7. err # -1
    BY <2>1 DEF Lossless
  <2>. QED  BY <1>1, <2>3, <2>5, <2>6, <2>7 DEF Lossless, NoDescriptorLost
<1>8. CASE check_completion_timeout
  <2>1. InUse' = InUse /\ sync' = sync /\ cur' = cur /\ held' = held /\ desc' = desc /\ cqe' = cqe
    BY <1>8 DEF check_completion_timeout, InUse, qstate, qvars, hostvars
  <2>2. cqe = NoSlot /\ PollWaits /\ ~sync /\ err' = -1 /\ op' = op
    BY <1>8, Zenon DEF check_completion_timeout
  <2>3. op = "poll" /\ desc[cur].cidcount # 0
    <3>1. cur \in Descs
      BY <2>2, ListTypes DEF PollWaits, UInv, Calls
    <3>2. desc[cur].cidcount \in 0 .. Size
      BY <3>1 DEF UInv, Types
    <3>. QED  BY <2>2, <3>2 DEF PollWaits
  <2>4. sync = FALSE
    BY <1>1, <2>2, Zenon
  <2>. QED  BY <2>1, <2>2, <2>3, <2>4 DEF Lossless, NoDescriptorLost
<1>9. CASE unvme_do_poll_return
  <2>1. /\ op = "poll" /\ (err # 0 \/ desc[cur].cidcount = 0) /\ cqe = NoSlot
        /\ op' = "idle" /\ cur' = NoDesc /\ err' = 0
    BY <1>9 DEF unvme_do_poll_return, PollReturns
  <2>2. sync' = FALSE
    BY <1>9, Zenon DEF unvme_do_poll_return
  <2>3. CASE err = 0
    <3>1. Releases /\ unvme_desc_put(cur) /\ held' = held \ {cur}
      BY <1>9, <2>1, <2>3 DEF unvme_do_poll_return, Releases
    <3>2. InUse' = InUse \ {cur}
      BY <2>1, <3>1, InUsePut
    <3>. QED  BY <1>1, <2>1, <2>2, <3>1, <3>2 DEF Lossless, NoDescriptorLost
  <2>4. CASE err # 0
    <3>1. err = -1 /\ cur \in held /\ desc[cur].cidcount # 0
      BY <2>1, <2>4 DEF Lossless
    <3>2. InUse' = InUse /\ held' = held
      BY <1>9, <2>4, <3>1 DEF unvme_do_poll_return, Releases, InUse, qstate
    <3>. QED  BY <1>1, <2>1, <2>2, <3>1, <3>2 DEF Lossless, NoDescriptorLost
  <2>. QED  BY <2>3, <2>4
<1>10. CASE Device \/ UNCHANGED uvars
  <2>1. UNCHANGED <<qstate, callvars, cqe>>
    BY <1>10 DEF Device, DeviceStep, DeviceFetch, DevicePost, uvars, qvars, hostvars
  <2>2. InUse' = InUse
    BY <2>1 DEF InUse, qstate
  <2>. QED  BY <2>1, <2>2 DEF Lossless, NoDescriptorLost, qstate, callvars
<1>. QED
  BY <1>2, <1>3, <1>4, <1>5, <1>6, <1>7, <1>8, <1>9, <1>10
     DEF UNext, HostStep, unvme_aread, unvme_read, unvme_acmd, unvme_cmd, unvme_do_cmd

\* When no command fails and no wait runs out, a descriptor in use belongs to
\* the call in progress or is held by the application, and the other way
\* round: unvme_do_poll releases exactly what the application gives up.
THEOREM NoDescriptorLeaks ==
  ASSUME Stats = {0}, CanTimeout = FALSE
  PROVE  USpec => []NoDescriptorLost
<1>1. UInit => Lossless
  <2>. SUFFICES ASSUME UInit PROVE Lossless
    OBVIOUS
  <2>1. sync = FALSE
    BY Zenon DEF UInit
  <2>2. op = "idle" /\ cur = NoDesc /\ err = 0 /\ held = {} /\ InUse = {}
    BY DEF UInit, InUse, ToSet
  <2>. QED  BY <2>1, <2>2 DEF Lossless, NoDescriptorLost
<1>2. UInv /\ Lossless /\ [UNext]_uvars => Lossless'
  BY LosslessNext
<1>3. Lossless => NoDescriptorLost
  BY DEF Lossless
<1>. QED  BY <1>1, <1>2, <1>3, DescriptorInvariant, PTL DEF USpec
=============================================================================
