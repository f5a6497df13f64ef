----------------------------- MODULE UnvmeQueue -----------------------------
(***************************************************************************)
(* The I/O queue of unvme_core.c (unvme_queue_t) on top of the NVMe queue  *)
(* pair: descriptors moving between the free and the use list, command ids *)
(* handed out from a bit mask, a call split into several commands, a full  *)
(* queue that completes a command of any descriptor before it submits, and *)
(* polling that completes commands of descriptors other than the polled.   *)
(*                                                                         *)
(* One thread drives a queue, its steps interleave with the controller's.  *)
(* The variables of NvmeQueue are this queue's nvmeq, and its cidmask is   *)
(* unvme_queue_t.cidmask.  An I/O is abstracted to the number of commands  *)
(* it is split into; buffers, block addresses and PRP entries are left out,*)
(* and so is desccount, which only debug output reads.                     *)
(***************************************************************************)
EXTENDS NvmeQueue, SequencesExt

CONSTANTS InitDescs,    \* descriptors unvme_queue_init creates (16 in the code)
          MaxDesc,      \* bound: descriptors ever allocated by the queue
          MaxChunks,    \* bound: commands an I/O is split into
          CanTimeout    \* may a wait of UNVME_TIMEOUT seconds run out?

ASSUME DescAssumption ==
    InitDescs \in Nat \ {0} /\ MaxDesc \in Nat /\ InitDescs <= MaxDesc
ASSUME ChunkAssumption == MaxChunks \in Nat \ {0} /\ CanTimeout \in BOOLEAN

VARIABLES
    qcid,           \* unvme_queue_t.cid: next id to check and use
    cidcount,       \* unvme_queue_t.cidcount
    desclist,       \* use list, head first
    descfree,       \* free list, head first
    descpend,       \* pending head, 0 is NULL
    desc,           \* desc[d]: unvme_desc_t
    op,             \* what the thread is in: "idle", "rw", "poll" or a fatal end
    sync,           \* the call is unvme_read, unvme_write or unvme_cmd
    cur,            \* descriptor of the call
    left,           \* commands of the I/O still to submit
    err,            \* unvme_do_poll's err, -1 is a timeout
    held            \* descriptors the application holds, by the documentation

qstate == <<qcid, cidcount, desclist, descfree, descpend, desc>>
callvars == <<op, sync, cur, left, err, held>>
uvars == <<qvars, qstate, callvars>>

Descs == 1 .. MaxDesc
NoDesc == 0
ZeroDesc == [cidmask |-> {}, cidcount |-> 0, error |-> 0]
InUse == ToSet(desclist)
Allocated == InUse \cup ToSet(descfree)

\* Where d is on the use list, and the circular list that starts at d.
At(d) == CHOOSE j \in DOMAIN desclist : desclist[j] = d
Ring(d) == SubSeq(desclist, At(d), Len(desclist)) \o SubSeq(desclist, 1, At(d) - 1)
First(s, P(_)) == s[CHOOSE i \in DOMAIN s : P(s[i]) /\ \A j \in 1 .. (i - 1) : ~P(s[j])]

-----------------------------------------------------------------------------
\* unvme_queue_init: the descriptors are got one by one and the use list is
\* then made the free list; descpend stays on the first of them.
UInit ==
    /\ QInit
    /\ qcid = 0 /\ cidcount = 0
    /\ desclist = <<>>
    /\ descfree = [i \in 1 .. InitDescs |-> i]
    /\ descpend = 1
    /\ desc = [d \in Descs |-> ZeroDesc]
    /\ op = "idle" /\ sync = FALSE /\ cur = NoDesc /\ left = 0 /\ err = 0
    /\ held = {}

\* unvme_desc_get: the head of the free list, else a new descriptor, cleared
\* and put at the end of the use list; alone on it, it is the pending head.
PendAfterGet_Newest(d) == d
PendAfterGet(d) == IF desclist = <<>> THEN d ELSE descpend
unvme_desc_get(d) ==
    /\ IF descfree # <<>>
       THEN d = Head(descfree) /\ descfree' = Tail(descfree)
       ELSE d = Len(desclist) + 1 /\ UNCHANGED descfree
    /\ desc' = [desc EXCEPT ![d] = ZeroDesc]
    /\ desclist' = Append(desclist, d)
    /\ descpend' = PendAfterGet(d)

\* unvme_desc_put: the pending head moves on when it is the one that leaves.
PendAfterPut_Same(d) == descpend
PendAfterPut(d) == IF d # descpend THEN descpend
                   ELSE IF Len(desclist) > 1 THEN Ring(d)[2] ELSE NoDesc
unvme_desc_put(d) ==
    /\ descpend' = PendAfterPut(d)
    /\ desclist' = RemoveAt(desclist, At(d))
    /\ descfree' = Append(descfree, d)

\* unvme_get_cid, when the queue is not full: the first free id from q->cid.
FreeCid_Unchecked == qcid
FreeCid == CHOOSE c \in Cids \ cidmask :
              \A e \in Cids \ cidmask : Dist(qcid, c) <= Dist(qcid, e)
NextCid_NoWrap(c) == c + 1
NextCid(c) == Succ(c)
unvme_get_cid(d, c) ==
    /\ c = FreeCid
    /\ desc' = [desc EXCEPT ![d].cidmask = @ \cup {c}, ![d].cidcount = @ + 1]
    /\ cidmask' = cidmask \cup {c}
    /\ cidcount' = cidcount + 1
    /\ qcid' = NextCid(c)

-----------------------------------------------------------------------------
\* unvme_do_rw up to its loop: n commands are to be submitted.  s tells a
\* synchronous call (unvme_read, unvme_write) from unvme_aread, unvme_awrite.
unvme_do_rw(n, s) ==
    /\ op = "idle"
    /\ Cardinality(Allocated) < MaxDesc \/ descfree # <<>>
    /\ \E d \in Descs : unvme_desc_get(d) /\ cur' = d
    /\ op' = "rw" /\ left' = n /\ sync' = s
    /\ UNCHANGED <<qvars, qcid, cidcount, err, held>>

\* unvme_do_cmd submits one command.
unvme_do_cmd(s) == unvme_do_rw(1, s)

\* The calls of the interface, unvme_aread and unvme_read standing for
\* unvme_awrite and unvme_write too.
unvme_aread(n) == unvme_do_rw(n, FALSE)
unvme_read(n) == unvme_do_rw(n, TRUE)
unvme_acmd == unvme_do_cmd(FALSE)
unvme_cmd == unvme_do_cmd(TRUE)

\* unvme_submit_io, one turn of unvme_do_rw's loop: get an id and submit.
unvme_submit_io ==
    /\ op = "rw" /\ left > 0 /\ cqe = NoSlot
    /\ ~QueueFull(cidcount)
    /\ \E c \in Cids : unvme_get_cid(cur, c) /\ nvme_submit_cmd(c)
    /\ left' = left - 1
    /\ UNCHANGED <<devvars, cq_head, cq_phase, cq_doorbell, cqe, stat, ret,
                   desclist, descfree, descpend, op, sync, cur, err, held>>

\* The descriptor is returned, or polled at once by a synchronous call.
unvme_do_rw_return ==
    /\ op = "rw" /\ left = 0
    /\ op' = IF sync THEN "poll" ELSE "idle"
    /\ held' = IF sync THEN held ELSE held \cup {cur}
    /\ cur' = IF sync THEN cur ELSE NoDesc
    /\ UNCHANGED <<qvars, qstate, sync, left, err>>

\* A poll of the application's.  The sentinel test cannot tell a released
\* descriptor from a live one: that the descriptor is in use is the caller's
\* obligation.
unvme_do_poll(d) ==
    /\ op = "idle"
    /\ d \in held \cap InUse
    /\ op' = "poll" /\ cur' = d
    /\ UNCHANGED <<qvars, qstate, sync, left, err, held>>
unvme_apoll(d) == unvme_do_poll(d)

\* The two callers of unvme_check_completion: unvme_do_poll's loop, and
\* unvme_get_cid on a full queue.
PollWaits == op = "poll" /\ err = 0 /\ desc[cur].cidcount > 0
GetCidWaits == op = "rw" /\ left > 0 /\ QueueFull(cidcount)

check_completion_begin ==
    /\ PollWaits \/ GetCidWaits
    /\ nvme_check_completion
    /\ UNCHANGED <<devvars, sq, sq_tail, sq_doorbell, cidmask, qstate, callvars>>

\* unvme_check_completion once it has an id: the owner is searched from the
\* pending head around the list, the id is taken from its mask and the
\* queue's, and the pending head moves to a descriptor with pending ids.
\* An id without an owner is fatal; so is (forever) a pending head that finds
\* no descriptor to stop at.
Owner_PendingHead(c) == descpend
Owner(c) == First(Ring(descpend), LAMBDA d : c \in desc[d].cidmask)
unvme_check_completion ==
    /\ check_completion_return
    /\ LET c == ret'.cid
           d == Owner(c)
           Pending(e) == desc'[e].cidcount # 0
       IN IF descpend \notin InUse \/ \A e \in InUse : c \notin desc[e].cidmask
          THEN /\ op' = "notfound"
               /\ UNCHANGED <<desc, cidmask, cidcount, qcid, descpend, err>>
          ELSE /\ desc' = [desc EXCEPT ![d].cidmask = @ \ {c},
                                       ![d].cidcount = @ - 1,
                                       ![d].error = IF stat # 0 THEN stat ELSE @]
               /\ cidmask' = cidmask \ {c}
               /\ cidcount' = cidcount - 1
               /\ qcid' = c
               /\ err' = IF op = "poll" THEN stat ELSE err
               /\ IF cidcount' # 0 /\ \A e \in InUse : ~Pending(e)
                  THEN op' = "endless" /\ UNCHANGED descpend
                  ELSE /\ op' = op
                       /\ descpend' = IF cidcount' = 0 THEN descpend
                                      ELSE First(Ring(descpend), Pending)
    /\ UNCHANGED <<devvars, sq, sq_tail, sq_doorbell, desclist, descfree,
                   sync, cur, left, held>>

\* unvme_check_completion runs out of time.  unvme_do_poll returns -1: at
\* once when the application polls with a timeout of 0.  unvme_get_cid and
\* the synchronous calls wait UNVME_TIMEOUT; unvme_get_cid then aborts.
check_completion_timeout ==
    /\ cqe = NoSlot /\ ~NewCompletion
    /\ \/ PollWaits /\ (~sync \/ CanTimeout) /\ err' = -1 /\ UNCHANGED op
       \/ GetCidWaits /\ CanTimeout /\ op' = "timeout" /\ UNCHANGED err
    /\ UNCHANGED <<qvars, qstate, sync, cur, left, held>>

\* unvme_do_poll returns err.  The descriptor is released when it has no
\* pending id left, error or not; the application gives its handle up when
\* the call reports success ("If there's no error, the descriptor will be
\* released"), and the handle of a synchronous call is never seen by it.
PollReturns == op = "poll" /\ cqe = NoSlot /\ (err # 0 \/ desc[cur].cidcount = 0)
Releases_Always == TRUE
Releases_Never == FALSE
Releases == desc[cur].cidcount = 0
unvme_do_poll_return ==
    /\ PollReturns
    /\ IF Releases
       THEN unvme_desc_put(cur) /\ UNCHANGED <<qcid, cidcount, desc>>
       ELSE UNCHANGED qstate
    /\ held' = IF err = 0 THEN held \ {cur} ELSE held
    /\ op' = "idle" /\ cur' = NoDesc /\ err' = 0 /\ sync' = FALSE
    /\ UNCHANGED <<qvars, left>>

Device == DeviceStep /\ UNCHANGED <<qstate, callvars>>

HostStep ==
    \/ unvme_submit_io
    \/ unvme_do_rw_return
    \/ check_completion_begin
    \/ unvme_check_completion
    \/ unvme_do_poll_return

UNext ==
    \/ \E n \in 0 .. MaxChunks : unvme_aread(n) \/ unvme_read(n)
    \/ unvme_acmd
    \/ unvme_cmd
    \/ \E d \in Descs : unvme_apoll(d)
    \/ HostStep
    \/ check_completion_timeout
    \/ Device

USpec == UInit /\ [][UNext]_uvars

\* The controller works on every command and the thread runs.
UFairSpec ==
    /\ USpec
    /\ WF_uvars(HostStep)
    /\ WF_uvars(DeviceFetch /\ UNCHANGED <<qstate, callvars>>)
    /\ \A c \in Cids : WF_uvars((\E st \in Stats : DevicePost(c, st))
                                 /\ UNCHANGED <<qstate, callvars>>)

-----------------------------------------------------------------------------
\* Every variable has its type.
UTypeOK ==
    /\ QTypeOK
    /\ qcid \in Cids /\ cidcount \in 0 .. (Size - 1)
    /\ InUse \subseteq Descs /\ ToSet(descfree) \subseteq Descs
    /\ descpend \in Descs \cup {NoDesc}
    /\ desc \in [Descs -> [cidmask : SUBSET Cids, cidcount : 0 .. Size, error : Stats]]
    /\ op \in {"idle", "rw", "poll", "timeout", "notfound", "endless"}
    /\ sync \in BOOLEAN /\ cur \in Descs \cup {NoDesc}
    /\ left \in 0 .. MaxChunks /\ err \in Stats \cup {-1}
    /\ held \subseteq Descs

\* The ids in use are shared out among the descriptors in use, each to one,
\* and both levels of cidcount count the bits of their cidmask: a full queue
\* is recognised by the count, a free id by the mask.
CidAccounting ==
    /\ cidcount = Cardinality(cidmask)
    /\ cidmask = UNION {desc[d].cidmask : d \in InUse}
    /\ \A d \in InUse : desc[d].cidcount = Cardinality(desc[d].cidmask)
    /\ \A d, e \in InUse : d # e => desc[d].cidmask \cap desc[e].cidmask = {}

\* A descriptor is on one list, once, and the pending head is on the use
\* list whenever there is one: unvme_check_completion starts from it.
DescLists ==
    /\ Cardinality(InUse) = Len(desclist)
    /\ Cardinality(ToSet(descfree)) = Len(descfree)
    /\ InUse \cap ToSet(descfree) = {}
    /\ desclist # <<>> => descpend \in InUse
    /\ \A d \in ToSet(descfree) : desc[d].cidmask = {}

\* The pending head is what its name says: no descriptor older than it has a
\* pending id, so the search for a completion's owner starts at the oldest.
PendingHead ==
    \A i, j \in DOMAIN desclist :
        desclist[j] = descpend /\ i < j => desc[desclist[i]].cidcount = 0

\* No completion is without an owner and no pending head runs around the list
\* for ever: the abort in unvme_check_completion is never reached.
EveryCompletionOwned == op \notin {"notfound", "endless"}

\* The lower layer's contract, on which the rings depend, is kept: what this
\* queue does to its nvmeq is what NvmeQueue allows.
KeepsQueueContract == QSpec

\* Without failures no descriptor is lost: one that is in use belongs to the
\* call in progress or is held by the application, and the other way round.
NoDescriptorLost == InUse = held \cup ({cur} \ {NoDesc})

\* A read, write, command or poll call comes back when the controller answers
\* every command.
CallReturns == op \in {"rw", "poll"} ~> op = "idle"

\* unvme_do_poll returns "0 if ok else error status": when it returns 0 no
\* command of the descriptor has failed.
PollStatus == PollReturns /\ err = 0 => desc[cur].error = 0
=============================================================================
