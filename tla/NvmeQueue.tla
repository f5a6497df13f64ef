----------------------------- MODULE NvmeQueue -----------------------------
(***************************************************************************)
(* The NVMe queue pair of unvme_nvme.c (nvme_queue_t) and the controller   *)
(* at its other end.  The driver writes submission entries at sq_tail and  *)
(* rings the submission doorbell; the controller fetches them in order,    *)
(* executes them in any order and posts a completion entry whose phase bit *)
(* tells the driver that the entry is new.  Neither side reads the other's *)
(* index: nvme_submit_cmd does not look at the submission queue's head     *)
(* (the test is compiled out), so that nothing but the number of command   *)
(* ids the caller keeps outstanding stops it from overrunning the ring.    *)
(*                                                                         *)
(* A command entry is abstracted to its command id, a completion entry to  *)
(* id, phase and status.  One thread drives a queue.                       *)
(***************************************************************************)
EXTENDS Integers, FiniteSets

CONSTANTS Size,     \* entries of each ring (nvme_queue_t.size, unvme_queue_t.size)
          Stats     \* the status values a completion may carry, 0 is success

\* unvme_openq refuses a queue of one entry; 0 in Stats is *stat = 0.
ASSUME SizeAssumption == Size \in Nat /\ Size >= 2
ASSUME StatsAssumption == Stats \subseteq Nat /\ 0 \in Stats

VARIABLES
    sq,             \* sq[s]: command id of submission entry s (host memory)
    sq_tail,        \* the driver's next free submission entry
    cq,             \* cq[s]: completion entry s, written by the controller
    cq_head,        \* the driver's next completion entry
    cq_phase,       \* phase bit of an entry that is not new
    cqe,            \* entry whose id nvme_check_completion has yet to read
    stat,           \* the status it took from that entry
    ret,            \* what nvme_check_completion last returned
    cidmask,        \* command ids the caller keeps outstanding
    sq_doorbell,    \* controller register: submission tail
    cq_doorbell,    \* controller register: completion head
    dev_sqhead,     \* controller: next submission entry to fetch
    dev_cqtail,     \* controller: next completion entry to write
    dev_phase,      \* controller: phase bit of this lap
    executing       \* controller: command ids fetched and not finished

hostvars == <<sq, sq_tail, cq_head, cq_phase, cqe, stat, ret>>
devvars == <<cq, dev_sqhead, dev_cqtail, dev_phase, executing>>
qvars == <<hostvars, devvars, sq_doorbell, cq_doorbell, cidmask>>

Slots == 0 .. (Size - 1)
Cids == 0 .. (Size - 1)
NoSlot == -1
NoRet == [cid |-> -1, stat |-> 0]

\* An index that runs around the ring.
Succ_NoWrap(i) == i + 1
Succ(i) == IF i + 1 = Size THEN 0 ELSE i + 1

\* Entries from a up to and not including b, and how many they are.
InSeg(s, a, b) == IF a <= b THEN a <= s /\ s < b ELSE a <= s \/ s < b
Dist(a, b) == IF a <= b THEN b - a ELSE b - a + Size

Unfetched == {s \in Slots : InSeg(s, dev_sqhead, sq_tail)}
Posted == {s \in Slots : InSeg(s, cq_head, dev_cqtail)}

-----------------------------------------------------------------------------
\* Queue memory is zeroed by the allocator, so is nvme_queue_t; the
\* controller's first lap writes phase 1.
QInit ==
    /\ sq = [s \in Slots |-> 0]
    /\ cq = [s \in Slots |-> [cid |-> 0, p |-> 0, stat |-> 0]]
    /\ sq_tail = 0 /\ cq_head = 0 /\ cq_phase = 0
    /\ sq_doorbell = 0 /\ cq_doorbell = 0
    /\ cqe = NoSlot /\ stat = 0 /\ ret = NoRet
    /\ cidmask = {} /\ executing = {}
    /\ dev_sqhead = 0 /\ dev_cqtail = 0 /\ dev_phase = 1

\* unvme_get_cid's test of a full queue: n ids are in use.
QueueFull_OffByOne(n) == n = Size
QueueFull(n) == n + 1 = Size

\* nvme_cmd_rw and nvme_cmd_vs fill the entry at sq_tail, nvme_submit_cmd
\* advances the tail and writes it to the doorbell.
TailDoorbell_Stale == sq_tail
TailDoorbell == Succ(sq_tail)
nvme_submit_cmd(c) ==
    /\ sq' = [sq EXCEPT ![sq_tail] = c]
    /\ sq_tail' = Succ(sq_tail)
    /\ sq_doorbell' = TailDoorbell

\* nvme_check_completion finds a new entry at cq_head.
NewCompletion == cq[cq_head].p # cq_phase

\* What it takes from the entry, the phase it goes on with and the head it
\* tells the controller.
EntryStatus_NextEntry == cq[Succ(cq_head)].stat
EntryStatus == cq[cq_head].stat
NextPhase_NoFlip == cq_phase
NextPhase == IF cq_head + 1 = Size THEN 1 - cq_phase ELSE cq_phase
HeadDoorbell == Succ(cq_head)

\* nvme_check_completion up to the completion doorbell: take the status,
\* advance the head, flip the phase at the end of a lap, give the entry back.
\* Without a new entry the call returns -1 and changes nothing.
nvme_check_completion ==
    /\ cqe = NoSlot
    /\ NewCompletion
    /\ cqe' = cq_head
    /\ stat' = EntryStatus
    /\ cq_head' = Succ(cq_head)
    /\ cq_phase' = NextPhase
    /\ cq_doorbell' = HeadDoorbell
    /\ UNCHANGED ret

\* ... and its return statement, which reads the id from the entry after the
\* doorbell has told the controller that the entry is free.
ReturnedCid_NextEntry == cq[cq_head].cid
ReturnedCid == cq[cqe].cid
check_completion_return ==
    /\ cqe # NoSlot
    /\ ret' = [cid |-> ReturnedCid, stat |-> stat]
    /\ cqe' = NoSlot
    /\ stat' = 0
    /\ UNCHANGED <<cq_head, cq_phase, cq_doorbell>>

\* The caller's part of a submission: the id is free and the queue not full.
Submit(c) ==
    /\ cqe = NoSlot
    /\ c \notin cidmask
    /\ ~QueueFull(Cardinality(cidmask))
    /\ cidmask' = cidmask \cup {c}
    /\ nvme_submit_cmd(c)
    /\ UNCHANGED <<devvars, cq_head, cq_phase, cq_doorbell, cqe, stat, ret>>

\* The caller polls: it gets the id it is told of back.
Reap ==
    /\ nvme_check_completion
    /\ UNCHANGED <<devvars, sq, sq_tail, sq_doorbell, cidmask>>
ReapReturn ==
    /\ check_completion_return
    /\ cidmask' = cidmask \ {ret'.cid}
    /\ UNCHANGED <<devvars, sq, sq_tail, sq_doorbell>>

-----------------------------------------------------------------------------
\* The controller.  It knows the driver's indices from the doorbells only.
DeviceFetch ==
    /\ dev_sqhead # sq_doorbell
    /\ executing' = executing \cup {sq[dev_sqhead]}
    /\ dev_sqhead' = Succ(dev_sqhead)
    /\ UNCHANGED <<hostvars, cq, dev_cqtail, dev_phase, sq_doorbell,
                   cq_doorbell, cidmask>>

\* It posts unless its next entry is the last one the driver has not freed.
DevicePost(c, st) ==
    /\ c \in executing
    /\ Succ(dev_cqtail) # cq_doorbell
    /\ cq' = [cq EXCEPT ![dev_cqtail] = [cid |-> c, p |-> dev_phase, stat |-> st]]
    /\ executing' = executing \ {c}
    /\ dev_cqtail' = Succ(dev_cqtail)
    /\ dev_phase' = IF dev_cqtail + 1 = Size THEN 1 - dev_phase ELSE dev_phase
    /\ UNCHANGED <<hostvars, dev_sqhead, sq_doorbell, cq_doorbell, cidmask>>

DeviceStep == DeviceFetch \/ \E c \in Cids, st \in Stats : DevicePost(c, st)

QNext ==
    \/ \E c \in Cids : Submit(c)
    \/ Reap
    \/ ReapReturn
    \/ DeviceFetch
    \/ \E c \in Cids, st \in Stats : DevicePost(c, st)

QSpec == QInit /\ [][QNext]_qvars

\* The controller makes progress on each command, the driver keeps polling.
DeviceFairness ==
    /\ WF_qvars(DeviceFetch)
    /\ \A c \in Cids : WF_qvars(\E st \in Stats : DevicePost(c, st))
QFairSpec == QSpec /\ DeviceFairness /\ WF_qvars(Reap) /\ WF_qvars(ReapReturn)

-----------------------------------------------------------------------------
\* Every variable has its type: indices stay on the ring.
QTypeOK ==
    /\ sq \in [Slots -> Cids]
    /\ cq \in [Slots -> [cid : Cids, p : {0, 1}, stat : Stats]]
    /\ sq_tail \in Slots /\ cq_head \in Slots /\ cq_phase \in {0, 1}
    /\ sq_doorbell \in Slots /\ cq_doorbell \in Slots
    /\ cqe \in Slots \cup {NoSlot} /\ stat \in Stats
    /\ ret \in [cid : Cids \cup {-1}, stat : Stats]
    /\ cidmask \in SUBSET Cids /\ executing \in SUBSET Cids
    /\ dev_sqhead \in Slots /\ dev_cqtail \in Slots /\ dev_phase \in {0, 1}

\* The doorbells the controller sees are the driver's indices, and the entry
\* being reaped is the one just before the head.
Doorbells ==
    /\ sq_doorbell = sq_tail
    /\ cq_doorbell = cq_head
    /\ cqe # NoSlot => Succ(cqe) = cq_head

\* The phase test of nvme_check_completion sees exactly the entries that the
\* controller has posted and the driver has not reaped, over any number of
\* laps: the entries ahead of the head carry the other phase if and only if
\* they are posted, those behind it the driver's phase.
PhaseAgrees ==
    /\ (dev_phase # cq_phase) <=> (cq_head <= dev_cqtail)
    /\ \A s \in Slots :
          IF cq_head <= s THEN (cq[s].p # cq_phase) <=> s \in Posted
                          ELSE (cq[s].p = cq_phase) <=> s \in Posted

\* Counting: an outstanding id is in exactly one of the submission ring, the
\* controller, the completion ring and nvme_check_completion's hands.  As the
\* caller keeps at most Size - 1 of them neither ring is ever overrun, though
\* nvme_submit_cmd does not test for it.
Reaping == IF cqe = NoSlot THEN 0 ELSE 1
Counted ==
    /\ Cardinality(cidmask) < Size
    /\ Cardinality(cidmask) = Dist(dev_sqhead, sq_tail) + Cardinality(executing)
                               + Dist(cq_head, dev_cqtail) + Reaping

\* No command is lost and none is executed or reported twice: the places a
\* command id can be are disjoint, hold each id once and are all cidmask.
InFlightOnce ==
    /\ \A s \in Unfetched : sq[s] \in cidmask /\ sq[s] \notin executing
    /\ \A s \in Posted : cq[s].cid \in cidmask /\ cq[s].cid \notin executing
    /\ executing \subseteq cidmask
    /\ \A s, t \in Unfetched : sq[s] = sq[t] => s = t
    /\ \A s, t \in Posted : cq[s].cid = cq[t].cid => s = t
    /\ \A s \in Unfetched, t \in Posted : sq[s] # cq[t].cid
    /\ \A c \in cidmask : \/ c \in executing
                          \/ \E s \in Unfetched : sq[s] = c
                          \/ \E s \in Posted : cq[s].cid = c
                          \/ cqe # NoSlot /\ cq[cqe].cid = c

\* The entry whose id is read after the completion doorbell still holds the
\* command whose status was taken before it: the controller cannot have
\* written it again, although the doorbell gave it back.
ReapedEntryIntact ==
    cqe # NoSlot =>
        /\ cq[cqe].stat = stat
        /\ cq[cqe].cid \in cidmask
        /\ cq[cqe].cid \notin executing
        /\ \A s \in Unfetched : sq[s] # cq[cqe].cid
        /\ \A s \in Posted : cq[s].cid # cq[cqe].cid

\* A command id that is outstanding comes back to the caller, whatever the
\* order in which the controller completes commands.
CommandReturns == \A c \in Cids : (c \in cidmask) ~> (c \notin cidmask)

\* The queue pair implements NvmeCommands: an id is pending until its
\* completion entry is posted, done until the entry's id has been read.
DoneAt(c) == {s \in Posted \cup ({cqe} \ {NoSlot}) : cq[s].cid = c}
Commands == INSTANCE NvmeCommands WITH
    state <- [c \in Cids |-> IF c \notin cidmask THEN "free"
                             ELSE IF DoneAt(c) = {} THEN "pending" ELSE "done"],
    status <- [c \in Cids |-> IF c \in cidmask /\ DoneAt(c) # {}
                              THEN cq[CHOOSE s \in DoneAt(c) : TRUE].stat ELSE 0],
    ret <- ret
ImplementsCommands == Commands!CSpec
=============================================================================
