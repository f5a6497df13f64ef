----------------------------- MODULE NvmeAdmin -----------------------------
(***************************************************************************)
(* Controller bring-up, the admin commands of unvme_nvme.c and the part of *)
(* unvme_do_open and unvme_cleanup (unvme_core.c) that issues them.        *)
(*                                                                         *)
(* The variables of NvmeQueue are the admin queue.  An nvme_acmd function  *)
(* takes sq_tail for its command id, submits and waits; a wait that fails  *)
(* leaves its command behind, to be answered late.  The application's own  *)
(* admin commands (unvme_do_cmd with qid -1) share the ring, with ids from *)
(* a mask: they are NvmeQueue's Submit, Reap and ReapReturn, which is all  *)
(* UnvmeQueue does to a ring.  A process may die at any moment and another *)
(* one takes the controller over as it was left: it zeroes its rings while *)
(* the controller still runs, and only then disables it.                   *)
(*                                                                         *)
(* Two things put a ring out of order, and the code prevents neither: a    *)
(* completion that the controller, not yet disabled, writes into the new   *)
(* ring, and an nvme_acmd function that takes an id still in use.  The     *)
(* variable disorder records the first of them, and the properties are     *)
(* about a ring on which nothing of the kind has happened.                 *)
(*                                                                         *)
(* cidmask holds every id on the ring, those of the nvme_acmd functions    *)
(* (which the code does not record) too.  The controller is external.      *)
(***************************************************************************)
EXTENDS NvmeQueue

CONSTANTS QCount,   \* I/O queues of the device (unvme_ns_t.qcount)
          MaxOut,   \* bound: commands the application or a tool leaves on the ring
          Overlap   \* may it leave them there when it opens a namespace or closes

\* The code takes as many I/O queues as the controller has, if not told otherwise.
ASSUME QCountAssumption == QCount \in Nat \ {0}
ASSUME MaxOutAssumption == MaxOut \in 1 .. (Size - 1)
ASSUME OverlapAssumption == Overlap \in BOOLEAN

VARIABLES
    phase,          \* where the process is in opening or closing the device
    ioq,            \* loop index over I/O queues
    cmd,            \* the nvme_acmd call in progress
    what,           \* what[c]: contents of the last command with id c
    late,           \* late[c]: contents of an earlier one the controller still has
    cs,             \* cs[s]: command specific word of completion entry s
    cc_en,          \* controller register CC.EN
    csts_rdy,       \* controller register CSTS.RDY
    dev_sqs,        \* controller: I/O submission queues it has
    dev_cqs,        \* controller: I/O completion queues it has
    attached,       \* the ring is at the address the controller works with
    mem,            \* I/O queues whose memory the process has allocated
    unconfirmed,    \* history: queues freed though their deletion failed
    disorder        \* history: what first put the ring out of order

ctlrvars == <<cc_en, csts_rdy, dev_sqs, dev_cqs>>
procvars == <<phase, ioq, mem, unconfirmed>>
cmdvars == <<what, late, cs, attached, disorder>>
avars == <<qvars, ctlrvars, procvars, cmd, cmdvars>>

Queues == 1 .. QCount
Features == {1, 2}
Blank == [opc |-> "none", arg |-> 0, done |-> FALSE]
NoCmd == [opc |-> "none", arg |-> 0, cid |-> 0, st |-> "none", res |-> -1, own |-> FALSE]

HasResult(w) == w.opc \in {"get_features", "set_features"}

Opening == {"identify", "features", "create_cq", "create_sq", "ns"}
Closing == {"delete_sq", "delete_cq"}
Off == {"down", "dead"}
Starting == {"init", "disabling", "setup"}

\* The process uses a ring that it has handed to the controller.
InUse == phase \notin Starting \cup Off
InOrder == disorder = "none"

AInit ==
    /\ QInit
    /\ phase = "down" /\ ioq = 1 /\ mem = {} /\ unconfirmed = {}
    /\ cmd = NoCmd /\ what = [c \in Cids |-> Blank] /\ cs = [s \in Slots |-> 0]
    /\ late = [c \in Cids |-> Blank] /\ attached = TRUE /\ disorder = "none"
    /\ cc_en = FALSE /\ csts_rdy = FALSE /\ dev_sqs = {} /\ dev_cqs = {}

-----------------------------------------------------------------------------
\* The command a completion with id c would answer: the earlier one first.
Answered(c) == IF late[c] = Blank THEN what[c] ELSE late[c]

\* vfio_dma_alloc zeroes what it allocates: no completion entry of the new
\* ring carries a phase bit from an earlier use of the memory.
ZeroedCq == [s \in Slots |-> [cid |-> 0, p |-> 0, stat |-> 0]]

\* unvme_adminq_create, first part: a zeroed nvme_queue_t and rings in fresh
\* zeroed memory.  The pool they come from may have been registered at the
\* bus address of an earlier process' pool; the controller, if still enabled,
\* then fetches from and posts to the new rings.
unvme_queue_init ==
    /\ phase \in Off
    /\ phase' = "init"
    /\ sq' = [s \in Slots |-> 0] /\ cq' = ZeroedCq /\ cs' = [s \in Slots |-> 0]
    /\ sq_tail' = 0 /\ cq_head' = 0 /\ cq_phase' = 0
    /\ cqe' = NoSlot /\ stat' = 0 /\ ret' = NoRet /\ cidmask' = {}
    /\ what' = [c \in Cids |-> IF c \in executing THEN Answered(c) ELSE Blank]
    /\ late' = [c \in Cids |-> Blank]
    /\ attached' \in BOOLEAN
    /\ unconfirmed' = {} /\ disorder' = "none"
    /\ UNCHANGED <<sq_doorbell, cq_doorbell, dev_sqhead, dev_cqtail, dev_phase,
                   executing, ctlrvars, ioq, mem, cmd>>

\* nvme_adminq_setup begins with nvme_ctlr_disable, which clears CC.EN
\* whatever the last process left.
nvme_ctlr_disable ==
    /\ phase = "init"
    /\ phase' = "disabling"
    /\ cc_en' = FALSE
    /\ UNCHANGED <<qvars, csts_rdy, dev_sqs, dev_cqs, ioq, mem, unconfirmed, cmd, cmdvars>>

\* nvme_ctlr_wait_ready sees the state it waits for, or gives up after the
\* controller's own limit, which ends the process.
Ready_NotAwaited(ready) == TRUE
Ready(ready) == csts_rdy = ready
nvme_ctlr_wait_ready ==
    /\ \/ phase = "disabling" /\ Ready(FALSE) /\ phase' = "setup"
       \/ phase = "enabling" /\ Ready(TRUE) /\ phase' = "identify"
    /\ UNCHANGED <<qvars, ctlrvars, ioq, mem, unconfirmed, cmd, cmdvars>>
ctlr_wait_timeout ==
    /\ phase \in {"disabling", "enabling"}
    /\ csts_rdy # (phase = "enabling")
    /\ phase' = "dead"
    /\ UNCHANGED <<qvars, ctlrvars, ioq, mem, unconfirmed, cmd, cmdvars>>

\* nvme_adminq_setup after the disable: the addresses of the rings in AQA,
\* ASQ and ACQ, and the controller enabled.
nvme_ctlr_enable == cc_en' = TRUE
nvme_adminq_setup ==
    /\ phase = "setup"
    /\ attached' = TRUE
    /\ nvme_ctlr_enable
    /\ phase' = "enabling"
    /\ UNCHANGED <<qvars, csts_rdy, dev_sqs, dev_cqs, ioq, mem, unconfirmed, cmd,
                   what, late, cs, disorder>>

-----------------------------------------------------------------------------
\* What the nvme_acmd functions share: fill the entry at sq_tail, whose index
\* is the command's id, and submit it.  Nothing tells them whether a command
\* with that id is still on the ring, or whether there is room.
AcmdId == sq_tail
Clash == AcmdId \in cidmask \/ QueueFull(Cardinality(cidmask))
AtController(c) == c \in executing \/ \E s \in Unfetched : sq[s] = c
Put(c, opc, arg) ==
    /\ what' = [what EXCEPT ![c] = [opc |-> opc, arg |-> arg, done |-> FALSE]]
    /\ late' = IF AtController(c) THEN [late EXCEPT ![c] = Answered(c)] ELSE late
nvme_acmd(opc, arg) ==
    /\ cmd = NoCmd
    /\ cmd' = [opc |-> opc, arg |-> arg, cid |-> AcmdId, st |-> "wait",
               res |-> -1, own |-> FALSE]
    /\ Put(AcmdId, opc, arg)
    /\ disorder' = IF InOrder /\ Clash THEN phase ELSE disorder
    /\ cidmask' = cidmask \cup {AcmdId}
    /\ nvme_submit_cmd(AcmdId)
    /\ UNCHANGED <<devvars, cq_head, cq_phase, cq_doorbell, cqe, stat, ret, cs, attached,
                   ctlrvars, phase, ioq, unconfirmed>>

nvme_acmd_identify(nsid) == nvme_acmd("identify", nsid) /\ UNCHANGED mem
nvme_acmd_get_log_page(lid) == nvme_acmd("get_log_page", lid) /\ UNCHANGED mem
nvme_acmd_get_features(fid) == nvme_acmd("get_features", fid) /\ UNCHANGED mem
nvme_acmd_set_features(fid) == nvme_acmd("set_features", fid) /\ UNCHANGED mem
nvme_acmd_create_sq(q) == nvme_acmd("create_sq", q) /\ UNCHANGED mem
nvme_acmd_delete_sq(q) == nvme_acmd("delete_sq", q) /\ UNCHANGED mem
nvme_acmd_delete_cq(q) == nvme_acmd("delete_cq", q) /\ UNCHANGED mem
nvme_acmd_create_cq(q) == nvme_acmd("create_cq", q)
\* unvme_ioq_create has unvme_queue_init allocate the queue's memory before.
unvme_ioq_create(q) == mem' = mem \cup {q} /\ nvme_acmd_create_cq(q)

\* nvme_wait_completion polls until there is a completion ...
wait_begin ==
    /\ cmd.st = "wait"
    /\ nvme_check_completion
    /\ UNCHANGED <<devvars, sq, sq_tail, sq_doorbell, cidmask, ctlrvars, procvars,
                   cmd, cmdvars>>

\* ... and takes the first one for the answer: a success only if it carries
\* the id waited for.  The get and set features functions then read the
\* result from the completion entry whose index is the id.
Accepted_AnyId(r) == r.stat = 0
Accepted(r) == r.cid = cmd.cid /\ r.stat = 0
ResultEntry_Head == cq_head
ResultEntry == cmd.cid
wait_return ==
    /\ cmd.st = "wait"
    /\ check_completion_return
    /\ cidmask' = cidmask \ {ret'.cid}
    /\ cmd' = IF Accepted(ret')
              THEN [cmd EXCEPT !.st = "ok",
                        !.res = IF HasResult(cmd) THEN cs[ResultEntry] ELSE @,
                        !.own = what[cmd.cid].done]
              ELSE [cmd EXCEPT !.st = "fail"]
    /\ UNCHANGED <<devvars, sq, sq_tail, sq_doorbell, ctlrvars, procvars, cmdvars>>

\* ... or until 30 seconds are over.  The command stays on the ring.
TimeIsUp_Never == FALSE
TimeIsUp == ~NewCompletion
wait_timeout ==
    /\ cmd.st = "wait" /\ cqe = NoSlot
    /\ TimeIsUp
    /\ cmd' = [cmd EXCEPT !.st = "fail"]
    /\ UNCHANGED <<qvars, ctlrvars, procvars, cmdvars>>

-----------------------------------------------------------------------------
\* unvme_do_open: the commands in their order.
open_command ==
    \/ phase = "identify" /\ nvme_acmd_identify(0)
    \/ phase = "features" /\ \E fid \in Features : nvme_acmd_get_features(fid)
    \/ phase = "create_cq" /\ unvme_ioq_create(ioq)
    \/ phase = "create_sq" /\ nvme_acmd_create_sq(ioq)
    \/ phase = "ns" /\ nvme_acmd_identify(1)

\* The loops over the I/O queues.
MoreQueues_OneTooMany == ioq <= QCount
MoreQueues == ioq < QCount

\* A command succeeded: go on to the next, the next queue or the end.  The
\* controller may have fewer namespaces than asked for; the call then returns
\* without undoing anything (see UnvmeSession), and the process can only end.
AfterOk == CASE phase = "identify"  -> {"features", "dead"}
             [] phase = "features"  -> {"create_cq"}
             [] phase = "create_cq" -> {"create_sq"}
             [] phase = "create_sq" -> {IF MoreQueues THEN "create_cq" ELSE "ns"}
             [] phase = "ns"        -> {"open"}
open_next ==
    /\ phase \in Opening /\ cmd.st = "ok"
    /\ phase' \in AfterOk
    /\ ioq' = IF phase = "create_sq" /\ MoreQueues THEN ioq + 1
              ELSE IF phase = "create_sq" THEN 1 ELSE ioq
    /\ mem' = IF phase' = "dead" THEN {} ELSE mem
    /\ cmd' = NoCmd
    /\ UNCHANGED <<qvars, ctlrvars, unconfirmed, cmdvars>>

\* A command failed: FATAL.  The process may also die by itself.
Die ==
    /\ phase' = "dead" /\ ioq' = 1 /\ mem' = {} /\ cmd' = NoCmd
    /\ UNCHANGED <<qvars, ctlrvars, unconfirmed, cmdvars>>
open_fatal == phase \in Opening /\ cmd.st = "fail" /\ Die
crash == phase \notin Off /\ Die

\* The application is not in a call on the admin queue itself; its admin
\* commands may still be on the ring, and nvme_wait_completion would take
\* their completions.
Quiet == cqe = NoSlot /\ (Overlap \/ cidmask = {})

\* Another session on the same device identifies its namespace only.
open_namespace ==
    /\ phase = "open" /\ Quiet
    /\ phase' = "ns"
    /\ UNCHANGED <<qvars, ctlrvars, ioq, mem, unconfirmed, cmd, cmdvars>>

\* unvme_cleanup for the last session.
unvme_cleanup ==
    /\ phase = "open" /\ Quiet
    /\ phase' = "delete_sq"
    /\ UNCHANGED <<qvars, ctlrvars, ioq, mem, unconfirmed, cmd, cmdvars>>
close_command ==
    \/ phase = "delete_sq" /\ nvme_acmd_delete_sq(ioq)
    \/ phase = "delete_cq" /\ nvme_acmd_delete_cq(ioq)

\* nvme_ioq_delete: the completion queue is deleted when the submission
\* queue is; unvme_ioq_delete then frees the memory whatever the result, and
\* after the last queue the admin queue goes, the controller left enabled.
nvme_ioq_delete_cq ==
    /\ phase = "delete_sq" /\ cmd.st = "ok"
    /\ phase' = "delete_cq" /\ cmd' = NoCmd
    /\ UNCHANGED <<qvars, ctlrvars, ioq, mem, unconfirmed, cmdvars>>
unvme_queue_cleanup(q) == mem' = mem \ {q}
DeleteOver_AfterSq == cmd.st \in {"ok", "fail"}
DeleteOver == cmd.st = "fail" \/ (cmd.st = "ok" /\ phase = "delete_cq")
unvme_ioq_delete ==
    /\ phase \in Closing /\ DeleteOver
    /\ unvme_queue_cleanup(ioq)
    /\ unconfirmed' = IF cmd.st = "fail" THEN unconfirmed \cup {ioq} ELSE unconfirmed
    /\ phase' = IF MoreQueues THEN "delete_sq" ELSE "down"
    /\ ioq' = IF MoreQueues THEN ioq + 1 ELSE 1
    /\ cmd' = NoCmd
    /\ UNCHANGED <<qvars, ctlrvars, cmdvars>>

\* The tools of test/nvme use this layer alone: after the bring-up they issue
\* commands one after the other and may go on after a failure.  Bound: neither
\* they nor the application leave more than MaxOut commands on the ring, or
\* add one to a ring that is out of order.
tool_start ==
    /\ phase = "identify" /\ cmd = NoCmd
    /\ phase' = "tool"
    /\ UNCHANGED <<qvars, ctlrvars, ioq, mem, unconfirmed, cmd, cmdvars>>
RingBound == InOrder /\ Cardinality(cidmask) < MaxOut
tool_command ==
    /\ phase = "tool" /\ RingBound
    /\ \/ nvme_acmd_identify(0)
       \/ nvme_acmd_get_log_page(0)
       \/ \E fid \in Features : nvme_acmd_get_features(fid) \/ nvme_acmd_set_features(fid)
tool_next ==
    /\ phase = "tool" /\ cmd.st \in {"ok", "fail"}
    /\ cmd' = NoCmd
    /\ UNCHANGED <<qvars, ctlrvars, procvars, cmdvars>>

\* The application's admin commands while the device is open.
app_submit(c) ==
    /\ phase = "open" /\ RingBound
    /\ Submit(c)
    /\ Put(c, "app", 0)
    /\ UNCHANGED <<ctlrvars, procvars, cmd, cs, attached, disorder>>
app_reap ==
    /\ phase = "open"
    /\ Reap
    /\ UNCHANGED <<ctlrvars, procvars, cmd, cmdvars>>
app_return ==
    /\ phase = "open"
    /\ ReapReturn
    /\ UNCHANGED <<ctlrvars, procvars, cmd, cmdvars>>

-----------------------------------------------------------------------------
\* The controller: it becomes ready once enabled, and a disable resets it.
ctlr_ready ==
    /\ cc_en /\ ~csts_rdy
    /\ csts_rdy' = TRUE
    /\ UNCHANGED <<qvars, cc_en, dev_sqs, dev_cqs, procvars, cmd, cmdvars>>
ctlr_reset ==
    /\ ~cc_en /\ csts_rdy
    /\ csts_rdy' = FALSE
    /\ dev_sqs' = {} /\ dev_cqs' = {} /\ executing' = {}
    /\ dev_sqhead' = 0 /\ dev_cqtail' = 0 /\ dev_phase' = 1
    /\ sq_doorbell' = 0 /\ cq_doorbell' = 0
    /\ UNCHANGED <<hostvars, cq, cidmask, cc_en, procvars, cmd, cmdvars>>
\* It works on the rings at the addresses it was given: if the process has
\* its new rings elsewhere, nobody sees what it does before it is reset.  It
\* finishes a command before it takes another one with the same id.
ctlr_fetch ==
    /\ csts_rdy /\ attached
    /\ sq[dev_sqhead] \notin executing
    /\ DeviceFetch
    /\ UNCHANGED <<ctlrvars, procvars, cmd, cmdvars>>

\* A completion without error means that the command was carried out; a
\* queue needs its completion queue as long as it is there, and a zeroed
\* entry is no command to carry out.
Permitted(w) ==
    CASE w.opc = "create_cq" -> w.arg \notin dev_cqs
      [] w.opc = "create_sq" -> w.arg \in dev_cqs \ dev_sqs
      [] w.opc = "delete_sq" -> w.arg \in dev_sqs
      [] w.opc = "delete_cq" -> w.arg \in dev_cqs \ dev_sqs
      [] w.opc = "none"      -> FALSE
      [] OTHER -> TRUE
With(s, w, create, delete) ==
    IF w.opc = create THEN s \cup {w.arg} ELSE IF w.opc = delete THEN s \ {w.arg} ELSE s
\* A completion in a new ring that was not handed over yet: with the phase
\* bit that its reader is to find in the first lap, it will be taken.
Stale == phase \in {"init", "disabling"} /\ dev_phase = 1
ctlr_post(c, st) ==
    LET w == Answered(c) IN
    /\ csts_rdy /\ attached
    /\ DevicePost(c, st)
    /\ cs' = [cs EXCEPT ![dev_cqtail] = IF HasResult(w) THEN w.arg ELSE 0]
    /\ IF st = 0
       THEN /\ Permitted(w)
            /\ dev_sqs' = With(dev_sqs, w, "create_sq", "delete_sq")
            /\ dev_cqs' = With(dev_cqs, w, "create_cq", "delete_cq")
       ELSE UNCHANGED <<dev_sqs, dev_cqs>>
    /\ what' = IF st = 0 /\ late[c] = Blank THEN [what EXCEPT ![c].done = TRUE] ELSE what
    /\ late' = [late EXCEPT ![c] = Blank]
    /\ disorder' = IF InOrder /\ Stale THEN "stale" ELSE disorder
    /\ UNCHANGED <<cc_en, csts_rdy, procvars, cmd, attached>>

-----------------------------------------------------------------------------
HostStep ==
    \/ nvme_ctlr_disable
    \/ nvme_ctlr_wait_ready
    \/ ctlr_wait_timeout
    \/ nvme_adminq_setup
    \/ open_command
    \/ open_next
    \/ open_fatal
    \/ close_command
    \/ nvme_ioq_delete_cq
    \/ unvme_ioq_delete
    \/ wait_begin
    \/ wait_return
    \/ wait_timeout
    \/ tool_next

ANext ==
    \/ HostStep
    \/ unvme_queue_init
    \/ crash
    \/ open_namespace
    \/ unvme_cleanup
    \/ tool_start
    \/ tool_command
    \/ \E c \in Cids : app_submit(c)
    \/ app_reap
    \/ app_return
    \/ ctlr_ready
    \/ ctlr_reset
    \/ ctlr_fetch
    \/ \E c \in Cids, st \in Stats : ctlr_post(c, st)

ASpec == AInit /\ [][ANext]_avars

\* The process runs; nothing is assumed of the controller.
AFairSpec == ASpec /\ WF_avars(HostStep)

-----------------------------------------------------------------------------
\* Every variable has its type.
ATypeOK ==
    /\ QTypeOK
    /\ phase \in Opening \cup Closing \cup Off
                   \cup Starting \cup {"enabling", "open", "tool"}
    /\ ioq \in Queues /\ mem \subseteq Queues /\ unconfirmed \subseteq Queues
    /\ cmd.cid \in Cids /\ cmd.st \in {"none", "wait", "ok", "fail"}
    /\ DOMAIN what = Cids /\ DOMAIN late = Cids /\ DOMAIN cs = Slots
    /\ attached \in BOOLEAN
    /\ disorder \in Opening \cup Closing \cup {"none", "stale", "tool"}
    /\ cc_en \in BOOLEAN /\ csts_rdy \in BOOLEAN
    /\ dev_sqs \subseteq dev_cqs /\ dev_cqs \subseteq Queues

\* Whatever a process that died or closed left on the controller, the next
\* bring-up puts the two ends of the admin ring in step again: doorbells,
\* phase bits and the commands in flight agree as they do on a ring that was
\* never taken over.  The code lets in exactly two exceptions, which disorder
\* records.
AdminRingInStep ==
    InUse /\ InOrder => Doorbells /\ PhaseAgrees /\ Counted /\ InFlightOnce

\* An admin command that reports success was carried out itself: a late
\* answer to an earlier command, or to one of the application's, is never
\* taken for it on a ring in order.
AnswerIsOwn == cmd.st = "ok" /\ InOrder => cmd.own

\* The value the features functions return, which they read from the
\* completion entry with the command id as index, is the command's own.  For
\* a caller that goes on after a timeout, only if no command is outstanding.
FeatureIsOwn ==
    cmd.st = "ok" /\ InOrder /\ HasResult(cmd) /\ (phase = "tool" => cidmask = {})
    => cmd.res = cmd.arg

\* The I/O queues of an open device are there, the controller has none whose
\* memory was freed unless its deletion failed, and when every deletion of a
\* close succeeded nothing of the driver's is left for the controller to
\* write; a ring out of order is excepted, as its deletions may have been
\* confirmed by other commands' answers.
QueueMemoryOwned ==
    InOrder =>
        /\ phase \in {"ns", "open"} => dev_sqs = Queues
        /\ InUse \/ phase = "down" => dev_cqs \subseteq mem \cup unconfirmed
        /\ phase = "down" /\ unconfirmed = {} =>
               dev_cqs = {} /\ \A c \in executing : what[c].opc = "app"

\* A close goes on after a command that failed and may issue 2 * QCount - 1
\* commands from its first failure on; if they are no more than a lap of the
\* ring, and the application leaves no command of its own on it, an open or a
\* close never takes the id of a command still in flight.
CloseFits == 2 * QCount - 1 <= Size
IdsFree == CloseFits /\ ~Overlap => disorder \notin Opening \cup Closing

\* Opening and closing come back, or end the process, even if the controller
\* never answers.
OpenCloseEnds == phase \notin Off \cup {"open", "tool"} ~> phase \in Off \cup {"open", "tool"}
=============================================================================
