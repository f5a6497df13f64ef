-------------------------- MODULE NvmeAdminProofs --------------------------
(***************************************************************************)
(* Theorems about NvmeAdmin: what the next process finds after one that    *)
(* died, that an answer is never taken for another command's, and who owns *)
(* the memory of the I/O queues, on a ring that is in order; and when an   *)
(* open and a close keep it so, though an nvme_acmd function takes its id  *)
(* from sq_tail without looking.  NvmeQueueProofs gives what holds of the  *)
(* admin ring as long as its callers submit free ids only.                 *)
(***************************************************************************)
EXTENDS NvmeAdmin, NvmeQueueProofs

-----------------------------------------------------------------------------
\* The inductive invariant, in parts.

QueueOps == {"create_cq", "create_sq", "delete_sq", "delete_cq"}
Opcodes == QueueOps \cup {"none", "identify", "get_log_page", "get_features",
                          "set_features", "app"}
What == [opc : Opcodes, arg : Nat, done : BOOLEAN]
Cmd == [opc : Opcodes, arg : Nat, cid : Cids, st : {"none", "wait", "ok", "fail"},
        res : Int, own : BOOLEAN]

ATypes ==
    /\ QTypeOK
    /\ phase \in Opening \cup Closing \cup Off \cup Starting \cup {"enabling", "open", "tool"}
    /\ ioq \in Queues /\ mem \subseteq Queues /\ unconfirmed \subseteq Queues
    /\ cmd \in Cmd /\ what \in [Cids -> What] /\ late \in [Cids -> What] /\ cs \in [Slots -> Nat]
    /\ cc_en \in BOOLEAN /\ csts_rdy \in BOOLEAN /\ attached \in BOOLEAN
    /\ disorder \in Opening \cup Closing \cup {"none", "stale", "tool"}
    /\ \A c \in Cids : what[c].opc \in QueueOps => what[c].arg \in Queues
    /\ \A c \in Cids : late[c].opc \in QueueOps => late[c].arg \in Queues
    /\ dev_sqs \subseteq dev_cqs /\ dev_cqs \subseteq Queues

\* The process is past the bring-up and uses the ring.
Running == phase \in Opening \cup Closing \cup {"open", "tool"}

\* The registers at each point of the bring-up, and a controller that is not
\* ready has nothing left of what it did before.
Registers ==
    /\ phase = "setup" => ~csts_rdy /\ ~cc_en
    /\ phase = "disabling" => ~cc_en
    /\ phase = "enabling" => cc_en
    /\ phase = "down" /\ csts_rdy => cc_en
    /\ Running => csts_rdy /\ cc_en
    /\ ~csts_rdy => /\ dev_cqs = {} /\ executing = {}
                    /\ dev_sqhead = 0 /\ dev_cqtail = 0 /\ dev_phase = 1
                    /\ sq_doorbell = 0 /\ cq_doorbell = 0

\* Until the first command the process has only zeroed its end of the ring.
Untouched ==
    phase \in Starting \cup {"enabling"} =>
        /\ sq_tail = 0 /\ cq_head = 0 /\ cq_phase = 0 /\ cqe = NoSlot /\ cidmask = {}

\* The parts from here to Own hold of a ring in order.  While the process
\* brings the controller up, no completion in the new ring can be taken.
FreshRing == phase \in Starting => \A s \in Slots : cq[s].p = 0

\* From its hand-over on the ring is as NvmeQueue has it, and the driver's
\* two indices are as far apart as commands are out: without late commands
\* a command and its completion have the same index.
Handed == phase \notin Starting \cup {"dead"}
Lockstep == Dist(cq_head, sq_tail) + Reaping = Cardinality(cidmask)
RingSound == Handed => QInv /\ Lockstep

\* No id was taken while the controller had a command with it.
Unlate == late = [c \in Cids |-> Blank]

\* What the phase asks of the command issued in it.
Fits(opc, arg) ==
    /\ phase \in Opening \cup Closing \cup {"tool"}
    /\ phase \in {"identify", "ns"} => opc = "identify"
    /\ phase = "features" => opc = "get_features"
    /\ phase \in QueueOps => opc = phase /\ arg = ioq
    /\ phase = "tool" => opc \in {"identify", "get_log_page", "get_features", "set_features"}

\* The nvme_acmd call in progress and its command on the ring.
Call ==
    /\ cmd.st = "none" => cmd = NoCmd
    /\ cmd.st # "none" => Fits(cmd.opc, cmd.arg)
    /\ cmd.st = "wait" => cmd.cid \in cidmask
    /\ cmd.st \in {"wait", "fail"} => sq_tail = Succ(cmd.cid)
    /\ cmd.st \in {"wait", "fail"} /\ cmd.cid \in cidmask =>
           what[cmd.cid].opc = cmd.opc /\ what[cmd.cid].arg = cmd.arg
    /\ Running /\ phase # "open" /\ cmd.st # "wait" => cqe = NoSlot

\* Nothing else is on the ring while the device is set up, and nothing but
\* the application's commands afterwards, up to the end of a close in which
\* every command succeeded.
Mine == IF cmd.st \in {"wait", "fail"} THEN {cmd.cid} ELSE {}
Others == cidmask \ Mine
AppsOnly == phase \in {"ns", "open"} \/ (phase \in Closing \cup {"down"} /\ unconfirmed = {})
AloneInTurn ==
    /\ phase \in Opening \ {"ns"} => Others = {}
    /\ AppsOnly => \A c \in Others : what[c].opc = "app"

\* What the commands on the ring can do to the controller's queues.
Contents ==
    \A c \in cidmask :
        /\ phase \in {"identify", "features", "ns", "open", "tool"} => what[c].opc \notin QueueOps
        /\ phase \in Closing \cup {"down"} => what[c].opc \notin {"create_cq", "create_sq"}

\* A completion entry that is to be reaped, or in the hands of
\* nvme_check_completion, tells the truth about its command.
Truthful(s) ==
    /\ cq[s].stat = 0 => what[cq[s].cid].done = TRUE
    /\ HasResult(what[cq[s].cid]) => cs[s] = what[cq[s].cid].arg
ToCome == {s \in Slots : s \in Posted \/ s = cqe}
Answers == Handed => \A s \in ToCome : Truthful(s)

\* The loops over the I/O queues and the process' memory at each point.
Upto(n) == 1 .. n
Loops ==
    /\ phase \notin QueueOps => ioq = 1
    /\ phase \in Off \cup Starting \cup {"enabling", "identify", "features", "tool"} => mem = {}
    /\ phase = "create_cq" => mem = IF cmd.st = "none" THEN Upto(ioq - 1) ELSE Upto(ioq)
    /\ phase = "create_sq" => mem = Upto(ioq)
    /\ phase \in {"ns", "open"} => mem = Queues
    /\ phase \in Closing => mem = ioq .. QCount

\* The controller's queues: the loop of the open has created those below ioq,
\* that of the close has deleted them or is not sure.
Carried == cmd.st = "ok" \/ (cmd.st = "wait" /\ what[cmd.cid].done = TRUE)
IoQueues ==
    /\ phase \in {"enabling", "identify", "features", "tool"} => dev_cqs = {}
    /\ phase = "create_cq" =>
          /\ dev_sqs = Upto(ioq - 1) /\ dev_cqs \subseteq Upto(ioq)
          /\ cmd.st = "none" => dev_cqs \subseteq Upto(ioq - 1)
          /\ Carried => ioq \in dev_cqs
    /\ phase = "create_sq" =>
          /\ dev_cqs = Upto(ioq) /\ Upto(ioq - 1) \subseteq dev_sqs
          /\ Carried => ioq \in dev_sqs
    /\ phase \in {"ns", "open"} => dev_sqs = Queues
    /\ phase \in Closing =>
          /\ dev_cqs \subseteq mem \cup unconfirmed
          /\ phase = "delete_cq" /\ Carried => ioq \notin dev_cqs
    /\ phase = "down" => dev_cqs \subseteq unconfirmed

\* What a call that succeeded reports.
Own == /\ cmd.st = "ok" => cmd.own
       /\ cmd.st = "ok" /\ HasResult(cmd) /\ (phase = "tool" => cidmask = {}) => cmd.res = cmd.arg

\* What holds of every ring, of a ring in order, and the two together.
Base == ATypes /\ Registers /\ Untouched /\ Call /\ Loops
AInv ==
    /\ ATypes /\ Registers /\ Untouched /\ Call /\ Loops
    /\ FreshRing /\ RingSound /\ Unlate /\ AloneInTurn /\ Contents /\ Answers /\ IoQueues /\ Own
AInd == Base /\ (InOrder => AInv)

-----------------------------------------------------------------------------
\* Types.

\* The commands an open, a close or a tool issues: what they have in common.
LEMMA Issued ==
  ASSUME ioq \in Queues, open_command \/ close_command \/ tool_command
  PROVE  \E opc \in Opcodes, arg \in Nat :
             /\ nvme_acmd(opc, arg) /\ Fits(opc, arg)
             /\ opc \in QueueOps => arg \in Queues
             /\ mem' = IF opc = "create_cq" THEN mem \cup {ioq} ELSE mem
             /\ phase = "tool" => RingBound
<1> USE DEF Fits, Opening, Closing, QueueOps, Opcodes
<1>1. ioq \in Nat
  BY QCountAssumption DEF Queues
<1>2. CASE open_command
  BY <1>1, <1>2 DEF open_command, unvme_ioq_create, nvme_acmd_create_cq, nvme_acmd_create_sq,
                    nvme_acmd_identify, nvme_acmd_get_features, Features
<1>3. CASE close_command
  BY <1>1, <1>3 DEF close_command, nvme_acmd_delete_sq, nvme_acmd_delete_cq
<1>4. CASE tool_command
  BY <1>1, <1>4 DEF tool_command, nvme_acmd_identify, nvme_acmd_get_features,
                    nvme_acmd_set_features, nvme_acmd_get_log_page, Features
<1>. QED  BY <1>2, <1>3, <1>4

LEMMA NoCmdType == NoCmd \in Cmd /\ Blank \in What
  BY SlotsInt DEF NoCmd, Blank, Cmd, What, Opcodes

\* A family of command contents, and that of a command put on the ring.
Described(f) == /\ f \in [Cids -> What]
                /\ \A c \in Cids : f[c].opc \in QueueOps => f[c].arg \in Queues

LEMMA DescribedBlank ==
  ASSUME NEW f, NEW c \in Cids, Described(f)
  PROVE  /\ Described([d \in Cids |-> Blank])
         /\ Described([f EXCEPT ![c] = Blank])
  BY NoCmdType DEF Described, Blank, QueueOps

LEMMA PutTypes ==
  ASSUME ATypes, NEW c \in Cids, NEW opc \in Opcodes, NEW arg \in Nat, Put(c, opc, arg),
         opc \in QueueOps => arg \in Queues
  PROVE  Described(what') /\ Described(late')
<1> USE DEF Described
<1>1. Described(what) /\ Described(late)
  BY DEF ATypes
<1>2. [opc |-> opc, arg |-> arg, done |-> FALSE] \in What
  BY DEF What
<1>3. Described(what')
  BY <1>1, <1>2 DEF Put
<1>4. Answered(c) \in What /\ (Answered(c).opc \in QueueOps => Answered(c).arg \in Queues)
  BY <1>1 DEF Answered
<1>5. Described([late EXCEPT ![c] = Answered(c)])
  BY <1>1, <1>4
<1>. QED  BY <1>1, <1>3, <1>5 DEF Put

LEMMA ATypesInit == AInit => ATypes
<1> SUFFICES ASSUME AInit PROVE ATypes
  OBVIOUS
<1>1. QTypeOK /\ ioq \in Queues
  BY InitTypeOK, QCountAssumption DEF AInit, Queues
<1>2. cc_en \in BOOLEAN /\ csts_rdy \in BOOLEAN /\ attached \in BOOLEAN
  BY Zenon DEF AInit
<1>3. what \in [Cids -> What] /\ late \in [Cids -> What] /\ cs \in [Slots -> Nat] /\ cmd \in Cmd
  BY NoCmdType DEF AInit
<1>4. \A c \in Cids : what[c].opc \notin QueueOps /\ late[c].opc \notin QueueOps
  BY DEF AInit, Blank, QueueOps
<1>. QED  BY <1>1, <1>2, <1>3, <1>4 DEF AInit, ATypes, Off

LEMMA ATypesNext ==
  ASSUME ATypes, [ANext]_avars
  PROVE  ATypes'
<1> USE DEF ATypes
<1>1. /\ cmd.st \in {"none", "wait", "ok", "fail"} /\ cmd.cid \in Cids /\ cmd.opc \in Opcodes
      /\ cmd.arg \in Nat /\ cmd.res \in Int
  BY DEF Cmd
<1>2. UNCHANGED qvars => QTypeOK'
  BY NextTypeOK
<1>3. CASE UNCHANGED avars
  BY <1>2, <1>3 DEF avars, ctlrvars, procvars, cmdvars
<1>4. CASE \/ nvme_ctlr_disable \/ nvme_ctlr_wait_ready \/ ctlr_wait_timeout \/ nvme_adminq_setup
           \/ open_namespace \/ unvme_cleanup \/ tool_start \/ ctlr_ready
  <2> USE DEF ctlrvars, procvars, cmdvars
  <2>1. CASE nvme_ctlr_disable
    BY <1>2, <2>1 DEF nvme_ctlr_disable, Starting
  <2>2. CASE nvme_ctlr_wait_ready
    BY <1>2, <2>2 DEF nvme_ctlr_wait_ready, Opening, Starting
  <2>3. CASE ctlr_wait_timeout
    BY <1>2, <2>3 DEF ctlr_wait_timeout, Off
  <2>4. CASE nvme_adminq_setup
    BY <1>2, <2>4 DEF nvme_adminq_setup, nvme_ctlr_enable
  <2>5. CASE open_namespace
    BY <1>2, <2>5 DEF open_namespace, Opening
  <2>6. CASE unvme_cleanup
    BY <1>2, <2>6 DEF unvme_cleanup, Closing
  <2>7. CASE tool_start
    BY <1>2, <2>7 DEF tool_start
  <2>8. CASE ctlr_ready
    BY <1>2, <2>8 DEF ctlr_ready
  <2>. QED  BY <1>4, <2>1, <2>2, <2>3, <2>4, <2>5, <2>6, <2>7, <2>8
<1>5. CASE unvme_queue_init
  <2>1. QTypeOK'
    BY <1>5, SlotsInt, StatsAssumption DEF unvme_queue_init, ZeroedCq, QTypeOK, NoRet
  <2>2. Described(what')
    <3>1. what' = [c \in Cids |-> IF c \in executing THEN Answered(c) ELSE Blank]
      BY <1>5 DEF unvme_queue_init
    <3>2. \A c \in Cids : /\ Answered(c) \in What
                          /\ Answered(c).opc \in QueueOps => Answered(c).arg \in Queues
      BY DEF Answered
    <3>. QED  BY <3>1, <3>2, NoCmdType DEF Described, Blank, QueueOps
  <2>3. Described(late') /\ cs' \in [Slots -> Nat]
    BY <1>5, DescribedBlank, SlotsInt DEF unvme_queue_init, Described
  <2>. QED  BY <1>5, <2>1, <2>2, <2>3 DEF unvme_queue_init, ctlrvars, Described, Starting
<1>6. CASE open_command \/ close_command \/ tool_command
  <2>1. PICK opc \in Opcodes, arg \in Nat :
             /\ nvme_acmd(opc, arg) /\ Fits(opc, arg)
             /\ opc \in QueueOps => arg \in Queues
             /\ mem' = IF opc = "create_cq" THEN mem \cup {ioq} ELSE mem
    BY <1>6, Issued
  <2>2. AcmdId \in Cids
    BY SlotsInt DEF AcmdId, QTypeOK
  <2>3. QTypeOK'
    BY <2>1, <2>2, SuccType DEF nvme_acmd, nvme_submit_cmd, TailDoorbell, QTypeOK, devvars
  <2>4. cmd' \in Cmd
    BY <2>1, <2>2 DEF nvme_acmd, Cmd
  <2>5. Described(what') /\ Described(late')
    BY <2>1, <2>2, PutTypes DEF nvme_acmd
  <2>6. disorder' = disorder \/ disorder' = phase
    BY <2>1 DEF nvme_acmd
  <2>7. mem' \subseteq Queues
    BY <2>1
  <2>. QED  BY <2>1, <2>3, <2>4, <2>5, <2>6, <2>7 DEF nvme_acmd, ctlrvars, Described, Fits
<1>7. CASE open_next
  <2>1. phase' \in {"features", "dead", "create_cq", "create_sq", "ns", "open"}
    BY <1>7 DEF open_next, AfterOk, Opening
  <2>2. ioq' \in Queues
    BY <1>7, QCountAssumption DEF open_next, MoreQueues, Queues
  <2>. QED  BY <1>2, <1>7, <2>1, <2>2, NoCmdType DEF open_next, ctlrvars, cmdvars, Opening, Off
<1>8. CASE open_fatal \/ crash
  <2>1. Die /\ 1 \in Queues
    BY <1>8, QCountAssumption DEF open_fatal, crash, Queues
  <2>. QED  BY <1>2, <2>1, NoCmdType DEF Die, ctlrvars, cmdvars, Off
<1>9. CASE nvme_ioq_delete_cq
  BY <1>2, <1>9, NoCmdType DEF nvme_ioq_delete_cq, ctlrvars, cmdvars, Closing
<1>10. CASE unvme_ioq_delete
  <2>1. ioq' \in Queues
    BY <1>10, QCountAssumption DEF unvme_ioq_delete, MoreQueues, Queues
  <2>. QED  BY <1>2, <1>10, <2>1, NoCmdType
               DEF unvme_ioq_delete, unvme_queue_cleanup, ctlrvars, cmdvars, Closing, Off
<1>11. CASE wait_begin \/ app_reap
  <2>1. QTypeOK'
    BY <1>11, NextTypeOK DEF wait_begin, app_reap, Reap, QNext
  <2>. QED  BY <1>11, <2>1 DEF wait_begin, app_reap, ctlrvars, procvars, cmdvars
<1>12. CASE wait_return
  <2>1. QTypeOK'
    BY <1>12, NextTypeOK DEF wait_return, ReapReturn, QNext
  <2>2. /\ cs[cmd.cid] \in Int
        /\ what[cmd.cid].done \in BOOLEAN
    <3>1. cs[cmd.cid] \in Nat
      BY <1>1, SlotsInt
    <3>2. what[cmd.cid] \in What
      BY <1>1
    <3>3. what[cmd.cid].done \in BOOLEAN
      BY <3>2, Zenon DEF What
    <3>4. cs[cmd.cid] \in Int
      BY <3>1
    <3>. QED  BY <3>3, <3>4
  <2>3. cmd' \in Cmd
    BY <1>1, <1>12, <2>2 DEF wait_return, ResultEntry, Cmd
  <2>. QED  BY <1>12, <2>1, <2>3 DEF wait_return, ctlrvars, procvars, cmdvars
<1>13. CASE wait_timeout \/ tool_next
  BY <1>1, <1>2, <1>13, NoCmdType DEF wait_timeout, tool_next, ctlrvars, procvars, cmdvars, Cmd
<1>14. ASSUME NEW c \in Cids, app_submit(c) PROVE ATypes'
  <2>1. QTypeOK'
    BY <1>14, NextTypeOK DEF app_submit, QNext
  <2>2. Described(what') /\ Described(late')
    BY <1>14, PutTypes DEF app_submit, Opcodes, QueueOps
  <2>. QED  BY <1>14, <2>1, <2>2 DEF app_submit, ctlrvars, procvars, Described
<1>15. CASE app_return
  <2>1. QTypeOK'
    BY <1>15, NextTypeOK DEF app_return, QNext
  <2>. QED  BY <1>15, <2>1 DEF app_return, ctlrvars, procvars, cmdvars
<1>16. CASE ctlr_reset
  BY <1>16, SlotsInt DEF ctlr_reset, QTypeOK, hostvars, procvars, cmdvars
<1>17. CASE ctlr_fetch
  <2>1. QTypeOK'
    BY <1>17, NextTypeOK DEF ctlr_fetch, QNext
  <2>. QED  BY <1>17, <2>1 DEF ctlr_fetch, ctlrvars, procvars, cmdvars
<1>18. ASSUME NEW c \in Cids, NEW st \in Stats, ctlr_post(c, st) PROVE ATypes'
  <2>1. QTypeOK'
    BY <1>18, NextTypeOK DEF ctlr_post, QNext
  <2>2. PICK w : w = Answered(c)
    OBVIOUS
  <2>3. w \in What /\ (w.opc \in QueueOps => w.arg \in Queues) /\ what[c] \in What /\ dev_cqtail \in Slots
    BY <2>2 DEF Answered, QTypeOK
  <2>4. cs' \in [Slots -> Nat]
    <3>1. cs' = [cs EXCEPT ![dev_cqtail] = IF HasResult(w) THEN w.arg ELSE 0]
      BY <1>18, <2>2 DEF ctlr_post
    <3>. QED  BY <2>3, <3>1 DEF What
  <2>5. Described(what')
    <3>1. [what[c] EXCEPT !.done = TRUE] \in What
      BY <2>3 DEF What
    <3>2. what' = what \/ what' = [what EXCEPT ![c] = [what[c] EXCEPT !.done = TRUE]]
      BY <1>18 DEF ctlr_post
    <3>3. /\ [what[c] EXCEPT !.done = TRUE].opc = what[c].opc
          /\ [what[c] EXCEPT !.done = TRUE].arg = what[c].arg
      BY <2>3 DEF What
    <3>. QED  BY <3>1, <3>2, <3>3 DEF Described
  <2>6. Described(late')
    BY <1>18, DescribedBlank DEF ctlr_post, Described
  <2>7. (dev_sqs \subseteq dev_cqs /\ dev_cqs \subseteq Queues)'
    <3>1. \/ UNCHANGED <<dev_sqs, dev_cqs>>
          \/ /\ Permitted(w)
             /\ dev_sqs' = With(dev_sqs, w, "create_sq", "delete_sq")
             /\ dev_cqs' = With(dev_cqs, w, "create_cq", "delete_cq")
      BY <1>18, <2>2 DEF ctlr_post
    <3>. QED  BY <2>3, <3>1 DEF Permitted, With, QueueOps
  <2>8. disorder' \in Opening \cup Closing \cup {"none", "stale", "tool"}
    BY <1>18 DEF ctlr_post
  <2>9. UNCHANGED <<phase, ioq, mem, unconfirmed, cmd, cc_en, csts_rdy, attached>>
    BY <1>18 DEF ctlr_post, procvars
  <2>. QED  BY <2>1, <2>4, <2>5, <2>6, <2>7, <2>8, <2>9 DEF Described
<1>. QED
  BY <1>3, <1>4, <1>5, <1>6, <1>7, <1>8, <1>9, <1>10, <1>11, <1>12, <1>13, <1>14, <1>15,
     <1>16, <1>17, <1>18 DEF ANext, HostStep

\* Every variable of the admin path has its type, whatever processes die and
\* however late the controller answers: the loops over the I/O queues stay
\* within them and a queue of the controller has its completion queue.
THEOREM AdminTypeCorrect == ASpec => []ATypeOK
<1>1. ATypes => ATypeOK
  BY DEF ATypes, ATypeOK, Cmd
<1>. QED  BY <1>1, ATypesInit, ATypesNext, PTL DEF ASpec

-----------------------------------------------------------------------------
\* The ring.

\* Only a step that puts it out of order ends the order of a ring, and only
\* zeroing it restores it.
LEMMA OrderBefore ==
  ASSUME ATypes, [ANext]_avars, InOrder', ~unvme_queue_init
  PROVE  /\ InOrder
         /\ \A opc, arg : nvme_acmd(opc, arg) => ~Clash
         /\ \A c, st : ctlr_post(c, st) => ~Stale
<1>1. phase # "none"
  BY DEF ATypes, Opening, Closing, Off, Starting
<1>2. ASSUME NEW opc, NEW arg, nvme_acmd(opc, arg) PROVE InOrder /\ ~Clash
  BY <1>1, <1>2 DEF nvme_acmd, InOrder
<1>3. ASSUME NEW c, NEW st, ctlr_post(c, st) PROVE InOrder /\ ~Stale
  BY <1>3 DEF ctlr_post, InOrder
<1>4. CASE open_command \/ close_command \/ tool_command
  <2>1. PICK opc \in Opcodes, arg \in Nat : nvme_acmd(opc, arg)
    BY <1>4, Issued DEF ATypes
  <2>. QED  BY <1>2, <1>3, <2>1
<1>5. CASE disorder' = disorder
  BY <1>2, <1>3, <1>5 DEF InOrder
<1>6. CASE \/ wait_begin \/ app_reap \/ wait_return \/ app_return \/ (\E c \in Cids : app_submit(c))
           \/ ctlr_fetch \/ UNCHANGED avars \/ nvme_ctlr_disable \/ nvme_ctlr_wait_ready
           \/ ctlr_wait_timeout \/ open_namespace \/ unvme_cleanup \/ tool_start \/ ctlr_ready
           \/ open_next \/ open_fatal \/ crash \/ nvme_ioq_delete_cq \/ nvme_adminq_setup \/ ctlr_reset
           \/ unvme_ioq_delete \/ wait_timeout \/ tool_next
  <2>1. disorder' = disorder
    BY <1>6 DEF wait_begin, app_reap, wait_return, app_return, app_submit, ctlr_fetch, avars,
            nvme_ctlr_disable, nvme_ctlr_wait_ready, ctlr_wait_timeout, open_namespace,
            unvme_cleanup, tool_start, ctlr_ready, open_next, open_fatal, crash, Die,
            nvme_ioq_delete_cq, nvme_adminq_setup, ctlr_reset, unvme_ioq_delete, wait_timeout,
            tool_next, cmdvars
  <2>. QED  BY <1>5, <2>1
<1>. QED  BY <1>2, <1>3, <1>4, <1>6 DEF ANext, HostStep

\* On a ring that stays in order an nvme_acmd function takes a free id and
\* finds room: it submits like any other caller.
LEMMA IssueSubmits ==
  ASSUME AInv, ~Clash, NEW opc, NEW arg, nvme_acmd(opc, arg), Fits(opc, arg)
  PROVE  sq_tail \in Cids /\ Submit(sq_tail)
<1>1. sq_tail \in Cids
  BY SlotsInt DEF AInv, ATypes, QTypeOK
<1>2. cqe = NoSlot
  BY DEF nvme_acmd, AInv, Call, Fits, Running, NoCmd, Opening, Closing
<1>. QED  BY <1>1, <1>2 DEF nvme_acmd, AcmdId, Clash, Submit

\* Apart from a new ring and a controller reset, what happens to the admin
\* ring is what happens to any ring.
LEMMA RingMoves ==
  ASSUME AInv, [ANext]_avars, InOrder', ~unvme_queue_init, ~ctlr_reset
  PROVE  [QNext]_qvars
<1>1. CASE open_command \/ close_command \/ tool_command
  <2>1. PICK opc \in Opcodes, arg \in Nat : nvme_acmd(opc, arg) /\ Fits(opc, arg)
    BY <1>1, Issued DEF AInv, ATypes
  <2>2. ~Clash
    BY <2>1, OrderBefore DEF AInv
  <2>3. sq_tail \in Cids /\ Submit(sq_tail)
    BY <2>1, <2>2, IssueSubmits
  <2>. QED  BY <2>3 DEF QNext
<1>2. CASE wait_begin \/ app_reap
  BY <1>2 DEF wait_begin, app_reap, Reap, QNext
<1>3. CASE wait_return \/ app_return
  BY <1>3 DEF wait_return, app_return, ReapReturn, QNext
<1>4. ASSUME NEW c \in Cids, app_submit(c) PROVE [QNext]_qvars
  BY <1>4 DEF app_submit, QNext
<1>5. CASE ctlr_fetch
  BY <1>5 DEF ctlr_fetch, QNext
<1>6. ASSUME NEW c \in Cids, NEW st \in Stats, ctlr_post(c, st) PROVE [QNext]_qvars
  BY <1>6 DEF ctlr_post, QNext
<1>7. CASE UNCHANGED avars
  BY <1>7 DEF avars
<1>8. CASE \/ nvme_ctlr_disable \/ nvme_ctlr_wait_ready \/ ctlr_wait_timeout \/ nvme_adminq_setup
           \/ open_namespace \/ unvme_cleanup \/ tool_start \/ ctlr_ready
           \/ open_next \/ open_fatal \/ crash \/ nvme_ioq_delete_cq
           \/ unvme_ioq_delete \/ wait_timeout \/ tool_next
  BY <1>8 DEF nvme_ctlr_disable, nvme_ctlr_wait_ready, ctlr_wait_timeout, nvme_adminq_setup,
              open_namespace, unvme_cleanup, tool_start, ctlr_ready, open_next, open_fatal, crash,
              Die, nvme_ioq_delete_cq, unvme_ioq_delete, wait_timeout, tool_next
<1>. QED  BY <1>1, <1>2, <1>3, <1>4, <1>5, <1>6, <1>7, <1>8 DEF ANext, HostStep

\* Lockstep of the two indices on any ring.
LEMMA LockstepNext ==
  ASSUME QInv, Lockstep, [QNext]_qvars
  PROVE  Lockstep'
<1> USE DEF QInv
<1>1. QTypeOK' /\ Cardinality(cidmask) \in Nat /\ Size \in Nat /\ Size >= 2
  BY NextTypeOK, CidSets, SizeAssumption DEF QTypeOK
<1>2. /\ sq_tail \in Slots /\ cq_head \in Slots
      /\ Dist(cq_head, sq_tail) \in 0 .. (Size - 1)
      /\ Dist(cq_head, sq_tail) + 1 < Size => Succ(sq_tail) # cq_head
  BY DistRange DEF QTypeOK
<1>3. ASSUME NEW c \in Cids, Submit(c) PROVE Lockstep'
  <2>1. Cardinality(cidmask') = Cardinality(cidmask) + 1
    BY <1>3, CidSets DEF Submit, QTypeOK
  <2>2. cqe = NoSlot /\ cqe' = NoSlot /\ cq_head' = cq_head /\ sq_tail' = Succ(sq_tail)
        /\ Cardinality(cidmask) + 1 # Size
    BY <1>3 DEF Submit, nvme_submit_cmd, QueueFull
  <2>3. Dist(cq_head, sq_tail) + 1 < Size
    BY <1>1, <1>2, <2>2 DEF Counted, Lockstep, Reaping
  <2>4. Dist(cq_head, Succ(sq_tail)) = Dist(cq_head, sq_tail) + 1
    BY <1>2, <2>3, SegGrow
  <2>. QED  BY <1>1, <1>2, <2>1, <2>2, <2>4 DEF Lockstep, Reaping
<1>4. CASE Reap
  <2>1. /\ cqe = NoSlot /\ cqe' = cq_head /\ cq_head' = Succ(cq_head)
        /\ UNCHANGED <<sq_tail, cidmask>> /\ NewCompletion
    BY <1>4 DEF Reap, nvme_check_completion
  <2>2. cq_head # dev_cqtail /\ dev_sqhead \in Slots /\ dev_cqtail \in Slots
    BY <2>1, PhaseTest DEF QTypeOK
  <2>3. /\ Dist(cq_head, dev_cqtail) \in Nat /\ Dist(cq_head, dev_cqtail) # 0
        /\ Dist(dev_sqhead, sq_tail) \in Nat
    BY <1>2, <2>2, DistRange
  <2>4. Cardinality(executing) \in Nat
    BY CidSets DEF QTypeOK
  <2>5. Dist(cq_head, sq_tail) # 0
    <3>1. Reaping = 0
      BY <2>1 DEF Reaping
    <3>2. /\ Cardinality(cidmask) = Dist(dev_sqhead, sq_tail) + Cardinality(executing)
                                      + Dist(cq_head, dev_cqtail) + Reaping
          /\ Dist(cq_head, sq_tail) + Reaping = Cardinality(cidmask)
      BY DEF Counted, Lockstep
    <3>3. \A a, b, c, d, e \in Nat : (e = a + b + c + 0 /\ d + 0 = e /\ c # 0) => d # 0
      OBVIOUS
    <3>4. Dist(cq_head, sq_tail) \in Nat /\ Cardinality(cidmask) \in Nat
      BY <1>1, <1>2
    <3>. QED  BY <2>3, <2>4, <3>1, <3>2, <3>3, <3>4, Zenon
  <2>6. cq_head # sq_tail
    BY <1>2, <2>5, DistRange
  <2>7. Dist(Succ(cq_head), sq_tail) = Dist(cq_head, sq_tail) - 1
    BY <1>2, <2>6, SegShrink
  <2>8. cq_head # NoSlot
    BY <1>2, SlotsInt
  <2>. QED  BY <1>1, <1>2, <2>1, <2>7, <2>8 DEF Lockstep, Reaping
<1>5. CASE ReapReturn
  <2>1. /\ cqe # NoSlot /\ cqe' = NoSlot /\ UNCHANGED <<cq_head, sq_tail>>
        /\ cidmask' = cidmask \ {cq[cqe].cid}
    BY <1>5 DEF ReapReturn, check_completion_return, ReturnedCid
  <2>2. cq[cqe].cid \in cidmask
    BY <2>1 DEF ReapedEntryIntact
  <2>3. Cardinality(cidmask') = Cardinality(cidmask) - 1
    BY <2>1, <2>2, CidSets DEF QTypeOK
  <2>. QED  BY <1>1, <1>2, <2>1, <2>3 DEF Lockstep, Reaping
<1>6. CASE DeviceFetch \/ (\E c \in Cids, st \in Stats : DevicePost(c, st)) \/ UNCHANGED qvars
  <2>1. UNCHANGED <<cq_head, sq_tail, cqe, cidmask>>
    BY <1>6 DEF DeviceFetch, DevicePost, qvars, hostvars
  <2>. QED  BY <2>1 DEF Lockstep, Reaping
<1>. QED  BY <1>3, <1>4, <1>5, <1>6 DEF QNext

-----------------------------------------------------------------------------
\* Bring-up.  The steps of a process that is past it leave the registers alone.
RunningStep ==
    /\ Running /\ UNCHANGED <<cc_en, csts_rdy>>
    /\ phase' \in Opening \cup Closing \cup Off \cup {"open", "tool"}

LEMMA ProcessSteps ==
  ASSUME Base, \/ open_command \/ close_command \/ tool_command \/ open_next
               \/ nvme_ioq_delete_cq \/ unvme_ioq_delete \/ wait_begin \/ wait_return
               \/ wait_timeout \/ tool_next \/ tool_start \/ open_namespace \/ unvme_cleanup
               \/ (\E c \in Cids : app_submit(c)) \/ app_reap \/ app_return
  PROVE  RunningStep
<1> USE DEF Base, RunningStep, Running, ctlrvars
<1>1. CASE open_command \/ close_command \/ tool_command
  <2>1. PICK opc \in Opcodes, arg \in Nat : nvme_acmd(opc, arg) /\ Fits(opc, arg)
    BY <1>1, Issued DEF ATypes
  <2>. QED  BY <2>1 DEF nvme_acmd, Fits
<1>2. CASE open_next
  BY <1>2 DEF open_next, AfterOk, Opening, Closing, Off
<1>3. CASE nvme_ioq_delete_cq \/ unvme_ioq_delete
  BY <1>3 DEF nvme_ioq_delete_cq, unvme_ioq_delete, Opening, Closing, Off
<1>4. CASE wait_begin \/ wait_return \/ wait_timeout
  <2>1. cmd.st = "wait" /\ UNCHANGED <<phase, cc_en, csts_rdy>>
    BY <1>4 DEF wait_begin, wait_return, wait_timeout, procvars
  <2>. QED  BY <2>1 DEF Call, Fits
<1>5. CASE tool_next \/ tool_start \/ open_namespace \/ unvme_cleanup
  BY <1>5 DEF tool_next, tool_start, open_namespace, unvme_cleanup, procvars, Opening, Closing
<1>6. CASE (\E c \in Cids : app_submit(c)) \/ app_reap \/ app_return
  BY <1>6 DEF app_submit, app_reap, app_return, procvars
<1>. QED  BY <1>1, <1>2, <1>3, <1>4, <1>5, <1>6

\* The steps of the controller, and none, change nothing the process keeps.
LEMMA ControllerSteps ==
  ASSUME \/ ctlr_ready \/ ctlr_reset \/ ctlr_fetch \/ UNCHANGED avars
         \/ (\E c \in Cids, st \in Stats : ctlr_post(c, st))
  PROVE  UNCHANGED <<phase, ioq, mem, unconfirmed, cmd, cidmask, cqe, sq_tail, cq_head, cq_phase>>
  BY DEF ctlr_ready, ctlr_reset, ctlr_fetch, ctlr_post, DeviceFetch, DevicePost, avars,
         qvars, hostvars, procvars

LEMMA RegistersNext ==
  ASSUME Base, [ANext]_avars
  PROVE  Registers'
<1> USE DEF Base, Registers
<1>1. ASSUME RunningStep PROVE Registers'
  BY <1>1 DEF RunningStep, Running, Opening, Closing, Off
<1>2. CASE UNCHANGED avars
  BY <1>2 DEF avars, qvars, hostvars, devvars, ctlrvars, procvars, Running
<1>3. CASE nvme_ctlr_disable
  BY <1>3 DEF nvme_ctlr_disable, qvars, devvars, Running, Opening, Closing
<1>4. CASE nvme_ctlr_wait_ready
  BY <1>4 DEF nvme_ctlr_wait_ready, Ready, qvars, devvars, ctlrvars, Running, Opening, Closing
<1>5. CASE ctlr_wait_timeout \/ open_fatal \/ crash
  BY <1>5 DEF ctlr_wait_timeout, open_fatal, crash, Die, qvars, devvars, ctlrvars,
              Running, Opening, Closing
<1>6. CASE nvme_adminq_setup
  BY <1>6 DEF nvme_adminq_setup, nvme_ctlr_enable, qvars, devvars, Running, Opening, Closing
<1>7. CASE ctlr_ready
  BY <1>7 DEF ctlr_ready, procvars, Running
<1>8. CASE ctlr_reset
  BY <1>8 DEF ctlr_reset, procvars, Running
<1>9. CASE ctlr_fetch \/ (\E c \in Cids, st \in Stats : ctlr_post(c, st))
  BY <1>9 DEF ctlr_fetch, ctlr_post, ctlrvars, procvars, Running
<1>10. CASE unvme_queue_init
  BY <1>10 DEF unvme_queue_init, ctlrvars, Running, Opening, Closing
<1>. QED
  BY <1>1, <1>2, <1>3, <1>4, <1>5, <1>6, <1>7, <1>8, <1>9, <1>10, ProcessSteps DEF ANext, HostStep

\* Only a process that zeroes its rings and hands them over changes this.
LEMMA BringUpSteps ==
  ASSUME Base, [ANext]_avars
  PROVE  /\ phase' \in Starting \cup {"enabling"} =>
               unvme_queue_init \/ (/\ phase \in Starting \cup {"enabling"}
                                    /\ UNCHANGED <<sq_tail, cq_head, cq_phase, cqe, cidmask>>)
         /\ phase' \in Starting => unvme_queue_init \/ phase \in Starting
         /\ Handed' => nvme_adminq_setup \/ Handed
<1>1. CASE RunningStep
  BY <1>1 DEF RunningStep, Running, Handed, Starting, Opening, Closing, Off
<1>2. CASE \/ UNCHANGED avars \/ ctlr_ready \/ ctlr_fetch \/ ctlr_reset
           \/ (\E c \in Cids, st \in Stats : ctlr_post(c, st))
  BY <1>2, ControllerSteps DEF Handed
<1>3. CASE \/ nvme_ctlr_disable \/ nvme_ctlr_wait_ready \/ ctlr_wait_timeout
           \/ open_fatal \/ crash \/ unvme_queue_init \/ nvme_adminq_setup
  BY <1>3 DEF nvme_ctlr_disable, nvme_ctlr_wait_ready, ctlr_wait_timeout, open_fatal, crash, Die,
              nvme_adminq_setup, unvme_queue_init, Handed, Starting, qvars, hostvars
<1>. QED  BY <1>1, <1>2, <1>3, ProcessSteps DEF ANext, HostStep

LEMMA UntouchedNext ==
  ASSUME Base, [ANext]_avars
  PROVE  Untouched'
<1>1. CASE unvme_queue_init
  BY <1>1 DEF unvme_queue_init, Untouched
<1>2. CASE ~unvme_queue_init
  BY <1>2, BringUpSteps DEF Base, Untouched
<1>. QED  BY <1>1, <1>2

\* A controller that posts into a ring in order before its hand-over is in a
\* lap whose phase bit the new process does not look for.
LEMMA FreshRingNext ==
  ASSUME Base, [ANext]_avars, InOrder', unvme_queue_init \/ FreshRing
  PROVE  FreshRing'
<1>1. CASE unvme_queue_init
  BY <1>1 DEF unvme_queue_init, ZeroedCq, FreshRing
<1>2. CASE ~unvme_queue_init /\ phase' \in Starting
  <2>1. phase \in Starting /\ FreshRing
    BY <1>2, BringUpSteps
  <2>2. ASSUME NEW c \in Cids, NEW st \in Stats, ctlr_post(c, st) PROVE FreshRing'
    <3>1. ~Stale /\ csts_rdy /\ phase # "setup"
      BY <1>2, <2>2, OrderBefore DEF Base, Registers, ctlr_post
    <3>2. dev_phase = 0
      BY <2>1, <3>1 DEF Stale, Starting, Base, ATypes, QTypeOK
    <3>3. cq' = [cq EXCEPT ![dev_cqtail] = [cid |-> c, p |-> 0, stat |-> st]]
      BY <2>2, <3>2 DEF ctlr_post, DevicePost
    <3>. QED  BY <2>1, <3>3 DEF FreshRing, Base, ATypes, QTypeOK
  <2>3. ~RunningStep
    BY <2>1 DEF RunningStep, Running, Starting, Opening, Closing
  <2>4. CASE ~(\E c \in Cids, st \in Stats : ctlr_post(c, st))
    <3>1. cq' = cq
      BY <1>2, <2>3, <2>4, ProcessSteps
         DEF ANext, HostStep, nvme_ctlr_disable, nvme_ctlr_wait_ready, ctlr_wait_timeout, open_fatal,
             crash, Die, nvme_adminq_setup, ctlr_ready, ctlr_fetch, DeviceFetch, ctlr_reset,
             avars, qvars, devvars
    <3>. QED  BY <2>1, <3>1 DEF FreshRing
  <2>. QED  BY <2>2, <2>4
<1>. QED  BY <1>1, <1>2 DEF FreshRing

\* A ring in order at its hand-over is as NvmeQueue wants it to be.
LEMMA HandOver ==
  ASSUME Base, FreshRing, phase = "setup"
  PROVE  QInv /\ Lockstep
<1>1. /\ sq_tail = 0 /\ cq_head = 0 /\ cq_phase = 0 /\ cqe = NoSlot /\ cidmask = {} /\ executing = {}
      /\ dev_sqhead = 0 /\ dev_cqtail = 0 /\ dev_phase = 1 /\ sq_doorbell = 0 /\ cq_doorbell = 0
      /\ \A s \in Slots : cq[s].p = 0
  BY DEF Base, Registers, Untouched, FreshRing, Starting
<1>2. Unfetched = {} /\ Posted = {}
  <2>1. \A s \in Slots : ~InSeg(s, 0, 0)
    BY SlotsInt DEF InSeg
  <2>. QED  BY <1>1, <2>1 DEF Unfetched, Posted
<1>3. Cardinality(cidmask) = 0 /\ Cardinality(executing) = 0 /\ Dist(0, 0) = 0 /\ Reaping = 0
  BY <1>1, FS_EmptySet, SizeAssumption DEF Dist, Reaping
<1>4. PhaseAgrees
  BY <1>1, <1>2, SlotsInt DEF PhaseAgrees
<1>5. Counted /\ Lockstep
  BY <1>1, <1>3, SizeAssumption DEF Counted, Lockstep
<1>6. Doorbells /\ InFlightOnce /\ ReapedEntryIntact
  BY <1>1, <1>2 DEF Doorbells, InFlightOnce, ReapedEntryIntact
<1>. QED  BY <1>4, <1>5, <1>6 DEF QInv, Base, ATypes

\* A new ring is in step with a controller that has been reset, and stays so.
LEMMA RingSoundNext ==
  ASSUME AInv, [ANext]_avars, InOrder', ~unvme_queue_init
  PROVE  RingSound'
<1>1. Base
  BY DEF AInv, Base
<1>2. CASE nvme_adminq_setup
  <2>1. QInv /\ Lockstep /\ UNCHANGED qvars
    BY <1>1, <1>2, HandOver DEF AInv, nvme_adminq_setup
  <2>2. QInv'
    BY <2>1, NextQInv
  <2>3. Lockstep'
    BY <2>1 DEF Lockstep, Reaping, qvars, hostvars
  <2>. QED  BY <2>2, <2>3 DEF RingSound
<1>3. CASE ctlr_reset
  <2>1. ~cc_en /\ csts_rdy /\ phase' = phase
    BY <1>3 DEF ctlr_reset, procvars
  <2>2. ~Handed
    BY <2>1 DEF AInv, ATypes, Registers, Running, Handed, Off, Starting
  <2>. QED  BY <2>1, <2>2 DEF RingSound, Handed
<1>4. CASE ~nvme_adminq_setup /\ ~ctlr_reset
  <2>1. [QNext]_qvars
    BY <1>4, RingMoves
  <2>2. Handed' => Handed
    BY <1>1, <1>4, BringUpSteps
  <2>3. Handed => QInv' /\ Lockstep'
    BY <2>1, NextQInv, LockstepNext DEF AInv, RingSound
  <2>. QED  BY <2>2, <2>3 DEF RingSound
<1>. QED  BY <1>2, <1>3, <1>4

\* A free id is not at the controller, so no command is put over another one.
LEMMA UnlateNext ==
  ASSUME AInv, [ANext]_avars, InOrder', ~unvme_queue_init
  PROVE  Unlate'
<1>1. ASSUME NEW c \in Cids, NEW opc, NEW arg, Put(c, opc, arg), c \notin cidmask, Handed PROVE Unlate'
  <2>1. ~AtController(c)
    BY <1>1 DEF AtController, AInv, RingSound, QInv, InFlightOnce
  <2>. QED  BY <1>1, <2>1 DEF Put, AInv, Unlate
<1>2. CASE open_command \/ close_command \/ tool_command
  <2>1. PICK opc \in Opcodes, arg \in Nat : nvme_acmd(opc, arg) /\ Fits(opc, arg)
    BY <1>2, Issued DEF AInv, ATypes
  <2>2. ~Clash
    BY <2>1, OrderBefore DEF AInv
  <2>3. AcmdId \in Cids /\ AcmdId \notin cidmask /\ Put(AcmdId, opc, arg)
    BY <2>1, <2>2, SlotsInt DEF nvme_acmd, Clash, AcmdId, AInv, ATypes, QTypeOK
  <2>4. Handed
    BY <2>1 DEF Fits, Handed, Opening, Closing, Starting
  <2>. QED  BY <1>1, <2>3, <2>4
<1>3. ASSUME NEW c \in Cids, app_submit(c) PROVE Unlate'
  BY <1>1, <1>3 DEF app_submit, Submit, Handed, Starting
<1>4. ASSUME NEW c \in Cids, NEW st \in Stats, ctlr_post(c, st) PROVE Unlate'
  BY <1>4 DEF ctlr_post, AInv, Unlate
<1>5. CASE late' = late
  BY <1>5 DEF AInv, Unlate
<1>6. CASE \/ wait_begin \/ app_reap \/ wait_return \/ app_return
           \/ ctlr_fetch \/ UNCHANGED avars \/ nvme_ctlr_disable \/ nvme_ctlr_wait_ready
           \/ ctlr_wait_timeout \/ open_namespace \/ unvme_cleanup \/ tool_start \/ ctlr_ready
           \/ open_next \/ open_fatal \/ crash \/ nvme_ioq_delete_cq \/ nvme_adminq_setup \/ ctlr_reset
           \/ unvme_ioq_delete \/ wait_timeout \/ tool_next
  <2>1. late' = late
    BY <1>6 DEF wait_begin, app_reap, wait_return, app_return, ctlr_fetch, avars,
            nvme_ctlr_disable, nvme_ctlr_wait_ready, ctlr_wait_timeout, open_namespace,
            unvme_cleanup, tool_start, ctlr_ready, open_next, open_fatal, crash, Die,
            nvme_ioq_delete_cq, nvme_adminq_setup, ctlr_reset, unvme_ioq_delete, wait_timeout,
            tool_next, cmdvars
  <2>. QED  BY <1>5, <2>1
<1>. QED  BY <1>2, <1>3, <1>4, <1>6 DEF ANext, HostStep

-----------------------------------------------------------------------------
\* Completion entries.

LEMMA EntriesKept ==
  ASSUME Answers, Handed' => Handed,
         Handed => \A s \in ToCome' : /\ s \in ToCome /\ cq'[s] = cq[s] /\ cs'[s] = cs[s]
                                      /\ what'[cq[s].cid] = what[cq[s].cid]
  PROVE  Answers'
  BY DEF Answers, Truthful, HasResult

\* The ids of the entries, compared with that of the command that a step puts
\* on the ring or takes off it.
LEMMA OtherEntries ==
  ASSUME QInv
  PROVE  /\ cqe = NoSlot => ToCome = Posted
         /\ \A s \in Posted : s \in Slots /\ cq[s].cid \in cidmask
         /\ \A s \in ToCome : cq[s].cid \in Cids /\ cq[s].cid \notin executing
         /\ cqe # NoSlot => \A s \in Posted : cq[s].cid # cq[cqe].cid
  BY SlotsInt DEF QInv, QTypeOK, InFlightOnce, ReapedEntryIntact, Posted, ToCome

LEMMA EntriesAfterSubmit ==
  ASSUME AInv, Handed' => Handed, NEW c \in Cids, Submit(c),
         UNCHANGED cs, \A d \in Cids : d # c => what'[d] = what[d]
  PROVE  Answers'
<1>1. /\ cqe = NoSlot /\ cqe' = NoSlot /\ c \notin cidmask
      /\ UNCHANGED <<cq, cq_head, dev_cqtail>>
  BY DEF Submit, devvars
<1>2. ToCome' = ToCome
  BY <1>1 DEF ToCome, Posted
<1>3. ASSUME Handed, NEW s \in ToCome PROVE cq[s].cid \in Cids /\ cq[s].cid # c
  BY <1>1, <1>3, OtherEntries DEF AInv, RingSound
<1>. QED  BY <1>1, <1>2, <1>3, EntriesKept DEF AInv

LEMMA EntriesAfterReap ==
  ASSUME AInv, Handed' => Handed, Reap, UNCHANGED <<cs, what>>
  PROVE  Answers'
<1> SUFFICES ASSUME Handed PROVE \A s \in ToCome' : s \in ToCome
  BY EntriesKept DEF AInv, Reap, devvars
<1>1. /\ cqe' = cq_head /\ cq_head' = Succ(cq_head) /\ dev_cqtail' = dev_cqtail /\ NewCompletion
  BY DEF Reap, nvme_check_completion, devvars
<1>2. cq_head \in Slots /\ dev_cqtail \in Slots /\ cq_head # dev_cqtail /\ cq_head \in Posted
  BY <1>1, PhaseTest DEF AInv, RingSound, QInv, QTypeOK
<1>3. \A s \in Slots : InSeg(s, Succ(cq_head), dev_cqtail) => InSeg(s, cq_head, dev_cqtail)
  BY <1>2, SegShrink
<1>. QED  BY <1>1, <1>2, <1>3 DEF ToCome, Posted

LEMMA EntriesAfterReturn ==
  ASSUME AInv, Handed' => Handed, ReapReturn, UNCHANGED <<cs, what>>
  PROVE  Answers'
<1>1. cqe' = NoSlot /\ UNCHANGED <<cq, cq_head, dev_cqtail>>
  BY DEF ReapReturn, check_completion_return, devvars
<1>2. ToCome' \subseteq ToCome
  BY <1>1, SlotsInt DEF ToCome, Posted
<1>. QED  BY <1>1, <1>2, EntriesKept DEF AInv

LEMMA EntriesAfterPost ==
  ASSUME AInv, Handed' => Handed, NEW c \in Cids, NEW st \in Stats, ctlr_post(c, st)
  PROVE  Answers'
<1> SUFFICES ASSUME Handed PROVE \A s \in ToCome' : Truthful(s)'
  BY DEF Answers
<1>1. QInv /\ QTypeOK /\ Doorbells /\ \A s \in ToCome : Truthful(s)
  BY DEF AInv, RingSound, QInv, Answers
<1>2. /\ c \in executing /\ Succ(dev_cqtail) # cq_head /\ dev_cqtail' = Succ(dev_cqtail)
      /\ cq' = [cq EXCEPT ![dev_cqtail] = [cid |-> c, p |-> dev_phase, stat |-> st]]
      /\ UNCHANGED <<cq_head, cqe>>
      /\ cs' = [cs EXCEPT ![dev_cqtail] = IF HasResult(what[c]) THEN what[c].arg ELSE 0]
      /\ st = 0 => what' = [what EXCEPT ![c].done = TRUE]
      /\ st # 0 => what' = what
  <2>1. late[c] = Blank
    BY DEF AInv, Unlate
  <2>2. Answered(c) = what[c]
    BY <2>1 DEF Answered
  <2>. QED  BY <1>1, <2>1, <2>2 DEF ctlr_post, DevicePost, hostvars, Doorbells
<1>3. /\ dev_cqtail \in Slots /\ cq_head \in Slots /\ cq \in [Slots -> [cid : Cids, p : {0, 1}, stat : Stats]]
      /\ cs \in [Slots -> Nat] /\ what \in [Cids -> What]
  BY <1>1 DEF QTypeOK, AInv, ATypes
<1>4. \A s \in Slots : InSeg(s, cq_head, Succ(dev_cqtail)) => InSeg(s, cq_head, dev_cqtail) \/ s = dev_cqtail
  BY <1>2, <1>3, SegGrow
<1>5. ~InSeg(dev_cqtail, cq_head, dev_cqtail) /\ dev_cqtail # cqe
  BY <1>1, <1>2, <1>3, SegGrow, SlotsInt DEF Doorbells
<1>6. PICK t \in Slots : t = dev_cqtail
  BY <1>3
<1>7. ToCome' \subseteq ToCome \cup {t} /\ t \notin ToCome
  BY <1>2, <1>4, <1>5, <1>6 DEF ToCome, Posted
<1>8. what'[c].opc = what[c].opc /\ what'[c].arg = what[c].arg /\ (st = 0 => what'[c].done = TRUE)
  BY <1>2, <1>3 DEF What
<1>9. Truthful(t)'
  <2>1. cq'[t].cid = c /\ cq'[t].stat = st
    BY <1>2, <1>3, <1>6
  <2>2. HasResult(what[c]) => cs'[t] = what[c].arg
    BY <1>2, <1>3, <1>6
  <2>. QED  BY <1>8, <2>1, <2>2 DEF Truthful, HasResult
<1>10. ASSUME NEW s \in ToCome, s # t PROVE Truthful(s)'
  <2>1. cq'[s] = cq[s] /\ cs'[s] = cs[s] /\ s \in Slots
    BY <1>2, <1>3, <1>6, <1>10 DEF ToCome
  <2>2. cq[s].cid \in Cids /\ cq[s].cid # c
    BY <1>1, <1>2, OtherEntries
  <2>3. what'[cq[s].cid] = what[cq[s].cid]
    BY <1>2, <1>3, <2>2
  <2>4. Truthful(s)
    BY <1>1
  <2>. QED  BY <2>1, <2>3, <2>4 DEF Truthful, HasResult
<1>. QED  BY <1>7, <1>9, <1>10

\* The steps that leave the ring and what is known of its commands alone.
LEMMA QuietSteps ==
  ASSUME \/ nvme_ctlr_disable \/ nvme_ctlr_wait_ready \/ ctlr_wait_timeout \/ nvme_adminq_setup
         \/ open_namespace \/ unvme_cleanup \/ tool_start \/ ctlr_ready \/ open_next \/ open_fatal
         \/ crash \/ nvme_ioq_delete_cq \/ unvme_ioq_delete \/ wait_timeout \/ tool_next
         \/ UNCHANGED avars
  PROVE  UNCHANGED <<qvars, what, cs>>
  BY DEF nvme_ctlr_disable, nvme_ctlr_wait_ready, ctlr_wait_timeout, nvme_adminq_setup,
         open_namespace, unvme_cleanup, tool_start, ctlr_ready, open_next, open_fatal, crash, Die,
         nvme_ioq_delete_cq, unvme_ioq_delete, wait_timeout, tool_next, avars, cmdvars

LEMMA AnswersNext ==
  ASSUME AInv, [ANext]_avars, InOrder', ~unvme_queue_init
  PROVE  Answers'
<1>1. CASE nvme_adminq_setup
  <2>1. cqe' = NoSlot /\ cq_head' = 0 /\ dev_cqtail' = 0
    BY <1>1 DEF nvme_adminq_setup, AInv, Registers, Untouched, Starting, qvars, hostvars, devvars
  <2>2. \A s \in Slots : ~InSeg(s, 0, 0)
    BY SlotsInt DEF InSeg
  <2>3. ToCome' = {}
    BY <2>1, <2>2, SlotsInt DEF ToCome, Posted
  <2>. QED  BY <2>3 DEF Answers
<1>2. CASE ~nvme_adminq_setup
  <2>1. Handed' => Handed
    BY <1>2, BringUpSteps DEF AInv, Base
  <2>2. CASE open_command \/ close_command \/ tool_command
    <3>1. PICK opc \in Opcodes, arg \in Nat : nvme_acmd(opc, arg) /\ Fits(opc, arg)
      BY <2>2, Issued DEF AInv, ATypes
    <3>2. sq_tail \in Cids /\ Submit(sq_tail)
      BY <3>1, OrderBefore, IssueSubmits DEF AInv
    <3>3. UNCHANGED cs /\ \A d \in Cids : d # sq_tail => what'[d] = what[d]
      BY <3>1 DEF nvme_acmd, Put, AcmdId, AInv, ATypes
    <3>. QED  BY <2>1, <3>2, <3>3, EntriesAfterSubmit
  <2>3. ASSUME NEW c \in Cids, app_submit(c) PROVE Answers'
    <3>1. Submit(c) /\ UNCHANGED cs /\ \A d \in Cids : d # c => what'[d] = what[d]
      BY <2>3 DEF app_submit, Put, AInv, ATypes
    <3>. QED  BY <2>1, <3>1, EntriesAfterSubmit
  <2>4. CASE wait_begin \/ app_reap
    BY <2>1, <2>4, EntriesAfterReap DEF wait_begin, app_reap, Reap, cmdvars
  <2>5. CASE wait_return \/ app_return
    BY <2>1, <2>5, EntriesAfterReturn DEF wait_return, app_return, ReapReturn, cmdvars
  <2>6. ASSUME NEW c \in Cids, NEW st \in Stats, ctlr_post(c, st) PROVE Answers'
    BY <2>1, <2>6, EntriesAfterPost
  <2>7. CASE ctlr_reset
    <3>1. ~cc_en /\ csts_rdy
      BY <2>7 DEF ctlr_reset
    <3>2. ~Handed
      BY <3>1 DEF AInv, ATypes, Registers, Running, Handed, Off, Starting
    <3>. QED  BY <2>1, <3>2 DEF Answers
  <2>8. ASSUME UNCHANGED <<cq, cq_head, cqe, dev_cqtail, what, cs>> PROVE Answers'
    <3>1. ToCome' = ToCome
      BY <2>8 DEF ToCome, Posted
    <3>. QED  BY <2>1, <2>8, <3>1, EntriesKept DEF AInv
  <2>9. CASE ctlr_fetch
    BY <2>8, <2>9 DEF ctlr_fetch, DeviceFetch, hostvars, cmdvars
  <2>10. ASSUME UNCHANGED <<qvars, what, cs>> PROVE Answers'
    BY <2>8, <2>10 DEF qvars, hostvars, devvars
  <2>. QED
    BY <1>2, <2>2, <2>3, <2>4, <2>5, <2>6, <2>7, <2>9, <2>10, QuietSteps DEF ANext, HostStep
<1>. QED  BY <1>1, <1>2

-----------------------------------------------------------------------------
\* The call in progress.

\* A command that failed or ended leaves the process without one.
LEMMA CallOver ==
  ASSUME Base, cmd' = NoCmd, UNCHANGED cqe,
         (Running /\ phase # "open")' => (Running /\ phase # "open" /\ cmd.st # "wait") \/ cqe = NoSlot
  PROVE  Call'
  BY DEF Base, Call, NoCmd

LEMMA CallNext ==
  ASSUME Base, [ANext]_avars
  PROVE  Call'
<1>1. cmd \in Cmd /\ what \in [Cids -> What] /\ cmd.st \in {"none", "wait", "ok", "fail"} /\ cmd.cid \in Cids
  BY DEF Base, ATypes, Cmd
<1>2. Call
  BY DEF Base
<1>3. cmd.st = "none" \/ phase \in Opening \cup Closing \cup {"tool"}
  BY <1>2 DEF Call, Fits
<1>4. CASE open_command \/ close_command \/ tool_command
  <2>1. PICK opc \in Opcodes, arg \in Nat : nvme_acmd(opc, arg) /\ Fits(opc, arg)
    BY <1>4, Issued DEF Base, ATypes
  <2>2. /\ cmd' = [opc |-> opc, arg |-> arg, cid |-> sq_tail, st |-> "wait", res |-> -1, own |-> FALSE]
        /\ what' = [what EXCEPT ![sq_tail] = [opc |-> opc, arg |-> arg, done |-> FALSE]]
        /\ sq_tail \in cidmask' /\ sq_tail' = Succ(sq_tail) /\ UNCHANGED <<phase, ioq>>
    BY <2>1 DEF nvme_acmd, Put, AcmdId, nvme_submit_cmd
  <2>3. sq_tail \in Cids
    BY SlotsInt DEF Base, ATypes, QTypeOK
  <2>4. /\ cmd'.opc = opc /\ cmd'.arg = arg /\ cmd'.cid = sq_tail /\ cmd'.st = "wait"
        /\ what'[sq_tail].opc = opc /\ what'[sq_tail].arg = arg
    BY <1>1, <2>2, <2>3
  <2>5. Fits(cmd.opc, cmd.arg)'
    BY <2>1, <2>2, <2>4 DEF Fits
  <2>. QED  BY <2>2, <2>4, <2>5 DEF Call
<1>5. CASE open_next \/ open_fatal \/ crash \/ nvme_ioq_delete_cq \/ unvme_ioq_delete \/ tool_next
  <2>1. cmd' = NoCmd /\ UNCHANGED cqe
    BY <1>5 DEF open_next, open_fatal, crash, Die, nvme_ioq_delete_cq, unvme_ioq_delete, tool_next,
                qvars, hostvars
  <2>2. (Running /\ phase # "open")' => Running /\ phase # "open" /\ cmd.st # "wait"
    BY <1>5 DEF open_next, open_fatal, crash, Die, nvme_ioq_delete_cq, unvme_ioq_delete, tool_next,
                DeleteOver, Running, Opening, Closing, procvars
  <2>. QED  BY <2>1, <2>2, CallOver
<1>6. CASE \/ unvme_queue_init \/ nvme_ctlr_disable \/ nvme_ctlr_wait_ready \/ ctlr_wait_timeout
           \/ nvme_adminq_setup
  <2>1. cmd = NoCmd /\ cmd' = NoCmd
    BY <1>2, <1>3, <1>6 DEF unvme_queue_init, nvme_ctlr_disable, nvme_ctlr_wait_ready,
                 ctlr_wait_timeout, nvme_adminq_setup, Call, Opening, Closing, Off
  <2>2. (Running /\ phase # "open")' => cqe' = NoSlot
    BY <1>6 DEF unvme_queue_init, nvme_ctlr_disable, nvme_ctlr_wait_ready, ctlr_wait_timeout,
                nvme_adminq_setup, qvars, hostvars, Running, Opening, Closing, Base, Untouched
  <2>. QED  BY <2>1, <2>2 DEF Call, NoCmd
<1>7. CASE tool_start \/ open_namespace \/ unvme_cleanup
  <2>1. cmd = NoCmd /\ cmd' = NoCmd /\ UNCHANGED cqe
    BY <1>2, <1>3, <1>7 DEF tool_start, open_namespace, unvme_cleanup, Call, Opening, Closing,
                            qvars, hostvars
  <2>2. cqe = NoSlot
    BY <1>2, <1>7, <2>1 DEF tool_start, open_namespace, unvme_cleanup, Quiet, Call, Running, Opening, NoCmd
  <2>. QED  BY <2>1, <2>2, CallOver
<1>8. CASE wait_begin
  BY <1>2, <1>8 DEF wait_begin, Call, Fits, procvars, cmdvars
<1>9. CASE wait_return
  <2>1. /\ cmd.st = "wait" /\ cidmask' = cidmask \ {ret'.cid} /\ cqe' = NoSlot
        /\ UNCHANGED <<sq_tail, phase, ioq, what>>
    BY <1>9 DEF wait_return, check_completion_return, procvars, cmdvars
  <2>2. /\ cmd'.opc = cmd.opc /\ cmd'.arg = cmd.arg /\ cmd'.cid = cmd.cid
        /\ cmd'.st \in {"ok", "fail"}
    BY <1>1, <1>9 DEF wait_return, Cmd
  <2>3. Fits(cmd.opc, cmd.arg)'
    BY <1>2, <2>1, <2>2 DEF Call, Fits
  <2>4. cmd'.cid \in cidmask' => what'[cmd'.cid] = what[cmd.cid]
    BY <1>1, <2>1, <2>2
  <2>. QED  BY <1>2, <2>1, <2>2, <2>3, <2>4 DEF Call
<1>10. CASE wait_timeout
  <2>1. /\ cmd.st = "wait" /\ cqe = NoSlot /\ UNCHANGED <<sq_tail, phase, ioq, cidmask, what, cqe>>
    BY <1>10 DEF wait_timeout, qvars, hostvars, procvars, cmdvars
  <2>2. /\ cmd'.opc = cmd.opc /\ cmd'.arg = cmd.arg /\ cmd'.cid = cmd.cid
        /\ cmd'.st = "fail"
    BY <1>1, <1>10 DEF wait_timeout, Cmd
  <2>3. Fits(cmd.opc, cmd.arg)'
    BY <1>2, <2>1, <2>2 DEF Call, Fits
  <2>. QED  BY <1>2, <2>1, <2>2, <2>3 DEF Call
<1>11. CASE (\E c \in Cids : app_submit(c)) \/ app_reap \/ app_return
  <2>1. phase = "open" /\ UNCHANGED <<phase, cmd>>
    BY <1>11 DEF app_submit, app_reap, app_return, procvars
  <2>2. cmd = NoCmd
    BY <1>2, <1>3, <2>1 DEF Call, Opening, Closing
  <2>. QED  BY <2>1, <2>2 DEF Call, NoCmd
<1>12. ASSUME UNCHANGED <<cmd, phase, ioq, sq_tail, cqe, cidmask>>,
              \A c \in Cids : what'[c].opc = what[c].opc /\ what'[c].arg = what[c].arg
       PROVE  Call'
  <2>1. Fits(cmd.opc, cmd.arg) => Fits(cmd.opc, cmd.arg)'
    BY <1>12 DEF Fits
  <2>. QED  BY <1>1, <1>2, <1>12, <2>1 DEF Call, Running
<1>13. CASE ctlr_ready \/ ctlr_reset \/ ctlr_fetch \/ UNCHANGED avars
  BY <1>12, <1>13 DEF ctlr_ready, ctlr_reset, ctlr_fetch, DeviceFetch, avars, qvars, hostvars, procvars,
                           cmdvars
<1>14. ASSUME NEW c \in Cids, NEW st \in Stats, ctlr_post(c, st) PROVE Call'
  <2>1. \A d \in Cids : what'[d].opc = what[d].opc /\ what'[d].arg = what[d].arg
    BY <1>1, <1>14 DEF ctlr_post, What
  <2>. QED  BY <1>12, <1>14, <2>1 DEF ctlr_post, DevicePost, hostvars, procvars
<1>. QED
  BY <1>4, <1>5, <1>6, <1>7, <1>8, <1>9, <1>10, <1>11, <1>13, <1>14 DEF ANext, HostStep

-----------------------------------------------------------------------------
\* What is on the ring.

\* The answer of nvme_wait_completion: ok for its own id only.
LEMMA WaitAnswer ==
  ASSUME ATypes, wait_return
  PROVE  /\ cmd.st = "wait" /\ cqe # NoSlot /\ cqe \in Slots /\ ret'.cid = cq[cqe].cid
         /\ cidmask' = cidmask \ {ret'.cid}
         /\ cmd'.opc = cmd.opc /\ cmd'.arg = cmd.arg /\ cmd'.cid = cmd.cid
         /\ cmd'.st \in {"ok", "fail"}
         /\ cmd'.st = "ok" => ret'.cid = cmd.cid /\ stat = 0
         /\ UNCHANGED <<phase, ioq, mem, unconfirmed, sq_tail, dev_cqs, dev_sqs, what>>
<1>1. cmd \in Cmd
  BY DEF ATypes
<1>2. /\ cmd.st = "wait" /\ cqe # NoSlot /\ ret' = [cid |-> cq[cqe].cid, stat |-> stat]
      /\ cidmask' = cidmask \ {ret'.cid}
      /\ UNCHANGED <<phase, ioq, mem, unconfirmed, sq_tail, dev_cqs, dev_sqs, what>>
  BY DEF wait_return, check_completion_return, ReturnedCid, procvars, ctlrvars, cmdvars
<1>3. ret'.cid = cq[cqe].cid /\ ret'.stat = stat
  BY <1>2
<1>4. cqe \in Slots
  BY <1>2 DEF ATypes, QTypeOK
<1>5. CASE Accepted(ret')
  BY <1>1, <1>2, <1>3, <1>4, <1>5 DEF wait_return, Accepted, Cmd
<1>6. CASE ~Accepted(ret')
  BY <1>1, <1>2, <1>3, <1>4, <1>6 DEF wait_return, Cmd
<1>. QED  BY <1>5, <1>6

\* A step that takes commands off the ring, or none, and keeps the rest.
LEMMA AloneKept ==
  ASSUME AloneInTurn, Others' \subseteq Others, \A c \in Others' : what'[c].opc = what[c].opc,
         (phase \in Opening \ {"ns"})' => phase \in Opening \ {"ns"},
         AppsOnly' => AppsOnly \/ Others = {}
  PROVE  AloneInTurn'
  BY DEF AloneInTurn

LEMMA AloneNext ==
  ASSUME AInv, [ANext]_avars, InOrder', ~unvme_queue_init
  PROVE  AloneInTurn'
<1>1. AloneInTurn /\ Call /\ ATypes /\ cmd \in Cmd /\ what \in [Cids -> What] /\ cidmask \in SUBSET Cids
  BY DEF AInv, ATypes, QTypeOK
<1>2. cmd.st = "none" \/ phase \in Opening \cup Closing \cup {"tool"}
  BY <1>1 DEF Call, Fits
<1>3. CASE \/ nvme_ctlr_disable \/ nvme_ctlr_wait_ready \/ ctlr_wait_timeout \/ nvme_adminq_setup
           \/ open_fatal \/ crash \/ tool_start \/ tool_next \/ tool_command
  <2>1. \/ phase' \in Starting \cup {"dead", "enabling", "tool"}
        \/ phase' = "identify" /\ cidmask' = {}
    <3>1. CASE tool_command
      <4>1. PICK opc, arg : nvme_acmd(opc, arg)
        BY <3>1, Issued DEF AInv, ATypes
      <4>. QED  BY <3>1, <4>1 DEF tool_command, nvme_acmd
    <3>2. CASE nvme_ctlr_wait_ready
      BY <3>2 DEF nvme_ctlr_wait_ready, AInv, Untouched, Starting, qvars
    <3>3. CASE ~tool_command /\ ~nvme_ctlr_wait_ready
      BY <1>3, <3>3 DEF nvme_ctlr_disable, ctlr_wait_timeout, nvme_adminq_setup, open_fatal, crash,
                        Die, tool_start, tool_next, procvars, Starting
    <3>. QED  BY <3>1, <3>2, <3>3
  <2>. QED  BY <2>1 DEF AloneInTurn, AppsOnly, Others, Opening, Closing, Starting
<1>4. CASE open_command \/ close_command
  <2>1. PICK opc \in Opcodes, arg \in Nat : nvme_acmd(opc, arg) /\ Fits(opc, arg)
    BY <1>4, Issued DEF AInv, ATypes
  <2>2. /\ cmd.st = "none" /\ cmd'.cid = sq_tail /\ cmd'.st = "wait"
        /\ cidmask' = cidmask \cup {sq_tail} /\ UNCHANGED <<phase, unconfirmed>>
        /\ what' = [what EXCEPT ![sq_tail] = [opc |-> opc, arg |-> arg, done |-> FALSE]]
    BY <2>1 DEF nvme_acmd, Put, AcmdId, NoCmd
  <2>3. Others' \subseteq Others /\ sq_tail \notin Others'
    BY <2>2 DEF Others, Mine
  <2>4. \A c \in Others' : what'[c] = what[c]
    BY <1>1, <2>2, <2>3 DEF Others
  <2>. QED  BY <1>1, <2>2, <2>3, <2>4, AloneKept DEF AppsOnly
<1>5. CASE open_next
  <2>1. UNCHANGED <<cidmask, what>> /\ cmd'.st = "none" /\ cmd.st = "ok" /\ phase \in Opening
    BY <1>5 DEF open_next, qvars, cmdvars, NoCmd
  <2>2. Others' = Others
    BY <2>1 DEF Others, Mine
  <2>3. (phase \in Opening \ {"ns"})' => phase \in Opening \ {"ns"}
    BY <1>5, <2>1 DEF open_next, AfterOk, Opening
  <2>4. AppsOnly \/ Others = {}
    BY <1>1, <2>1 DEF AppsOnly, AloneInTurn
  <2>. QED  BY <1>1, <2>1, <2>2, <2>3, <2>4, AloneKept
<1>6. CASE nvme_ioq_delete_cq
  <2>1. UNCHANGED <<cidmask, what, unconfirmed>> /\ cmd'.st = "none" /\ cmd.st = "ok"
        /\ phase = "delete_sq" /\ phase' = "delete_cq"
    BY <1>6 DEF nvme_ioq_delete_cq, qvars, cmdvars, NoCmd
  <2>2. Others' = Others
    BY <2>1 DEF Others, Mine
  <2>. QED  BY <1>1, <2>1, <2>2, AloneKept DEF AppsOnly, Opening, Closing
<1>7. CASE unvme_ioq_delete
  <2>1. /\ UNCHANGED <<cidmask, what>> /\ cmd'.st = "none" /\ phase \in Closing
        /\ phase' \in Closing \cup {"down"} /\ cmd.st \in {"ok", "fail"}
        /\ unconfirmed' = IF cmd.st = "fail" THEN unconfirmed \cup {ioq} ELSE unconfirmed
    BY <1>7 DEF unvme_ioq_delete, DeleteOver, Closing, qvars, cmdvars, NoCmd
  <2>2. CASE cmd.st = "fail"
    BY <2>1, <2>2 DEF AloneInTurn, AppsOnly, Opening, Closing
  <2>3. CASE cmd.st = "ok"
    <3>1. Others' = Others
      BY <2>1, <2>3 DEF Others, Mine
    <3>. QED  BY <1>1, <2>1, <2>3, <3>1, AloneKept DEF AppsOnly, Opening, Closing
  <2>. QED  BY <2>1, <2>2, <2>3
<1>8. CASE wait_return
  <2>1. Others' \subseteq Others
    BY <1>1, <1>8, WaitAnswer DEF Others, Mine
  <2>. QED  BY <1>1, <1>8, <2>1, WaitAnswer, AloneKept DEF AppsOnly
<1>9. CASE wait_begin \/ wait_timeout
  <2>1. UNCHANGED <<cidmask, what, phase, unconfirmed>>
    BY <1>9 DEF wait_begin, wait_timeout, qvars, procvars, cmdvars
  <2>2. Mine' = Mine
    BY <1>1, <1>9 DEF wait_begin, wait_timeout, Mine, Cmd
  <2>. QED  BY <1>1, <2>1, <2>2, AloneKept DEF AppsOnly, Others
<1>10. CASE open_namespace \/ unvme_cleanup
  <2>1. UNCHANGED <<cidmask, what, cmd>> /\ phase = "open" /\ phase' \in {"ns", "delete_sq"}
    BY <1>10 DEF open_namespace, unvme_cleanup, qvars, cmdvars
  <2>. QED  BY <1>1, <2>1, AloneKept DEF AppsOnly, Others, Mine, Opening
<1>11. ASSUME NEW d \in Cids, app_submit(d) PROVE AloneInTurn'
  <2>1. /\ phase = "open" /\ phase' = phase /\ cmd' = cmd /\ cidmask' = cidmask \cup {d}
        /\ what' = [what EXCEPT ![d] = [opc |-> "app", arg |-> 0, done |-> FALSE]]
    BY <1>11 DEF app_submit, Put, Submit, procvars
  <2>2. what'[d].opc = "app" /\ \A c \in Cids : c # d => what'[c] = what[c]
    BY <1>1, <2>1
  <2>3. Mine = {} /\ Mine' = {}
    BY <1>2, <2>1 DEF Mine, Opening, Closing
  <2>. QED  BY <1>1, <2>1, <2>2, <2>3 DEF AloneInTurn, AppsOnly, Others, Opening
<1>12. CASE app_reap \/ app_return
  <2>1. UNCHANGED <<phase, unconfirmed, cmd, what>> /\ cidmask' \subseteq cidmask
    BY <1>12 DEF app_reap, app_return, Reap, ReapReturn, procvars, cmdvars
  <2>. QED  BY <1>1, <2>1, AloneKept DEF AppsOnly, Others, Mine
<1>13. ASSUME UNCHANGED <<phase, unconfirmed, cmd, cidmask>>, \A c \in Cids : what'[c].opc = what[c].opc
       PROVE  AloneInTurn'
  <2>1. Others' = Others /\ Others \subseteq Cids
    BY <1>1, <1>13 DEF Others, Mine
  <2>. QED  BY <1>1, <1>13, <2>1, AloneKept DEF AppsOnly
<1>14. CASE ctlr_ready \/ ctlr_reset \/ ctlr_fetch \/ UNCHANGED avars
  <2>1. what' = what
    BY <1>14 DEF ctlr_ready, ctlr_reset, ctlr_fetch, avars, cmdvars
  <2>. QED  BY <1>13, <1>14, <2>1, ControllerSteps
<1>15. ASSUME NEW c \in Cids, NEW st \in Stats, ctlr_post(c, st) PROVE AloneInTurn'
  <2>1. \A d \in Cids : what'[d].opc = what[d].opc
    BY <1>1, <1>15 DEF ctlr_post, What
  <2>. QED  BY <1>13, <1>15, <2>1, ControllerSteps
<1>. QED
  BY <1>3, <1>4, <1>5, <1>6, <1>7, <1>8, <1>9, <1>10, <1>11, <1>12, <1>14, <1>15 DEF ANext, HostStep

LEMMA ContentsNext ==
  ASSUME AInv, [ANext]_avars, ~unvme_queue_init
  PROVE  Contents'
<1>1. Contents /\ AloneInTurn /\ what \in [Cids -> What] /\ cidmask \in SUBSET Cids
  BY DEF AInv, ATypes, QTypeOK
<1>2. ASSUME cidmask' \subseteq cidmask, \A c \in cidmask' : what'[c].opc = what[c].opc,
             \/ phase' = phase
             \/ phase' = "tool" /\ phase = "identify"
             \/ phase' = "open" /\ phase = "ns"
             \/ phase' \in {"ns", "delete_sq"} /\ phase = "open"
             \/ phase' \in Closing \cup {"down"} /\ phase \in Closing
      PROVE  Contents'
  BY <1>1, <1>2 DEF Contents, Closing, QueueOps
<1>3. ASSUME cidmask' = {} \/ phase' \in Starting \cup {"dead", "enabling"} PROVE Contents'
  BY <1>3 DEF Contents, Closing, Starting
<1>4. CASE open_command \/ close_command \/ tool_command
  <2>1. PICK opc \in Opcodes, arg \in Nat : nvme_acmd(opc, arg) /\ Fits(opc, arg)
    BY <1>4, Issued DEF AInv, ATypes
  <2>2. /\ cidmask' = cidmask \cup {sq_tail} /\ UNCHANGED phase
        /\ what' = [what EXCEPT ![sq_tail] = [opc |-> opc, arg |-> arg, done |-> FALSE]]
    BY <2>1 DEF nvme_acmd, Put, AcmdId
  <2>3. sq_tail \in Cids
    BY SlotsInt DEF AInv, ATypes, QTypeOK
  <2>4. what'[sq_tail].opc = opc /\ \A c \in cidmask : c # sq_tail => what'[c] = what[c]
    BY <1>1, <2>2, <2>3
  <2>5. /\ phase \in {"identify", "features", "ns", "open", "tool"} => opc \notin QueueOps
        /\ phase \in Closing \cup {"down"} => opc \notin {"create_cq", "create_sq"}
    BY <2>1 DEF Fits, QueueOps, Opening, Closing
  <2>. QED  BY <1>1, <2>2, <2>4, <2>5 DEF Contents
<1>5. CASE nvme_ctlr_disable \/ ctlr_wait_timeout \/ open_fatal \/ crash \/ nvme_adminq_setup
  BY <1>3, <1>5 DEF Starting, nvme_ctlr_disable, ctlr_wait_timeout, open_fatal, crash, Die, nvme_adminq_setup
<1>6. CASE nvme_ctlr_wait_ready
  BY <1>3, <1>6 DEF nvme_ctlr_wait_ready, AInv, Untouched, Starting, qvars
<1>7. CASE open_next
  <2>1. UNCHANGED <<cidmask, what>> /\ cmd.st = "ok" /\ phase \in Opening
    BY <1>7 DEF open_next, qvars, cmdvars
  <2>2. CASE phase = "ns"
    BY <1>2, <1>7, <2>1, <2>2 DEF open_next, AfterOk
  <2>3. CASE phase # "ns"
    BY <1>1, <1>3, <2>1, <2>3 DEF AloneInTurn, Others, Mine
  <2>. QED  BY <2>2, <2>3
<1>8. CASE \/ nvme_ioq_delete_cq \/ unvme_ioq_delete \/ tool_start \/ tool_next \/ wait_timeout
           \/ open_namespace \/ unvme_cleanup
  BY <1>2, <1>8 DEF nvme_ioq_delete_cq, unvme_ioq_delete, tool_start, tool_next, wait_timeout,
                    open_namespace, unvme_cleanup, Closing, qvars, procvars, cmdvars
<1>9. CASE wait_begin \/ app_reap
  BY <1>2, <1>9 DEF wait_begin, app_reap, Reap, procvars, cmdvars
<1>10. CASE wait_return \/ app_return
  BY <1>2, <1>10 DEF wait_return, app_return, ReapReturn, procvars, cmdvars
<1>11. ASSUME NEW d \in Cids, app_submit(d) PROVE Contents'
  <2>1. /\ cidmask' = cidmask \cup {d} /\ phase = "open" /\ UNCHANGED phase
        /\ what' = [what EXCEPT ![d] = [opc |-> "app", arg |-> 0, done |-> FALSE]]
    BY <1>11 DEF app_submit, Put, Submit, procvars
  <2>2. what'[d].opc = "app" /\ \A c \in cidmask : c # d => what'[c] = what[c]
    BY <1>1, <2>1
  <2>. QED  BY <1>1, <2>1, <2>2 DEF Contents, QueueOps, Closing
<1>12. CASE ctlr_ready \/ ctlr_reset \/ ctlr_fetch \/ UNCHANGED avars
  <2>1. UNCHANGED <<cidmask, phase, what>>
    BY <1>12, ControllerSteps DEF ctlr_ready, ctlr_reset, ctlr_fetch, avars, cmdvars
  <2>. QED  BY <1>2, <2>1
<1>13. ASSUME NEW d \in Cids, NEW st \in Stats, ctlr_post(d, st) PROVE Contents'
  <2>1. \A c \in Cids : what'[c].opc = what[c].opc
    BY <1>1, <1>13 DEF ctlr_post, What
  <2>2. UNCHANGED <<cidmask, phase>>
    BY <1>13, ControllerSteps
  <2>. QED  BY <1>1, <1>2, <2>1, <2>2
<1>. QED
  BY <1>4, <1>5, <1>6, <1>7, <1>8, <1>9, <1>10, <1>11, <1>12, <1>13 DEF ANext, HostStep

-----------------------------------------------------------------------------
\* The I/O queues.

\* The loops of unvme_do_open and unvme_cleanup, whatever the controller does.
LEMMA LoopsNext ==
  ASSUME Base, [ANext]_avars
  PROVE  Loops'
<1> USE DEF QueueOps, Closing, Off, Starting
<1>1. Loops /\ Call /\ cmd \in Cmd /\ ioq \in 1 .. QCount /\ QCount \in Nat
  BY QCountAssumption DEF Base, ATypes, Queues
<1>2. ASSUME UNCHANGED <<phase, ioq, mem>>, cmd'.st = "none" <=> cmd.st = "none" PROVE Loops'
  BY <1>1, <1>2 DEF Loops, Upto
<1>3. CASE open_command \/ close_command \/ tool_command
  <2>1. PICK opc \in Opcodes, arg \in Nat :
             /\ nvme_acmd(opc, arg) /\ Fits(opc, arg)
             /\ mem' = IF opc = "create_cq" THEN mem \cup {ioq} ELSE mem
    BY <1>3, Issued DEF Base, ATypes
  <2>2. cmd.st = "none" /\ cmd'.st = "wait" /\ UNCHANGED <<phase, ioq>>
    BY <2>1 DEF nvme_acmd, NoCmd
  <2>3. CASE phase # "create_cq"
    <3>1. mem' = mem
      BY <2>1, <2>3 DEF Fits, Opening
    <3>. QED  BY <1>1, <2>2, <2>3, <3>1 DEF Loops
  <2>4. CASE phase = "create_cq"
    <3>1. mem' = mem \cup {ioq}
      BY <2>1, <2>4 DEF Fits
    <3>2. Upto(ioq) = Upto(ioq - 1) \cup {ioq}
      BY <1>1 DEF Upto
    <3>. QED  BY <1>1, <2>2, <2>4, <3>1, <3>2 DEF Loops
  <2>. QED  BY <2>3, <2>4
<1>4. CASE open_next
  <2>1. /\ cmd.st = "ok" /\ cmd'.st = "none" /\ phase' \in AfterOk /\ phase \in Opening
        /\ mem' = IF phase' = "dead" THEN {} ELSE mem
        /\ ioq' = IF phase = "create_sq" /\ MoreQueues THEN ioq + 1
                  ELSE IF phase = "create_sq" THEN 1 ELSE ioq
    BY <1>4 DEF open_next, NoCmd
  <2>2. CASE phase \in {"identify", "ns"}
    BY <1>1, <2>1, <2>2 DEF AfterOk, Loops
  <2>3. CASE phase = "features"
    <3>1. ioq' = 1 /\ mem' = {} /\ phase' = "create_cq"
      BY <1>1, <2>1, <2>3 DEF AfterOk, Loops
    <3>2. Upto(ioq' - 1) = {}
      BY <3>1 DEF Upto
    <3>. QED  BY <2>1, <3>1, <3>2 DEF Loops
  <2>4. CASE phase = "create_cq"
    BY <1>1, <2>1, <2>4 DEF AfterOk, Loops
  <2>5. CASE phase = "create_sq" /\ MoreQueues
    <3>1. ioq' = ioq + 1 /\ mem' = Upto(ioq) /\ phase' = "create_cq"
      BY <1>1, <2>1, <2>5 DEF AfterOk, Loops
    <3>2. Upto(ioq' - 1) = Upto(ioq)
      BY <1>1, <3>1 DEF Upto
    <3>. QED  BY <2>1, <3>1, <3>2 DEF Loops
  <2>6. CASE phase = "create_sq" /\ ~MoreQueues
    <3>1. ioq' = 1 /\ mem' = Upto(ioq) /\ phase' = "ns"
      BY <1>1, <2>1, <2>6 DEF AfterOk, Loops
    <3>2. Upto(ioq) = Queues
      BY <1>1, <2>6 DEF MoreQueues, Upto, Queues
    <3>. QED  BY <3>1, <3>2 DEF Loops
  <2>. QED  BY <2>1, <2>2, <2>3, <2>4, <2>5, <2>6 DEF Opening
<1>5. CASE unvme_ioq_delete
  <2>1. /\ phase \in Closing /\ mem' = mem \ {ioq}
        /\ phase' = IF MoreQueues THEN "delete_sq" ELSE "down"
        /\ ioq' = IF MoreQueues THEN ioq + 1 ELSE 1
    BY <1>5 DEF unvme_ioq_delete, unvme_queue_cleanup
  <2>2. mem' = (ioq + 1) .. QCount
    BY <1>1, <2>1 DEF Loops
  <2>3. ~MoreQueues => mem' = {}
    BY <1>1, <2>2 DEF MoreQueues
  <2>. QED  BY <1>1, <2>1, <2>2, <2>3 DEF Loops
<1>6. CASE open_fatal \/ crash
  BY <1>6 DEF open_fatal, crash, Die, Loops
<1>7. CASE \/ unvme_queue_init \/ nvme_ctlr_disable \/ nvme_ctlr_wait_ready \/ ctlr_wait_timeout
           \/ nvme_adminq_setup \/ tool_start
  BY <1>1, <1>7 DEF unvme_queue_init, nvme_ctlr_disable, nvme_ctlr_wait_ready, ctlr_wait_timeout,
                    nvme_adminq_setup, tool_start, Loops
<1>8. CASE open_namespace \/ unvme_cleanup \/ nvme_ioq_delete_cq
  BY <1>1, <1>8 DEF open_namespace, unvme_cleanup, nvme_ioq_delete_cq, Loops, Queues
<1>9. CASE tool_next
  BY <1>1, <1>9 DEF tool_next, procvars, Loops
<1>10. CASE wait_begin \/ wait_return \/ wait_timeout
  BY <1>1, <1>2, <1>10 DEF wait_begin, wait_return, wait_timeout, procvars, Cmd
<1>11. CASE (\E c \in Cids : app_submit(c)) \/ app_reap \/ app_return
  BY <1>2, <1>11 DEF app_submit, app_reap, app_return, procvars
<1>12. CASE \/ ctlr_ready \/ ctlr_reset \/ ctlr_fetch \/ UNCHANGED avars
            \/ (\E c \in Cids, st \in Stats : ctlr_post(c, st))
  BY <1>2, <1>12, ControllerSteps
<1>. QED
  BY <1>3, <1>4, <1>5, <1>6, <1>7, <1>8, <1>9, <1>10, <1>11, <1>12 DEF ANext, HostStep

\* A command that nvme_wait_completion reports as successful was carried out:
\* the entry with its id and without an error is not an earlier command's.
LEMMA Confirmed ==
  ASSUME AInv, wait_return, cmd'.st = "ok"
  PROVE  /\ what[cmd.cid].done = TRUE /\ cmd'.own = TRUE
         /\ HasResult(what[cmd.cid]) => cs[cqe] = what[cmd.cid].arg
<1>1. /\ cmd.st = "wait" /\ cqe # NoSlot /\ cqe \in Slots /\ cq[cqe].cid = cmd.cid /\ stat = 0
  BY WaitAnswer DEF AInv
<1>2. phase \in Opening \cup Closing \cup {"tool"}
  BY <1>1 DEF AInv, Call, Fits
<1>3. Handed
  BY <1>2 DEF Handed, Starting, Opening, Closing
<1>4. cq[cqe].stat = 0
  BY <1>1, <1>3 DEF AInv, RingSound, QInv, ReapedEntryIntact
<1>5. Truthful(cqe)
  BY <1>1, <1>3 DEF AInv, Answers, ToCome
<1>6. what[cmd.cid].done = TRUE /\ (HasResult(what[cmd.cid]) => cs[cqe] = what[cmd.cid].arg)
  BY <1>1, <1>4, <1>5 DEF Truthful
<1>7. cmd'.own = what[cmd.cid].done
  <2>1. cmd \in Cmd
    BY DEF AInv, ATypes
  <2>2. CASE Accepted(ret')
    BY <2>1, <2>2 DEF wait_return, Cmd
  <2>3. CASE ~Accepted(ret')
    BY <2>1, <2>3 DEF wait_return, Cmd
  <2>. QED  BY <2>2, <2>3
<1>. QED  BY <1>6, <1>7

LEMMA IoQueuesKept ==
  ASSUME IoQueues, UNCHANGED <<phase, ioq, mem, unconfirmed, dev_sqs, dev_cqs>>,
         Carried' => Carried, cmd'.st = "none" <=> cmd.st = "none"
  PROVE  IoQueues'
  BY DEF IoQueues, Upto

\* What a completion without error does to the queues.
LEMMA IoQueuesPost ==
  ASSUME AInv, NEW c \in Cids, NEW st \in Stats, ctlr_post(c, st)
  PROVE  IoQueues'
<1>1. /\ csts_rdy /\ c \in executing
      /\ UNCHANGED <<phase, ioq, mem, unconfirmed, cmd, cidmask>>
  BY ControllerSteps DEF ctlr_post, DevicePost
<1> SUFFICES ASSUME Handed PROVE IoQueues'
  BY <1>1 DEF IoQueues, Handed, Starting, Opening, Closing, Off
<1>2. c \in cidmask
  BY <1>1 DEF AInv, RingSound, QInv, InFlightOnce
<1>3. what \in [Cids -> What] /\ cmd.cid \in Cids /\ what[c] \in What
  BY DEF AInv, ATypes, Cmd
<1>4. IoQueues /\ Call /\ Contents /\ AloneInTurn /\ dev_sqs \subseteq dev_cqs
  BY DEF AInv, ATypes
<1>5. CASE st # 0
  <2>1. UNCHANGED <<dev_sqs, dev_cqs, what>>
    BY <1>5 DEF ctlr_post
  <2>. QED  BY <1>1, <1>4, <2>1, IoQueuesKept DEF Carried
<1>6. CASE st = 0
  <2>1. /\ dev_sqs' = With(dev_sqs, what[c], "create_sq", "delete_sq")
        /\ dev_cqs' = With(dev_cqs, what[c], "create_cq", "delete_cq")
        /\ what' = [what EXCEPT ![c].done = TRUE]
    <3>1. late[c] = Blank
      BY DEF AInv, Unlate
    <3>. QED  BY <1>6, <3>1 DEF ctlr_post, Answered
  <2>2. \A d \in Cids : d # c => what'[d] = what[d]
    BY <1>3, <2>1
  <2>3. CASE phase \in {"identify", "features", "ns", "open", "tool"}
    <3>1. what[c].opc \notin QueueOps
      BY <1>2, <1>4, <2>3 DEF Contents
    <3>2. UNCHANGED <<dev_sqs, dev_cqs>>
      BY <2>1, <3>1 DEF With, QueueOps
    <3>. QED  BY <1>1, <1>4, <2>3, <3>2 DEF IoQueues, QueueOps, Closing, Off
  <2>4. CASE phase \in {"create_cq", "create_sq"}
    <3>1. c = cmd.cid /\ cmd.st \in {"wait", "fail"}
      <4>1. cmd.st \in {"none", "wait", "ok", "fail"}
        BY DEF AInv, ATypes, Cmd
      <4>. QED  BY <1>2, <1>4, <2>4, <4>1 DEF AloneInTurn, Others, Mine, Opening
    <3>2. what[c].opc = phase /\ what[c].arg = ioq
      BY <1>2, <1>4, <2>4, <3>1 DEF Call, Fits, QueueOps
    <3>3. CASE phase = "create_cq"
      <4>1. dev_sqs' = dev_sqs /\ dev_cqs' = dev_cqs \cup {ioq}
        BY <2>1, <3>2, <3>3 DEF With
      <4>2. ioq \in Upto(ioq)
        BY QCountAssumption DEF AInv, ATypes, Queues, Upto
      <4>. QED  BY <1>1, <1>4, <3>1, <3>3, <4>1, <4>2 DEF IoQueues, QueueOps, Closing, Off
    <3>4. CASE phase = "create_sq"
      <4>1. dev_sqs' = dev_sqs \cup {ioq} /\ dev_cqs' = dev_cqs
        BY <2>1, <3>2, <3>4 DEF With
      <4>. QED  BY <1>1, <1>4, <3>4, <4>1 DEF IoQueues, QueueOps, Closing, Off
    <3>. QED  BY <2>4, <3>3, <3>4
  <2>5. CASE phase \in Closing \cup {"down"}
    <3>1. what[c].opc \notin {"create_cq", "create_sq"}
      BY <1>2, <1>4, <2>5 DEF Contents
    <3>2. dev_cqs' \subseteq dev_cqs
      BY <2>1, <3>1 DEF With
    <3>3. ASSUME phase = "delete_cq", Carried' PROVE ioq \notin dev_cqs'
      <4>1. CASE Carried
        BY <1>4, <3>2, <3>3, <4>1 DEF IoQueues, Closing
      <4>2. CASE ~Carried
        <5>1. cmd.st = "wait" /\ cmd.cid = c
          BY <1>1, <1>3, <2>2, <3>3, <4>2 DEF Carried
        <5>2. what[c].opc = "delete_cq" /\ what[c].arg = ioq
          BY <1>2, <1>4, <3>3, <5>1 DEF Call, Fits, QueueOps
        <5>. QED  BY <2>1, <5>2 DEF With
      <4>. QED  BY <4>1, <4>2
    <3>. QED  BY <1>1, <1>4, <2>5, <3>2, <3>3 DEF IoQueues, QueueOps, Closing, Off
  <2>6. phase # "enabling"
    BY <1>2 DEF AInv, Untouched
  <2>. QED  BY <2>3, <2>4, <2>5, <2>6 DEF AInv, ATypes, Handed, Opening, Closing, Off
<1>. QED  BY <1>5, <1>6

\* The loop of unvme_do_open.
LEMMA IoQueuesOpen ==
  ASSUME AInv, open_next
  PROVE  IoQueues'
<1> USE DEF QueueOps, Closing, Off
<1>1. /\ cmd.st = "ok" /\ cmd'.st = "none" /\ phase' \in AfterOk /\ phase \in Opening
      /\ UNCHANGED <<dev_sqs, dev_cqs, unconfirmed>>
      /\ ioq' = IF phase = "create_sq" /\ MoreQueues THEN ioq + 1
                ELSE IF phase = "create_sq" THEN 1 ELSE ioq
  BY DEF open_next, ctlrvars, NoCmd
<1>2. /\ IoQueues /\ Loops /\ dev_sqs \subseteq dev_cqs /\ ioq \in 1 .. QCount /\ QCount \in Nat
      /\ Carried /\ ~Carried'
  BY <1>1, QCountAssumption DEF AInv, ATypes, Queues, Carried
<1>3. CASE phase = "identify"
  BY <1>1, <1>2, <1>3 DEF AfterOk, IoQueues
<1>4. CASE phase = "features"
  <2>1. ioq' = 1 /\ dev_cqs' = {} /\ dev_sqs' = {} /\ phase' = "create_cq"
    BY <1>1, <1>2, <1>4 DEF AfterOk, IoQueues, Loops
  <2>2. Upto(ioq' - 1) = {}
    BY <2>1 DEF Upto
  <2>. QED  BY <1>1, <1>2, <2>1, <2>2 DEF IoQueues
<1>5. CASE phase = "create_cq"
  <2>1. ioq' = ioq /\ phase' = "create_sq"
    BY <1>1, <1>5 DEF AfterOk
  <2>2. dev_cqs = Upto(ioq) /\ Upto(ioq - 1) \subseteq dev_sqs
    <3>1. Upto(ioq) = Upto(ioq - 1) \cup {ioq}
      BY <1>2 DEF Upto
    <3>. QED  BY <1>1, <1>2, <1>5, <3>1 DEF IoQueues
  <2>. QED  BY <1>1, <1>2, <2>1, <2>2 DEF IoQueues
<1>6. CASE phase = "create_sq"
  <2>1. dev_cqs = Upto(ioq) /\ dev_sqs = Upto(ioq)
    <3>1. Upto(ioq) = Upto(ioq - 1) \cup {ioq}
      BY <1>2 DEF Upto
    <3>. QED  BY <1>1, <1>2, <1>6, <3>1 DEF IoQueues
  <2>2. CASE MoreQueues
    <3>1. ioq' = ioq + 1 /\ phase' = "create_cq"
      BY <1>1, <1>6, <2>2 DEF AfterOk
    <3>2. Upto(ioq' - 1) = Upto(ioq) /\ Upto(ioq) \subseteq Upto(ioq')
      BY <1>2, <3>1 DEF Upto
    <3>. QED  BY <1>1, <1>2, <2>1, <3>1, <3>2 DEF IoQueues
  <2>3. CASE ~MoreQueues
    <3>1. ioq' = 1 /\ phase' = "ns"
      BY <1>1, <1>6, <2>3 DEF AfterOk
    <3>2. Upto(ioq) = Queues
      BY <1>2, <2>3 DEF MoreQueues, Upto, Queues
    <3>. QED  BY <1>1, <1>2, <2>1, <3>1, <3>2 DEF IoQueues
  <2>. QED  BY <2>2, <2>3
<1>7. CASE phase = "ns"
  BY <1>1, <1>2, <1>7 DEF AfterOk, IoQueues
<1>. QED  BY <1>1, <1>3, <1>4, <1>5, <1>6, <1>7 DEF Opening

\* The loop of unvme_cleanup.
LEMMA IoQueuesClose ==
  ASSUME AInv, unvme_ioq_delete
  PROVE  IoQueues'
<1> USE DEF QueueOps, Closing, Off
<1>1. /\ phase \in Closing /\ DeleteOver /\ cmd'.st = "none" /\ mem' = mem \ {ioq}
      /\ unconfirmed' = IF cmd.st = "fail" THEN unconfirmed \cup {ioq} ELSE unconfirmed
      /\ phase' = IF MoreQueues THEN "delete_sq" ELSE "down"
      /\ ioq' = IF MoreQueues THEN ioq + 1 ELSE 1
      /\ UNCHANGED <<dev_sqs, dev_cqs>>
  BY DEF unvme_ioq_delete, unvme_queue_cleanup, ctlrvars, NoCmd
<1>2. ioq \in 1 .. QCount /\ QCount \in Nat
  BY QCountAssumption DEF AInv, ATypes, Queues
<1>3. /\ mem = ioq .. QCount /\ dev_cqs \subseteq mem \cup unconfirmed
      /\ cmd.st = "ok" => ioq \notin dev_cqs
  BY <1>1 DEF AInv, IoQueues, Loops, Carried, DeleteOver
<1>4. dev_cqs' \subseteq mem' \cup unconfirmed'
  BY <1>1, <1>3 DEF DeleteOver
<1>5. mem' = (ioq + 1) .. QCount
  BY <1>1, <1>2, <1>3
<1>6. CASE MoreQueues
  BY <1>1, <1>4, <1>5, <1>6 DEF IoQueues
<1>7. CASE ~MoreQueues
  <2>1. mem' = {}
    BY <1>2, <1>5, <1>7 DEF MoreQueues
  <2>. QED  BY <1>1, <1>4, <1>7, <2>1 DEF IoQueues
<1>. QED  BY <1>6, <1>7

LEMMA IoQueuesNext ==
  ASSUME AInv, [ANext]_avars, ~unvme_queue_init
  PROVE  IoQueues'
<1>1. IoQueues /\ Call /\ cmd \in Cmd /\ dev_sqs \subseteq dev_cqs /\ dev_cqs \subseteq Queues
  BY DEF AInv, ATypes
<1>2. CASE open_command \/ close_command \/ tool_command
  <2>1. PICK opc \in Opcodes, arg \in Nat :
             /\ nvme_acmd(opc, arg) /\ Fits(opc, arg)
             /\ mem' = IF opc = "create_cq" THEN mem \cup {ioq} ELSE mem
    BY <1>2, Issued DEF AInv, ATypes
  <2>2. /\ cmd.st = "none" /\ cmd'.st = "wait" /\ cmd'.cid = sq_tail
        /\ what' = [what EXCEPT ![sq_tail] = [opc |-> opc, arg |-> arg, done |-> FALSE]]
        /\ UNCHANGED <<phase, ioq, unconfirmed, dev_sqs, dev_cqs>>
    BY <2>1 DEF nvme_acmd, Put, AcmdId, NoCmd, ctlrvars
  <2>3. what'[cmd'.cid].done = FALSE
    BY <2>2, SlotsInt DEF AInv, ATypes, QTypeOK
  <2>4. ~Carried'
    BY <2>2, <2>3 DEF Carried
  <2>5. mem \subseteq mem'
    BY <2>1
  <2>. QED  BY <1>1, <2>2, <2>4, <2>5 DEF IoQueues, Upto
<1>3. CASE open_next
  BY <1>3, IoQueuesOpen
<1>4. CASE unvme_ioq_delete
  BY <1>4, IoQueuesClose
<1>5. CASE nvme_ctlr_disable \/ ctlr_wait_timeout \/ open_fatal \/ crash
  BY <1>5 DEF nvme_ctlr_disable, ctlr_wait_timeout, open_fatal, crash, Die, IoQueues, Closing
<1>6. CASE nvme_ctlr_wait_ready \/ tool_start
  BY <1>1, <1>6 DEF nvme_ctlr_wait_ready, tool_start, ctlrvars, IoQueues, Closing
<1>7. CASE nvme_adminq_setup
  BY <1>7 DEF nvme_adminq_setup, AInv, Registers, IoQueues, Closing
<1>8. CASE open_namespace \/ unvme_cleanup
  <2>1. /\ phase = "open" /\ phase' \in {"ns", "delete_sq"}
        /\ UNCHANGED <<mem, unconfirmed, dev_sqs, dev_cqs>>
    BY <1>8 DEF open_namespace, unvme_cleanup, ctlrvars
  <2>2. dev_sqs = Queues /\ mem = Queues
    BY <1>1, <2>1 DEF IoQueues, AInv, Loops
  <2>. QED  BY <1>1, <2>1, <2>2 DEF IoQueues, Closing
<1>9. CASE nvme_ioq_delete_cq
  <2>1. /\ phase = "delete_sq" /\ phase' = "delete_cq" /\ cmd'.st = "none"
        /\ UNCHANGED <<ioq, mem, unconfirmed, dev_sqs, dev_cqs>>
    BY <1>9 DEF nvme_ioq_delete_cq, ctlrvars, NoCmd
  <2>. QED  BY <1>1, <2>1 DEF IoQueues, Closing, Carried
<1>10. CASE wait_begin
  <2>1. UNCHANGED <<phase, ioq, mem, unconfirmed, dev_sqs, dev_cqs, cmd, what>>
    BY <1>10 DEF wait_begin, ctlrvars, procvars, cmdvars
  <2>. QED  BY <1>1, <2>1, IoQueuesKept DEF Carried
<1>11. CASE wait_return
  <2>1. ATypes
    BY DEF AInv
  <2>2. Carried' => Carried
    BY <1>11, <2>1, WaitAnswer, Confirmed DEF Carried
  <2>. QED  BY <1>1, <1>11, <2>1, <2>2, WaitAnswer, IoQueuesKept
<1>12. CASE wait_timeout
  <2>1. /\ cmd.st = "wait" /\ cmd' = [cmd EXCEPT !.st = "fail"]
        /\ UNCHANGED <<phase, ioq, mem, unconfirmed, dev_sqs, dev_cqs>>
    BY <1>12 DEF wait_timeout, ctlrvars, procvars
  <2>2. cmd'.st = "fail"
    BY <1>1, <2>1 DEF Cmd
  <2>. QED  BY <1>1, <2>1, <2>2, IoQueuesKept DEF Carried
<1>13. CASE tool_next \/ (\E c \in Cids : app_submit(c)) \/ app_reap \/ app_return
  BY <1>1, <1>13 DEF tool_next, app_submit, app_reap, app_return, ctlrvars, procvars,
                     IoQueues, Closing
<1>14. CASE ctlr_ready \/ ctlr_fetch \/ UNCHANGED avars
  <2>1. UNCHANGED <<phase, ioq, mem, unconfirmed, dev_sqs, dev_cqs, cmd, what>>
    BY <1>14 DEF ctlr_ready, ctlr_fetch, avars, ctlrvars, procvars, cmdvars
  <2>. QED  BY <1>1, <2>1, IoQueuesKept DEF Carried
<1>15. CASE ctlr_reset
  <2>1. ~Running /\ dev_cqs' = {} /\ UNCHANGED <<phase, ioq, mem, unconfirmed>>
    BY <1>15 DEF ctlr_reset, procvars, AInv, Registers
  <2>. QED  BY <1>1, <2>1 DEF IoQueues, Running, Opening, Closing, Off
<1>16. ASSUME NEW c \in Cids, NEW st \in Stats, ctlr_post(c, st) PROVE IoQueues'
  BY <1>16, IoQueuesPost
<1>. QED
  BY <1>2, <1>3, <1>4, <1>5, <1>6, <1>7, <1>8, <1>9, <1>10, <1>11, <1>12, <1>13, <1>14, <1>15,
     <1>16 DEF ANext, HostStep

-----------------------------------------------------------------------------
\* Answers and results.

\* Without late commands a command's completion entry has the command's index.
LEMMA SameIndex ==
  ASSUME AInv, wait_return, cidmask \subseteq {cmd.cid}
  PROVE  cqe = cmd.cid
<1>1. cmd.st = "wait" /\ cqe # NoSlot /\ cqe \in Slots
  BY WaitAnswer DEF AInv
<1>2. /\ phase \in Opening \cup Closing \cup {"tool"}
      /\ cmd.cid \in cidmask /\ sq_tail = Succ(cmd.cid) /\ cmd.cid \in Slots
  BY <1>1, SlotsInt DEF AInv, Call, Fits, ATypes, Cmd
<1>3. QInv /\ Lockstep
  BY <1>2 DEF AInv, RingSound, Handed, Opening, Closing, Starting
<1>4. Cardinality(cidmask) = 1
  <2>1. cidmask = {cmd.cid}
    BY <1>2
  <2>. QED  BY <2>1, FS_Singleton
<1>5. sq_tail \in Slots /\ cq_head \in Slots /\ Succ(cqe) = cq_head
  BY <1>1, <1>3 DEF QInv, QTypeOK, Doorbells
<1>6. Dist(cq_head, sq_tail) = 0
  <2>1. Dist(cq_head, sq_tail) + 1 = 1 /\ Dist(cq_head, sq_tail) \in 0 .. (Size - 1)
    BY <1>1, <1>3, <1>4, <1>5, DistRange DEF Lockstep, Reaping
  <2>. QED  BY <2>1, SizeAssumption
<1>7. cq_head = sq_tail
  BY <1>5, <1>6, DistRange
<1>. QED  BY <1>1, <1>2, <1>5, <1>7, SuccInjective

LEMMA SuccessBefore ==
  ASSUME Base, [ANext]_avars, cmd'.st = "ok"
  PROVE  wait_return \/ UNCHANGED <<cmd, phase, cidmask>>
<1>1. cmd \in Cmd /\ (cmd.st # "none" => phase \in Opening \cup Closing \cup {"tool"})
  BY DEF Base, ATypes, Call, Fits
<1>2. CASE open_command \/ close_command \/ tool_command
  <2>1. PICK opc, arg : nvme_acmd(opc, arg)
    BY <1>2, Issued DEF Base, ATypes
  <2>. QED  BY <2>1 DEF nvme_acmd
<1>3. CASE open_next \/ open_fatal \/ crash \/ nvme_ioq_delete_cq \/ unvme_ioq_delete \/ tool_next
  <2>1. cmd' = NoCmd
    BY <1>3 DEF open_next, open_fatal, crash, Die, nvme_ioq_delete_cq, unvme_ioq_delete, tool_next
  <2>. QED  BY <2>1 DEF NoCmd
<1>4. CASE wait_timeout
  BY <1>1, <1>4 DEF wait_timeout, Cmd
<1>5. CASE wait_begin
  BY <1>5 DEF wait_begin
<1>6. CASE \/ unvme_queue_init \/ nvme_ctlr_disable \/ nvme_ctlr_wait_ready \/ ctlr_wait_timeout
           \/ nvme_adminq_setup \/ open_namespace \/ unvme_cleanup \/ (\E c \in Cids : app_submit(c)) \/ app_reap \/ app_return
  <2>1. cmd' = cmd /\ phase \notin Opening \cup Closing \cup {"tool"}
    BY <1>6 DEF unvme_queue_init, nvme_ctlr_disable, nvme_ctlr_wait_ready, ctlr_wait_timeout,
                nvme_adminq_setup, open_namespace, unvme_cleanup, app_submit, app_reap, app_return, Opening, Closing, Off
  <2>. QED  BY <1>1, <2>1
<1>7. CASE tool_start
  BY <1>7 DEF tool_start, NoCmd
<1>8. CASE \/ ctlr_ready \/ ctlr_reset \/ ctlr_fetch \/ UNCHANGED avars
           \/ (\E c \in Cids, st \in Stats : ctlr_post(c, st))
  BY <1>8, ControllerSteps
<1>. QED  BY <1>2, <1>3, <1>4, <1>5, <1>6, <1>7, <1>8 DEF ANext, HostStep

LEMMA OwnNext ==
  ASSUME AInv, [ANext]_avars
  PROVE  Own'
<1> SUFFICES ASSUME cmd'.st = "ok" PROVE Own'
  BY DEF Own
<1>1. CASE UNCHANGED <<cmd, phase, cidmask>>
  BY <1>1 DEF AInv, Own
<1>2. CASE wait_return
  <2>1. cmd'.own = TRUE
    BY <1>2, Confirmed
  <2>2. ASSUME HasResult(cmd'), phase = "tool" => cidmask' = {} PROVE cmd'.res = cmd'.arg
    <3>1. /\ cmd'.opc = cmd.opc /\ cmd'.arg = cmd.arg /\ cmd.st = "wait"
          /\ ret'.cid = cmd.cid /\ cidmask' = cidmask \ {cmd.cid}
      BY <1>2, WaitAnswer DEF AInv
    <3>2. phase \in (Opening \ {"ns"}) \cup {"tool"}
      BY <2>2, <3>1 DEF HasResult, AInv, Call, Fits, Closing, QueueOps
    <3>3. cidmask \subseteq {cmd.cid}
      BY <2>2, <3>1, <3>2 DEF AInv, AloneInTurn, Others, Mine
    <3>4. cqe = cmd.cid
      BY <1>2, <3>3, SameIndex
    <3>5. what[cmd.cid].opc = cmd.opc /\ what[cmd.cid].arg = cmd.arg
      BY <3>1 DEF AInv, Call
    <3>6. cs[cqe] = cmd.arg
      BY <1>2, <2>2, <3>1, <3>5, Confirmed DEF HasResult
    <3>7. cmd'.res = cs[cmd.cid]
      <4>1. cmd \in Cmd /\ HasResult(cmd)
        BY <2>2, <3>1 DEF HasResult, AInv, ATypes
      <4>2. Accepted(ret')
        <5>1. CASE ~Accepted(ret')
          BY <1>2, <4>1, <5>1 DEF wait_return, Cmd
        <5>. QED  BY <5>1
      <4>. QED  BY <1>2, <4>1, <4>2 DEF wait_return, ResultEntry, Cmd
    <3>. QED  BY <3>1, <3>4, <3>6, <3>7
  <2>3. phase' = phase
    BY <1>2, WaitAnswer DEF AInv
  <2>. QED  BY <2>1, <2>2, <2>3 DEF Own
<1>. QED  BY <1>1, <1>2, SuccessBefore DEF AInv, Base

-----------------------------------------------------------------------------
\* The invariant.

\* A process that zeroes its rings has all of it, whatever the state of those
\* before it, as it has not handed them to the controller.
LEMMA NewRing ==
  ASSUME Base, Base', unvme_queue_init, FreshRing'
  PROVE  AInv'
<1>1. phase' = "init" /\ cidmask' = {} /\ late' = [c \in Cids |-> Blank] /\ cmd' = cmd
  BY DEF unvme_queue_init
<1>2. cmd'.st = "none"
  BY <1>1 DEF Base, Call, Fits, Opening, Closing
<1>3. RingSound' /\ Answers'
  BY <1>1 DEF RingSound, Answers, Handed, Starting
<1>4. Unlate' /\ Contents'
  BY <1>1 DEF Unlate, Contents
<1>5. AloneInTurn' /\ IoQueues'
  BY <1>1 DEF AloneInTurn, AppsOnly, IoQueues, Opening, Closing
<1>6. Own'
  BY <1>2 DEF Own
<1>. QED  BY <1>3, <1>4, <1>5, <1>6 DEF Base, AInv

LEMMA AIndInit == AInit => AInd
<1> SUFFICES ASSUME AInit PROVE AInd
  OBVIOUS
<1>1. ATypes /\ QInv
  BY ATypesInit, InitQInv DEF AInit
<1>2. phase = "down" /\ ioq = 1 /\ mem = {} /\ cmd.st = "none" /\ cmd = NoCmd /\ ~csts_rdy /\ dev_cqs = {}
  BY DEF AInit, NoCmd
<1>3. /\ sq_tail = 0 /\ cq_head = 0 /\ cqe = NoSlot /\ cidmask = {} /\ executing = {}
      /\ dev_sqhead = 0 /\ dev_cqtail = 0 /\ dev_phase = 1 /\ sq_doorbell = 0 /\ cq_doorbell = 0
  BY DEF AInit, QInit
<1>4. Registers /\ Untouched /\ FreshRing
  BY <1>2, <1>3 DEF Registers, Untouched, FreshRing, Running, Opening, Closing, Starting
<1>5. Call /\ Own /\ AloneInTurn /\ Contents
  BY <1>2, <1>3 DEF Call, Own, AloneInTurn, Others, Contents, Running, Opening, Closing
<1>6. Loops /\ IoQueues
  BY <1>2 DEF Loops, IoQueues, QueueOps, Closing, Off
<1>7. Lockstep
  <2>1. Cardinality(cidmask) = 0 /\ Dist(0, 0) = 0
    BY <1>3, FS_EmptySet, SizeAssumption DEF Dist
  <2>. QED  BY <1>3, <2>1 DEF Lockstep, Reaping
<1>8. Unlate
  BY DEF AInit, Unlate
<1>9. Answers
  <2>1. \A s \in Slots : ~InSeg(s, 0, 0)
    BY SlotsInt DEF InSeg
  <2>. QED  BY <1>3, <2>1, SlotsInt DEF Answers, ToCome, Posted
<1>. QED  BY <1>1, <1>4, <1>5, <1>6, <1>7, <1>8, <1>9 DEF AInd, Base, AInv, RingSound

LEMMA AIndNext ==
  ASSUME AInd, [ANext]_avars
  PROVE  AInd'
<1>1. Base
  BY DEF AInd
<1>2. Base'
  <2>1. ATypes'
    BY <1>1, ATypesNext DEF Base
  <2>. QED  BY <1>1, <2>1, RegistersNext, UntouchedNext, CallNext, LoopsNext DEF Base
<1>3. ASSUME InOrder', unvme_queue_init PROVE AInv'
  BY <1>1, <1>2, <1>3, FreshRingNext, NewRing
<1>4. ASSUME InOrder', ~unvme_queue_init PROVE AInv'
  <2>1. AInv
    BY <1>1, <1>4, OrderBefore DEF AInd, Base
  <2>2. FreshRing'
    BY <1>1, <1>4, <2>1, FreshRingNext DEF AInv
  <2>3. RingSound' /\ Unlate' /\ AloneInTurn' /\ Answers'
    BY <1>4, <2>1, RingSoundNext, UnlateNext, AloneNext, AnswersNext
  <2>4. Contents' /\ IoQueues' /\ Own'
    BY <1>4, <2>1, ContentsNext, IoQueuesNext, OwnNext
  <2>. QED  BY <1>2, <2>2, <2>3, <2>4 DEF Base, AInv
<1>. QED  BY <1>2, <1>3, <1>4 DEF AInd

\* The invariant of the admin path is inductive, for processes that die
\* anywhere and take over a running controller, and commands that fail, time
\* out and are answered late: one part holds of every ring, the other of a
\* ring into which no stale completion and no second command with an id in
\* use has come.
THEOREM AdminInvariant == ASpec => []AInd
<1>1. AInd /\ [ANext]_avars => AInd'
  BY AIndNext
<1>. QED  BY <1>1, AIndInit, PTL DEF ASpec

\* Whatever a process that died or closed left behind, zeroed rings and the
\* controller's reset put both ends of the admin ring in step, and no command
\* of an open, a close, a tool or the application breaks it, unless a stale
\* completion or an id taken twice put the ring out of order.
THEOREM BringUpInStep == ASpec => []AdminRingInStep
<1>1. AInd => AdminRingInStep
  BY DEF AInd, AInv, RingSound, Handed, QInv, AdminRingInStep, InUse, Off
<1>. QED  BY <1>1, AdminInvariant, PTL

\* On a ring in order nvme_wait_completion never takes a late answer, or one
\* to a command of the application, for that of the command it waits for.
THEOREM AnswersOwn == ASpec => []AnswerIsOwn
<1>1. AInd => AnswerIsOwn
  BY DEF AInd, AInv, Own, AnswerIsOwn
<1>. QED  BY <1>1, AdminInvariant, PTL

\* On a ring in order nvme_acmd_get_features and nvme_acmd_set_features return
\* their own result, though they look for it at the index of the submission
\* entry.
THEOREM FeaturesOwn == ASpec => []FeatureIsOwn
<1>1. AInd => FeatureIsOwn
  BY DEF AInd, AInv, Own, FeatureIsOwn
<1>. QED  BY <1>1, AdminInvariant, PTL

\* The controller has no I/O queue in memory that unvme_cleanup has freed,
\* unless a deletion failed or the ring is out of order, and an open device
\* has all of its queues.
THEOREM QueueMemorySafe == ASpec => []QueueMemoryOwned
<1>1. ASSUME AInv PROVE QueueMemoryOwned
  <2>1. phase \in {"ns", "open"} => dev_sqs = Queues
    BY <1>1 DEF AInv, IoQueues
  <2>2. InUse \/ phase = "down" => dev_cqs \subseteq mem \cup unconfirmed
    <3>1. phase \in {"ns", "open"} => dev_cqs \subseteq mem
      BY <1>1 DEF AInv, Loops, ATypes
    <3>2. phase \in {"create_cq", "create_sq"} => dev_cqs \subseteq mem
      BY <1>1 DEF AInv, Loops, IoQueues
    <3>. QED  BY <1>1, <3>1, <3>2 DEF AInv, ATypes, IoQueues, InUse, Opening, Closing, Off, Starting
  <2>3. ASSUME phase = "down", unconfirmed = {}
        PROVE  dev_cqs = {} /\ \A c \in executing : what[c].opc = "app"
    <3>1. dev_cqs = {} /\ AppsOnly /\ Handed
      BY <1>1, <2>3 DEF AInv, IoQueues, AppsOnly, Handed, Starting
    <3>2. executing \subseteq cidmask /\ Mine = {}
      BY <1>1, <2>3, <3>1 DEF AInv, RingSound, QInv, InFlightOnce, Call, Fits, Opening, Closing, Mine
    <3>. QED  BY <1>1, <3>1, <3>2 DEF AInv, AloneInTurn, Others
  <2>. QED  BY <2>1, <2>2, <2>3 DEF QueueMemoryOwned
<1>2. AInd => QueueMemoryOwned
  BY <1>1 DEF AInd, QueueMemoryOwned
<1>. QED  BY <1>2, AdminInvariant, PTL
-----------------------------------------------------------------------------
\* Command ids.

\* In a close, the late commands: at most one for each queue passed, with
\* ids among those of the last commands, two for each queue.
Since == IF phase = "delete_cq" THEN 2 * ioq - 1 ELSE 2 * ioq - 2
Span == IF cmd.st = "none" THEN Since - 1 ELSE Since
Late ==
    phase \in Closing =>
        /\ cmd.st \in {"none", "ok"} => Cardinality(cidmask) < ioq
        /\ Cardinality(cidmask) <= ioq
        /\ cmd.st = "ok" => cmd.cid \notin cidmask
        /\ \A c \in cidmask : \/ cmd.st # "none" /\ c = cmd.cid
                              \/ Dist(sq_tail, c) + Span >= Size
AloneAtNs == phase = "ns" => Others = {}
IdInd == AInd /\ disorder \notin Opening \cup Closing /\ (InOrder => Late /\ AloneAtNs)

\* Distances seen from a tail that moves on, and from the entry before it.
LEMMA TailMoves ==
  ASSUME NEW t \in Slots, NEW c \in Slots
  PROVE  /\ c # t => Dist(Succ(t), c) = Dist(t, c) - 1
         /\ Dist(Succ(t), t) = Size - 1
         /\ Dist(t, c) \in 0 .. (Size - 1)
         /\ Dist(t, t) = 0
  BY SizeAssumption DEF Slots, Succ, Dist

\* In an open nothing else is on the ring.
LEMMA OpenIdFree ==
  ASSUME AInv, AloneAtNs, cmd = NoCmd, phase \in Opening
  PROVE  ~Clash
<1>1. cidmask = {}
  BY DEF AInv, AloneInTurn, AloneAtNs, Others, Mine, NoCmd
<1>2. Cardinality(cidmask) = 0
  BY <1>1, FS_EmptySet
<1>. QED  BY <1>1, <1>2, SizeAssumption DEF Clash, QueueFull

\* A close has passed ioq - 1 queues, and the id of none of the late commands
\* has come round again.
LEMMA CloseIdFree ==
  ASSUME CloseFits, AInv, Late, cmd = NoCmd, phase \in Closing
  PROVE  ~Clash
<1>1. cmd.st = "none" /\ sq_tail \in Slots /\ Cardinality(cidmask) \in Nat
  BY CidSets DEF AInv, ATypes, QTypeOK, NoCmd
<1>2. ioq \in 1 .. QCount /\ QCount \in Nat /\ Size \in Nat
  BY SizeAssumption, QCountAssumption DEF AInv, ATypes, Queues
<1>3. Cardinality(cidmask) < ioq /\ \A c \in cidmask : Dist(sq_tail, c) + Span >= Size
  BY <1>1 DEF Late
<1>4. Span <= 2 * QCount - 2 /\ Span \in Int
  BY <1>1, <1>2 DEF Span, Since
<1>5. sq_tail \notin cidmask
  <2>1. Dist(sq_tail, sq_tail) = 0
    BY <1>1, TailMoves
  <2>. QED  BY <1>2, <1>3, <1>4, <2>1 DEF CloseFits
<1>6. ~QueueFull(Cardinality(cidmask))
  BY <1>1, <1>2, <1>3, SizeAssumption DEF CloseFits, QueueFull
<1>. QED  BY <1>5, <1>6 DEF Clash, AcmdId

\* The steps that may end in a close.
LEMMA ClosingSteps ==
  ASSUME AInv, [ANext]_avars, phase' \in Closing
  PROVE  \/ close_command \/ unvme_cleanup \/ nvme_ioq_delete_cq \/ unvme_ioq_delete
         \/ wait_begin \/ wait_return \/ wait_timeout
         \/ ctlr_ready \/ ctlr_reset \/ ctlr_fetch \/ UNCHANGED avars
         \/ (\E c \in Cids, st \in Stats : ctlr_post(c, st))
<1>1. CASE open_command \/ tool_command
  <2>1. PICK opc, arg : nvme_acmd(opc, arg)
    BY <1>1, Issued DEF AInv, ATypes
  <2>2. phase' = phase
    BY <2>1 DEF nvme_acmd
  <2>. QED  BY <1>1, <2>2 DEF open_command, tool_command, Closing
<1>2. CASE \/ unvme_queue_init \/ nvme_ctlr_disable \/ nvme_ctlr_wait_ready \/ ctlr_wait_timeout
           \/ nvme_adminq_setup \/ open_fatal \/ crash \/ tool_start \/ tool_next
           \/ open_next \/ open_namespace
  BY <1>2 DEF unvme_queue_init, nvme_ctlr_disable, nvme_ctlr_wait_ready, ctlr_wait_timeout,
              nvme_adminq_setup, open_fatal, crash, Die, tool_start, tool_next, open_next, AfterOk,
              open_namespace, procvars, Opening, Closing
<1>3. CASE (\E c \in Cids : app_submit(c)) \/ app_reap \/ app_return
  BY <1>3 DEF app_submit, app_reap, app_return, procvars, Closing
<1>. QED  BY <1>1, <1>2, <1>3 DEF ANext, HostStep

\* The late commands of a close stay few and recent.
LEMMA LateNext ==
  ASSUME CloseFits, ~Overlap, AInv, Late, [ANext]_avars, phase' \in Closing
  PROVE  Late'
<1>1. Late /\ Call /\ cmd \in Cmd /\ cidmask \in SUBSET Cids /\ sq_tail \in Slots /\ Cids = Slots
  BY SlotsInt DEF AInv, ATypes, QTypeOK
<1>2. /\ ioq \in Nat /\ ioq >= 1 /\ Size \in Nat /\ Cardinality(cidmask) \in Nat
      /\ \A c \in cidmask : Dist(sq_tail, c) \in Nat
  BY <1>1, CidSets, TailMoves, SizeAssumption, QCountAssumption DEF AInv, ATypes, Queues
<1>3. CASE close_command
  <2>1. PICK opc \in Opcodes, arg \in Nat : nvme_acmd(opc, arg) /\ Fits(opc, arg)
    BY <1>3, Issued DEF AInv, ATypes
  <2>2. /\ cmd = NoCmd /\ cmd.st = "none" /\ cmd'.cid = sq_tail /\ cmd'.st = "wait"
        /\ cidmask' = cidmask \cup {sq_tail} /\ sq_tail' = Succ(sq_tail) /\ UNCHANGED <<phase, ioq>>
    BY <2>1 DEF nvme_acmd, nvme_submit_cmd, AcmdId, NoCmd
  <2>3. sq_tail \notin cidmask
    BY <1>1, <1>3, <2>2, CloseIdFree DEF Clash, AcmdId, close_command, Closing
  <2>4. Cardinality(cidmask') = Cardinality(cidmask) + 1
    BY <1>1, <2>2, <2>3, CidSets
  <2>5. \A c \in cidmask : Dist(sq_tail', c) = Dist(sq_tail, c) - 1
    BY <1>1, <2>2, <2>3, TailMoves
  <2>6. Span' = Span + 1
    BY <1>2, <2>2 DEF Span, Since
  <2>7. Span \in Int
    BY <1>2 DEF Span, Since
  <2>8. ASSUME phase \in Closing, NEW c \in cidmask PROVE Dist(sq_tail', c) + Span' >= Size
    BY <1>1, <1>2, <2>2, <2>5, <2>6, <2>7, <2>8 DEF Late
  <2>. QED  BY <1>1, <1>2, <2>2, <2>4, <2>8 DEF Late
<1>4. CASE unvme_cleanup
  <2>1. cidmask' = {} /\ UNCHANGED <<ioq, cmd>> /\ phase = "open"
    BY <1>4 DEF unvme_cleanup, Quiet, qvars
  <2>2. Cardinality(cidmask') = 0
    BY <2>1, FS_EmptySet
  <2>. QED  BY <1>2, <2>1, <2>2 DEF Late
<1>5. CASE nvme_ioq_delete_cq
  <2>1. /\ phase = "delete_sq" /\ phase' = "delete_cq" /\ cmd.st = "ok" /\ cmd' = NoCmd
        /\ UNCHANGED <<cidmask, sq_tail, ioq>>
    BY <1>5 DEF nvme_ioq_delete_cq, qvars, hostvars
  <2>2. Span' = Span /\ cmd'.st = "none"
    BY <1>2, <2>1 DEF Span, Since, NoCmd
  <2>3. /\ Cardinality(cidmask) < ioq
        /\ \A c \in cidmask : Dist(sq_tail, c) + Span >= Size
    BY <1>1, <2>1 DEF Late, Closing
  <2>. QED  BY <1>2, <2>1, <2>2, <2>3 DEF Late
<1>6. CASE unvme_ioq_delete
  <2>1. /\ phase \in Closing /\ cmd.st \in {"ok", "fail"} /\ cmd' = NoCmd /\ cmd'.st = "none"
        /\ UNCHANGED <<cidmask, sq_tail>>
        /\ phase' \in Closing => phase' = "delete_sq" /\ ioq' = ioq + 1
    BY <1>6 DEF unvme_ioq_delete, DeleteOver, Closing, qvars, hostvars, NoCmd
  <2>2. Span \in Int /\ Span <= 2 * ioq - 1
    BY <1>2, <2>1 DEF Span, Since
  <2>3. phase' \in Closing => Span' = 2 * ioq - 1
    BY <1>2, <2>1 DEF Span, Since
  <2>4. ASSUME NEW c \in cidmask PROVE Dist(sq_tail, c) + 2 * ioq - 1 >= Size
    <3>1. CASE c = cmd.cid
      <4>1. sq_tail = Succ(c) /\ c \in Slots
        BY <1>1, <2>1, <3>1 DEF Late, Call
      <4>2. Dist(sq_tail, c) = Size - 1
        BY <4>1, TailMoves
      <4>. QED  BY <1>2, <4>2
    <3>2. CASE c # cmd.cid
      BY <1>1, <1>2, <2>1, <2>2, <3>2 DEF Late
    <3>. QED  BY <3>1, <3>2
  <2>5. Cardinality(cidmask) <= ioq
    BY <1>1, <2>1 DEF Late
  <2>6. ASSUME phase' \in Closing, NEW c \in cidmask PROVE Dist(sq_tail, c) + Span' >= Size
    BY <1>2, <2>3, <2>4, <2>6
  <2>. QED  BY <1>2, <2>1, <2>5, <2>6 DEF Late
<1>7. CASE wait_begin
  BY <1>1, <1>7 DEF wait_begin, procvars, Late, Span, Since
<1>8. CASE wait_return
  <2>1. /\ cmd.st = "wait" /\ cidmask' = cidmask \ {ret'.cid} /\ cmd'.cid = cmd.cid
        /\ cmd'.st \in {"ok", "fail"}
        /\ cmd'.st = "ok" => ret'.cid = cmd.cid
        /\ UNCHANGED <<phase, ioq, sq_tail>>
    BY <1>8, WaitAnswer DEF AInv
  <2>2. cmd.cid \in cidmask /\ Span' = Span
    BY <1>1, <2>1 DEF Call, Span, Since
  <2>3. ret'.cid \in cidmask => Cardinality(cidmask') = Cardinality(cidmask) - 1
    BY <1>1, <2>1, CidSets
  <2>4. ret'.cid \notin cidmask => cidmask' = cidmask
    BY <2>1
  <2>5. /\ Cardinality(cidmask') <= Cardinality(cidmask)
        /\ cmd'.st = "ok" => Cardinality(cidmask') < Cardinality(cidmask)
    BY <1>2, <2>1, <2>2, <2>3, <2>4
  <2>6. Cardinality(cidmask') \in Nat
    BY <1>2, <2>2, <2>3, <2>4, <1>1, <2>1, CidSets
  <2>. QED  BY <1>1, <1>2, <2>1, <2>2, <2>5, <2>6 DEF Late
<1>9. CASE wait_timeout
  <2>1. /\ cmd.st = "wait" /\ cmd' = [cmd EXCEPT !.st = "fail"]
        /\ UNCHANGED <<cidmask, phase, ioq, sq_tail>>
    BY <1>9 DEF wait_timeout, qvars, hostvars, procvars
  <2>2. cmd'.st = "fail" /\ cmd'.cid = cmd.cid
    BY <1>1, <2>1 DEF Cmd
  <2>3. Span' = Span
    BY <2>1, <2>2 DEF Span, Since
  <2>. QED  BY <1>1, <2>1, <2>2, <2>3 DEF Late
<1>10. CASE \/ ctlr_ready \/ ctlr_reset \/ ctlr_fetch \/ UNCHANGED avars
            \/ (\E c \in Cids, st \in Stats : ctlr_post(c, st))
  BY <1>1, <1>10, ControllerSteps DEF Late, Span, Since
<1>. QED  BY <1>3, <1>4, <1>5, <1>6, <1>7, <1>8, <1>9, <1>10, ClosingSteps

LEMMA AloneAtNsNext ==
  ASSUME ~Overlap, AInv, AloneAtNs, [ANext]_avars, phase' = "ns"
  PROVE  Others' = {}
<1>1. AloneInTurn /\ ATypes /\ cmd \in Cmd
  BY DEF AInv, ATypes
<1>2. CASE open_command \/ close_command \/ tool_command
  <2>1. PICK opc \in Opcodes, arg \in Nat : nvme_acmd(opc, arg)
    BY <1>2, Issued DEF AInv, ATypes
  <2>2. /\ cmd.st = "none" /\ cmd'.cid = sq_tail /\ cmd'.st = "wait"
        /\ cidmask' = cidmask \cup {sq_tail} /\ phase' = phase
    BY <2>1 DEF nvme_acmd, AcmdId, NoCmd
  <2>. QED  BY <2>2 DEF AloneAtNs, Others, Mine
<1>3. CASE open_next
  <2>1. cidmask' = cidmask /\ cmd'.st = "none" /\ cmd.st = "ok" /\ phase \in Opening \ {"ns"}
    BY <1>3 DEF open_next, AfterOk, qvars, NoCmd
  <2>. QED  BY <1>1, <2>1 DEF AloneInTurn, Others, Mine
<1>4. CASE open_namespace
  BY <1>4 DEF open_namespace, Quiet, qvars, Others
<1>5. CASE wait_begin \/ wait_timeout
  <2>1. UNCHANGED <<cidmask, phase>>
    BY <1>5 DEF wait_begin, wait_timeout, qvars, procvars
  <2>2. Mine' = Mine
    BY <1>1, <1>5 DEF wait_begin, wait_timeout, Mine, Cmd
  <2>. QED  BY <2>1, <2>2 DEF AloneAtNs, Others
<1>6. CASE wait_return
  BY <1>1, <1>6, WaitAnswer DEF AloneAtNs, Others, Mine
<1>7. CASE \/ unvme_queue_init \/ nvme_ctlr_disable \/ nvme_ctlr_wait_ready \/ ctlr_wait_timeout
           \/ nvme_adminq_setup \/ open_fatal \/ crash \/ tool_start \/ tool_next
           \/ unvme_cleanup \/ nvme_ioq_delete_cq \/ unvme_ioq_delete
  BY <1>7 DEF unvme_queue_init, nvme_ctlr_disable, nvme_ctlr_wait_ready, ctlr_wait_timeout,
              nvme_adminq_setup, open_fatal, crash, Die, tool_start, tool_next,
              unvme_cleanup, nvme_ioq_delete_cq, unvme_ioq_delete, procvars
<1>8. CASE (\E c \in Cids : app_submit(c)) \/ app_reap \/ app_return
  BY <1>8 DEF app_submit, app_reap, app_return, procvars
<1>9. CASE \/ ctlr_ready \/ ctlr_reset \/ ctlr_fetch \/ UNCHANGED avars
           \/ (\E c \in Cids, st \in Stats : ctlr_post(c, st))
  BY <1>9, ControllerSteps DEF AloneAtNs, Others, Mine
<1>. QED  BY <1>2, <1>3, <1>4, <1>5, <1>6, <1>7, <1>8, <1>9 DEF ANext, HostStep

\* What puts a ring out of order.
LEMMA DisorderNext ==
  ASSUME CloseFits, IdInd, [ANext]_avars
  PROVE  disorder' \notin Opening \cup Closing
<1>1. CASE disorder' \in {disorder, "none", "stale", "tool"}
  BY <1>1 DEF IdInd, Opening, Closing
<1>2. CASE open_command \/ close_command \/ tool_command
  <2>1. PICK opc \in Opcodes, arg \in Nat : nvme_acmd(opc, arg) /\ Fits(opc, arg)
    BY <1>2, Issued DEF IdInd, AInd, Base, ATypes
  <2>2. cmd = NoCmd /\ disorder' = IF InOrder /\ Clash THEN phase ELSE disorder
    BY <2>1 DEF nvme_acmd
  <2>3. phase \in Opening \cup Closing /\ InOrder => ~Clash
    BY <2>2, OpenIdFree, CloseIdFree DEF IdInd, AInd
  <2>4. phase \in Opening \cup Closing \cup {"tool"}
    BY <2>1 DEF Fits
  <2>. QED  BY <1>1, <2>2, <2>3, <2>4
<1>3. ASSUME NEW c \in Cids, NEW st \in Stats, ctlr_post(c, st) PROVE disorder' \notin Opening \cup Closing
  BY <1>1, <1>3 DEF ctlr_post
<1>4. CASE unvme_queue_init
  BY <1>1, <1>4 DEF unvme_queue_init
<1>5. CASE \/ wait_begin \/ app_reap \/ wait_return \/ app_return \/ (\E c \in Cids : app_submit(c))
           \/ ctlr_fetch \/ UNCHANGED avars \/ nvme_ctlr_disable \/ nvme_ctlr_wait_ready
           \/ ctlr_wait_timeout \/ open_namespace \/ unvme_cleanup \/ tool_start \/ ctlr_ready
           \/ open_next \/ open_fatal \/ crash \/ nvme_ioq_delete_cq \/ nvme_adminq_setup \/ ctlr_reset
           \/ unvme_ioq_delete \/ wait_timeout \/ tool_next
  <2>1. disorder' = disorder
    BY <1>5 DEF wait_begin, app_reap, wait_return, app_return, app_submit, ctlr_fetch, avars,
            nvme_ctlr_disable, nvme_ctlr_wait_ready, ctlr_wait_timeout, open_namespace,
            unvme_cleanup, tool_start, ctlr_ready, open_next, open_fatal, crash, Die,
            nvme_ioq_delete_cq, nvme_adminq_setup, ctlr_reset, unvme_ioq_delete, wait_timeout,
            tool_next, cmdvars
  <2>. QED  BY <1>1, <2>1
<1>. QED  BY <1>2, <1>3, <1>4, <1>5 DEF ANext, HostStep

LEMMA IdIndNext ==
  ASSUME CloseFits, ~Overlap, IdInd, [ANext]_avars
  PROVE  IdInd'
<1>1. AInd' /\ disorder' \notin Opening \cup Closing
  BY AIndNext, DisorderNext DEF IdInd
<1>2. CASE unvme_queue_init
  <2>1. phase' = "init"
    BY <1>2 DEF unvme_queue_init
  <2>2. Late' /\ AloneAtNs'
    BY <2>1 DEF Late, AloneAtNs, Closing
  <2>. QED  BY <1>1, <2>2 DEF IdInd
<1>3. CASE ~unvme_queue_init
  <2>1. InOrder' => AInv /\ Late /\ AloneAtNs
    BY <1>3, OrderBefore DEF IdInd, AInd, Base
  <2>2. ASSUME InOrder' PROVE Late'
    BY <2>1, <2>2, LateNext DEF Late
  <2>3. ASSUME InOrder' PROVE AloneAtNs'
    BY <2>1, <2>3, AloneAtNsNext DEF AloneAtNs
  <2>. QED  BY <1>1, <2>2, <2>3 DEF IdInd
<1>. QED  BY <1>2, <1>3

\* The nvme_acmd functions do not look whether an id is free or the ring has
\* room; with no more I/O queues than half a lap of the admin ring allows, and
\* no command of the application on it, an open and a close never need to,
\* whatever of theirs times out: only a tool that goes on after timeouts, or a
\* stale completion, puts such a ring out of order.
THEOREM OpenCloseIdsFree == ASpec => []IdsFree
<1>1. CASE CloseFits /\ ~Overlap
  <2>1. AInit => IdInd
    <3>1. AInit => disorder = "none" /\ phase = "down"
      BY DEF AInit
    <3>. QED  BY <3>1, AIndInit DEF IdInd, Late, AloneAtNs, Opening, Closing
  <2>2. IdInd /\ [ANext]_avars => IdInd'
    BY <1>1, IdIndNext
  <2>3. IdInd => IdsFree
    BY DEF IdInd, IdsFree
  <2>. QED  BY <2>1, <2>2, <2>3, PTL DEF ASpec
<1>2. CASE ~(CloseFits /\ ~Overlap)
  <2>1. IdsFree
    BY <1>2 DEF IdsFree
  <2>. QED  BY <2>1, PTL
<1>. QED  BY <1>1, <1>2
=============================================================================
