---------------------------- MODULE MCNvmeAdmin ----------------------------
(* An admin ring of a few entries, so that an open is more than one lap, and *)
(* a close that may leave late commands behind and come to their ids again.  *)
EXTENDS NvmeAdmin
MCStats == {0, 1}

(* What the next steps and the properties can depend on.  Nobody reads the   *)
(* ring of a process that has ended but the controller.  On a ring in order  *)
(* an entry outside the live part is read for its phase only; on one out of  *)
(* order no property asks for results.  ret is never read, and commands      *)
(* without a result differ in nothing.                                       *)
QueueOp(w) == w.opc \in {"create_cq", "create_sq", "delete_sq", "delete_cq"}
Kind(w) == IF QueueOp(w) \/ w.opc = "app" THEN w.opc
           ELSE IF InOrder /\ HasResult(w) THEN "features" ELSE "data"
Detail(w) == <<Kind(w), IF InOrder \/ QueueOp(w) THEN w.arg ELSE 0>>
ToFetch == {s \in Slots : InSeg(s, dev_sqhead, sq_doorbell)}
Live == executing \cup {sq[s] : s \in ToFetch}
CqView ==
    IF InOrder
    THEN <<[s \in Slots |-> cq[s].p],
           [s \in Posted \cup ({cqe} \ {NoSlot}) |-> <<cq[s].cid, cq[s].stat>>],
           [c \in cidmask |-> what[c].done]>>
    ELSE <<cq>>
CsView == IF InOrder /\ phase \in Starting \cup {"enabling", "identify", "features", "tool"}
          THEN cs ELSE <<>>
CmdView == IF InOrder THEN <<cmd.res, cmd.own>> ELSE <<>>
HostView ==
    IF phase \in Off THEN <<>>
    ELSE <<CqView, CsView, CmdView, sq_tail, cq_head, cq_phase, cqe, stat, cidmask,
           [c \in cidmask |-> Detail(what[c])], Detail(cmd), cmd.cid, cmd.st>>
AdminView ==
    <<HostView, [s \in ToFetch |-> sq[s]],
      [c \in Live |-> <<Detail(what[c]), late[c] # Blank, Detail(late[c])>>],
      sq_doorbell, cq_doorbell, dev_sqhead, dev_cqtail, dev_phase,
      executing, phase, ioq, mem, unconfirmed, ctlrvars, attached, disorder>>
=============================================================================
