--------------------------- MODULE NvmeCommands ---------------------------
(***************************************************************************)
(* What a pair of NVMe queues promises to the layer above it, with no ring,*)
(* no doorbell and no phase bit: a command handed over under a free        *)
(* command id is executed once, and its id comes back exactly once, with   *)
(* the status the controller gave to that very command.  At most Size - 1  *)
(* ids are outstanding.  NvmeQueue implements this specification.          *)
(***************************************************************************)
EXTENDS Integers, FiniteSets

CONSTANTS Size,     \* number of entries of the queue (nvme_queue_t.size)
          Stats     \* completion statuses, 0 is success

VARIABLES state,    \* state[c]: "free", "pending" or "done"
          status,   \* status[c]: what the controller said of c, once "done"
          ret       \* the last completion handed over: [cid, stat]

cvars == <<state, status, ret>>

Ids == 0 .. (Size - 1)
NoRet == [cid |-> -1, stat |-> 0]
Outstanding == {c \in Ids : state[c] # "free"}

CInit ==
    /\ state = [c \in Ids |-> "free"]
    /\ status = [c \in Ids |-> 0]
    /\ ret = NoRet

\* The caller hands over a command under the id c.
Submit(c) ==
    /\ state[c] = "free"
    /\ Cardinality(Outstanding) + 1 < Size
    /\ state' = [state EXCEPT ![c] = "pending"]
    /\ UNCHANGED <<status, ret>>

\* The controller finishes c, in any order, with status s.
Complete(c, s) ==
    /\ state[c] = "pending"
    /\ state' = [state EXCEPT ![c] = "done"]
    /\ status' = [status EXCEPT ![c] = s]
    /\ UNCHANGED ret

\* The caller is told of c.
Deliver(c) ==
    /\ state[c] = "done"
    /\ state' = [state EXCEPT ![c] = "free"]
    /\ status' = [status EXCEPT ![c] = 0]
    /\ ret' = [cid |-> c, stat |-> status[c]]

CNext ==
    \E c \in Ids : Submit(c) \/ Deliver(c) \/ \E s \in Stats : Complete(c, s)

CSpec == CInit /\ [][CNext]_cvars
===========================================================================
