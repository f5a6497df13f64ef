----------------------------- MODULE AuroraDma -----------------------------
(***************************************************************************)
(* Registration of the DMA pool with PCI (aurora_pci.c, called by          *)
(* vfio_create and vfio_delete).  A registration outlives the process that *)
(* made it, so each is written to a log file, and whoever opens or closes  *)
(* the device next unregisters what the log names and empties it.  A       *)
(* process may die between any two of these steps.                         *)
(*                                                                         *)
(* The firmware that keeps registrations and the file system are external. *)
(* The log file exists (fopen's result is not tested), and one process at  *)
(* a time has the one device: aurora_map's register address is fixed, and  *)
(* a second aurora_init would unregister a pool that is in use.            *)
(***************************************************************************)
EXTENDS Integers, Sequences, SequencesExt

CONSTANTS Procs,    \* processes, started again after they end
          Addrs     \* bus addresses the firmware may give to a pool

VARIABLES
    pc,             \* what a process is doing
    pci_vhsaa,      \* bus address of its pool
    todo,           \* entries of the log it has still to read
    registered,     \* firmware: addresses that are registered
    log,            \* the registration log file
    lost            \* history: registrations not undone, or made and not logged

dvars == <<pc, pci_vhsaa, todo, registered, log, lost>>

NoAddr == 0
Failed == -1        \* what ve_register_mem_to_pci returns for an error
Idle == {"off", "dead"}

DInit ==
    /\ pc = [p \in Procs |-> "off"]
    /\ pci_vhsaa = [p \in Procs |-> NoAddr]
    /\ todo = <<>>
    /\ registered = {} /\ log = <<>> /\ lost = {}

Goto(p, l) == pc' = [pc EXCEPT ![p] = l]

-----------------------------------------------------------------------------
\* vfio_create runs aurora_init, which begins with vhsa_release: the log is
\* opened for reading.
Alone == \A p \in Procs : pc[p] \in Idle
vfio_create(p) ==
    /\ Alone
    /\ Goto(p, "init_release")
    /\ todo' = log
    /\ UNCHANGED <<pci_vhsaa, registered, log, lost>>

\* vhsa_release: each entry is unregistered, a failure only reported; at the
\* end of the file the log is emptied.
Releasing == {"init_release", "exit_release"}
vhsa_release_entry(p) ==
    /\ pc[p] \in Releasing /\ todo # <<>>
    /\ \/ registered' = registered \ {Head(todo)} /\ lost' = lost \ {Head(todo)}
       \/ lost' = lost \cup ({Head(todo)} \cap registered) /\ UNCHANGED registered
    /\ todo' = Tail(todo)
    /\ UNCHANGED <<pc, pci_vhsaa, log>>
AllRead_Unchecked == TRUE
AllRead == todo = <<>>
vhsa_release_truncate(p) ==
    /\ pc[p] \in Releasing /\ AllRead
    /\ log' = <<>>
    /\ Goto(p, IF pc[p] = "init_release" THEN "register" ELSE "off")
    /\ UNCHANGED <<pci_vhsaa, todo, registered, lost>>

\* aurora_init goes on to map the pool and register it at an address of the
\* firmware's choice; without one it gives up ...
Usable_Unchecked(a) == TRUE
Usable(a) == a # Failed
aurora_init_register(p, a) ==
    /\ pc[p] = "register"
    /\ a \notin registered /\ Usable(a)
    /\ registered' = registered \cup ({a} \ {Failed})
    /\ pci_vhsaa' = [pci_vhsaa EXCEPT ![p] = a]
    /\ Goto(p, "append")
    /\ UNCHANGED <<todo, log, lost>>

\* ... and appends the address to the log.
NewLog_NotAppended(p) == log
NewLog(p) == Append(log, pci_vhsaa[p])
aurora_init_append(p) ==
    /\ pc[p] = "append"
    /\ log' = NewLog(p)
    /\ Goto(p, "map")
    /\ UNCHANGED <<pci_vhsaa, todo, registered, lost>>

\* nvme_create maps the controller's registers.
aurora_map(p) ==
    /\ pc[p] = "map"
    /\ Goto(p, "open")
    /\ UNCHANGED <<pci_vhsaa, todo, registered, log, lost>>

\* aurora_release unmaps registers and pool, then releases what the log names.
aurora_release(p) ==
    /\ pc[p] = "open"
    /\ Goto(p, "exit_release")
    /\ todo' = log
    /\ pci_vhsaa' = [pci_vhsaa EXCEPT ![p] = NoAddr]
    /\ UNCHANGED <<registered, log, lost>>
vfio_delete(p) == aurora_release(p)

\* A process dies, by itself or because it gives up: a pool that cannot be
\* mapped or registered, /dev/uio0 missing, registers that cannot be mapped
\* or unmapped.  A registration that is not in the log yet is lost.
InHand(p) == IF pc[p] = "append" THEN {pci_vhsaa[p]} ELSE {}
crash(p) ==
    /\ pc[p] \notin Idle
    /\ Goto(p, "dead")
    /\ lost' = lost \cup InHand(p)
    /\ pci_vhsaa' = [pci_vhsaa EXCEPT ![p] = NoAddr]
    /\ todo' = <<>>
    /\ UNCHANGED <<registered, log>>

DNext ==
    \E p \in Procs :
        \/ vfio_create(p)
        \/ vhsa_release_entry(p)
        \/ vhsa_release_truncate(p)
        \/ \E a \in Addrs \cup {Failed} : aurora_init_register(p, a)
        \/ aurora_init_append(p)
        \/ aurora_map(p)
        \/ vfio_delete(p)
        \/ crash(p)

DSpec == DInit /\ [][DNext]_dvars

-----------------------------------------------------------------------------
\* Every variable has its type.
DTypeOK ==
    /\ pc \in [Procs -> Idle \cup Releasing \cup {"register", "append", "map", "open"}]
    /\ pci_vhsaa \in [Procs -> Addrs \cup {NoAddr}]
    /\ ToSet(log) \subseteq Addrs /\ ToSet(todo) \subseteq Addrs
    /\ registered \subseteq Addrs /\ lost \subseteq registered

\* A process that has the device open has its pool registered and in the log,
\* and what earlier processes registered is gone, however they ended: but for
\* the registrations known to be lost there is no other.
PoolRegistered ==
    \A p \in Procs : pc[p] \in {"map", "open"} =>
        /\ registered \ lost = {pci_vhsaa[p]}
        /\ log = <<pci_vhsaa[p]>>

\* A crash loses a registration in one place only, between registering the
\* pool and writing it down, and otherwise only a failed unregister does: at
\* every other moment the log names all that is registered.
NothingElseLost ==
    registered \ lost \subseteq ToSet(log) \cup UNION {InHand(p) : p \in Procs}
=============================================================================
