---------------------------- MODULE UnvmeSession ----------------------------
(***************************************************************************)
(* Opening and closing sessions (unvme_do_open, unvme_do_close and         *)
(* unvme_cleanup of unvme_core.c) by threads that share the global session *)
(* list under unvme_lock.  Sessions on one PCI device share a device       *)
(* context with a reference count; the first session opens the log and the *)
(* last one closes it.                                                     *)
(*                                                                         *)
(* The lock is UnvmeLock's, taken for writing only.  The controller set-up *)
(* is one step that succeeds or aborts the process; what it leaves behind  *)
(* is the device context, which stands for its queues and memory too.      *)
(***************************************************************************)
EXTENDS UnvmeLock, Sequences, SequencesExt

CONSTANTS Pcis,         \* PCI device ids
          NsCount,      \* namespaces of a controller (identify: nn)
          MaxNsid,      \* bound: largest namespace id asked for
          MaxSes,       \* bound: sessions ever open at once
          Misuse        \* the values misuse may have

ASSUME NsAssumption == NsCount \in Nat /\ MaxNsid \in Nat
ASSUME SesAssumption == MaxSes \in Nat /\ Misuse \subseteq BOOLEAN

VARIABLES
    unvme_ses,      \* session list, head first: records [id, pci, nsid]
    contexts,       \* contexts[p]: device contexts set up for p and not freed
    refcount,       \* refcount[p]: unvme_device_t.refcount
    log_count,      \* unvme_log.c: opens of the log not closed
    req,            \* req[t]: the call thread t is in
    up,             \* FALSE once the process has aborted or exited
    misuse          \* may the callers ask for a namespace in use or absent?

sesvars == <<unvme_ses, contexts, refcount, log_count>>
svars == <<lvars, sesvars, req, up, misuse>>

NoReq == [call |-> "none", pci |-> 0, nsid |-> 0, ses |-> 0]
SesIds == 1 .. MaxSes
Sessions == ToSet(unvme_ses)
SessionsOf(p) == {s \in Sessions : s.pci = p}

SInit ==
    /\ LInit
    /\ unvme_ses = <<>>
    /\ contexts = [p \in Pcis |-> 0] /\ refcount = [p \in Pcis |-> 0]
    /\ log_count = 0
    /\ req = [t \in Threads |-> NoReq]
    /\ up = TRUE
    /\ misuse \in Misuse

\* A thread calls unvme_do_open.  MaxSes bounds the sessions open or opening.
Opening == {t \in Threads : req[t].call \in {"open", "create", "attach"}}
unvme_do_open(t, p, n) ==
    /\ up /\ req[t] = NoReq /\ pc[t] = "idle"
    /\ Len(unvme_ses) + Cardinality(Opening) < MaxSes
    /\ ~misuse => /\ n <= NsCount
                  /\ \A s \in SessionsOf(p) : s.nsid # n
                  /\ \A u \in Opening : ~(req[u].pci = p /\ req[u].nsid = n)
    /\ req' = [req EXCEPT ![t] = [call |-> "open", pci |-> p, nsid |-> n, ses |-> 0]]
    /\ UNCHANGED <<lvars, sesvars, up>>

\* A thread closes a session that nobody is closing.
unvme_do_close(t, s) ==
    /\ up /\ req[t] = NoReq /\ pc[t] = "idle"
    /\ s \in Sessions
    /\ \A u \in Threads : ~(req[u].call = "close" /\ req[u].ses = s.id)
    /\ req' = [req EXCEPT ![t] = [call |-> "close", pci |-> s.pci,
                                  nsid |-> s.nsid, ses |-> s.id]]
    /\ UNCHANGED <<lvars, sesvars, up>>

\* Both take the lock for writing; as nobody reads under it, the wait for
\* readers in unvme_lockw is never entered.
TakeLock(t) ==
    /\ up /\ req[t] # NoReq
    /\ unvme_lockw(t)
    /\ UNCHANGED <<sesvars, req, up>>

\* unvme_do_open's first part: open the log for the first session, look
\* through the list for the device.  The search stops at its first session and
\* compares no namespace id but that one's.  The two error returns, a namespace
\* the controller does not have and one in use, leave the lock taken.
OnDevice_HeadOnly(p) == {i \in DOMAIN unvme_ses : i = 1 /\ unvme_ses[i].pci = p}
OnDevice(p) == {i \in DOMAIN unvme_ses : unvme_ses[i].pci = p}
RefusedBy(s, n) == n > NsCount \/ s.nsid = n
open_search(t) ==
    LET found == OnDevice(req[t].pci)
    IN  /\ up /\ pc[t] = "writing" /\ req[t].call = "open"
        /\ log_count' = IF unvme_ses = <<>> THEN log_count + 1 ELSE log_count
        /\ IF found # {} /\ RefusedBy(unvme_ses[Min(found)], req[t].nsid)
           THEN req' = [req EXCEPT ![t] = NoReq] /\ pc' = [pc EXCEPT ![t] = "idle"]
           ELSE /\ req' = [req EXCEPT ![t].call = IF found = {} THEN "create" ELSE "attach"]
                /\ UNCHANGED pc
        /\ UNCHANGED <<lock, unvme_ses, contexts, refcount, up>>

\* ... its second part, for a device that has no session: the context, the
\* admin queue and the I/O queues are created.  A namespace id the
\* controller does not have is an error return with the lock taken and the new
\* device context abandoned.
open_create(t) ==
    /\ up /\ req[t].call = "create"
    /\ contexts' = [contexts EXCEPT ![req[t].pci] = @ + 1]
    /\ IF req[t].nsid > NsCount
       THEN req' = [req EXCEPT ![t] = NoReq] /\ pc' = [pc EXCEPT ![t] = "idle"]
       ELSE req' = [req EXCEPT ![t].call = "attach"] /\ UNCHANGED pc
    /\ UNCHANGED <<lock, unvme_ses, refcount, log_count, up>>

\* ... its last part: a new session on the device, at the end of the list,
\* and the lock is released.
Referenced_Not(p) == refcount
Referenced(p) == [refcount EXCEPT ![p] = @ + 1]
NewId == Min(SesIds \ {s.id : s \in Sessions})
open_attach(t) ==
    /\ up /\ req[t].call = "attach"
    /\ refcount' = Referenced(req[t].pci)
    /\ unvme_ses' = Append(unvme_ses, [id |-> NewId, pci |-> req[t].pci,
                                       nsid |-> req[t].nsid])
    /\ unvme_unlockw(t)
    /\ req' = [req EXCEPT ![t] = NoReq]
    /\ UNCHANGED <<contexts, log_count, up>>

\* unvme_do_open ends the process: log_open fails (exit), or a step of the
\* controller set-up or unvme_ns_init does (FATAL, errx).
open_abort(t) ==
    /\ up /\ pc[t] = "writing" /\ req[t].call \in {"open", "create", "attach"}
    /\ req[t].call = "open" => unvme_ses = <<>>
    /\ up' = FALSE
    /\ UNCHANGED <<lvars, sesvars, req>>

\* unvme_cleanup: the last session on a device deletes its queues and frees
\* its context; the last session of all closes the log.  unvme_do_close then
\* releases the lock.
At(i) == CHOOSE k \in DOMAIN unvme_ses : unvme_ses[k].id = i
LogClosed_Never(list) == log_count
LogClosed(list) == IF list = <<>> /\ log_count > 0 THEN log_count - 1 ELSE log_count
unvme_cleanup(t) ==
    LET p == req[t].pci
        last == refcount[p] = 1
    IN  /\ up /\ pc[t] = "writing" /\ req[t].call = "close"
        /\ refcount' = [refcount EXCEPT ![p] = @ - 1]
        /\ contexts' = IF last THEN [contexts EXCEPT ![p] = @ - 1] ELSE contexts
        /\ unvme_ses' = RemoveAt(unvme_ses, At(req[t].ses))
        /\ log_count' = LogClosed(unvme_ses')
        /\ unvme_unlockw(t)
        /\ req' = [req EXCEPT ![t] = NoReq]
        /\ UNCHANGED up

InCall(t) ==
    TakeLock(t) \/ open_search(t) \/ open_create(t) \/ open_attach(t) \/ unvme_cleanup(t)

SNext ==
    /\ \E t \in Threads :
          \/ \E p \in Pcis, n \in 1 .. MaxNsid : unvme_do_open(t, p, n)
          \/ \E s \in Sessions : unvme_do_close(t, s)
          \/ InCall(t)
          \/ open_abort(t)
    /\ UNCHANGED misuse

SSpec == SInit /\ [][SNext]_svars

\* A thread inside a call keeps running.
SFairSpec == SSpec /\ \A t \in Threads : WF_svars(InCall(t) /\ UNCHANGED misuse)

-----------------------------------------------------------------------------
\* Every variable has its type.
STypeOK ==
    /\ LTypeOK
    /\ Sessions \subseteq [id : SesIds, pci : Pcis, nsid : 1 .. MaxNsid]
    /\ contexts \in [Pcis -> Nat] /\ refcount \in [Pcis -> Nat]
    /\ log_count \in Nat /\ up \in BOOLEAN /\ misuse \in Misuse

\* Between calls the shared state agrees with the session list: a device has
\* one context while it has sessions, counted by refcount, and none otherwise;
\* the log is open while there is a session.
Consistent ==
    lock = 0 =>
        /\ \A p \in Pcis : /\ refcount[p] = Cardinality(SessionsOf(p))
                           /\ contexts[p] = IF SessionsOf(p) = {} THEN 0 ELSE 1
        /\ log_count = IF unvme_ses = <<>> THEN 0 ELSE 1

\* A device context is shared, not made twice, even when two threads open the
\* same device at once, and never freed under a session.
OneContext ==
    \A p \in Pcis : contexts[p] <= 1 /\ (SessionsOf(p) # {} => contexts[p] = 1)

\* The lock is released again: every call that takes it gives it back.
LockReleased == lock # 0 ~> lock = 0 \/ ~up

\* The same, as long as no open has to be refused.
LockReleasedUnlessRefused == lock # 0 /\ ~misuse ~> lock = 0 \/ ~up

\* "nsid is in use" is an error: no two sessions are on one namespace.
NamespaceOnce ==
    \A s, u \in Sessions : s.pci = u.pci /\ s.nsid = u.nsid => s.id = u.id
=============================================================================
