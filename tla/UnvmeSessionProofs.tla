------------------------- MODULE UnvmeSessionProofs -------------------------
(***************************************************************************)
(* Proofs about the lock for any finite set of threads, and what opening   *)
(* and closing sessions promises, for any finite set of threads and any    *)
(* sets of devices and namespaces.                                         *)
(***************************************************************************)
EXTENDS UnvmeSession, ListLemmas

(***************************************************************************)
(* The lock.                                                               *)
(***************************************************************************)

PCs == {"idle", "lockr", "lockr_undo", "reading", "lockw", "drain", "writing"}

\* The inductive invariant: the lock word determines, and is determined by,
\* where the threads are; a writer past its wait has no reader beside it.
LInv ==
  /\ pc \in [Threads -> PCs]
  /\ LockWord
  /\ \A t \in Threads : pc[t] = "writing" => Reading = {}

-----------------------------------------------------------------------------
\* Sets of threads have a size, which is below the write bit.
LEMMA CountRange ==
  ASSUME NEW S \in SUBSET Threads
  PROVE  /\ IsFiniteSet(S)
         /\ Cardinality(S) \in Nat
         /\ Cardinality(S) < WBit
         /\ Cardinality(S) = 0 <=> S = {}
         /\ \A t : t \notin S => Cardinality(S \cup {t}) = Cardinality(S) + 1
         /\ \A t \in S : Cardinality(S \ {t}) = Cardinality(S) - 1
<1>1. IsFiniteSet(S) /\ Cardinality(S) <= Cardinality(Threads)
  BY ThreadsAssumption, FS_Subset
<1>2. Cardinality(S) \in Nat /\ Cardinality(Threads) \in Nat
  BY <1>1, ThreadsAssumption, FS_CardinalityType
<1>3. Cardinality(S) = 0 <=> S = {}
  BY <1>1, FS_EmptySet
<1>4. /\ \A t : t \notin S => Cardinality(S \cup {t}) = Cardinality(S) + 1
      /\ \A t \in S : Cardinality(S \ {t}) = Cardinality(S) - 1
  BY <1>1, FS_AddElement, FS_RemoveElement
<1> QED
  BY <1>1, <1>2, <1>3, <1>4, WBitAssumption

\* What a test of the lock word tells about the threads.
LEMMA WordMeaning ==
  ASSUME LInv
  PROVE  /\ lock \in Nat /\ lock < 2 * WBit
         /\ HasW(lock) <=> Owners # {}
         /\ lock = 0 <=> (Owners = {} /\ Counting = {})
         /\ lock = WBit <=> (Owners # {} /\ Counting = {})
<1>1. /\ Cardinality(Counting) \in Nat /\ Cardinality(Counting) < WBit
      /\ Cardinality(Counting) = 0 <=> Counting = {}
  BY CountRange DEF Counting
<1>2. lock = Cardinality(Counting) + (IF Owners = {} THEN 0 ELSE WBit)
  BY DEF LInv, LockWord
<1> QED
  BY <1>1, <1>2, WBitAssumption DEF HasW

\* A thread that moves between locations changes the two sets accordingly.
LEMMA Move ==
  ASSUME pc \in [Threads -> PCs], NEW t \in Threads, NEW l \in PCs,
         pc' = [pc EXCEPT ![t] = l]
  PROVE  /\ pc' \in [Threads -> PCs]
         /\ Counting' = IF l \in {"reading", "lockr_undo"} THEN Counting \cup {t}
                                                           ELSE Counting \ {t}
         /\ Owners' = IF l \in {"drain", "writing"} THEN Owners \cup {t}
                                                    ELSE Owners \ {t}
         /\ Reading' = IF l = "reading" THEN Reading \cup {t} ELSE Reading \ {t}
         /\ \A u \in Threads : pc'[u] = IF u = t THEN l ELSE pc[u]
  BY DEF Counting, Owners, Reading

-----------------------------------------------------------------------------
LEMMA LockrStep ==
  ASSUME LInv, NEW t \in Threads, unvme_lockr(t)
  PROVE  LInv'
<1> DEFINE l == IF HasW(lock) THEN "lockr_undo" ELSE "reading"
<1>1. /\ pc \in [Threads -> PCs] /\ l \in PCs /\ pc' = [pc EXCEPT ![t] = l]
      /\ lock' = lock + 1 /\ pc[t] \in {"idle", "lockr"}
  BY DEF LInv, PCs, unvme_lockr
<1>2. t \notin Counting /\ t \notin Owners
  BY <1>1 DEF Counting, Owners
<1>3. Counting' = Counting \cup {t} /\ Owners' = Owners
  <2>1. l \in {"reading", "lockr_undo"} /\ l \notin {"drain", "writing"}
    OBVIOUS
  <2>2. Counting' = Counting \cup {t} /\ Owners' = Owners \ {t}
    BY <1>1, <2>1, Move
  <2> QED
    BY <1>2, <2>2
<1>4. LockWord'
  <2>1. Cardinality(Counting') = Cardinality(Counting) + 1 /\ Cardinality(Counting) \in Nat
    BY <1>2, <1>3, CountRange DEF Counting
  <2> QED
    BY <2>1, <1>1, <1>3, WBitAssumption DEF LInv, LockWord
<1>5. ASSUME NEW u \in Threads, pc'[u] = "writing" PROVE Reading' = {}
  <2>1. u # t /\ pc[u] = "writing"
    BY <1>1, <1>5, Move
  <2>2. HasW(lock) /\ Reading = {}
    BY <2>1, WordMeaning DEF LInv, Owners
  <2> QED
    BY <2>2, <1>1, Move
<1> QED
  BY <1>1, <1>4, <1>5, Move DEF LInv

\* Taking an increment back, after a failed try or a finished read.
LEMMA DecrementStep ==
  ASSUME LInv, NEW t \in Threads, lockr_undo(t) \/ unvme_unlockr(t)
  PROVE  LInv'
<1>1. PICK l \in {"lockr", "idle"} : pc' = [pc EXCEPT ![t] = l]
  BY DEF lockr_undo, unvme_unlockr
<1>2. /\ pc \in [Threads -> PCs] /\ l \in PCs
      /\ lock' = lock - 1 /\ pc[t] \in {"lockr_undo", "reading"}
  BY DEF LInv, PCs, lockr_undo, unvme_unlockr
<1>3. t \in Counting /\ t \notin Owners
  BY <1>2 DEF Counting, Owners
<1>4. Counting' = Counting \ {t} /\ Owners' = Owners /\ Reading' \subseteq Reading
  <2>1. l \notin {"reading", "lockr_undo", "drain", "writing"}
    BY <1>1
  <2>2. /\ Counting' = Counting \ {t} /\ Owners' = Owners \ {t}
        /\ Reading' = Reading \ {t}
    BY <1>1, <1>2, <2>1, Move
  <2> QED
    BY <1>3, <2>2
<1>5. LockWord'
  <2>1. Cardinality(Counting') = Cardinality(Counting) - 1 /\ Cardinality(Counting) \in Nat
    BY <1>3, <1>4, CountRange DEF Counting
  <2> QED
    BY <2>1, <1>2, <1>4, WBitAssumption DEF LInv, LockWord
<1>6. ASSUME NEW u \in Threads, pc'[u] = "writing" PROVE Reading' = {}
  BY <1>1, <1>2, <1>4, <1>6, Move DEF LInv
<1> QED
  BY <1>1, <1>2, <1>5, <1>6, Move DEF LInv

LEMMA LockwStep ==
  ASSUME LInv, NEW t \in Threads, unvme_lockw(t)
  PROVE  LInv'
<1>1. /\ pc \in [Threads -> PCs] /\ pc[t] \in {"idle", "lockw"}
      /\ lock' = (IF HasW(lock) THEN lock ELSE lock + WBit)
  BY DEF LInv, unvme_lockw
<1>2. t \notin Counting /\ t \notin Owners /\ t \notin Reading
  BY <1>1 DEF Counting, Owners, Reading
<1>3. CASE HasW(lock)
  <2>1. pc' = [pc EXCEPT ![t] = "lockw"] /\ lock' = lock
    BY <1>1, <1>3, WordMeaning, WBitAssumption DEF unvme_lockw, HasW
  <2>2. Counting' = Counting /\ Owners' = Owners /\ Reading' = Reading
    <3>1. /\ Counting' = Counting \ {t} /\ Owners' = Owners \ {t}
          /\ Reading' = Reading \ {t}
      BY <1>1, <2>1, Move DEF PCs
    <3> QED
      BY <1>2, <3>1
  <2> QED
    BY <1>1, <2>1, <2>2, Move DEF LInv, LockWord, PCs
<1>4. CASE ~HasW(lock)
  <2>1. PICK l \in {"writing", "drain"} : /\ pc' = [pc EXCEPT ![t] = l]
                                          /\ l = "writing" => lock = 0
    BY <1>4 DEF unvme_lockw
  <2>2. Owners = {}
    BY <1>4, WordMeaning
  <2>3. Counting' = Counting /\ Owners' = {t} /\ Reading' = Reading
    <3>1. l \in PCs /\ l \notin {"reading", "lockr_undo"}
      BY <2>1 DEF PCs
    <3>2. /\ Counting' = Counting \ {t} /\ Owners' = Owners \cup {t}
          /\ Reading' = Reading \ {t}
      BY <1>1, <2>1, <3>1, Move
    <3> QED
      BY <1>2, <2>2, <3>2
  <2>4. Cardinality(Counting) \in Nat
    BY CountRange DEF Counting
  <2>5. LockWord'
    BY <1>1, <1>4, <2>2, <2>3, <2>4, WBitAssumption DEF LInv, LockWord
  <2>6. ASSUME NEW u \in Threads, pc'[u] = "writing" PROVE Reading' = {}
    <3>1. u = t
      BY <2>3, <2>6 DEF Owners
    <3>2. lock = 0
      BY <1>1, <2>1, <2>6, <3>1
    <3>3. Counting = {}
      BY <3>2, WordMeaning
    <3> QED
      BY <2>3, <3>3 DEF Reading, Counting
  <2> QED
    BY <1>1, <2>1, <2>5, <2>6, Move DEF LInv, PCs
<1> QED
  BY <1>3, <1>4

LEMMA DrainedStep ==
  ASSUME LInv, NEW t \in Threads, lockw_drained(t)
  PROVE  LInv'
<1>1. /\ pc \in [Threads -> PCs] /\ pc[t] = "drain" /\ lock = WBit /\ lock' = lock
      /\ pc' = [pc EXCEPT ![t] = "writing"]
  BY DEF LInv, lockw_drained
<1>2. t \in Owners /\ t \notin Counting /\ t \notin Reading
  BY <1>1 DEF Owners, Counting, Reading
<1>3. Counting' = Counting /\ Owners' = Owners /\ Reading' = Reading
  <2>1. /\ Counting' = Counting \ {t} /\ Owners' = Owners \cup {t}
        /\ Reading' = Reading \ {t}
    BY <1>1, Move DEF PCs
  <2> QED
    BY <1>2, <2>1
<1>4. Reading = {}
  BY <1>1, WordMeaning DEF Reading, Counting
<1> QED
  BY <1>1, <1>3, <1>4, Move DEF LInv, LockWord, PCs

LEMMA UnlockwStep ==
  ASSUME LInv, NEW t \in Threads, unvme_unlockw(t)
  PROVE  LInv'
<1>1. /\ pc \in [Threads -> PCs] /\ pc[t] = "writing" /\ lock' = ClearW(lock)
      /\ pc' = [pc EXCEPT ![t] = "idle"]
  BY DEF LInv, unvme_unlockw
<1>2. t \in Owners /\ t \notin Counting /\ t \notin Reading
  BY <1>1 DEF Owners, Counting, Reading
<1>3. Owners = {t}
  BY <1>2 DEF LInv, LockWord
<1>4. Counting' = Counting /\ Owners' = {} /\ Reading' = Reading
  <2>1. /\ Counting' = Counting \ {t} /\ Owners' = Owners \ {t}
        /\ Reading' = Reading \ {t}
    BY <1>1, Move DEF PCs
  <2> QED
    BY <1>2, <1>3, <2>1
<1>5. lock = Cardinality(Counting) + WBit /\ Cardinality(Counting) \in Nat
  BY <1>3, CountRange DEF LInv, LockWord, Counting
<1>6. LockWord'
  BY <1>1, <1>4, <1>5, WBitAssumption DEF LockWord, ClearW, HasW
<1>7. ASSUME NEW u \in Threads, pc'[u] = "writing" PROVE Reading' = {}
  BY <1>4, <1>7 DEF Owners
<1> QED
  BY <1>1, <1>6, <1>7, Move DEF LInv, PCs

-----------------------------------------------------------------------------
LEMMA InitLInv == LInit => LInv
<1> SUFFICES ASSUME LInit PROVE LInv
  OBVIOUS
<1>1. Counting = {} /\ Owners = {} /\ Reading = {}
  BY DEF LInit, Counting, Owners, Reading
<1>2. Cardinality({}) = 0
  BY FS_EmptySet
<1> QED
  BY <1>1, <1>2 DEF LInit, LInv, LockWord, PCs

LEMMA StepLInv == LInv /\ [LNext]_lvars => LInv'
<1> SUFFICES ASSUME LInv, [LNext]_lvars PROVE LInv'
  OBVIOUS
<1>1. CASE UNCHANGED lvars
  BY <1>1 DEF lvars, LInv, LockWord, Counting, Owners, Reading
<1> QED
  BY <1>1, LockrStep, DecrementStep, LockwStep, DrainedStep, UnlockwStep DEF LNext

THEOREM LockInvariant == LSpec => []LInv
  BY InitLInv, StepLInv, PTL DEF LSpec

\* The lock word never overflows into or past its write bit.
THEOREM LockTypeCorrect == LSpec => []LTypeOK
<1>1. LInv => LTypeOK
  BY WordMeaning, WBitAssumption DEF LInv, LTypeOK, PCs
<1> QED
  BY <1>1, LockInvariant, PTL

\* The word accounts for every thread: at most one has the write bit.
THEOREM LockWordExact == LSpec => []LockWord
<1>1. LInv => LockWord
  BY DEF LInv
<1> QED
  BY <1>1, LockInvariant, PTL

\* A thread between unvme_lockw and unvme_unlockw is alone.
THEOREM WriterAlone == LSpec => []MutualExclusion
<1>1. LInv => MutualExclusion
  BY DEF LInv, LockWord, MutualExclusion, Owners, Reading
<1> QED
  BY <1>1, LockInvariant, PTL

\* From the time a writer sets the write bit, readers only leave.
THEOREM WriterNotOvertaken == LSpec => NoNewReaders
<1>1. LInv /\ [LNext]_lvars => [Owners # {} => Reading' \subseteq Reading]_lvars
  <2> SUFFICES ASSUME LInv, [LNext]_lvars, Owners # {}
               PROVE  Reading' \subseteq Reading
    OBVIOUS
  <2>1. ASSUME NEW u \in Reading', u \notin Reading PROVE FALSE
    <3>1. HasW(lock) /\ pc \in [Threads -> PCs]
      BY WordMeaning DEF LInv
    <3>2. u \in Threads /\ pc'[u] = "reading" /\ pc[u] # "reading"
      BY <2>1 DEF Reading
    <3>3. ASSUME NEW t \in Threads, unvme_lockr(t) PROVE FALSE
      BY <3>1, <3>2, <3>3 DEF unvme_lockr
    <3>4. ASSUME NEW t \in Threads,
                 lockr_undo(t) \/ unvme_unlockr(t) \/ unvme_lockw(t)
                 \/ lockw_drained(t) \/ unvme_unlockw(t)
          PROVE  FALSE
      BY <3>1, <3>2, <3>4 DEF lockr_undo, unvme_unlockr, unvme_lockw,
                              lockw_drained, unvme_unlockw
    <3> QED
      BY <3>2, <3>3, <3>4 DEF LNext, lvars
  <2> QED
    BY <2>1
<1> QED
  BY <1>1, LockInvariant, PTL DEF LSpec, NoNewReaders

-----------------------------------------------------------------------------
(***************************************************************************)
(* The sessions.                                                           *)
(*                                                                         *)
(* The shared state is settled while nobody has the lock and while the     *)
(* writer has changed nothing yet; the parts of unvme_do_open in between   *)
(* say how far it has got.  A refused open keeps the lock for ever, so     *)
(* that the lock word does not tell who writes: the invariant has a writer *)
(* imply the write bit and not the other way round.                        *)
(***************************************************************************)

Request == [call : {"open", "create", "attach", "close"}, pci : Pcis,
            nsid : 1 .. MaxNsid, ses : 0 .. MaxSes]
SessionRec == [id : SesIds, pci : Pcis, nsid : 1 .. MaxNsid]

\* Who has the lock, and who may be where in a call.
Holding ==
  /\ lock \in {0, WBit}
  /\ pc \in [Threads -> {"idle", "lockw", "writing"}]
  /\ \A t, u \in Threads : pc[t] = "writing" /\ pc[u] = "writing" => t = u
  /\ \A t \in Threads : pc[t] = "writing" => lock = WBit
  /\ req \in [Threads -> Request \cup {NoReq}]
  /\ \A t \in Threads : req[t].call \in {"create", "attach"} => pc[t] = "writing"
  /\ \A t \in Threads : pc[t] # "idle" => req[t] # NoReq

\* The session list: ids are unique, a session is closed by one thread, and
\* there is room for those that are being opened.
SessionList ==
  /\ unvme_ses \in Seq(SessionRec)
  /\ \A i, j \in DOMAIN unvme_ses : unvme_ses[i].id = unvme_ses[j].id => i = j
  /\ \A t \in Threads : req[t].call = "close" =>
        \E i \in DOMAIN unvme_ses : unvme_ses[i].id = req[t].ses /\ unvme_ses[i].pci = req[t].pci
  /\ \A t, u \in Threads :
        req[t].call = "close" /\ req[u].call = "close" /\ req[t].ses = req[u].ses => t = u
  /\ Len(unvme_ses) + Cardinality(Opening) <= MaxSes

\* The device contexts and the log against the list.
Fresh(p) == contexts[p] = IF SessionsOf(p) = {} THEN 0 ELSE 1
LogFresh == log_count = IF unvme_ses = <<>> THEN 0 ELSE 1
Untouched == lock = 0 \/ \E t \in Threads : pc[t] = "writing" /\ req[t].call \in {"open", "close"}
Devices ==
  /\ contexts \in [Pcis -> Nat] /\ refcount \in [Pcis -> Nat] /\ log_count \in Nat
  /\ \A p \in Pcis : refcount[p] = Cardinality(SessionsOf(p))
  /\ OneContext
  /\ Untouched => LogFresh /\ \A p \in Pcis : Fresh(p)
  /\ \A t \in Threads : req[t].call = "create" =>
        /\ SessionsOf(req[t].pci) = {} /\ log_count = 1
        /\ \A p \in Pcis : Fresh(p)
  /\ \A t \in Threads : req[t].call = "attach" =>
        /\ contexts[req[t].pci] = 1 /\ log_count = 1
        /\ \A p \in Pcis \ {req[t].pci} : Fresh(p)

SInv == Holding /\ SessionList /\ Devices /\ up \in BOOLEAN /\ misuse \in Misuse

-----------------------------------------------------------------------------
\* The numbers and sets the invariant counts with.
LEMMA SessionFacts ==
  ASSUME SInv
  PROVE  /\ WBit \in Nat \ {0} /\ ~HasW(0) /\ HasW(WBit) /\ ClearW(WBit) = 0
         /\ Len(unvme_ses) \in Nat /\ DOMAIN unvme_ses = 1 .. Len(unvme_ses)
         /\ IsFiniteSet(Opening) /\ Cardinality(Opening) \in Nat
         /\ Distinct(unvme_ses) /\ IsFiniteSet(Sessions) /\ Sessions \subseteq SessionRec
         /\ \A p : IsFiniteSet(SessionsOf(p)) /\ Cardinality(SessionsOf(p)) \in Nat
<1>1. WBit \in Nat \ {0}
  BY ThreadsAssumption, WBitAssumption, FS_CardinalityType
<1>2. ~HasW(0) /\ HasW(WBit) /\ ClearW(WBit) = 0
  BY <1>1 DEF HasW, ClearW
<1>3. IsFiniteSet(Opening) /\ Cardinality(Opening) \in Nat
  BY ThreadsAssumption, FS_Subset, FS_CardinalityType DEF Opening
<1>4. unvme_ses \in Seq(SessionRec) /\ Distinct(unvme_ses)
  BY DEF SInv, SessionList, Distinct
<1>5. IsFiniteSet(Sessions)
  BY <1>4, DistinctCount DEF Sessions
<1>6. Sessions \subseteq SessionRec
  BY <1>4 DEF Sessions, ToSet
<1>7. ASSUME NEW p PROVE IsFiniteSet(SessionsOf(p)) /\ Cardinality(SessionsOf(p)) \in Nat
  BY <1>5, FS_Subset, FS_CardinalityType DEF SessionsOf
<1>. QED  BY <1>1, <1>2, <1>3, <1>4, <1>5, <1>6, <1>7

\* A step that changes one thread's request.
LEMMA OpeningMoves ==
  ASSUME SInv, NEW t \in Threads, NEW r, req' = [req EXCEPT ![t] = r]
  PROVE  /\ Opening' = IF r.call \in {"open", "create", "attach"} THEN Opening \cup {t}
                                                               ELSE Opening \ {t}
         /\ \A u \in Threads : req'[u] = IF u = t THEN r ELSE req[u]
         /\ r \in Request \cup {NoReq} => req' \in [Threads -> Request \cup {NoReq}]
<1>1. req \in [Threads -> Request \cup {NoReq}]
  BY DEF SInv, Holding
<1>2. \A u \in Threads : req'[u] = IF u = t THEN r ELSE req[u]
  BY <1>1
<1>. QED  BY <1>1, <1>2 DEF Opening

\* A step that leaves the list alone.
LEMMA SameList ==
  ASSUME UNCHANGED unvme_ses
  PROVE  Sessions' = Sessions /\ \A p : SessionsOf(p)' = SessionsOf(p)
  BY DEF Sessions, SessionsOf

\* The call of a request.
LEMMA Requests ==
  ASSUME SInv, NEW t \in Threads
  PROVE  /\ NoReq.call = "none" /\ NoReq.call \notin {"open", "create", "attach", "close"}
         /\ req[t] = NoReq <=> req[t].call = "none"
         /\ req[t] # NoReq =>
               /\ req[t] \in Request
               /\ req[t].call \in {"open", "create", "attach", "close"}
               /\ req[t].pci \in Pcis /\ req[t].nsid \in 1 .. MaxNsid
               /\ req[t].ses \in 0 .. MaxSes
<1>1. req[t] \in Request \cup {NoReq}
  BY DEF SInv, Holding
<1>. QED  BY <1>1 DEF Request, NoReq

-----------------------------------------------------------------------------
LEMMA SInvInit == SInit => SInv
<1>. SUFFICES ASSUME SInit PROVE SInv
  OBVIOUS
<1>1. lock = 0 /\ pc = [t \in Threads |-> "idle"] /\ unvme_ses = <<>> /\ log_count = 0
  BY DEF SInit, LInit
<1>2. Sessions = {} /\ Opening = {} /\ \A p : SessionsOf(p) = {}
  BY DEF SInit, Sessions, ToSet, SessionsOf, Opening, NoReq
<1>3. Cardinality({}) = 0
  BY FS_EmptySet
<1>4. Holding
  BY <1>1 DEF SInit, Holding, NoReq
<1>5. SessionList
  <2>1. unvme_ses \in Seq(SessionRec) /\ DOMAIN unvme_ses = {} /\ Len(unvme_ses) = 0
    BY <1>1
  <2>2. \A t \in Threads : req[t].call # "close"
    BY DEF SInit, NoReq
  <2>. QED  BY <1>2, <1>3, <2>1, <2>2, SesAssumption DEF SessionList
<1>6. Devices
  <2>1. \A t \in Threads : req[t].call \notin {"create", "attach"}
    BY DEF SInit, NoReq
  <2>2. /\ contexts \in [Pcis -> Nat] /\ refcount \in [Pcis -> Nat] /\ log_count \in Nat
        /\ \A p \in Pcis : contexts[p] = 0 /\ refcount[p] = 0
    BY DEF SInit
  <2>3. \A p \in Pcis : Fresh(p) /\ refcount[p] = Cardinality(SessionsOf(p))
    BY <1>2, <1>3, <2>2 DEF Fresh
  <2>4. LogFresh /\ OneContext
    BY <1>1, <1>2, <2>2 DEF LogFresh, OneContext
  <2>. QED  BY <2>1, <2>2, <2>3, <2>4 DEF Devices
<1>7. up \in BOOLEAN /\ misuse \in Misuse
  BY Zenon DEF SInit
<1>. QED  BY <1>4, <1>5, <1>6, <1>7 DEF SInv

\* unvme_do_open is called.
LEMMA OpenStep ==
  ASSUME SInv, NEW t \in Threads, NEW p \in Pcis, NEW n \in 1 .. MaxNsid,
         unvme_do_open(t, p, n)
  PROVE  Holding' /\ SessionList' /\ Devices'
<1>. USE DEF SInv
<1>1. PICK r : r = [call |-> "open", pci |-> p, nsid |-> n, ses |-> 0]
  OBVIOUS
<1>2. /\ req[t] = NoReq /\ pc[t] = "idle" /\ req' = [req EXCEPT ![t] = r]
      /\ Len(unvme_ses) + Cardinality(Opening) < MaxSes
      /\ UNCHANGED <<lock, pc, unvme_ses, contexts, refcount, log_count>>
  BY <1>1 DEF unvme_do_open, lvars, sesvars
<1>3. r \in Request /\ r.call = "open" /\ r # NoReq
  BY <1>1, SesAssumption DEF Request, NoReq
<1>4. /\ Opening' = Opening \cup {t} /\ t \notin Opening
      /\ req' \in [Threads -> Request \cup {NoReq}]
      /\ \A u \in Threads : req'[u] = IF u = t THEN r ELSE req[u]
  BY <1>2, <1>3, OpeningMoves, Requests DEF Opening
<1>5. Sessions' = Sessions /\ \A q : SessionsOf(q)' = SessionsOf(q)
  BY <1>2, SameList
<1>6. Holding'
  BY <1>2, <1>3, <1>4 DEF Holding
<1>7. SessionList'
  <2>1. Cardinality(Opening') = Cardinality(Opening) + 1
    BY <1>4, SessionFacts, FS_AddElement
  <2>2. Len(unvme_ses') + Cardinality(Opening') <= MaxSes
    BY <1>2, <2>1, SessionFacts, SesAssumption
  <2>. QED  BY <1>2, <1>3, <1>4, <2>2 DEF SessionList
<1>8. Devices'
  <2>1. Untouched' => Untouched
    BY <1>2, <1>4 DEF Untouched
  <2>. QED  BY <1>2, <1>3, <1>4, <1>5, <2>1 DEF Devices, OneContext, LogFresh, Fresh
<1>. QED  BY <1>6, <1>7, <1>8

\* unvme_do_close is called.
LEMMA CloseStep ==
  ASSUME SInv, NEW t \in Threads, NEW s \in Sessions, unvme_do_close(t, s)
  PROVE  Holding' /\ SessionList' /\ Devices'
<1>. USE DEF SInv
<1>1. PICK r : r = [call |-> "close", pci |-> s.pci, nsid |-> s.nsid, ses |-> s.id]
  OBVIOUS
<1>2. /\ req[t] = NoReq /\ pc[t] = "idle" /\ req' = [req EXCEPT ![t] = r]
      /\ \A u \in Threads : ~(req[u].call = "close" /\ req[u].ses = s.id)
      /\ UNCHANGED <<lock, pc, unvme_ses, contexts, refcount, log_count>>
  BY <1>1 DEF unvme_do_close, lvars, sesvars
<1>3. s \in SessionRec /\ \E i \in DOMAIN unvme_ses : unvme_ses[i] = s
  BY SessionFacts DEF Sessions, ToSet
<1>4. r \in Request /\ r.call = "close" /\ r # NoReq /\ r.ses = s.id /\ r.pci = s.pci
  BY <1>1, <1>3, SesAssumption DEF Request, NoReq, SessionRec, SesIds
<1>5. /\ Opening' = Opening
      /\ req' \in [Threads -> Request \cup {NoReq}]
      /\ \A u \in Threads : req'[u] = IF u = t THEN r ELSE req[u]
  <2>1. t \notin Opening
    BY <1>2, Requests DEF Opening
  <2>2. Opening' = Opening \ {t}
    BY <1>2, <1>4, OpeningMoves
  <2>3. /\ req' \in [Threads -> Request \cup {NoReq}]
        /\ \A u \in Threads : req'[u] = IF u = t THEN r ELSE req[u]
    BY <1>2, <1>4, OpeningMoves
  <2>. QED  BY <2>1, <2>2, <2>3
<1>6. Sessions' = Sessions /\ \A q : SessionsOf(q)' = SessionsOf(q)
  BY <1>2, SameList
<1>7. Holding'
  BY <1>2, <1>4, <1>5 DEF Holding
<1>8. SessionList'
  <2>1. ASSUME NEW u \in Threads, req'[u].call = "close"
        PROVE  \E i \in DOMAIN unvme_ses :
                  unvme_ses[i].id = req'[u].ses /\ unvme_ses[i].pci = req'[u].pci
    BY <2>1, <1>3, <1>4, <1>5 DEF SessionList
  <2>2. ASSUME NEW u \in Threads, NEW v \in Threads,
               req'[u].call = "close", req'[v].call = "close", req'[u].ses = req'[v].ses
        PROVE  u = v
    BY <2>2, <1>2, <1>4, <1>5 DEF SessionList
  <2>. QED  BY <1>2, <1>5, <2>1, <2>2 DEF SessionList
<1>9. Devices'
  <2>1. Untouched' => Untouched
    BY <1>2, <1>5 DEF Untouched
  <2>. QED  BY <1>2, <1>4, <1>5, <1>6, <2>1 DEF Devices, OneContext, LogFresh, Fresh
<1>. QED  BY <1>7, <1>8, <1>9

\* The lock is asked for: nobody writes when it is got, so that the state is
\* settled.
LEMMA LockStep ==
  ASSUME SInv, NEW t \in Threads, TakeLock(t)
  PROVE  Holding' /\ SessionList' /\ Devices'
<1>. USE DEF SInv
<1>1. /\ req[t] # NoReq /\ unvme_lockw(t) /\ pc[t] \in {"idle", "lockw"}
      /\ UNCHANGED <<unvme_ses, contexts, refcount, log_count, req>>
  BY DEF TakeLock, sesvars, unvme_lockw
<1>2. /\ Sessions' = Sessions /\ Opening' = Opening /\ \A q : SessionsOf(q)' = SessionsOf(q)
  BY <1>1, SameList DEF Opening
<1>3. req[t].call \in {"open", "close"}
  BY <1>1, Requests DEF Holding
<1>4. SessionList'
  BY <1>1, <1>2 DEF SessionList
<1>5. CASE lock = 0
  <2>1. lock' = WBit /\ pc' = [pc EXCEPT ![t] = "writing"]
    BY <1>1, <1>5, SessionFacts DEF unvme_lockw
  <2>2. \A u \in Threads : pc[u] # "writing"
    BY <1>5, SessionFacts DEF Holding
  <2>3. Holding'
    BY <1>1, <2>1, <2>2, SessionFacts DEF Holding
  <2>4. Untouched
    BY <1>5 DEF Untouched
  <2>. QED  BY <1>1, <1>2, <1>4, <2>3, <2>4 DEF Devices, OneContext, LogFresh, Fresh
<1>6. CASE lock # 0
  <2>1. lock = WBit
    BY <1>6 DEF Holding
  <2>2. lock' = lock /\ pc' = [pc EXCEPT ![t] = "lockw"]
    BY <1>1, <1>6, <2>1, SessionFacts DEF unvme_lockw
  <2>3. Holding'
    BY <1>1, <2>2 DEF Holding
  <2>4. Untouched' => Untouched
    BY <1>1, <2>2 DEF Untouched, Holding
  <2>. QED  BY <1>1, <1>2, <1>4, <2>3, <2>4 DEF Devices, OneContext, LogFresh, Fresh
<1>. QED  BY <1>5, <1>6

-----------------------------------------------------------------------------
\* The thread that writes is alone, and no other is in the middle of an open.
LEMMA OnlyWriter ==
  ASSUME SInv, NEW t \in Threads, pc[t] = "writing"
  PROVE  /\ lock = WBit /\ lock # 0 /\ req[t] # NoReq
         /\ \A u \in Threads : u # t => /\ pc[u] # "writing"
                                       /\ req[u].call \notin {"create", "attach"}
  BY SessionFacts DEF SInv, Holding

\* A writer that leaves without a session changes nothing that is counted.
LEMMA Gone ==
  ASSUME SInv, NEW t \in Threads, pc[t] = "writing",
         req[t].call \in {"open", "create", "attach", "close"},
         req' = [req EXCEPT ![t] = NoReq], pc' = [pc EXCEPT ![t] = "idle"],
         lock' \in {0, WBit}
  PROVE  /\ Holding'
         /\ \A u \in Threads : req'[u].call \notin {"create", "attach"} /\ pc'[u] # "writing"
         /\ \A u \in Threads : req'[u] = IF u = t THEN NoReq ELSE req[u]
         /\ Opening' = Opening \ {t}
         /\ Cardinality(Opening') =
               Cardinality(Opening) - (IF req[t].call = "close" THEN 0 ELSE 1)
<1>. USE DEF SInv
<1>1. /\ Opening' = Opening \ {t}
      /\ req' \in [Threads -> Request \cup {NoReq}]
      /\ \A u \in Threads : req'[u] = IF u = t THEN NoReq ELSE req[u]
  <2>1. NoReq.call \notin {"open", "create", "attach"}
    BY DEF NoReq
  <2>. QED  BY <2>1, OpeningMoves
<1>2. \A u \in Threads : pc'[u] = IF u = t THEN "idle" ELSE pc[u]
  BY DEF Holding
<1>3. \A u \in Threads : pc'[u] # "writing" /\ req'[u].call \notin {"create", "attach"}
  BY <1>1, <1>2, OnlyWriter, Requests
<1>4. Holding'
  BY <1>1, <1>2, <1>3 DEF Holding
<1>5. t \in Opening <=> req[t].call # "close"
  BY DEF Opening
<1>6. Cardinality(Opening') = Cardinality(Opening) - (IF req[t].call = "close" THEN 0 ELSE 1)
  <2>1. IsFiniteSet(Opening) /\ Cardinality(Opening) \in Nat
    BY SessionFacts
  <2>2. Cardinality(Opening \ {t}) = IF t \in Opening THEN Cardinality(Opening) - 1 ELSE Cardinality(Opening)
    BY <2>1, FS_RemoveElement
  <2>. QED  BY <1>1, <1>5, <2>1, <2>2
<1>. QED  BY <1>1, <1>3, <1>4, <1>6

\* A refused open: the lock stays taken.
LEMMA RefusedStep ==
  ASSUME SInv, NEW t \in Threads, pc[t] = "writing", req[t].call \in {"open", "create"},
         req' = [req EXCEPT ![t] = NoReq], pc' = [pc EXCEPT ![t] = "idle"],
         UNCHANGED <<lock, unvme_ses, refcount>>,
         contexts' \in [Pcis -> Nat], log_count' \in Nat, OneContext'
  PROVE  Holding' /\ SessionList' /\ Devices'
<1>. USE DEF SInv
<1>1. lock' \in {0, WBit} /\ lock' # 0
  BY OnlyWriter
<1>2. /\ Holding'
      /\ \A u \in Threads : req'[u].call \notin {"create", "attach"} /\ pc'[u] # "writing"
      /\ \A u \in Threads : req'[u] = IF u = t THEN NoReq ELSE req[u]
      /\ Cardinality(Opening') = Cardinality(Opening) - 1
  <2>1. Cardinality(Opening') =
          Cardinality(Opening) - (IF req[t].call = "close" THEN 0 ELSE 1)
    BY <1>1, Gone
  <2>. QED  BY <1>1, <2>1, Gone
<1>3. SessionList'
  <2>1. NoReq.call # "close"
    BY DEF NoReq
  <2>2. Len(unvme_ses') + Cardinality(Opening') <= MaxSes
    BY <1>2, SessionFacts, SesAssumption DEF SessionList
  <2>. QED  BY <1>2, <2>1, <2>2 DEF SessionList
<1>4. Devices'
  <2>1. ~Untouched'
    BY <1>1, <1>2 DEF Untouched
  <2>2. \A q : SessionsOf(q)' = SessionsOf(q)
    BY SameList
  <2>. QED  BY <1>2, <2>1, <2>2 DEF Devices
<1>. QED  BY <1>2, <1>3, <1>4

\* An open goes on to its next part.
LEMMA Advances ==
  ASSUME SInv, NEW t \in Threads, pc[t] = "writing", req[t].call \in {"open", "create"},
         NEW c \in {"create", "attach"}, req' = [req EXCEPT ![t].call = c],
         UNCHANGED <<lock, pc, unvme_ses>>
  PROVE  /\ Holding' /\ SessionList' /\ ~Untouched'
         /\ req'[t].call = c /\ req'[t].pci = req[t].pci
         /\ \A u \in Threads : u # t => req'[u].call \notin {"create", "attach"}
<1>. USE DEF SInv
<1>1. PICK r : r = [req[t] EXCEPT !.call = c]
  OBVIOUS
<1>2. req[t] \in Request /\ r \in Request /\ r.call = c /\ r.pci = req[t].pci /\ r # NoReq
  BY <1>1, Requests DEF Request, NoReq
<1>3. req' = [req EXCEPT ![t] = r]
  BY <1>1 DEF Holding
<1>4. /\ Opening' = Opening
      /\ req' \in [Threads -> Request \cup {NoReq}]
      /\ \A u \in Threads : req'[u] = IF u = t THEN r ELSE req[u]
  <2>1. t \in Opening
    BY DEF Opening
  <2>2. Opening' = Opening \cup {t}
    BY <1>2, <1>3, OpeningMoves
  <2>3. /\ req' \in [Threads -> Request \cup {NoReq}]
        /\ \A u \in Threads : req'[u] = IF u = t THEN r ELSE req[u]
    BY <1>2, <1>3, OpeningMoves
  <2>. QED  BY <2>1, <2>2, <2>3
<1>5. Holding'
  BY <1>2, <1>4, OnlyWriter DEF Holding
<1>6. SessionList'
  BY <1>2, <1>4 DEF SessionList
<1>7. ~Untouched'
  BY <1>2, <1>4, OnlyWriter DEF Untouched
<1>. QED  BY <1>2, <1>4, <1>5, <1>6, <1>7, OnlyWriter

\* unvme_do_open's search.
LEMMA SearchStep ==
  ASSUME SInv, NEW t \in Threads, open_search(t)
  PROVE  Holding' /\ SessionList' /\ Devices'
<1>. USE DEF SInv
<1>0. PICK q : q = req[t].pci
  OBVIOUS
<1>1. PICK found : found = OnDevice(q)
  OBVIOUS
<1>2. /\ pc[t] = "writing" /\ req[t].call = "open"
      /\ log_count' = (IF unvme_ses = <<>> THEN log_count + 1 ELSE log_count)
      /\ UNCHANGED <<lock, unvme_ses, contexts, refcount>>
  BY DEF open_search
<1>3. found = {} <=> SessionsOf(q) = {}
  BY <1>1 DEF OnDevice, SessionsOf, Sessions, ToSet
<1>4. LogFresh /\ \A p \in Pcis : Fresh(p)
  BY <1>2 DEF Devices, Untouched
<1>5. log_count' = 1
  BY <1>2, <1>4 DEF LogFresh
<1>6. \A p : SessionsOf(p)' = SessionsOf(p)
  BY <1>2, SameList
<1>7. OneContext'
  BY <1>2, <1>6 DEF Devices, OneContext
<1>8. CASE found # {} /\ RefusedBy(unvme_ses[Min(found)], req[t].nsid)
  <2>1. req' = [req EXCEPT ![t] = NoReq] /\ pc' = [pc EXCEPT ![t] = "idle"]
    BY <1>0, <1>1, <1>8 DEF open_search
  <2>2. contexts' \in [Pcis -> Nat] /\ log_count' \in Nat
    BY <1>2, <1>5 DEF Devices
  <2>. QED  BY <1>2, <1>7, <2>1, <2>2, RefusedStep
<1>9. CASE ~(found # {} /\ RefusedBy(unvme_ses[Min(found)], req[t].nsid))
  <2>1. PICK c : c = IF found = {} THEN "create" ELSE "attach"
    OBVIOUS
  <2>2. c \in {"create", "attach"} /\ req' = [req EXCEPT ![t].call = c] /\ pc' = pc
    BY <1>0, <1>1, <1>9, <2>1 DEF open_search
  <2>3. /\ Holding' /\ SessionList' /\ ~Untouched'
        /\ req'[t].call = c /\ req'[t].pci = q
        /\ \A u \in Threads : u # t => req'[u].call \notin {"create", "attach"}
    BY <1>0, <1>2, <2>2, Advances
  <2>4. q \in Pcis
    BY <1>0, <1>2, Requests
  <2>5. \A p \in Pcis : Fresh(p)'
    BY <1>2, <1>4, <1>6 DEF Fresh
  <2>6. c = "create" => SessionsOf(q)' = {}
    BY <1>3, <1>6, <2>1
  <2>7. c = "attach" => contexts'[q] = 1
    BY <1>2, <1>3, <1>4, <2>1, <2>4 DEF Fresh
  <2>8. Devices'
    BY <1>2, <1>5, <1>6, <1>7, <2>3, <2>5, <2>6, <2>7 DEF Devices
  <2>. QED  BY <2>3, <2>8
<1>. QED  BY <1>8, <1>9

\* unvme_do_open's controller set-up: the device had no context.
LEMMA CreateStep ==
  ASSUME SInv, NEW t \in Threads, open_create(t)
  PROVE  Holding' /\ SessionList' /\ Devices'
<1>. USE DEF SInv
<1>1. PICK q : q = req[t].pci
  OBVIOUS
<1>2. /\ req[t].call = "create" /\ contexts' = [contexts EXCEPT ![q] = @ + 1]
      /\ UNCHANGED <<lock, unvme_ses, refcount, log_count>>
  BY <1>1 DEF open_create
<1>3. pc[t] = "writing" /\ q \in Pcis
  BY <1>1, <1>2, Requests DEF Holding
<1>4. SessionsOf(q) = {} /\ log_count = 1 /\ \A p \in Pcis : Fresh(p)
  BY <1>1, <1>2 DEF Devices
<1>5. /\ contexts' \in [Pcis -> Nat] /\ contexts'[q] = 1
      /\ \A p \in Pcis \ {q} : contexts'[p] = contexts[p]
  BY <1>2, <1>3, <1>4 DEF Devices, Fresh
<1>6. \A p : SessionsOf(p)' = SessionsOf(p)
  BY <1>2, SameList
<1>7. OneContext' /\ \A p \in Pcis \ {q} : Fresh(p)'
  BY <1>4, <1>5, <1>6 DEF OneContext, Fresh
<1>8. CASE req[t].nsid > NsCount
  <2>1. req' = [req EXCEPT ![t] = NoReq] /\ pc' = [pc EXCEPT ![t] = "idle"]
    BY <1>8 DEF open_create
  <2>2. log_count' \in Nat
    BY <1>2 DEF Devices
  <2>. QED  BY <1>2, <1>3, <1>5, <1>7, <2>1, <2>2, RefusedStep
<1>9. CASE ~(req[t].nsid > NsCount)
  <2>1. req' = [req EXCEPT ![t].call = "attach"] /\ pc' = pc
    BY <1>9 DEF open_create
  <2>2. /\ Holding' /\ SessionList' /\ ~Untouched'
        /\ req'[t].call = "attach" /\ req'[t].pci = q
        /\ \A u \in Threads : u # t => req'[u].call \notin {"create", "attach"}
    BY <1>1, <1>2, <1>3, <2>1, Advances
  <2>3. Devices'
    BY <1>2, <1>4, <1>5, <1>6, <1>7, <2>2 DEF Devices
  <2>. QED  BY <2>2, <2>3
<1>. QED  BY <1>8, <1>9

\* A session that is added gets an id no other has.
LEMMA NewIdFree ==
  ASSUME SInv, Len(unvme_ses) < MaxSes
  PROVE  NewId \in SesIds /\ \A i \in DOMAIN unvme_ses : unvme_ses[i].id # NewId
<1>. DEFINE ids == {x.id : x \in Sessions}
<1>1. PICK l : l = [i \in 1 .. Len(unvme_ses) |-> unvme_ses[i].id]
  OBVIOUS
<1>2. /\ Len(unvme_ses) \in Nat /\ DOMAIN unvme_ses = 1 .. Len(unvme_ses)
      /\ \A i \in 1 .. Len(unvme_ses) : unvme_ses[i].id \in SesIds
  <2>1. Len(unvme_ses) \in Nat /\ DOMAIN unvme_ses = 1 .. Len(unvme_ses)
    BY SessionFacts
  <2>2. \A i \in 1 .. Len(unvme_ses) : unvme_ses[i] \in SessionRec
    BY DEF SInv, SessionList
  <2>. QED  BY <2>1, <2>2 DEF SessionRec
<1>3. l \in Seq(SesIds) /\ Len(l) = Len(unvme_ses) /\ DOMAIN l = 1 .. Len(unvme_ses)
  BY <1>1, <1>2
<1>4. Distinct(l)
  BY <1>1, <1>2, <1>3 DEF Distinct, SInv, SessionList
<1>5. ToSet(l) = ids
  BY <1>1, <1>2, <1>3 DEF ToSet, Sessions
<1>6. Cardinality(ids) = Len(unvme_ses)
  BY <1>3, <1>4, <1>5, DistinctCount
<1>7. Cardinality(SesIds) = MaxSes
  BY SesAssumption, FS_Interval DEF SesIds
<1>8. ids \subseteq SesIds /\ ids # SesIds
  <2>1. ids \subseteq SesIds
    BY <1>2 DEF Sessions, ToSet
  <2>. HIDE DEF ids
  <2>2. ids = SesIds => FALSE
    BY <1>2, <1>6, <1>7, SesAssumption
  <2>. QED  BY <2>1, <2>2
<1>9. SesIds \ ids \in SUBSET Nat /\ SesIds \ ids # {}
  BY <1>8 DEF SesIds
<1>10. NewId \in SesIds \ ids
  BY <1>9, MinIsLeast DEF NewId
<1>. QED  BY <1>10 DEF Sessions, ToSet

\* The session at the end of the list is new.
LEMMA AttachAdds ==
  ASSUME SInv, NEW t \in Threads, open_attach(t), NEW s,
         s = [id |-> NewId, pci |-> req[t].pci, nsid |-> req[t].nsid]
  PROVE  /\ s \in SessionRec /\ req[t].pci \in Pcis
         /\ s.pci = req[t].pci /\ s.nsid = req[t].nsid
         /\ \A i \in DOMAIN unvme_ses : unvme_ses[i].id # s.id
         /\ unvme_ses' \in Seq(SessionRec) /\ Len(unvme_ses') = Len(unvme_ses) + 1
         /\ \A i \in DOMAIN unvme_ses : unvme_ses'[i] = unvme_ses[i]
         /\ unvme_ses'[Len(unvme_ses) + 1] = s
         /\ Sessions' = Sessions \cup {s} /\ s \notin Sessions
<1>. USE DEF SInv
<1>1. req[t].call = "attach" /\ unvme_ses' = Append(unvme_ses, s)
  BY DEF open_attach
<1>2. Len(unvme_ses) < MaxSes
  <2>1. IsFiniteSet(Opening) /\ Cardinality(Opening) \in Nat /\ Opening # {}
    BY <1>1, SessionFacts DEF Opening
  <2>2. Cardinality(Opening) # 0
    BY <2>1, FS_EmptySet
  <2>. QED  BY <2>1, <2>2, SessionFacts, SesAssumption DEF SessionList
<1>3. s.id \in SesIds /\ (\A i \in DOMAIN unvme_ses : unvme_ses[i].id # s.id)
  BY <1>2, NewIdFree
<1>4. s \in SessionRec /\ req[t].pci \in Pcis
  BY <1>1, <1>3, Requests DEF SessionRec
<1>5. s \notin Sessions
  BY <1>3 DEF Sessions, ToSet
<1>6. /\ unvme_ses' \in Seq(SessionRec) /\ Len(unvme_ses') = Len(unvme_ses) + 1
      /\ \A i \in DOMAIN unvme_ses : unvme_ses'[i] = unvme_ses[i]
      /\ unvme_ses'[Len(unvme_ses) + 1] = s
      /\ Sessions' = Sessions \cup {s}
  BY <1>1, <1>4, AppendList DEF Sessions, SessionList
<1>. QED  BY <1>3, <1>4, <1>5, <1>6

\* unvme_do_open's end: the session is on the list and counted.
LEMMA AttachStep ==
  ASSUME SInv, NEW t \in Threads, open_attach(t)
  PROVE  Holding' /\ SessionList' /\ Devices'
<1>. USE DEF SInv
<1>1. PICK q : q = req[t].pci
  OBVIOUS
<1>2. PICK s : s = [id |-> NewId, pci |-> q, nsid |-> req[t].nsid]
  OBVIOUS
<1>3. /\ req[t].call = "attach" /\ pc[t] = "writing"
      /\ refcount' = [refcount EXCEPT ![q] = @ + 1]
      /\ unvme_ses' = Append(unvme_ses, s)
      /\ req' = [req EXCEPT ![t] = NoReq] /\ pc' = [pc EXCEPT ![t] = "idle"]
      /\ lock' = ClearW(lock)
      /\ UNCHANGED <<contexts, log_count>>
  BY <1>1, <1>2 DEF open_attach, Referenced, unvme_unlockw
<1>4. lock' = 0 /\ lock' \in {0, WBit}
  BY <1>3, OnlyWriter, SessionFacts
<1>5. /\ Holding'
      /\ \A u \in Threads : req'[u].call \notin {"create", "attach"} /\ pc'[u] # "writing"
      /\ \A u \in Threads : req'[u] = IF u = t THEN NoReq ELSE req[u]
      /\ Cardinality(Opening') = Cardinality(Opening) - 1
  <2>1. Cardinality(Opening') =
          Cardinality(Opening) - (IF req[t].call = "close" THEN 0 ELSE 1)
    BY <1>3, <1>4, Gone
  <2>. QED  BY <1>3, <1>4, <2>1, Gone
<1>6. /\ s \in SessionRec /\ q \in Pcis /\ s.pci = q
      /\ \A i \in DOMAIN unvme_ses : unvme_ses[i].id # s.id
      /\ unvme_ses' \in Seq(SessionRec) /\ Len(unvme_ses') = Len(unvme_ses) + 1
      /\ \A i \in DOMAIN unvme_ses : unvme_ses'[i] = unvme_ses[i]
      /\ unvme_ses'[Len(unvme_ses) + 1] = s
      /\ Sessions' = Sessions \cup {s} /\ s \notin Sessions
  BY <1>1, <1>2, AttachAdds
<1>7. /\ DOMAIN unvme_ses' = 1 .. (Len(unvme_ses) + 1) /\ unvme_ses' # <<>>
       /\ DOMAIN unvme_ses = 1 .. Len(unvme_ses) /\ Len(unvme_ses) \in Nat
  BY <1>6, SessionFacts
<1>8. SessionList'
  <2>1. ASSUME NEW i \in DOMAIN unvme_ses', NEW j \in DOMAIN unvme_ses',
               unvme_ses'[i].id = unvme_ses'[j].id
        PROVE  i = j
    BY <2>1, <1>6, <1>7 DEF SessionList
  <2>2. ASSUME NEW u \in Threads, req'[u].call = "close"
        PROVE  \E i \in DOMAIN unvme_ses' :
                  unvme_ses'[i].id = req'[u].ses /\ unvme_ses'[i].pci = req'[u].pci
    <3>1. req'[u] = req[u]
      BY <2>2, <1>5 DEF NoReq
    <3>2. PICK i \in DOMAIN unvme_ses :
             unvme_ses[i].id = req[u].ses /\ unvme_ses[i].pci = req[u].pci
      BY <2>2, <3>1 DEF SessionList
    <3>. QED  BY <3>1, <3>2, <1>6, <1>7
  <2>3. ASSUME NEW u \in Threads, NEW v \in Threads,
               req'[u].call = "close", req'[v].call = "close", req'[u].ses = req'[v].ses
        PROVE  u = v
    <3>1. req'[u] = req[u] /\ req'[v] = req[v]
      BY <2>3, <1>5 DEF NoReq
    <3>. QED  BY <2>3, <3>1 DEF SessionList
  <2>4. Len(unvme_ses') + Cardinality(Opening') <= MaxSes
    BY <1>5, <1>6, SessionFacts, SesAssumption DEF SessionList
  <2>. QED  BY <1>6, <2>1, <2>2, <2>3, <2>4 DEF SessionList
<1>9. /\ SessionsOf(q)' = SessionsOf(q) \cup {s} /\ s \notin SessionsOf(q)
       /\ \A p : p # q => SessionsOf(p)' = SessionsOf(p)
  BY <1>6 DEF SessionsOf
<1>10. Devices'
  <2>1. contexts[q] = 1 /\ log_count = 1 /\ \A p \in Pcis \ {q} : Fresh(p)
    BY <1>1, <1>3 DEF Devices
  <2>2. \A p \in Pcis : Fresh(p)'
    BY <1>3, <1>9, <2>1 DEF Fresh
  <2>3. OneContext' /\ LogFresh'
    BY <1>3, <1>7, <2>1, <2>2 DEF OneContext, Fresh, LogFresh
  <2>4. Cardinality(SessionsOf(q)') = Cardinality(SessionsOf(q)) + 1
    BY <1>9, SessionFacts, FS_AddElement
  <2>5. \A p \in Pcis : refcount'[p] = Cardinality(SessionsOf(p)')
    BY <1>3, <1>6, <1>9, <2>4 DEF Devices
  <2>6. /\ contexts' \in [Pcis -> Nat] /\ log_count' \in Nat /\ refcount' \in [Pcis -> Nat]
    BY <1>3, <1>6 DEF Devices
  <2>. QED  BY <1>5, <2>2, <2>3, <2>5, <2>6 DEF Devices
<1>. QED  BY <1>5, <1>8, <1>10

\* The session a close is about is found on the list.
LEMMA ClosedAt ==
  ASSUME SInv, NEW t \in Threads, req[t].call = "close"
  PROVE  LET k == At(req[t].ses)
         IN  /\ k \in DOMAIN unvme_ses
             /\ unvme_ses[k].id = req[t].ses /\ unvme_ses[k].pci = req[t].pci
<1>. USE DEF SInv
<1>1. PICK k : k = At(req[t].ses)
  OBVIOUS
<1>2. PICK i \in DOMAIN unvme_ses :
         unvme_ses[i].id = req[t].ses /\ unvme_ses[i].pci = req[t].pci
  BY DEF SessionList
<1>3. k \in DOMAIN unvme_ses /\ unvme_ses[k].id = req[t].ses
  BY <1>1, <1>2 DEF At
<1>4. k = i
  BY <1>2, <1>3 DEF SessionList
<1>. QED  BY <1>1, <1>2, <1>4

\* unvme_cleanup: the session leaves, and with the last one on the device the
\* context does, with the last of all the log.
LEMMA CleanupStep ==
  ASSUME SInv, NEW t \in Threads, unvme_cleanup(t)
  PROVE  Holding' /\ SessionList' /\ Devices'
<1>. USE DEF SInv
<1>1. PICK q : q = req[t].pci
  OBVIOUS
<1>2. PICK k : k = At(req[t].ses)
  OBVIOUS
<1>3. PICK r : r = unvme_ses'
  OBVIOUS
<1>4. /\ req[t].call = "close" /\ pc[t] = "writing"
      /\ refcount' = [refcount EXCEPT ![q] = @ - 1]
      /\ contexts' = (IF refcount[q] = 1 THEN [contexts EXCEPT ![q] = @ - 1] ELSE contexts)
      /\ r = RemoveAt(unvme_ses, k)
      /\ log_count' = LogClosed(r)
      /\ req' = [req EXCEPT ![t] = NoReq] /\ pc' = [pc EXCEPT ![t] = "idle"]
      /\ lock' = ClearW(lock)
  BY <1>1, <1>2, <1>3 DEF unvme_cleanup, unvme_unlockw
<1>5. lock' = 0 /\ lock' \in {0, WBit}
  BY <1>4, OnlyWriter, SessionFacts
<1>6. /\ Holding'
      /\ \A u \in Threads : req'[u].call \notin {"create", "attach"} /\ pc'[u] # "writing"
      /\ \A u \in Threads : req'[u] = IF u = t THEN NoReq ELSE req[u]
      /\ Cardinality(Opening') = Cardinality(Opening)
  <2>1. Cardinality(Opening') =
          Cardinality(Opening) - (IF req[t].call = "close" THEN 0 ELSE 1)
    BY <1>4, <1>5, Gone
  <2>2. Cardinality(Opening') = Cardinality(Opening)
    BY <1>4, <2>1, SessionFacts
  <2>. QED  BY <1>4, <1>5, <2>2, Gone
<1>7. k \in DOMAIN unvme_ses /\ unvme_ses[k].id = req[t].ses /\ unvme_ses[k].pci = q
  BY <1>1, <1>2, <1>4, ClosedAt
<1>8. PICK s : s = unvme_ses[k]
  OBVIOUS
<1>9. /\ s \in Sessions /\ s.pci = q /\ s.id = req[t].ses /\ q \in Pcis
  BY <1>1, <1>4, <1>7, <1>8, Requests DEF Sessions, ToSet
<1>10. /\ r \in Seq(SessionRec) /\ Len(r) = Len(unvme_ses) - 1
       /\ ToSet(r) = Sessions \ {s} /\ Distinct(r)
  <2>1. unvme_ses \in Seq(SessionRec) /\ Distinct(unvme_ses)
    BY SessionFacts DEF SessionList
  <2>. QED  BY <2>1, <1>4, <1>7, <1>8, RemoveAtSeq, RemoveList DEF Sessions
<1>11. Sessions' = Sessions \ {s}
  BY <1>3, <1>10 DEF Sessions
\* Sessions that share an id are one session.
<1>12. \A x, y \in Sessions : x.id = y.id => x = y
  BY DEF Sessions, ToSet, SessionList
<1>13. SessionList'
  <2>1. ASSUME NEW i \in DOMAIN r, NEW j \in DOMAIN r, r[i].id = r[j].id
        PROVE  i = j
    <3>1. r[i] \in Sessions /\ r[j] \in Sessions
      BY <1>10 DEF ToSet
    <3>2. r[i] = r[j]
      BY <2>1, <3>1, <1>12
    <3>. QED  BY <3>2, <1>10 DEF Distinct
  <2>2. ASSUME NEW u \in Threads, req'[u].call = "close"
        PROVE  \E i \in DOMAIN r : r[i].id = req'[u].ses /\ r[i].pci = req'[u].pci
    <3>1. u # t /\ req'[u] = req[u]
      BY <2>2, <1>6 DEF NoReq
    <3>2. PICK i \in DOMAIN unvme_ses :
             unvme_ses[i].id = req[u].ses /\ unvme_ses[i].pci = req[u].pci
      BY <2>2, <3>1 DEF SessionList
    <3>3. req[u].ses # req[t].ses
      BY <2>2, <3>1, <1>4 DEF SessionList
    <3>4. unvme_ses[i] \in ToSet(r)
      BY <3>2, <3>3, <1>9, <1>10 DEF Sessions, ToSet
    <3>. QED  BY <3>1, <3>2, <3>4 DEF ToSet
  <2>3. ASSUME NEW u \in Threads, NEW v \in Threads,
               req'[u].call = "close", req'[v].call = "close", req'[u].ses = req'[v].ses
        PROVE  u = v
    <3>1. req'[u] = req[u] /\ req'[v] = req[v]
      BY <2>3, <1>6 DEF NoReq
    <3>. QED  BY <2>3, <3>1 DEF SessionList
  <2>4. Len(r) + Cardinality(Opening') <= MaxSes
    BY <1>6, <1>10, SessionFacts, SesAssumption DEF SessionList
  <2>. QED  BY <1>3, <1>10, <2>1, <2>2, <2>3, <2>4 DEF SessionList
<1>14. /\ SessionsOf(q)' = SessionsOf(q) \ {s} /\ s \in SessionsOf(q)
       /\ \A p : p # q => SessionsOf(p)' = SessionsOf(p)
  BY <1>9, <1>11 DEF SessionsOf
<1>15. /\ Cardinality(SessionsOf(q)') = Cardinality(SessionsOf(q)) - 1
       /\ Cardinality(SessionsOf(q)) \in Nat /\ Cardinality(SessionsOf(q)) # 0
       /\ Cardinality(SessionsOf(q)) = 1 <=> SessionsOf(q)' = {}
  <2>1. IsFiniteSet(SessionsOf(q)) /\ Cardinality(SessionsOf(q)) \in Nat
    BY SessionFacts
  <2>2. /\ IsFiniteSet(SessionsOf(q) \ {s})
        /\ Cardinality(SessionsOf(q) \ {s}) = Cardinality(SessionsOf(q)) - 1
    BY <1>14, <2>1, FS_RemoveElement
  <2>3. Cardinality(SessionsOf(q)) # 0
    BY <1>14, <2>1, FS_EmptySet
  <2>4. Cardinality(SessionsOf(q) \ {s}) = 0 <=> SessionsOf(q) \ {s} = {}
    BY <2>2, FS_EmptySet
  <2>. QED  BY <1>14, <2>1, <2>2, <2>3, <2>4
<1>16. Devices'
  <2>1. LogFresh /\ \A p \in Pcis : Fresh(p)
    BY <1>4 DEF Devices, Untouched
  <2>2. contexts[q] = 1 /\ log_count = 1
    BY <2>1, <1>7, <1>9, <1>14 DEF Fresh, LogFresh
  <2>3. refcount[q] = Cardinality(SessionsOf(q))
    BY <1>9 DEF Devices
  <2>4. /\ contexts' \in [Pcis -> Nat]
        /\ contexts'[q] = IF SessionsOf(q)' = {} THEN 0 ELSE 1
        /\ \A p \in Pcis : p # q => contexts'[p] = contexts[p]
    BY <1>4, <1>9, <1>15, <2>2, <2>3 DEF Devices
  <2>5. \A p \in Pcis : Fresh(p)'
    BY <1>14, <2>1, <2>4 DEF Fresh
  <2>6. OneContext'
    BY <2>5 DEF OneContext, Fresh
  <2>7. LogFresh' /\ log_count' \in Nat
    BY <1>3, <1>4, <2>2 DEF LogFresh, LogClosed
  <2>8. /\ refcount' \in [Pcis -> Nat] /\ refcount'[q] = refcount[q] - 1
        /\ \A p \in Pcis : p # q => refcount'[p] = refcount[p]
    BY <1>4, <1>9, <1>15, <2>3 DEF Devices
  <2>9. \A p \in Pcis : refcount'[p] = Cardinality(SessionsOf(p)')
    BY <1>14, <1>15, <2>3, <2>8 DEF Devices
  <2>. QED  BY <1>6, <2>4, <2>5, <2>6, <2>7, <2>8, <2>9 DEF Devices
<1>. QED  BY <1>6, <1>13, <1>16

-----------------------------------------------------------------------------
LEMMA SInvNext == SInv /\ [SNext]_svars => SInv'
<1>. SUFFICES ASSUME SInv, [SNext]_svars PROVE SInv'
  OBVIOUS
<1>1. CASE UNCHANGED svars
  <2>1. UNCHANGED <<lock, pc, unvme_ses, contexts, refcount, log_count, req, up, misuse>>
    BY <1>1 DEF svars, lvars, sesvars
  <2>2. Opening' = Opening /\ \A p : SessionsOf(p)' = SessionsOf(p)
    BY <2>1, SameList DEF Opening
  <2>. QED
    BY <2>1, <2>2 DEF SInv, Holding, SessionList, Devices, OneContext, Fresh, LogFresh, Untouched
<1>2. CASE SNext
  <2>1. misuse' \in Misuse
    BY <1>2 DEF SNext, SInv
  <2>2. PICK t \in Threads :
           \/ \E p \in Pcis, n \in 1 .. MaxNsid : unvme_do_open(t, p, n)
           \/ \E s \in Sessions : unvme_do_close(t, s)
           \/ InCall(t)
           \/ open_abort(t)
    BY <1>2 DEF SNext
  <2>3. ASSUME open_abort(t)
        PROVE  Holding' /\ SessionList' /\ Devices' /\ up' \in BOOLEAN
    <3>1. UNCHANGED <<lock, pc, unvme_ses, contexts, refcount, log_count, req>>
      BY <2>3, Zenon DEF open_abort, lvars, sesvars
    <3>2. up' \in BOOLEAN
      BY <2>3, Zenon DEF open_abort
    <3>3. Opening' = Opening /\ \A p : SessionsOf(p)' = SessionsOf(p)
      BY <3>1, SameList DEF Opening
    <3>. QED
      BY <3>1, <3>2, <3>3 DEF SInv, Holding, SessionList, Devices, OneContext, Fresh, LogFresh, Untouched
  <2>4. Holding' /\ SessionList' /\ Devices'
    BY <2>2, <2>3, OpenStep, CloseStep, LockStep, SearchStep, CreateStep, AttachStep,
       CleanupStep DEF InCall
  <2>5. up' \in BOOLEAN
    BY <2>2, <2>3, Zenon DEF SInv, InCall, unvme_do_open, unvme_do_close, TakeLock, open_search,
                      open_create, open_attach, unvme_cleanup
  <2>. QED  BY <2>1, <2>4, <2>5 DEF SInv
<1>. QED  BY <1>1, <1>2

THEOREM SessionInvariant == SSpec => []SInv
  BY SInvInit, SInvNext, PTL DEF SSpec

\* Every variable has its type: no count runs below zero and an id is found
\* for every session that is opened.
THEOREM SessionTypeCorrect == SSpec => []STypeOK
<1>1. SInv => STypeOK
  <2>. SUFFICES ASSUME SInv PROVE STypeOK
    OBVIOUS
  <2>1. LTypeOK
    BY SessionFacts DEF SInv, Holding, LTypeOK
  <2>2. Sessions \subseteq [id : SesIds, pci : Pcis, nsid : 1 .. MaxNsid]
    BY SessionFacts DEF SessionRec
  <2>. QED  BY <2>1, <2>2 DEF SInv, Devices, STypeOK
<1>. QED  BY <1>1, SessionInvariant, PTL

\* Whenever nobody is between unvme_lockw and unvme_unlockw, reference counts,
\* device contexts and the log agree with the session list.
THEOREM SessionsConsistent == SSpec => []Consistent
<1>1. SInv => Consistent
  BY DEF SInv, Devices, Untouched, LogFresh, Fresh, Consistent
<1>. QED  BY <1>1, SessionInvariant, PTL

\* A device with a session has its context, a device never has two, also
\* inside the calls and after an open that was refused.
THEOREM ContextShared == SSpec => []OneContext
<1>1. SInv => OneContext
  BY DEF SInv, Devices
<1>. QED  BY <1>1, SessionInvariant, PTL

-----------------------------------------------------------------------------
\* Callers that ask for namespaces the controller has and nobody uses.  The
\* search of unvme_do_open then refuses none, whichever session it stops at.
Polite ==
  /\ \A t \in Opening : /\ req[t].nsid <= NsCount
                        /\ \A s \in SessionsOf(req[t].pci) : s.nsid # req[t].nsid
  /\ \A t, u \in Opening : req[t].pci = req[u].pci /\ req[t].nsid = req[u].nsid => t = u
  /\ NamespaceOnce

\* Steps that leave who opens what alone.
LEMMA PoliteKept ==
  ASSUME Polite, Opening' = Opening, Sessions' \subseteq Sessions,
         \A u \in Opening : req'[u].pci = req[u].pci /\ req'[u].nsid = req[u].nsid
  PROVE  Polite'
<1>1. \A p : SessionsOf(p)' \subseteq SessionsOf(p)
  BY DEF SessionsOf
<1>2. NamespaceOnce'
  BY DEF Polite, NamespaceOnce
<1>. QED  BY <1>1, <1>2 DEF Polite

LEMMA PoliteNext ==
  ASSUME Misuse = {FALSE}, SInv, Polite, [SNext]_svars
  PROVE  Polite' /\ [LNext]_lvars
<1>1. CASE UNCHANGED svars
  <2>1. UNCHANGED <<req, unvme_ses>> /\ UNCHANGED lvars
    BY <1>1 DEF svars, sesvars
  <2>2. Opening' = Opening /\ Sessions' = Sessions
    BY <2>1 DEF Opening, Sessions
  <2>. QED  BY <2>1, <2>2, PoliteKept
<1>2. ~misuse
  <2>1. misuse = FALSE
    BY DEF SInv
  <2>. QED  BY <2>1, Zenon
<1>3. ASSUME NEW t \in Threads, NEW p \in Pcis, NEW n \in 1 .. MaxNsid, unvme_do_open(t, p, n)
      PROVE  Polite' /\ UNCHANGED lvars
  <2>1. PICK r : r = [call |-> "open", pci |-> p, nsid |-> n, ses |-> 0]
    OBVIOUS
  <2>2. UNCHANGED <<lvars, unvme_ses>> /\ req' = [req EXCEPT ![t] = r] /\ req[t] = NoReq
    BY <1>3, <2>1 DEF unvme_do_open, sesvars
  <2>3. /\ n <= NsCount
        /\ \A s \in SessionsOf(p) : s.nsid # n
        /\ \A u \in Opening : ~(req[u].pci = p /\ req[u].nsid = n)
    BY <1>2, <1>3, Zenon DEF unvme_do_open
  <2>4. r.call = "open" /\ r.pci = p /\ r.nsid = n
    BY <2>1
  <2>5. /\ Opening' = Opening \cup {t} /\ t \notin Opening
        /\ \A u \in Threads : req'[u] = IF u = t THEN r ELSE req[u]
    BY <2>2, <2>4, OpeningMoves, Requests DEF Opening
  <2>6. Sessions' = Sessions /\ \A q : SessionsOf(q)' = SessionsOf(q)
    BY <2>2, SameList
  <2>7. \A u \in Opening : u \in Threads /\ u # t
    BY <2>5 DEF Opening
  <2>8. \A u \in Opening : req'[u] = req[u]
    BY <2>5, <2>7
  <2>9. req'[t] = r
    BY <2>5
  <2>10. NamespaceOnce'
    BY <2>6 DEF Polite, NamespaceOnce
  <2>11. \A u \in Opening' : /\ req'[u].nsid <= NsCount
                             /\ \A s \in SessionsOf(req'[u].pci) : s.nsid # req'[u].nsid
    BY <2>3, <2>4, <2>5, <2>8, <2>9 DEF Polite
  <2>12. \A u, v \in Opening' :
            req'[u].pci = req'[v].pci /\ req'[u].nsid = req'[v].nsid => u = v
    BY <2>3, <2>4, <2>5, <2>8, <2>9 DEF Polite
  <2>. QED  BY <2>2, <2>6, <2>10, <2>11, <2>12 DEF Polite
<1>4. ASSUME NEW t \in Threads, NEW s \in Sessions, unvme_do_close(t, s)
      PROVE  Polite' /\ UNCHANGED lvars
  <2>1. PICK r : r = [call |-> "close", pci |-> s.pci, nsid |-> s.nsid, ses |-> s.id]
    OBVIOUS
  <2>2. UNCHANGED <<lvars, unvme_ses>> /\ req' = [req EXCEPT ![t] = r] /\ req[t] = NoReq
    BY <1>4, <2>1 DEF unvme_do_close, sesvars
  <2>3. r.call \notin {"open", "create", "attach"}
    BY <2>1
  <2>4. /\ Opening' = Opening \ {t}
        /\ \A u \in Threads : req'[u] = IF u = t THEN r ELSE req[u]
    <3>1. req' = [req EXCEPT ![t] = r]
      BY <2>2
    <3>. QED  BY <2>3, <3>1, OpeningMoves
  <2>5. Opening' = Opening /\ \A u \in Opening : req'[u] = req[u]
    <3>1. t \notin Opening
      BY <2>2, Requests DEF Opening
    <3>. QED  BY <2>4, <3>1 DEF Opening
  <2>. QED  BY <2>2, <2>5, SameList, PoliteKept
<1>5. ASSUME NEW t \in Threads, TakeLock(t) PROVE Polite' /\ unvme_lockw(t)
  <2>1. UNCHANGED <<req, unvme_ses>> /\ unvme_lockw(t)
    BY <1>5 DEF TakeLock, sesvars
  <2>2. Opening' = Opening
    BY <2>1 DEF Opening
  <2>. QED  BY <2>1, <2>2, SameList, PoliteKept
\* An open that goes on asks for the same namespace.
<1>6. ASSUME NEW t \in Threads, req[t].call \in {"open", "create"}, NEW c \in {"create", "attach"},
             req' = [req EXCEPT ![t].call = c], UNCHANGED unvme_ses
      PROVE  Polite'
  <2>1. PICK r : r = [req[t] EXCEPT !.call = c]
    OBVIOUS
  <2>2. r.call = c /\ r.pci = req[t].pci /\ r.nsid = req[t].nsid
    BY <1>6, <2>1, Requests DEF Request
  <2>3. req' = [req EXCEPT ![t] = r]
    BY <1>6, <2>1 DEF SInv, Holding
  <2>4. /\ Opening' = Opening \cup {t}
        /\ \A u \in Threads : req'[u] = IF u = t THEN r ELSE req[u]
    BY <2>2, <2>3, OpeningMoves
  <2>5. Opening' = Opening /\ \A u \in Opening : u \in Threads
    BY <1>6, <2>4 DEF Opening
  <2>6. \A u \in Opening : req'[u].pci = req[u].pci /\ req'[u].nsid = req[u].nsid
    BY <2>2, <2>4, <2>5
  <2>. QED  BY <1>6, <2>5, <2>6, SameList, PoliteKept
<1>7. ASSUME NEW t \in Threads, open_search(t) PROVE Polite' /\ UNCHANGED lvars
  <2>1. PICK found : found = OnDevice(req[t].pci)
    OBVIOUS
  <2>2. req[t].call = "open" /\ UNCHANGED <<lock, unvme_ses>>
    BY <1>7 DEF open_search
  <2>3. ASSUME found # {} PROVE ~RefusedBy(unvme_ses[Min(found)], req[t].nsid)
    <3>1. found \in SUBSET Nat
      BY <2>1, SessionFacts DEF OnDevice
    <3>2. Min(found) \in found
      BY <2>3, <3>1, MinIsLeast
    <3>3. unvme_ses[Min(found)] \in SessionsOf(req[t].pci)
      BY <2>1, <3>2 DEF OnDevice, SessionsOf, Sessions, ToSet
    <3>4. t \in Opening /\ req[t].nsid \in Nat
      BY <2>2, Requests DEF Opening
    <3>. QED  BY <3>3, <3>4, NsAssumption DEF Polite, RefusedBy
  <2>4. PICK c : c = IF found = {} THEN "create" ELSE "attach"
    OBVIOUS
  <2>5. c \in {"create", "attach"} /\ req' = [req EXCEPT ![t].call = c] /\ pc' = pc
    BY <1>7, <2>1, <2>3, <2>4 DEF open_search
  <2>. QED  BY <1>6, <2>2, <2>5 DEF lvars
<1>8. ASSUME NEW t \in Threads, open_create(t) PROVE Polite' /\ UNCHANGED lvars
  <2>1. req[t].call = "create" /\ UNCHANGED <<lock, unvme_ses>>
    BY <1>8 DEF open_create
  <2>2. t \in Opening /\ req[t].nsid \in Nat
    BY <2>1, Requests DEF Opening
  <2>3. ~(req[t].nsid > NsCount)
    BY <2>2, NsAssumption DEF Polite
  <2>4. req' = [req EXCEPT ![t].call = "attach"] /\ pc' = pc
    BY <1>8, <2>3 DEF open_create
  <2>. QED  BY <1>6, <2>1, <2>4 DEF lvars
<1>9. ASSUME NEW t \in Threads, open_attach(t) PROVE Polite' /\ unvme_unlockw(t)
  <2>1. PICK s : s = [id |-> NewId, pci |-> req[t].pci, nsid |-> req[t].nsid]
    OBVIOUS
  <2>2. /\ Sessions' = Sessions \cup {s} /\ s.pci = req[t].pci /\ s.nsid = req[t].nsid
    BY <1>9, <2>1, AttachAdds
  <2>3. unvme_unlockw(t) /\ req[t].call = "attach" /\ req' = [req EXCEPT ![t] = NoReq]
    BY <1>9 DEF open_attach
  <2>4. t \in Opening
    BY <2>3 DEF Opening
  <2>5. /\ Opening' = Opening \ {t}
        /\ \A u \in Opening' : req'[u] = req[u]
    <3>1. NoReq.call \notin {"open", "create", "attach"}
      BY DEF NoReq
    <3>2. /\ Opening' = Opening \ {t}
          /\ \A u \in Threads : req'[u] = IF u = t THEN NoReq ELSE req[u]
      BY <2>3, <3>1, OpeningMoves
    <3>. QED  BY <3>2 DEF Opening
  <2>6. (\A u \in Opening : /\ req[u].nsid <= NsCount
                            /\ \A x \in SessionsOf(req[u].pci) : x.nsid # req[u].nsid)'
    <3>1. \A u \in Opening' : req'[u].nsid <= NsCount
      BY <2>5 DEF Polite
    <3>2. ASSUME NEW u \in Opening', NEW x \in Sessions', x.pci = req'[u].pci
          PROVE  x.nsid # req'[u].nsid
      <4>1. u \in Opening /\ u # t /\ req'[u] = req[u]
        BY <2>5
      <4>2. CASE x \in Sessions
        BY <3>2, <4>1, <4>2 DEF Polite, SessionsOf
      <4>3. CASE x = s
        BY <2>2, <2>4, <3>2, <4>1, <4>3 DEF Polite
      <4>. QED  BY <2>2, <4>2, <4>3
    <3>. QED  BY <3>1, <3>2 DEF SessionsOf
  <2>7. \A u, v \in Opening' :
           req'[u].pci = req'[v].pci /\ req'[u].nsid = req'[v].nsid => u = v
    BY <2>5 DEF Polite
  <2>8. \A x \in Sessions : ~(x.pci = s.pci /\ x.nsid = s.nsid)
    BY <2>2, <2>4 DEF Polite, SessionsOf
  <2>9. NamespaceOnce'
    BY <2>2, <2>8 DEF Polite, NamespaceOnce
  <2>. QED  BY <2>3, <2>6, <2>7, <2>9 DEF Polite
<1>10. ASSUME NEW t \in Threads, unvme_cleanup(t) PROVE Polite' /\ unvme_unlockw(t)
  <2>1. PICK k : k = At(req[t].ses)
    OBVIOUS
  <2>2. /\ req[t].call = "close" /\ unvme_ses' = RemoveAt(unvme_ses, k)
        /\ unvme_unlockw(t) /\ req' = [req EXCEPT ![t] = NoReq]
    BY <1>10, <2>1 DEF unvme_cleanup
  <2>3. k \in DOMAIN unvme_ses /\ unvme_ses \in Seq(SessionRec) /\ Distinct(unvme_ses)
    BY <2>1, <2>2, ClosedAt, SessionFacts DEF SInv, SessionList
  <2>4. Sessions' \subseteq Sessions
    BY <2>2, <2>3, RemoveList DEF Sessions
  <2>5. Opening' = Opening /\ \A u \in Opening : req'[u] = req[u]
    <3>1. NoReq.call \notin {"open", "create", "attach"} /\ t \notin Opening
      BY <2>2 DEF NoReq, Opening
    <3>2. /\ Opening' = Opening \ {t}
          /\ \A u \in Threads : req'[u] = IF u = t THEN NoReq ELSE req[u]
      BY <2>2, <3>1, OpeningMoves
    <3>. QED  BY <3>1, <3>2 DEF Opening
  <2>. QED  BY <2>2, <2>4, <2>5, PoliteKept
<1>11. ASSUME NEW t \in Threads, open_abort(t) PROVE Polite' /\ UNCHANGED lvars
  <2>1. UNCHANGED <<req, unvme_ses, lvars>>
    BY <1>11, Zenon DEF open_abort, sesvars
  <2>2. Opening' = Opening
    BY <2>1 DEF Opening
  <2>. QED  BY <2>1, <2>2, SameList, PoliteKept
<1>. QED
  BY <1>1, <1>3, <1>4, <1>5, <1>7, <1>8, <1>9, <1>10, <1>11 DEF SNext, InCall, LNext

LEMMA PoliteInit == SInit => Polite
<1>. SUFFICES ASSUME SInit PROVE Polite
  OBVIOUS
<1>1. Opening = {} /\ Sessions = {}
  BY DEF SInit, Opening, NoReq, Sessions, ToSet
<1>. QED  BY <1>1 DEF Polite, NamespaceOnce

\* The sessions of callers that never ask for an absent namespace or one in
\* use take and give back the lock as UnvmeLock allows: none of them returns
\* with it taken, so that what is proved of the lock holds of them.
THEOREM PoliteCallersKeepLock ==
  ASSUME Misuse = {FALSE}
  PROVE  SSpec => LSpec
<1>1. SInv /\ Polite /\ [SNext]_svars => Polite' /\ [LNext]_lvars
  BY PoliteNext
<1>2. SInit => LInit
  BY DEF SInit
<1>. QED  BY <1>1, <1>2, PoliteInit, SessionInvariant, PTL DEF SSpec, LSpec
=============================================================================
