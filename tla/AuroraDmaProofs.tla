-------------------------- MODULE AuroraDmaProofs --------------------------
(***************************************************************************)
(* What AuroraDma promises, for any number of processes and addresses.     *)
(*                                                                         *)
(* The invariants need to know what the log and the firmware agree on at   *)
(* each step of the one process that has the device (Progress), and that   *)
(* there is one at most (OneAtATime).                                      *)
(***************************************************************************)
EXTENDS AuroraDma, TLAPS

Places == Idle \cup Releasing \cup {"register", "append", "map", "open"}

Types ==
    /\ pc \in [Procs -> Places]
    /\ pci_vhsaa \in [Procs -> Addrs \cup {NoAddr}]
    /\ log \in Seq(Addrs) /\ todo \in Seq(Addrs)
    /\ registered \subseteq Addrs /\ lost \subseteq registered

OneAtATime == \A p, q \in Procs : pc[p] \notin Idle /\ pc[q] \notin Idle => p = q

\* What is registered and not lost, by where the process is: it has still to
\* be read from the log, there is nothing, or it is the process' own pool.
Progress ==
    \A p \in Procs :
        /\ pc[p] \in Releasing => registered \ lost \subseteq ToSet(todo)
        /\ pc[p] = "register" => registered \ lost = {} /\ log = <<>>
        /\ pc[p] = "append" => registered \ lost = {pci_vhsaa[p]} /\ log = <<>>

DInv == Types /\ OneAtATime /\ Progress /\ PoolRegistered /\ NothingElseLost

-----------------------------------------------------------------------------
\* The entries of a log are the next one and the rest.
LEMMA SetOfTail ==
    ASSUME NEW S, NEW s \in Seq(S), s # <<>>
    PROVE  /\ Head(s) \in S /\ Tail(s) \in Seq(S)
           /\ ToSet(s) \subseteq {Head(s)} \cup ToSet(Tail(s))
<1>1. Head(s) \in S /\ Tail(s) \in Seq(S)
  OBVIOUS
<1>2. ASSUME NEW i \in DOMAIN s PROVE s[i] \in {Head(s)} \cup ToSet(Tail(s))
  <2>1. CASE i = 1
    BY <2>1
  <2>2. CASE i # 1
    <3>1. i - 1 \in DOMAIN Tail(s) /\ Tail(s)[i - 1] = s[i]
      BY <1>2, <2>2
    <3>. QED  BY <3>1 DEF ToSet
  <2>. QED  BY <2>1, <2>2
<1>. QED  BY <1>1, <1>2 DEF ToSet

LEMMA SetOfShort ==
    /\ ToSet(<<>>) = {}
    /\ \A a : ToSet(<<a>>) = {a}
  BY DEF ToSet

\* Where the processes are after one of them has moved.
LEMMA Moved ==
    ASSUME Types, NEW p \in Procs, NEW l \in Places, Goto(p, l)
    PROVE  /\ pc' \in [Procs -> Places]
           /\ pc'[p] = l
           /\ \A q \in Procs : q # p => pc'[q] = pc[q]
  BY DEF Types, Goto

\* While one process has the device the others are idle.
LEMMA OthersIdle ==
    ASSUME OneAtATime, NEW p \in Procs, pc[p] \notin Idle
    PROVE  \A q \in Procs : q # p => pc[q] \in Idle
  BY DEF OneAtATime

\* A process that moves on, or starts when nobody has the device, stays alone.
LEMMA StaysAlone ==
    ASSUME NEW p \in Procs,
           \A q \in Procs : q # p => pc[q] \in Idle,
           \A q \in Procs : q # p => pc'[q] = pc[q]
    PROVE  OneAtATime'
  BY DEF OneAtATime

-----------------------------------------------------------------------------
LEMMA InitInv == DInit => DInv
<1>. SUFFICES ASSUME DInit PROVE DInv
  OBVIOUS
<1>. USE DEF DInit
<1>1. Types
  BY DEF Types, Places, Idle
<1>2. OneAtATime /\ Progress /\ PoolRegistered
  BY DEF OneAtATime, Progress, PoolRegistered, Idle, Releasing
<1>3. NothingElseLost
  BY DEF NothingElseLost
<1>. QED  BY <1>1, <1>2, <1>3 DEF DInv

LEMMA CreateInv ==
    ASSUME DInv, NEW p \in Procs, vfio_create(p)
    PROVE  DInv'
<1>. USE DEF DInv, vfio_create
<1>1. Types' /\ pc'[p] = "init_release" /\ \A q \in Procs : q # p => pc'[q] = pc[q]
  <2>1. "init_release" \in Places
    BY DEF Places, Releasing
  <2>. QED  BY <2>1, Moved DEF Types
<1>2. \A q \in Procs : pc[q] \in Idle
  BY DEF Alone
<1>3. OneAtATime'
  BY <1>1, <1>2, StaysAlone
<1>4. registered \ lost \subseteq ToSet(log)
  BY <1>2 DEF NothingElseLost, InHand, Idle
<1>5. \A q \in Procs : pc'[q] \notin {"register", "append", "map", "open"}
  BY <1>1, <1>2 DEF Idle
<1>6. Progress' /\ PoolRegistered'
  BY <1>4, <1>5 DEF Progress, PoolRegistered
<1>7. NothingElseLost'
  BY <1>4 DEF NothingElseLost
<1>. QED  BY <1>1, <1>3, <1>6, <1>7

LEMMA EntryInv ==
    ASSUME DInv, NEW p \in Procs, vhsa_release_entry(p)
    PROVE  DInv'
<1>. USE DEF DInv
<1>1. /\ pc[p] \in Releasing /\ todo # <<>>
      /\ todo' = Tail(todo) /\ pc' = pc /\ pci_vhsaa' = pci_vhsaa /\ log' = log
  BY DEF vhsa_release_entry
<1>2. /\ Head(todo) \in Addrs /\ Tail(todo) \in Seq(Addrs)
      /\ ToSet(todo) \subseteq {Head(todo)} \cup ToSet(Tail(todo))
  BY <1>1, SetOfTail DEF Types
<1>3. /\ registered' \subseteq registered /\ lost' \subseteq registered'
      /\ registered' \ lost' = (registered \ lost) \ {Head(todo)}
  BY DEF vhsa_release_entry, Types
<1>4. Types'
  BY <1>1, <1>2, <1>3 DEF Types
<1>5. OneAtATime'
  BY <1>1 DEF OneAtATime
<1>6. \A q \in Procs : pc[q] \notin {"register", "append", "map", "open"}
  <2>1. pc[p] \notin Idle
    BY <1>1 DEF Releasing, Idle
  <2>. QED  BY <1>1, <2>1, OthersIdle DEF Releasing, Idle
<1>7. registered \ lost \subseteq ToSet(todo)
  BY <1>1 DEF Progress
<1>8. Progress' /\ PoolRegistered'
  BY <1>1, <1>2, <1>3, <1>6, <1>7 DEF Progress, PoolRegistered
<1>9. NothingElseLost'
  BY <1>1, <1>3, <1>6 DEF NothingElseLost, InHand
<1>. QED  BY <1>4, <1>5, <1>8, <1>9

LEMMA TruncateInv ==
    ASSUME DInv, NEW p \in Procs, vhsa_release_truncate(p)
    PROVE  DInv'
<1>. USE DEF DInv
<1>1. /\ pc[p] \in Releasing /\ todo = <<>> /\ log' = <<>>
      /\ pci_vhsaa' = pci_vhsaa /\ todo' = todo
      /\ registered' = registered /\ lost' = lost
  BY DEF vhsa_release_truncate, AllRead
<1>2. registered \ lost = {}
  BY <1>1, SetOfShort DEF Progress
<1>3. PICK l \in {"register", "off"} : Goto(p, l)
  BY DEF vhsa_release_truncate
<1>4. pc' \in [Procs -> Places] /\ pc'[p] = l /\ \A q \in Procs : q # p => pc'[q] = pc[q]
  <2>1. l \in Places
    BY <1>3 DEF Places, Idle
  <2>. QED  BY <1>3, <2>1, Moved
<1>5. \A q \in Procs : q # p => pc[q] \in Idle
  <2>1. pc[p] \notin Idle
    BY <1>1 DEF Releasing, Idle
  <2>. QED  BY <2>1, OthersIdle
<1>6. Types'
  BY <1>1, <1>4 DEF Types
<1>7. OneAtATime'
  BY <1>4, <1>5, StaysAlone
<1>8. \A q \in Procs : pc'[q] \notin Releasing \cup {"append", "map", "open"}
  BY <1>3, <1>4, <1>5 DEF Idle, Releasing
<1>9. Progress' /\ PoolRegistered'
  BY <1>1, <1>2, <1>8 DEF Progress, PoolRegistered
<1>10. NothingElseLost'
  BY <1>1, <1>2 DEF NothingElseLost
<1>. QED  BY <1>6, <1>7, <1>9, <1>10

LEMMA RegisterInv ==
    ASSUME DInv, NEW p \in Procs, NEW a \in Addrs \cup {Failed}, aurora_init_register(p, a)
    PROVE  DInv'
<1>. USE DEF DInv
<1>1. /\ pc[p] = "register" /\ a \notin registered /\ a \in Addrs
      /\ registered' = registered \cup {a}
      /\ pci_vhsaa' = [pci_vhsaa EXCEPT ![p] = a]
      /\ Goto(p, "append")
      /\ todo' = todo /\ log' = log /\ lost' = lost
  BY DEF aurora_init_register, Usable
<1>2. pc' \in [Procs -> Places] /\ pc'[p] = "append" /\ \A q \in Procs : q # p => pc'[q] = pc[q]
  <2>1. "append" \in Places
    BY DEF Places
  <2>. QED  BY <1>1, <2>1, Moved
<1>3. \A q \in Procs : q # p => pc[q] \in Idle
  <2>1. pc[p] \notin Idle
    BY <1>1 DEF Idle
  <2>. QED  BY <2>1, OthersIdle
<1>4. Types' /\ pci_vhsaa'[p] = a
  BY <1>1, <1>2 DEF Types
<1>5. OneAtATime'
  BY <1>2, <1>3, StaysAlone
<1>6. registered' \ lost' = {a} /\ log' = <<>>
  BY <1>1 DEF Progress, Types
<1>7. \A q \in Procs : pc'[q] \notin Releasing \cup {"register", "map", "open"}
                       /\ (pc'[q] = "append" => q = p)
  BY <1>2, <1>3 DEF Idle, Releasing
<1>8. Progress' /\ PoolRegistered'
  BY <1>4, <1>6, <1>7 DEF Progress, PoolRegistered
<1>9. NothingElseLost'
  <2>1. InHand(p)' = {a}
    BY <1>2, <1>4 DEF InHand
  <2>. QED  BY <1>6, <2>1 DEF NothingElseLost
<1>. QED  BY <1>4, <1>5, <1>8, <1>9

LEMMA AppendInv ==
    ASSUME DInv, NEW p \in Procs, aurora_init_append(p)
    PROVE  DInv'
<1>. USE DEF DInv
<1>1. /\ pc[p] = "append" /\ log' = Append(log, pci_vhsaa[p]) /\ Goto(p, "map")
      /\ pci_vhsaa' = pci_vhsaa /\ todo' = todo
      /\ registered' = registered /\ lost' = lost
  BY DEF aurora_init_append, NewLog
<1>2. pc' \in [Procs -> Places] /\ pc'[p] = "map" /\ \A q \in Procs : q # p => pc'[q] = pc[q]
  <2>1. "map" \in Places
    BY DEF Places
  <2>. QED  BY <1>1, <2>1, Moved
<1>3. \A q \in Procs : q # p => pc[q] \in Idle
  <2>1. pc[p] \notin Idle
    BY <1>1 DEF Idle
  <2>. QED  BY <2>1, OthersIdle
<1>4. registered \ lost = {pci_vhsaa[p]} /\ log = <<>>
  BY <1>1 DEF Progress
<1>5. log' = <<pci_vhsaa[p]>> /\ pci_vhsaa[p] \in Addrs
  BY <1>1, <1>4 DEF Types
<1>6. Types'
  BY <1>1, <1>2, <1>5 DEF Types
<1>7. OneAtATime'
  BY <1>2, <1>3, StaysAlone
<1>8. \A q \in Procs : pc'[q] \notin Releasing \cup {"register", "append", "open"}
                       /\ (pc'[q] = "map" => q = p)
  BY <1>2, <1>3 DEF Idle, Releasing
<1>9. Progress' /\ PoolRegistered'
  BY <1>1, <1>4, <1>5, <1>8 DEF Progress, PoolRegistered
<1>10. NothingElseLost'
  BY <1>1, <1>4, <1>5, SetOfShort DEF NothingElseLost
<1>. QED  BY <1>6, <1>7, <1>9, <1>10

LEMMA MapInv ==
    ASSUME DInv, NEW p \in Procs, aurora_map(p)
    PROVE  DInv'
<1>. USE DEF DInv
<1>1. /\ pc[p] = "map" /\ Goto(p, "open") /\ log' = log
      /\ pci_vhsaa' = pci_vhsaa /\ todo' = todo
      /\ registered' = registered /\ lost' = lost
  BY DEF aurora_map
<1>2. pc' \in [Procs -> Places] /\ pc'[p] = "open" /\ \A q \in Procs : q # p => pc'[q] = pc[q]
  <2>1. "open" \in Places
    BY DEF Places
  <2>. QED  BY <1>1, <2>1, Moved
<1>3. \A q \in Procs : q # p => pc[q] \in Idle
  <2>1. pc[p] \notin Idle
    BY <1>1 DEF Idle
  <2>. QED  BY <2>1, OthersIdle
<1>4. Types'
  BY <1>1, <1>2 DEF Types
<1>5. OneAtATime'
  BY <1>2, <1>3, StaysAlone
<1>6. \A q \in Procs : pc'[q] \notin Releasing \cup {"register", "append", "map"}
                       /\ (pc'[q] = "open" => q = p)
  BY <1>2, <1>3 DEF Idle, Releasing
<1>7. registered \ lost = {pci_vhsaa[p]} /\ log = <<pci_vhsaa[p]>>
  BY <1>1 DEF PoolRegistered
<1>8. Progress' /\ PoolRegistered'
  BY <1>1, <1>6, <1>7 DEF Progress, PoolRegistered
<1>9. NothingElseLost'
  BY <1>1, <1>7, SetOfShort DEF NothingElseLost
<1>. QED  BY <1>4, <1>5, <1>8, <1>9

LEMMA ReleaseInv ==
    ASSUME DInv, NEW p \in Procs, vfio_delete(p)
    PROVE  DInv'
<1>. USE DEF DInv
<1>1. /\ pc[p] = "open" /\ Goto(p, "exit_release") /\ log' = log
      /\ pci_vhsaa' = [pci_vhsaa EXCEPT ![p] = NoAddr] /\ todo' = log
      /\ registered' = registered /\ lost' = lost
  BY DEF vfio_delete, aurora_release
<1>2. /\ pc' \in [Procs -> Places] /\ pc'[p] = "exit_release"
      /\ \A q \in Procs : q # p => pc'[q] = pc[q]
  <2>1. "exit_release" \in Places
    BY DEF Places, Releasing
  <2>. QED  BY <1>1, <2>1, Moved
<1>3. \A q \in Procs : q # p => pc[q] \in Idle
  <2>1. pc[p] \notin Idle
    BY <1>1 DEF Idle
  <2>. QED  BY <2>1, OthersIdle
<1>4. Types'
  BY <1>1, <1>2 DEF Types
<1>5. OneAtATime'
  BY <1>2, <1>3, StaysAlone
<1>6. \A q \in Procs : pc'[q] \notin {"register", "append", "map", "open"}
  BY <1>2, <1>3 DEF Idle
<1>7. registered \ lost \subseteq ToSet(log)
  BY <1>1, SetOfShort DEF PoolRegistered
<1>8. Progress' /\ PoolRegistered'
  BY <1>1, <1>6, <1>7 DEF Progress, PoolRegistered
<1>9. NothingElseLost'
  BY <1>1, <1>7 DEF NothingElseLost
<1>. QED  BY <1>4, <1>5, <1>8, <1>9

LEMMA CrashInv ==
    ASSUME DInv, NEW p \in Procs, crash(p)
    PROVE  DInv'
<1>. USE DEF DInv
<1>1. /\ pc[p] \notin Idle /\ Goto(p, "dead") /\ log' = log
      /\ pci_vhsaa' = [pci_vhsaa EXCEPT ![p] = NoAddr] /\ todo' = <<>>
      /\ registered' = registered /\ lost' = lost \cup InHand(p)
  BY DEF crash
<1>2. pc' \in [Procs -> Places] /\ pc'[p] = "dead" /\ \A q \in Procs : q # p => pc'[q] = pc[q]
  <2>1. "dead" \in Places
    BY DEF Places, Idle
  <2>. QED  BY <1>1, <2>1, Moved
<1>3. \A q \in Procs : q # p => pc[q] \in Idle
  BY <1>1, OthersIdle
<1>4. InHand(p) \subseteq registered
  BY DEF InHand, Progress
<1>5. Types'
  <2>1. pci_vhsaa' \in [Procs -> Addrs \cup {NoAddr}]
    BY <1>1 DEF Types
  <2>2. todo' \in Seq(Addrs)
    BY <1>1
  <2>3. registered' \subseteq Addrs /\ lost' \subseteq registered' /\ log' \in Seq(Addrs)
    BY <1>1, <1>4 DEF Types
  <2>. QED  BY <1>2, <2>1, <2>2, <2>3 DEF Types
<1>6. OneAtATime'
  BY <1>2, <1>3, StaysAlone
<1>7. \A q \in Procs : pc'[q] \in Idle
  BY <1>2, <1>3 DEF Idle
<1>8. Progress' /\ PoolRegistered'
  BY <1>7 DEF Progress, PoolRegistered, Idle, Releasing
<1>9. NothingElseLost'
  <2>1. \A q \in Procs : q # p => InHand(q) = {}
    BY <1>3 DEF InHand, Idle
  <2>2. registered \ lost \subseteq ToSet(log) \cup InHand(p)
    BY <2>1 DEF NothingElseLost
  <2>. QED  BY <1>1, <2>2 DEF NothingElseLost
<1>. QED  BY <1>5, <1>6, <1>8, <1>9

LEMMA NextInv == DInv /\ [DNext]_dvars => DInv'
<1>. SUFFICES ASSUME DInv, [DNext]_dvars PROVE DInv'
  OBVIOUS
<1>1. CASE DNext
  BY <1>1, CreateInv, EntryInv, TruncateInv, RegisterInv, AppendInv, MapInv,
     ReleaseInv, CrashInv DEF DNext
<1>2. CASE UNCHANGED dvars
  BY <1>2 DEF dvars, DInv, Types, OneAtATime, Progress, PoolRegistered,
              NothingElseLost, InHand
<1>. QED  BY <1>1, <1>2

\* However many processes open the device one after the other, and wherever
\* they die, the invariant DInv of vhsa_release, aurora_init and
\* aurora_release holds.
THEOREM RegistrationInvariant == DSpec => []DInv
<1>1. DInit => DInv
  BY InitInv
<1>2. DInv /\ [DNext]_dvars => DInv'
  BY NextInv
<1>. QED  BY <1>1, <1>2, PTL DEF DSpec

\* The variables of AuroraDma keep their types; in particular the -1 that
\* ve_register_mem_to_pci returns for an error never reaches the log.
THEOREM RegistrationTypes == DSpec => []DTypeOK
<1>1. DInv => DTypeOK
  BY DEF DInv, Types, Places, DTypeOK, ToSet
<1>. QED  BY <1>1, RegistrationInvariant, PTL

\* After aurora_init the pool is registered and alone in the log, and but for
\* the lost ones no other registration is left.
THEOREM OpenPoolRegistered == DSpec => []PoolRegistered
<1>1. DInv => PoolRegistered
  BY DEF DInv
<1>. QED  BY <1>1, RegistrationInvariant, PTL

\* The log names all that is registered, but for what a crash or a failed
\* unregister lost: vhsa_release of the next process finds the rest.
THEOREM LogComplete == DSpec => []NothingElseLost
<1>1. DInv => NothingElseLost
  BY DEF DInv
<1>. QED  BY <1>1, RegistrationInvariant, PTL
=============================================================================
