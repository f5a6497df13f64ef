---------------------------- MODULE UnvmeMapping ----------------------------
(***************************************************************************)
(* How an I/O becomes commands: the geometry unvme_do_open and             *)
(* unvme_ns_init derive from what the controller reports, the splitting    *)
(* loop of unvme_do_rw, and the PRP entries unvme_map_prps writes for each *)
(* command.  Every command id has a page of PRP list memory; the           *)
(* controller reads it when it executes the command, long after the loop   *)
(* has gone on to other commands.                                          *)
(*                                                                         *)
(* The ring is reduced to the set of commands in flight (UnvmeQueue has    *)
(* the rings, ids and descriptors).  Sizes are scaled down: Width stands   *)
(* for the 16 bits of the unvme_ns_t fields, PrpBytes for the 8 bytes of a *)
(* PRP entry.  The controller is external.                                 *)
(***************************************************************************)
EXTENDS Integers, FiniteSets

CONSTANTS
    Geometries,     \* page and block shift and MDTS a controller may report
    Width,          \* bits of the unvme_ns_t fields and of the command's nlb
    PrpBytes,       \* size of a PRP entry
    QSize,          \* entries of the I/O queue
    MaxSize,        \* bytes of the DMA pool (MAX_SIZE)
    Bufs,           \* buffer offsets from the pool's start, some outside it
    MaxNlb,         \* bound: blocks of an I/O
    MaxMoved        \* bound: transfers seen of a loop that does not end

\* Blocks are not larger than pages, a page size fits its field and a page
\* holds a whole number of PRP entries.
ASSUME GeometryAssumption ==
    /\ Width \in Nat /\ PrpBytes \in Nat \ {0}
    /\ \A g \in Geometries :
          /\ g \in [pageshift : Nat, blockshift : Nat, mdts : Nat]
          /\ g.blockshift <= g.pageshift /\ g.pageshift < Width
          /\ 2 ^ g.pageshift % PrpBytes = 0

\* No limit on the constants but the law of powers for the shifts that occur,
\* which the provers do not know.
Shifts == 0 .. Width \cup {g.mdts : g \in Geometries}
ASSUME PowerAssumption ==
    \A m \in Shifts : 2 ^ m \in Nat \ {0} /\ \A n \in 0 .. m : 2 ^ m = 2 ^ n * 2 ^ (m - n)

ASSUME BoundsAssumption ==
    MaxSize \in Nat /\ Bufs \subseteq Int /\ MaxNlb \in Nat /\ MaxMoved \in Nat
ASSUME QSizeAssumption == QSize \in Nat /\ QSize >= 2

VARIABLES
    ns,             \* geometry of the open namespace
    op,             \* "idle", "rw" (in the loop), "poll", "done", "abort"
    io,             \* the I/O as the application asked for it
    buf, slba, nlb, \* unvme_do_rw's running arguments
    used,           \* command ids in use
    fly,            \* commands submitted and not executed
    prplist,        \* PRP list memory of the queue, an entry per index
    moved,          \* block transfers the controller made: <<lba, address>>
    count           \* ... and how many they were

mvars == <<ns, op, io, buf, slba, nlb, used, fly, prplist, moved, count>>

Cids == 0 .. (QSize - 1)
vemva == 2 ^ Width              \* the pool in the process
pci_vhsaa == 100 * 2 ^ Width    \* the pool on the bus
ListAddr == 200 * 2 ^ Width     \* the PRP list memory on the bus
FirstLba == 7                   \* where on the namespace the I/O starts
Shl(a, s) == a * 2 ^ s

-----------------------------------------------------------------------------
\* unvme_do_open: at most one PRP list page of pages per I/O, and no more
\* than the controller takes (0 is no limit).
MaxPpio_NoMdts(g) == Shl(1, g.pageshift) \div PrpBytes
MaxPpio_ZeroMdts(g) == IF Shl(1, g.mdts) \div 2 < MaxPpio_NoMdts(g)
                       THEN Shl(1, g.mdts) \div 2 ELSE MaxPpio_NoMdts(g)
MaxPpio(g) ==
    LET list == Shl(1, g.pageshift) \div PrpBytes
        mp == Shl(2, g.mdts - 1)
    IN  IF g.mdts # 0 /\ list > mp THEN mp ELSE list

\* unvme_ns_init: the fields wrap at their width.
unvme_ns_init(g) ==
    [pageshift  |-> g.pageshift, blockshift |-> g.blockshift, mdts |-> g.mdts,
     pagesize   |-> Shl(1, g.pageshift) % 2 ^ Width,
     maxppio    |-> MaxPpio(g),
     maxbpio    |-> Shl(MaxPpio(g), g.pageshift - g.blockshift) % 2 ^ Width]
Wraps == Shl(ns.maxppio, ns.pageshift - ns.blockshift) >= 2 ^ Width

PrpsPerPage == ns.pagesize \div PrpBytes
Bytes(n) == Shl(n, ns.blockshift)

MInit ==
    /\ \E g \in Geometries : ns = unvme_ns_init(g)
    /\ op = "idle"
    /\ io = [buf |-> 0, slba |-> 0, nlb |-> 0]
    /\ buf = 0 /\ slba = 0 /\ nlb = 0
    /\ used = {} /\ fly = {} /\ moved = {} /\ count = 0
    /\ prplist = [i \in 0 .. (QSize * PrpsPerPage - 1) |-> 0]

\* aurora_resolve_addr: the process ends when the buffer is not in the pool.
InPool(b) == vemva <= b /\ b - vemva <= MaxSize
aurora_resolve_addr(b) == pci_vhsaa + (b - vemva)

-----------------------------------------------------------------------------
\* The application's part: a buffer from unvme_alloc holds the whole I/O, and
\* starts a page unless the I/O lies within one.  A buffer from elsewhere is
\* let in to see it refused.
FromAlloc(off, bytes) ==
    /\ off >= 0 /\ off + bytes <= MaxSize
    /\ off % ns.pagesize = 0 \/ (off % ns.pagesize) + bytes <= ns.pagesize
unvme_do_rw(off, n) ==
    /\ op = "idle"
    /\ FromAlloc(off, Bytes(n)) \/ ~InPool(vemva + off)
    /\ op' = "rw"
    /\ io' = [buf |-> vemva + off, slba |-> FirstLba, nlb |-> n]
    /\ buf' = vemva + off /\ slba' = FirstLba /\ nlb' = n
    /\ UNCHANGED <<ns, used, fly, prplist, moved, count>>

\* unvme_map_prps: PRP1 is the buffer, PRP2 its second page or, for more than
\* two pages, the list page of the command's id.
PrpOffset_Shared(c) == 0
PrpOffset(c) == Shl(c, ns.pageshift)
NumPages(bufsz) == (bufsz + ns.pagesize - 1) \div Shl(1, ns.pageshift)
Prp2(c, addr, bufsz) ==
    IF NumPages(bufsz) < 2 THEN 0
    ELSE IF NumPages(bufsz) = 2 THEN addr + ns.pagesize
    ELSE ListAddr + PrpOffset(c)
ListWith(c, addr, bufsz) ==
    LET first == PrpOffset(c) \div PrpBytes
    IN  [i \in DOMAIN prplist |->
            IF NumPages(bufsz) > 2 /\ i >= first /\ i < first + NumPages(bufsz) - 1
            THEN addr + (i - first + 1) * ns.pagesize
            ELSE prplist[i]]

\* One turn of unvme_do_rw's loop: unvme_submit_io takes an id, maps the
\* chunk and submits it with nvme_cmd_rw, which stores nlb - 1.  A block
\* limit that wrapped to 0 makes empty chunks: every turn submits a command
\* whose block count wraps to the largest and the loop does not advance, for
\* ever; MaxMoved ends what is followed of it.
Chunk_Whole == ns.maxbpio
Chunk == IF ns.maxbpio > nlb THEN nlb ELSE ns.maxbpio
unvme_submit_io(c) ==
    /\ op = "rw" /\ nlb > 0
    /\ Chunk > 0 \/ count < MaxMoved
    /\ InPool(buf)
    /\ c \in Cids \ used /\ Cardinality(used) + 1 < QSize
    /\ LET addr == aurora_resolve_addr(buf)
           bufsz == Bytes(Chunk)
       IN  /\ prplist' = ListWith(c, addr, bufsz)
           /\ fly' = fly \cup {[cid |-> c, slba |-> slba, nlb |-> (Chunk - 1) % 2 ^ Width,
                                prp1 |-> addr, prp2 |-> Prp2(c, addr, bufsz)]}
    /\ used' = used \cup {c}
    /\ buf' = buf + Bytes(Chunk)
    /\ slba' = slba + Chunk
    /\ nlb' = nlb - Chunk
    /\ UNCHANGED <<ns, op, io, moved, count>>

\* The process aborts on a foreign buffer.
do_rw_abort ==
    /\ op = "rw" /\ nlb > 0 /\ ~InPool(buf)
    /\ op' = "abort"
    /\ UNCHANGED <<ns, io, buf, slba, nlb, used, fly, prplist, moved, count>>

\* A completion is reaped, by the poll or because the queue is full: the id
\* is free again.
StillUsed_Leak(c) == used
StillUsed(c) == used \ {c}
unvme_check_completion(c) ==
    /\ (op = "rw" /\ nlb > 0 /\ Cardinality(used) + 1 = QSize) \/ op = "poll"
    /\ c \in used /\ \A f \in fly : f.cid # c
    /\ used' = StillUsed(c)
    /\ UNCHANGED <<ns, op, io, buf, slba, nlb, fly, prplist, moved, count>>
do_rw_return ==
    /\ \/ op = "rw" /\ nlb = 0 /\ op' = "poll"
       \/ op = "poll" /\ used = {} /\ op' = "done"
    /\ UNCHANGED <<ns, io, buf, slba, nlb, used, fly, prplist, moved, count>>

\* The controller executes a command: it finds the pages of the transfer in
\* PRP1 and PRP2, reading the list now.  A PRP2 that points at no list gives
\* it addresses that are not the I/O's: 0 stands for them.
ListEntry(i) == IF i \in DOMAIN prplist THEN prplist[i] ELSE 0
PageOf(f, k, last) ==
    IF k = 0 THEN f.prp1 - (f.prp1 % ns.pagesize)
    ELSE IF last = 1 THEN f.prp2
    ELSE ListEntry((f.prp2 - ListAddr) \div PrpBytes + k - 1)
Transfers(f) ==
    LET start == f.prp1 % ns.pagesize
        last == (start + Bytes(f.nlb + 1) - 1) \div ns.pagesize
        at(i) == start + Bytes(i)
    IN  {<<f.slba + i, PageOf(f, at(i) \div ns.pagesize, last) + (at(i) % ns.pagesize)>> :
            i \in 0 .. f.nlb}
Execute(f) ==
    /\ f \in fly
    /\ fly' = fly \ {f}
    /\ moved' = moved \cup Transfers(f)
    /\ count' = count + f.nlb + 1
    /\ UNCHANGED <<ns, op, io, buf, slba, nlb, used, prplist>>

-----------------------------------------------------------------------------
HostStep ==
    \/ \E c \in Cids : unvme_submit_io(c) \/ unvme_check_completion(c)
    \/ do_rw_abort
    \/ do_rw_return
DeviceStep == \E f \in fly : Execute(f)
MNext ==
    \/ \E off \in Bufs, n \in 0 .. MaxNlb : unvme_do_rw(off, n)
    \/ HostStep
    \/ DeviceStep

MSpec == MInit /\ [][MNext]_mvars

\* The thread runs and the controller works on what it has.
MFairSpec == MSpec /\ WF_mvars(HostStep) /\ WF_mvars(DeviceStep)

-----------------------------------------------------------------------------
\* Every variable has its type: the running block count never goes below 0.
MTypeOK ==
    /\ op \in {"idle", "rw", "poll", "done", "abort"}
    /\ nlb \in 0 .. MaxNlb /\ used \subseteq Cids
    /\ \A f \in fly : f.cid \in used /\ f.nlb \in 0 .. (2 ^ Width - 1)

\* The transfers the application asked for: block i of the I/O between its
\* lba and its place in the buffer.
Wanted == {<<io.slba + i, pci_vhsaa + (io.buf - vemva) + Bytes(i)>> : i \in 0 .. (io.nlb - 1)}

\* For every geometry whose block limit fits its field, and whatever the
\* splitting and the order in which the controller executes the commands, it
\* touches no memory but the I/O's own, moves every block to or from its own
\* place, and each exactly once.
TransferExact ==
    ~Wraps =>
        /\ moved \subseteq Wanted
        /\ count = Cardinality(moved)
        /\ op = "done" => moved = Wanted

\* No command is larger than the controller said it would take, those of a
\* wrapped block limit included.
WithinMdts ==
    ns.mdts # 0 =>
        \A f \in fly : Bytes(f.nlb + 1) <= Shl(ns.pagesize, ns.mdts)

\* The call and its poll come back, for every geometry whose block limit fits
\* its field; for the others the loop does not advance.
RwUnderWay == op \in {"rw", "poll"} /\ ~Wraps
RwEnds == RwUnderWay ~> op \in {"done", "abort"}
=============================================================================
