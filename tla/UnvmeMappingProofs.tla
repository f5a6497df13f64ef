------------------------- MODULE UnvmeMappingProofs -------------------------
(***************************************************************************)
(* Proofs about UnvmeMapping for every geometry, queue size and buffer:    *)
(* the splitting and the PRP entries move exactly the blocks of the I/O,   *)
(* each once, in whatever order the controller executes the commands.      *)
(***************************************************************************)
EXTENDS UnvmeMapping, ListLemmas

\* The geometry is one that unvme_ns_init derived.
NsFromGeometry == \E g \in Geometries : ns = unvme_ns_init(g)

\* A transfer that starts off bytes into the pool starts a page or lies
\* within one.
OnPages(off, bytes) ==
    off % ns.pagesize = 0 \/ (off % ns.pagesize) + bytes <= ns.pagesize

\* Bus address of the I/O's block with address l, and its transfer.
AddrOf(l) == pci_vhsaa + (io.buf - vemva) + Bytes(l - io.slba)
Place(l) == <<l, AddrOf(l)>>

\* The blocks of a command, the pages it needs, and where in the PRP list
\* memory the page of an id starts.
LbasOf(f) == f.slba .. (f.slba + f.nlb)
PagesOf(f) == NumPages(Bytes(f.nlb + 1))
FirstEntry(c) == PrpOffset(c) \div PrpBytes

MVarsOK ==
    /\ op \in {"idle", "rw", "poll", "done", "abort"}
    /\ io \in [buf : Int, slba : Int, nlb : Nat]
    /\ buf \in Int /\ slba \in Int /\ nlb \in 0 .. MaxNlb
    /\ used \subseteq Cids
    /\ fly \subseteq [cid : used, slba : Int, nlb : 0 .. (2 ^ Width - 1),
                      prp1 : Int, prp2 : Int]
    /\ prplist \in [0 .. (QSize * PrpsPerPage - 1) -> Int]
    /\ count \in Nat /\ IsFiniteSet(moved)

\* The loop's running arguments are the I/O's, less what has been submitted.
Running ==
    /\ nlb <= io.nlb
    /\ slba = io.slba + (io.nlb - nlb)
    /\ buf = io.buf + Bytes(io.nlb - nlb)
    /\ op = "rw" /\ nlb > 0 => OnPages(buf - vemva, Bytes(nlb)) \/ ~InPool(buf)
    /\ op \in {"poll", "done"} => nlb = 0
    /\ op = "idle" => io.nlb = 0 /\ moved = {} /\ fly = {}
    /\ op = "done" => used = {}

\* A command in flight is for blocks already passed by the loop, at their
\* places, no larger than the limit, and its PRP entries are those that
\* unvme_map_prps wrote for it.
CommandOK(f) ==
    /\ LbasOf(f) \subseteq io.slba .. (slba - 1)
    /\ f.nlb + 1 <= ns.maxbpio
    /\ f.prp1 = AddrOf(f.slba)
    /\ OnPages(f.prp1, Bytes(f.nlb + 1))
    /\ f.prp2 = Prp2(f.cid, f.prp1, Bytes(f.nlb + 1))
    /\ PagesOf(f) > 2 => \A k \in 1 .. (PagesOf(f) - 1) :
          /\ FirstEntry(f.cid) + k - 1 \in DOMAIN prplist
          /\ prplist[FirstEntry(f.cid) + k - 1] = f.prp1 + k * ns.pagesize

\* Two commands in flight have different ids and no block in common.
Apart(f, g) == f.cid # g.cid /\ LbasOf(f) \cap LbasOf(g) = {}

\* Every block the loop has passed is in flight or moved, never both.
Accounted ==
    /\ \A m \in moved : \E l \in io.slba .. (slba - 1) :
          m = Place(l) /\ \A f \in fly : l \notin LbasOf(f)
    /\ \A l \in io.slba .. (slba - 1) :
          Place(l) \in moved \/ \E f \in fly : l \in LbasOf(f)
    /\ count = Cardinality(moved)

\* The invariant of a namespace whose block limit is not 0 ...
Advancing ==
    /\ NsFromGeometry /\ ns.maxbpio # 0
    /\ MVarsOK
    /\ Running
    /\ \A f \in fly : CommandOK(f)
    /\ \A f, g \in fly : f # g => Apart(f, g)
    /\ Accounted

\* ... and of one whose block limit wrapped to 0: the loop stays where it
\* began and its commands are for the most blocks their field can say.
Spinning ==
    /\ NsFromGeometry /\ ns.maxbpio = 0
    /\ MVarsOK
    /\ nlb = io.nlb /\ slba = io.slba /\ buf = io.buf
    /\ \A f \in fly : f.slba = io.slba /\ f.nlb = 2 ^ Width - 1 /\ f.prp2 = 0
    /\ op = "idle" => fly = {}

MInv == Advancing \/ Spinning

-----------------------------------------------------------------------------
\* The remainder of a multiple of k by a multiple of k is one.
LEMMA MultipleKept ==
  ASSUME NEW a \in Nat, NEW k \in Nat \ {0}, NEW m \in Nat \ {0}
  PROVE  \E j \in Nat : (a * k) % (k * m) = k * j /\ k * j <= a * k /\ k * j < k * m
<1> DEFINE q == a \div m
           j == a % m
<1>1. q \in Int /\ j \in 0 .. (m - 1) /\ a = m * q + j
  BY Division
<1>0. q >= 0
  <2>1. CASE q <= -1
    <3>1. m * q <= -m
      BY <2>1, <1>1
    <3> QED
      BY <3>1, <1>1
  <2> QED
    BY <2>1, <1>1
<1> HIDE DEF q, j
<1>2. a * k = (k * m) * q + k * j
  BY <1>1
<1>3. k * j \in Nat /\ k * j < k * m /\ k * m \in Nat \ {0}
  <2>1. (j + 1) * k <= m * k
    <3>1. j + 1 \in Nat /\ j + 1 <= m
      BY <1>1
    <3> QED
      BY <3>1, ProductOrder
  <2> QED
    BY <2>1, <1>1
<1>4. (a * k) % (k * m) = k * j
  <2> DEFINE x == a * k
             p == k * m
             r == k * j
  <2>1. x \in Int /\ p \in Nat \ {0} /\ r \in 0 .. (p - 1) /\ x = p * q + r /\ q \in Int
    BY <1>1, <1>2, <1>3
  <2> HIDE DEF x, p, r
  <2>2. x % p = r
    BY <2>1, DivisionOf
  <2> QED
    BY <2>2 DEF x, p, r
<1>5. k * j <= a * k
  <2>1. m * q >= 0
    BY <1>0, <1>1
  <2>2. j <= a /\ j \in Nat
    BY <1>1, <2>1
  <2>3. j * k <= a * k
    BY <2>2, ProductOrder
  <2> QED
    BY <2>2, <2>3
<1>6. j \in Nat
  BY <1>1
<1> WITNESS j \in Nat
<1> QED
  BY <1>3, <1>4, <1>5, Zenon

-----------------------------------------------------------------------------
\* Bytes of a block, blocks of a page, and pages of the address space of Width
\* bits.
BlockSize == 2 ^ ns.blockshift
BlocksPerPage == 2 ^ (ns.pageshift - ns.blockshift)
PagesInWidth == 2 ^ (Width - ns.pageshift)

\* What unvme_ns_init makes of any geometry.  The limit of blocks is a whole
\* number of pages, 0 only when it wraps, and a command's list fits a page.
GeometryFacts ==
    /\ ns.pagesize \in Nat \ {0} /\ BlockSize \in Nat \ {0}
    /\ BlocksPerPage \in Nat \ {0} /\ PagesInWidth \in Nat \ {0}
    /\ PrpsPerPage \in Nat
    /\ 2 ^ ns.pageshift = ns.pagesize
    /\ ns.pagesize = BlockSize * BlocksPerPage
    /\ ns.pagesize = PrpBytes * PrpsPerPage
    /\ 2 ^ Width = ns.pagesize * PagesInWidth
    /\ ns.maxppio \in Nat /\ ns.maxppio <= PrpsPerPage
    /\ \E j \in Nat : ns.maxbpio = BlocksPerPage * j
    /\ ns.maxbpio \in Nat /\ ns.maxbpio < 2 ^ Width
    /\ ns.maxbpio <= ns.maxppio * BlocksPerPage
    /\ ns.maxbpio = 0 => 2 ^ Width <= ns.maxppio * BlocksPerPage
    /\ ns.mdts \in Nat
    /\ ns.mdts # 0 => 2 ^ ns.mdts \in Nat /\ ns.maxppio <= 2 ^ ns.mdts

LEMMA GeometryHolds ==
  ASSUME NsFromGeometry
  PROVE  GeometryFacts
<1> PICK g \in Geometries : ns = unvme_ns_init(g)
  BY DEF NsFromGeometry
<1>1. /\ g.pageshift \in Nat /\ g.blockshift \in Nat /\ g.mdts \in Nat /\ Width \in Nat
      /\ g.blockshift <= g.pageshift /\ g.pageshift < Width
      /\ PrpBytes \in Nat \ {0}
      /\ 2 ^ g.pageshift % PrpBytes = 0
  BY GeometryAssumption
<1> DEFINE P == 2 ^ g.pageshift
           B == 2 ^ g.blockshift
           K == 2 ^ (g.pageshift - g.blockshift)
           W == 2 ^ Width
           V == 2 ^ (Width - g.pageshift)
           M == MaxPpio(g)
           N == P \div PrpBytes
<1>2. /\ P \in Nat \ {0} /\ B \in Nat \ {0} /\ K \in Nat \ {0} /\ W \in Nat \ {0} /\ V \in Nat \ {0}
      /\ P = B * K /\ W = P * V
  <2>1. /\ g.pageshift \in Shifts /\ g.blockshift \in Shifts /\ Width \in Shifts
        /\ g.pageshift - g.blockshift \in Shifts /\ Width - g.pageshift \in Shifts
        /\ g.blockshift \in 0 .. g.pageshift /\ g.pageshift \in 0 .. Width
    BY <1>1 DEF Shifts
  <2> QED
    BY <2>1, PowerAssumption, Zenon
<1>3. /\ ns.pageshift = g.pageshift /\ ns.blockshift = g.blockshift /\ ns.mdts = g.mdts
      /\ ns.pagesize = (1 * P) % W /\ ns.maxppio = M /\ ns.maxbpio = (M * K) % W
  BY DEF unvme_ns_init, Shl
<1> HIDE DEF P, B, K, W, V, M, N
<1>4. 1 * P = P /\ P % W = P
  <2>1. P < W
    <3>1. CASE V = 1
      <4>1. Width - g.pageshift \in Shifts /\ Width - g.pageshift >= 1
        BY <1>1 DEF Shifts
      <4>2. V = 2 ^ 1 * 2 ^ (Width - g.pageshift - 1) /\ 2 ^ (Width - g.pageshift - 1) \in Nat \ {0}
        <5>1. 1 \in 0 .. (Width - g.pageshift) /\ Width - g.pageshift - 1 \in Shifts
          BY <1>1 DEF Shifts
        <5> QED
          BY <4>1, <5>1, PowerAssumption, Zenon DEF V
      <4>3. 2 ^ 1 = 2
        OBVIOUS
      <4>4. \A x \in Nat : 2 * x # 1
        OBVIOUS
      <4> QED
        BY <3>1, <4>2, <4>3, <4>4
    <3>2. CASE V >= 2
      <4>1. P * V >= 2 * P
        BY <3>2, <1>2
      <4> QED
        BY <4>1, <1>2
    <3> QED
      BY <3>1, <3>2, <1>2
  <2> QED
    BY <2>1, <1>2
<1>5. N \in Nat \ {0} /\ P = PrpBytes * N
  <2>1. N \in Int /\ P = PrpBytes * N + (P % PrpBytes)
    BY <1>1, <1>2, Division DEF N
  <2>2. P = PrpBytes * N
    BY <2>1, <1>1, <1>2 DEF P
  <2> QED
    BY <2>1, <2>2, <1>1, <1>2
<1>6. M \in Nat \ {0} /\ M <= N /\ (g.mdts # 0 => 2 ^ g.mdts \in Nat /\ M <= 2 ^ g.mdts)
  <2> DEFINE mp == 2 * 2 ^ (g.mdts - 1)
  <2>1. M = IF g.mdts # 0 /\ N > mp THEN mp ELSE N
    BY <1>4 DEF M, N, P, MaxPpio, Shl
  <2>2. ASSUME g.mdts # 0 PROVE mp \in Nat \ {0} /\ 2 ^ g.mdts = mp
    <3>1. g.mdts \in Shifts /\ g.mdts - 1 \in 0 .. g.mdts /\ 1 \in 0 .. g.mdts
      BY <1>1, <2>2 DEF Shifts
    <3>2. 2 ^ g.mdts \in Nat \ {0} /\ 2 ^ g.mdts = 2 ^ 1 * 2 ^ (g.mdts - 1)
      BY <3>1, PowerAssumption, Zenon
    <3>3. 2 ^ 1 = 2
      OBVIOUS
    <3> QED
      BY <3>2, <3>3
  <2> HIDE DEF mp
  <2> QED
    BY <2>1, <2>2, <1>5
<1>7. \E j \in Nat : (M * K) % W = K * j /\ K * j <= M * K /\ K * j < W
  <2>1. B * V \in Nat \ {0} /\ W = K * (B * V)
    BY <1>2
  <2> DEFINE m == B * V
  <2> HIDE DEF m
  <2>2. \E j \in Nat : (M * K) % (K * m) = K * j /\ K * j <= M * K /\ K * j < K * m
    BY <1>2, <1>6, <2>1, MultipleKept DEF m
  <2> QED
    BY <2>1, <2>2 DEF m
<1>14. (M * K) % W = 0 => W <= M * K
  <2>1. M * K \in Nat \ {0}
    BY <1>2, <1>6
  <2> DEFINE x == M * K
             q == x \div W
  <2>2. ASSUME x % W = 0 PROVE x = W * q /\ q \in Int
    <3>1. x \in Int
      BY <2>1
    <3> HIDE DEF x
    <3>2. q \in Int /\ x = W * q + (x % W)
      BY <3>1, <1>2, Division
    <3> QED
      BY <3>1, <3>2, <2>2, <1>2
  <2> HIDE DEF x, q
  <2>3. ASSUME x % W = 0 PROVE W <= x
    <3>1. q >= 1
      <4>1. CASE q <= 0
        <5>1. W * q <= 0
          BY <4>1, <2>2, <2>3, <1>2
        <5> QED
          BY <5>1, <2>1, <2>2, <2>3 DEF x
      <4> QED
        BY <4>1, <2>2, <2>3
    <3>2. W * q >= W
      BY <3>1, <2>2, <2>3, <1>2
    <3> QED
      BY <3>2, <2>2, <2>3
  <2> QED
    BY <2>3 DEF x
<1>8. PrpsPerPage = N /\ BlockSize = B /\ BlocksPerPage = K /\ PagesInWidth = V
      /\ 2 ^ ns.pageshift = P /\ 2 ^ Width = W
  BY <1>3, <1>4 DEF PrpsPerPage, N, BlockSize, B, BlocksPerPage, K, PagesInWidth, V, P, W
<1>9. ns.pagesize = P
  BY <1>3, <1>4
<1>10. /\ ns.pagesize \in Nat \ {0} /\ BlockSize \in Nat \ {0}
       /\ BlocksPerPage \in Nat \ {0} /\ PagesInWidth \in Nat \ {0}
       /\ 2 ^ ns.pageshift = ns.pagesize
       /\ ns.pagesize = BlockSize * BlocksPerPage
       /\ 2 ^ Width = ns.pagesize * PagesInWidth
  BY <1>2, <1>8, <1>9, Zenon
<1>11. PrpsPerPage \in Nat /\ ns.pagesize = PrpBytes * PrpsPerPage
  BY <1>5, <1>8, <1>9, Zenon
<1>12. /\ ns.maxppio \in Nat /\ ns.maxppio <= PrpsPerPage /\ ns.mdts \in Nat
       /\ ns.mdts # 0 => 2 ^ ns.mdts \in Nat /\ ns.maxppio <= 2 ^ ns.mdts
  BY <1>1, <1>3, <1>6, <1>8, Zenon
<1>13. /\ \E j \in Nat : ns.maxbpio = BlocksPerPage * j
       /\ ns.maxbpio \in Nat /\ ns.maxbpio < 2 ^ Width
       /\ ns.maxbpio <= ns.maxppio * BlocksPerPage
       /\ ns.maxbpio = 0 => 2 ^ Width <= ns.maxppio * BlocksPerPage
  <2>1. PICK j \in Nat : (M * K) % W = K * j /\ K * j <= M * K /\ K * j < W
    BY <1>7
  <2>2. K * j \in Nat
    BY <1>2
  <2> QED
    BY <1>3, <1>8, <1>14, <2>1, <2>2, Zenon
<1> QED
  BY <1>10, <1>11, <1>12, <1>13, Zenon DEF GeometryFacts

-----------------------------------------------------------------------------
(* The sizes of a command.                                                 *)
LEMMA SizeFacts ==
  ASSUME GeometryFacts
  PROVE  /\ \A n \in Int : Bytes(n) = n * BlockSize /\ Bytes(n) \in Int
         /\ \A n \in Nat \ {0} : Bytes(n) \in Nat \ {0}
         /\ \A b \in Int : NumPages(b) = (b + ns.pagesize - 1) \div ns.pagesize
  BY DEF GeometryFacts, Bytes, BlockSize, Shl, NumPages

LEMMA NoBytes ==
  ASSUME GeometryFacts
  PROVE  Bytes(0) = 0
<1> DEFINE B == BlockSize
<1>1. B \in Int
  BY DEF GeometryFacts
<1>2. Bytes(0) = 0 * B
  BY DEF Bytes, BlockSize, Shl
<1> HIDE DEF B
<1> QED
  BY <1>1, <1>2

\* The pages unvme_map_prps counts are those the controller walks through.
LEMMA PageCount ==
  ASSUME GeometryFacts, NEW b \in Nat \ {0}
  PROVE  /\ NumPages(b) \in Nat \ {0}
         /\ NumPages(b) = (b - 1) \div ns.pagesize + 1
<1> DEFINE q == (b - 1) \div ns.pagesize
           r == (b - 1) % ns.pagesize
<1>1. ns.pagesize \in Nat \ {0}
  BY DEF GeometryFacts
<1>2. b - 1 \in Int
  OBVIOUS
<1>3. q \in Int /\ r \in 0 .. (ns.pagesize - 1) /\ b - 1 = ns.pagesize * q + r
  BY <1>1, <1>2, Division
<1> HIDE DEF q, r
<1>4. b + ns.pagesize - 1 = ns.pagesize * (q + 1) + r
  BY <1>1, <1>3
<1>5. (b + ns.pagesize - 1) \div ns.pagesize = q + 1
  <2>1. b + ns.pagesize - 1 \in Int /\ q + 1 \in Int
    BY <1>1, <1>3
  <2> QED
    BY <1>1, <1>3, <1>4, <2>1, DivisionOf
<1>6. q >= 0
  <2>1. CASE q <= -1
    <3>1. ns.pagesize * q <= -ns.pagesize
      BY <2>1, <1>1, <1>3
    <3> QED
      BY <3>1, <1>1, <1>3
  <2> QED
    BY <2>1, <1>3
<1> QED
  BY <1>5, <1>6, <1>3, SizeFacts DEF q

\* A command for no more blocks than the page limit holds.
LEMMA CommandWithinPages ==
  ASSUME GeometryFacts, NEW n \in Nat \ {0}, n <= ns.maxppio * BlocksPerPage
  PROVE  Bytes(n) <= ns.maxppio * ns.pagesize
<1> DEFINE P == ns.pagesize
           B == BlockSize
           K == BlocksPerPage
           M == ns.maxppio
<1>1. /\ P \in Nat \ {0} /\ B \in Nat \ {0} /\ K \in Nat \ {0} /\ M \in Nat
      /\ P = B * K /\ n <= M * K
  BY DEF GeometryFacts
<1>2. Bytes(n) = n * B
  BY SizeFacts
<1> HIDE DEF P, B, K, M
<1>3. M * K \in Nat
  BY <1>1
<1>4. n * B <= (M * K) * B
  BY <1>1, <1>3, ProductOrder
<1>5. (M * K) * B = M * P
  BY <1>1
<1> QED
  BY <1>2, <1>4, <1>5 DEF M, P

\* A command within the block limit needs no more pages than a list page holds
\* entries.
LEMMA CommandFitsList ==
  ASSUME GeometryFacts, NEW n \in Nat \ {0}, n <= ns.maxbpio
  PROVE  /\ Bytes(n) <= ns.maxppio * ns.pagesize
         /\ NumPages(Bytes(n)) <= PrpsPerPage
<1> DEFINE P == ns.pagesize
           B == BlockSize
           K == BlocksPerPage
           M == ns.maxppio
           b == n * B
<1>1. /\ P \in Nat \ {0} /\ B \in Nat \ {0} /\ K \in Nat \ {0} /\ M \in Nat
      /\ P = B * K /\ n <= M * K /\ M <= PrpsPerPage /\ PrpsPerPage \in Nat
  BY DEF GeometryFacts
<1>2. Bytes(n) = b
  BY SizeFacts
<1> HIDE DEF P, B, K, M
<1>3. b <= M * P
  <2>1. n <= ns.maxppio * BlocksPerPage
    BY <1>1 DEF M, K
  <2> QED
    BY <2>1, <1>2, CommandWithinPages DEF M, P
<1>4. b \in Nat \ {0}
  BY <1>1
<1> HIDE DEF b
<1> DEFINE q == (b - 1) \div P
<1>5. NumPages(b) = q + 1 /\ NumPages(b) \in Nat
  BY <1>4, PageCount DEF P
<1>6. q \in Int /\ (b - 1) % P \in 0 .. (P - 1) /\ b - 1 = P * q + ((b - 1) % P)
  <2>1. b - 1 \in Int
    BY <1>4
  <2> QED
    BY <1>1, <2>1, Division
<1> HIDE DEF q
<1>7. q < M
  <2>1. CASE q >= M
    <3>1. P * q >= P * M
      BY <2>1, <1>1, <1>6
    <3> QED
      BY <3>1, <1>1, <1>3, <1>4, <1>6
  <2> QED
    BY <2>1, <1>1, <1>6
<1> QED
  BY <1>1, <1>2, <1>3, <1>5, <1>6, <1>7 DEF P, M

\* Each id has a page of the list memory of its own.
LEMMA ListPages ==
  ASSUME GeometryFacts, NEW c \in Cids
  PROVE  FirstEntry(c) = c * PrpsPerPage
<1> DEFINE N == PrpsPerPage
<1>1. /\ ns.pagesize = PrpBytes * N /\ N \in Nat /\ PrpBytes \in Nat \ {0}
      /\ PrpOffset(c) = c * ns.pagesize /\ c \in Nat
  BY GeometryAssumption, QSizeAssumption DEF GeometryFacts, PrpOffset, Shl, Cids
<1> HIDE DEF N
<1>2. PrpOffset(c) = PrpBytes * (c * N) + 0 /\ c * N \in Int /\ PrpOffset(c) \in Int
  BY <1>1
<1>3. 0 \in 0 .. (PrpBytes - 1)
  BY <1>1
<1>4. \A x \in Int : x \in Int /\ PrpOffset(c) = PrpBytes * x + 0 => PrpOffset(c) \div PrpBytes = x
  BY <1>1, <1>2, <1>3, DivisionOf
<1> QED
  BY <1>2, <1>4 DEF FirstEntry, N

LEMMA ListIndex ==
  ASSUME GeometryFacts, NEW c \in Cids, NEW k \in 1 .. (PrpsPerPage - 1)
  PROVE  /\ FirstEntry(c) \in Nat
         /\ FirstEntry(c) + k - 1 \in 0 .. (QSize * PrpsPerPage - 1)
<1>1. FirstEntry(c) = c * PrpsPerPage /\ c \in Nat /\ c + 1 <= QSize /\ PrpsPerPage \in Nat
      /\ QSize \in Nat
  BY ListPages, QSizeAssumption DEF Cids, GeometryFacts
<1>2. (c + 1) * PrpsPerPage <= QSize * PrpsPerPage
  BY <1>1, ProductOrder
<1>3. (c + 1) * PrpsPerPage = FirstEntry(c) + PrpsPerPage /\ FirstEntry(c) \in Nat
      /\ QSize * PrpsPerPage \in Nat
  BY <1>1
<1> QED
  BY <1>2, <1>3, <1>1

LEMMA ListsApart ==
  ASSUME GeometryFacts, NEW c \in Cids, NEW d \in Cids, c # d,
         NEW k \in 1 .. (PrpsPerPage - 1), NEW m \in 1 .. (PrpsPerPage - 1)
  PROVE  FirstEntry(c) + k - 1 # FirstEntry(d) + m - 1
<1>1. /\ FirstEntry(c) = c * PrpsPerPage /\ FirstEntry(d) = d * PrpsPerPage
      /\ c \in Nat /\ d \in Nat /\ PrpsPerPage \in Nat
  BY ListPages, QSizeAssumption DEF Cids, GeometryFacts
<1>2. CASE c < d
  <2>1. (c + 1) * PrpsPerPage <= d * PrpsPerPage
    BY <1>1, <1>2, ProductOrder
  <2>2. (c + 1) * PrpsPerPage = FirstEntry(c) + PrpsPerPage
    BY <1>1
  <2> QED
    BY <2>1, <2>2, <1>1
<1>3. CASE d < c
  <2>1. (d + 1) * PrpsPerPage <= c * PrpsPerPage
    BY <1>1, <1>3, ProductOrder
  <2>2. (d + 1) * PrpsPerPage = FirstEntry(d) + PrpsPerPage
    BY <1>1
  <2> QED
    BY <2>1, <2>2, <1>1
<1> QED
  BY <1>1, <1>2, <1>3

-----------------------------------------------------------------------------
\* The controller finds block i of a command where unvme_do_rw meant it.
LEMMA BlockPlace ==
  ASSUME GeometryFacts, MVarsOK, NEW f \in fly, CommandOK(f), NEW i \in 0 .. f.nlb
  PROVE  LET start == f.prp1 % ns.pagesize
             last == (start + Bytes(f.nlb + 1) - 1) \div ns.pagesize
             at == start + Bytes(i)
         IN  PageOf(f, at \div ns.pagesize, last) + (at % ns.pagesize) = f.prp1 + Bytes(i)
<1> DEFINE P == ns.pagesize
           s == f.prp1 % P
           b == Bytes(f.nlb + 1)
           x == Bytes(i)
           last == (s + b - 1) \div P
           d == (s + x) \div P
           r == (s + x) % P
<1>1. f.prp1 \in Int /\ f.nlb \in Nat /\ f.cid \in Cids /\ i \in Nat /\ i <= f.nlb
  BY DEF MVarsOK
<1>2. P \in Nat \ {0} /\ BlockSize \in Nat \ {0}
  BY DEF GeometryFacts
<1>3. s \in 0 .. (P - 1)
  BY <1>1, <1>2, Division
<1>4. b \in Nat \ {0} /\ x \in Nat /\ x < b
  <2>1. b = (f.nlb + 1) * BlockSize /\ x = i * BlockSize
    BY <1>1, SizeFacts
  <2>2. (i + 1) * BlockSize <= (f.nlb + 1) * BlockSize
    BY <1>1, <1>2, ProductOrder
  <2>3. (i + 1) * BlockSize = i * BlockSize + BlockSize /\ i * BlockSize \in Nat
    BY <1>1, <1>2
  <2>4. (f.nlb + 1) * BlockSize \in Nat
    BY <1>1, <1>2
  <2> QED
    BY <2>1, <2>2, <2>3, <2>4, <1>2
<1>5. /\ OnPages(f.prp1, b) /\ f.prp2 = Prp2(f.cid, f.prp1, b)
      /\ NumPages(b) > 2 => \A k \in 1 .. (NumPages(b) - 1) :
            /\ FirstEntry(f.cid) + k - 1 \in DOMAIN prplist
            /\ prplist[FirstEntry(f.cid) + k - 1] = f.prp1 + k * P
  BY DEF CommandOK, PagesOf
<1>6. NumPages(b) = (b - 1) \div P + 1 /\ NumPages(b) \in Nat \ {0}
  BY <1>4, PageCount
<1>7. d \in Int /\ r \in 0 .. (P - 1) /\ s + x = P * d + r
  <2>1. s + x \in Int
    BY <1>3, <1>4
  <2> HIDE DEF s, x
  <2> QED
    BY <1>2, <2>1, Division
<1> SUFFICES PageOf(f, d, last) + r = f.prp1 + x
  OBVIOUS
<1>8. CASE d = 0
  <2>1. PageOf(f, d, last) = f.prp1 - s
    BY <1>8 DEF PageOf
  <2> HIDE DEF d, r, s, x, last, P
  <2>2. P * d = 0
    BY <1>2, <1>8
  <2> QED
    BY <2>1, <2>2, <1>7, <1>1, <1>2, <1>3, <1>4
<1>9. CASE d # 0
  <2> HIDE DEF d, r, s, x, last, P, b
  <2>1. d >= 1
    <3>1. CASE d <= -1
      <4>1. P * d <= -P
        BY <3>1, <1>2, <1>7
      <4> QED
        BY <4>1, <1>2, <1>3, <1>4, <1>7
    <3> QED
      BY <3>1, <1>9, <1>7
  <2>2. P * d >= P
    BY <2>1, <1>2, <1>7
  <2>3. s = 0
    <3>1. CASE s + b <= P
      BY <3>1, <2>2, <1>2, <1>3, <1>4, <1>7
    <3>2. s = 0 \/ s + b <= P
      BY <1>5 DEF OnPages, s, P
    <3> QED
      BY <3>1, <3>2
  <2>4. last = (b - 1) \div P /\ last \in Int
    <3>1. s + b - 1 = b - 1 /\ b - 1 \in Int
      BY <2>3, <1>4
    <3>2. (b - 1) \div P \in Int
      BY <3>1, <1>2, Division
    <3> QED
      BY <3>1, <3>2 DEF last
  <2>5. d <= last
    <3>1. b - 1 \in Int
      BY <1>4
    <3>2. b - 1 = P * last + ((b - 1) % P) /\ (b - 1) % P \in 0 .. (P - 1)
      BY <3>1, <2>4, <1>2, Division
    <3>3. CASE d >= last + 1
      <4>1. P * d >= P * last + P
        BY <3>3, <1>2, <1>7, <2>4
      <4> QED
        BY <4>1, <3>2, <1>2, <1>4, <1>7, <2>3, <2>4
    <3> QED
      BY <3>3, <1>7, <2>4
  <2>6. NumPages(b) = last + 1
    BY <1>6, <2>4
  <2>7. CASE last = 1
    <3>1. d = 1
      BY <2>1, <2>5, <2>7, <1>7
    <3>2. PageOf(f, d, last) = f.prp2
      BY <3>1, <2>7 DEF PageOf
    <3>3. f.prp2 = f.prp1 + P
      BY <1>5, <2>6, <2>7 DEF Prp2, P
    <3>4. P * d = P
      BY <3>1, <1>2
    <3> QED
      BY <3>2, <3>3, <3>4, <1>1, <1>2, <1>4, <1>7, <2>3
  <2>8. CASE last >= 2
    <3>1. d \in 1 .. (NumPages(b) - 1) /\ NumPages(b) > 2
      BY <2>1, <2>5, <2>6, <2>8, <1>7, <2>4
    <3>2. f.prp2 = ListAddr + PrpOffset(f.cid)
      <4>1. ~(NumPages(b) < 2) /\ NumPages(b) # 2
        BY <1>6, <3>1
      <4> QED
        BY <1>5, <4>1, Zenon DEF Prp2
    <3>3. (f.prp2 - ListAddr) \div PrpBytes = FirstEntry(f.cid)
      <4>1. ListAddr \in Int /\ PrpOffset(f.cid) \in Int
        <5>1. 2 ^ Width \in Int /\ 2 ^ ns.pageshift \in Int /\ f.cid \in Int
          BY <1>1, QSizeAssumption DEF GeometryFacts, Cids
        <5> QED
          BY <5>1 DEF ListAddr, PrpOffset, Shl
      <4>2. f.prp2 - ListAddr = PrpOffset(f.cid)
        BY <4>1, <3>2
      <4> QED
        BY <4>2 DEF FirstEntry
    <3>4. PageOf(f, d, last) = ListEntry(FirstEntry(f.cid) + d - 1)
      <4>1. last # 1
        BY <2>8
      <4> QED
        BY <1>9, <4>1, <3>3 DEF PageOf
    <3>5. ListEntry(FirstEntry(f.cid) + d - 1) = f.prp1 + d * P
      BY <1>5, <3>1 DEF ListEntry
    <3>6. d * P = P * d /\ P * d \in Int
      BY <1>2, <1>7
    <3> QED
      BY <3>4, <3>5, <3>6, <1>1, <1>2, <1>4, <1>7, <2>3
  <2> QED
    BY <2>1, <2>5, <2>7, <2>8, <1>7, <2>4
<1> QED
  BY <1>8, <1>9

\* ... so that it makes the transfers of the command's blocks and no others.
LEMMA TransferPlaces ==
  ASSUME GeometryFacts, MVarsOK, NEW f \in fly, CommandOK(f)
  PROVE  Transfers(f) = {Place(l) : l \in LbasOf(f)}
<1>1. f.slba \in Int /\ f.nlb \in Nat /\ f.prp1 = AddrOf(f.slba) /\ io.slba \in Int /\ io.buf \in Int
  BY DEF MVarsOK, CommandOK
<1>2. \A i \in 0 .. f.nlb : AddrOf(f.slba + i) = f.prp1 + Bytes(i)
  <2> TAKE i \in 0 .. f.nlb
  <2> DEFINE a == f.slba - io.slba
             B == BlockSize
             h == pci_vhsaa + (io.buf - vemva)
  <2>1. a \in Int /\ i \in Int /\ B \in Int /\ f.slba + i - io.slba = a + i /\ a + i \in Int
    BY <1>1 DEF GeometryFacts
  <2>2. Bytes(a + i) = (a + i) * B /\ Bytes(a) = a * B /\ Bytes(i) = i * B
    BY <2>1, SizeFacts
  <2>3. h \in Int
    <3>1. 2 ^ Width \in Int
      BY DEF GeometryFacts
    <3> QED
      BY <3>1, <1>1 DEF pci_vhsaa, vemva
  <2>4. AddrOf(f.slba + i) = h + Bytes(a + i) /\ f.prp1 = h + Bytes(a)
    BY <2>1, <1>1 DEF AddrOf
  <2> HIDE DEF a, B, h
  <2> QED
    BY <2>1, <2>2, <2>3, <2>4
<1>3. Transfers(f) = {<<f.slba + i, f.prp1 + Bytes(i)>> : i \in 0 .. f.nlb}
  BY BlockPlace DEF Transfers
<1>4. {<<f.slba + i, f.prp1 + Bytes(i)>> : i \in 0 .. f.nlb} = {Place(f.slba + i) : i \in 0 .. f.nlb}
  BY <1>2 DEF Place
<1>5. \A l \in LbasOf(f) : l - f.slba \in 0 .. f.nlb /\ l = f.slba + (l - f.slba)
  BY <1>1 DEF LbasOf
<1>6. \A i \in 0 .. f.nlb : f.slba + i \in LbasOf(f)
  BY <1>1 DEF LbasOf
<1> HIDE DEF Place
<1>7. {Place(f.slba + i) : i \in 0 .. f.nlb} = {Place(l) : l \in LbasOf(f)}
  BY <1>5, <1>6
<1> QED
  BY <1>3, <1>4, <1>7

\* A command moves as many blocks as it names.
LEMMA PlacesCount ==
  ASSUME NEW a \in Int, NEW n \in Nat
  PROVE  LET T == {Place(l) : l \in a .. (a + n)}
         IN  IsFiniteSet(T) /\ Cardinality(T) = n + 1
<1> DEFINE S == a .. (a + n)
           T == {Place(l) : l \in S}
           h == [l \in S |-> Place(l)]
<1>1. \A l, m : Place(l) = Place(m) => l = m
  BY DEF Place
<1>2. IsFiniteSet(S) /\ Cardinality(S) = n + 1
  <2>1. a + n \in Int /\ ~(a > a + n) /\ a + n - a + 1 = n + 1
    OBVIOUS
  <2> QED
    BY <2>1, FS_Interval
<1> HIDE DEF Place
<1>3. h \in Bijection(S, T)
  <2>1. h \in [S -> T]
    OBVIOUS
  <2>2. \A l, m \in S : h[l] = h[m] => l = m
    BY <1>1
  <2>3. \A t \in T : \E l \in S : h[l] = t
    OBVIOUS
  <2> QED
    BY <2>1, <2>2, <2>3 DEF Bijection, Injection, Surjection, IsInjective
<1>4. ExistsBijection(S, T)
  BY <1>3 DEF ExistsBijection
<1> QED
  BY <1>2, <1>4, FS_Bijection

-----------------------------------------------------------------------------
(* Every step preserves the invariant.                                     *)
LEMMA InitInv == MInit => MInv
<1> SUFFICES ASSUME MInit PROVE MInv
  OBVIOUS
<1>1. NsFromGeometry
  BY DEF MInit, NsFromGeometry
<1>2. GeometryFacts
  BY <1>1, GeometryHolds
<1>3. Bytes(0) = 0
  BY <1>2, NoBytes
<1>4. MVarsOK
  BY FS_EmptySet, BoundsAssumption DEF MVarsOK, MInit
<1>5. Running
  BY <1>3 DEF Running, MInit
<1>6. Accounted
  BY FS_EmptySet DEF Accounted, MInit
<1>7. fly = {} /\ nlb = io.nlb /\ slba = io.slba /\ buf = io.buf
  BY DEF MInit
<1>8. ASSUME ns.maxbpio # 0 PROVE Advancing
  BY <1>1, <1>4, <1>5, <1>6, <1>7, <1>8 DEF Advancing
<1>9. ASSUME ns.maxbpio = 0 PROVE Spinning
  BY <1>1, <1>4, <1>7, <1>9 DEF Spinning
<1> QED
  BY <1>8, <1>9 DEF MInv

\* What depends on the geometry alone.
LEMMA SameGeometry ==
  ASSUME ns' = ns
  PROVE  /\ NsFromGeometry => NsFromGeometry'
         /\ PrpsPerPage' = PrpsPerPage
         /\ \A n : Bytes(n)' = Bytes(n) /\ NumPages(n)' = NumPages(n)
         /\ \A c : FirstEntry(c)' = FirstEntry(c)
         /\ \A c, a, b : Prp2(c, a, b)' = Prp2(c, a, b)
         /\ \A off, b : OnPages(off, b)' <=> OnPages(off, b)
  BY DEF NsFromGeometry, PrpsPerPage, Bytes, NumPages, FirstEntry, PrpOffset, Prp2, OnPages

LEMMA SameIo ==
  ASSUME ns' = ns, io' = io
  PROVE  \A l : AddrOf(l)' = AddrOf(l) /\ Place(l)' = Place(l)
  BY SameGeometry DEF AddrOf, Place

LEMMA SameCommand ==
  ASSUME UNCHANGED <<ns, io, slba, prplist>>, NEW f, CommandOK(f)
  PROVE  CommandOK(f)'
<1>1. /\ Bytes(f.nlb + 1)' = Bytes(f.nlb + 1) /\ PagesOf(f)' = PagesOf(f)
      /\ FirstEntry(f.cid)' = FirstEntry(f.cid)
      /\ Prp2(f.cid, f.prp1, Bytes(f.nlb + 1))' = Prp2(f.cid, f.prp1, Bytes(f.nlb + 1))
      /\ OnPages(f.prp1, Bytes(f.nlb + 1))' <=> OnPages(f.prp1, Bytes(f.nlb + 1))
      /\ AddrOf(f.slba)' = AddrOf(f.slba)
  BY SameGeometry, SameIo DEF PagesOf, Prp2, NumPages, PrpOffset, OnPages, Bytes
<1> QED
  BY <1>1 DEF CommandOK

\* The call starts: a buffer of the pool is on pages, any other stays out.
LEMMA RwKeeps ==
  ASSUME Advancing, NEW off \in Bufs, NEW n \in 0 .. MaxNlb, unvme_do_rw(off, n)
  PROVE  Advancing'
<1> USE DEF Advancing
<1>1. op = "idle" /\ op' = "rw" /\ ns' = ns /\ used' = used /\ fly' = {} /\ moved' = {}
      /\ fly = {} /\ moved = {} /\ prplist' = prplist /\ count' = count
      /\ io' = [buf |-> vemva + off, slba |-> FirstLba, nlb |-> n]
      /\ buf' = vemva + off /\ slba' = FirstLba /\ nlb' = n
  BY DEF unvme_do_rw, Running
<1>2. GeometryFacts
  BY GeometryHolds
<1>3. NsFromGeometry'
  BY <1>1, SameGeometry
<1>4. off \in Int /\ vemva \in Int /\ n \in Nat /\ FirstLba \in Int
  <2>1. 2 ^ Width \in Int
    BY <1>2 DEF GeometryFacts
  <2> QED
    BY <2>1, BoundsAssumption DEF vemva, FirstLba
<1>5. MVarsOK'
  <2>1. PrpsPerPage' = PrpsPerPage
    BY <1>1, SameGeometry
  <2> QED
    BY <1>1, <1>4, <2>1 DEF MVarsOK
<1>6. Running'
  <2>1. Bytes(0) = 0
    BY <1>2, NoBytes
  <2>3. OnPages(off, Bytes(n)) \/ ~InPool(vemva + off)
    BY DEF unvme_do_rw, FromAlloc, OnPages
  <2>4. Bytes(0)' = Bytes(0) /\ (OnPages(off, Bytes(n))' <=> OnPages(off, Bytes(n)))
    BY <1>1, SameGeometry DEF OnPages, Bytes
  <2>5. InPool(buf)' <=> InPool(vemva + off)
    BY <1>1 DEF InPool
  <2>6. io'.nlb = n /\ io'.slba = FirstLba /\ io'.buf = vemva + off
    BY <1>1
  <2>7. nlb' <= io'.nlb /\ io'.nlb - nlb' = 0 /\ slba' = io'.slba + 0 /\ buf' = io'.buf + 0
        /\ buf' - vemva = off
    <3>1. nlb' = io'.nlb /\ slba' = io'.slba /\ buf' = io'.buf /\ buf' = vemva + off
      BY <2>6, <1>1
    <3>2. io'.nlb \in Nat /\ io'.slba \in Int /\ io'.buf \in Int
      BY <2>6, <1>4
    <3> QED
      BY <3>1, <3>2, <1>4
  <2>8. (Bytes(io.nlb - nlb))' = 0 /\ (Bytes(nlb))' = (Bytes(n))'
    BY <2>7, <2>1, <1>1 DEF Bytes
  <2>9. (OnPages(buf - vemva, Bytes(nlb)))' <=> (OnPages(off, Bytes(n)))'
    BY <2>7, <2>8 DEF OnPages, vemva
  <2> QED
    BY <2>3, <2>4, <2>5, <2>7, <2>8, <2>9, <1>1 DEF Running
<1>7. Accounted'
  <2>1. io'.slba .. (slba' - 1) = {}
    BY <1>1 DEF FirstLba
  <2> QED
    BY <2>1, <1>1, FS_EmptySet DEF Accounted
<1> QED
  BY <1>1, <1>3, <1>5, <1>6, <1>7

\* Steps that touch neither the commands nor what they refer to.
LEMMA AbortKeeps ==
  ASSUME Advancing, do_rw_abort
  PROVE  Advancing'
<1> USE DEF Advancing
<1>1. UNCHANGED <<ns, io, buf, slba, nlb, used, fly, prplist, moved, count>>
      /\ op = "rw" /\ op' = "abort"
  BY DEF do_rw_abort
<1>2. NsFromGeometry' /\ PrpsPerPage' = PrpsPerPage
  BY <1>1, SameGeometry
<1>3. MVarsOK'
  BY <1>1, <1>2 DEF MVarsOK
<1>4. Running'
  BY <1>1 DEF Running, Bytes
<1>5. \A f \in fly' : CommandOK(f)'
  BY <1>1, SameCommand
<1>6. \A f, g : Apart(f, g)' <=> Apart(f, g)
  BY DEF Apart, LbasOf
<1>7. Accounted'
  BY <1>1, SameIo DEF Accounted, LbasOf
<1> QED
  BY <1>1, <1>2, <1>3, <1>4, <1>5, <1>6, <1>7

LEMMA ReturnKeeps ==
  ASSUME Advancing, do_rw_return
  PROVE  Advancing'
<1> USE DEF Advancing
<1>1. /\ UNCHANGED <<ns, io, buf, slba, nlb, used, fly, prplist, moved, count>>
      /\ \/ op = "rw" /\ nlb = 0 /\ op' = "poll"
         \/ op = "poll" /\ used = {} /\ op' = "done"
  BY DEF do_rw_return
<1>2. NsFromGeometry' /\ PrpsPerPage' = PrpsPerPage
  BY <1>1, SameGeometry
<1>3. MVarsOK'
  BY <1>1, <1>2 DEF MVarsOK
<1>4. Running'
  BY <1>1 DEF Running, Bytes
<1>5. \A f \in fly' : CommandOK(f)'
  BY <1>1, SameCommand
<1>6. \A f, g : Apart(f, g)' <=> Apart(f, g)
  BY DEF Apart, LbasOf
<1>7. Accounted'
  BY <1>1, SameIo DEF Accounted, LbasOf
<1> QED
  BY <1>1, <1>2, <1>3, <1>4, <1>5, <1>6, <1>7

LEMMA CompletionKeeps ==
  ASSUME Advancing, NEW c \in Cids, unvme_check_completion(c)
  PROVE  Advancing'
<1> USE DEF Advancing
<1>1. /\ UNCHANGED <<ns, op, io, buf, slba, nlb, fly, prplist, moved, count>>
      /\ op \in {"rw", "poll"} /\ used' = used \ {c} /\ \A f \in fly : f.cid # c
  BY DEF unvme_check_completion, StillUsed
<1>2. NsFromGeometry' /\ PrpsPerPage' = PrpsPerPage
  BY <1>1, SameGeometry
<1>3. MVarsOK'
  BY <1>1, <1>2 DEF MVarsOK
<1>4. Running'
  BY <1>1 DEF Running, Bytes, OnPages, InPool
<1>5. \A f \in fly' : CommandOK(f)'
  BY <1>1, SameCommand
<1>6. \A f, g : Apart(f, g)' <=> Apart(f, g)
  BY DEF Apart, LbasOf
<1>7. Accounted'
  BY <1>1, SameIo DEF Accounted, LbasOf
<1> QED
  BY <1>1, <1>2, <1>3, <1>4, <1>5, <1>6, <1>7

\* The controller executes a command: its blocks go from flight to moved.
LEMMA ExecuteKeeps ==
  ASSUME Advancing, NEW f \in fly, Execute(f)
  PROVE  Advancing'
<1> USE DEF Advancing
<1>1. /\ UNCHANGED <<ns, op, io, buf, slba, nlb, used, prplist>>
      /\ fly' = fly \ {f} /\ moved' = moved \cup Transfers(f) /\ count' = count + f.nlb + 1
  BY DEF Execute
<1>2. GeometryFacts
  BY GeometryHolds
<1>3. NsFromGeometry' /\ PrpsPerPage' = PrpsPerPage
  BY <1>1, SameGeometry
<1>4. f.slba \in Int /\ f.nlb \in Nat /\ LbasOf(f) \subseteq io.slba .. (slba - 1) /\ count \in Nat
  BY DEF MVarsOK, CommandOK
<1> DEFINE T == {Place(l) : l \in LbasOf(f)}
<1>5. Transfers(f) = T
  BY <1>2, TransferPlaces
<1>6. IsFiniteSet(T) /\ Cardinality(T) = f.nlb + 1
  BY <1>4, PlacesCount DEF LbasOf
<1>7. \A l, m : Place(l) = Place(m) => l = m
  BY DEF Place
<1>8. moved \cap T = {}
  <2> SUFFICES ASSUME NEW m \in moved, NEW l \in LbasOf(f), m = Place(l) PROVE FALSE
    OBVIOUS
  <2>1. PICK j \in io.slba .. (slba - 1) : m = Place(j) /\ j \notin LbasOf(f)
    BY DEF Accounted
  <2> QED
    BY <2>1, <1>7
<1>9. IsFiniteSet(moved) /\ count = Cardinality(moved)
  BY DEF MVarsOK, Accounted
<1>10. IsFiniteSet(moved') /\ count' = Cardinality(moved')
  <2>1. IsFiniteSet(moved \cup T) /\ Cardinality(moved \cup T) = Cardinality(moved) + Cardinality(T) - 0
    BY <1>6, <1>8, <1>9, FS_Union, FS_EmptySet
  <2> QED
    BY <2>1, <1>1, <1>4, <1>5, <1>6, <1>9
<1>11. MVarsOK'
  <2>1. count' \in Nat
    BY <1>1, <1>4
  <2>2. fly' \subseteq [cid : used, slba : Int, nlb : 0 .. (2 ^ Width - 1), prp1 : Int, prp2 : Int]
    BY <1>1 DEF MVarsOK
  <2>3. MVarsOK
    OBVIOUS
  <2> HIDE DEF Advancing
  <2> QED
    BY <2>1, <2>2, <2>3, <1>1, <1>3, <1>10 DEF MVarsOK
<1>12. Running'
  BY <1>1 DEF Running, Bytes, OnPages, InPool
<1>13. \A g \in fly' : CommandOK(g)'
  BY <1>1, SameCommand
<1>14. \A g, h : Apart(g, h)' <=> Apart(g, h)
  BY DEF Apart, LbasOf
<1>15. Accounted'
  <2> SUFFICES /\ \A m \in moved' : \E l \in io.slba .. (slba - 1) :
                     m = Place(l) /\ \A g \in fly' : l \notin LbasOf(g)
               /\ \A l \in io.slba .. (slba - 1) :
                     Place(l) \in moved' \/ \E g \in fly' : l \in LbasOf(g)
    BY <1>1, <1>10, SameIo DEF Accounted, LbasOf
  <2>1. ASSUME NEW m \in moved
        PROVE  \E l \in io.slba .. (slba - 1) : m = Place(l) /\ \A g \in fly' : l \notin LbasOf(g)
    BY <1>1 DEF Accounted
  <2>2. ASSUME NEW m \in T
        PROVE  \E l \in io.slba .. (slba - 1) : m = Place(l) /\ \A g \in fly' : l \notin LbasOf(g)
    <3>1. PICK l \in LbasOf(f) : m = Place(l)
      OBVIOUS
    <3>2. \A g \in fly' : l \notin LbasOf(g)
      BY <1>1 DEF Apart
    <3> QED
      BY <3>1, <3>2, <1>4
  <2>3. ASSUME NEW l \in io.slba .. (slba - 1)
        PROVE  Place(l) \in moved' \/ \E g \in fly' : l \in LbasOf(g)
    <3>1. CASE l \in LbasOf(f)
      BY <3>1, <1>1, <1>5
    <3>2. CASE Place(l) \in moved
      BY <3>2, <1>1
    <3>3. CASE \E g \in fly : l \in LbasOf(g) /\ g # f
      BY <3>3, <1>1
    <3> QED
      BY <3>1, <3>2, <3>3 DEF Accounted
  <2> QED
    BY <2>1, <2>2, <2>3, <1>1, <1>5
<1> QED
  BY <1>1, <1>3, <1>11, <1>12, <1>13, <1>14, <1>15

-----------------------------------------------------------------------------
(* One turn of unvme_do_rw's loop.                                         *)
LEMMA ChunkFacts ==
  ASSUME GeometryFacts, nlb \in Nat, Chunk > 0
  PROVE  /\ Chunk \in Nat \ {0} /\ Chunk <= nlb /\ Chunk <= ns.maxbpio
         /\ Chunk < nlb => Chunk = ns.maxbpio
         /\ (Chunk - 1) % 2 ^ Width = Chunk - 1
<1> DEFINE W == 2 ^ Width
<1>1. ns.maxbpio \in Nat /\ ns.maxbpio < W /\ W \in Nat
  <2>1. W = ns.pagesize * PagesInWidth /\ ns.pagesize \in Nat /\ PagesInWidth \in Nat
    BY DEF GeometryFacts
  <2>2. ns.pagesize * PagesInWidth \in Nat
    BY <2>1
  <2> QED
    BY <2>1, <2>2 DEF GeometryFacts
<1> HIDE DEF W
<1>2. Chunk \in Nat \ {0} /\ Chunk <= nlb /\ Chunk <= ns.maxbpio
      /\ (Chunk < nlb => Chunk = ns.maxbpio)
  BY <1>1 DEF Chunk
<1>3. (Chunk - 1) % W = Chunk - 1
  BY <1>1, <1>2
<1> QED
  BY <1>2, <1>3 DEF W

\* A bus address of the pool lies in its page as the buffer does in its.
LEMMA SamePageOffset ==
  ASSUME GeometryFacts, NEW b \in Int
  PROVE  /\ aurora_resolve_addr(b) \in Int
         /\ aurora_resolve_addr(b) % ns.pagesize = (b - vemva) % ns.pagesize
<1> DEFINE P == ns.pagesize
           V == PagesInWidth
           o == b - vemva
           q == o \div P
           r == o % P
<1>1. P \in Nat \ {0} /\ V \in Nat /\ 2 ^ Width = P * V
  BY DEF GeometryFacts
<1>2. vemva \in Int /\ pci_vhsaa = 100 * (P * V) /\ o \in Int /\ aurora_resolve_addr(b) = pci_vhsaa + o
  BY <1>1 DEF vemva, pci_vhsaa, aurora_resolve_addr
<1>3. q \in Int /\ r \in 0 .. (P - 1) /\ o = P * q + r
  BY <1>1, <1>2, Division
<1> DEFINE z == aurora_resolve_addr(b)
           k == 100 * V + q
<1> HIDE DEF P, V, o, q, r
<1>4. z = P * k + r /\ k \in Int /\ z \in Int
  BY <1>1, <1>2, <1>3
<1> HIDE DEF z, k
<1>5. z % P = r
  BY <1>1, <1>3, <1>4, DivisionOf
<1> QED
  BY <1>4, <1>5 DEF z, P, r, o

\* After a chunk of the block limit the rest of the I/O is on pages again.
LEMMA RestOnPages ==
  ASSUME GeometryFacts, NEW off \in Int, NEW n \in Nat, NEW rest \in Nat \ {0},
         n = ns.maxbpio, OnPages(off, Bytes(n + rest))
  PROVE  OnPages(off + Bytes(n), Bytes(rest))
<1> DEFINE P == ns.pagesize
           B == BlockSize
           K == BlocksPerPage
           r == off % P
           q == off \div P
           x == Bytes(n)
           y == Bytes(rest)
<1>1. P \in Nat \ {0} /\ B \in Nat \ {0} /\ K \in Nat \ {0} /\ P = B * K
  BY DEF GeometryFacts
<1>2. PICK j \in Nat : n = K * j
  BY DEF GeometryFacts
<1>3. x = n * B /\ y = rest * B /\ Bytes(n + rest) = (n + rest) * B
  BY SizeFacts
<1>4. q \in Int /\ r \in 0 .. (P - 1) /\ off = P * q + r
  BY <1>1, Division
<1>5. r = 0 \/ r + Bytes(n + rest) <= P
  BY DEF OnPages
<1> SUFFICES (off + x) % P = 0 \/ ((off + x) % P) + y <= P
  BY DEF OnPages
<1> HIDE DEF P, B, K, r, q, x, y
<1>6. x \in Nat /\ y \in Nat \ {0} /\ Bytes(n + rest) = x + y
  BY <1>1, <1>3
<1>7. CASE r = 0
  <2>1. x = P * j
    BY <1>1, <1>2, <1>3
  <2>2. off + x = P * (q + j) + 0
    BY <2>1, <1>1, <1>2, <1>4, <1>7
  <2>3. q + j \in Int /\ off + x \in Int /\ 0 \in 0 .. (P - 1)
    BY <1>1, <1>2, <1>4, <1>6
  <2>4. (off + x) % P = 0
    BY <2>2, <2>3, <1>1, DivisionOf
  <2> QED
    BY <2>4
<1>8. CASE r + Bytes(n + rest) <= P
  <2>1. r + x + y <= P /\ r + x \in 0 .. (P - 1)
    BY <1>8, <1>6, <1>4, <1>1
  <2>2. off + x = P * q + (r + x) /\ off + x \in Int
    BY <1>1, <1>4, <1>6
  <2>3. (off + x) % P = r + x
    <3> DEFINE a == off + x
               z == r + x
    <3>1. a \in Int /\ z \in 0 .. (P - 1) /\ a = P * q + z
      BY <2>1, <2>2
    <3> HIDE DEF a, z
    <3>2. a % P = z
      BY <3>1, <1>1, <1>4, DivisionOf
    <3> QED
      BY <3>2 DEF a, z
  <2> QED
    BY <2>1, <2>3
<1> QED
  BY <1>5, <1>7, <1>8

\* What unvme_submit_io writes into the list memory is on the page of its id.
LEMMA ListKept ==
  ASSUME GeometryFacts, NEW c \in Cids, NEW d \in Cids, c # d,
         NEW k \in 1 .. (PrpsPerPage - 1), NEW addr, NEW b,
         NumPages(b) \in Nat, NumPages(b) <= PrpsPerPage,
         FirstEntry(d) + k - 1 \in DOMAIN prplist
  PROVE  ListWith(c, addr, b)[FirstEntry(d) + k - 1] = prplist[FirstEntry(d) + k - 1]
<1> DEFINE i == FirstEntry(d) + k - 1
           m == i - FirstEntry(c) + 1
<1>1. FirstEntry(c) \in Nat /\ FirstEntry(d) \in Nat /\ PrpsPerPage \in Nat
  BY ListIndex DEF GeometryFacts
<1>2. ASSUME i >= FirstEntry(c), i < FirstEntry(c) + NumPages(b) - 1
      PROVE  FALSE
  <2>1. m \in 1 .. (PrpsPerPage - 1) /\ i = FirstEntry(c) + m - 1
    BY <1>1, <1>2
  <2> HIDE DEF m
  <2> QED
    BY <2>1, ListsApart
<1> QED
  BY <1>2 DEF ListWith, FirstEntry

\* What the loop passes in a turn.
LEMMA IntervalSplit ==
  ASSUME NEW a \in Int, NEW s \in Int, NEW t \in Int, a <= s, s < t
  PROVE  /\ a .. (t - 1) = (a .. (s - 1)) \cup (s .. (t - 1))
         /\ (a .. (s - 1)) \cap (s .. (t - 1)) = {}
  OBVIOUS

LEMMA SubmitKeeps ==
  ASSUME Advancing, NEW c \in Cids, unvme_submit_io(c)
  PROVE  Advancing'
<1> USE DEF Advancing
<1> PICK n : n = Chunk
  OBVIOUS
<1> PICK addr : addr = aurora_resolve_addr(buf)
  OBVIOUS
<1> PICK b : b = Bytes(n)
  OBVIOUS
<1> PICK new : new = [cid |-> c, slba |-> slba, nlb |-> (n - 1) % 2 ^ Width,
                      prp1 |-> addr, prp2 |-> Prp2(c, addr, b)]
  OBVIOUS
<1>1. /\ UNCHANGED <<ns, op, io, moved, count>>
      /\ op = "rw" /\ nlb > 0 /\ InPool(buf) /\ c \notin used
      /\ prplist' = ListWith(c, addr, b) /\ fly' = fly \cup {new}
      /\ used' = used \cup {c} /\ buf' = buf + b /\ slba' = slba + n /\ nlb' = nlb - n
  BY DEF unvme_submit_io
<1>2. GeometryFacts
  BY GeometryHolds
<1>3. NsFromGeometry' /\ PrpsPerPage' = PrpsPerPage
  BY <1>1, SameGeometry
<1>4. /\ nlb \in Nat /\ nlb <= MaxNlb /\ buf \in Int /\ slba \in Int
      /\ io.nlb \in Nat /\ io.slba \in Int /\ io.buf \in Int
      /\ nlb <= io.nlb /\ slba = io.slba + (io.nlb - nlb) /\ buf = io.buf + Bytes(io.nlb - nlb)
  BY BoundsAssumption DEF MVarsOK, Running
<1>5. /\ n \in Nat \ {0} /\ n <= nlb /\ n <= ns.maxbpio /\ (n < nlb => n = ns.maxbpio)
      /\ new.nlb = n - 1
  <2>1. n > 0
    BY <1>1, <1>2, <1>4 DEF Chunk, GeometryFacts
  <2> QED
    BY <2>1, <1>1, <1>2, <1>4, ChunkFacts
<1>6. new.cid = c /\ new.slba = slba /\ new.prp1 = addr /\ new.prp2 = Prp2(c, addr, b)
  OBVIOUS
<1>7. b \in Nat \ {0} /\ NumPages(b) \in Nat /\ NumPages(b) <= PrpsPerPage
  BY <1>2, <1>5, SizeFacts, PageCount, CommandFitsList
<1>8. addr \in Int /\ addr % ns.pagesize = (buf - vemva) % ns.pagesize
  BY <1>2, <1>4, SamePageOffset
<1>9. new.prp2 \in Int
  <2>1. ListAddr \in Int /\ PrpOffset(c) \in Int /\ ns.pagesize \in Int
    <3>1. 2 ^ Width \in Int /\ 2 ^ ns.pageshift \in Int /\ c \in Int
      BY <1>2, QSizeAssumption DEF GeometryFacts, Cids
    <3> QED
      BY <3>1, <1>2 DEF ListAddr, PrpOffset, Shl, GeometryFacts
  <2> QED
    BY <2>1, <1>6, <1>8 DEF Prp2
<1>10. n - 1 \in 0 .. (2 ^ Width - 1)
  BY <1>2, <1>5 DEF GeometryFacts
<1>11. /\ slba' \in Int /\ slba' - 1 \in Int /\ io.slba <= slba /\ slba < slba'
       /\ LbasOf(new) = slba .. (slba' - 1)
  <2>1. slba' = slba + n /\ slba \in Int /\ n \in Nat \ {0} /\ slba = io.slba + (io.nlb - nlb)
    BY <1>1, <1>4, <1>5
  <2>2. slba + (n - 1) = slba' - 1 /\ slba' \in Int /\ slba' - 1 \in Int /\ slba < slba'
    BY <2>1
  <2>3. io.slba <= slba
    BY <2>1, <1>4
  <2>4. LbasOf(new) = slba .. (slba + (n - 1))
    BY <1>5, <1>6 DEF LbasOf
  <2> QED
    BY <2>2, <2>3, <2>4
<1>12. prplist' \in [0 .. (QSize * PrpsPerPage - 1) -> Int]
  <2> DEFINE first == FirstEntry(c)
             P == ns.pagesize
  <2>1. first \in Int /\ P \in Int
    <3>1. first = c * PrpsPerPage /\ c \in Int /\ PrpsPerPage \in Int
      BY <1>2, ListPages, QSizeAssumption DEF Cids, GeometryFacts
    <3> QED
      BY <3>1, <1>2 DEF GeometryFacts
  <2>2. prplist' = [i \in DOMAIN prplist |->
                      IF NumPages(b) > 2 /\ i >= first /\ i < first + NumPages(b) - 1
                      THEN addr + (i - first + 1) * P ELSE prplist[i]]
    BY <1>1 DEF ListWith, FirstEntry
  <2>3. prplist \in [0 .. (QSize * PrpsPerPage - 1) -> Int] /\ QSize * PrpsPerPage - 1 \in Int
    BY <1>2, QSizeAssumption DEF MVarsOK, GeometryFacts
  <2> HIDE DEF first, P
  <2>4. \A i \in Int : addr + (i - first + 1) * P \in Int
    BY <2>1, <1>8
  <2> QED
    BY <2>2, <2>3, <2>4
<1>13. MVarsOK'
  <2>1. nlb' \in 0 .. MaxNlb /\ buf' \in Int /\ slba' \in Int
    BY <1>1, <1>4, <1>5, <1>7, BoundsAssumption
  <2>2. new \in [cid : used', slba : Int, nlb : 0 .. (2 ^ Width - 1), prp1 : Int, prp2 : Int]
    BY <1>1, <1>4, <1>5, <1>6, <1>8, <1>9, <1>10
  <2>3. fly' \subseteq [cid : used', slba : Int, nlb : 0 .. (2 ^ Width - 1), prp1 : Int, prp2 : Int]
    BY <2>2, <1>1 DEF MVarsOK
  <2>4. used' \subseteq Cids
    BY <1>1 DEF MVarsOK
  <2> QED
    BY <2>1, <2>3, <2>4, <1>1, <1>3, <1>12 DEF MVarsOK
<1>14. OnPages(buf - vemva, Bytes(nlb))
  BY <1>1 DEF Running
<1>15. Bytes(io.nlb - nlb') = Bytes(io.nlb - nlb) + b /\ Bytes(nlb) = b + Bytes(nlb')
  <2> DEFINE B == BlockSize
             m == io.nlb - nlb
  <2>1. B \in Int /\ m \in Int /\ n \in Int /\ nlb' \in Int /\ io.nlb - nlb' = m + n /\ nlb = n + nlb'
    BY <1>1, <1>2, <1>4, <1>5 DEF GeometryFacts
  <2>2. \A k \in Int : Bytes(k) = k * B
    BY <1>2, SizeFacts
  <2>3. /\ Bytes(m + n) = (m + n) * B /\ Bytes(m) = m * B /\ b = n * B
        /\ Bytes(n + nlb') = (n + nlb') * B /\ Bytes(nlb') = nlb' * B
    BY <2>1, <2>2
  <2> HIDE DEF B, m
  <2>4. (m + n) * B = m * B + n * B /\ (n + nlb') * B = n * B + nlb' * B
    BY <2>1
  <2> QED
    BY <2>1, <2>3, <2>4 DEF m
<1>16. Running'
  <2>1. nlb' <= io.nlb /\ slba' = io.slba + (io.nlb - nlb')
    BY <1>1, <1>4, <1>5
  <2>2. buf' = io.buf + Bytes(io.nlb - nlb')
    <3>1. Bytes(io.nlb - nlb) \in Int
      BY <1>2, <1>4, SizeFacts
    <3> QED
      BY <3>1, <1>1, <1>4, <1>7, <1>15
  <2>3. ASSUME nlb' > 0 PROVE OnPages(buf' - vemva, Bytes(nlb'))
    <3>1. nlb' \in Nat \ {0} /\ n = ns.maxbpio /\ nlb = n + nlb'
      BY <2>3, <1>1, <1>4, <1>5
    <3>2. vemva \in Int
      BY <1>2 DEF GeometryFacts, vemva
    <3>3. buf - vemva \in Int /\ buf' - vemva = (buf - vemva) + b
      BY <3>2, <1>1, <1>4, <1>7
    <3>4. OnPages((buf - vemva) + Bytes(n), Bytes(nlb'))
      BY <3>1, <3>3, <1>2, <1>5, <1>14, RestOnPages
    <3> QED
      BY <3>3, <3>4
  <2>4. /\ (Bytes(io.nlb - nlb))' = Bytes(io.nlb - nlb')
        /\ (OnPages(buf - vemva, Bytes(nlb)))' <=> OnPages(buf' - vemva, Bytes(nlb'))
    BY <1>1 DEF Bytes, OnPages, vemva
  <2> QED
    BY <2>1, <2>2, <2>3, <2>4, <1>1 DEF Running
<1>17. CommandOK(new)'
  <2>1. addr = AddrOf(slba)
    <3>1. slba - io.slba = io.nlb - nlb
      BY <1>4
    <3>2. buf - vemva = (io.buf - vemva) + Bytes(io.nlb - nlb) /\ vemva \in Int /\ pci_vhsaa \in Int
          /\ Bytes(io.nlb - nlb) \in Int
      <4>1. vemva \in Int /\ pci_vhsaa \in Int
        BY <1>2 DEF GeometryFacts, vemva, pci_vhsaa
      <4>2. Bytes(io.nlb - nlb) \in Int
        BY <1>2, <1>4, SizeFacts
      <4> QED
        BY <4>1, <4>2, <1>4
    <3> QED
      BY <3>1, <3>2, <1>4 DEF AddrOf, aurora_resolve_addr
  <2>2. OnPages(addr, b)
    <3>1. (buf - vemva) % ns.pagesize = 0 \/ ((buf - vemva) % ns.pagesize) + Bytes(nlb) <= ns.pagesize
      BY <1>14 DEF OnPages
    <3>2. Bytes(nlb') \in Nat /\ Bytes(nlb) = b + Bytes(nlb')
      <4>1. nlb' \in Nat
        BY <1>1, <1>4, <1>5
      <4>2. Bytes(nlb') = nlb' * BlockSize /\ BlockSize \in Nat
        BY <4>1, <1>2, SizeFacts DEF GeometryFacts
      <4>3. \A x, y \in Nat : x * y \in Nat
        OBVIOUS
      <4>4. Bytes(nlb') \in Nat
        BY <4>1, <4>2, <4>3
      <4> QED
        BY <4>4, <1>15
    <3>3. ns.pagesize \in Nat \ {0} /\ addr % ns.pagesize \in Int
      BY <1>2, <1>8, Division DEF GeometryFacts
    <3> QED
      BY <3>1, <3>2, <3>3, <1>7, <1>8 DEF OnPages
  <2>3. new.nlb + 1 = n
    BY <1>5
  <2>4. ASSUME NEW k \in 1 .. (NumPages(b) - 1), NumPages(b) > 2
        PROVE  /\ FirstEntry(c) + k - 1 \in DOMAIN prplist'
               /\ prplist'[FirstEntry(c) + k - 1] = addr + k * ns.pagesize
    <3>1. k \in 1 .. (PrpsPerPage - 1)
      BY <1>2, <1>7 DEF GeometryFacts
    <3>2. FirstEntry(c) \in Nat /\ FirstEntry(c) + k - 1 \in 0 .. (QSize * PrpsPerPage - 1)
      BY <1>2, <3>1, ListIndex
    <3>3. DOMAIN prplist = 0 .. (QSize * PrpsPerPage - 1) /\ DOMAIN prplist' = DOMAIN prplist
      BY <1>12 DEF MVarsOK
    <3> DEFINE i == FirstEntry(c) + k - 1
    <3>4. i >= FirstEntry(c) /\ i < FirstEntry(c) + NumPages(b) - 1 /\ i - FirstEntry(c) + 1 = k
      BY <3>2, <1>7
    <3>5. i \in DOMAIN prplist
      BY <3>2, <3>3
    <3> HIDE DEF i
    <3>6. prplist'[i] = addr + (i - FirstEntry(c) + 1) * ns.pagesize
      BY <1>1, <2>4, <3>4, <3>5 DEF ListWith, FirstEntry
    <3> QED
      BY <3>3, <3>4, <3>5, <3>6 DEF i
  <2>5. /\ FirstEntry(new.cid)' = FirstEntry(c) /\ PagesOf(new)' = NumPages(b)
        /\ Bytes(new.nlb + 1)' = b
        /\ Prp2(new.cid, new.prp1, Bytes(new.nlb + 1))' = Prp2(c, addr, b)
        /\ OnPages(new.prp1, Bytes(new.nlb + 1))' <=> OnPages(addr, b)
        /\ AddrOf(new.slba)' = AddrOf(slba)
    <3>1. ns' = ns /\ io' = io
      BY <1>1
    <3>2. Bytes(n)' = b /\ NumPages(b)' = NumPages(b) /\ FirstEntry(c)' = FirstEntry(c)
          /\ Prp2(c, addr, b)' = Prp2(c, addr, b) /\ (OnPages(addr, b)' <=> OnPages(addr, b))
      BY <3>1, SameGeometry
    <3>3. \A l : AddrOf(l)' = AddrOf(l)
      BY <3>1, SameIo
    <3>4. PICK l : l = slba
      OBVIOUS
    <3>5. AddrOf(new.slba)' = AddrOf(slba)
      <4>1. new.slba = l
        BY <3>4, <1>6
      <4> QED
        BY <4>1, <3>3, <3>4
    <3> QED
      BY <3>2, <3>5, <2>3, <1>6 DEF PagesOf, Prp2, OnPages
  <2>6. LbasOf(new) \subseteq io.slba .. (slba' - 1)
    BY <1>4, <1>11
  <2> QED
    BY <2>1, <2>2, <2>3, <2>4, <2>5, <2>6, <1>1, <1>5, <1>6 DEF CommandOK, LbasOf
<1>18. ASSUME NEW f \in fly PROVE CommandOK(f)'
  <2>1. f.cid \in Cids /\ f.cid # c /\ f.nlb \in Nat /\ f.prp1 \in Int
    BY <1>1 DEF MVarsOK
  <2>2. CommandOK(f)
    OBVIOUS
  <2>3. LbasOf(f) \subseteq io.slba .. (slba' - 1)
    BY <2>2, <1>1, <1>4, <1>5 DEF CommandOK
  <2>4. f.nlb + 1 \in Nat \ {0} /\ f.nlb + 1 <= ns.maxbpio
    BY <2>1, <2>2 DEF CommandOK
  <2>5. PagesOf(f) \in Nat /\ PagesOf(f) <= PrpsPerPage
    <3>1. Bytes(f.nlb + 1) \in Nat \ {0}
      BY <1>2, <2>4, SizeFacts
    <3> QED
      BY <1>2, <2>4, <3>1, PageCount, CommandFitsList DEF PagesOf
  <2>6. ASSUME NEW k \in 1 .. (PagesOf(f) - 1), PagesOf(f) > 2
        PROVE  /\ FirstEntry(f.cid) + k - 1 \in DOMAIN prplist'
               /\ prplist'[FirstEntry(f.cid) + k - 1] = f.prp1 + k * ns.pagesize
    <3>1. k \in 1 .. (PrpsPerPage - 1)
      BY <1>2, <2>5 DEF GeometryFacts
    <3>2. DOMAIN prplist' = DOMAIN prplist
      BY <1>12 DEF MVarsOK
    <3>3. /\ FirstEntry(f.cid) + k - 1 \in DOMAIN prplist
          /\ prplist[FirstEntry(f.cid) + k - 1] = f.prp1 + k * ns.pagesize
      BY <2>2, <2>6 DEF CommandOK
    <3>4. prplist'[FirstEntry(f.cid) + k - 1] = prplist[FirstEntry(f.cid) + k - 1]
      BY <1>1, <1>2, <1>7, <2>1, <3>1, <3>3, ListKept
    <3> QED
      BY <3>2, <3>3, <3>4
  <2>7. ns' = ns /\ io' = io
    BY <1>1
  <2>8. /\ Bytes(f.nlb + 1)' = Bytes(f.nlb + 1) /\ PagesOf(f)' = PagesOf(f)
        /\ FirstEntry(f.cid)' = FirstEntry(f.cid)
        /\ Prp2(f.cid, f.prp1, Bytes(f.nlb + 1))' = Prp2(f.cid, f.prp1, Bytes(f.nlb + 1))
        /\ OnPages(f.prp1, Bytes(f.nlb + 1))' <=> OnPages(f.prp1, Bytes(f.nlb + 1))
        /\ AddrOf(f.slba)' = AddrOf(f.slba)
    BY <2>7, SameGeometry, SameIo DEF PagesOf, Prp2, NumPages, PrpOffset, OnPages, Bytes
  <2> QED
    BY <2>2, <2>3, <2>6, <2>7, <2>8 DEF CommandOK, LbasOf
<1>19. \A f \in fly : Apart(f, new) /\ Apart(new, f)
  <2> TAKE f \in fly
  <2>1. f.cid # new.cid
    BY <1>1, <1>6 DEF MVarsOK
  <2>2. LbasOf(f) \subseteq io.slba .. (slba - 1)
    BY DEF CommandOK
  <2> QED
    BY <2>1, <2>2, <1>4, <1>11 DEF Apart
<1>20. \A f, g \in fly' : f # g => Apart(f, g)'
  BY <1>1, <1>19 DEF Apart, LbasOf
<1>21. Accounted'
  <2>0. /\ io.slba .. (slba' - 1) = (io.slba .. (slba - 1)) \cup LbasOf(new)
        /\ (io.slba .. (slba - 1)) \cap LbasOf(new) = {}
    BY <1>4, <1>11, IntervalSplit
  <2>1. ASSUME NEW m \in moved
        PROVE  \E l \in io.slba .. (slba' - 1) : m = Place(l) /\ \A f \in fly' : l \notin LbasOf(f)
    <3>1. PICK l \in io.slba .. (slba - 1) : m = Place(l) /\ \A f \in fly : l \notin LbasOf(f)
      BY DEF Accounted
    <3>2. l \in io.slba .. (slba' - 1) /\ l \notin LbasOf(new)
      BY <2>0
    <3> QED
      BY <3>1, <3>2, <1>1
  <2>2. ASSUME NEW l \in io.slba .. (slba' - 1)
        PROVE  Place(l) \in moved \/ \E f \in fly' : l \in LbasOf(f)
    <3>1. l \in io.slba .. (slba - 1) \/ l \in LbasOf(new)
      BY <2>0
    <3> QED
      BY <3>1, <1>1 DEF Accounted
  <2>3. \A l : Place(l)' = Place(l)
    BY <1>1, SameIo
  <2> QED
    BY <2>1, <2>2, <2>3, <1>1 DEF Accounted, LbasOf
<1> QED
  BY <1>1, <1>3, <1>13, <1>16, <1>17, <1>18, <1>20, <1>21

-----------------------------------------------------------------------------
\* While the block limit is 0 no step moves the loop's arguments, and the
\* commands it submits are all for the most blocks.
LEMMA SpinKeeps ==
  ASSUME Spinning, [MNext]_mvars
  PROVE  Spinning'
<1> USE DEF Spinning
<1>1. GeometryFacts
  BY GeometryHolds
<1>2. 2 ^ Width \in Nat \ {0} /\ vemva \in Int /\ Bytes(0) = 0 /\ NumPages(0) = 0
  <2> DEFINE P == ns.pagesize
             V == PagesInWidth
  <2>1. 2 ^ Width = P * V /\ P \in Nat \ {0} /\ V \in Nat \ {0}
    BY <1>1 DEF GeometryFacts
  <2> HIDE DEF P, V
  <2>2. P * V \in Nat \ {0}
    BY <2>1
  <2>3. 2 ^ Width \in Nat \ {0} /\ vemva \in Int
    BY <2>1, <2>2 DEF vemva
  <2>4. Bytes(0) = 0
    BY <1>1, NoBytes
  <2>5. NumPages(0) = (P - 1) \div P
    BY <1>1, <2>1, SizeFacts DEF P
  <2>6. (P - 1) \div P = 0
    <3>1. P - 1 = P * 0 + (P - 1) /\ P - 1 \in 0 .. (P - 1) /\ P - 1 \in Int
      BY <2>1
    <3> QED
      BY <3>1, <2>1, DivisionOf
  <2> QED
    BY <2>3, <2>4, <2>5, <2>6
<1>3. ns' = ns
  BY DEF MNext, HostStep, DeviceStep, mvars, unvme_do_rw, unvme_submit_io,
         unvme_check_completion, do_rw_abort, do_rw_return, Execute
<1>4. NsFromGeometry' /\ ns'.maxbpio = 0 /\ PrpsPerPage' = PrpsPerPage
  BY <1>3, SameGeometry
<1>5. ASSUME NEW off \in Bufs, NEW n \in 0 .. MaxNlb, unvme_do_rw(off, n)
      PROVE  Spinning'
  <2>1. /\ op = "idle" /\ op' = "rw" /\ UNCHANGED <<used, fly, prplist, moved, count>> /\ fly = {}
        /\ io' = [buf |-> vemva + off, slba |-> FirstLba, nlb |-> n]
        /\ buf' = vemva + off /\ slba' = FirstLba /\ nlb' = n
    BY <1>5 DEF unvme_do_rw
  <2>2. off \in Int /\ n \in Nat /\ FirstLba \in Int /\ vemva + off \in Int
    BY <1>2, BoundsAssumption DEF FirstLba
  <2>3. MVarsOK'
    BY <2>1, <2>2, <1>4 DEF MVarsOK
  <2> QED
    BY <2>1, <2>3, <1>4
<1>6. ASSUME NEW c \in Cids, unvme_submit_io(c)
      PROVE  Spinning'
  <2>1. Chunk = 0 /\ nlb \in Nat /\ buf \in Int /\ slba \in Int
    BY <1>6, BoundsAssumption DEF Chunk, MVarsOK, unvme_submit_io
  <2> PICK addr : addr = aurora_resolve_addr(buf)
    OBVIOUS
  <2>2. Prp2(c, addr, 0) = 0 /\ ListWith(c, addr, 0) = prplist
    <3>1. Prp2(c, addr, 0) = 0
      BY <1>2 DEF Prp2
    <3>2. ListWith(c, addr, 0) = [i \in DOMAIN prplist |-> prplist[i]]
      BY <1>2 DEF ListWith
    <3> QED
      BY <3>1, <3>2 DEF MVarsOK
  <2>3. (0 - 1) % 2 ^ Width = 2 ^ Width - 1
    <3> DEFINE W == 2 ^ Width
    <3>1. W \in Nat \ {0}
      BY <1>2
    <3> HIDE DEF W
    <3>2. 0 - 1 = W * (-1) + (W - 1) /\ W - 1 \in 0 .. (W - 1) /\ 0 - 1 \in Int /\ -1 \in Int
      BY <3>1
    <3>3. (0 - 1) % W = W - 1
      BY <3>1, <3>2, DivisionOf
    <3> QED
      BY <3>3 DEF W
  <2> PICK new : new = [cid |-> c, slba |-> slba, nlb |-> 2 ^ Width - 1, prp1 |-> addr, prp2 |-> 0]
    OBVIOUS
  <2>4. /\ UNCHANGED <<op, io, moved, count>> /\ op = "rw"
        /\ prplist' = prplist /\ fly' = fly \cup {new} /\ used' = used \cup {c}
        /\ buf' = buf + 0 /\ slba' = slba + 0 /\ nlb' = nlb - 0
    BY <1>6, <1>2, <2>1, <2>2, <2>3 DEF unvme_submit_io
  <2>5. buf' = buf /\ slba' = slba /\ nlb' = nlb
    BY <2>1, <2>4
  <2>6. new \in [cid : used', slba : Int, nlb : 0 .. (2 ^ Width - 1), prp1 : Int, prp2 : Int]
    <3>1. addr \in Int
      BY <1>1, <2>1, SamePageOffset
    <3> QED
      BY <3>1, <2>1, <2>4, <1>2
  <2>7. fly' \subseteq [cid : used', slba : Int, nlb : 0 .. (2 ^ Width - 1), prp1 : Int, prp2 : Int]
    BY <2>4, <2>6 DEF MVarsOK
  <2>8. MVarsOK'
    BY <2>4, <2>5, <2>7, <1>4 DEF MVarsOK
  <2> QED
    BY <2>4, <2>5, <2>8, <1>4
<1>7. ASSUME NEW c \in Cids, unvme_check_completion(c)
      PROVE  Spinning'
  <2>1. /\ UNCHANGED <<op, io, buf, slba, nlb, fly, prplist, moved, count>>
        /\ used' = used \ {c} /\ \A f \in fly : f.cid # c
    BY <1>7 DEF unvme_check_completion, StillUsed
  <2>2. MVarsOK'
    BY <2>1, <1>4 DEF MVarsOK
  <2> QED
    BY <2>1, <2>2, <1>4
<1>8. ASSUME do_rw_abort \/ do_rw_return
      PROVE  Spinning'
  <2>1. /\ UNCHANGED <<io, buf, slba, nlb, used, fly, prplist, moved, count>>
        /\ op' \in {"abort", "poll", "done"}
    BY <1>8 DEF do_rw_abort, do_rw_return
  <2>2. MVarsOK'
    BY <2>1, <1>4 DEF MVarsOK
  <2> QED
    BY <2>1, <2>2, <1>4
<1>9. ASSUME NEW f \in fly, Execute(f)
      PROVE  Spinning'
  <2>1. /\ UNCHANGED <<op, io, buf, slba, nlb, used, prplist>>
        /\ fly' = fly \ {f} /\ moved' = moved \cup Transfers(f) /\ count' = count + f.nlb + 1
    BY <1>9 DEF Execute
  <2>2. IsFiniteSet(Transfers(f))
    <3>1. f.nlb \in Int
      BY DEF MVarsOK
    <3>2. IsFiniteSet(0 .. f.nlb)
      BY <3>1, FS_Interval
    <3> DEFINE start == f.prp1 % ns.pagesize
               last == (start + Bytes(f.nlb + 1) - 1) \div ns.pagesize
               tr(i) == <<f.slba + i, PageOf(f, (start + Bytes(i)) \div ns.pagesize, last)
                                      + ((start + Bytes(i)) % ns.pagesize)>>
    <3>3. Transfers(f) = {tr(i) : i \in 0 .. f.nlb}
      BY DEF Transfers
    <3> HIDE DEF tr
    <3> DEFINE h == [i \in 0 .. f.nlb |-> tr(i)]
    <3>4. h \in Surjection(0 .. f.nlb, Transfers(f))
      BY <3>3 DEF Surjection
    <3> QED
      BY <3>2, <3>4, FS_Surjection
  <2>3. IsFiniteSet(moved') /\ count' \in Nat
    <3>1. IsFiniteSet(moved) /\ count \in Nat /\ f.nlb \in Nat
      BY DEF MVarsOK
    <3>2. IsFiniteSet(moved \cup Transfers(f))
      BY <3>1, <2>2, FS_Union
    <3> QED
      BY <3>1, <3>2, <2>1
  <2>4. MVarsOK'
    BY <2>1, <2>3, <1>4 DEF MVarsOK
  <2> QED
    BY <2>1, <2>4, <1>4
<1>10. ASSUME UNCHANGED mvars
       PROVE  Spinning'
  <2>1. UNCHANGED <<ns, op, io, buf, slba, nlb, used, fly, prplist, moved, count>>
    BY <1>10 DEF mvars
  <2>2. MVarsOK'
    BY <2>1, <1>4 DEF MVarsOK
  <2> QED
    BY <2>1, <2>2, <1>4
<1> QED
  BY <1>5, <1>6, <1>7, <1>8, <1>9, <1>10 DEF MNext, HostStep, DeviceStep

LEMMA AdvanceKeeps ==
  ASSUME Advancing, [MNext]_mvars
  PROVE  Advancing'
<1>1. CASE \E off \in Bufs, n \in 0 .. MaxNlb : unvme_do_rw(off, n)
  BY <1>1, RwKeeps
<1>2. CASE \E c \in Cids : unvme_submit_io(c)
  BY <1>2, SubmitKeeps
<1>3. CASE \E c \in Cids : unvme_check_completion(c)
  BY <1>3, CompletionKeeps
<1>4. CASE do_rw_abort
  BY <1>4, AbortKeeps
<1>5. CASE do_rw_return
  BY <1>5, ReturnKeeps
<1>6. CASE \E f \in fly : Execute(f)
  BY <1>6, ExecuteKeeps
<1>7. CASE UNCHANGED mvars
  <2>1. UNCHANGED <<ns, op, io, buf, slba, nlb, used, fly, prplist, moved, count>>
    BY <1>7 DEF mvars
  <2>2. NsFromGeometry' /\ PrpsPerPage' = PrpsPerPage
    BY <2>1, SameGeometry DEF Advancing
  <2>3. MVarsOK'
    BY <2>1, <2>2 DEF Advancing, MVarsOK
  <2>4. Running'
    BY <2>1 DEF Advancing, Running, Bytes, OnPages, InPool
  <2>5. \A f \in fly' : CommandOK(f)'
    BY <2>1, SameCommand DEF Advancing
  <2>6. \A f, g : Apart(f, g)' <=> Apart(f, g)
    BY DEF Apart, LbasOf
  <2>7. Accounted'
    BY <2>1, SameIo DEF Advancing, Accounted, LbasOf
  <2> QED
    BY <2>1, <2>2, <2>3, <2>4, <2>5, <2>6, <2>7 DEF Advancing
<1> QED
  BY <1>1, <1>2, <1>3, <1>4, <1>5, <1>6, <1>7 DEF MNext, HostStep, DeviceStep

LEMMA NextInv ==
  ASSUME MInv, [MNext]_mvars
  PROVE  MInv'
  BY SpinKeeps, AdvanceKeeps DEF MInv

\* The invariant of the splitting loop and the PRP lists, for every geometry
\* unvme_ns_init can derive, every queue size and every buffer: the loop
\* advances over commands that are the I/O's, or its block limit wrapped to 0
\* and it submits commands for 2 ^ Width blocks without a second PRP entry.
THEOREM MappingInvariant == MSpec => []MInv
<1> QED
  BY InitInv, NextInv, PTL DEF MSpec

\* Every variable has its type: unvme_do_rw's running block count never goes
\* below 0 and no command's block count leaves its field.
THEOREM MappingTypeCorrect == MSpec => []MTypeOK
<1>1. MInv => MTypeOK
  BY DEF MInv, Advancing, Spinning, MVarsOK, MTypeOK
<1> QED
  BY <1>1, MappingInvariant, PTL

\* For every geometry whose block limit fits its field, unvme_do_rw moves each block of the I/O
\* exactly once, between its place on the namespace and its place in the
\* buffer, and touches no other memory: the limits derived at open keep every
\* chunk on whole pages, and no id's PRP list is overwritten while the
\* controller may still read it.
THEOREM TransfersExact == MSpec => []TransferExact
<1>1. MInv => TransferExact
  <2> SUFFICES ASSUME MInv, ~Wraps
               PROVE  /\ moved \subseteq Wanted
                      /\ count = Cardinality(moved)
                      /\ op = "done" => moved = Wanted
    BY DEF TransferExact
  <2>0. Advancing
    <3>1. CASE Spinning
      <4>1. GeometryFacts /\ ns.maxbpio = 0
        BY <3>1, GeometryHolds DEF Spinning
      <4>2. Shl(ns.maxppio, ns.pageshift - ns.blockshift) = ns.maxppio * BlocksPerPage
        BY DEF Shl, BlocksPerPage
      <4>3. 2 ^ Width <= ns.maxppio * BlocksPerPage
        BY <4>1 DEF GeometryFacts
      <4> QED
        BY <4>2, <4>3 DEF Wraps
    <3> QED
      BY <3>1 DEF MInv
  <2>1. io.slba \in Int /\ io.nlb \in Nat /\ slba = io.slba + (io.nlb - nlb) /\ nlb \in Nat
        /\ nlb <= io.nlb
    BY <2>0, BoundsAssumption DEF Advancing, MVarsOK, Running
  <2>2. \A i \in Int : <<io.slba + i, pci_vhsaa + (io.buf - vemva) + Bytes(i)>> = Place(io.slba + i)
    <3> TAKE i \in Int
    <3>1. PICK l : l = io.slba + i
      OBVIOUS
    <3>2. l - io.slba = i
      BY <3>1, <2>1
    <3>3. Bytes(l - io.slba) = Bytes(i)
      BY <3>2
    <3>4. AddrOf(l) = pci_vhsaa + (io.buf - vemva) + Bytes(i)
      BY <3>3, Zenon DEF AddrOf
    <3> QED
      BY <3>1, <3>4, Zenon DEF Place
  <2>3. Wanted = {Place(io.slba + i) : i \in 0 .. (io.nlb - 1)}
    <3>1. \A i \in 0 .. (io.nlb - 1) : i \in Int
      OBVIOUS
    <3> QED
      BY <3>1, <2>2 DEF Wanted
  <2>4. moved \subseteq Wanted
    <3> SUFFICES ASSUME NEW m \in moved PROVE m \in Wanted
      OBVIOUS
    <3>1. PICK l \in io.slba .. (slba - 1) : m = Place(l)
      BY <2>0 DEF Advancing, Accounted
    <3>2. l - io.slba \in 0 .. (io.nlb - 1) /\ io.slba + (l - io.slba) = l
      BY <2>1
    <3> QED
      BY <3>1, <3>2, <2>3
  <2>5. ASSUME op = "done" PROVE Wanted \subseteq moved
    <3>1. nlb = 0 /\ fly = {}
      BY <2>0, <2>5 DEF Advancing, Running, MVarsOK
    <3> SUFFICES ASSUME NEW i \in 0 .. (io.nlb - 1) PROVE Place(io.slba + i) \in moved
      BY <2>3
    <3>2. io.slba + i \in io.slba .. (slba - 1)
      BY <3>1, <2>1
    <3> QED
      BY <2>0, <3>1, <3>2 DEF Advancing, Accounted
  <2> QED
    BY <2>0, <2>4, <2>5 DEF Advancing, Accounted
<1> QED
  BY <1>1, MappingInvariant, PTL

\* No command in flight is larger than the MDTS the controller reported.
THEOREM CommandsWithinMdts == MSpec => []WithinMdts
<1>1. MInv => WithinMdts
  <2> SUFFICES ASSUME MInv, ns.mdts # 0, NEW f \in fly
               PROVE  Bytes(f.nlb + 1) <= Shl(ns.pagesize, ns.mdts)
    BY DEF WithinMdts
  <2>1. GeometryFacts
    BY GeometryHolds DEF MInv, Advancing, Spinning
  <2>2. f.nlb \in Nat /\ f.nlb + 1 \in Nat \ {0}
    BY DEF MInv, Advancing, Spinning, MVarsOK
  <2>7. f.nlb + 1 <= ns.maxppio * BlocksPerPage
    <3> DEFINE x == ns.maxppio * BlocksPerPage
    <3>0. x \in Int /\ ns.maxbpio \in Int /\ 2 ^ Width \in Int
      <4>1. ns.maxppio \in Nat /\ BlocksPerPage \in Nat /\ ns.maxbpio \in Nat
            /\ 2 ^ Width = ns.pagesize * PagesInWidth /\ ns.pagesize \in Nat /\ PagesInWidth \in Nat
        BY <2>1 DEF GeometryFacts
      <4> QED
        BY <4>1
    <3>1. CASE Advancing
      <4>1. f.nlb + 1 <= ns.maxbpio
        BY <3>1 DEF Advancing, CommandOK
      <4>2. ns.maxbpio <= x
        BY <2>1 DEF GeometryFacts
      <4> HIDE DEF x
      <4> QED
        BY <4>1, <4>2, <3>0, <2>2 DEF x
    <3>2. CASE Spinning
      <4>1. f.nlb = 2 ^ Width - 1 /\ ns.maxbpio = 0
        BY <3>2 DEF Spinning
      <4>2. 2 ^ Width <= x
        BY <4>1, <2>1 DEF GeometryFacts
      <4>3. f.nlb + 1 = 2 ^ Width
        BY <4>1, <3>0
      <4> QED
        BY <4>2, <4>3
    <3> QED
      BY <3>1, <3>2 DEF MInv
  <2>3. Bytes(f.nlb + 1) <= ns.maxppio * ns.pagesize /\ Bytes(f.nlb + 1) \in Nat
    BY <2>1, <2>2, <2>7, CommandWithinPages, SizeFacts
  <2> DEFINE M == ns.maxppio
             D == 2 ^ ns.mdts
             P == ns.pagesize
  <2>4. M \in Nat /\ D \in Nat /\ P \in Nat /\ M <= D
    BY <2>1 DEF GeometryFacts
  <2>5. M * P <= D * P
    <3> HIDE DEF M, D, P
    <3> QED
      BY <2>4, ProductOrder
  <2>6. Shl(ns.pagesize, ns.mdts) = D * P /\ M * P \in Int /\ D * P \in Int
    BY <2>4 DEF Shl
  <2> QED
    BY <2>3, <2>5, <2>6
<1> QED
  BY <1>1, MappingInvariant, PTL
=============================================================================
