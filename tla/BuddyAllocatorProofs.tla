------------------------ MODULE BuddyAllocatorProofs ------------------------
(***************************************************************************)
(* Proofs about BuddyAllocator for every number of threads, lists, levels  *)
(* and blocks: the pool stays partitioned and a buddy system.              *)
(***************************************************************************)
EXTENDS BuddyAllocator, ListLemmas

PoolEnd == Blocks * 2^MaxLevel
Block == [addr : Units, level : Levels]
Blk(a, l) == [addr |-> a, level |-> l]

\* Unit u is one of block x; x lies in the pool and is aligned to its size.
In(u, x) == x.addr <= u /\ u < x.addr + 2^x.level
Whole(x) == x.addr + 2^x.level <= PoolEnd /\ x.addr % 2^x.level = 0

\* Who may have a block, and the blocks everyone has, as pairs of the two.
Pair(x, p) == [block |-> x, by |-> p]
BlockOf(h) == h.block
Of(D, p) == {Pair(x, p) : x \in D}
User == <<"used">>
Nobody == <<"stranded">>
Pool == <<"global">>
Thread(t) == <<"thread", t>>
FreeBlocks(free) == {x \in Block : x.addr \in ToSet(free[x.level])}
PoolBlocks(list) == {x \in Block : x.level = MaxLevel /\ x.addr \in ToSet(list)}
HeldIn(U, S, G, F) ==
    Of(U, User) \cup Of(S, Nobody) \cup Of(PoolBlocks(G), Pool)
    \cup UNION {Of(FreeBlocks(F[t]), Thread(t)) : t \in Threads}
Held == HeldIn(used, stranded, global_freelist, freelist)

BVarsOK ==
    /\ global_freelist \in Seq(Units)
    /\ freelist \in [Threads -> [Levels -> Seq(Units)]]
    /\ freelist_current_index \in 0 .. MaxLists
    /\ freelist_index \in [Threads -> -1 .. (MaxLists - 1)]
    /\ lock \in BOOLEAN /\ up \in BOOLEAN
    /\ pc \in [Threads -> {"idle", "spin", "locked"}] /\ want \in [Threads -> Levels]
    /\ used \subseteq Block /\ stranded \subseteq Block

\* Each unit is in one block of the pairs in H, and that one has one holder.
Covered(u, H) == \E h \in H : In(u, BlockOf(h))
Apart(H) == \A h, g \in H, u \in Units : In(u, BlockOf(h)) /\ In(u, BlockOf(g)) => h = g
Tiled(H) == Apart(H) /\ \A u \in Units : Covered(u, H)

\* A list is in address order; a thread's list has no two halves of a block.
Ascending(list) == \A i, j \in DOMAIN list : i < j => list[i] < list[j]
Unmerged(S, l) == \A x, y \in S : ~MergesWith(x, y, l)
ListsOK(free) == \A l \in Levels : Ascending(free[l]) /\ Unmerged(ToSet(free[l]), l)

BInv ==
    /\ BVarsOK
    /\ \A h \in Held : Whole(BlockOf(h))
    /\ up => Tiled(Held)
    /\ Ascending(global_freelist)
    /\ \A t \in Threads : ListsOK(freelist[t])
    \* A thread in the allocator has found its lists empty.
    /\ \A t \in Threads : pc[t] # "idle" => \A k \in want[t] .. MaxLevel : freelist[t][k] = <<>>

-----------------------------------------------------------------------------
(* Sizes and alignment.                                                    *)
LEMMA Powers ==
  /\ MaxLevel \in Nat /\ Levels \subseteq Nat
  /\ \A k \in 0 .. (MaxLevel + 1) : 2^k \in Nat \ {0}
  /\ \A k \in Levels : 2^(k + 1) = 2 * 2^k
  /\ \A k, j \in 0 .. (MaxLevel + 1) : k <= j => \E q \in Nat \ {0} : 2^j = 2^k * q
<1>1. MaxLevel \in Nat /\ Levels = 0 .. MaxLevel
  BY PoolAssumption DEF Levels
<1>2. \A k \in 0 .. (MaxLevel + 1) : 2^k \in Nat \ {0}
  BY PowerAssumption
<1>3. \A k \in Levels : 2^(k + 1) = 2 * 2^k
  <2> TAKE k \in Levels
  <2>1. k + 1 \in 0 .. (MaxLevel + 1) /\ 1 \in 0 .. (k + 1)
    BY <1>1
  <2>2. \A m \in 0 .. (MaxLevel + 1) : \A n \in 0 .. m : 2^m = 2^n * 2^(m - n)
    BY PowerAssumption, Zenon
  <2>4. \A n \in 0 .. (k + 1) : 2^(k + 1) = 2^n * 2^((k + 1) - n)
    BY <2>1, <2>2, Zenon
  <2>5. 2^(k + 1) = 2^1 * 2^((k + 1) - 1)
    BY <2>1, <2>4, Zenon
  <2>3. 2^1 = 2
    OBVIOUS
  <2>6. PICK n : n = (k + 1) - 1 /\ n = k
    BY <1>1
  <2> QED
    BY <2>3, <2>5, <2>6, Zenon
<1>4. ASSUME NEW k \in 0 .. (MaxLevel + 1), NEW j \in 0 .. (MaxLevel + 1), k <= j
      PROVE  \E q \in Nat \ {0} : 2^j = 2^k * q
  <2>1. k \in 0 .. j /\ j - k \in 0 .. (MaxLevel + 1)
    BY <1>1, <1>4
  <2>2. 2^j = 2^k * 2^(j - k) /\ 2^(j - k) \in Nat \ {0}
    BY <2>1, PowerAssumption, Zenon
  <2> QED
    BY <2>2
<1> QED
  BY <1>1, <1>2, <1>3, <1>4

LEMMA PowerOrder ==
  ASSUME NEW k \in 0 .. (MaxLevel + 1), NEW j \in 0 .. (MaxLevel + 1), k <= j
  PROVE  2^k <= 2^j
<1>1. PICK q \in Nat \ {0} : 2^j = 2^k * q
  BY Powers
<1>2. \A x \in Nat, y \in Nat \ {0} : x <= x * y
  OBVIOUS
<1>3. 2^k \in Nat
  BY Powers
<1> QED
  BY <1>1, <1>2, <1>3

LEMMA PoolFacts ==
  PoolEnd \in Nat \ {0} /\ Units = 0 .. (PoolEnd - 1) /\ Units \subseteq Nat
<1>1. Blocks \in Nat \ {0} /\ 2^MaxLevel \in Nat \ {0}
  BY Powers, PoolAssumption
<1>2. \A x, y \in Nat \ {0} : x * y \in Nat \ {0}
  OBVIOUS
<1>3. PoolEnd \in Nat \ {0} /\ Units = 0 .. (PoolEnd - 1)
  BY <1>1, <1>2 DEF PoolEnd, Units
<1> QED
  BY <1>3

LEMMA AlignedIff ==
  ASSUME NEW a \in Int, NEW p \in Nat \ {0}
  PROVE  a % p = 0 <=> \E q \in Int : a = p * q
<1>1. a % p = 0 => \E q \in Int : a = p * q
  <2> HAVE a % p = 0
  <2>1. PICK q \in Int, r \in Int : a = p * q + r /\ r = a % p
    <3>1. a \div p \in Int /\ a % p \in Int /\ a = p * (a \div p) + (a % p)
      BY Division
    <3> QED
      BY <3>1
  <2>2. p * q \in Int /\ r = 0
    BY <2>1
  <2> QED
    BY <2>1, <2>2
<1>2. ASSUME NEW q \in Int, a = p * q PROVE a % p = 0
  <2>1. 0 \in 0 .. (p - 1) /\ a = p * q + 0
    BY <1>2
  <2> QED
    BY <2>1, DivisionOf
<1> QED
  BY <1>1, <1>2

\* What is aligned to a size is aligned to every smaller one ...
LEMMA AlignedDown ==
  ASSUME NEW a \in Int, NEW k \in 0 .. (MaxLevel + 1), NEW j \in 0 .. (MaxLevel + 1), k <= j,
         a % 2^j = 0
  PROVE  a % 2^k = 0
<1>1. 2^k \in Nat \ {0} /\ 2^j \in Nat \ {0}
  BY Powers
<1>2. PICK q \in Nat \ {0} : 2^j = 2^k * q
  BY Powers
<1>3. PICK r \in Int : a = 2^j * r
  BY <1>1, AlignedIff
<1> DEFINE x == 2^k
           y == 2^j
<1> HIDE DEF x, y
<1>4. a = x * (q * r) /\ q * r \in Int
  <2>1. y = x * q /\ a = y * r /\ x \in Nat /\ y \in Nat
    BY <1>1, <1>2, <1>3 DEF x, y
  <2> QED
    BY <2>1
<1>5. \E s \in Int : a = x * s
  BY <1>4
<1> QED
  BY <1>1, <1>5, AlignedIff DEF x

\* ... two numbers aligned to a size are equal or that far apart ...
LEMMA AlignedApart ==
  ASSUME NEW a \in Int, NEW c \in Int, NEW p \in Nat \ {0}, a % p = 0, c % p = 0, a < c
  PROVE  a + p <= c
<1>1. PICK q \in Int : a = p * q
  BY AlignedIff
<1>2. PICK r \in Int : c = p * r
  BY AlignedIff
<1>3. q < r
  <2>1. CASE r <= q
    <3>1. p * r <= p * q
      BY <2>1
    <3> QED
      BY <3>1, <1>1, <1>2
  <2> QED
    BY <2>1
<1>4. p * (q + 1) <= p * r
  BY <1>3
<1>5. p * (q + 1) = p * q + p
  OBVIOUS
<1> QED
  BY <1>1, <1>2, <1>4, <1>5

\* ... and so is the sum of one of them and the size.
LEMMA AlignedNext ==
  ASSUME NEW a \in Int, NEW p \in Nat \ {0}, a % p = 0
  PROVE  (a + p) % p = 0
<1>1. PICK q \in Int : a = p * q
  BY AlignedIff
<1>2. a + p = p * (q + 1) /\ q + 1 \in Int
  BY <1>1
<1>3. PICK x \in Int : x = a + p
  OBVIOUS
<1>4. \E s \in Int : x = p * s
  BY <1>2, <1>3
<1>5. x % p = 0
  BY <1>4, AlignedIff
<1> QED
  BY <1>3, <1>5

-----------------------------------------------------------------------------
(* Lists in address order.                                                 *)
LEMMA AscendingDistinct ==
  ASSUME NEW s \in Seq(Units), Ascending(s)
  PROVE  Distinct(s)
<1>1. \A i \in DOMAIN s : s[i] \in Int /\ i \in Int
  BY PoolFacts
<1> QED
  BY <1>1 DEF Ascending, Distinct

LEMMA AscendingTail ==
  ASSUME NEW s \in Seq(Units), s # <<>>, Ascending(s)
  PROVE  /\ Head(s) \in Units /\ Tail(s) \in Seq(Units) /\ Head(s) \in ToSet(s)
         /\ ToSet(Tail(s)) = ToSet(s) \ {Head(s)} /\ Ascending(Tail(s))
<1>1. PICK r : r = Tail(s)
  OBVIOUS
<1>2. /\ Len(s) \in Nat \ {0} /\ DOMAIN s = 1 .. Len(s) /\ DOMAIN r = 1 .. (Len(s) - 1)
      /\ \A i \in DOMAIN r : r[i] = s[i + 1]
  BY <1>1
<1>3. Ascending(r)
  BY <1>2 DEF Ascending
<1> QED
  BY <1>1, <1>3, AscendingDistinct, TailList

LEMMA AscendingRemove ==
  ASSUME NEW s \in Seq(Units), NEW i \in DOMAIN s, Ascending(s)
  PROVE  /\ RemoveAt(s, i) \in Seq(Units) /\ Ascending(RemoveAt(s, i))
         /\ ToSet(RemoveAt(s, i)) = ToSet(s) \ {s[i]}
<1>1. PICK r : r = RemoveAt(s, i)
  OBVIOUS
<1>2. /\ r \in Seq(Units) /\ Len(r) = Len(s) - 1
      /\ \A j \in 1 .. (i - 1) : r[j] = s[j]
      /\ \A j \in i .. (Len(s) - 1) : r[j] = s[j + 1]
  BY <1>1, RemoveAtSeq
<1>3. Len(s) \in Nat /\ DOMAIN s = 1 .. Len(s) /\ DOMAIN r = 1 .. (Len(s) - 1)
  BY <1>2
<1>4. ASSUME NEW j \in DOMAIN r, NEW k \in DOMAIN r, j < k PROVE r[j] < r[k]
  <2>1. PICK a \in DOMAIN s : r[j] = s[a] /\ a = IF j < i THEN j ELSE j + 1
    BY <1>2, <1>3
  <2>2. PICK b \in DOMAIN s : r[k] = s[b] /\ b = IF k < i THEN k ELSE k + 1
    BY <1>2, <1>3
  <2>3. a < b
    BY <1>3, <1>4, <2>1, <2>2
  <2> QED
    BY <2>1, <2>2, <2>3 DEF Ascending
<1>5. Ascending(r)
  BY <1>4 DEF Ascending
<1> QED
  BY <1>1, <1>2, <1>5, AscendingDistinct, RemoveList

LEMMA EmptyList ==
  <<>> \in Seq(Units) /\ Ascending(<<>>) /\ ToSet(<<>>) = {}
<1>1. <<>> \in Seq(Units) /\ DOMAIN <<>> = {}
  OBVIOUS
<1>2. ToSet(<<>>) = {}
  BY <1>1 DEF ToSet
<1> QED
  BY <1>1, <1>2 DEF Ascending

LEMMA AscendingPart ==
  ASSUME NEW s \in Seq(Units), Ascending(s), NEW m \in Nat \ {0}, NEW n \in 0 .. Len(s)
  PROVE  /\ SubSeq(s, m, n) \in Seq(Units) /\ Ascending(SubSeq(s, m, n))
         /\ ToSet(SubSeq(s, m, n)) = {s[k] : k \in m .. n}
<1>1. PICK r : r = SubSeq(s, m, n)
  OBVIOUS
<1>2. Len(s) \in Nat /\ DOMAIN s = 1 .. Len(s)
  OBVIOUS
<1>3. CASE m <= n
  <2>1. /\ r \in Seq(Units) /\ Len(r) = n - m + 1
        /\ \A k \in 1 .. (n - m + 1) : r[k] = s[m + k - 1]
    <3>1. m \in 1 .. (Len(s) + 1) /\ n \in (m - 1) .. Len(s)
      BY <1>2, <1>3
    <3> QED
      BY <3>1, <1>1, SubSeqAt
  <2>2. DOMAIN r = 1 .. (n - m + 1)
    BY <2>1, <1>3
  <2>3. Ascending(r)
    <3> SUFFICES ASSUME NEW i \in DOMAIN r, NEW j \in DOMAIN r, i < j PROVE r[i] < r[j]
      BY DEF Ascending
    <3>1. PICK x \in DOMAIN s : r[i] = s[x] /\ x = m + i - 1
      BY <2>1, <2>2, <1>2
    <3>2. PICK y \in DOMAIN s : r[j] = s[y] /\ y = m + j - 1
      BY <2>1, <2>2, <1>2
    <3>3. x < y
      BY <3>1, <3>2, <2>2
    <3> QED
      BY <3>1, <3>2, <3>3 DEF Ascending
  <2>4. ASSUME NEW k \in m .. n PROVE s[k] \in ToSet(r)
    <3>1. k - m + 1 \in DOMAIN r /\ m + (k - m + 1) - 1 = k
      BY <2>2
    <3>2. r[k - m + 1] = s[k]
      BY <3>1, <2>1, <2>2
    <3> QED
      BY <3>1, <3>2 DEF ToSet
  <2>5. ASSUME NEW k \in DOMAIN r PROVE r[k] \in {s[i] : i \in m .. n}
    <3>1. m + k - 1 \in m .. n /\ r[k] = s[m + k - 1]
      BY <2>1, <2>2
    <3> QED
      BY <3>1
  <2>6. ToSet(r) = {s[k] : k \in m .. n}
    BY <2>4, <2>5 DEF ToSet
  <2> QED
    BY <2>1, <2>3, <2>6, <1>1
<1>4. CASE ~(m <= n)
  <2>1. r = <<>>
    <3>1. \A k \in m .. n : s[k] \in Units
      BY <1>2, <1>4
    <3> QED
      BY <3>1, <1>1, <1>4
  <2>2. {s[k] : k \in m .. n} = {}
    BY <1>4
  <2> QED
    BY <2>1, <2>2, <1>1, EmptyList, Zenon
<1> QED
  BY <1>3, <1>4

\* A block goes in front of the first one behind it.
LEMMA AscendingInsert ==
  ASSUME NEW s \in Seq(Units), Ascending(s), NEW a \in Units, a \notin ToSet(s)
  PROVE  /\ InsertPos(s, a) \in 1 .. (Len(s) + 1)
         /\ \A j \in DOMAIN s : (j < InsertPos(s, a) => s[j] < a) /\ (InsertPos(s, a) <= j => a < s[j])
         /\ InsertAt(s, InsertPos(s, a), a) \in Seq(Units)
         /\ Ascending(InsertAt(s, InsertPos(s, a), a))
         /\ ToSet(InsertAt(s, InsertPos(s, a), a)) = ToSet(s) \cup {a}
<1>1. Len(s) \in Nat /\ DOMAIN s = 1 .. Len(s) /\ a \in Int /\ \A j \in DOMAIN s : s[j] \in Int /\ s[j] # a
  BY PoolFacts DEF ToSet
<1>2. PICK T : T = {j \in DOMAIN s : a < s[j]} \cup {Len(s) + 1}
  OBVIOUS
<1>3. PICK i : i = InsertPos(s, a)
  OBVIOUS
<1>4. i \in T /\ \A j \in T : i <= j
  <2>1. T \in SUBSET Nat /\ T # {}
    BY <1>1, <1>2
  <2> QED
    BY <2>1, <1>2, <1>3, MinIsLeast DEF InsertPos
<1>5. i \in 1 .. (Len(s) + 1)
  BY <1>1, <1>2, <1>4
<1>6. ASSUME NEW j \in DOMAIN s, j < i PROVE s[j] < a
  BY <1>1, <1>2, <1>4, <1>5, <1>6
<1>7. ASSUME NEW j \in DOMAIN s, i <= j PROVE a < s[j]
  <2>1. i \in DOMAIN s /\ a < s[i]
    BY <1>1, <1>2, <1>4, <1>5, <1>7
  <2> QED
    BY <2>1, <1>1, <1>7 DEF Ascending
<1>8. PICK r : r = InsertAt(s, i, a)
  OBVIOUS
<1>9. /\ r \in Seq(Units) /\ Len(r) = Len(s) + 1
      /\ \A k \in 1 .. (i - 1) : r[k] = s[k]
      /\ r[i] = a
      /\ \A k \in (i + 1) .. (Len(s) + 1) : r[k] = s[k - 1]
  <2>1. /\ InsertAt(s, i, a) \in Seq(Units) /\ Len(InsertAt(s, i, a)) = Len(s) + 1
        /\ \A k \in 1 .. (i - 1) : InsertAt(s, i, a)[k] = s[k]
        /\ InsertAt(s, i, a)[i] = a
        /\ \A k \in (i + 1) .. (Len(s) + 1) : InsertAt(s, i, a)[k] = s[k - 1]
    BY <1>5, InsertAtSeq
  <2> QED
    BY <2>1, <1>8, Zenon
<1>10. DOMAIN r = 1 .. (Len(s) + 1)
  <2>1. r \in Seq(Units) /\ Len(r) = Len(s) + 1
    BY <1>9
  <2> QED
    BY <2>1
<1>11. ASSUME NEW j \in DOMAIN r, NEW k \in DOMAIN r, j < k PROVE r[j] < r[k]
  <2>1. CASE j = i
    <3>1. k - 1 \in DOMAIN s /\ i <= k - 1 /\ r[k] = s[k - 1]
      BY <2>1, <1>1, <1>5, <1>9, <1>10, <1>11
    <3> QED
      BY <3>1, <2>1, <1>7, <1>9
  <2>2. CASE k = i
    <3>1. j \in DOMAIN s /\ j < i /\ r[j] = s[j]
      BY <2>2, <1>1, <1>5, <1>9, <1>10, <1>11
    <3> QED
      BY <3>1, <2>2, <1>6, <1>9
  <2>3. CASE j # i /\ k # i
    <3>1. PICK x \in DOMAIN s : r[j] = s[x] /\ x = IF j < i THEN j ELSE j - 1
      BY <2>3, <1>1, <1>5, <1>9, <1>10
    <3>2. PICK y \in DOMAIN s : r[k] = s[y] /\ y = IF k < i THEN k ELSE k - 1
      BY <2>3, <1>1, <1>5, <1>9, <1>10
    <3>3. x < y
      BY <2>3, <3>1, <3>2, <1>1, <1>5, <1>10, <1>11
    <3> QED
      BY <3>1, <3>2, <3>3 DEF Ascending
  <2> QED
    BY <2>1, <2>2, <2>3
<1>12. Ascending(r)
  BY <1>11 DEF Ascending
<1>13. ToSet(r) = ToSet(s) \cup {a}
  <2>1. ASSUME NEW j \in DOMAIN r PROVE r[j] \in ToSet(s) \cup {a}
    <3>1. CASE j # i
      <4>1. PICK x \in DOMAIN s : r[j] = s[x]
        <5>1. (IF j < i THEN j ELSE j - 1) \in DOMAIN s /\ r[j] = s[IF j < i THEN j ELSE j - 1]
          BY <3>1, <1>1, <1>5, <1>9, <1>10
        <5> QED
          BY <5>1
      <4> QED
        BY <4>1 DEF ToSet
    <3> QED
      BY <3>1, <1>9
  <2>2. ASSUME NEW j \in DOMAIN s PROVE s[j] \in ToSet(r)
    <3>1. PICK x \in DOMAIN r : r[x] = s[j]
      <4>1. CASE j < i
        BY <4>1, <1>1, <1>5, <1>9, <1>10
      <4>2. CASE ~(j < i)
        <5>1. j + 1 \in (i + 1) .. (Len(s) + 1) /\ j + 1 \in DOMAIN r /\ (j + 1) - 1 = j
          BY <4>2, <1>1, <1>5, <1>10
        <5> QED
          BY <5>1, <1>9
      <4> QED
        BY <4>1, <4>2
    <3> QED
      BY <3>1 DEF ToSet
  <2>3. a \in ToSet(r)
    BY <1>1, <1>5, <1>9, <1>10 DEF ToSet
  <2> QED
    BY <2>1, <2>2, <2>3 DEF ToSet
<1> QED
  BY <1>3, <1>5, <1>6, <1>7, <1>8, <1>9, <1>12, <1>13

-----------------------------------------------------------------------------
(* Blocks and the units they cover.                                        *)
\* Blocks that others replace unit for unit leave the pool tiled.
LEMMA ReplaceTiled ==
  ASSUME NEW H, NEW Old, NEW New, Tiled(H), Old \subseteq H, Apart(New),
         \A u \in Units : Covered(u, Old) <=> Covered(u, New)
  PROVE  Tiled((H \ Old) \cup New)
<1>1. ASSUME NEW h \in H \ Old, NEW g \in New, NEW u \in Units, In(u, BlockOf(h)), In(u, BlockOf(g)) PROVE FALSE
  <2>1. Covered(u, New)
    BY <1>1 DEF Covered
  <2>2. PICK o \in Old : In(u, BlockOf(o))
    BY <2>1 DEF Covered
  <2>3. h = o
    BY <1>1, <2>2 DEF Tiled, Apart
  <2> QED
    BY <2>2, <2>3
<1>2. Apart((H \ Old) \cup New)
  <2> SUFFICES ASSUME NEW h \in (H \ Old) \cup New, NEW g \in (H \ Old) \cup New, NEW u \in Units,
                      In(u, BlockOf(h)), In(u, BlockOf(g))
               PROVE  h = g
    BY DEF Apart
  <2>1. CASE h \in H \ Old /\ g \in H \ Old
    BY <2>1 DEF Tiled, Apart
  <2>2. CASE h \in New /\ g \in New
    BY <2>2 DEF Apart
  <2> QED
    BY <2>1, <2>2, <1>1
<1>3. ASSUME NEW u \in Units PROVE Covered(u, (H \ Old) \cup New)
  <2>1. PICK h \in H : In(u, BlockOf(h))
    BY DEF Tiled, Covered
  <2>2. CASE h \in Old
    BY <2>1, <2>2 DEF Covered
  <2> QED
    BY <2>1, <2>2 DEF Covered
<1> QED
  BY <1>2, <1>3 DEF Tiled

LEMMA BlkFacts ==
  ASSUME NEW a, NEW l
  PROVE  /\ Blk(a, l).addr = a /\ Blk(a, l).level = l
         /\ Blk(a, l) \in Block <=> a \in Units /\ l \in Levels
         /\ \A u : In(u, Blk(a, l)) <=> a <= u /\ u < a + 2^l
         /\ Whole(Blk(a, l)) <=> a + 2^l <= PoolEnd /\ a % 2^l = 0
  BY DEF Blk, Block, In, Whole

LEMMA BlockIs ==
  ASSUME NEW x \in Block
  PROVE  x.addr \in Units /\ x.level \in Levels /\ x = Blk(x.addr, x.level)
  BY DEF Blk, Block

LEMMA FirstUnit ==
  ASSUME NEW x \in Block
  PROVE  x.addr \in Units /\ In(x.addr, x)
<1>1. x.addr \in Nat /\ x.level \in Levels /\ x.addr \in Units
  BY BlockIs, PoolFacts
<1>2. x.level \in 0 .. (MaxLevel + 1)
  BY <1>1, Powers DEF Levels
<1>3. 2^x.level \in Nat \ {0}
  BY <1>2, Powers
<1> QED
  BY <1>1, <1>3 DEF In

\* A block that is cut down to level l covers what it covers together with the
\* right halves, which are as aligned as it was.
Halves(a, l, j) == {Blk(RightHalf(a, k), k) : k \in l .. (j - 1)}
LEMMA SplitTiles ==
  ASSUME NEW a \in Units, NEW j \in Levels, NEW l \in 0 .. j, Whole(Blk(a, j))
  PROVE  /\ l \in Levels /\ Whole(Blk(a, l))
         /\ \A k \in l .. (j - 1) : /\ k \in Levels /\ RightHalf(a, k) \in Units
                                    /\ Whole(Blk(RightHalf(a, k), k))
         /\ \A u \in Units : In(u, Blk(a, j)) <=>
                In(u, Blk(a, l)) \/ \E k \in l .. (j - 1) : In(u, Blk(RightHalf(a, k), k))
         /\ \A u \in Units : \A k \in l .. (j - 1) :
                In(u, Blk(RightHalf(a, k), k)) =>
                    /\ ~In(u, Blk(a, l))
                    /\ \A m \in l .. (j - 1) : In(u, Blk(RightHalf(a, m), m)) => m = k
<1>0. a \in Nat
  BY PoolFacts
<1>1. /\ MaxLevel \in Nat /\ Levels = 0 .. MaxLevel /\ l \in Levels /\ a \in Nat
      /\ a + 2^j <= PoolEnd /\ a % 2^j = 0 /\ PoolEnd \in Nat /\ Units = 0 .. (PoolEnd - 1)
  BY Powers, PoolFacts, BlkFacts DEF Levels
<1>2. \A k \in l .. j : k \in Levels /\ k \in 0 .. (MaxLevel + 1)
  BY <1>1
<1>3. PICK p : p = [k \in l .. j |-> 2^k]
  OBVIOUS
<1>4. \A k \in l .. j : p[k] = 2^k /\ p[k] \in Nat \ {0}
  BY <1>2, <1>3, Powers
<1>5. ASSUME NEW k \in l .. (j - 1) PROVE k \in l .. j /\ k + 1 \in l .. j /\ p[k + 1] = p[k] + p[k]
  <2>1. k \in l .. j /\ k + 1 \in l .. j
    BY <1>1
  <2>2. p[k] = 2^k /\ p[k + 1] = 2^(k + 1) /\ p[k] \in Nat
    BY <2>1, <1>4
  <2>3. 2^(k + 1) = 2 * 2^k
    BY <2>1, <1>2, Powers
  <2>4. p[k + 1] = 2 * p[k]
    BY <2>2, <2>3, Zenon
  <2> QED
    BY <2>1, <2>2, <2>4
<1>6. \A k, m \in l .. j : k <= m => p[k] <= p[m]
  BY <1>2, <1>4, PowerOrder
<1>7. \A k \in l .. j : a % 2^k = 0
  BY <1>1, <1>2, AlignedDown
<1>8. l \in l .. j /\ j \in l .. j
  BY <1>1
<1>9. Whole(Blk(a, l))
  <2>1. a + p[l] <= PoolEnd /\ p[l] = 2^l
    BY <1>1, <1>4, <1>6, <1>8
  <2> QED
    BY <2>1, <1>7, <1>8, BlkFacts
<1>10. ASSUME NEW k \in l .. (j - 1)
       PROVE  k \in Levels /\ RightHalf(a, k) \in Units /\ Whole(Blk(RightHalf(a, k), k))
  <2>1. a + p[k] + p[k] <= PoolEnd /\ p[k] = 2^k /\ p[k] \in Nat \ {0} /\ k \in Levels
    <3>1. k + 1 <= j
      BY <1>1
    <3>2. p[k + 1] <= p[j]
      BY <3>1, <1>5, <1>6, <1>8
    <3>3. /\ k \in l .. j /\ p[k] \in Nat \ {0} /\ p[k] = 2^k /\ p[j] \in Nat /\ p[j] = 2^j
          /\ k \in Levels
      BY <1>2, <1>4, <1>5, <1>8
    <3>4. a + p[j] <= PoolEnd /\ PoolEnd \in Nat
      BY <3>3, <1>1, Zenon
    <3>5. p[k + 1] = p[k] + p[k]
      BY <1>5
    <3>6. a + p[k] + p[k] <= PoolEnd
      BY <3>2, <3>3, <3>4, <3>5, <1>0
    <3> QED
      BY <3>3, <3>6
  <2>2. (a + 2^k) % 2^k = 0
    BY <2>1, <1>1, <1>5, <1>7, AlignedNext
  <2>3. RightHalf(a, k) \in Units /\ RightHalf(a, k) + 2^k <= PoolEnd
    BY <2>1, <1>1 DEF RightHalf
  <2> QED
    BY <2>1, <2>2, <2>3, BlkFacts DEF RightHalf
<1>11. \A u \in Units : \A k \in l .. j : In(u, Blk(a, k)) <=> a <= u /\ u < a + p[k]
  BY <1>4, BlkFacts
<1>12. \A u \in Units : \A k \in l .. (j - 1) :
           In(u, Blk(RightHalf(a, k), k)) <=> a + p[k] <= u /\ u < a + p[k + 1]
  <2> TAKE u \in Units
  <2> TAKE k \in l .. (j - 1)
  <2>1. In(u, Blk(RightHalf(a, k), k)) <=> a + p[k] <= u /\ u < a + p[k] + p[k]
    BY <1>4, <1>5, BlkFacts DEF RightHalf
  <2>2. a + p[k] + p[k] = a + p[k + 1]
    BY <1>1, <1>4, <1>5
  <2> QED
    BY <2>1, <2>2
<1>13. ASSUME NEW u \in Units, In(u, Blk(a, j))
       PROVE  In(u, Blk(a, l)) \/ \E k \in l .. (j - 1) : In(u, Blk(RightHalf(a, k), k))
  <2> DEFINE T == {k \in l .. j : u < a + p[k]}
  <2>1. T \in SUBSET Nat /\ T # {} /\ u \in Nat /\ a <= u
    BY <1>1, <1>8, <1>11, <1>13
  <2>2. PICK m \in T : \A k \in T : m <= k
    BY <2>1, Least
  <2>3. CASE m = l
    BY <2>1, <2>2, <2>3, <1>8, <1>11
  <2>4. CASE m # l
    <3>1. m - 1 \in l .. (j - 1) /\ m - 1 \in l .. j /\ (m - 1) + 1 = m /\ m - 1 \notin T
      BY <2>2, <2>4, <1>1
    <3>2. a + p[m - 1] <= u /\ u < a + p[m]
      <4>1. p[m - 1] \in Nat /\ ~(u < a + p[m - 1]) /\ u < a + p[m]
        BY <3>1, <2>2, <1>4
      <4> QED
        BY <4>1, <2>1, <1>1
    <3> QED
      BY <3>1, <3>2, <1>12
  <2> QED
    BY <2>3, <2>4
<1>14. ASSUME NEW u \in Units, In(u, Blk(a, l)) \/ \E k \in l .. (j - 1) : In(u, Blk(RightHalf(a, k), k))
       PROVE  In(u, Blk(a, j))
  <2>0. u \in Nat
    BY <1>1
  <2>1. CASE In(u, Blk(a, l))
    BY <2>0, <2>1, <1>1, <1>4, <1>6, <1>8, <1>11
  <2>2. ASSUME NEW k \in l .. (j - 1), In(u, Blk(RightHalf(a, k), k)) PROVE In(u, Blk(a, j))
    <3>1. p[k] \in Nat /\ p[k + 1] \in Nat /\ p[j] \in Nat /\ p[k + 1] <= p[j]
      <4>1. k + 1 <= j
        BY <1>1
      <4> QED
        BY <4>1, <1>4, <1>5, <1>6, <1>8
    <3>2. a + p[k] <= u /\ u < a + p[k + 1]
      BY <2>2, <1>12
    <3> QED
      BY <2>0, <3>1, <3>2, <1>1, <1>8, <1>11
  <2> QED
    BY <2>1, <2>2, <1>14
<1>15. ASSUME NEW u \in Units, NEW k \in l .. (j - 1), In(u, Blk(RightHalf(a, k), k))
       PROVE  /\ ~In(u, Blk(a, l))
              /\ \A m \in l .. (j - 1) : In(u, Blk(RightHalf(a, m), m)) => m = k
  <2>0. u \in Nat /\ p[k] \in Nat /\ p[k + 1] \in Nat /\ p[l] \in Nat /\ k \in Int
    BY <1>1, <1>4, <1>5, <1>8
  <2>1. a + p[k] <= u /\ u < a + p[k + 1]
    BY <1>12, <1>15
  <2>2. ~In(u, Blk(a, l))
    <3>1. p[l] <= p[k]
      BY <1>1, <1>5, <1>6, <1>8
    <3> QED
      BY <3>1, <2>0, <2>1, <1>1, <1>8, <1>11
  <2>3. ASSUME NEW m \in l .. (j - 1), In(u, Blk(RightHalf(a, m), m)) PROVE m = k
    <3>0. p[m] \in Nat /\ p[m + 1] \in Nat /\ m \in Int
      BY <1>4, <1>5
    <3>1. a + p[m] <= u /\ u < a + p[m + 1]
      BY <1>12, <2>3
    <3>2. CASE m + 1 <= k
      <4>1. p[m + 1] <= p[k]
        BY <3>2, <1>5, <1>6
      <4> QED
        BY <4>1, <3>0, <3>1, <2>0, <2>1, <1>0
    <3>3. CASE k + 1 <= m
      <4>1. p[k + 1] <= p[m]
        BY <3>3, <1>5, <1>6
      <4> QED
        BY <4>1, <3>0, <3>1, <2>0, <2>1, <1>0
    <3> QED
      BY <3>2, <3>3, <3>0, <2>0
  <2> QED
    BY <2>2, <2>3
<1> QED
  BY <1>1, <1>9, <1>10, <1>13, <1>14, <1>15

-----------------------------------------------------------------------------
(* Merging.                                                                *)
\* A block and its neighbour make up the merged one.
LEMMA MergeTwo ==
  ASSUME NEW x \in Units, NEW y \in Units, NEW k \in Levels, MergesWith(x, y, k),
         Whole(Blk(x, k)), Whole(Blk(y, k))
  PROVE  /\ k + 1 \in Levels /\ x < y /\ Whole(Blk(x, k + 1))
         /\ \A u \in Units : In(u, Blk(x, k + 1)) <=> In(u, Blk(x, k)) \/ In(u, Blk(y, k))
<1>1. PICK p \in Nat \ {0} : p = 2^k
  <2>1. k \in 0 .. (MaxLevel + 1)
    BY Powers DEF Levels
  <2> QED
    BY <2>1, Powers
<1>2. 2^(k + 1) = p + p
  <2>1. 2^(k + 1) = 2 * p
    BY <1>1, Powers
  <2> QED
    BY <2>1, <1>1
<1>3. x \in Nat /\ y \in Nat /\ PoolEnd \in Nat /\ Units \subseteq Nat /\ k \in Nat
  BY PoolFacts, Powers
<1>4. k < MaxLevel /\ x + p = y /\ x % 2^(k + 1) = 0
  BY <1>1 DEF MergesWith, is_left
<1>5. k + 1 \in Levels
  BY <1>3, <1>4, Powers DEF Levels
<1>6. y + p <= PoolEnd
  BY <1>1, BlkFacts
<1>7. x + 2^(k + 1) <= PoolEnd
  BY <1>2, <1>3, <1>4, <1>6
<1>8. Whole(Blk(x, k + 1))
  BY <1>4, <1>7, BlkFacts
<1>9. ASSUME NEW u \in Units
      PROVE  In(u, Blk(x, k + 1)) <=> In(u, Blk(x, k)) \/ In(u, Blk(y, k))
  <2>1. /\ In(u, Blk(x, k + 1)) <=> x <= u /\ u < x + (p + p)
        /\ In(u, Blk(x, k)) <=> x <= u /\ u < x + p
        /\ In(u, Blk(y, k)) <=> y <= u /\ u < y + p
    BY <1>1, <1>2, BlkFacts
  <2> QED
    BY <2>1, <1>3, <1>4
<1> QED
  BY <1>3, <1>4, <1>5, <1>8, <1>9

\* The blocks of a list are aligned and in the pool.
ListWhole(list, k) == \A i \in DOMAIN list : Whole(Blk(list[i], k))

\* The block that is found is the other half.
LEMMA MergeStep ==
  ASSUME NEW k \in Levels, NEW list \in Seq(Units), ListWhole(list, k),
         NEW a \in Units, Whole(Blk(a, k)), Partners(list, a, k) # {}
  PROVE  LET i == Min(Partners(list, a, k))
             p == Min({a, list[i]})
         IN  /\ i \in DOMAIN list /\ k + 1 \in Levels /\ p \in Units /\ Whole(Blk(p, k + 1))
             /\ \A u \in Units : In(u, Blk(p, k + 1)) <=> In(u, Blk(a, k)) \/ In(u, Blk(list[i], k))
<1>1. PICK i : i = Min(Partners(list, a, k))
  OBVIOUS
<1>2. PICK pos : pos = InsertPos(list, a)
  OBVIOUS
<1>3. Len(list) \in Nat /\ DOMAIN list = 1 .. Len(list)
  OBVIOUS
<1>4. pos \in 1 .. (Len(list) + 1)
  <2>1. PICK T : T = {j \in DOMAIN list : a < list[j]} \cup {Len(list) + 1}
    OBVIOUS
  <2>2. T \in SUBSET Nat /\ T # {} /\ T \subseteq 1 .. (Len(list) + 1)
    BY <2>1, <1>3
  <2>3. Min(T) \in T
    BY <2>2, MinIsLeast
  <2> QED
    BY <2>1, <2>2, <2>3, <1>2 DEF InsertPos
<1>5. Partners(list, a, k) \subseteq DOMAIN list
  BY <1>2, <1>3, <1>4 DEF Partners
<1>6. i \in Partners(list, a, k)
  <2>1. Partners(list, a, k) \in SUBSET Nat
    BY <1>3, <1>5
  <2> QED
    BY <2>1, <1>1, MinIsLeast
<1>7. PICK c \in Units : c = list[i] /\ Whole(Blk(c, k))
  BY <1>5, <1>6 DEF ListWhole
<1>8. MergesWith(c, a, k) \/ MergesWith(a, c, k)
  BY <1>6, <1>7 DEF Partners
<1>9. a \in Nat /\ c \in Nat
  BY PoolFacts
<1>10. PICK p : p = Min({a, c})
  OBVIOUS
<1>11. p \in {a, c} /\ p <= a /\ p <= c
  <2>1. {a, c} \in SUBSET Nat /\ {a, c} # {}
    BY <1>9
  <2> QED
    BY <2>1, <1>10, MinIsLeast
<1>12. /\ k + 1 \in Levels /\ p \in Units /\ Whole(Blk(p, k + 1))
       /\ \A u \in Units : In(u, Blk(p, k + 1)) <=> In(u, Blk(a, k)) \/ In(u, Blk(c, k))
  <2>1. CASE MergesWith(c, a, k)
    <3>1. c < a /\ p = c
      BY <2>1, <1>7, <1>9, <1>11, MergeTwo
    <3> QED
      BY <2>1, <3>1, <1>7, MergeTwo
  <2>2. CASE MergesWith(a, c, k)
    <3>1. a < c /\ p = a
      BY <2>2, <1>7, <1>9, <1>11, MergeTwo
    <3> QED
      BY <2>2, <3>1, <1>7, MergeTwo
  <2> QED
    BY <2>1, <2>2, <1>8
<1> QED
  BY <1>1, <1>5, <1>6, <1>7, <1>10, <1>12

\* Where none is found there is none: the walk down the list misses no half.
LEMMA NoneToMerge ==
  ASSUME NEW k \in Levels, NEW list \in Seq(Units), ListWhole(list, k), Ascending(list),
         Unmerged(ToSet(list), k),
         NEW a \in Units, Whole(Blk(a, k)), a \notin ToSet(list), Partners(list, a, k) = {}
  PROVE  Unmerged(ToSet(list) \cup {a}, k)
<1>1. Len(list) \in Nat /\ DOMAIN list = 1 .. Len(list) /\ \A i \in DOMAIN list : list[i] \in Nat
  BY PoolFacts
<1>2. PICK p \in Nat \ {0} : p = 2^k
  <2>1. k \in 0 .. (MaxLevel + 1)
    BY Powers DEF Levels
  <2> QED
    BY <2>1, Powers
<1>3. a \in Nat /\ a % p = 0 /\ \A i \in DOMAIN list : list[i] % p = 0
  BY <1>2, PoolFacts, BlkFacts DEF ListWhole
<1>4. PICK pos : pos = InsertPos(list, a)
  OBVIOUS
<1>5. pos \in 1 .. (Len(list) + 1)
      /\ \A j \in DOMAIN list : (j < pos => list[j] < a) /\ (pos <= j => a < list[j])
  BY <1>4, AscendingInsert
<1>6. \A x, y : MergesWith(x, y, k) => x + p = y
  BY <1>2 DEF MergesWith
<1>7. ASSUME NEW i \in DOMAIN list, MergesWith(list[i], a, k) PROVE FALSE
  <2>1. list[i] + p = a
    BY <1>6, <1>7
  <2>2. list[i] < a
    BY <2>1, <1>1, <1>2, <1>3
  <2>3. i \in 1 .. (pos - 1)
    BY <2>2, <1>1, <1>3, <1>5
  <2> QED
    BY <2>3, <1>4, <1>7 DEF Partners
<1>8. ASSUME NEW i \in DOMAIN list, MergesWith(a, list[i], k) PROVE FALSE
  <2>1. a + p = list[i]
    BY <1>6, <1>8
  <2>2. a < list[i]
    BY <2>1, <1>1, <1>2, <1>3
  <2>3. pos <= i /\ pos \in DOMAIN list
    BY <2>2, <1>1, <1>3, <1>5
  <2>4. a < list[pos] /\ list[pos] \in Int
    BY <2>3, <1>1, <1>5
  <2>5. a + p <= list[pos]
    <3>1. PICK c \in Int : c = list[pos] /\ a < c /\ c % p = 0
      BY <2>3, <2>4, <1>3
    <3>2. a \in Int /\ a % p = 0
      BY <1>3
    <3>3. a + p <= c
      BY <3>1, <3>2, AlignedApart
    <3> QED
      BY <3>1, <3>3
  <2>6. pos = i
    <3>1. CASE pos < i
      <4>1. list[pos] < list[i]
        BY <3>1, <2>3 DEF Ascending
      <4> QED
        BY <4>1, <2>1, <2>4, <2>5, <1>1, <1>3
    <3> QED
      BY <3>1, <2>3, <1>1, <1>5
  <2>7. pos \in {pos} \cap DOMAIN list /\ MergesWith(a, list[pos], k)
    BY <2>3, <2>6, <1>8
  <2> QED
    BY <2>7, <1>4 DEF Partners
<1>9. ~MergesWith(a, a, k)
  BY <1>2, <1>3, <1>6
<1> QED
  BY <1>7, <1>8, <1>9 DEF Unmerged, ToSet

\* What buddy_free does at level k with the block a that was freed one below.
MergeAt(free, b, k, a) ==
    IF k = b.level THEN b.addr
    ELSE IF a = NoBlock \/ Partners(free[k - 1], a, k - 1) = {} THEN NoBlock
         ELSE Min({a, free[k - 1][Min(Partners(free[k - 1], a, k - 1))]})

\* The recursion comes to an end: Merged is the function it describes.
LEMMA MergedIs ==
  ASSUME NEW free, NEW b \in Block
  PROVE  \A k \in b.level .. MaxLevel : Merged(free, b)[k] = MergeAt(free, b, k, Merged(free, b)[k - 1])
<1>1. b.level \in Nat /\ MaxLevel \in Nat /\ b.level <= MaxLevel
  BY BlockIs, Powers DEF Levels
<1> DEFINE L == b.level
           Solves(h, n) == h = [k \in L .. n |-> MergeAt(free, b, k, h[k - 1])]
           Bad == {n \in L .. MaxLevel : ~\E h : Solves(h, n)}
<1>2. Bad = {}
  <2> SUFFICES ASSUME Bad # {} PROVE FALSE
    OBVIOUS
  <2>1. Bad \in SUBSET Nat
    BY <1>1
  <2>2. PICK n \in Bad : \A m \in Bad : n <= m
    BY <2>1, Least
  <2>3. n \in L .. MaxLevel /\ ~\E h : Solves(h, n)
    OBVIOUS
  <2>4. CASE n = L
    <3> DEFINE h == [k \in L .. n |-> b.addr]
    <3>1. \A k \in L .. n : MergeAt(free, b, k, h[k - 1]) = b.addr
      BY <1>1, <2>4 DEF MergeAt
    <3>2. Solves(h, n)
      BY <3>1
    <3> QED
      BY <3>2, <2>3
  <2>5. CASE n # L
    <3>1. n - 1 \in L .. MaxLevel /\ n - 1 \notin Bad /\ n - 1 < n
      BY <1>1, <2>2, <2>3, <2>5
    <3>2. PICK g : Solves(g, n - 1)
      BY <3>1
    <3>3. \A k \in L .. (n - 1) : g[k] = MergeAt(free, b, k, g[k - 1])
      BY <3>2
    <3> DEFINE h == [k \in L .. n |-> IF k = n THEN MergeAt(free, b, n, g[n - 1]) ELSE g[k]]
    <3>4. ASSUME NEW k \in L .. n PROVE h[k] = MergeAt(free, b, k, h[k - 1])
      <4>1. CASE k = L
        <5>1. k # n /\ k \in L .. (n - 1)
          BY <1>1, <2>3, <2>5, <4>1
        <5>2. h[k] = g[k] /\ g[k] = MergeAt(free, b, k, g[k - 1])
          BY <5>1, <3>3
        <5> QED
          BY <5>2, <4>1 DEF MergeAt
      <4>2. CASE k # L
        <5>1. k - 1 \in L .. n /\ k - 1 # n /\ h[k - 1] = g[k - 1]
          BY <1>1, <2>3, <4>2
        <5>2. h[k] = MergeAt(free, b, k, g[k - 1])
          <6>1. CASE k = n
            BY <6>1
          <6>2. CASE k # n
            <7>1. k \in L .. (n - 1)
              BY <6>2, <1>1, <2>3
            <7> QED
              BY <7>1, <6>2, <3>3
          <6> QED
            BY <6>1, <6>2
        <5> QED
          BY <5>1, <5>2
      <4> QED
        BY <4>1, <4>2
    <3>5. Solves(h, n)
      <4>1. h = [k \in L .. n |-> h[k]]
        OBVIOUS
      <4> HIDE DEF h
      <4> QED
        BY <3>4, <4>1
    <3> QED
      BY <3>5, <2>3
  <2> QED
    BY <2>4, <2>5
<1>3. \E h : Solves(h, MaxLevel)
  BY <1>1, <1>2
<1>4. \E h : h = [k \in b.level .. MaxLevel |->
          IF k = b.level THEN b.addr
          ELSE LET a == h[k - 1]
                   found == Partners(free[k - 1], a, k - 1)
               IN  IF a = NoBlock \/ found = {} THEN NoBlock
                   ELSE Min({a, free[k - 1][Min(found)]})]
  BY <1>3, Zenon DEF MergeAt
<1>5. Merged(free, b) = [k \in b.level .. MaxLevel |->
          IF k = b.level THEN b.addr
          ELSE LET a == Merged(free, b)[k - 1]
                   found == Partners(free[k - 1], a, k - 1)
               IN  IF a = NoBlock \/ found = {} THEN NoBlock
                   ELSE Min({a, free[k - 1][Min(found)]})]
  BY <1>4, Zenon DEF Merged
<1>6. PICK h : h = Merged(free, b)
  OBVIOUS
<1>7. h = [k \in b.level .. MaxLevel |-> MergeAt(free, b, k, h[k - 1])]
  BY <1>5, <1>6, Zenon DEF MergeAt
<1>8. \A k \in b.level .. MaxLevel : h[k] = MergeAt(free, b, k, h[k - 1])
  BY <1>7, Zenon
<1> QED
  BY <1>6, <1>8, Zenon

\* The half that is merged with what is freed at level k, and the levels.
Half(free, h, k) == free[k][Min(Partners(free[k], h[k], k))]
Top(b, h) == Max({k \in b.level .. MaxLevel : h[k] # NoBlock})

\* From the level of the block to the top one it is merged all the way, and
\* what is freed there covers the block and the halves.
LEMMA MergeChain ==
  ASSUME NEW free \in [Levels -> Seq(Units)], \A k \in Levels : ListWhole(free[k], k),
         NEW b \in Block, Whole(b), NEW h, h = Merged(free, b), NEW top, top = Top(b, h)
  PROVE  /\ top \in b.level .. MaxLevel
         /\ \A k \in b.level .. top : k \in Levels /\ h[k] \in Units /\ Whole(Blk(h[k], k))
         /\ \A k \in b.level .. (top - 1) : Min(Partners(free[k], h[k], k)) \in DOMAIN free[k]
         /\ Partners(free[top], h[top], top) = {}
         /\ \A u \in Units : In(u, Blk(h[top], top)) <=>
                In(u, b) \/ \E k \in b.level .. (top - 1) : In(u, Blk(Half(free, h, k), k))
<1>1. b.level \in Nat /\ MaxLevel \in Nat /\ b.level <= MaxLevel /\ Levels = 0 .. MaxLevel
  BY BlockIs, Powers DEF Levels
<1>2. \A k \in b.level .. MaxLevel : h[k] = MergeAt(free, b, k, h[k - 1]) /\ k \in Levels
  BY MergedIs, <1>1
<1>3. b.addr \in Units /\ b = Blk(b.addr, b.level) /\ NoBlock \notin Units
  BY BlockIs, PoolFacts DEF NoBlock
<1>4. h[b.level] = b.addr
  <2>1. b.level \in b.level .. MaxLevel
    BY <1>1
  <2>2. h[b.level] = MergeAt(free, b, b.level, h[b.level - 1])
    BY <2>1, <1>2
  <2> QED
    BY <2>2, Zenon DEF MergeAt
<1>5. top \in b.level .. MaxLevel /\ h[top] # NoBlock
      /\ \A k \in b.level .. MaxLevel : h[k] # NoBlock => k <= top
  <2> DEFINE T == {k \in b.level .. MaxLevel : h[k] # NoBlock}
  <2>1. T \in SUBSET (0 .. MaxLevel) /\ b.level \in T
    BY <1>1, <1>3, <1>4
  <2>2. top = Max(T)
    BY DEF Top
  <2>3. top \in T /\ \A k \in T : k <= top
    BY <2>1, <2>2, MaxIsGreatest, <1>1
  <2> QED
    BY <2>3
<1>6. ASSUME NEW k \in b.level .. (top - 1), h[k] = NoBlock PROVE h[k + 1] = NoBlock
  <2>1. k + 1 \in b.level .. MaxLevel /\ (k + 1) - 1 = k /\ k + 1 # b.level
    BY <1>1, <1>5
  <2>2. h[k + 1] = MergeAt(free, b, k + 1, h[k])
    BY <2>1, <1>2
  <2> QED
    BY <2>1, <2>2, <1>6 DEF MergeAt
<1>7. \A k \in b.level .. top : h[k] # NoBlock
  <2> DEFINE T == {k \in b.level .. top : h[k] = NoBlock}
  <2> SUFFICES ASSUME T # {} PROVE FALSE
    OBVIOUS
  <2>1. T \in SUBSET (0 .. MaxLevel)
    BY <1>1, <1>5
  <2>2. Max(T) \in T /\ \A k \in T : k <= Max(T)
    BY <2>1, <1>1, MaxIsGreatest
  <2>3. PICK m \in T : \A k \in T : k <= m
    BY <2>2
  <2>4. m \in b.level .. (top - 1) /\ m + 1 \in b.level .. top /\ ~(m + 1 <= m)
    BY <2>3, <1>1, <1>5
  <2> QED
    BY <2>3, <2>4, <1>6
<1>8. ASSUME NEW k \in b.level .. (top - 1)
      PROVE  /\ k \in Levels /\ k \in b.level .. top /\ k + 1 \in b.level .. top
             /\ Partners(free[k], h[k], k) # {} /\ h[k + 1] = Min({h[k], Half(free, h, k)})
  <2>1. /\ k \in b.level .. top /\ k + 1 \in b.level .. top /\ k + 1 \in b.level .. MaxLevel
        /\ (k + 1) - 1 = k /\ k + 1 # b.level /\ k \in Levels
    BY <1>1, <1>5
  <2>2. h[k + 1] = MergeAt(free, b, k + 1, h[k]) /\ h[k + 1] # NoBlock
    BY <2>1, <1>2, <1>7
  <2> QED
    BY <2>1, <2>2 DEF MergeAt, Half
<1> DEFINE Good(k) == /\ h[k] \in Units /\ Whole(Blk(h[k], k))
                      /\ \A u \in Units : In(u, Blk(h[k], k)) <=>
                           In(u, b) \/ \E m \in b.level .. (k - 1) : In(u, Blk(Half(free, h, m), m))
<1>9. Good(b.level)
  <2>1. b.level .. (b.level - 1) = {}
    BY <1>1
  <2> QED
    BY <2>1, <1>3, <1>4
<1>10. ASSUME NEW k \in b.level .. (top - 1), Good(k)
       PROVE  Good(k + 1) /\ Min(Partners(free[k], h[k], k)) \in DOMAIN free[k]
  <2>1. free[k] \in Seq(Units) /\ ListWhole(free[k], k) /\ k \in Levels
    BY <1>8
  <2>2. /\ Min(Partners(free[k], h[k], k)) \in DOMAIN free[k]
        /\ h[k + 1] \in Units /\ Whole(Blk(h[k + 1], k + 1))
        /\ \A u \in Units : In(u, Blk(h[k + 1], k + 1)) <=>
               In(u, Blk(h[k], k)) \/ In(u, Blk(Half(free, h, k), k))
    <3>1. h[k] \in Units /\ Whole(Blk(h[k], k)) /\ Partners(free[k], h[k], k) # {}
      BY <1>8, <1>10
    <3>2. h[k + 1] = Min({h[k], free[k][Min(Partners(free[k], h[k], k))]})
      BY <1>8 DEF Half
    <3> QED
      BY <2>1, <3>1, <3>2, MergeStep, Zenon DEF Half
  <2>3. b.level .. ((k + 1) - 1) = (b.level .. (k - 1)) \cup {k}
    BY <1>1, <1>5
  <2>4. ASSUME NEW u \in Units
        PROVE  In(u, Blk(h[k + 1], k + 1)) <=>
                 In(u, b) \/ \E m \in b.level .. ((k + 1) - 1) : In(u, Blk(Half(free, h, m), m))
    BY <2>2, <2>3, <1>10, Zenon
  <2> QED
    BY <2>2, <2>4
<1>11. \A k \in b.level .. top : Good(k)
  <2> DEFINE T == {k \in b.level .. top : ~Good(k)}
  <2> SUFFICES ASSUME T # {} PROVE FALSE
    OBVIOUS
  <2>1. T \in SUBSET Nat
    BY <1>1
  <2>2. PICK m \in T : \A k \in T : m <= k
    BY <2>1, Least
  <2>3. m \in b.level .. top /\ ~Good(m)
    OBVIOUS
  <2>4. m # b.level
    BY <2>3, <1>9
  <2>5. m - 1 \in b.level .. (top - 1) /\ m - 1 \in b.level .. top /\ ~(m <= m - 1) /\ (m - 1) + 1 = m
    BY <2>3, <2>4, <1>1, <1>5
  <2>6. Good(m - 1)
    <3>1. m - 1 \notin T
      BY <2>2, <2>5
    <3> HIDE DEF Good
    <3> QED
      BY <3>1, <2>5
  <2>7. Good((m - 1) + 1)
    <3> HIDE DEF Good
    <3> QED
      BY <2>5, <2>6, <1>10
  <2> HIDE DEF Good
  <2> QED
    BY <2>3, <2>5, <2>7
<1>12. Partners(free[top], h[top], top) = {}
  <2>1. CASE top = MaxLevel
    BY <2>1, <1>1 DEF Partners, MergesWith
  <2>2. CASE top # MaxLevel
    <3>1. top + 1 \in b.level .. MaxLevel /\ (top + 1) - 1 = top /\ top + 1 # b.level /\ ~(top + 1 <= top)
      BY <2>2, <1>1, <1>5
    <3>2. h[top + 1] = NoBlock /\ h[top + 1] = MergeAt(free, b, top + 1, h[top])
      BY <3>1, <1>2, <1>5
    <3> SUFFICES ASSUME Partners(free[top], h[top], top) # {} PROVE FALSE
      OBVIOUS
    <3>3. h[top + 1] = Min({h[top], Half(free, h, top)})
      BY <3>1, <3>2, <1>5 DEF MergeAt, Half
    <3>4. top \in Levels /\ free[top] \in Seq(Units) /\ ListWhole(free[top], top)
      BY <1>1, <1>5
    <3>5. top \in b.level .. top
      BY <1>1, <1>5
    <3>6. h[top] \in Units /\ Whole(Blk(h[top], top))
      BY <3>5, <1>11
    <3>7. Min({h[top], Half(free, h, top)}) \in Units
      BY <3>4, <3>6, MergeStep DEF Half
    <3> QED
      BY <3>2, <3>3, <3>7, <1>3
  <2> QED
    BY <2>1, <2>2
<1>13. top \in b.level .. top /\ b.level .. top \subseteq Levels
  BY <1>1, <1>5
<1>14. \A k \in b.level .. (top - 1) : Min(Partners(free[k], h[k], k)) \in DOMAIN free[k]
  <2> TAKE k \in b.level .. (top - 1)
  <2>1. Good(k)
    BY <1>8, <1>11
  <2> HIDE DEF Good
  <2> QED
    BY <2>1, <1>10
<1>15. Good(top) /\ \A k \in b.level .. top : h[k] \in Units /\ Whole(Blk(h[k], k))
  BY <1>11, <1>13
<1> QED
  BY <1>5, <1>12, <1>13, <1>14, <1>15

-----------------------------------------------------------------------------
(* Who holds what.                                                         *)
LEMMA Holders ==
  /\ User # Nobody /\ User # Pool /\ Nobody # Pool
  /\ \A t \in Threads : Thread(t) # User /\ Thread(t) # Nobody /\ Thread(t) # Pool
  /\ \A s, t \in Threads : Thread(s) = Thread(t) => s = t
<1>1. User # Nobody /\ User # Pool /\ Nobody # Pool
  BY DEF User, Nobody, Pool
<1>2. \A t \in Threads : Thread(t)[1] = "thread" /\ Thread(t)[2] = t
  BY DEF Thread
<1>3. User[1] = "used" /\ Nobody[1] = "stranded" /\ Pool[1] = "global"
  BY DEF User, Nobody, Pool
<1>4. "thread" # "used" /\ "thread" # "stranded" /\ "thread" # "global"
  OBVIOUS
<1> QED
  BY <1>1, <1>2, <1>3, <1>4, Zenon

LEMMA PairOf ==
  ASSUME NEW x, NEW p, NEW y, NEW q
  PROVE  BlockOf(Pair(x, p)) = x /\ (Pair(x, p) = Pair(y, q) => x = y /\ p = q)
<1>1. Pair(x, p).block = x /\ Pair(x, p).by = p /\ Pair(y, q).block = y /\ Pair(y, q).by = q
  BY DEF Pair
<1> QED
  BY <1>1 DEF BlockOf

LEMMA OfIs ==
  ASSUME NEW D, NEW p
  PROVE  /\ \A h \in Of(D, p) : \E x \in D : h = Pair(x, p) /\ BlockOf(h) = x
         /\ \A x \in D : Pair(x, p) \in Of(D, p)
         /\ \A x, q : Pair(x, q) \in Of(D, p) <=> x \in D /\ q = p
<1>1. \A h : h \in Of(D, p) <=> \E x \in D : h = Pair(x, p)
  BY DEF Of
<1>2. \A x : BlockOf(Pair(x, p)) = x
  BY PairOf
<1>3. \A x, y, q, r : Pair(x, q) = Pair(y, r) => x = y /\ q = r
  BY PairOf
<1> QED
  BY <1>1, <1>2, <1>3

LEMMA InHeld ==
  ASSUME NEW U, NEW S, NEW G, NEW F, NEW x
  PROVE  /\ Pair(x, User) \in HeldIn(U, S, G, F) <=> x \in U
         /\ Pair(x, Nobody) \in HeldIn(U, S, G, F) <=> x \in S
         /\ Pair(x, Pool) \in HeldIn(U, S, G, F) <=> x \in PoolBlocks(G)
         /\ \A t \in Threads : Pair(x, Thread(t)) \in HeldIn(U, S, G, F) <=> x \in FreeBlocks(F[t])
<1>1. \A q, X, p : Pair(x, p) \in Of(X, q) <=> x \in X /\ p = q
  BY OfIs
<1>2. \A p : Pair(x, p) \in HeldIn(U, S, G, F) <=>
        \/ x \in U /\ p = User
        \/ x \in S /\ p = Nobody
        \/ x \in PoolBlocks(G) /\ p = Pool
        \/ \E t \in Threads : x \in FreeBlocks(F[t]) /\ p = Thread(t)
  <2> TAKE p
  <2>1. Pair(x, p) \in UNION {Of(FreeBlocks(F[t]), Thread(t)) : t \in Threads} <=>
          \E t \in Threads : Pair(x, p) \in Of(FreeBlocks(F[t]), Thread(t))
    BY Zenon
  <2>2. \A t : Pair(x, p) \in Of(FreeBlocks(F[t]), Thread(t)) <=> x \in FreeBlocks(F[t]) /\ p = Thread(t)
    BY <1>1
  <2>3. (\E t \in Threads : Pair(x, p) \in Of(FreeBlocks(F[t]), Thread(t))) <=>
        (\E t \in Threads : x \in FreeBlocks(F[t]) /\ p = Thread(t))
    BY <2>2
  <2>4. Pair(x, p) \in HeldIn(U, S, G, F) <=>
          \/ Pair(x, p) \in Of(U, User)
          \/ Pair(x, p) \in Of(S, Nobody)
          \/ Pair(x, p) \in Of(PoolBlocks(G), Pool)
          \/ Pair(x, p) \in UNION {Of(FreeBlocks(F[t]), Thread(t)) : t \in Threads}
    BY DEF HeldIn
  <2> QED
    BY <1>1, <2>1, <2>3, <2>4
<1>3. (Pair(x, User) \in HeldIn(U, S, G, F)) <=> x \in U
  BY <1>2, Holders, Zenon
<1>4. (Pair(x, Nobody) \in HeldIn(U, S, G, F)) <=> x \in S
  BY <1>2, Holders, Zenon
<1>5. (Pair(x, Pool) \in HeldIn(U, S, G, F)) <=> x \in PoolBlocks(G)
  BY <1>2, Holders, Zenon
<1>6. ASSUME NEW t \in Threads
      PROVE  (Pair(x, Thread(t)) \in HeldIn(U, S, G, F)) <=> x \in FreeBlocks(F[t])
  BY <1>2, Holders, Zenon
<1> QED
  BY <1>3, <1>4, <1>5, <1>6

LEMMA HeldPair ==
  ASSUME NEW U, NEW S, NEW G, NEW F, NEW h \in HeldIn(U, S, G, F)
  PROVE  \E x : \/ h = Pair(x, User) /\ x \in U
                \/ h = Pair(x, Nobody) /\ x \in S
                \/ h = Pair(x, Pool) /\ x \in PoolBlocks(G)
                \/ \E t \in Threads : h = Pair(x, Thread(t)) /\ x \in FreeBlocks(F[t])
<1>1. \A X, q : h \in Of(X, q) => \E x \in X : h = Pair(x, q)
  BY DEF Of
<1>2. \/ h \in Of(U, User) \/ h \in Of(S, Nobody) \/ h \in Of(PoolBlocks(G), Pool)
      \/ \E t \in Threads : h \in Of(FreeBlocks(F[t]), Thread(t))
  BY DEF HeldIn
<1> QED
  BY <1>1, <1>2, Zenon

\* Blocks that change hands.
LEMMA MoveTiled ==
  ASSUME NEW H, Tiled(H), NEW D, NEW p, NEW q, Of(D, p) \subseteq H
  PROVE  Tiled((H \ Of(D, p)) \cup Of(D, q))
<1>1. \A r : \A h \in Of(D, r) : \E x \in D : h = Pair(x, r) /\ BlockOf(h) = x
  BY OfIs
<1>2. \A r : \A x \in D : Pair(x, r) \in Of(D, r) /\ BlockOf(Pair(x, r)) = x
  BY OfIs, PairOf
<1>3. \A u : Covered(u, Of(D, p)) <=> Covered(u, Of(D, q))
  BY <1>1, <1>2, Zenon DEF Covered
<1>4. Apart(Of(D, q))
  <2> SUFFICES ASSUME NEW h \in Of(D, q), NEW g \in Of(D, q), NEW u \in Units,
                      In(u, BlockOf(h)), In(u, BlockOf(g))
               PROVE  h = g
    BY DEF Apart
  <2>1. PICK x \in D : h = Pair(x, q) /\ BlockOf(h) = x
    BY <1>1
  <2>2. PICK y \in D : g = Pair(y, q) /\ BlockOf(g) = y
    BY <1>1
  <2>3. Pair(x, p) \in H /\ Pair(y, p) \in H /\ BlockOf(Pair(x, p)) = x /\ BlockOf(Pair(y, p)) = y
    BY <1>2
  <2>4. Pair(x, p) = Pair(y, p)
    BY <2>1, <2>2, <2>3 DEF Tiled, Apart
  <2> QED
    BY <2>1, <2>2, <2>3, <2>4
<1> QED
  BY <1>3, <1>4, ReplaceTiled

\* A block that is split: the left part goes to the user, the halves to q.
LEMMA SplitHeld ==
  ASSUME NEW H, Tiled(H), NEW a \in Units, NEW j \in Levels, NEW l \in 0 .. j, Whole(Blk(a, j)),
         NEW p, NEW q, Pair(Blk(a, j), p) \in H
  PROVE  Tiled((H \ {Pair(Blk(a, j), p)}) \cup ({Pair(Blk(a, l), User)} \cup Of(Halves(a, l, j), q)))
<1> DEFINE Old == {Pair(Blk(a, j), p)}
           New == {Pair(Blk(a, l), User)} \cup Of(Halves(a, l, j), q)
           B(k) == Blk(RightHalf(a, k), k)
<1>0. \A x : x \in Halves(a, l, j) <=> \E k \in l .. (j - 1) : x = B(k)
  BY DEF Halves
<1> HIDE DEF B
<1>1. ASSUME NEW h \in New
      PROVE  \/ h = Pair(Blk(a, l), User) /\ BlockOf(h) = Blk(a, l)
             \/ \E k \in l .. (j - 1) : h = Pair(B(k), q) /\ BlockOf(h) = B(k)
  <2>1. CASE h = Pair(Blk(a, l), User)
    BY <2>1, PairOf
  <2>2. CASE h \in Of(Halves(a, l, j), q)
    BY <2>2, <1>0, OfIs
  <2> QED
    BY <2>1, <2>2
<1>2. \A k \in l .. (j - 1) : Pair(B(k), q) \in New /\ BlockOf(Pair(B(k), q)) = B(k)
  BY <1>0, OfIs, PairOf
<1>3. ASSUME NEW u \in Units
      PROVE  Covered(u, New) <=> In(u, Blk(a, l)) \/ \E k \in l .. (j - 1) : In(u, B(k))
  <2>1. Pair(Blk(a, l), User) \in New /\ BlockOf(Pair(Blk(a, l), User)) = Blk(a, l)
    BY PairOf
  <2> HIDE DEF New
  <2> QED
    BY <1>1, <1>2, <2>1 DEF Covered
<1>4. ASSUME NEW u \in Units PROVE Covered(u, Old) <=> In(u, Blk(a, j))
  BY PairOf DEF Covered
<1>5. \A u \in Units : Covered(u, Old) <=> Covered(u, New)
  <2> HIDE DEF Old, New
  <2> QED
    BY <1>3, <1>4, SplitTiles DEF B
<1>6. ASSUME NEW h \in New, NEW g \in New, NEW u \in Units, In(u, BlockOf(h)), In(u, BlockOf(g))
      PROVE  h = g
  <2>1. \A k, m \in l .. (j - 1) :
           /\ In(u, B(k)) => ~In(u, Blk(a, l))
           /\ In(u, B(k)) /\ In(u, B(m)) => m = k
    BY SplitTiles DEF B
  <2> HIDE DEF New
  <2> QED
    BY <2>1, <1>1, <1>6
<1>7. Apart(New)
  <2> HIDE DEF New
  <2> QED
    BY <1>6 DEF Apart
<1>8. Old \subseteq H
  OBVIOUS
<1> HIDE DEF Old, New
<1>9. Tiled((H \ Old) \cup New)
  BY <1>5, <1>7, <1>8, ReplaceTiled
<1> QED
  BY <1>9 DEF Old, New

LEMMA OfSets ==
  ASSUME NEW p, NEW x
  PROVE  Of({}, p) = {} /\ Of({x}, p) = {Pair(x, p)}
  BY DEF Of

\* A step of thread t: what leaves and reaches the user, the ended threads, the
\* pool and the thread.
Changes(t, UOut, UIn, SIn, GOut, FOut, FIn) ==
    /\ used' = (used \ UOut) \cup UIn /\ stranded' = stranded \cup SIn
    /\ PoolBlocks(global_freelist') = PoolBlocks(global_freelist) \ GOut
    /\ FreeBlocks(freelist'[t]) = (FreeBlocks(freelist[t]) \ FOut) \cup FIn
    /\ \A s \in Threads : s # t => freelist'[s] = freelist[s]
LEMMA HeldChange ==
  ASSUME NEW t \in Threads, NEW UOut, NEW UIn, NEW SIn, NEW GOut, NEW FOut, NEW FIn,
         Changes(t, UOut, UIn, SIn, GOut, FOut, FIn)
  PROVE  Held' = (Held \ (Of(UOut, User) \cup Of(GOut, Pool) \cup Of(FOut, Thread(t))))
                 \cup (Of(UIn, User) \cup Of(SIn, Nobody) \cup Of(FIn, Thread(t)))
<1>0. PICK U, S, G, F, V, T, K, E :
        /\ U = used /\ S = stranded /\ G = global_freelist /\ F = freelist
        /\ V = used' /\ T = stranded' /\ K = global_freelist' /\ E = freelist'
  OBVIOUS
<1>9. /\ V = (U \ UOut) \cup UIn /\ T = S \cup SIn /\ PoolBlocks(K) = PoolBlocks(G) \ GOut
      /\ FreeBlocks(E[t]) = (FreeBlocks(F[t]) \ FOut) \cup FIn
      /\ \A s \in Threads : s # t => E[s] = F[s]
  BY <1>0 DEF Changes
<1>10. Held = HeldIn(U, S, G, F) /\ Held' = HeldIn(V, T, K, E)
  BY <1>0 DEF Held
<1> DEFINE Old == Of(UOut, User) \cup Of(GOut, Pool) \cup Of(FOut, Thread(t))
           New == Of(UIn, User) \cup Of(SIn, Nobody) \cup Of(FIn, Thread(t))
           A == HeldIn(U, S, G, F)
           B == HeldIn(V, T, K, E)
<1>1. \A x, p : /\ Pair(x, p) \in Old <=> \/ x \in UOut /\ p = User
                                          \/ x \in GOut /\ p = Pool
                                          \/ x \in FOut /\ p = Thread(t)
                /\ Pair(x, p) \in New <=> \/ x \in UIn /\ p = User
                                          \/ x \in SIn /\ p = Nobody
                                          \/ x \in FIn /\ p = Thread(t)
  BY OfIs
<1>2. \A x : Pair(x, User) \in B <=> Pair(x, User) \in (A \ Old) \cup New
  BY <1>1, <1>9, InHeld, Holders
<1>3. \A x : Pair(x, Nobody) \in B <=> Pair(x, Nobody) \in (A \ Old) \cup New
  BY <1>1, <1>9, InHeld, Holders
<1>4. \A x : Pair(x, Pool) \in B <=> Pair(x, Pool) \in (A \ Old) \cup New
  BY <1>1, <1>9, InHeld, Holders
<1>5. ASSUME NEW s \in Threads, NEW x
      PROVE  Pair(x, Thread(s)) \in B <=> Pair(x, Thread(s)) \in (A \ Old) \cup New
  <2>1. Pair(x, Thread(s)) \in B <=> x \in FreeBlocks(E[s])
    BY InHeld
  <2>2. Pair(x, Thread(s)) \in A <=> x \in FreeBlocks(F[s])
    BY InHeld
  <2>3. /\ Pair(x, Thread(s)) \in Old <=> x \in FOut /\ s = t
        /\ Pair(x, Thread(s)) \in New <=> x \in FIn /\ s = t
    BY <1>1, Holders
  <2> HIDE DEF A, B, Old, New
  <2> QED
    BY <2>1, <2>2, <2>3, <1>9
<1>6. \A h \in A \cup B : \E x : \/ h = Pair(x, User) \/ h = Pair(x, Nobody) \/ h = Pair(x, Pool)
                                \/ \E s \in Threads : h = Pair(x, Thread(s))
  BY HeldPair
<1>7. \A h \in New : \E x : \/ h = Pair(x, User) \/ h = Pair(x, Nobody) \/ h = Pair(x, Thread(t))
  BY OfIs
<1>8. B = (A \ Old) \cup New
  <2> HIDE DEF A, B, Old, New
  <2>1. ASSUME NEW h \in B PROVE h \in (A \ Old) \cup New
    BY <1>2, <1>3, <1>4, <1>5, <1>6
  <2>2. ASSUME NEW h \in (A \ Old) \cup New PROVE h \in B
    BY <1>2, <1>3, <1>4, <1>5, <1>6, <1>7
  <2> QED
    BY <2>1, <2>2
<1> QED
  BY <1>8, <1>10

-----------------------------------------------------------------------------
(* The lists of a thread after a block was split.                          *)
LEMMA Single ==
  ASSUME NEW a \in Units, NEW k \in Levels
  PROVE  <<a>> \in Seq(Units) /\ Ascending(<<a>>) /\ ToSet(<<a>>) = {a} /\ Unmerged({a}, k)
<1>1. PICK s : s = <<a>>
  OBVIOUS
<1>2. s \in Seq(Units) /\ DOMAIN s = {1} /\ s[1] = a
  BY <1>1
<1>3. Ascending(s) /\ ToSet(s) = {a}
  BY <1>2 DEF Ascending, ToSet
<1>4. PICK p \in Nat \ {0} : p = 2^k
  <2>1. k \in 0 .. (MaxLevel + 1)
    BY Powers DEF Levels
  <2> QED
    BY <2>1, Powers
<1>5. a \in Nat
  BY PoolFacts
<1>6. a + p # a
  BY <1>4, <1>5
<1>7. Unmerged({a}, k)
  BY <1>4, <1>6 DEF Unmerged, MergesWith
<1> QED
  BY <1>1, <1>2, <1>3, <1>7

Splits(free, list, a, j, l, new) ==
    /\ free \in [Levels -> Seq(Units)] /\ ListsOK(free)
    /\ j \in Levels /\ l \in 0 .. j /\ \A k \in l .. (j - 1) : free[k] = <<>>
    /\ list \in Seq(Units) /\ Ascending(list) /\ Unmerged(ToSet(list), j)
    /\ a \in Units /\ Whole(Blk(a, j))
    /\ new = Split([free EXCEPT ![j] = list], a, j, l)
LeftOver(free, list, j) ==
    {x \in FreeBlocks(free) : x.level # j} \cup {x \in Block : x.level = j /\ x.addr \in ToSet(list)}
IsSplit(free, list, a, j, l, new) ==
    /\ new \in [Levels -> Seq(Units)] /\ ListsOK(new)
    /\ FreeBlocks(new) = LeftOver(free, list, j) \cup Halves(a, l, j)
LEMMA SplitLists ==
  ASSUME NEW free, NEW list, NEW a, NEW j, NEW l, NEW new, Splits(free, list, a, j, l, new)
  PROVE  IsSplit(free, list, a, j, l, new)
<1>0. /\ free \in [Levels -> Seq(Units)] /\ ListsOK(free)
      /\ j \in Levels /\ l \in 0 .. j /\ \A k \in l .. (j - 1) : free[k] = <<>>
      /\ list \in Seq(Units) /\ Ascending(list) /\ Unmerged(ToSet(list), j)
      /\ a \in Units /\ Whole(Blk(a, j)) /\ new = Split([free EXCEPT ![j] = list], a, j, l)
  BY DEF Splits
<1> USE <1>0
<1>1. Levels = 0 .. MaxLevel /\ MaxLevel \in Nat
  BY Powers DEF Levels
<1>2. \A k \in l .. (j - 1) : k \in Levels /\ RightHalf(a, k) \in Units
  BY SplitTiles
<1>3. \A k \in Levels : new[k] = IF k \in l .. (j - 1) THEN <<RightHalf(a, k)>>
                                 ELSE IF k = j THEN list ELSE free[k]
  BY DEF Split
<1>4. DOMAIN new = Levels /\ new = [k \in Levels |-> new[k]]
  BY DEF Split
<1>5. ASSUME NEW k \in Levels
      PROVE  new[k] \in Seq(Units) /\ Ascending(new[k]) /\ Unmerged(ToSet(new[k]), k)
  <2>1. CASE k \in l .. (j - 1)
    <3>1. new[k] = <<RightHalf(a, k)>> /\ RightHalf(a, k) \in Units
      BY <2>1, <1>2, <1>3
    <3> QED
      BY <3>1, Single
  <2>2. CASE k \notin l .. (j - 1) /\ k = j
    BY <2>2, <1>3
  <2>3. CASE k \notin l .. (j - 1) /\ k # j
    BY <2>3, <1>3 DEF ListsOK
  <2> QED
    BY <2>1, <2>2, <2>3
<1>6. new \in [Levels -> Seq(Units)] /\ ListsOK(new)
  <2>1. new \in [Levels -> Seq(Units)]
    <3>1. \A k \in Levels : new[k] \in Seq(Units)
      BY <1>5
    <3> QED
      BY <3>1, <1>4
  <2>2. ListsOK(new)
    BY <1>5 DEF ListsOK
  <2> QED
    BY <2>1, <2>2
<1>7. \A k \in l .. (j - 1) : ToSet(new[k]) = {RightHalf(a, k)} /\ ToSet(free[k]) = {}
  BY <1>2, <1>3, Single, EmptyList
<1>8. /\ \A k \in Levels : k \notin l .. (j - 1) /\ k # j => ToSet(new[k]) = ToSet(free[k])
      /\ ToSet(new[j]) = ToSet(list) /\ j \notin l .. (j - 1)
  <2>1. j \notin l .. (j - 1)
    BY <1>1
  <2>2. new[j] = list /\ \A k \in Levels : k \notin l .. (j - 1) /\ k # j => new[k] = free[k]
    BY <2>1, <1>3
  <2> QED
    BY <2>1, <2>2
<1>9. \A x : x \in Halves(a, l, j) <=> \E k \in l .. (j - 1) : x = Blk(RightHalf(a, k), k)
  BY DEF Halves
<1>10. \A k \in l .. (j - 1) : Blk(RightHalf(a, k), k) \in Block
  BY <1>2, BlkFacts
<1>11. ASSUME NEW x \in Block
       PROVE  x \in Halves(a, l, j) <=> x.level \in l .. (j - 1) /\ x.addr = RightHalf(a, x.level)
  BY <1>9, BlockIs, BlkFacts
<1>12. ASSUME NEW x \in Block
       PROVE  x.addr \in ToSet(new[x.level]) <=>
                \/ x.level # j /\ x.addr \in ToSet(free[x.level])
                \/ x.level = j /\ x.addr \in ToSet(list)
                \/ x \in Halves(a, l, j)
  <2>1. x.level \in Levels
    BY BlockIs
  <2>2. CASE x.level \in l .. (j - 1)
    BY <2>2, <1>7, <1>8, <1>11
  <2>3. CASE x.level \notin l .. (j - 1)
    BY <2>1, <2>3, <1>8, <1>11
  <2> QED
    BY <2>2, <2>3
<1>13. Halves(a, l, j) \subseteq Block
  BY <1>9, <1>10
<1> QED
  BY <1>6, <1>12, <1>13 DEF FreeBlocks, LeftOver, IsSplit

-----------------------------------------------------------------------------
(* The invariant: what it says of one block.                               *)
LEMMA OnList ==
  ASSUME BInv, NEW t \in Threads, NEW k \in Levels
  PROVE  /\ freelist[t] \in [Levels -> Seq(Units)] /\ freelist[t][k] \in Seq(Units)
         /\ Ascending(freelist[t][k]) /\ ListWhole(freelist[t][k], k)
         /\ \A a \in ToSet(freelist[t][k]) :
              /\ a \in Units /\ Whole(Blk(a, k)) /\ Blk(a, k) \in FreeBlocks(freelist[t])
              /\ Pair(Blk(a, k), Thread(t)) \in Held
<1>1. freelist[t] \in [Levels -> Seq(Units)] /\ freelist[t][k] \in Seq(Units) /\ Ascending(freelist[t][k])
  BY DEF BInv, BVarsOK, ListsOK
<1>2. ASSUME NEW a \in ToSet(freelist[t][k])
      PROVE  /\ a \in Units /\ Whole(Blk(a, k)) /\ Blk(a, k) \in FreeBlocks(freelist[t])
             /\ Pair(Blk(a, k), Thread(t)) \in Held
  <2>1. a \in Units
    BY <1>1 DEF ToSet
  <2>2. Blk(a, k) \in FreeBlocks(freelist[t])
    BY <2>1, BlkFacts DEF FreeBlocks
  <2>3. Pair(Blk(a, k), Thread(t)) \in Held
    BY <2>2, InHeld DEF Held
  <2>4. Whole(BlockOf(Pair(Blk(a, k), Thread(t))))
    BY <2>3 DEF BInv
  <2> QED
    BY <2>1, <2>2, <2>3, <2>4, PairOf
<1>3. ListWhole(freelist[t][k], k)
  BY <1>2 DEF ListWhole, ToSet
<1> QED
  BY <1>1, <1>2, <1>3

LEMMA InPool ==
  ASSUME BInv, NEW a \in ToSet(global_freelist)
  PROVE  /\ a \in Units /\ Whole(Blk(a, MaxLevel)) /\ Blk(a, MaxLevel) \in PoolBlocks(global_freelist)
         /\ Pair(Blk(a, MaxLevel), Pool) \in Held
<1>1. a \in Units /\ MaxLevel \in Levels
  BY Powers DEF BInv, BVarsOK, ToSet, Levels
<1>2. Blk(a, MaxLevel) \in PoolBlocks(global_freelist)
  BY <1>1, BlkFacts DEF PoolBlocks
<1>3. Pair(Blk(a, MaxLevel), Pool) \in Held
  BY <1>2, InHeld DEF Held
<1>4. Whole(BlockOf(Pair(Blk(a, MaxLevel), Pool)))
  BY <1>3 DEF BInv
<1> QED
  BY <1>1, <1>2, <1>3, <1>4, PairOf

LEMMA InUse ==
  ASSUME BInv, NEW b \in used
  PROVE  b \in Block /\ Whole(b) /\ Pair(b, User) \in Held
<1>1. b \in Block /\ Pair(b, User) \in Held
  BY InHeld DEF Held, BInv, BVarsOK
<1>2. Whole(BlockOf(Pair(b, User)))
  BY <1>1 DEF BInv
<1> QED
  BY <1>1, <1>2, PairOf

\* get_freelist hands out one of the MaxLists lists.
LEMMA IndexStep ==
  ASSUME BVarsOK, NEW t \in Threads, ~NoList(t), get_freelist(t)
  PROVE  freelist_current_index' \in 0 .. MaxLists /\ freelist_index' \in [Threads -> -1 .. (MaxLists - 1)]
<1>1. MaxLists \in Nat
  BY PoolAssumption
<1>2. CASE freelist_index[t] = -1
  <2>1. freelist_current_index \in 0 .. (MaxLists - 1)
    BY <1>1, <1>2 DEF BVarsOK, NoList, OutOfLists
  <2> QED
    BY <1>1, <1>2, <2>1 DEF BVarsOK, get_freelist
<1>3. CASE freelist_index[t] # -1
  BY <1>3 DEF BVarsOK, get_freelist, indices
<1> QED
  BY <1>2, <1>3

LEMMA MallocStep ==
  ASSUME BInv, NEW t \in Threads, NEW l \in Levels, buddy_malloc(t, l)
  PROVE  BInv'
<1>1. PICK filled : filled = {k \in l .. MaxLevel : freelist[t][k] # <<>>}
  OBVIOUS
<1>2. PICK j : j = Min(filled)
  OBVIOUS
<1>3. PICK list : list = freelist[t][j]
  OBVIOUS
<1>4. PICK new : new = Split([freelist[t] EXCEPT ![j] = Tail(list)], Head(list), j, l)
  OBVIOUS
<1>5. /\ up /\ pc[t] = "idle" /\ ~NoList(t) /\ filled # {}
      /\ freelist' = [freelist EXCEPT ![t] = new]
      /\ used' = used \cup {Blk(Head(list), l)}
      /\ get_freelist(t)
      /\ global_freelist' = global_freelist /\ lock' = lock /\ pc' = pc /\ want' = want
      /\ stranded' = stranded /\ up' = up
  BY <1>1, <1>2, <1>3, <1>4 DEF buddy_malloc, Hand, Blk
<1>6. Levels = 0 .. MaxLevel /\ MaxLevel \in Nat
  BY Powers DEF Levels
<1>7. j \in Levels /\ l \in 0 .. j /\ list # <<>> /\ \A k \in l .. (j - 1) : freelist[t][k] = <<>>
  <2>1. filled \in SUBSET Nat
    BY <1>1, <1>6
  <2>2. j \in filled /\ \A k \in filled : j <= k
    BY <2>1, <1>2, <1>5, MinIsLeast
  <2> QED
    BY <2>2, <1>1, <1>3, <1>6
<1>8. /\ list \in Seq(Units) /\ Ascending(list) /\ freelist[t] \in [Levels -> Seq(Units)]
      /\ \A a \in ToSet(list) : Whole(Blk(a, j)) /\ Pair(Blk(a, j), Thread(t)) \in Held
  BY <1>3, <1>7, OnList
<1>9. PICK a \in Units : a = Head(list) /\ a \in ToSet(list)
  BY <1>7, <1>8, AscendingTail
<1>10. PICK rest \in Seq(Units) : rest = Tail(list) /\ Ascending(rest) /\ ToSet(rest) = ToSet(list) \ {a}
  BY <1>7, <1>8, <1>9, AscendingTail
<1>11. ListsOK(freelist[t]) /\ Unmerged(ToSet(rest), j)
  <2>1. ListsOK(freelist[t])
    BY DEF BInv
  <2>2. Unmerged(ToSet(list), j)
    BY <2>1, <1>3, <1>7 DEF ListsOK
  <2> QED
    BY <2>1, <2>2, <1>10 DEF Unmerged
<1>12. Whole(Blk(a, j)) /\ Pair(Blk(a, j), Thread(t)) \in Held
  BY <1>8, <1>9
<1>13. /\ new \in [Levels -> Seq(Units)] /\ ListsOK(new)
       /\ FreeBlocks(new) = LeftOver(freelist[t], rest, j) \cup Halves(a, l, j)
  <2>1. PICK free \in [Levels -> Seq(Units)] : free = freelist[t]
    BY <1>8
  <2>2. new = Split([free EXCEPT ![j] = rest], a, j, l)
    BY <2>1, <1>4, <1>9, <1>10
  <2>3. Splits(free, rest, a, j, l, new)
    BY <2>1, <2>2, <1>7, <1>10, <1>11, <1>12 DEF Splits
  <2>4. IsSplit(free, rest, a, j, l, new)
    BY <2>3, SplitLists
  <2> QED
    BY <2>1, <2>4 DEF IsSplit
<1>14. FreeBlocks(new) = (FreeBlocks(freelist[t]) \ {Blk(a, j)}) \cup Halves(a, l, j)
  <2>1. \A x \in Block : x = Blk(a, j) <=> x.level = j /\ x.addr = a
    BY BlockIs, BlkFacts
  <2>2. \A x \in Block : x \in FreeBlocks(freelist[t]) <=> x.addr \in ToSet(freelist[t][x.level])
    BY DEF FreeBlocks
  <2>3. FreeBlocks(freelist[t]) \subseteq Block
    BY DEF FreeBlocks
  <2> QED
    BY <2>1, <2>2, <2>3, <1>3, <1>10, <1>13 DEF LeftOver
<1>15. /\ l \in Levels /\ Whole(Blk(a, l))
       /\ \A x \in Halves(a, l, j) : Whole(x)
  BY <1>7, <1>9, <1>12, SplitTiles DEF Halves
<1>16. freelist'[t] = new /\ \A s \in Threads : s # t => freelist'[s] = freelist[s]
  BY <1>5 DEF BInv, BVarsOK
<1>17. Held' = (Held \ {Pair(Blk(a, j), Thread(t))})
               \cup ({Pair(Blk(a, l), User)} \cup Of(Halves(a, l, j), Thread(t)))
  <2>1. /\ used' = (used \ {}) \cup {Blk(a, l)} /\ stranded' = stranded \cup {}
        /\ PoolBlocks(global_freelist') = PoolBlocks(global_freelist) \ {}
    BY <1>5, <1>9
  <2>2. Changes(t, {}, {Blk(a, l)}, {}, {}, {Blk(a, j)}, Halves(a, l, j))
    BY <2>1, <1>14, <1>16 DEF Changes
  <2>3. Held' = (Held \ (Of({}, User) \cup Of({}, Pool) \cup Of({Blk(a, j)}, Thread(t))))
                \cup (Of({Blk(a, l)}, User) \cup Of({}, Nobody) \cup Of(Halves(a, l, j), Thread(t)))
    BY <2>2, HeldChange
  <2>4. /\ Of({}, User) = {} /\ Of({}, Pool) = {} /\ Of({}, Nobody) = {}
        /\ Of({Blk(a, j)}, Thread(t)) = {Pair(Blk(a, j), Thread(t))}
        /\ Of({Blk(a, l)}, User) = {Pair(Blk(a, l), User)}
    BY OfSets
  <2> QED
    BY <2>3, <2>4
<1>18. Tiled(Held')
  BY <1>5, <1>7, <1>9, <1>12, <1>17, SplitHeld DEF BInv
<1>19. ASSUME NEW h \in Held' PROVE Whole(BlockOf(h))
  <2>1. CASE h \in Held
    BY <2>1 DEF BInv
  <2>2. CASE h = Pair(Blk(a, l), User)
    BY <2>2, <1>15, PairOf
  <2>3. CASE h \in Of(Halves(a, l, j), Thread(t))
    BY <2>3, <1>15, OfIs
  <2> QED
    BY <2>1, <2>2, <2>3, <1>17
<1>20. BVarsOK'
  <2>1. freelist_current_index' \in 0 .. MaxLists /\ freelist_index' \in [Threads -> -1 .. (MaxLists - 1)]
    BY <1>5, IndexStep DEF BInv
  <2>2. freelist' \in [Threads -> [Levels -> Seq(Units)]]
    BY <1>5, <1>13 DEF BInv, BVarsOK
  <2>3. used' \subseteq Block
    BY <1>5, <1>9, BlkFacts DEF BInv, BVarsOK
  <2> QED
    BY <2>1, <2>2, <2>3, <1>5 DEF BInv, BVarsOK
<1>21. \A s \in Threads : ListsOK(freelist'[s])
  BY <1>13, <1>16 DEF BInv
<1>22. \A s \in Threads : pc'[s] # "idle" => \A k \in want'[s] .. MaxLevel : freelist'[s][k] = <<>>
  BY <1>5, <1>16 DEF BInv
<1>23. Ascending(global_freelist')
  BY <1>5 DEF BInv
<1> QED
  BY <1>18, <1>19, <1>20, <1>21, <1>22, <1>23 DEF BInv

\* Steps that move no block.
LEMMA QuietStep ==
  ASSUME BInv, BVarsOK',
         global_freelist' = global_freelist, freelist' = freelist, used' = used,
         stranded' = stranded, up' = up,
         \A s \in Threads : pc'[s] # "idle" => \A k \in want'[s] .. MaxLevel : freelist[s][k] = <<>>
  PROVE  BInv'
<1>1. Held' = Held
  BY DEF Held
<1> QED
  BY <1>1 DEF BInv

LEMMA SpinStep ==
  ASSUME BInv, NEW t \in Threads, NEW l \in Levels, malloc_spin(t, l)
  PROVE  BInv'
<1>1. BVarsOK'
  <2>1. freelist_current_index' \in 0 .. MaxLists /\ freelist_index' \in [Threads -> -1 .. (MaxLists - 1)]
    BY IndexStep DEF BInv, malloc_spin
  <2> QED
    BY <2>1 DEF BInv, BVarsOK, malloc_spin, lists
<1>2. \A s \in Threads : pc'[s] # "idle" => \A k \in want'[s] .. MaxLevel : freelist[s][k] = <<>>
  BY DEF BInv, BVarsOK, malloc_spin
<1> QED
  BY <1>1, <1>2, QuietStep DEF malloc_spin, lists

LEMMA LockStep ==
  ASSUME BInv, NEW t \in Threads, malloc_lock(t)
  PROVE  BInv'
<1>1. BVarsOK'
  BY DEF BInv, BVarsOK, malloc_lock, lists, indices
<1>2. \A s \in Threads : pc'[s] # "idle" => \A k \in want'[s] .. MaxLevel : freelist[s][k] = <<>>
  BY DEF BInv, BVarsOK, malloc_lock
<1> QED
  BY <1>1, <1>2, QuietStep DEF malloc_lock, lists

\* The batch that malloc_refill takes, and what it leaves.
LEMMA BatchTaken ==
  ASSUME NEW g \in Seq(Units), g # <<>>, Ascending(g), NEW n, n = Min({Batch + 2, Len(g)})
  PROVE  /\ SubSeq(g, 2, n) \in Seq(Units) /\ Ascending(SubSeq(g, 2, n))
         /\ SubSeq(g, Batch + 3, Len(g)) \in Seq(Units) /\ Ascending(SubSeq(g, Batch + 3, Len(g)))
         /\ Head(g) \in ToSet(g) /\ Head(g) \notin ToSet(SubSeq(g, 2, n))
         /\ ToSet(SubSeq(g, 2, n)) \subseteq ToSet(g)
         /\ ToSet(SubSeq(g, Batch + 3, Len(g))) = ToSet(g) \ (ToSet(SubSeq(g, 2, n)) \cup {Head(g)})
<1>1. Len(g) \in Nat \ {0} /\ DOMAIN g = 1 .. Len(g) /\ Batch \in Nat /\ Head(g) = g[1]
  BY PoolAssumption
<1>2. n \in {Batch + 2, Len(g)} /\ n <= Batch + 2 /\ n <= Len(g)
  <2>1. {Batch + 2, Len(g)} \in SUBSET Nat /\ {Batch + 2, Len(g)} # {}
    BY <1>1
  <2> QED
    BY <2>1, MinIsLeast
<1>3. n \in 0 .. Len(g) /\ Len(g) \in 0 .. Len(g) /\ 2 \in Nat \ {0} /\ Batch + 3 \in Nat \ {0}
  BY <1>1, <1>2
<1>4. PICK taken : taken = SubSeq(g, 2, n)
  OBVIOUS
<1>5. PICK rest : rest = SubSeq(g, Batch + 3, Len(g))
  OBVIOUS
<1>6. taken \in Seq(Units) /\ Ascending(taken) /\ ToSet(taken) = {g[k] : k \in 2 .. n}
  BY <1>3, <1>4, AscendingPart
<1>7. rest \in Seq(Units) /\ Ascending(rest) /\ ToSet(rest) = {g[k] : k \in (Batch + 3) .. Len(g)}
  BY <1>3, <1>5, AscendingPart
<1>8. \A i, k \in DOMAIN g : g[i] = g[k] => i = k
  BY AscendingDistinct DEF Distinct
<1>9. ToSet(g) = {g[k] : k \in DOMAIN g}
  BY DEF ToSet
<1>10. \A k \in 2 .. n : k \in DOMAIN g /\ k # 1 /\ k \notin (Batch + 3) .. Len(g)
  BY <1>1, <1>2, <1>3
<1>11. \A k \in (Batch + 3) .. Len(g) : k \in DOMAIN g /\ k # 1
  BY <1>1
<1>12. \A k \in DOMAIN g : k = 1 \/ k \in 2 .. n \/ k \in (Batch + 3) .. Len(g)
  BY <1>1, <1>2, <1>3
<1>13. 1 \in DOMAIN g
  BY <1>1
<1>14. Head(g) \in ToSet(g) /\ Head(g) \notin ToSet(taken) /\ ToSet(taken) \subseteq ToSet(g)
  BY <1>1, <1>6, <1>8, <1>9, <1>10, <1>13
<1>15. ToSet(rest) = ToSet(g) \ (ToSet(taken) \cup {Head(g)})
  <2>1. ASSUME NEW k \in (Batch + 3) .. Len(g)
        PROVE  g[k] \in ToSet(g) /\ g[k] \notin ToSet(taken) /\ g[k] # g[1]
    BY <1>6, <1>8, <1>9, <1>10, <1>11, <1>13
  <2>2. ASSUME NEW k \in DOMAIN g, g[k] \notin ToSet(taken), g[k] # g[1] PROVE g[k] \in ToSet(rest)
    BY <2>2, <1>6, <1>7, <1>12
  <2> QED
    BY <2>1, <2>2, <1>1, <1>7, <1>9
<1> QED
  BY <1>4, <1>5, <1>6, <1>7, <1>14, <1>15

LEMMA RefillStep ==
  ASSUME BInv, NEW t \in Threads, malloc_refill(t)
  PROVE  BInv'
<1>1. PICK g : g = global_freelist
  OBVIOUS
<1>2. PICK taken : taken = TakenBlocks
  OBVIOUS
<1>3. PICK rest : rest = RestOfBlocks
  OBVIOUS
<1>4. PICK a : a = Head(g)
  OBVIOUS
<1>5. PICK free : free = freelist[t]
  OBVIOUS
<1>6. PICK w : w = want[t]
  OBVIOUS
<1>7. PICK new : new = Split([free EXCEPT ![MaxLevel] = taken], a, MaxLevel, w)
  OBVIOUS
<1>8. /\ up /\ pc[t] = "locked" /\ g # <<>>
      /\ freelist' = [freelist EXCEPT ![t] = new]
      /\ global_freelist' = rest
      /\ used' = used \cup {Blk(a, w)}
      /\ lock' = FALSE /\ pc' = [pc EXCEPT ![t] = "idle"] /\ want' = [want EXCEPT ![t] = 0]
      /\ freelist_current_index' = freelist_current_index /\ freelist_index' = freelist_index
      /\ stranded' = stranded /\ up' = up
  BY <1>1, <1>2, <1>3, <1>4, <1>5, <1>6, <1>7 DEF malloc_refill, Hand, Blk, indices, Unlocked
<1>9. /\ g \in Seq(Units) /\ Ascending(g) /\ w \in Levels /\ free \in [Levels -> Seq(Units)]
      /\ ListsOK(free) /\ \A k \in w .. MaxLevel : free[k] = <<>>
  BY <1>1, <1>5, <1>6, <1>8 DEF BInv, BVarsOK
<1>10. /\ Levels = 0 .. MaxLevel /\ MaxLevel \in Nat /\ MaxLevel \in Levels /\ w \in 0 .. MaxLevel
       /\ \A k \in w .. (MaxLevel - 1) : k \in w .. MaxLevel /\ MaxLevel \in w .. MaxLevel
  BY <1>9, Powers DEF Levels
<1>11. /\ taken \in Seq(Units) /\ Ascending(taken) /\ rest \in Seq(Units) /\ Ascending(rest)
       /\ a \in ToSet(g) /\ a \notin ToSet(taken) /\ ToSet(taken) \subseteq ToSet(g)
       /\ ToSet(rest) = ToSet(g) \ (ToSet(taken) \cup {a})
  <2>1. PICK n : n = Min({Batch + 2, Len(g)})
    OBVIOUS
  <2>2. taken = SubSeq(g, 2, n) /\ rest = SubSeq(g, Batch + 3, Len(g))
    BY <2>1, <1>1, <1>2, <1>3 DEF TakenBlocks, RestOfBlocks
  <2> QED
    BY <2>1, <2>2, <1>4, <1>8, <1>9, BatchTaken
<1>12. /\ a \in Units /\ Whole(Blk(a, MaxLevel)) /\ Pair(Blk(a, MaxLevel), Pool) \in Held
       /\ \A c \in ToSet(taken) : c \in Units /\ Pair(Blk(c, MaxLevel), Pool) \in Held
  BY <1>1, <1>11, InPool
<1> DEFINE D == {x \in Block : x.level = MaxLevel /\ x.addr \in ToSet(taken)}
           H1 == (Held \ Of(D, Pool)) \cup Of(D, Thread(t))
           A == Blk(a, MaxLevel)
<1>13. IsSplit(free, taken, a, MaxLevel, w, new)
  <2>1. Unmerged(ToSet(taken), MaxLevel)
    BY <1>10 DEF Unmerged, MergesWith
  <2>2. \A k \in w .. (MaxLevel - 1) : free[k] = <<>>
    BY <1>9, <1>10
  <2>3. Splits(free, taken, a, MaxLevel, w, new)
    BY <2>1, <2>2, <1>7, <1>9, <1>10, <1>11, <1>12 DEF Splits
  <2> QED
    BY <2>3, SplitLists
<1>14. FreeBlocks(new) = FreeBlocks(free) \cup (D \cup Halves(a, w, MaxLevel))
  <2>1. free[MaxLevel] = <<>>
    BY <1>9, <1>10
  <2>2. \A x \in FreeBlocks(free) : x.level # MaxLevel
    BY <2>1, EmptyList DEF FreeBlocks
  <2>3. LeftOver(free, taken, MaxLevel) = FreeBlocks(free) \cup D
    BY <2>2 DEF LeftOver
  <2> HIDE DEF D
  <2> QED
    BY <2>3, <1>13 DEF IsSplit
<1>15. PoolBlocks(rest) = PoolBlocks(g) \ (D \cup {A})
  <2>1. \A x \in Block : x = A <=> x.level = MaxLevel /\ x.addr = a
    BY BlockIs, BlkFacts
  <2> QED
    BY <2>1, <1>11 DEF PoolBlocks
<1>16. freelist'[t] = new /\ \A s \in Threads : s # t => freelist'[s] = freelist[s]
  BY <1>8 DEF BInv, BVarsOK
<1>17. Of(D, Pool) \subseteq Held /\ A \notin D
  <2>1. A \notin D
    BY <1>11, BlkFacts
  <2>2. D \subseteq PoolBlocks(g)
    BY <1>11 DEF PoolBlocks
  <2>3. ASSUME NEW h \in Of(D, Pool) PROVE h \in Held
    <3>1. PICK x \in D : h = Pair(x, Pool)
      BY OfIs
    <3>2. x \in PoolBlocks(global_freelist)
      BY <2>2, <1>1
    <3> QED
      BY <3>1, <3>2, InHeld DEF Held
  <2> QED
    BY <2>1, <2>3
<1> HIDE DEF D, H1, A
<1>18. Tiled(H1) /\ Pair(A, Pool) \in H1 /\ Pair(A, Pool) \notin Of(D, Thread(t))
  <2>1. Tiled(H1)
    BY <1>8, <1>17, MoveTiled DEF BInv, H1
  <2>2. Pair(A, Pool) \notin Of(D, Pool) /\ Pair(A, Pool) \notin Of(D, Thread(t))
    BY <1>17, OfIs, Holders
  <2> QED
    BY <2>1, <2>2, <1>12 DEF H1, A
<1>19. Tiled((H1 \ {Pair(A, Pool)}) \cup ({Pair(Blk(a, w), User)} \cup Of(Halves(a, w, MaxLevel), Thread(t))))
  BY <1>10, <1>12, <1>18, SplitHeld DEF A
<1>20. Held' = (Held \ Of(D \cup {A}, Pool))
               \cup ({Pair(Blk(a, w), User)} \cup Of(D \cup Halves(a, w, MaxLevel), Thread(t)))
  <2>1. Changes(t, {}, {Blk(a, w)}, {}, D \cup {A}, {}, D \cup Halves(a, w, MaxLevel))
    <3>1. used' = (used \ {}) \cup {Blk(a, w)} /\ stranded' = stranded \cup {}
      BY <1>8
    <3>2. PoolBlocks(global_freelist') = PoolBlocks(global_freelist) \ (D \cup {A})
      BY <1>1, <1>8, <1>15
    <3>3. FreeBlocks(freelist'[t]) = (FreeBlocks(freelist[t]) \ {}) \cup (D \cup Halves(a, w, MaxLevel))
      BY <1>5, <1>14, <1>16
    <3> QED
      BY <3>1, <3>2, <3>3, <1>16 DEF Changes
  <2>2. Held' = (Held \ (Of({}, User) \cup Of(D \cup {A}, Pool) \cup Of({}, Thread(t))))
                \cup (Of({Blk(a, w)}, User) \cup Of({}, Nobody) \cup Of(D \cup Halves(a, w, MaxLevel), Thread(t)))
    BY <2>1, HeldChange
  <2>3. /\ Of({}, User) = {} /\ Of({}, Thread(t)) = {} /\ Of({}, Nobody) = {}
        /\ Of({Blk(a, w)}, User) = {Pair(Blk(a, w), User)}
    BY OfSets
  <2> QED
    BY <2>2, <2>3
<1>21. Tiled(Held')
  <2>1. /\ Of(D \cup {A}, Pool) = Of(D, Pool) \cup {Pair(A, Pool)}
        /\ Of(D \cup Halves(a, w, MaxLevel), Thread(t)) =
             Of(D, Thread(t)) \cup Of(Halves(a, w, MaxLevel), Thread(t))
    <3>1. Of(D \cup {A}, Pool) = Of(D, Pool) \cup Of({A}, Pool)
      BY DEF Of
    <3>2. Of({A}, Pool) = {Pair(A, Pool)}
      BY OfSets
    <3>3. Of(D \cup Halves(a, w, MaxLevel), Thread(t)) =
            Of(D, Thread(t)) \cup Of(Halves(a, w, MaxLevel), Thread(t))
      BY DEF Of
    <3> QED
      BY <3>1, <3>2, <3>3
  <2>2. Held' = (H1 \ {Pair(A, Pool)}) \cup ({Pair(Blk(a, w), User)} \cup Of(Halves(a, w, MaxLevel), Thread(t)))
    BY <2>1, <1>18, <1>20 DEF H1
  <2> QED
    BY <2>2, <1>19
<1>22. ASSUME NEW h \in Held' PROVE Whole(BlockOf(h))
  <2>0. Whole(Blk(a, w)) /\ \A x \in Halves(a, w, MaxLevel) : Whole(x)
    BY <1>10, <1>12, SplitTiles DEF Halves
  <2>1. CASE h \in Held
    BY <2>1 DEF BInv
  <2>2. CASE h = Pair(Blk(a, w), User)
    BY <2>2, <2>0, PairOf
  <2>3. CASE h \in Of(D \cup Halves(a, w, MaxLevel), Thread(t))
    <3>1. PICK x \in D \cup Halves(a, w, MaxLevel) : BlockOf(h) = x
      BY <2>3, OfIs
    <3>2. CASE x \in D
      <4>1. Pair(x, Pool) \in Held /\ BlockOf(Pair(x, Pool)) = x
        BY <3>2, <1>17, OfIs, PairOf
      <4> QED
        BY <4>1, <3>1 DEF BInv
    <3> QED
      BY <3>1, <3>2, <2>0
  <2> QED
    BY <2>1, <2>2, <2>3, <1>20
<1>23. BVarsOK'
  <2>1. freelist' \in [Threads -> [Levels -> Seq(Units)]]
    BY <1>8, <1>13 DEF BInv, BVarsOK, IsSplit
  <2>2. used' \subseteq Block
    BY <1>8, <1>9, <1>12, BlkFacts DEF BInv, BVarsOK
  <2>3. 0 \in Levels
    BY <1>10
  <2> QED
    BY <2>1, <2>2, <2>3, <1>8, <1>11 DEF BInv, BVarsOK
<1>24. \A s \in Threads : ListsOK(freelist'[s])
  BY <1>13, <1>16 DEF BInv, IsSplit
<1>25. \A s \in Threads : pc'[s] # "idle" => \A k \in want'[s] .. MaxLevel : freelist'[s][k] = <<>>
  BY <1>8, <1>16 DEF BInv, BVarsOK
<1>26. Ascending(global_freelist')
  BY <1>8, <1>11
<1> QED
  BY <1>21, <1>22, <1>23, <1>24, <1>25, <1>26 DEF BInv

\* Empty lists: a process that has ended, and the lists of a thread that has.
LEMMA NothingListed ==
  ASSUME NEW free, \A k \in Levels : free[k] = <<>>
  PROVE  FreeBlocks(free) = {} /\ ListsOK(free)
<1>1. FreeBlocks(free) = {}
  BY EmptyList, BlockIs DEF FreeBlocks
<1>2. ListsOK(free)
  BY EmptyList DEF ListsOK, Unmerged
<1> QED
  BY <1>1, <1>2

LEMMA AbortStep ==
  ASSUME BInv, abort
  PROVE  BInv'
<1>1. \A t \in Threads : \A k \in Levels : freelist'[t][k] = <<>>
  BY DEF abort, NoLists
<1>2. \A t \in Threads : FreeBlocks(freelist'[t]) = {} /\ ListsOK(freelist'[t])
  BY <1>1, NothingListed
<1>3. PoolBlocks(global_freelist') = {}
  BY EmptyList DEF abort, PoolBlocks
<1>4. ASSUME NEW h \in Held' PROVE FALSE
  <2>1. PICK x : \/ x \in used' \/ x \in stranded' \/ x \in PoolBlocks(global_freelist')
                 \/ \E t \in Threads : x \in FreeBlocks(freelist'[t])
    BY <1>4, HeldPair DEF Held
  <2> QED
    BY <2>1, <1>2, <1>3 DEF abort
<1>5. BVarsOK'
  <2>1. MaxLists \in Nat /\ 0 \in Levels
    BY PoolAssumption, Powers DEF Levels
  <2>2. freelist' \in [Threads -> [Levels -> Seq(Units)]] /\ global_freelist' \in Seq(Units)
    BY EmptyList DEF abort, NoLists
  <2>3. /\ freelist_current_index' \in 0 .. MaxLists
        /\ freelist_index' \in [Threads -> -1 .. (MaxLists - 1)]
        /\ pc' \in [Threads -> {"idle", "spin", "locked"}] /\ want' \in [Threads -> Levels]
    BY <2>1 DEF abort
  <2>4. lock' \in BOOLEAN /\ up' \in BOOLEAN /\ used' \subseteq Block /\ stranded' \subseteq Block
    BY DEF abort
  <2> QED
    BY <2>2, <2>3, <2>4 DEF BVarsOK
<1>6. Ascending(global_freelist')
  BY EmptyList DEF abort
<1> QED
  BY <1>2, <1>4, <1>5, <1>6 DEF BInv, abort

LEMMA ExitStep ==
  ASSUME BInv, NEW t \in Threads, thread_exit(t)
  PROVE  BInv'
<1>1. PICK D : D = FreeBlocks(freelist[t])
  OBVIOUS
<1>2. PICK none : none = [l \in Levels |-> <<>>]
  OBVIOUS
<1>3. /\ up /\ pc[t] = "idle"
      /\ stranded' = stranded \cup D
      /\ freelist' = [freelist EXCEPT ![t] = none]
      /\ freelist_index' = [freelist_index EXCEPT ![t] = -1]
      /\ global_freelist' = global_freelist /\ freelist_current_index' = freelist_current_index
      /\ lock' = lock /\ pc' = pc /\ want' = want /\ used' = used /\ up' = up
  <2>1. UNION {{[addr |-> a, level |-> l] : a \in ToSet(freelist[t][l])} : l \in Levels} = D
    <3>1. \A l \in Levels : \A a \in ToSet(freelist[t][l]) : Blk(a, l) \in D
      BY <1>1, OnList
    <3>2. \A x \in D : x.level \in Levels /\ x.addr \in ToSet(freelist[t][x.level]) /\ x = Blk(x.addr, x.level)
      BY <1>1, BlockIs DEF FreeBlocks
    <3> QED
      BY <3>1, <3>2 DEF Blk
  <2> QED
    BY <2>1, <1>2 DEF thread_exit
<1>4. none \in [Levels -> Seq(Units)] /\ \A k \in Levels : none[k] = <<>>
  BY <1>2, EmptyList
<1>5. freelist'[t] = none /\ \A s \in Threads : s # t => freelist'[s] = freelist[s]
  BY <1>3 DEF BInv, BVarsOK
<1>6. FreeBlocks(none) = {} /\ ListsOK(none)
  BY <1>4, NothingListed
<1>7. Held' = (Held \ Of(D, Thread(t))) \cup Of(D, Nobody)
  <2>1. Changes(t, {}, {}, D, {}, D, {})
    BY <1>1, <1>3, <1>5, <1>6 DEF Changes
  <2>2. Held' = (Held \ (Of({}, User) \cup Of({}, Pool) \cup Of(D, Thread(t))))
                \cup (Of({}, User) \cup Of(D, Nobody) \cup Of({}, Thread(t)))
    BY <2>1, HeldChange
  <2>3. Of({}, User) = {} /\ Of({}, Pool) = {} /\ Of({}, Thread(t)) = {}
    BY OfSets
  <2> QED
    BY <2>2, <2>3
<1>8. Of(D, Thread(t)) \subseteq Held
  <2>1. ASSUME NEW h \in Of(D, Thread(t)) PROVE h \in Held
    <3>1. PICK x \in D : h = Pair(x, Thread(t))
      BY OfIs
    <3> QED
      BY <3>1, <1>1, InHeld DEF Held
  <2> QED
    BY <2>1
<1>9. Tiled(Held')
  BY <1>3, <1>7, <1>8, MoveTiled DEF BInv
<1>10. ASSUME NEW h \in Held' PROVE Whole(BlockOf(h))
  <2>1. CASE h \in Of(D, Nobody)
    <3>1. PICK x \in D : BlockOf(h) = x
      BY <2>1, OfIs
    <3>2. Pair(x, Thread(t)) \in Held /\ BlockOf(Pair(x, Thread(t))) = x
      BY <1>8, OfIs, PairOf
    <3> QED
      BY <3>1, <3>2 DEF BInv
  <2> QED
    BY <2>1, <1>7 DEF BInv
<1>11. BVarsOK'
  <2>1. D \subseteq Block /\ MaxLists \in Nat
    BY <1>1, PoolAssumption DEF FreeBlocks
  <2>2. freelist_index' \in [Threads -> -1 .. (MaxLists - 1)]
    BY <2>1, <1>3 DEF BInv, BVarsOK
  <2>3. freelist' \in [Threads -> [Levels -> Seq(Units)]]
    BY <1>3, <1>4 DEF BInv, BVarsOK
  <2>4. stranded' \subseteq Block
    BY <2>1, <1>3 DEF BInv, BVarsOK
  <2>5. /\ global_freelist' = global_freelist /\ freelist_current_index' = freelist_current_index
        /\ lock' = lock /\ pc' = pc /\ want' = want /\ used' = used /\ up' = up
    BY <1>3
  <2>6. BVarsOK
    BY DEF BInv
  <2> QED
    BY <2>2, <2>3, <2>4, <2>5, <2>6 DEF BVarsOK
<1>12. \A s \in Threads : ListsOK(freelist'[s])
  BY <1>5, <1>6 DEF BInv
<1>13. \A s \in Threads : pc'[s] # "idle" => \A k \in want'[s] .. MaxLevel : freelist'[s][k] = <<>>
  BY <1>3, <1>5 DEF BInv
<1> QED
  BY <1>3, <1>9, <1>10, <1>11, <1>12, <1>13 DEF BInv

-----------------------------------------------------------------------------
(* buddy_free.                                                             *)
\* The lists after a block was freed into them: every level below the top one
\* loses the half that was merged, the top one gets the result.
FreedInto(free, b, h, top) == [k \in Levels |->
    CASE k \in b.level .. (top - 1) -> RemoveAt(free[k], Min(Partners(free[k], h[k], k)))
      [] k = top -> InsertAt(free[k], InsertPos(free[k], h[k]), h[k])
      [] OTHER -> free[k]]
Merges(free, b, h, top) ==
    /\ free \in [Levels -> Seq(Units)] /\ ListsOK(free) /\ \A k \in Levels : ListWhole(free[k], k)
    /\ b \in Block /\ Whole(b) /\ h = Merged(free, b) /\ top = Top(b, h)
    /\ h[top] \notin ToSet(free[top])
HalvesFreed(free, b, h, top) == {Blk(Half(free, h, k), k) : k \in b.level .. (top - 1)}
IsMerged(free, b, h, top, new) ==
    /\ new \in [Levels -> Seq(Units)] /\ ListsOK(new)
    /\ FreeBlocks(new) = (FreeBlocks(free) \ HalvesFreed(free, b, h, top)) \cup {Blk(h[top], top)}
LEMMA MergeLists ==
  ASSUME NEW free, NEW b, NEW h, NEW top, Merges(free, b, h, top),
         NEW new, new = FreedInto(free, b, h, top)
  PROVE  IsMerged(free, b, h, top, new)
<1>0. /\ free \in [Levels -> Seq(Units)] /\ ListsOK(free) /\ \A k \in Levels : ListWhole(free[k], k)
      /\ b \in Block /\ Whole(b) /\ h = Merged(free, b) /\ top = Top(b, h)
      /\ h[top] \notin ToSet(free[top])
  BY DEF Merges
<1>1. /\ top \in b.level .. MaxLevel
      /\ \A k \in b.level .. top : k \in Levels /\ h[k] \in Units /\ Whole(Blk(h[k], k))
      /\ \A k \in b.level .. (top - 1) : Min(Partners(free[k], h[k], k)) \in DOMAIN free[k]
      /\ Partners(free[top], h[top], top) = {}
  BY <1>0, MergeChain
<1>2. b.level \in Nat /\ MaxLevel \in Nat
  BY <1>0, BlockIs, Powers DEF Levels
<1>3. /\ top \in b.level .. top /\ top \notin b.level .. (top - 1)
      /\ \A k \in b.level .. (top - 1) : k \in b.level .. top
  BY <1>1, <1>2
<1>4. PICK i : i = [k \in Levels |-> Min(Partners(free[k], h[k], k))]
  OBVIOUS
<1>5. ASSUME NEW k \in b.level .. (top - 1)
      PROVE  /\ new[k] \in Seq(Units) /\ Ascending(new[k]) /\ Unmerged(ToSet(new[k]), k)
             /\ ToSet(new[k]) = ToSet(free[k]) \ {Half(free, h, k)}
             /\ Half(free, h, k) \in Units
  <2>1. k \in Levels
    BY <1>1, <1>3
  <2>2. PICK s \in Seq(Units) : s = free[k] /\ Ascending(s) /\ Unmerged(ToSet(s), k)
    BY <2>1, <1>0 DEF ListsOK
  <2>3. PICK m \in DOMAIN s : m = Min(Partners(free[k], h[k], k))
    BY <2>2, <1>1
  <2>4. PICK r : r = RemoveAt(s, m)
    OBVIOUS
  <2>5. new[k] = r
    BY <2>1, <2>2, <2>3, <2>4 DEF FreedInto
  <2>6. Half(free, h, k) = s[m]
    BY <2>2, <2>3 DEF Half
  <2>7. r \in Seq(Units) /\ Ascending(r) /\ ToSet(r) = ToSet(s) \ {s[m]}
    BY <2>2, <2>4, AscendingRemove
  <2>8. Unmerged(ToSet(r), k)
    BY <2>2, <2>7 DEF Unmerged
  <2>9. s[m] \in Units
    OBVIOUS
  <2> QED
    BY <2>2, <2>5, <2>6, <2>7, <2>8, <2>9
<1>6. /\ new[top] \in Seq(Units) /\ Ascending(new[top]) /\ Unmerged(ToSet(new[top]), top)
      /\ ToSet(new[top]) = ToSet(free[top]) \cup {h[top]}
      /\ h[top] \in Units /\ top \in Levels
  <2>1. top \in Levels /\ h[top] \in Units /\ Whole(Blk(h[top], top))
    BY <1>1, <1>3
  <2>2. PICK s \in Seq(Units) : /\ s = free[top] /\ Ascending(s) /\ Unmerged(ToSet(s), top)
                                /\ ListWhole(s, top) /\ h[top] \notin ToSet(s)
    BY <2>1, <1>0 DEF ListsOK
  <2>3. PICK a \in Units : a = h[top] /\ Whole(Blk(a, top)) /\ a \notin ToSet(s) /\ Partners(s, a, top) = {}
    BY <2>1, <2>2, <1>1
  <2>4. PICK r : r = InsertAt(s, InsertPos(s, a), a)
    OBVIOUS
  <2>5. new[top] = r
    BY <2>1, <2>2, <2>3, <2>4, <1>3 DEF FreedInto
  <2>6. r \in Seq(Units) /\ Ascending(r) /\ ToSet(r) = ToSet(s) \cup {a}
    BY <2>2, <2>3, <2>4, AscendingInsert
  <2>7. Unmerged(ToSet(s) \cup {a}, top)
    BY <2>1, <2>2, <2>3, NoneToMerge
  <2> QED
    BY <2>1, <2>2, <2>3, <2>5, <2>6, <2>7
<1>7. ASSUME NEW k \in Levels, k \notin b.level .. (top - 1), k # top PROVE new[k] = free[k]
  BY <1>7 DEF FreedInto
<1>8. DOMAIN new = Levels /\ new = [k \in Levels |-> new[k]]
  BY DEF FreedInto
<1>9. ASSUME NEW k \in Levels
      PROVE  new[k] \in Seq(Units) /\ Ascending(new[k]) /\ Unmerged(ToSet(new[k]), k)
  <2>1. CASE k \notin b.level .. (top - 1) /\ k # top
    BY <2>1, <1>0, <1>7 DEF ListsOK
  <2> QED
    BY <2>1, <1>5, <1>6
<1>10. new \in [Levels -> Seq(Units)]
  <2>1. \A k \in Levels : new[k] \in Seq(Units)
    BY <1>9
  <2> QED
    BY <2>1, <1>8
<1>11. ListsOK(new)
  BY <1>9 DEF ListsOK
<1> DEFINE HF == HalvesFreed(free, b, h, top)
<1>12. ASSUME NEW x \in Block
       PROVE  /\ x \in HF <=> x.level \in b.level .. (top - 1) /\ x.addr = Half(free, h, x.level)
              /\ x = Blk(h[top], top) <=> x.level = top /\ x.addr = h[top]
  <2>1. \A k, a : x = Blk(a, k) <=> x.level = k /\ x.addr = a
    BY BlockIs, BlkFacts
  <2> QED
    BY <2>1 DEF HalvesFreed
<1>13. ASSUME NEW x \in Block
       PROVE  x.addr \in ToSet(new[x.level]) <=>
                (x.addr \in ToSet(free[x.level]) /\ x \notin HF) \/ x = Blk(h[top], top)
  <2>1. x.level \in Levels
    BY BlockIs
  <2> HIDE DEF HF
  <2>2. CASE x.level \in b.level .. (top - 1)
    BY <2>2, <1>3, <1>5, <1>12
  <2>3. CASE x.level = top
    BY <2>3, <1>3, <1>6, <1>12
  <2>4. CASE x.level \notin b.level .. (top - 1) /\ x.level # top
    BY <2>1, <2>4, <1>7, <1>12
  <2> QED
    BY <2>2, <2>3, <2>4
<1>14. Blk(h[top], top) \in Block
  BY <1>6, BlkFacts
<1>15. FreeBlocks(new) = (FreeBlocks(free) \ HF) \cup {Blk(h[top], top)}
  <2> HIDE DEF HF
  <2> QED
    BY <1>13, <1>14 DEF FreeBlocks
<1> QED
  BY <1>10, <1>11, <1>15 DEF IsMerged

LEMMA FreeStep ==
  ASSUME BInv, NEW t \in Threads, NEW b \in used, buddy_free(t, b)
  PROVE  BInv'
<1>1. PICK free : free = freelist[t]
  OBVIOUS
<1>2. PICK h : h = Merged(free, b)
  OBVIOUS
<1>3. PICK top : top = Top(b, h)
  OBVIOUS
<1>4. PICK new : new = FreedInto(free, b, h, top)
  OBVIOUS
<1>5. /\ up /\ pc[t] = "idle" /\ ~NoList(t)
      /\ used' = used \ {b}
      /\ freelist' = [freelist EXCEPT ![t] = new]
      /\ get_freelist(t)
      /\ global_freelist' = global_freelist /\ lock' = lock /\ pc' = pc /\ want' = want
      /\ stranded' = stranded /\ up' = up
  BY <1>1, <1>2, <1>3, <1>4 DEF buddy_free, FreedInto, Top
<1>6. b \in Block /\ Whole(b) /\ Pair(b, User) \in Held
  BY InUse
<1>7. Levels = 0 .. MaxLevel /\ MaxLevel \in Nat /\ b.level \in Levels
  BY <1>6, BlockIs, Powers DEF Levels
<1>8. /\ free \in [Levels -> Seq(Units)] /\ ListsOK(free)
      /\ \A k \in Levels : ListWhole(free[k], k)
  <2>1. freelist[t] \in [Levels -> Seq(Units)] /\ ListsOK(freelist[t])
    BY DEF BInv, BVarsOK
  <2>2. \A k \in Levels : ListWhole(freelist[t][k], k)
    BY OnList
  <2> QED
    BY <2>1, <2>2, <1>1
<1>9. /\ top \in b.level .. MaxLevel
      /\ \A k \in b.level .. top : k \in Levels /\ h[k] \in Units /\ Whole(Blk(h[k], k))
      /\ \A k \in b.level .. (top - 1) : Min(Partners(free[k], h[k], k)) \in DOMAIN free[k]
      /\ \A u \in Units : In(u, Blk(h[top], top)) <=>
             In(u, b) \/ \E k \in b.level .. (top - 1) : In(u, Blk(Half(free, h, k), k))
  BY <1>2, <1>3, <1>6, <1>8, MergeChain
<1>10. top \in b.level .. top /\ \A k \in b.level .. (top - 1) : k \in b.level .. top /\ k # top
  BY <1>7, <1>9
<1>11. PICK X : X = Blk(h[top], top)
  OBVIOUS
<1>12. PICK HF : HF = HalvesFreed(free, b, h, top)
  OBVIOUS
<1>13. X \in Block /\ Whole(X) /\ X.level = top /\ X.addr = h[top]
  BY <1>9, <1>10, <1>11, BlkFacts
<1>14. ASSUME NEW k \in b.level .. (top - 1)
       PROVE  Pair(Blk(Half(free, h, k), k), Thread(t)) \in Held
  <2>1. k \in Levels
    BY <1>9, <1>10
  <2>2. Half(free, h, k) \in ToSet(free[k])
    BY <1>9 DEF Half, ToSet
  <2> QED
    BY <2>1, <2>2, <1>1, OnList
<1>15. \A x \in HF : \E k \in b.level .. (top - 1) : x = Blk(Half(free, h, k), k)
  BY <1>12 DEF HalvesFreed
<1>16. \A k \in b.level .. (top - 1) : Blk(Half(free, h, k), k) \in HF
  BY <1>12 DEF HalvesFreed
<1>17. Tiled(Held)
  BY <1>5 DEF BInv
<1>18. h[top] \notin ToSet(free[top])
  <2> SUFFICES ASSUME h[top] \in ToSet(free[top]) PROVE FALSE
    OBVIOUS
  <2>1. Pair(X, Thread(t)) \in Held
    BY <1>1, <1>9, <1>10, <1>11, OnList
  <2>2. PICK u \in Units : In(u, X)
    BY <1>13, FirstUnit
  <2>3. \A g \in Held : In(u, BlockOf(g)) => g = Pair(X, Thread(t))
    BY <2>1, <2>2, <1>17, PairOf DEF Tiled, Apart
  <2>4. CASE In(u, b)
    <3>1. Pair(b, User) = Pair(X, Thread(t))
      BY <2>3, <2>4, <1>6, PairOf
    <3> QED
      BY <3>1, PairOf, Holders
  <2>5. ASSUME NEW k \in b.level .. (top - 1), In(u, Blk(Half(free, h, k), k)) PROVE FALSE
    <3>1. Pair(Blk(Half(free, h, k), k), Thread(t)) = Pair(X, Thread(t))
      BY <2>3, <2>5, <1>14, PairOf
    <3>2. Blk(Half(free, h, k), k) = X
      BY <3>1, PairOf
    <3>3. k = top
      BY <3>2, <1>13, BlkFacts
    <3> QED
      BY <3>3, <1>10
  <2> QED
    BY <2>2, <2>4, <2>5, <1>9, <1>11
<1>19. IsMerged(free, b, h, top, new)
  <2>1. Merges(free, b, h, top)
    BY <1>2, <1>3, <1>6, <1>8, <1>18 DEF Merges
  <2> QED
    BY <2>1, <1>4, MergeLists
<1>20. freelist'[t] = new /\ \A s \in Threads : s # t => freelist'[s] = freelist[s]
  BY <1>5 DEF BInv, BVarsOK
<1> DEFINE Old == Of({b}, User) \cup Of(HF, Thread(t))
<1>21. Held' = (Held \ Old) \cup {Pair(X, Thread(t))}
  <2>1. Changes(t, {b}, {}, {}, {}, HF, {X})
    <3>1. /\ used' = (used \ {b}) \cup {} /\ stranded' = stranded \cup {}
          /\ PoolBlocks(global_freelist') = PoolBlocks(global_freelist) \ {}
      BY <1>5
    <3>2. FreeBlocks(freelist'[t]) = (FreeBlocks(freelist[t]) \ HF) \cup {X}
      BY <1>1, <1>11, <1>12, <1>19, <1>20 DEF IsMerged
    <3> QED
      BY <3>1, <3>2, <1>20 DEF Changes
  <2>2. Held' = (Held \ (Of({b}, User) \cup Of({}, Pool) \cup Of(HF, Thread(t))))
                \cup (Of({}, User) \cup Of({}, Nobody) \cup Of({X}, Thread(t)))
    BY <2>1, HeldChange
  <2>3. Of({}, User) = {} /\ Of({}, Pool) = {} /\ Of({}, Nobody) = {} /\ Of({X}, Thread(t)) = {Pair(X, Thread(t))}
    BY OfSets
  <2> QED
    BY <2>2, <2>3
<1>22. \A g \in Old : \/ g = Pair(b, User) /\ BlockOf(g) = b
                      \/ \E k \in b.level .. (top - 1) :
                           g = Pair(Blk(Half(free, h, k), k), Thread(t)) /\ BlockOf(g) = Blk(Half(free, h, k), k)
  <2> TAKE g \in Old
  <2>1. CASE g \in Of({b}, User)
    BY <2>1, OfIs
  <2>2. CASE g \in Of(HF, Thread(t))
    BY <2>2, <1>15, OfIs
  <2> QED
    BY <2>1, <2>2
<1>23. /\ Pair(b, User) \in Old /\ BlockOf(Pair(b, User)) = b
       /\ \A k \in b.level .. (top - 1) :
             /\ Pair(Blk(Half(free, h, k), k), Thread(t)) \in Old
             /\ BlockOf(Pair(Blk(Half(free, h, k), k), Thread(t))) = Blk(Half(free, h, k), k)
  BY <1>16, OfIs, PairOf
<1> HIDE DEF Old
<1>24. Tiled(Held')
  <2> DEFINE New == {Pair(X, Thread(t))}
  <2>1. Old \subseteq Held
    BY <1>6, <1>14, <1>22
  <2>2. Apart(New)
    BY DEF Apart
  <2>3. ASSUME NEW u \in Units PROVE Covered(u, Old) <=> Covered(u, New)
    <3>1. Covered(u, New) <=> In(u, X)
      BY PairOf DEF Covered
    <3>2. Covered(u, Old) <=>
            In(u, b) \/ \E k \in b.level .. (top - 1) : In(u, Blk(Half(free, h, k), k))
      BY <1>22, <1>23 DEF Covered
    <3> QED
      BY <3>1, <3>2, <1>9, <1>11
  <2>4. Tiled((Held \ Old) \cup New)
    <3> HIDE DEF New
    <3> QED
      BY <2>1, <2>2, <2>3, <1>17, ReplaceTiled
  <2> QED
    BY <2>4, <1>21
<1>25. ASSUME NEW g \in Held' PROVE Whole(BlockOf(g))
  BY <1>13, <1>21, PairOf DEF BInv
<1>26. BVarsOK'
  <2>1. freelist_current_index' \in 0 .. MaxLists /\ freelist_index' \in [Threads -> -1 .. (MaxLists - 1)]
    BY <1>5, IndexStep DEF BInv
  <2>2. freelist' \in [Threads -> [Levels -> Seq(Units)]]
    BY <1>5, <1>19 DEF BInv, BVarsOK, IsMerged
  <2>3. used' \subseteq Block
    BY <1>5 DEF BInv, BVarsOK
  <2>4. /\ global_freelist' = global_freelist /\ lock' = lock /\ pc' = pc /\ want' = want
        /\ stranded' = stranded /\ up' = up
    BY <1>5
  <2>5. BVarsOK
    BY DEF BInv
  <2> QED
    BY <2>1, <2>2, <2>3, <2>4, <2>5 DEF BVarsOK
<1>27. \A s \in Threads : ListsOK(freelist'[s])
  BY <1>19, <1>20 DEF BInv, IsMerged
<1>28. \A s \in Threads : pc'[s] # "idle" => \A k \in want'[s] .. MaxLevel : freelist'[s][k] = <<>>
  BY <1>5, <1>20 DEF BInv
<1>29. Ascending(global_freelist')
  BY <1>5 DEF BInv
<1> QED
  BY <1>24, <1>25, <1>26, <1>27, <1>28, <1>29 DEF BInv

-----------------------------------------------------------------------------
(* buddy_init.                                                             *)
LEMMA InitStep ==
  ASSUME BInit
  PROVE  BInv
<1>1. PICK P \in Nat \ {0} : P = 2^MaxLevel
  BY Powers
<1>2. PICK g : g = AllBlocks
  OBVIOUS
<1>3. /\ Blocks \in Nat \ {0} /\ PoolEnd = Blocks * P /\ PoolEnd \in Nat /\ Units = 0 .. (PoolEnd - 1)
      /\ MaxLevel \in Levels /\ 0 \in Levels
  BY <1>1, PoolAssumption, PoolFacts, Powers DEF PoolEnd, Levels
<1>4. DOMAIN g = 1 .. Blocks /\ \A i \in DOMAIN g : g[i] = (i - 1) * P
  BY <1>1, <1>2 DEF AllBlocks
<1>5. \A i \in 1 .. Blocks : (i - 1) * P \in Nat /\ i * P \in Nat /\ (i - 1) * P + P = i * P /\ i * P <= PoolEnd
  <2> TAKE i \in 1 .. Blocks
  <2>1. i \in Nat /\ i - 1 \in Nat /\ i <= Blocks
    BY <1>3
  <2>2. i * P <= Blocks * P
    BY <2>1, <1>1, <1>3, ProductOrder
  <2>3. \A x \in Nat : x * P \in Nat
    BY <1>1
  <2>4. (i - 1) * P + P = i * P
    BY <2>1, <1>1
  <2> QED
    BY <2>1, <2>2, <2>3, <2>4, <1>3
<1>6. g \in Seq(Units)
  <2>1. ASSUME NEW i \in 1 .. Blocks PROVE g[i] \in Units
    <3>1. PICK a \in Nat, c \in Nat : a = (i - 1) * P /\ a + P = c /\ c <= PoolEnd
      BY <1>5
    <3>2. PoolEnd \in Nat /\ Units = 0 .. (PoolEnd - 1)
      BY <1>3
    <3>3. a \in 0 .. (PoolEnd - 1)
      BY <3>1, <3>2, <1>1
    <3> QED
      BY <3>1, <3>2, <3>3, <1>4
  <2>2. g \in [1 .. Blocks -> Units]
    BY <2>1, <1>2, <1>4 DEF AllBlocks
  <2> QED
    BY <2>2, <1>3
<1>7. Ascending(g)
  <2> SUFFICES ASSUME NEW i \in DOMAIN g, NEW j \in DOMAIN g, i < j PROVE g[i] < g[j]
    BY DEF Ascending
  <2>1. i \in Nat /\ j - 1 \in Nat /\ i <= j - 1
    BY <1>3, <1>4
  <2>2. i * P <= (j - 1) * P
    BY <2>1, <1>1, ProductOrder
  <2>3. (i - 1) * P \in Nat /\ (i - 1) * P + P = i * P /\ (j - 1) * P \in Nat /\ i * P \in Nat
    BY <1>4, <1>5
  <2>4. (i - 1) * P < (j - 1) * P
    BY <2>2, <2>3, <1>1
  <2> QED
    BY <2>4, <1>4
<1>8. ASSUME NEW i \in DOMAIN g
      PROVE  Blk(g[i], MaxLevel) \in PoolBlocks(g) /\ Whole(Blk(g[i], MaxLevel))
  <2>1. g[i] \in Units /\ g[i] \in ToSet(g)
    BY <1>6 DEF ToSet
  <2>2. g[i] + P <= PoolEnd
    BY <1>4, <1>5
  <2>3. PICK a \in Int : a = g[i] /\ \E q \in Int : a = P * q
    <3>1. i - 1 \in Int /\ g[i] = P * (i - 1)
      BY <1>1, <1>3, <1>4
    <3>2. g[i] \in Int
      BY <2>1, PoolFacts
    <3> QED
      BY <3>1, <3>2
  <2>4. a % P = 0
    BY <2>3, AlignedIff
  <2> QED
    BY <2>1, <2>2, <2>3, <2>4, <1>1, <1>3, BlkFacts DEF PoolBlocks
<1>9. ASSUME NEW x \in PoolBlocks(g) PROVE \E i \in DOMAIN g : x = Blk(g[i], MaxLevel)
  BY BlockIs DEF PoolBlocks, ToSet
<1>10. \A t \in Threads : FreeBlocks(freelist[t]) = {} /\ ListsOK(freelist[t])
  <2>1. \A t \in Threads : \A k \in Levels : freelist[t][k] = <<>>
    BY DEF BInit, NoLists
  <2> QED
    BY <2>1, NothingListed
<1>11. ASSUME NEW h \in Held PROVE \E i \in DOMAIN g : h = Pair(Blk(g[i], MaxLevel), Pool)
  <2>1. PICK x : h = Pair(x, Pool) /\ x \in PoolBlocks(g)
    <3>1. used = {} /\ stranded = {} /\ g = global_freelist
      BY <1>2 DEF BInit
    <3> QED
      BY <3>1, <1>10, HeldPair DEF Held
  <2> QED
    BY <2>1, <1>9
<1>12. \A i \in DOMAIN g : Pair(Blk(g[i], MaxLevel), Pool) \in Held
  <2>1. g = global_freelist
    BY <1>2 DEF BInit
  <2> QED
    BY <2>1, <1>8, InHeld DEF Held
<1>13. \A h \in Held : Whole(BlockOf(h))
  BY <1>8, <1>11, PairOf
<1>14. Apart(Held)
  <2> SUFFICES ASSUME NEW h \in Held, NEW k \in Held, NEW u \in Units, In(u, BlockOf(h)), In(u, BlockOf(k))
               PROVE  h = k
    BY DEF Apart
  <2>1. PICK i \in DOMAIN g : h = Pair(Blk(g[i], MaxLevel), Pool) /\ BlockOf(h) = Blk(g[i], MaxLevel)
    BY <1>11, PairOf
  <2>2. PICK j \in DOMAIN g : k = Pair(Blk(g[j], MaxLevel), Pool) /\ BlockOf(k) = Blk(g[j], MaxLevel)
    BY <1>11, PairOf
  <2>3. g[i] <= u /\ u < g[i] + P /\ g[j] <= u /\ u < g[j] + P
    BY <2>1, <2>2, <1>1, BlkFacts
  <2>4. g[i] \in Int /\ g[j] \in Int /\ u \in Int /\ i \in Int /\ j \in Int
    BY <1>3, <1>4, <1>6, PoolFacts
  <2>5. \A m, n \in DOMAIN g : m < n => g[m] + P <= g[n]
    <3> SUFFICES ASSUME NEW m \in DOMAIN g, NEW n \in DOMAIN g, m < n PROVE g[m] + P <= g[n]
      OBVIOUS
    <3>1. PICK a \in Int : a = g[m] /\ a % P = 0
      BY <1>1, <1>6, <1>8, PoolFacts, BlkFacts
    <3>2. PICK c \in Int : c = g[n] /\ c % P = 0
      BY <1>1, <1>6, <1>8, PoolFacts, BlkFacts
    <3>3. a < c
      BY <3>1, <3>2, <1>7 DEF Ascending
    <3>4. a + P <= c
      BY <3>1, <3>2, <3>3, <1>1, AlignedApart
    <3> QED
      BY <3>1, <3>2, <3>4
  <2>6. i = j
    BY <2>3, <2>4, <2>5, <1>1
  <2> QED
    BY <2>1, <2>2, <2>6
<1>15. ASSUME NEW u \in Units PROVE Covered(u, Held)
  <2>1. u \in Nat /\ u < PoolEnd
    BY <1>3
  <2>2. PICK q \in Int, r \in 0 .. (P - 1) : u = P * q + r
    <3>1. u \div P \in Int /\ u % P \in 0 .. (P - 1) /\ u = P * (u \div P) + (u % P)
      BY <2>1, Division
    <3> QED
      BY <3>1
  <2>3. q >= 0
    <3>1. CASE q <= -1
      <4>1. P * q <= -P
        BY <3>1, <1>1
      <4>2. P * q \in Int
        BY <1>1
      <4> QED
        BY <4>1, <4>2, <2>1, <2>2, <1>1
    <3> QED
      BY <3>1
  <2>4. q < Blocks
    <3>1. CASE Blocks <= q
      <4>1. Blocks * P <= q * P
        BY <3>1, <2>3, <1>1, <1>3, ProductOrder
      <4>2. q * P = P * q /\ P * q \in Int
        BY <1>1
      <4> QED
        BY <4>1, <4>2, <2>1, <2>2, <1>3
    <3> QED
      BY <3>1, <1>3
  <2>5. q + 1 \in DOMAIN g /\ g[q + 1] = P * q
    <3>1. q + 1 \in DOMAIN g /\ (q + 1) - 1 = q
      BY <2>3, <2>4, <1>3, <1>4
    <3>2. g[q + 1] = q * P
      BY <3>1, <1>4
    <3> QED
      BY <3>1, <3>2, <1>1
  <2>6. In(u, Blk(g[q + 1], MaxLevel))
    <3>1. P * q \in Int
      BY <1>1
    <3>2. g[q + 1] <= u /\ u < g[q + 1] + P
      BY <3>1, <2>2, <2>5, <1>1
    <3> QED
      BY <3>2, <1>1, BlkFacts
  <2> QED
    BY <2>5, <2>6, <1>12, PairOf DEF Covered
<1>16. BVarsOK
  <2>1. MaxLists \in Nat
    BY PoolAssumption
  <2>2. freelist \in [Threads -> [Levels -> Seq(Units)]] /\ global_freelist \in Seq(Units)
    BY <1>2, <1>6, EmptyList DEF BInit, NoLists
  <2>3. /\ freelist_current_index \in 0 .. MaxLists
        /\ freelist_index \in [Threads -> -1 .. (MaxLists - 1)]
        /\ pc \in [Threads -> {"idle", "spin", "locked"}] /\ want \in [Threads -> Levels]
    BY <2>1, <1>3 DEF BInit
  <2>4. lock \in BOOLEAN /\ up \in BOOLEAN /\ used \subseteq Block /\ stranded \subseteq Block
    BY DEF BInit
  <2> QED
    BY <2>2, <2>3, <2>4 DEF BVarsOK
<1>17. Ascending(global_freelist) /\ \A t \in Threads : pc[t] = "idle"
  BY <1>2, <1>7 DEF BInit
<1>18. Tiled(Held)
  BY <1>14, <1>15 DEF Tiled
<1> QED
  BY <1>10, <1>13, <1>16, <1>17, <1>18 DEF BInv

-----------------------------------------------------------------------------
(* The theorems.                                                           *)
\* One step of any thread preserves the invariant.
LEMMA AllocatorStep ==
  ASSUME BInv, [BNext]_bvars
  PROVE  BInv'
<1>1. CASE UNCHANGED bvars
  <2>1. BVarsOK'
    BY <1>1 DEF BInv, BVarsOK, bvars, lists, indices
  <2> QED
    BY <1>1, <2>1, QuietStep DEF BInv, bvars, lists, indices
<1>2. ASSUME NEW t \in Threads, NEW l \in Levels, buddy_malloc(t, l) PROVE BInv'
  BY <1>2, MallocStep
<1>3. ASSUME NEW t \in Threads, NEW l \in Levels, malloc_spin(t, l) PROVE BInv'
  BY <1>3, SpinStep
<1>4. ASSUME NEW t \in Threads, NEW b \in used, buddy_free(t, b) PROVE BInv'
  BY <1>4, FreeStep
<1>5. ASSUME NEW t \in Threads, InAllocator(t) PROVE BInv'
  BY <1>5, LockStep, RefillStep, AbortStep DEF InAllocator, malloc_exhausted
<1>6. ASSUME NEW t \in Threads, thread_exit(t) PROVE BInv'
  BY <1>6, ExitStep
<1>7. ASSUME NEW t \in Threads, NEW l \in 0 .. (MaxLevel + 1), call_abort(t, l) PROVE BInv'
  BY <1>7, AbortStep DEF call_abort
<1> QED
  BY <1>1, <1>2, <1>3, <1>4, <1>5, <1>6, <1>7, Zenon DEF BNext

\* The blocks everyone has tile the pool, each with one holder and aligned to
\* its size, and the lists are in order and merged: the inductive invariant of
\* the allocator, for any number of threads, lists, levels and blocks.
THEOREM AllocatorInvariant == BSpec => []BInv
<1>1. BInit => BInv
  BY InitStep
<1>2. BInv /\ [BNext]_bvars => BInv'
  BY AllocatorStep
<1> QED
  BY <1>1, <1>2, PTL DEF BSpec

\* Every variable of the allocator keeps its type, and no thread gets a list
\* behind the last one.
THEOREM AllocatorTypeCorrect == BSpec => []BTypeOK
<1>1. BInv => BTypeOK
  <2> SUFFICES ASSUME BVarsOK PROVE BTypeOK
    BY DEF BInv
  <2>1. ToSet(global_freelist) \subseteq Units
    BY DEF BVarsOK, ToSet
  <2>2. \A t \in Threads, l \in Levels : ToSet(freelist[t][l]) \subseteq Units
    BY DEF BVarsOK, ToSet
  <2>3. used \cup stranded \subseteq [addr : Units, level : Levels]
    BY DEF BVarsOK, Block
  <2> QED
    BY <2>1, <2>2, <2>3 DEF BVarsOK, BTypeOK
<1> QED
  BY <1>1, AllocatorInvariant, PTL

\* A holding is a block with the place that has it.
Placed(x, at) == [addr |-> x.addr, level |-> x.level, at |-> at]
Place(x, p, at) ==
    \/ p = User /\ at = <<"used">>
    \/ p = Nobody /\ at = <<"stranded">>
    \/ p = Pool /\ \E i \in DOMAIN global_freelist : global_freelist[i] = x.addr /\ at = <<"global", i>>
    \/ \E t \in Threads : /\ p = Thread(t)
                          /\ \E i \in DOMAIN freelist[t][x.level] :
                                freelist[t][x.level][i] = x.addr /\ at = <<t, i>>

LEMMA OnePlace ==
  ASSUME BInv, NEW x \in Block, NEW p, NEW at1, NEW at2, Place(x, p, at1), Place(x, p, at2)
  PROVE  at1 = at2
<1>1. x.level \in Levels
  BY BlockIs
<1>2. \A i, j \in DOMAIN global_freelist : global_freelist[i] = global_freelist[j] => i = j
  BY AscendingDistinct DEF BInv, BVarsOK, Distinct
<1>3. ASSUME NEW t \in Threads
      PROVE  \A i, j \in DOMAIN freelist[t][x.level] : freelist[t][x.level][i] = freelist[t][x.level][j] => i = j
  <2>1. freelist[t][x.level] \in Seq(Units) /\ Ascending(freelist[t][x.level])
    BY <1>1, OnList
  <2> QED
    BY <2>1, AscendingDistinct DEF Distinct
<1>4. CASE p = User
  BY <1>4, Holders DEF Place
<1>5. CASE p = Nobody
  BY <1>5, Holders DEF Place
<1>6. CASE p = Pool
  <2>1. PICK i \in DOMAIN global_freelist : global_freelist[i] = x.addr /\ at1 = <<"global", i>>
    BY <1>6, Holders DEF Place
  <2>2. PICK j \in DOMAIN global_freelist : global_freelist[j] = x.addr /\ at2 = <<"global", j>>
    BY <1>6, Holders DEF Place
  <2> QED
    BY <2>1, <2>2, <1>2
<1>7. ASSUME NEW t \in Threads, p = Thread(t) PROVE at1 = at2
  <2>1. PICK i \in DOMAIN freelist[t][x.level] : freelist[t][x.level][i] = x.addr /\ at1 = <<t, i>>
    BY <1>7, Holders DEF Place
  <2>2. PICK j \in DOMAIN freelist[t][x.level] : freelist[t][x.level][j] = x.addr /\ at2 = <<t, j>>
    BY <1>7, Holders DEF Place
  <2>3. i = j
    BY <2>1, <2>2, <1>3
  <2> QED
    BY <2>1, <2>2, <2>3
<1> QED
  BY <1>4, <1>5, <1>6, <1>7 DEF Place

LEMMA HoldingIs ==
  ASSUME BInv, NEW h \in Holdings
  PROVE  \E x, p, at : x \in Block /\ h = Placed(x, at) /\ Pair(x, p) \in Held /\ Place(x, p, at)
<1>1. used \subseteq Block /\ stranded \subseteq Block
  BY DEF BInv, BVarsOK
<1>2. CASE h \in {[addr |-> b.addr, level |-> b.level, at |-> <<"used">>] : b \in used}
  <2>1. PICK b \in used : h = Placed(b, <<"used">>)
    BY <1>2 DEF Placed
  <2>2. Pair(b, User) \in Held /\ Place(b, User, <<"used">>) /\ b \in Block
    BY <1>1, InHeld DEF Held, Place
  <2> QED
    BY <2>1, <2>2
<1>3. CASE h \in {[addr |-> b.addr, level |-> b.level, at |-> <<"stranded">>] : b \in stranded}
  <2>1. PICK b \in stranded : h = Placed(b, <<"stranded">>)
    BY <1>3 DEF Placed
  <2>2. Pair(b, Nobody) \in Held /\ Place(b, Nobody, <<"stranded">>) /\ b \in Block
    BY <1>1, InHeld DEF Held, Place
  <2> QED
    BY <2>1, <2>2
<1>4. CASE h \in {[addr |-> global_freelist[i], level |-> MaxLevel, at |-> <<"global", i>>] :
                     i \in DOMAIN global_freelist}
  <2>1. PICK i \in DOMAIN global_freelist :
          h = [addr |-> global_freelist[i], level |-> MaxLevel, at |-> <<"global", i>>]
    BY <1>4
  <2>2. PICK x : x = Blk(global_freelist[i], MaxLevel)
    OBVIOUS
  <2>3. x.addr = global_freelist[i] /\ x.level = MaxLevel
    BY <2>2, BlkFacts
  <2>4. global_freelist[i] \in ToSet(global_freelist)
    BY DEF ToSet
  <2>5. x \in Block /\ Pair(x, Pool) \in Held
    BY <2>2, <2>4, InPool DEF PoolBlocks
  <2>6. Place(x, Pool, <<"global", i>>) /\ h = Placed(x, <<"global", i>>)
    BY <2>1, <2>3 DEF Place, Placed
  <2> QED
    BY <2>5, <2>6
<1>5. ASSUME NEW t \in Threads, NEW l \in Levels,
             h \in {[addr |-> freelist[t][l][i], level |-> l, at |-> <<t, i>>] : i \in DOMAIN freelist[t][l]}
      PROVE  \E x, p, at : x \in Block /\ h = Placed(x, at) /\ Pair(x, p) \in Held /\ Place(x, p, at)
  <2>1. PICK i \in DOMAIN freelist[t][l] : h = [addr |-> freelist[t][l][i], level |-> l, at |-> <<t, i>>]
    BY <1>5
  <2>2. PICK x : x = Blk(freelist[t][l][i], l)
    OBVIOUS
  <2>3. x.addr = freelist[t][l][i] /\ x.level = l
    BY <2>2, BlkFacts
  <2>4. freelist[t][l][i] \in ToSet(freelist[t][l])
    BY DEF ToSet
  <2>5. x \in Block /\ Pair(x, Thread(t)) \in Held
    BY <2>2, <2>4, OnList DEF FreeBlocks
  <2>6. Place(x, Thread(t), <<t, i>>) /\ h = Placed(x, <<t, i>>)
    BY <2>1, <2>3 DEF Place, Placed
  <2> QED
    BY <2>5, <2>6
<1> DEFINE HU == {[addr |-> b.addr, level |-> b.level, at |-> <<"used">>] : b \in used}
           HS == {[addr |-> b.addr, level |-> b.level, at |-> <<"stranded">>] : b \in stranded}
           HG == {[addr |-> global_freelist[i], level |-> MaxLevel, at |-> <<"global", i>>] :
                     i \in DOMAIN global_freelist}
           HT(t, l) == {[addr |-> freelist[t][l][i], level |-> l, at |-> <<t, i>>] :
                           i \in DOMAIN freelist[t][l]}
<1>6. h \in HU \cup HS \cup HG \cup UNION {HT(t, l) : t \in Threads, l \in Levels}
  BY DEF Holdings
<1>7. h \in HU \/ h \in HS \/ h \in HG \/ \E t \in Threads, l \in Levels : h \in HT(t, l)
  <2> HIDE DEF HU, HS, HG, HT
  <2> QED
    BY <1>6
<1> QED
  BY <1>2, <1>3, <1>4, <1>5, <1>7, Zenon

LEMMA HoldingOf ==
  ASSUME BInv, NEW x, NEW p, Pair(x, p) \in Held
  PROVE  x \in Block /\ \E at : Placed(x, at) \in Holdings
<1> DEFINE HU == {[addr |-> b.addr, level |-> b.level, at |-> <<"used">>] : b \in used}
           HS == {[addr |-> b.addr, level |-> b.level, at |-> <<"stranded">>] : b \in stranded}
           HG == {[addr |-> global_freelist[i], level |-> MaxLevel, at |-> <<"global", i>>] :
                     i \in DOMAIN global_freelist}
           HT(t, l) == {[addr |-> freelist[t][l][i], level |-> l, at |-> <<t, i>>] :
                           i \in DOMAIN freelist[t][l]}
<1>1. Holdings = HU \cup HS \cup HG \cup UNION {HT(t, l) : t \in Threads, l \in Levels}
  BY DEF Holdings
<1>2. PICK y, q : /\ Pair(x, p) = Pair(y, q)
                  /\ \/ y \in used \/ y \in stranded \/ y \in PoolBlocks(global_freelist)
                     \/ \E t \in Threads : y \in FreeBlocks(freelist[t])
  BY HeldPair DEF Held
<1>3. x = y
  BY <1>2, PairOf
<1>4. CASE x \in used
  <2>1. Placed(x, <<"used">>) \in HU
    BY <1>4 DEF Placed
  <2>2. x \in Block
    BY <1>4 DEF BInv, BVarsOK
  <2> HIDE DEF HU, HS, HG, HT
  <2> QED
    BY <2>1, <2>2, <1>1
<1>5. CASE x \in stranded
  <2>1. Placed(x, <<"stranded">>) \in HS
    BY <1>5 DEF Placed
  <2>2. x \in Block
    BY <1>5 DEF BInv, BVarsOK
  <2> HIDE DEF HU, HS, HG, HT
  <2> QED
    BY <2>1, <2>2, <1>1
<1>6. CASE x \in PoolBlocks(global_freelist)
  <2>1. x \in Block /\ x.level = MaxLevel /\ x.addr \in ToSet(global_freelist)
    BY <1>6 DEF PoolBlocks
  <2>2. PICK i \in DOMAIN global_freelist : x.addr = global_freelist[i]
    BY <2>1 DEF ToSet
  <2>3. Placed(x, <<"global", i>>) \in HG
    BY <2>1, <2>2 DEF Placed
  <2> HIDE DEF HU, HS, HG, HT
  <2> QED
    BY <2>1, <2>3, <1>1
<1>7. ASSUME NEW t \in Threads, x \in FreeBlocks(freelist[t])
      PROVE  x \in Block /\ \E at : Placed(x, at) \in Holdings
  <2>1. x \in Block /\ x.level \in Levels /\ x.addr \in ToSet(freelist[t][x.level])
    BY <1>7, BlockIs DEF FreeBlocks
  <2>2. PICK l \in Levels : l = x.level
    BY <2>1
  <2>3. PICK i \in DOMAIN freelist[t][l] : x.addr = freelist[t][l][i]
    BY <2>1, <2>2 DEF ToSet
  <2>4. Placed(x, <<t, i>>) \in HT(t, l)
    BY <2>2, <2>3 DEF Placed
  <2> HIDE DEF HU, HS, HG, HT
  <2> QED
    BY <2>1, <2>4, <1>1
<1> QED
  BY <1>2, <1>3, <1>4, <1>5, <1>6, <1>7

LEMMA PlacedIs ==
  ASSUME NEW x, NEW at
  PROVE  Placed(x, at).addr = x.addr /\ Placed(x, at).level = x.level
  BY DEF Placed

\* No unit of DMA memory is ever in two blocks, whoever holds them, and none is
\* lost, whatever threads allocate, free and end in which order: two I/Os never
\* share a buffer.
THEOREM PoolPartitioned == BSpec => []Partitioned
<1>1. BInv => Partitioned
  <2> SUFFICES ASSUME BInv, up, NEW u \in Units
               PROVE  Cardinality({h \in Holdings : h.addr <= u /\ u < h.addr + 2^h.level}) = 1
    BY DEF Partitioned
  <2> DEFINE C == {h \in Holdings : h.addr <= u /\ u < h.addr + 2^h.level}
  <2>1. Tiled(Held)
    BY DEF BInv
  <2>2. \A x, at : Placed(x, at) \in Holdings => (Placed(x, at) \in C <=> In(u, x))
    BY PlacedIs DEF In
  <2>3. PICK c : c \in C
    <3>1. PICK g \in Held : In(u, BlockOf(g))
      BY <2>1 DEF Tiled, Covered
    <3>2. PICK x, p : g = Pair(x, p) /\ BlockOf(g) = x
      <4>1. \E x, p : g = Pair(x, p)
        BY <3>1, HeldPair DEF Held
      <4> QED
        BY <4>1, PairOf
    <3>3. PICK at : Placed(x, at) \in Holdings
      BY <3>1, <3>2, HoldingOf
    <3> QED
      BY <3>1, <3>2, <3>3, <2>2
  <2>4. ASSUME NEW d \in C, NEW e \in C PROVE d = e
    <3>1. PICK x, p, at : x \in Block /\ d = Placed(x, at) /\ Pair(x, p) \in Held /\ Place(x, p, at)
      BY HoldingIs
    <3>2. PICK y, q, bt : y \in Block /\ e = Placed(y, bt) /\ Pair(y, q) \in Held /\ Place(y, q, bt)
      BY HoldingIs
    <3>3. In(u, x) /\ In(u, y)
      BY <3>1, <3>2, <2>2
    <3>4. Pair(x, p) = Pair(y, q)
      BY <3>1, <3>2, <3>3, <2>1, PairOf DEF Tiled, Apart
    <3>5. x = y /\ p = q
      BY <3>4, PairOf
    <3>6. at = bt
      BY <3>1, <3>2, <3>5, OnePlace
    <3> QED
      BY <3>1, <3>2, <3>5, <3>6
  <2>5. C = {c}
    BY <2>3, <2>4
  <2> QED
    BY <2>5, FS_Singleton
<1> QED
  BY <1>1, AllocatorInvariant, PTL

\* Every block stays aligned to its size and every list in address order, and
\* two halves that one thread has freed have been merged: what buddy_free's
\* walk down a list takes for granted.
THEOREM StaysBuddySystem == BSpec => []BuddySystem
<1>1. BInv => BuddySystem
  <2> SUFFICES ASSUME BInv PROVE BuddySystem
    OBVIOUS
  <2>1. ASSUME NEW h \in Holdings PROVE h.addr % 2^h.level = 0
    <3>1. PICK x, p, at : x \in Block /\ h = Placed(x, at) /\ Pair(x, p) \in Held
      BY HoldingIs
    <3>2. Whole(x)
      BY <3>1, PairOf DEF BInv
    <3> QED
      BY <3>1, <3>2, PlacedIs DEF Whole
  <2>2. ASSUME NEW t \in Threads, NEW l \in Levels,
               NEW i \in DOMAIN freelist[t][l], NEW j \in DOMAIN freelist[t][l], i < j
        PROVE  freelist[t][l][i] < freelist[t][l][j] /\ ~MergesWith(freelist[t][l][i], freelist[t][l][j], l)
    <3>1. Ascending(freelist[t][l]) /\ Unmerged(ToSet(freelist[t][l]), l)
      BY DEF BInv, ListsOK
    <3>2. freelist[t][l][i] \in ToSet(freelist[t][l]) /\ freelist[t][l][j] \in ToSet(freelist[t][l])
      BY DEF ToSet
    <3> QED
      BY <3>1, <3>2, <2>2 DEF Ascending, Unmerged
  <2> QED
    BY <2>1, <2>2 DEF BuddySystem
<1> QED
  BY <1>1, AllocatorInvariant, PTL
=============================================================================
