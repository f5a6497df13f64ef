------------------------------ MODULE ListLemmas ------------------------------
(***************************************************************************)
(* Facts about the lists that the components are built on: descriptors,    *)
(* sessions, free blocks.  A list is a sequence without repetition; it is  *)
(* appended to, loses its head or an entry in the middle, and is read      *)
(* around from one of its entries.  At the end, division with remainder.   *)
(***************************************************************************)
EXTENDS Integers, SequencesExt, FiniteSetTheorems, SequenceTheorems,
        FunctionTheorems, NaturalsInduction, TLAPS

\* No entry twice.
Distinct(s) == \A i, j \in DOMAIN s : s[i] = s[j] => i = j

\* r is the circular list s read from its i-th entry on.
Rotated(s, i, r) ==
  /\ Len(r) = Len(s)
  /\ \A k \in i .. Len(s) : r[k - i + 1] = s[k]
  /\ \A k \in 1 .. (i - 1) : r[Len(s) - i + 1 + k] = s[k]

-----------------------------------------------------------------------------
\* A set of natural numbers has a least one.
LEMMA Least ==
  ASSUME NEW T \in SUBSET Nat, T # {}
  PROVE  \E m \in T : \A k \in T : m <= k
<1>1. IsWellFoundedOn(OpToRel(<, Nat), Nat)
  BY NatLessThanWellFounded
<1>2. PICK m \in T : \A k \in T : ~(<<k, m>> \in OpToRel(<, Nat))
  BY <1>1, WFMin
<1>3. ASSUME NEW k \in T, k < m PROVE FALSE
  <2>1. <<k, m>> \in Nat \X Nat /\ <<k, m>>[1] < <<k, m>>[2]
    BY <1>3
  <2>2. <<k, m>> \in OpToRel(<, Nat)
    BY <2>1, Zenon DEF OpToRel
  <2>. QED  BY <2>2, <1>2
<1>. QED  BY <1>3

\* Min is the least, Max the greatest of a bounded set.
LEMMA MinIsLeast ==
  ASSUME NEW T \in SUBSET Nat, T # {}
  PROVE  Min(T) \in T /\ \A k \in T : Min(T) <= k
  BY Least DEF Min

LEMMA MaxIsGreatest ==
  ASSUME NEW n \in Nat, NEW T \in SUBSET (0 .. n), T # {}
  PROVE  Max(T) \in T /\ \A k \in T : k <= Max(T)
<1>. DEFINE U == {n - k : k \in T}
<1>0. \A k \in T : n - k \in Nat
  OBVIOUS
<1>1. U \in SUBSET Nat /\ U # {}
  BY <1>0
<1>2. PICK m \in U : \A k \in U : m <= k
  BY <1>1, Least
<1>3. PICK x \in T : m = n - x
  BY <1>2
<1>4. \A k \in T : k <= x
  <2>. TAKE k \in T
  <2>1. n - k \in U /\ n - x <= n - k
    BY <1>2, <1>3
  <2>. QED  BY <2>1
<1>. QED  BY <1>4 DEF Max

\* The first entry of a list that is in T.
LEMMA FirstIndex ==
  ASSUME NEW S, NEW s \in Seq(S), NEW T, NEW k \in DOMAIN s, s[k] \in T
  PROVE  \E m \in DOMAIN s : s[m] \in T /\ \A j \in 1 .. (m - 1) : s[j] \notin T
<1>. DEFINE I == {i \in DOMAIN s : s[i] \in T}
<1>1. I \in SUBSET Nat /\ I # {}
  OBVIOUS
<1>2. PICK m \in I : \A i \in I : m <= i
  BY <1>1, Least
<1>3. ASSUME NEW j \in 1 .. (m - 1) PROVE s[j] \notin T
  BY <1>2
<1>. QED  BY <1>2, <1>3

-----------------------------------------------------------------------------
\* Reading a part of a list ...
LEMMA SubSeqAt ==
  ASSUME NEW S, NEW s \in Seq(S), NEW m \in 1 .. (Len(s) + 1), NEW n \in (m - 1) .. Len(s)
  PROVE  /\ SubSeq(s, m, n) \in Seq(S) /\ Len(SubSeq(s, m, n)) = n - m + 1
         /\ \A k \in 1 .. (n - m + 1) : SubSeq(s, m, n)[k] = s[m + k - 1]
<1>1. Len(s) \in Nat /\ m \in Int /\ n \in Int /\ \A k \in m .. n : s[k] \in S
  OBVIOUS
<1>2. (IF m <= n THEN n - m + 1 ELSE 0) = n - m + 1
  BY <1>1
<1>. QED  BY <1>1, <1>2, SubSeqProperties

\* ... a list without one entry ...
LEMMA RemoveAtSeq ==
  ASSUME NEW S, NEW s \in Seq(S), NEW i \in DOMAIN s
  PROVE  /\ RemoveAt(s, i) \in Seq(S)
         /\ Len(RemoveAt(s, i)) = Len(s) - 1
         /\ \A j \in 1 .. (i - 1) : RemoveAt(s, i)[j] = s[j]
         /\ \A j \in i .. (Len(s) - 1) : RemoveAt(s, i)[j] = s[j + 1]
<1>0. Len(s) \in Nat /\ i \in 1 .. Len(s)
  OBVIOUS
<1>1. PICK a : a = SubSeq(s, 1, i - 1)
  OBVIOUS
<1>2. PICK b : b = SubSeq(s, i + 1, Len(s))
  OBVIOUS
<1>3. PICK r : r = a \o b
  OBVIOUS
<1>4. RemoveAt(s, i) = r
  BY <1>1, <1>2, <1>3 DEF RemoveAt
<1>5. /\ a \in Seq(S) /\ Len(a) = i - 1 /\ \A k \in 1 .. (i - 1) : a[k] = s[k]
  <2>1. 1 \in 1 .. (Len(s) + 1) /\ i - 1 \in (1 - 1) .. Len(s)
    BY <1>0
  <2>2. /\ a \in Seq(S) /\ Len(a) = (i - 1) - 1 + 1 
        /\ \A k \in 1 .. ((i - 1) - 1 + 1) : a[k] = s[1 + k - 1]
    BY <2>1, <1>1, SubSeqAt, Zenon
  <2>. QED  BY <2>2, <1>0
<1>6. /\ b \in Seq(S) /\ Len(b) = Len(s) - i /\ \A k \in 1 .. (Len(s) - i) : b[k] = s[i + k]
  <2>1. i + 1 \in 1 .. (Len(s) + 1) /\ Len(s) \in ((i + 1) - 1) .. Len(s)
    BY <1>0
  <2>2. /\ b \in Seq(S) /\ Len(b) = Len(s) - (i + 1) + 1 
        /\ \A k \in 1 .. (Len(s) - (i + 1) + 1) : b[k] = s[(i + 1) + k - 1]
    BY <2>1, <1>2, SubSeqAt, Zenon
  <2>. QED  BY <2>2, <1>0
<1>7. /\ r \in Seq(S) /\ Len(r) = Len(a) + Len(b)
      /\ \A k \in 1 .. Len(a) : r[k] = a[k]
      /\ \A k \in 1 .. Len(b) : r[Len(a) + k] = b[k]
  <2>1. a \in Seq(S) /\ b \in Seq(S)
    BY <1>5, <1>6
  <2>2. a \o b \in Seq(S) /\ Len(a \o b) = Len(a) + Len(b)
    BY <2>1
  <2>3. \A k \in 1 .. Len(a) : (a \o b)[k] = a[k]
    BY <2>1
  <2>4. \A k \in 1 .. Len(b) : (a \o b)[Len(a) + k] = b[k]
    BY <2>1
  <2>. QED  BY <2>2, <2>3, <2>4, <1>3, Zenon
<1>8. Len(r) = Len(s) - 1 /\ \A k \in 1 .. (i - 1) : r[k] = s[k]
  <2>1. Len(a) = i - 1 /\ Len(b) = Len(s) - i /\ Len(r) = Len(a) + Len(b)
    BY <1>5, <1>6, <1>7, Zenon
  <2>2. \A k \in 1 .. (i - 1) : a[k] = s[k] /\ r[k] = a[k]
    BY <2>1, <1>5, <1>7, Zenon
  <2>3. Len(r) = Len(s) - 1
    BY <2>1, <1>0
  <2>. QED  BY <2>2, <2>3, Zenon
<1>9. ASSUME NEW j \in i .. (Len(s) - 1) PROVE r[j] = s[j + 1]
  <2>1. PICK k \in 1 .. (Len(s) - i) : Len(a) + k = j /\ i + k = j + 1
    <3>1. j - i + 1 \in 1 .. (Len(s) - i) /\ Len(a) + (j - i + 1) = j /\ i + (j - i + 1) = j + 1
      BY <1>0, <1>5
    <3>. QED  BY <3>1
  <2>. QED  BY <2>1, <1>6, <1>7
<1>. QED BY <1>4, <1>7, <1>8, <1>9

\* ... a list with one entry more ...
LEMMA InsertAtSeq ==
  ASSUME NEW S, NEW s \in Seq(S), NEW i \in 1 .. (Len(s) + 1), NEW e \in S
  PROVE  /\ InsertAt(s, i, e) \in Seq(S)
         /\ Len(InsertAt(s, i, e)) = Len(s) + 1
         /\ \A j \in 1 .. (i - 1) : InsertAt(s, i, e)[j] = s[j]
         /\ InsertAt(s, i, e)[i] = e
         /\ \A j \in (i + 1) .. (Len(s) + 1) : InsertAt(s, i, e)[j] = s[j - 1]
<1>0. Len(s) \in Nat /\ i \in 1 .. (Len(s) + 1)
  OBVIOUS
<1>1. PICK a : a = SubSeq(s, 1, i - 1)
  OBVIOUS
<1>2. PICK b : b = SubSeq(s, i, Len(s))
  OBVIOUS
<1>3. PICK m : m = <<e>>
  OBVIOUS
<1>4. PICK c : c = a \o m
  OBVIOUS
<1>5. PICK r : r = c \o b
  OBVIOUS
<1>6. InsertAt(s, i, e) = r
  BY <1>1, <1>2, <1>3, <1>4, <1>5 DEF InsertAt
<1>7. /\ a \in Seq(S) /\ Len(a) = i - 1 /\ \A k \in 1 .. (i - 1) : a[k] = s[k]
  <2>1. 1 \in 1 .. (Len(s) + 1) /\ i - 1 \in (1 - 1) .. Len(s)
    BY <1>0
  <2>2. /\ a \in Seq(S) /\ Len(a) = (i - 1) - 1 + 1
        /\ \A k \in 1 .. ((i - 1) - 1 + 1) : a[k] = s[1 + k - 1]
    BY <2>1, <1>1, SubSeqAt, Zenon
  <2>. QED  BY <2>2, <1>0
<1>8. /\ b \in Seq(S) /\ Len(b) = Len(s) - i + 1
      /\ \A k \in 1 .. (Len(s) - i + 1) : b[k] = s[i + k - 1]
  <2>1. i \in 1 .. (Len(s) + 1) /\ Len(s) \in (i - 1) .. Len(s)
    BY <1>0
  <2>. QED  BY <2>1, <1>2, SubSeqAt, Zenon
<1>9. m \in Seq(S) /\ Len(m) = 1 /\ m[1] = e
  BY <1>3
<1>10. c \in Seq(S) /\ Len(c) = i /\ \A k \in 1 .. (i - 1) : c[k] = s[k]
  <2>0. Len(a) \in Nat /\ Len(m) \in Nat
    BY <1>7, <1>9
  <2>1. c \in Seq(S) /\ Len(c) = Len(a) + Len(m)
        /\ \A k \in 1 .. (Len(a) + Len(m)) : c[k] = IF k <= Len(a) THEN a[k] ELSE m[k - Len(a)]
    BY <1>4, <1>7, <1>9, ConcatProperties, Zenon
  <2>2. \A k \in 1 .. (i - 1) : k \in 1 .. (Len(a) + Len(m)) /\ k <= Len(a)
    BY <2>0, <1>0, <1>7
  <2>3. \A k \in 1 .. (i - 1) : c[k] = s[k]
    BY <2>1, <2>2, <1>7
  <2>4. Len(c) = i
    BY <2>1, <1>0, <1>7, <1>9
  <2>. QED  BY <2>1, <2>3, <2>4
<1>11. c[i] = e
  <2>1. \A k \in (Len(a) + 1) .. (Len(a) + Len(m)) : c[k] = m[k - Len(a)]
    BY <1>4, <1>7, <1>9, ConcatProperties
  <2>2. i \in (Len(a) + 1) .. (Len(a) + Len(m)) /\ i - Len(a) = 1
    BY <1>0, <1>7, <1>9
  <2>. QED  BY <2>1, <2>2, <1>9
<1>12. /\ r \in Seq(S) /\ Len(r) = Len(c) + Len(b) /\ \A k \in 1 .. Len(c) : r[k] = c[k]
       /\ \A k \in (Len(c) + 1) .. (Len(c) + Len(b)) : r[k] = b[k - Len(c)]
  BY <1>5, <1>8, <1>10, ConcatProperties
<1>13. Len(r) = Len(s) + 1 /\ r[i] = e /\ \A k \in 1 .. (i - 1) : r[k] = s[k]
  BY <1>0, <1>8, <1>10, <1>11, <1>12
<1>14. ASSUME NEW j \in (i + 1) .. (Len(s) + 1) PROVE r[j] = s[j - 1]
  <2>1. j \in (Len(c) + 1) .. (Len(c) + Len(b)) /\ j - Len(c) \in 1 .. (Len(s) - i + 1)
        /\ i + (j - Len(c)) - 1 = j - 1
    BY <1>0, <1>8, <1>10
  <2>2. r[j] = b[j - Len(c)]
    BY <2>1, <1>12
  <2>3. b[j - Len(c)] = s[i + (j - Len(c)) - 1]
    BY <2>1, <1>8
  <2>. QED  BY <2>1, <2>2, <2>3
<1>. QED BY <1>6, <1>12, <1>13, <1>14

\* ... and a circular list from its i-th entry on.
LEMMA RotateSeq ==
  ASSUME NEW S, NEW s \in Seq(S), NEW i \in DOMAIN s
  PROVE  \E r \in Seq(S) :
            /\ r = SubSeq(s, i, Len(s)) \o SubSeq(s, 1, i - 1)
            /\ Rotated(s, i, r)
<1>0. Len(s) \in Nat /\ i \in 1 .. Len(s)
  OBVIOUS
<1>1. PICK b : b = SubSeq(s, 1, i - 1)
  OBVIOUS
<1>2. PICK a : a = SubSeq(s, i, Len(s))
  OBVIOUS
<1>3. PICK r : r = a \o b
  OBVIOUS
<1>4. r = SubSeq(s, i, Len(s)) \o SubSeq(s, 1, i - 1)
  BY <1>1, <1>2, <1>3
<1>5. /\ b \in Seq(S) /\ Len(b) = i - 1 /\ \A k \in 1 .. (i - 1) : b[k] = s[k]
  <2>1. 1 \in 1 .. (Len(s) + 1) /\ i - 1 \in (1 - 1) .. Len(s)
    BY <1>0
  <2>2. /\ b \in Seq(S) /\ Len(b) = (i - 1) - 1 + 1 
        /\ \A k \in 1 .. ((i - 1) - 1 + 1) : b[k] = s[1 + k - 1]
    BY <2>1, <1>1, SubSeqAt, Zenon
  <2>. QED  BY <2>2, <1>0
<1>6. /\ a \in Seq(S) /\ Len(a) = Len(s) - i + 1
      /\ \A k \in 1 .. (Len(s) - i + 1) : a[k] = s[i + k - 1]
  <2>1. i \in 1 .. (Len(s) + 1) /\ Len(s) \in (i - 1) .. Len(s)
    BY <1>0
  <2>. QED  BY <2>1, <1>2, SubSeqAt, Zenon
<1>7. /\ r \in Seq(S) /\ Len(r) = Len(a) + Len(b)
      /\ \A k \in 1 .. Len(a) : r[k] = a[k]
      /\ \A k \in 1 .. Len(b) : r[Len(a) + k] = b[k]
  <2>1. a \in Seq(S) /\ b \in Seq(S)
    BY <1>5, <1>6
  <2>2. a \o b \in Seq(S) /\ Len(a \o b) = Len(a) + Len(b)
    BY <2>1
  <2>3. \A k \in 1 .. Len(a) : (a \o b)[k] = a[k]
    BY <2>1
  <2>4. \A k \in 1 .. Len(b) : (a \o b)[Len(a) + k] = b[k]
    BY <2>1
  <2>. QED  BY <2>2, <2>3, <2>4, <1>3, Zenon
<1>8. Len(r) = Len(s) /\ \A k \in 1 .. (i - 1) : r[Len(s) - i + 1 + k] = s[k]
  <2>1. Len(r) = Len(s) /\ Len(a) = Len(s) - i + 1 /\ Len(b) = i - 1
    BY <1>0, <1>5, <1>6, <1>7
  <2>2. \A k \in 1 .. (i - 1) : r[Len(a) + k] = s[k]
    BY <2>1, <1>5, <1>7
  <2>. QED  BY <2>1, <2>2
<1>9. ASSUME NEW k \in i .. Len(s) PROVE r[k - i + 1] = s[k]
  <2>1. k - i + 1 \in 1 .. (Len(s) - i + 1) /\ i + (k - i + 1) - 1 = k
    BY <1>0
  <2>. QED  BY <2>1, <1>6, <1>7
<1>10. r \in Seq(S)
  BY <1>7
<1>11. \A k \in i .. Len(s) : r[k - i + 1] = s[k]
  BY <1>9
<1>12. Rotated(s, i, r)
  BY <1>8, <1>11, Zenon DEF Rotated
<1>. QED  BY <1>4, <1>10, <1>12, Zenon

-----------------------------------------------------------------------------
\* A list without repetition has as many entries as elements.
LEMMA DistinctCount ==
  ASSUME NEW S, NEW s \in Seq(S), Distinct(s)
  PROVE  IsFiniteSet(ToSet(s)) /\ Cardinality(ToSet(s)) = Len(s)
<1>1. Len(s) \in Nat /\ DOMAIN s = 1 .. Len(s)
  OBVIOUS
<1>2. IsFiniteSet(DOMAIN s) /\ Cardinality(DOMAIN s) = Len(s)
  BY <1>1, FS_Interval
<1>3. s \in Bijection(DOMAIN s, ToSet(s))
  <2>1. s \in [DOMAIN s -> ToSet(s)]
    BY DEF ToSet
  <2>2. s \in Injection(DOMAIN s, ToSet(s))
    BY <2>1, Fun_IsInj DEF Distinct
  <2>3. s \in Surjection(DOMAIN s, ToSet(s))
    BY <2>1 DEF Surjection, ToSet
  <2>. QED  BY <2>2, <2>3 DEF Bijection
<1>4. ExistsBijection(DOMAIN s, ToSet(s))
  BY <1>3 DEF ExistsBijection
<1>. QED  BY <1>2, <1>4, FS_Bijection

\* Append adds an element ...
LEMMA AppendList ==
  ASSUME NEW S, NEW s \in Seq(S), NEW e \in S
  PROVE  /\ Append(s, e) \in Seq(S) /\ Len(Append(s, e)) = Len(s) + 1
         /\ \A i \in DOMAIN s : Append(s, e)[i] = s[i]
         /\ Append(s, e)[Len(s) + 1] = e
         /\ ToSet(Append(s, e)) = ToSet(s) \cup {e}
         /\ Distinct(s) /\ e \notin ToSet(s) => Distinct(Append(s, e))
<1>1. /\ Append(s, e) \in Seq(S) /\ Len(Append(s, e)) = Len(s) + 1
      /\ \A i \in DOMAIN s : Append(s, e)[i] = s[i]
      /\ Append(s, e)[Len(s) + 1] = e
  BY AppendProperties
<1>2. PICK r : r = Append(s, e)
  OBVIOUS
<1>3. /\ DOMAIN s = 1 .. Len(s) /\ Len(s) \in Nat /\ DOMAIN r = 1 .. (Len(s) + 1)
      /\ \A i \in DOMAIN s : r[i] = s[i]
      /\ r[Len(s) + 1] = e
  BY <1>1, <1>2
<1>4. ToSet(r) = ToSet(s) \cup {e}
  BY <1>3 DEF ToSet
<1>5. Distinct(s) /\ e \notin ToSet(s) => Distinct(r)
  BY <1>3 DEF Distinct, ToSet
<1>. QED  BY <1>1, <1>2, <1>4, <1>5

\* ... Tail takes the head away ...
LEMMA TailList ==
  ASSUME NEW S, NEW s \in Seq(S), s # <<>>, Distinct(s)
  PROVE  /\ Head(s) \in S /\ Tail(s) \in Seq(S) /\ Len(Tail(s)) = Len(s) - 1
         /\ Head(s) \in ToSet(s)
         /\ ToSet(Tail(s)) = ToSet(s) \ {Head(s)} /\ Distinct(Tail(s))
<1>1. PICK r : r = Tail(s)
  OBVIOUS
<1>2. /\ r \in Seq(S) /\ Len(r) = Len(s) - 1 /\ Len(s) \in Nat \ {0}
      /\ DOMAIN s = 1 .. Len(s) /\ DOMAIN r = 1 .. (Len(s) - 1)
      /\ \A i \in DOMAIN r : r[i] = s[i + 1]
      /\ Head(s) = s[1]
  BY <1>1
<1>3. Distinct(r)
  BY <1>2 DEF Distinct
<1>4. ToSet(r) = ToSet(s) \ {s[1]}
  <2>1. ASSUME NEW i \in DOMAIN r PROVE r[i] \in ToSet(s) \ {s[1]}
    BY <1>2 DEF ToSet, Distinct
  <2>2. ASSUME NEW i \in DOMAIN s, i # 1 PROVE s[i] \in ToSet(r)
    <3>1. i - 1 \in DOMAIN r /\ r[i - 1] = s[i]
      BY <1>2, <2>2
    <3>. QED  BY <3>1 DEF ToSet
  <2>. QED  BY <2>1, <2>2 DEF ToSet
<1>5. Head(s) \in ToSet(s) /\ Head(s) \in S
  BY <1>2 DEF ToSet
<1>. QED  BY <1>1, <1>2, <1>3, <1>4, <1>5

\* ... and RemoveAt any entry.
LEMMA RemoveList ==
  ASSUME NEW S, NEW s \in Seq(S), NEW i \in DOMAIN s, Distinct(s)
  PROVE  ToSet(RemoveAt(s, i)) = ToSet(s) \ {s[i]} /\ Distinct(RemoveAt(s, i))
<1>1. PICK r : r = RemoveAt(s, i)
  OBVIOUS
<1>2. /\ r \in Seq(S) /\ Len(r) = Len(s) - 1
      /\ \A j \in 1 .. (i - 1) : r[j] = s[j]
      /\ \A j \in i .. (Len(s) - 1) : r[j] = s[j + 1]
  BY <1>1, RemoveAtSeq
<1>3. Len(s) \in Nat /\ DOMAIN s = 1 .. Len(s) /\ DOMAIN r = 1 .. (Len(s) - 1)
  BY <1>2
<1>4. Distinct(r)
  <2>1. ASSUME NEW j \in DOMAIN r, NEW k \in DOMAIN r, r[j] = r[k] PROVE j = k
    <3>1. PICK a \in DOMAIN s : r[j] = s[a] /\ a = IF j < i THEN j ELSE j + 1
      BY <1>2, <1>3
    <3>2. PICK b \in DOMAIN s : r[k] = s[b] /\ b = IF k < i THEN k ELSE k + 1
      BY <1>2, <1>3
    <3>3. a = b
      BY <2>1, <3>1, <3>2 DEF Distinct
    <3>. QED  BY <3>1, <3>2, <3>3, <1>3
  <2>. QED  BY <2>1 DEF Distinct
<1>5. ASSUME NEW j \in DOMAIN r PROVE r[j] \in ToSet(s) \ {s[i]}
  <2>1. PICK a \in DOMAIN s : r[j] = s[a] /\ a = IF j < i THEN j ELSE j + 1
    BY <1>2, <1>3
  <2>2. a # i
    BY <2>1, <1>3
  <2>. QED  BY <2>1, <2>2 DEF ToSet, Distinct
<1>6. ASSUME NEW j \in DOMAIN s, j # i PROVE s[j] \in ToSet(r)
  <2>1. CASE j < i
    <3>1. j \in 1 .. (i - 1) /\ j \in DOMAIN r
      BY <2>1, <1>3
    <3>. QED  BY <3>1, <1>2 DEF ToSet
  <2>2. CASE ~(j < i)
    <3>1. j - 1 \in i .. (Len(s) - 1) /\ j - 1 \in DOMAIN r /\ (j - 1) + 1 = j
      BY <2>2, <1>3, <1>6
    <3>. QED  BY <3>1, <1>2 DEF ToSet
  <2>. QED  BY <2>1, <2>2
<1>7. ToSet(r) = ToSet(s) \ {s[i]}
  BY <1>5, <1>6 DEF ToSet
<1>. QED  BY <1>1, <1>4, <1>7

-----------------------------------------------------------------------------
(* Division with remainder.                                                *)
LEMMA Division ==
  ASSUME NEW a \in Int, NEW p \in Nat \ {0}
  PROVE  /\ a \div p \in Int /\ a % p \in 0 .. (p - 1)
         /\ a = p * (a \div p) + (a % p)
  OBVIOUS

LEMMA DivisionUnique ==
  ASSUME NEW p \in Nat \ {0}, NEW q \in Int, NEW r \in 0 .. (p - 1)
  PROVE  (p * q + r) \div p = q /\ (p * q + r) % p = r
<1> DEFINE a == p * q + r
           d == a \div p
           m == a % p
<1>1. a \in Int /\ d \in Int /\ m \in 0 .. (p - 1) /\ a = p * d + m
  BY Division
<1>2. a = p * q + r
  OBVIOUS
<1> HIDE DEF a, d, m
<1>3. p * (q - d) = m - r
  BY <1>1, <1>2
<1>4. q - d = 0
  <2>1. CASE q - d >= 1
    <3>1. p * (q - d) >= p
      BY <1>1, <2>1
    <3> QED
      BY <3>1, <1>3, <1>1
  <2>2. CASE q - d <= -1
    <3>1. p * (q - d) <= -p
      BY <1>1, <2>2
    <3> QED
      BY <3>1, <1>3, <1>1
  <2> QED
    BY <2>1, <2>2, <1>1
<1> QED
  BY <1>4, <1>1, <1>2 DEF a, d, m

\* The same for a number given in two ways.
LEMMA DivisionOf ==
  ASSUME NEW a \in Int, NEW p \in Nat \ {0}, NEW q \in Int, NEW r \in 0 .. (p - 1),
         a = p * q + r
  PROVE  a \div p = q /\ a % p = r
  BY DivisionUnique

LEMMA ProductOrder ==
  ASSUME NEW a \in Nat, NEW b \in Nat, NEW c \in Nat, a <= b
  PROVE  a * c <= b * c
  OBVIOUS
=============================================================================
