---------------------------- MODULE PartsProofs -----------------------------
(***************************************************************************)
(* Machine-checked proofs about the collectors and the archive, for any    *)
(* services, devices, entries, keys and crashes, and any number of changes *)
(* of the system while they are read.                                      *)
(***************************************************************************)
EXTENDS Parts, FiniteSetTheorems, FunctionTheorems, SequenceTheorems, WellFoundedInduction, TLAPS

-----------------------------------------------------------------------------
(* Sorting and filtering, for the operators of Ordering.                   *)

(* before orders S: of two elements one is before the other.               *)
IsOrder(before, S) ==
  /\ \A x \in S : <<x, x>> \notin before
  /\ \A x, y \in S : x # y => <<x, y>> \in before \/ <<y, x>> \in before
  /\ \A x, y, z \in S : <<x, y>> \in before /\ <<y, z>> \in before => <<x, z>> \in before

(* Sequenced lists each element once, in the order.                        *)
LEMMA SequencedIs ==
  ASSUME NEW S, IsFiniteSet(S), NEW before, IsOrder(before, S)
  PROVE  /\ Cardinality(S) \in Nat
         /\ Sequenced(S, before) \in Seq(S)
         /\ Len(Sequenced(S, before)) = Cardinality(S)
         /\ DOMAIN Sequenced(S, before) = 1 .. Cardinality(S)
         /\ \A k \in 1 .. Cardinality(S) : Sequenced(S, before)[k] \in S
         /\ \A j, k \in 1 .. Cardinality(S) :
              j < k => <<Sequenced(S, before)[j], Sequenced(S, before)[k]>> \in before
         /\ \A x \in S : \E k \in 1 .. Cardinality(S) : Sequenced(S, before)[k] = x
<1> DEFINE n == Cardinality(S)
           o == Sequenced(S, before)
           Below(x) == {y \in S : <<y, x>> \in before}
           rank == [x \in S |-> Cardinality(Below(x)) + 1]
<1>1. n \in Nat
  BY FS_CardinalityType
<1>2. \A x \in S : Below(x) \in SUBSET S /\ x \notin Below(x)
  BY DEF IsOrder
<1>3. \A s \in SUBSET S : IsFiniteSet(s) /\ Cardinality(s) \in Nat /\ Cardinality(s) <= n
  BY FS_Subset, FS_CardinalityType
<1>4. \A x \in S : Cardinality(Below(x)) < n
  <2> SUFFICES ASSUME NEW x \in S PROVE Cardinality(Below(x)) < n
    OBVIOUS
  <2>1. Below(x) # S
    BY <1>2
  <2> HIDE DEF Below
  <2>2. Cardinality(Below(x)) # n
    BY <1>2, <2>1, FS_Subset
  <2>3. QED
    BY <1>1, <1>2, <1>3, <2>2
<1>5. \A x, y \in S : <<x, y>> \in before => Cardinality(Below(x)) < Cardinality(Below(y))
  <2> SUFFICES ASSUME NEW x \in S, NEW y \in S, <<x, y>> \in before
               PROVE  Cardinality(Below(x)) < Cardinality(Below(y))
    OBVIOUS
  <2>1. Below(x) \in SUBSET Below(y) /\ x \in Below(y) /\ x \notin Below(x)
    BY DEF IsOrder
  <2> HIDE DEF Below
  <2>2. IsFiniteSet(Below(y)) /\ Cardinality(Below(x)) \in Nat /\ Cardinality(Below(y)) \in Nat
    BY <1>2, <1>3
  <2>3. Cardinality(Below(x)) <= Cardinality(Below(y)) /\ Cardinality(Below(x)) # Cardinality(Below(y))
    BY <2>1, <2>2, FS_Subset
  <2>4. QED
    BY <2>2, <2>3
<1>6. \A x \in S : rank[x] = Cardinality(Below(x)) + 1 /\ rank[x] \in 1 .. n
  <2> HIDE DEF Below
  <2> QED BY <1>1, <1>2, <1>3, <1>4
<1>7. rank \in [S -> 1 .. n]
  <2> HIDE DEF Below, n
  <2> QED BY <1>6
<1>8. \A x, y \in S : <<x, y>> \in before => rank[x] < rank[y]
  <2> HIDE DEF Below, rank
  <2> QED BY <1>2, <1>3, <1>5, <1>6
<1>9. \A x, y \in S : x # y => rank[x] # rank[y]
  <2>1. \A x, y \in S : x # y => <<x, y>> \in before \/ <<y, x>> \in before
    BY DEF IsOrder
  <2>2. \A x \in S : rank[x] \in Nat
    <3> HIDE DEF rank, n
    <3> QED BY <1>1, <1>7
  <2> HIDE DEF rank
  <2>3. SUFFICES ASSUME NEW x \in S, NEW y \in S, x # y PROVE rank[x] # rank[y]
    OBVIOUS
  <2>4. rank[x] < rank[y] \/ rank[y] < rank[x]
    BY <1>8, <2>1, <2>3
  <2>5. QED
    BY <2>2, <2>4
<1> HIDE DEF rank
<1>10. rank \in Surjection(S, 1 .. n)
  <2>1. rank \in Injection(S, 1 .. n)
    BY <1>7, <1>9 DEF Injection, IsInjective
  <2>2. IsFiniteSet(1 .. n) /\ Cardinality(1 .. n) = n
    <3> HIDE DEF n
    <3>1. 1 \in Int /\ n \in Int
      BY <1>1
    <3>2. IsFiniteSet(1 .. n) /\ Cardinality(1 .. n) = IF 1 > n THEN 0 ELSE n - 1 + 1
      BY <3>1, FS_Interval
    <3>3. QED
      BY <1>1, <3>2
  <2>3. QED
    BY <2>1, <2>2, FS_Injection
<1>11. \A k \in 1 .. n : \E x \in S : rank[x] = k
  BY <1>10 DEF Surjection
<1>12. \A k \in 1 .. n : o[k] = CHOOSE x \in S : Cardinality(Below(x)) = k - 1
  BY DEF Sequenced
<1>13. DOMAIN o = 1 .. n /\ o \in [1 .. n -> {o[k] : k \in 1 .. n}]
  <2> DEFINE Kth(k) == CHOOSE x \in S : Cardinality(Below(x)) = k - 1
  <2>1. o = [k \in 1 .. n |-> Kth(k)]
    BY DEF Sequenced
  <2> HIDE DEF o, Kth, n
  <2>2. QED
    BY <2>1
<1> HIDE DEF o, n
<1>14. \A k \in 1 .. n : o[k] \in S /\ rank[o[k]] = k
  <2> SUFFICES ASSUME NEW k \in 1 .. n PROVE o[k] \in S /\ rank[o[k]] = k
    OBVIOUS
  <2>1. PICK x \in S : rank[x] = k
    BY <1>11
  <2> HIDE DEF Below
  <2>2. Cardinality(Below(x)) \in Nat /\ k \in Nat
    BY <1>1, <1>2, <1>3
  <2>3. Cardinality(Below(x)) = k - 1
    BY <1>6, <2>1, <2>2
  <2>4. o[k] \in S /\ Cardinality(Below(o[k])) = k - 1
    BY <1>12, <2>3
  <2>5. QED
    BY <1>6, <2>2, <2>4
<1>15. o \in Seq(S) /\ Len(o) = n
  <2>1. o \in [1 .. n -> S]
    BY <1>13, <1>14
  <2>2. QED
    BY <1>1, <2>1
<1>16. ASSUME NEW j \in 1 .. n, NEW k \in 1 .. n, j < k PROVE <<o[j], o[k]>> \in before
  <2>1. j \in Nat /\ k \in Nat /\ o[j] # o[k]
    BY <1>1, <1>14, <1>16
  <2>2. <<o[j], o[k]>> \in before \/ <<o[k], o[j]>> \in before
    BY <1>14, <2>1 DEF IsOrder
  <2>3. <<o[k], o[j]>> \notin before
    BY <1>8, <1>14, <1>16, <2>1
  <2>4. QED
    BY <2>2, <2>3
<1>17. ASSUME NEW x \in S PROVE \E k \in 1 .. n : o[k] = x
  <2>1. rank[x] \in 1 .. n
    BY <1>7
  <2>2. o[rank[x]] = x
    BY <1>9, <1>14, <2>1
  <2>3. QED
    BY <2>1, <2>2
<1>18. QED
  BY <1>1, <1>13, <1>14, <1>15, <1>16, <1>17 DEF o, n

LEMMA AscendingOrders == \A S : S \subseteq Int => IsOrder(Ascending(S), S)
BY DEF IsOrder, Ascending, Pairs

(* Arranged holds what s holds at the indices, in the order.               *)
LEMMA ArrangedIs ==
  ASSUME NEW s, NEW I, IsFiniteSet(I), NEW before, IsOrder(before, I), NEW A, \A i \in I : s[i] \in A
  PROVE  /\ Arranged(s, I, before) \in Seq(A)
         /\ Len(Arranged(s, I, before)) = Cardinality(I)
         /\ DOMAIN Arranged(s, I, before) = 1 .. Cardinality(I)
         /\ \A k \in 1 .. Cardinality(I) : Arranged(s, I, before)[k] = s[Sequenced(I, before)[k]]
         /\ ToSet(Arranged(s, I, before)) = {s[i] : i \in I}
<1> DEFINE n == Cardinality(I)
           o == Sequenced(I, before)
           a == Arranged(s, I, before)
<1>1. /\ n \in Nat /\ DOMAIN o = 1 .. n
      /\ \A k \in 1 .. n : o[k] \in I
      /\ \A i \in I : \E k \in 1 .. n : o[k] = i
  BY SequencedIs
<1>2. a = [k \in DOMAIN o |-> s[o[k]]]
  BY DEF Arranged
<1> HIDE DEF n, o, a
<1>3. DOMAIN a = 1 .. n /\ \A k \in 1 .. n : a[k] = s[o[k]]
  BY <1>1, <1>2
<1>4. a \in Seq(A) /\ Len(a) = n
  BY <1>1, <1>2, <1>3
<1>5. ToSet(a) = {s[i] : i \in I}
  BY <1>1, <1>3 DEF ToSet
<1>6. QED
  BY <1>3, <1>4, <1>5 DEF n, o, a

LEMMA IntervalSize == \A n \in Nat : IsFiniteSet(1 .. n) /\ Cardinality(1 .. n) = n
<1> SUFFICES ASSUME NEW n \in Nat PROVE IsFiniteSet(1 .. n) /\ Cardinality(1 .. n) = n
  OBVIOUS
<1>1. 1 \in Int /\ n \in Int
  OBVIOUS
<1>2. IsFiniteSet(1 .. n) /\ Cardinality(1 .. n) = IF 1 > n THEN 0 ELSE n - 1 + 1
  BY <1>1, FS_Interval
<1>3. QED
  BY <1>2

(* A stable order of indices by a rank.                                     *)
LEMMA StableOrder ==
  ASSUME NEW n \in Nat, NEW rank, \A i \in 1 .. n : rank[i] \in Int, NEW before,
         \A i, j \in 1 .. n : <<i, j>> \in before <=> rank[i] < rank[j] \/ (rank[i] = rank[j] /\ i < j)
  PROVE  IsOrder(before, 1 .. n)
<1>1. \A i \in 1 .. n : i \in Nat /\ <<i, i>> \notin before
  OBVIOUS
<1>2. ASSUME NEW i \in 1 .. n, NEW j \in 1 .. n, i # j PROVE <<i, j>> \in before \/ <<j, i>> \in before
  <2>1. rank[i] \in Int /\ rank[j] \in Int /\ i \in Nat /\ j \in Nat
    OBVIOUS
  <2>2. rank[i] < rank[j] \/ rank[j] < rank[i] \/ (rank[i] = rank[j] /\ (i < j \/ j < i))
    BY <1>2, <2>1
  <2>3. <<i, j>> \in before <=> rank[i] < rank[j] \/ (rank[i] = rank[j] /\ i < j)
    OBVIOUS
  <2>4. <<j, i>> \in before <=> rank[j] < rank[i] \/ (rank[j] = rank[i] /\ j < i)
    OBVIOUS
  <2>5. CASE rank[i] < rank[j]
    BY <2>3, <2>5, Zenon
  <2>6. CASE rank[j] < rank[i]
    BY <2>4, <2>6, Zenon
  <2>7. CASE rank[i] = rank[j] /\ i < j
    BY <2>3, <2>7
  <2>8. CASE rank[i] = rank[j] /\ j < i
    BY <2>4, <2>8
  <2>9. QED
    BY <2>2, <2>5, <2>6, <2>7, <2>8
<1>3. ASSUME NEW i \in 1 .. n, NEW j \in 1 .. n, NEW k \in 1 .. n,
             <<i, j>> \in before, <<j, k>> \in before
      PROVE  <<i, k>> \in before
  <2>1. rank[i] \in Int /\ rank[j] \in Int /\ rank[k] \in Int /\ i \in Nat /\ j \in Nat /\ k \in Nat
    OBVIOUS
  <2>2. rank[i] < rank[j] \/ (rank[i] = rank[j] /\ i < j)
    BY <1>3
  <2>3. rank[j] < rank[k] \/ (rank[j] = rank[k] /\ j < k)
    BY <1>3
  <2>4. rank[i] < rank[k] \/ (rank[i] = rank[k] /\ i < k)
    BY <2>1, <2>2, <2>3
  <2>5. QED
    BY <2>4
<1>4. QED
  BY <1>1, <1>2, <1>3 DEF IsOrder

(* a is s sorted: it holds at k what s holds at o[k].                      *)
SortsBy(a, s, o, before) ==
  /\ DOMAIN a = DOMAIN s /\ ToSet(a) = ToSet(s)
  /\ \A k \in DOMAIN s : o[k] \in DOMAIN s /\ a[k] = s[o[k]]
  /\ \A j, k \in DOMAIN s : j < k => <<o[j], o[k]>> \in before
  /\ \A j, k \in DOMAIN s : o[j] = o[k] => j = k
  /\ \A i \in DOMAIN s : \E k \in DOMAIN s : o[k] = i

(* Sorting permutes the indices.                                           *)
LEMMA SortedIs ==
  ASSUME NEW A, NEW s \in Seq(A), NEW before, IsOrder(before, DOMAIN s)
  PROVE  /\ Arranged(s, DOMAIN s, before) \in Seq(A)
         /\ SortsBy(Arranged(s, DOMAIN s, before), s, Sequenced(DOMAIN s, before), before)
<1> DEFINE n == Len(s)
           I == DOMAIN s
           o == Sequenced(I, before)
           a == Arranged(s, I, before)
<1>1. n \in Nat /\ I = 1 .. n /\ \A i \in I : s[i] \in A
  OBVIOUS
<1> HIDE DEF n, I
<1>2. IsFiniteSet(I) /\ Cardinality(I) = n
  BY <1>1, IntervalSize
<1>3. IsOrder(before, I)
  BY DEF I
<1>4. /\ \A k \in I : o[k] \in I
      /\ \A j, k \in I : j < k => <<o[j], o[k]>> \in before
      /\ \A i \in I : \E k \in I : o[k] = i
  <2>1. /\ \A k \in 1 .. Cardinality(I) : o[k] \in I
        /\ \A j, k \in 1 .. Cardinality(I) : j < k => <<o[j], o[k]>> \in before
        /\ \A i \in I : \E k \in 1 .. Cardinality(I) : o[k] = i
    BY <1>2, <1>3, SequencedIs
  <2>2. 1 .. Cardinality(I) = I
    BY <1>1, <1>2
  <2> HIDE DEF o
  <2>3. QED
    BY <2>1, <2>2
<1>5. /\ a \in Seq(A) /\ DOMAIN a = I /\ ToSet(a) = {s[i] : i \in I}
      /\ \A k \in I : a[k] = s[o[k]]
  <2>1. /\ a \in Seq(A) /\ DOMAIN a = 1 .. Cardinality(I) /\ ToSet(a) = {s[i] : i \in I}
        /\ \A k \in 1 .. Cardinality(I) : a[k] = s[o[k]]
    BY <1>1, <1>2, <1>3, ArrangedIs
  <2>2. 1 .. Cardinality(I) = I
    BY <1>1, <1>2
  <2> HIDE DEF a, o
  <2>3. QED
    BY <2>1, <2>2
<1> HIDE DEF o, a
<1>6. ASSUME NEW j \in I, NEW k \in I, o[j] = o[k] PROVE j = k
  <2>1. SUFFICES ASSUME j # k PROVE FALSE
    OBVIOUS
  <2>2. j < k \/ k < j
    BY <1>1, <2>1
  <2>3. <<o[j], o[k]>> \in before \/ <<o[k], o[j]>> \in before
    BY <1>4, <2>2
  <2>4. QED
    BY <1>3, <1>4, <1>6, <2>3 DEF IsOrder
<1>7. ToSet(a) = ToSet(s)
  BY <1>5 DEF ToSet, I
<1>8. SortsBy(a, s, o, before)
  BY <1>4, <1>5, <1>6, <1>7 DEF I, SortsBy
<1>9. QED
  BY <1>5, <1>8 DEF I, o, a

(* f is s filtered: it holds at k what s holds at o[k], an index of I.     *)
IsFiltered(f, s, I, o) ==
  /\ DOMAIN f = 1 .. Cardinality(I) /\ ToSet(f) = {s[i] : i \in I}
  /\ \A k \in DOMAIN f : o[k] \in I /\ f[k] = s[o[k]]
  /\ \A j, k \in DOMAIN f : j < k => o[j] < o[k]
  /\ \A i \in I : \E k \in DOMAIN f : o[k] = i

(* A filter keeps the order.                                               *)
LEMMA FilteredIs ==
  ASSUME NEW A, NEW s \in Seq(A), NEW I \in SUBSET DOMAIN s
  PROVE  /\ Cardinality(I) \in Nat
         /\ Filtered(s, I) \in Seq(A)
         /\ IsFiltered(Filtered(s, I), s, I, Sequenced(I, Ascending(I)))
<1>1. I \subseteq Int /\ IsFiniteSet(I) /\ \A i \in I : s[i] \in A
  <2>1. DOMAIN s = 1 .. Len(s) /\ Len(s) \in Nat /\ \A i \in DOMAIN s : s[i] \in A
    OBVIOUS
  <2>2. IsFiniteSet(1 .. Len(s))
    BY <2>1, FS_Interval
  <2>3. QED
    BY <2>1, <2>2, FS_Subset
<1>2. IsOrder(Ascending(I), I)
  BY <1>1, AscendingOrders
<1>3. \A x, y : <<x, y>> \in Ascending(I) => x < y
  BY DEF Ascending, Pairs
<1> DEFINE o == Sequenced(I, Ascending(I))
           n == Cardinality(I)
<1>4. /\ n \in Nat
      /\ \A k \in 1 .. n : o[k] \in I
      /\ \A j, k \in 1 .. n : j < k => <<o[j], o[k]>> \in Ascending(I)
      /\ \A i \in I : \E k \in 1 .. n : o[k] = i
  BY <1>1, <1>2, SequencedIs
<1>5. /\ Filtered(s, I) \in Seq(A)
      /\ DOMAIN Filtered(s, I) = 1 .. n
      /\ ToSet(Filtered(s, I)) = {s[i] : i \in I}
      /\ \A k \in 1 .. n : Filtered(s, I)[k] = s[o[k]]
  BY <1>1, <1>2, ArrangedIs DEF Filtered
<1>6. \A j, k \in 1 .. n : j < k => o[j] < o[k]
  <2> HIDE DEF o, n
  <2> QED BY <1>3, <1>4
<1> DEFINE f == Filtered(s, I)
<1> HIDE DEF f, o
<1>7. IsFiltered(f, s, I, o)
  BY <1>4, <1>5, <1>6 DEF IsFiltered, f
<1>8. QED
  BY <1>4, <1>5, <1>7 DEF f, o

(* A set of indices has a first.                                           *)
LEMMA FirstIndex ==
  ASSUME NEW I \in SUBSET Nat, I # {}
  PROVE  \E m \in I : \A i \in I : m <= i
<1>1. PICK m \in I : \A i \in I : <<i, m>> \notin OpToRel(<, Nat)
  BY WFMin, NatLessThanWellFounded, Zenon
<1>2. ASSUME NEW i \in I PROVE m <= i
  <2>1. m \in Nat /\ i \in Nat
    OBVIOUS
  <2>2. ~(i < m)
    BY <1>1, <2>1, Zenon DEF OpToRel
  <2>3. QED
    BY <2>1, <2>2
<1>3. QED
  BY <1>2

LEMMA ConcatToSet ==
  ASSUME NEW S, NEW s \in Seq(S), NEW t \in Seq(S)
  PROVE  /\ s \o t \in Seq(S) /\ Len(s \o t) = Len(s) + Len(t)
         /\ \A i \in 1 .. Len(s) + Len(t) :
              (s \o t)[i] = IF i <= Len(s) THEN s[i] ELSE t[i - Len(s)]
         /\ ToSet(s \o t) = ToSet(s) \cup ToSet(t)
<1> DEFINE c == s \o t
<1>1. /\ c \in Seq(S)
      /\ Len(c) = Len(s) + Len(t)
      /\ \A i \in 1 .. Len(s) + Len(t) : c[i] = IF i <= Len(s) THEN s[i] ELSE t[i - Len(s)]
  BY ConcatProperties
<1>2. /\ DOMAIN c = 1 .. Len(c) /\ DOMAIN s = 1 .. Len(s)
      /\ DOMAIN t = 1 .. Len(t) /\ Len(s) \in Nat /\ Len(t) \in Nat
  BY <1>1
<1> HIDE DEF c
<1>3. ASSUME NEW i \in DOMAIN s PROVE i \in DOMAIN c /\ c[i] = s[i]
  BY <1>1, <1>2
<1>4. ASSUME NEW i \in DOMAIN t PROVE i + Len(s) \in DOMAIN c /\ c[i + Len(s)] = t[i]
  BY <1>1, <1>2
<1>5. ASSUME NEW i \in DOMAIN c PROVE c[i] \in ToSet(s) \/ c[i] \in ToSet(t)
  <2>1. CASE i <= Len(s)
    BY <1>1, <1>2, <2>1 DEF ToSet
  <2>2. CASE ~(i <= Len(s))
    <3>1. i - Len(s) \in DOMAIN t /\ c[i] = t[i - Len(s)]
      BY <1>1, <1>2, <2>2
    <3>2. QED
      BY <3>1 DEF ToSet
  <2>3. QED
    BY <2>1, <2>2
<1>6. ToSet(c) = ToSet(s) \cup ToSet(t)
  <2>1. ToSet(s) \subseteq ToSet(c)
    BY <1>3 DEF ToSet
  <2>2. ToSet(t) \subseteq ToSet(c)
    BY <1>4 DEF ToSet
  <2>3. ToSet(c) \subseteq ToSet(s) \cup ToSet(t)
    BY <1>5 DEF ToSet
  <2>4. QED
    BY <2>1, <2>2, <2>3
<1>7. QED
  BY <1>1, <1>6 DEF c

-----------------------------------------------------------------------------
(* Devices.                                                                *)

LEMMA DeviceSteps ==
  [Next]_partVars => \/ OpenTree \/ AskDevice \/ DeviceName \/ SortDevices \/ DeviceMoves
                     \/ UNCHANGED deviceVars
BY DEF Next, Step, SystemMoves, Services, Devices, Changes, Archive, Rest, CollectDevices, partVars

Row == [device : Plugged, code : ProblemCodes \ {0}, title : Nat]

LEMMA RowsAreTyped ==
  /\ \A r \in Row : r.device \in Plugged /\ r.code # 0 /\ r.title \in Nat
  /\ \A s \in Seq(Row) : \A i \in DOMAIN s : s[i] \in Row
<1>1. \A r \in Row : r.device \in Plugged /\ r.code # 0 /\ r.title \in Nat
  BY DEF Row
<1> DEFINE R == Row
<1>2. \A s \in Seq(R) : \A i \in DOMAIN s : s[i] \in R
  <2> HIDE DEF R
  <2> QED OBVIOUS
<1>3. QED
  BY <1>1, <1>2

(* The devices asked so far: each that has a problem has a row, and no     *)
(* device has two.                                                         *)
Rows(rows, n, had, gone) ==
  /\ rows \in Seq(Row)
  /\ \A i \in DOMAIN rows : /\ rows[i].code \in had[rows[i].device]
                            /\ \E k \in 1 .. n : rows[i].device = DeviceList[k]
  /\ \A i, j \in DOMAIN rows : rows[i].device = rows[j].device => i = j
  /\ \A k \in 1 .. n : \/ DeviceList[k] \in gone \/ 0 \in had[DeviceList[k]]
                       \/ \E i \in DOMAIN rows : rows[i].device = DeviceList[k]

DeviceInv ==
  /\ index \in 0 .. Len(DeviceList)
  /\ treeOpen \in {"open", "enumerate", "name", "done"}
  /\ present = Plugged \ hasGone
  /\ problem \in [Plugged -> ProblemCodes] /\ hadProblem \in [Plugged -> SUBSET ProblemCodes]
  /\ \A d \in Plugged : problem[d] \in hadProblem[d]
  /\ Rows(broken, index, hadProblem, hasGone)
  /\ treeOpen = "open" => broken = <<>>
  /\ treeOpen = "name" => broken # <<>>
  /\ treeOpen # "done" => deviceStatus = "none"
  /\ deviceStatus = "complete" => index = Len(DeviceList)
  /\ treeOpen = "done" =>
       \A i, j \in DOMAIN broken : i <= j => broken[i].title <= broken[j].title

LEMMA InitDevices == Init => DeviceInv
<1>1. SUFFICES ASSUME Init PROVE DeviceInv
  OBVIOUS
<1>2. DeviceList \in Seq(Plugged) /\ FirstProblems \in [Plugged -> ProblemCodes]
  BY DeviceAssumption
<1>3. DevicesInit
  BY <1>1 DEF Init
<1>4. Rows(<<>>, 0, hadProblem, hasGone)
  BY DEF Rows
<1>5. QED
  BY <1>2, <1>3, <1>4 DEF DevicesInit, DeviceInv

LEMMA NextDevices == DeviceInv /\ [Next]_partVars => DeviceInv'
<1> SUFFICES ASSUME DeviceInv, [Next]_partVars PROVE DeviceInv'
  OBVIOUS
<1>1. /\ DeviceList \in Seq(Plugged) /\ Title \in [Plugged -> Nat] /\ UnknownTitle \in Nat
      /\ \A j, k \in DOMAIN DeviceList : DeviceList[j] = DeviceList[k] => j = k
  BY DeviceAssumption DEF IsInjective
<1> DEFINE n == Len(DeviceList)
<1>2. n \in Nat /\ DOMAIN DeviceList = 1 .. n /\ \A k \in 1 .. n : DeviceList[k] \in Plugged
  BY <1>1
<1> HIDE DEF n
<1>3. /\ index \in 0 .. n
      /\ Rows(broken, index, hadProblem, hasGone)
      /\ problem \in [Plugged -> ProblemCodes] /\ hadProblem \in [Plugged -> SUBSET ProblemCodes]
      /\ \A d \in Plugged : problem[d] \in hadProblem[d]
      /\ present = Plugged \ hasGone
  BY DEF DeviceInv, n
<1>4. CASE OpenTree
  BY <1>4 DEF OpenTree, treeVars, DeviceInv, Rows
<1>5. CASE AskDevice
  <2> DEFINE d == DeviceList[index + 1]
             row == [device |-> d, code |-> problem[d], title |-> UnknownTitle]
  <2>1. /\ treeOpen = "enumerate" /\ index < n /\ index' = index + 1
        /\ deviceStatus' = deviceStatus
        /\ UNCHANGED <<problem, present, trouble, hadProblem, hasGone>>
    BY <1>5 DEF AskDevice, treeVars, n
  <2>2. index + 1 \in 1 .. n /\ d \in Plugged /\ index' \in 0 .. n
    BY <1>2, <1>3, <2>1
  <2>3. /\ deviceStatus' = "none" /\ present' = Plugged \ hasGone'
        /\ problem' \in [Plugged -> ProblemCodes] /\ hadProblem' \in [Plugged -> SUBSET ProblemCodes]
        /\ \A e \in Plugged : problem'[e] \in hadProblem'[e]
    BY <1>3, <2>1 DEF DeviceInv
  <2>4. CASE d \notin present \/ problem[d] = 0
    <3>1. treeOpen' = "enumerate" /\ broken' = broken
      BY <1>5, <2>1, <2>4 DEF AskDevice
    <3>2. d \in hasGone \/ 0 \in hadProblem[d]
      BY <1>3, <2>2, <2>4
    <3>3. Rows(broken, index + 1, hadProblem, hasGone)
      <4>1. \A k \in 1 .. index + 1 : k \in 1 .. index \/ k = index + 1
        BY <1>2, <1>3
      <4>2. \A k \in 1 .. index : k \in 1 .. index + 1
        BY <1>2, <1>3
      <4>3. QED
        BY <1>3, <3>2, <4>1, <4>2 DEF Rows
    <3>4. Rows(broken', index', hadProblem', hasGone')
      BY <2>1, <3>1, <3>3
    <3>5. QED
      BY <2>2, <2>3, <3>1, <3>4 DEF DeviceInv, n
  <2>5. CASE ~(d \notin present \/ problem[d] = 0)
    <3>1. treeOpen' = "name" /\ broken' = Append(broken, row)
      BY <1>5, <2>1, <2>5 DEF AskDevice
    <3>2. row \in Row /\ row.device = d /\ row.code \in hadProblem[d]
      BY <1>1, <1>3, <2>2, <2>5 DEF Row
    <3> HIDE DEF row, d
    <3> DEFINE m == Len(broken)
    <3>3. broken \in Seq(Row) /\ m \in Nat /\ DOMAIN broken = 1 .. m
      BY <1>3 DEF Rows
    <3>4. /\ broken' \in Seq(Row) /\ DOMAIN broken' = 1 .. m + 1
          /\ broken'[m + 1] = row /\ \A i \in 1 .. m : broken'[i] = broken[i]
      BY <3>1, <3>2, <3>3
    <3> HIDE DEF m
    <3>5. \A i \in 1 .. m + 1 : i \in 1 .. m \/ i = m + 1
      BY <3>3
    <3>6. \A k \in 1 .. index : k \in 1 .. index + 1 /\ k \in 1 .. n /\ k # index + 1
      BY <1>2, <1>3, <2>1
    <3>7. \A k \in 1 .. index + 1 : k \in 1 .. index \/ k = index + 1
      BY <1>2, <1>3
    <3>8. m + 1 \in 1 .. m + 1 /\ \A i \in 1 .. m : i \in 1 .. m + 1
      BY <3>3
    <3>9. \A i \in 1 .. m : broken[i].device # d
      <4>1. SUFFICES ASSUME NEW i \in 1 .. m, broken[i].device = d PROVE FALSE
        OBVIOUS
      <4>2. PICK k \in 1 .. index : broken[i].device = DeviceList[k]
        BY <1>3, <3>3 DEF Rows
      <4>3. DeviceList[k] = DeviceList[index + 1]
        BY <4>1, <4>2 DEF d
      <4>4. QED
        BY <1>1, <1>2, <2>2, <3>6, <4>3
    <3>10. \A i \in DOMAIN broken' :
             /\ broken'[i].code \in hadProblem[broken'[i].device]
             /\ \E k \in 1 .. index + 1 : broken'[i].device = DeviceList[k]
      <4>1. \A i \in 1 .. m : /\ broken[i].code \in hadProblem[broken[i].device]
                              /\ \E k \in 1 .. index : broken[i].device = DeviceList[k]
        BY <1>3, <3>3 DEF Rows
      <4>2. index + 1 \in 1 .. index + 1
        BY <1>3
      <4>3. QED
        BY <3>2, <3>4, <3>5, <3>6, <4>1, <4>2 DEF d
    <3>11. \A i, j \in DOMAIN broken' : broken'[i].device = broken'[j].device => i = j
      <4>1. \A i, j \in 1 .. m : broken[i].device = broken[j].device => i = j
        BY <1>3, <3>3 DEF Rows
      <4>2. QED
        BY <3>2, <3>4, <3>5, <3>9, <4>1
    <3>12. \A k \in 1 .. index + 1 :
             \/ DeviceList[k] \in hasGone \/ 0 \in hadProblem[DeviceList[k]]
             \/ \E i \in DOMAIN broken' : broken'[i].device = DeviceList[k]
      <4>1. \A k \in 1 .. index :
              \/ DeviceList[k] \in hasGone \/ 0 \in hadProblem[DeviceList[k]]
              \/ \E i \in 1 .. m : broken[i].device = DeviceList[k]
        BY <1>3, <3>3 DEF Rows
      <4>2. broken'[m + 1].device = DeviceList[index + 1]
        BY <3>2, <3>4 DEF d
      <4>3. QED
        BY <3>4, <3>7, <3>8, <4>1, <4>2
    <3>13. Rows(broken', index', hadProblem', hasGone')
      BY <2>1, <3>4, <3>10, <3>11, <3>12 DEF Rows
    <3>14. broken' # <<>>
      BY <3>3, <3>4
    <3>15. QED
      BY <2>2, <2>3, <3>1, <3>13, <3>14 DEF DeviceInv, n
  <2>6. QED
    BY <2>4, <2>5
<1>6. CASE DeviceName
  <2>1. /\ treeOpen = "name" /\ treeOpen' = "enumerate" /\ deviceStatus' = deviceStatus
        /\ UNCHANGED <<problem, present, trouble, hadProblem, hasGone, index>>
    BY <1>6 DEF DeviceName, treeVars
  <2> DEFINE m == Len(broken)
  <2>2. broken \in Seq(Row) /\ m \in Nat /\ DOMAIN broken = 1 .. m /\ m # 0
    BY <1>3, <2>1 DEF Rows, DeviceInv
  <2> DEFINE d == broken[m].device
             named == [broken EXCEPT ![m].title = Title[d]]
  <2>3. broken' = broken \/ broken' = named
    BY <1>6 DEF DeviceName
  <2>4. Rows(broken', index, hadProblem, hasGone)
    <3>1. CASE broken' = broken
      BY <1>3, <3>1
    <3>2. CASE broken' = named
      <4>1. m \in 1 .. m /\ broken[m] \in Row /\ d \in Plugged /\ Title[d] \in Nat
        <5> HIDE DEF m
        <5>1. m \in 1 .. m
          BY <2>2
        <5>2. broken[m] \in Row
          BY <2>2, <5>1, RowsAreTyped
        <5>3. d \in Plugged
          BY <5>2, RowsAreTyped
        <5>4. QED
          BY <1>1, <5>1, <5>2, <5>3
      <4>2. /\ DOMAIN named = 1 .. m
            /\ \A i \in 1 .. m : i # m => named[i] = broken[i]
            /\ named[m] = [broken[m] EXCEPT !.title = Title[d]]
        BY <2>2, <4>1
      <4> DEFINE t == Title[d]
                 r == broken[m]
                 s == [r EXCEPT !.title = t]
      <4>3. s \in Row /\ s.device = r.device /\ s.code = r.code
        <5>1. r \in Row /\ t \in Nat
          BY <4>1
        <5> HIDE DEF r, t
        <5>2. QED
          BY <5>1 DEF Row
      <4>4. \A i \in 1 .. m : /\ named[i] \in Row /\ named[i].device = broken[i].device
                              /\ named[i].code = broken[i].code
        <5>1. named[m] = s /\ broken[m] = r
          BY <4>2
        <5>2. \A i \in 1 .. m : broken[i] \in Row
          BY <2>2
        <5> HIDE DEF named, r, s
        <5>3. QED
          BY <4>2, <4>3, <5>1, <5>2
      <4>5. named \in Seq(Row)
        <5>1. named = [i \in 1 .. m |-> named[i]]
          BY <2>2, <4>2
        <5> HIDE DEF named
        <5>2. QED
          BY <2>2, <4>4, <5>1
      <4> HIDE DEF named, m
      <4>6. Rows(named, index, hadProblem, hasGone)
        <5>1. /\ \A i \in 1 .. m : /\ broken[i].code \in hadProblem[broken[i].device]
                                   /\ \E k \in 1 .. index : broken[i].device = DeviceList[k]
              /\ \A i, j \in 1 .. m : broken[i].device = broken[j].device => i = j
              /\ \A k \in 1 .. index : \/ DeviceList[k] \in hasGone \/ 0 \in hadProblem[DeviceList[k]]
                                       \/ \E i \in 1 .. m : broken[i].device = DeviceList[k]
          BY <1>3, <2>2 DEF Rows
        <5>2. DOMAIN named = 1 .. m
          BY <4>2
        <5>3. \A i, j \in 1 .. m : named[i].device = named[j].device => i = j
          BY <4>4, <5>1
        <5>4. \A i \in 1 .. m : /\ named[i].code \in hadProblem[named[i].device]
                                /\ \E k \in 1 .. index : named[i].device = DeviceList[k]
          BY <4>4, <5>1
        <5>5. \A k \in 1 .. index : \/ DeviceList[k] \in hasGone \/ 0 \in hadProblem[DeviceList[k]]
                                    \/ \E i \in 1 .. m : named[i].device = DeviceList[k]
          BY <4>4, <5>1
        <5>6. QED
          BY <4>5, <5>2, <5>3, <5>4, <5>5 DEF Rows
      <4>7. QED
        BY <3>2, <4>6
    <3>3. QED
      BY <2>3, <3>1, <3>2
  <2> HIDE DEF named
  <2>5. Rows(broken', index', hadProblem', hasGone')
    BY <2>1, <2>4
  <2>6. /\ deviceStatus' = "none" /\ present' = Plugged \ hasGone' /\ index' \in 0 .. n
        /\ problem' \in [Plugged -> ProblemCodes] /\ hadProblem' \in [Plugged -> SUBSET ProblemCodes]
        /\ \A e \in Plugged : problem'[e] \in hadProblem'[e]
    BY <1>3, <2>1 DEF DeviceInv
  <2>7. QED
    BY <2>1, <2>5, <2>6 DEF DeviceInv, n
<1>7. CASE SortDevices
  <2> DEFINE sorted == Arranged(broken, DOMAIN broken, ByTitle)
             o == Sequenced(DOMAIN broken, ByTitle)
             m == Len(broken)
  <2>1. /\ treeOpen = "enumerate" /\ index = n /\ treeOpen' = "done" /\ deviceStatus' = "complete"
        /\ broken' = sorted
        /\ UNCHANGED <<problem, present, trouble, hadProblem, hasGone, index>>
    BY <1>7 DEF SortDevices, treeVars, n
  <2>2. broken \in Seq(Row) /\ m \in Nat /\ DOMAIN broken = 1 .. m
    BY <1>3 DEF Rows
  <2>4. \A i \in 1 .. m : broken[i] \in Row /\ broken[i].title \in Nat
    BY <2>2, RowsAreTyped
  <2>5. \A i, j \in 1 .. m : <<i, j>> \in ByTitle <=>
          broken[i].title < broken[j].title \/ (broken[i].title = broken[j].title /\ i < j)
    <3>1. \A i, j \in 1 .. m : <<i, j>> \in (1 .. m) \X (1 .. m)
      OBVIOUS
    <3>2. ByTitle = {p \in (1 .. m) \X (1 .. m) :
                       \/ broken[p[1]].title < broken[p[2]].title
                       \/ broken[p[1]].title = broken[p[2]].title /\ p[1] < p[2]}
      BY <2>2, Zenon DEF ByTitle, Pairs
    <3> HIDE DEF m
    <3>3. SUFFICES ASSUME NEW i \in 1 .. m, NEW j \in 1 .. m
                   PROVE  <<i, j>> \in ByTitle <=>
                            broken[i].title < broken[j].title \/ (broken[i].title = broken[j].title /\ i < j)
      OBVIOUS
    <3>4. <<i, j>>[1] = i /\ <<i, j>>[2] = j /\ <<i, j>> \in (1 .. m) \X (1 .. m)
      OBVIOUS
    <3>5. QED
      BY <3>2, <3>4, Zenon
  <2> HIDE DEF m
  <2>6. IsOrder(ByTitle, DOMAIN broken)
    <3> DEFINE rank == [i \in 1 .. m |-> broken[i].title]
    <3>1. \A i \in 1 .. m : rank[i] = broken[i].title /\ rank[i] \in Int
      BY <2>4
    <3> HIDE DEF rank
    <3>2. \A i, j \in 1 .. m : <<i, j>> \in ByTitle <=> rank[i] < rank[j] \/ (rank[i] = rank[j] /\ i < j)
      BY <2>5, <3>1
    <3>3. QED
      BY <2>2, <3>1, <3>2, StableOrder
  <2>a. sorted \in Seq(Row) /\ SortsBy(sorted, broken, o, ByTitle)
    BY <2>2, <2>6, SortedIs
  <2> HIDE DEF o, sorted
  <2>7. /\ \A k \in 1 .. m : o[k] \in 1 .. m
        /\ \A j, k \in 1 .. m : j < k => <<o[j], o[k]>> \in ByTitle
        /\ \A i \in 1 .. m : \E k \in 1 .. m : o[k] = i
    BY <2>2, <2>a DEF SortsBy
  <2>8. /\ sorted \in Seq(Row) /\ DOMAIN sorted = 1 .. m
        /\ \A k \in 1 .. m : sorted[k] = broken[o[k]]
    BY <2>2, <2>a DEF SortsBy
  <2>9. \A j, k \in 1 .. m : o[j] = o[k] => j = k
    BY <2>2, <2>a DEF SortsBy
  <2>10. \A j, k \in 1 .. m : j <= k => sorted[j].title <= sorted[k].title
    <3> SUFFICES ASSUME NEW j \in 1 .. m, NEW k \in 1 .. m, j <= k
                 PROVE  sorted[j].title <= sorted[k].title
      OBVIOUS
    <3>1. CASE j = k
      <4>1. sorted[j].title \in Nat
        BY <2>4, <2>7, <2>8
      <4>2. QED
        BY <3>1, <4>1
    <3>2. CASE j # k
      <4>1. j < k
        BY <2>2, <3>2
      <4>2. <<o[j], o[k]>> \in ByTitle /\ o[j] \in 1 .. m /\ o[k] \in 1 .. m
        BY <2>7, <4>1
      <4>3. QED
        BY <2>4, <2>5, <2>8, <4>2
    <3>3. QED
      BY <3>1, <3>2
  <2>11. Rows(sorted, index, hadProblem, hasGone)
    <3>1. /\ \A i \in 1 .. m : /\ broken[i].code \in hadProblem[broken[i].device]
                               /\ \E k \in 1 .. index : broken[i].device = DeviceList[k]
          /\ \A i, j \in 1 .. m : broken[i].device = broken[j].device => i = j
          /\ \A k \in 1 .. index : \/ DeviceList[k] \in hasGone \/ 0 \in hadProblem[DeviceList[k]]
                                   \/ \E i \in 1 .. m : broken[i].device = DeviceList[k]
      BY <1>3, <2>2 DEF Rows
    <3>2. \A i, j \in 1 .. m : sorted[i].device = sorted[j].device => i = j
      <4>1. SUFFICES ASSUME NEW i \in 1 .. m, NEW j \in 1 .. m, sorted[i].device = sorted[j].device
                     PROVE  i = j
        OBVIOUS
      <4>2. sorted[i] = broken[o[i]] /\ sorted[j] = broken[o[j]] /\ o[i] \in 1 .. m /\ o[j] \in 1 .. m
        BY <2>7, <2>8
      <4>3. broken[o[i]].device = broken[o[j]].device
        BY <4>1, <4>2, Zenon
      <4>4. o[i] = o[j]
        BY <3>1, <4>2, <4>3, Zenon
      <4>5. QED
        BY <2>9, <4>4
    <3>3. \A i \in 1 .. m : /\ sorted[i].code \in hadProblem[sorted[i].device]
                            /\ \E k \in 1 .. index : sorted[i].device = DeviceList[k]
      <4> SUFFICES ASSUME NEW i \in 1 .. m
                   PROVE  /\ sorted[i].code \in hadProblem[sorted[i].device]
                          /\ \E k \in 1 .. index : sorted[i].device = DeviceList[k]
        OBVIOUS
      <4>1. sorted[i] = broken[o[i]] /\ o[i] \in 1 .. m
        BY <2>7, <2>8
      <4> DEFINE r == broken[o[i]]
      <4>2. r.code \in hadProblem[r.device] /\ \E k \in 1 .. index : r.device = DeviceList[k]
        BY <3>1, <4>1
      <4>3. sorted[i] = r
        BY <4>1
      <4> HIDE DEF r
      <4>4. QED
        BY <4>2, <4>3
    <3>4. \A k \in 1 .. index : \/ DeviceList[k] \in hasGone \/ 0 \in hadProblem[DeviceList[k]]
                                \/ \E i \in 1 .. m : sorted[i].device = DeviceList[k]
      <4>1. SUFFICES ASSUME NEW k \in 1 .. index, DeviceList[k] \notin hasGone, 0 \notin hadProblem[DeviceList[k]]
                     PROVE  \E i \in 1 .. m : sorted[i].device = DeviceList[k]
        OBVIOUS
      <4>2. PICK i \in 1 .. m : broken[i].device = DeviceList[k]
        BY <3>1, <4>1
      <4>3. PICK j \in 1 .. m : o[j] = i
        BY <2>7
      <4>4. QED
        BY <2>8, <4>2, <4>3
    <3>5. QED
      BY <2>8, <3>2, <3>3, <3>4 DEF Rows
  <2>12. Rows(broken', index', hadProblem', hasGone')
    BY <2>1, <2>11
  <2>13. /\ present' = Plugged \ hasGone' /\ index' \in 0 .. n /\ index' = n
         /\ problem' \in [Plugged -> ProblemCodes] /\ hadProblem' \in [Plugged -> SUBSET ProblemCodes]
         /\ \A e \in Plugged : problem'[e] \in hadProblem'[e]
    BY <1>2, <1>3, <2>1
  <2>14. \A i, j \in DOMAIN broken' : i <= j => broken'[i].title <= broken'[j].title
    BY <2>1, <2>8, <2>10
  <2>15. QED
    BY <2>1, <2>12, <2>13, <2>14 DEF DeviceInv, n
<1>8. CASE DeviceMoves
  <2>1. treeOpen # "done" /\ UNCHANGED <<treeOpen, index, broken, deviceStatus>>
    BY <1>8 DEF DeviceMoves
  <2>2. /\ problem' \in [Plugged -> ProblemCodes] /\ hadProblem' \in [Plugged -> SUBSET ProblemCodes]
        /\ \A d \in Plugged : problem'[d] \in hadProblem'[d] /\ hadProblem[d] \subseteq hadProblem'[d]
        /\ present' = Plugged \ hasGone' /\ hasGone \subseteq hasGone'
    <3>1. CASE \E d \in present, c \in ProblemCodes :
                 /\ problem' = [problem EXCEPT ![d] = c]
                 /\ hadProblem' = [hadProblem EXCEPT ![d] = @ \cup {c}]
                 /\ UNCHANGED <<present, hasGone>>
      BY <1>3, <3>1
    <3>2. CASE \E d \in present :
                 /\ present' = present \ {d}
                 /\ hasGone' = hasGone \cup {d}
                 /\ UNCHANGED <<problem, hadProblem>>
      BY <1>3, <3>2
    <3>3. QED
      BY <1>8, <3>1, <3>2 DEF DeviceMoves
  <2>3. Rows(broken, index, hadProblem', hasGone')
    <3>1. \A i \in DOMAIN broken : broken[i].device \in Plugged
      BY <1>3, RowsAreTyped DEF Rows
    <3>2. \A k \in 1 .. index : DeviceList[k] \in Plugged
      BY <1>2, <1>3
    <3>3. QED
      BY <1>3, <2>2, <3>1, <3>2 DEF Rows
  <2>4. Rows(broken', index', hadProblem', hasGone')
    BY <2>1, <2>3
  <2>5. QED
    BY <2>1, <2>2, <2>4 DEF DeviceInv
<1>9. CASE UNCHANGED deviceVars
  <2>1. Rows(broken', index', hadProblem', hasGone')
    BY <1>3, <1>9 DEF deviceVars
  <2>2. QED
    BY <1>9, <2>1 DEF DeviceInv, deviceVars
<1>10. QED
  BY <1>4, <1>5, <1>6, <1>7, <1>8, <1>9, DeviceSteps

(* For any devices and any number of changes while they are asked: an      *)
(* answer names each device once, with a code it had, and every device     *)
(* that stayed and had a problem throughout (device_inspector.rs 35-58).   *)
THEOREM BrokenDevicesFound == Spec => []BrokenDevicesAreFound
<1>1. DeviceInv => BrokenDevicesAreFound
  <2> SUFFICES ASSUME DeviceInv, treeOpen = "done" PROVE BrokenDevicesAreFound
    BY DEF BrokenDevicesAreFound
  <2> DEFINE named == {broken[i].device : i \in DOMAIN broken}
             m == Len(broken)
  <2>1. broken \in Seq(Row) /\ m \in Nat /\ DOMAIN broken = 1 .. m
    BY DEF DeviceInv, Rows
  <2>2. Cardinality(named) = m
    <3> DEFINE f == [i \in 1 .. m |-> broken[i].device]
    <3>1. f \in Bijection(1 .. m, named)
      <4>1. f \in [1 .. m -> named] /\ \A x \in named : \E i \in 1 .. m : f[i] = x
        BY <2>1
      <4>2. \A i, j \in 1 .. m : f[i] = f[j] => i = j
        BY <2>1 DEF DeviceInv, Rows
      <4> HIDE DEF f, named, m
      <4>3. QED
        BY <4>1, <4>2 DEF Bijection, Injection, Surjection, IsInjective
    <3>2. ExistsBijection(1 .. m, named)
      BY <3>1 DEF ExistsBijection
    <3> HIDE DEF named, m
    <3>3. QED
      BY <2>1, <3>2, FS_CountingElements
  <2>3. \A i \in DOMAIN broken :
          /\ broken[i].code # 0 /\ broken[i].code \in hadProblem[broken[i].device]
          /\ \A j \in i .. m : broken[i].title <= broken[j].title
    <3> SUFFICES ASSUME NEW i \in DOMAIN broken
                 PROVE  /\ broken[i].code # 0 /\ broken[i].code \in hadProblem[broken[i].device]
                        /\ \A j \in i .. m : broken[i].title <= broken[j].title
      OBVIOUS
    <3>1. broken[i] \in Row /\ broken[i].code \in hadProblem[broken[i].device]
      BY <2>1 DEF DeviceInv, Rows
    <3>2. \A j \in i .. m : j \in DOMAIN broken /\ i <= j
      BY <2>1
    <3>3. QED
      BY <3>1, <3>2 DEF Row, DeviceInv
  <2>4. deviceStatus = "complete" => {d \in Plugged \ hasGone : 0 \notin hadProblem[d]} \subseteq named
    <3>1. SUFFICES ASSUME deviceStatus = "complete", NEW d \in Plugged \ hasGone, 0 \notin hadProblem[d]
                   PROVE  d \in named
      OBVIOUS
    <3>2. PICK k \in DOMAIN DeviceList : d = DeviceList[k]
      BY DEF Plugged, ToSet
    <3>3. k \in 1 .. index
      BY <3>1, <3>2, DeviceAssumption DEF DeviceInv
    <3>4. QED
      BY <3>1, <3>2, <3>3 DEF DeviceInv, Rows
  <2>5. QED
    BY <2>2, <2>3, <2>4 DEF BrokenDevicesAreFound
<1>2. QED
  BY <1>1, InitDevices, NextDevices, PTL DEF Spec

-----------------------------------------------------------------------------
(* Services.                                                               *)

LEMMA ServiceSteps ==
  [Next]_partVars => \/ OpenManager \/ ProbeSize \/ FetchPage \/ SortServices
                     \/ ServiceMoves \/ ServiceDeleted \/ ServiceCreated
                     \/ UNCHANGED serviceVars
BY DEF Next, Step, SystemMoves, Services, Devices, Changes, Archive, Rest, CollectServices, partVars

Statuses == ServiceStates \cup {NeverStarted} \cup {FirstServices[n] : n \in DOMAIN FirstServices}

Installed(db, highest) ==
  /\ db \in [DOMAIN db -> [number : 1 .. highest, status : Statuses]]
  /\ DOMAIN db \subseteq ServiceNames /\ IsFiniteSet(DOMAIN db)
  /\ \A m, n \in DOMAIN db : db[m].number = db[n].number => m = n

(* No service is twice in the results but one created anew: one that is in *)
(* them is behind the resume handle, has gone, or was created since.       *)
Found(db, handle, results, anew) ==
  /\ results \in Seq(ServiceNames)
  /\ \A i, j \in DOMAIN results : i # j /\ results[i] = results[j] => results[i] \in anew
  /\ \A n \in DOMAIN db : n \in ToSet(results) => n \in anew \/ db[n].number <= handle

ServiceInv ==
  /\ created \in Nat /\ resume \in 0 .. created
  /\ Installed(database, created)
  /\ Failures(database) \subseteq wasFailing /\ stayed \subseteq Failures(database)
  /\ Found(database, resume, failing, recreated)
  /\ ToSet(failing) \subseteq wasFailing
  /\ asking \in {"open", "probe", "fetch", "sort", "done"}
  /\ asking \in {"open", "probe", "fetch"} =>
       \A n \in stayed : database[n].number <= resume => n \in ToSet(failing)
  /\ asking = "open" => failing = <<>>
  /\ asking = "sort" \/ (asking = "done" /\ serviceStatus = "complete") =>
       (cutOff \/ stayed \subseteq ToSet(failing))
  /\ asking = "done" =>
       \A i, j \in DOMAIN failing : i < j => failing[i] <= failing[j]

LEMMA InstalledServices ==
  ASSUME NEW db, NEW highest \in Nat, Installed(db, highest)
  PROVE  \A n \in DOMAIN db : /\ n \in Nat
                              /\ db[n].number \in 1 .. highest /\ db[n].number \in Nat
                              /\ db[n].status \in Statuses
<1> SUFFICES ASSUME NEW n \in DOMAIN db
             PROVE  /\ n \in Nat /\ db[n].number \in 1 .. highest /\ db[n].number \in Nat
                    /\ db[n].status \in Statuses
  OBVIOUS
<1>1. db[n] \in [number : 1 .. highest, status : Statuses] /\ n \in ServiceNames
  BY DEF Installed
<1>2. QED
  BY <1>1, ServiceAssumption

LEMMA InitServices == Init => ServiceInv
<1> SUFFICES ASSUME ServicesInit PROVE ServiceInv
  BY DEF Init
<1> DEFINE D == DOMAIN FirstServices
           names == Sequenced(D, Ascending(ServiceNames))
           n == Cardinality(D)
           Number(m) == CHOOSE i \in DOMAIN names : names[i] = m
<1>1. /\ database = [m \in D |-> [number |-> Number(m), status |-> FirstServices[m]]]
      /\ created = n /\ asking = "open" /\ resume = 0 /\ failing = <<>> /\ serviceStatus = "none"
      /\ wasFailing = Failures(database) /\ stayed = Failures(database)
  BY DEF ServicesInit
<1>2. D \subseteq ServiceNames /\ IsFiniteSet(D) /\ D \subseteq Int
  <2>1. D \subseteq ServiceNames /\ IsFiniteSet(D) /\ ServiceNames \subseteq Nat
    BY ServiceAssumption
  <2>2. \A x \in Nat : x \in Int
    OBVIOUS
  <2> HIDE DEF D
  <2>3. QED
    BY <2>1, <2>2, Zenon
<1>3. IsOrder(Ascending(ServiceNames), D)
  <2>1. \A x, y \in D : <<x, y>> \in Ascending(ServiceNames) <=> x < y
    BY <1>2 DEF Ascending, Pairs
  <2>2. QED
    BY <1>2, <2>1 DEF IsOrder
<1>4. n \in Nat /\ DOMAIN names = 1 .. n /\ \A m \in D : \E k \in 1 .. n : names[k] = m
  BY <1>2, <1>3, SequencedIs
<1> HIDE DEF names, n
<1>5. \A m \in D : Number(m) \in 1 .. n /\ names[Number(m)] = m
  BY <1>4
<1> HIDE DEF Number
<1>6. /\ DOMAIN database = D
      /\ \A m \in D : database[m] = [number |-> Number(m), status |-> FirstServices[m]]
  BY <1>1
<1>7. Installed(database, created)
  <2>1. \A m \in D : database[m] \in [number : 1 .. n, status : Statuses]
    BY <1>5, <1>6 DEF Statuses
  <2>2. database \in [D -> [number : 1 .. n, status : Statuses]]
    BY <1>1, <1>6, <2>1
  <2>3. \A l, m \in D : database[l].number = database[m].number => l = m
    BY <1>5, <1>6
  <2>4. QED
    BY <1>1, <1>2, <1>6, <2>2, <2>3 DEF Installed
<1>8. failing \in Seq(ServiceNames) /\ DOMAIN failing = {} /\ ToSet(failing) = {}
  BY <1>1 DEF ToSet
<1>9. Found(database, resume, failing, recreated)
  BY <1>8 DEF Found
<1>10. \A m \in stayed : ~(database[m].number <= resume)
  <2>1. \A m \in stayed : m \in D
    BY <1>1, <1>6 DEF Failures
  <2>2. \A m \in D : database[m].number \in Nat /\ database[m].number >= 1
    BY <1>4, <1>5, <1>6
  <2>3. QED
    BY <1>1, <2>1, <2>2
<1>11. QED
  BY <1>1, <1>4, <1>7, <1>8, <1>9, <1>10 DEF ServiceInv

(* The services behind the resume handle, in the order of their numbers.   *)
LEMMA BehindIs ==
  ASSUME created \in Nat, Installed(database, created), resume \in 0 .. created
  PROVE  /\ Behind \in Seq(ServiceNames) /\ Len(Behind) \in Nat /\ DOMAIN Behind = 1 .. Len(Behind)
         /\ \A k \in 1 .. Len(Behind) : Behind[k] \in DOMAIN database /\ database[Behind[k]].number > resume
         /\ \A j, k \in 1 .. Len(Behind) : j < k => database[Behind[j]].number < database[Behind[k]].number
         /\ \A n \in DOMAIN database : database[n].number > resume => \E k \in 1 .. Len(Behind) : Behind[k] = n
<1> DEFINE B == {n \in DOMAIN database : database[n].number > resume}
<1>1. /\ DOMAIN database \subseteq ServiceNames /\ IsFiniteSet(DOMAIN database)
      /\ \A m, n \in DOMAIN database : database[m].number = database[n].number => m = n
  BY DEF Installed
<1>2. \A n \in DOMAIN database : database[n].number \in Nat
  BY InstalledServices
<1>3. \A m, n \in DOMAIN database : <<m, n>> \in ByNumber <=> database[m].number < database[n].number
  BY Zenon DEF ByNumber, Pairs
<1>4. B \subseteq DOMAIN database
  OBVIOUS
<1>5. IsFiniteSet(B)
  BY <1>1, <1>4, FS_Subset
<1>6. Behind = Sequenced(B, ByNumber)
  BY DEF Behind
<1> HIDE DEF B
<1>7. IsOrder(ByNumber, B)
  BY <1>1, <1>2, <1>3, <1>4 DEF IsOrder
<1> DEFINE c == Cardinality(B)
<1>8. /\ c \in Nat /\ Behind \in Seq(B) /\ Len(Behind) = c /\ DOMAIN Behind = 1 .. c
      /\ \A k \in 1 .. c : Behind[k] \in B
      /\ \A j, k \in 1 .. c : j < k => <<Behind[j], Behind[k]>> \in ByNumber
      /\ \A n \in B : \E k \in 1 .. c : Behind[k] = n
  BY <1>5, <1>6, <1>7, SequencedIs
<1> HIDE DEF c
<1>9. Behind \in Seq(ServiceNames)
  BY <1>1, <1>4, <1>8
<1>10. \A j, k \in 1 .. c : j < k => database[Behind[j]].number < database[Behind[k]].number
  BY <1>3, <1>4, <1>8
<1>11. QED
  BY <1>8, <1>9, <1>10 DEF B

(* A page: the failures among the services between the old handle and the  *)
(* new one, each once.                                                     *)
IsPage(found, next) ==
  /\ next \in resume .. created
  /\ found \in Seq(ServiceNames)
  /\ ToSet(found) = {n \in Failures(database) : resume < database[n].number /\ database[n].number <= next}
  /\ \A i, j \in DOMAIN found : found[i] = found[j] => i = j

LEMMA PageIs ==
  ASSUME created \in Nat, Installed(database, created), resume \in 0 .. created,
         NEW returned \in 0 .. Len(Behind), NEW page, page = SubSeq(Behind, 1, returned),
         NEW found, found = Filtered(page, {i \in DOMAIN page : Candidate(database[page[i]].status)}),
         NEW next, next = IF returned = 0 THEN resume ELSE database[Last(page)].number
  PROVE  /\ IsPage(found, next)
         /\ returned = Len(Behind) => \A n \in DOMAIN database : database[n].number <= next
<1> DEFINE b == Behind
           B == Len(b)
           I == {i \in DOMAIN page : Candidate(database[page[i]].status)}
           o == Sequenced(I, Ascending(I))
           c == Cardinality(I)
<1>1. /\ b \in Seq(ServiceNames) /\ B \in Nat /\ DOMAIN b = 1 .. B
      /\ \A k \in 1 .. B : b[k] \in DOMAIN database /\ database[b[k]].number > resume
      /\ \A j, k \in 1 .. B : j < k => database[b[j]].number < database[b[k]].number
      /\ \A n \in DOMAIN database : database[n].number > resume => \E k \in 1 .. B : b[k] = n
  BY BehindIs
<1>2. returned \in Nat /\ returned <= B /\ resume \in Nat /\ \A n \in DOMAIN database : database[n].number \in 1 .. created
  BY <1>1, InstalledServices
<1> HIDE DEF b, B
<1>3. /\ page \in Seq(ServiceNames) /\ Len(page) = returned /\ DOMAIN page = 1 .. returned
      /\ \A i \in 1 .. returned : page[i] = b[i]
  <2>1. \A i \in 1 .. returned : b[i] \in ServiceNames /\ i \in 1 .. B
    BY <1>1, <1>2
  <2>2. /\ SubSeq(b, 1, returned) \in Seq(ServiceNames)
        /\ Len(SubSeq(b, 1, returned)) = IF 1 <= returned THEN returned - 1 + 1 ELSE 0
        /\ \A i \in 1 .. returned - 1 + 1 : SubSeq(b, 1, returned)[i] = b[1 + i - 1]
    BY <1>2, <2>1, SubSeqProperties
  <2>3. page = SubSeq(b, 1, returned)
    BY DEF b
  <2>4. /\ page \in Seq(ServiceNames)
        /\ Len(page) = IF 1 <= returned THEN returned - 1 + 1 ELSE 0
        /\ \A i \in 1 .. returned - 1 + 1 : page[i] = b[1 + i - 1]
    BY <2>2, <2>3
  <2>5. Len(page) = returned
    BY <1>2, <2>4
  <2>6. \A i \in 1 .. returned : i \in 1 .. returned - 1 + 1 /\ 1 + i - 1 = i
    BY <1>2
  <2>7. QED
    BY <2>4, <2>5, <2>6
<1>4. I \subseteq 1 .. returned /\ I \in SUBSET DOMAIN page
  BY <1>3
<1>5. /\ c \in Nat /\ found \in Seq(ServiceNames) /\ DOMAIN found = 1 .. c
      /\ ToSet(found) = {page[i] : i \in I}
      /\ \A k \in 1 .. c : o[k] \in I /\ found[k] = page[o[k]]
      /\ \A j, k \in 1 .. c : j < k => o[j] < o[k]
  <2>1. found = Filtered(page, I)
    OBVIOUS
  <2> HIDE DEF I
  <2>2. c \in Nat /\ found \in Seq(ServiceNames) /\ IsFiltered(found, page, I, o)
    BY <1>3, <1>4, <2>1, FilteredIs
  <2> HIDE DEF o
  <2>3. QED
    BY <2>2 DEF IsFiltered
<1>6. \A i \in 1 .. returned : i \in I <=> Candidate(database[page[i]].status)
  BY <1>3
<1> HIDE DEF I, o, c
<1>7. \A i \in 1 .. returned : page[i] \in DOMAIN database /\ database[page[i]].number > resume
  BY <1>1, <1>2, <1>3
<1>8. \A i, j \in 1 .. returned : i < j => database[page[i]].number < database[page[j]].number
  <2>1. \A i \in 1 .. returned : i \in 1 .. B
    BY <1>1, <1>2
  <2>2. QED
    BY <1>1, <1>3, <2>1
<1>9. /\ returned = 0 => next = resume
      /\ returned # 0 => next = database[page[returned]].number /\ returned \in 1 .. returned
  BY <1>2, <1>3 DEF Last
<1>10. next \in resume .. created
  <2>1. CASE returned = 0
    BY <1>2, <1>9, <2>1
  <2>2. CASE returned # 0
    <3>1. page[returned] \in DOMAIN database /\ database[page[returned]].number > resume
      BY <1>7, <1>9, <2>2
    <3>2. next \in 1 .. created /\ next > resume
      BY <1>2, <1>9, <2>2, <3>1
    <3>3. QED
      BY <1>2, <3>2
  <2>3. QED
    BY <2>1, <2>2
<1>11. \A i \in 1 .. returned : database[page[i]].number <= next
  <2> SUFFICES ASSUME NEW i \in 1 .. returned PROVE database[page[i]].number <= next
    OBVIOUS
  <2>1. returned # 0 /\ next = database[page[returned]].number /\ returned \in 1 .. returned
    BY <1>2, <1>9
  <2>2. database[page[i]].number \in Nat
    BY <1>2, <1>7
  <2>3. CASE i = returned
    BY <2>1, <2>2, <2>3
  <2>4. CASE i < returned
    <3>1. database[page[i]].number < database[page[returned]].number /\ database[page[returned]].number \in Nat
      BY <1>2, <1>7, <1>8, <2>1, <2>4
    <3>2. QED
      BY <2>1, <2>2, <3>1
  <2>5. QED
    BY <1>2, <2>3, <2>4
<1>12. ASSUME NEW n \in DOMAIN database, resume < database[n].number, database[n].number <= next
       PROVE  \E i \in 1 .. returned : page[i] = n
  <2>1. returned # 0
    BY <1>2, <1>9, <1>12
  <2>2. PICK k \in 1 .. B : b[k] = n
    BY <1>1, <1>2, <1>12
  <2>3. CASE k \in 1 .. returned
    BY <1>3, <2>2, <2>3
  <2>4. CASE k \notin 1 .. returned
    <3>1. returned < k /\ returned \in 1 .. B
      BY <1>1, <1>2, <2>1, <2>4
    <3>2. database[b[returned]].number < database[b[k]].number
      BY <1>1, <3>1
    <3>3. next = database[b[returned]].number
      BY <1>3, <1>9, <2>1
    <3>4. next \in Nat /\ database[n].number \in Nat
      BY <1>2, <1>10
    <3>5. QED
      BY <1>12, <2>2, <3>2, <3>3, <3>4
  <2>5. QED
    BY <2>3, <2>4
<1>13. ToSet(found) = {n \in Failures(database) : resume < database[n].number /\ database[n].number <= next}
  <2>1. ASSUME NEW n \in ToSet(found)
        PROVE  n \in Failures(database) /\ resume < database[n].number /\ database[n].number <= next
    <3>1. PICK i \in I : n = page[i]
      BY <1>5
    <3>2. i \in 1 .. returned /\ Candidate(database[page[i]].status)
      BY <1>4, <1>6
    <3>3. page[i] \in DOMAIN database /\ database[page[i]].number > resume /\ database[page[i]].number <= next
      BY <1>7, <1>11, <3>2
    <3>4. QED
      BY <3>1, <3>2, <3>3 DEF Failures
  <2>2. ASSUME NEW n \in Failures(database), resume < database[n].number, database[n].number <= next
        PROVE  n \in ToSet(found)
    <3>1. n \in DOMAIN database /\ Candidate(database[n].status)
      BY DEF Failures
    <3>2. PICK i \in 1 .. returned : page[i] = n
      BY <1>12, <2>2, <3>1
    <3>3. i \in I
      BY <1>6, <3>1, <3>2
    <3>4. QED
      BY <1>5, <3>2, <3>3
  <2>3. QED
    BY <2>1, <2>2
<1>14. \A i, j \in 1 .. returned : page[i] = page[j] => i = j
  <2> SUFFICES ASSUME NEW i \in 1 .. returned, NEW j \in 1 .. returned, page[i] = page[j] PROVE i = j
    OBVIOUS
  <2>1. database[page[i]].number \in Nat /\ database[page[j]].number \in Nat
    BY <1>2, <1>7
  <2>2. ~(i < j) /\ ~(j < i)
    <3>1. ~(database[page[i]].number < database[page[j]].number) /\ ~(database[page[j]].number < database[page[i]].number)
      BY <2>1
    <3>2. QED
      BY <1>8, <3>1
  <2>3. QED
    BY <2>2, <1>2
<1>15. \A i, j \in DOMAIN found : found[i] = found[j] => i = j
  <2>b. DOMAIN found = 1 .. c
    BY <1>5
  <2> SUFFICES ASSUME NEW i \in DOMAIN found, NEW j \in DOMAIN found, found[i] = found[j] PROVE i = j
    OBVIOUS
  <2>a. i \in 1 .. c /\ j \in 1 .. c
    BY <2>b
  <2>1. o[i] \in 1 .. returned /\ o[j] \in 1 .. returned /\ page[o[i]] = page[o[j]]
    BY <1>4, <1>5, <2>a
  <2>2. o[i] = o[j]
    BY <1>14, <2>1
  <2>3. ~(o[i] < o[j]) /\ ~(o[j] < o[i])
    BY <1>2, <2>1, <2>2
  <2>4. ~(i < j) /\ ~(j < i)
    BY <1>5, <2>3, <2>a
  <2>5. QED
    BY <1>5, <2>4, <2>a
<1>16. ASSUME returned = B, NEW n \in DOMAIN database PROVE database[n].number <= next
  <2>1. CASE database[n].number > resume
    <3>1. PICK k \in 1 .. B : b[k] = n
      BY <1>1, <2>1
    <3>2. k \in 1 .. returned /\ page[k] = n
      BY <1>3, <1>16, <3>1
    <3>3. QED
      BY <1>11, <3>2
  <2>2. CASE ~(database[n].number > resume)
    BY <1>2, <1>10, <2>2
  <2>3. QED
    BY <2>1, <2>2
<1>17. IsPage(found, next)
  BY <1>5, <1>10, <1>13, <1>15 DEF IsPage
<1>18. QED
  BY <1>16, <1>17 DEF b, B

(* What a move of the database leaves true of the collector's work.        *)
LEMMA MovedServices ==
  ASSUME ServiceInv, NEW db, Move(db), created' \in Nat, created <= created',
         Installed(db, created'), stayed' \subseteq Failures(db), stayed' \subseteq stayed,
         recreated \subseteq recreated',
         \A n \in DOMAIN db : n \in recreated' \/ (n \in DOMAIN database /\ db[n].number = database[n].number),
         \A n \in stayed' : db[n].number = database[n].number
  PROVE  ServiceInv'
<1>1. /\ asking # "done" /\ database' = db /\ wasFailing' = wasFailing \cup Failures(db)
      /\ UNCHANGED <<asking, resume, room, failing, serviceStatus, cutOff>>
  BY DEF Move
<1>2. created \in Nat /\ resume \in 0 .. created /\ Found(database, resume, failing, recreated)
  BY DEF ServiceInv
<1>3. created' \in Nat /\ resume' \in 0 .. created'
  BY <1>1, <1>2
<1>4. Failures(database') = Failures(db) /\ Installed(database', created')
  BY <1>1 DEF Failures, Installed
<1>5. Found(db, resume, failing, recreated')
  BY <1>2 DEF Found
<1>6. Found(database', resume', failing', recreated')
  BY <1>1, <1>5
<1>7. ToSet(failing') \subseteq wasFailing'
  BY <1>1 DEF ServiceInv
<1>8. asking' \in {"open", "probe", "fetch"} =>
        \A n \in stayed' : database'[n].number <= resume' => n \in ToSet(failing')
  BY <1>1 DEF ServiceInv
<1>9. asking' = "sort" => cutOff' \/ stayed' \subseteq ToSet(failing')
  BY <1>1 DEF ServiceInv
<1>10. Failures(database)' \subseteq wasFailing' /\ stayed' \subseteq Failures(database)'
  <2>1. Failures(database)' = Failures(db)
    BY <1>1 DEF Failures
  <2>2. QED
    BY <1>1, <2>1
<1>11. asking' \in {"open", "probe", "fetch", "sort"}
  BY <1>1 DEF ServiceInv
<1>12. asking' = "open" => failing' = <<>>
  BY <1>1 DEF ServiceInv
<1>13. QED
  BY <1>3, <1>4, <1>6, <1>7, <1>8, <1>9, <1>10, <1>11, <1>12 DEF ServiceInv

LEMMA ServiceMovesKeep == ServiceInv /\ ServiceMoves => ServiceInv'
<1> SUFFICES ASSUME ServiceInv, ServiceMoves PROVE ServiceInv'
  OBVIOUS
<1>1. PICK n \in DOMAIN database, s \in ServiceStates :
        /\ Move([database EXCEPT ![n].status = s])
        /\ stayed' = stayed \cap Failures([database EXCEPT ![n].status = s])
        /\ created' = created /\ recreated' = recreated
  BY DEF ServiceMoves
<1> DEFINE db == [database EXCEPT ![n].status = s]
           Rec == [number : 1 .. created, status : Statuses]
<1>2. created \in Nat /\ Installed(database, created) /\ s \in Statuses
  BY DEF ServiceInv, Statuses
<1>3. database \in [DOMAIN database -> Rec]
  BY <1>2 DEF Installed
<1>4. \A m \in DOMAIN database : db[m] \in Rec /\ db[m].number = database[m].number
  <2> DEFINE r == database[n]
             u == [r EXCEPT !.status = s]
  <2>1. r \in Rec
    BY <1>3
  <2>2. u \in Rec /\ u.number = r.number
    <3> HIDE DEF r
    <3> QED BY <1>2, <2>1
  <2>3. \A m \in DOMAIN database : db[m] = IF m = n THEN u ELSE database[m]
    BY <1>3
  <2> HIDE DEF u, db
  <2>4. QED
    BY <1>3, <2>2, <2>3
<1>5. DOMAIN db = DOMAIN database /\ db \in [DOMAIN database -> Rec]
  <2>1. DOMAIN db = DOMAIN database /\ db = [m \in DOMAIN database |-> db[m]]
    BY <1>3
  <2> HIDE DEF db, Rec
  <2>2. QED
    BY <1>4, <2>1
<1>6. Move(db) /\ stayed' = stayed \cap Failures(db)
  BY <1>1
<1> HIDE DEF db
<1>7. Installed(db, created')
  <2>1. /\ DOMAIN database \subseteq ServiceNames /\ IsFiniteSet(DOMAIN database)
        /\ \A l, m \in DOMAIN database : database[l].number = database[m].number => l = m
    BY <1>2 DEF Installed
  <2>2. Installed(db, created)
    BY <1>4, <1>5, <2>1 DEF Installed
  <2>3. QED
    BY <1>1, <2>2
<1>8. \A m \in stayed' : db[m].number = database[m].number
  BY <1>4, <1>6 DEF ServiceInv, Failures
<1>9. created' \in Nat /\ created <= created' /\ recreated' = recreated
  BY <1>1, <1>2
<1>10. \A m \in DOMAIN db : m \in DOMAIN database /\ db[m].number = database[m].number
  BY <1>4, <1>5
<1>11. QED
  BY <1>6, <1>7, <1>8, <1>9, <1>10, MovedServices

LEMMA ServiceDeletedKeeps == ServiceInv /\ ServiceDeleted => ServiceInv'
<1> SUFFICES ASSUME ServiceInv, ServiceDeleted PROVE ServiceInv'
  OBVIOUS
<1>1. PICK n \in DOMAIN database :
        /\ Move(Restrict(database, DOMAIN database \ {n}))
        /\ stayed' = stayed \ {n} /\ created' = created /\ recreated' = recreated
  BY DEF ServiceDeleted
<1> DEFINE db == Restrict(database, DOMAIN database \ {n})
<1>2. created \in Nat /\ Installed(database, created) /\ stayed \subseteq Failures(database)
  BY DEF ServiceInv
<1>3. DOMAIN db = DOMAIN database \ {n} /\ \A m \in DOMAIN database \ {n} : db[m] = database[m]
  BY DEF Restrict
<1>4. db \in [DOMAIN db -> [number : 1 .. created, status : Statuses]]
  <2>1. db = [m \in DOMAIN db |-> db[m]]
    BY DEF Restrict
  <2>2. \A m \in DOMAIN database : database[m] \in [number : 1 .. created, status : Statuses]
    BY <1>2 DEF Installed
  <2> HIDE DEF db
  <2>3. \A m \in DOMAIN db : db[m] \in [number : 1 .. created, status : Statuses]
    BY <1>3, <2>2
  <2>4. QED
    BY <2>1, <2>3
<1>5. Move(db)
  BY <1>1
<1> HIDE DEF db
<1>6. IsFiniteSet(DOMAIN db)
  BY <1>2, <1>3, FS_RemoveElement DEF Installed
<1>7. Installed(db, created')
  BY <1>1, <1>2, <1>3, <1>4, <1>6 DEF Installed
<1>8. stayed' \subseteq Failures(db) /\ stayed' \subseteq stayed
  BY <1>1, <1>2, <1>3 DEF Failures
<1>9. \A m \in stayed' : db[m].number = database[m].number
  BY <1>3, <1>8 DEF Failures
<1>10. created' \in Nat /\ created <= created'
  BY <1>1, <1>2
<1>11. \A m \in DOMAIN db : m \in DOMAIN database /\ db[m].number = database[m].number
  BY <1>3
<1>12. QED
  BY <1>1, <1>5, <1>7, <1>8, <1>9, <1>10, <1>11, MovedServices

LEMMA ServiceCreatedKeeps == ServiceInv /\ ServiceCreated => ServiceInv'
<1> SUFFICES ASSUME ServiceInv, ServiceCreated PROVE ServiceInv'
  OBVIOUS
<1> DEFINE Fresh(n) == [m \in DOMAIN database \cup {n} |->
                          IF m = n THEN [number |-> created', status |-> NeverStarted] ELSE database[m]]
<1>1. PICK n \in ServiceNames \ DOMAIN database :
        /\ created' = created + 1 /\ Move(Fresh(n))
        /\ recreated' = recreated \cup {n} /\ stayed' = stayed
  BY DEF ServiceCreated
<1> DEFINE db == Fresh(n)
<1>2. /\ created \in Nat /\ Installed(database, created) /\ stayed \subseteq Failures(database)
      /\ created' \in Nat /\ created < created' /\ created <= created'
  BY <1>1 DEF ServiceInv
<1>3. /\ DOMAIN db = DOMAIN database \cup {n} /\ db = [m \in DOMAIN db |-> db[m]]
      /\ db[n] = [number |-> created', status |-> NeverStarted]
      /\ \A m \in DOMAIN database : db[m] = database[m]
  BY <1>1
<1>4. Move(db)
  BY <1>1
<1> HIDE DEF db
<1>5. \A m \in DOMAIN database : /\ database[m] \in [number : 1 .. created, status : Statuses]
                                 /\ database[m].number \in 1 .. created
                                 /\ database[m].number # created'
  <2>1. \A m \in DOMAIN database : database[m].number \in 1 .. created
    BY <1>2, InstalledServices
  <2>2. \A m \in DOMAIN database : database[m].number # created'
    BY <1>2, <2>1
  <2>3. QED
    BY <1>2, <2>1, <2>2 DEF Installed
<1>6. \A m \in DOMAIN db : db[m] \in [number : 1 .. created', status : Statuses]
  <2>1. db[n] \in [number : 1 .. created', status : Statuses]
    BY <1>2, <1>3 DEF Statuses
  <2>2. ASSUME NEW m \in DOMAIN database PROVE db[m] \in [number : 1 .. created', status : Statuses]
    <3>1. \A x \in 1 .. created : x \in 1 .. created'
      BY <1>2
    <3> DEFINE r == database[m]
    <3>2. r \in [number : 1 .. created, status : Statuses] /\ db[m] = r
      BY <1>3, <1>5
    <3> HIDE DEF r
    <3>3. QED
      BY <3>1, <3>2
  <2>3. QED
    BY <1>3, <2>1, <2>2
<1>7. db \in [DOMAIN db -> [number : 1 .. created', status : Statuses]]
  BY <1>3, <1>6
<1>8. \A l, m \in DOMAIN db : db[l].number = db[m].number => l = m
  <2>1. \A l, m \in DOMAIN database : database[l].number = database[m].number => l = m
    BY <1>2 DEF Installed
  <2>2. db[n].number = created'
    BY <1>3
  <2>3. \A m \in DOMAIN database : db[m].number = database[m].number
    BY <1>3
  <2>4. \A m \in DOMAIN db : m \in DOMAIN database \/ m = n
    BY <1>3
  <2>5. QED
    BY <1>5, <2>1, <2>2, <2>3, <2>4
<1>9. Installed(db, created')
  <2>1. DOMAIN db \subseteq ServiceNames /\ IsFiniteSet(DOMAIN db)
    BY <1>2, <1>3, FS_AddElement DEF Installed
  <2>2. QED
    BY <1>7, <1>8, <2>1 DEF Installed
<1>10. stayed' \subseteq Failures(db) /\ stayed' \subseteq stayed
  BY <1>1, <1>2, <1>3 DEF Failures
<1>11. \A m \in stayed' : db[m].number = database[m].number
  BY <1>1, <1>2, <1>3 DEF Failures
<1>12. \A m \in DOMAIN db : m \in recreated' \/ (m \in DOMAIN database /\ db[m].number = database[m].number)
  BY <1>1, <1>3
<1>13. QED
  BY <1>1, <1>2, <1>4, <1>9, <1>10, <1>11, <1>12, MovedServices

(* The steps of collect_problematic_services().                            *)
LEMMA ProbeSizeKeeps == ServiceInv /\ ProbeSize => ServiceInv'
<1> SUFFICES ASSUME ServiceInv, ProbeSize PROVE ServiceInv'
  OBVIOUS
<1>1. PICK needed \in {0, Len(Behind)} :
        /\ asking = "probe" /\ asking' = (IF needed = 0 THEN "sort" ELSE "fetch")
        /\ cutOff' = (needed < Len(Behind))
        /\ UNCHANGED <<databaseVars, resume, failing, serviceStatus>>
  BY DEF ProbeSize
<1>2. UNCHANGED <<database, created, wasFailing, stayed, recreated, resume, failing, serviceStatus>>
  BY <1>1 DEF databaseVars
<1>3. /\ created \in Nat /\ resume \in 0 .. created /\ Installed(database, created)
      /\ stayed \subseteq Failures(database)
      /\ \A n \in stayed : database[n].number <= resume => n \in ToSet(failing)
  BY <1>1 DEF ServiceInv
<1>4. /\ Len(Behind) \in Nat
      /\ \A n \in DOMAIN database : database[n].number > resume => \E k \in 1 .. Len(Behind) : Behind[k] = n
      /\ \A n \in DOMAIN database : database[n].number \in Nat
  BY <1>3, BehindIs, InstalledServices
<1>5. Len(Behind) = 0 => stayed \subseteq ToSet(failing)
  <2>1. SUFFICES ASSUME Len(Behind) = 0, NEW n \in stayed PROVE n \in ToSet(failing)
    OBVIOUS
  <2>2. n \in DOMAIN database
    BY <1>3 DEF Failures
  <2>3. ~(database[n].number > resume)
    BY <1>4, <2>1, <2>2
  <2>4. QED
    BY <1>3, <1>4, <2>2, <2>3
<1>6. asking' = "sort" => cutOff' \/ stayed \subseteq ToSet(failing)
  <2>1. SUFFICES ASSUME asking' = "sort", Len(Behind) # 0 PROVE cutOff'
    BY <1>5
  <2>2. needed = 0
    BY <1>1, <2>1
  <2>3. 0 < Len(Behind)
    BY <1>4, <2>1
  <2>4. QED
    BY <1>1, <2>2, <2>3
<1>7. asking' \in {"sort", "fetch"}
  BY <1>1
<1>8. Failures(database)' = Failures(database)
  BY <1>2 DEF Failures
<1>9. Found(database, resume, failing, recreated) /\ Failures(database) \subseteq wasFailing /\ ToSet(failing) \subseteq wasFailing
  BY DEF ServiceInv
<1>10. QED
  BY <1>2, <1>3, <1>6, <1>7, <1>8, <1>9 DEF ServiceInv

LEMMA FetchPageKeeps == ServiceInv /\ FetchPage => ServiceInv'
<1> SUFFICES ASSUME ServiceInv, FetchPage PROVE ServiceInv'
  OBVIOUS
<1> DEFINE Page(returned) == SubSeq(Behind, 1, returned)
           Hits(returned) == Filtered(Page(returned), {i \in DOMAIN Page(returned) : Candidate(database[Page(returned)[i]].status)})
           Reached(returned) == IF returned = 0 THEN resume ELSE database[Last(Page(returned))].number
<1>1. PICK returned \in 0 .. Len(Behind) :
        /\ failing' = failing \o Hits(returned)
        /\ resume' = Reached(returned)
        /\ asking' = (IF LastPage(returned = Len(Behind), returned) THEN "sort" ELSE "probe")
        /\ cutOff' = (returned = 0 /\ ~(returned = Len(Behind)))
  BY DEF FetchPage
<1>2. /\ asking = "fetch"
      /\ UNCHANGED <<database, created, wasFailing, stayed, recreated, serviceStatus>>
  BY DEF FetchPage, databaseVars
<1> DEFINE page == Page(returned)
           found == Hits(returned)
           next == Reached(returned)
<1>3. /\ created \in Nat /\ resume \in 0 .. created /\ Installed(database, created)
      /\ stayed \subseteq Failures(database) /\ Failures(database) \subseteq wasFailing
      /\ ToSet(failing) \subseteq wasFailing
      /\ Found(database, resume, failing, recreated)
      /\ \A n \in stayed : database[n].number <= resume => n \in ToSet(failing)
  BY <1>2 DEF ServiceInv
<1>4. page = SubSeq(Behind, 1, returned) /\ found = Filtered(page, {i \in DOMAIN page : Candidate(database[page[i]].status)})
      /\ next = IF returned = 0 THEN resume ELSE database[Last(page)].number
  OBVIOUS
<1>5. failing' = failing \o found /\ resume' = next
  BY <1>1
<1> HIDE DEF page, found, next
<1>6. /\ IsPage(found, next)
      /\ returned = Len(Behind) => \A n \in DOMAIN database : database[n].number <= next
  BY <1>3, <1>4, PageIs
<1> DEFINE f == failing
           c == failing \o found
           l == Len(failing)
           m == Len(found)
<1>7. /\ f \in Seq(ServiceNames) /\ found \in Seq(ServiceNames) /\ l \in Nat /\ m \in Nat
      /\ DOMAIN f = 1 .. l /\ DOMAIN found = 1 .. m
  BY <1>3, <1>6 DEF Found, IsPage
<1>8. /\ c \in Seq(ServiceNames) /\ Len(c) = l + m
      /\ \A i \in 1 .. l + m : c[i] = IF i <= l THEN f[i] ELSE found[i - l]
      /\ ToSet(c) = ToSet(f) \cup ToSet(found)
  BY <1>7, ConcatToSet
<1>9. failing' = c /\ DOMAIN c = 1 .. l + m
  BY <1>5, <1>7, <1>8
<1> HIDE DEF c, l, m
<1>10. /\ next \in Nat /\ resume \in Nat /\ resume <= next /\ next \in 0 .. created
       /\ \A n \in DOMAIN database : database[n].number \in Nat
  BY <1>3, <1>6, InstalledServices DEF IsPage
<1>11. \A n \in ToSet(found) : n \in DOMAIN database /\ n \in Failures(database)
                               /\ database[n].number > resume /\ database[n].number <= next
  BY <1>6, <1>10 DEF IsPage, Failures
<1>12. ASSUME NEW i \in 1 .. l + m, NEW j \in 1 .. l + m, i < j, c[i] = c[j] PROVE c[i] \in recreated
  <2>1. i \in Nat /\ j \in Nat
    BY <1>7
  <2>2. CASE j <= l
    <3>1. i \in DOMAIN f /\ j \in DOMAIN f /\ i # j /\ c[i] = f[i] /\ c[j] = f[j]
      BY <1>7, <1>8, <1>12, <2>1, <2>2
    <3>2. QED
      BY <1>3, <1>12, <3>1 DEF Found
  <2>3. CASE i <= l /\ ~(j <= l)
    <3>1. i \in DOMAIN f /\ j - l \in DOMAIN found /\ c[i] = f[i] /\ c[j] = found[j - l]
      BY <1>7, <1>8, <1>12, <2>1, <2>3
    <3>2. c[i] \in ToSet(f) /\ c[i] \in ToSet(found)
      BY <1>12, <3>1 DEF ToSet
    <3>3. c[i] \in DOMAIN database /\ ~(database[c[i]].number <= resume)
      BY <1>10, <1>11, <3>2
    <3>4. QED
      BY <1>3, <3>2, <3>3 DEF Found
  <2>4. CASE ~(i <= l)
    <3>1. i - l \in DOMAIN found /\ j - l \in DOMAIN found /\ c[i] = found[i - l] /\ c[j] = found[j - l]
      BY <1>7, <1>8, <1>12, <2>1, <2>4
    <3>2. i - l = j - l
      BY <1>6, <1>12, <3>1 DEF IsPage
    <3>3. QED
      BY <1>7, <1>12, <2>1, <3>2
  <2>5. QED
    BY <2>2, <2>3, <2>4
<1>13. \A i, j \in DOMAIN c : i # j /\ c[i] = c[j] => c[i] \in recreated
  <2> SUFFICES ASSUME NEW i \in DOMAIN c, NEW j \in DOMAIN c, i # j, c[i] = c[j] PROVE c[i] \in recreated
    OBVIOUS
  <2>1. i \in 1 .. l + m /\ j \in 1 .. l + m
    BY <1>9
  <2>2. i < j \/ j < i
    BY <1>7, <2>1
  <2>3. QED
    BY <1>12, <2>1, <2>2
<1>14. \A n \in DOMAIN database : n \in ToSet(c) => n \in recreated \/ database[n].number <= next
  <2> SUFFICES ASSUME NEW n \in DOMAIN database, n \in ToSet(c), n \notin recreated PROVE database[n].number <= next
    OBVIOUS
  <2>1. CASE n \in ToSet(found)
    BY <1>11, <2>1
  <2>2. CASE n \in ToSet(f)
    <3>1. database[n].number <= resume
      BY <1>3, <2>2 DEF Found
    <3>2. QED
      BY <1>10, <3>1
  <2>3. QED
    BY <1>8, <2>1, <2>2
<1>15. Found(database, next, c, recreated)
  BY <1>8, <1>13, <1>14 DEF Found
<1>16. ToSet(c) \subseteq wasFailing
  BY <1>3, <1>8, <1>11
<1>17. \A n \in stayed : database[n].number <= next => n \in ToSet(c)
  <2> SUFFICES ASSUME NEW n \in stayed, database[n].number <= next PROVE n \in ToSet(c)
    OBVIOUS
  <2>1. n \in DOMAIN database /\ n \in Failures(database)
    BY <1>3 DEF Failures
  <2>2. CASE database[n].number <= resume
    BY <1>3, <1>8, <2>2
  <2>3. CASE resume < database[n].number
    BY <1>6, <1>8, <2>1, <2>3 DEF IsPage
  <2>4. QED
    BY <1>10, <2>1, <2>2, <2>3
<1>18. asking' = "sort" => cutOff' \/ stayed \subseteq ToSet(c)
  <2>1. SUFFICES ASSUME asking' = "sort", ~cutOff' PROVE stayed \subseteq ToSet(c)
    OBVIOUS
  <2>2. returned = Len(Behind) \/ returned = 0
    BY <1>1, <2>1 DEF LastPage
  <2>3. returned = Len(Behind)
    BY <1>1, <2>1, <2>2
  <2>4. \A n \in stayed : database[n].number <= next
    BY <1>3, <1>6, <2>3 DEF Failures
  <2>5. QED
    BY <1>17, <2>4
<1>19. asking' \in {"sort", "probe"}
  BY <1>1
<1>20. Failures(database)' = Failures(database)
  BY <1>2 DEF Failures
<1>21. resume' = next /\ failing' = c
  BY <1>5, <1>9
<1>22. QED
  BY <1>2, <1>3, <1>10, <1>15, <1>16, <1>17, <1>18, <1>19, <1>20, <1>21 DEF ServiceInv

LEMMA SortServicesKeeps == ServiceInv /\ SortServices => ServiceInv'
<1> SUFFICES ASSUME ServiceInv, SortServices PROVE ServiceInv'
  OBVIOUS
<1> DEFINE sorted == Arranged(failing, DOMAIN failing, ByName)
           o == Sequenced(DOMAIN failing, ByName)
           n == Len(failing)
<1>1. /\ asking = "sort" /\ failing' = sorted /\ serviceStatus' = "complete" /\ asking' = "done"
      /\ UNCHANGED <<database, created, wasFailing, stayed, recreated, resume, cutOff>>
  BY DEF SortServices, databaseVars
<1>2. /\ created \in Nat /\ resume \in 0 .. created /\ Installed(database, created)
      /\ stayed \subseteq Failures(database) /\ Failures(database) \subseteq wasFailing
      /\ ToSet(failing) \subseteq wasFailing
      /\ Found(database, resume, failing, recreated)
      /\ cutOff \/ stayed \subseteq ToSet(failing)
  BY <1>1 DEF ServiceInv
<1>3. failing \in Seq(ServiceNames) /\ n \in Nat /\ DOMAIN failing = 1 .. n
  BY <1>2 DEF Found
<1>4. \A i \in 1 .. n : failing[i] \in Nat /\ failing[i] \in Int
  <2>1. \A i \in 1 .. n : failing[i] \in ServiceNames
    BY <1>3
  <2>2. ServiceNames \subseteq Nat
    BY ServiceAssumption
  <2> HIDE DEF n
  <2>3. \A i \in 1 .. n : failing[i] \in Nat
    BY <2>1, <2>2, Zenon
  <2>4. QED
    BY <2>3
<1>5. \A i, j \in 1 .. n : <<i, j>> \in ByName <=>
        failing[i] < failing[j] \/ (failing[i] = failing[j] /\ i < j)
  <2>1. ByName = {p \in (1 .. n) \X (1 .. n) :
                    \/ failing[p[1]] < failing[p[2]]
                    \/ failing[p[1]] = failing[p[2]] /\ p[1] < p[2]}
    BY <1>3, Zenon DEF ByName, Pairs
  <2> HIDE DEF n
  <2>2. SUFFICES ASSUME NEW i \in 1 .. n, NEW j \in 1 .. n
                 PROVE  <<i, j>> \in ByName <=>
                          failing[i] < failing[j] \/ (failing[i] = failing[j] /\ i < j)
    OBVIOUS
  <2>3. <<i, j>>[1] = i /\ <<i, j>>[2] = j /\ <<i, j>> \in (1 .. n) \X (1 .. n)
    OBVIOUS
  <2>4. QED
    BY <2>1, <2>3, Zenon
<1>6. IsOrder(ByName, DOMAIN failing)
  <2> HIDE DEF n
  <2>1. QED
    BY <1>3, <1>4, <1>5, StableOrder
<1>7. sorted \in Seq(ServiceNames) /\ SortsBy(sorted, failing, o, ByName)
  BY <1>3, <1>6, SortedIs
<1> HIDE DEF n, o, sorted
<1>8. /\ DOMAIN sorted = 1 .. n /\ ToSet(sorted) = ToSet(failing)
      /\ \A k \in 1 .. n : o[k] \in 1 .. n /\ sorted[k] = failing[o[k]]
      /\ \A j, k \in 1 .. n : j < k => <<o[j], o[k]>> \in ByName
      /\ \A j, k \in 1 .. n : o[j] = o[k] => j = k
  BY <1>3, <1>7 DEF SortsBy
<1>9. \A i, j \in 1 .. n : i < j => sorted[i] <= sorted[j]
  <2> SUFFICES ASSUME NEW i \in 1 .. n, NEW j \in 1 .. n, i < j PROVE sorted[i] <= sorted[j]
    OBVIOUS
  <2>1. o[i] \in 1 .. n /\ o[j] \in 1 .. n /\ sorted[i] = failing[o[i]] /\ sorted[j] = failing[o[j]]
    BY <1>8
  <2>2. failing[o[i]] < failing[o[j]] \/ failing[o[i]] = failing[o[j]]
    BY <1>5, <1>8, <2>1
  <2>3. QED
    BY <1>4, <2>1, <2>2
<1>10. \A i, j \in 1 .. n : i # j /\ sorted[i] = sorted[j] => sorted[i] \in recreated
  <2> SUFFICES ASSUME NEW i \in 1 .. n, NEW j \in 1 .. n, i # j, sorted[i] = sorted[j] PROVE sorted[i] \in recreated
    OBVIOUS
  <2>1. o[i] \in 1 .. n /\ o[j] \in 1 .. n /\ o[i] # o[j] /\ failing[o[i]] = failing[o[j]] /\ sorted[i] = failing[o[i]]
    BY <1>8
  <2>2. QED
    BY <1>2, <1>3, <2>1 DEF Found
<1>11. Found(database, resume, sorted, recreated)
  BY <1>2, <1>7, <1>8, <1>10 DEF Found
<1>12. Failures(database)' = Failures(database)
  BY <1>1 DEF Failures
<1>13. QED
  BY <1>1, <1>2, <1>8, <1>9, <1>11, <1>12 DEF ServiceInv

LEMMA NextServices == ServiceInv /\ [Next]_partVars => ServiceInv'
<1> SUFFICES ASSUME ServiceInv, [Next]_partVars PROVE ServiceInv'
  OBVIOUS
<1>1. CASE OpenManager
  <2>1. /\ asking = "open" /\ (asking' = "probe" \/ (asking' = "done" /\ serviceStatus' = "failed"))
        /\ UNCHANGED <<database, created, wasFailing, stayed, recreated, resume, failing, cutOff>>
    BY <1>1 DEF OpenManager, databaseVars
  <2>2. Failures(database)' = Failures(database)
    BY <2>1 DEF Failures
  <2>3. asking' = "done" => \A i, j \in DOMAIN failing : i < j => failing[i] <= failing[j]
    <3>1. failing = <<>>
      BY <2>1 DEF ServiceInv
    <3>2. QED
      BY <3>1
  <2>4. QED
    BY <2>1, <2>2, <2>3 DEF ServiceInv
<1>2. CASE UNCHANGED serviceVars
  <2>1. Failures(database)' = Failures(database)
    BY <1>2 DEF Failures, serviceVars
  <2>2. QED
    BY <1>2, <2>1 DEF ServiceInv, serviceVars
<1>3. QED
  BY <1>1, <1>2, ServiceSteps, ProbeSizeKeeps, FetchPageKeeps, SortServicesKeeps,
     ServiceMovesKeep, ServiceDeletedKeeps, ServiceCreatedKeeps

(* For any services, pages of any length and any number of changes of the  *)
(* database: what the answer holds was failing, it is sorted, only what    *)
(* was created anew is in it twice, and unless a call failed with services *)
(* left, nothing that failed throughout is missing (service_inspector.rs   *)
(* 46-97).                                                                 *)
THEOREM FailedServicesFound == Spec => []FailedServicesAreFound
<1>1. ServiceInv => FailedServicesAreFound
  <2> SUFFICES ASSUME ServiceInv, asking = "done" PROVE FailedServicesAreFound
    BY DEF FailedServicesAreFound
  <2>1. /\ failing \in Seq(ServiceNames)
        /\ \A i, j \in DOMAIN failing : i < j => failing[i] <= failing[j]
        /\ \A i, j \in DOMAIN failing : i # j /\ failing[i] = failing[j] => failing[i] \in recreated
    BY DEF ServiceInv, Found
  <2>2. ASSUME NEW i \in DOMAIN failing, NEW j \in DOMAIN failing, i < j
        PROVE  failing[i] <= failing[j] /\ (failing[i] = failing[j] => failing[i] \in recreated)
    <3>1. i # j
      BY <2>1, <2>2
    <3>2. QED
      BY <2>1, <2>2, <3>1
  <2>3. QED
    BY <2>2 DEF ServiceInv, FailedServicesAreFound
<1>2. QED
  BY <1>1, InitServices, NextServices, PTL DEF Spec

-----------------------------------------------------------------------------
(* Changes of the system.                                                  *)

LEMMA ChangeSteps ==
  [Next]_partVars => \/ CollectHotfixes \/ NextName \/ OpenKey \/ OpenEntry \/ SortChanges
                     \/ SoftwareMoves \/ UNCHANGED changeVars
BY DEF Next, Step, SystemMoves, Services, Devices, Changes, Archive, Rest, CollectChanges, partVars

Change == [name : (UNION {{Fact[e].name, Fact[e].file} : e \in Entries})
                    \cup {Hotfixes[i].name : i \in DOMAIN Hotfixes},
           date : Nat]

(* The change that an entry stands for, and that of a file that is gone.   *)
ChangeOf(e) == [name |-> Fact[e].name, date |-> Fact[e].date]
FileOf(e) == [name |-> Fact[e].file, date |-> Fact[e].date]

LEMMA ChangesAreTyped ==
  /\ \A c \in Change : c.date \in Nat
  /\ \A c, d \in Change : Same(c, d) <=> c = d
  /\ \A e \in Entries : /\ ChangeOf(e) \in Change /\ FileOf(e) \in Change
                        /\ ChangeOf(e).name = Fact[e].name /\ ChangeOf(e).date = Fact[e].date
                        /\ FileOf(e).name = Fact[e].file /\ FileOf(e).date = Fact[e].date
<1> DEFINE N == (UNION {{Fact[e].name, Fact[e].file} : e \in Entries})
                  \cup {Hotfixes[i].name : i \in DOMAIN Hotfixes}
<1>1. Change = [name : N, date : Nat]
  BY DEF Change
<1>2. ASSUME NEW e \in Entries
      PROVE  /\ ChangeOf(e) \in Change /\ FileOf(e) \in Change
             /\ ChangeOf(e).name = Fact[e].name /\ ChangeOf(e).date = Fact[e].date
             /\ FileOf(e).name = Fact[e].file /\ FileOf(e).date = Fact[e].date
  <2>1. Fact[e].name \in N /\ Fact[e].file \in N
    BY Zenon
  <2>2. Fact[e].date \in Nat
    BY ChangeAssumption
  <2> HIDE DEF N
  <2>3. QED
    BY <1>1, <2>1, <2>2 DEF ChangeOf, FileOf
<1> HIDE DEF N
<1>3. QED
  BY <1>1, <1>2 DEF Same

(* An element of a sequence is first of a run of equal ones.               *)
LEMMA RunStart ==
  ASSUME NEW A, NEW s \in Seq(A), NEW i \in DOMAIN s
  PROVE  \E r \in DOMAIN s : /\ r <= i /\ (r > 1 => s[r] # s[r - 1])
                             /\ \A l \in r .. i : s[l] = s[i]
<1> DEFINE n == Len(s)
           R == {r \in 1 .. n : r <= i /\ \A l \in r .. i : s[l] = s[i]}
<1>1. n \in Nat /\ DOMAIN s = 1 .. n /\ i \in 1 .. n
  OBVIOUS
<1> HIDE DEF n
<1>2. R \in SUBSET Nat /\ R # {}
  <2>1. i \in R
    BY <1>1
  <2>2. R \subseteq Nat
    BY <1>1
  <2> HIDE DEF R
  <2>3. QED
    BY <2>1, <2>2
<1> HIDE DEF R
<1>3. PICK r \in R : \A x \in R : r <= x
  BY <1>2, FirstIndex
<1>4. r \in 1 .. n /\ r <= i /\ \A l \in r .. i : s[l] = s[i]
  BY DEF R
<1>5. r > 1 => s[r] # s[r - 1]
  <2> SUFFICES ASSUME r > 1, s[r] = s[r - 1] PROVE FALSE
    OBVIOUS
  <2>1. r - 1 \in 1 .. n /\ r - 1 <= i /\ r \in r .. i
    BY <1>1, <1>4
  <2>2. \A l \in (r - 1) .. i : l = r - 1 \/ l \in r .. i
    BY <1>1, <1>4
  <2>3. \A l \in (r - 1) .. i : s[l] = s[i]
    BY <1>4, <2>1, <2>2
  <2>4. r - 1 \in R
    BY <2>1, <2>3 DEF R
  <2>5. QED
    BY <1>1, <1>3, <1>4, <2>4
<1>6. QED
  BY <1>1, <1>4, <1>5

Falling(cs) == \A i, j \in DOMAIN cs : i < j => cs[i].date >= cs[j].date

(* Of two equal changes the list has a third of their date between them.   *)
Parted(cs) == \A i, j \in DOMAIN cs : i < j /\ cs[i] = cs[j] =>
                \E k \in i .. j : cs[k].date = cs[i].date /\ cs[k] # cs[i]

LEMMA DedupedIs ==
  ASSUME NEW cs \in Seq(Change), Falling(cs)
  PROVE  /\ Deduped(cs) \in Seq(Change)
         /\ ToSet(Deduped(cs)) = ToSet(cs)
         /\ Falling(Deduped(cs)) /\ Parted(Deduped(cs))
<1> DEFINE n == Len(cs)
           I == {i \in DOMAIN cs : i > 1 => ~Same(cs[i], cs[i - 1])}
           o == Sequenced(I, Ascending(I))
           d == Deduped(cs)
           c == Cardinality(I)
<1>1. n \in Nat /\ DOMAIN cs = 1 .. n /\ \A i \in 1 .. n : cs[i] \in Change /\ cs[i].date \in Nat
  <2>1. n \in Nat /\ DOMAIN cs = 1 .. n /\ \A i \in 1 .. n : cs[i] \in Change
    OBVIOUS
  <2>2. QED
    BY <2>1, ChangesAreTyped
<1> HIDE DEF n
<1>2. \A i \in 1 .. n : i \in I <=> (i > 1 => cs[i] # cs[i - 1])
  <2> SUFFICES ASSUME NEW i \in 1 .. n PROVE i \in I <=> (i > 1 => cs[i] # cs[i - 1])
    OBVIOUS
  <2>1. i > 1 => i - 1 \in 1 .. n
    BY <1>1
  <2>2. i > 1 => (Same(cs[i], cs[i - 1]) <=> cs[i] = cs[i - 1])
    BY <1>1, <2>1, ChangesAreTyped
  <2>3. QED
    BY <1>1, <2>2
<1>3. I \in SUBSET DOMAIN cs /\ I \subseteq 1 .. n
  BY <1>1
<1>4. d = Filtered(cs, I)
  BY DEF Deduped
<1> HIDE DEF I
<1>5. c \in Nat /\ d \in Seq(Change) /\ IsFiltered(d, cs, I, o)
  BY <1>3, <1>4, FilteredIs
<1> HIDE DEF o, d
<1>6. /\ DOMAIN d = 1 .. c /\ ToSet(d) = {cs[i] : i \in I}
      /\ \A k \in 1 .. c : o[k] \in I /\ o[k] \in 1 .. n /\ d[k] = cs[o[k]]
      /\ \A j, k \in 1 .. c : j < k => o[j] < o[k]
      /\ \A i \in I : \E k \in 1 .. c : o[k] = i
  BY <1>3, <1>5 DEF IsFiltered
<1> HIDE DEF c
<1>7. ASSUME NEW i \in 1 .. n
      PROVE  \E r \in I : r <= i /\ r \in 1 .. n /\ \A l \in r .. i : cs[l] = cs[i]
  BY <1>1, <1>2, RunStart
<1>8. ToSet(d) = ToSet(cs)
  <2>1. ToSet(cs) = {cs[i] : i \in 1 .. n}
    BY <1>1 DEF ToSet
  <2>2. ASSUME NEW i \in 1 .. n PROVE \E r \in I : cs[r] = cs[i]
    <3>1. PICK r \in I : r <= i /\ r \in 1 .. n /\ \A l \in r .. i : cs[l] = cs[i]
      BY <1>7
    <3>2. r \in r .. i
      BY <1>1, <3>1
    <3>3. QED
      BY <3>1, <3>2
  <2>3. QED
    BY <1>3, <1>6, <2>1, <2>2
<1>9. Falling(d)
  <2> SUFFICES ASSUME NEW i \in DOMAIN d, NEW j \in DOMAIN d, i < j PROVE d[i].date >= d[j].date
    BY DEF Falling
  <2>1. i \in 1 .. c /\ j \in 1 .. c
    BY <1>6
  <2>2. o[i] \in DOMAIN cs /\ o[j] \in DOMAIN cs /\ o[i] < o[j] /\ d[i] = cs[o[i]] /\ d[j] = cs[o[j]]
    BY <1>1, <1>6, <2>1
  <2>3. QED
    BY <2>2 DEF Falling
<1>10. Parted(d)
  <2> SUFFICES ASSUME NEW i \in DOMAIN d, NEW j \in DOMAIN d, i < j, d[i] = d[j]
               PROVE  \E k \in i .. j : d[k].date = d[i].date /\ d[k] # d[i]
    BY DEF Parted
  <2>1. i \in 1 .. c /\ j \in 1 .. c
    BY <1>6
  <2> DEFINE x == o[i]
             y == o[j]
             z == y - 1
  <2>2. /\ x \in 1 .. n /\ y \in 1 .. n /\ x < y /\ y \in I
        /\ d[i] = cs[x] /\ d[j] = cs[y] /\ cs[x] = cs[y]
    BY <1>6, <2>1
  <2> HIDE DEF x, y
  <2>3. y > 1 /\ z \in 1 .. n /\ x <= z /\ z < y
    BY <1>1, <2>2
  <2>4. cs[y] # cs[z]
    BY <1>2, <2>2, <2>3
  <2>5. x # z
    BY <2>2, <2>4
  <2>6. x < z
    BY <1>1, <2>2, <2>3, <2>5
  <2> HIDE DEF z
  <2>7. cs[z].date = cs[x].date
    <3>1. cs[x].date >= cs[z].date /\ cs[z].date >= cs[y].date
      BY <1>1, <2>2, <2>3, <2>6 DEF Falling
    <3>2. cs[x].date \in Nat /\ cs[z].date \in Nat /\ cs[y].date = cs[x].date
      BY <1>1, <2>2, <2>3
    <3>3. QED
      BY <3>1, <3>2
  <2>8. PICK r \in I : r <= z /\ r \in 1 .. n /\ \A l \in r .. z : cs[l] = cs[z]
    BY <1>7, <2>3
  <2>9. x < r
    <3>1. ~(r <= x)
      <4>1. SUFFICES ASSUME r <= x PROVE FALSE
        OBVIOUS
      <4>2. x \in r .. z
        BY <1>1, <2>2, <2>3, <2>6, <2>8, <4>1
      <4>3. QED
        BY <2>2, <2>4, <2>8, <4>2
    <3>2. QED
      BY <1>1, <2>2, <2>8, <3>1
  <2>10. PICK k \in 1 .. c : o[k] = r
    BY <1>6
  <2>11. k \in i .. j
    <3>1. ~(k < i)
      BY <1>1, <1>6, <2>1, <2>2, <2>8, <2>9, <2>10 DEF x
    <3>2. ~(j < k)
      <4>1. r < y
        BY <1>1, <2>2, <2>3, <2>8
      <4>2. ~(y < r)
        BY <1>1, <2>2, <2>8, <4>1
      <4>3. j < k => y < r
        BY <1>6, <2>1, <2>10 DEF y
      <4>4. QED
        BY <4>2, <4>3
    <3>3. i \in Int /\ j \in Int /\ k \in Int
      BY <1>5, <2>1
    <3>4. QED
      BY <3>1, <3>2, <3>3
  <2>12. r \in r .. z
    BY <1>1, <2>3, <2>8
  <2>13. d[k] = cs[z]
    BY <1>6, <2>8, <2>10, <2>12
  <2>14. QED
    BY <2>2, <2>4, <2>7, <2>11, <2>13
<1>11. QED
  BY <1>5, <1>8, <1>9, <1>10 DEF d

LEMMA NewestFirstIs ==
  ASSUME NEW cs \in Seq(Change)
  PROVE  /\ NewestFirst(cs) \in Seq(Change)
         /\ ToSet(NewestFirst(cs)) = ToSet(cs)
         /\ Falling(NewestFirst(cs))
<1> DEFINE n == Len(cs)
           sorted == NewestFirst(cs)
           before == ByDate(cs)
           o == Sequenced(DOMAIN cs, before)
           rank == [i \in 1 .. n |-> 0 - cs[i].date]
<1>1. n \in Nat /\ DOMAIN cs = 1 .. n /\ \A i \in 1 .. n : cs[i].date \in Nat
  <2>1. n \in Nat /\ DOMAIN cs = 1 .. n /\ \A i \in 1 .. n : cs[i] \in Change
    OBVIOUS
  <2>2. QED
    BY <2>1, ChangesAreTyped
<1>2. before = {p \in (1 .. n) \X (1 .. n) :
                  \/ cs[p[1]].date > cs[p[2]].date
                  \/ cs[p[1]].date = cs[p[2]].date /\ p[1] < p[2]}
  BY <1>1, Zenon DEF ByDate, Pairs
<1> HIDE DEF n, before
<1>3. \A i, j \in 1 .. n : <<i, j>> \in before <=>
        cs[i].date > cs[j].date \/ (cs[i].date = cs[j].date /\ i < j)
  <2> SUFFICES ASSUME NEW i \in 1 .. n, NEW j \in 1 .. n
               PROVE  <<i, j>> \in before <=>
                        cs[i].date > cs[j].date \/ (cs[i].date = cs[j].date /\ i < j)
    OBVIOUS
  <2>1. <<i, j>>[1] = i /\ <<i, j>>[2] = j /\ <<i, j>> \in (1 .. n) \X (1 .. n)
    OBVIOUS
  <2>2. QED
    BY <1>2, <2>1, Zenon
<1>4. \A i \in 1 .. n : rank[i] = 0 - cs[i].date /\ rank[i] \in Int
  BY <1>1
<1> HIDE DEF rank
<1>5. \A i, j \in 1 .. n : <<i, j>> \in before <=> rank[i] < rank[j] \/ (rank[i] = rank[j] /\ i < j)
  <2> SUFFICES ASSUME NEW i \in 1 .. n, NEW j \in 1 .. n
               PROVE  <<i, j>> \in before <=> rank[i] < rank[j] \/ (rank[i] = rank[j] /\ i < j)
    OBVIOUS
  <2>1. cs[i].date \in Nat /\ cs[j].date \in Nat /\ rank[i] = 0 - cs[i].date /\ rank[j] = 0 - cs[j].date
    BY <1>1, <1>4
  <2>2. (rank[i] < rank[j] <=> cs[i].date > cs[j].date) /\ (rank[i] = rank[j] <=> cs[i].date = cs[j].date)
    BY <2>1
  <2>3. QED
    BY <1>3, <2>2
<1>6. IsOrder(before, DOMAIN cs)
  BY <1>1, <1>4, <1>5, StableOrder
<1>7. sorted = Arranged(cs, DOMAIN cs, before)
  BY DEF NewestFirst, before
<1>8. sorted \in Seq(Change) /\ SortsBy(sorted, cs, o, before)
  BY <1>6, <1>7, SortedIs
<1> HIDE DEF sorted, o
<1>9. /\ DOMAIN sorted = 1 .. n /\ ToSet(sorted) = ToSet(cs)
      /\ \A k \in 1 .. n : o[k] \in 1 .. n /\ sorted[k] = cs[o[k]]
      /\ \A j, k \in 1 .. n : j < k => <<o[j], o[k]>> \in before
  BY <1>1, <1>8 DEF SortsBy
<1>10. Falling(sorted)
  <2> SUFFICES ASSUME NEW i \in DOMAIN sorted, NEW j \in DOMAIN sorted, i < j
               PROVE  sorted[i].date >= sorted[j].date
    BY DEF Falling
  <2>1. i \in 1 .. n /\ j \in 1 .. n
    BY <1>9
  <2>2. o[i] \in 1 .. n /\ o[j] \in 1 .. n /\ <<o[i], o[j]>> \in before
        /\ sorted[i] = cs[o[i]] /\ sorted[j] = cs[o[j]]
    BY <1>9, <2>1
  <2>3. cs[o[i]].date > cs[o[j]].date \/ cs[o[i]].date = cs[o[j]].date
    BY <1>3, <2>2
  <2>4. QED
    BY <1>1, <2>2, <2>3
<1>11. QED
  BY <1>8, <1>9, <1>10 DEF sorted

(* What must be recorded of the i-th entry of a key once it is walked.     *)
Due(k, i) == /\ k \notin refused /\ Keys[k][i] \in remained
             /\ Counts(Keys[k][i]) /\ Steady(k, i)

(* The walk will still hand out the i-th entry of its key.                 *)
InReach(i) == IF key = Len(Keys) THEN place < i
              ELSE place <= Before(Keys[key], i) /\ Before(Keys[key], i) < counted

(* Of the keys read, what is due is recorded, handed out or in reach.      *)
Recorded ==
  \A k \in 1 .. key : \A i \in DOMAIN Keys[k] : Due(k, i) =>
    \/ ChangeOf(Keys[k][i]) \in ToSet(changes)
    \/ k = key /\ (Keys[k][i] \in opening \/ InReach(i))

Updates(C) ==
  \A i \in DOMAIN Hotfixes : InWindow(Day(Hotfixes[i].month, Hotfixes[i].day)) =>
    [name |-> Hotfixes[i].name, date |-> Day(Hotfixes[i].month, Hotfixes[i].day)] \in C

FromSystem(C, was, status) ==
  \A c \in C : \/ \E e \in was : Counts(e) /\ c \in {ChangeOf(e), FileOf(e)}
               \/ status = "complete" /\ InWindow(c.date)
                    /\ \E h \in DOMAIN Hotfixes : Hotfixes[h].name = c.name

ChangeInv ==
  /\ remained \subseteq exists /\ exists \subseteq existed /\ existed \subseteq Entries
  /\ key \in 0 .. Len(Keys) /\ counted \in Nat /\ place \in Nat
  /\ opening \subseteq existed /\ \A d, e \in opening : d = e
  /\ changes \in Seq(Change)
  /\ tracking \in {"hotfixes", "keys", "done"}
  /\ tracking = "hotfixes" => changes = <<>> /\ key = 0
  /\ Recorded
  /\ tracking # "hotfixes" /\ changeStatus = "complete" /\ ~dayFirst => Updates(ToSet(changes))
  /\ FromSystem(ToSet(changes), existed, changeStatus)
  /\ tracking = "done" => /\ key = Len(Keys) /\ opening = {} /\ Ahead = {}
                          /\ Falling(changes) /\ Parted(changes)

LEMMA InitChanges == Init => ChangeInv
<1> SUFFICES ASSUME ChangesInit PROVE ChangeInv
  BY DEF Init
<1>1. /\ exists = AtFirst /\ existed = AtFirst /\ remained = AtFirst /\ AtFirst \subseteq Entries
      /\ tracking = "hotfixes" /\ key = 0 /\ counted = 0 /\ place = 0 /\ opening = {} /\ changes = <<>>
  BY ChangeAssumption DEF ChangesInit
<1>2. ToSet(changes) = {}
  BY <1>1 DEF ToSet
<1>3. Len(Keys) \in Nat
  BY ChangeAssumption
<1>4. /\ key \in 0 .. Len(Keys) /\ counted \in Nat /\ place \in Nat /\ opening \subseteq existed
      /\ changes \in Seq(Change)
  BY <1>1, <1>3
<1>5. Recorded
  BY <1>1 DEF Recorded
<1>6. FromSystem(ToSet(changes), existed, changeStatus)
  BY <1>2 DEF FromSystem
<1>7. QED
  BY <1>1, <1>4, <1>5, <1>6 DEF ChangeInv

(* The dates of the update history.                                        *)
LEMMA InstallDates ==
  ASSUME NEW i \in DOMAIN Hotfixes
  PROVE  /\ InstalledOn(Hotfixes[i]) \in Nat
         /\ Day(Hotfixes[i].month, Hotfixes[i].day) \in Nat
         /\ ~dayFirst => InstalledOn(Hotfixes[i]) = Day(Hotfixes[i].month, Hotfixes[i].day)
<1>1. Hotfixes[i].month \in 1 .. 12 /\ Hotfixes[i].day \in 1 .. 31 /\ NoDate = 0
  BY ChangeAssumption
<1> DEFINE m == Hotfixes[i].month
           d == Hotfixes[i].day
<1>2. m \in Nat /\ d \in Nat /\ m >= 1 /\ d >= 1
  BY <1>1
<1> HIDE DEF m, d
<1>3. ASSUME NEW x \in Nat, NEW y \in Nat, x >= 1 PROVE Day(x, y) \in Nat
  BY <1>3 DEF Day
<1>4. Day(m, d) \in Nat /\ ParseDate(m, d) = Day(m, d)
  BY <1>1, <1>2, <1>3 DEF ParseDate, m, d
<1>5. ParseDate(d, m) \in Nat
  BY <1>1, <1>2, <1>3 DEF ParseDate
<1>6. InstalledOn(Hotfixes[i]) = IF dayFirst THEN ParseDate(d, m) ELSE ParseDate(m, d)
  BY DEF InstalledOn, m, d
<1>7. QED
  BY <1>4, <1>5, <1>6 DEF m, d

LEMMA CollectHotfixesKeeps == ChangeInv /\ CollectHotfixes => ChangeInv'
<1> SUFFICES ASSUME ChangeInv, CollectHotfixes PROVE ChangeInv'
  OBVIOUS
<1> DEFINE J == {i \in DOMAIN Hotfixes : InWindow(InstalledOn(Hotfixes[i]))}
           found == Filtered(Hotfixes, J)
           o == Sequenced(J, Ascending(J))
           c == Cardinality(J)
           made == [i \in DOMAIN found |-> [name |-> found[i].name, date |-> InstalledOn(found[i])]]
<1>1. /\ tracking = "hotfixes" /\ tracking' = "keys"
      /\ \/ changes' = made /\ changeStatus' = "complete"
         \/ changes' = changes /\ changeStatus' = "partial"
      /\ UNCHANGED <<dayFirst, exists, installs, existed, remained, shifted, key, counted, place, opening, refused>>
  BY DEF CollectHotfixes, systemVars, walkVars
<1>2. /\ changes = <<>> /\ key = 0 /\ key \in 0 .. Len(Keys)
      /\ counted \in Nat /\ place \in Nat /\ opening \subseteq existed
      /\ remained \subseteq exists /\ exists \subseteq existed /\ existed \subseteq Entries
      /\ changes \in Seq(Change)
  BY <1>1 DEF ChangeInv
<1>3. Recorded'
  BY <1>1, <1>2 DEF Recorded
<1>4. CASE changes' = changes /\ changeStatus' = "partial"
  <2>1. ToSet(changes') = {}
    BY <1>2, <1>4 DEF ToSet
  <2>2. FromSystem(ToSet(changes'), existed, changeStatus')
    BY <2>1 DEF FromSystem
  <2>3. QED
    BY <1>1, <1>2, <1>3, <1>4, <2>2 DEF ChangeInv
<1>5. CASE changes' = made /\ changeStatus' = "complete"
  <2>1. Hotfixes \in Seq(ToSet(Hotfixes)) /\ J \in SUBSET DOMAIN Hotfixes
    BY ChangeAssumption
  <2>2. \A i \in DOMAIN Hotfixes : i \in J <=> InWindow(InstalledOn(Hotfixes[i]))
    OBVIOUS
  <2> HIDE DEF J
  <2>3. c \in Nat /\ found \in Seq(ToSet(Hotfixes)) /\ IsFiltered(found, Hotfixes, J, o)
    BY <2>1, FilteredIs
  <2> HIDE DEF o, found
  <2>4. /\ DOMAIN found = 1 .. c
        /\ \A k \in 1 .. c : o[k] \in J /\ o[k] \in DOMAIN Hotfixes /\ found[k] = Hotfixes[o[k]]
        /\ \A i \in J : \E k \in 1 .. c : o[k] = i
    BY <2>1, <2>3 DEF IsFiltered
  <2> HIDE DEF c
  <2> DEFINE Stands(i) == [name |-> Hotfixes[i].name, date |-> InstalledOn(Hotfixes[i])]
  <2>5. DOMAIN made = 1 .. c /\ \A k \in 1 .. c : made[k] = Stands(o[k])
    BY <2>4
  <2>6. \A i \in DOMAIN Hotfixes : Stands(i) \in Change
    <3> DEFINE N == (UNION {{Fact[e].name, Fact[e].file} : e \in Entries})
                      \cup {Hotfixes[i].name : i \in DOMAIN Hotfixes}
    <3>1. Change = [name : N, date : Nat]
      BY DEF Change
    <3>2. SUFFICES ASSUME NEW i \in DOMAIN Hotfixes PROVE Stands(i) \in Change
      OBVIOUS
    <3>3. Hotfixes[i].name \in N
      BY Zenon
    <3>4. InstalledOn(Hotfixes[i]) \in Nat
      BY <3>2, InstallDates
    <3> HIDE DEF N
    <3>5. QED
      BY <3>1, <3>3, <3>4
  <2>7. made = [k \in 1 .. c |-> made[k]]
    BY <2>4
  <2> HIDE DEF made
  <2>8. made \in Seq(Change)
    <3>1. \A k \in 1 .. c : made[k] \in Change
      BY <2>4, <2>5, <2>6
    <3>2. QED
      BY <2>3, <2>7, <3>1
  <2>9. ASSUME NEW x \in ToSet(made)
        PROVE  InWindow(x.date) /\ \E h \in DOMAIN Hotfixes : Hotfixes[h].name = x.name
    <3>1. PICK k \in 1 .. c : x = Stands(o[k])
      BY <2>5 DEF ToSet
    <3>2. x.date = InstalledOn(Hotfixes[o[k]]) /\ x.name = Hotfixes[o[k]].name
      BY <3>1
    <3>3. QED
      BY <2>2, <2>4, <3>2
  <2>10. FromSystem(ToSet(made), existed, "complete")
    BY <2>9 DEF FromSystem
  <2>11. ~dayFirst => Updates(ToSet(made))
    <3>1. SUFFICES ASSUME ~dayFirst, NEW i \in DOMAIN Hotfixes,
                          InWindow(Day(Hotfixes[i].month, Hotfixes[i].day))
                   PROVE  [name |-> Hotfixes[i].name, date |-> Day(Hotfixes[i].month, Hotfixes[i].day)] \in ToSet(made)
      BY DEF Updates
    <3>2. InstalledOn(Hotfixes[i]) = Day(Hotfixes[i].month, Hotfixes[i].day)
      BY <3>1, InstallDates
    <3>3. i \in J
      BY <2>2, <3>1, <3>2
    <3>4. PICK k \in 1 .. c : o[k] = i
      BY <2>4, <3>3
    <3>5. made[k] = Stands(i) /\ k \in DOMAIN made
      BY <2>5, <3>4
    <3>6. made[k] \in ToSet(made)
      BY <3>5 DEF ToSet
    <3>7. QED
      BY <3>2, <3>5, <3>6
  <2>12. QED
    BY <1>1, <1>2, <1>3, <1>5, <2>8, <2>10, <2>11 DEF ChangeInv
<1>6. QED
  BY <1>1, <1>4, <1>5

(* Counting an initial part: it grows by an element that counts.           *)
LEMMA CountIs ==
  ASSUME NEW E, NEW s, NEW i \in Nat
  PROVE  /\ Cardinality({j \in 1 .. i - 1 : s[j] \in E}) \in Nat
         /\ \A m \in 1 .. i - 1 : s[m] \in E =>
              Cardinality({j \in 1 .. m - 1 : s[j] \in E}) < Cardinality({j \in 1 .. i - 1 : s[j] \in E})
<1> DEFINE Upto(m) == {j \in 1 .. m - 1 : s[j] \in E}
<1>1. IsFiniteSet(1 .. i - 1)
  <2>1. 1 \in Int /\ i - 1 \in Int
    OBVIOUS
  <2>2. QED
    BY <2>1, FS_Interval
<1>2. IsFiniteSet(Upto(i)) /\ Cardinality(Upto(i)) \in Nat
  <2>1. Upto(i) \in SUBSET (1 .. i - 1)
    OBVIOUS
  <2> HIDE DEF Upto
  <2>2. IsFiniteSet(Upto(i))
    BY <1>1, <2>1, FS_Subset
  <2>3. QED
    BY <2>2, FS_CardinalityType
<1>3. ASSUME NEW m \in 1 .. i - 1, s[m] \in E
      PROVE  Cardinality(Upto(m)) < Cardinality(Upto(i))
  <2>1. Upto(m) \in SUBSET Upto(i) /\ m \in Upto(i) /\ m \notin Upto(m)
    BY <1>3
  <2> HIDE DEF Upto
  <2>2. IsFiniteSet(Upto(m)) /\ Cardinality(Upto(m)) <= Cardinality(Upto(i))
        /\ (Cardinality(Upto(m)) = Cardinality(Upto(i)) => Upto(m) = Upto(i))
    BY <1>2, <2>1, FS_Subset
  <2>3. Cardinality(Upto(m)) \in Nat
    BY <2>2, FS_CardinalityType
  <2>4. QED
    BY <1>2, <2>1, <2>2, <2>3
<1>4. QED
  BY <1>2, <1>3

(* What the walk has in reach it has not passed.                           *)
LEMMA ReachIs ==
  ASSUME ChangeInv, key \in 1 .. Len(Keys), NEW i \in DOMAIN Keys[key], Due(key, i), InReach(i)
  PROVE  i \in Ahead /\ Walked = Keys[key]
<1>1. Keys \in Seq(Seq(Entries)) /\ key \in DOMAIN Keys
  BY ChangeAssumption
<1>2. key \notin refused /\ Keys[key][i] \in exists
  BY DEF ChangeInv, Due
<1>3. Walked = Keys[key]
  BY <1>1, <1>2 DEF Walked
<1>4. key # Len(Keys) => place < counted
  <2>1. SUFFICES ASSUME key # Len(Keys) PROVE place < counted
    OBVIOUS
  <2> DEFINE b == Before(Keys[key], i)
  <2>2. place <= b /\ b < counted
    BY <2>1 DEF InReach
  <2>3. b \in Nat
    <3>1. Keys[key] \in Seq(Entries)
      BY <1>1
    <3>2. i \in Nat
      BY <3>1
    <3>3. QED
      BY <3>2, CountIs DEF Before
  <2> HIDE DEF b
  <2>4. QED
    BY <2>2, <2>3 DEF ChangeInv
<1>5. QED
  BY <1>2, <1>3, <1>4 DEF Ahead, InReach

LEMMA NextNameKeeps == ChangeInv /\ NextName => ChangeInv'
<1> SUFFICES ASSUME ChangeInv, NextName PROVE ChangeInv'
  OBVIOUS
<1>1. PICK m \in Ahead : /\ \A j \in Ahead : m <= j
                         /\ opening' = {Walked[m]}
                         /\ place' = IF key = Len(Keys) THEN m ELSE place + 1
  BY DEF NextName
<1>2. /\ tracking = "keys" /\ opening = {}
      /\ UNCHANGED <<dayFirst, exists, existed, remained, shifted, tracking, key, counted, changes, changeStatus, refused>>
  BY DEF NextName, systemVars
<1>3. Keys \in Seq(Seq(Entries)) /\ Len(Keys) \in Nat /\ DOMAIN Keys = 1 .. Len(Keys)
  BY ChangeAssumption
<1>4. key \in 1 .. Len(Keys) /\ key \notin refused /\ Walked = Keys[key] /\ Keys[key] \in Seq(Entries)
  <2>1. m \in DOMAIN Walked
    BY DEF Ahead
  <2>2. key \in DOMAIN Keys \ refused
    BY <2>1 DEF Walked
  <2>3. QED
    BY <1>3, <2>2 DEF Walked
<1>5. /\ m \in DOMAIN Keys[key] /\ m \in Nat /\ Keys[key][m] \in Entries /\ Keys[key][m] \in exists
      /\ key # Len(Keys) => place <= Before(Keys[key], m)
  BY <1>4 DEF Ahead
<1>6. /\ place \in Nat /\ place' \in Nat /\ opening' \subseteq existed
      /\ \A d, e \in opening' : d = e
  BY <1>1, <1>4, <1>5 DEF ChangeInv
<1>7. Recorded'
  <2> SUFFICES ASSUME NEW k \in 1 .. key, NEW i \in DOMAIN Keys[k], Due(k, i)
               PROVE  \/ ChangeOf(Keys[k][i]) \in ToSet(changes)
                      \/ k = key /\ (Keys[k][i] \in opening' \/ InReach(i)')
    BY <1>2 DEF Recorded, Due, Steady
  <2>1. ChangeOf(Keys[k][i]) \in ToSet(changes) \/ (k = key /\ InReach(i))
    BY <1>2 DEF ChangeInv, Recorded
  <2>2. CASE k = key /\ InReach(i)
    <3>1. i \in Ahead /\ m <= i /\ i \in Nat
      <4>1. i \in Ahead
        BY <1>4, <2>2, ReachIs
      <4>2. QED
        BY <1>1, <1>4, <2>2, <4>1
    <3>2. CASE i = m
      BY <1>1, <1>4, <2>2, <3>2
    <3>3. CASE i # m /\ key = Len(Keys)
      <4>1. m < i
        BY <1>5, <3>1, <3>3
      <4>2. QED
        BY <1>1, <1>2, <2>2, <3>3, <4>1 DEF InReach
    <3>4. CASE i # m /\ key # Len(Keys)
      <4> DEFINE b == Before(Keys[key], i)
                 c == Before(Keys[key], m)
      <4>1. m \in 1 .. i - 1
        BY <1>4, <1>5, <3>1, <3>4
      <4>2. b \in Nat /\ c \in Nat /\ c < b
        BY <1>5, <3>1, <4>1, CountIs DEF Before
      <4>3. place <= c /\ b < counted
        BY <1>5, <2>2, <3>4 DEF InReach
      <4>4. b' = b
        BY <1>2 DEF Before
      <4> HIDE DEF b, c
      <4>5. place' <= b'
        BY <1>1, <1>6, <3>4, <4>2, <4>3, <4>4
      <4>6. QED
        BY <1>2, <2>2, <3>4, <4>3, <4>4, <4>5 DEF InReach, b
    <3>5. QED
      BY <3>2, <3>3, <3>4
  <2>3. QED
    BY <2>1, <2>2
<1>8. QED
  BY <1>2, <1>6, <1>7 DEF ChangeInv

LEMMA OpenKeyKeeps == ChangeInv /\ OpenKey => ChangeInv'
<1> SUFFICES ASSUME ChangeInv, OpenKey PROVE ChangeInv'
  OBVIOUS
<1> DEFINE next == key + 1
           K == Keys[next]
           n == Len(K)
<1>1. /\ tracking = "keys" /\ opening = {} /\ Ahead = {} /\ key < Len(Keys) /\ key' = next /\ place' = 0
      /\ counted' = Before(K, n + 1)
      /\ refused' = refused \/ refused' = refused \cup {next}
      /\ UNCHANGED <<dayFirst, exists, existed, remained, shifted, tracking, opening, changes, changeStatus>>
  BY DEF OpenKey, systemVars
<1>2. Keys \in Seq(Seq(Entries)) /\ Len(Keys) \in Nat /\ DOMAIN Keys = 1 .. Len(Keys)
  BY ChangeAssumption
<1>3. key \in Nat /\ next \in 1 .. Len(Keys) /\ next \in 0 .. Len(Keys)
  BY <1>1, <1>2 DEF ChangeInv
<1>4. K \in Seq(Entries) /\ n \in Nat /\ DOMAIN K = 1 .. n
  BY <1>2, <1>3
<1>5. counted' \in Nat
  <2>1. n + 1 \in Nat
    BY <1>4
  <2>2. QED
    BY <1>1, <2>1, CountIs DEF Before
<1>6. refused \subseteq refused'
  BY <1>1
<1>7. Recorded'
  <2> SUFFICES ASSUME NEW k \in 1 .. next, NEW i \in DOMAIN Keys[k], Due(k, i)'
               PROVE  \/ ChangeOf(Keys[k][i]) \in ToSet(changes)
                      \/ k = next /\ InReach(i)'
    BY <1>1 DEF Recorded
  <2>1. Due(k, i) /\ Keys[k][i] \in exists
    BY <1>1, <1>6 DEF Due, Steady, ChangeInv
  <2>2. CASE k = next
    <3>1. i \in 1 .. n /\ i \in Nat /\ n + 1 \in Nat
      BY <1>4, <2>2
    <3>2. CASE next = Len(Keys)
      BY <1>1, <2>2, <3>1, <3>2 DEF InReach
    <3>3. CASE next # Len(Keys)
      <4> DEFINE b == Before(Keys[k], i)
      <4>1. b \in Nat
        BY <3>1, CountIs DEF Before
      <4>2. b < counted'
        <5>1. i \in 1 .. (n + 1) - 1 /\ Keys[k][i] \in exists
          BY <1>4, <2>1, <2>2, <3>1
        <5>2. QED
          BY <1>1, <2>2, <3>1, <5>1, CountIs DEF Before
      <4>3. b' = b
        BY <1>1 DEF Before
      <4>4. 0 <= b
        BY <4>1
      <4>5. key' = k /\ place' = 0 /\ k # Len(Keys)
        BY <1>1, <2>2, <3>3
      <4>6. InReach(i)' <=> place' <= b' /\ b' < counted'
        BY <4>5 DEF InReach
      <4> HIDE DEF b
      <4>7. InReach(i)'
        BY <4>2, <4>3, <4>4, <4>5, <4>6
      <4>8. QED
        BY <2>2, <4>7
    <3>4. QED
      BY <3>2, <3>3
  <2>3. CASE k # next
    <3>1. k \in 1 .. key
      BY <1>3, <2>3
    <3>2. \/ ChangeOf(Keys[k][i]) \in ToSet(changes)
          \/ k = key /\ InReach(i)
      BY <1>1, <2>1, <3>1 DEF ChangeInv, Recorded
    <3>3. ~(k = key /\ InReach(i))
      <4>1. SUFFICES ASSUME k = key, InReach(i) PROVE FALSE
        OBVIOUS
      <4>2. key \in 1 .. Len(Keys)
        BY <1>2, <1>3, <3>1, <4>1
      <4>3. i \in Ahead
        BY <2>1, <4>1, <4>2, ReachIs
      <4>4. QED
        BY <1>1, <4>3
    <3>4. QED
      BY <3>2, <3>3
  <2>4. QED
    BY <2>2, <2>3
<1> HIDE DEF next, K, n
<1>8. QED
  BY <1>1, <1>3, <1>5, <1>7 DEF ChangeInv

LEMMA OpenEntryKeeps == ChangeInv /\ OpenEntry => ChangeInv'
<1> SUFFICES ASSUME ChangeInv, OpenEntry PROVE ChangeInv'
  OBVIOUS
<1>1. PICK e \in opening :
        changes' = IF Counts(e) /\ (e \in exists \/ key = Len(Keys))
                   THEN Append(changes, [name |-> IF e \in exists THEN Fact[e].name ELSE Fact[e].file,
                                         date |-> Fact[e].date])
                   ELSE changes
  BY DEF OpenEntry
<1>2. /\ tracking = "keys" /\ opening' = {}
      /\ UNCHANGED <<dayFirst, exists, existed, remained, shifted, tracking, key, counted, place, changeStatus, refused>>
  BY DEF OpenEntry, systemVars
<1>3. /\ changes \in Seq(Change) /\ e \in Entries /\ e \in existed /\ \A d \in opening : d = e
      /\ remained \subseteq exists /\ exists \subseteq existed /\ existed \subseteq Entries
      /\ Recorded /\ FromSystem(ToSet(changes), existed, changeStatus)
      /\ changeStatus = "complete" /\ ~dayFirst => Updates(ToSet(changes))
      /\ key \in 0 .. Len(Keys) /\ counted \in Nat /\ place \in Nat
  BY <1>1, <1>2 DEF ChangeInv
<1>4. /\ changes' \in Seq(Change) /\ ToSet(changes) \subseteq ToSet(changes')
      /\ \A c \in ToSet(changes') : c \in ToSet(changes) \/ (Counts(e) /\ c \in {ChangeOf(e), FileOf(e)})
      /\ e \in exists /\ Counts(e) => ChangeOf(e) \in ToSet(changes')
  <2>1. ASSUME NEW x \in Change, changes' = Append(changes, x)
        PROVE  changes' \in Seq(Change) /\ ToSet(changes') = ToSet(changes) \cup {x}
    <3> DEFINE n == Len(changes)
               after == changes'
    <3>1. /\ after \in Seq(Change) /\ n \in Nat /\ DOMAIN changes = 1 .. n
          /\ DOMAIN after = 1 .. n + 1 /\ after[n + 1] = x
          /\ \A i \in 1 .. n : after[i] = changes[i]
      BY <1>3, <2>1
    <3> HIDE DEF n, after
    <3>2. \A i \in 1 .. n + 1 : i \in 1 .. n \/ i = n + 1
      BY <3>1
    <3>3. n + 1 \in 1 .. n + 1 /\ \A i \in 1 .. n : i \in 1 .. n + 1
      BY <3>1
    <3>4. ToSet(after) = ToSet(changes) \cup {x}
      BY <3>1, <3>2, <3>3 DEF ToSet
    <3>5. QED
      BY <3>1, <3>4 DEF after
  <2>2. ChangeOf(e) \in Change /\ FileOf(e) \in Change
    BY <1>3, ChangesAreTyped
  <2>3. CASE Counts(e) /\ e \in exists
    <3>1. changes' = Append(changes, ChangeOf(e))
      BY <1>1, <2>3 DEF ChangeOf
    <3>2. QED
      BY <2>1, <2>2, <2>3, <3>1
  <2>4. CASE Counts(e) /\ e \notin exists /\ key = Len(Keys)
    <3>1. changes' = Append(changes, FileOf(e))
      BY <1>1, <2>4 DEF FileOf
    <3>2. QED
      BY <2>1, <2>2, <2>4, <3>1
  <2>5. CASE ~Counts(e) \/ (e \notin exists /\ key # Len(Keys))
    BY <1>1, <1>3, <2>5
  <2>6. QED
    BY <2>3, <2>4, <2>5
<1>5. Recorded'
  <2> SUFFICES ASSUME NEW k \in 1 .. key, NEW i \in DOMAIN Keys[k], Due(k, i)
               PROVE  ChangeOf(Keys[k][i]) \in ToSet(changes') \/ (k = key /\ InReach(i))
    BY <1>2 DEF Recorded, Due, Steady, InReach, Before
  <2>1. \/ ChangeOf(Keys[k][i]) \in ToSet(changes)
        \/ k = key /\ (Keys[k][i] \in opening \/ InReach(i))
    BY <1>3 DEF Recorded
  <2>2. Keys[k][i] \in exists /\ Counts(Keys[k][i])
    BY <1>3 DEF Due
  <2>3. QED
    BY <1>3, <1>4, <2>1, <2>2
<1>6. FromSystem(ToSet(changes'), existed, changeStatus)
  BY <1>3, <1>4 DEF FromSystem
<1>7. Updates(ToSet(changes)) => Updates(ToSet(changes'))
  BY <1>4 DEF Updates
<1>8. changes' \in Seq(Change)
  BY <1>4
<1>9. QED
  BY <1>2, <1>3, <1>5, <1>6, <1>7, <1>8 DEF ChangeInv

LEMMA SortChangesKeeps == ChangeInv /\ SortChanges => ChangeInv'
<1> SUFFICES ASSUME ChangeInv, SortChanges PROVE ChangeInv'
  OBVIOUS
<1>1. /\ tracking = "keys" /\ opening = {} /\ Ahead = {} /\ key = Len(Keys) /\ tracking' = "done"
      /\ changes' = Deduped(NewestFirst(changes))
      /\ UNCHANGED <<dayFirst, exists, existed, remained, shifted, key, counted, place, opening, changeStatus, refused>>
  BY DEF SortChanges, systemVars, walkVars
<1>2. changes \in Seq(Change)
  BY DEF ChangeInv
<1>3. /\ NewestFirst(changes) \in Seq(Change) /\ ToSet(NewestFirst(changes)) = ToSet(changes)
      /\ Falling(NewestFirst(changes))
  BY <1>2, NewestFirstIs
<1>4. /\ changes' \in Seq(Change) /\ ToSet(changes') = ToSet(changes)
      /\ Falling(changes') /\ Parted(changes')
  BY <1>1, <1>3, DedupedIs
<1>5. Recorded'
  <2>1. Recorded
    BY DEF ChangeInv
  <2>2. QED
    BY <1>1, <1>4, <2>1 DEF Recorded, Due, Steady, InReach, Before
<1>6. Ahead' = {}
  BY <1>1 DEF Ahead, Walked, Before
<1>7. /\ remained' \subseteq exists' /\ exists' \subseteq existed' /\ existed' \subseteq Entries
      /\ key' \in 0 .. Len(Keys) /\ counted' \in Nat /\ place' \in Nat /\ opening' \subseteq Entries
      /\ changeStatus' = "complete" /\ ~dayFirst' => Updates(ToSet(changes'))
      /\ FromSystem(ToSet(changes'), existed', changeStatus')
  BY <1>1, <1>4 DEF ChangeInv
<1>8. QED
  BY <1>1, <1>4, <1>5, <1>6, <1>7 DEF ChangeInv

LEMMA SoftwareMovesKeep == ChangeInv /\ SoftwareMoves => ChangeInv'
<1> SUFFICES ASSUME ChangeInv, SoftwareMoves PROVE ChangeInv'
  OBVIOUS
<1>1. PICK e \in Entries :
        /\ shifted' = shifted \cup ({e} \cap ToSet(Walked))
        /\ \/ /\ e \in exists /\ exists' = exists \ {e}
              /\ remained' = remained \ {e} /\ existed' = existed
           \/ /\ e \notin exists /\ exists' = exists \cup {e}
              /\ existed' = existed \cup {e} /\ remained' = remained
  BY DEF SoftwareMoves
<1>2. tracking # "done"
      /\ UNCHANGED <<dayFirst, tracking, key, counted, place, opening, changes, changeStatus, refused>>
  BY DEF SoftwareMoves, walkVars
<1>3. /\ remained' \subseteq exists' /\ exists' \subseteq existed' /\ existed' \subseteq Entries
      /\ remained' \subseteq remained /\ existed \subseteq existed' /\ shifted \subseteq shifted'
  BY <1>1 DEF ChangeInv
<1>4. Recorded'
  <2> SUFFICES ASSUME NEW k \in 1 .. key, NEW i \in DOMAIN Keys[k], Due(k, i)'
               PROVE  \/ ChangeOf(Keys[k][i]) \in ToSet(changes)
                      \/ k = key /\ (Keys[k][i] \in opening \/ InReach(i)')
    BY <1>2 DEF Recorded
  <2>1. Due(k, i)
    BY <1>2, <1>3 DEF Due, Steady
  <2>2. \/ ChangeOf(Keys[k][i]) \in ToSet(changes)
        \/ k = key /\ (Keys[k][i] \in opening \/ InReach(i))
    BY <2>1 DEF ChangeInv, Recorded
  <2>3. ASSUME k = key, InReach(i) PROVE InReach(i)'
    <3>1. CASE key = Len(Keys)
      BY <1>2, <2>3, <3>1 DEF InReach
    <3>2. CASE key # Len(Keys)
      <4>1. Keys \in Seq(Seq(Entries)) /\ Len(Keys) \in Nat /\ key \in DOMAIN Keys
        BY <2>3, ChangeAssumption DEF ChangeInv
      <4>2. Walked = Keys[key] /\ key \notin refused /\ Keys[key] \in Seq(Entries)
        BY <2>1, <2>3, <4>1 DEF Walked, Due
      <4>3. \A j \in 1 .. i - 1 : Keys[key][j] # e
        <5>1. SUFFICES ASSUME NEW j \in 1 .. i - 1, Keys[key][j] = e PROVE FALSE
          OBVIOUS
        <5>2. j \in DOMAIN Keys[key]
          BY <2>3, <4>2
        <5>3. e \in ToSet(Walked)
          BY <4>2, <5>1, <5>2 DEF ToSet
        <5>4. e \in shifted'
          BY <1>1, <5>3
        <5>5. Keys[key][j] \notin shifted'
          BY <1>2, <2>3, <3>2 DEF Due, Steady
        <5>6. QED
          BY <5>1, <5>4, <5>5
      <4>4. \A j \in 1 .. i - 1 : Keys[key][j] \in exists' <=> Keys[key][j] \in exists
        BY <1>1, <4>3
      <4>5. {j \in 1 .. i - 1 : Keys[key][j] \in exists'} = {j \in 1 .. i - 1 : Keys[key][j] \in exists}
        BY <4>4
      <4>6. Before(Keys[key], i)' = Before(Keys[key], i)
        BY <1>2, <4>5 DEF Before
      <4>7. QED
        BY <1>2, <2>3, <3>2, <4>6 DEF InReach
    <3>3. QED
      BY <3>1, <3>2
  <2>4. QED
    BY <2>2, <2>3
<1>5. FromSystem(ToSet(changes), existed', changeStatus)
  BY <1>3 DEF ChangeInv, FromSystem
<1>6. opening' \subseteq existed'
  BY <1>2, <1>3 DEF ChangeInv
<1>7. QED
  BY <1>2, <1>3, <1>4, <1>5, <1>6 DEF ChangeInv

LEMMA NextChanges == ChangeInv /\ [Next]_partVars => ChangeInv'
<1> SUFFICES ASSUME ChangeInv, [Next]_partVars PROVE ChangeInv'
  OBVIOUS
<1>1. CASE UNCHANGED changeVars
  BY <1>1 DEF ChangeInv, changeVars, systemVars, walkVars, Recorded, Due, Steady, InReach, Before, Ahead, Walked
<1>2. QED
  BY <1>1, ChangeSteps, CollectHotfixesKeeps, NextNameKeeps, OpenKeyKeeps, OpenEntryKeeps, SortChangesKeeps,
     SoftwareMovesKeep

(* For any keys, entries and updates: what was there throughout is listed  *)
(* unless its key could not be opened or something listed before it came   *)
(* or went during the walk, newest first, nothing is invented, and of two  *)
(* equal changes there is one of the same date between them                *)
(* (change_tracker.rs 48-110).                                             *)
THEOREM ChangesListed == Spec => []ChangesAreListed
<1>1. ChangeInv => ChangesAreListed
  <2> SUFFICES ASSUME ChangeInv, tracking = "done" PROVE ChangesAreListed
    BY DEF ChangesAreListed
  <2>1. /\ changes \in Seq(Change) /\ Falling(changes) /\ Parted(changes) /\ key = Len(Keys) /\ opening = {} /\ Ahead = {}
        /\ remained \subseteq exists /\ exists \subseteq existed /\ existed \subseteq Entries
        /\ Recorded
        /\ changeStatus = "complete" /\ ~dayFirst => Updates(ToSet(changes))
        /\ FromSystem(ToSet(changes), existed, changeStatus)
    BY DEF ChangeInv
  <2>2. \A name, date : [name |-> name, date |-> date] \in ToSet(changes) => Holds(name, date)
    BY DEF ToSet, Holds
  <2>3. \A i, j \in DOMAIN changes : i < j =>
          /\ changes[i].date >= changes[j].date
          /\ changes[i] = changes[j] =>
               \E k \in i .. j : changes[k].date = changes[i].date /\ changes[k] # changes[i]
    BY <2>1 DEF Falling, Parted
  <2>4. \A k \in DOMAIN Keys \ refused : \A i \in DOMAIN Keys[k] :
          LET e == Keys[k][i] IN
            e \in remained /\ Counts(e) /\ Steady(k, i) => Holds(Fact[e].name, Fact[e].date)
    <3>1. SUFFICES ASSUME NEW k \in DOMAIN Keys \ refused, NEW i \in DOMAIN Keys[k],
                          Keys[k][i] \in remained, Counts(Keys[k][i]), Steady(k, i)
                   PROVE  Holds(Fact[Keys[k][i]].name, Fact[Keys[k][i]].date)
      OBVIOUS
    <3>2. k \in 1 .. key /\ Due(k, i)
      BY <2>1, <3>1, ChangeAssumption DEF Due
    <3>3. ~(k = key /\ InReach(i))
      BY <2>1, <3>1 DEF InReach, Ahead, Walked
    <3>4. ChangeOf(Keys[k][i]) \in ToSet(changes)
      BY <2>1, <3>2, <3>3 DEF Recorded
    <3>5. QED
      BY <2>2, <3>4 DEF ChangeOf
  <2>5. changeStatus = "complete" /\ ~dayFirst =>
          \A i \in DOMAIN Hotfixes :
            LET h == Hotfixes[i] IN InWindow(Day(h.month, h.day)) => Holds(h.name, Day(h.month, h.day))
    BY <2>1, <2>2 DEF Updates
  <2>6. \A i \in DOMAIN changes :
          \/ \E e \in existed : /\ Counts(e) /\ changes[i].name \in {Fact[e].name, Fact[e].file}
                               /\ changes[i].date = Fact[e].date
          \/ changeStatus = "complete" /\ InWindow(changes[i].date)
               /\ \E h \in DOMAIN Hotfixes : Hotfixes[h].name = changes[i].name
    <3>1. \A i \in DOMAIN changes : changes[i] \in ToSet(changes)
      BY DEF ToSet
    <3>2. QED
      BY <2>1, <3>1 DEF FromSystem, ChangeOf, FileOf
  <2>7. QED
    BY <2>3, <2>4, <2>5, <2>6 DEF ChangesAreListed
<1>2. QED
  BY <1>1, InitChanges, NextChanges, PTL DEF Spec

-----------------------------------------------------------------------------
(* The evidence bundle.                                                    *)

LEMMA BundleSteps ==
  [Next]_partVars => \/ CreateArchive \/ AddText \/ CheckDump \/ AddDump \/ FinishArchive
                     \/ DumpDeleted \/ UNCHANGED bundleVars
BY DEF Next, Step, SystemMoves, Services, Devices, Changes, Archive, Rest, BuildBundle, partVars

(* A text has words in one of three writings, and a word has one writing.  *)
LEMMA WordsDiffer ==
  \A v, w, f, g : Word(v, f) = Word(w, g) => v = w /\ f = g
<1> SUFFICES ASSUME NEW v, NEW w, NEW f, NEW g, Word(v, f) = Word(w, g) PROVE v = w /\ f = g
  OBVIOUS
<1>1. Word(v, f).word = v /\ Word(v, f).form = f /\ Word(w, g).word = w /\ Word(w, g).form = g
  BY DEF Word
<1>2. QED
  BY <1>1

LEMMA RenderingsAreSaid ==
  ASSUME NEW t \in Renderings
  PROVE  /\ t \in Texts /\ Len(t) \in Nat /\ DOMAIN t = 1 .. Len(t)
         /\ \A i \in DOMAIN t : /\ t[i].form \in {"exact", "lower", "mixed"}
                                /\ t[i] = Word(t[i].word, t[i].form)
<1>1. \A m \in Messages : /\ m \in Seq(ToSet(m))
                          /\ \A i \in DOMAIN m : IsSaid(m[i])
  BY BundleAssumption DEF ToSet
<1>2. t \in Seq(ToSet(t)) /\ \A i \in DOMAIN t : IsSaid(t[i])
  <2>1. CASE t = <<>>
    BY <2>1
  <2>2. CASE t \in Messages
    BY <1>1, <2>2
  <2>3. ASSUME NEW m \in Messages, t = Escaped(m) PROVE t \in Seq(ToSet(t)) /\ \A i \in DOMAIN t : IsSaid(t[i])
    <3>1. Len(m) \in Nat /\ DOMAIN m = 1 .. Len(m) /\ \A i \in DOMAIN m : IsSaid(m[i])
      BY <1>1, <2>3
    <3>2. /\ DOMAIN t = DOMAIN m
          /\ \A i \in DOMAIN t : t[i] = IF m[i].word = "home" THEN Word("escaped home", m[i].form) ELSE m[i]
      BY <2>3 DEF Escaped
    <3>3. t = [i \in 1 .. Len(m) |-> t[i]]
      BY <2>3, <3>1 DEF Escaped
    <3>4. t \in [1 .. Len(m) -> ToSet(t)]
      BY <3>1, <3>2, <3>3 DEF ToSet
    <3>5. t \in Seq(ToSet(t))
      BY <3>1, <3>4
    <3>6. ASSUME NEW i \in DOMAIN t PROVE IsSaid(t[i])
      <4>1. IsSaid(m[i])
        BY <3>1, <3>2
      <4>2. \A w, f : Word(w, f).form = f /\ Word(w, f).word = w
        BY DEF Word
      <4>3. CASE m[i].word = "home"
        <5>1. t[i] = Word("escaped home", m[i].form)
          BY <3>2, <4>3
        <5>2. /\ Word("escaped home", m[i].form).form = m[i].form
              /\ Word("escaped home", m[i].form).word = "escaped home"
          BY DEF Word
        <5>3. t[i] = Word(t[i].word, t[i].form)
          BY <5>1, <5>2
        <5>4. t[i].form = m[i].form
          BY <5>1, <5>2
        <5>5. QED
          BY <4>1, <5>3, <5>4 DEF IsSaid
      <4>4. CASE m[i].word # "home"
        BY <3>2, <4>1, <4>4
      <4>5. QED
        BY <4>3, <4>4
    <3>7. QED
      BY <3>5, <3>6
  <2>4. QED
    BY <2>1, <2>2, <2>3 DEF Renderings
<1>3. Texts = Seq(Words) /\ ToSet(t) \subseteq Words
  BY DEF Words, Texts
<1> DEFINE S == ToSet(t)
           W == Words
<1> HIDE DEF S, W
<1>4. t \in Seq(S) /\ S \subseteq W
  BY <1>2, <1>3 DEF S, W
<1>5. t \in Seq(W) /\ Len(t) \in Nat /\ DOMAIN t = 1 .. Len(t)
  BY <1>4
<1>6. QED
  BY <1>2, <1>3, <1>5 DEF W, IsSaid

LEMMA MarksAreWords ==
  /\ Texts = Seq(Words)
  /\ \A r \in {"user", "host", "profile"} : Mark[r] \in Words /\ \E w : Mark[r] = Word(w, "mark")
  /\ Nothing \in Words /\ Nothing = Word("", "mark")
  /\ Mark["profile"] = Word("[profile]", "mark")
  /\ Mark["user"] = Word("[user]", "mark")
  /\ Mark["host"] = Word("[hostname]", "mark")
<1>1. Mark = [user |-> Word("[user]", "mark"), host |-> Word("[hostname]", "mark"),
              profile |-> Word("[profile]", "mark")]
  BY DEF Mark
<1>2. DOMAIN Mark = {"user", "host", "profile"}
  BY <1>1
<1> DEFINE Said == UNION {ToSet(text) : text \in Renderings}
           Marks == {Mark[r] : r \in DOMAIN Mark}
           nothing == Nothing
<1>3. Words = Said \cup Marks \cup {nothing}
  BY DEF Words
<1>4. \A r \in {"user", "host", "profile"} : Mark[r] \in Marks
  BY <1>2
<1> HIDE DEF Said, Marks, nothing
<1>5. /\ \A r \in {"user", "host", "profile"} : Mark[r] \in Words
      /\ nothing \in Words
  BY <1>3, <1>4
<1>6. \A r \in {"user", "host", "profile"} : \E w : Mark[r] = Word(w, "mark")
  BY <1>1
<1>7. QED
  BY <1>1, <1>5, <1>6 DEF nothing, Nothing, Texts

(* A replacement in one writing, place by place.                           *)
IsReplaced(out, text, needle, mark) ==
  /\ out \in Texts /\ DOMAIN out = DOMAIN text
  /\ \A i \in DOMAIN text : out[i] =
       IF i \in Occurs(text, needle) THEN mark
       ELSE IF \E k \in Occurs(text, needle) : i \in k + 1 .. k + Len(needle) - 1 THEN Nothing
       ELSE text[i]

LEMMA ReplaceIs ==
  ASSUME NEW text \in Texts, NEW needle, NEW mark \in Words
  PROVE  IsReplaced(Replace(needle, mark)[text], text, needle, mark)
<1> DEFINE out == Replace(needle, mark)[text]
           Place(i) == IF i \in Occurs(text, needle) THEN mark
              ELSE IF i \in UNION {k + 1 .. k + Len(needle) - 1 : k \in Occurs(text, needle)} THEN Nothing
              ELSE text[i]
<1>1. out = [i \in DOMAIN text |-> Place(i)]
  <2> DEFINE Places(t) ==
        [i \in DOMAIN t |->
           IF i \in Occurs(t, needle) THEN mark
           ELSE IF i \in UNION {k + 1 .. k + Len(needle) - 1 : k \in Occurs(t, needle)} THEN Nothing
           ELSE t[i]]
  <2>1. Replace(needle, mark) = [t \in Texts |-> Places(t)]
    BY DEF Replace
  <2>2. Places(text) = [i \in DOMAIN text |-> Place(i)]
    OBVIOUS
  <2> HIDE DEF Places
  <2>3. Replace(needle, mark)[text] = Places(text)
    BY <2>1
  <2>4. QED
    BY <2>2, <2>3
<1>2. \A i \in DOMAIN text : text[i] \in Words
  <2>1. text \in Seq(Words)
    BY MarksAreWords
  <2> HIDE DEF Words
  <2>2. QED
    BY <2>1
<1>3. \A i \in DOMAIN text : Place(i) \in Words
  BY <1>2, MarksAreWords
<1>4. \A i \in DOMAIN text : out[i] =
              IF i \in Occurs(text, needle) THEN mark
              ELSE IF \E k \in Occurs(text, needle) : i \in k + 1 .. k + Len(needle) - 1 THEN Nothing
              ELSE text[i]
  BY <1>1
<1> HIDE DEF out, Place
<1>5. DOMAIN text = 1 .. Len(text) /\ Len(text) \in Nat
  <2>1. text \in Seq(Words)
    BY MarksAreWords
  <2>2. QED
    BY <2>1
<1>6. out \in [1 .. Len(text) -> Words]
  BY <1>1, <1>3, <1>5
<1>7. out \in Seq(Words)
  BY <1>5, <1>6
<1>8. DOMAIN out = DOMAIN text
  BY <1>1
<1>9. QED
  BY <1>4, <1>7, <1>8, MarksAreWords DEF out, IsReplaced

Named(x, w) == x \in {Word(w, "exact"), Word(w, "lower")}

(* A name of one word.                                                     *)
LEMMA WordReplaced ==
  ASSUME NEW text \in Texts, NEW r \in {"user", "host"}
  PROVE  /\ ReplaceName(r)[text] \in Texts
         /\ DOMAIN ReplaceName(r)[text] = DOMAIN text
         /\ \A i \in DOMAIN text :
              ReplaceName(r)[text][i] = IF Named(text[i], r) THEN Mark[r] ELSE text[i]
<1> DEFINE exact == Written(Needle[r], "exact")
           lower == Written(Needle[r], "lower")
           once == Replace(exact, Mark[r])[text]
           out == Replace(lower, Mark[r])[once]
<1>1. ReplaceName(r)[text] = out
  <2> DEFINE Out(t) == Replace(lower, Mark[r])[Replace(exact, Mark[r])[t]]
  <2>1. ReplaceName(r) = [t \in Texts |-> Out(t)]
    BY DEF ReplaceName
  <2>2. Out(text) = out
    OBVIOUS
  <2> HIDE DEF Out
  <2>3. QED
    BY <2>1, <2>2
<1>2. ASSUME NEW form PROVE /\ Written(Needle[r], form) = <<Word(r, form)>>
                            /\ Len(Written(Needle[r], form)) = 1
                            /\ DOMAIN Written(Needle[r], form) = {1}
                            /\ Written(Needle[r], form)[1] = Word(r, form)
  <2>1. Needle[r] = <<r>>
    BY DEF Needle
  <2>2. DOMAIN Needle[r] = {1} /\ Needle[r][1] = r
    BY <2>1
  <2>3. Written(Needle[r], form) = [i \in {1} |-> Word(r, form)]
    BY <2>2 DEF Written
  <2>4. <<Word(r, form)>> = [i \in {1} |-> Word(r, form)]
    OBVIOUS
  <2>5. Written(Needle[r], form) = <<Word(r, form)>>
    BY <2>3, <2>4
  <2>6. QED
    BY <2>5
<1>3. ASSUME NEW t \in Texts, NEW form
      PROVE  \A i \in DOMAIN t : i \in Nat /\ (i \in Occurs(t, Written(Needle[r], form)) <=> t[i] = Word(r, form))
  <2> DEFINE needle == Written(Needle[r], form)
  <2>1. DOMAIN needle = {1} /\ needle[1] = Word(r, form)
    BY <1>2
  <2> HIDE DEF needle
  <2>2. \A i \in DOMAIN t : i \in Nat /\ i + 1 - 1 = i
    <3>1. t \in Seq(Words)
      BY MarksAreWords
    <3>2. DOMAIN t = 1 .. Len(t) /\ Len(t) \in Nat
      BY <3>1
    <3>3. QED
      BY <3>2
  <2>3. \A i \in DOMAIN t : i \in Occurs(t, needle) <=> t[i] = Word(r, form)
    BY <2>1, <2>2 DEF Occurs
  <2>4. QED
    BY <2>2, <2>3 DEF needle
<1>4. ASSUME NEW t \in Texts, NEW form
      PROVE  /\ Replace(Written(Needle[r], form), Mark[r])[t] \in Texts
             /\ DOMAIN Replace(Written(Needle[r], form), Mark[r])[t] = DOMAIN t
             /\ \A i \in DOMAIN t : Replace(Written(Needle[r], form), Mark[r])[t][i] =
                  IF t[i] = Word(r, form) THEN Mark[r] ELSE t[i]
  <2> DEFINE needle == Written(Needle[r], form)
  <2>1. Mark[r] \in Words /\ Len(needle) = 1
    BY <1>2, MarksAreWords
  <2>2. \A i \in DOMAIN t : i \in Nat /\ (i \in Occurs(t, needle) <=> t[i] = Word(r, form))
    BY <1>3
  <2>3. IsReplaced(Replace(needle, Mark[r])[t], t, needle, Mark[r])
    BY <2>1, ReplaceIs
  <2> HIDE DEF needle
  <2>4. \A k \in Occurs(t, needle) : k \in Nat /\ k + 1 .. k + Len(needle) - 1 = {}
    <3>1. \A k \in Occurs(t, needle) : k \in DOMAIN t
      BY DEF Occurs
    <3>2. \A k \in Nat : k + 1 .. k + 1 - 1 = {}
      OBVIOUS
    <3>3. QED
      BY <2>1, <2>2, <3>1, <3>2
  <2>5. QED
    BY <2>2, <2>3, <2>4 DEF needle, IsReplaced
<1>5. /\ once \in Texts /\ DOMAIN once = DOMAIN text
      /\ \A i \in DOMAIN text : once[i] = IF text[i] = Word(r, "exact") THEN Mark[r] ELSE text[i]
  BY <1>4
<1> HIDE DEF once
<1>6. /\ out \in Texts /\ DOMAIN out = DOMAIN once
      /\ \A i \in DOMAIN once : out[i] = IF once[i] = Word(r, "lower") THEN Mark[r] ELSE once[i]
  BY <1>4, <1>5
<1> HIDE DEF out
<1>7. Mark[r] # Word(r, "lower")
  <2>1. PICK w : Mark[r] = Word(w, "mark")
    BY MarksAreWords
  <2>2. QED
    BY <2>1, WordsDiffer
<1>8. QED
  BY <1>1, <1>5, <1>6, <1>7 DEF Named

(* Where a profile path is written, in either writing.                     *)
ProfileAt(t, i, form) ==
  i + 1 \in DOMAIN t /\ t[i] = Word("home", form) /\ t[i + 1] = Word("user", form)
Profiles(t) == {i \in DOMAIN t : ProfileAt(t, i, "exact") \/ ProfileAt(t, i, "lower")}

LEMMA ProfileWritten ==
  ASSUME NEW t \in Texts, NEW form
  PROVE  /\ Len(Written(Needle["profile"], form)) = 2
         /\ \A i \in DOMAIN t : i \in Nat /\ i \in 1 .. Len(t)
         /\ DOMAIN t = 1 .. Len(t) /\ Len(t) \in Nat
         /\ Occurs(t, Written(Needle["profile"], form)) = {i \in DOMAIN t : ProfileAt(t, i, form)}
<1> DEFINE needle == Written(Needle["profile"], form)
<1>1. Needle["profile"] = <<"home", "user">>
  BY DEF Needle
<1>2. DOMAIN Needle["profile"] = {1, 2} /\ Needle["profile"][1] = "home" /\ Needle["profile"][2] = "user"
  BY <1>1
<1>3. needle = <<Word("home", form), Word("user", form)>>
  <2>1. needle = [i \in {1, 2} |-> Word(Needle["profile"][i], form)]
    BY <1>2 DEF Written
  <2>2. <<Word("home", form), Word("user", form)>> = [i \in {1, 2} |-> Word(Needle["profile"][i], form)]
    BY <1>2
  <2>3. QED
    BY <2>1, <2>2
<1> HIDE DEF needle
<1>4. Len(needle) = 2 /\ DOMAIN needle = {1, 2} /\ needle[1] = Word("home", form) /\ needle[2] = Word("user", form)
  BY <1>3
<1>5. /\ \A i \in DOMAIN t : i \in Nat /\ i \in 1 .. Len(t)
      /\ DOMAIN t = 1 .. Len(t) /\ Len(t) \in Nat
  <2>1. t \in Seq(Words)
    BY MarksAreWords
  <2>2. DOMAIN t = 1 .. Len(t) /\ Len(t) \in Nat
    BY <2>1
  <2>3. QED
    BY <2>2
<1>6. ASSUME NEW i \in DOMAIN t
      PROVE  (\A j \in DOMAIN needle : i + j - 1 \in DOMAIN t /\ t[i + j - 1] = needle[j]) <=> ProfileAt(t, i, form)
  <2>1. i \in Nat /\ i + 1 - 1 = i /\ i + 2 - 1 = i + 1
    BY <1>5
  <2>2. QED
    BY <1>4, <2>1 DEF ProfileAt
<1>7. Occurs(t, needle) = {i \in DOMAIN t : ProfileAt(t, i, form)}
  BY <1>6 DEF Occurs
<1>8. QED
  BY <1>4, <1>5, <1>7 DEF needle

(* The profile path, place by place.                                       *)
LEMMA ProfileReplaced ==
  ASSUME NEW text \in Texts
  PROVE  /\ ReplaceName("profile")[text] \in Texts
         /\ DOMAIN ReplaceName("profile")[text] = DOMAIN text
         /\ \A i \in DOMAIN text : ReplaceName("profile")[text][i] =
              IF i \in Profiles(text) THEN Mark["profile"]
              ELSE IF i - 1 \in Profiles(text) THEN Nothing
              ELSE text[i]
<1> DEFINE mark == Mark["profile"]
           exact == Written(Needle["profile"], "exact")
           lower == Written(Needle["profile"], "lower")
           once == Replace(exact, mark)[text]
           out == Replace(lower, mark)[once]
<1>1. ReplaceName("profile")[text] = out
  <2> DEFINE Out(t) == Replace(lower, mark)[Replace(exact, mark)[t]]
  <2>1. ReplaceName("profile") = [t \in Texts |-> Out(t)]
    BY DEF ReplaceName
  <2>2. Out(text) = out
    OBVIOUS
  <2> HIDE DEF Out
  <2>3. QED
    BY <2>1, <2>2
<1>2. ASSUME NEW t \in Texts, NEW form
      PROVE  /\ Replace(Written(Needle["profile"], form), mark)[t] \in Texts
             /\ DOMAIN Replace(Written(Needle["profile"], form), mark)[t] = DOMAIN t
             /\ \A i \in DOMAIN t : Replace(Written(Needle["profile"], form), mark)[t][i] =
                  IF ProfileAt(t, i, form) THEN mark
                  ELSE IF i - 1 \in DOMAIN t /\ ProfileAt(t, i - 1, form) THEN Nothing
                  ELSE t[i]
  <2> DEFINE needle == Written(Needle["profile"], form)
  <2>1. mark \in Words
    BY MarksAreWords
  <2>2. IsReplaced(Replace(needle, mark)[t], t, needle, mark)
    <3> HIDE DEF mark, needle
    <3>1. QED
      BY <2>1, ReplaceIs
  <2>3. /\ Len(needle) = 2 /\ \A i \in DOMAIN t : i \in Nat
        /\ Occurs(t, needle) = {i \in DOMAIN t : ProfileAt(t, i, form)}
    BY ProfileWritten
  <2> HIDE DEF needle, mark
  <2>4. ASSUME NEW i \in DOMAIN t
        PROVE  (\E k \in Occurs(t, needle) : i \in k + 1 .. k + Len(needle) - 1)
               <=> i - 1 \in DOMAIN t /\ ProfileAt(t, i - 1, form)
    <3>1. \A k \in DOMAIN t : k + 1 .. k + Len(needle) - 1 = {k + 1} /\ (i = k + 1 <=> k = i - 1)
      BY <2>3
    <3>2. QED
      BY <2>3, <3>1
  <2>5. QED
    BY <2>2, <2>3, <2>4 DEF needle, IsReplaced
<1>3. \A i \in DOMAIN text : i \in Nat
  BY ProfileWritten
<1>4. /\ once \in Texts /\ DOMAIN once = DOMAIN text
      /\ \A i \in DOMAIN text : once[i] =
           IF ProfileAt(text, i, "exact") THEN mark
           ELSE IF i - 1 \in DOMAIN text /\ ProfileAt(text, i - 1, "exact") THEN Nothing
           ELSE text[i]
  BY <1>2
<1> HIDE DEF once
<1>5. /\ out \in Texts /\ DOMAIN out = DOMAIN once
      /\ \A i \in DOMAIN once : out[i] =
           IF ProfileAt(once, i, "lower") THEN mark
           ELSE IF i - 1 \in DOMAIN once /\ ProfileAt(once, i - 1, "lower") THEN Nothing
           ELSE once[i]
  BY <1>2, <1>4
<1> HIDE DEF out
(* The first pass neither adds nor takes a path in lower case.             *)
<1>6. ASSUME NEW i \in DOMAIN text, NEW w \in {"home", "user"}
      PROVE  once[i] = Word(w, "lower") <=> text[i] = Word(w, "lower")
  <2>1. mark = Word("[profile]", "mark") /\ Nothing = Word("", "mark")
    BY MarksAreWords
  <2> HIDE DEF mark
  <2>2. mark # Word(w, "lower") /\ Nothing # Word(w, "lower")
    BY <2>1, WordsDiffer
  <2>3. ASSUME ProfileAt(text, i, "exact") PROVE text[i] # Word(w, "lower")
    BY <2>3, WordsDiffer DEF ProfileAt
  <2>4. ASSUME i - 1 \in DOMAIN text, ProfileAt(text, i - 1, "exact") PROVE text[i] # Word(w, "lower")
    <3>1. i - 1 + 1 = i
      BY <1>3
    <3>2. text[i] = Word("user", "exact")
      BY <2>4, <3>1 DEF ProfileAt
    <3>3. QED
      BY <3>2, WordsDiffer
  <2>5. QED
    BY <1>4, <2>2, <2>3, <2>4
<1>7. \A i \in DOMAIN text : ProfileAt(once, i, "lower") <=> ProfileAt(text, i, "lower")
  BY <1>4, <1>6 DEF ProfileAt
<1>8. ASSUME NEW i \in DOMAIN text
      PROVE  out[i] = IF i \in Profiles(text) THEN mark
                      ELSE IF i - 1 \in Profiles(text) THEN Nothing
                      ELSE text[i]
  <2> HIDE DEF mark
  <2>1. i \in Profiles(text) <=> ProfileAt(text, i, "exact") \/ ProfileAt(text, i, "lower")
    BY DEF Profiles
  <2>2. i - 1 \in Profiles(text) <=> i - 1 \in DOMAIN text /\ (ProfileAt(text, i - 1, "exact") \/ ProfileAt(text, i - 1, "lower"))
    BY DEF Profiles
  <2>3. ASSUME ProfileAt(text, i, "exact"), i - 1 \in DOMAIN text, ProfileAt(text, i - 1, "lower") PROVE FALSE
    <3>1. i - 1 + 1 = i
      BY <1>3
    <3>2. Word("user", "lower") = Word("home", "exact")
      BY <2>3, <3>1 DEF ProfileAt
    <3>3. QED
      BY <3>2, WordsDiffer
  <2>4. out[i] = IF ProfileAt(text, i, "lower") THEN mark
           ELSE IF i - 1 \in DOMAIN text /\ ProfileAt(text, i - 1, "lower") THEN Nothing
           ELSE once[i]
    BY <1>4, <1>5, <1>7
  <2>5. QED
    BY <1>4, <2>1, <2>2, <2>3, <2>4
<1>9. QED
  BY <1>1, <1>4, <1>5, <1>8

(* A text after the rules of the names done.                               *)
StageAt(t, done, i) ==
  IF "profile" \in done /\ i \in Profiles(t) THEN Mark["profile"]
  ELSE IF "profile" \in done /\ i - 1 \in Profiles(t) THEN Nothing
  ELSE IF "host" \in done /\ Named(t[i], "host") THEN Mark["host"]
  ELSE IF "user" \in done /\ Named(t[i], "user") THEN Mark["user"]
  ELSE t[i]

IsStage(out, t, done) ==
  out \in Texts /\ DOMAIN out = DOMAIN t /\ \A i \in DOMAIN t : out[i] = StageAt(t, done, i)

(* A mark is no name.                                                      *)
LEMMA MarksAreNoNames ==
  /\ \A w, f : f \in {"exact", "lower"} =>
       /\ Nothing # Word(w, f)
       /\ Mark["profile"] # Word(w, f) /\ Mark["host"] # Word(w, f) /\ Mark["user"] # Word(w, f)
  /\ \A r : /\ ~Named(Nothing, r) /\ ~Named(Mark["profile"], r)
            /\ ~Named(Mark["host"], r) /\ ~Named(Mark["user"], r)
  /\ \A x : ~(Named(x, "user") /\ Named(x, "host"))
<1>1. \A w, f : f \in {"exact", "lower"} =>
       /\ Nothing # Word(w, f)
       /\ Mark["profile"] # Word(w, f) /\ Mark["host"] # Word(w, f) /\ Mark["user"] # Word(w, f)
  <2> SUFFICES ASSUME NEW w, NEW f \in {"exact", "lower"}
               PROVE  /\ Nothing # Word(w, f)
                      /\ Mark["profile"] # Word(w, f) /\ Mark["host"] # Word(w, f) /\ Mark["user"] # Word(w, f)
    OBVIOUS
  <2>1. f # "mark"
    OBVIOUS
  <2>2. \A v : Word(v, "mark") # Word(w, f)
    BY <2>1, WordsDiffer
  <2>3. QED
    BY <2>2, MarksAreWords
<1>2. \A x : ~(Named(x, "user") /\ Named(x, "host"))
  BY WordsDiffer DEF Named
<1>3. QED
  BY <1>1, <1>2 DEF Named

LEMMA NameStage ==
  ASSUME NEW t \in Texts, NEW done, NEW a, IsStage(a, t, done), NEW r \in {"user", "host"}
  PROVE  IsStage(ReplaceName(r)[a], t, done \cup {r})
<1>1. a \in Texts /\ DOMAIN a = DOMAIN t /\ \A i \in DOMAIN t : a[i] = StageAt(t, done, i)
  BY DEF IsStage
<1>2. /\ ReplaceName(r)[a] \in Texts /\ DOMAIN ReplaceName(r)[a] = DOMAIN t
      /\ \A i \in DOMAIN t : ReplaceName(r)[a][i] = IF Named(a[i], r) THEN Mark[r] ELSE a[i]
  BY <1>1, WordReplaced
<1>3. ASSUME NEW i \in DOMAIN t
      PROVE  (IF Named(StageAt(t, done, i), r) THEN Mark[r] ELSE StageAt(t, done, i))
             = StageAt(t, done \cup {r}, i)
  <2>1. CASE r = "user"
    <3>1. /\ "user" \in done \cup {r} /\ "profile" \in done \cup {r} <=> "profile" \in done
          /\ "host" \in done \cup {r} <=> "host" \in done
      BY <2>1
    <3>2. QED
      BY <2>1, <3>1, MarksAreNoNames DEF StageAt
  <2>2. CASE r = "host"
    <3>1. /\ "host" \in done \cup {r} /\ "profile" \in done \cup {r} <=> "profile" \in done
          /\ "user" \in done \cup {r} <=> "user" \in done
      BY <2>2
    <3>2. QED
      BY <2>2, <3>1, MarksAreNoNames DEF StageAt
  <2>3. QED
    BY <2>1, <2>2
<1>4. QED
  BY <1>1, <1>2, <1>3 DEF IsStage

LEMMA ProfileStage ==
  ASSUME NEW t \in Texts, NEW done, NEW a, IsStage(a, t, done), "user" \notin done, "profile" \notin done
  PROVE  IsStage(ReplaceName("profile")[a], t, done \cup {"profile"})
<1>1. a \in Texts /\ DOMAIN a = DOMAIN t /\ \A i \in DOMAIN t : a[i] = StageAt(t, done, i)
  BY DEF IsStage
<1>2. /\ ReplaceName("profile")[a] \in Texts /\ DOMAIN ReplaceName("profile")[a] = DOMAIN t
      /\ \A i \in DOMAIN t : ReplaceName("profile")[a][i] =
           IF i \in Profiles(a) THEN Mark["profile"]
           ELSE IF i - 1 \in Profiles(a) THEN Nothing
           ELSE a[i]
  BY <1>1, ProfileReplaced
<1>3. \A i \in DOMAIN t : a[i] = IF "host" \in done /\ Named(t[i], "host") THEN Mark["host"] ELSE t[i]
  BY <1>1 DEF StageAt
<1>4. ASSUME NEW i \in DOMAIN t, NEW w \in {"home", "user"}, NEW f \in {"exact", "lower"}
      PROVE  a[i] = Word(w, f) <=> t[i] = Word(w, f)
  <2>1. Mark["host"] # Word(w, f)
    BY MarksAreNoNames
  <2>2. ~Named(Word(w, f), "host")
    BY WordsDiffer DEF Named
  <2>3. QED
    BY <1>3, <2>1, <2>2
<1>5. \A i \in DOMAIN t, f \in {"exact", "lower"} : ProfileAt(a, i, f) <=> ProfileAt(t, i, f)
  BY <1>1, <1>4 DEF ProfileAt
<1>6. Profiles(a) = Profiles(t)
  BY <1>1, <1>5 DEF Profiles
<1>7. ASSUME NEW i \in DOMAIN t
      PROVE  StageAt(t, done \cup {"profile"}, i) =
               IF i \in Profiles(t) THEN Mark["profile"]
               ELSE IF i - 1 \in Profiles(t) THEN Nothing
               ELSE IF "host" \in done /\ Named(t[i], "host") THEN Mark["host"] ELSE t[i]
  BY DEF StageAt
<1>8. QED
  BY <1>2, <1>3, <1>6, <1>7 DEF IsStage

(* The rules: each usable name once, the profile path before the user.     *)
LEMMA RulesAre ==
  /\ Len(Rules) \in 0 .. 3 /\ DOMAIN Rules = 1 .. Len(Rules)
  /\ \A k \in DOMAIN Rules : Rules[k] \in Usable
  /\ \A r \in Usable : \E k \in DOMAIN Rules : Rules[k] = r
  /\ \A j, k \in DOMAIN Rules : j < k => Rules[j] # Rules[k] /\ ~(Rules[j] = "user" /\ Rules[k] = "profile")
  /\ Usable \subseteq {"user", "host", "profile"}
<1> DEFINE I == {i \in DOMAIN Pushed : Pushed[i] \in Usable}
           o == Sequenced(I, LongestFirst)
<1>1. /\ DOMAIN Pushed = 1 .. 3 /\ Pushed[1] = "user" /\ Pushed[2] = "host" /\ Pushed[3] = "profile"
      /\ 1 .. 3 = {1, 2, 3}
  BY DEF Pushed
<1>2. ToSet(Pushed) = {"user", "host", "profile"}
  BY <1>1 DEF ToSet
<1>3. Usable \subseteq {"user", "host", "profile"}
  BY <1>2 DEF Usable
<1>4. /\ \A r \in {"user", "host", "profile"} : NameLength[r] \in Nat
      /\ NameLength["profile"] > NameLength["user"]
  BY BundleAssumption
<1>5. IsOrder(LongestFirst, 1 .. 3)
  <2> DEFINE length == [i \in 1 .. 3 |-> 0 - NameLength[Pushed[i]]]
  <2>1. \A i \in 1 .. 3 : NameLength[Pushed[i]] \in Nat /\ length[i] = 0 - NameLength[Pushed[i]]
    BY <1>1, <1>4
  <2>2. \A i, j \in 1 .. 3 : <<i, j>> \in LongestFirst <=>
          \/ NameLength[Pushed[i]] > NameLength[Pushed[j]]
          \/ NameLength[Pushed[i]] = NameLength[Pushed[j]] /\ i < j
    BY <1>1 DEF LongestFirst, Pairs
  <2> HIDE DEF length
  <2>3. \A i, j \in 1 .. 3 : <<i, j>> \in LongestFirst <=> length[i] < length[j] \/ (length[i] = length[j] /\ i < j)
    BY <2>1, <2>2
  <2>4. \A i \in 1 .. 3 : length[i] \in Int
    BY <2>1
  <2>5. QED
    BY <2>3, <2>4, StableOrder
<1>6. I \subseteq 1 .. 3 /\ IsOrder(LongestFirst, I)
  <2>1. I \subseteq 1 .. 3
    BY <1>1
  <2> HIDE DEF I
  <2>2. QED
    BY <1>5, <2>1 DEF IsOrder
<1>7. IsFiniteSet(I) /\ Cardinality(I) \in Nat /\ Cardinality(I) <= 3
  <2>1. IsFiniteSet(1 .. 3) /\ Cardinality(1 .. 3) = 3
    BY IntervalSize
  <2> HIDE DEF I
  <2>2. QED
    BY <1>6, <2>1, FS_Subset, FS_CardinalityType
<1>8. \A i \in I : Pushed[i] \in Usable
  OBVIOUS
<1>9. Rules = Arranged(Pushed, I, LongestFirst)
  BY DEF Rules
<1> DEFINE n == Cardinality(I)
<1>10. /\ DOMAIN o = 1 .. n /\ \A k \in 1 .. n : o[k] \in I
       /\ \A j, k \in 1 .. n : j < k => <<o[j], o[k]>> \in LongestFirst
       /\ \A i \in I : \E k \in 1 .. n : o[k] = i
  <2> HIDE DEF I
  <2>1. QED
    BY <1>6, <1>7, SequencedIs
<1>11. /\ Rules \in Seq(Usable) /\ Len(Rules) = n /\ DOMAIN Rules = 1 .. n
       /\ \A k \in 1 .. n : Rules[k] = Pushed[o[k]]
  <2> HIDE DEF I, o, n
  <2>1. Rules = [k \in DOMAIN o |-> Pushed[o[k]]]
    BY <1>9 DEF Arranged, o
  <2>2. DOMAIN Rules = 1 .. n /\ \A k \in 1 .. n : Rules[k] = Pushed[o[k]]
    BY <1>10, <2>1
  <2>3. \A k \in 1 .. n : Pushed[o[k]] \in Usable
    BY <1>8, <1>10
  <2>4. n \in Nat
    BY <1>7 DEF n
  <2>5. Rules = [k \in 1 .. n |-> Pushed[o[k]]]
    BY <1>10, <2>1
  <2>6. Rules \in Seq(Usable) /\ Len(Rules) = n
    <3> HIDE DEF Usable, Pushed
    <3>1. QED
      BY <2>3, <2>4, <2>5
  <2>7. QED
    BY <2>2, <2>6
<1>12. \A r \in Usable : \E i \in I : Pushed[i] = r
  BY <1>1, <1>3
<1> HIDE DEF I, o, n
<1>13. \A k \in 1 .. n : Rules[k] \in Usable /\ o[k] \in 1 .. 3
  BY <1>6, <1>8, <1>10, <1>11
<1>14. \A r \in Usable : \E k \in 1 .. n : Rules[k] = r
  BY <1>10, <1>11, <1>12
<1>15. ASSUME NEW j \in 1 .. n, NEW k \in 1 .. n, j < k
       PROVE  Rules[j] # Rules[k] /\ ~(Rules[j] = "user" /\ Rules[k] = "profile")
  <2>1. o[j] \in 1 .. 3 /\ o[k] \in 1 .. 3 /\ <<o[j], o[k]>> \in LongestFirst
    BY <1>10, <1>13, <1>15
  <2>2. \/ NameLength[Pushed[o[j]]] > NameLength[Pushed[o[k]]]
        \/ NameLength[Pushed[o[j]]] = NameLength[Pushed[o[k]]] /\ o[j] < o[k]
    BY <2>1 DEF LongestFirst
  <2>3. Rules[j] = Pushed[o[j]] /\ Rules[k] = Pushed[o[k]]
    BY <1>11
  <2>4. o[j] # o[k]
    <3>1. <<o[j], o[j]>> \notin LongestFirst
      BY <1>5, <2>1 DEF IsOrder
    <3>2. QED
      BY <2>1, <3>1
  <2>5. Rules[j] # Rules[k]
    BY <1>1, <2>1, <2>3, <2>4
  <2>6. ~(Rules[j] = "user" /\ Rules[k] = "profile")
    BY <1>1, <1>4, <2>1, <2>2, <2>3
  <2>7. QED
    BY <2>5, <2>6
<1>16. Len(Rules) \in 0 .. 3
  BY <1>7, <1>11 DEF n
<1>17. QED
  BY <1>3, <1>11, <1>13, <1>14, <1>15, <1>16

(* One rule more.                                                          *)
LEMMA RuleStage ==
  ASSUME NEW t \in Texts, NEW a, NEW k \in DOMAIN Rules,
         IsStage(a, t, {Rules[j] : j \in 1 .. k - 1})
  PROVE  IsStage(ReplaceName(Rules[k])[a], t, {Rules[j] : j \in 1 .. k})
<1> DEFINE done == {Rules[j] : j \in 1 .. k - 1}
<1>1. /\ Len(Rules) \in 0 .. 3 /\ DOMAIN Rules = 1 .. Len(Rules) /\ Rules[k] \in {"user", "host", "profile"}
      /\ \A j \in DOMAIN Rules : j < k => Rules[j] # Rules[k] /\ ~(Rules[j] = "user" /\ Rules[k] = "profile")
  BY RulesAre
<1>2. k \in Nat /\ \A j \in 1 .. k - 1 : j \in DOMAIN Rules /\ j < k
  BY <1>1
<1>3. {Rules[j] : j \in 1 .. k} = done \cup {Rules[k]}
  <2>1. \A j \in 1 .. k : j \in 1 .. k - 1 \/ j = k
    BY <1>2
  <2>2. k \in 1 .. k /\ \A j \in 1 .. k - 1 : j \in 1 .. k
    BY <1>1, <1>2
  <2>3. QED
    BY <2>1, <2>2
<1>4. Rules[k] \notin done /\ (Rules[k] = "profile" => "user" \notin done)
  BY <1>1, <1>2
<1>5. IsStage(a, t, done)
  OBVIOUS
<1> HIDE DEF done
<1>6. IsStage(ReplaceName(Rules[k])[a], t, done \cup {Rules[k]})
  <2>1. CASE Rules[k] = "profile"
    BY <1>4, <1>5, <2>1, ProfileStage
  <2>2. CASE Rules[k] \in {"user", "host"}
    BY <1>5, <2>2, NameStage
  <2>3. QED
    BY <1>1, <2>1, <2>2
<1>7. QED
  BY <1>3, <1>6

(* What redaction makes of a rendering, place by place.                    *)
LEMMA RedactIs ==
  ASSUME NEW t \in Renderings
  PROVE  t \in Texts /\ IsStage(Redact[t], t, Usable)
<1> DEFINE n == Len(Rules)
           Pass(f) == [k \in 0 .. n |-> IF k = 0 THEN t ELSE ReplaceName(Rules[k])[f[k - 1]]]
           out == CHOOSE f : f = Pass(f)
           s1 == ReplaceName(Rules[1])[t]
           s2 == ReplaceName(Rules[2])[s1]
           s3 == ReplaceName(Rules[3])[s2]
           g == [k \in 0 .. n |-> IF k = 0 THEN t ELSE IF k = 1 THEN s1 ELSE IF k = 2 THEN s2 ELSE s3]
<1>1. Redact[t] = out[n]
  BY DEF Redact
<1>2. n \in 0 .. 3 /\ DOMAIN Rules = 1 .. n
  BY RulesAre
<1>3. g = Pass(g)
  <2> HIDE DEF n
  <2>1. ASSUME NEW k \in 0 .. n
        PROVE  g[k] = IF k = 0 THEN t ELSE ReplaceName(Rules[k])[g[k - 1]]
    <3>1. k = 0 \/ (k = 1 /\ 0 \in 0 .. n) \/ (k = 2 /\ 1 \in 0 .. n) \/ (k = 3 /\ 2 \in 0 .. n)
      BY <1>2
    <3>2. CASE k = 0
      BY <3>2
    <3>3. CASE k = 1 /\ 0 \in 0 .. n
      <4>1. g[1] = s1 /\ g[0] = t
        BY <3>3
      <4>2. QED
        BY <3>3, <4>1
    <3>4. CASE k = 2 /\ 1 \in 0 .. n
      <4>1. g[2] = s2 /\ g[1] = s1
        BY <3>4
      <4>2. QED
        BY <3>4, <4>1
    <3>5. CASE k = 3 /\ 2 \in 0 .. n
      <4>1. g[3] = s3 /\ g[2] = s2
        BY <3>5
      <4>2. QED
        BY <3>5, <4>1
    <3>6. QED
      BY <3>1, <3>2, <3>3, <3>4, <3>5
  <2>2. g = [k \in 0 .. n |-> g[k]]
    OBVIOUS
  <2> HIDE DEF g
  <2>3. QED
    BY <2>1, <2>2
<1> HIDE DEF g
<1>4. out = Pass(out)
  BY <1>3
<1> HIDE DEF out
<1>5. \A k \in 0 .. n : out[k] = IF k = 0 THEN t ELSE ReplaceName(Rules[k])[out[k - 1]]
  <2>1. out = [k \in 0 .. n |-> IF k = 0 THEN t ELSE ReplaceName(Rules[k])[out[k - 1]]]
    BY <1>4
  <2> DEFINE Body(k) == IF k = 0 THEN t ELSE ReplaceName(Rules[k])[out[k - 1]]
  <2>2. out = [k \in 0 .. n |-> Body(k)]
    BY <2>1
  <2> HIDE DEF Body
  <2>3. \A k \in 0 .. n : out[k] = Body(k)
    BY <2>2
  <2>4. QED
    BY <2>3 DEF Body
<1> HIDE DEF Pass
<1> DEFINE Done(k) == {Rules[j] : j \in 1 .. k}
<1>6. t \in Texts
  BY RenderingsAreSaid
<1>7. IsStage(out[0], t, Done(0))
  <2>1. out[0] = t
    <3>1. 0 \in 0 .. n
      BY <1>2
    <3>2. QED
      BY <1>5, <3>1
  <2>2. Done(0) = {}
    OBVIOUS
  <2>3. QED
    BY <1>6, <2>1, <2>2 DEF IsStage, StageAt
<1>8. ASSUME NEW k \in 1 .. n, IsStage(out[k - 1], t, Done(k - 1)) PROVE IsStage(out[k], t, Done(k))
  <2>1. k \in DOMAIN Rules /\ k \in 0 .. n /\ k # 0
    BY <1>2
  <2>2. out[k] = ReplaceName(Rules[k])[out[k - 1]]
    BY <1>5, <2>1
  <2> DEFINE a == out[k - 1]
  <2>3. IsStage(a, t, {Rules[j] : j \in 1 .. k - 1})
    BY <1>8
  <2> HIDE DEF a
  <2>4. IsStage(ReplaceName(Rules[k])[a], t, {Rules[j] : j \in 1 .. k})
    BY <1>6, <2>1, <2>3, RuleStage
  <2>5. QED
    BY <2>2, <2>4 DEF a
<1> HIDE DEF Done
<1>9. IsStage(out[n], t, Done(n))
  <2> DEFINE S(k) == IsStage(out[k], t, Done(k))
  <2>1. S(0) /\ \A k \in 1 .. n : S(k - 1) => S(k)
    BY <1>7, <1>8
  <2> HIDE DEF S, n
  <2>2. S(n)
    <3>1. n = 0 \/ n = 1 \/ n = 2 \/ n = 3
      BY <1>2
    <3>2. \A k \in {1, 2, 3} : k <= n => k \in 1 .. n
      BY <1>2
    <3>3. 1 - 1 = 0 /\ 2 - 1 = 1 /\ 3 - 1 = 2
      OBVIOUS
    <3>4. n >= 1 => S(1)
      BY <1>2, <2>1, <3>2, <3>3
    <3>5. n >= 2 => S(2)
      BY <1>2, <2>1, <3>2, <3>3, <3>4
    <3>6. n >= 3 => S(3)
      BY <1>2, <2>1, <3>2, <3>3, <3>5
    <3>7. QED
      BY <2>1, <3>1, <3>4, <3>5, <3>6
  <2>3. QED
    BY <2>2 DEF S
<1>10. Done(n) = Usable
  <2>1. /\ \A k \in 1 .. n : Rules[k] \in Usable
        /\ \A r \in Usable : \E k \in 1 .. n : Rules[k] = r
    BY <1>2, RulesAre
  <2> HIDE DEF n
  <2>2. QED
    BY <2>1 DEF Done
<1>11. QED
  BY <1>1, <1>6, <1>9, <1>10

(* No usable name is left in a rendering, and each profile path, but for   *)
(* the escaped ones, is one mark.                                          *)
Redacted(file, text) == NamesAreGone(text) /\ ProfilesAreMarked(file, text)

LEMMA RedactionHolds ==
  ASSUME NEW file, Rendered(file) \in Renderings
  PROVE  Redacted(file, Redact[Rendered(file)])
<1> DEFINE t == Rendered(file)
           out == Redact[t]
<1>1. t \in Texts /\ IsStage(out, t, Usable)
  BY RedactIs
<1>2. /\ out \in Texts /\ DOMAIN out = DOMAIN t
      /\ \A i \in DOMAIN t : out[i] = StageAt(t, Usable, i)
  BY <1>1 DEF IsStage
<1>3. \A i \in DOMAIN t : t[i].form \in {"exact", "lower", "mixed"} /\ t[i] = Word(t[i].word, t[i].form)
  BY RenderingsAreSaid
<1> HIDE DEF t, out
<1>4. \A x \in Usable : x \in {"user", "host", "profile"}
  BY RulesAre
<1>5. ASSUME NEW r \in {"user", "host"}, r \in Usable, NEW form \in {"exact", "lower"}, NEW i \in DOMAIN t
      PROVE  out[i] # Word(r, form)
  <2>1. StageAt(t, Usable, i) # Word(r, form)
    BY <1>5, MarksAreNoNames DEF StageAt, Named
  <2>2. QED
    BY <1>2, <2>1
<1>6. ASSUME NEW r \in {"user", "host"}, r \in Usable, NEW form \in {"exact", "lower"}
      PROVE  Occurs(out, Written(Needle[r], form)) = {}
  <2>1. Needle[r] = <<r>>
    BY DEF Needle
  <2>2. 1 \in DOMAIN Needle[r] /\ Needle[r][1] = r
    BY <2>1
  <2>3. 1 \in DOMAIN Written(Needle[r], form) /\ Written(Needle[r], form)[1] = Word(r, form)
    BY <2>2 DEF Written
  <2>4. \A i \in DOMAIN out : i \in Nat /\ i + 1 - 1 = i
    BY <1>2, ProfileWritten
  <2>5. QED
    BY <1>2, <1>5, <1>6, <2>3, <2>4 DEF Occurs
<1>7. ASSUME "profile" \in Usable, NEW form \in {"exact", "lower"}
      PROVE  Occurs(out, Written(Needle["profile"], form)) = {}
  <2>1. Occurs(out, Written(Needle["profile"], form)) = {i \in DOMAIN out : ProfileAt(out, i, form)}
    BY <1>2, ProfileWritten
  <2>2. ASSUME NEW i \in DOMAIN t, ProfileAt(out, i, form) PROVE FALSE
    <3>1. /\ i + 1 \in DOMAIN t /\ out[i] = Word("home", form) /\ out[i + 1] = Word("user", form)
      BY <1>2, <2>2 DEF ProfileAt
    <3>2. ASSUME NEW j \in DOMAIN t, NEW w, out[j] = Word(w, form) PROVE out[j] = t[j] /\ j \notin Profiles(t)
      <4>1. StageAt(t, Usable, j) = Word(w, form)
        BY <1>2, <3>2
      <4>2. StageAt(t, Usable, j) = t[j] /\ j \notin Profiles(t)
        BY <1>7, <4>1, MarksAreNoNames DEF StageAt
      <4>3. QED
        BY <1>2, <4>2
    <3>3. i \notin Profiles(t) /\ t[i] = Word("home", form) /\ t[i + 1] = Word("user", form)
      BY <3>1, <3>2
    <3>4. QED
      BY <3>1, <3>3 DEF Profiles, ProfileAt
  <2>3. QED
    BY <1>2, <2>1, <2>2
<1>8. ASSUME "profile" \in Usable
      PROVE  Occurs(out, <<Mark["profile"]>>) =
             UNION {Occurs(t, Written(Needle["profile"], form)) : form \in {"exact", "lower"}}
  <2> DEFINE m == Mark["profile"]
             p == <<m>>
  <2>1. DOMAIN p = {1} /\ p[1] = m
    OBVIOUS
  <2> HIDE DEF p
  <2>2. \A i \in DOMAIN out : i \in Nat /\ i + 1 - 1 = i
    BY <1>2, ProfileWritten
  <2>3. Occurs(out, p) = {i \in DOMAIN out : out[i] = m}
    BY <2>1, <2>2 DEF Occurs
  <2>4. \A i \in DOMAIN t : out[i] = m <=> i \in Profiles(t)
    <3>1. m = Word("[profile]", "mark") /\ Nothing = Word("", "mark") /\ Mark["host"] = Word("[hostname]", "mark")
          /\ Mark["user"] = Word("[user]", "mark")
      BY MarksAreWords
    <3> HIDE DEF m
    <3>2. m # Nothing /\ m # Mark["host"] /\ m # Mark["user"]
      <4>1. "[profile]" # "" /\ "[profile]" # "[hostname]" /\ "[profile]" # "[user]"
        OBVIOUS
      <4>2. \A w : Word("[profile]", "mark") = Word(w, "mark") => "[profile]" = w
        BY WordsDiffer
      <4>3. QED
        BY <3>1, <4>1, <4>2
    <3>3. \A i \in DOMAIN t : t[i] # m
      <4>1. \A i \in DOMAIN t : t[i].form # "mark"
        BY <1>3
      <4>2. m.form = "mark"
        BY <3>1 DEF Word
      <4>3. QED
        BY <4>1, <4>2
    <3>4. \A i \in DOMAIN t : StageAt(t, Usable, i) = m <=> i \in Profiles(t)
      BY <1>8, <3>2, <3>3 DEF StageAt, m
    <3>5. QED
      BY <1>2, <3>4
  <2>5. UNION {Occurs(t, Written(Needle["profile"], form)) : form \in {"exact", "lower"}} = Profiles(t)
    <3>1. \A form : Occurs(t, Written(Needle["profile"], form)) = {i \in DOMAIN t : ProfileAt(t, i, form)}
      BY <1>1, ProfileWritten
    <3>2. UNION {Occurs(t, Written(Needle["profile"], form)) : form \in {"exact", "lower"}}
          = Occurs(t, Written(Needle["profile"], "exact")) \cup Occurs(t, Written(Needle["profile"], "lower"))
      OBVIOUS
    <3>3. QED
      BY <3>1, <3>2 DEF Profiles
  <2>6. {i \in DOMAIN out : out[i] = m} = Profiles(t)
    BY <1>2, <2>4 DEF Profiles
  <2>7. QED
    BY <2>3, <2>5, <2>6 DEF p, m
<1>9. QED
  BY <1>4, <1>6, <1>7, <1>8 DEF Redacted, NamesAreGone, ProfilesAreMarked, t, out

(* The names of the entries, and what the archive is made of.              *)
FileNames == ToSet(TextFiles) \cup Attachments
Entry == [file : FileNames, text : Texts]
States == {"absent", "earlier", "unfinished", "finished"}
Archives == [state : States, entries : Seq(Entry)]

(* The names returned are those of the entries.                            *)
Listed(entries, names) ==
  /\ names \in Seq(FileNames) /\ Len(entries) = Len(names)
  /\ \A i \in DOMAIN names : names[i] = entries[i].file

(* What the reader of a text shall see.                                    *)
Wanted == [i \in 1 .. 6 |-> Redact[Rendered(TextFiles[i])]]

TextsFirst(entries, wanted) == \A i \in DOMAIN entries : i <= 6 => entries[i].text = wanted[i]

(* A file that may come i-th.                                              *)
Fits(file, i, asked) == IF i <= 6 THEN file = TextFiles[i] ELSE asked /\ file \in Attachments

(* A start of the archive, whose last text may be cut.                     *)
Started(entries, wanted, asked) ==
  /\ entries \in Seq(Entry)
  /\ \A i, j \in DOMAIN entries : entries[i].file = entries[j].file => i = j
  /\ \A i \in DOMAIN entries :
       /\ Fits(entries[i].file, i, asked)
       /\ i <= 6 => NamesAreGone(entries[i].text)
       /\ i <= 6 /\ i < Len(entries) => entries[i].text = wanted[i]

(* Of the crashes passed, every dump that stayed and could be read.        *)
Attached(names, passed, all) ==
  \A k \in 1 .. passed : CrashDumps[k] \in all \ Oversized => FileName[CrashDumps[k]] \in ToSet(names)

BundleInv ==
  /\ archive \in Archives /\ message \in Messages /\ includeDumps \in BOOLEAN
  /\ Started(archive.entries, Wanted, includeDumps)
  /\ kept \subseteq dumps /\ dumps \subseteq ToSet(CrashDumps) \ {None}
  /\ building \in {"create", "texts", "dumps", "read", "written", "failed"}
  /\ nextCrash \in 0 .. Len(CrashDumps)
  /\ building \in {"create", "texts"} => nextCrash = 0
  /\ building = "create" => archive.entries = <<>> /\ bundle = <<>>
  /\ building = "texts" => Len(bundle) < 6
  /\ building # "failed" => Listed(archive.entries, bundle) /\ TextsFirst(archive.entries, Wanted)
  /\ building \in {"dumps", "read", "written"} => Len(bundle) >= 6
  /\ building \in {"dumps", "written"} => Attached(bundle, nextCrash, kept)
  /\ building = "read" => /\ includeDumps /\ nextCrash > 0
                          /\ Attached(bundle, nextCrash - 1, kept)
                          /\ CrashDumps[nextCrash] \notin Oversized \cup {None}
  /\ building = "written" => /\ archive.state = "finished"
                             /\ includeDumps => nextCrash = Len(CrashDumps)

LEMMA SixTexts == Len(TextFiles) = 6 /\ DOMAIN TextFiles = 1 .. 6 /\ TextFiles \in Seq(ToSet(TextFiles))
BY DEF TextFiles, ToSet

LEMMA WantedStays == message' = message => Wanted' = Wanted
BY DEF Wanted, Rendered

LEMMA NothingYet ==
  /\ <<>> \in Seq(Entry) /\ \A w, a : Started(<<>>, w, a)
  /\ Listed(<<>>, <<>>) /\ \A w : TextsFirst(<<>>, w)
<1>1. \A E : <<>> \in Seq(E) /\ Len(<<>>) = 0 /\ DOMAIN <<>> = {}
  OBVIOUS
<1>2. QED
  BY <1>1 DEF Started, Listed, TextsFirst

LEMMA InitBundle == Init => BundleInv
<1> SUFFICES ASSUME BundleInit PROVE BundleInv
  BY DEF Init
<1>1. archive \in Archives /\ archive.entries = <<>>
  <2>1. archive \in [state : {"absent", "earlier"}, entries : {<<>>}]
    BY DEF BundleInit
  <2>2. QED
    BY <2>1, NothingYet DEF Archives, States
<1>2. Len(CrashDumps) \in Nat
  BY BundleAssumption
<1>3. QED
  BY <1>1, <1>2, NothingYet DEF BundleInit, BundleInv

(* The end of a list, one longer.                                          *)
LEMMA OneMore ==
  ASSUME NEW A, NEW s \in Seq(A), NEW x \in A
  PROVE  /\ Append(s, x) \in Seq(A) /\ Len(s) \in Nat /\ DOMAIN s = 1 .. Len(s)
         /\ Len(Append(s, x)) = Len(s) + 1 /\ DOMAIN Append(s, x) = 1 .. Len(s) + 1
         /\ Append(s, x)[Len(s) + 1] = x
         /\ \A i \in 1 .. Len(s) : Append(s, x)[i] = s[i] /\ i \in 1 .. Len(s) + 1 /\ i < Len(s) + 1
         /\ \A i \in 1 .. Len(s) + 1 : i \in 1 .. Len(s) \/ i = Len(s) + 1
         /\ Len(s) + 1 \in 1 .. Len(s) + 1
OBVIOUS

(* A start with its texts whole, and one more entry, is a start.           *)
LEMMA StartGrows ==
  ASSUME NEW es, NEW wanted, NEW asked, Started(es, wanted, asked), TextsFirst(es, wanted),
         NEW e \in Entry, \A j \in DOMAIN es : es[j].file # e.file,
         Fits(e.file, Len(es) + 1, asked), Len(es) + 1 <= 6 => NamesAreGone(e.text)
  PROVE  Started(Append(es, e), wanted, asked)
<1> DEFINE n == Len(es)
           more == Append(es, e)
           E == Entry
<1>1. es \in Seq(E)
  BY DEF Started
<1>2. e \in E
  OBVIOUS
<1> HIDE DEF E
<1>3. /\ more \in Seq(E) /\ n \in Nat /\ DOMAIN es = 1 .. n
      /\ Len(more) = n + 1 /\ DOMAIN more = 1 .. n + 1
      /\ more[n + 1] = e
      /\ \A i \in 1 .. n : more[i] = es[i] /\ i \in 1 .. n + 1 /\ i < n + 1
      /\ \A i \in 1 .. n + 1 : i \in 1 .. n \/ i = n + 1
  BY <1>1, <1>2, OneMore
<1>4. /\ Fits(e.file, n + 1, asked) /\ (n + 1 <= 6 => NamesAreGone(e.text))
      /\ \A j \in 1 .. n : es[j].file # e.file
  BY <1>3
<1>5. /\ \A i, j \in 1 .. n : es[i].file = es[j].file => i = j
      /\ \A i \in 1 .. n : /\ Fits(es[i].file, i, asked)
                           /\ i <= 6 => NamesAreGone(es[i].text)
                           /\ i <= 6 => es[i].text = wanted[i]
  BY <1>3 DEF Started, TextsFirst
<1> HIDE DEF n, more
<1>6. \A i, j \in DOMAIN more : more[i].file = more[j].file => i = j
  BY <1>3, <1>4, <1>5
<1>7. ASSUME NEW i \in DOMAIN more
      PROVE  /\ Fits(more[i].file, i, asked)
             /\ i <= 6 => NamesAreGone(more[i].text)
             /\ i <= 6 /\ i < Len(more) => more[i].text = wanted[i]
  <2>1. CASE i \in 1 .. n
    BY <1>3, <1>5, <2>1
  <2>2. CASE i = n + 1
    <3>1. ~(i < Len(more))
      BY <1>3, <2>2
    <3>2. QED
      BY <1>3, <1>4, <2>2, <3>1
  <2>3. QED
    BY <1>3, <2>1, <2>2
<1>8. QED
  BY <1>3, <1>6, <1>7 DEF Started, E, more

(* A start of a text holds no name that the text does not hold.            *)
LEMMA CutIs ==
  ASSUME NEW entry \in Entry, NEW e \in CutOff(entry)
  PROVE  /\ e \in Entry /\ e.file = entry.file
         /\ NamesAreGone(entry.text) => NamesAreGone(e.text)
<1> DEFINE t == entry.text
           W == Words
<1>1. PICK n \in 0 .. Len(t) : e = [entry EXCEPT !.text = SubSeq(t, 1, n)]
  BY DEF CutOff
<1> DEFINE s == SubSeq(t, 1, n)
<1>2. entry \in [file : FileNames, text : Seq(W)] /\ t \in Seq(W) /\ Entry = [file : FileNames, text : Seq(W)]
  BY DEF Entry, Texts
<1> HIDE DEF W
<1>3. Len(t) \in Nat /\ DOMAIN t = 1 .. Len(t) /\ n \in Nat
  BY <1>2
<1>4. \A i \in 1 .. n : t[i] \in W
  BY <1>2, <1>3
<1>5. s \in Seq(W) /\ DOMAIN s = 1 .. n /\ \A i \in 1 .. n : s[i] = t[i]
  <2> HIDE DEF t
  <2>1. /\ s \in Seq(W) /\ Len(s) = (IF 1 <= n THEN n - 1 + 1 ELSE 0)
        /\ \A i \in 1 .. n - 1 + 1 : s[i] = t[1 + i - 1]
    BY <1>3, <1>4, SubSeqProperties
  <2> HIDE DEF s
  <2>2. Len(s) = n /\ \A i \in 1 .. n : i \in 1 .. n - 1 + 1 /\ 1 + i - 1 = i
    BY <1>3, <2>1
  <2>3. QED
    BY <2>1, <2>2
<1>6. ASSUME NEW needle PROVE Occurs(s, needle) \subseteq Occurs(t, needle)
  <2> HIDE DEF s, t
  <2>1. \A i \in DOMAIN s : i \in DOMAIN t /\ s[i] = t[i]
    <3>1. \A i \in 1 .. n : i \in 1 .. Len(t)
      BY <1>1, <1>3
    <3>2. QED
      BY <1>3, <1>5, <3>1
  <2>2. QED
    BY <2>1, Zenon DEF Occurs
<1> HIDE DEF s
<1>7. e \in Entry /\ e.file = entry.file /\ e.text = s
  <2> DEFINE F == FileNames
             T == Seq(W)
  <2>1. entry \in [file : F, text : T] /\ s \in T
    BY <1>2, <1>5
  <2>2. e = [entry EXCEPT !.text = s]
    BY <1>1 DEF s
  <2> HIDE DEF F, T
  <2>3. e \in [file : F, text : T] /\ e.file = entry.file /\ e.text = s
    BY <2>1, <2>2
  <2>4. QED
    BY <1>2, <2>3 DEF F, T
<1>8. NamesAreGone(t) => NamesAreGone(s)
  BY <1>6 DEF NamesAreGone
<1>9. QED
  BY <1>7, <1>8

(* Writing an entry: it is there and returned, or building has failed, and *)
(* what is there is a start in either case.                                *)
LEMMA WriteIs ==
  ASSUME archive \in Archives, NEW wanted, NEW asked, Started(archive.entries, wanted, asked),
         Listed(archive.entries, bundle), TextsFirst(archive.entries, wanted),
         NEW entry \in Entry, NEW then, Write(entry, then),
         Fits(entry.file, Len(bundle) + 1, asked),
         Len(bundle) + 1 <= 6 => NamesAreGone(entry.text) /\ entry.text = wanted[Len(bundle) + 1]
  PROVE  /\ archive' \in Archives /\ Started(archive'.entries, wanted, asked)
         /\ \/ /\ building' = then /\ Listed(archive'.entries, bundle')
               /\ TextsFirst(archive'.entries, wanted)
               /\ Len(bundle) \in Nat /\ Len(bundle') = Len(bundle) + 1
               /\ ToSet(bundle') = ToSet(bundle) \cup {entry.file}
            \/ building' = "failed"
<1> DEFINE es == archive.entries
           n == Len(bundle)
           F == FileNames
           E == Entry
<1>1. es \in Seq(E) /\ bundle \in Seq(F) /\ Len(es) = n /\ entry.file \in F
  BY DEF Started, Listed, Entry
<1>2. n \in Nat /\ DOMAIN bundle = 1 .. n /\ DOMAIN es = 1 .. n
  BY <1>1
<1>3. /\ Started(es, wanted, asked) /\ TextsFirst(es, wanted) /\ Listed(es, bundle)
      /\ Fits(entry.file, n + 1, asked)
      /\ n + 1 <= 6 => NamesAreGone(entry.text) /\ entry.text = wanted[n + 1]
  OBVIOUS
<1>4. entry.file \notin ToSet(bundle) => \A j \in DOMAIN es : es[j].file # entry.file
  BY <1>2 DEF Listed, ToSet
<1>5. ASSUME NEW e \in Entry, e.file = entry.file, entry.file \notin ToSet(bundle),
             NamesAreGone(entry.text) => NamesAreGone(e.text)
      PROVE  Started(Append(es, e), wanted, asked)
  <2> HIDE DEF es, n
  <2>1. \A j \in DOMAIN es : es[j].file # e.file
    BY <1>4, <1>5
  <2>2. Fits(e.file, Len(es) + 1, asked) /\ (Len(es) + 1 <= 6 => NamesAreGone(e.text))
    BY <1>1, <1>3, <1>5
  <2>3. QED
    BY <1>3, <2>1, <2>2, StartGrows
<1>6. \A q : Started(q, wanted, asked) => q \in Seq(Entry)
  BY DEF Started
<1>7. CASE /\ entry.file \notin ToSet(bundle) /\ building' = then
           /\ archive' = [archive EXCEPT !.entries = Append(@, entry)]
           /\ bundle' = Append(bundle, entry.file)
  <2> DEFINE more == Append(es, entry)
             names == Append(bundle, entry.file)
             Q == Seq(Entry)
  <2>1. Started(more, wanted, asked) /\ more \in Q
    BY <1>5, <1>6, <1>7
  <2>2. archive' \in Archives /\ archive'.entries = more
    <3> DEFINE a == archive
    <3>1. archive' = [a EXCEPT !.entries = more] /\ a \in [state : States, entries : Q]
          /\ Archives = [state : States, entries : Q]
      BY <1>7 DEF Archives
    <3> HIDE DEF a, more, Q
    <3>2. QED
      BY <2>1, <3>1
  <2>3. /\ names \in Seq(F) /\ Len(names) = n + 1 /\ DOMAIN names = 1 .. n + 1
        /\ names[n + 1] = entry.file
        /\ \A i \in 1 .. n : names[i] = bundle[i] /\ i \in 1 .. n + 1
        /\ \A i \in 1 .. n + 1 : i \in 1 .. n \/ i = n + 1
        /\ n + 1 \in 1 .. n + 1
    <3> HIDE DEF F
    <3>1. QED
      BY <1>1, OneMore
  <2>4. /\ Len(more) = n + 1 /\ DOMAIN more = 1 .. n + 1 /\ more[n + 1] = entry
        /\ \A i \in 1 .. n : more[i] = es[i]
    <3> DEFINE m == Len(es)
    <3>1. /\ Len(more) = m + 1 /\ DOMAIN more = 1 .. m + 1 /\ more[m + 1] = entry
          /\ \A i \in 1 .. m : more[i] = es[i]
      <4>1. es \in Seq(E) /\ entry \in E
        BY <1>1
      <4> HIDE DEF E, es
      <4>2. QED
        BY <4>1, OneMore
    <3>2. m = n
      BY <1>1
    <3>3. QED
      BY <3>1, <3>2
  <2> HIDE DEF names, more, n
  <2>5. Listed(more, names)
    <3>1. \A i \in 1 .. n : bundle[i] = es[i].file
      BY <1>2 DEF Listed
    <3>2. \A i \in 1 .. n + 1 : names[i] = more[i].file
      BY <2>3, <2>4, <3>1
    <3>3. QED
      BY <2>3, <2>4, <3>2 DEF Listed
  <2>6. TextsFirst(more, wanted)
    <3>1. \A i \in 1 .. n : i <= 6 => more[i].text = wanted[i]
      BY <1>2, <1>3, <2>4 DEF TextsFirst
    <3>2. QED
      BY <1>3, <2>3, <2>4, <3>1 DEF TextsFirst
  <2>7. ToSet(names) = ToSet(bundle) \cup {entry.file}
    BY <1>2, <2>3 DEF ToSet
  <2>8. bundle' = names
    BY <1>7 DEF names
  <2>9. QED
    BY <1>2, <1>7, <2>1, <2>2, <2>3, <2>5, <2>6, <2>7, <2>8 DEF n
<1>8. ASSUME NEW kinds, kinds \subseteq {q \in Seq(Entry) : Started(q, wanted, asked)}, Dropped(kinds)
      PROVE  archive' \in Archives /\ Started(archive'.entries, wanted, asked) /\ building' = "failed"
  <2>1. archive' \in [state : {"unfinished", "finished"}, entries : kinds] /\ building' = "failed"
    BY <1>8 DEF Dropped
  <2>2. archive'.entries \in kinds /\ archive' \in [state : States, entries : Seq(Entry)]
    <3> DEFINE Q == Seq(Entry)
    <3>1. kinds \subseteq Q
      BY <1>8
    <3> HIDE DEF Q
    <3>2. archive'.entries \in kinds /\ archive' \in [state : States, entries : Q]
      BY <2>1, <3>1 DEF States
    <3>3. QED
      BY <3>2 DEF Q
  <2>3. QED
    BY <1>8, <2>1, <2>2 DEF Archives
<1>9. CASE /\ entry.file \notin ToSet(bundle)
           /\ Dropped({Append(es, e) : e \in CutOff(entry)})
  <2>1. ASSUME NEW e \in CutOff(entry) PROVE Started(Append(es, e), wanted, asked)
    <3>1. e \in Entry /\ e.file = entry.file /\ (NamesAreGone(entry.text) => NamesAreGone(e.text))
      BY CutIs
    <3>2. QED
      BY <1>5, <1>9, <3>1
  <2>2. {Append(es, e) : e \in CutOff(entry)} \subseteq {q \in Seq(Entry) : Started(q, wanted, asked)}
    BY <1>6, <2>1
  <2>3. QED
    BY <1>8, <1>9, <2>2
<1>10. CASE Dropped({es})
  <2>1. {es} \subseteq {q \in Seq(Entry) : Started(q, wanted, asked)}
    BY <1>3, <1>6
  <2>2. QED
    BY <1>8, <1>10, <2>1
<1>11. QED
  BY <1>7, <1>9, <1>10 DEF Write

LEMMA CreateArchiveKeeps == BundleInv /\ CreateArchive => BundleInv'
<1> SUFFICES ASSUME BundleInv, CreateArchive PROVE BundleInv'
  OBVIOUS
<1>1. /\ building = "create" /\ bundle = <<>> /\ nextCrash = 0
      /\ UNCHANGED <<message, includeDumps, dumps, kept, nextCrash, bundle>>
      /\ \/ building' = "texts" /\ archive' = [state |-> "unfinished", entries |-> <<>>]
         \/ building' = "failed" /\ archive' = archive
  BY DEF CreateArchive, BundleInv, reportVars
<1>2. CASE building' = "failed" /\ archive' = archive
  BY <1>1, <1>2, WantedStays DEF BundleInv
<1>3. CASE building' = "texts" /\ archive' = [state |-> "unfinished", entries |-> <<>>]
  <2>1. archive' \in Archives /\ archive'.entries = <<>>
    BY <1>3, NothingYet DEF Archives, States
  <2>2. Len(bundle') < 6
    BY <1>1
  <2>3. Started(archive'.entries, Wanted', includeDumps')
        /\ Listed(archive'.entries, bundle') /\ TextsFirst(archive'.entries, Wanted')
    BY <1>1, <2>1, NothingYet
  <2>4. QED
    BY <1>1, <1>3, <2>1, <2>2, <2>3 DEF BundleInv
<1>4. QED
  BY <1>1, <1>2, <1>3

LEMMA AddTextKeeps == BundleInv /\ AddText => BundleInv'
<1> SUFFICES ASSUME BundleInv, AddText PROVE BundleInv'
  OBVIOUS
<1> DEFINE n == Len(bundle)
           file == TextFiles[n + 1]
           entry == [file |-> file, text |-> Redact[Rendered(file)]]
           then == IF n + 1 < Len(TextFiles) THEN "texts" ELSE "dumps"
<1>1. /\ building = "texts" /\ Write(entry, then) /\ nextCrash = 0 /\ n < 6 /\ archive \in Archives
      /\ Listed(archive.entries, bundle) /\ TextsFirst(archive.entries, Wanted)
      /\ Started(archive.entries, Wanted, includeDumps) /\ message \in Messages
      /\ UNCHANGED <<message, includeDumps, dumps, kept, nextCrash>>
  BY DEF AddText, BundleInv, reportVars
<1>2. n \in Nat /\ n + 1 \in 1 .. 6 /\ n + 1 <= 6
  BY <1>1 DEF Listed
<1>3. file \in FileNames
  <2>1. n + 1 \in DOMAIN TextFiles
    BY <1>2, SixTexts
  <2>2. QED
    BY <2>1 DEF FileNames, ToSet
<1>4. Rendered(file) \in Renderings
  BY <1>1 DEF Rendered, Renderings
<1>5. Redact[Rendered(file)] \in Texts /\ NamesAreGone(Redact[Rendered(file)])
  <2>1. Redacted(file, Redact[Rendered(file)])
    BY <1>4, RedactionHolds
  <2>2. QED
    BY <1>4, <2>1, RedactIs DEF Redacted, IsStage
<1>6. entry \in Entry /\ entry.file = file /\ entry.text = Redact[Rendered(file)]
  BY <1>3, <1>5 DEF Entry
<1>7. /\ Fits(entry.file, n + 1, includeDumps)
      /\ NamesAreGone(entry.text) /\ entry.text = Wanted[n + 1]
  BY <1>2, <1>5, <1>6 DEF Fits, Wanted
<1>8. then = (IF n + 1 < 6 THEN "texts" ELSE "dumps")
  BY SixTexts
<1> HIDE DEF entry, then
<1>9. /\ archive' \in Archives /\ Started(archive'.entries, Wanted, includeDumps)
      /\ \/ /\ building' = then /\ Listed(archive'.entries, bundle')
            /\ TextsFirst(archive'.entries, Wanted)
            /\ n \in Nat /\ Len(bundle') = n + 1
         \/ building' = "failed"
  BY <1>1, <1>6, <1>7, WriteIs
<1>10. Wanted' = Wanted /\ includeDumps' = includeDumps
  BY <1>1, WantedStays
<1> HIDE DEF n
<1>11. CASE building' = "failed"
  BY <1>1, <1>9, <1>10, <1>11 DEF BundleInv
<1>12. CASE /\ building' = then /\ Listed(archive'.entries, bundle')
            /\ TextsFirst(archive'.entries, Wanted) /\ Len(bundle') = n + 1
  <2>1. CASE n + 1 < 6
    <3>1. building' = "texts"
      BY <1>8, <1>12, <2>1
    <3>2. QED
      BY <1>1, <1>9, <1>10, <1>12, <2>1, <3>1 DEF BundleInv
  <2>2. CASE ~(n + 1 < 6)
    <3>1. building' = "dumps" /\ Len(bundle') >= 6
      BY <1>2, <1>8, <1>12, <2>2
    <3>2. \A k \in 1 .. nextCrash' : FALSE
      BY <1>1
    <3>3. Attached(bundle', nextCrash', kept')
      BY <3>2 DEF Attached
    <3>4. QED
      BY <1>1, <1>9, <1>10, <1>12, <3>1, <3>3 DEF BundleInv
  <2>3. QED
    BY <2>1, <2>2
<1>13. QED
  BY <1>9, <1>11, <1>12

(* One crash more was passed: its dump was attached, or did not stay.      *)
LEMMA OnePassed ==
  ASSUME NEW names, NEW more, NEW all, NEW less, NEW k \in Nat, Attached(names, k, all), less \subseteq all,
         ToSet(names) \subseteq ToSet(more),
         CrashDumps[k + 1] \in less \ Oversized => FileName[CrashDumps[k + 1]] \in ToSet(more)
  PROVE  Attached(more, k + 1, less)
<1>1. \A i \in 1 .. k + 1 : i \in 1 .. k \/ i = k + 1
  OBVIOUS
<1>2. QED
  BY <1>1 DEF Attached

LEMMA CheckDumpKeeps == BundleInv /\ CheckDump => BundleInv'
<1> SUFFICES ASSUME BundleInv, CheckDump PROVE BundleInv'
  OBVIOUS
<1> DEFINE next == nextCrash + 1
           d == CrashDumps[next]
<1>1. /\ building = "dumps" /\ includeDumps /\ nextCrash < Len(CrashDumps) /\ nextCrash' = next
      /\ \/ Attachable(d) /\ building' = "read" /\ kept' = kept
         \/ building' = "dumps" /\ kept' = kept \ {d}
      /\ UNCHANGED <<message, includeDumps, dumps, archive, bundle>>
  BY DEF CheckDump, PassOver, reportVars
<1>2. /\ nextCrash \in 0 .. Len(CrashDumps) /\ Len(CrashDumps) \in Nat /\ kept \subseteq dumps
      /\ dumps \subseteq ToSet(CrashDumps) \ {None} /\ message \in Messages
      /\ Attached(bundle, nextCrash, kept) /\ Len(bundle) >= 6
      /\ archive \in Archives /\ Started(archive.entries, Wanted, includeDumps)
      /\ Listed(archive.entries, bundle) /\ TextsFirst(archive.entries, Wanted)
  BY <1>1, BundleAssumption DEF BundleInv
<1>3. nextCrash \in Nat /\ next \in 0 .. Len(CrashDumps) /\ next > 0 /\ next - 1 = nextCrash
  BY <1>1, <1>2
<1>4. Wanted' = Wanted
  BY <1>1, WantedStays
<1>5. CASE Attachable(d) /\ building' = "read" /\ kept' = kept
  <2>1. CrashDumps[nextCrash'] \notin Oversized \cup {None}
    BY <1>1, <1>5 DEF Attachable
  <2>2. Attached(bundle', nextCrash' - 1, kept')
    BY <1>1, <1>2, <1>3, <1>5
  <2>3. QED
    BY <1>1, <1>2, <1>3, <1>4, <1>5, <2>1, <2>2 DEF BundleInv
<1>6. CASE building' = "dumps" /\ kept' = kept \ {d}
  <2>1. Attached(bundle, next, kept')
    BY <1>2, <1>3, <1>6, OnePassed
  <2> HIDE DEF next
  <2>2. QED
    BY <1>1, <1>2, <1>3, <1>4, <1>6, <2>1 DEF BundleInv
<1>7. QED
  BY <1>1, <1>5, <1>6

LEMMA AddDumpKeeps == BundleInv /\ AddDump => BundleInv'
<1> SUFFICES ASSUME BundleInv, AddDump PROVE BundleInv'
  OBVIOUS
<1> DEFINE d == CrashDumps[nextCrash]
           entry == [file |-> FileName[d], text |-> <<>>]
           before == nextCrash - 1
<1>1. /\ building = "read"
      /\ UNCHANGED <<message, includeDumps, dumps, nextCrash>>
      /\ \/ d \in dumps /\ Write(entry, "dumps") /\ kept' = kept
         \/ building' = "dumps" /\ kept' = kept \ {d} /\ archive' = archive /\ bundle' = bundle
  BY DEF AddDump, PassOver, reportVars
<1>2. /\ nextCrash \in 0 .. Len(CrashDumps) /\ Len(CrashDumps) \in Nat /\ kept \subseteq dumps
      /\ dumps \subseteq ToSet(CrashDumps) \ {None} /\ message \in Messages
      /\ includeDumps /\ nextCrash > 0 /\ Attached(bundle, before, kept) /\ Len(bundle) >= 6
      /\ d \notin Oversized \cup {None}
      /\ archive \in Archives /\ Started(archive.entries, Wanted, includeDumps)
      /\ Listed(archive.entries, bundle) /\ TextsFirst(archive.entries, Wanted)
  BY <1>1, BundleAssumption DEF BundleInv
<1>3. before \in Nat /\ before + 1 = nextCrash
  BY <1>2
<1>4. Wanted' = Wanted
  BY <1>1, WantedStays
<1>5. CASE building' = "dumps" /\ kept' = kept \ {d} /\ archive' = archive /\ bundle' = bundle
  <2>1. Attached(bundle, before + 1, kept')
    <3>1. kept' \subseteq kept /\ CrashDumps[before + 1] \notin kept'
      BY <1>3, <1>5
    <3> HIDE DEF before
    <3>2. QED
      BY <1>2, <1>3, <3>1, OnePassed
  <2>2. Attached(bundle', nextCrash', kept')
    BY <1>1, <1>3, <1>5, <2>1
  <2>3. QED
    BY <1>1, <1>2, <1>4, <1>5, <2>2 DEF BundleInv
<1>6. CASE d \in dumps /\ Write(entry, "dumps") /\ kept' = kept
  <2>1. FileName[d] \in Attachments
    BY <1>2, <1>6 DEF Attachments
  <2>2. entry \in Entry /\ entry.file = FileName[d]
    <3>1. \A A : <<>> \in Seq(A)
      OBVIOUS
    <3>2. QED
      BY <2>1, <3>1 DEF Entry, FileNames, Texts
  <2> HIDE DEF entry, d
  <2>3. Len(bundle) \in Nat /\ ~(Len(bundle) + 1 <= 6)
    BY <1>2 DEF Listed
  <2>4. Fits(entry.file, Len(bundle) + 1, includeDumps)
    BY <1>2, <2>1, <2>2, <2>3 DEF Fits
  <2>5. /\ archive' \in Archives /\ Started(archive'.entries, Wanted, includeDumps)
        /\ \/ /\ building' = "dumps" /\ Listed(archive'.entries, bundle')
              /\ TextsFirst(archive'.entries, Wanted)
              /\ Len(bundle) \in Nat /\ Len(bundle') = Len(bundle) + 1
              /\ ToSet(bundle') = ToSet(bundle) \cup {FileName[d]}
           \/ building' = "failed"
    BY <1>2, <1>6, <2>2, <2>3, <2>4, WriteIs
  <2>6. CASE building' = "failed"
    BY <1>1, <1>2, <1>4, <1>6, <2>5, <2>6 DEF BundleInv
  <2>7. CASE /\ building' = "dumps" /\ Listed(archive'.entries, bundle')
             /\ TextsFirst(archive'.entries, Wanted)
             /\ Len(bundle) \in Nat /\ Len(bundle') = Len(bundle) + 1
             /\ ToSet(bundle') = ToSet(bundle) \cup {FileName[d]}
    <3>1. Len(bundle') >= 6
      BY <1>2, <2>7
    <3>2. Attached(bundle', before + 1, kept)
      <4>1. FileName[CrashDumps[before + 1]] \in ToSet(bundle') /\ ToSet(bundle) \subseteq ToSet(bundle')
        BY <1>3, <2>7 DEF d
      <4> HIDE DEF before
      <4>2. QED
        BY <1>2, <1>3, <4>1, OnePassed
    <3>3. Attached(bundle', nextCrash', kept')
      BY <1>1, <1>3, <1>6, <3>2
    <3>4. QED
      BY <1>1, <1>2, <1>4, <1>6, <2>5, <2>7, <3>1, <3>3 DEF BundleInv
  <2>8. QED
    BY <2>5, <2>6, <2>7
<1>7. QED
  BY <1>1, <1>5, <1>6

LEMMA FinishArchiveKeeps == BundleInv /\ FinishArchive => BundleInv'
<1> SUFFICES ASSUME BundleInv, FinishArchive PROVE BundleInv'
  OBVIOUS
<1>1. /\ building = "dumps" /\ (includeDumps => nextCrash = Len(CrashDumps))
      /\ \/ building' = "written" /\ archive' = [archive EXCEPT !.state = "finished"]
         \/ building' = "failed" /\ archive' \in [state : {"unfinished", "finished"}, entries : {archive.entries}]
      /\ UNCHANGED <<message, includeDumps, dumps, kept, nextCrash, bundle>>
  BY DEF FinishArchive, Dropped, reportVars
<1>2. archive \in Archives /\ Wanted' = Wanted
  BY <1>1, WantedStays DEF BundleInv
<1>3. /\ archive' \in Archives /\ archive'.entries = archive.entries
      /\ building' = "written" => archive'.state = "finished"
  <2> DEFINE Q == Seq(Entry)
             a == archive
  <2>1. Archives = [state : States, entries : Q] /\ a \in [state : States, entries : Q]
        /\ "finished" \in States /\ "unfinished" \in States
    BY <1>2 DEF Archives, States
  <2>2. \/ building' = "written" /\ archive' = [a EXCEPT !.state = "finished"]
        \/ building' = "failed" /\ archive' \in [state : {"unfinished", "finished"}, entries : {a.entries}]
    BY <1>1
  <2> HIDE DEF Q, a
  <2>3. /\ archive' \in [state : States, entries : Q] /\ archive'.entries = a.entries
        /\ building' = "written" => archive'.state = "finished"
    BY <2>1, <2>2
  <2>4. QED
    BY <2>1, <2>3 DEF a
<1>4. QED
  BY <1>1, <1>2, <1>3 DEF BundleInv

LEMMA DumpDeletedKeeps == BundleInv /\ DumpDeleted => BundleInv'
<1> SUFFICES ASSUME BundleInv, DumpDeleted PROVE BundleInv'
  OBVIOUS
<1>1. /\ building \notin {"written", "failed"}
      /\ \E d \in dumps : dumps' = dumps \ {d} /\ kept' = kept \ {d}
      /\ UNCHANGED <<message, includeDumps, archive, building, nextCrash, bundle>>
  BY DEF DumpDeleted, reportVars
<1>2. /\ kept' \subseteq kept /\ kept' \subseteq dumps' /\ dumps' \subseteq dumps
  BY <1>1 DEF BundleInv
<1>3. \A names, passed : Attached(names, passed, kept) => Attached(names, passed, kept')
  BY <1>2 DEF Attached
<1>4. QED
  BY <1>1, <1>2, <1>3, WantedStays DEF BundleInv

LEMMA NextBundle == BundleInv /\ [Next]_partVars => BundleInv'
<1> SUFFICES ASSUME BundleInv, [Next]_partVars PROVE BundleInv'
  OBVIOUS
<1>1. CASE UNCHANGED bundleVars
  <2>1. Wanted' = Wanted
    BY <1>1, WantedStays DEF bundleVars
  <2>2. QED
    BY <1>1, <2>1 DEF BundleInv, bundleVars
<1>2. QED
  BY <1>1, BundleSteps, CreateArchiveKeeps, AddTextKeeps, CheckDumpKeeps, AddDumpKeeps,
     FinishArchiveKeeps, DumpDeletedKeeps

(* For any crashes, dumps that go or cannot be read and writes that fail:  *)
(* what an archive holds is a start of the whole one, of which a bundle    *)
(* called written holds the six texts and each dump that stayed; no usable *)
(* name is left in a text, and each profile path was replaced as a whole,  *)
(* whatever the message says and however long the names are (bundle.rs     *)
(* 29-120, 212-259).                                                       *)
THEOREM WrittenIsWhole == Spec => []BundleIsWhole
<1>1. BundleInv => FilesAreInOrder
  <2> SUFFICES ASSUME Started(archive.entries, Wanted, includeDumps) PROVE FilesAreInOrder
    BY DEF BundleInv
  <2>1. Len(TextFiles) = 6
    BY SixTexts
  <2>2. QED
    BY <2>1 DEF Started, Fits, FilesAreInOrder
<1>2. BundleInv => NamesAreReplaced
  <2> SUFFICES ASSUME BundleInv, NEW i \in DOMAIN archive.entries, i <= 6
               PROVE  /\ NamesAreGone(archive.entries[i].text)
                      /\ building # "failed" \/ i < Len(archive.entries) =>
                           ProfilesAreMarked(archive.entries[i].file, archive.entries[i].text)
    BY SixTexts DEF NamesAreReplaced
  <2>1. /\ Started(archive.entries, Wanted, includeDumps) /\ message \in Messages
        /\ building # "failed" => TextsFirst(archive.entries, Wanted)
    BY DEF BundleInv
  <2>2. NamesAreGone(archive.entries[i].text) /\ archive.entries[i].file = TextFiles[i]
    BY <2>1 DEF Started, Fits
  <2>3. ASSUME building # "failed" \/ i < Len(archive.entries)
        PROVE  ProfilesAreMarked(archive.entries[i].file, archive.entries[i].text)
    <3>1. archive.entries[i].text = Wanted[i]
      BY <2>1, <2>3 DEF Started, TextsFirst
    <3>2. i \in 1 .. 6
      <4>1. archive.entries \in Seq(Entry)
        BY <2>1 DEF Started
      <4>2. QED
        BY <4>1
    <3>3. Rendered(TextFiles[i]) \in Renderings
      BY <2>1 DEF Rendered, Renderings
    <3>4. Redacted(TextFiles[i], Redact[Rendered(TextFiles[i])])
      BY <3>3, RedactionHolds
    <3>5. QED
      BY <2>2, <3>1, <3>2, <3>4 DEF Redacted, Wanted
  <2>4. QED
    BY <2>2, <2>3
<1>3. BundleInv /\ building = "written" => archive.state = "finished" /\ EntriesAreTrue
  <2> SUFFICES ASSUME BundleInv, building = "written" PROVE archive.state = "finished" /\ EntriesAreTrue
    OBVIOUS
  <2>1. /\ archive.state = "finished" /\ Listed(archive.entries, bundle)
        /\ Len(bundle) >= 6 /\ Attached(bundle, nextCrash, kept)
        /\ Started(archive.entries, Wanted, includeDumps)
        /\ includeDumps => nextCrash = Len(CrashDumps)
        /\ kept \subseteq ToSet(CrashDumps) \ {None}
    BY DEF BundleInv
  <2>2. bundle = [i \in DOMAIN archive.entries |-> archive.entries[i].file]
    <3> DEFINE n == Len(bundle)
               F == FileNames
               E == Entry
               es == archive.entries
    <3>1. bundle \in Seq(F) /\ es \in Seq(E) /\ Len(es) = n
          /\ \A i \in DOMAIN bundle : bundle[i] = es[i].file
      BY <2>1 DEF Listed, Started
    <3> HIDE DEF F, E, es
    <3>2. DOMAIN bundle = 1 .. n /\ DOMAIN es = 1 .. n /\ bundle = [i \in 1 .. n |-> bundle[i]]
      BY <3>1
    <3> HIDE DEF n
    <3>3. bundle = [i \in DOMAIN es |-> es[i].file]
      BY <3>1, <3>2
    <3>4. QED
      BY <3>3 DEF es
  <2>3. includeDumps => {FileName[d] : d \in kept \ Oversized} \subseteq ToSet(bundle)
    <3>1. SUFFICES ASSUME includeDumps, NEW d \in kept \ Oversized PROVE FileName[d] \in ToSet(bundle)
      OBVIOUS
    <3>2. DOMAIN CrashDumps = 1 .. nextCrash
      <4>1. CrashDumps \in Seq(ToSet(CrashDumps))
        BY BundleAssumption
      <4>2. QED
        BY <2>1, <3>1, <4>1
    <3>3. PICK k \in 1 .. nextCrash : d = CrashDumps[k]
      BY <2>1, <3>1, <3>2 DEF ToSet
    <3>4. QED
      BY <2>1, <3>1, <3>3 DEF Attached
  <2>4. QED
    BY <2>1, <2>2, <2>3, SixTexts DEF EntriesAreTrue
<1>4. BundleInv => BundleIsWhole
  BY <1>1, <1>2, <1>3 DEF BundleIsWhole
<1>5. QED
  BY <1>4, InitBundle, NextBundle, PTL DEF Spec
=============================================================================
