------------------------- MODULE RevisionReadsProofs -------------------------
(***************************************************************************)
(* Theorems of RevisionReads: what the cache accounts for, and what calls  *)
(* of the reader return, for any tree, any number of callers and any       *)
(* limits.                                                                 *)
(***************************************************************************)
EXTENDS RevisionReads, FiniteSetTheorems, SequenceTheorems, WellFoundedInduction, TLAPS

-----------------------------------------------------------------------------
(* Numbers and sequences. *)

LEMMA LeastElement ==
  ASSUME NEW T \in SUBSET Nat, T # {}
  PROVE  \E m \in T : \A k \in T : m <= k
  <1>1. PICK m \in T : \A k \in T : ~(<<k, m>> \in OpToRel(<, Nat))
    BY NatLessThanWellFounded, WFMin
  <1>2. \A k \in T : ~(k < m)
    BY <1>1 DEF OpToRel
  <1> QED
    BY <1>2

\* Induction, for a set of numbers.
LEMMA AllNumbers ==
  ASSUME NEW S, 0 \in S, \A n \in Nat : n \in S => n + 1 \in S
  PROVE  \A n \in Nat : n \in S
  <1>1. SUFFICES ASSUME Nat \ S # {}
                 PROVE  FALSE
    OBVIOUS
  <1>2. PICK m \in Nat \ S : \A k \in Nat \ S : m <= k
    BY <1>1, LeastElement
  <1>3. m # 0 /\ m - 1 \in Nat /\ m - 1 \notin Nat \ S
    BY <1>2
  <1> QED
    BY <1>2, <1>3

LEMMA Suffix ==
  ASSUME NEW S, NEW seq \in Seq(S), NEW n \in 0 .. Len(seq)
  PROVE  /\ SubSeq(seq, n + 1, Len(seq)) \in Seq(S)
         /\ Len(SubSeq(seq, n + 1, Len(seq))) = Len(seq) - n
         /\ \A j \in 1 .. Len(seq) - n : SubSeq(seq, n + 1, Len(seq))[j] = seq[n + j]
  <1> DEFINE b == SubSeq(seq, n + 1, Len(seq))
             l == Len(seq)
  <1>1. l \in Nat /\ n \in Nat /\ n <= l /\ \A j \in 1 .. l : seq[j] \in S
    BY ElementOfSeq
  <1>2. n + 1 \in Int /\ l \in Int /\ \A j \in n + 1 .. l : seq[j] \in S
    BY <1>1
  <1>3. /\ b \in Seq(S) /\ Len(b) = IF n + 1 <= l THEN l - (n + 1) + 1 ELSE 0
        /\ \A j \in 1 .. l - (n + 1) + 1 : b[j] = seq[(n + 1) + j - 1]
    BY <1>2, SubSeqProperties
  <1> HIDE DEF b, l
  <1>4. Len(b) = l - n
    BY <1>1, <1>3
  <1>5. ASSUME NEW j \in 1 .. l - n
        PROVE  b[j] = seq[n + j]
    <2>1. j \in 1 .. l - (n + 1) + 1 /\ (n + 1) + j - 1 = n + j
      BY <1>1
    <2> QED
      BY <1>3, <2>1
  <1> QED
    BY <1>3, <1>4, <1>5 DEF b, l

LEMMA RemovedAt ==
  ASSUME NEW S, NEW seq \in Seq(S), NEW i \in 1 .. Len(seq)
  PROVE  /\ RemoveAt(seq, i) \in Seq(S)
         /\ Len(RemoveAt(seq, i)) = Len(seq) - 1
         /\ \A j \in 1 .. Len(seq) - 1 :
               RemoveAt(seq, i)[j] = IF j < i THEN seq[j] ELSE seq[j + 1]
  <1> DEFINE a == SubSeq(seq, 1, i - 1)
             b == SubSeq(seq, i + 1, Len(seq))
             l == Len(seq)
  <1>1. l \in Nat /\ i \in Nat /\ 1 <= i /\ i <= l /\ \A j \in 1 .. l : seq[j] \in S
    BY ElementOfSeq
  <1>2. /\ a \in Seq(S) /\ Len(a) = i - 1
        /\ \A j \in 1 .. i - 1 : a[j] = seq[j]
    BY <1>1
  <1>3. /\ b \in Seq(S) /\ Len(b) = l - i
        /\ \A j \in 1 .. l - i : b[j] = seq[i + j]
    BY <1>1, Suffix
  <1> HIDE DEF a, b
  <1>4. /\ a \o b \in Seq(S) /\ Len(a \o b) = (i - 1) + (l - i)
        /\ \A j \in 1 .. (i - 1) + (l - i) :
              (a \o b)[j] = IF j <= i - 1 THEN a[j] ELSE b[j - (i - 1)]
    <2>1. /\ a \o b \in Seq(S) /\ Len(a \o b) = Len(a) + Len(b)
          /\ \A j \in 1 .. Len(a) + Len(b) :
                (a \o b)[j] = IF j <= Len(a) THEN a[j] ELSE b[j - Len(a)]
      BY <1>2, <1>3, ConcatProperties
    <2>2. Len(a) = i - 1 /\ Len(b) = l - i
      BY <1>2, <1>3
    <2> QED
      BY <2>1, <2>2
  <1>5. (i - 1) + (l - i) = l - 1
    BY <1>1
  <1>6. RemoveAt(seq, i) = a \o b
    BY DEF RemoveAt, a, b
  <1>7. ASSUME NEW j \in 1 .. l - 1
        PROVE  (a \o b)[j] = IF j < i THEN seq[j] ELSE seq[j + 1]
    <2>1. CASE j < i
      <3>1. j \in 1 .. i - 1 /\ j \in 1 .. (i - 1) + (l - i) /\ j <= i - 1
        BY <1>1, <1>7, <2>1
      <3> QED
        BY <1>2, <1>4, <2>1, <3>1
    <2>2. CASE ~(j < i)
      <3>1. j - (i - 1) \in 1 .. l - i /\ j \in 1 .. (i - 1) + (l - i) /\ ~(j <= i - 1)
            /\ i + (j - (i - 1)) = j + 1
        BY <1>1, <1>7, <2>2
      <3> QED
        BY <1>3, <1>4, <2>2, <3>1
    <2> QED
      BY <2>1, <2>2
  <1> QED
    BY <1>4, <1>5, <1>6, <1>7

-----------------------------------------------------------------------------
(* The weight of a sequence. *)

Weighed(seq) == Len(seq) \in Nat /\ \A i \in 1 .. Len(seq) : seq[i].weight \in Nat

LEMMA SumsDefined ==
  ASSUME NEW seq, Weighed(seq)
  PROVE  /\ Sums(seq)[0] = 0
         /\ \A n \in 1 .. Len(seq) : Sums(seq)[n] = Sums(seq)[n - 1] + seq[n].weight
         /\ \A n \in 0 .. Len(seq) : Sums(seq)[n] \in Nat
  <1> DEFINE l == Len(seq)
             Grows(f, m) == /\ f[0] = 0
                            /\ \A n \in 1 .. m : f[n] = f[n - 1] + seq[n].weight
             P(m) == m <= l => \E f \in [0 .. m -> Nat] : Grows(f, m)
             S == {m \in Nat : P(m)}
             Sum(f) == [n \in 0 .. l |-> IF n = 0 THEN 0 ELSE f[n - 1] + seq[n].weight]
  <1>1. l \in Nat /\ \A i \in 1 .. l : seq[i].weight \in Nat
    BY DEF Weighed
  <1>2. 0 \in S
    <2>1. Grows([n \in 0 .. 0 |-> 0], 0) /\ [n \in 0 .. 0 |-> 0] \in [0 .. 0 -> Nat]
      OBVIOUS
    <2> QED
      BY <2>1
  <1>3. ASSUME NEW m \in Nat, m \in S
        PROVE  m + 1 \in S
    <2>1. SUFFICES ASSUME m + 1 <= l
                   PROVE  \E f \in [0 .. m + 1 -> Nat] : Grows(f, m + 1)
      <3> HIDE DEF Grows, l
      <3>1. P(m + 1)
        BY <2>1
      <3> HIDE DEF P
      <3> QED
        BY <3>1
    <2>2. PICK f \in [0 .. m -> Nat] : Grows(f, m)
      <3>1. P(m) /\ m <= l
        BY <1>1, <1>3, <2>1
      <3> QED
        BY <3>1
    <2> DEFINE g == [n \in 0 .. m + 1 |-> IF n = m + 1 THEN f[m] + seq[m + 1].weight ELSE f[n]]
    <2>3. m + 1 \in 1 .. l /\ seq[m + 1].weight \in Nat /\ f[m] \in Nat
      BY <1>1, <2>1
    <2>4. g \in [0 .. m + 1 -> Nat]
      BY <2>3
    <2>5. g[0] = 0
      BY <2>2
    <2>6. ASSUME NEW n \in 1 .. m + 1
          PROVE  g[n] = g[n - 1] + seq[n].weight
      <3>1. CASE n = m + 1
        BY <3>1
      <3>2. CASE n # m + 1
        <4>1. n \in 1 .. m /\ n - 1 \in 0 .. m + 1 /\ n - 1 # m + 1 /\ n \in 0 .. m + 1
          BY <3>2
        <4> QED
          BY <2>2, <3>2, <4>1
      <3> QED
        BY <3>1, <3>2
    <2> HIDE DEF g
    <2> QED
      BY <2>4, <2>5, <2>6
  <1> HIDE DEF S
  <1>4. l \in S
    BY <1>1, <1>2, <1>3, AllNumbers
  <1>5. PICK f \in [0 .. l -> Nat] : Grows(f, l)
    BY <1>1, <1>4 DEF S
  <1>6. f = Sum(f)
    <2>1. ASSUME NEW n \in 0 .. l
          PROVE  f[n] = IF n = 0 THEN 0 ELSE f[n - 1] + seq[n].weight
      <3>1. n # 0 => n \in 1 .. l
        BY <1>1
      <3> QED
        BY <1>5, <3>1
    <2> QED
      BY <1>5, <2>1
  <1>7. Sums(seq) = Sum(Sums(seq))
    BY <1>6 DEF Sums
  <1>8. Sums(seq)[0] = 0
    BY <1>1, <1>7
  <1>9. ASSUME NEW n \in 1 .. l
        PROVE  Sums(seq)[n] = Sums(seq)[n - 1] + seq[n].weight
    <2>1. n \in 0 .. l /\ n # 0
      BY <1>1
    <2> QED
      BY <1>7, <2>1
  <1> DEFINE T == {n \in Nat : n <= l => Sums(seq)[n] \in Nat}
  <1>10. 0 \in T
    BY <1>8
  <1>11. ASSUME NEW n \in Nat, n \in T
         PROVE  n + 1 \in T
    <2>1. SUFFICES ASSUME n + 1 <= l
                   PROVE  Sums(seq)[n + 1] \in Nat
      OBVIOUS
    <2>2. n + 1 \in 1 .. l /\ (n + 1) - 1 = n /\ n <= l
      BY <1>1, <2>1
    <2>3. Sums(seq)[n] \in Nat
      BY <1>11, <2>2
    <2>4. Sums(seq)[n + 1] = Sums(seq)[n] + seq[n + 1].weight /\ seq[n + 1].weight \in Nat
      BY <1>1, <1>9, <2>2
    <2> QED
      BY <2>3, <2>4
  <1> HIDE DEF T
  <1>12. \A n \in Nat : n \in T
    BY <1>10, <1>11, AllNumbers
  <1>13. \A n \in 0 .. l : Sums(seq)[n] \in Nat
    BY <1>1, <1>12 DEF T
  <1> QED
    BY <1>8, <1>9, <1>13

\* The stretch of s from a to c is like that of t from b to d.
Alike(s, a, c, t, b, d) ==
    /\ Weighed(s) /\ Weighed(t) /\ c <= Len(s) /\ d <= Len(t)
    /\ \E k \in Nat :
          /\ a \in Nat /\ b \in Nat /\ c = a + k /\ d = b + k
          /\ \A i \in 1 .. k : s[a + i].weight = t[b + i].weight

\* Equal stretches of two sequences have equal weights.
LEMMA SumsOfStretches ==
  ASSUME NEW s, NEW a, NEW c, NEW t, NEW b, NEW d, Alike(s, a, c, t, b, d)
  PROVE  Sums(s)[c] - Sums(s)[a] = Sums(t)[d] - Sums(t)[b]
  <1>0. PICK k \in Nat :
          /\ a \in Nat /\ b \in Nat /\ c = a + k /\ d = b + k
          /\ \A i \in 1 .. k : s[a + i].weight = t[b + i].weight
    BY DEF Alike
  <1>w. Weighed(s) /\ Weighed(t) /\ c <= Len(s) /\ d <= Len(t)
    BY DEF Alike
  <1> DEFINE P(n) == n <= k => Sums(s)[a + n] - Sums(s)[a] = Sums(t)[b + n] - Sums(t)[b]
             S == {n \in Nat : P(n)}
  <1>1. Len(s) \in Nat /\ Len(t) \in Nat
    BY <1>w DEF Weighed
  <1>2. /\ \A n \in 0 .. Len(s) : Sums(s)[n] \in Nat
        /\ \A n \in 0 .. Len(t) : Sums(t)[n] \in Nat
        /\ \A n \in 1 .. Len(s) : Sums(s)[n] = Sums(s)[n - 1] + s[n].weight
        /\ \A n \in 1 .. Len(t) : Sums(t)[n] = Sums(t)[n - 1] + t[n].weight
    BY <1>w, SumsDefined
  <1>3. Sums(s)[a] \in Nat /\ Sums(t)[b] \in Nat
    <2>1. a \in 0 .. Len(s) /\ b \in 0 .. Len(t)
      BY <1>0, <1>w, <1>1
    <2> QED
      BY <1>2, <2>1
  <1>4. 0 \in S
    <2>1. a + 0 = a /\ b + 0 = b
      BY <1>0
    <2>2. P(0)
      BY <1>3, <2>1
    <2> QED
      BY <2>2
  <1>5. ASSUME NEW n \in Nat, n \in S
        PROVE  n + 1 \in S
    <2>1. ASSUME n + 1 <= k
          PROVE  Sums(s)[a + (n + 1)] - Sums(s)[a] = Sums(t)[b + (n + 1)] - Sums(t)[b]
      <3> DEFINE x == a + (n + 1)
                 y == b + (n + 1)
      <3>1. n <= k /\ n + 1 \in 1 .. k
        BY <2>1
      <3>2. Sums(s)[a + n] - Sums(s)[a] = Sums(t)[b + n] - Sums(t)[b]
        BY <1>5, <3>1
      <3>3. /\ x \in 1 .. Len(s) /\ x - 1 = a + n /\ a + n \in 0 .. Len(s)
            /\ y \in 1 .. Len(t) /\ y - 1 = b + n /\ b + n \in 0 .. Len(t)
        BY <1>0, <1>w, <1>1, <2>1
      <3>4. s[x].weight = t[y].weight
        BY <1>0, <3>1
      <3> HIDE DEF x, y
      <3>5. /\ Sums(s)[x] = Sums(s)[a + n] + s[x].weight
            /\ Sums(t)[y] = Sums(t)[b + n] + t[y].weight
        BY <1>2, <3>3
      <3>6. Sums(s)[a + n] \in Nat /\ Sums(t)[b + n] \in Nat /\ s[x].weight \in Nat
        BY <1>2, <1>w, <3>3 DEF Weighed
      <3> DEFINE u == Sums(s)[a + n]
                 v == Sums(t)[b + n]
                 w == s[x].weight
      <3>7. Sums(s)[x] = u + w /\ Sums(t)[y] = v + w /\ u \in Nat /\ v \in Nat /\ w \in Nat
            /\ u - Sums(s)[a] = v - Sums(t)[b]
        BY <3>2, <3>4, <3>5, <3>6
      <3> HIDE DEF u, v, w
      <3>8. Sums(s)[x] - Sums(s)[a] = Sums(t)[y] - Sums(t)[b]
        BY <1>3, <3>7
      <3> QED
        BY <3>8 DEF x, y
    <2>2. P(n + 1)
      BY <2>1
    <2> HIDE DEF P
    <2> QED
      BY <2>2
  <1> HIDE DEF S
  <1>6. k \in S
    BY <1>4, <1>5, AllNumbers
  <1> QED
    BY <1>0, <1>6 DEF S

LEMMA EntriesWeighed == \A seq \in Seq(Entries) : Weighed(seq)
  <1> SUFFICES ASSUME NEW seq \in Seq(Entries)
               PROVE  Weighed(seq)
    OBVIOUS
  <1>1. \A i \in 1 .. Len(seq) : seq[i] \in Entries
    BY ElementOfSeq
  <1> QED
    BY <1>1 DEF Weighed, Entries

LEMMA WeightNat == \A seq \in Seq(Entries) : WeightOf(seq) \in Nat
  <1> SUFFICES ASSUME NEW seq \in Seq(Entries)
               PROVE  WeightOf(seq) \in Nat
    OBVIOUS
  <1>1. Len(seq) \in 0 .. Len(seq)
    OBVIOUS
  <1> QED
    BY <1>1, EntriesWeighed, SumsDefined DEF WeightOf

LEMMA WeightAppended ==
  ASSUME NEW seq \in Seq(Entries), NEW e \in Entries
  PROVE  WeightOf(Append(seq, e)) = WeightOf(seq) + e.weight
  <1> DEFINE t == Append(seq, e)
             l == Len(seq)
  <1>1. /\ t \in Seq(Entries) /\ Len(t) = l + 1 /\ l \in Nat
        /\ (\A i \in 1 .. l : t[i] = seq[i]) /\ t[l + 1] = e
    BY AppendProperties
  <1> HIDE DEF t
  <1>2. Weighed(seq) /\ Weighed(t)
    BY <1>1, EntriesWeighed
  <1>3. Sums(t)[0] = 0 /\ Sums(seq)[0] = 0
    BY <1>2, SumsDefined
  <1> HIDE DEF l
  <1>4. Sums(t)[l] - Sums(t)[0] = Sums(seq)[l] - Sums(seq)[0]
    <2>1. \A i \in 1 .. l : t[0 + i].weight = seq[0 + i].weight
      BY <1>1
    <2>2. 0 \in Nat /\ l = 0 + l /\ l <= Len(t) /\ l <= Len(seq)
      BY <1>1 DEF l
    <2>3. Alike(t, 0, l, seq, 0, l)
      BY <1>1, <1>2, <2>1, <2>2 DEF Alike
    <2> QED
      BY <2>3, SumsOfStretches
  <1>5. Sums(t)[l] \in Nat /\ Sums(seq)[l] \in Nat
    <2>1. l \in 0 .. Len(t) /\ l \in 0 .. Len(seq)
      BY <1>1 DEF l
    <2> QED
      BY <1>2, <2>1, SumsDefined
  <1>6. Sums(t)[l + 1] = Sums(t)[l] + e.weight
    <2>1. l + 1 \in 1 .. Len(t) /\ (l + 1) - 1 = l
      BY <1>1
    <2> QED
      BY <1>1, <1>2, <2>1, SumsDefined
  <1>7. Sums(t)[l] = Sums(seq)[l]
    BY <1>3, <1>4, <1>5
  <1> QED
    BY <1>1, <1>6, <1>7 DEF WeightOf, t, l

LEMMA WeightDropped ==
  ASSUME NEW seq \in Seq(Entries), NEW n \in 0 .. Len(seq)
  PROVE  WeightOf(SubSeq(seq, n + 1, Len(seq))) = WeightOf(seq) - Sums(seq)[n]
  <1> DEFINE l == Len(seq)
             t == SubSeq(seq, n + 1, l)
  <1>1. l \in Nat /\ n \in Nat /\ n <= l /\ \A j \in 1 .. l : seq[j] \in Entries
    BY ElementOfSeq
  <1>2. t \in Seq(Entries) /\ Len(t) = l - n /\ \A j \in 1 .. l - n : t[j] = seq[n + j]
    BY <1>1, Suffix
  <1> HIDE DEF t, l
  <1>3. Weighed(seq) /\ Weighed(t)
    BY <1>2, EntriesWeighed
  <1>4. Sums(seq)[l] - Sums(seq)[n] = Sums(t)[l - n] - Sums(t)[0]
    <2> DEFINE k == l - n
    <2>1. \A i \in 1 .. k : seq[n + i].weight = t[0 + i].weight
      BY <1>1, <1>2
    <2>2. /\ 0 \in Nat /\ k \in Nat /\ l = n + k /\ k = 0 + k
          /\ l <= Len(seq) /\ k <= Len(t)
      BY <1>1, <1>2 DEF l
    <2> HIDE DEF k
    <2>3. Alike(seq, n, l, t, 0, k)
      BY <1>1, <1>3, <2>1, <2>2 DEF Alike
    <2>4. Sums(seq)[l] - Sums(seq)[n] = Sums(t)[k] - Sums(t)[0]
      BY <2>3, SumsOfStretches
    <2> QED
      BY <2>4 DEF k
  <1>6. Sums(t)[0] = 0 /\ Sums(t)[l - n] \in Nat /\ Sums(seq)[l] \in Nat /\ Sums(seq)[n] \in Nat
    <2>1. l - n \in 0 .. Len(t) /\ l \in 0 .. Len(seq) /\ n \in 0 .. Len(seq)
      BY <1>1, <1>2 DEF l
    <2> QED
      BY <1>3, <2>1, SumsDefined
  <1>7. Sums(t)[l - n] = Sums(seq)[l] - Sums(seq)[n]
    BY <1>4, <1>6
  <1> QED
    BY <1>2, <1>7 DEF WeightOf, t, l

LEMMA WeightRemoved ==
  ASSUME NEW seq \in Seq(Entries), NEW i \in 1 .. Len(seq)
  PROVE  WeightOf(RemoveAt(seq, i)) = WeightOf(seq) - seq[i].weight
  <1> DEFINE l == Len(seq)
             t == RemoveAt(seq, i)
  <1>1. l \in Nat /\ i \in Nat /\ 1 <= i /\ i <= l /\ seq[i] \in Entries
    BY ElementOfSeq
  <1>2. /\ t \in Seq(Entries) /\ Len(t) = l - 1
        /\ \A j \in 1 .. l - 1 : t[j] = IF j < i THEN seq[j] ELSE seq[j + 1]
    BY RemovedAt
  <1> HIDE DEF t, l
  <1>3. Weighed(seq) /\ Weighed(t)
    BY <1>2, EntriesWeighed
  <1> DEFINE k == i - 1
             m == l - i
             r == l - 1
  <1>k. k \in Nat /\ m \in Nat /\ r \in Nat /\ k = i - 1 /\ m = l - i /\ r = l - 1
    BY <1>1
  <1> HIDE DEF k, m, r
  <1>4. Sums(t)[k] - Sums(t)[0] = Sums(seq)[k] - Sums(seq)[0]
    <2>1. \A j \in 1 .. k : t[0 + j].weight = seq[0 + j].weight
      BY <1>1, <1>2, <1>k
    <2>2. 0 \in Nat /\ k = 0 + k /\ k <= Len(seq) /\ k <= Len(t)
      BY <1>1, <1>2, <1>k DEF l
    <2>3. Alike(t, 0, k, seq, 0, k)
      BY <1>3, <1>k, <2>1, <2>2 DEF Alike
    <2> QED
      BY <2>3, SumsOfStretches
  <1>5. Sums(seq)[l] - Sums(seq)[i] = Sums(t)[r] - Sums(t)[k]
    <2>1. \A j \in 1 .. m : seq[i + j].weight = t[k + j].weight
      <3>1. SUFFICES ASSUME NEW j \in 1 .. m
                     PROVE  t[k + j] = seq[i + j]
        OBVIOUS
      <3>2. k + j \in 1 .. l - 1 /\ ~(k + j < i) /\ (k + j) + 1 = i + j
        BY <1>1, <1>k
      <3> QED
        BY <1>2, <3>2
    <2>2. l = i + m /\ r = k + m /\ l <= Len(seq) /\ r <= Len(t)
      BY <1>1, <1>2, <1>k DEF l
    <2>3. Alike(seq, i, l, t, k, r)
      BY <1>1, <1>3, <1>k, <2>1, <2>2 DEF Alike
    <2> QED
      BY <2>3, SumsOfStretches
  <1>6. Sums(seq)[i] = Sums(seq)[k] + seq[i].weight
    BY <1>1, <1>3, <1>k, SumsDefined DEF l
  <1>7. /\ Sums(t)[0] = 0 /\ Sums(seq)[0] = 0
        /\ Sums(t)[k] \in Nat /\ Sums(t)[r] \in Nat
        /\ Sums(seq)[k] \in Nat /\ Sums(seq)[l] \in Nat /\ Sums(seq)[i] \in Nat
    <2>1. /\ k \in 0 .. Len(t) /\ r \in 0 .. Len(t)
          /\ k \in 0 .. Len(seq) /\ l \in 0 .. Len(seq) /\ i \in 0 .. Len(seq)
      BY <1>1, <1>2, <1>k DEF l
    <2> QED
      BY <1>3, <2>1, SumsDefined
  <1>8. seq[i].weight \in Nat
    BY <1>1 DEF Entries
  <1>9. Sums(t)[r] = Sums(seq)[l] - seq[i].weight
    <2> DEFINE w == seq[i].weight
               tk == Sums(t)[k]
               tr == Sums(t)[r]
               sk == Sums(seq)[k]
               sl == Sums(seq)[l]
               si == Sums(seq)[i]
    <2>1. /\ tk \in Nat /\ tr \in Nat /\ sk \in Nat /\ sl \in Nat /\ si \in Nat /\ w \in Nat
          /\ tk = sk /\ sl - si = tr - tk /\ si = sk + w
      BY <1>4, <1>5, <1>6, <1>7, <1>8
    <2> HIDE DEF w, tk, tr, sk, sl, si
    <2>2. tr = sl - w
      BY <2>1
    <2> QED
      BY <2>2 DEF w, tr, sl
  <1> QED
    BY <1>2, <1>9, <1>k DEF WeightOf, t, l
-----------------------------------------------------------------------------
(* The order of use. *)

Distinct(use) == \A i, j \in 1 .. Len(use) : use[i] = use[j] => i = j

\* The keys of seq are the last of use.
Follows(seq, use) ==
    /\ Len(seq) <= Len(use)
    /\ \A i \in 1 .. Len(seq) : seq[i].key = use[Len(use) - Len(seq) + i]

\* What was used, without a key.
Unused(k) ==
    LET place == CHOOSE i \in DOMAIN used : used[i] = k
    IN  IF k \in ToSet(used) THEN RemoveAt(used, place) ELSE used

LEMMA UseIs == \A k : Use(k) <=> used' = Append(Unused(k), k)
  BY DEF Use, Unused

LEMMA DistinctRemoved ==
  ASSUME NEW S, NEW use \in Seq(S), Distinct(use), NEW p \in 1 .. Len(use)
  PROVE  /\ Distinct(RemoveAt(use, p))
         /\ \A j \in 1 .. Len(use) - 1 : RemoveAt(use, p)[j] # use[p]
  <1> DEFINE t == RemoveAt(use, p)
             l == Len(use)
  <1>1. l \in Nat /\ p \in Nat /\ 1 <= p /\ p <= l
    OBVIOUS
  <1>2. Len(t) = l - 1 /\ \A j \in 1 .. l - 1 : t[j] = IF j < p THEN use[j] ELSE use[j + 1]
    BY RemovedAt
  <1>3. \A i, j \in 1 .. l : use[i] = use[j] => i = j
    BY DEF Distinct
  <1> HIDE DEF t, l
  <1>4. ASSUME NEW i \in 1 .. l - 1, NEW j \in 1 .. l - 1, t[i] = t[j]
        PROVE  i = j
    <2> DEFINE x == IF i < p THEN i ELSE i + 1
               y == IF j < p THEN j ELSE j + 1
    <2>1. x \in 1 .. l /\ y \in 1 .. l /\ t[i] = use[x] /\ t[j] = use[y]
      BY <1>1, <1>2
    <2>2. x = y
      BY <1>3, <1>4, <2>1
    <2> QED
      BY <1>1, <2>2
  <1>5. ASSUME NEW j \in 1 .. l - 1
        PROVE  t[j] # use[p]
    <2> DEFINE y == IF j < p THEN j ELSE j + 1
    <2>1. y \in 1 .. l /\ t[j] = use[y] /\ y # p /\ p \in 1 .. l
      BY <1>1, <1>2
    <2> QED
      BY <1>3, <2>1
  <1> QED
    BY <1>2, <1>4, <1>5 DEF Distinct, t, l

LEMMA DistinctAppended ==
  ASSUME NEW S, NEW use \in Seq(S), Distinct(use), NEW k \in S,
         \A j \in 1 .. Len(use) : use[j] # k
  PROVE  Distinct(Append(use, k))
  <1> DEFINE t == Append(use, k)
             l == Len(use)
  <1>1. l \in Nat /\ Len(t) = l + 1 /\ (\A j \in 1 .. l : t[j] = use[j]) /\ t[l + 1] = k
    BY AppendProperties
  <1>2. /\ \A i, j \in 1 .. l : use[i] = use[j] => i = j
        /\ \A j \in 1 .. l : use[j] # k
    BY DEF Distinct
  <1> HIDE DEF t, l
  <1>3. \A i \in 1 .. l + 1 : i \in 1 .. l \/ i = l + 1
    BY <1>1
  <1>4. \A i, j \in 1 .. l + 1 : t[i] = t[j] => i = j
    BY <1>1, <1>2, <1>3
  <1> QED
    BY <1>1, <1>4 DEF Distinct, t

LEMMA FollowsAppended ==
  ASSUME NEW seq \in Seq(Entries), NEW use \in Seq(Keys), Follows(seq, use),
         NEW e \in Entries
  PROVE  Follows(Append(seq, e), Append(use, e.key))
  <1> DEFINE s == Append(seq, e)
             t == Append(use, e.key)
             m == Len(seq)
             l == Len(use)
  <1>1. /\ m \in Nat /\ Len(s) = m + 1 /\ (\A j \in 1 .. m : s[j] = seq[j]) /\ s[m + 1] = e
        /\ l \in Nat /\ Len(t) = l + 1 /\ (\A j \in 1 .. l : t[j] = use[j])
        /\ t[l + 1] = e.key
    BY AppendProperties DEF Entries
  <1>2. m <= l /\ \A i \in 1 .. m : seq[i].key = use[l - m + i]
    BY DEF Follows
  <1> HIDE DEF s, t, m, l
  <1>3. ASSUME NEW i \in 1 .. m + 1
        PROVE  s[i].key = t[(l + 1) - (m + 1) + i]
    <2>1. CASE i = m + 1
      <3>1. (l + 1) - (m + 1) + i = l + 1
        BY <1>1, <2>1
      <3> QED
        BY <1>1, <2>1, <3>1
    <2>2. CASE i # m + 1
      <3>1. i \in 1 .. m /\ (l + 1) - (m + 1) + i = l - m + i /\ l - m + i \in 1 .. l
        BY <1>1, <1>2, <2>2
      <3> QED
        BY <1>1, <1>2, <3>1
    <2> QED
      BY <2>1, <2>2
  <1>4. m + 1 <= l + 1
    BY <1>1, <1>2
  <1> QED
    BY <1>1, <1>3, <1>4 DEF Follows, s, t

LEMMA FollowsDropped ==
  ASSUME NEW seq \in Seq(Entries), NEW use \in Seq(Keys), Follows(seq, use),
         NEW n \in 0 .. Len(seq)
  PROVE  Follows(SubSeq(seq, n + 1, Len(seq)), use)
  <1> DEFINE s == SubSeq(seq, n + 1, Len(seq))
             m == Len(seq)
             l == Len(use)
  <1>1. /\ m \in Nat /\ n \in Nat /\ n <= m /\ Len(s) = m - n /\ l \in Nat
        /\ \A j \in 1 .. m - n : s[j] = seq[n + j]
    BY Suffix
  <1>2. m <= l /\ \A i \in 1 .. m : seq[i].key = use[l - m + i]
    BY DEF Follows
  <1> HIDE DEF s, m, l
  <1>3. ASSUME NEW i \in 1 .. m - n
        PROVE  s[i].key = use[l - (m - n) + i]
    <2>1. n + i \in 1 .. m /\ l - m + (n + i) = l - (m - n) + i
      BY <1>1
    <2> QED
      BY <1>1, <1>2, <2>1
  <1>4. m - n <= l
    BY <1>1, <1>2
  <1> QED
    BY <1>1, <1>3, <1>4 DEF Follows, s, l

\* An entry and its key.
LEMMA FollowsRemoved ==
  ASSUME NEW seq \in Seq(Entries), NEW use \in Seq(Keys), Follows(seq, use),
         NEW i \in 1 .. Len(seq), NEW p, p = Len(use) - Len(seq) + i
  PROVE  Follows(RemoveAt(seq, i), RemoveAt(use, p))
  <1> DEFINE s == RemoveAt(seq, i)
             t == RemoveAt(use, p)
             m == Len(seq)
             l == Len(use)
  <1>1. m \in Nat /\ i \in Nat /\ 1 <= i /\ i <= m /\ l \in Nat /\ p = l - m + i
    OBVIOUS
  <1>2. m <= l /\ \A j \in 1 .. m : seq[j].key = use[l - m + j]
    BY DEF Follows
  <1>p. p \in 1 .. l
    BY <1>1, <1>2
  <1>3. Len(s) = m - 1 /\ \A j \in 1 .. m - 1 : s[j] = IF j < i THEN seq[j] ELSE seq[j + 1]
    BY RemovedAt
  <1>4. Len(t) = l - 1 /\ \A j \in 1 .. l - 1 : t[j] = IF j < p THEN use[j] ELSE use[j + 1]
    BY <1>p, RemovedAt
  <1> HIDE DEF s, t, m, l
  <1>5. ASSUME NEW j \in 1 .. m - 1
        PROVE  s[j].key = t[(l - 1) - (m - 1) + j]
    <2> DEFINE q == (l - 1) - (m - 1) + j
    <2>1. q \in 1 .. l - 1 /\ q = l - m + j /\ (q < p <=> j < i) /\ q + 1 = l - m + (j + 1)
          /\ j \in 1 .. m /\ j + 1 \in 1 .. m
      BY <1>1, <1>2
    <2> HIDE DEF q
    <2>2. s[j].key = t[q]
      BY <1>2, <1>3, <1>4, <2>1
    <2> QED
      BY <2>2 DEF q
  <1>6. m - 1 <= l - 1
    BY <1>1, <1>2
  <1> QED
    BY <1>3, <1>4, <1>5, <1>6 DEF Follows, s, t

\* A key that has no entry.
LEMMA FollowsForgotten ==
  ASSUME NEW seq \in Seq(Entries), NEW use \in Seq(Keys), Follows(seq, use),
         NEW p \in 1 .. Len(use), \A i \in 1 .. Len(seq) : seq[i].key # use[p]
  PROVE  Follows(seq, RemoveAt(use, p))
  <1> DEFINE t == RemoveAt(use, p)
             m == Len(seq)
             l == Len(use)
  <1>1. m \in Nat /\ p \in Nat /\ 1 <= p /\ p <= l /\ l \in Nat
    OBVIOUS
  <1>2. m <= l /\ \A j \in 1 .. m : seq[j].key = use[l - m + j] /\ seq[j].key # use[p]
    BY DEF Follows
  <1>4. Len(t) = l - 1 /\ \A j \in 1 .. l - 1 : t[j] = IF j < p THEN use[j] ELSE use[j + 1]
    BY RemovedAt
  <1> HIDE DEF t, m, l
  <1>3. p <= l - m
    <2>1. SUFFICES ASSUME p > l - m
                   PROVE  FALSE
      BY <1>1
    <2>2. p - (l - m) \in 1 .. m /\ l - m + (p - (l - m)) = p
      BY <1>1, <2>1
    <2> QED
      BY <1>2, <2>2
  <1>5. ASSUME NEW j \in 1 .. m
        PROVE  seq[j].key = t[(l - 1) - m + j]
    <2> DEFINE q == (l - 1) - m + j
    <2>1. q \in 1 .. l - 1 /\ ~(q < p) /\ q + 1 = l - m + j
      BY <1>1, <1>3
    <2> HIDE DEF q
    <2>2. seq[j].key = t[q]
      BY <1>2, <1>4, <2>1
    <2> QED
      BY <2>2 DEF q
  <1>6. m <= l - 1
    BY <1>1, <1>3
  <1> QED
    BY <1>4, <1>5, <1>6 DEF Follows, t, m
-----------------------------------------------------------------------------
(* The cache. *)

CacheType == entries \in Seq(Entries) /\ retained \in Nat /\ used \in Seq(Keys)

CacheInv ==
    /\ CacheType
    /\ retained = WeightOf(entries) /\ retained <= MaxBytes /\ Len(entries) <= MaxEntries
    /\ Distinct(used) /\ Follows(entries, used)

LEMMA Assumed ==
  /\ MaxBytes \in Nat /\ MaxEntries \in Nat /\ MaxDepth \in Nat /\ MaxNodes \in Nat
  /\ MaxReads \in Nat
  BY ReadsAssumption

LEMMA CacheIsOrdered == CacheInv => CacheIsExact
  <1> SUFFICES ASSUME CacheInv
               PROVE  CacheIsExact
    OBVIOUS
  <1> DEFINE keys == [i \in DOMAIN entries |-> entries[i].key]
             m == Len(entries)
             l == Len(used)
  <1>1. /\ m \in Nat /\ l \in Nat /\ DOMAIN entries = 1 .. m /\ m <= l
        /\ \A i \in 1 .. m : entries[i] \in Entries
        /\ \A i \in 1 .. l : used[i] \in Keys
    BY ElementOfSeq DEF CacheInv, CacheType, Follows
  <1>2. \A i \in 1 .. m : entries[i].key \in Keys
    BY <1>1 DEF Entries
  <1>3. keys \in Seq(Keys) /\ Len(keys) = m /\ \A i \in 1 .. m : keys[i] = entries[i].key
    BY <1>1, <1>2
  <1>4. \A i \in 1 .. m : keys[i] = used[l - m + i]
    BY <1>3 DEF CacheInv, Follows
  <1>5. \A i, j \in 1 .. l : used[i] = used[j] => i = j
    BY DEF CacheInv, Distinct
  <1> HIDE DEF m, l
  <1>6. IsInjective(keys)
    <2>1. DOMAIN keys = 1 .. m
      BY <1>1
    <2> HIDE DEF keys
    <2>2. ASSUME NEW i \in 1 .. m, NEW j \in 1 .. m, keys[i] = keys[j]
          PROVE  i = j
      <3>1. l - m + i \in 1 .. l /\ l - m + j \in 1 .. l
        BY <1>1
      <3>2. l - m + i = l - m + j
        BY <1>4, <1>5, <2>2, <3>1
      <3> QED
        BY <1>1, <3>2
    <2> QED
      BY <2>1, <2>2 DEF IsInjective
  <1> HIDE DEF keys
  <1>7. IsSuffix(keys, used)
    <2> DEFINE a == Reverse(keys)
               b == Reverse(used)
    <2>1. /\ a = [i \in 1 .. m |-> keys[m - i + 1]] /\ b = [i \in 1 .. l |-> used[l - i + 1]]
      BY <1>3 DEF Reverse, l
    <2>2. \A i \in 1 .. m : m - i + 1 \in 1 .. m
      BY <1>1
    <2>3. \A i \in 1 .. l : l - i + 1 \in 1 .. l
      BY <1>1
    <2>4. \A i \in 1 .. m : keys[i] \in Keys
      BY <1>2, <1>3
    <2>5. a \in Seq(Keys) /\ Len(a) = m /\ \A i \in 1 .. m : a[i] = keys[m - i + 1]
      BY <1>1, <2>1, <2>2, <2>4
    <2>6. b \in Seq(Keys) /\ Len(b) = l /\ \A i \in 1 .. l : b[i] = used[l - i + 1]
      BY <1>1, <2>1, <2>3
    <2> HIDE DEF a, b
    <2>7. \A i \in 1 .. m : a[i] = b[i]
      <3>1. SUFFICES ASSUME NEW i \in 1 .. m
                     PROVE  a[i] = b[i]
        OBVIOUS
      <3>2. m - i + 1 \in 1 .. m /\ l - m + (m - i + 1) = l - i + 1 /\ i \in 1 .. l
        BY <1>1
      <3> DEFINE q == m - i + 1
      <3>3. q \in 1 .. m /\ l - m + q = l - i + 1 /\ a[i] = keys[q]
        BY <2>5, <3>2
      <3> HIDE DEF q
      <3>4. a[i] = used[l - i + 1]
        BY <1>4, <3>3
      <3> QED
        BY <2>6, <3>2, <3>4
    <2>8. SubSeq(a, 1, m) = SubSeq(b, 1, m)
      <3>1. /\ \A i \in 1 .. m : a[i] \in Keys /\ b[i] \in Keys
            /\ 1 \in Int /\ m \in Int
        BY <1>1, <2>5, <2>6
      <3>2. /\ SubSeq(a, 1, m) \in Seq(Keys) /\ Len(SubSeq(a, 1, m)) = m
            /\ \A i \in 1 .. m : SubSeq(a, 1, m)[i] = a[i]
        BY <1>1, <3>1, <2>5
      <3>3. /\ SubSeq(b, 1, m) \in Seq(Keys) /\ Len(SubSeq(b, 1, m)) = m
            /\ \A i \in 1 .. m : SubSeq(b, 1, m)[i] = b[i]
        BY <1>1, <3>1, <2>6
      <3> QED
        BY <2>7, <3>2, <3>3, SeqEqual
    <2> QED
      BY <1>1, <2>5, <2>6, <2>8 DEF IsSuffix, IsPrefix, a, b
  <1> QED
    BY <1>6, <1>7 DEF CacheIsExact, CacheInv, keys, m

LEMMA PlaceOfKey ==
  ASSUME CacheType, NEW k, Cached(k)
  PROVE  Place(k) \in 1 .. Len(entries) /\ Entry(k) = entries[Place(k)] /\ Entry(k) \in Entries
         /\ Entry(k).key = k /\ k \in Keys
  <1>1. DOMAIN entries = 1 .. Len(entries) /\ \A i \in 1 .. Len(entries) : entries[i] \in Entries
    BY ElementOfSeq DEF CacheType
  <1>2. Place(k) \in DOMAIN entries /\ entries[Place(k)].key = k
    BY DEF Cached, Place
  <1> QED
    BY <1>1, <1>2 DEF Entry, Entries

\* What was used, without a key, is distinct.
LEMMA UnusedIs ==
  ASSUME CacheInv, NEW k \in Keys
  PROVE  /\ Unused(k) \in Seq(Keys) /\ Distinct(Unused(k))
         /\ \A j \in 1 .. Len(Unused(k)) : Unused(k)[j] # k
         /\ ~Cached(k) => Follows(entries, Unused(k))
         /\ Cached(k) => /\ Unused(k) = RemoveAt(used, Len(used) - Len(entries) + Place(k))
                         /\ Follows(RemoveAt(entries, Place(k)), Unused(k))
  <1> DEFINE place == CHOOSE i \in DOMAIN used : used[i] = k
  <1>1. /\ used \in Seq(Keys) /\ Len(used) \in Nat /\ DOMAIN used = 1 .. Len(used)
        /\ entries \in Seq(Entries) /\ DOMAIN entries = 1 .. Len(entries)
    BY DEF CacheInv, CacheType
  <1>2. CASE k \in ToSet(used)
    <2>1. place \in 1 .. Len(used) /\ used[place] = k
      BY <1>1, <1>2 DEF ToSet
    <2>2. Unused(k) = RemoveAt(used, place)
      BY <1>2 DEF Unused
    <2> HIDE DEF place
    <2>3. Unused(k) \in Seq(Keys) /\ Len(Unused(k)) = Len(used) - 1
      BY <1>1, <2>1, <2>2, RemovedAt
    <2>4. Distinct(Unused(k)) /\ \A j \in 1 .. Len(used) - 1 : Unused(k)[j] # k
      BY <1>1, <2>1, <2>2, DistinctRemoved DEF CacheInv
    <2>5. ASSUME ~Cached(k)
          PROVE  Follows(entries, Unused(k))
      <3>1. \A i \in 1 .. Len(entries) : entries[i].key # used[place]
        BY <1>1, <2>1, <2>5 DEF Cached
      <3> QED
        BY <1>1, <2>1, <2>2, <3>1, FollowsForgotten DEF CacheInv
    <2>6. ASSUME Cached(k)
          PROVE  /\ Unused(k) = RemoveAt(used, Len(used) - Len(entries) + Place(k))
                 /\ Follows(RemoveAt(entries, Place(k)), Unused(k))
      <3> DEFINE p == Len(used) - Len(entries) + Place(k)
      <3>1. Place(k) \in 1 .. Len(entries) /\ entries[Place(k)].key = k
        BY <2>6, PlaceOfKey DEF CacheInv
      <3>2. used[p] = k /\ p \in 1 .. Len(used)
        BY <1>1, <3>1 DEF CacheInv, Follows
      <3>3. place = p
        BY <2>1, <3>2 DEF CacheInv, Distinct
      <3> QED
        BY <1>1, <2>2, <3>1, <3>3, FollowsRemoved DEF CacheInv
    <2> QED
      BY <2>3, <2>4, <2>5, <2>6
  <1>3. CASE k \notin ToSet(used)
    <2>1. Unused(k) = used
      BY <1>3 DEF Unused
    <2>2. \A j \in 1 .. Len(used) : used[j] # k
      BY <1>1, <1>3 DEF ToSet
    <2>3. ~Cached(k)
      <3>1. SUFFICES ASSUME Cached(k)
                     PROVE  FALSE
        OBVIOUS
      <3> DEFINE p == Len(used) - Len(entries) + Place(k)
      <3>2. Place(k) \in 1 .. Len(entries) /\ entries[Place(k)].key = k
        BY <3>1, PlaceOfKey DEF CacheInv
      <3>3. used[p] = k /\ p \in 1 .. Len(used)
        BY <1>1, <3>2 DEF CacheInv, Follows
      <3> QED
        BY <2>2, <3>3
    <2> QED
      BY <1>1, <2>1, <2>2, <2>3 DEF CacheInv
  <1> QED
    BY <1>2, <1>3

\* Each entry of some is an entry of the cache.
Among(some) == \A i \in 1 .. Len(some) : \E j \in 1 .. Len(entries) : some[i] = entries[j]

LEMMA TouchEffect ==
  ASSUME CacheInv, NEW k, Cached(k), Touch(k), retained' = retained
  PROVE  CacheInv' /\ Among(entries')
  <1> DEFINE i == Place(k)
             e == entries[i]
             rest == RemoveAt(entries, i)
             m == Len(entries)
  <1>1. /\ i \in 1 .. m /\ e \in Entries /\ e.key = k /\ k \in Keys /\ Entry(k) = e
        /\ entries \in Seq(Entries) /\ m \in Nat
    BY PlaceOfKey DEF CacheInv, CacheType
  <1>2. entries' = Append(rest, e) /\ used' = Append(Unused(k), k)
    BY <1>1, UseIs DEF Touch, Others
  <1>3. /\ rest \in Seq(Entries) /\ Len(rest) = m - 1
        /\ \A j \in 1 .. m - 1 : rest[j] = IF j < i THEN entries[j] ELSE entries[j + 1]
    BY <1>1, RemovedAt
  <1>4. /\ Unused(k) \in Seq(Keys) /\ Distinct(Unused(k)) /\ Follows(rest, Unused(k))
        /\ \A j \in 1 .. Len(Unused(k)) : Unused(k)[j] # k
    BY <1>1, UnusedIs
  <1>5. WeightOf(rest) = WeightOf(entries) - e.weight
    BY <1>1, WeightRemoved
  <1> HIDE DEF e, rest, i, m
  <1>6. /\ entries' \in Seq(Entries) /\ Len(entries') = m /\ entries'[m] = e
        /\ (\A j \in 1 .. m - 1 : entries'[j] = rest[j])
        /\ used' \in Seq(Keys)
    BY <1>1, <1>2, <1>3, <1>4, AppendProperties
  <1>7. Distinct(used') /\ Follows(entries', used')
    BY <1>1, <1>2, <1>3, <1>4, DistinctAppended, FollowsAppended
  <1>8. WeightOf(entries') = WeightOf(entries)
    <2>1. e.weight \in Nat /\ WeightOf(entries) \in Nat
      BY <1>1, WeightNat DEF Entries
    <2>2. WeightOf(entries') = WeightOf(rest) + e.weight
      BY <1>1, <1>2, <1>3, WeightAppended
    <2> QED
      BY <1>5, <2>1, <2>2
  <1>9. Among(entries')
    <2>1. SUFFICES ASSUME NEW j \in 1 .. m
                   PROVE  \E n \in 1 .. m : entries'[j] = entries[n]
      BY <1>6 DEF Among, m
    <2>2. CASE j = m
      BY <1>1, <1>6, <2>2 DEF e
    <2>3. CASE j # m
      <3>1. j \in 1 .. m - 1 /\ j + 1 \in 1 .. m
        BY <1>1, <2>3
      <3> QED
        BY <1>3, <1>6, <3>1
    <2> QED
      BY <2>2, <2>3
  <1> QED
    BY <1>6, <1>7, <1>8, <1>9 DEF CacheInv, CacheType, m

LEMMA SetEntryEffect ==
  ASSUME CacheInv, NEW k \in Keys, ~Cached(k), NEW value \in Values, NEW weight \in Nat,
         SetEntry(k, value, weight)
  PROVE  /\ CacheInv'
         /\ \A i \in 1 .. Len(entries') :
               \/ entries'[i] = [key |-> k, value |-> value, weight |-> weight]
               \/ \E j \in 1 .. Len(entries) : entries'[i] = entries[j]
  <1> DEFINE e == [key |-> k, value |-> value, weight |-> weight]
             seq == Append(entries, e)
             m == Len(entries)
  <1>1. /\ Others(k) = entries /\ entries \in Seq(Entries) /\ m \in Nat
        /\ e \in Entries /\ e.weight = weight /\ e.key = k
        /\ retained \in Nat /\ retained = WeightOf(entries)
    BY DEF Others, CacheInv, CacheType, Entries
  <1>2. CASE weight > MaxBytes \/ MaxBytes = 0 \/ MaxEntries = 0
    <2>1. entries' = entries /\ retained' = retained /\ used' = used
      BY <1>1, <1>2 DEF SetEntry
    <2> QED
      BY <2>1 DEF CacheInv, CacheType
  <1>3. CASE ~(weight > MaxBytes \/ MaxBytes = 0 \/ MaxEntries = 0)
    <2>1. EvictToBudget(seq, retained + weight) /\ used' = Append(Unused(k), k)
      BY <1>1, <1>3, UseIs DEF SetEntry
    <2>2. /\ Unused(k) \in Seq(Keys) /\ Distinct(Unused(k)) /\ Follows(entries, Unused(k))
          /\ \A j \in 1 .. Len(Unused(k)) : Unused(k)[j] # k
      BY UnusedIs
    <2>3. /\ seq \in Seq(Entries) /\ Len(seq) = m + 1 /\ seq[m + 1] = e
          /\ (\A j \in 1 .. m : seq[j] = entries[j])
          /\ WeightOf(seq) = retained + weight
      BY <1>1, WeightAppended, AppendProperties
    <2>4. used' \in Seq(Keys) /\ Distinct(used') /\ Follows(seq, used')
      BY <1>1, <2>1, <2>2, DistinctAppended, FollowsAppended, AppendProperties
    <2> HIDE DEF seq, e, m
    <2>5. PICK n \in 0 .. Len(seq) :
             /\ (retained + weight) - Sums(seq)[n] <= MaxBytes /\ Len(seq) - n <= MaxEntries
             /\ entries' = SubSeq(seq, n + 1, Len(seq))
             /\ retained' = (retained + weight) - Sums(seq)[n]
      BY <2>1 DEF EvictToBudget
    <2>6. /\ entries' \in Seq(Entries) /\ Len(entries') = Len(seq) - n
          /\ \A j \in 1 .. Len(seq) - n : entries'[j] = seq[n + j]
      BY <2>3, <2>5, Suffix
    <2>7. retained' = WeightOf(entries') /\ retained' \in Nat
      BY <2>3, <2>5, <2>6, WeightDropped, WeightNat
    <2>8. Follows(entries', used')
      BY <2>3, <2>4, <2>5, FollowsDropped
    <2>9. ASSUME NEW i \in 1 .. Len(entries')
          PROVE  entries'[i] = e \/ \E j \in 1 .. m : entries'[i] = entries[j]
      <3>1. n + i \in 1 .. m + 1 /\ entries'[i] = seq[n + i]
        BY <1>1, <2>3, <2>5, <2>6
      <3>2. n + i \in 1 .. m \/ n + i = m + 1
        BY <1>1, <3>1
      <3> QED
        BY <2>3, <3>1, <3>2
    <2>10. CacheInv'
      BY <2>4, <2>5, <2>6, <2>7, <2>8 DEF CacheInv, CacheType
    <2> QED
      BY <2>9, <2>10 DEF e, m
  <1> QED
    BY <1>2, <1>3
-----------------------------------------------------------------------------
(* The tree of a revision. *)

LEMMA Trees ==
  ASSUME NEW r \in Revisions
  PROVE  /\ Root \in DOMAIN Tree[r] /\ Exists(r, Root)
         /\ \A d \in DOMAIN Tree[r] :
               /\ d \in Directories /\ d \in Paths /\ Exists(r, d)
               /\ Tree[r][d] \in Seq(Paths) /\ Tree[r][d] \in Seq(Paths \ {Root})
               /\ IsInjective(Tree[r][d])
         /\ \A d \in DOMAIN Tree[r] : \A p \in ToSet(Tree[r][d]) :
               p \in Paths /\ p # Root /\ Front(p) = d /\ Exists(r, p)
         /\ \A p \in Directories : Exists(r, p) => p \in DOMAIN Tree[r]
  <1>1. \A d \in DOMAIN Tree[r] : \A p \in ToSet(Tree[r][d]) :
          p \in Paths /\ p # Root /\ Front(p) = d /\ (p \in Directories => p \in DOMAIN Tree[r])
    <2>1. SUFFICES ASSUME NEW d \in DOMAIN Tree[r], NEW i \in DOMAIN Tree[r][d]
                   PROVE  Tree[r][d][i] \in Paths \ {Root}
      BY ReadsAssumption DEF ToSet
    <2>2. Tree[r][d] \in Seq(Paths \ {Root})
      BY ReadsAssumption
    <2> QED
      BY <2>2, ElementOfSeq
  <1>2. \A d \in DOMAIN Tree[r] :
          /\ d \in Directories /\ d \in Paths /\ Exists(r, d)
          /\ Tree[r][d] \in Seq(Paths \ {Root}) /\ IsInjective(Tree[r][d])
    BY ReadsAssumption DEF Paths
  <1>3. \A d \in DOMAIN Tree[r] : Tree[r][d] \in Seq(Paths)
    <2>1. Seq(Paths \ {Root}) \subseteq Seq(Paths)
      BY SeqMonotonic
    <2> QED
      BY <1>2, <2>1
  <1>4. Root \in DOMAIN Tree[r] /\ Exists(r, Root)
    BY ReadsAssumption DEF Exists
  <1>5. \A p \in Directories : Exists(r, p) => p \in DOMAIN Tree[r]
    BY <1>1, <1>4 DEF Exists
  <1> QED
    BY <1>1, <1>2, <1>3, <1>4, <1>5 DEF Exists

LEMMA Answered ==
  ASSUME NEW r \in Revisions, NEW p \in Paths, NEW a \in Answers(r, p),
         p \in Files \/ ValidateDirectoryEntries(p, a)
  PROVE  Exists(r, p) /\ a = Content(r, p)
  <1>1. Exists(r, p) /\ (a = Content(r, p) \/ (p \notin Files /\
          \E x \in {Root} \cup ToSet(Tree[r][p]) : a = Append(Tree[r][p], x)))
    BY DEF Answers
  <1>2. SUFFICES ASSUME p \notin Files,
                        NEW x \in {Root} \cup ToSet(Tree[r][p]), a = Append(Tree[r][p], x)
                 PROVE  FALSE
    BY <1>1
  <1> DEFINE t == Tree[r][p]
             l == Len(t)
  <1>3. p \in DOMAIN Tree[r] /\ t \in Seq(Paths)
    BY <1>1, <1>2, Trees DEF Paths
  <1>4. x \in Paths
    <2>1. \A y \in ToSet(t) : y \in Paths
      BY <1>3, Trees
    <2> QED
      BY <2>1, ReadsAssumption DEF Paths
  <1>5. /\ l \in Nat /\ DOMAIN t = 1 .. l /\ DOMAIN a = 1 .. l + 1 /\ a[l + 1] = x
        /\ \A i \in 1 .. l : a[i] = t[i]
    BY <1>2, <1>3, <1>4, AppendProperties
  <1> HIDE DEF l
  <1>6. IsInjective(a) /\ \A y \in ToSet(a) : y # Root
    BY <1>2 DEF ValidateDirectoryEntries
  <1>7. l + 1 \in DOMAIN a /\ x \in ToSet(a)
    BY <1>5 DEF ToSet
  <1>8. PICK i \in 1 .. l : t[i] = x
    BY <1>5, <1>6, <1>7 DEF ToSet
  <1>9. i \in DOMAIN a /\ a[i] = a[l + 1] /\ i # l + 1
    BY <1>5, <1>8
  <1> QED
    BY <1>6, <1>7, <1>9 DEF IsInjective

-----------------------------------------------------------------------------
(* Reads that are under way. *)

\* What a read of a key may fail with.
Reasons(k) == Rejections(k) \cup {"UNKNOWN"}

LEMMA ReasonsAre ==
  /\ \A k : {"OFFLINE", "UNKNOWN"} \subseteq Reasons(k) /\ Reasons(k) \subseteq Codes
  /\ \A k : None \notin Reasons(k)
  /\ None \in Codes
  BY ReadsAssumption DEF Reasons, Rejections, Codes

Flying ==
    /\ pending \in [Keys -> Flights]
    /\ \A k \in Keys :
          /\ pending[k].pc # "none" => pending[k].of = k
          /\ pending[k].pc \in {"asked", "answered"} => ~Cached(k)
          /\ pending[k].pc = "answered" => pending[k].value \in Answers(k[1], k[2])
          /\ pending[k].pc = "stored" =>
                Exists(k[1], k[2]) /\ pending[k].value = Content(k[1], k[2])
          /\ IF pending[k].pc = "failed" THEN pending[k].code \in Reasons(k)
             ELSE pending[k].code = None

\* What the cache holds is what the revision has.
Right ==
    \A i \in 1 .. Len(entries) :
        LET k == entries[i].key
        IN  Exists(k[1], k[2]) /\ entries[i].value = Content(k[1], k[2])

FlightInv == CacheInv /\ Flying /\ Right

\* The read of k goes on.
LEMMA FlightMoves ==
  ASSUME Flying, NEW k \in Keys, NEW flight \in Flights,
         pending' = [pending EXCEPT ![k] = flight],
         \A other \in Keys : other # k /\ ~Cached(other) => ~Cached(other)',
         flight.pc # "none" => flight.of = k,
         flight.pc \in {"asked", "answered"} => ~Cached(k)',
         flight.pc = "answered" => flight.value \in Answers(k[1], k[2]),
         flight.pc = "stored" => Exists(k[1], k[2]) /\ flight.value = Content(k[1], k[2]),
         IF flight.pc = "failed" THEN flight.code \in Reasons(k) ELSE flight.code = None
  PROVE  Flying'
  <1>1. pending' \in [Keys -> Flights] /\ pending'[k] = flight
    BY DEF Flying
  <1>2. \A other \in Keys : other # k => pending'[other] = pending[other]
    BY DEF Flying
  <1>3. ASSUME NEW other \in Keys
        PROVE  /\ pending'[other].pc # "none" => pending'[other].of = other
               /\ pending'[other].pc \in {"asked", "answered"} => ~Cached(other)'
               /\ pending'[other].pc = "answered" =>
                     pending'[other].value \in Answers(other[1], other[2])
               /\ pending'[other].pc = "stored" =>
                     /\ Exists(other[1], other[2])
                     /\ pending'[other].value = Content(other[1], other[2])
               /\ IF pending'[other].pc = "failed" THEN pending'[other].code \in Reasons(other)
                  ELSE pending'[other].code = None
    <2>1. CASE other = k
      BY <1>1, <2>1
    <2>2. CASE other # k
      BY <1>2, <2>2 DEF Flying
    <2> QED
      BY <2>1, <2>2
  <1> QED
    BY <1>1, <1>3 DEF Flying

\* A read that fails, for a reason it can have.
LEMMA FailsSafe ==
  ASSUME FlightInv, NEW k \in Keys, pending[k].pc # "none", NEW code \in Reasons(k), Fails(k, code)
  PROVE  FlightInv'
  <1>i. CacheInv /\ CacheType /\ Flying /\ Right
    BY DEF FlightInv, CacheInv
  <1>1. /\ UNCHANGED <<entries, retained, used>>
        /\ pending' = [pending EXCEPT ![k].pc = "failed", ![k].value = None, ![k].code = code]
    BY DEF Fails
  <1>2. CacheInv' /\ Right' /\ \A other : Cached(other)' <=> Cached(other)
    BY <1>i, <1>1 DEF CacheInv, CacheType, Right, Cached
  <1> DEFINE flight == [pending[k] EXCEPT !.pc = "failed", !.value = None, !.code = code]
  <1>3. pending[k] \in Flights /\ pending[k].of = k
    BY <1>i DEF Flying
  <1>4. None \in Values /\ code \in Codes
    BY ReasonsAre DEF Values
  <1>5. flight \in Flights /\ flight.pc = "failed" /\ flight.of = k /\ flight.code = code
    BY <1>3, <1>4 DEF Flights
  <1>6. pending' = [pending EXCEPT ![k] = flight]
    BY <1>1
  <1> HIDE DEF flight
  <1>7. Flying'
    BY <1>i, <1>2, <1>5, <1>6 DEF Flying
  <1> QED
    BY <1>2, <1>7 DEF FlightInv

LEMMA CachedPlace == CacheType => \A k : Cached(k) <=> \E i \in 1 .. Len(entries) : entries[i].key = k
  BY DEF Cached, CacheType

LEMMA StillRight ==
  ASSUME CacheType, CacheType', Right, Among(entries')
  PROVE  Right' /\ \A k : ~Cached(k) => ~Cached(k)'
  <1>1. Right'
    BY DEF Right, Among, Exists, Content
  <1>2. ASSUME NEW k, Cached(k)'
        PROVE  Cached(k)
    <2>1. PICK i \in 1 .. Len(entries') : entries'[i].key = k
      BY <1>2 DEF Cached, CacheType
    <2>2. PICK j \in 1 .. Len(entries) : entries'[i] = entries[j]
      BY DEF Among
    <2>3. DOMAIN entries = 1 .. Len(entries)
      BY DEF CacheType
    <2> QED
      BY <2>1, <2>2, <2>3 DEF Cached
  <1> QED
    BY <1>1, <1>2

\* What a caller does to the cache and to the reads under way.
Reading == \E r, p : LET k == Key(r, p) IN
    \/ Cached(k) /\ Touch(k) /\ UNCHANGED pending
    \/ /\ ~Cached(k) /\ UNCHANGED <<entries, used>>
       /\ pending' = IF pending[k].pc # "none" THEN pending
                     ELSE [pending EXCEPT ![k] = [pc |-> "asked", of |-> <<r, p>>,
                                                  value |-> None, code |-> None]]

LEMMA CallerReads ==
  ASSUME NEW c, ReadFile(c) \/ Stat(c) \/ ListFilesRecursively(c) \/ Resume(c)
  PROVE  retained' = retained /\ (Reading \/ UNCHANGED <<entries, pending, used>>)
  <1>1. \A s, p : Reads(c, s, p) => Reading
    BY DEF Reads, Reading
  <1>2. \A s, code : Finish(c, s, code) => UNCHANGED <<entries, pending, used>>
    BY DEF Finish
  <1>3. ASSUME NEW op, NEW r, NEW p, Begin(c, op, r, p)
        PROVE  retained' = retained /\ (Reading \/ UNCHANGED <<entries, pending, used>>)
    BY <1>1, <1>3 DEF Begin
  <1>4. \A s, d, depth : EnterDirectory(c, s, d, depth) =>
                            Reading \/ UNCHANGED <<entries, pending, used>>
    BY <1>1, <1>2 DEF EnterDirectory
  <1>5. \A s : Statted(c, s) => Reading \/ UNCHANGED <<entries, pending, used>>
    BY <1>2, <1>4 DEF Statted
  <1>6. \A s, stack : Walk(c, s, stack) => Reading \/ UNCHANGED <<entries, pending, used>>
    BY <1>2, <1>4 DEF Walk
  <1>7. Resume(c) => retained' = retained /\ (Reading \/ UNCHANGED <<entries, pending, used>>)
    BY <1>2, <1>5, <1>6 DEF Resume
  <1> QED
    BY <1>3, <1>7 DEF ReadFile, Stat, ListFilesRecursively

LEMMA FlightInit == Init => FlightInv
  <1> SUFFICES ASSUME Init
               PROVE  FlightInv
    OBVIOUS
  <1>1. entries = <<>> /\ used = <<>> /\ Len(entries) = 0 /\ Len(used) = 0
        /\ entries \in Seq(Entries) /\ used \in Seq(Keys)
    BY DEF Init
  <1>2. WeightOf(entries) = 0
    BY <1>1, EntriesWeighed, SumsDefined DEF WeightOf
  <1>3. CacheInv
    BY <1>1, <1>2, Assumed DEF CacheInv, CacheType, Distinct, Follows, Init
  <1>4. Flying
    BY DEF Flying, Init, NoFlight, Flights, Values, Codes
  <1> QED
    BY <1>1, <1>3, <1>4 DEF FlightInv, Right

LEMMA ReadingSafe == FlightInv /\ Reading /\ retained' = retained => FlightInv'
  <1> SUFFICES ASSUME FlightInv, Reading, retained' = retained
               PROVE  FlightInv'
    OBVIOUS
  <1>i. CacheInv /\ CacheType /\ Flying /\ Right
    BY DEF FlightInv, CacheInv
  <1>1. PICK r, p : LET k == Key(r, p) IN
          \/ Cached(k) /\ Touch(k) /\ UNCHANGED pending
          \/ /\ ~Cached(k) /\ UNCHANGED <<entries, used>>
             /\ pending' = IF pending[k].pc # "none" THEN pending
                           ELSE [pending EXCEPT ![k] = [pc |-> "asked", of |-> <<r, p>>,
                                                        value |-> None, code |-> None]]
    BY DEF Reading
  <1> DEFINE k == <<r, p>>
  <1>k. Key(r, p) = k
    BY DEF Key
  <1>2. CASE Cached(k) /\ Touch(k) /\ UNCHANGED pending
    <2>1. CacheInv' /\ Among(entries')
      BY <1>i, <1>2, TouchEffect
    <2>2. Right' /\ \A other : ~Cached(other) => ~Cached(other)'
      BY <1>i, <2>1, StillRight DEF CacheInv
    <2>3. Flying'
      BY <1>i, <1>2, <2>2 DEF Flying, Exists, Content, Answers
    <2> QED
      BY <2>1, <2>2, <2>3 DEF FlightInv
  <1>3. CASE /\ ~Cached(k) /\ UNCHANGED <<entries, used>>
             /\ pending' = IF pending[k].pc # "none" THEN pending
                           ELSE [pending EXCEPT ![k] = [pc |-> "asked", of |-> k,
                                                        value |-> None, code |-> None]]
    <2>1. CacheInv' /\ Right' /\ \A other : Cached(other)' <=> Cached(other)
      BY <1>i, <1>3 DEF CacheInv, CacheType, Right, Cached
    <2> DEFINE flight == [pc |-> "asked", of |-> k, value |-> None, code |-> None]
    <2>2. k \in Keys => flight \in Flights
      BY DEF Flights, Values, Codes
    <2>3. /\ flight.pc = "asked" /\ flight.of = k /\ flight.code = None
      OBVIOUS
    <2> HIDE DEF flight, k
    <2>4. pending' = pending \/ (k \notin Keys /\ pending' = pending)
            \/ (k \in Keys /\ pending' = [pending EXCEPT ![k] = flight])
      BY <1>i, <1>3 DEF Flying, flight
    <2>5. Flying'
      <3>1. CASE pending' = pending
        BY <1>i, <2>1, <3>1 DEF Flying
      <3>2. CASE k \in Keys /\ pending' = [pending EXCEPT ![k] = flight]
        BY <1>i, <1>3, <2>1, <2>2, <2>3, <3>2, FlightMoves
      <3> QED
        BY <2>4, <3>1, <3>2
    <2> QED
      BY <2>1, <2>5 DEF FlightInv
  <1> QED
    BY <1>1, <1>2, <1>3, <1>k

LEMMA StoreSafe == ASSUME FlightInv, NEW k \in Keys, Store(k) PROVE FlightInv'
  <1>i. CacheInv /\ CacheType /\ Flying /\ Right
    BY DEF FlightInv, CacheInv
  <1> DEFINE answer == pending[k].value
             e == [key |-> k, value |-> answer, weight |-> Weight[k]]
  <1>1. /\ pending[k].pc = "answered" /\ pending[k].of = k /\ ~Cached(k)
        /\ answer \in Answers(k[1], k[2])
        /\ answer \in Values
    BY <1>i DEF Store, Flying, Flights
  <1>2. /\ k[1] \in Revisions /\ k[2] \in Paths /\ Weight[k] \in Nat
    BY ReadsAssumption DEF Keys
  <1>3. CASE ~(k[2] \in Files \/ ValidateDirectoryEntries(k[2], answer))
    BY <1>1, <1>3, FailsSafe, ReasonsAre DEF Store
  <1>4. CASE k[2] \in Files \/ ValidateDirectoryEntries(k[2], answer)
    <2>1. /\ SetEntry(k, answer, Weight[k])
          /\ pending' = [pending EXCEPT ![k].pc = "stored", ![k].value = answer]
      BY <1>1, <1>4 DEF Store, Flies
    <2>2. /\ CacheInv'
          /\ \A i \in 1 .. Len(entries') :
                entries'[i] = e \/ \E j \in 1 .. Len(entries) : entries'[i] = entries[j]
      BY <1>i, <1>1, <1>2, <2>1, SetEntryEffect
    <2>3. Exists(k[1], k[2]) /\ answer = Content(k[1], k[2])
      BY <1>1, <1>2, <1>4, Answered
    <2>4. e.key = k /\ e.value = answer
      OBVIOUS
    <2> HIDE DEF e
    <2>5. Right'
      <3>1. SUFFICES ASSUME NEW i \in 1 .. Len(entries')
                     PROVE  LET key == entries'[i].key
                            IN  Exists(key[1], key[2]) /\ entries'[i].value = Content(key[1], key[2])
        BY DEF Right, Exists, Content
      <3>2. CASE entries'[i] = e
        BY <2>3, <2>4, <3>2
      <3>3. CASE \E j \in 1 .. Len(entries) : entries'[i] = entries[j]
        BY <1>i, <3>3 DEF Right
      <3> QED
        BY <2>2, <3>2, <3>3
    <2>6. \A other \in Keys : other # k /\ ~Cached(other) => ~Cached(other)'
      <3>1. SUFFICES ASSUME NEW other \in Keys, other # k, Cached(other)'
                     PROVE  Cached(other)
        OBVIOUS
      <3>2. PICK i \in 1 .. Len(entries') : entries'[i].key = other
        BY <2>2, <3>1 DEF Cached, CacheInv, CacheType
      <3>3. PICK j \in 1 .. Len(entries) : entries'[i] = entries[j]
        BY <2>2, <2>4, <3>1, <3>2
      <3>4. DOMAIN entries = 1 .. Len(entries)
        BY <1>i DEF CacheType
      <3> QED
        BY <3>2, <3>3, <3>4 DEF Cached
    <2>7. Flying'
      <3> DEFINE flight == [pending[k] EXCEPT !.pc = "stored", !.value = answer]
      <3>1. pending[k] \in Flights /\ pending[k].of = k /\ pending[k].code = None
        BY <1>i, <1>1 DEF Flying
      <3>2. /\ flight \in Flights /\ flight.pc = "stored" /\ flight.of = k
            /\ flight.value = answer /\ flight.code = None
        BY <1>1, <3>1 DEF Flights
      <3>3. pending' = [pending EXCEPT ![k] = flight]
        BY <2>1
      <3> HIDE DEF flight, answer
      <3> QED
        BY <1>i, <2>3, <2>6, <3>2, <3>3, FlightMoves
    <2> QED
      BY <2>2, <2>5, <2>7 DEF FlightInv
  <1> QED
    BY <1>3, <1>4

LEMMA FlightNext == FlightInv /\ [Next]_vars => FlightInv'
  <1> SUFFICES ASSUME FlightInv, [Next]_vars
               PROVE  FlightInv'
    OBVIOUS
  <1>i. CacheInv /\ CacheType /\ Flying /\ Right
    BY DEF FlightInv, CacheInv
  <1>u. UNCHANGED <<entries, retained, used>> =>
          CacheInv' /\ Right' /\ \A other : Cached(other)' <=> Cached(other)
    BY <1>i DEF CacheInv, CacheType, Right, Cached
  <1>1. ASSUME NEW c \in Callers,
               ReadFile(c) \/ Stat(c) \/ ListFilesRecursively(c) \/ Resume(c)
        PROVE  FlightInv'
    <2>1. CASE UNCHANGED <<entries, pending, used>> /\ retained' = retained
      BY <1>i, <1>u, <2>1 DEF FlightInv, Flying
    <2> QED
      BY <1>1, <2>1, CallerReads, ReadingSafe
  <1>2. ASSUME NEW k \in Keys, AdapterAnswers(k)
        PROVE  FlightInv'
    <2>1. PICK answer \in Answers(pending[k].of[1], pending[k].of[2]) : Flies(k, "answered", answer)
      BY <1>2 DEF AdapterAnswers
    <2>2. UNCHANGED <<entries, retained, used>> /\ pending[k].pc = "asked" /\ pending[k].of = k
          /\ pending' = [pending EXCEPT ![k].pc = "answered", ![k].value = answer]
          /\ answer \in Values
      <3>1. UNCHANGED <<entries, retained, used>> /\ pending[k].pc = "asked"
            /\ pending' = [pending EXCEPT ![k].pc = "answered", ![k].value = answer]
        BY <1>2, <2>1 DEF AdapterAnswers, Flies
      <3>2. pending[k].of = k
        BY <1>i, <3>1 DEF Flying
      <3>3. answer \in Values
        BY <2>1, <3>2 DEF Values
      <3> QED
        BY <3>1, <3>2, <3>3
    <2>3. Flying'
      <3> DEFINE flight == [pending[k] EXCEPT !.pc = "answered", !.value = answer]
      <3>1. /\ pending[k] \in Flights /\ pending[k].of = k /\ pending[k].code = None
            /\ ~Cached(k) /\ answer \in Answers(k[1], k[2])
        BY <1>i, <2>1, <2>2 DEF Flying
      <3>2. /\ flight \in Flights /\ flight.pc = "answered" /\ flight.of = k
            /\ flight.value = answer /\ flight.code = None
        BY <2>2, <3>1 DEF Flights
      <3>3. pending' = [pending EXCEPT ![k] = flight]
        BY <2>2
      <3> HIDE DEF flight
      <3> QED
        BY <1>i, <1>u, <2>2, <3>1, <3>2, <3>3, FlightMoves
    <2> QED
      BY <1>u, <2>2, <2>3 DEF FlightInv
  <1>3. ASSUME NEW k \in Keys, AdapterRejects(k) \/ Deadline(k)
        PROVE  FlightInv'
    <2>1. pending[k].pc = "asked" /\ pending[k].of = k
      BY <1>i, <1>3 DEF AdapterRejects, Deadline, Flying
    <2>2. PICK code \in Reasons(k) : Fails(k, code)
      BY <1>3, <2>1, ReasonsAre DEF AdapterRejects, Deadline, Reasons
    <2> QED
      BY <2>1, <2>2, FailsSafe
  <1>4. ASSUME NEW k \in Keys, Forget(k)
        PROVE  FlightInv'
    <2>1. UNCHANGED <<entries, retained, used>> /\ pending' = [pending EXCEPT ![k] = NoFlight]
      BY <1>4 DEF Forget
    <2>2. NoFlight \in Flights /\ NoFlight.pc = "none" /\ NoFlight.code = None
      BY DEF NoFlight, Flights, Values, Codes
    <2>3. Flying'
      BY <1>i, <1>u, <2>1, <2>2 DEF Flying
    <2> QED
      BY <1>u, <2>1, <2>3 DEF FlightInv
  <1>5. CASE UNCHANGED vars
    BY <1>i, <1>u, <1>5 DEF vars, FlightInv, Flying
  <1> QED
    BY <1>1, <1>2, <1>3, <1>4, <1>5, StoreSafe DEF Next

LEMMA FlightAlways == Spec => []FlightInv
  BY FlightInit, FlightNext, PTL DEF Spec

\* What the cache accounts for is what it holds, within its limits, and what it
\* holds was used later than all that it does not: entries are put, moved and
\* dropped only together with their size and the order of use, though reads end
\* in any order (RevisionCache of repository-reader.ts).
THEOREM CacheExact == Spec => []CacheIsExact
  <1>1. FlightInv => CacheIsExact
    BY CacheIsOrdered DEF FlightInv
  <1> QED
    BY <1>1, FlightAlways, PTL
-----------------------------------------------------------------------------
(* Paths. *)

LEMMA PathsAreSequences == \A p \in Paths : p \in Seq(STRING) /\ Len(p) \in Nat
  BY ReadsAssumption

\* A path up to a length.
Up(p, m) == SubSeq(p, 1, m)

LEMMA Upward ==
  ASSUME NEW p \in Seq(STRING), NEW m \in 0 .. Len(p)
  PROVE  /\ Up(p, m) \in Seq(STRING) /\ Len(Up(p, m)) = m
         /\ \A i \in 1 .. m : Up(p, m)[i] = p[i]
  <1>1. \A i \in 1 .. Len(p) : p[i] \in STRING
    BY ElementOfSeq
  <1>2. 1 \in Int /\ m \in Int /\ \A i \in 1 .. m : p[i] \in STRING
    BY <1>1
  <1> DEFINE u == SubSeq(p, 1, m)
  <1>3. u \in Seq(STRING) /\ (Len(u) = IF 1 <= m THEN m - 1 + 1 ELSE 0)
        /\ \A i \in 1 .. m - 1 + 1 : u[i] = p[1 + i - 1]
    BY <1>2, SubSeqProperties
  <1> HIDE DEF u
  <1>4. Len(u) = m /\ \A i \in 1 .. m : u[i] = p[i]
    BY <1>3
  <1> QED
    BY <1>3, <1>4 DEF Up, u

LEMMA PrefixIs ==
  \A a, b \in Seq(STRING) :
     IsPrefix(a, b) <=> Len(a) <= Len(b) /\ \A i \in 1 .. Len(a) : a[i] = b[i]
  <1> SUFFICES ASSUME NEW a \in Seq(STRING), NEW b \in Seq(STRING)
               PROVE  IsPrefix(a, b) <=>
                        Len(a) <= Len(b) /\ \A i \in 1 .. Len(a) : a[i] = b[i]
    OBVIOUS
  <1> DEFINE n == Len(a)
  <1>1. n \in Nat /\ Len(b) \in Nat /\ n \in 0 .. Len(a)
    OBVIOUS
  <1> HIDE DEF n
  <1>2. /\ Up(a, n) \in Seq(STRING) /\ Len(Up(a, n)) = n
        /\ \A i \in 1 .. n : Up(a, n)[i] = a[i]
    BY <1>1, Upward
  <1>3. CASE n <= Len(b)
    <2>1. n \in 0 .. Len(b)
      BY <1>1, <1>3
    <2>2. /\ Up(b, n) \in Seq(STRING) /\ Len(Up(b, n)) = n
          /\ \A i \in 1 .. n : Up(b, n)[i] = b[i]
      BY <2>1, Upward
    <2>3. Up(a, n) = Up(b, n) <=> \A i \in 1 .. n : a[i] = b[i]
      <3>1. ASSUME \A i \in 1 .. n : a[i] = b[i]
            PROVE  Up(a, n) = Up(b, n)
        <4>1. \A i \in 1 .. n : Up(a, n)[i] = Up(b, n)[i]
          BY <1>2, <2>2, <3>1
        <4> QED
          BY <1>2, <2>2, <4>1, SeqEqual
      <3>2. ASSUME Up(a, n) = Up(b, n)
            PROVE  \A i \in 1 .. n : a[i] = b[i]
        BY <1>2, <2>2, <3>2
      <3> QED
        BY <3>1, <3>2
    <2> QED
      BY <1>3, <2>3 DEF IsPrefix, Up, n
  <1>4. CASE ~(n <= Len(b))
    BY <1>4 DEF IsPrefix, n
  <1> QED
    BY <1>3, <1>4

LEMMA PrefixOrder ==
  ASSUME NEW a \in Seq(STRING), NEW b \in Seq(STRING)
  PROVE  /\ IsPrefix(a, a)
         /\ IsPrefix(a, b) /\ Len(a) = Len(b) => a = b
         /\ IsStrictPrefix(a, b) => Len(a) < Len(b)
         /\ IsPrefix(a, b) /\ Len(a) < Len(b) => IsStrictPrefix(a, b)
  <1>1. IsPrefix(a, a)
    BY PrefixIs
  <1>2. ASSUME IsPrefix(a, b), Len(a) = Len(b)
        PROVE  a = b
    BY <1>2, PrefixIs, SeqEqual
  <1>3. IsPrefix(a, b) => Len(a) <= Len(b)
    BY PrefixIs
  <1> QED
    BY <1>1, <1>2, <1>3 DEF IsStrictPrefix

LEMMA PrefixTransitive ==
  ASSUME NEW a \in Seq(STRING), NEW b \in Seq(STRING), NEW c \in Seq(STRING)
  PROVE  /\ IsPrefix(a, b) /\ IsPrefix(b, c) => IsPrefix(a, c)
         /\ IsPrefix(a, c) /\ IsPrefix(b, c) /\ Len(a) <= Len(b) => IsPrefix(a, b)
  <1> DEFINE x == Len(a)
             y == Len(b)
             z == Len(c)
  <1>1. x \in Nat /\ y \in Nat /\ z \in Nat
    OBVIOUS
  <1>2. /\ IsPrefix(a, b) <=> x <= y /\ \A i \in 1 .. x : a[i] = b[i]
        /\ IsPrefix(b, c) <=> y <= z /\ \A i \in 1 .. y : b[i] = c[i]
        /\ IsPrefix(a, c) <=> x <= z /\ \A i \in 1 .. x : a[i] = c[i]
    BY PrefixIs
  <1> HIDE DEF x, y, z
  <1>3. x <= y => \A i \in 1 .. x : i \in 1 .. y
    BY <1>1
  <1>4. ASSUME IsPrefix(a, b), IsPrefix(b, c)
        PROVE  IsPrefix(a, c)
    <2>1. x <= z
      BY <1>1, <1>2, <1>4
    <2>2. \A i \in 1 .. x : a[i] = c[i]
      BY <1>2, <1>3, <1>4
    <2> QED
      BY <1>2, <2>1, <2>2
  <1>5. ASSUME IsPrefix(a, c), IsPrefix(b, c), x <= y
        PROVE  IsPrefix(a, b)
    <2>1. \A i \in 1 .. x : a[i] = b[i]
      BY <1>2, <1>3, <1>5
    <2> QED
      BY <1>2, <1>5, <2>1
  <1> QED
    BY <1>4, <1>5 DEF x, y

LEMMA UpIsPrefix ==
  ASSUME NEW p \in Seq(STRING), NEW m \in 0 .. Len(p)
  PROVE  IsPrefix(Up(p, m), p)
  BY Upward, PrefixIs

\* The one prefix of a length.
LEMMA PrefixIsUp ==
  ASSUME NEW a \in Seq(STRING), NEW p \in Seq(STRING), IsPrefix(a, p)
  PROVE  a = Up(p, Len(a))
  <1>1. Len(a) \in 0 .. Len(p)
    BY PrefixIs
  <1>2. /\ Up(p, Len(a)) \in Seq(STRING) /\ Len(Up(p, Len(a))) = Len(a)
        /\ \A i \in 1 .. Len(a) : Up(p, Len(a))[i] = p[i]
    BY <1>1, Upward
  <1>3. \A i \in 1 .. Len(a) : a[i] = Up(p, Len(a))[i]
    BY <1>2, PrefixIs
  <1> QED
    BY <1>2, <1>3, SeqEqual

LEMMA UpOfUp ==
  ASSUME NEW p \in Seq(STRING), NEW m \in 0 .. Len(p), NEW n \in 0 .. m
  PROVE  Up(Up(p, m), n) = Up(p, n)
  <1>1. Up(p, m) \in Seq(STRING) /\ Len(Up(p, m)) = m /\ \A i \in 1 .. m : Up(p, m)[i] = p[i]
    BY Upward
  <1> DEFINE q == Up(p, m)
             l == Len(p)
  <1>2. m \in Nat /\ n \in Nat /\ l \in Nat /\ m <= l /\ n <= m
    OBVIOUS
  <1> HIDE DEF q, l
  <1>3. n \in 0 .. Len(q) /\ n \in 0 .. Len(p)
    BY <1>1, <1>2 DEF q, l
  <1>4. Up(q, n) \in Seq(STRING) /\ Len(Up(q, n)) = n /\ \A i \in 1 .. n : Up(q, n)[i] = q[i]
    BY <1>1, <1>3, Upward DEF q
  <1>5. Up(p, n) \in Seq(STRING) /\ Len(Up(p, n)) = n /\ \A i \in 1 .. n : Up(p, n)[i] = p[i]
    BY <1>3, Upward
  <1>6. \A i \in 1 .. n : i \in 1 .. m
    BY <1>2
  <1>7. \A i \in 1 .. n : Up(q, n)[i] = Up(p, n)[i]
    BY <1>1, <1>4, <1>5, <1>6 DEF q
  <1>8. Up(q, n) = Up(p, n)
    BY <1>4, <1>5, <1>7, SeqEqual
  <1> QED
    BY <1>8 DEF q

LEMMA FrontIs ==
  ASSUME NEW p \in Seq(STRING), p # Root
  PROVE  /\ Front(p) = Up(p, Len(p) - 1) /\ Front(p) \in Seq(STRING)
         /\ Len(Front(p)) = Len(p) - 1 /\ Len(p) - 1 \in 0 .. Len(p)
         /\ IsStrictPrefix(Front(p), p)
  <1>1. Len(p) - 1 \in 0 .. Len(p) /\ Len(p) \in Nat
    BY EmptySeq DEF Root
  <1>2. Front(p) = Up(p, Len(p) - 1)
    BY DEF Front, Up
  <1> DEFINE n == Len(p) - 1
  <1>3. n \in 0 .. Len(p) /\ n < Len(p)
    BY <1>1
  <1> HIDE DEF n
  <1>4. Up(p, n) \in Seq(STRING) /\ Len(Up(p, n)) = n /\ IsPrefix(Up(p, n), p)
    BY <1>3, Upward, UpIsPrefix
  <1>5. IsStrictPrefix(Up(p, n), p)
    BY <1>3, <1>4, PrefixOrder
  <1> QED
    BY <1>1, <1>2, <1>4, <1>5 DEF n

-----------------------------------------------------------------------------
(* What is below a path. *)

Reach(r, p) == Below(r, p) \cup {p}

\* The directories on the way to what a revision has.
LEMMA Ancestors ==
  ASSUME NEW r \in Revisions, NEW p \in Paths, Exists(r, p), NEW m \in 0 .. Len(p)
  PROVE  Exists(r, Up(p, m))
  <1> DEFINE l == Len(p)
             T == {n \in m .. l : Exists(r, Up(p, n))}
  <1>1. p \in Seq(STRING) /\ l \in Nat /\ m \in Nat /\ m <= l
    BY PathsAreSequences
  <1>2. Up(p, l) = p
    <2>1. IsPrefix(p, p)
      BY <1>1, PrefixOrder
    <2> QED
      BY <1>1, <2>1, PrefixIsUp
  <1> HIDE DEF l
  <1>3. T \in SUBSET Nat /\ l \in T
    BY <1>1, <1>2
  <1>4. PICK n \in T : \A k \in T : n <= k
    BY <1>3, LeastElement
  <1>5. SUFFICES n = m
    BY <1>4
  <1>6. SUFFICES ASSUME n # m
                 PROVE  n - 1 \in T
    BY <1>1, <1>4
  <1>7. n \in 0 .. Len(p) /\ n \in Nat /\ n - 1 \in m .. l /\ n - 1 \in 0 .. n /\ n > 0
    BY <1>1, <1>4, <1>6 DEF l
  <1> DEFINE q == Up(p, n)
  <1>8. q \in Seq(STRING) /\ Len(q) = n /\ q # Root /\ Exists(r, q)
    <2>1. q \in Seq(STRING) /\ Len(q) = n
      BY <1>1, <1>7, Upward
    <2>2. Len(Root) = 0
      BY DEF Root
    <2> QED
      BY <1>4, <1>7, <2>1, <2>2
  <1>9. Front(q) = Up(p, n - 1)
    <2>1. Front(q) = Up(q, n - 1)
      BY <1>8, FrontIs
    <2> QED
      BY <1>1, <1>7, <2>1, UpOfUp
  <1>10. Exists(r, Front(q))
    BY <1>8, Trees DEF Exists
  <1> QED
    BY <1>7, <1>9, <1>10

\* What is below a directory is a child or below one.
LEMMA NextOnTheWay ==
  ASSUME NEW r \in Revisions, NEW d \in Paths, NEW p \in Below(r, d)
  PROVE  d \in DOMAIN Tree[r] /\ \E k \in ToSet(Tree[r][d]) : p = k \/ p \in Below(r, k)
  <1>1. /\ p \in Paths /\ Exists(r, p) /\ IsStrictPrefix(d, p) /\ IsPrefix(d, p)
        /\ p \in Seq(STRING) /\ d \in Seq(STRING)
    BY PathsAreSequences DEF Below, IsStrictPrefix
  <1> DEFINE n == Len(d) + 1
             k == Up(p, n)
  <1>2. n \in 0 .. Len(p) /\ Len(d) \in Nat /\ n = Len(d) + 1 /\ Len(d) \in 0 .. n
        /\ n - 1 = Len(d) /\ Len(p) \in Nat
    BY <1>1, PrefixOrder
  <1> HIDE DEF n
  <1>3. k \in Seq(STRING) /\ Len(k) = n /\ Exists(r, k) /\ IsPrefix(k, p)
    BY <1>1, <1>2, Upward, Ancestors, UpIsPrefix
  <1>4. k # Root /\ Front(k) = d
    <2>1. Len(Root) = 0
      BY DEF Root
    <2>2. k # Root
      BY <1>2, <1>3, <2>1
    <2>3. Front(k) = Up(k, n - 1)
      BY <1>3, <2>2, FrontIs
    <2>4. Up(k, Len(d)) = Up(p, Len(d))
      BY <1>1, <1>2, UpOfUp
    <2>5. d = Up(p, Len(d))
      BY <1>1, PrefixIsUp
    <2> HIDE DEF k
    <2> QED
      BY <1>2, <2>2, <2>3, <2>4, <2>5
  <1>5. d \in DOMAIN Tree[r] /\ k \in ToSet(Tree[r][d])
    BY <1>3, <1>4 DEF Exists
  <1>6. p = k \/ p \in Below(r, k)
    BY <1>1, <1>3 DEF Below, IsStrictPrefix
  <1> QED
    BY <1>5, <1>6

LEMMA NothingBelowFiles ==
  ASSUME NEW r \in Revisions, NEW f \in Files
  PROVE  Below(r, f) = {} /\ Reach(r, f) = {f}
  <1>1. f \in Paths /\ f \notin Directories
    BY ReadsAssumption DEF Paths
  <1>2. f \notin DOMAIN Tree[r]
    BY <1>1, Trees
  <1> QED
    BY <1>1, <1>2, NextOnTheWay DEF Reach

LEMMA BelowAre ==
  ASSUME NEW r \in Revisions, NEW d \in DOMAIN Tree[r]
  PROVE  /\ Below(r, d) = UNION {Reach(r, k) : k \in ToSet(Tree[r][d])}
         /\ \A k \in ToSet(Tree[r][d]) : Len(k) = Len(d) + 1 /\ IsStrictPrefix(d, k)
         /\ \A k \in ToSet(Tree[r][d]) : \A p \in Seq(STRING) :
               IsPrefix(p, k) => p = k \/ IsPrefix(p, d)
  <1>1. d \in Paths /\ d \in Seq(STRING) /\ Len(d) \in Nat
    BY Trees, PathsAreSequences
  <1>2. ASSUME NEW k \in ToSet(Tree[r][d])
        PROVE  /\ k \in Paths /\ Exists(r, k) /\ k \in Seq(STRING) /\ k # Root /\ Front(k) = d
               /\ Len(k) = Len(d) + 1 /\ IsStrictPrefix(d, k)
               /\ \A p \in Seq(STRING) : IsPrefix(p, k) => p = k \/ IsPrefix(p, d)
    <2>1. k \in Paths /\ k # Root /\ Front(k) = d /\ Exists(r, k) /\ k \in Seq(STRING)
          /\ Len(k) \in Nat
      BY Trees, PathsAreSequences
    <2>2. Len(d) = Len(k) - 1 /\ IsStrictPrefix(d, k)
      BY <2>1, FrontIs
    <2>3. Len(k) = Len(d) + 1
      BY <1>1, <2>1, <2>2
    <2>4. ASSUME NEW p \in Seq(STRING), IsPrefix(p, k), p # k
          PROVE  IsPrefix(p, d)
      <3>1. Len(p) < Len(k) /\ Len(p) \in Nat
        BY <2>1, <2>4, PrefixOrder DEF IsStrictPrefix
      <3>2. Len(p) <= Len(d)
        BY <1>1, <2>3, <3>1
      <3> QED
        BY <1>1, <2>1, <2>2, <2>4, <3>2, PrefixTransitive DEF IsStrictPrefix
    <2> QED
      BY <2>1, <2>2, <2>3, <2>4
  <1>3. ASSUME NEW k \in ToSet(Tree[r][d]), NEW p \in Reach(r, k)
        PROVE  p \in Below(r, d)
    <2>1. CASE p = k
      BY <1>2, <2>1 DEF Below
    <2>2. CASE p \in Below(r, k)
      <3>1. /\ p \in Paths /\ Exists(r, p) /\ IsStrictPrefix(k, p) /\ IsPrefix(k, p)
            /\ p \in Seq(STRING)
        BY <2>2, PathsAreSequences DEF Below, IsStrictPrefix
      <3>2. IsPrefix(d, p)
        BY <1>1, <1>2, <3>1, PrefixTransitive DEF IsStrictPrefix
      <3>3. Len(k) < Len(p) /\ Len(p) \in Nat
        BY <1>2, <3>1, PrefixOrder
      <3>4. Len(d) < Len(p)
        BY <1>1, <1>2, <3>3
      <3> QED
        BY <1>1, <3>1, <3>2, <3>4, PrefixOrder DEF Below
    <2> QED
      BY <1>3, <2>1, <2>2 DEF Reach
  <1>4. ASSUME NEW p \in Below(r, d)
        PROVE  \E k \in ToSet(Tree[r][d]) : p \in Reach(r, k)
    BY <1>1, NextOnTheWay DEF Reach
  <1> QED
    BY <1>2, <1>3, <1>4

LEMMA BelowFinite ==
  ASSUME NEW r, NEW d
  PROVE  Below(r, d) \subseteq Paths /\ IsFiniteSet(Below(r, d))
  <1>1. Below(r, d) \in SUBSET Paths /\ IsFiniteSet(Paths)
    BY ReadsAssumption DEF Below
  <1> QED
    BY <1>1, FS_Subset
-----------------------------------------------------------------------------
(* Walks. *)

Kids(r, d, depth) == [i \in 1 .. Len(Tree[r][d]) |-> [path |-> Tree[r][d][i], depth |-> depth + 1]]

\* What a walk from o has before it, and what it has seen.
Rest(r, stack) == UNION {Reach(r, stack[i].path) : i \in 1 .. Len(stack)}
Seen(r, o, stack) == Below(r, o) \ Rest(r, stack)

Stacked(r, o, stack) ==
    /\ stack \in Seq(Nodes)
    /\ \A i \in 1 .. Len(stack) :
          stack[i].path \in Below(r, o) /\ stack[i].depth = Len(stack[i].path) - Len(o)
    /\ \A i, j \in 1 .. Len(stack) : IsPrefix(stack[i].path, stack[j].path) => i = j

Listed(r, o, stack, found) ==
    /\ found \in Seq(Files) /\ IsInjective(found)
    /\ ToSet(found) = Seen(r, o, stack) \cap Files

Shallow(r, o, stack) ==
    \A p \in Seen(r, o, stack) \cap Directories : Len(p) - Len(o) <= MaxDepth

LEMMA KidsAre ==
  ASSUME NEW r \in Revisions, NEW d \in DOMAIN Tree[r], NEW depth \in Nat
  PROVE  /\ Kids(r, d, depth) \in Seq(Nodes)
         /\ Len(Kids(r, d, depth)) = Len(Tree[r][d])
         /\ \A i \in 1 .. Len(Tree[r][d]) :
               /\ Kids(r, d, depth)[i].path = Tree[r][d][i]
               /\ Kids(r, d, depth)[i].depth = depth + 1
               /\ Tree[r][d][i] \in ToSet(Tree[r][d])
         /\ \A i, j \in 1 .. Len(Tree[r][d]) : Tree[r][d][i] = Tree[r][d][j] => i = j
  <1> DEFINE t == Tree[r][d]
  <1>1. t \in Seq(Paths) /\ Len(t) \in Nat /\ DOMAIN t = 1 .. Len(t) /\ IsInjective(t)
    BY Trees
  <1> HIDE DEF t
  <1>2. \A i \in 1 .. Len(t) : t[i] \in ToSet(t) /\ t[i] \in Paths
    BY <1>1, ElementOfSeq DEF ToSet
  <1>3. \A i \in 1 .. Len(t) : [path |-> t[i], depth |-> depth + 1] \in Nodes
    BY <1>2 DEF Nodes
  <1> DEFINE k == [i \in 1 .. Len(t) |-> [path |-> t[i], depth |-> depth + 1]]
  <1>4. k \in Seq(Nodes) /\ Len(k) = Len(t)
    BY <1>1, <1>3
  <1>5. \A i, j \in 1 .. Len(t) : t[i] = t[j] => i = j
    BY <1>1 DEF IsInjective
  <1>6. \A i \in 1 .. Len(t) : k[i].path = t[i] /\ k[i].depth = depth + 1
    OBVIOUS
  <1>7. Kids(r, d, depth) = k
    BY DEF Kids, t
  <1> HIDE DEF k
  <1> QED
    BY <1>2, <1>4, <1>5, <1>6, <1>7 DEF t

\* What is in reach of a child is in reach of its directory.
LEMMA RestOfKids ==
  ASSUME NEW r \in Revisions, NEW d \in DOMAIN Tree[r], NEW depth \in Nat
  PROVE  Rest(r, Kids(r, d, depth)) = Below(r, d)
  <1> DEFINE t == Tree[r][d]
             k == Kids(r, d, depth)
  <1>1. Len(k) = Len(t) /\ \A i \in 1 .. Len(t) : k[i].path = t[i] /\ t[i] \in ToSet(t)
    BY KidsAre
  <1>2. \A p \in ToSet(t) : \E i \in 1 .. Len(t) : t[i] = p
    BY Trees DEF ToSet
  <1> HIDE DEF t, k
  <1>3. Rest(r, k) = UNION {Reach(r, p) : p \in ToSet(t)}
    BY <1>1, <1>2 DEF Rest
  <1>4. Below(r, d) = UNION {Reach(r, p) : p \in ToSet(t)}
    BY BelowAre DEF t
  <1> QED
    BY <1>3, <1>4 DEF k

\* The walk of a directory starts with its children.
LEMMA WalkStarts ==
  ASSUME NEW r \in Revisions, NEW o \in DOMAIN Tree[r]
  PROVE  /\ Stacked(r, o, Kids(r, o, 0)) /\ Listed(r, o, Kids(r, o, 0), <<>>)
         /\ Shallow(r, o, Kids(r, o, 0)) /\ Seen(r, o, Kids(r, o, 0)) = {}
         /\ Cardinality(Seen(r, o, Kids(r, o, 0))) = 0
  <1> DEFINE t == Tree[r][o]
             k == Kids(r, o, 0)
  <1>1. /\ k \in Seq(Nodes) /\ Len(k) = Len(t)
        /\ \A i \in 1 .. Len(t) : k[i].path = t[i] /\ k[i].depth = 1 /\ t[i] \in ToSet(t)
        /\ \A i, j \in 1 .. Len(t) : t[i] = t[j] => i = j
    BY KidsAre
  <1>2. o \in Paths /\ o \in Seq(STRING) /\ Len(o) \in Nat
    BY Trees, PathsAreSequences
  <1>3. \A p \in ToSet(t) : /\ p \in Seq(STRING) /\ Len(p) = Len(o) + 1
                            /\ p \in Paths /\ p \in Below(r, o)
    BY Trees, BelowAre, PathsAreSequences DEF Below
  <1>4. Rest(r, k) = Below(r, o)
    BY RestOfKids
  <1> HIDE DEF t, k
  <1>5. Seen(r, o, k) = {}
    BY <1>4 DEF Seen
  <1>6. \A i, j \in 1 .. Len(k) : IsPrefix(k[i].path, k[j].path) => i = j
    BY <1>1, <1>2, <1>3, PrefixOrder
  <1>7. Stacked(r, o, k)
    BY <1>1, <1>2, <1>3, <1>6 DEF Stacked
  <1>8. Listed(r, o, k, <<>>) /\ Shallow(r, o, k)
    BY <1>5 DEF Listed, Shallow, IsInjective, ToSet
  <1> QED
    BY <1>5, <1>7, <1>8, FS_EmptySet DEF k

\* Files that are next: they have been seen, and nothing else.
LEMMA FilesWalked ==
  ASSUME NEW r \in Revisions, NEW o \in Paths, NEW stack, NEW found, NEW n \in 0 .. Len(stack),
         Stacked(r, o, stack), Listed(r, o, stack, found), Shallow(r, o, stack),
         \A i \in 1 .. n : stack[i].path \in Files
  PROVE  LET rest == SubSeq(stack, n + 1, Len(stack))
             more == found \o [i \in 1 .. n |-> stack[i].path]
         IN  /\ Stacked(r, o, rest) /\ Listed(r, o, rest, more) /\ Shallow(r, o, rest)
             /\ Cardinality(Seen(r, o, rest)) = Cardinality(Seen(r, o, stack)) + n
             /\ Cardinality(Seen(r, o, stack)) \in Nat
  <1> DEFINE l == Len(stack)
             rest == SubSeq(stack, n + 1, Len(stack))
             names == [i \in 1 .. n |-> stack[i].path]
             more == found \o names
             F == {stack[i].path : i \in 1 .. n}
  <1>1. /\ stack \in Seq(Nodes) /\ l \in Nat /\ n \in Nat /\ n <= l
        /\ rest \in Seq(Nodes) /\ Len(rest) = l - n
        /\ \A j \in 1 .. l - n : rest[j] = stack[n + j]
    BY Suffix DEF Stacked
  <1>2. /\ \A i \in 1 .. l : stack[i].path \in Below(r, o)
                            /\ stack[i].depth = Len(stack[i].path) - Len(o)
        /\ \A i, j \in 1 .. l : IsPrefix(stack[i].path, stack[j].path) => i = j
    BY DEF Stacked
  <1>3. \A i \in 1 .. n : i \in 1 .. l /\ stack[i].path \in Files
    BY <1>1
  <1>4. \A j \in 1 .. l - n : n + j \in 1 .. l /\ n + j \notin 1 .. n
    BY <1>1
  <1>5. \A i \in 1 .. l : stack[i].path \in Seq(STRING) /\ stack[i].path \in Paths
    BY <1>2, BelowFinite, PathsAreSequences
  <1>6. found \in Seq(Files) /\ IsInjective(found) /\ ToSet(found) = Seen(r, o, stack) \cap Files
    BY DEF Listed
  <1>n. names \in Seq(Files) /\ Len(names) = n /\ \A i \in 1 .. n : names[i] = stack[i].path
    BY <1>1, <1>3
  <1> HIDE DEF l, rest, names, F
  <1>7. Stacked(r, o, rest)
    <2>1. \A i \in 1 .. l - n : rest[i].path \in Below(r, o)
                                /\ rest[i].depth = Len(rest[i].path) - Len(o)
      BY <1>1, <1>2, <1>4
    <2>2. ASSUME NEW i \in 1 .. l - n, NEW j \in 1 .. l - n, IsPrefix(rest[i].path, rest[j].path)
          PROVE  i = j
      <3>1. n + i = n + j
        BY <1>1, <1>2, <1>4, <2>2
      <3> QED
        BY <1>1, <3>1
    <2> QED
      BY <1>1, <2>1, <2>2 DEF Stacked
  <1>8. \A i \in 1 .. n : Reach(r, stack[i].path) = {stack[i].path}
    BY <1>3, NothingBelowFiles
  <1>9. \A i \in 1 .. l : i \in 1 .. n \/ \E j \in 1 .. l - n : i = n + j
    <2>1. SUFFICES ASSUME NEW i \in 1 .. l, i \notin 1 .. n
                   PROVE  i - n \in 1 .. l - n /\ i = n + (i - n)
      OBVIOUS
    <2> QED
      BY <1>1, <2>1
  <1>10. Rest(r, stack) = F \cup Rest(r, rest)
    <2>1. \A p \in F : p \in Rest(r, stack)
      BY <1>3, <1>8 DEF F, Rest, l
    <2>2. \A p \in Rest(r, rest) : p \in Rest(r, stack)
      BY <1>1, <1>4 DEF Rest, l
    <2>3. ASSUME NEW p \in Rest(r, stack)
          PROVE  p \in F \/ p \in Rest(r, rest)
      <3>1. PICK i \in 1 .. l : p \in Reach(r, stack[i].path)
        BY DEF Rest, l
      <3>2. CASE i \in 1 .. n
        BY <1>8, <3>1, <3>2 DEF F
      <3>3. CASE i \notin 1 .. n
        BY <1>1, <1>9, <3>1, <3>3 DEF Rest
      <3> QED
        BY <3>2, <3>3
    <2> QED
      BY <2>1, <2>2, <2>3
  <1>11. F \cap Rest(r, rest) = {}
    <2>1. SUFFICES ASSUME NEW i \in 1 .. n, NEW j \in 1 .. l - n,
                          stack[i].path \in Reach(r, rest[j].path)
                   PROVE  FALSE
      BY <1>1 DEF F, Rest
    <2>2. rest[j] = stack[n + j] /\ n + j \in 1 .. l /\ i \in 1 .. l /\ i # n + j
      BY <1>1, <1>3, <1>4
    <2>3. stack[n + j].path \in Seq(STRING)
      BY <1>5, <2>2
    <2>4. IsPrefix(stack[n + j].path, stack[i].path)
      BY <2>1, <2>2, <2>3, PrefixOrder DEF Reach, Below, IsStrictPrefix
    <2> QED
      BY <1>2, <2>2, <2>4
  <1>12. F \subseteq Below(r, o) /\ F \subseteq Files
    BY <1>2, <1>3 DEF F
  <1>13. /\ Seen(r, o, rest) = Seen(r, o, stack) \cup F
         /\ Seen(r, o, stack) \cap F = {}
    BY <1>10, <1>11, <1>12 DEF Seen
  <1>14. \A i, j \in 1 .. n : stack[i].path = stack[j].path => i = j
    <2>1. SUFFICES ASSUME NEW i \in 1 .. n, NEW j \in 1 .. n, stack[i].path = stack[j].path
                   PROVE  i = j
      OBVIOUS
    <2>2. IsPrefix(stack[i].path, stack[j].path)
      BY <1>3, <1>5, <2>1, PrefixOrder
    <2> QED
      BY <1>2, <1>3, <2>2
  <1>15. IsFiniteSet(F) /\ Cardinality(F) = n
    <2>1. IsFiniteSet(1 .. n) /\ Cardinality(1 .. n) = n
      <3>1. n \in Int /\ 1 \in Int
        BY <1>1
      <3>2. IsFiniteSet(1 .. n) /\ Cardinality(1 .. n) = IF 1 > n THEN 0 ELSE n - 1 + 1
        BY <3>1, FS_Interval
      <3> QED
        BY <1>1, <3>2
    <2>2. names \in Bijection(1 .. n, F)
      <3>1. names \in [1 .. n -> F]
        BY <1>n DEF F
      <3>2. \A i, j \in 1 .. n : names[i] = names[j] => i = j
        BY <1>n, <1>14
      <3>3. \A p \in F : \E i \in 1 .. n : names[i] = p
        BY <1>n DEF F
      <3> QED
        BY <3>1, <3>2, <3>3 DEF Bijection, Injection, Surjection, IsInjective
    <2>3. ExistsBijection(1 .. n, F)
      BY <2>2 DEF ExistsBijection
    <2> QED
      BY <2>1, <2>3, FS_Bijection
  <1>16. /\ Cardinality(Seen(r, o, rest)) = Cardinality(Seen(r, o, stack)) + n
         /\ Cardinality(Seen(r, o, stack)) \in Nat
    <2>1. IsFiniteSet(Seen(r, o, stack))
      <3>1. Seen(r, o, stack) \in SUBSET Below(r, o)
        BY DEF Seen
      <3> QED
        BY <3>1, BelowFinite, FS_Subset
    <2> DEFINE S == Seen(r, o, stack)
    <2> HIDE DEF S
    <2>2. IsFiniteSet(S) /\ S \cap F = {} /\ Seen(r, o, rest) = S \cup F
      BY <1>13, <2>1 DEF S
    <2>3. Cardinality(S \cup F) = Cardinality(S) + Cardinality(F) - Cardinality(S \cap F)
      BY <1>15, <2>2, FS_Union
    <2>4. Cardinality(S \cap F) = 0 /\ Cardinality(S) \in Nat
      BY <2>2, FS_EmptySet, FS_CardinalityType
    <2>5. Cardinality(S \cup F) = Cardinality(S) + n
      BY <1>1, <1>15, <2>3, <2>4
    <2> QED
      BY <2>2, <2>4, <2>5 DEF S
  <1>17. Listed(r, o, rest, more)
    <2> DEFINE m == Len(found)
    <2>1. /\ more \in Seq(Files) /\ Len(more) = m + n /\ m \in Nat /\ DOMAIN found = 1 .. m
          /\ \A i \in 1 .. m + n : more[i] = IF i <= m THEN found[i] ELSE names[i - m]
      <3>1. /\ more \in Seq(Files) /\ Len(more) = Len(found) + Len(names)
            /\ \A i \in 1 .. Len(found) + Len(names) :
                  more[i] = IF i <= Len(found) THEN found[i] ELSE names[i - Len(found)]
        BY <1>6, <1>n, ConcatProperties
      <3>2. Len(names) = n /\ m \in Nat /\ DOMAIN found = 1 .. m
        BY <1>6, <1>n
      <3> HIDE DEF more
      <3> QED
        BY <3>1, <3>2
    <2>2. DOMAIN more = 1 .. m + n
      BY <2>1
    <2> HIDE DEF more, m
    <2>3. \A i \in 1 .. m + n :
            IF i \in 1 .. m
            THEN more[i] = found[i] /\ found[i] \in Seen(r, o, stack)
            ELSE i - m \in 1 .. n /\ more[i] = stack[i - m].path /\ more[i] \in F
      <3>1. SUFFICES ASSUME NEW i \in 1 .. m + n
                     PROVE  IF i \in 1 .. m
                            THEN more[i] = found[i] /\ found[i] \in Seen(r, o, stack)
                            ELSE i - m \in 1 .. n /\ more[i] = stack[i - m].path /\ more[i] \in F
        OBVIOUS
      <3>2. CASE i <= m
        <4>1. i \in 1 .. m /\ more[i] = found[i]
          BY <2>1, <3>2
        <4> QED
          BY <1>6, <2>1, <4>1 DEF ToSet
      <3>3. CASE ~(i <= m)
        <4>1. i - m \in 1 .. n /\ more[i] = names[i - m] /\ i \notin 1 .. m
          BY <1>1, <2>1, <3>3
        <4> QED
          BY <1>n, <4>1 DEF F
      <3> QED
        BY <3>2, <3>3
    <2>4. ASSUME NEW i \in 1 .. m + n, NEW j \in 1 .. m + n, more[i] = more[j]
          PROVE  i = j
      <3>1. CASE i \in 1 .. m /\ j \in 1 .. m
        BY <1>6, <2>1, <2>3, <2>4, <3>1 DEF IsInjective
      <3>2. CASE i \notin 1 .. m /\ j \notin 1 .. m
        <4>1. i - m = j - m
          BY <1>14, <2>3, <2>4, <3>2
        <4> QED
          BY <1>1, <2>1, <4>1
      <3>3. CASE ~(i \in 1 .. m <=> j \in 1 .. m)
        BY <1>13, <2>3, <2>4, <3>3
      <3> QED
        BY <3>1, <3>2, <3>3
    <2>5. IsInjective(more)
      BY <2>2, <2>4 DEF IsInjective
    <2>6. ToSet(more) = ToSet(found) \cup F
      <3>1. \A i \in 1 .. m + n : more[i] \in ToSet(found) \cup F
        BY <2>1, <2>3 DEF ToSet
      <3>2. ASSUME NEW i \in 1 .. m
            PROVE  found[i] \in ToSet(more)
        <4>1. i \in 1 .. m + n /\ i <= m
          BY <1>1, <2>1
        <4> QED
          BY <2>1, <2>2, <4>1 DEF ToSet
      <3>3. ASSUME NEW i \in 1 .. n
            PROVE  stack[i].path \in ToSet(more)
        <4>1. m + i \in 1 .. m + n /\ ~(m + i <= m) /\ (m + i) - m = i
          BY <1>1, <2>1
        <4>2. more[m + i] = stack[i].path
          BY <1>n, <2>1, <4>1
        <4> QED
          BY <2>2, <4>1, <4>2 DEF ToSet
      <3>4. \A p \in ToSet(found) : p \in ToSet(more)
        BY <2>1, <3>2 DEF ToSet
      <3>5. \A p \in F : p \in ToSet(more)
        BY <3>3 DEF F
      <3>6. \A p \in ToSet(more) : p \in ToSet(found) \cup F
        BY <2>2, <3>1 DEF ToSet
      <3> QED
        BY <3>4, <3>5, <3>6
    <2>7. ToSet(more) = Seen(r, o, rest) \cap Files
      BY <1>6, <1>12, <1>13, <2>6
    <2> QED
      BY <2>1, <2>5, <2>7 DEF Listed
  <1>18. Shallow(r, o, rest)
    <2>1. F \cap Directories = {}
      BY <1>12, ReadsAssumption
    <2> QED
      BY <1>13, <2>1 DEF Shallow
  <1> QED
    BY <1>7, <1>16, <1>17, <1>18 DEF rest, names

LEMMA SeenIsFinite ==
  ASSUME NEW r, NEW o, NEW stack
  PROVE  /\ IsFiniteSet(Seen(r, o, stack)) /\ Cardinality(Seen(r, o, stack)) \in Nat
         /\ Cardinality(Seen(r, o, stack)) <= Cardinality(Below(r, o))
         /\ Cardinality(Below(r, o)) \in Nat
  <1>1. Seen(r, o, stack) \in SUBSET Below(r, o)
    BY DEF Seen
  <1> QED
    BY <1>1, BelowFinite, FS_Subset, FS_CardinalityType

\* A directory that is next: it has been seen, and its children are next.
LEMMA DirectoryEntered ==
  ASSUME NEW r \in Revisions, NEW o \in Paths, NEW stack, NEW found, 1 <= Len(stack),
         Stacked(r, o, stack), Listed(r, o, stack, found), stack[1].path \in Directories
  PROVE  LET x == stack[1].path
             new == Kids(r, x, stack[1].depth) \o SubSeq(stack, 2, Len(stack))
         IN  /\ x \in DOMAIN Tree[r] /\ x \in Below(r, o) /\ x \in Seen(r, o, new)
             /\ stack[1].depth \in Nat /\ stack[1].depth = Len(x) - Len(o)
             /\ Stacked(r, o, new) /\ Listed(r, o, new, found)
             /\ Cardinality(Seen(r, o, new)) = Cardinality(Seen(r, o, stack)) + 1
             /\ Shallow(r, o, stack) /\ stack[1].depth <= MaxDepth => Shallow(r, o, new)
  <1> DEFINE l == Len(stack)
             x == stack[1].path
             depth == stack[1].depth
             rest == SubSeq(stack, 2, l)
             kids == Kids(r, x, depth)
             new == kids \o rest
             t == Tree[r][x]
             m == Len(t)
  <1>1. /\ stack \in Seq(Nodes) /\ l \in Nat /\ 1 <= l
        /\ rest \in Seq(Nodes) /\ Len(rest) = l - 1
        /\ \A j \in 1 .. l - 1 : rest[j] = stack[1 + j]
    <2>1. stack \in Seq(Nodes) /\ 1 \in 0 .. Len(stack) /\ 1 + 1 = 2 /\ l \in Nat
      BY DEF Stacked
    <2>2. /\ SubSeq(stack, 1 + 1, Len(stack)) \in Seq(Nodes)
          /\ Len(SubSeq(stack, 1 + 1, Len(stack))) = Len(stack) - 1
          /\ \A j \in 1 .. Len(stack) - 1 : SubSeq(stack, 1 + 1, Len(stack))[j] = stack[1 + j]
      BY <2>1, Suffix
    <2> QED
      BY <2>1, <2>2
  <1>2. /\ \A i \in 1 .. l : stack[i].path \in Below(r, o)
                            /\ stack[i].depth = Len(stack[i].path) - Len(o)
        /\ \A i, j \in 1 .. l : IsPrefix(stack[i].path, stack[j].path) => i = j
    BY DEF Stacked
  <1>3. \A i \in 1 .. l : stack[i].path \in Seq(STRING) /\ stack[i].path \in Paths
                        /\ stack[i] \in Nodes
    BY <1>1, <1>2, BelowFinite, PathsAreSequences, ElementOfSeq
  <1>4. /\ 1 \in 1 .. l /\ x \in Below(r, o) /\ depth = Len(x) - Len(o) /\ depth \in Nat
        /\ x \in Seq(STRING) /\ x \in Paths /\ Len(x) \in Nat /\ Len(o) \in Nat
        /\ o \in Seq(STRING) /\ IsPrefix(o, x) /\ Exists(r, x)
    BY <1>1, <1>2, <1>3, PathsAreSequences DEF Nodes, Below, IsStrictPrefix
  <1>5. x \in DOMAIN Tree[r]
    BY <1>4, Trees
  <1>6. /\ kids \in Seq(Nodes) /\ Len(kids) = m /\ m \in Nat
        /\ \A i \in 1 .. m : kids[i].path = t[i] /\ kids[i].depth = depth + 1 /\ t[i] \in ToSet(t)
        /\ \A i, j \in 1 .. m : t[i] = t[j] => i = j
    <2> HIDE DEF x, depth
    <2>1. t \in Seq(Paths) /\ m \in Nat
      BY <1>5, Trees
    <2> QED
      BY <1>4, <1>5, <2>1, KidsAre
  <1>7. \A k \in ToSet(t) :
          /\ k \in Seq(STRING) /\ k \in Paths /\ Len(k) = Len(x) + 1 /\ IsPrefix(x, k) /\ k # x
          /\ k \in Below(r, x)
          /\ \A p \in Seq(STRING) : IsPrefix(p, k) => p = k \/ IsPrefix(p, x)
    BY <1>5, Trees, BelowAre, PathsAreSequences DEF IsStrictPrefix, Below
  <1>8. Rest(r, kids) = Below(r, x)
    BY <1>4, <1>5, RestOfKids
  <1>9. /\ new \in Seq(Nodes) /\ Len(new) = m + (l - 1)
        /\ \A i \in 1 .. m + (l - 1) : new[i] = IF i <= m THEN kids[i] ELSE rest[i - m]
    <2> HIDE DEF x, depth, rest, kids, m, l
    <2>0. kids \in Seq(Nodes) /\ rest \in Seq(Nodes)
      BY <1>1, <1>6
    <2>1. /\ new \in Seq(Nodes) /\ Len(new) = Len(kids) + Len(rest)
          /\ \A i \in 1 .. Len(kids) + Len(rest) :
                new[i] = IF i <= Len(kids) THEN kids[i] ELSE rest[i - Len(kids)]
      BY <2>0, ConcatProperties
    <2> HIDE DEF new
    <2> QED
      BY <1>1, <1>6, <2>1
  <1> HIDE DEF l, rest, kids, new, m, t
  <1>10. \A i \in 1 .. m + (l - 1) :
           IF i \in 1 .. m
           THEN new[i] = kids[i]
           ELSE /\ new[i] = stack[1 + (i - m)] /\ i - m \in 1 .. l - 1
                /\ 1 + (i - m) \in 1 .. l /\ 1 + (i - m) # 1
    <2>1. SUFFICES ASSUME NEW i \in 1 .. m + (l - 1)
                   PROVE  IF i \in 1 .. m
                          THEN new[i] = kids[i]
                          ELSE /\ new[i] = stack[1 + (i - m)] /\ i - m \in 1 .. l - 1
                               /\ 1 + (i - m) \in 1 .. l /\ 1 + (i - m) # 1
      OBVIOUS
    <2>2. CASE i <= m
      BY <1>6, <1>9, <2>2
    <2>3. CASE ~(i <= m)
      <3>1. i - m \in 1 .. l - 1 /\ i \notin 1 .. m
            /\ 1 + (i - m) \in 1 .. l /\ 1 + (i - m) # 1
        <4>1. m \in Nat /\ l \in Nat
          BY <1>1, <1>6
        <4> QED
          BY <4>1, <2>1, <2>3
      <3>2. new[i] = rest[i - m]
        BY <1>9, <2>3
      <3> QED
        BY <1>1, <3>1, <3>2
    <2> QED
      BY <2>2, <2>3
  <1>11. ASSUME NEW k \in ToSet(t), NEW i \in 1 .. l, i # 1
         PROVE  ~IsPrefix(k, stack[i].path) /\ ~IsPrefix(stack[i].path, k)
    <2> DEFINE y == stack[i].path
    <2>1. y \in Seq(STRING) /\ ~IsPrefix(x, y) /\ ~IsPrefix(y, x) /\ IsPrefix(y, y)
      BY <1>2, <1>3, <1>4, <1>11, PrefixOrder
    <2> HIDE DEF y
    <2>2. k \in Seq(STRING) /\ IsPrefix(x, k)
          /\ (IsPrefix(y, k) => y = k \/ IsPrefix(y, x))
      BY <1>7, <2>1
    <2>3. ~IsPrefix(k, y)
      BY <1>4, <2>1, <2>2, PrefixTransitive
    <2>4. ~IsPrefix(y, k)
      BY <2>1, <2>2, <2>3
    <2> QED
      BY <2>3, <2>4 DEF y
  <1>12. ASSUME NEW i \in 1 .. m + (l - 1)
         PROVE  new[i].path \in Below(r, o) /\ new[i].depth = Len(new[i].path) - Len(o)
    <2>1. CASE i \in 1 .. m
      <3>1. new[i].path = t[i] /\ new[i].depth = depth + 1 /\ t[i] \in ToSet(t)
        BY <1>6, <1>10, <2>1
      <3> DEFINE k == t[i]
      <3>2. k \in Seq(STRING) /\ k \in Paths /\ Len(k) = Len(x) + 1 /\ IsPrefix(x, k) /\ k \in Below(r, x)
        BY <1>7, <3>1
      <3> HIDE DEF k
      <3>3. IsPrefix(o, k)
        BY <1>4, <3>2, PrefixTransitive
      <3>4. Len(x) >= Len(o)
        BY <1>4, PrefixIs
      <3>5. Len(o) < Len(k) /\ depth + 1 = Len(k) - Len(o)
        BY <1>4, <3>2, <3>4
      <3>6. k \in Below(r, o)
        BY <1>4, <3>2, <3>3, <3>5, PrefixOrder DEF Below
      <3> QED
        BY <3>1, <3>5, <3>6 DEF k
    <2>2. CASE i \notin 1 .. m
      BY <1>2, <1>10, <2>2
    <2> QED
      BY <2>1, <2>2
  <1>13. ASSUME NEW i \in 1 .. m + (l - 1), NEW j \in 1 .. m + (l - 1),
                IsPrefix(new[i].path, new[j].path)
         PROVE  i = j
    <2>1. CASE i \in 1 .. m /\ j \in 1 .. m
      <3>1. new[i].path = t[i] /\ new[j].path = t[j] /\ t[i] \in ToSet(t) /\ t[j] \in ToSet(t)
        BY <1>6, <1>10, <2>1
      <3>2. t[i] \in Seq(STRING) /\ t[j] \in Seq(STRING) /\ Len(t[i]) = Len(t[j])
        BY <1>7, <3>1
      <3>3. t[i] = t[j]
        BY <1>13, <3>1, <3>2, PrefixOrder
      <3> QED
        BY <1>6, <2>1, <3>3
    <2>2. CASE i \in 1 .. m /\ j \notin 1 .. m
      <3>1. new[i].path = t[i] /\ t[i] \in ToSet(t)
        BY <1>6, <1>10, <2>2
      <3> QED
        BY <1>10, <1>11, <1>13, <2>2, <3>1
    <2>3. CASE i \notin 1 .. m /\ j \in 1 .. m
      <3>1. new[j].path = t[j] /\ t[j] \in ToSet(t)
        BY <1>6, <1>10, <2>3
      <3> QED
        BY <1>10, <1>11, <1>13, <2>3, <3>1
    <2>4. CASE i \notin 1 .. m /\ j \notin 1 .. m
      <3>1. 1 + (i - m) = 1 + (j - m)
        BY <1>2, <1>10, <1>13, <2>4
      <3> QED
        BY <1>1, <1>6, <3>1
    <2> QED
      BY <2>1, <2>2, <2>3, <2>4
  <1>14. Stacked(r, o, new)
    BY <1>9, <1>12, <1>13 DEF Stacked
  <1>15. Rest(r, stack) = Rest(r, new) \cup {x} /\ x \notin Rest(r, new)
    <2> DEFINE Others1 == UNION {Reach(r, stack[i].path) : i \in (1 .. l) \ {1}}
    <2>1. Rest(r, stack) = Reach(r, x) \cup Others1
      <3>1. Rest(r, stack) = UNION {Reach(r, stack[i].path) : i \in 1 .. l}
        BY DEF Rest, l
      <3> QED
        BY <1>4, <3>1
    <2>2. Rest(r, new) = Rest(r, kids) \cup Others1
      <3>1. ASSUME NEW p \in Rest(r, new)
            PROVE  p \in Rest(r, kids) \cup Others1
        <4>1. PICK i \in 1 .. m + (l - 1) : p \in Reach(r, new[i].path)
          BY <1>9 DEF Rest
        <4> QED
          BY <1>6, <1>10, <4>1 DEF Rest
      <3>2. ASSUME NEW p \in Rest(r, kids)
            PROVE  p \in Rest(r, new)
        <4>1. PICK i \in 1 .. m : p \in Reach(r, kids[i].path)
          BY <1>6 DEF Rest
        <4>2. i \in 1 .. m + (l - 1)
          BY <1>1, <1>6
        <4> QED
          BY <1>9, <1>10, <4>1, <4>2 DEF Rest
      <3>3. ASSUME NEW i \in 1 .. l, i # 1
            PROVE  Reach(r, stack[i].path) \subseteq Rest(r, new)
        <4> DEFINE j == m + (i - 1)
        <4>1. j \in 1 .. m + (l - 1) /\ j \notin 1 .. m /\ 1 + (j - m) = i
          BY <1>1, <1>6, <3>3
        <4> HIDE DEF j
        <4>2. new[j] = stack[i]
          BY <1>10, <4>1
        <4> QED
          BY <1>9, <4>1, <4>2 DEF Rest
      <3> QED
        BY <3>1, <3>2, <3>3
    <2>3. x \notin Below(r, x)
      BY DEF Below, IsStrictPrefix
    <2>4. ASSUME NEW i \in 1 .. l, i # 1, x \in Reach(r, stack[i].path)
          PROVE  FALSE
      <3>1. IsPrefix(stack[i].path, x)
        BY <1>3, <2>4, PrefixOrder DEF Reach, Below, IsStrictPrefix
      <3> QED
        BY <1>2, <1>4, <2>4, <3>1
    <2>5. x \notin Others1
      BY <2>4
    <2> QED
      BY <1>8, <2>1, <2>2, <2>3, <2>5 DEF Reach
  <1>16. /\ Seen(r, o, new) = Seen(r, o, stack) \cup {x}
         /\ x \notin Seen(r, o, stack)
    BY <1>4, <1>15 DEF Seen
  <1>17. Cardinality(Seen(r, o, new)) = Cardinality(Seen(r, o, stack)) + 1
    BY <1>16, SeenIsFinite, FS_AddElement
  <1>18. Listed(r, o, new, found)
    <2>1. x \notin Files
      BY ReadsAssumption
    <2> QED
      BY <1>16, <2>1 DEF Listed
  <1>19. Shallow(r, o, stack) /\ depth <= MaxDepth => Shallow(r, o, new)
    BY <1>4, <1>16 DEF Shallow
  <1> QED
    BY <1>4, <1>5, <1>14, <1>16, <1>17, <1>18, <1>19 DEF new, kids, rest, l

LEMMA SuffixOfSuffix ==
  ASSUME NEW S, NEW stack \in Seq(S), NEW n \in Nat, n < Len(stack)
  PROVE  LET rest == SubSeq(stack, n + 1, Len(stack))
         IN  /\ SubSeq(rest, 2, Len(rest)) = SubSeq(stack, (n + 1) + 1, Len(stack))
             /\ Len(rest) = Len(stack) - n /\ 1 <= Len(rest) /\ rest[1] = stack[n + 1]
             /\ SubSeq(stack, (n + 1) + 1, Len(stack)) \in Seq(S)
  <1> DEFINE l == Len(stack)
             rest == SubSeq(stack, n + 1, l)
             a == SubSeq(rest, 1 + 1, Len(rest))
             b == SubSeq(stack, (n + 1) + 1, l)
  <1>1. l \in Nat /\ n \in 0 .. Len(stack) /\ n + 1 \in 0 .. Len(stack) /\ n + 1 <= l
    OBVIOUS
  <1>2. rest \in Seq(S) /\ Len(rest) = l - n /\ \A j \in 1 .. l - n : rest[j] = stack[n + j]
    BY <1>1, Suffix
  <1>3. b \in Seq(S) /\ Len(b) = l - (n + 1) /\ \A j \in 1 .. l - (n + 1) : b[j] = stack[(n + 1) + j]
    BY <1>1, Suffix
  <1> HIDE DEF l, rest
  <1>4. 1 \in 0 .. Len(rest) /\ 1 \in 1 .. l - n
    BY <1>1, <1>2
  <1>5. /\ a \in Seq(S) /\ Len(a) = Len(rest) - 1
        /\ \A j \in 1 .. Len(rest) - 1 : a[j] = rest[1 + j]
    BY <1>2, <1>4, Suffix
  <1> HIDE DEF a, b
  <1>6. Len(a) = Len(b) /\ Len(a) = l - (n + 1)
    BY <1>1, <1>2, <1>3, <1>5
  <1>7. ASSUME NEW j \in 1 .. Len(a)
        PROVE  a[j] = b[j]
    <2>1. /\ j \in 1 .. Len(rest) - 1 /\ j \in 1 .. l - (n + 1) /\ 1 + j \in 1 .. l - n
          /\ n + (1 + j) = (n + 1) + j
      BY <1>1, <1>2, <1>6
    <2> QED
      BY <1>2, <1>3, <1>5, <2>1
  <1>8. a = b
    BY <1>3, <1>5, <1>6, <1>7, SeqEqual
  <1>9. SubSeq(rest, 2, Len(rest)) = SubSeq(stack, (n + 1) + 1, l)
    <2>1. 1 + 1 = 2
      OBVIOUS
    <2> QED
      BY <1>8, <2>1 DEF a, b
  <1>10. rest[1] = stack[n + 1] /\ 1 <= Len(rest)
    BY <1>1, <1>2, <1>4
  <1>11. SubSeq(stack, (n + 1) + 1, l) \in Seq(S)
    BY <1>3 DEF b
  <1> QED
    BY <1>2, <1>9, <1>10, <1>11 DEF rest, l
-----------------------------------------------------------------------------
(* Calls. *)

\* What a call that has ended returns.
Exact(s) ==
    LET there == Exists(s.revision, s.origin)
        fits == s.origin \in Files \/ Fits(s.revision, s.origin)
    IN  CASE s.code \in {"OFFLINE", "UNKNOWN"} -> TRUE
          [] s.code = "NOT_FOUND" -> ~there
          [] s.code = "UNSUPPORTED" ->
               \/ s.op = "list" /\ there /\ ~fits
               \/ \E p \in Consults(s) : <<s.revision, p>> \in Unsupported
          [] OTHER ->
               /\ there
               /\ s.op = "file" => s.value = Content(s.revision, s.origin)
               /\ s.op = "list" =>
                     /\ fits /\ IsInjective(s.found)
                     /\ ToSet(s.found) = Files \cap
                           (Below(s.revision, s.origin) \cup {s.origin})

\* What it has seen of a tree, as if the directory it waits for were listed.
Walking(s) ==
    LET stack == Kids(s.revision, s.path, s.depth) \o s.todo
    IN  /\ s.op = "list" /\ s.origin \in Directories /\ Exists(s.revision, s.origin)
        /\ s.path \in DOMAIN Tree[s.revision]
        /\ s.path = s.origin \/ s.path \in Below(s.revision, s.origin)
        /\ Stacked(s.revision, s.origin, stack)
        /\ Listed(s.revision, s.origin, stack, s.found)
        /\ Shallow(s.revision, s.origin, stack)
        /\ s.visited = Cardinality(Seen(s.revision, s.origin, stack)) /\ s.visited <= MaxNodes

Active(s) ==
    /\ s.revision \in Revisions /\ s.origin \in Paths
    /\ \/ s.phase = "file" /\ s.op = "file" /\ s.path = s.origin /\ s.origin \in Files
       \/ /\ s.phase = "stat" /\ s.op \in {"stat", "list"}
          /\ s.todo = <<>> /\ s.visited = 0 /\ s.found = <<>>
          /\ IF s.origin = Root THEN s.pc = "got" ELSE s.path = Front(s.origin)
       \/ s.phase = "walk" /\ Walking(s)
    /\ s.pc = "wait" => s.code = None
    /\ s.code # None => /\ s.code \in Reasons(<<s.revision, s.path>>)
                        /\ ~(s.phase = "stat" /\ s.origin = Root)
    /\ s.pc = "got" /\ s.code = None /\ ~(s.phase = "stat" /\ s.origin = Root) =>
          Exists(s.revision, s.path) /\ s.value = Content(s.revision, s.path)

CallOK(s) ==
    /\ s.pc = "done" => Exact(s)
    /\ s.pc \in {"wait", "got"} => Active(s)

CallsInv == reader \in [Callers -> Calls] /\ \A c \in Callers : CallOK(reader[c])

LEMMA NoCode == None \notin {"OFFLINE", "UNKNOWN", "NOT_FOUND", "UNSUPPORTED"}
  BY ReadsAssumption

LEMMA ExactWhen ==
  ASSUME NEW s
  PROVE  /\ s.code \in {"OFFLINE", "UNKNOWN"} => Exact(s)
         /\ s.code = "NOT_FOUND" /\ ~Exists(s.revision, s.origin) => Exact(s)
         /\ /\ s.code = "UNSUPPORTED"
            /\ \E p \in Consults(s) : <<s.revision, p>> \in Unsupported
            => Exact(s)
         /\ /\ s.code = "UNSUPPORTED" /\ s.op = "list" /\ Exists(s.revision, s.origin)
            /\ s.origin \notin Files /\ ~Fits(s.revision, s.origin)
            => Exact(s)
         /\ /\ s.code = None /\ Exists(s.revision, s.origin)
            /\ s.op = "file" => s.value = Content(s.revision, s.origin)
            /\ s.op = "list" =>
                  /\ s.origin \in Files \/ Fits(s.revision, s.origin)
                  /\ IsInjective(s.found)
                  /\ ToSet(s.found) = Files \cap Reach(s.revision, s.origin)
            => Exact(s)
  BY NoCode DEF Exact, Reach

\* One caller goes on.
LEMMA OneGoesOn ==
  ASSUME CallsInv, NEW c \in Callers, NEW u \in Calls, CallOK(u),
         reader' = [reader EXCEPT ![c] = u]
  PROVE  CallsInv'
  <1>1. reader \in [Callers -> Calls] /\ \A d \in Callers : CallOK(reader[d])
    BY DEF CallsInv
  <1>2. reader' \in [Callers -> Calls]
    BY <1>1
  <1>3. \A d \in Callers : CallOK(reader'[d])
    BY <1>1
  <1> QED
    BY <1>2, <1>3 DEF CallsInv, CallOK, Exact, Active, Walking

LEMMA Finished ==
  ASSUME CallsInv, NEW c \in Callers, NEW s \in Calls,
         NEW code \in {"OFFLINE", "UNKNOWN", "NOT_FOUND", "UNSUPPORTED", None}, Finish(c, s, code),
         Exact([s EXCEPT !.pc = "done", !.code = code])
  PROVE  CallsInv'
  <1> DEFINE u == [s EXCEPT !.pc = "done", !.code = code]
  <1>1. u \in Calls /\ u.pc = "done"
    BY DEF Calls, Codes
  <1>2. reader' = [reader EXCEPT ![c] = u]
    BY DEF Finish
  <1>3. Exact(u)
    OBVIOUS
  <1> HIDE DEF u
  <1>4. CallOK(u)
    BY <1>1, <1>3 DEF CallOK
  <1> QED
    BY <1>1, <1>2, <1>4, OneGoesOn

\* What a call that reads a path looks like then.
Goes(s, p, u) ==
    /\ u \in Calls /\ u.pc \in {"wait", "got"} /\ u.path = p
    /\ u.pc = "got" => Exists(s.revision, p) /\ u.value = Content(s.revision, p)
    /\ u.op = s.op /\ u.revision = s.revision /\ u.origin = s.origin /\ u.phase = s.phase
    /\ u.depth = s.depth /\ u.todo = s.todo /\ u.visited = s.visited /\ u.found = s.found
    /\ u.code = s.code

LEMMA ReadsGo ==
  ASSUME FlightInv, NEW c, NEW s \in Calls, NEW p \in Paths, Reads(c, s, p)
  PROVE  \E u : Goes(s, p, u) /\ reader' = [reader EXCEPT ![c] = u]
  <1> DEFINE k == Key(s.revision, p)
  <1>1. CASE Cached(k)
    <2> DEFINE u == [s EXCEPT !.pc = "got", !.path = p, !.value = Entry(k).value]
    <2>1. reader' = [reader EXCEPT ![c] = u]
      BY <1>1 DEF Reads
    <2>2. Place(k) \in 1 .. Len(entries) /\ Entry(k) = entries[Place(k)] /\ Entry(k).key = k
          /\ Entry(k) \in Entries
      BY <1>1, PlaceOfKey DEF FlightInv, CacheInv
    <2>3. Exists(s.revision, p) /\ Entry(k).value = Content(s.revision, p)
      <3>1. Exists(k[1], k[2]) /\ Entry(k).value = Content(k[1], k[2])
        BY <2>2 DEF FlightInv, Right
      <3>2. k[1] = s.revision /\ k[2] = p
        BY DEF Key
      <3> QED
        BY <3>1, <3>2
    <2>4. Entry(k).value \in Values
      BY <2>2 DEF Entries
    <2> DEFINE v == Entry(k).value
    <2>5. v \in Values /\ v = Content(s.revision, p)
      BY <2>3, <2>4
    <2> HIDE DEF v, k
    <2>6. Goes(s, p, [s EXCEPT !.pc = "got", !.path = p, !.value = v])
      BY <2>3, <2>5 DEF Goes, Calls
    <2> QED
      BY <2>1, <2>6 DEF v
  <1>2. CASE ~Cached(k)
    <2> DEFINE u == [s EXCEPT !.pc = "wait", !.path = p]
    <2>1. reader' = [reader EXCEPT ![c] = u]
      BY <1>2 DEF Reads
    <2>2. Goes(s, p, u)
      BY DEF Goes, Calls
    <2> QED
      BY <2>1, <2>2
  <1> QED
    BY <1>1, <1>2

LEMMA NoCallIs ==
  /\ NoCall \in Calls
  /\ NoCall.todo = <<>> /\ NoCall.visited = 0 /\ NoCall.found = <<>> /\ NoCall.code = None
  /\ CallOK(NoCall)
  <1>1. None \in Values /\ <<>> \in Seq(Nodes) /\ <<>> \in Seq(Files)
    BY DEF Values
  <1>2. NoCall.pc = "idle"
    BY DEF NoCall
  <1>3. NoCall \in Calls
    BY <1>1 DEF NoCall, Calls, Codes
  <1>4. NoCall.todo = <<>> /\ NoCall.visited = 0 /\ NoCall.found = <<>> /\ NoCall.code = None
    BY DEF NoCall
  <1> QED
    BY <1>2, <1>3, <1>4 DEF CallOK

LEMMA BeginSafe ==
  ASSUME FlightInv, CallsInv, NEW c \in Callers, NEW op \in {"file", "stat", "list"},
         NEW r \in Revisions, NEW p \in Paths, op = "file" => p \in Files, Begin(c, op, r, p)
  PROVE  CallsInv'
  <1> DEFINE s == [NoCall EXCEPT !.op = op, !.revision = r, !.origin = p,
                                 !.phase = IF op = "file" THEN "file" ELSE "stat"]
  <1>1. /\ s \in Calls /\ s.op = op /\ s.revision = r /\ s.origin = p /\ s.code = None
        /\ s.phase = IF op = "file" THEN "file" ELSE "stat"
        /\ s.todo = <<>> /\ s.visited = 0 /\ s.found = <<>>
    <2> DEFINE phase == IF op = "file" THEN "file" ELSE "stat"
    <2>1. phase \in {"file", "stat"} /\ op \in {"file", "stat", "list"}
      OBVIOUS
    <2>2. s = [NoCall EXCEPT !.op = op, !.revision = r, !.origin = p, !.phase = phase]
      OBVIOUS
    <2> HIDE DEF phase, s
    <2>0. NoCall \in Calls
      BY NoCallIs
    <2>5. s \in Calls
      BY <2>0, <2>1, <2>2 DEF Calls
    <2>3. s.op = op /\ s.revision = r /\ s.origin = p /\ s.phase = phase
      BY <2>2, NoCallIs DEF Calls
    <2>4. s.code = NoCall.code /\ s.todo = NoCall.todo /\ s.visited = NoCall.visited
          /\ s.found = NoCall.found
      BY <2>2, NoCallIs DEF Calls
    <2> QED
      BY <2>3, <2>4, <2>5, NoCallIs DEF phase
  <1>2. /\ op = "file" => Reads(c, s, p)
        /\ op # "file" /\ p # Root => Reads(c, s, Front(p))
        /\ op # "file" /\ p = Root => reader' = [reader EXCEPT ![c] = [s EXCEPT !.pc = "got"]]
    BY DEF Begin
  <1> HIDE DEF s
  <1>3. CASE op = "file"
    <2>1. PICK u : Goes(s, p, u) /\ reader' = [reader EXCEPT ![c] = u]
      BY <1>1, <1>2, <1>3, ReadsGo
    <2>2. CallOK(u)
      BY <1>1, <1>3, <2>1 DEF Goes, CallOK, Active
    <2> QED
      BY <2>1, <2>2, OneGoesOn DEF Goes
  <1>4. CASE op # "file" /\ p # Root
    <2>1. Front(p) \in Paths
      BY <1>4, ReadsAssumption DEF Paths
    <2>2. PICK u : Goes(s, Front(p), u) /\ reader' = [reader EXCEPT ![c] = u]
      BY <1>1, <1>2, <1>4, <2>1, ReadsGo
    <2>3. CallOK(u)
      BY <1>1, <1>4, <2>2 DEF Goes, CallOK, Active
    <2> QED
      BY <2>2, <2>3, OneGoesOn DEF Goes
  <1>5. CASE op # "file" /\ p = Root
    <2> DEFINE u == [s EXCEPT !.pc = "got"]
    <2>1. reader' = [reader EXCEPT ![c] = u]
      BY <1>2, <1>5
    <2>2. /\ u \in Calls /\ u.pc = "got" /\ u.op = op /\ u.revision = r /\ u.origin = p
          /\ u.code = None /\ u.phase = "stat" /\ u.todo = <<>> /\ u.visited = 0 /\ u.found = <<>>
      BY <1>1, <1>5 DEF Calls
    <2> HIDE DEF u
    <2>3. CallOK(u)
      BY <1>5, <2>2 DEF CallOK, Active
    <2> QED
      BY <2>1, <2>2, <2>3, OneGoesOn
  <1> QED
    BY <1>3, <1>4, <1>5

\* A directory is entered: its children come before what is left.
LEMMA EnterSafe ==
  ASSUME FlightInv, CallsInv, NEW c \in Callers, NEW s \in Calls, NEW d, NEW depth \in Nat,
         s.revision \in Revisions, s.origin \in Directories, s.op = "list", s.code = None,
         Exists(s.revision, s.origin),
         d \in DOMAIN Tree[s.revision], d = s.origin \/ d \in Below(s.revision, s.origin),
         depth = Len(d) - Len(s.origin),
         Stacked(s.revision, s.origin, Kids(s.revision, d, depth) \o s.todo),
         Listed(s.revision, s.origin, Kids(s.revision, d, depth) \o s.todo, s.found),
         depth <= MaxDepth => Shallow(s.revision, s.origin, Kids(s.revision, d, depth) \o s.todo),
         s.visited = Cardinality(Seen(s.revision, s.origin, Kids(s.revision, d, depth) \o s.todo)),
         s.visited <= MaxNodes,
         EnterDirectory(c, s, d, depth)
  PROVE  CallsInv'
  <1>1. /\ s.origin \in Paths /\ s.origin \notin Files /\ d \in Paths /\ d \in Directories
        /\ Exists(s.revision, d)
    BY Trees, ReadsAssumption DEF Paths
  <1>2. CASE depth > MaxDepth
    <2> DEFINE u == [s EXCEPT !.pc = "done", !.code = "UNSUPPORTED"]
    <2>1. Finish(c, s, "UNSUPPORTED")
      BY <1>2 DEF EnterDirectory
    <2>2. u.code = "UNSUPPORTED" /\ u.op = "list" /\ u.revision = s.revision /\ u.origin = s.origin
      BY DEF Calls
    <2>3. d # s.origin
      <3>1. Len(d) - Len(s.origin) > 0
        BY <1>2, Assumed
      <3>2. Len(s.origin) \in Nat
        BY <1>1, PathsAreSequences
      <3> QED
        BY <3>1, <3>2
    <2>4. d \in Below(s.revision, s.origin) \cap Directories
          /\ ~(Len(d) - Len(s.origin) <= MaxDepth)
      BY <1>1, <1>2, <2>3, Assumed
    <2>5. ~Fits(s.revision, s.origin)
      BY <2>4 DEF Fits
    <2> HIDE DEF u
    <2>6. Exact(u)
      BY <1>1, <2>2, <2>5, ExactWhen
    <2> QED
      BY <2>1, <2>6, Finished DEF u
  <1>3. CASE ~(depth > MaxDepth)
    <2> DEFINE t == [s EXCEPT !.phase = "walk", !.depth = depth]
               stack == Kids(s.revision, d, depth) \o s.todo
    <2>1. Reads(c, t, d)
      BY <1>3 DEF EnterDirectory
    <2>2. /\ t \in Calls /\ t.op = "list" /\ t.revision = s.revision /\ t.origin = s.origin
          /\ t.code = None /\ t.phase = "walk" /\ t.depth = depth /\ t.todo = s.todo
          /\ t.visited = s.visited /\ t.found = s.found
      BY DEF Calls
    <2>3. Shallow(s.revision, s.origin, stack)
      BY <1>3, Assumed
    <2> HIDE DEF t
    <2>4. PICK u : Goes(t, d, u) /\ reader' = [reader EXCEPT ![c] = u]
      <3>1. t \in Calls /\ d \in Paths
        BY <1>1, <2>2
      <3> QED
        BY <2>1, <3>1, ReadsGo
    <2>5. /\ u \in Calls /\ u.pc \in {"wait", "got"} /\ u.path = d /\ u.op = "list"
          /\ u.revision = s.revision /\ u.origin = s.origin /\ u.code = None /\ u.phase = "walk"
          /\ u.depth = depth /\ u.todo = s.todo /\ u.visited = s.visited /\ u.found = s.found
          /\ u.pc = "got" => Exists(s.revision, d) /\ u.value = Content(s.revision, d)
      BY <2>2, <2>4 DEF Goes
    <2>6. Kids(u.revision, u.path, u.depth) \o u.todo = stack
      BY <2>5
    <2> HIDE DEF stack
    <2>7. Walking(u)
      BY <1>1, <2>3, <2>5, <2>6 DEF Walking, stack
    <2>8. Active(u)
      BY <1>1, <2>5, <2>7 DEF Active
    <2>9. CallOK(u)
      BY <2>5, <2>8 DEF CallOK
    <2> QED
      BY <2>4, <2>5, <2>9, OneGoesOn
  <1> QED
    BY <1>2, <1>3

LEMMA StattedSafe ==
  ASSUME FlightInv, CallsInv, NEW c \in Callers, NEW s \in Calls, Active(s),
         s.pc = "got", s.code = None, s.phase = "stat", Statted(c, s)
  PROVE  CallsInv'
  <1> DEFINE r == s.revision
             o == s.origin
  <1>1. /\ r \in Revisions /\ o \in Paths /\ s.op \in {"stat", "list"}
        /\ s.todo = <<>> /\ s.visited = 0 /\ s.found = <<>>
        /\ o # Root => /\ s.path = Front(o) /\ Exists(r, Front(o))
                       /\ s.value = Content(r, Front(o))
    BY DEF Active
  <1>2. ASSUME o # Root
        PROVE  o \in ToSet(s.value) <=> Exists(r, o)
    <2>1. Front(o) \in Directories /\ Front(o) \notin Files
      BY <1>1, <1>2, ReadsAssumption
    <2>2. Front(o) \in DOMAIN Tree[r] /\ s.value = Tree[r][Front(o)]
      BY <1>1, <1>2, <2>1, Trees DEF Content
    <2> QED
      BY <1>2, <2>2 DEF Exists
  <1>3. CASE o # Root /\ o \notin ToSet(s.value)
    <2> DEFINE u == [s EXCEPT !.pc = "done", !.code = "NOT_FOUND"]
    <2>1. Finish(c, s, "NOT_FOUND")
      BY <1>3 DEF Statted
    <2>2. u.code = "NOT_FOUND" /\ u.op = s.op /\ u.revision = r /\ u.origin = o
      BY DEF Calls
    <2> HIDE DEF u
    <2>3. Exact(u)
      BY <1>1, <1>2, <1>3, <2>2, ExactWhen
    <2> QED
      BY <2>1, <2>3, Finished DEF u
  <1>4. CASE ~(o # Root /\ o \notin ToSet(s.value))
    <2>1. Exists(r, o)
      BY <1>2, <1>4 DEF Exists
    <2>2. CASE s.op = "stat"
      <3> DEFINE u == [s EXCEPT !.pc = "done", !.code = None]
      <3>1. Finish(c, s, None)
        BY <1>4, <2>2 DEF Statted
      <3>2. u.code = None /\ u.op = "stat" /\ u.revision = r /\ u.origin = o
        BY <2>2 DEF Calls
      <3> HIDE DEF u
      <3>3. Exact(u)
        BY <2>1, <3>2, ExactWhen
      <3> QED
        BY <3>1, <3>3, Finished DEF u
    <2>3. CASE s.op # "stat" /\ o \in Files
      <3> DEFINE t == [s EXCEPT !.found = <<o>>]
                 u == [t EXCEPT !.pc = "done", !.code = None]
      <3>1. Finish(c, t, None)
        BY <1>4, <2>3 DEF Statted
      <3>2. <<o>> \in Seq(Files) /\ IsInjective(<<o>>) /\ ToSet(<<o>>) = {o}
        <4>1. <<o>> \in Seq(Files) /\ DOMAIN <<o>> = {1} /\ <<o>>[1] = o
          BY <2>3
        <4> QED
          BY <4>1 DEF IsInjective, ToSet
      <3>3. t \in Calls /\ u.code = None /\ u.op = "list" /\ u.revision = r /\ u.origin = o
            /\ u.found = <<o>>
        BY <1>1, <2>3, <3>2 DEF Calls
      <3>4. Files \cap Reach(r, o) = {o}
        BY <1>1, <2>3, NothingBelowFiles
      <3> HIDE DEF t, u
      <3>5. Exact(u)
        BY <2>1, <2>3, <3>2, <3>3, <3>4, ExactWhen
      <3> QED
        BY <3>1, <3>3, <3>5, Finished DEF u
    <2>4. CASE s.op # "stat" /\ o \notin Files
      <3>1. EnterDirectory(c, s, o, 0) /\ s.op = "list" /\ o \in Directories
        BY <1>1, <1>4, <2>4 DEF Statted, Paths
      <3>2. o \in DOMAIN Tree[r]
        BY <1>1, <2>1, <3>1, Trees
      <3> DEFINE stack == Kids(r, o, 0)
      <3>3. /\ Stacked(r, o, stack) /\ Listed(r, o, stack, <<>>) /\ Shallow(r, o, stack)
            /\ Cardinality(Seen(r, o, stack)) = 0
        BY <1>1, <3>2, WalkStarts
      <3>4. stack \o s.todo = stack
        BY <1>1, <3>2, KidsAre, ConcatEmptySeq
      <3>5. 0 = Len(o) - Len(o) /\ 0 \in Nat /\ 0 <= MaxNodes
        BY <1>1, PathsAreSequences, Assumed
      <3> HIDE DEF stack
      <3>6. /\ Stacked(r, o, stack \o s.todo) /\ Listed(r, o, stack \o s.todo, s.found)
            /\ Shallow(r, o, stack \o s.todo)
            /\ s.visited = Cardinality(Seen(r, o, stack \o s.todo)) /\ s.visited <= MaxNodes
        BY <1>1, <3>3, <3>4, <3>5
      <3> QED
        BY <1>1, <2>1, <3>1, <3>2, <3>5, <3>6, EnterSafe DEF stack
    <2> QED
      BY <2>2, <2>3, <2>4
  <1> QED
    BY <1>3, <1>4

LEMMA WalkSafe ==
  ASSUME FlightInv, CallsInv, NEW c \in Callers, NEW s \in Calls, NEW stack,
         s.revision \in Revisions, s.origin \in Directories, s.op = "list", s.code = None,
         Exists(s.revision, s.origin), Stacked(s.revision, s.origin, stack),
         Listed(s.revision, s.origin, stack, s.found), Shallow(s.revision, s.origin, stack),
         Cardinality(Seen(s.revision, s.origin, stack)) = s.visited, s.visited <= MaxNodes,
         Walk(c, s, stack)
  PROVE  CallsInv'
  <1> DEFINE r == s.revision
             o == s.origin
             l == Len(stack)
             T(n, count) == [s EXCEPT !.visited = @ + count,
                                      !.found = @ \o [i \in 1 .. n |-> stack[i].path],
                                      !.todo = SubSeq(stack, count + 1, Len(stack))]
  <1>1. /\ r \in Revisions /\ o \in Paths /\ o \in Directories /\ o \notin Files /\ Exists(r, o)
        /\ Stacked(r, o, stack) /\ Listed(r, o, stack, s.found) /\ Shallow(r, o, stack)
        /\ s.visited = Cardinality(Seen(r, o, stack)) /\ s.visited <= MaxNodes
        /\ s.op = "list" /\ stack \in Seq(Nodes) /\ l \in Nat /\ s.visited \in Nat
        /\ s.found \in Seq(Files)
    <2>2. stack \in Seq(Nodes)
      BY DEF Stacked
    <2>3. s.visited \in Nat /\ s.found \in Seq(Files) /\ l \in Nat
      BY <2>2 DEF Calls
    <2>4. o \notin Files /\ o \in Paths
      BY ReadsAssumption DEF Paths
    <2> QED
      BY <2>2, <2>3, <2>4
  <1>l. l \in Nat /\ Len(stack) \in Nat
    BY <1>1
  <1>v. s.visited \in Nat
    BY <1>1
  <1>2. PICK n \in 0 .. Len(stack) :
           LET count == IF n < Len(stack) THEN n + 1 ELSE n
               t == T(n, count)
           IN  /\ \A i \in 1 .. n : stack[i].path \in Files
               /\ n < Len(stack) => stack[n + 1].path \in Directories
               /\ IF t.visited > MaxNodes THEN Finish(c, t, "UNSUPPORTED")
                  ELSE IF n = Len(stack) THEN Finish(c, t, None)
                  ELSE EnterDirectory(c, t, stack[n + 1].path, stack[n + 1].depth)
    BY DEF Walk
  <1> DEFINE count == IF n < l THEN n + 1 ELSE n
             t == T(n, count)
             rest == SubSeq(stack, n + 1, Len(stack))
             names == [i \in 1 .. n |-> stack[i].path]
             more == s.found \o names
  <1>3. /\ n \in Nat /\ n <= l /\ count \in Nat /\ count \in 0 .. Len(stack)
        /\ n < l => count = n + 1
        /\ n = l => count = n
        /\ n \in 0 .. Len(stack) /\ l = Len(stack)
    <2>1. n \in 0 .. Len(stack)
      BY <1>2
    <2>2. n \in Nat /\ n <= l
      BY <1>l, <2>1
    <2> HIDE DEF l
    <2>3. (n < l => count = n + 1) /\ (n = l => count = n) /\ count \in Nat /\ count \in 0 .. l
      BY <1>l, <2>2
    <2> QED
      BY <2>1, <2>2, <2>3 DEF l
  <1>4. /\ Stacked(r, o, rest) /\ Listed(r, o, rest, more) /\ Shallow(r, o, rest)
        /\ Cardinality(Seen(r, o, rest)) = s.visited + n
        /\ rest \in Seq(Nodes)
    <2>1. \A i \in 1 .. n : stack[i].path \in Files
      BY <1>2
    <2>2. /\ Stacked(r, o, rest) /\ Listed(r, o, rest, more) /\ Shallow(r, o, rest)
          /\ Cardinality(Seen(r, o, rest)) = Cardinality(Seen(r, o, stack)) + n
      <3>1. o \in Paths /\ Stacked(r, o, stack) /\ Listed(r, o, stack, s.found) /\ Shallow(r, o, stack)
            /\ n \in 0 .. Len(stack)
        BY <1>1, <1>3
      <3> HIDE DEF r, o
      <3>2. r \in Revisions
        BY DEF r
      <3> DEFINE found == s.found
      <3>3. Listed(r, o, stack, found)
        BY <3>1
      <3> HIDE DEF found
      <3>4. LET b == SubSeq(stack, n + 1, Len(stack))
                m == found \o [i \in 1 .. n |-> stack[i].path]
            IN  /\ Stacked(r, o, b) /\ Listed(r, o, b, m) /\ Shallow(r, o, b)
                /\ Cardinality(Seen(r, o, b)) = Cardinality(Seen(r, o, stack)) + n
        BY <2>1, <3>1, <3>2, <3>3, FilesWalked
      <3> QED
        BY <3>4 DEF found
    <2>3. rest \in Seq(Nodes)
      BY <2>2 DEF Stacked
    <2> QED
      BY <1>1, <2>2, <2>3
  <1>5. more \in Seq(Files)
    BY <1>4 DEF Listed
  <1>6. SubSeq(stack, count + 1, Len(stack)) \in Seq(Nodes)
    BY <1>1, <1>3, Suffix
  <1>7. /\ t \in Calls /\ t.op = "list" /\ t.revision = r /\ t.origin = o /\ t.code = None
        /\ t.visited = s.visited + count /\ t.found = more
        /\ t.todo = SubSeq(stack, count + 1, Len(stack))
    <2> DEFINE todo == SubSeq(stack, count + 1, Len(stack))
               v == s.visited + count
    <2>1. todo \in Seq(Nodes) /\ v \in Nat /\ more \in Seq(Files)
      <3>1. count \in Nat
        BY <1>3
      <3> HIDE DEF count, more
      <3> QED
        BY <1>v, <1>5, <1>6, <3>1
    <2>2. t = [s EXCEPT !.visited = v, !.found = more, !.todo = todo]
      BY DEF Calls
    <2> HIDE DEF t, todo, v, more
    <2>3. /\ t \in Calls /\ t.op = "list" /\ t.revision = r /\ t.origin = o /\ t.code = None
          /\ t.visited = v /\ t.found = more /\ t.todo = todo
      BY <1>1, <2>1, <2>2 DEF Calls
    <2> QED
      BY <2>3 DEF todo, v
  <1>8. /\ n < l => stack[n + 1].path \in Directories
        /\ t.visited > MaxNodes => Finish(c, t, "UNSUPPORTED")
        /\ ~(t.visited > MaxNodes) /\ n = l => Finish(c, t, None)
        /\ ~(t.visited > MaxNodes) /\ n # l => EnterDirectory(c, t, stack[n + 1].path, stack[n + 1].depth)
    BY <1>2
  <1> HIDE DEF l, count, t, rest, names, more, T
  <1>9. CASE n = l
    <2>1. t.visited = Cardinality(Seen(r, o, rest)) /\ t.visited \in Nat
      <3>1. /\ count = n /\ n \in Nat /\ t.visited = s.visited + count
            /\ Cardinality(Seen(r, o, rest)) = s.visited + n
        BY <1>3, <1>4, <1>7, <1>9
      <3> QED
        BY <1>v, <3>1
    <2>2. Seen(r, o, rest) = Below(r, o)
      <3>1. Len(rest) = 0
        <4>1. n \in 0 .. Len(stack) /\ Len(rest) = Len(stack) - n
          BY <1>1, Suffix DEF rest
        <4> QED
          BY <1>1, <1>9, <4>1 DEF l
      <3>2. Rest(r, rest) = {}
        BY <3>1 DEF Rest
      <3> QED
        BY <3>2 DEF Seen
    <2>3. CASE t.visited > MaxNodes
      <3> DEFINE u == [t EXCEPT !.pc = "done", !.code = "UNSUPPORTED"]
      <3>1. u.code = "UNSUPPORTED" /\ u.op = "list" /\ u.revision = r /\ u.origin = o
        BY <1>7 DEF Calls
      <3>2. ~Fits(r, o)
        BY <2>1, <2>2, <2>3, Assumed DEF Fits
      <3> HIDE DEF u
      <3>3. Exact(u)
        BY <1>1, <3>1, <3>2, ExactWhen
      <3> QED
        BY <1>7, <1>8, <2>3, <3>3, Finished DEF u
    <2>4. CASE ~(t.visited > MaxNodes)
      <3> DEFINE u == [t EXCEPT !.pc = "done", !.code = None]
      <3>1. u.code = None /\ u.op = "list" /\ u.revision = r /\ u.origin = o /\ u.found = more
        BY <1>7 DEF Calls
      <3>2. Fits(r, o)
        <4>1. \A p \in Below(r, o) \cap Directories : Len(p) - Len(o) <= MaxDepth
          BY <1>4, <2>2 DEF Shallow
        <4>2. Cardinality(Below(r, o)) <= MaxNodes
          BY <2>1, <2>2, <2>4, Assumed
        <4> QED
          BY <4>1, <4>2 DEF Fits
      <3>3. IsInjective(more) /\ ToSet(more) = Files \cap Reach(r, o)
        BY <1>1, <1>4, <2>2 DEF Listed, Reach
      <3> HIDE DEF u
      <3>4. Exact(u)
        BY <1>1, <3>1, <3>2, <3>3, ExactWhen
      <3> QED
        BY <1>7, <1>8, <1>9, <2>4, <3>4, Finished DEF u
    <2> QED
      BY <2>3, <2>4
  <1>10. CASE n # l
    <2> DEFINE x == stack[n + 1].path
               depth == stack[n + 1].depth
               todo == SubSeq(stack, (n + 1) + 1, Len(stack))
               new == Kids(r, x, depth) \o todo
    <2>1. n < l /\ count = n + 1 /\ n < Len(stack)
      <3>1. n < l
        <4>1. n \in Nat /\ n <= l
          BY <1>3
        <4> QED
          BY <1>l, <1>10, <4>1
      <3> QED
        BY <1>3, <3>1
    <2>2. /\ SubSeq(rest, 2, Len(rest)) = todo /\ 1 <= Len(rest) /\ rest[1] = stack[n + 1]
      BY <1>1, <1>3, <2>1, SuffixOfSuffix DEF rest
    <2>3. /\ x \in DOMAIN Tree[r] /\ x \in Below(r, o) /\ x \in Seen(r, o, new)
          /\ depth \in Nat /\ depth = Len(x) - Len(o)
          /\ Stacked(r, o, new) /\ Listed(r, o, new, more)
          /\ Cardinality(Seen(r, o, new)) = Cardinality(Seen(r, o, rest)) + 1
          /\ Shallow(r, o, rest) /\ depth <= MaxDepth => Shallow(r, o, new)
      <3>1. rest[1].path \in Directories /\ x = rest[1].path /\ depth = rest[1].depth
        BY <1>8, <2>1, <2>2
      <3> DEFINE y == rest[1].path
                 z == Kids(r, y, rest[1].depth) \o SubSeq(rest, 2, Len(rest))
      <3>2. /\ y \in DOMAIN Tree[r] /\ y \in Below(r, o) /\ y \in Seen(r, o, z)
            /\ rest[1].depth \in Nat /\ rest[1].depth = Len(y) - Len(o)
            /\ Stacked(r, o, z) /\ Listed(r, o, z, more)
            /\ Cardinality(Seen(r, o, z)) = Cardinality(Seen(r, o, rest)) + 1
            /\ Shallow(r, o, rest) /\ rest[1].depth <= MaxDepth => Shallow(r, o, z)
        BY <1>1, <1>4, <2>2, <3>1, DirectoryEntered
      <3>3. z = new /\ y = x
        BY <2>2, <3>1
      <3> HIDE DEF x, y, z, new, depth
      <3> QED
        BY <3>1, <3>2, <3>3
    <2>4. t.todo = todo
      BY <1>7, <2>1
    <2> HIDE DEF x, depth, todo
    <2>5. Kids(r, x, depth) \o t.todo = new
      BY <2>4
    <2> HIDE DEF new
    <2>6. t.visited = Cardinality(Seen(r, o, new)) /\ t.visited \in Nat
      BY <1>1, <1>3, <1>4, <1>7, <2>1, <2>3
    <2>7. CASE t.visited > MaxNodes
      <3> DEFINE u == [t EXCEPT !.pc = "done", !.code = "UNSUPPORTED"]
      <3>1. u.code = "UNSUPPORTED" /\ u.op = "list" /\ u.revision = r /\ u.origin = o
        BY <1>7 DEF Calls
      <3>2. ~Fits(r, o)
        <4>1. /\ Cardinality(Seen(r, o, new)) <= Cardinality(Below(r, o))
              /\ Cardinality(Below(r, o)) \in Nat
          BY SeenIsFinite
        <4> QED
          BY <2>6, <2>7, <4>1, Assumed DEF Fits
      <3> HIDE DEF u
      <3>3. Exact(u)
        BY <1>1, <3>1, <3>2, ExactWhen
      <3> QED
        BY <1>7, <1>8, <2>7, <3>3, Finished DEF u
    <2>8. CASE ~(t.visited > MaxNodes)
      <3>1. EnterDirectory(c, t, x, depth)
        BY <1>8, <1>10, <2>8 DEF x, depth
      <3>2. t.visited <= MaxNodes
        BY <2>6, <2>8, Assumed
      <3>3. depth <= MaxDepth => Shallow(r, o, new)
        BY <1>4, <2>3
      <3> QED
        BY <1>1, <1>7, <2>3, <2>5, <2>6, <3>1, <3>2, <3>3, EnterSafe
    <2> QED
      BY <2>7, <2>8
  <1> QED
    BY <1>9, <1>10

\* Why a call that was told of a failure may say so: what it was waiting for is
\* on the way to what it was asked for, or below it.
LEMMA FailedFor ==
  ASSUME NEW s, Active(s), s.code # None
  PROVE  \/ s.code \in {"OFFLINE", "UNKNOWN"}
         \/ s.code = "NOT_FOUND" /\ ~Exists(s.revision, s.origin)
         \/ /\ s.code = "UNSUPPORTED"
            /\ \E p \in Consults(s) : <<s.revision, p>> \in Unsupported
  <1> DEFINE k == <<s.revision, s.path>>
  <1>1. /\ s.code \in Reasons(k) /\ ~(s.phase = "stat" /\ s.origin = Root)
        /\ s.revision \in Revisions /\ s.origin \in Paths
    BY DEF Active
  <1>2. \/ s.code \in {"OFFLINE", "UNKNOWN"}
        \/ s.code = "NOT_FOUND" /\ ~Exists(s.revision, s.path)
        \/ s.code = "UNSUPPORTED" /\ k \in Unsupported
    BY <1>1 DEF Reasons, Rejections
  <1>3. CASE s.phase = "file"
    <2>1. s.op = "file" /\ s.path = s.origin
      BY <1>3 DEF Active
    <2> QED
      BY <1>2, <2>1 DEF Consults
  <1>4. CASE s.phase = "stat"
    <2>1. s.op # "file" /\ s.origin # Root /\ s.path = Front(s.origin)
      BY <1>1, <1>4 DEF Active
    <2>2. Exists(s.revision, s.origin) => Exists(s.revision, s.path)
      <3>1. Exists(s.revision, s.origin) => s.path \in DOMAIN Tree[s.revision]
        BY <2>1 DEF Exists
      <3> QED
        BY <1>1, <3>1, ReadsAssumption
    <2>3. s.path \in Consults(s)
      BY <2>1 DEF Consults
    <2> QED
      BY <1>2, <2>2, <2>3
  <1>5. CASE s.phase = "walk"
    <2>1. /\ s.op = "list" /\ s.path \in DOMAIN Tree[s.revision]
          /\ s.path = s.origin \/ s.path \in Below(s.revision, s.origin)
      BY <1>5 DEF Active, Walking
    <2>2. Exists(s.revision, s.path) /\ s.path \in Directories
      BY <1>1, <2>1, ReadsAssumption
    <2>3. s.path \in Consults(s)
      BY <2>1, <2>2 DEF Consults
    <2> QED
      BY <1>2, <2>2, <2>3
  <1> QED
    BY <1>3, <1>4, <1>5 DEF Active

LEMMA ResumeSafe ==
  ASSUME FlightInv, CallsInv, NEW c \in Callers, Resume(c)
  PROVE  CallsInv'
  <1> DEFINE s == reader[c]
             children == [i \in DOMAIN s.value |-> [path |-> s.value[i], depth |-> s.depth + 1]]
  <1>1. s \in Calls /\ CallOK(s)
    BY DEF CallsInv
  <1>2. /\ s.pc = "got"
        /\ \/ (s.code # None \/ s.phase = "file") /\ Finish(c, s, s.code)
           \/ s.code = None /\ s.phase = "stat" /\ Statted(c, s)
           \/ s.code = None /\ s.phase = "walk" /\ Walk(c, s, children \o s.todo)
    BY DEF Resume
  <1> HIDE DEF s
  <1>3. Active(s)
    BY <1>1, <1>2 DEF CallOK
  <1>4. CASE (s.code # None \/ s.phase = "file") /\ Finish(c, s, s.code)
    <2> DEFINE code == s.code
               u == [s EXCEPT !.pc = "done", !.code = code]
    <2>1. /\ u.code = s.code /\ u.op = s.op /\ u.revision = s.revision /\ u.origin = s.origin
          /\ u.value = s.value
      BY <1>1 DEF Calls
    <2>2. s.code \in Codes
      BY <1>1 DEF Calls
    <2> HIDE DEF u
    <2>3. s.code # None => Exact(u)
      <3>1. Consults(u) = Consults(s)
        BY <2>1 DEF Consults
      <3> QED
        BY <1>3, <2>1, <3>1, FailedFor, ExactWhen
    <2>4. ASSUME s.code = None
          PROVE  Exact(u)
      <3>1. /\ s.phase = "file" /\ s.op = "file" /\ s.path = s.origin
            /\ Exists(s.revision, s.path) /\ s.value = Content(s.revision, s.path)
        BY <1>2, <1>3, <1>4, <2>4 DEF Active
      <3>2. u.op # "list"
        BY <2>1, <3>1
      <3> QED
        BY <2>1, <2>4, <3>1, <3>2, ExactWhen
    <2>5. Exact(u) => Exact([s EXCEPT !.pc = "done", !.code = code])
      BY DEF u
    <2>6. Finish(c, s, code)
      BY <1>4
    <2>7. code \in {"OFFLINE", "UNKNOWN", "NOT_FOUND", "UNSUPPORTED", None}
      BY <2>2 DEF Codes
    <2> HIDE DEF code
    <2>8. Exact(u) => CallsInv'
      BY <1>1, <2>5, <2>6, <2>7, Finished
    <2>9. Exact(u)
      BY <2>3, <2>4
    <2> QED
      BY <2>8, <2>9
  <1>5. CASE s.code = None /\ s.phase = "stat" /\ Statted(c, s)
    BY <1>1, <1>2, <1>3, <1>5, StattedSafe
  <1>6. CASE s.code = None /\ s.phase = "walk" /\ Walk(c, s, children \o s.todo)
    <2>1. /\ Walking(s) /\ s.revision \in Revisions /\ s.value = Content(s.revision, s.path)
      BY <1>2, <1>3, <1>6 DEF Active
    <2>2. s.path \in DOMAIN Tree[s.revision] /\ s.path \notin Files
      BY <2>1, Trees, ReadsAssumption DEF Walking
    <2>3. s.value = Tree[s.revision][s.path] /\ DOMAIN s.value = 1 .. Len(s.value)
      BY <2>1, <2>2, Trees DEF Content
    <2>4. children = Kids(s.revision, s.path, s.depth)
      BY <2>3 DEF Kids
    <2> DEFINE stack == children \o s.todo
    <2>5. Walk(c, s, stack)
      BY <1>6
    <2> HIDE DEF children
    <2>6. /\ s.origin \in Directories /\ s.op = "list"
          /\ Exists(s.revision, s.origin) /\ Stacked(s.revision, s.origin, stack)
          /\ Listed(s.revision, s.origin, stack, s.found) /\ Shallow(s.revision, s.origin, stack)
          /\ Cardinality(Seen(s.revision, s.origin, stack)) = s.visited /\ s.visited <= MaxNodes
      BY <2>1, <2>4 DEF Walking
    <2> HIDE DEF stack
    <2> QED
      BY <1>1, <1>6, <2>1, <2>5, <2>6, WalkSafe
  <1> QED
    BY <1>2, <1>4, <1>5, <1>6

\* All who wait for a read go on with what it has brought.
LEMMA ForgetSafe ==
  ASSUME FlightInv, CallsInv, NEW k \in Keys, Forget(k)
  PROVE  CallsInv'
  <1> DEFINE flight == pending[k]
             code == flight.code
             Got(s) == [s EXCEPT !.pc = "got", !.value = flight.value, !.code = code]
  <1>1. /\ flight.pc \in {"stored", "failed"} /\ flight.value \in Values
        /\ flight.pc = "stored" => Exists(k[1], k[2]) /\ flight.value = Content(k[1], k[2])
    BY DEF Forget, FlightInv, Flying, Flights
  <1>2. reader' = [c \in Callers |->
           IF reader[c].pc = "wait" /\ Key(reader[c].revision, reader[c].path) = k
           THEN Got(reader[c]) ELSE reader[c]]
    BY DEF Forget
  <1>c. /\ code \in Codes /\ (code = None => flight.pc = "stored")
        /\ code # None => code \in Reasons(k)
    BY <1>1, ReasonsAre DEF FlightInv, Flying
  <1> DEFINE value == flight.value
  <1>a. value \in Values /\ (code = None => Exists(k[1], k[2]) /\ value = Content(k[1], k[2]))
    BY <1>1, <1>c
  <1>3. ASSUME NEW c \in Callers
        PROVE  reader'[c] \in Calls /\ CallOK(reader'[c])
    <2> DEFINE s == reader[c]
               u == [s EXCEPT !.pc = "got", !.value = value, !.code = code]
    <2>1. s \in Calls /\ CallOK(s)
      BY DEF CallsInv
    <2>2. CASE s.pc = "wait" /\ Key(s.revision, s.path) = k
      <3>1. reader'[c] = u
        BY <1>2, <2>2
      <3> HIDE DEF s, value, code
      <3>2. /\ u \in Calls /\ u.pc = "got" /\ u.value = value /\ u.code = code
            /\ u.op = s.op /\ u.revision = s.revision /\ u.origin = s.origin /\ u.phase = s.phase
            /\ u.path = s.path /\ u.depth = s.depth /\ u.todo = s.todo
            /\ u.visited = s.visited /\ u.found = s.found
        BY <1>a, <1>c, <2>1 DEF Calls
      <3>3. k[1] = s.revision /\ k[2] = s.path /\ k = <<s.revision, s.path>>
        BY <2>2 DEF Key
      <3>4. Active(s)
        BY <2>1, <2>2 DEF CallOK
      <3> HIDE DEF u
      <3>5. Walking(s) => Walking(u)
        BY <3>2 DEF Walking
      <3>6. Active(u)
        BY <1>a, <1>c, <2>2, <3>2, <3>3, <3>4, <3>5 DEF Active
      <3> QED
        BY <3>1, <3>2, <3>6 DEF CallOK
    <2>3. CASE ~(s.pc = "wait" /\ Key(s.revision, s.path) = k)
      BY <1>2, <2>1, <2>3
    <2> QED
      BY <2>2, <2>3
  <1>4. reader' \in [Callers -> Calls]
    <2>1. \E f : reader' = [c \in Callers |-> f[c]]
      <3> DEFINE f == [c \in Callers |->
                         IF reader[c].pc = "wait" /\ Key(reader[c].revision, reader[c].path) = k
                         THEN Got(reader[c]) ELSE reader[c]]
      <3>1. reader' = f /\ f = [c \in Callers |-> f[c]]
        BY <1>2
      <3> HIDE DEF f
      <3> QED
        BY <3>1
    <2> QED
      BY <1>3, <2>1
  <1> QED
    BY <1>3, <1>4 DEF CallsInv, CallOK, Exact, Active, Walking

ReadsInv == FlightInv /\ CallsInv /\ started \in 0 .. MaxReads

LEMMA ReadsInit == Init => ReadsInv
  <1> SUFFICES ASSUME Init
               PROVE  ReadsInv
    OBVIOUS
  <1>1. CallsInv
    BY NoCallIs DEF Init, CallsInv
  <1>2. started \in 0 .. MaxReads
    BY Assumed DEF Init
  <1> QED
    BY <1>1, <1>2, FlightInit DEF ReadsInv

LEMMA ReadsNext == ReadsInv /\ [Next]_vars => ReadsInv'
  <1> SUFFICES ASSUME ReadsInv, [Next]_vars
               PROVE  ReadsInv'
    OBVIOUS
  <1>i. FlightInv /\ CallsInv /\ started \in 0 .. MaxReads
    BY DEF ReadsInv
  <1>1. FlightInv'
    BY <1>i, FlightNext
  <1>2. UNCHANGED reader => CallsInv'
    BY <1>i DEF CallsInv, CallOK, Exact, Active, Walking
  <1>3. ASSUME NEW c \in Callers, ReadFile(c) \/ Stat(c) \/ ListFilesRecursively(c)
        PROVE  CallsInv' /\ started' \in 0 .. MaxReads
    <2>1. PICK op \in {"file", "stat", "list"}, r \in Revisions, p \in Paths :
             Begin(c, op, r, p) /\ (op = "file" => p \in Files)
      BY <1>3 DEF ReadFile, Stat, ListFilesRecursively, Paths
    <2>2. started' \in 0 .. MaxReads
      BY <1>i, <2>1, Assumed DEF Begin
    <2> QED
      BY <1>i, <2>1, <2>2, BeginSafe
  <1>4. ASSUME NEW c \in Callers, Resume(c)
        PROVE  CallsInv' /\ started' \in 0 .. MaxReads
    <2>1. started' = started
      BY <1>4 DEF Resume
    <2> QED
      BY <1>i, <1>4, <2>1, ResumeSafe
  <1>5. ASSUME NEW k \in Keys,
               AdapterAnswers(k) \/ AdapterRejects(k) \/ Deadline(k) \/ Store(k)
        PROVE  UNCHANGED <<reader, started>>
    BY <1>5 DEF AdapterAnswers, AdapterRejects, Deadline, Store, Flies, Fails
  <1>6. ASSUME NEW k \in Keys, Forget(k)
        PROVE  CallsInv' /\ started' \in 0 .. MaxReads
    <2>1. started' = started
      BY <1>6 DEF Forget
    <2> QED
      BY <1>i, <1>6, <2>1, ForgetSafe
  <1>7. UNCHANGED vars => UNCHANGED <<reader, started>>
    BY DEF vars
  <1>8. CallsInv' /\ started' \in 0 .. MaxReads
    BY <1>i, <1>2, <1>3, <1>4, <1>5, <1>6, <1>7 DEF Next
  <1> QED
    BY <1>1, <1>8 DEF ReadsInv

LEMMA ReadsAlways == Spec => []ReadsInv
  BY ReadsInit, ReadsNext, PTL DEF Spec

\* Every value is of its kind.
THEOREM ReadsTypeCorrect == Spec => []TypeOK
  <1>1. ReadsInv => TypeOK
    BY DEF ReadsInv, FlightInv, CacheInv, CacheType, Flying, CallsInv, TypeOK
  <1> QED
    BY <1>1, ReadsAlways, PTL

\* A call returns the content of the revision and path it asked for, and a walk
\* every file below its origin once, whatever was evicted, shared, late or
\* answered wrongly meanwhile.  NOT_FOUND and UNSUPPORTED, its own or passed on
\* from an adapter, are true of what it was asked for (RepositoryReader and
\* RevisionCache of core/src/repository).
THEOREM ReadsExact == Spec => []ReadsAreExact
  <1>1. ReadsInv => ReadsAreExact
    BY DEF ReadsInv, CallsInv, CallOK, Exact, ReadsAreExact
  <1> QED
    BY <1>1, ReadsAlways, PTL
=============================================================================
