----------------------------- MODULE BpfMapsProofs -----------------------------
(***************************************************************************)
(* Proofs about BpfMaps, for any number of processes, maps and keys, maps  *)
(* of any size and whatever buckets the keys fall in.                      *)
(***************************************************************************)
EXTENDS BpfMaps, SequenceTheorems, FiniteSetTheorems, TLAPS

-----------------------------------------------------------------------------
(* Lists of keys *)

\* One element taken out of a list: those behind it move up.
LEMMA Removal ==
  ASSUME NEW S, NEW s \in Seq(S), NEW p \in 1 .. Len(s)
  PROVE  /\ RemoveAt(s, p) \in Seq(S)
         /\ Len(RemoveAt(s, p)) = Len(s) - 1
         /\ \A i \in 1 .. Len(s) - 1 :
              RemoveAt(s, p)[i] = IF i < p THEN s[i] ELSE s[i + 1]
<1> DEFINE n == Len(s)
           front == SubSeq(s, 1, p - 1)
           back == SubSeq(s, p + 1, n)
<1>1. /\ n \in Nat /\ p \in Nat /\ 1 <= p /\ p <= n
      /\ \A i \in 1 .. n : s[i] \in S
  BY ElementOfSeq
<1> HIDE DEF n
<1>2. /\ front \in Seq(S) /\ Len(front) = p - 1
      /\ \A i \in 1 .. p - 1 : front[i] = s[i]
  <2>1. /\ 1 \in Int /\ p - 1 \in Int
        /\ \A i \in 1 .. p - 1 : i \in 1 .. n
        /\ (IF 1 <= p - 1 THEN p - 1 - 1 + 1 ELSE 0) = p - 1
        /\ \A i \in 1 .. p - 1 : i \in 1 .. p - 1 - 1 + 1 /\ 1 + i - 1 = i
    BY <1>1
  <2>2. \A i \in 1 .. p - 1 : s[i] \in S
    BY <1>1, <2>1
  <2> QED
    BY <2>1, <2>2, SubSeqProperties
<1>3. /\ back \in Seq(S) /\ Len(back) = n - p
      /\ \A i \in 1 .. n - p : back[i] = s[p + i]
  <2>1. /\ p + 1 \in Int /\ n \in Int
        /\ \A i \in p + 1 .. n : i \in 1 .. n
        /\ (IF p + 1 <= n THEN n - (p + 1) + 1 ELSE 0) = n - p
        /\ \A i \in 1 .. n - p : i \in 1 .. n - (p + 1) + 1 /\ p + 1 + i - 1 = p + i
    BY <1>1
  <2>2. \A i \in p + 1 .. n : s[i] \in S
    BY <1>1, <2>1
  <2> QED
    BY <2>1, <2>2, SubSeqProperties
<1> HIDE DEF front, back
<1>4. /\ front \o back \in Seq(S)
      /\ Len(front \o back) = Len(front) + Len(back)
      /\ \A i \in 1 .. Len(front) + Len(back) :
           (front \o back)[i] =
             IF i <= Len(front) THEN front[i] ELSE back[i - Len(front)]
  BY <1>2, <1>3, ConcatProperties
<1>5. Len(front) + Len(back) = n - 1
  BY <1>1, <1>2, <1>3
<1>6. ASSUME NEW i \in 1 .. n - 1
      PROVE  (front \o back)[i] = IF i < p THEN s[i] ELSE s[i + 1]
  <2>1. CASE i < p
    <3>1. i <= p - 1 /\ i \in 1 .. p - 1
      BY <1>1, <2>1
    <3> QED
      BY <1>2, <1>4, <1>5, <2>1, <3>1
  <2>2. CASE ~ (i < p)
    <3>1. ~ (i <= p - 1) /\ i - (p - 1) \in 1 .. n - p /\ p + (i - (p - 1)) = i + 1
      BY <1>1, <2>2
    <3> QED
      BY <1>2, <1>3, <1>4, <1>5, <2>2, <3>1
  <2> QED
    BY <2>1, <2>2
<1>7. RemoveAt(s, p) = front \o back
  BY DEF RemoveAt, front, back, n
<1> QED
  BY <1>4, <1>5, <1>6, <1>7 DEF n

\* One element put into a list: those from its place on move down.
LEMMA Insertion ==
  ASSUME NEW S, NEW s \in Seq(S), NEW e \in S, NEW p \in 1 .. Len(s) + 1
  PROVE  /\ InsertAt(s, p, e) \in Seq(S)
         /\ Len(InsertAt(s, p, e)) = Len(s) + 1
         /\ \A i \in 1 .. Len(s) + 1 :
              InsertAt(s, p, e)[i] =
                IF i < p THEN s[i] ELSE IF i = p THEN e ELSE s[i - 1]
<1> DEFINE n == Len(s)
           front == SubSeq(s, 1, p - 1)
           back == SubSeq(s, p, n)
           left == front \o <<e>>
<1>1. /\ n \in Nat /\ p \in Nat /\ 1 <= p /\ p <= n + 1
      /\ \A i \in 1 .. n : s[i] \in S
  BY ElementOfSeq
<1> HIDE DEF n
<1>2. /\ front \in Seq(S) /\ Len(front) = p - 1
      /\ \A i \in 1 .. p - 1 : front[i] = s[i]
  <2>1. /\ 1 \in Int /\ p - 1 \in Int
        /\ \A i \in 1 .. p - 1 : i \in 1 .. n
        /\ (IF 1 <= p - 1 THEN p - 1 - 1 + 1 ELSE 0) = p - 1
        /\ \A i \in 1 .. p - 1 : i \in 1 .. p - 1 - 1 + 1 /\ 1 + i - 1 = i
    BY <1>1
  <2>2. \A i \in 1 .. p - 1 : s[i] \in S
    BY <1>1, <2>1
  <2> QED
    BY <2>1, <2>2, SubSeqProperties
<1>3. /\ back \in Seq(S) /\ Len(back) = n - p + 1
      /\ \A i \in 1 .. n - p + 1 : back[i] = s[p + i - 1]
  <2>1. /\ p \in Int /\ n \in Int
        /\ \A i \in p .. n : i \in 1 .. n
        /\ (IF p <= n THEN n - p + 1 ELSE 0) = n - p + 1
    BY <1>1
  <2>2. \A i \in p .. n : s[i] \in S
    BY <1>1, <2>1
  <2> QED
    BY <2>1, <2>2, SubSeqProperties
<1> HIDE DEF front, back
<1>4. <<e>> \in Seq(S) /\ Len(<<e>>) = 1 /\ <<e>>[1] = e
  OBVIOUS
<1>5. /\ left \in Seq(S) /\ Len(left) = p
      /\ \A i \in 1 .. p : left[i] = IF i < p THEN s[i] ELSE e
  <2>1. /\ left \in Seq(S) /\ Len(left) = Len(front) + 1
        /\ \A i \in 1 .. Len(front) + 1 :
             left[i] = IF i <= Len(front) THEN front[i] ELSE <<e>>[i - Len(front)]
    BY <1>2, <1>4, ConcatProperties
  <2>2. ASSUME NEW i \in 1 .. p PROVE left[i] = IF i < p THEN s[i] ELSE e
    <3>1. Len(front) = p - 1 /\ i \in 1 .. p - 1 + 1
      BY <1>1, <1>2
    <3>2. CASE i < p
      <4>1. i <= p - 1 /\ i \in 1 .. p - 1
        BY <1>1, <3>2
      <4> QED
        BY <1>2, <2>1, <3>1, <3>2, <4>1
    <3>3. CASE i = p
      <4>1. ~ (i <= p - 1) /\ i - (p - 1) = 1 /\ ~ (i < p)
        BY <1>1, <3>3
      <4>2. left[i] = <<e>>[1]
        BY <2>1, <3>1, <4>1
      <4> QED
        BY <1>4, <4>1, <4>2
    <3>4. i < p \/ i = p
      BY <1>1
    <3> QED
      BY <3>2, <3>3, <3>4
  <2> QED
    BY <1>1, <1>2, <2>1, <2>2
<1> HIDE DEF left
<1>6. /\ left \o back \in Seq(S)
      /\ Len(left \o back) = Len(left) + Len(back)
      /\ \A i \in 1 .. Len(left) + Len(back) :
           (left \o back)[i] = IF i <= Len(left) THEN left[i] ELSE back[i - Len(left)]
  BY <1>3, <1>5, ConcatProperties
<1>7. Len(left) + Len(back) = n + 1
  BY <1>1, <1>3, <1>5
<1>8. ASSUME NEW i \in 1 .. n + 1
      PROVE  (left \o back)[i] = IF i < p THEN s[i] ELSE IF i = p THEN e ELSE s[i - 1]
  <2>1. CASE i <= p
    <3>1. i \in 1 .. p /\ (~ (i < p) => i = p)
      BY <1>1, <2>1
    <3> QED
      BY <1>5, <1>6, <1>7, <2>1, <3>1
  <2>2. CASE ~ (i <= p)
    <3>1. /\ i - p \in 1 .. n - p + 1 /\ p + (i - p) - 1 = i - 1
          /\ ~ (i < p) /\ i # p
      BY <1>1, <2>2
    <3> QED
      BY <1>3, <1>5, <1>6, <1>7, <2>2, <3>1
  <2> QED
    BY <2>1, <2>2
<1>9. InsertAt(s, p, e) = left \o back
  BY DEF InsertAt, left, front, back, n
<1> QED
  BY <1>6, <1>7, <1>8, <1>9 DEF n

-----------------------------------------------------------------------------
(* The order of a map *)

\* x comes before y.
Before(s, x, y) == \E i, j \in DOMAIN s : i < j /\ s[i] = x /\ s[j] = y

\* Lists and their places.
LEMMA Listed ==
  ASSUME NEW s, Order(s)
  PROVE  /\ s \in Seq(Keys) /\ Len(s) \in Nat /\ DOMAIN s = 1 .. Len(s)
         /\ \A i \in 1 .. Len(s) : s[i] \in Keys
         /\ \A i, j \in 1 .. Len(s) : s[i] = s[j] => i = j
         /\ \A k : Contains(s, k) <=> k \in ToSet(s)
         /\ \A k : Contains(s, k) => PlaceOf(s, k) \in 1 .. Len(s) /\ s[PlaceOf(s, k)] = k
<1>1. /\ s \in Seq(Keys) /\ Len(s) \in Nat /\ DOMAIN s = 1 .. Len(s)
      /\ \A i \in 1 .. Len(s) : s[i] \in Keys
  BY ElementOfSeq DEF Order
<1>2. \A i, j \in 1 .. Len(s) : s[i] = s[j] => i = j
  BY <1>1 DEF Order, IsInjective
<1>3. \A k : Contains(s, k) <=> k \in ToSet(s)
  BY <1>1 DEF Contains, ToSet
<1>4. ASSUME NEW k, Contains(s, k)
      PROVE  PlaceOf(s, k) \in 1 .. Len(s) /\ s[PlaceOf(s, k)] = k
  BY <1>1, <1>4 DEF PlaceOf, Contains
<1> QED
  BY <1>1, <1>2, <1>3, <1>4

\* A key deleted: the others stay, in their order.
LEMMA Deleted ==
  ASSUME NEW s, Order(s), NEW k
  PROVE  /\ Order(Without(s, k))
         /\ ToSet(Without(s, k)) = ToSet(s) \ {k}
         /\ Len(Without(s, k)) <= Len(s)
         /\ Contains(s, k) => Len(Without(s, k)) = Len(s) - 1
         /\ \A x, y : x # k /\ y # k /\ Before(s, x, y) => Before(Without(s, k), x, y)
<1>1. /\ s \in Seq(Keys) /\ Len(s) \in Nat /\ DOMAIN s = 1 .. Len(s)
      /\ \A i \in 1 .. Len(s) : s[i] \in Keys
      /\ \A i, j \in 1 .. Len(s) : s[i] = s[j] => i = j
      /\ Contains(s, k) <=> k \in ToSet(s)
  BY Listed
<1>2. CASE ~ Contains(s, k)
  <2>1. Without(s, k) = s /\ ToSet(s) = ToSet(s) \ {k} /\ Len(s) <= Len(s)
    BY <1>1, <1>2 DEF Without
  <2> QED
    BY <1>2, <2>1
<1>3. CASE Contains(s, k)
  <2> DEFINE n == Len(s)
             p == PlaceOf(s, k)
             t == Without(s, k)
             old(i) == IF i < p THEN i ELSE i + 1
             new(i) == IF i < p THEN i ELSE i - 1
  <2>1. p \in 1 .. n /\ s[p] = k
    BY <1>3, Listed
  <2>2. t = RemoveAt(s, p)
    BY <1>3 DEF Without
  <2> HIDE DEF p, t
  <2>3. /\ t \in Seq(Keys) /\ Len(t) = n - 1 /\ DOMAIN t = 1 .. n - 1
        /\ \A i \in 1 .. n - 1 : t[i] = IF i < p THEN s[i] ELSE s[i + 1]
    <3>1. /\ t \in Seq(Keys) /\ Len(t) = n - 1
          /\ \A i \in 1 .. n - 1 : t[i] = IF i < p THEN s[i] ELSE s[i + 1]
      BY <1>1, <2>1, <2>2, Removal
    <3> QED
      BY <3>1
  <2>4. n \in Nat /\ n > 0 /\ p \in Nat
    BY <1>1, <2>1
  <2> HIDE DEF n
  <2>5. \A i \in 1 .. n - 1 : old(i) \in 1 .. n /\ old(i) # p /\ t[i] = s[old(i)]
    BY <2>1, <2>3, <2>4
  <2>6. \A i, j \in 1 .. n - 1 : /\ i < j => old(i) < old(j)
                                 /\ old(i) = old(j) => i = j
    BY <2>4
  <2>7. \A i \in 1 .. n : i # p => new(i) \in 1 .. n - 1 /\ old(new(i)) = i
    BY <2>1, <2>4
  <2>8. \A i, j \in 1 .. n : i # p /\ j # p /\ i < j => new(i) < new(j)
    BY <2>1, <2>4
  <2>9. DOMAIN s = 1 .. n /\ \A i, j \in 1 .. n : s[i] = s[j] => i = j
    BY <1>1 DEF n
  <2> HIDE DEF old, new
  <2>10. Order(t)
    <3>1. IsInjective(t)
      BY <1>1, <2>3, <2>5, <2>6, <2>9 DEF IsInjective
    <3>2. \A i, j \in DOMAIN s : i < j => BucketOf(s[i]) <= BucketOf(s[j])
      BY DEF Order
    <3>3. \A i, j \in DOMAIN t : i < j => BucketOf(t[i]) <= BucketOf(t[j])
      BY <2>3, <2>5, <2>6, <2>9, <3>2
    <3> QED
      BY <2>3, <3>1, <3>3 DEF Order
  <2>11. ToSet(t) = ToSet(s) \ {k}
    <3>1. ASSUME NEW i \in 1 .. n - 1 PROVE t[i] \in ToSet(s) \ {k}
      BY <1>1, <2>1, <2>5, <2>9 DEF ToSet
    <3>2. ASSUME NEW i \in 1 .. n, s[i] # k PROVE s[i] \in ToSet(t)
      <4>1. i # p /\ new(i) \in 1 .. n - 1 /\ t[new(i)] = s[i]
        BY <2>1, <2>5, <2>7, <3>2
      <4> QED
        BY <2>3, <4>1 DEF ToSet
    <3> QED
      BY <2>3, <2>9, <3>1, <3>2 DEF ToSet
  <2>12. ASSUME NEW x, NEW y, x # k, y # k, Before(s, x, y)
         PROVE  Before(t, x, y)
    <3>1. PICK i, j \in 1 .. n : i < j /\ s[i] = x /\ s[j] = y
      BY <2>9, <2>12 DEF Before
    <3>2. i # p /\ j # p
      BY <2>1, <2>12, <3>1
    <3>3. /\ new(i) \in 1 .. n - 1 /\ new(j) \in 1 .. n - 1 /\ new(i) < new(j)
          /\ t[new(i)] = x /\ t[new(j)] = y
      BY <2>5, <2>7, <2>8, <3>1, <3>2
    <3> QED
      BY <2>3, <3>3 DEF Before
  <2>13. n - 1 <= n
    BY <2>4
  <2> QED
    BY <2>3, <2>10, <2>11, <2>12, <2>13 DEF t, n
<1> QED
  BY <1>2, <1>3

\* A set of numbers from 1 on without gaps is counted by its greatest.
LEMMA Initial ==
  ASSUME NEW n \in Nat, NEW T \in SUBSET (1 .. n),
         \A i \in T, j \in 1 .. n : j < i => j \in T
  PROVE  Cardinality(T) \in 0 .. n /\ T = 1 .. Cardinality(T)
<1>1. /\ IsFiniteSet(1 .. n) /\ Cardinality(1 .. n) = n
      /\ IsFiniteSet(T) /\ Cardinality(T) \in Nat /\ Cardinality(T) <= n
  <2>1. 1 \in Int /\ n \in Int /\ (IF 1 > n THEN 0 ELSE n - 1 + 1) = n
    OBVIOUS
  <2>2. IsFiniteSet(1 .. n) /\ Cardinality(1 .. n) = n
    BY <2>1, FS_Interval
  <2>3. IsFiniteSet(T) /\ Cardinality(T) <= n
    BY <2>2, FS_Subset
  <2> QED
    BY <2>2, <2>3, FS_CardinalityType
<1>2. ASSUME NEW i \in T PROVE i <= Cardinality(T)
  <2>1. \A j \in 1 .. i : j \in T
    <3>1. \A j \in 1 .. i : j \in 1 .. n /\ (j < i \/ j = i)
      OBVIOUS
    <3> QED
      BY <3>1
  <2>2. i \in Nat /\ i > 0 /\ 1 .. i \in SUBSET T
    BY <2>1
  <2>3. Cardinality(1 .. i) = i
    BY <2>2, FS_Interval
  <2> QED
    BY <1>1, <2>2, <2>3, FS_Subset
<1>3. T \in SUBSET (1 .. Cardinality(T))
  <2>1. \A i \in T : i \in Nat /\ i > 0
    OBVIOUS
  <2> QED
    BY <1>1, <1>2, <2>1
<1>4. IsFiniteSet(1 .. Cardinality(T)) /\ Cardinality(1 .. Cardinality(T)) = Cardinality(T)
  BY <1>1, FS_Interval
<1>5. T = 1 .. Cardinality(T)
  BY <1>3, <1>4, FS_Subset
<1> QED
  BY <1>1, <1>5

\* A new key put at the head of its bucket: it is behind those of lower buckets
\* and before the others, which stay in their order.
LEMMA Inserted ==
  ASSUME NEW t, Order(t), NEW k \in Keys, k \notin ToSet(t), NEW u,
         u = InsertAt(t, Cardinality({i \in DOMAIN t :
                                        BucketOf(t[i]) < BucketOf(k)}) + 1, k)
  PROVE  /\ Order(u)
         /\ ToSet(u) = ToSet(t) \cup {k}
         /\ Len(u) = Len(t) + 1
         /\ \A x, y : Before(t, x, y) => Before(u, x, y)
         /\ \A y \in ToSet(t) : BucketOf(k) <= BucketOf(y) => Before(u, k, y)
<1> DEFINE n == Len(t)
           below == {i \in DOMAIN t : BucketOf(t[i]) < BucketOf(k)}
           c == Cardinality(below)
           new(i) == IF i <= c THEN i ELSE i + 1
           old(i) == IF i <= c THEN i ELSE i - 1
<1>1. /\ t \in Seq(Keys) /\ n \in Nat /\ DOMAIN t = 1 .. n
      /\ \A i \in 1 .. n : t[i] \in Keys /\ BucketOf(t[i]) \in Nat
      /\ \A i, j \in 1 .. n : t[i] = t[j] => i = j
      /\ BucketOf(k) \in Nat
      /\ \A i \in 1 .. n : t[i] # k
  BY Listed, MapsAssumption DEF ToSet
<1>2. \A i, j \in 1 .. n : i < j => BucketOf(t[i]) <= BucketOf(t[j])
  BY <1>1 DEF Order
<1>3. c \in 0 .. n /\ below = 1 .. c
  <2>1. below \in SUBSET (1 .. n)
    BY <1>1
  <2>2. \A i \in below, j \in 1 .. n : j < i => j \in below
    BY <1>1, <1>2
  <2> HIDE DEF below
  <2> QED
    BY <1>1, <2>1, <2>2, Initial
<1>4. \A i \in 1 .. n : i <= c <=> BucketOf(t[i]) < BucketOf(k)
  BY <1>1, <1>3
<1>5. /\ u \in Seq(Keys) /\ Len(u) = n + 1
      /\ \A i \in 1 .. n + 1 :
           u[i] = IF i < c + 1 THEN t[i] ELSE IF i = c + 1 THEN k ELSE t[i - 1]
  <2>1. c + 1 \in 1 .. n + 1 /\ u = InsertAt(t, c + 1, k)
    BY <1>1, <1>3
  <2>2. PICK q \in 1 .. Len(t) + 1 : q = c + 1
    BY <2>1
  <2>3. u = InsertAt(t, q, k)
    BY <2>1, <2>2
  <2> HIDE DEF c, below
  <2>4. /\ InsertAt(t, q, k) \in Seq(Keys)
        /\ Len(InsertAt(t, q, k)) = Len(t) + 1
        /\ \A i \in 1 .. Len(t) + 1 :
             InsertAt(t, q, k)[i] =
               IF i < q THEN t[i] ELSE IF i = q THEN k ELSE t[i - 1]
    BY <1>1, Insertion
  <2>5. /\ u \in Seq(Keys) /\ Len(u) = n + 1
        /\ \A i \in 1 .. n + 1 :
             u[i] = IF i < q THEN t[i] ELSE IF i = q THEN k ELSE t[i - 1]
    BY <2>3, <2>4, Zenon
  <2> HIDE DEF n
  <2> QED
    BY ONLY <2>2, <2>5
<1> HIDE DEF n, c, below
<1>6. DOMAIN u = 1 .. n + 1 /\ c \in Nat /\ c + 1 \in 1 .. n + 1 /\ u[c + 1] = k
  BY <1>1, <1>3, <1>5
<1>7. \A i \in 1 .. n : new(i) \in 1 .. n + 1 /\ new(i) # c + 1 /\ u[new(i)] = t[i]
  BY <1>1, <1>3, <1>5
<1>8. \A i \in 1 .. n + 1 :
        i # c + 1 => old(i) \in 1 .. n /\ new(old(i)) = i /\ u[i] = t[old(i)]
  BY <1>1, <1>3, <1>5
<1>9. \A i, j \in 1 .. n : i < j => new(i) < new(j)
  BY <1>1, <1>3
<1>10. \A i, j \in 1 .. n + 1 : /\ i # c + 1 /\ j # c + 1 /\ i < j => old(i) < old(j)
                                /\ i # c + 1 /\ j = c + 1 /\ i < j => old(i) <= c
                                /\ i = c + 1 /\ j # c + 1 /\ i < j => ~ (old(j) <= c)
  BY <1>1, <1>3
<1>11. \A i \in 1 .. n : ~ (i <= c) => c + 1 < new(i)
  BY <1>1, <1>3
<1> HIDE DEF new, old
<1>12. Order(u)
  <2>1. ASSUME NEW i \in 1 .. n + 1, NEW j \in 1 .. n + 1, u[i] = u[j] PROVE i = j
    <3>1. CASE i = c + 1
      BY <1>1, <1>6, <1>8, <2>1, <3>1
    <3>2. CASE j = c + 1
      BY <1>1, <1>6, <1>8, <2>1, <3>2
    <3>3. CASE i # c + 1 /\ j # c + 1
      BY <1>1, <1>8, <2>1, <3>3
    <3> QED
      BY <3>1, <3>2, <3>3
  <2>2. ASSUME NEW i \in 1 .. n + 1, NEW j \in 1 .. n + 1, i < j
        PROVE  BucketOf(u[i]) <= BucketOf(u[j])
    <3>1. CASE i # c + 1 /\ j # c + 1
      BY <1>2, <1>8, <1>10, <2>2, <3>1
    <3>2. CASE i # c + 1 /\ j = c + 1
      <4>1. old(i) \in 1 .. n /\ old(i) <= c /\ u[i] = t[old(i)] /\ u[j] = k
        BY <1>6, <1>8, <1>10, <2>2, <3>2
      <4>2. BucketOf(t[old(i)]) < BucketOf(k) /\ BucketOf(t[old(i)]) \in Nat
        BY <1>1, <1>4, <4>1
      <4> QED
        BY <1>1, <4>1, <4>2
    <3>3. CASE i = c + 1 /\ j # c + 1
      <4>1. old(j) \in 1 .. n /\ ~ (old(j) <= c) /\ u[j] = t[old(j)] /\ u[i] = k
        BY <1>6, <1>8, <1>10, <2>2, <3>3
      <4>2. ~ (BucketOf(t[old(j)]) < BucketOf(k)) /\ BucketOf(t[old(j)]) \in Nat
        BY <1>1, <1>4, <4>1
      <4> QED
        BY <1>1, <4>1, <4>2
    <3>4. ~ (i = c + 1 /\ j = c + 1)
      BY <2>2
    <3> QED
      BY <3>1, <3>2, <3>3, <3>4
  <2> QED
    BY <1>5, <1>6, <2>1, <2>2 DEF Order, IsInjective
<1>13. ToSet(u) = ToSet(t) \cup {k}
  <2>1. \A i \in 1 .. n + 1 : u[i] = k \/ u[i] \in ToSet(t)
    BY <1>1, <1>6, <1>8 DEF ToSet
  <2>2. \A i \in 1 .. n : t[i] \in ToSet(u)
    BY <1>6, <1>7 DEF ToSet
  <2>3. k \in ToSet(u)
    BY <1>6 DEF ToSet
  <2>4. ToSet(u) \subseteq ToSet(t) \cup {k}
    BY <1>6, <2>1 DEF ToSet
  <2>5. ToSet(t) \subseteq ToSet(u)
    BY <1>1, <2>2 DEF ToSet
  <2> QED
    BY <2>3, <2>4, <2>5
<1>14. ASSUME NEW x, NEW y, Before(t, x, y) PROVE Before(u, x, y)
  <2>1. PICK i, j \in 1 .. n : i < j /\ t[i] = x /\ t[j] = y
    BY <1>1, <1>14 DEF Before
  <2>2. /\ new(i) \in DOMAIN u /\ new(j) \in DOMAIN u /\ new(i) < new(j)
        /\ u[new(i)] = x /\ u[new(j)] = y
    BY <1>6, <1>7, <1>9, <2>1
  <2> QED
    BY <2>2 DEF Before
<1>15. ASSUME NEW y \in ToSet(t), BucketOf(k) <= BucketOf(y) PROVE Before(u, k, y)
  <2>1. PICK i \in 1 .. n : t[i] = y
    BY <1>1 DEF ToSet
  <2>2. BucketOf(y) \in Nat /\ ~ (BucketOf(y) < BucketOf(k))
    BY <1>1, <1>15, <2>1
  <2>3. c + 1 < new(i) /\ new(i) \in 1 .. n + 1 /\ u[new(i)] = y
    BY <1>4, <1>7, <1>11, <2>1, <2>2
  <2> QED
    BY <1>6, <2>3 DEF Before
<1> QED
  BY <1>5, <1>12, <1>13, <1>14, <1>15 DEF n

\* A key put into a map, new or again: it is in the map once, at the head of its
\* bucket, and the others stay in their order.
LEMMA Added ==
  ASSUME NEW s, Order(s), NEW k \in Keys
  PROVE  /\ Order(WithNew(s, k))
         /\ ToSet(WithNew(s, k)) = ToSet(s) \cup {k}
         /\ Len(WithNew(s, k)) = IF Contains(s, k) THEN Len(s) ELSE Len(s) + 1
         /\ \A x, y : x # k /\ y # k /\ Before(s, x, y) => Before(WithNew(s, k), x, y)
         /\ \A y \in ToSet(s) : y # k /\ BucketOf(k) <= BucketOf(y) =>
              Before(WithNew(s, k), k, y)
<1> DEFINE t == Without(s, k)
           u == WithNew(s, k)
<1>1. /\ Order(t) /\ ToSet(t) = ToSet(s) \ {k}
      /\ Contains(s, k) => Len(t) = Len(s) - 1
      /\ \A x, y : x # k /\ y # k /\ Before(s, x, y) => Before(t, x, y)
  BY Deleted
<1>2. ~ Contains(s, k) => Len(t) = Len(s)
  BY DEF Without
<1>3. u = InsertAt(t, Cardinality({i \in DOMAIN t : BucketOf(t[i]) < BucketOf(k)}) + 1,
                   k)
  BY DEF WithNew
<1> HIDE DEF t, u
<1>4. k \notin ToSet(t)
  BY <1>1
<1>5. /\ Order(u) /\ ToSet(u) = ToSet(t) \cup {k} /\ Len(u) = Len(t) + 1
      /\ \A x, y : Before(t, x, y) => Before(u, x, y)
      /\ \A y \in ToSet(t) : BucketOf(k) <= BucketOf(y) => Before(u, k, y)
  BY <1>1, <1>3, <1>4, Inserted
<1>6. Len(s) \in Nat
  BY Listed
<1>7. Len(u) = IF Contains(s, k) THEN Len(s) ELSE Len(s) + 1
  BY <1>1, <1>2, <1>5, <1>6
<1> QED
  BY <1>1, <1>5, <1>7 DEF u

\* To come next, in terms of the order.
LEMMA AheadIs ==
  ASSUME NEW s, NEW last, NEW k
  PROVE  Ahead(s, last, k) <=>
           /\ Contains(s, last) => Before(s, last, k)
           /\ last # None => BucketOf(last) <= BucketOf(k)
BY DEF Ahead, Before

\* What is still to come stays so, whatever else is deleted ...
LEMMA AheadDeleted ==
  ASSUME NEW s, Order(s), NEW k, NEW last, NEW x, x # k, Ahead(s, last, x)
  PROVE  Ahead(Without(s, k), last, x)
<1>1. Order(Without(s, k)) /\ ToSet(Without(s, k)) = ToSet(s) \ {k}
  BY Deleted
<1>2. Contains(Without(s, k), last) => Contains(s, last) /\ last # k
  BY <1>1, Listed
<1> QED
  BY <1>2, AheadIs, Deleted

\* ... or put into the map.
LEMMA AheadAdded ==
  ASSUME NEW s, Order(s), NEW k \in Keys, NEW last, NEW x \in ToSet(s), x # k,
         Ahead(s, last, x)
  PROVE  Ahead(WithNew(s, k), last, x)
<1>1. Order(WithNew(s, k)) /\ ToSet(WithNew(s, k)) = ToSet(s) \cup {k}
  BY Added
<1>2. Contains(WithNew(s, k), last) => Contains(s, last) \/ last = k
  BY <1>1, Listed
<1>3. k # None
  BY MapsAssumption
<1>4. CASE last = k
  BY <1>3, <1>4, AheadIs, Added
<1>5. CASE last # k
  BY <1>2, <1>5, AheadIs, Added
<1> QED
  BY <1>4, <1>5

\* The key that the kernel gives next is the first of those to come.
LEMMA NextOfOrder ==
  ASSUME NEW s, Order(s), NEW last \in Keys \cup {None}
  PROVE  /\ NextKey(s, last) = None => \A x \in ToSet(s) : ~ Ahead(s, last, x)
         /\ NextKey(s, last) # None =>
              /\ NextKey(s, last) \in ToSet(s) /\ NextKey(s, last) \in Keys
              /\ \A x \in ToSet(s) :
                   Ahead(s, last, x) =>
                     x = NextKey(s, last) \/ Ahead(s, NextKey(s, last), x)
<1> DEFINE n == Len(s)
           p == PlaceOf(s, last)
<1>1. /\ n \in Nat /\ DOMAIN s = 1 .. n
      /\ \A i \in 1 .. n : s[i] \in Keys /\ s[i] # None
      /\ \A i, j \in 1 .. n : s[i] = s[j] => i = j
      /\ \A i, j \in 1 .. n : i < j => BucketOf(s[i]) <= BucketOf(s[j])
      /\ \A k : Contains(s, k) <=> k \in ToSet(s)
  <2>1. /\ n \in Nat /\ DOMAIN s = 1 .. n
        /\ \A i \in 1 .. n : s[i] \in Keys
        /\ \A i, j \in 1 .. n : s[i] = s[j] => i = j
        /\ \A k : Contains(s, k) <=> k \in ToSet(s)
    BY Listed
  <2>2. \A i, j \in DOMAIN s : i < j => BucketOf(s[i]) <= BucketOf(s[j])
    BY DEF Order
  <2>3. \A i \in 1 .. n : s[i] # None
    BY <2>1, MapsAssumption
  <2> QED
    BY <2>1, <2>2, <2>3
<1>2. /\ Contains(s, last) => p \in 1 .. n /\ s[p] = last
      /\ ~ Contains(s, last) => p = 0
  BY Listed DEF PlaceOf
<1>3. NextKey(s, last) = IF p < n THEN s[p + 1] ELSE None
  BY DEF NextKey
<1>4. \A x \in ToSet(s) : \E i \in 1 .. n : s[i] = x
  BY <1>1 DEF ToSet
<1>5. \A i \in 1 .. n : s[i] \in ToSet(s)
  BY <1>1 DEF ToSet
<1> HIDE DEF n, p
<1>6. p \in 0 .. n
  BY <1>1, <1>2
<1>7. ASSUME NEW i \in 1 .. n, Ahead(s, last, s[i]) PROVE p < i
  <2>1. CASE Contains(s, last)
    <3>1. PICK a, b \in 1 .. n : a < b /\ s[a] = last /\ s[b] = s[i]
      BY <1>1, <1>7, <2>1 DEF Ahead
    <3>2. a = p /\ b = i
      BY <1>1, <1>2, <2>1, <3>1
    <3> QED
      BY <3>1, <3>2
  <2>2. CASE ~ Contains(s, last)
    BY <1>1, <1>2, <2>2
  <2> QED
    BY <2>1, <2>2
<1>8. CASE ~ (p < n)
  <2>1. \A i \in 1 .. n : ~ (p < i)
    BY <1>1, <1>6, <1>8
  <2>2. NextKey(s, last) = None
    BY <1>3, <1>8
  <2> QED
    BY <1>4, <1>7, <2>1, <2>2
<1>9. CASE p < n
  <2>1. p + 1 \in 1 .. n /\ NextKey(s, last) = s[p + 1]
    BY <1>1, <1>3, <1>6, <1>9
  <2>2. ASSUME NEW i \in 1 .. n, Ahead(s, last, s[i])
        PROVE  i = p + 1 \/ Ahead(s, s[p + 1], s[i])
    <3>1. p < i
      BY <1>7, <2>2
    <3>2. CASE i # p + 1
      <4>1. p + 1 < i
        BY <1>1, <1>6, <3>1, <3>2
      <4> QED
        BY <1>1, <2>1, <4>1 DEF Ahead
    <3> QED
      BY <3>2
  <2> QED
    BY <1>1, <1>4, <1>5, <2>1, <2>2
<1> QED
  BY <1>8, <1>9

-----------------------------------------------------------------------------
(* The invariant *)

\* What a step of one process leaves as it was in the locals of another.
LEMMA OthersLocals ==
  ASSUME TypeOK, MapsInv, NEW p \in Procs,
         \/ Step(p)
         \/ \E cmd \in Commands, m \in Maps : Call(p, cmd, m)
  PROVE  \A q \in Procs : q # p =>
           /\ pc'[q] = pc[q] /\ req'[q] = req[q] /\ (q \in stray' <=> q \in stray)
           /\ cur'[q] = cur[q] /\ steps'[q] = steps[q] /\ keys'[q] = keys[q]
           /\ ok'[q] = ok[q] /\ fresh'[q] = fresh[q]
<1>1. CASE \E cmd \in Commands, m \in Maps : Call(p, cmd, m)
  BY <1>1 DEF TypeOK, Call, Goto, iterator
<1>2. CASE FindMap(p) \/ PinMap(p) \/ Open(p) \/ OpenLxc(p)
  BY <1>2 DEF TypeOK, FindMap, PinMap, Open, OpenLxc, Return, Goto, iterator
<1>3. CASE IterNext(p) \/ IterLook(p)
  BY <1>3 DEF TypeOK, MapsInv, IterNext, IterLook, Goto
<1>4. CASE BatchDelete(p) \/ Exit(p)
  BY <1>4 DEF TypeOK, MapsInv, BatchDelete, Exit, Return, Goto
<1> QED
  BY <1>1, <1>2, <1>3, <1>4 DEF Step

\* A list of collected keys.
LEMMA Collected ==
  ASSUME NEW s \in Seq(Keys)
  PROVE  /\ ToSet(s) \subseteq Keys /\ Len(s) \in Nat
         /\ \A k \in Keys : /\ Append(s, k) \in Seq(Keys)
                            /\ Len(Append(s, k)) = Len(s) + 1
                            /\ ToSet(Append(s, k)) = ToSet(s) \cup {k}
         /\ s # <<>> => /\ Head(s) \in Keys /\ Tail(s) \in Seq(Keys)
                        /\ Len(Tail(s)) = Len(s) - 1
                        /\ ToSet(s) = ToSet(Tail(s)) \cup {Head(s)}
         /\ s = <<>> => ToSet(s) = {}
<1>1. /\ Len(s) \in Nat /\ DOMAIN s = 1 .. Len(s)
      /\ \A i \in 1 .. Len(s) : s[i] \in Keys
  BY ElementOfSeq
<1>2. ASSUME NEW k \in Keys
      PROVE  /\ Append(s, k) \in Seq(Keys) /\ Len(Append(s, k)) = Len(s) + 1
             /\ ToSet(Append(s, k)) = ToSet(s) \cup {k}
  <2>1. /\ Append(s, k) \in Seq(Keys) /\ Len(Append(s, k)) = Len(s) + 1
        /\ DOMAIN Append(s, k) = 1 .. Len(s) + 1
        /\ \A i \in 1 .. Len(s) : Append(s, k)[i] = s[i]
        /\ Append(s, k)[Len(s) + 1] = k
    BY AppendProperties
  <2>2. \A i \in 1 .. Len(s) + 1 : i \in 1 .. Len(s) \/ i = Len(s) + 1
    BY <1>1
  <2>3. Len(s) + 1 \in 1 .. Len(s) + 1 /\ \A i \in 1 .. Len(s) : i \in 1 .. Len(s) + 1
    BY <1>1
  <2>4. ToSet(Append(s, k)) \subseteq ToSet(s) \cup {k}
    BY <1>1, <2>1, <2>2 DEF ToSet
  <2>5. ToSet(s) \cup {k} \subseteq ToSet(Append(s, k))
    BY <1>1, <2>1, <2>3 DEF ToSet
  <2> QED
    BY <2>1, <2>4, <2>5
<1>3. ASSUME s # <<>>
      PROVE  /\ Head(s) \in Keys /\ Tail(s) \in Seq(Keys) /\ Len(Tail(s)) = Len(s) - 1
             /\ ToSet(s) = ToSet(Tail(s)) \cup {Head(s)}
  <2>1. /\ Head(s) \in Keys /\ Tail(s) \in Seq(Keys) /\ Len(Tail(s)) = Len(s) - 1
        /\ Head(s) = s[1] /\ 1 \in 1 .. Len(s)
        /\ DOMAIN Tail(s) = 1 .. Len(s) - 1
        /\ \A i \in 1 .. Len(s) - 1 : Tail(s)[i] = s[i + 1] /\ i + 1 \in 1 .. Len(s)
    BY <1>3
  <2>2. \A i \in 1 .. Len(s) : i = 1 \/ (i - 1 \in 1 .. Len(s) - 1 /\ (i - 1) + 1 = i)
    BY <1>1
  <2>3. ToSet(s) \subseteq ToSet(Tail(s)) \cup {Head(s)}
    <3>1. ASSUME NEW i \in 1 .. Len(s)
          PROVE  s[i] = Head(s) \/ \E j \in DOMAIN Tail(s) : Tail(s)[j] = s[i]
      <4>1. CASE i = 1
        BY <2>1, <4>1
      <4>2. CASE i - 1 \in 1 .. Len(s) - 1 /\ (i - 1) + 1 = i
        BY <2>1, <4>2
      <4> QED
        BY <2>2, <4>1, <4>2
    <3> QED
      BY <1>1, <3>1 DEF ToSet
  <2>4. ToSet(Tail(s)) \cup {Head(s)} \subseteq ToSet(s)
    BY <1>1, <2>1 DEF ToSet
  <2> QED
    BY <2>1, <2>3, <2>4
<1>4. ToSet(s) \subseteq Keys /\ (s = <<>> => ToSet(s) = {})
  BY <1>1 DEF ToSet
<1> QED
  BY <1>1, <1>2, <1>3, <1>4

Types == TypeOK /\ MapsInv /\ CallsInv

\* What a step does to the maps.
LEMMA MapsStep ==
  ASSUME Types, [Next]_vars
  PROVE  \/ order' = order
         \/ \E k : order' = [order EXCEPT ![Lxc] = Without(@, k)]
         \/ \E m \in Maps : \E k \in KeysOf(m) : Put(m, k)
<1>1. ASSUME NEW p \in Procs, Step(p)
      PROVE  \/ order' = order
             \/ \E k : order' = [order EXCEPT ![Lxc] = Without(@, k)]
  BY <1>1 DEF Step, FindMap, PinMap, Open, IterNext, IterLook, OpenLxc, BatchDelete,
     Exit
<1>2. ASSUME NEW p \in Procs, NEW cmd \in Commands, NEW m \in Maps, Call(p, cmd, m)
      PROVE  order' = order
  BY <1>2 DEF Call
<1>3. ASSUME NEW m \in Maps, LoaderPins(m) PROVE order' = order
  BY <1>3 DEF LoaderPins
<1>4. ASSUME NEW k \in KeysOf(Lxc), DelKey(k)
      PROVE  order' = [order EXCEPT ![Lxc] = Without(@, k)]
  BY <1>4 DEF DelKey
<1>5. CASE UNCHANGED vars
  BY <1>5 DEF vars
<1> QED
  BY <1>1, <1>2, <1>3, <1>4, <1>5 DEF Next

\* The maps stay lists of keys that fit.
LEMMA OrdersStep ==
  ASSUME Types, [Next]_vars
  PROVE  /\ order' \in [Maps -> Seq(Keys)]
         /\ \A m \in Maps : Order(order'[m]) /\ Len(order'[m]) <= MaxEntries
<1>0. /\ order \in [Maps -> Seq(Keys)]
      /\ \A m \in Maps : Order(order[m]) /\ Len(order[m]) <= MaxEntries
  BY DEF Types, MapsInv, TypeOK
<1>1. \A m \in Maps : \A s : Order(s) /\ order' = [order EXCEPT ![m] = s]
                           => order' \in [Maps -> Seq(Keys)]
  BY <1>0 DEF Order
<1>2. CASE \E k : order' = [order EXCEPT ![Lxc] = Without(@, k)]
  <2>1. PICK k : order' = [order EXCEPT ![Lxc] = Without(@, k)]
    BY <1>2
  <2>2. Lxc \in Maps /\ Order(order[Lxc]) /\ Len(order[Lxc]) \in Nat
    BY <1>0, Listed, MapsAssumption
  <2>3. /\ Order(Without(order[Lxc], k))
        /\ Len(Without(order[Lxc], k)) <= Len(order[Lxc])
    BY <2>2, Deleted
  <2>4. Len(Without(order[Lxc], k)) <= MaxEntries
    <3>1. Len(Without(order[Lxc], k)) \in Nat /\ MaxEntries \in Nat
      BY <2>3, Listed, MapsAssumption
    <3> QED
      BY <1>0, <2>2, <2>3, <3>1
  <2> QED
    BY <1>0, <1>1, <2>1, <2>2, <2>3, <2>4
<1>3. CASE \E m \in Maps : \E k \in KeysOf(m) : Put(m, k)
  <2>0. PICK m \in Maps : \E k \in KeysOf(m) : Put(m, k)
    BY <1>3
  <2>1. PICK k \in KeysOf(m) : Put(m, k)
    BY <2>0
  <2>2. k \in Keys
    BY DEF Keys
  <2>3. /\ order' = [order EXCEPT ![m] = WithNew(order[m], k)]
        /\ Contains(order[m], k) \/ Len(order[m]) < MaxEntries
    BY <2>1 DEF Put, Room, Has
  <2>4. /\ Order(WithNew(order[m], k))
        /\ Len(WithNew(order[m], k)) =
             IF Contains(order[m], k) THEN Len(order[m]) ELSE Len(order[m]) + 1
    BY <1>0, <2>2, Added
  <2>5. Len(WithNew(order[m], k)) <= MaxEntries
    <3>1. Len(order[m]) \in Nat /\ MaxEntries \in Nat
      BY <1>0, Listed, MapsAssumption
    <3> QED
      BY <1>0, <2>3, <2>4, <3>1
  <2> QED
    BY <1>0, <1>1, <2>3, <2>4, <2>5
<1> QED
  BY <1>0, <1>2, <1>3, MapsStep

\* What is of its type at one process stays so.
ProcOK(p) ==
  /\ pc[p] \in Locations /\ req[p] \in [cmd : Commands, map : Maps]
  /\ cur[p] \in Keys \cup {None} /\ steps[p] \in 0 .. MaxEntries + 1
  /\ keys[p] \in Seq(Keys) /\ ok[p] \in BOOLEAN /\ fresh[p] \in SUBSET Keys
  /\ pc[p] \in {"Create", "pin"} => req[p].cmd = "Create"
  /\ pc[p] \in {"Reset", "next", "look", "open", "batch"} => req[p].cmd = "Reset"
  /\ p \in stray => pc[p] = "pin" \/ (pc[p] = "exit" /\ ~ ok[p])
  /\ pc[p] \in {"idle", "Create", "pin", "Reset"} =>
       cur[p] = None /\ keys[p] = <<>> /\ steps[p] = 0
  /\ Len(keys[p]) <= steps[p]
  /\ pc[p] = "look" => cur[p] \in Keys /\ Len(keys[p]) < steps[p]

Locals ==
  /\ pc \in [Procs -> Locations] /\ req \in [Procs -> [cmd : Commands, map : Maps]]
  /\ cur \in [Procs -> Keys \cup {None}] /\ steps \in [Procs -> 0 .. MaxEntries + 1]
  /\ keys \in [Procs -> Seq(Keys)] /\ ok \in [Procs -> BOOLEAN]
  /\ fresh \in [Procs -> SUBSET Keys]

\* The types and the calls' invariant, process by process.
AllOK ==
  /\ Locals /\ pinned \subseteq Maps /\ stray \subseteq Procs
  /\ order \in [Maps -> Seq(Keys)]
  /\ \A m \in Maps : Order(order[m]) /\ Len(order[m]) <= MaxEntries
  /\ \A p \in Procs : ProcOK(p)

\* AllOK says what Types says.
LEMMA ProcByProc == Types <=> AllOK
<1> USE DEF AllOK
<1>1. Types => AllOK
  BY DEF Types, TypeOK, MapsInv, CallsInv, ProcOK, Locals, At
<1>2. ASSUME AllOK PROVE Types
  <2>1. \A m \in Maps : ToSet(order[m]) \subseteq Keys /\ IsInjective(order[m])
    BY <1>2, Collected DEF Order
  <2>2. ASSUME NEW p \in Procs
        PROVE  Len(keys[p]) <= MaxEntries + 1 /\ ToSet(keys[p]) \subseteq Keys
    <3>1. /\ keys[p] \in Seq(Keys) /\ Len(keys[p]) <= steps[p]
          /\ steps[p] \in 0 .. MaxEntries + 1 /\ MaxEntries \in Nat
      BY <1>2, MapsAssumption DEF ProcOK
    <3>2. Len(keys[p]) \in Nat /\ ToSet(keys[p]) \subseteq Keys
      BY <3>1, Collected
    <3> QED
      BY <3>1, <3>2
  <2> QED
    BY <1>2, <2>1, <2>2 DEF Types, TypeOK, MapsInv, CallsInv, ProcOK, Locals, At
<1> QED
  BY <1>1, <1>2

\* The same after a step.
LEMMA ProcByProcAfter == Types' <=> AllOK'
<1>1. Types <=> AllOK
  BY ProcByProc
<1> QED
  BY <1>1, PTL

\* The types and the calls' invariant are kept.
LEMMA TypesStep ==
  ASSUME Types, [Next]_vars PROVE Types'
<1>0. AllOK
  BY ProcByProc
<1>p. Locals /\ pinned \subseteq Maps /\ stray \subseteq Procs
  BY <1>0 DEF AllOK
<1>q. \A q \in Procs : ProcOK(q)
  BY <1>0 DEF AllOK
<1>m. MaxEntries \in Nat /\ Lxc \in Maps
  BY MapsAssumption
<1>s. SUFFICES /\ Locals' /\ pinned' \subseteq Maps /\ stray' \subseteq Procs
               /\ \A q \in Procs : ProcOK(q)'
  BY OrdersStep, ProcByProcAfter DEF AllOK
<1> USE DEF Goto, At, Return, iterator
<1>1. ASSUME NEW p \in Procs, NEW cmd \in Commands, NEW m \in Maps, Call(p, cmd, m)
      PROVE  /\ Locals' /\ pinned' \subseteq Maps /\ stray' \subseteq Procs
             /\ ProcOK(p)'
  <2>1. /\ pc' = [pc EXCEPT ![p] = cmd] /\ pc[p] = "idle"
        /\ req' = [req EXCEPT ![p] = [cmd |-> cmd, map |-> m]]
        /\ UNCHANGED <<pinned, stray, cur, steps, keys, ok, fresh>>
    BY <1>1 DEF Call
  <2>2. cmd \in {"Create", "Reset"} /\ cmd \in Locations
    BY DEF Commands, Locations
  <2>3. Locals'
    BY <1>p, <2>1, <2>2 DEF Locals
  <2>4. ProcOK(p)'
    BY <1>p, <1>q, <2>1, <2>2, <2>3 DEF ProcOK, Locals
  <2> QED
    BY <1>p, <2>1, <2>3, <2>4
<1>2. ASSUME NEW p \in Procs, FindMap(p) \/ PinMap(p)
      PROVE  /\ Locals' /\ pinned' \subseteq Maps /\ stray' \subseteq Procs
             /\ ProcOK(p)'
  <2>1. /\ UNCHANGED <<req, cur, steps, keys, fresh>>
        /\ pinned' \subseteq Maps /\ stray' \subseteq Procs
    BY <1>p, <1>2 DEF FindMap, PinMap, Map, Locals
  <2>2. /\ \/ pc' = [pc EXCEPT ![p] = "pin"] /\ ok' = ok
           \/ /\ pc' = [pc EXCEPT ![p] = "exit"]
              /\ \E r \in BOOLEAN : ok' = [ok EXCEPT ![p] = r]
        /\ pc[p] \in {"Create", "pin"}
    BY <1>2 DEF FindMap, PinMap
  <2>3. Locals'
    BY <1>p, <2>1, <2>2 DEF Locals, Locations
  <2>4. p \in stray' => pc'[p] = "pin" \/ (pc'[p] = "exit" /\ ~ ok'[p])
    BY <1>p, <1>q, <1>2 DEF FindMap, PinMap, ProcOK, Locals
  <2>5. pc'[p] \in {"pin", "exit"}
    BY <1>p, <2>2 DEF Locals
  <2>6. ProcOK(p)'
    BY <1>q, <2>1, <2>2, <2>3, <2>4, <2>5 DEF ProcOK, Locals
  <2> QED
    BY <2>1, <2>3, <2>6
<1>3. ASSUME NEW p \in Procs, Open(p) \/ OpenLxc(p)
      PROVE  /\ Locals' /\ pinned' \subseteq Maps /\ stray' \subseteq Procs
             /\ ProcOK(p)'
  <2>1. UNCHANGED <<pinned, req, stray, cur, steps, keys, fresh>>
    BY <1>3 DEF Open, OpenLxc
  <2>2. /\ \/ pc' = [pc EXCEPT ![p] = "next"] /\ ok' = ok
           \/ pc' = [pc EXCEPT ![p] = "batch"] /\ ok' = ok
           \/ pc' = [pc EXCEPT ![p] = "exit"] /\ ok' = [ok EXCEPT ![p] = FALSE]
        /\ pc[p] \in {"Reset", "open"}
    BY <1>3 DEF Open, OpenLxc
  <2>3. Locals'
    BY <1>p, <2>1, <2>2 DEF Locals, Locations
  <2>4. p \notin stray' /\ pc'[p] \in {"next", "batch", "exit"}
    BY <1>p, <1>q, <2>1, <2>2 DEF ProcOK, Locals
  <2>5. ProcOK(p)'
    BY <1>q, <2>1, <2>2, <2>3, <2>4 DEF ProcOK, Locals
  <2> QED
    BY <1>p, <2>1, <2>3, <2>5
<1>4. ASSUME NEW p \in Procs, IterNext(p)
      PROVE  /\ Locals' /\ pinned' \subseteq Maps /\ stray' \subseteq Procs
             /\ ProcOK(p)'
  <2> DEFINE k == NextKey(order[Map(p)], cur[p])
  <2>1. /\ UNCHANGED <<pinned, req, stray, keys, ok, fresh>> /\ pc[p] = "next"
        /\ \/ pc' = [pc EXCEPT ![p] = "open"] /\ UNCHANGED <<cur, steps>>
           \/ /\ ~ (steps[p] > MaxEntries) /\ k # None
              /\ pc' = [pc EXCEPT ![p] = "look"]
              /\ cur' = [cur EXCEPT ![p] = k]
              /\ steps' = [steps EXCEPT ![p] = IF @ > MaxEntries THEN @ ELSE @ + 1]
    BY <1>4 DEF IterNext, Aborted
  <2>2. k # None => k \in Keys
    <3>1. Map(p) \in Maps /\ cur[p] \in Keys \cup {None}
      BY <1>q DEF ProcOK, Map
    <3>2. Order(order[Map(p)])
      BY <1>0, <3>1 DEF AllOK
    <3> QED
      BY <3>1, <3>2, NextOfOrder
  <2> HIDE DEF k
  <2>3. CASE UNCHANGED <<cur, steps>> /\ pc' = [pc EXCEPT ![p] = "open"]
    <3>1. Locals'
      BY <1>p, <2>1, <2>3 DEF Locals, Locations
    <3>2. p \notin stray' /\ pc'[p] = "open"
      BY <1>p, <1>q, <2>1, <2>3 DEF ProcOK, Locals
    <3>3. ProcOK(p)'
      BY <1>q, <2>1, <2>3, <3>1, <3>2 DEF ProcOK, Locals
    <3> QED
      BY <1>p, <2>1, <3>1, <3>3
  <2>4. CASE /\ ~ (steps[p] > MaxEntries) /\ k # None
             /\ pc' = [pc EXCEPT ![p] = "look"]
             /\ cur' = [cur EXCEPT ![p] = k]
             /\ steps' = [steps EXCEPT ![p] = IF @ > MaxEntries THEN @ ELSE @ + 1]
    <3>1. steps[p] + 1 \in 0 .. MaxEntries + 1 /\ steps[p] \in Nat
      BY <1>m, <1>q, <2>4 DEF ProcOK
    <3>2. steps' = [steps EXCEPT ![p] = steps[p] + 1]
      BY <2>4
    <3>3. Locals'
      BY <1>p, <2>1, <2>2, <2>4, <3>1, <3>2 DEF Locals, Locations
    <3>4. /\ p \notin stray' /\ pc'[p] = "look" /\ cur'[p] \in Keys
          /\ steps'[p] = steps[p] + 1
      BY <1>p, <1>q, <2>1, <2>2, <2>4, <3>2 DEF ProcOK, Locals
    <3>5. Len(keys[p]) <= steps[p] /\ Len(keys[p]) \in Nat
      BY <1>q, Collected DEF ProcOK
    <3>6. Len(keys'[p]) < steps'[p] /\ Len(keys'[p]) <= steps'[p]
      BY <2>1, <3>1, <3>4, <3>5
    <3>7. ProcOK(p)'
      BY <1>q, <2>1, <3>3, <3>4, <3>6 DEF ProcOK, Locals
    <3> QED
      BY <1>p, <2>1, <3>3, <3>7
  <2> QED
    BY <2>1, <2>3, <2>4
<1>5. ASSUME NEW p \in Procs, IterLook(p)
      PROVE  /\ Locals' /\ pinned' \subseteq Maps /\ stray' \subseteq Procs
             /\ ProcOK(p)'
  <2>1. /\ UNCHANGED <<pinned, req, stray, cur, steps, ok, fresh>> /\ pc[p] = "look"
        /\ \/ pc' = [pc EXCEPT ![p] = "next"] \/ pc' = [pc EXCEPT ![p] = "open"]
        /\ \/ keys' = keys
           \/ keys' = [keys EXCEPT ![p] = Append(keys[p], cur[p])]
    BY <1>5 DEF IterLook
  <2>2. /\ cur[p] \in Keys /\ Len(keys[p]) < steps[p] /\ keys[p] \in Seq(Keys)
        /\ steps[p] \in Nat /\ p \notin stray
    BY <1>m, <1>q, <2>1 DEF ProcOK
  <2>3. /\ Append(keys[p], cur[p]) \in Seq(Keys) /\ Len(keys[p]) \in Nat
        /\ Len(Append(keys[p], cur[p])) = Len(keys[p]) + 1
    BY <2>2, Collected
  <2>4. Locals'
    BY <1>p, <2>1, <2>3 DEF Locals, Locations
  <2>5. pc'[p] \in {"next", "open"}
    BY <1>p, <2>1 DEF Locals
  <2>6. Len(keys'[p]) <= steps'[p]
    <3>1. keys'[p] = keys[p] \/ keys'[p] = Append(keys[p], cur[p])
      BY <1>p, <2>1 DEF Locals
    <3> QED
      BY <2>1, <2>2, <2>3, <3>1
  <2>7. ProcOK(p)'
    BY <1>q, <2>1, <2>2, <2>4, <2>5, <2>6 DEF ProcOK, Locals
  <2> QED
    BY <1>p, <2>1, <2>4, <2>7
<1>6. ASSUME NEW p \in Procs, BatchDelete(p)
      PROVE  /\ Locals' /\ pinned' \subseteq Maps /\ stray' \subseteq Procs
             /\ ProcOK(p)'
  <2>1. /\ UNCHANGED <<pinned, req, stray, cur, steps, fresh>> /\ pc[p] = "batch"
        /\ \/ /\ pc' = [pc EXCEPT ![p] = "exit"] /\ keys' = keys
              /\ \E r \in BOOLEAN : ok' = [ok EXCEPT ![p] = r]
           \/ /\ UNCHANGED <<pc, ok>> /\ keys[p] # <<>>
              /\ keys' = [keys EXCEPT ![p] = Tail(keys[p])]
    BY <1>6 DEF BatchDelete
  <2>2. /\ keys[p] \in Seq(Keys) /\ Len(keys[p]) <= steps[p] /\ p \notin stray
        /\ steps[p] \in Nat
    BY <1>m, <1>q, <2>1 DEF ProcOK
  <2>3. /\ Len(keys[p]) \in Nat
        /\ keys[p] # <<>> =>
             Tail(keys[p]) \in Seq(Keys) /\ Len(Tail(keys[p])) = Len(keys[p]) - 1
    BY <2>2, Collected
  <2>4. Locals'
    BY <1>p, <2>1, <2>3 DEF Locals, Locations
  <2>5. pc'[p] \in {"batch", "exit"}
    BY <1>p, <2>1 DEF Locals
  <2>6. Len(keys'[p]) <= steps'[p]
    <3>1. keys'[p] = keys[p] \/ (keys[p] # <<>> /\ keys'[p] = Tail(keys[p]))
      BY <1>p, <2>1 DEF Locals
    <3>2. \A a, b, c \in Nat : a <= b /\ (c = a \/ c = a - 1) => c <= b
      OBVIOUS
    <3>3. Len(keys'[p]) = Len(keys[p]) \/ Len(keys'[p]) = Len(keys[p]) - 1
      BY <2>3, <3>1
    <3>4. Len(keys'[p]) \in Nat
      BY <2>4, LenProperties DEF Locals
    <3>5. Len(keys'[p]) <= steps[p]
      BY <2>2, <2>3, <3>2, <3>3, <3>4
    <3> QED
      BY <2>1, <3>5
  <2>7. ProcOK(p)'
    BY <1>q, <2>1, <2>2, <2>4, <2>5, <2>6 DEF ProcOK, Locals
  <2> QED
    BY <1>p, <2>1, <2>4, <2>7
<1>7. ASSUME NEW p \in Procs, Exit(p)
      PROVE  /\ Locals' /\ pinned' \subseteq Maps /\ stray' \subseteq Procs
             /\ ProcOK(p)'
  <2>1. <<>> \in Seq(Keys) /\ Len(<<>>) = 0 /\ NoReq \in [cmd : Commands, map : Maps]
    BY <1>m DEF NoReq, Commands
  <2>2. Locals' /\ pinned' \subseteq Maps /\ stray' \subseteq Procs
    BY <1>m, <1>p, <1>7, <2>1 DEF Exit, Locals, Locations
  <2>3. /\ pc'[p] = "idle" /\ p \notin stray' /\ cur'[p] = None /\ keys'[p] = <<>>
        /\ steps'[p] = 0
    BY <1>p, <1>7 DEF Exit, Locals
  <2>4. ProcOK(p)'
    BY <2>1, <2>2, <2>3 DEF ProcOK, Locals
  <2> QED
    BY <2>2, <2>4
<1>8. ASSUME NEW p \in Procs,
             Step(p) \/ \E cmd \in Commands, m \in Maps : Call(p, cmd, m)
      PROVE  /\ Locals' /\ pinned' \subseteq Maps /\ stray' \subseteq Procs
             /\ \A q \in Procs : ProcOK(q)'
  <2>1. Locals' /\ pinned' \subseteq Maps /\ stray' \subseteq Procs /\ ProcOK(p)'
    BY <1>1, <1>2, <1>3, <1>4, <1>5, <1>6, <1>7, <1>8 DEF Step
  <2>2. \A q \in Procs : q # p => ProcOK(q)'
    BY <1>8, <1>q, OthersLocals DEF ProcOK, Types
  <2> QED
    BY <2>1, <2>2
<1>9. ASSUME \/ \E m \in Maps : LoaderPins(m) \/ \E k \in KeysOf(m) : Put(m, k)
             \/ \E k \in KeysOf(Lxc) : DelKey(k)
             \/ UNCHANGED vars
      PROVE  /\ Locals' /\ pinned' \subseteq Maps /\ stray' \subseteq Procs
             /\ \A q \in Procs : ProcOK(q)'
  <2>1. UNCHANGED <<pc, req, stray, cur, steps, keys, ok>> /\ pinned' \subseteq Maps
    BY <1>p, <1>9 DEF LoaderPins, Put, DelKey, vars
  <2>2. fresh' \in [Procs -> SUBSET Keys]
    <3>1. CASE fresh' = fresh
      BY <1>p, <3>1 DEF Locals
    <3>2. CASE \E m \in Maps : \E k \in KeysOf(m) : Put(m, k)
      <4>1. PICK m \in Maps : \E k \in KeysOf(m) : Put(m, k)
        BY <3>2
      <4>2. PICK k \in KeysOf(m) : Put(m, k)
        BY <4>1
      <4>3. k \in Keys
        BY DEF Keys
      <4> QED
        BY <1>p, <4>2, <4>3 DEF Put, Locals
    <3> QED
      BY <1>9, <3>1, <3>2 DEF LoaderPins, DelKey, vars
  <2>3. Locals'
    BY <1>p, <2>1, <2>2 DEF Locals
  <2>4. \A q \in Procs : ProcOK(q)'
    BY <1>q, <2>1, <2>3 DEF ProcOK, Locals
  <2> QED
    BY <1>p, <2>1, <2>3, <2>4
<1> QED
  BY <1>8, <1>9 DEF Next

-----------------------------------------------------------------------------
(* The Reset of lxc_map *)

\* What was in the map when a Reset of it began and is still there was there
\* before the step, and if the iterator was to come to it, it still is.
LEMMA LeftKept ==
  ASSUME Types, [Next]_vars, NEW p \in Procs, ~ At(p, "idle"),
         req[p].cmd = "Reset", Map(p) = Lxc, fresh'[p] = fresh[p] \/ \E m \in Maps :
                                               \E k \in KeysOf(m) : Put(m, k)
  PROVE  \A x \in ToSet(order'[Lxc]) : x \notin fresh'[p] =>
           /\ x \in ToSet(order[Lxc]) /\ x \notin fresh[p]
           /\ \A last : Ahead(order[Lxc], last, x) => Ahead(order'[Lxc], last, x)
<1>1. /\ Lxc \in Maps /\ Order(order[Lxc]) /\ order \in [Maps -> Seq(Keys)]
      /\ fresh \in [Procs -> SUBSET Keys]
  BY MapsAssumption DEF Types, MapsInv, TypeOK
<1>2. CASE \E m \in Maps : \E k \in KeysOf(m) : Put(m, k)
  <2>1. PICK m \in Maps : \E k \in KeysOf(m) : Put(m, k)
    BY <1>2
  <2>2. PICK k \in KeysOf(m) : Put(m, k)
    BY <2>1
  <2>3. k \in Keys
    BY DEF Keys
  <2>4. /\ order' = [order EXCEPT ![m] = WithNew(order[m], k)]
        /\ fresh'[p] = IF m = Lxc THEN fresh[p] \cup {k} ELSE fresh[p]
    BY <2>2 DEF Put
  <2>5. CASE m = Lxc
    <3>1. /\ order'[Lxc] = WithNew(order[Lxc], k)
          /\ ToSet(WithNew(order[Lxc], k)) = ToSet(order[Lxc]) \cup {k}
      BY <1>1, <2>3, <2>4, <2>5, Added
    <3>2. ASSUME NEW x \in ToSet(order'[Lxc]), x \notin fresh'[p]
          PROVE  x # k /\ x \in ToSet(order[Lxc]) /\ x \notin fresh[p]
      BY <2>4, <2>5, <3>1, <3>2
    <3> QED
      BY <1>1, <2>3, <3>1, <3>2, AheadAdded
  <2>6. CASE m # Lxc
    BY <1>1, <2>4, <2>6
  <2> QED
    BY <2>5, <2>6
<1>3. ASSUME NEW k, order' = [order EXCEPT ![Lxc] = Without(@, k)],
             fresh'[p] = fresh[p]
      PROVE  \A x \in ToSet(order'[Lxc]) : x \notin fresh'[p] =>
               /\ x \in ToSet(order[Lxc]) /\ x \notin fresh[p]
               /\ \A last : Ahead(order[Lxc], last, x) =>
                              Ahead(order'[Lxc], last, x)
  <2>1. /\ order'[Lxc] = Without(order[Lxc], k)
        /\ ToSet(Without(order[Lxc], k)) = ToSet(order[Lxc]) \ {k}
    BY <1>1, <1>3, Deleted
  <2> QED
    BY <1>1, <1>3, <2>1, AheadDeleted
<1> QED
  BY <1>2, <1>3, MapsStep

\* A key to be collected yet, or collected.
Due(p, x) ==
  x \in ToSet(keys[p]) \/ Ahead(order[Lxc], cur[p], x) \/ (At(p, "look") /\ x = cur[p])

\* What ResetInv says of one process.
ResetOK(p) ==
  req[p].cmd = "Reset" /\ Map(p) = Lxc =>
    /\ pc[p] \in {"next", "look"} =>
         \A x \in ToSet(order[Lxc]) : x \notin fresh[p] => Due(p, x)
    /\ pc[p] \in {"open", "batch"} /\ steps[p] <= MaxEntries =>
         \A x \in ToSet(order[Lxc]) : x \notin fresh[p] => x \in ToSet(keys[p])
    /\ At(p, "exit") /\ ok[p] /\ steps[p] <= MaxEntries =>
         \A x \in ToSet(order[Lxc]) : x \in fresh[p]

AllResetOK == \A p \in Procs : ResetOK(p)

\* The invariant, process by process ...
LEMMA ResetByProc == ResetInv <=> AllResetOK
BY DEF ResetInv, AllResetOK, ResetOK, Due, Left

\* ... and after a step.
LEMMA ResetByProcAfter == ResetInv' <=> AllResetOK'
<1>1. ResetInv <=> AllResetOK
  BY ResetByProc
<1> QED
  BY <1>1, PTL

\* A step that leaves a process where it is leaves its Reset on its way.
LEMMA ResetOthers ==
  ASSUME Types, [Next]_vars, NEW p \in Procs, ResetOK(p), pc'[p] = pc[p],
         req'[p] = req[p], cur'[p] = cur[p], steps'[p] = steps[p], keys'[p] = keys[p],
         ok'[p] = ok[p],
         fresh'[p] = fresh[p] \/ \E m \in Maps : \E k \in KeysOf(m) : Put(m, k)
  PROVE  ResetOK(p)'
<1>1. SUFFICES ASSUME ~ At(p, "idle"), req[p].cmd = "Reset", Map(p) = Lxc
               PROVE  ResetOK(p)'
  BY DEF ResetOK, At, Map
<1>2. \A x \in ToSet(order'[Lxc]) : x \notin fresh'[p] =>
        /\ x \in ToSet(order[Lxc]) /\ x \notin fresh[p]
        /\ \A last : Ahead(order[Lxc], last, x) => Ahead(order'[Lxc], last, x)
  BY <1>1, LeftKept
<1> QED
  BY <1>1, <1>2 DEF ResetOK, Due, At, Map

\* A Reset comes to every key, and its batch deletes what it collected.
LEMMA ResetStep ==
  ASSUME Types, ResetInv, [Next]_vars PROVE ResetInv'
<1>0. \A p \in Procs : ResetOK(p)
  BY ResetByProc DEF AllResetOK
<1>1. SUFFICES ASSUME NEW p \in Procs PROVE ResetOK(p)'
  BY ResetByProcAfter DEF AllResetOK
<1>p. Locals /\ ProcOK(p)
  BY ProcByProc DEF AllOK
<1>m. Lxc \in Maps /\ Order(order[Lxc]) /\ order \in [Maps -> Seq(Keys)]
  BY MapsAssumption DEF Types, MapsInv
<1>2. ASSUME NEW q \in Procs, q # p,
             Step(q) \/ \E cmd \in Commands, m \in Maps : Call(q, cmd, m)
      PROVE  ResetOK(p)'
  <2>1. /\ pc'[p] = pc[p] /\ req'[p] = req[p] /\ cur'[p] = cur[p]
        /\ steps'[p] = steps[p] /\ keys'[p] = keys[p] /\ ok'[p] = ok[p]
        /\ fresh'[p] = fresh[p]
    BY <1>2, OthersLocals DEF Types
  <2> QED
    BY <1>0, <2>1, ResetOthers
<1>3. ASSUME \/ \E m \in Maps : LoaderPins(m) \/ \E k \in KeysOf(m) : Put(m, k)
             \/ \E k \in KeysOf(Lxc) : DelKey(k)
             \/ UNCHANGED vars
      PROVE  ResetOK(p)'
  <2>1. /\ UNCHANGED <<pc, req, cur, steps, keys, ok>>
        /\ fresh' = fresh \/ \E m \in Maps : \E k \in KeysOf(m) : Put(m, k)
    BY <1>3 DEF LoaderPins, Put, DelKey, iterator, vars
  <2> QED
    BY <1>0, <2>1, ResetOthers
<1> USE DEF Goto, At, Return, iterator, Map
<1>4. ASSUME NEW cmd \in Commands, NEW m \in Maps, Call(p, cmd, m)
      PROVE  ResetOK(p)'
  <2>1. pc'[p] \in {"Create", "Reset"}
    BY <1>p, <1>4 DEF Call, Locals, Commands
  <2> QED
    BY <2>1 DEF ResetOK
<1>5. ASSUME FindMap(p) \/ PinMap(p) PROVE ResetOK(p)'
  <2>1. req'[p].cmd = "Create"
    BY <1>p, <1>5 DEF FindMap, PinMap, ProcOK
  <2> QED
    BY <2>1 DEF ResetOK
<1>6. ASSUME Open(p) PROVE ResetOK(p)'
  <2>1. /\ UNCHANGED <<order, req, cur, steps, keys, fresh>> /\ cur[p] = None
        /\ \/ pc'[p] = "exit" /\ ~ ok'[p]
           \/ pc'[p] = "next"
    BY <1>p, <1>6 DEF Open, Locals, ProcOK
  <2>2. ~ Contains(order[Lxc], None)
    <3>1. ToSet(order[Lxc]) \subseteq Keys
      BY <1>m, Collected
    <3> QED
      BY <1>m, <3>1, Listed, MapsAssumption
  <2>3. \A x : Ahead(order'[Lxc], cur'[p], x)
    BY <2>1, <2>2 DEF Ahead
  <2> QED
    BY <2>1, <2>3 DEF ResetOK, Due
<1>7. ASSUME IterNext(p) PROVE ResetOK(p)'
  <2>1. /\ UNCHANGED <<order, req, keys, ok, fresh>> /\ pc[p] = "next"
        /\ \/ /\ UNCHANGED <<cur, steps>> /\ pc'[p] = "open"
              /\ steps[p] > MaxEntries \/ NextKey(order[Map(p)], cur[p]) = None
           \/ /\ pc'[p] = "look" /\ cur'[p] = NextKey(order[Map(p)], cur[p])
              /\ NextKey(order[Map(p)], cur[p]) # None
    BY <1>p, <1>7 DEF IterNext, Locals, Aborted
  <2>2. SUFFICES ASSUME req[p].cmd = "Reset", Map(p) = Lxc PROVE ResetOK(p)'
    BY <2>1 DEF ResetOK
  <2>3. \A x \in ToSet(order[Lxc]) : x \notin fresh[p] =>
          x \in ToSet(keys[p]) \/ Ahead(order[Lxc], cur[p], x)
    BY <1>0, <2>1, <2>2 DEF ResetOK, Due
  <2>4. cur[p] \in Keys \cup {None}
    BY <1>p DEF ProcOK
  <2>5. CASE NextKey(order[Lxc], cur[p]) = None
    <3>1. \A x \in ToSet(order[Lxc]) : ~ Ahead(order[Lxc], cur[p], x)
      BY <1>m, <2>4, <2>5, NextOfOrder
    <3> QED
      BY <2>1, <2>2, <2>3, <2>5, <3>1 DEF ResetOK
  <2>6. CASE steps[p] > MaxEntries /\ pc'[p] = "open" /\ UNCHANGED steps
    <3>1. ~ (steps'[p] <= MaxEntries)
      BY <1>p, <2>6, MapsAssumption DEF ProcOK
    <3> QED
      BY <2>6, <3>1 DEF ResetOK
  <2>7. CASE /\ pc'[p] = "look" /\ cur'[p] = NextKey(order[Lxc], cur[p])
             /\ NextKey(order[Lxc], cur[p]) # None
    <3>1. \A x \in ToSet(order[Lxc]) : Ahead(order[Lxc], cur[p], x) =>
            x = cur'[p] \/ Ahead(order[Lxc], cur'[p], x)
      BY <1>m, <2>4, <2>7, NextOfOrder
    <3> QED
      BY <2>1, <2>2, <2>3, <2>7, <3>1 DEF ResetOK, Due
  <2> QED
    BY <2>1, <2>2, <2>5, <2>6, <2>7
<1>8. ASSUME IterLook(p) PROVE ResetOK(p)'
  <2>1. /\ UNCHANGED <<order, req, cur, steps, fresh, ok>> /\ pc[p] = "look"
        /\ \/ ~ Has(Map(p), cur[p]) /\ keys' = keys /\ pc'[p] = "next"
           \/ pc'[p] = "next" /\ keys'[p] = Append(keys[p], cur[p])
           \/ Map(p) # Lxc
    BY <1>p, <1>8 DEF IterLook, Locals, ValueFits
  <2>2. SUFFICES ASSUME req[p].cmd = "Reset", Map(p) = Lxc PROVE ResetOK(p)'
    BY <2>1 DEF ResetOK
  <2>3. \A x \in ToSet(order[Lxc]) : x \notin fresh[p] =>
          x \in ToSet(keys[p]) \/ Ahead(order[Lxc], cur[p], x) \/ x = cur[p]
    BY <1>0, <2>1, <2>2 DEF ResetOK, Due
  <2>4. CASE ~ Has(Lxc, cur[p]) /\ keys' = keys /\ pc'[p] = "next"
    <3>1. cur[p] \notin ToSet(order[Lxc])
      BY <1>m, <2>4, Listed DEF Has
    <3> QED
      BY <2>1, <2>2, <2>3, <2>4, <3>1 DEF ResetOK, Due
  <2>5. CASE pc'[p] = "next" /\ keys'[p] = Append(keys[p], cur[p])
    <3>1. ToSet(keys'[p]) = ToSet(keys[p]) \cup {cur[p]}
      BY <1>p, <2>1, <2>5, Collected DEF ProcOK
    <3> QED
      BY <2>1, <2>2, <2>3, <2>5, <3>1 DEF ResetOK, Due
  <2> QED
    BY <2>1, <2>2, <2>4, <2>5
<1>9. ASSUME OpenLxc(p) PROVE ResetOK(p)'
  <2>1. /\ UNCHANGED <<order, req, cur, steps, keys, fresh>> /\ pc[p] = "open"
        /\ \/ pc'[p] = "exit" /\ ~ ok'[p]
           \/ pc'[p] = "batch"
    BY <1>p, <1>9 DEF OpenLxc, Locals
  <2> QED
    BY <1>0, <2>1 DEF ResetOK
<1>10. ASSUME BatchDelete(p) PROVE ResetOK(p)'
  <2>1. /\ UNCHANGED <<req, cur, steps, fresh>> /\ pc[p] = "batch"
        /\ \/ keys[p] = <<>> /\ pc'[p] = "exit" /\ order' = order
           \/ pc'[p] = "exit" /\ ~ ok'[p]
           \/ /\ keys[p] # <<>> /\ pc'[p] = "batch" /\ keys'[p] = Tail(keys[p])
              /\ order' = [order EXCEPT ![Lxc] = Without(@, Head(keys[p]))]
    BY <1>p, <1>10 DEF BatchDelete, Locals
  <2>2. SUFFICES ASSUME req[p].cmd = "Reset", Map(p) = Lxc, steps[p] <= MaxEntries
                 PROVE  ResetOK(p)'
    BY <2>1 DEF ResetOK
  <2>3. \A x \in ToSet(order[Lxc]) : x \notin fresh[p] => x \in ToSet(keys[p])
    BY <1>0, <2>1, <2>2 DEF ResetOK
  <2>4. CASE keys[p] = <<>> /\ pc'[p] = "exit" /\ order' = order
    <3>1. ToSet(keys[p]) = {}
      BY <1>p, <2>4, Collected DEF ProcOK
    <3> QED
      BY <2>1, <2>3, <2>4, <3>1 DEF ResetOK
  <2>5. CASE pc'[p] = "exit" /\ ~ ok'[p]
    BY <2>5 DEF ResetOK
  <2>6. CASE /\ keys[p] # <<>> /\ pc'[p] = "batch" /\ keys'[p] = Tail(keys[p])
             /\ order' = [order EXCEPT ![Lxc] = Without(@, Head(keys[p]))]
    <3>1. ToSet(keys[p]) = ToSet(keys'[p]) \cup {Head(keys[p])}
      BY <1>p, <2>6, Collected DEF ProcOK
    <3>2. ToSet(order'[Lxc]) = ToSet(order[Lxc]) \ {Head(keys[p])}
      BY <1>m, <2>6, Deleted
    <3> QED
      BY <2>1, <2>3, <2>6, <3>1, <3>2 DEF ResetOK
  <2> QED
    BY <2>1, <2>4, <2>5, <2>6
<1>11. ASSUME Exit(p) PROVE ResetOK(p)'
  <2>1. pc'[p] = "idle"
    BY <1>p, <1>11 DEF Exit, Locals
  <2> QED
    BY <2>1 DEF ResetOK
<1> QED
  BY <1>2, <1>3, <1>4, <1>5, <1>6, <1>7, <1>8, <1>9, <1>10, <1>11 DEF Next, Step

-----------------------------------------------------------------------------
(* The theorems *)

\* Nothing is pinned, no map has a key and no process has a call.
LEMMA InitOK == Init => IInv
<1> SUFFICES ASSUME Init PROVE IInv
  OBVIOUS
<1>1. /\ <<>> \in Seq(Keys) /\ Len(<<>>) = 0 /\ NoReq \in [cmd : Commands, map : Maps]
      /\ MaxEntries \in Nat
  BY MapsAssumption DEF NoReq, Commands
<1>2. Order(<<>>)
  BY <1>1 DEF Order, IsInjective
<1>3. /\ Locals /\ pinned \subseteq Maps /\ stray \subseteq Procs
      /\ order \in [Maps -> Seq(Keys)]
      /\ \A m \in Maps : Order(order[m]) /\ Len(order[m]) <= MaxEntries
  BY <1>1, <1>2 DEF Init, Locals, Locations
<1>4. \A p \in Procs : ProcOK(p)
  BY <1>1, <1>3 DEF Init, ProcOK, Locals
<1>5. Types
  BY <1>3, <1>4, ProcByProc DEF AllOK
<1>6. ResetInv
  BY DEF Init, ResetInv, At
<1> QED
  BY <1>5, <1>6 DEF IInv, Types

\* The inductive invariant holds throughout, whoever creates, fills, empties
\* and resets whatever maps.
THEOREM Invariant == Spec => []IInv
<1>1. IInv /\ [Next]_vars => IInv'
  BY TypesStep, ResetStep DEF IInv, Types
<1> QED
  BY <1>1, InitOK, PTL DEF Spec

\* Every variable holds values of its type, no map has a key twice (the kernel
\* replaces an element by key) or more entries than it was made for.
THEOREM TypeCorrect == Spec => []TypeOK
BY Invariant, PTL DEF IInv

\* CreatePinMapOnce: a process whose call succeeded has the map at the path,
\* not one of its own that lost the race for it.
THEOREM SingleMaps == Spec => []OneMap
<1>1. IInv => OneMap
  BY DEF IInv, CallsInv, OneMap, Done, At
<1> QED
  BY <1>1, Invariant, PTL

\* ResetLxcMap: a Reset that reports success has left nothing that was in
\* lxc_map when it began, unless its iterator used up its steps.
THEOREM ResetsEmpty == Spec => []ResetEmpties
<1>1. IInv => ResetEmpties
  BY DEF IInv, ResetInv, ResetEmpties, Done, At
<1> QED
  BY <1>1, Invariant, PTL

=============================================================================
