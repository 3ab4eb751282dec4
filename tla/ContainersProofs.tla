-------------------------- MODULE ContainersProofs --------------------------
(***************************************************************************)
(* Facts about the updates of lists and dicts that the models use.         *)
(***************************************************************************)
EXTENDS Containers, FunctionTheorems, FiniteSetTheorems, SequenceTheorems, TLAPS

\* Positions of a sequence are ranked 1, 2, ..., each rank once.
LEMMA RankBijection ==
  ASSUME NEW n \in Nat, NEW I \in SUBSET (1..n)
  PROVE  /\ Cardinality(I) \in 0..n
         /\ \A i \in I : RankIn(I, i) \in 1..Cardinality(I)
         /\ \A i, j \in I : RankIn(I, i) = RankIn(I, j) => i = j
         /\ \A k \in 1..Cardinality(I) : \E i \in I : RankIn(I, i) = k
<1>. DEFINE Upto(i) == {j \in I : j <= i}
<1>1. IsFiniteSet(I) /\ Cardinality(I) \in 0..n
  <2>1. IsFiniteSet(1..n) /\ Cardinality(1..n) = n
    BY FS_Interval
  <2>2. IsFiniteSet(I) /\ Cardinality(I) <= n
    BY <2>1, FS_Subset
  <2>. QED
    BY <2>2, FS_CardinalityType
<1>2. \A i \in I : /\ IsFiniteSet(Upto(i)) /\ RankIn(I, i) = Cardinality(Upto(i))
                   /\ RankIn(I, i) \in 1..Cardinality(I)
  <2>. TAKE i \in I
  <2>1. IsFiniteSet(Upto(i)) /\ Cardinality(Upto(i)) <= Cardinality(I)
    BY <1>1, FS_Subset
  <2>2. Upto(i) # {} /\ Cardinality(Upto(i)) \in Nat /\ Cardinality(Upto(i)) # 0
    BY <2>1, FS_EmptySet, FS_CardinalityType
  <2>. QED
    BY <1>1, <2>1, <2>2 DEF RankIn
<1>3. \A i, j \in I : i < j => RankIn(I, i) # RankIn(I, j)
  <2>. SUFFICES ASSUME NEW i \in I, NEW j \in I, i < j, RankIn(I, i) = RankIn(I, j)
                PROVE  FALSE
    OBVIOUS
  <2>1. Upto(i) \subseteq Upto(j) /\ j \in Upto(j) /\ j \notin Upto(i)
    <3>1. \A k \in I : k \in Int
      OBVIOUS
    <3>2. \A k \in I : k <= i => k <= j
      BY <3>1
    <3>3. j <= j /\ ~(j <= i)
      BY <3>1
    <3>4. Upto(i) \subseteq Upto(j)
      BY <3>2
    <3>. QED
      BY <3>3, <3>4
  <2>. HIDE DEF Upto
  <2>. QED
    BY <1>2, <2>1, FS_Subset
<1>4. \A i, j \in I : RankIn(I, i) = RankIn(I, j) => i = j
  BY <1>3
<1>. DEFINE rank == [i \in I |-> RankIn(I, i)]
<1>5. rank \in Injection(I, 1..Cardinality(I))
  <2>1. rank \in [I -> 1..Cardinality(I)]
    BY <1>2
  <2>2. \A i, j \in I : rank[i] = rank[j] => i = j
    BY <1>4
  <2>. HIDE DEF rank
  <2>. QED
    BY <2>1, <2>2, Fun_IsInj
<1>6. IsFiniteSet(1..Cardinality(I)) /\ Cardinality(1..Cardinality(I)) = Cardinality(I)
  BY <1>1, FS_Interval
<1>7. rank \in Surjection(I, 1..Cardinality(I))
  <2>. HIDE DEF rank
  <2>. QED
    BY <1>5, <1>6, FS_Injection
<1>8. \A k \in 1..Cardinality(I) : \E i \in I : rank[i] = k
  BY <1>7 DEF Surjection
<1>. QED
  BY <1>1, <1>2, <1>4, <1>8

\* Keep removes the elements of S and nothing else, and repeats nothing.
LEMMA ListKeep ==
  ASSUME NEW T, NEW s \in Seq(T), NEW S
  PROVE  /\ Keep(s, S) \in Seq(T)
         /\ Len(Keep(s, S)) <= Len(s)
         /\ ToSet(Keep(s, S)) = ToSet(s) \ S
         /\ NoDuplicates(s) => NoDuplicates(Keep(s, S))
<1>. DEFINE I == KeptPositions(s, S)
            at(k) == CHOOSE i \in I : RankIn(I, i) = k
            n == Cardinality(I)
<1>1. I \in SUBSET (1..Len(s)) /\ Len(s) \in Nat
  BY DEF KeptPositions
<1>2. /\ n \in 0..Len(s)
      /\ \A i \in I : RankIn(I, i) \in 1..n
      /\ \A i, j \in I : RankIn(I, i) = RankIn(I, j) => i = j
      /\ \A k \in 1..n : \E i \in I : RankIn(I, i) = k
  <2>. HIDE DEF I
  <2>. QED
    BY <1>1, RankBijection
<1>3. \A k \in 1..n : at(k) \in I /\ RankIn(I, at(k)) = k
  <2>. HIDE DEF I
  <2>. QED
    BY <1>2
<1>4. Keep(s, S) = [k \in 1..n |-> s[at(k)]]
  BY DEF Keep
<1>5. \A i \in I : i \in 1..Len(s) /\ s[i] \notin S /\ s[i] \in T
  BY DEF KeptPositions
<1>6. \A i \in 1..Len(s) : s[i] \notin S => i \in I
  BY DEF KeptPositions
<1>. HIDE DEF I, n, at
<1>7. Keep(s, S) \in Seq(T) /\ Len(Keep(s, S)) = n
  BY <1>2, <1>3, <1>4, <1>5
<1>8. \A k \in 1..n : Keep(s, S)[k] = s[at(k)]
  BY <1>4
<1>9. ToSet(Keep(s, S)) = ToSet(s) \ S
  <2>1. ASSUME NEW x \in ToSet(Keep(s, S)) PROVE x \in ToSet(s) \ S
    BY <1>2, <1>3, <1>5, <1>7, <1>8 DEF ToSet
  <2>2. ASSUME NEW x \in ToSet(s) \ S PROVE x \in ToSet(Keep(s, S))
    <3>1. PICK i \in 1..Len(s) : s[i] = x
      BY DEF ToSet
    <3>2. i \in I
      BY <1>6, <3>1
    <3>3. RankIn(I, i) \in 1..n /\ at(RankIn(I, i)) = i
      BY <1>2, <1>3, <3>2
    <3>. QED
      BY <1>7, <1>8, <3>1, <3>3 DEF ToSet
  <2>. QED
    BY <2>1, <2>2
<1>10. ASSUME NoDuplicates(s) PROVE NoDuplicates(Keep(s, S))
  <2>1. \A k, m \in 1..n : s[at(k)] = s[at(m)] => at(k) = at(m)
    BY <1>3, <1>5, <1>10 DEF NoDuplicates
  <2>2. \A k, m \in 1..n : at(k) = at(m) => k = m
    BY <1>3
  <2>. QED
    BY <1>7, <1>8, <2>1, <2>2 DEF NoDuplicates
<1>. QED
  BY <1>2, <1>7, <1>9, <1>10

\* Appending an element.
LEMMA ListAppend ==
  ASSUME NEW T, NEW s \in Seq(T), NEW x \in T
  PROVE  /\ Append(s, x) \in Seq(T)
         /\ ToSet(Append(s, x)) = ToSet(s) \cup {x}
         /\ NoDuplicates(s) /\ x \notin ToSet(s) => NoDuplicates(Append(s, x))
<1>. DEFINE a == Append(s, x)  n == Len(s)
<1>1. /\ a \in Seq(T) /\ Len(a) = n + 1 /\ n \in Nat
      /\ a[n + 1] = x
      /\ \A i \in 1..n : a[i] = s[i]
  OBVIOUS
<1>. HIDE DEF a, n
<1>2. ToSet(a) = ToSet(s) \cup {x}
  BY <1>1 DEF a, n, ToSet
<1>3. ASSUME NoDuplicates(s), x \notin ToSet(s) PROVE NoDuplicates(a)
  BY <1>1, <1>3 DEF a, n, ToSet, NoDuplicates
<1>. QED
  BY <1>1, <1>2, <1>3, Zenon DEF a

\* Concatenation.
LEMMA ListConcat ==
  ASSUME NEW T, NEW s \in Seq(T), NEW t \in Seq(T)
  PROVE  /\ s \o t \in Seq(T)
         /\ Len(s \o t) = Len(s) + Len(t)
         /\ \A i \in 1..Len(s) : (s \o t)[i] = s[i]
         /\ \A i \in 1..Len(t) : (s \o t)[Len(s) + i] = t[i]
         /\ ToSet(s \o t) = ToSet(s) \cup ToSet(t)
         /\ NoDuplicates(s) /\ NoDuplicates(t) /\ ToSet(s) \cap ToSet(t) = {}
              => NoDuplicates(s \o t)
<1>. DEFINE c == s \o t  m == Len(s)  n == Len(t)
<1>1. /\ c \in Seq(T) /\ m \in Nat /\ n \in Nat /\ Len(c) = m + n
      /\ \A i \in 1..m : c[i] = s[i]
      /\ \A i \in 1..n : c[m + i] = t[i]
      /\ \A i \in m+1..m+n : c[i] = t[i - m]
  OBVIOUS
<1>. HIDE DEF c, m, n
<1>2. \A i \in 1..m+n : i \in 1..m \/ (i \in m+1..m+n /\ i - m \in 1..n)
  BY <1>1
<1>3. ToSet(c) = ToSet(s) \cup ToSet(t)
  <2>1. ASSUME NEW x \in ToSet(c) PROVE x \in ToSet(s) \cup ToSet(t)
    <3>1. PICK i \in 1..m+n : c[i] = x
      BY <1>1 DEF ToSet
    <3>2. CASE i \in 1..m
      BY <1>1, <3>1, <3>2 DEF m, ToSet
    <3>3. CASE i \in m+1..m+n
      BY <1>1, <1>2, <3>1, <3>3 DEF n, ToSet
    <3>. QED
      BY <1>2, <3>2, <3>3
  <2>2. ASSUME NEW x \in ToSet(s) PROVE x \in ToSet(c)
    BY <1>1 DEF m, ToSet
  <2>3. ASSUME NEW x \in ToSet(t) PROVE x \in ToSet(c)
    <3>1. PICK i \in 1..n : t[i] = x
      BY DEF n, ToSet
    <3>2. c[m + i] = x /\ m + i \in 1..Len(c)
      BY <1>1, <3>1
    <3>. QED
      BY <3>2 DEF ToSet
  <2>. QED
    BY <2>1, <2>2, <2>3
<1>4. ASSUME NoDuplicates(s), NoDuplicates(t), ToSet(s) \cap ToSet(t) = {}
      PROVE  NoDuplicates(c)
  <2>1. \A i \in 1..m : c[i] \in ToSet(s)
    BY <1>1 DEF m, ToSet
  <2>2. \A i \in m+1..m+n : c[i] \in ToSet(t)
    <3>1. \A i \in 1..n : t[i] \in ToSet(t)
      BY DEF n, ToSet
    <3>2. \A i \in m+1..m+n : i - m \in 1..n
      BY <1>1
    <3>. QED
      BY <1>1, <3>1, <3>2
  <2>. SUFFICES ASSUME NEW i \in 1..m+n, NEW j \in 1..m+n, c[i] = c[j]
                PROVE  i = j
    BY <1>1 DEF NoDuplicates
  <2>3. CASE i \in 1..m /\ j \in 1..m
    BY <1>1, <1>4, <2>3 DEF m, NoDuplicates
  <2>4. CASE i \in m+1..m+n /\ j \in m+1..m+n
    <3>1. t[i - m] = t[j - m] /\ i - m \in 1..n /\ j - m \in 1..n
      BY <1>1, <2>4
    <3>2. i - m = j - m
      BY <1>4, <3>1 DEF n, NoDuplicates
    <3>. QED
      BY <1>1, <3>2
  <2>5. CASE i \in 1..m /\ j \in m+1..m+n
    <3>1. c[i] \in ToSet(s) /\ c[j] \in ToSet(t)
      BY <2>1, <2>2, <2>5
    <3>. QED
      BY <1>4, <3>1
  <2>6. CASE i \in m+1..m+n /\ j \in 1..m
    <3>1. c[j] \in ToSet(s) /\ c[i] \in ToSet(t)
      BY <2>1, <2>2, <2>6
    <3>. QED
      BY <1>4, <3>1
  <2>. QED
    BY <1>2, <2>3, <2>4, <2>5, <2>6
<1>. QED
  BY <1>1, <1>3, <1>4, Zenon DEF c, m, n

\* Taking the first n elements off a queue.
LEMMA ListSplit ==
  ASSUME NEW T, NEW s \in Seq(T), NEW n \in 0..Len(s)
  PROVE  /\ SubSeq(s, 1, n) \in Seq(T) /\ SubSeq(s, n + 1, Len(s)) \in Seq(T)
         /\ Len(SubSeq(s, 1, n)) = n
         /\ \A i \in 1..n : SubSeq(s, 1, n)[i] = s[i]
         /\ ToSet(s) = ToSet(SubSeq(s, 1, n)) \cup ToSet(SubSeq(s, n + 1, Len(s)))
         /\ NoDuplicates(s) =>
              /\ NoDuplicates(SubSeq(s, 1, n)) /\ NoDuplicates(SubSeq(s, n + 1, Len(s)))
              /\ ToSet(SubSeq(s, 1, n)) \cap ToSet(SubSeq(s, n + 1, Len(s))) = {}
<1>. DEFINE a == SubSeq(s, 1, n)  b == SubSeq(s, n + 1, Len(s))  m == Len(s)
<1>1. m \in Nat /\ n \in 0..m /\ \A i \in 1..m : s[i] \in T
  OBVIOUS
<1>2. a \in Seq(T) /\ Len(a) = n /\ \A i \in 1..n : a[i] = s[i]
  <2>1. \A i \in 1..n : s[i] \in T
    BY <1>1
  <2>. QED
    BY <1>1, <2>1, SubSeqProperties
<1>3. b \in Seq(T) /\ Len(b) = m - n /\ \A i \in 1..m-n : b[i] = s[n + i]
  <2>1. \A i \in n+1..m : s[i] \in T
    BY <1>1
  <2>. QED
    BY <1>1, <2>1, SubSeqProperties
<1>. HIDE DEF a, b, m
<1>4. \A i \in 1..m : i \in 1..n \/ (i - n \in 1..m-n /\ n + (i - n) = i)
  BY <1>1
<1>5. \A i \in 1..m-n : n + i \in 1..m /\ n + i \notin 1..n
  BY <1>1
<1>6. ToSet(s) = ToSet(a) \cup ToSet(b)
  <2>1. ASSUME NEW i \in 1..m PROVE s[i] \in ToSet(a) \cup ToSet(b)
    <3>1. CASE i \in 1..n
      BY <1>2, <3>1 DEF ToSet
    <3>2. CASE i - n \in 1..m-n /\ n + (i - n) = i
      <4>1. b[i - n] = s[i]
        BY <1>3, <3>2
      <4>2. i - n \in DOMAIN b
        BY <1>1, <1>3, <3>2
      <4>. QED
        BY <4>1, <4>2, Zenon DEF ToSet
    <3>. QED
      BY <1>4, <3>1, <3>2
  <2>2. ASSUME NEW i \in 1..n PROVE a[i] \in ToSet(s)
    BY <1>1, <1>2 DEF m, ToSet
  <2>3. ASSUME NEW i \in 1..m-n PROVE b[i] \in ToSet(s)
    BY <1>3, <1>5 DEF m, ToSet
  <2>4. /\ ToSet(s) = {s[i] : i \in 1..m}
        /\ ToSet(a) = {a[i] : i \in 1..n}
        /\ ToSet(b) = {b[i] : i \in 1..m-n}
    <3>1. DOMAIN s = 1..m /\ DOMAIN a = 1..n /\ DOMAIN b = 1..m-n
      BY <1>1, <1>2, <1>3 DEF m
    <3>. QED
      BY <3>1, Zenon DEF ToSet
  <2>. QED
    BY <2>1, <2>2, <2>3, <2>4
<1>7. ASSUME NoDuplicates(s)
      PROVE  NoDuplicates(a) /\ NoDuplicates(b) /\ ToSet(a) \cap ToSet(b) = {}
  <2>1. NoDuplicates(a)
    BY <1>1, <1>2, <1>7 DEF m, NoDuplicates
  <2>2. ASSUME NEW i \in 1..m-n, NEW j \in 1..m-n, b[i] = b[j] PROVE i = j
    <3>1. n + i = n + j
      BY <1>3, <1>5, <1>7, <2>2 DEF m, NoDuplicates
    <3>. QED
      BY <1>1, <3>1
  <2>3. ASSUME NEW i \in 1..n, NEW j \in 1..m-n, a[i] = b[j] PROVE FALSE
    BY <1>1, <1>2, <1>3, <1>5, <1>7, <2>3 DEF m, NoDuplicates
  <2>. QED
    BY <1>2, <1>3, <2>1, <2>2, <2>3 DEF ToSet, NoDuplicates
<1>. QED
  BY <1>2, <1>3, <1>6, <1>7 DEF a, b, m

\* Listing a finite set in some order: every element once.
LEMMA ListOfSet ==
  ASSUME NEW S, IsFiniteSet(S)
  PROVE  /\ SetToSeq(S) \in Seq(S) /\ Len(SetToSeq(S)) = Cardinality(S)
         /\ ToSet(SetToSeq(S)) = S /\ NoDuplicates(SetToSeq(S))
<1>. DEFINE n == Cardinality(S)
            f == SetToSeq(S)
<1>1. n \in Nat /\ \E g : g \in Bijection(1..n, S)
  BY FS_CardinalityType DEF ExistsBijection
<1>2. \E g \in [1..n -> S] : IsInjective(g)
  BY <1>1 DEF Bijection, Injection
<1>3. f \in [1..n -> S] /\ IsInjective(f)
  BY <1>2 DEF SetToSeq
<1>4. IsFiniteSet(1..n) /\ Cardinality(1..n) = n
  BY <1>1, FS_Interval
<1>5. f \in Surjection(1..n, S)
  <2>1. f \in Injection(1..n, S)
    BY <1>3 DEF Injection
  <2>. HIDE DEF f
  <2>. QED
    BY <1>4, <2>1, FS_Injection DEF n
<1>. HIDE DEF f, n
<1>6. f \in Seq(S) /\ Len(f) = n /\ DOMAIN f = 1..n
  BY <1>1, <1>3
<1>7. ToSet(f) = S
  BY <1>3, <1>5, <1>6 DEF ToSet, Surjection
<1>. QED
  BY <1>3, <1>6, <1>7 DEF f, n, NoDuplicates, IsInjective

\* What a list holds is in the set it is a list of.
LEMMA ListElement ==
  ASSUME NEW T, NEW s \in Seq(T)
  PROVE  Len(s) \in Nat /\ DOMAIN s = 1..Len(s) /\ \A k \in 1..Len(s) : s[k] \in T
  OBVIOUS

\* The first element of a sequence, and the others one place further on.
LEMMA ListHeadTail ==
  ASSUME NEW T, NEW s \in Seq(T), s # <<>>
  PROVE  /\ Len(s) \in Nat \ {0} /\ Head(s) = s[1] /\ Head(s) \in T
         /\ Tail(s) \in Seq(T) /\ Len(Tail(s)) = Len(s) - 1
         /\ \A k \in 1..Len(Tail(s)) : k + 1 \in 1..Len(s) /\ Tail(s)[k] = s[k + 1]
  OBVIOUS

\* The least of some natural numbers is one of them.
LEMMA LeastIsIn ==
  ASSUME NEW S \in SUBSET Nat, S # {}
  PROVE  Min(S) \in S /\ \A x \in S : Min(S) <= x
<1>1. \E x \in S : \A y \in S : <<y, x>> \notin OpToRel(<, Nat)
  BY WFMin, NatLessThanWellFounded
<1>2. \A x, y \in S : <<y, x>> \notin OpToRel(<, Nat) => x <= y
  BY DEF OpToRel
<1>3. \E x \in S : \A y \in S : x <= y
  BY <1>1, <1>2
<1>. QED
  BY <1>3 DEF Min

\* Assigning to keys of a dict, and removing keys from it.
LEMMA DictPut ==
  ASSUME NEW d, NEW K, NEW v
  PROVE  /\ DOMAIN Put(d, K, v) = K \cup DOMAIN d
         /\ \A k \in K : Put(d, K, v)[k] = v
         /\ \A k \in DOMAIN d \ K : Put(d, K, v)[k] = d[k]
         /\ Put(d, K, v) = [k \in DOMAIN Put(d, K, v) |-> Put(d, K, v)[k]]
  BY DEF Put

LEMMA DictRestrict ==
  ASSUME NEW d, NEW K \in SUBSET DOMAIN d
  PROVE  /\ DOMAIN Restrict(d, K) = K
         /\ \A k \in K : Restrict(d, K)[k] = d[k]
         /\ Restrict(d, K) = [k \in DOMAIN Restrict(d, K) |-> Restrict(d, K)[k]]
  BY DEF Restrict

\* The positions of a sequence of length n are n.
LEMMA IntervalSize ==
  ASSUME NEW n \in Nat
  PROVE  IsFiniteSet(1..n) /\ Cardinality(1..n) = n
<1>1. /\ IsFiniteSet(1..n)
      /\ Cardinality(1..n) = IF 1 > n THEN 0 ELSE n - 1 + 1
  BY FS_Interval
<1>. QED
  BY <1>1

\* A sequence has at most as many elements as it is long.
LEMMA ListSetSize ==
  ASSUME NEW T, NEW s \in Seq(T)
  PROVE  IsFiniteSet(ToSet(s)) /\ Cardinality(ToSet(s)) <= Len(s)
<1>1. Len(s) \in Nat /\ DOMAIN s = 1..Len(s)
  BY ListElement
<1> DEFINE I == 1..Len(s)
           E == ToSet(s)
           f == [i \in I |-> s[i]]
<1>2. IsFiniteSet(I) /\ Cardinality(I) = Len(s)
  BY <1>1, IntervalSize
<1>3. E = {s[i] : i \in I}
  BY <1>1, Zenon DEF ToSet
<1>4. f \in Surjection(I, E)
  <2> HIDE DEF I, E
  <2>1. f \in [I -> E]
    BY <1>3
  <2>2. \A x \in E : \E i \in I : f[i] = x
    BY <1>3
  <2>. QED
    BY <2>1, <2>2, Zenon DEF Surjection
<1>5. IsFiniteSet(E) /\ Cardinality(E) <= Cardinality(I)
  <2> HIDE DEF I, E, f
  <2>. QED
    BY <1>2, <1>4, FS_Surjection
<1>. QED
  BY <1>2, <1>5

\* One more element of a sequence makes what is kept of it longer by one at most.
LEMMA ListKeepPrefix ==
  ASSUME NEW T, NEW s \in Seq(T), NEW S, NEW n \in 0..Len(s)
  PROVE  /\ Len(Keep(SubSeq(s, 1, n), S)) \in Nat
         /\ n = 0 => Len(Keep(SubSeq(s, 1, n), S)) = 0
         /\ n > 0 => Len(Keep(SubSeq(s, 1, n), S)) <= Len(Keep(SubSeq(s, 1, n - 1), S)) + 1
<1> DEFINE a(m) == SubSeq(s, 1, m)
           I(m) == KeptPositions(a(m), S)
<1>1. Len(s) \in Nat
  OBVIOUS
<1>2. ASSUME NEW m \in 0..Len(s)
      PROVE  /\ Len(a(m)) = m /\ (\A i \in 1..m : a(m)[i] = s[i])
             /\ I(m) \in SUBSET (1..m) /\ IsFiniteSet(I(m)) /\ Cardinality(I(m)) \in 0..m
             /\ Len(Keep(a(m), S)) = Cardinality(I(m))
  <2>1. Len(a(m)) = m /\ \A i \in 1..m : a(m)[i] = s[i]
    BY ListSplit
  <2>2. I(m) \in SUBSET (1..m) /\ m \in Nat
    BY <2>1 DEF KeptPositions
  <2>3. IsFiniteSet(I(m)) /\ Cardinality(I(m)) \in 0..m
    <3>1. IsFiniteSet(1..m)
      BY <2>2, IntervalSize
    <3>2. IsFiniteSet(I(m))
      BY <2>2, <3>1, FS_Subset
    <3>3. Cardinality(I(m)) \in 0..m
      BY <2>2, RankBijection
    <3>. QED
      BY <3>2, <3>3
  <2>4. Len(Keep(a(m), S)) = Cardinality(I(m))
    BY <2>3 DEF Keep
  <2>. QED
    BY <2>1, <2>2, <2>3, <2>4
<1>3. n = 0 => Cardinality(I(n)) = 0
  BY <1>2
<1>4. ASSUME n > 0 PROVE Cardinality(I(n)) <= Cardinality(I(n - 1)) + 1
  <2>1. n - 1 \in 0..Len(s) /\ n \in 1..Len(s)
    BY <1>1, <1>4
  <2>2. I(n) \subseteq I(n - 1) \cup {n}
    <3>1. /\ Len(a(n)) = n /\ (\A i \in 1..n : a(n)[i] = s[i])
          /\ Len(a(n - 1)) = n - 1 /\ (\A i \in 1..(n - 1) : a(n - 1)[i] = s[i])
      BY <1>2, <2>1
    <3>. QED
      BY <2>1, <3>1 DEF KeptPositions
  <2>3. IsFiniteSet(I(n - 1)) /\ Cardinality(I(n - 1)) \in Nat /\ Cardinality(I(n)) \in Nat
    BY <1>1, <1>2, <2>1
  <2> HIDE DEF I
  <2>4. /\ IsFiniteSet(I(n - 1) \cup {n}) /\ Cardinality(I(n - 1) \cup {n}) \in Nat
        /\ Cardinality(I(n - 1) \cup {n}) <= Cardinality(I(n - 1)) + 1
    <3>1. /\ IsFiniteSet(I(n - 1) \cup {n})
          /\ Cardinality(I(n - 1) \cup {n}) =
               IF n \in I(n - 1) THEN Cardinality(I(n - 1)) ELSE Cardinality(I(n - 1)) + 1
      BY <2>3, FS_AddElement
    <3>. QED
      BY <2>3, <3>1
  <2>5. Cardinality(I(n)) <= Cardinality(I(n - 1) \cup {n})
    BY <2>2, <2>4, FS_Subset
  <2>. QED
    BY <2>3, <2>4, <2>5
<1>. QED
  <2>1. n > 0 => n - 1 \in 0..Len(s)
    BY <1>1
  <2>2. n > 0 => Len(Keep(a(n - 1), S)) = Cardinality(I(n - 1))
    BY <1>2, <2>1
  <2>. QED
    BY <1>2, <1>3, <1>4, <2>2

\* The shortest prefix of which room elements are kept, or all of the sequence
\* if there is none: more than room elements are never kept.
ShortestWith(s, S, room) == Min({Len(s)} \cup {i \in 0..Len(s) : Len(Keep(SubSeq(s, 1, i), S)) = room})

LEMMA ListFillRoom ==
  ASSUME NEW T, NEW s \in Seq(T), NEW S, NEW room \in Nat
  PROVE  /\ ShortestWith(s, S, room) \in 0..Len(s)
         /\ Len(Keep(SubSeq(s, 1, ShortestWith(s, S, room)), S)) <= room
<1> DEFINE count(i) == Len(Keep(SubSeq(s, 1, i), S))
           Ends == {Len(s)} \cup {i \in 0..Len(s) : count(i) = room}
           n == ShortestWith(s, S, room)
<1>1. /\ Len(s) \in Nat /\ \A i \in 0..Len(s) : count(i) \in Nat
      /\ count(0) = 0 /\ \A i \in 1..Len(s) : count(i) <= count(i - 1) + 1
  <2>1. Len(s) \in Nat
    BY ListElement
  <2>2. \A i \in 0..Len(s) : count(i) \in Nat
    BY ListKeepPrefix
  <2>3. count(0) = 0
    BY <2>1, ListKeepPrefix
  <2>4. ASSUME NEW i \in 1..Len(s) PROVE count(i) <= count(i - 1) + 1
    BY <2>1, ListKeepPrefix
  <2>. QED
    BY <2>1, <2>2, <2>3, <2>4
<1>2. n = Min(Ends)
  BY DEF ShortestWith
<1> HIDE DEF count, n
<1>3. Ends \in SUBSET Nat /\ Ends # {}
  BY <1>1
<1>4. n \in Ends /\ \A x \in Ends : n <= x
  BY <1>2, <1>3, LeastIsIn
<1>5. n \in 0..Len(s)
  BY <1>1, <1>4
<1>6. CASE count(n) = room
  BY <1>1, <1>5, <1>6 DEF count, n
<1>7. CASE count(n) # room
  <2>1. n = Len(s) /\ \A i \in 0..Len(s) : count(i) # room
    <3>1. n = Len(s)
      BY <1>4, <1>7
    <3>2. ASSUME NEW i \in 0..Len(s), count(i) = room PROVE FALSE
      <4>1. n <= i
        BY <1>4, <3>2
      <4>2. i = n
        BY <1>1, <3>1, <4>1
      <4>. QED
        BY <1>7, <3>2, <4>2
    <3>. QED
      BY <3>1, <3>2
  <2> DEFINE Over == {i \in 0..Len(s) : count(i) > room}
  <2>2. ASSUME Over # {} PROVE FALSE
    <3>1. Over \in SUBSET Nat
      BY <1>1
    <3> DEFINE m == Min(Over)
    <3>2. m \in Over /\ \A x \in Over : m <= x
      BY <2>2, <3>1, LeastIsIn
    <3> HIDE DEF m
    <3>3. m \in 1..Len(s)
      BY <1>1, <3>2
    <3>4. m - 1 \in 0..Len(s) /\ m - 1 \notin Over
      BY <1>1, <3>2, <3>3
    <3>5. count(m - 1) < room
      BY <1>1, <2>1, <3>4
    <3>6. count(m) <= count(m - 1) + 1 /\ count(m) > room
      BY <1>1, <3>2, <3>3
    <3>. QED
      BY <1>1, <3>3, <3>4, <3>5, <3>6
  <2>3. count(n) <= room
    BY <1>1, <1>5, <2>2
  <2>. QED
    BY <1>5, <2>3 DEF count, n
<1>. QED
  BY <1>6, <1>7
=============================================================================
