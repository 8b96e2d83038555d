---------------------------- MODULE HTableProofs ----------------------------
(***************************************************************************)
(* Theorems about the hash table, for every set of entries, hash values    *)
(* and list of primes.                                                     *)
(*                                                                         *)
(* Holds(t, hs, A) says that the table t with the hashes hs holds the      *)
(* entries of A, each once and in its bucket.  Pushing an entry, taking    *)
(* one out and moving them all to a larger table keep it so, for A as it   *)
(* then is; the lookup walk meets what it looks for.  The order of the     *)
(* entries in a bucket is followed by Ahead(s, x, y): pushing, removing    *)
(* and cutting keep it, migrating turns it around.                         *)
(***************************************************************************)
EXTENDS HTable, SequenceTheorems, FiniteSetTheorems, WellFoundedInduction, TLAPS

-----------------------------------------------------------------------------
(* Numbers *)

\* Induction from 0 to N, for a set of numbers.
LEMMA UpTo ==
    ASSUME NEW N \in Nat, NEW P, 0 \in P, \A n \in 0 .. N - 1 : n \in P => n + 1 \in P
    PROVE  \A n \in 0 .. N : n \in P
<1> DEFINE R == {ss \in Nat \X Nat : ss[1] < ss[2]}
           Bad == {n \in 0 .. N : n \notin P}
<1>1. IsWellFoundedOn(R, Nat)
  BY NatLessThanWellFounded DEF OpToRel
<1>2. CASE Bad # {}
  <2>1. Bad \in SUBSET Nat
    OBVIOUS
  <2>2. PICK x \in Bad : \A y \in Bad : ~ (<<y, x>> \in R)
    BY <1>1, <1>2, <2>1, WFMin
  <2>3. x \in 0 .. N /\ x \notin P
    BY <2>2
  <2>4. x - 1 \in 0 .. N - 1 /\ x - 1 + 1 = x
    BY <2>3
  <2>5. x - 1 \in Bad
    BY <2>3, <2>4
  <2>6. <<x - 1, x>> \in R
    BY <2>3, <2>4
  <2> QED BY <2>2, <2>5, <2>6
<1>3. CASE Bad = {}
  BY <1>3
<1> QED BY <1>2, <1>3

\* A non-empty set of numbers has a least one, and Min gives it.
LEMMA MinIs ==
    ASSUME NEW S \in SUBSET Nat, S # {}
    PROVE  Min(S) \in S /\ \A i \in S : Min(S) <= i
<1> DEFINE R == {ss \in Nat \X Nat : ss[1] < ss[2]}
<1>1. IsWellFoundedOn(R, Nat)
  BY NatLessThanWellFounded DEF OpToRel
<1>2. PICK x \in S : \A y \in S : ~ (<<y, x>> \in R)
  BY <1>1, WFMin
<1>3. ASSUME NEW y \in S PROVE x <= y
  <2>1. y < x => <<y, x>> \in R
    OBVIOUS
  <2>2. ~ (y < x)
    BY <1>2, <2>1
  <2> QED BY <2>2
<1> QED BY <1>2, <1>3 DEF Min

\* A hash selects one of the buckets.
LEMMA BucketIn ==
    ASSUME NEW h \in Nat, NEW nb \in Nat \ {0}
    PROVE  BucketOf(h, nb) \in 0 .. nb - 1
BY DEF BucketOf

\* prime_lower_bound() answers with a listed prime, and with one below the
\* target only when that is the last.
LEMMA PrimeGives ==
    ASSUME NEW target \in Nat
    PROVE  /\ PrimeLowerBound(target) \in ToSet(PrimeList)
           /\ PrimeLowerBound(target) \in Nat \ {0}
           /\ \/ PrimeLowerBound(target) >= target
              \/ PrimeLowerBound(target) = PrimeList[Len(PrimeList)]
<1> DEFINE I == {i \in 1 .. Len(PrimeList) : PrimeList[i] >= target}
           k == IF I # {} THEN Min(I) ELSE 0
           j == IF k = 0 THEN Len(PrimeList) ELSE k
<1>1. PrimeLowerBound(target) = PrimeList[j]
  BY DEF PrimeLowerBound, SelectInSeq
<1>2. Len(PrimeList) \in Nat \ {0}
  <2>1. PrimeList \in Seq(Nat \ {0}) /\ PrimeList # <<>>
    BY PrimeAssumption
  <2> QED BY <2>1, EmptySeq, LenProperties
<1>3. I # {} => k \in 1 .. Len(PrimeList) /\ PrimeList[k] >= target
  <2>1. I \in SUBSET Nat
    OBVIOUS
  <2>2. I # {} => Min(I) \in I
    BY <2>1, MinIs
  <2> QED BY <2>2
<1> HIDE DEF I
<1>4. j \in 1 .. Len(PrimeList)
  BY <1>2, <1>3
<1>5. PrimeList[j] \in Nat \ {0}
  BY <1>4, PrimeAssumption, ElementOfSeq
<1>6. PrimeList[j] \in ToSet(PrimeList)
  BY <1>4, PrimeAssumption, LenProperties DEF ToSet
<1>7. PrimeList[j] >= target \/ j = Len(PrimeList)
  BY <1>3
<1> QED BY <1>1, <1>5, <1>6, <1>7

-----------------------------------------------------------------------------
(* Sequences that list a set *)

\* The entries of s are those of A, each once.
Listed(s, A) ==
    /\ s \in Seq(A)
    /\ \A i, j \in 1 .. Len(s) : s[i] = s[j] => i = j
    /\ \A a \in A : \E i \in 1 .. Len(s) : s[i] = a

\* The empty bucket.
LEMMA ListedEmpty == Listed(<<>>, {})
BY EmptySeq DEF Listed

\* An entry at the head.
LEMMA ListedPush ==
    ASSUME NEW A, NEW s, Listed(s, A), NEW e, e \notin A
    PROVE  Listed(<<e>> \o s, A \cup {e})
<1> DEFINE B == A \cup {e}
           t == <<e>> \o s
<1>1. s \in Seq(A) /\ Len(s) \in Nat /\ \A i \in 1 .. Len(s) : s[i] \in A
  BY ElementOfSeq, LenProperties DEF Listed
<1>2. s \in Seq(B) /\ <<e>> \in Seq(B) /\ Len(<<e>>) = 1
  <2>1. s \in Seq(B)
    <3>1. \A i \in 1 .. Len(s) : s[i] \in B
      BY <1>1
    <3> QED BY <1>1, <3>1, SeqDef, LenProperties
  <2>2. e \in B
    OBVIOUS
  <2> QED BY <2>1, <2>2
<1>3. /\ t \in Seq(B) /\ Len(t) = 1 + Len(s)
      /\ \A i \in 1 .. 1 + Len(s) : t[i] = IF i <= 1 THEN <<e>>[i] ELSE s[i - 1]
  BY <1>2, ConcatProperties
<1> HIDE DEF t
<1>4. t[1] = e
  BY <1>1, <1>3
<1>5. \A i \in 2 .. 1 + Len(s) : i - 1 \in 1 .. Len(s) /\ t[i] = s[i - 1]
  BY <1>1, <1>3
<1>6. \A i \in 1 .. 1 + Len(s) : i = 1 \/ i \in 2 .. 1 + Len(s)
  BY <1>1
<1>7. ASSUME NEW i \in 1 .. 1 + Len(s), NEW j \in 1 .. 1 + Len(s), t[i] = t[j]
      PROVE  i = j
  <2>1. CASE i = 1 /\ j # 1
    BY <1>1, <1>4, <1>5, <1>6, <1>7, <2>1
  <2>2. CASE i # 1 /\ j = 1
    BY <1>1, <1>4, <1>5, <1>6, <1>7, <2>2
  <2>3. CASE i # 1 /\ j # 1
    <3>1. i - 1 \in 1 .. Len(s) /\ j - 1 \in 1 .. Len(s) /\ s[i - 1] = s[j - 1]
      BY <1>5, <1>6, <1>7, <2>3
    <3>2. i - 1 = j - 1
      BY <3>1 DEF Listed
    <3> QED BY <3>2
  <2> QED BY <2>1, <2>2, <2>3
<1>8. ASSUME NEW a \in B PROVE \E i \in 1 .. 1 + Len(s) : t[i] = a
  <2>1. CASE a = e
    <3>1. 1 \in 1 .. 1 + Len(s)
      BY <1>1
    <3> QED BY <1>4, <2>1, <3>1
  <2>2. CASE a \in A
    <3>1. PICK i \in 1 .. Len(s) : s[i] = a
      BY <2>2 DEF Listed
    <3>2. i + 1 \in 2 .. 1 + Len(s) /\ i + 1 - 1 = i /\ i + 1 \in 1 .. 1 + Len(s)
      BY <1>1
    <3>3. t[i + 1] = a
      BY <1>5, <3>1, <3>2
    <3> QED BY <3>2, <3>3
  <2> QED BY <2>1, <2>2
<1>9. Listed(t, B)
  BY <1>3, <1>7, <1>8 DEF Listed
<1> QED BY <1>9 DEF t

\* The first k - 1 entries.
LEMMA ListedFront ==
    ASSUME NEW A, NEW s, Listed(s, A), NEW k \in 1 .. Len(s)
    PROVE  /\ Listed(SubSeq(s, 1, k - 1), {s[i] : i \in 1 .. k - 1})
           /\ Len(SubSeq(s, 1, k - 1)) = k - 1
           /\ \A i \in 1 .. k - 1 : SubSeq(s, 1, k - 1)[i] = s[i]
<1> DEFINE F == {s[i] : i \in 1 .. k - 1}
           t == SubSeq(s, 1, k - 1)
<1>1. s \in Seq(A) /\ Len(s) \in Nat
  BY LenProperties DEF Listed
<1>2. \A i \in 1 .. k - 1 : s[i] \in F /\ i \in 1 .. Len(s)
  BY <1>1
<1>3. 1 \in Int /\ k - 1 \in Int
  BY <1>1
<1>4. /\ t \in Seq(F) /\ Len(t) = IF 1 <= k - 1 THEN k - 1 - 1 + 1 ELSE 0
      /\ \A i \in 1 .. k - 1 - 1 + 1 : t[i] = s[1 + i - 1]
  <2> HIDE DEF F
  <2> QED BY <1>2, <1>3, SubSeqProperties
<1>5. (IF 1 <= k - 1 THEN k - 1 - 1 + 1 ELSE 0) = k - 1 /\ k - 1 - 1 + 1 = k - 1
  BY <1>1
<1>6. \A i \in 1 .. k - 1 : 1 + i - 1 = i
  BY <1>1
<1>7. t \in Seq(F) /\ Len(t) = k - 1 /\ \A i \in 1 .. k - 1 : t[i] = s[i]
  BY <1>4, <1>5, <1>6
<1> HIDE DEF t
<1>8. \A i, j \in 1 .. k - 1 : t[i] = t[j] => i = j
  BY <1>2, <1>7 DEF Listed
<1>9. \A a \in F : \E i \in 1 .. k - 1 : t[i] = a
  BY <1>7
<1>10. Listed(t, F)
  <2> HIDE DEF F
  <2> QED BY <1>7, <1>8, <1>9 DEF Listed
<1> QED BY <1>7, <1>10 DEF t

\* Where the entries stand after a removal.
LEMMA RemoveAtIs ==
    ASSUME NEW A, NEW s, Listed(s, A), NEW k \in 1 .. Len(s)
    PROVE  /\ RemoveAt(s, k) \in Seq(A \ {s[k]}) /\ Len(RemoveAt(s, k)) = Len(s) - 1
           /\ \A j \in 1 .. Len(s) - 1 :
                LET i == IF j < k THEN j ELSE j + 1
                IN  RemoveAt(s, k)[j] = s[i] /\ i \in 1 .. Len(s)
<1> DEFINE n == Len(s)
           a == SubSeq(s, 1, k - 1)
           b == SubSeq(s, k + 1, n)
           r == RemoveAt(s, k)
           at(j) == IF j < k THEN j ELSE j + 1
           B == A \ {s[k]}
<1>0. n \in Nat /\ k \in 1 .. n /\ s \in Seq(A)
  BY LenProperties DEF Listed
<1>1. \A j \in 1 .. n : s[j] \in A /\ (j # k => s[j] # s[k])
  BY <1>0, ElementOfSeq DEF Listed
<1> HIDE DEF n
<1>2. a \in Seq(B) /\ Len(a) = k - 1 /\ \A j \in 1 .. k - 1 : a[j] = s[j]
  <2>1. 1 \in Int /\ k - 1 \in Int /\ \A j \in 1 .. k - 1 : s[j] \in B
    BY <1>0, <1>1
  <2>2. /\ a \in Seq(B) /\ Len(a) = IF 1 <= k - 1 THEN k - 1 - 1 + 1 ELSE 0
        /\ \A j \in 1 .. k - 1 - 1 + 1 : a[j] = s[1 + j - 1]
    BY <2>1, SubSeqProperties
  <2>3. (IF 1 <= k - 1 THEN k - 1 - 1 + 1 ELSE 0) = k - 1 /\ k - 1 - 1 + 1 = k - 1
    BY <1>0
  <2>4. \A j \in 1 .. k - 1 : 1 + j - 1 = j
    BY <1>0
  <2> QED BY <2>2, <2>3, <2>4
<1>3. b \in Seq(B) /\ Len(b) = n - k /\ \A j \in 1 .. n - k : b[j] = s[k + j]
  <2>1. k + 1 \in Int /\ n \in Int /\ \A j \in k + 1 .. n : s[j] \in B
    BY <1>0, <1>1
  <2>2. /\ b \in Seq(B) /\ Len(b) = IF k + 1 <= n THEN n - (k + 1) + 1 ELSE 0
        /\ \A j \in 1 .. n - (k + 1) + 1 : b[j] = s[k + 1 + j - 1]
    BY <2>1, SubSeqProperties
  <2>3. (IF k + 1 <= n THEN n - (k + 1) + 1 ELSE 0) = n - k /\ n - (k + 1) + 1 = n - k
    BY <1>0
  <2>4. \A j \in 1 .. n - k : k + 1 + j - 1 = k + j
    BY <1>0
  <2> QED BY <2>2, <2>3, <2>4
<1>4. r = a \o b
  BY DEF RemoveAt, n
<1> HIDE DEF a, b, r
<1>5. /\ r \in Seq(B) /\ Len(r) = n - 1
      /\ \A j \in 1 .. n - 1 : r[j] = IF j <= k - 1 THEN a[j] ELSE b[j - (k - 1)]
  <2>1. /\ r \in Seq(B) /\ Len(r) = Len(a) + Len(b)
        /\ \A j \in 1 .. Len(a) + Len(b) : r[j] = IF j <= Len(a) THEN a[j] ELSE b[j - Len(a)]
    BY <1>2, <1>3, <1>4, ConcatProperties
  <2>2. (k - 1) + (n - k) = n - 1
    BY <1>0
  <2> QED BY <1>2, <1>3, <2>1, <2>2
<1>6. ASSUME NEW j \in 1 .. n - 1 PROVE r[j] = s[at(j)] /\ at(j) \in 1 .. n
  <2>1. CASE j < k
    <3>1. j \in 1 .. k - 1 /\ j <= k - 1
      BY <1>0, <2>1
    <3> QED BY <1>0, <1>2, <1>5, <2>1, <3>1
  <2>2. CASE ~ (j < k)
    <3>1. j - (k - 1) \in 1 .. n - k /\ ~ (j <= k - 1) /\ k + (j - (k - 1)) = j + 1
      BY <1>0, <2>2
    <3>2. b[j - (k - 1)] = s[j + 1]
      BY <1>3, <3>1
    <3>3. j + 1 \in 1 .. n
      BY <1>0, <2>2
    <3> QED BY <1>5, <2>2, <3>1, <3>2, <3>3
  <2> QED BY <2>1, <2>2
<1> QED BY <1>5, <1>6 DEF r, n

\* All but the k-th.
LEMMA ListedRemove ==
    ASSUME NEW A, NEW s, Listed(s, A), NEW k \in 1 .. Len(s)
    PROVE  Listed(RemoveAt(s, k), A \ {s[k]})
<1> DEFINE n == Len(s)
           r == RemoveAt(s, k)
           at(j) == IF j < k THEN j ELSE j + 1
           B == A \ {s[k]}
<1>1. n \in Nat /\ k \in 1 .. n
  BY LenProperties DEF Listed
<1>2. r \in Seq(B) /\ Len(r) = n - 1
  BY RemoveAtIs
<1>3. \A j \in 1 .. n - 1 : r[j] = s[at(j)] /\ at(j) \in 1 .. n
  BY RemoveAtIs
<1> HIDE DEF n, r
<1>4. \A j, i \in 1 .. n - 1 : at(j) = at(i) => j = i
  BY <1>1
<1>5. ASSUME NEW i \in 1 .. n, i # k PROVE \E j \in 1 .. n - 1 : at(j) = i
  <2>1. CASE i < k
    <3>1. i \in 1 .. n - 1 /\ at(i) = i
      BY <1>1, <2>1
    <3> QED BY <3>1
  <2>2. CASE i > k
    <3>1. i - 1 \in 1 .. n - 1 /\ at(i - 1) = i
      BY <1>1, <2>2
    <3> QED BY <3>1
  <2> QED BY <1>1, <1>5, <2>1, <2>2
<1> HIDE DEF at
<1>6. ASSUME NEW j \in 1 .. n - 1, NEW i \in 1 .. n - 1, r[j] = r[i] PROVE j = i
  <2>1. s[at(j)] = s[at(i)] /\ at(j) \in 1 .. n /\ at(i) \in 1 .. n
    BY <1>3, <1>6
  <2>2. at(j) = at(i)
    BY <2>1 DEF Listed, n
  <2> QED BY <1>4, <2>2
<1>7. ASSUME NEW x \in B PROVE \E j \in 1 .. n - 1 : r[j] = x
  <2>1. PICK i \in 1 .. n : s[i] = x
    BY DEF Listed, n
  <2>2. i # k
    BY <2>1
  <2>3. PICK j \in 1 .. n - 1 : at(j) = i
    BY <1>5, <2>2
  <2> QED BY <1>3, <2>1, <2>3
<1>8. Listed(r, B)
  <2> HIDE DEF B
  <2> QED BY <1>2, <1>6, <1>7 DEF Listed
<1> QED BY <1>8 DEF r

\* A listed set has as many members as the sequence is long.
LEMMA ListedLen ==
    ASSUME NEW A, NEW s, Listed(s, A)
    PROVE  IsFiniteSet(A) /\ Cardinality(A) = Len(s)
<1> DEFINE D == 1 .. Len(s)
           f == [i \in D |-> s[i]]
<1>1. Len(s) \in Nat /\ \A i \in D : s[i] \in A
  BY ElementOfSeq, LenProperties DEF Listed
<1>2. IsFiniteSet(D) /\ Cardinality(D) = Len(s)
  BY <1>1, FS_Interval
<1>3. f \in Bijection(D, A)
  <2>1. f \in [D -> A]
    BY <1>1
  <2>2. \A i, j \in D : f[i] = f[j] => i = j
    BY DEF Listed
  <2>3. \A a \in A : \E i \in D : f[i] = a
    BY DEF Listed
  <2> HIDE DEF f, D
  <2> QED BY <2>1, <2>2, <2>3 DEF Bijection, Injection, Surjection, IsInjective
<1>4. ExistsBijection(D, A)
  BY <1>3 DEF ExistsBijection
<1> QED BY <1>2, <1>4, FS_Bijection

-----------------------------------------------------------------------------
(* The order of a sequence *)

\* x comes before y.
Ahead(s, x, y) == \E i, j \in 1 .. Len(s) : i < j /\ s[i] = x /\ s[j] = y

\* c and s have the members of A in the same order.
SameOrder(c, s, A) == \A x, y \in A : Ahead(c, x, y) <=> Ahead(s, x, y)

\* In a listing, the order is that of the positions.
LEMMA AheadAt ==
    ASSUME NEW A, NEW s, Listed(s, A), NEW i \in 1 .. Len(s), NEW j \in 1 .. Len(s)
    PROVE  Ahead(s, s[i], s[j]) <=> i < j
BY DEF Ahead, Listed

\* Nothing comes before itself.
LEMMA AheadIrreflexive ==
    ASSUME NEW A, NEW s, Listed(s, A), NEW x \in A
    PROVE  ~ Ahead(s, x, x)
<1> SUFFICES ASSUME Ahead(s, x, x) PROVE FALSE
  OBVIOUS
<1>1. PICK i \in 1 .. Len(s), j \in 1 .. Len(s) : i < j /\ s[i] = x /\ s[j] = x
  BY DEF Ahead
<1>2. i = j
  BY <1>1 DEF Listed
<1>3. i \in Nat
  BY LenProperties DEF Listed
<1> QED BY <1>1, <1>2, <1>3

\* What is pushed comes before all others.
LEMMA AheadPush ==
    ASSUME NEW A, NEW s, Listed(s, A), NEW e, e \notin A
    PROVE  /\ SameOrder(<<e>> \o s, s, A)
           /\ ~ Ahead(<<e>> \o s, e, e)
           /\ \A y \in A : Ahead(<<e>> \o s, e, y) /\ ~ Ahead(<<e>> \o s, y, e)
<1> DEFINE B == A \cup {e}
           t == <<e>> \o s
           n == Len(s)
<1>1. s \in Seq(A) /\ n \in Nat /\ \A i \in 1 .. n : s[i] \in A
  BY ElementOfSeq, LenProperties DEF Listed
<1>2. Listed(t, B)
  BY ListedPush
<1>3. s \in Seq(B) /\ <<e>> \in Seq(B) /\ Len(<<e>>) = 1
  <2>1. \A i \in 1 .. n : s[i] \in B
    BY <1>1
  <2>2. s \in Seq(B)
    BY <1>1, <2>1, SeqDef, LenProperties
  <2> QED BY <2>2
<1>4. /\ Len(t) = 1 + n
      /\ \A i \in 1 .. 1 + n : t[i] = IF i <= 1 THEN <<e>>[i] ELSE s[i - 1]
  BY <1>3, ConcatProperties
<1> HIDE DEF t
<1>5. t[1] = e /\ 1 \in 1 .. Len(t)
  BY <1>1, <1>4
<1>6. \A i \in 1 .. n : t[i + 1] = s[i] /\ i + 1 \in 1 .. Len(t)
  BY <1>1, <1>4
<1> HIDE DEF n, B
<1>7. ASSUME NEW x \in A, NEW y \in A PROVE Ahead(t, x, y) <=> Ahead(s, x, y)
  <2>1. PICK i \in 1 .. n : s[i] = x
    BY DEF Listed, n
  <2>2. PICK j \in 1 .. n : s[j] = y
    BY DEF Listed, n
  <2>3. Ahead(s, x, y) <=> i < j
    BY <2>1, <2>2, AheadAt DEF n
  <2>4. Ahead(t, t[i + 1], t[j + 1]) <=> i + 1 < j + 1
    BY <1>2, <1>6, AheadAt
  <2>5. i + 1 < j + 1 <=> i < j
    BY <1>1
  <2> QED BY <1>6, <2>1, <2>2, <2>3, <2>4, <2>5
<1>8. ~ Ahead(t, e, e)
  BY <1>2, <1>5, AheadAt
<1>9. ASSUME NEW y \in A PROVE Ahead(t, e, y) /\ ~ Ahead(t, y, e)
  <2>1. PICK j \in 1 .. n : s[j] = y
    BY DEF Listed, n
  <2>2. /\ Ahead(t, t[1], t[j + 1]) <=> 1 < j + 1
        /\ Ahead(t, t[j + 1], t[1]) <=> j + 1 < 1
    BY <1>2, <1>5, <1>6, AheadAt
  <2>3. 1 < j + 1 /\ ~ (j + 1 < 1)
    BY <1>1
  <2> QED BY <1>5, <1>6, <2>1, <2>2, <2>3
<1> QED BY <1>7, <1>8, <1>9 DEF t, SameOrder

\* Removal leaves the order of the others.
LEMMA AheadRemove ==
    ASSUME NEW A, NEW s, Listed(s, A), NEW k \in 1 .. Len(s)
    PROVE  SameOrder(RemoveAt(s, k), s, A \ {s[k]})
<1> DEFINE n == Len(s)
           r == RemoveAt(s, k)
           B == A \ {s[k]}
           at(j) == IF j < k THEN j ELSE j + 1
<1>1. n \in Nat /\ k \in 1 .. n
  BY LenProperties DEF Listed
<1>2. Len(r) = n - 1 /\ \A j \in 1 .. n - 1 : r[j] = s[at(j)] /\ at(j) \in 1 .. n
  BY RemoveAtIs
<1>3. Listed(r, B)
  BY ListedRemove
<1>4. \A i, j \in 1 .. n - 1 : at(i) < at(j) <=> i < j
  BY <1>1
<1> HIDE DEF n, r, at
<1>5. ASSUME NEW x \in B, NEW y \in B PROVE Ahead(r, x, y) <=> Ahead(s, x, y)
  <2>1. PICK i \in 1 .. Len(r) : r[i] = x
    BY <1>3 DEF Listed
  <2>2. PICK j \in 1 .. Len(r) : r[j] = y
    BY <1>3 DEF Listed
  <2>3. Ahead(r, x, y) <=> i < j
    <3> HIDE DEF B
    <3> QED BY <1>3, <2>1, <2>2, AheadAt
  <2>4. s[at(i)] = x /\ s[at(j)] = y /\ at(i) \in 1 .. Len(s) /\ at(j) \in 1 .. Len(s)
    BY <1>2, <2>1, <2>2 DEF n
  <2>5. Ahead(s, x, y) <=> at(i) < at(j)
    BY <2>4, AheadAt
  <2> QED BY <1>2, <1>4, <2>1, <2>2, <2>3, <2>5
<1> QED BY <1>5 DEF SameOrder, r

\* So does cutting short.
LEMMA AheadFront ==
    ASSUME NEW A, NEW s, Listed(s, A), NEW k \in 1 .. Len(s)
    PROVE  SameOrder(SubSeq(s, 1, k - 1), s, {s[i] : i \in 1 .. k - 1})
<1> DEFINE F == {s[i] : i \in 1 .. k - 1}
           t == SubSeq(s, 1, k - 1)
<1>1. Len(s) \in Nat /\ \A i \in 1 .. k - 1 : i \in 1 .. Len(s)
  BY LenProperties DEF Listed
<1>2. Listed(t, F) /\ Len(t) = k - 1 /\ \A i \in 1 .. k - 1 : t[i] = s[i]
  BY ListedFront
<1> HIDE DEF t, F
<1>3. ASSUME NEW x \in F, NEW y \in F PROVE Ahead(t, x, y) <=> Ahead(s, x, y)
  <2>1. PICK i \in 1 .. k - 1 : t[i] = x
    BY <1>2 DEF Listed
  <2>2. PICK j \in 1 .. k - 1 : t[j] = y
    BY <1>2 DEF Listed
  <2>3. Ahead(t, x, y) <=> i < j
    BY <1>2, <2>1, <2>2, AheadAt
  <2>4. s[i] = x /\ s[j] = y /\ i \in 1 .. Len(s) /\ j \in 1 .. Len(s)
    BY <1>1, <1>2, <2>1, <2>2
  <2>5. Ahead(s, x, y) <=> i < j
    BY <2>4, AheadAt
  <2> QED BY <2>3, <2>5
<1> QED BY <1>3 DEF SameOrder, t, F

\* Turning around turns the order around.
LEMMA ReverseGives ==
    ASSUME NEW A, NEW s, Listed(s, A)
    PROVE  /\ Listed(Reverse(s), A)
           /\ \A x, y \in A : Ahead(Reverse(s), x, y) <=> Ahead(s, y, x)
<1> DEFINE n == Len(s)
           r == Reverse(s)
           at(i) == n - i + 1
<1>1. s \in Seq(A) /\ n \in Nat /\ \A i \in 1 .. n : s[i] \in A
  BY ElementOfSeq, LenProperties DEF Listed
<1>2. r = [i \in 1 .. n |-> s[at(i)]]
  BY DEF Reverse
<1>3. /\ \A i \in 1 .. n : at(i) \in 1 .. n /\ at(at(i)) = i
      /\ \A i, j \in 1 .. n : at(i) < at(j) <=> j < i
      /\ \A i, j \in 1 .. n : at(i) = at(j) => i = j
  BY <1>1
<1> HIDE DEF at, r
<1>4. r \in [1 .. n -> A]
  BY <1>1, <1>2, <1>3
<1>5. r \in Seq(A) /\ Len(r) = n /\ \A i \in 1 .. n : r[i] = s[at(i)]
  BY <1>1, <1>2, <1>4, SeqDef, LenProperties
<1> HIDE DEF n
<1>6. ASSUME NEW i \in 1 .. n, NEW j \in 1 .. n, r[i] = r[j] PROVE i = j
  <2>1. s[at(i)] = s[at(j)] /\ at(i) \in 1 .. n /\ at(j) \in 1 .. n
    BY <1>3, <1>5, <1>6
  <2>2. at(i) = at(j)
    BY <2>1 DEF Listed, n
  <2> QED BY <1>3, <2>2
<1>7. ASSUME NEW x \in A PROVE \E i \in 1 .. n : r[i] = x
  <2>1. PICK i \in 1 .. n : s[i] = x
    BY DEF Listed, n
  <2>2. at(i) \in 1 .. n /\ r[at(i)] = s[at(at(i))] /\ at(at(i)) = i
    BY <1>3, <1>5
  <2> QED BY <2>1, <2>2
<1>8. Listed(r, A)
  BY <1>5, <1>6, <1>7 DEF Listed
<1>9. ASSUME NEW x \in A, NEW y \in A PROVE Ahead(r, x, y) <=> Ahead(s, y, x)
  <2>1. PICK i \in 1 .. n : r[i] = x
    BY <1>7
  <2>2. PICK j \in 1 .. n : r[j] = y
    BY <1>7
  <2>3. Ahead(r, x, y) <=> i < j
    BY <1>5, <1>8, <2>1, <2>2, AheadAt
  <2>4. s[at(i)] = x /\ s[at(j)] = y /\ at(i) \in 1 .. Len(s) /\ at(j) \in 1 .. Len(s)
    BY <1>3, <1>5, <2>1, <2>2 DEF n
  <2>5. Ahead(s, y, x) <=> at(j) < at(i)
    BY <2>4, AheadAt
  <2> QED BY <1>3, <2>3, <2>5
<1> QED BY <1>8, <1>9 DEF r

\* A listing of a first part of a set, in the same order, is a beginning.
LEMMA SameBeginning ==
    ASSUME NEW C, NEW c, Listed(c, C), NEW D \in SUBSET C, NEW d, Listed(d, D),
           SameOrder(d, c, D), \A y \in D, x \in C : Ahead(c, x, y) => x \in D
    PROVE  /\ Len(d) \in Nat /\ Len(c) \in Nat /\ Len(d) <= Len(c)
           /\ \A i \in 1 .. Len(d) : d[i] = c[i]
<1> DEFINE n == Len(d)
           P == {m \in 0 .. n : \A i \in 1 .. m : d[i] = c[i]}
<1>1. /\ n \in Nat /\ Len(c) \in Nat
      /\ \A i \in 1 .. n : d[i] \in D
      /\ \A i \in 1 .. Len(c) : c[i] \in C
  BY ElementOfSeq, LenProperties DEF Listed
<1>2. n <= Len(c)
  <2>1. IsFiniteSet(C) /\ Cardinality(C) = Len(c) /\ Cardinality(D) = n
    BY ListedLen
  <2> QED BY <1>1, <2>1, FS_Subset
<1>3. 0 \in P
  BY <1>1
<1>4. ASSUME NEW m \in 0 .. n - 1, m \in P PROVE m + 1 \in P
  <2> DEFINE k == m + 1
             x == d[k]
             y == c[k]
  <2>1. k \in 1 .. n /\ k \in 1 .. Len(c) /\ k \in 0 .. n /\ m \in Nat
    BY <1>1, <1>2
  <2>2. \A i \in 1 .. n : i < k => d[i] = c[i]
    <3>1. \A i \in 1 .. n : i < k => i \in 1 .. m
      BY <1>1
    <3> QED BY <1>4, <3>1
  <2>3. x \in D /\ x \in C
    BY <1>1, <2>1
  <2>4. \A i \in 1 .. k : i = k \/ (i \in 1 .. n /\ i < k)
    BY <1>1, <2>1
  <2> HIDE DEF k
  <2>5. PICK p \in 1 .. Len(c) : c[p] = x
    BY <2>3 DEF Listed
  <2>6. ~ (p < k)
    <3> SUFFICES ASSUME p < k PROVE FALSE
      OBVIOUS
    <3>1. p \in 1 .. n
      BY <1>1, <2>1
    <3>2. d[p] = d[k]
      BY <2>2, <2>5, <3>1
    <3>3. p = k
      BY <2>1, <3>1, <3>2 DEF Listed
    <3> QED BY <2>1, <3>3
  <2>7. ~ (k < p)
    <3> SUFFICES ASSUME k < p PROVE FALSE
      OBVIOUS
    <3>1. Ahead(c, y, x)
      BY <2>1, <2>5, AheadAt
    <3>2. y \in C
      BY <1>1, <2>1
    <3>3. y \in D
      BY <2>3, <3>1, <3>2
    <3>4. PICK q \in 1 .. n : d[q] = y
      BY <3>3 DEF Listed
    <3>5. Ahead(d, y, x)
      BY <2>3, <3>1, <3>3 DEF SameOrder
    <3>6. q < k
      BY <2>1, <3>4, <3>5, AheadAt
    <3>7. c[q] = c[k] /\ q \in 1 .. Len(c)
      BY <1>1, <1>2, <2>2, <3>4, <3>6
    <3>8. q = k
      BY <2>1, <3>7 DEF Listed
    <3> QED BY <2>1, <3>6, <3>8
  <2>8. p = k
    BY <2>1, <2>6, <2>7
  <2>9. \A i \in 1 .. k : d[i] = c[i]
    BY <2>2, <2>4, <2>5, <2>8
  <2>10. k \in P
    BY <2>1, <2>9
  <2> QED BY <2>10 DEF k
<1>5. n \in P
  <2> HIDE DEF P
  <2>1. \A m \in 0 .. n : m \in P
    BY <1>1, <1>3, <1>4, UpTo
  <2> QED BY <1>1, <2>1
<1> QED BY <1>1, <1>2, <1>5

\* A set has one listing in an order.
LEMMA OneListing ==
    ASSUME NEW A, NEW c, Listed(c, A), NEW d, Listed(d, A), SameOrder(c, d, A)
    PROVE  c = d
<1>1. /\ Len(c) \in Nat /\ \A i \in 1 .. Len(c) : c[i] = d[i]
  BY SameBeginning
<1>2. Len(c) = Len(d)
  BY ListedLen
<1>3. c = [i \in 1 .. Len(c) |-> c[i]] /\ d = [i \in 1 .. Len(d) |-> d[i]]
  BY LenProperties DEF Listed
<1> QED BY <1>1, <1>2, <1>3

-----------------------------------------------------------------------------
(* Tables *)

\* The entries of A that belong into bucket b of nb.
Home(A, hs, nb, b) == {e \in A : BucketOf(hs[e], nb) = b}

\* The shape of struct sftfs_htable_s.
Shaped(t) ==
    /\ t \in [nr_buckets : {t.nr_buckets}, nr_entries : {t.nr_entries},
              buckets : {t.buckets}]
    /\ t.nr_buckets \in Nat \ {0} /\ t.nr_buckets \in ToSet(PrimeList)
    /\ t.buckets = [b \in 0 .. t.nr_buckets - 1 |-> t.buckets[b]]

\* The table holds the entries of A, each once and in its bucket, and has
\* counted them.
Holds(t, hs, A) ==
    /\ Shaped(t)
    /\ t.nr_entries = Cardinality(A)
    /\ \A b \in 0 .. t.nr_buckets - 1 : Listed(t.buckets[b], Home(A, hs, t.nr_buckets, b))

\* The entries of A have hashes.
Hashed(hs, A) == \A e \in A : hs[e] \in Nat

\* hs and gs agree on A.
Agree(hs, gs, A) == \A e \in A : hs[e] = gs[e]

\* A table just created is empty.
LEMMA CreateGives ==
    ASSUME NEW nb \in Nat \ {0}, nb \in ToSet(PrimeList), NEW hs
    PROVE  Holds(CreateHtable(nb), hs, {}) /\ CreateHtable(nb).nr_buckets = nb
<1> DEFINE t == CreateHtable(nb)
<1>1. t = [nr_buckets |-> nb, nr_entries |-> 0, buckets |-> [b \in 0 .. nb - 1 |-> <<>>]]
  BY DEF CreateHtable
<1> HIDE DEF t
<1>2. /\ t.nr_buckets = nb /\ t.nr_entries = 0
      /\ t.buckets = [b \in 0 .. nb - 1 |-> <<>>]
      /\ t \in [nr_buckets : {t.nr_buckets}, nr_entries : {t.nr_entries},
                buckets : {t.buckets}]
  BY <1>1
<1>3. t.buckets = [b \in 0 .. nb - 1 |-> t.buckets[b]]
  BY <1>2
<1>4. \A b \in 0 .. nb - 1 : t.buckets[b] = <<>> /\ Home({}, hs, nb, b) = {}
  BY <1>2 DEF Home
<1>5. Cardinality({}) = 0
  BY FS_EmptySet
<1> QED BY <1>2, <1>3, <1>4, <1>5, ListedEmpty DEF Holds, Shaped, t

\* The table after a change of one bucket and of the count.
WithBucket(t, b, s, n) ==
    [nr_buckets : {t.nr_buckets}, nr_entries : {n}, buckets : {[t.buckets EXCEPT ![b] = s]}]

\* It has the shape.
LEMMA WithBucketGives ==
    ASSUME NEW t, Shaped(t), NEW b \in 0 .. t.nr_buckets - 1, NEW s, NEW n,
           NEW u \in WithBucket(t, b, s, n)
    PROVE  /\ Shaped(u) /\ u.nr_buckets = t.nr_buckets /\ u.nr_entries = n
           /\ u.buckets[b] = s
           /\ \A c \in 0 .. t.nr_buckets - 1 : c # b => u.buckets[c] = t.buckets[c]
<1> DEFINE bs == [t.buckets EXCEPT ![b] = s]
<1>1. /\ u.nr_buckets = t.nr_buckets /\ u.nr_entries = n /\ u.buckets = bs
      /\ u \in [nr_buckets : {u.nr_buckets}, nr_entries : {u.nr_entries},
                buckets : {u.buckets}]
  BY DEF WithBucket
<1>2. /\ bs[b] = s
      /\ \A c \in 0 .. t.nr_buckets - 1 : c # b => bs[c] = t.buckets[c]
      /\ bs = [c \in 0 .. t.nr_buckets - 1 |-> bs[c]]
  BY DEF Shaped
<1> HIDE DEF bs
<1>3. Shaped(u)
  BY <1>1, <1>2 DEF Shaped
<1> QED BY <1>1, <1>2, <1>3

\* insert_entry() adds the entry.
LEMMA InsertGives ==
    ASSUME NEW t, NEW hs, NEW A, IsFiniteSet(A), Holds(t, hs, A),
           NEW e, e \notin A, NEW h \in Nat,
           NEW gs, Agree(gs, hs, A), gs[e] = h
    PROVE  /\ Holds(EntryInserted(t, e, h), gs, A \cup {e})
           /\ EntryInserted(t, e, h).nr_buckets = t.nr_buckets
<1> DEFINE nb == t.nr_buckets
           b == BucketOf(h, nb)
           s == <<e>> \o t.buckets[b]
           n == t.nr_entries + 1
           u == EntryInserted(t, e, h)
<1>1. Shaped(t) /\ nb \in Nat \ {0}
  BY DEF Holds, Shaped
<1>2. b \in 0 .. nb - 1
  BY <1>1, BucketIn
<1>3. u \in WithBucket(t, b, s, n)
  BY <1>1 DEF EntryInserted, WithBucket, Shaped
<1> HIDE DEF b, s, n
<1>4. /\ Shaped(u) /\ u.nr_buckets = nb /\ u.nr_entries = n /\ u.buckets[b] = s
      /\ \A c \in 0 .. nb - 1 : c # b => u.buckets[c] = t.buckets[c]
  <2> HIDE DEF u
  <2> QED BY <1>1, <1>2, <1>3, WithBucketGives
<1> HIDE DEF u
<1>5. n = Cardinality(A \cup {e})
  BY FS_AddElement DEF n, Holds
<1>6. Home(A \cup {e}, gs, nb, b) = Home(A, hs, nb, b) \cup {e}
  BY DEF Home, Agree, b
<1>7. \A c \in 0 .. nb - 1 : c # b => Home(A \cup {e}, gs, nb, c) = Home(A, hs, nb, c)
  BY DEF Home, Agree, b
<1>8. Listed(s, Home(A, hs, nb, b) \cup {e})
  <2>1. e \notin Home(A, hs, nb, b) /\ Listed(t.buckets[b], Home(A, hs, nb, b))
    BY <1>2 DEF Holds, Home
  <2> QED BY <2>1, ListedPush DEF s
<1>9. \A c \in 0 .. nb - 1 : Listed(u.buckets[c], Home(A \cup {e}, gs, nb, c))
  BY <1>4, <1>6, <1>7, <1>8 DEF Holds
<1> QED BY <1>4, <1>5, <1>9 DEF Holds, u

\* extract_entry() takes one entry out.
LEMMA ExtractGives ==
    ASSUME NEW t, NEW hs, NEW A, IsFiniteSet(A), Holds(t, hs, A),
           NEW b \in 0 .. t.nr_buckets - 1, NEW k \in 1 .. Len(t.buckets[b]),
           NEW gs, NEW e, e = t.buckets[b][k], Agree(gs, hs, A \ {e})
    PROVE  /\ e \in A
           /\ Holds(Extracted(t, b, k), gs, A \ {e})
           /\ Extracted(t, b, k).nr_buckets = t.nr_buckets
<1> DEFINE nb == t.nr_buckets
           s == RemoveAt(t.buckets[b], k)
           n == t.nr_entries - 1
           u == Extracted(t, b, k)
<1>1. Shaped(t) /\ nb \in Nat \ {0} /\ Listed(t.buckets[b], Home(A, hs, nb, b))
  BY DEF Holds, Shaped
<1>2. u \in WithBucket(t, b, s, n)
  BY <1>1 DEF Extracted, WithBucket, Shaped
<1>3. e \in Home(A, hs, nb, b)
  BY <1>1, ElementOfSeq DEF Listed
<1>4. e \in A /\ BucketOf(hs[e], nb) = b
  BY <1>3 DEF Home
<1>5. Listed(s, Home(A, hs, nb, b) \ {e})
  BY <1>1, ListedRemove
<1> HIDE DEF s, n
<1>6. /\ Shaped(u) /\ u.nr_buckets = nb /\ u.nr_entries = n /\ u.buckets[b] = s
      /\ \A c \in 0 .. nb - 1 : c # b => u.buckets[c] = t.buckets[c]
  <2> HIDE DEF u
  <2> QED BY <1>1, <1>2, WithBucketGives
<1> HIDE DEF u
<1>7. n = Cardinality(A \ {e})
  BY <1>4, FS_RemoveElement DEF n, Holds
<1>8. Home(A \ {e}, gs, nb, b) = Home(A, hs, nb, b) \ {e}
  BY DEF Home, Agree
<1>9. \A c \in 0 .. nb - 1 : c # b => Home(A \ {e}, gs, nb, c) = Home(A, hs, nb, c)
  BY <1>4 DEF Home, Agree
<1>10. \A c \in 0 .. nb - 1 : Listed(u.buckets[c], Home(A \ {e}, gs, nb, c))
  BY <1>5, <1>6, <1>8, <1>9 DEF Holds
<1> QED BY <1>4, <1>6, <1>7, <1>10 DEF Holds, u

-----------------------------------------------------------------------------
(* migrate() *)

\* The bucket of a hash.
BucketFor(t, h) == t.buckets[BucketOf(h, t.nr_buckets)]

\* u is t with another bucket b.
Replaced(t, u, b, s) ==
    /\ u.buckets[b] = s
    /\ \A c \in 0 .. t.nr_buckets - 1 : c # b => u.buckets[c] = t.buckets[c]

\* insert_entry() replaces one bucket.
LEMMA InsertReplaces ==
    ASSUME NEW t, Shaped(t), NEW e, NEW h \in Nat
    PROVE  /\ EntryInserted(t, e, h).nr_buckets = t.nr_buckets
           /\ Replaced(t, EntryInserted(t, e, h), BucketOf(h, t.nr_buckets),
                       <<e>> \o BucketFor(t, h))
<1> DEFINE b == BucketOf(h, t.nr_buckets)
           s == <<e>> \o BucketFor(t, h)
           n == t.nr_entries + 1
           u == EntryInserted(t, e, h)
<1>1. b \in 0 .. t.nr_buckets - 1
  BY BucketIn DEF Shaped
<1>2. u \in WithBucket(t, b, s, n)
  BY <1>1 DEF EntryInserted, WithBucket, Shaped, BucketFor
<1> HIDE DEF b, s, n, u
<1>3. u.nr_buckets = t.nr_buckets /\ Replaced(t, u, b, s)
  BY <1>1, <1>2, WithBucketGives DEF Replaced
<1> QED BY <1>3 DEF b, s, u

\* extract_entry() too.
LEMMA ExtractReplaces ==
    ASSUME NEW t, Shaped(t), NEW b \in 0 .. t.nr_buckets - 1, NEW k
    PROVE  /\ Extracted(t, b, k).nr_buckets = t.nr_buckets
           /\ Replaced(t, Extracted(t, b, k), b, RemoveAt(t.buckets[b], k))
<1> DEFINE s == RemoveAt(t.buckets[b], k)
           n == t.nr_entries - 1
           u == Extracted(t, b, k)
<1>1. u \in WithBucket(t, b, s, n)
  BY DEF Extracted, WithBucket, Shaped
<1> HIDE DEF s, n, u
<1>2. u.nr_buckets = t.nr_buckets /\ Replaced(t, u, b, s)
  BY <1>1, WithBucketGives DEF Replaced
<1> QED BY <1>2 DEF s, u

\* In the table "to", the entries of A that share a hash have the order opposite
\* to that of the table "from".
Turned(from, to, hs, A) ==
    \A x, y \in A : hs[x] = hs[y] =>
        (Ahead(BucketFor(to, hs[x]), x, y) <=> Ahead(BucketFor(from, hs[x]), y, x))

\* The order of the bucket of each hash after a push.
LEMMA PushedOrder ==
    ASSUME NEW t, NEW hs, NEW A, Holds(t, hs, A), Hashed(hs, A),
           NEW e, e \notin A, NEW h \in Nat,
           NEW u, u.nr_buckets = t.nr_buckets,
           Replaced(t, u, BucketOf(h, t.nr_buckets), <<e>> \o BucketFor(t, h))
    PROVE  /\ \A x, y \in A : hs[x] = hs[y] =>
                (Ahead(BucketFor(u, hs[x]), x, y) <=> Ahead(BucketFor(t, hs[x]), x, y))
           /\ ~ Ahead(BucketFor(u, h), e, e)
           /\ \A y \in A : hs[y] = h =>
                Ahead(BucketFor(u, h), e, y) /\ ~ Ahead(BucketFor(u, h), y, e)
<1> DEFINE nb == t.nr_buckets
           b == BucketOf(h, nb)
           s == t.buckets[b]
           H == Home(A, hs, nb, b)
<1>1. nb \in Nat \ {0}
  BY DEF Holds, Shaped
<1>2. b \in 0 .. nb - 1 /\ \A x \in A : BucketOf(hs[x], nb) \in 0 .. nb - 1
  BY <1>1, BucketIn DEF Hashed
<1>3. Listed(s, H)
  BY <1>2 DEF Holds
<1>4. e \notin H /\ \A x \in A : x \in H <=> BucketOf(hs[x], nb) = b
  BY DEF Home
<1>5. /\ u.buckets[b] = <<e>> \o s
      /\ \A c \in 0 .. nb - 1 : c # b => u.buckets[c] = t.buckets[c]
  BY DEF Replaced, BucketFor
<1>6. BucketFor(u, h) = u.buckets[b]
  BY DEF BucketFor
<1>7. \A x \in A : /\ BucketFor(u, hs[x]) = u.buckets[BucketOf(hs[x], nb)]
                   /\ BucketFor(t, hs[x]) = t.buckets[BucketOf(hs[x], nb)]
  BY DEF BucketFor
<1>8. \A y \in A : hs[y] = h => y \in H
  BY <1>4
<1> HIDE DEF nb, b, s, H
<1>9. /\ SameOrder(<<e>> \o s, s, H) /\ ~ Ahead(<<e>> \o s, e, e)
      /\ \A y \in H : Ahead(<<e>> \o s, e, y) /\ ~ Ahead(<<e>> \o s, y, e)
  BY <1>3, <1>4, AheadPush
<1>10. ASSUME NEW x \in A, NEW y \in A, hs[x] = hs[y]
       PROVE  Ahead(BucketFor(u, hs[x]), x, y) <=> Ahead(BucketFor(t, hs[x]), x, y)
  <2>1. CASE BucketOf(hs[x], nb) = b
    <3>1. x \in H /\ y \in H
      BY <1>4, <1>10, <2>1
    <3>2. BucketFor(u, hs[x]) = <<e>> \o s /\ BucketFor(t, hs[x]) = s
      BY <1>5, <1>7, <2>1 DEF s
    <3> QED BY <1>9, <3>1, <3>2 DEF SameOrder
  <2>2. CASE BucketOf(hs[x], nb) # b
    <3>1. BucketFor(u, hs[x]) = BucketFor(t, hs[x])
      BY <1>2, <1>5, <1>7, <2>2
    <3> QED BY <3>1
  <2> QED BY <2>1, <2>2
<1> QED BY <1>5, <1>6, <1>8, <1>9, <1>10

\* One turn of the inner loop keeps the orders opposite: what is pushed was
\* behind what was pushed before.
LEMMA TurnInserted ==
    ASSUME NEW t, NEW hs, NEW A, IsFiniteSet(A), Holds(t, hs, A), Hashed(hs, A),
           NEW from, Turned(from, t, hs, A), NEW e, e \notin A, hs[e] \in Nat,
           ~ Ahead(BucketFor(from, hs[e]), e, e),
           \A y \in A : hs[y] = hs[e] =>
                /\ Ahead(BucketFor(from, hs[e]), y, e)
                /\ ~ Ahead(BucketFor(from, hs[e]), e, y)
    PROVE  Turned(from, EntryInserted(t, e, hs[e]), hs, A \cup {e})
<1> DEFINE u == EntryInserted(t, e, hs[e])
           h == hs[e]
<1>1. Shaped(t)
  BY DEF Holds
<1>2. /\ u.nr_buckets = t.nr_buckets
      /\ Replaced(t, u, BucketOf(h, t.nr_buckets), <<e>> \o BucketFor(t, h))
  BY <1>1, InsertReplaces
<1> HIDE DEF u
<1>3. /\ \A x, y \in A : hs[x] = hs[y] =>
            (Ahead(BucketFor(u, hs[x]), x, y) <=> Ahead(BucketFor(t, hs[x]), x, y))
      /\ ~ Ahead(BucketFor(u, h), e, e)
      /\ \A y \in A : hs[y] = h =>
            Ahead(BucketFor(u, h), e, y) /\ ~ Ahead(BucketFor(u, h), y, e)
  <2> HIDE DEF h
  <2>1. h \in Nat
    BY DEF h
  <2> QED BY <1>2, <2>1, PushedOrder
<1>4. \A x, y \in A : hs[x] = hs[y] =>
         (Ahead(BucketFor(t, hs[x]), x, y) <=> Ahead(BucketFor(from, hs[x]), y, x))
  BY DEF Turned
<1>5. ASSUME NEW x \in A \cup {e}, NEW y \in A \cup {e}, hs[x] = hs[y]
      PROVE  Ahead(BucketFor(u, hs[x]), x, y) <=> Ahead(BucketFor(from, hs[x]), y, x)
  <2>1. CASE x \in A /\ y \in A
    BY <1>3, <1>4, <1>5, <2>1
  <2>2. CASE x = e /\ y \in A
    BY <1>3, <1>5, <2>2
  <2>3. CASE x \in A /\ y = e
    BY <1>3, <1>5, <2>3
  <2>4. CASE x = e /\ y = e
    BY <1>3, <2>4
  <2> QED BY <2>1, <2>2, <2>3, <2>4
<1> QED BY <1>5 DEF Turned, u

\* The function that Moved defines.
MovedInto(to, s, hs) ==
    CHOOSE f : f = [n \in 0 .. Len(s) |->
                    IF n = 0 THEN to ELSE EntryInserted(f[n - 1], s[n], hs[s[n]])]

\* There is such a function.
LEMMA MovedUpTo ==
    ASSUME NEW A, NEW s \in Seq(A), NEW to, NEW hs
    PROVE  MovedInto(to, s, hs) = [n \in 0 .. Len(s) |->
                IF n = 0 THEN to ELSE EntryInserted(MovedInto(to, s, hs)[n - 1], s[n], hs[s[n]])]
<1> DEFINE To(m, f) == f = [n \in 0 .. m |->
                            IF n = 0 THEN to ELSE EntryInserted(f[n - 1], s[n], hs[s[n]])]
           P == {m \in Nat : \E f : To(m, f)}
<1>0. Len(s) \in Nat
  BY LenProperties
<1>1. 0 \in P
  <2> DEFINE f == [n \in 0 .. 0 |-> to]
  <2>1. To(0, f)
    OBVIOUS
  <2> QED BY <2>1
<1>2. ASSUME NEW m \in 0 .. Len(s) - 1, m \in P
      PROVE  m + 1 \in P
  <2>1. m \in Nat /\ m + 1 \in Nat
    BY <1>0
  <2>2. PICK f : To(m, f)
    BY <1>2
  <2> DEFINE last == EntryInserted(f[m], s[m + 1], hs[s[m + 1]])
             g == [n \in 0 .. m + 1 |-> IF n = m + 1 THEN last ELSE f[n]]
  <2>3. ASSUME NEW n \in 0 .. m + 1, n # 0
        PROVE  g[n] = EntryInserted(g[n - 1], s[n], hs[s[n]])
    <3>1. n - 1 \in 0 .. m /\ n - 1 # m + 1 /\ n - 1 \in 0 .. m + 1
      BY <2>1, <2>3
    <3>2. g[n - 1] = f[n - 1]
      BY <3>1
    <3>3. CASE n = m + 1
      <4>1. n - 1 = m
        BY <2>1, <3>3
      <4> QED BY <3>2, <3>3, <4>1
    <3>4. CASE n # m + 1
      <4>1. n \in 0 .. m /\ g[n] = f[n]
        BY <2>1, <3>4
      <4>2. f[n] = EntryInserted(f[n - 1], s[n], hs[s[n]])
        BY <2>2, <2>3, <4>1
      <4> QED BY <3>2, <4>1, <4>2
    <3> QED BY <3>3, <3>4
  <2>4. g[0] = to
    <3>1. 0 \in 0 .. m + 1 /\ 0 \in 0 .. m /\ 0 # m + 1
      BY <2>1
    <3>2. f[0] = to
      BY <2>2, <3>1
    <3> QED BY <3>1, <3>2
  <2> HIDE DEF g
  <2>5. g = [n \in 0 .. m + 1 |-> g[n]]
    BY DEF g
  <2>6. \A n \in 0 .. m + 1 : g[n] = IF n = 0 THEN to
                                     ELSE EntryInserted(g[n - 1], s[n], hs[s[n]])
    BY <2>3, <2>4
  <2>7. To(m + 1, g)
    BY <2>5, <2>6
  <2> QED BY <2>1, <2>7
<1> HIDE DEF P
<1>3. \A n \in 0 .. Len(s) : n \in P
  BY <1>0, <1>1, <1>2, UpTo
<1>4. Len(s) \in P
  BY <1>0, <1>3
<1> QED BY <1>4 DEF P, MovedInto

\* The function that Migrated defines.
MigratedUpTo(t, hs, nb) ==
    CHOOSE f : f = [n \in 0 .. t.nr_buckets |->
                    IF n = 0 THEN CreateHtable(nb)
                    ELSE Moved(f[n - 1], t.buckets[n - 1], hs)]

\* There is such a function.
LEMMA MigratedIs ==
    ASSUME NEW t, t.nr_buckets \in Nat, NEW hs, NEW nb
    PROVE  MigratedUpTo(t, hs, nb) = [n \in 0 .. t.nr_buckets |->
                IF n = 0 THEN CreateHtable(nb) ELSE Moved(MigratedUpTo(t, hs, nb)[n - 1], t.buckets[n - 1], hs)]
<1> DEFINE To(m, f) == f = [n \in 0 .. m |->
                            IF n = 0 THEN CreateHtable(nb) ELSE Moved(f[n - 1], t.buckets[n - 1], hs)]
           P == {m \in Nat : \E f : To(m, f)}
<1>0. t.nr_buckets \in Nat
  OBVIOUS
<1>1. 0 \in P
  <2> DEFINE f == [n \in 0 .. 0 |-> CreateHtable(nb)]
  <2>1. To(0, f)
    OBVIOUS
  <2> QED BY <2>1
<1>2. ASSUME NEW m \in 0 .. t.nr_buckets - 1, m \in P
      PROVE  m + 1 \in P
  <2>1. m \in Nat /\ m + 1 \in Nat
    BY <1>0
  <2>2. PICK f : To(m, f)
    BY <1>2
  <2> DEFINE last == Moved(f[m], t.buckets[m], hs)
             g == [n \in 0 .. m + 1 |-> IF n = m + 1 THEN last ELSE f[n]]
  <2>3. ASSUME NEW n \in 0 .. m + 1, n # 0
        PROVE  g[n] = Moved(g[n - 1], t.buckets[n - 1], hs)
    <3>1. n - 1 \in 0 .. m /\ n - 1 # m + 1 /\ n - 1 \in 0 .. m + 1
      BY <2>1, <2>3
    <3>2. g[n - 1] = f[n - 1]
      BY <3>1
    <3>3. CASE n = m + 1
      <4>1. n - 1 = m
        BY <2>1, <3>3
      <4> QED BY <3>2, <3>3, <4>1
    <3>4. CASE n # m + 1
      <4>1. n \in 0 .. m /\ g[n] = f[n]
        BY <2>1, <3>4
      <4>2. f[n] = Moved(f[n - 1], t.buckets[n - 1], hs)
        BY <2>2, <2>3, <4>1
      <4> QED BY <3>2, <4>1, <4>2
    <3> QED BY <3>3, <3>4
  <2>4. g[0] = CreateHtable(nb)
    <3>1. 0 \in 0 .. m + 1 /\ 0 \in 0 .. m /\ 0 # m + 1
      BY <2>1
    <3>2. f[0] = CreateHtable(nb)
      BY <2>2, <3>1
    <3> QED BY <3>1, <3>2
  <2> HIDE DEF g
  <2>5. g = [n \in 0 .. m + 1 |-> g[n]]
    BY DEF g
  <2>6. \A n \in 0 .. m + 1 : g[n] = IF n = 0 THEN CreateHtable(nb)
                                     ELSE Moved(g[n - 1], t.buckets[n - 1], hs)
    BY <2>3, <2>4
  <2>7. To(m + 1, g)
    BY <2>5, <2>6
  <2> QED BY <2>1, <2>7
<1> HIDE DEF P
<1>3. \A n \in 0 .. t.nr_buckets : n \in P
  BY <1>0, <1>1, <1>2, UpTo
<1>4. t.nr_buckets \in P
  BY <1>0, <1>3
<1> QED BY <1>4 DEF P, MigratedUpTo

\* The inner loop of migrate() adds the entries of the bucket, and turns them
\* around.
LEMMA MovedGives ==
    ASSUME NEW to, NEW hs, NEW A, IsFiniteSet(A), Holds(to, hs, A), Hashed(hs, A),
           NEW from, Turned(from, to, hs, A),
           NEW B, NEW b, Listed(from.buckets[b], B), Hashed(hs, B),
           \A e \in A : BucketOf(hs[e], from.nr_buckets) # b,
           \A e \in B : BucketOf(hs[e], from.nr_buckets) = b
    PROVE  /\ Holds(Moved(to, from.buckets[b], hs), hs, A \cup B)
           /\ Moved(to, from.buckets[b], hs).nr_buckets = to.nr_buckets
           /\ Turned(from, Moved(to, from.buckets[b], hs), hs, A \cup B)
<1> DEFINE s == from.buckets[b]
           into == MovedInto(to, s, hs)
           C(k) == A \cup {s[i] : i \in 1 .. k}
           P == {k \in 0 .. Len(s) : /\ Holds(into[k], hs, C(k)) /\ IsFiniteSet(C(k))
                                     /\ into[k].nr_buckets = to.nr_buckets
                                     /\ Turned(from, into[k], hs, C(k))}
<1>0. s \in Seq(B) /\ Len(s) \in Nat /\ \A i \in 1 .. Len(s) : s[i] \in B
  BY ElementOfSeq, LenProperties DEF Listed
<1>1. Listed(s, B)
  OBVIOUS
<1>2. \A e \in B : BucketFor(from, hs[e]) = s
  BY DEF BucketFor
<1> HIDE DEF s
<1>3. into = [n \in 0 .. Len(s) |->
                IF n = 0 THEN to ELSE EntryInserted(into[n - 1], s[n], hs[s[n]])]
  BY <1>0, MovedUpTo
<1>4. Moved(to, s, hs) = into[Len(s)]
  BY DEF Moved, MovedInto
<1> HIDE DEF into
<1>5. 0 \in P
  <2>1. into[0] = to /\ C(0) = A /\ 0 \in 0 .. Len(s)
    BY <1>0, <1>3
  <2> HIDE DEF C
  <2> QED BY <2>1
<1>6. ASSUME NEW k \in 0 .. Len(s) - 1, k \in P
      PROVE  k + 1 \in P
  <2> DEFINE e == s[k + 1]
  <2>1. k + 1 \in 1 .. Len(s) /\ k + 1 \in 0 .. Len(s) /\ k + 1 # 0 /\ k + 1 - 1 = k
    BY <1>0
  <2>2. into[k + 1] = EntryInserted(into[k], e, hs[e])
    <3>1. \A n \in 0 .. Len(s) : n # 0 => into[n] = EntryInserted(into[n - 1], s[n], hs[s[n]])
      BY <1>3
    <3>2. into[k + 1] = EntryInserted(into[(k + 1) - 1], s[k + 1], hs[s[k + 1]])
      BY <2>1, <3>1
    <3>3. (k + 1) - 1 = k
      BY <2>1
    <3> QED BY <3>2, <3>3
  <2>3. e \in B /\ hs[e] \in Nat
    BY <1>0, <2>1 DEF Hashed
  <2>4. e \notin C(k)
    <3>1. \A i \in 1 .. k : i \in 1 .. Len(s) /\ i # k + 1
      BY <1>0
    <3>2. \A i \in 1 .. k : s[i] # e
      BY <1>1, <2>1, <3>1 DEF Listed
    <3> QED BY <2>3, <3>2
  <2>5. Hashed(hs, C(k)) /\ C(k) \subseteq A \cup B
    <3>1. \A i \in 1 .. k : s[i] \in B
      BY <1>0
    <3> QED BY <3>1 DEF Hashed
  <2>6. ~ Ahead(s, e, e)
    <3> HIDE DEF e
    <3> QED BY <1>1, <2>3, AheadIrreflexive
  <2>7. ASSUME NEW y \in C(k), hs[y] = hs[e]
         PROVE  Ahead(s, y, e) /\ ~ Ahead(s, e, y)
    <3>1. y \notin A
      BY <2>3, <2>7
    <3>2. PICK i \in 1 .. k : s[i] = y
      BY <3>1
    <3>3. i \in 1 .. Len(s) /\ i < k + 1 /\ ~ (k + 1 < i)
      BY <1>0
    <3>4. /\ Ahead(s, s[i], s[k + 1]) <=> i < k + 1
          /\ Ahead(s, s[k + 1], s[i]) <=> k + 1 < i
      BY <1>1, <2>1, <3>3, AheadAt
    <3> QED BY <3>2, <3>3, <3>4
  <2>8. BucketFor(from, hs[e]) = s
    BY <1>2, <2>3
  <2>9. C(k + 1) = C(k) \cup {e}
    <3>1. 1 .. k + 1 = 1 .. k \cup {k + 1}
      BY <1>0
    <3> QED BY <3>1
  <2>10. /\ Holds(into[k], hs, C(k)) /\ IsFiniteSet(C(k)) /\ into[k].nr_buckets = to.nr_buckets
        /\ Turned(from, into[k], hs, C(k))
    BY <1>6
  <2> HIDE DEF C, e
  <2>11. Agree(hs, hs, C(k))
    BY DEF Agree
  <2>12. /\ Holds(into[k + 1], hs, C(k + 1))
        /\ into[k + 1].nr_buckets = to.nr_buckets
    <3> DEFINE u == into[k]
               D == C(k)
               h == hs[e]
    <3>1. IsFiniteSet(D) /\ Holds(u, hs, D) /\ e \notin D /\ h \in Nat /\ hs[e] = h
          /\ Agree(hs, hs, D)
      BY <2>3, <2>4, <2>10, <2>11
    <3> HIDE DEF u, D, h
    <3>2. /\ Holds(EntryInserted(u, e, h), hs, D \cup {e})
          /\ EntryInserted(u, e, h).nr_buckets = u.nr_buckets
      BY <3>1, InsertGives
    <3> QED BY <2>2, <2>9, <2>10, <3>2 DEF u, D, h
  <2>13. IsFiniteSet(C(k + 1))
    BY <2>9, <2>10, FS_AddElement
  <2>14. Turned(from, into[k + 1], hs, C(k + 1))
    <3> DEFINE u == into[k]
               D == C(k)
    <3>1. /\ IsFiniteSet(D) /\ Holds(u, hs, D) /\ Hashed(hs, D) /\ Turned(from, u, hs, D)
          /\ e \notin D /\ hs[e] \in Nat /\ ~ Ahead(BucketFor(from, hs[e]), e, e)
          /\ \A y \in D : hs[y] = hs[e] =>
                /\ Ahead(BucketFor(from, hs[e]), y, e)
                /\ ~ Ahead(BucketFor(from, hs[e]), e, y)
      BY <2>3, <2>4, <2>5, <2>6, <2>7, <2>8, <2>10
    <3> HIDE DEF u, D
    <3>2. Turned(from, EntryInserted(u, e, hs[e]), hs, D \cup {e})
      BY <3>1, TurnInserted
    <3> QED BY <2>2, <2>9, <3>2 DEF u, D
  <2> QED BY <2>1, <2>12, <2>13, <2>14
<1>7. Len(s) \in P
  <2> HIDE DEF P
  <2>1. \A n \in 0 .. Len(s) : n \in P
    BY <1>0, <1>5, <1>6, UpTo
  <2> QED BY <1>0, <2>1
<1>8. C(Len(s)) = A \cup B
  <2>1. \A x \in B : \E i \in 1 .. Len(s) : s[i] = x
    BY <1>1 DEF Listed
  <2>2. {s[i] : i \in 1 .. Len(s)} = B
    BY <1>0, <2>1
  <2> QED BY <2>2
<1> QED BY <1>4, <1>7, <1>8 DEF s

\* migrate() keeps every entry, and turns the order of each hash around.
LEMMA MigratedGives ==
    ASSUME NEW t, NEW hs, NEW A, IsFiniteSet(A), Holds(t, hs, A), Hashed(hs, A),
           NEW nb \in Nat \ {0}, nb \in ToSet(PrimeList)
    PROVE  /\ Holds(Migrated(t, hs, nb), hs, A)
           /\ Migrated(t, hs, nb).nr_buckets = nb
           /\ Turned(t, Migrated(t, hs, nb), hs, A)
<1> DEFINE upto == MigratedUpTo(t, hs, nb)
           N == t.nr_buckets
           C(i) == {e \in A : BucketOf(hs[e], N) < i}
           P == {i \in 0 .. N : /\ Holds(upto[i], hs, C(i)) /\ upto[i].nr_buckets = nb
                                /\ Turned(t, upto[i], hs, C(i))}
<1>0. N \in Nat \ {0}
  BY DEF Holds, Shaped
<1>1. upto = [n \in 0 .. N |->
                IF n = 0 THEN CreateHtable(nb) ELSE Moved(upto[n - 1], t.buckets[n - 1], hs)]
  BY <1>0, MigratedIs
<1>2. Migrated(t, hs, nb) = upto[N]
  BY DEF Migrated, MigratedUpTo
<1> HIDE DEF upto
<1>3. \A e \in A : BucketOf(hs[e], N) \in 0 .. N - 1
  BY <1>0, BucketIn DEF Hashed
<1>4. 0 \in P
  <2>1. upto[0] = CreateHtable(nb)
    BY <1>0, <1>1
  <2>2. C(0) = {}
    BY <1>3
  <2>3. Turned(t, upto[0], hs, {})
    BY DEF Turned
  <2> HIDE DEF C
  <2> QED BY <1>0, <2>1, <2>2, <2>3, CreateGives
<1>5. ASSUME NEW i \in 0 .. N - 1, i \in P
      PROVE  i + 1 \in P
  <2> DEFINE B == Home(A, hs, N, i)
  <2>1. i + 1 \in 0 .. N /\ i + 1 # 0 /\ i + 1 - 1 = i
    BY <1>0
  <2>2. upto[i + 1] = Moved(upto[i], t.buckets[i], hs)
    <3>1. \A n \in 0 .. N : n # 0 => upto[n] = Moved(upto[n - 1], t.buckets[n - 1], hs)
      BY <1>1
    <3>2. upto[i + 1] = Moved(upto[i + 1 - 1], t.buckets[i + 1 - 1], hs)
      BY <2>1, <3>1
    <3> QED BY <2>1, <3>2
  <2>3. Listed(t.buckets[i], B)
    BY DEF Holds
  <2>4. Hashed(hs, B)
    BY DEF Hashed, Home
  <2>5. /\ \A e \in C(i) : BucketOf(hs[e], N) # i
        /\ \A e \in B : BucketOf(hs[e], N) = i
        /\ Hashed(hs, C(i))
    BY <1>3 DEF Home, Hashed
  <2>6. C(i + 1) = C(i) \cup B
    BY <1>3 DEF Home
  <2>7. /\ Holds(upto[i], hs, C(i)) /\ upto[i].nr_buckets = nb
        /\ Turned(t, upto[i], hs, C(i))
    BY <1>5
  <2>8. IsFiniteSet(C(i))
    <3>1. C(i) \in SUBSET A
      OBVIOUS
    <3> QED BY <3>1, FS_Subset
  <2> DEFINE D == C(i)
             to == upto[i]
             s == t.buckets[i]
  <2>9. /\ Holds(upto[i + 1], hs, C(i + 1)) /\ upto[i + 1].nr_buckets = nb
        /\ Turned(t, upto[i + 1], hs, C(i + 1))
    <3>1. /\ IsFiniteSet(D) /\ Holds(to, hs, D) /\ Hashed(hs, D) /\ Turned(t, to, hs, D)
          /\ Listed(t.buckets[i], B) /\ Hashed(hs, B)
          /\ \A e \in D : BucketOf(hs[e], t.nr_buckets) # i
          /\ \A e \in B : BucketOf(hs[e], t.nr_buckets) = i
      BY <2>3, <2>4, <2>5, <2>7, <2>8
    <3>2. to.nr_buckets = nb /\ upto[i + 1] = Moved(to, s, hs) /\ C(i + 1) = D \cup B
      BY <2>2, <2>6, <2>7
    <3> HIDE DEF C, B, D, to
    <3>3. /\ Holds(Moved(to, s, hs), hs, D \cup B)
          /\ Moved(to, s, hs).nr_buckets = to.nr_buckets
          /\ Turned(t, Moved(to, s, hs), hs, D \cup B)
      BY <3>1, MovedGives
    <3> QED BY <3>2, <3>3
  <2> QED BY <2>1, <2>9
<1>6. N \in P
  <2> HIDE DEF P
  <2>1. \A n \in 0 .. N : n \in P
    BY <1>0, <1>4, <1>5, UpTo
  <2> QED BY <1>0, <2>1
<1>7. C(N) = A
  BY <1>0, <1>3
<1> QED BY <1>2, <1>6, <1>7

\* extend_and_rehash(): the same, in at least twice as many buckets as long as
\* the list has such a prime.
LEMMA ExtendGives ==
    ASSUME NEW t, NEW hs, NEW A, IsFiniteSet(A), Holds(t, hs, A), Hashed(hs, A)
    PROVE  /\ Holds(ExtendAndRehash(t, hs), hs, A)
           /\ Turned(t, ExtendAndRehash(t, hs), hs, A)
           /\ \/ ExtendAndRehash(t, hs).nr_buckets >= 2 * t.nr_buckets
              \/ ExtendAndRehash(t, hs).nr_buckets = PrimeList[Len(PrimeList)]
<1> DEFINE nb == PrimeLowerBound(t.nr_buckets * 2)
<1>1. t.nr_buckets \in Nat
  BY DEF Holds, Shaped
<1>2. t.nr_buckets * 2 \in Nat /\ t.nr_buckets * 2 = 2 * t.nr_buckets
  BY <1>1
<1>3. nb \in Nat \ {0} /\ nb \in ToSet(PrimeList)
      /\ (nb >= 2 * t.nr_buckets \/ nb = PrimeList[Len(PrimeList)])
  BY <1>2, PrimeGives
<1>4. ExtendAndRehash(t, hs) = Migrated(t, hs, nb)
  BY DEF ExtendAndRehash
<1> HIDE DEF nb
<1> QED BY <1>3, <1>4, MigratedGives

-----------------------------------------------------------------------------
(* lookup(), lookup_next() and find_entry_link() *)

\* The positions of bucket s from k on whose entries have the hash h.
From(s, hs, k, h) == {j \in 1 .. Len(s) : j >= k /\ hs[s[j]] = h}

\* lookup() leads to the first entry with the hash.
LEMMA LookupGives ==
    ASSUME NEW t, NEW hs, NEW h, NEW s, s = t.buckets[BucketOf(h, t.nr_buckets)]
    PROVE  LET k == Lookup(t, hs, h)
           IN  \/ k = 0 /\ From(s, hs, 1, h) = {}
               \/ k \in From(s, hs, 1, h) /\ From(s, hs, 1, h) = From(s, hs, k, h)
<1> DEFINE I == {i \in 1 .. Len(s) : hs[s[i]] = h}
           k == Lookup(t, hs, h)
<1>1. k = IF I # {} THEN Min(I) ELSE 0
  BY DEF Lookup, SelectInSeq
<1>2. I = From(s, hs, 1, h)
  BY DEF From
<1>3. I \in SUBSET Nat
  OBVIOUS
<1>4. CASE I = {}
  BY <1>1, <1>2, <1>4
<1>5. CASE I # {}
  <2>1. k \in I /\ \A i \in I : k <= i
    <3> HIDE DEF I
    <3> QED BY <1>1, <1>3, <1>5, MinIs
  <2>2. I = From(s, hs, k, h)
    BY <2>1 DEF From
  <2> QED BY <1>2, <2>1, <2>2
<1> QED BY <1>4, <1>5

\* n is the next position behind k with the same hash, 0 when there is none.
LeadsOn(s, hs, k, n) ==
    LET h == hs[s[k]]
    IN  \/ n = 0 /\ From(s, hs, k, h) = {k}
        \/ /\ n \in k + 1 .. Len(s) /\ hs[s[n]] = h
           /\ From(s, hs, k, h) = From(s, hs, n, h) \cup {k}

\* lookup_next() leads to it.
LEMMA LookupNextGives ==
    ASSUME NEW t, NEW hs, NEW b, Len(t.buckets[b]) \in Nat,
           NEW k \in 1 .. Len(t.buckets[b])
    PROVE  LeadsOn(t.buckets[b], hs, k, LookupNext(t, hs, b, k))
<1> DEFINE s == t.buckets[b]
           h == hs[s[k]]
           I == {i \in k + 1 .. Len(s) : hs[s[i]] = h}
           n == LookupNext(t, hs, b, k)
<1>1. n = IF I # {} THEN Min(I) ELSE 0
  BY DEF LookupNext, SelectInSubSeq
<1>2. From(s, hs, k, h) = I \cup {k}
  BY DEF From
<1>3. I \in SUBSET Nat
  OBVIOUS
<1>4. CASE I = {}
  BY <1>1, <1>2, <1>4 DEF LeadsOn
<1>5. CASE I # {}
  <2>1. n \in I /\ \A i \in I : n <= i
    <3> HIDE DEF I, n
    <3> QED BY <1>1, <1>3, <1>5, MinIs
  <2>2. I = From(s, hs, n, h)
    BY <2>1 DEF From
  <2> QED BY <1>2, <2>1, <2>2 DEF LeadsOn
<1> QED BY <1>4, <1>5

\* The function that Visited defines, for bucket b.
WalkFrom(t, hs, b) ==
    CHOOSE f : f = [k \in 0 .. Len(t.buckets[b]) |->
                    IF k = 0 THEN <<>> ELSE <<k>> \o f[LookupNext(t, hs, b, k)]]

\* There is such a function: each link leads further down the bucket.
LEMMA WalkIs ==
    ASSUME NEW t, NEW hs, NEW b, Len(t.buckets[b]) \in Nat
    PROVE  WalkFrom(t, hs, b) = [k \in 0 .. Len(t.buckets[b]) |->
                IF k = 0 THEN <<>>
                ELSE <<k>> \o WalkFrom(t, hs, b)[LookupNext(t, hs, b, k)]]
<1> DEFINE N == Len(t.buckets[b])
           next(k) == LookupNext(t, hs, b, k)
           D(j) == {k \in 0 .. N : k = 0 \/ k > N - j}
           To(j, f) == f = [k \in D(j) |-> IF k = 0 THEN <<>> ELSE <<k>> \o f[next(k)]]
           P == {j \in Nat : \E f : To(j, f)}
<1>0. \A k \in 1 .. N : next(k) = 0 \/ next(k) \in k + 1 .. N
  BY LookupNextGives DEF LeadsOn
<1>1. N \in Nat
  OBVIOUS
<1> HIDE DEF N, next
<1>2. 0 \in P
  <2> DEFINE f == [k \in D(0) |-> <<>>]
  <2>1. D(0) = {0}
    BY <1>1
  <2> HIDE DEF D
  <2>2. f = [k \in D(0) |-> IF k = 0 THEN <<>> ELSE <<k>> \o f[next(k)]]
    BY <2>1
  <2> QED BY <2>2
<1>3. ASSUME NEW j \in 0 .. N - 1, j \in P
      PROVE  j + 1 \in P
  <2> DEFINE m == N - j
  <2>1. j + 1 \in Nat /\ m \in 1 .. N /\ m # 0
    BY <1>1
  <2>2. PICK f : To(j, f)
    BY <1>3
  <2>3. D(j + 1) = D(j) \cup {m} /\ m \notin D(j) /\ 0 \in D(j)
    BY <1>1, <2>1
  <2>4. \A k \in D(j + 1) : k # 0 => next(k) \in D(j)
    <3> SUFFICES ASSUME NEW k \in D(j + 1), k # 0 PROVE next(k) \in D(j)
      OBVIOUS
    <3>1. k \in 1 .. N /\ k >= m
      BY <1>1, <2>1
    <3>2. next(k) = 0 \/ next(k) \in k + 1 .. N
      BY <1>0, <3>1
    <3> QED BY <1>1, <2>1, <2>3, <3>1, <3>2
  <2> HIDE DEF D, m
  <2> DEFINE g == [k \in D(j + 1) |-> IF k = m THEN <<m>> \o f[next(m)] ELSE f[k]]
  <2>5. \A k \in D(j) : k \in D(j + 1) /\ k # m /\ g[k] = f[k]
    BY <2>3
  <2>6. g[m] = <<m>> \o f[next(m)] /\ m \in D(j + 1)
    BY <2>3
  <2>7. g = [k \in D(j + 1) |-> g[k]]
    OBVIOUS
  <2> HIDE DEF g
  <2>8. ASSUME NEW k \in D(j + 1)
        PROVE  g[k] = IF k = 0 THEN <<>> ELSE <<k>> \o g[next(k)]
    <3>1. k # 0 => next(k) \in D(j) /\ g[next(k)] = f[next(k)]
      BY <2>4, <2>5
    <3>2. CASE k = m
      BY <2>1, <2>6, <3>1, <3>2
    <3>3. CASE k # m
      <4>1. k \in D(j)
        BY <2>3, <3>3
      <4>2. f[k] = IF k = 0 THEN <<>> ELSE <<k>> \o f[next(k)]
        BY <2>2, <4>1
      <4> QED BY <2>5, <3>1, <4>1, <4>2
    <3> QED BY <3>2, <3>3
  <2>9. To(j + 1, g)
    BY <2>7, <2>8
  <2> QED BY <2>1, <2>9
<1>4. N \in P
  <2> HIDE DEF P
  <2>1. \A j \in 0 .. N : j \in P
    BY <1>1, <1>2, <1>3, UpTo
  <2> QED BY <1>1, <2>1
<1>5. D(N) = 0 .. N
  BY <1>1
<1> HIDE DEF D
<1>6. \E f : f = [k \in 0 .. N |-> IF k = 0 THEN <<>> ELSE <<k>> \o f[next(k)]]
  BY <1>4, <1>5
<1> QED BY <1>6 DEF N, next, WalkFrom

\* The numbers of M in ascending order.
Ascends(s, M) ==
    /\ M \subseteq Nat /\ Listed(s, M)
    /\ \A i, j \in 1 .. Len(s) : i < j => s[i] < s[j]

LEMMA AscendsEmpty == Ascends(<<>>, {})
BY ListedEmpty, EmptySeq DEF Ascends

LEMMA AscendsPush ==
    ASSUME NEW M, NEW s, Ascends(s, M), NEW m \in Nat, \A n \in M : m < n
    PROVE  Ascends(<<m>> \o s, M \cup {m})
<1> DEFINE t == <<m>> \o s
           N == M \cup {m}
<1>1. Listed(s, M) /\ M \subseteq Nat /\ m \notin M
  BY DEF Ascends
<1>2. Listed(t, N) /\ N \subseteq Nat
  BY <1>1, ListedPush
<1>3. /\ SameOrder(t, s, M) /\ ~ Ahead(t, m, m)
      /\ \A y \in M : Ahead(t, m, y) /\ ~ Ahead(t, y, m)
  BY <1>1, AheadPush
<1> HIDE DEF t
<1>4. \A i \in 1 .. Len(t) : t[i] \in N
  BY <1>2, ElementOfSeq DEF Listed
<1>5. ASSUME NEW x \in N, NEW y \in N, Ahead(t, x, y) PROVE x < y
  <2>1. CASE x = m
    BY <1>3, <1>5, <2>1
  <2>2. CASE x \in M /\ y \in M
    <3>1. Ahead(s, x, y)
      BY <1>3, <1>5, <2>2 DEF SameOrder
    <3>2. PICK i \in 1 .. Len(s), j \in 1 .. Len(s) : i < j /\ s[i] = x /\ s[j] = y
      BY <3>1 DEF Ahead
    <3> QED BY <3>2 DEF Ascends
  <2> QED BY <1>3, <1>5, <2>1, <2>2
<1>6. ASSUME NEW i \in 1 .. Len(t), NEW j \in 1 .. Len(t), i < j PROVE t[i] < t[j]
  <2>1. Ahead(t, t[i], t[j])
    BY <1>6 DEF Ahead
  <2> HIDE DEF N
  <2> QED BY <1>4, <1>5, <2>1
<1>7. Ascends(t, N)
  BY <1>2, <1>6 DEF Ascends
<1> QED BY <1>7 DEF t

\* The walk from position k meets every later entry with the hash, each once and
\* in the order of the bucket.
LEMMA WalkGives ==
    ASSUME NEW t, NEW hs, NEW b, Len(t.buckets[b]) \in Nat,
           NEW k \in 1 .. Len(t.buckets[b])
    PROVE  Ascends(WalkFrom(t, hs, b)[k], From(t.buckets[b], hs, k, hs[t.buckets[b][k]]))
<1> DEFINE s == t.buckets[b]
           N == Len(s)
           walk == WalkFrom(t, hs, b)
           next(i) == LookupNext(t, hs, b, i)
           Met(i) == From(s, hs, i, hs[s[i]])
           D(j) == {i \in 1 .. N : i > N - j}
           P == {j \in Nat : \A i \in D(j) : Ascends(walk[i], Met(i))}
<1>0. walk = [i \in 0 .. N |-> IF i = 0 THEN <<>> ELSE <<i>> \o walk[next(i)]]
  BY WalkIs
<1>1. \A i \in 1 .. N : LeadsOn(s, hs, i, next(i))
  BY LookupNextGives
<1>2. N \in Nat /\ k \in 1 .. N
  OBVIOUS
<1> HIDE DEF s, N, walk, next
<1>3. walk[0] = <<>> /\ \A i \in 1 .. N : walk[i] = <<i>> \o walk[next(i)]
  <2>1. \A i \in 1 .. N : i \in 0 .. N /\ i # 0
    BY <1>2
  <2>2. 0 \in 0 .. N
    BY <1>2
  <2> QED BY <1>0, <2>1, <2>2
<1>4. 0 \in P
  BY <1>2
<1>5. ASSUME NEW j \in 0 .. N - 1, j \in P
      PROVE  j + 1 \in P
  <2> DEFINE m == N - j
             n == next(m)
  <2>1. j + 1 \in Nat /\ m \in 1 .. N /\ m # 0 /\ j \in Nat
    BY <1>2
  <2>2. D(j + 1) = D(j) \cup {m}
    BY <1>2
  <2>3. \A i \in m + 1 .. N : i \in D(j)
    BY <1>2
  <2>4. \A i \in D(j) : Ascends(walk[i], Met(i))
    BY <1>5
  <2>5. LeadsOn(s, hs, m, n) /\ walk[m] = <<m>> \o walk[n]
    BY <1>1, <1>3, <2>1
  <2> HIDE DEF D, m, n
  <2>6. Ascends(walk[m], Met(m))
    <3>1. CASE n = 0 /\ Met(m) = {m}
      <4>1. Ascends(<<m>> \o <<>>, {} \cup {m})
        <5>1. m \in Nat /\ \A i \in {} : m < i
          BY <2>1
        <5> QED BY <5>1, AscendsEmpty, AscendsPush
      <4>2. {} \cup {m} = {m} /\ walk[m] = <<m>> \o <<>>
        BY <1>3, <2>5, <3>1
      <4> QED BY <3>1, <4>1, <4>2
    <3>2. CASE /\ n \in m + 1 .. Len(s) /\ hs[s[n]] = hs[s[m]]
               /\ Met(m) = From(s, hs, n, hs[s[m]]) \cup {m}
      <4>1. n \in m + 1 .. N /\ Met(m) = Met(n) \cup {m}
        BY <3>2 DEF N
      <4>2. Ascends(walk[n], Met(n))
        BY <2>3, <2>4, <4>1
      <4>3. m \in Nat /\ \A i \in Met(n) : m < i
        <5>1. \A i \in 1 .. Len(s) : i >= n => m < i
          BY <1>2, <2>1, <4>1 DEF N
        <5> QED BY <2>1, <5>1 DEF From
      <4> HIDE DEF Met
      <4>4. Ascends(<<m>> \o walk[n], Met(n) \cup {m})
        BY <4>2, <4>3, AscendsPush
      <4> QED BY <2>5, <4>1, <4>4
    <3> QED BY <2>5, <3>1, <3>2 DEF LeadsOn
  <2> HIDE DEF Met
  <2> QED BY <2>1, <2>2, <2>4, <2>6
<1>6. N \in P
  <2> HIDE DEF P
  <2>1. \A j \in 0 .. N : j \in P
    BY <1>2, <1>4, <1>5, UpTo
  <2> QED BY <1>2, <2>1
<1>7. k \in D(N)
  BY <1>2
<1>8. Ascends(walk[k], Met(k))
  <2> HIDE DEF D, Met
  <2> QED BY <1>6, <1>7
<1> QED BY <1>8 DEF walk, s

\* A lookup() / lookup_next() loop meets every entry of the bucket with the
\* hash, each once and in the bucket's order, and no other.
LEMMA VisitedGives ==
    ASSUME NEW t, NEW hs, NEW h,
           Len(t.buckets[BucketOf(h, t.nr_buckets)]) \in Nat
    PROVE  Ascends(Visited(t, hs, h), From(t.buckets[BucketOf(h, t.nr_buckets)], hs, 1, h))
<1> DEFINE b == BucketOf(h, t.nr_buckets)
           s == t.buckets[b]
           k == Lookup(t, hs, h)
           walk == WalkFrom(t, hs, b)
<1>1. Visited(t, hs, h) = walk[k]
  BY DEF Visited, WalkFrom
<1>2. walk = [i \in 0 .. Len(s) |->
                IF i = 0 THEN <<>> ELSE <<i>> \o walk[LookupNext(t, hs, b, i)]]
  <2>1. Len(t.buckets[b]) \in Nat
    OBVIOUS
  <2> HIDE DEF b
  <2> QED BY <2>1, WalkIs
<1>3. \/ k = 0 /\ From(s, hs, 1, h) = {}
      \/ k \in From(s, hs, 1, h) /\ From(s, hs, 1, h) = From(s, hs, k, h)
  BY LookupGives
<1>4. CASE k = 0 /\ From(s, hs, 1, h) = {}
  <2>1. walk[0] = <<>>
    BY <1>2
  <2> QED BY <1>1, <1>4, <2>1, AscendsEmpty
<1>5. CASE k \in From(s, hs, 1, h) /\ From(s, hs, 1, h) = From(s, hs, k, h)
  <2>1. k \in 1 .. Len(s) /\ hs[s[k]] = h
    BY <1>5 DEF From
  <2>2. Ascends(walk[k], From(s, hs, k, hs[s[k]]))
    BY <2>1, WalkGives
  <2> QED BY <1>1, <1>5, <2>1, <2>2
<1> QED BY <1>3, <1>4, <1>5

\* find_entry_link() finds every entry of the table.
LEMMA FindGives ==
    ASSUME NEW t, NEW hs, NEW A, Holds(t, hs, A), Hashed(hs, A), NEW e \in A
    PROVE  LET b == BucketOf(hs[e], t.nr_buckets)
               k == FindEntryLink(t, hs, e)
           IN  /\ b \in 0 .. t.nr_buckets - 1
               /\ k \in 1 .. Len(t.buckets[b]) /\ t.buckets[b][k] = e
<1> DEFINE nb == t.nr_buckets
           h == hs[e]
           b == BucketOf(h, nb)
           s == t.buckets[b]
           v == Visited(t, hs, h)
           I == {i \in 1 .. Len(v) : s[v[i]] = e}
           p == IF I # {} THEN Min(I) ELSE 0
           k == FindEntryLink(t, hs, e)
<1>1. h \in Nat /\ nb \in Nat \ {0}
  BY DEF Hashed, Holds, Shaped
<1>2. b \in 0 .. nb - 1
  BY <1>1, BucketIn
<1>3. Listed(s, Home(A, hs, nb, b))
  BY <1>2 DEF Holds
<1>4. Len(s) \in Nat
  BY <1>3, LenProperties DEF Listed
<1>5. Listed(v, From(s, hs, 1, h))
  BY <1>4, VisitedGives DEF Ascends
<1>6. k = IF p = 0 THEN 0 ELSE v[p]
  BY DEF FindEntryLink, SelectInSeq
<1>7. PICK j \in 1 .. Len(s) : s[j] = e
  <2>1. e \in Home(A, hs, nb, b)
    BY DEF Home
  <2> QED BY <1>3, <2>1 DEF Listed
<1>8. j \in From(s, hs, 1, h)
  BY <1>7 DEF From
<1>9. PICK i \in 1 .. Len(v) : v[i] = j
  <2> HIDE DEF v, s, h
  <2> QED BY <1>5, <1>8 DEF Listed
<1>10. i \in I /\ I \in SUBSET Nat
  BY <1>7, <1>9
<1>11. p \in I /\ p # 0
  <2>1. Min(I) \in I /\ I # {}
    <3> HIDE DEF I
    <3> QED BY <1>10, MinIs
  <2>2. \A q \in I : q # 0
    OBVIOUS
  <2> HIDE DEF I
  <2> QED BY <2>1, <2>2
<1>12. p \in 1 .. Len(v) /\ s[v[p]] = e
  BY <1>11
<1>13. v[p] \in From(s, hs, 1, h)
  <2> HIDE DEF v, s, h, p
  <2> QED BY <1>5, <1>12, ElementOfSeq DEF Listed
<1>14. v[p] \in 1 .. Len(s)
  <2> HIDE DEF v, s, p
  <2> QED BY <1>13 DEF From
<1> HIDE DEF p, v
<1> QED BY <1>2, <1>6, <1>11, <1>12, <1>14

-----------------------------------------------------------------------------
(* Chains *)

\* The entries of A with hash h.
With(A, hs, h) == {e \in A : hs[e] = h}

\* c is the chain of h: these entries, in the order of their bucket.
IsChain(c, t, hs, A, h) ==
    /\ Listed(c, With(A, hs, h))
    /\ SameOrder(c, BucketFor(t, h), With(A, hs, h))

\* There is only one.
LEMMA OneChain ==
    ASSUME NEW t, NEW hs, NEW A, NEW h, NEW c, IsChain(c, t, hs, A, h),
           NEW d, IsChain(d, t, hs, A, h)
    PROVE  c = d
<1>1. SameOrder(c, d, With(A, hs, h))
  BY DEF IsChain, SameOrder
<1> QED BY <1>1, OneListing DEF IsChain

\* The entries with a hash are in its bucket.
LEMMA WithHome ==
    ASSUME NEW t, NEW hs, NEW A, Holds(t, hs, A), NEW h \in Nat
    PROVE  LET b == BucketOf(h, t.nr_buckets)
           IN  /\ t.nr_buckets \in Nat \ {0} /\ b \in 0 .. t.nr_buckets - 1
               /\ Listed(BucketFor(t, h), Home(A, hs, t.nr_buckets, b))
               /\ With(A, hs, h) \subseteq Home(A, hs, t.nr_buckets, b)
<1> DEFINE b == BucketOf(h, t.nr_buckets)
<1>1. t.nr_buckets \in Nat \ {0}
  BY DEF Holds, Shaped
<1>2. b \in 0 .. t.nr_buckets - 1
  BY <1>1, BucketIn
<1>3. Listed(t.buckets[b], Home(A, hs, t.nr_buckets, b))
  BY <1>2 DEF Holds
<1>4. With(A, hs, h) \subseteq Home(A, hs, t.nr_buckets, b)
  BY DEF With, Home
<1> QED BY <1>1, <1>2, <1>3, <1>4 DEF BucketFor

\* The walk sees the chain.
LEMMA ChainOfIs ==
    ASSUME NEW t, NEW hs, NEW A, Holds(t, hs, A), NEW h \in Nat
    PROVE  /\ IsChain(ChainOf(t, hs, h), t, hs, A, h)
           /\ DOMAIN ChainOf(t, hs, h) = DOMAIN Visited(t, hs, h)
           /\ Len(ChainOf(t, hs, h)) = Len(Visited(t, hs, h))
<1> DEFINE b == BucketOf(h, t.nr_buckets)
           s == t.buckets[b]
           H == Home(A, hs, t.nr_buckets, b)
           W == With(A, hs, h)
           M == From(s, hs, 1, h)
           ks == Visited(t, hs, h)
           n == Len(ks)
           c == ChainOf(t, hs, h)
<1>1. Listed(s, H) /\ W \subseteq H /\ BucketFor(t, h) = s
  BY WithHome DEF BucketFor
<1>2. Len(s) \in Nat /\ \A i \in 1 .. Len(s) : s[i] \in H
  BY <1>1, ElementOfSeq, LenProperties DEF Listed
<1>3. Ascends(ks, M)
  BY <1>2, VisitedGives
<1>4. \A j \in M : j \in 1 .. Len(s) /\ s[j] \in W
  <2>1. \A j \in M : j \in 1 .. Len(s) /\ hs[s[j]] = h
    BY DEF From
  <2>2. H \subseteq A
    BY DEF Home
  <2> HIDE DEF M, H, s
  <2> QED BY <1>2, <2>1, <2>2 DEF With
<1>5. \A e \in W : \E j \in M : s[j] = e
  <2> SUFFICES ASSUME NEW e \in W PROVE \E j \in M : s[j] = e
    OBVIOUS
  <2>1. PICK j \in 1 .. Len(s) : s[j] = e
    BY <1>1 DEF Listed
  <2>2. hs[e] = h
    BY DEF With
  <2> QED BY <2>1, <2>2 DEF From
<1>6. c = [i \in DOMAIN ks |-> s[ks[i]]]
  BY DEF ChainOf
<1> HIDE DEF ks, M, W, H, s, c
<1>7. /\ DOMAIN ks = 1 .. n /\ n \in Nat /\ \A i \in 1 .. n : ks[i] \in M
      /\ \A j \in M : \E i \in 1 .. n : ks[i] = j
      /\ \A i, j \in 1 .. n : i < j => ks[i] < ks[j]
      /\ M \subseteq Nat
  BY <1>3, ElementOfSeq, LenProperties DEF Ascends, Listed
<1> HIDE DEF n
<1>8. c \in [1 .. n -> W] /\ \A i \in 1 .. n : c[i] = s[ks[i]]
  BY <1>4, <1>6, <1>7
<1>9. c \in Seq(W) /\ Len(c) = n /\ DOMAIN c = 1 .. n
  BY <1>7, <1>8, SeqDef, LenProperties
<1>10. ASSUME NEW i \in 1 .. n, NEW j \in 1 .. n
       PROVE  /\ Ahead(s, c[i], c[j]) <=> i < j
              /\ c[i] = c[j] => i = j
  <2>1. ks[i] \in M /\ ks[j] \in M /\ ks[i] \in Nat /\ ks[j] \in Nat
    BY <1>7
  <2>2. ks[i] \in 1 .. Len(s) /\ ks[j] \in 1 .. Len(s)
    BY <1>4, <2>1
  <2>3. Ahead(s, s[ks[i]], s[ks[j]]) <=> ks[i] < ks[j]
    BY <1>1, <2>2, AheadAt
  <2>4. s[ks[i]] = s[ks[j]] => ks[i] = ks[j]
    BY <1>1, <2>2 DEF Listed
  <2>5. i < j \/ i = j \/ j < i
    BY <1>7
  <2>6. (i < j => ks[i] < ks[j]) /\ (j < i => ks[j] < ks[i])
    BY <1>7
  <2>7. (ks[i] < ks[j] <=> i < j) /\ (ks[i] = ks[j] => i = j)
    BY <1>7, <2>1, <2>5, <2>6
  <2>8. c[i] = s[ks[i]] /\ c[j] = s[ks[j]]
    BY <1>8
  <2> QED BY <2>3, <2>4, <2>7, <2>8
<1>11. ASSUME NEW e \in W PROVE \E i \in 1 .. n : c[i] = e
  <2>1. PICK j \in M : s[j] = e
    BY <1>5
  <2>2. PICK i \in 1 .. n : ks[i] = j
    BY <1>7
  <2>3. c[i] = s[ks[i]]
    BY <1>8
  <2> QED BY <2>1, <2>2, <2>3
<1>12. Listed(c, W)
  BY <1>9, <1>10, <1>11 DEF Listed
<1>13. ASSUME NEW x \in W, NEW y \in W PROVE Ahead(c, x, y) <=> Ahead(s, x, y)
  <2>1. PICK i \in 1 .. n : c[i] = x
    BY <1>11
  <2>2. PICK j \in 1 .. n : c[j] = y
    BY <1>11
  <2>3. Ahead(c, c[i], c[j]) <=> i < j
    BY <1>9, <1>12, AheadAt
  <2> QED BY <1>10, <2>1, <2>2, <2>3
<1>14. SameOrder(c, s, W)
  BY <1>13 DEF SameOrder
<1> QED BY <1>1, <1>7, <1>9, <1>12, <1>14 DEF IsChain, c, W, ks, n

\* insert_entry() pushes at the head of one chain.
LEMMA ChainPushed ==
    ASSUME NEW t, NEW hs, NEW A, Holds(t, hs, A), Hashed(hs, A),
           NEW e, e \notin A, NEW h \in Nat, NEW gs, Agree(gs, hs, A), gs[e] = h,
           NEW g \in Nat, NEW c, IsChain(c, t, hs, A, g)
    PROVE  IsChain(IF g = h THEN <<e>> \o c ELSE c, EntryInserted(t, e, h), gs, A \cup {e}, g)
<1> DEFINE u == EntryInserted(t, e, h)
           W == With(A, hs, g)
           V == With(A \cup {e}, gs, g)
<1>1. Shaped(t)
  BY DEF Holds
<1>2. /\ u.nr_buckets = t.nr_buckets
      /\ Replaced(t, u, BucketOf(h, t.nr_buckets), <<e>> \o BucketFor(t, h))
  BY <1>1, InsertReplaces
<1> HIDE DEF u
<1>3. /\ \A x, y \in A : hs[x] = hs[y] =>
            (Ahead(BucketFor(u, hs[x]), x, y) <=> Ahead(BucketFor(t, hs[x]), x, y))
      /\ ~ Ahead(BucketFor(u, h), e, e)
      /\ \A y \in A : hs[y] = h =>
            Ahead(BucketFor(u, h), e, y) /\ ~ Ahead(BucketFor(u, h), y, e)
  BY <1>2, PushedOrder
<1>4. \A x \in W : x \in A /\ hs[x] = g
  BY DEF With
<1>5. SameOrder(BucketFor(u, g), BucketFor(t, g), W)
  BY <1>3, <1>4 DEF SameOrder
<1>6. Listed(c, W) /\ SameOrder(c, BucketFor(t, g), W)
  BY DEF IsChain
<1>7. V = IF g = h THEN W \cup {e} ELSE W
  BY DEF With, Agree
<1> HIDE DEF W, V
<1>8. CASE g # h
  <2>1. Listed(c, V) /\ SameOrder(c, BucketFor(u, g), V)
    BY <1>5, <1>6, <1>7, <1>8 DEF SameOrder
  <2> QED BY <1>8, <2>1 DEF IsChain, u, V
<1>9. CASE g = h
  <2> DEFINE d == <<e>> \o c
  <2>1. e \notin W
    BY <1>4
  <2>2. Listed(d, V)
    BY <1>6, <1>7, <1>9, <2>1, ListedPush
  <2>3. /\ SameOrder(d, c, W) /\ ~ Ahead(d, e, e)
        /\ \A y \in W : Ahead(d, e, y) /\ ~ Ahead(d, y, e)
    BY <1>6, <2>1, AheadPush
  <2> HIDE DEF d
  <2>4. ASSUME NEW x \in V, NEW y \in V
        PROVE  Ahead(d, x, y) <=> Ahead(BucketFor(u, g), x, y)
    <3>1. CASE x \in W /\ y \in W
      BY <1>5, <1>6, <2>3, <3>1 DEF SameOrder
    <3>2. CASE x = e /\ y \in W
      BY <1>3, <1>4, <1>9, <2>3, <3>2
    <3>3. CASE x \in W /\ y = e
      BY <1>3, <1>4, <1>9, <2>3, <3>3
    <3>4. CASE x = e /\ y = e
      BY <1>3, <1>9, <2>3, <3>4
    <3> QED BY <1>7, <1>9, <3>1, <3>2, <3>3, <3>4
  <2>5. SameOrder(d, BucketFor(u, g), V)
    BY <2>4 DEF SameOrder
  <2> QED BY <1>9, <2>2, <2>5 DEF IsChain, d, u, V
<1> QED BY <1>8, <1>9

\* RemoveFirst on a listing.
LEMMA RemoveFirstGives ==
    ASSUME NEW A, NEW s, Listed(s, A), NEW e
    PROVE  /\ Listed(RemoveFirst(s, e), A \ {e})
           /\ SameOrder(RemoveFirst(s, e), s, A \ {e})
<1> DEFINE I == {i \in 1 .. Len(s) : s[i] = e}
           k == IF I # {} THEN Min(I) ELSE 0
<1>1. RemoveFirst(s, e) = IF I # {} THEN RemoveAt(s, k) ELSE s
  BY DEF RemoveFirst, SelectInSeq
<1>2. CASE I = {}
  <2>1. A \ {e} = A
    BY <1>2 DEF Listed
  <2> QED BY <1>1, <1>2, <2>1 DEF SameOrder
<1>3. CASE I # {}
  <2>1. k \in 1 .. Len(s) /\ s[k] = e
    <3>1. I \in SUBSET Nat
      OBVIOUS
    <3>2. Min(I) \in I
      <4> HIDE DEF I
      <4> QED BY <1>3, <3>1, MinIs
    <3> QED BY <1>3, <3>2
  <2> HIDE DEF k, I
  <2>2. Listed(RemoveAt(s, k), A \ {s[k]}) /\ SameOrder(RemoveAt(s, k), s, A \ {s[k]})
    BY <2>1, ListedRemove, AheadRemove
  <2> QED BY <1>1, <1>3, <2>1, <2>2
<1> QED BY <1>2, <1>3

\* extract_entry() takes the entry out of its chain.
LEMMA ChainDropped ==
    ASSUME NEW t, NEW hs, NEW A, Holds(t, hs, A),
           NEW b \in 0 .. t.nr_buckets - 1, NEW k \in 1 .. Len(t.buckets[b]),
           NEW e, e = t.buckets[b][k], NEW gs, Agree(gs, hs, A \ {e}),
           NEW g \in Nat, NEW c, IsChain(c, t, hs, A, g)
    PROVE  IsChain(RemoveFirst(c, e), Extracted(t, b, k), gs, A \ {e}, g)
<1> DEFINE u == Extracted(t, b, k)
           s == t.buckets[b]
           W == With(A, hs, g)
           V == With(A \ {e}, gs, g)
           d == RemoveFirst(c, e)
<1>1. Shaped(t) /\ Listed(s, Home(A, hs, t.nr_buckets, b))
  BY DEF Holds
<1>2. u.nr_buckets = t.nr_buckets /\ Replaced(t, u, b, RemoveAt(s, k))
  BY <1>1, ExtractReplaces
<1>3. V = W \ {e}
  BY DEF With, Agree
<1>4. Listed(c, W) /\ SameOrder(c, BucketFor(t, g), W)
  BY DEF IsChain
<1> HIDE DEF u, W, V
<1>5. Listed(d, V) /\ SameOrder(d, c, V)
  BY <1>3, <1>4, RemoveFirstGives
<1> HIDE DEF d
<1>6. SameOrder(BucketFor(u, g), BucketFor(t, g), V)
  <2> DEFINE x == BucketOf(g, t.nr_buckets)
             H == Home(A, hs, t.nr_buckets, x)
  <2>1. x \in 0 .. t.nr_buckets - 1 /\ W \subseteq H
    BY WithHome DEF W
  <2>2. BucketFor(u, g) = u.buckets[x] /\ BucketFor(t, g) = t.buckets[x]
    BY <1>2 DEF BucketFor
  <2>3. CASE x = b
    <3>1. SameOrder(RemoveAt(s, k), s, H \ {e})
      BY <1>1, <2>3, AheadRemove
    <3>2. BucketFor(u, g) = RemoveAt(s, k) /\ BucketFor(t, g) = s
      BY <1>2, <2>2, <2>3 DEF Replaced
    <3>3. V \subseteq H \ {e}
      BY <1>3, <2>1
    <3> HIDE DEF H, s
    <3> QED BY <3>1, <3>2, <3>3 DEF SameOrder
  <2>4. CASE x # b
    <3>1. BucketFor(u, g) = BucketFor(t, g)
      BY <1>2, <2>1, <2>2, <2>4 DEF Replaced
    <3> QED BY <3>1 DEF SameOrder
  <2> QED BY <2>3, <2>4
<1>7. SameOrder(d, BucketFor(u, g), V)
  BY <1>3, <1>4, <1>5, <1>6 DEF SameOrder
<1> QED BY <1>5, <1>7 DEF IsChain, d, u, V

\* migrate() turns every chain around.
LEMMA ChainTurned ==
    ASSUME NEW t, NEW u, NEW hs, NEW A, Turned(t, u, hs, A),
           NEW g, NEW c, IsChain(c, t, hs, A, g)
    PROVE  IsChain(Reverse(c), u, hs, A, g)
<1> DEFINE W == With(A, hs, g)
           d == Reverse(c)
<1>1. Listed(c, W) /\ SameOrder(c, BucketFor(t, g), W)
  BY DEF IsChain
<1>2. \A x \in W : x \in A /\ hs[x] = g
  BY DEF With
<1> HIDE DEF W
<1>3. Listed(d, W) /\ \A x, y \in W : Ahead(d, x, y) <=> Ahead(c, y, x)
  BY <1>1, ReverseGives
<1> HIDE DEF d
<1>4. \A x, y \in W : Ahead(BucketFor(u, g), x, y) <=> Ahead(BucketFor(t, g), y, x)
  BY <1>2 DEF Turned
<1>5. SameOrder(d, BucketFor(u, g), W)
  BY <1>1, <1>3, <1>4 DEF SameOrder
<1> QED BY <1>3, <1>5 DEF IsChain, d, W

-----------------------------------------------------------------------------
(* The load of the table *)

\* The bound of CountsEntries.
Bound(nb) == (3 * nb) \div 4 + 1

\* Without growing, the test of sftfs_htable_new_entry() leaves room for one.
LEMMA NotFull ==
    ASSUME NEW t, t.nr_buckets \in Nat, t.nr_entries \in Nat, ~ Full(t)
    PROVE  t.nr_entries + 1 <= Bound(t.nr_buckets)
<1> DEFINE nb == t.nr_buckets
           n == t.nr_entries
<1>1. n <= (nb \div 2 + nb) \div 2 /\ nb \in Nat /\ n \in Nat
  BY DEF Full
<1> HIDE DEF nb, n
<1>2. (nb \div 2 + nb) \div 2 <= (3 * nb) \div 4
  BY <1>1
<1> QED BY <1>1, <1>2 DEF Bound, nb, n

\* Twice the buckets have room for one more.
LEMMA TwiceAsMany ==
    ASSUME NEW nb \in Nat \ {0}, NEW n \in Nat, n <= Bound(nb),
           NEW m \in Nat, m >= 2 * nb
    PROVE  n + 1 <= Bound(m)
<1>1. (3 * nb) \div 4 + 1 <= (3 * m) \div 4
  BY SMT
<1> QED BY <1>1 DEF Bound

-----------------------------------------------------------------------------
(* The invariant *)

TableInv ==
    /\ hash \in [Entry -> HashVal \cup {None}]
    /\ Holds(table, hash, Allocated)
    /\ table.nr_entries <= Bound(table.nr_buckets)

\* There are finitely many entries, and those of the table have hashes.
LEMMA Entries ==
    ASSUME TableInv
    PROVE  /\ IsFiniteSet(Allocated) /\ Hashed(hash, Allocated)
           /\ \A e \in Allocated : hash[e] \in HashVal
           /\ Cardinality(Allocated) \in Nat
           /\ table.nr_buckets \in Nat \ {0} /\ table.nr_entries \in Nat
<1>1. Allocated \in SUBSET Entry
  BY DEF Allocated
<1>2. IsFiniteSet(Allocated) /\ Cardinality(Allocated) \in Nat
  BY <1>1, EntryAssumption, FS_Subset, FS_CardinalityType
<1>3. \A e \in Allocated : hash[e] \in HashVal
  BY DEF TableInv, Allocated
<1>4. Hashed(hash, Allocated)
  BY <1>3, HashAssumption DEF Hashed
<1>5. table.nr_buckets \in Nat \ {0} /\ table.nr_entries = Cardinality(Allocated)
  BY DEF TableInv, Holds, Shaped
<1> QED BY <1>2, <1>3, <1>4, <1>5

\* The invariant of a table with the same buckets and no more entries.
LEMMA NoMoreEntries ==
    ASSUME TableInv, hash' \in [Entry -> HashVal \cup {None}],
           Holds(table', hash', Allocated'), table'.nr_buckets = table.nr_buckets,
           Cardinality(Allocated') <= Cardinality(Allocated)
    PROVE  TableInv'
<1>1. table'.nr_entries = Cardinality(Allocated')
  BY DEF Holds
<1>2. table.nr_entries = Cardinality(Allocated)
  BY DEF TableInv, Holds
<1>3. Allocated' \in SUBSET Entry
  BY DEF Allocated
<1>4. Cardinality(Allocated') \in Nat /\ Cardinality(Allocated) \in Nat
  BY <1>3, Entries, EntryAssumption, FS_Subset, FS_CardinalityType
<1>5. Bound(table.nr_buckets) \in Int
  BY Entries DEF Bound
<1> QED BY <1>1, <1>2, <1>4, <1>5 DEF TableInv

\* The table starts empty.
LEMMA TableStart == Init => TableInv
<1> SUFFICES ASSUME Init PROVE TableInv
  OBVIOUS
<1>0. PICK nr \in Target : table = HtableCreate(nr)
  BY DEF Init
<1> DEFINE nb == PrimeLowerBound(nr)
<1>1. nb \in Nat \ {0} /\ nb \in ToSet(PrimeList)
  BY TargetAssumption, PrimeGives
<1>2. table = CreateHtable(nb) /\ hash = [e \in Entry |-> None]
  BY <1>0 DEF Init, HtableCreate
<1> HIDE DEF nb
<1>3. Allocated = {}
  BY <1>2 DEF Allocated
<1>4. Holds(table, hash, Allocated) /\ table.nr_buckets = nb
  BY <1>1, <1>2, <1>3, CreateGives
<1>5. table.nr_entries = 0
  BY <1>3, <1>4, FS_EmptySet DEF Holds
<1>6. 0 <= Bound(nb)
  BY <1>1 DEF Bound
<1> QED BY <1>2, <1>4, <1>5, <1>6 DEF TableInv

\* A new entry, in a table that grew first if it was full.
LEMMA NewEntryStep ==
    ASSUME TableInv, NEW e \in Entry, NEW h \in HashVal, NewEntry(e, h)
    PROVE  TableInv'
<1> DEFINE t == IF Full(table) THEN ExtendAndRehash(table, hash) ELSE table
           A == Allocated
           C == Cardinality(A)
<1>1. e \notin A /\ hash' = [hash EXCEPT ![e] = h] /\ table' = EntryInserted(t, e, h)
  BY DEF NewEntry
<1>2. h \in Nat /\ h # None
  BY HashAssumption
<1>3. /\ IsFiniteSet(A) /\ Hashed(hash, A) /\ C \in Nat
      /\ table.nr_buckets \in Nat \ {0} /\ table.nr_entries \in Nat
  BY Entries
<1>4. hash' \in [Entry -> HashVal \cup {None}] /\ hash'[e] = h /\ Agree(hash', hash, A)
  BY <1>1 DEF TableInv, Agree, Allocated
<1>5. Allocated' = A \cup {e}
  BY <1>1, <1>2 DEF Allocated, TableInv
<1>6. Holds(table, hash, A) /\ table.nr_entries = C
      /\ table.nr_entries <= Bound(table.nr_buckets)
  BY DEF TableInv, Holds
<1>7. C + 1 = Cardinality(A \cup {e}) /\ C + 1 <= Cardinality(Entry)
  <2>1. A \cup {e} \in SUBSET Entry
    BY DEF Allocated
  <2> HIDE DEF A
  <2>2. Cardinality(A \cup {e}) = C + 1
    BY <1>1, <1>3, FS_AddElement
  <2> QED BY <2>1, <2>2, EntryAssumption, FS_Subset
<1> HIDE DEF A
<1>8. Holds(t, hash, A) /\ t.nr_buckets \in Nat /\ C + 1 <= Bound(t.nr_buckets)
  <2>1. CASE ~ Full(table)
    <3>1. t = table
      BY <2>1
    <3> HIDE DEF C, t
    <3> QED BY <1>3, <1>6, <2>1, <3>1, NotFull
  <2>2. CASE Full(table)
    <3>1. t = ExtendAndRehash(table, hash)
      BY <2>2
    <3> HIDE DEF t
    <3>2. /\ Holds(t, hash, A)
          /\ t.nr_buckets >= 2 * table.nr_buckets \/ t.nr_buckets = PrimeList[Len(PrimeList)]
      BY <1>3, <1>6, <3>1, ExtendGives
    <3>3. t.nr_buckets \in Nat
      BY <3>2 DEF Holds, Shaped
    <3> HIDE DEF C
    <3>4. CASE t.nr_buckets >= 2 * table.nr_buckets
      BY <1>3, <1>6, <3>2, <3>3, <3>4, TwiceAsMany
    <3>5. CASE t.nr_buckets = PrimeList[Len(PrimeList)]
      <4>1. Cardinality(Entry) <= Bound(t.nr_buckets)
        BY <3>5, EntryAssumption DEF Bound
      <4>2. Cardinality(Entry) \in Nat /\ Bound(t.nr_buckets) \in Int
        BY <3>3, EntryAssumption, FS_CardinalityType DEF Bound
      <4> QED BY <1>3, <1>7, <3>2, <3>3, <4>1, <4>2
    <3> QED BY <3>2, <3>4, <3>5
  <2> QED BY <2>1, <2>2
<1> HIDE DEF t, C
<1>9. Holds(table', hash', A \cup {e}) /\ table'.nr_buckets = t.nr_buckets
  <2> DEFINE gs == hash'
  <2>1. IsFiniteSet(A) /\ Holds(t, hash, A) /\ e \notin A /\ h \in Nat
        /\ Agree(gs, hash, A) /\ gs[e] = h
    BY <1>1, <1>2, <1>3, <1>4, <1>8
  <2> HIDE DEF gs
  <2>2. /\ Holds(EntryInserted(t, e, h), gs, A \cup {e})
        /\ EntryInserted(t, e, h).nr_buckets = t.nr_buckets
    BY <2>1, InsertGives
  <2> QED BY <1>1, <2>2 DEF gs
<1>10. table'.nr_entries = C + 1
  BY <1>7, <1>9 DEF Holds
<1> QED BY <1>4, <1>5, <1>8, <1>9, <1>10 DEF TableInv

\* An entry found is taken out.
LEMMA TakenOut ==
    ASSUME TableInv, NEW e \in Allocated, NEW gs, Agree(gs, hash, Allocated \ {e})
    PROVE  LET u == Extracted(table, BucketOf(hash[e], table.nr_buckets),
                              FindEntryLink(table, hash, e))
           IN  Holds(u, gs, Allocated \ {e}) /\ u.nr_buckets = table.nr_buckets
<1> DEFINE b == BucketOf(hash[e], table.nr_buckets)
           k == FindEntryLink(table, hash, e)
           A == Allocated
<1>1. Holds(table, hash, A) /\ IsFiniteSet(A) /\ Hashed(hash, A)
  BY Entries DEF TableInv
<1>2. e \in A /\ Agree(gs, hash, A \ {e})
  OBVIOUS
<1> HIDE DEF A
<1>3. /\ b \in 0 .. table.nr_buckets - 1
      /\ k \in 1 .. Len(table.buckets[b]) /\ table.buckets[b][k] = e
  BY <1>1, <1>2, FindGives
<1> HIDE DEF b, k
<1>4. Holds(Extracted(table, b, k), gs, A \ {e})
      /\ Extracted(table, b, k).nr_buckets = table.nr_buckets
  BY <1>1, <1>2, <1>3, ExtractGives
<1> QED BY <1>4 DEF b, k, A

\* find_and_remove().
LEMMA FindAndRemoveStep ==
    ASSUME TableInv, NEW e \in Entry, FindAndRemove(e)
    PROVE  TableInv'
<1> DEFINE u == Extracted(table, BucketOf(hash[e], table.nr_buckets),
                          FindEntryLink(table, hash, e))
<1>1. e \in Allocated /\ table' = u /\ hash' = [hash EXCEPT ![e] = None]
  BY DEF FindAndRemove
<1>2. hash' \in [Entry -> HashVal \cup {None}] /\ Allocated' = Allocated \ {e}
  BY <1>1 DEF Allocated, TableInv
<1>3. Agree(hash', hash, Allocated \ {e})
  BY <1>1 DEF Agree, Allocated, TableInv
<1>4. Holds(u, hash', Allocated \ {e}) /\ u.nr_buckets = table.nr_buckets
  <2> DEFINE gs == hash'
  <2>1. Agree(gs, hash, Allocated \ {e})
    BY <1>3
  <2> HIDE DEF gs
  <2>2. Holds(u, gs, Allocated \ {e}) /\ u.nr_buckets = table.nr_buckets
    BY <1>1, <2>1, TakenOut
  <2> QED BY <2>2 DEF gs
<1> HIDE DEF u
<1>5. Cardinality(Allocated') <= Cardinality(Allocated)
  <2>1. IsFiniteSet(Allocated) /\ Cardinality(Allocated) \in Nat
    BY Entries
  <2>2. Cardinality(Allocated \ {e}) = Cardinality(Allocated) - 1
    BY <1>1, <2>1, FS_RemoveElement
  <2> QED BY <1>2, <2>1, <2>2
<1> QED BY <1>1, <1>2, <1>4, <1>5, NoMoreEntries

\* rehash_entry(): out, and in again under the new hash.
LEMMA RehashEntryStep ==
    ASSUME TableInv, NEW e \in Entry, NEW h \in HashVal, RehashEntry(e, h)
    PROVE  TableInv'
<1> DEFINE u == Extracted(table, BucketOf(hash[e], table.nr_buckets),
                          FindEntryLink(table, hash, e))
           A == Allocated \ {e}
           gs == hash'
<1>1. /\ e \in Allocated /\ table' = EntryInserted(u, e, h)
      /\ hash' = [hash EXCEPT ![e] = h]
  BY DEF RehashEntry
<1>2. h \in Nat /\ h # None
  BY HashAssumption
<1>3. hash' \in [Entry -> HashVal \cup {None}] /\ Allocated' = Allocated
  BY <1>1, <1>2 DEF Allocated, TableInv
<1>4. Agree(hash, hash, A) /\ Agree(gs, hash, A) /\ gs[e] = h
  BY <1>1 DEF Agree, Allocated, TableInv
<1>5. Holds(u, hash, A) /\ u.nr_buckets = table.nr_buckets
  BY <1>1, <1>4, TakenOut
<1>6. IsFiniteSet(A) /\ e \notin A /\ A \cup {e} = Allocated
  BY <1>1, Entries, FS_RemoveElement
<1> HIDE DEF u, A, gs
<1>7. Holds(EntryInserted(u, e, h), gs, A \cup {e})
      /\ EntryInserted(u, e, h).nr_buckets = u.nr_buckets
  BY <1>2, <1>4, <1>5, <1>6, InsertGives
<1>8. Holds(table', hash', Allocated') /\ table'.nr_buckets = table.nr_buckets
  BY <1>1, <1>3, <1>5, <1>6, <1>7 DEF gs
<1>9. Cardinality(Allocated') <= Cardinality(Allocated)
  BY <1>3, Entries
<1> QED BY <1>3, <1>8, <1>9, NoMoreEntries

\* clear() leaves as many buckets, all empty.
LEMMA ClearStep ==
    ASSUME TableInv, Clear
    PROVE  TableInv'
<1>1. table' = CreateHtable(table.nr_buckets) /\ hash' = [e \in Entry |-> None]
  BY DEF Clear
<1>2. hash' \in [Entry -> HashVal \cup {None}] /\ Allocated' = {}
  BY <1>1 DEF Allocated
<1>3. table.nr_buckets \in Nat \ {0} /\ table.nr_buckets \in ToSet(PrimeList)
  BY DEF TableInv, Holds, Shaped
<1>4. Holds(table', hash', Allocated') /\ table'.nr_buckets = table.nr_buckets
  BY <1>1, <1>2, <1>3, CreateGives
<1>5. Cardinality(Allocated') <= Cardinality(Allocated)
  BY <1>2, Entries, FS_EmptySet
<1> QED BY <1>2, <1>4, <1>5, NoMoreEntries

\* The set behind a sequence that lists it.
LEMMA ListedSet ==
    ASSUME NEW A, NEW s, Listed(s, A)
    PROVE  ToSet(s) = A
<1>1. DOMAIN s = 1 .. Len(s) /\ \A i \in 1 .. Len(s) : s[i] \in A
  BY ElementOfSeq, LenProperties DEF Listed
<1> QED BY <1>1 DEF Listed, ToSet

\* What remove_hash() does to the bucket of h.
CutShort(h) ==
    LET b == BucketOf(h, table.nr_buckets)
        k == Lookup(table, hash, h)
        s == table.buckets[b]
        F == {s[i] : i \in 1 .. k - 1}
    IN  /\ k \in From(s, hash, 1, h) /\ From(s, hash, 1, h) = From(s, hash, k, h)
        /\ table'.nr_buckets = table.nr_buckets
        /\ Replaced(table, table', b, SubSeq(s, 1, k - 1))
        /\ Allocated' = Allocated \ (Home(Allocated, hash, table.nr_buckets, b) \ F)
        /\ Agree(hash', hash, Allocated')

\* remove_hash() cuts a bucket short at the first entry with the hash.
LEMMA RemoveHashStep ==
    ASSUME TableInv, NEW h \in HashVal, RemoveHash(h)
    PROVE  TableInv' /\ CutShort(h)
<1> DEFINE nb == table.nr_buckets
           b == BucketOf(h, nb)
           k == Lookup(table, hash, h)
           s == table.buckets[b]
           front == SubSeq(s, 1, k - 1)
           n == table.nr_entries - (Len(s) - k + 1)
           after == HashRemoved(table, b, k)
           B == Home(Allocated, hash, nb, b)
           F == {s[i] : i \in 1 .. k - 1}
           A == Allocated \ (B \ F)
<1>0. /\ IsFiniteSet(Allocated) /\ nb \in Nat \ {0} /\ h \in Nat
      /\ Cardinality(Allocated) \in Nat
  BY Entries, HashAssumption
<1>1. /\ k # 0 /\ table' = after
      /\ hash' = [e \in Entry |-> IF e \in ToSet(s) \ ToSet(after.buckets[b])
                                  THEN None ELSE hash[e]]
  BY DEF RemoveHash
<1>2. /\ Shaped(table) /\ b \in 0 .. nb - 1 /\ Listed(s, B)
      /\ table.nr_entries = Cardinality(Allocated)
  <2>1. b \in 0 .. nb - 1
    BY <1>0, BucketIn
  <2> QED BY <2>1 DEF TableInv, Holds
<1>3. k \in 1 .. Len(s)
  <2>1. k \in From(s, hash, 1, h)
    BY <1>1, LookupGives
  <2> QED BY <2>1 DEF From
<1>4. Listed(front, F) /\ Len(front) = k - 1
  BY <1>2, <1>3, ListedFront
<1>5. after \in WithBucket(table, b, front, n)
  BY <1>2 DEF HashRemoved, WithBucket, Shaped
<1>6. F \subseteq B
  <2>1. Len(s) \in Nat /\ \A i \in 1 .. Len(s) : s[i] \in B
    BY <1>2, ElementOfSeq, LenProperties DEF Listed
  <2>2. \A i \in 1 .. k - 1 : i \in 1 .. Len(s)
    BY <1>3, <2>1
  <2> QED BY <2>1, <2>2
<1>7. B \subseteq Allocated
  BY DEF Home
<1>8. ToSet(s) = B /\ ToSet(front) = F
  BY <1>2, <1>4, ListedSet
<1>9. /\ IsFiniteSet(B) /\ Cardinality(B) = Len(s) /\ Cardinality(F) = k - 1
      /\ Len(s) \in Nat
  <2>1. IsFiniteSet(B) /\ Cardinality(B) = Len(s)
    BY <1>2, ListedLen
  <2>2. Cardinality(F) = Len(front)
    BY <1>4, ListedLen
  <2>3. Len(s) \in Nat
    BY <1>2, LenProperties DEF Listed
  <2> QED BY <1>4, <2>1, <2>2, <2>3
<1>10. \A c \in 0 .. nb - 1 : c # b => Home(A, hash, nb, c) = Home(Allocated, hash, nb, c)
  BY DEF Home
<1>11. Home(A, hash, nb, b) = F
  BY <1>6 DEF Home
<1> HIDE DEF front, n, B, F, after
<1>12. /\ Shaped(after) /\ after.nr_buckets = nb /\ after.nr_entries = n
       /\ after.buckets[b] = front
       /\ \A c \in 0 .. nb - 1 : c # b => after.buckets[c] = table.buckets[c]
  BY <1>2, <1>5, WithBucketGives
<1>13. n = Cardinality(A) /\ Cardinality(A) <= Cardinality(Allocated)
  <2>1. B \cap F = F /\ Allocated \cap (B \ F) = B \ F
    BY <1>6, <1>7
  <2>2. Cardinality(B \ F) = Len(s) - (k - 1)
    <3>1. Cardinality(B \ F) = Cardinality(B) - Cardinality(B \cap F)
      BY <1>9, FS_Difference
    <3> QED BY <1>9, <2>1, <3>1
  <2>3. Cardinality(A) = Cardinality(Allocated) - Cardinality(B \ F)
    BY <1>0, <2>1, FS_Difference
  <2> QED BY <1>0, <1>2, <1>3, <1>9, <2>2, <2>3 DEF n
<1>14. \A c \in 0 .. nb - 1 : Listed(after.buckets[c], Home(A, hash, nb, c))
  BY <1>4, <1>10, <1>11, <1>12 DEF TableInv, Holds
<1>15. hash' = [e \in Entry |-> IF e \in B \ F THEN None ELSE hash[e]]
  BY <1>1, <1>8, <1>12
<1>16. /\ hash' \in [Entry -> HashVal \cup {None}] /\ Allocated' = A
       /\ Agree(hash', hash, A)
  <2>1. \A e \in A : e \in Entry
    BY DEF Allocated
  <2> QED BY <1>15, <2>1 DEF Allocated, TableInv, Agree
<1>17. \A c \in 0 .. nb - 1 : Home(A, hash', nb, c) = Home(A, hash, nb, c)
  BY <1>16 DEF Home, Agree
<1> HIDE DEF A
<1>18. Holds(after, hash', A)
  BY <1>12, <1>13, <1>14, <1>17 DEF Holds
<1>19. TableInv'
  BY <1>1, <1>12, <1>13, <1>16, <1>18, NoMoreEntries
<1>20. Replaced(table, table', b, front)
  BY <1>1, <1>12 DEF Replaced
<1>21. k \in From(s, hash, 1, h) /\ From(s, hash, 1, h) = From(s, hash, k, h)
  BY <1>1, LookupGives
<1> QED BY <1>1, <1>12, <1>16, <1>19, <1>20, <1>21 DEF CutShort, A, B, F, front

\* Every step keeps the invariant.
LEMMA TableStep ==
    ASSUME TableInv, [Next]_vars
    PROVE  TableInv'
<1>1. ASSUME NEW e \in Entry, NEW h \in HashVal, NewEntry(e, h) PROVE TableInv'
  BY <1>1, NewEntryStep
<1>2. ASSUME NEW e \in Entry, NEW h \in HashVal, RehashEntry(e, h) PROVE TableInv'
  BY <1>2, RehashEntryStep
<1>3. ASSUME NEW e \in Entry, FindAndRemove(e) PROVE TableInv'
  BY <1>3, FindAndRemoveStep
<1>4. ASSUME NEW h \in HashVal, RemoveHash(h) PROVE TableInv'
  BY <1>4, RemoveHashStep
<1>5. CASE Clear
  BY <1>5, ClearStep
<1>6. CASE UNCHANGED vars
  BY <1>6 DEF vars, TableInv, Holds, Shaped, Home, Allocated
<1> QED BY <1>1, <1>2, <1>3, <1>4, <1>5, <1>6 DEF Next

\* The table holds what is allocated, in the right buckets, and is not loaded
\* more than it should.
LEMMA TableInvariant == Spec => []TableInv
<1>1. TableInv /\ [Next]_vars => TableInv'
  BY TableStep
<1> QED BY <1>1, TableStart, PTL DEF Spec

-----------------------------------------------------------------------------
(* What follows *)

\* What a bucket lists, in the table's own terms.
LEMMA BucketGives ==
    ASSUME TableInv, NEW b \in Indices
    PROVE  /\ Listed(table.buckets[b], Home(Allocated, hash, table.nr_buckets, b))
           /\ table.buckets[b] \in Seq(Entry) /\ Len(table.buckets[b]) \in Nat
<1> DEFINE s == table.buckets[b]
           H == Home(Allocated, hash, table.nr_buckets, b)
<1>1. Listed(s, H)
  BY DEF TableInv, Holds, Indices
<1>2. H \subseteq Entry
  BY DEF Home, Allocated
<1> HIDE DEF H, s
<1>3. Len(s) \in Nat /\ \A i \in 1 .. Len(s) : s[i] \in H
  BY <1>1, ElementOfSeq, LenProperties DEF Listed
<1>4. s = [i \in 1 .. Len(s) |-> s[i]]
  BY <1>1, LenProperties DEF Listed
<1>5. s \in Seq(Entry)
  BY <1>2, <1>3, <1>4, SeqDef
<1> QED BY <1>1, <1>3, <1>5 DEF s, H

\* The table has its type: the number of buckets is a listed prime and every
\* bucket a chain of entries.
THEOREM TableTypes == Spec => []TypeOK
<1>1. TableInv => TypeOK
  <2> SUFFICES ASSUME TableInv PROVE TypeOK
    OBVIOUS
  <2>1. /\ table.nr_buckets \in ToSet(PrimeList) /\ DOMAIN table.buckets = Indices
        /\ hash \in [Entry -> HashVal \cup {None}]
    BY DEF TableInv, Holds, Shaped, Indices
  <2>2. table.nr_entries \in Nat
    BY Entries
  <2> QED BY <2>1, <2>2, BucketGives DEF TypeOK
<1> QED BY <1>1, TableInvariant, PTL

\* After any sequence of insertions, removals, re-hashings and growths every
\* allocated entry sits once in the table, in the bucket of its hash, and
\* nothing else does.
THEOREM InBuckets == Spec => []EachInItsBucket
<1>1. TableInv => EachInItsBucket
  <2> SUFFICES ASSUME TableInv PROVE EachInItsBucket
    OBVIOUS
  <2> DEFINE nb == table.nr_buckets
             S(b) == ToSet(table.buckets[b])
  <2>1. ASSUME NEW b \in Indices
        PROVE  /\ S(b) = Home(Allocated, hash, nb, b)
               /\ Cardinality(S(b)) = Len(table.buckets[b])
    <3>1. Listed(table.buckets[b], Home(Allocated, hash, nb, b))
      BY <2>1, BucketGives
    <3> QED BY <3>1, ListedSet, ListedLen
  <2>2. \A e \in Allocated : BucketOf(hash[e], nb) \in Indices
    BY Entries, BucketIn DEF Hashed, Indices
  <2> HIDE DEF S
  <2>3. Allocated = UNION {S(b) : b \in Indices}
    <3>1. \A e \in Allocated : e \in S(BucketOf(hash[e], nb))
      BY <2>1, <2>2 DEF Home
    <3>2. \A b \in Indices : S(b) \subseteq Allocated
      BY <2>1 DEF Home
    <3> QED BY <2>2, <3>1, <3>2
  <2> QED BY <2>1, <2>3 DEF EachInItsBucket, Home, S
<1> QED BY <1>1, TableInvariant, PTL

\* nr_entries counts the entries, and growing in time bounds the load.
THEOREM Counts == Spec => []CountsEntries
<1>1. TableInv => CountsEntries
  BY DEF TableInv, Holds, CountsEntries, Bound
<1> QED BY <1>1, TableInvariant, PTL

\* The lookup walk visits the entries with a hash, each once, and
\* find_entry_link() finds every entry.
THEOREM Walks == Spec => []WalkVisitsExactly
<1>1. TableInv => WalkVisitsExactly
  <2> SUFFICES ASSUME TableInv PROVE WalkVisitsExactly
    OBVIOUS
  <2>0. /\ Holds(table, hash, Allocated) /\ Hashed(hash, Allocated)
        /\ table.nr_buckets \in Nat \ {0}
    BY Entries DEF TableInv
  <2>1. ASSUME NEW h \in HashVal
        PROVE  LET b == BucketOf(h, table.nr_buckets)
                   ks == Visited(table, hash, h)
               IN  /\ {table.buckets[b][ks[i]] : i \in DOMAIN ks} = WithHash(h)
                   /\ Len(ks) = Cardinality(WithHash(h))
    <3> DEFINE b == BucketOf(h, table.nr_buckets)
               ks == Visited(table, hash, h)
               c == ChainOf(table, hash, h)
               W == WithHash(h)
    <3>1. h \in Nat /\ W = With(Allocated, hash, h)
      BY HashAssumption DEF With, WithHash
    <3>2. c = [i \in DOMAIN ks |-> table.buckets[b][ks[i]]]
      BY DEF ChainOf
    <3>3. IsChain(c, table, hash, Allocated, h) /\ Len(c) = Len(ks)
      BY <2>0, <3>1, ChainOfIs
    <3> HIDE DEF ks, c, W
    <3>4. Listed(c, W)
      BY <3>1, <3>3 DEF IsChain
    <3>5. ToSet(c) = W
      BY <3>4, ListedSet
    <3>6. {table.buckets[b][ks[i]] : i \in DOMAIN ks} = W
      BY <3>2, <3>5 DEF ToSet
    <3>7. Len(ks) = Cardinality(W)
      BY <3>3, <3>4, ListedLen
    <3> QED BY <3>6, <3>7 DEF ks, W
  <2>2. \A e \in Allocated : FindEntryLink(table, hash, e) # 0
    BY <2>0, FindGives
  <2> QED BY <2>1, <2>2 DEF WalkVisitsExactly
<1> QED BY <1>1, TableInvariant, PTL

-----------------------------------------------------------------------------
(* Iteration *)

\* An entry at the end.
LEMMA ListedAppend ==
    ASSUME NEW A, NEW s, Listed(s, A), NEW e, e \notin A
    PROVE  Listed(Append(s, e), A \cup {e})
<1> DEFINE B == A \cup {e}
           t == Append(s, e)
<1>1. s \in Seq(A) /\ Len(s) \in Nat /\ \A i \in 1 .. Len(s) : s[i] \in A
  BY ElementOfSeq, LenProperties DEF Listed
<1>2. s \in Seq(B) /\ e \in B
  <2>1. \A i \in 1 .. Len(s) : s[i] \in B
    BY <1>1
  <2> QED BY <1>1, <2>1, SeqDef, LenProperties
<1>3. t \in Seq(B) /\ Len(t) = Len(s) + 1 /\ t[Len(s) + 1] = e
      /\ \A i \in 1 .. Len(s) : t[i] = s[i]
  <2> HIDE DEF B
  <2> QED BY <1>2, AppendProperties
<1> HIDE DEF t
<1>4. \A i \in 1 .. Len(s) + 1 : i = Len(s) + 1 \/ i \in 1 .. Len(s)
  BY <1>1
<1>5. \A i \in 1 .. Len(s) : t[i] # e /\ i \in 1 .. Len(s) + 1
  BY <1>1, <1>3
<1>6. \A i, j \in 1 .. Len(s) + 1 : t[i] = t[j] => i = j
  BY <1>3, <1>4, <1>5 DEF Listed
<1>7. ASSUME NEW a \in B PROVE \E i \in 1 .. Len(s) + 1 : t[i] = a
  <2>1. CASE a = e
    <3>1. Len(s) + 1 \in 1 .. Len(s) + 1
      BY <1>1
    <3> QED BY <1>3, <2>1, <3>1
  <2>2. CASE a \in A
    <3>1. PICK i \in 1 .. Len(s) : s[i] = a
      BY <2>2 DEF Listed
    <3> QED BY <1>3, <1>5, <3>1
  <2> QED BY <2>1, <2>2
<1>8. Listed(t, B)
  BY <1>3, <1>6, <1>7 DEF Listed
<1> QED BY <1>8 DEF t

\* Append and what takes it back.
LEMMA LastFront ==
    ASSUME NEW A, NEW s \in Seq(A), NEW x
    PROVE  /\ Len(Append(s, x)) = Len(s) + 1 /\ Len(s) \in Nat
           /\ Last(Append(s, x)) = x /\ Front(Append(s, x)) = s
<1> DEFINE B == A \cup {x}
           t == Append(s, x)
<1>1. Len(s) \in Nat /\ \A i \in 1 .. Len(s) : s[i] \in A
  BY ElementOfSeq, LenProperties
<1>2. s \in Seq(B) /\ x \in B
  <2>1. \A i \in 1 .. Len(s) : s[i] \in B
    BY <1>1
  <2> QED BY <1>1, <2>1, SeqDef, LenProperties
<1>3. t \in Seq(B) /\ Len(t) = Len(s) + 1 /\ t[Len(s) + 1] = x
      /\ \A i \in 1 .. Len(s) : t[i] = s[i]
  <2> HIDE DEF B
  <2> QED BY <1>2, AppendProperties
<1> HIDE DEF t
<1> DEFINE f == SubSeq(t, 1, Len(s))
<1>4. f \in Seq(B) /\ Len(f) = Len(s) /\ \A i \in 1 .. Len(s) : f[i] = t[i]
  <2> HIDE DEF B
  <2>1. 1 \in Int /\ Len(s) \in Int /\ \A i \in 1 .. Len(s) : t[i] \in B
    BY <1>1, <1>3, ElementOfSeq
  <2>2. /\ f \in Seq(B) /\ Len(f) = IF 1 <= Len(s) THEN Len(s) - 1 + 1 ELSE 0
        /\ \A i \in 1 .. Len(s) - 1 + 1 : f[i] = t[1 + i - 1]
    BY <2>1, SubSeqProperties
  <2>3. Len(s) - 1 + 1 = Len(s) /\ (IF 1 <= Len(s) THEN Len(s) ELSE 0) = Len(s)
    BY <1>1
  <2>4. \A i \in 1 .. Len(s) : 1 + i - 1 = i
    BY <1>1
  <2> QED BY <2>2, <2>3, <2>4
<1> HIDE DEF f
<1>5. f = s
  <2>1. f = [i \in 1 .. Len(s) |-> f[i]] /\ s = [i \in 1 .. Len(s) |-> s[i]]
    BY <1>2, <1>4, LenProperties
  <2> QED BY <1>3, <1>4, <2>1
<1>6. Front(t) = f
  <2>1. Len(t) - 1 = Len(s)
    BY <1>1, <1>3
  <2> QED BY <2>1 DEF Front, f
<1> QED BY <1>1, <1>3, <1>5, <1>6 DEF Last, t

\* The body of the loop over all entries, for what has been seen.
Onward(u) ==
    IF Last(u) = None THEN u ELSE Append(u, NextEntry(table, hash, Last(u)))

\* The function that IterationVisitsAll defines.
Iteration ==
    CHOOSE f : f = [n \in 0 .. Cardinality(Entry) |->
                    IF n = 0 THEN <<FirstEntry(table)>> ELSE Onward(f[n - 1])]

\* There is such a function.
LEMMA IterationIs ==
    ASSUME IsFiniteSet(Entry)
    PROVE  Iteration = [n \in 0 .. Cardinality(Entry) |->
                IF n = 0 THEN <<FirstEntry(table)>> ELSE Onward(Iteration[n - 1])]
<1> DEFINE To(m, f) == f = [n \in 0 .. m |->
                            IF n = 0 THEN <<FirstEntry(table)>> ELSE Onward(f[n - 1])]
           P == {m \in Nat : \E f : To(m, f)}
<1>0. Cardinality(Entry) \in Nat
  BY FS_CardinalityType
<1>1. 0 \in P
  <2> DEFINE f == [n \in 0 .. 0 |-> <<FirstEntry(table)>>]
  <2>1. To(0, f)
    OBVIOUS
  <2> QED BY <2>1
<1>2. ASSUME NEW m \in 0 .. Cardinality(Entry) - 1, m \in P
      PROVE  m + 1 \in P
  <2>1. m \in Nat /\ m + 1 \in Nat
    BY <1>0
  <2>2. PICK f : To(m, f)
    BY <1>2
  <2> DEFINE last == Onward(f[m])
             g == [n \in 0 .. m + 1 |-> IF n = m + 1 THEN last ELSE f[n]]
  <2>3. ASSUME NEW n \in 0 .. m + 1, n # 0
        PROVE  g[n] = Onward(g[n - 1])
    <3>1. n - 1 \in 0 .. m /\ n - 1 # m + 1 /\ n - 1 \in 0 .. m + 1
      BY <2>1, <2>3
    <3>2. g[n - 1] = f[n - 1]
      BY <3>1
    <3>3. CASE n = m + 1
      <4>1. n - 1 = m
        BY <2>1, <3>3
      <4> QED BY <3>2, <3>3, <4>1
    <3>4. CASE n # m + 1
      <4>1. n \in 0 .. m /\ g[n] = f[n]
        BY <2>1, <3>4
      <4>2. f[n] = Onward(f[n - 1])
        BY <2>2, <2>3, <4>1
      <4> QED BY <3>2, <4>1, <4>2
    <3> QED BY <3>3, <3>4
  <2>4. g[0] = <<FirstEntry(table)>>
    <3>1. 0 \in 0 .. m + 1 /\ 0 \in 0 .. m /\ 0 # m + 1
      BY <2>1
    <3>2. f[0] = <<FirstEntry(table)>>
      BY <2>2, <3>1
    <3> QED BY <3>1, <3>2
  <2> HIDE DEF g
  <2>5. g = [n \in 0 .. m + 1 |-> g[n]]
    BY DEF g
  <2>6. \A n \in 0 .. m + 1 : g[n] = IF n = 0 THEN <<FirstEntry(table)>>
                                     ELSE Onward(g[n - 1])
    BY <2>3, <2>4
  <2>7. To(m + 1, g)
    BY <2>5, <2>6
  <2> QED BY <2>1, <2>7
<1> HIDE DEF P
<1>3. \A n \in 0 .. Cardinality(Entry) : n \in P
  BY <1>0, <1>1, <1>2, UpTo
<1>4. Cardinality(Entry) \in P
  BY <1>0, <1>3
<1> QED BY <1>4 DEF P, Iteration

\* The entries of the buckets below b.
Below(b) == {e \in Allocated : BucketOf(hash[e], table.nr_buckets) < b}

\* The first m entries of s.
Beginning(s, m) == {s[i] : i \in 1 .. m}

\* The entries before position k of bucket b.
Before(b, k) == Below(b) \cup Beginning(table.buckets[b], k - 1)

\* The loop stands at position k of bucket b, and has seen v before.
Stands(u, v, b, k) ==
    /\ b \in Indices /\ k \in 1 .. Len(table.buckets[b])
    /\ Listed(v, Before(b, k))
    /\ u = Append(v, table.buckets[b][k])

\* The loop has seen everything.
Through(u) == \E v : Listed(v, Allocated) /\ u = Append(v, None)

\* After n turns.
After(u, n) == Through(u) \/ \E v, b, k : Stands(u, v, b, k) /\ Len(v) = n

\* An entry stands where its bucket says.
LEMMA Standing ==
    ASSUME TableInv, NEW b \in Indices, NEW k \in 1 .. Len(table.buckets[b])
    PROVE  LET x == table.buckets[b][k]
           IN  /\ x \in Allocated /\ x # None /\ x \notin Before(b, k)
               /\ BucketOf(hash[x], table.nr_buckets) = b
               /\ Before(b, k) \subseteq Allocated
<1> DEFINE s == table.buckets[b]
           H == Home(Allocated, hash, table.nr_buckets, b)
<1>1. Listed(s, H) /\ Len(s) \in Nat
  BY BucketGives
<1>2. \A i \in 1 .. Len(s) : s[i] \in H
  BY <1>1, ElementOfSeq DEF Listed
<1>3. H \subseteq Allocated /\ \A e \in H : BucketOf(hash[e], table.nr_buckets) = b
  BY DEF Home
<1> HIDE DEF H
<1>4. s[k] \in H
  BY <1>2
<1>5. s[k] # None
  BY <1>3, <1>4, HashAssumption DEF Allocated
<1>6. b \in Int
  BY Entries DEF Indices
<1>7. s[k] \notin Below(b)
  <2>1. ~ (b < b)
    BY <1>6
  <2> QED BY <1>3, <1>4, <2>1 DEF Below
<1>8. \A i \in 1 .. k - 1 : i \in 1 .. Len(s) /\ i # k
  BY <1>1
<1>9. \A i \in 1 .. k - 1 : s[i] # s[k] /\ s[i] \in Allocated
  <2>1. \A i, j \in 1 .. Len(s) : s[i] = s[j] => i = j
    BY <1>1 DEF Listed
  <2> QED BY <1>2, <1>3, <1>8, <2>1
<1>10. Below(b) \subseteq Allocated
  BY DEF Below
<1> QED BY <1>3, <1>4, <1>5, <1>7, <1>9, <1>10 DEF Before, Beginning

\* first_entry() and next_entry() skip empty buckets only.
LEMMA FirstFromGives ==
    ASSUME TableInv, NEW i \in 0 .. table.nr_buckets
    PROVE  \/ /\ FirstFrom(table, i) = None
              /\ Below(i) = Allocated
           \/ \E b \in Indices : /\ 1 \in 1 .. Len(table.buckets[b])
                                 /\ FirstFrom(table, i) = table.buckets[b][1]
                                 /\ Below(i) = Before(b, 1)
<1> DEFINE nb == table.nr_buckets
           I == {b \in i .. nb - 1 : table.buckets[b] # <<>>}
<1>1. nb \in Nat \ {0} /\ i \in Nat /\ i <= nb
  BY Entries
<1>2. \A e \in Allocated : BucketOf(hash[e], nb) \in 0 .. nb - 1
  BY Entries, BucketIn DEF Hashed
<1>3. \A e \in Allocated : BucketOf(hash[e], nb) >= i => BucketOf(hash[e], nb) \in I
  <2> SUFFICES ASSUME NEW e \in Allocated, BucketOf(hash[e], nb) >= i
               PROVE  BucketOf(hash[e], nb) \in I
    OBVIOUS
  <2> DEFINE b == BucketOf(hash[e], nb)
             s == table.buckets[b]
  <2>1. b \in Indices /\ b \in i .. nb - 1
    BY <1>1, <1>2 DEF Indices
  <2>2. Listed(s, Home(Allocated, hash, nb, b))
    BY <2>1, BucketGives
  <2>3. e \in Home(Allocated, hash, nb, b)
    BY DEF Home
  <2> HIDE DEF b
  <2>4. s # <<>>
    BY <2>2, <2>3, EmptySeq DEF Listed
  <2> QED BY <2>1, <2>4 DEF b
<1>4. I \in SUBSET Nat
  BY <1>1
<1>5. CASE I = {}
  <2>1. \A e \in Allocated : BucketOf(hash[e], nb) < i
    BY <1>1, <1>2, <1>3, <1>5
  <2> QED BY <1>5, <2>1 DEF FirstFrom, Below
<1>6. CASE I # {}
  <2> DEFINE m == CHOOSE b \in I : \A c \in I : b <= c
  <2>1. m \in I /\ \A c \in I : m <= c
    <3>1. \E b \in I : \A c \in I : b <= c
      <4> HIDE DEF I
      <4> QED BY <1>4, <1>6, MinIs
    <3> QED BY <3>1
  <2>2. FirstFrom(table, i) = Head(table.buckets[m])
    BY <1>6 DEF FirstFrom
  <2>3. m \in Indices /\ m \in i .. nb - 1 /\ table.buckets[m] # <<>>
    BY <1>1, <2>1 DEF Indices
  <2> HIDE DEF m
  <2>4. table.buckets[m] \in Seq(Entry)
    BY <2>3, BucketGives
  <2>5. Head(table.buckets[m]) = table.buckets[m][1]
    BY <2>3, <2>4, HeadTailProperties
  <2>6. 1 \in 1 .. Len(table.buckets[m])
    BY <2>3, <2>4, EmptySeq, LenProperties
  <2>7. \A e \in Allocated : BucketOf(hash[e], nb) < m <=> BucketOf(hash[e], nb) < i
    <3> SUFFICES ASSUME NEW e \in Allocated
                 PROVE  BucketOf(hash[e], nb) < m <=> BucketOf(hash[e], nb) < i
      OBVIOUS
    <3> DEFINE b == BucketOf(hash[e], nb)
    <3>1. b \in Nat /\ (b >= i => b \in I)
      BY <1>1, <1>2, <1>3
    <3> HIDE DEF b, I
    <3>2. b >= i => m <= b
      BY <2>1, <3>1
    <3>3. b < m <=> b < i
      BY <1>1, <2>3, <3>1, <3>2
    <3> QED BY <3>3 DEF b
  <2>8. Below(m) = Below(i)
    BY <2>7 DEF Below
  <2>9. Before(m, 1) = Below(m)
    BY DEF Before, Beginning
  <2> QED BY <2>2, <2>3, <2>5, <2>6, <2>8, <2>9
<1> QED BY <1>5, <1>6

\* The loop comes to bucket i with everything seen that is below it.
LEMMA ComesTo ==
    ASSUME TableInv, NEW i \in 0 .. table.nr_buckets, NEW v, Listed(v, Below(i))
    PROVE  After(Append(v, FirstFrom(table, i)), Len(v))
<1> DEFINE u == Append(v, FirstFrom(table, i))
<1>1. CASE FirstFrom(table, i) = None /\ Below(i) = Allocated
  BY <1>1 DEF Through, After
<1>2. ASSUME NEW b \in Indices, 1 \in 1 .. Len(table.buckets[b]),
             FirstFrom(table, i) = table.buckets[b][1], Below(i) = Before(b, 1)
      PROVE  After(u, Len(v))
  <2>1. Stands(u, v, b, 1)
    BY <1>2 DEF Stands
  <2> QED BY <2>1 DEF After
<1> QED BY <1>1, <1>2, FirstFromGives

\* The next entry behind a position: the next of the chain, or the first of a
\* later bucket.
LEMMA NextGives ==
    ASSUME TableInv, NEW b \in Indices, NEW k \in 1 .. Len(table.buckets[b])
    PROVE  LET s == table.buckets[b]
           IN  NextEntry(table, hash, s[k]) =
                  IF k < Len(s) THEN s[k + 1] ELSE FirstFrom(table, b + 1)
<1> DEFINE s == table.buckets[b]
           x == s[k]
           I == {j \in 1 .. Len(s) : s[j] = x}
           p == SelectInSeq(s, LAMBDA y : y = x)
<1>1. BucketOf(hash[x], table.nr_buckets) = b
  BY Standing
<1>2. p = IF I # {} THEN Min(I) ELSE 0
  BY DEF SelectInSeq
<1>3. I = {k}
  <2>1. \A i, j \in 1 .. Len(s) : s[i] = s[j] => i = j
    BY BucketGives DEF Listed
  <2> QED BY <2>1
<1>4. Min(I) \in I
  <2>1. I \in SUBSET Nat /\ I # {}
    BY <1>3
  <2> HIDE DEF I
  <2> QED BY <2>1, MinIs
<1>5. p = k
  BY <1>2, <1>3, <1>4
<1>6. NextIndex(hash[x], table.nr_buckets) = b + 1
  BY <1>1 DEF NextIndex, BucketOf
<1>7. NextEntry(table, hash, x) =
        IF p < Len(s) THEN s[p + 1]
        ELSE FirstFrom(table, NextIndex(hash[x], table.nr_buckets))
  BY <1>1 DEF NextEntry
<1> QED BY <1>5, <1>6, <1>7

\* One turn of the loop.
LEMMA OnwardGives ==
    ASSUME TableInv, NEW u, NEW n \in Nat, After(u, n)
    PROVE  After(Onward(u), n + 1)
<1>1. CASE Through(u)
  <2>1. PICK v : Listed(v, Allocated) /\ u = Append(v, None)
    BY <1>1 DEF Through
  <2>2. Last(u) = None
    BY <2>1, LastFront DEF Listed
  <2> QED BY <1>1, <2>2 DEF Onward, After
<1>2. ASSUME NEW v, NEW b, NEW k, Stands(u, v, b, k), Len(v) = n
      PROVE  After(Onward(u), n + 1)
  <2> DEFINE s == table.buckets[b]
             x == s[k]
             y == NextEntry(table, hash, x)
  <2>1. /\ b \in Indices /\ k \in 1 .. Len(s) /\ Listed(v, Before(b, k))
        /\ u = Append(v, x)
    BY <1>2 DEF Stands
  <2>2. x # None /\ x \notin Before(b, k)
    BY <2>1, Standing
  <2>3. Last(u) = x /\ Len(u) = n + 1
    BY <1>2, <2>1, LastFront DEF Listed
  <2>4. Onward(u) = Append(u, y)
    BY <2>2, <2>3 DEF Onward
  <2>5. Listed(u, Before(b, k) \cup {x})
    BY <2>1, <2>2, ListedAppend
  <2>6. Len(s) \in Nat /\ Listed(s, Home(Allocated, hash, table.nr_buckets, b))
    BY <2>1, BucketGives
  <2>7. Before(b, k) \cup {x} = Before(b, k + 1)
    <3>1. \A i \in 1 .. (k + 1) - 1 : i \in 1 .. k - 1 \/ i = k
      BY <2>1, <2>6
    <3>2. k \in 1 .. (k + 1) - 1 /\ \A i \in 1 .. k - 1 : i \in 1 .. (k + 1) - 1
      BY <2>1, <2>6
    <3> QED BY <3>1, <3>2 DEF Before, Beginning
  <2>8. y = IF k < Len(s) THEN s[k + 1] ELSE FirstFrom(table, b + 1)
    BY <2>1, NextGives
  <2>9. CASE k < Len(s)
    <3>1. k + 1 \in 1 .. Len(s)
      BY <2>1, <2>6, <2>9
    <3>2. Stands(Append(u, y), u, b, k + 1)
      <4>1. y = s[k + 1] /\ Listed(u, Before(b, k + 1))
        BY <2>5, <2>7, <2>8, <2>9
      <4> QED BY <2>1, <3>1, <4>1 DEF Stands
    <3> QED BY <2>3, <2>4, <3>2 DEF After
  <2>10. CASE ~ (k < Len(s))
    <3>1. (k + 1) - 1 = Len(s)
      BY <2>1, <2>6, <2>10
    <3>2. b \in Nat /\ b + 1 \in 0 .. table.nr_buckets
      BY <2>1, Entries DEF Indices
    <3>3. Before(b, k + 1) = Below(b + 1)
      <4> DEFINE H == Home(Allocated, hash, table.nr_buckets, b)
                 C == {s[i] : i \in 1 .. Len(s)}
      <4>1. C = H
        <5>1. \A i \in 1 .. Len(s) : s[i] \in H
          BY <2>6, ElementOfSeq DEF Listed
        <5>2. \A e \in H : \E i \in 1 .. Len(s) : s[i] = e
          BY <2>6 DEF Listed
        <5> HIDE DEF H
        <5> QED BY <5>1, <5>2
      <4>2. Before(b, k + 1) = Below(b) \cup C
        <5>1. Before(b, k + 1) = Below(b) \cup Beginning(s, (k + 1) - 1)
          BY DEF Before
        <5>2. C = Beginning(s, Len(s))
          BY DEF Beginning
        <5> QED BY <3>1, <5>1, <5>2
      <4>3. \A e \in Allocated : BucketOf(hash[e], table.nr_buckets) \in Int
        BY Entries, BucketIn DEF Hashed
      <4>4. \A c \in Int : c < b + 1 <=> c < b \/ c = b
        BY <3>2
      <4> QED BY <4>1, <4>2, <4>3, <4>4 DEF Below, Home
    <3>4. Listed(u, Below(b + 1)) /\ y = FirstFrom(table, b + 1)
      BY <2>5, <2>7, <2>8, <2>10, <3>3
    <3> QED BY <2>3, <2>4, <3>2, <3>4, ComesTo
  <2> QED BY <2>9, <2>10
<1> QED BY <1>1, <1>2 DEF After

\* As many turns as there are entries see everything.
LEMMA SeenAll ==
    ASSUME TableInv
    PROVE  Through(Iteration[Cardinality(Entry)])
<1> DEFINE N == Cardinality(Entry)
           P == {n \in Nat : After(Iteration[n], n)}
<1>1. IsFiniteSet(Entry) /\ N \in Nat
  BY EntryAssumption, FS_CardinalityType
<1>2. /\ Iteration[0] = <<FirstEntry(table)>>
      /\ \A n \in 1 .. N : Iteration[n] = Onward(Iteration[n - 1])
  <2>1. Iteration = [n \in 0 .. N |-> IF n = 0 THEN <<FirstEntry(table)>>
                                      ELSE Onward(Iteration[n - 1])]
    BY <1>1, IterationIs
  <2>2. 0 \in 0 .. N /\ \A n \in 1 .. N : n \in 0 .. N /\ n # 0
    BY <1>1
  <2> QED BY <2>1, <2>2
<1> HIDE DEF N
<1>3. 0 \in P
  <2>1. Below(0) = {}
    <3>1. \A e \in Allocated : ~ (BucketOf(hash[e], table.nr_buckets) < 0)
      BY Entries, BucketIn DEF Hashed
    <3> QED BY <3>1 DEF Below
  <2>2. Listed(<<>>, Below(0)) /\ 0 \in 0 .. table.nr_buckets
    BY <2>1, ListedEmpty, Entries
  <2>3. After(Append(<<>>, FirstFrom(table, 0)), Len(<<>>))
    BY <2>2, ComesTo
  <2>4. Append(<<>>, FirstFrom(table, 0)) = <<FirstFrom(table, 0)>> /\ Len(<<>>) = 0
    BY EmptySeq
  <2> QED BY <1>2, <2>3, <2>4 DEF FirstEntry
<1>4. ASSUME NEW n \in 0 .. N - 1, n \in P PROVE n + 1 \in P
  <2>1. n \in Nat /\ n + 1 \in 1 .. N /\ n + 1 - 1 = n
    BY <1>1
  <2>2. After(Onward(Iteration[n]), n + 1)
    BY <1>4, <2>1, OnwardGives
  <2>3. Iteration[n + 1] = Onward(Iteration[n])
    BY <1>2, <2>1
  <2> QED BY <2>1, <2>2, <2>3
<1>5. N \in P
  <2> HIDE DEF P
  <2>1. \A n \in 0 .. N : n \in P
    BY <1>1, <1>3, <1>4, UpTo
  <2> QED BY <1>1, <2>1
<1>6. ASSUME NEW v, NEW b, NEW k, Stands(Iteration[N], v, b, k), Len(v) = N
      PROVE  FALSE
  <2> DEFINE x == table.buckets[b][k]
             S == Before(b, k)
  <2>1. b \in Indices /\ k \in 1 .. Len(table.buckets[b]) /\ Listed(v, S)
    BY <1>6 DEF Stands
  <2>2. x \in Entry /\ x \notin S /\ S \subseteq Entry
    BY <2>1, Standing DEF Allocated
  <2> HIDE DEF S, x
  <2>3. IsFiniteSet(S) /\ Cardinality(S) = N
    BY <1>6, <2>1, ListedLen
  <2>4. S = Entry
    BY <1>1, <2>2, <2>3, FS_Subset DEF N
  <2> QED BY <2>2, <2>4
<1>7. After(Iteration[N], N)
  BY <1>5
<1> QED BY <1>6, <1>7 DEF After, N

\* The loop over all entries, first_entry() and then next_entry() until NULL,
\* sees every entry once (call_on_evict_of_all_entries()).
THEOREM Iterates == Spec => []IterationVisitsAll
<1>1. TableInv => IterationVisitsAll
  <2> SUFFICES ASSUME TableInv PROVE IterationVisitsAll
    OBVIOUS
  <2> DEFINE all == Iteration[Cardinality(Entry)]
  <2>1. PICK v : Listed(v, Allocated) /\ all = Append(v, None)
    BY SeenAll DEF Through
  <2>2. Last(all) = None /\ Front(all) = v /\ Len(all) = Len(v) + 1
    BY <2>1, LastFront DEF Listed
  <2>3. ToSet(v) = Allocated /\ Len(v) = Cardinality(Allocated)
    BY <2>1, ListedSet, ListedLen
  <2>4. /\ Last(all) = None /\ ToSet(Front(all)) = Allocated
        /\ Len(all) = Cardinality(Allocated) + 1
    BY <2>2, <2>3
  <2> HIDE DEF all
  <2> QED BY <2>4 DEF IterationVisitsAll, all, Iteration, Onward
<1> QED BY <1>1, TableInvariant, PTL

-----------------------------------------------------------------------------
(* The table is a ChainTable *)

\* The chains of the table, now and after a step.
LEMMA Chains ==
    ASSUME TableInv
    PROVE  /\ \A g \in HashVal : IsChain(ChainsOf[g], table, hash, Allocated, g)
           /\ ChainsOf = [g \in HashVal |-> ChainsOf[g]]
<1>1. Holds(table, hash, Allocated)
  BY DEF TableInv
<1>2. ASSUME NEW g \in HashVal PROVE IsChain(ChainsOf[g], table, hash, Allocated, g)
  <2>1. g \in Nat
    BY HashAssumption
  <2>2. IsChain(ChainOf(table, hash, g), table, hash, Allocated, g)
    BY <1>1, <2>1, ChainOfIs
  <2> QED BY <2>2 DEF ChainsOf
<1> QED BY <1>2 DEF ChainsOf

LEMMA ChainsNext ==
    ASSUME TableInv'
    PROVE  /\ \A g \in HashVal : IsChain(ChainsOf'[g], table', hash', Allocated', g)
           /\ ChainsOf' = [g \in HashVal |-> ChainsOf'[g]]
<1> DEFINE t == table'
           hs == hash'
           A == Allocated'
<1>1. Holds(t, hs, A)
  BY DEF TableInv
<1>2. ChainsOf' = [g \in HashVal |-> ChainOf(t, hs, g)]
  BY DEF ChainsOf
<1> HIDE DEF t, hs, A
<1>3. ASSUME NEW g \in HashVal PROVE IsChain(ChainOf(t, hs, g), t, hs, A, g)
  <2>1. g \in Nat
    BY HashAssumption
  <2> QED BY <1>1, <2>1, ChainOfIs
<1>4. \A g \in HashVal : ChainsOf'[g] = ChainOf(t, hs, g)
  BY <1>2
<1> QED BY <1>2, <1>3, <1>4 DEF t, hs, A

\* No entries, no chain.
LEMMA ListedNone ==
    ASSUME NEW s, Listed(s, {})
    PROVE  s = <<>>
BY EmptySeq, ElementOfSeq, LenProperties DEF Listed

\* The operators on sequences that ChainTable uses are those of this module.
LEMMA SameOperators ==
    ASSUME NEW s, NEW x
    PROVE  /\ Abstract!ToSet(s) = ToSet(s)
           /\ Abstract!Reverse(s) = Reverse(s)
           /\ Abstract!IsPrefix(s, x) <=> IsPrefix(s, x)
           /\ Abstract!RemoveFirst(s, x) = RemoveFirst(s, x)
<1>1. Abstract!ToSet(s) = ToSet(s)
  BY DEF Abstract!ToSet, ToSet
<1>2. Abstract!Reverse(s) = Reverse(s)
  BY DEF Abstract!Reverse, Reverse
<1>3. Abstract!IsPrefix(s, x) <=> IsPrefix(s, x)
  BY DEF Abstract!IsPrefix, IsPrefix
<1>4. Abstract!RemoveFirst(s, x) = RemoveFirst(s, x)
  <2> DEFINE I == {i \in 1 .. Len(s) : s[i] = x}
             k == IF I # {} THEN Min(I) ELSE 0
  <2>1. Abstract!Min(I) = Min(I)
    BY DEF Abstract!Min, Min
  <2>2. Abstract!RemoveAt(s, k) = RemoveAt(s, k)
    BY DEF Abstract!RemoveAt, RemoveAt
  <2>3. RemoveFirst(s, x) = IF \E i \in 1 .. Len(s) : s[i] = x THEN RemoveAt(s, k) ELSE s
    BY DEF RemoveFirst, SelectInSeq
  <2>4. Abstract!RemoveFirst(s, x)
          = IF \E i \in 1 .. Len(s) : s[i] = x THEN Abstract!RemoveAt(s, k) ELSE s
    BY <2>1 DEF Abstract!RemoveFirst, Abstract!SelectInSeq
  <2> QED BY <2>2, <2>3, <2>4
<1> QED BY <1>1, <1>2, <1>3, <1>4

\* The entries of the chains are those of the table.
LEMMA SameEntries ==
    ASSUME TableInv
    PROVE  Abstract!Allocated = Allocated
<1>1. \A g \in HashVal : ToSet(ChainsOf[g]) = With(Allocated, hash, g)
  BY Chains, ListedSet DEF IsChain
<1>2. \A e \in Allocated : hash[e] \in HashVal
  BY Entries
<1>3. UNION {With(Allocated, hash, g) : g \in HashVal} = Allocated
  BY <1>2 DEF With
<1>4. Abstract!Allocated = UNION {ToSet(ChainsOf[g]) : g \in HashVal}
  BY SameOperators DEF Abstract!Allocated
<1>5. {ToSet(ChainsOf[g]) : g \in HashVal} = {With(Allocated, hash, g) : g \in HashVal}
  BY <1>1
<1> QED BY <1>3, <1>4, <1>5

\* Chains c of a table t give, with e pushed into t, the chains of Push.
LEMMA PushedView ==
    ASSUME TableInv', NEW t, NEW hs, NEW A, Holds(t, hs, A), Hashed(hs, A),
           NEW e, e \notin A, NEW h \in HashVal, Agree(hash', hs, A), hash'[e] = h,
           NEW c, c = [g \in HashVal |-> c[g]],
           \A g \in HashVal : IsChain(c[g], t, hs, A, g),
           table' = EntryInserted(t, e, h), Allocated' = A \cup {e}
    PROVE  ChainsOf' = Abstract!Push(c, h, e)
<1> DEFINE d == ChainsOf'
           gs == hash'
           u == EntryInserted(t, e, h)
<1>1. h \in Nat /\ Agree(gs, hs, A) /\ gs[e] = h
  BY HashAssumption
<1>2. /\ \A g \in HashVal : IsChain(d[g], u, gs, A \cup {e}, g)
      /\ d = [g \in HashVal |-> d[g]]
  BY ChainsNext
<1> HIDE DEF d, gs
<1>3. ASSUME NEW g \in HashVal PROVE d[g] = IF g = h THEN <<e>> \o c[g] ELSE c[g]
  <2>1. g \in Nat /\ IsChain(c[g], t, hs, A, g)
    BY HashAssumption
  <2> DEFINE x == c[g]
  <2> HIDE DEF x
  <2>2. IsChain(IF g = h THEN <<e>> \o x ELSE x, u, gs, A \cup {e}, g)
    <3>1. IsChain(x, t, hs, A, g)
      BY <2>1 DEF x
    <3> QED BY <1>1, <2>1, <3>1, ChainPushed
  <2> DEFINE y == IF g = h THEN <<e>> \o x ELSE x
             z == d[g]
  <2>3. IsChain(y, u, gs, A \cup {e}, g) /\ IsChain(z, u, gs, A \cup {e}, g)
    BY <1>2, <2>2
  <2> HIDE DEF u, y, z
  <2>4. z = y
    BY <2>3, OneChain
  <2> QED BY <2>4 DEF x, y, z
<1>4. d = [c EXCEPT ![h] = <<e>> \o @]
  BY <1>2, <1>3
<1> QED BY <1>4 DEF Abstract!Push, d

\* new_entry() is New: growing has turned every chain around.
LEMMA NewView ==
    ASSUME TableInv, TableInv', NEW e \in Entry, NEW h \in HashVal, NewEntry(e, h)
    PROVE  Abstract!New(e, h)
<1> DEFINE t == IF Full(table) THEN ExtendAndRehash(table, hash) ELSE table
           A == Allocated
           cs == ChainsOf
           c == IF Full(table) THEN Abstract!TurnedAround(cs) ELSE cs
<1>1. e \notin A /\ hash' = [hash EXCEPT ![e] = h] /\ table' = EntryInserted(t, e, h)
  BY DEF NewEntry
<1>2. h # None
  BY HashAssumption
<1>3. hash'[e] = h /\ Agree(hash', hash, A)
  BY <1>1 DEF TableInv, Agree, Allocated
<1>4. Allocated' = A \cup {e}
  BY <1>1, <1>2 DEF Allocated, TableInv
<1>5. Holds(table, hash, A) /\ Hashed(hash, A) /\ IsFiniteSet(A)
  BY Entries DEF TableInv
<1>6. /\ \A g \in HashVal : IsChain(cs[g], table, hash, A, g)
      /\ cs = [g \in HashVal |-> cs[g]]
  BY Chains
<1> HIDE DEF A, cs
<1>7. /\ Holds(t, hash, A) /\ c = [g \in HashVal |-> c[g]]
      /\ \A g \in HashVal : IsChain(c[g], t, hash, A, g)
  <2>1. CASE ~ Full(table)
    BY <1>5, <1>6, <2>1
  <2>2. CASE Full(table)
    <3> DEFINE u == ExtendAndRehash(table, hash)
               d == Abstract!TurnedAround(cs)
    <3>1. t = u /\ c = d
      BY <2>2
    <3>2. d = [g \in HashVal |-> Reverse(cs[g])]
      BY SameOperators DEF Abstract!TurnedAround
    <3> HIDE DEF u, d, t, c
    <3>3. Holds(u, hash, A) /\ Turned(table, u, hash, A)
      BY <1>5, ExtendGives DEF u
    <3>4. \A g \in HashVal : IsChain(Reverse(cs[g]), u, hash, A, g)
      BY <1>6, <3>3, ChainTurned
    <3> QED BY <3>1, <3>2, <3>3, <3>4
  <2> QED BY <2>1, <2>2
<1>8. c \in {cs, Abstract!TurnedAround(cs)}
  OBVIOUS
<1> HIDE DEF t, c
<1>9. ChainsOf' = Abstract!Push(c, h, e)
  <2>1. /\ Holds(t, hash, A) /\ Hashed(hash, A) /\ e \notin A
        /\ Agree(hash', hash, A) /\ hash'[e] = h
        /\ c = [g \in HashVal |-> c[g]]
        /\ \A g \in HashVal : IsChain(c[g], t, hash, A, g)
        /\ table' = EntryInserted(t, e, h) /\ Allocated' = A \cup {e}
    BY <1>1, <1>3, <1>4, <1>5, <1>7
  <2> QED BY <2>1, PushedView
<1>10. e \notin Abstract!Allocated
  BY <1>1, SameEntries DEF A
<1> QED BY <1>8, <1>9, <1>10 DEF Abstract!New, cs

\* The chains without an entry that was found and taken out.
LEMMA TakenView ==
    ASSUME TableInv, NEW e \in Allocated, NEW gs, Agree(gs, hash, Allocated \ {e})
    PROVE  LET u == Extracted(table, BucketOf(hash[e], table.nr_buckets),
                              FindEntryLink(table, hash, e))
           IN  \A g \in HashVal : IsChain(RemoveFirst(ChainsOf[g], e), u, gs, Allocated \ {e}, g)
<1> DEFINE b == BucketOf(hash[e], table.nr_buckets)
           k == FindEntryLink(table, hash, e)
           A == Allocated
           cs == ChainsOf
<1>1. Holds(table, hash, A) /\ Hashed(hash, A)
  BY Entries DEF TableInv
<1>2. e \in A /\ Agree(gs, hash, A \ {e})
  OBVIOUS
<1>3. \A g \in HashVal : g \in Nat /\ IsChain(cs[g], table, hash, A, g)
  BY Chains, HashAssumption
<1> HIDE DEF A, cs
<1>4. /\ b \in 0 .. table.nr_buckets - 1
      /\ k \in 1 .. Len(table.buckets[b]) /\ table.buckets[b][k] = e
  BY <1>1, <1>2, FindGives
<1> HIDE DEF b, k
<1>5. \A g \in HashVal : IsChain(RemoveFirst(cs[g], e), Extracted(table, b, k), gs, A \ {e}, g)
  BY <1>1, <1>2, <1>3, <1>4, ChainDropped
<1> QED BY <1>5 DEF b, k, A, cs

\* find_and_remove() is Delete.
LEMMA DeleteView ==
    ASSUME TableInv, TableInv', NEW e \in Entry, FindAndRemove(e)
    PROVE  Abstract!Delete(e)
<1> DEFINE u == Extracted(table, BucketOf(hash[e], table.nr_buckets),
                          FindEntryLink(table, hash, e))
           A == Allocated \ {e}
           cs == ChainsOf
           ds == ChainsOf'
           gs == hash'
<1>1. e \in Allocated /\ table' = u /\ hash' = [hash EXCEPT ![e] = None]
  BY DEF FindAndRemove
<1>2. Allocated' = A /\ Agree(gs, hash, A)
  BY <1>1 DEF Allocated, TableInv, Agree
<1>3. /\ \A g \in HashVal : IsChain(ds[g], u, gs, A, g)
      /\ ds = [g \in HashVal |-> ds[g]]
  BY <1>1, <1>2, ChainsNext
<1>4. \A g \in HashVal : IsChain(RemoveFirst(cs[g], e), u, gs, A, g)
  <2> HIDE DEF gs
  <2> QED BY <1>1, <1>2, TakenView
<1> HIDE DEF u, A, cs, ds, gs
<1>5. \A g \in HashVal : ds[g] = RemoveFirst(cs[g], e)
  BY <1>3, <1>4, OneChain
<1>6. ds = Abstract!Drop(cs, e)
  BY <1>3, <1>5, SameOperators DEF Abstract!Drop
<1> QED BY <1>1, <1>6, SameEntries DEF Abstract!Delete, cs, ds

\* rehash_entry() is Rehash.
LEMMA RehashView ==
    ASSUME TableInv, TableInv', NEW e \in Entry, NEW h \in HashVal, RehashEntry(e, h)
    PROVE  Abstract!Rehash(e, h)
<1> DEFINE u == Extracted(table, BucketOf(hash[e], table.nr_buckets),
                          FindEntryLink(table, hash, e))
           A == Allocated \ {e}
           cs == ChainsOf
           c == Abstract!Drop(cs, e)
<1>1. /\ e \in Allocated /\ table' = EntryInserted(u, e, h)
      /\ hash' = [hash EXCEPT ![e] = h]
  BY DEF RehashEntry
<1>2. h # None
  BY HashAssumption
<1>3. Allocated' = A \cup {e} /\ e \notin A
  BY <1>1, <1>2 DEF Allocated, TableInv
<1>4. Agree(hash, hash, A) /\ Agree(hash', hash, A) /\ hash'[e] = h
  BY <1>1 DEF Agree, Allocated, TableInv
<1>5. Holds(u, hash, A) /\ Hashed(hash, A)
  <2>1. Holds(u, hash, A)
    BY <1>1, <1>4, TakenOut
  <2>2. Hashed(hash, Allocated)
    BY Entries
  <2> HIDE DEF u
  <2> QED BY <2>1, <2>2 DEF Hashed
<1>6. \A g \in HashVal : IsChain(RemoveFirst(cs[g], e), u, hash, A, g)
  BY <1>1, <1>4, TakenView
<1>7. c = [g \in HashVal |-> RemoveFirst(cs[g], e)]
  BY SameOperators DEF Abstract!Drop
<1> HIDE DEF u, A, cs, c
<1>8. c = [g \in HashVal |-> c[g]] /\ \A g \in HashVal : IsChain(c[g], u, hash, A, g)
  BY <1>6, <1>7
<1>9. ChainsOf' = Abstract!Push(c, h, e)
  <2>1. /\ Holds(u, hash, A) /\ Hashed(hash, A) /\ e \notin A
        /\ Agree(hash', hash, A) /\ hash'[e] = h
        /\ c = [g \in HashVal |-> c[g]]
        /\ \A g \in HashVal : IsChain(c[g], u, hash, A, g)
        /\ table' = EntryInserted(u, e, h) /\ Allocated' = A \cup {e}
    BY <1>1, <1>3, <1>4, <1>5, <1>8
  <2> QED BY <2>1, PushedView
<1> QED BY <1>1, <1>9, SameEntries DEF Abstract!Rehash, c, cs

\* What IsPrefix asks for.
LEMMA PrefixIs ==
    ASSUME NEW A, NEW c \in Seq(A), NEW d \in Seq(A), Len(d) <= Len(c),
           \A i \in 1 .. Len(d) : d[i] = c[i]
    PROVE  IsPrefix(d, c)
<1> DEFINE n == Len(d)
           x == SubSeq(d, 1, n)
           y == SubSeq(c, 1, n)
<1>1. /\ n \in Nat /\ Len(c) \in Nat /\ 1 \in Int /\ n \in Int
      /\ \A i \in 1 .. n : d[i] \in A /\ c[i] \in A
  BY ElementOfSeq, LenProperties
<1>2. (IF 1 <= n THEN n - 1 + 1 ELSE 0) = n /\ n - 1 + 1 = n /\ \A i \in 1 .. n : 1 + i - 1 = i
  BY <1>1
<1> HIDE DEF n
<1>3. x \in Seq(A) /\ Len(x) = n /\ \A i \in 1 .. n : x[i] = d[i]
  <2>1. /\ x \in Seq(A) /\ Len(x) = IF 1 <= n THEN n - 1 + 1 ELSE 0
        /\ \A i \in 1 .. n - 1 + 1 : x[i] = d[1 + i - 1]
    BY <1>1, SubSeqProperties
  <2> QED BY <1>2, <2>1
<1>4. y \in Seq(A) /\ Len(y) = n /\ \A i \in 1 .. n : y[i] = c[i]
  <2>1. /\ y \in Seq(A) /\ Len(y) = IF 1 <= n THEN n - 1 + 1 ELSE 0
        /\ \A i \in 1 .. n - 1 + 1 : y[i] = c[1 + i - 1]
    BY <1>1, SubSeqProperties
  <2> QED BY <1>2, <2>1
<1>5. \A i \in 1 .. n : d[i] = c[i]
  BY DEF n
<1> HIDE DEF x, y
<1>6. x = y
  <2>1. x = [i \in 1 .. n |-> x[i]] /\ y = [i \in 1 .. n |-> y[i]]
    BY <1>3, <1>4, LenProperties
  <2> QED BY <1>3, <1>4, <1>5, <2>1
<1> QED BY <1>6 DEF IsPrefix, x, y, n

\* remove_hash() empties the chain of h and leaves of the others a front part.
LEMMA RemoveHashView ==
    ASSUME TableInv, TableInv', NEW h \in HashVal, RemoveHash(h)
    PROVE  Abstract!RemoveHash(h)
<1> DEFINE nb == table.nr_buckets
           b == BucketOf(h, nb)
           k == Lookup(table, hash, h)
           s == table.buckets[b]
           F == {s[i] : i \in 1 .. k - 1}
           B == Home(Allocated, hash, nb, b)
           cs == ChainsOf
           ds == ChainsOf'
           C(g) == With(Allocated, hash, g)
           D(g) == With(Allocated', hash', g)
<1>1. /\ k \in From(s, hash, 1, h) /\ From(s, hash, 1, h) = From(s, hash, k, h)
      /\ table'.nr_buckets = nb /\ Replaced(table, table', b, SubSeq(s, 1, k - 1))
      /\ Allocated' = Allocated \ (B \ F) /\ Agree(hash', hash, Allocated')
  BY RemoveHashStep DEF CutShort
<1>2. h \in Nat /\ \A g \in HashVal : g \in Nat
  BY HashAssumption
<1>3. Listed(s, B) /\ b \in 0 .. nb - 1
  BY <1>2, WithHome DEF TableInv, BucketFor
<1>4. k \in 1 .. Len(s) /\ hash[s[k]] = h /\ \A i \in 1 .. k - 1 : hash[s[i]] # h
  <2>1. k \in 1 .. Len(s) /\ hash[s[k]] = h
    BY <1>1 DEF From
  <2>2. Len(s) \in Nat
    BY <1>3, LenProperties DEF Listed
  <2>3. ASSUME NEW i \in 1 .. k - 1, hash[s[i]] = h PROVE FALSE
    <3>1. i \in 1 .. Len(s) /\ i >= 1 /\ ~ (i >= k)
      BY <2>1, <2>2
    <3>2. i \in From(s, hash, 1, h)
      BY <2>3, <3>1 DEF From
    <3>3. i \in From(s, hash, k, h)
      BY <1>1, <3>2
    <3> QED BY <3>1, <3>3 DEF From
  <2> QED BY <2>1, <2>3
<1>5. SameOrder(SubSeq(s, 1, k - 1), s, F)
  BY <1>3, <1>4, AheadFront
<1>6. /\ \A g \in HashVal : IsChain(cs[g], table, hash, Allocated, g)
      /\ \A g \in HashVal : IsChain(ds[g], table', hash', Allocated', g)
      /\ ds = [g \in HashVal |-> ds[g]]
  BY Chains, ChainsNext
<1>7. \A g : D(g) = C(g) \ (B \ F)
  BY <1>1 DEF With, Agree
<1>8. \A i \in 1 .. Len(s) : s[i] \in B
  BY <1>3, ElementOfSeq DEF Listed
<1>9. \A y \in F, x \in B : Ahead(s, x, y) => x \in F
  <2> SUFFICES ASSUME NEW y \in F, NEW x \in B, Ahead(s, x, y) PROVE x \in F
    OBVIOUS
  <2>1. PICK j \in 1 .. k - 1 : s[j] = y
    OBVIOUS
  <2>2. PICK i \in 1 .. Len(s) : s[i] = x
    BY <1>3 DEF Listed
  <2>3. Len(s) \in Nat
    BY <1>3, LenProperties DEF Listed
  <2>4. j \in 1 .. Len(s)
    BY <1>4, <2>3
  <2>5. i < j
    BY <1>3, <2>1, <2>2, <2>4, AheadAt
  <2>6. i \in 1 .. k - 1
    BY <1>4, <2>3, <2>5
  <2> QED BY <2>2, <2>6
<1>10. C(h) # {} /\ D(h) = {}
  <2>1. s[k] \in B /\ hash[s[k]] = h
    BY <1>4, <1>8
  <2>2. B \subseteq Allocated
    BY DEF Home
  <2>3. C(h) # {}
    <3> HIDE DEF B
    <3> QED BY <2>1, <2>2 DEF With
  <2>4. C(h) \subseteq B
    BY DEF With, Home
  <2>5. \A e \in F : hash[e] # h
    BY <1>4
  <2>6. \A e \in C(h) : hash[e] = h
    BY DEF With
  <2> HIDE DEF B, F, C, D
  <2> QED BY <1>7, <2>3, <2>4, <2>5, <2>6
<1>11. ASSUME NEW g \in HashVal PROVE IsPrefix(ds[g], cs[g])
  <2> DEFINE x == BucketOf(g, nb)
  <2>1. /\ Listed(cs[g], C(g)) /\ SameOrder(cs[g], BucketFor(table, g), C(g))
        /\ Listed(ds[g], D(g)) /\ SameOrder(ds[g], BucketFor(table', g), D(g))
    BY <1>6 DEF IsChain
  <2>2. C(g) \subseteq Home(Allocated, hash, nb, x) /\ x \in 0 .. nb - 1
    BY <1>2, WithHome DEF TableInv
  <2>3. BucketFor(table, g) = table.buckets[x] /\ BucketFor(table', g) = table'.buckets[x]
    BY <1>1 DEF BucketFor
  <2>4. D(g) \subseteq C(g)
    BY <1>7
  <2>5. /\ SameOrder(BucketFor(table', g), BucketFor(table, g), D(g))
        /\ \A z \in D(g), e \in C(g) : Ahead(BucketFor(table, g), e, z) => e \in D(g)
    <3>1. CASE x = b
      <4>1. C(g) \subseteq B /\ BucketFor(table, g) = s
            /\ BucketFor(table', g) = SubSeq(s, 1, k - 1)
        BY <1>1, <2>2, <2>3, <3>1 DEF Replaced
      <4> HIDE DEF B, F, C, D, s, k
      <4>2. D(g) \subseteq F /\ \A e \in C(g) : e \in F => e \in D(g)
        BY <1>7, <4>1
      <4> QED BY <1>5, <1>9, <4>1, <4>2 DEF SameOrder
    <3>2. CASE x # b
      <4>1. BucketFor(table', g) = BucketFor(table, g)
        BY <1>1, <2>2, <2>3, <3>2 DEF Replaced
      <4>2. C(g) \cap B = {}
        BY <2>2, <3>2 DEF Home
      <4> HIDE DEF B, F, C, D
      <4>3. D(g) = C(g)
        BY <1>7, <4>2
      <4> QED BY <4>1, <4>3 DEF SameOrder
    <3> QED BY <3>1, <3>2
  <2> DEFINE c == cs[g]
             d == ds[g]
             X == C(g)
             Y == D(g)
  <2>6. /\ Listed(c, X) /\ Listed(d, Y) /\ Y \subseteq X /\ SameOrder(d, c, Y)
        /\ \A z \in Y, e \in X : Ahead(c, e, z) => e \in Y
    <3> HIDE DEF C, D, cs, ds
    <3> QED BY <2>1, <2>4, <2>5 DEF SameOrder
  <2> HIDE DEF c, d, X, Y
  <2>7. /\ Len(d) \in Nat /\ Len(c) \in Nat /\ Len(d) <= Len(c)
        /\ \A i \in 1 .. Len(d) : d[i] = c[i]
    BY <2>6, SameBeginning
  <2>8. c \in Seq(X) /\ d \in Seq(X)
    <3>1. c \in Seq(X) /\ d \in Seq(Y)
      BY <2>6 DEF Listed
    <3>2. \A i \in 1 .. Len(d) : d[i] \in X
      BY <2>6, <3>1, ElementOfSeq
    <3> QED BY <3>1, <3>2, SeqDef, LenProperties
  <2>9. IsPrefix(d, c)
    BY <2>7, <2>8, PrefixIs
  <2> QED BY <2>9 DEF c, d
<1>12. cs[h] # <<>>
  <2>1. Listed(cs[h], C(h))
    BY <1>6 DEF IsChain
  <2> HIDE DEF C, cs
  <2> QED BY <1>10, <2>1, EmptySeq DEF Listed
<1>13. ds[h] = <<>>
  <2>1. Listed(ds[h], D(h))
    BY <1>6 DEF IsChain
  <2> HIDE DEF D, ds
  <2> QED BY <1>10, <2>1, ListedNone
<1>14. DOMAIN ds = HashVal
  <2> HIDE DEF ds
  <2> QED BY <1>6
<1>15. \A g \in HashVal : Abstract!IsPrefix(ds[g], cs[g])
  BY <1>11, SameOperators
<1> QED BY <1>12, <1>13, <1>14, <1>15 DEF Abstract!RemoveHash

\* clear() is Clear.
LEMMA ClearView ==
    ASSUME TableInv', Allocated' = {}
    PROVE  ChainsOf' = [g \in HashVal |-> <<>>]
<1> DEFINE ds == ChainsOf'
           gs == hash'
           t == table'
<1>1. /\ \A g \in HashVal : IsChain(ds[g], t, gs, {}, g)
      /\ ds = [g \in HashVal |-> ds[g]]
  BY ChainsNext
<1> HIDE DEF ds, gs, t
<1>2. \A g \in HashVal : With({}, gs, g) = {}
  BY DEF With
<1>3. \A g \in HashVal : ds[g] = <<>>
  BY <1>1, <1>2, ListedNone DEF IsChain
<1> QED BY <1>1, <1>3 DEF ds

\* Every step is one of the chains, or leaves them alone.
LEMMA ChainStep ==
    ASSUME TableInv, TableInv', [Next]_vars
    PROVE  [Abstract!Next]_ChainsOf
<1>1. ASSUME NEW e \in Entry, NEW h \in HashVal, NewEntry(e, h) PROVE Abstract!Next
  BY <1>1, NewView DEF Abstract!Next
<1>2. ASSUME NEW e \in Entry, NEW h \in HashVal, RehashEntry(e, h) PROVE Abstract!Next
  BY <1>2, RehashView DEF Abstract!Next
<1>3. ASSUME NEW e \in Entry, FindAndRemove(e) PROVE Abstract!Next
  BY <1>3, DeleteView DEF Abstract!Next
<1>4. ASSUME NEW h \in HashVal, RemoveHash(h) PROVE Abstract!Next
  BY <1>4, RemoveHashView DEF Abstract!Next
<1>5. CASE Clear
  <2>1. Allocated' = {}
    BY <1>5 DEF Clear, Allocated
  <2> QED BY <2>1, ClearView DEF Abstract!Next, Abstract!Clear
<1>6. CASE UNCHANGED vars
  BY <1>6 DEF vars, ChainsOf
<1> QED BY <1>1, <1>2, <1>3, <1>4, <1>5, <1>6 DEF Next

\* The table starts with empty chains.
LEMMA ChainStart == Init => Abstract!Init
<1> SUFFICES ASSUME Init PROVE Abstract!Init
  OBVIOUS
<1>1. Allocated = {}
  BY DEF Init, Allocated
<1>2. /\ \A g \in HashVal : IsChain(ChainsOf[g], table, hash, Allocated, g)
      /\ ChainsOf = [g \in HashVal |-> ChainsOf[g]]
  BY TableStart, Chains
<1>3. \A g \in HashVal : With(Allocated, hash, g) = {}
  BY <1>1 DEF With
<1>4. \A g \in HashVal : ChainsOf[g] = <<>>
  BY <1>2, <1>3, ListedNone DEF IsChain
<1> QED BY <1>2, <1>4 DEF Abstract!Init

\* The table implements ChainTable: per hash a chain, newest entry first, turned
\* around at most when an allocation grows the table; remove_hash() leaves the
\* front of every chain it does not empty.
THEOREM Implements == Spec => ImplementsChainTable
<1>1. TableInv /\ TableInv' /\ [Next]_vars => [Abstract!Next]_ChainsOf
  BY ChainStep
<1> QED BY <1>1, ChainStart, TableInvariant, PTL DEF Spec, ImplementsChainTable, Abstract!Spec
=============================================================================
