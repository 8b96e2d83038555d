------------------------ MODULE FileCacheOpsProofs -------------------------
(***************************************************************************)
(* Lemmas about the operations of a file cache, for every set of paths,    *)
(* hash function, time to live, and set D of data.                         *)
(*                                                                         *)
(* What is always true of a cache is said of every chain (ChainInv).  The  *)
(* operations of cache.c and file.c are described by what they do to the   *)
(* set of listed entries (SameLists, ListsWithout, ListsAlso, ListsMoved). *)
(***************************************************************************)
EXTENDS FileCacheOps, SequenceTheorems, WellFoundedInduction, TLAPS

-----------------------------------------------------------------------------
(* Numbers and sequences *)

\* Induction from 0 to N, for a set of numbers.
LEMMA UpTo ==
    ASSUME NEW N \in Nat, NEW P, 0 \in P, \A n \in 0 .. N - 1 : n \in P => n + 1 \in P
    PROVE  \A n \in 0 .. N : n \in P
<1> DEFINE R == {ss \in Nat \X Nat : ss[1] < ss[2]}
           Bad == {n \in 0 .. N : n \notin P}
<1>1. IsWellFoundedOn(R, Nat)
  BY NatLessThanWellFounded DEF OpToRel
<1>2. CASE Bad # {}
  <2>1. Bad \in SUBSET Nat
    OBVIOUS
  <2>2. PICK x \in Bad : \A y \in Bad : ~ (<<y, x>> \in R)
    BY <1>1, <1>2, <2>1, WFMin
  <2>3. x \in 0 .. N /\ x \notin P
    BY <2>2
  <2>4. x - 1 \in 0 .. N - 1 /\ x - 1 + 1 = x
    BY <2>3
  <2>5. x - 1 \in Bad
    BY <2>3, <2>4
  <2>6. <<x - 1, x>> \in R
    BY <2>3, <2>4
  <2> QED BY <2>2, <2>5, <2>6
<1>3. CASE Bad = {}
  BY <1>3
<1> QED BY <1>2, <1>3

\* A non-empty set of numbers has a least one, and Min gives it.
LEMMA MinIs ==
    ASSUME NEW S \in SUBSET Nat, S # {}
    PROVE  Min(S) \in S /\ \A i \in S : Min(S) <= i
<1> DEFINE R == {ss \in Nat \X Nat : ss[1] < ss[2]}
<1>1. IsWellFoundedOn(R, Nat)
  BY NatLessThanWellFounded DEF OpToRel
<1>2. PICK x \in S : \A y \in S : ~ (<<y, x>> \in R)
  BY <1>1, WFMin
<1>3. ASSUME NEW y \in S PROVE x <= y
  <2>1. y < x => <<y, x>> \in R
    OBVIOUS
  <2>2. ~ (y < x)
    BY <1>2, <2>1
  <2> QED BY <2>2
<1> QED BY <1>2, <1>3 DEF Min

\* t consists of the entries of s at the positions I, each of them once.
Drawn(t, s, I) ==
    \E pos \in [1 .. Len(t) -> I] :
        /\ \A j, k \in 1 .. Len(t) : pos[j] = pos[k] => j = k
        /\ \A i \in I : \E j \in 1 .. Len(t) : pos[j] = i
        /\ \A j \in 1 .. Len(t) : t[j] = s[pos[j]]

\* The function that Kept defines.
KeptFrom(s, I) ==
    CHOOSE f : f = [n \in 0 .. Len(s) |->
                        IF n = 0 THEN <<>>
                        ELSE IF n \in I THEN Append(f[n - 1], s[n]) ELSE f[n - 1]]

\* There is such a function.
LEMMA KeptUpTo ==
    ASSUME NEW S, NEW s \in Seq(S), NEW I
    PROVE  KeptFrom(s, I) = [n \in 0 .. Len(s) |->
                IF n = 0 THEN <<>>
                ELSE IF n \in I THEN Append(KeptFrom(s, I)[n - 1], s[n])
                     ELSE KeptFrom(s, I)[n - 1]]
<1> DEFINE To(m, f) == f = [n \in 0 .. m |->
                            IF n = 0 THEN <<>>
                            ELSE IF n \in I THEN Append(f[n - 1], s[n]) ELSE f[n - 1]]
           P == {m \in Nat : \E f : To(m, f)}
<1>0. Len(s) \in Nat
  BY LenProperties
<1>1. 0 \in P
  <2> DEFINE f == [n \in 0 .. 0 |-> <<>>]
  <2>1. To(0, f)
    OBVIOUS
  <2> QED BY <2>1
<1>2. ASSUME NEW m \in 0 .. Len(s) - 1, m \in P
      PROVE  m + 1 \in P
  <2>1. m \in Nat /\ m + 1 \in Nat
    BY <1>0
  <2>2. PICK f : To(m, f)
    BY <1>2
  <2> DEFINE last == IF m + 1 \in I THEN Append(f[m], s[m + 1]) ELSE f[m]
             g == [n \in 0 .. m + 1 |-> IF n = m + 1 THEN last ELSE f[n]]
  <2>3. ASSUME NEW n \in 0 .. m + 1, n # 0
        PROVE  g[n] = IF n \in I THEN Append(g[n - 1], s[n]) ELSE g[n - 1]
    <3>1. n - 1 \in 0 .. m /\ n - 1 # m + 1 /\ n - 1 \in 0 .. m + 1
      BY <2>1, <2>3
    <3>2. g[n - 1] = f[n - 1]
      BY <3>1
    <3>3. CASE n = m + 1
      <4>1. n - 1 = m
        BY <2>1, <3>3
      <4> QED BY <3>2, <3>3, <4>1
    <3>4. CASE n # m + 1
      <4>1. n \in 0 .. m /\ g[n] = f[n]
        BY <2>1, <3>4
      <4>2. f[n] = IF n \in I THEN Append(f[n - 1], s[n]) ELSE f[n - 1]
        BY <2>2, <2>3, <4>1
      <4> QED BY <3>2, <4>1, <4>2
    <3> QED BY <3>3, <3>4
  <2>4. g[0] = <<>>
    <3>1. 0 \in 0 .. m + 1 /\ 0 \in 0 .. m /\ 0 # m + 1
      BY <2>1
    <3>2. f[0] = <<>>
      BY <2>2, <3>1
    <3> QED BY <3>1, <3>2
  <2> HIDE DEF g
  <2>5. g = [n \in 0 .. m + 1 |-> g[n]]
    BY DEF g
  <2>6. \A n \in 0 .. m + 1 : g[n] = IF n = 0 THEN <<>>
                            ELSE IF n \in I THEN Append(g[n - 1], s[n]) ELSE g[n - 1]
    BY <2>3, <2>4
  <2>7. To(m + 1, g)
    BY <2>5, <2>6
  <2> QED BY <2>1, <2>7
<1> HIDE DEF P
<1>3. \A n \in 0 .. Len(s) : n \in P
  BY <1>0, <1>1, <1>2, UpTo
<1>4. Len(s) \in P
  BY <1>0, <1>3
<1> QED BY <1>4 DEF P, KeptFrom

\* Kept() keeps the positions I, and nothing else.
LEMMA KeptGives ==
    ASSUME NEW S, NEW s \in Seq(S), NEW I, I \subseteq 1 .. Len(s)
    PROVE  Kept(s, I) \in Seq(S) /\ Drawn(Kept(s, I), s, I)
<1> DEFINE upto == KeptFrom(s, I)
           J(n) == I \cap 1 .. n
           P == {n \in 0 .. Len(s) : upto[n] \in Seq(S) /\ Drawn(upto[n], s, J(n))}
<1>0. Len(s) \in Nat /\ DOMAIN s = 1 .. Len(s)
  BY LenProperties
<1>1. upto = [n \in 0 .. Len(s) |->
                    IF n = 0 THEN <<>>
                    ELSE IF n \in I THEN Append(upto[n - 1], s[n]) ELSE upto[n - 1]]
  BY KeptUpTo
<1>2. Kept(s, I) = IF I = 1 .. Len(s) THEN s ELSE upto[Len(s)]
  BY <1>0 DEF Kept, KeptFrom
<1> HIDE DEF upto
<1>3. 0 \in P
  <2>1. upto[0] = <<>> /\ 0 \in 0 .. Len(s) /\ J(0) = {}
    BY <1>0, <1>1
  <2>2. Drawn(<<>>, s, {})
    <3> DEFINE pos == [j \in {} |-> 0]
    <3>1. pos \in [1 .. Len(<<>>) -> {}] /\ 1 .. Len(<<>>) = {}
      BY EmptySeq
    <3> QED BY <3>1 DEF Drawn
  <2>3. <<>> \in Seq(S)
    BY EmptySeq
  <2> QED BY <2>1, <2>2, <2>3
<1>4. ASSUME NEW n \in 0 .. Len(s) - 1, n \in P
      PROVE  n + 1 \in P
  <2> DEFINE m == n + 1
             u == upto[n]
  <2>1. m \in 1 .. Len(s) /\ m \in 0 .. Len(s) /\ m # 0 /\ m - 1 = n /\ n \in Nat
    BY <1>0
  <2>2. upto[m] = IF m \in I THEN Append(u, s[m]) ELSE u
    BY <1>1, <2>1
  <2>3. u \in Seq(S) /\ Drawn(u, s, J(n))
    BY <1>4
  <2> HIDE DEF u, J
  <2>4. Len(u) \in Nat
    BY <2>3, LenProperties
  <2>5. PICK pos \in [1 .. Len(u) -> J(n)] :
            /\ \A j, k \in 1 .. Len(u) : pos[j] = pos[k] => j = k
            /\ \A i \in J(n) : \E j \in 1 .. Len(u) : pos[j] = i
            /\ \A j \in 1 .. Len(u) : u[j] = s[pos[j]]
    BY <2>3 DEF Drawn
  <2>6. CASE m \notin I
    <3>1. J(m) = J(n)
      BY <2>1, <2>6 DEF J
    <3> QED BY <2>1, <2>2, <2>3, <2>6, <3>1
  <2>7. CASE m \in I
    <3>1. J(m) = J(n) \cup {m} /\ m \notin J(n)
      BY <2>1, <2>7 DEF J
    <3>2. s[m] \in S
      BY <2>1, ElementOfSeq
    <3> DEFINE t == Append(u, s[m])
               l == Len(u) + 1
               q == [j \in 1 .. l |-> IF j = l THEN m ELSE pos[j]]
    <3>3. /\ t \in Seq(S) /\ Len(t) = l /\ t[l] = s[m]
          /\ \A j \in 1 .. Len(u) : t[j] = u[j]
      BY <2>3, <3>2, AppendProperties
    <3> HIDE DEF t, m
    <3>4. 1 .. l = 1 .. Len(u) \cup {l} /\ l \notin 1 .. Len(u)
      BY <2>4
    <3> HIDE DEF l
    <3>5. q \in [1 .. l -> J(m)]
      BY <2>5, <3>1, <3>4
    <3>6. q[l] = m /\ \A j \in 1 .. Len(u) : q[j] = pos[j] /\ pos[j] \in J(n)
      BY <2>5, <3>4
    <3> HIDE DEF q
    <3>7. \A j, k \in 1 .. l : q[j] = q[k] => j = k
      BY <2>5, <3>1, <3>4, <3>6
    <3>8. \A i \in J(m) : \E j \in 1 .. l : q[j] = i
      BY <2>5, <3>1, <3>4, <3>6
    <3>9. \A j \in 1 .. l : t[j] = s[q[j]]
      BY <2>5, <3>3, <3>4, <3>6
    <3>10. Drawn(t, s, J(m))
      <4>1. Len(t) = l
        BY <3>3
      <4> QED BY <3>5, <3>7, <3>8, <3>9, <4>1 DEF Drawn
    <3>11. upto[m] = t
      BY <2>2, <2>7 DEF t
    <3> QED BY <2>1, <3>3, <3>10, <3>11 DEF m
  <2> QED BY <2>6, <2>7
<1>5. Len(s) \in P
  <2> HIDE DEF P
  <2>1. \A n \in 0 .. Len(s) : n \in P
    BY <1>0, <1>3, <1>4, UpTo
  <2> QED BY <1>0, <2>1
<1>6. J(Len(s)) = I
  OBVIOUS
<1>7. CASE I = 1 .. Len(s)
  <2> DEFINE pos == [j \in 1 .. Len(s) |-> j]
  <2>1. pos \in [1 .. Len(s) -> I]
    BY <1>7
  <2>2. Drawn(s, s, I)
    BY <1>7, <2>1 DEF Drawn
  <2> QED BY <1>2, <1>7, <2>2
<1>8. CASE I # 1 .. Len(s)
  BY <1>2, <1>5, <1>6, <1>8
<1> QED BY <1>7, <1>8

\* Reverse() draws all.
LEMMA ReverseGives ==
    ASSUME NEW S, NEW s \in Seq(S)
    PROVE  Reverse(s) \in Seq(S) /\ Drawn(Reverse(s), s, 1 .. Len(s))
<1> DEFINE n == Len(s)
           at(i) == n - i + 1
           pos == [i \in 1 .. n |-> at(i)]
<1>1. n \in Nat
  BY LenProperties
<1>2. \A i \in 1 .. n : at(i) \in 1 .. n /\ at(at(i)) = i
  BY <1>1
<1>3. \A i \in 1 .. n : s[i] \in S
  BY ElementOfSeq
<1> HIDE DEF n
<1>4. Reverse(s) = [i \in 1 .. n |-> s[at(i)]]
  BY DEF Reverse, n
<1>5. Reverse(s) \in [1 .. n -> S]
  BY <1>2, <1>3, <1>4
<1>6. Reverse(s) \in Seq(S) /\ Len(Reverse(s)) = n
  BY <1>1, <1>5
<1>7. \A j \in 1 .. n : Reverse(s)[j] = s[pos[j]] /\ pos[j] = at(j)
  BY <1>4
<1>8. pos \in [1 .. n -> 1 .. n]
  BY <1>2
<1> HIDE DEF pos, at
<1>9. ASSUME NEW j \in 1 .. n, NEW k \in 1 .. n, pos[j] = pos[k] PROVE j = k
  <2>1. at(j) = at(k)
    BY <1>7, <1>9
  <2> QED BY <1>2, <2>1
<1>10. ASSUME NEW i \in 1 .. n PROVE \E j \in 1 .. n : pos[j] = i
  <2>1. at(i) \in 1 .. n /\ pos[at(i)] = i
    BY <1>2, <1>7
  <2> QED BY <2>1
<1>11. Drawn(Reverse(s), s, 1 .. n)
  <2>1. \A j, k \in 1 .. n : pos[j] = pos[k] => j = k
    BY <1>9
  <2>2. \A i \in 1 .. n : \E j \in 1 .. n : pos[j] = i
    BY <1>10
  <2>3. \A j \in 1 .. n : Reverse(s)[j] = s[pos[j]]
    BY <1>7
  <2> DEFINE D == 1 .. n
             r == Reverse(s)
  <2>4. D = 1 .. Len(r) /\ pos \in [D -> D]
    BY <1>6, <1>8
  <2>5. \A j, k \in D : pos[j] = pos[k] => j = k
    BY <2>1
  <2>6. \A i \in D : \E j \in D : pos[j] = i
    BY <2>2
  <2>7. \A j \in D : r[j] = s[pos[j]]
    BY <2>3
  <2>8. Drawn(r, s, D)
    <3> HIDE DEF D, r
    <3>1. pos \in [1 .. Len(r) -> D]
      BY <2>4
    <3>2. /\ \A j, k \in 1 .. Len(r) : pos[j] = pos[k] => j = k
          /\ \A i \in D : \E j \in 1 .. Len(r) : pos[j] = i
          /\ \A j \in 1 .. Len(r) : r[j] = s[pos[j]]
      BY <2>4, <2>5, <2>6, <2>7, Zenon
    <3> QED BY <3>1, <3>2, Zenon DEF Drawn
  <2> QED BY <2>8
<1> QED BY <1>6, <1>11 DEF n

\* RemoveAt() leaves one out.
LEMMA RemoveAtGives ==
    ASSUME NEW S, NEW s \in Seq(S), NEW i \in 1 .. Len(s)
    PROVE  RemoveAt(s, i) \in Seq(S) /\ Drawn(RemoveAt(s, i), s, 1 .. Len(s) \ {i})
<1> DEFINE n == Len(s)
           a == SubSeq(s, 1, i - 1)
           b == SubSeq(s, i + 1, n)
           r == RemoveAt(s, i)
           at(j) == IF j < i THEN j ELSE j + 1
           pos == [j \in 1 .. n - 1 |-> at(j)]
<1>0. n \in Nat /\ i \in 1 .. n
  BY LenProperties
<1>1. \A j \in 1 .. n : s[j] \in S
  BY ElementOfSeq
<1> HIDE DEF n
<1>2. a \in Seq(S) /\ Len(a) = i - 1 /\ \A j \in 1 .. i - 1 : a[j] = s[j]
  <2>1. 1 \in Int /\ i - 1 \in Int /\ \A j \in 1 .. i - 1 : s[j] \in S
    BY <1>0, <1>1
  <2>2. /\ a \in Seq(S) /\ Len(a) = IF 1 <= i - 1 THEN i - 1 - 1 + 1 ELSE 0
        /\ \A j \in 1 .. i - 1 - 1 + 1 : a[j] = s[1 + j - 1]
    BY <2>1, SubSeqProperties
  <2>3. (IF 1 <= i - 1 THEN i - 1 - 1 + 1 ELSE 0) = i - 1 /\ i - 1 - 1 + 1 = i - 1
    BY <1>0
  <2>4. \A j \in 1 .. i - 1 : 1 + j - 1 = j
    BY <1>0
  <2> QED BY <2>2, <2>3, <2>4
<1>3. b \in Seq(S) /\ Len(b) = n - i /\ \A j \in 1 .. n - i : b[j] = s[i + j]
  <2>1. i + 1 \in Int /\ n \in Int /\ \A j \in i + 1 .. n : s[j] \in S
    BY <1>0, <1>1
  <2>2. /\ b \in Seq(S) /\ Len(b) = IF i + 1 <= n THEN n - (i + 1) + 1 ELSE 0
        /\ \A j \in 1 .. n - (i + 1) + 1 : b[j] = s[i + 1 + j - 1]
    BY <2>1, SubSeqProperties
  <2>3. (IF i + 1 <= n THEN n - (i + 1) + 1 ELSE 0) = n - i /\ n - (i + 1) + 1 = n - i
    BY <1>0
  <2>4. \A j \in 1 .. n - i : i + 1 + j - 1 = i + j
    BY <1>0
  <2> QED BY <2>2, <2>3, <2>4
<1>4. r = a \o b
  BY DEF RemoveAt, n
<1> HIDE DEF a, b, r
<1>5. /\ r \in Seq(S) /\ Len(r) = n - 1
      /\ \A j \in 1 .. n - 1 : r[j] = IF j <= i - 1 THEN a[j] ELSE b[j - (i - 1)]
  <2>1. /\ r \in Seq(S) /\ Len(r) = Len(a) + Len(b)
        /\ \A j \in 1 .. Len(a) + Len(b) : r[j] = IF j <= Len(a) THEN a[j] ELSE b[j - Len(a)]
    BY <1>2, <1>3, <1>4, ConcatProperties
  <2>2. (i - 1) + (n - i) = n - 1
    BY <1>0
  <2> QED BY <1>2, <1>3, <2>1, <2>2
<1>6. ASSUME NEW j \in 1 .. n - 1 PROVE r[j] = s[at(j)] /\ at(j) \in 1 .. n \ {i}
  <2>1. CASE j < i
    <3>1. j \in 1 .. i - 1 /\ j <= i - 1
      BY <1>0, <2>1
    <3> QED BY <1>0, <1>2, <1>5, <2>1, <3>1
  <2>2. CASE ~ (j < i)
    <3>1. j - (i - 1) \in 1 .. n - i /\ ~ (j <= i - 1) /\ i + (j - (i - 1)) = j + 1
      BY <1>0, <2>2
    <3>2. b[j - (i - 1)] = s[j + 1]
      BY <1>3, <3>1
    <3>3. j + 1 \in 1 .. n \ {i}
      BY <1>0, <2>2
    <3> QED BY <1>5, <2>2, <3>1, <3>2, <3>3
  <2> QED BY <2>1, <2>2
<1>7. \A j, k \in 1 .. n - 1 : at(j) = at(k) => j = k
  BY <1>0
<1>8. ASSUME NEW k \in 1 .. n \ {i} PROVE \E j \in 1 .. n - 1 : at(j) = k
  <2>1. CASE k < i
    <3>1. k \in 1 .. n - 1 /\ at(k) = k
      BY <1>0, <2>1
    <3> QED BY <3>1
  <2>2. CASE k > i
    <3>1. k - 1 \in 1 .. n - 1 /\ at(k - 1) = k
      BY <1>0, <2>2
    <3> QED BY <3>1
  <2> QED BY <1>0, <2>1, <2>2
<1> HIDE DEF at
<1>9. pos \in [1 .. n - 1 -> 1 .. n \ {i}] /\ \A j \in 1 .. n - 1 : pos[j] = at(j)
  BY <1>6
<1> HIDE DEF pos
<1>10. ASSUME NEW j \in 1 .. n - 1, NEW k \in 1 .. n - 1, pos[j] = pos[k] PROVE j = k
  BY <1>7, <1>9, <1>10
<1>11. \A k \in 1 .. n \ {i} : \E j \in 1 .. n - 1 : pos[j] = k
  BY <1>8, <1>9
<1>12. \A j \in 1 .. n - 1 : r[j] = s[pos[j]]
  BY <1>6, <1>9
<1>13. Drawn(r, s, 1 .. n \ {i})
  BY <1>5, <1>9, <1>10, <1>11, <1>12 DEF Drawn
<1> QED BY <1>5, <1>13 DEF n, r

\* A new first entry moves the others by one.
LEMMA PushGives ==
    ASSUME NEW S, NEW s \in Seq(S), NEW e \in S
    PROVE  /\ <<e>> \o s \in Seq(S) /\ Len(<<e>> \o s) = Len(s) + 1
           /\ (<<e>> \o s)[1] = e
           /\ \A i \in 2 .. Len(s) + 1 : (<<e>> \o s)[i] = s[i - 1]
<1>1. <<e>> \in Seq(S) /\ Len(<<e>>) = 1 /\ <<e>>[1] = e
  OBVIOUS
<1>2. Len(s) \in Nat
  BY LenProperties
<1>3. /\ <<e>> \o s \in Seq(S) /\ Len(<<e>> \o s) = 1 + Len(s)
      /\ \A i \in 1 .. 1 + Len(s) : (<<e>> \o s)[i] = IF i <= 1 THEN <<e>>[i] ELSE s[i - 1]
  BY <1>1, ConcatProperties
<1> QED BY <1>1, <1>2, <1>3

-----------------------------------------------------------------------------
(* The cache as a set of entries *)

\* An entry of a cache of data D.
EntryOf(D) ==
    [path : Path, data : D \cup {None}, mod_time : 0 .. MaxTime, st : Status]

\* What a chain of the table is at any moment, when the caller holds hd: every
\* entry belongs into it, only data that was given is listed, the caller has a
\* single entry, and unless paths are renamed onto cached ones, no path has two
\* entries that can be found or given back.
ChainInv(D, s, h, hd) ==
    /\ s \in Seq(EntryOf(D))
    /\ \A i \in 1 .. Len(s) :
        /\ Hash[s[i].path] = h
        /\ s[i].st = "taken" => s[i].path = hd
        /\ s[i].st = "listed" => s[i].data \in D
        /\ s[i].st = "lost" => RenameMayFail
    /\ \A i, j \in 1 .. Len(s) :
        i # j => /\ ~ (s[i].st = "taken" /\ s[j].st = "taken")
                 /\ ~ RenameOntoCached /\ s[i].st # "lost" /\ s[j].st # "lost" =>
                        s[i].path # s[j].path

\* Every chain is what ChainInv says, and one has the entry of the caller.
CacheInv(D, c, hd) ==
    /\ c = [h \in HashVal |-> c[h]]
    /\ \A h \in HashVal : ChainInv(D, c[h], h, hd)
    /\ hd # None => \E i \in 1 .. Len(c[Hash[hd]]) : c[Hash[hd]][i].st = "taken"

\* e is an entry of the chain s.
In(e, s) == \E i \in 1 .. Len(s) : s[i] = e

\* The fields of an entry.
LEMMA EntryIs ==
    ASSUME NEW D, NEW e \in EntryOf(D)
    PROVE  /\ e.path \in Path /\ e.data \in D \cup {None}
           /\ e.mod_time \in 0 .. MaxTime /\ e.st \in Status
           /\ e = [path |-> e.path, data |-> e.data, mod_time |-> e.mod_time, st |-> e.st]
  BY DEF EntryOf

\* What the assignments to an entry leave.
LEMMA EntryWith ==
    ASSUME NEW D, NEW e \in EntryOf(D)
    PROVE  /\ [e EXCEPT !.st = "taken", !.mod_time = 0] =
                [path |-> e.path, data |-> e.data, mod_time |-> 0, st |-> "taken"]
           /\ [e EXCEPT !.st = "lost"] =
                [path |-> e.path, data |-> e.data, mod_time |-> e.mod_time, st |-> "lost"]
<1>1. [e EXCEPT !.st = "taken", !.mod_time = 0] =
            [path |-> e.path, data |-> e.data, mod_time |-> 0, st |-> "taken"]
  <2> DEFINE x == [e EXCEPT !.st = "taken"]
  <2>1. x = [path |-> e.path, data |-> e.data, mod_time |-> e.mod_time, st |-> "taken"]
    BY DEF EntryOf
  <2>2. [e EXCEPT !.st = "taken", !.mod_time = 0] = [x EXCEPT !.mod_time = 0]
    BY DEF EntryOf
  <2> HIDE DEF x
  <2> QED BY <2>1, <2>2
<1>2. [e EXCEPT !.st = "lost"] =
            [path |-> e.path, data |-> e.data, mod_time |-> e.mod_time, st |-> "lost"]
  BY DEF EntryOf
<1> QED BY <1>1, <1>2

\* A part of a chain is a chain.
LEMMA DrawnChain ==
    ASSUME NEW D, NEW h, NEW hd, NEW s, ChainInv(D, s, h, hd), NEW t \in Seq(EntryOf(D)),
           NEW I, I \subseteq 1 .. Len(s), Drawn(t, s, I)
    PROVE  ChainInv(D, t, h, hd)
<1>1. PICK pos \in [1 .. Len(t) -> I] :
            /\ \A j, k \in 1 .. Len(t) : pos[j] = pos[k] => j = k
            /\ \A j \in 1 .. Len(t) : t[j] = s[pos[j]]
  BY DEF Drawn
<1>2. \A j \in 1 .. Len(t) : pos[j] \in 1 .. Len(s)
  OBVIOUS
<1>3. ASSUME NEW j \in 1 .. Len(t)
      PROVE  /\ Hash[t[j].path] = h
             /\ t[j].st = "taken" => t[j].path = hd
             /\ t[j].st = "listed" => t[j].data \in D
             /\ t[j].st = "lost" => RenameMayFail
  BY <1>1, <1>2 DEF ChainInv
<1>4. ASSUME NEW j \in 1 .. Len(t), NEW k \in 1 .. Len(t), j # k
      PROVE  /\ ~ (t[j].st = "taken" /\ t[k].st = "taken")
             /\ ~ RenameOntoCached /\ t[j].st # "lost" /\ t[k].st # "lost" =>
                    t[j].path # t[k].path
  <2>1. pos[j] # pos[k] /\ pos[j] \in 1 .. Len(s) /\ pos[k] \in 1 .. Len(s)
    BY <1>1, <1>2, <1>4
  <2>2. t[j] = s[pos[j]] /\ t[k] = s[pos[k]]
    BY <1>1
  <2> QED BY <2>1, <2>2 DEF ChainInv
<1> QED BY <1>3, <1>4 DEF ChainInv

\* The entries of a part are entries of the whole.
LEMMA DrawnIn ==
    ASSUME NEW s, NEW t, NEW I, Drawn(t, s, I), NEW e
    PROVE  In(e, t) <=> \E i \in I : s[i] = e
<1>1. PICK pos \in [1 .. Len(t) -> I] :
            /\ \A i \in I : \E j \in 1 .. Len(t) : pos[j] = i
            /\ \A j \in 1 .. Len(t) : t[j] = s[pos[j]]
  BY DEF Drawn
<1>2. \A j \in 1 .. Len(t) : pos[j] \in I
  OBVIOUS
<1>3. ASSUME NEW i \in I, s[i] = e PROVE In(e, t)
  <2>1. PICK j \in 1 .. Len(t) : pos[j] = i
    BY <1>1
  <2> QED BY <1>1, <1>3, <2>1 DEF In
<1>4. ASSUME NEW j \in 1 .. Len(t), t[j] = e PROVE \E i \in I : s[i] = e
  BY <1>1, <1>2, <1>4
<1> QED BY <1>3, <1>4 DEF In

\* evict_invalid_lru_entries() leaves exactly what has not expired.
LEMMA UnexpiredGives ==
    ASSUME NEW D, NEW s \in Seq(EntryOf(D)), NEW t
    PROVE  /\ Unexpired(s, t) \in Seq(EntryOf(D))
           /\ Drawn(Unexpired(s, t), s, {i \in 1 .. Len(s) : ~ Expired(s[i], t)})
           /\ \A e : In(e, Unexpired(s, t)) <=> In(e, s) /\ ~ Expired(e, t)
<1> DEFINE I == {i \in 1 .. Len(s) : ~ Expired(s[i], t)}
<1>1. DOMAIN s = 1 .. Len(s)
  BY LenProperties
<1>2. Unexpired(s, t) = Kept(s, I)
  BY <1>1 DEF Unexpired
<1>3. Unexpired(s, t) \in Seq(EntryOf(D)) /\ Drawn(Unexpired(s, t), s, I)
  BY <1>2, KeptGives
<1>4. ASSUME NEW e PROVE In(e, Unexpired(s, t)) <=> In(e, s) /\ ~ Expired(e, t)
  <2>1. In(e, Unexpired(s, t)) <=> \E i \in I : s[i] = e
    BY <1>3, DrawnIn
  <2> QED BY <2>1 DEF In
<1> QED BY <1>3, <1>4

\* v holds the entries of c that have not expired at t.
HoldsUnexpired(v, c, t) ==
    \A h \in HashVal : \A e : In(e, v[h]) <=> In(e, c[h]) /\ ~ Expired(e, t)

\* Eviction keeps the invariant and shows what was shown.
LEMMA EvictedGives ==
    ASSUME NEW D, NEW c, NEW hd, CacheInv(D, c, hd), hd \in Path \cup {None}, NEW t
    PROVE  CacheInv(D, Evicted(c, t), hd) /\ HoldsUnexpired(Evicted(c, t), c, t)
<1> DEFINE v == Evicted(c, t)
<1>1. v = [h \in HashVal |-> Unexpired(c[h], t)]
  BY DEF Evicted
<1>2. \A h \in HashVal : v[h] = Unexpired(c[h], t)
  BY <1>1
<1>3. v = [h \in HashVal |-> v[h]]
  BY <1>1
<1> HIDE DEF v
<1>4. ASSUME NEW h \in HashVal
      PROVE  ChainInv(D, v[h], h, hd) /\ \A e : In(e, v[h]) <=> In(e, c[h]) /\ ~ Expired(e, t)
  <2>1. ChainInv(D, c[h], h, hd) /\ c[h] \in Seq(EntryOf(D))
    BY DEF CacheInv, ChainInv
  <2>2. /\ v[h] \in Seq(EntryOf(D))
        /\ Drawn(v[h], c[h], {i \in 1 .. Len(c[h]) : ~ Expired(c[h][i], t)})
        /\ \A e : In(e, v[h]) <=> In(e, c[h]) /\ ~ Expired(e, t)
    <3>1. v[h] = Unexpired(c[h], t)
      BY <1>2
    <3> QED BY <2>1, <3>1, UnexpiredGives
  <2> DEFINE I == {i \in 1 .. Len(c[h]) : ~ Expired(c[h][i], t)}
  <2>3. I \subseteq 1 .. Len(c[h]) /\ Drawn(v[h], c[h], I)
    BY <2>2
  <2> HIDE DEF I
  <2>4. ChainInv(D, v[h], h, hd)
    BY <2>1, <2>2, <2>3, DrawnChain
  <2> QED BY <2>2, <2>4
<1>5. ASSUME hd # None
      PROVE  \E i \in 1 .. Len(v[Hash[hd]]) : v[Hash[hd]][i].st = "taken"
  <2>1. Hash[hd] \in HashVal
    BY <1>5, FileCacheAssumption
  <2>2. PICK i \in 1 .. Len(c[Hash[hd]]) : c[Hash[hd]][i].st = "taken"
    BY <1>5 DEF CacheInv
  <2>3. In(c[Hash[hd]][i], c[Hash[hd]]) /\ ~ Expired(c[Hash[hd]][i], t)
    BY <2>2 DEF In, Expired
  <2> QED BY <1>4, <2>1, <2>2, <2>3 DEF In
<1>6. CacheInv(D, v, hd)
  BY <1>3, <1>4, <1>5 DEF CacheInv
<1> QED BY <1>4, <1>6 DEF v, HoldsUnexpired

-----------------------------------------------------------------------------
(* Finding an entry *)

\* str_eq() compares over the length of the stored path only: it decides when no
\* path is a proper beginning of another one with the same hash.
StrEqDecides == \A p, q \in Path : Hash[p] = Hash[q] => (StrEq(p, q) <=> p = q)

\* A peek / peek_next walk visits the listed entries, although peek_next()
\* takes the only listed one for an unlisted one.
LEMMA PeekedIs ==
    ASSUME NEW D, NEW c, NEW h \in HashVal, c[h] \in Seq(EntryOf(D))
    PROVE  Peeked(c, h) = {i \in 1 .. Len(c[h]) : c[h][i].st = "listed"}
<1>1. DOMAIN c[h] = 1 .. Len(c[h]) /\ Len(c[h]) \in Nat
  BY LenProperties
<1>2. ASSUME NEW i \in 1 .. Len(c[h])
      PROVE  i \in Peeked(c, h) <=> c[h][i].st = "listed"
  <2> DEFINE earlier == {j \in 1 .. i - 1 : PeekTest(c, h, j)}
  <2>1. i \in Peeked(c, h) <=> IF earlier = {} THEN PeekTest(c, h, i) ELSE PeekNextTest(c, h, i)
    BY <1>1 DEF Peeked
  <2>2. CASE earlier = {}
    BY <2>1, <2>2 DEF PeekTest
  <2>3. CASE earlier # {}
    <3>1. PICK j \in 1 .. i - 1 : c[h][j].st = "listed"
      BY <2>3 DEF PeekTest
    <3>2. j # i /\ j \in DOMAIN c[h]
      BY <1>1
    <3>3. <<h, j>> \in Position(c)
      BY <3>2 DEF Position
    <3>4. <<h, j>> \in ListedAt(c)
      BY <3>1, <3>3 DEF ListedAt
    <3>5. ListedAt(c) # {<<h, i>>}
      BY <3>2, <3>4
    <3> QED BY <2>1, <2>3, <3>5 DEF PeekNextTest, MaybeUnlisted
  <2> QED BY <2>2, <2>3
<1>3. Peeked(c, h) \subseteq 1 .. Len(c[h])
  BY <1>1 DEF Peeked
<1> QED BY <1>2, <1>3

\* find_entry() finds the first listed entry of the path, if there is one.
LEMMA FindIs ==
    ASSUME StrEqDecides, NEW D, NEW c, NEW hd, CacheInv(D, c, hd), NEW p \in Path
    PROVE  LET i == FindEntry(c, p)
               s == c[Hash[p]]
           IN  \/ i = 0 /\ \A j \in 1 .. Len(s) : ~ (s[j].st = "listed" /\ s[j].path = p)
               \/ i \in 1 .. Len(s) /\ s[i].st = "listed" /\ s[i].path = p
<1> DEFINE s == c[Hash[p]]
           hits == {i \in Peeked(c, Hash[p]) : StrEq(s[i].path, p)}
<1>1. Hash[p] \in HashVal /\ ChainInv(D, s, Hash[p], hd)
  BY FileCacheAssumption DEF CacheInv
<1>2. s \in Seq(EntryOf(D)) /\ Len(s) \in Nat
  BY <1>1, LenProperties DEF ChainInv
<1>3. Peeked(c, Hash[p]) = {i \in 1 .. Len(s) : s[i].st = "listed"}
  BY <1>1, <1>2, PeekedIs
<1>4. \A i \in 1 .. Len(s) : s[i].path \in Path /\ Hash[s[i].path] = Hash[p]
  <2>1. \A i \in 1 .. Len(s) : s[i] \in EntryOf(D)
    BY <1>2, ElementOfSeq
  <2> QED BY <1>1, <2>1, EntryIs DEF ChainInv
<1>5. hits = {i \in 1 .. Len(s) : s[i].st = "listed" /\ s[i].path = p}
  BY <1>3, <1>4 DEF StrEqDecides
<1>6. FindEntry(c, p) = IF hits = {} THEN 0 ELSE Min(hits)
  BY DEF FindEntry, Min
<1> HIDE DEF hits
<1>7. CASE hits = {}
  BY <1>5, <1>6, <1>7
<1>8. CASE hits # {}
  <2>1. hits \in SUBSET Nat
    BY <1>2, <1>5
  <2>2. Min(hits) \in hits
    BY <1>8, <2>1, MinIs
  <2> QED BY <1>5, <1>6, <1>8, <2>2
<1> QED BY <1>7, <1>8

\* The caller's entry is at i of the chain of p, and it is the only one.
HoldsAt(c, p, i) ==
    /\ i \in 1 .. Len(c[Hash[p]]) /\ c[Hash[p]][i].st = "taken" /\ c[Hash[p]][i].path = p
    /\ \A j \in 1 .. Len(c[Hash[p]]) : j # i => c[Hash[p]][j].st # "taken"

\* The entry the caller holds is found again.
LEMMA HeldAtIs ==
    ASSUME NEW D, NEW c, NEW p \in Path, CacheInv(D, c, p)
    PROVE  HoldsAt(c, p, HeldAt(c, p))
<1> DEFINE s == c[Hash[p]]
           I == {i \in 1 .. Len(s) : s[i].st = "taken" /\ s[i].path = p}
<1>1. Hash[p] \in HashVal /\ ChainInv(D, s, Hash[p], p) /\ p # None
  BY FileCacheAssumption DEF CacheInv
<1>2. Len(s) \in Nat
  BY <1>1, LenProperties DEF ChainInv
<1>3. PICK i \in 1 .. Len(s) : s[i].st = "taken"
  BY <1>1 DEF CacheInv
<1>4. i \in I
  BY <1>1, <1>3 DEF ChainInv
<1>5. HeldAt(c, p) = Min(I)
  BY <1>4 DEF HeldAt, SelectInSeq
<1>6. I \in SUBSET Nat
  BY <1>2
<1>7. Min(I) \in I
  BY <1>4, <1>6, MinIs
<1> QED BY <1>1, <1>5, <1>7 DEF ChainInv, HoldsAt

-----------------------------------------------------------------------------
(* Changes of a single chain *)

\* There is no other entry that is taken.
LEMMA HeldIs ==
    ASSUME NEW D, NEW c, NEW p \in Path, CacheInv(D, c, p), NEW e, In(e, c[Hash[p]]), e.st = "taken"
    PROVE  c[Hash[p]][HeldAt(c, p)] = e
<1>1. HoldsAt(c, p, HeldAt(c, p))
  BY HeldAtIs
<1>2. PICK j \in 1 .. Len(c[Hash[p]]) : c[Hash[p]][j] = e
  BY DEF In
<1> QED BY <1>1, <1>2 DEF HoldsAt

\* Nobody's entry is in a chain: it does not matter who holds what.
LEMMA NoneTaken ==
    ASSUME NEW D, NEW s, NEW h \in HashVal, NEW hd, ChainInv(D, s, h, hd), hd = None \/ h # Hash[hd]
    PROVE  /\ \A i \in 1 .. Len(s) : s[i].st # "taken"
           /\ \A x : ChainInv(D, s, h, x)
<1>1. s \in Seq(EntryOf(D))
  BY DEF ChainInv
<1>2. \A i \in 1 .. Len(s) : s[i].path \in Path
  <2>1. \A i \in 1 .. Len(s) : s[i] \in EntryOf(D)
    BY <1>1, ElementOfSeq
  <2> QED BY <2>1, EntryIs
<1>3. \A i \in 1 .. Len(s) : s[i].st # "taken"
  BY <1>2, FileCacheAssumption DEF ChainInv
<1> QED BY <1>3 DEF ChainInv

\* An entry is exchanged for another one of the same path.
LEMMA ExchangedGives ==
    ASSUME NEW D, NEW s, NEW h, NEW hd, ChainInv(D, s, h, hd),
           NEW i \in 1 .. Len(s), NEW e \in EntryOf(D), e.path = s[i].path,
           NEW x, \A j \in 1 .. Len(s) : j # i => s[j].st # "taken",
           e.st = "taken" => e.path = x, e.st = "listed" => e.data \in D,
           s[i].st = "lost" => e.st = "lost", e.st = "lost" => RenameMayFail
    PROVE  /\ ChainInv(D, [s EXCEPT ![i] = e], h, x)
           /\ Len([s EXCEPT ![i] = e]) = Len(s)
           /\ \A j \in 1 .. Len(s) : [s EXCEPT ![i] = e][j] = IF j = i THEN e ELSE s[j]
<1> DEFINE t == [s EXCEPT ![i] = e]
<1>1. s \in Seq(EntryOf(D))
  BY DEF ChainInv
<1>2. t \in Seq(EntryOf(D)) /\ Len(t) = Len(s)
      /\ \A j \in 1 .. Len(s) : t[j] = IF j = i THEN e ELSE s[j]
  BY <1>1, ExceptSeq
<1> HIDE DEF t
<1>3. ASSUME NEW j \in 1 .. Len(s)
      PROVE  /\ Hash[t[j].path] = h
             /\ t[j].st = "taken" => t[j].path = x
             /\ t[j].st = "listed" => t[j].data \in D
             /\ t[j].st = "lost" => RenameMayFail
             /\ t[j].path = s[j].path
             /\ t[j].st = "taken" => j = i
             /\ t[j].st # "lost" => s[j].st # "lost"
  BY <1>2 DEF ChainInv
<1>4. ASSUME NEW j \in 1 .. Len(s), NEW k \in 1 .. Len(s), j # k
      PROVE  /\ ~ (t[j].st = "taken" /\ t[k].st = "taken")
             /\ ~ RenameOntoCached /\ t[j].st # "lost" /\ t[k].st # "lost" =>
                    t[j].path # t[k].path
  BY <1>3, <1>4 DEF ChainInv
<1>5. ChainInv(D, t, h, x)
  BY <1>2, <1>3, <1>4 DEF ChainInv
<1> QED BY <1>2, <1>5 DEF t

\* A cache in which one chain is exchanged.
LEMMA OneChain ==
    ASSUME NEW D, NEW c, NEW hd, CacheInv(D, c, hd), NEW g \in HashVal, hd = None \/ g = Hash[hd],
           NEW s, NEW x, ChainInv(D, s, g, x),
           x # None => g = Hash[x] /\ \E i \in 1 .. Len(s) : s[i].st = "taken"
    PROVE  CacheInv(D, [c EXCEPT ![g] = s], x)
<1> DEFINE d == [c EXCEPT ![g] = s]
<1>1. c = [h \in HashVal |-> c[h]]
  BY DEF CacheInv
<1>2. d = [h \in HashVal |-> d[h]] /\ d[g] = s /\ \A h \in HashVal : h # g => d[h] = c[h]
  BY <1>1
<1> HIDE DEF d
<1>3. ASSUME NEW h \in HashVal, h # g PROVE ChainInv(D, d[h], h, x)
  <2>1. ChainInv(D, c[h], h, hd)
    BY DEF CacheInv
  <2> QED BY <1>2, <1>3, <2>1, NoneTaken
<1>4. CacheInv(D, d, x)
  BY <1>2, <1>3 DEF CacheInv
<1> QED BY <1>4 DEF d

-----------------------------------------------------------------------------
(* The operations of cache.c *)

\* e is on the LRU list and in the chain of h.
Listed(c, h, e) == In(e, c[h]) /\ e.st = "listed"

\* The chain of a path.
LEMMA ChainOf ==
    ASSUME NEW D, NEW c, NEW hd, CacheInv(D, c, hd), NEW p \in Path
    PROVE  /\ Hash[p] \in HashVal /\ ChainInv(D, c[Hash[p]], Hash[p], hd)
           /\ c[Hash[p]] \in Seq(EntryOf(D)) /\ Len(c[Hash[p]]) \in Nat
           /\ \A i \in 1 .. Len(c[Hash[p]]) : c[Hash[p]][i] \in EntryOf(D)
           /\ p # None
<1>1. Hash[p] \in HashVal /\ ChainInv(D, c[Hash[p]], Hash[p], hd) /\ p # None
  BY FileCacheAssumption DEF CacheInv
<1>2. c[Hash[p]] \in Seq(EntryOf(D))
  BY <1>1 DEF ChainInv
<1> QED BY <1>1, <1>2, LenProperties, ElementOfSeq

\* The cache with e in the place of the entry at i of the chain of p.
Replaced(c, p, i, e) == [c EXCEPT ![Hash[p]] = [c[Hash[p]] EXCEPT ![i] = e]]

\* d is c but for the entry e at i of the chain of p.
Differs(d, c, p, i, e) ==
    /\ Len(d[Hash[p]]) = Len(c[Hash[p]])
    /\ \A j \in 1 .. Len(c[Hash[p]]) : d[Hash[p]][j] = IF j = i THEN e ELSE c[Hash[p]][j]
    /\ \A h \in HashVal : h # Hash[p] => d[h] = c[h]

\* An update of an entry in its place.
LEMMA InPlaceGives ==
    ASSUME NEW D, NEW c, NEW hd, CacheInv(D, c, hd), NEW p \in Path, hd = None \/ hd = p,
           NEW i \in 1 .. Len(c[Hash[p]]), NEW e \in EntryOf(D), e.path = c[Hash[p]][i].path,
           \A j \in 1 .. Len(c[Hash[p]]) : j # i => c[Hash[p]][j].st # "taken",
           c[Hash[p]][i].st # "lost",
           NEW x, x = None \/ (x = p /\ e.st = "taken" /\ e.path = p),
           e.st = "taken" => e.path = x, e.st = "listed" => e.data \in D,
           e.st = "lost" => RenameMayFail
    PROVE  CacheInv(D, Replaced(c, p, i, e), x) /\ Differs(Replaced(c, p, i, e), c, p, i, e)
<1> DEFINE s == c[Hash[p]]
           t == [s EXCEPT ![i] = e]
           d == [c EXCEPT ![Hash[p]] = t]
<1>1. Hash[p] \in HashVal /\ ChainInv(D, s, Hash[p], hd) /\ p # None
  BY ChainOf
<1>2. /\ ChainInv(D, t, Hash[p], x) /\ Len(t) = Len(s)
      /\ \A j \in 1 .. Len(s) : t[j] = IF j = i THEN e ELSE s[j]
  BY <1>1, ExchangedGives
<1> HIDE DEF t
<1>3. x # None => \E j \in 1 .. Len(t) : t[j].st = "taken"
  BY <1>2
<1>4. CacheInv(D, [c EXCEPT ![Hash[p]] = t], x)
  BY <1>1, <1>2, <1>3, OneChain
<1>5. c = [h \in HashVal |-> c[h]]
  BY DEF CacheInv
<1>6. d[Hash[p]] = t /\ \A h \in HashVal : h # Hash[p] => d[h] = c[h]
  BY <1>1, <1>5
<1> QED BY <1>2, <1>4, <1>6 DEF t, Replaced, Differs

\* y is in the chain of h, and not at i if that is the chain of p.
Beside(y, c, h, p, i) == \E j \in 1 .. Len(c[h]) : c[h][j] = y /\ ~ (h = Hash[p] /\ j = i)

\* In d, e is listed or not in the place of the entry at i, and the rest is as in c.
ListedBeside(d, c, p, i, e) ==
    \A h \in HashVal : \A y :
        Listed(d, h, y) <=> y.st = "listed" /\ ((h = Hash[p] /\ y = e) \/ Beside(y, c, h, p, i))

\* What is listed after an update in place of the entry at i.
LEMMA ListedInPlace ==
    ASSUME NEW c, NEW d, NEW p, Hash[p] \in HashVal, NEW i \in 1 .. Len(c[Hash[p]]), NEW e,
           Differs(d, c, p, i, e)
    PROVE  ListedBeside(d, c, p, i, e)
<1>1. ASSUME NEW h \in HashVal, NEW y, h # Hash[p]
      PROVE  Listed(d, h, y) <=> y.st = "listed" /\ Beside(y, c, h, p, i)
  BY <1>1 DEF Listed, In, Differs, Beside
<1>2. ASSUME NEW y
      PROVE  Listed(d, Hash[p], y) <=> y.st = "listed" /\ (y = e \/ Beside(y, c, Hash[p], p, i))
  BY DEF Listed, In, Differs, Beside
<1> QED BY <1>1, <1>2 DEF ListedBeside

\* d lists what c lists but for the entries of p.
ListsWithout(d, c, p) ==
    \A h \in HashVal : \A e : Listed(d, h, e) <=> Listed(c, h, e) /\ e.path # p

\* d lists nothing that c does not list.
ListsNoMore(d, c) == \A h \in HashVal : \A e : Listed(d, h, e) => Listed(c, h, e)

\* sftfs_cache_take(): the entry is the caller's, and nobody finds it.
LEMMA TakenGives ==
    ASSUME NEW D, NEW c, CacheInv(D, c, None), NEW p \in Path, NEW i \in 1 .. Len(c[Hash[p]]),
           c[Hash[p]][i].st = "listed", c[Hash[p]][i].path = p
    PROVE  LET d == Taken(c, Hash[p], i)
               s == c[Hash[p]]
           IN  /\ CacheInv(D, d, p)
               /\ HoldsAt(d, p, i) /\ d[Hash[p]][i].data = s[i].data
               /\ ListsNoMore(d, c)
               /\ ~ RenameOntoCached => ListsWithout(d, c, p)
<1> DEFINE s == c[Hash[p]]
           x == [s[i] EXCEPT !.st = "taken", !.mod_time = 0]
           d == Replaced(c, p, i, x)
<1>1. /\ Hash[p] \in HashVal /\ ChainInv(D, s, Hash[p], None) /\ s \in Seq(EntryOf(D))
      /\ \A j \in 1 .. Len(s) : s[j] \in EntryOf(D)
  BY ChainOf
<1>2. c = [h \in HashVal |-> c[h]]
  BY DEF CacheInv
<1>3. Taken(c, Hash[p], i) = d
  BY <1>1, <1>2 DEF Taken, Replaced
<1>4. x \in EntryOf(D) /\ x.path = p /\ x.st = "taken" /\ x.data = s[i].data
  <2>1. /\ s[i].path \in Path /\ s[i].data \in D \cup {None}
        /\ s[i] = [path |-> s[i].path, data |-> s[i].data, mod_time |-> s[i].mod_time, st |-> s[i].st]
    BY <1>1, EntryIs
  <2>2. x = [path |-> p, data |-> s[i].data, mod_time |-> 0, st |-> "taken"]
    BY <1>1, EntryWith
  <2>3. 0 \in 0 .. MaxTime /\ "taken" \in Status
    BY FileCacheAssumption DEF Status
  <2> QED BY <2>1, <2>2, <2>3 DEF EntryOf
<1>5. \A j \in 1 .. Len(s) : s[j].st # "taken"
  BY <1>1, NoneTaken
<1> HIDE DEF x
<1>6. CacheInv(D, d, p) /\ Differs(d, c, p, i, x)
  <2>1. /\ \A j \in 1 .. Len(c[Hash[p]]) : j # i => c[Hash[p]][j].st # "taken"
        /\ x \in EntryOf(D) /\ x.path = c[Hash[p]][i].path
        /\ x.st = "taken" /\ x.path = p /\ c[Hash[p]][i].st # "lost"
    BY <1>4, <1>5
  <2> QED BY <2>1, InPlaceGives
<1> HIDE DEF d
<1>7. ListedBeside(d, c, p, i, x)
  BY <1>1, <1>6, ListedInPlace
<1>8. ASSUME ~ RenameOntoCached, NEW h \in HashVal, NEW y, y.st = "listed"
      PROVE  Beside(y, c, h, p, i) <=> In(y, c[h]) /\ y.path # p
  <2>1. ChainInv(D, c[h], h, None)
    BY DEF CacheInv
  <2>2. ASSUME NEW j \in 1 .. Len(c[h]), c[h][j] = y
        PROVE  y.path = p <=> h = Hash[p] /\ j = i
    <3>1. y.path = p => h = Hash[p]
      BY <2>1, <2>2 DEF ChainInv
    <3>2. ASSUME h = Hash[p], j # i PROVE y.path # p
      <4>1. s[j].st # "lost" /\ s[i].st # "lost" /\ j \in 1 .. Len(s)
        BY <1>8, <2>2, <3>2
      <4>2. s[j].path # s[i].path
        BY <1>1, <1>8, <3>2, <4>1 DEF ChainInv
      <4> QED BY <2>2, <3>2, <4>2
    <3> QED BY <2>2, <3>1, <3>2
  <2> QED BY <2>2 DEF Beside, In
<1>9. ASSUME ~ RenameOntoCached, NEW h \in HashVal, NEW y
      PROVE  Listed(d, h, y) <=> Listed(c, h, y) /\ y.path # p
  <2>1. CASE y.st = "listed"
    BY <1>4, <1>7, <1>8, <1>9, <2>1 DEF Listed, ListedBeside
  <2>2. CASE y.st # "listed"
    BY <2>2 DEF Listed
  <2> QED BY <2>1, <2>2
<1>10. HoldsAt(d, p, i) /\ d[Hash[p]][i].data = s[i].data
  BY <1>4, <1>5, <1>6 DEF HoldsAt, Differs
<1>11. ListsNoMore(d, c)
  <2>1. ASSUME NEW h \in HashVal, NEW y, Listed(d, h, y) PROVE Listed(c, h, y)
    <3>1. y.st = "listed" /\ ((h = Hash[p] /\ y = x) \/ Beside(y, c, h, p, i))
      BY <1>7, <2>1 DEF ListedBeside
    <3> QED BY <1>4, <3>1 DEF Beside, Listed, In
  <2> QED BY <2>1 DEF ListsNoMore
<1> QED BY <1>3, <1>6, <1>9, <1>10, <1>11 DEF ListsWithout

\* d lists what c lists.
SameLists(d, c) == \A h \in HashVal : \A e : Listed(d, h, e) <=> Listed(c, h, e)

\* d lists what c lists, and e in the chain of p.
ListsAlso(d, c, p, e) ==
    \A h \in HashVal : \A y : Listed(d, h, y) <=> Listed(c, h, y) \/ (h = Hash[p] /\ y = e)

\* Moving all entries to a larger table reverses chains, and loses nothing.
LEMMA GrownGives ==
    ASSUME NEW D, NEW c, CacheInv(D, c, None), NEW grow \in BOOLEAN
    PROVE  LET g == [h \in HashVal |-> IF grow THEN Reverse(c[h]) ELSE c[h]]
           IN  CacheInv(D, g, None) /\ \A h \in HashVal : \A e : In(e, g[h]) <=> In(e, c[h])
<1> DEFINE g == [h \in HashVal |-> IF grow THEN Reverse(c[h]) ELSE c[h]]
<1>1. g = [h \in HashVal |-> g[h]]
  OBVIOUS
<1>2. \A h \in HashVal : g[h] = IF grow THEN Reverse(c[h]) ELSE c[h]
  OBVIOUS
<1> HIDE DEF g
<1>3. ASSUME NEW h \in HashVal
      PROVE  ChainInv(D, g[h], h, None) /\ \A e : In(e, g[h]) <=> In(e, c[h])
  <2>1. ChainInv(D, c[h], h, None) /\ c[h] \in Seq(EntryOf(D))
    BY DEF CacheInv, ChainInv
  <2>2. CASE grow
    <3>1. g[h] = Reverse(c[h])
      BY <1>2, <2>2
    <3>2. g[h] \in Seq(EntryOf(D)) /\ Drawn(g[h], c[h], 1 .. Len(c[h]))
      BY <2>1, <3>1, ReverseGives
    <3>3. ChainInv(D, g[h], h, None)
      BY <2>1, <3>2, DrawnChain
    <3>4. \A e : In(e, g[h]) <=> \E i \in 1 .. Len(c[h]) : c[h][i] = e
      BY <3>2, DrawnIn
    <3> QED BY <3>3, <3>4 DEF In
  <2>3. CASE ~ grow
    BY <1>2, <2>1, <2>3
  <2> QED BY <2>2, <2>3
<1>4. CacheInv(D, g, None)
  BY <1>1, <1>3 DEF CacheInv
<1> QED BY <1>3, <1>4 DEF g

\* What is in a chain with a new head.
LEMMA PushedIn ==
    ASSUME NEW S, NEW s \in Seq(S), NEW e \in S
    PROVE  \A y : In(y, <<e>> \o s) <=> y = e \/ In(y, s)
<1> DEFINE t == <<e>> \o s
<1>1. /\ Len(t) = Len(s) + 1 /\ t[1] = e /\ \A i \in 2 .. Len(s) + 1 : t[i] = s[i - 1]
      /\ Len(s) \in Nat
  BY PushGives, LenProperties
<1> HIDE DEF t
<1>2. ASSUME NEW y, NEW i \in 1 .. Len(t), t[i] = y
      PROVE  y = e \/ In(y, s)
  <2>1. CASE i = 1
    BY <1>1, <1>2, <2>1
  <2>2. CASE i # 1
    <3>1. i \in 2 .. Len(s) + 1 /\ i - 1 \in 1 .. Len(s)
      BY <1>1, <2>2
    <3> QED BY <1>1, <1>2, <3>1 DEF In
  <2> QED BY <2>1, <2>2
<1>3. In(e, t)
  BY <1>1 DEF In
<1>4. ASSUME NEW y, NEW i \in 1 .. Len(s), s[i] = y
      PROVE  In(y, t)
  <2>1. i + 1 \in 2 .. Len(s) + 1 /\ i + 1 - 1 = i /\ i + 1 \in 1 .. Len(t)
    BY <1>1
  <2>2. t[i + 1] = y
    BY <1>1, <1>4, <2>1
  <2> QED BY <2>1, <2>2 DEF In
<1> QED BY <1>2, <1>3, <1>4 DEF In, t

\* A chain to which the caller's entry is pushed.
LEMMA PushedChain ==
    ASSUME NEW D, NEW s, NEW p \in Path, ChainInv(D, s, Hash[p], None),
           NEW e \in EntryOf(D), e.path = p, e.st = "taken",
           RenameOntoCached \/ \A j \in 1 .. Len(s) : ~ (s[j].st = "listed" /\ s[j].path = p)
    PROVE  ChainInv(D, <<e>> \o s, Hash[p], p) /\ \E i \in 1 .. Len(<<e>> \o s) : (<<e>> \o s)[i].st = "taken"
<1> DEFINE t == <<e>> \o s
<1>1. s \in Seq(EntryOf(D))
  BY DEF ChainInv
<1>2. /\ t \in Seq(EntryOf(D)) /\ Len(t) = Len(s) + 1 /\ t[1] = e
      /\ \A i \in 2 .. Len(s) + 1 : t[i] = s[i - 1]
  BY <1>1, PushGives
<1>3. Len(s) \in Nat /\ \A i \in 1 .. Len(s) : s[i].st \in Status
  <2>1. \A i \in 1 .. Len(s) : s[i] \in EntryOf(D)
    BY <1>1, ElementOfSeq
  <2> QED BY <1>1, <2>1, LenProperties, EntryIs
<1>4. \A i \in 1 .. Len(s) : s[i].st # "taken"
  <2>1. Hash[p] \in HashVal
    BY FileCacheAssumption
  <2> QED BY <2>1, NoneTaken
<1> HIDE DEF t
<1>5. ASSUME NEW i \in 1 .. Len(t), i # 1
      PROVE  i - 1 \in 1 .. Len(s) /\ t[i] = s[i - 1]
  <2>1. i \in 2 .. Len(s) + 1 /\ i - 1 \in 1 .. Len(s)
    BY <1>2, <1>3, <1>5
  <2> QED BY <1>2, <2>1
<1>6. ASSUME NEW i \in 1 .. Len(t)
      PROVE  /\ Hash[t[i].path] = Hash[p]
             /\ t[i].st = "taken" => t[i].path = p
             /\ t[i].st = "listed" => t[i].data \in D
             /\ t[i].st = "lost" => RenameMayFail
             /\ i # 1 => t[i].st # "taken"
  BY <1>2, <1>4, <1>5 DEF ChainInv
<1>7. ASSUME NEW i \in 1 .. Len(t), i # 1, ~ RenameOntoCached, t[i].st # "lost"
      PROVE  t[i].path # p
  <2>1. i - 1 \in 1 .. Len(s) /\ t[i] = s[i - 1]
    BY <1>5, <1>7
  <2>2. t[i].st = "listed"
    BY <1>3, <1>4, <1>7, <2>1 DEF Status
  <2> QED BY <1>7, <2>1, <2>2
<1>8. ASSUME NEW i \in 1 .. Len(t), NEW j \in 1 .. Len(t), i # j
      PROVE  /\ ~ (t[i].st = "taken" /\ t[j].st = "taken")
             /\ ~ RenameOntoCached /\ t[i].st # "lost" /\ t[j].st # "lost" =>
                    t[i].path # t[j].path
  <2>1. CASE i = 1
    BY <1>2, <1>6, <1>7, <1>8, <2>1
  <2>2. CASE j = 1
    BY <1>2, <1>6, <1>7, <1>8, <2>2
  <2>3. CASE i # 1 /\ j # 1
    <3>1. /\ i - 1 \in 1 .. Len(s) /\ t[i] = s[i - 1]
          /\ j - 1 \in 1 .. Len(s) /\ t[j] = s[j - 1]
      BY <1>5, <2>3
    <3>2. i - 1 # j - 1
      BY <1>2, <1>3, <1>8
    <3> QED BY <3>1, <3>2 DEF ChainInv
  <2> QED BY <2>1, <2>2, <2>3
<1>9. ChainInv(D, t, Hash[p], p)
  BY <1>2, <1>6, <1>8 DEF ChainInv
<1>10. 1 \in 1 .. Len(t) /\ t[1].st = "taken"
  BY <1>2, <1>3
<1> QED BY <1>9, <1>10 DEF t

\* The cache with e at the head of the chain of p.
Pushed(c, p, e) == [c EXCEPT ![Hash[p]] = <<e>> \o @]

\* Pushing an entry that is not listed.
LEMMA PushedGives ==
    ASSUME NEW D, NEW c, CacheInv(D, c, None), NEW p \in Path,
           NEW e \in EntryOf(D), e.path = p, e.st = "taken",
           RenameOntoCached \/
                \A j \in 1 .. Len(c[Hash[p]]) : ~ (c[Hash[p]][j].st = "listed" /\ c[Hash[p]][j].path = p)
    PROVE  /\ CacheInv(D, Pushed(c, p, e), p) /\ SameLists(Pushed(c, p, e), c)
           /\ In(e, Pushed(c, p, e)[Hash[p]])
<1> DEFINE s == c[Hash[p]]
           t == <<e>> \o s
           d == [c EXCEPT ![Hash[p]] = t]
<1>1. Hash[p] \in HashVal /\ ChainInv(D, s, Hash[p], None) /\ s \in Seq(EntryOf(D))
  BY ChainOf
<1>2. ChainInv(D, t, Hash[p], p) /\ \E i \in 1 .. Len(t) : t[i].st = "taken"
  <2>1. RenameOntoCached \/ \A j \in 1 .. Len(s) : ~ (s[j].st = "listed" /\ s[j].path = p)
    OBVIOUS
  <2>2. ChainInv(D, s, Hash[p], None)
    BY <1>1
  <2> HIDE DEF s
  <2> QED BY <2>1, <2>2, PushedChain
<1>3. \A y : In(y, t) <=> y = e \/ In(y, s)
  BY <1>1, PushedIn
<1>4. c = [h \in HashVal |-> c[h]]
  BY DEF CacheInv
<1> HIDE DEF t
<1>5. d[Hash[p]] = t /\ \A h \in HashVal : h # Hash[p] => d[h] = c[h]
  BY <1>1, <1>4
<1>6. CacheInv(D, d, p)
  BY <1>1, <1>2, OneChain
<1>7. Pushed(c, p, e) = d
  BY <1>1, <1>4 DEF Pushed, t
<1> HIDE DEF d
<1>8. SameLists(d, c)
  BY <1>3, <1>5 DEF SameLists, Listed
<1>9. In(e, d[Hash[p]])
  BY <1>3, <1>5
<1> QED BY <1>6, <1>7, <1>8, <1>9

\* sftfs_cache_alloc(): a new entry, and the same list as before.
LEMMA AllocedGives ==
    ASSUME NEW D, NEW c, CacheInv(D, c, None), NEW p \in Path, NEW grow \in BOOLEAN,
           \A j \in 1 .. Len(c[Hash[p]]) : ~ (c[Hash[p]][j].st = "listed" /\ c[Hash[p]][j].path = p)
    PROVE  LET d == Alloced(c, p, grow)
           IN  CacheInv(D, d, p) /\ SameLists(d, c) /\ d[Hash[p]][HeldAt(d, p)].data = None
<1> DEFINE g == [h \in HashVal |-> IF grow THEN Reverse(c[h]) ELSE c[h]]
           e == [path |-> p, data |-> None, mod_time |-> 0, st |-> "taken"]
<1>1. CacheInv(D, g, None) /\ \A h \in HashVal : \A y : In(y, g[h]) <=> In(y, c[h])
  BY GrownGives
<1>2. e \in EntryOf(D) /\ e.path = p /\ e.st = "taken" /\ e.data = None
  BY FileCacheAssumption DEF EntryOf, Status
<1>3. Hash[p] \in HashVal
  BY FileCacheAssumption
<1>4. Alloced(c, p, grow) = Pushed(g, p, e)
  <2>1. Alloced(c, p, grow) = [h \in HashVal |-> (IF h = Hash[p] THEN <<e>> ELSE <<>>) \o g[h]]
    BY DEF Alloced
  <2>2. g = [h \in HashVal |-> g[h]]
    BY <1>1 DEF CacheInv
  <2>3. \A h \in HashVal : g[h] \in Seq(EntryOf(D))
    BY <1>1 DEF CacheInv, ChainInv
  <2> HIDE DEF g, e
  <2>4. Pushed(g, p, e) = [h \in HashVal |-> IF h = Hash[p] THEN <<e>> \o g[h] ELSE g[h]]
    BY <1>3, <2>2 DEF Pushed
  <2>5. \A h \in HashVal : <<>> \o g[h] = g[h]
    BY <2>3, ConcatEmptySeq
  <2>6. \A h \in HashVal : (IF h = Hash[p] THEN <<e>> ELSE <<>>) \o g[h]
                                = IF h = Hash[p] THEN <<e>> \o g[h] ELSE g[h]
    BY <2>5
  <2> QED BY <2>1, <2>4, <2>6
<1> HIDE DEF g, e
<1>5. \A j \in 1 .. Len(g[Hash[p]]) : ~ (g[Hash[p]][j].st = "listed" /\ g[Hash[p]][j].path = p)
  <2>1. ASSUME NEW j \in 1 .. Len(g[Hash[p]]) PROVE In(g[Hash[p]][j], c[Hash[p]])
    BY <1>1, <1>3 DEF In
  <2> QED BY <2>1 DEF In
<1>6. /\ CacheInv(D, Pushed(g, p, e), p) /\ SameLists(Pushed(g, p, e), g)
      /\ In(e, Pushed(g, p, e)[Hash[p]])
  BY <1>1, <1>2, <1>5, PushedGives
<1>7. SameLists(Pushed(g, p, e), c)
  BY <1>1, <1>6 DEF SameLists, Listed
<1> DEFINE d == Pushed(g, p, e)
<1>8. d[Hash[p]][HeldAt(d, p)] = e
  <2> HIDE DEF d
  <2> QED BY <1>2, <1>6, HeldIs DEF d
<1> QED BY <1>2, <1>4, <1>6, <1>7, <1>8

\* sftfs_cache_free() of the caller's entry.
LEMMA FreedGives ==
    ASSUME NEW D, NEW c, NEW p \in Path, CacheInv(D, c, p), NEW i, HoldsAt(c, p, i)
    PROVE  CacheInv(D, Freed(c, Hash[p], i), None) /\ SameLists(Freed(c, Hash[p], i), c)
<1> DEFINE s == c[Hash[p]]
           t == RemoveAt(s, i)
           I == 1 .. Len(s) \ {i}
           d == [c EXCEPT ![Hash[p]] = t]
<1>1. Hash[p] \in HashVal /\ ChainInv(D, s, Hash[p], p) /\ s \in Seq(EntryOf(D)) /\ i \in 1 .. Len(s)
  BY ChainOf DEF HoldsAt
<1>2. t \in Seq(EntryOf(D)) /\ Drawn(t, s, I)
  BY <1>1, RemoveAtGives
<1>3. c = [h \in HashVal |-> c[h]]
  BY DEF CacheInv
<1>4. Freed(c, Hash[p], i) = d
  BY <1>1, <1>3 DEF Freed
<1> HIDE DEF t
<1>5. ChainInv(D, t, Hash[p], p)
  BY <1>1, <1>2, DrawnChain
<1>6. \A y : In(y, t) <=> \E j \in I : s[j] = y
  BY <1>2, DrawnIn
<1>7. \A j \in 1 .. Len(t) : t[j].st # "taken"
  <2>1. ASSUME NEW j \in 1 .. Len(t) PROVE In(t[j], t)
    BY DEF In
  <2> QED BY <1>6, <2>1 DEF HoldsAt
<1>8. ChainInv(D, t, Hash[p], None)
  BY <1>5, <1>7 DEF ChainInv
<1>9. CacheInv(D, d, None)
  BY <1>1, <1>8, OneChain
<1>10. d[Hash[p]] = t /\ \A h \in HashVal : h # Hash[p] => d[h] = c[h]
  BY <1>1, <1>3
<1> HIDE DEF d
<1>11. \A y : y.st = "listed" => (In(y, t) <=> In(y, s))
  <2>1. s[i].st # "listed"
    BY DEF HoldsAt
  <2> QED BY <1>6, <2>1 DEF In
<1>12. SameLists(d, c)
  BY <1>10, <1>11 DEF SameLists, Listed
<1> QED BY <1>4, <1>9, <1>12

\* What was not listed does not count beside an entry in its place.
LEMMA BesideUnlisted ==
    ASSUME NEW c, NEW p, NEW i \in 1 .. Len(c[Hash[p]]), c[Hash[p]][i].st # "listed",
           NEW h, NEW y, y.st = "listed"
    PROVE  Beside(y, c, h, p, i) <=> In(y, c[h])
  BY DEF Beside, In

\* The entry a client stored d in.
ListedEntry(p, d, t) == [path |-> p, data |-> d, mod_time |-> t, st |-> "listed"]

\* sftfs_cache_give(): the entry is on the list, stamped.
LEMMA GivenGives ==
    ASSUME NEW D, NEW c, NEW p \in Path, CacheInv(D, c, p), NEW i, HoldsAt(c, p, i),
           c[Hash[p]][i].data \in D, NEW t \in 0 .. MaxTime
    PROVE  LET d == Given(c, Hash[p], i, t)
           IN  CacheInv(D, d, None) /\ ListsAlso(d, c, p, ListedEntry(p, c[Hash[p]][i].data, t))
<1> DEFINE s == c[Hash[p]]
           x == [s[i] EXCEPT !.st = "listed", !.mod_time = t]
           d == Replaced(c, p, i, x)
<1>1. /\ Hash[p] \in HashVal /\ ChainInv(D, s, Hash[p], p) /\ s \in Seq(EntryOf(D))
      /\ \A j \in 1 .. Len(s) : s[j] \in EntryOf(D)
  BY ChainOf
<1>2. c = [h \in HashVal |-> c[h]]
  BY DEF CacheInv
<1>3. /\ i \in 1 .. Len(s) /\ s[i].st = "taken" /\ s[i].path = p
      /\ \A j \in 1 .. Len(s) : j # i => s[j].st # "taken"
  BY DEF HoldsAt
<1>4. Given(c, Hash[p], i, t) = d
  BY <1>1, <1>2, <1>3 DEF Given, Replaced
<1>5. x = ListedEntry(p, s[i].data, t)
  <2> DEFINE y == [s[i] EXCEPT !.st = "listed"]
  <2>1. s[i] \in EntryOf(D) /\ s[i].path = p
    BY <1>1, <1>3
  <2>2. y = [path |-> p, data |-> s[i].data, mod_time |-> s[i].mod_time, st |-> "listed"]
    BY <2>1 DEF EntryOf
  <2>3. x = [y EXCEPT !.mod_time = t]
    BY <2>1 DEF EntryOf
  <2> HIDE DEF y, x
  <2> QED BY <2>2, <2>3 DEF ListedEntry
<1>6. x \in EntryOf(D) /\ x.path = p /\ x.st = "listed" /\ x.data = s[i].data
  BY <1>1, <1>5 DEF ListedEntry, EntryOf, Status
<1> HIDE DEF x
<1>7. CacheInv(D, d, None) /\ Differs(d, c, p, i, x)
  <2>1. /\ x.path = c[Hash[p]][i].path /\ c[Hash[p]][i].st # "lost"
        /\ x.st # "taken" /\ x.data \in D
    BY <1>3, <1>6
  <2>2. None = None \/ (None = p /\ x.st = "taken" /\ x.path = p)
    OBVIOUS
  <2> QED BY <1>3, <1>6, <2>1, <2>2, InPlaceGives
<1> HIDE DEF d
<1>8. ListedBeside(d, c, p, i, x)
  BY <1>1, <1>3, <1>7, ListedInPlace
<1>9. ASSUME NEW h \in HashVal, NEW y
      PROVE  Listed(d, h, y) <=> Listed(c, h, y) \/ (h = Hash[p] /\ y = x)
  <2>1. CASE y.st = "listed"
    <3>1. Beside(y, c, h, p, i) <=> In(y, c[h])
      BY <1>3, <2>1, BesideUnlisted
    <3> QED BY <1>8, <2>1, <3>1 DEF Listed, ListedBeside
  <2>2. CASE y.st # "listed"
    BY <1>6, <2>2 DEF Listed
  <2> QED BY <2>1, <2>2
<1>10. ListsAlso(d, c, p, x)
  BY <1>9 DEF ListsAlso
<1> QED BY <1>4, <1>5, <1>7, <1>10

\* The caller writes into the entry it holds.
LEMMA StoredGives ==
    ASSUME NEW D, NEW c, NEW p \in Path, CacheInv(D, c, p), NEW i, HoldsAt(c, p, i), NEW v \in D
    PROVE  LET d == [c EXCEPT ![Hash[p]][i].data = v]
           IN  CacheInv(D, d, p) /\ SameLists(d, c) /\ HoldsAt(d, p, i) /\ d[Hash[p]][i].data = v
<1> DEFINE s == c[Hash[p]]
           x == [s[i] EXCEPT !.data = v]
           d == Replaced(c, p, i, x)
<1>1. /\ Hash[p] \in HashVal /\ ChainInv(D, s, Hash[p], p) /\ s \in Seq(EntryOf(D))
      /\ \A j \in 1 .. Len(s) : s[j] \in EntryOf(D)
  BY ChainOf
<1>2. c = [h \in HashVal |-> c[h]]
  BY DEF CacheInv
<1>3. /\ i \in 1 .. Len(s) /\ s[i].st = "taken" /\ s[i].path = p
      /\ \A j \in 1 .. Len(s) : j # i => s[j].st # "taken"
  BY DEF HoldsAt
<1>4. [c EXCEPT ![Hash[p]][i].data = v] = d
  BY <1>1, <1>2, <1>3 DEF Replaced
<1>5. s[i].mod_time \in 0 .. MaxTime
  BY <1>1, <1>3, EntryIs
<1>6. x = [path |-> p, data |-> v, mod_time |-> s[i].mod_time, st |-> "taken"]
  <2>1. s[i] \in EntryOf(D) /\ s[i].path = p /\ s[i].st = "taken"
    BY <1>1, <1>3
  <2> QED BY <2>1 DEF EntryOf
<1>7. x \in EntryOf(D) /\ x.path = p /\ x.st = "taken" /\ x.data = v
  BY <1>5, <1>6 DEF EntryOf, Status
<1> HIDE DEF x
<1>8. CacheInv(D, d, p) /\ Differs(d, c, p, i, x)
  <2>1. x.path = c[Hash[p]][i].path /\ c[Hash[p]][i].st # "lost"
    BY <1>3, <1>7
  <2> QED BY <1>3, <1>7, <2>1, InPlaceGives
<1> HIDE DEF d
<1>9. ListedBeside(d, c, p, i, x)
  BY <1>1, <1>3, <1>8, ListedInPlace
<1>10. ASSUME NEW h \in HashVal, NEW y PROVE Listed(d, h, y) <=> Listed(c, h, y)
  <2>1. CASE y.st = "listed"
    <3>1. Beside(y, c, h, p, i) <=> In(y, c[h])
      BY <1>3, <2>1, BesideUnlisted
    <3> QED BY <1>7, <1>9, <2>1, <3>1 DEF Listed, ListedBeside
  <2>2. CASE y.st # "listed"
    BY <2>2 DEF Listed
  <2> QED BY <2>1, <2>2
<1>11. SameLists(d, c)
  BY <1>10 DEF SameLists
<1>12. HoldsAt(d, p, i) /\ d[Hash[p]][i].data = v
  BY <1>3, <1>7, <1>8 DEF HoldsAt, Differs
<1> QED BY <1>4, <1>8, <1>11, <1>12

\* The entry that was taken and forgotten.
LEMMA LostGives ==
    ASSUME RenameMayFail, NEW D, NEW c, NEW p \in Path, CacheInv(D, c, p), NEW i, HoldsAt(c, p, i)
    PROVE  LET d == [c EXCEPT ![Hash[p]][i].st = "lost"]
           IN  CacheInv(D, d, None) /\ SameLists(d, c)
<1> DEFINE s == c[Hash[p]]
           x == [s[i] EXCEPT !.st = "lost"]
           d == Replaced(c, p, i, x)
<1>1. /\ Hash[p] \in HashVal /\ ChainInv(D, s, Hash[p], p) /\ s \in Seq(EntryOf(D))
      /\ \A j \in 1 .. Len(s) : s[j] \in EntryOf(D)
  BY ChainOf
<1>2. c = [h \in HashVal |-> c[h]]
  BY DEF CacheInv
<1>3. /\ i \in 1 .. Len(s) /\ s[i].st = "taken" /\ s[i].path = p
      /\ \A j \in 1 .. Len(s) : j # i => s[j].st # "taken"
  BY DEF HoldsAt
<1>4. [c EXCEPT ![Hash[p]][i].st = "lost"] = d
  BY <1>1, <1>2, <1>3 DEF Replaced
<1>5. s[i].mod_time \in 0 .. MaxTime /\ s[i].data \in D \cup {None}
  BY <1>1, <1>3, EntryIs
<1>6. x = [path |-> p, data |-> s[i].data, mod_time |-> s[i].mod_time, st |-> "lost"]
  BY <1>1, <1>3, EntryWith
<1>7. x \in EntryOf(D) /\ x.path = p /\ x.st = "lost"
  BY <1>5, <1>6 DEF EntryOf, Status
<1> HIDE DEF x
<1>8. CacheInv(D, d, None) /\ Differs(d, c, p, i, x)
  <2>1. x.path = c[Hash[p]][i].path /\ c[Hash[p]][i].st # "lost" /\ x.st # "taken" /\ x.st # "listed"
    BY <1>3, <1>7
  <2>2. None = None \/ (None = p /\ x.st = "taken" /\ x.path = p)
    OBVIOUS
  <2> QED BY <1>3, <1>7, <2>1, <2>2, InPlaceGives
<1> HIDE DEF d
<1>9. ListedBeside(d, c, p, i, x)
  BY <1>1, <1>3, <1>8, ListedInPlace
<1>10. ASSUME NEW h \in HashVal, NEW y PROVE Listed(d, h, y) <=> Listed(c, h, y)
  <2>1. CASE y.st = "listed"
    <3>1. Beside(y, c, h, p, i) <=> In(y, c[h])
      BY <1>3, <2>1, BesideUnlisted
    <3> QED BY <1>7, <1>9, <2>1, <3>1 DEF Listed, ListedBeside
  <2>2. CASE y.st # "listed"
    BY <2>2 DEF Listed
  <2> QED BY <2>1, <2>2
<1>11. SameLists(d, c)
  BY <1>10 DEF SameLists
<1> QED BY <1>4, <1>8, <1>11

-----------------------------------------------------------------------------
(* The operations of file.c *)

\* No entry of p is listed.
Unlisted(c, p) == \A h \in HashVal : \A e : Listed(c, h, e) => e.path # p

\* A listed entry of p would be in the chain of p.
LEMMA UnlistedIs ==
    ASSUME NEW D, NEW c, NEW hd, CacheInv(D, c, hd), NEW p \in Path
    PROVE  Unlisted(c, p) <=>
                \A j \in 1 .. Len(c[Hash[p]]) : ~ (c[Hash[p]][j].st = "listed" /\ c[Hash[p]][j].path = p)
<1>1. Hash[p] \in HashVal
  BY FileCacheAssumption
<1>2. ASSUME Unlisted(c, p), NEW j \in 1 .. Len(c[Hash[p]]), c[Hash[p]][j].st = "listed"
      PROVE  c[Hash[p]][j].path # p
  <2>1. Listed(c, Hash[p], c[Hash[p]][j])
    BY <1>2 DEF Listed, In
  <2> QED BY <1>1, <1>2, <2>1 DEF Unlisted
<1>3. ASSUME NEW h \in HashVal, NEW e, Listed(c, h, e), e.path = p
      PROVE  \E j \in 1 .. Len(c[Hash[p]]) : c[Hash[p]][j].st = "listed" /\ c[Hash[p]][j].path = p
  <2>1. PICK j \in 1 .. Len(c[h]) : c[h][j] = e
    BY <1>3 DEF Listed, In
  <2>2. h = Hash[p]
    BY <1>3, <2>1 DEF CacheInv, ChainInv
  <2> QED BY <1>3, <2>1, <2>2 DEF Listed
<1> QED BY <1>2, <1>3 DEF Unlisted

\* What find_entry() tells its caller.
LEMMA FindGives ==
    ASSUME StrEqDecides, NEW D, NEW c, NEW hd, CacheInv(D, c, hd), NEW p \in Path
    PROVE  LET i == FindEntry(c, p)
               s == c[Hash[p]]
           IN  /\ i = 0 => Unlisted(c, p)
               /\ i # 0 => /\ i \in 1 .. Len(s) /\ s[i].st = "listed" /\ s[i].path = p
                           /\ s[i].data \in D
<1> DEFINE i == FindEntry(c, p)
           s == c[Hash[p]]
<1>1. \/ i = 0 /\ \A j \in 1 .. Len(s) : ~ (s[j].st = "listed" /\ s[j].path = p)
      \/ i \in 1 .. Len(s) /\ s[i].st = "listed" /\ s[i].path = p
  BY FindIs
<1>2. ChainInv(D, s, Hash[p], hd)
  BY ChainOf
<1> HIDE DEF i
<1>3. ASSUME i = 0 PROVE Unlisted(c, p)
  <2>1. ~ (i \in 1 .. Len(s))
    BY <1>3
  <2>2. \A j \in 1 .. Len(s) : ~ (s[j].st = "listed" /\ s[j].path = p)
    BY <1>1, <2>1
  <2> QED BY <2>2, UnlistedIs
<1>4. ASSUME i # 0
      PROVE  i \in 1 .. Len(s) /\ s[i].st = "listed" /\ s[i].path = p /\ s[i].data \in D
  BY <1>1, <1>2, <1>4 DEF ChainInv
<1> QED BY <1>3, <1>4 DEF i

\* sftfs_cache_take_file(): nothing of p is listed any more.
LEMMA FileTakenGives ==
    ASSUME StrEqDecides, NEW D, NEW c, CacheInv(D, c, None), NEW p \in Path, NEW t, NEW grow \in BOOLEAN
    PROVE  /\ CacheInv(D, FileTaken(c, p, t, grow), p)
           /\ ListsNoMore(FileTaken(c, p, t, grow), Evicted(c, t))
           /\ ~ RenameOntoCached => ListsWithout(FileTaken(c, p, t, grow), Evicted(c, t), p)
<1> DEFINE v == Evicted(c, t)
           i == FindEntry(v, p)
<1>1. CacheInv(D, v, None)
  BY EvictedGives
<1>2. FileTaken(c, p, t, grow) = IF i # 0 THEN Taken(v, Hash[p], i) ELSE Alloced(v, p, grow)
  BY DEF FileTaken
<1> HIDE DEF v
<1>3. /\ i = 0 => Unlisted(v, p)
      /\ i # 0 => i \in 1 .. Len(v[Hash[p]]) /\ v[Hash[p]][i].st = "listed" /\ v[Hash[p]][i].path = p
  BY <1>1, FindGives
<1> HIDE DEF i
<1>4. CASE i # 0
  <2>1. /\ CacheInv(D, Taken(v, Hash[p], i), p)
        /\ ListsNoMore(Taken(v, Hash[p], i), v)
        /\ ~ RenameOntoCached => ListsWithout(Taken(v, Hash[p], i), v, p)
    BY <1>1, <1>3, <1>4, TakenGives
  <2> QED BY <1>2, <1>4, <2>1 DEF v
<1>5. CASE i = 0
  <2>1. \A j \in 1 .. Len(v[Hash[p]]) : ~ (v[Hash[p]][j].st = "listed" /\ v[Hash[p]][j].path = p)
    BY <1>1, <1>3, <1>5, UnlistedIs
  <2>2. CacheInv(D, Alloced(v, p, grow), p) /\ SameLists(Alloced(v, p, grow), v)
    BY <1>1, <2>1, AllocedGives
  <2>3. ListsWithout(Alloced(v, p, grow), v, p)
    BY <1>3, <1>5, <2>2 DEF ListsWithout, SameLists, Unlisted
  <2>4. ListsNoMore(Alloced(v, p, grow), v)
    BY <2>2 DEF ListsNoMore, SameLists
  <2> QED BY <1>2, <1>5, <2>2, <2>3, <2>4 DEF v
<1> QED BY <1>4, <1>5

\* x is data that c lists for p.
ListedFor(x, c, p) == \E e : Listed(c, Hash[p], e) /\ e.path = p /\ e.data = x

\* What the caller of sftfs_cache_take_file() holds: the data that was listed, or
\* none yet.
LEMMA FileTakenHas ==
    ASSUME StrEqDecides, NEW D, NEW c, CacheInv(D, c, None), NEW p \in Path, NEW t, NEW grow \in BOOLEAN
    PROVE  LET d == FileTaken(c, p, t, grow)
               x == d[Hash[p]][HeldAt(d, p)].data
           IN  x = None \/ (x \in D /\ ListedFor(x, Evicted(c, t), p))
<1> DEFINE v == Evicted(c, t)
           i == FindEntry(v, p)
           d == FileTaken(c, p, t, grow)
           k == HeldAt(d, p)
<1>1. CacheInv(D, v, None)
  BY EvictedGives
<1>2. d = IF i # 0 THEN Taken(v, Hash[p], i) ELSE Alloced(v, p, grow)
  BY DEF FileTaken
<1> HIDE DEF v
<1>3. /\ i = 0 => Unlisted(v, p)
      /\ i # 0 => /\ i \in 1 .. Len(v[Hash[p]]) /\ v[Hash[p]][i].st = "listed"
                  /\ v[Hash[p]][i].path = p /\ v[Hash[p]][i].data \in D
  BY <1>1, FindGives
<1> HIDE DEF i
<1>4. CASE i # 0
  <2> DEFINE e == v[Hash[p]][i]
  <2>1. CacheInv(D, d, p) /\ HoldsAt(d, p, i) /\ d[Hash[p]][i].data = e.data
    BY <1>1, <1>2, <1>3, <1>4, TakenGives
  <2> HIDE DEF d
  <2>2. HoldsAt(d, p, k)
    BY <2>1, HeldAtIs
  <2>3. k = i
    BY <2>1, <2>2 DEF HoldsAt
  <2>4. Listed(v, Hash[p], e) /\ e.path = p /\ e.data \in D
    BY <1>3, <1>4 DEF Listed, In
  <2>5. ListedFor(e.data, v, p)
    BY <2>4 DEF ListedFor
  <2> QED BY <2>1, <2>3, <2>4, <2>5 DEF v, d
<1>5. CASE i = 0
  <2>1. \A j \in 1 .. Len(v[Hash[p]]) : ~ (v[Hash[p]][j].st = "listed" /\ v[Hash[p]][j].path = p)
    BY <1>1, <1>3, <1>5, UnlistedIs
  <2>2. d[Hash[p]][k].data = None
    BY <1>1, <1>2, <1>5, <2>1, AllocedGives
  <2> QED BY <2>2
<1> QED BY <1>4, <1>5

\* sftfs_cache_peek_file(): data of an entry that is listed, if there is one.
LEMMA FilePeekedGives ==
    ASSUME StrEqDecides, NEW D, NEW c, CacheInv(D, c, None), NEW p \in Path, NEW t
    PROVE  LET x == FilePeeked(c, p, t)
           IN  \/ x = None /\ Unlisted(Evicted(c, t), p)
               \/ x \in D /\ ListedFor(x, Evicted(c, t), p)
<1> DEFINE v == Evicted(c, t)
           i == FindEntry(v, p)
<1>1. CacheInv(D, v, None)
  BY EvictedGives
<1>2. FilePeeked(c, p, t) = IF i = 0 THEN None ELSE v[Hash[p]][i].data
  BY DEF FilePeeked
<1> HIDE DEF v
<1>3. /\ i = 0 => Unlisted(v, p)
      /\ i # 0 => /\ i \in 1 .. Len(v[Hash[p]]) /\ v[Hash[p]][i].st = "listed"
                  /\ v[Hash[p]][i].path = p /\ v[Hash[p]][i].data \in D
  BY <1>1, FindGives
<1> HIDE DEF i
<1>4. CASE i # 0
  <2> DEFINE e == v[Hash[p]][i]
  <2>1. Listed(v, Hash[p], e) /\ e.path = p /\ e.data \in D
    BY <1>3, <1>4 DEF Listed, In
  <2>2. ListedFor(e.data, v, p)
    BY <2>1 DEF ListedFor
  <2> QED BY <1>2, <1>4, <2>1, <2>2 DEF v
<1>5. CASE i = 0
  BY <1>2, <1>3, <1>5 DEF v
<1> QED BY <1>4, <1>5

\* sftfs_cache_give_file(): the data of the caller is listed.
LEMMA FileGivenGives ==
    ASSUME NEW D, NEW c, NEW p \in Path, CacheInv(D, c, p), NEW d \in D, NEW t \in 0 .. MaxTime
    PROVE  /\ CacheInv(D, FileGiven(c, p, d, t), None)
           /\ ListsAlso(FileGiven(c, p, d, t), Evicted(c, t), p, ListedEntry(p, d, t))
<1> DEFINE v == Evicted(c, t)
           i == HeldAt(v, p)
           w == [v EXCEPT ![Hash[p]][i].data = d]
<1>1. CacheInv(D, v, p)
  BY EvictedGives
<1>2. FileGiven(c, p, d, t) = Given(w, Hash[p], i, t)
  BY DEF FileGiven
<1> HIDE DEF v
<1>3. HoldsAt(v, p, i)
  BY <1>1, HeldAtIs
<1> HIDE DEF i
<1>4. CacheInv(D, w, p) /\ SameLists(w, v) /\ HoldsAt(w, p, i) /\ w[Hash[p]][i].data = d
  BY <1>1, <1>3, StoredGives
<1> HIDE DEF w
<1>5. w[Hash[p]][i].data \in D
  BY <1>4
<1>6. /\ CacheInv(D, Given(w, Hash[p], i, t), None)
      /\ ListsAlso(Given(w, Hash[p], i, t), w, p, ListedEntry(p, w[Hash[p]][i].data, t))
  BY <1>4, <1>5, GivenGives
<1>7. ListsAlso(Given(w, Hash[p], i, t), v, p, ListedEntry(p, d, t))
  BY <1>4, <1>6 DEF ListsAlso, SameLists
<1> QED BY <1>2, <1>6, <1>7 DEF v

\* sftfs_cache_drop_file(): the caller's entry is gone.
LEMMA FileDroppedGives ==
    ASSUME NEW D, NEW c, NEW p \in Path, CacheInv(D, c, p), NEW t
    PROVE  /\ CacheInv(D, FileDropped(c, p, t), None)
           /\ \E w : SameLists(w, c) /\ HoldsUnexpired(FileDropped(c, p, t), w, t)
<1> DEFINE i == HeldAt(c, p)
           w == Freed(c, Hash[p], i)
<1>1. HoldsAt(c, p, i)
  BY HeldAtIs
<1>2. CacheInv(D, w, None) /\ SameLists(w, c)
  BY <1>1, FreedGives
<1>3. FileDropped(c, p, t) = Evicted(w, t)
  BY DEF FileDropped
<1> HIDE DEF w
<1>4. CacheInv(D, Evicted(w, t), None) /\ HoldsUnexpired(Evicted(w, t), w, t)
  BY <1>2, EvictedGives
<1> QED BY <1>2, <1>3, <1>4

\* sftfs_cache_invalidate_file(): nothing of p is listed any more.
LEMMA FileInvalidatedGives ==
    ASSUME StrEqDecides, NEW D, NEW c, CacheInv(D, c, None), NEW p \in Path, NEW t
    PROVE  /\ CacheInv(D, FileInvalidated(c, p, t), None)
           /\ ListsNoMore(FileInvalidated(c, p, t), Evicted(c, t))
           /\ ~ RenameOntoCached => ListsWithout(FileInvalidated(c, p, t), Evicted(c, t), p)
<1> DEFINE v == Evicted(c, t)
           i == FindEntry(v, p)
           w == Taken(v, Hash[p], i)
<1>1. CacheInv(D, v, None)
  BY EvictedGives
<1>2. FileInvalidated(c, p, t) = IF i = 0 THEN v ELSE Freed(w, Hash[p], i)
  BY DEF FileInvalidated
<1> HIDE DEF v
<1>3. /\ i = 0 => Unlisted(v, p)
      /\ i # 0 => i \in 1 .. Len(v[Hash[p]]) /\ v[Hash[p]][i].st = "listed" /\ v[Hash[p]][i].path = p
  BY <1>1, FindGives
<1> HIDE DEF i
<1>4. CASE i # 0
  <2>1. /\ CacheInv(D, w, p) /\ HoldsAt(w, p, i) /\ ListsNoMore(w, v)
        /\ ~ RenameOntoCached => ListsWithout(w, v, p)
    BY <1>1, <1>3, <1>4, TakenGives
  <2> HIDE DEF w
  <2>2. CacheInv(D, Freed(w, Hash[p], i), None) /\ SameLists(Freed(w, Hash[p], i), w)
    BY <2>1, FreedGives
  <2>3. ~ RenameOntoCached => ListsWithout(Freed(w, Hash[p], i), v, p)
    BY <2>1, <2>2 DEF ListsWithout, SameLists
  <2>4. ListsNoMore(Freed(w, Hash[p], i), v)
    BY <2>1, <2>2 DEF ListsNoMore, SameLists
  <2> QED BY <1>2, <1>4, <2>2, <2>3, <2>4 DEF v
<1>5. CASE i = 0
  <2>1. ListsWithout(v, v, p)
    BY <1>3, <1>5 DEF ListsWithout, Unlisted
  <2>2. ListsNoMore(v, v)
    BY DEF ListsNoMore
  <2> QED BY <1>1, <1>2, <1>5, <2>1, <2>2 DEF v
<1> QED BY <1>4, <1>5

\* sftfs_cache_rename_file() out of memory: nothing of p is listed any more.
LEMMA FileRenameLostGives ==
    ASSUME StrEqDecides, RenameMayFail, NEW D, NEW c, CacheInv(D, c, None), NEW p \in Path, NEW t
    PROVE  /\ CacheInv(D, FileRenameLost(c, p, t), None)
           /\ ListsNoMore(FileRenameLost(c, p, t), Evicted(c, t))
           /\ ~ RenameOntoCached => ListsWithout(FileRenameLost(c, p, t), Evicted(c, t), p)
<1> DEFINE v == Evicted(c, t)
           i == FindEntry(v, p)
           w == Taken(v, Hash[p], i)
           x == [w EXCEPT ![Hash[p]][i].st = "lost"]
<1>1. CacheInv(D, v, None)
  BY EvictedGives
<1>2. FileRenameLost(c, p, t) = IF i = 0 THEN v ELSE x
  BY DEF FileRenameLost
<1> HIDE DEF v
<1>3. /\ i = 0 => Unlisted(v, p)
      /\ i # 0 => i \in 1 .. Len(v[Hash[p]]) /\ v[Hash[p]][i].st = "listed" /\ v[Hash[p]][i].path = p
  BY <1>1, FindGives
<1> HIDE DEF i
<1>4. CASE i # 0
  <2>1. CacheInv(D, w, p) /\ HoldsAt(w, p, i) /\ ListsNoMore(w, v)
        /\ (~ RenameOntoCached => ListsWithout(w, v, p))
    BY <1>1, <1>3, <1>4, TakenGives
  <2> HIDE DEF w
  <2>2. CacheInv(D, x, None) /\ SameLists(x, w)
    BY <2>1, LostGives
  <2> HIDE DEF x
  <2>3. ListsNoMore(x, v) /\ (~ RenameOntoCached => ListsWithout(x, v, p))
    BY <2>1, <2>2 DEF ListsWithout, ListsNoMore, SameLists
  <2> QED BY <1>2, <1>4, <2>2, <2>3 DEF v
<1>5. CASE i = 0
  <2>1. ListsWithout(v, v, p) /\ ListsNoMore(v, v)
    BY <1>3, <1>5 DEF ListsWithout, ListsNoMore, Unlisted
  <2> QED BY <1>1, <1>2, <1>5, <2>1 DEF v
<1> QED BY <1>4, <1>5

\* sftfs_cache_rehash_entry() of the entry that the caller has taken.
LEMMA RehashedGives ==
    ASSUME NEW D, NEW c, NEW p \in Path, CacheInv(D, c, p), NEW i, HoldsAt(c, p, i), NEW q \in Path,
           c[Hash[p]][i].data \in D, RenameOntoCached \/ Unlisted(c, q)
    PROVE  LET r == Rehashed(c, Hash[p], i, q)
           IN  /\ CacheInv(D, r, q) /\ SameLists(r, c)
               /\ r[Hash[q]][HeldAt(r, q)].data = c[Hash[p]][i].data
<1> DEFINE s == c[Hash[p]]
           e == [s[i] EXCEPT !.path = q]
           f == Freed(c, Hash[p], i)
           r == Pushed(f, q, e)
<1>1. /\ s[i] \in EntryOf(D) /\ s[i].path = p /\ s[i].st = "taken"
      /\ i \in 1 .. Len(s)
  BY ChainOf DEF HoldsAt
<1>2. Rehashed(c, Hash[p], i, q) = r
  BY DEF Rehashed, Pushed, Freed
<1>3. e = [path |-> q, data |-> s[i].data, mod_time |-> s[i].mod_time, st |-> "taken"]
  BY <1>1 DEF EntryOf
<1>4. e \in EntryOf(D) /\ e.path = q /\ e.st = "taken" /\ e.data = s[i].data
  <2>1. s[i].mod_time \in 0 .. MaxTime /\ s[i].data \in D \cup {None}
    BY <1>1, EntryIs
  <2> QED BY <1>3, <2>1 DEF EntryOf, Status
<1> HIDE DEF e
<1>5. CacheInv(D, f, None) /\ SameLists(f, c)
  BY FreedGives
<1> HIDE DEF f
<1>6. RenameOntoCached \/
            \A j \in 1 .. Len(f[Hash[q]]) : ~ (f[Hash[q]][j].st = "listed" /\ f[Hash[q]][j].path = q)
  <2>1. RenameOntoCached \/ Unlisted(f, q)
    BY <1>5 DEF SameLists, Unlisted
  <2> QED BY <1>5, <2>1, UnlistedIs
<1>7. CacheInv(D, r, q) /\ SameLists(r, f) /\ In(e, r[Hash[q]])
  BY <1>4, <1>5, <1>6, PushedGives
<1> HIDE DEF r
<1>8. SameLists(r, c)
  BY <1>5, <1>7 DEF SameLists
<1>9. r[Hash[q]][HeldAt(r, q)] = e
  BY <1>4, <1>7, HeldIs
<1> QED BY <1>2, <1>4, <1>7, <1>8, <1>9

\* After the rename of p to q at the moment t, d lists what v listed, but the
\* entry of p under q.
ListsMoved(D, d, v, p, q, t) ==
    \E x \in D :
        /\ \E e : Listed(v, Hash[p], e) /\ e.path = p /\ e.data = x
        /\ \A h \in HashVal : \A y : Listed(d, h, y) <=>
                (Listed(v, h, y) /\ y.path # p) \/ (h = Hash[q] /\ y = ListedEntry(q, x, t))

\* All d lists besides what v listed is an entry of p, under q.
MovesAtMost(d, v, p, q, t) ==
    \A h \in HashVal : \A y : Listed(d, h, y) =>
        \/ Listed(v, h, y)
        \/ \E e : Listed(v, Hash[p], e) /\ e.path = p /\ y = ListedEntry(q, e.data, t)

\* sftfs_cache_rename_file(): the entry of p is now one of q.
LEMMA FileRenamedGives ==
    ASSUME StrEqDecides, NEW D, NEW c, CacheInv(D, c, None), NEW p \in Path, NEW q \in Path,
           NEW t \in 0 .. MaxTime, None \notin D,
           RenameOntoCached \/ FilePeeked(c, q, t) = None
    PROVE  LET v == Evicted(c, t)
               d == FileRenamed(c, p, q, t)
           IN  /\ CacheInv(D, d, None)
               /\ MovesAtMost(d, v, p, q, t)
               /\ ~ RenameOntoCached => \/ d = v /\ Unlisted(v, p)
                                        \/ ListsMoved(D, d, v, p, q, t)
<1> DEFINE v == Evicted(c, t)
           i == FindEntry(v, p)
           x == v[Hash[p]][i].data
           w == Taken(v, Hash[p], i)
           r == Rehashed(w, Hash[p], i, q)
           k == HeldAt(r, q)
           d == Given(r, Hash[q], k, t)
<1>1. CacheInv(D, v, None)
  BY EvictedGives
<1>2. FileRenamed(c, p, q, t) = IF i = 0 THEN v ELSE d
  BY DEF FileRenamed
<1>3. RenameOntoCached \/ Unlisted(v, q)
  <2> DEFINE n == FindEntry(v, q)
  <2>1. ASSUME ~ RenameOntoCached
        PROVE  (IF n = 0 THEN None ELSE v[Hash[q]][n].data) = None
    BY <2>1 DEF FilePeeked
  <2> HIDE DEF v
  <2>2. /\ n = 0 => Unlisted(v, q)
        /\ n # 0 => v[Hash[q]][n].data \in D
    BY <1>1, FindGives
  <2> QED BY <2>1, <2>2, FileCacheAssumption
<1> HIDE DEF v
<1>4. /\ i = 0 => Unlisted(v, p)
      /\ i # 0 => /\ i \in 1 .. Len(v[Hash[p]]) /\ v[Hash[p]][i].st = "listed"
                  /\ v[Hash[p]][i].path = p /\ x \in D
  BY <1>1, FindGives
<1> HIDE DEF i
<1>5. CASE i = 0
  <2>1. MovesAtMost(v, v, p, q, t)
    BY DEF MovesAtMost
  <2> QED BY <1>1, <1>2, <1>4, <1>5, <2>1 DEF v
<1>6. CASE i # 0
  <2>1. /\ CacheInv(D, w, p) /\ HoldsAt(w, p, i) /\ w[Hash[p]][i].data = x
        /\ ListsNoMore(w, v)
        /\ ~ RenameOntoCached => ListsWithout(w, v, p)
    BY <1>1, <1>4, <1>6, TakenGives
  <2> HIDE DEF w
  <2>2. RenameOntoCached \/ Unlisted(w, q)
    BY <1>3, <2>1 DEF ListsWithout, Unlisted
  <2>3. w[Hash[p]][i].data \in D
    BY <1>4, <1>6, <2>1
  <2>4. CacheInv(D, r, q) /\ SameLists(r, w) /\ r[Hash[q]][k].data = x
    BY <2>1, <2>2, <2>3, RehashedGives
  <2> HIDE DEF r
  <2>5. HoldsAt(r, q, k)
    BY <2>4, HeldAtIs
  <2> HIDE DEF k
  <2>6. r[Hash[q]][k].data \in D
    BY <1>4, <1>6, <2>4
  <2>7. CacheInv(D, d, None) /\ ListsAlso(d, r, q, ListedEntry(q, r[Hash[q]][k].data, t))
    BY <2>4, <2>5, <2>6, GivenGives
  <2> HIDE DEF d
  <2>8. ASSUME ~ RenameOntoCached PROVE ListsMoved(D, d, v, p, q, t)
    <3> DEFINE y == v[Hash[p]][i]
    <3>1. Listed(v, Hash[p], y) /\ y.path = p /\ y.data = x /\ x \in D
      BY <1>4, <1>6 DEF Listed, In
    <3> HIDE DEF y, x
    <3>2. ListsAlso(d, r, q, ListedEntry(q, x, t)) /\ SameLists(r, w) /\ ListsWithout(w, v, p)
      BY <2>1, <2>4, <2>7, <2>8
    <3>3. \A h \in HashVal : \A z : Listed(d, h, z) <=>
                (Listed(v, h, z) /\ z.path # p) \/ (h = Hash[q] /\ z = ListedEntry(q, x, t))
      BY <3>2 DEF ListsAlso, SameLists, ListsWithout
    <3> QED BY <3>1, <3>3 DEF ListsMoved
  <2>9. MovesAtMost(d, v, p, q, t)
    <3> DEFINE y == v[Hash[p]][i]
    <3>1. Listed(v, Hash[p], y) /\ y.path = p /\ y.data = x
      BY <1>4, <1>6 DEF Listed, In
    <3> HIDE DEF y, x
    <3>2. ListsAlso(d, r, q, ListedEntry(q, x, t)) /\ SameLists(r, w) /\ ListsNoMore(w, v)
      BY <2>1, <2>4, <2>7
    <3>3. \A h \in HashVal : \A z : Listed(d, h, z) =>
                Listed(v, h, z) \/ z = ListedEntry(q, x, t)
      BY <3>2 DEF ListsAlso, SameLists, ListsNoMore
    <3> QED BY <3>1, <3>3 DEF MovesAtMost
  <2> QED BY <1>2, <1>6, <2>7, <2>8, <2>9 DEF v
<1> QED BY <1>5, <1>6

\* There is nothing in an empty table.
LEMMA EmptyGives ==
    ASSUME NEW D
    PROVE  CacheInv(D, EmptyCache, None)
<1>1. ASSUME NEW h \in HashVal PROVE ChainInv(D, <<>>, h, None)
  <2>1. <<>> \in Seq(EntryOf(D)) /\ 1 .. Len(<<>>) = {}
    BY EmptySeq
  <2> QED BY <2>1 DEF ChainInv
<1> QED BY <1>1 DEF EmptyCache, CacheInv
=============================================================================
