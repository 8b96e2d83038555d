-------------------------- MODULE CacheListProofs ---------------------------
(***************************************************************************)
(* Proofs about CacheList: the operations of list.c keep the pointers a    *)
(* chain, for any number of nodes, any time to live and any clock bound;   *)
(* the invariants the runs check, and the refinement of LruQueue, follow.  *)
(***************************************************************************)
EXTENDS CacheListHist, SequenceTheorems, TLAPS

-----------------------------------------------------------------------------
(* Sequences *)

\* What RemoveAt returns: one element fewer, the ones behind k moved up.
LEMMA RemoveAtElements ==
    ASSUME NEW S, NEW s \in Seq(S), NEW k \in 1 .. Len(s)
    PROVE  /\ RemoveAt(s, k) \in Seq(S)
           /\ Len(RemoveAt(s, k)) = Len(s) - 1
           /\ \A i \in 1 .. Len(s) - 1 :
                RemoveAt(s, k)[i] = IF i < k THEN s[i] ELSE s[i + 1]
<1> DEFINE a == SubSeq(s, 1, k - 1)
           b == SubSeq(s, k + 1, Len(s))
           c == a \o b
<1>0. Len(s) \in Nat /\ k \in Nat
  BY LenProperties
<1>1. /\ a \in Seq(S) /\ Len(a) = k - 1
      /\ \A i \in 1 .. k - 1 : a[i] = s[i]
  <2>1. \A i \in 1 .. k - 1 : i \in 1 .. Len(s) /\ s[i] \in S
    BY <1>0, ElementOfSeq
  <2> QED BY <1>0, <2>1, SubSeqProperties
<1>2. /\ b \in Seq(S) /\ Len(b) = Len(s) - k
      /\ \A i \in 1 .. Len(s) - k : b[i] = s[k + i]
  <2>1. \A i \in k + 1 .. Len(s) : i \in 1 .. Len(s) /\ s[i] \in S
    BY <1>0, ElementOfSeq
  <2> QED BY <1>0, <2>1, SubSeqProperties
<1>3. RemoveAt(s, k) = c
  BY DEF RemoveAt
<1> HIDE DEF a, b
<1>4. /\ c \in Seq(S) /\ Len(c) = Len(a) + Len(b)
      /\ \A i \in 1 .. Len(a) + Len(b) :
            c[i] = IF i <= Len(a) THEN a[i] ELSE b[i - Len(a)]
  BY <1>1, <1>2, ConcatProperties
<1> HIDE DEF c
<1>5. ASSUME NEW i \in 1 .. Len(s) - 1
      PROVE  c[i] = IF i < k THEN s[i] ELSE s[i + 1]
  <2>1. CASE i < k
    BY <1>0, <1>1, <1>2, <1>4, <2>1
  <2>2. CASE i >= k
    <3>1. PICK j \in 1 .. Len(s) - k : j = i - (k - 1)
      BY <1>0, <2>2
    <3>2. c[i] = b[j]
      <4>1. i \in 1 .. Len(a) + Len(b) /\ ~ (i <= Len(a)) /\ i - Len(a) = j
        BY <1>0, <1>1, <1>2, <2>2, <3>1
      <4> QED BY <1>4, <4>1
    <3>3. k + j = i + 1
      BY <1>0, <3>1
    <3> QED BY <1>0, <1>2, <2>2, <3>2, <3>3
  <2> QED BY <2>1, <2>2, <1>0
<1>6. Len(c) = Len(s) - 1
  BY <1>0, <1>1, <1>2, <1>4
<1> QED BY <1>3, <1>4, <1>5, <1>6

-----------------------------------------------------------------------------
(* The operations of list.c on a chain *)

\* sftfs_cache_list_node_unlinked() recognises exactly the nodes outside the
\* chain, the lone node of a one-element list included.
LEMMA UnlinkedMeansOutside ==
    ASSUME NEW l \in ListType, NEW s \in Seq(Node), Chain(l, s), NEW n \in Node
    PROVE  NodeUnlinked(l, n) <=> \A i \in 1 .. Len(s) : s[i] # n
<1>0. Len(s) \in Nat /\ \A i \in 1 .. Len(s) : s[i] \in Node /\ s[i] # NULL
  BY LenProperties, ElementOfSeq, NullAssumption
<1>1. ASSUME NEW i \in 1 .. Len(s), s[i] = n, NodeUnlinked(l, n)
      PROVE  FALSE
  <2>1. i = 1
    BY <1>0, <1>1, i - 1 \in 1 .. Len(s) \/ i = 1 DEF Chain, NodeUnlinked
  <2> QED BY <1>0, <1>1, <2>1 DEF Chain, NodeUnlinked
<1>2. ASSUME \A i \in 1 .. Len(s) : s[i] # n
      PROVE  NodeUnlinked(l, n)
  BY <1>0, <1>2, NullAssumption DEF Chain, NodeUnlinked
<1> QED BY <1>1, <1>2

\* sftfs_cache_list_insert() of a node outside the chain appends it, and the
\* chain stays in the order of the time stamps.
LEMMA InsertedChain ==
    ASSUME NEW l \in ListType, NEW s \in Seq(Node), NEW t \in Nat,
           Chain(l, s), Sorted(l, s, t),
           NEW n \in Node, \A i \in 1 .. Len(s) : s[i] # n
    PROVE  /\ Inserted(l, n, t) \in ListType
           /\ Append(s, n) \in Seq(Node)
           /\ Chain(Inserted(l, n, t), Append(s, n))
           /\ Sorted(Inserted(l, n, t), Append(s, n), t)
<1> DEFINE q == Append(s, n)
           m == Inserted(l, n, t)
<1>0. Len(s) \in Nat /\ \A i \in 1 .. Len(s) : s[i] \in Node /\ s[i] # NULL
  BY LenProperties, ElementOfSeq, NullAssumption
<1>1. /\ q \in Seq(Node) /\ Len(q) = Len(s) + 1 /\ q[Len(s) + 1] = n
      /\ \A i \in 1 .. Len(s) : q[i] = s[i]
  BY AppendProperties
<1>2. m \in ListType
  BY <1>0, NullAssumption DEF Inserted, Incremented, ListType, Pointer
<1>3. /\ m.lru = IF l.mru = NULL THEN n ELSE l.lru
      /\ m.mru = n
      /\ m.prev[n] = l.mru /\ m.next[n] = NULL /\ m.mod_time[n] = t
      /\ m.nr_nodes = Len(s) + 1
      /\ \A x \in Node \ {n} :
            /\ m.prev[x] = l.prev[x] /\ m.mod_time[x] = l.mod_time[x]
            /\ m.next[x] = IF x = l.mru THEN n ELSE l.next[x]
  BY DEF Inserted, Incremented, ListType, Chain
<1> HIDE DEF q, m
<1>4. Chain(m, q)
  <2>1. \A i, j \in 1 .. Len(q) : q[i] = q[j] => i = j
    <3>1. \A i \in 1 .. Len(q) : i \in 1 .. Len(s) \/ i = Len(s) + 1
      BY <1>0, <1>1
    <3> QED BY <1>0, <1>1, <3>1 DEF Chain
  <2>2. m.lru = q[1] /\ m.mru = q[Len(q)]
    BY <1>0, <1>1, <1>3 DEF Chain
  <2>3. ASSUME NEW i \in 1 .. Len(q)
        PROVE  /\ m.next[q[i]] = IF i = Len(q) THEN NULL ELSE q[i + 1]
               /\ m.prev[q[i]] = IF i = 1 THEN NULL ELSE q[i - 1]
    <3>1. CASE i = Len(s) + 1
      BY <1>0, <1>1, <1>3, <3>1 DEF Chain
    <3>2. CASE i \in 1 .. Len(s)
      <4>1. q[i] = s[i] /\ s[i] \in Node \ {n}
        BY <1>0, <1>1, <3>2
      <4>2. s[i] = l.mru <=> i = Len(s)
        BY <1>0, <3>2 DEF Chain
      <4>a. /\ l.next[s[i]] = IF i = Len(s) THEN NULL ELSE s[i + 1]
            /\ l.prev[s[i]] = IF i = 1 THEN NULL ELSE s[i - 1]
        BY <3>2 DEF Chain
      <4>3. m.next[q[i]] = IF i = Len(s) THEN n ELSE s[i + 1]
        BY <1>3, <4>1, <4>2, <4>a
      <4>4. m.prev[q[i]] = IF i = 1 THEN NULL ELSE s[i - 1]
        BY <1>3, <4>1, <4>a
      <4> QED BY <1>0, <1>1, <3>2, <4>3, <4>4
    <3> QED BY <1>0, <1>1, <3>1, <3>2
  <2>4. ASSUME NEW x \in Node, \A i \in 1 .. Len(q) : q[i] # x
        PROVE  m.next[x] = NULL /\ m.prev[x] = NULL /\ m.mod_time[x] = 0
    <3>1. x # n /\ \A i \in 1 .. Len(s) : s[i] # x
      BY <1>0, <1>1, <2>4
    <3>2. x # l.mru
      BY <1>0, <3>1, NullAssumption DEF Chain
    <3> QED BY <1>3, <3>1, <3>2 DEF Chain
  <2> QED BY <1>0, <1>1, <1>3, <2>1, <2>2, <2>3, <2>4 DEF Chain
<1>5. Sorted(m, q, t)
  <2>1. \A i \in 1 .. Len(q) : i \in 1 .. Len(s) \/ i = Len(s) + 1
    BY <1>0, <1>1
  <2>2. \A i \in 1 .. Len(s) : m.mod_time[q[i]] = l.mod_time[s[i]]
    BY <1>0, <1>1, <1>3
  <2>3. m.mod_time[q[Len(s) + 1]] = t
    BY <1>1, <1>3
  <2> QED BY <1>0, <1>1, <2>1, <2>2, <2>3 DEF Sorted
<1> QED BY <1>1, <1>2, <1>4, <1>5 DEF q, m

\* sftfs_cache_list_remove() of the k-th node takes it out of the chain,
\* whether it is an end, both ends or neither.
LEMMA RemovedChain ==
    ASSUME NEW l \in ListType, NEW s \in Seq(Node), NEW t \in Nat,
           Chain(l, s), Sorted(l, s, t), NEW k \in 1 .. Len(s)
    PROVE  /\ Removed(l, s[k]) \in ListType
           /\ RemoveAt(s, k) \in Seq(Node)
           /\ \A i \in 1 .. Len(RemoveAt(s, k)) : RemoveAt(s, k)[i] # s[k]
           /\ Chain(Removed(l, s[k]), RemoveAt(s, k))
           /\ Sorted(Removed(l, s[k]), RemoveAt(s, k), t)
<1> DEFINE q == RemoveAt(s, k)
           n == s[k]
           m == Removed(l, n)
           f(i) == IF i < k THEN i ELSE i + 1
<1>0. Len(s) \in Nat /\ k \in Nat /\ n \in Node
      /\ \A i \in 1 .. Len(s) : s[i] \in Node /\ s[i] # NULL
  BY LenProperties, ElementOfSeq, NullAssumption
<1>1. /\ q \in Seq(Node) /\ Len(q) = Len(s) - 1
      /\ \A i \in 1 .. Len(s) - 1 : q[i] = IF i < k THEN s[i] ELSE s[i + 1]
  BY RemoveAtElements
<1> HIDE DEF q
<1>2. \A i \in 1 .. Len(s) - 1 :
        f(i) \in 1 .. Len(s) /\ f(i) # k /\ q[i] = s[f(i)]
  BY <1>0, <1>1
<1>3. \A x \in Node : (\A i \in 1 .. Len(q) : q[i] # x) =>
        x = n \/ \A i \in 1 .. Len(s) : s[i] # x
  <2> SUFFICES ASSUME NEW x \in Node, \A i \in 1 .. Len(q) : q[i] # x,
                      NEW i \in 1 .. Len(s), s[i] = x, i # k
               PROVE  FALSE
    OBVIOUS
  <2>1. CASE i < k
    BY <1>0, <1>1, <2>1
  <2>2. CASE i > k
    <3>1. PICK j \in 1 .. Len(s) - 1 : j + 1 = i
      BY <1>0, <2>2
    <3>2. q[j] = s[j + 1]
      BY <1>0, <1>1, <2>2, <3>1
    <3> QED BY <1>1, <3>1, <3>2
  <2> QED BY <1>0, <2>1, <2>2
<1>4. /\ l.next[n] = IF k = Len(s) THEN NULL ELSE s[k + 1]
      /\ l.prev[n] = IF k = 1 THEN NULL ELSE s[k - 1]
      /\ l.nr_nodes = Len(s)
  BY DEF Chain
<1>5. m \in ListType
  BY <1>0, <1>4, NullAssumption
     DEF Removed, MruWithout, Decremented, ListType, Pointer
<1>6. /\ m.lru = IF l.lru = n THEN l.next[n] ELSE l.lru
      /\ m.mru = IF l.mru = n THEN l.prev[n] ELSE l.mru
      /\ m.prev[n] = NULL /\ m.next[n] = NULL /\ m.mod_time[n] = 0
      /\ m.nr_nodes = Len(s) - 1
      /\ \A x \in Node \ {n} :
            /\ m.prev[x] = IF x = l.next[n] THEN l.prev[n] ELSE l.prev[x]
            /\ m.next[x] = IF x = l.prev[n] THEN l.next[n] ELSE l.next[x]
            /\ m.mod_time[x] = l.mod_time[x]
  BY <1>0, <1>4 DEF Removed, MruWithout, Decremented, ListType
<1> HIDE DEF m
<1>7. \A i, j \in 1 .. Len(s) : s[i] = s[j] => i = j
  BY DEF Chain
<1>8. \A i \in 1 .. Len(q) : q[i] \in Node \ {n}
  BY <1>0, <1>1, <1>2, <1>7
<1>9. Chain(m, q)
  <2>1. \A i, j \in 1 .. Len(q) : q[i] = q[j] => i = j
    <3>1. \A i, j \in 1 .. Len(s) - 1 : f(i) = f(j) => i = j
      BY <1>0
    <3> HIDE DEF f
    <3> SUFFICES ASSUME NEW i \in 1 .. Len(s) - 1, NEW j \in 1 .. Len(s) - 1,
                        q[i] = q[j]
                 PROVE  i = j
      BY <1>1
    <3>2. s[f(i)] = s[f(j)]
      BY <1>2
    <3> QED BY <1>2, <1>7, <3>1, <3>2
  <2>2. m.lru = IF Len(q) = 0 THEN NULL ELSE q[1]
    <3>1. l.lru = s[1]
      BY <1>0 DEF Chain
    <3>2. l.lru = n <=> k = 1
      BY <1>0, <1>7, <3>1
    <3> QED BY <1>0, <1>1, <1>4, <1>6, <3>1, <3>2
  <2>3. m.mru = IF Len(q) = 0 THEN NULL ELSE q[Len(q)]
    <3>1. l.mru = s[Len(s)]
      BY <1>0 DEF Chain
    <3>2. l.mru = n <=> k = Len(s)
      BY <1>0, <1>7, <3>1
    <3>3. CASE k = Len(s)
      BY <1>0, <1>1, <1>4, <1>6, <3>1, <3>2, <3>3
    <3>4. CASE k < Len(s)
      <4>1. Len(q) \in 1 .. Len(s) - 1 /\ Len(q) >= k /\ Len(q) + 1 = Len(s)
        BY <1>0, <1>1, <3>4
      <4> QED BY <1>0, <1>1, <1>6, <3>1, <3>2, <3>4, <4>1
    <3> QED BY <1>0, <3>3, <3>4
  <2>4. ASSUME NEW i \in 1 .. Len(q)
        PROVE  /\ m.next[q[i]] = IF i = Len(q) THEN NULL ELSE q[i + 1]
               /\ m.prev[q[i]] = IF i = 1 THEN NULL ELSE q[i - 1]
    <3>1. PICK j \in 1 .. Len(s) : j = f(i) /\ j # k /\ q[i] = s[j]
      BY <1>1, <1>2
    <3>2. /\ l.next[s[j]] = IF j = Len(s) THEN NULL ELSE s[j + 1]
          /\ l.prev[s[j]] = IF j = 1 THEN NULL ELSE s[j - 1]
      BY <3>1 DEF Chain
    <3>3. s[j] \in Node \ {n}
      BY <1>8, <3>1
    <3>4. (s[j] = l.prev[n] <=> j = k - 1) /\ (s[j] = l.next[n] <=> j = k + 1)
      <4>1. k # 1 => k - 1 \in 1 .. Len(s)
        BY <1>0
      <4>2. k # Len(s) => k + 1 \in 1 .. Len(s)
        BY <1>0
      <4>3. s[j] = l.prev[n] <=> j = k - 1
        BY <1>0, <1>4, <1>7, <3>1, <4>1
      <4>4. s[j] = l.next[n] <=> j = k + 1
        BY <1>0, <1>4, <1>7, <3>1, <4>2
      <4> QED BY <4>3, <4>4
    <3>5. m.next[s[j]] = IF j = k - 1 THEN l.next[n] ELSE l.next[s[j]]
      BY <1>6, <3>3, <3>4
    <3>6. m.prev[s[j]] = IF j = k + 1 THEN l.prev[n] ELSE l.prev[s[j]]
      BY <1>6, <3>3, <3>4
    <3>7. m.next[q[i]] = IF i = Len(q) THEN NULL ELSE q[i + 1]
      <4>1. i # Len(q) => q[i + 1] = s[f(i + 1)]
        BY <1>0, <1>1, <1>2
      <4>2. CASE j < k - 1
        <5>1. i = j /\ i # Len(q) /\ f(i + 1) = j + 1 /\ j # Len(s)
          BY <1>0, <1>1, <3>1, <4>2
        <5> QED BY <3>1, <3>2, <3>5, <4>1, <4>2, <5>1, <1>0
      <4>3. CASE j = k - 1
        <5>1. i = j /\ (i = Len(q) <=> k = Len(s)) /\ f(i + 1) = k + 1
          BY <1>0, <1>1, <3>1, <4>3
        <5> QED BY <1>4, <3>1, <3>5, <4>1, <4>3, <5>1
      <4>4. CASE j > k
        <5>1. i + 1 = j /\ (i = Len(q) <=> j = Len(s)) /\ f(i + 1) = j + 1
              /\ j # k - 1
          BY <1>0, <1>1, <3>1, <4>4
        <5> QED BY <3>1, <3>2, <3>5, <4>1, <5>1
      <4> QED BY <1>0, <3>1, <4>2, <4>3, <4>4
    <3>8. m.prev[q[i]] = IF i = 1 THEN NULL ELSE q[i - 1]
      <4>1. i # 1 => q[i - 1] = s[f(i - 1)]
        BY <1>0, <1>1, <1>2
      <4>2. CASE j < k
        <5>1. i = j /\ (i # 1 => f(i - 1) = j - 1) /\ j # k + 1
          BY <1>0, <3>1, <4>2
        <5> QED BY <3>1, <3>2, <3>6, <4>1, <5>1
      <4>3. CASE j = k + 1
        <5>1. i = k /\ (i # 1 => f(i - 1) = k - 1)
          BY <1>0, <3>1, <4>3
        <5> QED BY <1>4, <3>1, <3>6, <4>1, <4>3, <5>1
      <4>4. CASE j > k + 1
        <5>1. i + 1 = j /\ i # 1 /\ f(i - 1) = j - 1 /\ j # k + 1 /\ j # 1
          BY <1>0, <3>1, <4>4
        <5> QED BY <3>1, <3>2, <3>6, <4>1, <5>1
      <4> QED BY <1>0, <3>1, <4>2, <4>3, <4>4
    <3> QED BY <3>7, <3>8
  <2>5. ASSUME NEW x \in Node, \A i \in 1 .. Len(q) : q[i] # x
        PROVE  m.next[x] = NULL /\ m.prev[x] = NULL /\ m.mod_time[x] = 0
    <3>1. CASE x = n
      BY <1>6, <3>1
    <3>2. CASE \A i \in 1 .. Len(s) : s[i] # x
      <4>1. x # n /\ x # l.next[n] /\ x # l.prev[n]
        BY <1>0, <1>4, <3>2, NullAssumption
      <4> QED BY <1>6, <3>2, <4>1 DEF Chain
    <3> QED BY <1>3, <2>5, <3>1, <3>2
  <2> QED BY <1>1, <1>6, <2>1, <2>2, <2>3, <2>4, <2>5 DEF Chain
<1>10. Sorted(m, q, t)
  <2>1. \A i \in 1 .. Len(q) : m.mod_time[q[i]] = l.mod_time[s[f(i)]]
    BY <1>1, <1>2, <1>6, <1>8
  <2>2. \A i, j \in 1 .. Len(q) : i < j => f(i) < f(j)
    BY <1>0, <1>1
  <2>3. \A i \in 1 .. Len(q) : f(i) \in 1 .. Len(s)
    BY <1>1, <1>2
  <2> HIDE DEF f
  <2> QED BY <2>1, <2>2, <2>3 DEF Sorted
<1> QED BY <1>1, <1>5, <1>8, <1>9, <1>10 DEF q, m

\* evict_lru() does to the head what sftfs_cache_list_remove() would do.
LEMMA EvictionIsRemoval ==
    ASSUME NEW l \in ListType, NEW s \in Seq(Node), Chain(l, s), l.lru # NULL
    PROVE  /\ Len(s) > 0 /\ l.lru = s[1]
           /\ LruEvicted(l) = Removed(l, s[1])
<1>0. Len(s) \in Nat /\ \A i \in 1 .. Len(s) : s[i] \in Node /\ s[i] # NULL
  BY LenProperties, ElementOfSeq, NullAssumption
<1>1. Len(s) > 0 /\ l.lru = s[1] /\ s[1] \in Node /\ 1 \in 1 .. Len(s)
  BY <1>0 DEF Chain
<1>b. Len(s) \in Nat /\ Len(s) > 0
  BY <1>0, <1>1
<1> DEFINE n == s[1]
<1>a. /\ \A i, j \in 1 .. Len(s) : s[i] = s[j] => i = j
      /\ \A i \in 1 .. Len(s) :
            /\ l.next[s[i]] = IF i = Len(s) THEN NULL ELSE s[i + 1]
            /\ l.prev[s[i]] = IF i = 1 THEN NULL ELSE s[i - 1]
  BY DEF Chain
<1>2. l.prev[n] = NULL /\ l.next[n] = IF 1 = Len(s) THEN NULL ELSE s[1 + 1]
  BY <1>1, <1>a
<1>3. l.next[n] = NULL <=> Len(s) = 1
  <2>1. Len(s) # 1 => 1 + 1 \in 1 .. Len(s)
    BY <1>b
  <2>2. Len(s) # 1 => s[1 + 1] # NULL
    BY <1>0, <2>1
  <2> QED BY <1>2, <2>2
<1>4. l.mru = n <=> Len(s) = 1
  <2>1. l.mru = s[Len(s)] /\ Len(s) \in 1 .. Len(s)
    BY <1>0, <1>1 DEF Chain
  <2> QED BY <1>1, <1>a, <2>1
<1> HIDE DEF n
<1>5. PrevWithoutLru(l) =
        [m \in Node |-> IF m = n THEN NULL
                        ELSE IF m = l.next[n] THEN l.prev[n]
                        ELSE l.prev[m]]
  BY <1>1, <1>2 DEF PrevWithoutLru, n
<1>6. [l.next EXCEPT ![n] = NULL] =
        [m \in Node |-> IF m = n THEN NULL
                        ELSE IF m = l.prev[n] THEN l.next[n]
                        ELSE l.next[m]]
  BY <1>2, NullAssumption DEF ListType
<1>7. (IF l.next[n] = NULL THEN NULL ELSE l.mru) = MruWithout(l, n)
  BY <1>2, <1>3, <1>4 DEF MruWithout
<1>8. l.lru = n
  BY <1>1 DEF n
<1>9. LruEvicted(l) = Removed(l, n)
  BY <1>5, <1>6, <1>7, <1>8 DEF LruEvicted, Removed
<1> QED BY <1>1, <1>9 DEF n

-----------------------------------------------------------------------------
(* Invariance *)

\* Inductive invariant of CacheList: the list is well typed and is the chain
\* of some sequence of nodes in the order of their time stamps.
IInv ==
    /\ TypeOK
    /\ \E s \in Seq(Node) : Chain(list, s) /\ Sorted(list, s, now)

\* sftfs_cache_list_construct() leaves a well-typed list that is the empty chain.
LEMMA EmptyListIsChain ==
    ASSUME NEW t \in Nat
    PROVE  /\ EmptyList \in ListType
           /\ <<>> \in Seq(Node) /\ Len(<<>>) = 0
           /\ Chain(EmptyList, <<>>)
           /\ Sorted(EmptyList, <<>>, t)
<1>1. EmptyList \in ListType
  BY DEF EmptyList, ListType, Pointer
<1>2. <<>> \in Seq(Node) /\ Len(<<>>) = 0
  BY EmptySeq
<1>3. 1 .. Len(<<>>) = {}
  BY <1>2
<1>4. Chain(EmptyList, <<>>)
  BY <1>2, <1>3 DEF Chain, EmptyList
<1> QED BY <1>1, <1>2, <1>3, <1>4 DEF Sorted

(* What each step does to the chain s: the facts both invariance proofs and  *)
(* the refinement proof need.                                                *)

\* sftfs_cache_list_insert() as a step: the chain grows at its end.
LEMMA InsertStep ==
    ASSUME TypeOK, NEW s \in Seq(Node), Chain(list, s), Sorted(list, s, now),
           NEW n \in Node, InsertNode(n)
    PROVE  /\ TypeOK'
           /\ \A i \in 1 .. Len(s) : s[i] # n
           /\ Append(s, n) \in Seq(Node)
           /\ Chain(list', Append(s, n)) /\ Sorted(list', Append(s, n), now')
           /\ list'.mod_time = [list.mod_time EXCEPT ![n] = now]
<1>1. now \in Nat /\ list \in ListType
  BY TimeAssumption DEF TypeOK
<1>2. \A i \in 1 .. Len(s) : s[i] # n
  BY <1>1, UnlinkedMeansOutside DEF InsertNode
<1>3. /\ Inserted(list, n, now) \in ListType
      /\ Append(s, n) \in Seq(Node)
      /\ Chain(Inserted(list, n, now), Append(s, n))
      /\ Sorted(Inserted(list, n, now), Append(s, n), now)
  BY <1>1, <1>2, InsertedChain
<1>4. Inserted(list, n, now).mod_time = [list.mod_time EXCEPT ![n] = now]
  BY DEF Inserted
<1> QED BY <1>2, <1>3, <1>4 DEF InsertNode, TypeOK

\* sftfs_cache_list_remove() as a step: the chain loses the node it held at k.
LEMMA RemoveStep ==
    ASSUME TypeOK, NEW s \in Seq(Node), Chain(list, s), Sorted(list, s, now),
           NEW n \in Node, RemoveNode(n)
    PROVE  \E k \in 1 .. Len(s) :
           /\ s[k] = n
           /\ TypeOK'
           /\ RemoveAt(s, k) \in Seq(Node)
           /\ Chain(list', RemoveAt(s, k)) /\ Sorted(list', RemoveAt(s, k), now')
           /\ list'.mod_time = [list.mod_time EXCEPT ![n] = 0]
<1>1. now \in Nat /\ list \in ListType
  BY TimeAssumption DEF TypeOK
<1>2. PICK k \in 1 .. Len(s) : s[k] = n
  BY <1>1, UnlinkedMeansOutside DEF RemoveNode
<1>3. /\ Removed(list, n) \in ListType
      /\ RemoveAt(s, k) \in Seq(Node)
      /\ Chain(Removed(list, n), RemoveAt(s, k))
      /\ Sorted(Removed(list, n), RemoveAt(s, k), now)
  BY <1>1, <1>2, RemovedChain
<1>4. Removed(list, n).mod_time = [list.mod_time EXCEPT ![n] = 0]
  BY DEF Removed
<1> QED BY <1>2, <1>3, <1>4 DEF RemoveNode, TypeOK

\* sftfs_cache_list_refresh() as a step: the node moves to the end of the chain.
LEMMA RefreshStep ==
    ASSUME TypeOK, NEW s \in Seq(Node), Chain(list, s), Sorted(list, s, now),
           NEW n \in Node, RefreshNode(n)
    PROVE  \E k \in 1 .. Len(s) :
           /\ s[k] = n
           /\ TypeOK'
           /\ Append(RemoveAt(s, k), n) \in Seq(Node)
           /\ Chain(list', Append(RemoveAt(s, k), n))
           /\ Sorted(list', Append(RemoveAt(s, k), n), now')
           /\ list'.mod_time = [list.mod_time EXCEPT ![n] = now]
<1>1. now \in Nat /\ list \in ListType
  BY TimeAssumption DEF TypeOK
<1>2. PICK k \in 1 .. Len(s) : s[k] = n
  BY <1>1, UnlinkedMeansOutside DEF RefreshNode
<1> DEFINE l == Removed(list, n)
           q == RemoveAt(s, k)
<1>3. /\ l \in ListType /\ q \in Seq(Node)
      /\ \A i \in 1 .. Len(q) : q[i] # n
      /\ Chain(l, q) /\ Sorted(l, q, now)
  BY <1>1, <1>2, RemovedChain
<1>4. l.mod_time = [list.mod_time EXCEPT ![n] = 0]
  BY DEF Removed
<1> HIDE DEF l, q
<1>5. /\ Inserted(l, n, now) \in ListType
      /\ Append(q, n) \in Seq(Node)
      /\ Chain(Inserted(l, n, now), Append(q, n))
      /\ Sorted(Inserted(l, n, now), Append(q, n), now)
  BY <1>1, <1>3, InsertedChain
<1>6. Inserted(l, n, now).mod_time = [list.mod_time EXCEPT ![n] = now]
  BY <1>1, <1>4 DEF Inserted, ListType
<1> QED BY <1>2, <1>5, <1>6 DEF RefreshNode, TypeOK, l, q

\* sftfs_cache_list_evict_invalid_lru() as a step: the chain loses its head,
\* which is expired.
LEMMA EvictStep ==
    ASSUME TypeOK, NEW s \in Seq(Node), Chain(list, s), Sorted(list, s, now),
           EvictInvalidLru
    PROVE  /\ TypeOK'
           /\ Len(s) > 0 /\ list.lru = s[1] /\ s[1] \in Node
           /\ list.mod_time[s[1]] + TTL < now
           /\ RemoveAt(s, 1) \in Seq(Node)
           /\ Chain(list', RemoveAt(s, 1)) /\ Sorted(list', RemoveAt(s, 1), now')
           /\ list'.mod_time = [list.mod_time EXCEPT ![s[1]] = 0]
<1>1. now \in Nat /\ list \in ListType
  BY TimeAssumption DEF TypeOK
<1>2. Len(s) > 0 /\ list.lru = s[1] /\ list' = Removed(list, s[1])
  BY <1>1, EvictionIsRemoval DEF EvictInvalidLru, ListEmpty
<1>3. 1 \in 1 .. Len(s) /\ s[1] \in Node
  BY <1>2, LenProperties, ElementOfSeq
<1>4. /\ Removed(list, s[1]) \in ListType
      /\ RemoveAt(s, 1) \in Seq(Node)
      /\ Chain(Removed(list, s[1]), RemoveAt(s, 1))
      /\ Sorted(Removed(list, s[1]), RemoveAt(s, 1), now)
  BY <1>1, <1>3, RemovedChain
<1>5. Removed(list, s[1]).mod_time = [list.mod_time EXCEPT ![s[1]] = 0]
  BY DEF Removed
<1>6. list.mod_time[s[1]] + TTL < now
  BY <1>2 DEF EvictInvalidLru, LruInvalid
<1> QED BY <1>2, <1>3, <1>4, <1>5, <1>6 DEF EvictInvalidLru, TypeOK

\* The clock advancing leaves the chain as it is, still in order.
LEMMA TickStep ==
    ASSUME TypeOK, NEW s \in Seq(Node), Chain(list, s), Sorted(list, s, now),
           Tick
    PROVE  TypeOK' /\ Chain(list', s) /\ Sorted(list', s, now')
<1>1. now \in Nat /\ list \in ListType /\ MaxTime \in Nat
  BY TimeAssumption DEF TypeOK
<1>2. TypeOK'
  BY <1>1 DEF Tick, TypeOK
<1>3. \A i \in 1 .. Len(s) : s[i] \in Node /\ list.mod_time[s[i]] \in Nat
  BY <1>1, ElementOfSeq DEF ListType
<1>4. list' = list /\ now <= now' /\ now' \in Nat
  BY <1>1 DEF Tick
<1>5. Sorted(list, s, now')
  BY <1>1, <1>3, <1>4 DEF Sorted
<1> QED BY <1>2, <1>4, <1>5

\* The list of list.c is at every moment a well-typed chain in the order of
\* its time stamps.
THEOREM ChainInvariant == Spec => []IInv
<1>1. Init => IInv
  <2>1. SUFFICES ASSUME Init PROVE IInv
    OBVIOUS
  <2>2. now \in Nat /\ now \in 0 .. MaxTime
    BY <2>1, TimeAssumption DEF Init
  <2> QED BY <2>1, <2>2, EmptyListIsChain DEF Init, IInv, TypeOK
<1>2. IInv /\ [Next]_vars => IInv'
  <2> SUFFICES ASSUME IInv, [Next]_vars PROVE IInv'
    OBVIOUS
  <2>1. TypeOK
    BY DEF IInv
  <2>2. PICK s \in Seq(Node) : Chain(list, s) /\ Sorted(list, s, now)
    BY DEF IInv
  <2>3. ASSUME NEW n \in Node, InsertNode(n) PROVE IInv'
    BY <2>1, <2>2, <2>3, InsertStep DEF IInv
  <2>4. ASSUME NEW n \in Node, RemoveNode(n) PROVE IInv'
    BY <2>1, <2>2, <2>4, RemoveStep DEF IInv
  <2>5. ASSUME NEW n \in Node, RefreshNode(n) PROVE IInv'
    BY <2>1, <2>2, <2>5, RefreshStep DEF IInv
  <2>6. CASE EvictInvalidLru
    BY <2>1, <2>2, <2>6, EvictStep DEF IInv
  <2>7. CASE Tick
    BY <2>1, <2>2, <2>7, TickStep DEF IInv
  <2>8. CASE UNCHANGED vars
    BY <2>1, <2>2, <2>8 DEF IInv, TypeOK, vars
  <2> QED BY <2>3, <2>4, <2>5, <2>6, <2>7, <2>8 DEF Next
<1> QED BY <1>1, <1>2, PTL DEF Spec

\* Type correctness of CacheList; nr_nodes never goes below zero.
THEOREM TypeCorrect == Spec => []TypeOK
<1>1. IInv => TypeOK
  BY DEF IInv
<1> QED BY <1>1, ChainInvariant, PTL

\* Looking at the head only is enough to evict every expired entry.
THEOREM HeadFreshCorrect == Spec => []HeadFreshMeansAllFresh
<1>1. IInv => HeadFreshMeansAllFresh
  <2> SUFFICES ASSUME IInv, ListEmpty(list) \/ ~ LruInvalid(list, now),
                      NEW n \in Node, ~ NodeUnlinked(list, n)
               PROVE  list.mod_time[n] + TTL >= now
    BY DEF HeadFreshMeansAllFresh
  <2>1. list \in ListType /\ now \in Nat
    BY TimeAssumption DEF IInv, TypeOK
  <2>2. PICK s \in Seq(Node) : Chain(list, s) /\ Sorted(list, s, now)
    BY DEF IInv
  <2>3. PICK i \in 1 .. Len(s) : s[i] = n
    BY <2>1, <2>2, UnlinkedMeansOutside
  <2>4. 1 \in 1 .. Len(s) /\ s[1] \in Node /\ list.lru = s[1] /\ s[1] # NULL
    BY <2>2, <2>3, LenProperties, ElementOfSeq, NullAssumption DEF Chain
  <2>5. ~ (list.mod_time[s[1]] + TTL < now)
    BY <2>4 DEF ListEmpty, LruInvalid
  <2>6. list.mod_time[s[1]] <= list.mod_time[s[i]]
    <3>1. CASE i = 1
      BY <2>1, <2>4, <3>1 DEF ListType
    <3>2. CASE i # 1
      BY <2>2, <2>4, <3>2 DEF Sorted
    <3> QED BY <3>1, <3>2
  <2>7. list.mod_time[s[1]] \in Nat /\ list.mod_time[n] \in Nat
    BY <2>1, <2>4 DEF ListType
  <2> QED BY <2>1, <2>3, <2>5, <2>6, <2>7, TimeAssumption
<1> QED BY <1>1, ChainInvariant, PTL

\* The assertion of decrement_nr_nodes() never fails.
THEOREM DecrementAssertCorrect == Spec => []DecrementAssertHolds
<1>1. IInv => DecrementAssertHolds
  <2> SUFFICES ASSUME IInv,
                      ~ ListEmpty(list) \/ \E n \in Node : ~ NodeUnlinked(list, n)
               PROVE  list.nr_nodes > 0
    BY DEF DecrementAssertHolds
  <2>1. list \in ListType
    BY DEF IInv, TypeOK
  <2>2. PICK s \in Seq(Node) : Chain(list, s)
    BY DEF IInv
  <2>3. Len(s) > 0
    BY <2>1, <2>2, UnlinkedMeansOutside, LenProperties DEF ListEmpty, Chain
  <2> QED BY <2>2, <2>3 DEF Chain
<1> QED BY <1>1, ChainInvariant, PTL

\* A node is evicted only after its whole time to live.
THEOREM NoEarlyEvictionCorrect == Spec => NoEarlyEviction
<1> DEFINE A == EvictInvalidLru =>
                  \A n \in Node :
                    (~ NodeUnlinked(list, n) /\ NodeUnlinked(list', n)) =>
                        list.mod_time[n] + TTL < now
<1>1. IInv => [A]_vars
  <2> SUFFICES ASSUME IInv, EvictInvalidLru, NEW n \in Node,
                      ~ NodeUnlinked(list, n), NodeUnlinked(list', n)
               PROVE  list.mod_time[n] + TTL < now
    OBVIOUS
  <2>1. PICK s \in Seq(Node) : Chain(list, s) /\ Sorted(list, s, now)
    BY DEF IInv
  <2>2. list \in ListType /\ TypeOK
    BY DEF IInv, TypeOK
  <2> DEFINE q == RemoveAt(s, 1)
  <2>3. /\ list' \in ListType /\ q \in Seq(Node) /\ Chain(list', q)
        /\ Len(s) > 0 /\ list.mod_time[s[1]] + TTL < now
    BY <2>1, <2>2, EvictStep DEF TypeOK
  <2>4. PICK i \in 1 .. Len(s) : s[i] = n
    BY <2>1, <2>2, UnlinkedMeansOutside
  <2>5. \A j \in 1 .. Len(q) : q[j] # n
    BY <2>3, UnlinkedMeansOutside
  <2>6. /\ Len(s) \in Nat /\ 1 \in 1 .. Len(s) /\ Len(q) = Len(s) - 1
        /\ \A j \in 1 .. Len(s) - 1 : q[j] = IF j < 1 THEN s[j] ELSE s[j + 1]
    <3>1. Len(s) \in Nat /\ 1 \in 1 .. Len(s)
      BY <2>3, LenProperties
    <3> QED BY <3>1, RemoveAtElements
  <2>7. i = 1
    <3> SUFFICES ASSUME i # 1 PROVE FALSE
      OBVIOUS
    <3> HIDE DEF q
    <3>1. PICK j \in 1 .. Len(s) - 1 : j + 1 = i
      BY <2>6
    <3>2. q[j] = s[j + 1]
      BY <2>6
    <3> QED BY <2>4, <2>5, <2>6, <3>1, <3>2
  <2> QED BY <2>3, <2>4, <2>7
<1> QED BY <1>1, ChainInvariant, PTL DEF NoEarlyEviction

-----------------------------------------------------------------------------
(* The history variable and the refinement of LruQueue *)

HIInv == TypeOK /\ ListIsChain

\* The inductive invariant with the history variable: types, and the pointers
\* spell out the history sequence.
THEOREM HistoryInvariant == HSpec => []HIInv
<1>1. HInit => HIInv
  <2> SUFFICES ASSUME HInit PROVE HIInv
    OBVIOUS
  <2>1. now \in Nat /\ now \in 0 .. MaxTime
    BY TimeAssumption DEF HInit, Init
  <2> QED BY <2>1, EmptyListIsChain DEF HInit, Init, HIInv, TypeOK, ListIsChain
<1>2. HIInv /\ [HNext]_hvars => HIInv'
  <2> SUFFICES ASSUME HIInv, [HNext]_hvars PROVE HIInv'
    OBVIOUS
  <2>1. TypeOK /\ order \in Seq(Node) /\ Chain(list, order)
        /\ Sorted(list, order, now)
    BY DEF HIInv, ListIsChain
  <2>2. \A i, j \in 1 .. Len(order) : order[i] = order[j] => i = j
    BY <2>1 DEF Chain
  <2>3. ASSUME NEW n \in Node, HInsertNode(n) PROVE HIInv'
    BY <2>1, <2>3, InsertStep DEF HInsertNode, HIInv, ListIsChain
  <2>4. ASSUME NEW n \in Node, HRemoveNode(n) PROVE HIInv'
    <3>1. PICK k \in 1 .. Len(order) : order[k] = n /\ order' = RemoveAt(order, k)
      BY <2>4 DEF HRemoveNode
    <3>2. TypeOK' /\ RemoveAt(order, k) \in Seq(Node)
          /\ Chain(list', RemoveAt(order, k))
          /\ Sorted(list', RemoveAt(order, k), now')
      <4>1. PICK j \in 1 .. Len(order) :
              /\ order[j] = n /\ TypeOK' /\ RemoveAt(order, j) \in Seq(Node)
              /\ Chain(list', RemoveAt(order, j))
              /\ Sorted(list', RemoveAt(order, j), now')
        BY <2>1, <2>4, RemoveStep DEF HRemoveNode
      <4> QED BY <2>2, <3>1, <4>1
    <3> QED BY <3>1, <3>2 DEF HIInv, ListIsChain
  <2>5. ASSUME NEW n \in Node, HRefreshNode(n) PROVE HIInv'
    <3>1. PICK k \in 1 .. Len(order) :
            order[k] = n /\ order' = Append(RemoveAt(order, k), n)
      BY <2>5 DEF HRefreshNode
    <3>2. TypeOK' /\ order' \in Seq(Node) /\ Chain(list', order')
          /\ Sorted(list', order', now')
      BY <2>1, <2>2, <2>5, <3>1, RefreshStep DEF HRefreshNode
    <3> QED BY <3>2 DEF HIInv, ListIsChain
  <2>6. CASE HEvictInvalidLru
    BY <2>1, <2>6, EvictStep DEF HEvictInvalidLru, HIInv, ListIsChain
  <2>7. CASE HTick
    BY <2>1, <2>7, TickStep DEF HTick, HIInv, ListIsChain
  <2>8. CASE UNCHANGED hvars
    BY <2>1, <2>8 DEF HIInv, ListIsChain, TypeOK, hvars
  <2> QED BY <2>3, <2>4, <2>5, <2>6, <2>7, <2>8 DEF HNext
<1> QED BY <1>1, <1>2, PTL DEF HSpec

\* The pointers of list.c spell out, in both directions, the nodes in the order
\* they were given, at every moment.
THEOREM ListIsChainCorrect == HSpec => []ListIsChain
<1>1. HIInv => ListIsChain
  BY DEF HIInv
<1> QED BY <1>1, HistoryInvariant, PTL

\* Whatever the code can remove or evict, the history sequence has in place.
THEOREM HistoryCorrect == HSpec => []HistoryNeverBlocks
<1>1. HIInv => HistoryNeverBlocks
  <2> SUFFICES ASSUME HIInv PROVE HistoryNeverBlocks
    OBVIOUS
  <2>1. list \in ListType /\ order \in Seq(Node) /\ Chain(list, order)
    BY DEF HIInv, TypeOK, ListIsChain
  <2>2. ASSUME NEW n \in Node, ~ NodeUnlinked(list, n)
        PROVE  \E k \in 1 .. Len(order) : order[k] = n
    BY <2>1, <2>2, UnlinkedMeansOutside
  <2>3. ~ ListEmpty(list) => Len(order) > 0 /\ order[1] = list.lru
    BY <2>1, EvictionIsRemoval DEF ListEmpty
  <2> QED BY <2>2, <2>3 DEF HistoryNeverBlocks
<1> QED BY <1>1, HistoryInvariant, PTL

\* The doubly linked list of list.c implements the queue of LruQueue.
THEOREM Refinement == HSpec => ImplementsLruQueue
<1>1. HInit => Abstract!Init
  BY DEF HInit, Init, EmptyList, Abstract!Init
<1>2. HIInv /\ HIInv' /\ [HNext]_hvars => [Abstract!Next]_Abstract!vars
  <2> SUFFICES ASSUME HIInv, [HNext]_hvars PROVE [Abstract!Next]_Abstract!vars
    OBVIOUS
  <2>1. TypeOK /\ order \in Seq(Node) /\ Chain(list, order)
        /\ Sorted(list, order, now)
    BY DEF HIInv, ListIsChain
  <2>a. \A q, k : Abstract!RemoveAt(q, k) = RemoveAt(q, k)
    BY DEF RemoveAt, Abstract!RemoveAt
  <2>2. ASSUME NEW n \in Node, HInsertNode(n) PROVE Abstract!InsertNode(n)
    <3>1. /\ \A i \in 1 .. Len(order) : order[i] # n
          /\ list'.mod_time = [list.mod_time EXCEPT ![n] = now]
      BY <2>1, <2>2, InsertStep DEF HInsertNode
    <3>2. n \notin Abstract!Listed
      BY <3>1 DEF Abstract!Listed
    <3> QED BY <2>2, <3>1, <3>2
            DEF HInsertNode, InsertNode, Abstract!InsertNode
  <2>3. ASSUME NEW n \in Node, HRemoveNode(n) PROVE Abstract!RemoveNode(n)
    <3>1. list'.mod_time = [list.mod_time EXCEPT ![n] = 0]
      BY <2>1, <2>3, RemoveStep DEF HRemoveNode
    <3> QED BY <2>3, <2>a, <3>1 DEF HRemoveNode, RemoveNode, Abstract!RemoveNode
  <2>4. ASSUME NEW n \in Node, HRefreshNode(n) PROVE Abstract!RefreshNode(n)
    <3>1. list'.mod_time = [list.mod_time EXCEPT ![n] = now]
      BY <2>1, <2>4, RefreshStep DEF HRefreshNode
    <3> QED BY <2>4, <2>a, <3>1 DEF HRefreshNode, RefreshNode, Abstract!RefreshNode
  <2>5. CASE HEvictInvalidLru
    <3>1. /\ Len(order) > 0 /\ list.mod_time[order[1]] + TTL < now
          /\ list'.mod_time = [list.mod_time EXCEPT ![order[1]] = 0]
      BY <2>1, <2>5, EvictStep DEF HEvictInvalidLru
    <3>2. order # <<>>
      BY <3>1, EmptySeq
    <3> QED BY <2>5, <2>a, <3>1, <3>2
            DEF HEvictInvalidLru, EvictInvalidLru, Abstract!Evict, Abstract!Next
  <2>6. CASE HTick
    BY <2>6 DEF HTick, Tick, Abstract!Tick, Abstract!Next
  <2>7. CASE UNCHANGED hvars
    BY <2>7 DEF hvars, Abstract!vars
  <2> QED BY <2>2, <2>3, <2>4, <2>5, <2>6, <2>7 DEF HNext, Abstract!Next
<1> QED BY <1>1, <1>2, HistoryInvariant, PTL
        DEF HSpec, ImplementsLruQueue, Abstract!Spec
=============================================================================
