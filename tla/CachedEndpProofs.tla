-------------------------- MODULE CachedEndpProofs --------------------------
(***************************************************************************)
(* Proofs about the caching layer, for every set of paths that libfuse may *)
(* know, every hash function, time to live and number of handles.          *)
(***************************************************************************)
EXTENDS CachedEndp, FileCacheOpsProofs, FiniteSetTheorems

-----------------------------------------------------------------------------
(* Paths and keys *)

\* The names of a listing of p.
EntryNames(p) == {Dot, DotDot} \cup {NameOf(q) : q \in Children(p)}

\* A non-empty set of positions has a last one.
LEMMA MaxIs ==
    ASSUME NEW n \in Nat, NEW S \in SUBSET (1 .. n), S # {}
    PROVE  Max(S) \in S /\ \A i \in S : i <= Max(S)
<1> DEFINE T == {n - i : i \in S}
<1>1. T \in SUBSET Nat /\ T # {}
  <2>1. \A i \in S : n - i \in Nat
    OBVIOUS
  <2> QED BY <2>1
<1> HIDE DEF T
<1>2. Min(T) \in T /\ \A i \in T : Min(T) <= i
  BY <1>1, MinIs
<1>3. PICK k \in S : Min(T) = n - k
  BY <1>2 DEF T
<1>4. ASSUME NEW i \in S PROVE i <= k
  <2>1. n - i \in T
    BY DEF T
  <2>2. n - k <= n - i /\ i \in Int /\ k \in Int
    BY <1>2, <1>3, <2>1
  <2> QED BY <2>2
<1>5. \E x \in S : \A y \in S : x >= y
  BY <1>4
<1>6. Max(S) \in S /\ \A y \in S : Max(S) >= y
  BY <1>5 DEF Max
<1> QED BY <1>6

\* The root and the separator are sequences of one character.
LEMMA RootIs == Root \in Seq(STRING) /\ Len(Root) = 1 /\ Root # <<>>
<1>1. Root \in Seq(STRING)
  BY CachedAssumption
<1>2. Len(Root) = 1
  BY DEF Root
<1> QED BY <1>1, <1>2, EmptySeq

\* Where the last name of a path begins.
LEMMA LastSeperatorIs ==
    ASSUME NEW p \in UserPath
    PROVE  /\ p \in Seq(STRING) /\ FindLastSeperator(p) \in 0 .. Len(p)
           /\ NameOf(p) \in Seq(STRING)
<1> DEFINE I == {i \in 1 .. Len(p) : p[i] = "/"}
           k == FindLastSeperator(p)
<1>1. p \in Seq(STRING) /\ Len(p) \in Nat
  BY CachedAssumption, LenProperties
<1>2. k = IF I # {} THEN Max(I) ELSE 0
  BY DEF FindLastSeperator, SelectLastInSeq
<1>3. I # {} => Max(I) \in I
  <2> DEFINE n == Len(p)
  <2>1. n \in Nat /\ I \in SUBSET (1 .. n)
    BY <1>1
  <2> HIDE DEF n, I
  <2> QED BY <2>1, MaxIs
<1>4. k \in 0 .. Len(p)
  BY <1>1, <1>2, <1>3
<1> HIDE DEF k, I
<1>5. SubSeq(p, k + 1, Len(p)) \in Seq(STRING)
  <2> DEFINE m == k + 1
             n == Len(p)
  <2>1. m \in Int /\ n \in Int /\ m >= 1 /\ n \in Nat
    BY <1>1, <1>4
  <2>2. \A i \in 1 .. n : p[i] \in STRING
    BY <1>1, ElementOfSeq
  <2>3. \A i \in m .. n : p[i] \in STRING
    BY <2>1, <2>2
  <2> HIDE DEF m, n
  <2> QED BY <2>1, <2>3, SubSeqProperties DEF m, n
<1> QED BY <1>1, <1>4, <1>5 DEF NameOf, k

\* Users know no empty path, and a path is not its own directory.
LEMMA PathIs ==
    /\ Unlinked \notin UserPath /\ None # Unlinked /\ None \notin UserPath
    /\ \A p \in UserPath \ {Root} : Parent(p) # p /\ Parent(p) \in UserPath
<1>1. None # Unlinked
  <2>1. <<>> \in Seq(Names)
    BY EmptySeq
  <2> QED BY <2>1, CachedAssumption DEF Unlinked
<1>2. ASSUME NEW p \in UserPath \ {Root} PROVE p # <<>> /\ Parent(p) # p
  <2> DEFINE u == Parent(p)
             a == IF u = Root THEN <<>> ELSE u
             b == NameOf(p)
             s == <<"/">>
  <2>1. u \in UserPath /\ p \in Seq(STRING) /\ u \in Seq(STRING) /\ b \in Seq(STRING)
    BY CachedAssumption, LastSeperatorIs
  <2>2. p = a \o s \o b
    BY CachedAssumption
  <2> HIDE DEF u, b
  <2>3. a \in Seq(STRING) /\ s \in Seq(STRING) /\ Len(s) = 1
    BY <2>1, EmptySeq, RootIs DEF Root
  <2> HIDE DEF a, s
  <2> DEFINE T == STRING
  <2>4. a \o s \in Seq(STRING) /\ Len(a \o s) = Len(a) + 1
    <3>1. a \in Seq(T) /\ s \in Seq(T) /\ Len(s) = 1
      BY <2>3
    <3> HIDE DEF T
    <3>2. a \o s \in Seq(T) /\ Len(a \o s) = Len(a) + Len(s)
      BY <3>1, ConcatProperties
    <3> QED BY <3>1, <3>2 DEF T
  <2>5. Len(p) = Len(a) + 1 + Len(b) /\ Len(a) \in Nat /\ Len(b) \in Nat
    BY <2>1, <2>2, <2>3, <2>4, ConcatProperties, LenProperties
  <2>6. Len(<<>>) = 0 /\ Len(Root) = 1
    BY EmptySeq, RootIs
  <2>7. u # p
    <3>1. CASE u = Root
      BY <3>1
    <3>2. CASE u # Root
      <4>1. Len(p) # Len(a)
        BY <2>5
      <4> QED BY <3>2, <4>1 DEF a
    <3> QED BY <3>1, <3>2
  <2>8. p # <<>>
    BY <2>5, <2>6
  <2> QED BY <2>7, <2>8 DEF u
<1> QED BY <1>1, <1>2, RootIs, CachedAssumption DEF Unlinked

\* What is above the root is the root.
LEMMA ParentOfRoot == Parent(Root) = Root
<1> DEFINE I == {i \in 1 .. Len(Root) : Root[i] = "/"}
<1>1. I \in SUBSET (1 .. 1) /\ I # {}
  BY RootIs DEF Root
<1>2. FindLastSeperator(Root) = Max(I)
  BY <1>1 DEF FindLastSeperator, SelectLastInSeq
<1> HIDE DEF I
<1>3. Max(I) \in I
  BY <1>1, MaxIs
<1>4. FindLastSeperator(Root) = Len(Root)
  <2> DEFINE m == Max(I)
  <2>1. m \in 1 .. 1
    BY <1>1, <1>3
  <2> HIDE DEF m
  <2>2. m = 1
    BY <2>1
  <2> QED BY <1>2, <2>2, RootIs DEF m
<1> QED BY <1>4, RootIs DEF Parent, PushEntry

\* The key of an entry of a listing stands for the entry.
LEMMA KeyOfChild ==
    ASSUME NEW p \in UserPath, NEW q \in Children(p), NameOf(q) \notin {Dot, DotDot}
    PROVE  PushEntry(p, NameOf(q)) \in Path /\ Canon(PushEntry(p, NameOf(q))) = q
<1> DEFINE name == NameOf(q)
           s == <<"/">>
           r == s \o name
           k == PushEntry(p, name)
<1>1. q \in UserPath \ {Root} /\ Parent(q) = p
  BY DEF Children
<1>2. q # <<>>
  BY <1>1, PathIs DEF Unlinked
<1>3. CASE p # Root
  <2>1. q = p \o s \o name
    BY <1>1, <1>3, CachedAssumption
  <2>2. k = q
    BY <1>2, <2>1 DEF PushEntry
  <2> QED BY <1>1, <2>2, CachedAssumption DEF Canon
<1>4. CASE p = Root
  <2>1. name \in Seq(STRING) /\ s \in Seq(STRING) /\ Len(s) = 1
    BY <1>1, LastSeperatorIs, RootIs DEF Root
  <2>2. k \notin UserPath /\ Root \in UserPath /\ k \in Path
    BY <1>4, CachedAssumption
  <2>3. k = IF Root \o s \o name = <<>> THEN Root ELSE Root \o s \o name
    BY <1>4 DEF PushEntry
  <2>4. k = Root \o s \o name
    BY <2>2, <2>3
  <2>5. q = <<>> \o s \o name
    BY <1>1, <1>4, CachedAssumption
  <2> HIDE DEF name, s
  <2>6. r \in Seq(STRING) /\ Root \in Seq(STRING) /\ Len(Root) = 1
    BY <2>1, ConcatProperties, RootIs
  <2>7. Root \o s \o name = Root \o r /\ <<>> \o s \o name = r
    BY <2>1, <2>6, EmptySeq, ConcatAssociative, ConcatEmptySeq
  <2> HIDE DEF r
  <2>8. Tail(Root \o r) = r
    BY <2>6 DEF Root
  <2>9. Canon(k) = q
    <3> HIDE DEF k
    <3> QED BY <2>2, <2>4, <2>5, <2>7, <2>8 DEF Canon
  <2> QED BY <2>2, <2>9 DEF name
<1> QED BY <1>3, <1>4

\* The key of an entry of a listing is a key, and the server's path behind a key
\* is a path.
LEMMA KeyIs ==
    /\ UserPath \subseteq Path
    /\ \A p \in UserPath : \A name \in EntryNames(p) : PushEntry(p, name) \in Path
    /\ \A k \in Path : Canon(k) \in UserPath
    /\ \A p \in UserPath : Canon(p) = p
<1>1. UserPath \subseteq Path
  BY CachedAssumption
<1>2. ASSUME NEW p \in UserPath, NEW name \in EntryNames(p) PROVE PushEntry(p, name) \in Path
  <2>1. CASE name = DotDot
    BY <1>1, <2>1, CachedAssumption DEF Parent
  <2>2. CASE name # DotDot /\ name = Dot
    <3>1. PushEntry(p, name) = IF p = <<>> THEN Root ELSE p
      BY <2>2 DEF PushEntry
    <3> QED BY <1>1, <3>1, PathIs DEF Unlinked
  <2>3. CASE name # DotDot /\ name # Dot
    <3>1. PICK q \in Children(p) : name = NameOf(q)
      BY <2>3 DEF EntryNames
    <3>2. CASE p = Root
      BY <3>1, <3>2, CachedAssumption
    <3>3. CASE p # Root
      <4>1. q \in UserPath \ {Root} /\ Parent(q) = p
        BY <3>1 DEF Children
      <4>2. q = p \o <<"/">> \o name
        BY <3>1, <3>3, <4>1, CachedAssumption
      <4>3. PushEntry(p, name) = IF q = <<>> THEN Root ELSE q
        BY <2>3, <4>2 DEF PushEntry
      <4> QED BY <1>1, <4>1, <4>3, CachedAssumption
    <3> QED BY <3>2, <3>3
  <2> QED BY <2>1, <2>2, <2>3
<1>3. ASSUME NEW k \in Path PROVE Canon(k) \in UserPath
  <2>1. CASE k \in UserPath
    BY <2>1 DEF Canon
  <2>2. CASE k \notin UserPath
    <3>1. PICK q \in Children(Root) : k = PushEntry(Root, NameOf(q))
      BY <2>2, CachedAssumption
    <3>2. NameOf(q) # DotDot
      BY <2>2, <3>1, CachedAssumption DEF Parent
    <3>3. NameOf(q) # Dot
      <4>1. PushEntry(Root, Dot) = Root
        BY DEF PushEntry, Dot, DotDot, Root
      <4> QED BY <2>2, <3>1, <4>1, CachedAssumption
    <3>4. Canon(k) = q
      BY <3>1, <3>2, <3>3, KeyOfChild, CachedAssumption
    <3> QED BY <3>1, <3>4 DEF Children
  <2> QED BY <2>1, <2>2
<1> QED BY <1>1, <1>2, <1>3 DEF Canon
-----------------------------------------------------------------------------
(* What the helpers of cached.c do to a cache *)

\* All d lists besides what c listed is in X.
Adds(d, c, X) == \A h \in HashVal : \A e : Listed(d, h, e) => Listed(c, h, e) \/ e \in X

\* What a call enters under p: v, unless there is none.
Entered(p, v) == {ListedEntry(p, w, now) : w \in {v} \ {None}}

LEMMA AddsMore ==
    ASSUME NEW d, NEW c, NEW b, NEW X, NEW Y, Adds(d, c, X), Adds(c, b, Y)
    PROVE  Adds(d, b, X \cup Y)
  BY DEF Adds

\* Eviction adds nothing.
LEMMA EvictedAdds ==
    ASSUME NEW D, NEW c, NEW hd \in Path \cup {None}, CacheInv(D, c, hd), NEW t
    PROVE  CacheInv(D, Evicted(c, t), hd) /\ ListsNoMore(Evicted(c, t), c)
<1>1. CacheInv(D, Evicted(c, t), hd) /\ HoldsUnexpired(Evicted(c, t), c, t)
  BY EvictedGives
<1> QED BY <1>1 DEF HoldsUnexpired, ListsNoMore, Listed

\* take, write, give.
LEMMA PutGives ==
    ASSUME StrEqDecides, NEW D, NEW c, CacheInv(D, c, None), NEW p \in Path, NEW v \in D,
           NEW t \in 0 .. MaxTime, NEW grow \in BOOLEAN
    PROVE  LET d == FileGiven(FileTaken(c, p, t, grow), p, v, t)
           IN  CacheInv(D, d, None) /\ Adds(d, c, {ListedEntry(p, v, t)})
<1> DEFINE e == Evicted(c, t)
           w == FileTaken(c, p, t, grow)
           u == Evicted(w, t)
           d == FileGiven(w, p, v, t)
<1>1. CacheInv(D, e, None) /\ ListsNoMore(e, c)
  BY EvictedAdds
<1>2. CacheInv(D, w, p) /\ ListsNoMore(w, e)
  BY FileTakenGives
<1> HIDE DEF e, w
<1>3. ListsNoMore(u, w)
  BY <1>2, EvictedAdds
<1>4. CacheInv(D, d, None) /\ ListsAlso(d, u, p, ListedEntry(p, v, t))
  BY <1>2, FileGivenGives
<1> HIDE DEF u, d
<1>5. Adds(d, c, {ListedEntry(p, v, t)})
  BY <1>1, <1>2, <1>3, <1>4 DEF Adds, ListsNoMore, ListsAlso
<1> QED BY <1>4, <1>5 DEF d, w

\* take, drop.
LEMMA PutDropped ==
    ASSUME StrEqDecides, NEW D, NEW c, CacheInv(D, c, None), NEW p \in Path,
           NEW t \in 0 .. MaxTime, NEW grow \in BOOLEAN
    PROVE  LET d == FileDropped(FileTaken(c, p, t, grow), p, t)
           IN  CacheInv(D, d, None) /\ Adds(d, c, {})
<1> DEFINE e == Evicted(c, t)
           w == FileTaken(c, p, t, grow)
           d == FileDropped(w, p, t)
<1>1. CacheInv(D, e, None) /\ ListsNoMore(e, c)
  BY EvictedAdds
<1>2. CacheInv(D, w, p) /\ ListsNoMore(w, e)
  BY FileTakenGives
<1> HIDE DEF e, w
<1>3. CacheInv(D, d, None) /\ \E u : SameLists(u, w) /\ HoldsUnexpired(d, u, t)
  BY <1>2, FileDroppedGives
<1> HIDE DEF d
<1>4. Adds(d, c, {})
  BY <1>1, <1>2, <1>3 DEF Adds, ListsNoMore, SameLists, HoldsUnexpired, Listed
<1> QED BY <1>3, <1>4 DEF d, w

\* After an invalidation nothing is listed under the path.
LEMMA InvalidatedGives ==
    ASSUME StrEqDecides, NEW D, NEW c, CacheInv(D, c, None), NEW p \in Path, NEW t
    PROVE  LET d == FileInvalidated(c, p, t)
           IN  /\ CacheInv(D, d, None) /\ Adds(d, c, {})
               /\ ~ RenameOntoCached => Unlisted(d, p)
<1> DEFINE e == Evicted(c, t)
           d == FileInvalidated(c, p, t)
<1>1. CacheInv(D, e, None) /\ ListsNoMore(e, c)
  BY EvictedAdds
<1>2. /\ CacheInv(D, d, None) /\ ListsNoMore(d, e)
      /\ ~ RenameOntoCached => ListsWithout(d, e, p)
  BY FileInvalidatedGives
<1> HIDE DEF e, d
<1>3. Adds(d, c, {})
  BY <1>1, <1>2 DEF Adds, ListsNoMore
<1>4. ~ RenameOntoCached => Unlisted(d, p)
  BY <1>2 DEF Unlisted, ListsWithout
<1> QED BY <1>2, <1>3, <1>4 DEF d

\* After a rename what was listed under the path is listed under the new one.
LEMMA RenamedGives ==
    ASSUME StrEqDecides, NEW D, None \notin D, NEW c, CacheInv(D, c, None),
           NEW p \in Path, NEW q \in Path, p # q, NEW t \in 0 .. MaxTime,
           RenameOntoCached \/ FilePeeked(c, q, t) = None
    PROVE  LET d == FileRenamed(c, p, q, t)
           IN  /\ CacheInv(D, d, None)
               /\ \A h \in HashVal : \A y : Listed(d, h, y) =>
                    \/ Listed(c, h, y)
                    \/ \E e : Listed(c, Hash[p], e) /\ e.path = p /\ y = ListedEntry(q, e.data, t)
               /\ ~ RenameOntoCached => Unlisted(d, p)
<1> DEFINE v == Evicted(c, t)
           d == FileRenamed(c, p, q, t)
<1>1. CacheInv(D, v, None) /\ ListsNoMore(v, c)
  BY EvictedAdds
<1>2. /\ CacheInv(D, d, None) /\ MovesAtMost(d, v, p, q, t)
      /\ ~ RenameOntoCached => (d = v /\ Unlisted(v, p)) \/ ListsMoved(D, d, v, p, q, t)
  BY FileRenamedGives
<1> HIDE DEF v, d
<1>3. Hash[p] \in HashVal
  BY FileCacheAssumption
<1>4. \A h \in HashVal : \A y : Listed(d, h, y) =>
            \/ Listed(c, h, y)
            \/ \E e : Listed(c, Hash[p], e) /\ e.path = p /\ y = ListedEntry(q, e.data, t)
  BY <1>1, <1>2, <1>3 DEF MovesAtMost, ListsNoMore
<1>5. ASSUME ~ RenameOntoCached PROVE Unlisted(d, p)
  <2>1. CASE d = v /\ Unlisted(v, p)
    BY <2>1
  <2>2. CASE ListsMoved(D, d, v, p, q, t)
    BY <2>2 DEF ListsMoved, Unlisted, ListedEntry
  <2> QED BY <1>2, <1>5, <2>1, <2>2
<1> QED BY <1>2, <1>4, <1>5 DEF d
-----------------------------------------------------------------------------
(* The server *)

Kinds == {"none", "file", "dir", "link"}

\* Every path has at least one version.
HistInv ==
    /\ hist \in [UserPath -> Seq([at : 0 .. MaxTime, kind : Kinds])]
    /\ \A p \in UserPath : Ver(p) \in 1 .. MaxVer

\* What exists is in a directory.
TreeInv == \A p \in UserPath \ {Root} : KindOf(p) # "none" => KindOf(Parent(p)) = "dir"

\* A step only adds versions, and what it adds begins now.
Extends ==
    \A p \in UserPath :
        \/ hist'[p] = hist[p]
        \/ /\ Ver(p)' = Ver(p) + 1 /\ hist'[p][Ver(p) + 1].at = now
           /\ \A i \in 1 .. Ver(p) : hist'[p][i] = hist[p][i]

\* The paths in the domain of ks have a new version.
Grows(ks) ==
    \A p \in UserPath :
        IF p \in DOMAIN ks \ {Root}
          THEN Ver(p)' = Ver(p) + 1 /\ KindOf(p)' = ks[p]
          ELSE hist'[p] = hist[p] /\ Ver(p)' = Ver(p) /\ KindOf(p)' = KindOf(p)

LEMMA KindIs ==
    ASSUME HistInv
    PROVE  \A p \in UserPath : KindOf(p) \in Kinds /\ KindOf(p) = hist[p][Ver(p)].kind
                                /\ Value(p) \in StatData /\ Former(p) \in StatData
<1>1. ASSUME NEW p \in UserPath
      PROVE  /\ KindOf(p) \in Kinds /\ KindOf(p) = hist[p][Ver(p)].kind
             /\ Value(p) \in StatData /\ Former(p) \in StatData
  <2>1. hist[p] \in Seq([at : 0 .. MaxTime, kind : Kinds]) /\ Len(hist[p]) \in 1 .. MaxVer
    BY DEF HistInv, Ver
  <2>2. Len(hist[p]) \in 1 .. Len(hist[p])
    BY <2>1, LenProperties
  <2>3. hist[p][Len(hist[p])] \in [at : 0 .. MaxTime, kind : Kinds]
    BY <2>1, <2>2, ElementOfSeq
  <2>4. KindOf(p) = hist[p][Len(hist[p])].kind
    BY DEF KindOf, Last
  <2>5. Value(p) \in StatData /\ Former(p) \in StatData
    BY <2>1, CachedAssumption DEF Value, Former, Version, StatData, Ver
  <2> QED BY <2>3, <2>4, <2>5 DEF Ver
<1> QED BY <1>1

LEMMA ServeGives ==
    ASSUME HistInv, now \in 0 .. MaxTime, NEW ks, Serve(ks),
           \A p \in UserPath : p \in DOMAIN ks => ks[p] \in Kinds
    PROVE  HistInv' /\ Extends /\ Grows(ks)
<1> DEFINE V == [at : 0 .. MaxTime, kind : Kinds]
<1>1. hist' = [p \in UserPath |-> IF p \in DOMAIN ks \ {Root}
                               THEN Append(hist[p], [at |-> now, kind |-> ks[p]])
                               ELSE hist[p]]
  BY DEF Serve
<1>2. ASSUME NEW p \in UserPath
      PROVE  /\ hist'[p] \in Seq(V) /\ Ver(p)' \in 1 .. MaxVer
             /\ \/ hist'[p] = hist[p]
                \/ /\ Ver(p)' = Ver(p) + 1 /\ hist'[p][Ver(p) + 1].at = now
                   /\ \A i \in 1 .. Ver(p) : hist'[p][i] = hist[p][i]
             /\ IF p \in DOMAIN ks \ {Root}
                  THEN Ver(p)' = Ver(p) + 1 /\ KindOf(p)' = ks[p]
                  ELSE hist'[p] = hist[p] /\ Ver(p)' = Ver(p) /\ KindOf(p)' = KindOf(p)
  <2>1. hist[p] \in Seq(V) /\ Ver(p) \in 1 .. MaxVer
    BY DEF HistInv
  <2>2. CASE p \notin DOMAIN ks \ {Root}
    <3>1. hist'[p] = hist[p]
      BY <1>1, <2>2
    <3> QED BY <2>1, <2>2, <3>1 DEF Ver, KindOf
  <2>3. CASE p \in DOMAIN ks \ {Root}
    <3> DEFINE e == [at |-> now, kind |-> ks[p]]
               s == hist[p]
               t == Append(s, e)
    <3>1. hist'[p] = t
      BY <1>1, <2>3
    <3>2. ks[p] \in Kinds
      BY <2>3
    <3>3. e \in V /\ e.at = now /\ e.kind = ks[p]
      BY <3>2
    <3>4. s \in Seq(V) /\ Len(s) \in 1 .. MaxVer /\ Len(s) < MaxVer
      BY <2>1, <2>3 DEF Ver, Serve
    <3> HIDE DEF e, V, s
    <3>5. /\ t \in Seq(V) /\ Len(t) = Len(s) + 1 /\ t[Len(s) + 1] = e
          /\ \A i \in 1 .. Len(s) : t[i] = s[i]
      BY <3>3, <3>4, AppendProperties
    <3> HIDE DEF t
    <3>6. Ver(p)' = Len(t) /\ Ver(p) = Len(s)
      BY <3>1 DEF Ver, s
    <3>7. KindOf(p)' = t[Len(t)].kind
      BY <3>1 DEF KindOf, Last
    <3>8. KindOf(p)' = ks[p]
      BY <3>3, <3>5, <3>7
    <3>9. Ver(p)' = Ver(p) + 1 /\ Ver(p)' \in 1 .. MaxVer
      BY <3>4, <3>5, <3>6, CachedAssumption
    <3>10. hist'[p][Ver(p) + 1].at = now /\ \A i \in 1 .. Ver(p) : hist'[p][i] = hist[p][i]
      BY <3>1, <3>3, <3>5, <3>6 DEF s
    <3> QED BY <2>3, <3>1, <3>5, <3>8, <3>9, <3>10
  <2> QED BY <2>2, <2>3
<1>3. HistInv'
  <2>1. hist' = [p \in UserPath |-> hist'[p]]
    BY <1>1
  <2>2. hist' \in [UserPath -> Seq(V)]
    BY <1>2, <2>1
  <2> QED BY <1>2, <2>2 DEF HistInv
<1>4. Extends
  BY <1>2 DEF Extends
<1>5. Grows(ks)
  BY <1>2 DEF Grows
<1> QED BY <1>3, <1>4, <1>5

\* The kinds of objects change at the paths in S only.
KindsKept(S) == \A x \in UserPath \ S : KindOf(x)' = KindOf(x)

\* The paths in S have a new version, and others may.
Renews(S) == \A p \in UserPath \ {Root} : p \in S => Ver(p)' = Ver(p) + 1

\* A step of the server's.
Serves == HistInv' /\ TreeInv' /\ Extends

\* Attributes are set, or a file is written.
LEMMA SetstatGives ==
    ASSUME HistInv, TreeInv, now \in 0 .. MaxTime, NEW S, S \subseteq UserPath,
           NEW ks \in [S -> Kinds], Serve(ks), \A p \in S : ks[p] = KindOf(p)
    PROVE  Serves /\ KindsKept({}) /\ Renews(S)
<1>1. HistInv' /\ Extends /\ Grows(ks)
  BY ServeGives
<1>2. KindsKept({}) /\ Renews(S)
  BY <1>1 DEF Grows, KindsKept, Renews
<1>3. TreeInv'
  BY <1>2, PathIs DEF TreeInv, KindsKept
<1> QED BY <1>1, <1>2, <1>3 DEF Serves

\* An entry of a directory becomes k.
LEMMA EntryGives ==
    ASSUME HistInv, TreeInv, now \in 0 .. MaxTime, NEW p \in UserPath, NEW k \in Kinds,
           ServeEntry(p, k), KindOf(Parent(p)) = "dir" \/ p = Root,
           k = "dir" \/ Empty(p)
    PROVE  /\ Serves /\ Renews({p})
           /\ IF p = Root THEN KindsKept({}) ELSE KindOf(p)' = k /\ KindsKept({p})
<1> DEFINE ks == [x \in {p, Parent(p)} |-> IF x = p THEN k ELSE "dir"]
<1>1. HistInv' /\ Extends /\ Grows(ks)
  <2>1. Serve(ks) /\ \A x \in UserPath : x \in DOMAIN ks => ks[x] \in Kinds
    BY DEF ServeEntry, Kinds
  <2> HIDE DEF ks
  <2> QED BY <2>1, ServeGives
<1>2. p = Root => Parent(p) = Root
  BY ParentOfRoot
<1>3. p # Root => KindOf(p)' = k /\ KindsKept({p})
  BY <1>1, PathIs DEF Grows, KindsKept
<1>4. p = Root => KindsKept({})
  BY <1>1, <1>2 DEF Grows, KindsKept
<1>5. Renews({p})
  BY <1>1 DEF Grows, Renews
<1>6. ASSUME NEW x \in UserPath \ {Root}, KindOf(x)' # "none" PROVE KindOf(Parent(x))' = "dir"
  <2>1. Parent(x) \in UserPath /\ Parent(x) # x
    BY PathIs
  <2>2. CASE p = Root
    BY <1>4, <1>6, <2>1, <2>2 DEF KindsKept, TreeInv
  <2>3. CASE p # Root /\ x = p
    BY <1>3, <2>1, <2>3 DEF KindsKept
  <2>4. CASE p # Root /\ x # p /\ Parent(x) # p
    BY <1>3, <1>6, <2>1, <2>4 DEF KindsKept, TreeInv
  <2>5. CASE p # Root /\ x # p /\ Parent(x) = p
    <3>1. KindOf(x) # "none" /\ x \in Children(p)
      BY <1>3, <1>6, <2>5 DEF KindsKept, Children
    <3>2. ~ Empty(p)
      BY <3>1 DEF Empty
    <3> QED BY <1>3, <2>5, <3>2
  <2> QED BY <2>2, <2>3, <2>4, <2>5
<1>7. TreeInv'
  BY <1>6 DEF TreeInv
<1> QED BY <1>1, <1>3, <1>4, <1>5, <1>7 DEF Serves
-----------------------------------------------------------------------------
(* What the helpers of cached.c put into the caches *)

\* The attributes that a call made now may store: the present ones of what is
\* there, with a plain readdir the zeroed structure, and those of a file that is
\* open and once had the path.  What is stored for the root, and for what was sent
\* before a handle was read again, may be anything.
FreshAttrs ==
    {e \in EntryOf(StatData) :
        /\ e.mod_time = now
        /\ e.path # Root =>
            \/ "rewind" \in Ops
            \/ /\ e.data = Former(e.path) /\ e.path \in UserPath
               /\ \E h \in orphans : open[h] = e.path
            \/ /\ KindOf(Canon(e.path)) # "none"
               /\ (e.data = Value(Canon(e.path)) \/ (e.data = Zero /\ "readdir" \in Ops))}

\* An entry just given back.
LEMMA ListedEntryIs ==
    ASSUME NEW D, NEW k \in Path, NEW v \in D, NEW t \in 0 .. MaxTime
    PROVE  /\ ListedEntry(k, v, t) \in EntryOf(D) /\ ListedEntry(k, v, t).path = k
           /\ ListedEntry(k, v, t).data = v /\ ListedEntry(k, v, t).mod_time = t
  BY DEF ListedEntry, EntryOf, Status

LEMMA LookedAttrGives ==
    ASSUME StrEqDecides, now \in 0 .. MaxTime, NEW c, CacheInv(StatData, c, None),
           NEW k \in Path, NEW v \in StatData \cup {None}, NEW grow \in BOOLEAN
    PROVE  LET d == LookedAttr(c, k, v, grow)
           IN  CacheInv(StatData, d, None) /\ Adds(d, c, Entered(k, v))
<1> DEFINE d == LookedAttr(c, k, v, grow)
<1>1. CASE GetAttr(c, k) # None \/ v = None
  <2>1. d = Evicted(c, now)
    BY <1>1 DEF LookedAttr
  <2>2. CacheInv(StatData, Evicted(c, now), None) /\ ListsNoMore(Evicted(c, now), c)
    BY EvictedAdds
  <2> QED BY <2>1, <2>2 DEF Adds, ListsNoMore
<1>2. CASE ~ (GetAttr(c, k) # None \/ v = None)
  <2>1. d = FileGiven(FileTaken(c, k, now, grow), k, v, now)
    BY <1>2 DEF LookedAttr, PutAttr
  <2>2. v \in StatData
    BY <1>2
  <2>3. CacheInv(StatData, d, None) /\ Adds(d, c, {ListedEntry(k, v, now)})
    BY <2>1, <2>2, PutGives
  <2>4. Entered(k, v) = {ListedEntry(k, v, now)}
    BY <1>2 DEF Entered
  <2> QED BY <2>3, <2>4
<1> QED BY <1>1, <1>2

LEMMA LookedSymlinkGives ==
    ASSUME StrEqDecides, now \in 0 .. MaxTime, NEW c, CacheInv(StatData, c, None),
           NEW k \in Path, NEW v \in StatData \cup {None}, NEW grow \in BOOLEAN, NEW stored \in BOOLEAN
    PROVE  LET d == LookedSymlink(c, k, v, grow, stored)
           IN  CacheInv(StatData, d, None) /\ Adds(d, c, Entered(k, v))
<1> DEFINE d == LookedSymlink(c, k, v, grow, stored)
<1>1. CASE GetSymlink(c, k) # None \/ v = None
  <2>1. d = Evicted(c, now)
    BY <1>1 DEF LookedSymlink
  <2>2. CacheInv(StatData, Evicted(c, now), None) /\ ListsNoMore(Evicted(c, now), c)
    BY EvictedAdds
  <2> QED BY <2>1, <2>2 DEF Adds, ListsNoMore
<1>2. CASE ~ (GetSymlink(c, k) # None \/ v = None) /\ stored
  <2>1. d = FileGiven(FileTaken(c, k, now, grow), k, v, now)
    BY <1>2 DEF LookedSymlink, PutSymlink
  <2>2. v \in StatData
    BY <1>2
  <2>3. CacheInv(StatData, d, None) /\ Adds(d, c, {ListedEntry(k, v, now)})
    BY <2>1, <2>2, PutGives
  <2>4. Entered(k, v) = {ListedEntry(k, v, now)}
    BY <1>2 DEF Entered
  <2> QED BY <2>3, <2>4
<1>3. CASE ~ (GetSymlink(c, k) # None \/ v = None) /\ ~ stored
  <2>1. d = FileDropped(FileTaken(c, k, now, grow), k, now)
    BY <1>3 DEF LookedSymlink, PutSymlink
  <2>2. CacheInv(StatData, d, None) /\ Adds(d, c, {})
    BY <2>1, PutDropped
  <2> QED BY <2>2 DEF Adds
<1> QED BY <1>1, <1>2, <1>3

\* sftfs_cached_getattr() stores present attributes, and those of the file behind
\* the handle it is given.
LEMMA GetattrGives ==
    ASSUME StrEqDecides, HistInv, now \in 0 .. MaxTime, NEW c, CacheInv(StatData, c, None),
           NEW k \in Path, NEW grow \in BOOLEAN, NEW h,
           h \in orphans => open[h] = k /\ Canon(k) = k
    PROVE  LET d == LookedAttr(c, k, SftpGetattr(Canon(k), h), grow)
           IN  CacheInv(StatData, d, None) /\ Adds(d, c, FreshAttrs)
<1> DEFINE r == Canon(k)
           v == SftpGetattr(r, h)
           d == LookedAttr(c, k, v, grow)
<1>1. r \in UserPath
  BY KeyIs
<1>2. v = IF h \in orphans THEN Former(r) ELSE IF KindOf(r) = "none" THEN None ELSE Value(r)
  BY DEF SftpGetattr
<1>3. Value(r) \in StatData /\ Former(r) \in StatData
  BY <1>1, KindIs
<1> HIDE DEF v
<1>4. CacheInv(StatData, d, None) /\ Adds(d, c, Entered(k, v))
  BY <1>2, <1>3, LookedAttrGives
<1> HIDE DEF d
<1>5. Entered(k, v) \subseteq FreshAttrs
  <2> SUFFICES ASSUME v # None PROVE ListedEntry(k, v, now) \in FreshAttrs
    BY DEF Entered
  <2>1. /\ v \in StatData
        /\ \/ v = Value(r) /\ KindOf(r) # "none"
           \/ v = Former(k) /\ h \in orphans /\ open[h] = k /\ k \in UserPath
    BY <1>1, <1>2, <1>3
  <2> QED BY <2>1, ListedEntryIs DEF FreshAttrs
<1> QED BY <1>4, <1>5 DEF Adds, d, v

\* The function that FetchWithAttr defines.
FetchFrom(c, p, names, grow) ==
    CHOOSE f : f = [n \in 0 .. Len(names) |->
                        IF n = 0 THEN [attr |-> c, success |-> TRUE]
                        ELSE FetchEntry(f[n - 1], p, names[n], grow)]

\* There is such a function.
LEMMA FetchUpTo ==
    ASSUME NEW c, NEW p, NEW names, Len(names) \in Nat, NEW grow
    PROVE  LET f == FetchFrom(c, p, names, grow)
           IN  /\ f[0] = [attr |-> c, success |-> TRUE]
               /\ \A n \in 1 .. Len(names) : f[n] = FetchEntry(f[n - 1], p, names[n], grow)
<1> DEFINE a0 == [attr |-> c, success |-> TRUE]
           To(m, f) == f = [n \in 0 .. m |->
                            IF n = 0 THEN a0 ELSE FetchEntry(f[n - 1], p, names[n], grow)]
           P == {m \in Nat : \E f : To(m, f)}
<1> HIDE DEF a0
<1>0. Len(names) \in Nat
  OBVIOUS
<1>1. 0 \in P
  <2> DEFINE f == [n \in 0 .. 0 |-> a0]
  <2>1. To(0, f)
    OBVIOUS
  <2> QED BY <2>1
<1>2. ASSUME NEW m \in 0 .. Len(names) - 1, m \in P
      PROVE  m + 1 \in P
  <2>1. m \in Nat /\ m + 1 \in Nat
    BY <1>0
  <2>2. PICK f : To(m, f)
    BY <1>2
  <2> DEFINE last == FetchEntry(f[m], p, names[m + 1], grow)
             g == [n \in 0 .. m + 1 |-> IF n = m + 1 THEN last ELSE f[n]]
  <2>3. ASSUME NEW n \in 0 .. m + 1, n # 0
        PROVE  g[n] = FetchEntry(g[n - 1], p, names[n], grow)
    <3>1. n - 1 \in 0 .. m /\ n - 1 # m + 1 /\ n - 1 \in 0 .. m + 1
      BY <2>1, <2>3
    <3>2. g[n - 1] = f[n - 1]
      BY <3>1
    <3>3. CASE n = m + 1
      <4>1. n - 1 = m
        BY <2>1, <3>3
      <4> QED BY <3>2, <3>3, <4>1
    <3>4. CASE n # m + 1
      <4>1. n \in 0 .. m /\ g[n] = f[n]
        BY <2>1, <3>4
      <4>2. f[n] = FetchEntry(f[n - 1], p, names[n], grow)
        BY <2>2, <2>3, <4>1
      <4> QED BY <3>2, <4>1, <4>2
    <3> QED BY <3>3, <3>4
  <2>4. g[0] = a0
    <3>1. 0 \in 0 .. m + 1 /\ 0 \in 0 .. m /\ 0 # m + 1
      BY <2>1
    <3>2. f[0] = a0
      BY <2>2, <3>1
    <3> QED BY <3>1, <3>2
  <2> HIDE DEF g
  <2>5. g = [n \in 0 .. m + 1 |-> g[n]]
    BY DEF g
  <2>6. \A n \in 0 .. m + 1 :
            g[n] = IF n = 0 THEN a0 ELSE FetchEntry(g[n - 1], p, names[n], grow)
    BY <2>3, <2>4
  <2>7. To(m + 1, g)
    BY <2>5, <2>6
  <2> QED BY <2>1, <2>7
<1> HIDE DEF P
<1>3. \A n \in 0 .. Len(names) : n \in P
  BY <1>0, <1>1, <1>2, UpTo
<1>4. Len(names) \in P
  BY <1>0, <1>3
<1> DEFINE h == FetchFrom(c, p, names, grow)
<1>5. h = [n \in 0 .. Len(names) |-> IF n = 0 THEN a0 ELSE FetchEntry(h[n - 1], p, names[n], grow)]
  BY <1>4 DEF P, FetchFrom, a0
<1> HIDE DEF h
<1>6. h[0] = a0 /\ \A n \in 1 .. Len(names) : h[n] = FetchEntry(h[n - 1], p, names[n], grow)
  BY <1>0, <1>5
<1> QED BY <1>6 DEF h, a0

\* A listing answered from the cache with attributes stores present ones only.
LEMMA FetchGives ==
    ASSUME StrEqDecides, HistInv, now \in 0 .. MaxTime, NEW c, CacheInv(StatData, c, None),
           NEW p \in UserPath, NEW names \in Seq(EntryNames(p)), NEW grow \in BOOLEAN,
           None \notin orphans
    PROVE  LET d == FetchWithAttr(c, p, names, grow).attr
           IN  CacheInv(StatData, d, None) /\ Adds(d, c, FreshAttrs)
<1> DEFINE upto == FetchFrom(c, p, names, grow)
           N == Len(names)
           P == {n \in 0 .. N : CacheInv(StatData, upto[n].attr, None)
                                /\ Adds(upto[n].attr, c, FreshAttrs)}
<1>3. N \in Nat
  BY LenProperties
<1>1. /\ upto[0] = [attr |-> c, success |-> TRUE]
      /\ \A n \in 1 .. N : upto[n] = FetchEntry(upto[n - 1], p, names[n], grow)
  <2> HIDE DEF P
  <2> QED BY <1>3, FetchUpTo
<1>2. FetchWithAttr(c, p, names, grow) = upto[N]
  BY DEF FetchWithAttr, FetchFrom
<1> HIDE DEF upto
<1>4. 0 \in P
  <2>1. 0 \in 0 .. N /\ upto[0] = [attr |-> c, success |-> TRUE]
    BY <1>1, <1>3
  <2>2. Adds(c, c, FreshAttrs)
    BY DEF Adds
  <2> QED BY <2>1, <2>2
<1>5. ASSUME NEW n \in 0 .. N - 1, n \in P PROVE n + 1 \in P
  <2> DEFINE m == n + 1
             a == upto[n]
             k == PushEntry(p, names[m])
  <2>1. m \in 0 .. N /\ m # 0 /\ m - 1 = n /\ m \in 1 .. N
    BY <1>3
  <2>2. upto[m] = FetchEntry(a, p, names[m], grow)
    BY <1>1, <2>1
  <2>3. names[m] \in EntryNames(p)
    BY <2>1, ElementOfSeq
  <2>4. k \in Path
    BY <2>3, KeyIs
  <2>5. CacheInv(StatData, a.attr, None) /\ Adds(a.attr, c, FreshAttrs)
    BY <1>5
  <2> HIDE DEF m, a
  <2>6. CASE ~ a.success
    <3>1. upto[m] = a
      BY <2>2, <2>6 DEF FetchEntry
    <3> QED BY <2>1, <2>5, <3>1 DEF m
  <2>7. CASE a.success
    <3> DEFINE d == LookedAttr(a.attr, k, SftpGetattr(Canon(k), None), grow)
    <3>1. upto[m].attr = d
      BY <2>2, <2>7 DEF FetchEntry
    <3> HIDE DEF k
    <3>2. CacheInv(StatData, d, None) /\ Adds(d, a.attr, FreshAttrs)
      BY <2>4, <2>5, GetattrGives
    <3> HIDE DEF d
    <3>3. Adds(d, c, FreshAttrs)
      BY <2>5, <3>2 DEF Adds
    <3> QED BY <2>1, <3>1, <3>2, <3>3 DEF m
  <2> QED BY <2>6, <2>7
<1>6. N \in P
  <2> HIDE DEF P, N
  <2>1. \A n \in 0 .. N : n \in P
    BY <1>3, <1>4, <1>5, UpTo
  <2> QED BY <1>3, <2>1
<1> QED BY <1>2, <1>6
\* An entry of CalleeAttrs.
CalleeEntry(a, p, e, plus, grow) ==
    PutAttr(a, PushEntry(p, e.name), IF plus THEN e.stat ELSE Zero, grow)

\* The function that CalleeAttrs defines.
CalleeFrom(c, p, entries, plus, grow) ==
    CHOOSE f : f = [n \in 0 .. Len(entries) |->
                        IF n = 0 THEN c
                        ELSE CalleeEntry(f[n - 1], p, entries[n], plus, grow)]

\* There is such a function.
LEMMA CalleeUpTo ==
    ASSUME NEW c, NEW p, NEW entries, Len(entries) \in Nat, NEW plus, NEW grow
    PROVE  LET f == CalleeFrom(c, p, entries, plus, grow)
           IN  /\ f[0] = c
               /\ \A n \in 1 .. Len(entries) :
                    f[n] = CalleeEntry(f[n - 1], p, entries[n], plus, grow)
<1> DEFINE To(m, f) == f = [n \in 0 .. m |->
                            IF n = 0 THEN c ELSE CalleeEntry(f[n - 1], p, entries[n], plus, grow)]
           P == {m \in Nat : \E f : To(m, f)}
<1>0. Len(entries) \in Nat
  OBVIOUS
<1>1. 0 \in P
  <2> DEFINE f == [n \in 0 .. 0 |-> c]
  <2>1. To(0, f)
    OBVIOUS
  <2> QED BY <2>1
<1>2. ASSUME NEW m \in 0 .. Len(entries) - 1, m \in P
      PROVE  m + 1 \in P
  <2>1. m \in Nat /\ m + 1 \in Nat
    BY <1>0
  <2>2. PICK f : To(m, f)
    BY <1>2
  <2> DEFINE last == CalleeEntry(f[m], p, entries[m + 1], plus, grow)
             g == [n \in 0 .. m + 1 |-> IF n = m + 1 THEN last ELSE f[n]]
  <2>3. ASSUME NEW n \in 0 .. m + 1, n # 0
        PROVE  g[n] = CalleeEntry(g[n - 1], p, entries[n], plus, grow)
    <3>1. n - 1 \in 0 .. m /\ n - 1 # m + 1 /\ n - 1 \in 0 .. m + 1
      BY <2>1, <2>3
    <3>2. g[n - 1] = f[n - 1]
      BY <3>1
    <3>3. CASE n = m + 1
      <4>1. n - 1 = m
        BY <2>1, <3>3
      <4> QED BY <3>2, <3>3, <4>1
    <3>4. CASE n # m + 1
      <4>1. n \in 0 .. m /\ g[n] = f[n]
        BY <2>1, <3>4
      <4>2. f[n] = CalleeEntry(f[n - 1], p, entries[n], plus, grow)
        BY <2>2, <2>3, <4>1
      <4> QED BY <3>2, <4>1, <4>2
    <3> QED BY <3>3, <3>4
  <2>4. g[0] = c
    <3>1. 0 \in 0 .. m + 1 /\ 0 \in 0 .. m /\ 0 # m + 1
      BY <2>1
    <3>2. f[0] = c
      BY <2>2, <3>1
    <3> QED BY <3>1, <3>2
  <2> HIDE DEF g
  <2>5. g = [n \in 0 .. m + 1 |-> g[n]]
    BY DEF g
  <2>6. \A n \in 0 .. m + 1 :
            g[n] = IF n = 0 THEN c ELSE CalleeEntry(g[n - 1], p, entries[n], plus, grow)
    BY <2>3, <2>4
  <2>7. To(m + 1, g)
    BY <2>5, <2>6
  <2> QED BY <2>1, <2>7
<1> HIDE DEF P
<1>3. \A n \in 0 .. Len(entries) : n \in P
  BY <1>0, <1>1, <1>2, UpTo
<1>4. Len(entries) \in P
  BY <1>0, <1>3
<1> DEFINE h == CalleeFrom(c, p, entries, plus, grow)
<1>5. h = [n \in 0 .. Len(entries) |->
                IF n = 0 THEN c ELSE CalleeEntry(h[n - 1], p, entries[n], plus, grow)]
  BY <1>4 DEF P, CalleeFrom
<1> HIDE DEF h
<1>6. /\ h[0] = c
      /\ \A n \in 1 .. Len(entries) : h[n] = CalleeEntry(h[n - 1], p, entries[n], plus, grow)
  BY <1>0, <1>5
<1> QED BY <1>6 DEF h

\* The entries of a listing of p.
EntryRecords(p) == [name : EntryNames(p), stat : StatData]

\* What is stored for the entry e of a listing of p would be fresh.
Storable(p, e) ==
    \/ p = Root /\ e.name = DotDot
    \/ LET r == Canon(PushEntry(p, e.name)) IN KindOf(r) # "none" /\ e.stat = Value(r)
    \/ "rewind" \in Ops

\* cached_readdir_callee() stores fresh attributes.
LEMMA CalleeGives ==
    ASSUME StrEqDecides, HistInv, now \in 0 .. MaxTime, NEW c, CacheInv(StatData, c, None),
           NEW p \in UserPath, NEW entries \in Seq(EntryRecords(p)), NEW grow \in BOOLEAN,
           NEW plus \in BOOLEAN, plus \/ "readdir" \in Ops,
           \A i \in 1 .. Len(entries) : Storable(p, entries[i])
    PROVE  LET d == CalleeAttrs(c, p, entries, plus, grow)
           IN  CacheInv(StatData, d, None) /\ Adds(d, c, FreshAttrs)
<1> DEFINE upto == CalleeFrom(c, p, entries, plus, grow)
           N == Len(entries)
           P == {n \in 0 .. N : CacheInv(StatData, upto[n], None)
                                /\ Adds(upto[n], c, FreshAttrs)}
<1>3. N \in Nat
  BY LenProperties
<1>1. upto[0] = c /\ \A n \in 1 .. N : upto[n] = CalleeEntry(upto[n - 1], p, entries[n], plus, grow)
  <2> HIDE DEF P
  <2> QED BY <1>3, CalleeUpTo
<1>2. CalleeAttrs(c, p, entries, plus, grow) = upto[N]
  BY DEF CalleeAttrs, CalleeFrom, CalleeEntry
<1> HIDE DEF upto
<1>4. 0 \in P
  <2>1. 0 \in 0 .. N /\ upto[0] = c
    BY <1>1, <1>3
  <2>2. Adds(c, c, FreshAttrs)
    BY DEF Adds
  <2> QED BY <2>1, <2>2
<1>5. ASSUME NEW n \in 0 .. N - 1, n \in P PROVE n + 1 \in P
  <2> DEFINE m == n + 1
             a == upto[n]
             name == entries[m].name
             stat == entries[m].stat
             k == PushEntry(p, name)
             v == IF plus THEN stat ELSE Zero
             d == FileGiven(FileTaken(a, k, now, grow), k, v, now)
  <2>1. m \in 0 .. N /\ m # 0 /\ m - 1 = n /\ m \in 1 .. N
    BY <1>3
  <2>2. upto[m] = d
    BY <1>1, <2>1 DEF CalleeEntry, PutAttr
  <2>3. name \in EntryNames(p) /\ stat \in StatData /\ Storable(p, entries[m])
    <3>1. entries[m] \in EntryRecords(p)
      <4> HIDE DEF m, d
      <4> QED BY <2>1, ElementOfSeq
    <3>2. Storable(p, entries[m])
      <4> HIDE DEF m, d
      <4> QED BY <2>1
    <3> QED BY <3>1, <3>2 DEF EntryRecords
  <2>4. k \in Path
    BY <2>3, KeyIs
  <2>5. CacheInv(StatData, a, None) /\ Adds(a, c, FreshAttrs)
    BY <1>5
  <2>6. p = Root /\ name = DotDot => k = Root
    BY ParentOfRoot DEF Parent
  <2>7. Storable(p, entries[m]) <=>
            \/ p = Root /\ name = DotDot
            \/ KindOf(Canon(k)) # "none" /\ stat = Value(Canon(k))
            \/ "rewind" \in Ops
    BY DEF Storable
  <2> HIDE DEF m, a, name, stat, k
  <2>8. v \in StatData
    BY <2>3 DEF StatData
  <2> HIDE DEF v
  <2>9. CacheInv(StatData, d, None) /\ Adds(d, a, {ListedEntry(k, v, now)})
    BY <2>4, <2>5, <2>8, PutGives
  <2>10. ListedEntry(k, v, now) \in FreshAttrs
    <3> DEFINE e == ListedEntry(k, v, now)
    <3>1. e \in EntryOf(StatData) /\ e.path = k /\ e.data = v /\ e.mod_time = now
      BY <2>4, <2>8, ListedEntryIs
    <3>2. k # Root => \/ "rewind" \in Ops
                     \/ /\ KindOf(Canon(k)) # "none"
                        /\ v = Value(Canon(k)) \/ (v = Zero /\ "readdir" \in Ops)
      BY <2>3, <2>6, <2>7 DEF v
    <3> HIDE DEF e
    <3> QED BY <3>1, <3>2 DEF FreshAttrs, e
  <2> HIDE DEF d
  <2>11. Adds(d, c, FreshAttrs)
    BY <2>5, <2>9, <2>10 DEF Adds
  <2> QED BY <2>1, <2>2, <2>9, <2>11 DEF m
<1>6. N \in P
  <2> HIDE DEF P, N
  <2>1. \A n \in 0 .. N : n \in P
    BY <1>3, <1>4, <1>5, UpTo
  <2> QED BY <1>3, <2>1
<1> QED BY <1>2, <1>6

\* What is listed of a directory are names of its entries.
ListsNames(c) ==
    \A h \in HashVal : \A e : Listed(c, h, e) =>
        e.path \in UserPath /\ e.data \in Seq(EntryNames(e.path))

LEMMA EntryNamesAre ==
    \A p \in UserPath : EntryNames(p) \subseteq Names /\ Seq(EntryNames(p)) \subseteq Seq(Names)
<1>1. ASSUME NEW p \in UserPath
      PROVE  EntryNames(p) \subseteq Names /\ Seq(EntryNames(p)) \subseteq Seq(Names)
  <2>1. EntryNames(p) \subseteq Names
    BY DEF EntryNames, Names, Children
  <2>2. Seq(EntryNames(p)) \subseteq Seq(Names)
    BY <2>1, SeqMonotonic
  <2> QED BY <2>1, <2>2
<1> QED BY <1>1

\* A listing of p is one of q if q has the names of p.
LEMMA NamesMonotonic ==
    ASSUME NEW p, NEW q, EntryNames(p) \subseteq EntryNames(q)
    PROVE  /\ Seq(EntryNames(p)) \subseteq Seq(EntryNames(q))
           /\ Seq(EntryRecords(p)) \subseteq Seq(EntryRecords(q))
<1>1. EntryRecords(p) \subseteq EntryRecords(q)
  BY DEF EntryRecords
<1> QED BY <1>1, SeqMonotonic

\* sftfs_cached_setup_dir_caching(): what is held is the listing as it was, or
\* an empty one.
LEMMA SetupGives ==
    ASSUME StrEqDecides, now \in 0 .. MaxTime, NEW c, CacheInv(Seq(Names), c, None), ListsNames(c),
           NEW p \in UserPath, NEW grow \in BOOLEAN
    PROVE  LET s == Setup(c, p, grow)
           IN  /\ CacheInv(Seq(Names), s.cache, p) /\ ListsNoMore(s.cache, c)
               /\ s.dir \in Seq(EntryNames(p))
<1> DEFINE e == Evicted(c, now)
           w == FileTaken(c, p, now, grow)
           x == w[Hash[p]][HeldAt(w, p)].data
           s == Setup(c, p, grow)
<1>0. p \in Path
  BY KeyIs
<1>1. CacheInv(Seq(Names), e, None) /\ ListsNoMore(e, c)
  BY EvictedAdds
<1>2. CacheInv(Seq(Names), w, p) /\ ListsNoMore(w, e)
  BY <1>0, FileTakenGives
<1>3. x = None \/ ListedFor(x, e, p)
  BY <1>0, FileTakenHas
<1>4. s.cache = w /\ s.dir = IF x = None THEN <<>> ELSE x
  BY DEF Setup, TakeDir
<1> HIDE DEF e, w, x, s
<1>5. ListsNoMore(w, c)
  BY <1>1, <1>2 DEF ListsNoMore
<1>6. Hash[p] \in HashVal
  BY <1>0, FileCacheAssumption
<1>7. x # None => x \in Seq(EntryNames(p))
  BY <1>1, <1>3, <1>6 DEF ListedFor, ListsNoMore, ListsNames
<1>8. s.dir \in Seq(EntryNames(p))
  BY <1>4, <1>7, EmptySeq
<1> QED BY <1>2, <1>4, <1>5, <1>8 DEF s

\* sftfs_cached_teardown_dir_caching().
LEMMA SettledGives ==
    ASSUME now \in 0 .. MaxTime, NEW c, NEW p \in UserPath, CacheInv(Seq(Names), c, p),
           NEW data \in Seq(EntryNames(p)), NEW outcome
    PROVE  LET d == Settled(c, p, data, outcome)
           IN  /\ CacheInv(Seq(Names), d, None)
               /\ Adds(d, c, IF outcome = "nomem" THEN {} ELSE {ListedEntry(p, data, now)})
<1> DEFINE d == Settled(c, p, data, outcome)
<1>0. p \in Path /\ data \in Seq(Names)
  BY KeyIs, EntryNamesAre
<1>1. CASE outcome = "nomem"
  <2>1. d = FileDropped(c, p, now)
    BY <1>1 DEF Settled
  <2>2. CacheInv(Seq(Names), d, None) /\ \E u : SameLists(u, c) /\ HoldsUnexpired(d, u, now)
    BY <1>0, <2>1, FileDroppedGives
  <2>3. Adds(d, c, {})
    BY <2>2 DEF Adds, SameLists, HoldsUnexpired, Listed
  <2> QED BY <1>1, <2>2, <2>3
<1>2. CASE outcome # "nomem"
  <2> DEFINE u == Evicted(c, now)
  <2>1. d = FileGiven(c, p, data, now)
    BY <1>2 DEF Settled
  <2>2. ListsNoMore(u, c)
    BY <1>0, EvictedAdds
  <2>3. CacheInv(Seq(Names), d, None) /\ ListsAlso(d, u, p, ListedEntry(p, data, now))
    BY <1>0, <2>1, FileGivenGives
  <2> HIDE DEF u
  <2>4. Adds(d, c, {ListedEntry(p, data, now)})
    BY <2>2, <2>3 DEF Adds, ListsNoMore, ListsAlso
  <2> QED BY <1>2, <2>3, <2>4
<1> QED BY <1>1, <1>2
-----------------------------------------------------------------------------
(* Invalidation and rename in all three caches *)

\* The three caches c.
CachesInv(c) ==
    /\ c = [attr |-> c.attr, dir |-> c.dir, symlink |-> c.symlink]
    /\ CacheInv(StatData, c.attr, None)
    /\ CacheInv(Seq(Names), c.dir, None) /\ ListsNames(c.dir)
    /\ CacheInv(StatData, c.symlink, None)

ListsFewer(d, c) ==
    /\ Adds(d.attr, c.attr, {}) /\ Adds(d.dir, c.dir, {})
    /\ Adds(d.symlink, c.symlink, {})

UnlistedAll(c, p) == Unlisted(c.attr, p) /\ Unlisted(c.dir, p) /\ Unlisted(c.symlink, p)

\* Three assignments to a record of three fields.
LEMMA AllReplaced ==
    ASSUME NEW a, NEW l, NEW s, NEW x, NEW y, NEW z
    PROVE  [[attr |-> a, dir |-> l, symlink |-> s] EXCEPT !.attr = x, !.dir = y, !.symlink = z]
                = [attr |-> x, dir |-> y, symlink |-> z]
<1> DEFINE r == [attr |-> a, dir |-> l, symlink |-> s]
           r1 == [r EXCEPT !.attr = x]
           r2 == [r1 EXCEPT !.dir = y]
<1>1. [r EXCEPT !.attr = x, !.dir = y, !.symlink = z] = [r2 EXCEPT !.symlink = z]
  OBVIOUS
<1>2. r1 = [attr |-> x, dir |-> l, symlink |-> s]
  OBVIOUS
<1> HIDE DEF r1
<1>3. r2 = [attr |-> x, dir |-> y, symlink |-> s]
  BY <1>2
<1> HIDE DEF r2
<1>4. [r2 EXCEPT !.symlink = z] = [attr |-> x, dir |-> y, symlink |-> z]
  BY <1>3
<1> QED BY <1>1, <1>4

LEMMA InvalAttrGives ==
    ASSUME StrEqDecides, NEW c, CachesInv(c), NEW p \in Path
    PROVE  LET d == InvalAttr(c, p)
           IN  /\ CachesInv(d) /\ ListsFewer(d, c)
               /\ ~ RenameOntoCached => Unlisted(d.attr, p)
<1> DEFINE a == FileInvalidated(c.attr, p, now)
           d == InvalAttr(c, p)
<1>1. CacheInv(StatData, c.attr, None)
  BY DEF CachesInv
<1>2. CacheInv(StatData, a, None) /\ Adds(a, c.attr, {}) /\ (~ RenameOntoCached => Unlisted(a, p))
  BY <1>1, InvalidatedGives
<1>3. d = [attr |-> a, dir |-> c.dir, symlink |-> c.symlink]
  <2> DEFINE b == [attr |-> c.attr, dir |-> c.dir, symlink |-> c.symlink]
  <2>1. c = b /\ [b EXCEPT !.attr = a] = [attr |-> a, dir |-> c.dir, symlink |-> c.symlink]
    BY DEF CachesInv
  <2> QED BY <2>1 DEF InvalAttr
<1> HIDE DEF a, d
<1>4. d.attr = a /\ d.dir = c.dir /\ d.symlink = c.symlink
  BY <1>3
<1>5. CachesInv(d)
  BY <1>2, <1>3, <1>4 DEF CachesInv
<1>6. ListsFewer(d, c)
  BY <1>2, <1>4 DEF ListsFewer, Adds
<1> QED BY <1>2, <1>4, <1>5, <1>6 DEF d

LEMMA FewerNames ==
    ASSUME NEW d, NEW c, Adds(d, c, {}), ListsNames(c)
    PROVE  ListsNames(d)
  BY DEF Adds, ListsNames

LEMMA InvalAllGives ==
    ASSUME StrEqDecides, NEW c, CachesInv(c), NEW p \in Path
    PROVE  LET d == InvalAll(c, p)
           IN  /\ CachesInv(d) /\ ListsFewer(d, c)
               /\ ~ RenameOntoCached => UnlistedAll(d, p)
<1> DEFINE a == FileInvalidated(c.attr, p, now)
           l == FileInvalidated(c.dir, p, now)
           s == FileInvalidated(c.symlink, p, now)
           d == InvalAll(c, p)
<1>0. CacheInv(StatData, c.attr, None) /\ CacheInv(Seq(Names), c.dir, None)
      /\ CacheInv(StatData, c.symlink, None)
  BY DEF CachesInv
<1>1. CacheInv(StatData, a, None) /\ Adds(a, c.attr, {}) /\ (~ RenameOntoCached => Unlisted(a, p))
  BY <1>0, InvalidatedGives
<1>2. CacheInv(Seq(Names), l, None) /\ Adds(l, c.dir, {}) /\ (~ RenameOntoCached => Unlisted(l, p))
  BY <1>0, InvalidatedGives
<1>3. CacheInv(StatData, s, None) /\ Adds(s, c.symlink, {}) /\ (~ RenameOntoCached => Unlisted(s, p))
  BY <1>0, InvalidatedGives
<1>4. d = [attr |-> a, dir |-> l, symlink |-> s]
  <2> DEFINE b == [attr |-> c.attr, dir |-> c.dir, symlink |-> c.symlink]
  <2>1. c = b
    BY DEF CachesInv
  <2>2. [b EXCEPT !.attr = a, !.dir = l, !.symlink = s] = [attr |-> a, dir |-> l, symlink |-> s]
    <3> HIDE DEF a, l, s
    <3> QED BY AllReplaced
  <2>3. d = [c EXCEPT !.attr = a, !.dir = l, !.symlink = s]
    BY <2>1 DEF InvalAll
  <2> QED BY <2>1, <2>2, <2>3
<1> HIDE DEF a, l, s, d
<1>5. d.attr = a /\ d.dir = l /\ d.symlink = s
  BY <1>4
<1>6. ListsNames(d.dir)
  BY <1>2, <1>5, FewerNames DEF CachesInv
<1>7. CachesInv(d)
  BY <1>1, <1>2, <1>3, <1>4, <1>5, <1>6 DEF CachesInv
<1>8. ListsFewer(d, c) /\ (~ RenameOntoCached => UnlistedAll(d, p))
  BY <1>1, <1>2, <1>3, <1>5 DEF ListsFewer, UnlistedAll
<1> QED BY <1>7, <1>8 DEF d

LEMMA InvalAllDirGives ==
    ASSUME StrEqDecides, NEW c, CachesInv(c), NEW p \in UserPath
    PROVE  LET d == InvalAllDir(c, p)
           IN  /\ CachesInv(d) /\ ListsFewer(d, c)
               /\ ~ RenameOntoCached => UnlistedAll(d, p)
<1> DEFINE e == InvalAll(c, p)
           q == InvalBaseDir(p)
           d == InvalAllDir(c, p)
<1>1. p \in Path
  BY KeyIs
<1>2. CachesInv(e) /\ ListsFewer(e, c) /\ (~ RenameOntoCached => UnlistedAll(e, p))
  BY <1>1, InvalAllGives
<1>3. d = IF HasBaseDir(p) /\ q \in Path THEN InvalAll(e, q) ELSE e
  BY DEF InvalAllDir
<1> HIDE DEF e, d, q
<1>4. CASE HasBaseDir(p) /\ q \in Path
  <2>1. CachesInv(d) /\ ListsFewer(d, e)
    BY <1>2, <1>3, <1>4, InvalAllGives
  <2>2. ListsFewer(d, c)
    BY <1>2, <2>1 DEF ListsFewer, Adds
  <2>3. ~ RenameOntoCached => UnlistedAll(d, p)
    BY <1>2, <2>1 DEF ListsFewer, UnlistedAll, Adds, Unlisted
  <2> QED BY <2>1, <2>2, <2>3 DEF d
<1>5. CASE ~ (HasBaseDir(p) /\ q \in Path)
  BY <1>2, <1>3, <1>5 DEF d
<1> QED BY <1>4, <1>5

\* All d lists besides what c listed is under q now.
Brings(d, c, q) ==
    \A h \in HashVal : \A e : Listed(d, h, e) =>
        Listed(c, h, e) \/ (e.path = q /\ e.mod_time = now)

\* The cache c after a rename of its path p to q, or the loss of p's entry.
RenamedOr(c, p, q, gone) == IF gone THEN FileRenameLost(c, p, now) ELSE FileRenamed(c, p, q, now)

LEMMA RenamedOrGives ==
    ASSUME StrEqDecides, now \in 0 .. MaxTime, NEW D, None \notin D, NEW c, CacheInv(D, c, None),
           NEW p \in Path, NEW q \in Path, p # q, NEW gone \in BOOLEAN, gone => RenameMayFail,
           RenameOntoCached \/ FilePeeked(c, q, now) = None
    PROVE  LET d == RenamedOr(c, p, q, gone)
           IN  /\ CacheInv(D, d, None)
               /\ \A h \in HashVal : \A y : Listed(d, h, y) =>
                    \/ Listed(c, h, y)
                    \/ \E e : Listed(c, Hash[p], e) /\ e.path = p /\ y = ListedEntry(q, e.data, now)
               /\ ~ RenameOntoCached => Unlisted(d, p)
<1>1. CASE ~ gone
  BY <1>1, RenamedGives DEF RenamedOr
<1>2. CASE gone
  <2> DEFINE v == Evicted(c, now)
             d == FileRenameLost(c, p, now)
  <2>1. ListsNoMore(v, c)
    BY EvictedAdds
  <2>2. CacheInv(D, d, None) /\ ListsNoMore(d, v) /\ (~ RenameOntoCached => ListsWithout(d, v, p))
    BY <1>2, FileRenameLostGives
  <2> HIDE DEF d, v
  <2>3. ~ RenameOntoCached => Unlisted(d, p)
    BY <2>2 DEF ListsWithout, Unlisted
  <2>4. \A h \in HashVal : \A y : Listed(d, h, y) => Listed(c, h, y)
    BY <2>1, <2>2 DEF ListsNoMore
  <2> QED BY <1>2, <2>2, <2>3, <2>4 DEF RenamedOr, d
<1> QED BY <1>1, <1>2

LEMMA RenameAllGives ==
    ASSUME StrEqDecides, now \in 0 .. MaxTime, CachesInv(caches),
           NEW p \in UserPath, NEW q \in UserPath, p # q, p # Root, q # Root,
           NEW lost, lost # {} => RenameMayFail,
           RenameOntoCached \/ ~ Cached(q), EntryNames(p) \subseteq EntryNames(q)
    PROVE  LET d == RenameAll(caches, p, q, lost)
           IN  /\ CachesInv(d)
               /\ Brings(d.attr, caches.attr, q) /\ Brings(d.dir, caches.dir, q)
               /\ Brings(d.symlink, caches.symlink, q)
               /\ ~ RenameOntoCached => UnlistedAll(d, p)
<1> DEFINE c == caches
           F(x) == RenamedOr(c[x], p, q, x \in lost)
           a == RenamedOr(c.attr, p, q, "attr" \in lost)
           l == RenamedOr(c.dir, p, q, "dir" \in lost)
           s == RenamedOr(c.symlink, p, q, "symlink" \in lost)
           d == RenameAll(c, p, q, lost)
<1>0. CacheInv(StatData, c.attr, None) /\ CacheInv(Seq(Names), c.dir, None)
      /\ CacheInv(StatData, c.symlink, None)
      /\ c = [attr |-> c.attr, dir |-> c.dir, symlink |-> c.symlink]
  BY DEF CachesInv
<1>1. p \in Path /\ q \in Path /\ None \notin StatData /\ None \notin Seq(Names)
  BY KeyIs, StatAssumption, CachedAssumption
<1>2. RenameOntoCached \/ (FilePeeked(c.attr, q, now) = None /\ FilePeeked(c.dir, q, now) = None
                           /\ FilePeeked(c.symlink, q, now) = None)
  <2>1. "attr" \in DOMAIN c /\ "dir" \in DOMAIN c /\ "symlink" \in DOMAIN c
    BY <1>0
  <2> QED BY <2>1 DEF Cached
<1>3. d = [attr |-> a, dir |-> l, symlink |-> s]
  <2>1. DOMAIN c = {"attr", "dir", "symlink"}
    BY <1>0
  <2>2. d = [x \in DOMAIN c |-> F(x)]
    BY DEF RenameAll, RenamedOr
  <2>3. F("attr") = a /\ F("dir") = l /\ F("symlink") = s
    OBVIOUS
  <2> HIDE DEF F, a, l, s, d
  <2> QED BY <2>1, <2>2, <2>3
<1> DEFINE Ok(D, y, x) ==
               /\ CacheInv(D, y, None)
               /\ \A h \in HashVal : \A e : Listed(y, h, e) =>
                    \/ Listed(x, h, e)
                    \/ \E z : Listed(x, Hash[p], z) /\ z.path = p /\ e = ListedEntry(q, z.data, now)
               /\ ~ RenameOntoCached => Unlisted(y, p)
<1>4. Ok(StatData, a, c.attr)
  <2> DEFINE gone == "attr" \in lost
             from == c.attr
             E == StatData
  <2>1. gone \in BOOLEAN /\ (gone => RenameMayFail) /\ CacheInv(E, from, None) /\ None \notin E
        /\ (RenameOntoCached \/ FilePeeked(from, q, now) = None)
    BY <1>0, <1>1, <1>2
  <2> HIDE DEF gone, from, E
  <2>2. Ok(E, RenamedOr(from, p, q, gone), from)
    BY <1>1, <2>1, RenamedOrGives
  <2> QED BY <2>2 DEF gone, from, E
<1>5. Ok(Seq(Names), l, c.dir)
  <2> DEFINE gone == "dir" \in lost
             from == c.dir
             E == Seq(Names)
  <2>1. gone \in BOOLEAN /\ (gone => RenameMayFail) /\ CacheInv(E, from, None) /\ None \notin E
        /\ (RenameOntoCached \/ FilePeeked(from, q, now) = None)
    BY <1>0, <1>1, <1>2
  <2> HIDE DEF gone, from, E
  <2>2. Ok(E, RenamedOr(from, p, q, gone), from)
    BY <1>1, <2>1, RenamedOrGives
  <2> QED BY <2>2 DEF gone, from, E
<1>6. Ok(StatData, s, c.symlink)
  <2> DEFINE gone == "symlink" \in lost
             from == c.symlink
             E == StatData
  <2>1. gone \in BOOLEAN /\ (gone => RenameMayFail) /\ CacheInv(E, from, None) /\ None \notin E
        /\ (RenameOntoCached \/ FilePeeked(from, q, now) = None)
    BY <1>0, <1>1, <1>2
  <2> HIDE DEF gone, from, E
  <2>2. Ok(E, RenamedOr(from, p, q, gone), from)
    BY <1>1, <2>1, RenamedOrGives
  <2> QED BY <2>2 DEF gone, from, E
<1> HIDE DEF a, l, s, d
<1>7. d.attr = a /\ d.dir = l /\ d.symlink = s
  BY <1>3
<1>8. Brings(a, c.attr, q) /\ Brings(l, c.dir, q) /\ Brings(s, c.symlink, q)
  BY <1>4, <1>5, <1>6 DEF Brings, ListedEntry
<1>9. ListsNames(l)
  <2>1. Seq(EntryNames(p)) \subseteq Seq(EntryNames(q))
    BY NamesMonotonic
  <2>2. Hash[p] \in HashVal
    BY <1>1, FileCacheAssumption
  <2>3. ListsNames(c.dir)
    BY DEF CachesInv
  <2>4. ASSUME NEW h \in HashVal, NEW e, Listed(l, h, e)
        PROVE  e.path \in UserPath /\ e.data \in Seq(EntryNames(e.path))
    <3>1. CASE Listed(c.dir, h, e)
      BY <2>3, <3>1 DEF ListsNames
    <3>2. CASE \E z : Listed(c.dir, Hash[p], z) /\ z.path = p /\ e = ListedEntry(q, z.data, now)
      <4>1. PICK z : Listed(c.dir, Hash[p], z) /\ z.path = p /\ e = ListedEntry(q, z.data, now)
        BY <3>2
      <4>2. z.data \in Seq(EntryNames(p))
        BY <2>2, <2>3, <4>1 DEF ListsNames
      <4>3. e.path = q /\ e.data = z.data
        BY <4>1 DEF ListedEntry
      <4> QED BY <2>1, <4>2, <4>3
    <3> QED BY <1>5, <2>4, <3>1, <3>2
  <2> QED BY <2>4 DEF ListsNames
<1>10. CachesInv(d)
  BY <1>3, <1>4, <1>5, <1>6, <1>7, <1>9 DEF CachesInv
<1>11. ~ RenameOntoCached => UnlistedAll(d, p)
  BY <1>4, <1>5, <1>6, <1>7 DEF UnlistedAll
<1> QED BY <1>7, <1>8, <1>10, <1>11 DEF d
-----------------------------------------------------------------------------
(* What is always true, whatever users do *)

\* A handle in the map is open; it is mapped to the path of its file unless
\* files are renamed; and what is open under a path is a file, unless others have
\* taken it away.
FilesInv ==
    /\ open \in [Handle -> UserPath \cup {None, Unlinked}]
    /\ handle_path \in [Handle -> UserPath \cup {None}]
    /\ orphans \subseteq Handle /\ ("other" \notin Ops => orphans = {})
    /\ \A h \in Handle :
        /\ open[h] = None => handle_path[h] = None /\ h \notin orphans
        /\ open[h] \in UserPath => h \in orphans \/ KindOf(open[h]) = "file"
        /\ "open" \notin Ops => handle_path[h] = None
        /\ handle_path[h] # None /\ "rename" \notin Ops => open[h] \in {handle_path[h], Unlinked}

\* An open directory, whatever the paths it has.
DirRecord(d) == d = [path |-> d.path, st |-> d.st, rest |-> d.rest]

OpenDir(d) ==
    /\ DirRecord(d) /\ d.path \in UserPath /\ d.st \in {"cached", "unread", "read", "gone"}
    /\ d.rest \in Seq(EntryRecords(d.path))

\* A directory open on the server is one there, unless others remove it.
DirsInv ==
    /\ dirs = [x \in DirHandle |-> dirs[x]]
    /\ \A x \in DirHandle : dirs[x] # None =>
        /\ OpenDir(dirs[x])
        /\ dirs[x].st \in {"unread", "read"} /\ "other" \notin Ops =>
                KindOf(dirs[x].path) = "dir"

\* The mount's last changes are versions the server had.
ChangedInv ==
    /\ changed \in [UserPath -> [attr : Nat, link : Nat]]
    /\ \A p \in UserPath : changed[p].attr <= Ver(p) /\ changed[p].link <= Ver(p)

BaseInv ==
    /\ HistInv /\ TreeInv /\ now \in 0 .. MaxTime
    /\ CachesInv(caches) /\ FilesInv /\ DirsInv /\ ChangedInv

-----------------------------------------------------------------------------
(* The steps: a step reads the server and may store what it has read, or the *)
(* server changes and nothing is stored.                                     *)

\* A listing of p read now: complete, unless the server may fail or the handle
\* may have been rewound.
FreshDirs ==
    {e \in EntryOf(Seq(Names)) :
        /\ e.mod_time = now /\ e.path \in UserPath
        /\ "other" \notin Ops => KindOf(e.path) = "dir"
        /\ {"error", "rewind"} \cap Ops = {} =>
            \A q \in Children(e.path) : KindOf(q) # "none" => NameOf(q) \in Range(e.data)}

FreshLinks ==
    {e \in EntryOf(StatData) :
        /\ e.mod_time = now /\ e.path \in UserPath
        /\ e.data = Value(e.path) /\ KindOf(e.path) # "none"}

Reads ==
    /\ UNCHANGED <<hist, changed>> /\ now <= now'
    /\ Adds(caches'.attr, caches.attr, FreshAttrs)
    /\ Adds(caches'.dir, caches.dir, FreshDirs)
    /\ Adds(caches'.symlink, caches.symlink, FreshLinks)

\* Only a rename brings entries along, to a path that exists now and had nothing
\* below it.
BringsAtMost(d, c) ==
    \A h \in HashVal : \A e : Listed(d, h, e) =>
        \/ Listed(c, h, e)
        \/ /\ "rename" \in Ops /\ e.path \in UserPath \ {Root} /\ e.mod_time = now
           /\ Empty(e.path) /\ KindOf(e.path)' # "none"

\* What the mount changes at p is forgotten.
Forgets(p) ==
    \/ changed'[p] = changed[p]
    \/ /\ Ver(p)' = Ver(p) + 1 /\ changed'[p].attr = Ver(p)'
       /\ "rename" \in Ops \/ Unlisted(caches'.attr, p)
       /\ \/ changed'[p].link = changed[p].link
          \/ /\ changed'[p].link = Ver(p)'
             /\ ~ RenameOntoCached =>
                    \/ UnlistedAll(caches', p)
                    \/ "rename" \in Ops /\ KindOf(p)' # "none"

Changes ==
    /\ now' = now /\ Extends
    /\ BringsAtMost(caches'.attr, caches.attr) /\ BringsAtMost(caches'.dir, caches.dir)
    /\ BringsAtMost(caches'.symlink, caches.symlink)
    /\ \A p \in UserPath \ {Root} : Forgets(p)

\* Nothing of the server, the files and directories changes.
LEMMA SameBase ==
    ASSUME BaseInv, UNCHANGED <<hist, files, dirs, changed>>, now' \in 0 .. MaxTime, CachesInv(caches')
    PROVE  BaseInv'
<1>1. UNCHANGED <<hist, open, orphans, handle_path, dirs, changed>>
  BY DEF files
<1>2. \A p \in UserPath : Ver(p)' = Ver(p) /\ KindOf(p)' = KindOf(p)
  BY <1>1 DEF Ver, KindOf
<1>3. HistInv' /\ ChangedInv'
  BY <1>1, <1>2 DEF BaseInv, HistInv, ChangedInv
<1>4. TreeInv'
  BY <1>2, PathIs DEF BaseInv, TreeInv
<1>5. FilesInv'
  BY <1>1, <1>2 DEF BaseInv, FilesInv
<1>6. DirsInv'
  BY <1>1, <1>2 DEF BaseInv, DirsInv, OpenDir
<1> QED BY <1>3, <1>4, <1>5, <1>6 DEF BaseInv

\* The server's steps, by what they do to the kinds of objects.
LEMMA MakeGives ==
    ASSUME BaseInv, NEW p \in UserPath, NEW k \in Kinds, SftpMake(p, k)
    PROVE  /\ Serves /\ Renews({p}) /\ KindsKept({p})
           /\ p # Root /\ KindOf(p) = "none" /\ KindOf(p)' = k
<1>1. HistInv /\ TreeInv /\ now \in 0 .. MaxTime
  BY DEF BaseInv
<1>2. p # Root /\ KindOf(p) = "none" /\ KindOf(Parent(p)) = "dir" /\ ServeEntry(p, k)
  BY DEF SftpMake
<1>3. Empty(p)
  BY <1>1, <1>2 DEF Empty, Children, TreeInv
<1> QED BY <1>1, <1>2, <1>3, EntryGives

LEMMA RemoveGives ==
    ASSUME BaseInv, NEW p \in UserPath, SftpUnlink(p) \/ SftpRmdir(p)
    PROVE  /\ Serves /\ Renews({p}) /\ KindsKept({p})
           /\ IF p = Root THEN KindsKept({}) ELSE KindOf(p)' = "none"
<1>1. HistInv /\ TreeInv /\ now \in 0 .. MaxTime
  BY DEF BaseInv
<1>2. ServeEntry(p, "none") /\ KindOf(p) # "none" /\ "none" \in Kinds
  BY DEF SftpUnlink, SftpRmdir, Kinds
<1>3. Empty(p)
  BY <1>1 DEF Empty, Children, TreeInv, SftpUnlink, SftpRmdir
<1>4. KindOf(Parent(p)) = "dir" \/ p = Root
  BY <1>1, <1>2 DEF TreeInv
<1>5. /\ Serves /\ Renews({p})
      /\ IF p = Root THEN KindsKept({}) ELSE KindOf(p)' = "none" /\ KindsKept({p})
  BY <1>1, <1>2, <1>3, <1>4, EntryGives
<1> QED BY <1>5 DEF KindsKept

\* What a rename does to the paths at and below the two.
LEMMA MovedIs ==
    ASSUME NEW p \in UserPath \ {Root}, NEW q \in UserPath \ {Root}, p # q,
           \A x \in Below(p) : Moved(x, p, q) \in UserPath
    PROVE  \A x \in {p} \cup Below(p) :
                /\ x \in UserPath \ {Root} /\ Moved(x, p, q) \in {q} \cup Below(q)
                /\ Moved(x, p, q) \in UserPath \ {Root} /\ Moved(Moved(x, p, q), q, p) = x
                /\ EntryNames(x) \subseteq EntryNames(Moved(x, p, q))
                /\ IF x = p THEN Moved(x, p, q) = q
                   ELSE /\ Parent(x) \in {p} \cup Below(p)
                        /\ Parent(Moved(x, p, q)) = Moved(Parent(x), p, q)
<1> DEFINE M(x) == Moved(x, p, q)
<1>1. M(p) = q /\ Moved(q, q, p) = p
  BY DEF Moved
<1> HIDE DEF M
<1>2. Below(p) \subseteq UserPath \ {Root} /\ Below(q) \subseteq UserPath \ {Root}
  <2>1. Below(p) \subseteq UserPath /\ Below(q) \subseteq UserPath
    BY DEF Below
  <2>2. Root \notin Below(p) /\ Root \notin Below(q)
    BY BelowAssumption
  <2> QED BY <2>1, <2>2
<1>3. ASSUME NEW x \in Below(p)
      PROVE  /\ M(x) \in UserPath /\ M(x) \in Below(q) /\ Moved(M(x), q, p) = x
             /\ NameOf(M(x)) = NameOf(x) /\ Parent(M(x)) = M(Parent(x))
  BY BelowAssumption DEF M
<1>4. p \notin Below(p) /\ \A x \in UserPath \ {Root} : x \in Below(p) <=> Parent(x) \in {p} \cup Below(p)
  BY BelowAssumption
<1>5. ASSUME NEW x \in {p} \cup Below(p) PROVE EntryNames(x) \subseteq EntryNames(M(x))
  <2>1. ASSUME NEW y \in Children(x) PROVE \E z \in Children(M(x)) : NameOf(z) = NameOf(y)
    <3>1. y \in UserPath \ {Root} /\ Parent(y) = x
      BY DEF Children
    <3>2. y \in Below(p)
      BY <1>4, <3>1
    <3>3. M(y) \in UserPath \ {Root} /\ NameOf(M(y)) = NameOf(y) /\ Parent(M(y)) = M(x)
      BY <1>2, <1>3, <3>1, <3>2
    <3> QED BY <3>3 DEF Children
  <2> QED BY <2>1 DEF EntryNames
<1>6. ASSUME NEW x \in {p} \cup Below(p)
      PROVE  /\ x \in UserPath \ {Root} /\ M(x) \in {q} \cup Below(q)
             /\ M(x) \in UserPath \ {Root} /\ Moved(M(x), q, p) = x
             /\ IF x = p THEN M(x) = q
                ELSE Parent(x) \in {p} \cup Below(p) /\ Parent(M(x)) = M(Parent(x))
  <2>1. CASE x = p
    BY <1>1, <2>1
  <2>2. CASE x # p
    <3>1. x \in Below(p)
      BY <2>2
    <3> QED BY <1>2, <1>3, <1>4, <2>2, <3>1
  <2> QED BY <2>1, <2>2
<1> QED BY <1>5, <1>6 DEF M

LEMMA RenameGives ==
    ASSUME BaseInv, NEW p \in UserPath, NEW q \in UserPath, SftpRename(p, q)
    PROVE  /\ Serves /\ Renews({p, q})
           /\ KindsKept({p, q} \cup Below(p) \cup Below(q))
           /\ p # q /\ p # Root /\ q # Root
           /\ KindOf(p)' = "none" /\ KindOf(q)' # "none" /\ Empty(q)
           /\ \A x \in {p} \cup Below(p) :
                /\ x \in UserPath /\ Moved(x, p, q) \in UserPath
                /\ EntryNames(x) \subseteq EntryNames(Moved(x, p, q))
                /\ KindOf(x) # "none" => KindOf(Moved(x, p, q))' = KindOf(x)
           /\ Moved(p, p, q) = q
<1> DEFINE S == {p} \cup Below(p)
           T == {q} \cup Below(q)
           M(x) == Moved(x, p, q)
           N(x) == Moved(x, q, p)
           from == {p} \cup {x \in Below(p) : KindOf(x) # "none"}
           to == {M(x) : x \in from}
           ks == [x \in from \cup to \cup {Parent(p), Parent(q)} |->
                    IF x \in to THEN KindOf(N(x)) ELSE IF x \in from THEN "none" ELSE "dir"]
<1>1. HistInv /\ TreeInv /\ now \in 0 .. MaxTime
  BY DEF BaseInv
<1>2. /\ p # q /\ p # Root /\ q # Root /\ q \notin Below(p)
      /\ KindOf(p) # "none" /\ KindOf(Parent(q)) = "dir"
      /\ \A x \in Below(q) : KindOf(x) = "none"
      /\ \A x \in Below(p) : M(x) \in UserPath
      /\ Serve(ks)
  BY DEF SftpRename
<1>3. \A x \in S : /\ x \in UserPath \ {Root} /\ M(x) \in T /\ M(x) \in UserPath \ {Root}
                   /\ N(M(x)) = x /\ EntryNames(x) \subseteq EntryNames(M(x))
                   /\ IF x = p THEN M(x) = q
                      ELSE Parent(x) \in S /\ Parent(M(x)) = M(Parent(x))
  <2>1. p \in UserPath \ {Root} /\ q \in UserPath \ {Root}
    BY <1>2
  <2> HIDE DEF from, to, ks
  <2> QED BY <1>2, <2>1, MovedIs
<1>4. /\ p \notin Below(p) /\ q \notin Below(q) /\ Root \notin T
      /\ \A x \in UserPath \ {Root} : x \in Below(p) <=> Parent(x) \in S
      /\ \A x \in UserPath \ {Root} : x \in Below(q) <=> Parent(x) \in T
  BY <1>2, BelowAssumption
<1>5. p \notin T
  BY <1>2
<1>6. from \subseteq S /\ p \in from /\ \A x \in S : KindOf(x) # "none" => x \in from
  OBVIOUS
<1>7. \A x \in from : KindOf(x) # "none"
  BY <1>2
<1>8. \A x \in UserPath \ {Root} : Parent(x) \in UserPath
  BY PathIs
<1>9. KindOf(Parent(p)) = "dir"
  BY <1>1, <1>2 DEF TreeInv
<1> HIDE DEF S, T, M, N, from
<1>10. /\ to \subseteq T /\ to \subseteq UserPath \ {Root} /\ q \in to
       /\ \A x \in to : N(x) \in from /\ M(N(x)) = x
  BY <1>3, <1>6, <1>5 DEF S
<1>11. /\ DOMAIN ks = from \cup to \cup {Parent(p), Parent(q)}
       /\ \A x \in DOMAIN ks : ks[x] = IF x \in to THEN KindOf(N(x))
                                       ELSE IF x \in from THEN "none" ELSE "dir"
  OBVIOUS
<1>12. \A x \in from : M(x) \in to
  OBVIOUS
<1> HIDE DEF to, ks
<1>13. \A x \in UserPath : x \in DOMAIN ks => ks[x] \in Kinds
  <2>1. \A x \in to : KindOf(N(x)) \in Kinds
    BY <1>1, <1>3, <1>6, <1>10, KindIs
  <2> QED BY <1>11, <2>1 DEF Kinds
<1>14. HistInv' /\ Extends /\ Grows(ks)
  BY <1>1, <1>2, <1>13, ServeGives
<1>15. ASSUME NEW x \in UserPath
       PROVE  KindOf(x)' = IF x \in to THEN KindOf(N(x)) ELSE IF x \in from THEN "none" ELSE KindOf(x)
  <2>1. CASE x \in DOMAIN ks \ {Root}
    <3>1. KindOf(x)' = ks[x]
      BY <1>14, <2>1 DEF Grows
    <3>2. x \notin to /\ x \notin from => KindOf(x) = "dir"
      BY <1>2, <1>9, <1>11, <2>1
    <3> QED BY <1>11, <2>1, <3>1, <3>2
  <2>2. CASE x \notin DOMAIN ks \ {Root}
    <3>1. KindOf(x)' = KindOf(x)
      BY <1>14, <2>2 DEF Grows
    <3>2. x \notin to /\ x \notin from
      BY <1>3, <1>6, <1>10, <1>11, <2>2
    <3> QED BY <3>1, <3>2
  <2> QED BY <2>1, <2>2
<1>16. ASSUME NEW x \in UserPath \ {Root}, KindOf(x)' # "none" PROVE KindOf(Parent(x))' = "dir"
  <2>1. Parent(x) \in UserPath
    BY <1>8
  <2>2. CASE x \in to
    <3> DEFINE z == N(x)
    <3>1. z \in from /\ M(z) = x /\ z \in S
      BY <1>6, <1>10, <2>2
    <3>2. CASE z = p
      <4>1. x = q
        BY <1>3, <3>1, <3>2
      <4>2. Parent(q) \notin T
        BY <1>2, <1>4
      <4>3. Parent(q) \notin S
        BY <1>2, <1>4
      <4> QED BY <1>2, <1>6, <1>10, <1>15, <2>1, <4>1, <4>2, <4>3
    <3>3. CASE z # p
      <4>1. Parent(z) \in S /\ Parent(x) = M(Parent(z)) /\ z \in UserPath \ {Root}
        BY <1>3, <3>1, <3>3
      <4>2. KindOf(Parent(z)) = "dir"
        BY <1>1, <1>7, <3>1, <4>1 DEF TreeInv
      <4>3. Parent(z) \in from
        BY <1>6, <4>1, <4>2
      <4>4. Parent(x) \in to /\ N(Parent(x)) = Parent(z)
        BY <1>3, <1>12, <4>1, <4>3
      <4> QED BY <1>15, <2>1, <4>2, <4>4
    <3> QED BY <3>2, <3>3
  <2>3. CASE x \notin to
    <3>1. x \notin from /\ KindOf(x) # "none"
      BY <1>15, <1>16, <2>3
    <3>2. x \notin S
      BY <1>6, <3>1
    <3>3. x \notin T
      BY <1>2, <1>10, <2>3, <3>1 DEF T
    <3>4. Parent(x) \notin S /\ Parent(x) \notin T
      BY <1>4, <3>2, <3>3 DEF S, T
    <3>5. Parent(x) \notin to /\ Parent(x) \notin from
      BY <1>6, <1>10, <3>4
    <3> QED BY <1>1, <1>15, <2>1, <3>1, <3>5 DEF TreeInv
  <2> QED BY <2>2, <2>3
<1>17. Serves
  BY <1>14, <1>16 DEF Serves, TreeInv
<1>18. Renews({p, q})
  BY <1>6, <1>10, <1>11, <1>14 DEF Grows, Renews
<1>19. KindsKept({p, q} \cup Below(p) \cup Below(q))
  BY <1>6, <1>10, <1>15 DEF KindsKept, S, T
<1>20. KindOf(p)' = "none" /\ KindOf(q)' # "none"
  <2>1. p \notin to
    BY <1>5, <1>10
  <2>2. KindOf(N(q)) # "none"
    BY <1>7, <1>10
  <2> QED BY <1>6, <1>10, <1>15, <2>1, <2>2
<1>21. Empty(q)
  <2>1. \A x \in Children(q) : x \in Below(q)
    BY <1>4 DEF Children, T
  <2> QED BY <1>2, <2>1 DEF Empty
<1>22. ASSUME NEW x \in S
       PROVE  /\ x \in UserPath /\ M(x) \in UserPath /\ EntryNames(x) \subseteq EntryNames(M(x))
              /\ KindOf(x) # "none" => KindOf(M(x))' = KindOf(x)
  <2>1. x \in UserPath /\ M(x) \in UserPath /\ EntryNames(x) \subseteq EntryNames(M(x)) /\ N(M(x)) = x
    BY <1>3
  <2>2. KindOf(x) # "none" => M(x) \in to
    BY <1>6, <1>12
  <2> QED BY <1>15, <2>1, <2>2
<1>23. M(p) = q
  BY <1>3, <1>6
<1> QED BY <1>2, <1>17, <1>18, <1>19, <1>20, <1>21, <1>22, <1>23 DEF S, M

\* What Mine records.
LEMMA MineGives ==
    ASSUME BaseInv, Serves, NEW S, Renews(S), NEW renewed \in BOOLEAN, Mine(S, renewed)
    PROVE  /\ ChangedInv'
           /\ \A p \in UserPath \ {Root} :
                IF p \in S THEN /\ Ver(p)' = Ver(p) + 1 /\ changed'[p].attr = Ver(p)'
                                /\ changed'[p].link = IF renewed THEN Ver(p)' ELSE changed[p].link
                ELSE changed'[p] = changed[p]
<1>1. /\ changed \in [UserPath -> [attr : Nat, link : Nat]]
      /\ \A p \in UserPath : changed[p].attr <= Ver(p) /\ changed[p].link <= Ver(p)
  BY DEF BaseInv, ChangedInv
<1>2. changed' = [p \in UserPath |->
            IF p \notin S \ {Root} THEN changed[p]
            ELSE [attr |-> Ver(p) + 1,
                  link |-> IF renewed THEN Ver(p) + 1 ELSE changed[p].link]]
  BY DEF Mine
<1>3. \A p \in UserPath : Ver(p) \in Nat /\ Ver(p)' \in Nat /\ Ver(p) <= Ver(p)'
  <2>1. \A p \in UserPath : Ver(p) \in Nat /\ Ver(p)' \in Nat
    BY DEF BaseInv, Serves, HistInv
  <2>2. \A p \in UserPath : Ver(p)' = Ver(p) \/ Ver(p)' = Ver(p) + 1
    BY DEF Serves, Extends, Ver
  <2> QED BY <2>1, <2>2
<1>4. ASSUME NEW p \in UserPath
      PROVE  /\ changed'[p] \in [attr : Nat, link : Nat]
             /\ changed'[p].attr <= Ver(p)' /\ changed'[p].link <= Ver(p)'
  <2>1. changed[p] \in [attr : Nat, link : Nat] /\ changed[p].attr <= Ver(p) /\ changed[p].link <= Ver(p)
    BY <1>1
  <2>2. CASE p \notin S \ {Root}
    <3>1. changed'[p] = changed[p]
      BY <1>2, <2>2
    <3> QED BY <1>3, <2>1, <3>1
  <2>3. CASE p \in S \ {Root}
    <3>1. Ver(p)' = Ver(p) + 1
      BY <2>3 DEF Renews
    <3>2. changed'[p] = [attr |-> Ver(p) + 1,
                         link |-> IF renewed THEN Ver(p) + 1 ELSE changed[p].link]
      BY <1>2, <2>3
    <3> QED BY <1>3, <2>1, <3>1, <3>2
  <2> QED BY <2>2, <2>3
<1>5. changed' = [p \in UserPath |-> changed'[p]]
  BY <1>2
<1>6. ChangedInv'
  <2>1. changed' \in [UserPath -> [attr : Nat, link : Nat]]
    BY <1>4, <1>5
  <2> QED BY <1>4, <2>1 DEF ChangedInv
<1>7. ASSUME NEW p \in UserPath \ {Root}
      PROVE  IF p \in S THEN /\ Ver(p)' = Ver(p) + 1 /\ changed'[p].attr = Ver(p)'
                             /\ changed'[p].link = IF renewed THEN Ver(p)' ELSE changed[p].link
             ELSE changed'[p] = changed[p]
  BY <1>2 DEF Renews
<1> QED BY <1>6, <1>7

\* A step of the server that is none of the mount's.
LEMMA NotMine ==
    ASSUME BaseInv, Serves, UNCHANGED changed
    PROVE  ChangedInv' /\ \A p \in UserPath \ {Root} : Forgets(p)
<1>1. \A p \in UserPath : Ver(p) \in Nat /\ Ver(p)' \in Nat /\ Ver(p) <= Ver(p)'
  <2>1. \A p \in UserPath : Ver(p) \in Nat /\ Ver(p)' \in Nat
    BY DEF BaseInv, Serves, HistInv
  <2>2. \A p \in UserPath : Ver(p)' = Ver(p) \/ Ver(p)' = Ver(p) + 1
    BY DEF Serves, Extends, Ver
  <2> QED BY <2>1, <2>2
<1>2. changed' \in [UserPath -> [attr : Nat, link : Nat]]
  BY DEF BaseInv, ChangedInv
<1>3. ASSUME NEW p \in UserPath PROVE changed'[p].attr <= Ver(p)' /\ changed'[p].link <= Ver(p)'
  <2>1. /\ changed[p].attr \in Nat /\ changed[p].link \in Nat
        /\ changed[p].attr <= Ver(p) /\ changed[p].link <= Ver(p)
    BY DEF BaseInv, ChangedInv
  <2> QED BY <1>1, <2>1
<1> QED BY <1>2, <1>3 DEF ChangedInv, Forgets

\* Files that stay open, and directories.
LEMMA FilesKept ==
    ASSUME BaseInv, UNCHANGED files, NEW S, KindsKept(S),
           \A h \in Handle : open[h] \in UserPath \cap S => h \in orphans \/ KindOf(open[h])' = "file"
    PROVE  FilesInv'
<1>1. UNCHANGED <<open, orphans, handle_path>>
  BY DEF files
<1>2. \A h \in Handle : open[h] \in UserPath => h \in orphans \/ KindOf(open[h])' = "file"
  BY <1>1 DEF BaseInv, FilesInv, KindsKept
<1> QED BY <1>1, <1>2 DEF BaseInv, FilesInv

LEMMA DirsKept ==
    ASSUME BaseInv, UNCHANGED dirs, NEW S, KindsKept(S),
           "other" \in Ops \/ \A p \in S : KindOf(p) # "dir"
    PROVE  DirsInv'
<1>1. ASSUME NEW x \in DirHandle, dirs[x] # None
      PROVE  /\ OpenDir(dirs[x])
             /\ dirs[x].st \in {"unread", "read"} /\ "other" \notin Ops =>
                    KindOf(dirs[x].path)' = "dir"
  <2>1. OpenDir(dirs[x])
    BY <1>1 DEF BaseInv, DirsInv
  <2>2. dirs[x].path \in UserPath
    BY <2>1 DEF OpenDir
  <2>3. dirs[x].st \in {"unread", "read"} /\ "other" \notin Ops => KindOf(dirs[x].path) = "dir"
    BY <1>1 DEF BaseInv, DirsInv
  <2> QED BY <2>1, <2>2, <2>3 DEF KindsKept
<1>2. dirs = [x \in DirHandle |-> dirs[x]]
  BY DEF BaseInv, DirsInv
<1> QED BY <1>1, <1>2 DEF DirsInv

\* Files and directories, one by one.
LEMMA FilesAre ==
    ASSUME open' \in [Handle -> UserPath \cup {None, Unlinked}],
           handle_path' \in [Handle -> UserPath \cup {None}],
           orphans' \subseteq Handle, "other" \notin Ops => orphans' = {},
           \A h \in Handle :
                /\ open'[h] = None => handle_path'[h] = None /\ h \notin orphans'
                /\ open'[h] \in UserPath => h \in orphans' \/ Last(hist'[open'[h]]).kind = "file"
                /\ "open" \notin Ops => handle_path'[h] = None
                /\ handle_path'[h] # None /\ "rename" \notin Ops =>
                        open'[h] \in {handle_path'[h], Unlinked}
    PROVE  FilesInv'
  BY DEF FilesInv, KindOf

LEMMA DirsAre ==
    ASSUME dirs' = [x \in DirHandle |-> dirs'[x]],
           \A x \in DirHandle : dirs'[x] # None =>
                /\ OpenDir(dirs'[x])
                /\ dirs'[x].st \in {"unread", "read"} /\ "other" \notin Ops =>
                        Last(hist'[dirs'[x].path]).kind = "dir"
    PROVE  DirsInv'
  BY DEF DirsInv, OpenDir, KindOf

\* An open directory gets another path, or another state.
LEMMA DirWith ==
    ASSUME NEW d, OpenDir(d)
    PROVE  /\ \A y : [d EXCEPT !.path = y] = [path |-> y, st |-> d.st, rest |-> d.rest]
           /\ \A y : [d EXCEPT !.st = y] = [path |-> d.path, st |-> y, rest |-> d.rest]
<1> DEFINE e == [path |-> d.path, st |-> d.st, rest |-> d.rest]
<1>1. d = e
  BY DEF OpenDir, DirRecord
<1>2. /\ \A y : [e EXCEPT !.path = y] = [path |-> y, st |-> d.st, rest |-> d.rest]
      /\ \A y : [e EXCEPT !.st = y] = [path |-> d.path, st |-> y, rest |-> d.rest]
  OBVIOUS
<1> QED BY <1>1, <1>2

\* What libfuse forgets when a file or an empty directory is removed.
LEMMA ForgetGives ==
    ASSUME BaseInv, NEW p \in UserPath, ForgetNode(p), UNCHANGED <<orphans, handle_path>>,
           KindsKept({p})
    PROVE  FilesInv' /\ DirsInv'
<1> DEFINE S == {p} \cup Below(p)
<1>1. /\ open' = [h \in Handle |-> IF open[h] \in S THEN Unlinked ELSE open[h]]
      /\ dirs' = [x \in DirHandle |->
                        IF dirs[x] # None /\ dirs[x].path \in S
                        THEN [dirs[x] EXCEPT !.st = "gone"] ELSE dirs[x]]
  BY DEF ForgetNode
<1>2. p \in S
  OBVIOUS
<1> HIDE DEF S
<1>3. \A x \in UserPath : KindOf(x)' = Last(hist'[x]).kind
  BY DEF KindOf
<1>4. FilesInv'
  <2>1. /\ open \in [Handle -> UserPath \cup {None, Unlinked}]
        /\ handle_path' \in [Handle -> UserPath \cup {None}]
        /\ orphans' \subseteq Handle /\ ("other" \notin Ops => orphans' = {})
    BY DEF BaseInv, FilesInv
  <2>2. open' \in [Handle -> UserPath \cup {None, Unlinked}]
    BY <1>1, <2>1
  <2>3. ASSUME NEW h \in Handle
        PROVE  /\ open'[h] = None => handle_path'[h] = None /\ h \notin orphans'
               /\ open'[h] \in UserPath => h \in orphans' \/ Last(hist'[open'[h]]).kind = "file"
               /\ "open" \notin Ops => handle_path'[h] = None
               /\ handle_path'[h] # None /\ "rename" \notin Ops =>
                       open'[h] \in {handle_path'[h], Unlinked}
    <3>1. /\ open[h] = None => handle_path[h] = None /\ h \notin orphans
          /\ open[h] \in UserPath => h \in orphans \/ KindOf(open[h]) = "file"
          /\ "open" \notin Ops => handle_path[h] = None
          /\ handle_path[h] # None /\ "rename" \notin Ops => open[h] \in {handle_path[h], Unlinked}
      BY DEF BaseInv, FilesInv
    <3>2. CASE open[h] \in S
      <4>1. open'[h] = Unlinked
        BY <1>1, <3>2
      <4> QED BY <3>1, <4>1, PathIs
    <3>3. CASE open[h] \notin S
      <4>1. open'[h] = open[h] /\ open[h] # p
        BY <1>1, <1>2, <3>3
      <4> QED BY <1>3, <3>1, <4>1 DEF KindsKept
    <3> QED BY <3>2, <3>3
  <2> QED BY <2>1, <2>2, <2>3, FilesAre
<1>5. DirsInv'
  <2>1. ASSUME NEW x \in DirHandle, dirs'[x] # None
        PROVE  /\ OpenDir(dirs'[x])
               /\ dirs'[x].st \in {"unread", "read"} /\ "other" \notin Ops =>
                       Last(hist'[dirs'[x].path]).kind = "dir"
    <3> DEFINE d == dirs[x]
    <3>1. d # None
      BY <1>1, <2>1
    <3>2. /\ OpenDir(d) /\ d.path \in UserPath
          /\ d.st \in {"unread", "read"} /\ "other" \notin Ops => KindOf(d.path) = "dir"
      BY <3>1 DEF BaseInv, DirsInv, OpenDir
    <3>3. dirs'[x] = IF d.path \in S THEN [d EXCEPT !.st = "gone"] ELSE d
      BY <1>1, <3>1
    <3> HIDE DEF d
    <3>4. CASE d.path \in S
      <4>1. dirs'[x] = [path |-> d.path, st |-> "gone", rest |-> d.rest]
        BY <3>2, <3>3, <3>4, DirWith
      <4> QED BY <3>2, <4>1 DEF OpenDir, DirRecord
    <3>5. CASE d.path \notin S
      <4>1. dirs'[x] = d /\ d.path # p
        BY <1>2, <3>3, <3>5
      <4> QED BY <1>3, <3>2, <4>1 DEF KindsKept
    <3> QED BY <3>4, <3>5
  <2>2. dirs' = [x \in DirHandle |-> dirs'[x]]
    BY <1>1
  <2> QED BY <2>1, <2>2, DirsAre
<1> QED BY <1>4, <1>5

\* What is open at and below p has moved to q.
LEMMA MoveGives ==
    ASSUME BaseInv, "rename" \in Ops, NEW p \in UserPath, NEW q \in UserPath, MoveNode(p, q),
           UNCHANGED <<orphans, handle_path>>,
           KindsKept({p, q} \cup Below(p) \cup Below(q)),
           \A x \in {p} \cup Below(p) :
                /\ x \in UserPath /\ Moved(x, p, q) \in UserPath
                /\ EntryNames(x) \subseteq EntryNames(Moved(x, p, q))
                /\ KindOf(x) # "none" => KindOf(Moved(x, p, q))' = KindOf(x)
    PROVE  FilesInv' /\ DirsInv'
<1> DEFINE S == {p} \cup Below(p)
           T == {q} \cup Below(q)
           M(x) == Moved(x, p, q)
<1>1. /\ open' = [h \in Handle |-> IF open[h] \in S THEN M(open[h])
                                    ELSE IF open[h] \in T THEN Unlinked ELSE open[h]]
      /\ dirs' = [x \in DirHandle |->
                        IF dirs[x] = None THEN None
                        ELSE IF dirs[x].path \in S
                             THEN [dirs[x] EXCEPT !.path = M(dirs[x].path)]
                        ELSE IF dirs[x].path \in T THEN [dirs[x] EXCEPT !.st = "gone"]
                        ELSE dirs[x]]
  BY DEF MoveNode
<1>2. \A x \in UserPath : x \notin S /\ x \notin T => KindOf(x)' = KindOf(x)
  BY DEF KindsKept
<1>3. \A x \in S : /\ x \in UserPath /\ M(x) \in UserPath
                   /\ EntryNames(x) \subseteq EntryNames(M(x))
                   /\ KindOf(x) # "none" => KindOf(M(x))' = KindOf(x)
  OBVIOUS
<1> HIDE DEF S, T, M
<1>4. \A x \in UserPath : KindOf(x)' = Last(hist'[x]).kind
  BY DEF KindOf
<1>5. FilesInv'
  <2>1. /\ open \in [Handle -> UserPath \cup {None, Unlinked}]
        /\ handle_path' \in [Handle -> UserPath \cup {None}]
        /\ orphans' \subseteq Handle /\ ("other" \notin Ops => orphans' = {})
    BY DEF BaseInv, FilesInv
  <2>2. open' \in [Handle -> UserPath \cup {None, Unlinked}]
    BY <1>1, <1>3, <2>1
  <2>3. ASSUME NEW h \in Handle
        PROVE  /\ open'[h] = None => handle_path'[h] = None /\ h \notin orphans'
               /\ open'[h] \in UserPath => h \in orphans' \/ Last(hist'[open'[h]]).kind = "file"
               /\ "open" \notin Ops => handle_path'[h] = None
    <3>1. /\ open[h] = None => handle_path[h] = None /\ h \notin orphans
          /\ open[h] \in UserPath => h \in orphans \/ KindOf(open[h]) = "file"
          /\ "open" \notin Ops => handle_path[h] = None
      BY DEF BaseInv, FilesInv
    <3>2. CASE open[h] \in S
      <4>1. open'[h] = M(open[h]) /\ open[h] \in UserPath /\ M(open[h]) \in UserPath
        BY <1>1, <1>3, <3>2
      <4>2. KindOf(open[h]) = "file" => Last(hist'[M(open[h])]).kind = "file"
        BY <1>3, <1>4, <3>2
      <4> QED BY <3>1, <4>1, <4>2, PathIs
    <3>3. CASE open[h] \notin S /\ open[h] \in T
      <4>1. open'[h] = Unlinked
        BY <1>1, <3>3
      <4> QED BY <3>1, <4>1, PathIs
    <3>4. CASE open[h] \notin S /\ open[h] \notin T
      <4>1. open'[h] = open[h]
        BY <1>1, <3>4
      <4> QED BY <1>2, <1>4, <3>1, <3>4, <4>1
    <3> QED BY <3>2, <3>3, <3>4
  <2> QED BY <2>1, <2>2, <2>3, FilesAre
<1>6. DirsInv'
  <2>1. ASSUME NEW x \in DirHandle, dirs'[x] # None
        PROVE  /\ OpenDir(dirs'[x])
               /\ dirs'[x].st \in {"unread", "read"} /\ "other" \notin Ops =>
                       Last(hist'[dirs'[x].path]).kind = "dir"
    <3> DEFINE d == dirs[x]
    <3>1. d # None
      BY <1>1, <2>1
    <3>2. /\ OpenDir(d) /\ d.path \in UserPath /\ d.rest \in Seq(EntryRecords(d.path))
          /\ d.st \in {"unread", "read", "cached", "gone"}
          /\ d.st \in {"unread", "read"} /\ "other" \notin Ops => KindOf(d.path) = "dir"
      BY <3>1 DEF BaseInv, DirsInv, OpenDir
    <3>3. dirs'[x] = IF d.path \in S THEN [d EXCEPT !.path = M(d.path)]
                     ELSE IF d.path \in T THEN [d EXCEPT !.st = "gone"] ELSE d
      BY <1>1, <3>1
    <3> HIDE DEF d
    <3>4. CASE d.path \in S
      <4> DEFINE y == M(d.path)
      <4>1. dirs'[x] = [path |-> y, st |-> d.st, rest |-> d.rest]
        BY <3>2, <3>3, <3>4, DirWith
      <4>2. /\ y \in UserPath /\ EntryNames(d.path) \subseteq EntryNames(y)
            /\ KindOf(d.path) = "dir" => Last(hist'[y]).kind = "dir"
        BY <1>3, <1>4, <3>4
      <4> HIDE DEF y
      <4>3. d.rest \in Seq(EntryRecords(y))
        BY <3>2, <4>2, NamesMonotonic
      <4> QED BY <3>2, <4>1, <4>2, <4>3 DEF OpenDir, DirRecord
    <3>5. CASE d.path \notin S /\ d.path \in T
      <4>1. dirs'[x] = [path |-> d.path, st |-> "gone", rest |-> d.rest]
        BY <3>2, <3>3, <3>5, DirWith
      <4> QED BY <3>2, <4>1 DEF OpenDir, DirRecord
    <3>6. CASE d.path \notin S /\ d.path \notin T
      <4>1. dirs'[x] = d
        BY <3>3, <3>6
      <4> QED BY <1>2, <1>4, <3>2, <3>6, <4>1
    <3> QED BY <3>4, <3>5, <3>6
  <2>2. dirs' = [x \in DirHandle |-> dirs'[x]]
    BY <1>1
  <2> QED BY <2>1, <2>2, DirsAre
<1> QED BY <1>5, <1>6

\* The caches lose entries only.
LEMMA FewerBrings ==
    ASSUME ListsFewer(caches', caches)
    PROVE  /\ BringsAtMost(caches'.attr, caches.attr) /\ BringsAtMost(caches'.dir, caches.dir)
           /\ BringsAtMost(caches'.symlink, caches.symlink)
  BY DEF ListsFewer, BringsAtMost, Adds
-----------------------------------------------------------------------------
(* The handlers *)

\* A step that reads the server.
LEMMA StoredStep ==
    ASSUME BaseInv, UNCHANGED <<hist, changed, now>>, NEW a, NEW l, NEW s,
           CacheInv(StatData, a, None), CacheInv(Seq(Names), l, None), ListsNames(l),
           CacheInv(StatData, s, None),
           Adds(a, caches.attr, FreshAttrs), Adds(l, caches.dir, FreshDirs),
           Adds(s, caches.symlink, FreshLinks),
           caches' = [attr |-> a, dir |-> l, symlink |-> s]
    PROVE  CachesInv(caches') /\ Reads
<1>1. caches'.attr = a /\ caches'.dir = l /\ caches'.symlink = s
  OBVIOUS
<1>2. CachesInv(caches')
  BY <1>1 DEF CachesInv
<1>3. Reads
  BY <1>1 DEF Reads, BaseInv
<1> QED BY <1>2, <1>3

\* Single fields of the caches.
LEMMA FieldsAre ==
    ASSUME BaseInv, NEW a, NEW l
    PROVE  /\ [caches EXCEPT !.attr = a] =
                    [attr |-> a, dir |-> caches.dir, symlink |-> caches.symlink]
           /\ [caches EXCEPT !.dir = l] =
                    [attr |-> caches.attr, dir |-> l, symlink |-> caches.symlink]
           /\ [caches EXCEPT !.symlink = a] =
                    [attr |-> caches.attr, dir |-> caches.dir, symlink |-> a]
           /\ [caches EXCEPT !.attr = a, !.dir = l] =
                    [attr |-> a, dir |-> l, symlink |-> caches.symlink]
           /\ caches = [attr |-> caches.attr, dir |-> caches.dir, symlink |-> caches.symlink]
<1> DEFINE c == [attr |-> caches.attr, dir |-> caches.dir, symlink |-> caches.symlink]
           b == [c EXCEPT !.attr = a]
<1>1. caches = c
  BY DEF BaseInv, CachesInv
<1>2. b = [attr |-> a, dir |-> caches.dir, symlink |-> caches.symlink]
  OBVIOUS
<1>3. /\ [c EXCEPT !.dir = l] = [attr |-> caches.attr, dir |-> l, symlink |-> caches.symlink]
      /\ [c EXCEPT !.symlink = a] = [attr |-> caches.attr, dir |-> caches.dir, symlink |-> a]
  OBVIOUS
<1>4. [c EXCEPT !.attr = a, !.dir = l] = [b EXCEPT !.dir = l]
  OBVIOUS
<1> HIDE DEF b
<1>5. [b EXCEPT !.dir = l] = [attr |-> a, dir |-> l, symlink |-> caches.symlink]
  BY <1>2
<1> QED BY <1>1, <1>2, <1>3, <1>4, <1>5 DEF b

\* Nothing is stored.
LEMMA AddsNothing ==
    /\ \A c, X : Adds(c, c, X)
    /\ \A D, c, t, X : CacheInv(D, c, None) => Adds(Evicted(c, t), c, X)
<1>1. ASSUME NEW D, NEW c, NEW t, NEW X, CacheInv(D, c, None) PROVE Adds(Evicted(c, t), c, X)
  <2>1. ListsNoMore(Evicted(c, t), c)
    BY <1>1, EvictedAdds
  <2> QED BY <2>1 DEF ListsNoMore, Adds
<1> QED BY <1>1 DEF Adds

\* A step that leaves the server and the caches alone.
LEMMA SameReads ==
    ASSUME UNCHANGED <<hist, changed, caches>>, now <= now'
    PROVE  Reads
  BY AddsNothing DEF Reads

\* Whether a table grows is chosen from booleans.
LEMMA GrowthsAre == Growths \subseteq BOOLEAN
  BY DEF Growths

\* sftfs_cached_getattr().
LEMMA GetattrStep ==
    ASSUME StrEqDecides, BaseInv, NEW p \in UserPath, NEW h \in Handle \cup {None}, Getattr(p, h)
    PROVE  BaseInv' /\ Reads
<1>1. UNCHANGED <<hist, files, dirs, now, changed>> /\ (h # None => open[h] = p)
  BY DEF Getattr
<1>2. PICK grow \in BOOLEAN :
        caches' = [caches EXCEPT !.attr = LookedAttr(caches.attr, p, SftpGetattr(p, h), grow)]
  BY GrowthsAre DEF Getattr
<1> DEFINE a == LookedAttr(caches.attr, p, SftpGetattr(p, h), grow)
<1>3. /\ p \in Path /\ Canon(p) = p /\ HistInv /\ now \in 0 .. MaxTime
      /\ h \in orphans => open[h] = p /\ Canon(p) = p
  BY <1>1, KeyIs, CachedAssumption DEF BaseInv, FilesInv
<1>4. /\ CacheInv(StatData, caches.attr, None) /\ CacheInv(Seq(Names), caches.dir, None)
      /\ ListsNames(caches.dir) /\ CacheInv(StatData, caches.symlink, None)
  BY DEF BaseInv, CachesInv
<1>5. CacheInv(StatData, a, None) /\ Adds(a, caches.attr, FreshAttrs)
  BY <1>3, <1>4, GetattrGives
<1> HIDE DEF a
<1>6. caches' = [attr |-> a, dir |-> caches.dir, symlink |-> caches.symlink]
  BY <1>2, FieldsAre DEF a
<1>7. CachesInv(caches') /\ Reads
  BY <1>1, <1>4, <1>5, <1>6, AddsNothing, StoredStep
<1> QED BY <1>1, <1>3, <1>7, SameBase

LEMMA ReadlinkStep ==
    ASSUME StrEqDecides, BaseInv, NEW p \in UserPath, Readlink(p)
    PROVE  BaseInv' /\ Reads
<1>1. UNCHANGED <<hist, files, dirs, now, changed>>
  BY DEF Readlink
<1>2. PICK grow \in BOOLEAN, stored \in BOOLEAN :
        caches' = [caches EXCEPT !.symlink =
                    LookedSymlink(caches.symlink, p, SftpReadlink(p), grow, stored)]
  BY GrowthsAre DEF Readlink
<1> DEFINE v == SftpReadlink(p)
           s == LookedSymlink(caches.symlink, p, v, grow, stored)
<1>3. p \in Path /\ HistInv /\ now \in 0 .. MaxTime
  BY KeyIs DEF BaseInv
<1>4. /\ CacheInv(StatData, caches.attr, None) /\ CacheInv(Seq(Names), caches.dir, None)
      /\ ListsNames(caches.dir) /\ CacheInv(StatData, caches.symlink, None)
  BY DEF BaseInv, CachesInv
<1>5. v = IF KindOf(p) = "link" THEN Value(p) ELSE None
  BY DEF SftpReadlink
<1>6. Value(p) \in StatData
  BY <1>3, KindIs
<1> HIDE DEF v
<1>7. CacheInv(StatData, s, None) /\ Adds(s, caches.symlink, Entered(p, v))
  BY <1>3, <1>4, <1>5, <1>6, LookedSymlinkGives
<1> HIDE DEF s
<1>8. Entered(p, v) \subseteq FreshLinks
  <2> SUFFICES ASSUME v # None PROVE ListedEntry(p, v, now) \in FreshLinks
    BY DEF Entered
  <2>1. v = Value(p) /\ KindOf(p) # "none" /\ v \in StatData
    BY <1>5, <1>6
  <2> QED BY <1>3, <2>1, ListedEntryIs DEF FreshLinks
<1>9. Adds(s, caches.symlink, FreshLinks)
  BY <1>7, <1>8 DEF Adds
<1>10. caches' = [attr |-> caches.attr, dir |-> caches.dir, symlink |-> s]
  BY <1>2, FieldsAre DEF s, v
<1>11. CachesInv(caches') /\ Reads
  BY <1>1, <1>4, <1>7, <1>9, <1>10, AddsNothing, StoredStep
<1> QED BY <1>1, <1>3, <1>11, SameBase

\* Attributes are set under the path p, of t in truth: the kinds of objects stay.
LEMMA AttrSetStep ==
    ASSUME StrEqDecides, BaseInv, NEW p \in UserPath, NEW t, SftpSetstat(p, t), AttrSet(p, t)
    PROVE  BaseInv' /\ Changes
<1> DEFINE S == {t} \cap UserPath
           ks == [x \in S |-> KindOf(x)]
           R == {p} \cap {t}
<1>1. HistInv /\ TreeInv /\ now \in 0 .. MaxTime /\ CachesInv(caches) /\ p \in Path
  BY KeyIs DEF BaseInv
<1>2. Serve(ks) /\ ks \in [S -> Kinds] /\ S \subseteq UserPath /\ \A x \in S : ks[x] = KindOf(x)
  BY <1>1, KindIs DEF SftpSetstat
<1>3. R \subseteq S /\ \A x \in R : x = p
  OBVIOUS
<1> HIDE DEF ks, R, S
<1>4. Serves /\ KindsKept({}) /\ Renews(S)
  BY <1>1, <1>2, SetstatGives
<1>5. Renews(R)
  BY <1>3, <1>4 DEF Renews
<1>6. /\ Mine(R, FALSE) /\ caches' = InvalAttr(caches, p)
      /\ UNCHANGED <<files, dirs, now>> /\ FALSE \in BOOLEAN
  BY DEF AttrSet, R
<1>7. /\ ChangedInv'
      /\ \A x \in UserPath \ {Root} :
            IF x \in R THEN /\ Ver(x)' = Ver(x) + 1 /\ changed'[x].attr = Ver(x)'
                            /\ changed'[x].link = changed[x].link
            ELSE changed'[x] = changed[x]
  BY <1>4, <1>5, <1>6, MineGives
<1>8. /\ CachesInv(caches') /\ ListsFewer(caches', caches)
      /\ ~ RenameOntoCached => Unlisted(caches'.attr, p)
  BY <1>1, <1>6, InvalAttrGives
<1>9. \A x \in UserPath \ {Root} : Forgets(x)
  BY <1>3, <1>7, <1>8, RenameAssumption DEF Forgets
<1>10. Changes
  BY <1>4, <1>6, <1>8, <1>9, FewerBrings DEF Changes, Serves
<1>11. FilesInv' /\ DirsInv'
  BY <1>4, <1>6, FilesKept, DirsKept
<1> QED BY <1>1, <1>4, <1>6, <1>7, <1>8, <1>10, <1>11 DEF BaseInv, Serves

\* What p names is made or removed.
LEMMA NamedStep ==
    ASSUME StrEqDecides, BaseInv, NEW p \in UserPath, Serves, Renews({p}), Mine({p}, TRUE),
           caches' = InvalAllDir(caches, p), UNCHANGED now
    PROVE  CachesInv(caches') /\ ChangedInv' /\ Changes
<1> DEFINE S == {p}
<1>1. Renews(S) /\ Mine(S, TRUE) /\ TRUE \in BOOLEAN /\ CachesInv(caches)
  BY DEF BaseInv
<1> HIDE DEF S
<1>2. /\ ChangedInv'
      /\ \A x \in UserPath \ {Root} :
            IF x \in S THEN /\ Ver(x)' = Ver(x) + 1 /\ changed'[x].attr = Ver(x)'
                            /\ changed'[x].link = Ver(x)'
            ELSE changed'[x] = changed[x]
  BY <1>1, MineGives
<1>3. /\ CachesInv(caches') /\ ListsFewer(caches', caches)
      /\ ~ RenameOntoCached => UnlistedAll(caches', p)
  BY <1>1, InvalAllDirGives
<1>4. \A x \in UserPath \ {Root} : Forgets(x)
  BY <1>2, <1>3, RenameAssumption DEF Forgets, S, UnlistedAll
<1>5. Changes
  BY <1>3, <1>4, FewerBrings DEF Changes, Serves
<1> QED BY <1>2, <1>3, <1>5

LEMMA MkdirStep ==
    ASSUME StrEqDecides, BaseInv, NEW p \in UserPath, Mkdir(p) \/ Symlink(p)
    PROVE  BaseInv' /\ Changes
<1>1. PICK k \in {"dir", "link"} : SftpMake(p, k)
  BY DEF Mkdir, Symlink, SftpMkdir, SftpSymlink
<1>2. /\ Serves /\ Renews({p}) /\ KindsKept({p})
      /\ p # Root /\ KindOf(p) = "none" /\ KindOf(p)' = k
  BY <1>1, MakeGives DEF Kinds
<1>3. Mine({p}, TRUE) /\ caches' = InvalAllDir(caches, p) /\ UNCHANGED <<files, dirs, now>>
  BY DEF Mkdir, Symlink
<1>4. CachesInv(caches') /\ ChangedInv' /\ Changes
  BY <1>2, <1>3, NamedStep
<1>5. \A h \in Handle : open[h] = p => h \in orphans
  BY <1>2 DEF BaseInv, FilesInv
<1>6. FilesInv'
  BY <1>2, <1>3, <1>5, FilesKept
<1>7. DirsInv'
  BY <1>2, <1>3, DirsKept
<1>8. now' \in 0 .. MaxTime
  BY <1>3 DEF BaseInv
<1> QED BY <1>2, <1>4, <1>6, <1>7, <1>8 DEF BaseInv, Serves

LEMMA RemoveStep ==
    ASSUME StrEqDecides, BaseInv, NEW p \in UserPath, Unlink(p) \/ Rmdir(p)
    PROVE  BaseInv' /\ Changes
<1>1. SftpUnlink(p) \/ SftpRmdir(p)
  BY DEF Unlink, Rmdir
<1>2. Serves /\ Renews({p}) /\ KindsKept({p})
  BY <1>1, RemoveGives
<1>3. /\ Mine({p}, TRUE) /\ caches' = InvalAllDir(caches, p)
      /\ ForgetNode(p) /\ UNCHANGED <<orphans, handle_path, now>>
  BY DEF Unlink, Rmdir
<1>4. CachesInv(caches') /\ ChangedInv' /\ Changes
  BY <1>2, <1>3, NamedStep
<1>5. FilesInv' /\ DirsInv'
  BY <1>2, <1>3, ForgetGives
<1>6. now' \in 0 .. MaxTime
  BY <1>3 DEF BaseInv
<1> QED BY <1>2, <1>4, <1>5, <1>6 DEF BaseInv, Serves

\* An open directory, whatever the server does to it.
LEMMA OpenDirIs ==
    ASSUME BaseInv, NEW x \in DirHandle, dirs[x] # None
    PROVE  /\ OpenDir(dirs[x]) /\ dirs[x].path \in UserPath
           /\ dirs[x].rest \in Seq(EntryRecords(dirs[x].path))
           /\ dirs[x].st \in {"unread", "read"} /\ "other" \notin Ops =>
                KindOf(dirs[x].path) = "dir"
  BY DEF BaseInv, DirsInv, OpenDir

LEMMA RenameStep ==
    ASSUME StrEqDecides, BaseInv, NEW p \in UserPath, NEW q \in UserPath, Rename(p, q)
    PROVE  BaseInv' /\ Changes
<1>1. "rename" \in Ops /\ SftpRename(p, q) /\ (RenameOntoCached \/ ~ Cached(q))
  BY DEF Rename
<1>2. /\ Serves /\ Renews({p, q})
      /\ KindsKept({p, q} \cup Below(p) \cup Below(q))
      /\ p # q /\ p # Root /\ q # Root
      /\ KindOf(p)' = "none" /\ KindOf(q)' # "none" /\ Empty(q)
      /\ \A x \in {p} \cup Below(p) :
            /\ x \in UserPath /\ Moved(x, p, q) \in UserPath
            /\ EntryNames(x) \subseteq EntryNames(Moved(x, p, q))
            /\ KindOf(x) # "none" => KindOf(Moved(x, p, q))' = KindOf(x)
      /\ Moved(p, p, q) = q
  BY <1>1, RenameGives
<1>3. PICK lost \in IF RenameMayFail THEN SUBSET DOMAIN caches ELSE {{}} :
        caches' = RenameAll(caches, p, q, lost)
  BY DEF Rename
<1>4. /\ Mine({p, q}, TRUE) /\ MoveNode(p, q) /\ UNCHANGED <<orphans, handle_path, now>>
  BY DEF Rename
<1>5. CachesInv(caches) /\ now \in 0 .. MaxTime /\ now' \in 0 .. MaxTime
  BY <1>4 DEF BaseInv
<1>6. /\ CachesInv(caches')
      /\ Brings(caches'.attr, caches.attr, q) /\ Brings(caches'.dir, caches.dir, q)
      /\ Brings(caches'.symlink, caches.symlink, q)
      /\ ~ RenameOntoCached => UnlistedAll(caches', p)
  <2>1. lost # {} => RenameMayFail
    OBVIOUS
  <2>2. EntryNames(p) \subseteq EntryNames(q)
    BY <1>2
  <2> QED BY <1>1, <1>2, <1>3, <1>5, <2>1, <2>2, RenameAllGives
<1>7. /\ ChangedInv'
      /\ \A x \in UserPath \ {Root} :
            IF x \in {p, q} THEN /\ Ver(x)' = Ver(x) + 1 /\ changed'[x].attr = Ver(x)'
                                 /\ changed'[x].link = Ver(x)'
            ELSE changed'[x] = changed[x]
  <2> DEFINE S == {p, q}
  <2>1. Renews(S) /\ Mine(S, TRUE) /\ TRUE \in BOOLEAN
    BY <1>2, <1>4
  <2> HIDE DEF S
  <2>2. /\ ChangedInv'
        /\ \A x \in UserPath \ {Root} :
            IF x \in S THEN /\ Ver(x)' = Ver(x) + 1 /\ changed'[x].attr = Ver(x)'
                            /\ changed'[x].link = Ver(x)'
            ELSE changed'[x] = changed[x]
    BY <1>2, <2>1, MineGives
  <2> QED BY <2>2 DEF S
<1>8. Changes
  <2>1. \A x \in UserPath \ {Root} : Forgets(x)
    BY <1>1, <1>2, <1>6, <1>7 DEF Forgets
  <2>2. BringsAtMost(caches'.attr, caches.attr) /\ BringsAtMost(caches'.dir, caches.dir)
        /\ BringsAtMost(caches'.symlink, caches.symlink)
    BY <1>1, <1>2, <1>6 DEF Brings, BringsAtMost
  <2> QED BY <1>2, <1>4, <2>1, <2>2 DEF Changes, Serves
<1>9. FilesInv' /\ DirsInv'
  BY <1>1, <1>2, <1>4, MoveGives
<1> QED BY <1>2, <1>5, <1>6, <1>7, <1>8, <1>9 DEF BaseInv, Serves

\* A step of the mount's that leaves the server alone.
LEMMA SameServer ==
    ASSUME BaseInv, UNCHANGED <<hist, changed>>
    PROVE  /\ HistInv' /\ TreeInv' /\ ChangedInv'
           /\ \A x \in UserPath : Ver(x)' = Ver(x) /\ KindOf(x)' = KindOf(x)
<1>1. \A x \in UserPath : Ver(x)' = Ver(x) /\ KindOf(x)' = KindOf(x)
  BY DEF Ver, KindOf
<1>2. HistInv' /\ ChangedInv'
  BY <1>1 DEF BaseInv, HistInv, ChangedInv
<1>3. TreeInv'
  BY <1>1, PathIs DEF BaseInv, TreeInv
<1> QED BY <1>1, <1>2, <1>3

\* The server's step, the caches and the files being left alone.
LEMMA ServedStep ==
    ASSUME BaseInv, Serves, UNCHANGED <<caches, now, changed>>, FilesInv', DirsInv'
    PROVE  BaseInv' /\ Changes
<1>1. ChangedInv' /\ \A x \in UserPath \ {Root} : Forgets(x)
  BY NotMine
<1>2. ListsFewer(caches', caches)
  BY AddsNothing DEF ListsFewer
<1>3. Changes
  BY <1>1, <1>2, FewerBrings DEF Changes, Serves
<1>4. CachesInv(caches') /\ now' \in 0 .. MaxTime
  BY DEF BaseInv
<1> QED BY <1>1, <1>3, <1>4 DEF BaseInv, Serves

\* A file is opened, which the map may know.
LEMMA FileOpened ==
    ASSUME BaseInv, NEW p \in UserPath, NEW h \in Handle, open[h] = None,
           open' = [open EXCEPT ![h] = p], UNCHANGED orphans,
           handle_path' = handle_path \/ ("open" \in Ops /\ handle_path' = [handle_path EXCEPT ![h] = p]),
           NEW S, KindsKept(S), \A g \in Handle : open[g] \in S => g \in orphans, KindOf(p)' = "file"
    PROVE  FilesInv'
<1>1. /\ open \in [Handle -> UserPath \cup {None, Unlinked}]
      /\ handle_path \in [Handle -> UserPath \cup {None}]
      /\ orphans' \subseteq Handle /\ ("other" \notin Ops => orphans' = {})
  BY DEF BaseInv, FilesInv
<1>2. /\ open' \in [Handle -> UserPath \cup {None, Unlinked}]
      /\ handle_path' \in [Handle -> UserPath \cup {None}]
      /\ \A g \in Handle : open'[g] = IF g = h THEN p ELSE open[g]
      /\ \A g \in Handle : g # h => handle_path'[g] = handle_path[g]
      /\ handle_path'[h] = handle_path[h] \/ ("open" \in Ops /\ handle_path'[h] = p)
  <2>1. /\ open' \in [Handle -> UserPath \cup {None, Unlinked}]
        /\ \A g \in Handle : open'[g] = IF g = h THEN p ELSE open[g]
    BY <1>1
  <2>2. CASE handle_path' = handle_path
    BY <1>1, <2>1, <2>2
  <2>3. CASE "open" \in Ops /\ handle_path' = [handle_path EXCEPT ![h] = p]
    <3>1. /\ handle_path' \in [Handle -> UserPath \cup {None}] /\ handle_path'[h] = p
          /\ \A g \in Handle : g # h => handle_path'[g] = handle_path[g]
      BY <1>1, <2>3
    <3> QED BY <2>1, <2>3, <3>1
  <2> QED BY <2>2, <2>3
<1>3. ASSUME NEW g \in Handle
      PROVE  /\ open'[g] = None => handle_path'[g] = None /\ g \notin orphans'
             /\ open'[g] \in UserPath => g \in orphans' \/ Last(hist'[open'[g]]).kind = "file"
             /\ "open" \notin Ops => handle_path'[g] = None
             /\ handle_path'[g] # None /\ "rename" \notin Ops =>
                    open'[g] \in {handle_path'[g], Unlinked}
  <2>1. /\ open[g] = None => handle_path[g] = None /\ g \notin orphans
        /\ open[g] \in UserPath => g \in orphans \/ KindOf(open[g]) = "file"
        /\ "open" \notin Ops => handle_path[g] = None
        /\ handle_path[g] # None /\ "rename" \notin Ops => open[g] \in {handle_path[g], Unlinked}
    BY DEF BaseInv, FilesInv
  <2>2. \A x \in UserPath : KindOf(x)' = Last(hist'[x]).kind
    BY DEF KindOf
  <2>3. CASE g = h
    BY <1>2, <2>1, <2>2, <2>3, PathIs
  <2>4. CASE g # h
    <3>1. open'[g] = open[g] /\ handle_path'[g] = handle_path[g]
      BY <1>2, <2>4
    <3> QED BY <2>1, <2>2, <3>1 DEF KindsKept
  <2> QED BY <2>3, <2>4
<1> QED BY <1>1, <1>2, <1>3, FilesAre

\* sftfs_cached_open() and close() change the files only.
LEMMA OpenStep ==
    ASSUME BaseInv, NEW p \in UserPath, NEW h \in Handle, NEW trunc \in BOOLEAN, Open(p, h, trunc)
    PROVE  BaseInv' /\ (Reads \/ Changes)
<1> DEFINE S == {p}
           ks == [x \in S |-> "file"]
<1>1. /\ UNCHANGED <<caches, orphans, dirs, now, changed>> /\ "open" \in Ops
      /\ KindOf(p) = "file" /\ (Serve(ks) \/ UNCHANGED hist) /\ open[h] = None
      /\ open' = [open EXCEPT ![h] = p] /\ handle_path' = [handle_path EXCEPT ![h] = p]
  BY DEF Open, SftpOpen, Handled
<1>2. HistInv /\ TreeInv /\ now \in 0 .. MaxTime /\ CachesInv(caches)
  BY DEF BaseInv
<1>3. ks \in [S -> Kinds] /\ S \subseteq UserPath /\ \A x \in S : ks[x] = KindOf(x)
  BY <1>1 DEF Kinds
<1> HIDE DEF ks, S
<1>4. CASE Serve(ks)
  <2>1. Serves /\ KindsKept({})
    BY <1>2, <1>3, <1>4, SetstatGives
  <2>2. KindOf(p)' = "file"
    BY <1>1, <2>1 DEF KindsKept
  <2>3. FilesInv' /\ DirsInv'
    BY <1>1, <2>1, <2>2, FileOpened, DirsKept
  <2> QED BY <1>1, <2>1, <2>3, ServedStep
<1>5. CASE UNCHANGED hist
  <2>1. /\ HistInv' /\ TreeInv' /\ ChangedInv'
        /\ \A x \in UserPath : Ver(x)' = Ver(x) /\ KindOf(x)' = KindOf(x)
    BY <1>1, <1>5, SameServer
  <2>2. KindsKept({})
    BY <2>1 DEF KindsKept
  <2>3. KindOf(p)' = "file"
    BY <1>1, <2>1
  <2>4. FilesInv' /\ DirsInv'
    BY <1>1, <2>2, <2>3, FileOpened, DirsKept
  <2>5. Reads
    BY <1>1, <1>2, <1>5, SameReads
  <2> QED BY <1>1, <1>2, <2>1, <2>4, <2>5 DEF BaseInv
<1> QED BY <1>1, <1>4, <1>5

LEMMA CloseStep ==
    ASSUME BaseInv, NEW h \in Handle, Close(h)
    PROVE  BaseInv' /\ Reads
<1>1. /\ UNCHANGED <<hist, caches, dirs, now, changed>>
      /\ open' = [open EXCEPT ![h] = None] /\ orphans' = orphans \ {h}
  BY DEF Close
<1>2. PICK lost \in SUBSET (Handle \ {h}) : handle_path' = Unhandled(h, lost)
  BY DEF Close
<1>3. Reads
  BY <1>1, SameReads DEF BaseInv
<1>4. FilesInv'
  <2>1. /\ open \in [Handle -> UserPath \cup {None, Unlinked}]
        /\ handle_path \in [Handle -> UserPath \cup {None}]
        /\ orphans' \subseteq Handle /\ ("other" \notin Ops => orphans' = {})
    BY <1>1 DEF BaseInv, FilesInv
  <2>2. /\ open' \in [Handle -> UserPath \cup {None, Unlinked}]
        /\ handle_path' \in [Handle -> UserPath \cup {None}]
    BY <1>1, <1>2, <2>1 DEF Unhandled
  <2>3. \A g \in Handle :
            /\ open'[g] = IF g = h THEN None ELSE open[g]
            /\ handle_path'[g] = IF g = h \/ g \in lost THEN None ELSE handle_path[g]
    BY <1>1, <1>2, <2>1 DEF Unhandled
  <2>4. ASSUME NEW g \in Handle
        PROVE  /\ open'[g] = None => handle_path'[g] = None /\ g \notin orphans'
               /\ open'[g] \in UserPath => g \in orphans' \/ Last(hist'[open'[g]]).kind = "file"
               /\ "open" \notin Ops => handle_path'[g] = None
               /\ handle_path'[g] # None /\ "rename" \notin Ops =>
                        open'[g] \in {handle_path'[g], Unlinked}
    <3>1. /\ open[g] = None => handle_path[g] = None /\ g \notin orphans
          /\ open[g] \in UserPath => g \in orphans \/ Last(hist[open[g]]).kind = "file"
          /\ "open" \notin Ops => handle_path[g] = None
          /\ handle_path[g] # None /\ "rename" \notin Ops => open[g] \in {handle_path[g], Unlinked}
      BY DEF BaseInv, FilesInv, KindOf
    <3>2. CASE g = h
      BY <1>1, <2>3, <3>2, PathIs
    <3>3. CASE g # h
      BY <1>1, <2>3, <3>1, <3>3
    <3> QED BY <3>2, <3>3
  <2> QED BY <2>1, <2>2, <2>4, FilesAre
<1>5. \A x \in UserPath : Ver(x)' = Ver(x) /\ KindOf(x)' = KindOf(x)
  BY <1>1 DEF Ver, KindOf
<1>6. HistInv' /\ ChangedInv'
  BY <1>1, <1>5 DEF BaseInv, HistInv, ChangedInv
<1>7. TreeInv'
  BY <1>5, PathIs DEF BaseInv, TreeInv
<1>8. DirsInv'
  BY <1>1 DEF BaseInv, DirsInv, KindOf
<1> QED BY <1>1, <1>3, <1>4, <1>6, <1>7, <1>8 DEF BaseInv

LEMMA CreateStep ==
    ASSUME StrEqDecides, BaseInv, NEW p \in UserPath, NEW h \in Handle, Create(p, h)
    PROVE  BaseInv' /\ Changes
<1>1. /\ SftpCreate(p) /\ open[h] = None /\ open' = [open EXCEPT ![h] = p]
      /\ caches' = InvalAllDir(caches, p) /\ UNCHANGED <<orphans, handle_path, dirs, now>>
  BY DEF Create
<1>2. now' \in 0 .. MaxTime /\ CachesInv(caches)
  BY <1>1 DEF BaseInv
<1>3. CASE KindOf(p) = "file" /\ UNCHANGED <<hist, changed>>
  <2>1. /\ HistInv' /\ TreeInv' /\ ChangedInv'
        /\ \A x \in UserPath : Ver(x)' = Ver(x) /\ KindOf(x)' = KindOf(x)
    BY <1>3, SameServer
  <2>2. Serves /\ KindsKept({})
    BY <1>3, <2>1 DEF Serves, Extends, KindsKept
  <2>3. CachesInv(caches') /\ ListsFewer(caches', caches)
    BY <1>1, <1>2, InvalAllDirGives
  <2>4. \A x \in UserPath \ {Root} : Forgets(x)
    BY <1>3, <2>2, NotMine
  <2>5. Changes
    BY <1>1, <2>2, <2>3, <2>4, FewerBrings DEF Changes, Serves
  <2>6. FilesInv'
    BY <1>1, <1>3, <2>1, <2>2, FileOpened
  <2>7. DirsInv'
    BY <1>1, <2>2, DirsKept
  <2> QED BY <1>2, <2>1, <2>3, <2>5, <2>6, <2>7 DEF BaseInv
<1>4. CASE SftpMake(p, "file") /\ Mine({p}, TRUE)
  <2>1. /\ Serves /\ Renews({p}) /\ KindsKept({p})
        /\ p # Root /\ KindOf(p) = "none" /\ KindOf(p)' = "file"
    BY <1>4, MakeGives DEF Kinds
  <2>2. CachesInv(caches') /\ ChangedInv' /\ Changes
    BY <1>1, <1>4, <2>1, NamedStep
  <2>3. \A g \in Handle : open[g] \in {p} => g \in orphans
    BY <2>1 DEF BaseInv, FilesInv
  <2>4. FilesInv'
    BY <1>1, <2>1, <2>3, FileOpened
  <2>5. DirsInv'
    BY <1>1, <2>1, DirsKept
  <2> QED BY <1>2, <2>1, <2>2, <2>4, <2>5 DEF BaseInv, Serves
<1> QED BY <1>1, <1>3, <1>4 DEF SftpCreate

LEMMA WriteStep ==
    ASSUME StrEqDecides, BaseInv, NEW h \in Handle, NEW failed \in BOOLEAN, Write(h, failed)
    PROVE  BaseInv' /\ Changes
<1> DEFINE S == Written(h)
           ks == [p \in S |-> "file"]
<1>1. HistInv /\ TreeInv /\ now \in 0 .. MaxTime /\ CachesInv(caches)
  BY DEF BaseInv
<1>2. Serve(ks) /\ UNCHANGED <<files, dirs, now>> /\ open[h] # None
  BY DEF Write, SftpWrite
<1>3. /\ S \subseteq UserPath /\ \A x \in S : x = open[h] /\ KindOf(x) = "file"
      /\ handle_path[h] # None /\ "rename" \notin Ops => open[h] \in {handle_path[h], Unlinked}
      /\ handle_path[h] \in UserPath \cup {None}
  BY DEF BaseInv, FilesInv, Written
<1>4. ks \in [S -> Kinds] /\ S \subseteq UserPath /\ \A x \in S : ks[x] = KindOf(x)
  BY <1>3 DEF Kinds
<1> HIDE DEF ks
<1>5. \A x \in S : x = open[h]
  BY <1>3
<1> HIDE DEF S
<1>6. Serves /\ KindsKept({}) /\ Renews(S)
  BY <1>1, <1>2, <1>4, SetstatGives
<1>7. FilesInv' /\ DirsInv'
  BY <1>2, <1>6, FilesKept, DirsKept
<1>8. CASE failed \/ HandledPath(h) = None
  <2>1. UNCHANGED <<changed, caches>>
    BY <1>8 DEF Write
  <2> QED BY <1>2, <1>6, <1>7, <2>1, ServedStep
<1>9. CASE ~ (failed \/ HandledPath(h) = None)
  <2> DEFINE q == handle_path[h]
  <2>1. /\ Mine(S, FALSE) /\ caches' = InvalAttr(caches, q) /\ FALSE \in BOOLEAN
        /\ q # None
    BY <1>9 DEF Write, HandledPath, S
  <2>2. q \in Path /\ q \in UserPath
    BY <1>3, <2>1, KeyIs
  <2>3. "rename" \notin Ops => open[h] \in {q, Unlinked}
    BY <1>3, <2>1
  <2> HIDE DEF q
  <2>4. /\ ChangedInv'
        /\ \A x \in UserPath \ {Root} :
            IF x \in S THEN /\ Ver(x)' = Ver(x) + 1 /\ changed'[x].attr = Ver(x)'
                            /\ changed'[x].link = changed[x].link
            ELSE changed'[x] = changed[x]
    BY <1>6, <2>1, MineGives
  <2>5. /\ CachesInv(caches') /\ ListsFewer(caches', caches)
        /\ ~ RenameOntoCached => Unlisted(caches'.attr, q)
    BY <1>1, <2>1, <2>2, InvalAttrGives
  <2>6. ASSUME NEW x \in UserPath \ {Root} PROVE Forgets(x)
    <3>1. CASE x \notin S
      BY <2>4, <3>1 DEF Forgets
    <3>2. CASE x \in S
      <4>1. "rename" \notin Ops => x = q
        BY <1>5, <2>3, <3>2, PathIs
      <4>2. "rename" \in Ops \/ Unlisted(caches'.attr, x)
        BY <2>5, <4>1, RenameAssumption
      <4> QED BY <2>4, <3>2, <4>2 DEF Forgets
    <3> QED BY <3>1, <3>2
  <2>7. Changes
    BY <1>2, <1>6, <2>5, <2>6, FewerBrings DEF Changes, Serves
  <2> QED BY <1>1, <1>2, <1>6, <1>7, <2>4, <2>5, <2>7 DEF BaseInv, Serves
<1> QED BY <1>8, <1>9

\* Another user of the server.
LEMMA OtherSetattrStep ==
    ASSUME BaseInv, NEW p \in UserPath, OtherSetattr(p)
    PROVE  BaseInv' /\ Changes
<1> DEFINE ks == [x \in {p} |-> KindOf(p)]
           S == {p}
<1>1. HistInv /\ TreeInv /\ now \in 0 .. MaxTime
  BY DEF BaseInv
<1>2. Serve(ks) /\ ks \in [S -> Kinds] /\ S \subseteq UserPath /\ \A x \in S : ks[x] = KindOf(x)
  BY <1>1, KindIs DEF OtherSetattr
<1> HIDE DEF ks, S
<1>3. Serves /\ KindsKept({}) /\ Renews(S)
  BY <1>1, <1>2, SetstatGives
<1>4. UNCHANGED <<caches, files, dirs, now, changed>>
  BY DEF OtherSetattr
<1>5. FilesInv' /\ DirsInv'
  BY <1>3, <1>4, FilesKept, DirsKept
<1> QED BY <1>3, <1>4, <1>5, ServedStep

LEMMA OtherMakesStep ==
    ASSUME BaseInv, NEW p \in UserPath, NEW k \in {"file", "dir"}, OtherMakes(p, k)
    PROVE  BaseInv' /\ Changes
<1>1. SftpMake(p, k) /\ UNCHANGED <<caches, files, dirs, now, changed>> /\ "other" \in Ops
  BY DEF OtherMakes
<1>2. Serves /\ KindsKept({p}) /\ KindOf(p) = "none"
  BY <1>1, MakeGives DEF Kinds
<1>3. \A h \in Handle : open[h] = p => h \in orphans
  BY <1>2 DEF BaseInv, FilesInv
<1>4. FilesInv' /\ DirsInv'
  BY <1>1, <1>2, <1>3, FilesKept, DirsKept
<1> QED BY <1>1, <1>2, <1>4, ServedStep

LEMMA OtherRemovesStep ==
    ASSUME BaseInv, NEW p \in UserPath, OtherRemoves(p)
    PROVE  BaseInv' /\ Changes
<1>1. /\ SftpUnlink(p) \/ SftpRmdir(p)
      /\ UNCHANGED <<caches, open, handle_path, dirs, now, changed>> /\ "other" \in Ops
      /\ orphans' = orphans \cup {h \in Handle : open[h] = p}
  BY DEF OtherRemoves
<1>2. Serves /\ KindsKept({p})
  BY <1>1, RemoveGives
<1>3. FilesInv'
  <2>1. /\ open' \in [Handle -> UserPath \cup {None, Unlinked}]
        /\ handle_path' \in [Handle -> UserPath \cup {None}]
        /\ orphans' \subseteq Handle /\ ("other" \notin Ops => orphans' = {})
    BY <1>1 DEF BaseInv, FilesInv
  <2>2. ASSUME NEW g \in Handle
        PROVE  /\ open'[g] = None => handle_path'[g] = None /\ g \notin orphans'
               /\ open'[g] \in UserPath => g \in orphans' \/ Last(hist'[open'[g]]).kind = "file"
               /\ "open" \notin Ops => handle_path'[g] = None
               /\ handle_path'[g] # None /\ "rename" \notin Ops =>
                    open'[g] \in {handle_path'[g], Unlinked}
    <3>1. /\ open[g] = None => handle_path[g] = None /\ g \notin orphans
          /\ open[g] \in UserPath => g \in orphans \/ KindOf(open[g]) = "file"
          /\ "open" \notin Ops => handle_path[g] = None
          /\ handle_path[g] # None /\ "rename" \notin Ops => open[g] \in {handle_path[g], Unlinked}
      BY DEF BaseInv, FilesInv
    <3>2. \A x \in UserPath : KindOf(x)' = Last(hist'[x]).kind
      BY DEF KindOf
    <3>3. open[g] = None => open[g] # p
      BY PathIs
    <3>4. CASE open[g] = p
      BY <1>1, <3>1, <3>3, <3>4
    <3>5. CASE open[g] # p
      BY <1>1, <1>2, <3>1, <3>2, <3>5 DEF KindsKept
    <3> QED BY <3>4, <3>5
  <2> QED BY <2>1, <2>2, FilesAre
<1>4. DirsInv'
  BY <1>1, <1>2, DirsKept
<1> QED BY <1>1, <1>2, <1>3, <1>4, ServedStep

LEMMA TickStep ==
    ASSUME BaseInv, Tick
    PROVE  BaseInv' /\ Reads
<1>1. UNCHANGED <<hist, caches, files, dirs, changed>> /\ now < MaxTime /\ now' = now + 1
  BY DEF Tick
<1>2. now' \in 0 .. MaxTime /\ now <= now' /\ CachesInv(caches')
  BY <1>1, FileCacheAssumption DEF BaseInv
<1> QED BY <1>1, <1>2, SameReads, SameBase

\* Opening and closing a directory.
LEMMA DirChanged ==
    ASSUME BaseInv, UNCHANGED <<hist, files, now, changed>>, CachesInv(caches'),
           NEW x \in DirHandle, NEW d, dirs' = [dirs EXCEPT ![x] = d],
           d # None => /\ OpenDir(d)
                       /\ d.st \in {"unread", "read"} /\ "other" \notin Ops => KindOf(d.path) = "dir"
    PROVE  BaseInv'
<1>1. /\ HistInv' /\ TreeInv' /\ ChangedInv'
      /\ \A y \in UserPath : Ver(y)' = Ver(y) /\ KindOf(y)' = KindOf(y)
  BY SameServer
<1>2. KindsKept({})
  BY <1>1 DEF KindsKept
<1>3. FilesInv'
  <2> DEFINE S == {}
  <2>1. KindsKept(S) /\ \A h \in Handle : open[h] \notin S
    BY <1>2
  <2> HIDE DEF S
  <2> QED BY <2>1, FilesKept
<1>4. dirs = [y \in DirHandle |-> dirs[y]]
  BY DEF BaseInv, DirsInv
<1>5. /\ dirs' = [y \in DirHandle |-> dirs'[y]]
      /\ \A y \in DirHandle : dirs'[y] = IF y = x THEN d ELSE dirs[y]
  BY <1>4
<1>6. ASSUME NEW y \in DirHandle, dirs'[y] # None
      PROVE  /\ OpenDir(dirs'[y])
             /\ dirs'[y].st \in {"unread", "read"} /\ "other" \notin Ops =>
                    Last(hist'[dirs'[y].path]).kind = "dir"
  <2>1. \A q : KindOf(q) = Last(hist'[q]).kind
    BY DEF KindOf
  <2>2. CASE y = x
    BY <1>5, <1>6, <2>1, <2>2
  <2>3. CASE y # x
    <3>1. dirs'[y] = dirs[y]
      BY <1>5, <2>3
    <3> QED BY <1>6, <2>1, <3>1 DEF BaseInv, DirsInv
  <2> QED BY <2>2, <2>3
<1>7. DirsInv'
  BY <1>5, <1>6, DirsAre
<1> QED BY <1>1, <1>3, <1>7 DEF BaseInv

LEMMA OpendirStep ==
    ASSUME BaseInv, NEW p \in UserPath, NEW x \in DirHandle, Opendir(p, x)
    PROVE  BaseInv' /\ Reads
<1>1. /\ UNCHANGED <<hist, files, now, changed>>
      /\ caches' = [caches EXCEPT !.dir = Evicted(caches.dir, now)]
  BY DEF Opendir
<1>2. PICK st \in {"cached", "unread"} :
        /\ dirs' = [dirs EXCEPT ![x] = [path |-> p, st |-> st, rest |-> <<>>]]
        /\ st = "unread" => KindOf(p) = "dir"
  BY DEF Opendir, SftpOpendir
<1> DEFINE l == Evicted(caches.dir, now)
           d == [path |-> p, st |-> st, rest |-> <<>>]
<1>3. /\ CacheInv(StatData, caches.attr, None) /\ CacheInv(Seq(Names), caches.dir, None)
      /\ ListsNames(caches.dir) /\ CacheInv(StatData, caches.symlink, None)
      /\ now \in 0 .. MaxTime
  BY DEF BaseInv, CachesInv
<1>4. CacheInv(Seq(Names), l, None) /\ Adds(l, caches.dir, {}) /\ Adds(l, caches.dir, FreshDirs)
  BY <1>3, EvictedAdds, AddsNothing
<1>5. ListsNames(l)
  BY <1>3, <1>4, FewerNames
<1>6. caches' = [attr |-> caches.attr, dir |-> l, symlink |-> caches.symlink]
  BY <1>1, FieldsAre
<1> HIDE DEF l
<1>7. CachesInv(caches') /\ Reads
  BY <1>1, <1>3, <1>4, <1>5, <1>6, AddsNothing, StoredStep
<1>8. /\ OpenDir(d)
      /\ d.st \in {"unread", "read"} /\ "other" \notin Ops => KindOf(d.path) = "dir"
  <2>1. <<>> \in Seq(EntryRecords(p))
    BY EmptySeq
  <2> QED BY <1>2, <2>1 DEF OpenDir, DirRecord
<1>9. dirs' = [dirs EXCEPT ![x] = d]
  BY <1>2
<1> HIDE DEF d
<1>10. BaseInv'
  BY <1>1, <1>7, <1>8, <1>9, DirChanged
<1> QED BY <1>7, <1>10

LEMMA ClosedirStep ==
    ASSUME BaseInv, NEW x \in DirHandle, Closedir(x)
    PROVE  BaseInv' /\ Reads
<1>1. UNCHANGED <<hist, files, caches, now, changed>> /\ dirs' = [dirs EXCEPT ![x] = None]
  BY DEF Closedir
<1>2. CachesInv(caches') /\ Reads
  BY <1>1, SameReads DEF BaseInv
<1>3. BaseInv'
  BY <1>1, <1>2, DirChanged
<1> QED BY <1>2, <1>3

\* Part of a sequence.
LEMMA PartGives ==
    ASSUME NEW S, NEW s \in Seq(S), NEW m \in Nat \ {0}, NEW n \in 0 .. Len(s)
    PROVE  /\ SubSeq(s, m, n) \in Seq(S)
           /\ \A i \in 1 .. Len(SubSeq(s, m, n)) : \E j \in 1 .. Len(s) : SubSeq(s, m, n)[i] = s[j]
<1> DEFINE t == SubSeq(s, m, n)
<1>1. Len(s) \in Nat /\ m \in Int /\ n \in Int
  BY LenProperties
<1>2. \A i \in m .. n : s[i] \in S
  <2>1. \A i \in m .. n : i \in 1 .. Len(s)
    BY <1>1
  <2> QED BY <2>1, ElementOfSeq
<1>3. /\ t \in Seq(S) /\ Len(t) = IF m <= n THEN n - m + 1 ELSE 0
      /\ \A i \in 1 .. n - m + 1 : t[i] = s[m + i - 1]
  BY <1>1, <1>2, SubSeqProperties
<1> HIDE DEF t
<1>4. ASSUME NEW i \in 1 .. Len(t) PROVE \E j \in 1 .. Len(s) : t[i] = s[j]
  <2>1. i \in 1 .. n - m + 1
    BY <1>1, <1>3
  <2>2. m + i - 1 \in 1 .. Len(s)
    BY <1>1, <2>1
  <2> QED BY <1>3, <2>1, <2>2
<1> QED BY <1>3, <1>4 DEF t

\* The names a callback is called with are some of the listing's.
LEMMA PassedGives ==
    ASSUME NEW S, NEW names \in Seq(S), NEW room \in Nat
    PROVE  Passed(names, room) \in Seq(S)
<1> DEFINE n == IF room < Len(names) THEN room + 1 ELSE Len(names)
<1>1. n \in 0 .. Len(names) /\ 1 \in Nat \ {0}
  BY LenProperties
<1>2. Passed(names, room) = SubSeq(names, 1, n)
  BY DEF Passed
<1> HIDE DEF n
<1> QED BY <1>1, <1>2, PartGives

\* A set made into a sequence.
LEMMA SequenceOfSet ==
    ASSUME NEW S, IsFiniteSet(S)
    PROVE  SetToSeq(S) \in Seq(S) /\ Range(SetToSeq(S)) = S
<1> DEFINE n == Cardinality(S)
           I == 1 .. n
           f == SetToSeq(S)
<1>1. n \in Nat /\ ExistsBijection(I, S)
  BY FS_CardinalityType
<1>2. \E g \in [I -> S] : IsInjective(g)
  BY <1>1 DEF ExistsBijection, Bijection, Injection
<1>3. f \in [I -> S] /\ IsInjective(f)
  BY <1>2 DEF SetToSeq
<1>4. Cardinality(I) = n
  <2>1. 1 \in Int /\ n \in Int
    BY <1>1
  <2>2. Cardinality(I) = IF 1 > n THEN 0 ELSE n - 1 + 1
    BY <2>1, FS_Interval
  <2> HIDE DEF n
  <2> QED BY <1>1, <2>2
<1>5. f \in Injection(I, S)
  BY <1>3 DEF Injection
<1>6. f \in Surjection(I, S)
  BY <1>4, <1>5, FS_Injection
<1> HIDE DEF n, f
<1>7. f \in Seq(S)
  BY <1>1, <1>3, SeqDef
<1>8. Range(f) = S
  BY <1>3, <1>6 DEF Range, Surjection
<1> QED BY <1>7, <1>8 DEF f

\* What a directory lists are the names of what is in it.
LEMMA EntriesAre ==
    ASSUME NEW p \in UserPath
    PROVE  /\ Entries(p) \in Seq(EntryNames(p))
           /\ \A i \in 1 .. Len(Entries(p)) :
                /\ KindOf(p) = "dir"
                /\ \/ Entries(p)[i] \in {Dot, DotDot}
                   \/ \E q \in Children(p) : KindOf(q) # "none" /\ Entries(p)[i] = NameOf(q)
           /\ KindOf(p) = "dir" => \A q \in Children(p) :
                KindOf(q) # "none" => NameOf(q) \in Range(Entries(p))
<1> DEFINE C == {q \in Children(p) : KindOf(q) # "none"}
           f == [q \in C |-> NameOf(q)]
           T == {NameOf(q) : q \in C}
           N == EntryNames(p)
           a == <<Dot, DotDot>>
           s == SetToSeq(T)
<1>1. CASE KindOf(p) # "dir"
  <2>1. Entries(p) = <<>>
    BY <1>1 DEF Entries
  <2>2. <<>> \in Seq(N) /\ 1 .. Len(<<>>) = {}
    BY EmptySeq
  <2> QED BY <1>1, <2>1, <2>2
<1>2. CASE KindOf(p) = "dir"
  <2>1. IsFiniteSet(C)
    <3>1. C \in SUBSET UserPath /\ IsFiniteSet(UserPath)
      BY CachedAssumption DEF Children
    <3> QED BY <3>1, FS_Subset
  <2>2. f \in Surjection(C, T)
    BY DEF Surjection
  <2>3. IsFiniteSet(T)
    BY <2>1, <2>2, FS_Surjection
  <2>4. T \subseteq N /\ Dot \in N /\ DotDot \in N
    BY DEF EntryNames
  <2>5. Entries(p) = a \o s
    BY <1>2 DEF Entries
  <2>6. \A t \in T : \E q \in Children(p) : KindOf(q) # "none" /\ t = NameOf(q)
    OBVIOUS
  <2>7. \A q \in Children(p) : KindOf(q) # "none" => NameOf(q) \in T
    OBVIOUS
  <2> HIDE DEF T, N
  <2>8. s \in Seq(T) /\ Range(s) = T
    BY <2>3, SequenceOfSet
  <2> HIDE DEF s
  <2>9. s \in Seq(N)
    BY <2>4, <2>8, SeqMonotonic
  <2>10. a \in Seq(N) /\ Len(a) = 2 /\ \A i \in 1 .. 2 : a[i] \in {Dot, DotDot}
    BY <2>4
  <2> HIDE DEF a
  <2>11. /\ a \o s \in Seq(N) /\ Range(a \o s) = Range(a) \cup Range(s)
         /\ Len(a \o s) = 2 + Len(s)
         /\ \A i \in 1 .. 2 + Len(s) : (a \o s)[i] = IF i <= 2 THEN a[i] ELSE s[i - 2]
    <3>1. a \in Seq(N) /\ s \in Seq(N) /\ Len(a) = 2
      BY <2>9, <2>10
    <3>2. Range(a \o s) = Range(a) \cup Range(s)
      BY <3>1, RangeConcatenation
    <3>3. /\ a \o s \in Seq(N) /\ Len(a \o s) = Len(a) + Len(s)
          /\ \A i \in 1 .. Len(a) + Len(s) :
                (a \o s)[i] = IF i <= Len(a) THEN a[i] ELSE s[i - Len(a)]
      BY <3>1, ConcatProperties
    <3> QED BY <3>1, <3>2, <3>3
  <2>12. ASSUME NEW i \in 1 .. Len(a \o s)
         PROVE  (a \o s)[i] \in {Dot, DotDot} \/ (a \o s)[i] \in T
    <3>1. Len(s) \in Nat /\ i \in 1 .. 2 + Len(s)
      BY <2>8, <2>11, LenProperties
    <3>2. CASE i <= 2
      BY <2>10, <2>11, <3>1, <3>2
    <3>3. CASE ~ (i <= 2)
      <4>1. i - 2 \in 1 .. Len(s)
        BY <3>1, <3>3
      <4>2. s[i - 2] \in T
        BY <2>8, <4>1, ElementOfSeq
      <4> QED BY <2>11, <3>1, <3>3, <4>2
    <3> QED BY <3>2, <3>3
  <2> QED BY <1>2, <2>5, <2>6, <2>7, <2>8, <2>11, <2>12 DEF N
<1> QED BY <1>1, <1>2

\* What the server sends along with a name it lists now.
LEMMA EntriesStorable ==
    ASSUME HistInv, TreeInv, NEW p \in UserPath, NEW i \in 1 .. Len(Entries(p)), NEW e,
           e = [name |-> Entries(p)[i], stat |-> EntryStat(p, Entries(p)[i])]
    PROVE  e \in EntryRecords(p) /\ Storable(p, e)
<1> DEFINE name == Entries(p)[i]
           stat == EntryStat(p, name)
           k == PushEntry(p, name)
           r == Canon(k)
<1>1. /\ KindOf(p) = "dir"
      /\ name \in {Dot, DotDot} \/ \E q \in Children(p) : KindOf(q) # "none" /\ name = NameOf(q)
  BY EntriesAre
<1>2. name \in EntryNames(p)
  BY <1>1 DEF EntryNames
<1>3. e.name = name /\ e.stat = stat /\ e = [name |-> name, stat |-> stat]
  OBVIOUS
<1>4. stat = IF p = Root /\ name = DotDot THEN Above ELSE Value(r)
  BY DEF EntryStat
<1> HIDE DEF name, stat
<1>5. r \in UserPath
  BY <1>2, KeyIs
<1>6. (p = Root /\ name = DotDot) \/ KindOf(r) # "none"
  <2>1. CASE name = DotDot
    <3>1. CASE p # Root
      <4>1. KindOf(Parent(p)) = "dir" /\ Parent(p) \in UserPath
        BY <1>1, <3>1, PathIs DEF TreeInv
      <4>2. Canon(Parent(p)) = Parent(p)
        BY <4>1 DEF Canon
      <4> QED BY <2>1, <4>1, <4>2 DEF Parent
    <3> QED BY <2>1, <3>1
  <2>2. CASE name # DotDot /\ name = Dot
    <3>1. k = IF p = <<>> THEN Root ELSE p
      BY <2>2 DEF PushEntry
    <3>2. r = p
      BY <3>1, PathIs DEF Unlinked, Canon
    <3> QED BY <1>1, <3>2
  <2>3. CASE name # DotDot /\ name # Dot
    <3>1. PICK q \in Children(p) : KindOf(q) # "none" /\ name = NameOf(q)
      BY <1>1, <2>3
    <3>2. r = q
      BY <2>3, <3>1, KeyOfChild
    <3> QED BY <3>1, <3>2
  <2> QED BY <2>1, <2>2, <2>3
<1>7. Value(r) \in StatData /\ Above \in StatData
  BY <1>5, KindIs DEF StatData
<1>8. e \in EntryRecords(p)
  BY <1>2, <1>3, <1>4, <1>7 DEF EntryRecords
<1>9. Storable(p, e)
  BY <1>3, <1>4, <1>6 DEF Storable
<1> QED BY <1>8, <1>9

\* The names of entries.
LEMMA NamesOfEntries ==
    ASSUME NEW p, NEW entries \in Seq(EntryRecords(p))
    PROVE  /\ DOMAIN entries = 1 .. Len(entries)
           /\ [i \in DOMAIN entries |-> entries[i].name] \in Seq(EntryNames(p))
<1> DEFINE n == Len(entries)
           N == EntryNames(p)
           s == [i \in DOMAIN entries |-> entries[i].name]
<1>1. n \in Nat /\ DOMAIN entries = 1 .. n
  BY LenProperties
<1>2. ASSUME NEW i \in 1 .. n PROVE entries[i].name \in N
  <2>1. entries[i] \in EntryRecords(p)
    BY <1>2, ElementOfSeq
  <2> QED BY <2>1 DEF EntryRecords
<1>3. s = [i \in 1 .. n |-> entries[i].name]
  BY <1>1
<1> HIDE DEF n, N
<1>4. s \in [1 .. n -> N]
  BY <1>2, <1>3
<1> HIDE DEF s
<1>5. s \in Seq(N)
  BY <1>1, <1>4, SeqDef
<1> QED BY <1>1, <1>5 DEF s, n, N

\* What a readdir by the server finds.
LEMMA OfferedIs ==
    ASSUME BaseInv, NEW x \in DirHandle, dirs[x] # None, dirs[x].st = "read" => "rewind" \in Ops
    PROVE  /\ Offered(dirs[x]) \in Seq(EntryRecords(dirs[x].path))
           /\ \A i \in 1 .. Len(Offered(dirs[x])) : Storable(dirs[x].path, Offered(dirs[x])[i])
           /\ dirs[x].st # "read" =>
                [i \in DOMAIN Offered(dirs[x]) |-> Offered(dirs[x])[i].name] = Entries(dirs[x].path)
<1> DEFINE p == dirs[x].path
           E == Entries(p)
           rec == [i \in DOMAIN E |-> [name |-> E[i], stat |-> EntryStat(p, E[i])]]
           R == EntryRecords(p)
<1>1. p \in UserPath /\ dirs[x].rest \in Seq(R) /\ TreeInv /\ HistInv
  BY OpenDirIs DEF BaseInv
<1>2. CASE dirs[x].st = "read"
  <2>1. Offered(dirs[x]) = dirs[x].rest
    BY <1>2 DEF Offered
  <2> QED BY <1>1, <1>2, <2>1 DEF Storable
<1>3. CASE dirs[x].st # "read"
  <2>1. Offered(dirs[x]) = rec
    BY <1>3 DEF Offered
  <2>2. E \in Seq(EntryNames(p))
    BY <1>1, EntriesAre
  <2>3. Len(E) \in Nat /\ DOMAIN E = 1 .. Len(E) /\ E = [i \in DOMAIN E |-> E[i]]
    BY <2>2, LenProperties
  <2>4. ASSUME NEW i \in DOMAIN E PROVE rec[i] \in R /\ Storable(p, rec[i]) /\ rec[i].name = E[i]
    <3>1. rec[i] = [name |-> E[i], stat |-> EntryStat(p, E[i])] /\ i \in 1 .. Len(Entries(p))
      BY <2>3
    <3> HIDE DEF p, R, rec
    <3>2. rec[i] \in EntryRecords(p) /\ Storable(p, rec[i])
      BY <1>1, <3>1, EntriesStorable
    <3> QED BY <3>1, <3>2 DEF R
  <2>5. DOMAIN rec = DOMAIN E
    OBVIOUS
  <2>6. rec = [i \in 1 .. Len(E) |-> rec[i]]
    BY <2>3
  <2> HIDE DEF rec, E, R
  <2>7. rec \in [1 .. Len(E) -> R]
    BY <2>3, <2>4, <2>6
  <2>8. rec \in Seq(R) /\ Len(rec) = Len(E)
    BY <2>3, <2>7, SeqDef, LenProperties
  <2>9. [i \in DOMAIN rec |-> rec[i].name] = E
    BY <2>3, <2>4, <2>5
  <2>10. \A i \in 1 .. Len(rec) : Storable(p, rec[i])
    BY <2>3, <2>4, <2>8
  <2> QED BY <1>3, <2>1, <2>8, <2>9, <2>10 DEF R, E
<1> QED BY <1>2, <1>3

\* sftfs_cached_fetch_dir_entries().
LEMMA FetchDirGives ==
    ASSUME StrEqDecides, BaseInv, NEW x \in DirHandle, dirs[x] # None,
           NEW plus \in BOOLEAN, NEW grow \in BOOLEAN, NEW room \in Rooms
    PROVE  LET f == FetchDirEntries(dirs[x], plus, grow, room)
           IN  CacheInv(StatData, f.attr, None) /\ Adds(f.attr, caches.attr, FreshAttrs)
<1> DEFINE p == dirs[x].path
           names == PeekDir(caches.dir, p)
           f == FetchDirEntries(dirs[x], plus, grow, room)
           v == Evicted(caches.dir, now)
           g == FetchWithAttr(caches.attr, p, Passed(names, room), grow)
<1>1. p \in UserPath /\ p \in Path /\ None \notin orphans
  BY OpenDirIs, KeyIs, CachedAssumption DEF BaseInv, FilesInv
<1>2. HistInv /\ now \in 0 .. MaxTime /\ CacheInv(StatData, caches.attr, None)
      /\ CacheInv(Seq(Names), caches.dir, None) /\ ListsNames(caches.dir)
  BY DEF BaseInv, CachesInv
<1>3. \/ f = [attr |-> caches.attr, success |-> FALSE]
      \/ f = [attr |-> caches.attr, success |-> TRUE]
      \/ names # None /\ f = g
  BY DEF FetchDirEntries
<1> SUFFICES CacheInv(StatData, f.attr, None) /\ Adds(f.attr, caches.attr, FreshAttrs)
  OBVIOUS
<1> HIDE DEF f
<1>4. CASE f.attr = caches.attr
  BY <1>2, <1>4, AddsNothing
<1>5. CASE names # None /\ f = g
  <2>1. names = None \/ ListedFor(names, v, p)
    BY <1>1, <1>2, FilePeekedGives DEF PeekDir
  <2>2. ListsNoMore(v, caches.dir)
    BY <1>2, EvictedAdds
  <2>3. Hash[p] \in HashVal
    BY <1>1, FileCacheAssumption
  <2> HIDE DEF names, v
  <2>4. names \in Seq(EntryNames(p))
    BY <1>2, <1>5, <2>1, <2>2, <2>3 DEF ListedFor, ListsNoMore, ListsNames
  <2>5. room \in Nat
    BY CachedAssumption DEF Rooms
  <2> HIDE DEF p
  <2>6. Passed(names, room) \in Seq(EntryNames(p))
    BY <2>4, <2>5, PassedGives
  <2> DEFINE part == Passed(names, room)
  <2> HIDE DEF part
  <2>7. LET d == FetchWithAttr(caches.attr, p, part, grow).attr
        IN  CacheInv(StatData, d, None) /\ Adds(d, caches.attr, FreshAttrs)
    <3>1. part \in Seq(EntryNames(p))
      BY <2>6 DEF part
    <3> QED BY <1>1, <1>2, <3>1, FetchGives
  <2> QED BY <1>5, <2>7 DEF part
<1>6. f.attr = caches.attr \/ (names # None /\ f = g)
  BY <1>3
<1> QED BY <1>4, <1>5, <1>6

\* A readdir leaves the open directory open.
LEMMA ReaddirFetchedStep ==
    ASSUME StrEqDecides, BaseInv, NEW x \in DirHandle, NEW plus \in BOOLEAN, ReaddirFetched(x, plus)
    PROVE  BaseInv' /\ Reads
<1>1. UNCHANGED <<hist, files, dirs, now, changed>> /\ dirs[x] # None
  BY DEF ReaddirFetched, ReaddirCalled
<1>2. PICK grow \in BOOLEAN, room \in Rooms :
        caches' = [caches EXCEPT !.attr = FetchDirEntries(dirs[x], plus, grow, room).attr,
                                 !.dir = Evicted(caches.dir, now)]
  BY GrowthsAre DEF ReaddirFetched
<1> DEFINE a == FetchDirEntries(dirs[x], plus, grow, room).attr
           l == Evicted(caches.dir, now)
<1>3. /\ CacheInv(StatData, caches.attr, None) /\ CacheInv(Seq(Names), caches.dir, None)
      /\ ListsNames(caches.dir) /\ CacheInv(StatData, caches.symlink, None)
      /\ now \in 0 .. MaxTime
  BY DEF BaseInv, CachesInv
<1>4. CacheInv(StatData, a, None) /\ Adds(a, caches.attr, FreshAttrs)
  BY <1>1, FetchDirGives
<1>5. CacheInv(Seq(Names), l, None) /\ Adds(l, caches.dir, {}) /\ Adds(l, caches.dir, FreshDirs)
  BY <1>3, EvictedAdds, AddsNothing
<1>6. ListsNames(l)
  BY <1>3, <1>5, FewerNames
<1>7. caches' = [caches EXCEPT !.attr = a, !.dir = l]
  BY <1>2
<1> HIDE DEF a, l
<1>8. caches' = [attr |-> a, dir |-> l, symlink |-> caches.symlink]
  BY <1>7, FieldsAre
<1>9. CachesInv(caches') /\ Reads
  BY <1>1, <1>3, <1>4, <1>5, <1>6, <1>8, AddsNothing, StoredStep
<1> QED BY <1>1, <1>3, <1>9, SameBase

\* What the mount gives to the listing cache after a readdir by the server.
LEMMA CollectedFresh ==
    ASSUME BaseInv, NEW x \in DirHandle, NEW plus \in BOOLEAN, ReaddirCalled(x, plus),
           NEW outcome \in {"eof", "error"}, outcome # "eof" => outcome \in Ops,
           dirs[x].st = "cached" => SftpOpendir(dirs[x].path),
           NEW old \in Seq(EntryNames(dirs[x].path)),
           NEW entries \in Seq(EntryRecords(dirs[x].path)),
           outcome = "eof" => entries = Offered(dirs[x])
    PROVE  /\ Collected(old, entries) \in Seq(EntryNames(dirs[x].path))
           /\ ListedEntry(dirs[x].path, Collected(old, entries), now) \in FreshDirs
<1> DEFINE p == dirs[x].path
           st == dirs[x].st
           names == [i \in DOMAIN entries |-> entries[i].name]
           data == Collected(old, entries)
           e == ListedEntry(p, data, now)
<1>1. /\ dirs[x] # None /\ st # "gone" /\ (st = "read" => "rewind" \in Ops)
  BY DEF ReaddirCalled
<1>2. /\ p \in UserPath /\ st \in {"cached", "unread", "read", "gone"}
      /\ st \in {"unread", "read"} /\ "other" \notin Ops => KindOf(p) = "dir"
  BY <1>1, OpenDirIs DEF OpenDir
<1>3. now \in 0 .. MaxTime /\ p \in Path /\ TreeInv
  BY <1>2, KeyIs DEF BaseInv
<1>4. st = "cached" => KindOf(p) = "dir"
  BY DEF SftpOpendir
<1>5. st # "read" /\ outcome = "eof" => names = Entries(p)
  BY <1>1, OfferedIs
<1>6. old \in Seq(EntryNames(p)) /\ names \in Seq(EntryNames(p))
  BY NamesOfEntries
<1>7. data = old \o names
  BY DEF Collected
<1> SUFFICES data \in Seq(EntryNames(p)) /\ e \in FreshDirs
  OBVIOUS
<1> HIDE DEF p, st, data, names
<1>9. data \in Seq(EntryNames(p)) /\ Range(data) = Range(old) \cup Range(names)
  BY <1>6, <1>7, ConcatProperties, RangeConcatenation
<1>10. data \in Seq(Names)
  BY <1>2, <1>9, EntryNamesAre
<1>11. e \in EntryOf(Seq(Names)) /\ e.mod_time = now /\ e.path = p /\ e.data = data
  <2> DEFINE D == Seq(Names)
  <2>1. data \in D
    BY <1>10
  <2> HIDE DEF D
  <2>2. now \in 0 .. MaxTime /\ p \in Path
    BY <1>3
  <2> QED BY <2>1, <2>2, ListedEntryIs DEF D
<1>12. "other" \notin Ops => KindOf(p) = "dir"
  BY <1>1, <1>2, <1>4
<1>13. ASSUME {"error", "rewind"} \cap Ops = {}, NEW q \in Children(p), KindOf(q) # "none"
       PROVE  NameOf(q) \in Range(data)
  <2>1. names = Entries(p)
    BY <1>1, <1>5, <1>13
  <2>2. KindOf(p) = "dir"
    BY <1>3, <1>13 DEF TreeInv, Children
  <2>3. NameOf(q) \in Range(names)
    BY <1>2, <1>13, <2>1, <2>2, EntriesAre
  <2> QED BY <1>9, <2>3
<1> HIDE DEF e
<1> QED BY <1>2, <1>9, <1>11, <1>12, <1>13 DEF FreshDirs

\* The entries read by the server, and those left behind.
LEMMA OfferedGives ==
    ASSUME BaseInv, NEW x \in DirHandle, dirs[x] # None, dirs[x].st = "read" => "rewind" \in Ops,
           NEW n \in 0 .. Len(Offered(dirs[x])), NEW m \in Nat \ {0}
    PROVE  LET offered == Offered(dirs[x])
               entries == SubSeq(offered, 1, n)
           IN  /\ entries \in Seq(EntryRecords(dirs[x].path))
               /\ SubSeq(offered, m, Len(offered)) \in Seq(EntryRecords(dirs[x].path))
               /\ \A i \in 1 .. Len(entries) : Storable(dirs[x].path, entries[i])
               /\ n = Len(offered) => entries = offered
<1> DEFINE p == dirs[x].path
           offered == Offered(dirs[x])
           entries == SubSeq(offered, 1, n)
           R == EntryRecords(p)
<1>1. offered \in Seq(R) /\ \A j \in 1 .. Len(offered) : Storable(p, offered[j])
  BY OfferedIs
<1> SUFFICES /\ entries \in Seq(R) /\ SubSeq(offered, m, Len(offered)) \in Seq(R)
             /\ \A i \in 1 .. Len(entries) : Storable(p, entries[i])
             /\ n = Len(offered) => entries = offered
  OBVIOUS
<1>2. n \in 0 .. Len(offered)
  OBVIOUS
<1> HIDE DEF offered, p, R
<1>3. Len(offered) \in Nat /\ Len(offered) \in 0 .. Len(offered) /\ 1 \in Nat \ {0}
  BY <1>1, LenProperties
<1>4. /\ entries \in Seq(R)
      /\ \A i \in 1 .. Len(entries) : \E j \in 1 .. Len(offered) : entries[i] = offered[j]
  BY <1>1, <1>2, <1>3, PartGives
<1>5. SubSeq(offered, m, Len(offered)) \in Seq(R)
  BY <1>1, <1>3, PartGives
<1>6. n = Len(offered) => entries = offered
  BY <1>1, SubSeqFull
<1> HIDE DEF entries
<1> QED BY <1>1, <1>4, <1>5, <1>6

LEMMA ReaddirRemoteStep ==
    ASSUME StrEqDecides, BaseInv, NEW x \in DirHandle, NEW plus \in BOOLEAN,
           NEW outcome \in {"eof", "error", "nomem", "nosetup"}, ReaddirRemote(x, plus, outcome)
    PROVE  BaseInv' /\ Reads
<1> DEFINE d == dirs[x]
           p == d.path
           N == EntryNames(p)
           F(grow, room) == FetchDirEntries(d, plus, grow, room)
           offered == Offered(d)
           Ctx(grow) == Setup(caches.dir, p, grow)
           Left(n) == IF outcome = "nomem" THEN n + 1 ELSE n
<1>1. /\ UNCHANGED <<hist, files, now, changed>> /\ ReaddirCalled(x, plus)
      /\ outcome # "eof" => outcome \in Ops
  BY DEF ReaddirRemote
<1> DEFINE Stored(grow, room, n) ==
                caches' =
                    IF outcome = "nosetup" THEN [caches EXCEPT !.attr = F(grow, room).attr]
                    ELSE [caches EXCEPT
                            !.attr = CalleeAttrs(F(grow, room).attr, p, SubSeq(offered, 1, n),
                                                 plus, grow),
                            !.dir = Settled(Ctx(grow).cache, p,
                                            Collected(Ctx(grow).dir, SubSeq(offered, 1, n)), outcome)]
           Leaves(n) ==
                dirs' = IF d.st = "cached" THEN dirs
                        ELSE [dirs EXCEPT ![x].st = "read",
                                          ![x].rest = SubSeq(offered, Left(n) + 1, Len(offered))]
<1>0. \E grow \in Growths, room \in Rooms :
        /\ ~ F(grow, room).success
        /\ d.st = "cached" => SftpOpendir(p)
        /\ \E n \in 0 .. Len(offered) :
            /\ outcome = "eof" => n = Len(offered)
            /\ outcome = "nosetup" => n = Len(Passed(offered, room))
            /\ outcome = "nomem" => n < Len(offered)
            /\ Len(Ctx(grow).dir) + n <= MaxNames
            /\ Stored(grow, room, n)
            /\ Leaves(n)
  BY DEF ReaddirRemote
<1>2. PICK grow \in BOOLEAN, room \in Rooms, n \in 0 .. Len(offered) :
        /\ d.st = "cached" => SftpOpendir(p)
        /\ outcome = "eof" => n = Len(offered)
        /\ Stored(grow, room, n) /\ Leaves(n)
  <2> HIDE DEF Stored, Leaves, F, Ctx, offered
  <2> QED BY <1>0, GrowthsAre
<1> DEFINE entries == SubSeq(offered, 1, n)
           m == Left(n) + 1
           rest == SubSeq(offered, m, Len(offered))
           a0 == F(grow, room).attr
           a == CalleeAttrs(a0, p, entries, plus, grow)
           c0 == Ctx(grow).cache
           old == Ctx(grow).dir
           data == Collected(old, entries)
           l == Settled(c0, p, data, outcome)
<1>3. /\ d # None /\ d.st # "gone" /\ (d.st = "read" => "rewind" \in Ops)
      /\ plus \/ "readdir" \in Ops
  BY <1>1 DEF ReaddirCalled
<1>4. /\ p \in UserPath /\ OpenDir(d)
      /\ d.st \in {"unread", "read"} /\ "other" \notin Ops => KindOf(p) = "dir"
  BY <1>3, OpenDirIs
<1>5. /\ HistInv /\ now \in 0 .. MaxTime /\ CacheInv(StatData, caches.attr, None)
      /\ CacheInv(Seq(Names), caches.dir, None) /\ ListsNames(caches.dir)
      /\ CacheInv(StatData, caches.symlink, None)
  BY DEF BaseInv, CachesInv
<1>6. CacheInv(StatData, a0, None) /\ Adds(a0, caches.attr, FreshAttrs)
  BY <1>3, FetchDirGives
<1>7. m \in Nat \ {0}
  <2>1. n \in Nat
    OBVIOUS
  <2> HIDE DEF offered
  <2> QED BY <2>1
<1>8. /\ entries \in Seq(EntryRecords(p)) /\ rest \in Seq(EntryRecords(p))
      /\ \A i \in 1 .. Len(entries) : Storable(p, entries[i])
      /\ n = Len(offered) => entries = offered
  <2> HIDE DEF m
  <2> QED BY <1>3, <1>7, OfferedGives
<1>9. /\ CacheInv(Seq(Names), c0, p) /\ ListsNoMore(c0, caches.dir)
      /\ old \in Seq(N)
  BY <1>4, <1>5, SetupGives
<1>10. outcome = "eof" => entries = Offered(dirs[x])
  BY <1>2, <1>8
<1>11. caches' = IF outcome = "nosetup" THEN [caches EXCEPT !.attr = a0]
                 ELSE [caches EXCEPT !.attr = a, !.dir = l]
  BY <1>2
<1>12. dirs' = IF d.st = "cached" THEN dirs
               ELSE [dirs EXCEPT ![x].st = "read", ![x].rest = rest]
  BY <1>2
<1>13. CacheInv(StatData, a, None) /\ Adds(a, caches.attr, FreshAttrs)
  <2> HIDE DEF a0, entries, p
  <2>1. CacheInv(StatData, a, None) /\ Adds(a, a0, FreshAttrs)
    BY <1>3, <1>4, <1>5, <1>6, <1>8, CalleeGives
  <2> HIDE DEF a
  <2> QED BY <1>6, <2>1 DEF Adds
<1>14. outcome # "nosetup" =>
            CacheInv(Seq(Names), l, None) /\ ListsNames(l) /\ Adds(l, caches.dir, FreshDirs)
  <2> SUFFICES ASSUME outcome # "nosetup"
               PROVE  CacheInv(Seq(Names), l, None) /\ ListsNames(l) /\ Adds(l, caches.dir, FreshDirs)
    OBVIOUS
  <2> DEFINE X == IF outcome = "nomem" THEN {} ELSE {ListedEntry(p, data, now)}
  <2>1. outcome # "nomem" => data \in Seq(N) /\ ListedEntry(p, data, now) \in FreshDirs
    <3>1. outcome # "nomem" => outcome \in {"eof", "error"}
      OBVIOUS
    <3>2. d.st = "cached" => SftpOpendir(p)
      BY <1>2
    <3>3. old \in Seq(EntryNames(dirs[x].path)) /\ entries \in Seq(EntryRecords(dirs[x].path))
      BY <1>8, <1>9
    <3> HIDE DEF entries, old
    <3> QED BY <1>1, <1>10, <3>1, <3>2, <3>3, CollectedFresh
  <2>2. data \in Seq(N)
    <3>1. [i \in DOMAIN entries |-> entries[i].name] \in Seq(N)
      BY <1>8, NamesOfEntries
    <3> HIDE DEF entries, old, N
    <3> QED BY <1>9, <3>1, ConcatProperties DEF Collected
  <2>3. \A e \in X : e.path \in UserPath /\ e.data \in Seq(EntryNames(e.path))
    <3> HIDE DEF data
    <3> QED BY <1>4, <2>2 DEF ListedEntry
  <2> HIDE DEF X, c0, data, p
  <2>4. CacheInv(Seq(Names), l, None) /\ Adds(l, c0, X)
    BY <1>4, <1>5, <1>9, <2>2, SettledGives DEF N, X
  <2> HIDE DEF l
  <2>5. Adds(l, caches.dir, X)
    BY <1>9, <2>4 DEF Adds, ListsNoMore
  <2>6. X \subseteq FreshDirs
    BY <2>1 DEF X
  <2>7. ListsNames(l)
    BY <1>5, <2>3, <2>5 DEF ListsNames, Adds
  <2> QED BY <2>4, <2>5, <2>6, <2>7 DEF Adds
<1> HIDE DEF a0, a, l, rest, entries, offered
<1>15. CachesInv(caches') /\ Reads
  <2>1. CASE outcome = "nosetup"
    <3>1. caches' = [attr |-> a0, dir |-> caches.dir, symlink |-> caches.symlink]
      BY <1>11, <2>1, FieldsAre
    <3> QED BY <1>1, <1>5, <1>6, <3>1, AddsNothing, StoredStep
  <2>2. CASE outcome # "nosetup"
    <3>1. caches' = [attr |-> a, dir |-> l, symlink |-> caches.symlink]
      BY <1>11, <2>2, FieldsAre
    <3> QED BY <1>1, <1>5, <1>13, <1>14, <2>2, <3>1, AddsNothing, StoredStep
  <2> QED BY <2>1, <2>2
<1>16. BaseInv'
  <2>1. CASE d.st = "cached"
    <3>1. UNCHANGED dirs
      BY <1>12, <2>1
    <3> QED BY <1>1, <1>5, <1>15, <3>1, SameBase
  <2>2. CASE d.st # "cached"
    <3> DEFINE e == [path |-> p, st |-> "read", rest |-> rest]
    <3>1. dirs = [y \in DirHandle |-> dirs[y]]
      BY DEF BaseInv, DirsInv
    <3>2. dirs' = [dirs EXCEPT ![x] = e]
      <4>1. [d EXCEPT !.st = "read", !.rest = rest] = e
        <5> HIDE DEF d
        <5>1. d = [path |-> d.path, st |-> d.st, rest |-> d.rest]
          BY <1>4 DEF OpenDir, DirRecord
        <5> DEFINE d1 == [d EXCEPT !.st = "read"]
        <5>2. d1 = [path |-> d.path, st |-> "read", rest |-> d.rest]
          BY <5>1
        <5>3. [d EXCEPT !.st = "read", !.rest = rest] = [d1 EXCEPT !.rest = rest]
          OBVIOUS
        <5> HIDE DEF d1
        <5>4. [d1 EXCEPT !.rest = rest] = [path |-> d.path, st |-> "read", rest |-> rest]
          BY <5>2
        <5> QED BY <5>3, <5>4
      <4>2. dirs' = [dirs EXCEPT ![x] = [d EXCEPT !.st = "read", !.rest = rest]]
        BY <1>12, <2>2, <3>1
      <4> QED BY <4>1, <4>2
    <3>4. /\ OpenDir(e)
          /\ e.st \in {"unread", "read"} /\ "other" \notin Ops => KindOf(e.path) = "dir"
      <4>1. "other" \notin Ops => KindOf(p) = "dir"
        BY <1>2, <1>3, <1>4, <2>2 DEF OpenDir
      <4> QED BY <1>4, <1>8, <4>1 DEF OpenDir, DirRecord
    <3> HIDE DEF e
    <3> QED BY <1>1, <1>15, <3>2, <3>4, DirChanged
  <2> QED BY <2>1, <2>2
<1> QED BY <1>15, <1>16

-----------------------------------------------------------------------------
(* The invariant *)

LEMMA BaseInit == Init => BaseInv
<1> SUFFICES ASSUME Init PROVE BaseInv
  OBVIOUS
<1> DEFINE V == [at : 0 .. MaxTime, kind : Kinds]
<1>1. PICK kind \in [UserPath -> {"none", "file", "dir", "link"}] :
        /\ \A p \in UserPath : Children(p) # {} => kind[p] = "dir"
        /\ hist = [p \in UserPath |-> <<[at |-> 0, kind |-> kind[p]]>>]
  BY DEF Init
<1>2. /\ caches = [attr |-> EmptyCache, dir |-> EmptyCache, symlink |-> EmptyCache]
      /\ open = [h \in Handle |-> None] /\ orphans = {} /\ handle_path = [h \in Handle |-> None]
      /\ dirs = [x \in DirHandle |-> None] /\ now = 0
      /\ changed = [p \in UserPath |-> [attr |-> 0, link |-> 0]]
  BY DEF Init
<1>3. 0 \in 0 .. MaxTime
  BY FileCacheAssumption
<1>4. \A p \in UserPath : hist[p] \in Seq(V) /\ Ver(p) = 1 /\ KindOf(p) = kind[p]
  <2>1. ASSUME NEW p \in UserPath PROVE hist[p] \in Seq(V) /\ Ver(p) = 1 /\ KindOf(p) = kind[p]
    <3> DEFINE e == [at |-> 0, kind |-> kind[p]]
    <3>1. hist[p] = <<e>> /\ e \in V /\ e.kind = kind[p]
      BY <1>1, <1>3 DEF Kinds
    <3> HIDE DEF e, V
    <3>2. <<e>> \in Seq(V) /\ Len(<<e>>) = 1 /\ <<e>>[1] = e
      BY <3>1
    <3> QED BY <3>1, <3>2 DEF Ver, KindOf, Last
  <2> QED BY <2>1
<1>5. HistInv
  <2>1. hist = [p \in UserPath |-> hist[p]]
    BY <1>1
  <2>2. hist \in [UserPath -> Seq(V)]
    BY <1>4, <2>1
  <2>3. 1 \in 1 .. MaxVer
    BY CachedAssumption
  <2> QED BY <1>4, <2>2, <2>3 DEF HistInv
<1>6. TreeInv
  <2>1. ASSUME NEW p \in UserPath \ {Root} PROVE KindOf(Parent(p)) = "dir"
    <3>1. p \in Children(Parent(p)) /\ Parent(p) \in UserPath
      BY PathIs DEF Children
    <3> QED BY <1>1, <1>4, <3>1
  <2> QED BY <2>1 DEF TreeInv
<1>7. CachesInv(caches)
  <2>1. \A h \in HashVal : EmptyCache[h] = <<>>
    BY DEF EmptyCache
  <2>2. ListsNames(EmptyCache)
    <3>1. 1 .. Len(<<>>) = {}
      BY EmptySeq
    <3> QED BY <2>1, <3>1 DEF ListsNames, Listed, In
  <2>3. caches.attr = EmptyCache /\ caches.dir = EmptyCache /\ caches.symlink = EmptyCache
        /\ caches = [attr |-> caches.attr, dir |-> caches.dir, symlink |-> caches.symlink]
    BY <1>2
  <2> QED BY <2>2, <2>3, EmptyGives DEF CachesInv
<1>8. FilesInv
  BY <1>2, PathIs DEF FilesInv
<1>9. DirsInv
  BY <1>2 DEF DirsInv
<1>10. ChangedInv
  BY <1>2, <1>4 DEF ChangedInv
<1> QED BY <1>2, <1>3, <1>5, <1>6, <1>7, <1>8, <1>9, <1>10 DEF BaseInv

\* Every step reads, or changes the server.
LEMMA BaseNext ==
    ASSUME StrEqDecides, BaseInv, [Next]_vars
    PROVE  BaseInv' /\ (Reads \/ Changes)
<1>1. CASE UNCHANGED vars
  <2>1. UNCHANGED <<hist, caches, files, dirs, now, changed>>
    BY <1>1 DEF vars, files
  <2>2. now' \in 0 .. MaxTime /\ now <= now' /\ CachesInv(caches')
    BY <2>1 DEF BaseInv
  <2> QED BY <2>1, <2>2, SameReads, SameBase
<1>2. ASSUME NEW p \in UserPath,
             \/ Access(p) \/ Readlink(p) \/ Chmod(p)
             \/ Mkdir(p) \/ Symlink(p) \/ Unlink(p) \/ Rmdir(p)
      PROVE  BaseInv' /\ (Reads \/ Changes)
  <2>1. CASE Access(p)
    BY <2>1, GetattrStep DEF Access
  <2>2. CASE Readlink(p)
    BY <2>2, ReadlinkStep
  <2>3. CASE Chmod(p)
    BY <2>3, AttrSetStep DEF Chmod
  <2>4. CASE Mkdir(p) \/ Symlink(p)
    BY <2>4, MkdirStep
  <2>5. CASE Unlink(p) \/ Rmdir(p)
    BY <2>5, RemoveStep
  <2> QED BY <1>2, <2>1, <2>2, <2>3, <2>4, <2>5
<1>3. ASSUME NEW p \in UserPath, NEW q \in UserPath, Rename(p, q)
      PROVE  BaseInv' /\ (Reads \/ Changes)
  BY <1>3, RenameStep
<1>4. ASSUME NEW p \in UserPath, NEW h \in Handle, NEW trunc \in BOOLEAN,
             Open(p, h, trunc) \/ Create(p, h)
      PROVE  BaseInv' /\ (Reads \/ Changes)
  BY <1>4, OpenStep, CreateStep
<1>11. ASSUME NEW p \in UserPath, NEW h \in Handle \cup {None}, Getattr(p, h)
       PROVE  BaseInv' /\ (Reads \/ Changes)
  BY <1>11, GetattrStep
<1>12. ASSUME NEW p \in UserPath, NEW t, Chown(p, t) \/ Utimens(p, t)
       PROVE  BaseInv' /\ (Reads \/ Changes)
  BY <1>12, AttrSetStep DEF Chown, Utimens, SftpUtimens
<1>5. ASSUME NEW p \in UserPath, NEW x \in DirHandle, Opendir(p, x)
      PROVE  BaseInv' /\ (Reads \/ Changes)
  BY <1>5, OpendirStep
<1>6. ASSUME NEW p \in UserPath, NEW k \in {"file", "dir"},
             OtherSetattr(p) \/ OtherRemoves(p) \/ OtherMakes(p, k)
      PROVE  BaseInv' /\ (Reads \/ Changes)
  BY <1>6, OtherSetattrStep, OtherRemovesStep, OtherMakesStep
<1>7. ASSUME NEW h \in Handle, NEW failed \in BOOLEAN, Close(h) \/ Write(h, failed)
      PROVE  BaseInv' /\ (Reads \/ Changes)
  BY <1>7, CloseStep, WriteStep
<1>8. ASSUME NEW x \in DirHandle, NEW plus \in BOOLEAN,
             NEW outcome \in {"eof", "error", "nomem", "nosetup"},
             Closedir(x) \/ ReaddirFetched(x, plus) \/ ReaddirRemote(x, plus, outcome)
      PROVE  BaseInv' /\ (Reads \/ Changes)
  BY <1>8, ClosedirStep, ReaddirFetchedStep, ReaddirRemoteStep
<1>9. CASE Tick
  BY <1>9, TickStep
<1>10. TRUE \in BOOLEAN /\ "file" \in {"file", "dir"} /\ "eof" \in {"eof", "error", "nomem", "nosetup"}
  OBVIOUS
<1> QED BY <1>1, <1>2, <1>3, <1>4, <1>5, <1>6, <1>7, <1>8, <1>9, <1>10, <1>11, <1>12 DEF Next

\* The invariant of every run of the system, whatever its users do.
LEMMA BaseAlways == ASSUME StrEqDecides PROVE Spec => []BaseInv
<1>1. BaseInv /\ [Next]_vars => BaseInv'
  BY BaseNext
<1> QED BY BaseInit, <1>1, PTL DEF Spec
-----------------------------------------------------------------------------
(* What can be served, traced back to the moment it was stored *)

\* Version v of r was the server's at t, or later.
Dated(r, v, t) == v = Ver(r) \/ hist[r][v + 1].at >= t

\* What dates a version dates it ever after.
LEMMA DatedKept ==
    ASSUME HistInv, Extends, NEW r \in UserPath, NEW v \in 1 .. Ver(r),
           NEW t, t <= now, Dated(r, v, t)
    PROVE  v \in 1 .. Ver(r)' /\ hist'[r][v] = hist[r][v] /\ Dated(r, v, t)'
<1>1. Ver(r) \in Nat /\ v \in Nat /\ v <= Ver(r) /\ 1 <= v
  BY DEF HistInv
<1>2. CASE hist'[r] = hist[r]
  BY <1>2 DEF Ver, Dated
<1>3. CASE /\ Ver(r)' = Ver(r) + 1 /\ hist'[r][Ver(r) + 1].at = now
           /\ \A i \in 1 .. Ver(r) : hist'[r][i] = hist[r][i]
  <2>1. v \in 1 .. Ver(r)' /\ hist'[r][v] = hist[r][v]
    BY <1>1, <1>3
  <2>2. CASE v = Ver(r)
    <3>1. hist'[r][v + 1].at >= t
      BY <1>3, <2>2
    <3> QED BY <2>1, <3>1 DEF Dated
  <2>3. CASE v # Ver(r)
    <3>1. v + 1 \in 1 .. Ver(r)
      BY <1>1, <2>3
    <3>2. hist'[r][v + 1].at >= t
      BY <1>3, <2>3, <3>1 DEF Dated
    <3> QED BY <2>1, <3>2 DEF Dated
  <2> QED BY <2>2, <2>3
<1> QED BY <1>2, <1>3 DEF Extends

\* The listed entries of the caches.
LEMMA ListedIs ==
    ASSUME NEW D, NEW c, CacheInv(D, c, None), NEW h \in HashVal, NEW e, Listed(c, h, e)
    PROVE  e \in EntryOf(D) /\ e.path \in Path /\ e.data \in D /\ e.mod_time \in 0 .. MaxTime
<1>1. ChainInv(D, c[h], h, None) /\ \E i \in 1 .. Len(c[h]) : c[h][i] = e
  BY DEF CacheInv, Listed, In
<1>2. e \in EntryOf(D) /\ e.data \in D
  BY <1>1, ElementOfSeq DEF ChainInv, Listed
<1> QED BY <1>2, EntryIs

\* What a call made now can be served.
LEMMA ServedIs ==
    ASSUME NEW D, NEW c, CacheInv(D, c, None), now \in 0 .. MaxTime, NEW e \in Served(c)
    PROVE  /\ \E h \in HashVal : Listed(c, h, e)
           /\ e \in EntryOf(D) /\ e.path \in Path /\ e.data \in D
           /\ e.mod_time \in 0 .. MaxTime /\ now - e.mod_time <= TTL
<1>0. PICK h \in HashVal : \E i \in DOMAIN c[h] :
            e = c[h][i] /\ c[h][i].st = "listed" /\ ~ Expired(c[h][i], now)
  BY DEF Served
<1>1. PICK i \in DOMAIN c[h] :
            e = c[h][i] /\ c[h][i].st = "listed" /\ ~ Expired(c[h][i], now)
  BY <1>0
<1>2. c[h] \in Seq(EntryOf(D))
  BY DEF CacheInv, ChainInv
<1>3. DOMAIN c[h] = 1 .. Len(c[h])
  BY <1>2, LenProperties
<1>4. Listed(c, h, e)
  BY <1>1, <1>3 DEF Listed, In
<1>5. e \in EntryOf(D) /\ e.path \in Path /\ e.data \in D /\ e.mod_time \in 0 .. MaxTime
  BY <1>4, ListedIs
<1>6. ~ (e.mod_time + TTL < now)
  BY <1>1 DEF Expired
<1>7. now - e.mod_time <= TTL
  BY <1>5, <1>6, FileCacheAssumption
<1> QED BY <1>4, <1>5, <1>7

\* What was dated when it was stored, and can be served, is recent.
LEMMA DatedRecent ==
    ASSUME HistInv, now \in 0 .. MaxTime, NEW r \in UserPath, NEW v \in 1 .. Ver(r),
           NEW t \in 0 .. MaxTime, now - t <= TTL, Dated(r, v, t)
    PROVE  Recent(r, v, TTL)
<1>1. CASE v = Ver(r)
  BY <1>1 DEF Recent
<1>2. CASE v # Ver(r)
  <2>1. /\ hist[r] \in Seq([at : 0 .. MaxTime, kind : Kinds]) /\ Len(hist[r]) \in Nat
        /\ Ver(r) = Len(hist[r])
    <3>1. hist[r] \in Seq([at : 0 .. MaxTime, kind : Kinds])
      BY DEF HistInv
    <3> QED BY <3>1, LenProperties DEF Ver
  <2>2. v + 1 \in 1 .. Len(hist[r])
    BY <1>2, <2>1
  <2>3. hist[r][v + 1].at \in 0 .. MaxTime
    <3>1. hist[r][v + 1] \in [at : 0 .. MaxTime, kind : Kinds]
      BY <2>1, <2>2, ElementOfSeq
    <3> QED BY <3>1
  <2>4. hist[r][v + 1].at >= t
    BY <1>2 DEF Dated
  <2>5. now - hist[r][v + 1].at <= TTL
    BY <2>3, <2>4, FileCacheAssumption
  <2> QED BY <2>5 DEF Recent
<1> QED BY <1>1, <1>2

\* What others have taken from a path they have taken from it ever after.
LEMMA LostKept ==
    ASSUME HistInv, Extends \/ hist' = hist, NEW r \in UserPath, LostFile(r)
    PROVE  LostFile(r)'
<1>1. CASE hist'[r] = hist[r]
  BY <1>1 DEF LostFile, Ver
<1>2. CASE hist'[r] # hist[r]
  <2>1. Ver(r)' = Ver(r) + 1 /\ \A i \in 1 .. Ver(r) : hist'[r][i] = hist[r][i]
    BY <1>2 DEF Extends
  <2>2. Ver(r) \in Nat
    BY DEF HistInv
  <2>3. PICK i \in 2 .. Ver(r) : hist[r][i - 1].kind = "file" /\ hist[r][i].kind = "none"
    BY DEF LostFile
  <2>4. i \in 1 .. Ver(r) /\ i - 1 \in 1 .. Ver(r) /\ i \in 2 .. Ver(r)'
    BY <2>1, <2>2
  <2> QED BY <2>1, <2>3, <2>4 DEF LostFile
<1> QED BY <1>1, <1>2

\* A handle whose file others have taken has a path that lost a file.
LostInv == \A h \in orphans : \A r \in UserPath \ {Root} : open[h] = r => LostFile(r)

LEMMA LostInit == Init => LostInv
  BY DEF Init, LostInv

\* A step after which the handles without a file are among those before, under
\* the same paths.
LEMMA LostSame ==
    ASSUME BaseInv, LostInv, Extends \/ hist' = hist, orphans' \subseteq orphans,
           \A h \in orphans' : open'[h] \in {open[h], Unlinked}
    PROVE  LostInv'
<1>1. ASSUME NEW h \in orphans', NEW r \in UserPath \ {Root}, open'[h] = r PROVE LostFile(r)'
  <2>1. h \in orphans /\ open[h] = r
    BY <1>1, PathIs
  <2>2. LostFile(r) /\ HistInv
    BY <2>1 DEF LostInv, BaseInv
  <2> QED BY <2>2, LostKept
<1> QED BY <1>1 DEF LostInv

LEMMA LostRemoved ==
    ASSUME BaseInv, LostInv, NEW p \in UserPath, OtherRemoves(p), Extends
    PROVE  LostInv'
<1>1. /\ orphans' = orphans \cup {h \in Handle : open[h] = p} /\ open' = open
      /\ SftpUnlink(p) \/ SftpRmdir(p)
  BY DEF OtherRemoves
<1>2. ASSUME NEW h \in orphans', NEW r \in UserPath \ {Root}, open'[h] = r PROVE LostFile(r)'
  <2>1. CASE h \in orphans
    <3>1. LostFile(r) /\ HistInv
      BY <1>1, <1>2, <2>1 DEF LostInv, BaseInv
    <3> QED BY <3>1, LostKept
  <2>2. CASE h \notin orphans
    <3>1. h \in Handle /\ open[h] = p /\ r = p /\ p # Root
      BY <1>1, <1>2, <2>2
    <3>2. KindOf(p) = "file" /\ HistInv
      BY <2>2, <3>1 DEF BaseInv, FilesInv
    <3>3. ServeEntry(p, "none")
      BY <1>1, <3>2 DEF SftpRmdir, SftpUnlink
    <3>4. hist'[p] = Append(hist[p], [at |-> now, kind |-> "none"])
      BY <3>1, <3>3 DEF ServeEntry, Serve
    <3>5. Ver(p) \in Nat \ {0} /\ KindOf(p) = hist[p][Ver(p)].kind
      <4>1. Ver(p) \in 1 .. MaxVer
        BY <3>2 DEF HistInv
      <4> QED BY <3>2, <4>1, KindIs
    <3>6. hist[p] \in Seq([at : 0 .. MaxTime, kind : Kinds]) /\ Ver(p) = Len(hist[p])
      BY <3>2 DEF HistInv, Ver
    <3> DEFINE i == Ver(p) + 1
    <3>7. Ver(p)' = i /\ hist'[p][Ver(p)] = hist[p][Ver(p)] /\ hist'[p][i].kind = "none"
      BY <3>4, <3>5, <3>6 DEF Ver
    <3>8. i \in 2 .. i /\ i - 1 = Ver(p)
      BY <3>5
    <3>9. LostFile(p)'
      BY <3>2, <3>5, <3>7, <3>8 DEF LostFile
    <3> QED BY <3>1, <3>9
  <2> QED BY <2>1, <2>2
<1> QED BY <1>2 DEF LostInv

LEMMA LostNext ==
    ASSUME StrEqDecides, BaseInv, LostInv, [Next]_vars, "rename" \notin Ops
    PROVE  LostInv'
<1>1. (Extends \/ hist' = hist) /\ FilesInv
  BY BaseNext DEF Reads, Changes, BaseInv
<1>2. ASSUME UNCHANGED files PROVE LostInv'
  BY <1>1, <1>2, LostSame DEF files
<1>3. ASSUME NEW p \in UserPath, NEW h \in Handle, NEW trunc \in BOOLEAN,
             Open(p, h, trunc) \/ Create(p, h)
      PROVE  LostInv'
  <2>1. /\ open[h] = None /\ orphans' = orphans
        /\ open' = [open EXCEPT ![h] = p]
    BY <1>3 DEF Open, Create
  <2>2. h \notin orphans
    BY <1>1, <2>1 DEF FilesInv
  <2>3. \A g \in orphans' : open'[g] = open[g]
    BY <1>1, <2>1, <2>2 DEF FilesInv
  <2> QED BY <1>1, <2>1, <2>3, LostSame
<1>4. ASSUME NEW h \in Handle, Close(h) PROVE LostInv'
  <2>1. orphans' = orphans \ {h} /\ open' = [open EXCEPT ![h] = None]
    BY <1>4 DEF Close
  <2>2. \A g \in orphans' : open'[g] = open[g]
    BY <1>1, <2>1 DEF FilesInv
  <2> QED BY <1>1, <2>1, <2>2, LostSame
<1>5. ASSUME NEW p \in UserPath, Unlink(p) \/ Rmdir(p) PROVE LostInv'
  <2>1. ForgetNode(p) /\ orphans' = orphans
    BY <1>5 DEF Unlink, Rmdir
  <2>2. \A g \in Handle : open'[g] \in {open[g], Unlinked}
    BY <2>1 DEF ForgetNode
  <2>3. \A g \in orphans' : open'[g] \in {open[g], Unlinked}
    BY <1>1, <2>1, <2>2 DEF FilesInv
  <2> QED BY <1>1, <2>1, <2>3, LostSame
<1>6. ASSUME NEW p \in UserPath, OtherRemoves(p) PROVE LostInv'
  <2>1. CASE Extends
    BY <1>6, <2>1, LostRemoved
  <2>2. CASE hist' = hist
    <3>1. Extends
      BY <2>2 DEF Extends
    <3> QED BY <1>6, <3>1, LostRemoved
  <2> QED BY <1>1, <2>1, <2>2
<1>7. CASE UNCHANGED vars
  BY <1>2, <1>7 DEF vars, files
<1>8. ASSUME NEW p \in UserPath,
             Access(p) \/ Readlink(p) \/ Chmod(p) \/ Mkdir(p) \/ Symlink(p)
      PROVE  LostInv'
  <2>1. UNCHANGED files
    BY <1>8 DEF Getattr, Access, Readlink, Chmod, AttrSet, Mkdir, Symlink
  <2> QED BY <1>2, <2>1
<1>9. ASSUME NEW p \in UserPath, NEW h, Getattr(p, h) PROVE LostInv'
  BY <1>2, <1>9 DEF Getattr
<1>10. ASSUME NEW p \in UserPath, NEW t, Chown(p, t) \/ Utimens(p, t) PROVE LostInv'
  BY <1>2, <1>10 DEF Chown, Utimens, AttrSet
<1>11. ASSUME NEW p \in UserPath, NEW q \in UserPath, Rename(p, q) PROVE LostInv'
  BY <1>11 DEF Rename
<1>12. ASSUME NEW p \in UserPath, NEW x \in DirHandle, Opendir(p, x) PROVE LostInv'
  BY <1>2, <1>12 DEF Opendir
<1>13. ASSUME NEW p \in UserPath, NEW k \in {"file", "dir"}, OtherSetattr(p) \/ OtherMakes(p, k)
       PROVE  LostInv'
  BY <1>2, <1>13 DEF OtherSetattr, OtherMakes
<1>14. ASSUME NEW h \in Handle, NEW failed \in BOOLEAN, Write(h, failed) PROVE LostInv'
  BY <1>2, <1>14 DEF Write
<1>15. ASSUME NEW x \in DirHandle, NEW plus \in BOOLEAN,
              NEW outcome \in {"eof", "error", "nomem", "nosetup"},
              Closedir(x) \/ ReaddirFetched(x, plus) \/ ReaddirRemote(x, plus, outcome)
       PROVE  LostInv'
  BY <1>2, <1>15 DEF Closedir, ReaddirFetched, ReaddirRemote
<1>16. CASE Tick
  BY <1>2, <1>16 DEF Tick
<1>17. TRUE \in BOOLEAN /\ "file" \in {"file", "dir"} /\ "eof" \in {"eof", "error", "nomem", "nosetup"}
  OBVIOUS
<1> QED BY <1>3, <1>4, <1>5, <1>6, <1>7, <1>8, <1>9, <1>10, <1>11, <1>12, <1>13, <1>14, <1>15,
           <1>16, <1>17 DEF Next

\* Attributes and link targets of the path they are cached for, dated, or the
\* attributes of a file that others took from it.
BoundedEntry(e) ==
    /\ e.mod_time <= now
    /\ Canon(e.path) # Root =>
        \/ /\ e.data.path = Canon(e.path) /\ e.data.ver \in 1 .. Ver(Canon(e.path))
           /\ Dated(Canon(e.path), e.data.ver, e.mod_time)
        \/ e.data = Former(Canon(e.path)) /\ LostFile(Canon(e.path))

BoundedInv ==
    /\ \A h \in HashVal : \A e : Listed(caches.attr, h, e) => BoundedEntry(e)
    /\ \A h \in HashVal : \A e : Listed(caches.symlink, h, e) => BoundedEntry(e)

\* A step that only reads leaves what is dated dated.
LEMMA BoundedRead ==
    ASSUME BaseInv, BaseInv', Reads, NEW e, BoundedEntry(e), e.mod_time \in Nat
    PROVE  BoundedEntry(e)'
<1>1. hist' = hist /\ now <= now' /\ now \in Nat /\ now' \in Nat
  BY DEF BaseInv, Reads
<1>2. e.mod_time <= now'
  BY <1>1 DEF BoundedEntry
<1> QED BY <1>1, <1>2 DEF BoundedEntry, Dated, LostFile, Ver

\* What has just been stored is dated.
LEMMA BoundedFresh ==
    ASSUME BaseInv, BaseInv', LostInv, Reads, NEW e, e.path \in Path,
           {"readdir", "rewind"} \cap Ops = {}, e \in FreshAttrs \/ e \in FreshLinks
    PROVE  BoundedEntry(e)'
<1> DEFINE r == Canon(e.path)
<1>1. hist' = hist /\ now <= now' /\ HistInv
  BY DEF BaseInv, Reads
<1>2. e.mod_time = now /\ r \in UserPath
  BY KeyIs DEF FreshAttrs, FreshLinks
<1>3. r # Root => e.data = Value(r) \/ (e.data = Former(r) /\ LostFile(r))
  <2>1. CASE e \in FreshAttrs
    <3>1. ASSUME r # Root, e.path \in UserPath, \E h \in orphans : open[h] = e.path
          PROVE  r = e.path /\ LostFile(r)
      <4>1. r = e.path
        BY <3>1 DEF Canon
      <4> QED BY <3>1, <4>1 DEF LostInv
    <3>2. r # Root => e.path # Root
      BY KeyIs, CachedAssumption
    <3> QED BY <2>1, <3>1, <3>2 DEF FreshAttrs
  <2>2. CASE e \in FreshLinks
    BY <2>2, KeyIs DEF FreshLinks
  <2> QED BY <2>1, <2>2
<1>4. Ver(r) \in 1 .. Ver(r) /\ Ver(r)' = Ver(r) /\ (LostFile(r) => LostFile(r)')
  BY <1>1, <1>2 DEF HistInv, LostFile, Ver
<1>5. Value(r).path = r /\ Value(r).ver = Ver(r)
  BY DEF Value, Version
<1> QED BY <1>1, <1>2, <1>3, <1>4, <1>5 DEF BoundedEntry, Dated

\* What the server does leaves what is dated dated.
LEMMA BoundedChange ==
    ASSUME BaseInv, Changes, NEW e, BoundedEntry(e), e.path \in Path
    PROVE  BoundedEntry(e)'
<1> DEFINE r == Canon(e.path)
<1>1. HistInv /\ Extends /\ now' = now /\ r \in UserPath /\ e.mod_time <= now
  BY KeyIs DEF BaseInv, Changes, BoundedEntry
<1>2. ASSUME r # Root, e.data.ver \in 1 .. Ver(r), Dated(r, e.data.ver, e.mod_time)
      PROVE  e.data.ver \in 1 .. Ver(r)' /\ Dated(r, e.data.ver, e.mod_time)'
  BY <1>1, <1>2, DatedKept
<1>3. LostFile(r) => LostFile(r)'
  <2> HIDE DEF r
  <2> QED BY <1>1, LostKept
<1> QED BY <1>1, <1>2, <1>3 DEF BoundedEntry

LEMMA BoundedInit == Init => BoundedInv
<1> SUFFICES ASSUME Init PROVE BoundedInv
  OBVIOUS
<1>1. \A h \in HashVal : EmptyCache[h] = <<>>
  BY DEF EmptyCache
<1>2. 1 .. Len(<<>>) = {}
  BY EmptySeq
<1>3. caches.attr = EmptyCache /\ caches.symlink = EmptyCache
  BY DEF Init
<1> QED BY <1>1, <1>2, <1>3 DEF BoundedInv, Listed, In

LEMMA BoundedNext ==
    ASSUME StrEqDecides, BaseInv, LostInv, BoundedInv, [Next]_vars,
           {"readdir", "rename", "rewind"} \cap Ops = {}
    PROVE  BoundedInv'
<1>1. BaseInv' /\ (Reads \/ Changes)
  BY BaseNext
<1>2. /\ CacheInv(StatData, caches.attr, None) /\ CacheInv(StatData, caches.symlink, None)
      /\ CacheInv(StatData, caches'.attr, None) /\ CacheInv(StatData, caches'.symlink, None)
  BY <1>1 DEF BaseInv, CachesInv
<1>3. ASSUME NEW h \in HashVal, NEW e, Listed(caches'.attr, h, e) PROVE BoundedEntry(e)'
  <2>1. e.path \in Path /\ e.mod_time \in Nat
    BY <1>2, <1>3, ListedIs
  <2>2. CASE Reads
    <3>1. Listed(caches.attr, h, e) \/ e \in FreshAttrs
      BY <1>3, <2>2 DEF Reads, Adds
    <3> QED BY <1>1, <2>1, <2>2, <3>1, BoundedRead, BoundedFresh DEF BoundedInv
  <2>3. CASE Changes
    <3>1. Listed(caches.attr, h, e)
      BY <1>3, <2>3 DEF Changes, BringsAtMost
    <3> QED BY <2>1, <2>3, <3>1, BoundedChange DEF BoundedInv
  <2> QED BY <1>1, <2>2, <2>3
<1>4. ASSUME NEW h \in HashVal, NEW e, Listed(caches'.symlink, h, e) PROVE BoundedEntry(e)'
  <2>1. e.path \in Path /\ e.mod_time \in Nat
    BY <1>2, <1>4, ListedIs
  <2>2. CASE Reads
    <3>1. Listed(caches.symlink, h, e) \/ e \in FreshLinks
      BY <1>4, <2>2 DEF Reads, Adds
    <3> QED BY <1>1, <2>1, <2>2, <3>1, BoundedRead, BoundedFresh DEF BoundedInv
  <2>3. CASE Changes
    <3>1. Listed(caches.symlink, h, e)
      BY <1>4, <2>3 DEF Changes, BringsAtMost
    <3> QED BY <2>1, <2>3, <3>1, BoundedChange DEF BoundedInv
  <2> QED BY <1>1, <2>2, <2>3
<1> QED BY <1>3, <1>4 DEF BoundedInv

LEMMA BoundedGives ==
    ASSUME BaseInv, BoundedInv
    PROVE  AttrBounded
<1>1. ASSUME NEW e \in Served(caches.attr) \cup Served(caches.symlink), Canon(e.path) # Root
      PROVE  \/ /\ e.data.path = Canon(e.path) /\ e.data.ver > 0
                /\ Recent(Canon(e.path), e.data.ver, TTL)
             \/ e.data = Former(Canon(e.path)) /\ LostFile(Canon(e.path))
  <2>1. /\ HistInv /\ now \in 0 .. MaxTime
        /\ CacheInv(StatData, caches.attr, None) /\ CacheInv(StatData, caches.symlink, None)
    BY DEF BaseInv, CachesInv
  <2>2. /\ (\E h \in HashVal : Listed(caches.attr, h, e))
                \/ (\E h \in HashVal : Listed(caches.symlink, h, e))
        /\ e.path \in Path /\ e.mod_time \in 0 .. MaxTime /\ now - e.mod_time <= TTL
    <3>1. CASE e \in Served(caches.attr)
      BY <2>1, <3>1, ServedIs
    <3>2. CASE e \in Served(caches.symlink)
      BY <2>1, <3>2, ServedIs
    <3> QED BY <3>1, <3>2
  <2>3. BoundedEntry(e)
    BY <2>2 DEF BoundedInv
  <2> DEFINE r == Canon(e.path)
  <2>4. r \in UserPath
    BY <2>2, KeyIs
  <2>5. CASE /\ e.data.path = r /\ e.data.ver \in 1 .. Ver(r)
             /\ Dated(r, e.data.ver, e.mod_time)
    <3>1. Recent(r, e.data.ver, TTL)
      BY <2>1, <2>2, <2>4, <2>5, DatedRecent
    <3>2. Ver(r) \in Nat
      BY <2>1, <2>4 DEF HistInv
    <3>3. e.data.ver > 0
      BY <2>5, <3>2
    <3> QED BY <2>5, <3>1, <3>3
  <2>6. CASE e.data = Former(r) /\ LostFile(r)
    BY <2>6
  <2> QED BY <1>1, <2>3, <2>5, <2>6 DEF BoundedEntry
<1> QED BY <1>1 DEF AttrBounded

\* Attributes, but for those of former files, and link targets no older than what
\* the mount has done itself.
OwnInv ==
    /\ \A h \in HashVal : \A e : Listed(caches.attr, h, e) =>
        (e.path \in UserPath \ {Root} =>
            e.data = Former(e.path) \/ e.data.ver >= changed[e.path].attr)
    /\ \A h \in HashVal : \A e : Listed(caches.symlink, h, e) =>
        (e.path \in UserPath \ {Root} => e.data.ver >= changed[e.path].link)

LEMMA OwnInit == Init => OwnInv
<1> SUFFICES ASSUME Init PROVE OwnInv
  OBVIOUS
<1>1. \A h \in HashVal : EmptyCache[h] = <<>>
  BY DEF EmptyCache
<1>2. 1 .. Len(<<>>) = {}
  BY EmptySeq
<1>3. caches.attr = EmptyCache /\ caches.symlink = EmptyCache
  BY DEF Init
<1> QED BY <1>1, <1>2, <1>3 DEF OwnInv, Listed, In

LEMMA OwnNext ==
    ASSUME StrEqDecides, BaseInv, OwnInv, [Next]_vars,
           {"readdir", "rename", "rewind"} \cap Ops = {}
    PROVE  OwnInv'
<1>1. Reads \/ Changes
  BY BaseNext
<1>2. \A p \in UserPath : /\ Value(p).ver = Ver(p) /\ Canon(p) = p
                          /\ changed[p].attr <= Ver(p) /\ changed[p].link <= Ver(p)
  BY KeyIs DEF BaseInv, ChangedInv, Value, Version
<1>3. ASSUME NEW h \in HashVal, NEW e, Listed(caches'.attr, h, e), e.path \in UserPath \ {Root}
      PROVE  e.data = Former(e.path) \/ e.data.ver >= changed'[e.path].attr
  <2>1. CASE Reads
    <3>1. Listed(caches.attr, h, e) \/ e \in FreshAttrs
      BY <1>3, <2>1 DEF Reads, Adds
    <3>2. e \in FreshAttrs => e.data = Value(e.path) \/ e.data = Former(e.path)
      BY <1>2, <1>3 DEF FreshAttrs
    <3>3. changed' = changed
      BY <2>1 DEF Reads
    <3> QED BY <1>2, <1>3, <3>1, <3>2, <3>3 DEF OwnInv
  <2>2. CASE Changes
    <3>1. Listed(caches.attr, h, e) /\ Forgets(e.path)
      BY <1>3, <2>2 DEF Changes, BringsAtMost
    <3>2. ~ Unlisted(caches'.attr, e.path)
      BY <1>3 DEF Unlisted
    <3>3. changed'[e.path] = changed[e.path]
      BY <3>1, <3>2 DEF Forgets
    <3> QED BY <1>3, <3>1, <3>3 DEF OwnInv
  <2> QED BY <1>1, <2>1, <2>2
<1>4. ASSUME NEW h \in HashVal, NEW e, Listed(caches'.symlink, h, e), e.path \in UserPath \ {Root}
      PROVE  e.data.ver >= changed'[e.path].link
  <2>1. CASE Reads
    <3>1. Listed(caches.symlink, h, e) \/ e \in FreshLinks
      BY <1>4, <2>1 DEF Reads, Adds
    <3>2. e \in FreshLinks => e.data = Value(e.path)
      BY DEF FreshLinks
    <3>3. changed' = changed
      BY <2>1 DEF Reads
    <3> QED BY <1>2, <1>4, <3>1, <3>2, <3>3 DEF OwnInv
  <2>2. CASE Changes
    <3>1. Listed(caches.symlink, h, e) /\ Forgets(e.path)
      BY <1>4, <2>2 DEF Changes, BringsAtMost
    <3>2. ~ Unlisted(caches'.symlink, e.path)
      BY <1>4 DEF Unlisted
    <3>3. changed'[e.path].link = changed[e.path].link
      BY <3>1, <3>2, RenameAssumption DEF Forgets, UnlistedAll
    <3> QED BY <1>4, <3>1, <3>3 DEF OwnInv
  <2> QED BY <1>1, <2>1, <2>2
<1> QED BY <1>3, <1>4 DEF OwnInv

LEMMA OwnGives ==
    ASSUME BaseInv, OwnInv
    PROVE  ReadYourWrites
<1>1. /\ now \in 0 .. MaxTime
      /\ CacheInv(StatData, caches.attr, None) /\ CacheInv(StatData, caches.symlink, None)
  BY DEF BaseInv, CachesInv
<1>2. ASSUME NEW e \in Served(caches.attr), e.path \in UserPath \ {Root}
      PROVE  e.data = Former(e.path) \/ e.data.ver >= changed[e.path].attr
  <2>1. \E h \in HashVal : Listed(caches.attr, h, e)
    BY <1>1, ServedIs
  <2> QED BY <1>2, <2>1 DEF OwnInv
<1>3. ASSUME NEW e \in Served(caches.symlink), e.path \in UserPath \ {Root}
      PROVE  e.data.ver >= changed[e.path].link
  <2>1. \E h \in HashVal : Listed(caches.symlink, h, e)
    BY <1>1, ServedIs
  <2> QED BY <1>3, <2>1 DEF OwnInv
<1> QED BY <1>2, <1>3 DEF ReadYourWrites

\* The name of q is in the listing e, or was missing on the server when the
\* listing was stored, or later.
Accounts(e, q) ==
    \/ NameOf(q) \in Range(e.data)
    \/ \E i \in 1 .. Ver(q) : hist[q][i].kind = "none" /\ Dated(q, i, e.mod_time)

CompleteEntry(e) == e.mod_time <= now /\ \A q \in Children(e.path) : Accounts(e, q)

CompleteInv == \A h \in HashVal : \A e : Listed(caches.dir, h, e) => CompleteEntry(e)

LEMMA CompleteInit == Init => CompleteInv
<1> SUFFICES ASSUME Init PROVE CompleteInv
  OBVIOUS
<1>1. \A h \in HashVal : EmptyCache[h] = <<>>
  BY DEF EmptyCache
<1>2. 1 .. Len(<<>>) = {}
  BY EmptySeq
<1>3. caches.dir = EmptyCache
  BY DEF Init
<1> QED BY <1>1, <1>2, <1>3 DEF CompleteInv, Listed, In

LEMMA CompleteNext ==
    ASSUME StrEqDecides, BaseInv, CompleteInv, [Next]_vars, {"error", "rewind"} \cap Ops = {}
    PROVE  CompleteInv'
<1>1. BaseInv' /\ (Reads \/ Changes)
  BY BaseNext
<1>2. /\ HistInv /\ now \in 0 .. MaxTime /\ now' \in 0 .. MaxTime
      /\ CacheInv(Seq(Names), caches'.dir, None)
  BY <1>1 DEF BaseInv, CachesInv
<1>3. ASSUME NEW h \in HashVal, NEW e, Listed(caches'.dir, h, e) PROVE CompleteEntry(e)'
  <2>0. e.mod_time \in 0 .. MaxTime
    BY <1>2, <1>3, ListedIs
  <2>1. CASE Reads
    <3>1. Listed(caches.dir, h, e) \/ e \in FreshDirs
      BY <1>3, <2>1 DEF Reads, Adds
    <3>2. hist' = hist /\ now <= now'
      BY <2>1 DEF Reads
    <3>3. \A q : Accounts(e, q)' <=> Accounts(e, q)
      BY <3>2 DEF Accounts, Dated, Ver
    <3>4. CASE Listed(caches.dir, h, e)
      <4>1. CompleteEntry(e)
        BY <3>4 DEF CompleteInv
      <4>2. e.mod_time <= now'
        BY <1>2, <2>0, <3>2, <4>1 DEF CompleteEntry
      <4> QED BY <3>3, <4>1, <4>2 DEF CompleteEntry
    <3>5. CASE e \in FreshDirs
      <4>1. e.mod_time = now
        BY <3>5 DEF FreshDirs
      <4>2. ASSUME NEW q \in Children(e.path) PROVE Accounts(e, q)
        <5>1. q \in UserPath
          BY DEF Children
        <5>2. KindOf(q) = hist[q][Ver(q)].kind /\ Ver(q) \in 1 .. Ver(q)
          <6>1. Ver(q) \in 1 .. MaxVer
            BY <1>2, <5>1 DEF HistInv
          <6>2. Ver(q) \in 1 .. Ver(q)
            BY <6>1
          <6> QED BY <1>2, <5>1, <6>2, KindIs
        <5>3. CASE KindOf(q) = "none"
          BY <5>2, <5>3 DEF Accounts, Dated
        <5>4. CASE KindOf(q) # "none"
          BY <3>5, <5>4 DEF FreshDirs, Accounts
        <5> QED BY <5>3, <5>4
      <4> QED BY <1>2, <3>2, <3>3, <4>1, <4>2 DEF CompleteEntry
    <3> QED BY <3>1, <3>4, <3>5
  <2>2. CASE Changes
    <3>1. now' = now /\ Extends
      BY <2>2 DEF Changes
    <3>2. CASE Listed(caches.dir, h, e)
      <4>1. CompleteEntry(e)
        BY <3>2 DEF CompleteInv
      <4>2. ASSUME NEW q \in Children(e.path) PROVE Accounts(e, q)'
        <5>1. q \in UserPath /\ e.mod_time <= now /\ Accounts(e, q)
          BY <4>1 DEF Children, CompleteEntry
        <5>2. CASE NameOf(q) \in Range(e.data)
          BY <5>2 DEF Accounts
        <5>3. CASE \E i \in 1 .. Ver(q) : hist[q][i].kind = "none" /\ Dated(q, i, e.mod_time)
          <6>1. PICK i \in 1 .. Ver(q) : hist[q][i].kind = "none" /\ Dated(q, i, e.mod_time)
            BY <5>3
          <6>2. i \in 1 .. Ver(q)' /\ hist'[q][i] = hist[q][i] /\ Dated(q, i, e.mod_time)'
            BY <1>2, <3>1, <5>1, <6>1, DatedKept
          <6> QED BY <6>1, <6>2 DEF Accounts
        <5> QED BY <5>1, <5>2, <5>3 DEF Accounts
      <4> QED BY <3>1, <4>1, <4>2 DEF CompleteEntry
    <3>3. CASE ~ Listed(caches.dir, h, e)
      <4>1. e.path \in UserPath /\ e.mod_time = now /\ Empty(e.path)
        BY <1>3, <2>2, <3>3 DEF Changes, BringsAtMost
      <4>2. ASSUME NEW q \in Children(e.path) PROVE Accounts(e, q)'
        <5>1. q \in UserPath /\ KindOf(q) = "none"
          BY <4>1 DEF Children, Empty
        <5>2. PICK i \in 1 .. Ver(q) : i = Ver(q) /\ KindOf(q) = hist[q][i].kind
          <6>1. Ver(q) \in 1 .. MaxVer
            BY <1>2, <5>1 DEF HistInv
          <6>2. Ver(q) \in 1 .. Ver(q)
            BY <6>1
          <6> QED BY <1>2, <5>1, <6>2, KindIs
        <5>3. Dated(q, i, e.mod_time)
          BY <5>2 DEF Dated
        <5>4. i \in 1 .. Ver(q) /\ e.mod_time <= now
          BY <1>2, <4>1, <5>2
        <5>5. i \in 1 .. Ver(q)' /\ hist'[q][i] = hist[q][i] /\ Dated(q, i, e.mod_time)'
          BY <1>2, <3>1, <5>1, <5>3, <5>4, DatedKept
        <5>6. hist'[q][i].kind = "none"
          BY <5>1, <5>2, <5>5
        <5> QED BY <5>5, <5>6 DEF Accounts
      <4> QED BY <1>2, <3>1, <4>1, <4>2 DEF CompleteEntry
    <3> QED BY <3>2, <3>3
  <2> QED BY <1>1, <2>1, <2>2
<1> QED BY <1>3 DEF CompleteInv

LEMMA CompleteGives ==
    ASSUME BaseInv, CompleteInv
    PROVE  ListingComplete
<1>1. HistInv /\ now \in 0 .. MaxTime /\ CacheInv(Seq(Names), caches.dir, None)
  BY DEF BaseInv, CachesInv
<1>2. ASSUME NEW e \in Served(caches.dir), NEW q \in Children(e.path)
      PROVE  \/ NameOf(q) \in Range(e.data)
             \/ \E i \in 1 .. Ver(q) : hist[q][i].kind = "none" /\ Recent(q, i, TTL)
  <2>1. /\ \E h \in HashVal : Listed(caches.dir, h, e)
        /\ e.mod_time \in 0 .. MaxTime /\ now - e.mod_time <= TTL
    BY <1>1, ServedIs
  <2>2. CompleteEntry(e)
    BY <2>1 DEF CompleteInv
  <2>3. q \in UserPath /\ Accounts(e, q)
    BY <2>2 DEF CompleteEntry, Children
  <2>4. ASSUME NEW i \in 1 .. Ver(q), Dated(q, i, e.mod_time) PROVE Recent(q, i, TTL)
    BY <1>1, <2>1, <2>3, <2>4, DatedRecent
  <2> QED BY <2>3, <2>4 DEF Accounts
<1> QED BY <1>2 DEF ListingComplete

\* What the mount removed last, and nobody has made anew, is cached nowhere.
GoneInv ==
    \A p \in UserPath \ {Root} :
        KindOf(p) = "none" /\ changed[p].link = Ver(p) => UnlistedAll(caches, p)

\* r existed at t, or later.
Existed(r, t) == \E i \in 1 .. Ver(r) : hist[r][i].kind # "none" /\ Dated(r, i, t)

\* What is cached under a path was cached when that path existed.
StoodEntry(e) == e.mod_time <= now /\ (e.path \in UserPath \ {Root} => Existed(e.path, e.mod_time))

StoodInv ==
    \A h \in HashVal : \A e :
        Listed(caches.attr, h, e) \/ Listed(caches.dir, h, e) \/ Listed(caches.symlink, h, e)
            => StoodEntry(e)

LEMMA GoneInit == Init => GoneInv /\ StoodInv
<1> SUFFICES ASSUME Init PROVE GoneInv /\ StoodInv
  OBVIOUS
<1>1. \A h \in HashVal : EmptyCache[h] = <<>>
  BY DEF EmptyCache
<1>2. 1 .. Len(<<>>) = {}
  BY EmptySeq
<1>3. caches.attr = EmptyCache /\ caches.dir = EmptyCache /\ caches.symlink = EmptyCache
  BY DEF Init
<1> QED BY <1>1, <1>2, <1>3 DEF GoneInv, StoodInv, UnlistedAll, Unlisted, Listed, In

LEMMA GoneNext ==
    ASSUME StrEqDecides, BaseInv, GoneInv, [Next]_vars, {"other", "rewind"} \cap Ops = {},
           ~ RenameOntoCached
    PROVE  GoneInv'
<1>1. BaseInv' /\ (Reads \/ Changes)
  BY BaseNext
<1>2. ASSUME NEW p \in UserPath \ {Root}, KindOf(p)' = "none", changed'[p].link = Ver(p)'
      PROVE  UnlistedAll(caches', p)
  <2>1. CASE Reads
    <3>1. hist' = hist /\ changed' = changed
      BY <2>1 DEF Reads
    <3>2. KindOf(p) = "none" /\ changed[p].link = Ver(p)
      BY <1>2, <3>1 DEF KindOf, Ver
    <3>3. UnlistedAll(caches, p)
      BY <3>2 DEF GoneInv
    <3>4. ASSUME NEW e, e \in FreshAttrs \/ e \in FreshDirs \/ e \in FreshLinks PROVE e.path # p
      <4>1. Canon(p) = p /\ orphans = {}
        BY KeyIs DEF BaseInv, FilesInv
      <4> QED BY <3>2, <3>4, <4>1 DEF FreshAttrs, FreshDirs, FreshLinks
    <3> QED BY <2>1, <3>3, <3>4 DEF UnlistedAll, Unlisted, Reads, Adds
  <2>2. CASE Changes
    <3>1. Forgets(p) /\ Extends
      BY <2>2 DEF Changes
    <3>2. Ver(p) \in Nat /\ changed[p].link \in Nat /\ changed[p].link <= Ver(p)
      BY DEF BaseInv, HistInv, ChangedInv
    <3>3. CASE changed'[p].link = changed[p].link
      <4>1. hist'[p] = hist[p]
        <5>1. hist'[p] = hist[p] \/ Ver(p)' = Ver(p) + 1
          BY <3>1 DEF Extends
        <5>2. Ver(p)' <= Ver(p)
          BY <1>2, <3>2, <3>3
        <5> QED BY <3>2, <5>1, <5>2
      <4>2. KindOf(p) = "none" /\ changed[p].link = Ver(p)
        BY <1>2, <3>3, <4>1 DEF KindOf, Ver
      <4>3. UnlistedAll(caches, p)
        BY <4>2 DEF GoneInv
      <4>4. ASSUME NEW e, e.path \in UserPath, KindOf(e.path)' # "none" PROVE e.path # p
        BY <1>2, <4>4
      <4> QED BY <2>2, <4>3, <4>4 DEF UnlistedAll, Unlisted, Changes, BringsAtMost
    <3>4. CASE changed'[p].link # changed[p].link
      BY <1>2, <3>1, <3>4 DEF Forgets
    <3> QED BY <3>3, <3>4
  <2> QED BY <1>1, <2>1, <2>2
<1> QED BY <1>2 DEF GoneInv

\* A path that is there exists now.
LEMMA ExistsNow ==
    ASSUME HistInv, NEW r \in UserPath, KindOf(r) # "none", NEW t
    PROVE  Existed(r, t)
<1>1. Ver(r) \in 1 .. MaxVer
  BY DEF HistInv
<1>2. Ver(r) \in 1 .. Ver(r)
  BY <1>1
<1>3. hist[r][Ver(r)].kind # "none"
  BY <1>2, KindIs
<1> QED BY <1>2, <1>3 DEF Existed, Dated

LEMMA StoodNext ==
    ASSUME StrEqDecides, BaseInv, StoodInv, [Next]_vars, {"other", "rewind"} \cap Ops = {}
    PROVE  StoodInv'
<1>1. BaseInv' /\ (Reads \/ Changes)
  BY BaseNext
<1>2. /\ HistInv /\ HistInv' /\ now \in 0 .. MaxTime /\ now' \in 0 .. MaxTime /\ orphans = {}
      /\ CacheInv(StatData, caches'.attr, None) /\ CacheInv(Seq(Names), caches'.dir, None)
      /\ CacheInv(StatData, caches'.symlink, None)
  BY <1>1 DEF BaseInv, CachesInv, FilesInv
<1>3. ASSUME NEW h \in HashVal, NEW e,
             Listed(caches'.attr, h, e) \/ Listed(caches'.dir, h, e) \/ Listed(caches'.symlink, h, e)
      PROVE  StoodEntry(e)'
  <2>1. e.mod_time \in 0 .. MaxTime
    <3>1. CASE Listed(caches'.attr, h, e)
      BY <1>2, <3>1, ListedIs
    <3>2. CASE Listed(caches'.dir, h, e)
      BY <1>2, <3>2, ListedIs
    <3>3. CASE Listed(caches'.symlink, h, e)
      BY <1>2, <3>3, ListedIs
    <3> QED BY <1>3, <3>1, <3>2, <3>3
  <2> DEFINE r == e.path
             t == e.mod_time
             Was == Listed(caches.attr, h, e) \/ Listed(caches.dir, h, e)
                    \/ Listed(caches.symlink, h, e)
  <2>2. Was => StoodEntry(e)
    BY DEF StoodInv
  <2>3. CASE Reads
    <3>1. hist' = hist /\ now <= now'
      BY <2>3 DEF Reads
    <3>2. Was \/ e \in FreshAttrs \/ e \in FreshDirs \/ e \in FreshLinks
      BY <1>3, <2>3 DEF Reads, Adds
    <3>3. e \in FreshAttrs \/ e \in FreshDirs \/ e \in FreshLinks =>
            t = now /\ (r \in UserPath \ {Root} => KindOf(r) # "none")
      <4>1. r \in UserPath => Canon(r) = r
        BY DEF Canon
      <4> QED BY <1>2, <4>1 DEF FreshAttrs, FreshDirs, FreshLinks
    <3>4. StoodEntry(e)
      <4>1. CASE Was
        BY <2>2, <4>1
      <4>2. CASE t = now /\ (r \in UserPath \ {Root} => KindOf(r) # "none")
        BY <1>2, <4>2, ExistsNow DEF StoodEntry
      <4> QED BY <3>2, <3>3, <4>1, <4>2
    <3>5. Existed(r, t)' <=> Existed(r, t)
      BY <3>1 DEF Existed, Dated, Ver
    <3> QED BY <1>2, <2>1, <3>1, <3>4, <3>5 DEF StoodEntry
  <2>4. CASE Changes
    <3>1. now' = now /\ Extends
      BY <2>4 DEF Changes
    <3>2. Was \/ (t = now /\ r \in UserPath /\ KindOf(r)' # "none")
      BY <1>3, <2>4 DEF Changes, BringsAtMost
    <3>3. CASE Was
      <4>1. StoodEntry(e)
        BY <2>2, <3>3
      <4>2. ASSUME r \in UserPath \ {Root} PROVE Existed(r, t)'
        <5>1. PICK i \in 1 .. Ver(r) : hist[r][i].kind # "none" /\ Dated(r, i, t)
          BY <4>1, <4>2 DEF StoodEntry, Existed
        <5>2. r \in UserPath /\ t <= now
          BY <4>1, <4>2 DEF StoodEntry
        <5> HIDE DEF r, t
        <5>3. i \in 1 .. Ver(r)' /\ hist'[r][i] = hist[r][i] /\ Dated(r, i, t)'
          BY <1>2, <3>1, <5>1, <5>2, DatedKept
        <5> QED BY <5>1, <5>3 DEF Existed
      <4> QED BY <3>1, <4>1, <4>2 DEF StoodEntry
    <3>4. CASE t = now /\ r \in UserPath /\ KindOf(r)' # "none"
      <4> HIDE DEF r
      <4>1. Existed(r, t)'
        <5>1. Ver(r)' \in 1 .. MaxVer
          BY <1>2, <3>4 DEF HistInv
        <5>2. Ver(r)' \in 1 .. Ver(r)'
          BY <5>1
        <5>3. hist'[r][Ver(r)'].kind # "none"
          BY <3>4 DEF KindOf, Last, Ver
        <5> QED BY <5>2, <5>3 DEF Existed, Dated
      <4> QED BY <1>2, <3>1, <3>4, <4>1 DEF StoodEntry, r
    <3> QED BY <3>2, <3>3, <3>4
  <2> QED BY <1>1, <2>3, <2>4
<1> QED BY <1>3 DEF StoodInv

LEMMA GoneGives ==
    ASSUME StrEqDecides, BaseInv, GoneInv, StoodInv
    PROVE  GoneNotServed
<1>1. /\ CacheInv(StatData, caches.attr, None) /\ CacheInv(Seq(Names), caches.dir, None)
      /\ CacheInv(StatData, caches.symlink, None) /\ HistInv /\ now \in 0 .. MaxTime
      /\ caches = [attr |-> caches.attr, dir |-> caches.dir, symlink |-> caches.symlink]
  BY DEF BaseInv, CachesInv
<1> DEFINE Shows(c, p) ==
                \E h \in HashVal : \E e :
                    Listed(c, h, e) /\ e.path = p /\ e.mod_time \in 0 .. MaxTime
                    /\ now - e.mod_time <= TTL
<1>2. ASSUME NEW D, NEW c, CacheInv(D, c, None), NEW p \in UserPath, FilePeeked(c, p, now) # None
      PROVE  Shows(c, p)
  <2>1. p \in Path /\ Hash[p] \in HashVal
    BY KeyIs, FileCacheAssumption
  <2>2. HoldsUnexpired(Evicted(c, now), c, now)
    BY <1>2, EvictedGives
  <2>3. ListedFor(FilePeeked(c, p, now), Evicted(c, now), p)
    BY <1>2, <2>1, FilePeekedGives
  <2>4. PICK e : Listed(Evicted(c, now), Hash[p], e) /\ e.path = p
    BY <2>3 DEF ListedFor
  <2>5. Listed(c, Hash[p], e) /\ e.st = "listed" /\ ~ Expired(e, now)
    BY <2>1, <2>2, <2>4 DEF HoldsUnexpired, Listed
  <2>6. e.mod_time \in 0 .. MaxTime
    BY <1>2, <2>1, <2>5, ListedIs
  <2>7. now - e.mod_time <= TTL
    BY <1>1, <2>5, <2>6, FileCacheAssumption DEF Expired
  <2> QED BY <2>1, <2>4, <2>5, <2>6, <2>7
<1>3. ASSUME NEW p \in UserPath \ {Root}, Cached(p)
      PROVE  Shows(caches.attr, p) \/ Shows(caches.dir, p) \/ Shows(caches.symlink, p)
  <2>1. DOMAIN caches = {"attr", "dir", "symlink"}
    BY <1>1
  <2>2. \/ FilePeeked(caches.attr, p, now) # None \/ FilePeeked(caches.dir, p, now) # None
        \/ FilePeeked(caches.symlink, p, now) # None
    BY <1>3, <2>1 DEF Cached
  <2> HIDE DEF Shows
  <2> QED BY <1>1, <1>2, <2>2
<1>4. ASSUME NEW p \in UserPath \ {Root}, KindOf(p) = "none", changed[p].link = Ver(p)
      PROVE  ~ Cached(p)
  <2>1. UnlistedAll(caches, p)
    BY <1>4 DEF GoneInv
  <2> QED BY <1>3, <2>1 DEF UnlistedAll, Unlisted
<1>5. ASSUME NEW p \in UserPath \ {Root}, Cached(p)
      PROVE  \E i \in 1 .. Ver(p) : hist[p][i].kind # "none" /\ Recent(p, i, TTL)
  <2>0. PICK h \in HashVal : \E e :
            /\ Listed(caches.attr, h, e) \/ Listed(caches.dir, h, e) \/ Listed(caches.symlink, h, e)
            /\ e.path = p /\ e.mod_time \in 0 .. MaxTime /\ now - e.mod_time <= TTL
    BY <1>3, <1>5
  <2>1. PICK e :
            /\ Listed(caches.attr, h, e) \/ Listed(caches.dir, h, e) \/ Listed(caches.symlink, h, e)
            /\ e.path = p /\ e.mod_time \in 0 .. MaxTime /\ now - e.mod_time <= TTL
    BY <2>0
  <2>2. Existed(p, e.mod_time)
    BY <2>1 DEF StoodInv, StoodEntry
  <2>3. PICK i \in 1 .. Ver(p) : hist[p][i].kind # "none" /\ Dated(p, i, e.mod_time)
    BY <2>2 DEF Existed
  <2>4. Recent(p, i, TTL)
    BY <1>1, <2>1, <2>3, DatedRecent
  <2> QED BY <2>3, <2>4
<1> QED BY <1>4, <1>5 DEF GoneNotServed

-----------------------------------------------------------------------------
(* What holds of the types, of entries taken, and of open handles *)

LEMMA BaseGivesTypes ==
    ASSUME BaseInv
    PROVE  TypeOK
<1>1. /\ HistInv /\ now \in 0 .. MaxTime /\ FilesInv /\ DirsInv
      /\ CacheInv(StatData, caches.attr, None) /\ CacheInv(Seq(Names), caches.dir, None)
      /\ CacheInv(StatData, caches.symlink, None)
  BY DEF BaseInv, CachesInv
<1>2. \A p \in UserPath : KindOf(p) \in {"none", "file", "dir", "link"}
  BY <1>1, KindIs DEF Kinds
<1>3. /\ \A x \in Served(caches.attr) : x.data # None
      /\ \A x \in Served(caches.symlink) : x.data # None
  <2>1. ASSUME NEW c, CacheInv(StatData, c, None), NEW x \in Served(c) PROVE x.data # None
    <3>1. x.data \in StatData
      BY <1>1, <2>1, ServedIs
    <3> QED BY <3>1, StatAssumption
  <2> QED BY <1>1, <2>1
<1>4. \A x \in Served(caches.dir) : x.data \in Seq(Names)
  <2> DEFINE D == Seq(Names)
  <2>1. CacheInv(D, caches.dir, None)
    BY <1>1
  <2> HIDE DEF D
  <2>2. ASSUME NEW x \in Served(caches.dir) PROVE x.data \in D
    BY <1>1, <2>1, ServedIs
  <2> QED BY <2>2 DEF D
<1>5. /\ \A h \in Handle : open[h] \in UserPath \cup {None, Unlinked}
      /\ orphans \subseteq {h \in Handle : open[h] # None}
      /\ \A h \in Handle : handle_path[h] \in UserPath \cup {None}
  BY <1>1 DEF FilesInv
<1>6. \A x \in DirHandle : dirs[x] # None => dirs[x].st \in {"cached", "unread", "read", "gone"}
  BY <1>1 DEF DirsInv, OpenDir
<1> QED BY <1>1, <1>2, <1>3, <1>4, <1>5, <1>6 DEF TypeOK

\* Whatever the users do, and whatever fails, what sftfs_cache_get_attr(),
\* _get_symlink() and _peek_dir() can serve is a stat structure, a link target or
\* a listing made of names, and handles refer to paths.
THEOREM Typed ==
    ASSUME StrEqDecides
    PROVE  Spec => []TypeOK
<1>1. Spec => []BaseInv
  BY BaseAlways
<1>2. BaseInv => TypeOK
  BY BaseGivesTypes
<1> QED BY <1>1, <1>2, PTL

LEMMA BaseGivesReleased ==
    ASSUME BaseInv
    PROVE  NothingHeld
<1>1. /\ caches = [attr |-> caches.attr, dir |-> caches.dir, symlink |-> caches.symlink]
      /\ CacheInv(StatData, caches.attr, None) /\ CacheInv(Seq(Names), caches.dir, None)
      /\ CacheInv(StatData, caches.symlink, None)
  BY DEF BaseInv, CachesInv
<1>2. ASSUME NEW D, NEW c, CacheInv(D, c, None), NEW h \in HashVal, NEW i \in DOMAIN c[h]
      PROVE  c[h][i].st \in {"listed"} \cup (IF RenameMayFail THEN {"lost"} ELSE {})
  <2>1. ChainInv(D, c[h], h, None)
    BY <1>2 DEF CacheInv
  <2>2. c[h] \in Seq(EntryOf(D))
    BY <2>1 DEF ChainInv
  <2>3. i \in 1 .. Len(c[h]) /\ c[h][i] \in EntryOf(D)
    BY <1>2, <2>2, LenProperties, ElementOfSeq
  <2>4. c[h][i].path \in Path /\ c[h][i].st \in Status
    BY <2>3, EntryIs
  <2>5. c[h][i].st # "taken"
    BY <2>1, <2>3, <2>4, FileCacheAssumption DEF ChainInv
  <2>6. ~ RenameMayFail => c[h][i].st # "lost"
    BY <2>1, <2>3 DEF ChainInv
  <2> QED BY <2>4, <2>5, <2>6 DEF Status
<1>3. DOMAIN caches = {"attr", "dir", "symlink"}
  BY <1>1
<1>4. ASSUME NEW x \in DOMAIN caches, NEW h \in HashVal, NEW i \in DOMAIN caches[x][h]
      PROVE  caches[x][h][i].st \in {"listed"} \cup (IF RenameMayFail THEN {"lost"} ELSE {})
  <2>1. CASE x = "attr"
    BY <1>1, <1>2, <1>4, <2>1
  <2>2. CASE x = "dir"
    BY <1>1, <1>2, <1>4, <2>2
  <2>3. CASE x = "symlink"
    BY <1>1, <1>2, <1>4, <2>3
  <2> QED BY <1>3, <2>1, <2>2, <2>3
<1> QED BY <1>4 DEF NothingHeld

\* Whatever way a handler ends, and whatever fails on its way (the listing of a
\* readdir that the server cuts short, an entry that finds no memory), every
\* entry it took from a cache is given back, dropped or freed, but for one: the
\* entry of a rename that finds no memory for the new path (file.c:174) is lost,
\* neither listed nor taken, for good.
THEOREM Released ==
    ASSUME StrEqDecides
    PROVE  Spec => []NothingHeld
<1>1. Spec => []BaseInv
  BY BaseAlways
<1>2. BaseInv => NothingHeld
  BY BaseGivesReleased
<1> QED BY <1>1, <1>2, PTL

\* Where nothing is renamed, sftfs_cached_get_handled_path() answers with the path
\* of the file that the handle refers to, if at all: although
\* sftfs_cached_create() maps no handle, sftfs_cached_close() may take the
\* mappings of other handles along, and handle values come back.
THEOREM Mapped ==
    ASSUME StrEqDecides, "rename" \notin Ops
    PROVE  Spec => []HandleMapSound
<1>1. Spec => []BaseInv
  BY BaseAlways
<1>2. BaseInv => HandleMapSound
  BY DEF BaseInv, FilesInv, HandleMapSound
<1> QED BY <1>1, <1>2, PTL

-----------------------------------------------------------------------------
(* What the caches promise *)

\* What sftfs_cached_fetch_attr() and sftfs_cached_fetch_symlink() find is what the
\* server had under that path within the time to live, or the attributes of a file
\* that others took from the path, whatever the mount and others do at the same
\* time, as long as no plain readdir stores its empty stat structures, none is
\* repeated on a handle, and no rename carries attributes to another path.
THEOREM Bounded ==
    ASSUME StrEqDecides, {"readdir", "rename", "rewind"} \cap Ops = {}
    PROVE  Spec => []AttrBounded
<1>1. BaseInv /\ LostInv /\ BoundedInv /\ [Next]_vars => BaseInv' /\ LostInv' /\ BoundedInv'
  BY BaseNext, LostNext, BoundedNext
<1>2. BaseInv /\ BoundedInv => AttrBounded
  BY BoundedGives
<1> QED BY BaseInit, LostInit, BoundedInit, <1>1, <1>2, PTL DEF Spec

\* The mount sees what it has done itself under the path it did it under: after
\* sftfs_cached_inval_attr() and sftfs_cached_inval_all_dir() no attributes older
\* than the change are served under the path, except those of a former file, and
\* after the latter no link target either, under the same conditions.
THEOREM OwnWrites ==
    ASSUME StrEqDecides, {"readdir", "rename", "rewind"} \cap Ops = {}
    PROVE  Spec => []ReadYourWrites
<1>1. BaseInv /\ OwnInv /\ [Next]_vars => BaseInv' /\ OwnInv'
  BY BaseNext, OwnNext
<1>2. BaseInv /\ OwnInv => ReadYourWrites
  BY OwnGives
<1> QED BY BaseInit, OwnInit, <1>1, <1>2, PTL DEF Spec

\* A listing that sftfs_cached_fetch_dir_entries() answers with leaves no name out
\* that was there for the whole time to live, however many readers append to it,
\* as long as the server completes its listings and no handle is read again.
THEOREM Complete ==
    ASSUME StrEqDecides, {"error", "rewind"} \cap Ops = {}
    PROVE  Spec => []ListingComplete
<1>1. BaseInv /\ CompleteInv /\ [Next]_vars => BaseInv' /\ CompleteInv'
  BY BaseNext, CompleteNext
<1>2. BaseInv /\ CompleteInv => ListingComplete
  BY CompleteGives
<1> QED BY BaseInit, CompleteInit, <1>1, <1>2, PTL DEF Spec

\* What sftfs_cached_unlink(), _rmdir() or _rename() has taken from the path it is
\* called with is served by none of the three caches under it, and nothing else is
\* served, a renamed directory's contents included, under a path that did not exist
\* within the time to live, as long as nobody else changes the tree, no directory
\* handle is read again and no path is renamed onto a cached one.
THEOREM Gone ==
    ASSUME StrEqDecides, {"other", "rewind"} \cap Ops = {}, ~ RenameOntoCached
    PROVE  Spec => []GoneNotServed
<1>1. BaseInv /\ GoneInv /\ StoodInv /\ [Next]_vars => BaseInv' /\ GoneInv' /\ StoodInv'
  BY BaseNext, GoneNext, StoodNext
<1>2. BaseInv /\ GoneInv /\ StoodInv => GoneNotServed
  BY GoneGives
<1> QED BY BaseInit, GoneInit, <1>1, <1>2, PTL DEF Spec
=============================================================================
