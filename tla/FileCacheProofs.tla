-------------------------- MODULE FileCacheProofs ---------------------------
(***************************************************************************)
(* Theorems about the file cache, for every set of paths, hash function,   *)
(* data, time to live and size of the table.  What a peek sees of the      *)
(* listed entries (ViewIs) gives the refinement of PathCache.              *)
(***************************************************************************)
EXTENDS FileCache, FileCacheOpsProofs

-----------------------------------------------------------------------------
(* The invariant *)

\* The inductive invariant of the cache.
FileCacheInv ==
    /\ held \in Path \cup {None}
    /\ now \in 0 .. MaxTime
    /\ CacheInv(Data, cache, held)

\* Every operation keeps the invariant.
LEMMA FileCacheStep ==
    ASSUME StrEqDecides, FileCacheInv, [Next]_vars
    PROVE  FileCacheInv'
<1>0. held \in Path \cup {None} /\ now \in 0 .. MaxTime /\ CacheInv(Data, cache, held)
  BY DEF FileCacheInv
<1>1. ASSUME NEW p \in Path, TakeFile(p) PROVE FileCacheInv'
  <2>1. PICK grow \in BOOLEAN : cache' = FileTaken(cache, p, now, grow)
    BY <1>1 DEF TakeFile
  <2>2. held = None /\ held' = p /\ now' = now
    BY <1>1 DEF TakeFile
  <2>3. CacheInv(Data, cache, None)
    BY <1>0, <2>2
  <2>4. CacheInv(Data, FileTaken(cache, p, now, grow), p)
    BY <2>3, FileTakenGives
  <2>5. CacheInv(Data, cache', held')
    BY <2>1, <2>2, <2>4
  <2> QED BY <1>0, <2>2, <2>5 DEF FileCacheInv
<1>2. ASSUME held = None, cache' = Evicted(cache, now), UNCHANGED <<held, now>>
      PROVE  FileCacheInv'
  <2>1. CacheInv(Data, Evicted(cache, now), held)
    BY <1>0, EvictedGives
  <2>2. CacheInv(Data, cache', held')
    BY <1>2, <2>1
  <2> QED BY <1>0, <1>2, <2>2 DEF FileCacheInv
<1>3. ASSUME NEW p \in Path, InvalidateFile(p) PROVE FileCacheInv'
  <2>1. held = None /\ cache' = FileInvalidated(cache, p, now) /\ held' = held /\ now' = now
    BY <1>3 DEF InvalidateFile
  <2>2. CacheInv(Data, cache, None)
    BY <1>0, <2>1
  <2>3. CacheInv(Data, FileInvalidated(cache, p, now), None)
    BY <2>2, FileInvalidatedGives
  <2>4. CacheInv(Data, cache', held')
    BY <2>1, <2>3
  <2> QED BY <1>0, <2>1, <2>4 DEF FileCacheInv
<1>4. ASSUME NEW p \in Path, RenameFileFails(p) PROVE FileCacheInv'
  <2>1. /\ RenameMayFail /\ held = None
        /\ cache' = FileRenameLost(cache, p, now) /\ held' = held /\ now' = now
    BY <1>4 DEF RenameFileFails
  <2>2. CacheInv(Data, cache, None)
    BY <1>0, <2>1
  <2>3. CacheInv(Data, FileRenameLost(cache, p, now), None)
    BY <2>1, <2>2, FileRenameLostGives
  <2>4. CacheInv(Data, cache', held')
    BY <2>1, <2>3
  <2> QED BY <1>0, <2>1, <2>4 DEF FileCacheInv
<1>5. ASSUME NEW p \in Path, NEW q \in Path, RenameFile(p, q) PROVE FileCacheInv'
  <2>1. /\ held = None /\ cache' = FileRenamed(cache, p, q, now) /\ held' = held /\ now' = now
        /\ RenameOntoCached \/ FilePeeked(cache, q, now) = None
    BY <1>5 DEF RenameFile
  <2>2. CacheInv(Data, cache, None)
    BY <1>0, <2>1
  <2>3. CacheInv(Data, FileRenamed(cache, p, q, now), None)
    BY <1>0, <2>1, <2>2, FileRenamedGives, DataAssumption
  <2>4. CacheInv(Data, cache', held')
    BY <2>1, <2>3
  <2> QED BY <1>0, <2>1, <2>4 DEF FileCacheInv
<1>6. ASSUME NEW d \in Data, GiveFile(d) PROVE FileCacheInv'
  <2>1. held # None /\ cache' = FileGiven(cache, held, d, now) /\ held' = None /\ now' = now
    BY <1>6 DEF GiveFile
  <2>2. held \in Path
    BY <1>0, <2>1
  <2>3. CacheInv(Data, FileGiven(cache, held, d, now), None)
    BY <1>0, <2>2, FileGivenGives
  <2>4. CacheInv(Data, cache', held')
    BY <2>1, <2>3
  <2> QED BY <1>0, <2>1, <2>4 DEF FileCacheInv
<1>7. ASSUME DropFile PROVE FileCacheInv'
  <2>1. held # None /\ cache' = FileDropped(cache, held, now) /\ held' = None /\ now' = now
    BY <1>7 DEF DropFile
  <2>2. held \in Path
    BY <1>0, <2>1
  <2>3. CacheInv(Data, FileDropped(cache, held, now), None)
    BY <1>0, <2>2, FileDroppedGives
  <2>4. CacheInv(Data, cache', held')
    BY <2>1, <2>3
  <2> QED BY <1>0, <2>1, <2>4 DEF FileCacheInv
<1>8. ASSUME Clear PROVE FileCacheInv'
  <2>1. held = None /\ cache' = EmptyCache /\ held' = held /\ now' = now
    BY <1>8 DEF Clear
  <2>2. CacheInv(Data, cache', held')
    BY <2>1, EmptyGives
  <2> QED BY <1>0, <2>1, <2>2 DEF FileCacheInv
<1>9. ASSUME Tick PROVE FileCacheInv'
  <2>1. now < MaxTime /\ now' = now + 1 /\ cache' = cache /\ held' = held
    BY <1>9 DEF Tick
  <2>2. now' \in 0 .. MaxTime
    BY <1>0, <2>1, FileCacheAssumption
  <2>3. CacheInv(Data, cache', held')
    BY <1>0, <2>1
  <2> QED BY <1>0, <2>1, <2>2, <2>3 DEF FileCacheInv
<1>10. ASSUME UNCHANGED vars PROVE FileCacheInv'
  <2>1. cache' = cache /\ held' = held /\ now' = now
    BY <1>10 DEF vars
  <2>2. CacheInv(Data, cache', held')
    BY <1>0, <2>1
  <2> QED BY <1>0, <2>1, <2>2 DEF FileCacheInv
<1>11. \A p \in Path : TakeFileFails(p) => FileCacheInv'
  BY <1>2 DEF TakeFileFails
<1>12. PeekFile => FileCacheInv'
  BY <1>2 DEF PeekFile
<1> QED BY <1>1, <1>3, <1>4, <1>5, <1>6, <1>7, <1>8, <1>9, <1>10, <1>11, <1>12 DEF Next

\* Whatever allocations fail and whatever is renamed, every chain is what
\* ChainInv says.
THEOREM Chains == ASSUME StrEqDecides PROVE Spec => []FileCacheInv
<1>1. Init => FileCacheInv
  <2>1. ASSUME Init PROVE CacheInv(Data, cache, held)
    BY <2>1, EmptyGives DEF Init
  <2> QED BY <2>1, FileCacheAssumption DEF Init, FileCacheInv
<1>2. FileCacheInv /\ [Next]_vars => FileCacheInv'
  BY FileCacheStep
<1> QED BY <1>1, <1>2, PTL DEF Spec

\* The type invariant.
THEOREM Types == ASSUME StrEqDecides PROVE Spec => []TypeOK
<1>1. FileCacheInv => TypeOK
  <2>1. ASSUME FileCacheInv, NEW h \in HashVal, NEW i \in DOMAIN cache[h]
        PROVE  cache[h][i] \in EntryOf(Data)
    <3>1. cache[h] \in Seq(EntryOf(Data))
      BY <2>1 DEF FileCacheInv, CacheInv, ChainInv
    <3>2. DOMAIN cache[h] = 1 .. Len(cache[h])
      BY <3>1, LenProperties
    <3> QED BY <2>1, <3>1, <3>2, ElementOfSeq
  <2>2. EntryType = EntryOf(Data)
    BY DEF EntryType, EntryOf
  <2> QED BY <2>1, <2>2 DEF TypeOK, Position, FileCacheInv
<1> QED BY <1>1, Chains, PTL

\* Every entry is in the chain of its path, and the entry the caller holds, and
\* no other, is where give and drop look for it.
THEOREM Reachable == ASSUME StrEqDecides PROVE Spec => []EntriesReachable
<1>1. ASSUME FileCacheInv PROVE EntriesReachable
  <2> DEFINE Taken1 == {y \in Position(cache) : cache[y[1]][y[2]].st = "taken"}
  <2>1. ASSUME NEW h \in HashVal
        PROVE  ChainInv(Data, cache[h], h, held) /\ DOMAIN cache[h] = 1 .. Len(cache[h])
    <3>1. ChainInv(Data, cache[h], h, held)
      BY <1>1 DEF FileCacheInv, CacheInv
    <3> QED BY <3>1, LenProperties DEF ChainInv
  <2>2. ASSUME NEW x \in Position(cache)
        PROVE  x = <<x[1], x[2]>> /\ x[1] \in HashVal /\ x[2] \in 1 .. Len(cache[x[1]])
    BY <2>1 DEF Position
  <2>3. \A x \in Position(cache) : Hash[cache[x[1]][x[2]].path] = x[1]
    BY <2>1, <2>2 DEF ChainInv
  <2>4. ASSUME NEW x \in Taken1 PROVE cache[x[1]][x[2]].path = held /\ held # None
    <3>1. x[1] \in HashVal /\ x[2] \in 1 .. Len(cache[x[1]]) /\ cache[x[1]][x[2]].st = "taken"
      BY <2>2
    <3>2. cache[x[1]][x[2]].path = held
      BY <2>1, <3>1 DEF ChainInv
    <3>3. cache[x[1]][x[2]] \in EntryOf(Data)
      BY <2>1, <3>1, ElementOfSeq DEF ChainInv
    <3> QED BY <3>2, <3>3, EntryIs, FileCacheAssumption
  <2>5. ASSUME held # None PROVE \E x \in Taken1 : cache[x[1]][x[2]].path = held
    <3>1. held \in Path /\ Hash[held] \in HashVal
      BY <1>1, <2>5, FileCacheAssumption DEF FileCacheInv
    <3>2. PICK i \in 1 .. Len(cache[Hash[held]]) : cache[Hash[held]][i].st = "taken"
      BY <1>1, <2>5 DEF FileCacheInv, CacheInv
    <3>3. <<Hash[held], i>> \in Position(cache)
      BY <2>1, <3>1 DEF Position
    <3>4. <<Hash[held], i>> \in Taken1
      BY <3>2, <3>3
    <3> QED BY <2>4, <3>4
  <2>6. {cache[x[1]][x[2]].path : x \in Taken1} = {held} \ {None}
    BY <2>4, <2>5
  <2> QED BY <2>3, <2>6 DEF EntriesReachable
<1> QED BY <1>1, Chains, PTL

-----------------------------------------------------------------------------
(* What a call finds *)

\* Where no path is renamed onto a cached one, a path has one listed entry.
LEMMA OneListed ==
    ASSUME ~ RenameOntoCached, NEW c, NEW hd, CacheInv(Data, c, hd), NEW h \in HashVal,
           NEW i \in 1 .. Len(c[h]), NEW j \in 1 .. Len(c[h]),
           c[h][i].st = "listed", c[h][j].st = "listed", c[h][i].path = c[h][j].path
    PROVE  i = j
  BY DEF CacheInv, ChainInv

\* peek finds whatever is listed and has not expired, and nothing else.
THEOREM Misses ==
    ASSUME StrEqDecides, ~ RenameOntoCached PROVE Spec => []PeekMissesNothing
<1>1. ASSUME FileCacheInv PROVE PeekMissesNothing
  <2> DEFINE c == Evicted(cache, now)
  <2>1. CacheInv(Data, c, held)
    BY <1>1, EvictedGives DEF FileCacheInv
  <2> HIDE DEF c
  <2>2. ASSUME NEW h \in HashVal, NEW i \in DOMAIN c[h], c[h][i].st = "listed"
        PROVE  FindEntry(c, c[h][i].path) = i
    <3> DEFINE p == c[h][i].path
               j == FindEntry(c, p)
    <3>1. ChainInv(Data, c[h], h, held) /\ c[h] \in Seq(EntryOf(Data))
      BY <2>1 DEF CacheInv, ChainInv
    <3>2. i \in 1 .. Len(c[h])
      BY <3>1, LenProperties
    <3>3. p \in Path /\ Hash[p] = h
      <4>1. c[h][i] \in EntryOf(Data)
        BY <3>1, <3>2, ElementOfSeq
      <4> QED BY <3>1, <3>2, <4>1, EntryIs DEF ChainInv
    <3>4. /\ j = 0 => Unlisted(c, p)
          /\ j # 0 => j \in 1 .. Len(c[h]) /\ c[h][j].st = "listed" /\ c[h][j].path = p
      BY <2>1, <3>3, FindGives
    <3> HIDE DEF j
    <3>5. j # 0
      BY <2>2, <3>2, <3>4 DEF Unlisted, Listed, In
    <3>6. i = j
      BY <2>1, <2>2, <3>2, <3>4, <3>5, OneListed
    <3> QED BY <3>6 DEF j
  <2>3. \A x \in ListedAt(c) : FindEntry(c, c[x[1]][x[2]].path) = x[2]
    BY <2>2 DEF ListedAt, Position
  <2> QED BY <2>3 DEF PeekMissesNothing, c
<1> QED BY <1>1, Chains, PTL

\* What is not listed is not found.
LEMMA UnlistedHides ==
    ASSUME StrEqDecides, NEW c, NEW hd \in Path \cup {None}, CacheInv(Data, c, hd), NEW p \in Path,
           Unlisted(c, p), NEW t
    PROVE  FilePeeked(c, p, t) = None
<1> DEFINE v == Evicted(c, t)
           i == FindEntry(v, p)
<1>1. CacheInv(Data, v, hd) /\ HoldsUnexpired(v, c, t)
  BY EvictedGives
<1>2. FilePeeked(c, p, t) = IF i = 0 THEN None ELSE v[Hash[p]][i].data
  BY DEF FilePeeked
<1> HIDE DEF v
<1>3. i # 0 => i \in 1 .. Len(v[Hash[p]]) /\ v[Hash[p]][i].st = "listed" /\ v[Hash[p]][i].path = p
  BY <1>1, FindGives
<1> HIDE DEF i
<1>4. ASSUME i # 0 PROVE FALSE
  <2> DEFINE e == v[Hash[p]][i]
  <2>1. In(e, v[Hash[p]]) /\ e.st = "listed" /\ e.path = p
    BY <1>3, <1>4 DEF In
  <2> HIDE DEF e
  <2>2. Hash[p] \in HashVal
    BY FileCacheAssumption
  <2> QED BY <1>1, <2>1, <2>2 DEF HoldsUnexpired, Unlisted, Listed
<1> QED BY <1>2, <1>4

\* After an invalidation the path is not found.
THEOREM Hides ==
    ASSUME StrEqDecides, ~ RenameOntoCached PROVE Spec => InvalidateHides
<1>1. ASSUME FileCacheInv, FileCacheInv', NEW p \in Path, InvalidateFile(p)
      PROVE  FilePeeked(cache', p, now') = None
  <2> DEFINE v == Evicted(cache, now)
  <2>1. held = None /\ cache' = FileInvalidated(cache, p, now) /\ held' = None
    BY <1>1 DEF InvalidateFile
  <2>2. CacheInv(Data, cache, None)
    BY <1>1, <2>1 DEF FileCacheInv
  <2>3. ListsWithout(FileInvalidated(cache, p, now), v, p)
    BY <2>2, FileInvalidatedGives
  <2>4. ListsWithout(cache', v, p)
    BY <2>1, <2>3
  <2>5. Unlisted(cache', p)
    BY <2>4 DEF ListsWithout, Unlisted
  <2>6. CacheInv(Data, cache', None)
    BY <1>1, <2>1 DEF FileCacheInv
  <2> QED BY <2>5, <2>6, UnlistedHides
<1>2. FileCacheInv /\ FileCacheInv' /\ [Next]_vars =>
            [\A p \in Path : InvalidateFile(p) => FilePeeked(cache', p, now') = None]_vars
  BY <1>1
<1> QED BY <1>2, Chains, PTL DEF Spec, InvalidateHides

-----------------------------------------------------------------------------
(* The cache implements PathCache *)

\* A call at the moment t finds e under the path p.
Shows(c, t, p, e) == Listed(c, Hash[p], e) /\ e.path = p /\ ~ Expired(e, t)

\* What a peek for p would see at the moment t.
ViewAt(c, t, p) ==
    LET v == Evicted(c, t)
        i == FindEntry(v, p)
    IN  IF i = 0 THEN None
        ELSE [data |-> v[Hash[p]][i].data, mod_time |-> v[Hash[p]][i].mod_time]

\* A path has at most one entry to show, and a peek sees it.
LEMMA ViewIs ==
    ASSUME StrEqDecides, ~ RenameOntoCached, NEW c, NEW hd \in Path \cup {None}, CacheInv(Data, c, hd),
           NEW t, NEW p \in Path
    PROVE  \/ ViewAt(c, t, p) = None /\ \A e : ~ Shows(c, t, p, e)
           \/ \E e \in EntryOf(Data) :
                /\ e.data \in Data /\ Shows(c, t, p, e) /\ \A f : Shows(c, t, p, f) => f = e
                /\ ViewAt(c, t, p) = [data |-> e.data, mod_time |-> e.mod_time]
<1> DEFINE v == Evicted(c, t)
           s == v[Hash[p]]
           i == FindEntry(v, p)
<1>1. CacheInv(Data, v, hd) /\ HoldsUnexpired(v, c, t) /\ Hash[p] \in HashVal
  BY EvictedGives, FileCacheAssumption
<1>2. ViewAt(c, t, p) = IF i = 0 THEN None ELSE [data |-> s[i].data, mod_time |-> s[i].mod_time]
  BY DEF ViewAt
<1> HIDE DEF v
<1>3. /\ i = 0 => Unlisted(v, p)
      /\ i # 0 => i \in 1 .. Len(s) /\ s[i].st = "listed" /\ s[i].path = p /\ s[i].data \in Data
  BY <1>1, FindGives
<1> HIDE DEF i
<1>4. \A e : Shows(c, t, p, e) <=> Listed(v, Hash[p], e) /\ e.path = p
  BY <1>1 DEF Shows, Listed, HoldsUnexpired
<1>5. CASE i = 0
  BY <1>1, <1>2, <1>3, <1>4, <1>5 DEF Unlisted
<1>6. CASE i # 0
  <2> DEFINE e == s[i]
  <2>1. i \in 1 .. Len(s) /\ e.st = "listed" /\ e.path = p /\ e.data \in Data
    BY <1>3, <1>6
  <2>2. e \in EntryOf(Data)
    BY <1>1, <2>1, ChainOf
  <2>3. Shows(c, t, p, e)
    BY <1>4, <2>1 DEF Listed, In
  <2>4. ASSUME NEW f, Shows(c, t, p, f) PROVE f = e
    <3>1. PICK j \in 1 .. Len(s) : s[j] = f
      BY <1>4, <2>4 DEF Listed, In
    <3>2. s[j].st = "listed" /\ s[j].path = s[i].path
      BY <1>4, <2>1, <2>4, <3>1 DEF Listed
    <3>3. i = j
      BY <1>1, <2>1, <3>2, OneListed
    <3> QED BY <3>1, <3>3
  <2>5. ViewAt(c, t, p) = [data |-> e.data, mod_time |-> e.mod_time]
    BY <1>2, <1>6
  <2> HIDE DEF e
  <2> QED BY <2>1, <2>2, <2>3, <2>4, <2>5
<1> QED BY <1>5, <1>6

\* d at the moment u shows of r what c shows at the moment t.
SameShown(d, u, c, t, r) == \A e : Shows(d, u, r, e) <=> Shows(c, t, r, e)

\* Caches that show the same of a path look the same to a peek.
LEMMA SameView ==
    ASSUME StrEqDecides, ~ RenameOntoCached,
           NEW c, NEW hd \in Path \cup {None}, CacheInv(Data, c, hd), NEW t,
           NEW d, NEW x \in Path \cup {None}, CacheInv(Data, d, x), NEW u,
           NEW r \in Path, SameShown(d, u, c, t, r)
    PROVE  ViewAt(d, u, r) = ViewAt(c, t, r)
<1>1. \/ ViewAt(c, t, r) = None /\ \A e : ~ Shows(c, t, r, e)
      \/ \E e : /\ Shows(c, t, r, e) /\ \A f : Shows(c, t, r, f) => f = e
                /\ ViewAt(c, t, r) = [data |-> e.data, mod_time |-> e.mod_time]
  BY ViewIs
<1>2. \/ ViewAt(d, u, r) = None /\ \A e : ~ Shows(d, u, r, e)
      \/ \E e : /\ Shows(d, u, r, e) /\ \A f : Shows(d, u, r, f) => f = e
                /\ ViewAt(d, u, r) = [data |-> e.data, mod_time |-> e.mod_time]
  BY ViewIs
<1> QED BY <1>1, <1>2 DEF SameShown

\* A path of which nothing is shown looks uncached.
LEMMA NoView ==
    ASSUME StrEqDecides, ~ RenameOntoCached,
           NEW c, NEW hd \in Path \cup {None}, CacheInv(Data, c, hd), NEW t, NEW p \in Path,
           \A e : ~ Shows(c, t, p, e)
    PROVE  ViewAt(c, t, p) = None
  BY ViewIs

\* The entry that is shown is what a peek sees.
LEMMA OneView ==
    ASSUME StrEqDecides, ~ RenameOntoCached,
           NEW c, NEW hd \in Path \cup {None}, CacheInv(Data, c, hd), NEW t, NEW p \in Path,
           NEW e, Shows(c, t, p, e)
    PROVE  /\ ViewAt(c, t, p) = [data |-> e.data, mod_time |-> e.mod_time]
           /\ ViewAt(c, t, p) # None
           /\ e.mod_time \in Nat
<1>1. PICK f \in EntryOf(Data) :
            /\ f.data \in Data /\ \A g : Shows(c, t, p, g) => g = f
            /\ ViewAt(c, t, p) = [data |-> f.data, mod_time |-> f.mod_time]
  BY ViewIs
<1>2. f = e
  BY <1>1
<1>3. f.mod_time \in Nat
  <2>1. f.mod_time \in 0 .. MaxTime
    BY EntryIs
  <2> QED BY <2>1, FileCacheAssumption
<1>4. [data |-> f.data, mod_time |-> f.mod_time] \in [data : Data, mod_time : Nat]
  BY <1>1, <1>3
<1> QED BY <1>1, <1>2, <1>3, <1>4, DataAssumption

\* What peeks would see at the moment t.
View(c, t) == [r \in Path |-> ViewAt(c, t, r)]

\* Operations that only evict show the same.
LEMMA EvictedView ==
    ASSUME StrEqDecides, ~ RenameOntoCached,
           NEW c, NEW hd \in Path \cup {None}, CacheInv(Data, c, hd), NEW t,
           NEW d, NEW x \in Path \cup {None}, CacheInv(Data, d, x),
           NEW w, SameLists(w, c), HoldsUnexpired(d, w, t)
    PROVE  View(d, t) = View(c, t)
<1>1. ASSUME NEW r \in Path PROVE ViewAt(d, t, r) = ViewAt(c, t, r)
  <2>1. Hash[r] \in HashVal
    BY FileCacheAssumption
  <2>2. SameShown(d, t, c, t, r)
    BY <2>1 DEF SameShown, Shows, Listed, SameLists, HoldsUnexpired
  <2> QED BY <2>2, SameView
<1> QED BY <1>1 DEF View

\* Operations that take the entry of p off the list hide it.
LEMMA HiddenView ==
    ASSUME StrEqDecides, ~ RenameOntoCached,
           NEW c, NEW hd \in Path \cup {None}, CacheInv(Data, c, hd), NEW t,
           NEW d, NEW x \in Path \cup {None}, CacheInv(Data, d, x),
           NEW p \in Path, ListsWithout(d, Evicted(c, t), p)
    PROVE  View(d, t) = [View(c, t) EXCEPT ![p] = None]
<1>1. HoldsUnexpired(Evicted(c, t), c, t)
  BY EvictedGives
<1>2. ASSUME NEW r \in Path, r # p PROVE ViewAt(d, t, r) = ViewAt(c, t, r)
  <2>1. Hash[r] \in HashVal
    BY FileCacheAssumption
  <2>2. SameShown(d, t, c, t, r)
    BY <1>1, <1>2, <2>1 DEF SameShown, Shows, Listed, ListsWithout, HoldsUnexpired
  <2> QED BY <2>2, SameView
<1>3. ViewAt(d, t, p) = None
  <2>1. Hash[p] \in HashVal
    BY FileCacheAssumption
  <2>2. \A e : ~ Shows(d, t, p, e)
    BY <2>1 DEF Shows, ListsWithout
  <2> QED BY <2>2, NoView
<1> QED BY <1>2, <1>3 DEF View

\* A give shows the data of the caller.
LEMMA ShownView ==
    ASSUME StrEqDecides, ~ RenameOntoCached,
           NEW c, NEW hd \in Path \cup {None}, CacheInv(Data, c, hd), NEW t \in 0 .. MaxTime,
           NEW d, NEW x \in Path \cup {None}, CacheInv(Data, d, x),
           NEW p \in Path, NEW v, ListsAlso(d, Evicted(c, t), p, ListedEntry(p, v, t))
    PROVE  View(d, t) = [View(c, t) EXCEPT ![p] = [data |-> v, mod_time |-> t]]
<1> DEFINE y == ListedEntry(p, v, t)
<1>1. HoldsUnexpired(Evicted(c, t), c, t)
  BY EvictedGives
<1>2. y.path = p /\ y.data = v /\ y.mod_time = t /\ y.st = "listed"
  BY DEF ListedEntry
<1> HIDE DEF y
<1>3. ASSUME NEW r \in Path, r # p PROVE ViewAt(d, t, r) = ViewAt(c, t, r)
  <2>1. Hash[r] \in HashVal
    BY FileCacheAssumption
  <2>2. \A e : Listed(d, Hash[r], e) <=> Listed(Evicted(c, t), Hash[r], e) \/ (Hash[r] = Hash[p] /\ e = y)
    BY <2>1 DEF ListsAlso, y
  <2>3. \A e : Listed(Evicted(c, t), Hash[r], e) <=> Listed(c, Hash[r], e) /\ ~ Expired(e, t)
    BY <1>1, <2>1 DEF Listed, HoldsUnexpired
  <2>4. SameShown(d, t, c, t, r)
    BY <1>2, <1>3, <2>2, <2>3 DEF SameShown, Shows
  <2> QED BY <2>4, SameView
<1>4. ViewAt(d, t, p) = [data |-> v, mod_time |-> t]
  <2>1. Hash[p] \in HashVal
    BY FileCacheAssumption
  <2>2. Listed(d, Hash[p], y)
    BY <2>1 DEF ListsAlso, y
  <2>3. ~ Expired(y, t)
    <3>1. t \in Int /\ TTL \in Nat
      BY FileCacheAssumption
    <3>2. ~ (t + TTL < t)
      BY <3>1
    <3> QED BY <1>2, <3>2 DEF Expired
  <2>4. Shows(d, t, p, y)
    BY <1>2, <2>2, <2>3 DEF Shows
  <2> QED BY <1>2, <2>4, OneView
<1> QED BY <1>3, <1>4 DEF View

\* A rename hides p, and shows what p showed under q.
LEMMA MovedView ==
    ASSUME StrEqDecides, ~ RenameOntoCached,
           NEW c, NEW hd \in Path \cup {None}, CacheInv(Data, c, hd), NEW t \in 0 .. MaxTime,
           NEW d, NEW x \in Path \cup {None}, CacheInv(Data, d, x),
           NEW p \in Path, NEW q \in Path, p # q, ListsMoved(Data, d, Evicted(c, t), p, q, t)
    PROVE  /\ View(c, t)[p] # None
           /\ View(d, t) = [[View(c, t) EXCEPT ![p] = None]
                                EXCEPT ![q] = [data |-> View(c, t)[p].data, mod_time |-> t]]
<1>1. HoldsUnexpired(Evicted(c, t), c, t) /\ Hash[p] \in HashVal /\ Hash[q] \in HashVal
  BY EvictedGives, FileCacheAssumption
<1>2. PICK v \in Data :
        /\ \E e : Listed(Evicted(c, t), Hash[p], e) /\ e.path = p /\ e.data = v
        /\ \A h \in HashVal : \A z : Listed(d, h, z) <=>
                (Listed(Evicted(c, t), h, z) /\ z.path # p) \/ (h = Hash[q] /\ z = ListedEntry(q, v, t))
  BY DEF ListsMoved
<1> DEFINE y == ListedEntry(q, v, t)
<1>3. y.path = q /\ y.data = v /\ y.mod_time = t /\ y.st = "listed"
  BY DEF ListedEntry
<1>4. \A h \in HashVal : \A z : Listed(d, h, z) <=>
            (Listed(Evicted(c, t), h, z) /\ z.path # p) \/ (h = Hash[q] /\ z = y)
  BY <1>2
<1> HIDE DEF y
<1>5. \A h \in HashVal : \A z : Listed(Evicted(c, t), h, z) <=> Listed(c, h, z) /\ ~ Expired(z, t)
  BY <1>1 DEF Listed, HoldsUnexpired
<1>6. ViewAt(c, t, p) # None /\ ViewAt(c, t, p).data = v
  <2>1. PICK e : Listed(Evicted(c, t), Hash[p], e) /\ e.path = p /\ e.data = v
    BY <1>2
  <2>2. Shows(c, t, p, e)
    BY <1>1, <1>5, <2>1 DEF Shows
  <2>3. ViewAt(c, t, p) # None /\ ViewAt(c, t, p) = [data |-> e.data, mod_time |-> e.mod_time]
    BY <2>2, OneView
  <2> QED BY <2>1, <2>3
<1>7. ASSUME NEW r \in Path, r # p, r # q PROVE ViewAt(d, t, r) = ViewAt(c, t, r)
  <2>1. Hash[r] \in HashVal
    BY FileCacheAssumption
  <2>2. SameShown(d, t, c, t, r)
    BY <1>3, <1>4, <1>5, <1>7, <2>1 DEF SameShown, Shows
  <2> QED BY <2>2, SameView
<1>8. ViewAt(d, t, p) = None
  <2>1. \A e : ~ Shows(d, t, p, e)
    BY <1>1, <1>3, <1>4 DEF Shows
  <2> QED BY <2>1, NoView
<1>9. ViewAt(d, t, q) = [data |-> v, mod_time |-> t]
  <2>1. ~ Expired(y, t)
    <3>1. t \in Int /\ TTL \in Nat
      BY FileCacheAssumption
    <3>2. ~ (t + TTL < t)
      BY <3>1
    <3> QED BY <1>3, <3>2 DEF Expired
  <2>2. Shows(d, t, q, y)
    BY <1>1, <1>3, <1>4, <2>1 DEF Shows
  <2> QED BY <1>3, <2>2, OneView
<1> QED BY <1>6, <1>7, <1>8, <1>9 DEF View

\* Time passes: what has outlived the time to live is not seen any more.
LEMMA LaterView ==
    ASSUME StrEqDecides, ~ RenameOntoCached,
           NEW c, NEW hd \in Path \cup {None}, CacheInv(Data, c, hd), NEW t \in Nat
    PROVE  View(c, t + 1) = [p \in Path |->
                IF View(c, t)[p] # None /\ View(c, t)[p].mod_time + TTL < t + 1 THEN None
                ELSE View(c, t)[p]]
<1>1. ASSUME NEW p \in Path
      PROVE  ViewAt(c, t + 1, p) =
                IF ViewAt(c, t, p) # None /\ ViewAt(c, t, p).mod_time + TTL < t + 1 THEN None
                ELSE ViewAt(c, t, p)
  <2>1. CASE \E e : Shows(c, t, p, e)
    <3>1. PICK e : Shows(c, t, p, e)
      BY <2>1
    <3>2. /\ ViewAt(c, t, p) = [data |-> e.data, mod_time |-> e.mod_time]
          /\ ViewAt(c, t, p) # None
      BY <3>1, OneView
    <3>3. ViewAt(c, t, p).mod_time = e.mod_time
      BY <3>2
    <3>4. CASE e.mod_time + TTL < t + 1
      <4>1. ASSUME NEW f, Shows(c, t + 1, p, f) PROVE FALSE
        <5>1. Listed(c, Hash[p], f) /\ f.path = p /\ ~ Expired(f, t + 1)
          BY <4>1 DEF Shows
        <5>2. ~ Expired(f, t)
          <6>1. f.mod_time \in Nat
            BY <4>1, OneView
          <6> QED BY <5>1, <6>1, FileCacheAssumption DEF Expired
        <5>3. Shows(c, t, p, f)
          BY <5>1, <5>2 DEF Shows
        <5>4. f = e
          BY <3>1, <5>3, ViewIs
        <5> QED BY <3>4, <5>1, <5>4 DEF Expired, Listed
      <4>2. ViewAt(c, t + 1, p) = None
        BY <4>1, NoView
      <4> QED BY <3>2, <3>3, <3>4, <4>2
    <3>5. CASE ~ (e.mod_time + TTL < t + 1)
      <4>1. Shows(c, t + 1, p, e)
        BY <3>1, <3>5 DEF Shows, Expired
      <4>2. ViewAt(c, t + 1, p) = [data |-> e.data, mod_time |-> e.mod_time]
        BY <4>1, OneView
      <4> QED BY <3>2, <3>3, <3>5, <4>2
    <3> QED BY <3>4, <3>5
  <2>2. CASE \A e : ~ Shows(c, t, p, e)
    <3>1. ViewAt(c, t, p) = None
      BY <2>2, NoView
    <3>2. ASSUME NEW f, Shows(c, t + 1, p, f) PROVE FALSE
      <4>1. Listed(c, Hash[p], f) /\ f.path = p /\ ~ Expired(f, t + 1)
        BY <3>2 DEF Shows
      <4>2. ~ Expired(f, t)
        <5>1. f.mod_time \in Nat
          BY <3>2, OneView
        <5> QED BY <4>1, <5>1, FileCacheAssumption DEF Expired
      <4> QED BY <2>2, <4>1, <4>2 DEF Shows
    <3>3. ViewAt(c, t + 1, p) = None
      BY <3>2, NoView
    <3> QED BY <3>1, <3>3
  <2> QED BY <2>1, <2>2
<1> QED BY <1>1 DEF View

\* Nothing is seen in an empty table.
LEMMA EmptyView ==
    ASSUME StrEqDecides, ~ RenameOntoCached, NEW t
    PROVE  View(EmptyCache, t) = [p \in Path |-> None]
<1>1. ASSUME NEW p \in Path PROVE ViewAt(EmptyCache, t, p) = None
  <2>1. CacheInv(Data, EmptyCache, None)
    BY EmptyGives
  <2>2. Hash[p] \in HashVal /\ 1 .. Len(<<>>) = {}
    BY FileCacheAssumption, EmptySeq
  <2>3. EmptyCache[Hash[p]] = <<>>
    BY <2>2 DEF EmptyCache
  <2>4. \A e : ~ Shows(EmptyCache, t, p, e)
    BY <2>2, <2>3 DEF Shows, Listed, In
  <2> QED BY <2>1, <2>4, NoView
<1> QED BY <1>1 DEF View

\* Every step of the cache is a step of PathCache, or nothing that a peek sees.
LEMMA AbstractStep ==
    ASSUME StrEqDecides, ~ RenameOntoCached, FileCacheInv, FileCacheInv', [Next]_vars
    PROVE  [Abstract!Next]_(Abstract!vars)
<1> DEFINE view == [r \in Path |-> ViewOf(r)]
<1>1. view = View(cache, now) /\ view' = View(cache', now')
  BY DEF View, ViewAt, ViewOf
<1>2. /\ held \in Path \cup {None} /\ now \in 0 .. MaxTime /\ CacheInv(Data, cache, held)
      /\ held' \in Path \cup {None} /\ now' \in 0 .. MaxTime /\ CacheInv(Data, cache', held')
  BY DEF FileCacheInv
<1>3. ASSUME view' = view, held' = held, now' = now
      PROVE  UNCHANGED Abstract!vars
  BY <1>3 DEF Abstract!vars
<1> HIDE DEF view
<1>4. ASSUME NEW p \in Path, TakeFile(p) PROVE Abstract!Take(p)
  <2>1. PICK grow \in BOOLEAN : cache' = FileTaken(cache, p, now, grow)
    BY <1>4 DEF TakeFile
  <2>2. held = None /\ held' = p /\ now' = now
    BY <1>4 DEF TakeFile
  <2>3. CacheInv(Data, cache, None)
    BY <1>2, <2>2
  <2>4. ListsWithout(FileTaken(cache, p, now, grow), Evicted(cache, now), p)
    BY <2>3, FileTakenGives
  <2>5. ListsWithout(cache', Evicted(cache, now), p)
    BY <2>1, <2>4
  <2>6. View(cache', now) = [View(cache, now) EXCEPT ![p] = None]
    BY <1>2, <2>5, HiddenView
  <2>7. view' = [view EXCEPT ![p] = None]
    BY <1>1, <2>2, <2>6
  <2> QED BY <2>2, <2>7 DEF Abstract!Take, Abstract!Hidden, view
<1>5. ASSUME NEW p \in Path, held = None, held' = held, now' = now,
             ListsWithout(cache', Evicted(cache, now), p)
      PROVE  Abstract!Invalidate(p)
  <2>1. View(cache', now) = [View(cache, now) EXCEPT ![p] = None]
    BY <1>2, <1>5, HiddenView
  <2>2. view' = [view EXCEPT ![p] = None]
    BY <1>1, <1>5, <2>1
  <2> QED BY <1>5, <2>2 DEF Abstract!Invalidate, Abstract!Hidden, view
<1>6. ASSUME NEW p \in Path, InvalidateFile(p) PROVE Abstract!Invalidate(p)
  <2>1. held = None /\ cache' = FileInvalidated(cache, p, now) /\ held' = held /\ now' = now
    BY <1>6 DEF InvalidateFile
  <2>2. CacheInv(Data, cache, None)
    BY <1>2, <2>1
  <2>3. ListsWithout(FileInvalidated(cache, p, now), Evicted(cache, now), p)
    BY <2>2, FileInvalidatedGives
  <2>4. ListsWithout(cache', Evicted(cache, now), p)
    BY <2>1, <2>3
  <2> QED BY <1>5, <2>1, <2>4
<1>7. ASSUME NEW p \in Path, RenameFileFails(p) PROVE Abstract!Invalidate(p)
  <2>1. /\ RenameMayFail /\ held = None
        /\ cache' = FileRenameLost(cache, p, now) /\ held' = held /\ now' = now
    BY <1>7 DEF RenameFileFails
  <2>2. CacheInv(Data, cache, None)
    BY <1>2, <2>1
  <2>3. ListsWithout(FileRenameLost(cache, p, now), Evicted(cache, now), p)
    BY <2>1, <2>2, FileRenameLostGives
  <2>4. ListsWithout(cache', Evicted(cache, now), p)
    BY <2>1, <2>3
  <2> QED BY <1>5, <2>1, <2>4
<1>8. ASSUME held' = held \/ held' = None, now' = now,
             NEW w, SameLists(w, cache), HoldsUnexpired(cache', w, now)
      PROVE  view' = view
  <2>1. View(cache', now) = View(cache, now)
    BY <1>2, <1>8, EvictedView
  <2> QED BY <1>1, <1>8, <2>1
<1>9. ASSUME cache' = Evicted(cache, now), held' = held, now' = now
      PROVE  view' = view
  <2>1. HoldsUnexpired(Evicted(cache, now), cache, now)
    BY <1>2, EvictedGives
  <2>2. HoldsUnexpired(cache', cache, now) /\ SameLists(cache, cache)
    BY <1>9, <2>1 DEF SameLists
  <2> QED BY <1>8, <1>9, <2>2
<1>10. ASSUME NEW p \in Path, NEW q \in Path, RenameFile(p, q)
       PROVE  Abstract!Rename(p, q) \/ UNCHANGED Abstract!vars
  <2>1. /\ held = None /\ p # q /\ cache' = FileRenamed(cache, p, q, now)
        /\ held' = held /\ now' = now /\ FilePeeked(cache, q, now) = None
    BY <1>10 DEF RenameFile
  <2>2. CacheInv(Data, cache, None)
    BY <1>2, <2>1
  <2>3. \/ FileRenamed(cache, p, q, now) = Evicted(cache, now)
        \/ ListsMoved(Data, FileRenamed(cache, p, q, now), Evicted(cache, now), p, q, now)
    BY <1>2, <2>1, <2>2, FileRenamedGives, DataAssumption
  <2>4. CASE cache' = Evicted(cache, now)
    BY <1>3, <1>9, <2>1, <2>4
  <2>5. CASE ListsMoved(Data, cache', Evicted(cache, now), p, q, now)
    <3>1. /\ View(cache, now)[p] # None
          /\ View(cache', now) = [[View(cache, now) EXCEPT ![p] = None]
                                EXCEPT ![q] = [data |-> View(cache, now)[p].data, mod_time |-> now]]
      BY <1>2, <2>1, <2>5, MovedView
    <3>2. /\ view[p] # None
          /\ view' = [[view EXCEPT ![p] = None] EXCEPT ![q] = [data |-> view[p].data, mod_time |-> now]]
      BY <1>1, <2>1, <3>1
    <3> QED BY <2>1, <3>2 DEF Abstract!Rename, Abstract!Hidden, Abstract!Shown, view
  <2> QED BY <2>1, <2>3, <2>4, <2>5
<1>11. ASSUME NEW d \in Data, GiveFile(d) PROVE Abstract!Give(d)
  <2>1. held # None /\ cache' = FileGiven(cache, held, d, now) /\ held' = None /\ now' = now
    BY <1>11 DEF GiveFile
  <2>2. held \in Path
    BY <1>2, <2>1
  <2>3. ListsAlso(FileGiven(cache, held, d, now), Evicted(cache, now), held, ListedEntry(held, d, now))
    BY <1>2, <2>2, FileGivenGives
  <2>4. ListsAlso(cache', Evicted(cache, now), held, ListedEntry(held, d, now))
    BY <2>1, <2>3
  <2>5. View(cache', now) = [View(cache, now) EXCEPT ![held] = [data |-> d, mod_time |-> now]]
    BY <1>2, <2>2, <2>4, ShownView
  <2>6. view' = [view EXCEPT ![held] = [data |-> d, mod_time |-> now]]
    BY <1>1, <2>1, <2>5
  <2> QED BY <2>1, <2>6 DEF Abstract!Give, Abstract!Shown, view
<1>12. ASSUME DropFile PROVE Abstract!Drop
  <2>1. held # None /\ cache' = FileDropped(cache, held, now) /\ held' = None /\ now' = now
    BY <1>12 DEF DropFile
  <2>2. held \in Path
    BY <1>2, <2>1
  <2>3. \E w : SameLists(w, cache) /\ HoldsUnexpired(FileDropped(cache, held, now), w, now)
    BY <1>2, <2>2, FileDroppedGives
  <2>4. view' = view
    BY <1>8, <2>1, <2>3
  <2> QED BY <2>1, <2>4 DEF Abstract!Drop, view
<1>13. ASSUME Clear PROVE Abstract!Clear
  <2>1. held = None /\ cache' = EmptyCache /\ held' = held /\ now' = now
    BY <1>13 DEF Clear
  <2>2. view' = [p \in Path |-> None]
    BY <1>1, <2>1, EmptyView
  <2> QED BY <2>1, <2>2 DEF Abstract!Clear, view
<1>14. ASSUME Tick PROVE Abstract!Tick
  <2>1. now' = now + 1 /\ cache' = cache /\ held' = held /\ now \in Nat
    BY <1>2, <1>14, FileCacheAssumption DEF Tick
  <2>2. View(cache, now + 1) = [p \in Path |->
                IF View(cache, now)[p] # None /\ View(cache, now)[p].mod_time + TTL < now + 1 THEN None
                ELSE View(cache, now)[p]]
    BY <1>2, <2>1, LaterView
  <2>3. view' = [p \in Path |->
                IF view[p] # None /\ view[p].mod_time + TTL < now' THEN None ELSE view[p]]
    BY <1>1, <2>1, <2>2
  <2> QED BY <2>1, <2>3 DEF Abstract!Tick, view
<1>15. ASSUME NEW p \in Path, TakeFileFails(p) PROVE UNCHANGED Abstract!vars
  BY <1>3, <1>9, <1>15 DEF TakeFileFails
<1>16. ASSUME PeekFile PROVE UNCHANGED Abstract!vars
  BY <1>3, <1>9, <1>16 DEF PeekFile
<1>17. ASSUME UNCHANGED vars PROVE UNCHANGED Abstract!vars
  <2>1. cache' = cache /\ held' = held /\ now' = now
    BY <1>17 DEF vars
  <2> QED BY <1>1, <1>3, <2>1
<1> QED BY <1>4, <1>6, <1>7, <1>10, <1>11, <1>12, <1>13, <1>14, <1>15, <1>16, <1>17
        DEF Next, Abstract!Next

\* The cache implements the map with a time to live.
THEOREM Implements ==
    ASSUME StrEqDecides, ~ RenameOntoCached PROVE Spec => ImplementsPathCache
<1>1. Init => Abstract!Init
  <2>1. ASSUME Init PROVE [p \in Path |-> ViewOf(p)] = [p \in Path |-> None]
    <3>1. [p \in Path |-> ViewOf(p)] = View(EmptyCache, now)
      BY <2>1 DEF Init, View, ViewAt, ViewOf
    <3> QED BY <3>1, EmptyView
  <2> QED BY <2>1 DEF Init, Abstract!Init
<1>2. FileCacheInv /\ FileCacheInv' /\ [Next]_vars => [Abstract!Next]_(Abstract!vars)
  BY AbstractStep
<1> QED BY <1>1, <1>2, Chains, PTL DEF Spec, ImplementsPathCache, Abstract!Spec
=============================================================================
