----------------------------- MODULE FileCache ------------------------------
(***************************************************************************)
(* One file cache as its clients use it (attr.c, dir.c, symlink.c and the  *)
(* rename of cached.c): every call runs to its end before the next one     *)
(* starts, except that dir.c's user keeps the entry it took while it reads *)
(* the remote directory; no other call reaches the cache meanwhile.        *)
(* Allocation may fail wherever the code handles the failure.              *)
(***************************************************************************)
EXTENDS FileCacheOps

CONSTANTS
    Data,       \* what a client stores
    MaxEntries  \* bound on the entries of the table

ASSUME DataAssumption == None \notin Data /\ None \notin [data : Data, mod_time : Nat]

VARIABLES
    cache,  \* the chains of the table
    held,   \* the path whose entry the caller holds, or None
    now     \* the clock

vars == <<cache, held, now>>

Init == cache = EmptyCache /\ held = None /\ now = 0

RoomLeft == Cardinality(Position(cache)) < MaxEntries

\* sftfs_cache_take_file().
TakeFile(p) ==
    /\ held = None
    /\ RoomLeft
    /\ \E grow \in BOOLEAN : cache' = FileTaken(cache, p, now, grow)
    /\ held' = p
    /\ UNCHANGED now

\* sftfs_cache_take_file() of a path that is not cached, out of memory for the
\* entry (alloc) or for its path (construct_file, then free).
TakeFileFails(p) ==
    /\ held = None
    /\ FindEntry(Evicted(cache, now), p) = 0
    /\ cache' = Evicted(cache, now)
    /\ UNCHANGED <<held, now>>

\* The client stores d and calls sftfs_cache_give_file().
GiveFile(d) ==
    /\ held # None
    /\ cache' = FileGiven(cache, held, d, now)
    /\ held' = None
    /\ UNCHANGED now

\* sftfs_cache_drop_file().
DropFile ==
    /\ held # None
    /\ cache' = FileDropped(cache, held, now)
    /\ held' = None
    /\ UNCHANGED now

\* sftfs_cache_peek_file() evicts on its way.
PeekFile ==
    /\ held = None
    /\ cache' = Evicted(cache, now)
    /\ UNCHANGED <<held, now>>

\* sftfs_cache_invalidate_file().
InvalidateFile(p) ==
    /\ held = None
    /\ cache' = FileInvalidated(cache, p, now)
    /\ UNCHANGED <<held, now>>

\* sftfs_cache_rename_file().
RenameFile(p, q) ==
    /\ held = None
    /\ p # q
    /\ RenameOntoCached \/ FilePeeked(cache, q, now) = None
    /\ cache' = FileRenamed(cache, p, q, now)
    /\ UNCHANGED <<held, now>>

\* sftfs_cache_rename_file() out of memory.
RenameFileFails(p) ==
    /\ RenameMayFail
    /\ held = None
    /\ cache' = FileRenameLost(cache, p, now)
    /\ UNCHANGED <<held, now>>

\* sftfs_cache_clear().
Clear ==
    /\ held = None
    /\ cache' = EmptyCache
    /\ UNCHANGED <<held, now>>

Tick ==
    /\ now < MaxTime
    /\ now' = now + 1
    /\ UNCHANGED <<cache, held>>

Next ==
    \/ \E p \in Path :
        \/ TakeFile(p) \/ TakeFileFails(p) \/ InvalidateFile(p)
        \/ RenameFileFails(p)
        \/ \E q \in Path : RenameFile(p, q)
    \/ \E d \in Data : GiveFile(d)
    \/ PeekFile
    \/ DropFile
    \/ Clear
    \/ Tick

Spec == Init /\ [][Next]_vars

-----------------------------------------------------------------------------
(* Properties *)

EntryType ==
    [path : Path, data : Data \cup {None}, mod_time : 0 .. MaxTime, st : Status]

\* Type invariant.
TypeOK ==
    /\ \A x \in Position(cache) : cache[x[1]][x[2]] \in EntryType
    /\ held \in Path \cup {None}
    /\ now \in 0 .. MaxTime

\* Every entry is in the chain its path hashes to (also after a rename), and
\* the caller holds exactly one entry when it holds one: give and drop, which
\* look the entry up again, find it.
EntriesReachable ==
    /\ \A x \in Position(cache) : Hash[cache[x[1]][x[2]].path] = x[1]
    /\ {cache[x[1]][x[2]].path : x \in {y \in Position(cache) :
            cache[y[1]][y[2]].st = "taken"}} = {held} \ {None}

\* peek_next() cannot tell the only listed entry from an unlisted one
\* (cache.c:170): a walk that started at a listed entry still misses none, so
\* whatever is listed under a path and not expired is found, and no second entry
\* for the path is found instead, whatever failed before.
PeekMissesNothing ==
    LET c == Evicted(cache, now)
    IN  \A x \in ListedAt(c) : FindEntry(c, c[x[1]][x[2]].path) = x[2]

\* After sftfs_cache_invalidate_file() the path is not cached any more
\* (test/ut/cache/file.c:160-161).
InvalidateHides ==
    [][\A p \in Path : InvalidateFile(p) => FilePeeked(cache', p, now') = None]_vars

ViewOf(p) ==
    LET c == Evicted(cache, now)
        i == FindEntry(c, p)
    IN  IF i = 0 THEN None
        ELSE [data |-> c[Hash[p]][i].data, mod_time |-> c[Hash[p]][i].mod_time]

Abstract == INSTANCE PathCache WITH view <- [p \in Path |-> ViewOf(p)]

\* The cache implements the map with a time to live of PathCache.
ImplementsPathCache == Abstract!Spec
=============================================================================
