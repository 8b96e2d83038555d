---------------------------- MODULE FileCacheOps ----------------------------
(***************************************************************************)
(* The operations of a file cache (src/cache/cache.c and file.c), as       *)
(* operators from cache values to cache values.  The attribute, directory  *)
(* and symlink caches are three such values.                               *)
(*                                                                         *)
(* A cache is its hash table seen as ChainTable shows it: for every hash   *)
(* the chain of entries, newest first.  The LRU list appears as the "st"   *)
(* and "mod_time" of the entries only: LruQueue and CacheList show that a  *)
(* node is linked exactly between give and take, and that the eviction     *)
(* loop removes exactly the listed entries that outlived the time to live. *)
(* One clock reading t stands for the readings made inside one call.       *)
(***************************************************************************)
EXTENDS Subsequence, SequencesExt

CONSTANTS
    Path,       \* absolute paths
    HashVal,    \* values of fnv1a_hash()
    Hash,       \* [Path -> HashVal]
    TTL,        \* config.list.ttl
    MaxTime,    \* bound on the clock
    None,       \* no entry, no data
    RenameOntoCached,   \* may a path be renamed onto a path that is cached?
    RenameMayFail       \* may a rename run out of memory?

ASSUME FileCacheAssumption ==
    /\ Hash \in [Path -> HashVal]
    /\ TTL \in Nat /\ MaxTime \in Nat
    /\ None \notin Path
    /\ {RenameOntoCached, RenameMayFail} \subseteq BOOLEAN

EmptyCache == [h \in HashVal |-> <<>>]

\* "listed": given; "taken": in the hands of the caller; "lost": taken and
\* forgotten (rename_file() returns early when it is out of memory).
Status == {"listed", "taken", "lost"}

Position(c) == UNION {{<<h, i>> : i \in DOMAIN c[h]} : h \in HashVal}

ListedAt(c) == {x \in Position(c) : c[x[1]][x[2]].st = "listed"}

-----------------------------------------------------------------------------
(* Plausible mistakes, used to show that the properties notice them. *)

\* Entries kept one tick too long.
Mut_Expired(e, t) == e.st = "listed" /\ e.mod_time + TTL + 1 < t

\* The first entry of a chain is tested like the following ones.
Mut_PeekTest(c, h, i) == c[h][i].st = "listed" /\ ListedAt(c) # {<<h, i>>}

\* A renamed entry keeps its place in the table.
Mut_Rehashed(c, h, i, q) == [c EXCEPT ![h][i].path = q]

\* The stamp is the moment the entry expires.
Mut_Given(c, h, i, t) == [c EXCEPT ![h][i].st = "listed", ![h][i].mod_time = t + TTL]

\* Invalidation leaves the entry to its time to live.
Mut_FileInvalidated(c, p, t) ==
    [h \in HashVal |-> SelectSeq(c[h], LAMBDA e : ~ Mut_Expired(e, t + 1))]

-----------------------------------------------------------------------------
(* cache.c *)

\* lru_invalid() for a listed entry.
Expired(e, t) == e.st = "listed" /\ e.mod_time + TTL < t

\* What evict_invalid_lru_entries() leaves of a chain.
Unexpired(s, t) == Kept(s, {i \in DOMAIN s : ~ Expired(s[i], t)})

\* evict_invalid_lru_entries().
Evicted(c, t) == [h \in HashVal |-> Unexpired(c[h], t)]

\* sftfs_cache_alloc() behind its eviction: a new unlisted entry at the head of
\* its chain, the table possibly having grown.
Alloced(c, p, grow) ==
    [h \in HashVal |->
        (IF h = Hash[p]
           THEN <<[path |-> p, data |-> None, mod_time |-> 0, st |-> "taken"]>>
           ELSE <<>>)
        \o (IF grow THEN Reverse(c[h]) ELSE c[h])]

\* sftfs_cache_take(): off the list, node reset.
Taken(c, h, i) == [c EXCEPT ![h][i].st = "taken", ![h][i].mod_time = 0]

\* sftfs_cache_give() of an unlisted entry.
Given(c, h, i, t) == [c EXCEPT ![h][i].st = "listed", ![h][i].mod_time = t]

\* sftfs_cache_free(): sftfs_htable_remove() of an unlisted entry.
Freed(c, h, i) == [c EXCEPT ![h] = RemoveAt(@, i)]

\* maybe_unlisted_entry(): no neighbours, which is also true of the only entry
\* on the list.
MaybeUnlisted(c, h, i) ==
    c[h][i].st # "listed" \/ ListedAt(c) = {<<h, i>>}

\* find_listed_entry() from sftfs_cache_peek(), with the cache at hand.
PeekTest(c, h, i) == c[h][i].st = "listed"

\* find_listed_entry() from sftfs_cache_peek_next(), without it.
PeekNextTest(c, h, i) == ~ MaybeUnlisted(c, h, i)

\* The positions a peek / peek_next loop visits in the chain of h.
Peeked(c, h) ==
    {i \in DOMAIN c[h] :
        LET earlier == {j \in 1 .. i - 1 : PeekTest(c, h, j)}
        IN  IF earlier = {} THEN PeekTest(c, h, i) ELSE PeekNextTest(c, h, i)}

-----------------------------------------------------------------------------
(* file.c *)

\* str_eq(): strncmp() over the length of the stored string.
StrEq(s, p) == IsPrefix(s, p)

\* find_entry() behind its eviction: position in the chain, 0 for NULL.
FindEntry(c, p) ==
    LET hits == {i \in Peeked(c, Hash[p]) : StrEq(c[Hash[p]][i].path, p)}
    IN  IF hits = {} THEN 0 ELSE CHOOSE i \in hits : \A j \in hits : i <= j

\* sftfs_cache_take_file() when every allocation succeeds.
FileTaken(c, p, t, grow) ==
    LET e == Evicted(c, t)
        i == FindEntry(e, p)
    IN  IF i # 0 THEN Taken(e, Hash[p], i) ELSE Alloced(e, p, grow)

\* The position of the entry the caller holds for p.
HeldAt(c, p) == SelectInSeq(c[Hash[p]], LAMBDA e : e.st = "taken" /\ e.path = p)

\* The caller writes d into the data it holds, then sftfs_cache_give_file().
FileGiven(c, p, d, t) ==
    LET e == Evicted(c, t)
        i == HeldAt(e, p)
    IN  Given([e EXCEPT ![Hash[p]][i].data = d], Hash[p], i, t)

\* sftfs_cache_drop_file().
FileDropped(c, p, t) == Evicted(Freed(c, Hash[p], HeldAt(c, p)), t)

\* sftfs_cache_peek_file(): the data, None for NULL.
FilePeeked(c, p, t) ==
    LET e == Evicted(c, t)
        i == FindEntry(e, p)
    IN  IF i = 0 THEN None ELSE e[Hash[p]][i].data

\* sftfs_cache_invalidate_file(): take, evict callback, free.
FileInvalidated(c, p, t) ==
    LET e == Evicted(c, t)
        i == FindEntry(e, p)
    IN  IF i = 0 THEN e ELSE Freed(Taken(e, Hash[p], i), Hash[p], i)

\* sftfs_cache_rehash_entry() of the entry at i of chain h, renamed to q:
\* extracted, then pushed at the head of the chain of q.
Rehashed(c, h, i, q) ==
    LET e == [c[h][i] EXCEPT !.path = q]
        r == [c EXCEPT ![h] = RemoveAt(@, i)]
    IN  [r EXCEPT ![Hash[q]] = <<e>> \o @]

\* sftfs_cache_rename_file(): take, assign the path, re-hash, give.
FileRenamed(c, p, q, t) ==
    LET e == Evicted(c, t)
        i == FindEntry(e, p)
        r == Rehashed(Taken(e, Hash[p], i), Hash[p], i, q)
    IN  IF i = 0 THEN e ELSE Given(r, Hash[q], HeldAt(r, q), t)

\* sftfs_cache_rename_file() when sftfs_str_assign_cstr() finds no memory: the
\* entry has been taken, and nobody gives it back.
FileRenameLost(c, p, t) ==
    LET e == Evicted(c, t)
        i == FindEntry(e, p)
    IN  IF i = 0 THEN e ELSE [Taken(e, Hash[p], i) EXCEPT ![Hash[p]][i].st = "lost"]
=============================================================================
