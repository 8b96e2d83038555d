------------------------------- MODULE HTable -------------------------------
(***************************************************************************)
(* The chained hash table of src/abs/htable.c.  "table" is struct          *)
(* sftfs_htable_s: a bucket is the sequence of entries reachable from its  *)
(* head pointer, so a link (a pointer to the field that points to an       *)
(* entry) is a position in a bucket.  "hash" is the hash field of each     *)
(* entry.  Payloads are left out: no operation reads them.                 *)
(*                                                                         *)
(* The table has two users, the caches (new_entry, find_and_remove,        *)
(* rehash_entry, clear) and the map from open handles to paths (insert     *)
(* and remove_hash); the specification allows the operations of both.      *)
(*                                                                         *)
(* Allocation of an entry may fail; allocation of a larger table is taken  *)
(* to succeed (extend_and_rehash() does not survive its failure).          *)
(***************************************************************************)
EXTENDS Primes, FiniteSets, SequencesExt

CONSTANTS
    Entry,      \* addresses of entries
    HashVal,    \* the hashes callers use
    None        \* null link; also the hash of an entry not allocated

ASSUME HashAssumption == HashVal \subseteq Nat /\ None \notin HashVal \cup Entry

\* The list outlasts the entries: its last prime is the largest below 2^64.
ASSUME EntryAssumption ==
    /\ IsFiniteSet(Entry)
    /\ Cardinality(Entry) <= (3 * PrimeList[Len(PrimeList)]) \div 4 + 1

VARIABLES table, hash

vars == <<table, hash>>

-----------------------------------------------------------------------------
(* Plausible mistakes, used to show that the properties notice them. *)

\* A size taken as it comes.
Mut_PrimeLowerBound(target) == IF target < 2 THEN 2 ELSE target

\* The walk skips a link.
Mut_LookupNext(t, hs, b, k) ==
    SelectInSubSeq(t.buckets[b], k + 2, Len(t.buckets[b]),
                   LAMBDA e : hs[e] = hs[t.buckets[b][k]])

\* Migration that pops the head of each bucket once.
Mut_Migrated(t, hs, nb) ==
    LET heads == SelectSeq([i \in 1 .. t.nr_buckets |->
                              IF t.buckets[i - 1] = <<>> THEN None
                              ELSE Head(t.buckets[i - 1])],
                           LAMBDA e : e # None)
    IN  [nr_buckets |-> nb, nr_entries |-> t.nr_entries,
         buckets |-> [b \in 0 .. nb - 1 |->
            Reverse(SelectSeq(heads, LAMBDA e : hs[e] % nb = b))]]

\* Extraction that forgets the counter.
Mut_Extracted(t, b, k) ==
    [t EXCEPT !.buckets[b] = RemoveAt(@, k)]

\* remove_hash() that starts one link too far.
Mut_HashRemoved(t, b, k) ==
    [t EXCEPT !.buckets[b] = SubSeq(@, 1, k),
              !.nr_entries = @ - (Len(t.buckets[b]) - k)]

\* The next bucket looked for is the entry's own.
Mut_NextIndex(h, nb) == h % nb

-----------------------------------------------------------------------------
(* Operations *)

\* prime_lower_bound(): the first listed prime that is not below target, the
\* last one when there is none (PrimeSearch).
PrimeLowerBound(target) ==
    LET k == SelectInSeq(PrimeList, LAMBDA p : p >= target)
    IN  PrimeList[IF k = 0 THEN Len(PrimeList) ELSE k]

\* create_htable(): calloc() leaves every bucket empty.
CreateHtable(nb) ==
    [nr_buckets |-> nb, nr_entries |-> 0, buckets |-> [b \in 0 .. nb - 1 |-> <<>>]]

\* sftfs_htable_create().
HtableCreate(nr) == CreateHtable(PrimeLowerBound(nr))

\* The index of the bucket for a hash.
BucketOf(h, nb) == h % nb

\* insert_entry(): push at the head of the bucket.
EntryInserted(t, e, h) ==
    [t EXCEPT !.buckets[BucketOf(h, t.nr_buckets)] = <<e>> \o @,
              !.nr_entries = @ + 1]

\* extract_entry() of the entry behind link k of bucket b.
Extracted(t, b, k) ==
    [t EXCEPT !.buckets[b] = RemoveAt(@, k), !.nr_entries = @ - 1]

\* The inner loop of migrate(): the entries of a bucket s, from its head, are
\* pushed into the table "to".
Moved(to, s, hs) ==
    LET into[k \in 0 .. Len(s)] ==
            IF k = 0 THEN to ELSE EntryInserted(into[k - 1], s[k], hs[s[k]])
    IN  into[Len(s)]

\* migrate() into a new table of nb buckets: the old buckets in index order.
Migrated(t, hs, nb) ==
    LET upto[i \in 0 .. t.nr_buckets] ==
            IF i = 0 THEN CreateHtable(nb)
            ELSE Moved(upto[i - 1], t.buckets[i - 1], hs)
    IN  upto[t.nr_buckets]

\* extend_and_rehash().
ExtendAndRehash(t, hs) == Migrated(t, hs, PrimeLowerBound(t.nr_buckets * 2))

\* The test of sftfs_htable_new_entry() for growing first.
Full(t) == (t.nr_buckets \div 2 + t.nr_buckets) \div 2 < t.nr_entries

\* sftfs_htable_lookup(): the position of the first entry with hash h in its
\* bucket, 0 for the null link at the bucket's end.
Lookup(t, hs, h) ==
    SelectInSeq(t.buckets[BucketOf(h, t.nr_buckets)], LAMBDA e : hs[e] = h)

\* sftfs_htable_lookup_next(): the next position with the same hash.
LookupNext(t, hs, b, k) ==
    SelectInSubSeq(t.buckets[b], k + 1, Len(t.buckets[b]),
                   LAMBDA e : hs[e] = hs[t.buckets[b][k]])

\* The positions a lookup() / lookup_next() loop visits, in order.
Visited(t, hs, h) ==
    LET b == BucketOf(h, t.nr_buckets)
        walk[k \in 0 .. Len(t.buckets[b])] ==
            IF k = 0 THEN <<>> ELSE <<k>> \o walk[LookupNext(t, hs, b, k)]
    IN  walk[Lookup(t, hs, h)]

\* sftfs_htable_find_entry_link(): the first visited position that holds e.
FindEntryLink(t, hs, e) ==
    LET b == BucketOf(hs[e], t.nr_buckets)
        pos == SelectInSeq(Visited(t, hs, hs[e]), LAMBDA k : t.buckets[b][k] = e)
    IN  IF pos = 0 THEN 0 ELSE Visited(t, hs, hs[e])[pos]

\* The loop of sftfs_htable_remove_hash() from position k of bucket b: it
\* removes what the link points to until the link is null.
HashRemoved(t, b, k) ==
    [t EXCEPT !.buckets[b] = SubSeq(@, 1, k - 1),
              !.nr_entries = @ - (Len(t.buckets[b]) - k + 1)]

\* sftfs_htable_next_entry() looks for the next bucket from this index on.
NextIndex(h, nb) == (h % nb) + 1

\* The first entry of the first non-empty bucket at or behind index i.
FirstFrom(t, i) ==
    LET idx == {b \in i .. t.nr_buckets - 1 : t.buckets[b] # <<>>}
    IN  IF idx = {} THEN None
        ELSE Head(t.buckets[CHOOSE b \in idx : \A c \in idx : b <= c])

FirstEntry(t) == FirstFrom(t, 0)

NextEntry(t, hs, e) ==
    LET s == t.buckets[BucketOf(hs[e], t.nr_buckets)]
        k == SelectInSeq(s, LAMBDA x : x = e)
    IN  IF k < Len(s) THEN s[k + 1]
        ELSE FirstFrom(t, NextIndex(hs[e], t.nr_buckets))

-----------------------------------------------------------------------------
(* Actions *)

Allocated == {e \in Entry : hash[e] # None}

Init ==
    /\ \E nr \in Target : table = HtableCreate(nr)
    /\ hash = [e \in Entry |-> None]

\* sftfs_htable_new_entry(), also the first half of sftfs_htable_insert().
\* (When malloc() fails nothing changes.)
NewEntry(e, h) ==
    /\ e \notin Allocated
    /\ hash' = [hash EXCEPT ![e] = h]
    /\ table' = EntryInserted(IF Full(table) THEN ExtendAndRehash(table, hash)
                                             ELSE table, e, h)

\* sftfs_htable_find_and_remove().
FindAndRemove(e) ==
    LET k == FindEntryLink(table, hash, e)
    IN  /\ e \in Allocated
        /\ k # 0
        /\ table' = Extracted(table, BucketOf(hash[e], table.nr_buckets), k)
        /\ hash' = [hash EXCEPT ![e] = None]

\* sftfs_htable_rehash_entry() behind find_entry_link(), as the caches use it.
RehashEntry(e, h) ==
    LET k == FindEntryLink(table, hash, e)
    IN  /\ e \in Allocated
        /\ k # 0
        /\ table' = EntryInserted(
             Extracted(table, BucketOf(hash[e], table.nr_buckets), k), e, h)
        /\ hash' = [hash EXCEPT ![e] = h]

\* sftfs_htable_clear().
Clear ==
    /\ Allocated # {}
    /\ table' = CreateHtable(table.nr_buckets)
    /\ hash' = [e \in Entry |-> None]

\* sftfs_htable_remove_hash().
RemoveHash(h) ==
    LET b == BucketOf(h, table.nr_buckets)
        k == Lookup(table, hash, h)
        after == HashRemoved(table, b, k)
    IN  /\ k # 0
        /\ table' = after
        /\ hash' = [e \in Entry |->
             IF e \in ToSet(table.buckets[b]) \ ToSet(after.buckets[b])
             THEN None ELSE hash[e]]

Next ==
    \/ \E e \in Entry, h \in HashVal : NewEntry(e, h) \/ RehashEntry(e, h)
    \/ \E e \in Entry : FindAndRemove(e)
    \/ \E h \in HashVal : RemoveHash(h)
    \/ Clear

Spec == Init /\ [][Next]_vars

-----------------------------------------------------------------------------
(* Properties *)

Indices == 0 .. table.nr_buckets - 1

WithHash(h) == {e \in Allocated : hash[e] = h}

\* Type invariant.
TypeOK ==
    /\ table.nr_buckets \in ToSet(PrimeList)
    /\ table.nr_entries \in Nat
    /\ DOMAIN table.buckets = Indices
    /\ \A b \in Indices : table.buckets[b] \in Seq(Entry)
    /\ hash \in [Entry -> HashVal \cup {None}]

\* After any sequence of insertions, removals, re-hashings and growths, every
\* allocated entry sits exactly once in the table, in the bucket its current
\* hash selects, and nothing else does (no dangling entry).
EachInItsBucket ==
    /\ \A b \in Indices :
        /\ \A e \in ToSet(table.buckets[b]) :
            e \in Allocated /\ BucketOf(hash[e], table.nr_buckets) = b
        /\ Cardinality(ToSet(table.buckets[b])) = Len(table.buckets[b])
    /\ Allocated = UNION {ToSet(table.buckets[b]) : b \in Indices}

\* nr_entries is the number of entries, so that assert(nr_entries > 0) of
\* extract_entry() (htable.c:90) holds, and growth, decided by that count before
\* the insertion, keeps the load at 3/4 of the buckets plus one entry.
CountsEntries ==
    /\ table.nr_entries = Cardinality(Allocated)
    /\ table.nr_entries <= (3 * table.nr_buckets) \div 4 + 1

\* The lookup() / lookup_next() walk the caches make visits every entry with
\* the hash, each once and no other, so find_entry_link() finds every entry.
WalkVisitsExactly ==
    /\ \A h \in HashVal :
        LET b == BucketOf(h, table.nr_buckets)
            ks == Visited(table, hash, h)
        IN  /\ {table.buckets[b][ks[i]] : i \in DOMAIN ks} = WithHash(h)
            /\ Len(ks) = Cardinality(WithHash(h))
    /\ \A e \in Allocated : FindEntryLink(table, hash, e) # 0

\* first_entry() followed by next_entry() until NULL, the loop of
\* call_on_evict_of_all_entries() (cache.c:214), visits every entry once.
IterationVisitsAll ==
    LET seen[n \in 0 .. Cardinality(Entry)] ==
            IF n = 0 THEN <<FirstEntry(table)>>
            ELSE IF Last(seen[n - 1]) = None THEN seen[n - 1]
            ELSE Append(seen[n - 1], NextEntry(table, hash, Last(seen[n - 1])))
        all == seen[Cardinality(Entry)]
    IN  /\ Last(all) = None
        /\ ToSet(Front(all)) = Allocated
        /\ Len(all) = Cardinality(Allocated) + 1

\* What a lookup() / lookup_next() walk for h sees.
ChainOf(t, hs, h) ==
    LET b == BucketOf(h, t.nr_buckets)
        ks == Visited(t, hs, h)
    IN  [i \in DOMAIN ks |-> t.buckets[b][ks[i]]]

ChainsOf == [h \in HashVal |-> ChainOf(table, hash, h)]

Abstract == INSTANCE ChainTable WITH chains <- ChainsOf

\* The table is a set of chains, one per hash, newest entry first, turned
\* around at most by an allocation; after remove_hash(h) no lookup of h succeeds
\* and of every other chain a front part is left.
ImplementsChainTable == Abstract!Spec

\* remove_hash(h) removes the entries with hash h and leaves the others alone,
\* which is what the handle map relies on: the path of another open handle
\* must survive (test/ut/htable.c:118).
RemoveHashExact ==
    [][\A h \in HashVal : RemoveHash(h) =>
        table'.nr_entries = table.nr_entries - Cardinality(WithHash(h))]_vars
=============================================================================
