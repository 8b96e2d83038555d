----------------------------- MODULE CacheList ------------------------------
(***************************************************************************)
(* The LRU list every cache keeps its given entries in (src/cache/list.c): *)
(* an intrusive doubly linked list whose nodes carry the time they were    *)
(* inserted.  "list" is struct sftfs_cache_list together with the link     *)
(* fields of the nodes, which the code stores in the nodes themselves.     *)
(*                                                                         *)
(* The operations are operators from list values to list values, so that   *)
(* they compose as the C functions do and can be reasoned about on their   *)
(* own; the actions apply them under the contract of the callers           *)
(* (cache.c:101, :131 test unlinkedness; cache.c:121 removes an entry that *)
(* a lookup has just found listed).                                        *)
(***************************************************************************)
EXTENDS Integers, Sequences

CONSTANTS
    Node,       \* addresses of list nodes
    NULL,       \* the null pointer
    TTL,        \* config.ttl
    MaxTime     \* bound on the clock

ASSUME NullAssumption == NULL \notin Node
ASSUME TimeAssumption == TTL \in Nat /\ MaxTime \in Nat

VARIABLES
    list,       \* [lru, mru, nr_nodes] and, per node, prev, next, mod_time
    now         \* what get_cache_time() returns

vars == <<list, now>>

Pointer == Node \cup {NULL}

ListType ==
    [lru : Pointer, mru : Pointer,
     prev : [Node -> Pointer], next : [Node -> Pointer],
     mod_time : [Node -> Nat], nr_nodes : Nat]

-----------------------------------------------------------------------------
(* Plausible mistakes, used to show that the properties notice them. *)

\* A lone node has no neighbours: without lru it looks unlinked.
Mut_UnlinkedByLinks(l, n) == l.prev[n] = NULL /\ l.next[n] = NULL

\* The counter forgotten on insert.
Mut_NotCounted(nr) == nr

\* The new head still points back at the evicted node.
Mut_DanglingPrev(l) == [l.prev EXCEPT ![l.lru] = NULL]

\* Off by one: an entry exactly TTL old counts as expired.
Mut_InvalidEarly(l, t) == l.mod_time[l.lru] + TTL <= t

\* The time to live counted twice.
Mut_InvalidLate(l, t) == l.mod_time[l.lru] + 2 * TTL < t

-----------------------------------------------------------------------------
(* Operations *)

\* sftfs_cache_list_construct(), over nodes that were reset.
EmptyList ==
    [lru |-> NULL, mru |-> NULL,
     prev |-> [n \in Node |-> NULL], next |-> [n \in Node |-> NULL],
     mod_time |-> [n \in Node |-> 0], nr_nodes |-> 0]

ListEmpty(l) == l.lru = NULL

\* sftfs_cache_list_node_unlinked(): a lone node has no neighbours either,
\* which is why lru is consulted.
NodeUnlinked(l, n) == l.prev[n] = NULL /\ l.next[n] = NULL /\ n # l.lru

\* increment_nr_nodes(), decrement_nr_nodes(): the debug counter.
Incremented(nr) == nr + 1

Decremented(nr) == nr - 1

\* sftfs_cache_list_insert() at clock reading t: append behind mru.
Inserted(l, n, t) ==
    [lru |-> IF l.mru = NULL THEN n ELSE l.lru,
     mru |-> n,
     prev |-> [l.prev EXCEPT ![n] = l.mru],
     next |-> [m \in Node |-> IF m = n THEN NULL
                              ELSE IF m = l.mru THEN n
                              ELSE l.next[m]],
     mod_time |-> [l.mod_time EXCEPT ![n] = t],
     nr_nodes |-> Incremented(l.nr_nodes)]

\* The tail after n is removed.
MruWithout(l, n) == IF l.mru = n THEN l.prev[n] ELSE l.mru

\* sftfs_cache_list_remove(): n's neighbours are linked to each other, then
\* the ends are moved off n and n is reset.
Removed(l, n) ==
    [lru |-> IF l.lru = n THEN l.next[n] ELSE l.lru,
     mru |-> MruWithout(l, n),
     prev |-> [m \in Node |-> IF m = n THEN NULL
                              ELSE IF m = l.next[n] THEN l.prev[n]
                              ELSE l.prev[m]],
     next |-> [m \in Node |-> IF m = n THEN NULL
                              ELSE IF m = l.prev[n] THEN l.next[n]
                              ELSE l.next[m]],
     mod_time |-> [l.mod_time EXCEPT ![n] = 0],
     nr_nodes |-> Decremented(l.nr_nodes)]

\* The prev pointers after evict_lru(): the new head has no predecessor.
PrevWithoutLru(l) ==
    [m \in Node |-> IF m = l.lru \/ m = l.next[l.lru] THEN NULL ELSE l.prev[m]]

\* evict_lru(), which assumes a non-empty list.
LruEvicted(l) ==
    LET head == l.next[l.lru]
    IN  [lru |-> head,
         mru |-> IF head = NULL THEN NULL ELSE l.mru,
         prev |-> PrevWithoutLru(l),
         next |-> [l.next EXCEPT ![l.lru] = NULL],
         mod_time |-> [l.mod_time EXCEPT ![l.lru] = 0],
         nr_nodes |-> Decremented(l.nr_nodes)]

\* lru_invalid() at clock reading t.
LruInvalid(l, t) == l.mod_time[l.lru] + TTL < t

-----------------------------------------------------------------------------
(* Actions *)

Init == list = EmptyList /\ now \in 0 .. MaxTime

InsertNode(n) ==
    /\ NodeUnlinked(list, n)
    /\ list' = Inserted(list, n, now)
    /\ UNCHANGED now

RemoveNode(n) ==
    /\ ~ NodeUnlinked(list, n)
    /\ list' = Removed(list, n)
    /\ UNCHANGED now

\* sftfs_cache_list_refresh(): remove, then insert at the other end.
RefreshNode(n) ==
    /\ ~ NodeUnlinked(list, n)
    /\ list' = Inserted(Removed(list, n), n, now)
    /\ UNCHANGED now

\* sftfs_cache_list_evict_invalid_lru() when it evicts; when it returns NULL
\* it changes nothing.
EvictInvalidLru ==
    /\ ~ ListEmpty(list)
    /\ LruInvalid(list, now)
    /\ list' = LruEvicted(list)
    /\ UNCHANGED now

\* The monotonic clock advances.
Tick ==
    /\ now < MaxTime
    /\ now' = now + 1
    /\ UNCHANGED list

Next ==
    \/ \E n \in Node : InsertNode(n) \/ RemoveNode(n) \/ RefreshNode(n)
    \/ EvictInvalidLru
    \/ Tick

Spec == Init /\ [][Next]_vars

-----------------------------------------------------------------------------
(* Properties *)

\* The list l is exactly the chain s: its ends, the links in both directions,
\* the debug counter, and no link left in a node outside the chain.
Chain(l, s) ==
    /\ \A i, j \in 1 .. Len(s) : s[i] = s[j] => i = j
    /\ l.lru = IF Len(s) = 0 THEN NULL ELSE s[1]
    /\ l.mru = IF Len(s) = 0 THEN NULL ELSE s[Len(s)]
    /\ \A i \in 1 .. Len(s) :
        /\ l.next[s[i]] = IF i = Len(s) THEN NULL ELSE s[i + 1]
        /\ l.prev[s[i]] = IF i = 1 THEN NULL ELSE s[i - 1]
    /\ \A n \in Node :
        (\A i \in 1 .. Len(s) : s[i] # n) =>
            l.next[n] = NULL /\ l.prev[n] = NULL /\ l.mod_time[n] = 0
    /\ l.nr_nodes = Len(s)

\* The chain s is in the order its nodes were given.
Sorted(l, s, t) ==
    /\ \A i, j \in 1 .. Len(s) : i < j => l.mod_time[s[i]] <= l.mod_time[s[j]]
    /\ \A i \in 1 .. Len(s) : l.mod_time[s[i]] <= t

\* Type invariant of the list and of the clock.
TypeOK == list \in ListType /\ now \in 0 .. MaxTime

\* Eviction looks at the head only (list.c:109-122).  That suffices: when the
\* list is empty or its head is fresh, every linked node is fresh, so the
\* loop of cache.c:62, which stops at the first NULL, leaves no expired entry.
HeadFreshMeansAllFresh ==
    (ListEmpty(list) \/ ~ LruInvalid(list, now)) =>
        \A n \in Node :
            NodeUnlinked(list, n) \/ list.mod_time[n] + TTL >= now

\* assert(list->nr_nodes > 0) of decrement_nr_nodes() (list.c:20) holds
\* whenever a node can be removed or evicted.
DecrementAssertHolds ==
    (~ ListEmpty(list) \/ \E n \in Node : ~ NodeUnlinked(list, n)) =>
        list.nr_nodes > 0

\* A node leaves the list by eviction only after its whole time to live: a
\* step that shortens the list without the node's user having asked for it
\* concerns a node older than TTL.
NoEarlyEviction ==
    [][EvictInvalidLru =>
        \A n \in Node :
            (~ NodeUnlinked(list, n) /\ NodeUnlinked(list', n)) =>
                list.mod_time[n] + TTL < now]_vars
=============================================================================
