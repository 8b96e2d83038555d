--------------------------- MODULE CacheListHist ----------------------------
(***************************************************************************)
(* CacheList with a history variable: the sequence of listed nodes, kept   *)
(* as an abstract queue would keep it.  The code's guards and pointers     *)
(* never read it; it only names the chain the pointers must spell out and  *)
(* serves as the refinement mapping to LruQueue.                           *)
(***************************************************************************)
EXTENDS CacheList, SequencesExt

VARIABLE order

hvars == <<list, now, order>>

HInit == Init /\ order = <<>>

HInsertNode(n) == InsertNode(n) /\ order' = Append(order, n)

HRemoveNode(n) ==
    /\ RemoveNode(n)
    /\ \E k \in 1 .. Len(order) :
        order[k] = n /\ order' = RemoveAt(order, k)

HRefreshNode(n) ==
    /\ RefreshNode(n)
    /\ \E k \in 1 .. Len(order) :
        order[k] = n /\ order' = Append(RemoveAt(order, k), n)

HEvictInvalidLru == EvictInvalidLru /\ order' = RemoveAt(order, 1)

HTick == Tick /\ UNCHANGED order

HNext ==
    \/ \E n \in Node : HInsertNode(n) \/ HRemoveNode(n) \/ HRefreshNode(n)
    \/ HEvictInvalidLru
    \/ HTick

HSpec == HInit /\ [][HNext]_hvars

\* The pointers of list.c spell out, in both directions and without a stray
\* link, the sequence of nodes in the order they were given.
ListIsChain ==
    /\ order \in Seq(Node)
    /\ Chain(list, order)
    /\ Sorted(list, order, now)

\* The history variable never blocks the code: whatever node the code can
\* remove, refresh or evict is in the sequence where the abstract queue would
\* look for it.
HistoryNeverBlocks ==
    /\ \A n \in Node : ~ NodeUnlinked(list, n) =>
            \E k \in 1 .. Len(order) : order[k] = n
    /\ ~ ListEmpty(list) => Len(order) > 0 /\ order[1] = list.lru

Abstract == INSTANCE LruQueue WITH mod_time <- list.mod_time

\* The linked list of list.c implements the queue of LruQueue.
ImplementsLruQueue == Abstract!Spec
=============================================================================
