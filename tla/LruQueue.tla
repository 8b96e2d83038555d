------------------------------ MODULE LruQueue ------------------------------
(***************************************************************************)
(* What the LRU list of a cache promises, with the pointers left out: a    *)
(* queue of distinct nodes, least recently given first, each stamped with  *)
(* the time it was given.  A node leaves either because its user takes it  *)
(* or because it is the oldest one and its time to live is over.           *)
(***************************************************************************)
EXTENDS Integers, Sequences, SequencesExt

CONSTANTS
    Node,       \* the nodes a caller may list
    TTL,        \* time to live, in clock units
    MaxTime     \* bound on the clock

VARIABLES
    order,      \* the listed nodes, least recently used first
    mod_time,   \* when a listed node was last given; 0 for an unlisted one
    now         \* the clock

vars == <<order, mod_time, now>>

Listed == {order[i] : i \in 1 .. Len(order)}

Init ==
    /\ order = <<>>
    /\ mod_time = [n \in Node |-> 0]
    /\ now \in 0 .. MaxTime

InsertNode(n) ==
    /\ n \notin Listed
    /\ order' = Append(order, n)
    /\ mod_time' = [mod_time EXCEPT ![n] = now]
    /\ UNCHANGED now

RemoveNode(n) ==
    \E k \in 1 .. Len(order) :
        /\ order[k] = n
        /\ order' = RemoveAt(order, k)
        /\ mod_time' = [mod_time EXCEPT ![n] = 0]
        /\ UNCHANGED now

RefreshNode(n) ==
    \E k \in 1 .. Len(order) :
        /\ order[k] = n
        /\ order' = Append(RemoveAt(order, k), n)
        /\ mod_time' = [mod_time EXCEPT ![n] = now]
        /\ UNCHANGED now

\* The oldest node leaves, and only when it outlived its time to live.
Evict ==
    /\ order # <<>>
    /\ mod_time[order[1]] + TTL < now
    /\ order' = RemoveAt(order, 1)
    /\ mod_time' = [mod_time EXCEPT ![order[1]] = 0]
    /\ UNCHANGED now

Tick ==
    /\ now < MaxTime
    /\ now' = now + 1
    /\ UNCHANGED <<order, mod_time>>

Next ==
    \/ \E n \in Node : InsertNode(n) \/ RemoveNode(n) \/ RefreshNode(n)
    \/ Evict
    \/ Tick

Spec == Init /\ [][Next]_vars
=============================================================================
