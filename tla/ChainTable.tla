----------------------------- MODULE ChainTable -----------------------------
(***************************************************************************)
(* What the hash table promises to the caches, with the buckets left out:  *)
(* for every hash a chain of entries, newest first.  Only the order of the *)
(* entries that share a hash is visible (through lookup and lookup_next);  *)
(* an allocation may turn every chain around, since growing the table      *)
(* migrates each bucket from its head.                                     *)
(***************************************************************************)
EXTENDS Integers, Sequences, SequencesExt

CONSTANTS
    Entry,      \* addresses of entries
    HashVal     \* hash values

VARIABLE chains \* [HashVal -> Seq(Entry)]

Allocated == UNION {ToSet(chains[h]) : h \in HashVal}

Push(c, h, e) == [c EXCEPT ![h] = <<e>> \o @]

Drop(c, e) == [h \in HashVal |-> RemoveFirst(c[h], e)]

TurnedAround(c) == [h \in HashVal |-> Reverse(c[h])]

Init == chains = [h \in HashVal |-> <<>>]

New(e, h) ==
    /\ e \notin Allocated
    /\ \E c \in {chains, TurnedAround(chains)} : chains' = Push(c, h, e)

Delete(e) == e \in Allocated /\ chains' = Drop(chains, e)

Rehash(e, h) == e \in Allocated /\ chains' = Push(Drop(chains, e), h, e)

\* remove_hash() empties the chain of h; entries with other hashes that share
\* its bucket and are older may go as well.
RemoveHash(h) ==
    /\ chains[h] # <<>> /\ chains'[h] = <<>>
    /\ DOMAIN chains' = HashVal
    /\ \A g \in HashVal : IsPrefix(chains'[g], chains[g])

Clear == chains' = [h \in HashVal |-> <<>>]

Next ==
    \/ \E e \in Entry : Delete(e) \/ \E h \in HashVal : New(e, h) \/ Rehash(e, h)
    \/ \E h \in HashVal : RemoveHash(h)
    \/ Clear

Spec == Init /\ [][Next]_chains
=============================================================================
