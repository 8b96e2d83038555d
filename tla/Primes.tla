------------------------------- MODULE Primes -------------------------------
(* The list of src/abs/htable_primes.h, which the search reads and from which *)
(* every table takes its size.                                               *)
EXTENDS Integers, Sequences

CONSTANTS
    PrimeList,  \* sftfs_htable_prime_list; the real one ends with its last prime twice
    Target      \* the sizes tables are created for: the caches ask for 0, the tests for others

ASSUME PrimeAssumption == PrimeList \in Seq(Nat \ {0}) /\ PrimeList # <<>>

ASSUME OrderAssumption ==
    \A i, j \in 1 .. Len(PrimeList) : i <= j => PrimeList[i] <= PrimeList[j]

ASSUME TargetAssumption == Target \subseteq Nat
=============================================================================
