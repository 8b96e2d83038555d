------------------------------ MODULE MCHTable ------------------------------
(* Instance of TableCreation for TLC: six entries grow the table from 2 to 5  *)
(* to 11 buckets, from 3 to 7; the hashes collide in pairs modulo 2 and,      *)
(* differently, modulo 5.                                                    *)
EXTENDS TableCreation, TLC

CONSTANTS e1, e2, e3, e4, e5, e6

MCEntry == {e1, e2, e3, e4, e5, e6}

MCHashVal == {0, 2, 5, 7}

\* The list of htable_primes.h as far as six entries can see; the last prime
\* comes twice as in the real list.
MCPrimeList == <<2, 3, 5, 7, 11, 11>>

\* Sizes on, between and behind the primes.
MCTarget == 0 .. 13

Entries == Permutations(MCEntry)
=============================================================================
