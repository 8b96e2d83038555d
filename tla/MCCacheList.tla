----------------------------- MODULE MCCacheList ----------------------------
(* Instance of CacheListHist for TLC. *)
EXTENDS CacheListHist

CONSTANTS n1, n2, n3, n4

MCNode == {n1, n2, n3, n4}
=============================================================================
