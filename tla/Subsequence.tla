---------------------------- MODULE Subsequence -----------------------------
(***************************************************************************)
(* The entries of a sequence that a loop leaves in place, in their order.  *)
(***************************************************************************)
EXTENDS Integers, FiniteSets, Sequences

\* s without the positions that are not in I.
Kept(s, I) ==
    LET upto[n \in 0 .. Len(s)] ==
            IF n = 0 THEN <<>>
            ELSE IF n \in I THEN Append(upto[n - 1], s[n]) ELSE upto[n - 1]
    IN  IF I = DOMAIN s THEN s ELSE upto[Len(s)]
=============================================================================
