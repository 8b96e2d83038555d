---------------------------- MODULE PrimeSearch -----------------------------
(***************************************************************************)
(* The binary search of prime_lower_bound() (src/abs/htable.c:26-39), one  *)
(* action per turn of its loop.  Indices are those of the C array.         *)
(***************************************************************************)
EXTENDS Primes

VARIABLES
    left, right,    \* the interval still looked at
    target,         \* the size asked for
    span            \* history: what halving the list once per turn leaves

searchVars == <<left, right, target, span>>

Size == Len(PrimeList)

Prime(i) == PrimeList[i + 1]

-----------------------------------------------------------------------------
(* Plausible mistakes. *)

\* An equal element is skipped.
Mut_Below(val, t) == val <= t

\* Rounding the middle up: the interval stops shrinking.
Mut_Mid(l, r) == (r - l + 1) \div 2 + l

\* The interval starts one element behind the list.
Mut_SearchInit == left = 0 /\ right = Size /\ target \in Target /\ span = Size - 1

-----------------------------------------------------------------------------

Mid(l, r) == (r - l) \div 2 + l

Below(val, t) == val < t

SearchInit == left = 0 /\ right = Size - 1 /\ target \in Target /\ span = Size - 1

GoRight ==
    /\ left < right
    /\ Below(Prime(Mid(left, right)), target)
    /\ left' = Mid(left, right) + 1
    /\ span' = span \div 2
    /\ UNCHANGED <<right, target>>

GoLeft ==
    /\ left < right
    /\ ~ Below(Prime(Mid(left, right)), target)
    /\ right' = Mid(left, right)
    /\ span' = span \div 2
    /\ UNCHANGED <<left, target>>

Turn == GoRight \/ GoLeft

SearchSpec == SearchInit /\ [][Turn]_searchVars

-----------------------------------------------------------------------------
(* Properties *)

\* Type invariant; the list is never indexed out of bounds.
SearchTypeOK ==
    /\ left \in 0 .. Size - 1 /\ right \in 0 .. Size - 1
    /\ target \in Target
    /\ span \in Nat

\* The answer stays inside the interval: what lies left of it is too small and
\* its right end is large enough, unless the list has no such element.
Narrowing ==
    /\ left <= right
    /\ \A i \in 0 .. left - 1 : Prime(i) < target
    /\ right < Size - 1 => Prime(right) >= target

\* When the loop ends, list[left] is the smallest element not below target, or
\* the last element when all are below.
FindsLowerBound ==
    left = right =>
        \/ /\ Prime(left) >= target
           /\ \A i \in 0 .. Size - 1 : Prime(i) >= target => Prime(left) <= Prime(i)
        \/ /\ left = Size - 1
           /\ \A i \in 0 .. Size - 1 : Prime(i) < target

\* Every turn of the loop at least halves the interval, though the middle is
\* rounded down and one of its ends may stay where it was: the loop ends after
\* no more turns than halving the list takes.
EndsInTime == right - left <= span
=============================================================================
