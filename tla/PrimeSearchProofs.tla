------------------------- MODULE PrimeSearchProofs --------------------------
(***************************************************************************)
(* The binary search of prime_lower_bound() is correct for every           *)
(* non-decreasing list and every target.                                   *)
(***************************************************************************)
EXTENDS PrimeSearch, SequenceTheorems, TLAPS

\* The list is an array of Size numbers in non-decreasing order.
LEMMA Array ==
    /\ Size \in Nat \ {0}
    /\ \A i \in 0 .. Size - 1 : Prime(i) \in Nat
    /\ \A i, j \in 0 .. Size - 1 : i <= j => Prime(i) <= Prime(j)
<1>1. PrimeList \in Seq(Nat \ {0}) /\ PrimeList # <<>>
  BY PrimeAssumption
<1>2. Size \in Nat \ {0}
  BY <1>1, EmptySeq, LenProperties DEF Size
<1>3. ASSUME NEW i \in 0 .. Size - 1 PROVE i + 1 \in 1 .. Len(PrimeList)
  BY <1>2, <1>3 DEF Size
<1>4. ASSUME NEW i \in 0 .. Size - 1 PROVE Prime(i) \in Nat
  BY <1>1, <1>3, ElementOfSeq DEF Prime
<1>5. ASSUME NEW i \in 0 .. Size - 1, NEW j \in 0 .. Size - 1, i <= j
      PROVE  Prime(i) <= Prime(j)
  <2>1. i + 1 \in 1 .. Len(PrimeList) /\ j + 1 \in 1 .. Len(PrimeList) /\ i + 1 <= j + 1
    BY <1>3, <1>5
  <2> QED BY <2>1, OrderAssumption DEF Prime
<1> QED BY <1>2, <1>4, <1>5

\* The inductive invariant: the interval holds the answer, and is no longer
\* than halving allows.
Interval == SearchTypeOK /\ Narrowing /\ EndsInTime

\* A turn leaves the interval in the list and halves it.
LEMMA TurnHalves ==
    ASSUME Interval, Turn
    PROVE  /\ SearchTypeOK' /\ left' <= right' /\ EndsInTime'
           /\ target \in Nat /\ left \in Nat /\ right \in 0 .. Size - 1
           /\ Mid(left, right) \in 0 .. Size - 1
<1> DEFINE m == Mid(left, right)
<1>0. /\ Size \in Nat /\ left \in 0 .. Size - 1 /\ right \in 0 .. Size - 1
      /\ target \in Target /\ target \in Nat /\ span \in Nat /\ right - left <= span
  BY Array, TargetAssumption DEF Interval, SearchTypeOK, EndsInTime
<1>1. left < right /\ target' = target /\ span' = span \div 2
  BY DEF Turn, GoRight, GoLeft
<1>2. /\ m \in 0 .. Size - 1 /\ left <= m /\ m < right
      /\ m - left <= (right - left) \div 2 /\ right - (m + 1) <= (right - left) \div 2
  BY <1>0, <1>1 DEF Mid
<1>3. (right - left) \div 2 <= span \div 2 /\ span \div 2 \in Nat
  BY <1>0
<1>4. \/ left' = m + 1 /\ right' = right
      \/ left' = left /\ right' = m
  BY DEF Turn, GoRight, GoLeft
<1> HIDE DEF m
<1>5. SearchTypeOK' /\ left' <= right'
  BY <1>0, <1>1, <1>2, <1>3, <1>4 DEF SearchTypeOK
<1>6. right' - left' <= (right - left) \div 2
  BY <1>0, <1>2, <1>4
<1>7. right' - left' <= span'
  <2>1. (right - left) \div 2 \in Int /\ right' \in Int /\ left' \in Int /\ span' \in Int
    BY <1>0, <1>1, <1>2, <1>3, <1>4
  <2>2. ASSUME NEW a \in Int, NEW b \in Int, NEW c \in Int, a <= b, b <= c PROVE a <= c
    BY <2>2
  <2> QED BY <1>1, <1>3, <1>6, <2>1, <2>2
<1>8. EndsInTime'
  BY <1>7 DEF EndsInTime
<1> QED BY <1>0, <1>2, <1>5, <1>8 DEF m

\* The interval always holds the answer.
LEMMA SearchInvariant == SearchSpec => []Interval
<1>1. SearchInit => Interval
  <2> SUFFICES ASSUME SearchInit PROVE Interval
    OBVIOUS
  <2>1. Size \in Nat \ {0} /\ left = 0 /\ right = Size - 1 /\ span = Size - 1
        /\ target \in Target
    BY Array DEF SearchInit
  <2> QED BY <2>1 DEF Interval, SearchTypeOK, Narrowing, EndsInTime
<1>2. Interval /\ [Turn]_searchVars => Interval'
  <2> SUFFICES ASSUME Interval, [Turn]_searchVars PROVE Interval'
    OBVIOUS
  <2> DEFINE m == Mid(left, right)
  <2>1. CASE Turn
    <3>1. /\ SearchTypeOK' /\ left' <= right' /\ EndsInTime'
          /\ target \in Nat /\ left \in Nat /\ right \in 0 .. Size - 1 /\ m \in 0 .. Size - 1
      BY <2>1, TurnHalves
    <3>2. target' = target /\ (\A i \in 0 .. left - 1 : Prime(i) < target)
          /\ (right < Size - 1 => Prime(right) >= target)
      BY <2>1 DEF Turn, GoRight, GoLeft, Interval, Narrowing
    <3>3. CASE GoRight
      <4>1. left' = m + 1 /\ right' = right /\ Prime(m) < target
        BY <3>3 DEF GoRight, Below
      <4> HIDE DEF m
      <4>2. ASSUME NEW i \in 0 .. left' - 1 PROVE Prime(i) < target
        <5>1. i \in 0 .. Size - 1 /\ i <= m
          BY <3>1, <4>1, Array
        <5>2. Prime(i) <= Prime(m) /\ Prime(i) \in Nat /\ Prime(m) \in Nat
          BY <3>1, <5>1, Array
        <5> QED BY <3>1, <4>1, <5>2
      <4> QED BY <3>1, <3>2, <4>1, <4>2 DEF Interval, Narrowing
    <3>4. CASE GoLeft
      <4>1. left' = left /\ right' = m /\ ~ (Prime(m) < target)
        BY <3>4 DEF GoLeft, Below
      <4> HIDE DEF m
      <4>2. Prime(m) >= target
        BY <3>1, <4>1, Array
      <4> QED BY <3>1, <3>2, <4>1, <4>2 DEF Interval, Narrowing
    <3> QED BY <2>1, <3>3, <3>4 DEF Turn
  <2>2. CASE UNCHANGED searchVars
    BY <2>2 DEF searchVars, Interval, SearchTypeOK, Narrowing, EndsInTime
  <2> QED BY <2>1, <2>2
<1> QED BY <1>1, <1>2, PTL DEF SearchSpec

\* For every list in non-decreasing order and every target, the search reads no
\* element outside the list.
THEOREM SearchTypes == SearchSpec => []SearchTypeOK
<1>1. Interval => SearchTypeOK
  BY DEF Interval
<1> QED BY <1>1, SearchInvariant, PTL

\* The search ends: every turn halves the interval.
THEOREM SearchEnds == SearchSpec => []EndsInTime
<1>1. Interval => EndsInTime
  BY DEF Interval
<1> QED BY <1>1, SearchInvariant, PTL

\* prime_lower_bound() returns the smallest listed value that is not below the
\* target, and the last one when there is none.
THEOREM LowerBoundCorrect == SearchSpec => []FindsLowerBound
<1>1. Interval => FindsLowerBound
  <2> SUFFICES ASSUME Interval, left = right PROVE FindsLowerBound
    BY DEF FindsLowerBound
  <2>0. /\ Size \in Nat /\ left \in 0 .. Size - 1 /\ target \in Nat
        /\ \A i \in 0 .. Size - 1 : Prime(i) \in Nat
    BY TargetAssumption, Array DEF Interval, SearchTypeOK
  <2>1. \A i \in 0 .. left - 1 : Prime(i) < target
    BY DEF Interval, Narrowing
  <2>2. CASE Prime(left) >= target
    <3>1. ASSUME NEW i \in 0 .. Size - 1, Prime(i) >= target
          PROVE  Prime(left) <= Prime(i)
      <4>1. left <= i
        BY <2>0, <2>1, <3>1
      <4> QED BY <2>0, <4>1, Array
    <3> QED BY <2>2, <3>1 DEF FindsLowerBound
  <2>3. CASE Prime(left) < target
    <3>1. left = Size - 1
      BY <2>0, <2>3 DEF Interval, Narrowing
    <3>2. \A i \in 0 .. Size - 1 : i \in 0 .. left - 1 \/ i = left
      BY <2>0, <3>1
    <3> QED BY <2>1, <2>3, <3>1, <3>2 DEF FindsLowerBound
  <2>4. Prime(left) \in Nat
    BY <2>0
  <2> QED BY <2>0, <2>2, <2>3, <2>4
<1> QED BY <1>1, SearchInvariant, PTL
=============================================================================
