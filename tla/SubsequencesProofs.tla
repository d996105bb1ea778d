------------------------- MODULE SubsequencesProofs -------------------------
(***************************************************************************)
(* What Without does to a list, for every list and set, and the other      *)
(* facts about lists without duplicates that the proofs about queues need. *)
(***************************************************************************)
EXTENDS ListFacts, FiniteSetTheorems, SequenceTheorems,
        WellFoundedInduction, TLAPS

NatLess == {p \in Nat \X Nat : p[1] < p[2]}

(* The order of the naturals has no infinite descent.                      *)
LEMMA NatLessWellFounded == IsWellFoundedOn(NatLess, Nat)
  <1>1. OpToRel(<, Nat) = NatLess
    BY Zenon DEF OpToRel, NatLess
  <1> QED
    BY <1>1, NatLessThanWellFounded, Zenon

(* A non-empty set of natural numbers has a smallest element.  Induction   *)
(* over the naturals is used in this form.                                 *)
LEMMA SmallestOf ==
  ASSUME NEW S \in SUBSET Nat, S # {}
  PROVE  \E n \in S : \A m \in S : n <= m
  <1>1. PICK x \in S : \A y \in S : ~(<<y, x>> \in NatLess)
    BY NatLessWellFounded, WFMin, Zenon
  <1>2. ASSUME NEW y \in S, ~(x <= y)
        PROVE  FALSE
    <2>1. x \in Nat /\ y \in Nat /\ y < x
      BY <1>2
    <2>2. <<y, x>> \in NatLess
      BY <2>1 DEF NatLess
    <2> QED
      BY <2>2, <1>1
  <1> QED
    BY <1>2

(* One more element is one more or none that stays.                        *)
LEMMA StayingStep ==
  ASSUME NEW A, NEW s \in Seq(A), NEW S, NEW j \in 1..Len(s)
  PROVE  /\ Staying(s, S, j) \in Nat
         /\ Staying(s, S, j - 1) \in Nat
         /\ s[j] \in S => Staying(s, S, j) = Staying(s, S, j - 1)
         /\ s[j] \notin S => Staying(s, S, j) = Staying(s, S, j - 1) + 1
  <1> DEFINE T(k) == {i \in 1..k : s[i] \notin S}
  <1>0. Len(s) \in Nat /\ j \in Nat /\ j >= 1
    BY LenProperties
  <1>1. IsFiniteSet(1..j) /\ IsFiniteSet(1..(j - 1))
    BY <1>0, FS_Interval
  <1>2. IsFiniteSet(T(j)) /\ IsFiniteSet(T(j - 1))
    BY <1>1, FS_Subset
  <1>3. s[j] \in S => T(j) = T(j - 1)
    BY <1>0
  <1>4. s[j] \notin S => T(j) = T(j - 1) \cup {j} /\ j \notin T(j - 1)
    BY <1>0
  <1> QED
    BY <1>2, <1>3, <1>4, FS_CardinalityType, FS_AddElement DEF Staying

(* The count of those that stay grows along the list.                      *)
LEMMA StayingMonotonic ==
  ASSUME NEW A, NEW s \in Seq(A), NEW S, NEW i \in 0..Len(s), NEW j \in 0..Len(s), i <= j
  PROVE  /\ Staying(s, S, i) \in Nat
         /\ Staying(s, S, j) \in Nat
         /\ Staying(s, S, i) <= Staying(s, S, j)
         /\ i < j /\ s[j] \notin S => Staying(s, S, i) < Staying(s, S, j)
  <1> DEFINE T(k) == {m \in 1..k : s[m] \notin S}
  <1>0. Len(s) \in Nat /\ j \in Nat /\ i \in Nat
    BY LenProperties
  <1>1. IsFiniteSet(1..j) /\ IsFiniteSet(1..i)
    BY <1>0, FS_Interval
  <1>2. IsFiniteSet(T(j)) /\ IsFiniteSet(T(i)) /\ T(i) \subseteq T(j)
    BY <1>0, <1>1, FS_Subset
  <1>3. ASSUME i < j, s[j] \notin S  PROVE T(i) # T(j)
    BY <1>0, <1>3
  <1>4. Staying(s, S, i) = Cardinality(T(i)) /\ Staying(s, S, j) = Cardinality(T(j))
    BY DEF Staying
  <1> HIDE DEF T
  <1>5. Cardinality(T(i)) \in Nat /\ Cardinality(T(j)) \in Nat /\ Cardinality(T(i)) <= Cardinality(T(j))
    BY <1>2, FS_CardinalityType, FS_Subset
  <1>6. T(i) # T(j) => Cardinality(T(i)) < Cardinality(T(j))
    <2>1. Cardinality(T(i)) = Cardinality(T(j)) => T(i) = T(j)
      BY <1>2, FS_Subset
    <2> QED
      BY <2>1, <1>5
  <1> QED
    BY <1>3, <1>4, <1>5, <1>6

(* It starts at zero.                                                      *)
LEMMA StayingEmpty ==
  ASSUME NEW A, NEW s \in Seq(A), NEW S
  PROVE  Staying(s, S, 0) = 0
  <1>1. {i \in 1..0 : s[i] \notin S} = {}
    OBVIOUS
  <1> QED
    BY <1>1, FS_EmptySet DEF Staying

(* Every number up to the last one is reached, where an element stays.     *)
LEMMA StayingReaches ==
  ASSUME NEW A, NEW s \in Seq(A), NEW S, NEW n \in 1..Staying(s, S, Len(s))
  PROVE  \E j \in 1..Len(s) : s[j] \notin S /\ Staying(s, S, j) = n
  <1>0. Len(s) \in Nat /\ Staying(s, S, Len(s)) \in Nat
    BY LenProperties, StayingMonotonic
  <1> DEFINE R == {j \in 0..Len(s) : Staying(s, S, j) >= n}
  <1>1. R \in SUBSET Nat /\ Len(s) \in R
    BY <1>0
  <1>2. PICK j \in R : \A m \in R : j <= m
    BY <1>1, SmallestOf
  <1>3. j # 0
    BY <1>2, StayingEmpty
  <1>4. j \in 1..Len(s) /\ j - 1 \in 0..Len(s)
    BY <1>0, <1>3
  <1>5. j - 1 \notin R
    BY <1>2, <1>4
  <1>6. ~(Staying(s, S, j - 1) >= n)
    BY <1>4, <1>5
  <1>7. Staying(s, S, j) >= n
    OBVIOUS
  <1>8. /\ Staying(s, S, j) \in Nat /\ Staying(s, S, j - 1) \in Nat
        /\ s[j] \in S => Staying(s, S, j) = Staying(s, S, j - 1)
        /\ s[j] \notin S => Staying(s, S, j) = Staying(s, S, j - 1) + 1
    BY <1>4, StayingStep
  <1>9. s[j] \notin S /\ Staying(s, S, j) = n
    BY <1>0, <1>6, <1>7, <1>8
  <1> QED
    BY <1>4, <1>9

(* PlaceOf finds every element that stays, in order and once.              *)
LEMMA PlaceFacts ==
  ASSUME NEW A, NEW s \in Seq(A), NEW S
  PROVE  /\ \A n \in 1..Staying(s, S, Len(s)) :
             /\ PlaceOf(s, S, n) \in 1..Len(s)
             /\ s[PlaceOf(s, S, n)] \notin S
             /\ Staying(s, S, PlaceOf(s, S, n)) = n
         /\ \A j \in 1..Len(s) : s[j] \notin S =>
             /\ Staying(s, S, j) \in 1..Staying(s, S, Len(s))
             /\ PlaceOf(s, S, Staying(s, S, j)) = j
  <1>0. Len(s) \in Nat /\ Staying(s, S, Len(s)) \in Nat
    BY LenProperties, StayingMonotonic
  <1>1. ASSUME NEW n \in 1..Staying(s, S, Len(s))
        PROVE  /\ PlaceOf(s, S, n) \in 1..Len(s)
               /\ s[PlaceOf(s, S, n)] \notin S
               /\ Staying(s, S, PlaceOf(s, S, n)) = n
    BY StayingReaches DEF PlaceOf
  <1>2. ASSUME NEW j \in 1..Len(s), s[j] \notin S
        PROVE  /\ Staying(s, S, j) \in 1..Staying(s, S, Len(s))
               /\ PlaceOf(s, S, Staying(s, S, j)) = j
    <2>1. j \in 0..Len(s) /\ Len(s) \in 0..Len(s) /\ j <= Len(s) /\ 0 \in 0..Len(s) /\ 0 < j
      BY <1>0
    <2>2. Staying(s, S, j) \in 1..Staying(s, S, Len(s))
      <3>1. Staying(s, S, j) \in Nat /\ Staying(s, S, j) <= Staying(s, S, Len(s))
        BY <2>1, StayingMonotonic
      <3>2. Staying(s, S, 0) < Staying(s, S, j)
        BY <2>1, <1>2, StayingMonotonic
      <3> QED
        BY <3>1, <3>2, <1>0, StayingEmpty
    <2> DEFINE i == PlaceOf(s, S, Staying(s, S, j))
    <2>3. i \in 1..Len(s) /\ s[i] \notin S /\ Staying(s, S, i) = Staying(s, S, j)
      BY <1>1, <2>2
    <2> HIDE DEF i
    <2>4. i \in 0..Len(s)
      BY <2>3, <1>0
    <2>5. ~(i < j)
      <3> SUFFICES ASSUME i < j PROVE FALSE
        OBVIOUS
      <3>1. Staying(s, S, i) \in Nat /\ Staying(s, S, i) < Staying(s, S, j)
        BY <2>1, <2>4, <1>0, <1>2, StayingMonotonic
      <3> QED
        BY <3>1, <2>3
    <2>6. ~(j < i)
      <3> SUFFICES ASSUME j < i PROVE FALSE
        OBVIOUS
      <3>1. Staying(s, S, j) \in Nat /\ Staying(s, S, j) < Staying(s, S, i)
        BY <2>1, <2>3, <2>4, <1>0, StayingMonotonic
      <3> QED
        BY <3>1, <2>3
    <2>7. i = j
      BY <2>3, <2>5, <2>6, <1>0
    <2> QED
      BY <2>2, <2>7 DEF i
  <1> QED
    BY <1>1, <1>2

(* Without erases the elements of S and no other, adds none, and keeps a   *)
(* list without duplicates free of them.                                   *)
LEMMA WithoutFacts ==
  ASSUME NEW A, NEW s \in Seq(A), NEW S
  PROVE  /\ Without(s, S) \in Seq(A)
         /\ Range(s) \subseteq A
         /\ Range(Without(s, S)) = Range(s) \ S
         /\ IsInjective(s) => IsInjective(Without(s, S))
  <1> DEFINE w == Without(s, S)
             N == Staying(s, S, Len(s))
  <1>0. Len(s) \in Nat /\ N \in Nat /\ s \in [1..Len(s) -> A]
    BY LenProperties, StayingMonotonic
  <1>1. w = [n \in 1..N |-> s[PlaceOf(s, S, n)]]
    BY DEF Without
  <1>2. \A n \in 1..N : PlaceOf(s, S, n) \in 1..Len(s) /\ s[PlaceOf(s, S, n)] \notin S
    BY PlaceFacts
  <1>3. w \in Seq(A)
    BY <1>0, <1>1, <1>2, IsASeq
  <1>4. DOMAIN w = 1..N /\ DOMAIN s = 1..Len(s)
    BY <1>1, <1>0
  <1>5. \A n \in 1..N : w[n] = s[PlaceOf(s, S, n)]
    BY <1>1
  <1> HIDE DEF w
  <1>6. Range(w) \subseteq Range(s) \ S
    BY <1>2, <1>4, <1>5 DEF Range
  <1>7. ASSUME NEW j \in 1..Len(s), s[j] \notin S
        PROVE  s[j] \in Range(w)
    <2>1. Staying(s, S, j) \in 1..N /\ PlaceOf(s, S, Staying(s, S, j)) = j
      BY <1>7, PlaceFacts
    <2>2. w[Staying(s, S, j)] = s[j]
      BY <2>1, <1>5
    <2> QED
      BY <2>1, <2>2, <1>4 DEF Range
  <1>8. Range(s) \ S \subseteq Range(w)
    BY <1>7, <1>4 DEF Range
  <1>9. ASSUME IsInjective(s), NEW m \in 1..N, NEW n \in 1..N, w[m] = w[n]
        PROVE  m = n
    <2>1. PlaceOf(s, S, m) = PlaceOf(s, S, n)
      BY <1>2, <1>4, <1>5, <1>9 DEF IsInjective
    <2>2. Staying(s, S, PlaceOf(s, S, m)) = m /\ Staying(s, S, PlaceOf(s, S, n)) = n
      BY PlaceFacts
    <2> QED
      BY <2>1, <2>2
  <1>10. IsInjective(s) => IsInjective(w)
    BY <1>4, <1>9 DEF IsInjective
  <1>11. Range(s) \subseteq A
    BY <1>0, <1>4 DEF Range
  <1> QED
    BY <1>3, <1>6, <1>8, <1>10, <1>11 DEF w

(* A list without repetitions is as long as the set of its elements is     *)
(* large.                                                                  *)
LEMMA InjectiveLength ==
  ASSUME NEW A, NEW s \in Seq(A), IsInjective(s)
  PROVE  IsFiniteSet(Range(s)) /\ Len(s) = Cardinality(Range(s))
  <1>0. Len(s) \in Nat /\ s \in [1..Len(s) -> Range(s)] /\ DOMAIN s = 1..Len(s)
    BY LenProperties DEF Range
  <1>1. s \in Bijection(1..Len(s), Range(s))
    BY <1>0 DEF IsInjective, Range, Bijection, Injection, Surjection
  <1>2. IsFiniteSet(1..Len(s)) /\ Cardinality(1..Len(s)) = Len(s)
    BY <1>0, FS_Interval
  <1> QED
    BY <1>1, <1>2, FS_Bijection DEF ExistsBijection

(* What Append does to the elements of a list.                             *)
LEMMA AppendFacts ==
  ASSUME NEW A, NEW s \in Seq(A), NEW x \in A
  PROVE  /\ Append(s, x) \in Seq(A)
         /\ Len(Append(s, x)) = Len(s) + 1
         /\ Range(Append(s, x)) = Range(s) \cup {x}
         /\ IsInjective(s) /\ x \notin Range(s) => IsInjective(Append(s, x))
  <1> DEFINE t == Append(s, x)
  <1>1. /\ t \in Seq(A) /\ Len(s) \in Nat /\ Len(t) = Len(s) + 1
        /\ t[Len(s) + 1] = x /\ \A i \in 1..Len(s) : t[i] = s[i]
    BY AppendProperties, LenProperties
  <1>2. DOMAIN s = 1..Len(s) /\ DOMAIN t = 1..(Len(s) + 1)
    BY <1>1, LenProperties
  <1> HIDE DEF t
  <1>3. Range(t) = Range(s) \cup {x}
    <2>1. Range(t) \subseteq Range(s) \cup {x}
      <3>1. \A i \in 1..(Len(s) + 1) : i \in 1..Len(s) \/ i = Len(s) + 1
        BY <1>1
      <3> QED
        BY <3>1, <1>1, <1>2 DEF Range
    <2>2. Range(s) \subseteq Range(t)
      <3>1. \A i \in 1..Len(s) : i \in 1..(Len(s) + 1)
        BY <1>1
      <3> QED
        BY <3>1, <1>1, <1>2 DEF Range
    <2>3. x \in Range(t)
      <3>1. Len(s) + 1 \in 1..(Len(s) + 1)
        BY <1>1
      <3> QED
        BY <3>1, <1>1, <1>2 DEF Range
    <2> QED
      BY <2>1, <2>2, <2>3
  <1>4. ASSUME IsInjective(s), x \notin Range(s),
               NEW a \in 1..(Len(s) + 1), NEW b \in 1..(Len(s) + 1), t[a] = t[b]
        PROVE  a = b
    <2>1. \A i \in 1..Len(s) : s[i] # x
      BY <1>2, <1>4 DEF Range
    <2>2. \A i, j \in 1..Len(s) : s[i] = s[j] => i = j
      BY <1>2, <1>4 DEF IsInjective
    <2>3. CASE a \in 1..Len(s) /\ b \in 1..Len(s)
      BY <2>2, <2>3, <1>1, <1>4
    <2>4. CASE a = Len(s) + 1 \/ b = Len(s) + 1
      BY <2>1, <2>4, <1>1, <1>4
    <2> QED
      BY <2>3, <2>4, <1>1
  <1>5. IsInjective(s) /\ x \notin Range(s) => IsInjective(t)
    BY <1>2, <1>4 DEF IsInjective
  <1> QED
    BY <1>1, <1>3, <1>5 DEF t

(* The empty list.                                                         *)
LEMMA EmptyFacts ==
  Range(<<>>) = {} /\ IsInjective(<<>>) /\ Len(<<>>) = 0
  BY DEF Range, IsInjective

(* The list is empty if the set of its elements is.                        *)
LEMMA NoElements ==
  ASSUME NEW A, NEW s \in Seq(A)
  PROVE  /\ Range(s) = {} <=> s = <<>>
         /\ s # <<>> => Head(s) \in Range(s)
  <1>1. Len(s) \in Nat /\ DOMAIN s = 1..Len(s)
    BY LenProperties
  <1>2. s # <<>> => 1 \in 1..Len(s) /\ Head(s) = s[1]
    BY <1>1, EmptySeq, HeadTailProperties
  <1> QED
    BY <1>1, <1>2, EmptyFacts DEF Range

(* The facts about counting and lists that other proofs assume.            *)
THEOREM ListFactsHold == ListFacts
  <1>1. CountType /\ CountEmpty /\ CountOne /\ CountAdd /\ CountRemove
    BY FS_CardinalityType, FS_EmptySet, FS_Singleton, FS_AddElement, FS_RemoveElement
       DEF CountType, CountEmpty, CountOne, CountAdd, CountRemove
  <1>2. CountSubset
    BY FS_Subset DEF CountSubset
  <1>3. CountDifference
    BY FS_Difference DEF CountDifference
  <1>4. CountUnion
    BY FS_Union DEF CountUnion
  <1>5. CountBijection
    BY FS_Bijection DEF CountBijection
  <1>6. ListTyped
    BY LenProperties DEF ListTyped
  <1>7. ListEmpty
    BY EmptySeq, EmptyFacts DEF ListEmpty
  <1>8. ListAppend
    BY AppendFacts DEF ListAppend
  <1>9. ListWithout
    BY WithoutFacts DEF ListWithout
  <1>10. ListElements
    BY NoElements DEF ListElements
  <1>11. ListLength
    BY InjectiveLength DEF ListLength
  <1> QED
    BY <1>1, <1>2, <1>3, <1>4, <1>5, <1>6, <1>7, <1>8, <1>9, <1>10, <1>11 DEF ListFacts
============================================================================
