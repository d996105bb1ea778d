----------------------------- MODULE ListFacts -----------------------------
(***************************************************************************)
(* Facts about finite sets and about lists without duplicates, stated as   *)
(* formulas.  SubsequencesProofs proves ListFacts; a proof that takes it   *)
(* as an assumption does not need the theorem library beside it.           *)
(***************************************************************************)
EXTENDS Integers, Sequences, FiniteSets, Functions, Subsequences

CountType == \A S : IsFiniteSet(S) => Cardinality(S) \in Nat
CountEmpty == IsFiniteSet({}) /\ Cardinality({}) = 0
CountOne == \A x : IsFiniteSet({x}) /\ Cardinality({x}) = 1
CountAdd == \A S, x : IsFiniteSet(S) =>
    /\ IsFiniteSet(S \cup {x})
    /\ Cardinality(S \cup {x}) = IF x \in S THEN Cardinality(S) ELSE Cardinality(S) + 1
CountRemove == \A S, x : IsFiniteSet(S) =>
    /\ IsFiniteSet(S \ {x})
    /\ Cardinality(S \ {x}) = IF x \in S THEN Cardinality(S) - 1 ELSE Cardinality(S)
CountSubset == \A S : IsFiniteSet(S) => \A T \in SUBSET S :
    IsFiniteSet(T) /\ Cardinality(T) <= Cardinality(S)
CountDifference == \A S, T : IsFiniteSet(S) =>
    IsFiniteSet(S \ T) /\ Cardinality(S \ T) = Cardinality(S) - Cardinality(S \cap T)
CountUnion == \A S, T : IsFiniteSet(S) /\ IsFiniteSet(T) =>
    /\ IsFiniteSet(S \cup T)
    /\ Cardinality(S \cup T) = Cardinality(S) + Cardinality(T) - Cardinality(S \cap T)
CountBijection == \A S, T : IsFiniteSet(S) /\ ExistsBijection(S, T) =>
    IsFiniteSet(T) /\ Cardinality(T) = Cardinality(S)

ListTyped == \A A : \A s \in Seq(A) :
    Len(s) \in Nat /\ s \in [1..Len(s) -> A] /\ DOMAIN s = 1..Len(s)
ListEmpty ==
    /\ \A A : <<>> \in Seq(A)
    /\ Range(<<>>) = {} /\ IsInjective(<<>>) /\ Len(<<>>) = 0
ListAppend == \A A : \A s \in Seq(A) : \A x \in A :
    /\ Append(s, x) \in Seq(A)
    /\ Len(Append(s, x)) = Len(s) + 1
    /\ Range(Append(s, x)) = Range(s) \cup {x}
    /\ IsInjective(s) /\ x \notin Range(s) => IsInjective(Append(s, x))
ListWithout == \A A : \A s \in Seq(A) : \A S :
    /\ Without(s, S) \in Seq(A)
    /\ Range(s) \subseteq A
    /\ Range(Without(s, S)) = Range(s) \ S
    /\ IsInjective(s) => IsInjective(Without(s, S))
ListElements == \A A : \A s \in Seq(A) :
    /\ Range(s) = {} <=> s = <<>>
    /\ s # <<>> => Head(s) \in Range(s)
ListLength == \A A : \A s \in Seq(A) : IsInjective(s) =>
    IsFiniteSet(Range(s)) /\ Len(s) = Cardinality(Range(s))

ListFacts ==
    /\ CountType /\ CountEmpty /\ CountOne /\ CountAdd /\ CountRemove /\ CountSubset
    /\ CountDifference /\ CountUnion /\ CountBijection
    /\ ListTyped /\ ListEmpty /\ ListAppend /\ ListWithout /\ ListElements /\ ListLength
============================================================================
