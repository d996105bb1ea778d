---------------------------- MODULE Subsequences ----------------------------
(***************************************************************************)
(* What is left of a list when the elements in a set are erased from it.   *)
(* SelectSeq says the same, by recursion; this says it with counting only, *)
(* so that the proofs can use it.                                          *)
(***************************************************************************)
EXTENDS Integers, Sequences, FiniteSets

(* How many of the first j elements stay.                                  *)
Staying(s, S, j) == Cardinality({i \in 1..j : s[i] \notin S})

(* Where the n-th element that stays is.                                   *)
PlaceOf(s, S, n) == CHOOSE j \in 1..Len(s) : s[j] \notin S /\ Staying(s, S, j) = n

Without(s, S) == [n \in 1..Staying(s, S, Len(s)) |-> s[PlaceOf(s, S, n)]]
============================================================================
