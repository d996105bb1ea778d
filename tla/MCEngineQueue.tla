--------------------------- MODULE MCEngineQueue ---------------------------
EXTENDS EngineQueue, TLC

Perms == Permutations(Lanes)

ShortLists == UNION {[1..n -> 1..3] : n \in 0..5}

(* Without is SelectSeq, here on every list of up to five of three values. *)
ASSUME WithoutIsSelectSeq ==
    \A s \in ShortLists : \A S \in SUBSET (1..3) :
        Without(s, S) = SelectSeq(s, LAMBDA x : x \notin S)
============================================================================
