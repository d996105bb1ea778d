----------------------------- MODULE MCService -----------------------------
EXTENDS Service
CONSTANTS old, s, a

Sizes == [id \in Ids |-> IF id = a THEN 2 ELSE 1]

\* A character of one byte and one of two.
Text == {NoDelta, [bytes |-> 3, ends |-> {1, 3}]}
============================================================================
