-------------------------- MODULE MCBatchedVerify --------------------------
(* Instances of BatchedVerify for TLC.                                      *)
EXTENDS BatchedVerify
=============================================================================
