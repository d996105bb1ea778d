---------------------------- MODULE MCPassQueue ----------------------------
(* Instances of PassQueue for TLC.                                          *)
EXTENDS PassQueue
=============================================================================
