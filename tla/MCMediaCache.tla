---------------------------- MODULE MCMediaCache ----------------------------
(* An instance of MediaCache for TLC.                                       *)
EXTENDS MediaCache, TLC

CONSTANTS r1, r2, r3, k1, k2, k3, k4

(* Each request has a large part and waits for another one, which it may    *)
(* share: without the gate, the three large parts would fill the account    *)
(* before the small one is built.  r3 exceeds its budget; k3 and k4 are     *)
(* larger than what the cache may keep.                                     *)
SharedParts == r1 :> <<k1, k2>> @@ r2 :> <<k3, k2>> @@ r3 :> <<k4, k1>>
SharedBytes == k1 :> 2 @@ k2 :> 1 @@ k3 :> 3 @@ k4 :> 3
=============================================================================
