---------------------------- MODULE MCKeyRotation ----------------------------
(* Instances of KeyRotation for TLC. *)
EXTENDS KeyRotation, TLC

CONSTANTS r1, r2, r3, k1, k2, k3

\* r1 and r2 rotate from the same key to the same key, r3 rotates on from there.
ChainOld == r1 :> k1 @@ r2 :> k1 @@ r3 :> k2
ChainNew == r1 :> k2 @@ r2 :> k2 @@ r3 :> k3

\* One run.
SingleOld == r1 :> k1
SingleNew == r1 :> k2
=============================================================================
