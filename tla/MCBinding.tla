------------------------------ MODULE MCBinding ------------------------------
(* Instances of Binding for TLC. *)
EXTENDS Binding, TLC

CONSTANTS a1, a2, a3, u1, u2, b1, b2, b3

\* Each Bind carries an ID of its own.
DistinctIds == a1 :> b1 @@ a2 :> b2 @@ a3 :> b3

\* The second Bind is the platform's retry of the first.
RetriedBind == a1 :> b1 @@ a2 :> b1 @@ a3 :> b2

UnbinderSymmetry == Permutations({u1, u2})

\* Under RetriedBind the first Bind and its retry are alike as well.
RetrySymmetry == UnbinderSymmetry \cup Permutations({a1, a2})
=============================================================================
