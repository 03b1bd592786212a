--------------------------- MODULE MCGovernedReview ---------------------------
(* Works of one market authority, the first observed before the others.    *)
EXTENDS GovernedReview, TLC

CONSTANTS w1, w2, w3, r1, r2, r3, s1, s2, v1, key

AllOneKey == [w \in Works |-> key]
Times == (w1 :> 1) @@ (w2 :> 2) @@ (w3 :> 2)
AllActions ==
    (r1 :> "request_review") @@ (r2 :> "request_review") @@ (r3 :> "request_review")
    @@ (s1 :> "second_critic") @@ (s2 :> "second_critic") @@ (v1 :> "request_revision")
Actions == [a \in Attempts |-> AllActions[a]]
AllSubjects == (r1 :> w1) @@ (r2 :> w2) @@ (r3 :> w1) @@ (s1 :> w1) @@ (s2 :> w1) @@ (v1 :> w1)
Subjects == [a \in Attempts |-> AllSubjects[a]]
ReviewTimes == [w \in Works |-> Times[w]]
Symmetry == Permutations(Critics)
=============================================================================
