--------------------------- MODULE MCRecommender ---------------------------
(***************************************************************************)
(* Recommendations and Recommender on small instances: one of the names    *)
(* is a handle on both platforms, another one on LeetCode alone.           *)
(***************************************************************************)
EXTENDS Recommender, TLC

CONSTANTS h1, h2

MCHandles == "codeforces" :> {h1} @@ "leetcode" :> {h1, h2}

Symmetry == Permutations(Requests)
=============================================================================
