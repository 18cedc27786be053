---------------------------- MODULE MCPlatforms ----------------------------
(***************************************************************************)
(* Platforms on a small instance: one user and two overlapping requests;   *)
(* on LeetCode two handles and two endpoints, one of which Disconnect      *)
(* clears, and on Codeforces a single handle and endpoint.                 *)
(***************************************************************************)
EXTENDS Platforms, TLC

CONSTANTS codeforces, leetcode, h1, h2

MCPlatform == {codeforces, leetcode}
MCHandles == leetcode :> {h1, h2} @@ codeforces :> {h1}
MCEndpoints == leetcode :> 2 @@ codeforces :> 1
MCCleared == leetcode :> {1} @@ codeforces :> {1}

Symmetry == Permutations(Requests)
=============================================================================
