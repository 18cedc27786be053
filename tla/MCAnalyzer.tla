----------------------------- MODULE MCAnalyzer -----------------------------
(***************************************************************************)
(* Two problems of different platforms; the second is no sample, and its   *)
(* analysis comes without hints and without a title.                       *)
(***************************************************************************)
EXTENDS Analyzer

CONSTANTS cf, lc

MCPlatform == [u \in {cf, lc} |-> IF u = cf THEN "codeforces" ELSE "leetcode"]
MCHints == [u \in {cf, lc} |-> IF u = cf THEN 1 ELSE 0]
=============================================================================
