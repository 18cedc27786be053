---------------------------- MODULE MCApiClient ----------------------------
(***************************************************************************)
(* Two tabs: tab a shows a protected page and makes two calls, tab b a     *)
(* public page that probes the session with one.                           *)
(***************************************************************************)
EXTENDS ApiClient

CONSTANTS a, b

MCTabs == {a, b}
MCQuota == [t \in MCTabs |-> IF t = a THEN 2 ELSE 1]
=============================================================================
