----------------------------- MODULE MCSessions -----------------------------
(* Sessions on a small instance: two users, two overlapping requests.      *)
EXTENDS Sessions, TLC

Symmetry ==
  Permutations(Users) \cup Permutations(Requests) \cup
  Permutations(Emails) \cup Permutations(Usernames) \cup Permutations(Passwords)
=============================================================================
