----------------------------- MODULE SessionLife -----------------------------
(***************************************************************************)
(* What a signed-in session promises, whatever tokens carry it: it opens   *)
(* once, it may end, and a session that has ended never opens again.       *)
(* Several sessions may end in one step (sign out everywhere, deleting an  *)
(* account).                                                               *)
(***************************************************************************)
CONSTANT Session

VARIABLE stage  \* "none" before the session begins, then "open", then "ended"

Init == stage = [s \in Session |-> "none"]

Open(s) ==
  /\ stage[s] = "none"
  /\ stage' = [stage EXCEPT ![s] = "open"]

End(S) ==
  /\ \A s \in S : stage[s] = "open"
  /\ stage' = [s \in Session |-> IF s \in S THEN "ended" ELSE stage[s]]

Next ==
  \/ \E s \in Session : Open(s)
  \/ \E S \in SUBSET Session : End(S)

Spec == Init /\ [][Next]_stage
=============================================================================
