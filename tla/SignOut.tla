------------------------------- MODULE SignOut -------------------------------
(***************************************************************************)
(* Sessions, with a history of the sessions that their user signed out of  *)
(* with RevokeAllSessions ("sign out everywhere" on the profile page).     *)
(***************************************************************************)
EXTENDS Sessions

VARIABLE signedOut  \* the sessions, by first token, that RevokeAllSessions found

SignOutInit == Init /\ signedOut = {}

SignOutEverywhere(u) ==
  /\ RevokeAllSessions(u)
  /\ signedOut' = signedOut \cup {origin[t].root : t \in TokensOf(u)}

SignOutNext ==
  \/ \E u \in born : SignOutEverywhere(u)
  \/ /\ \/ \E p \in Requests : RequestStep(p)
        \/ \E t \in 1..issued : Logout(t)
        \/ \E u \in born, t \in 1..issued : RevokeSession(u, t)
        \/ Lapse
     /\ UNCHANGED signedOut

SignOutSpec == SignOutInit /\ [][SignOutNext]_<<vars, signedOut>>

\* RevokeAllSessions signs the user out of every session: none of those it
\* found holds a token afterwards.
SignedOutOfEvery ==
  \A t \in Tokens : Live(t) => origin[t].root \notin signedOut
=============================================================================
