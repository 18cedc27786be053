---------------------------- MODULE ProfileProofs -----------------------------
(***************************************************************************)
(* For any number of platforms, sessions and requests under way: the page  *)
(* and the sidebar show the accounts that the server has, and a session    *)
(* that was revoked is not listed again.                                   *)
(*                                                                         *)
(* The argument: in a visit that is not mixed, either the list is under    *)
(* way, and alone, or there are changes of different platforms only, and   *)
(* the page is wrong about no platform but those whose change the server   *)
(* has carried out and not yet answered.                                   *)
(***************************************************************************)
EXTENDS Profile, TLAPS

Types ==
  /\ linked \subseteq Platforms /\ rows \subseteq Sessions
  /\ dots \subseteq Platforms /\ accounts \subseteq Platforms
  /\ sessions \subseteq Sessions /\ revoked \subseteq Sessions
  /\ dialog \in [what : {"none", "connect", "disconnect"}, platform : Platforms \cup {None}]
  /\ dialog # NoDialog => dialog.what \in Changes /\ dialog.platform \in Platforms
  /\ revokingId \in Sessions \cup {None}
  /\ open \in BOOLEAN /\ syncing \in BOOLEAN /\ mixed \in BOOLEAN
  /\ req \in [Requests -> Request]

Shaped ==
  \A r \in Requests :
    /\ req[r].op \in Lists => req[r].answer \subseteq Platforms
    /\ req[r].op = "sessions" => req[r].answer \subseteq Sessions
    /\ req[r].op \in Changes => req[r].arg \in Platforms
    /\ req[r].op = "revoke" => req[r].arg \in Sessions

\* A page that is gone waits for nothing; the sidebar is never gone.
AwayWaitsForNone ==
  ~open => \A r \in Requests : req[r].here => req[r].op = "sidebar"

OneSync ==
  open =>
    /\ syncing <=> \E r \in Requests : req[r].here /\ req[r].op = "sync"
    /\ \A r, q \in Requests :
         req[r].here /\ req[r].op = "sync" /\ req[q].here /\ req[q].op = "sync" => r = q

RevokingHasCause ==
  open /\ revokingId # None =>
    \E r \in Requests :
      req[r].here /\ req[r].op = "revoke" /\ req[r].arg = revokingId

\* Nothing is revoked before the list of sessions is there.
SessionsFirst ==
  open =>
    \A r \in Requests : req[r].here /\ req[r].op = "sessions" =>
      /\ sessions = {} /\ revoked = {}
      /\ \A q \in Requests \ {r} :
           req[q].here => req[q].op \notin {"sessions", "revoke", "revokeAll"}

ListAlone ==
  open /\ ~mixed =>
    \A r \in Requests : req[r].op \in Lists =>
      /\ req[r].op = "accounts" /\ req[r].here
      /\ \A q \in Requests \ {r} : req[q].op \notin Lists \cup Changes
      /\ req[r].at = "ok" => req[r].answer = linked

ChangesApart ==
  open /\ ~mixed =>
    \A r \in Requests : req[r].op \in Changes =>
      /\ req[r].here
      /\ \A q \in Requests \ {r} : req[q].op \in Changes => req[q].arg # req[r].arg
      /\ req[r].at = "ok" => (req[r].arg \in linked <=> req[r].op = "connect")

\* No change of this platform has reached the server.
Untouched(pl) ==
  \A r \in Requests : req[r].op \in Changes /\ req[r].arg = pl => req[r].at = "sent"

Agree ==
  open /\ ~mixed /\ (\A r \in Requests : req[r].op \notin Lists) =>
    /\ dots = accounts
    /\ \A pl \in Platforms : Untouched(pl) => (pl \in accounts <=> pl \in linked)

AccountsInv == ListAlone /\ ChangesApart /\ Agree
VisitInv == AwayWaitsForNone /\ OneSync /\ RevokingHasCause /\ SessionsFirst /\ RevokedStaysGone

\* The inductive invariant.
ProfileInv == Types /\ Shaped /\ VisitInv /\ AccountsInv

-----------------------------------------------------------------------------
LEMMA IdleType ==
  Idle \in Request /\ Idle.op = "none" /\ Idle.at = "none" /\ ~Idle.here
BY DEF Idle, Request

\* A new request of the page or the sidebar.
LEMMA CallType ==
  ASSUME NEW op \in Lists \cup Changes \cup {"sync", "sessions", "revoke", "revokeAll"},
         NEW arg \in Platforms \cup Sessions \cup {None}
  PROVE  /\ Call(op, arg) \in Request
         /\ Call(op, arg).op = op /\ Call(op, arg).at = "sent"
         /\ Call(op, arg).arg = arg /\ Call(op, arg).here
         /\ Call(op, arg).answer = {}
BY DEF Call, Request

\* What one request that is sent leaves alone.
LEMMA SendEffect ==
  ASSUME Types, NEW op \in Lists \cup Changes \cup {"sync", "sessions", "revoke", "revokeAll"},
         NEW arg \in Platforms \cup Sessions \cup {None}, Send(op, arg)
  PROVE  \E r \in Requests :
           /\ req[r] = Idle
           /\ req' \in [Requests -> Request]
           /\ req'[r].op = op /\ req'[r].at = "sent" /\ req'[r].arg = arg
           /\ req'[r].here /\ req'[r].answer = {}
           /\ \A q \in Requests \ {r} : req'[q] = req[q]
<1>1. PICK r \in Requests : Free(r) /\ req' = [req EXCEPT ![r] = Call(op, arg)]
  BY DEF Send
<1>2. /\ req' \in [Requests -> Request]
      /\ req'[r] = Call(op, arg)
      /\ \A q \in Requests \ {r} : req'[q] = req[q]
  <2>1. Call(op, arg) \in Request
    BY CallType
  <2> QED BY <1>1, <2>1 DEF Types
<1>3. /\ Call(op, arg).op = op /\ Call(op, arg).at = "sent"
      /\ Call(op, arg).arg = arg /\ Call(op, arg).here
      /\ Call(op, arg).answer = {}
  BY CallType
<1>4. req[r] = Idle
  BY <1>1 DEF Free
<1> QED BY <1>2, <1>3, <1>4

LEMMA DropEffect ==
  ASSUME Types, NEW r \in Requests, Drop(r)
  PROVE  /\ req' \in [Requests -> Request]
         /\ req'[r] = Idle /\ req'[r].op = "none" /\ ~req'[r].here
         /\ \A q \in Requests \ {r} : req'[q] = req[q]
BY IdleType DEF Types, Drop

\* The server's answer changes where a request stands and what it carries.
LEMMA AnswerEffect ==
  ASSUME Types, NEW r \in Requests, NEW at \in {"ok", "failed"},
         NEW answer \in (SUBSET Platforms) \cup (SUBSET Sessions), Answer(r, at, answer)
  PROVE  /\ req' \in [Requests -> Request]
         /\ req'[r].op = req[r].op /\ req'[r].arg = req[r].arg
         /\ req'[r].here = req[r].here
         /\ req'[r].at = at /\ req'[r].answer = answer
         /\ \A q \in Requests \ {r} : req'[q] = req[q]
<1> DEFINE x == [op |-> req[r].op, at |-> at, arg |-> req[r].arg, here |-> req[r].here,
                 answer |-> answer, before |-> req[r].before]
<1>1. x \in Request
  BY DEF Types, Request
<1>2. req' = [req EXCEPT ![r] = x]
  BY DEF Answer
<1> HIDE DEF x
<1>3. /\ req' \in [Requests -> Request]
      /\ req'[r] = x
      /\ \A q \in Requests \ {r} : req'[q] = req[q]
  BY <1>1, <1>2 DEF Types
<1> QED BY <1>3 DEF x

-----------------------------------------------------------------------------
(* The server.                                                             *)

\* An answer moves nothing of the visit.
LEMMA AnswerVisit ==
  ASSUME Types, VisitInv, NEW r \in Requests, NEW at \in {"ok", "failed"},
         NEW answer \in (SUBSET Platforms) \cup (SUBSET Sessions), Answer(r, at, answer)
  PROVE  VisitInv'
<1>1. /\ \A q \in Requests : req'[q].op = req[q].op /\ req'[q].arg = req[q].arg
                               /\ req'[q].here = req[q].here
      /\ UNCHANGED <<open, syncing, revokingId, sessions, revoked>>
  <2>1. UNCHANGED <<open, syncing, revokingId, sessions, revoked>>
    BY DEF Answer, page
  <2> QED BY <2>1, AnswerEffect
<1>2. AwayWaitsForNone'
  BY <1>1 DEF VisitInv, AwayWaitsForNone
<1>3. OneSync'
  BY <1>1 DEF VisitInv, OneSync
<1>4. RevokingHasCause'
  BY <1>1 DEF VisitInv, RevokingHasCause
<1>5. SessionsFirst'
  BY <1>1 DEF VisitInv, SessionsFirst
<1>6. RevokedStaysGone'
  BY <1>1 DEF VisitInv, RevokedStaysGone
<1> QED BY <1>2, <1>3, <1>4, <1>5, <1>6 DEF VisitInv

LEMMA AnswerTypes ==
  ASSUME Types, Shaped, NEW r \in Requests, NEW at \in {"ok", "failed"},
         NEW answer \in (SUBSET Platforms) \cup (SUBSET Sessions), Answer(r, at, answer),
         linked' \subseteq Platforms, rows' \subseteq Sessions,
         req[r].op \in Lists => answer \subseteq Platforms,
         req[r].op = "sessions" => answer \subseteq Sessions
  PROVE  Types' /\ Shaped'
<1>1. UNCHANGED <<dots, open, accounts, dialog, syncing, sessions, revokingId, mixed, revoked>>
  BY DEF Answer, page
<1>2. Types'
  BY <1>1, AnswerEffect DEF Types
<1>3. Shaped'
  BY AnswerEffect DEF Shaped
<1> QED BY <1>2, <1>3

\* An answer that changes no account.
LEMMA AnswerAccounts ==
  ASSUME Types, AccountsInv, NEW r \in Requests, NEW at \in {"ok", "failed"},
         NEW answer \in (SUBSET Platforms) \cup (SUBSET Sessions), Answer(r, at, answer),
         UNCHANGED linked,
         at = "ok" => /\ req[r].op \notin Changes
                      /\ req[r].op \in Lists => answer = linked
  PROVE  AccountsInv'
<1>1. UNCHANGED <<dots, open, accounts, mixed>>
  BY DEF Answer, page
<1>2. ListAlone'
  BY <1>1, AnswerEffect DEF AccountsInv, ListAlone
<1>3. ChangesApart'
  BY <1>1, AnswerEffect DEF AccountsInv, ChangesApart
<1>4. \A pl \in Platforms : Untouched(pl)' => Untouched(pl)
  <2>1. SUFFICES ASSUME NEW pl \in Platforms, Untouched(pl)',
                        NEW q \in Requests, req[q].op \in Changes, req[q].arg = pl
                 PROVE  req[q].at = "sent"
    BY DEF Untouched
  <2>2. req'[q].at = "sent"
    BY <2>1, AnswerEffect DEF Untouched
  <2>3. q # r
    BY <2>2, AnswerEffect
  <2> QED BY <2>2, <2>3, AnswerEffect
<1>5. (\A q \in Requests : req'[q].op \notin Lists) => \A q \in Requests : req[q].op \notin Lists
  BY AnswerEffect
<1>6. Agree'
  BY <1>1, <1>4, <1>5 DEF AccountsInv, Agree
<1> QED BY <1>2, <1>3, <1>6 DEF AccountsInv

\* The answer of a change that was carried out.
LEMMA ChangedAccounts ==
  ASSUME Types, Shaped, AccountsInv, NEW r \in Requests, Answer(r, "ok", {}),
         req[r].op \in Changes,
         linked' = IF req[r].op = "connect" THEN linked \cup {req[r].arg}
                   ELSE linked \ {req[r].arg}
  PROVE  AccountsInv'
<1>1. UNCHANGED <<dots, open, accounts, mixed>>
  BY DEF Answer, page
<1>2. /\ req'[r].op = req[r].op /\ req'[r].arg = req[r].arg
      /\ req'[r].here = req[r].here /\ req'[r].at = "ok"
      /\ \A q \in Requests \ {r} : req'[q] = req[q]
  BY AnswerEffect
<1>3. ListAlone'
  BY <1>1, <1>2 DEF AccountsInv, ListAlone, Lists, Changes
<1>4. \A pl \in Platforms \ {req[r].arg} : pl \in linked' <=> pl \in linked
  OBVIOUS
<1>5. ChangesApart'
  <2>1. SUFFICES ASSUME open, ~mixed, NEW q \in Requests, req'[q].op \in Changes
                 PROVE  /\ req'[q].here
                        /\ \A p \in Requests \ {q} :
                             req'[p].op \in Changes => req'[p].arg # req'[q].arg
                        /\ req'[q].at = "ok" => (req'[q].arg \in linked' <=> req'[q].op = "connect")
    BY <1>1 DEF ChangesApart
  <2>2. req'[q].here /\ \A p \in Requests \ {q} :
                          req'[p].op \in Changes => req'[p].arg # req'[q].arg
    BY <1>2, <2>1 DEF AccountsInv, ChangesApart
  <2>3. CASE q = r
    BY <1>2, <2>2, <2>3
  <2>4. CASE q # r
    <3>1. req[q].arg # req[r].arg /\ req[q].arg \in Platforms
      BY <1>2, <2>1, <2>4 DEF AccountsInv, ChangesApart, Shaped
    <3> QED BY <1>2, <1>4, <2>1, <2>2, <2>4, <3>1 DEF AccountsInv, ChangesApart
  <2> QED BY <2>3, <2>4
<1>6. Agree'
  <2>1. \A pl \in Platforms : Untouched(pl)' => pl # req[r].arg /\ Untouched(pl)
    <3>1. SUFFICES ASSUME NEW pl \in Platforms, Untouched(pl)'
                   PROVE  pl # req[r].arg /\ Untouched(pl)
      OBVIOUS
    <3>2. pl # req[r].arg
      BY <1>2, <3>1 DEF Untouched
    <3> QED BY <1>2, <3>1, <3>2 DEF Untouched
  <2>2. (\A q \in Requests : req'[q].op \notin Lists) => \A q \in Requests : req[q].op \notin Lists
    BY <1>2
  <2> QED BY <1>1, <1>4, <2>1, <2>2 DEF AccountsInv, Agree
<1> QED BY <1>3, <1>5, <1>6 DEF AccountsInv

LEMMA ServeStep ==
  ASSUME ProfileInv, NEW r \in Requests, Serve(r)
  PROVE  ProfileInv'
<1> USE DEF ProfileInv
<1>1. {} \in (SUBSET Platforms) \cup (SUBSET Sessions)
  OBVIOUS
<1>2. CASE ServeList(r)
  <2>1. PICK answer \in (SUBSET Platforms) \cup (SUBSET Sessions) :
          /\ Answer(r, "ok", answer)
          /\ req[r].op \in Lists => answer = linked
          /\ req[r].op = "sessions" => answer = rows
          /\ req[r].op \in Lists \cup {"sessions"}
          /\ UNCHANGED <<linked, rows>>
    BY <1>2 DEF ServeList, Types, server, Lists
  <2>2. Types' /\ Shaped' /\ VisitInv'
    BY <2>1, AnswerVisit, AnswerTypes DEF Types
  <2>3. AccountsInv'
    <3>1. req[r].op \notin Changes
      BY <2>1 DEF Lists, Changes
    <3>2. linked' = linked
      BY <2>1
    <3> QED BY <2>1, <3>1, <3>2, AnswerAccounts
  <2> QED BY <2>2, <2>3
<1>3. CASE ServeConnect(r)
  <2>1. linked' = linked \cup {req[r].arg} /\ Answer(r, "ok", {}) /\ UNCHANGED rows
        /\ req[r].op = "connect"
    BY <1>3 DEF ServeConnect
  <2>2. Types' /\ Shaped' /\ VisitInv'
    BY <1>1, <2>1, AnswerVisit, AnswerTypes DEF Types, Shaped, Lists, Changes
  <2> QED BY <2>1, <2>2, ChangedAccounts DEF Changes
<1>4. CASE ServeDisconnect(r)
  <2>1. linked' = linked \ {req[r].arg} /\ Answer(r, "ok", {}) /\ UNCHANGED rows
        /\ req[r].op = "disconnect"
    BY <1>4 DEF ServeDisconnect
  <2>2. Types' /\ Shaped' /\ VisitInv'
    BY <1>1, <2>1, AnswerVisit, AnswerTypes DEF Types, Shaped, Lists, Changes
  <2> QED BY <2>1, <2>2, ChangedAccounts DEF Changes
<1>5. CASE ServeSync(r) \/ ServeRevoke(r) \/ ServeRevokeAll(r)
  <2>1. /\ Answer(r, "ok", {}) /\ UNCHANGED linked
        /\ req[r].op \in {"sync", "revoke", "revokeAll"}
    BY <1>5 DEF ServeSync, ServeRevoke, ServeRevokeAll, server
  <2>2. rows' \subseteq Sessions
    BY <1>5 DEF ServeSync, ServeRevoke, ServeRevokeAll, server, Types
  <2> QED
    BY <1>1, <2>1, <2>2, AnswerVisit, AnswerTypes, AnswerAccounts DEF Types, Lists, Changes
<1>6. CASE Fail(r)
  <2>1. Answer(r, "failed", {}) /\ UNCHANGED <<linked, rows>>
    BY <1>6 DEF Fail, server
  <2> QED
    BY <1>1, <2>1, AnswerVisit, AnswerTypes, AnswerAccounts DEF Types
<1> QED BY <1>2, <1>3, <1>4, <1>5, <1>6 DEF Serve

-----------------------------------------------------------------------------
(* The user.                                                               *)

LEMMA EnterStep ==
  ASSUME ProfileInv, Enter
  PROVE  ProfileInv'
<1>1. Types /\ Shaped /\ AwayWaitsForNone /\ ~open
  BY DEF ProfileInv, VisitInv, Enter
<1>2. /\ open' /\ accounts' = {} /\ dialog' = NoDialog /\ syncing' = FALSE /\ sessions' = {}
      /\ revokingId' = None /\ revoked' = {}
      /\ UNCHANGED <<linked, rows, dots>>
  BY DEF Enter, server
<1>3. PICK r \in Requests, q \in Requests :
        /\ r # q /\ req[r] = Idle /\ req[q] = Idle
        /\ req' = [req EXCEPT ![r] = Call("accounts", None), ![q] = Call("sessions", None)]
  BY DEF Enter, Free
<1>4. /\ Call("accounts", None) \in Request /\ Call("accounts", None).op = "accounts"
      /\ Call("accounts", None).at = "sent" /\ Call("accounts", None).here
      /\ Call("accounts", None).answer = {}
      /\ Call("sessions", None) \in Request /\ Call("sessions", None).op = "sessions"
      /\ Call("sessions", None).at = "sent" /\ Call("sessions", None).here
      /\ Call("sessions", None).answer = {}
  BY CallType DEF Lists, Changes
<1>5. /\ req' \in [Requests -> Request]
      /\ req'[r] = Call("accounts", None) /\ req'[q] = Call("sessions", None)
      /\ \A p \in Requests \ {r, q} : req'[p] = req[p]
  BY <1>1, <1>3, <1>4 DEF Types
<1>6. mixed' \in BOOLEAN
  BY DEF Enter
<1>7. ~mixed' => \A p \in Requests : req[p].op \notin Lists \cup Changes
  BY DEF Enter, UnderWay
<1>8. \A p \in Requests \ {r, q} : req'[p].here => req'[p].op = "sidebar"
  BY <1>1, <1>5 DEF AwayWaitsForNone
<1>9. Types'
  BY <1>1, <1>2, <1>5, <1>6 DEF Types, NoDialog
<1>10. Shaped'
  BY <1>1, <1>4, <1>5 DEF Shaped, Changes
<1>11. VisitInv'
  <2>1. AwayWaitsForNone' /\ RevokingHasCause' /\ RevokedStaysGone'
    BY <1>2 DEF AwayWaitsForNone, RevokingHasCause, RevokedStaysGone
  <2>2. OneSync'
    BY <1>2, <1>4, <1>5, <1>8 DEF OneSync
  <2>3. SessionsFirst'
    BY <1>2, <1>4, <1>5, <1>8 DEF SessionsFirst
  <2> QED BY <2>1, <2>2, <2>3 DEF VisitInv
<1>12. AccountsInv'
  <2>1. ListAlone'
    BY <1>2, <1>4, <1>5, <1>7 DEF ListAlone, Lists, Changes
  <2>2. ChangesApart'
    BY <1>2, <1>4, <1>5, <1>7 DEF ChangesApart, Lists, Changes
  <2>3. Agree'
    BY <1>4, <1>5 DEF Agree, Lists
  <2> QED BY <2>1, <2>2, <2>3 DEF AccountsInv
<1> QED BY <1>9, <1>10, <1>11, <1>12 DEF ProfileInv

LEMMA LeaveStep ==
  ASSUME ProfileInv, Leave
  PROVE  ProfileInv'
<1>1. Types /\ Shaped
  BY DEF ProfileInv
<1>2. /\ open' = FALSE
      /\ UNCHANGED <<linked, rows, dots, accounts, dialog, syncing, sessions, revokingId>>
      /\ UNCHANGED <<mixed, revoked>>
  BY DEF Leave, server
<1> DEFINE Gone(r) ==
      [op |-> req[r].op, at |-> req[r].at, arg |-> req[r].arg, here |-> FALSE,
       answer |-> req[r].answer, before |-> IF req[r].op \in Changes THEN accounts ELSE {}]
<1>3. \A r \in Requests : Gone(r) \in Request
  BY <1>1 DEF Types, Request
<1>4. \A r \in Requests :
        /\ req'[r] \in Request
        /\ req'[r].op = req[r].op /\ req'[r].arg = req[r].arg /\ req'[r].answer = req[r].answer
        /\ req'[r].here => req'[r].op = "sidebar"
  BY <1>1, <1>3 DEF Leave, Types
<1>5. req' \in [Requests -> Request]
  BY <1>3, <1>4 DEF Leave
<1>6. Types'
  BY <1>1, <1>2, <1>5 DEF Types
<1>7. Shaped'
  BY <1>1, <1>4 DEF Shaped
<1>8. VisitInv'
  BY <1>2, <1>4
  DEF VisitInv, AwayWaitsForNone, OneSync, RevokingHasCause, SessionsFirst, RevokedStaysGone
<1>9. AccountsInv'
  BY <1>2 DEF AccountsInv, ListAlone, ChangesApart, Agree
<1> QED BY <1>6, <1>7, <1>8, <1>9 DEF ProfileInv

\* The modals move nothing but themselves.
LEMMA DialogStep ==
  ASSUME ProfileInv,
         (\E pl \in Platforms : OpenDialog(pl)) \/ CloseDialog
  PROVE  ProfileInv'
<1>1. UNCHANGED <<linked, rows, dots, open, accounts, syncing, sessions, revokingId, req,
                  mixed, revoked>>
  BY DEF OpenDialog, CloseDialog, server
<1>2. dialog' \in [what : {"none", "connect", "disconnect"}, platform : Platforms \cup {None}]
      /\ (dialog' # NoDialog => dialog'.what \in Changes /\ dialog'.platform \in Platforms)
  BY DEF OpenDialog, CloseDialog, NoDialog, Changes
<1>3. Types'
  BY <1>1, <1>2 DEF ProfileInv, Types
<1>4. Shaped' /\ VisitInv'
  BY <1>1
  DEF ProfileInv, Shaped, VisitInv, AwayWaitsForNone, OneSync, RevokingHasCause,
      SessionsFirst, RevokedStaysGone
<1>5. AccountsInv'
  BY <1>1 DEF ProfileInv, AccountsInv, ListAlone, ChangesApart, Agree, Untouched
<1> QED BY <1>3, <1>4, <1>5 DEF ProfileInv

\* A request that has nothing to do with accounts comes, or goes.
LEMMA OtherAccounts ==
  ASSUME AccountsInv, UNCHANGED <<linked, dots, open, accounts, mixed>>,
         NEW r \in Requests,
         req[r].op \notin Lists \cup Changes, req'[r].op \notin Lists \cup Changes,
         \A q \in Requests \ {r} : req'[q] = req[q]
  PROVE  AccountsInv'
<1>1. ListAlone'
  BY DEF AccountsInv, ListAlone
<1>2. ChangesApart'
  BY DEF AccountsInv, ChangesApart
<1>3. Agree'
  <2>1. \A pl \in Platforms : Untouched(pl)' => Untouched(pl)
    BY DEF Untouched
  <2>2. (\A q \in Requests : req'[q].op \notin Lists) => \A q \in Requests : req[q].op \notin Lists
    OBVIOUS
  <2> QED BY <2>1, <2>2 DEF AccountsInv, Agree
<1> QED BY <1>1, <1>2, <1>3 DEF AccountsInv

LEMMA ConfirmStep ==
  ASSUME ProfileInv, Confirm
  PROVE  ProfileInv'
<1>1. Types /\ Shaped /\ VisitInv /\ AccountsInv
  BY DEF ProfileInv
<1>2. /\ dialog.what \in Changes /\ dialog.platform \in Platforms
      /\ open /\ dialog' = NoDialog
      /\ UNCHANGED <<linked, rows, dots, open, accounts, syncing, sessions, revokingId, revoked>>
  BY <1>1 DEF Confirm, Types, server
<1>3. PICK r \in Requests :
        /\ req[r] = Idle
        /\ req' \in [Requests -> Request]
        /\ req'[r].op = dialog.what /\ req'[r].at = "sent" /\ req'[r].arg = dialog.platform
        /\ req'[r].here /\ req'[r].answer = {}
        /\ \A q \in Requests \ {r} : req'[q] = req[q]
  BY <1>1, <1>2, SendEffect DEF Confirm
<1>4. mixed' \in BOOLEAN
  BY <1>1 DEF Confirm, Types
<1>5. ~mixed' => /\ ~mixed
                 /\ \A q \in Requests :
                      /\ req[q].op \notin Lists
                      /\ req[q].op \in Changes => req[q].arg # dialog.platform
  BY DEF Confirm
<1>6. Types'
  BY <1>1, <1>2, <1>3, <1>4 DEF Types, NoDialog
<1>7. Shaped'
  BY <1>1, <1>2, <1>3 DEF Shaped, Lists, Changes
<1>8. VisitInv'
  <2>1. AwayWaitsForNone' /\ RevokedStaysGone'
    BY <1>1, <1>2 DEF VisitInv, AwayWaitsForNone, RevokedStaysGone
  <2>2. OneSync'
    BY <1>1, <1>2, <1>3, IdleType DEF VisitInv, OneSync, Changes
  <2>3. RevokingHasCause'
    BY <1>1, <1>2, <1>3, IdleType DEF VisitInv, RevokingHasCause
  <2>4. SessionsFirst'
    BY <1>1, <1>2, <1>3 DEF VisitInv, SessionsFirst, Changes
  <2> QED BY <2>1, <2>2, <2>3, <2>4 DEF VisitInv
<1>9. ListAlone'
  BY <1>2, <1>3, <1>5 DEF ListAlone, Lists, Changes
<1>10. ChangesApart'
  BY <1>1, <1>2, <1>3, <1>5 DEF AccountsInv, ChangesApart
<1>11. Agree'
  <2>1. ~mixed' => \A pl \in Platforms : Untouched(pl)' => Untouched(pl)
    BY <1>3, IdleType DEF Untouched, Changes
  <2> QED BY <1>1, <1>2, <1>5, <2>1 DEF AccountsInv, Agree
<1> QED BY <1>6, <1>7, <1>8, <1>9, <1>10, <1>11 DEF ProfileInv, AccountsInv

LEMMA SyncStep ==
  ASSUME ProfileInv, Sync
  PROVE  ProfileInv'
<1>1. Types /\ Shaped /\ VisitInv /\ AccountsInv
  BY DEF ProfileInv
<1>2. /\ open /\ ~syncing /\ syncing' = TRUE
      /\ UNCHANGED <<linked, rows, dots, open, accounts, dialog, sessions, revokingId, mixed, revoked>>
  BY DEF Sync, server
<1>3. PICK r \in Requests :
        /\ req[r] = Idle
        /\ req' \in [Requests -> Request]
        /\ req'[r].op = "sync" /\ req'[r].here
        /\ \A q \in Requests \ {r} : req'[q] = req[q]
  BY <1>1, SendEffect DEF Sync
<1>4. Types' /\ Shaped'
  BY <1>1, <1>2, <1>3 DEF Types, Shaped, Lists, Changes
<1>5. VisitInv'
  <2>1. AwayWaitsForNone' /\ RevokedStaysGone'
    BY <1>1, <1>2 DEF VisitInv, AwayWaitsForNone, RevokedStaysGone
  <2>2. OneSync'
    BY <1>1, <1>2, <1>3 DEF VisitInv, OneSync
  <2>3. RevokingHasCause'
    BY <1>1, <1>2, <1>3, IdleType DEF VisitInv, RevokingHasCause
  <2>4. SessionsFirst'
    BY <1>1, <1>2, <1>3 DEF VisitInv, SessionsFirst
  <2> QED BY <2>1, <2>2, <2>3, <2>4 DEF VisitInv
<1>6. AccountsInv'
  BY <1>1, <1>2, <1>3, IdleType, OtherAccounts DEF Lists, Changes
<1> QED BY <1>4, <1>5, <1>6 DEF ProfileInv

LEMMA RevokeStep ==
  ASSUME ProfileInv, (\E s \in Sessions : Revoke(s)) \/ RevokeAll
  PROVE  ProfileInv'
<1>1. Types /\ Shaped /\ VisitInv /\ AccountsInv
  BY DEF ProfileInv
<1>2. /\ open /\ sessions # {}
      /\ UNCHANGED <<linked, rows, dots, open, accounts, dialog, syncing, sessions, mixed, revoked>>
  BY DEF Revoke, RevokeAll, server, page
<1>3. PICK op \in {"revoke", "revokeAll"}, arg \in Sessions \cup {None} :
        /\ Send(op, arg)
        /\ op = "revoke" => arg \in Sessions /\ revokingId' = arg
        /\ op = "revokeAll" => revokingId' = revokingId
  BY DEF Revoke, RevokeAll, page
<1>4. PICK r \in Requests :
        /\ req[r] = Idle
        /\ req' \in [Requests -> Request]
        /\ req'[r].op = op /\ req'[r].arg = arg /\ req'[r].here
        /\ \A q \in Requests \ {r} : req'[q] = req[q]
  BY <1>1, <1>3, SendEffect
<1>5. Types' /\ Shaped'
  <2>1. Types'
    BY <1>1, <1>2, <1>3, <1>4 DEF Types
  <2>2. Shaped'
    BY <1>1, <1>3, <1>4 DEF Shaped, Lists, Changes
  <2> QED BY <2>1, <2>2
<1>6. VisitInv'
  <2>1. AwayWaitsForNone' /\ RevokedStaysGone'
    BY <1>1, <1>2 DEF VisitInv, AwayWaitsForNone, RevokedStaysGone
  <2>2. OneSync'
    BY <1>1, <1>2, <1>4, IdleType DEF VisitInv, OneSync
  <2>3. RevokingHasCause'
    BY <1>1, <1>2, <1>3, <1>4, IdleType DEF VisitInv, RevokingHasCause
  <2>4. SessionsFirst'
    BY <1>1, <1>2, <1>4 DEF VisitInv, SessionsFirst
  <2> QED BY <2>1, <2>2, <2>3, <2>4 DEF VisitInv
<1>7. AccountsInv'
  BY <1>1, <1>2, <1>4, IdleType, OtherAccounts DEF Lists, Changes
<1> QED BY <1>5, <1>6, <1>7 DEF ProfileInv

-----------------------------------------------------------------------------
(* Answers in the browser.                                                 *)

\* A request goes, and with it no claim of a page that is gone.
LEMMA DropAway ==
  ASSUME ProfileInv, NEW r \in Requests, Drop(r), UNCHANGED open
  PROVE  AwayWaitsForNone' /\ Shaped'
<1>1. AwayWaitsForNone'
  BY DropEffect DEF ProfileInv, VisitInv, AwayWaitsForNone
<1>2. Shaped'
  BY DropEffect DEF ProfileInv, Shaped, Lists, Changes
<1> QED BY <1>1, <1>2

\* The visit does not notice that a list or a change was answered.
LEMMA DropVisit ==
  ASSUME ProfileInv, NEW r \in Requests, Drop(r),
         UNCHANGED <<open, syncing, sessions, revokingId, revoked>>,
         req[r].op \notin {"sync", "revoke"}
  PROVE  VisitInv'
<1>1. /\ ~req'[r].here /\ \A q \in Requests \ {r} : req'[q] = req[q]
      /\ OneSync /\ RevokingHasCause /\ SessionsFirst /\ RevokedStaysGone
  BY DropEffect DEF ProfileInv, VisitInv
<1>2. OneSync'
  BY <1>1 DEF OneSync
<1>3. RevokingHasCause'
  BY <1>1 DEF RevokingHasCause
<1>4. SessionsFirst'
  BY <1>1 DEF SessionsFirst
<1>5. RevokedStaysGone'
  BY <1>1 DEF RevokedStaysGone
<1> QED BY <1>2, <1>3, <1>4, <1>5, DropAway DEF VisitInv

LEMMA ListStep ==
  ASSUME ProfileInv, NEW r \in Requests, ListArrives(r)
  PROVE  ProfileInv'
<1>1. Types /\ Shaped /\ AccountsInv
  BY DEF ProfileInv
<1>2. /\ req[r].op \in Lists /\ req[r].at = "ok" /\ Drop(r)
      /\ dots' = req[r].answer
      /\ accounts' = IF req[r].op = "accounts" /\ req[r].here THEN req[r].answer ELSE accounts
      /\ UNCHANGED <<linked, rows, open, dialog, syncing, sessions, revokingId, mixed, revoked>>
  BY DEF ListArrives, server
<1>3. /\ req' \in [Requests -> Request] /\ req'[r].op = "none"
      /\ \A q \in Requests \ {r} : req'[q] = req[q]
  BY <1>1, <1>2, DropEffect
<1>4. Types'
  BY <1>1, <1>2, <1>3 DEF Types, Shaped
<1>5. Shaped' /\ VisitInv'
  BY <1>2, DropAway, DropVisit DEF Lists
<1>6. AccountsInv'
  <2>1. open /\ ~mixed =>
          /\ accounts' = linked /\ dots' = linked
          /\ \A q \in Requests : req'[q].op \notin Lists \cup Changes
    BY <1>1, <1>2, <1>3 DEF AccountsInv, ListAlone, Lists, Changes
  <2> QED BY <1>2, <2>1 DEF AccountsInv, ListAlone, ChangesApart, Agree
<1> QED BY <1>4, <1>5, <1>6 DEF ProfileInv

LEMMA ChangeStep ==
  ASSUME ProfileInv, NEW r \in Requests, ChangeArrives(r)
  PROVE  ProfileInv'
<1>1. Types /\ Shaped /\ AccountsInv
  BY DEF ProfileInv
<1>2. /\ req[r].op \in Changes /\ req[r].at = "ok" /\ Drop(r)
      /\ UNCHANGED <<linked, rows, open, dialog, syncing, sessions, revokingId, revoked>>
  BY DEF ChangeArrives, server
<1>3. /\ req' \in [Requests -> Request] /\ req'[r].op = "none"
      /\ \A q \in Requests \ {r} : req'[q] = req[q]
  BY <1>1, <1>2, DropEffect
<1>4. req[r].arg \in Platforms /\ req[r].before \subseteq Platforms
  BY <1>1, <1>2 DEF Types, Shaped, Request
<1>5. Types'
  <2>1. /\ accounts' \subseteq Platforms /\ dots' \subseteq Platforms /\ mixed' \in BOOLEAN
    BY <1>1, <1>4 DEF ChangeArrives, Changed, Types
  <2> QED BY <1>1, <1>2, <1>3, <2>1 DEF Types
<1>6. Shaped' /\ VisitInv'
  BY <1>2, DropAway, DropVisit DEF Changes
<1>7. CASE ~req[r].here
  <2>1. mixed'
    BY <1>7 DEF ChangeArrives
  <2> QED BY <1>5, <1>6, <2>1 DEF ProfileInv, AccountsInv, ListAlone, ChangesApart, Agree
<1>8. CASE req[r].here
  <2>1. accounts' = Changed(r, accounts) /\ dots' = accounts' /\ mixed' = mixed
    BY <1>8 DEF ChangeArrives
  <2>2. ListAlone'
    BY <1>1, <1>2, <1>3, <2>1 DEF AccountsInv, ListAlone, Lists
  <2>3. ChangesApart'
    BY <1>1, <1>2, <1>3, <2>1 DEF AccountsInv, ChangesApart, Changes
  <2>4. Agree'
    <3>1. SUFFICES ASSUME open, ~mixed, \A q \in Requests : req'[q].op \notin Lists,
                          NEW pl \in Platforms, Untouched(pl)'
                   PROVE  pl \in accounts' <=> pl \in linked
      BY <1>2, <2>1 DEF Agree
    <3>2. CASE pl = req[r].arg
      <4>1. pl \in linked <=> req[r].op = "connect"
        BY <1>1, <1>2, <3>1, <3>2 DEF AccountsInv, ChangesApart
      <4> QED BY <1>2, <2>1, <3>2, <4>1 DEF Changed, Changes
    <3>3. CASE pl # req[r].arg
      <4>1. Untouched(pl)
        BY <1>3, <3>1, <3>3 DEF Untouched
      <4>2. \A q \in Requests : req[q].op \notin Lists
        BY <1>2, <1>3, <3>1 DEF Lists, Changes
      <4>3. pl \in accounts <=> pl \in linked
        BY <1>1, <3>1, <4>1, <4>2 DEF AccountsInv, Agree
      <4> QED BY <2>1, <3>3, <4>3 DEF Changed
    <3> QED BY <3>2, <3>3
  <2> QED BY <1>5, <1>6, <2>2, <2>3, <2>4 DEF ProfileInv, AccountsInv
<1> QED BY <1>5, <1>6, <1>7, <1>8 DEF ProfileInv

LEMMA OtherArrivesStep ==
  ASSUME ProfileInv, NEW r \in Requests,
         SyncArrives(r) \/ SessionsArrive(r) \/ RevokeArrives(r) \/ RevokeAllArrives(r)
  PROVE  ProfileInv'
<1>1. Types /\ Shaped /\ VisitInv /\ AccountsInv
  BY DEF ProfileInv
<1>2. /\ Drop(r) /\ req[r].op \notin Lists \cup Changes
      /\ UNCHANGED <<linked, rows, dots, open, accounts, dialog, mixed>>
  BY DEF SyncArrives, SessionsArrive, RevokeArrives, RevokeAllArrives, server, Lists, Changes
<1>3. /\ req' \in [Requests -> Request] /\ req'[r].op = "none" /\ ~req'[r].here
      /\ \A q \in Requests \ {r} : req'[q] = req[q]
  BY <1>1, <1>2, DropEffect
<1>4. Types'
  <2>1. /\ syncing' \in BOOLEAN /\ sessions' \subseteq Sessions /\ revoked' \subseteq Sessions
        /\ revokingId' \in Sessions \cup {None}
    BY <1>1
    DEF SyncArrives, SessionsArrive, RevokeArrives, RevokeAllArrives, Without, Types, Shaped
  <2> QED BY <1>1, <1>2, <1>3, <2>1 DEF Types
<1>5. AccountsInv'
  BY <1>1, <1>2, <1>3, OtherAccounts DEF Lists, Changes
<1>6. Shaped' /\ AwayWaitsForNone'
  BY <1>2, DropAway
<1>7. OneSync /\ RevokingHasCause /\ SessionsFirst /\ RevokedStaysGone
  BY <1>1 DEF VisitInv
<1>8. CASE SyncArrives(r)
  <2>1. UNCHANGED <<sessions, revokingId, revoked>> /\ req[r].op = "sync"
        /\ syncing' = IF req[r].here THEN FALSE ELSE syncing
    BY <1>8 DEF SyncArrives
  <2>2. OneSync'
    BY <1>2, <1>3, <1>7, <2>1 DEF OneSync
  <2>3. RevokingHasCause'
    BY <1>2, <1>3, <1>7, <2>1 DEF RevokingHasCause
  <2>4. SessionsFirst' /\ RevokedStaysGone'
    BY <1>2, <1>3, <1>7, <2>1 DEF SessionsFirst, RevokedStaysGone
  <2> QED BY <1>4, <1>5, <1>6, <2>2, <2>3, <2>4 DEF ProfileInv, VisitInv
<1>9. CASE SessionsArrive(r)
  <2>1. UNCHANGED <<syncing, revokingId, revoked>> /\ req[r].op = "sessions"
        /\ sessions' = IF req[r].here THEN req[r].answer ELSE sessions
    BY <1>9 DEF SessionsArrive
  <2>2. OneSync' /\ RevokingHasCause'
    BY <1>2, <1>3, <1>7, <2>1 DEF OneSync, RevokingHasCause
  <2>3. SessionsFirst'
    BY <1>2, <1>3, <1>7, <2>1 DEF SessionsFirst
  <2>4. RevokedStaysGone'
    BY <1>2, <1>7, <2>1 DEF SessionsFirst, RevokedStaysGone
  <2> QED BY <1>4, <1>5, <1>6, <2>2, <2>3, <2>4 DEF ProfileInv, VisitInv
<1>10. CASE RevokeArrives(r)
  <2>1. UNCHANGED syncing /\ req[r].op = "revoke"
    BY <1>10 DEF RevokeArrives
  <2>2. CASE ~req[r].here
    <3>1. UNCHANGED <<sessions, revokingId, revoked>>
      BY <1>10, <2>2 DEF RevokeArrives
    <3> QED
      BY <1>2, <1>3, <1>4, <1>5, <1>6, <1>7, <2>1, <2>2, <3>1
      DEF ProfileInv, VisitInv, OneSync, RevokingHasCause, SessionsFirst, RevokedStaysGone
  <2>3. CASE req[r].here
    <3>1. /\ revokingId' = None
          /\ \/ UNCHANGED <<sessions, revoked>>
             \/ sessions' = sessions \ {req[r].arg} /\ revoked' = revoked \cup {req[r].arg}
      BY <1>10, <2>3 DEF RevokeArrives, Without
    <3>2. OneSync' /\ RevokingHasCause'
      BY <1>2, <1>3, <1>7, <2>1, <3>1 DEF OneSync, RevokingHasCause
    <3>3. SessionsFirst'
      BY <1>2, <1>3, <1>7, <2>1, <2>3 DEF SessionsFirst
    <3>4. RevokedStaysGone'
      BY <1>2, <1>7, <3>1 DEF RevokedStaysGone
    <3> QED BY <1>4, <1>5, <1>6, <3>2, <3>3, <3>4 DEF ProfileInv, VisitInv
  <2> QED BY <2>2, <2>3
<1>11. CASE RevokeAllArrives(r)
  <2>1. /\ UNCHANGED <<syncing, revokingId>> /\ req[r].op = "revokeAll"
        /\ IF req[r].here THEN sessions' = {} /\ revoked' = Sessions
           ELSE UNCHANGED <<sessions, revoked>>
    BY <1>11 DEF RevokeAllArrives
  <2>2. OneSync' /\ RevokingHasCause'
    BY <1>2, <1>3, <1>7, <2>1 DEF OneSync, RevokingHasCause
  <2>3. SessionsFirst'
    BY <1>2, <1>3, <1>7, <2>1 DEF SessionsFirst
  <2>4. RevokedStaysGone'
    BY <1>2, <1>7, <2>1 DEF RevokedStaysGone
  <2> QED BY <1>4, <1>5, <1>6, <2>2, <2>3, <2>4 DEF ProfileInv, VisitInv
<1> QED BY <1>8, <1>9, <1>10, <1>11

LEMMA NothingStep ==
  ASSUME ProfileInv, NEW r \in Requests, NothingArrives(r)
  PROVE  ProfileInv'
<1>1. Types /\ Shaped /\ VisitInv /\ AccountsInv
  BY DEF ProfileInv
<1>2. /\ Drop(r) /\ mixed' = (mixed \/ req[r].op \in Lists \cup Changes)
      /\ req[r].op \notin {"sync", "revoke"}
      /\ UNCHANGED <<linked, rows, dots, open, accounts, dialog, syncing, sessions,
                     revokingId, revoked>>
  BY DEF NothingArrives, server, page, Lists, Changes
<1>3. /\ req' \in [Requests -> Request] /\ req'[r].op = "none"
      /\ \A q \in Requests \ {r} : req'[q] = req[q]
  BY <1>1, <1>2, DropEffect
<1>4. Types'
  BY <1>1, <1>2, <1>3 DEF Types
<1>5. Shaped' /\ VisitInv'
  BY <1>2, DropAway, DropVisit
<1>6. CASE req[r].op \in Lists \cup Changes
  BY <1>2, <1>4, <1>5, <1>6 DEF ProfileInv, AccountsInv, ListAlone, ChangesApart, Agree
<1>7. CASE req[r].op \notin Lists \cup Changes
  <2>1. AccountsInv'
    BY <1>1, <1>2, <1>3, <1>7, OtherAccounts DEF Lists, Changes, Types
  <2> QED BY <1>4, <1>5, <2>1 DEF ProfileInv
<1> QED BY <1>6, <1>7

-----------------------------------------------------------------------------
LEMMA InitHolds == Init => ProfileInv
<1> SUFFICES ASSUME Init PROVE ProfileInv
  OBVIOUS
<1>1. /\ Call("sidebar", None) \in Request /\ Call("sidebar", None).op = "sidebar"
      /\ Call("sidebar", None).answer = {}
  BY CallType DEF Lists
<1>2. /\ req \in [Requests -> Request]
      /\ \A r \in Requests : req[r] \in {Call("sidebar", None), Idle}
  BY <1>1, IdleType DEF Init
<1>3. Types
  BY <1>2 DEF Init, Types, NoDialog
<1>4. Shaped /\ AwayWaitsForNone
  BY <1>1, <1>2, IdleType DEF Shaped, AwayWaitsForNone, Lists, Changes
<1>5. OneSync /\ RevokingHasCause /\ SessionsFirst /\ RevokedStaysGone /\ AccountsInv
  BY DEF Init, OneSync, RevokingHasCause, SessionsFirst, RevokedStaysGone, AccountsInv,
     ListAlone, ChangesApart, Agree
<1> QED BY <1>3, <1>4, <1>5 DEF ProfileInv, VisitInv

LEMMA NextHolds == ProfileInv /\ [Next]_vars => ProfileInv'
<1> SUFFICES ASSUME ProfileInv, [Next]_vars PROVE ProfileInv'
  OBVIOUS
<1>1. CASE UNCHANGED vars
  <2>1. UNCHANGED <<linked, rows, dots, open, accounts, dialog, syncing, sessions, revokingId,
                    req, mixed, revoked>>
    BY <1>1 DEF vars, server, page
  <2>2. Types' /\ Shaped'
    BY <2>1 DEF ProfileInv, Types, Shaped
  <2>3. VisitInv'
    BY <2>1
    DEF ProfileInv, VisitInv, AwayWaitsForNone, OneSync, RevokingHasCause, SessionsFirst,
        RevokedStaysGone
  <2>4. AccountsInv'
    BY <2>1 DEF ProfileInv, AccountsInv, ListAlone, ChangesApart, Agree, Untouched
  <2> QED BY <2>2, <2>3, <2>4 DEF ProfileInv
<1>2. ASSUME NEW r \in Requests, Deliver(r)
      PROVE  ProfileInv'
  BY <1>2, ListStep, ChangeStep, OtherArrivesStep, NothingStep DEF Deliver
<1> QED
  BY <1>1, <1>2, EnterStep, LeaveStep, DialogStep, ConfirmStep, SyncStep, RevokeStep,
     ServeStep DEF Next

\* The invariant of the profile page, for any number of platforms, sessions and
\* requests that overlap.
THEOREM ProfileHolds == Spec => []ProfileInv
BY InitHolds, NextHolds, PTL DEF Spec

\* Types; syncing says whether one sync of this visit is under way, and revokingId
\* names a session whose revocation is.
THEOREM TypeCorrect == Spec => []TypeOK
<1>1. ProfileInv => TypeOK
  <2> SUFFICES ASSUME ProfileInv PROVE TypeOK
    OBVIOUS
  <2>1. Types /\ OneSync /\ RevokingHasCause
    BY DEF ProfileInv, VisitInv
  <2>2. open /\ revokingId # None => \E r \in UnderWay({"revoke"}) : req[r].arg = revokingId
    BY <2>1 DEF RevokingHasCause, UnderWay
  <2>3. open => /\ syncing = (OwnSyncs # {})
                /\ \A r, q \in OwnSyncs : r = q
    <3> SUFFICES ASSUME open
                 PROVE  /\ syncing = (OwnSyncs # {})
                        /\ \A r, q \in OwnSyncs : r = q
      OBVIOUS
    <3>1. \A r : r \in OwnSyncs <=> r \in Requests /\ req[r].here /\ req[r].op = "sync"
      BY DEF OwnSyncs, UnderWay
    <3>2. syncing <=> OwnSyncs # {}
      BY <2>1, <3>1 DEF OneSync
    <3>3. \A r, q \in OwnSyncs : r = q
      BY <2>1, <3>1 DEF OneSync
    <3>4. syncing \in BOOLEAN
      BY <2>1 DEF Types
    <3> QED BY <3>2, <3>3, <3>4
  <2> QED BY <2>1, <2>2, <2>3 DEF Types, TypeOK
<1> QED BY <1>1, ProfileHolds, PTL

\* handleConnect, handleDisconnect and the dots of Sidebar: changes that overlap do
\* not undo each other, and page, sidebar and server agree when they are answered.
THEOREM DotsStayCurrent == Spec => []DotsAreCurrent
<1>1. ProfileInv => DotsAreCurrent
  <2> SUFFICES ASSUME ProfileInv, open, ~mixed, UnderWay(Lists \cup Changes) = {}
               PROVE  accounts = linked /\ dots = linked
    BY DEF DotsAreCurrent
  <2>1. \A r \in Requests : req[r].op \notin Lists \cup Changes
    BY DEF UnderWay
  <2>2. dots = accounts /\ \A pl \in Platforms : pl \in accounts <=> pl \in linked
    BY <2>1 DEF ProfileInv, AccountsInv, Agree, Untouched
  <2>3. accounts \subseteq Platforms /\ linked \subseteq Platforms
    BY DEF ProfileInv, Types
  <2>4. accounts = linked
    BY <2>2, <2>3
  <2> QED BY <2>2, <2>4
<1> QED BY <1>1, ProfileHolds, PTL

\* handleRevokeSession and handleRevokeAll: what was revoked in this visit is not
\* listed again in it.
THEOREM RevokedAreGone == Spec => []RevokedStaysGone
<1>1. ProfileInv => RevokedStaysGone
  BY DEF ProfileInv, VisitInv
<1> QED BY <1>1, ProfileHolds, PTL
=============================================================================
