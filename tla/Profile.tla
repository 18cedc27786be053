------------------------------ MODULE Profile -------------------------------
(***************************************************************************)
(* The profile page, pages/Profile.tsx, next to the sidebar of the shell:  *)
(* connected platforms, sync, and active sessions.                         *)
(*                                                                         *)
(* The list of accounts exists twice: in the page, and in statsStore for   *)
(* the dots of the sidebar, which outlive the page.  Both are changed by   *)
(* the answers of requests that overlap, and that find the page gone or    *)
(* opened again.  What the routes do statement by statement is in          *)
(* Platforms and Sessions; here each is one step.  The texts of messages,  *)
(* the identity and password forms and the switch that nothing reads are   *)
(* left out: the answers of the forms change nothing that is modelled.     *)
(***************************************************************************)
EXTENDS Integers

CONSTANTS
  Platforms,
  Sessions,     \* the refresh tokens the user may have
  MaxRequests,  \* bound on the requests of the browser under way
  None

ASSUME ProfileAssumption ==
  MaxRequests \in Nat \ {0} /\ None \notin Platforms \cup Sessions

Requests == 1..MaxRequests

VARIABLES
  linked,      \* the server: platforms with an account
  rows,        \* the server: sessions with a refresh token
  dots,        \* statsStore.accounts
  open,        \* the page is mounted
  accounts,    \* the page's own list
  dialog,      \* connecting and disconnecting: the modal that is open
  syncing,
  sessions,    \* the page's list of sessions
  revokingId,
  req,
  mixed,       \* history: a list and a change, or two changes of one platform,
               \* met in this visit, or a list or an answer was lost
  revoked      \* history: sessions this visit was told are revoked

server == <<linked, rows>>
page == <<open, accounts, dialog, syncing, sessions, revokingId>>
vars == <<server, dots, page, req, mixed, revoked>>

-----------------------------------------------------------------------------
(* Requests.  before is the list of accounts that a page which is gone had *)
(* when it went.                                                           *)

Idle == [op |-> "none", at |-> "none", arg |-> None, here |-> FALSE,
         answer |-> {}, before |-> {}]
Call(op, arg) == [op |-> op, at |-> "sent", arg |-> arg, here |-> TRUE,
                  answer |-> {}, before |-> {}]

Free(r) ==
  /\ req[r] = Idle
  /\ \A q \in Requests : req[q] = Idle => r <= q

Send(op, arg) ==
  \E r \in Requests : Free(r) /\ req' = [req EXCEPT ![r] = Call(op, arg)]

Drop(r) == req' = [req EXCEPT ![r] = Idle]

UnderWay(ops) == {r \in Requests : req[r].op \in ops}
OwnSyncs == {r \in UnderWay({"sync"}) : req[r].here}
Lists == {"sidebar", "accounts"}
Changes == {"connect", "disconnect"}

-----------------------------------------------------------------------------
(* The user.                                                               *)

NoDialog == [what |-> "none", platform |-> None]

\* Two requests at once, for the accounts and for the sessions.
Enter ==
  /\ ~open
  /\ open' = TRUE
  /\ accounts' = {}
  /\ dialog' = NoDialog
  /\ syncing' = FALSE
  /\ sessions' = {}
  /\ revokingId' = None
  /\ \E r, q \in Requests :
       /\ r # q
       /\ Free(r)
       /\ req[q] = Idle
       /\ \A p \in Requests \ {r} : req[p] = Idle => q <= p
       /\ req' = [req EXCEPT ![r] = Call("accounts", None), ![q] = Call("sessions", None)]
  /\ mixed' = (UnderWay(Lists \cup Changes) # {})
  /\ revoked' = {}
  /\ UNCHANGED <<server, dots>>

Leave ==
  /\ open
  /\ open' = FALSE
  /\ req' = [r \in Requests |->
               IF ~req[r].here \/ req[r].op = "sidebar" THEN req[r]
               ELSE [op |-> req[r].op, at |-> req[r].at, arg |-> req[r].arg,
                     here |-> FALSE, answer |-> req[r].answer,
                     before |-> IF req[r].op \in Changes THEN accounts ELSE {}]]
  /\ UNCHANGED <<server, dots, accounts, dialog, syncing, sessions, revokingId>>
  /\ UNCHANGED <<mixed, revoked>>

\* Connect is offered for a platform that is not listed, Disconnect for one that
\* is; a modal covers the page until it is confirmed or closed.
OpenDialog(pl) ==
  /\ open
  /\ dialog = NoDialog
  /\ dialog' = [what |-> IF pl \in accounts THEN "disconnect" ELSE "connect",
                platform |-> pl]
  /\ UNCHANGED <<server, dots, open, accounts, syncing, sessions, revokingId>>
  /\ UNCHANGED <<req, mixed, revoked>>

CloseDialog ==
  /\ open
  /\ dialog # NoDialog
  /\ dialog' = NoDialog
  /\ UNCHANGED <<server, dots, open, accounts, syncing, sessions, revokingId>>
  /\ UNCHANGED <<req, mixed, revoked>>

\* The modal goes before the answer comes, so that the next can be opened.
Confirm ==
  /\ open
  /\ dialog # NoDialog
  /\ dialog' = NoDialog
  /\ Send(dialog.what, dialog.platform)
  /\ mixed' = \/ mixed
              \/ \E r \in Requests :
                   \/ req[r].op \in Lists
                   \/ req[r].op \in Changes /\ req[r].arg = dialog.platform
  /\ UNCHANGED <<server, dots, open, accounts, syncing, sessions, revokingId, revoked>>

\* Mutation: the buttons stay enabled.
SyncAgain ==
  /\ open
  /\ dialog = NoDialog
  /\ syncing' = TRUE
  /\ Send("sync", None)
  /\ UNCHANGED <<server, dots, open, accounts, dialog, sessions, revokingId>>
  /\ UNCHANGED <<mixed, revoked>>

Sync ==
  /\ open
  /\ dialog = NoDialog
  /\ ~syncing
  /\ syncing' = TRUE
  /\ Send("sync", None)
  /\ UNCHANGED <<server, dots, open, accounts, dialog, sessions, revokingId>>
  /\ UNCHANGED <<mixed, revoked>>

\* Only the button of the session that was clicked last is disabled.
Revoke(s) ==
  /\ open
  /\ dialog = NoDialog
  /\ s \in sessions
  /\ s # revokingId
  /\ revokingId' = s
  /\ Send("revoke", s)
  /\ UNCHANGED <<server, dots, open, accounts, dialog, syncing, sessions>>
  /\ UNCHANGED <<mixed, revoked>>

RevokeAll ==
  /\ open
  /\ dialog = NoDialog
  /\ sessions # {}
  /\ Send("revokeAll", None)
  /\ UNCHANGED <<server, dots, page, mixed, revoked>>

-----------------------------------------------------------------------------
(* The server.                                                             *)

Answer(r, at, answer) ==
  /\ req' = [req EXCEPT ![r] =
               [op |-> req[r].op, at |-> at, arg |-> req[r].arg, here |-> req[r].here,
                answer |-> answer, before |-> req[r].before]]
  /\ UNCHANGED <<dots, page, mixed, revoked>>

ServeList(r) ==
  /\ req[r].at = "sent"
  /\ \/ req[r].op \in Lists /\ Answer(r, "ok", linked)
     \/ req[r].op = "sessions" /\ Answer(r, "ok", rows)
  /\ UNCHANGED server

\* A platform that is connected already is a conflict.
ServeConnect(r) ==
  /\ req[r].at = "sent"
  /\ req[r].op = "connect"
  /\ req[r].arg \notin linked
  /\ linked' = linked \cup {req[r].arg}
  /\ Answer(r, "ok", {})
  /\ UNCHANGED rows

ServeDisconnect(r) ==
  /\ req[r].at = "sent"
  /\ req[r].op = "disconnect"
  /\ req[r].arg \in linked
  /\ linked' = linked \ {req[r].arg}
  /\ Answer(r, "ok", {})
  /\ UNCHANGED rows

ServeSync(r) ==
  /\ req[r].at = "sent"
  /\ req[r].op = "sync"
  /\ Answer(r, "ok", {})
  /\ UNCHANGED server

\* A session that has no row any more is not found.
ServeRevoke(r) ==
  /\ req[r].at = "sent"
  /\ req[r].op = "revoke"
  /\ req[r].arg \in rows
  /\ rows' = rows \ {req[r].arg}
  /\ Answer(r, "ok", {})
  /\ UNCHANGED linked

ServeRevokeAll(r) ==
  /\ req[r].at = "sent"
  /\ req[r].op = "revokeAll"
  /\ rows' = {}
  /\ Answer(r, "ok", {})
  /\ UNCHANGED linked

\* Refused, or lost: on the way, or with the answer of what was carried out.
Fail(r) ==
  /\ req[r].at \in {"sent", "ok"}
  /\ Answer(r, "failed", {})
  /\ UNCHANGED server

-----------------------------------------------------------------------------
(* Answers in the browser.                                                 *)

\* A list of a page that is gone still goes to the sidebar.
ListArrives(r) ==
  /\ req[r].op \in Lists
  /\ req[r].at = "ok"
  /\ dots' = req[r].answer
  /\ accounts' = IF req[r].op = "accounts" /\ req[r].here THEN req[r].answer ELSE accounts
  /\ Drop(r)
  /\ UNCHANGED <<server, open, dialog, syncing, sessions, revokingId, mixed, revoked>>

\* Mutation: a new account takes the place of the list.
ChangedAlone(r, list) ==
  IF req[r].op = "connect" THEN {req[r].arg} ELSE list \ {req[r].arg}

Changed(r, list) ==
  IF req[r].op = "connect" THEN list \cup {req[r].arg} ELSE list \ {req[r].arg}

\* The store is changed from within the updater of the page's state.  Whether
\* React runs the updater of a page that is gone is up to it, and such an updater
\* finds the list as the page left it.
ChangeArrives(r) ==
  /\ req[r].op \in Changes
  /\ req[r].at = "ok"
  /\ IF req[r].here
     THEN /\ accounts' = Changed(r, accounts)
          /\ dots' = accounts'
          /\ UNCHANGED mixed
     ELSE /\ dots' \in {dots, Changed(r, req[r].before)}
          /\ mixed' = TRUE
          /\ UNCHANGED accounts
  /\ Drop(r)
  /\ UNCHANGED <<server, open, dialog, syncing, sessions, revokingId, revoked>>

SyncArrives(r) ==
  /\ req[r].op = "sync"
  /\ req[r].at \in {"ok", "failed"}
  /\ syncing' = IF req[r].here THEN FALSE ELSE syncing
  /\ Drop(r)
  /\ UNCHANGED <<server, dots, open, accounts, dialog, sessions, revokingId>>
  /\ UNCHANGED <<mixed, revoked>>

SessionsArrive(r) ==
  /\ req[r].op = "sessions"
  /\ req[r].at = "ok"
  /\ sessions' = IF req[r].here THEN req[r].answer ELSE sessions
  /\ Drop(r)
  /\ UNCHANGED <<server, dots, open, accounts, dialog, syncing, revokingId>>
  /\ UNCHANGED <<mixed, revoked>>

\* Mutation: the page leaves the session listed.
WithoutNone(s) == sessions

Without(s) == sessions \ {s}

\* Mutation: revokingId is reset only when the session is gone.
RevokeArrivesStuck(r) ==
  /\ req[r].op = "revoke"
  /\ req[r].at \in {"ok", "failed"}
  /\ IF ~req[r].here \/ req[r].at = "failed" THEN UNCHANGED <<sessions, revokingId, revoked>>
     ELSE /\ revokingId' = None
          /\ sessions' = Without(req[r].arg)
          /\ revoked' = revoked \cup {req[r].arg}
  /\ Drop(r)
  /\ UNCHANGED <<server, dots, open, accounts, dialog, syncing, mixed>>

\* revokingId is reset, whichever session it names by now.
RevokeArrives(r) ==
  /\ req[r].op = "revoke"
  /\ req[r].at \in {"ok", "failed"}
  /\ IF ~req[r].here THEN UNCHANGED <<sessions, revokingId, revoked>>
     ELSE /\ revokingId' = None
          /\ IF req[r].at = "failed" THEN UNCHANGED <<sessions, revoked>>
             ELSE sessions' = Without(req[r].arg) /\ revoked' = revoked \cup {req[r].arg}
  /\ Drop(r)
  /\ UNCHANGED <<server, dots, open, accounts, dialog, syncing, mixed>>

RevokeAllArrives(r) ==
  /\ req[r].op = "revokeAll"
  /\ req[r].at = "ok"
  /\ IF ~req[r].here THEN UNCHANGED <<sessions, revoked>>
     ELSE sessions' = {} /\ revoked' = Sessions
  /\ Drop(r)
  /\ UNCHANGED <<server, dots, open, accounts, dialog, syncing, revokingId, mixed>>

\* A message, or not even that.
NothingArrives(r) ==
  /\ req[r].op \in Lists \cup Changes \cup {"sessions", "revokeAll"}
  /\ req[r].at = "failed"
  /\ mixed' = (mixed \/ req[r].op \in Lists \cup Changes)
  /\ Drop(r)
  /\ UNCHANGED <<server, dots, page, revoked>>

-----------------------------------------------------------------------------
\* The shell has just been mounted, and with it the sidebar.
Init ==
  /\ linked \in SUBSET Platforms
  /\ rows = Sessions
  /\ dots = {}
  /\ open = FALSE
  /\ accounts = {}
  /\ dialog = NoDialog
  /\ syncing = FALSE
  /\ sessions = {}
  /\ revokingId = None
  /\ req = [r \in Requests |-> IF r = 1 THEN Call("sidebar", None) ELSE Idle]
  /\ mixed = FALSE
  /\ revoked = {}

Serve(r) ==
  \/ ServeList(r) \/ ServeConnect(r) \/ ServeDisconnect(r) \/ ServeSync(r)
  \/ ServeRevoke(r) \/ ServeRevokeAll(r) \/ Fail(r)

Deliver(r) ==
  \/ ListArrives(r) \/ ChangeArrives(r) \/ SyncArrives(r) \/ SessionsArrive(r)
  \/ RevokeArrives(r) \/ RevokeAllArrives(r) \/ NothingArrives(r)

Next ==
  \/ Enter \/ Leave
  \/ \E pl \in Platforms : OpenDialog(pl)
  \/ CloseDialog \/ Confirm
  \/ Sync
  \/ \E s \in Sessions : Revoke(s)
  \/ RevokeAll
  \/ \E r \in Requests : Serve(r) \/ Deliver(r)

Spec == Init /\ [][Next]_vars

-----------------------------------------------------------------------------
Request ==
  [op : Lists \cup Changes \cup {"none", "sync", "sessions", "revoke", "revokeAll"},
   at : {"none", "sent", "ok", "failed"},
   arg : Platforms \cup Sessions \cup {None}, here : BOOLEAN,
   answer : (SUBSET Platforms) \cup (SUBSET Sessions), before : SUBSET Platforms]

\* Types; a Revoke button is disabled only while its request is under way, and the
\* buttons say that a sync is running exactly while one that this visit started is,
\* with never a second next to it.
TypeOK ==
  /\ linked \subseteq Platforms
  /\ rows \subseteq Sessions
  /\ dots \subseteq Platforms
  /\ accounts \subseteq Platforms
  /\ dialog \in [what : {"none", "connect", "disconnect"}, platform : Platforms \cup {None}]
  /\ sessions \subseteq Sessions
  /\ revokingId \in Sessions \cup {None}
  /\ open /\ revokingId # None => \E r \in UnderWay({"revoke"}) : req[r].arg = revokingId
  /\ open => /\ syncing = (OwnSyncs # {})
             /\ \A r, q \in OwnSyncs : r = q
  /\ open \in BOOLEAN /\ syncing \in BOOLEAN /\ mixed \in BOOLEAN
  /\ req \in [Requests -> Request]
  /\ revoked \subseteq Sessions

\* When the requests of a visit have been answered, the page and the dots of the
\* sidebar both show the accounts that the server has: changes of different
\* platforms may overlap, and neither undoes what the other did.  Excepted are
\* visits that begin while a list or a change is under way, and those in which a
\* list overlaps a change, two changes of one platform overlap, or an answer is lost.
DotsAreCurrent ==
  open /\ ~mixed /\ UnderWay(Lists \cup Changes) = {} =>
    accounts = linked /\ dots = linked

\* A session that the user was told is revoked is not listed as active again in
\* this visit, however the revocations overlap.
RevokedStaysGone == open => sessions \cap revoked = {}
=============================================================================
