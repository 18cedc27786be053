------------------------------- MODULE Shell --------------------------------
(***************************************************************************)
(* Who is signed in, as the browser sees it: the routes of App.tsx, the    *)
(* session probe of AppShell and of Landing, the forms of Login and        *)
(* Register, Sign out and Delete account, and store/authStore.ts.          *)
(*                                                                         *)
(* The cookies of one browser hold a session; the store holds the user the *)
(* page shows.  A probe (GET /profile) is sent when a page is mounted and  *)
(* its answer may arrive on another page, after another sign-in.  One tab; *)
(* what the interceptor of api/client.ts does to several requests at once  *)
(* is in ApiClient, here it repeats the one request with the cookies that  *)
(* the browser has by then.                                                *)
(***************************************************************************)
EXTENDS Integers

CONSTANTS
  Users,
  MaxRequests,  \* bound on the requests of the browser under way
  None

ASSUME ShellAssumption == MaxRequests \in Nat \ {0} /\ None \notin Users

Requests == 1..MaxRequests

\* The four pages of the AppShell route count as one: moving between them does
\* not mount the shell anew.
Public == {"/", "/login", "/register"}
Pages == Public \cup {"app"}

VARIABLES
  account,     \* of each user, on the server
  jar,         \* whose session the cookies hold
  lapsed,      \* that session was revoked or has run out on the server
  user,        \* authStore.user
  loading,     \* authStore.loading
  pathname,
  busy,        \* the page's own flag: checking of Landing, loading of a form
  req,
  crossed      \* history: the session changed while a probe was under way

server == <<account, lapsed>>
store == <<user, loading>>
vars == <<server, jar, store, pathname, busy, req, crossed>>

-----------------------------------------------------------------------------
(* Requests.                                                               *)

Probes == {"landing", "shell"}

Idle == [op |-> "none", at |-> "none", who |-> None, here |-> FALSE]

\* A request of the page that is shown, with the cookies as they are.
Call(op, who) == [op |-> op, at |-> "sent", who |-> who, here |-> TRUE]

Free(r) ==
  /\ req[r] = Idle
  /\ \A q \in Requests : req[q] = Idle => r <= q

Become(r, request) == req' = [req EXCEPT ![r] = request]

UnderWay(ops) == {r \in Requests : req[r].op \in ops}

\* The answer of a page that is gone finds the store, but not the page's flag.
Left(x) == [op |-> x.op, at |-> x.at, who |-> x.who, here |-> FALSE]
Abandoned == [r \in Requests |-> Left(req[r])]

\* Mutation: the flag is reset only by success, which leaves the page.
BusyAfterNever(r) == busy

BusyAfter(r) == IF req[r].here THEN FALSE ELSE busy

-----------------------------------------------------------------------------
(* Pages.  What a page does when it is mounted.                            *)

\* Landing renders at once for a user it knows, and asks otherwise.
MountLanding(after) ==
  /\ busy' = (user = None)
  /\ IF user # None THEN req' = after
     ELSE \E r \in Requests :
            Free(r) /\ req' = [after EXCEPT ![r] = Call("landing", jar)]

\* AppShell asks in any case, whatever the store holds.
MountShell(after) ==
  /\ busy' = FALSE
  /\ \E r \in Requests : Free(r) /\ req' = [after EXCEPT ![r] = Call("shell", jar)]

\* By a link, Back and Forward.  Every other path leads to the landing page.
Go(p) ==
  /\ p # pathname
  /\ pathname' = p
  /\ \/ p = "/" /\ MountLanding(Abandoned)
     \/ p = "app" /\ MountShell(Abandoned)
     \/ p \in {"/login", "/register"} /\ busy' = FALSE /\ req' = Abandoned
  /\ UNCHANGED <<server, jar, store, crossed>>

\* What a page asks when the document is new.
Probe(p) ==
  IF p = "/" THEN Call("landing", jar)
  ELSE IF p = "app" THEN Call("shell", jar) ELSE Idle

\* A document of its own: the script starts again, and no answer finds it.
Document(p) ==
  /\ pathname' = p
  /\ user' = None
  /\ loading' = TRUE
  /\ busy' = (p = "/")
  /\ req' = [r \in Requests |-> IF r = 1 THEN Probe(p) ELSE Idle]
  /\ crossed' = FALSE

Reload(p) ==
  /\ Document(p)
  /\ UNCHANGED <<server, jar>>

\* navigate() out of a handler, which ran in the page it leaves or elsewhere.
Navigate(p, after) ==
  /\ pathname' = p
  /\ IF p = "app" /\ pathname # "app"
     THEN \E r \in Requests :
            /\ after[r] = Idle
            /\ req' = [q \in Requests |->
                         IF q = r THEN Call("shell", jar') ELSE Left(after[q])]
     ELSE req' = IF p = pathname THEN after ELSE [q \in Requests |-> Left(after[q])]
  /\ busy' = (p = pathname /\ busy)

-----------------------------------------------------------------------------
(* The user.                                                               *)

\* The page shows its content, and not a spinner or nothing.
Rendered ==
  /\ pathname = "/" => ~busy \/ user # None
  /\ pathname = "app" => ~loading /\ user # None

\* The form refuses by itself what the server would refuse for its form.
Submit(who) ==
  /\ pathname \in {"/login", "/register"}
  /\ ~busy
  /\ busy' = TRUE
  /\ \E r \in Requests :
       /\ Free(r)
       /\ Become(r, Call(IF pathname = "/login" THEN "login" ELSE "register", who))
  /\ UNCHANGED <<server, jar, store, pathname, crossed>>

\* Sign out of the sidebar, and Delete account of the profile page.
Press(op) ==
  /\ pathname = "app"
  /\ Rendered
  /\ \E r \in Requests : Free(r) /\ Become(r, Call(op, jar))
  /\ UNCHANGED <<server, jar, store, pathname, busy, crossed>>

-----------------------------------------------------------------------------
(* The server.                                                             *)

\* The session ends without this tab: it runs out, or is revoked.
Lapse ==
  /\ ~lapsed
  /\ jar # None
  /\ lapsed' = TRUE
  /\ UNCHANGED <<account, jar, store, pathname, busy, req, crossed>>

Answer(r, at, who) ==
  /\ Become(r, [op |-> req[r].op, at |-> at, who |-> who, here |-> req[r].here])
  /\ UNCHANGED <<jar, lapsed, store, pathname, busy, crossed>>

Refreshable == jar # None /\ account[jar] = "open" /\ ~lapsed

\* For whom an authorized route runs: the access token is good by itself, or it
\* has expired and the call is repeated with the cookies as they are by then.
Session(r) == ({req[r].who} \ {None}) \cup (IF Refreshable THEN {jar} ELSE {})

ServeProfile(r) ==
  /\ req[r].op \in Probes
  /\ req[r].at = "sent"
  /\ \E who \in Session(r) :
       Answer(r, IF account[who] = "open" THEN "ok" ELSE "failed", who)
  /\ UNCHANGED account

\* 401, and the refresh fails.
Refuse(r) ==
  /\ req[r].op \in Probes \cup {"delete"}
  /\ req[r].at = "sent"
  /\ ~Refreshable
  /\ Answer(r, "refused", None)
  /\ UNCHANGED account

\* The account goes; the answer leaves the cookies where they are.
ServeDelete(r) ==
  /\ req[r].op = "delete"
  /\ req[r].at = "sent"
  /\ \E who \in Session(r) :
       /\ account[who] = "open"
       /\ account' = [account EXCEPT ![who] = "deleted"]
       /\ Answer(r, "ok", who)

ServeLogin(r) ==
  /\ req[r].op = "login"
  /\ req[r].at = "sent"
  /\ account[req[r].who] = "open"
  /\ Answer(r, "ok", req[r].who)
  /\ UNCHANGED account

ServeRegister(r) ==
  /\ req[r].op = "register"
  /\ req[r].at = "sent"
  /\ account[req[r].who] = "free"
  /\ account' = [account EXCEPT ![req[r].who] = "open"]
  /\ Answer(r, "ok", req[r].who)

ServeLogout(r) ==
  /\ req[r].op = "logout"
  /\ req[r].at = "sent"
  /\ Answer(r, "ok", None)
  /\ UNCHANGED account

\* No connection, 429, 500, a wrong password, a name that is taken.
Fail(r) ==
  /\ req[r].at = "sent"
  /\ Answer(r, "failed", None)
  /\ UNCHANGED account

-----------------------------------------------------------------------------
(* Answers in the browser.                                                 *)

Drop(r) == [req EXCEPT ![r] = Idle]

\* A failed refresh replaces the document, if the page is one that needs a login.
Yanked(r) == req[r].at = "refused" /\ pathname \notin Public

Yank(r) ==
  /\ Yanked(r)
  /\ Document("/login")
  /\ UNCHANGED <<server, jar>>

LandingArrives(r) ==
  /\ req[r].op = "landing"
  /\ req[r].at # "sent"
  /\ ~Yanked(r)
  /\ user' = IF req[r].at = "ok" THEN req[r].who ELSE user
  /\ busy' = BusyAfter(r)
  /\ req' = Drop(r)
  /\ UNCHANGED <<server, jar, loading, pathname, crossed>>

ShellArrives(r) ==
  /\ req[r].op = "shell"
  /\ req[r].at = "ok"
  /\ user' = req[r].who
  /\ loading' = FALSE
  /\ req' = Drop(r)
  /\ UNCHANGED <<server, jar, pathname, busy, crossed>>

\* Mutation: the failure is ignored, as Landing does.
ShellFailsStay(r) ==
  /\ req[r].op = "shell"
  /\ req[r].at \in {"failed", "refused"}
  /\ ~Yanked(r)
  /\ req' = Drop(r)
  /\ UNCHANGED <<server, jar, store, pathname, busy, crossed>>

\* Whatever the failure: to the login page, from wherever the visitor is now.
ShellFails(r) ==
  /\ req[r].op = "shell"
  /\ req[r].at \in {"failed", "refused"}
  /\ ~Yanked(r)
  /\ user' = None
  /\ loading' = FALSE
  /\ Navigate("/login", Drop(r))
  /\ UNCHANGED <<server, jar, crossed>>

\* Mutation: the form leaves it to the probe of the shell to say who it is.
SignedInUnset(r) ==
  /\ req[r].op \in {"login", "register"}
  /\ req[r].at = "ok"
  /\ jar' = req[r].who
  /\ lapsed' = FALSE
  /\ Navigate("app", Drop(r))
  /\ crossed' = (UnderWay(Probes) # {})
  /\ UNCHANGED <<account, user, loading>>

SignedIn(r) ==
  /\ req[r].op \in {"login", "register"}
  /\ req[r].at = "ok"
  /\ jar' = req[r].who
  /\ lapsed' = FALSE
  /\ user' = req[r].who
  /\ Navigate("app", Drop(r))
  /\ crossed' = (UnderWay(Probes) # {})
  /\ UNCHANGED <<account, loading>>

\* Mutation: the page stays where it is.
SignedOutStay(r) ==
  /\ req[r].op = "logout"
  /\ req[r].at = "ok"
  /\ jar' = None
  /\ lapsed' = FALSE
  /\ user' = None
  /\ req' = Drop(r)
  /\ crossed' = (UnderWay(Probes) # {})
  /\ UNCHANGED <<account, loading, pathname, busy>>

SignedOut(r) ==
  /\ req[r].op = "logout"
  /\ req[r].at = "ok"
  /\ jar' = None
  /\ lapsed' = FALSE
  /\ user' = None
  /\ Navigate("/login", Drop(r))
  /\ crossed' = (UnderWay(Probes) # {})
  /\ UNCHANGED <<account, loading>>

Deleted(r) ==
  /\ req[r].op = "delete"
  /\ req[r].at = "ok"
  /\ Document("/login")
  /\ UNCHANGED <<server, jar>>

\* A form shows the error; handleLogout lets it pass.
ActFails(r) ==
  /\ req[r].op \in {"login", "register", "logout", "delete"}
  /\ req[r].at \in {"failed", "refused"}
  /\ ~Yanked(r)
  /\ busy' = BusyAfter(r)
  /\ req' = Drop(r)
  /\ UNCHANGED <<server, jar, store, pathname, crossed>>

-----------------------------------------------------------------------------
\* A visitor opens the site at any address, with or without a session.
Init ==
  /\ account \in [Users -> {"free", "open"}]
  /\ jar \in {u \in Users : account[u] = "open"} \cup {None}
  /\ lapsed = FALSE
  /\ user = None
  /\ loading = TRUE
  /\ pathname \in Pages
  /\ busy = (pathname = "/")
  /\ req = [r \in Requests |-> IF r = 1 THEN Probe(pathname) ELSE Idle]
  /\ crossed = FALSE

Serve(r) ==
  \/ ServeProfile(r) \/ Refuse(r) \/ ServeDelete(r)
  \/ ServeLogin(r) \/ ServeRegister(r) \/ ServeLogout(r)
  \/ Fail(r)

Deliver(r) ==
  \/ LandingArrives(r) \/ ShellArrives(r) \/ ShellFails(r) \/ Yank(r)
  \/ SignedIn(r) \/ SignedOut(r) \/ Deleted(r) \/ ActFails(r)

Next ==
  \/ \E p \in Pages : Go(p) \/ Reload(p)
  \/ \E who \in Users : Submit(who)
  \/ \E op \in {"logout", "delete"} : Press(op)
  \/ Lapse
  \/ \E r \in Requests : Serve(r) \/ Deliver(r)

Spec == Init /\ [][Next]_vars /\ \A r \in Requests : WF_vars(Serve(r) \/ Deliver(r))

-----------------------------------------------------------------------------
Request ==
  [op : {"none", "landing", "shell", "login", "register", "logout", "delete"},
   at : {"none", "sent", "ok", "failed", "refused"},
   who : Users \cup {None}, here : BOOLEAN]

\* Types; a form or the landing page is busy only while its own request is under
\* way, so no button stays disabled for good; and a page is blank or shows a spinner
\* only while a request is under way that will fill it or lead away from it.
TypeOK ==
  /\ account \in [Users -> {"free", "open", "deleted"}]
  /\ jar \in Users \cup {None}
  /\ user \in Users \cup {None}
  /\ pathname \in Pages
  /\ req \in [Requests -> Request]
  /\ lapsed \in BOOLEAN /\ loading \in BOOLEAN
  /\ busy \in BOOLEAN /\ crossed \in BOOLEAN
  /\ busy => \E r \in Requests : req[r].here /\ req[r].op # "none"
  /\ ~Rendered => UnderWay(Probes) # {}

\* The user the pages show is the one whose session the cookies hold, so that
\* what is saved, synced or deleted is saved for the user on display.  A probe
\* that a sign-in or sign-out overtakes may still bring back the earlier user.
ShownUserIsSession == user # None /\ ~crossed => user = jar

\* A page that is blank or shows a spinner does not stay so, for a visitor who does
\* not go on leaving it.
BlankEnds ==
  \/ []<><<\E p \in Pages : Go(p) \/ Reload(p)>>_vars
  \/ ~Rendered ~> Rendered
=============================================================================
