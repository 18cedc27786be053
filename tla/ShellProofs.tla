----------------------------- MODULE ShellProofs ------------------------------
(***************************************************************************)
(* For any number of users and of requests under way: the pages show the   *)
(* user whose session the cookies hold, and no page is blank or busy       *)
(* without a request that will end it.                                     *)
(*                                                                         *)
(* The argument: a probe carries the cookies of the moment it was sent. As *)
(* long as no sign-in or sign-out came between, these are the cookies of   *)
(* now (Current), and what it answers is about their session.              *)
(***************************************************************************)
EXTENDS Shell, TLAPS

\* The requests for which a page is busy.
Own(p) ==
  IF p = "/" THEN {"landing"} ELSE IF p = "app" THEN {} ELSE {"login", "register"}

Types ==
  /\ account \in [Users -> {"free", "open", "deleted"}]
  /\ jar \in Users \cup {None}
  /\ user \in Users \cup {None}
  /\ pathname \in Pages
  /\ req \in [Requests -> Request]
  /\ lapsed \in BOOLEAN /\ loading \in BOOLEAN
  /\ busy \in BOOLEAN /\ crossed \in BOOLEAN

BusyHasOwn ==
  busy => \E q \in Requests : req[q].here /\ req[q].op \in Own(pathname)

BlankHasProbe ==
  pathname = "app" /\ (loading \/ user = None) =>
    \E q \in Requests : req[q].op = "shell"

Named ==
  \A q \in Requests :
    \/ req[q].at = "ok" /\ req[q].op # "logout"
    \/ req[q].at = "sent" /\ req[q].op \in {"login", "register"}
    => req[q].who \in Users

Current ==
  ~crossed =>
    \A q \in Requests :
      req[q].op \in Probes /\ req[q].at \in {"sent", "ok"} => req[q].who = jar

\* The inductive invariant.
ShellInv ==
  Types /\ BusyHasOwn /\ BlankHasProbe /\ Named /\ Current /\ ShownUserIsSession

-----------------------------------------------------------------------------
\* A new request, with the cookies as they are.
LEMMA CallType ==
  ASSUME NEW op \in {"landing", "shell", "login", "register", "logout", "delete"},
         NEW who \in Users \cup {None}
  PROVE  /\ Call(op, who) \in Request
         /\ Call(op, who).op = op /\ Call(op, who).at = "sent"
         /\ Call(op, who).who = who /\ Call(op, who).here
BY DEF Call, Request

LEMMA IdleType ==
  Idle \in Request /\ Idle.op = "none" /\ Idle.at = "none" /\ ~Idle.here
BY DEF Idle, Request

LEMMA LeftType ==
  ASSUME NEW x \in Request
  PROVE  /\ Left(x) \in Request
         /\ Left(x).op = x.op /\ Left(x).at = x.at /\ Left(x).who = x.who
BY DEF Left, Request

LEMMA AbandonedType ==
  ASSUME Types
  PROVE  /\ Abandoned \in [Requests -> Request]
         /\ \A q \in Requests : /\ Abandoned[q].op = req[q].op
                                /\ Abandoned[q].at = req[q].at
                                /\ Abandoned[q].who = req[q].who
BY LeftType DEF Types, Abandoned

LEMMA ProbeType ==
  ASSUME jar \in Users \cup {None}, NEW p
  PROVE  /\ Probe(p) \in Request
         /\ Probe(p).at # "ok" /\ Probe(p).op \notin {"login", "register"}
         /\ p = "/" => Probe(p).op = "landing" /\ Probe(p).here
         /\ p = "app" => Probe(p).op = "shell"
         /\ Probe(p).op \in Probes => Probe(p).who = jar
BY CallType, IdleType DEF Probe, Probes

\* A document of its own knows nothing, and has asked what it needs to know.
LEMMA DocumentStep ==
  ASSUME Types, NEW p \in Pages, Document(p), UNCHANGED <<server, jar>>
  PROVE  ShellInv'
<1>1. 1 \in Requests
  BY ShellAssumption DEF Requests
<1>2. /\ req' \in [Requests -> Request]
      /\ \A q \in Requests : q # 1 => req'[q] = Idle
      /\ req'[1] = Probe(p)
  BY <1>1, ProbeType, IdleType DEF Document, Types
<1>3. Types'
  BY <1>2 DEF Document, Types, server
<1>4. \A q \in Requests : req'[q].at # "ok" /\ req'[q].op \notin {"login", "register"}
  BY <1>2, ProbeType, IdleType DEF Types
<1>5. BusyHasOwn'
  BY <1>1, <1>2, ProbeType DEF Document, BusyHasOwn, Own, Types
<1>6. BlankHasProbe'
  BY <1>1, <1>2, ProbeType DEF Document, BlankHasProbe, Types
<1>7. Current'
  <2>1. ASSUME NEW q \in Requests, req'[q].op \in Probes
        PROVE  req'[q].who = jar'
    BY <1>2, <2>1, ProbeType, IdleType DEF Probes, Types
  <2> QED BY <2>1 DEF Current
<1>8. ShownUserIsSession'
  BY DEF Document, ShownUserIsSession
<1> QED BY <1>3, <1>4, <1>5, <1>6, <1>7, <1>8 DEF ShellInv, Named

-----------------------------------------------------------------------------
(* The user.                                                               *)

LEMMA GoStep ==
  ASSUME ShellInv, NEW p \in Pages, Go(p)
  PROVE  ShellInv'
<1>1. Types /\ BusyHasOwn /\ BlankHasProbe /\ Named /\ Current /\ ShownUserIsSession
  BY DEF ShellInv
<1>2. UNCHANGED <<account, lapsed, jar, user, loading, crossed>> /\ pathname' = p
  BY DEF Go, server, store
<1>3. CASE req' = Abandoned /\ busy' = FALSE /\ p # "app"
  <2>1. Types'
    BY <1>1, <1>2, <1>3, AbandonedType DEF Types
  <2>2. Named' /\ Current'
    BY <1>1, <1>2, <1>3, AbandonedType DEF Named, Current
  <2> QED
    BY <1>1, <1>2, <1>3, <2>1, <2>2
    DEF ShellInv, BusyHasOwn, BlankHasProbe, ShownUserIsSession
<1>4. CASE \/ p = "/" /\ \E r \in Requests : req' = [Abandoned EXCEPT ![r] = Call("landing", jar)]
           \/ p = "app" /\ busy' = FALSE
                /\ \E r \in Requests : req' = [Abandoned EXCEPT ![r] = Call("shell", jar)]
  <2>0. PICK r \in Requests, op \in Probes :
          /\ p = "/" => op = "landing"
          /\ p = "app" => op = "shell" /\ busy' = FALSE
          /\ p \in {"/", "app"}
          /\ req' = [Abandoned EXCEPT ![r] = Call(op, jar)]
    BY <1>4 DEF Probes
  <2>1. /\ req' \in [Requests -> Request]
        /\ req'[r] = Call(op, jar)
        /\ \A q \in Requests \ {r} : req'[q] = Abandoned[q]
    BY <1>1, <2>0, AbandonedType, CallType DEF Types, Probes
  <2>2. busy' \in BOOLEAN
    BY <2>0 DEF Go, MountLanding
  <2>3. Types'
    BY <1>1, <1>2, <2>1, <2>2 DEF Types
  <2>4. Call(op, jar) \in Request /\ Call(op, jar).op = op /\ Call(op, jar).at = "sent"
        /\ Call(op, jar).who = jar /\ Call(op, jar).here
    BY <1>1, CallType DEF Types, Probes
  <2>5. Named' /\ Current'
    <3>1. op \notin {"login", "register"} BY DEF Probes
    <3>2. Named' BY <1>1, <1>2, <2>1, <2>4, <3>1, AbandonedType DEF Named
    <3>3. Current' BY <1>1, <1>2, <2>1, <2>4, AbandonedType DEF Current
    <3> QED BY <3>2, <3>3
  <2>6. BusyHasOwn'
    BY <1>2, <2>0, <2>1, <2>4 DEF BusyHasOwn, Own
  <2>7. BlankHasProbe'
    BY <1>2, <2>0, <2>1, <2>4 DEF BlankHasProbe
  <2> QED BY <1>1, <1>2, <2>3, <2>5, <2>6, <2>7 DEF ShellInv, ShownUserIsSession
<1> QED BY <1>1, <1>3, <1>4 DEF Go, MountLanding, MountShell, Types, Free

LEMMA SubmitStep ==
  ASSUME ShellInv, NEW who \in Users, Submit(who)
  PROVE  ShellInv'
<1>1. Types /\ Named /\ Current /\ ShownUserIsSession
  BY DEF ShellInv
<1>2. PICK r \in Requests, op \in {"login", "register"} : Become(r, Call(op, who))
  BY DEF Submit
<1>3. /\ req' \in [Requests -> Request]
      /\ req'[r] = Call(op, who)
      /\ \A q \in Requests \ {r} : req'[q] = req[q]
  BY <1>1, <1>2, CallType DEF Types, Become
<1>4. UNCHANGED <<account, lapsed, jar, user, loading, pathname, crossed>> /\ busy'
  BY DEF Submit, server, store
<1>5. Types'
  BY <1>1, <1>3, <1>4 DEF Types
<1>6. /\ Call(op, who).op = op /\ Call(op, who).at = "sent"
      /\ Call(op, who).who = who /\ Call(op, who).here
  BY CallType
<1>7. Named' /\ Current'
  BY <1>1, <1>3, <1>4, <1>6 DEF Named, Current, Probes
<1>8. BusyHasOwn' /\ BlankHasProbe'
  BY <1>3, <1>4, <1>6 DEF Submit, BusyHasOwn, BlankHasProbe, Own
<1> QED BY <1>1, <1>4, <1>5, <1>7, <1>8 DEF ShellInv, ShownUserIsSession

LEMMA PressStep ==
  ASSUME ShellInv, NEW op \in {"logout", "delete"}, Press(op)
  PROVE  ShellInv'
<1>1. Types /\ BusyHasOwn /\ Named /\ Current /\ ShownUserIsSession
  BY DEF ShellInv
<1>2. PICK r \in Requests : Become(r, Call(op, jar))
  BY DEF Press
<1>3. /\ req' \in [Requests -> Request]
      /\ req'[r] = Call(op, jar)
      /\ \A q \in Requests \ {r} : req'[q] = req[q]
  BY <1>1, <1>2, CallType DEF Types, Become
<1>4. UNCHANGED <<account, lapsed, jar, user, loading, pathname, busy, crossed>>
  BY DEF Press, server, store
<1>5. Types'
  BY <1>1, <1>3, <1>4 DEF Types
<1>6. Call(op, jar).op = op /\ Call(op, jar).at = "sent"
  BY <1>1, CallType DEF Types
<1>7. Named' /\ Current'
  BY <1>1, <1>3, <1>4, <1>6 DEF Named, Current, Probes
<1>8. BusyHasOwn' /\ BlankHasProbe'
  BY <1>1, <1>4 DEF Press, Rendered, BusyHasOwn, BlankHasProbe, Own
<1> QED BY <1>1, <1>4, <1>5, <1>7, <1>8 DEF ShellInv, ShownUserIsSession

-----------------------------------------------------------------------------
(* The server.                                                             *)

\* An answer is about the session that the request carried, or repeats it with
\* the one that the cookies hold.
LEMMA AnswerStep ==
  ASSUME ShellInv, NEW r \in Requests, req[r].at = "sent",
         NEW at \in {"ok", "failed", "refused"}, NEW who \in Users \cup {None},
         Answer(r, at, who), account' \in [Users -> {"free", "open", "deleted"}],
         at = "ok" /\ req[r].op # "logout" => who \in Users,
         at = "ok" /\ req[r].op \in Probes /\ ~crossed => who = jar
  PROVE  ShellInv'
<1>1. Types /\ BusyHasOwn /\ BlankHasProbe /\ Named /\ Current /\ ShownUserIsSession
  BY DEF ShellInv
<1>2. /\ req' \in [Requests -> Request]
      /\ req'[r].op = req[r].op /\ req'[r].at = at
      /\ req'[r].who = who /\ req'[r].here = req[r].here
      /\ \A q \in Requests \ {r} : req'[q] = req[q]
  BY <1>1 DEF Types, Answer, Become, Request
<1>3. UNCHANGED <<jar, lapsed, user, loading, pathname, busy, crossed>>
  BY DEF Answer, store
<1>4. Types'
  BY <1>1, <1>2, <1>3 DEF Types
<1>5. Named' /\ Current'
  BY <1>1, <1>2, <1>3 DEF Named, Current
<1>6. BusyHasOwn' /\ BlankHasProbe'
  BY <1>1, <1>2, <1>3 DEF BusyHasOwn, BlankHasProbe
<1> QED BY <1>1, <1>3, <1>4, <1>5, <1>6 DEF ShellInv, ShownUserIsSession

LEMMA ServeStep ==
  ASSUME ShellInv, NEW r \in Requests, Serve(r)
  PROVE  ShellInv'
<1>1. Types /\ Current /\ Named
  BY DEF ShellInv
<1>2. /\ req[r] \in Request /\ jar \in Users \cup {None}
      /\ account \in [Users -> {"free", "open", "deleted"}]
  BY <1>1 DEF Types
<1>3. req[r].who \in Users \cup {None}
  BY <1>2 DEF Request
<1>4. Session(r) \subseteq Users
  BY <1>2, <1>3 DEF Session, Refreshable
<1>5. ~crossed /\ req[r].op \in Probes /\ req[r].at = "sent" =>
        \A who \in Session(r) : who = jar
  BY <1>1 DEF Current, Session
<1>6. CASE ServeProfile(r)
  <2>1. PICK who \in Session(r) :
          Answer(r, IF account[who] = "open" THEN "ok" ELSE "failed", who)
    BY <1>6 DEF ServeProfile
  <2>2. req[r].at = "sent" /\ account' = account
    BY <1>6 DEF ServeProfile
  <2>3. CASE account[who] = "open"
    <3>1. Answer(r, "ok", who)
      BY <2>1, <2>3
    <3> QED BY <1>2, <1>4, <1>5, <2>2, <3>1, AnswerStep
  <2>4. CASE account[who] # "open"
    <3>1. Answer(r, "failed", who)
      BY <2>1, <2>4
    <3> QED BY <1>2, <1>4, <2>2, <3>1, AnswerStep
  <2> QED BY <2>3, <2>4
<1>7. CASE Refuse(r)
  BY <1>2, <1>7, AnswerStep DEF Refuse
<1>8. CASE ServeDelete(r)
  <2>1. PICK who \in Session(r) :
          account' = [account EXCEPT ![who] = "deleted"] /\ Answer(r, "ok", who)
    BY <1>8 DEF ServeDelete
  <2>2. account' \in [Users -> {"free", "open", "deleted"}]
    BY <1>2, <2>1
  <2>3. req[r].at = "sent" /\ req[r].op \notin Probes
    BY <1>8 DEF ServeDelete, Probes
  <2> QED BY <1>4, <2>1, <2>2, <2>3, AnswerStep
<1>9. CASE ServeLogin(r)
  <2>1. /\ req[r].at = "sent" /\ req[r].op \notin Probes /\ account' = account
        /\ Answer(r, "ok", req[r].who) /\ req[r].who \in Users
    BY <1>1, <1>9 DEF ServeLogin, Probes, Named
  <2> QED BY <1>2, <1>3, <2>1, AnswerStep
<1>10. CASE ServeRegister(r)
  <2>1. /\ req[r].at = "sent" /\ req[r].op \notin Probes
        /\ account' = [account EXCEPT ![req[r].who] = "open"]
        /\ Answer(r, "ok", req[r].who) /\ req[r].who \in Users
    BY <1>1, <1>10 DEF ServeRegister, Probes, Named
  <2>2. account' \in [Users -> {"free", "open", "deleted"}]
    BY <1>2, <2>1
  <2> QED BY <1>2, <1>3, <2>1, <2>2, AnswerStep
<1>11. CASE ServeLogout(r)
  <2>1. /\ req[r].at = "sent" /\ req[r].op = "logout" /\ account' = account
        /\ Answer(r, "ok", None)
    BY <1>11 DEF ServeLogout
  <2> QED BY <1>2, <2>1, AnswerStep DEF Probes
<1>12. CASE Fail(r)
  BY <1>2, <1>12, AnswerStep DEF Fail
<1> QED BY <1>6, <1>7, <1>8, <1>9, <1>10, <1>11, <1>12 DEF Serve

-----------------------------------------------------------------------------
(* Answers in the browser.                                                 *)

LEMMA DropType ==
  ASSUME Types, NEW r \in Requests
  PROVE  /\ Drop(r) \in [Requests -> Request]
         /\ Drop(r)[r] = Idle
         /\ \A q \in Requests \ {r} : Drop(r)[q] = req[q]
BY IdleType DEF Types, Drop

\* navigate() after the answer of request r: whatever page it leads to.
LEMMA NavigateStep ==
  ASSUME Types, NEW p \in {"/login", "app"}, NEW r \in Requests, Navigate(p, Drop(r)),
         jar' \in Users \cup {None}
  PROVE  /\ req' \in [Requests -> Request] /\ pathname' = p /\ busy' \in BOOLEAN
         /\ \A q \in Requests :
              \/ q # r /\ req'[q].op = req[q].op /\ req'[q].at = req[q].at
                   /\ req'[q].who = req[q].who
              \/ q = r /\ req'[q].op = "none" /\ req'[q].at = "none"
              \/ req'[q].op = "shell" /\ req'[q].at = "sent" /\ req'[q].who = jar'
         /\ busy' => busy /\ p = pathname /\ req' = Drop(r)
         /\ p = "app" => \/ pathname = "app" /\ req' = Drop(r)
                         \/ \E q \in Requests : req'[q].op = "shell"
<1>1. CASE p = "app" /\ pathname # "app"
  <2>1. PICK n \in Requests :
          /\ Drop(r)[n] = Idle
          /\ req' = [q \in Requests |->
                      IF q = n THEN Call("shell", jar') ELSE Left(Drop(r)[q])]
    BY <1>1 DEF Navigate
  <2> DEFINE call == Call("shell", jar')
  <2>2. call \in Request /\ call.op = "shell" /\ call.at = "sent" /\ call.who = jar'
    BY CallType
  <2> HIDE DEF call
  <2>3. \A q \in Requests : req'[q] = IF q = n THEN call ELSE Left(Drop(r)[q])
    BY <2>1 DEF call
  <2>4. \A q \in Requests : Left(Drop(r)[q]) \in Request
    BY DropType, LeftType
  <2>5. req' \in [Requests -> Request]
    BY <2>1, <2>2, <2>4 DEF call
  <2>6. \A q \in Requests \ {r} : /\ Left(Drop(r)[q]).op = req[q].op
                                   /\ Left(Drop(r)[q]).at = req[q].at
                                   /\ Left(Drop(r)[q]).who = req[q].who
    BY DropType, LeftType DEF Types
  <2>7. Left(Drop(r)[r]).op = "none" /\ Left(Drop(r)[r]).at = "none"
    BY DropType, LeftType, IdleType
  <2>8. pathname' = p /\ busy' = FALSE
    BY <1>1 DEF Navigate
  <2> QED BY <2>2, <2>3, <2>5, <2>6, <2>7, <2>8
<1>2. CASE p = pathname
  <2>1. req' = Drop(r) /\ pathname' = p /\ busy' = busy
    BY <1>2 DEF Navigate, Types
  <2> QED BY <1>2, <2>1, DropType, IdleType DEF Types
<1>3. CASE p # pathname /\ p = "/login"
  <2>1. /\ req' = [q \in Requests |-> Left(Drop(r)[q])]
        /\ pathname' = p /\ busy' = FALSE
    BY <1>3 DEF Navigate
  <2>2. \A q \in Requests : Left(Drop(r)[q]) \in Request
    BY DropType, LeftType
  <2>3. \A q \in Requests \ {r} : /\ Left(Drop(r)[q]).op = req[q].op
                                   /\ Left(Drop(r)[q]).at = req[q].at
                                   /\ Left(Drop(r)[q]).who = req[q].who
    BY DropType, LeftType DEF Types
  <2>4. Left(Drop(r)[r]).op = "none" /\ Left(Drop(r)[r]).at = "none"
    BY DropType, LeftType, IdleType
  <2> QED BY <1>3, <2>1, <2>2, <2>3, <2>4
<1> QED BY <1>1, <1>2, <1>3

LEMMA LandingArrivesStep ==
  ASSUME ShellInv, NEW r \in Requests, LandingArrives(r)
  PROVE  ShellInv'
<1>1. Types /\ BusyHasOwn /\ BlankHasProbe /\ Named /\ Current /\ ShownUserIsSession
  BY DEF ShellInv
<1>2. /\ req' = Drop(r) /\ req[r].op = "landing" /\ busy' = BusyAfter(r)
      /\ UNCHANGED <<account, lapsed, jar, loading, pathname, crossed>>
      /\ user' = IF req[r].at = "ok" THEN req[r].who ELSE user
  BY DEF LandingArrives, server
<1>3. user' # user => user' \in Users
  BY <1>1, <1>2 DEF Named
<1>4. Types'
  BY <1>1, <1>2, <1>3, DropType DEF Types, BusyAfter
<1>5. Named' /\ Current'
  BY <1>1, <1>2, DropType, IdleType DEF Named, Current, Probes
<1>6. BusyHasOwn'
  BY <1>1, <1>2, DropType DEF BusyHasOwn, BusyAfter
<1>7. BlankHasProbe'
  BY <1>1, <1>2, <1>3, DropType, ShellAssumption DEF BlankHasProbe
<1>8. ShownUserIsSession'
  BY <1>1, <1>2 DEF ShownUserIsSession, Current, Probes
<1> QED BY <1>4, <1>5, <1>6, <1>7, <1>8 DEF ShellInv

LEMMA ShellArrivesStep ==
  ASSUME ShellInv, NEW r \in Requests, ShellArrives(r)
  PROVE  ShellInv'
<1>1. Types /\ BusyHasOwn /\ Named /\ Current
  BY DEF ShellInv
<1>2. /\ req' = Drop(r) /\ req[r].op = "shell" /\ req[r].at = "ok"
      /\ UNCHANGED <<account, lapsed, jar, pathname, busy, crossed>>
      /\ user' = req[r].who /\ loading' = FALSE
  BY DEF ShellArrives, server
<1>3. user' \in Users
  BY <1>1, <1>2 DEF Named
<1>4. Types'
  BY <1>1, <1>2, <1>3, DropType DEF Types
<1>5. Named' /\ Current'
  BY <1>1, <1>2, DropType, IdleType DEF Named, Current, Probes
<1>6. BusyHasOwn'
  BY <1>1, <1>2, DropType DEF BusyHasOwn, Own
<1>7. BlankHasProbe'
  BY <1>2, <1>3, ShellAssumption DEF BlankHasProbe
<1>8. ShownUserIsSession'
  BY <1>1, <1>2 DEF ShownUserIsSession, Current, Probes
<1> QED BY <1>4, <1>5, <1>6, <1>7, <1>8 DEF ShellInv

LEMMA ShellFailsStep ==
  ASSUME ShellInv, NEW r \in Requests, ShellFails(r)
  PROVE  ShellInv'
<1>1. Types /\ BusyHasOwn /\ Named /\ Current
  BY DEF ShellInv
<1>2. /\ Navigate("/login", Drop(r)) /\ req[r].op = "shell"
      /\ UNCHANGED <<account, lapsed, jar, crossed>>
      /\ user' = None /\ loading' = FALSE
  BY DEF ShellFails, server
<1>3. jar' \in Users \cup {None}
  BY <1>1, <1>2 DEF Types
<1>4. Types'
  BY <1>1, <1>2, <1>3, NavigateStep DEF Types, Pages, Public
<1>5. Named' /\ Current'
  BY <1>1, <1>2, <1>3, NavigateStep DEF Named, Current, Probes
<1>6. BusyHasOwn'
  BY <1>1, <1>2, <1>3, NavigateStep, DropType DEF BusyHasOwn, Own
<1>7. BlankHasProbe' /\ ShownUserIsSession'
  BY <1>1, <1>2, <1>3, NavigateStep DEF BlankHasProbe, ShownUserIsSession
<1> QED BY <1>4, <1>5, <1>6, <1>7 DEF ShellInv

LEMMA SignedInStep ==
  ASSUME ShellInv, NEW r \in Requests, SignedIn(r)
  PROVE  ShellInv'
<1>1. Types /\ BusyHasOwn /\ BlankHasProbe /\ Named
  BY DEF ShellInv
<1>2. /\ Navigate("app", Drop(r)) /\ req[r].op \in {"login", "register"}
      /\ req[r].at = "ok" /\ jar' = req[r].who /\ user' = req[r].who
      /\ lapsed' = FALSE /\ UNCHANGED <<account, loading>>
      /\ crossed' = (UnderWay(Probes) # {})
  BY DEF SignedIn
<1>3. jar' \in Users /\ user' \in Users
  BY <1>1, <1>2 DEF Named
<1>4. crossed' \in BOOLEAN
  BY <1>2
<1>5. Types'
  BY <1>1, <1>2, <1>3, <1>4, NavigateStep DEF Types, Pages, Public
<1>6. Named'
  BY <1>1, <1>2, <1>3, NavigateStep DEF Named
<1>7. Current'
  <2>1. ASSUME ~crossed', NEW q \in Requests, req'[q].op \in Probes
        PROVE  req'[q].who = jar'
    <3>1. \A n \in Requests : req[n].op \notin Probes
      BY <1>2, <2>1 DEF UnderWay
    <3> QED BY <1>1, <1>2, <1>3, <2>1, <3>1, NavigateStep DEF Probes
  <2> QED BY <2>1 DEF Current
<1>8. BusyHasOwn'
  BY <1>1, <1>2, <1>3, NavigateStep DEF BusyHasOwn, Own
<1>9. BlankHasProbe'
  <2>1. CASE pathname = "app" /\ req' = Drop(r)
    BY <1>1, <1>2, <1>3, <2>1, NavigateStep, DropType, ShellAssumption DEF BlankHasProbe
  <2>2. CASE \E q \in Requests : req'[q].op = "shell"
    BY <2>2 DEF BlankHasProbe
  <2> QED BY <1>1, <1>2, <1>3, <2>1, <2>2, NavigateStep
<1>10. ShownUserIsSession'
  BY <1>2 DEF ShownUserIsSession
<1> QED BY <1>5, <1>6, <1>7, <1>8, <1>9, <1>10 DEF ShellInv

LEMMA SignedOutStep ==
  ASSUME ShellInv, NEW r \in Requests, SignedOut(r)
  PROVE  ShellInv'
<1>1. Types /\ BusyHasOwn /\ Named
  BY DEF ShellInv
<1>2. /\ Navigate("/login", Drop(r)) /\ req[r].op = "logout"
      /\ jar' = None /\ user' = None
      /\ lapsed' = FALSE /\ UNCHANGED <<account, loading>>
      /\ crossed' = (UnderWay(Probes) # {})
  BY DEF SignedOut
<1>3. jar' \in Users \cup {None}
  BY <1>2
<1>4. crossed' \in BOOLEAN
  BY <1>2
<1>5. Types'
  BY <1>1, <1>2, <1>3, <1>4, NavigateStep DEF Types, Pages, Public
<1>6. Named'
  BY <1>1, <1>2, <1>3, NavigateStep DEF Named
<1>7. Current'
  <2>1. ASSUME ~crossed', NEW q \in Requests, req'[q].op \in Probes
        PROVE  req'[q].who = jar'
    <3>1. \A n \in Requests : req[n].op \notin Probes
      BY <1>2, <2>1 DEF UnderWay
    <3> QED BY <1>1, <1>2, <1>3, <2>1, <3>1, NavigateStep DEF Probes
  <2> QED BY <2>1 DEF Current
<1>8. BusyHasOwn'
  BY <1>1, <1>2, <1>3, NavigateStep, DropType DEF BusyHasOwn, Own
<1>9. BlankHasProbe' /\ ShownUserIsSession'
  BY <1>1, <1>2, <1>3, NavigateStep DEF BlankHasProbe, ShownUserIsSession
<1> QED BY <1>5, <1>6, <1>7, <1>8, <1>9 DEF ShellInv

LEMMA ActFailsStep ==
  ASSUME ShellInv, NEW r \in Requests, ActFails(r)
  PROVE  ShellInv'
<1>1. Types /\ BusyHasOwn /\ BlankHasProbe /\ Named /\ Current /\ ShownUserIsSession
  BY DEF ShellInv
<1>2. /\ req' = Drop(r) /\ req[r].op # "shell" /\ busy' = BusyAfter(r)
      /\ UNCHANGED <<account, lapsed, jar, user, loading, pathname, crossed>>
  BY DEF ActFails, server, store
<1>3. Types'
  BY <1>1, <1>2, DropType DEF Types, BusyAfter
<1>4. Named' /\ Current'
  BY <1>1, <1>2, DropType, IdleType DEF Named, Current, Probes
<1>5. BusyHasOwn'
  BY <1>1, <1>2, DropType DEF BusyHasOwn, BusyAfter
<1>6. BlankHasProbe'
  BY <1>1, <1>2, DropType DEF BlankHasProbe
<1> QED BY <1>1, <1>2, <1>3, <1>4, <1>5, <1>6 DEF ShellInv, ShownUserIsSession

LEMMA DeliverStep ==
  ASSUME ShellInv, NEW r \in Requests, Deliver(r)
  PROVE  ShellInv'
<1>1. Types /\ "/login" \in Pages
  BY DEF ShellInv, Pages, Public
<1>2. CASE Yank(r)
  BY <1>1, <1>2, DocumentStep DEF Yank
<1>3. CASE Deleted(r)
  BY <1>1, <1>3, DocumentStep DEF Deleted
<1> QED
  BY <1>2, <1>3, LandingArrivesStep, ShellArrivesStep, ShellFailsStep, SignedInStep,
     SignedOutStep, ActFailsStep
  DEF Deliver

-----------------------------------------------------------------------------
(* The results.                                                            *)

LEMMA InitHolds == Init => ShellInv
<1> SUFFICES ASSUME Init PROVE ShellInv
  OBVIOUS
<1>1. 1 \in Requests
  BY ShellAssumption DEF Requests
<1>2. jar \in Users \cup {None}
  BY DEF Init
<1>3. /\ req \in [Requests -> Request]
      /\ \A q \in Requests : q # 1 => req[q] = Idle
      /\ req[1] = Probe(pathname)
  BY <1>1, <1>2, ProbeType, IdleType DEF Init
<1>4. Types
  BY <1>2, <1>3 DEF Init, Types
<1>5. Named
  BY <1>2, <1>3, ProbeType, IdleType DEF Named
<1>6. Current
  BY <1>2, <1>3, ProbeType, IdleType DEF Current, Probes
<1>7. BusyHasOwn
  BY <1>1, <1>2, <1>3, ProbeType DEF Init, BusyHasOwn, Own
<1>8. BlankHasProbe
  BY <1>1, <1>2, <1>3, ProbeType DEF BlankHasProbe
<1> QED BY <1>4, <1>5, <1>6, <1>7, <1>8 DEF ShellInv, ShownUserIsSession, Init

LEMMA NextHolds == ShellInv /\ [Next]_vars => ShellInv'
<1> SUFFICES ASSUME ShellInv, [Next]_vars PROVE ShellInv'
  OBVIOUS
<1>1. CASE UNCHANGED vars
  BY <1>1 DEF vars, server, store, ShellInv, Types, BusyHasOwn, BlankHasProbe, Named, Current,
     ShownUserIsSession
<1>2. CASE Lapse
  BY <1>2 DEF Lapse, store, ShellInv, Types, BusyHasOwn, BlankHasProbe, Named, Current,
     ShownUserIsSession
<1>3. ASSUME NEW p \in Pages, Reload(p)
      PROVE  ShellInv'
  BY <1>3, DocumentStep DEF Reload, ShellInv
<1> QED
  BY <1>1, <1>2, <1>3, GoStep, SubmitStep, PressStep, ServeStep, DeliverStep DEF Next

\* The invariant of who is signed in, for any number of users and requests: what
\* AppShell, Landing and the forms know is about the session of the cookies.
THEOREM ShellHolds == Spec => []ShellInv
BY InitHolds, NextHolds, PTL DEF Spec

\* Types, no button of a form that stays disabled, no page that stays blank without
\* a probe under way, whatever overlaps.
THEOREM TypeCorrect == Spec => []TypeOK
<1>1. ShellInv => TypeOK
  <2> SUFFICES ASSUME ShellInv PROVE TypeOK
    OBVIOUS
  <2>1. Types /\ BusyHasOwn /\ BlankHasProbe
    BY DEF ShellInv
  <2>2. busy => \E q \in Requests : req[q].here /\ req[q].op # "none"
    BY <2>1 DEF BusyHasOwn, Own
  <2>3. ~Rendered => UnderWay(Probes) # {}
    <3>1. ASSUME NEW q \in Requests, req[q].op \in {"landing", "shell"}
          PROVE  UnderWay(Probes) # {}
      BY <3>1 DEF UnderWay, Probes
    <3>2. CASE pathname = "/" /\ busy
      BY <2>1, <3>1, <3>2 DEF BusyHasOwn, Own
    <3>3. CASE pathname = "app" /\ (loading \/ user = None)
      BY <2>1, <3>1, <3>3 DEF BlankHasProbe
    <3> QED BY <3>2, <3>3 DEF Rendered
  <2> QED BY <2>1, <2>2, <2>3 DEF Types, TypeOK
<1> QED BY <1>1, ShellHolds, PTL

\* AppShell and the forms: the user on display is the one whose session the cookies
\* hold, as long as no probe was overtaken by a sign-in or a sign-out.
THEOREM ShownIsSession == Spec => []ShownUserIsSession
<1>1. ShellInv => ShownUserIsSession
  BY DEF ShellInv
<1> QED BY <1>1, ShellHolds, PTL
=============================================================================
