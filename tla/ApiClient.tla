----------------------------- MODULE ApiClient -----------------------------
(***************************************************************************)
(* The browser's side of a session: the axios response interceptor of      *)
(* frontend/src/api/client.ts, in every tab of one browser, against the    *)
(* access-token check and the refresh route of the backend.                *)
(*                                                                         *)
(* The tabs share the cookie jar, and nothing else: isRefreshing and       *)
(* refreshQueue are variables of the script of one tab.  The two cookies   *)
(* are always set together, so the jar holds the number of a token pair.   *)
(***************************************************************************)
EXTENDS Integers

CONSTANTS
  Tabs,
  Public,    \* the tabs that show a page without login: /, /login, /register
  Quota,     \* how many calls each tab makes
  MaxPairs   \* bound on the token pairs ever issued

ASSUME ApiClientAssumption ==
  /\ Public \subseteq Tabs
  /\ Quota \in [Tabs -> Nat]
  /\ MaxPairs \in Nat \ {0}

Calls == UNION {{t} \X (1..Quota[t]) : t \in Tabs}
CallsOf(t) == {c \in Calls : c[1] = t}

Pairs == 1..MaxPairs

VARIABLES
  call,        \* each call: where it is, the access token it carries, _retry,
               \* and (history) how often the server carried it out so far
  isRefreshing,
  refreshQueue,
  flight,      \* the POST /auth/refresh of each tab
  sentAway,    \* the tabs whose page gave way to /login
  jar,         \* the pair in the cookies, 0 when there is none
  issued,      \* pairs issued so far
  expired,     \* the access tokens 1..expired have expired
  live,        \* the refresh tokens that have a row
  ended        \* history: the session was signed out, or a refresh half done

client == <<call, isRefreshing, refreshQueue, flight, sentAway, jar>>
server == <<issued, expired, live>>
vars == <<client, server, ended>>

Flight(at, token, pair) == [at |-> at, token |-> token, pair |-> pair]
NoFlight == Flight("none", 0, 0)

-----------------------------------------------------------------------------
(* A call and its answer.                                                  *)

Sent(c, token) ==
  [at |-> "sent", token |-> token, retry |-> call[c].retry, runs |-> call[c].runs]

Moved(c, at, retry, runs) ==
  [at |-> at, token |-> call[c].token, retry |-> retry, runs |-> runs]

\* The promise of the call is resolved or rejected.
Settled == [at |-> "settled", token |-> 0, retry |-> FALSE, runs |-> 0]

\* A tab numbers its calls as it makes them.
Send(c) ==
  /\ call[c].at = "new"
  /\ \A d \in CallsOf(c[1]) : d[2] < c[2] => call[d].at # "new"
  /\ c[1] \notin sentAway
  /\ call' = [call EXCEPT ![c] = Sent(c, jar)]
  /\ UNCHANGED <<server, ended, isRefreshing, refreshQueue, flight, sentAway, jar>>

Answer(c, with, runs) ==
  /\ call[c].at = "sent"
  /\ call' = [call EXCEPT ![c] = Moved(c, with, call[c].retry, call[c].runs + runs)]
  /\ UNCHANGED <<server, ended, isRefreshing, refreshQueue, flight, sentAway, jar>>

\* The middleware Auth looks at the access token alone, never at a table.
Authorized(token) == token > expired

Refuse(c) ==
  /\ ~Authorized(call[c].token)
  /\ Answer(c, "unauthorized", 0)

\* The handler runs and carries the call out, whatever it answers; or refuses
\* with the status that the middleware uses, as ChangePassword does when the
\* current password is wrong.
Handle(c) ==
  /\ Authorized(call[c].token)
  /\ \/ Answer(c, "ok", 1)
     \/ Answer(c, "failed", 1)
     \/ Answer(c, "unauthorized", 0)

\* The request does not reach the server.
Drop(c) == Answer(c, "failed", 0)

-----------------------------------------------------------------------------
(* The interceptor.                                                        *)

\* Mutation: any failed call is tried again.
RefreshableAnyFailure(c) ==
  call[c].at \in {"unauthorized", "failed"} /\ ~call[c].retry

\* The answer is a 401 and the call has not led a refresh before.
Refreshable(c) == call[c].at = "unauthorized" /\ ~call[c].retry

Settle(c) ==
  /\ call[c].at \in {"ok", "failed", "unauthorized"}
  /\ ~Refreshable(c)
  /\ call' = [call EXCEPT ![c] = Settled]
  /\ UNCHANGED <<server, ended, isRefreshing, refreshQueue, flight, sentAway, jar>>

\* The callback joins refreshQueue; the call itself is not marked as a retry.
Enqueue(c) ==
  /\ Refreshable(c)
  /\ isRefreshing[c[1]]
  /\ call' = [call EXCEPT ![c] = Moved(c, "queued", call[c].retry, call[c].runs)]
  /\ refreshQueue' = [refreshQueue EXCEPT ![c[1]] = refreshQueue[c[1]] \cup {c}]
  /\ UNCHANGED <<server, ended, isRefreshing, flight, sentAway, jar>>

\* Mutation: the tab does not look whether it is refreshing already.
LeadUnguarded(c) ==
  /\ Refreshable(c)
  /\ call' = [call EXCEPT ![c] = Moved(c, "leading", TRUE, call[c].runs)]
  /\ isRefreshing' = [isRefreshing EXCEPT ![c[1]] = TRUE]
  /\ flight' = [flight EXCEPT ![c[1]] = Flight("sent", jar, 0)]
  /\ UNCHANGED <<server, ended, refreshQueue, sentAway, jar>>

Lead(c) ==
  /\ Refreshable(c)
  /\ ~isRefreshing[c[1]]
  /\ call' = [call EXCEPT ![c] = Moved(c, "leading", TRUE, call[c].runs)]
  /\ isRefreshing' = [isRefreshing EXCEPT ![c[1]] = TRUE]
  /\ flight' = [flight EXCEPT ![c[1]] = Flight("sent", jar, 0)]
  /\ UNCHANGED <<server, ended, refreshQueue, sentAway, jar>>

-----------------------------------------------------------------------------
(* The refresh on the server: AuthHandler.Refresh.  Its SQL is modelled    *)
(* statement by statement in Sessions; here it finds the row of the token, *)
(* and then replaces it.                                                   *)

FlightMoves(t, from, to) ==
  /\ flight[t].at = from
  /\ flight' = [flight EXCEPT ![t] = Flight(to, flight[t].token, flight[t].pair)]
  /\ UNCHANGED <<call, isRefreshing, refreshQueue, sentAway, jar>>
  /\ UNCHANGED expired

RefreshFind(t) ==
  /\ FlightMoves(t, "sent", IF flight[t].token \in live THEN "found" ELSE "unknown")
  /\ UNCHANGED <<issued, live, ended>>

\* The token is replaced, if it is still there, and a pair issued in any case.
RefreshRotate(t) ==
  /\ flight[t].at = "found"
  /\ issued < MaxPairs
  /\ issued' = issued + 1
  /\ live' = (live \ {flight[t].token}) \cup {issued + 1}
  /\ flight' = [flight EXCEPT ![t] = Flight("granted", flight[t].token, issued + 1)]
  /\ UNCHANGED <<call, isRefreshing, refreshQueue, sentAway, jar>>
  /\ UNCHANGED <<expired, ended>>

\* 429 from the rate limiter, 500, or no connection: nothing was changed.
RefreshTurnedDown(t) ==
  /\ FlightMoves(t, "sent", "refused") \/ FlightMoves(t, "found", "refused")
  /\ UNCHANGED <<issued, live, ended>>

\* The old row is deleted, and the new one cannot be inserted.
RefreshHalfDone(t) ==
  /\ FlightMoves(t, "found", "refused")
  /\ live' = live \ {flight[t].token}
  /\ ended' = TRUE
  /\ UNCHANGED <<issued>>

\* The answer with the new cookies is lost.
RefreshAnswerLost(t) ==
  /\ FlightMoves(t, "granted", "refused")
  /\ ended' = TRUE
  /\ UNCHANGED <<issued, live>>

-----------------------------------------------------------------------------
(* The answer of the refresh in its tab.  The callbacks run, the queue is  *)
(* emptied and isRefreshing reset without another event in between.        *)

Leaders(t) == {c \in CallsOf(t) : call[c].at = "leading"}

\* Mutation: the queue is emptied, but only the leader goes on.
WaitingLeaderOnly(t) == Leaders(t)

Waiting(t) == refreshQueue[t] \cup Leaders(t)

Land(t) ==
  /\ isRefreshing' = [isRefreshing EXCEPT ![t] = FALSE]
  /\ refreshQueue' = [refreshQueue EXCEPT ![t] = {}]
  /\ flight' = [flight EXCEPT ![t] = NoFlight]
  /\ UNCHANGED <<server, ended>>

RefreshOk(t) ==
  /\ flight[t].at = "granted"
  /\ jar' = flight[t].pair
  /\ call' = [c \in Calls |-> IF c \in Waiting(t) THEN Sent(c, flight[t].pair) ELSE call[c]]
  /\ Land(t)
  /\ UNCHANGED sentAway

\* Mutation: the backend clears the cookies when it does not know the token.
RefreshFailedClearing(t) ==
  /\ flight[t].at \in {"refused", "unknown"}
  /\ call' = [c \in Calls |-> IF c \in Waiting(t) THEN Settled ELSE call[c]]
  /\ sentAway' = sentAway \cup ({t} \ Public)
  /\ jar' = 0
  /\ Land(t)

\* Every waiting call is rejected; only a protected page gives way to /login.
RefreshFailed(t) ==
  /\ flight[t].at \in {"refused", "unknown"}
  /\ call' = [c \in Calls |-> IF c \in Waiting(t) THEN Settled ELSE call[c]]
  /\ sentAway' = sentAway \cup ({t} \ Public)
  /\ Land(t)
  /\ UNCHANGED jar

-----------------------------------------------------------------------------
\* Time passes: the oldest access token that is still good expires.
Expire ==
  /\ expired < issued
  /\ expired' = expired + 1
  /\ UNCHANGED <<client, issued, live, ended>>

\* The session ends: revoked from elsewhere, or by Logout in one of the tabs,
\* which also clears the cookies.
SignOut ==
  /\ ~ended
  /\ live' = {}
  /\ jar' \in {jar, 0}
  /\ ended' = TRUE
  /\ UNCHANGED <<call, isRefreshing, refreshQueue, flight, sentAway>>
  /\ UNCHANGED <<issued, expired>>

Init ==
  /\ call = [c \in Calls |-> [at |-> "new", token |-> 0, retry |-> FALSE, runs |-> 0]]
  /\ isRefreshing = [t \in Tabs |-> FALSE]
  /\ refreshQueue = [t \in Tabs |-> {}]
  /\ flight = [t \in Tabs |-> NoFlight]
  /\ sentAway = {}
  /\ jar = 1
  /\ issued = 1
  /\ expired = 0
  /\ live = {1}
  /\ ended = FALSE

Serve(c) == Refuse(c) \/ Handle(c) \/ Drop(c)
Intercept(c) == Settle(c) \/ Enqueue(c) \/ Lead(c)

ServeRefresh(t) ==
  \/ RefreshFind(t)
  \/ RefreshRotate(t)
  \/ RefreshTurnedDown(t)
  \/ RefreshHalfDone(t)

FinishRefresh(t) == RefreshOk(t) \/ RefreshFailed(t) \/ RefreshAnswerLost(t)

Next ==
  \/ \E c \in Calls : Send(c) \/ Serve(c) \/ Intercept(c)
  \/ \E t \in Tabs : ServeRefresh(t) \/ FinishRefresh(t)
  \/ Expire
  \/ SignOut

Spec == Init /\ [][Next]_vars

\* Every request gets an answer or a network error, and the event loop of a tab
\* gets round to it.  Nothing else has to happen.
Fairness ==
  /\ \A c \in Calls : WF_vars(Serve(c)) /\ WF_vars(Intercept(c))
  /\ \A t \in Tabs : WF_vars(ServeRefresh(t)) /\ WF_vars(FinishRefresh(t))

FairSpec == Spec /\ Fairness

-----------------------------------------------------------------------------
\* Types; and a call waits only while a refresh of its own tab is under way whose
\* answer will wake it: none sits in a queue that nobody empties.
TypeOK ==
  /\ call \in [Calls -> [at : {"new", "sent", "ok", "failed", "unauthorized", "queued",
                               "leading", "settled"},
                         token : 0..MaxPairs, retry : BOOLEAN, runs : Nat]]
  /\ isRefreshing \in [Tabs -> BOOLEAN]
  /\ refreshQueue \in [Tabs -> SUBSET Calls]
  /\ flight \in [Tabs -> [at : {"none", "sent", "found", "granted", "refused",
                                "unknown"},
                          token : 0..MaxPairs, pair : 0..MaxPairs]]
  /\ sentAway \subseteq Tabs
  /\ jar \in 0..MaxPairs
  /\ issued \in Pairs
  /\ expired \in 0..issued
  /\ live \subseteq 1..issued
  /\ ended \in BOOLEAN
  /\ \A t \in Tabs :
       /\ refreshQueue[t] = {c \in CallsOf(t) : call[c].at = "queued"}
       /\ refreshQueue[t] # {} => Leaders(t) # {}
       /\ Leaders(t) = {} <=> flight[t].at = "none"
       /\ \A c, d \in Leaders(t) : c = d

\* Retrying never repeats a call that was carried out: a POST that was answered
\* 401 had no effect, and any other answer is final.
CarriedOutOnce == \A c \in Calls : call[c].runs <= 1

\* The tabs race with each other over one rotating token, and still, as long as
\* the session was not ended, the browser holds the token that continues it or
\* has it in an answer on the way.
JarKeepsSession ==
  ended \/ jar \in live
        \/ \E t \in Tabs : flight[t].at = "granted" /\ flight[t].pair \in live

\* The calls that the page waits for.
Outstanding == {c \in Calls : call[c].at \notin {"new", "settled"}}

\* No call is left hanging: through however many refreshes, every promise the
\* tabs wait for is resolved or rejected in the end.
CallsSettle == Outstanding # {} ~> Outstanding = {}
=============================================================================
