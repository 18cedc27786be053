--------------------------- MODULE ApiClientProofs ----------------------------
(***************************************************************************)
(* For any number of tabs, calls and token pairs: the browser keeps the    *)
(* token that continues its session, no call is carried out twice, and a   *)
(* queue is never without a leader that will empty it.                     *)
(*                                                                         *)
(* The argument for the token: a pair that was granted is known to nobody  *)
(* until its answer arrives, so that no other refresh can spend it; and a  *)
(* refresh that spends the pair in the jar has another one to bring.       *)
(***************************************************************************)
EXTENDS ApiClient, TLAPS

Call ==
  [at : {"new", "sent", "ok", "failed", "unauthorized", "queued", "leading", "settled"},
   token : 0..MaxPairs, retry : BOOLEAN, runs : Nat]

RefreshCall ==
  [at : {"none", "sent", "found", "granted", "refused", "unknown"},
   token : 0..MaxPairs, pair : 0..MaxPairs]

Types ==
  /\ call \in [Calls -> Call]
  /\ isRefreshing \in [Tabs -> BOOLEAN]
  /\ refreshQueue \in [Tabs -> SUBSET Calls]
  /\ flight \in [Tabs -> RefreshCall]
  /\ sentAway \subseteq Tabs
  /\ jar \in 0..MaxPairs
  /\ issued \in Pairs
  /\ expired \in 0..issued
  /\ live \subseteq 1..issued
  /\ ended \in BOOLEAN

\* The flag, the queue, the leader and the refresh of a tab belong together.
Together(t) ==
  /\ isRefreshing[t] <=> flight[t].at # "none"
  /\ refreshQueue[t] \subseteq CallsOf(t)
  /\ \A c \in CallsOf(t) : c \in refreshQueue[t] <=> call[c].at = "queued"
  /\ refreshQueue[t] # {} => isRefreshing[t]
  /\ isRefreshing[t] <=> \E c \in CallsOf(t) : call[c].at = "leading"
  /\ \A c, d \in CallsOf(t) : call[c].at = "leading" /\ call[d].at = "leading" => c = d

AllTogether == \A t \in Tabs : Together(t)

\* What is sent again has not been carried out.
Runs ==
  \A c \in Calls :
    /\ call[c].runs <= 1
    /\ call[c].at \notin {"ok", "failed", "settled"} => call[c].runs = 0

\* Nobody knows a token that is not issued yet.
Known ==
  /\ jar <= issued
  /\ \A t \in Tabs : flight[t].token <= issued /\ flight[t].pair <= issued

\* A pair that was granted has a row, and nobody knows it before its answer is in.
Secret ==
  ~ended =>
    \A t \in Tabs : flight[t].at = "granted" =>
      /\ flight[t].pair \in live
      /\ jar # flight[t].pair
      /\ \A u \in Tabs : flight[u].token # flight[t].pair
      /\ \A u \in Tabs \ {t} :
           flight[u].at = "granted" => flight[u].pair # flight[t].pair

TokenInv == Known /\ Secret /\ JarKeepsSession

\* The inductive invariant.
ClientInv == Types /\ AllTogether /\ Runs /\ TokenInv

-----------------------------------------------------------------------------
\* A call belongs to one tab.
LEMMA Owner ==
  /\ \A c \in Calls : c[1] \in Tabs /\ c \in CallsOf(c[1])
  /\ \A t \in Tabs : CallsOf(t) \subseteq Calls /\ \A c \in CallsOf(t) : c[1] = t
<1>1. \A c \in Calls : c[1] \in Tabs
  <2>1. SUFFICES ASSUME NEW t \in Tabs, NEW c \in {t} \X (1..Quota[t])
                 PROVE  c[1] \in Tabs
    BY DEF Calls
  <2> QED BY <2>1
<1> QED BY <1>1 DEF CallsOf

LEMMA NoFlightType ==
  NoFlight \in RefreshCall /\ NoFlight.at = "none" /\ NoFlight.token = 0 /\ NoFlight.pair = 0
BY ApiClientAssumption DEF NoFlight, Flight, RefreshCall

LEMMA SettledType == Settled \in Call /\ Settled.at = "settled" /\ Settled.runs = 0
BY ApiClientAssumption DEF Settled, Call

LEMMA SentType ==
  ASSUME Types, NEW c \in Calls, NEW token \in 0..MaxPairs
  PROVE  /\ Sent(c, token) \in Call
         /\ Sent(c, token).at = "sent" /\ Sent(c, token).runs = call[c].runs
BY DEF Types, Call, Sent

LEMMA MovedType ==
  ASSUME Types, NEW c \in Calls,
         NEW at \in {"ok", "failed", "unauthorized", "queued", "leading"},
         NEW retry \in BOOLEAN, NEW runs \in Nat
  PROVE  /\ Moved(c, at, retry, runs) \in Call
         /\ Moved(c, at, retry, runs).at = at /\ Moved(c, at, retry, runs).runs = runs
BY DEF Types, Call, Moved

\* One call moves, and nothing else.
LEMMA CallEffect ==
  ASSUME Types, NEW c \in Calls, NEW x \in Call, call' = [call EXCEPT ![c] = x]
  PROVE  /\ call' \in [Calls -> Call]
         /\ call'[c] = x
         /\ \A d \in Calls \ {c} : call'[d] = call[d]
BY DEF Types

\* One refresh moves, and nothing else.
LEMMA FlightEffect ==
  ASSUME Types, NEW t \in Tabs, NEW x \in RefreshCall, flight' = [flight EXCEPT ![t] = x]
  PROVE  /\ flight' \in [Tabs -> RefreshCall]
         /\ flight'[t] = x
         /\ \A u \in Tabs \ {t} : flight'[u] = flight[u]
BY DEF Types

-----------------------------------------------------------------------------
(* Calls.                                                                  *)

\* A call that neither waits nor leads, before or after.
LEMMA QuietStep ==
  ASSUME ClientInv, NEW c \in Calls, NEW x \in Call, call' = [call EXCEPT ![c] = x],
         UNCHANGED <<isRefreshing, refreshQueue, flight, sentAway, jar>>,
         UNCHANGED <<issued, expired, live, ended>>,
         call[c].at \notin {"queued", "leading"}, x.at \notin {"queued", "leading"},
         x.runs <= 1, x.at \notin {"ok", "failed", "settled"} => x.runs = 0
  PROVE  ClientInv'
<1>1. Types /\ AllTogether /\ Runs /\ TokenInv
  BY DEF ClientInv
<1>2. /\ call' \in [Calls -> Call]
      /\ call'[c] = x
      /\ \A d \in Calls \ {c} : call'[d] = call[d]
  BY <1>1, CallEffect
<1>3. Types'
  BY <1>1, <1>2 DEF Types
<1>4. \A d \in Calls : /\ call'[d].at = "queued" <=> call[d].at = "queued"
                       /\ call'[d].at = "leading" <=> call[d].at = "leading"
  BY <1>2
<1>5. AllTogether'
  BY <1>1, <1>4, Owner DEF AllTogether, Together
<1>6. Runs'
  BY <1>1, <1>2 DEF Runs
<1>7. TokenInv'
  BY <1>1 DEF TokenInv, Known, Secret, JarKeepsSession
<1> QED BY <1>3, <1>5, <1>6, <1>7 DEF ClientInv

LEMMA CallStep ==
  ASSUME ClientInv, NEW c \in Calls, Send(c) \/ Serve(c) \/ Settle(c)
  PROVE  ClientInv'
<1>1. Types /\ Runs
  BY DEF ClientInv
<1>2. UNCHANGED <<isRefreshing, refreshQueue, flight, sentAway, jar>>
      /\ UNCHANGED <<issued, expired, live, ended>>
  BY DEF Send, Serve, Settle, Refuse, Handle, Drop, Answer, server
<1>3. CASE Send(c)
  <2>1. jar \in 0..MaxPairs /\ call[c].at = "new" /\ call' = [call EXCEPT ![c] = Sent(c, jar)]
    BY <1>1, <1>3 DEF Types, Send
  <2> DEFINE x == Sent(c, jar)
  <2>2. x \in Call /\ x.at = "sent" /\ x.runs = 0
    BY <1>1, <2>1, SentType DEF Runs
  <2>3. call' = [call EXCEPT ![c] = x]
    BY <2>1
  <2>4. x.runs <= 1 /\ x.at \notin {"queued", "leading"}
        /\ call[c].at \notin {"queued", "leading"}
    BY <2>1, <2>2
  <2> HIDE DEF x
  <2> QED BY <1>2, <2>2, <2>3, <2>4, QuietStep
<1>4. CASE Serve(c)
  <2>1. PICK with \in {"ok", "failed", "unauthorized"}, runs \in {0, 1} :
          /\ Answer(c, with, runs)
          /\ with = "unauthorized" => runs = 0
    BY <1>4 DEF Serve, Refuse, Handle, Drop
  <2>2. /\ call[c].at = "sent" /\ call[c].runs = 0 /\ call[c].retry \in BOOLEAN
        /\ call' = [call EXCEPT ![c] = Moved(c, with, call[c].retry, call[c].runs + runs)]
    BY <1>1, <2>1 DEF Answer, Runs, Types, Call
  <2>3. call[c].runs + runs = runs /\ runs \in Nat /\ runs <= 1
    BY <2>2
  <2> DEFINE x == Moved(c, with, call[c].retry, runs)
  <2>4. x \in Call /\ x.at = with /\ x.runs = runs
    BY <1>1, <2>2, <2>3, MovedType
  <2>5. call' = [call EXCEPT ![c] = x]
    BY <2>2, <2>3
  <2> HIDE DEF x
  <2> QED BY <1>2, <2>1, <2>2, <2>3, <2>4, <2>5, QuietStep
<1>5. CASE Settle(c)
  <2> DEFINE x == Settled
  <2>1. x \in Call /\ x.at = "settled" /\ x.runs = 0
    BY SettledType
  <2>2. call[c].at \in {"ok", "failed", "unauthorized"} /\ call' = [call EXCEPT ![c] = x]
    BY <1>5 DEF Settle
  <2>3. x.runs <= 1 /\ x.at \notin {"queued", "leading"}
        /\ call[c].at \notin {"queued", "leading"}
    BY <2>1, <2>2
  <2> HIDE DEF x
  <2> QED BY <1>2, <2>1, <2>2, <2>3, QuietStep
<1> QED BY <1>3, <1>4, <1>5

LEMMA EnqueueStep ==
  ASSUME ClientInv, NEW c \in Calls, Enqueue(c)
  PROVE  ClientInv'
<1>1. Types /\ AllTogether /\ Runs /\ TokenInv
  BY DEF ClientInv
<1>2. /\ call[c].at = "unauthorized" /\ isRefreshing[c[1]]
      /\ call' = [call EXCEPT ![c] = Moved(c, "queued", call[c].retry, call[c].runs)]
      /\ refreshQueue' = [refreshQueue EXCEPT ![c[1]] = refreshQueue[c[1]] \cup {c}]
      /\ UNCHANGED <<isRefreshing, flight, sentAway, jar, issued, expired, live, ended>>
  BY DEF Enqueue, Refreshable, server
<1>3. call[c].runs = 0 /\ call[c].retry \in BOOLEAN
  BY <1>1, <1>2 DEF Runs, Types, Call
<1> DEFINE x == Moved(c, "queued", call[c].retry, call[c].runs)
<1>4. x \in Call /\ x.at = "queued" /\ x.runs = 0
  BY <1>1, <1>3, MovedType
<1>5. call' = [call EXCEPT ![c] = x]
  BY <1>2
<1> HIDE DEF x
<1>6. /\ call' \in [Calls -> Call]
      /\ call'[c] = x
      /\ \A d \in Calls \ {c} : call'[d] = call[d]
  BY <1>1, <1>4, <1>5, CallEffect
<1>7. /\ refreshQueue' \in [Tabs -> SUBSET Calls]
      /\ refreshQueue'[c[1]] = refreshQueue[c[1]] \cup {c}
      /\ \A t \in Tabs \ {c[1]} : refreshQueue'[t] = refreshQueue[t]
  BY <1>1, <1>2, Owner DEF Types
<1>8. Types'
  BY <1>1, <1>2, <1>6, <1>7 DEF Types
<1>9. Runs'
  BY <1>1, <1>4, <1>6 DEF Runs
<1>10. TokenInv'
  BY <1>1, <1>2 DEF TokenInv, Known, Secret, JarKeepsSession
<1>11. AllTogether'
  <2>1. SUFFICES ASSUME NEW t \in Tabs PROVE Together(t)'
    BY DEF AllTogether
  <2>2. Together(t) /\ CallsOf(t) \subseteq Calls
    BY <1>1, Owner DEF AllTogether
  <2>3. \A d \in CallsOf(t) : call'[d].at = "leading" <=> call[d].at = "leading"
    BY <1>2, <1>4, <1>6, <2>2
  <2>4. CASE t = c[1]
    <3>1. c \in CallsOf(t)
      BY <2>4, Owner
    <3>2. \A d \in CallsOf(t) : d \in refreshQueue'[t] <=> call'[d].at = "queued"
      BY <1>4, <1>6, <1>7, <2>2, <2>4 DEF Together
    <3> QED BY <1>2, <1>7, <2>2, <2>3, <2>4, <3>1, <3>2 DEF Together
  <2>5. CASE t # c[1]
    <3>1. \A d \in CallsOf(t) : d \in Calls \ {c}
      BY <2>2, <2>5, Owner
    <3> QED BY <1>2, <1>6, <1>7, <2>2, <2>5, <3>1 DEF Together
  <2> QED BY <2>4, <2>5
<1> QED BY <1>8, <1>9, <1>10, <1>11 DEF ClientInv

LEMMA LeadStep ==
  ASSUME ClientInv, NEW c \in Calls, Lead(c)
  PROVE  ClientInv'
<1>1. Types /\ AllTogether /\ Runs /\ TokenInv
  BY DEF ClientInv
<1>2. /\ call[c].at = "unauthorized" /\ ~isRefreshing[c[1]]
      /\ call' = [call EXCEPT ![c] = Moved(c, "leading", TRUE, call[c].runs)]
      /\ isRefreshing' = [isRefreshing EXCEPT ![c[1]] = TRUE]
      /\ flight' = [flight EXCEPT ![c[1]] = Flight("sent", jar, 0)]
      /\ UNCHANGED <<refreshQueue, sentAway, jar, issued, expired, live, ended>>
  BY DEF Lead, Refreshable, server
<1>3. call[c].runs = 0 /\ jar \in 0..MaxPairs /\ 0 \in 0..MaxPairs /\ c[1] \in Tabs
  BY <1>1, <1>2, Owner, ApiClientAssumption DEF Runs, Types
<1> DEFINE x == Moved(c, "leading", TRUE, call[c].runs)
<1>4. x \in Call /\ x.at = "leading" /\ x.runs = 0
  BY <1>1, <1>3 DEF Moved, Types, Call
<1>5. call' = [call EXCEPT ![c] = x]
  BY <1>2
<1> HIDE DEF x
<1>6. /\ call' \in [Calls -> Call]
      /\ call'[c] = x
      /\ \A d \in Calls \ {c} : call'[d] = call[d]
  BY <1>1, <1>4, <1>5, CallEffect
<1>7. /\ isRefreshing' \in [Tabs -> BOOLEAN]
      /\ isRefreshing'[c[1]]
      /\ \A t \in Tabs \ {c[1]} : isRefreshing'[t] = isRefreshing[t]
  BY <1>1, <1>2, <1>3 DEF Types
<1>8. /\ flight' \in [Tabs -> RefreshCall]
      /\ flight'[c[1]].at = "sent" /\ flight'[c[1]].token = jar /\ flight'[c[1]].pair = 0
      /\ \A t \in Tabs \ {c[1]} : flight'[t] = flight[t]
  <2> DEFINE y == Flight("sent", jar, 0)
  <2>1. y \in RefreshCall /\ y.at = "sent" /\ y.token = jar /\ y.pair = 0
    BY <1>3 DEF Flight, RefreshCall
  <2>2. flight' = [flight EXCEPT ![c[1]] = y]
    BY <1>2
  <2> HIDE DEF y
  <2> QED BY <1>1, <1>3, <2>1, <2>2, FlightEffect
<1>9. Types'
  BY <1>1, <1>2, <1>6, <1>7, <1>8 DEF Types
<1>10. Runs'
  BY <1>1, <1>4, <1>6 DEF Runs
<1>11. flight[c[1]].at # "granted"
  BY <1>1, <1>2, <1>3 DEF AllTogether, Together
<1>12. TokenInv'
  <2>1. Known'
    BY <1>1, <1>2, <1>3, <1>8 DEF TokenInv, Known, Types, Pairs
  <2>2. Secret'
    BY <1>1, <1>2, <1>3, <1>8 DEF TokenInv, Secret
  <2>3. JarKeepsSession'
    BY <1>1, <1>2, <1>8, <1>11 DEF TokenInv, JarKeepsSession
  <2> QED BY <2>1, <2>2, <2>3 DEF TokenInv
<1>13. AllTogether'
  <2>1. SUFFICES ASSUME NEW t \in Tabs PROVE Together(t)'
    BY DEF AllTogether
  <2>2. Together(t) /\ CallsOf(t) \subseteq Calls
    BY <1>1, Owner DEF AllTogether
  <2>3. \A d \in CallsOf(t) : call'[d].at = "queued" <=> call[d].at = "queued"
    BY <1>2, <1>4, <1>6, <2>2
  <2>4. CASE t = c[1]
    <3>1. c \in CallsOf(t)
      BY <2>4, Owner
    <3>2. \A d \in CallsOf(t) : call'[d].at = "leading" <=> d = c
      BY <1>2, <1>4, <1>6, <2>2, <2>4 DEF Together
    <3>3. isRefreshing'[t] /\ flight'[t].at # "none" /\ refreshQueue'[t] = refreshQueue[t]
      BY <1>2, <1>7, <1>8, <2>4
    <3> QED BY <2>2, <2>3, <3>1, <3>2, <3>3 DEF Together
  <2>5. CASE t # c[1]
    <3>1. \A d \in CallsOf(t) : d \in Calls \ {c}
      BY <2>2, <2>5, Owner
    <3> QED BY <1>2, <1>6, <1>7, <1>8, <2>2, <2>5, <3>1 DEF Together
  <2> QED BY <2>4, <2>5
<1> QED BY <1>9, <1>10, <1>12, <1>13 DEF ClientInv

-----------------------------------------------------------------------------
(* Refreshes.                                                              *)

\* A refresh goes on, and its tab does not know yet.
LEMMA OnTheWay ==
  ASSUME ClientInv, NEW t \in Tabs, NEW x \in RefreshCall,
         flight' = [flight EXCEPT ![t] = x],
         flight[t].at # "none", x.at # "none",
         UNCHANGED <<call, isRefreshing, refreshQueue, sentAway, jar, expired>>
  PROVE  /\ AllTogether' /\ Runs'
         /\ flight' \in [Tabs -> RefreshCall] /\ flight'[t] = x
         /\ \A u \in Tabs \ {t} : flight'[u] = flight[u]
<1>1. Types /\ AllTogether /\ Runs
  BY DEF ClientInv
<1>2. /\ flight' \in [Tabs -> RefreshCall] /\ flight'[t] = x
      /\ \A u \in Tabs \ {t} : flight'[u] = flight[u]
  BY <1>1, FlightEffect
<1>3. \A u \in Tabs : flight'[u].at # "none" <=> flight[u].at # "none"
  BY <1>2
<1>4. AllTogether'
  BY <1>1, <1>3 DEF AllTogether, Together
<1>5. Runs'
  BY <1>1 DEF Runs
<1> QED BY <1>2, <1>4, <1>5

\* The row is found, or the refresh fails, before or after it did something.
LEMMA MoveStep ==
  ASSUME ClientInv, NEW t \in Tabs, NEW from \in {"sent", "found", "granted"},
         NEW to \in {"found", "unknown", "refused"}, FlightMoves(t, from, to),
         UNCHANGED issued, live' \subseteq live,
         \/ UNCHANGED <<live, ended>> /\ from # "granted"
         \/ ended' = TRUE
  PROVE  ClientInv'
<1>1. Types /\ TokenInv
  BY DEF ClientInv
<1> DEFINE x == Flight(to, flight[t].token, flight[t].pair)
<1>2. /\ x \in RefreshCall /\ x.at = to
      /\ x.token = flight[t].token /\ x.pair = flight[t].pair
  BY <1>1 DEF Flight, RefreshCall, Types
<1>3. /\ flight' = [flight EXCEPT ![t] = x] /\ flight[t].at = from
      /\ UNCHANGED <<call, isRefreshing, refreshQueue, sentAway, jar, expired>>
  BY DEF FlightMoves
<1> HIDE DEF x
<1>4. /\ AllTogether' /\ Runs' /\ flight' \in [Tabs -> RefreshCall] /\ flight'[t] = x
      /\ \A u \in Tabs \ {t} : flight'[u] = flight[u]
  BY <1>2, <1>3, OnTheWay
<1>5. Types'
  BY <1>1, <1>3, <1>4 DEF Types
<1>6. \A u \in Tabs : /\ flight'[u].token = flight[u].token
                      /\ flight'[u].pair = flight[u].pair
                      /\ flight'[u].at = "granted" => flight[u].at = "granted" /\ u # t
  BY <1>2, <1>4
<1>7. Known'
  BY <1>1, <1>3, <1>6 DEF TokenInv, Known
<1>8. Secret'
  BY <1>1, <1>3, <1>6 DEF TokenInv, Secret
<1>9. JarKeepsSession'
  BY <1>1, <1>3, <1>4 DEF TokenInv, JarKeepsSession
<1> QED BY <1>4, <1>5, <1>7, <1>8, <1>9 DEF ClientInv, TokenInv

LEMMA RotateStep ==
  ASSUME ClientInv, NEW t \in Tabs, RefreshRotate(t)
  PROVE  ClientInv'
<1>1. Types /\ TokenInv
  BY DEF ClientInv
<1>2. /\ flight[t].at = "found" /\ issued < MaxPairs /\ issued' = issued + 1
      /\ live' = (live \ {flight[t].token}) \cup {issued + 1}
      /\ UNCHANGED <<call, isRefreshing, refreshQueue, sentAway, jar, expired, ended>>
  BY DEF RefreshRotate
<1> DEFINE x == Flight("granted", flight[t].token, issued + 1)
<1>3. /\ x \in RefreshCall /\ x.at = "granted"
      /\ x.token = flight[t].token /\ x.pair = issued + 1
  BY <1>1, <1>2, ApiClientAssumption DEF Flight, RefreshCall, Types, Pairs
<1>4. flight' = [flight EXCEPT ![t] = x]
  BY DEF RefreshRotate
<1> HIDE DEF x
<1>5. /\ AllTogether' /\ Runs' /\ flight' \in [Tabs -> RefreshCall] /\ flight'[t] = x
      /\ \A u \in Tabs \ {t} : flight'[u] = flight[u]
  BY <1>2, <1>3, <1>4, OnTheWay
<1>6. Types'
  <2>1. issued' \in Pairs /\ expired' \in 0..issued' /\ live' \subseteq 1..issued'
    <3>1. issued \in 1..MaxPairs /\ MaxPairs \in Nat /\ expired \in 0..issued
      BY <1>1, ApiClientAssumption DEF Types, Pairs
    <3>2. issued' \in Pairs /\ expired' \in 0..issued'
      BY <1>2, <3>1 DEF Pairs
    <3>3. \A p \in live' : p \in 1..issued + 1
      <4>1. \A p \in live : p \in 1..issued
        BY <1>1 DEF Types
      <4>2. issued + 1 \in 1..issued + 1 /\ 1..issued \subseteq 1..issued + 1
        BY <3>1
      <4> QED BY <1>2, <4>1, <4>2
    <3> QED BY <1>2, <3>2, <3>3
  <2> QED BY <1>1, <1>2, <1>5, <2>1 DEF Types
<1>7. /\ jar # issued + 1
      /\ \A u \in Tabs : flight[u].token # issued + 1 /\ flight[u].pair # issued + 1
  BY <1>1, <1>2 DEF TokenInv, Known, Types, RefreshCall, Pairs
<1>8. Known'
  <2>1. jar <= issued + 1
    BY <1>1, <1>2 DEF TokenInv, Known, Types, Pairs
  <2>2. \A u \in Tabs : flight[u].token <= issued + 1 /\ flight[u].pair <= issued + 1
    BY <1>1, <1>2 DEF TokenInv, Known, Types, Pairs, RefreshCall
  <2>3. issued + 1 <= issued + 1
    BY <1>1 DEF Types, Pairs
  <2> QED BY <1>2, <1>3, <1>5, <2>1, <2>2, <2>3 DEF Known
<1>9. Secret'
  BY <1>1, <1>2, <1>3, <1>5, <1>7 DEF TokenInv, Secret
<1>10. JarKeepsSession'
  BY <1>2, <1>3, <1>5 DEF JarKeepsSession
<1> QED BY <1>5, <1>6, <1>8, <1>9, <1>10 DEF ClientInv, TokenInv

LEMMA ServeRefreshStep ==
  ASSUME ClientInv, NEW t \in Tabs, ServeRefresh(t) \/ RefreshAnswerLost(t)
  PROVE  ClientInv'
<1>1. CASE RefreshRotate(t)
  BY <1>1, RotateStep
<1>2. CASE RefreshFind(t)
  BY <1>2, MoveStep DEF RefreshFind
<1>3. CASE RefreshTurnedDown(t)
  BY <1>3, MoveStep DEF RefreshTurnedDown
<1>4. CASE RefreshHalfDone(t)
  BY <1>4, MoveStep DEF RefreshHalfDone
<1>5. CASE RefreshAnswerLost(t)
  BY <1>5, MoveStep DEF RefreshAnswerLost
<1> QED BY <1>1, <1>2, <1>3, <1>4, <1>5 DEF ServeRefresh

\* The answer is in: whoever waited goes on, and nobody waits any more.
LEMMA LandStep ==
  ASSUME ClientInv, NEW t \in Tabs, RefreshOk(t) \/ RefreshFailed(t)
  PROVE  ClientInv'
<1>1. Types /\ AllTogether /\ Runs /\ TokenInv
  BY DEF ClientInv
<1>2. /\ isRefreshing' = [isRefreshing EXCEPT ![t] = FALSE]
      /\ refreshQueue' = [refreshQueue EXCEPT ![t] = {}]
      /\ flight' = [flight EXCEPT ![t] = NoFlight]
      /\ UNCHANGED <<issued, expired, live, ended>>
  BY DEF RefreshOk, RefreshFailed, Land, server
<1>3. /\ flight' \in [Tabs -> RefreshCall] /\ flight'[t] = NoFlight
      /\ \A u \in Tabs \ {t} : flight'[u] = flight[u]
  BY <1>1, <1>2, NoFlightType, FlightEffect
<1>4. /\ isRefreshing' \in [Tabs -> BOOLEAN] /\ ~isRefreshing'[t]
      /\ refreshQueue' \in [Tabs -> SUBSET Calls] /\ refreshQueue'[t] = {}
      /\ \A u \in Tabs \ {t} : /\ isRefreshing'[u] = isRefreshing[u]
                               /\ refreshQueue'[u] = refreshQueue[u]
  BY <1>1, <1>2 DEF Types
<1>5. flight[t].pair \in 0..MaxPairs
  BY <1>1 DEF Types, RefreshCall
<1>6. \A c \in Calls :
        c \in Waiting(t) <=> c[1] = t /\ call[c].at \in {"queued", "leading"}
  BY <1>1, Owner DEF Waiting, Leaders, AllTogether, Together
<1>7. /\ call' \in [Calls -> Call]
      /\ \A c \in Calls :
           /\ c \notin Waiting(t) => call'[c] = call[c]
           /\ c \in Waiting(t) => \/ call'[c].at = "sent" /\ call'[c].runs = call[c].runs
                                  \/ call'[c].at = "settled" /\ call'[c].runs = 0
  <2>1. CASE RefreshOk(t)
    <3>1. call' = [c \in Calls |-> IF c \in Waiting(t) THEN Sent(c, flight[t].pair) ELSE call[c]]
      BY <2>1 DEF RefreshOk
    <3>2. \A c \in Calls : /\ Sent(c, flight[t].pair) \in Call
                           /\ Sent(c, flight[t].pair).at = "sent"
                           /\ Sent(c, flight[t].pair).runs = call[c].runs
      BY <1>1, <1>5, SentType
    <3> QED BY <1>1, <3>1, <3>2 DEF Types
  <2>2. CASE RefreshFailed(t)
    <3>1. call' = [c \in Calls |-> IF c \in Waiting(t) THEN Settled ELSE call[c]]
      BY <2>2 DEF RefreshFailed
    <3> QED BY <1>1, <3>1, SettledType DEF Types
  <2> QED BY <2>1, <2>2
<1>8. sentAway' \subseteq Tabs
  BY <1>1 DEF RefreshOk, RefreshFailed, Types
<1>9. jar' \in 0..MaxPairs
  BY <1>1, <1>5 DEF RefreshOk, RefreshFailed, Types
<1>10. Types'
  BY <1>1, <1>2, <1>3, <1>4, <1>7, <1>8, <1>9 DEF Types
<1>11. Runs'
  BY <1>1, <1>6, <1>7 DEF Runs
<1>12. AllTogether'
  <2>1. SUFFICES ASSUME NEW u \in Tabs PROVE Together(u)'
    BY DEF AllTogether
  <2>2. Together(u) /\ \A c \in CallsOf(u) : c \in Calls /\ c[1] = u
    BY <1>1, Owner DEF AllTogether
  <2>3. CASE u = t
    <3>1. \A c \in CallsOf(u) : call'[c].at \notin {"queued", "leading"}
      BY <1>6, <1>7, <2>2, <2>3
    <3> QED BY <1>3, <1>4, <2>3, <3>1, NoFlightType DEF Together
  <2>4. CASE u # t
    <3>1. \A c \in CallsOf(u) : call'[c] = call[c]
      BY <1>6, <1>7, <2>2, <2>4
    <3> QED BY <1>3, <1>4, <2>2, <2>4, <3>1 DEF Together
  <2> QED BY <2>3, <2>4
<1>13. jar' = jar \/ jar' = flight[t].pair
  BY DEF RefreshOk, RefreshFailed
<1>14. Known'
  <2>1. issued \in Nat
    BY <1>1 DEF Types, Pairs
  <2>2. flight[t].pair <= issued /\ jar <= issued /\ 0 <= issued
    BY <1>1, <2>1 DEF TokenInv, Known
  <2> QED BY <1>1, <1>2, <1>3, <1>13, <2>2, NoFlightType DEF TokenInv, Known
<1>15. Secret' /\ JarKeepsSession'
  <2>1. SUFFICES ASSUME ~ended PROVE Secret' /\ JarKeepsSession'
    BY <1>2 DEF Secret, JarKeepsSession
  <2>2. \A u \in Tabs : flight'[u].at = "granted" => u # t /\ flight'[u] = flight[u]
    BY <1>3, NoFlightType
  <2>3. \A u \in Tabs : flight[u].at = "granted" => flight[u].pair \in live /\ flight[u].pair # 0
    BY <1>1, <2>1 DEF TokenInv, Secret, Types
  <2>4. CASE RefreshOk(t)
    <3>1. jar' = flight[t].pair /\ flight[t].at = "granted"
      BY <2>4 DEF RefreshOk
    <3>2. JarKeepsSession'
      BY <1>2, <2>3, <3>1 DEF JarKeepsSession
    <3>3. Secret'
      BY <1>1, <1>2, <1>3, <2>1, <2>2, <2>3, <3>1, NoFlightType DEF TokenInv, Secret
    <3> QED BY <3>2, <3>3
  <2>5. CASE RefreshFailed(t)
    <3>1. jar' = jar /\ flight[t].at # "granted"
      BY <2>5 DEF RefreshFailed
    <3>2. JarKeepsSession'
      BY <1>1, <1>2, <1>3, <3>1 DEF TokenInv, JarKeepsSession
    <3>3. Secret'
      BY <1>1, <1>2, <1>3, <2>1, <2>2, <2>3, <3>1, NoFlightType DEF TokenInv, Secret
    <3> QED BY <3>2, <3>3
  <2> QED BY <2>4, <2>5
<1> QED BY <1>10, <1>11, <1>12, <1>14, <1>15 DEF ClientInv, TokenInv

-----------------------------------------------------------------------------
(* The rest.                                                               *)

LEMMA ExpireStep ==
  ASSUME ClientInv, Expire
  PROVE  ClientInv'
<1>1. /\ UNCHANGED <<call, isRefreshing, refreshQueue, flight, sentAway, jar, issued, live, ended>>
      /\ expired < issued /\ expired' = expired + 1
  BY DEF Expire, client
<1>2. Types'
  <2>1. expired' \in 0..issued
    BY <1>1 DEF ClientInv, Types, Pairs
  <2> QED BY <1>1, <2>1 DEF ClientInv, Types
<1>3. AllTogether' /\ Runs' /\ TokenInv'
  BY <1>1 DEF ClientInv, AllTogether, Together, Runs, TokenInv, Known, Secret, JarKeepsSession
<1> QED BY <1>2, <1>3 DEF ClientInv

LEMMA SignOutStep ==
  ASSUME ClientInv, SignOut
  PROVE  ClientInv'
<1>1. /\ UNCHANGED <<call, isRefreshing, refreshQueue, flight, sentAway, issued, expired>>
      /\ live' = {} /\ jar' \in {jar, 0} /\ ended' = TRUE
  BY DEF SignOut
<1>2. Types'
  BY <1>1, ApiClientAssumption DEF ClientInv, Types
<1>3. AllTogether' /\ Runs'
  BY <1>1 DEF ClientInv, AllTogether, Together, Runs
<1>4. Known'
  BY <1>1 DEF ClientInv, TokenInv, Known, Types, Pairs
<1>5. Secret' /\ JarKeepsSession'
  BY <1>1 DEF Secret, JarKeepsSession
<1> QED BY <1>2, <1>3, <1>4, <1>5 DEF ClientInv, TokenInv

LEMMA InitHolds == Init => ClientInv
<1> SUFFICES ASSUME Init PROVE ClientInv
  OBVIOUS
<1>1. Types
  <2>1. MaxPairs \in Nat \ {0}
    BY ApiClientAssumption
  <2>2. call \in [Calls -> Call]
    <3>1. [at |-> "new", token |-> 0, retry |-> FALSE, runs |-> 0] \in Call
      BY <2>1 DEF Call
    <3> QED BY <3>1 DEF Init
  <2>3. flight \in [Tabs -> RefreshCall]
    BY NoFlightType DEF Init
  <2>4. isRefreshing \in [Tabs -> BOOLEAN] /\ refreshQueue \in [Tabs -> SUBSET Calls]
    BY DEF Init
  <2>5. /\ sentAway \subseteq Tabs /\ jar \in 0..MaxPairs /\ issued \in Pairs
        /\ expired \in 0..issued /\ ended \in BOOLEAN
    <3>1. sentAway = {} /\ jar = 1 /\ issued = 1 /\ expired = 0 /\ ended = FALSE
      BY DEF Init
    <3>2. 1 \in 0..MaxPairs /\ 1 \in 1..MaxPairs /\ 0 \in 0..1
      BY <2>1
    <3> QED BY <3>1, <3>2 DEF Pairs
  <2>6. live \subseteq 1..issued
    <3>1. live = {1} /\ issued = 1
      BY DEF Init
    <3>2. 1 \in 1..1
      OBVIOUS
    <3> QED BY <3>1, <3>2
  <2> QED BY <2>2, <2>3, <2>4, <2>5, <2>6 DEF Types
<1>2. AllTogether
  BY NoFlightType, Owner DEF Init, AllTogether, Together
<1>3. Runs
  BY DEF Init, Runs
<1>4. Known /\ Secret /\ JarKeepsSession
  BY NoFlightType DEF Init, Known, Secret, JarKeepsSession
<1> QED BY <1>1, <1>2, <1>3, <1>4 DEF ClientInv, TokenInv

LEMMA NextHolds == ClientInv /\ [Next]_vars => ClientInv'
<1> SUFFICES ASSUME ClientInv, [Next]_vars PROVE ClientInv'
  OBVIOUS
<1>1. CASE UNCHANGED vars
  BY <1>1
  DEF vars, client, server, ClientInv, Types, AllTogether, Together, Runs, TokenInv, Known,
      Secret, JarKeepsSession
<1>2. ASSUME NEW t \in Tabs, FinishRefresh(t)
      PROVE  ClientInv'
  BY <1>2, LandStep, ServeRefreshStep DEF FinishRefresh
<1>3. ASSUME NEW c \in Calls, Intercept(c)
      PROVE  ClientInv'
  BY <1>3, CallStep, EnqueueStep, LeadStep DEF Intercept
<1> QED
  BY <1>1, <1>2, <1>3, CallStep, ServeRefreshStep, ExpireStep, SignOutStep DEF Next

\* The invariant of the interceptor in all tabs, for any number of tabs, calls and
\* token pairs.
THEOREM ClientHolds == Spec => []ClientInv
BY InitHolds, NextHolds, PTL DEF Spec

\* Types, and no call of a tab sits in refreshQueue without a leader that wakes it.
THEOREM TypeCorrect == Spec => []TypeOK
<1>1. ClientInv => TypeOK
  <2> SUFFICES ASSUME ClientInv PROVE TypeOK
    OBVIOUS
  <2>1. Types /\ \A t \in Tabs : Together(t)
    BY DEF ClientInv, AllTogether
  <2>2. ASSUME NEW t \in Tabs
        PROVE  /\ refreshQueue[t] = {c \in CallsOf(t) : call[c].at = "queued"}
               /\ refreshQueue[t] # {} => Leaders(t) # {}
               /\ Leaders(t) = {} <=> flight[t].at = "none"
               /\ \A c, d \in Leaders(t) : c = d
    BY <2>1 DEF Together, Leaders
  <2> QED BY <2>1, <2>2 DEF Types, TypeOK, Call, RefreshCall
<1> QED BY <1>1, ClientHolds, PTL

\* Retrying after a refresh never repeats a call that had an effect.
THEOREM CallsRunOnce == Spec => []CarriedOutOnce
<1>1. ClientInv => CarriedOutOnce
  BY DEF ClientInv, Runs, CarriedOutOnce
<1> QED BY <1>1, ClientHolds, PTL

\* However many tabs refresh with the same token at once, the browser keeps one
\* that continues its session, unless the session was ended or an answer lost.
THEOREM SessionIsKept == Spec => []JarKeepsSession
<1>1. ClientInv => JarKeepsSession
  BY DEF ClientInv, TokenInv
<1> QED BY <1>1, ClientHolds, PTL
=============================================================================
