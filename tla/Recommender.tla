---------------------------- MODULE Recommender ----------------------------
(***************************************************************************)
(* The recommender page (Recommender.tsx) and its store, on top of         *)
(* Recommendations.  Each user has one page open.  A page sends a load     *)
(* without cancelling or numbering the ones before, and shows what comes   *)
(* back; the topic can be changed while a load is under way.               *)
(***************************************************************************)
EXTENDS Recommendations

CONSTANT Users

VARIABLES
  page,    \* the store of each user's page
  loads,   \* the loads each page waits for
  crossed  \* history: since a page last waited for nothing, two of its loads
           \* have overlapped

pageVars == <<page, loads, crossed>>
vars == <<serverVars, pageVars>>

-----------------------------------------------------------------------------
Blank ==
  [structured |-> None, loading |-> FALSE, error |-> FALSE, topic |-> AnyTopic]

\* load() up to its await: the request asks for `wanted', and `topic' is selected.
Load(u, p, wanted, topic) ==
  /\ Begin(p, wanted) \/ Refuse(p, wanted)
  /\ page' = [page EXCEPT ![u].topic = topic, ![u].loading = TRUE, ![u].error = FALSE]
  /\ loads' = [loads EXCEPT ![u] = @ \cup {p}]
  /\ crossed' = [crossed EXCEPT ![u] = loads[u] # {}]

\* The buttons "Load" and "Refresh" are disabled during a load.
PressLoad(u, p) ==
  /\ ~page[u].loading
  /\ Load(u, p, page[u].topic, page[u].topic)

\* Mutation: the load asks for the topic of the last render.
SelectTopicStale(u, p, topic) ==
  /\ page[u].structured # None
  /\ topic # page[u].topic
  /\ Load(u, p, page[u].topic, topic)

\* The list of topics comes with a structured answer, and is never disabled.  (With
\* such an answer the page is `loaded', which the code asks for, too.)
SelectTopic(u, p, topic) ==
  /\ page[u].structured # None
  /\ topic # page[u].topic
  /\ Load(u, p, topic, topic)

\* The page after an answer, with the structured part of it.
Shown(u, structured) ==
  [page[u] EXCEPT !.structured = structured, !.loading = FALSE]

\* load() from its await on: whichever load this answers, the store takes it.
Settled(u, answer) ==
  CASE answer.kind = "structured" -> Shown(u, answer.topic)
    [] answer.kind = "list" -> Shown(u, None)
    [] answer.kind = "error" -> [page[u] EXCEPT !.error = TRUE, !.loading = FALSE]

\* The answer arrives.
Arrive(u, p) ==
  /\ p \in loads[u]
  /\ Sent(p)
  /\ page' = [page EXCEPT ![u] = Settled(u, req[p].answer)]
  /\ loads' = [loads EXCEPT ![u] = @ \ {p}]
  /\ UNCHANGED crossed

\* The proxy or the network gives the load up.  The server works on.
GiveUp(u, p) ==
  /\ p \in loads[u]
  /\ page' = [page EXCEPT ![u] = Settled(u, Error)]
  /\ loads' = [loads EXCEPT ![u] = @ \ {p}]
  /\ UNCHANGED <<serverVars, crossed>>

\* The answer to a load that nobody waits for any more.
Drop(p) ==
  /\ \A u \in Users : p \notin loads[u]
  /\ Sent(p)
  /\ UNCHANGED pageVars

\* The user reloads the page: the store starts anew.
Reload(u) ==
  /\ page' = [page EXCEPT ![u] = Blank]
  /\ loads' = [loads EXCEPT ![u] = {}]
  /\ crossed' = [crossed EXCEPT ![u] = FALSE]
  /\ UNCHANGED serverVars

-----------------------------------------------------------------------------
PageInit ==
  /\ Init
  /\ page = [u \in Users |-> Blank]
  /\ loads = [u \in Users |-> {}]
  /\ crossed = [u \in Users |-> FALSE]

Serve(p) == Work(p) /\ UNCHANGED pageVars
Settle(p) == Drop(p) \/ \E u \in Users : Arrive(u, p)

PageNext ==
  \/ \E p \in Requests :
       \/ \E u \in Users : \/ PressLoad(u, p)
                           \/ \E topic \in Topics : SelectTopic(u, p, topic)
                           \/ GiveUp(u, p)
       \/ Serve(p) \/ Settle(p)
  \/ \E u \in Users : Reload(u)
  \/ Tick /\ UNCHANGED pageVars

PageSpec == PageInit /\ [][PageNext]_vars

-----------------------------------------------------------------------------
Page ==
  [structured : Topics \cup {None}, loading : BOOLEAN, error : BOOLEAN, topic : Topics]

\* Types: the page is whole, and waits for requests that are under way.
PageTypeOK ==
  /\ TypeOK
  /\ page \in [Users -> Page]
  /\ loads \in [Users -> SUBSET Requests]
  /\ \A u \in Users : \A p \in loads[u] : req[p] # Idle
  /\ crossed \in [Users -> BOOLEAN]

\* Problems are filtered by topic on the server, and the page trusts that what it
\* got is what is selected.  So it is, once no load is under way and the last one
\* did not fail, provided that the loads did not overlap.  (When they do, the
\* answer that arrives last is shown under whatever topic is selected.)
ShownIsSelected ==
  \A u \in Users :
    /\ loads[u] = {} /\ ~crossed[u] /\ ~page[u].error
    /\ page[u].structured # None
    => page[u].structured = page[u].topic

\* The spinner turns only while an answer is to come.  (The other direction does
\* not hold: of two overlapping loads, the first answer turns it off.)
SpinnerHasCause == \A u \in Users : page[u].loading => loads[u] # {}
=============================================================================
