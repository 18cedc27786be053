------------------------- MODULE RecommenderProofs -------------------------
(***************************************************************************)
(* The recommendations, the server's side and the page on top of it, for   *)
(* every number of users, handles and overlapping requests, and for all    *)
(* timeouts.                                                               *)
(*                                                                         *)
(* The argument for the server: what is cached under a name was made for   *)
(* that name, and its age and the time it has left add up to at most what  *)
(* it may reach (GoodEntry); the same sum bounds each stage of a request   *)
(* (Allowed).                                                              *)
(*                                                                         *)
(* The argument for the page: with the pages added, the server does        *)
(* nothing that it does not do without them; two pages never wait for the  *)
(* same request (Apart), and a page whose loads have not overlapped waits  *)
(* for one request, for the topic that is selected (Alone).  What arrives  *)
(* is therefore the answer to that request, whose topic the server kept.   *)
(***************************************************************************)
EXTENDS Recommender, TLAPS

-----------------------------------------------------------------------------
(* The server.                                                             *)

\* The oldest that an answer of the structured recommender gets.
Recent == SourceTTL + ContextTime + CallTime + TTL

\* How old a request may be at the end of each stage.
Allowed(stage) ==
  CASE stage = "context" -> ContextTime
    [] stage = "structured" -> ContextTime + CallTime
    [] stage = "ml" -> ContextTime + CallTime + MLTime
    [] stage = "roadmap" -> Budget

GoodReply(r) ==
  r.answer.kind = "structured" =>
    /\ r.answer.name = r.answer.asked
    /\ r.answer.topic = r.topic
    /\ r.answer.age <= Recent

GoodRequest(r) ==
  /\ r.pc \in Stages => r.age + r.left <= Allowed(r.pc)
  /\ r.pc = "done" => GoodReply(r)

GoodEntry(h, entry) == entry.name = h /\ entry.age + entry.left <= Recent

CacheOK == \A h \in Names : cache[h] # None => GoodEntry(h, cache[h])
RequestsOK == \A p \in Requests : GoodRequest(req[p])

\* The inductive invariant of the server.
ServerInv == TypeOK /\ CacheOK /\ RequestsOK

-----------------------------------------------------------------------------
\* The key of the cache is the name under which the user asks.
LEMMA KeyIsName ==
  ASSUME NEW l \in Connected
  PROVE  Username(l) \in Names /\ CacheKey(l) = Username(l)
BY DEF Connected, Listing, Platform, Username, CacheKey

\* What the fields of a request are at each of its stages.
LEMMA StageShape ==
  ASSUME NEW r \in Request
  PROVE  /\ r.pc \in Stages => r.age \in Nat /\ r.left \in Nat /\ r.topic \in Topics
         /\ r.pc \in {"context", "structured"} =>
              /\ r = [pc |-> r.pc, handles |-> r.handles, topic |-> r.topic,
                      age |-> r.age, left |-> r.left]
              /\ r.handles \in Connected
         /\ r.pc \in {"ml", "roadmap"} =>
              r = [pc |-> r.pc, topic |-> r.topic, age |-> r.age, left |-> r.left]
         /\ r.pc = "done" => r.answer \in Reply /\ r.topic \in Topics
         /\ r.pc \in {"idle", "done"} \cup Stages
BY DEF Request, Idle, Stages

\* A step that replaces one request by a good one keeps the requests good.
LEMMA ReplaceRequest ==
  ASSUME ServerInv, NEW p \in Requests, NEW r \in Request, GoodRequest(r),
         req' = [req EXCEPT ![p] = r]
  PROVE  /\ req' \in [Requests -> Request]
         /\ RequestsOK'
BY DEF ServerInv, TypeOK, RequestsOK

\* A request that is answered well is good.
LEMMA AnswerGood ==
  ASSUME ServerInv, NEW p \in Requests, req[p].pc \in Stages,
         NEW answer \in Reply, Answer(p, answer),
         answer.kind = "structured" =>
           answer.name = answer.asked /\ answer.topic = req[p].topic /\ answer.age <= Recent
  PROVE  req' \in [Requests -> Request] /\ RequestsOK'
<1> DEFINE r == [pc |-> "done", topic |-> req[p].topic, answer |-> answer]
<1>1. req[p] \in Request
  BY DEF ServerInv, TypeOK
<1>2. req[p].topic \in Topics
  BY <1>1, StageShape
<1>3. r \in Request
  BY <1>2 DEF Request
<1>4. GoodRequest(r)
  BY DEF GoodRequest, GoodReply, Stages
<1>5. req' = [req EXCEPT ![p] = r]
  BY DEF Answer
<1> HIDE DEF r
<1> QED BY <1>3, <1>4, <1>5, ReplaceRequest

\* A request that falls back in time to a stage that is allowed for it is good.
LEMMA FallBackGood ==
  ASSUME ServerInv, NEW p \in Requests, NEW stage \in {"ml", "roadmap"},
         NEW time \in Nat, FallBack(p, stage, time),
         req[p].pc \in Stages, Allowed(req[p].pc) + time <= Allowed(stage)
  PROVE  req' \in [Requests -> Request] /\ RequestsOK'
<1> DEFINE r == [pc |-> stage, topic |-> req[p].topic, age |-> req[p].age, left |-> time]
<1>1. req[p] \in Request /\ GoodRequest(req[p])
  BY DEF ServerInv, TypeOK, RequestsOK
<1>2. req[p].age \in Nat /\ req[p].left \in Nat /\ req[p].topic \in Topics
  BY <1>1, StageShape
<1>3. r \in Request
  BY <1>2 DEF Request
<1>4. req[p].age + req[p].left <= Allowed(req[p].pc)
  BY <1>1 DEF GoodRequest
<1>5. Allowed(req[p].pc) \in Nat /\ Allowed(stage) \in Nat
  BY RecommendationsAssumption DEF Allowed, Budget, Stages
<1>6. req[p].age + time <= Allowed(stage)
  BY <1>2, <1>4, <1>5
<1>7. GoodRequest(r)
  BY <1>6 DEF GoodRequest
<1>8. req' = [req EXCEPT ![p] = r]
  BY DEF FallBack
<1> HIDE DEF r
<1> QED BY <1>3, <1>7, <1>8, ReplaceRequest

-----------------------------------------------------------------------------
\* The structured answer made of an entry that is good for the request.
LEMMA StructuredGood ==
  ASSUME NEW r \in Request, r.pc \in {"context", "structured"},
         NEW entry, entry.name = Username(r.handles), entry.age \in Nat,
         entry.age <= Recent
  PROVE  /\ Structured(entry, r) \in Reply
         /\ Structured(entry, r).kind = "structured"
         /\ Structured(entry, r).name = Structured(entry, r).asked
         /\ Structured(entry, r).topic = r.topic
         /\ Structured(entry, r).age <= Recent
<1>1. r.handles \in Connected /\ r.topic \in Topics
  BY StageShape DEF Stages
<1>2. Username(r.handles) \in Names
  BY <1>1, KeyIsName
<1> QED BY <1>1, <1>2 DEF Structured, Reply

\* An entry that leaves the rest of the cache alone and is good keeps it good.
LEMMA StoreGood ==
  ASSUME ServerInv, NEW h \in Names, NEW entry \in Entry, GoodEntry(h, entry),
         cache' = [cache EXCEPT ![h] = entry]
  PROVE  cache' \in [Names -> Entry \cup {None}] /\ CacheOK'
BY DEF ServerInv, TypeOK, CacheOK

LEMMA BeginInv ==
  ASSUME ServerInv, NEW p \in Requests, NEW topic \in Topics, Begin(p, topic)
  PROVE  ServerInv'
<1> PICK handles \in Connected :
      req' = [req EXCEPT ![p] = [pc |-> "context", handles |-> handles,
                                 topic |-> topic, age |-> 0, left |-> ContextTime]]
  BY DEF Begin
<1> DEFINE r == [pc |-> "context", handles |-> handles,
                 topic |-> topic, age |-> 0, left |-> ContextTime]
<1>1. r \in Request
  BY RecommendationsAssumption DEF Request
<1>2. GoodRequest(r)
  BY RecommendationsAssumption DEF GoodRequest, Allowed
<1>3. req' = [req EXCEPT ![p] = r] /\ UNCHANGED cache
  BY DEF Begin
<1> HIDE DEF r
<1>4. req' \in [Requests -> Request] /\ RequestsOK'
  BY <1>1, <1>2, <1>3, ReplaceRequest
<1> QED BY <1>3, <1>4 DEF ServerInv, TypeOK, CacheOK

LEMMA RefuseInv ==
  ASSUME ServerInv, NEW p \in Requests, NEW topic \in Topics, Refuse(p, topic)
  PROVE  ServerInv'
<1> DEFINE r == [pc |-> "done", topic |-> topic, answer |-> Error]
<1>1. r \in Request
  BY DEF Request, Reply
<1>2. GoodRequest(r)
  BY DEF GoodRequest, GoodReply, Stages, Error
<1>3. req' = [req EXCEPT ![p] = r] /\ UNCHANGED cache
  BY DEF Refuse
<1> HIDE DEF r
<1>4. req' \in [Requests -> Request] /\ RequestsOK'
  BY <1>1, <1>2, <1>3, ReplaceRequest
<1> QED BY <1>3, <1>4 DEF ServerInv, TypeOK, CacheOK

LEMMA HitInv ==
  ASSUME ServerInv, NEW p \in Requests, Hit(p)
  PROVE  ServerInv'
<1> DEFINE r == req[p]
           h == CacheKey(r.handles)
           entry == cache[h]
<1>1. r \in Request /\ r.pc = "context"
  BY DEF Hit, ServerInv, TypeOK
<1>2. r.handles \in Connected
  BY <1>1, StageShape
<1>3. h \in Names /\ h = Username(r.handles)
  BY <1>2, KeyIsName
<1>4. entry \in Entry /\ GoodEntry(h, entry)
  BY <1>3 DEF Hit, ServerInv, TypeOK, CacheOK
<1>5. entry.age \in Nat /\ entry.age <= Recent /\ entry.name = Username(r.handles)
  BY <1>3, <1>4, RecommendationsAssumption DEF Entry, GoodEntry, Recent
<1>6. Answer(p, Structured(entry, r)) /\ UNCHANGED cache
  BY DEF Hit
<1> DEFINE answer == Structured(entry, r)
<1>7. /\ answer \in Reply /\ answer.kind = "structured" /\ answer.name = answer.asked
      /\ answer.topic = r.topic /\ answer.age <= Recent
  BY <1>1, <1>5, StructuredGood
<1>8. Answer(p, answer) /\ req[p].pc \in Stages /\ answer.topic = req[p].topic
  BY <1>1, <1>6, <1>7 DEF Stages
<1> HIDE DEF answer, entry, h, r
<1>9. req' \in [Requests -> Request] /\ RequestsOK'
  BY <1>7, <1>8, AnswerGood
<1> QED BY <1>6, <1>9 DEF ServerInv, TypeOK, CacheOK

LEMMA MissInv ==
  ASSUME ServerInv, NEW p \in Requests, Miss(p)
  PROVE  ServerInv'
<1> DEFINE r == [pc |-> "structured", handles |-> req[p].handles, topic |-> req[p].topic,
                 age |-> req[p].age, left |-> CallTime]
<1>1. req[p] \in Request /\ GoodRequest(req[p]) /\ req[p].pc = "context"
  BY DEF Miss, ServerInv, TypeOK, RequestsOK
<1>2. /\ req[p].age \in Nat /\ req[p].left \in Nat /\ req[p].topic \in Topics
      /\ req[p].handles \in Connected
      /\ req[p] = [pc |-> "context", handles |-> req[p].handles, topic |-> req[p].topic,
                   age |-> req[p].age, left |-> req[p].left]
  BY <1>1, StageShape DEF Stages
<1>3. r \in Request
  BY <1>2, RecommendationsAssumption DEF Request
<1>4. req[p].age + CallTime <= Allowed("structured")
  BY <1>1, <1>2, RecommendationsAssumption DEF GoodRequest, Allowed, Stages
<1>5. GoodRequest(r)
  BY <1>4 DEF GoodRequest
<1>6. req' = [req EXCEPT ![p] = r] /\ UNCHANGED cache
  BY <1>2 DEF Miss, ServerInv, TypeOK
<1> HIDE DEF r
<1>7. req' \in [Requests -> Request] /\ RequestsOK'
  BY <1>3, <1>5, <1>6, ReplaceRequest
<1> QED BY <1>6, <1>7 DEF ServerInv, TypeOK, CacheOK

LEMMA RecommendedInv ==
  ASSUME ServerInv, NEW p \in Requests, Recommended(p)
  PROVE  ServerInv'
<1> PICK stale \in 0..SourceTTL :
      LET r == req[p]
          entry == [name |-> Username(r.handles), age |-> stale + r.age, left |-> TTL]
      IN /\ r.pc = "structured"
         /\ \/ cache' = [cache EXCEPT ![CacheKey(r.handles)] = entry]
            \/ UNCHANGED cache
         /\ Answer(p, Structured(entry, r))
  BY DEF Recommended
<1> DEFINE r == req[p]
           h == CacheKey(r.handles)
           entry == [name |-> Username(r.handles), age |-> stale + r.age, left |-> TTL]
           answer == Structured(entry, r)
<1>1. r \in Request /\ GoodRequest(r) /\ r.pc = "structured"
  BY DEF ServerInv, TypeOK, RequestsOK
<1>2. /\ r.age \in Nat /\ r.left \in Nat /\ r.handles \in Connected
      /\ stale \in Nat /\ stale <= SourceTTL
  BY <1>1, StageShape, RecommendationsAssumption DEF Stages
<1>3. h \in Names /\ h = Username(r.handles)
  BY <1>2, KeyIsName
<1>4. r.age + r.left <= ContextTime + CallTime
  BY <1>1 DEF GoodRequest, Allowed, Stages
<1>5. entry \in Entry
  BY <1>2, <1>3, RecommendationsAssumption DEF Entry
<1>6. GoodEntry(h, entry) /\ entry.age <= Recent
  BY <1>2, <1>3, <1>4, RecommendationsAssumption DEF GoodEntry, Recent
<1>7. /\ answer \in Reply /\ answer.kind = "structured" /\ answer.name = answer.asked
      /\ answer.topic = r.topic /\ answer.age <= Recent
  BY <1>1, <1>2, <1>6, StructuredGood
<1>8. /\ Answer(p, answer)
      /\ cache' = [cache EXCEPT ![h] = entry] \/ cache' = cache
  OBVIOUS
<1>9. req[p].pc \in Stages /\ answer.topic = req[p].topic
  BY <1>1, <1>7 DEF Stages
<1> HIDE DEF answer, entry, h, r
<1>10. req' \in [Requests -> Request] /\ RequestsOK'
  BY <1>7, <1>8, <1>9, AnswerGood
<1>11. cache' \in [Names -> Entry \cup {None}] /\ CacheOK'
  <2>1. CASE cache' = [cache EXCEPT ![h] = entry]
    BY <1>3, <1>5, <1>6, <2>1, StoreGood
  <2>2. CASE cache' = cache
    BY <2>2 DEF ServerInv, TypeOK, CacheOK
  <2> QED BY <1>8, <2>1, <2>2
<1> QED BY <1>8, <1>10, <1>11 DEF ServerInv, TypeOK

LEMMA FallBackInv ==
  ASSUME ServerInv, NEW p \in Requests, NotRecommended(p) \/ NotRanked(p)
  PROVE  ServerInv'
<1>1. UNCHANGED cache
  BY DEF NotRecommended, NotRanked
<1>2. CASE NotRecommended(p)
  <2>1. Allowed("structured") + MLTime <= Allowed("ml")
    BY RecommendationsAssumption DEF Allowed
  <2>2. req' \in [Requests -> Request] /\ RequestsOK'
    BY <1>2, <2>1, FallBackGood, RecommendationsAssumption DEF NotRecommended, Stages
  <2> QED BY <1>1, <2>2 DEF ServerInv, TypeOK, CacheOK
<1>3. CASE NotRanked(p)
  <2>1. Allowed("ml") + CallTime <= Allowed("roadmap")
    BY RecommendationsAssumption DEF Allowed, Budget
  <2>2. req' \in [Requests -> Request] /\ RequestsOK'
    BY <1>3, <2>1, FallBackGood, RecommendationsAssumption DEF NotRanked, Stages
  <2> QED BY <1>1, <2>2 DEF ServerInv, TypeOK, CacheOK
<1> QED BY <1>2, <1>3

LEMMA ListInv ==
  ASSUME ServerInv, NEW p \in Requests, Ranked(p) \/ Planned(p) \/ NotPlanned(p)
  PROVE  ServerInv'
<1>1. UNCHANGED cache
  BY DEF Ranked, Planned, NotPlanned
<1>2. PICK answer \in Reply :
        /\ Answer(p, answer)
        /\ answer.kind # "structured"
  <2>1. CASE Ranked(p) \/ Planned(p)
    <3>1. List \in Reply /\ List.kind = "list"
      BY DEF List, Reply
    <3> QED BY <2>1, <3>1 DEF Ranked, Planned
  <2>2. CASE NotPlanned(p)
    <3>1. Error \in Reply /\ Error.kind = "error"
      BY DEF Error, Reply
    <3> QED BY <2>2, <3>1 DEF NotPlanned
  <2> QED BY <2>1, <2>2
<1>3. req[p].pc \in Stages
  BY DEF Ranked, Planned, NotPlanned, Stages
<1>4. req' \in [Requests -> Request] /\ RequestsOK'
  BY <1>2, <1>3, AnswerGood
<1> QED BY <1>1, <1>4 DEF ServerInv, TypeOK, CacheOK

LEMMA SentInv ==
  ASSUME ServerInv, NEW p \in Requests, Sent(p)
  PROVE  ServerInv'
<1>1. Idle \in Request /\ GoodRequest(Idle)
  BY DEF Request, Idle, GoodRequest, Stages
<1>2. req' = [req EXCEPT ![p] = Idle] /\ UNCHANGED cache
  BY DEF Sent
<1>3. req' \in [Requests -> Request] /\ RequestsOK'
  BY <1>1, <1>2, ReplaceRequest
<1> QED BY <1>2, <1>3 DEF ServerInv, TypeOK, CacheOK

\* What Older does to a request that still knows its handles.
LEMMA OlderWhole ==
  ASSUME NEW a, NEW b, NEW c, NEW d, NEW e, NEW r,
         r = [pc |-> a, handles |-> b, topic |-> c, age |-> d, left |-> e]
  PROVE  Older(r) = [pc |-> a, handles |-> b, topic |-> c, age |-> d + 1, left |-> e - 1]
<1>1. r.age = d /\ r.left = e
  OBVIOUS
<1>2. Older(r) = [[r EXCEPT !.age = d + 1] EXCEPT !.left = e - 1]
  BY <1>1 DEF Older
<1> DEFINE s == [pc |-> a, handles |-> b, topic |-> c, age |-> d + 1, left |-> e]
<1>3. [r EXCEPT !.age = d + 1] = s
  OBVIOUS
<1>4. [s EXCEPT !.left = e - 1] =
      [pc |-> a, handles |-> b, topic |-> c, age |-> d + 1, left |-> e - 1]
  OBVIOUS
<1> QED BY <1>2, <1>3, <1>4

\* What Older does to a request that has fallen back.
LEMMA OlderLater ==
  ASSUME NEW a, NEW c, NEW d, NEW e, NEW r,
         r = [pc |-> a, topic |-> c, age |-> d, left |-> e]
  PROVE  Older(r) = [pc |-> a, topic |-> c, age |-> d + 1, left |-> e - 1]
<1>1. r.age = d /\ r.left = e
  OBVIOUS
<1>2. Older(r) = [[r EXCEPT !.age = d + 1] EXCEPT !.left = e - 1]
  BY <1>1 DEF Older
<1>3. [r EXCEPT !.age = d + 1] = [pc |-> a, topic |-> c, age |-> d + 1, left |-> e]
  OBVIOUS
<1>4. [[pc |-> a, topic |-> c, age |-> d + 1, left |-> e] EXCEPT !.left = e - 1] =
      [pc |-> a, topic |-> c, age |-> d + 1, left |-> e - 1]
  OBVIOUS
<1> QED BY <1>2, <1>3, <1>4

\* What Older does to a cached answer.
LEMMA OlderEntry ==
  ASSUME NEW a, NEW d, NEW e, NEW r,
         r = [name |-> a, age |-> d, left |-> e]
  PROVE  Older(r) = [name |-> a, age |-> d + 1, left |-> e - 1]
<1>1. r.age = d /\ r.left = e
  OBVIOUS
<1>2. Older(r) = [[r EXCEPT !.age = d + 1] EXCEPT !.left = e - 1]
  BY <1>1 DEF Older
<1>3. [r EXCEPT !.age = d + 1] = [name |-> a, age |-> d + 1, left |-> e]
  OBVIOUS
<1>4. [[name |-> a, age |-> d + 1, left |-> e] EXCEPT !.left = e - 1] =
      [name |-> a, age |-> d + 1, left |-> e - 1]
  OBVIOUS
<1> QED BY <1>2, <1>3, <1>4

\* What a unit of time does to a request that is served.
LEMMA RequestAges ==
  ASSUME NEW r \in Request, GoodRequest(r), r.pc \in Stages, r.left > 0
  PROVE  /\ Older(r) \in Request /\ GoodRequest(Older(r))
         /\ Older(r).pc = r.pc /\ Older(r).topic = r.topic
<1>1. r.age \in Nat /\ r.left \in Nat /\ r.topic \in Topics
  BY StageShape
<1>2. r.age + 1 \in Nat /\ r.left - 1 \in Nat /\ (r.age + 1) + (r.left - 1) = r.age + r.left
  BY <1>1
<1>3. r.age + r.left <= Allowed(r.pc)
  BY DEF GoodRequest
<1>4. CASE r.pc \in {"context", "structured"}
  <2>1. /\ r = [pc |-> r.pc, handles |-> r.handles, topic |-> r.topic,
                age |-> r.age, left |-> r.left]
        /\ r.handles \in Connected
    BY <1>4, StageShape
  <2>2. Older(r) = [pc |-> r.pc, handles |-> r.handles, topic |-> r.topic,
                    age |-> r.age + 1, left |-> r.left - 1]
    BY <2>1, OlderWhole
  <2>3. Older(r) \in Request
    BY <1>1, <1>2, <1>4, <2>1, <2>2 DEF Request
  <2> QED BY <1>2, <1>3, <1>4, <2>2, <2>3 DEF GoodRequest
<1>5. CASE r.pc \in {"ml", "roadmap"}
  <2>1. r = [pc |-> r.pc, topic |-> r.topic, age |-> r.age, left |-> r.left]
    BY <1>5, StageShape
  <2>2. Older(r) = [pc |-> r.pc, topic |-> r.topic, age |-> r.age + 1, left |-> r.left - 1]
    BY <2>1, OlderLater
  <2>3. Older(r) \in Request
    BY <1>1, <1>2, <1>5, <2>2 DEF Request
  <2> QED BY <1>2, <1>3, <1>5, <2>2, <2>3 DEF GoodRequest
<1> QED BY <1>4, <1>5 DEF Stages

\* What a unit of time does to an entry that does not expire.
LEMMA EntryAges ==
  ASSUME NEW h, NEW entry \in Entry, GoodEntry(h, entry), entry.left # 1
  PROVE  Older(entry) \in Entry /\ GoodEntry(h, Older(entry))
<1>1. entry.age \in Nat /\ entry.left \in 1..TTL /\ entry.name \in Names
  BY DEF Entry
<1>2. entry = [name |-> entry.name, age |-> entry.age, left |-> entry.left]
  BY DEF Entry
<1>3. Older(entry) = [name |-> entry.name, age |-> entry.age + 1, left |-> entry.left - 1]
  BY <1>2, OlderEntry, Zenon
<1>4. entry.age + 1 \in Nat /\ entry.left - 1 \in 1..TTL
  BY <1>1, RecommendationsAssumption
<1>5. (entry.age + 1) + (entry.left - 1) = entry.age + entry.left
  BY <1>1, RecommendationsAssumption
<1> QED BY <1>1, <1>3, <1>4, <1>5 DEF Entry, GoodEntry

LEMMA TickInv ==
  ASSUME ServerInv, Tick
  PROVE  ServerInv'
<1>1. \A p \in Requests : req'[p] \in Request /\ GoodRequest(req'[p])
  <2> SUFFICES ASSUME NEW p \in Requests
               PROVE  req'[p] \in Request /\ GoodRequest(req'[p])
    OBVIOUS
  <2>1. req[p] \in Request /\ GoodRequest(req[p])
    BY DEF ServerInv, TypeOK, RequestsOK
  <2>2. CASE Active(p)
    <3>1. req'[p] = Older(req[p]) /\ req[p].left > 0 /\ req[p].pc \in Stages
      BY <2>2 DEF Tick, Active
    <3> QED BY <2>1, <3>1, RequestAges
  <2>3. CASE ~Active(p)
    BY <2>1, <2>3 DEF Tick
  <2> QED BY <2>2, <2>3
<1>2. req' \in [Requests -> Request] /\ RequestsOK'
  BY <1>1 DEF Tick, RequestsOK
<1>3. \A h \in Names : /\ cache'[h] \in Entry \cup {None}
                       /\ cache'[h] # None => GoodEntry(h, cache'[h])
  <2> SUFFICES ASSUME NEW h \in Names
               PROVE  /\ cache'[h] \in Entry \cup {None}
                      /\ cache'[h] # None => GoodEntry(h, cache'[h])
    OBVIOUS
  <2>1. CASE cache[h] = None
    BY <2>1 DEF Tick
  <2>2. CASE cache[h] # None /\ cache[h].left = 1
    BY <2>2 DEF Tick
  <2>3. CASE cache[h] # None /\ cache[h].left # 1
    <3>1. cache[h] \in Entry /\ GoodEntry(h, cache[h])
      BY <2>3 DEF ServerInv, TypeOK, CacheOK
    <3>2. cache'[h] = Older(cache[h])
      BY <2>3 DEF Tick
    <3> QED BY <2>3, <3>1, <3>2, EntryAges
  <2> QED BY <2>1, <2>2, <2>3
<1>4. cache' \in [Names -> Entry \cup {None}] /\ CacheOK'
  BY <1>3 DEF Tick, CacheOK
<1> QED BY <1>2, <1>4 DEF Tick, ServerInv, TypeOK

-----------------------------------------------------------------------------
LEMMA InitInv == Init => ServerInv
<1> SUFFICES ASSUME Init PROVE ServerInv
  OBVIOUS
<1>1. Idle \in Request /\ GoodRequest(Idle)
  BY DEF Request, Idle, GoodRequest, Stages
<1> QED BY <1>1 DEF Init, ServerInv, TypeOK, CacheOK, RequestsOK

LEMMA WorkInv ==
  ASSUME ServerInv, NEW p \in Requests, Work(p)
  PROVE  ServerInv'
BY HitInv, MissInv, RecommendedInv, FallBackInv, ListInv DEF Work

\* The invariant holds in every reachable state of the server.
THEOREM ServerHolds == Spec => []ServerInv
<1>1. ServerInv /\ [Next]_serverVars => ServerInv'
  <2> SUFFICES ASSUME ServerInv, [Next]_serverVars PROVE ServerInv'
    OBVIOUS
  <2>1. CASE UNCHANGED serverVars
    BY <2>1 DEF serverVars, ServerInv, TypeOK, CacheOK, RequestsOK
  <2>2. ASSUME NEW p \in Requests, NEW topic \in Topics, Begin(p, topic)
        PROVE  ServerInv'
    BY <2>2, BeginInv
  <2>3. ASSUME NEW p \in Requests, NEW topic \in Topics, Refuse(p, topic)
        PROVE  ServerInv'
    BY <2>3, RefuseInv
  <2>4. ASSUME NEW p \in Requests, Work(p) \/ Sent(p)
        PROVE  ServerInv'
    BY <2>4, WorkInv, SentInv
  <2>5. CASE Tick
    BY <2>5, TickInv
  <2> QED BY <2>1, <2>2, <2>3, <2>4, <2>5 DEF Next
<1> QED BY InitInv, <1>1, PTL DEF Spec

\* What of the properties follows from the invariant.
LEMMA InvImplies ==
  ServerInv => TypeOK /\ AnswersNameTheUser /\ AnswersAreRecent /\ WithinBudget
<1> SUFFICES ASSUME ServerInv PROVE AnswersNameTheUser /\ AnswersAreRecent /\ WithinBudget
  BY DEF ServerInv
<1>1. AnswersNameTheUser /\ AnswersAreRecent
  BY DEF ServerInv, RequestsOK, GoodRequest, GoodReply, AnswersNameTheUser, AnswersAreRecent,
         Recent
<1>2. WithinBudget
  <2> SUFFICES ASSUME NEW p \in Requests, req[p].pc \in Stages PROVE req[p].age <= Budget
    BY DEF WithinBudget, Active
  <2>1. req[p] \in Request /\ GoodRequest(req[p])
    BY DEF ServerInv, TypeOK, RequestsOK
  <2>2. req[p].age \in Nat /\ req[p].left \in Nat
    BY <2>1, StageShape
  <2>3. req[p].age + req[p].left <= Allowed(req[p].pc)
    BY <2>1 DEF GoodRequest
  <2>4. Allowed(req[p].pc) \in Nat /\ Allowed(req[p].pc) <= Budget /\ Budget \in Nat
    BY RecommendationsAssumption DEF Allowed, Budget, Stages
  <2> QED BY <2>2, <2>3, <2>4
<1> QED BY <1>1, <1>2

\* Every reachable state of the server is well-formed.
THEOREM ServerTypeCorrect == Spec => []TypeOK
BY ServerHolds, InvImplies, PTL

\* A structured answer was made for the name under which it was asked for, and holds
\* the topic that was asked for, whoever shares the cache and its keys.
THEOREM AnswersAreOnesOwn == Spec => []AnswersNameTheUser
BY ServerHolds, InvImplies, PTL

\* The six hours of the cache, the time an answer took to make, and the hour that what it
\* is made of was cached before, bound its age.
THEOREM AnswersStayRecent == Spec => []AnswersAreRecent
BY ServerHolds, InvImplies, PTL

\* No request takes longer than the sum of its timeouts.
THEOREM RequestsEndInTime == Spec => []WithinBudget
BY ServerHolds, InvImplies, PTL

-----------------------------------------------------------------------------
(* The pages.                                                              *)

Apart ==
  \A u \in Users, v \in Users : \A p \in loads[u] : p \in loads[v] => u = v

Alone ==
  \A u \in Users : \A p \in loads[u] :
    ~crossed[u] => loads[u] = {p} /\ req[p].topic = page[u].topic

\* The inductive invariant of server and pages.
PageInv ==
  /\ ServerInv /\ PageTypeOK
  /\ Apart /\ Alone
  /\ ShownIsSelected /\ SpinnerHasCause

-----------------------------------------------------------------------------
\* What a step of the server does to the requests that it has under way: none goes
\* away, and none changes its topic.
Kept(q) == req[q] # Idle => req'[q] # Idle /\ req'[q].topic = req[q].topic

LEMMA WorkKeeps ==
  ASSUME TypeOK, NEW p \in Requests, Work(p), NEW q \in Requests
  PROVE  Kept(q)
<1>1. req \in [Requests -> Request]
  BY DEF TypeOK
<1>2. CASE q # p
  BY <1>1, <1>2 DEF Work, Hit, Miss, Recommended, NotRecommended, Ranked, NotRanked, Planned,
     NotPlanned, Answer, FallBack, Kept
<1>3. CASE q = p
  <2>1. ASSUME NEW answer, Answer(p, answer)
        PROVE  req'[p].pc = "done" /\ req'[p].topic = req[p].topic
    BY <1>1, <2>1 DEF Answer
  <2>2. ASSUME NEW stage, NEW time, FallBack(p, stage, time)
        PROVE  req'[p].pc = stage /\ req'[p].topic = req[p].topic
    BY <1>1, <2>2 DEF FallBack
  <2>3. CASE Miss(p)
    BY <1>1, <1>3, <2>3 DEF Miss, Kept, Idle
  <2>4. CASE Hit(p) \/ Recommended(p) \/ Ranked(p) \/ Planned(p) \/ NotPlanned(p)
    <3>1. req'[p].pc = "done" /\ req'[p].topic = req[p].topic
      BY <2>1, <2>4 DEF Hit, Recommended, Ranked, Planned, NotPlanned
    <3> QED BY <1>3, <3>1 DEF Kept, Idle
  <2>5. CASE NotRecommended(p) \/ NotRanked(p)
    <3>1. req'[p].pc \in {"ml", "roadmap"} /\ req'[p].topic = req[p].topic
      BY <2>2, <2>5 DEF NotRecommended, NotRanked
    <3> QED BY <1>3, <3>1 DEF Kept, Idle
  <2> QED BY <2>3, <2>4, <2>5 DEF Work
<1> QED BY <1>2, <1>3

LEMMA TickKeeps ==
  ASSUME ServerInv, Tick, NEW q \in Requests
  PROVE  Kept(q)
<1>1. CASE Active(q)
  <2>1. req'[q] = Older(req[q]) /\ req[q].left > 0 /\ req[q].pc \in Stages
    BY <1>1 DEF Tick, Active
  <2>2. req[q] \in Request /\ GoodRequest(req[q])
    BY DEF ServerInv, TypeOK, RequestsOK
  <2>3. req'[q].pc = req[q].pc /\ req'[q].topic = req[q].topic
    BY <2>1, <2>2, RequestAges
  <2> QED BY <2>1, <2>3 DEF Kept, Idle, Stages
<1>2. CASE ~Active(q)
  BY <1>2 DEF Tick, Kept
<1> QED BY <1>1, <1>2

-----------------------------------------------------------------------------
\* A step of the server alone keeps what is said about the pages.
LEMMA ServerStep ==
  ASSUME PageInv, ServerInv', UNCHANGED pageVars,
         \A u \in Users : \A q \in loads[u] : Kept(q)
  PROVE  PageInv'
<1>1. PageTypeOK'
  BY DEF PageInv, PageTypeOK, ServerInv, pageVars, Kept
<1>2. Apart' /\ ShownIsSelected' /\ SpinnerHasCause'
  BY DEF PageInv, Apart, ShownIsSelected, SpinnerHasCause, pageVars
<1>3. Alone'
  BY DEF PageInv, PageTypeOK, Alone, pageVars, Kept
<1> QED BY <1>1, <1>2, <1>3 DEF PageInv

\* A load, whether a button or the list of topics sends it.
LEMMA LoadStep ==
  ASSUME PageInv, NEW u \in Users, NEW p \in Requests, NEW topic \in Topics,
         Load(u, p, topic, topic)
  PROVE  PageInv'
<1>1. ServerInv'
  BY BeginInv, RefuseInv DEF Load, PageInv
<1>2. req[p] = Idle /\ \A v \in Users : p \notin loads[v]
  BY DEF Load, Begin, Refuse, PageInv, PageTypeOK
<1>3. /\ req'[p] # Idle /\ req'[p].topic = topic
      /\ \A q \in Requests : q # p => req'[q] = req[q]
  <2>1. req \in [Requests -> Request]
    BY DEF PageInv, ServerInv, TypeOK
  <2>2. CASE Begin(p, topic)
    BY <2>1, <2>2 DEF Begin, Idle
  <2>3. CASE Refuse(p, topic)
    BY <2>1, <2>3 DEF Refuse, Idle
  <2> QED BY <2>2, <2>3 DEF Load
<1>4. /\ page \in [Users -> Page] /\ loads \in [Users -> SUBSET Requests]
      /\ crossed \in [Users -> BOOLEAN]
  BY DEF PageInv, PageTypeOK
<1>5. /\ \A v \in Users : v # u => /\ page'[v] = page[v]
                                   /\ loads'[v] = loads[v] /\ crossed'[v] = crossed[v]
      /\ loads'[u] = loads[u] \cup {p}
      /\ crossed'[u] = (loads[u] # {})
  BY <1>4 DEF Load
<1>6. page' \in [Users -> Page] /\ page'[u].topic = topic
  BY <1>4 DEF Load, Page
<1>7. loads' \in [Users -> SUBSET Requests] /\ crossed' \in [Users -> BOOLEAN]
  BY <1>4 DEF Load
<1>8. PageTypeOK'
  <2>1. \A v \in Users : \A q \in loads'[v] : req'[q] # Idle
    BY <1>3, <1>4, <1>5 DEF PageInv, PageTypeOK
  <2> QED BY <1>1, <1>6, <1>7, <2>1 DEF PageTypeOK, ServerInv
<1>9. Apart'
  BY <1>2, <1>5 DEF PageInv, Apart
<1>10. Alone'
  <2> SUFFICES ASSUME NEW v \in Users, NEW q \in loads'[v], ~crossed'[v]
               PROVE  loads'[v] = {q} /\ req'[q].topic = page'[v].topic
    BY DEF Alone
  <2>1. CASE v = u
    BY <1>3, <1>5, <1>6, <2>1
  <2>2. CASE v # u
    BY <1>2, <1>3, <1>4, <1>5, <2>2 DEF PageInv, Alone
  <2> QED BY <2>1, <2>2
<1>11. loads'[u] # {}
  BY <1>5
<1>12. ShownIsSelected' /\ SpinnerHasCause'
  BY <1>5, <1>11 DEF PageInv, ShownIsSelected, SpinnerHasCause
<1> QED BY <1>1, <1>8, <1>9, <1>10, <1>12 DEF PageInv

-----------------------------------------------------------------------------
\* What the store takes from an answer.
LEMMA SettledIs ==
  ASSUME NEW u \in Users, page[u] \in Page, NEW answer \in Reply
  PROVE  /\ Settled(u, answer) \in Page
         /\ ~Settled(u, answer).loading
         /\ Settled(u, answer).topic = page[u].topic
         /\ answer.kind = "error" => Settled(u, answer).error
         /\ answer.kind = "structured" =>
              Settled(u, answer).structured = answer.topic
         /\ answer.kind = "list" => Settled(u, answer).structured = None
<1>1. CASE answer.kind = "structured"
  <2>1. Settled(u, answer) = Shown(u, answer.topic)
    BY <1>1 DEF Settled
  <2>2. answer.topic \in Topics
    BY <1>1 DEF Reply, List, Error
  <2> QED BY <1>1, <2>1, <2>2 DEF Shown, Page
<1>2. CASE answer.kind = "list"
  BY <1>2 DEF Settled, Shown, Page, Reply, List, Error
<1>3. CASE answer.kind = "error"
  BY <1>3 DEF Settled, Shown, Page, Reply, List, Error
<1> QED BY <1>1, <1>2, <1>3 DEF Reply, List, Error

\* A page stops waiting for one request, and takes what it says.
LEMMA SettleStep ==
  ASSUME PageInv, ServerInv', NEW u \in Users, NEW p \in loads[u], NEW answer \in Reply,
         page' = [page EXCEPT ![u] = Settled(u, answer)],
         loads' = [loads EXCEPT ![u] = @ \ {p}],
         crossed' = crossed,
         answer.kind = "structured" => answer.topic = req[p].topic,
         \A q \in Requests : q # p => req'[q] = req[q]
  PROVE  PageInv'
<1>1. /\ page \in [Users -> Page] /\ loads \in [Users -> SUBSET Requests]
      /\ crossed \in [Users -> BOOLEAN]
      /\ \A v \in Users : \A q \in loads[v] : req[q] # Idle
  BY DEF PageInv, PageTypeOK
<1>2. Apart /\ Alone
  BY DEF PageInv
<1> DEFINE s == Settled(u, answer)
<1>3. /\ s \in Page /\ ~s.loading /\ s.topic = page[u].topic
      /\ answer.kind = "error" => s.error
      /\ answer.kind = "structured" => s.structured = answer.topic
      /\ answer.kind = "list" => s.structured = None
  BY <1>1, SettledIs
<1>4. answer.kind \in {"structured", "list", "error"}
  BY DEF Reply, List, Error
<1>5. page' = [page EXCEPT ![u] = s]
  OBVIOUS
<1> HIDE DEF s
<1>6. /\ page' \in [Users -> Page] /\ page'[u] = s
      /\ \A v \in Users : v # u => page'[v] = page[v]
  BY <1>1, <1>3, <1>5
<1>7. /\ loads' \in [Users -> SUBSET Requests] /\ loads'[u] = loads[u] \ {p}
      /\ \A v \in Users : v # u => loads'[v] = loads[v]
  BY <1>1
<1>8. \A v \in Users : \A q \in loads'[v] : q \in loads[v] /\ q # p /\ req'[q] = req[q]
  BY <1>1, <1>2, <1>7 DEF Apart
<1>9. PageTypeOK'
  BY <1>1, <1>6, <1>7, <1>8 DEF PageTypeOK, ServerInv
<1>10. Apart'
  BY <1>2, <1>7, <1>8 DEF Apart
<1>11. Alone'
  <2> SUFFICES ASSUME NEW v \in Users, NEW q \in loads'[v], ~crossed[v]
               PROVE  loads'[v] = {q} /\ req'[q].topic = page'[v].topic
    BY DEF Alone
  <2>1. CASE v = u
    BY <1>2, <1>7, <1>8, <2>1 DEF Alone
  <2>2. CASE v # u
    BY <1>2, <1>6, <1>7, <1>8, <2>2 DEF Alone
  <2> QED BY <2>1, <2>2
<1>12. ~crossed[u] => req[p].topic = s.topic
  BY <1>2, <1>3 DEF Alone
<1>13. ShownIsSelected'
  <2> SUFFICES ASSUME NEW v \in Users, loads'[v] = {}, ~crossed[v], ~page'[v].error,
                      page'[v].structured # None
               PROVE  page'[v].structured = page'[v].topic
    BY DEF ShownIsSelected
  <2>1. CASE v = u
    BY <1>3, <1>4, <1>6, <1>12, <2>1
  <2>2. CASE v # u
    BY <1>6, <1>7, <2>2 DEF PageInv, ShownIsSelected
  <2> QED BY <2>1, <2>2
<1>14. SpinnerHasCause'
  BY <1>3, <1>6, <1>7 DEF PageInv, SpinnerHasCause
<1> QED BY <1>9, <1>10, <1>11, <1>13, <1>14 DEF PageInv

LEMMA ArriveStep ==
  ASSUME PageInv, NEW u \in Users, NEW p \in Requests, Arrive(u, p)
  PROVE  PageInv'
<1>1. ServerInv'
  BY SentInv DEF Arrive, PageInv
<1>2. req[p] \in Request /\ GoodRequest(req[p]) /\ req[p].pc = "done"
  BY DEF Arrive, Sent, PageInv, ServerInv, TypeOK, RequestsOK
<1>3. req[p].answer \in Reply
  BY <1>2, StageShape
<1>4. req[p].answer.kind = "structured" => req[p].answer.topic = req[p].topic
  BY <1>2 DEF GoodRequest, GoodReply
<1>5. \A q \in Requests : q # p => req'[q] = req[q]
  BY DEF Arrive, Sent, PageInv, ServerInv, TypeOK
<1> QED BY <1>1, <1>3, <1>4, <1>5, SettleStep DEF Arrive

LEMMA GiveUpStep ==
  ASSUME PageInv, NEW u \in Users, NEW p \in Requests, GiveUp(u, p)
  PROVE  PageInv'
<1>1. ServerInv'
  BY DEF GiveUp, serverVars, PageInv, ServerInv, TypeOK, CacheOK, RequestsOK
<1>2. Error \in Reply /\ Error.kind = "error"
  BY DEF Reply, Error
<1>3. \A q \in Requests : q # p => req'[q] = req[q]
  BY DEF GiveUp, serverVars
<1> QED BY <1>1, <1>2, <1>3, SettleStep DEF GiveUp

LEMMA DropStep ==
  ASSUME PageInv, NEW p \in Requests, Drop(p)
  PROVE  PageInv'
<1>1. ServerInv'
  BY SentInv DEF Drop, PageInv
<1>2. \A u \in Users : \A q \in loads[u] : Kept(q)
  BY DEF Drop, Sent, PageInv, PageTypeOK, ServerInv, TypeOK, Kept
<1> QED BY <1>1, <1>2, ServerStep DEF Drop

LEMMA ReloadStep ==
  ASSUME PageInv, NEW u \in Users, Reload(u)
  PROVE  PageInv'
<1>1. ServerInv'
  BY DEF Reload, serverVars, PageInv, ServerInv, TypeOK, CacheOK, RequestsOK
<1>2. Blank \in Page /\ ~Blank.loading /\ Blank.structured = None
  BY RecommendationsAssumption DEF Blank, Page
<1>3. /\ page \in [Users -> Page] /\ loads \in [Users -> SUBSET Requests]
      /\ crossed \in [Users -> BOOLEAN]
  BY DEF PageInv, PageTypeOK
<1>4. /\ page'[u] = Blank /\ loads'[u] = {} /\ req' = req
      /\ \A v \in Users : v # u => /\ page'[v] = page[v]
                                   /\ loads'[v] = loads[v] /\ crossed'[v] = crossed[v]
  BY <1>3 DEF Reload, serverVars
<1>5. PageTypeOK'
  BY <1>1, <1>2, <1>3, <1>4 DEF Reload, PageInv, PageTypeOK, ServerInv
<1>6. Apart' /\ Alone'
  BY <1>4 DEF PageInv, Apart, Alone
<1>7. ShownIsSelected' /\ SpinnerHasCause'
  BY <1>2, <1>4 DEF PageInv, ShownIsSelected, SpinnerHasCause
<1> QED BY <1>1, <1>5, <1>6, <1>7 DEF PageInv

-----------------------------------------------------------------------------
LEMMA PageInitInv == PageInit => PageInv
<1> SUFFICES ASSUME PageInit PROVE PageInv
  OBVIOUS
<1>1. ServerInv
  BY InitInv DEF PageInit
<1>2. Blank \in Page /\ ~Blank.loading /\ Blank.structured = None
  BY RecommendationsAssumption DEF Blank, Page
<1> QED BY <1>1, <1>2 DEF PageInit, PageInv, PageTypeOK, ServerInv, Apart, Alone,
           ShownIsSelected, SpinnerHasCause

\* A press of a button and a choice of a topic are loads.
LEMMA LoadsStep ==
  ASSUME PageInv, NEW u \in Users, NEW p \in Requests,
         PressLoad(u, p) \/ \E topic \in Topics : SelectTopic(u, p, topic)
  PROVE  PageInv' /\ Next
<1>1. page[u].topic \in Topics
  BY DEF PageInv, PageTypeOK, Page
<1>2. PICK topic \in Topics : Load(u, p, topic, topic)
  BY <1>1 DEF PressLoad, SelectTopic
<1>3. Next
  BY <1>2 DEF Load, Next
<1> QED BY <1>2, <1>3, LoadStep

\* A step of pages and server keeps the invariant, and is one of the server or none.
LEMMA PageStep ==
  ASSUME PageInv, PageNext
  PROVE  PageInv' /\ [Next]_serverVars
<1>1. ASSUME NEW p \in Requests, NEW u \in Users,
             PressLoad(u, p) \/ \E topic \in Topics : SelectTopic(u, p, topic)
      PROVE  PageInv' /\ [Next]_serverVars
  BY <1>1, LoadsStep
<1>2. ASSUME NEW p \in Requests, NEW u \in Users, GiveUp(u, p)
      PROVE  PageInv' /\ [Next]_serverVars
  BY <1>2, GiveUpStep DEF GiveUp
<1>3. ASSUME NEW p \in Requests, Serve(p)
      PROVE  PageInv' /\ [Next]_serverVars
  <2>1. ServerInv /\ TypeOK
    BY DEF PageInv, ServerInv
  <2>2. ServerInv' /\ \A q \in Requests : Kept(q)
    BY <1>3, <2>1, WorkInv, WorkKeeps DEF Serve
  <2>3. \A u \in Users : \A q \in loads[u] : Kept(q)
    BY <2>2 DEF PageInv, PageTypeOK
  <2>4. Next
    BY <1>3 DEF Serve, Next
  <2> QED BY <1>3, <2>2, <2>3, <2>4, ServerStep DEF Serve
<1>4. ASSUME NEW p \in Requests, Settle(p)
      PROVE  PageInv' /\ [Next]_serverVars
  <2>1. Next
    BY <1>4 DEF Settle, Drop, Arrive, Next
  <2> QED BY <1>4, <2>1, DropStep, ArriveStep DEF Settle
<1>5. ASSUME NEW u \in Users, Reload(u)
      PROVE  PageInv' /\ [Next]_serverVars
  BY <1>5, ReloadStep DEF Reload
<1>6. CASE Tick /\ UNCHANGED pageVars
  <2>1. ServerInv' /\ \A q \in Requests : Kept(q)
    BY <1>6, TickInv, TickKeeps DEF PageInv
  <2>2. \A u \in Users : \A q \in loads[u] : Kept(q)
    BY <2>1 DEF PageInv, PageTypeOK
  <2> QED BY <1>6, <2>1, <2>2, ServerStep DEF Next
<1> QED BY <1>1, <1>2, <1>3, <1>4, <1>5, <1>6 DEF PageNext

\* The invariant holds in every reachable state of server and pages.
THEOREM PagesHold == PageSpec => []PageInv
<1>1. PageInv /\ [PageNext]_vars => PageInv'
  <2> SUFFICES ASSUME PageInv, [PageNext]_vars PROVE PageInv'
    OBVIOUS
  <2>1. CASE UNCHANGED vars
    <3>1. ServerInv'
      BY <2>1 DEF vars, serverVars, PageInv, ServerInv, TypeOK, CacheOK, RequestsOK
    <3>2. \A u \in Users : \A q \in loads[u] : Kept(q)
      BY <2>1 DEF vars, serverVars, Kept
    <3> QED BY <2>1, <3>1, <3>2, ServerStep DEF vars
  <2>2. CASE PageNext
    BY <2>2, PageStep
  <2> QED BY <2>1, <2>2
<1> QED BY PageInitInv, <1>1, PTL DEF PageSpec

\* Whatever the pages do, the server behaves as it does on its own: so its theorems
\* hold of the whole.
THEOREM PagesUseServer == PageSpec => Spec
<1>1. PageInit => Init
  BY DEF PageInit
<1>2. PageInv /\ [PageNext]_vars => [Next]_serverVars
  BY PageStep DEF vars
<1> QED BY <1>1, <1>2, PagesHold, PTL DEF PageSpec, Spec

\* Every reachable state of the pages is well-formed.
THEOREM PagesTypeCorrect == PageSpec => []PageTypeOK
<1>1. PageInv => PageTypeOK
  BY DEF PageInv
<1> QED BY <1>1, PagesHold, PTL

\* A page whose loads did not overlap shows problems of the topic that is selected.
THEOREM SelectionIsShown == PageSpec => []ShownIsSelected
<1>1. PageInv => ShownIsSelected
  BY DEF PageInv
<1> QED BY <1>1, PagesHold, PTL

\* The spinner turns only while an answer is to come.
THEOREM SpinnerStops == PageSpec => []SpinnerHasCause
<1>1. PageInv => SpinnerHasCause
  BY DEF PageInv
<1> QED BY <1>1, PagesHold, PTL
=============================================================================
