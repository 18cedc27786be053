-------------------------- MODULE Recommendations --------------------------
(***************************************************************************)
(* POST /recommendations: RecommendationsHandler.List over AIService and   *)
(* TaskRecommenderService.  A request builds the student's context, looks  *)
(* into the Redis cache, and asks up to three services in turn: the        *)
(* structured recommender, the ML microservice, the roadmap workflow.      *)
(* Each call has a timeout of its own.  Time is kept in what it limits: a  *)
(* request has an age and the time left to its current call, a cached      *)
(* answer has an age and the time left to its expiry.                      *)
(*                                                                         *)
(* A structured answer is abstracted to the username that it was generated *)
(* for, the topic that it was filtered to, and its age, which is that of   *)
(* the oldest answer of Codeforces or LeetCode that it was made from.      *)
(* These answers are cached themselves, and may already be old when a      *)
(* request begins.                                                         *)
(***************************************************************************)
EXTENDS Integers

Platform == {"codeforces", "leetcode"}

CONSTANTS
  Requests,     \* request slots: how many requests overlap
  Handles,      \* the handles on each platform; some are names on both
  Topics,
  AnyTopic,     \* the topic "any"
  SourceTTL,    \* how long an answer of Codeforces or LeetCode is cached
  ContextTime,  \* the longest that BuildStudentContext takes
  CallTime,     \* timeout of a call of n8n
  MLTime,       \* timeout of a call of the ML microservice
  TTL,          \* how long a structured answer is cached
  None

Names == UNION {Handles[pl] : pl \in Platform}

ASSUME RecommendationsAssumption ==
  /\ SourceTTL \in Nat /\ ContextTime \in Nat /\ CallTime \in Nat /\ MLTime \in Nat
  /\ TTL \in Nat \ {0}
  /\ AnyTopic \in Topics
  /\ None \notin Names /\ None \notin Topics

VARIABLES
  cache,   \* Redis: the answer under recommendations:v2:<handle>
  req      \* the local state of each request in flight

serverVars == <<cache, req>>

-----------------------------------------------------------------------------
Idle == [pc |-> "idle"]
Stages == {"context", "structured", "ml", "roadmap"}
Active(p) == req[p].pc \in Stages

\* What platform_accounts may say of a user: the handle on each platform, or none.
Listing == {l \in [Platform -> Names \cup {None}] :
              \A pl \in Platform : l[pl] \in Handles[pl] \cup {None}}
Connected == {l \in Listing : \E pl \in Platform : l[pl] # None}

\* The username of a context: the Codeforces handle, or else the LeetCode one.
Username(handles) ==
  IF handles["codeforces"] # None THEN handles["codeforces"] ELSE handles["leetcode"]

\* Mutation: the key prefers the LeetCode handle.
CacheKeyLeetCode(handles) ==
  IF handles["leetcode"] # None THEN handles["leetcode"] ELSE handles["codeforces"]

\* The key is made of the same name, without the platform it is a handle on.
CacheKey(handles) ==
  IF handles["codeforces"] # None THEN handles["codeforces"] ELSE handles["leetcode"]

\* `asked' is history: the name under which the user asked.
Structured(entry, r) ==
  [kind |-> "structured", name |-> entry.name, age |-> entry.age, topic |-> r.topic,
   asked |-> Username(r.handles)]
List == [kind |-> "list"]
Error == [kind |-> "error"]

Answer(p, answer) ==
  req' = [req EXCEPT ![p] = [pc |-> "done", topic |-> req[p].topic, answer |-> answer]]

\* The request falls back to `stage', which takes at most `time', and does not
\* need the username any more.
FallBack(p, stage, time) ==
  req' = [req EXCEPT ![p] =
            [pc |-> stage, topic |-> req[p].topic, age |-> req[p].age, left |-> time]]

-----------------------------------------------------------------------------
\* Mutation: a user without an account has a context, too.
BeginUnlinked(p, topic) ==
  /\ req[p] = Idle
  /\ \E handles \in Listing :
       req' = [req EXCEPT ![p] = [pc |-> "context", handles |-> handles,
                                  topic |-> topic, age |-> 0, left |-> ContextTime]]
  /\ UNCHANGED cache

\* BuildStudentContext lists the accounts of the user, and fails without any.  This is
\* the only look at them, and they may have changed in any way since the last request:
\* neither Connect nor Disconnect touches the keys of the recommendations.
Begin(p, topic) ==
  /\ req[p] = Idle
  /\ \E handles \in Connected :
       req' = [req EXCEPT ![p] = [pc |-> "context", handles |-> handles,
                                  topic |-> topic, age |-> 0, left |-> ContextTime]]
  /\ UNCHANGED cache

\* Mutation: a request that is refused is not answered.
RefuseSilently(p, topic) ==
  /\ req[p] = Idle
  /\ UNCHANGED serverVars

\* No account is connected, or the table cannot be read, or a middleware refuses.
Refuse(p, topic) ==
  /\ req[p] = Idle
  /\ req' = [req EXCEPT ![p] = [pc |-> "done", topic |-> topic, answer |-> Error]]
  /\ UNCHANGED cache

\* Mutation: what is read from the cache is cached anew.
HitRenews(p) ==
  LET r == req[p]
      entry == cache[CacheKey(r.handles)]
  IN /\ r.pc = "context"
     /\ entry # None
     /\ cache' = [cache EXCEPT ![CacheKey(r.handles)] = [entry EXCEPT !.left = TTL]]
     /\ Answer(p, Structured(entry, r))

\* The context is built (stats that do not answer are left out of it), and the
\* cache has an answer for it.
Hit(p) ==
  LET r == req[p]
      entry == cache[CacheKey(r.handles)]
  IN /\ r.pc = "context"
     /\ entry # None
     /\ Answer(p, Structured(entry, r))
     /\ UNCHANGED cache

\* The cache has none, or Redis does not answer.
Miss(p) ==
  /\ req[p].pc = "context"
  /\ req' = [req EXCEPT ![p] =
               [pc |-> "structured", handles |-> @.handles, topic |-> @.topic,
                age |-> @.age, left |-> CallTime]]
  /\ UNCHANGED cache

\* The recommender answers with something that can be normalized.  The whole
\* answer is cached, unless Redis fails; the topic is filtered out of it.  What it
\* was made from was up to `stale' old when the context was built.
Recommended(p) ==
  \E stale \in 0..SourceTTL :
    LET r == req[p]
        entry == [name |-> Username(r.handles), age |-> stale + r.age, left |-> TTL]
    IN /\ r.pc = "structured"
       /\ \/ cache' = [cache EXCEPT ![CacheKey(r.handles)] = entry]
          \/ UNCHANGED cache
       /\ Answer(p, Structured(entry, r))

\* Mutation: an answer that cannot be read is asked for again.
NotRecommendedRetry(p) ==
  /\ req[p].pc = "structured"
  /\ \/ req' = [req EXCEPT ![p].left = CallTime]
     \/ FallBack(p, "ml", MLTime)
  /\ UNCHANGED cache

\* It times out, or answers with an error, or with what cannot be repaired.
NotRecommended(p) ==
  /\ req[p].pc = "structured"
  /\ FallBack(p, "ml", MLTime)
  /\ UNCHANGED cache

\* The microservice keeps the problems that carry the topic as a tag.  "any" reaches it
\* as it is, and is none of its tags.
Ranked(p) ==
  /\ req[p].pc = "ml"
  /\ req[p].topic # AnyTopic
  /\ Answer(p, List)
  /\ UNCHANGED cache

\* It times out, fails, or has no problem for the topic.
NotRanked(p) ==
  /\ req[p].pc = "ml"
  /\ FallBack(p, "roadmap", CallTime)
  /\ UNCHANGED cache

\* The problems of the roadmap's topics whose name contains the topic, be it in the
\* middle of a word.  There may be none: then the answer is null.
Planned(p) ==
  /\ req[p].pc = "roadmap"
  /\ Answer(p, List)
  /\ UNCHANGED cache

NotPlanned(p) ==
  /\ req[p].pc = "roadmap"
  /\ Answer(p, Error)
  /\ UNCHANGED cache

\* The answer has been sent.
Sent(p) ==
  /\ req[p].pc = "done"
  /\ req' = [req EXCEPT ![p] = Idle]
  /\ UNCHANGED cache

Older(r) == [[r EXCEPT !.age = r.age + 1] EXCEPT !.left = r.left - 1]

\* A unit of time passes.  No stage outlasts its timeout, and Redis drops what has
\* expired.
Tick ==
  /\ \A p \in Requests : Active(p) => req[p].left > 0
  /\ req' = [p \in Requests |-> IF Active(p) THEN Older(req[p]) ELSE req[p]]
  /\ cache' = [h \in Names |->
                 IF cache[h] = None THEN None
                 ELSE IF cache[h].left = 1 THEN None ELSE Older(cache[h])]

-----------------------------------------------------------------------------
Init ==
  /\ cache = [h \in Names |-> None]
  /\ req = [p \in Requests |-> Idle]

\* What the server does for a request that has begun.
Work(p) ==
  \/ Hit(p) \/ Miss(p)
  \/ Recommended(p) \/ NotRecommended(p)
  \/ Ranked(p) \/ NotRanked(p)
  \/ Planned(p) \/ NotPlanned(p)

Next ==
  \/ \E p \in Requests : \/ \E topic \in Topics : Begin(p, topic) \/ Refuse(p, topic)
                         \/ Work(p) \/ Sent(p)
  \/ Tick

Spec == Init /\ [][Next]_serverVars

-----------------------------------------------------------------------------
Entry == [name : Names, age : Nat, left : 1..TTL]
Reply ==
  [kind : {"structured"}, name : Names, age : Nat, topic : Topics, asked : Names]
  \cup {List, Error}

Request ==
  {Idle}
  \cup [pc : {"context", "structured"}, handles : Connected, topic : Topics,
        age : Nat, left : Nat]
  \cup [pc : {"ml", "roadmap"}, topic : Topics, age : Nat, left : Nat]
  \cup [pc : {"done"}, topic : Topics, answer : Reply]

\* Types: a request that is served is of a user with an account, and whatever it
\* answers is one of the three kinds.
TypeOK ==
  /\ cache \in [Names -> Entry \cup {None}]
  /\ req \in [Requests -> Request]

\* Whatever is cached, and however the accounts changed meanwhile, a structured
\* answer was generated for the name under which the user asked, and holds the
\* topic that was asked for.
AnswersNameTheUser ==
  \A p \in Requests :
    req[p].pc = "done" /\ req[p].answer.kind = "structured" =>
      /\ req[p].answer.name = req[p].answer.asked
      /\ req[p].answer.topic = req[p].topic

\* "Results are cached in Redis for 6 hours", which is not how old they may be.  What
\* Codeforces and LeetCode said was cached before, then it took time to make an answer
\* of it, and only then do the six hours begin.  The sum is the limit: reading an
\* answer does not renew it, and no third cache adds to it.
AnswersAreRecent ==
  \A p \in Requests :
    req[p].pc = "done" /\ req[p].answer.kind = "structured" =>
      req[p].answer.age <= SourceTTL + ContextTime + CallTime + TTL

\* A request in the worst case: the context, the structured recommender, the
\* microservice and the roadmap workflow, each up to its limit.
Budget == ContextTime + CallTime + MLTime + CallTime

\* However the stages fail and fall back, no request is at work for longer than this:
\* no stage is repeated, and none starts with the clock of another.
WithinBudget == \A p \in Requests : Active(p) => req[p].age <= Budget
=============================================================================
