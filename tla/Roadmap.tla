------------------------------- MODULE Roadmap -------------------------------
(***************************************************************************)
(* A user's goal and roadmaps: RoadmapHandler over the tables user_goals   *)
(* and roadmaps, and the roadmap page (Roadmap.tsx) with its store in each *)
(* of the user's tabs.  No query reaches another user's rows.              *)
(*                                                                         *)
(* What a goal says is abstracted to the number of the save that stored    *)
(* it, 0 standing for none, and what a roadmap says to the goal it was     *)
(* made for.                                                               *)
(***************************************************************************)
EXTENDS Integers, FiniteSets

CONSTANTS
  Tabs,
  Requests,     \* request slots: how many requests overlap
  Modes,        \* the views of a roadmap that the page offers
  MaxGoals,     \* bound on the saves that are stored
  MaxRoadmaps,  \* bound on the roadmaps generated
  None

ASSUME RoadmapAssumption ==
  /\ "weekly" \in Modes
  /\ MaxGoals \in Nat /\ MaxRoadmaps \in Nat
  /\ None \notin Tabs
  /\ None \notin [stamp : 1..MaxRoadmaps, goal : 0..MaxGoals]

VARIABLES
  goal,      \* user_goals: the goal in the user's row, 0 without a row
  roadmaps,  \* the user's rows of roadmaps
  clock,     \* generated_at of the last roadmap that was stamped
  req,       \* the requests under way, with the tab that waits for each
  page,      \* the store of each tab
  clean      \* history: since the page in a tab was opened, no two requests
             \* overlapped, no other tab wrote, and nothing it waits for failed
             \* or was lost

serverVars == <<goal, roadmaps, clock>>
vars == <<serverVars, req, page, clean>>

-----------------------------------------------------------------------------
\* A request other than a load: for tab t, with the goal and the roadmap it has
\* come to, asked for when the page showed goal number `asked'.
Call(pc, t, g, plan, asked) ==
  [pc |-> pc, tab |-> t, todo |-> {}, goal |-> g, plan |-> plan, asked |-> asked]

\* A load, with the GETs that have not ended and what the others gave.
Load(t, todo, g, plan) ==
  [pc |-> "load", tab |-> t, todo |-> todo, goal |-> g, plan |-> plan, asked |-> 0]

Idle == Call("idle", None, 0, None, 0)

Blank == [plan |-> None, mode |-> "weekly", goal |-> 0, loaded |-> FALSE,
          generating |-> FALSE]

Quiet == \A q \in Requests : req[q] = Idle

\* The page is on the screen of the tab: it is loaded or waits for its load.
Mounted(t) ==
  page[t].loaded \/ \E q \in Requests : req[q].pc = "load" /\ req[q].tab = t

\* What becomes of `clean' when tab t begins to write.
WriteBy(t) == clean' = [s \in Tabs |-> clean[s] /\ s = t /\ Quiet]

Become(p, r) == req' = [req EXCEPT ![p] = r]

-----------------------------------------------------------------------------
(* The page's side, up to its awaits.                                      *)

\* useEffect: two GETs at once, unless the store is loaded.
Open(t, p) ==
  /\ req[p] = Idle
  /\ ~page[t].loaded
  /\ Become(p, Load(t, {"roadmap", "goals"}, 0, None))
  /\ clean' = [s \in Tabs |-> (clean[s] \/ s = t) /\ Quiet]
  /\ UNCHANGED <<serverVars, page>>

\* "Regenerate" and its likes are disabled during a generation.  They are there
\* before the page is loaded.
Regenerate(t, p) ==
  /\ req[p] = Idle
  /\ Mounted(t) /\ ~page[t].generating
  /\ page' = [page EXCEPT ![t].generating = TRUE]
  /\ Become(p, Call("context", t, 0, None, page[t].goal))
  /\ WriteBy(t)
  /\ UNCHANGED serverVars

\* saveGoal() up to its await.  The editor can be opened at any time and its button
\* is never disabled; whether it is open is left out.
\* A deadline is sent as the date input writes it.
Save(t, p, withDeadline) ==
  /\ req[p] = Idle
  /\ page[t].loaded
  /\ Become(p, Call(IF withDeadline THEN "dated" ELSE "upsert", t, 0, None, 0))
  /\ WriteBy(t)
  /\ UNCHANGED <<serverVars, page>>

SetMode(t, m) ==
  /\ Mounted(t) /\ page[t].mode # m
  /\ page' = [page EXCEPT ![t].mode = m]
  /\ UNCHANGED <<serverVars, req, clean>>

\* The user reloads the tab: its store starts anew and waits for nothing.  Nor does
\* a load matter any more, which only reads; the server works on at the others.
Reload(t) ==
  /\ page[t] # Blank
  /\ page' = [page EXCEPT ![t] = Blank]
  /\ req' = [q \in Requests |-> IF req[q].tab # t THEN req[q]
                                ELSE IF req[q].pc = "load" THEN Idle
                                ELSE [req[q] EXCEPT !.tab = None]]
  /\ clean' = [clean EXCEPT ![t] = FALSE]
  /\ UNCHANGED serverVars

-----------------------------------------------------------------------------
(* The server's side.                                                      *)

\* Mutation: ORDER BY generated_at without DESC.
EarliestByUserID ==
  IF roadmaps = {} THEN {None}
  ELSE {r \in roadmaps : \A s \in roadmaps : r.stamp <= s.stamp}

\* What ORDER BY generated_at DESC LIMIT 1 may give.
LatestByUserID ==
  IF roadmaps = {} THEN {None}
  ELSE {r \in roadmaps : \A s \in roadmaps : s.stamp <= r.stamp}

GetLatest(p) ==
  /\ req[p].pc = "load" /\ "roadmap" \in req[p].todo
  /\ \E latest \in LatestByUserID :
       Become(p, Load(req[p].tab, req[p].todo \ {"roadmap"}, req[p].goal, latest))
  /\ UNCHANGED <<serverVars, page, clean>>

GetGoals(p) ==
  /\ req[p].pc = "load" /\ "goals" \in req[p].todo
  /\ Become(p, Load(req[p].tab, req[p].todo \ {"goals"}, goal, req[p].plan))
  /\ UNCHANGED <<serverVars, page, clean>>

\* One of the two GETs fails or is lost.  The page takes it for "there is none".
GetFails(p, what) ==
  /\ req[p].pc = "load" /\ what \in req[p].todo
  /\ Become(p, Load(req[p].tab, req[p].todo \ {what}, req[p].goal, req[p].plan))
  /\ clean' = [s \in Tabs |-> clean[s] /\ s # req[p].tab]
  /\ UNCHANGED <<serverVars, page>>

\* Mutation: the error of the upsert is dropped.
UpsertGoalsUnchecked(p) ==
  /\ req[p].pc = "upsert"
  /\ goal < MaxGoals
  /\ goal' \in {goal, goal + 1}
  /\ Become(p, Call("saved", req[p].tab, goal + 1, None, 0))
  /\ UNCHANGED <<roadmaps, clock, page, clean>>

\* One statement, whether there is a row or not.
UpsertGoals(p) ==
  /\ req[p].pc = "upsert"
  /\ goal < MaxGoals
  /\ goal' = goal + 1
  /\ Become(p, Call("saved", req[p].tab, goal + 1, None, 0))
  /\ UNCHANGED <<roadmaps, clock, page, clean>>

\* A date is not what the JSON of a time.Time looks like: "invalid input".
RefuseGoals(p) ==
  /\ req[p].pc = "dated"
  /\ Become(p, Call("invalid", req[p].tab, 0, None, 0))
  /\ UNCHANGED <<serverVars, page, clean>>

\* The end of BuildStudentContext: a lookup that fails counts as "no goal".
ReadContext(p) ==
  /\ req[p].pc = "context"
  /\ \E g \in {goal, 0} : Become(p, Call("ai", req[p].tab, g, None, req[p].asked))
  /\ UNCHANGED <<serverVars, page, clean>>

\* The workflow answers, and the answer is stamped with the time.
Stamp(p) ==
  /\ req[p].pc = "ai"
  /\ clock < MaxRoadmaps
  /\ clock' = clock + 1
  /\ Become(p, Call("insert", req[p].tab, 0, [stamp |-> clock + 1, goal |-> req[p].goal],
                    req[p].asked))
  /\ UNCHANGED <<goal, roadmaps, page, clean>>

\* Mutation: the error of the INSERT is dropped.
InsertUnchecked(p) ==
  /\ req[p].pc = "insert"
  /\ roadmaps' \in {roadmaps, roadmaps \cup {req[p].plan}}
  /\ Become(p, Call("made", req[p].tab, 0, req[p].plan, req[p].asked))
  /\ UNCHANGED <<goal, clock, page, clean>>

Insert(p) ==
  /\ req[p].pc = "insert"
  /\ roadmaps' = roadmaps \cup {req[p].plan}
  /\ Become(p, Call("made", req[p].tab, 0, req[p].plan, req[p].asked))
  /\ UNCHANGED <<goal, clock, page, clean>>

\* A statement fails, the user has no platform, the workflow does not answer in
\* time or not with JSON, which the column requires.
Fail(p) ==
  /\ \/ req[p].pc \in {"upsert", "dated"} /\ Become(p, Call("unsaved", req[p].tab, 0, None, 0))
     \/ /\ req[p].pc \in {"context", "ai", "insert"}
        /\ Become(p, Call("failed", req[p].tab, 0, None, 0))
  /\ UNCHANGED <<serverVars, page, clean>>

Serve(p) ==
  \/ GetLatest(p) \/ GetGoals(p) \/ \E what \in {"roadmap", "goals"} : GetFails(p, what)
  \/ UpsertGoals(p) \/ RefuseGoals(p)
  \/ ReadContext(p) \/ Stamp(p) \/ Insert(p)
  \/ Fail(p)

-----------------------------------------------------------------------------
(* The page's side, from its awaits on.                                    *)

\* Promise.allSettled: nothing of a load is shown until both GETs have ended.
Loaded(t, p) ==
  LET r == req[p]
      none == r.plan = None
  IN
    /\ r.pc = "load" /\ r.tab = t /\ r.todo = {}
    /\ page' = [page EXCEPT ![t] =
         [plan |-> IF none THEN page[t].plan ELSE r.plan,
          mode |-> IF none THEN page[t].mode ELSE "all",
          goal |-> IF r.goal = 0 THEN page[t].goal ELSE r.goal,
          loaded |-> TRUE, generating |-> page[t].generating]]
    /\ Become(p, Idle)
    /\ UNCHANGED <<serverVars, clean>>

\* The save is answered, and generate() begins.
Saved(t, p) ==
  /\ req[p].pc = "saved" /\ req[p].tab = t
  /\ page' = [page EXCEPT ![t] =
       [plan |-> page[t].plan, mode |-> page[t].mode, goal |-> req[p].goal,
        loaded |-> page[t].loaded, generating |-> TRUE]]
  /\ Become(p, Call("context", t, 0, None, req[p].goal))
  /\ UNCHANGED <<serverVars, clean>>

\* catch of saveGoal(): the editor closes, without a word.
SaveRefused(t, p) ==
  /\ req[p].pc \in {"invalid", "unsaved"} /\ req[p].tab = t
  /\ Become(p, Idle)
  /\ UNCHANGED <<serverVars, page, clean>>

\* Mutation: no finally.
GenerationFailsSpinning(t) == UNCHANGED page

\* catch and finally of generate().  The message is left out.
GenerationFails(t) == page' = [page EXCEPT ![t].generating = FALSE]

\* Mutation: the store takes the missing mode for the mode.
GeneratedNoMode(t, p) ==
  /\ req[p].pc = "made" /\ req[p].tab = t
  /\ page' = [page EXCEPT ![t] =
       [plan |-> req[p].plan, mode |-> None, goal |-> page[t].goal,
        loaded |-> page[t].loaded, generating |-> FALSE]]
  /\ Become(p, Idle)
  /\ UNCHANGED <<serverVars, clean>>

Generated(t, p) ==
  /\ req[p].pc = "made" /\ req[p].tab = t
  /\ page' = [page EXCEPT ![t] =
       [plan |-> req[p].plan, mode |-> "weekly", goal |-> page[t].goal,
        loaded |-> page[t].loaded, generating |-> FALSE]]
  /\ Become(p, Idle)
  /\ UNCHANGED <<serverVars, clean>>

GenerationFailed(t, p) ==
  /\ req[p].pc = "failed" /\ req[p].tab = t
  /\ GenerationFails(t)
  /\ Become(p, Idle)
  /\ UNCHANGED <<serverVars, clean>>

\* The proxy or the network gives a save or a generation up.  The server works on.
GiveUp(t, p) ==
  /\ req[p].tab = t
  /\ \/ req[p].pc \in {"upsert", "dated", "saved", "invalid", "unsaved"} /\ UNCHANGED page
     \/ req[p].pc \in {"context", "ai", "insert", "made", "failed"} /\ GenerationFails(t)
  /\ Become(p, [req[p] EXCEPT !.tab = None])
  /\ clean' = [s \in Tabs |-> FALSE]
  /\ UNCHANGED serverVars

\* An answer for which nobody waits any more.
Drop(p) ==
  /\ req[p].tab = None
  /\ req[p].pc \in {"saved", "invalid", "unsaved", "made", "failed"}
  /\ Become(p, Idle)
  /\ UNCHANGED <<serverVars, page, clean>>

Deliver(p) ==
  \/ \E t \in Tabs : Loaded(t, p) \/ Saved(t, p) \/ SaveRefused(t, p)
                       \/ Generated(t, p) \/ GenerationFailed(t, p)
  \/ Drop(p)

-----------------------------------------------------------------------------
Init ==
  /\ goal = 0 /\ roadmaps = {} /\ clock = 0
  /\ req = [p \in Requests |-> Idle]
  /\ page = [t \in Tabs |-> Blank]
  /\ clean = [t \in Tabs |-> FALSE]

User(t) ==
  \/ \E p \in Requests : \/ Open(t, p) \/ Regenerate(t, p) \/ GiveUp(t, p)
                         \/ \E withDeadline \in BOOLEAN : Save(t, p, withDeadline)
  \/ Reload(t)
  \/ \E m \in Modes : SetMode(t, m)

Next ==
  \/ \E t \in Tabs : User(t)
  \/ \E p \in Requests : Serve(p) \/ Deliver(p)

Spec == Init /\ [][Next]_vars /\ \A p \in Requests : WF_vars(Serve(p)) /\ WF_vars(Deliver(p))

-----------------------------------------------------------------------------
Plans == [stamp : 1..MaxRoadmaps, goal : 0..MaxGoals]

Job ==
  [pc : {"idle", "load", "upsert", "dated", "saved", "invalid", "unsaved",
         "context", "ai", "insert", "made", "failed"},
   tab : Tabs \cup {None}, todo : SUBSET {"roadmap", "goals"}, goal : 0..MaxGoals,
   plan : Plans \cup {None}, asked : 0..MaxGoals]

Store ==
  [plan : Plans \cup {None}, mode : Modes \cup {"all"}, goal : 0..MaxGoals,
   loaded : BOOLEAN, generating : BOOLEAN]

\* Types.
TypeOK ==
  /\ goal \in 0..MaxGoals
  /\ roadmaps \subseteq Plans
  /\ clock \in 0..MaxRoadmaps
  /\ req \in [Requests -> Job]
  /\ page \in [Tabs -> Store]
  /\ clean \in [Tabs -> BOOLEAN]

\* A page that was opened in quiet, whose requests did not overlap each other or
\* another tab's writes, and to which nothing was lost, agrees with the tables:
\* it shows the goal in the user's row, and the roadmap that the next visit will
\* show.  (Each of the conditions is needed: the page numbers none of its requests,
\* and a load that began before a generation puts the earlier roadmap back.)
CleanPageIsCurrent ==
  \A t \in Tabs :
    clean[t] /\ page[t].loaded /\ Quiet
      => page[t].goal = goal /\ page[t].plan \in LatestByUserID

\* However requests overlap, the plan that a user gets was made for the goal that
\* the page showed when it was asked for, or a later one; never for an earlier one.
\* (Or for none, when the goal could not be looked up.)  This is what "Save &
\* Regenerate" is for.
PlanFollowsGoal ==
  \A p \in Requests :
    req[p].pc \in {"insert", "made"} =>
      req[p].plan.goal = 0 \/ req[p].plan.goal >= req[p].asked

\* A roadmap that is shown was stored, so that the next visit can find it: the
\* answer is sent after the INSERT and only if that succeeded.
ShownIsStored == \A t \in Tabs : page[t].plan # None => page[t].plan \in roadmaps

\* "Generating..." is shown only while a generation of this tab is under way.  (The
\* other direction does not hold: of two overlapping ones the first to end turns it off.)
GeneratingHasCause ==
  \A t \in Tabs : page[t].generating =>
    \E p \in Requests : /\ req[p].tab = t
                        /\ req[p].pc \in {"context", "ai", "insert", "made", "failed"}

\* Every generation ends on the page, with a roadmap or an error, and "Regenerate"
\* can be pressed again.
GenerationEnds == \A t \in Tabs : page[t].generating ~> ~page[t].generating
=============================================================================
