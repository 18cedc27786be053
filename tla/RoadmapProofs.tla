---------------------------- MODULE RoadmapProofs ----------------------------
(***************************************************************************)
(* Goals and roadmaps, for every number of tabs, requests, goals and       *)
(* roadmaps.                                                               *)
(*                                                                         *)
(* The argument has two layers.  Whatever overlaps, no request and no page *)
(* knows of a goal or a roadmap that is not in the tables (JobsOK,         *)
(* PagesOK), and a plan is for the goal it was asked for or a later one.   *)
(* And as long as a page is clean there is at most one request, and what   *)
(* request and page hold agrees with the tables (CleanInv).                *)
(***************************************************************************)
EXTENDS Roadmap, TLAPS

JobOK(p) ==
  /\ req[p].goal <= goal /\ req[p].asked <= goal
  /\ req[p].pc = "ai" => req[p].goal = 0 \/ req[p].goal >= req[p].asked
  /\ req[p].pc \in {"insert", "made"} =>
       /\ req[p].plan \in Plans
       /\ req[p].plan.goal = 0 \/ req[p].plan.goal >= req[p].asked
  /\ req[p].pc = "insert" => req[p].plan.stamp <= clock
  /\ req[p].pc \in {"load", "made"} /\ req[p].plan # None => req[p].plan \in roadmaps

JobsOK == \A p \in Requests : JobOK(p)

PageOK(t) ==
  page[t].goal <= goal /\ (page[t].plan # None => page[t].plan \in roadmaps)

PagesOK == \A t \in Tabs : PageOK(t)

StampsOK == \A r \in roadmaps : r.stamp <= clock

\* What holds whatever overlaps.
TableInv == TypeOK /\ JobsOK /\ PagesOK /\ StampsOK

-----------------------------------------------------------------------------
(* Types.                                                                  *)

PCs == {"idle", "load", "upsert", "dated", "saved", "invalid", "unsaved",
        "context", "ai", "insert", "made", "failed"}

LEMMA CallType ==
  ASSUME NEW pc \in PCs, NEW t \in Tabs \cup {None}, NEW g \in 0..MaxGoals,
         NEW plan \in Plans \cup {None}, NEW asked \in 0..MaxGoals
  PROVE  Call(pc, t, g, plan, asked) \in Job
BY DEF Call, Job, PCs

LEMMA LoadType ==
  ASSUME NEW t \in Tabs \cup {None}, NEW todo \in SUBSET {"roadmap", "goals"},
         NEW g \in 0..MaxGoals, NEW plan \in Plans \cup {None}
  PROVE  Load(t, todo, g, plan) \in Job
BY RoadmapAssumption DEF Load, Job

LEMMA IdleType == Idle \in Job
<1>1. "idle" \in PCs /\ 0 \in 0..MaxGoals /\ None \in Plans \cup {None} /\ None \in Tabs \cup {None}
  BY RoadmapAssumption DEF PCs
<1> QED BY <1>1, CallType DEF Idle

LEMMA JobFields ==
  ASSUME NEW r \in Job
  PROVE  /\ r.pc \in PCs /\ r.tab \in Tabs \cup {None}
         /\ r.todo \subseteq {"roadmap", "goals"}
         /\ r.goal \in 0..MaxGoals /\ r.plan \in Plans \cup {None}
         /\ r.asked \in 0..MaxGoals
BY DEF Job, PCs

\* A slot takes on a job.
LEMMA BecomeType ==
  ASSUME req \in [Requests -> Job], NEW p \in Requests, NEW r \in Job, Become(p, r)
  PROVE  /\ req' \in [Requests -> Job]
         /\ req'[p] = r
         /\ \A q \in Requests : q # p => req'[q] = req[q]
BY DEF Become

\* What the query for the latest roadmap gives is a row, or None without rows.
LEMMA LatestType ==
  ASSUME TypeOK, NEW r \in LatestByUserID
  PROVE  /\ r \in Plans \cup {None}
         /\ r # None => r \in roadmaps
         /\ r = None => roadmaps = {}
<1>1. None \notin roadmaps
  BY RoadmapAssumption DEF TypeOK, Plans
<1>2. CASE roadmaps = {}
  BY <1>2 DEF LatestByUserID
<1>3. CASE roadmaps # {}
  BY <1>1, <1>3 DEF LatestByUserID, TypeOK
<1> QED BY <1>2, <1>3

-----------------------------------------------------------------------------
(* The tables grow, and what is known of them stays true.                  *)

Grow ==
  /\ goal' \in 0..MaxGoals /\ goal <= goal'
  /\ clock' \in 0..MaxRoadmaps /\ clock <= clock'
  /\ roadmaps \subseteq roadmaps' /\ roadmaps' \subseteq Plans

\* The job r agrees with the tables of the next state.
WillFit(r) ==
  /\ r.goal <= goal' /\ r.asked <= goal'
  /\ r.pc = "ai" => r.goal = 0 \/ r.goal >= r.asked
  /\ r.pc \in {"insert", "made"} =>
       /\ r.plan \in Plans
       /\ r.plan.goal = 0 \/ r.plan.goal >= r.asked
  /\ r.pc = "insert" => r.plan.stamp <= clock'
  /\ r.pc \in {"load", "made"} /\ r.plan # None => r.plan \in roadmaps'

LEMMA OldJobsFit ==
  ASSUME TableInv, Grow, NEW q \in Requests
  PROVE  WillFit(req[q])
<1>1. req[q] \in Job /\ JobOK(q) /\ goal \in Nat /\ clock \in Nat
  BY DEF TableInv, TypeOK, JobsOK
<1>2. /\ req[q].goal \in Nat /\ req[q].asked \in Nat
      /\ req[q].plan \in Plans => req[q].plan.stamp \in Nat
  BY <1>1, JobFields DEF Plans
<1>3. goal' \in Nat /\ clock' \in Nat /\ goal <= goal' /\ clock <= clock'
  BY DEF Grow
<1>4. req[q].goal <= goal' /\ req[q].asked <= goal'
  BY <1>1, <1>2, <1>3 DEF JobOK
<1>5. req[q].pc = "insert" => req[q].plan.stamp <= clock'
  BY <1>1, <1>2, <1>3 DEF JobOK
<1>6. req[q].pc \in {"load", "made"} /\ req[q].plan # None => req[q].plan \in roadmaps'
  BY <1>1 DEF JobOK, Grow
<1> QED BY <1>1, <1>4, <1>5, <1>6 DEF JobOK, WillFit

\* Slot p takes on a job that fits, and the pages stay as they are.
LEMMA JobStep ==
  ASSUME TableInv, Grow, NEW p \in Requests, NEW r \in Job, Become(p, r), WillFit(r)
  PROVE  req' \in [Requests -> Job] /\ JobsOK'
<1>1. /\ req' \in [Requests -> Job]
      /\ req'[p] = r
      /\ \A q \in Requests : q # p => req'[q] = req[q]
  BY BecomeType DEF TableInv, TypeOK
<1>2. ASSUME NEW q \in Requests
      PROVE  WillFit(req'[q])
  BY <1>1, OldJobsFit
<1> QED BY <1>1, <1>2 DEF WillFit, JobsOK, JobOK

LEMMA PagesStay ==
  ASSUME TableInv, Grow, UNCHANGED page
  PROVE  page' \in [Tabs -> Store] /\ PagesOK'
<1>1. ASSUME NEW t \in Tabs
      PROVE  PageOK(t)'
  <2>1. page[t] \in Store /\ page[t].goal \in Nat /\ goal \in Nat
    BY DEF TableInv, TypeOK, Store
  <2>2. page[t].goal <= goal /\ goal <= goal' /\ goal' \in Nat
    BY DEF TableInv, PagesOK, PageOK, Grow
  <2>3. page[t].goal <= goal'
    BY <2>1, <2>2
  <2>4. page[t].plan # None => page[t].plan \in roadmaps'
    BY DEF TableInv, PagesOK, PageOK, Grow
  <2> QED BY <2>3, <2>4 DEF PageOK
<1> QED BY <1>1 DEF TableInv, TypeOK, PagesOK

\* The page of tab t changes to a store that agrees with the tables.
LEMMA PageStep ==
  ASSUME TableInv, UNCHANGED serverVars, NEW t \in Tabs, NEW s \in Store,
         page' = [page EXCEPT ![t] = s],
         s.goal <= goal, s.plan # None => s.plan \in roadmaps
  PROVE  /\ page' \in [Tabs -> Store] /\ PagesOK'
         /\ page'[t] = s
         /\ \A u \in Tabs : u # t => page'[u] = page[u]
<1>1. page' \in [Tabs -> Store] /\ page'[t] = s /\ \A u \in Tabs : u # t => page'[u] = page[u]
  BY DEF TableInv, TypeOK
<1>2. ASSUME NEW u \in Tabs
      PROVE  PageOK(u)'
  BY <1>1, <1>2 DEF TableInv, PagesOK, PageOK, serverVars
<1> QED BY <1>1, <1>2 DEF PagesOK

LEMMA TablesStay ==
  ASSUME TableInv, UNCHANGED serverVars
  PROVE  /\ Grow /\ StampsOK'
         /\ goal' \in 0..MaxGoals /\ roadmaps' \subseteq Plans /\ clock' \in 0..MaxRoadmaps
<1>1. goal \in Nat /\ clock \in Nat
  BY DEF TableInv, TypeOK
<1> QED BY <1>1 DEF TableInv, TypeOK, StampsOK, Grow, serverVars

-----------------------------------------------------------------------------
(* Jobs that fit, and pages of every tab.                                  *)

LEMMA PlainFits ==
  ASSUME NEW pc \in PCs \ {"load", "ai", "insert", "made"}, NEW t \in Tabs \cup {None},
         NEW g \in 0..MaxGoals, NEW asked \in 0..MaxGoals, g <= goal', asked <= goal'
  PROVE  /\ Call(pc, t, g, None, asked) \in Job
         /\ WillFit(Call(pc, t, g, None, asked))
<1>1. Call(pc, t, g, None, asked) \in Job
  BY CallType
<1>2. WillFit(Call(pc, t, g, None, asked))
  BY DEF Call, WillFit
<1> QED BY <1>1, <1>2

LEMMA LoadFits ==
  ASSUME NEW t \in Tabs \cup {None}, NEW todo \in SUBSET {"roadmap", "goals"},
         NEW g \in 0..MaxGoals, NEW plan \in Plans \cup {None}, g <= goal', 0 <= goal',
         plan # None => plan \in roadmaps'
  PROVE  Load(t, todo, g, plan) \in Job /\ WillFit(Load(t, todo, g, plan))
<1>1. Load(t, todo, g, plan) \in Job
  BY LoadType
<1>2. WillFit(Load(t, todo, g, plan))
  BY DEF Load, WillFit
<1> QED BY <1>1, <1>2

LEMMA IdleFits ==
  ASSUME 0 <= goal'
  PROVE  Idle \in Job /\ WillFit(Idle)
BY IdleType DEF Idle, Call, WillFit

\* The fields of a slot, and what is known of them.
LEMMA Known ==
  ASSUME TableInv, NEW p \in Requests
  PROVE  /\ req[p].pc \in PCs /\ req[p].tab \in Tabs \cup {None}
         /\ req[p].todo \in SUBSET {"roadmap", "goals"}
         /\ req[p].goal \in 0..MaxGoals /\ req[p].plan \in Plans \cup {None}
         /\ req[p].asked \in 0..MaxGoals
         /\ req[p].goal <= goal /\ req[p].asked <= goal
         /\ goal \in 0..MaxGoals /\ 0 <= goal /\ JobOK(p)
<1>1. req[p] \in Job /\ JobOK(p) /\ goal \in 0..MaxGoals
  BY DEF TableInv, TypeOK, JobsOK
<1> QED BY <1>1, JobFields DEF JobOK

LEMMA PageKnown ==
  ASSUME TableInv, NEW t \in Tabs
  PROVE  /\ page[t].plan \in Plans \cup {None} /\ page[t].mode \in Modes \cup {"all"}
         /\ page[t].goal \in 0..MaxGoals /\ page[t].loaded \in BOOLEAN
         /\ page[t].generating \in BOOLEAN
         /\ page[t].goal <= goal
         /\ page[t].plan # None => page[t].plan \in roadmaps
BY DEF TableInv, TypeOK, Store, PagesOK, PageOK

\* What is left to say of a step once it is known what becomes of slot and page.
LEMMA Assemble ==
  ASSUME TableInv, UNCHANGED serverVars, req' \in [Requests -> Job], JobsOK',
         page' \in [Tabs -> Store], PagesOK', clean' \in [Tabs -> BOOLEAN]
  PROVE  TableInv'
BY TablesStay DEF TableInv, TypeOK

LEMMA CleanType ==
  ASSUME TypeOK
  PROVE  /\ \A t \in Tabs : WriteBy(t) => clean' \in [Tabs -> BOOLEAN]
         /\ UNCHANGED clean => clean' \in [Tabs -> BOOLEAN]
         /\ (\A s \in Tabs : clean'[s] \in BOOLEAN) /\ clean' = [s \in Tabs |-> clean'[s]]
              => clean' \in [Tabs -> BOOLEAN]
BY DEF TypeOK, WriteBy

\* A step that only moves slot p on, by a job that fits.
LEMMA SlotOnly ==
  ASSUME TableInv, UNCHANGED <<serverVars, page>>, NEW p \in Requests, NEW r \in Job,
         Become(p, r), WillFit(r), clean' \in [Tabs -> BOOLEAN]
  PROVE  TableInv'
<1>1. Grow
  BY TablesStay
<1>2. req' \in [Requests -> Job] /\ JobsOK'
  BY <1>1, JobStep
<1>3. page' \in [Tabs -> Store] /\ PagesOK'
  BY <1>1, PagesStay
<1> QED BY <1>2, <1>3, Assemble

\* A step that moves slot p on and changes the page of tab t.
LEMMA SlotAndPage ==
  ASSUME TableInv, UNCHANGED serverVars, NEW p \in Requests, NEW r \in Job,
         Become(p, r), WillFit(r), NEW t \in Tabs, NEW s \in Store,
         page' = [page EXCEPT ![t] = s],
         s.goal <= goal, s.plan # None => s.plan \in roadmaps,
         clean' \in [Tabs -> BOOLEAN]
  PROVE  TableInv'
<1>1. Grow
  BY TablesStay
<1>2. req' \in [Requests -> Job] /\ JobsOK'
  BY <1>1, JobStep
<1>3. page' \in [Tabs -> Store] /\ PagesOK'
  BY PageStep
<1> QED BY <1>2, <1>3, Assemble

-----------------------------------------------------------------------------
(* Loads and the page alone.                                               *)

LEMMA OpenTable ==
  ASSUME TableInv, NEW t \in Tabs, NEW p \in Requests, Open(t, p)
  PROVE  TableInv'
<1>1. clean' \in [Tabs -> BOOLEAN]
  BY DEF Open
<1>2. UNCHANGED <<serverVars, page>>
  BY DEF Open
<1>3. 0 <= goal' /\ 0 \in 0..MaxGoals
  BY <1>2, Known, RoadmapAssumption DEF serverVars
<1>4. LET r == Load(t, {"roadmap", "goals"}, 0, None) IN r \in Job /\ WillFit(r)
  BY <1>3, LoadFits
<1> QED BY <1>1, <1>2, <1>4, SlotOnly DEF Open

LEMMA LoadTable ==
  ASSUME TableInv, NEW p \in Requests,
         \/ GetLatest(p) \/ GetGoals(p)
         \/ \E what \in {"roadmap", "goals"} : GetFails(p, what)
  PROVE  TableInv'
<1>1. UNCHANGED <<serverVars, page>> /\ clean' \in [Tabs -> BOOLEAN]
  <2>1. CASE GetLatest(p) \/ GetGoals(p)
    BY <2>1 DEF GetLatest, GetGoals, TableInv, TypeOK
  <2>2. CASE \E what \in {"roadmap", "goals"} : GetFails(p, what)
    BY <2>2 DEF GetFails
  <2> QED BY <2>1, <2>2
<1>2. 0 <= goal' /\ goal' = goal /\ roadmaps' = roadmaps /\ goal \in 0..MaxGoals /\ goal <= goal
  BY <1>1, Known DEF serverVars
<1>3. req[p].pc = "load"
  BY DEF GetLatest, GetGoals, GetFails
<1>4. req[p].plan # None => req[p].plan \in roadmaps
  BY <1>3, Known DEF JobOK
<1>5. \E r \in Job : Become(p, r) /\ WillFit(r)
  <2>1. ASSUME NEW latest \in LatestByUserID,
               Become(p, Load(req[p].tab, req[p].todo \ {"roadmap"}, req[p].goal, latest))
        PROVE  \E r \in Job : Become(p, r) /\ WillFit(r)
    <3>1. latest \in Plans \cup {None} /\ (latest # None => latest \in roadmaps)
      BY LatestType DEF TableInv
    <3>2. LET r == Load(req[p].tab, req[p].todo \ {"roadmap"}, req[p].goal, latest)
          IN  r \in Job /\ WillFit(r)
      BY <1>2, <3>1, Known, LoadFits
    <3> QED BY <2>1, <3>2
  <2>2. ASSUME Become(p, Load(req[p].tab, req[p].todo \ {"goals"}, goal, req[p].plan))
        PROVE  \E r \in Job : Become(p, r) /\ WillFit(r)
    <3>1. LET r == Load(req[p].tab, req[p].todo \ {"goals"}, goal, req[p].plan)
          IN  r \in Job /\ WillFit(r)
      BY <1>2, <1>4, Known, LoadFits
    <3> QED BY <2>2, <3>1
  <2>3. ASSUME NEW what \in {"roadmap", "goals"},
               Become(p, Load(req[p].tab, req[p].todo \ {what}, req[p].goal, req[p].plan))
        PROVE  \E r \in Job : Become(p, r) /\ WillFit(r)
    <3>1. LET r == Load(req[p].tab, req[p].todo \ {what}, req[p].goal, req[p].plan)
          IN  r \in Job /\ WillFit(r)
      BY <1>2, <1>4, Known, LoadFits
    <3> QED BY <2>3, <3>1
  <2> QED BY <2>1, <2>2, <2>3 DEF GetLatest, GetGoals, GetFails
<1> QED BY <1>1, <1>5, SlotOnly

\* Turning the spinner on or off, or choosing a view, keeps what the page holds.
LEMMA FlagStep ==
  ASSUME TableInv, UNCHANGED serverVars, NEW t \in Tabs,
         \/ \E b \in BOOLEAN : page' = [page EXCEPT ![t].generating = b]
         \/ \E m \in Modes : page' = [page EXCEPT ![t].mode = m]
         \/ page' = page
  PROVE  /\ page' \in [Tabs -> Store] /\ PagesOK'
         /\ \A u \in Tabs : /\ page'[u].plan = page[u].plan /\ page'[u].goal = page[u].goal
                            /\ page'[u].loaded = page[u].loaded
         /\ \A u \in Tabs : u # t => page'[u] = page[u]
<1>1. page \in [Tabs -> Store]
  BY DEF TableInv, TypeOK
<1>2. page' \in [Tabs -> Store] /\ \A u \in Tabs : u # t => page'[u] = page[u]
  <2>1. ASSUME NEW b \in BOOLEAN, page' = [page EXCEPT ![t].generating = b]
        PROVE  page' \in [Tabs -> Store] /\ \A u \in Tabs : u # t => page'[u] = page[u]
    BY <1>1, <2>1 DEF Store
  <2>2. ASSUME NEW m \in Modes, page' = [page EXCEPT ![t].mode = m]
        PROVE  page' \in [Tabs -> Store] /\ \A u \in Tabs : u # t => page'[u] = page[u]
    BY <1>1, <2>2 DEF Store
  <2> QED BY <1>1, <2>1, <2>2
<1>3. ASSUME NEW u \in Tabs
      PROVE  /\ page'[u].plan = page[u].plan /\ page'[u].goal = page[u].goal
             /\ page'[u].loaded = page[u].loaded
  <2>1. ASSUME NEW b \in BOOLEAN, page' = [page EXCEPT ![t].generating = b]
        PROVE  /\ page'[u].plan = page[u].plan /\ page'[u].goal = page[u].goal
               /\ page'[u].loaded = page[u].loaded
    BY <1>1, <2>1 DEF Store
  <2>2. ASSUME NEW m \in Modes, page' = [page EXCEPT ![t].mode = m]
        PROVE  /\ page'[u].plan = page[u].plan /\ page'[u].goal = page[u].goal
               /\ page'[u].loaded = page[u].loaded
    BY <1>1, <2>2 DEF Store
  <2> QED BY <2>1, <2>2
<1>4. PagesOK'
  BY <1>3 DEF TableInv, PagesOK, PageOK, serverVars
<1> QED BY <1>2, <1>3, <1>4

LEMMA RegenerateTable ==
  ASSUME TableInv, NEW t \in Tabs, NEW p \in Requests, Regenerate(t, p)
  PROVE  TableInv'
<1>1. UNCHANGED serverVars /\ clean' \in [Tabs -> BOOLEAN]
  BY CleanType DEF Regenerate, TableInv
<1>2. page' \in [Tabs -> Store] /\ PagesOK'
  BY <1>1, FlagStep DEF Regenerate
<1>3. LET r == Call("context", t, 0, None, page[t].goal) IN r \in Job /\ WillFit(r)
  BY <1>1, Known, PageKnown, PlainFits, RoadmapAssumption DEF serverVars, PCs
<1>4. req' \in [Requests -> Job] /\ JobsOK'
  BY <1>1, <1>3, TablesStay, JobStep DEF Regenerate
<1> QED BY <1>1, <1>2, <1>4, Assemble

LEMMA SaveTable ==
  ASSUME TableInv, NEW t \in Tabs, NEW p \in Requests, NEW withDeadline \in BOOLEAN,
         Save(t, p, withDeadline)
  PROVE  TableInv'
<1>1. UNCHANGED <<serverVars, page>> /\ clean' \in [Tabs -> BOOLEAN]
  BY CleanType DEF Save, TableInv
<1>2. LET r == Call(IF withDeadline THEN "dated" ELSE "upsert", t, 0, None, 0)
      IN  r \in Job /\ WillFit(r)
  BY <1>1, Known, PlainFits, RoadmapAssumption DEF serverVars, PCs
<1> QED BY <1>1, <1>2, SlotOnly DEF Save

LEMMA SetModeTable ==
  ASSUME TableInv, NEW t \in Tabs, NEW m \in Modes, SetMode(t, m)
  PROVE  TableInv'
<1>1. UNCHANGED serverVars /\ clean' \in [Tabs -> BOOLEAN] /\ req' = req
  BY CleanType DEF SetMode, TableInv
<1>2. page' \in [Tabs -> Store] /\ PagesOK'
  BY <1>1, FlagStep DEF SetMode
<1>3. req' \in [Requests -> Job] /\ JobsOK'
  BY <1>1 DEF TableInv, TypeOK, JobsOK, JobOK, serverVars
<1> QED BY <1>1, <1>2, <1>3, Assemble

\* What becomes of the slots when a tab is reloaded.
LEMMA ReloadSlots ==
  ASSUME TableInv, NEW t \in Tabs, Reload(t), NEW q \in Requests
  PROVE  /\ req'[q] \in Job
         /\ req[q].tab # t => req'[q] = req[q]
         /\ req[q].tab = t /\ req[q].pc = "load" => req'[q] = Idle
         /\ req[q].tab = t /\ req[q].pc # "load" =>
              /\ req'[q].pc = req[q].pc /\ req'[q].tab = None
              /\ req'[q].goal = req[q].goal /\ req'[q].plan = req[q].plan
              /\ req'[q].asked = req[q].asked
<1>1. req[q] \in Job
  BY DEF TableInv, TypeOK
<1>2. CASE req[q].tab # t
  BY <1>1, <1>2 DEF Reload
<1>3. CASE req[q].tab = t /\ req[q].pc = "load"
  BY <1>3, IdleType DEF Reload
<1>4. CASE req[q].tab = t /\ req[q].pc # "load"
  <2>1. req'[q] = [req[q] EXCEPT !.tab = None]
    BY <1>4 DEF Reload
  <2> QED BY <1>1, <1>4, <2>1 DEF Job
<1> QED BY <1>2, <1>3, <1>4

LEMMA ReloadTable ==
  ASSUME TableInv, NEW t \in Tabs, Reload(t)
  PROVE  TableInv'
<1>1. UNCHANGED serverVars /\ clean' \in [Tabs -> BOOLEAN] /\ goal \in Nat
  BY DEF Reload, TableInv, TypeOK
<1>2. Blank \in Store /\ Blank.goal = 0 /\ Blank.plan = None
  BY RoadmapAssumption DEF Blank, Store
<1>3. page' \in [Tabs -> Store] /\ PagesOK'
  <2>1. page' = [page EXCEPT ![t] = Blank]
    BY DEF Reload
  <2>2. Blank.goal <= goal /\ (Blank.plan # None => Blank.plan \in roadmaps)
    BY <1>1, <1>2
  <2> QED BY <1>1, <1>2, <2>1, <2>2, PageStep
<1>4. req' \in [Requests -> Job]
  BY ReloadSlots DEF Reload
<1>5. ASSUME NEW q \in Requests
      PROVE  JobOK(q)'
  <2>1. JobOK(q)
    BY Known
  <2>2. CASE req[q].tab = t /\ req[q].pc = "load"
    <3>1. req'[q] = Idle
      BY <2>2, ReloadSlots
    <3> QED BY <1>1, <3>1 DEF JobOK, Idle, Call, serverVars
  <2>3. CASE ~(req[q].tab = t /\ req[q].pc = "load")
    <3>1. /\ req'[q].pc = req[q].pc /\ req'[q].goal = req[q].goal
          /\ req'[q].plan = req[q].plan /\ req'[q].asked = req[q].asked
      BY <2>3, ReloadSlots
    <3> QED BY <1>1, <2>1, <3>1 DEF JobOK, serverVars
  <2> QED BY <2>2, <2>3
<1> QED BY <1>1, <1>3, <1>4, <1>5, Assemble DEF JobsOK

-----------------------------------------------------------------------------
(* Saves and generations on the server.                                    *)

LEMMA UpsertTable ==
  ASSUME TableInv, NEW p \in Requests, UpsertGoals(p)
  PROVE  TableInv'
<1>1. /\ goal \in 0..MaxGoals /\ goal < MaxGoals /\ goal' = goal + 1
      /\ MaxGoals \in Nat /\ clock \in 0..MaxRoadmaps
      /\ roadmaps' = roadmaps /\ clock' = clock /\ page' = page /\ clean' = clean
      /\ clean \in [Tabs -> BOOLEAN] /\ roadmaps \subseteq Plans
  BY RoadmapAssumption DEF UpsertGoals, TableInv, TypeOK
<1>2. goal' \in 0..MaxGoals /\ goal <= goal' /\ 0 <= goal' /\ clock <= clock'
  BY <1>1
<1>3. Grow
  BY <1>1, <1>2 DEF Grow
<1>4. LET r == Call("saved", req[p].tab, goal + 1, None, 0) IN r \in Job /\ WillFit(r)
  <2>1. "saved" \in PCs \ {"load", "ai", "insert", "made"}
    BY DEF PCs
  <2>2. req[p].tab \in Tabs \cup {None}
    BY Known
  <2>3. goal + 1 \in 0..MaxGoals /\ goal + 1 <= goal' /\ 0 \in 0..MaxGoals
    BY <1>1, <1>2
  <2> QED BY <1>2, <2>1, <2>2, <2>3, PlainFits
<1>5. req' \in [Requests -> Job] /\ JobsOK'
  BY <1>3, <1>4, JobStep DEF UpsertGoals
<1>6. page' \in [Tabs -> Store] /\ PagesOK'
  BY <1>1, <1>3, PagesStay
<1>7. StampsOK'
  BY <1>1 DEF TableInv, StampsOK
<1> QED BY <1>1, <1>2, <1>5, <1>6, <1>7 DEF TableInv, TypeOK

LEMMA PlainServerTable ==
  ASSUME TableInv, NEW p \in Requests, RefuseGoals(p) \/ Fail(p)
  PROVE  TableInv'
<1>1. UNCHANGED <<serverVars, page>> /\ clean' \in [Tabs -> BOOLEAN]
  BY DEF RefuseGoals, Fail, TableInv, TypeOK
<1>2. \E pc \in {"invalid", "unsaved", "failed"} : Become(p, Call(pc, req[p].tab, 0, None, 0))
  BY DEF RefuseGoals, Fail
<1>3. PICK pc \in {"invalid", "unsaved", "failed"} : Become(p, Call(pc, req[p].tab, 0, None, 0))
  BY <1>2
<1>4. LET r == Call(pc, req[p].tab, 0, None, 0) IN r \in Job /\ WillFit(r)
  BY <1>1, Known, PlainFits, RoadmapAssumption DEF serverVars, PCs
<1> QED BY <1>1, <1>3, <1>4, SlotOnly

LEMMA ReadContextTable ==
  ASSUME TableInv, NEW p \in Requests, ReadContext(p)
  PROVE  TableInv'
<1>1. UNCHANGED <<serverVars, page>> /\ clean' \in [Tabs -> BOOLEAN]
  BY DEF ReadContext, TableInv, TypeOK
<1>2. PICK g \in {goal, 0} : Become(p, Call("ai", req[p].tab, g, None, req[p].asked))
  BY DEF ReadContext
<1>3. /\ g \in 0..MaxGoals /\ g <= goal' /\ req[p].asked \in 0..MaxGoals
      /\ req[p].asked <= goal' /\ (g = 0 \/ g >= req[p].asked)
      /\ req[p].tab \in Tabs \cup {None} /\ "ai" \in PCs
  BY <1>1, <1>2, Known, RoadmapAssumption DEF serverVars, PCs
<1>4. Call("ai", req[p].tab, g, None, req[p].asked) \in Job
  BY <1>3, CallType
<1>5. WillFit(Call("ai", req[p].tab, g, None, req[p].asked))
  BY <1>3 DEF WillFit, Call
<1> QED BY <1>1, <1>2, <1>4, <1>5, SlotOnly

LEMMA StampTable ==
  ASSUME TableInv, NEW p \in Requests, Stamp(p)
  PROVE  TableInv'
<1> DEFINE plan == [stamp |-> clock + 1, goal |-> req[p].goal]
<1>1. /\ clock \in 0..MaxRoadmaps /\ clock < MaxRoadmaps /\ clock' = clock + 1
      /\ MaxRoadmaps \in Nat /\ goal \in 0..MaxGoals
      /\ roadmaps' = roadmaps /\ goal' = goal /\ page' = page /\ clean' = clean
      /\ clean \in [Tabs -> BOOLEAN] /\ roadmaps \subseteq Plans /\ req[p].pc = "ai"
  BY RoadmapAssumption DEF Stamp, TableInv, TypeOK
<1>2. /\ clock' \in 0..MaxRoadmaps /\ clock <= clock' /\ 0 <= goal' /\ goal <= goal'
      /\ clock' \in 1..MaxRoadmaps
  BY <1>1
<1>3. Grow
  BY <1>1, <1>2 DEF Grow
<1>4. /\ req[p].goal \in 0..MaxGoals /\ req[p].asked \in 0..MaxGoals
      /\ req[p].asked <= goal /\ (req[p].goal = 0 \/ req[p].goal >= req[p].asked)
      /\ req[p].tab \in Tabs \cup {None} /\ "insert" \in PCs /\ 0 \in 0..MaxGoals
  BY <1>1, Known, RoadmapAssumption DEF JobOK, PCs
<1>5. /\ plan \in Plans /\ plan \in Plans \cup {None}
      /\ plan.stamp = clock' /\ plan.goal = req[p].goal
  BY <1>1, <1>2, <1>4 DEF Plans
<1>6. Become(p, Call("insert", req[p].tab, 0, plan, req[p].asked))
  BY DEF Stamp
<1> HIDE DEF plan
<1>7. Call("insert", req[p].tab, 0, plan, req[p].asked) \in Job
  BY <1>4, <1>5, CallType
<1>8. WillFit(Call("insert", req[p].tab, 0, plan, req[p].asked))
  BY <1>1, <1>2, <1>4, <1>5 DEF WillFit, Call
<1>9. req' \in [Requests -> Job] /\ JobsOK'
  BY <1>3, <1>6, <1>7, <1>8, JobStep
<1>10. page' \in [Tabs -> Store] /\ PagesOK'
  BY <1>1, <1>3, PagesStay
<1>11. StampsOK'
  BY <1>1 DEF TableInv, StampsOK, Plans
<1> QED BY <1>1, <1>2, <1>9, <1>10, <1>11 DEF TableInv, TypeOK

LEMMA InsertTable ==
  ASSUME TableInv, NEW p \in Requests, Insert(p)
  PROVE  TableInv'
<1>1. /\ roadmaps' = roadmaps \cup {req[p].plan}
      /\ clock' = clock /\ goal' = goal /\ page' = page /\ clean' = clean
      /\ clean \in [Tabs -> BOOLEAN] /\ roadmaps \subseteq Plans /\ req[p].pc = "insert"
      /\ clock \in 0..MaxRoadmaps /\ goal \in 0..MaxGoals
  BY DEF Insert, TableInv, TypeOK
<1>2. /\ req[p].plan \in Plans /\ req[p].plan.stamp <= clock
      /\ req[p].asked <= goal /\ req[p].asked \in 0..MaxGoals
      /\ (req[p].plan.goal = 0 \/ req[p].plan.goal >= req[p].asked)
      /\ req[p].tab \in Tabs \cup {None} /\ "made" \in PCs /\ 0 \in 0..MaxGoals
  BY <1>1, Known, RoadmapAssumption DEF JobOK, PCs
<1>3. Grow
  <2>1. clock <= clock' /\ goal <= goal'
    BY <1>1
  <2> QED BY <1>1, <1>2, <2>1 DEF Grow
<1>4. Call("made", req[p].tab, 0, req[p].plan, req[p].asked) \in Job
  BY <1>2, CallType
<1>5. WillFit(Call("made", req[p].tab, 0, req[p].plan, req[p].asked))
  <2>1. 0 <= goal' /\ req[p].asked <= goal'
    BY <1>1, <1>2
  <2> QED BY <1>1, <1>2, <2>1 DEF WillFit, Call
<1>6. req' \in [Requests -> Job] /\ JobsOK'
  BY <1>3, <1>4, <1>5, JobStep DEF Insert
<1>7. page' \in [Tabs -> Store] /\ PagesOK'
  BY <1>1, <1>3, PagesStay
<1>8. StampsOK'
  BY <1>1, <1>2 DEF TableInv, StampsOK
<1> QED BY <1>1, <1>2, <1>6, <1>7, <1>8 DEF TableInv, TypeOK

-----------------------------------------------------------------------------
(* Answers that arrive.                                                    *)

LEMMA LoadedTable ==
  ASSUME TableInv, NEW t \in Tabs, NEW p \in Requests, Loaded(t, p)
  PROVE  TableInv'
<1> DEFINE none == req[p].plan = None
           s == [plan |-> IF none THEN page[t].plan ELSE req[p].plan,
                 mode |-> IF none THEN page[t].mode ELSE "all",
                 goal |-> IF req[p].goal = 0 THEN page[t].goal ELSE req[p].goal,
                 loaded |-> TRUE, generating |-> page[t].generating]
<1>1. /\ UNCHANGED serverVars /\ clean' \in [Tabs -> BOOLEAN] /\ req[p].pc = "load"
      /\ Become(p, Idle) /\ page' = [page EXCEPT ![t] = s]
  BY DEF Loaded, TableInv, TypeOK
<1>2. req[p].plan # None => req[p].plan \in roadmaps
  BY <1>1, Known DEF JobOK
<1>3. s \in Store
  BY Known, PageKnown DEF Store
<1>4. s.goal <= goal /\ (s.plan # None => s.plan \in roadmaps)
  BY <1>2, Known, PageKnown
<1> HIDE DEF s
<1>5. Idle \in Job /\ WillFit(Idle)
  BY <1>1, Known, IdleFits DEF serverVars
<1> QED BY <1>1, <1>3, <1>4, <1>5, SlotAndPage

LEMMA SavedTable ==
  ASSUME TableInv, NEW t \in Tabs, NEW p \in Requests, Saved(t, p)
  PROVE  TableInv'
<1> DEFINE s == [plan |-> page[t].plan, mode |-> page[t].mode, goal |-> req[p].goal,
                 loaded |-> page[t].loaded, generating |-> TRUE]
           r == Call("context", t, 0, None, req[p].goal)
<1>1. /\ UNCHANGED serverVars /\ clean' \in [Tabs -> BOOLEAN]
      /\ Become(p, r) /\ page' = [page EXCEPT ![t] = s]
  BY DEF Saved, TableInv, TypeOK
<1>2. s \in Store /\ s.goal <= goal /\ (s.plan # None => s.plan \in roadmaps)
  BY Known, PageKnown DEF Store
<1>3. r \in Job /\ WillFit(r)
  BY <1>1, Known, PlainFits, RoadmapAssumption DEF serverVars, PCs
<1> HIDE DEF s, r
<1> QED BY <1>1, <1>2, <1>3, SlotAndPage

LEMMA GeneratedTable ==
  ASSUME TableInv, NEW t \in Tabs, NEW p \in Requests, Generated(t, p)
  PROVE  TableInv'
<1> DEFINE s == [plan |-> req[p].plan, mode |-> "weekly", goal |-> page[t].goal,
                 loaded |-> page[t].loaded, generating |-> FALSE]
<1>1. /\ UNCHANGED serverVars /\ clean' \in [Tabs -> BOOLEAN] /\ req[p].pc = "made"
      /\ Become(p, Idle) /\ page' = [page EXCEPT ![t] = s]
  BY DEF Generated, TableInv, TypeOK
<1>2. req[p].plan # None => req[p].plan \in roadmaps
  BY <1>1, Known DEF JobOK
<1>3. s \in Store /\ s.goal <= goal /\ (s.plan # None => s.plan \in roadmaps)
  BY <1>2, Known, PageKnown, RoadmapAssumption DEF Store
<1>4. Idle \in Job /\ WillFit(Idle)
  BY <1>1, Known, IdleFits DEF serverVars
<1> HIDE DEF s
<1> QED BY <1>1, <1>3, <1>4, SlotAndPage

LEMMA FailedTable ==
  ASSUME TableInv, NEW t \in Tabs, NEW p \in Requests,
         GenerationFailed(t, p) \/ SaveRefused(t, p)
  PROVE  TableInv'
<1>1. UNCHANGED serverVars /\ clean' \in [Tabs -> BOOLEAN] /\ Become(p, Idle)
  BY DEF GenerationFailed, SaveRefused, TableInv, TypeOK
<1>2. page' = page \/ page' = [page EXCEPT ![t].generating = FALSE]
  BY DEF GenerationFailed, SaveRefused, GenerationFails
<1>3. page' \in [Tabs -> Store] /\ PagesOK'
  BY <1>1, <1>2, FlagStep
<1>4. Idle \in Job /\ WillFit(Idle)
  BY <1>1, Known, IdleFits DEF serverVars
<1>5. req' \in [Requests -> Job] /\ JobsOK'
  BY <1>1, <1>4, TablesStay, JobStep
<1> QED BY <1>1, <1>3, <1>5, Assemble

LEMMA DropTable ==
  ASSUME TableInv, NEW p \in Requests, Drop(p)
  PROVE  TableInv'
<1>1. UNCHANGED <<serverVars, page>> /\ clean' \in [Tabs -> BOOLEAN] /\ Become(p, Idle)
  BY DEF Drop, TableInv, TypeOK
<1>2. Idle \in Job /\ WillFit(Idle)
  BY <1>1, Known, IdleFits DEF serverVars
<1> QED BY <1>1, <1>2, SlotOnly

LEMMA GiveUpTable ==
  ASSUME TableInv, NEW t \in Tabs, NEW p \in Requests, GiveUp(t, p)
  PROVE  TableInv'
<1> DEFINE r == [req[p] EXCEPT !.tab = None]
<1>1. UNCHANGED serverVars /\ clean' \in [Tabs -> BOOLEAN] /\ Become(p, r)
  BY DEF GiveUp
<1>2. page' = page \/ page' = [page EXCEPT ![t].generating = FALSE]
  BY DEF GiveUp, GenerationFails
<1>3. page' \in [Tabs -> Store] /\ PagesOK'
  BY <1>1, <1>2, FlagStep
<1>4. /\ r \in Job /\ r.pc = req[p].pc /\ r.goal = req[p].goal /\ r.plan = req[p].plan
      /\ r.asked = req[p].asked
  <2>1. req[p] \in Job
    BY DEF TableInv, TypeOK
  <2> QED BY <2>1 DEF Job
<1>5. Grow
  BY <1>1, TablesStay
<1>6. WillFit(req[p])
  BY <1>5, OldJobsFit
<1> HIDE DEF r
<1>7. WillFit(r)
  BY <1>4, <1>6 DEF WillFit
<1>8. req' \in [Requests -> Job] /\ JobsOK'
  BY <1>1, <1>4, <1>5, <1>7, JobStep
<1> QED BY <1>1, <1>3, <1>8, Assemble

-----------------------------------------------------------------------------
(* Whatever overlaps.                                                      *)

LEMMA TableInit == Init => TableInv
<1> SUFFICES ASSUME Init PROVE TableInv
  OBVIOUS
<1>1. Blank \in Store /\ Blank.goal = 0 /\ Blank.plan = None
  BY RoadmapAssumption DEF Blank, Store
<1>2. TypeOK
  BY <1>1, IdleType, RoadmapAssumption DEF Init, TypeOK
<1>3. JobsOK
  BY DEF Init, JobsOK, JobOK, Idle, Call
<1>4. PagesOK
  BY <1>1 DEF Init, PagesOK, PageOK
<1> QED BY <1>2, <1>3, <1>4 DEF Init, TableInv, StampsOK

LEMMA TableNext == TableInv /\ [Next]_vars => TableInv'
<1> SUFFICES ASSUME TableInv, [Next]_vars PROVE TableInv'
  OBVIOUS
<1>1. ASSUME NEW t \in Tabs, User(t)
      PROVE  TableInv'
  BY <1>1, OpenTable, RegenerateTable, GiveUpTable, SaveTable, ReloadTable, SetModeTable
     DEF User
<1>2. ASSUME NEW p \in Requests, Serve(p)
      PROVE  TableInv'
  BY <1>2, LoadTable, UpsertTable, PlainServerTable, ReadContextTable, StampTable,
     InsertTable DEF Serve
<1>3. ASSUME NEW p \in Requests, Deliver(p)
      PROVE  TableInv'
  BY <1>3, LoadedTable, SavedTable, GeneratedTable, FailedTable, DropTable DEF Deliver
<1>4. CASE UNCHANGED vars
  BY <1>4 DEF vars, serverVars, TableInv, TypeOK, JobsOK, JobOK, PagesOK, PageOK, StampsOK
<1> QED BY <1>1, <1>2, <1>3, <1>4 DEF Next

\* Whatever overlaps, no request and no page knows of more than the tables hold.
THEOREM TablesHold == Spec => []TableInv
BY TableInit, TableNext, PTL DEF Spec

\* The state of tables, requests and pages is well-formed, for every number of tabs,
\* overlapping requests, goals and roadmaps.
THEOREM TypeCorrect == Spec => []TypeOK
<1>1. TableInv => TypeOK
  BY DEF TableInv
<1> QED BY <1>1, TablesHold, PTL

\* However requests overlap, a roadmap is for the goal that was shown when it was asked
\* for, or a later one.
THEOREM PlansFollow == Spec => []PlanFollowsGoal
<1>1. TableInv => PlanFollowsGoal
  BY DEF TableInv, JobsOK, JobOK, PlanFollowsGoal
<1> QED BY <1>1, TablesHold, PTL

\* No page shows a roadmap that was not stored.
THEOREM ShownAreStored == Spec => []ShownIsStored
<1>1. TableInv => ShownIsStored
  BY DEF TableInv, PagesOK, PageOK, ShownIsStored
<1> QED BY <1>1, TablesHold, PTL

-----------------------------------------------------------------------------
(* The spinner.                                                            *)

Making == {"context", "ai", "insert", "made", "failed"}

\* A step that moves slot p on and starts no generation: the one that p was the
\* cause of goes on, or its spinner is turned off.
LEMMA CauseStep ==
  ASSUME TypeOK, GeneratingHasCause, NEW p \in Requests, NEW r, Become(p, r),
         \A t \in Tabs : page'[t].generating => page[t].generating,
         \A t \in Tabs : req[p].tab = t /\ req[p].pc \in Making =>
           (r.tab = t /\ r.pc \in Making) \/ ~page'[t].generating
  PROVE  GeneratingHasCause'
<1>1. req'[p] = r /\ \A q \in Requests : q # p => req'[q] = req[q]
  BY DEF Become, TypeOK
<1>2. ASSUME NEW t \in Tabs, page'[t].generating
      PROVE  \E q \in Requests : req'[q].tab = t /\ req'[q].pc \in Making
  <2>1. PICK q \in Requests : req[q].tab = t /\ req[q].pc \in Making
    BY <1>2 DEF GeneratingHasCause, Making
  <2> QED BY <1>1, <1>2, <2>1
<1> QED BY <1>2 DEF GeneratingHasCause, Making

\* A generation begins in slot p, which nothing was generated in.
LEMMA CauseBegins ==
  ASSUME TypeOK, GeneratingHasCause, NEW p \in Requests, NEW t \in Tabs, NEW r,
         Become(p, r), r.tab = t, r.pc \in Making, req[p].pc \notin Making,
         \A u \in Tabs : u # t => page'[u].generating = page[u].generating
  PROVE  GeneratingHasCause'
<1>1. req'[p] = r /\ \A q \in Requests : q # p => req'[q] = req[q]
  BY DEF Become, TypeOK
<1>2. ASSUME NEW u \in Tabs, page'[u].generating
      PROVE  \E q \in Requests : req'[q].tab = u /\ req'[q].pc \in Making
  <2>1. CASE u = t
    BY <1>1, <2>1
  <2>2. CASE u # t
    <3>1. PICK q \in Requests : req[q].tab = u /\ req[q].pc \in Making
      BY <1>2, <2>2 DEF GeneratingHasCause, Making
    <3> QED BY <1>1, <3>1
  <2> QED BY <2>1, <2>2
<1> QED BY <1>2 DEF GeneratingHasCause, Making

LEMMA UserCause ==
  ASSUME TypeOK, GeneratingHasCause, NEW t \in Tabs, User(t)
  PROVE  GeneratingHasCause'
<1>1. ASSUME NEW p \in Requests, Open(t, p)
      PROVE  GeneratingHasCause'
  BY <1>1, CauseStep DEF Open, Idle, Call, Making
<1>2. ASSUME NEW p \in Requests, Regenerate(t, p)
      PROVE  GeneratingHasCause'
  <2> DEFINE r == Call("context", t, 0, None, page[t].goal)
  <2>1. Become(p, r) /\ req[p].pc \notin Making
    BY <1>2 DEF Regenerate, Idle, Call, Making
  <2>2. r.tab = t /\ r.pc \in Making
    BY DEF Call, Making
  <2>3. \A u \in Tabs : u # t => page'[u].generating = page[u].generating
    BY <1>2 DEF Regenerate, TypeOK
  <2> HIDE DEF r
  <2> QED BY <2>1, <2>2, <2>3, CauseBegins
<1>3. ASSUME NEW p \in Requests, NEW withDeadline \in BOOLEAN, Save(t, p, withDeadline)
      PROVE  GeneratingHasCause'
  BY <1>3, CauseStep DEF Save, Idle, Call, Making
<1>4. ASSUME NEW m \in Modes, SetMode(t, m)
      PROVE  GeneratingHasCause'
  <2>1. \A u \in Tabs : page'[u].generating = page[u].generating
    BY <1>4 DEF SetMode, TypeOK, Store
  <2> QED BY <1>4, <2>1 DEF SetMode, GeneratingHasCause
<1>5. ASSUME Reload(t)
      PROVE  GeneratingHasCause'
  <2>1. ~page'[t].generating /\ \A u \in Tabs : u # t => page'[u] = page[u]
    BY <1>5 DEF Reload, TypeOK, Blank
  <2>2. \A q \in Requests : req[q].tab # t => req'[q] = req[q]
    BY <1>5 DEF Reload
  <2> QED BY <2>1, <2>2 DEF GeneratingHasCause
<1>6. ASSUME NEW p \in Requests, GiveUp(t, p)
      PROVE  GeneratingHasCause'
  <2>1. Become(p, [req[p] EXCEPT !.tab = None]) /\ req[p].tab = t
    BY <1>6 DEF GiveUp
  <2>2. \A u \in Tabs : page'[u].generating => page[u].generating
    BY <1>6 DEF GiveUp, GenerationFails, TypeOK, Store
  <2>3. req[p].pc \in Making => ~page'[t].generating
    BY <1>6 DEF GiveUp, GenerationFails, TypeOK, Store, Making
  <2> QED BY <2>1, <2>2, <2>3, CauseStep
<1> QED BY <1>1, <1>2, <1>3, <1>4, <1>5, <1>6 DEF User

\* On the server a generation stays one of its tab.
LEMMA ServeCause ==
  ASSUME TypeOK, GeneratingHasCause, NEW p \in Requests, Serve(p)
  PROVE  GeneratingHasCause'
<1>1. page' = page
  BY DEF Serve, GetLatest, GetGoals, GetFails, UpsertGoals, RefuseGoals, ReadContext,
         Stamp, Insert, Fail
<1>2. CASE req[p].pc \notin Making
  <2>1. \E r : Become(p, r)
    BY DEF Serve, GetLatest, GetGoals, GetFails, UpsertGoals, RefuseGoals, ReadContext,
           Stamp, Insert, Fail
  <2> QED BY <1>1, <1>2, <2>1, CauseStep
<1>3. CASE req[p].pc \in Making
  <2>1. \E r : Become(p, r) /\ r.tab = req[p].tab /\ r.pc \in Making
    <3>1. CASE ReadContext(p)
      BY <3>1 DEF ReadContext, Call, Making
    <3>2. CASE Stamp(p)
      BY <3>2 DEF Stamp, Call, Making
    <3>3. CASE Insert(p)
      BY <3>3 DEF Insert, Call, Making
    <3>4. CASE Fail(p)
      BY <1>3, <3>4 DEF Fail, Call, Making
    <3> QED BY <1>3, <3>1, <3>2, <3>3, <3>4
            DEF Serve, GetLatest, GetGoals, GetFails, UpsertGoals, RefuseGoals, Making
  <2> QED BY <1>1, <2>1, CauseStep
<1> QED BY <1>2, <1>3

LEMMA DeliverCause ==
  ASSUME TypeOK, GeneratingHasCause, NEW p \in Requests, Deliver(p)
  PROVE  GeneratingHasCause'
<1>1. ASSUME NEW t \in Tabs, Loaded(t, p)
      PROVE  GeneratingHasCause'
  <2>1. \A u \in Tabs : page'[u].generating = page[u].generating
    BY <1>1 DEF Loaded, TypeOK
  <2>2. Become(p, Idle) /\ req[p].pc \notin Making
    BY <1>1 DEF Loaded, Making
  <2> QED BY <2>1, <2>2, CauseStep
<1>2. ASSUME NEW t \in Tabs, Saved(t, p)
      PROVE  GeneratingHasCause'
  <2> DEFINE r == Call("context", t, 0, None, req[p].goal)
  <2>1. Become(p, r) /\ req[p].pc \notin Making
    BY <1>2 DEF Saved, Making
  <2>2. r.tab = t /\ r.pc \in Making
    BY DEF Call, Making
  <2>3. \A u \in Tabs : u # t => page'[u].generating = page[u].generating
    BY <1>2 DEF Saved, TypeOK
  <2> HIDE DEF r
  <2> QED BY <2>1, <2>2, <2>3, CauseBegins
<1>3. ASSUME NEW t \in Tabs, SaveRefused(t, p)
      PROVE  GeneratingHasCause'
  BY <1>3, CauseStep DEF SaveRefused, Making
<1>4. ASSUME NEW t \in Tabs, Generated(t, p) \/ GenerationFailed(t, p)
      PROVE  GeneratingHasCause'
  <2>1. Become(p, Idle) /\ req[p].tab = t
    BY <1>4 DEF Generated, GenerationFailed
  <2>2. ~page'[t].generating /\ \A u \in Tabs : u # t => page'[u] = page[u]
    BY <1>4 DEF Generated, GenerationFailed, GenerationFails, TypeOK, Store
  <2> QED BY <2>1, <2>2, CauseStep
<1>5. CASE Drop(p)
  BY <1>5, CauseStep, RoadmapAssumption DEF Drop
<1> QED BY <1>1, <1>2, <1>3, <1>4, <1>5 DEF Deliver

\* "Generating..." is shown only while a generation of this tab is under way.
THEOREM SpinnerHasCause == Spec => []GeneratingHasCause
<1>1. Init => GeneratingHasCause
  BY DEF Init, Blank, GeneratingHasCause
<1>2. TypeOK /\ GeneratingHasCause /\ [Next]_vars => GeneratingHasCause'
  BY UserCause, ServeCause, DeliverCause DEF Next, vars, GeneratingHasCause
<1> QED BY <1>1, <1>2, TypeCorrect, PTL DEF Spec

-----------------------------------------------------------------------------
(* Clean pages.                                                            *)

\* Every slot but p is free.
Only(p) == \A q \in Requests : q # p => req[q] = Idle

\* The page in tab t shows what the tables hold.
Current(t) ==
  page[t].loaded => page[t].goal = goal /\ page[t].plan \in LatestByUserID

\* What slot p holds and the page in tab t shows agrees with the tables, but for what
\* the answer to p will bring.
Agrees(t, p) ==
  /\ req[p].pc \in {"idle", "load"} \/ req[p].tab = t
  /\ req[p].pc = "load" /\ req[p].tab = t =>
       /\ "goals" \notin req[p].todo => req[p].goal = goal
       /\ "roadmap" \notin req[p].todo => req[p].plan \in LatestByUserID
  /\ req[p].pc = "insert" => \A r \in roadmaps : r.stamp < req[p].plan.stamp
  /\ req[p].pc = "saved" => req[p].goal = goal
  /\ req[p].pc = "made" => req[p].plan \in LatestByUserID
  /\ page[t].loaded =>
       /\ req[p].pc # "saved" => page[t].goal = goal
       /\ req[p].pc # "made" => page[t].plan \in LatestByUserID

\* As long as a page is clean there is at most one request, and the two agree with
\* the tables.
CleanInv ==
  \A t \in Tabs : clean[t] =>
    \/ Quiet /\ Current(t)
    \/ \E p \in Requests : Only(p) /\ Agrees(t, p)

\* The invariants in front of a step.
LEMMA WhenQuiet ==
  ASSUME CleanInv, Quiet, NEW t \in Tabs, clean[t]
  PROVE  Current(t)
<1>1. CASE \E p \in Requests : Only(p) /\ Agrees(t, p)
  BY <1>1 DEF Quiet, Agrees, Current, Idle, Call
<1> QED BY <1>1 DEF CleanInv

LEMMA WhenUnderWay ==
  ASSUME CleanInv, NEW p \in Requests, req[p].pc # "idle", NEW t \in Tabs, clean[t]
  PROVE  Only(p) /\ Agrees(t, p)
<1>1. req[p] # Idle
  BY DEF Idle, Call
<1>2. PICK q \in Requests : Only(q) /\ Agrees(t, q)
  BY <1>1 DEF CleanInv, Quiet
<1>3. q = p
  BY <1>1, <1>2 DEF Only
<1> QED BY <1>2, <1>3

LEMMA LatestStays ==
  ASSUME UNCHANGED roadmaps
  PROVE  LatestByUserID' = LatestByUserID
BY DEF LatestByUserID

\* A step that only moves slot p, with no other under way, to a job that agrees with
\* the tables and with the pages that stay clean.
LEMMA SoleStep ==
  ASSUME TypeOK, NEW p \in Requests, NEW r, Become(p, r),
         \A t \in Tabs : clean'[t] => Only(p) /\ (req'[p] = r => Agrees(t, p)')
  PROVE  CleanInv'
<1>1. req'[p] = r /\ \A q \in Requests : q # p => req'[q] = req[q]
  BY DEF Become, TypeOK
<1>2. ASSUME NEW t \in Tabs, clean'[t]
      PROVE  Only(p)' /\ Agrees(t, p)'
  BY <1>1, <1>2 DEF Only, Idle, Call
<1> QED BY <1>2 DEF CleanInv

\* A step of the pages alone that changes nothing the invariant speaks of.
LEMMA SameStep ==
  ASSUME CleanInv, UNCHANGED <<serverVars, req, clean>>,
         \A u \in Tabs : /\ page'[u].plan = page[u].plan /\ page'[u].goal = page[u].goal
                         /\ page'[u].loaded = page[u].loaded
  PROVE  CleanInv'
<1>1. LatestByUserID' = LatestByUserID
  BY LatestStays DEF serverVars
<1>2. ASSUME NEW t \in Tabs, clean'[t]
      PROVE  (Quiet /\ Current(t))' \/ \E p \in Requests : Only(p)' /\ Agrees(t, p)'
  <2>1. CASE Quiet /\ Current(t)
    BY <1>1, <2>1 DEF Quiet, Current, serverVars
  <2>2. ASSUME NEW p \in Requests, Only(p), Agrees(t, p)
        PROVE  Only(p)' /\ Agrees(t, p)'
    BY <1>1, <2>2 DEF Only, Agrees, serverVars
  <2> QED BY <1>2, <2>1, <2>2 DEF CleanInv
<1> QED BY <1>2 DEF CleanInv

LEMMA OpenClean ==
  ASSUME TableInv, CleanInv, NEW t \in Tabs, NEW p \in Requests, Open(t, p)
  PROVE  CleanInv'
<1> DEFINE r == Load(t, {"roadmap", "goals"}, 0, None)
<1>1. LatestByUserID' = LatestByUserID /\ goal' = goal /\ page' = page /\ ~page[t].loaded
  BY LatestStays DEF Open, serverVars
<1>2. r.pc = "load" /\ r.tab = t /\ r.todo = {"roadmap", "goals"}
  BY DEF Load
<1>3. Become(p, r)
  BY DEF Open
<1> HIDE DEF r
<1>4. ASSUME NEW s \in Tabs, clean'[s]
      PROVE  Only(p) /\ (req'[p] = r => Agrees(s, p)')
  <2>1. Quiet /\ (s = t \/ clean[s])
    BY <1>4 DEF Open
  <2>2. Only(p)
    BY <2>1 DEF Quiet, Only
  <2>3. s # t => Current(s)
    BY <2>1, WhenQuiet
  <2>4. page'[s].loaded => page'[s].goal = goal' /\ page'[s].plan \in LatestByUserID'
    BY <1>1, <2>3 DEF Current
  <2> QED BY <1>2, <2>2, <2>4 DEF Agrees
<1> QED BY <1>3, <1>4, SoleStep DEF TableInv

\* A tab begins to write.
LEMMA WriteClean ==
  ASSUME TableInv, CleanInv, NEW t \in Tabs, NEW p \in Requests,
         NEW pc \in {"context", "dated", "upsert"}, NEW asked,
         Become(p, Call(pc, t, 0, None, asked)), WriteBy(t), UNCHANGED serverVars,
         \A u \in Tabs : /\ page'[u].plan = page[u].plan /\ page'[u].goal = page[u].goal
                         /\ page'[u].loaded = page[u].loaded
  PROVE  CleanInv'
<1> DEFINE r == Call(pc, t, 0, None, asked)
<1>1. LatestByUserID' = LatestByUserID /\ goal' = goal
  BY LatestStays DEF serverVars
<1>2. r.pc = pc /\ r.tab = t
  BY DEF Call
<1> HIDE DEF r
<1>3. ASSUME NEW s \in Tabs, clean'[s]
      PROVE  Only(p) /\ (req'[p] = r => Agrees(s, p)')
  <2>1. Quiet /\ s = t /\ clean[s]
    BY <1>3 DEF WriteBy
  <2>2. Only(p)
    BY <2>1 DEF Quiet, Only
  <2>3. Current(s)
    BY <2>1, WhenQuiet
  <2>4. page'[s].loaded => page'[s].goal = goal' /\ page'[s].plan \in LatestByUserID'
    BY <1>1, <2>3 DEF Current
  <2> QED BY <1>2, <2>1, <2>2, <2>4 DEF Agrees
<1>4. Become(p, r)
  BY DEF r
<1> QED BY <1>3, <1>4, SoleStep DEF TableInv

\* A reload of tab t ends no request that writes, and another page stays clean only if
\* there is none in tab t.
LEMMA ReloadClean ==
  ASSUME TableInv, CleanInv, NEW t \in Tabs, Reload(t)
  PROVE  CleanInv'
<1>1. LatestByUserID' = LatestByUserID /\ goal' = goal /\ roadmaps' = roadmaps
  BY LatestStays DEF Reload, serverVars
<1>2. ASSUME NEW q \in Requests, req[q] = Idle
      PROVE  req'[q] = Idle
  BY <1>2, ReloadSlots, RoadmapAssumption DEF Idle, Call
<1>3. ASSUME NEW s \in Tabs, clean'[s]
      PROVE  (Quiet /\ Current(s))' \/ \E p \in Requests : Only(p)' /\ Agrees(s, p)'
  <2>1. s # t /\ clean[s]
    BY <1>3 DEF Reload, TableInv, TypeOK
  <2>2. page'[s] = page[s]
    BY <2>1 DEF Reload, TableInv, TypeOK
  <2>3. CASE Quiet /\ Current(s)
    <3>1. Quiet'
      BY <1>2, <2>3 DEF Quiet, Idle, Call
    <3>2. Current(s)'
      BY <1>1, <2>2, <2>3 DEF Current
    <3> QED BY <3>1, <3>2
  <2>4. ASSUME NEW p \in Requests, Only(p), Agrees(s, p)
        PROVE  Only(p)' /\ Agrees(s, p)'
    <3>1. Only(p)'
      BY <1>2, <2>4 DEF Only, Idle, Call
    <3>2. CASE req[p].tab # t
      <4>1. req'[p] = req[p]
        BY <3>2, ReloadSlots
      <4> QED BY <1>1, <2>2, <2>4, <3>1, <4>1 DEF Agrees
    <3>3. CASE req[p].tab = t
      <4>1. req[p].pc \in {"idle", "load"}
        BY <2>1, <2>4, <3>3 DEF Agrees
      <4>2. req'[p].pc = "idle"
        BY <3>3, <4>1, ReloadSlots DEF Idle, Call
      <4>3. page[s].loaded => page[s].goal = goal /\ page[s].plan \in LatestByUserID
        BY <2>4, <4>1 DEF Agrees
      <4> QED BY <1>1, <2>2, <3>1, <4>2, <4>3 DEF Agrees
    <3> QED BY <3>2, <3>3
  <2> QED BY <2>1, <2>3, <2>4 DEF CleanInv
<1> QED BY <1>3 DEF CleanInv

LEMMA UserClean ==
  ASSUME TableInv, CleanInv, NEW t \in Tabs, User(t)
  PROVE  CleanInv'
<1>1. ASSUME NEW p \in Requests, Regenerate(t, p)
      PROVE  CleanInv'
  <2>1. \A u \in Tabs : /\ page'[u].plan = page[u].plan /\ page'[u].goal = page[u].goal
                        /\ page'[u].loaded = page[u].loaded
    BY <1>1, FlagStep DEF Regenerate
  <2> QED BY <1>1, <2>1, WriteClean DEF Regenerate
<1>2. ASSUME NEW p \in Requests, NEW withDeadline \in BOOLEAN, Save(t, p, withDeadline)
      PROVE  CleanInv'
  BY <1>2, WriteClean DEF Save
<1>3. ASSUME NEW m \in Modes, SetMode(t, m)
      PROVE  CleanInv'
  <2>1. \A u \in Tabs : /\ page'[u].plan = page[u].plan /\ page'[u].goal = page[u].goal
                        /\ page'[u].loaded = page[u].loaded
    BY <1>3, FlagStep DEF SetMode
  <2> QED BY <1>3, <2>1, SameStep DEF SetMode
<1>4. ASSUME NEW p \in Requests, GiveUp(t, p)
      PROVE  CleanInv'
  BY <1>4 DEF GiveUp, CleanInv
<1> QED BY <1>1, <1>2, <1>3, <1>4, OpenClean, ReloadClean DEF User

\* The GETs of a load.
LEMMA LoadClean ==
  ASSUME TableInv, CleanInv, NEW p \in Requests,
         \/ GetLatest(p) \/ GetGoals(p)
         \/ \E what \in {"roadmap", "goals"} : GetFails(p, what)
  PROVE  CleanInv'
<1>1. /\ req[p].pc = "load" /\ UNCHANGED <<serverVars, page>>
      /\ \A t \in Tabs : clean'[t] => clean[t]
  BY DEF GetLatest, GetGoals, GetFails, TableInv, TypeOK
<1>2. LatestByUserID' = LatestByUserID /\ goal' = goal /\ page' = page
  BY <1>1, LatestStays DEF serverVars
<1>3. ASSUME NEW t \in Tabs, clean'[t]
      PROVE  Only(p) /\ Agrees(t, p)
  BY <1>1, <1>3, WhenUnderWay
<1>4. ASSUME NEW todo, NEW g, NEW plan, Become(p, Load(req[p].tab, todo, g, plan)),
             \A t \in Tabs : clean'[t] /\ req[p].tab = t =>
               /\ "goals" \notin todo => g = goal
               /\ "roadmap" \notin todo => plan \in LatestByUserID
      PROVE  CleanInv'
  <2> DEFINE r == Load(req[p].tab, todo, g, plan)
  <2>1. r.pc = "load" /\ r.tab = req[p].tab /\ r.todo = todo /\ r.goal = g /\ r.plan = plan
    BY DEF Load
  <2>2. Become(p, r)
    BY <1>4
  <2> HIDE DEF r
  <2>3. ASSUME NEW t \in Tabs, clean'[t]
        PROVE  Only(p) /\ (req'[p] = r => Agrees(t, p)')
    <3>1. Only(p) /\ Agrees(t, p)
      BY <1>3, <2>3
    <3>2. page'[t].loaded => page'[t].goal = goal' /\ page'[t].plan \in LatestByUserID'
      BY <1>1, <1>2, <3>1 DEF Agrees
    <3> QED BY <1>2, <1>4, <2>1, <2>3, <3>1, <3>2 DEF Agrees
  <2> QED BY <2>2, <2>3, SoleStep DEF TableInv
<1>5. CASE GetLatest(p)
  <2>1. PICK latest \in LatestByUserID :
          Become(p, Load(req[p].tab, req[p].todo \ {"roadmap"}, req[p].goal, latest))
    BY <1>5 DEF GetLatest
  <2>2. \A t \in Tabs : clean'[t] /\ req[p].tab = t =>
          ("goals" \notin req[p].todo \ {"roadmap"} => req[p].goal = goal)
    BY <1>1, <1>3 DEF Agrees
  <2> QED BY <1>4, <2>1, <2>2
<1>6. CASE GetGoals(p)
  <2>1. Become(p, Load(req[p].tab, req[p].todo \ {"goals"}, goal, req[p].plan))
    BY <1>6 DEF GetGoals
  <2>2. \A t \in Tabs : clean'[t] /\ req[p].tab = t =>
          ("roadmap" \notin req[p].todo \ {"goals"} => req[p].plan \in LatestByUserID)
    BY <1>1, <1>3 DEF Agrees
  <2> QED BY <1>4, <2>1, <2>2
<1>7. ASSUME NEW what \in {"roadmap", "goals"}, GetFails(p, what)
      PROVE  CleanInv'
  <2>1. Become(p, Load(req[p].tab, req[p].todo \ {what}, req[p].goal, req[p].plan))
    BY <1>7 DEF GetFails
  <2>2. \A t \in Tabs : ~(clean'[t] /\ req[p].tab = t)
    BY <1>7 DEF GetFails
  <2> QED BY <1>4, <2>1, <2>2
<1> QED BY <1>5, <1>6, <1>7

\* A step of the server that moves a write on.
LEMMA WriteGoesOn ==
  ASSUME TableInv, CleanInv, NEW p \in Requests, NEW r, Become(p, r),
         req[p].pc \notin {"idle", "load", "saved", "made"},
         r.pc # "load", r.tab = req[p].tab, UNCHANGED <<page, clean>>,
         r.pc = "insert" => \A x \in roadmaps' : x.stamp < r.plan.stamp,
         r.pc = "saved" => r.goal = goal',
         r.pc # "saved" => goal' = goal,
         r.pc = "made" => r.plan \in LatestByUserID',
         r.pc # "made" => roadmaps' = roadmaps
  PROVE  CleanInv'
<1>1. ASSUME NEW t \in Tabs, clean'[t]
      PROVE  Only(p) /\ (req'[p] = r => Agrees(t, p)')
  <2>1. Only(p) /\ Agrees(t, p)
    BY <1>1, WhenUnderWay
  <2>2. r.pc # "made" => LatestByUserID' = LatestByUserID
    BY LatestStays
  <2>3. page'[t].loaded => /\ r.pc # "saved" => page'[t].goal = goal'
                           /\ r.pc # "made" => page'[t].plan \in LatestByUserID'
    BY <2>1, <2>2 DEF Agrees
  <2>4. r.tab = t
    BY <2>1 DEF Agrees
  <2> QED BY <2>1, <2>3, <2>4 DEF Agrees
<1> QED BY <1>1, SoleStep DEF TableInv

\* A roadmap with the last stamp is the latest.
LEMMA InsertedIsLatest ==
  ASSUME NEW plan \in Plans, roadmaps \subseteq Plans, roadmaps' = roadmaps \cup {plan},
         \A x \in roadmaps : x.stamp < plan.stamp
  PROVE  plan \in LatestByUserID'
<1>1. plan.stamp \in Nat /\ \A x \in roadmaps : x.stamp \in Nat
  BY DEF Plans
<1>2. \A x \in roadmaps' : x.stamp <= plan.stamp
  BY <1>1
<1>3. plan \in roadmaps' /\ roadmaps' # {}
  OBVIOUS
<1> QED BY <1>2, <1>3 DEF LatestByUserID

LEMMA ServeClean ==
  ASSUME TableInv, CleanInv, NEW p \in Requests, Serve(p)
  PROVE  CleanInv'
<1>1. CASE UpsertGoals(p)
  <2> DEFINE r == Call("saved", req[p].tab, goal + 1, None, 0)
  <2>1. r.pc = "saved" /\ r.tab = req[p].tab /\ r.goal = goal + 1
    BY DEF Call
  <2>2. Become(p, r) /\ req[p].pc = "upsert" /\ UNCHANGED <<page, clean, roadmaps>> /\ goal' = goal + 1
    BY <1>1 DEF UpsertGoals
  <2> HIDE DEF r
  <2> QED BY <2>1, <2>2, WriteGoesOn
<1>2. CASE RefuseGoals(p)
  <2> DEFINE r == Call("invalid", req[p].tab, 0, None, 0)
  <2>1. r.pc = "invalid" /\ r.tab = req[p].tab
    BY DEF Call
  <2>2. Become(p, r) /\ req[p].pc = "dated" /\ UNCHANGED <<page, clean, roadmaps, goal>>
    BY <1>2 DEF RefuseGoals, serverVars
  <2> HIDE DEF r
  <2> QED BY <2>1, <2>2, WriteGoesOn
<1>3. CASE ReadContext(p)
  <2>1. PICK g : Become(p, Call("ai", req[p].tab, g, None, req[p].asked))
    BY <1>3 DEF ReadContext
  <2> DEFINE r == Call("ai", req[p].tab, g, None, req[p].asked)
  <2>2. r.pc = "ai" /\ r.tab = req[p].tab
    BY DEF Call
  <2>3. Become(p, r) /\ req[p].pc = "context" /\ UNCHANGED <<page, clean, roadmaps, goal>>
    BY <1>3, <2>1 DEF ReadContext, serverVars
  <2> HIDE DEF r
  <2> QED BY <2>2, <2>3, WriteGoesOn
<1>4. CASE Stamp(p)
  <2> DEFINE plan == [stamp |-> clock + 1, goal |-> req[p].goal]
             r == Call("insert", req[p].tab, 0, plan, req[p].asked)
  <2>1. r.pc = "insert" /\ r.tab = req[p].tab /\ r.plan.stamp = clock + 1
    BY DEF Call
  <2>2. Become(p, r) /\ req[p].pc = "ai" /\ UNCHANGED <<page, clean, roadmaps, goal>>
    BY <1>4 DEF Stamp
  <2> HIDE DEF r
  <2>3. \A x \in roadmaps' : x.stamp < clock + 1
    BY <2>2 DEF TableInv, TypeOK, StampsOK, Plans
  <2> QED BY <2>1, <2>2, <2>3, WriteGoesOn
<1>5. CASE Insert(p)
  <2> DEFINE r == Call("made", req[p].tab, 0, req[p].plan, req[p].asked)
  <2>1. r.pc = "made" /\ r.tab = req[p].tab /\ r.plan = req[p].plan
    BY DEF Call
  <2>2. /\ Become(p, r) /\ req[p].pc = "insert" /\ UNCHANGED <<page, clean, goal>>
        /\ roadmaps' = roadmaps \cup {req[p].plan}
    BY <1>5 DEF Insert
  <2> HIDE DEF r
  <2>3. ASSUME NEW t \in Tabs, clean'[t]
        PROVE  req[p].plan \in LatestByUserID'
    <3>1. Agrees(t, p)
      BY <2>2, <2>3, WhenUnderWay
    <3>2. req[p].plan \in Plans /\ roadmaps \subseteq Plans
      BY <2>2, Known DEF JobOK, TableInv, TypeOK
    <3> QED BY <2>2, <3>1, <3>2, InsertedIsLatest DEF Agrees
  <2>4. CASE \E t \in Tabs : clean'[t]
    BY <2>1, <2>2, <2>3, <2>4, WriteGoesOn
  <2>5. CASE ~\E t \in Tabs : clean'[t]
    BY <2>5 DEF CleanInv
  <2> QED BY <2>4, <2>5
<1>6. CASE Fail(p)
  <2>1. PICK pc \in {"unsaved", "failed"} : Become(p, Call(pc, req[p].tab, 0, None, 0))
    BY <1>6 DEF Fail
  <2> DEFINE r == Call(pc, req[p].tab, 0, None, 0)
  <2>2. r.pc = pc /\ r.tab = req[p].tab
    BY DEF Call
  <2>3. /\ Become(p, r) /\ UNCHANGED <<page, clean, roadmaps, goal>>
        /\ req[p].pc \in {"upsert", "dated", "context", "ai", "insert"}
    BY <1>6, <2>1 DEF Fail, serverVars
  <2> HIDE DEF r
  <2> QED BY <2>1, <2>2, <2>3, WriteGoesOn
<1> QED BY <1>1, <1>2, <1>3, <1>4, <1>5, <1>6, LoadClean DEF Serve

\* An answer arrives, and the pages that stay clean show what the tables hold.
LEMMA Answered ==
  ASSUME TableInv, CleanInv, NEW p \in Requests, req[p].pc # "idle", Become(p, Idle),
         UNCHANGED <<serverVars, clean>>,
         \A t \in Tabs : clean[t] /\ Agrees(t, p) => Current(t)'
  PROVE  CleanInv'
<1>1. ASSUME NEW t \in Tabs, clean'[t]
      PROVE  Only(p) /\ (req'[p] = Idle => Agrees(t, p)')
  <2>1. Only(p) /\ Agrees(t, p)
    BY <1>1, WhenUnderWay
  <2>2. Current(t)'
    BY <1>1, <2>1
  <2> QED BY <2>1, <2>2 DEF Agrees, Current, Idle, Call
<1> QED BY <1>1, SoleStep DEF TableInv

LEMMA LoadedClean ==
  ASSUME TableInv, CleanInv, NEW t \in Tabs, NEW p \in Requests, Loaded(t, p)
  PROVE  CleanInv'
<1>1. /\ UNCHANGED <<serverVars, clean>> /\ Become(p, Idle)
      /\ req[p].pc = "load" /\ req[p].tab = t /\ req[p].todo = {}
  BY DEF Loaded
<1>2. LatestByUserID' = LatestByUserID /\ goal' = goal
  BY <1>1, LatestStays DEF serverVars
<1>3. /\ page'[t].plan = IF req[p].plan = None THEN page[t].plan ELSE req[p].plan
      /\ page'[t].goal = IF req[p].goal = 0 THEN page[t].goal ELSE req[p].goal
      /\ \A u \in Tabs : u # t => page'[u] = page[u]
  BY DEF Loaded, TableInv, TypeOK
<1>4. ASSUME NEW u \in Tabs, Agrees(u, p)
      PROVE  Current(u)'
  <2>1. CASE u # t
    <3>1. page[u].loaded => page[u].goal = goal /\ page[u].plan \in LatestByUserID
      BY <1>1, <1>4 DEF Agrees
    <3> QED BY <1>2, <1>3, <2>1, <3>1 DEF Current
  <2>2. CASE u = t
    <3>1. req[p].goal = goal /\ req[p].plan \in LatestByUserID
      BY <1>1, <1>4, <2>2 DEF Agrees
    <3>2. page'[t].goal = goal
      BY <1>3, <3>1, PageKnown DEF TableInv, TypeOK
    <3>3. page'[t].plan \in LatestByUserID
      BY <1>3, <3>1, PageKnown, LatestType DEF TableInv
    <3> QED BY <1>2, <2>2, <3>2, <3>3 DEF Current
  <2> QED BY <2>1, <2>2
<1> QED BY <1>1, <1>4, Answered

LEMMA SavedClean ==
  ASSUME TableInv, CleanInv, NEW t \in Tabs, NEW p \in Requests, Saved(t, p)
  PROVE  CleanInv'
<1> DEFINE r == Call("context", t, 0, None, req[p].goal)
<1>1. /\ UNCHANGED <<serverVars, clean>> /\ Become(p, r)
      /\ req[p].pc = "saved" /\ req[p].tab = t
  BY DEF Saved
<1>2. LatestByUserID' = LatestByUserID /\ goal' = goal
  BY <1>1, LatestStays DEF serverVars
<1>3. /\ page'[t].plan = page[t].plan /\ page'[t].goal = req[p].goal
      /\ page'[t].loaded = page[t].loaded
  BY DEF Saved, TableInv, TypeOK
<1>4. r.pc = "context" /\ r.tab = t
  BY DEF Call
<1> HIDE DEF r
<1>5. ASSUME NEW u \in Tabs, clean'[u]
      PROVE  Only(p) /\ (req'[p] = r => Agrees(u, p)')
  <2>1. Only(p) /\ Agrees(u, p)
    BY <1>1, <1>5, WhenUnderWay
  <2>2. u = t
    BY <1>1, <2>1 DEF Agrees
  <2>3. page'[u].loaded => page'[u].goal = goal' /\ page'[u].plan \in LatestByUserID'
    BY <1>1, <1>2, <1>3, <2>1, <2>2 DEF Agrees
  <2> QED BY <1>4, <2>1, <2>2, <2>3 DEF Agrees
<1> QED BY <1>1, <1>5, SoleStep DEF TableInv

LEMMA DeliverClean ==
  ASSUME TableInv, CleanInv, NEW p \in Requests, Deliver(p)
  PROVE  CleanInv'
<1>1. ASSUME NEW t \in Tabs, Generated(t, p)
      PROVE  CleanInv'
  <2>1. /\ UNCHANGED <<serverVars, clean>> /\ Become(p, Idle)
        /\ req[p].pc = "made" /\ req[p].tab = t
    BY <1>1 DEF Generated
  <2>2. LatestByUserID' = LatestByUserID /\ goal' = goal
    BY <2>1, LatestStays DEF serverVars
  <2>3. /\ page'[t].plan = req[p].plan /\ page'[t].goal = page[t].goal
        /\ page'[t].loaded = page[t].loaded
    BY <1>1 DEF Generated, TableInv, TypeOK
  <2>4. ASSUME NEW u \in Tabs, Agrees(u, p)
        PROVE  Current(u)'
    BY <2>1, <2>2, <2>3, <2>4 DEF Agrees, Current
  <2> QED BY <2>1, <2>4, Answered
<1>2. ASSUME NEW t \in Tabs, GenerationFailed(t, p) \/ SaveRefused(t, p)
      PROVE  CleanInv'
  <2>1. /\ UNCHANGED <<serverVars, clean>> /\ Become(p, Idle)
        /\ req[p].pc \in {"failed", "invalid", "unsaved"}
    BY <1>2 DEF GenerationFailed, SaveRefused
  <2>2. LatestByUserID' = LatestByUserID /\ goal' = goal
    BY <2>1, LatestStays DEF serverVars
  <2>3. \A u \in Tabs : /\ page'[u].plan = page[u].plan /\ page'[u].goal = page[u].goal
                        /\ page'[u].loaded = page[u].loaded
    BY <1>2, <2>1, FlagStep DEF GenerationFailed, SaveRefused, GenerationFails
  <2>4. ASSUME NEW u \in Tabs, Agrees(u, p)
        PROVE  Current(u)'
    BY <2>1, <2>2, <2>3, <2>4 DEF Agrees, Current
  <2> QED BY <2>1, <2>4, Answered
<1>3. CASE Drop(p)
  <2>1. /\ UNCHANGED <<serverVars, clean>> /\ Become(p, Idle) /\ req[p].tab = None
        /\ req[p].pc \in {"saved", "invalid", "unsaved", "made", "failed"}
    BY <1>3 DEF Drop
  <2>2. \A u \in Tabs : ~Agrees(u, p)
    BY <2>1, RoadmapAssumption DEF Agrees
  <2> QED BY <2>1, <2>2, Answered
<1> QED BY <1>1, <1>2, <1>3, LoadedClean, SavedClean DEF Deliver

\* A page that was opened in quiet and that nothing came between agrees with the tables:
\* it shows the user's goal, and the roadmap that the next visit will show.
THEOREM CleanPagesAreCurrent == Spec => []CleanPageIsCurrent
<1>1. Init => CleanInv
  BY DEF Init, CleanInv
<1>2. TableInv /\ CleanInv /\ [Next]_vars => CleanInv'
  <2> SUFFICES ASSUME TableInv, CleanInv, [Next]_vars PROVE CleanInv'
    OBVIOUS
  <2>1. CASE UNCHANGED vars
    BY <2>1, SameStep DEF vars
  <2> QED BY <2>1, UserClean, ServeClean, DeliverClean DEF Next
<1>3. CleanInv => CleanPageIsCurrent
  <2> SUFFICES ASSUME CleanInv, NEW t \in Tabs, clean[t], page[t].loaded, Quiet
               PROVE  page[t].goal = goal /\ page[t].plan \in LatestByUserID
    BY DEF CleanPageIsCurrent
  <2> QED BY WhenQuiet DEF Current
<1> QED BY <1>1, <1>2, <1>3, TablesHold, PTL DEF Spec
=============================================================================
