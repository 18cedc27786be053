--------------------------- MODULE AnalyzerProofs ---------------------------
(***************************************************************************)
(* The analyzer, for every number of problems, analyses and requests under *)
(* way, and every page size: its history is a prefix of the table, the     *)
(* links are those of the problem on display, and the page is thinking     *)
(* exactly while one analysis of its own is under way.                     *)
(*                                                                         *)
(* The argument: an answer was in the table when it was sent and stays in  *)
(* it (Fits); of the pages of the history at most one is under way while   *)
(* nothing disturbs them, and it is the next one (PagesInOrder).           *)
(***************************************************************************)
EXTENDS Analyzer, SequenceTheorems, FiniteSetTheorems, TLAPS

Ops == {"none", "list", "more", "get", "analyze"}
Pages == {"list", "more"}

Request ==
  [op : Ops, at : {"none", "sent", "ok", "failed"}, arg : Nat \cup Problems, own : BOOLEAN,
   answer : Nat \cup Seq(Nat)]

\* Request q asks for, and was answered with, what is in the table.
Fits(table, q) ==
  /\ q \in Request
  /\ q.op \in Pages =>
       q.arg \in Nat \ {0} /\ (q.at = "ok" => q.answer \in Seq(1..Len(table)))
  /\ q.op = "get" =>
       q.arg \in 1..Len(table) /\ (q.at = "ok" => q.answer \in 1..Len(table))
  /\ q.op = "analyze" =>
       /\ q.arg \in Problems
       /\ q.at = "ok" => q.answer \in 1..Len(table) /\ table[q.answer] = q.arg

RequestsFit ==
  /\ req \in [Requests -> Request]
  /\ \A r \in Requests : Fits(analyses, req[r])

StoreFits ==
  /\ history \in Seq(1..Len(analyses))
  /\ shown \in 0..Len(analyses)
  /\ currentURL \in Problems \cup {None}
  /\ tab \in Tabs
  /\ analyzing \in BOOLEAN

HintsFit == revealedHints \in 0..HintsOfShown

PageFits ==
  /\ open \in BOOLEAN /\ due \in BOOLEAN /\ steady \in BOOLEAN /\ typed \in BOOLEAN
  /\ sidebar \in [page : Nat, more : BOOLEAN, busy : BOOLEAN, loading : 0..Len(analyses)]

TableFits == analyses \in Seq(Problems) /\ Len(analyses) <= MaxAnalyses

Types == TableFits /\ StoreFits /\ HintsFit /\ PageFits /\ RequestsFit

\* One analysis of the page's own at most, and the page knows of it.
Mine(q) == q.op = "analyze" /\ q.own

OneAnalysis ==
  /\ ~analyzing => \A r \in Requests : ~Mine(req[r])
  /\ analyzing => \E r \in Requests : Mine(req[r]) /\ \A q \in Requests \ {r} : ~Mine(req[q])

ShownIsLinked == shown # 0 /\ ~typed => currentURL = analyses[shown]

\* The pages that are under way while nothing disturbs the history.
ListIsFirst ==
  \A r \in Requests : req[r].op = "list" =>
    /\ open /\ history = <<>> /\ sidebar.page = 1 /\ sidebar.more
    /\ req[r].arg = 1
    /\ req[r].at = "ok" => req[r].answer = ListByUserID(1)

MoreIsNext ==
  \A r \in Requests : req[r].op = "more" =>
    /\ open /\ req[r].own /\ sidebar.busy /\ history # <<>>
    /\ req[r].arg = sidebar.page + 1
    /\ req[r].at = "ok" => req[r].answer = ListByUserID(sidebar.page + 1)

OnePage ==
  \A q, r \in Requests : req[q].op \in Pages /\ req[r].op \in Pages => q = r

Loaded ==
  /\ history = [i \in 1..Len(history) |-> Len(analyses) + 1 - i]
  /\ ~open => history = <<>>
  /\ history # <<>> => Len(history) = Smaller(sidebar.page * PageSize, Len(analyses))
  /\ open /\ ~sidebar.more => Len(history) = Len(analyses)

PagesInOrder ==
  steady =>
    /\ ListIsFirst /\ MoreIsNext /\ OnePage /\ Loaded
    /\ \A r \in Requests : req[r].op = "analyze" /\ req[r].own => req[r].at # "ok"

-----------------------------------------------------------------------------
(* Types.                                                                  *)

Grown(table, new) ==
  /\ new \in Seq(Problems)
  /\ Len(table) <= Len(new)
  /\ \A i \in 1..Len(table) : new[i] = table[i]

LEMMA GrownSame == TableFits => Grown(analyses, analyses)
BY DEF TableFits, Grown

\* What was in the table stays in it, under the same number.
LEMMA FitsGrow ==
  ASSUME NEW table \in Seq(Problems), NEW new, Grown(table, new), NEW q, Fits(table, q)
  PROVE  Fits(new, q)
<1>1. Len(table) \in Nat /\ Len(new) \in Nat /\ Len(table) <= Len(new)
  BY DEF Grown
<1>2. 1..Len(table) \subseteq 1..Len(new)
  BY <1>1
<1>3. \A s \in Seq(1..Len(table)) : s \in Seq(1..Len(new))
  BY <1>2, SeqMonotonic
<1> QED BY <1>2, <1>3 DEF Fits, Grown

\* A step of one request.
LEMMA RequestStep ==
  ASSUME TableFits, RequestsFit, NEW r \in Requests, NEW x,
         req' = [req EXCEPT ![r] = x], Grown(analyses, analyses'), Fits(analyses', x)
  PROVE  RequestsFit'
<1>1. x \in Request
  BY DEF Fits
<1>2. /\ req' \in [Requests -> Request] /\ req'[r] = x
      /\ \A q \in Requests \ {r} : req'[q] = req[q]
  BY <1>1 DEF RequestsFit
<1>3. \A q \in Requests \ {r} : Fits(analyses', req[q])
  BY FitsGrow DEF RequestsFit, TableFits
<1> QED BY <1>2, <1>3 DEF RequestsFit

LEMMA IdleFits == \A table : Fits(table, Idle)
BY DEF Idle, Fits, Request, Ops, Pages

LEMMA CallFits ==
  ASSUME TableFits, NEW op \in Ops, NEW arg,
         op \in Pages => arg \in Nat \ {0}, op = "get" => arg \in 1..Len(analyses),
         op = "analyze" => arg \in Problems, op # "none"
  PROVE  /\ Fits(analyses, Call(op, arg))
         /\ Call(op, arg).op = op /\ Call(op, arg).at = "sent"
         /\ Call(op, arg).arg = arg /\ Call(op, arg).own
<1>1. arg \in Nat \cup Problems
  BY DEF Ops, Pages, TableFits
<1> QED BY <1>1 DEF Call, Fits, Request, Pages

\* What a page of the history holds.
PageLength(offset) ==
  Smaller(PageSize, IF offset < Len(analyses) THEN Len(analyses) - offset ELSE 0)

LEMMA PageOfHistory ==
  ASSUME TableFits, NEW p \in Nat \ {0}, NEW offset, offset = (p - 1) * PageSize
  PROVE  /\ offset \in Nat /\ PageLength(offset) \in Nat
         /\ ListByUserID(p) = [i \in 1..PageLength(offset) |-> Len(analyses) + 1 - offset - i]
         /\ ListByUserID(p) \in Seq(1..Len(analyses))
         /\ Len(ListByUserID(p)) = PageLength(offset)
<1> DEFINE total == Len(analyses)
           size == PageLength(offset)
<1>1. PageSize \in Nat \ {0}
  BY AnalyzerAssumption
<1>2. total \in Nat
  BY DEF TableFits
<1>3. offset \in Nat
  <2>1. \A a, b \in Nat : a * b \in Nat
    OBVIOUS
  <2>2. p - 1 \in Nat
    OBVIOUS
  <2> QED BY <1>1, <2>1, <2>2
<1>4. ListByUserID(p) = [i \in 1..size |-> total + 1 - offset - i]
  BY DEF ListByUserID, PageLength
<1>5. size \in Nat /\ (size # 0 => offset + size <= total)
  <2>1. size = Smaller(PageSize, IF offset < total THEN total - offset ELSE 0)
    BY DEF PageLength
  <2> HIDE DEF total, size
  <2> QED BY <1>1, <1>2, <1>3, <2>1 DEF Smaller
<1> HIDE DEF total
<1>6. \A i \in 1..size : total + 1 - offset - i \in 1..total
  BY <1>2, <1>3, <1>5
<1> HIDE DEF size
<1> DEFINE f == [i \in 1..size |-> total + 1 - offset - i]
<1>7. f \in [1..size -> 1..total]
  BY <1>6
<1>8. f \in Seq(1..total) /\ Len(f) = size
  BY <1>5, <1>7
<1> QED BY <1>2, <1>3, <1>4, <1>5, <1>8 DEF total, size

\* What a step leaves alone.
LEMMA SameTypes ==
  ASSUME Types, UNCHANGED analyses
  PROVE  /\ TableFits'
         /\ UNCHANGED store => StoreFits'
         /\ UNCHANGED <<shown, revealedHints>> => HintsFit'
         /\ UNCHANGED <<page, steady, typed>> => PageFits'
         /\ UNCHANGED req => RequestsFit'
BY DEF Types, TableFits, StoreFits, HintsFit, HintsOfShown, PageFits, RequestsFit, store, page

LEMMA SendStep ==
  ASSUME Types, UNCHANGED analyses, NEW op \in Ops \ {"none"}, NEW arg,
         op \in Pages => arg \in Nat \ {0}, op = "get" => arg \in 1..Len(analyses),
         op = "analyze" => arg \in Problems,
         NEW r \in Requests, Become(r, Call(op, arg))
  PROVE  RequestsFit'
<1>1. Fits(analyses', Call(op, arg))
  BY CallFits DEF Types
<1>2. Grown(analyses, analyses')
  BY GrownSame DEF Types
<1> QED BY <1>1, <1>2, RequestStep DEF Types, Become

LEMMA DropStep ==
  ASSUME Types, UNCHANGED analyses, NEW r \in Requests, Become(r, Idle)
  PROVE  RequestsFit'
<1>1. Fits(analyses', Idle)
  BY IdleFits
<1>2. Grown(analyses, analyses')
  BY GrownSame DEF Types
<1> QED BY <1>1, <1>2, RequestStep DEF Types, Become

LEMMA SidebarType ==
  ASSUME Types
  PROVE  /\ [page |-> 0, more |-> FALSE, busy |-> FALSE, loading |-> 0]
              \in [page : Nat, more : BOOLEAN, busy : BOOLEAN, loading : 0..Len(analyses)]
         /\ [page |-> 1, more |-> TRUE, busy |-> FALSE, loading |-> 0]
              \in [page : Nat, more : BOOLEAN, busy : BOOLEAN, loading : 0..Len(analyses)]
         /\ Len(analyses) \in Nat
<1>1. Len(analyses) \in Nat
  BY DEF Types, TableFits
<1> QED BY <1>1

LEMMA EnterTypes == Types /\ Enter => Types'
<1> SUFFICES ASSUME Types, Enter PROVE Types'
  OBVIOUS
<1>1. UNCHANGED <<analyses, history, shown, currentURL, tab, revealedHints, analyzing, due, steady, typed>>
  BY DEF Enter, store
<1>2. PageFits'
  BY <1>1, SidebarType DEF Enter, Types, PageFits
<1>3. RequestsFit'
  <2>1. CASE UNCHANGED req
    BY <1>1, <2>1, SameTypes
  <2>2. CASE \E r \in Requests : Free(r) /\ Become(r, Call("list", 1))
    BY <1>1, <2>2, SendStep DEF Ops, Pages
  <2> QED BY <2>1, <2>2 DEF Enter
<1> QED BY <1>1, <1>2, <1>3, SameTypes DEF Types, store

LEMMA LeaveTypes == Types /\ Leave => Types'
<1> SUFFICES ASSUME Types, Leave PROVE Types'
  OBVIOUS
<1>1. UNCHANGED <<analyses, history, shown, currentURL, tab, revealedHints, analyzing, due, typed>>
  BY DEF Leave, store
<1>2. PageFits'
  BY <1>1, SidebarType DEF Leave, Types, PageFits
<1>3. RequestsFit'
  <2>1. ASSUME NEW r \in Requests
        PROVE  /\ [req[r] EXCEPT !.own = FALSE] \in Request
               /\ Fits(analyses, [req[r] EXCEPT !.own = FALSE])
    <3>1. req[r] \in Request /\ Fits(analyses, req[r])
      BY DEF Types, RequestsFit
    <3> DEFINE x == [req[r] EXCEPT !.own = FALSE]
    <3>2. /\ x \in Request /\ x.op = req[r].op /\ x.at = req[r].at
          /\ x.arg = req[r].arg /\ x.answer = req[r].answer
      BY <3>1 DEF Request
    <3> HIDE DEF x
    <3>3. Fits(analyses, x)
      BY <3>1, <3>2 DEF Fits
    <3> QED BY <3>2, <3>3 DEF x
  <2>2. req' = [r \in Requests |->
                  IF req[r].op \in {"more", "get"} THEN [req[r] EXCEPT !.own = FALSE]
                  ELSE req[r]]
    BY DEF Leave
  <2> QED BY <1>1, <2>1, <2>2 DEF Types, RequestsFit
<1> QED BY <1>1, <1>2, <1>3, SameTypes DEF Types, store

LEMMA ReloadTypes == Types /\ Reload => Types'
<1> SUFFICES ASSUME Types, Reload PROVE Types'
  OBVIOUS
<1>1. TableFits' /\ analyses' = analyses
  BY SameTypes DEF Reload
<1>2. StoreFits' /\ HintsFit'
  <2>1. history' \in Seq(1..Len(analyses)')
    BY EmptySeq DEF Reload
  <2>2. StoreFits'
    BY <1>1, <2>1, SidebarType DEF Reload, StoreFits, Tabs
  <2>3. HintsOfShown' = 0 /\ revealedHints' = 0
    BY DEF Reload, HintsOfShown
  <2> QED BY <2>2, <2>3 DEF HintsFit
<1>3. PageFits'
  BY <1>1, SidebarType DEF Reload, PageFits
<1>4. RequestsFit'
  <2>1. ASSUME NEW r \in Requests, req[r].op = "analyze"
        PROVE  /\ [req[r] EXCEPT !.own = FALSE] \in Request
               /\ Fits(analyses, [req[r] EXCEPT !.own = FALSE])
    <3>1. req[r] \in Request /\ Fits(analyses, req[r])
      BY DEF Types, RequestsFit
    <3> DEFINE x == [req[r] EXCEPT !.own = FALSE]
    <3>2. /\ x \in Request /\ x.op = req[r].op /\ x.at = req[r].at
          /\ x.arg = req[r].arg /\ x.answer = req[r].answer
      BY <3>1 DEF Request
    <3> HIDE DEF x
    <3>3. Fits(analyses, x)
      BY <3>1, <3>2 DEF Fits
    <3> QED BY <3>2, <3>3 DEF x
  <2>2. req' = [r \in Requests |->
                  IF req[r].op = "analyze" THEN [req[r] EXCEPT !.own = FALSE] ELSE Idle]
    BY DEF Reload
  <2>3. Idle \in Request /\ Fits(analyses, Idle)
    BY IdleFits DEF Fits
  <2> QED BY <1>1, <2>1, <2>2, <2>3 DEF RequestsFit
<1> QED BY <1>1, <1>2, <1>3, <1>4 DEF Types

\* What the user does to the store alone.
LEMMA StoreTypes ==
  ASSUME Types,
         \/ SwitchSample \/ \E url \in Inputs : Type(url)
         \/ \E t \in Tabs : SetTab(t)
         \/ \E i \in 1..HintsOfShown : RevealHint(i)
         \/ \E url \in Samples : PressSample(url)
  PROVE  Types'
<1>1. CASE \E url \in Inputs \cup {None} : Type(url)
  <2>1. PICK url \in Inputs \cup {None} : Type(url)
    BY <1>1
  <2>2. url \in Problems \cup {None}
    BY AnalyzerAssumption
  <2>3. StoreFits' /\ HintsFit' /\ TableFits' /\ RequestsFit'
    BY <2>1, <2>2, SameTypes DEF Type, Types, StoreFits
  <2>4. PageFits'
    BY <2>1 DEF Type, Types, PageFits, page
  <2> QED BY <2>3, <2>4 DEF Types
<1>2. CASE \E t \in Tabs : SetTab(t)
  <2>1. PICK t \in Tabs : SetTab(t)
    BY <1>2
  <2>2. StoreFits'
    BY <2>1 DEF SetTab, Types, StoreFits
  <2> QED BY <2>1, <2>2, SameTypes DEF SetTab, Types
<1>3. CASE \E i \in 1..HintsOfShown : RevealHint(i)
  <2>1. PICK i \in 1..HintsOfShown : RevealHint(i)
    BY <1>3
  <2>2. HintsOfShown \in Nat
    BY AnalyzerAssumption DEF HintsOfShown, Types, TableFits, StoreFits
  <2>3. HintsFit'
    BY <2>1, <2>2 DEF RevealHint, Types, HintsFit, HintsOfShown
  <2>4. StoreFits'
    BY <2>1 DEF RevealHint, Types, StoreFits
  <2> QED BY <2>1, <2>3, <2>4, SameTypes DEF RevealHint, Types
<1>4. CASE \E url \in Samples : PressSample(url)
  <2>1. PICK url \in Samples : PressSample(url)
    BY <1>4
  <2>2. url \in Problems
    BY AnalyzerAssumption
  <2>3. StoreFits' /\ HintsFit' /\ TableFits' /\ RequestsFit'
    BY <2>1, <2>2, SameTypes DEF PressSample, Types, StoreFits
  <2>4. PageFits'
    BY <2>1 DEF PressSample, Types, PageFits
  <2> QED BY <2>3, <2>4 DEF Types
<1> QED BY <1>1, <1>2, <1>3, <1>4 DEF SwitchSample

LEMMA AnalyzeCallTypes == Types /\ (PressAnalyze \/ TimerFires) => Types'
<1> SUFFICES ASSUME Types, PressAnalyze \/ TimerFires PROVE Types'
  OBVIOUS
<1>1. /\ HandleAnalyze /\ UNCHANGED <<analyses, history, shown, currentURL, tab, revealedHints>>
      /\ UNCHANGED <<open, sidebar, steady, typed>> /\ (due' = due \/ due' = FALSE)
  BY DEF PressAnalyze, TimerFires, page
<1>2. StoreFits' /\ RequestsFit'
  <2>1. CASE UNCHANGED <<analyzing, req>>
    BY <1>1, <2>1, SameTypes DEF store
  <2>2. CASE /\ currentURL # None /\ analyzing' = TRUE
             /\ \E r \in Requests : Free(r) /\ Become(r, Call("analyze", currentURL))
    <3>1. StoreFits'
      BY <1>1, <2>2 DEF Types, StoreFits
    <3>2. currentURL \in Problems
      BY <2>2 DEF Types, StoreFits
    <3> QED BY <1>1, <2>2, <3>1, <3>2, SendStep DEF Ops, Pages
  <2> QED BY <1>1, <2>1, <2>2 DEF HandleAnalyze
<1>3. PageFits'
  BY <1>1 DEF Types, PageFits
<1> QED BY <1>1, <1>2, <1>3, SameTypes DEF Types

LEMMA SidebarTypes ==
  ASSUME Types, LoadMore \/ \E i \in DOMAIN history : Select(i)
  PROVE  Types'
<1>1. CASE LoadMore
  <2>1. sidebar.page + 1 \in Nat \ {0}
    BY DEF Types, PageFits
  <2>2. RequestsFit'
    BY <1>1, <2>1, SendStep DEF LoadMore, Ops, Pages
  <2>3. PageFits'
    BY <1>1 DEF LoadMore, Types, PageFits
  <2> QED BY <1>1, <2>2, <2>3, SameTypes DEF LoadMore, Types, store
<1>2. CASE \E i \in DOMAIN history : Select(i)
  <2>1. PICK i \in DOMAIN history : Select(i)
    BY <1>2
  <2>2. history[i] \in 1..Len(analyses)
    BY <2>1, LenProperties, ElementOfSeq DEF Types, StoreFits
  <2>3. RequestsFit'
    BY <2>1, <2>2, SendStep DEF Select, Ops, Pages
  <2>4. PageFits'
    BY <2>1, <2>2 DEF Select, Types, PageFits
  <2> QED BY <2>1, <2>3, <2>4, SameTypes DEF Select, Types, store
<1> QED BY <1>1, <1>2

LEMMA ServeReadTypes ==
  ASSUME Types, NEW r \in Requests, ServeRead(r)
  PROVE  Types'
<1>1. Fits(analyses, req[r]) /\ TableFits /\ req[r] \in Request
  BY DEF Types, RequestsFit
<1>2. PICK answer : /\ Become(r, Answered(r, answer))
                    /\ answer = IF req[r].op = "get" THEN req[r].arg
                                ELSE ListByUserID(req[r].arg)
  BY DEF ServeRead
<1> DEFINE x == Answered(r, answer)
<1>3. /\ req[r].op = "get" => answer \in 1..Len(analyses)
      /\ req[r].op \in Pages => answer \in Seq(1..Len(analyses))
  BY <1>1, <1>2, PageOfHistory DEF Fits, Pages
<1>4. Len(analyses) \in Nat
  BY <1>1 DEF TableFits
<1>5. answer \in Nat \cup Seq(Nat)
  <2>1. 1..Len(analyses) \subseteq Nat
    BY <1>4
  <2> QED BY <1>3, <2>1, SeqMonotonic DEF ServeRead, Pages
<1>6. /\ x \in Request /\ x.op = req[r].op /\ x.arg = req[r].arg
      /\ x.answer = answer /\ x.at = "ok"
  BY <1>1, <1>5 DEF Answered, Request
<1> HIDE DEF x
<1>7. Fits(analyses, x)
  BY <1>1, <1>3, <1>6 DEF Fits, ServeRead, Pages
<1>8. UNCHANGED analyses /\ Grown(analyses, analyses')
  BY <1>1, GrownSame DEF ServeRead
<1>9. RequestsFit'
  BY <1>1, <1>2, <1>7, <1>8, RequestStep DEF Types, Become, x
<1> QED BY <1>8, <1>9, SameTypes DEF ServeRead, Types, store, page

\* A row more in the table: what was right before is right still.
LEMMA AppendGrows ==
  ASSUME Types, NEW p \in Problems, analyses' = Append(analyses, p),
         Len(analyses) < MaxAnalyses, UNCHANGED <<store, page, typed>>, steady' = FALSE
  PROVE  /\ Grown(analyses, analyses')
         /\ Len(analyses') = Len(analyses) + 1
         /\ analyses'[Len(analyses) + 1] = p
         /\ TableFits' /\ StoreFits' /\ HintsFit' /\ PageFits'
<1>1. analyses \in Seq(Problems) /\ Len(analyses) \in Nat
  BY DEF Types, TableFits
<1>2. /\ analyses' \in Seq(Problems) /\ Len(analyses') = Len(analyses) + 1
      /\ \A i \in 1..Len(analyses) : analyses'[i] = analyses[i]
      /\ analyses'[Len(analyses) + 1] = p
  BY <1>1, AppendProperties
<1>3. Grown(analyses, analyses') /\ TableFits'
  BY <1>1, <1>2, AnalyzerAssumption DEF Grown, TableFits
<1>4. 1..Len(analyses) \subseteq 1..Len(analyses') /\ 0..Len(analyses) \subseteq 0..Len(analyses')
  BY <1>1, <1>2
<1>5. StoreFits'
  BY <1>4, SeqMonotonic DEF Types, StoreFits, store
<1>6. HintsFit'
  BY <1>1, <1>2 DEF Types, StoreFits, HintsFit, HintsOfShown, store
<1>7. PageFits'
  BY <1>4 DEF Types, PageFits, page
<1> QED BY <1>2, <1>3, <1>5, <1>6, <1>7

LEMMA AnalyzeTypes ==
  ASSUME Types, NEW r \in Requests, Analyze(r)
  PROVE  Types'
<1>1. Fits(analyses, req[r]) /\ TableFits /\ req[r] \in Request
  BY DEF Types, RequestsFit
<1>2. CASE /\ Len(analyses) < MaxAnalyses
           /\ analyses' = Append(analyses, req[r].arg)
           /\ Become(r, Answered(r, Len(analyses) + 1))
           /\ steady' = FALSE
  <2>1. req[r].arg \in Problems
    BY <1>1 DEF Fits, Analyze
  <2>2. /\ Grown(analyses, analyses')
        /\ Len(analyses') = Len(analyses) + 1
        /\ analyses'[Len(analyses) + 1] = req[r].arg
        /\ TableFits' /\ StoreFits' /\ HintsFit' /\ PageFits'
    BY <1>2, <2>1, AppendGrows DEF Analyze
  <2> DEFINE x == Answered(r, Len(analyses) + 1)
  <2>3. Len(analyses) \in Nat
    BY <1>1 DEF TableFits
  <2>4. /\ x \in Request /\ x.op = "analyze" /\ x.arg = req[r].arg
        /\ x.answer = Len(analyses) + 1
    <3>1. Len(analyses) + 1 \in Nat \cup Seq(Nat)
      BY <2>3
    <3> QED BY <1>1, <3>1 DEF Answered, Request, Analyze
  <2> HIDE DEF x
  <2>5. Fits(analyses', x)
    BY <2>1, <2>2, <2>3, <2>4 DEF Fits, Pages
  <2>6. RequestsFit'
    BY <1>1, <1>2, <2>2, <2>5, RequestStep DEF Types, Become, x
  <2> QED BY <2>2, <2>6 DEF Types
<1>3. CASE Become(r, Failed(r)) /\ UNCHANGED <<analyses, steady>>
  <2> DEFINE x == Failed(r)
  <2>1. /\ x \in Request /\ x.op = "analyze" /\ x.arg = req[r].arg /\ x.at = "failed"
    BY <1>1 DEF Failed, Request, Analyze
  <2> HIDE DEF x
  <2>2. Fits(analyses', x)
    BY <1>1, <1>3, <2>1 DEF Fits, Pages, Analyze
  <2>3. RequestsFit'
    BY <1>1, <1>3, <2>2, GrownSame, RequestStep DEF Types, Become, x
  <2> QED BY <1>3, <2>3, SameTypes DEF Types, Analyze, store, page
<1> QED BY <1>2, <1>3 DEF Analyze

LEMMA ContentTypes ==
  ASSUME Types, UNCHANGED <<analyses, history>>, analyzing' \in BOOLEAN,
         NEW id \in 1..Len(analyses), NEW url, url = analyses[id],
         SetCurrentContent(id, url)
  PROVE  TableFits' /\ StoreFits' /\ HintsFit' /\ typed' \in BOOLEAN
<1>1. TableFits'
  BY SameTypes
<1>2. Len(analyses) \in Nat /\ analyses[id] \in Problems
  BY ElementOfSeq DEF Types, TableFits
<1>3. StoreFits'
  BY <1>2 DEF Types, StoreFits, SetCurrentContent, Tabs
<1>4. HintsOfShown' = Hints[analyses[id]] /\ Hints[analyses[id]] \in Nat
  BY <1>2, AnalyzerAssumption DEF HintsOfShown, SetCurrentContent
<1>5. HintsFit'
  BY <1>4 DEF HintsFit, SetCurrentContent
<1> QED BY <1>1, <1>3, <1>5 DEF SetCurrentContent

\* An answer that is taken in.
LEMMA ArrivalTypes ==
  ASSUME Types, NEW r \in Requests,
         \/ ListArrives(r) \/ MoreArrives(r) \/ GetArrives(r) \/ AnalysisArrives(r)
  PROVE  Types'
<1>1. Fits(analyses, req[r]) /\ TableFits /\ req[r] \in Request /\ Len(analyses) \in Nat
  BY DEF Types, RequestsFit, TableFits
<1>2. CASE ListArrives(r)
  <2>1. StoreFits'
    BY <1>1, <1>2 DEF ListArrives, Fits, Types, StoreFits, Pages
  <2> QED BY <1>2, <2>1, DropStep, SameTypes DEF ListArrives, Types, page
<1>3. CASE MoreArrives(r)
  <2>1. /\ req[r].answer \in Seq(1..Len(analyses)) /\ req[r].arg \in Nat
        /\ history \in Seq(1..Len(analyses))
    BY <1>1, <1>3 DEF MoreArrives, Fits, Types, StoreFits, Pages
  <2>2. history' \in Seq(1..Len(analyses))
    BY <1>3, <2>1, ConcatProperties DEF MoreArrives
  <2>3. StoreFits'
    BY <1>3, <2>2 DEF MoreArrives, Types, StoreFits
  <2>4. PageFits'
    BY <1>3, <2>1 DEF MoreArrives, Types, PageFits
  <2> QED BY <1>3, <2>3, <2>4, DropStep, SameTypes DEF MoreArrives, Types
<1>4. CASE GetArrives(r)
  <2>1. req[r].answer \in 1..Len(analyses)
    BY <1>1, <1>4 DEF GetArrives, Fits, Pages
  <2>2. TableFits' /\ StoreFits' /\ HintsFit' /\ typed' \in BOOLEAN
    BY <1>4, <2>1, ContentTypes DEF GetArrives, Types, StoreFits
  <2>3. PageFits'
    BY <1>1, <1>4, <2>2 DEF GetArrives, Types, PageFits
  <2> QED BY <1>4, <2>2, <2>3, DropStep DEF GetArrives, Types
<1>5. CASE AnalysisArrives(r)
  <2>1. req[r].answer \in 1..Len(analyses) /\ req[r].arg = analyses[req[r].answer]
    BY <1>1, <1>5 DEF AnalysisArrives, Fits, Pages
  <2>2. TableFits' /\ StoreFits' /\ HintsFit' /\ typed' \in BOOLEAN
    BY <1>5, <2>1, ContentTypes DEF AnalysisArrives
  <2>3. PageFits'
    BY <1>5, <2>2 DEF AnalysisArrives, Types, PageFits, page
  <2>4. RequestsFit'
    BY <1>5, SendStep DEF AnalysisArrives, Ops, Pages
  <2> QED BY <2>2, <2>3, <2>4 DEF Types
<1> QED BY <1>2, <1>3, <1>4, <1>5

\* What comes to nothing.
LEMMA FailureTypes ==
  ASSUME Types, NEW r \in Requests, ReadFails(r) \/ AnalysisFails(r) \/ Unheard(r)
  PROVE  Types'
<1>1. Fits(analyses, req[r]) /\ TableFits /\ req[r] \in Request /\ Len(analyses) \in Nat
  BY DEF Types, RequestsFit, TableFits
<1>2. CASE ReadFails(r)
  <2>1. PageFits'
    <3>1. sidebar' \in [page : Nat, more : BOOLEAN, busy : BOOLEAN, loading : 0..Len(analyses)]
      <4>1. /\ [sidebar EXCEPT !.busy = FALSE]
                 \in [page : Nat, more : BOOLEAN, busy : BOOLEAN, loading : 0..Len(analyses)]
            /\ [sidebar EXCEPT !.loading = 0]
                 \in [page : Nat, more : BOOLEAN, busy : BOOLEAN, loading : 0..Len(analyses)]
            /\ sidebar
                 \in [page : Nat, more : BOOLEAN, busy : BOOLEAN, loading : 0..Len(analyses)]
        <5>1. 0 \in 0..Len(analyses)
          BY <1>1
        <5> QED BY <5>1 DEF Types, PageFits
      <4> QED BY <1>2, <4>1, Zenon DEF ReadFails
    <3> QED BY <1>2, <3>1 DEF ReadFails, Types, PageFits
  <2> QED BY <1>2, <2>1, DropStep, SameTypes DEF ReadFails, Types, store
<1>3. CASE AnalysisFails(r)
  <2>1. StoreFits'
    BY <1>3 DEF AnalysisFails, Types, StoreFits
  <2>2. RequestsFit'
    <3>1. CASE Become(r, Idle)
      BY <1>3, <3>1, DropStep DEF AnalysisFails
    <3>2. CASE Become(r, [req[r] EXCEPT !.own = FALSE])
      <4> DEFINE x == [req[r] EXCEPT !.own = FALSE]
      <4>1. /\ x \in Request /\ x.op = req[r].op /\ x.at = req[r].at
            /\ x.arg = req[r].arg /\ x.answer = req[r].answer
        BY <1>1 DEF Request
      <4> HIDE DEF x
      <4>2. Fits(analyses, x)
        BY <1>1, <4>1 DEF Fits
      <4>3. UNCHANGED analyses
        BY <1>3 DEF AnalysisFails
      <4> QED BY <1>1, <3>2, <4>2, <4>3, GrownSame, RequestStep DEF Types, Become, x
    <3> QED BY <1>3, <3>1, <3>2 DEF AnalysisFails
  <2> QED BY <1>3, <2>1, <2>2, SameTypes DEF AnalysisFails, Types
<1>4. CASE Unheard(r)
  BY <1>4, DropStep, SameTypes DEF Unheard, Types, store, page
<1> QED BY <1>2, <1>3, <1>4

LEMMA InitTypes == Init => Types
<1> SUFFICES ASSUME Init PROVE Types
  OBVIOUS
<1>1. TableFits
  <2>1. PICK n \in 0..MaxAnalyses : analyses \in [1..n -> Problems]
    BY DEF Init
  <2>2. n \in Nat /\ n <= MaxAnalyses
    BY <2>1, AnalyzerAssumption
  <2>3. analyses \in Seq(Problems) /\ Len(analyses) = n
    BY <2>1, <2>2
  <2> QED BY <2>2, <2>3 DEF TableFits
<1>2. Len(analyses) \in Nat
  BY <1>1 DEF TableFits
<1>3. StoreFits /\ HintsFit /\ PageFits
  <2>1. history \in Seq(1..Len(analyses)) /\ 0 \in 0..Len(analyses)
    BY <1>2, EmptySeq DEF Init
  <2>2. StoreFits
    BY <2>1 DEF Init, StoreFits, Tabs
  <2>3. HintsFit
    BY DEF Init, HintsFit, HintsOfShown
  <2>4. PageFits
    BY <2>1 DEF Init, PageFits
  <2> QED BY <2>2, <2>3, <2>4
<1>4. RequestsFit
  BY IdleFits DEF Init, RequestsFit, Fits
<1> QED BY <1>1, <1>3, <1>4 DEF Types

LEMMA NextTypes == Types /\ [Next]_vars => Types'
<1> SUFFICES ASSUME Types, [Next]_vars PROVE Types'
  OBVIOUS
<1>1. CASE User
  BY <1>1, EnterTypes, LeaveTypes, ReloadTypes, StoreTypes, AnalyzeCallTypes, SidebarTypes
     DEF User
<1>2. CASE TimerFires
  BY <1>2, AnalyzeCallTypes
<1>3. CASE \E r \in Requests : Serve(r) \/ Deliver(r)
  BY <1>3, ServeReadTypes, AnalyzeTypes, ArrivalTypes, FailureTypes DEF Serve, Deliver
<1>4. CASE UNCHANGED vars
  BY <1>4, SameTypes DEF vars, Types, store, page
<1> QED BY <1>1, <1>2, <1>3, <1>4 DEF Next

-----------------------------------------------------------------------------
(* One analysis of the page's own.                                         *)

LEMMA BecomeMeans ==
  ASSUME Types, NEW r \in Requests, NEW x, Become(r, x)
  PROVE  /\ DOMAIN req = Requests
         /\ req'[r] = x
         /\ \A q \in Requests \ {r} : req'[q] = req[q]
BY DEF Types, RequestsFit, Become

\* A request that is no analysis of the page's own, before and after the step.
LEMMA QuietStep ==
  ASSUME Types, OneAnalysis, UNCHANGED analyzing, NEW r \in Requests, NEW x, Become(r, x),
         Mine(x) <=> Mine(req[r])
  PROVE  OneAnalysis'
<1>1. \A q \in Requests : Mine(req'[q]) <=> Mine(req[q])
  BY BecomeMeans
<1> QED BY <1>1 DEF OneAnalysis

LEMMA MineOf ==
  /\ ~Mine(Idle)
  /\ \A op, arg : Mine(Call(op, arg)) <=> op = "analyze"
BY DEF Mine, Idle, Call

LEMMA MineChanged ==
  ASSUME Types, NEW r \in Requests
  PROVE  /\ \A answer : Mine(Answered(r, answer)) <=> Mine(req[r])
         /\ Mine(Failed(r)) <=> Mine(req[r])
         /\ ~Mine([req[r] EXCEPT !.own = FALSE])
<1>1. req[r] \in Request
  BY DEF Types, RequestsFit
<1>2. \A answer : Mine(Answered(r, answer)) <=> Mine(req[r])
  BY <1>1 DEF Mine, Answered, Request
<1>3. Mine(Failed(r)) <=> Mine(req[r])
  BY <1>1 DEF Mine, Failed, Request
<1>4. ~Mine([req[r] EXCEPT !.own = FALSE])
  BY <1>1 DEF Mine, Request
<1> QED BY <1>2, <1>3, <1>4

LEMMA HandlerOneAnalysis ==
  ASSUME Types, OneAnalysis, HandleAnalyze
  PROVE  OneAnalysis'
<1>1. CASE UNCHANGED <<analyzing, req>>
  BY <1>1 DEF OneAnalysis
<1>2. CASE /\ ~analyzing /\ analyzing' = TRUE
           /\ \E r \in Requests : Free(r) /\ Become(r, Call("analyze", currentURL))
  <2>1. PICK r \in Requests : Free(r) /\ Become(r, Call("analyze", currentURL))
    BY <1>2
  <2>2. Mine(req'[r]) /\ \A q \in Requests \ {r} : ~Mine(req'[q])
    BY <1>2, <2>1, BecomeMeans, MineOf DEF OneAnalysis
  <2> QED BY <1>2, <2>2 DEF OneAnalysis
<1> QED BY <1>1, <1>2 DEF HandleAnalyze

LEMMA UserOneAnalysis ==
  ASSUME Types, OneAnalysis, User
  PROVE  OneAnalysis'
<1>1. CASE Enter
  <2>1. CASE UNCHANGED req
    BY <1>1, <2>1 DEF Enter, store, OneAnalysis
  <2>2. CASE \E r \in Requests : Free(r) /\ Become(r, Call("list", 1))
    BY <1>1, <2>2, QuietStep, MineOf DEF Enter, store, Free
  <2> QED BY <1>1, <2>1, <2>2 DEF Enter
<1>2. CASE Leave
  <2>1. ASSUME NEW r \in Requests PROVE Mine(req'[r]) <=> Mine(req[r])
    BY <1>2, MineChanged DEF Leave, Mine
  <2> QED BY <1>2, <2>1 DEF Leave, store, OneAnalysis
<1>3. CASE Reload
  <2>1. ASSUME NEW r \in Requests PROVE ~Mine(req'[r])
    BY <1>3, MineChanged, MineOf DEF Reload
  <2> QED BY <1>3, <2>1 DEF Reload, OneAnalysis
<1>4. CASE PressAnalyze
  BY <1>4, HandlerOneAnalysis DEF PressAnalyze
<1>5. CASE LoadMore
  <2>1. PICK r \in Requests : Free(r) /\ Become(r, Call("more", sidebar.page + 1))
    BY <1>5 DEF LoadMore
  <2> QED BY <1>5, <2>1, QuietStep, MineOf DEF LoadMore, store, Free
<1>6. CASE \E i \in DOMAIN history : Select(i)
  <2>1. PICK i \in DOMAIN history : Select(i)
    BY <1>6
  <2>2. PICK r \in Requests : Free(r) /\ Become(r, Call("get", history[i]))
    BY <2>1 DEF Select
  <2> QED BY <2>1, <2>2, QuietStep, MineOf DEF Select, store, Free
<1>7. CASE SwitchSample \/ \E url \in Inputs : Type(url)
  BY <1>7 DEF SwitchSample, Type, OneAnalysis
<1>8. CASE \E url \in Samples : PressSample(url)
  BY <1>8 DEF PressSample, OneAnalysis
<1>9. CASE \E t \in Tabs : SetTab(t)
  BY <1>9 DEF SetTab, OneAnalysis
<1>10. CASE \E i \in 1..HintsOfShown : RevealHint(i)
  BY <1>10 DEF RevealHint, OneAnalysis
<1> QED BY <1>1, <1>2, <1>3, <1>4, <1>5, <1>6, <1>7, <1>8, <1>9, <1>10 DEF User

LEMMA RequestOneAnalysis ==
  ASSUME Types, OneAnalysis, NEW r \in Requests, Serve(r) \/ Deliver(r)
  PROVE  OneAnalysis'
<1>1. CASE ServeRead(r)
  BY <1>1, QuietStep, MineChanged DEF ServeRead, store
<1>2. CASE Analyze(r)
  BY <1>2, QuietStep, MineChanged DEF Analyze, store
<1>3. CASE ListArrives(r) \/ MoreArrives(r) \/ GetArrives(r) \/ ReadFails(r) \/ Unheard(r)
  <2>1. UNCHANGED analyzing /\ Become(r, Idle) /\ ~Mine(req[r])
    BY <1>3 DEF ListArrives, MoreArrives, GetArrives, ReadFails, Unheard, store, Mine
  <2> QED BY <2>1, QuietStep, MineOf
<1>4. CASE AnalysisArrives(r) \/ AnalysisFails(r)
  <2>1. Mine(req[r]) /\ analyzing' = FALSE
    BY <1>4 DEF AnalysisArrives, AnalysisFails, Mine
  <2>2. \A q \in Requests \ {r} : ~Mine(req[q])
    BY <2>1 DEF OneAnalysis
  <2>3. ~Mine(req'[r]) /\ \A q \in Requests \ {r} : req'[q] = req[q]
    BY <1>4, BecomeMeans, MineOf, MineChanged DEF AnalysisArrives, AnalysisFails
  <2> QED BY <2>1, <2>2, <2>3 DEF OneAnalysis
<1> QED BY <1>1, <1>2, <1>3, <1>4 DEF Serve, Deliver

LEMMA NextOneAnalysis == Types /\ OneAnalysis /\ [Next]_vars => OneAnalysis'
<1> SUFFICES ASSUME Types, OneAnalysis, [Next]_vars PROVE OneAnalysis'
  OBVIOUS
<1>1. CASE TimerFires
  BY <1>1, HandlerOneAnalysis DEF TimerFires
<1>2. CASE UNCHANGED vars
  BY <1>2 DEF vars, store, OneAnalysis
<1> QED BY <1>1, <1>2, UserOneAnalysis, RequestOneAnalysis DEF Next

-----------------------------------------------------------------------------
(* The links.                                                              *)

LEMMA SameLink ==
  ASSUME ShownIsLinked, UNCHANGED <<analyses, shown, currentURL, typed>>
  PROVE  ShownIsLinked'
BY DEF ShownIsLinked

LEMMA UserLinks ==
  ASSUME Types, ShownIsLinked, User \/ TimerFires
  PROVE  ShownIsLinked'
<1>1. CASE Reload
  BY <1>1 DEF Reload, ShownIsLinked
<1>2. CASE SwitchSample \/ \E url \in Inputs : Type(url)
  BY <1>2 DEF SwitchSample, Type, ShownIsLinked
<1>3. CASE \E url \in Samples : PressSample(url)
  BY <1>3 DEF PressSample, ShownIsLinked
<1>4. CASE Enter \/ Leave \/ LoadMore \/ PressAnalyze \/ TimerFires
  BY <1>4, SameLink DEF Enter, Leave, LoadMore, PressAnalyze, TimerFires, store
<1>5. CASE \E t \in Tabs : SetTab(t)
  BY <1>5, SameLink DEF SetTab
<1>6. CASE \E i \in 1..HintsOfShown : RevealHint(i)
  BY <1>6, SameLink DEF RevealHint
<1>7. CASE \E i \in DOMAIN history : Select(i)
  BY <1>7, SameLink DEF Select, store
<1> QED BY <1>1, <1>2, <1>3, <1>4, <1>5, <1>6, <1>7 DEF User

LEMMA RequestLinks ==
  ASSUME Types, ShownIsLinked, NEW r \in Requests, Serve(r) \/ Deliver(r)
  PROVE  ShownIsLinked'
<1>1. Fits(analyses, req[r])
  BY DEF Types, RequestsFit
<1>2. CASE Analyze(r)
  <2>1. shown \in 0..Len(analyses) /\ analyses \in Seq(Problems) /\ Len(analyses) \in Nat
    BY DEF Types, StoreFits, TableFits
  <2>2. shown # 0 => analyses'[shown] = analyses[shown]
    <3>1. CASE UNCHANGED analyses
      BY <3>1
    <3>2. CASE analyses' = Append(analyses, req[r].arg)
      BY <2>1, <3>2
    <3> QED BY <1>2, <3>1, <3>2 DEF Analyze
  <2> QED BY <1>2, <2>2 DEF Analyze, store, ShownIsLinked
<1>3. CASE GetArrives(r)
  BY <1>3 DEF GetArrives, SetCurrentContent, ShownIsLinked
<1>4. CASE AnalysisArrives(r)
  <2>1. req[r].arg = analyses[req[r].answer]
    BY <1>1, <1>4 DEF Fits, AnalysisArrives
  <2> QED BY <1>4, <2>1 DEF AnalysisArrives, SetCurrentContent, ShownIsLinked
<1>5. CASE \/ ServeRead(r) \/ ListArrives(r) \/ MoreArrives(r) \/ ReadFails(r)
           \/ AnalysisFails(r) \/ Unheard(r)
  BY <1>5, SameLink DEF ServeRead, ListArrives, MoreArrives, ReadFails, AnalysisFails, Unheard,
     store
<1> QED BY <1>2, <1>3, <1>4, <1>5 DEF Serve, Deliver

LEMMA NextLinks == Types /\ ShownIsLinked /\ [Next]_vars => ShownIsLinked'
<1> SUFFICES ASSUME Types, ShownIsLinked, [Next]_vars PROVE ShownIsLinked'
  OBVIOUS
<1>1. CASE UNCHANGED vars
  BY <1>1, SameLink DEF vars, store
<1> QED BY <1>1, UserLinks, RequestLinks DEF Next

-----------------------------------------------------------------------------
(* The pages of the history.                                               *)

LEMMA SameTable ==
  ASSUME UNCHANGED analyses
  PROVE  \A p : ListByUserID(p)' = ListByUserID(p)
BY DEF ListByUserID

\* A step that changes nothing the history depends on.
LEMMA SamePages ==
  ASSUME PagesInOrder, UNCHANGED <<analyses, history, open, req>>, steady' => steady,
         sidebar'.page = sidebar.page, sidebar'.more = sidebar.more,
         sidebar'.busy = sidebar.busy
  PROVE  PagesInOrder'
BY SameTable DEF PagesInOrder, ListIsFirst, MoreIsNext, OnePage, Loaded

\* Nor a request that asks for no page, before and after the step.
LEMMA OtherRequest ==
  ASSUME Types, PagesInOrder, UNCHANGED <<analyses, history, open>>, steady' => steady,
         sidebar'.page = sidebar.page, sidebar'.more = sidebar.more,
         sidebar'.busy = sidebar.busy,
         NEW r \in Requests, NEW x, Become(r, x), req[r].op \notin Pages, x.op \notin Pages,
         Mine(x) => x.at # "ok"
  PROVE  PagesInOrder'
<1> SUFFICES ASSUME steady' PROVE PagesInOrder'
  BY DEF PagesInOrder
<1>1. /\ steady /\ ListIsFirst /\ MoreIsNext /\ OnePage /\ Loaded
      /\ \A q \in Requests : Mine(req[q]) => req[q].at # "ok"
  BY DEF PagesInOrder, Mine
<1>2. req'[r] = x /\ \A q \in Requests \ {r} : req'[q] = req[q]
  BY BecomeMeans
<1>3. \A q \in Requests : req'[q].op \in Pages => req'[q] = req[q] /\ req[q].op \in Pages
  BY <1>2
<1>4. ListIsFirst'
  BY <1>1, <1>3, SameTable DEF ListIsFirst, Pages
<1>5. MoreIsNext'
  BY <1>1, <1>3, SameTable DEF MoreIsNext, Pages
<1>6. OnePage'
  BY <1>1, <1>3 DEF OnePage
<1>7. Loaded'
  BY <1>1 DEF Loaded
<1>8. \A q \in Requests : Mine(req'[q]) => req'[q].at # "ok"
  BY <1>1, <1>2
<1> QED BY <1>4, <1>5, <1>6, <1>7, <1>8 DEF PagesInOrder, Mine

\* The only page under way is the one a step sends for or answers.
LEMMA OneRequest ==
  ASSUME Types, PagesInOrder, steady, NEW r \in Requests, NEW x, Become(r, x),
         \A q \in Requests \ {r} : req[q].op \notin Pages, ~Mine(x),
         x.op = "list" => /\ open' /\ history' = <<>> /\ sidebar'.page = 1 /\ sidebar'.more
                          /\ x.arg = 1
                          /\ x.at = "ok" => x.answer = ListByUserID(1)',
         x.op = "more" => /\ open' /\ x.own /\ sidebar'.busy /\ history' # <<>>
                          /\ x.arg = sidebar'.page + 1
                          /\ x.at = "ok" => x.answer = ListByUserID(sidebar.page + 1)',
         Loaded'
  PROVE  PagesInOrder'
<1>1. req'[r] = x /\ \A q \in Requests \ {r} : req'[q] = req[q]
  BY BecomeMeans
<1>2. ListIsFirst'
  BY <1>1 DEF ListIsFirst, Pages
<1>3. MoreIsNext'
  BY <1>1 DEF MoreIsNext, Pages
<1>4. OnePage'
  BY <1>1 DEF OnePage
<1>5. \A q \in Requests : Mine(req'[q]) => req'[q].at # "ok"
  BY <1>1 DEF PagesInOrder, Mine
<1> QED BY <1>2, <1>3, <1>4, <1>5 DEF PagesInOrder, Mine

LEMMA SameLoaded ==
  ASSUME Loaded, UNCHANGED <<analyses, history, open>>,
         sidebar'.page = sidebar.page, sidebar'.more = sidebar.more
  PROVE  Loaded'
BY DEF Loaded

LEMMA EnterPages == Types /\ PagesInOrder /\ Enter => PagesInOrder'
<1> SUFFICES ASSUME Types, PagesInOrder, Enter, steady PROVE PagesInOrder'
  BY DEF Enter, PagesInOrder
<1>1. /\ history = <<>> /\ Loaded /\ history' = history /\ analyses' = analyses
      /\ \A q \in Requests : req[q].op \notin Pages
  BY DEF Enter, PagesInOrder, Loaded, ListIsFirst, MoreIsNext, Pages, store
<1>2. PICK r \in Requests : Become(r, Call("list", 1))
  BY <1>1 DEF Enter
<1>3. Loaded'
  BY <1>1 DEF Enter, Loaded
<1> DEFINE x == Call("list", 1)
<1>4. x.op = "list" /\ x.arg = 1 /\ x.at = "sent" /\ ~Mine(x)
  BY DEF Call, Mine
<1> HIDE DEF x
<1>5. open' /\ sidebar'.page = 1 /\ sidebar'.more
  BY DEF Enter
<1> QED BY <1>1, <1>2, <1>3, <1>4, <1>5, OneRequest DEF x

LEMMA ReloadPages == Types /\ Reload => PagesInOrder'
<1> SUFFICES ASSUME Types, Reload PROVE PagesInOrder'
  OBVIOUS
<1>1. ASSUME NEW r \in Requests PROVE req'[r].op \notin Pages /\ ~Mine(req'[r])
  <2>1. req[r] \in Request
    BY DEF Types, RequestsFit
  <2> QED BY <2>1, MineChanged, MineOf DEF Reload, Pages, Idle, Request
<1>2. Loaded'
  <2>1. history' = <<>> /\ ~open'
    BY DEF Reload
  <2>2. history' = [i \in 1..Len(history') |-> Len(analyses)' + 1 - i]
    BY <2>1
  <2> QED BY <2>1, <2>2 DEF Loaded
<1> QED BY <1>1, <1>2 DEF PagesInOrder, ListIsFirst, MoreIsNext, OnePage, Pages, Mine

LEMMA MorePages == Types /\ PagesInOrder /\ LoadMore => PagesInOrder'
<1> SUFFICES ASSUME Types, PagesInOrder, LoadMore, steady PROVE PagesInOrder'
  BY DEF LoadMore, PagesInOrder
<1>1. history # <<>>
  BY DEF LoadMore, LoadMoreShown, Filtered
<1>2. \A q \in Requests : req[q].op \notin Pages
  BY <1>1 DEF LoadMore, PagesInOrder, ListIsFirst, MoreIsNext, Pages
<1>3. PICK r \in Requests : Become(r, Call("more", sidebar.page + 1))
  BY DEF LoadMore
<1>4. /\ sidebar'.page = sidebar.page /\ sidebar'.more = sidebar.more /\ sidebar'.busy
      /\ UNCHANGED <<analyses, history, open>> /\ open
  BY DEF LoadMore, store, Types, PageFits
<1>5. Loaded'
  BY <1>4, SameLoaded DEF PagesInOrder
<1> DEFINE x == Call("more", sidebar.page + 1)
<1>6. x.op = "more" /\ x.arg = sidebar.page + 1 /\ x.at = "sent" /\ ~Mine(x) /\ x.own
  BY DEF Call, Mine
<1> HIDE DEF x
<1> QED BY <1>1, <1>2, <1>3, <1>4, <1>5, <1>6, OneRequest DEF x

LEMMA HandlerPages ==
  ASSUME Types, PagesInOrder, HandleAnalyze, UNCHANGED <<analyses, history, open, sidebar, steady>>
  PROVE  PagesInOrder'
<1>1. CASE UNCHANGED <<analyzing, req>>
  BY <1>1, SamePages
<1>2. CASE \E r \in Requests : Free(r) /\ Become(r, Call("analyze", currentURL))
  <2>1. PICK r \in Requests : Free(r) /\ Become(r, Call("analyze", currentURL))
    BY <1>2
  <2>2. req[r].op \notin Pages
    BY <2>1 DEF Free, Idle, Pages
  <2> DEFINE x == Call("analyze", currentURL)
  <2>3. x.op \notin Pages /\ x.at # "ok"
    BY DEF Call, Pages
  <2> HIDE DEF x
  <2> QED BY <2>1, <2>2, <2>3, OtherRequest DEF x
<1> QED BY <1>1, <1>2 DEF HandleAnalyze

LEMMA SelectPages ==
  ASSUME Types, PagesInOrder, NEW i, Select(i)
  PROVE  PagesInOrder'
<1>1. PICK r \in Requests : Free(r) /\ Become(r, Call("get", history[i]))
  BY DEF Select
<1>2. req[r].op \notin Pages
  BY <1>1 DEF Free, Idle, Pages
<1>3. /\ UNCHANGED <<analyses, history, open, steady>>
      /\ sidebar'.page = sidebar.page /\ sidebar'.more = sidebar.more
      /\ sidebar'.busy = sidebar.busy
  BY DEF Select, store, Types, PageFits
<1> DEFINE x == Call("get", history[i])
<1>4. x.op \notin Pages /\ x.at # "ok"
  BY DEF Call, Pages
<1> HIDE DEF x
<1> QED BY <1>1, <1>2, <1>3, <1>4, OtherRequest DEF x

LEMMA UserPages ==
  ASSUME Types, PagesInOrder, User \/ TimerFires
  PROVE  PagesInOrder'
<1>1. CASE Leave
  BY <1>1 DEF Leave, PagesInOrder
<1>2. CASE PressAnalyze \/ TimerFires
  BY <1>2, HandlerPages DEF PressAnalyze, TimerFires, page
<1>3. CASE SwitchSample \/ \E url \in Inputs : Type(url)
  BY <1>3, SamePages DEF SwitchSample, Type, page
<1>4. CASE \E url \in Samples : PressSample(url)
  BY <1>4, SamePages DEF PressSample
<1>5. CASE \E t \in Tabs : SetTab(t)
  BY <1>5, SamePages DEF SetTab, page
<1>6. CASE \E i \in 1..HintsOfShown : RevealHint(i)
  BY <1>6, SamePages DEF RevealHint, page
<1> QED BY <1>1, <1>2, <1>3, <1>4, <1>5, <1>6, EnterPages, ReloadPages, MorePages, SelectPages
        DEF User

LEMMA ServeReadPages ==
  ASSUME Types, PagesInOrder, NEW r \in Requests, ServeRead(r)
  PROVE  PagesInOrder'
<1> SUFFICES ASSUME steady PROVE PagesInOrder'
  BY DEF ServeRead, PagesInOrder
<1>1. UNCHANGED <<analyses, history, open, sidebar, steady>>
  BY DEF ServeRead, store, page
<1>2. req[r] \in Request
  BY DEF Types, RequestsFit
<1>3. PICK answer : /\ Become(r, Answered(r, answer))
                    /\ answer = IF req[r].op = "get" THEN req[r].arg
                                ELSE ListByUserID(req[r].arg)
  BY DEF ServeRead
<1> DEFINE x == Answered(r, answer)
<1>4. /\ x.op = req[r].op /\ x.arg = req[r].arg /\ x.own = req[r].own
      /\ x.at = "ok" /\ x.answer = answer
  BY <1>2 DEF Answered, Request
<1> HIDE DEF x
<1>5. ~Mine(x)
  BY <1>4 DEF Mine, ServeRead
<1>6. CASE req[r].op \notin Pages
  BY <1>1, <1>3, <1>4, <1>5, <1>6, OtherRequest DEF x
<1>7. CASE req[r].op \in Pages
  <2>1. \A q \in Requests \ {r} : req[q].op \notin Pages
    BY <1>7 DEF PagesInOrder, OnePage
  <2>2. /\ answer = ListByUserID(req[r].arg)
        /\ ListByUserID(1)' = ListByUserID(1)
        /\ ListByUserID(sidebar.page + 1)' = ListByUserID(sidebar.page + 1)
    BY <1>1, <1>3, <1>7 DEF Pages, ListByUserID
  <2>3. Loaded'
    BY <1>1, SameLoaded DEF PagesInOrder
  <2>4. x.op = "list" => /\ open' /\ history' = <<>> /\ sidebar'.page = 1 /\ sidebar'.more
                         /\ x.arg = 1 /\ x.answer = ListByUserID(1)'
    BY <1>1, <1>4, <2>2 DEF PagesInOrder, ListIsFirst
  <2>5. x.op = "more" => /\ open' /\ x.own /\ sidebar'.busy /\ history' # <<>>
                         /\ x.arg = sidebar'.page + 1
                         /\ x.answer = ListByUserID(sidebar.page + 1)'
    BY <1>1, <1>4, <2>2 DEF PagesInOrder, MoreIsNext
  <2> QED BY <1>3, <1>5, <2>1, <2>3, <2>4, <2>5, OneRequest DEF x
<1> QED BY <1>6, <1>7

\* The first page makes a list that is in order, and the next page continues it.
LEMMA FirstPage ==
  ASSUME Types, PagesInOrder, steady, NEW r \in Requests, ListArrives(r)
  PROVE  Loaded'
<1>1. /\ open /\ sidebar.page = 1 /\ sidebar.more /\ history' = ListByUserID(1)
      /\ UNCHANGED <<analyses, open, sidebar>>
  BY DEF ListArrives, PagesInOrder, ListIsFirst, page
<1> DEFINE total == Len(analyses)
           size == PageLength(0)
<1>2. PageSize \in Nat \ {0} /\ total \in Nat
  BY AnalyzerAssumption DEF Types, TableFits
<1>3. (1 - 1) * PageSize = 0 /\ 1 * PageSize = PageSize
  BY <1>2
<1>4. /\ ListByUserID(1) = [i \in 1..size |-> total + 1 - 0 - i]
      /\ Len(ListByUserID(1)) = size
  BY <1>2, <1>3, PageOfHistory DEF Types
<1>5. size = Smaller(PageSize, total)
  BY <1>2 DEF Smaller, PageLength
<1>6. [i \in 1..size |-> total + 1 - 0 - i] = [i \in 1..size |-> total + 1 - i]
  BY <1>2
<1> QED BY <1>1, <1>3, <1>4, <1>5, <1>6 DEF Loaded

LEMMA NextPage ==
  ASSUME Types, PagesInOrder, steady, NEW r \in Requests, MoreArrives(r)
  PROVE  Loaded'
<1>1. /\ open /\ history # <<>> /\ req[r].arg = sidebar.page + 1 /\ req[r].own
      /\ req[r].answer = ListByUserID(sidebar.page + 1) /\ Loaded
      /\ UNCHANGED <<analyses, open>> /\ sidebar.page \in Nat
  BY DEF MoreArrives, PagesInOrder, MoreIsNext, Types, PageFits
<1>2. /\ history' = history \o ListByUserID(sidebar.page + 1)
      /\ sidebar'.page = sidebar.page + 1
      /\ sidebar'.more = (Len(ListByUserID(sidebar.page + 1)) = PageSize)
  BY <1>1 DEF MoreArrives, Types, PageFits
<1> DEFINE total == Len(analyses)
           offset == sidebar.page * PageSize
           size == PageLength(offset)
           had == Len(history)
<1>3. PageSize \in Nat \ {0} /\ total \in Nat
  BY AnalyzerAssumption DEF Types, TableFits
<1>4. offset \in Nat /\ (sidebar.page + 1) * PageSize = offset + PageSize
  <2>1. \A a, b \in Nat : a * b \in Nat /\ (a + 1) * b = a * b + b
    OBVIOUS
  <2> QED BY <1>1, <1>3, <2>1
<1>5. ((sidebar.page + 1) - 1) * PageSize = offset
  BY <1>1
<1>6. /\ ListByUserID(sidebar.page + 1) = [i \in 1..size |-> total + 1 - offset - i]
      /\ ListByUserID(sidebar.page + 1) \in Seq(1..total)
      /\ Len(ListByUserID(sidebar.page + 1)) = size
  <2>1. sidebar.page + 1 \in Nat \ {0}
    BY <1>1
  <2>2. TableFits
    BY DEF Types
  <2> DEFINE p == sidebar.page + 1
  <2>3. offset = (p - 1) * PageSize
    BY <1>5
  <2>4. p \in Nat \ {0}
    BY <2>1
  <2> HIDE DEF p, offset
  <2> QED BY <2>2, <2>3, <2>4, PageOfHistory DEF p
<1>7. /\ history \in Seq(1..total) /\ had \in Nat
      /\ history = [i \in 1..had |-> total + 1 - i]
      /\ had = Smaller(offset, total)
  BY <1>1 DEF Loaded, Types, StoreFits
<1>8. sidebar'.page * PageSize = offset + PageSize
  BY <1>2, <1>4
<1> HIDE DEF offset
<1>9. /\ size \in Nat
      /\ size # 0 => had = offset
      /\ had + size = Smaller(offset + PageSize, total)
      /\ size # PageSize => had + size = total
  <2>1. had \in Nat /\ had = Smaller(offset, total)
    BY <1>7
  <2>2. size = Smaller(PageSize, IF offset < total THEN total - offset ELSE 0)
    BY DEF PageLength
  <2> HIDE DEF had, size, total
  <2> QED BY <1>3, <1>4, <2>1, <2>2 DEF Smaller
<1> HIDE DEF size, total, had
<1> DEFINE more == ListByUserID(sidebar.page + 1)
<1> HIDE DEF more
<1>10. /\ history' \in Seq(1..total) /\ Len(history') = had + size
       /\ \A i \in 1..had + size :
            history'[i] = IF i <= had THEN history[i] ELSE more[i - had]
  <2>1. more \in Seq(1..total) /\ Len(more) = size /\ history' = history \o more
    BY <1>2, <1>6 DEF more
  <2>2. history \in Seq(1..total) /\ Len(history) = had
    BY <1>7 DEF had
  <2> QED BY <2>1, <2>2, ConcatProperties
<1>11. \A i \in 1..had + size : history'[i] = total + 1 - i
  <2> SUFFICES ASSUME NEW i \in 1..had + size PROVE history'[i] = total + 1 - i
    OBVIOUS
  <2>1. CASE i <= had
    BY <1>7, <1>9, <1>10, <2>1
  <2>2. CASE ~(i <= had)
    <3>1. i - had \in 1..size /\ had = offset
      BY <1>7, <1>9, <2>2
    <3>2. more[i - had] = total + 1 - offset - (i - had)
      BY <1>6, <3>1 DEF more
    <3> QED BY <1>3, <1>4, <1>7, <1>10, <2>2, <3>1, <3>2
  <2> QED BY <2>1, <2>2
<1>12. history' = [i \in 1..Len(history') |-> total' + 1 - i]
  <2>1. history' = [i \in 1..Len(history') |-> history'[i]]
    BY <1>10
  <2>2. total' = total
    BY <1>1 DEF total
  <2> QED BY <1>10, <1>11, <2>1, <2>2
<1> QED BY <1>1, <1>2, <1>6, <1>8, <1>9, <1>10, <1>12 DEF Loaded, total

LEMMA RequestPages ==
  ASSUME Types, PagesInOrder, NEW r \in Requests, Serve(r) \/ Deliver(r)
  PROVE  PagesInOrder'
<1> SUFFICES ASSUME steady, steady' PROVE PagesInOrder'
  BY DEF Serve, Deliver, ServeRead, Analyze, ListArrives, MoreArrives, GetArrives, ReadFails,
     AnalysisArrives, AnalysisFails, Unheard, PagesInOrder
<1>1. req[r] \in Request /\ Idle.op \notin Pages /\ Idle.op = "none" /\ ~Mine(Idle)
  BY MineOf DEF Types, RequestsFit, Idle, Pages
<1>2. req[r].op \in Pages => \A q \in Requests \ {r} : req[q].op \notin Pages
  BY DEF PagesInOrder, OnePage
<1>3. CASE Analyze(r)
  <2> DEFINE x == Failed(r)
  <2>1. Become(r, x) /\ UNCHANGED <<analyses, history, open, sidebar>>
    BY <1>3 DEF Analyze, store, page
  <2>2. x.op = "analyze" /\ x.at = "failed"
    BY <1>1, <1>3 DEF Failed, Request, Analyze
  <2> HIDE DEF x
  <2> QED BY <1>3, <2>1, <2>2, OtherRequest DEF Analyze, Pages
<1>4. CASE ListArrives(r)
  BY <1>1, <1>2, <1>4, FirstPage, OneRequest DEF ListArrives, Pages
<1>5. CASE MoreArrives(r)
  BY <1>1, <1>2, <1>5, NextPage, OneRequest DEF MoreArrives, Pages
<1>6. CASE GetArrives(r)
  <2>1. /\ UNCHANGED <<analyses, history, open>> /\ Become(r, Idle)
        /\ sidebar'.page = sidebar.page /\ sidebar'.more = sidebar.more
        /\ sidebar'.busy = sidebar.busy
    BY <1>6 DEF GetArrives, Types, PageFits
  <2> QED BY <1>1, <1>6, <2>1, OtherRequest DEF GetArrives, Pages
<1>7. CASE ReadFails(r)
  <2>1. /\ UNCHANGED <<analyses, history, open>> /\ Become(r, Idle)
        /\ sidebar'.page = sidebar.page /\ sidebar'.more = sidebar.more
        /\ req[r].op \notin Pages => sidebar'.busy = sidebar.busy
    BY <1>7 DEF ReadFails, Types, PageFits, store, Pages
  <2>2. Loaded'
    BY <2>1, SameLoaded DEF PagesInOrder
  <2> QED BY <1>1, <1>2, <2>1, <2>2, OtherRequest, OneRequest
<1>8. CASE AnalysisArrives(r)
  BY <1>8 DEF AnalysisArrives, PagesInOrder
<1>9. CASE AnalysisFails(r)
  <2> DEFINE x == IF req[r].at = "failed" THEN Idle ELSE [req[r] EXCEPT !.own = FALSE]
  <2>1. x.op \notin Pages /\ ~Mine(x)
    BY <1>1, <1>9, MineChanged DEF AnalysisFails, Request, Pages
  <2>2. Become(r, x) /\ UNCHANGED <<analyses, history, open, sidebar>>
    BY <1>9 DEF AnalysisFails, page
  <2> HIDE DEF x
  <2> QED BY <1>9, <2>1, <2>2, OtherRequest DEF AnalysisFails, Pages
<1>10. CASE Unheard(r)
  BY <1>1, <1>10, OtherRequest DEF Unheard, store, page, Pages
<1> QED BY <1>3, <1>4, <1>5, <1>6, <1>7, <1>8, <1>9, <1>10, ServeReadPages DEF Serve, Deliver

LEMMA NextPages == Types /\ PagesInOrder /\ [Next]_vars => PagesInOrder'
<1> SUFFICES ASSUME Types, PagesInOrder, [Next]_vars PROVE PagesInOrder'
  OBVIOUS
<1>1. CASE UNCHANGED vars
  BY <1>1, SamePages DEF vars, store, page
<1> QED BY <1>1, UserPages, RequestPages DEF Next

-----------------------------------------------------------------------------
AnalyzerInv == Types /\ OneAnalysis /\ ShownIsLinked /\ PagesInOrder

\* In every behaviour the parts of AnalyzerInv hold together.
THEOREM AnalyzerHolds == Spec => []AnalyzerInv
<1>1. Init => AnalyzerInv
  <2> SUFFICES ASSUME Init PROVE AnalyzerInv
    OBVIOUS
  <2>1. Types
    BY InitTypes
  <2>2. OneAnalysis
    BY DEF Init, OneAnalysis, Mine, Idle
  <2>3. ShownIsLinked
    BY DEF Init, ShownIsLinked
  <2>4. Loaded
    <3>1. history = <<>> /\ ~open
      BY DEF Init
    <3>2. history = [i \in 1..Len(history) |-> Len(analyses) + 1 - i]
      BY <3>1
    <3> QED BY <3>1, <3>2 DEF Loaded
  <2>5. PagesInOrder
    BY <2>4 DEF Init, PagesInOrder, ListIsFirst, MoreIsNext, OnePage, Idle, Pages
  <2> QED BY <2>1, <2>2, <2>3, <2>5 DEF AnalyzerInv
<1>2. AnalyzerInv /\ [Next]_vars => AnalyzerInv'
  BY NextTypes, NextOneAnalysis, NextLinks, NextPages DEF AnalyzerInv
<1> QED BY <1>1, <1>2, PTL DEF Spec

\* In every behaviour the variables have their types, what is listed or shown is
\* in the table, and no more hints are revealed than the analysis has.
THEOREM AnalyzerTypeCorrect == Spec => []TypeOK
<1>1. AnalyzerInv => TypeOK
  <2> SUFFICES ASSUME Types PROVE TypeOK
    BY DEF AnalyzerInv
  <2>1. /\ \A id \in 1..Len(analyses) : analyses[id] \in Problems
        /\ Len(analyses) <= MaxAnalyses
    BY ElementOfSeq DEF Types, TableFits
  <2>2. \A i \in DOMAIN history : history[i] \in 1..Len(analyses)
    BY ElementOfSeq DEF Types, StoreFits
  <2>3. \A r \in Requests : req[r].op \in {"none", "list", "more", "get", "analyze"}
    BY DEF Types, RequestsFit, Request, Ops
  <2>4. {analyzing, open, due, steady, typed} \subseteq BOOLEAN
    BY DEF Types, StoreFits, PageFits
  <2> QED BY <2>1, <2>2, <2>3, <2>4 DEF Types, StoreFits, HintsFit, PageFits, TypeOK
<1> QED BY <1>1, AnalyzerHolds, PTL

\* In every behaviour, while the list does not grow and the page stays open,
\* paging repeats and skips no analysis, for every page size.
THEOREM HistoryIsInOrder == Spec => []HistoryIsPage
<1>1. AnalyzerInv => HistoryIsPage
  BY DEF AnalyzerInv, PagesInOrder, Loaded, HistoryIsPage
<1> QED BY <1>1, AnalyzerHolds, PTL

\* In every behaviour the links of the problem on display lead to that problem,
\* until the user types over the input.
THEOREM LinksLeadToTheShown == Spec => []LinksAreOfShown
<1>1. AnalyzerInv => LinksAreOfShown
  <2> SUFFICES ASSUME AnalyzerInv, shown # 0, ~typed
      PROVE  /\ ProblemPane.of = shown
             /\ ProblemPane.url = analyses[shown]
             /\ ProblemPane.submit = (Platform[analyses[shown]] = "codeforces")
    BY DEF LinksAreOfShown, ProblemPane
  <2>1. currentURL = analyses[shown]
    BY DEF AnalyzerInv, ShownIsLinked
  <2>2. currentURL \in Problems
    BY <2>1, ElementOfSeq DEF AnalyzerInv, Types, TableFits, StoreFits
  <2> QED BY <2>1, <2>2 DEF ProblemPane
<1> QED BY <1>1, AnalyzerHolds, PTL

\* In every behaviour the page says that it is thinking exactly while one
\* analysis of its own is under way.
THEOREM ThinkingHasACause == Spec => []AnalyzingHasCause
<1>1. AnalyzerInv => AnalyzingHasCause
  <2> SUFFICES ASSUME AnalyzerInv PROVE AnalyzingHasCause
    OBVIOUS
  <2>1. analyzing \in BOOLEAN /\ (Pane = "thinking" <=> analyzing)
    BY DEF AnalyzerInv, Types, StoreFits, Pane
  <2>2. CASE ~analyzing
    <3>1. UnderWay({"analyze"}) = {}
      BY <2>2 DEF AnalyzerInv, OneAnalysis, UnderWay, Mine
    <3> QED BY <2>1, <2>2, <3>1, FS_EmptySet DEF AnalyzingHasCause
  <2>3. CASE analyzing
    <3>1. PICK r \in Requests : Mine(req[r]) /\ \A q \in Requests \ {r} : ~Mine(req[q])
      BY <2>3 DEF AnalyzerInv, OneAnalysis
    <3>2. UnderWay({"analyze"}) = {r}
      BY <3>1 DEF UnderWay, Mine
    <3>3. Cardinality({r}) = 1
      BY FS_Singleton
    <3> QED BY <2>1, <2>3, <3>2, <3>3 DEF AnalyzingHasCause
  <2> QED BY <2>1, <2>2, <2>3
<1> QED BY <1>1, AnalyzerHolds, PTL
=============================================================================
