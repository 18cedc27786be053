------------------------------ MODULE Analyzer ------------------------------
(***************************************************************************)
(* The problem analyzer: the page pages/Analyzer.tsx, its zustand store    *)
(* and the routes POST /analyze, GET /analyses and GET /analyses/:id.      *)
(*                                                                         *)
(* The store outlives the page, the state of the history sidebar does not, *)
(* and an analysis takes half a minute: the user goes on typing, opening   *)
(* earlier analyses, leaving the page and loading the site anew meanwhile. *)
(* One user; an analysis is known by its place in the order of creation.   *)
(* The text filter and the visibility of the sidebar, error texts and the  *)
(* width of the columns are left out.                                      *)
(***************************************************************************)
EXTENDS Integers, Sequences, FiniteSets

CONSTANTS
  Problems,     \* problem URLs; other input is refused before it is sent
  Platform,     \* detectPlatform: "codeforces", "leetcode" or "other"
  Hints,        \* how many hints the analysis of a problem has
  Titled,       \* the problems whose analysis has a title (isValidHistoryItem)
  Inputs,       \* what the user types into the input
  Samples,      \* the problems of SAMPLE_PROBLEMS
  Workflows,    \* which of "dify" and "n8n" are configured
  PageSize,     \* 20 in the code
  MaxAnalyses,  \* bound on the analyses ever stored
  MaxHistory,   \* bound on the list: nothing more is loaded when it has as many
  MaxRequests,  \* bound on the requests of the browser under way
  None          \* an input that handleAnalyze refuses, such as the empty one

ASSUME AnalyzerAssumption ==
  /\ Platform \in [Problems -> {"codeforces", "leetcode", "other"}]
  /\ Hints \in [Problems -> Nat]
  /\ Titled \subseteq Problems
  /\ Inputs \subseteq Problems \cup {None}
  /\ Samples \subseteq Problems
  /\ Workflows \subseteq {"dify", "n8n"}
  /\ PageSize \in Nat \ {0}
  /\ MaxAnalyses \in Nat
  /\ MaxHistory \in Nat
  /\ MaxRequests \in Nat \ {0}
  /\ None \notin Problems

Requests == 1..MaxRequests
Tabs == {"all", "hints", "solution"}

VARIABLES
  analyses,       \* the table: the problem of each analysis
  history,        \* the store: analyses the sidebar lists
  shown,          \* currentContent and activeId: an analysis, 0 for none
  currentURL,
  tab,
  revealedHints,
  analyzing,
  open,           \* the page is mounted
  due,            \* the setTimeout of handleSampleAnalyze has not fired
  sidebar,        \* page, hasMore, loadingMore and loadingId of HistorySidebar
  req,            \* the requests under way
  steady,         \* history: the list did not grow nor the page close so far
  typed           \* history: the input was edited since an analysis was shown

store == <<history, shown, currentURL, tab, revealedHints, analyzing>>
page == <<open, due, sidebar>>
vars == <<analyses, store, page, req, steady, typed>>

-----------------------------------------------------------------------------
(* Requests.  The answer of a request whose component is gone, or of an    *)
(* analysis whose document is, is not own any more.                        *)

Idle == [op |-> "none", at |-> "none", arg |-> 0, own |-> FALSE, answer |-> 0]
Call(op, arg) == [op |-> op, at |-> "sent", arg |-> arg, own |-> TRUE, answer |-> 0]

\* The lowest free place, so that states do not differ in numbering alone.
Free(r) ==
  /\ req[r] = Idle
  /\ \A q \in Requests : req[q] = Idle => r <= q

Become(r, request) == req' = [req EXCEPT ![r] = request]
Answered(r, answer) == [req[r] EXCEPT !.at = "ok", !.answer = answer]
Failed(r) == [req[r] EXCEPT !.at = "failed"]

UnderWay(ops) == {r \in Requests : req[r].op \in ops /\ req[r].own}

-----------------------------------------------------------------------------
(* What the page shows.                                                    *)

\* An analysis without a title is not listed.
Filtered == {i \in DOMAIN history : analyses[history[i]] \in Titled}

LoadMoreShown == sidebar.more /\ Filtered # {}

Pane ==
  IF analyzing THEN "thinking" ELSE IF shown = 0 THEN "empty" ELSE "razbor"

\* The left column: title, tags, key observations and approach are of the analysis
\* on display, also while another is under way; the links go by the input, those to
\* the problem and its editorial and the one to submit on Codeforces.
ProblemPane ==
  [of |-> shown,
   url |-> currentURL,
   submit |-> currentURL \in Problems /\ Platform[currentURL] = "codeforces"]

HintsOfShown == IF shown = 0 THEN 0 ELSE Hints[analyses[shown]]

HintLadder == Pane = "razbor" /\ tab \in {"all", "hints"} /\ HintsOfShown > 0

-----------------------------------------------------------------------------
(* The user.                                                               *)

Enter ==
  /\ ~open
  /\ open' = TRUE
  /\ sidebar' = [page |-> 1, more |-> TRUE, busy |-> FALSE, loading |-> 0]
  /\ IF history # <<>> THEN UNCHANGED req
     ELSE \E r \in Requests : Free(r) /\ Become(r, Call("list", 1))
  /\ UNCHANGED <<analyses, store, due, steady, typed>>

\* The sidebar's state goes with the page; the requests and the timer do not.
Leave ==
  /\ open
  /\ open' = FALSE
  /\ sidebar' = [page |-> 0, more |-> FALSE, busy |-> FALSE, loading |-> 0]
  /\ req' = [r \in Requests |->
               IF req[r].op \in {"more", "get"} THEN [req[r] EXCEPT !.own = FALSE]
               ELSE req[r]]
  /\ steady' = FALSE
  /\ UNCHANGED <<analyses, store, due, typed>>

\* The document is loaded anew; the server finishes an analysis all the same.
Reload ==
  /\ history' = <<>>
  /\ shown' = 0
  /\ currentURL' = None
  /\ tab' = "all"
  /\ revealedHints' = 0
  /\ analyzing' = FALSE
  /\ open' = FALSE
  /\ due' = FALSE
  /\ sidebar' = [page |-> 0, more |-> FALSE, busy |-> FALSE, loading |-> 0]
  /\ req' = [r \in Requests |->
               IF req[r].op = "analyze" THEN [req[r] EXCEPT !.own = FALSE] ELSE Idle]
  /\ steady' = TRUE
  /\ typed' = FALSE
  /\ UNCHANGED analyses

Type(url) ==
  /\ open
  /\ currentURL' = url
  /\ typed' = (shown # 0)
  /\ UNCHANGED <<analyses, history, shown, tab, revealedHints, analyzing>>
  /\ UNCHANGED <<page, req, steady>>

\* Choosing another sample empties the input while no analysis is shown.
SwitchSample ==
  /\ shown = 0
  /\ Type(None)

SetTab(t) ==
  /\ open
  /\ Pane = "razbor"
  /\ tab' = t
  /\ UNCHANGED <<analyses, history, shown, currentURL, revealedHints, analyzing>>
  /\ UNCHANGED <<page, req, steady, typed>>

\* The head of hint i hides it and those after it, or reveals up to it.
RevealHint(i) ==
  /\ open
  /\ HintLadder
  /\ revealedHints' = IF i <= revealedHints THEN i - 1 ELSE i
  /\ UNCHANGED <<analyses, history, shown, currentURL, tab, analyzing>>
  /\ UNCHANGED <<page, req, steady, typed>>

\* Mutation: the handler does not look whether it is at work already.
HandleAnalyzeTwice ==
  IF currentURL = None THEN UNCHANGED <<analyzing, req>>
  ELSE /\ analyzing' = TRUE
       /\ \E r \in Requests : Free(r) /\ Become(r, Call("analyze", currentURL))

HandleAnalyze ==
  IF currentURL = None \/ analyzing THEN UNCHANGED <<analyzing, req>>
  ELSE /\ analyzing' = TRUE
       /\ \E r \in Requests : Free(r) /\ Become(r, Call("analyze", currentURL))

\* The button is disabled as the handler would refuse; Enter in the input is not.
PressAnalyze ==
  /\ open
  /\ HandleAnalyze
  /\ UNCHANGED <<analyses, history, shown, currentURL, tab, revealedHints>>
  /\ UNCHANGED <<page, steady, typed>>

\* The Analyze button of SampleProblemPane: the handler runs from a timer.
PressSample(url) ==
  /\ open
  /\ shown = 0
  /\ ~due
  /\ currentURL' = url
  /\ due' = TRUE
  /\ UNCHANGED <<analyses, history, shown, tab, revealedHints, analyzing>>
  /\ UNCHANGED <<open, sidebar, req, steady, typed>>

TimerFires ==
  /\ due
  /\ due' = FALSE
  /\ HandleAnalyze
  /\ UNCHANGED <<analyses, history, shown, currentURL, tab, revealedHints>>
  /\ UNCHANGED <<open, sidebar, steady, typed>>

Select(i) ==
  /\ i \in Filtered
  /\ open
  /\ sidebar.loading = 0
  /\ \E r \in Requests : Free(r) /\ Become(r, Call("get", history[i]))
  /\ sidebar' = [sidebar EXCEPT !.loading = history[i]]
  /\ UNCHANGED <<analyses, store, open, due, steady, typed>>

\* Mutation: the button stays enabled while a page is being loaded.
LoadMoreAgain ==
  /\ open
  /\ LoadMoreShown
  /\ Len(history) < MaxHistory
  /\ \E r \in Requests : Free(r) /\ Become(r, Call("more", sidebar.page + 1))
  /\ sidebar' = [sidebar EXCEPT !.busy = TRUE]
  /\ UNCHANGED <<analyses, store, open, due, steady, typed>>

LoadMore ==
  /\ open
  /\ LoadMoreShown
  /\ Len(history) < MaxHistory
  /\ ~sidebar.busy
  /\ \E r \in Requests : Free(r) /\ Become(r, Call("more", sidebar.page + 1))
  /\ sidebar' = [sidebar EXCEPT !.busy = TRUE]
  /\ UNCHANGED <<analyses, store, open, due, steady, typed>>

-----------------------------------------------------------------------------
(* The server.                                                             *)

Smaller(m, n) == IF m < n THEN m ELSE n

\* The newest first, in pages.
ListByUserID(p) ==
  LET total == Len(analyses)
      offset == (p - 1) * PageSize
  IN  [i \in 1..Smaller(PageSize, IF offset < total THEN total - offset ELSE 0) |->
         total + 1 - offset - i]

ServeRead(r) ==
  /\ req[r].at = "sent"
  /\ req[r].op \in {"list", "more", "get"}
  /\ Become(r, Answered(r, IF req[r].op = "get" THEN req[r].arg
                           ELSE ListByUserID(req[r].arg)))
  /\ UNCHANGED <<analyses, store, page, steady, typed>>

\* How a call of a workflow may end for Analyze.  Only an error of Dify is made
\* good by n8n; an answer that is no JSON, of either, fails the request.
CallN8NAnalyzer ==
  IF "n8n" \in Workflows THEN {"parsed", "failed"} ELSE {"failed"}
CallDifyAnalyzer == {"parsed", "failed"} \cup CallN8NAnalyzer

AnalyzeProblem ==
  IF "dify" \in Workflows THEN CallDifyAnalyzer ELSE CallN8NAnalyzer

\* Insert succeeds or fails; until then the request has left no trace.
Analyze(r) ==
  /\ req[r].op = "analyze"
  /\ req[r].at = "sent"
  /\ \/ /\ "parsed" \in AnalyzeProblem
        /\ Len(analyses) < MaxAnalyses
        /\ analyses' = Append(analyses, req[r].arg)
        /\ Become(r, Answered(r, Len(analyses) + 1))
        /\ steady' = FALSE
     \/ /\ Become(r, Failed(r))
        /\ UNCHANGED <<analyses, steady>>
  /\ UNCHANGED <<store, page, typed>>

-----------------------------------------------------------------------------
(* Answers in the browser.                                                 *)

\* Mutation: the hints stay as they were revealed.
SetCurrentContentOnly(id, url) ==
  /\ shown' = id
  /\ currentURL' = url
  /\ tab' = "all"
  /\ typed' = FALSE
  /\ UNCHANGED revealedHints

\* Mutation: the input is left as it is.
SetCurrentContentNotURL(id, url) ==
  /\ shown' = id
  /\ tab' = "all"
  /\ revealedHints' = 0
  /\ typed' = FALSE
  /\ UNCHANGED currentURL

SetCurrentContent(id, url) ==
  /\ shown' = id
  /\ currentURL' = url
  /\ tab' = "all"
  /\ revealedHints' = 0
  /\ typed' = FALSE

ListArrives(r) ==
  /\ req[r].op = "list"
  /\ req[r].at = "ok"
  /\ history' = req[r].answer
  /\ Become(r, Idle)
  /\ UNCHANGED <<analyses, shown, currentURL, tab, revealedHints, analyzing>>
  /\ UNCHANGED <<page, steady, typed>>

\* The items go to the store in any case, the page number to the component.
MoreArrives(r) ==
  /\ req[r].op = "more"
  /\ req[r].at = "ok"
  /\ history' = history \o req[r].answer
  /\ sidebar' = IF req[r].own
                THEN [sidebar EXCEPT !.page = req[r].arg, !.busy = FALSE,
                                     !.more = Len(req[r].answer) = PageSize]
                ELSE sidebar
  /\ Become(r, Idle)
  /\ UNCHANGED <<analyses, shown, currentURL, tab, revealedHints, analyzing>>
  /\ UNCHANGED <<open, due, steady, typed>>

GetArrives(r) ==
  /\ req[r].op = "get"
  /\ req[r].at = "ok"
  /\ SetCurrentContent(req[r].answer, analyses[req[r].answer])
  /\ sidebar' = IF req[r].own THEN [sidebar EXCEPT !.loading = 0] ELSE sidebar
  /\ Become(r, Idle)
  /\ UNCHANGED <<analyses, history, analyzing, open, due, steady>>

\* The list is fetched again, from its first page, and nobody waits for it.
AnalysisArrives(r) ==
  /\ req[r].op = "analyze"
  /\ req[r].at = "ok"
  /\ req[r].own
  /\ SetCurrentContent(req[r].answer, req[r].arg)
  /\ analyzing' = FALSE
  /\ Become(r, Call("list", 1))
  /\ UNCHANGED <<analyses, history, page, steady>>

\* On the way, in the server, or on the way back.
ReadFails(r) ==
  /\ req[r].op \in {"list", "more", "get"}
  /\ sidebar' = IF ~req[r].own THEN sidebar
                ELSE IF req[r].op = "more" THEN [sidebar EXCEPT !.busy = FALSE]
                ELSE IF req[r].op = "get" THEN [sidebar EXCEPT !.loading = 0]
                ELSE sidebar
  /\ Become(r, Idle)
  /\ UNCHANGED <<analyses, store, open, due, steady, typed>>

\* Mutation: analyzing is reset where the answer is shown, not in a finally.
AnalysisFailsStuck(r) ==
  /\ req[r].op = "analyze"
  /\ req[r].own
  /\ req[r].at # "ok"
  /\ Become(r, IF req[r].at = "failed" THEN Idle ELSE [req[r] EXCEPT !.own = FALSE])
  /\ UNCHANGED <<analyses, store, page, steady, typed>>

\* The server failed, or a proxy gave up on it: it goes on, for nobody.
AnalysisFails(r) ==
  /\ req[r].op = "analyze"
  /\ req[r].own
  /\ req[r].at # "ok"
  /\ Become(r, IF req[r].at = "failed" THEN Idle ELSE [req[r] EXCEPT !.own = FALSE])
  /\ analyzing' = FALSE
  /\ UNCHANGED <<analyses, history, shown, currentURL, tab, revealedHints>>
  /\ UNCHANGED <<page, steady, typed>>

Unheard(r) ==
  /\ req[r].op = "analyze"
  /\ ~req[r].own
  /\ req[r].at \in {"ok", "failed"}
  /\ Become(r, Idle)
  /\ UNCHANGED <<analyses, store, page, steady, typed>>

-----------------------------------------------------------------------------
\* The user may have any history of analyses when the site is loaded.
Init ==
  /\ \E n \in 0..MaxAnalyses : analyses \in [1..n -> Problems]
  /\ history = <<>>
  /\ shown = 0
  /\ currentURL = None
  /\ tab = "all"
  /\ revealedHints = 0
  /\ analyzing = FALSE
  /\ open = FALSE
  /\ due = FALSE
  /\ sidebar = [page |-> 0, more |-> FALSE, busy |-> FALSE, loading |-> 0]
  /\ req = [r \in Requests |-> Idle]
  /\ steady = TRUE
  /\ typed = FALSE

Serve(r) == ServeRead(r) \/ Analyze(r)

Deliver(r) ==
  \/ ListArrives(r) \/ MoreArrives(r) \/ GetArrives(r) \/ ReadFails(r)
  \/ AnalysisArrives(r) \/ AnalysisFails(r) \/ Unheard(r)

User ==
  \/ Enter \/ Leave \/ Reload
  \/ SwitchSample \/ PressAnalyze \/ LoadMore
  \/ \E url \in Inputs : Type(url)
  \/ \E url \in Samples : PressSample(url)
  \/ \E t \in Tabs : SetTab(t)
  \/ \E i \in 1..HintsOfShown : RevealHint(i)
  \/ \E i \in DOMAIN history : Select(i)

Next ==
  \/ User
  \/ TimerFires
  \/ \E r \in Requests : Serve(r) \/ Deliver(r)

\* No request stands still: it is answered or fails, and the event loop gets
\* round to the answer.
Spec == Init /\ [][Next]_vars /\ \A r \in Requests : WF_vars(Serve(r) \/ Deliver(r))

-----------------------------------------------------------------------------
\* Types; what is listed or shown is in the table, and no more hints are
\* revealed than the analysis on display has.
TypeOK ==
  /\ \A id \in 1..Len(analyses) : analyses[id] \in Problems
  /\ Len(analyses) <= MaxAnalyses
  /\ \A i \in DOMAIN history : history[i] \in 1..Len(analyses)
  /\ shown \in 0..Len(analyses)
  /\ currentURL \in Problems \cup {None}
  /\ tab \in Tabs
  /\ revealedHints \in 0..HintsOfShown
  /\ {analyzing, open, due, steady, typed} \subseteq BOOLEAN
  /\ sidebar \in [page : Nat, more : BOOLEAN, busy : BOOLEAN, loading : 0..Len(analyses)]
  /\ \A r \in Requests :
       req[r].op \in {"none", "list", "more", "get", "analyze"}

\* While the list does not grow and the page stays open, paging through the
\* history neither repeats nor skips an analysis, and when the sidebar says that
\* there are no more it lists all of them.
HistoryIsPage ==
  steady =>
    /\ history = [i \in 1..Len(history) |-> Len(analyses) + 1 - i]
    /\ open /\ ~sidebar.more => Len(history) = Len(analyses)

\* The links of the left column lead to the problem whose title and observations
\* stand above and below them, and to its platform, whichever request brought the
\* analysis and whatever was in the input then; until the user types over the input,
\* which is the one place that holds the address.
LinksAreOfShown ==
  ProblemPane.of # 0 /\ ~typed =>
    LET problem == analyses[ProblemPane.of] IN
      /\ ProblemPane.url = problem
      /\ ProblemPane.submit = (Platform[problem] = "codeforces")

\* The right column says that the page is thinking exactly while one analysis of its
\* own is under way, also across leaving and coming back.  (The left column goes on
\* showing the earlier analysis meanwhile.)
AnalyzingHasCause ==
  Cardinality(UnderWay({"analyze"})) = IF Pane = "thinking" THEN 1 ELSE 0

\* Whether it succeeds or fails, an analysis ends, and the page can start another.
AnalysisEnds == analyzing ~> ~analyzing
=============================================================================
