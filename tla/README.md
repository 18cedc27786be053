# OlympIQ: specifications, model checking and proofs

OlympIQ is a study companion for competitive programmers: a Go backend (fiber,
PostgreSQL, Redis), a React frontend, a Python recommender service, and two
outside AI workflow engines. This directory holds TLA+ models of the parts of it
in which order, concurrency and failure matter, the TLC runs that check them on
small instances, and TLAPS proofs of their most important properties for every
instance. All paths below are relative to the repository root, given as `src/...`.

Contents: [the system](#the-system) ·
[modules](#modules-and-how-they-correspond-to-the-code) ·
[runs](#runs-and-what-they-show) · [bounds](#bounds) · [fairness](#fairness) ·
[proofs](#proofs) · [what is not modelled](#what-is-not-modelled-and-why) ·
[plan](#plan)

## The system

| Part | State | Operations | What is hard about it |
|---|---|---|---|
| Accounts and sessions (`backend/internal/services/auth_service.go`, `profile_service.go`, `repository/user_repo.go`, `token_repo.go`) | tables `users`, `refresh_tokens` | Register, Login, Refresh, Logout, ChangePassword, UpdateProfile, DeleteAccount, RevokeSession, RevokeAllSessions | several SQL statements per request, never a transaction: any other request runs in between; a statement may fail and leave the earlier ones done |
| Rate limiter (`middleware/ratelimit.go`, `cache/redis_cache.go`) | one Redis counter per group and address | INCR, then EXPIRE by the first request | two commands, the error of the second dropped; fixed windows |
| Browser API client (`frontend/src/api/client.ts`, `AppShell.tsx`) | `isRefreshing`, `refreshQueue` per tab; cookies per browser | send, intercept a 401, refresh, wake the queue, retry | tabs race over a rotating token; answers late, lost or refused |
| Platforms (`accounts_service.go`, `stats_service.go`, `codeforces_service.go`, `leetcode_service.go`) | tables `platform_accounts`, `user_stats`; Redis cache of upstream answers | Connect, Disconnect, SyncAll, GetDashboard | a sync takes many upstream calls, each of which may fail, while the account is disconnected, connected again or synced again |
| AI recommendations (`ai_service.go`, `handlers/recommendations.go`) | Redis key `recommendations:v2:*` | cached call, three-stage fallback, topic filter | shared cache keys, failures and timeouts one after the other |
| Recommender page (`pages/Recommender.tsx`, `store/recommenderStore.ts`) | zustand store | load per topic | overlapping loads, answers in any order |
| Analyzer (`handlers/analyzer.go`, `analyses_repo.go`, `pages/Analyzer.tsx`, `store/analyzerStore.ts`) | table `analyses`, zustand store, the sidebar's own paging state | analyze, list, open, load more, reveal hints | pages of a list that grows at its head; half a minute of analysis against typing, selecting, leaving |
| Goals and roadmap (`handlers/roadmap.go`, `goals_repo.go`, `roadmap_repo.go`) | tables `user_goals`, `roadmaps` | upsert, generate, latest | generation reads goals that change meanwhile |
| Task recommender (`task_recommender_service.go`, `task-recommender/api.py`, `database.py`) | SQLite users, problems, submissions | recommend (upserts, then ranks) | overlapping upserts; what counts as solved |
| Models, data collection, CLI (`task-recommender/models`, `data_collection`, `main.py`) | model files | training | floats; offline scripts |
| Session in the browser (`App.tsx`, `AppShell.tsx`, `Landing.tsx`, `Login.tsx`, `Register.tsx`, `Sidebar.tsx`, `store/authStore.ts`) | the user on display, cookies | probe, sign in, register, sign out, delete account, navigate | a probe sent by one page is answered on another, after another sign-in |
| Profile page (`pages/Profile.tsx`, `Sidebar.tsx`, `store/statsStore.ts`) | the page's lists, and a second list behind the sidebar's dots | connect, disconnect, sync, revoke | modals close before the answer, so that requests overlap |
| Dashboard page (`pages/Dashboard.tsx`, `stats_service.go`) | none of its own | lay out the streak, the calendar, the skill tiers | days counted in UTC and in local time, at three different moments |
| Wiring, metrics, health, styling | none of their own | start-up, probes, rendering | none |

How they interact: the pages call the backend through the API client. Every
`/api/v1` route passes the rate limiter; every route but `/auth/*` passes the
access-token check, which reads no table, so a signed access token works until it
expires whatever happens to its session or account. The API client meets that
expiry with `POST /auth/refresh`, the one operation in which the browser's state
and the tables of sessions meet. Platforms, recommendations, analyzer and roadmap
share the table `platform_accounts` and the Redis cache.

What makes each of them correct:

- *Sessions*: accounts are unique; a session belongs to an account; a token that
  was exchanged never works again; a session that has ended stays ended; a deleted
  account stays deleted.
- *Rate limiter*: the burst over any window's length is bounded; a client's own
  retries do not prolong its lock-out; the counter is reset.
- *API client*: each call settles; none is carried out twice; the browser keeps
  the token that continues its session.
- *Platforms*: a snapshot is of one handle; a sync accounts for every platform it
  listed; the dashboard is no older than what a sync announced.
- *Analyzer*: the pages of the history fit together; the links on display lead to the
  problem on display; at most one analysis runs, and "thinking" ends.
- *Session in the browser*: the user on display is the one whose session the cookies
  hold; no page stays blank and no form disabled.
- *Profile page*: page, sidebar and server agree on the accounts once the answers are
  in; a session that was revoked is not listed again.
- *Dashboard*: the streak was earned; the calendar has each saved day of the full weeks
  that have ended, once, and no other; each skill has one tier.
- *Recommendations*: an answer is for the name that asked and the topic that was asked
  for, no older than the caches allow, and comes within the sum of the timeouts; the
  page shows what is selected and stops its spinner.

`PROJECT.json` lists the hazards, each at its line, with the properties that
cover it or the reason why none does.

## Modules, and how they correspond to the code

`PROJECT.json` maps every definition to the lines it models. Definitions that
begin with "Mutation:" in their comment are plausible mistakes in the definition
that follows them. No behaviour uses them: putting one in the place of the
original must break the property it is listed with, which shows that the property
depends on that code.

### Sessions, SessionLife, SignOut, SessionsProofs

`Sessions` is `AuthService` and `ProfileService` over the two tables. `users` and
`tokens` are the tables; `issued` and `lapsed` number the refresh tokens in the
order of their insertion and of their expiry, which are the same order because all
live equally long. A raw token, its hash and its row id are one number. A request
of several statements is a slot `req[p]` whose `pc` names its next statement and
whose other fields are its local variables (the row it read, the token it found);
an operation of one statement (Logout, the revocations) is one action. `Fail` ends
a request at any statement: a constraint refuses it, the database is down, the
server stops.

Points where the model follows the code rather than its intention: a lookup that
fails for any reason counts as "not taken" (`err == nil` is the only test in
Register and UpdateProfile); DELETE and UPDATE of no row are no errors; `Update`
writes the whole row it is given; Refresh deletes before it inserts. The UNIQUE
constraints, the foreign key and ON DELETE CASCADE come from `backend/db/migrations`.
`origin` is history: which token each token was refreshed from, and with which
token its session began.

`SessionLife` is the abstract specification: a session is not begun, open or
ended. `Sessions` refines it with the mapping `Stage`, in which a session is open
while one of its tokens could still be refreshed, or a refresh that has seen such
a token is still on its way. `SessionsEndForGood == SL!Spec` is checked as a
PROPERTY and proved. `SignOut` adds the history of the sessions that
RevokeAllSessions found.

### RateLimit (proofs in SessionsProofs)

One key of the limiter. `Incr` is the middleware's call and its verdict, `Expire`
the second command, `ExpireLost` its failure, `Tick` the clock and Redis's own
expiry. `life`, `opened` and `admitted` are history: which life of the key, since
when, and the requests let through. When Redis does not answer, the middleware
lets the request pass uncounted; those requests appear nowhere in the model and
`Throttled` says nothing of them.

### ApiClient, MCApiClient, ApiClientProofs

The response interceptor in each tab: `call` holds every call with the access
token it carries and its `_retry` mark, `flight` the tab's refresh, `jar` the
token pair in the browser's cookies. An event of a tab's JavaScript is one action
because nothing else in that tab runs in between. The server is the access-token
check (`Authorized`) and the refresh route, reduced to finding and replacing the
token (`RefreshFind`, `RefreshRotate`), with its failures: rate limited or
unreachable (`RefreshTurnedDown`), the row deleted and no new one inserted
(`RefreshHalfDone`), the answer lost (`RefreshAnswerLost`). `Handle` lets a handler
answer 401 on its own, as ChangePassword does for a wrong current password.
`ended` is history: the session was signed out, or one of the two failures after
which the browser cannot have the token any more has happened.

"The axios 401 interceptor performs a single refresh" (`AppShell.tsx:26`) is true of one
tab. In two tabs whose calls meet the expiry together there are two, with the same
token: the later of them may find the row gone and send its page to `/login`, although
the browser has a good session (`JarKeepsSession`).

### Platforms, MCPlatforms, PlatformsProofs

`accounts`, `stats` and `cache` are the two tables and Redis. What an upstream
answer says is abstracted to the handle it is about, since the properties ask
whose numbers are stored and shown. A sync works through the platforms it listed,
in either order (SQL promises none), and through the endpoints of each in the
order of the code; the first must answer, the others may be missing from the
snapshot (`subs, _ := ...`). TTL, eviction and an unreachable Redis are all
`CacheMiss`; a SET that fails is a later miss. `fetched_at` is `clock`, taken when
the last answer is in. `last_synced_at` is only displayed and is not stored; its
UPDATE is a step (`SyncStamp`) because it can fail and make the sync report an
error. The dashboard changes nothing and is an operator (`Latest`, `OnDashboard`).

### Recommendations (run in MCRecommender, proofs in RecommenderProofs)

A request of `RecommendationsHandler.List` is a slot `req[p]` whose `pc` is the call it
waits for: `context` (BuildStudentContext), `structured` (the n8n recommender), `ml`
(the microservice), `roadmap` (the n8n roadmap workflow), then `done`. The outcomes of
each call are two actions, one for an answer that can be used and one for everything
else (timeout, status, text beyond repair, Redis down). Time is relative: a request
has an `age` and the time `left` to its current call, an entry of the cache its age
and the time left to its expiry, and `Tick` moves them all. `cache` is keyed as in the
code, by a name without its platform, and an entry carries the name it was made for.
A structured answer carries `asked` as history: the name under which the user asked.

Of the accounts nothing is kept: `BuildStudentContext` looks at `platform_accounts` once
per request, and neither Connect nor Disconnect touches the keys of the recommendations,
so that `Begin` takes any listing with an account in it, whatever the last one was. A
request without one is refused.

What an answer is made of may be old before the request begins: Codeforces and LeetCode
are read through caches of an hour (`CacheHit` of `Platforms`). An entry is therefore as
old as the request that made it and any age up to `SourceTTL` besides (`stale` in
`Recommended`). `AnswersAreRecent` adds up the four: `SourceTTL`, the context, the call,
and the six hours of the entry.

The microservice gets the page's default topic "any" as it is, and compares it with whole
tags (`Ranked`); the third stage looks for it inside the names of the roadmap's topics
(`strings.Contains`), where it may well be found (`Planned`).

A request in the worst case takes the context and three calls (`WithinBudget`). The
calls alone are 60 + 45 + 60 = 165 s (`ai_service.go:76`, `task_recommender_service.go:24`),
and the proxy gives up after 150 s, which "must exceed the backend's worst-case total"
(`frontend/nginx-spa.conf:15`): that comment, and the one of `NewAIService`, forget the
microservice between the two calls of n8n. The page meets it as `GiveUp` while the server
works on.

### Recommender, MCRecommender, RecommenderProofs

The recommender page on top of `Recommendations`: `page` is the zustand store of each
user's tab, `loads` the requests it waits for. `load()` up to its `await` and the
begin of the request at the server are one step (`Load`); what the server reads at
that moment does not depend on the page. `Settled` is the rest of `load()`: it does not
ask which load it belongs to. The user can reload the page, choose a topic during a
load, and lose answers (`GiveUp`); the server works on for nobody (`Drop`).
`crossed` is history: two loads of the page have overlapped since it last waited for
none. `structured` is the topic of the structured answer on display; the list of problems
that comes without one, and `loaded`, decide nothing (with such an answer the page is
loaded) and are left out.

### Roadmap, RoadmapProofs

One user's goal and roadmaps, and the roadmap page in each tab. A goal is the number
of the save that stored it, so that "earlier" and "later" are numbers; a roadmap is its
stamp and the goal it was made for. A request is a slot: a load with its two GETs
(`todo`), a save (`upsert`, or `dated` when the editor sends a deadline), a generation
(`context`, `ai`, `insert`). The slot of a save turns into that of the generation which
`saveGoal` starts. The tab that waits is in the slot, and `None` when the user has
reloaded it or the proxy has given up; the server works on all the same. `clean` is
history: nothing has come between the page and the tables since it was opened.

A goal's deadline is sent as a date and parsed as RFC 3339 (`roadmap.go:108`), so that
such a save is refused, and the page says nothing (`dated`). The latest roadmap is
stored with the mode "all" (`roadmap.go:54`), which is none of the three views, and the
page that restores it shows nothing below the header until a view is chosen. `App.tsx`
has a route for the page no longer; the handlers behind it are served.

Left out: the message of a failed generation, the modal flag `editing` (the editor can
be opened whenever the page is loaded and its button is never disabled), the
notification preferences, which are shown only, and the three views.

### Analyzer, MCAnalyzer, AnalyzerProofs

The page with its zustand store, the history sidebar with the paging state that is its
own (`sidebar`), and the three routes. A request is a slot `req[r]` that is `sent` until
the server has served it (`Serve`) and then waits for the event loop (`Deliver`); `own`
says whether whoever asked is still there. An analysis is its place in the table. The
server lists newest first, in pages (`ListByUserID`), and writes nothing but the row of
a finished analysis (`Analyze`), whose two workflows fail as in `ai_service.go`: n8n takes
over when Dify does, but not when Dify answers nonsense. The store outlives the page, and
the sidebar's state does not (`Enter`, `Leave`); `TimerFires` is the `setTimeout` of the
sample's button, which runs on a page that may be gone. `steady` and `typed` are
history, and bound what the properties say:

- once an analysis was added, `page` goes on counting in a list that starts anew, so
  that "load more" skips or repeats; leaving and coming back resets `page` to 1 over a
  history that is kept, so that the first page is appended again; a history whose first
  page has no title to show hides "load more" (`LoadMoreShown`);
- the input is the only place that holds the address of what is shown, so that typing
  changes the links of the problem on display.

The left column (`ProblemPane`) shows the title, the observations and the approach of the
analysis `of`, with two links beside them. While another analysis is under way the right
column says "thinking" (`Pane`), and the left one goes on showing the earlier analysis
(`Analyzer.tsx:791`): `LinksAreOfShown` says that the links are that analysis's then, too.
What the tabs of the right column show is text, but for the hints (`HintLadder`).

### Shell, ShellProofs

One browser: its cookies (`jar`, and `lapsed` when the session behind them is gone), the
document with its store, and its requests. The pages under the `AppShell` route count as
one, since moving between them mounts nothing. A page's mount sends its probe (`Go`,
`Reload`, `Navigate`), and a probe's answer is applied whatever page is shown by then
(`LandingArrives`, `ShellArrives`, `ShellFails`). The interceptor is the single request's
part of `ApiClient`: a request is repeated with the cookies that the browser has by then
(`Session`), or is refused and yanks a protected page to `/login` (`Yank`). A new document
forgets everything but the cookies (`Document`).

`crossed` is history: a sign-in or sign-out happened while a probe was under way. Such a
probe brings back the earlier user, and a failing one leads a visitor who has gone on
to a public page to `/login`, which `client.ts:52-54` means to avoid. A probe that fails
for any reason, 429 included, sends a signed-in user there as well; a Sign out that fails
is not caught and changes nothing; deleting an account leaves the cookies, and the server
deletes the account of the cookies while the user confirmed the name on display.

### Profile, ProfileProofs

The page's own list of accounts and the one behind the sidebar's dots, the active
sessions, and every request under way, with `here` for those whose page is still open. A
change is confirmed in a modal that closes before the request is answered, so that
changes of different platforms overlap (`Confirm`); its answer updates both lists, the
second from within the updater of the first, which React may or may not run when the page
is gone (`ChangeArrives`). `mixed` is history and says what `DotsAreCurrent` leaves out: a
list read before a change may arrive after it and undo it on the page, and an answer may
be lost. `revokingId` is one for all revocations.

### Dashboard, MCDashboard (proofs in PlatformsProofs)

Time is in half days, so that a browser ahead of UTC or behind it has days of its own.
`Submit` files a submission under the UTC day, `Sync` saves what LeetCode or the cache
knows, `GetDashboard` counts the streak back from the UTC day of the request
(`CalcStreak`), and the page lays the calendar out from the local day on which it
renders (`StartDate`, `Date`), a day that grows older than "today" until something renders
it anew (`Rerender`). `Tiers` is the ranking of skills. Codeforces, the charts and the
numbers in them are left out.

Reading the layout closely shows that the calendar's last cell is the last Saturday that
is not after today: the start is rounded back to a Sunday and exactly 36 columns follow.
`PanelsAreExact` says what that is: the 36 full weeks that have ended (`WeekEnd`), each
saved day in them once, and no day of the current week. The heading says "last 36 weeks"
(`Dashboard.tsx:475`), and `isFuture` is there for the rest of the current week but is
never true: on every day but a Saturday the days of the current week, today among them,
have no cell, whatever was submitted on them. The streak falls to nothing on the day after the
last sync, whether or not the user has submitted: it is counted from today over days that
were saved earlier. `StreakIsEarned` bounds it on both sides, at 0 as well: the day at which the
count stops is one that was not saved.

### Divergences without a run

Met while reading, and not turned into a run: the proxy's 150 s against the server's 165 s
and the calendar of the "last 36 weeks" without the current one, both above. Incr "atomically increments key and
sets TTL" (`redis_cache.go:33`) in two commands, and `StuckForGood` shows what follows when
the second is lost. The disconnect dialog says "All cached stats for this account will be
removed" (`Profile.tsx:94`), and no step of `Platforms` removes a row of `stats`. A comment has the
tier of moderate skills as the "next 4" (`Dashboard.tsx:306`), and the code takes five
(`slice(3, 8)`), as does `Tiers`. The comment at `stats_service.go:406` has the rating history most recent first, and the code
keeps the last 20 of it. The dashboard says "No platforms connected" also when its request
failed or nothing was synced yet. The profile page promises that stats are pulled every
hour, and nothing does. Register allows underscores in a username, and UpdateProfile does
not.

## Runs, and what they show

| Run | Module, config | Result | Shows |
|---|---|---|---|
| `sessions` | MCSessions | passes | six properties of the tables and requests, refinement of SessionLife included |
| `sign_out` | SignOut, MCSignOut.cfg | violated | RevokeAllSessions "signs the user out of every session" — but for the one whose refresh is under way: it deletes nothing new, inserts its next token, and lives on |
| `stale_profile` | Sessions, MCStaleProfile.cfg | violated | UpdateProfile "applies email/username changes", and restores the password that a concurrent ChangePassword replaced |
| `rate_limit` | RateLimit | passes | the burst bound and fixed windows |
| `api_client` | MCApiClient | passes | queue and leader agree, no call is carried out twice, the browser keeps its session, every call settles |
| `platforms` | MCPlatforms | passes | snapshots of one handle, syncs that account for all, a dashboard that keeps up |
| `recommendations` | MCRecommender | passes | answers for the right name and topic, within age and time, and a page that shows what is selected unless loads overlapped |
| `roadmap` | Roadmap, MCRoadmap.cfg | passes | when the page agrees with the tables, that a plan is never for an earlier goal than the page showed, that nothing unsaved is shown, and that every generation ends |
| `analyzer` | MCAnalyzer | passes | when history pages fit together, whose links are next to an analysis, that one analysis runs at a time and ends, with success or not |
| `shell` | Shell | passes | that the user on display is the one of the cookies unless a probe was overtaken, and that no page stays blank, no form disabled |
| `profile` | Profile | passes | that page, sidebar and server agree on the accounts after any overlap of changes, and that revoked sessions stay gone |
| `dashboard` | MCDashboard | passes | that the streak was earned and leaves out no day it should count, that the calendar is exactly the full weeks that have ended, and that each skill has one tier |

A violated run states what a comment or the interface says, and the trace that TLC
prints is a short interleaving in which the code does otherwise; `PROJECT.json`
quotes the line under "findings".

## Bounds

- `sessions`: two users, two emails, usernames and passwords each, two overlapping
  requests, three refresh tokens. Two of each is what a conflict needs; three
  tokens give a session, its refresh, and a fork or a second session. Symmetric in
  everything but tokens, whose numbers are ordered. Deadlock is checked: there is
  always a request that can begin.
- `rate_limit`: two requests per window of three ticks, seven ticks, a counter up
  to four: two full windows and refused requests in each. `MaxCount` and `Horizon`
  bound only the run; it stops at the horizon, hence no deadlock check.
- `api_client`: one tab on a protected page with two calls and one on a public page
  with one; three token pairs. One leader, one waiter, one rival tab, and room for
  a second refresh by a woken waiter. Everything settles in the end, hence no
  deadlock check.
- `platforms`: one user, two overlapping requests; two handles and two endpoints
  (one of which Disconnect clears) on LeetCode, one of each on Codeforces; two
  snapshots. Users do not interact except through the cache, and that is covered by
  two handles in the same cache. The run stops when the clock is used up, hence no
  deadlock check. The proofs cover any number of users, platforms, handles, endpoints,
  requests and snapshots.
- `recommendations`: one user, two requests, two topics; one handle that is a name on both
  platforms and another of LeetCode. Each of the context, the calls and the microservice
  may take a unit of time, upstream answers may be a unit old, an entry lives for two:
  every summand of the two sums really elapses, and entries are read at every age. Two
  requests are what a shared entry and overlapping loads need; the server does not tell
  its users apart except by name. The page can always be reloaded, and deadlock is checked.
- `roadmap`: one tab, two overlapping requests, two saves, two roadmaps. Two requests
  are what an overlap needs; a tab that is reloaded leaves requests behind that write
  behind the back of the next page, as another tab would. Two saves tell an earlier
  goal from a later one, two roadmaps the latest from another. A second tab makes the
  liveness check too large, and all the safety properties are proved for any number of
  tabs. Deadlock is checked: a tab can be reloaded.
- `analyzer`: two problems on different platforms, one of which has no title and no
  hints; pages of one analysis, two analyses stored, three listed, two requests under
  way. That is a second page, an insert between two pages, a list longer than the table
  (the repetition), and an analysis against any one other request. The proofs cover any
  page size, table and number of requests; liveness is checked here only.
- `shell`: two users, two requests under way: a probe, and the sign-in or sign-out that
  overtakes it. The proofs cover any number of both; liveness is checked here only.
- `profile`: two platforms, two sessions, two requests: what overlaps, overlaps in
  pairs, and the proofs cover any number.
- `dashboard`: weeks of two days, a calendar of two weeks, six days, a browser half a day
  behind UTC, level with it or ahead; a walk of at most three days; lists of two and of
  six skills over tiers of one and two. After six days the first column has dropped out
  of the calendar and the streak's walk has met its limit. With seven days a week the
  same cases need weeks of steps; that the properties hold of 36 weeks of seven days, a
  walk of 365 and browsers any number of half days from UTC, the proofs say.

## Fairness

`ApiClient`, `Roadmap`, `Analyzer` and `Shell` have liveness to check. In `ApiClient`, `Fairness` says that a request that was
sent is answered or fails (browsers and nginx time out), that the event loop of a
tab handles an answer that has arrived, and the same of a refresh. Nothing says
that a refresh succeeds, that a token lives, or that the user does anything.
`CallsSettle` holds because the retry of a queued call marks itself when it leads
a refresh in its turn, so that the chain of refreshes ends. In `Roadmap`,
every step of the server on a request ends, with success or not (statements and calls
of the workflow return, the HTTP client of the AI service has a timeout), and the event
loop handles the answer; `GenerationEnds` then rests on the `finally` of `generate()`.
In `Analyzer` and `Shell` each slot has one weak fairness condition: a request is
answered or fails (axios, nginx and the workflows' clients time out), and its answer is
handled. `AnalysisEnds` rests on the `finally` of `handleAnalyze`; `BlankEnds` excepts a
visitor who goes on leaving the page for ever, whose probes all come too late.
In the other modules
the code promises no progress worth a fairness condition: every request may fail.

## Proofs

TLAPS checks the theorems of eight modules for every value of the constants. Every
invariant, every action property and the refinement that a passing run checks are stated
by one of them. Two of the modules prove about two components each, which have no state
in common; the definitions of `RateLimit` and `Dashboard` have names of their own
(`LimiterSpec`, `PageSpec`) for that reason.

| Proofs | Of | Assumptions, named in the module they are about |
|---|---|---|
| `SessionsProofs` | `Sessions`, `SessionLife`, `RateLimit` | `SessionsAssumption`: the number of tokens is a natural number and `None` is neither a user nor a row; `RateLimitAssumption`: limit and window are positive, `NoTTL` is no time |
| `ApiClientProofs` | `ApiClient` | `ApiClientAssumption`: there is at least one token pair |
| `PlatformsProofs` | `Platforms`, `Dashboard` | `PlatformsAssumption`: a platform has an endpoint, Disconnect clears endpoints that exist, `None` is no handle; `DashboardAssumption`: weeks and days of a week are positive, limits and skills are natural numbers, the strong tier is not above the moderate one, time zones are whole half days |
| `RecommenderProofs` | `Recommendations`, `Recommender` | `RecommendationsAssumption`: times are natural numbers, an entry lives at all, "any" is a topic, `None` is neither a name nor a topic |
| `RoadmapProofs` | `Roadmap` | `RoadmapAssumption`: "weekly" is a view, the bounds are natural numbers, `None` is neither a tab nor a roadmap |
| `AnalyzerProofs` | `Analyzer` | `AnalyzerAssumption`: pages are not empty, problems have a platform and a number of hints, `None` is no problem, there is a request at all |
| `ShellProofs` | `Shell` | `ShellAssumption`: `None` is no user, there is a request at all |
| `ProfileProofs` | `Profile` | `ProfileAssumption`: `None` is no platform or session, there is a request at all |

TLC evaluates the assumptions on every run.

`SessionsProofs`:

- `TypeCorrect`: one lemma per shape of step (`BeginType`, `MoveType`, `EndType`,
  `InsertTokenType`, `DeleteTokensType`), then one case per action.
- `IdentityIsUnique` (of `UniqueIdentity`, which no run repeats), `DeletionIsFinal`: by `UsersEffect`, which says that a step
  leaves the table alone, writes one row that is free of conflicts, or deletes
  one. The checks that Register and UpdateProfile make beforehand are not used:
  the constraints alone carry the theorem, which is how the model shows that the
  race between check and write does no harm.
- `SessionsFollowUsers`: by `TokensEffect`; the foreign key for the insert that
  comes late, the cascade for the deletion.
- `RotationIsFinal` needs a stronger invariant, `Chains` (`ChainsHold`): what has
  been issued forms chains back to the first token of a session, nothing beyond
  `issued` exists, and a refresh at its last statement holds a token whose row is
  gone. The last part is what `SpentTokensAreGone` lacks to be inductive.
- `SessionsImplementLife`: the refinement. `NoneRevived` shows that no step makes a
  session alive that was not, other than the insertion that begins it;
  `OthersKept` that such an insertion changes no other session; `StageStep` maps
  each step to Open, End or a stutter of `SessionLife`.

`SessionsProofs`, on `RateLimit`:

- `LedgerHolds`: the inductive invariant, `LimiterInv`. A key without deadline has an `expiring`
  request or is stuck; a key lives at least `Window` ticks from `opened`; the
  requests admitted in one life are at most `Max`, and the first of each life are
  `Window` apart. `ThrottleHolds` follows: `2 * Max` entries further on there are
  two lives more. `LimiterTypeCorrect` is part of it.
- `WindowsStayFixed` and `StuckStays` (of `StuckForGood`, in no run) use the part of it that says who may send
  EXPIRE.

`ApiClientProofs`:

- `ClientHolds`: the inductive invariant. `Together` ties the flag, the queue, the leader
  and the refresh of a tab to each other; `Runs` says that what may be sent again was not
  carried out; `Secret` is what `JarKeepsSession` lacks to be inductive: a pair that was
  granted has a row, and neither the jar nor any refresh knows its token before its
  answer is in, so that no other refresh can spend it, and whichever answer arrives last
  leaves a good token in the jar. `TypeCorrect`, `CallsRunOnce` and `SessionIsKept`
  follow. One lemma for each shape of step (`QuietStep`, `OnTheWay`, `MoveStep`), and one
  for the steps that move several things at once (`LeadStep`, `RotateStep`, `LandStep`).

`PlatformsProofs`, on `Platforms`:

- `PlatformsHold`: the inductive invariant, whatever syncs, connects and disconnects
  overlap. What is cached under a handle was answered for it (`CacheOfHandle`); so
  the parts that a sync has collected are of the handle it listed, the first of them
  there, whatever the account is by now (`Collects`); what it counts as saved is in the
  table, and what it has taken off its list is saved or failed (`Records`); the latest
  row is the latest (`HasLatest`), and what was announced is a row. Every step lets the
  table grow or stand (`RecordsGrow`), which is all that the other requests need.
- `SnapshotsHaveOneHandle`, `NoAccountIsPassedOver` and `DashboardIsNotBehind` follow.
  That Disconnect clears a part of the cache and Connect changes the handle below a sync
  plays no part in it: the sync goes on with what it listed.

`PlatformsProofs`, on `Dashboard`:

- `WalkEnds`: the recursive function of `CalcStreak` exists, is the only one, and its
  value at the start is the first day back that is missing or the limit of the walk. A
  least such number exists because the natural numbers are well-founded (`LeastOf`), and
  the function is given in closed form below it; no induction theorem is needed.
- `PageHolds`: the inductive invariant. What an answer or the page holds was earned: its
  days were submitted, its streak is made of them and stops at a day that is none of
  them (`Earned`). This stays so because days are never taken back.
- `StreakWasEarned` follows. `PanelsShowEachOnce` is arithmetic: the start is a Sunday
  (`StartIsSunday`) and the last column ends with `WeekEnd` (`WeeksSpan`, `ColumnsEnd`), a date has one quotient and one remainder by the length of a week
  (`Remainder`, `Unique`), hence one cell (`DayHasCell`, `OneCellPerDay`); a skill has one
  place in the ranking (`PlaceType`, `BetterPlace`), hence one tier, and the tiers are in
  order (`OneTier`, `TiersInOrder`).

`RecommenderProofs`, on `Recommendations`:

- `ServerHolds`: the inductive invariant. An entry's name is its key, and the sum of
  its age, that of what it was made of included, and the time left to it is at most what
  the oldest answer may reach; the
  same sum of a request is bounded for each stage (`Allowed`), which is how one bound
  passes from a stage to the next. `AnswersAreOnesOwn`, `AnswersStayRecent` and
  `RequestsEndInTime` follow.

`RecommenderProofs`, on `Recommender`:

- `PagesUseServer`: every step of `PageSpec` is a step of `Spec` or leaves the server
  alone, so that the theorems of the server hold below the pages.
- `PagesHold`: no two pages wait for one request (`Apart`), and a page whose loads did
  not overlap waits for one request at most, whose topic is the selected one
  (`Alone`). Without these `ShownIsSelected` is not inductive: the answer that
  arrives must be known to be the answer to the last choice. `SelectionIsShown` and
  `SpinnerStops` follow.

`RoadmapProofs`:

- `TablesHold`: whatever overlaps, no slot and no page knows of a goal or a roadmap
  that the tables lack, no row is stamped later than the clock, and the goal that a
  generation reads is none or at least the one it was asked for. One lemma per action
  (`OpenTable`, ...) over two for all of them: the tables grow (`OldJobsFit`), and one
  slot takes on a job that fits (`JobStep`). `PlansFollow` and `ShownAreStored` follow.
- `SpinnerHasCause`: inductive with the types. A generation keeps its tab until it
  ends, and then, or when it is given up, the spinner is turned off.
- `CleanPagesAreCurrent` needs `CleanInv`: as long as a page is clean there is at most
  one request, and what the slot holds agrees with the tables at every stage of a load,
  a save or a generation, as does what the page shows but for what the answer will
  bring. That the roadmap which is inserted is the latest (`InsertedIsLatest`) is where
  `TablesHold` comes in; that a load which finds nothing leaves nothing stale on the
  page, too.

`AnalyzerProofs`:

- `AnalyzerHolds`: the inductive invariant, in four parts. An answer on its way was in the
  table when it was sent and stays there, since nothing is removed (`Fits`). Exactly one
  analysis is the page's own while the page is thinking, and none otherwise
  (`OneAnalysis`). The links are those of the problem on display unless the user has typed
  (`ShownIsLinked`). While the history is steady at most one request for a page of it is
  under way, and it is for the first page of an empty history or for the page that
  follows those on display, answered or not (`PagesInOrder`); `FirstPage` and `NextPage`
  show that appending such an answer gives the prefix of the table that is one page
  longer. This is what `HistoryIsPage` lacks to be inductive: the answer must be
  known to be for the page that comes next.
- `HistoryIsInOrder`, `LinksLeadToTheShown` and `ThinkingHasACause` follow.

`ShellProofs`:

- `ShellHolds`: the inductive invariant. A probe carries the cookies of the moment it was
  sent, and as long as nothing crossed it these are the cookies of now (`Current`); a
  form or the landing page is busy with a request of its own (`BusyHasOwn`), and a blank
  shell has a probe under way (`BlankHasProbe`). `TypeCorrect` and `ShownIsSession` follow.

`ProfileProofs`:

- `ProfileHolds`: the inductive invariant. In a visit that is not mixed, the list is under
  way and nothing else that matters (`ListAlone`), or changes of different platforms are
  (`ChangesApart`), and then page and server agree on every platform whose change has not
  been carried out (`Agree`), whatever the others do. `SessionsFirst` says that nothing is
  revoked before the list of sessions is there, which `RevokedStaysGone` needs.
  `TypeCorrect`, `DotsStayCurrent` and `RevokedAreGone` follow.

Proved and in no run, because the run would repeat what is proved: `UniqueIdentity`,
`StuckForGood` and the two spinners of `Recommender` and `Roadmap`.

Only checked by TLC: liveness (`CallsSettle`, `GenerationEnds`, `AnalysisEnds`,
`BlankEnds`), which is out of the prover's reach.

## What is not modelled, and why

- Hashing, signing, validation, JSON and HTTP formats: data that the properties do
  not distinguish.
- GetProfile, ListSessions, ListAccounts, GetStats: they change nothing.
- TokenRepository.DeleteExpired: nobody calls it; expired rows stay, as in the model.
- The background call of the recommender after a sync: it reads only, and belongs
  to the task recommender.
- Deleting an account while its platforms are being synced: the cascade removes
  the rows of Platforms as it does those of Sessions.
- Codeforces on the dashboard, the charts, the landing page's content: computed and
  rendered once from an answer, without state.
- The identity, email and password forms of the profile page: their writes are requests of
  `Sessions`, and their answers change nothing on the page that a later step reads.
- `repairTruncatedJSON` and `parseAndNormalizeAnalysis`: whether a text is an answer is a
  choice in the models, whichever way it was decided.
- The task recommender service: its writes are upserts by key in SQLite, each in
  a transaction of its own, and what it excludes depends on the scoring below.
- Training and scoring of the recommender's models (floating-point learning), the
  data collection scripts (offline, sequential), configuration, metrics, health
  checks, rendering.

## Plan

Done: the ten components above, in the order of what a user would lose by a fault in
them. What is left, in this order:

1. `TaskRecommender`: what is stored of solved problems when their timestamps are missing,
   and what the exclusion sees of it.
2. Pure algorithms against reference definitions: BuildTagFrequency,
   FilterStructuredRecs, repairTruncatedJSON, the retry loop of LeetCodeService.
3. The stores across a sign-out: `Shell` has the user alone, but the histories of
   `Analyzer` and the dots of `Profile` live as long as the document too, and the next user
   of the tab starts with what is in them.
4. The composition of `Shell` and `ApiClient`: several tabs with a user on display each.
5. Proofs: what the conditions of the proved properties leave out, stated exactly (how far a
   history that is no longer steady may be from the table, what a crossed probe can bring
   back); abstract specifications, refined by the proved modules, of the API client (a
   call is carried out at most once) and of the roadmap page.
