----------------------------- MODULE Dashboard ------------------------------
(***************************************************************************)
(* The dashboard page, pages/Dashboard.tsx, over GET /dashboard: the       *)
(* streak that the server counts, and the activity calendar and the skill  *)
(* tiers that the page lays out.                                           *)
(*                                                                         *)
(* Days are counted three times, at three moments: LeetCode files what the *)
(* user submits under a UTC day, the server counts the streak back from    *)
(* the UTC day of the request over what the last sync saved, and the       *)
(* browser lays the calendar out from its own, local day when it renders.  *)
(* Time passes in half days, and day 0 is a Sunday.  One LeetCode handle   *)
(* is used throughout: whose numbers are shown is a matter of Platforms.   *)
(* Codeforces, the charts, colours and numbers of submissions are left out.*)
(***************************************************************************)
EXTENDS Integers, Sequences, FiniteSets

CONSTANTS
  Weeks,        \* WEEKS: 36 in the code
  DaysPerWeek,  \* 7 in the code
  MaxStreak,    \* 365 in the code
  Strong,       \* how many skills are strong: 3 in the code
  Moderate,     \* and how many are strong or moderate: 8
  SkillCounts,  \* the answers of the skill endpoint: solved problems by skill
  Offsets,      \* half days by which local time is ahead of UTC
  MaxDay        \* bound on the days that pass

ASSUME DashboardAssumption ==
  /\ {Weeks, DaysPerWeek} \subseteq Nat \ {0}
  /\ {MaxStreak, Strong, Moderate, MaxDay} \subseteq Nat
  /\ Strong <= Moderate
  /\ SkillCounts \subseteq Seq(Nat)
  /\ Offsets \subseteq Int

VARIABLES
  now,       \* in half days
  offset,    \* of the browser
  active,    \* the UTC days on which the user submitted at LeetCode
  linked,    \* LeetCode is connected
  saved,     \* there is a snapshot in user_stats
  calendar,  \* the days the latest snapshot knows of
  skills,    \* of the same snapshot
  pending,   \* the request of the page, and its answer
  page       \* open, loading, data, and when it was rendered

server == <<linked, saved, calendar, skills>>
pageVars == <<now, offset, active, server, pending, page>>

-----------------------------------------------------------------------------
(* The server.                                                             *)

UTCDay(t) == t \div 2

\* Mutation: a day without a submission so far does not end the streak.
CalcStreakFromYesterday(days, today) ==
  LET walk[n \in 0..MaxStreak + 1] ==
        IF n > MaxStreak \/ (n > 0 /\ today - n \notin days) THEN n ELSE walk[n + 1]
  IN  walk[0]

\* The days in a row, back from today, that are among days.
CalcStreak(days, today) ==
  LET walk[n \in 0..MaxStreak + 1] ==
        IF n > MaxStreak \/ today - n \notin days THEN n ELSE walk[n + 1]
  IN  walk[0]

NoData == [leetcode |-> FALSE, days |-> {}, skills |-> <<>>, streak |-> 0, served |-> 0]

ParseLCDashboard ==
  [leetcode |-> TRUE,
   days |-> calendar,
   skills |-> skills,
   streak |-> IF calendar = {} THEN 0 ELSE CalcStreak(calendar, UTCDay(now)),
   served |-> UTCDay(now)]

-----------------------------------------------------------------------------
(* The page.                                                               *)

NoRequest == [at |-> "none", data |-> NoData]
Closed == [open |-> FALSE, loading |-> FALSE, data |-> NoData, rendered |-> 0]

LocalDay(t) == (t + offset) \div 2
Weekday(day) == day % DaysPerWeek
Today == LocalDay(page.rendered)

\* Mutation: the columns begin on whatever weekday the window does.
StartDateAnyDay == Today - Weeks * DaysPerWeek + 1

\* Back to the Sunday on or before the first day of the window.
StartDate ==
  LET first == Today - Weeks * DaysPerWeek + 1 IN first - Weekday(first)

Cells == (0..Weeks - 1) \X (0..DaysPerWeek - 1)
Date(cell) == StartDate + cell[1] * DaysPerWeek + cell[2]

\* A cell is looked up under its local date among the UTC dates of the calendar.
Coloured == {cell \in Cells : Date(cell) \in page.data.days /\ Date(cell) <= Today}

ShowsSkeleton == page.open /\ page.loading
ShowsLeetCode == page.open /\ ~page.loading /\ page.data.leetcode
ShowsCalendar == ShowsLeetCode /\ page.data.days # {}

\* The place of a skill among those with solved problems, most first; the sort is
\* stable.
Place(counts, s) ==
  Cardinality({t \in DOMAIN counts : \/ counts[t] > counts[s]
                                     \/ counts[t] = counts[s] /\ t < s})

Slice(counts, from, to) ==
  {s \in DOMAIN counts : counts[s] > 0 /\ from <= Place(counts, s) /\ Place(counts, s) < to}

\* Mutation: what follows the strong ones is cut short by one.
TiersShort(counts) ==
  [strong    |-> Slice(counts, 0, Strong),
   moderate  |-> Slice(counts, Strong, Moderate - 1),
   weak      |-> Slice(counts, Moderate, Cardinality(DOMAIN counts)),
   untouched |-> {s \in DOMAIN counts : counts[s] = 0}]

Tiers(counts) ==
  [strong    |-> Slice(counts, 0, Strong),
   moderate  |-> Slice(counts, Strong, Moderate),
   weak      |-> Slice(counts, Moderate, Cardinality(DOMAIN counts)),
   untouched |-> {s \in DOMAIN counts : counts[s] = 0}]

-----------------------------------------------------------------------------
(* Steps.                                                                  *)

Pass ==
  /\ UTCDay(now) < MaxDay
  /\ now' = now + 1
  /\ UNCHANGED <<offset, active, server, pending, page>>

Submit ==
  /\ UTCDay(now) \notin active
  /\ active' = active \cup {UTCDay(now)}
  /\ UNCHANGED <<now, offset, server, pending, page>>

\* Connect and Disconnect; the snapshots stay.
Relink ==
  /\ linked' = ~linked
  /\ UNCHANGED <<now, offset, active, saved, calendar, skills, pending, page>>

\* The answer of the calendar endpoint is today's, an earlier one out of the
\* cache, or missing; days are never taken back.
Sync ==
  /\ linked
  /\ saved' = TRUE
  /\ \E upTo \in -1..UTCDay(now) : calendar' = active \cap (0..upTo)
  /\ skills' \in SkillCounts
  /\ UNCHANGED <<now, offset, active, linked, pending, page>>

Enter ==
  /\ ~page.open
  /\ page' = [Closed EXCEPT !.open = TRUE, !.loading = TRUE]
  /\ pending' = [NoRequest EXCEPT !.at = "sent"]
  /\ UNCHANGED <<now, offset, active, server>>

\* The answer to a page that is gone sets a rating that no page in use reads.
Leave ==
  /\ page.open
  /\ page' = Closed
  /\ pending' = NoRequest
  /\ UNCHANGED <<now, offset, active, server>>

\* A platform without a snapshot is passed over as if it were not connected.
GetDashboard ==
  /\ pending.at = "sent"
  /\ pending' = [at |-> "ok", data |-> IF linked /\ saved THEN ParseLCDashboard ELSE NoData]
  /\ UNCHANGED <<now, offset, active, server, page>>

DashboardArrives ==
  /\ pending.at = "ok"
  /\ page' = [page EXCEPT !.loading = FALSE, !.data = pending.data, !.rendered = now]
  /\ pending' = NoRequest
  /\ UNCHANGED <<now, offset, active, server>>

\* Mutation: the spinner is turned off by an answer only.
DashboardFailsLoading ==
  /\ pending.at # "none"
  /\ page' = [page EXCEPT !.rendered = now]
  /\ pending' = NoRequest
  /\ UNCHANGED <<now, offset, active, server>>

\* Shown as if no platform were connected.
DashboardFails ==
  /\ pending.at # "none"
  /\ page' = [page EXCEPT !.loading = FALSE, !.data = NoData, !.rendered = now]
  /\ pending' = NoRequest
  /\ UNCHANGED <<now, offset, active, server>>

\* The user in the store changes: the calendar is laid out anew, from the old data.
Rerender ==
  /\ page.open
  /\ page.rendered # now
  /\ page' = [page EXCEPT !.rendered = now]
  /\ UNCHANGED <<now, offset, active, server, pending>>

-----------------------------------------------------------------------------
PageInit ==
  /\ now = 0
  /\ offset \in Offsets
  /\ active = {}
  /\ linked = FALSE
  /\ saved = FALSE
  /\ calendar = {}
  /\ skills = <<>>
  /\ pending = NoRequest
  /\ page = Closed

PageNext ==
  \/ Pass \/ Submit \/ Relink \/ Sync
  \/ Enter \/ Leave \/ Rerender
  \/ GetDashboard \/ DashboardArrives \/ DashboardFails

PageSpec == PageInit /\ [][PageNext]_pageVars

-----------------------------------------------------------------------------
\* Types; the skeleton is shown only while its request is under way.
PageTypeOK ==
  /\ now \in 0..2 * MaxDay + 1
  /\ offset \in Offsets
  /\ active \subseteq 0..MaxDay
  /\ {linked, saved} \subseteq BOOLEAN
  /\ calendar \subseteq active
  /\ skills \in SkillCounts \cup {<<>>}
  /\ pending.at \in {"none", "sent", "ok"}
  /\ ShowsSkeleton = (pending.at # "none")
  /\ page.data.streak \in 0..MaxStreak + 1

\* The streak on the page is the one that was earned: on each of its days, back from
\* the day on which the server counted it, the user did submit, whatever was synced,
\* cached or cut off in between; and it ends where the calendar next to it has a gap,
\* so that it is never longer nor shorter, nor missing, unless it is at its limit.
StreakIsEarned ==
  LET n == page.data.streak IN
    page.data.leetcode =>
      /\ \A i \in 0..n - 1 : page.data.served - i \in active
      /\ n <= MaxStreak => page.data.served - n \notin page.data.days

\* The last day, today or before, that ends a week.
WeekEnd == Today - Weekday(Today + 1)

\* The calendar has the Weeks full weeks that have ended, and none of the current
\* one: a day that was saved has one cell, in the row of its weekday, when it is in
\* these weeks, and else none, though the window is cut by the browser's day and the
\* days are those of UTC.  Each skill is in one tier, the better ones in the higher.
PanelsAreExact ==
  /\ ShowsCalendar =>
       /\ \A cell \in Cells : Weekday(Date(cell)) = cell[2]
       /\ \A cell \in Coloured : Date(cell) \in active
       /\ \A day \in page.data.days :
            Cardinality({cell \in Coloured : Date(cell) = day}) =
              IF WeekEnd - Weeks * DaysPerWeek < day /\ day <= WeekEnd THEN 1 ELSE 0
  /\ ShowsLeetCode =>
       LET counts == page.data.skills
           tiers == Tiers(counts)
           order == <<tiers.strong, tiers.moderate, tiers.weak, tiers.untouched>>
       IN /\ \A s \in DOMAIN counts : Cardinality({k \in 1..4 : s \in order[k]}) = 1
          /\ \A j, k \in 1..4 : j < k =>
               \A s \in order[j], t \in order[k] : counts[s] >= counts[t]
=============================================================================
