--------------------------- MODULE PlatformsProofs ---------------------------
(***************************************************************************)
(* For any number of users, platforms, handles and endpoints, and however  *)
(* many syncs, connects and disconnects overlap: a snapshot is about one   *)
(* handle, a sync accounts for every platform it listed, and the dashboard *)
(* is never behind what a sync has told the user.                          *)
(*                                                                         *)
(* The argument: what is cached under a handle was answered for it         *)
(* (CacheOfHandle), so the parts that a sync collects are of the handle it *)
(* listed (Collects), whatever the account is by now; what a sync counts   *)
(* as saved is in the table (Records), from which nothing is ever removed. *)
(***************************************************************************)
EXTENDS Platforms, Dashboard, SequenceTheorems, FiniteSetTheorems, WellFoundedInduction, TLAPS

Working == {"ask", "asked", "insert", "stamp"}
SyncStages == {"sync"} \cup Working

IsMap(f, S) == f = [x \in S |-> f[x]]

-----------------------------------------------------------------------------
(* The tables.                                                             *)

AccountsOK == accounts \in [Users -> Listing]

\* Of the snapshots that there are, one is the latest.
HasLatest ==
  \A u \in Users, pl \in Platform :
    stats[u][pl] # {} =>
      \E row \in stats[u][pl] : \A other \in stats[u][pl] : other.at <= row.at

StatsOK ==
  /\ IsMap(stats, Users) /\ \A u \in Users : IsMap(stats[u], Platform)
  /\ \A u \in Users, pl \in Platform : \A row \in stats[u][pl] : row \in Snapshot(pl)
  /\ SnapshotsAreOfOneHandle /\ HasLatest

CacheOfHandle ==
  \A pl \in Platform : \A e \in 1..Endpoints[pl], h \in AllHandles :
    cache[pl][e][h] \in {h, None}

CacheOK ==
  /\ IsMap(cache, Platform)
  /\ \A pl \in Platform : cache[pl] \in [1..Endpoints[pl] -> [AllHandles -> Answers]]
  /\ CacheOfHandle

ClockOK == clock \in 0..MaxClock

AnnouncedOK ==
  /\ announced \in [Users -> Times]
  /\ \A u \in Users, pl \in Platform :
       announced[u][pl] # 0 => \E row \in stats[u][pl] : row.at = announced[u][pl]

TablesOK == AccountsOK /\ StatsOK /\ CacheOK /\ ClockOK /\ AnnouncedOK

-----------------------------------------------------------------------------
(* The requests.                                                           *)

\* The parts that request r has are of the handle that it listed.
Collects(r) ==
  r.pc \in Working =>
    /\ Handle(r) \in AllHandles
    /\ \A e \in DOMAIN r.parts : r.parts[e] \in {Handle(r), None}
    /\ r.parts # <<>> => r.parts[1] = Handle(r)
    /\ r.pc \in {"ask", "asked"} => Len(r.parts) < Endpoints[r.platform]
    /\ r.pc \in {"insert", "stamp"} => Len(r.parts) = Endpoints[r.platform] /\ r.at # 0

Stored(table, u, pl, h, t) == \E row \in table[u][pl] : row.at = t /\ row.handle = h

\* What request r has saved in the table of snapshots, and what it has left to do.
Records(table, r) ==
  r.pc \in SyncStages =>
    /\ \A pl \in Platform :
         /\ r.todo[pl] \in {r.listed[pl], None}
         /\ r.saved[pl] # 0 => Stored(table, r.user, pl, r.listed[pl], r.saved[pl])
         /\ r.listed[pl] # None /\ r.todo[pl] = None => pl \in r.failed \/ r.saved[pl] # 0
    /\ r.pc = "stamp" => Stored(table, r.user, r.platform, r.listed[r.platform], r.at)

JobsOK ==
  /\ req \in [Requests -> Request]
  /\ \A p \in Requests : Collects(req[p]) /\ Records(stats, req[p])

\* The inductive invariant.
PlatformsInv == TablesOK /\ JobsOK

-----------------------------------------------------------------------------
(* What a request is.                                                      *)

LEMMA IdleType == Idle \in Request /\ Idle.pc = "idle"
BY DEF Idle, Request

\* What kind of record a request is, by its stage.
LEMMA WorkingType ==
  ASSUME NEW r \in Request, r.pc \in Working
  PROVE  r.platform \in Platform /\ r \in Syncing(r.platform)
<1>1. r # Idle /\ r \notin Looping
  BY DEF Working, Idle, Looping
<1>2. r \notin [pc : {"connect", "clear", "delete"}, user : Users, platform : Platform,
                handle : AllHandles]
  BY DEF Working
<1>3. PICK pl \in Platform : r \in Syncing(pl)
  BY <1>1, <1>2 DEF Request
<1> QED BY <1>3 DEF Syncing

LEMMA LoopingType ==
  ASSUME NEW r \in Request, r.pc = "sync"
  PROVE  r \in Looping
<1>1. r # Idle
  BY DEF Idle
<1>2. ASSUME NEW pl \in Platform PROVE r \notin Syncing(pl)
  BY DEF Syncing
<1> QED BY <1>1, <1>2 DEF Request

LEMMA AccountType ==
  ASSUME NEW r \in Request, r.pc \in {"connect", "clear", "delete"}
  PROVE  /\ r \in [pc : {"connect", "clear", "delete"}, user : Users, platform : Platform,
                   handle : AllHandles]
<1>1. r # Idle /\ r \notin Looping
  BY DEF Idle, Looping
<1>2. ASSUME NEW pl \in Platform PROVE r \notin Syncing(pl)
  BY DEF Syncing
<1> QED BY <1>1, <1>2 DEF Request

\* A request that is at no stage of a sync has nothing to answer for.
LEMMA OtherStage ==
  ASSUME NEW r, r.pc \notin SyncStages
  PROVE  Collects(r) /\ \A table : Records(table, r)
BY DEF SyncStages, Collects, Records

\* One more answer.
LEMMA PartsAppend ==
  ASSUME NEW pl \in Platform, NEW parts \in Parts(pl), Len(parts) < Endpoints[pl],
         NEW answer \in Answers
  PROVE  /\ Len(parts) \in Nat /\ DOMAIN parts = 1..Len(parts)
         /\ Append(parts, answer) \in Parts(pl)
         /\ Append(parts, answer) # <<>>
         /\ Len(Append(parts, answer)) = Len(parts) + 1
         /\ DOMAIN Append(parts, answer) = 1..Len(parts) + 1
         /\ \A e \in 1..Len(parts) : Append(parts, answer)[e] = parts[e]
         /\ Append(parts, answer)[Len(parts) + 1] = answer
<1>1. PICK n \in 0..Endpoints[pl] : parts \in [1..n -> Answers]
  BY DEF Parts
<1>2. Endpoints[pl] \in Nat \ {0}
  BY PlatformsAssumption
<1>3. n \in Nat /\ parts \in Seq(Answers) /\ Len(parts) = n
  BY <1>1, <1>2
<1>4. /\ Append(parts, answer) \in Seq(Answers)
      /\ Append(parts, answer) # <<>>
      /\ Len(Append(parts, answer)) = n + 1
      /\ \A e \in 1..n : Append(parts, answer)[e] = parts[e]
      /\ Append(parts, answer)[n + 1] = answer
  BY <1>3, AppendProperties
<1>5. /\ Append(parts, answer) \in [1..n + 1 -> Answers]
      /\ DOMAIN Append(parts, answer) = 1..n + 1
  BY <1>4, LenProperties
<1>6. n + 1 \in 0..Endpoints[pl]
  BY <1>1, <1>2, <1>3
<1>7. Append(parts, answer) \in Parts(pl)
  BY <1>5, <1>6 DEF Parts
<1> QED BY <1>1, <1>3, <1>4, <1>5, <1>7

\* The loop goes on with the next account.
LEMMA AdvancedType ==
  ASSUME NEW pl \in Platform, NEW r \in Syncing(pl)
  PROVE  /\ Advanced(r) \in Looping
         /\ Advanced(r).pc = "sync" /\ Advanced(r).user = r.user
         /\ Advanced(r).listed = r.listed
         /\ Advanced(r).todo = [r.todo EXCEPT ![pl] = None]
         /\ Advanced(r).saved = r.saved /\ Advanced(r).failed = r.failed
<1>1. r.platform = pl /\ r.todo \in Listing
  BY DEF Syncing
<1>2. [r.todo EXCEPT ![pl] = None] \in Listing
  BY <1>1 DEF Listing, Answers
<1> QED BY <1>1, <1>2 DEF Advanced, Syncing, Looping

\* What a sync knows at every stage.
LEMMA StageType ==
  ASSUME NEW r \in Request, r.pc \in SyncStages
  PROVE  /\ r.user \in Users /\ r.listed \in Listing /\ r.todo \in Listing
         /\ r.saved \in Times /\ r.failed \in SUBSET Platform
<1>1. CASE r.pc = "sync"
  BY <1>1, LoopingType DEF Looping
<1>2. CASE r.pc \in Working
  BY <1>2, WorkingType DEF Syncing
<1> QED BY <1>1, <1>2 DEF SyncStages

\* Snapshots are only ever added.
Grows(table, new) == \A u \in Users, pl \in Platform : table[u][pl] \subseteq new[u][pl]

LEMMA RecordsGrow ==
  ASSUME NEW r \in Request, NEW table, NEW new, Grows(table, new), Records(table, r)
  PROVE  Records(new, r)
<1> SUFFICES ASSUME r.pc \in SyncStages PROVE Records(new, r)
  BY DEF Records
<1>1. r.user \in Users
  BY StageType
<1>2. ASSUME NEW pl \in Platform, NEW h, NEW t, Stored(table, r.user, pl, h, t)
      PROVE  Stored(new, r.user, pl, h, t)
  BY <1>1, <1>2 DEF Grows, Stored
<1>3. r.pc = "stamp" => r.platform \in Platform
  BY WorkingType DEF Working
<1> QED BY <1>2, <1>3 DEF Records

\* A step of one request.
LEMMA JobStep ==
  ASSUME JobsOK, NEW p \in Requests, NEW x \in Request, req' = [req EXCEPT ![p] = x],
         Grows(stats, stats'), Collects(x), Records(stats', x)
  PROVE  JobsOK'
<1>1. req' \in [Requests -> Request] /\ req'[p] = x
  BY DEF JobsOK
<1>2. ASSUME NEW q \in Requests PROVE Collects(req'[q]) /\ Records(stats', req'[q])
  <2>1. CASE q = p
    BY <1>1, <2>1
  <2>2. CASE q # p
    <3>1. req'[q] = req[q] /\ req[q] \in Request
      BY <2>2 DEF JobsOK
    <3>2. Collects(req[q]) /\ Records(stats, req[q])
      BY DEF JobsOK
    <3> QED BY <3>1, <3>2, RecordsGrow
  <2> QED BY <2>1, <2>2
<1> QED BY <1>1, <1>2 DEF JobsOK, Collects, Records, Handle, Stored

\* The same when the table of snapshots is left alone.
LEMMA QuietJob ==
  ASSUME JobsOK, NEW p \in Requests, NEW x \in Request, req' = [req EXCEPT ![p] = x],
         UNCHANGED stats, Collects(x), Records(stats, x)
  PROVE  JobsOK'
<1>1. Grows(stats, stats') /\ Records(stats', x)
  BY DEF Grows
<1> QED BY <1>1, JobStep

LEMMA EndJob ==
  ASSUME JobsOK, NEW p \in Requests, End(p), UNCHANGED stats
  PROVE  JobsOK'
<1>1. Collects(Idle) /\ Records(stats, Idle)
  BY OtherStage, IdleType DEF SyncStages, Working
<1> QED BY <1>1, QuietJob, IdleType DEF End

\* Tables that a step leaves alone.
LEMMA SameTables ==
  ASSUME TablesOK
  PROVE  /\ UNCHANGED accounts => AccountsOK'
         /\ UNCHANGED stats => StatsOK'
         /\ UNCHANGED cache => CacheOK'
         /\ UNCHANGED clock => ClockOK'
         /\ UNCHANGED <<stats, announced>> => AnnouncedOK'
<1>1. UNCHANGED accounts => AccountsOK'
  BY DEF TablesOK, AccountsOK
<1>2. UNCHANGED stats => StatsOK'
  <2> SUFFICES ASSUME UNCHANGED stats PROVE StatsOK'
    OBVIOUS
  <2>1. StatsOK
    BY DEF TablesOK
  <2>2. SnapshotsAreOfOneHandle' /\ HasLatest'
    BY <2>1 DEF StatsOK, SnapshotsAreOfOneHandle, HasLatest
  <2>3. IsMap(stats, Users)' /\ \A u \in Users : IsMap(stats[u], Platform)'
    BY <2>1 DEF StatsOK, IsMap
  <2> QED BY <2>1, <2>2, <2>3 DEF StatsOK
<1>3. UNCHANGED cache => CacheOK'
  BY DEF TablesOK, CacheOK, CacheOfHandle, IsMap
<1>4. UNCHANGED clock => ClockOK'
  BY DEF TablesOK, ClockOK
<1>5. UNCHANGED <<stats, announced>> => AnnouncedOK'
  BY DEF TablesOK, AnnouncedOK
<1> QED BY <1>1, <1>2, <1>3, <1>4, <1>5

-----------------------------------------------------------------------------
(* Connect and Disconnect.                                                 *)

LEMMA HandleIsKnown ==
  ASSUME NEW pl \in Platform, NEW h \in Handles[pl]
  PROVE  h \in AllHandles
BY DEF AllHandles

LEMMA ConnectStep ==
  ASSUME PlatformsInv, NEW p \in Requests,
         \/ \E u \in Users, pl \in Platform : \E h \in Handles[pl] : ConnectCheck(p, u, pl, h)
         \/ ConnectSave(p)
  PROVE  PlatformsInv'
<1> USE DEF PlatformsInv
<1>1. CASE \E u \in Users, pl \in Platform : \E h \in Handles[pl] : ConnectCheck(p, u, pl, h)
  <2>1. PICK u \in Users, pl \in Platform : \E h \in Handles[pl] : ConnectCheck(p, u, pl, h)
    BY <1>1
  <2>2. PICK h \in Handles[pl] : ConnectCheck(p, u, pl, h)
    BY <2>1
  <2> DEFINE x == [pc |-> "connect", user |-> u, platform |-> pl, handle |-> h]
  <2>3. x \in Request /\ x.pc = "connect"
    BY HandleIsKnown DEF Request
  <2>4. Collects(x) /\ Records(stats, x)
    BY <2>3, OtherStage DEF SyncStages, Working
  <2>5. JobsOK'
    BY <2>2, <2>3, <2>4, QuietJob DEF ConnectCheck, Begin, tables
  <2>6. TablesOK'
    BY <2>2, SameTables DEF ConnectCheck, tables, TablesOK
  <2> QED BY <2>5, <2>6
<1>2. CASE ConnectSave(p)
  <2> DEFINE r == req[p]
  <2>1. r \in Request /\ r.pc = "connect"
    BY <1>2 DEF ConnectSave, JobsOK
  <2>2. r.user \in Users /\ r.platform \in Platform /\ r.handle \in AllHandles
    BY <2>1, AccountType
  <2>3. AccountsOK'
    BY <1>2, <2>2 DEF ConnectSave, TablesOK, AccountsOK, Listing, Answers
  <2>4. TablesOK'
    BY <1>2, <2>3, SameTables DEF ConnectSave, TablesOK
  <2> QED BY <1>2, <2>4, EndJob DEF ConnectSave
<1> QED BY <1>1, <1>2

LEMMA DisconnectStep ==
  ASSUME PlatformsInv, NEW p \in Requests,
         \/ \E u \in Users, pl \in Platform : DisconnectFind(p, u, pl)
         \/ DisconnectClear(p)
         \/ DisconnectDelete(p)
  PROVE  PlatformsInv'
<1> USE DEF PlatformsInv
<1>1. CASE \E u \in Users, pl \in Platform : DisconnectFind(p, u, pl)
  <2>1. PICK u \in Users, pl \in Platform : DisconnectFind(p, u, pl)
    BY <1>1
  <2> DEFINE x == [pc |-> "clear", user |-> u, platform |-> pl, handle |-> accounts[u][pl]]
  <2>2. accounts[u][pl] \in AllHandles
    BY <2>1 DEF DisconnectFind, TablesOK, AccountsOK, Listing, Answers
  <2>3. x \in Request /\ x.pc = "clear"
    BY <2>2 DEF Request
  <2>4. Collects(x) /\ Records(stats, x)
    BY <2>3, OtherStage DEF SyncStages, Working
  <2>5. JobsOK'
    BY <2>1, <2>3, <2>4, QuietJob DEF DisconnectFind, Begin, tables
  <2>6. TablesOK'
    BY <2>1, SameTables DEF DisconnectFind, tables, TablesOK
  <2> QED BY <2>5, <2>6
<1>2. CASE DisconnectClear(p)
  <2> DEFINE r == req[p]
             x == [r EXCEPT !.pc = "delete"]
  <2>1. r \in Request /\ r.pc = "clear"
    BY <1>2 DEF DisconnectClear, JobsOK
  <2>2. /\ r \in [pc : {"connect", "clear", "delete"}, user : Users, platform : Platform,
                  handle : AllHandles]
    BY <2>1, AccountType
  <2>3. x \in Request /\ x.pc = "delete"
    BY <2>2 DEF Request
  <2>4. Collects(x) /\ Records(stats, x)
    BY <2>3, OtherStage DEF SyncStages, Working
  <2>5. req' = [req EXCEPT ![p] = x]
    BY <1>2 DEF DisconnectClear, JobsOK
  <2>6. JobsOK'
    BY <1>2, <2>3, <2>4, <2>5, QuietJob DEF DisconnectClear, tables
  <2>7. CacheOK'
    <3> DEFINE pl == r.platform
               h == r.handle
    <3>1. CASE UNCHANGED cache
      BY <3>1, SameTables
    <3>2. CASE cache' = [cache EXCEPT ![pl] =
                          [e \in 1..Endpoints[pl] |->
                             IF e \in Cleared[pl] THEN [@[e] EXCEPT ![h] = None] ELSE @[e]]]
      <4>1. CacheOK /\ pl \in Platform /\ h \in AllHandles
        BY <2>2 DEF TablesOK
      <4> DEFINE new == [e \in 1..Endpoints[pl] |->
                           IF e \in Cleared[pl] THEN [cache[pl][e] EXCEPT ![h] = None]
                           ELSE cache[pl][e]]
      <4>2. cache' = [cache EXCEPT ![pl] = new]
        BY <3>2
      <4>3. /\ new \in [1..Endpoints[pl] -> [AllHandles -> Answers]]
            /\ \A e \in 1..Endpoints[pl], g \in AllHandles : new[e][g] \in {g, None}
        BY <4>1 DEF CacheOK, CacheOfHandle, Answers
      <4> HIDE DEF new
      <4>4. IsMap(cache, Platform)'
        BY <4>1, <4>2 DEF CacheOK, IsMap
      <4>5. \A q \in Platform : cache'[q] = IF q = pl THEN new ELSE cache[q]
        BY <4>1, <4>2 DEF CacheOK, IsMap
      <4> QED BY <4>1, <4>3, <4>4, <4>5 DEF CacheOK, CacheOfHandle
    <3> QED BY <1>2, <3>1, <3>2 DEF DisconnectClear
  <2>8. TablesOK'
    BY <1>2, <2>7, SameTables DEF DisconnectClear, tables, TablesOK
  <2> QED BY <2>6, <2>8
<1>3. CASE DisconnectDelete(p)
  <2> DEFINE r == req[p]
  <2>1. r \in Request /\ r.pc = "delete"
    BY <1>3 DEF DisconnectDelete, JobsOK
  <2>2. r.user \in Users /\ r.platform \in Platform
    BY <2>1, AccountType
  <2>3. AccountsOK'
    BY <1>3, <2>2 DEF DisconnectDelete, TablesOK, AccountsOK, Listing, Answers
  <2>4. TablesOK'
    BY <1>3, <2>3, SameTables DEF DisconnectDelete, TablesOK
  <2> QED BY <1>3, <2>4, EndJob DEF DisconnectDelete
<1> QED BY <1>1, <1>2, <1>3

LEMMA FailStep ==
  ASSUME PlatformsInv, NEW p \in Requests, Fail(p)
  PROVE  PlatformsInv'
<1>1. TablesOK'
  BY SameTables DEF PlatformsInv, Fail, tables, TablesOK
<1> QED BY <1>1, EndJob DEF PlatformsInv, Fail, tables

-----------------------------------------------------------------------------
(* SyncAll.                                                                *)

LEMMA SyncListStep ==
  ASSUME PlatformsInv, NEW p \in Requests, NEW u \in Users, SyncList(p, u)
  PROVE  PlatformsInv'
<1> DEFINE x == [pc |-> "sync", user |-> u, listed |-> accounts[u], todo |-> accounts[u],
                 platform |-> None, parts |-> <<>>, at |-> 0,
                 saved |-> [pl \in Platform |-> 0], failed |-> {}]
<1>1. accounts[u] \in Listing /\ [pl \in Platform |-> 0] \in Times
  BY PlatformsAssumption DEF PlatformsInv, TablesOK, AccountsOK, Times
<1>2. x \in Looping
  BY <1>1 DEF Looping
<1>3. x \in Request
  BY <1>2 DEF Request
<1>4. Collects(x)
  BY DEF Collects, Working
<1>5. Records(stats, x)
  BY DEF Records
<1>6. JobsOK'
  BY <1>3, <1>4, <1>5, QuietJob DEF PlatformsInv, SyncList, Begin, tables
<1>7. TablesOK'
  BY SameTables DEF PlatformsInv, SyncList, tables, TablesOK
<1> QED BY <1>6, <1>7 DEF PlatformsInv

LEMMA SyncNextStep ==
  ASSUME PlatformsInv, NEW p \in Requests, NEW pl \in Platform, SyncNext(p, pl)
  PROVE  PlatformsInv'
<1> DEFINE r == req[p]
           x == [r EXCEPT !.pc = "ask", !.platform = pl]
<1>1. r \in Request /\ r.pc = "sync" /\ r.todo[pl] # None /\ Records(stats, r)
  BY DEF PlatformsInv, JobsOK, SyncNext
<1>2. r \in Looping
  BY <1>1, LoopingType
<1>3. Endpoints[pl] \in Nat \ {0}
  BY PlatformsAssumption
<1>4. <<>> \in Parts(pl) /\ 0 \in 0..MaxClock
  BY <1>3, PlatformsAssumption DEF Parts
<1>5. x \in Syncing(pl)
  BY <1>2, <1>4 DEF Looping, Syncing
<1>6. x \in Request
  BY <1>5 DEF Request
<1>7. /\ x.pc = "ask" /\ x.platform = pl /\ x.parts = <<>> /\ x.user = r.user
      /\ x.listed = r.listed /\ x.todo = r.todo /\ x.saved = r.saved /\ x.failed = r.failed
  BY <1>2 DEF Looping
<1>8. Handle(x) \in AllHandles
  BY <1>1, <1>2, <1>7 DEF Handle, Looping, Listing, Answers
<1>9. Collects(x)
  BY <1>3, <1>7, <1>8 DEF Collects
<1>10. Records(stats, x)
  BY <1>1, <1>7 DEF Records, SyncStages, Working
<1>11. req' = [req EXCEPT ![p] = x]
  BY DEF SyncNext, PlatformsInv, JobsOK
<1>12. JobsOK'
  BY <1>6, <1>9, <1>10, <1>11, QuietJob DEF PlatformsInv, SyncNext, tables
<1>13. TablesOK'
  BY SameTables DEF PlatformsInv, SyncNext, tables, TablesOK
<1> QED BY <1>12, <1>13 DEF PlatformsInv

\* What a request that is at work on one platform is.
LEMMA AtWork ==
  ASSUME JobsOK, NEW p \in Requests, req[p].pc \in Working
  PROVE  /\ req[p].platform \in Platform /\ req[p] \in Syncing(req[p].platform)
         /\ req[p].user \in Users /\ req[p].todo \in Listing
         /\ req[p].parts \in Parts(req[p].platform)
         /\ Handle(req[p]) \in AllHandles
         /\ Collects(req[p]) /\ Records(stats, req[p])
<1>1. req[p] \in Request /\ Collects(req[p]) /\ Records(stats, req[p])
  BY DEF JobsOK
<1>2. req[p].platform \in Platform /\ req[p] \in Syncing(req[p].platform)
  BY <1>1, WorkingType
<1> QED BY <1>1, <1>2 DEF Collects, Syncing

\* The answer of an endpoint, of the handle or missing.
LEMMA GotStep ==
  ASSUME JobsOK, ClockOK, NEW p \in Requests, req[p].pc \in {"ask", "asked"},
         NEW answer \in {Handle(req[p]), None},
         Endpoint(req[p]) = 1 => answer = Handle(req[p]),
         Got(p, answer), UNCHANGED stats
  PROVE  JobsOK' /\ ClockOK'
<1> DEFINE r == req[p]
           pl == r.platform
           y == [r EXCEPT !.parts = Append(@, answer)]
<1>1. /\ pl \in Platform /\ r \in Syncing(pl) /\ r.parts \in Parts(pl)
      /\ Handle(r) \in AllHandles /\ Collects(r) /\ Records(stats, r)
  BY AtWork DEF Working
<1>2. Len(r.parts) < Endpoints[pl]
  BY <1>1 DEF Collects, Working
<1>3. answer \in Answers
  BY <1>1 DEF Answers
<1> DEFINE parts == Append(r.parts, answer)
<1>4. /\ Len(r.parts) \in Nat /\ DOMAIN r.parts = 1..Len(r.parts)
      /\ parts \in Parts(pl) /\ parts # <<>>
      /\ Len(parts) = Len(r.parts) + 1 /\ DOMAIN parts = 1..Len(r.parts) + 1
      /\ \A e \in 1..Len(r.parts) : parts[e] = r.parts[e]
      /\ parts[Len(r.parts) + 1] = answer
  BY <1>1, <1>2, <1>3, PartsAppend
<1>5. y.parts = parts /\ y.platform = pl
  BY <1>1 DEF Syncing
<1>6. /\ \A e \in DOMAIN parts : parts[e] \in {Handle(r), None}
      /\ parts[1] = Handle(r)
  <2>1. \A e \in 1..Len(r.parts) : r.parts[e] \in {Handle(r), None}
    BY <1>1, <1>4 DEF Collects, Working
  <2>2. Len(r.parts) = 0 => answer = Handle(r)
    BY DEF Endpoint
  <2>3. Len(r.parts) # 0 => r.parts # <<>>
    OBVIOUS
  <2>4. Len(r.parts) # 0 => r.parts[1] = Handle(r)
    BY <1>1, <2>3 DEF Collects, Working
  <2> QED BY <1>4, <2>1, <2>2, <2>4
<1> HIDE DEF parts
<1>7. \E x \in Syncing(pl) :
        /\ req' = [req EXCEPT ![p] = x] /\ ClockOK'
        /\ x.parts = parts /\ x.user = r.user /\ x.listed = r.listed /\ x.todo = r.todo
        /\ x.saved = r.saved /\ x.failed = r.failed
        /\ \/ x.pc = "ask" /\ Len(parts) < Endpoints[pl]
           \/ x.pc = "insert" /\ Len(parts) = Endpoints[pl] /\ x.at # 0
  <2>1. CASE Len(parts) < Endpoints[pl]
    <3> DEFINE x == [y EXCEPT !.pc = "ask"]
    <3>1. req' = [req EXCEPT ![p] = x] /\ UNCHANGED clock
      BY <2>1, <1>5 DEF Got
    <3>2. x \in Syncing(pl) /\ x.pc = "ask" /\ x.parts = parts
      BY <1>1, <1>4, <1>5 DEF Syncing
    <3>3. /\ x.user = r.user /\ x.listed = r.listed /\ x.todo = r.todo
          /\ x.saved = r.saved /\ x.failed = r.failed
      BY <1>1 DEF Syncing
    <3> QED BY <2>1, <3>1, <3>2, <3>3 DEF ClockOK
  <2>2. CASE ~(Len(parts) < Endpoints[pl])
    <3> DEFINE x == [y EXCEPT !.pc = "insert", !.at = clock + 1]
    <3>1. /\ req' = [req EXCEPT ![p] = x] /\ clock < MaxClock /\ clock' = clock + 1
      BY <2>2, <1>5 DEF Got
    <3>2. /\ ClockOK' /\ clock + 1 \in 0..MaxClock /\ clock + 1 # 0
      BY <3>1, PlatformsAssumption DEF ClockOK
    <3>3. x \in Syncing(pl) /\ x.pc = "insert" /\ x.parts = parts /\ x.at = clock + 1
      BY <1>1, <1>4, <1>5, <3>2 DEF Syncing
    <3>4. /\ x.user = r.user /\ x.listed = r.listed /\ x.todo = r.todo
          /\ x.saved = r.saved /\ x.failed = r.failed
      BY <1>1 DEF Syncing
    <3>5. Endpoints[pl] \in Nat
      BY <1>1, PlatformsAssumption
    <3>6. Len(parts) = Endpoints[pl]
      BY <1>2, <1>4, <2>2, <3>5
    <3> QED BY <3>1, <3>2, <3>3, <3>4, <3>6
  <2> QED BY <2>1, <2>2
<1>8. PICK x \in Syncing(pl) :
        /\ req' = [req EXCEPT ![p] = x] /\ ClockOK'
        /\ x.parts = parts /\ x.user = r.user /\ x.listed = r.listed /\ x.todo = r.todo
        /\ x.saved = r.saved /\ x.failed = r.failed
        /\ \/ x.pc = "ask" /\ Len(parts) < Endpoints[pl]
           \/ x.pc = "insert" /\ Len(parts) = Endpoints[pl] /\ x.at # 0
  BY <1>7
<1>9. x.platform = pl /\ Handle(x) = Handle(r)
  BY <1>8 DEF Syncing, Handle
<1>10. Collects(x)
  BY <1>1, <1>6, <1>8, <1>9 DEF Collects
<1>11. Records(stats, x)
  BY <1>1, <1>8 DEF Records, SyncStages, Working
<1>12. x \in Request
  BY <1>1 DEF Request
<1> QED BY <1>8, <1>10, <1>11, <1>12, QuietJob

\* The endpoint that is asked next.
LEMMA EndpointRange ==
  ASSUME JobsOK, NEW p \in Requests, req[p].pc \in {"ask", "asked"}
  PROVE  Endpoint(req[p]) \in 1..Endpoints[req[p].platform]
<1>1. /\ req[p].platform \in Platform /\ req[p].parts \in Parts(req[p].platform)
      /\ Collects(req[p])
  BY AtWork DEF Working
<1>2. Len(req[p].parts) < Endpoints[req[p].platform]
  BY <1>1 DEF Collects, Working
<1>3. Len(req[p].parts) \in Nat /\ Endpoints[req[p].platform] \in Nat
  BY <1>1, <1>2, PartsAppend, PlatformsAssumption DEF Answers
<1> QED BY <1>2, <1>3 DEF Endpoint

LEMMA CacheHitStep ==
  ASSUME PlatformsInv, NEW p \in Requests, CacheHit(p)
  PROVE  PlatformsInv'
<1> DEFINE r == req[p]
           answer == cache[r.platform][Endpoint(r)][Key(Handle(r))]
<1>1. /\ r.pc = "ask" /\ answer # None /\ Got(p, answer)
      /\ UNCHANGED <<accounts, stats, cache, announced>>
  BY DEF CacheHit, tables
<1>2. r.platform \in Platform /\ Handle(r) \in AllHandles
  BY <1>1, AtWork DEF PlatformsInv, Working
<1>3. Endpoint(r) \in 1..Endpoints[r.platform]
  BY <1>1, EndpointRange DEF PlatformsInv
<1>4. answer = Handle(r)
  BY <1>1, <1>2, <1>3 DEF PlatformsInv, TablesOK, CacheOK, CacheOfHandle, Key
<1>5. JobsOK' /\ ClockOK'
  BY <1>1, <1>4, GotStep DEF PlatformsInv, TablesOK
<1>6. TablesOK'
  BY <1>1, <1>5, SameTables DEF PlatformsInv, TablesOK
<1> QED BY <1>5, <1>6 DEF PlatformsInv

LEMMA CacheMissStep ==
  ASSUME PlatformsInv, NEW p \in Requests, CacheMiss(p)
  PROVE  PlatformsInv'
<1> DEFINE r == req[p]
           x == [r EXCEPT !.pc = "asked"]
<1>1. r.pc = "ask"
  BY DEF CacheMiss
<1>2. r.platform \in Platform /\ r \in Syncing(r.platform) /\ Collects(r) /\ Records(stats, r)
  BY <1>1, AtWork DEF PlatformsInv, Working
<1>3. /\ x \in Syncing(r.platform) /\ x.pc = "asked" /\ x.platform = r.platform
      /\ x.parts = r.parts /\ x.user = r.user /\ x.listed = r.listed
      /\ x.todo = r.todo /\ x.saved = r.saved /\ x.failed = r.failed
  BY <1>2 DEF Syncing
<1>4. x \in Request
  BY <1>2, <1>3 DEF Request
<1>5. Collects(x)
  BY <1>1, <1>2, <1>3 DEF Collects, Handle, Working
<1>6. Records(stats, x)
  BY <1>1, <1>2, <1>3 DEF Records, SyncStages, Working
<1>7. req' = [req EXCEPT ![p] = x]
  BY DEF CacheMiss, PlatformsInv, JobsOK
<1>8. JobsOK'
  BY <1>4, <1>5, <1>6, <1>7, QuietJob DEF PlatformsInv, CacheMiss, tables
<1>9. TablesOK'
  BY SameTables DEF PlatformsInv, CacheMiss, tables, TablesOK
<1> QED BY <1>8, <1>9 DEF PlatformsInv

\* What is stored under a handle was answered for it.
LEMMA CacheWrite ==
  ASSUME CacheOK, NEW pl \in Platform, NEW e \in 1..Endpoints[pl], NEW h \in AllHandles,
         cache' = [cache EXCEPT ![pl][e][h] = h]
  PROVE  CacheOK'
<1> DEFINE new == [cache[pl] EXCEPT ![e][h] = h]
<1>1. cache' = [cache EXCEPT ![pl] = new]
  OBVIOUS
<1>2. cache[pl] \in [1..Endpoints[pl] -> [AllHandles -> Answers]]
  BY DEF CacheOK
<1>3. /\ new \in [1..Endpoints[pl] -> [AllHandles -> Answers]]
      /\ \A d \in 1..Endpoints[pl], g \in AllHandles : new[d][g] \in {g, None}
  BY <1>2 DEF CacheOK, CacheOfHandle, Answers
<1> HIDE DEF new
<1>4. IsMap(cache, Platform)' /\ \A q \in Platform : cache'[q] = IF q = pl THEN new ELSE cache[q]
  BY <1>1 DEF CacheOK, IsMap
<1> QED BY <1>3, <1>4 DEF CacheOK, CacheOfHandle

LEMMA UpstreamStep ==
  ASSUME PlatformsInv, NEW p \in Requests, Upstream(p)
  PROVE  PlatformsInv'
<1> DEFINE r == req[p]
<1>1. /\ r.pc = "asked" /\ Got(p, Handle(r)) /\ UNCHANGED <<accounts, stats, announced>>
      /\ cache' = [cache EXCEPT ![r.platform][Endpoint(r)][Handle(r)] = Handle(r)]
  BY DEF Upstream, Key, tables
<1>2. r.platform \in Platform /\ Handle(r) \in AllHandles
  BY <1>1, AtWork DEF PlatformsInv, Working
<1>3. Endpoint(r) \in 1..Endpoints[r.platform]
  BY <1>1, EndpointRange DEF PlatformsInv
<1>4. CacheOK'
  BY <1>1, <1>2, <1>3, CacheWrite DEF PlatformsInv, TablesOK
<1>5. JobsOK' /\ ClockOK'
  BY <1>1, GotStep DEF PlatformsInv, TablesOK
<1>6. TablesOK'
  BY <1>1, <1>4, <1>5, SameTables DEF PlatformsInv, TablesOK
<1> QED BY <1>5, <1>6 DEF PlatformsInv

\* The sync of a platform that fails is reported, and the loop goes on.
LEMMA GiveUpStep ==
  ASSUME JobsOK, NEW p \in Requests, req[p].pc \in Working, GiveUp(p), UNCHANGED stats
  PROVE  JobsOK'
<1> DEFINE r == req[p]
           pl == r.platform
           y == Advanced(r)
           x == [y EXCEPT !.failed = @ \cup {pl}]
<1>1. pl \in Platform /\ r \in Syncing(pl) /\ Records(stats, r)
  BY AtWork
<1>2. /\ y \in Looping /\ y.pc = "sync" /\ y.user = r.user
      /\ y.listed = r.listed /\ y.todo = [r.todo EXCEPT ![pl] = None]
      /\ y.saved = r.saved /\ y.failed = r.failed
  BY <1>1, AdvancedType
<1> HIDE DEF y
<1>3. /\ x \in Looping /\ x.pc = "sync" /\ x.user = r.user
      /\ x.listed = r.listed /\ x.todo = [r.todo EXCEPT ![pl] = None]
      /\ x.saved = r.saved /\ x.failed = r.failed \cup {pl}
  BY <1>1, <1>2 DEF Looping
<1>4. req' = [req EXCEPT ![p] = x]
  BY DEF GiveUp, y
<1> HIDE DEF x
<1>5. x \in Request
  BY <1>3 DEF Request
<1>6. Collects(x)
  BY <1>3 DEF Collects, Working
<1>7. Records(stats, x)
  <2>1. r.todo \in Listing
    BY <1>1 DEF Syncing
  <2>2. \A q \in Platform : x.todo[q] = IF q = pl THEN None ELSE r.todo[q]
    BY <1>3, <2>1 DEF Listing
  <2> QED BY <1>1, <1>3, <2>2 DEF Records, SyncStages, Working
<1> QED BY <1>4, <1>5, <1>6, <1>7, QuietJob

LEMMA UpstreamFailsStep ==
  ASSUME PlatformsInv, NEW p \in Requests, UpstreamFails(p)
  PROVE  PlatformsInv'
<1>1. req[p].pc = "asked" /\ UNCHANGED <<accounts, stats, cache, announced>>
  BY DEF UpstreamFails, tables
<1>2. CASE GiveUp(p) /\ UNCHANGED clock
  <2>1. JobsOK'
    BY <1>1, <1>2, GiveUpStep DEF PlatformsInv, Working
  <2>2. TablesOK'
    BY <1>1, <1>2, SameTables DEF PlatformsInv, TablesOK
  <2> QED BY <2>1, <2>2 DEF PlatformsInv
<1>3. CASE Endpoint(req[p]) # 1 /\ Got(p, None)
  <2>1. JobsOK' /\ ClockOK'
    BY <1>1, <1>3, GotStep DEF PlatformsInv, TablesOK
  <2>2. TablesOK'
    BY <1>1, <2>1, SameTables DEF PlatformsInv, TablesOK
  <2> QED BY <2>1, <2>2 DEF PlatformsInv
<1> QED BY <1>2, <1>3 DEF UpstreamFails

LEMMA SyncWriteFailsStep ==
  ASSUME PlatformsInv, NEW p \in Requests, SyncWriteFails(p)
  PROVE  PlatformsInv'
<1>1. JobsOK'
  BY GiveUpStep DEF PlatformsInv, SyncWriteFails, Working, tables
<1>2. TablesOK'
  BY SameTables DEF PlatformsInv, SyncWriteFails, tables, TablesOK
<1> QED BY <1>1, <1>2 DEF PlatformsInv

\* A new row leaves the table of snapshots in order, and grown.
LEMMA InsertRow ==
  ASSUME StatsOK, NEW u \in Users, NEW pl \in Platform, NEW row \in Snapshot(pl),
         row.parts[1] = row.handle,
         \A e \in 1..Endpoints[pl] : row.parts[e] \in {row.handle, None},
         stats' = [stats EXCEPT ![u][pl] = @ \cup {row}]
  PROVE  StatsOK' /\ Grows(stats, stats') /\ row \in stats'[u][pl]
<1>1. /\ IsMap(stats, Users)' /\ \A v \in Users : IsMap(stats[v], Platform)'
      /\ \A v \in Users, q \in Platform :
           stats'[v][q] = IF v = u /\ q = pl THEN stats[v][q] \cup {row} ELSE stats[v][q]
  BY DEF StatsOK, IsMap
<1>2. (\A v \in Users, q \in Platform : \A w \in stats[v][q] : w \in Snapshot(q))'
  BY <1>1 DEF StatsOK, Snapshot
<1>3. SnapshotsAreOfOneHandle'
  BY <1>1 DEF StatsOK, SnapshotsAreOfOneHandle
<1>4. HasLatest'
  <2> SUFFICES ASSUME NEW v \in Users, NEW q \in Platform, stats'[v][q] # {}
               PROVE  \E w \in stats'[v][q] : \A other \in stats'[v][q] : other.at <= w.at
    BY DEF HasLatest
  <2>1. CASE ~(v = u /\ q = pl)
    BY <1>1, <2>1 DEF StatsOK, HasLatest
  <2>2. CASE v = u /\ q = pl
    <3>1. stats'[u][pl] = stats[u][pl] \cup {row}
      BY <1>1
    <3>2. MaxClock \in Nat
      BY PlatformsAssumption
    <3>3. \A w \in stats[u][pl] \cup {row} : w.at \in Int
      BY <3>2 DEF StatsOK, Snapshot
    <3>4. CASE stats[u][pl] = {}
      BY <2>2, <3>1, <3>3, <3>4
    <3>5. CASE stats[u][pl] # {}
      <4>1. PICK w \in stats[u][pl] : \A other \in stats[u][pl] : other.at <= w.at
        BY <3>5 DEF StatsOK, HasLatest
      <4>2. CASE row.at <= w.at
        BY <2>2, <3>1, <4>1, <4>2
      <4>3. CASE ~(row.at <= w.at)
        <5>1. \A other \in stats[u][pl] \cup {row} : other.at <= row.at
          BY <3>3, <4>1, <4>3
        <5> QED BY <2>2, <3>1, <5>1
      <4> QED BY <4>2, <4>3
    <3> QED BY <3>4, <3>5
  <2> QED BY <2>1, <2>2
<1>5. StatsOK'
  BY <1>1, <1>2, <1>3, <1>4 DEF StatsOK
<1>6. Grows(stats, stats')
  BY <1>1 DEF Grows
<1>7. row \in stats'[u][pl]
  BY <1>1
<1> QED BY <1>5, <1>6, <1>7

LEMMA AnnouncedGrows ==
  ASSUME AnnouncedOK, Grows(stats, stats'), UNCHANGED announced
  PROVE  AnnouncedOK'
BY DEF AnnouncedOK, Grows

LEMMA SyncInsertStep ==
  ASSUME PlatformsInv, NEW p \in Requests, SyncInsert(p)
  PROVE  PlatformsInv'
<1> DEFINE r == req[p]
           pl == r.platform
           row == [handle |-> Handle(r), parts |-> r.parts, at |-> r.at]
           x == [r EXCEPT !.pc = "stamp"]
<1>1. /\ r.pc = "insert" /\ stats' = [stats EXCEPT ![r.user][pl] = @ \cup {row}]
      /\ UNCHANGED <<accounts, cache, clock, announced>>
  BY DEF SyncInsert
<1>2. /\ pl \in Platform /\ r \in Syncing(pl) /\ r.user \in Users /\ r.parts \in Parts(pl)
      /\ Handle(r) \in AllHandles /\ Collects(r) /\ Records(stats, r)
  BY <1>1, AtWork DEF PlatformsInv, Working
<1>3. /\ Len(r.parts) = Endpoints[pl] /\ r.at # 0 /\ r.at \in 0..MaxClock
      /\ Endpoints[pl] \in Nat \ {0} /\ MaxClock \in Nat
  BY <1>1, <1>2, PlatformsAssumption DEF Collects, Working, Syncing
<1>4. r.parts \in [1..Endpoints[pl] -> Answers]
  <2>1. PICK n \in 0..Endpoints[pl] : r.parts \in [1..n -> Answers]
    BY <1>2 DEF Parts
  <2>2. n \in Nat /\ r.parts \in Seq(Answers) /\ Len(r.parts) = n
    BY <1>3, <2>1
  <2> QED BY <1>3, <2>1, <2>2
<1>5. row \in Snapshot(pl)
  BY <1>2, <1>3, <1>4 DEF Snapshot
<1>6. /\ r.parts[1] = Handle(r)
      /\ \A e \in 1..Endpoints[pl] : r.parts[e] \in {Handle(r), None}
  <2>1. DOMAIN r.parts = 1..Endpoints[pl]
    BY <1>4
  <2>2. r.parts # <<>>
    BY <1>3, EmptySeq
  <2> QED BY <1>1, <1>2, <2>1, <2>2 DEF Collects, Working
<1>7. StatsOK' /\ Grows(stats, stats') /\ row \in stats'[r.user][pl]
  <2> HIDE DEF row
  <2>1. row.parts = r.parts /\ row.handle = Handle(r)
    BY DEF row
  <2> QED BY <1>1, <1>2, <1>5, <1>6, <2>1, InsertRow DEF PlatformsInv, TablesOK
<1>8. AnnouncedOK'
  BY <1>1, <1>7, AnnouncedGrows DEF PlatformsInv, TablesOK
<1>9. TablesOK'
  BY <1>1, <1>7, <1>8, SameTables DEF PlatformsInv, TablesOK
<1>10. /\ x \in Syncing(pl) /\ x.pc = "stamp" /\ x.platform = pl /\ x.at = r.at
       /\ x.parts = r.parts /\ x.user = r.user /\ x.listed = r.listed
       /\ x.todo = r.todo /\ x.saved = r.saved /\ x.failed = r.failed
  BY <1>2 DEF Syncing
<1>11. x \in Request
  BY <1>2, <1>10 DEF Request
<1>12. Collects(x)
  BY <1>1, <1>2, <1>10 DEF Collects, Handle, Working
<1>13. Records(stats', x)
  <2>1. Records(stats', r)
    BY <1>2, <1>7, RecordsGrow DEF PlatformsInv, JobsOK
  <2>2. r.listed[pl] = Handle(r)
    <3>1. Handle(r) # None
      BY <1>2, PlatformsAssumption DEF AllHandles
    <3>2. r.todo[pl] \in {r.listed[pl], None}
      BY <1>1, <1>2 DEF Records, SyncStages, Working
    <3> QED BY <3>1, <3>2 DEF Handle
  <2>3. Stored(stats', r.user, pl, r.listed[pl], r.at)
    BY <1>7, <2>2 DEF Stored
  <2> QED BY <1>1, <1>10, <2>1, <2>3 DEF Records, SyncStages, Working
<1>14. req' = [req EXCEPT ![p] = x]
  BY DEF SyncInsert, PlatformsInv, JobsOK
<1>15. JobsOK'
  BY <1>7, <1>11, <1>12, <1>13, <1>14, JobStep DEF PlatformsInv
<1> QED BY <1>9, <1>15 DEF PlatformsInv

LEMMA SyncStampStep ==
  ASSUME PlatformsInv, NEW p \in Requests, SyncStamp(p)
  PROVE  PlatformsInv'
<1> DEFINE r == req[p]
           pl == r.platform
           y == Advanced(r)
           x == [y EXCEPT !.saved[pl] = r.at]
<1>1. /\ r.pc = "stamp" /\ req' = [req EXCEPT ![p] = x]
      /\ UNCHANGED <<accounts, stats, cache, clock, announced>>
  BY DEF SyncStamp, tables
<1>2. /\ pl \in Platform /\ r \in Syncing(pl) /\ Records(stats, r)
      /\ r.at \in 0..MaxClock /\ Collects(r)
  BY <1>1, AtWork DEF PlatformsInv, Working, Syncing
<1>3. /\ y \in Looping /\ y.pc = "sync" /\ y.user = r.user
      /\ y.listed = r.listed /\ y.todo = [r.todo EXCEPT ![pl] = None]
      /\ y.saved = r.saved /\ y.failed = r.failed
  BY <1>2, AdvancedType
<1> HIDE DEF y
<1>4. r.todo \in Listing /\ r.saved \in Times
  BY <1>2 DEF Syncing
<1>5. [r.saved EXCEPT ![pl] = r.at] \in Times
  BY <1>2, <1>4 DEF Times
<1>6. /\ x \in Looping /\ x.pc = "sync" /\ x.user = r.user
      /\ x.listed = r.listed /\ x.todo = [r.todo EXCEPT ![pl] = None]
      /\ x.saved = [r.saved EXCEPT ![pl] = r.at] /\ x.failed = r.failed
  BY <1>3, <1>5 DEF Looping
<1> HIDE DEF x
<1>7. x \in Request
  BY <1>6 DEF Request
<1>8. Collects(x)
  BY <1>6 DEF Collects, Working
<1>9. Records(stats, x)
  <2>1. \A q \in Platform : /\ x.todo[q] = (IF q = pl THEN None ELSE r.todo[q])
                            /\ x.saved[q] = (IF q = pl THEN r.at ELSE r.saved[q])
    BY <1>4, <1>6 DEF Listing, Times
  <2>2. r.at # 0
    BY <1>1, <1>2 DEF Collects, Working
  <2> QED BY <1>1, <1>2, <1>6, <2>1, <2>2 DEF Records, SyncStages, Working
<1>10. JobsOK'
  BY <1>1, <1>7, <1>8, <1>9, QuietJob DEF PlatformsInv
<1>11. TablesOK'
  BY <1>1, SameTables DEF PlatformsInv, TablesOK
<1> QED BY <1>10, <1>11 DEF PlatformsInv

LEMMA MaxOfTwo ==
  ASSUME NEW m \in Nat, NEW n \in Nat
  PROVE  Max({m, n}) \in {m, n} /\ Max({m, n}) >= m /\ Max({m, n}) >= n
<1>1. \E i \in {m, n} : \A j \in {m, n} : i >= j
  <2>1. CASE m >= n
    BY <2>1
  <2>2. CASE ~(m >= n)
    BY <2>2
  <2> QED BY <2>1, <2>2
<1> QED BY <1>1 DEF Max

LEMMA SyncAnswerStep ==
  ASSUME PlatformsInv, NEW p \in Requests, SyncAnswer(p)
  PROVE  PlatformsInv'
<1> DEFINE r == req[p]
<1>1. r \in Request /\ r.pc = "sync" /\ Records(stats, r) /\ End(p)
      /\ UNCHANGED <<accounts, stats, cache, clock>>
  BY DEF SyncAnswer, PlatformsInv, JobsOK, tables
<1>2. r.user \in Users /\ r.saved \in Times
  BY <1>1, StageType DEF SyncStages
<1>3. AnnouncedOK'
  <2>1. announced \in [Users -> Times] /\ AnnouncedOK
    BY DEF PlatformsInv, TablesOK, AnnouncedOK
  <2>2. CASE UNCHANGED announced
    BY <1>1, <2>2, SameTables DEF PlatformsInv
  <2>3. CASE announced' = [announced EXCEPT ![r.user] =
                             [pl \in Platform |-> Max({@[pl], r.saved[pl]})]]
    <3> DEFINE a == announced[r.user]
               new == [pl \in Platform |-> Max({a[pl], r.saved[pl]})]
    <3>1. \A pl \in Platform : a[pl] \in 0..MaxClock /\ r.saved[pl] \in 0..MaxClock
      BY <1>2, <2>1 DEF Times
    <3>2. \A pl \in Platform : new[pl] \in {a[pl], r.saved[pl]}
      <4> SUFFICES ASSUME NEW pl \in Platform PROVE Max({a[pl], r.saved[pl]}) \in {a[pl], r.saved[pl]}
        OBVIOUS
      <4>1. a[pl] \in Nat /\ r.saved[pl] \in Nat
        BY <3>1, PlatformsAssumption
      <4> QED BY <4>1, MaxOfTwo
    <3>3. new \in Times
      <4>1. \A pl \in Platform : new[pl] \in 0..MaxClock
        BY <3>1, <3>2
      <4>2. new = [pl \in Platform |-> new[pl]]
        OBVIOUS
      <4> HIDE DEF new
      <4> QED BY <4>1, <4>2 DEF Times
    <3>4. announced' = [announced EXCEPT ![r.user] = new]
      BY <2>3
    <3> HIDE DEF new
    <3>5. announced' \in [Users -> Times]
      BY <1>2, <2>1, <3>3, <3>4
    <3>6. ASSUME NEW u \in Users, NEW pl \in Platform, announced'[u][pl] # 0
          PROVE  \E row \in stats[u][pl] : row.at = announced'[u][pl]
      <4>1. CASE u # r.user
        BY <2>1, <3>4, <3>6, <4>1 DEF AnnouncedOK
      <4>2. CASE u = r.user
        <5>1. announced'[u][pl] \in {a[pl], r.saved[pl]}
          BY <1>2, <2>1, <3>2, <3>4, <4>2
        <5>2. a[pl] # 0 => \E row \in stats[u][pl] : row.at = a[pl]
          BY <2>1, <4>2 DEF AnnouncedOK
        <5>3. r.saved[pl] # 0 => \E row \in stats[u][pl] : row.at = r.saved[pl]
          BY <1>1, <4>2 DEF Records, SyncStages, Stored
        <5> QED BY <3>6, <5>1, <5>2, <5>3
      <4> QED BY <4>1, <4>2
    <3> QED BY <1>1, <3>5, <3>6 DEF AnnouncedOK
  <2> QED BY <2>2, <2>3 DEF SyncAnswer
<1>4. TablesOK'
  BY <1>1, <1>3, SameTables DEF PlatformsInv, TablesOK
<1> QED BY <1>1, <1>4, EndJob DEF PlatformsInv

-----------------------------------------------------------------------------
(* What holds of every behaviour.                                          *)

LEMMA PlatformsInit == Init => PlatformsInv
<1> SUFFICES ASSUME Init PROVE PlatformsInv
  OBVIOUS
<1> USE PlatformsAssumption DEF Init
<1>1. AccountsOK
  BY DEF AccountsOK, Listing, Answers
<1>2. StatsOK
  BY DEF StatsOK, IsMap, SnapshotsAreOfOneHandle, HasLatest
<1>3. CacheOK
  BY DEF CacheOK, IsMap, CacheOfHandle, Answers
<1>4. ClockOK /\ AnnouncedOK
  BY DEF ClockOK, AnnouncedOK, Times
<1>5. JobsOK
  <2>1. \A p \in Requests : req[p] = Idle
    OBVIOUS
  <2>2. Collects(Idle) /\ Records(stats, Idle)
    BY OtherStage, IdleType DEF SyncStages, Working
  <2> QED BY <2>1, <2>2, IdleType DEF JobsOK
<1> QED BY <1>1, <1>2, <1>3, <1>4, <1>5 DEF PlatformsInv, TablesOK

LEMMA PlatformsNext == PlatformsInv /\ [Next]_vars => PlatformsInv'
<1> SUFFICES ASSUME PlatformsInv, [Next]_vars PROVE PlatformsInv'
  OBVIOUS
<1>1. CASE UNCHANGED vars
  <2>1. TablesOK'
    BY <1>1, SameTables DEF PlatformsInv, vars, tables, TablesOK
  <2>2. JobsOK'
    BY <1>1 DEF PlatformsInv, vars, tables, JobsOK, Collects, Records, Handle, Stored
  <2> QED BY <2>1, <2>2 DEF PlatformsInv
<1>2. ASSUME NEW p \in Requests, AccountSteps(p) PROVE PlatformsInv'
  BY <1>2, ConnectStep, DisconnectStep DEF AccountSteps
<1>3. ASSUME NEW p \in Requests, SyncSteps(p) PROVE PlatformsInv'
  BY <1>3, SyncListStep, SyncNextStep, CacheHitStep, CacheMissStep, UpstreamStep,
     UpstreamFailsStep, SyncInsertStep, SyncStampStep, SyncWriteFailsStep, SyncAnswerStep
  DEF SyncSteps
<1>4. ASSUME NEW p \in Requests, Fail(p) PROVE PlatformsInv'
  BY <1>4, FailStep
<1> QED BY <1>1, <1>2, <1>3, <1>4 DEF Next

\* The inductive invariant of accounts, snapshots, cache and requests.
THEOREM PlatformsHold == Spec => []PlatformsInv
BY PlatformsInit, PlatformsNext, PTL DEF Spec

\* Rows are whole, and a snapshot has a part for every endpoint.
THEOREM PlatformsTypeCorrect == Spec => []TypeOK
<1>1. PlatformsInv => TypeOK
  BY DEF PlatformsInv, TablesOK, AccountsOK, StatsOK, CacheOK, ClockOK, AnnouncedOK, JobsOK,
         TypeOK
<1> QED BY <1>1, PlatformsHold, PTL

\* No snapshot mixes the numbers of two handles, although the cache is shared and
\* the account may be connected to another handle while it is synced.
THEOREM SnapshotsHaveOneHandle == Spec => []SnapshotsAreOfOneHandle
<1>1. PlatformsInv => SnapshotsAreOfOneHandle
  BY DEF PlatformsInv, TablesOK, StatsOK
<1> QED BY <1>1, PlatformsHold, PTL

\* SyncAll passes over no account that it listed: it is saved or reported.
THEOREM NoAccountIsPassedOver == Spec => []SyncAccountsForAll
<1>1. PlatformsInv => SyncAccountsForAll
  <2> SUFFICES ASSUME PlatformsInv, NEW p \in Requests, req[p].pc = "sync", Exhausted(req[p]),
                      NEW pl \in Platform, req[p].listed[pl] # None
               PROVE  \/ pl \in req[p].failed
                      \/ \E row \in stats[req[p].user][pl] :
                           row.at = req[p].saved[pl] /\ row.handle = req[p].listed[pl]
    BY DEF SyncAccountsForAll
  <2> QED BY DEF PlatformsInv, JobsOK, Records, SyncStages, Exhausted, Stored
<1> QED BY <1>1, PlatformsHold, PTL

\* What GetDashboard picks is a latest snapshot.
LEMMA LatestIsLatest ==
  ASSUME PlatformsInv, NEW u \in Users, NEW pl \in Platform, NEW row \in stats[u][pl]
  PROVE  Latest(stats[u][pl]).at >= row.at
<1>1. \E latest \in stats[u][pl] : \A other \in stats[u][pl] : other.at <= latest.at
  BY DEF PlatformsInv, TablesOK, StatsOK, HasLatest
<1>2. /\ Latest(stats[u][pl]) \in stats[u][pl]
      /\ row.at <= Latest(stats[u][pl]).at
  BY <1>1 DEF Latest
<1>3. Latest(stats[u][pl]).at \in Int /\ row.at \in Int
  BY <1>2, PlatformsAssumption DEF PlatformsInv, TablesOK, StatsOK, Snapshot
<1> QED BY <1>2, <1>3

\* After "Sync complete" the dashboard shows no older numbers than that sync saved,
\* also when the snapshots of overlapping syncs are inserted out of order.
THEOREM DashboardIsNotBehind == Spec => []DashboardKeepsUp
<1>1. PlatformsInv => DashboardKeepsUp
  <2> SUFFICES ASSUME PlatformsInv, NEW u \in Users, NEW pl \in Platform,
                      announced[u][pl] # 0
               PROVE  stats[u][pl] # {} /\ Latest(stats[u][pl]).at >= announced[u][pl]
    BY DEF DashboardKeepsUp
  <2>1. PICK row \in stats[u][pl] : row.at = announced[u][pl]
    BY DEF PlatformsInv, TablesOK, AnnouncedOK
  <2> QED BY <2>1, LatestIsLatest
<1> QED BY <1>1, PlatformsHold, PTL

-----------------------------------------------------------------------------
(***************************************************************************)
(* The dashboard page, over variables of its own: the streak on it was     *)
(* earned, and the calendar and the tiers leave nothing out, for every     *)
(* number of weeks, of days of a week, of skills and of days.              *)
(*                                                                         *)
(* The argument: the walk over the calendar ends at the first day that is  *)
(* missing (WalkEnds); an answer keeps what the server computed and days   *)
(* are never taken back (Earned); a date has one quotient and remainder by *)
(* the length of a week (Remainder, Unique), and a skill one place         *)
(* (PlaceType).                                                            *)
(***************************************************************************)

\* Every set of naturals that is not empty has a least element.
LEMMA LeastOf ==
  ASSUME NEW T, T \subseteq Nat, T # {}
  PROVE  \E x \in T : \A y \in T : x <= y
<1>1. PICK x \in T : \A y \in T : ~(<<y, x>> \in OpToRel(<, Nat))
  BY WFMin, NatLessThanWellFounded
<1>2. \A y \in T : ~(y < x)
  <2> SUFFICES ASSUME NEW y \in T, y < x PROVE FALSE
    OBVIOUS
  <2>1. <<y, x>> \in OpToRel(<, Nat)
    BY DEF OpToRel
  <2> QED BY <1>1, <2>1
<1> QED BY <1>2

\* Where the walk back over the days ends.
Ends(days, today, n) == n > MaxStreak \/ today - n \notin days

\* What the loop of CalcStreak computes, for every calendar and bound: the days it
\* counts are all in the calendar, and the day at which it stops is not.
THEOREM WalkEnds ==
  ASSUME NEW days, NEW today \in Int
  PROVE  LET n == CalcStreak(days, today) IN
           /\ n \in 0..MaxStreak + 1
           /\ \A i \in 0..n - 1 : today - i \in days
           /\ n <= MaxStreak => today - n \notin days
<1> DEFINE D == 0..MaxStreak + 1
           Stop(n) == Ends(days, today, n)
           After(n) == {m \in D : n <= m /\ Stop(m)}
           IsFirst(n, m) == m \in After(n) /\ \A k \in After(n) : m <= k
           EndOf(n) == CHOOSE m : IsFirst(n, m)
           Walk(f) == f = [n \in D |-> IF n > MaxStreak \/ today - n \notin days
                                       THEN n ELSE f[n + 1]]
           walk == CHOOSE f : Walk(f)
<1>1. MaxStreak \in Nat
  BY DashboardAssumption
<1>2. ASSUME NEW n \in D PROVE IsFirst(n, EndOf(n))
  <2>1. MaxStreak + 1 \in After(n)
    BY <1>1 DEF Ends
  <2>2. After(n) \subseteq Nat
    BY <1>1
  <2>3. \E m : IsFirst(n, m)
    BY <2>1, <2>2, LeastOf
  <2> QED BY <2>3
<1>3. \E f : Walk(f)
  <2> DEFINE g == [n \in D |-> EndOf(n)]
  <2>1. ASSUME NEW n \in D
        PROVE  g[n] = IF Stop(n) THEN n ELSE g[n + 1]
    <3>1. CASE Stop(n)
      <4>1. n \in After(n)
        BY <1>1, <3>1
      <4>2. EndOf(n) \in After(n) /\ EndOf(n) <= n
        BY <1>2, <4>1
      <4> HIDE DEF Stop
      <4> QED BY <1>1, <3>1, <4>2
    <3>2. CASE ~Stop(n)
      <4>1. n + 1 \in D
        BY <1>1, <3>2 DEF Ends
      <4>2. \A m \in D : n <= m /\ Stop(m) <=> n + 1 <= m /\ Stop(m)
        <5> HIDE DEF Stop
        <5> QED BY <1>1, <3>2
      <4>3. After(n) = After(n + 1)
        BY <4>2
      <4>4. EndOf(n) = EndOf(n + 1)
        BY <4>3
      <4> QED BY <3>2, <4>1, <4>4
    <3> QED BY <3>1, <3>2
  <2>2. g = [n \in D |-> g[n]]
    OBVIOUS
  <2> HIDE DEF g
  <2>3. g = [n \in D |-> IF n > MaxStreak \/ today - n \notin days THEN n ELSE g[n + 1]]
    BY <2>1, <2>2 DEF Ends
  <2> QED BY <2>3
<1>4. Walk(walk)
  BY <1>3
<1>5. walk[0] = CalcStreak(days, today)
  BY DEF CalcStreak
<1> HIDE DEF walk
<1>6. \A n \in D : walk[n] = IF Stop(n) THEN n ELSE walk[n + 1]
  BY <1>4 DEF Ends
<1> DEFINE e == EndOf(0)
<1>7. e \in D /\ Stop(e) /\ \A k \in 0..e - 1 : ~Stop(k)
  <2>1. IsFirst(0, e)
    BY <1>1, <1>2
  <2> HIDE DEF e, Stop
  <2>2. e \in D /\ Stop(e) /\ \A k \in D : Stop(k) => e <= k
    BY <2>1
  <2> QED BY <1>1, <2>2
<1> HIDE DEF e
<1>8. walk[0] = e
  <2> DEFINE T == {k \in 0..e : walk[e - k] # e}
  <2> SUFFICES ASSUME walk[0] # e PROVE FALSE
    OBVIOUS
  <2> HIDE DEF Stop
  <2>1. e \in T /\ T \subseteq Nat
    BY <1>1, <1>7
  <2>2. PICK k \in T : \A j \in T : k <= j
    BY <2>1, LeastOf
  <2>3. k \in 0..e /\ walk[e - k] # e
    OBVIOUS
  <2>4. k # 0
    BY <1>1, <1>6, <1>7, <2>3
  <2>5. walk[e - k] = walk[e - k + 1] /\ e - k \in 0..e - 1
    BY <1>1, <1>6, <1>7, <2>3, <2>4
  <2>6. k - 1 \in T
    <3>1. k - 1 \in 0..e /\ e - (k - 1) = e - k + 1
      BY <1>1, <1>7, <2>3, <2>4
    <3> QED BY <2>3, <2>5, <3>1
  <2> QED BY <2>2, <2>6
<1> QED BY <1>1, <1>5, <1>7, <1>8 DEF Ends

-----------------------------------------------------------------------------
LEMMA Remainder ==
  ASSUME NEW a \in Int, NEW d \in Nat \ {0}
  PROVE  \E q \in Int, r \in 0..d - 1 : a \div d = q /\ a % d = r /\ a = q * d + r
<1>1. a % d = a - d * (a \div d)
  OBVIOUS
<1>2. a \div d \in Int /\ a % d \in 0..d - 1
  OBVIOUS
<1>3. PICK q \in Int : q = a \div d
  BY <1>2
<1>4. PICK r \in 0..d - 1 : r = a % d
  BY <1>2
<1>5. r = a - d * q
  BY <1>1, <1>3, <1>4
<1>6. \A x, y \in Int : x * y \in Int /\ x * y = y * x
  OBVIOUS
<1>7. d * q \in Int /\ d * q = q * d
  BY <1>6
<1>8. a = q * d + r
  BY <1>5, <1>7
<1> QED BY <1>3, <1>4, <1>8, Zenon

LEMMA Less ==
  ASSUME NEW p \in Int, NEW q \in Int, NEW d \in Nat \ {0}, p < q
  PROVE  /\ p * d \in Int /\ q * d \in Int
         /\ p * d + d <= q * d
<1>1. PICK k \in Nat : q = p + 1 + k
  <2>1. q - p - 1 \in Nat
    OBVIOUS
  <2> QED BY <2>1
<1>2. \A x, y, z \in Int : (x + 1 + y) * z = x * z + z + y * z
  OBVIOUS
<1>3. k * d \in Nat /\ p * d \in Int /\ q * d \in Int
  OBVIOUS
<1> QED BY <1>1, <1>2, <1>3

\* A number is told by its quotient and remainder.
LEMMA Unique ==
  ASSUME NEW p \in Int, NEW q \in Int, NEW d \in Nat \ {0},
         NEW r \in 0..d - 1, NEW s \in 0..d - 1, p * d + r = q * d + s
  PROVE  p = q /\ r = s
<1>1. p * d \in Int /\ q * d \in Int
  OBVIOUS
<1>2. ~(p < q)
  BY <1>1, Less
<1>3. ~(q < p)
  BY <1>1, Less
<1> QED BY <1>1, <1>2, <1>3

-----------------------------------------------------------------------------
(* The calendar.                                                           *)

LEMMA StartIsSunday ==
  ASSUME Today \in Int
  PROVE  LET first == Today - Weeks * DaysPerWeek + 1 IN
           /\ first \in Int
           /\ \E w \in Int : StartDate = w * DaysPerWeek
           /\ StartDate <= first /\ first < StartDate + DaysPerWeek
<1> DEFINE first == Today - Weeks * DaysPerWeek + 1
<1>1. DaysPerWeek \in Nat \ {0} /\ Weeks * DaysPerWeek \in Int
  <2>1. \A x, y \in Nat : x * y \in Int
    OBVIOUS
  <2> QED BY <2>1, DashboardAssumption
<1>2. first \in Int
  BY <1>1
<1>3. StartDate = first - (first % DaysPerWeek)
  BY Zenon DEF StartDate, Weekday
<1> HIDE DEF first
<1>4. PICK q \in Int, r \in 0..DaysPerWeek - 1 :
         first % DaysPerWeek = r /\ first = q * DaysPerWeek + r
  BY <1>1, <1>2, Remainder
<1>5. q * DaysPerWeek \in Int
  <2>1. \A x, y \in Int : x * y \in Int
    OBVIOUS
  <2> QED BY <1>1, <2>1
<1>6. StartDate = q * DaysPerWeek
  <2>1. StartDate = first - r
    BY <1>3, <1>4, Zenon
  <2> QED BY <1>1, <1>4, <1>5, <2>1
<1> QED BY <1>1, <1>2, <1>4, <1>5, <1>6 DEF first

LEMMA CellDates ==
  ASSUME NEW w \in Int, StartDate = w * DaysPerWeek, NEW cell \in Cells
  PROVE  /\ cell[1] \in 0..Weeks - 1 /\ cell[2] \in 0..DaysPerWeek - 1
         /\ Date(cell) = (w + cell[1]) * DaysPerWeek + cell[2]
         /\ Weekday(Date(cell)) = cell[2]
<1>1. DaysPerWeek \in Nat \ {0} /\ Weeks \in Nat
  BY DashboardAssumption
<1>2. cell[1] \in 0..Weeks - 1 /\ cell[2] \in 0..DaysPerWeek - 1
  BY DEF Cells
<1>3. PICK a \in Int, b \in 0..DaysPerWeek - 1 : a = cell[1] /\ b = cell[2]
  BY <1>1, <1>2
<1>4. Date(cell) = (w + a) * DaysPerWeek + b
  <2>1. \A x, y, z \in Int : (x + y) * z = x * z + y * z
    OBVIOUS
  <2> QED BY <1>1, <1>3, <2>1 DEF Date
<1>5. (w + a) * DaysPerWeek \in Int /\ w + a \in Int
  <2>1. \A x, y \in Int : x * y \in Int
    OBVIOUS
  <2> QED BY <1>1, <2>1
<1>6. PICK q \in Int, r \in 0..DaysPerWeek - 1 :
         Date(cell) % DaysPerWeek = r /\ Date(cell) = q * DaysPerWeek + r
  <2>1. Date(cell) \in Int
    BY <1>1, <1>4, <1>5
  <2> QED BY <1>1, <2>1, Remainder
<1>7. r = b
  BY <1>1, <1>4, <1>5, <1>6, Unique
<1> QED BY <1>2, <1>3, <1>4, <1>6, <1>7 DEF Weekday

LEMMA OneCellPerDay ==
  ASSUME Today \in Int, NEW c \in Cells, NEW e \in Cells, Date(c) = Date(e)
  PROVE  c = e
<1>1. DaysPerWeek \in Nat \ {0} /\ Weeks \in Nat
  BY DashboardAssumption
<1>2. PICK w \in Int : StartDate = w * DaysPerWeek
  BY StartIsSunday
<1>3. /\ c[1] \in Int /\ e[1] \in Int
      /\ c[2] \in 0..DaysPerWeek - 1 /\ e[2] \in 0..DaysPerWeek - 1
      /\ (w + c[1]) * DaysPerWeek + c[2] = (w + e[1]) * DaysPerWeek + e[2]
  BY <1>1, <1>2, CellDates
<1>4. PICK x \in Int, y \in Int, r \in 0..DaysPerWeek - 1, s \in 0..DaysPerWeek - 1 :
         x = w + c[1] /\ y = w + e[1] /\ r = c[2] /\ s = e[2]
  BY <1>3
<1>5. x = y /\ c[2] = e[2]
  <2>1. x * DaysPerWeek + r = y * DaysPerWeek + s
    BY <1>3, <1>4, Zenon
  <2>2. x = y /\ r = s
    BY <1>1, <2>1, Unique
  <2> QED BY <1>4, <2>2
<1>6. c[1] = e[1]
  BY <1>3, <1>4, <1>5
<1> QED BY <1>5, <1>6 DEF Cells

LEMMA WeeksSpan ==
  /\ DaysPerWeek \in Nat \ {0} /\ Weeks \in Nat \ {0} /\ Weeks * DaysPerWeek \in Int
  /\ \A w \in Int : /\ w * DaysPerWeek \in Int
                    /\ (w + Weeks) * DaysPerWeek = w * DaysPerWeek + Weeks * DaysPerWeek
<1>1. \A x, y, z \in Int : x * y \in Int /\ (x + y) * z = x * z + y * z
  OBVIOUS
<1>2. DaysPerWeek \in Nat \ {0} /\ Weeks \in Nat \ {0}
  BY DashboardAssumption
<1> QED BY <1>1, <1>2

\* The columns end where a week last ended.
LEMMA ColumnsEnd ==
  ASSUME Today \in Int
  PROVE  /\ StartDate \in Int /\ WeekEnd \in Int
         /\ WeekEnd = StartDate + Weeks * DaysPerWeek - 1
         /\ WeekEnd <= Today
<1> DEFINE D == DaysPerWeek
           span == Weeks * DaysPerWeek
<1>1. D \in Nat \ {0} /\ span \in Int
  BY WeeksSpan
<1>2. PICK w \in Int : StartDate = w * D
  BY StartIsSunday
<1>3. StartDate <= Today - span + 1 /\ Today - span + 1 < StartDate + D
  BY StartIsSunday
<1>4. w * D \in Int /\ (w + Weeks) * D = w * D + span
  BY <1>2, WeeksSpan
<1>5. PICK q \in Int, r \in 0..D - 1 : (Today + 1) % D = r /\ Today + 1 = q * D + r
  <2>1. PICK day \in Int : day = Today + 1
    OBVIOUS
  <2>2. \E q \in Int, r \in 0..D - 1 : day % D = r /\ day = q * D + r
    BY <1>1, Remainder
  <2> QED BY <2>1, <2>2, Zenon
<1>6. WeekEnd = Today - r
  BY <1>5, Zenon DEF WeekEnd, Weekday
<1> HIDE DEF span, D
<1>7. PICK s \in 0..D - 1 : Today + 1 = (w + Weeks) * D + s
  <2>1. PICK v \in Int : v = (w + Weeks) * D /\ v = w * D + span
    BY <1>1, <1>4
  <2>2. PICK s \in 0..D - 1 : Today + 1 = v + s
    <3>1. Today + 1 - v \in 0..D - 1
      BY <1>1, <1>2, <1>3, <1>4, <2>1
    <3> QED BY <1>1, <3>1
  <2> QED BY <2>1, <2>2
<1>8. q * D + r = (w + Weeks) * D + s
  BY <1>5, <1>7
<1>9. w + Weeks \in Int
  BY <1>2, WeeksSpan
<1>10. q = w + Weeks /\ r = s
  BY <1>1, <1>8, <1>9, Unique
<1>11. WeekEnd = StartDate + span - 1
  BY <1>1, <1>2, <1>4, <1>6, <1>7, <1>10
<1> QED BY <1>1, <1>2, <1>4, <1>6, <1>11 DEF span

\* The cells are for the days of the columns, and for no other.
LEMMA DayHasCell ==
  ASSUME Today \in Int, NEW day \in Int
  PROVE  (\E cell \in Cells : Date(cell) = day) <=>
           StartDate <= day /\ day < StartDate + Weeks * DaysPerWeek
<1> DEFINE D == DaysPerWeek
           span == Weeks * DaysPerWeek
<1>1. D \in Nat \ {0} /\ Weeks \in Nat \ {0} /\ span \in Int
  BY WeeksSpan
<1>2. PICK w \in Int : StartDate = w * D
  BY StartIsSunday
<1>3. PICK q \in Int, r \in 0..D - 1 : day = q * D + r
  BY <1>1, Remainder
<1>4. /\ w * D \in Int /\ q * D \in Int
      /\ (w + Weeks) * D = w * D + span /\ w + Weeks \in Int
  BY <1>1, WeeksSpan
<1> HIDE DEF D, span
<1>5. ASSUME StartDate <= day, day < StartDate + span
      PROVE  \E cell \in Cells : Date(cell) = day
  <2>1. w <= q
    <3> SUFFICES ASSUME q < w PROVE FALSE
      OBVIOUS
    <3>1. q * D + D <= w * D
      BY <1>1, Less
    <3> QED BY <1>1, <1>2, <1>3, <1>4, <1>5, <3>1
  <2>2. q < w + Weeks
    <3> SUFFICES ASSUME w + Weeks <= q PROVE FALSE
      BY <1>4
    <3>1. w + Weeks = q \/ (w + Weeks) * D + D <= q * D
      BY <1>1, <1>4, Less
    <3> QED BY <1>1, <1>2, <1>3, <1>4, <1>5, <3>1
  <2> DEFINE cell == <<q - w, r>>
  <2>3. cell \in Cells /\ cell[1] = q - w /\ cell[2] = r
    BY <1>1, <2>1, <2>2 DEF Cells, D
  <2> HIDE DEF cell
  <2>4. Date(cell) = (w + cell[1]) * DaysPerWeek + cell[2]
    BY <1>2, <2>3, CellDates DEF D
  <2>5. w + cell[1] = q
    BY <2>3
  <2>6. Date(cell) = q * D + r
    BY <2>3, <2>4, <2>5 DEF D
  <2> QED BY <1>3, <2>3, <2>6
<1>6. ASSUME NEW cell \in Cells, Date(cell) = day
      PROVE  StartDate <= day /\ day < StartDate + span
  <2>1. PICK c \in 0..Weeks - 1, s \in 0..D - 1 : c = cell[1] /\ s = cell[2]
    BY <1>2, CellDates DEF D
  <2>2. day = (w + c) * D + s /\ w + c \in Int
    BY <1>1, <1>2, <1>6, <2>1, CellDates DEF D
  <2>3. (w + c) * D \in Int
    BY <2>2, WeeksSpan DEF D
  <2>4. w * D <= (w + c) * D
    <3>1. w = w + c \/ w * D + D <= (w + c) * D
      BY <1>1, <2>1, <2>2, Less
    <3> QED BY <1>1, <1>4, <2>3, <3>1
  <2>5. (w + c) * D + D <= (w + Weeks) * D
    BY <1>1, <1>4, <2>1, <2>2, Less
  <2> QED BY <1>1, <1>2, <1>4, <2>1, <2>2, <2>3, <2>4, <2>5
<1> QED BY <1>5, <1>6 DEF span

-----------------------------------------------------------------------------
(* The tiers.                                                              *)

Better(counts, s) ==
  {t \in DOMAIN counts : counts[t] > counts[s] \/ (counts[t] = counts[s] /\ t < s)}

LEMMA PlaceType ==
  ASSUME NEW counts \in Seq(Nat), NEW s \in DOMAIN counts
  PROVE  /\ IsFiniteSet(DOMAIN counts)
         /\ Cardinality(DOMAIN counts) \in Nat
         /\ Place(counts, s) \in 0..Cardinality(DOMAIN counts) - 1
         /\ IsFiniteSet(Better(counts, s)) /\ Place(counts, s) = Cardinality(Better(counts, s))
<1>1. IsFiniteSet(DOMAIN counts)
  BY LenProperties, FS_Interval
<1>2. counts[s] \in Nat /\ s \in Nat
  BY LenProperties, ElementOfSeq
<1>3. Better(counts, s) \subseteq DOMAIN counts /\ s \notin Better(counts, s)
  BY <1>2 DEF Better
<1>4. /\ IsFiniteSet(Better(counts, s))
      /\ Cardinality(Better(counts, s)) < Cardinality(DOMAIN counts)
  BY <1>1, <1>3, FS_Subset, FS_CardinalityType
<1>5. Place(counts, s) = Cardinality(Better(counts, s))
  BY DEF Place, Better
<1> QED BY <1>1, <1>4, <1>5, FS_CardinalityType

LEMMA BetterPlace ==
  ASSUME NEW counts \in Seq(Nat), NEW s \in DOMAIN counts, NEW t \in DOMAIN counts,
         counts[s] < counts[t]
  PROVE  Place(counts, t) < Place(counts, s)
<1>1. \A u \in DOMAIN counts : counts[u] \in Nat /\ u \in Nat
  BY LenProperties, ElementOfSeq
<1>2. Better(counts, t) \subseteq Better(counts, s)
  BY <1>1 DEF Better
<1>3. t \in Better(counts, s) /\ t \notin Better(counts, t)
  BY <1>1 DEF Better
<1> QED BY <1>2, <1>3, PlaceType, FS_Subset

Order(counts) ==
  LET tiers == Tiers(counts) IN <<tiers.strong, tiers.moderate, tiers.weak, tiers.untouched>>

LEMMA WhichTier ==
  ASSUME NEW counts \in Seq(Nat), NEW s \in DOMAIN counts
  PROVE  LET p == Place(counts, s) IN
           /\ counts[s] \in Nat /\ p \in Nat
           /\ s \in Order(counts)[1] <=> counts[s] > 0 /\ p < Strong
           /\ s \in Order(counts)[2] <=> counts[s] > 0 /\ Strong <= p /\ p < Moderate
           /\ s \in Order(counts)[3] <=> counts[s] > 0 /\ Moderate <= p
           /\ s \in Order(counts)[4] <=> counts[s] = 0
<1>1. /\ Place(counts, s) \in 0..Cardinality(DOMAIN counts) - 1
      /\ Cardinality(DOMAIN counts) \in Nat
  BY PlaceType
<1>2. counts[s] \in Nat
  BY ElementOfSeq, LenProperties
<1>3. /\ Order(counts)[1] = Slice(counts, 0, Strong)
      /\ Order(counts)[2] = Slice(counts, Strong, Moderate)
      /\ Order(counts)[3] = Slice(counts, Moderate, Cardinality(DOMAIN counts))
      /\ Order(counts)[4] = {u \in DOMAIN counts : counts[u] = 0}
  BY DEF Order, Tiers
<1>4. Strong \in Nat /\ Moderate \in Nat
  BY DashboardAssumption
<1> QED BY <1>1, <1>2, <1>3, <1>4 DEF Slice

LEMMA OneTier ==
  ASSUME NEW counts \in Seq(Nat), NEW s \in DOMAIN counts
  PROVE  Cardinality({k \in 1..4 : s \in Order(counts)[k]}) = 1
<1>1. Strong \in Nat /\ Moderate \in Nat /\ Strong <= Moderate
  BY DashboardAssumption
<1> DEFINE p == Place(counts, s)
           in == {k \in 1..4 : s \in Order(counts)[k]}
<1>2. \E k \in 1..4 : in = {k}
  <2>1. CASE counts[s] = 0
    <3>1. in = {4}
      BY <1>1, <2>1, WhichTier
    <3> QED BY <3>1
  <2>2. CASE counts[s] > 0 /\ p < Strong
    <3>1. in = {1}
      BY <1>1, <2>2, WhichTier
    <3> QED BY <3>1
  <2>3. CASE counts[s] > 0 /\ Strong <= p /\ p < Moderate
    <3>1. in = {2}
      BY <1>1, <2>3, WhichTier
    <3> QED BY <3>1
  <2>4. CASE counts[s] > 0 /\ Moderate <= p
    <3>1. in = {3}
      BY <1>1, <2>4, WhichTier
    <3> QED BY <3>1
  <2> QED BY <1>1, <2>1, <2>2, <2>3, <2>4, WhichTier
<1> QED BY <1>2, FS_Singleton

LEMMA TiersInOrder ==
  ASSUME NEW counts \in Seq(Nat), NEW j \in 1..4, NEW k \in 1..4, j < k,
         NEW s \in Order(counts)[j], NEW t \in Order(counts)[k]
  PROVE  counts[s] >= counts[t]
<1>1. Strong \in Nat /\ Moderate \in Nat /\ Strong <= Moderate
  BY DashboardAssumption
<1>2. s \in DOMAIN counts /\ t \in DOMAIN counts
  BY DEF Order, Tiers, Slice
<1> SUFFICES ASSUME counts[s] < counts[t] PROVE FALSE
  BY <1>2, WhichTier
<1>3. Place(counts, t) < Place(counts, s)
  BY <1>2, BetterPlace
<1> QED BY <1>1, <1>2, <1>3, WhichTier

-----------------------------------------------------------------------------
(* The page.                                                               *)

Data ==
  [leetcode : BOOLEAN, days : SUBSET Nat, skills : SkillCounts \cup {<<>>},
   streak : 0..MaxStreak + 1, served : Nat]

\* What the server answered: days on which the user did submit, and a streak that
\* runs over them.
Earned(submitted, d) ==
  /\ d \in Data
  /\ d.days \subseteq submitted
  /\ d.leetcode =>
       /\ \A i \in 0..d.streak - 1 : d.served - i \in d.days
       /\ d.streak <= MaxStreak => d.served - d.streak \notin d.days

ServerFits ==
  /\ now \in 0..2 * MaxDay + 1
  /\ offset \in Offsets
  /\ active \subseteq 0..MaxDay
  /\ {linked, saved} \subseteq BOOLEAN
  /\ calendar \subseteq active
  /\ skills \in SkillCounts \cup {<<>>}

AnswerFits ==
  /\ pending \in [at : {"none", "sent", "ok"}, data : Data]
  /\ Earned(active, pending.data)

PanelFits ==
  /\ page \in [open : BOOLEAN, loading : BOOLEAN, data : Data, rendered : Nat]
  /\ Earned(active, page.data)

Waiting == ShowsSkeleton <=> pending.at # "none"

PageInv == ServerFits /\ AnswerFits /\ PanelFits /\ Waiting

LEMMA NoDataEarned == \A submitted : Earned(submitted, NoData)
<1>1. NoData \in Data
  BY DashboardAssumption DEF NoData, Data
<1> QED BY <1>1 DEF NoData, Earned

LEMMA DayOf ==
  ASSUME NEW n \in Int
  PROVE  \E q \in Int, r \in 0..1 : UTCDay(n) = q /\ n = 2 * q + r
<1>1. PICK q \in Int, r \in 0..1 : n \div 2 = q /\ n = q * 2 + r
  BY Remainder
<1>2. q * 2 = 2 * q
  OBVIOUS
<1> QED BY <1>1, <1>2 DEF UTCDay

LEMMA AnswerEarned == ServerFits => Earned(active, ParseLCDashboard)
<1> SUFFICES ASSUME ServerFits PROVE Earned(active, ParseLCDashboard)
  OBVIOUS
<1>1. MaxDay \in Nat /\ MaxStreak \in Nat
  BY DashboardAssumption
<1>2. PICK today \in Nat : today = UTCDay(now)
  <2>1. now \in Nat
    BY <1>1 DEF ServerFits
  <2>2. PICK q \in Int, r \in 0..1 : UTCDay(now) = q /\ now = 2 * q + r
    BY <2>1, DayOf
  <2> QED BY <2>1, <2>2
<1> DEFINE d == ParseLCDashboard
           n == CalcStreak(calendar, today)
<1>3. /\ n \in 0..MaxStreak + 1
      /\ \A i \in 0..n - 1 : today - i \in calendar
      /\ n <= MaxStreak => today - n \notin calendar
  BY WalkEnds
<1>4. calendar \subseteq Nat
  BY <1>1 DEF ServerFits
<1>5. /\ d.leetcode /\ d.days = calendar /\ d.skills = skills /\ d.served = today
      /\ d.streak = IF calendar = {} THEN 0 ELSE n
  BY <1>2 DEF ParseLCDashboard
<1> HIDE DEF n
<1>6. d \in Data
  BY <1>1, <1>2, <1>3, <1>4 DEF ParseLCDashboard, Data, ServerFits, n
<1> HIDE DEF d
<1>7. Earned(active, d)
  BY <1>3, <1>5, <1>6 DEF Earned, ServerFits
<1> QED BY <1>7 DEF d

LEMMA StillEarned ==
  ASSUME NEW submitted, NEW d, NEW more, Earned(submitted, d), submitted \subseteq more
  PROVE  Earned(more, d)
BY DEF Earned

LEMMA NextPageInv == PageInv /\ [PageNext]_pageVars => PageInv'
<1> SUFFICES ASSUME PageInv, [PageNext]_pageVars PROVE PageInv'
  OBVIOUS
<1>1. ServerFits /\ AnswerFits /\ PanelFits /\ Waiting
  BY DEF PageInv
<1>2. MaxDay \in Nat
  BY DashboardAssumption
<1>3. now \in Nat /\ \E q \in Int, r \in 0..1 : UTCDay(now) = q /\ now = 2 * q + r
  <2>1. now \in Nat
    BY <1>1, <1>2 DEF ServerFits
  <2> QED BY <2>1, DayOf
<1>4. CASE Pass
  <2>1. now' \in 0..2 * MaxDay + 1
    BY <1>2, <1>3, <1>4 DEF Pass
  <2> QED BY <1>1, <1>4, <2>1
          DEF Pass, server, PageInv, ServerFits, AnswerFits, PanelFits, Waiting, ShowsSkeleton
<1>5. CASE Submit
  <2>1. UTCDay(now) \in 0..MaxDay
    BY <1>1, <1>2, <1>3 DEF ServerFits
  <2>2. ServerFits'
    BY <1>1, <1>5, <2>1 DEF Submit, server, ServerFits
  <2>3. AnswerFits' /\ PanelFits'
    BY <1>1, <1>5, StillEarned DEF Submit, AnswerFits, PanelFits
  <2> QED BY <1>1, <1>5, <2>2, <2>3 DEF Submit, PageInv, Waiting, ShowsSkeleton
<1>6. CASE Relink
  BY <1>1, <1>6
     DEF Relink, PageInv, ServerFits, AnswerFits, PanelFits, Waiting, ShowsSkeleton
<1>7. CASE Sync
  BY <1>1, <1>7
     DEF Sync, PageInv, ServerFits, AnswerFits, PanelFits, Waiting, ShowsSkeleton
<1>8. CASE Enter
  <2>1. ServerFits'
    BY <1>1, <1>8 DEF Enter, server, ServerFits
  <2>2. AnswerFits'
    BY <1>8, NoDataEarned DEF Enter, NoRequest, AnswerFits, Earned
  <2>3. PanelFits'
    BY <1>8, NoDataEarned DEF Enter, Closed, PanelFits, Earned
  <2>4. Waiting'
    BY <1>8 DEF Enter, Closed, NoRequest, Waiting, ShowsSkeleton
  <2> QED BY <2>1, <2>2, <2>3, <2>4 DEF PageInv
<1>9. CASE Leave
  <2>1. ServerFits'
    BY <1>1, <1>9 DEF Leave, server, ServerFits
  <2>2. AnswerFits'
    BY <1>9, NoDataEarned DEF Leave, NoRequest, AnswerFits, Earned
  <2>3. PanelFits'
    BY <1>9, NoDataEarned DEF Leave, Closed, PanelFits, Earned
  <2>4. Waiting'
    BY <1>9 DEF Leave, Closed, NoRequest, Waiting, ShowsSkeleton
  <2> QED BY <2>1, <2>2, <2>3, <2>4 DEF PageInv
<1>10. CASE GetDashboard
  <2>1. ServerFits' /\ PanelFits'
    BY <1>1, <1>10 DEF GetDashboard, server, ServerFits, PanelFits
  <2>2. PICK d : /\ pending' = [at |-> "ok", data |-> d] /\ Earned(active, d)
    BY <1>1, <1>10, NoDataEarned, AnswerEarned DEF GetDashboard
  <2>3. AnswerFits'
    BY <1>10, <2>2 DEF GetDashboard, AnswerFits, Earned
  <2>4. Waiting'
    BY <1>1, <1>10, <2>2 DEF GetDashboard, Waiting, ShowsSkeleton
  <2> QED BY <2>1, <2>3, <2>4 DEF PageInv
<1>11. CASE DashboardArrives \/ DashboardFails
  <2>1. PICK d : /\ page' = [page EXCEPT !.loading = FALSE, !.data = d, !.rendered = now]
                 /\ Earned(active, d)
    BY <1>1, <1>11, NoDataEarned DEF DashboardArrives, DashboardFails, AnswerFits
  <2>2. pending' = NoRequest /\ UNCHANGED <<now, offset, active, server>>
    BY <1>11 DEF DashboardArrives, DashboardFails
  <2>3. ServerFits'
    BY <1>1, <2>2 DEF server, ServerFits
  <2>4. AnswerFits'
    BY <2>2, NoDataEarned DEF NoRequest, AnswerFits, Earned
  <2>5. PanelFits'
    BY <1>1, <1>3, <2>1, <2>2 DEF PanelFits, Earned
  <2>6. Waiting'
    BY <1>1, <2>1, <2>2 DEF PanelFits, NoRequest, Waiting, ShowsSkeleton
  <2> QED BY <2>3, <2>4, <2>5, <2>6 DEF PageInv
<1>12. CASE Rerender
  <2>1. ServerFits' /\ AnswerFits'
    BY <1>1, <1>12 DEF Rerender, server, ServerFits, AnswerFits
  <2>2. PanelFits'
    BY <1>1, <1>3, <1>12 DEF Rerender, PanelFits
  <2>3. Waiting'
    BY <1>1, <1>12 DEF Rerender, PanelFits, Waiting, ShowsSkeleton
  <2> QED BY <2>1, <2>2, <2>3 DEF PageInv
<1>13. CASE UNCHANGED pageVars
  BY <1>1, <1>13
     DEF pageVars, server, PageInv, ServerFits, AnswerFits, PanelFits, Waiting, ShowsSkeleton
<1> QED BY <1>4, <1>5, <1>6, <1>7, <1>8, <1>9, <1>10, <1>11, <1>12, <1>13 DEF PageNext

\* In every behaviour of the dashboard page the parts of PageInv hold together.
THEOREM PageHolds == PageSpec => []PageInv
<1>1. PageInit => PageInv
  <2> SUFFICES ASSUME PageInit PROVE PageInv
    OBVIOUS
  <2>1. MaxDay \in Nat
    BY DashboardAssumption
  <2>2. ServerFits
    <3>1. 0 \in 0..2 * MaxDay + 1
      BY <2>1
    <3> QED BY <3>1 DEF PageInit, ServerFits
  <2>3. AnswerFits
    BY NoDataEarned DEF PageInit, NoRequest, AnswerFits, Earned
  <2>4. PanelFits
    BY NoDataEarned DEF PageInit, Closed, PanelFits, Earned
  <2>5. Waiting
    BY DEF PageInit, Closed, NoRequest, Waiting, ShowsSkeleton
  <2> QED BY <2>2, <2>3, <2>4, <2>5 DEF PageInv
<1>2. PageInv /\ [PageNext]_pageVars => PageInv'
  BY NextPageInv
<1> QED BY <1>1, <1>2, PTL DEF PageSpec

\* In every behaviour of the page the variables have their types, and the skeleton
\* is shown exactly while a request is under way.
THEOREM PageTypeCorrect == PageSpec => []PageTypeOK
<1>1. PageInv => PageTypeOK
  BY DEF PageInv, ServerFits, AnswerFits, PanelFits, Waiting, Data, PageTypeOK, ShowsSkeleton
<1> QED BY <1>1, PageHolds, PTL

\* In every behaviour, for every bound on the streak, the streak on the page runs
\* over days on which the user did submit, and leaves out none the calendar has.
THEOREM StreakWasEarned == PageSpec => []StreakIsEarned
<1>1. PageInv => StreakIsEarned
  BY DEF PageInv, PanelFits, Earned, StreakIsEarned
<1> QED BY <1>1, PageHolds, PTL

\* In every behaviour, for every number of weeks, of days of a week and of skills,
\* the calendar has one cell for each saved day of the full weeks that have ended and
\* none for any other, the current week's among them; and a skill has one tier.
THEOREM PanelsShowEachOnce == PageSpec => []PanelsAreExact
<1>1. PageInv => PanelsAreExact
  <2> SUFFICES ASSUME PageInv PROVE PanelsAreExact
    OBVIOUS
  <2>1. /\ page.data.days \subseteq active /\ active \subseteq Nat
        /\ page.data.skills \in Seq(Nat)
    <3>1. 0..MaxDay \subseteq Nat /\ SkillCounts \cup {<<>>} \subseteq Seq(Nat)
      <4>1. 0..MaxDay \subseteq Nat
        BY DashboardAssumption
      <4>2. SkillCounts \subseteq Seq(Nat) /\ <<>> \in Seq(Nat)
        BY DashboardAssumption, EmptySeq
      <4> QED BY <4>1, <4>2
    <3> QED BY <3>1 DEF PageInv, ServerFits, PanelFits, Earned, Data
  <2>2. Today \in Int
    <3>1. page.rendered + offset \in Int
      BY DashboardAssumption DEF PageInv, ServerFits, PanelFits
    <3> QED BY <3>1 DEF Today, LocalDay
  <2>3. \A cell \in Cells : Weekday(Date(cell)) = cell[2]
    BY <2>2, StartIsSunday, CellDates
  <2>4. \A cell \in Coloured : Date(cell) \in active
    BY <2>1 DEF Coloured
  <2>5. ASSUME NEW day \in page.data.days
        PROVE  Cardinality({cell \in Coloured : Date(cell) = day}) =
                 IF WeekEnd - Weeks * DaysPerWeek < day /\ day <= WeekEnd THEN 1 ELSE 0
    <3>1. day \in Int
      <4>1. day \in Nat
        BY <2>1, Zenon
      <4> QED BY <4>1
    <3>2. /\ StartDate \in Int /\ WeekEnd \in Int /\ Weeks * DaysPerWeek \in Int
          /\ WeekEnd = StartDate + Weeks * DaysPerWeek - 1 /\ WeekEnd <= Today
      BY <2>2, ColumnsEnd, WeeksSpan
    <3>3. (\E cell \in Cells : Date(cell) = day) <=>
            WeekEnd - Weeks * DaysPerWeek < day /\ day <= WeekEnd
      <4>1. (StartDate <= day /\ day < StartDate + Weeks * DaysPerWeek) <=>
              (WeekEnd - Weeks * DaysPerWeek < day /\ day <= WeekEnd)
        BY <3>1, <3>2
      <4> QED BY <2>2, <3>1, <4>1, DayHasCell
    <3>4. CASE WeekEnd - Weeks * DaysPerWeek < day /\ day <= WeekEnd
      <4>1. PICK cell \in Cells : Date(cell) = day
        BY <3>3, <3>4
      <4>2. day <= Today
        BY <2>2, <3>1, <3>2, <3>4
      <4>3. {c \in Coloured : Date(c) = day} = {cell}
        BY <2>2, <2>5, <4>1, <4>2, OneCellPerDay DEF Coloured
      <4> QED BY <3>4, <4>3, FS_Singleton
    <3>5. CASE ~(WeekEnd - Weeks * DaysPerWeek < day /\ day <= WeekEnd)
      <4>1. {c \in Coloured : Date(c) = day} = {}
        BY <3>3, <3>5 DEF Coloured
      <4> QED BY <3>5, <4>1, FS_EmptySet
    <3> QED BY <3>4, <3>5
  <2>6. LET counts == page.data.skills IN
          /\ \A s \in DOMAIN counts : Cardinality({k \in 1..4 : s \in Order(counts)[k]}) = 1
          /\ \A j, k \in 1..4 : j < k =>
               \A s \in Order(counts)[j], t \in Order(counts)[k] : counts[s] >= counts[t]
    BY <2>1, OneTier, TiersInOrder
  <2> QED BY <2>3, <2>4, <2>5, <2>6 DEF PanelsAreExact, Order
<1> QED BY <1>1, PageHolds, PTL
=============================================================================
