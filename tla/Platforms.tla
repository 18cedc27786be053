----------------------------- MODULE Platforms -----------------------------
(***************************************************************************)
(* Connected platforms and their stats: AccountsService, StatsService and  *)
(* the Codeforces and LeetCode clients, over the tables platform_accounts  *)
(* and user_stats and the Redis cache of upstream answers.                 *)
(*                                                                         *)
(* The value of an upstream answer is the handle it is about: what the     *)
(* properties tell apart is whose numbers are stored and shown, not which. *)
(* Endpoint 1 of a platform (user.info, /profile) must answer for a sync   *)
(* to go on; the answers of the others may be missing from the snapshot.   *)
(***************************************************************************)
EXTENDS Integers, Sequences, FiniteSetsExt

CONSTANTS
  Requests,   \* request slots: how many requests overlap
  Users,
  Platform,   \* the platforms
  Handles,    \* the handles there are on each platform
  Endpoints,  \* how many endpoints a sync asks each platform
  Cleared,    \* the endpoints whose cached answers Disconnect deletes
  MaxClock,   \* bound on the snapshots ever taken
  None

ASSUME PlatformsAssumption ==
  /\ Endpoints \in [Platform -> Nat \ {0}]
  /\ \A pl \in Platform : Cleared[pl] \subseteq 1..Endpoints[pl]
  /\ MaxClock \in Nat
  /\ \A pl \in Platform : None \notin Handles[pl]

AllHandles == UNION {Handles[pl] : pl \in Platform}

VARIABLES
  accounts,  \* platform_accounts: the handle of each user and platform, None
             \* without a row
  stats,     \* user_stats: the snapshots of each user and platform
  cache,     \* Redis: the answer under the key of a platform, endpoint, handle
  clock,     \* fetched_at of the latest snapshot
  req,       \* the local state of each request in flight
  announced  \* history: fetched_at of the latest snapshot that a successful
             \* sync has told its user of

vars == <<accounts, stats, cache, clock, req, announced>>
tables == <<accounts, stats>>

-----------------------------------------------------------------------------
Idle == [pc |-> "idle"]

Begin(p, r) == req[p] = Idle /\ req' = [req EXCEPT ![p] = r]

End(p) == req' = [req EXCEPT ![p] = Idle]

\* Nothing is left of what the request listed.
Exhausted(r) == \A pl \in Platform : r.todo[pl] = None

\* The server goes down, or a statement that the request needs fails.
Fail(p) ==
  /\ req[p] # Idle
  /\ End(p)
  /\ UNCHANGED <<tables, cache, clock, announced>>

-----------------------------------------------------------------------------
(* Connect and Disconnect.                                                 *)

\* A lookup that fails counts as "not connected".
ConnectCheck(p, u, pl, h) ==
  /\ \E lookupFails \in BOOLEAN : lookupFails \/ accounts[u][pl] = None
  /\ Begin(p, [pc |-> "connect", user |-> u, platform |-> pl, handle |-> h])
  /\ UNCHANGED <<tables, cache, clock, announced>>

\* The upsert: a row that another request inserted since changes its handle.
ConnectSave(p) ==
  LET r == req[p] IN
    /\ r.pc = "connect"
    /\ accounts' = [accounts EXCEPT ![r.user][r.platform] = r.handle]
    /\ End(p)
    /\ UNCHANGED <<stats, cache, clock, announced>>

DisconnectFind(p, u, pl) ==
  /\ accounts[u][pl] # None
  /\ Begin(p, [pc |-> "clear", user |-> u, platform |-> pl,
               handle |-> accounts[u][pl]])
  /\ UNCHANGED <<tables, cache, clock, announced>>

\* DEL of the keys of the handle; nobody looks whether it worked.
DisconnectClear(p) ==
  LET r == req[p] IN
    /\ r.pc = "clear"
    /\ req' = [req EXCEPT ![p].pc = "delete"]
    /\ \/ cache' = [cache EXCEPT ![r.platform] =
                      [e \in 1..Endpoints[r.platform] |->
                         IF e \in Cleared[r.platform] THEN [@[e] EXCEPT ![r.handle] = None] ELSE @[e]]]
       \/ UNCHANGED cache
    /\ UNCHANGED <<tables, clock, announced>>

\* DELETE by user and platform, whatever handle the row has by now.  The
\* snapshots in user_stats stay.
DisconnectDelete(p) ==
  LET r == req[p] IN
    /\ r.pc = "delete"
    /\ accounts' = [accounts EXCEPT ![r.user][r.platform] = None]
    /\ End(p)
    /\ UNCHANGED <<stats, cache, clock, announced>>

-----------------------------------------------------------------------------
(* SyncAll: for each listed account, ask every endpoint, insert a          *)
(* snapshot, stamp the account.  An account that fails is skipped.         *)

SyncList(p, u) ==
  /\ Begin(p, [pc |-> "sync", user |-> u, listed |-> accounts[u], todo |-> accounts[u],
               platform |-> None, parts |-> <<>>, at |-> 0,
               saved |-> [pl \in Platform |-> 0], failed |-> {}])
  /\ UNCHANGED <<tables, cache, clock, announced>>

SyncNext(p, pl) ==
  /\ req[p].pc = "sync"
  /\ req[p].todo[pl] # None
  /\ req' = [req EXCEPT ![p].pc = "ask", ![p].platform = pl]
  /\ UNCHANGED <<tables, cache, clock, announced>>

Handle(r) == r.todo[r.platform]

\* The loop goes on, done with the platform it was at.
Advanced(r) ==
  [r EXCEPT !.pc = "sync", !.todo[r.platform] = None, !.platform = None, !.parts = <<>>,
            !.at = 0]

Endpoint(r) == Len(r.parts) + 1

\* Mutation: the key of the cached answer does not name the handle.
KeyNoHandle(h) == CHOOSE k \in AllHandles : TRUE

\* The part of a cache key that tells the answers of an endpoint apart.
Key(h) == h

\* Mutation: the last endpoint is not waited for.
GotEarly(p, answer) ==
  LET r == [req[p] EXCEPT !.parts = Append(@, answer)] IN
    IF Len(r.parts) + 1 < Endpoints[r.platform]
      THEN /\ req' = [req EXCEPT ![p] = [r EXCEPT !.pc = "ask"]]
           /\ UNCHANGED clock
      ELSE /\ clock < MaxClock
           /\ clock' = clock + 1
           /\ req' = [req EXCEPT ![p] = [r EXCEPT !.pc = "insert", !.at = clock + 1]]

\* The answer of an endpoint is in.  After the last one the snapshot is put
\* together and dated, without another call in between.
Got(p, answer) ==
  LET r == [req[p] EXCEPT !.parts = Append(@, answer)] IN
    IF Len(r.parts) < Endpoints[r.platform]
      THEN /\ req' = [req EXCEPT ![p] = [r EXCEPT !.pc = "ask"]]
           /\ UNCHANGED clock
      ELSE /\ clock < MaxClock
           /\ clock' = clock + 1
           /\ req' = [req EXCEPT ![p] = [r EXCEPT !.pc = "insert", !.at = clock + 1]]

CacheHit(p) ==
  LET r == req[p] IN
    /\ r.pc = "ask"
    /\ cache[r.platform][Endpoint(r)][Key(Handle(r))] # None
    /\ Got(p, cache[r.platform][Endpoint(r)][Key(Handle(r))])
    /\ UNCHANGED <<tables, cache, announced>>

\* Nothing is cached, or its TTL has passed, or Redis does not answer.
CacheMiss(p) ==
  /\ req[p].pc = "ask"
  /\ req' = [req EXCEPT ![p].pc = "asked"]
  /\ UNCHANGED <<tables, cache, clock, announced>>

\* The platform answers, and the answer is cached.  An entry that Redis could
\* not store is one that later requests miss.
Upstream(p) ==
  LET r == req[p] IN
    /\ r.pc = "asked"
    /\ Got(p, Handle(r))
    /\ cache' = [cache EXCEPT ![r.platform][Endpoint(r)][Key(Handle(r))] = Handle(r)]
    /\ UNCHANGED <<tables, announced>>

\* Mutation: the sync of one platform ends the loop over all of them.
GiveUpAll(p) ==
  req' = [req EXCEPT ![p] = [Advanced(req[p]) EXCEPT !.todo = [pl \in Platform |-> None],
                                                     !.failed = @ \cup {req[p].platform}]]

\* The sync of one platform fails, and the loop goes on with the next.
GiveUp(p) ==
  req' = [req EXCEPT ![p] = [Advanced(req[p]) EXCEPT !.failed = @ \cup {req[p].platform}]]

\* The platform does not answer, after the retries of the client.
UpstreamFails(p) ==
  /\ req[p].pc = "asked"
  /\ \/ Endpoint(req[p]) = 1 /\ GiveUp(p) /\ UNCHANGED clock
     \/ Endpoint(req[p]) # 1 /\ Got(p, None)
  /\ UNCHANGED <<tables, cache, announced>>

SyncInsert(p) ==
  LET r == req[p]
      row == [handle |-> Handle(r), parts |-> r.parts, at |-> r.at]
  IN /\ r.pc = "insert"
     /\ stats' = [stats EXCEPT ![r.user][r.platform] = @ \cup {row}]
     /\ req' = [req EXCEPT ![p].pc = "stamp"]
     /\ UNCHANGED <<accounts, cache, clock, announced>>

\* UPDATE ... SET last_synced_at by user and platform: of whatever account there
\* is by now.  Only the answer of the sync depends on it.
SyncStamp(p) ==
  LET r == req[p] IN
    /\ r.pc = "stamp"
    /\ req' = [req EXCEPT ![p] = [Advanced(r) EXCEPT !.saved[r.platform] = r.at]]
    /\ UNCHANGED <<tables, cache, clock, announced>>

\* The insert or the stamp fails.
SyncWriteFails(p) ==
  /\ req[p].pc \in {"insert", "stamp"}
  /\ GiveUp(p)
  /\ UNCHANGED <<tables, cache, clock, announced>>

\* The answer is a success when no account failed.
SyncAnswer(p) ==
  LET r == req[p] IN
    /\ r.pc = "sync"
    /\ Exhausted(r)
    /\ announced' = IF r.failed # {} THEN announced
                    ELSE [announced EXCEPT ![r.user] =
                            [pl \in Platform |-> Max({@[pl], r.saved[pl]})]]
    /\ End(p)
    /\ UNCHANGED <<tables, cache, clock>>

-----------------------------------------------------------------------------
(* GetDashboard lists the accounts and reads the latest snapshot of each.  *)
(* It changes nothing, and snapshots are only ever added between its reads. *)

\* Mutation: some snapshot, in no particular order.
LatestAny(rows) == CHOOSE row \in rows : TRUE

\* ORDER BY fetched_at DESC LIMIT 1
Latest(rows) == CHOOSE row \in rows : \A other \in rows : other.at <= row.at

\* The platforms that the dashboard of u has something to show for.
OnDashboard(u) == {pl \in Platform : accounts[u][pl] # None /\ stats[u][pl] # {}}

-----------------------------------------------------------------------------
Init ==
  /\ accounts = [u \in Users |-> [pl \in Platform |-> None]]
  /\ stats = [u \in Users |-> [pl \in Platform |-> {}]]
  /\ cache = [pl \in Platform |-> [e \in 1..Endpoints[pl] |-> [h \in AllHandles |-> None]]]
  /\ clock = 0
  /\ req = [p \in Requests |-> Idle]
  /\ announced = [u \in Users |-> [pl \in Platform |-> 0]]

AccountSteps(p) ==
  \/ \E u \in Users, pl \in Platform : \E h \in Handles[pl] : ConnectCheck(p, u, pl, h)
  \/ ConnectSave(p)
  \/ \E u \in Users, pl \in Platform : DisconnectFind(p, u, pl)
  \/ DisconnectClear(p)
  \/ DisconnectDelete(p)

SyncSteps(p) ==
  \/ \E u \in Users : SyncList(p, u)
  \/ \E pl \in Platform : SyncNext(p, pl)
  \/ CacheHit(p) \/ CacheMiss(p)
  \/ Upstream(p) \/ UpstreamFails(p)
  \/ SyncInsert(p) \/ SyncStamp(p) \/ SyncWriteFails(p)
  \/ SyncAnswer(p)

Next == \E p \in Requests : AccountSteps(p) \/ SyncSteps(p) \/ Fail(p)

Spec == Init /\ [][Next]_vars

-----------------------------------------------------------------------------
Answers == AllHandles \cup {None}
Snapshot(pl) ==
  [handle : AllHandles, parts : [1..Endpoints[pl] -> Answers], at : 1..MaxClock]
Listing == [Platform -> Answers]
Times == [Platform -> 0..MaxClock]

\* The snapshot of pl that is being put together.
Parts(pl) == UNION {[1..n -> Answers] : n \in 0..Endpoints[pl]}

Looping ==
  [pc : {"sync"}, user : Users, listed : Listing, todo : Listing,
   platform : {None}, parts : {<<>>}, at : {0}, saved : Times,
   failed : SUBSET Platform]

Syncing(pl) ==
  [pc : {"ask", "asked", "insert", "stamp"}, user : Users, listed : Listing,
   todo : Listing, platform : {pl}, parts : Parts(pl), at : 0..MaxClock, saved : Times,
   failed : SUBSET Platform]

Request ==
  {Idle}
  \cup [pc : {"connect", "clear", "delete"}, user : Users, platform : Platform,
        handle : AllHandles]
  \cup Looping \cup UNION {Syncing(pl) : pl \in Platform}

\* Types: rows are whole, and a snapshot has a part for every endpoint.
TypeOK ==
  /\ accounts \in [Users -> Listing]
  /\ \A u \in Users, pl \in Platform : \A row \in stats[u][pl] : row \in Snapshot(pl)
  /\ \A pl \in Platform : cache[pl] \in [1..Endpoints[pl] -> [AllHandles -> Answers]]
  /\ clock \in 0..MaxClock
  /\ \A p \in Requests : req[p] \in Request
  /\ announced \in [Users -> Times]

\* A snapshot is about one handle: whatever is cached for other handles, whoever
\* fetched it, and however the account changed while the sync was running.  What
\* the platform must answer is there.
SnapshotsAreOfOneHandle ==
  \A u \in Users, pl \in Platform : \A row \in stats[u][pl] :
    /\ row.parts[1] = row.handle
    /\ \A e \in 1..Endpoints[pl] : row.parts[e] \in {row.handle, None}

\* When a sync is about to answer, every account it listed was either saved or
\* is reported as failed: one platform that is down does not keep the other from
\* syncing, and is not passed over in silence.
SyncAccountsForAll ==
  \A p \in Requests :
    req[p].pc = "sync" /\ Exhausted(req[p]) =>
      \A pl \in Platform :
        req[p].listed[pl] # None =>
          \/ pl \in req[p].failed
          \/ \E row \in stats[req[p].user][pl] :
               row.at = req[p].saved[pl] /\ row.handle = req[p].listed[pl]

\* "Sync complete": a dashboard that is opened after a sync was answered shows
\* numbers at least as new as that sync saved, although a slower sync of the same
\* account may insert an older snapshot later.
DashboardKeepsUp ==
  \A u \in Users : \A pl \in Platform :
    announced[u][pl] # 0 =>
      /\ stats[u][pl] # {}
      /\ pl \in OnDashboard(u) => Latest(stats[u][pl]).at >= announced[u][pl]
=============================================================================
