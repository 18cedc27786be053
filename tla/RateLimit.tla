----------------------------- MODULE RateLimit -----------------------------
(***************************************************************************)
(* The fixed-window rate limiter: middleware RateLimit over                *)
(* RedisCache.Incr, for one key ratelimit:<group>:<ip>.  Keys do not       *)
(* interact.                                                               *)
(*                                                                         *)
(* INCR and EXPIRE are two commands.  Only the request that INCR answers   *)
(* with 1 sends EXPIRE, it does not look at EXPIRE's answer, and other     *)
(* requests and the clock run between the two.  Redis itself keeps its     *)
(* keys for as long as their TTL says.                                     *)
(***************************************************************************)
EXTENDS Integers, Sequences

CONSTANTS
  Max,       \* requests admitted in a window (10 for auth, 60 for api)
  Window,    \* length of a window, in ticks
  Horizon,   \* bound: the clock stops at this tick
  MaxCount,  \* bound: the counter is not driven past this value
  NoTTL      \* the deadline of a key without a TTL

ASSUME RateLimitAssumption ==
  /\ Max \in Nat \ {0}
  /\ Window \in Nat \ {0}
  /\ Horizon \in Nat
  /\ MaxCount \in Nat
  /\ NoTTL \notin Nat

VARIABLES
  now,       \* the clock
  count,     \* the value of the key, 0 when there is no key
  deadline,  \* when the key expires
  expiring,  \* the first request of the window has yet to send EXPIRE
  life,      \* history: how many times the key was created
  opened,    \* history: when the key was last created
  admitted   \* history: when, and in which life of the key, each counted
             \* request was let through

limiterVars == <<now, count, deadline, expiring, life, opened, admitted>>

-----------------------------------------------------------------------------
\* Mutation: one request too many.
OverMaxByOne(n) == n > Max + 1

\* The middleware answers 429.
OverMax(n) == n > Max

\* Mutation: every request sets the TTL again.
FirstAlways(n) == n >= 1

\* RedisCache.Incr goes on to set the TTL.
First(n) == n = 1

(***************************************************************************)
(* INCR counts a request: a key that is not there is created with value 1  *)
(* and no TTL.                                                             *)
(***************************************************************************)
Incr ==
  LET n == count + 1
      created == count = 0
      k == IF created THEN life + 1 ELSE life
  IN /\ count < MaxCount
     /\ count' = n
     /\ expiring' = (expiring \/ First(n))
     /\ life' = k
     /\ opened' = IF created THEN now ELSE opened
     /\ admitted' = IF OverMax(n) THEN admitted
                    ELSE Append(admitted, [at |-> now, life |-> k])
     /\ UNCHANGED <<now, deadline>>

\* Mutation: the window has the wrong sign.
ExpireNegative ==
  /\ expiring
  /\ expiring' = FALSE
  /\ deadline' = IF count = 0 THEN NoTTL ELSE now - Window
  /\ UNCHANGED <<now, count, life, opened, admitted>>

\* EXPIRE arrives: the window lasts from this moment.
Expire ==
  /\ expiring
  /\ expiring' = FALSE
  /\ deadline' = IF count = 0 THEN NoTTL ELSE now + Window
  /\ UNCHANGED <<now, count, life, opened, admitted>>

\* EXPIRE fails, or the server goes down before it sends it.
ExpireLost ==
  /\ expiring
  /\ expiring' = FALSE
  /\ UNCHANGED <<now, count, deadline, life, opened, admitted>>

\* A tick; a key is gone once its deadline has come.
Tick ==
  /\ now < Horizon
  /\ now' = now + 1
  /\ IF deadline = now + 1
       THEN count' = 0 /\ deadline' = NoTTL
       ELSE UNCHANGED <<count, deadline>>
  /\ UNCHANGED <<expiring, life, opened, admitted>>

LimiterInit ==
  /\ now = 0
  /\ count = 0
  /\ deadline = NoTTL
  /\ expiring = FALSE
  /\ life = 0
  /\ opened = 0
  /\ admitted = <<>>

LimiterNext == Incr \/ Expire \/ ExpireLost \/ Tick

LimiterSpec == LimiterInit /\ [][LimiterNext]_limiterVars

-----------------------------------------------------------------------------
\* Types, and the ranges the bounds give.
LimiterTypeOK ==
  /\ now \in Nat
  /\ count \in 0..MaxCount
  /\ deadline \in Nat \cup {NoTTL}
  /\ expiring \in BOOLEAN
  /\ life \in Nat
  /\ opened \in 0..now
  /\ admitted \in Seq([at : Nat, life : Nat])

\* However the window falls, and however late the TTL is set, no more than
\* 2 * Max counted requests are let through in any Window consecutive ticks.
Throttled ==
  \A i \in 1..Len(admitted) :
    i + 2 * Max <= Len(admitted) =>
      admitted[i + 2 * Max].at - admitted[i].at >= Window

\* Once the end of the window is set, no request moves it: a client that keeps
\* trying while it is refused does not lock itself out for longer.
WindowIsFixed ==
  [][deadline # NoTTL /\ deadline' # NoTTL => deadline' = deadline]_limiterVars

\* The TTL of the key was lost: nobody is left who would set it.
Stuck == count # 0 /\ deadline = NoTTL /\ ~expiring

\* A key that lost its TTL never gets one: only a first request would set it,
\* and the counter only grows.  (Incr is documented to set the TTL atomically.)
StuckForGood == [][Stuck => Stuck']_limiterVars
=============================================================================
