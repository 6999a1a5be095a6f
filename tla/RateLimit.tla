------------------------------ MODULE RateLimit ------------------------------
(***************************************************************************)
(* The bucket in front of a route: redis/rate-limit.ts, the script of      *)
(* redis/lua.scripts.ts, and the connection of redis/client.ts.  One key,  *)
(* the servers that share it, and the requests they serve at once.         *)
(*                                                                         *)
(* Tokens come in parts, so that what a tick refills is a whole number.    *)
(***************************************************************************)
EXTENDS Integers

CONSTANTS Capacity,  \* of the bucket, in parts
          Cost,      \* of a request
          Rate,      \* parts a tick refills
          Second,    \* ticks in a second: what is told and set to expire is in seconds
          Request,   \* requests served at the same time
          Server, ServerOf,
          MaxTime, MaxOutages  \* bounds

ASSUME RateAssumption ==
  /\ Capacity \in Nat /\ Cost \in 1..Capacity
  /\ Rate \in Nat \ {0} /\ Second \in Nat \ {0}
  /\ ServerOf \in [Request -> Server]
  /\ MaxTime \in Nat /\ MaxOutages \in Nat

VARIABLES
  clock,     \* of Redis
  there, left, stamp, expires,  \* the key: its tokens, and when they were counted
  link,      \* each server's connection: "cold" (not ready yet), "ready", "down"
  closed,    \* the route fails closed
  asking,    \* requests whose script is on its way
  since,     \* history: when one began to count,
  passed,    \* and the parts that requests have paid and passed with since
  promise,   \* history: when a request that was refused may come again, 0 if none
  unmetered, \* history: a request passed without the script, or the key was lost
  outages

bucket   == <<there, left, stamp, expires>>
rateVars == <<clock, bucket, link, closed, asking, since, passed, promise, unmetered, outages>>

RateTypeOK ==
  /\ clock \in Nat /\ there \in BOOLEAN
  /\ left \in 0..Capacity /\ stamp \in 0..clock /\ expires \in Nat
  /\ link \in [Server -> {"cold", "ready", "down"}] /\ closed \in BOOLEAN
  /\ asking \in SUBSET Request
  /\ since \in 0..clock /\ passed \in Nat /\ promise \in Nat
  /\ unmetered \in BOOLEAN /\ outages \in Nat

RateInit ==
  /\ clock = 0 /\ there = FALSE /\ left = 0 /\ stamp = 0 /\ expires = 0
  /\ link = [s \in Server |-> "cold"] /\ closed \in BOOLEAN
  /\ asking = {}
  /\ since = 0 /\ passed = 0 /\ promise = 0 /\ unmetered = FALSE
  /\ outages = 0

Min2(x, y) == IF x < y THEN x ELSE y
\* How many whole seconds refill that many parts.
Seconds(parts) == (parts + Rate * Second - 1) \div (Rate * Second)

(***************************************************************************)
(* consumeBucket: it runs as a whole.                                      *)
(***************************************************************************)
Level == IF there /\ clock < expires THEN Min2(Capacity, left + Rate * (clock - stamp)) ELSE Capacity

Retry(x) == clock + Second * Seconds(Cost - x)

\* Mutant of ConsumeBucket: what is refused does not move the stamp.
ConsumeBucket_Unstamped ==
  LET ok == Level >= Cost IN
    /\ there' = TRUE
    /\ left' = IF ok THEN Level - Cost ELSE Level
    /\ stamp' = IF ok \/ ~there THEN clock ELSE stamp
    /\ expires' = clock + Second * Seconds(Capacity)

ConsumeBucket ==
  /\ there' = TRUE
  /\ left' = IF Level >= Cost THEN Level - Cost ELSE Level
  /\ stamp' = clock
  /\ expires' = clock + Second * Seconds(Capacity)

(***************************************************************************)
(* checkAndApplyLimit.                                                     *)
(***************************************************************************)
Pass == passed' = passed + Cost

\* Not ready: a route that fails closed refuses when this is an outage, not when the
\* server has only just started.
Unready(r) ==
  /\ link[ServerOf[r]] # "ready" /\ r \notin asking
  /\ IF closed /\ link[ServerOf[r]] = "down"
       THEN UNCHANGED unmetered
       ELSE unmetered' = TRUE
  /\ UNCHANGED <<clock, bucket, link, closed, asking, since, passed, promise, outages>>

Ask(r) ==
  /\ link[ServerOf[r]] = "ready" /\ r \notin asking
  /\ asking' = asking \cup {r}
  /\ UNCHANGED <<clock, bucket, link, closed, since, passed, promise, unmetered, outages>>

Answer(r) ==
  /\ r \in asking
  /\ asking' = asking \ {r}
  /\ ConsumeBucket
  /\ IF Level >= Cost THEN Pass /\ promise' = 0 ELSE promise' = Retry(Level) /\ UNCHANGED passed
  /\ UNCHANGED <<clock, link, closed, since, unmetered, outages>>

\* The connection breaks: the script may have run, its answer is lost.
AskFails(r) ==
  /\ r \in asking /\ outages < MaxOutages
  /\ asking' = asking \ {r} /\ outages' = outages + 1
  /\ ConsumeBucket \/ UNCHANGED bucket
  /\ unmetered' = (unmetered \/ ~closed)
  /\ promise' = 0
  /\ UNCHANGED <<clock, link, closed, since, passed>>

\* ... or the client sends the script again, once it has another connection: it runs twice.
Resent(r) ==
  /\ r \in asking /\ outages < MaxOutages
  /\ outages' = outages + 1
  /\ ConsumeBucket
  /\ promise' = 0
  /\ UNCHANGED <<clock, link, closed, asking, since, passed, unmetered>>

(***************************************************************************)
(* Connections, Redis and time.                                            *)
(***************************************************************************)
Ready(s) ==
  /\ link[s] # "ready"
  /\ link' = [link EXCEPT ![s] = "ready"]
  /\ UNCHANGED <<clock, bucket, closed, asking, since, passed, promise, unmetered, outages>>

\* A connection that was ready breaks, or one that never was has had five seconds.
Down(s) ==
  /\ link[s] # "down" /\ outages < MaxOutages
  /\ outages' = outages + 1
  /\ link' = [link EXCEPT ![s] = "down"]
  /\ UNCHANGED <<clock, bucket, closed, asking, since, passed, promise, unmetered>>

\* A server starts again: what it was serving is gone.
Restart(s) ==
  /\ outages < MaxOutages
  /\ outages' = outages + 1
  /\ link' = [link EXCEPT ![s] = "cold"]
  /\ asking' = {r \in asking : ServerOf[r] # s}
  /\ UNCHANGED <<clock, bucket, closed, since, passed, promise, unmetered>>

\* Redis comes back without its keys.
Forget ==
  /\ there /\ outages < MaxOutages
  /\ outages' = outages + 1
  /\ there' = FALSE
  /\ promise' = 0 /\ unmetered' = TRUE
  /\ UNCHANGED <<clock, left, stamp, expires, link, closed, asking, since, passed>>

Tick ==
  /\ clock < MaxTime
  /\ clock' = clock + 1
  /\ UNCHANGED <<bucket, link, closed, asking, since, passed, promise, unmetered, outages>>

\* One begins to count, at any time.
Count ==
  /\ since' = clock /\ passed' = 0 /\ unmetered' = FALSE
  /\ UNCHANGED <<clock, bucket, link, closed, asking, promise, outages>>

RateNext ==
  \/ \E r \in Request : Unready(r) \/ Ask(r) \/ Answer(r) \/ AskFails(r) \/ Resent(r)
  \/ \E s \in Server : Ready(s) \/ Down(s) \/ Restart(s)
  \/ Forget \/ Tick \/ Count

RateSpec == RateInit /\ [][RateNext]_rateVars

(***************************************************************************)
(* Properties.                                                             *)
(***************************************************************************)
\* However many servers and requests, and whenever one begins to count: what passes is
\* never more than the capacity and what time has refilled since.  This is so while every
\* request is put to the script; a route that fails closed gives it up only while a
\* server has just started, and when Redis loses the key.
LimitHolds == ~unmetered => passed <= Capacity + Rate * (clock - since)

\* Whoever waits for as long as Retry-After says is let through, if nobody else was.
RetryIsEnough == promise # 0 /\ clock >= promise => Level >= Cost
=============================================================================
