----------------------------- MODULE CacheAside -----------------------------
(***************************************************************************)
(* The cache of redis/cache.ts as the servers share it: values are read    *)
(* from the tables on a miss and stored, invalidated after a write, and all*)
(* cleared when a connection comes back after which an invalidation may    *)
(* have been skipped.                                                      *)
(*                                                                         *)
(* What is cached is left to the module that extends this one.             *)
(***************************************************************************)
EXTENDS Naturals

CONSTANTS Node,
          Key,
          Req,     \* handlers running at the same time
          Runs,    \* the server each of them runs on
          Clear,   \* clears one server may have under way at once
          Missing,
          Faults   \* bound: connections that break, calls that reject, crashes

ASSUME CacheAssumption ==
  /\ Runs \in [Req -> Node]
  /\ \A K \in SUBSET Key : K # Missing
  /\ Node \cap {"fresh", "overtaken", "passed", "forgotten"} = {}
  /\ Faults \in Nat

VARIABLES
  entry,   \* what Redis holds: a value, and (history) why it may be wrong
  mode,    \* state of makeCache on each server
  stale,   \* its needsClear
  linked,  \* its connection is ready
  left,    \* keys each clear of a server has still to delete, or Missing
  retry,   \* its timer after a clear that failed
  fill,    \* the cacheAside call of each handler
  owed,    \* keys each handler has still to invalidate
  faults

cacheVars == <<entry, mode, stale, linked, left, retry, fill, owed, faults>>
servers   == <<mode, stale, linked, left, retry>>

NoFill == [at |-> "none", key |-> Missing, val |-> Missing, old |-> FALSE]

CacheInit ==
  /\ entry = [k \in Key |-> Missing]
  /\ mode = [s \in Node |-> "usable"] /\ stale = [s \in Node |-> FALSE]
  /\ linked = [s \in Node |-> TRUE]
  /\ left = [s \in Node |-> [c \in Clear |-> Missing]]
  /\ retry = [s \in Node |-> FALSE]
  /\ fill = [r \in Req |-> NoFill] /\ owed = [r \in Req |-> {}]
  /\ faults = 0

isCacheUsable(s) == mode[s] = "usable" /\ linked[s]

Fault == faults < Faults /\ faults' = faults + 1

(***************************************************************************)
(* Reading: a hit changes nothing; a miss loads, unless another call of the*)
(* same server is loading that key, and stores what it has loaded.         *)
(***************************************************************************)
Miss(r, k) ==
  /\ fill[r].at = "none" /\ owed[r] = {}
  /\ isCacheUsable(Runs[r])
  /\ entry[k] = Missing
  /\ \A q \in Req : Runs[q] = Runs[r] => fill[q].key # k
  /\ fill' = [fill EXCEPT ![r] = [at |-> "load", key |-> k, val |-> Missing, old |-> FALSE]]
  /\ UNCHANGED <<entry, servers, owed, faults>>

\* The loader has read v; it may have more to read.
Load(r, v, more) ==
  /\ fill' = [fill EXCEPT ![r].at = IF more THEN "more" ELSE "set", ![r].val = v]
  /\ UNCHANGED <<entry, servers, owed, faults>>

Store(r) ==
  /\ fill[r].at = "set"
  /\ fill' = [fill EXCEPT ![r] = NoFill]
  /\ \/ /\ isCacheUsable(Runs[r])
        /\ entry' = [entry EXCEPT ![fill[r].key] =
             [val |-> fill[r].val, why |-> IF fill[r].old THEN "overtaken" ELSE "fresh"]]
        /\ UNCHANGED faults
     \/ ~isCacheUsable(Runs[r]) /\ UNCHANGED <<entry, faults>>
     \/ Fault /\ UNCHANGED entry
  /\ UNCHANGED <<servers, owed>>

Expire(k) ==
  /\ entry[k] # Missing
  /\ entry' = [entry EXCEPT ![k] = Missing]
  /\ UNCHANGED <<servers, fill, owed, faults>>

(***************************************************************************)
(* Invalidating, after a write.                                            *)
(***************************************************************************)
\* An entry that stays although it should go, and what is to happen to it.
Blame(s, k) ==
  IF entry[k] = Missing THEN entry
  ELSE [entry EXCEPT ![k].why =
    IF \E c \in Clear : left[s][c] # Missing /\ k \notin left[s][c] THEN "passed" ELSE s]

\* Mutant of MarkStale: during an outage nothing is remembered.
MarkStale_WhenUp(s) == stale' = IF mode[s] = "usable" THEN [stale EXCEPT ![s] = TRUE] ELSE stale

MarkStale(s) == stale' = IF mode[s] = "clearing" THEN stale ELSE [stale EXCEPT ![s] = TRUE]

Invalidate(r, k) ==
  LET s == Runs[r] IN
  /\ k \in owed[r]
  /\ owed' = [owed EXCEPT ![r] = @ \ {k}]
  /\ \/ /\ isCacheUsable(s)
        /\ entry' = [entry EXCEPT ![k] = Missing]
        /\ UNCHANGED <<stale, faults>>
     \/ ~isCacheUsable(s) /\ MarkStale(s) /\ entry' = Blame(s, k) /\ UNCHANGED faults
     \/ isCacheUsable(s) /\ Fault /\ MarkStale(s) /\ entry' = Blame(s, k)
  /\ UNCHANGED <<mode, linked, left, retry, fill>>

(***************************************************************************)
(* The connection of a server.                                             *)
(***************************************************************************)
\* onReady: the cache is used again, after a clear if one is needed.
OnReady(s) ==
  IF mode[s] # "down" THEN UNCHANGED <<mode, left>>
  ELSE \/ /\ ~stale[s]
          /\ mode' = [mode EXCEPT ![s] = "usable"] /\ UNCHANGED left
       \/ /\ stale[s]
          /\ mode' = [mode EXCEPT ![s] = "clearing"]
          /\ \E c \in Clear : left[s][c] = Missing /\ left' = [left EXCEPT ![s][c] = Key]

Ready(s) ==
  /\ ~linked[s]
  /\ linked' = [linked EXCEPT ![s] = TRUE]
  /\ OnReady(s)
  /\ UNCHANGED <<entry, stale, retry, fill, owed, faults>>

Break(s) ==
  /\ linked[s] /\ Fault
  /\ linked' = [linked EXCEPT ![s] = FALSE]
  /\ stale' = [stale EXCEPT ![s] = @ \/ mode[s] = "usable"]
  /\ mode' = [mode EXCEPT ![s] = "down"]
  /\ UNCHANGED <<entry, left, retry, fill, owed>>

\* A clear that was under way when the connection broke goes on with the next one
\* (ioredis sends again what was unanswered, maxRetriesPerRequest), or fails.
DeleteMatching(s, c, k) ==
  /\ linked[s] /\ left[s][c] # Missing /\ k \in left[s][c]
  /\ left' = [left EXCEPT ![s][c] = @ \ {k}]
  /\ entry' = [entry EXCEPT ![k] = Missing]
  /\ UNCHANGED <<mode, stale, linked, retry, fill, owed, faults>>

ClearDone(s, c) ==
  /\ left[s][c] = {}
  /\ left' = [left EXCEPT ![s][c] = Missing]
  /\ stale' = [stale EXCEPT ![s] = FALSE]
  /\ mode' = IF mode[s] # "clearing" THEN mode
             ELSE [mode EXCEPT ![s] = IF linked[s] THEN "usable" ELSE "down"]
  /\ UNCHANGED <<entry, linked, retry, fill, owed, faults>>

\* Mutant of ClearFails: nothing tries again.
ClearFails_NoTimer(s, c) ==
  /\ left[s][c] # Missing
  /\ IF linked[s] THEN Fault ELSE UNCHANGED faults
  /\ left' = [left EXCEPT ![s][c] = Missing]
  /\ mode' = IF mode[s] = "clearing" THEN [mode EXCEPT ![s] = "down"] ELSE mode
  /\ UNCHANGED <<entry, stale, linked, retry, fill, owed>>

ClearFails(s, c) ==
  /\ left[s][c] # Missing
  /\ IF linked[s] THEN Fault ELSE UNCHANGED faults
  /\ left' = [left EXCEPT ![s][c] = Missing]
  /\ IF mode[s] = "clearing"
       THEN mode' = [mode EXCEPT ![s] = "down"] /\ retry' = [retry EXCEPT ![s] = TRUE]
       ELSE UNCHANGED <<mode, retry>>
  /\ UNCHANGED <<entry, stale, linked, fill, owed>>

ClearAgain(s) ==
  /\ retry[s]
  /\ retry' = [retry EXCEPT ![s] = FALSE]
  /\ IF linked[s] THEN OnReady(s) ELSE UNCHANGED <<mode, left>>
  /\ UNCHANGED <<entry, stale, linked, fill, owed, faults>>

\* A server dies and starts again: what it had still to invalidate or to clear is
\* forgotten.
Crash(s) ==
  /\ Fault
  /\ linked' = [linked EXCEPT ![s] = FALSE] /\ mode' = [mode EXCEPT ![s] = "down"]
  /\ stale' = [stale EXCEPT ![s] = FALSE] /\ retry' = [retry EXCEPT ![s] = FALSE]
  /\ left' = [left EXCEPT ![s] = [c \in Clear |-> Missing]]
  /\ fill' = [r \in Req |-> IF Runs[r] = s THEN NoFill ELSE fill[r]]
  /\ owed' = [r \in Req |-> IF Runs[r] = s THEN {} ELSE owed[r]]
  /\ entry' = [k \in Key |->
       IF /\ entry[k] # Missing
          /\ entry[k].why = s \/ \E r \in Req : Runs[r] = s /\ k \in owed[r]
         THEN [entry[k] EXCEPT !.why = "forgotten"] ELSE entry[k]]

CacheStep(s) ==
  \/ Ready(s) \/ Break(s) \/ ClearAgain(s)
  \/ \E c \in Clear : ClearDone(s, c) \/ ClearFails(s, c)
  \/ \E c \in Clear, k \in Key : DeleteMatching(s, c, k)

\* Clears and timers go on.
CacheFairness ==
  \A s \in Node :
    /\ WF_cacheVars(ClearAgain(s))
    /\ \A c \in Clear : WF_cacheVars(ClearDone(s, c) \/ ClearFails(s, c))
                        /\ \A k \in Key : WF_cacheVars(DeleteMatching(s, c, k))

(***************************************************************************)
(* Properties.                                                             *)
(***************************************************************************)
\* An invalidation that could not reach Redis is made good by a clear: the server
\* remembers it until it has cleared ("the next reconnect clears the namespace
\* instead", redis/cache.ts:179).
SkippedIsRemembered ==
  \A k \in Key : entry[k] # Missing /\ entry[k].why \in Node => stale[entry[k].why]

\* A server whose connection is up uses the cache again in the end.
CacheComesBack == \A s \in Node : linked[s] ~> isCacheUsable(s) \/ ~linked[s]
=============================================================================
