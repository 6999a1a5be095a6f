----------------------------- MODULE IceTrickle -----------------------------
(***************************************************************************)
(* Trickled ICE candidates of one call, in both directions: the queue of   *)
(* apps/web/src/features/calls/call-context.tsx behind the relay of        *)
(* calls/signaling.ts.                                                     *)
(*                                                                         *)
(* A browser emits its description before its candidates, but the server   *)
(* handles each event in a handler of its own: the one of an offer makes   *)
(* three database calls before it relays, the one of a candidate makes one,*)
(* so what one socket sent is relayed in any order.                        *)
(***************************************************************************)
EXTENDS Sequences

CONSTANTS Cand,         \* the candidates each side gathers
          Description   \* not one of them: stands for the description

ASSUME CandAssumption == Description \notin Cand

Side == {"caller", "callee"}
Other(p) == IF p = "caller" THEN "callee" ELSE "caller"

VARIABLES
  at,       \* how far each browser is with the call
  cands,    \* what was relayed to each browser and it has not read
  sent,     \* what each browser emitted and no handler has relayed yet
  unsent,   \* candidates each browser has not gathered yet
  pending,  \* pendingCandidates.current
  flush,    \* what flushCandidates has still to add
  added,    \* candidates given to the peer connection
  heard     \* history: candidates that arrived while the browser was in the call

iceVars == <<at, cands, sent, unsent, pending, flush, added, heard>>

\* "off": not in the call yet, chatIdRef is null.  "ringing": the offer is held.
\* "waiting": the peer connection has no remote description.  "setting":
\* setRemoteDescription is under way.  "flushing": it is set and the queue is
\* being added.  "done".  "over": torn down, chatIdRef is null again.
Stage == {"off", "ringing", "waiting", "setting", "flushing", "done", "over"}

Listening(p) == at[p] \notin {"off", "over"}
Described(p) == at[p] \in {"flushing", "done"}

IceInit ==
  /\ at = [p \in Side |-> "off"]
  /\ cands = [p \in Side |-> <<>>]
  /\ sent = [p \in Side |-> {}]
  /\ unsent = [p \in Side |-> Cand]
  /\ pending = [p \in Side |-> {}]
  /\ flush = [p \in Side |-> {}]
  /\ added = [p \in Side |-> {}]
  /\ heard = [p \in Side |-> {}]

Enter(p, s) == at' = [at EXCEPT ![p] = s]

\* startCall: the local description is set and the offer emitted.
EmitOffer ==
  /\ at["caller"] = "off"
  /\ Enter("caller", "waiting")
  /\ sent' = [sent EXCEPT !["caller"] = @ \cup {Description}]
  /\ UNCHANGED <<cands, unsent, pending, flush, added, heard>>

\* onicecandidate, once the local description is set.
Gather(p) ==
  /\ IF p = "caller" THEN Listening(p) ELSE at[p] = "done"
  /\ \E c \in unsent[p] :
       /\ unsent' = [unsent EXCEPT ![p] = @ \ {c}]
       /\ sent' = [sent EXCEPT ![p] = @ \cup {c}]
  /\ UNCHANGED <<at, cands, pending, flush, added, heard>>

\* A handler of the server comes to its relay.
RelayIce(p) ==
  /\ \E x \in sent[p] :
       /\ sent' = [sent EXCEPT ![p] = @ \ {x}]
       /\ cands' = [cands EXCEPT ![Other(p)] = Append(@, x)]
  /\ UNCHANGED <<at, unsent, pending, flush, added, heard>>

Read(p) == cands' = [cands EXCEPT ![p] = Tail(@)]

\* call:incoming and call:answered.
OnDescription(p) ==
  /\ cands[p] # <<>> /\ Head(cands[p]) = Description
  /\ Read(p)
  /\ at' = CASE p = "callee" /\ at[p] = "off"     -> [at EXCEPT ![p] = "ringing"]
             [] p = "caller" /\ at[p] = "waiting" -> [at EXCEPT ![p] = "setting"]
             [] OTHER -> at
  /\ UNCHANGED <<sent, unsent, pending, flush, added, heard>>

\* Mutant of OnCandidate: no queue.
OnCandidate_NoQueue(p) ==
  /\ cands[p] # <<>> /\ Head(cands[p]) # Description
  /\ Read(p)
  /\ LET c == Head(cands[p]) IN
       /\ heard' = [heard EXCEPT ![p] = IF Listening(p) THEN @ \cup {c} ELSE @]
       /\ added' = [added EXCEPT ![p] = IF Described(p) THEN @ \cup {c} ELSE @]
  /\ UNCHANGED <<at, sent, unsent, pending, flush>>

\* call:ice-candidate.
OnCandidate(p) ==
  /\ cands[p] # <<>> /\ Head(cands[p]) # Description
  /\ Read(p)
  /\ LET c == Head(cands[p]) IN
       \/ /\ ~Listening(p)
          /\ UNCHANGED <<pending, added, heard>>
       \/ /\ Listening(p) /\ ~Described(p)
          /\ pending' = [pending EXCEPT ![p] = @ \cup {c}]
          /\ heard' = [heard EXCEPT ![p] = @ \cup {c}]
          /\ UNCHANGED added
       \/ /\ Described(p)
          /\ added' = [added EXCEPT ![p] = @ \cup {c}]
          /\ heard' = [heard EXCEPT ![p] = @ \cup {c}]
          /\ UNCHANGED pending
  /\ UNCHANGED <<at, sent, unsent, flush>>

\* accept: the user picks up and the peer connection is created.
PickUp ==
  /\ at["callee"] = "ringing"
  /\ Enter("callee", "waiting")
  /\ UNCHANGED <<cands, sent, unsent, pending, flush, added, heard>>

\* The callee goes on from its own await, the caller from the answer's.
SetRemote(p) ==
  /\ at[p] = IF p = "callee" THEN "waiting" ELSE "setting"
  /\ Enter(p, "flushing")
  /\ flush' = [flush EXCEPT ![p] = pending[p]]
  /\ pending' = [pending EXCEPT ![p] = {}]
  /\ UNCHANGED <<cands, sent, unsent, added, heard>>

FlushOne(p) ==
  /\ at[p] = "flushing"
  /\ \E c \in flush[p] :
       /\ flush' = [flush EXCEPT ![p] = @ \ {c}]
       /\ added' = [added EXCEPT ![p] = @ \cup {c}]
  /\ UNCHANGED <<at, cands, sent, unsent, pending, heard>>

\* flushCandidates returns; the callee then answers.
Flushed(p) ==
  /\ at[p] = "flushing" /\ flush[p] = {}
  /\ Enter(p, "done")
  /\ sent' = IF p = "callee" THEN [sent EXCEPT ![p] = @ \cup {Description}] ELSE sent
  /\ UNCHANGED <<cands, unsent, pending, flush, added, heard>>

\* teardown, for whatever reason; one call is followed.
Close(p) ==
  /\ Listening(p)
  /\ Enter(p, "over")
  /\ pending' = [pending EXCEPT ![p] = {}]
  /\ flush' = [flush EXCEPT ![p] = {}]
  /\ added' = [added EXCEPT ![p] = {}]
  /\ heard' = [heard EXCEPT ![p] = {}]
  /\ UNCHANGED <<cands, sent, unsent>>

IceNext ==
  \/ EmitOffer \/ PickUp
  \/ \E p \in Side :
       \/ Gather(p) \/ RelayIce(p) \/ OnDescription(p) \/ OnCandidate(p)
       \/ SetRemote(p) \/ FlushOne(p) \/ Flushed(p) \/ Close(p)

IceSpec == IceInit /\ [][IceNext]_iceVars

\* What a browser hears while it is in the call reaches the peer connection: nothing
\* falls between the queue, the flush that empties it while more arrive, and the
\* connection (pendingCandidates, flushCandidates).  And the caller listens from the
\* start: once nothing is on its way it has every candidate of the callee, although the
\* answer's handler may be overtaken by all of theirs.
CandidatesArrive ==
  /\ \A p \in Side : heard[p] = pending[p] \cup flush[p] \cup added[p]
  /\ (at["caller"] = "done" /\ at["callee"] = "done" /\ unsent["callee"] = {}
        /\ sent["callee"] = {} /\ cands["caller"] = <<>>)
       => added["caller"] = Cand
=============================================================================
