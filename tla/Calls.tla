-------------------------------- MODULE Calls --------------------------------
(***************************************************************************)
(* One-to-one calls end to end: the CallProvider of every signed-in browser*)
(* (apps/web/src/features/calls/call-context.tsx), the sockets between it  *)
(* and the server, and the signalling handlers of CallRecords, which relay *)
(* each event to the room of the chat.                                     *)
(*                                                                         *)
(* A socket delivers in order, but the handlers of two events of one socket*)
(* run concurrently, so their relays can overtake each other.              *)
(* startCall and accept are async functions: everything may happen between *)
(* their awaits, and they do not notice.                                   *)
(***************************************************************************)
EXTENDS CallRecords, Sequences

CONSTANTS Device,   \* browsers
          Owner,    \* whose they are
          Flaky,    \* bound: the browsers that close or lose their network
          Mishaps   \* bound: how often that happens, a handler fails or a
                    \* participant leaves

ASSUME DevicesAssumption ==
  /\ Owner \in [Device -> User]
  /\ Flaky \subseteq Device
  /\ Mishaps \in Nat
  /\ None \notin Device

VARIABLES
  cl,      \* the state of each browser's CallProvider
  up,      \* what each browser has sent and the server has not read
  inbox,   \* what the server has sent to each browser
  online,  \* browsers whose socket is connected
  from,    \* the connected socket whose event each handler serves
  dials,   \* how many calls were dialled
  mishaps  \* browsers closed, connections lost, handlers failed, so far

clientVars == <<cl, up, inbox, online, from, dials, mishaps>>
vars == <<recordVars, clientVars>>

Ringing == {"outgoing", "incoming"}
Phase   == Ringing \cup {"idle", "connecting", "active"}

\* An async function in flight: startCall and accept await the ICE servers and
\* then the microphone.  The dial it works for stays with it.
NoTask == [at |-> "none", dial |-> 0]
TaskType ==
  [at : {"none", "dialIce", "dialMedia", "acceptIce", "acceptMedia"}, dial : Nat]

\* pc is pcRef: "new", "offered" (local offer), "set" (both descriptions), "up"
\* (connected).  mic is localRef, chat is chatIdRef; dial tells the call.
Idle == [phase |-> "idle", task |-> NoTask, pc |-> "none", mic |-> FALSE,
         chat |-> FALSE, dial |-> 0]

ClientType ==
  [phase : Phase, task : TaskType, pc : {"none", "new", "offered", "set", "up"},
   mic : BOOLEAN, chat : BOOLEAN, dial : Nat]

Event(k, why, n) == [kind |-> k, why |-> why, dial |-> n]

CallsInit ==
  /\ RecordsInit
  /\ cl = [d \in Device |-> Idle]
  /\ up = [d \in Device |-> <<>>]
  /\ inbox = [d \in Device |-> <<>>]
  /\ online = Device
  /\ from = [r \in Req |-> None]
  /\ dials = 0
  /\ mishaps = 0

(***************************************************************************)
(* The browser.                                                            *)
(***************************************************************************)
\* teardown does not stop an async function that is under way.
Teardown(d) == [cl EXCEPT ![d] = [Idle EXCEPT !.task = cl[d].task]]
\* The same, at the end of that function.
Return(d)   == [cl EXCEPT ![d] = Idle]

Send(d, k, why, n) == up' = [up EXCEPT ![d] = Append(@, Event(k, why, n))]
Quiet == UNCHANGED <<recordVars, online, from, mishaps>>

StartCall(d) ==
  /\ cl[d].phase = "idle"
  /\ cl[d].task = NoTask          \* bound: one async function per browser
  /\ dials < MaxCalls
  /\ dials' = dials + 1
  /\ cl' = [cl EXCEPT ![d].phase = "outgoing", ![d].chat = TRUE,
                      ![d].dial = dials + 1,
                      ![d].task = [at |-> "dialIce", dial |-> dials + 1]]
  /\ Quiet /\ UNCHANGED <<up, inbox>>

\* createPeerConnection: the ICE servers have come, or the request failed.
DialIce(d) ==
  /\ cl[d].task.at = "dialIce"
  /\ \/ cl' = [cl EXCEPT ![d].pc = "new", ![d].task.at = "dialMedia"]
     \/ cl' = Return(d)
  /\ Quiet /\ UNCHANGED <<up, inbox, dials>>

\* The microphone was granted, and the connection is not closed: offer.
\* Otherwise startCall catches the error and tears down.
DialMedia(d) ==
  /\ cl[d].task.at = "dialMedia"
  /\ \/ /\ cl[d].pc = "new"
        /\ cl' = [cl EXCEPT ![d].pc = "offered", ![d].mic = TRUE,
                            ![d].task = NoTask]
        /\ Send(d, "offer", "none", cl[d].task.dial)
     \/ cl' = Return(d) /\ UNCHANGED up
  /\ Quiet /\ UNCHANGED <<inbox, dials>>

Accept(d) ==
  /\ cl[d].phase = "incoming"
  /\ cl[d].task = NoTask
  /\ cl' = [cl EXCEPT ![d].phase = "connecting",
                      ![d].task = [at |-> "acceptIce", dial |-> cl[d].dial]]
  /\ Quiet /\ UNCHANGED <<up, inbox, dials>>

AcceptIce(d) ==
  /\ cl[d].task.at = "acceptIce"
  /\ \/ /\ cl' = [cl EXCEPT ![d].pc = "new", ![d].task.at = "acceptMedia"]
        /\ UNCHANGED up
     \/ /\ cl' = Return(d)
        /\ Send(d, "end", "FAILED", cl[d].task.dial)
  /\ Quiet /\ UNCHANGED <<inbox, dials>>

AcceptMedia(d) ==
  /\ cl[d].task.at = "acceptMedia"
  /\ \/ /\ cl[d].pc = "new"
        /\ cl' = [cl EXCEPT ![d].pc = "set", ![d].mic = TRUE, ![d].task = NoTask]
        /\ Send(d, "answer", "none", cl[d].task.dial)
     \/ /\ cl' = Return(d)
        /\ Send(d, "end", "FAILED", cl[d].task.dial)
  /\ Quiet /\ UNCHANGED <<inbox, dials>>

\* end(reason): hang up, decline, or the ring-out timer.
End(d, why) ==
  /\ cl' = Teardown(d)
  /\ IF cl[d].chat THEN Send(d, "end", why, cl[d].dial) ELSE UNCHANGED up
  /\ Quiet /\ UNCHANGED <<inbox, dials>>

\* Mutant of RingOut: only the caller's browser runs the clock.
RingOut_CallerOnly(d) == cl[d].phase = "outgoing" /\ End(d, "TIMEOUT")

Hangup(d)  == cl[d].phase \in {"outgoing", "connecting", "active"} /\ End(d, "HANGUP")
Decline(d) == cl[d].phase = "incoming" /\ End(d, "REJECTED")
RingOut(d) == cl[d].phase \in Ringing /\ End(d, "TIMEOUT")

\* onconnectionstatechange of the peer connection in pcRef: it connects to a
\* browser that has both descriptions of the same call, and may fail any time.
Connected(d) ==
  /\ cl[d].pc = "set"
  /\ \E e \in Device : /\ Owner[e] # Owner[d]
                         /\ cl[e].pc \in {"set", "up"}
                         /\ cl[e].dial = cl[d].dial
  /\ cl' = [cl EXCEPT ![d].pc = "up", ![d].phase = "active"]
  /\ Quiet /\ UNCHANGED <<up, inbox, dials>>

Failed(d) ==
  /\ cl[d].pc \in {"set", "up"}
  /\ cl' = Teardown(d)
  /\ Send(d, "end", "FAILED", cl[d].dial)
  /\ Quiet /\ UNCHANGED <<inbox, dials>>

(***************************************************************************)
(* Events from the server.                                                 *)
(***************************************************************************)
Take(d, k) ==
  /\ inbox[d] # <<>>
  /\ Head(inbox[d]).kind = k
  /\ inbox' = [inbox EXCEPT ![d] = Tail(@)]
  /\ Quiet /\ UNCHANGED dials

\* Mutant of OnEnded: only a call that is still ringing can be ended.
OnEnded_Ringing(d) ==
  /\ Take(d, "end")
  /\ cl' = IF cl[d].chat /\ cl[d].phase \in Ringing THEN Teardown(d) ELSE cl
  /\ UNCHANGED up

\* Mutant of OnIncoming: no check that the browser is free.
OnIncoming_NoBusy(d) ==
  /\ Take(d, "offer")
  /\ cl' = [cl EXCEPT ![d].phase = "incoming", ![d].chat = TRUE,
                      ![d].dial = Head(inbox[d]).dial]
  /\ UNCHANGED up

OnIncoming(d) ==
  /\ Take(d, "offer")
  /\ LET e == Head(inbox[d]) IN
       \/ /\ cl[d].phase # "idle"
          /\ Send(d, "end", "BUSY", e.dial)
          /\ UNCHANGED cl
       \/ /\ cl[d].phase = "idle"
          /\ cl' = [cl EXCEPT ![d].phase = "incoming", ![d].chat = TRUE,
                              ![d].dial = e.dial]
          /\ UNCHANGED up

\* setRemoteDescription throws, and is logged, unless an offer is pending.
OnAnswered(d) ==
  /\ Take(d, "answer")
  /\ cl' = IF cl[d].pc = "none" \/ ~cl[d].chat THEN cl
           ELSE [cl EXCEPT ![d].phase = "connecting",
                           ![d].pc = IF @ = "offered" THEN "set" ELSE @]
  /\ UNCHANGED up

OnEnded(d) ==
  /\ Take(d, "end")
  /\ cl' = IF cl[d].chat THEN Teardown(d) ELSE cl
  /\ UNCHANGED up

(***************************************************************************)
(* Sockets and server.                                                     *)
(***************************************************************************)
Serve(r, d) ==
  /\ d \in online
  /\ up[d] # <<>>
  /\ LET e == Head(up[d]) IN Receive(r, e.kind, Owner[d], e.why, e.dial)
  /\ up' = [up EXCEPT ![d] = Tail(@)]
  /\ from' = [from EXCEPT ![r] = d]
  /\ UNCHANGED <<cl, inbox, online, dials, mishaps>>

HandleStep(r) == Handle(r) /\ UNCHANGED clientVars

\* The sockets in the room of the chat: leaveChat takes the ones of a member who
\* leaves out of it.
Room == {d \in online : Owner[d] \in active}

\* Mutant of RelayToRoom: the handler does not wait for the record.
RelayToRoom_Early(r) ==
  /\ pc[r] # "idle"
  /\ Finish(r)
  /\ inbox' = [d \in Device |->
                 IF d \in Room \ {from[r]}
                   THEN Append(inbox[d], Event(req[r].kind, req[r].why, req[r].dial))
                   ELSE inbox[d]]
  /\ from' = [from EXCEPT ![r] = None]
  /\ UNCHANGED <<row, posted, active, lostPost, cl, up, online, dials, mishaps>>

\* s.to(room): every socket in the room but the sender's.
RelayToRoom(r) ==
  /\ Relay(r)
  /\ inbox' = [d \in Device |->
                 IF d \in Room \ {from[r]}
                   THEN Append(inbox[d], Event(req[r].kind, req[r].why, req[r].dial))
                   ELSE inbox[d]]
  /\ from' = [from EXCEPT ![r] = None]
  /\ UNCHANGED <<cl, up, online, dials, mishaps>>

Mishap ==
  /\ mishaps < Mishaps
  /\ mishaps' = mishaps + 1

Fault ==
  /\ Mishap
  /\ \/ \E r \in Req : CallFails(r) \/ Crash(r)
     \/ \E u \in User : Leave(u)
  /\ UNCHANGED <<cl, up, inbox, online, from, dials>>

\* The tab is closed, or its user signs out: teardown, and nothing is sent.
Gone(d) ==
  /\ Mishap
  /\ d \in Flaky
  /\ cl[d] # Idle \/ up[d] # <<>>
  /\ cl' = [cl EXCEPT ![d] = Idle]
  /\ up' = [up EXCEPT ![d] = <<>>]
  /\ inbox' = [inbox EXCEPT ![d] = <<>>]
  /\ from' = [r \in Req |-> IF from[r] = d THEN None ELSE from[r]]
  /\ UNCHANGED <<recordVars, online, dials>>

\* The connection drops, and what was on its way is lost, the last events first.  The
\* socket object stays, so nothing is torn down, and what the browser sends from then on
\* waits for the next connection.
Disconnect(d) ==
  /\ Mishap
  /\ d \in online \cap Flaky
  /\ online' = online \ {d}
  /\ inbox' = [inbox EXCEPT ![d] = <<>>]
  /\ \E n \in 0..Len(up[d]) : up' = [up EXCEPT ![d] = SubSeq(@, 1, n)]
  /\ from' = [r \in Req |-> IF from[r] = d THEN None ELSE from[r]]
  /\ UNCHANGED <<recordVars, cl, dials>>

Reconnect(d) ==
  /\ d \notin online
  /\ online' = online \cup {d}
  /\ UNCHANGED <<recordVars, cl, up, inbox, from, dials, mishaps>>

Browser(d) ==
  \/ StartCall(d) \/ DialIce(d) \/ DialMedia(d)
  \/ Accept(d) \/ AcceptIce(d) \/ AcceptMedia(d)
  \/ Hangup(d) \/ Decline(d) \/ RingOut(d)
  \/ Connected(d) \/ Failed(d)
  \/ OnIncoming(d) \/ OnAnswered(d) \/ OnEnded(d)

CallsNext ==
  \/ \E d \in Device : Browser(d) \/ Gone(d) \/ Disconnect(d) \/ Reconnect(d)
  \/ \E r \in Req : HandleStep(r) \/ RelayToRoom(r) \/ \E d \in Device : Serve(r, d)
  \/ Fault

CallsSpec == CallsInit /\ [][CallsNext]_vars

\* The ring-out timer of a browser fires.
FairCallsSpec == CallsSpec /\ \A d \in Device : WF_vars(RingOut(d))

(***************************************************************************)
(* Properties.                                                             *)
(***************************************************************************)
\* Nothing is on its way, in a handler or in a browser.
Resting ==
  /\ \A d \in Device : up[d] = <<>> /\ inbox[d] = <<>> /\ cl[d].task = NoTask
  /\ \A r \in Req : pc[r] = "idle"

\* The server's part, whatever call an event was about.
Server == INSTANCE CallRecords WITH
  req <- [r \in Req |-> [req[r] EXCEPT !.dial = 0]]

\* Whatever the browsers do, lose or send twice, the server behaves as
\* CallRecords says, so that what is shown there holds here: no relay overtakes
\* the record of its own event (signaling.ts awaits record* before s.to).
ServerIsCallRecords == Server!RecordsSpec

\* A hang-up reaches the other side: whoever is still in a connected call when
\* everything has come to rest has somebody to talk to, unless a browser closed
\* or a handler failed (call:end, call:ended).
NobodyTalksAlone ==
  Resting /\ mishaps = 0 =>
    \A d \in Device : cl[d].phase = "active" =>
      \E e \in Device :
        Owner[e] # Owner[d] /\ cl[e].phase # "idle" /\ cl[e].dial = cl[d].dial

\* "An incoming call while already on one is refused with BUSY instead of ringing
\* over the top": a browser never passes from one call to another without
\* having been idle (OnIncoming, startCall and their callbacks).
OneCallAtATime ==
  [][\A d \in Device : cl[d].phase # "idle" /\ cl'[d].phase # "idle"
                         => cl'[d].dial = cl[d].dial]_cl

\* No browser rings for ever, even if the other one has closed or the event that
\* ended the call was lost (the ring-out timers of both sides).
RingingStops ==
  \A d \in Device : cl[d].phase \in Ringing ~> cl[d].phase \notin Ringing
=============================================================================
