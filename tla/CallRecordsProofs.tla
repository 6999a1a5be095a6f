--------------------------- MODULE CallRecordsProofs ---------------------------
(***************************************************************************)
(* CallRecords and Calls, for any number of people, browsers, calls and    *)
(* handlers running at the same time: the invariant of the table is        *)
(* inductive, every call that ended is in the conversation or was lost by a*)
(* handler that failed, and what the table says of a call that ended is    *)
(* never rewritten.  The server of Calls, whatever the browsers feed it,   *)
(* implements CallRecords, and no browser is moved from call to call.      *)
(* IceTrickle follows, and then what the two browsers of a call owe each   *)
(* other.                                                                  *)
(***************************************************************************)
EXTENDS Calls, IceTrickle, SequenceTheorems, TLAPS

\* The inductive invariant.
RecordsInv == RecordsTypeOK /\ EndedIsPosted /\ PostedHasEnded

\* The outcome recordEnd decides is always one the table allows.
LEMMA VerdictType ==
  ASSUME RecordsTypeOK, NEW c \in Call, NEW u, NEW why
  PROVE  Verdict(c, u, why) \in Outcome
  BY DEF Verdict, Outcome

LEMMA NoReqType == NoReq \in ReqType
  BY DEF NoReq, Request, ReqType

\* The initial state satisfies the invariant.
LEMMA InitRecordsInv == RecordsInit => RecordsInv
<1> SUFFICES ASSUME RecordsInit PROVE RecordsInv
  OBVIOUS
<1>1. NoRow \in RowType
  BY DEF NoRow, RowType
<1>2. RecordsTypeOK
  BY <1>1, NoReqType DEF RecordsInit, RecordsTypeOK, NoRow, NoReq, Request, Steps
<1>3. EndedIsPosted /\ PostedHasEnded
  BY DEF RecordsInit, EndedIsPosted, PostedHasEnded, NoRow
<1> QED BY <1>2, <1>3 DEF RecordsInv

(***************************************************************************)
(* Steps that leave the table and the conversation alone: a handler moves  *)
(* on, or is done.  What matters is whether it was about to post.          *)
(***************************************************************************)
\* A handler finishes: its locals are cleared and it posts no more.
LEMMA FinishKeeps ==
  ASSUME RecordsInv, NEW r \in Req, Finish(r), pc[r] # "idle",
         UNCHANGED <<row, posted, active>>,
         lostPost' = lostPost \cup Lost(r)
  PROVE  RecordsInv'
<1> USE DEF RecordsInv
<1>1. /\ pc' = [pc EXCEPT ![r] = "idle"]
      /\ req' = [req EXCEPT ![r] = NoReq]
  BY DEF Finish, Step
<1>2. Lost(r) \subseteq Call
  BY DEF Lost, RecordsTypeOK
<1>3. RecordsTypeOK'
  BY <1>1, <1>2, NoReqType DEF RecordsTypeOK, Steps
<1>4. EndedIsPosted'
  BY <1>1 DEF EndedIsPosted, Lost, RecordsTypeOK
<1>5. PostedHasEnded'
  BY <1>1 DEF PostedHasEnded, RecordsTypeOK
<1> QED BY <1>3, <1>4, <1>5

\* A handler moves on without touching the table; if it was about to post, the
\* entry is lost.
LEMMA MoveKeeps ==
  ASSUME RecordsInv, NEW r \in Req, NEW p \in Steps \ {"idle", "close", "post"},
         NEW q \in ReqType, Step(r, p), req' = [req EXCEPT ![r] = q],
         q.kind # "none",
         p = "mark" => q.live \in Call /\ row[q.live].status # "none",
         UNCHANGED <<row, posted, active>>,
         lostPost' = lostPost \cup Lost(r)
  PROVE  RecordsInv'
<1> USE DEF RecordsInv
<1>1. pc' = [pc EXCEPT ![r] = p]
  BY DEF Step
<1>2. Lost(r) \subseteq Call
  BY DEF Lost, RecordsTypeOK
<1>3. RecordsTypeOK'
  BY <1>1, <1>2 DEF RecordsTypeOK
<1>4. EndedIsPosted'
  BY <1>1 DEF EndedIsPosted, Lost, RecordsTypeOK
<1>5. PostedHasEnded'
  BY <1>1 DEF PostedHasEnded, RecordsTypeOK
<1> QED BY <1>3, <1>4, <1>5

\* The same when its locals stay as they are.
LEMMA MoveOnKeeps ==
  ASSUME RecordsInv, NEW r \in Req, NEW p \in Steps \ {"idle", "mark", "close", "post"},
         Step(r, p), pc[r] # "idle",
         UNCHANGED <<row, posted, active, req>>,
         lostPost' = lostPost \cup Lost(r)
  PROVE  RecordsInv'
<1>1. req[r] \in ReqType /\ req' = [req EXCEPT ![r] = req[r]] /\ req[r].kind # "none"
  BY DEF RecordsInv, RecordsTypeOK
<1> QED BY <1>1, MoveKeeps

LEMMA ReceiveKeeps ==
  ASSUME RecordsInv, NEW r \in Req, NEW u \in User, NEW k \in Kind,
         NEW why \in Reason \cup {"none"}, NEW n \in Nat, Receive(r, k, u, why, n)
  PROVE  RecordsInv'
<1>1. Request(k, u, why, n) \in ReqType /\ Request(k, u, why, n).kind # "none"
  BY DEF Request, ReqType, Kind
<1>2. Lost(r) = {}
  BY DEF Receive, Lost
<1> QED BY <1>1, <1>2, MoveKeeps DEF Receive, Steps

LEMMA CanSignalKeeps ==
  ASSUME RecordsInv, NEW r \in Req, CanSignal(r)
  PROVE  RecordsInv'
<1>1. pc[r] = "member" /\ Lost(r) = {}
  BY DEF CanSignal, Lost
<1>2. CASE req[r].user \in active
  BY <1>1, <1>2, MoveOnKeeps DEF CanSignal, Steps
<1>3. CASE req[r].user \notin active
  BY <1>1, <1>3, FinishKeeps DEF CanSignal
<1> QED BY <1>2, <1>3

LEMMA FindDirectCalleeKeeps ==
  ASSUME RecordsInv, NEW r \in Req, FindDirectCallee(r)
  PROVE  RecordsInv'
<1>1. pc[r] = "callee" /\ Lost(r) = {} /\ req[r] \in ReqType /\ req[r].kind # "none"
  BY DEF FindDirectCallee, Lost, RecordsInv, RecordsTypeOK
<1>2. ASSUME NEW u \in User, Step(r, "create"), req' = [req EXCEPT ![r].peer = u]
      PROVE  RecordsInv'
  <2> DEFINE q == [req[r] EXCEPT !.peer = u]
  <2>1. q \in ReqType /\ q.kind # "none" /\ req' = [req EXCEPT ![r] = q]
    BY <1>1, <1>2 DEF ReqType, RecordsInv, RecordsTypeOK
  <2> HIDE DEF q
  <2> QED BY <1>1, <1>2, <2>1, MoveKeeps DEF FindDirectCallee, Steps
<1>3. CASE Step(r, "relay") /\ UNCHANGED req
  BY <1>1, <1>3, MoveOnKeeps DEF FindDirectCallee, Steps
<1> QED BY <1>2, <1>3 DEF FindDirectCallee

\* A handler that opened, answered or closed a row, or read one, changes only the
\* row it has in hand; the other handlers keep what they know of theirs.
LEMMA CreateRingingKeeps ==
  ASSUME RecordsInv, NEW r \in Req, CreateRinging(r)
  PROVE  RecordsInv'
<1> USE DEF RecordsInv
<1>1. PICK c \in Call :
        /\ row[c].status = "none"
        /\ row' = [row EXCEPT ![c] =
                     [NoRow EXCEPT !.status = "RINGING", !.caller = req[r].user,
                                   !.callee = req[r].peer]]
  BY DEF CreateRinging
<1> DEFINE n == [NoRow EXCEPT !.status = "RINGING", !.caller = req[r].user,
                              !.callee = req[r].peer]
<1>2. n \in RowType /\ n.status = "RINGING" /\ ~n.ended
  BY DEF NoRow, RowType, Live, RecordsTypeOK, ReqType
<1>3. row[c].ended = FALSE
  BY <1>1 DEF RecordsTypeOK, Outcome, RowType
<1> HIDE DEF n
<1>4. /\ row' = [row EXCEPT ![c] = n]
      /\ pc' = [pc EXCEPT ![r] = "relay"]
      /\ UNCHANGED <<posted, active, req, lostPost>>
      /\ pc[r] = "create"
  BY <1>1 DEF n, CreateRinging, Step
<1>5. RecordsTypeOK'
  BY <1>2, <1>4 DEF RecordsTypeOK, Steps, Outcome
<1>6. EndedIsPosted'
  BY <1>2, <1>4 DEF EndedIsPosted, RecordsTypeOK
<1>7. PostedHasEnded'
  <2>1. c \notin posted
    BY <1>3 DEF PostedHasEnded
  <2>2. \A s \in Req : pc[s] = "post" => req[s].live # c /\ req[s].live \in Call
    BY <1>1 DEF RecordsTypeOK
  <2> QED BY <1>4, <2>1, <2>2 DEF PostedHasEnded, RecordsTypeOK
<1> QED BY <1>5, <1>6, <1>7

LEMMA FindLiveKeeps ==
  ASSUME RecordsInv, NEW r \in Req, FindLive(r)
  PROVE  RecordsInv'
<1>1. pc[r] = "find" /\ Lost(r) = {} /\ req[r] \in ReqType /\ req[r].kind # "none"
  BY DEF FindLive, Lost, RecordsInv, RecordsTypeOK
<1>2. CASE Step(r, "relay") /\ UNCHANGED req
  BY <1>1, <1>2, MoveOnKeeps DEF FindLive, Steps
<1>3. ASSUME NEW c \in Call, Found(c), Step(r, "mark"),
             req' = [req EXCEPT ![r].live = c]
      PROVE  RecordsInv'
  <2> DEFINE q == [req[r] EXCEPT !.live = c]
  <2>1. /\ q \in ReqType /\ q.kind # "none" /\ q.live = c
        /\ req' = [req EXCEPT ![r] = q]
    BY <1>1, <1>3 DEF ReqType, RecordsInv, RecordsTypeOK
  <2>2. row[c].status # "none"
    BY <1>3 DEF Found, IsLive, Live
  <2> HIDE DEF q
  <2> QED BY <1>1, <1>3, <2>1, <2>2, MoveKeeps DEF FindLive, Steps
<1>4. ASSUME NEW c \in Call, Found(c), Step(r, "close"),
             req' = [req EXCEPT ![r].live = c,
                                ![r].to = Verdict(c, req[r].user, req[r].why)]
      PROVE  RecordsInv'
  <2> DEFINE q == [req[r] EXCEPT !.live = c,
                                 !.to = Verdict(c, req[r].user, req[r].why)]
  <2>1. Verdict(c, req[r].user, req[r].why) \in Outcome
    BY VerdictType DEF RecordsInv
  <2>2. /\ q \in ReqType /\ q.kind # "none" /\ q.live = c /\ q.to \in Outcome
        /\ req' = [req EXCEPT ![r] = q]
    BY <1>1, <1>4, <2>1 DEF ReqType, RecordsInv, RecordsTypeOK
  <2>3. row[c].status # "none"
    BY <1>4 DEF Found, IsLive, Live
  <2> HIDE DEF q
  <2>4. /\ pc' = [pc EXCEPT ![r] = "close"]
        /\ UNCHANGED <<row, posted, active, lostPost>>
    BY <1>4 DEF FindLive, Step
  <2>5. RecordsTypeOK'
    BY <2>2, <2>3, <2>4 DEF RecordsInv, RecordsTypeOK, Steps
  <2>6. EndedIsPosted' /\ PostedHasEnded'
    BY <1>1, <2>2, <2>4 DEF RecordsInv, RecordsTypeOK, EndedIsPosted, PostedHasEnded
  <2> QED BY <2>5, <2>6 DEF RecordsInv
<1> QED BY <1>2, <1>3, <1>4 DEF FindLive

LEMMA MarkAnsweredKeeps ==
  ASSUME RecordsInv, NEW r \in Req, MarkAnswered(r)
  PROVE  RecordsInv'
<1> USE DEF RecordsInv
<1> DEFINE c == req[r].live
<1>1. pc[r] = "mark" /\ c \in Call
  BY DEF MarkAnswered, RecordsTypeOK
<1>2. pc' = [pc EXCEPT ![r] = "relay"] /\ UNCHANGED <<posted, active, req, lostPost>>
  BY DEF MarkAnswered, Step
<1>3. CASE row[c].status = "RINGING"
  <2> DEFINE n == [row[c] EXCEPT !.status = "ANSWERED", !.answered = TRUE]
  <2>1. row[c] \in RowType /\ ~row[c].ended
    BY <1>1, <1>3 DEF RecordsTypeOK, Outcome
  <2>2. n \in RowType /\ n.status # "none" /\ ~n.ended
    BY <2>1 DEF RowType, Live
  <2>3. row' = [row EXCEPT ![c] = n]
    BY <1>1, <1>3 DEF MarkAnswered, RecordsTypeOK
  <2> HIDE DEF n, c
  <2>4. RecordsTypeOK'
    BY <1>1, <1>2, <2>2, <2>3 DEF RecordsTypeOK, Steps
  <2>5. EndedIsPosted'
    BY <1>1, <1>2, <2>2, <2>3 DEF EndedIsPosted, RecordsTypeOK
  <2>6. PostedHasEnded'
    BY <1>1, <1>2, <2>1, <2>2, <2>3 DEF PostedHasEnded, RecordsTypeOK
  <2> QED BY <2>4, <2>5, <2>6
<1>4. CASE row[c].status # "RINGING"
  BY <1>1, <1>2, <1>4, MoveOnKeeps DEF MarkAnswered, Lost, Steps
<1> QED BY <1>3, <1>4

LEMMA MarkEndedKeeps ==
  ASSUME RecordsInv, NEW r \in Req, MarkEnded(r)
  PROVE  RecordsInv'
<1> USE DEF RecordsInv
<1> DEFINE c == req[r].live
           n == IF row[c].ended THEN row[c]
                ELSE [row[c] EXCEPT !.status = req[r].to, !.ended = TRUE]
<1>1. pc[r] = "close" /\ c \in Call /\ req[r].to \in Outcome
  BY DEF MarkEnded, RecordsTypeOK
<1>2. pc' = [pc EXCEPT ![r] = "post"] /\ UNCHANGED <<posted, active, req, lostPost>>
  BY DEF MarkEnded, Step
<1>3. row' = [row EXCEPT ![c] = n]
  BY <1>1 DEF MarkEnded, RecordsTypeOK
<1>4. n \in RowType /\ n.status \in Outcome /\ n.status # "none" /\ n.ended
  <2>1. row[c] \in RowType
    BY <1>1 DEF RecordsTypeOK
  <2>2. CASE row[c].ended
    BY <1>1, <2>1, <2>2 DEF RecordsTypeOK, Outcome
  <2>3. CASE ~row[c].ended
    <3> DEFINE m == [row[c] EXCEPT !.status = req[r].to, !.ended = TRUE]
    <3>1. m \in RowType /\ m.status = req[r].to /\ m.ended
      BY <1>1, <2>1 DEF RowType
    <3> QED BY <1>1, <2>3, <3>1 DEF Outcome
  <2> QED BY <2>2, <2>3
<1> HIDE DEF n, c
<1>5. RecordsTypeOK'
  BY <1>1, <1>2, <1>3, <1>4 DEF c, RecordsTypeOK, Steps
<1>6. EndedIsPosted'
  BY <1>1, <1>2, <1>3 DEF c, EndedIsPosted, RecordsTypeOK
<1>7. PostedHasEnded'
  BY <1>1, <1>2, <1>3, <1>4 DEF c, PostedHasEnded, RecordsTypeOK
<1> QED BY <1>5, <1>6, <1>7

LEMMA PostEntryKeeps ==
  ASSUME RecordsInv, NEW r \in Req, PostEntry(r)
  PROVE  RecordsInv'
<1> USE DEF RecordsInv
<1>1. pc[r] = "post" /\ req[r].live \in Call /\ row[req[r].live].ended
  BY DEF PostEntry, RecordsTypeOK, PostedHasEnded
<1>2. /\ pc' = [pc EXCEPT ![r] = "relay"]
      /\ posted' = posted \cup {req[r].live}
      /\ UNCHANGED <<row, active, req, lostPost>>
  BY DEF PostEntry, Step
<1>3. RecordsTypeOK'
  BY <1>1, <1>2 DEF RecordsTypeOK, Steps
<1>4. EndedIsPosted'
  BY <1>1, <1>2 DEF EndedIsPosted, RecordsTypeOK
<1>5. PostedHasEnded'
  BY <1>1, <1>2 DEF PostedHasEnded, RecordsTypeOK
<1> QED BY <1>3, <1>4, <1>5

\* A database call that fails, and a process that dies, at any step.
LEMMA FailureKeeps ==
  ASSUME RecordsInv, NEW r \in Req, CallFails(r) \/ Crash(r)
  PROVE  RecordsInv'
<1>1. CASE Crash(r)
  BY <1>1, FinishKeeps DEF Crash
<1>2. CASE CallFails(r) /\ pc[r] = "member"
  BY <1>2, FinishKeeps DEF CallFails
<1>3. CASE CallFails(r) /\ pc[r] # "member"
  BY <1>3, MoveOnKeeps DEF CallFails, Steps
<1> QED BY <1>1, <1>2, <1>3

\* Every step keeps the invariant.
LEMMA NextKeeps == RecordsInv /\ [RecordsNext]_recordVars => RecordsInv'
<1> SUFFICES ASSUME RecordsInv, [RecordsNext]_recordVars PROVE RecordsInv'
  OBVIOUS
<1>1. ASSUME NEW r \in Req, AnyEvent(r) PROVE RecordsInv'
  BY <1>1, ReceiveKeeps DEF AnyEvent, Kind
<1>2. ASSUME NEW r \in Req, Handle(r) PROVE RecordsInv'
  BY <1>2, CanSignalKeeps, FindDirectCalleeKeeps, CreateRingingKeeps, FindLiveKeeps,
     MarkAnsweredKeeps, MarkEndedKeeps, PostEntryKeeps DEF Handle
<1>3. ASSUME NEW r \in Req, Relay(r) PROVE RecordsInv'
  BY <1>3, FinishKeeps DEF Relay, Lost
<1>4. ASSUME NEW u \in User, Leave(u) \/ Rejoin(u) PROVE RecordsInv'
  BY <1>4 DEF Leave, Rejoin, RecordsInv, RecordsTypeOK, EndedIsPosted, PostedHasEnded
<1>5. CASE UNCHANGED recordVars
  BY <1>5 DEF recordVars, RecordsInv, RecordsTypeOK, EndedIsPosted, PostedHasEnded
<1> QED BY <1>1, <1>2, <1>3, <1>4, <1>5, FailureKeeps DEF RecordsNext

LEMMA Invariance == RecordsSpec => []RecordsInv
BY InitRecordsInv, NextKeeps, PTL DEF RecordsSpec

(***************************************************************************)
(* Calls: the same handlers, fed by browsers over sockets.                 *)
(***************************************************************************)
\* What a browser may send: only an end has a reason.
Signal ==
  {e \in [kind : Kind, why : Reason \cup {"none"}, dial : Nat] :
     e.why \in Reason <=> e.kind = "end"}

\* What the server relays, the dial being the one of the event it relays.
Relayed == [kind : Kind, why : Reason \cup {"none"}, dial : Nat]

CallsTypeOK ==
  /\ cl \in [Device -> ClientType]
  /\ up \in [Device -> Seq(Signal)]
  /\ inbox \in [Device -> Seq(Relayed)]
  /\ online \subseteq Device
  /\ from \in [Req -> Device \cup {None}]
  /\ dials \in Nat
  /\ mishaps \in Nat

CallsInv == RecordsInv /\ CallsTypeOK

LEMMA IdleType == Idle \in ClientType /\ Idle.phase = "idle" /\ Idle.dial = 0
  BY DEF Idle, ClientType, Phase, Ringing, NoTask, TaskType

LEMMA InitCallsInv == CallsInit => CallsInv
<1> SUFFICES ASSUME CallsInit PROVE CallsInv
  OBVIOUS
<1>1. RecordsInv
  BY InitRecordsInv DEF CallsInit
<1>2. CallsTypeOK
  BY IdleType DEF CallsInit, CallsTypeOK
<1> QED BY <1>1, <1>2 DEF CallsInv

\* A browser that sends: its queue keeps its type.
LEMMA SendKeeps ==
  ASSUME CallsTypeOK, NEW d \in Device, NEW k, NEW why, NEW n \in Nat,
         \/ k \in {"offer", "answer"} /\ why = "none"
         \/ k = "end" /\ why \in Reason,
         Send(d, k, why, n)
  PROVE  up' \in [Device -> Seq(Signal)]
<1>1. Event(k, why, n) \in Signal
  BY DEF Event, Signal, Kind, Reason
<1> QED BY <1>1 DEF Send, CallsTypeOK

\* A task carries the number of a dial, and a browser is described by ClientType.
LEMMA ClientFields ==
  ASSUME CallsTypeOK, NEW d \in Device
  PROVE  /\ cl[d] \in ClientType /\ cl[d].task \in TaskType
         /\ cl[d].dial \in Nat /\ cl[d].task.dial \in Nat
  BY DEF CallsTypeOK, ClientType, TaskType

\* What teardown leaves of a browser.
LEMMA TeardownType ==
  ASSUME CallsTypeOK, NEW d \in Device
  PROVE  /\ Teardown(d) \in [Device -> ClientType]
         /\ Return(d) \in [Device -> ClientType]
         /\ Teardown(d)[d].phase = "idle" /\ Return(d)[d].phase = "idle"
  BY ClientFields, IdleType DEF Teardown, Return, CallsTypeOK, ClientType, Idle

\* How the longer steps change what is known of one browser.
LEMMA ClientRings ==
  ASSUME NEW c \in [Device -> ClientType], NEW d \in Device, NEW n \in Nat
  PROVE  [c EXCEPT ![d].phase = "incoming", ![d].chat = TRUE, ![d].dial = n]
           \in [Device -> ClientType]
<1>1. [c[d] EXCEPT !.phase = "incoming", !.chat = TRUE, !.dial = n] \in ClientType
  BY DEF ClientType, Phase, Ringing
<1> QED BY <1>1

LEMMA ClientDials ==
  ASSUME NEW c \in [Device -> ClientType], NEW d \in Device, NEW n \in Nat
  PROVE  [c EXCEPT ![d].phase = "outgoing", ![d].chat = TRUE, ![d].dial = n + 1,
                   ![d].task = [at |-> "dialIce", dial |-> n + 1]]
           \in [Device -> ClientType]
<1> DEFINE t == [at |-> "dialIce", dial |-> n + 1]
<1>1. t \in TaskType
  BY DEF TaskType
<1> HIDE DEF t
<1> DEFINE m == n + 1
<1>2. m \in Nat
  OBVIOUS
<1> HIDE DEF m
<1>3. [c[d] EXCEPT !.phase = "outgoing", !.chat = TRUE, !.dial = m, !.task = t]
        \in ClientType
  BY <1>1, <1>2 DEF ClientType, Phase, Ringing
<1> QED BY <1>3 DEF t, m

LEMMA ClientGetsIce ==
  ASSUME NEW c \in [Device -> ClientType], NEW d \in Device,
         NEW step \in {"dialMedia", "acceptMedia"}
  PROVE  [c EXCEPT ![d].pc = "new", ![d].task.at = step] \in [Device -> ClientType]
<1>1. [c[d].task EXCEPT !.at = step] \in TaskType
  BY DEF ClientType, TaskType
<1>2. [c[d] EXCEPT !.pc = "new", !.task = [c[d].task EXCEPT !.at = step]] \in ClientType
  BY <1>1 DEF ClientType
<1> QED BY <1>2

LEMMA ClientGetsMic ==
  ASSUME NEW c \in [Device -> ClientType], NEW d \in Device,
         NEW p \in {"offered", "set"}
  PROVE  [c EXCEPT ![d].pc = p, ![d].mic = TRUE, ![d].task = NoTask]
           \in [Device -> ClientType]
<1>1. NoTask \in TaskType
  BY DEF NoTask, TaskType
<1>2. [c[d] EXCEPT !.pc = p, !.mic = TRUE, !.task = NoTask] \in ClientType
  BY <1>1 DEF ClientType
<1> QED BY <1>2

\* The steps of a browser: startCall, accept and their continuations, what the
\* user does, what the peer connection reports.
LEMMA BrowserActs ==
  ASSUME CallsTypeOK, NEW d \in Device,
         \/ StartCall(d) \/ DialIce(d) \/ DialMedia(d)
         \/ Accept(d) \/ AcceptIce(d) \/ AcceptMedia(d)
         \/ Hangup(d) \/ Decline(d) \/ RingOut(d)
         \/ Connected(d) \/ Failed(d)
  PROVE  CallsTypeOK'
<1>1. /\ cl[d] \in ClientType /\ cl[d].task \in TaskType
      /\ cl[d].dial \in Nat /\ cl[d].task.dial \in Nat
      /\ cl \in [Device -> ClientType] /\ dials \in Nat
  BY ClientFields DEF CallsTypeOK
<1>2. \A k, why : \A n \in Nat :
        /\ \/ k \in {"offer", "answer"} /\ why = "none"
           \/ k = "end" /\ why \in Reason
        /\ Send(d, k, why, n)
        => up' \in [Device -> Seq(Signal)]
  BY SendKeeps
<1>3. UNCHANGED <<inbox, online, from, mishaps>>
  BY DEF StartCall, DialIce, DialMedia, Accept, AcceptIce, AcceptMedia, Hangup,
         Decline, RingOut, End, Connected, Failed, Quiet
<1>4. cl' \in [Device -> ClientType] /\ dials' \in Nat
  <2>1. CASE StartCall(d)
    <3>1. [cl EXCEPT ![d].phase = "outgoing", ![d].chat = TRUE,
                     ![d].dial = dials + 1,
                     ![d].task = [at |-> "dialIce", dial |-> dials + 1]]
            \in [Device -> ClientType]
      BY <1>1, ClientDials
    <3> QED BY <1>1, <2>1, <3>1 DEF StartCall
  <2>2. CASE DialIce(d)
    <3>1. [cl EXCEPT ![d].pc = "new", ![d].task.at = "dialMedia"]
            \in [Device -> ClientType]
      BY <1>1, ClientGetsIce
    <3> QED BY <1>1, <2>2, <3>1, TeardownType DEF DialIce
  <2>3. CASE DialMedia(d)
    <3>1. [cl EXCEPT ![d].pc = "offered", ![d].mic = TRUE, ![d].task = NoTask]
            \in [Device -> ClientType]
      BY <1>1, ClientGetsMic
    <3> QED BY <1>1, <2>3, <3>1, TeardownType DEF DialMedia
  <2>4. CASE Accept(d)
    BY <1>1, <2>4 DEF Accept, ClientType, TaskType, Phase
  <2>5. CASE AcceptIce(d)
    <3>1. [cl EXCEPT ![d].pc = "new", ![d].task.at = "acceptMedia"]
            \in [Device -> ClientType]
      BY <1>1, ClientGetsIce
    <3> QED BY <1>1, <2>5, <3>1, TeardownType DEF AcceptIce
  <2>6. CASE AcceptMedia(d)
    <3>1. [cl EXCEPT ![d].pc = "set", ![d].mic = TRUE, ![d].task = NoTask]
            \in [Device -> ClientType]
      BY <1>1, ClientGetsMic
    <3> QED BY <1>1, <2>6, <3>1, TeardownType DEF AcceptMedia
  <2>7. CASE Hangup(d) \/ Decline(d) \/ RingOut(d) \/ Failed(d)
    BY <1>1, <2>7, TeardownType DEF Hangup, Decline, RingOut, Failed, End
  <2>8. CASE Connected(d)
    BY <1>1, <2>8 DEF Connected, ClientType, Phase
  <2> QED BY <2>1, <2>2, <2>3, <2>4, <2>5, <2>6, <2>7, <2>8
<1>5. up' \in [Device -> Seq(Signal)]
  <2>1. CASE UNCHANGED up
    BY <2>1 DEF CallsTypeOK
  <2>2. CASE DialMedia(d) \/ AcceptIce(d) \/ AcceptMedia(d) \/ Failed(d)
    BY <1>1, <1>2, <2>1, <2>2
    DEF DialMedia, AcceptIce, AcceptMedia, Failed, Reason
  <2>3. CASE Hangup(d) \/ Decline(d) \/ RingOut(d)
    BY <1>1, <1>2, <2>1, <2>3 DEF Hangup, Decline, RingOut, End, Reason
  <2> QED BY <2>1, <2>2, <2>3 DEF StartCall, DialIce, Accept, Connected
<1> QED BY <1>3, <1>4, <1>5 DEF CallsTypeOK

\* The listeners of call:incoming, call:answered and call:ended.
LEMMA BrowserTakes ==
  ASSUME CallsTypeOK, NEW d \in Device,
         OnIncoming(d) \/ OnAnswered(d) \/ OnEnded(d)
  PROVE  CallsTypeOK'
<1>1. /\ cl[d] \in ClientType /\ cl[d].task \in TaskType
      /\ cl \in [Device -> ClientType]
  BY ClientFields DEF CallsTypeOK
<1>2. /\ inbox[d] # <<>>
      /\ inbox' = [inbox EXCEPT ![d] = Tail(inbox[d])]
      /\ UNCHANGED <<online, from, mishaps, dials>>
  BY DEF OnIncoming, OnAnswered, OnEnded, Take, Quiet
<1>3. /\ Head(inbox[d]) \in Relayed /\ Head(inbox[d]).dial \in Nat
      /\ inbox' \in [Device -> Seq(Relayed)]
  <2>1. inbox[d] \in Seq(Relayed)
    BY DEF CallsTypeOK
  <2>2. Head(inbox[d]) \in Relayed /\ Tail(inbox[d]) \in Seq(Relayed)
    BY <1>2, <2>1
  <2> QED BY <1>2, <2>2 DEF CallsTypeOK, Relayed
<1>4. cl' \in [Device -> ClientType]
  <2>1. CASE OnIncoming(d)
    <3>1. [cl EXCEPT ![d].phase = "incoming", ![d].chat = TRUE,
                     ![d].dial = Head(inbox[d]).dial] \in [Device -> ClientType]
      BY <1>1, <1>3, ClientRings
    <3> QED BY <1>1, <2>1, <3>1 DEF OnIncoming
  <2>2. CASE OnAnswered(d)
    BY <1>1, <2>2 DEF OnAnswered, ClientType, Phase
  <2>3. CASE OnEnded(d)
    BY <1>1, <2>3, TeardownType DEF OnEnded
  <2> QED BY <2>1, <2>2, <2>3
<1>5. up' \in [Device -> Seq(Signal)]
  <2>1. CASE UNCHANGED up
    BY <2>1 DEF CallsTypeOK
  <2>2. CASE OnIncoming(d)
    BY <1>3, <2>1, <2>2, SendKeeps DEF OnIncoming, Reason
  <2> QED BY <2>1, <2>2 DEF OnAnswered, OnEnded
<1> QED BY <1>2, <1>3, <1>4, <1>5 DEF CallsTypeOK

\* The server reads the event at the head of a queue: a step of CallRecords.
LEMMA ServeReceives ==
  ASSUME CallsInv, NEW r \in Req, NEW d \in Device, Serve(r, d)
  PROVE  /\ CallsTypeOK'
         /\ \E k \in Kind, why \in Reason \cup {"none"}, n \in Nat :
              /\ why \in Reason <=> k = "end"
              /\ Receive(r, k, Owner[d], why, n)
<1> DEFINE e == Head(up[d])
<1>1. up[d] \in Seq(Signal) /\ up[d] # <<>>
  BY DEF Serve, CallsInv, CallsTypeOK
<1>2. e \in Signal /\ Tail(up[d]) \in Seq(Signal)
  BY <1>1
<1>3. CallsTypeOK'
  BY <1>2 DEF Serve, CallsInv, CallsTypeOK
<1>4. /\ e.kind \in Kind /\ e.why \in Reason \cup {"none"} /\ e.dial \in Nat
      /\ e.why \in Reason <=> e.kind = "end"
  BY <1>2 DEF Signal
<1> HIDE DEF e
<1>5. Receive(r, e.kind, Owner[d], e.why, e.dial)
  BY DEF Serve, e
<1> QED BY <1>3, <1>4, <1>5

LEMMA OwnerIsUser == ASSUME NEW d \in Device PROVE Owner[d] \in User
  BY DevicesAssumption

\* A relay puts one typed event into every inbox of the room but the sender's.
LEMMA RelayToRoomKeeps ==
  ASSUME CallsInv, NEW r \in Req, RelayToRoom(r)
  PROVE  CallsTypeOK'
<1> DEFINE e == Event(req[r].kind, req[r].why, req[r].dial)
<1>1. req[r] \in ReqType /\ req[r].kind # "none"
  BY DEF RelayToRoom, Relay, CallsInv, RecordsInv, RecordsTypeOK
<1>2. e \in Relayed
  BY <1>1 DEF ReqType, Event, Relayed
<1>3. inbox' = [x \in Device |-> IF x \in Room \ {from[r]}
                                   THEN Append(inbox[x], e) ELSE inbox[x]]
  BY DEF RelayToRoom
<1> HIDE DEF e
<1>4. inbox' \in [Device -> Seq(Relayed)]
  BY <1>2, <1>3 DEF CallsInv, CallsTypeOK
<1> QED BY <1>4 DEF RelayToRoom, CallsInv, CallsTypeOK

\* Tabs that close, connections that drop and come back, handlers that fail.
LEMMA MishapKeeps ==
  ASSUME CallsTypeOK,
         \/ Fault
         \/ \E d \in Device : Gone(d) \/ Disconnect(d) \/ Reconnect(d)
  PROVE  CallsTypeOK'
<1>1. CASE Fault
  BY <1>1 DEF Fault, Mishap, CallsTypeOK
<1>2. ASSUME NEW d \in Device, Gone(d) PROVE CallsTypeOK'
  BY <1>2, IdleType DEF Gone, Mishap, CallsTypeOK
<1>3. ASSUME NEW d \in Device, Disconnect(d) PROVE CallsTypeOK'
  <2>1. PICK n \in 0..Len(up[d]) : up' = [up EXCEPT ![d] = SubSeq(up[d], 1, n)]
    BY <1>3 DEF Disconnect
  <2>2. up[d] \in Seq(Signal)
    BY DEF CallsTypeOK
  <2>3. SubSeq(up[d], 1, n) \in Seq(Signal)
    BY <2>2, SMT
  <2> QED BY <1>3, <2>1, <2>3 DEF Disconnect, Mishap, CallsTypeOK
<1>4. ASSUME NEW d \in Device, Reconnect(d) PROVE CallsTypeOK'
  BY <1>4 DEF Reconnect, CallsTypeOK
<1> QED BY <1>1, <1>2, <1>3, <1>4

\* The handlers go on as they do in CallRecords.
LEMMA HandleKeeps ==
  ASSUME RecordsInv, NEW r \in Req, Handle(r)
  PROVE  RecordsInv'
  BY CanSignalKeeps, FindDirectCalleeKeeps, CreateRingingKeeps, FindLiveKeeps,
     MarkAnsweredKeeps, MarkEndedKeeps, PostEntryKeeps DEF Handle

LEMMA RelayKeeps ==
  ASSUME RecordsInv, NEW r \in Req, Relay(r)
  PROVE  RecordsInv'
  BY FinishKeeps DEF Relay, Lost

LEMMA LeaveKeeps ==
  ASSUME RecordsInv, NEW u \in User, Leave(u) \/ Rejoin(u)
  PROVE  RecordsInv'
  BY DEF Leave, Rejoin, RecordsInv, RecordsTypeOK, EndedIsPosted, PostedHasEnded

\* Every step of the browsers, the sockets and the handlers keeps the invariant.
LEMMA CallsNextKeeps == CallsInv /\ [CallsNext]_vars => CallsInv'
<1> SUFFICES ASSUME CallsInv, [CallsNext]_vars PROVE CallsInv'
  OBVIOUS
<1> USE DEF CallsInv
<1>1. UNCHANGED recordVars => RecordsInv'
  BY DEF recordVars, RecordsInv, RecordsTypeOK, EndedIsPosted, PostedHasEnded
<1>2. ASSUME NEW d \in Device, Browser(d) PROVE CallsInv'
  <2>1. UNCHANGED recordVars
    BY <1>2 DEF Browser, StartCall, DialIce, DialMedia, Accept, AcceptIce,
       AcceptMedia, Hangup, Decline, RingOut, End, Connected, Failed, OnIncoming,
       OnAnswered, OnEnded, Take, Quiet
  <2>2. CallsTypeOK'
    BY <1>2, BrowserActs, BrowserTakes DEF Browser
  <2> QED BY <1>1, <2>1, <2>2
<1>3. ASSUME NEW d \in Device, Gone(d) \/ Disconnect(d) \/ Reconnect(d)
      PROVE  CallsInv'
  BY <1>1, <1>3, MishapKeeps DEF Gone, Disconnect, Reconnect
<1>4. ASSUME NEW r \in Req, HandleStep(r) PROVE CallsInv'
  <2>1. CallsTypeOK'
    BY <1>4 DEF HandleStep, clientVars, CallsTypeOK
  <2> QED BY <1>4, <2>1, HandleKeeps DEF HandleStep
<1>5. ASSUME NEW r \in Req, RelayToRoom(r) PROVE CallsInv'
  BY <1>5, RelayToRoomKeeps, RelayKeeps DEF RelayToRoom
<1>6. ASSUME NEW r \in Req, NEW d \in Device, Serve(r, d) PROVE CallsInv'
  BY <1>6, ServeReceives, ReceiveKeeps, OwnerIsUser
<1>7. CASE Fault
  BY <1>7, MishapKeeps, FailureKeeps, LeaveKeeps DEF Fault
<1>8. CASE UNCHANGED vars
  BY <1>1, <1>8 DEF vars, clientVars, CallsTypeOK
<1> QED BY <1>2, <1>3, <1>4, <1>5, <1>6, <1>7, <1>8 DEF CallsNext

LEMMA CallsInvariance == CallsSpec => []CallsInv
BY InitCallsInv, CallsNextKeeps, PTL DEF CallsSpec

(***************************************************************************)
(* The refinement: what a handler has in hand, without the dial it is for. *)
(***************************************************************************)
LEMMA ServerInit == CallsInit => Server!RecordsInit
<1> SUFFICES ASSUME CallsInit PROVE Server!RecordsInit
  OBVIOUS
<1>1. [r \in Req |-> [req[r] EXCEPT !.dial = 0]] = [r \in Req |-> NoReq]
  BY DEF CallsInit, RecordsInit, NoReq, Request
<1> QED
  BY <1>1 DEF CallsInit, RecordsInit, Server!RecordsInit, Server!NoRow, NoRow,
     Server!NoReq, NoReq, Server!Request, Request, Server!Call, Call

LEMMA ServerStep == CallsInv /\ [CallsNext]_vars => [Server!RecordsNext]_Server!recordVars
<1> SUFFICES ASSUME CallsInv, [CallsNext]_vars
             PROVE  [Server!RecordsNext]_Server!recordVars
  OBVIOUS
<1> DEFINE q == [r \in Req |-> [req[r] EXCEPT !.dial = 0]]
<1>1. req \in [Req -> ReqType] /\ req' \in [Req -> ReqType]
  BY CallsNextKeeps DEF CallsInv, RecordsInv, RecordsTypeOK
<1>2. UNCHANGED recordVars => UNCHANGED Server!recordVars
  BY DEF recordVars, Server!recordVars
<1>3. ASSUME NEW r \in Req, NEW n, req' = [req EXCEPT ![r] = n]
      PROVE  q' = [q EXCEPT ![r] = [n EXCEPT !.dial = 0]]
  BY <1>1, <1>3
<1>4. ASSUME NEW r \in Req, Finish(r) PROVE Server!Finish(r)
  <2>1. q' = [q EXCEPT ![r] = [NoReq EXCEPT !.dial = 0]]
    BY <1>3, <1>4 DEF Finish
  <2>2. [NoReq EXCEPT !.dial = 0] = Server!NoReq
    BY DEF NoReq, Request, Server!NoReq, Server!Request
  <2> QED BY <1>4, <2>1, <2>2 DEF Finish, Server!Finish, Step, Server!Step
<1>5. \A r \in Req : /\ q[r].user = req[r].user /\ q[r].kind = req[r].kind
                     /\ q[r].why = req[r].why /\ q[r].peer = req[r].peer
                     /\ q[r].live = req[r].live /\ q[r].to = req[r].to
  BY <1>1 DEF ReqType
<1>6. UNCHANGED req => UNCHANGED q
  OBVIOUS
<1>7. ASSUME NEW r \in Req, CanSignal(r) PROVE Server!CanSignal(r)
  BY <1>4, <1>5, <1>6, <1>7 DEF CanSignal, Server!CanSignal, Step, Server!Step
<1>8. ASSUME NEW r \in Req, FindDirectCallee(r) PROVE Server!FindDirectCallee(r)
  <2>1. ASSUME NEW u, req' = [req EXCEPT ![r].peer = u] PROVE q' = [q EXCEPT ![r].peer = u]
    BY <1>1, <2>1 DEF ReqType
  <2> QED
    BY <1>5, <1>6, <1>8, <2>1 DEF FindDirectCallee, Server!FindDirectCallee, Step, Server!Step
<1>9. ASSUME NEW r \in Req, CreateRinging(r) PROVE Server!CreateRinging(r)
  BY <1>5, <1>6, <1>9
  DEF CreateRinging, Server!CreateRinging, Step, Server!Step, Call, Server!Call, NoRow, Server!NoRow
<1>10. ASSUME NEW r \in Req, FindLive(r) PROVE Server!FindLive(r)
  <2>1. ASSUME NEW c, req' = [req EXCEPT ![r].live = c] PROVE q' = [q EXCEPT ![r].live = c]
    BY <1>1, <2>1 DEF ReqType
  <2>2. ASSUME NEW c, NEW v, req' = [req EXCEPT ![r].live = c, ![r].to = v]
        PROVE  q' = [q EXCEPT ![r].live = c, ![r].to = v]
    BY <1>1, <2>2 DEF ReqType
  <2>3. \A c, u, why : Verdict(c, u, why) = Server!Verdict(c, u, why)
    BY DEF Verdict, Server!Verdict
  <2>4. \A c : IsLive(c) <=> Server!IsLive(c)
    BY DEF IsLive, Server!IsLive, Live, Server!Live
  <2>5. \A c : Found(c) <=> Server!Found(c)
    BY <2>4 DEF Found, Server!Found, Call, Server!Call
  <2> HIDE DEF q
  <2>6. CASE UNCHANGED req /\ Step(r, "relay") /\ \A c \in Call : ~IsLive(c)
    BY <1>6, <1>10, <2>4, <2>6
    DEF FindLive, Server!FindLive, Step, Server!Step, Call, Server!Call, q
  <2>7. ASSUME NEW c \in Call, req[r].kind = "answer", Found(c), Step(r, "mark"),
               req' = [req EXCEPT ![r].live = c]
        PROVE  Server!FindLive(r)
    BY <1>5, <1>10, <2>1, <2>5, <2>7
    DEF FindLive, Server!FindLive, Step, Server!Step, Call, Server!Call, q
  <2>8. ASSUME NEW c \in Call, req[r].kind = "end", Found(c), Step(r, "close"),
               req' = [req EXCEPT ![r].live = c,
                                  ![r].to = Verdict(c, req[r].user, req[r].why)]
        PROVE  Server!FindLive(r)
    <3>1. q' = [q EXCEPT ![r].live = c,
                         ![r].to = Server!Verdict(c, q[r].user, q[r].why)]
      BY <1>5, <2>2, <2>3, <2>8
    <3> QED
      BY <1>5, <1>10, <2>5, <2>8, <3>1
      DEF FindLive, Server!FindLive, Step, Server!Step, Call, Server!Call, q
  <2> QED BY <1>10, <2>6, <2>7, <2>8 DEF FindLive
<1>11. ASSUME NEW r \in Req, MarkAnswered(r) \/ MarkEnded(r) \/ PostEntry(r)
       PROVE  Server!MarkAnswered(r) \/ Server!MarkEnded(r) \/ Server!PostEntry(r)
  BY <1>5, <1>6, <1>11
  DEF MarkAnswered, Server!MarkAnswered, MarkEnded, Server!MarkEnded, PostEntry,
      Server!PostEntry, Step, Server!Step
<1>12. ASSUME NEW r \in Req, Relay(r) PROVE Server!Relay(r)
  BY <1>4, <1>12 DEF Relay, Server!Relay
<1>13. ASSUME NEW r \in Req, CallFails(r) \/ Crash(r)
       PROVE  Server!CallFails(r) \/ Server!Crash(r)
  BY <1>4, <1>5, <1>6, <1>13
  DEF CallFails, Crash, Lost, Step, Server!CallFails, Server!Crash, Server!Lost, Server!Step
<1>14. ASSUME NEW u \in User, Leave(u) PROVE Server!Leave(u)
  BY <1>6, <1>14 DEF Leave, Server!Leave
<1>15. ASSUME NEW r \in Req, NEW d \in Device, Serve(r, d) PROVE Server!AnyEvent(r)
  <2>1. PICK k \in Kind, why \in Reason \cup {"none"}, n \in Nat :
          /\ why \in Reason <=> k = "end"
          /\ Receive(r, k, Owner[d], why, n)
    BY <1>15, ServeReceives
  <2>2. q' = [q EXCEPT ![r] = [Request(k, Owner[d], why, n) EXCEPT !.dial = 0]]
    BY <1>3, <2>1 DEF Receive
  <2>3. [Request(k, Owner[d], why, n) EXCEPT !.dial = 0]
          = Server!Request(k, Owner[d], why, 0)
    BY DEF Request, Server!Request
  <2>4. Server!Receive(r, k, Owner[d], why, 0)
    BY <2>1, <2>2, <2>3 DEF Receive, Server!Receive, Step, Server!Step
  <2> QED BY <2>1, <2>4, OwnerIsUser DEF Server!AnyEvent, Kind, Reason, Server!Reason
<1>16. ASSUME NEW d \in Device, Browser(d) \/ Gone(d) \/ Disconnect(d) \/ Reconnect(d)
       PROVE  UNCHANGED recordVars
  BY <1>16 DEF Browser, StartCall, DialIce, DialMedia, Accept, AcceptIce,
     AcceptMedia, Hangup, Decline, RingOut, End, Connected, Failed, OnIncoming,
     OnAnswered, OnEnded, Take, Quiet, Gone, Disconnect, Reconnect
<1>17. UNCHANGED vars => UNCHANGED recordVars
  BY DEF vars
<1> HIDE DEF q
<1>18. ASSUME NEW r \in Req, Handle(r) PROVE Server!Handle(r)
  BY <1>7, <1>8, <1>9, <1>10, <1>11, <1>18 DEF Handle, Server!Handle
<1> QED
  BY <1>2, <1>12, <1>13, <1>14, <1>15, <1>16, <1>17, <1>18
  DEF CallsNext, HandleStep, RelayToRoom, Fault, Server!RecordsNext

(***************************************************************************)
(* Theorems.                                                               *)
(***************************************************************************)
\* The Call table and the handlers' locals keep their types; in particular a
\* handler that is to answer or close a row holds the id of a row that exists.
THEOREM RecordsTypeCorrect == RecordsSpec => []RecordsTypeOK
BY Invariance, PTL DEF RecordsInv

\* However many hang-ups race, a call that ended is in the conversation, is about
\* to be, or its entry was lost by a handler that failed at that very step; and
\* the conversation shows only calls that ended.
THEOREM HistoryComplete == RecordsSpec => [](EndedIsPosted /\ PostedHasEnded)
BY Invariance, PTL DEF RecordsInv

\* The outcome of a call that has ended is never rewritten: the answer, the
\* hang-up or the ring-out that comes late finds the row closed.
THEOREM OutcomeStands == RecordsSpec => OutcomeIsFinal
<1>1. ASSUME RecordsInv, [RecordsNext]_recordVars, NEW c \in Call, row[c].ended
      PROVE  row'[c] = row[c]
  <2>1. row[c].status \in Outcome /\ row[c].status # "none"
    BY <1>1 DEF RecordsInv, RecordsTypeOK, Outcome
  <2>2. ASSUME NEW r \in Req, CreateRinging(r) PROVE row'[c] = row[c]
    BY <1>1, <2>1, <2>2 DEF CreateRinging, RecordsInv, RecordsTypeOK
  <2>3. ASSUME NEW r \in Req, MarkAnswered(r) PROVE row'[c] = row[c]
    BY <1>1, <2>1, <2>3 DEF MarkAnswered, RecordsInv, RecordsTypeOK, Outcome
  <2>4. ASSUME NEW r \in Req, MarkEnded(r) PROVE row'[c] = row[c]
    BY <1>1, <2>4 DEF MarkEnded, RecordsInv, RecordsTypeOK
  <2>5. CASE UNCHANGED row
    BY <2>5
  <2> QED
    BY <1>1, <2>2, <2>3, <2>4, <2>5
    DEF RecordsNext, recordVars, AnyEvent, Receive, Handle, CanSignal,
        FindDirectCallee, FindLive, PostEntry, Relay, CallFails, Crash, Leave, Rejoin
<1>2. RecordsInv /\ [RecordsNext]_recordVars
        => [\A c \in Call : row[c].ended => row'[c] = row[c]]_recordVars
  BY <1>1
<1> QED BY <1>2, Invariance, PTL DEF RecordsSpec, OutcomeIsFinal

\* In a call between browsers, too, a call that ended is in the conversation, is
\* about to be, or was lost by a handler that failed at that very step, whatever
\* the browsers send twice, late or not at all (recordEnd).
THEOREM CallsHistoryComplete == CallsSpec => [](EndedIsPosted /\ PostedHasEnded)
BY CallsInvariance, PTL DEF CallsInv, RecordsInv

\* What browsers hold, queues and inboxes keep their types: whatever is relayed
\* is an event some browser sent, about a call somebody dialled.
THEOREM CallsTypeCorrect == CallsSpec => []CallsTypeOK
BY CallsInvariance, PTL DEF CallsInv

\* Refinement: whatever the browsers do, lose or send twice, the handlers they
\* feed behave as CallRecords says; each event is relayed by the handler that has
\* come to the end of its record (signaling.ts).
THEOREM CallsImplementRecords == CallsSpec => ServerIsCallRecords
<1>1. CallsInit => Server!RecordsInit
  BY ServerInit
<1>2. CallsInv /\ [CallsNext]_vars => [Server!RecordsNext]_Server!recordVars
  BY ServerStep
<1> QED
  BY <1>1, <1>2, CallsInvariance, PTL
  DEF CallsSpec, ServerIsCallRecords, Server!RecordsSpec

\* A browser that is on a call, dials or rings is never moved to another call: it
\* has to be idle in between, whatever arrives and whatever its own async
\* functions still do.
THEOREM OneCall == CallsSpec => OneCallAtATime
<1> DEFINE Same(d) == cl[d].phase # "idle" /\ cl'[d].phase # "idle"
                        => cl'[d].dial = cl[d].dial
<1>1. ASSUME CallsInv, [CallsNext]_vars, NEW x \in Device PROVE Same(x)
  <2>0. cl \in [Device -> ClientType] /\ \A d \in Device : cl[d] \in ClientType
    BY <1>1 DEF CallsInv, CallsTypeOK
  <2>1. CASE UNCHANGED cl
    BY <2>1
  <2>2. ASSUME NEW d \in Device,
               \/ cl' = Teardown(d) \/ cl' = Return(d) \/ cl' = [cl EXCEPT ![d] = Idle]
        PROVE  Same(x)
    BY <2>0, <2>2 DEF Teardown, Return, Idle
  <2>3. ASSUME NEW d \in Device, StartCall(d) \/ OnIncoming(d) PROVE Same(x)
    BY <2>0, <2>1, <2>3 DEF StartCall, OnIncoming
  <2>4. ASSUME NEW d \in Device,
               \/ DialIce(d) \/ DialMedia(d) \/ Accept(d) \/ AcceptIce(d)
               \/ AcceptMedia(d) \/ Connected(d) \/ OnAnswered(d)
        PROVE  Same(x)
    BY <2>0, <2>1, <2>2, <2>4
    DEF DialIce, DialMedia, Accept, AcceptIce, AcceptMedia, Connected, OnAnswered,
        ClientType
  <2>5. ASSUME NEW d \in Device,
               Hangup(d) \/ Decline(d) \/ RingOut(d) \/ Failed(d) \/ OnEnded(d) \/ Gone(d)
        PROVE  Same(x)
    BY <2>1, <2>2, <2>5 DEF Hangup, Decline, RingOut, End, Failed, OnEnded, Gone
  <2> QED
    BY <1>1, <2>1, <2>3, <2>4, <2>5
    DEF CallsNext, Browser, vars, clientVars, HandleStep, RelayToRoom, Serve, Fault,
        Disconnect, Reconnect
<1>2. CallsInv /\ [CallsNext]_vars
        => [\A d \in Device : cl[d].phase # "idle" /\ cl'[d].phase # "idle"
                                => cl'[d].dial = cl[d].dial]_cl
  BY <1>1
<1> QED BY <1>2, CallsInvariance, PTL DEF CallsSpec, OneCallAtATime

\* What is relayed.
Letter == Cand \cup {Description}

\* What each variable holds.
IceTypeOK ==
  /\ at \in [Side -> Stage]
  /\ cands \in [Side -> Seq(Letter)]
  /\ sent \in [Side -> SUBSET Letter]
  /\ unsent \in [Side -> SUBSET Cand]
  /\ pending \in [Side -> SUBSET Cand]
  /\ flush \in [Side -> SUBSET Cand]
  /\ added \in [Side -> SUBSET Cand]
  /\ heard \in [Side -> SUBSET Cand]

\* Before the caller has dialled, nothing has come to the callee or from it.
NothingBefore ==
  at["caller"] = "off" =>
    /\ at["callee"] = "off" /\ sent["caller"] = {} /\ cands["callee"] = <<>>
    /\ unsent["callee"] = Cand

\* The queue and its copy are empty once they are not needed any more.
Drained(p) ==
  /\ Described(p) => pending[p] = {}
  /\ at[p] # "flushing" => flush[p] = {}

\* A candidate of the callee that the caller has not heard is still on its way.
OnTheWay ==
  Listening("caller") =>
    \A c \in Cand : \/ c \in unsent["callee"] \cup sent["callee"]
                    \/ c \in heard["caller"]
                    \/ \E i \in DOMAIN cands["caller"] : cands["caller"][i] = c

IceHears(p) == heard[p] = (pending[p] \cup flush[p]) \cup added[p]

\* The inductive invariant of the candidates.
IceInv ==
  /\ IceTypeOK /\ NothingBefore /\ OnTheWay
  /\ \A p \in Side : Drained(p) /\ IceHears(p)

\* What a browser reads is the head of what came to it, and the rest remains.
LEMMA HeadTail ==
  ASSUME NEW S, NEW q \in Seq(S), q # <<>>
  PROVE  /\ Head(q) \in S /\ Tail(q) \in Seq(S)
         /\ \A i \in DOMAIN q : q[i] # Head(q) => \E j \in DOMAIN Tail(q) : Tail(q)[j] = q[i]
<1>1. Head(q) \in S /\ Tail(q) \in Seq(S)
  BY HeadTailProperties
<1>2. ASSUME NEW i \in DOMAIN q, q[i] # Head(q)
      PROVE  \E j \in DOMAIN Tail(q) : Tail(q)[j] = q[i]
  <2>1. i \in 1..Len(q) /\ Len(q) \in Nat /\ q[1] = Head(q)
    BY <1>2
  <2>2. i - 1 \in 1..(Len(q) - 1) /\ i - 1 + 1 = i
    BY <1>2, <2>1
  <2>3. Len(Tail(q)) = Len(q) - 1 /\ \A j \in 1..Len(Tail(q)) : Tail(q)[j] = q[j + 1]
    BY HeadTailProperties
  <2>4. DOMAIN Tail(q) = 1..Len(Tail(q))
    BY <1>1
  <2>. QED
    BY <2>2, <2>3, <2>4
<1>. QED
  BY <1>1, <1>2

\* What is relayed comes behind what was there.
LEMMA AppendHolds ==
  ASSUME NEW S, NEW q \in Seq(S), NEW x \in S
  PROVE  /\ Append(q, x) \in Seq(S)
         /\ \E i \in DOMAIN Append(q, x) : Append(q, x)[i] = x
         /\ \A i \in DOMAIN q : i \in DOMAIN Append(q, x) /\ Append(q, x)[i] = q[i]
         /\ Append(q, x) # <<>>
<1>1. Append(q, x) \in Seq(S) /\ Len(Append(q, x)) = Len(q) + 1 /\ Len(q) \in Nat
  BY AppendProperties
<1>2. DOMAIN Append(q, x) = 1..(Len(q) + 1) /\ DOMAIN q = 1..Len(q)
  BY <1>1
<1>3. Append(q, x)[Len(q) + 1] = x /\ \A i \in 1..Len(q) : Append(q, x)[i] = q[i]
  BY AppendProperties
<1>4. Len(q) + 1 \in 1..(Len(q) + 1) /\ \A i \in 1..Len(q) : i \in 1..(Len(q) + 1)
  BY <1>1
<1>. QED
  BY <1>1, <1>2, <1>3, <1>4

\* Nothing is anywhere before a call.
LEMMA IceStarts == ASSUME IceInit PROVE IceInv
<1>1. IceTypeOK
  BY DEF IceInit, IceTypeOK, Side, Stage, Letter
<1>2. at["caller"] = "off" /\ \A p \in Side : at[p] = "off"
  BY DEF IceInit, Side
<1>3. NothingBefore
  BY DEF IceInit, NothingBefore, Side
<1>4. OnTheWay
  BY <1>2 DEF OnTheWay, Listening
<1>5. \A p \in Side : Drained(p) /\ IceHears(p)
  BY DEF IceInit, Drained, IceHears, Described
<1>. QED
  BY <1>1, <1>3, <1>4, <1>5 DEF IceInv

\* The types after a step that changes at and the sets of one side.
LEMMA IceTypes == ASSUME IceInv, IceNext, CandAssumption PROVE IceTypeOK'
<1>0. IceTypeOK /\ Side = {"caller", "callee"} /\ \A p \in Side : Other(p) \in Side
  BY DEF IceInv, Side, Other
<1>. USE <1>0
<1>1. CASE EmitOffer
  BY <1>1 DEF EmitOffer, Enter, IceTypeOK, Stage, Letter
<1>2. CASE PickUp
  BY <1>2 DEF PickUp, Enter, IceTypeOK, Stage
<1>3. ASSUME NEW p \in Side, Gather(p) PROVE IceTypeOK'
  BY <1>3 DEF Gather, IceTypeOK, Letter
<1>4. ASSUME NEW p \in Side, RelayIce(p) PROVE IceTypeOK'
  <2>1. PICK x \in sent[p] : /\ sent' = [sent EXCEPT ![p] = @ \ {x}]
                             /\ cands' = [cands EXCEPT ![Other(p)] = Append(@, x)]
    BY <1>4 DEF RelayIce
  <2>2. x \in Letter /\ cands[Other(p)] \in Seq(Letter)
    BY DEF IceTypeOK
  <2>3. Append(cands[Other(p)], x) \in Seq(Letter)
    BY <2>2, AppendHolds
  <2>4. cands' \in [Side -> Seq(Letter)]
    BY <2>1, <2>3 DEF IceTypeOK
  <2>5. sent' \in [Side -> SUBSET Letter]
    BY <2>1 DEF IceTypeOK
  <2>. QED
    BY <1>4, <2>4, <2>5 DEF RelayIce, IceTypeOK
<1>5. ASSUME NEW p \in Side, OnDescription(p) PROVE IceTypeOK'
  <2>1. cands' \in [Side -> Seq(Letter)]
    BY <1>5, HeadTail DEF OnDescription, Read, IceTypeOK
  <2>2. at' \in [Side -> Stage]
    BY <1>5 DEF OnDescription, IceTypeOK, Stage
  <2>. QED
    BY <1>5, <2>1, <2>2 DEF OnDescription, IceTypeOK
<1>6. ASSUME NEW p \in Side, OnCandidate(p) PROVE IceTypeOK'
  <2>1. cands' \in [Side -> Seq(Letter)]
    BY <1>6, HeadTail DEF OnCandidate, Read, IceTypeOK
  <2>2. Head(cands[p]) \in Cand
    BY <1>6, HeadTail DEF OnCandidate, IceTypeOK, Letter
  <2>3. /\ pending' \in [Side -> SUBSET Cand] /\ added' \in [Side -> SUBSET Cand]
        /\ heard' \in [Side -> SUBSET Cand]
    BY <1>6, <2>2 DEF OnCandidate, IceTypeOK
  <2>. QED
    BY <1>6, <2>1, <2>3 DEF OnCandidate, IceTypeOK
<1>7. ASSUME NEW p \in Side, SetRemote(p) PROVE IceTypeOK'
  BY <1>7 DEF SetRemote, Enter, IceTypeOK, Stage
<1>8. ASSUME NEW p \in Side, FlushOne(p) PROVE IceTypeOK'
  BY <1>8 DEF FlushOne, IceTypeOK
<1>9. ASSUME NEW p \in Side, Flushed(p) PROVE IceTypeOK'
  BY <1>9 DEF Flushed, Enter, IceTypeOK, Stage, Letter
<1>10. ASSUME NEW p \in Side, Close(p) PROVE IceTypeOK'
  BY <1>10 DEF Close, Enter, IceTypeOK, Stage
<1>. QED
  BY <1>1, <1>2, <1>3, <1>4, <1>5, <1>6, <1>7, <1>8, <1>9, <1>10 DEF IceNext

\* The queue, the copy of it and the connection hold what was heard.
LEMMA IceKeepsHearing ==
  ASSUME IceInv, IceNext, CandAssumption
  PROVE  \A p \in Side : Drained(p)' /\ IceHears(p)'
<1>0. IceTypeOK /\ \A p \in Side : Drained(p) /\ IceHears(p)
  BY DEF IceInv
<1>. SUFFICES ASSUME NEW q \in Side PROVE Drained(q)' /\ IceHears(q)'
  OBVIOUS
<1>. USE <1>0
<1>1. CASE EmitOffer
  BY <1>1 DEF EmitOffer, Enter, IceTypeOK, Drained, IceHears, Described
<1>2. CASE PickUp
  BY <1>2 DEF PickUp, Enter, IceTypeOK, Drained, IceHears, Described
<1>3. ASSUME NEW p \in Side, Gather(p) PROVE Drained(q)' /\ IceHears(q)'
  BY <1>3 DEF Gather, Drained, IceHears, Described
<1>4. ASSUME NEW p \in Side, RelayIce(p) PROVE Drained(q)' /\ IceHears(q)'
  BY <1>4 DEF RelayIce, Drained, IceHears, Described
<1>5. ASSUME NEW p \in Side, OnDescription(p) PROVE Drained(q)' /\ IceHears(q)'
  <2>1. \/ at' = at
        \/ at' = [at EXCEPT ![p] = "ringing"] /\ at[p] = "off"
        \/ at' = [at EXCEPT ![p] = "setting"] /\ at[p] = "waiting"
    BY <1>5 DEF OnDescription
  <2>. QED
    BY <1>5, <2>1 DEF OnDescription, IceTypeOK, Drained, IceHears, Described
<1>6. ASSUME NEW p \in Side, OnCandidate(p) PROVE Drained(q)' /\ IceHears(q)'
  <2>1. CASE q = p
    <3>1. \/ UNCHANGED <<pending, added, heard>>
          \/ /\ ~Described(p) /\ UNCHANGED added
             /\ pending'[p] = pending[p] \cup {Head(cands[p])}
             /\ heard'[p] = heard[p] \cup {Head(cands[p])}
          \/ /\ UNCHANGED pending
             /\ added'[p] = added[p] \cup {Head(cands[p])}
             /\ heard'[p] = heard[p] \cup {Head(cands[p])}
      BY <1>6 DEF OnCandidate, IceTypeOK
    <3>. QED
      BY <1>6, <2>1, <3>1 DEF OnCandidate, Drained, IceHears, Described
  <2>2. CASE q # p
    <3>1. pending'[q] = pending[q] /\ added'[q] = added[q] /\ heard'[q] = heard[q]
      BY <1>6, <2>2 DEF OnCandidate, IceTypeOK
    <3>. QED
      BY <1>6, <3>1 DEF OnCandidate, Drained, IceHears, Described
  <2>. QED
    BY <2>1, <2>2
<1>7. ASSUME NEW p \in Side, SetRemote(p) PROVE Drained(q)' /\ IceHears(q)'
  BY <1>7 DEF SetRemote, Enter, IceTypeOK, Drained, IceHears, Described
<1>8. ASSUME NEW p \in Side, FlushOne(p) PROVE Drained(q)' /\ IceHears(q)'
  BY <1>8 DEF FlushOne, IceTypeOK, Drained, IceHears, Described
<1>9. ASSUME NEW p \in Side, Flushed(p) PROVE Drained(q)' /\ IceHears(q)'
  BY <1>9 DEF Flushed, Enter, IceTypeOK, Drained, IceHears, Described
<1>10. ASSUME NEW p \in Side, Close(p) PROVE Drained(q)' /\ IceHears(q)'
  BY <1>10 DEF Close, Enter, IceTypeOK, Drained, IceHears, Described
<1>. QED
  BY <1>1, <1>2, <1>3, <1>4, <1>5, <1>6, <1>7, <1>8, <1>9, <1>10 DEF IceNext

\* Nothing comes out of a call before it is dialled.
LEMMA IceBegins == ASSUME IceInv, IceNext, CandAssumption PROVE NothingBefore'
<1>0. IceTypeOK /\ NothingBefore /\ Side = {"caller", "callee"}
  BY DEF IceInv, Side
<1>. SUFFICES ASSUME at'["caller"] = "off" PROVE NothingBefore'
  BY DEF NothingBefore
<1>. USE <1>0
<1>1. CASE EmitOffer
  BY <1>1 DEF EmitOffer, Enter, IceTypeOK
<1>2. CASE PickUp
  BY <1>2 DEF PickUp, Enter, IceTypeOK, NothingBefore
<1>3. ASSUME NEW p \in Side, Gather(p) PROVE NothingBefore'
  BY <1>3 DEF Gather, IceTypeOK, NothingBefore, Listening
<1>4. ASSUME NEW p \in Side, RelayIce(p) PROVE NothingBefore'
  <2>1. p = "callee"
    BY <1>4 DEF RelayIce, NothingBefore
  <2>. QED
    BY <1>4, <2>1 DEF RelayIce, IceTypeOK, NothingBefore, Other
<1>5. ASSUME NEW p \in Side, OnDescription(p) PROVE NothingBefore'
  <2>1. at["caller"] = "off"
    BY <1>5 DEF OnDescription, IceTypeOK
  <2>2. p = "caller"
    BY <1>5, <2>1 DEF OnDescription, NothingBefore
  <2>. QED
    BY <1>5, <2>1, <2>2 DEF OnDescription, Read, IceTypeOK, NothingBefore
<1>6. ASSUME NEW p \in Side, OnCandidate(p) PROVE NothingBefore'
  BY <1>6 DEF OnCandidate, Read, IceTypeOK, NothingBefore
<1>7. ASSUME NEW p \in Side, SetRemote(p) PROVE NothingBefore'
  BY <1>7 DEF SetRemote, Enter, IceTypeOK, NothingBefore
<1>8. ASSUME NEW p \in Side, FlushOne(p) PROVE NothingBefore'
  BY <1>8 DEF FlushOne, IceTypeOK, NothingBefore
<1>9. ASSUME NEW p \in Side, Flushed(p) PROVE NothingBefore'
  BY <1>9 DEF Flushed, Enter, IceTypeOK, NothingBefore
<1>10. ASSUME NEW p \in Side, Close(p) PROVE NothingBefore'
  BY <1>10 DEF Close, Enter, Listening, IceTypeOK, NothingBefore
<1>. QED
  BY <1>1, <1>2, <1>3, <1>4, <1>5, <1>6, <1>7, <1>8, <1>9, <1>10 DEF IceNext

\* The caller hears, or has still to hear, every candidate the callee gathers.
LEMMA IceOnTheWay == ASSUME IceInv, IceNext, CandAssumption PROVE OnTheWay'
<1>0. IceTypeOK /\ NothingBefore /\ OnTheWay /\ Side = {"caller", "callee"}
  BY DEF IceInv, Side
<1>. SUFFICES ASSUME Listening("caller")', NEW c \in Cand
              PROVE  \/ c \in unsent'["callee"] \cup sent'["callee"]
                     \/ c \in heard'["caller"]
                     \/ \E i \in DOMAIN cands'["caller"] : cands'["caller"][i] = c
  BY DEF OnTheWay
<1>. USE <1>0
<1>1. CASE EmitOffer
  BY <1>1 DEF EmitOffer, NothingBefore
<1>a. CASE at["caller"] = "off" /\ ~EmitOffer
  <2>1. at'["caller"] = "off"
    BY <1>a DEF IceNext, PickUp, Gather, RelayIce, OnDescription, OnCandidate, SetRemote,
      FlushOne, Flushed, Close, Enter, Listening, NothingBefore, IceTypeOK
  <2>. QED
    BY <2>1 DEF Listening
<1>. SUFFICES ASSUME at["caller"] # "off", ~EmitOffer
              PROVE  \/ c \in unsent'["callee"] \cup sent'["callee"]
                     \/ c \in heard'["caller"]
                     \/ \E i \in DOMAIN cands'["caller"] : cands'["caller"][i] = c
  BY <1>1, <1>a
<1>b. at["caller"] # "over"
  BY DEF IceNext, PickUp, Gather, RelayIce, OnDescription, OnCandidate, SetRemote,
    FlushOne, Flushed, Close, Enter, Listening, IceTypeOK
<1>c. \/ c \in unsent["callee"] \cup sent["callee"]
      \/ c \in heard["caller"]
      \/ \E i \in DOMAIN cands["caller"] : cands["caller"][i] = c
  BY <1>b DEF OnTheWay, Listening
<1>2. CASE PickUp
  BY <1>2, <1>c DEF PickUp
<1>3. ASSUME NEW p \in Side, Gather(p) PROVE
        \/ c \in unsent'["callee"] \cup sent'["callee"]
        \/ c \in heard'["caller"]
        \/ \E i \in DOMAIN cands'["caller"] : cands'["caller"][i] = c
  BY <1>3, <1>c DEF Gather, IceTypeOK
<1>4. ASSUME NEW p \in Side, RelayIce(p) PROVE
        \/ c \in unsent'["callee"] \cup sent'["callee"]
        \/ c \in heard'["caller"]
        \/ \E i \in DOMAIN cands'["caller"] : cands'["caller"][i] = c
  <2>1. PICK x \in sent[p] : /\ sent' = [sent EXCEPT ![p] = @ \ {x}]
                             /\ cands' = [cands EXCEPT ![Other(p)] = Append(@, x)]
    BY <1>4 DEF RelayIce
  <2>2. CASE p = "caller"
    <3>1. sent'["callee"] = sent["callee"] /\ cands'["caller"] = cands["caller"]
      BY <2>1, <2>2 DEF IceTypeOK, Other
    <3>. QED
      BY <1>4, <1>c, <3>1 DEF RelayIce
  <2>3. CASE p = "callee"
    <3>1. sent'["callee"] = sent["callee"] \ {x}
          /\ cands'["caller"] = Append(cands["caller"], x)
      BY <2>1, <2>3 DEF IceTypeOK, Other
    <3>2. cands["caller"] \in Seq(Letter) /\ x \in Letter
      BY <2>3 DEF IceTypeOK
    <3>3. \/ c \in unsent["callee"] \/ c \in heard["caller"] \/ c \in sent["callee"] \ {x}
          \/ c = x \/ \E i \in DOMAIN cands["caller"] : cands["caller"][i] = c
      BY <1>c
    <3>4. \/ c \in unsent["callee"] \/ c \in heard["caller"] \/ c \in sent["callee"] \ {x}
          \/ \E i \in DOMAIN Append(cands["caller"], x) : Append(cands["caller"], x)[i] = c
      BY <3>2, <3>3, AppendHolds
    <3>. QED
      BY <1>4, <3>1, <3>4 DEF RelayIce
  <2>. QED
    BY <2>2, <2>3
<1>5. ASSUME NEW p \in Side, OnDescription(p) PROVE
        \/ c \in unsent'["callee"] \cup sent'["callee"]
        \/ c \in heard'["caller"]
        \/ \E i \in DOMAIN cands'["caller"] : cands'["caller"][i] = c
  <2>1. CASE p = "callee"
    BY <1>5, <2>1, <1>c DEF OnDescription, Read, IceTypeOK
  <2>2. CASE p = "caller"
    <3>1. cands["caller"] \in Seq(Letter) /\ cands["caller"] # <<>>
          /\ Head(cands["caller"]) # c /\ cands'["caller"] = Tail(cands["caller"])
      BY <1>5, <2>2 DEF OnDescription, Read, IceTypeOK, CandAssumption
    <3>2. (\E i \in DOMAIN cands["caller"] : cands["caller"][i] = c)
          => \E i \in DOMAIN cands'["caller"] : cands'["caller"][i] = c
      BY <3>1, HeadTail
    <3>. QED
      BY <1>5, <1>c, <3>2 DEF OnDescription
  <2>. QED
    BY <2>1, <2>2
<1>6. ASSUME NEW p \in Side, OnCandidate(p) PROVE
        \/ c \in unsent'["callee"] \cup sent'["callee"]
        \/ c \in heard'["caller"]
        \/ \E i \in DOMAIN cands'["caller"] : cands'["caller"][i] = c
  <2>1. CASE p = "callee"
    BY <1>6, <2>1, <1>c DEF OnCandidate, Read, IceTypeOK
  <2>2. CASE p = "caller"
    <3>1. cands["caller"] \in Seq(Letter) /\ cands["caller"] # <<>>
          /\ cands'["caller"] = Tail(cands["caller"])
      BY <1>6, <2>2 DEF OnCandidate, Read, IceTypeOK
    <3>2. heard'["caller"] = heard["caller"] \cup {Head(cands["caller"])}
      BY <1>6, <2>2, <1>b DEF OnCandidate, Listening, IceTypeOK
    <3>3. (\E i \in DOMAIN cands["caller"] : cands["caller"][i] = c)
          => \/ c = Head(cands["caller"])
             \/ \E i \in DOMAIN cands'["caller"] : cands'["caller"][i] = c
      BY <3>1, HeadTail
    <3>. QED
      BY <1>6, <1>c, <3>2, <3>3 DEF OnCandidate
  <2>. QED
    BY <2>1, <2>2
<1>7. ASSUME NEW p \in Side, SetRemote(p) \/ FlushOne(p) PROVE
        \/ c \in unsent'["callee"] \cup sent'["callee"]
        \/ c \in heard'["caller"]
        \/ \E i \in DOMAIN cands'["caller"] : cands'["caller"][i] = c
  BY <1>7, <1>c DEF SetRemote, FlushOne
<1>9. ASSUME NEW p \in Side, Flushed(p) PROVE
        \/ c \in unsent'["callee"] \cup sent'["callee"]
        \/ c \in heard'["caller"]
        \/ \E i \in DOMAIN cands'["caller"] : cands'["caller"][i] = c
  BY <1>9, <1>c DEF Flushed, IceTypeOK
<1>10. ASSUME NEW p \in Side, Close(p) PROVE
        \/ c \in unsent'["callee"] \cup sent'["callee"]
        \/ c \in heard'["caller"]
        \/ \E i \in DOMAIN cands'["caller"] : cands'["caller"][i] = c
  <2>1. p = "callee"
    BY <1>10 DEF Close, Enter, Listening, IceTypeOK
  <2>. QED
    BY <1>10, <2>1, <1>c DEF Close, IceTypeOK
<1>. QED
  BY <1>2, <1>3, <1>4, <1>5, <1>6, <1>7, <1>9, <1>10 DEF IceNext

\* What was heard is all there, and a caller for whom nothing is left has everything.
LEMMA IceArrives == ASSUME IceInv PROVE CandidatesArrive
<1>0. IceTypeOK /\ OnTheWay /\ \A p \in Side : Drained(p) /\ IceHears(p)
  BY DEF IceInv
<1>1. \A p \in Side : heard[p] = pending[p] \cup flush[p] \cup added[p]
  BY <1>0 DEF IceHears
<1>2. ASSUME at["caller"] = "done", unsent["callee"] = {}, sent["callee"] = {},
             cands["caller"] = <<>>
      PROVE  added["caller"] = Cand
  <2>1. heard["caller"] = added["caller"]
    BY <1>0, <1>2 DEF Drained, IceHears, Described, Side
  <2>2. DOMAIN cands["caller"] = {}
    BY <1>2
  <2>3. \A c \in Cand : c \in heard["caller"]
    BY <1>0, <1>2, <2>2 DEF OnTheWay, Listening
  <2>4. added["caller"] \subseteq Cand
    BY <1>0 DEF IceTypeOK, Side
  <2>. QED
    BY <2>1, <2>3, <2>4
<1>. QED
  BY <1>1, <1>2 DEF CandidatesArrive

\* No candidate that reaches a browser in its call is lost, for any number of
\* candidates and however their handlers overtake each other (pendingCandidates,
\* flushCandidates in call-context.tsx).
THEOREM CandidatesAllArrive == IceSpec => []CandidatesArrive
<1>0. CandAssumption
  BY CandAssumption
<1>1. IceInit => IceInv
  BY IceStarts
<1>2. IceInv /\ [IceNext]_iceVars => IceInv'
  <2>1. ASSUME IceInv, IceNext PROVE IceInv'
    BY <1>0, <2>1, IceTypes, IceBegins, IceOnTheWay, IceKeepsHearing DEF IceInv
  <2>2. ASSUME IceInv, UNCHANGED iceVars PROVE IceInv'
    BY <2>2 DEF IceInv, iceVars, IceTypeOK, NothingBefore, OnTheWay, Drained, IceHears,
      Listening, Described
  <2>. QED
    BY <2>1, <2>2
<1>3. IceInv => CandidatesArrive
  BY IceArrives
<1>. QED
  BY <1>1, <1>2, <1>3, PTL DEF IceSpec

(***************************************************************************)
(* A call between two browsers, dialled once: what is on its way from one  *)
(* to the other, and what that says of them.                               *)
(***************************************************************************)
\* Events in a queue: whether there is one of a kind, and whether there is only one; every
\* offer is of the first dialling.
Has(s, k)  == \E i \in DOMAIN s : s[i].kind = k
Once(s, k) == \A i, j \in DOMAIN s : s[i].kind = k /\ s[j].kind = k => i = j
First(s)   == \A i \in DOMAIN s : s[i].kind = "offer" => s[i].dial = 1

\* A handler serves an event of kind k that d sent.
Serves(r, d, k) == pc[r] # "idle" /\ from[r] = d /\ req[r].kind = k

\* An event of kind k is on its way from d to e.
Comes(d, e, k) == Has(up[d], k) \/ (\E r \in Req : Serves(r, d, k)) \/ Has(inbox[e], k)

\* There is at most one offer on its way from d to e.
OneOffer(d, e) ==
  /\ Once(up[d], "offer") /\ Once(inbox[e], "offer")
  /\ \A r, s \in Req : Serves(r, d, "offer") /\ Serves(s, d, "offer") => r = s
  /\ \A r \in Req : Serves(r, d, "offer") => ~Has(up[d], "offer") /\ ~Has(inbox[e], "offer")
  /\ ~(Has(up[d], "offer") /\ Has(inbox[e], "offer"))

AllFirst ==
  /\ \A d \in Device : First(up[d]) /\ First(inbox[d])
  /\ \A r \in Req : pc[r] # "idle" /\ req[r].kind = "offer" => req[r].dial = 1

\* Everybody is connected and in the chat, and every handler serves a browser.
Steady ==
  /\ online = Device /\ active = User
  /\ \A r \in Req : pc[r] # "idle" => from[r] \in Device /\ req[r].user \in User

\* Before anybody dials.
NoCall ==
  /\ dials = 0
  /\ \A d \in Device : cl[d] = Idle /\ up[d] = <<>> /\ inbox[d] = <<>>
  /\ \A r \in Req : pc[r] = "idle"

\* A browser is in the call, or in none.
InCall(d) == IF cl[d].phase = "idle" THEN ~cl[d].chat /\ cl[d].dial = 0
                                     ELSE cl[d].chat /\ cl[d].dial = 1

\* A browser whose call is connected: the other is in it, or has sent its end.
NotAlone(d, e) == cl[d].phase = "active" => cl[e].phase # "idle" \/ Comes(e, d, "end")

\* b has not heard of the call, and has sent nothing that ends it.
Unheard(a, b) ==
  cl[b].phase = "idle" /\ cl[b].task.at = "none" /\ cl[b].pc = "none" /\ ~Comes(b, a, "end")

\* a dialled, and b is called.
Between(a, b) ==
  /\ cl[a].task.at \in {"none", "dialIce", "dialMedia"}
  /\ cl[a].task.at # "none" => cl[a].task.dial = 1
  /\ cl[b].task.at \in {"none", "acceptIce", "acceptMedia"}
  /\ cl[a].phase # "incoming" /\ InCall(a) /\ InCall(b)
  /\ cl[a].pc \in {"set", "up"} => cl[a].chat
  /\ ~Comes(a, b, "answer") /\ ~Comes(b, a, "offer")
  /\ Comes(a, b, "end") => cl[a].phase = "idle"
  /\ Comes(b, a, "end") => cl[b].phase = "idle"
  /\ cl[a].task.at # "none" \/ Comes(a, b, "offer") => Unheard(a, b)
  /\ cl[a].task.at # "none" => ~Comes(a, b, "offer")
  /\ OneOffer(a, b) /\ AllFirst
  /\ NotAlone(a, b) /\ NotAlone(b, a)

\* The inductive invariant of one call between a and b.
PairInv(a, b) ==
  mishaps = 0 /\ dials <= 1 =>
    /\ Steady
    /\ NoCall \/ (dials = 1 /\ (Between(a, b) \/ Between(b, a)))

\* What is read is the head of a queue; the rest keeps what it held.
LEMMA QueueRead ==
  ASSUME NEW S, NEW q \in Seq(S), q # <<>>, NEW k
  PROVE  /\ Head(q).kind = k => Has(q, k)
         /\ Has(Tail(q), k) => Has(q, k)
         /\ Head(q).kind # k => (Has(Tail(q), k) <=> Has(q, k))
         /\ Once(q, k) => Once(Tail(q), k)
         /\ Once(q, k) /\ Head(q).kind = k => ~Has(Tail(q), k)
         /\ First(q) => First(Tail(q)) /\ (Head(q).kind = "offer" => Head(q).dial = 1)
<1>1. Len(q) \in Nat \ {0} /\ DOMAIN q = 1..Len(q) /\ q[1] = Head(q)
  BY LenProperties, EmptySeq
<1>2. Tail(q) \in Seq(S) /\ Len(Tail(q)) = Len(q) - 1
      /\ \A j \in 1..Len(Tail(q)) : Tail(q)[j] = q[j + 1]
  BY HeadTailProperties
<1>3. DOMAIN Tail(q) = 1..(Len(q) - 1)
  BY <1>2, LenProperties
<1>4. \A j \in DOMAIN Tail(q) : j + 1 \in DOMAIN q /\ j + 1 # 1 /\ Tail(q)[j] = q[j + 1]
  BY <1>1, <1>2, <1>3
<1>5. \A i \in DOMAIN q : i # 1 => i - 1 \in DOMAIN Tail(q) /\ Tail(q)[i - 1] = q[i]
  <2>. SUFFICES ASSUME NEW i \in DOMAIN q, i # 1
                PROVE  i - 1 \in DOMAIN Tail(q) /\ Tail(q)[i - 1] = q[i]
    OBVIOUS
  <2>1. i \in Nat /\ i - 1 \in 1..(Len(q) - 1) /\ (i - 1) + 1 = i
    BY <1>1
  <2>. QED
    BY <1>2, <1>3, <2>1
<1>6. 1 \in DOMAIN q
  BY <1>1
<1>7. Head(q).kind = k => Has(q, k)
  BY <1>1, <1>6 DEF Has
<1>8. Has(Tail(q), k) => Has(q, k)
  BY <1>4 DEF Has
<1>9. Head(q).kind # k /\ Has(q, k) => Has(Tail(q), k)
  BY <1>1, <1>5 DEF Has
<1>10. Once(q, k) => Once(Tail(q), k)
  <2>. SUFFICES ASSUME Once(q, k), NEW i \in DOMAIN Tail(q), NEW j \in DOMAIN Tail(q),
                       Tail(q)[i].kind = k, Tail(q)[j].kind = k
                PROVE  i = j
    BY DEF Once
  <2>1. i + 1 = j + 1
    BY <1>4 DEF Once
  <2>. QED
    BY <1>3, <2>1
<1>11. Once(q, k) /\ Head(q).kind = k => ~Has(Tail(q), k)
  BY <1>1, <1>4, <1>6 DEF Once, Has
<1>12. First(q) => First(Tail(q)) /\ (Head(q).kind = "offer" => Head(q).dial = 1)
  BY <1>1, <1>4, <1>6 DEF First
<1>. QED
  BY <1>7, <1>8, <1>9, <1>10, <1>11, <1>12

\* What is sent comes behind what a queue held.
LEMMA QueueGrows ==
  ASSUME NEW S, NEW q \in Seq(S), NEW e, NEW k
  PROVE  /\ Has(Append(q, e), k) <=> Has(q, k) \/ e.kind = k
         /\ Once(q, k) /\ (e.kind = k => ~Has(q, k)) => Once(Append(q, e), k)
         /\ First(q) /\ (e.kind = "offer" => e.dial = 1) => First(Append(q, e))
<1> DEFINE T == S \cup {e}
<1>1. q \in Seq(T) /\ e \in T
  OBVIOUS
<1>. HIDE DEF T
<1>2. /\ Append(q, e) \in Seq(T) /\ Len(Append(q, e)) = Len(q) + 1 /\ Len(q) \in Nat
      /\ \A i \in 1..Len(q) : Append(q, e)[i] = q[i]
      /\ Append(q, e)[Len(q) + 1] = e
  BY <1>1, AppendProperties, LenProperties
<1>3. DOMAIN q = 1..Len(q) /\ DOMAIN Append(q, e) = 1..(Len(q) + 1)
  BY <1>1, <1>2, LenProperties
<1>4. \A i \in DOMAIN Append(q, e) :
        \/ i \in DOMAIN q /\ Append(q, e)[i] = q[i]
        \/ i = Len(q) + 1 /\ Append(q, e)[i] = e
  BY <1>2, <1>3
<1>5. /\ Len(q) + 1 \in DOMAIN Append(q, e)
      /\ \A i \in DOMAIN q : i \in DOMAIN Append(q, e)
  BY <1>2, <1>3
<1>6. Has(Append(q, e), k) <=> Has(q, k) \/ e.kind = k
  <2>1. Has(Append(q, e), k) => Has(q, k) \/ e.kind = k
    BY <1>4 DEF Has
  <2>2. Has(q, k) => Has(Append(q, e), k)
    BY <1>2, <1>3, <1>5 DEF Has
  <2>3. e.kind = k => Has(Append(q, e), k)
    BY <1>2, <1>5 DEF Has
  <2>. QED
    BY <2>1, <2>2, <2>3
<1>7. Once(q, k) /\ (e.kind = k => ~Has(q, k)) => Once(Append(q, e), k)
  BY <1>4 DEF Once, Has
<1>8. First(q) /\ (e.kind = "offer" => e.dial = 1) => First(Append(q, e))
  BY <1>4 DEF First
<1>. QED
  BY <1>6, <1>7, <1>8

\* Nothing is in an empty queue.
LEMMA QueueEmpty == (\A k : ~Has(<<>>, k) /\ Once(<<>>, k)) /\ First(<<>>)
<1>1. DOMAIN <<>> = {}
  BY EmptySeq
<1>. QED
  BY <1>1 DEF Has, Once, First

(***************************************************************************)
(* What is under way from one to the other, when it is read, served or     *)
(* relayed, stays under way till it is there: handlers may overtake each   *)
(* other, but no event is lost and none is doubled.                        *)
(***************************************************************************)
\* The server reads what d sent.
LEMMA ServeMail ==
  ASSUME CallsInv, NEW a \in Device, NEW b \in Device,
         NEW r \in Req, NEW d \in Device, Serve(r, d)
  PROVE  /\ \A k : Comes(a, b, k)' <=> Comes(a, b, k)
         /\ OneOffer(a, b) => OneOffer(a, b)'
         /\ AllFirst => AllFirst'
         /\ Steady => Steady'
<1> DEFINE e == Head(up[d])
<1>t. /\ pc \in [Req -> Steps] /\ req \in [Req -> ReqType]
      /\ up \in [Device -> Seq(Signal)] /\ from \in [Req -> Device \cup {None}]
  BY DEF CallsInv, RecordsInv, RecordsTypeOK, CallsTypeOK
<1>1. /\ up[d] # <<>> /\ up' = [up EXCEPT ![d] = Tail(up[d])] /\ inbox' = inbox
      /\ pc[r] = "idle" /\ from' = [from EXCEPT ![r] = d]
      /\ pc' = [pc EXCEPT ![r] = "member"] /\ online' = online /\ active' = active
      /\ req' = [req EXCEPT ![r] = Request(e.kind, Owner[d], e.why, e.dial)]
  BY DEF Serve, Receive, Step
<1>2. /\ pc'[r] = "member" /\ from'[r] = d /\ req'[r].kind = e.kind /\ req'[r].dial = e.dial
      /\ req'[r].user = Owner[d]
      /\ \A s \in Req \ {r} : pc'[s] = pc[s] /\ from'[s] = from[s] /\ req'[s] = req[s]
  BY <1>1, <1>t DEF Request
<1>3. /\ up'[d] = Tail(up[d]) /\ \A x \in Device \ {d} : up'[x] = up[x]
      /\ up[d] \in Seq(Signal)
  BY <1>1, <1>t
<1>4. \A x, k : /\ ~Serves(r, x, k)
                /\ Serves(r, x, k)' <=> x = d /\ e.kind = k
                /\ \A s \in Req \ {r} : Serves(s, x, k)' <=> Serves(s, x, k)
  BY <1>1, <1>2 DEF Serves
<1>5. \A k : /\ e.kind = k => Has(up[d], k)
             /\ Has(up'[d], k) => Has(up[d], k)
             /\ e.kind # k => (Has(up'[d], k) <=> Has(up[d], k))
             /\ Once(up[d], k) => Once(up'[d], k)
             /\ Once(up[d], k) /\ e.kind = k => ~Has(up'[d], k)
             /\ First(up[d]) => First(up'[d]) /\ (e.kind = "offer" => e.dial = 1)
  BY <1>1, <1>3, QueueRead
<1>. HIDE DEF e
<1>6. ASSUME NEW k PROVE Comes(a, b, k)' <=> Comes(a, b, k)
  <2>1. CASE a # d
    BY <1>1, <1>3, <1>4, <2>1 DEF Comes
  <2>2. CASE a = d /\ e.kind = k
    BY <1>4, <1>5, <2>2 DEF Comes
  <2>3. CASE a = d /\ e.kind # k
    BY <1>1, <1>4, <1>5, <2>3 DEF Comes
  <2>. QED
    BY <2>1, <2>2, <2>3
<1>7. ASSUME OneOffer(a, b) PROVE OneOffer(a, b)'
  <2>1. CASE a # d
    BY <1>1, <1>3, <1>4, <1>7, <2>1 DEF OneOffer
  <2>2. CASE a = d /\ e.kind = "offer"
    <3>1. Has(up[a], "offer") /\ Once(up[a], "offer") /\ ~Has(up'[a], "offer")
          /\ Once(up'[a], "offer")
      BY <1>5, <1>7, <2>2 DEF OneOffer
    <3>2. ~Has(inbox[b], "offer") /\ \A s \in Req : ~Serves(s, a, "offer")
      BY <1>7, <3>1 DEF OneOffer
    <3>3. \A s \in Req : Serves(s, a, "offer")' => s = r
      BY <1>4, <3>2
    <3>. QED
      BY <1>1, <1>7, <3>1, <3>2, <3>3 DEF OneOffer
  <2>3. CASE a = d /\ e.kind # "offer"
    BY <1>1, <1>4, <1>5, <1>7, <2>3 DEF OneOffer
  <2>. QED
    BY <2>1, <2>2, <2>3
<1>8. ASSUME AllFirst PROVE AllFirst'
  BY <1>1, <1>2, <1>3, <1>5, <1>8 DEF AllFirst
<1>9. ASSUME Steady PROVE Steady'
  BY <1>1, <1>2, <1>9, OwnerIsUser DEF Steady
<1>. QED
  BY <1>6, <1>7, <1>8, <1>9

\* A handler goes on with what it works on.
LEMMA HandleMail ==
  ASSUME CallsInv, Steady, NEW r \in Req, HandleStep(r)
  PROVE  /\ \A a, b \in Device : /\ \A k : Comes(a, b, k)' <=> Comes(a, b, k)
                                 /\ OneOffer(a, b) => OneOffer(a, b)'
         /\ AllFirst => AllFirst'
         /\ Steady'
<1>t. pc \in [Req -> Steps] /\ req \in [Req -> ReqType]
  BY DEF CallsInv, RecordsInv, RecordsTypeOK
<1>1. UNCHANGED <<up, inbox, from, online>> /\ Handle(r)
  BY DEF HandleStep, clientVars
<1>2. /\ pc[r] # "idle" /\ pc'[r] # "idle" /\ req'[r].kind = req[r].kind
      /\ req'[r].dial = req[r].dial /\ req'[r].user = req[r].user
      /\ active' = active
      /\ \A s \in Req \ {r} : pc'[s] = pc[s] /\ req'[s] = req[s]
  <2>1. CASE CanSignal(r)
    BY <1>t, <2>1 DEF CanSignal, Step, Steady
  <2>2. CASE FindDirectCallee(r)
    BY <1>t, <2>2 DEF FindDirectCallee, Step, ReqType
  <2>3. CASE CreateRinging(r)
    BY <1>t, <2>3 DEF CreateRinging, Step
  <2>4. CASE FindLive(r)
    <3>0. req[r] \in ReqType
      BY <1>t
    <3>1. pc[r] = "find" /\ active' = active
      BY <2>4 DEF FindLive
    <3>2. \/ UNCHANGED req
          \/ \E c : req' = [req EXCEPT ![r].live = c]
          \/ \E c, v : req' = [req EXCEPT ![r].live = c, ![r].to = v]
      BY <2>4 DEF FindLive
    <3>3. /\ req'[r].kind = req[r].kind /\ req'[r].dial = req[r].dial
          /\ req'[r].user = req[r].user /\ \A s \in Req \ {r} : req'[s] = req[s]
      <4>1. ASSUME NEW c, req' = [req EXCEPT ![r].live = c]
             PROVE  /\ req'[r].kind = req[r].kind /\ req'[r].dial = req[r].dial
                    /\ req'[r].user = req[r].user /\ \A s \in Req \ {r} : req'[s] = req[s]
        BY <1>t, <3>0, <4>1 DEF ReqType
      <4>2. ASSUME NEW c, NEW v, req' = [req EXCEPT ![r].live = c, ![r].to = v]
             PROVE  /\ req'[r].kind = req[r].kind /\ req'[r].dial = req[r].dial
                    /\ req'[r].user = req[r].user /\ \A s \in Req \ {r} : req'[s] = req[s]
        <5>1. req' = [req EXCEPT ![r] = [req[r] EXCEPT !.live = c, !.to = v]]
          BY <4>2, <1>t
        <5>. QED
          BY <1>t, <3>0, <5>1 DEF ReqType
      <4>. QED
        BY <3>2, <4>1, <4>2
    <3>4. pc' = [pc EXCEPT ![r] = pc'[r]] /\ pc'[r] \in {"relay", "mark", "close"}
      BY <1>t, <2>4 DEF FindLive, Step
    <3>. QED
      BY <1>t, <3>1, <3>3, <3>4
  <2>5. CASE MarkAnswered(r) \/ MarkEnded(r) \/ PostEntry(r)
    BY <1>t, <2>5 DEF MarkAnswered, MarkEnded, PostEntry, Step
  <2>. QED
    BY <1>1, <2>1, <2>2, <2>3, <2>4, <2>5 DEF Handle
<1>3. \A s \in Req : \A x, k : Serves(s, x, k)' <=> Serves(s, x, k)
  BY <1>1, <1>2 DEF Serves
<1>4. ASSUME NEW a \in Device, NEW b \in Device
      PROVE  /\ \A k : Comes(a, b, k)' <=> Comes(a, b, k)
             /\ OneOffer(a, b) => OneOffer(a, b)'
  BY <1>1, <1>3 DEF Comes, OneOffer
<1>5. ASSUME AllFirst PROVE AllFirst'
  BY <1>1, <1>2, <1>5 DEF AllFirst
<1>6. Steady'
  BY <1>1, <1>2 DEF Steady
<1>. QED
  BY <1>4, <1>5, <1>6

\* The event goes out to the other browser.
LEMMA RelayMail ==
  ASSUME CallsInv, Steady, NEW a \in Device, NEW b \in Device, a # b, Device = {a, b},
         NEW r \in Req, RelayToRoom(r)
  PROVE  /\ \A k : Comes(a, b, k)' <=> Comes(a, b, k)
         /\ OneOffer(a, b) => OneOffer(a, b)'
         /\ AllFirst => AllFirst'
         /\ Steady'
<1> DEFINE e == Event(req[r].kind, req[r].why, req[r].dial)
<1>t. /\ pc \in [Req -> Steps] /\ req \in [Req -> ReqType]
      /\ inbox \in [Device -> Seq(Relayed)] /\ from \in [Req -> Device \cup {None}]
  BY DEF CallsInv, RecordsInv, RecordsTypeOK, CallsTypeOK
<1>1. /\ pc[r] = "relay" /\ from' = [from EXCEPT ![r] = None]
      /\ pc' = [pc EXCEPT ![r] = "idle"] /\ req' = [req EXCEPT ![r] = NoReq]
      /\ online' = online /\ active' = active /\ up' = up
  BY DEF RelayToRoom, Relay, Finish, Step
<1>2. Room = Device /\ from[r] \in Device
  BY <1>1, OwnerIsUser DEF Room, Steady
<1>3. \A x \in Device : inbox'[x] = IF x # from[r] THEN Append(inbox[x], e) ELSE inbox[x]
  BY <1>2 DEF RelayToRoom
<1>4. e.kind = req[r].kind /\ e.dial = req[r].dial
  BY DEF Event
<1>5. \A x, k : /\ Serves(r, x, k) <=> x = from[r] /\ e.kind = k
                /\ ~Serves(r, x, k)'
                /\ \A s \in Req \ {r} : Serves(s, x, k)' <=> Serves(s, x, k)
  BY <1>1, <1>4, <1>t DEF Serves
<1>6. ASSUME NEW x \in Device, NEW k
      PROVE  /\ Has(Append(inbox[x], e), k) <=> Has(inbox[x], k) \/ e.kind = k
             /\ Once(inbox[x], k) /\ (e.kind = k => ~Has(inbox[x], k))
                  => Once(Append(inbox[x], e), k)
             /\ First(inbox[x]) /\ (e.kind = "offer" => e.dial = 1)
                  => First(Append(inbox[x], e))
  <2>1. inbox[x] \in Seq(Relayed)
    BY <1>t
  <2>. HIDE DEF e
  <2>. QED
    BY <2>1, QueueGrows
<1>7. pc[r] # "idle" /\ pc'[r] = "idle"
      /\ \A s \in Req \ {r} : pc'[s] = pc[s] /\ req'[s] = req[s] /\ from'[s] = from[s]
  BY <1>1, <1>t
<1>. HIDE DEF e
<1>8. ASSUME NEW k PROVE Comes(a, b, k)' <=> Comes(a, b, k)
  <2>1. CASE from[r] = b
    BY <1>1, <1>3, <1>5, <2>1 DEF Comes
  <2>2. CASE from[r] = a /\ e.kind = k
    <3>1. Serves(r, a, k) /\ Has(inbox'[b], k)
      BY <1>3, <1>5, <1>6, <2>2
    <3>. QED
      BY <3>1 DEF Comes
  <2>3. CASE from[r] = a /\ e.kind # k
    BY <1>1, <1>3, <1>5, <1>6, <2>3 DEF Comes
  <2>. QED
    BY <1>2, <2>1, <2>2, <2>3
<1>9. ASSUME OneOffer(a, b) PROVE OneOffer(a, b)'
  <2>1. CASE from[r] = b
    BY <1>1, <1>3, <1>5, <1>9, <2>1 DEF OneOffer
  <2>2. CASE from[r] = a /\ e.kind = "offer"
    <3>1. Serves(r, a, "offer")
      BY <1>5, <2>2
    <3>2. ~Has(up[a], "offer") /\ ~Has(inbox[b], "offer") /\ Once(inbox[b], "offer")
          /\ Once(up[a], "offer") /\ \A s \in Req \ {r} : ~Serves(s, a, "offer")
      BY <1>9, <3>1 DEF OneOffer
    <3>3. Once(inbox'[b], "offer")
      BY <1>3, <1>6, <2>2, <3>2
    <3>4. \A s \in Req : ~Serves(s, a, "offer")'
      BY <1>5, <3>2
    <3>. QED
      BY <1>1, <3>2, <3>3, <3>4 DEF OneOffer
  <2>3. CASE from[r] = a /\ e.kind # "offer"
    BY <1>1, <1>3, <1>5, <1>6, <1>9, <2>3 DEF OneOffer
  <2>. QED
    BY <1>2, <2>1, <2>2, <2>3
<1>10. ASSUME AllFirst PROVE AllFirst'
  <2>1. e.kind = "offer" => e.dial = 1
    BY <1>4, <1>7, <1>10 DEF AllFirst
  <2>2. \A x \in Device : First(inbox'[x])
    BY <1>3, <1>6, <1>10, <2>1 DEF AllFirst
  <2>. QED
    BY <1>1, <1>7, <1>10, <2>2 DEF AllFirst
<1>11. Steady'
  BY <1>1, <1>7 DEF Steady
<1>. QED
  BY <1>8, <1>9, <1>10, <1>11

\* A browser sends an event.
LEMMA SendMail ==
  ASSUME CallsInv, NEW d \in Device, NEW e \in Device, d # e, NEW j, NEW why, NEW n,
         Send(d, j, why, n), UNCHANGED <<inbox, pc, req, from>>
  PROVE  /\ \A k : Comes(d, e, k)' <=> Comes(d, e, k) \/ j = k
         /\ \A k : Comes(e, d, k)' <=> Comes(e, d, k)
         /\ OneOffer(d, e) /\ (j = "offer" => ~Comes(d, e, "offer")) => OneOffer(d, e)'
         /\ OneOffer(e, d) => OneOffer(e, d)'
         /\ AllFirst /\ (j = "offer" => n = 1) => AllFirst'
<1> DEFINE s == Event(j, why, n)
<1>t. up \in [Device -> Seq(Signal)]
  BY DEF CallsInv, CallsTypeOK
<1>1. up'[d] = Append(up[d], s) /\ up[d] \in Seq(Signal)
      /\ \A x \in Device \ {d} : up'[x] = up[x]
  BY <1>t DEF Send
<1>2. s.kind = j /\ s.dial = n
  BY DEF Event
<1>. HIDE DEF s
<1>3. \A k : /\ Has(up'[d], k) <=> Has(up[d], k) \/ j = k
             /\ Once(up[d], k) /\ (j = k => ~Has(up[d], k)) => Once(up'[d], k)
             /\ First(up[d]) /\ (j = "offer" => n = 1) => First(up'[d])
  BY <1>1, <1>2, QueueGrows
<1>4. \A r \in Req : \A x, k : Serves(r, x, k)' <=> Serves(r, x, k)
  BY DEF Serves
<1>5. \A k : Comes(d, e, k)' <=> Comes(d, e, k) \/ j = k
  BY <1>3, <1>4 DEF Comes
<1>6. \A k : Comes(e, d, k)' <=> Comes(e, d, k)
  BY <1>1, <1>4 DEF Comes
<1>7. OneOffer(e, d) => OneOffer(e, d)'
  BY <1>1, <1>4 DEF OneOffer
<1>8. OneOffer(d, e) /\ (j = "offer" => ~Comes(d, e, "offer")) => OneOffer(d, e)'
  BY <1>3, <1>4 DEF OneOffer, Comes
<1>9. AllFirst /\ (j = "offer" => n = 1) => AllFirst'
  BY <1>1, <1>3 DEF AllFirst
<1>. QED
  BY <1>5, <1>6, <1>7, <1>8, <1>9

\* A browser reads an event.
LEMMA TakeMail ==
  ASSUME CallsInv, NEW d \in Device, NEW e \in Device, d # e, NEW j, Take(d, j), up' = up
  PROVE  /\ Comes(e, d, j)
         /\ \A k : Comes(e, d, k)' => Comes(e, d, k)
         /\ \A k : k # j => (Comes(e, d, k)' <=> Comes(e, d, k))
         /\ \A k : Comes(d, e, k)' <=> Comes(d, e, k)
         /\ OneOffer(e, d) => OneOffer(e, d)' /\ (j = "offer" => ~Comes(e, d, "offer")')
         /\ OneOffer(d, e) => OneOffer(d, e)'
         /\ AllFirst => AllFirst' /\ (j = "offer" => Head(inbox[d]).dial = 1)
<1>t. inbox \in [Device -> Seq(Relayed)]
  BY DEF CallsInv, CallsTypeOK
<1>1. /\ inbox[d] # <<>> /\ Head(inbox[d]).kind = j /\ inbox'[d] = Tail(inbox[d])
      /\ inbox[d] \in Seq(Relayed)
      /\ \A x \in Device \ {d} : inbox'[x] = inbox[x]
      /\ UNCHANGED <<pc, req, from>>
  BY <1>t DEF Take, Quiet, recordVars
<1>2. \A k : /\ Head(inbox[d]).kind = k => Has(inbox[d], k)
             /\ Has(inbox'[d], k) => Has(inbox[d], k)
             /\ j # k => (Has(inbox'[d], k) <=> Has(inbox[d], k))
             /\ Once(inbox[d], k) => Once(inbox'[d], k)
             /\ Once(inbox[d], k) /\ j = k => ~Has(inbox'[d], k)
             /\ First(inbox[d]) => First(inbox'[d]) /\ (j = "offer" => Head(inbox[d]).dial = 1)
  BY <1>1, QueueRead
<1>3. \A r \in Req : \A x, k : Serves(r, x, k)' <=> Serves(r, x, k)
  BY <1>1 DEF Serves
<1>4. Comes(e, d, j) /\ \A k : Comes(e, d, k)' => Comes(e, d, k)
  BY <1>1, <1>2, <1>3 DEF Comes
<1>5. \A k : k # j => (Comes(e, d, k)' <=> Comes(e, d, k))
  BY <1>2, <1>3 DEF Comes
<1>6. (\A k : Comes(d, e, k)' <=> Comes(d, e, k)) /\ (OneOffer(d, e) => OneOffer(d, e)')
  BY <1>1, <1>3 DEF Comes, OneOffer
<1>7. OneOffer(e, d) => OneOffer(e, d)' /\ (j = "offer" => ~Comes(e, d, "offer")')
  BY <1>1, <1>2, <1>3 DEF Comes, OneOffer
<1>8. AllFirst => AllFirst' /\ (j = "offer" => Head(inbox[d]).dial = 1)
  BY <1>1, <1>2 DEF AllFirst
<1>. QED
  BY <1>4, <1>5, <1>6, <1>7, <1>8

\* Nothing is sent or read.
LEMMA QuietMail ==
  ASSUME UNCHANGED <<up, inbox, pc, req, from>>, NEW a \in Device, NEW b \in Device
  PROVE  /\ \A k : Comes(a, b, k)' <=> Comes(a, b, k)
         /\ OneOffer(a, b) => OneOffer(a, b)'
         /\ AllFirst => AllFirst'
<1>1. \A r \in Req : \A x, k : Serves(r, x, k)' <=> Serves(r, x, k)
  BY DEF Serves
<1>. QED
  BY <1>1 DEF Comes, OneOffer, AllFirst

\* What teardown and a return leave of a browser.
LEMMA TornDown ==
  ASSUME CallsTypeOK, NEW d \in Device, NEW e \in Device, e # d
  PROVE  /\ Teardown(d)[d].phase = "idle" /\ ~Teardown(d)[d].chat /\ Teardown(d)[d].dial = 0
         /\ Teardown(d)[d].pc = "none" /\ Teardown(d)[d].task = cl[d].task
         /\ Return(d)[d].phase = "idle" /\ ~Return(d)[d].chat /\ Return(d)[d].dial = 0
         /\ Return(d)[d].pc = "none" /\ Return(d)[d].task.at = "none"
         /\ Teardown(d)[e] = cl[e] /\ Return(d)[e] = cl[e]
  BY DEF CallsTypeOK, Teardown, Return, Idle, NoTask

\* A step of a browser leaves the others as they are.
LEMMA OtherBrowsers ==
  ASSUME CallsTypeOK, NEW d \in Device, Browser(d), NEW e \in Device, e # d
  PROVE  cl'[e] = cl[e]
<1>1. cl \in [Device -> ClientType]
  BY DEF CallsTypeOK
<1>2. CASE StartCall(d) \/ DialIce(d) \/ DialMedia(d)
  BY <1>1, <1>2, TornDown DEF StartCall, DialIce, DialMedia
<1>3. CASE Accept(d) \/ AcceptIce(d) \/ AcceptMedia(d)
  BY <1>1, <1>3, TornDown DEF Accept, AcceptIce, AcceptMedia
<1>4. CASE Hangup(d) \/ Decline(d) \/ RingOut(d) \/ Connected(d) \/ Failed(d)
  BY <1>1, <1>4, TornDown DEF Hangup, Decline, RingOut, Connected, Failed, End
<1>5. CASE OnIncoming(d) \/ OnAnswered(d) \/ OnEnded(d)
  BY <1>1, <1>5, TornDown DEF OnIncoming, OnAnswered, OnEnded
<1>. QED
  BY <1>2, <1>3, <1>4, <1>5 DEF Browser

\* The sides of a call.
Pair(a, b) ==
  a \in Device /\ b \in Device /\ a # b /\ Device = {a, b} /\ Owner[a] # Owner[b]

\* The dialler does something.
LEMMA DiallerActs ==
  ASSUME CallsInv, NEW a \in Device, NEW b \in Device, Pair(a, b),
         Between(a, b), dials = 1, dials' <= 1, Browser(a)
  PROVE  Between(a, b)'
<1>t. CallsTypeOK /\ cl \in [Device -> ClientType]
  BY DEF CallsInv, CallsTypeOK
<1>c. cl[a] \in ClientType /\ cl[a].task \in TaskType
  BY <1>t, ClientFields
<1>p. a # b /\ Device = {a, b}
  BY DEF Pair
<1>b. cl'[b] = cl[b]
  BY <1>p, <1>t, OtherBrowsers
<1>i. UNCHANGED <<pc, req, from>>
  BY DEF Browser, StartCall, DialIce, DialMedia, Accept, AcceptIce, AcceptMedia, Hangup,
         Decline, RingOut, End, Connected, Failed, OnIncoming, OnAnswered, OnEnded, Take,
         Quiet, recordVars
<1>q. UNCHANGED <<up, inbox>> =>
        /\ \A k : Comes(a, b, k)' <=> Comes(a, b, k)
        /\ \A k : Comes(b, a, k)' <=> Comes(b, a, k)
        /\ OneOffer(a, b) => OneOffer(a, b)'
        /\ AllFirst => AllFirst'
  BY <1>i, QuietMail
<1>s. ASSUME NEW j, NEW why, NEW n, Send(a, j, why, n), inbox' = inbox
      PROVE  /\ \A k : Comes(a, b, k)' <=> Comes(a, b, k) \/ j = k
             /\ \A k : Comes(b, a, k)' <=> Comes(b, a, k)
             /\ OneOffer(a, b) /\ (j = "offer" => ~Comes(a, b, "offer")) => OneOffer(a, b)'
             /\ AllFirst /\ (j = "offer" => n = 1) => AllFirst'
  BY <1>i, <1>p, <1>s, SendMail
<1>1. CASE StartCall(a)
  BY <1>1 DEF StartCall
<1>2. CASE DialIce(a)
  <2>1. UNCHANGED <<up, inbox>> /\ cl[a].task.at = "dialIce"
    BY <1>2 DEF DialIce
  <2>2. /\ cl'[a].task.at \in {"none", "dialMedia"}
        /\ cl'[a].task.at # "none" => cl'[a].task.dial = cl[a].task.dial
        /\ cl'[a].pc \in {"none", "new"}
        /\ \/ cl'[a].phase = "idle" /\ ~cl'[a].chat /\ cl'[a].dial = 0
           \/ cl'[a].phase = cl[a].phase /\ cl'[a].chat = cl[a].chat /\ cl'[a].dial = cl[a].dial
    BY <1>2, <1>c, <1>t, <1>p, TornDown DEF DialIce, ClientType, TaskType
  <2>. QED
    BY <1>b, <1>q, <2>1, <2>2 DEF Between, InCall, Unheard, NotAlone
<1>3. CASE DialMedia(a) /\ up' # up
  <2>1. /\ Send(a, "offer", "none", cl[a].task.dial) /\ inbox' = inbox
        /\ cl[a].task.at = "dialMedia"
    BY <1>3 DEF DialMedia
  <2>2. /\ cl'[a].task.at = "none" /\ cl'[a].pc = "offered"
        /\ cl'[a].phase = cl[a].phase /\ cl'[a].chat = cl[a].chat /\ cl'[a].dial = cl[a].dial
    BY <1>3, <1>c, <1>t DEF DialMedia, ClientType, NoTask
  <2>3. cl[a].task.dial = 1
    BY <2>1 DEF Between
  <2>4. /\ \A k : Comes(a, b, k)' <=> Comes(a, b, k) \/ "offer" = k
        /\ \A k : Comes(b, a, k)' <=> Comes(b, a, k)
        /\ OneOffer(a, b)' /\ AllFirst'
    BY <1>s, <2>1, <2>3 DEF Between
  <2>. QED
    BY <1>b, <2>1, <2>2, <2>4 DEF Between, InCall, Unheard, NotAlone
<1>4. CASE DialMedia(a) /\ up' = up
  <2>0. up[a] # Append(up[a], Event("offer", "none", cl[a].task.dial))
    BY <1>t DEF CallsTypeOK
  <2>1. UNCHANGED <<up, inbox>> /\ cl[a].task.at = "dialMedia" /\ cl' = Return(a)
    BY <1>4, <1>t, <2>0 DEF DialMedia, Send, CallsTypeOK
  <2>2. /\ cl'[a].task.at = "none" /\ cl'[a].pc = "none"
        /\ cl'[a].phase = "idle" /\ ~cl'[a].chat /\ cl'[a].dial = 0
    BY <1>t, <1>p, <2>1, TornDown
  <2>. QED
    BY <1>b, <1>q, <2>1, <2>2 DEF Between, InCall, Unheard, NotAlone
<1>5. CASE Accept(a) \/ AcceptIce(a) \/ AcceptMedia(a)
  BY <1>5 DEF Accept, AcceptIce, AcceptMedia, Between
<1>6. CASE Hangup(a) \/ Decline(a) \/ RingOut(a) \/ Failed(a)
  <2>1. cl' = Teardown(a) /\ inbox' = inbox /\ \E why, n : Send(a, "end", why, n)
    BY <1>6 DEF Hangup, Decline, RingOut, Failed, End, Between, InCall, Ringing
  <2>2. /\ cl'[a].task = cl[a].task /\ cl'[a].pc = "none"
        /\ cl'[a].phase = "idle" /\ ~cl'[a].chat /\ cl'[a].dial = 0
    BY <1>t, <1>p, <2>1, TornDown
  <2>3. /\ \A k : Comes(a, b, k)' <=> Comes(a, b, k) \/ "end" = k
        /\ \A k : Comes(b, a, k)' <=> Comes(b, a, k)
        /\ OneOffer(a, b)' /\ AllFirst'
    BY <1>s, <2>1 DEF Between
  <2>. QED
    BY <1>b, <2>2, <2>3 DEF Between, InCall, Unheard, NotAlone
<1>7. CASE Connected(a)
  <2>1. /\ UNCHANGED <<up, inbox>> /\ cl[a].pc = "set"
        /\ \E e \in Device : Owner[e] # Owner[a] /\ cl[e].dial = cl[a].dial
    BY <1>7 DEF Connected
  <2>2. cl[b].dial = cl[a].dial
    BY <1>p, <2>1
  <2>3. cl[a].chat /\ cl[a].phase # "idle" /\ cl[a].dial = 1 /\ cl[b].phase # "idle"
    BY <2>1, <2>2 DEF Between, InCall
  <2>4. /\ cl'[a].task = cl[a].task /\ cl'[a].phase = "active"
        /\ cl'[a].chat = cl[a].chat /\ cl'[a].dial = cl[a].dial
    BY <1>7, <1>c, <1>t DEF Connected, ClientType
  <2>. QED
    BY <1>b, <1>q, <2>1, <2>3, <2>4 DEF Between, InCall, Unheard, NotAlone
<1>8. CASE OnIncoming(a)
  <2>1. Head(inbox[a]).kind = "offer" /\ inbox[a] # <<>>
    BY <1>8 DEF OnIncoming, Take
  <2>2. inbox[a] \in Seq(Relayed)
    BY <1>t DEF CallsTypeOK
  <2>3. Has(inbox[a], "offer")
    BY <2>1, <2>2, QueueRead
  <2>. QED
    BY <2>3 DEF Between, Comes
<1>9. CASE OnAnswered(a)
  <2>1. Take(a, "answer") /\ up' = up
    BY <1>9 DEF OnAnswered
  <2>2. /\ \A k : Comes(b, a, k)' => Comes(b, a, k)
        /\ \A k : k # "answer" => (Comes(b, a, k)' <=> Comes(b, a, k))
        /\ \A k : Comes(a, b, k)' <=> Comes(a, b, k)
        /\ OneOffer(a, b)' /\ AllFirst'
    BY <1>p, <2>1, TakeMail DEF Between
  <2>3. /\ cl'[a].task = cl[a].task /\ cl'[a].chat = cl[a].chat /\ cl'[a].dial = cl[a].dial
        /\ cl'[a].pc \in {"set", "up"} => cl[a].pc \in {"set", "up"} \/ cl[a].chat
        /\ \/ cl'[a].phase = cl[a].phase
           \/ cl[a].chat /\ cl'[a].phase = "connecting"
    BY <1>9, <1>c, <1>t DEF OnAnswered, ClientType
  <2>. QED
    BY <1>b, <2>2, <2>3 DEF Between, InCall, Unheard, NotAlone
<1>10. CASE OnEnded(a)
  <2>1. Take(a, "end") /\ up' = up /\ cl' = IF cl[a].chat THEN Teardown(a) ELSE cl
    BY <1>10 DEF OnEnded
  <2>2. /\ Comes(b, a, "end")
        /\ \A k : Comes(b, a, k)' => Comes(b, a, k)
        /\ \A k : Comes(a, b, k)' <=> Comes(a, b, k)
        /\ OneOffer(a, b)' /\ AllFirst'
    BY <1>p, <2>1, TakeMail DEF Between
  <2>3. /\ cl'[a].task = cl[a].task
        /\ \/ cl'[a] = cl[a] /\ ~cl[a].chat
           \/ cl'[a].phase = "idle" /\ ~cl'[a].chat /\ cl'[a].dial = 0 /\ cl'[a].pc = "none"
    BY <1>p, <1>t, <2>1, TornDown
  <2>. QED
    BY <1>b, <2>2, <2>3 DEF Between, InCall, Unheard, NotAlone
<1>. QED
  BY <1>1, <1>2, <1>3, <1>4, <1>5, <1>6, <1>7, <1>8, <1>9, <1>10 DEF Browser

\* The callee does something.
LEMMA CalleeActs ==
  ASSUME CallsInv, NEW a \in Device, NEW b \in Device, Pair(a, b),
         Between(a, b), dials = 1, dials' <= 1, Browser(b)
  PROVE  Between(a, b)'
<1>t. CallsTypeOK /\ cl \in [Device -> ClientType]
  BY DEF CallsInv, CallsTypeOK
<1>c. cl[b] \in ClientType /\ cl[b].task \in TaskType
  BY <1>t, ClientFields
<1>p. a # b /\ Device = {a, b}
  BY DEF Pair
<1>a. cl'[a] = cl[a]
  BY <1>p, <1>t, OtherBrowsers
<1>i. UNCHANGED <<pc, req, from>>
  BY DEF Browser, StartCall, DialIce, DialMedia, Accept, AcceptIce, AcceptMedia, Hangup,
         Decline, RingOut, End, Connected, Failed, OnIncoming, OnAnswered, OnEnded, Take,
         Quiet, recordVars
<1>q. UNCHANGED <<up, inbox>> =>
        /\ \A k : Comes(a, b, k)' <=> Comes(a, b, k)
        /\ \A k : Comes(b, a, k)' <=> Comes(b, a, k)
        /\ OneOffer(a, b) => OneOffer(a, b)'
        /\ AllFirst => AllFirst'
  BY <1>i, QuietMail
<1>s. ASSUME NEW j, NEW why, NEW n, Send(b, j, why, n), inbox' = inbox, j # "offer"
      PROVE  /\ \A k : Comes(b, a, k)' <=> Comes(b, a, k) \/ j = k
             /\ \A k : Comes(a, b, k)' <=> Comes(a, b, k)
             /\ OneOffer(a, b)' /\ AllFirst'
  BY <1>i, <1>p, <1>s, SendMail DEF Between
<1>1. CASE StartCall(b)
  BY <1>1 DEF StartCall
<1>2. CASE DialIce(b) \/ DialMedia(b)
  BY <1>2 DEF DialIce, DialMedia, Between
<1>3. CASE Accept(b)
  <2>1. UNCHANGED <<up, inbox>> /\ cl[b].phase = "incoming"
    BY <1>3 DEF Accept
  <2>2. /\ cl'[b].task.at = "acceptIce" /\ cl'[b].phase = "connecting"
        /\ cl'[b].chat = cl[b].chat /\ cl'[b].dial = cl[b].dial
    BY <1>3, <1>c, <1>t DEF Accept, ClientType
  <2>. QED
    BY <1>a, <1>q, <2>1, <2>2 DEF Between, InCall, Unheard, NotAlone
<1>4. ASSUME AcceptIce(b) \/ AcceptMedia(b), cl' = Return(b), NEW n, Send(b, "end", "FAILED", n)
      PROVE  Between(a, b)'
  <2>1. inbox' = inbox /\ cl[b].task.at # "none"
    BY <1>4 DEF AcceptIce, AcceptMedia
  <2>2. /\ cl'[b].task.at = "none" /\ cl'[b].pc = "none"
        /\ cl'[b].phase = "idle" /\ ~cl'[b].chat /\ cl'[b].dial = 0
    BY <1>t, <1>p, <1>4, TornDown
  <2>3. /\ \A k : Comes(b, a, k)' <=> Comes(b, a, k) \/ "end" = k
        /\ \A k : Comes(a, b, k)' <=> Comes(a, b, k)
        /\ OneOffer(a, b)' /\ AllFirst'
    BY <1>s, <1>4, <2>1
  <2>. QED
    BY <1>a, <2>1, <2>2, <2>3 DEF Between, InCall, Unheard, NotAlone
<1>5. CASE AcceptIce(b)
  <2>1. CASE cl' = [cl EXCEPT ![b].pc = "new", ![b].task.at = "acceptMedia"] /\ up' = up
    <3>1. inbox' = inbox /\ cl[b].task.at # "none"
      BY <1>5 DEF AcceptIce
    <3>2. /\ cl'[b].task.at = "acceptMedia" /\ cl'[b].phase = cl[b].phase
          /\ cl'[b].chat = cl[b].chat /\ cl'[b].dial = cl[b].dial
      BY <2>1, <1>c, <1>t DEF ClientType, TaskType
    <3>. QED
      BY <1>a, <1>q, <2>1, <3>1, <3>2 DEF Between, InCall, Unheard, NotAlone
  <2>. QED
    BY <1>4, <1>5, <2>1 DEF AcceptIce
<1>6. CASE AcceptMedia(b)
  <2>1. CASE /\ cl' = [cl EXCEPT ![b].pc = "set", ![b].mic = TRUE, ![b].task = NoTask]
             /\ Send(b, "answer", "none", cl[b].task.dial)
    <3>1. inbox' = inbox /\ cl[b].task.at # "none"
      BY <1>6 DEF AcceptMedia
    <3>2. /\ cl'[b].task.at = "none" /\ cl'[b].phase = cl[b].phase
          /\ cl'[b].chat = cl[b].chat /\ cl'[b].dial = cl[b].dial
      BY <2>1, <1>c, <1>t DEF ClientType, NoTask
    <3>3. /\ \A k : Comes(b, a, k)' <=> Comes(b, a, k) \/ "answer" = k
          /\ \A k : Comes(a, b, k)' <=> Comes(a, b, k)
          /\ OneOffer(a, b)' /\ AllFirst'
      BY <1>s, <2>1, <3>1
    <3>. QED
      BY <1>a, <3>1, <3>2, <3>3 DEF Between, InCall, Unheard, NotAlone
  <2>. QED
    BY <1>4, <1>6, <2>1 DEF AcceptMedia
<1>7. CASE Hangup(b) \/ Decline(b) \/ RingOut(b) \/ Failed(b)
  <2>1. /\ cl' = Teardown(b) /\ inbox' = inbox /\ \E why, n : Send(b, "end", why, n)
        /\ cl[b].phase # "idle" \/ cl[b].pc # "none"
    BY <1>7 DEF Hangup, Decline, RingOut, Failed, End, Between, InCall, Ringing
  <2>2. /\ cl'[b].task = cl[b].task /\ cl'[b].pc = "none"
        /\ cl'[b].phase = "idle" /\ ~cl'[b].chat /\ cl'[b].dial = 0
    BY <1>t, <1>p, <2>1, TornDown
  <2>3. /\ \A k : Comes(b, a, k)' <=> Comes(b, a, k) \/ "end" = k
        /\ \A k : Comes(a, b, k)' <=> Comes(a, b, k)
        /\ OneOffer(a, b)' /\ AllFirst'
    BY <1>s, <2>1
  <2>. QED
    BY <1>a, <2>1, <2>2, <2>3 DEF Between, InCall, Unheard, NotAlone
<1>8. CASE Connected(b)
  <2>1. /\ UNCHANGED <<up, inbox>> /\ cl[b].pc = "set"
        /\ \E e \in Device : /\ Owner[e] # Owner[b] /\ cl[e].pc \in {"set", "up"}
                             /\ cl[e].dial = cl[b].dial
    BY <1>8 DEF Connected
  <2>2. cl[a].pc \in {"set", "up"} /\ cl[b].dial = cl[a].dial
    BY <1>p, <2>1
  <2>3. cl[b].chat /\ cl[b].phase # "idle" /\ cl[b].dial = 1 /\ cl[a].phase # "idle"
    BY <2>2 DEF Between, InCall
  <2>4. /\ cl'[b].task = cl[b].task /\ cl'[b].phase = "active"
        /\ cl'[b].chat = cl[b].chat /\ cl'[b].dial = cl[b].dial
    BY <1>8, <1>c, <1>t DEF Connected, ClientType
  <2>. QED
    BY <1>a, <1>q, <2>1, <2>3, <2>4 DEF Between, InCall, Unheard, NotAlone
<1>9. CASE OnIncoming(b)
  <2>1. Head(inbox[b]).kind = "offer" /\ inbox[b] # <<>> /\ Take(b, "offer")
    BY <1>9 DEF OnIncoming, Take
  <2>2. inbox[b] \in Seq(Relayed)
    BY <1>t DEF CallsTypeOK
  <2>3. Comes(a, b, "offer")
    BY <2>1, <2>2, QueueRead DEF Comes
  <2>4. Unheard(a, b) /\ cl[a].task.at = "none"
    BY <2>3 DEF Between
  <2>5. up' = up /\ cl' = [cl EXCEPT ![b].phase = "incoming", ![b].chat = TRUE,
                                     ![b].dial = Head(inbox[b]).dial]
    BY <1>9, <2>4 DEF OnIncoming, Unheard
  <2>6. /\ \A k : Comes(a, b, k)' => Comes(a, b, k)
        /\ \A k : k # "offer" => (Comes(a, b, k)' <=> Comes(a, b, k))
        /\ \A k : Comes(b, a, k)' <=> Comes(b, a, k)
        /\ OneOffer(a, b)' /\ AllFirst' /\ ~Comes(a, b, "offer")'
        /\ Head(inbox[b]).dial = 1
    BY <1>p, <2>1, <2>5, TakeMail DEF Between
  <2>7. cl'[b].phase = "incoming" /\ cl'[b].chat /\ cl'[b].dial = 1 /\ cl'[b].task = cl[b].task
    BY <1>c, <1>t, <2>5, <2>6 DEF ClientType
  <2>. QED
    BY <1>a, <2>4, <2>6, <2>7 DEF Between, InCall, Unheard, NotAlone
<1>10. CASE OnAnswered(b)
  <2>1. Take(b, "answer") /\ up' = up
    BY <1>10 DEF OnAnswered
  <2>2. Comes(a, b, "answer")
    BY <1>p, <2>1, TakeMail
  <2>. QED
    BY <2>2 DEF Between
<1>11. CASE OnEnded(b)
  <2>1. Take(b, "end") /\ up' = up /\ cl' = IF cl[b].chat THEN Teardown(b) ELSE cl
    BY <1>11 DEF OnEnded
  <2>2. /\ Comes(a, b, "end")
        /\ \A k : Comes(a, b, k)' => Comes(a, b, k)
        /\ \A k : Comes(b, a, k)' <=> Comes(b, a, k)
        /\ OneOffer(a, b)' /\ AllFirst'
    BY <1>p, <2>1, TakeMail DEF Between
  <2>3. /\ cl'[b].task = cl[b].task
        /\ \/ cl'[b] = cl[b] /\ ~cl[b].chat
           \/ cl'[b].phase = "idle" /\ ~cl'[b].chat /\ cl'[b].dial = 0 /\ cl'[b].pc = "none"
    BY <1>p, <1>t, <2>1, TornDown
  <2>. QED
    BY <1>a, <2>2, <2>3 DEF Between, InCall, Unheard, NotAlone
<1>. QED
  BY <1>1, <1>2, <1>3, <1>5, <1>6, <1>7, <1>8, <1>9, <1>10, <1>11 DEF Browser

\* The first dialling makes the one that dials the dialler.
LEMMA FirstDial ==
  ASSUME CallsInv, NEW a \in Device, NEW b \in Device, Pair(a, b),
         NoCall, Browser(a), dials' <= 1
  PROVE  dials' = 1 /\ Between(a, b)'
<1>t. CallsTypeOK /\ cl \in [Device -> ClientType]
  BY DEF CallsInv, CallsTypeOK
<1>p. a # b /\ Device = {a, b}
  BY DEF Pair
<1>1. /\ cl[a] = Idle /\ cl[b] = Idle /\ up[a] = <<>> /\ up[b] = <<>>
      /\ inbox[a] = <<>> /\ inbox[b] = <<>> /\ \A r \in Req : pc[r] = "idle"
  BY DEF NoCall
<1>2. StartCall(a)
  <2>1. cl[a].phase = "idle" /\ cl[a].task.at = "none" /\ cl[a].pc = "none"
    BY <1>1 DEF Idle, NoTask
  <2>2. ~DialIce(a) /\ ~DialMedia(a) /\ ~Accept(a) /\ ~AcceptIce(a) /\ ~AcceptMedia(a)
    BY <2>1 DEF DialIce, DialMedia, Accept, AcceptIce, AcceptMedia
  <2>3. ~Hangup(a) /\ ~Decline(a) /\ ~RingOut(a) /\ ~Connected(a) /\ ~Failed(a)
    BY <2>1 DEF Hangup, Decline, RingOut, Connected, Failed, Ringing
  <2>4. ~OnIncoming(a) /\ ~OnAnswered(a) /\ ~OnEnded(a)
    BY <1>1 DEF OnIncoming, OnAnswered, OnEnded, Take
  <2>. QED
    BY <2>2, <2>3, <2>4 DEF Browser
<1>3. dials' = 1 /\ UNCHANGED <<up, inbox, pc, req, from>>
  BY <1>2 DEF StartCall, NoCall, Quiet, recordVars
<1>4. /\ cl'[a].phase = "outgoing" /\ cl'[a].chat /\ cl'[a].dial = 1
      /\ cl'[a].task.at = "dialIce" /\ cl'[a].task.dial = 1 /\ cl'[a].pc = "none"
      /\ cl'[b].phase = "idle" /\ ~cl'[b].chat /\ cl'[b].dial = 0 /\ cl'[b].pc = "none"
      /\ cl'[b].task.at = "none"
  <2>1. dials = 0
    BY DEF NoCall
  <2>2. cl' = [cl EXCEPT ![a].phase = "outgoing", ![a].chat = TRUE, ![a].dial = 1,
                         ![a].task = [at |-> "dialIce", dial |-> 1]]
    BY <1>2, <2>1 DEF StartCall
  <2>3. cl'[b] = Idle
    BY <1>1, <1>p, <1>t, <2>2
  <2>4. cl'[a] = [Idle EXCEPT !.phase = "outgoing", !.chat = TRUE, !.dial = 1,
                              !.task = [at |-> "dialIce", dial |-> 1]]
    BY <1>1, <1>t, <2>2
  <2>. QED
    BY <2>3, <2>4 DEF Idle, NoTask
<1>5. \A x \in Device : up'[x] = <<>> /\ inbox'[x] = <<>>
  BY <1>1, <1>3, <1>p
<1>6. \A r \in Req : pc'[r] = "idle"
  BY <1>1, <1>3
<1>7. \A x, y \in Device : \A k : ~Comes(x, y, k)'
  BY <1>5, <1>6, QueueEmpty DEF Comes, Serves
<1>8. OneOffer(a, b)' /\ AllFirst'
  BY <1>5, <1>6, QueueEmpty DEF OneOffer, Serves, AllFirst
<1>. QED
  BY <1>3, <1>4, <1>7, <1>8 DEF Between, InCall, Unheard, NotAlone

\* A step in which only events move.
LEMMA MailMoves ==
  ASSUME NEW a \in Device, NEW b \in Device, Between(a, b), cl' = cl,
         \A k : Comes(a, b, k)' <=> Comes(a, b, k),
         \A k : Comes(b, a, k)' <=> Comes(b, a, k),
         OneOffer(a, b) => OneOffer(a, b)', AllFirst => AllFirst'
  PROVE  Between(a, b)'
BY DEF Between, InCall, Unheard, NotAlone

\* One step, whoever has dialled.
LEMMA PairStep ==
  ASSUME CallsInv, NEW a \in Device, NEW b \in Device, Pair(a, b), PairInv(a, b), CallsNext
  PROVE  PairInv(a, b)'
<1>t. CallsTypeOK
  BY DEF CallsInv
<1>p. a # b /\ Device = {a, b} /\ Pair(b, a)
  BY DEF Pair
<1>m. mishaps' \in Nat /\ dials' \in Nat /\ mishaps \in Nat /\ dials \in Nat
  BY CallsNextKeeps DEF CallsInv, CallsTypeOK
<1>. SUFFICES ASSUME mishaps' = 0, dials' <= 1
              PROVE  /\ Steady'
                     /\ NoCall' \/ (dials' = 1 /\ (Between(a, b)' \/ Between(b, a)'))
  BY DEF PairInv
<1>1. ASSUME NEW d \in Device, Browser(d)
      PROVE  /\ Steady'
             /\ NoCall' \/ (dials' = 1 /\ (Between(a, b)' \/ Between(b, a)'))
  <2>1. /\ UNCHANGED <<recordVars, online, from, mishaps>>
        /\ dials' = dials \/ dials' = dials + 1
    BY <1>1 DEF Browser, StartCall, DialIce, DialMedia, Accept, AcceptIce, AcceptMedia, Hangup,
         Decline, RingOut, End, Connected, Failed, OnIncoming, OnAnswered, OnEnded, Take, Quiet
  <2>2. mishaps = 0 /\ dials <= 1
    BY <1>m, <2>1
  <2>3. Steady /\ Steady'
    BY <2>1, <2>2 DEF PairInv, Steady, recordVars
  <2>4. CASE NoCall
    <3>1. CASE d = a
      BY <1>1, <1>p, <2>3, <2>4, <3>1, FirstDial
    <3>2. CASE d = b
      BY <1>1, <1>p, <2>3, <2>4, <3>2, FirstDial
    <3>. QED
      BY <1>p, <3>1, <3>2
  <2>5. ASSUME dials = 1, NEW x \in Device, NEW y \in Device, Pair(x, y), Between(x, y)
        PROVE  dials' = 1 /\ Between(x, y)'
    <3>1. dials' = 1
      BY <2>1, <2>5
    <3>2. d = x \/ d = y
      BY <2>5 DEF Pair
    <3>. QED
      BY <1>1, <2>5, <3>1, <3>2, DiallerActs, CalleeActs
  <2>. QED
    BY <1>p, <2>2, <2>3, <2>4, <2>5 DEF PairInv
<1>2. ASSUME UNCHANGED <<cl, mishaps, dials>>, Steady => Steady', NoCall => NoCall',
             \A x, y \in Device : x # y => /\ \A k : Comes(x, y, k)' <=> Comes(x, y, k)
                                           /\ OneOffer(x, y) => OneOffer(x, y)',
             AllFirst => AllFirst'
      PROVE  /\ Steady'
             /\ NoCall' \/ (dials' = 1 /\ (Between(a, b)' \/ Between(b, a)'))
  <2>1. Steady /\ (NoCall \/ (dials = 1 /\ (Between(a, b) \/ Between(b, a))))
    BY <1>2 DEF PairInv
  <2>2. Between(a, b) => Between(a, b)'
    BY <1>2, <1>p, MailMoves
  <2>3. Between(b, a) => Between(b, a)'
    BY <1>2, <1>p, MailMoves
  <2>. QED
    BY <1>2, <2>1, <2>2, <2>3
<1>3. ASSUME NEW r \in Req, NEW d \in Device, Serve(r, d)
      PROVE  /\ Steady'
             /\ NoCall' \/ (dials' = 1 /\ (Between(a, b)' \/ Between(b, a)'))
  <2>1. UNCHANGED <<cl, mishaps, dials>> /\ ~NoCall
    BY <1>3 DEF Serve, NoCall
  <2>. QED
    BY <1>2, <1>3, <2>1, ServeMail
<1>4. ASSUME NEW r \in Req, HandleStep(r)
      PROVE  /\ Steady'
             /\ NoCall' \/ (dials' = 1 /\ (Between(a, b)' \/ Between(b, a)'))
  <2>1. UNCHANGED <<cl, mishaps, dials>> /\ ~NoCall
    BY <1>4 DEF HandleStep, clientVars, NoCall, Handle, CanSignal, FindDirectCallee,
                CreateRinging, FindLive, MarkAnswered, MarkEnded, PostEntry
  <2>2. Steady
    BY <2>1 DEF PairInv
  <2>. QED
    BY <1>2, <1>4, <2>1, <2>2, HandleMail
<1>5. ASSUME NEW r \in Req, RelayToRoom(r)
      PROVE  /\ Steady'
             /\ NoCall' \/ (dials' = 1 /\ (Between(a, b)' \/ Between(b, a)'))
  <2>1. UNCHANGED <<cl, mishaps, dials>> /\ ~NoCall
    BY <1>5 DEF RelayToRoom, Relay, NoCall
  <2>2. Steady
    BY <2>1 DEF PairInv
  <2>3. (AllFirst => AllFirst') /\ Steady'
    BY <1>5, <1>p, <2>2, RelayMail
  <2>4. ASSUME NEW x \in Device, NEW y \in Device, x # y
        PROVE  /\ \A k : Comes(x, y, k)' <=> Comes(x, y, k)
               /\ OneOffer(x, y) => OneOffer(x, y)'
    <3>1. (x = a /\ y = b) \/ (x = b /\ y = a)
      BY <1>p, <2>4
    <3>2. x # y /\ Device = {x, y}
      BY <1>p, <3>1
    <3>. QED
      BY <1>5, <2>2, <3>2, RelayMail
  <2>. QED
    BY <1>2, <2>1, <2>3, <2>4
<1>6. ASSUME NEW d \in Device, Gone(d) \/ Disconnect(d) PROVE FALSE
  BY <1>m, <1>6 DEF Gone, Disconnect, Mishap
<1>7. ASSUME Fault PROVE FALSE
  BY <1>m, <1>7 DEF Fault, Mishap
<1>8. ASSUME NEW d \in Device, Reconnect(d) PROVE FALSE
  <2>1. UNCHANGED <<mishaps, dials>> /\ d \notin online
    BY <1>8 DEF Reconnect
  <2>. QED
    BY <2>1 DEF PairInv, Steady
<1>. QED
  BY <1>1, <1>3, <1>4, <1>5, <1>6, <1>7, <1>8 DEF CallsNext

\* At rest no end is on its way, so that nobody is alone.
LEMMA PairTalks ==
  ASSUME CallsInv, NEW a \in Device, NEW b \in Device, Pair(a, b), PairInv(a, b), dials <= 1
  PROVE  NobodyTalksAlone
<1>. SUFFICES ASSUME Resting, mishaps = 0, NEW d \in Device, cl[d].phase = "active"
              PROVE  \E e \in Device : /\ Owner[e] # Owner[d] /\ cl[e].phase # "idle"
                                       /\ cl[e].dial = cl[d].dial
  BY DEF NobodyTalksAlone
<1>1. \A x, y \in Device : ~Comes(x, y, "end")
  BY QueueEmpty DEF Resting, Comes, Serves
<1>2. ~NoCall
  BY IdleType DEF NoCall
<1>3. ASSUME NEW x \in Device, NEW y \in Device, Pair(x, y), Between(x, y)
      PROVE  \E e \in Device : /\ Owner[e] # Owner[d] /\ cl[e].phase # "idle"
                               /\ cl[e].dial = cl[d].dial
  <2>1. CASE d = x
    BY <1>1, <1>3, <2>1 DEF Between, NotAlone, InCall, Pair
  <2>2. CASE d = y
    BY <1>1, <1>3, <2>2 DEF Between, NotAlone, InCall, Pair
  <2>. QED
    BY <1>3, <2>1, <2>2 DEF Pair
<1>. QED
  BY <1>2, <1>3 DEF PairInv, Pair

\* Between two browsers of two people, however many handlers relay their events and
\* overtake each other, a hang-up reaches the other side of the first call dialled: when
\* everything has come to rest, whoever is still connected has somebody to talk to
\* (call-context.tsx, signaling.ts).
THEOREM FirstCallIsShared ==
  ASSUME NEW a \in Device, NEW b \in Device, Device = {a, b}, Owner[a] # Owner[b]
  PROVE  CallsSpec => [](dials <= 1 => NobodyTalksAlone)
<1>p. Pair(a, b)
  BY DEF Pair
<1>1. CallsInit => PairInv(a, b)
  BY DEF CallsInit, RecordsInit, PairInv, Steady, NoCall
<1>2. CallsInv /\ PairInv(a, b) /\ [CallsNext]_vars => PairInv(a, b)'
  <2>1. ASSUME CallsInv, PairInv(a, b), CallsNext PROVE PairInv(a, b)'
    BY <1>p, <2>1, PairStep
  <2>2. ASSUME PairInv(a, b), UNCHANGED vars PROVE PairInv(a, b)'
    <3>1. UNCHANGED <<cl, up, inbox, online, from, dials, mishaps, pc, req, active>>
      BY <2>2 DEF vars, recordVars, clientVars
    <3>2. Steady' <=> Steady
      BY <3>1 DEF Steady
    <3>3. NoCall' <=> NoCall
      BY <3>1 DEF NoCall
    <3>4. Between(a, b) => Between(a, b)'
      BY <3>1, QuietMail, MailMoves
    <3>5. Between(b, a) => Between(b, a)'
      BY <3>1, QuietMail, MailMoves
    <3>. QED
      BY <2>2, <3>1, <3>2, <3>3, <3>4, <3>5 DEF PairInv
  <2>. QED
    BY <2>1, <2>2
<1>3. CallsInv /\ PairInv(a, b) => (dials <= 1 => NobodyTalksAlone)
  BY <1>p, PairTalks
<1>. QED
  BY <1>1, <1>2, <1>3, CallsInvariance, PTL DEF CallsSpec
=============================================================================
