----------------------------- MODULE CallRecords -----------------------------
(***************************************************************************)
(* The history of the calls in one direct chat: calls/signaling.ts,        *)
(* calls/service.ts and calls/repository.ts.                               *)
(*                                                                         *)
(* Each signalling event a socket sends is handled by a request that makes *)
(* several awaited database calls, one per step here, and then relays the  *)
(* event to the chat room.  No transaction holds them together, and no     *)
(* event names the call it is about: the server looks for the live row.    *)
(***************************************************************************)
EXTENDS Naturals

CONSTANTS User,     \* the people of the chat
          Req,      \* handlers running at the same time
          MaxCalls, \* bound: rows of the Call table
          None

ASSUME CallsAssumption ==
  /\ MaxCalls \in Nat
  /\ None \notin User

Call == 1..MaxCalls   \* in the order of startedAt

VARIABLES
  row,       \* the Call table
  posted,    \* calls with an entry in the conversation (Message.callId, unique)
  active,    \* participants whose leftAt is null
  pc,        \* next step of each handler
  req,       \* what each handler works on
  lostPost   \* history: calls whose entry a failed handler did not post

recordVars == <<row, posted, active, pc, req, lostPost>>

Live    == {"RINGING", "ANSWERED"}
Outcome == {"ANSWERED", "MISSED", "DECLINED", "FAILED"}
Reason  == {"HANGUP", "REJECTED", "BUSY", "FAILED", "TIMEOUT"}
Kind    == {"offer", "answer", "end"}
Steps   == {"idle", "member", "callee", "create", "find", "mark", "close",
            "post", "relay"}

NoRow == [status |-> "none", caller |-> None, callee |-> None,
          answered |-> FALSE, ended |-> FALSE]

Request(k, u, why, n) ==
  [kind |-> k, user |-> u, why |-> why, dial |-> n, peer |-> None, live |-> 0,
   to |-> "none"]

NoReq == Request("none", None, "none", 0)

RowType ==
  [status : Live \cup Outcome \cup {"none"}, caller : User \cup {None},
   callee : User \cup {None}, answered : BOOLEAN, ended : BOOLEAN]
ReqType ==
  [kind : Kind \cup {"none"}, user : User \cup {None}, why : Reason \cup {"none"},
   dial : Nat, peer : User \cup {None}, live : Call \cup {0},
   to : Outcome \cup {"none"}]

\* Types of the table, of the participants and of the handlers' locals
\* (schema/call/call.prisma, calls/signaling.ts).
RecordsTypeOK ==
  /\ row \in [Call -> RowType]
  /\ posted \in SUBSET Call
  /\ active \in SUBSET User
  /\ pc \in [Req -> Steps]
  /\ req \in [Req -> ReqType]
  /\ lostPost \in SUBSET Call
  /\ \A r \in Req : pc[r] \in {"mark", "close", "post"} =>
       req[r].live \in Call /\ row[req[r].live].status # "none"
  /\ \A r \in Req : pc[r] = "close" => req[r].to \in Outcome
  /\ \A r \in Req : pc[r] # "idle" => req[r].kind # "none"
  /\ \A c \in Call : row[c].ended => row[c].status \in Outcome

RecordsInit ==
  /\ row = [c \in Call |-> NoRow]
  /\ posted = {}
  /\ active = User
  /\ pc = [r \in Req |-> "idle"]
  /\ req = [r \in Req |-> NoReq]
  /\ lostPost = {}

Step(r, p) == pc' = [pc EXCEPT ![r] = p]

Finish(r) ==
  /\ Step(r, "idle")
  /\ req' = [req EXCEPT ![r] = NoReq]

(***************************************************************************)
(* An event arrives; canSignal reads the sender's membership.              *)
(***************************************************************************)
Receive(r, k, u, why, n) ==
  /\ pc[r] = "idle"
  /\ Step(r, "member")
  /\ req' = [req EXCEPT ![r] = Request(k, u, why, n)]
  /\ UNCHANGED <<row, posted, active, lostPost>>

CanSignal(r) ==
  /\ pc[r] = "member"
  /\ \/ /\ req[r].user \in active
        /\ Step(r, IF req[r].kind = "offer" THEN "callee" ELSE "find")
        /\ UNCHANGED req
     \/ /\ req[r].user \notin active
        /\ Finish(r)
  /\ UNCHANGED <<row, posted, active, lostPost>>

(***************************************************************************)
(* recordOffer: find the other participant, open a RINGING row.            *)
(***************************************************************************)
FindDirectCallee(r) ==
  /\ pc[r] = "callee"
  /\ \/ \E u \in User :
          /\ active \ {req[r].user} = {u}
          /\ Step(r, "create")
          /\ req' = [req EXCEPT ![r].peer = u]
     \/ /\ \A u \in User : active \ {req[r].user} # {u}
        /\ Step(r, "relay")
        /\ UNCHANGED req
  /\ UNCHANGED <<row, posted, active, lostPost>>

CreateRinging(r) ==
  /\ pc[r] = "create"
  /\ \E c \in Call :
       /\ row[c].status = "none"
       /\ \A b \in Call : b < c => row[b].status # "none"
       /\ row' = [row EXCEPT ![c] =
                    [NoRow EXCEPT !.status = "RINGING", !.caller = req[r].user,
                                  !.callee = req[r].peer]]
  /\ Step(r, "relay")
  /\ UNCHANGED <<posted, active, req, lostPost>>

(***************************************************************************)
(* findLive, then recordAnswer or recordEnd on the row that was found.     *)
(***************************************************************************)
IsLive(c) == row[c].status \in Live /\ ~row[c].ended

\* The live row the query returns: the newest one.
Found(c) == IsLive(c) /\ \A b \in Call : IsLive(b) => b <= c

\* The outcome is decided from the row as it was read.
Verdict(c, u, why) ==
  CASE row[c].status = "ANSWERED"  -> "ANSWERED"
    [] why = "FAILED"  /\ row[c].status # "ANSWERED" -> "FAILED"
    [] why = "TIMEOUT" /\ row[c].status # "ANSWERED" -> "MISSED"
    [] OTHER -> IF u = row[c].callee THEN "DECLINED" ELSE "MISSED"

FindLive(r) ==
  /\ pc[r] = "find"
  /\ \/ /\ \A c \in Call : ~IsLive(c)
        /\ Step(r, "relay")
        /\ UNCHANGED req
     \/ /\ req[r].kind = "answer"
        /\ \E c \in Call : Found(c) /\ req' = [req EXCEPT ![r].live = c]
        /\ Step(r, "mark")
     \/ /\ req[r].kind = "end"
        /\ \E c \in Call :
             /\ Found(c)
             /\ req' = [req EXCEPT ![r].live = c,
                                   ![r].to = Verdict(c, req[r].user, req[r].why)]
        /\ Step(r, "close")
  /\ UNCHANGED <<row, posted, active, lostPost>>

MarkAnswered(r) ==
  /\ pc[r] = "mark"
  /\ row' = IF row[req[r].live].status = "RINGING"
              THEN [row EXCEPT ![req[r].live].status = "ANSWERED",
                               ![req[r].live].answered = TRUE]
              ELSE row
  /\ Step(r, "relay")
  /\ UNCHANGED <<posted, active, req, lostPost>>

\* Mutant of MarkEnded: only a call that was answered gets an entry.
MarkEnded_PostAnswered(r) ==
  /\ pc[r] = "close"
  /\ LET c == req[r].live IN
       row' = IF row[c].ended THEN row
              ELSE [row EXCEPT ![c].status = req[r].to, ![c].ended = TRUE]
  /\ Step(r, IF req[r].to = "ANSWERED" THEN "post" ELSE "relay")
  /\ UNCHANGED <<posted, active, req, lostPost>>

MarkEnded(r) ==
  /\ pc[r] = "close"
  /\ LET c == req[r].live IN
       row' = IF row[c].ended THEN row
              ELSE [row EXCEPT ![c].status = req[r].to, ![c].ended = TRUE]
  /\ Step(r, "post")
  /\ UNCHANGED <<posted, active, req, lostPost>>

\* createCallMessage: a second entry for the call hits the unique callId.
PostEntry(r) ==
  /\ pc[r] = "post"
  /\ posted' = posted \cup {req[r].live}
  /\ Step(r, "relay")
  /\ UNCHANGED <<row, active, req, lostPost>>

\* The event goes out to the room, whatever became of the record.
Relay(r) ==
  /\ pc[r] = "relay"
  /\ Finish(r)
  /\ UNCHANGED <<row, posted, active, lostPost>>

(***************************************************************************)
(* A database call rejects: canSignal fails closed, the record* functions  *)
(* log the error and the event is relayed all the same.  Or the server dies.*)
(***************************************************************************)
Lost(r) == IF pc[r] = "post" THEN {req[r].live} ELSE {}

CallFails(r) ==
  /\ pc[r] \notin {"idle", "relay"}
  /\ IF pc[r] = "member" THEN Finish(r) ELSE Step(r, "relay") /\ UNCHANGED req
  /\ lostPost' = lostPost \cup Lost(r)
  /\ UNCHANGED <<row, posted, active>>

Crash(r) ==
  /\ pc[r] # "idle"
  /\ Finish(r)
  /\ lostPost' = lostPost \cup Lost(r)
  /\ UNCHANGED <<row, posted, active>>

\* Membership of the chat changes (chats/service.ts leaveChat, createDirectChat).
Leave(u) ==
  /\ u \in active
  /\ active' = active \ {u}
  /\ UNCHANGED <<row, posted, pc, req, lostPost>>

Rejoin(u) ==
  /\ u \notin active
  /\ active' = active \cup {u}
  /\ UNCHANGED <<row, posted, pc, req, lostPost>>

Handle(r) ==
  \/ CanSignal(r) \/ FindDirectCallee(r) \/ CreateRinging(r) \/ FindLive(r)
  \/ MarkAnswered(r) \/ MarkEnded(r) \/ PostEntry(r)

\* Any participant's browser may send any event at any time.
AnyEvent(r) ==
  \E u \in User :
    \/ Receive(r, "offer", u, "none", 0)
    \/ Receive(r, "answer", u, "none", 0)
    \/ \E why \in Reason : Receive(r, "end", u, why, 0)

RecordsNext ==
  \/ \E r \in Req : AnyEvent(r) \/ Handle(r) \/ Relay(r) \/ CallFails(r) \/ Crash(r)
  \/ \E u \in User : Leave(u) \/ Rejoin(u)

RecordsSpec == RecordsInit /\ [][RecordsNext]_recordVars

(***************************************************************************)
(* Properties.                                                             *)
(***************************************************************************)
\* Once a call has ended, no late answer, second hang-up or retry changes its
\* outcome (the conditions of markAnswered and markEnded).
OutcomeIsFinal == [][\A c \in Call : row[c].ended => row'[c] = row[c]]_recordVars

\* Every call that ended is in the conversation, or about to be, unless the
\* handler that had to post it failed - also when both sides hang up at once
\* (recordEnd posts even if markEnded changed nothing).
EndedIsPosted ==
  \A c \in Call : row[c].ended =>
    \/ c \in posted \cup lostPost
    \/ \E r \in Req : pc[r] = "post" /\ req[r].live = c

\* The conversation shows no call that still rings or is still going on, nor is
\* a handler about to post one (recordEnd closes the row first).
PostedHasEnded ==
  /\ \A c \in posted : row[c].ended
  /\ \A r \in Req : pc[r] = "post" => row[req[r].live].ended
=============================================================================
