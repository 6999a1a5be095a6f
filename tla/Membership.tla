------------------------------ MODULE Membership ------------------------------
(***************************************************************************)
(* Who is in a chat and whose sockets are in its room: chats/service.ts,   *)
(* chats/repository.ts, and the joins and sweeps of websocket/connection.ts*)
(* and websocket/emitter.ts.                                               *)
(*                                                                         *)
(* The table of participants decides who may receive a chat's events, the  *)
(* room of sockets who does.  A handler changes one and then, some awaits  *)
(* later, the other; a socket reads the table and then joins.  So the two  *)
(* agree when all of it is done, if nothing overlapped and nothing failed. *)
(***************************************************************************)
EXTENDS Naturals, FiniteSets

CONSTANTS User,
          Creator,   \* who created the group
          Pair,      \* whose direct chat it is, if it is one
          Socket,
          Owner,     \* whose connection a socket is
          Job,       \* handlers running at the same time
          MaxSeats,  \* chatsConfig.group.maxParticipants
          Nobody,
          Mishaps    \* bound: failures

ASSUME MembershipAssumption ==
  /\ Creator \in User /\ Pair \subseteq User /\ Nobody \notin User
  /\ Owner \in [Socket -> User]
  /\ IsFiniteSet(User) /\ IsFiniteSet(Job) /\ Job # {}
  /\ MaxSeats \in Nat \ {0} /\ Mishaps \in Nat

VARIABLES
  kind,    \* Chat.type
  alive,   \* the chat exists
  seat,    \* ChatParticipant: role, and whether leftAt is null
  link,    \* each socket: "off", asked to join, allowed to, or at rest ("on")
  inRoom,  \* sockets in the chat's room
  opened,  \* sockets whose page shows the chat
  step,    \* next step of each handler
  job,     \* what each handler is asked
  found,   \* the sockets a handler has found, the roster it will tell
  torn,    \* history: sockets whose joins and sweeps overlapped, or failed
  deaf,    \* history: pages whose socket was not in the room all the time
  broken   \* failures so far

membershipVars ==
  <<kind, alive, seat, link, inRoom, opened, step, job, found, torn, deaf, broken>>

Op    == {"open", "add", "remove", "leave", "update", "delete"}
Step  == {"idle", "count", "write", "reread", "tell", "fetch", "move"}
Links == {"off", "ask", "yes", "on"}
Away  == [role |-> "NONE", here |-> FALSE]

Idle  == [op |-> "none", whom |-> Nobody]
Empty == [socks |-> {}, roster |-> {}]

\* Types of the tables, the room and the handlers' locals.
MembershipTypeOK ==
  /\ kind \in {"GROUP", "DIRECT"} /\ alive \in BOOLEAN
  /\ seat \in [User -> [role : {"NONE", "MEMBER", "ADMIN"}, here : BOOLEAN]]
  /\ link \in [Socket -> Links]
  /\ inRoom \in SUBSET {k \in Socket : link[k] # "off"}
  /\ opened \in SUBSET Socket
  /\ step \in [Job -> Step]
  /\ job \in [Job -> [op : Op \cup {"none"}, whom : User \cup {Nobody}]]
  /\ found \in [Job -> [socks : SUBSET Socket, roster : SUBSET User]]
  /\ torn \in SUBSET Socket /\ deaf \in SUBSET Socket
  /\ broken \in 0..Mishaps
  /\ \A j \in Job : step[j] # "idle" => job[j].op \in Op /\ job[j].whom \in User

Active(u) == seat[u].here
Admin(u)  == Active(u) /\ seat[u].role = "ADMIN"
Members   == {u \in User : Active(u)}

\* createGroup: the creator is its first admin.
CreateGroup(people) ==
  [u \in User |-> IF u \notin people THEN Away
                  ELSE [role |-> IF u = Creator THEN "ADMIN" ELSE "MEMBER", here |-> TRUE]]

\* openDirectChat creates the chat, or brings back whoever has left it.
OpenDirectChat(pair) ==
  [u \in User |-> IF u \in pair THEN [role |-> "MEMBER", here |-> TRUE] ELSE seat[u]]

\* A group - those of its people who are looked at - or the direct chat of Pair, which may
\* not have been opened yet; nobody is connected.
MembershipInit(k, people) ==
  /\ kind = k /\ alive = TRUE
  /\ seat = IF k = "GROUP" THEN CreateGroup(people)
            ELSE [u \in User |-> [Away EXCEPT !.role = IF u \in people THEN "MEMBER" ELSE @,
                                              !.here = u \in people]]
  /\ link = [s \in Socket |-> "off"]
  /\ inRoom = {} /\ opened = {}
  /\ step = [j \in Job |-> "idle"] /\ job = [j \in Job |-> Idle]
  /\ found = [j \in Job |-> Empty]
  /\ torn = {} /\ deaf = {} /\ broken = 0

(***************************************************************************)
(* Who a handler puts into the chat or out of it, and is not yet done with.*)
(***************************************************************************)
Of(j) == CASE job[j].op = "open" -> Pair
           [] job[j].op = "delete" -> User
           [] OTHER -> {job[j].whom}

Coming(j) == job[j].op \in {"open", "add"} /\ step[j] \in {"fetch", "move"}
Going(j)  == \/ job[j].op \in {"remove", "leave"} /\ step[j] \in {"reread", "tell", "fetch", "move"}
             \/ job[j].op = "delete" /\ step[j] = "tell"

IsComing(u) == \E j \in Job : Coming(j) /\ u \in Of(j)
IsGoing(u)  == \E j \in Job : Going(j) /\ u \in Of(j)

\* History: the sockets that may end up on the wrong side when people come or go.
TornByComing(us) == {k \in Socket : Owner[k] \in us /\ IsGoing(Owner[k])}
TornByGoing(us)  == {k \in Socket : Owner[k] \in us /\ (link[k] = "yes" \/ IsComing(Owner[k]))}

sockets == <<link, inRoom>>
pages   == <<opened, deaf>>
table   == <<kind, alive, seat>>
local   == <<step, job, found>>

\* A handler goes on, or ends; or goes on with what it has read.
Goto(j, s) ==
  /\ step' = [step EXCEPT ![j] = s]
  /\ job' = IF s = "idle" THEN [job EXCEPT ![j] = Idle] ELSE job
  /\ found' = IF s = "idle" THEN [found EXCEPT ![j] = Empty] ELSE found

With(j, s, f) ==
  /\ step' = [step EXCEPT ![j] = s]
  /\ found' = [found EXCEPT ![j] = f]
  /\ UNCHANGED job

(***************************************************************************)
(* The handlers.  Each checks, writes, and then tells the room the roster  *)
(* and moves the sockets - in this order for who goes, so that they hear of*)
(* it, and in the other for who comes.                                     *)
(***************************************************************************)
\* requireActiveParticipant, requireGroupAdmin
May(o, b, u) ==
  CASE o = "open" -> TRUE
    [] o \in {"add", "update"} -> Admin(b)
    [] o = "remove" -> IF b = u THEN Active(b) ELSE Admin(b)
    [] o = "leave" -> Active(b)
    [] o = "delete" -> Active(b) /\ (Admin(b) \/ b = Creator)

\* Someone asks, and may; what is refused changes nothing.
Ask(j, o, b, u) ==
  /\ step[j] = "idle" /\ May(o, b, u)
  /\ step' = [step EXCEPT ![j] = IF o = "add" THEN "count" ELSE "write"]
  /\ job' = [job EXCEPT ![j] = [op |-> o, whom |-> u]]
  /\ UNCHANGED <<table, sockets, pages, found, torn, broken>>

CreateDirectChat(j, b, u)  == kind = "DIRECT" /\ {b, u} = Pair /\ Ask(j, "open", b, u)
AddParticipant(j, b, u)    == kind = "GROUP" /\ Ask(j, "add", b, u)
RemoveParticipant(j, b, u) == kind = "GROUP" /\ Ask(j, "remove", b, u)
UpdateChat(j, b)           == kind = "GROUP" /\ Ask(j, "update", b, b)
DeleteChat(j, b)           == kind = "GROUP" /\ Ask(j, "delete", b, b)
LeaveChat(j, b)            == Ask(j, "leave", b, b)

\* The pages.  The dialog of a group goes by the roster its page has, which may be an old
\* one; it leaves by removing oneself.  No page deletes a chat for everybody.
GroupInfoModal(j, b, u) ==
  AddParticipant(j, b, u) \/ RemoveParticipant(j, b, u) \/ (u = b /\ UpdateChat(j, b))

ChatItem(j, b)       == LeaveChat(j, b)
FriendsPage(j, b, u) == CreateDirectChat(j, b, u)

CountMembers(j) ==
  /\ step[j] = "count"
  /\ Goto(j, IF Cardinality(Members) < MaxSeats THEN "write" ELSE "idle")
  /\ UNCHANGED <<table, sockets, pages, torn, broken>>

\* addOrRestoreParticipant: whoever is added is a member, admins too.
WriteAdd(j) ==
  /\ step[j] = "write" /\ job[j].op = "add"
  /\ \/ /\ alive
        /\ seat' = [seat EXCEPT ![job[j].whom] = [role |-> "MEMBER", here |-> TRUE]]
        /\ torn' = torn \cup TornByComing({job[j].whom})
        /\ Goto(j, "fetch")
     \/ ~alive /\ Goto(j, "idle") /\ UNCHANGED <<seat, torn>>
  /\ UNCHANGED <<kind, alive, sockets, pages, broken>>

WriteOpen(j) ==
  /\ step[j] = "write" /\ job[j].op = "open"
  /\ seat' = OpenDirectChat(Pair)
  /\ torn' = torn \cup TornByComing(Pair)
  /\ Goto(j, "fetch")
  /\ UNCHANGED <<kind, alive, sockets, pages, broken>>

\* Mutant of WriteLeft: the sockets are removed first, and nobody hears of it.
WriteLeft_SweepFirst(j) ==
  /\ step[j] = "write" /\ job[j].op \in {"remove", "leave"}
  /\ \/ /\ seat[job[j].whom].role # "NONE"
        /\ seat' = [seat EXCEPT ![job[j].whom].here = FALSE]
        /\ torn' = torn \cup TornByGoing({job[j].whom})
        /\ Goto(j, "fetch")
     \/ seat[job[j].whom].role = "NONE" /\ Goto(j, "idle") /\ UNCHANGED <<seat, torn>>
  /\ UNCHANGED <<kind, alive, sockets, pages, broken>>

\* markParticipantLeft; there may be no such row.
WriteLeft(j) ==
  /\ step[j] = "write" /\ job[j].op \in {"remove", "leave"}
  /\ \/ /\ seat[job[j].whom].role # "NONE"
        /\ seat' = [seat EXCEPT ![job[j].whom].here = FALSE]
        /\ torn' = torn \cup TornByGoing({job[j].whom})
        /\ Goto(j, IF kind = "GROUP" THEN "reread" ELSE "fetch")
     \/ seat[job[j].whom].role = "NONE" /\ Goto(j, "idle") /\ UNCHANGED <<seat, torn>>
  /\ UNCHANGED <<kind, alive, sockets, pages, broken>>

\* updateGroup returns the roster with the row; what it changes is not modelled.
WriteUpdate(j) ==
  /\ step[j] = "write" /\ job[j].op = "update"
  /\ \/ alive /\ With(j, "tell", [Empty EXCEPT !.roster = Members])
     \/ ~alive /\ Goto(j, "idle")
  /\ UNCHANGED <<table, sockets, pages, torn, broken>>

\* The participants go with the chat; who is just being removed may be swept before
\* that is told, and then hears nothing.
WriteDelete(j) ==
  /\ step[j] = "write" /\ job[j].op = "delete"
  /\ \/ /\ alive
        /\ alive' = FALSE
        /\ seat' = [u \in User |-> Away]
        /\ torn' = torn \cup TornByGoing(User) \cup TornByComing(User)
        /\ Goto(j, "tell")
     \/ ~alive /\ Goto(j, "idle") /\ UNCHANGED <<alive, seat, torn>>
  /\ UNCHANGED <<kind, sockets, pages, broken>>

AfterTell(j) == IF job[j].op \in {"remove", "leave"} THEN "fetch" ELSE "idle"

\* broadcastChatState reads the roster, if there still is a chat.
Reread(j) ==
  /\ step[j] = "reread"
  /\ \/ alive /\ With(j, "tell", [Empty EXCEPT !.roster = Members])
     \/ ~alive /\ Goto(j, AfterTell(j))
  /\ UNCHANGED <<table, sockets, pages, torn, broken>>

\* chat:updated closes the page of whoever is not in the roster.  The room of a chat
\* that was deleted is emptied.
Tell(j) ==
  /\ step[j] = "tell"
  /\ LET closed == {k \in inRoom : Owner[k] \notin found[j].roster} IN
       opened' = opened \ closed /\ deaf' = deaf \ closed
  /\ inRoom' = IF job[j].op = "delete" THEN {} ELSE inRoom
  /\ Goto(j, AfterTell(j))
  /\ UNCHANGED <<table, link, torn, broken>>

\* fetchSockets asks all servers, and then each socket is moved.
Fetch(j) ==
  /\ step[j] = "fetch"
  /\ LET socks == {k \in Socket : link[k] # "off" /\ Owner[k] \in Of(j)} IN
       With(j, "move", [Empty EXCEPT !.socks = socks])
  /\ UNCHANGED <<table, sockets, pages, torn, broken>>

Move(j) ==
  /\ step[j] = "move"
  /\ inRoom' = IF job[j].op \in {"open", "add"} THEN inRoom \cup found[j].socks
                                              ELSE inRoom \ found[j].socks
  /\ Goto(j, IF job[j].op = "add" THEN "reread" ELSE "idle")
  /\ UNCHANGED <<table, link, pages, torn, broken>>

\* A call rejects, or the server dies.
Fail(j) ==
  /\ step[j] # "idle" /\ broken < Mishaps
  /\ broken' = broken + 1
  /\ torn' = IF Coming(j) \/ Going(j) THEN torn \cup {k \in Socket : Owner[k] \in Of(j)} ELSE torn
  /\ Goto(j, "idle")
  /\ UNCHANGED <<table, sockets, pages>>

(***************************************************************************)
(* The sockets.  A connection, and then chat:join, reads whether its user  *)
(* is a participant, and then joins.                                       *)
(***************************************************************************)
Connect(k) ==
  /\ link[k] = "off"
  /\ link' = [link EXCEPT ![k] = "ask"]
  /\ torn' = IF IF Active(Owner[k]) THEN IsGoing(Owner[k]) ELSE IsComing(Owner[k])
               THEN torn \cup {k} ELSE torn \ {k}
  /\ UNCHANGED <<table, inRoom, pages, step, job, found, broken>>

JoinChat(k) ==
  /\ link[k] = "on"
  /\ link' = [link EXCEPT ![k] = "ask"]
  /\ UNCHANGED <<table, inRoom, pages, step, job, found, torn, broken>>

IsParticipant(k) ==
  /\ link[k] = "ask"
  /\ link' = [link EXCEPT ![k] = IF Active(Owner[k]) THEN "yes" ELSE "on"]
  /\ UNCHANGED <<table, inRoom, pages, step, job, found, torn, broken>>

\* The query rejects: the socket does not join.
NotAllowed(k) ==
  /\ link[k] = "ask" /\ broken < Mishaps
  /\ broken' = broken + 1
  /\ link' = [link EXCEPT ![k] = "on"]
  /\ torn' = torn \cup {k}
  /\ UNCHANGED <<table, inRoom, pages, step, job, found>>

\* Mutant of Join: the room is joined before the table was asked.
Join_Unasked(k) ==
  /\ link[k] \in {"ask", "yes"}
  /\ link' = [link EXCEPT ![k] = "on"]
  /\ inRoom' = inRoom \cup {k}
  /\ UNCHANGED <<table, pages, step, job, found, torn, broken>>

Join(k) ==
  /\ link[k] = "yes"
  /\ link' = [link EXCEPT ![k] = "on"]
  /\ inRoom' = inRoom \cup {k}
  /\ UNCHANGED <<table, pages, step, job, found, torn, broken>>

Disconnect(k) ==
  /\ link[k] # "off"
  /\ link' = [link EXCEPT ![k] = "off"]
  /\ inRoom' = inRoom \ {k}
  /\ found' = [j \in Job |-> [found[j] EXCEPT !.socks = @ \ {k}]]
  /\ deaf' = deaf \cup (opened \cap {k})
  /\ UNCHANGED <<table, opened, step, job, torn, broken>>

\* A page loads the chat (getChat), or another one.
OpenPage(k) ==
  /\ k \notin opened /\ Active(Owner[k])
  /\ opened' = opened \cup {k}
  /\ deaf' = IF k \in inRoom THEN deaf ELSE deaf \cup {k}
  /\ UNCHANGED <<table, sockets, step, job, found, torn, broken>>

LeavePage(k) ==
  /\ k \in opened
  /\ opened' = opened \ {k} /\ deaf' = deaf \ {k}
  /\ UNCHANGED <<table, sockets, step, job, found, torn, broken>>

Handle(j) ==
  \/ CountMembers(j) \/ WriteAdd(j) \/ WriteOpen(j) \/ WriteLeft(j)
  \/ WriteUpdate(j) \/ WriteDelete(j) \/ Reread(j) \/ Tell(j) \/ Fetch(j) \/ Move(j)
  \/ Fail(j)

Live(k) ==
  \/ Connect(k) \/ JoinChat(k) \/ IsParticipant(k) \/ NotAllowed(k) \/ Join(k)
  \/ Disconnect(k) \/ OpenPage(k) \/ LeavePage(k)

MembershipNext ==
  \/ \E j \in Job, b \in User :
       \/ \E u \in User : FriendsPage(j, b, u) \/ GroupInfoModal(j, b, u)
       \/ ChatItem(j, b) \/ DeleteChat(j, b)
  \/ \E j \in Job : Handle(j)
  \/ \E k \in Socket : Live(k)

MembershipSpec(k, people) == MembershipInit(k, people) /\ [][MembershipNext]_membershipVars

(***************************************************************************)
(* Properties.                                                             *)
(***************************************************************************)
\* A socket at rest is in the room exactly when its user is in the chat, once no
\* handler is moving that user - unless its join or a sweep overlapped with the
\* opposite one, or failed.  "Membership is decided here on the server"
\* (websocket/emitter.ts:56).
RoomIsMembers ==
  \A k \in Socket :
    link[k] = "on" /\ k \notin torn /\ ~IsComing(Owner[k]) /\ ~IsGoing(Owner[k])
      => (k \in inRoom <=> Active(Owner[k]))

\* Whoever is put out of a group is told before the room is closed to them, so that no
\* page shows a group its user is not in ("the removed member still receives
\* chat:updated", chats/service.ts:403) - unless the socket was not in the room.
LeaverIsTold ==
  \A k \in opened \ (torn \cup deaf) :
    kind = "GROUP" => Active(Owner[k]) \/ IsGoing(Owner[k])

=============================================================================
