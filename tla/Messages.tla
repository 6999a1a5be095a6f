------------------------------- MODULE Messages -------------------------------
(***************************************************************************)
(* The messages of one chat on the server: messages/service.ts and         *)
(* messages/repository.ts.                                                 *)
(*                                                                         *)
(* A handler awaits several database calls, one per step here, and then    *)
(* tells the chat room: an event that carries the row as the handler read  *)
(* it.  Between two steps other handlers run, so rows are told in another  *)
(* order than they are written.                                            *)
(*                                                                         *)
(* A message is named by the clientId it was sent with: the unique index   *)
(* on (senderId, clientId) makes that a name.  Replies, attachments and    *)
(* membership are other parts of the system.                               *)
(***************************************************************************)
EXTENDS Naturals, Sequences, SequencesExt

CONSTANTS User,       \* the participants of the chat
          Key,        \* clientIds
          Author,     \* who generated each of them
          Text,
          Req,        \* handlers running at the same time
          None,
          Reactions,  \* bound: reactions ever added
          Mishaps     \* bound: failed handlers

ASSUME MessagesAssumption ==
  /\ Author \in [Key -> User]
  /\ None \notin User \cup Key \cup Text
  /\ User \cap Key = {}
  /\ Reactions \in Nat /\ Mishaps \in Nat

VARIABLES
  log,     \* the messages of the chat, in the order of createdAt
  row,     \* what the table says of each message
  read,    \* lastReadMessageId of each participant
  pc,      \* next step of each handler
  req,     \* what each handler is asked
  got,     \* the message as a handler last read or wrote it
  told,    \* what the room was last told of each message and pointer
  added,   \* ids of reactions that were given out
  flipped, \* history: who has reacted, counting the toggles that succeeded
  shaken,  \* history: messages and pointers whose handlers overlapped or failed
  mishaps

messageVars ==
  <<log, row, read, pc, req, got, told, added, flipped, shaken, mishaps>>

Op      == {"send", "edit", "delete", "react", "read"}
Steps   == {"idle", "start", "create", "edit", "delete", "find", "toggle",
            "reread", "exists", "point", "clear", "tell", "answer", "refused"}
Working == Steps \ {"idle", "start", "answer", "refused"}
RowType == [text : Text \cup {None}, gone : BOOLEAN, likes : [User -> 0..Reactions]]

NoRow == [text |-> None, gone |-> FALSE, likes |-> [u \in User |-> 0]]

Request(o, u, k, t) == [op |-> o, user |-> u, key |-> k, text |-> t, like |-> 0]
NoReq   == Request("none", None, None, None)
ReqType == [op : Op \cup {"none"}, user : User \cup {None}, key : Key \cup {None},
            text : Text \cup {None}, like : 0..Reactions]

Written(k) == Contains(log, k)
Visible(k) == Written(k) /\ ~row[k].gone

\* What a handler works on: a message, or its user's read pointer.
Subject(r) == IF req[r].op = "read" THEN req[r].user ELSE req[r].key
News(r)    == IF req[r].op = "read" THEN req[r].key ELSE got[r]
Value(s)   == IF s \in User THEN read[s] ELSE row[s]

\* Types of the tables and of the handlers' locals.
MessagesTypeOK ==
  /\ log \in Seq(Key)
  /\ row \in [Key -> RowType]
  /\ read \in [User -> Key \cup {None}]
  /\ pc \in [Req -> Steps]
  /\ req \in [Req -> ReqType]
  /\ got \in [Req -> RowType]
  /\ told \in [User \cup Key -> RowType \cup Key \cup {None}]
  /\ added \in 0..Reactions
  /\ flipped \in [Key -> SUBSET User]
  /\ shaken \in SUBSET (User \cup Key)
  /\ mishaps \in 0..Mishaps
  /\ \A r \in Req : pc[r] # "idle" => req[r].op \in Op /\ req[r].user \in User
  /\ \A r \in Req : pc[r] # "idle" /\ req[r].op # "read" => req[r].key \in Key
  /\ \A r \in Req : pc[r] \in {"exists", "point"} => req[r].key \in Key

\* The table holds the messages of before, all of them told; readers have read them.
MessagesInit(before, readers) ==
  /\ log = before
  /\ row = [k \in Key |-> IF Contains(before, k)
                            THEN [NoRow EXCEPT !.text = CHOOSE t \in Text : TRUE]
                            ELSE NoRow]
  /\ read = [u \in User |-> IF u \in readers /\ before # <<>> THEN Last(before) ELSE None]
  /\ pc = [r \in Req |-> "idle"]
  /\ req = [r \in Req |-> NoReq]
  /\ got = [r \in Req |-> NoRow]
  /\ told = [s \in User \cup Key |-> Value(s)]
  /\ added = 0
  /\ flipped = [k \in Key |-> {}]
  /\ shaken = {}
  /\ mishaps = 0

Goto(r, p) == pc' = [pc EXCEPT ![r] = p]
Holds(r, v) == got' = [got EXCEPT ![r] = v]
tables == <<log, row, read, told, added, flipped>>

\* Somebody asks for something.
Ask(r, q) ==
  /\ pc[r] = "idle"
  /\ Goto(r, "start")
  /\ req' = [req EXCEPT ![r] = q]
  /\ UNCHANGED <<tables, got, shaken, mishaps>>

(***************************************************************************)
(* History: a handler starts while another one is at work on its subject.  *)
(* Two sends of one clientId are no clash, they are an attempt and a retry.*)
(***************************************************************************)
Clash(r) ==
  \E q \in Req \ {r} :
    pc[q] \in Working /\ Subject(q) = Subject(r)
      /\ ~(req[q].op = "send" /\ req[r].op = "send")

Begin(r, p) ==
  /\ Goto(r, p)
  /\ shaken' = IF Clash(r) THEN shaken \cup {Subject(r)} ELSE shaken

(***************************************************************************)
(* sendMessage.  A clientId that is known answers with the original, and   *)
(* tells nobody; a concurrent insert that won is found by the unique index.*)
(***************************************************************************)
SendStart(r) ==
  /\ pc[r] = "start" /\ req[r].op = "send"
  /\ LET k == req[r].key IN
       \/ /\ Written(k)
          /\ Holds(r, row[k])
          /\ Goto(r, "answer")
          /\ UNCHANGED shaken
       \/ ~Written(k) /\ Begin(r, "create") /\ UNCHANGED got
  /\ UNCHANGED <<tables, req, mishaps>>

SendCreate(r) ==
  /\ pc[r] = "create"
  /\ LET k == req[r].key IN
       \/ /\ ~Written(k)
          /\ log' = Append(log, k)
          /\ row' = [row EXCEPT ![k] = [NoRow EXCEPT !.text = req[r].text]]
          /\ Holds(r, row'[k])
       \/ Written(k) /\ Holds(r, row[k]) /\ UNCHANGED <<log, row>>
  /\ Goto(r, "tell")
  /\ UNCHANGED <<read, req, told, added, flipped, shaken, mishaps>>

(***************************************************************************)
(* editMessage and deleteMessage: the message is checked, then written by  *)
(* its id alone.                                                           *)
(***************************************************************************)
ChangeStart(r) ==
  /\ pc[r] = "start" /\ req[r].op \in {"edit", "delete"}
  /\ \/ /\ Visible(req[r].key) /\ Author[req[r].key] = req[r].user
        /\ Begin(r, req[r].op)
     \/ /\ ~(Visible(req[r].key) /\ Author[req[r].key] = req[r].user)
        /\ Goto(r, "refused") /\ UNCHANGED shaken
  /\ UNCHANGED <<tables, req, got, mishaps>>

\* Mutant of EditWrite: the message is told as it was when it was checked.
EditWrite_Old(r) ==
  /\ pc[r] = "edit"
  /\ row' = [row EXCEPT ![req[r].key].text = req[r].text]
  /\ Holds(r, row[req[r].key])
  /\ Goto(r, "tell")
  /\ UNCHANGED <<log, read, req, told, added, flipped, shaken, mishaps>>

EditWrite(r) ==
  /\ pc[r] = "edit"
  /\ row' = [row EXCEPT ![req[r].key].text = req[r].text]
  /\ Holds(r, row'[req[r].key])
  /\ Goto(r, "tell")
  /\ UNCHANGED <<log, read, req, told, added, flipped, shaken, mishaps>>

DeleteWrite(r) ==
  /\ pc[r] = "delete"
  /\ row' = [row EXCEPT ![req[r].key].gone = TRUE, ![req[r].key].text = None]
  /\ Holds(r, row'[req[r].key])
  /\ Goto(r, "tell")
  /\ UNCHANGED <<log, read, req, told, added, flipped, shaken, mishaps>>

(***************************************************************************)
(* toggleReaction: (message, user, emoji) is unique, so adding a reaction  *)
(* that has come meanwhile fails; so does deleting one that has gone.      *)
(***************************************************************************)
ReactStart(r) ==
  /\ pc[r] = "start" /\ req[r].op = "react"
  /\ \/ Visible(req[r].key) /\ Begin(r, "find")
     \/ ~Visible(req[r].key) /\ Goto(r, "refused") /\ UNCHANGED shaken
  /\ UNCHANGED <<tables, req, got, mishaps>>

FindReaction(r) ==
  /\ pc[r] = "find"
  /\ req' = [req EXCEPT ![r].like = row[req[r].key].likes[req[r].user]]
  /\ Goto(r, "toggle")
  /\ UNCHANGED <<tables, got, shaken, mishaps>>

SetLike(r, id) ==
  /\ row' = [row EXCEPT ![req[r].key].likes =
               [row[req[r].key].likes EXCEPT ![req[r].user] = id]]
  /\ flipped' = [flipped EXCEPT ![req[r].key] =
                   IF req[r].user \in @ THEN @ \ {req[r].user} ELSE @ \cup {req[r].user}]
  /\ Goto(r, "reread")

Toggle(r) ==
  /\ pc[r] = "toggle"
  /\ LET found == req[r].like
         now   == row[req[r].key].likes[req[r].user] IN
       \/ /\ found = 0 /\ now = 0 /\ added < Reactions
          /\ SetLike(r, added + 1)
          /\ added' = added + 1
       \/ found # 0 /\ now = found /\ SetLike(r, 0) /\ UNCHANGED added
       \/ found # now /\ Goto(r, "refused") /\ UNCHANGED <<row, added, flipped>>
  /\ UNCHANGED <<log, read, told, req, got, shaken, mishaps>>

Reread(r) ==
  /\ pc[r] = "reread"
  /\ Holds(r, row[req[r].key])
  /\ Goto(r, "tell")
  /\ UNCHANGED <<tables, req, shaken, mishaps>>

(***************************************************************************)
(* markChatRead: up to the message named, or else to the newest one.       *)
(***************************************************************************)
Newest(k) ==
  \E i \in 1..Len(log) :
    /\ log[i] = k /\ Visible(k)
    /\ \A j \in 1..Len(log) : j > i => ~Visible(log[j])

FindLatest(r) ==
  /\ pc[r] = "start" /\ req[r].op = "read"
  /\ \/ req[r].key # None /\ Begin(r, "exists") /\ UNCHANGED req
     \/ /\ req[r].key = None
        /\ \E k \in Key : Newest(k) /\ req' = [req EXCEPT ![r].key = k]
        /\ Begin(r, "exists")
     \/ /\ req[r].key = None /\ \A k \in Key : ~Newest(k)
        /\ Begin(r, "clear")
        /\ UNCHANGED req
  /\ UNCHANGED <<tables, got, mishaps>>

MessageExists(r) ==
  /\ pc[r] = "exists"
  /\ \/ Visible(req[r].key) /\ Goto(r, "point") /\ UNCHANGED shaken
     \/ /\ ~Visible(req[r].key)
        /\ Goto(r, "refused")
        /\ shaken' = shaken \cup {req[r].user}
  /\ UNCHANGED <<tables, req, got, mishaps>>

SetLastRead(r) ==
  /\ pc[r] = "point"
  /\ read' = [read EXCEPT ![req[r].user] = req[r].key]
  /\ Goto(r, "tell")
  /\ UNCHANGED <<log, row, told, added, flipped, req, got, shaken, mishaps>>

\* An empty chat: the pointer is cleared, and nobody is told.
ClearLastRead(r) ==
  /\ pc[r] = "clear"
  /\ read' = [read EXCEPT ![req[r].user] = None]
  /\ Goto(r, "answer")
  /\ UNCHANGED <<log, row, told, added, flipped, req, got, shaken, mishaps>>

\* The row is serialized and told to the room (websocket/emitter.ts).
Tell(r) ==
  /\ pc[r] = "tell"
  /\ told' = [told EXCEPT ![Subject(r)] = News(r)]
  /\ Goto(r, "answer")
  /\ UNCHANGED <<log, row, read, added, flipped, req, got, shaken, mishaps>>

\* A database or storage call rejects, or the server dies.
Fail(r) ==
  /\ pc[r] \in Working \cup {"start"} /\ mishaps < Mishaps
  /\ mishaps' = mishaps + 1
  /\ shaken' = shaken \cup {Subject(r)}
  /\ Goto(r, "refused")
  /\ UNCHANGED <<tables, req, got>>

\* The response is sent.
Answer(r) ==
  /\ pc[r] \in {"answer", "refused"}
  /\ Goto(r, "idle")
  /\ req' = [req EXCEPT ![r] = NoReq]
  /\ Holds(r, NoRow)
  /\ UNCHANGED <<tables, shaken, mishaps>>

Handle(r) ==
  \/ SendStart(r) \/ SendCreate(r) \/ ChangeStart(r) \/ EditWrite(r)
  \/ DeleteWrite(r) \/ ReactStart(r) \/ FindReaction(r) \/ Toggle(r) \/ Reread(r)
  \/ FindLatest(r) \/ MessageExists(r) \/ SetLastRead(r) \/ ClearLastRead(r)

\* What a participant may ask, at any time.
AnyRequest(u) ==
  {Request("send", u, k, t) : k \in {k \in Key : Author[k] = u}, t \in Text}
    \cup {Request("edit", u, k, t) : k \in Key, t \in Text}
    \cup {Request(o, u, k, None) : o \in {"delete", "react"}, k \in Key}
    \cup {Request("read", u, k, None) : k \in Key \cup {None}}

MessagesNext ==
  \/ \E r \in Req : Handle(r) \/ Tell(r) \/ Fail(r) \/ Answer(r)
  \/ \E r \in Req, u \in User : \E q \in AnyRequest(u) : Ask(r, q)

MessagesSpec == MessagesInit(<<>>, {}) /\ [][MessagesNext]_messageVars

(***************************************************************************)
(* Properties.                                                             *)
(***************************************************************************)
At(s) == {r \in Req : pc[r] \in Working /\ Subject(r) = s}

\* What the room was last told of a message or of a read pointer is what the table
\* says, as soon as nobody works on it, unless handlers overlapped on it or one of
\* them failed: no change goes untold (each handler broadcasts what it wrote).  Only a
\* pointer that is cleared, in a chat with no message left, is not told.
ToldIsTrue ==
  \A s \in User \cup Key :
    s \notin shaken /\ At(s) = {} => told[s] = Value(s) \/ Value(s) = None

\* "Soft delete: the row stays, its text goes" (messages/repository.ts:196), unless
\* an edit that was checked before the deletion is written after it.
DeletedHasNoText ==
  \A k \in Key : row[k].gone /\ k \notin shaken => row[k].text = None

\* The reactions of a message are what the toggles that succeeded add up to, however
\* they overlapped and whatever failed (unique index, deletion by id).
TogglesCount ==
  \A k \in Key, u \in User : row[k].likes[u] # 0 <=> u \in flipped[k]
=============================================================================
