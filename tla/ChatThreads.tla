------------------------------ MODULE ChatThreads ------------------------------
(***************************************************************************)
(* The pages that show a chat (web features/chat/pages/ChatPage.tsx), one  *)
(* browser per participant, above the server's Messages.                   *)
(*                                                                         *)
(* A page is a copy of the chat's messages and read pointers.  It is loaded*)
(* by two requests that read at different times, and kept up by the events *)
(* of the room and by the responses to its own requests.  Events come in   *)
(* the order they were told; responses come any time or never.             *)
(***************************************************************************)
EXTENDS Messages

CONSTANTS Presses,  \* bound: what the people do
          Visits,   \* bound: how often a page is opened
          Drops     \* bound: connections that break

VARIABLES
  page,     \* "away", "loading" or "open"
  shown,    \* the page's copy of each message and pointer
  loaded,   \* parts of a load that the server has read: "chat", "list"
  copy,     \* what they say
  room,     \* browsers whose socket is in the chat room
  inbox,    \* events on their way to each browser
  waiting,  \* requests whose browser still waits for the response
  pending,  \* pendingSend: the clientId and text of the send in flight or failed
  said,     \* texts that were sent and answered: the composer is cleared
  start,    \* history: counts the occasions on which a retry became a new send
  origin,   \* history: the text and occasion each clientId was generated for
  missed,   \* history: what changed behind each page's back
  late,     \* history: what changed after the load had read it
  deaf,     \* history: pages whose socket was down since they were opened
  presses, visits, drops

pageVars == <<page, shown, loaded, copy, missed, late, deaf>>
sendVars == <<pending, said, start, origin>>
netVars  == <<room, inbox>>
vars == <<messageVars, pageVars, sendVars, netVars, waiting, presses, visits, drops>>

Nothing == [key |-> None, text |-> None]   \* no send in flight or failed

Entry == User \cup Key
Blank == [s \in Entry |-> IF s \in User THEN None ELSE NoRow]

\* The chat is open in the browsers of some people, who have read what is there;
\* people and others are connected.
ThreadsInit(before, people, connected) ==
  /\ MessagesInit(before, people)
  /\ page = [b \in User |-> IF b \in people THEN "open" ELSE "away"]
  /\ shown = [b \in User |-> IF b \in people THEN told ELSE Blank]
  /\ copy = [b \in User |-> Blank]
  /\ loaded = [b \in User |-> {}]
  /\ room = connected /\ inbox = [b \in User |-> <<>>]
  /\ waiting = {}
  /\ pending = [b \in User |-> Nothing] /\ said = [b \in User |-> {}]
  /\ start = [b \in User |-> 0] /\ origin = [k \in Key |-> None]
  /\ missed = [b \in User |-> {}] /\ late = missed /\ deaf = {}
  /\ presses = 0 /\ visits = 0 /\ drops = 0

Part(s) == IF s \in User THEN "chat" ELSE "list"

\* Entries S of b's page change while b does not hear of it, or while the load that
\* will replace the page has already read them.
Overtaken(b, S) == {s \in S : Part(s) \in loaded[b]}

\* The pages of the browsers in B do not hear of changes of S(b).
Unheard(B, S(_)) ==
  /\ missed' = [b \in User |-> IF b \in B THEN missed[b] \cup S(b) ELSE missed[b]]
  /\ late' = [b \in User |-> IF b \in B THEN late[b] \cup Overtaken(b, S(b)) ELSE late[b]]

\* b's page shows v for s.
Show(b, s, v) ==
  /\ shown' = [shown EXCEPT ![b][s] = v]
  /\ missed' = [missed EXCEPT ![b] = @ \ {s}]

\* A load that is under way will replace what is done to s.
Replaced(b, s) == late' = [late EXCEPT ![b] = @ \cup Overtaken(b, {s})]

(***************************************************************************)
(* A page is opened: its parts are requested, and the chat is marked read. *)
(***************************************************************************)
OpenChat(b, r) ==
  /\ page[b] = "away" /\ visits < Visits
  /\ page' = [page EXCEPT ![b] = "loading"]
  /\ pending' = [pending EXCEPT ![b] = Nothing]
  /\ start' = [start EXCEPT ![b] = @ + 1]
  /\ deaf' = IF b \in room THEN deaf ELSE deaf \cup {b}
  /\ visits' = visits + 1
  /\ Ask(r, Request("read", b, None, None))
  /\ UNCHANGED <<shown, loaded, copy, missed, late, said, origin, netVars, waiting, presses, drops>>

\* getChat reads the participants' pointers, listMessages what is visible.
ReadPart(b, part) ==
  /\ page[b] = "loading" /\ part \notin loaded[b]
  /\ loaded' = [loaded EXCEPT ![b] = @ \cup {part}]
  /\ copy' = [copy EXCEPT ![b] =
       [s \in Entry |-> IF Part(s) # part THEN copy[b][s]
                        ELSE IF s \in Key /\ ~Visible(s) THEN NoRow ELSE Value(s)]]
  /\ UNCHANGED <<messageVars, page, shown, missed, late, deaf, sendVars, netVars, waiting,
                 presses, visits, drops>>

\* Both responses are there: the page shows what they say, and nothing else.
Loaded(b) ==
  /\ loaded[b] = {"chat", "list"}
  /\ page' = [page EXCEPT ![b] = "open"]
  /\ shown' = [shown EXCEPT ![b] = copy[b]]
  /\ missed' = [missed EXCEPT ![b] = late[b]]
  /\ loaded' = [loaded EXCEPT ![b] = {}]
  /\ late' = [late EXCEPT ![b] = {}]
  /\ copy' = [copy EXCEPT ![b] = Blank]
  /\ UNCHANGED <<messageVars, deaf, sendVars, netVars, waiting, presses, visits, drops>>

\* Another chat is opened.  A load under way is cancelled.
LeaveChat(b) ==
  /\ page[b] # "away"
  /\ page' = [page EXCEPT ![b] = "away"]
  /\ shown' = [shown EXCEPT ![b] = Blank]
  /\ copy' = [copy EXCEPT ![b] = Blank]
  /\ loaded' = [loaded EXCEPT ![b] = {}]
  /\ late' = [late EXCEPT ![b] = {}]
  /\ missed' = [missed EXCEPT ![b] = {}]
  /\ deaf' = deaf \ {b}
  /\ UNCHANGED <<messageVars, sendVars, netVars, waiting, presses, visits, drops>>

(***************************************************************************)
(* The socket: the room is told, an event arrives, the connection drops.   *)
(* Nothing is fetched again when it is back (useChatRoom joins the room).  *)
(***************************************************************************)
Present == {b \in User : page[b] # "away"}

Event(r) == [op |-> req[r].op, of |-> Subject(r), value |-> News(r)]

TellRoom(r) ==
  /\ Tell(r)
  /\ inbox' = [b \in User |-> IF b \in room THEN Append(inbox[b], Event(r)) ELSE inbox[b]]
  /\ Unheard(Present \ room, LAMBDA b : {Subject(r)})
  /\ UNCHANGED <<page, shown, loaded, copy, deaf, room, sendVars, waiting, presses, visits, drops>>

\* message:new adds a message the page does not have, the events of a message replace
\* one that it has, read:receipt moves a pointer.
\* Mutant of Applies: the page does not listen to message:deleted.
Applies_NotDeleted(b, e) ==
  CASE e.op = "read" -> TRUE
    [] e.op = "send" -> shown[b][e.of] = NoRow
    [] OTHER -> e.op # "delete" /\ shown[b][e.of] # NoRow

Applies(b, e) ==
  CASE e.op = "read" -> TRUE
    [] e.op = "send" -> shown[b][e.of] = NoRow
    [] OTHER -> shown[b][e.of] # NoRow

\* Mutant of Take: only a page that is there marks the chat read.
Take_MarkOpen(b, r) ==
  /\ b \in Present /\ inbox[b] # <<>>
  /\ inbox' = [inbox EXCEPT ![b] = Tail(@)]
  /\ LET e == Head(inbox[b]) IN
       /\ IF Applies(b, e) THEN Show(b, e.of, e.value) ELSE UNCHANGED <<shown, missed>>
       /\ Replaced(b, e.of)
       /\ IF e.op = "send" /\ Author[e.of] # b /\ page[b] = "open"
            THEN Ask(r, Request("read", b, None, None))
            ELSE UNCHANGED messageVars
  /\ UNCHANGED <<page, loaded, copy, deaf, room, sendVars, waiting, presses, visits, drops>>

Take(b, r) ==
  /\ b \in Present /\ inbox[b] # <<>>
  /\ inbox' = [inbox EXCEPT ![b] = Tail(@)]
  /\ LET e == Head(inbox[b]) IN
       /\ IF Applies(b, e) THEN Show(b, e.of, e.value) ELSE UNCHANGED <<shown, missed>>
       /\ Replaced(b, e.of)
       /\ IF e.op = "send" /\ Author[e.of] # b
            THEN Ask(r, Request("read", b, None, None))
            ELSE UNCHANGED messageVars
  /\ UNCHANGED <<page, loaded, copy, deaf, room, sendVars, waiting, presses, visits, drops>>

\* The page of another chat leaves the event alone.
Ignore(b) ==
  /\ b \notin Present /\ inbox[b] # <<>>
  /\ inbox' = [inbox EXCEPT ![b] = Tail(@)]
  /\ UNCHANGED <<messageVars, pageVars, room, sendVars, waiting, presses, visits, drops>>

Disconnect(b) ==
  /\ b \in room /\ drops < Drops
  /\ drops' = drops + 1
  /\ room' = room \ {b}
  /\ deaf' = deaf \cup (Present \cap {b})
  /\ Unheard(Present \cap {b}, LAMBDA c : {e.of : e \in Range(inbox[c])})
  /\ inbox' = [inbox EXCEPT ![b] = <<>>]
  /\ UNCHANGED <<messageVars, page, shown, loaded, copy, sendVars, waiting, presses,
                 visits>>

Reconnect(b) ==
  /\ b \notin room
  /\ room' = room \cup {b}
  /\ UNCHANGED <<messageVars, pageVars, inbox, sendVars, waiting, presses, visits, drops>>

(***************************************************************************)
(* What a person does on a page that is open.  One send or edit at a time  *)
(* (sending), one deletion at a time (deleting).                           *)
(***************************************************************************)
Awaits(b, ops) == \E r \in waiting : req[r].user = b /\ req[r].op \in ops

Press(b, r, q) ==
  /\ b \in Present /\ presses < Presses
  /\ presses' = presses + 1
  /\ Ask(r, q)
  /\ waiting' = waiting \cup {r}
  /\ UNCHANGED <<pageVars, netVars, visits, drops>>

\* The text in the composer is sent: with the clientId of the last attempt if it is
\* the same text, with a new one otherwise.
Send(b, r, t) ==
  /\ ~Awaits(b, {"send", "edit"}) /\ t \notin said[b]
  /\ \/ /\ pending[b].text = t
        /\ Press(b, r, Request("send", b, pending[b].key, t))
        /\ UNCHANGED <<pending, start, origin>>
     \/ /\ pending[b].text # t
        /\ start' = [start EXCEPT ![b] = IF pending[b] = Nothing THEN @ ELSE @ + 1]
        /\ \E k \in Key :
             /\ Author[k] = b /\ origin[k] = None /\ ~Written(k)
             /\ Press(b, r, Request("send", b, k, t))
             /\ pending' = [pending EXCEPT ![b] = [key |-> k, text |-> t]]
             /\ origin' = [origin EXCEPT ![k] = [text |-> t, start |-> start'[b]]]
  /\ UNCHANGED said

OnPage(b, k) == shown[b][k] # NoRow /\ ~shown[b][k].gone

Edit(b, r, k, t) ==
  /\ ~Awaits(b, {"send", "edit"})
  /\ OnPage(b, k) /\ Author[k] = b /\ shown[b][k].text # t
  /\ Press(b, r, Request("edit", b, k, t))
  /\ UNCHANGED sendVars

Delete(b, r, k) ==
  /\ ~Awaits(b, {"delete"})
  /\ OnPage(b, k) /\ Author[k] = b
  /\ Press(b, r, Request("delete", b, k, None))
  /\ UNCHANGED sendVars

React(b, r, k) ==
  /\ OnPage(b, k)
  /\ Press(b, r, Request("react", b, k, None))
  /\ UNCHANGED sendVars

(***************************************************************************)
(* The response.  A message that comes back is put on the page, whatever   *)
(* the page has heard of it meanwhile (upsertMessage).                     *)
(***************************************************************************)
Sent(r) == req[r].op = "send" /\ pc[r] = "answer"

Respond(r) ==
  /\ Answer(r)
  /\ waiting' = waiting \ {r}
  /\ LET u == req[r].user
         k == req[r].key
         stale == got[r] # row[k] IN
       /\ IF r \in waiting /\ pc[r] = "answer" /\ u \in Present
            THEN /\ shown' = [shown EXCEPT ![u][k] = got[r]]
                 /\ missed' = [missed EXCEPT ![u] = IF stale THEN @ \cup {k} ELSE @ \ {k}]
                 /\ Replaced(u, k)
            ELSE UNCHANGED <<shown, missed, late>>
       /\ IF r \in waiting /\ Sent(r)
            THEN /\ pending' = [pending EXCEPT ![u] = Nothing]
                 /\ said' = [said EXCEPT ![u] = @ \cup {req[r].text}]
            ELSE UNCHANGED <<pending, said>>
  /\ UNCHANGED <<page, loaded, copy, deaf, netVars, start, origin, presses, visits, drops>>

\* The connection of a request breaks: the page sees an error, the handler goes on.
\* Mutant of GiveUp: the clientId is forgotten with the send that failed.
GiveUp_Forgets(r) ==
  /\ r \in waiting /\ drops < Drops
  /\ drops' = drops + 1
  /\ waiting' = waiting \ {r}
  /\ pending' = [pending EXCEPT ![req[r].user] = Nothing]
  /\ UNCHANGED <<messageVars, pageVars, said, start, origin, netVars, presses, visits>>

GiveUp(r) ==
  /\ r \in waiting /\ drops < Drops
  /\ drops' = drops + 1
  /\ waiting' = waiting \ {r}
  /\ UNCHANGED <<messageVars, pageVars, sendVars, netVars, presses, visits>>

Serve(r) ==
  \/ /\ Handle(r) \/ Fail(r)
     /\ UNCHANGED <<pageVars, sendVars, netVars, waiting, presses, visits, drops>>
  \/ TellRoom(r) \/ Respond(r) \/ GiveUp(r)

Browse(b) ==
  \/ \E part \in {"chat", "list"} : ReadPart(b, part)
  \/ Loaded(b) \/ LeaveChat(b) \/ Ignore(b) \/ Disconnect(b) \/ Reconnect(b)
  \/ \E r \in Req :
       \/ OpenChat(b, r) \/ Take(b, r)
       \/ \E t \in Text : Send(b, r, t)
       \/ \E k \in Key : Delete(b, r, k) \/ React(b, r, k)
       \/ \E k \in Key, t \in Text : Edit(b, r, k, t)

ThreadsNext == (\E r \in Req : Serve(r)) \/ \E b \in User : Browse(b)

ThreadsSpec == ThreadsInit(<<>>, {}, {}) /\ [][ThreadsNext]_vars

(***************************************************************************)
(* Properties.                                                             *)
(***************************************************************************)
\* The page shows s as it is: a message that is gone may be absent, a pointer that
\* was cleared may be shown where it was.
Shows(b, s) ==
  \/ shown[b][s] = Value(s)
  \/ IF s \in User THEN read[s] = None ELSE row[s].gone /\ shown[b][s] = NoRow

\* Nothing about s is on its way to b, and nobody works on it.
Settled(b, s) ==
  /\ At(s) = {}
  /\ \A e \in Range(inbox[b]) : e.of # s
  /\ \A r \in waiting : ~(pc[r] = "answer" /\ Subject(r) = s)

\* A page that was left alone long enough shows each message and each pointer as the
\* table has it, in whatever order its load, the events and the responses came -
\* unless handlers overlapped or failed, or the page had no way to hear: its socket
\* was down, its load or a response brought what had been read before a change.
ThreadSettles ==
  \A b \in User, s \in Entry :
    page[b] = "open" /\ Settled(b, s) /\ s \notin shaken \cup missed[b] => Shows(b, s)

After(k, j) ==
  j = None \/ \E m \in 1..Len(log), n \in 1..Len(log) : m < n /\ log[m] = j /\ log[n] = k

Unread(u) == {k \in Key : Visible(k) /\ Author[k] # u /\ After(k, read[u])}

\* An open page leaves nothing unread (getUnreadCount) once its marks are done: it
\* marks the chat when it opens and with each message that comes, and no mark takes
\* the pointer back - unless two of them overlapped, one failed or found its message
\* deleted, or the socket was down.
UnreadSettles ==
  \A b \in User :
    page[b] = "open" /\ Settled(b, b) /\ b \notin shaken \cup deaf
      /\ ~(\E r \in Req : pc[r] # "idle" /\ req[r].user = b /\ req[r].op = "read")
    => \A k \in Unread(b) : k \in shaken \/ ~Settled(b, k)

\* What a person sends once is one message, however often it is retried, and though
\* earlier attempts may still be at work ("retries return the original",
\* FEATURES.md:55).  A retry after the chat was reopened, or after another text was
\* tried, is a new send.
SentOnce ==
  \A j, k \in Key :
    Written(j) /\ Written(k) /\ Author[j] = Author[k] /\ origin[j] = origin[k]
      /\ origin[j] # None => j = k
=============================================================================
