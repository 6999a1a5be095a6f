------------------------------ MODULE ChatPage ------------------------------
(***************************************************************************)
(* The page of a chat as its user goes from one chat to another            *)
(* (web features/chat/pages/ChatPage.tsx).  The router keeps the page and  *)
(* gives it another id, so what is on it - the thread, the composer, the   *)
(* requests it has sent - outlives the chat it belongs to, except for what *)
(* the page starts over.                                                   *)
(*                                                                         *)
(* ChatThreads has what one chat's page shows of the messages; here a      *)
(* thread is the set of messages on the page.                              *)
(***************************************************************************)
EXTENDS Naturals, FiniteSets

CONSTANTS Chat,
          Message,    \* messages that were there before
          ChatOf,     \* the chat of each
          Key,        \* clientIds, and the messages that are sent with them
          Text,
          None,
          MaxActs     \* bound: chats opened, and messages that are sent, answered, edited,
                      \* deleted or reacted to, together

VARIABLES
  open,     \* the chat in the address, None on other pages
  load,     \* its load: "asked", "done" or "failed"
  loads,    \* chats whose load is under way, cancelled ones too
  header,   \* the chat whose name is shown
  thread,   \* the messages on the page
  text, editing, reply,  \* the composer
  pending,  \* pendingSend
  own,      \* what the composer waits for (sending, uploading)
  side,     \* reactions and deletions under way
  used,     \* sends the server was given
  stored,   \* sends it has accepted
  strayed,  \* history: a message of another chat came on the page
  acts

composer == <<text, editing, reply, pending>>
view     == <<open, load, loads, header, thread>>
requests == <<own, side, used, stored>>
pageVars == <<view, composer, requests, strayed, acts>>

Nothing  == [key |-> None, text |-> None, reply |-> None]
NoWait   == [op |-> "none"]

PageInit ==
  /\ open = None /\ load = "done" /\ loads = {} /\ header = None /\ thread = {}
  /\ text = None /\ editing = None /\ reply = None /\ pending = Nothing
  /\ own = NoWait /\ side = {} /\ used = {} /\ stored = {}
  /\ strayed = FALSE /\ acts = 0

HomeOf(m) == IF m \in Message THEN ChatOf[m] ELSE (CHOOSE s \in stored : s.key = m).chat

KeysOf(S) == {s.key : s \in S}
InChat(c) == {m \in Message \cup KeysOf(stored) : HomeOf(m) = c}
Foreign   == {m \in thread : HomeOf(m) # open}

Acts == acts < MaxActs /\ acts' = acts + 1

(***************************************************************************)
(* A chat is opened, and its load answered.  The text, a message that is   *)
(* edited and a send under way stay.                                       *)
(***************************************************************************)
\* Mutant of Open: the clientId of a send that failed is kept.
Open_KeepsKey(c) ==
  /\ c # open /\ Acts
  /\ open' = c /\ load' = "asked" /\ loads' = loads \cup {c}
  /\ reply' = None
  /\ UNCHANGED <<header, thread, text, editing, pending, requests, strayed>>

Open(c) ==
  /\ c # open /\ Acts
  /\ open' = c /\ load' = "asked" /\ loads' = loads \cup {c}
  /\ pending' = Nothing /\ reply' = None
  /\ UNCHANGED <<header, thread, text, editing, requests, strayed>>

\* Mutant of Loaded: a load is not cancelled when another chat is opened.
Loaded_Uncancelled(c) ==
  /\ c \in loads
  /\ loads' = loads \ {c}
  /\ IF open # None
       THEN /\ load' = "done" /\ header' = c /\ strayed' = FALSE
            /\ \E S \in SUBSET (InChat(c) \ Message) : thread' = S \cup (InChat(c) \cap Message)
       ELSE UNCHANGED <<load, header, thread, strayed>>
  /\ UNCHANGED <<open, composer, requests, acts>>

\* Messages that were stored after the list was read are not in it.
Loaded(c) ==
  /\ c \in loads
  /\ loads' = loads \ {c}
  /\ IF c = open /\ load = "asked"
       THEN /\ load' = "done" /\ header' = c /\ strayed' = FALSE
            /\ \E S \in SUBSET (InChat(c) \ Message) : thread' = S \cup (InChat(c) \cap Message)
       ELSE UNCHANGED <<load, header, thread, strayed>>
  /\ UNCHANGED <<open, composer, requests, acts>>

\* A load that fails leaves the thread of the chat before on the page.
LoadFails(c) ==
  /\ c \in loads
  /\ loads' = loads \ {c}
  /\ IF c = open /\ load = "asked"
       THEN load' = "failed" /\ strayed' = (strayed \/ Foreign # {})
       ELSE UNCHANGED <<load, strayed>>
  /\ UNCHANGED <<open, header, thread, composer, requests, acts>>

\* Another page is opened: this one is gone, and what it waits for with it.
Leave ==
  /\ open # None
  /\ open' = None /\ load' = "done" /\ loads' = {} /\ header' = None /\ thread' = {}
  /\ text' = None /\ editing' = None /\ reply' = None /\ pending' = Nothing
  /\ own' = NoWait /\ side' = {} /\ strayed' = FALSE
  /\ UNCHANGED <<used, stored, acts>>

\* chat:updated: the chat has another name, or its user is no longer in it.
ChatUpdated ==
  \/ /\ open # None /\ header # open
     /\ header' = open
     /\ UNCHANGED <<open, load, loads, thread, composer, requests, strayed, acts>>
  \/ Leave

\* message:new, from any chat of the user.
New(m) ==
  /\ open # None /\ m \in InChat(open) \ thread
  /\ thread' = thread \cup {m}
  /\ UNCHANGED <<open, load, loads, header, composer, requests, strayed, acts>>

(***************************************************************************)
(* The composer.  The text area is disabled while a send is under way; the *)
(* emoji picker and the menu of a message are not.                         *)
(***************************************************************************)
Visible == IF open # None /\ load # "asked" THEN thread ELSE {}

Type(t) ==
  /\ open # None /\ text # t
  /\ text' = t
  /\ UNCHANGED <<view, editing, reply, pending, requests, strayed, acts>>

\* Only one's own messages that have a text: here, those one sends.
StartEdit(m, t) ==
  /\ m \in Visible \cap Key /\ editing = None /\ Acts
  /\ reply' = None /\ editing' = [msg |-> m, original |-> t] /\ text' = t
  /\ UNCHANGED <<view, pending, requests, strayed>>

CancelEdit ==
  /\ editing # None
  /\ editing' = None /\ text' = None
  /\ UNCHANGED <<view, reply, pending, requests, strayed, acts>>

StartReply(m) ==
  /\ m \in Visible /\ reply # m /\ Acts
  /\ editing' = None /\ reply' = m
  /\ UNCHANGED <<view, text, pending, requests, strayed>>

CancelReply ==
  /\ editing = None /\ reply # None
  /\ reply' = None
  /\ UNCHANGED <<view, text, editing, pending, requests, strayed, acts>>

Ready == open # None /\ own = NoWait /\ text # None

Post(s) == used' = used \cup {s}

SendOf(k, t, r) == [key |-> k, chat |-> open, text |-> t, reply |-> r, strayed |-> strayed]

\* The key is used again for the same text and the same reply.
Send ==
  /\ Ready /\ editing = None /\ Acts
  /\ LET again == pending.text = text /\ pending.reply = reply IN
     \E k \in IF again THEN {pending.key} ELSE Key \ KeysOf(used) :
       LET s == SendOf(k, text, reply) IN
         /\ pending' = [key |-> k, text |-> text, reply |-> reply]
         /\ own' = [op |-> "send", stage |-> "sent", send |-> s]
         /\ Post(s)
  /\ UNCHANGED <<view, text, editing, reply, side, stored, strayed>>

SendEdit ==
  /\ Ready /\ editing # None /\ text # editing.original /\ Acts
  /\ own' = [op |-> "edit", stage |-> "sent", msg |-> editing.msg]
  /\ UNCHANGED <<view, composer, side, used, stored, strayed>>

\* One or two files, with the text as a caption of the first, each under a key of its own.
SendFiles(n) ==
  /\ open # None /\ own = NoWait /\ editing = None /\ Acts
  /\ own' = [op |-> "files", stage |-> "upload", left |-> n, send |-> SendOf(None, text, reply)]
  /\ UNCHANGED <<view, composer, side, used, stored, strayed>>

Uploaded ==
  /\ own.op = "files" /\ own.stage = "upload"
  /\ \E k \in Key \ KeysOf(used) :
       LET s == [own.send EXCEPT !.key = k] IN
         own' = [own EXCEPT !.stage = "sent", !.send = s] /\ Post(s)
  /\ UNCHANGED <<view, composer, side, stored, strayed, acts>>

(***************************************************************************)
(* The server: a key it knows returns what was sent with it, in another    *)
(* chat it is refused; so is a reply to a message of another chat.         *)
(***************************************************************************)
Known(s)    == \E r \in stored : r.key = s.key
Refuses(s)  == IF Known(s) THEN HomeOf(s.key) # s.chat
               ELSE s.reply # None /\ HomeOf(s.reply) # s.chat

Serve ==
  /\ own.op \in {"send", "files"} /\ own.stage = "sent"
  /\ own' = [own EXCEPT !.stage = IF Refuses(own.send) THEN "refused" ELSE "served"]
  /\ stored' = IF Refuses(own.send) \/ Known(own.send) THEN stored ELSE stored \cup {own.send}
  /\ UNCHANGED <<view, composer, side, used, strayed, acts>>

\* A message that comes back goes on the page, whatever chat is open (upsertMessage).
Upsert(m) ==
  /\ thread' = thread \cup {m}
  /\ strayed' = (strayed \/ HomeOf(m) # open)

Sent ==
  /\ own.op = "send" /\ own.stage = "served"
  /\ own' = NoWait /\ pending' = Nothing /\ text' = None /\ reply' = None
  /\ Upsert(own.send.key)
  /\ UNCHANGED <<open, load, loads, header, editing, side, used, stored, acts>>

FileSent ==
  /\ own.op = "files" /\ own.stage = "served"
  /\ own' = IF own.left = 1 THEN NoWait
            ELSE [own EXCEPT !.stage = "upload", !.left = @ - 1, !.send.text = None]
  /\ text' = None /\ reply' = None
  /\ Upsert(own.send.key)
  /\ UNCHANGED <<open, load, loads, header, editing, pending, side, used, stored, acts>>

Edited ==
  /\ own.op = "edit"
  /\ own' = NoWait /\ editing' = None /\ text' = None
  /\ Upsert(own.msg)
  /\ UNCHANGED <<open, load, loads, header, reply, pending, side, used, stored, acts>>

\* Refused, failed or lost: what is in the composer stays, and the key with it.
WaitFails ==
  /\ own # NoWait
  /\ own' = NoWait
  /\ UNCHANGED <<view, composer, side, used, stored, strayed, acts>>

(***************************************************************************)
(* Reactions and deletions, beside the composer.                           *)
(***************************************************************************)
React(m) ==
  /\ m \in Visible /\ Acts
  /\ side' = side \cup {[msg |-> m, clears |-> FALSE]}
  /\ UNCHANGED <<view, composer, own, used, stored, strayed>>

Delete(m) ==
  /\ m \in Visible \cap Key /\ Acts
  /\ side' = side \cup {[msg |-> m, clears |-> editing # None /\ editing.msg = m]}
  /\ UNCHANGED <<view, composer, own, used, stored, strayed>>

SideAnswered(d) ==
  /\ d \in side
  /\ side' = side \ {d}
  /\ Upsert(d.msg)
  /\ IF d.clears THEN editing' = None /\ text' = None ELSE UNCHANGED <<editing, text>>
  /\ UNCHANGED <<open, load, loads, header, reply, pending, own, used, stored, acts>>

SideFails(d) ==
  /\ d \in side
  /\ side' = side \ {d}
  /\ UNCHANGED <<view, composer, own, used, stored, strayed, acts>>

PageNext ==
  \/ \E c \in Chat : Open(c) \/ Loaded(c) \/ LoadFails(c)
  \/ Leave \/ ChatUpdated \/ CancelEdit \/ CancelReply
  \/ \E m \in Message \cup Key : New(m) \/ StartReply(m) \/ React(m) \/ Delete(m)
  \/ \E t \in Text : Type(t) \/ \E m \in Key : StartEdit(m, t)
  \/ Send \/ SendEdit \/ \E n \in 1..2 : SendFiles(n)
  \/ Uploaded \/ Serve \/ Sent \/ FileSent \/ Edited \/ WaitFails
  \/ \E d \in side : SideAnswered(d) \/ SideFails(d)

PageSpec == PageInit /\ [][PageNext]_pageVars

(***************************************************************************)
(* Properties.                                                             *)
(***************************************************************************)
\* A clientId stands for one message: whatever is retried, and whichever chats are
\* opened between, the server is never given one key for two chats, two texts or two
\* replies - it would return the first message, or refuse ("switching chats must never
\* let it get reused", ChatPage.tsx:134).
KeyIsOneMessage ==
  \A r, s \in used : r.key = s.key => <<r.chat, r.text, r.reply>> = <<s.chat, s.text, s.reply>>

\* Once a chat is loaded its page shows this chat: the header, the messages, and what
\* one replies to are its own, though the loads, responses and events of the chats
\* before still come in.  Not covered is what the code does put on the wrong page: a
\* message that comes back from a request made in another chat, and the thread that
\* stays when a load fails.
PageIsOneChat ==
  /\ open # None /\ load = "done" /\ ~strayed =>
       /\ header = open /\ Foreign = {}
       /\ reply # None => HomeOf(reply) = open
  /\ \A s \in used : ~s.strayed /\ s.reply # None => HomeOf(s.reply) = s.chat
=============================================================================
