--------------------------- MODULE ChatPageProofs ---------------------------
(***************************************************************************)
(* Proofs about ChatPage, for any chats, messages, texts and keys, however *)
(* often one goes from a chat to another; about Membership, for any people,*)
(* sockets and handlers at work at the same time; about ChatList, for any  *)
(* chats, lists and counts under way; and about Push, for any tabs, users  *)
(* and tasks.                                                              *)
(***************************************************************************)
EXTENDS ChatPage, Membership, ChatList, Push, FiniteSetTheorems, SequenceTheorems, TLAPS

\* What is under way has the shape it was given.
Waits ==
  /\ own.op = "send" => \E stage, send : own = [op |-> "send", stage |-> stage, send |-> send]
  /\ own.op = "files" => \E stage, left, key, chat, words, answered, stray :
       own = [op |-> "files", stage |-> stage, left |-> left,
              send |-> [key |-> key, chat |-> chat, text |-> words, reply |-> answered,
                        strayed |-> stray]]

\* The key that would be used again was given to the server with this chat, this text and
\* this reply.
PendingIsKnown ==
  pending.text # None =>
    /\ pending.key \in KeysOf(used)
    /\ \A s \in used : s.key = pending.key =>
         s.chat = open /\ s.text = pending.text /\ s.reply = pending.reply

KeyInv == Waits /\ PendingIsKnown /\ KeyIsOneMessage

LEMMA KeyInitial == PageInit => KeyInv
BY DEF PageInit, KeyInv, Waits, PendingIsKnown, KeyIsOneMessage, NoWait, Nothing

\* Nothing is given to the server, and what the key stands for stays or is forgotten.
LEMMA NothingPosted ==
  ASSUME KeyInv, used' = used, Waits',
         (open' = open /\ pending' = pending) \/ pending' = Nothing
  PROVE  KeyInv'
BY DEF KeyInv, PendingIsKnown, KeyIsOneMessage, KeysOf, Nothing

\* What is given to the server has a new key, or is what the key already stands for.
LEMMA Posted ==
  ASSUME KeyInv, NEW s, used' = used \cup {s}, Waits', open' = open,
         \/ s.key \notin KeysOf(used)
         \/ \A x \in used : x.key = s.key => <<x.chat, x.text, x.reply>> = <<s.chat, s.text, s.reply>>,
         \/ pending' = pending /\ s.key \notin KeysOf(used)
         \/ pending' = [key |-> s.key, text |-> s.text, reply |-> s.reply] /\ s.chat = open
  PROVE  KeyInv'
<1>1. \A x \in used : x.key = s.key => <<x.chat, x.text, x.reply>> = <<s.chat, s.text, s.reply>>
  BY DEF KeysOf
<1>2. KeyIsOneMessage'
  BY <1>1 DEF KeyInv, KeyIsOneMessage
<1>3. PendingIsKnown'
  <2>1. CASE pending' = pending /\ s.key \notin KeysOf(used)
    BY <2>1 DEF KeyInv, PendingIsKnown, KeysOf
  <2>2. CASE pending' = [key |-> s.key, text |-> s.text, reply |-> s.reply] /\ s.chat = open
    BY <1>1, <2>2 DEF PendingIsKnown, KeysOf
  <2> QED BY <2>1, <2>2
<1> QED BY <1>2, <1>3 DEF KeyInv

LEMMA KeyStep == KeyInv /\ [PageNext]_pageVars => KeyInv'
<1> SUFFICES ASSUME KeyInv, [PageNext]_pageVars PROVE KeyInv'
  OBVIOUS
<1>a. Waits
  BY DEF KeyInv
<1>b. ASSUME UNCHANGED <<open, pending, own, used>> PROVE KeyInv'
  BY <1>a, <1>b, NothingPosted DEF Waits
<1>1. ASSUME NEW c \in Chat, Open(c) PROVE KeyInv'
  BY <1>1, <1>a, NothingPosted DEF Open, requests, Waits
<1>2. ASSUME NEW c \in Chat, Loaded(c) \/ LoadFails(c) PROVE KeyInv'
  BY <1>2, <1>b DEF Loaded, LoadFails, composer, requests
<1>3. ASSUME Leave PROVE KeyInv'
  BY <1>3, NothingPosted DEF Leave, NoWait, Waits
<1>4. CASE ChatUpdated
  BY <1>3, <1>4, <1>b DEF ChatUpdated, composer, requests
<1>5. CASE CancelEdit \/ CancelReply
  BY <1>5, <1>b DEF CancelEdit, CancelReply, view, requests
<1>6. ASSUME NEW m \in Message \cup Key, New(m) \/ StartReply(m) \/ React(m) \/ Delete(m)
      PROVE  KeyInv'
  BY <1>6, <1>b DEF New, StartReply, React, Delete, view, composer, requests
<1>7. ASSUME NEW t \in Text, Type(t) \/ \E m \in Key : StartEdit(m, t) PROVE KeyInv'
  BY <1>7, <1>b DEF Type, StartEdit, view, requests
<1>8. CASE Send
  <2>1. PICK k \in IF pending.text = text /\ pending.reply = reply THEN {pending.key}
                   ELSE Key \ KeysOf(used) :
          /\ pending' = [key |-> k, text |-> text, reply |-> reply]
          /\ own' = [op |-> "send", stage |-> "sent", send |-> SendOf(k, text, reply)]
          /\ used' = used \cup {SendOf(k, text, reply)}
    BY <1>8 DEF Send, Post
  <2>2. text # None /\ open' = open
    BY <1>8 DEF Send, Ready, view
  <2> DEFINE s == SendOf(k, text, reply)
  <2>3. s.key = k /\ s.chat = open /\ s.text = text /\ s.reply = reply
    BY DEF SendOf
  <2>4. \/ s.key \notin KeysOf(used)
        \/ \A x \in used : x.key = s.key => <<x.chat, x.text, x.reply>> = <<s.chat, s.text, s.reply>>
    BY <2>1, <2>2, <2>3 DEF KeyInv, PendingIsKnown
  <2>5. Waits'
    BY <2>1 DEF Waits
  <2> QED BY <2>1, <2>2, <2>3, <2>4, <2>5, Posted
<1>9. CASE SendEdit
  BY <1>9, NothingPosted DEF SendEdit, view, composer, Waits
<1>10. ASSUME NEW n \in 1..2, SendFiles(n) PROVE KeyInv'
  BY <1>10, NothingPosted DEF SendFiles, SendOf, view, composer, Waits
<1>11. CASE Uploaded
  <2>1. PICK k \in Key \ KeysOf(used) :
          /\ own' = [own EXCEPT !.stage = "sent", !.send = [own.send EXCEPT !.key = k]]
          /\ used' = used \cup {[own.send EXCEPT !.key = k]}
    BY <1>11 DEF Uploaded, Post
  <2>2. own.op = "files" /\ open' = open /\ pending' = pending
    BY <1>11 DEF Uploaded, view, composer
  <2>3. PICK stage, left, key, chat, words, answered, stray :
          own = [op |-> "files", stage |-> stage, left |-> left,
                 send |-> [key |-> key, chat |-> chat, text |-> words, reply |-> answered,
                           strayed |-> stray]]
    BY <2>2, <1>a DEF Waits
  <2> DEFINE s == [own.send EXCEPT !.key = k]
  <2>4. s = [key |-> k, chat |-> chat, text |-> words, reply |-> answered, strayed |-> stray]
    BY <2>3
  <2>5. own' = [op |-> "files", stage |-> "sent", left |-> left, send |-> s]
    BY <2>1, <2>3
  <2>6. Waits'
    BY <2>4, <2>5 DEF Waits
  <2> QED BY <2>1, <2>2, <2>4, <2>6, Posted
<1>12. CASE Serve
  <2>1. PICK stage : own' = [own EXCEPT !.stage = stage]
    BY <1>12 DEF Serve
  <2>2. Waits'
    <3>1. CASE own.op = "send"
      <4>1. PICK old, send : own = [op |-> "send", stage |-> old, send |-> send]
        BY <3>1, <1>a DEF Waits
      <4>2. own' = [op |-> "send", stage |-> stage, send |-> send]
        BY <2>1, <4>1
      <4> QED BY <4>2 DEF Waits
    <3>2. CASE own.op = "files"
      <4>1. PICK old, left, key, chat, words, answered, stray :
              own = [op |-> "files", stage |-> old, left |-> left,
                     send |-> [key |-> key, chat |-> chat, text |-> words, reply |-> answered,
                               strayed |-> stray]]
        BY <3>2, <1>a DEF Waits
      <4>2. own' = [op |-> "files", stage |-> stage, left |-> left,
                    send |-> [key |-> key, chat |-> chat, text |-> words, reply |-> answered,
                              strayed |-> stray]]
        BY <2>1, <4>1
      <4> QED BY <4>2 DEF Waits
    <3> QED BY <1>12, <3>1, <3>2 DEF Serve
  <2> QED BY <1>12, <2>2, NothingPosted DEF Serve, view, composer
<1>13. CASE Sent
  BY <1>13, NothingPosted DEF Sent, NoWait, Waits
<1>14. CASE FileSent
  <2>1. Waits'
    <3>1. CASE own' = NoWait
      BY <3>1 DEF NoWait, Waits
    <3>2. CASE own' # NoWait
      <4>1. PICK stage, left, key, chat, words, answered, stray :
              own = [op |-> "files", stage |-> stage, left |-> left,
                     send |-> [key |-> key, chat |-> chat, text |-> words, reply |-> answered,
                               strayed |-> stray]]
        BY <1>14, <1>a DEF FileSent, Waits
      <4>2. own' = [op |-> "files", stage |-> "upload", left |-> left - 1,
                    send |-> [key |-> key, chat |-> chat, text |-> None, reply |-> answered,
                              strayed |-> stray]]
        BY <1>14, <3>2, <4>1 DEF FileSent
      <4> QED BY <4>2 DEF Waits
    <3> QED BY <3>1, <3>2
  <2> QED BY <1>14, <2>1, NothingPosted DEF FileSent
<1>15. CASE Edited
  BY <1>15, NothingPosted DEF Edited, NoWait, Waits
<1>16. CASE WaitFails
  BY <1>16, NothingPosted DEF WaitFails, view, composer, NoWait, Waits
<1>17. ASSUME NEW d \in side, SideAnswered(d) \/ SideFails(d) PROVE KeyInv'
  BY <1>17, <1>b DEF SideAnswered, SideFails, view, composer
<1>18. CASE UNCHANGED pageVars
  BY <1>18, <1>b DEF pageVars, view, composer, requests
<1> QED
  BY <1>1, <1>2, <1>3, <1>4, <1>5, <1>6, <1>7, <1>8, <1>9, <1>10, <1>11, <1>12, <1>13, <1>14,
     <1>15, <1>16, <1>17, <1>18 DEF PageNext

\* A clientId stands for one message (handleSend, sendFiles and what they do with
\* pendingSend), whatever fails, is retried or is left for another chat.
THEOREM OneMessagePerKey == PageSpec => []KeyIsOneMessage
<1>1. KeyInv => KeyIsOneMessage
  BY DEF KeyInv
<1> QED BY <1>1, KeyInitial, KeyStep, PTL DEF PageSpec

(***************************************************************************)
(* What is on the page belongs to the chat that is open.                   *)
(***************************************************************************)
\* The messages there are, and what a send says about the one it answers.
Have == Message \cup KeysOf(stored)

AtHome(s) ==
  s.reply # None => s.reply \in Have /\ (~s.strayed => HomeOf(s.reply) = s.chat)

StoredOnce == \A r, s \in stored : r.key = s.key => r = s

\* Whatever the page refers to is a message there is.
RefersToMessages ==
  /\ thread \subseteq Have
  /\ reply # None => reply \in Have
  /\ editing # None => editing.msg \in Have
  /\ \A d \in side : d.msg \in Have
  /\ own.op = "edit" => own.msg \in Have
  /\ own.op \in {"send", "files"} =>
       AtHome(own.send) /\ (own.stage = "served" => own.send.key \in Have)
  /\ \A s \in used : AtHome(s)

\* Nothing is replied to while a chat loads, and a load that fails is like one that
\* succeeds but for the header.
ShowsOpen ==
  /\ open # None /\ load = "done" => header = open
  /\ open # None /\ load # "asked" /\ ~strayed =>
       Foreign = {} /\ (reply # None => HomeOf(reply) = open)
  /\ load = "asked" => reply = None

PageInv == StoredOnce /\ RefersToMessages /\ ShowsOpen

LEMMA SameHome ==
  ASSUME stored' = stored
  PROVE  (\A m : HomeOf(m)' = HomeOf(m)) /\ Have' = Have
BY DEF HomeOf, Have, KeysOf

LEMMA TheOne ==
  ASSUME NEW S, NEW m, NEW r \in S, r.key = m, \A x \in S : x.key = m => x = r
  PROVE  (CHOOSE x \in S : x.key = m) = r
OBVIOUS

\* A message keeps its chat when another is stored.
LEMMA HomeStays ==
  ASSUME StoredOnce, NEW s, ~Known(s), stored' = stored \cup {s}
  PROVE  StoredOnce' /\ Have \subseteq Have' /\ \A m \in Have : HomeOf(m)' = HomeOf(m)
<1>1. StoredOnce'
  BY DEF StoredOnce, Known
<1>2. Have \subseteq Have'
  BY DEF Have, KeysOf
<1>3. ASSUME NEW m \in Have PROVE HomeOf(m)' = HomeOf(m)
  <2>1. CASE m \in Message
    BY <2>1 DEF HomeOf
  <2>2. CASE m \notin Message
    <3>1. PICK r \in stored : r.key = m
      BY <2>2 DEF Have, KeysOf
    <3>2. (CHOOSE x \in stored : x.key = m) = r
      BY <3>1, TheOne DEF StoredOnce
    <3>3. (CHOOSE x \in stored' : x.key = m) = r
      <4> DEFINE T == stored'
      <4>1. r \in T /\ r.key = m /\ \A x \in T : x.key = m => x = r
        BY <1>1, <3>1 DEF StoredOnce
      <4> HIDE DEF T
      <4>2. (CHOOSE x \in T : x.key = m) = r
        BY <4>1, TheOne
      <4> QED BY <4>2 DEF T
    <3>4. HomeOf(m)' = (CHOOSE x \in stored' : x.key = m).chat
      BY <2>2, Zenon DEF HomeOf
    <3>5. HomeOf(m) = (CHOOSE x \in stored : x.key = m).chat
      BY <2>2, Zenon DEF HomeOf
    <3> QED BY <3>2, <3>3, <3>4, <3>5
  <2> QED BY <2>1, <2>2
<1> QED BY <1>1, <1>2, <1>3

LEMMA PageInitial == PageInit => PageInv
BY DEF PageInit, PageInv, StoredOnce, RefersToMessages, ShowsOpen, NoWait

\* Nothing is stored: what was at home stays at home.
LEMMA NothingStored ==
  ASSUME PageInv, stored' = stored
  PROVE  /\ StoredOnce' /\ Have' = Have /\ \A m : HomeOf(m)' = HomeOf(m)
         /\ \A s : AtHome(s)' <=> AtHome(s)
<1>1. (\A m : HomeOf(m)' = HomeOf(m)) /\ Have' = Have
  BY SameHome
<1>2. ASSUME NEW s PROVE AtHome(s)' <=> AtHome(s)
  BY <1>1 DEF AtHome
<1> QED BY <1>1, <1>2 DEF PageInv, StoredOnce

\* A message that comes back goes on the page, its own or not.
LEMMA Upserted ==
  ASSUME PageInv, NEW m \in Have, Upsert(m), UNCHANGED <<open, load, loads, header, stored>>,
         RefersToMessages', reply' \in {reply, None}
  PROVE  PageInv'
<1>1. StoredOnce' /\ \A x : HomeOf(x)' = HomeOf(x)
  BY NothingStored
<1>2. ~strayed' => ~strayed /\ HomeOf(m) = open
  BY DEF Upsert
<1>3. thread' = thread \cup {m}
  BY DEF Upsert
<1>4. ShowsOpen'
  BY <1>1, <1>2, <1>3 DEF PageInv, ShowsOpen, Foreign
<1> QED BY <1>1, <1>4 DEF PageInv

\* A step that leaves the page as it is.
LEMMA SamePage ==
  ASSUME PageInv, UNCHANGED <<open, load, header, thread, stored, strayed>>,
         reply' \in {reply, None}, RefersToMessages'
  PROVE  PageInv'
<1>1. StoredOnce' /\ \A x : HomeOf(x)' = HomeOf(x)
  BY NothingStored
<1>2. ShowsOpen'
  BY <1>1 DEF PageInv, ShowsOpen, Foreign
<1> QED BY <1>1, <1>2 DEF PageInv

LEMMA PageStep == KeyInv /\ PageInv /\ [PageNext]_pageVars => PageInv'
<1> SUFFICES ASSUME KeyInv, PageInv, [PageNext]_pageVars PROVE PageInv'
  OBVIOUS
<1>a. Waits /\ StoredOnce /\ RefersToMessages /\ ShowsOpen
  BY DEF KeyInv, PageInv
<1>b. ASSUME stored' = stored
      PROVE  /\ StoredOnce' /\ Have' = Have /\ \A m : HomeOf(m)' = HomeOf(m)
             /\ \A s : AtHome(s)' <=> AtHome(s)
  BY <1>b, NothingStored
<1>c. \A m : m \in Visible => open # None /\ load # "asked" /\ m \in thread
  BY DEF Visible
<1>1. ASSUME NEW c \in Chat, Open(c) PROVE PageInv'
  <2>1. RefersToMessages'
    BY <1>1, <1>a, <1>b DEF Open, requests, RefersToMessages
  <2>2. ShowsOpen'
    BY <1>1 DEF Open, ShowsOpen
  <2> QED BY <1>1, <1>b, <2>1, <2>2 DEF Open, requests, PageInv
<1>2. ASSUME NEW c \in Chat, Loaded(c) PROVE PageInv'
  <2>1. UNCHANGED <<open, composer, requests>> /\ StoredOnce' /\ Have' = Have
    BY <1>2, <1>b DEF Loaded, requests
  <2>2. CASE c = open /\ load = "asked"
    <3>1. load' = "done" /\ header' = open /\ thread' \subseteq InChat(open)
      BY <1>2, <2>2 DEF Loaded
    <3>2. thread' \subseteq Have /\ \A m \in thread' : HomeOf(m) = open
      BY <3>1 DEF InChat, Have
    <3>3. RefersToMessages'
      BY <2>1, <3>2, <1>a, <1>b DEF composer, requests, RefersToMessages
    <3>4. reply' = None
      BY <2>1, <2>2, <1>a DEF composer, ShowsOpen
    <3>5. ShowsOpen'
      BY <2>1, <3>1, <3>2, <3>4, <1>b DEF requests, ShowsOpen, Foreign
    <3> QED BY <2>1, <3>3, <3>5 DEF PageInv
  <2>3. CASE ~(c = open /\ load = "asked")
    <3>1. UNCHANGED <<load, header, thread, strayed>>
      BY <1>2, <2>3 DEF Loaded
    <3>2. RefersToMessages'
      BY <2>1, <3>1, <1>a, <1>b DEF composer, requests, RefersToMessages
    <3> QED BY <2>1, <3>1, <3>2, SamePage DEF composer, requests
  <2> QED BY <2>2, <2>3
<1>3. ASSUME NEW c \in Chat, LoadFails(c) PROVE PageInv'
  <2>1. UNCHANGED <<open, header, thread, composer, requests>> /\ StoredOnce' /\ Have' = Have
    BY <1>3, <1>b DEF LoadFails, requests
  <2>2. RefersToMessages'
    BY <2>1, <1>a, <1>b DEF composer, requests, RefersToMessages
  <2>3. ShowsOpen'
    BY <1>3, <2>1, <1>a, <1>b DEF LoadFails, composer, requests, ShowsOpen, Foreign
  <2> QED BY <2>1, <2>2, <2>3 DEF PageInv
<1>4. ASSUME Leave PROVE PageInv'
  <2>1. RefersToMessages'
    BY <1>4, <1>a, <1>b DEF Leave, RefersToMessages, NoWait
  <2>2. ShowsOpen'
    BY <1>4 DEF Leave, ShowsOpen
  <2> QED BY <1>4, <1>b, <2>1, <2>2 DEF Leave, PageInv
<1>5. CASE ChatUpdated
  <2>1. CASE Leave
    BY <2>1, <1>4
  <2>2. CASE ~Leave
    <3>1. header' = open /\ UNCHANGED <<open, load, thread, composer, requests, strayed>>
      BY <1>5, <2>2 DEF ChatUpdated
    <3>2. RefersToMessages'
      BY <3>1, <1>a, <1>b DEF composer, requests, RefersToMessages
    <3>3. ShowsOpen'
      BY <3>1, <1>a, <1>b DEF composer, requests, ShowsOpen, Foreign
    <3> QED BY <3>1, <3>2, <3>3, <1>b DEF requests, PageInv
  <2> QED BY <2>1, <2>2
<1>6. ASSUME NEW m, New(m) PROVE PageInv'
  <2>1. /\ m \in Have /\ HomeOf(m) = open /\ thread' = thread \cup {m}
        /\ UNCHANGED <<open, load, header, composer, requests, strayed>>
    BY <1>6 DEF New, InChat, Have
  <2>2. RefersToMessages'
    BY <2>1, <1>a, <1>b DEF composer, requests, RefersToMessages
  <2>3. ShowsOpen'
    BY <2>1, <1>a, <1>b DEF composer, requests, ShowsOpen, Foreign
  <2> QED BY <2>1, <2>2, <2>3, <1>b DEF requests, PageInv
<1>7. ASSUME NEW m, StartReply(m) PROVE PageInv'
  <2>1. /\ m \in thread /\ load # "asked" /\ reply' = m /\ editing' = None
        /\ UNCHANGED <<view, text, pending, requests, strayed>>
    BY <1>7, <1>c DEF StartReply
  <2>2. RefersToMessages'
    BY <2>1, <1>a, <1>b DEF view, requests, RefersToMessages
  <2>3. ShowsOpen'
    BY <2>1, <1>a, <1>b DEF view, requests, ShowsOpen, Foreign
  <2> QED BY <2>1, <2>2, <2>3, <1>b DEF requests, PageInv
<1>8. ASSUME NEW t \in Text,
             Type(t) \/ \E m \in Key : StartEdit(m, t)
      PROVE  PageInv'
  <2>1. /\ UNCHANGED view /\ UNCHANGED requests /\ strayed' = strayed
        /\ reply' \in {reply, None}
        /\ editing' # None => editing' = editing \/ editing'.msg \in thread
    BY <1>8, <1>c DEF Type, StartEdit
  <2>2. RefersToMessages'
    BY <2>1, <1>a, <1>b DEF view, requests, RefersToMessages
  <2> QED BY <2>1, <2>2, SamePage DEF view, requests
<1>9. ASSUME NEW m, React(m) \/ Delete(m) PROVE PageInv'
  <2>1. /\ m \in thread /\ \A d \in side' : d \in side \/ d.msg = m
        /\ UNCHANGED <<view, composer, own, used, stored, strayed>>
    BY <1>9, <1>c DEF React, Delete
  <2>2. RefersToMessages'
    BY <2>1, <1>a, <1>b DEF view, composer, RefersToMessages
  <2> QED BY <2>1, <2>2, SamePage DEF view, composer
<1>10. ASSUME NEW k PROVE AtHome(SendOf(k, text, reply)) \/ open = None
  BY <1>a DEF AtHome, SendOf, RefersToMessages, ShowsOpen
<1>11. CASE Send
  <2>1. PICK k : /\ own' = [op |-> "send", stage |-> "sent", send |-> SendOf(k, text, reply)]
                 /\ used' = used \cup {SendOf(k, text, reply)}
    BY <1>11 DEF Send, Post
  <2>2. /\ UNCHANGED <<view, text, editing, reply, side, stored, strayed>> /\ open # None
    BY <1>11 DEF Send, Ready
  <2>3. RefersToMessages'
    BY <2>1, <2>2, <1>10, <1>a, <1>b DEF view, RefersToMessages
  <2> QED BY <2>2, <2>3, SamePage DEF view
<1>12. CASE SendEdit
  <2>1. /\ own' = [op |-> "edit", stage |-> "sent", msg |-> editing.msg] /\ editing # None
        /\ UNCHANGED <<view, composer, side, used, stored, strayed>>
    BY <1>12 DEF SendEdit
  <2>2. RefersToMessages'
    BY <2>1, <1>a, <1>b DEF view, composer, RefersToMessages
  <2> QED BY <2>1, <2>2, SamePage DEF view, composer
<1>13. ASSUME NEW n \in 1..2, SendFiles(n) PROVE PageInv'
  <2>1. /\ own' = [op |-> "files", stage |-> "upload", left |-> n,
                   send |-> SendOf(None, text, reply)] /\ open # None
        /\ UNCHANGED <<view, composer, side, used, stored, strayed>>
    BY <1>13 DEF SendFiles
  <2>2. RefersToMessages'
    BY <2>1, <1>10, <1>a, <1>b DEF view, composer, RefersToMessages
  <2> QED BY <2>1, <2>2, SamePage DEF view, composer
<1>14. CASE Uploaded
  <2>1. PICK k : /\ own' = [own EXCEPT !.stage = "sent", !.send = [own.send EXCEPT !.key = k]]
                 /\ used' = used \cup {[own.send EXCEPT !.key = k]}
    BY <1>14 DEF Uploaded, Post
  <2>2. own.op = "files" /\ UNCHANGED <<view, composer, side, stored, strayed>>
    BY <1>14 DEF Uploaded
  <2>3. PICK stage, left, key, chat, words, answered, stray :
          own = [op |-> "files", stage |-> stage, left |-> left,
                 send |-> [key |-> key, chat |-> chat, text |-> words, reply |-> answered,
                           strayed |-> stray]]
    BY <2>2, <1>a DEF Waits
  <2> DEFINE s == [own.send EXCEPT !.key = k]
  <2>4. s = [key |-> k, chat |-> chat, text |-> words, reply |-> answered, strayed |-> stray]
    BY <2>3
  <2>5. own' = [op |-> "files", stage |-> "sent", left |-> left, send |-> s]
    BY <2>1, <2>3
  <2>6. AtHome(own.send)
    BY <2>2, <1>a DEF RefersToMessages
  <2>7. AtHome(s)
    BY <2>3, <2>4, <2>6 DEF AtHome
  <2>8. used' = used \cup {s}
    BY <2>1
  <2> HIDE DEF s
  <2>10. own'.op = "files" /\ own'.stage = "sent" /\ own'.send = s
    BY <2>5
  <2>9. RefersToMessages'
    BY <2>2, <2>7, <2>8, <2>10, <1>a, <1>b DEF view, composer, RefersToMessages
  <2> QED BY <2>2, <2>9, SamePage DEF view, composer
<1>15. CASE Serve
  <2> DEFINE stage == IF Refuses(own.send) THEN "refused" ELSE "served"
  <2>1. /\ own.op \in {"send", "files"} /\ own' = [own EXCEPT !.stage = stage]
        /\ stored' = IF Refuses(own.send) \/ Known(own.send) THEN stored
                     ELSE stored \cup {own.send}
        /\ UNCHANGED <<view, composer, side, used, strayed>>
    BY <1>15 DEF Serve
  <2>2. own'.op = own.op /\ own'.send = own.send /\ own'.stage = stage
    <3>1. CASE own.op = "send"
      <4>1. PICK old, send : own = [op |-> "send", stage |-> old, send |-> send]
        BY <3>1, <1>a DEF Waits
      <4> QED BY <2>1, <4>1
    <3>2. CASE own.op = "files"
      <4>1. PICK old, left, send : own = [op |-> "files", stage |-> old, left |-> left, send |-> send]
        BY <3>2, <1>a DEF Waits
      <4> QED BY <2>1, <4>1
    <3> QED BY <2>1, <3>1, <3>2
  <2>3. CASE stored' = stored
    <3>1. own'.stage = "served" => own.send.key \in Have
      BY <2>1, <2>2, <2>3 DEF Known, Have, KeysOf
    <3>2. RefersToMessages'
      BY <2>1, <2>2, <2>3, <3>1, <1>a, <1>b DEF view, composer, RefersToMessages
    <3> QED BY <2>1, <2>3, <3>2, SamePage DEF view, composer
  <2>4. CASE stored' = stored \cup {own.send} /\ ~Known(own.send)
    <3>1. StoredOnce' /\ Have \subseteq Have' /\ \A m \in Have : HomeOf(m)' = HomeOf(m)
      BY <2>4, <1>a, HomeStays
    <3>2. ASSUME NEW s, AtHome(s) PROVE AtHome(s)'
      BY <3>1, <3>2 DEF AtHome
    <3>3. own.send.key \in Have'
      BY <2>4 DEF Have, KeysOf
    <3>4. RefersToMessages'
      BY <2>1, <2>2, <3>1, <3>2, <3>3, <1>a DEF view, composer, RefersToMessages
    <3>5. Foreign' = Foreign
      BY <2>1, <3>1, <1>a DEF view, Foreign, RefersToMessages
    <3>6. ShowsOpen'
      BY <2>1, <3>1, <3>5, <1>a DEF view, composer, ShowsOpen, RefersToMessages
    <3> QED BY <3>1, <3>4, <3>6 DEF PageInv
  <2> QED BY <2>1, <2>3, <2>4
<1>16. ASSUME NEW m \in Have, Upsert(m),
              UNCHANGED <<open, load, loads, header, used, stored>>, reply' \in {reply, None},
              \/ own' = own
              \/ own' = NoWait
              \/ own'.op = "files" /\ own'.stage = "upload" /\ AtHome(own'.send),
              editing' \in {editing, None}, side' \subseteq side
       PROVE  PageInv'
  <2>1. thread' = thread \cup {m}
    BY <1>16 DEF Upsert
  <2>2. RefersToMessages'
    BY <1>16, <2>1, <1>a, <1>b DEF RefersToMessages, NoWait
  <2> QED BY <1>16, <2>2, Upserted
<1>17. CASE Sent
  <2>1. own.send.key \in Have
    BY <1>17, <1>a DEF Sent, RefersToMessages
  <2> QED BY <1>16, <1>17, <2>1 DEF Sent
<1>18. CASE FileSent
  <2>1. own.send.key \in Have /\ AtHome(own.send)
    BY <1>18, <1>a DEF FileSent, RefersToMessages
  <2>2. own' = NoWait \/ (own'.op = "files" /\ own'.stage = "upload" /\ AtHome(own'.send))
    <3>1. PICK stage, left, key, chat, words, answered, stray :
            own = [op |-> "files", stage |-> stage, left |-> left,
                   send |-> [key |-> key, chat |-> chat, text |-> words, reply |-> answered,
                             strayed |-> stray]]
      BY <1>18, <1>a DEF FileSent, Waits
    <3>2. CASE own' # NoWait
      <4> DEFINE s == [key |-> key, chat |-> chat, text |-> None, reply |-> answered,
                       strayed |-> stray]
      <4>1. own' = [op |-> "files", stage |-> "upload", left |-> left - 1, send |-> s]
        BY <1>18, <3>1, <3>2 DEF FileSent
      <4>2. AtHome(s)
        BY <2>1, <3>1 DEF AtHome
      <4>3. own'.op = "files" /\ own'.stage = "upload" /\ own'.send = s
        BY <4>1
      <4> HIDE DEF s
      <4> QED BY <4>2, <4>3
    <3> QED BY <3>2
  <2> QED BY <1>16, <1>18, <2>1, <2>2 DEF FileSent
<1>19. CASE Edited
  <2>1. own.msg \in Have
    BY <1>19, <1>a DEF Edited, RefersToMessages
  <2> QED BY <1>16, <1>19, <2>1 DEF Edited
<1>20. CASE WaitFails
  <2>1. own' = NoWait /\ UNCHANGED <<view, composer, side, used, stored, strayed>>
    BY <1>20 DEF WaitFails
  <2>2. RefersToMessages'
    BY <2>1, <1>a, <1>b DEF view, composer, RefersToMessages, NoWait
  <2> QED BY <2>1, <2>2, SamePage DEF view, composer
<1>21. ASSUME NEW d \in side, SideAnswered(d) PROVE PageInv'
  <2>1. d.msg \in Have
    BY <1>a DEF RefersToMessages
  <2> QED BY <1>16, <1>21, <2>1 DEF SideAnswered
<1>22. ASSUME NEW d \in side, SideFails(d) PROVE PageInv'
  <2>1. side' \subseteq side /\ UNCHANGED <<view, composer, own, used, stored, strayed>>
    BY <1>22 DEF SideFails
  <2>2. RefersToMessages'
    BY <2>1, <1>a, <1>b DEF view, composer, RefersToMessages
  <2> QED BY <2>1, <2>2, SamePage DEF view, composer
<1>23. CASE UNCHANGED pageVars
  <2>1. UNCHANGED <<view, composer, requests, strayed>>
    BY <1>23 DEF pageVars
  <2>2. RefersToMessages'
    BY <2>1, <1>a, <1>b DEF view, composer, requests, RefersToMessages
  <2> QED BY <2>1, <2>2, SamePage DEF view, composer, requests
<1>24. CASE CancelEdit \/ CancelReply
  <2>1. /\ UNCHANGED view /\ UNCHANGED requests /\ strayed' = strayed
        /\ reply' \in {reply, None} /\ editing' \in {editing, None}
    BY <1>24 DEF CancelEdit, CancelReply
  <2>2. RefersToMessages'
    BY <2>1, <1>a, <1>b DEF view, requests, RefersToMessages
  <2> QED BY <2>1, <2>2, SamePage DEF view, requests
<1> QED
  BY <1>1, <1>2, <1>3, <1>5, <1>4, <1>6, <1>7, <1>8, <1>9, <1>11, <1>12, <1>13, <1>14, <1>15,
     <1>17, <1>18, <1>19, <1>20, <1>21, <1>22, <1>23, <1>24 DEF PageNext

\* The page of a chat shows this chat and replies in it (the load's cancelled flag, the
\* room filter of the events, what opening another chat starts over), whatever one opens
\* and sends meanwhile - but for what did come from a request made in another chat.
THEOREM PageShowsItsChat == PageSpec => []PageIsOneChat
<1>1. PageInv => PageIsOneChat
  BY DEF PageInv, ShowsOpen, RefersToMessages, AtHome, PageIsOneChat
<1> QED BY <1>1, KeyInitial, KeyStep, PageInitial, PageStep, PTL DEF PageSpec

(***************************************************************************)
(* Membership, for any number of people, sockets and handlers at work: the *)
(* invariant says, of every socket whose join and sweep did not overlap or *)
(* fail, what still has to happen before room and participants agree.      *)
(***************************************************************************)
\* Which steps belong to which request, and to which kind of chat.
StepFits ==
  \A j \in Job :
    /\ step[j] = "count" => job[j].op = "add"
    /\ step[j] \in {"fetch", "move"} => job[j].op \in {"open", "add", "remove", "leave"}
    /\ step[j] = "reread" => job[j].op \in {"add", "remove", "leave"}
    /\ step[j] = "tell" => job[j].op \in {"add", "remove", "leave", "update", "delete"}
    /\ job[j].op = "open" => kind = "DIRECT"
    /\ job[j].op = "delete" => kind = "GROUP"
    /\ step[j] = "idle" \/ job[j].op = "delete" => found[j] = Empty

\* A chat that was deleted was a group, and has no participants, not even former ones.
DeadIsEmpty ==
  ~alive => kind = "GROUP" /\ \A u \in User : seat[u] = Away

\* Unless its sockets are torn, who is coming is in the chat, and who is going is not.
SidesAgree ==
  \A k \in Socket \ torn :
    /\ IsComing(Owner[k]) => Active(Owner[k])
    /\ IsGoing(Owner[k]) => ~Active(Owner[k])
    /\ link[k] = "yes" => Active(Owner[k])

\* What a handler is about to move are connected sockets of the people it is about.
MovesItsOwn ==
  \A j \in Job : step[j] = "move" =>
    \A k \in found[j].socks : link[k] # "off" /\ Owner[k] \in Of(j)

\* A socket of a member, at rest and outside the room, is about to be moved in.
WillBeIn ==
  \A k \in Socket \ torn :
    link[k] = "on" /\ Active(Owner[k]) /\ k \notin inRoom =>
      \E j \in Job : /\ Coming(j) /\ Owner[k] \in Of(j)
                     /\ step[j] = "move" => k \in found[j].socks

\* A socket in the room whose user is not in the chat is about to be moved out.
WillBeOut ==
  \A k \in inRoom \ torn : ~Active(Owner[k]) =>
    \E j \in Job : /\ Going(j) /\ Owner[k] \in Of(j)
                   /\ step[j] = "move" => k \in found[j].socks

\* The invariant behind RoomIsMembers, and the one behind LeaverIsTold.
RoomInv ==
  /\ MembershipTypeOK /\ StepFits /\ DeadIsEmpty /\ SidesAgree /\ MovesItsOwn
  /\ WillBeIn /\ WillBeOut

\* A page that has followed the chat all the time.
Follows(k) == k \in opened \ deaf

\* Its socket is connected.
FollowsOnline == \A k \in Socket : Follows(k) => link[k] # "off"

\* It is in the room, and if its user is out of the group, a handler is about to say so.
WillBeTold ==
  kind = "GROUP" =>
    \A k \in Socket \ torn : Follows(k) =>
      /\ k \in inRoom
      /\ Active(Owner[k]) \/
           \E j \in Job : /\ Going(j) /\ Owner[k] \in Of(j)
                          /\ step[j] = "reread" => alive
                          /\ step[j] \in {"reread", "tell"}

\* A handler that is past telling has told: no page that follows is left of whom it is
\* about.
WasTold ==
  kind = "GROUP" =>
    \A j \in Job : Going(j) => \A k \in Socket \ torn :
      Follows(k) /\ Owner[k] \in Of(j) =>
        /\ step[j] \in {"reread", "tell"}
        /\ step[j] = "tell" => Owner[k] \notin found[j].roster
        /\ step[j] = "reread" => alive

TellInv == FollowsOnline /\ WillBeTold /\ WasTold
MemInv == RoomInv /\ TellInv


LEMMA OwnerOfSocket == \A k \in Socket : Owner[k] \in User
  BY MembershipAssumption

\* Only the handler at work may come to have, or lose, people to move.
LEMMA OthersGoOn ==
  ASSUME NEW j \in Job, MembershipTypeOK,
         \A i \in Job \ {j} : step'[i] = step[i] /\ job'[i] = job[i]
  PROVE  \A i \in Job \ {j} : /\ Coming(i)' <=> Coming(i)
                              /\ Going(i)' <=> Going(i)
                              /\ Of(i)' = Of(i)
  BY DEF Coming, Going, Of

\* A handler that moves nobody does something that moves nobody.
LEMMA AsideKeeps ==
  ASSUME MemInv, NEW j \in Job, NEW s, NEW b, NEW f,
         step' = [step EXCEPT ![j] = s], job' = [job EXCEPT ![j] = b],
         found' = [found EXCEPT ![j] = f],
         ~Coming(j), ~Going(j), Coming(j)' = FALSE, Going(j)' = FALSE, s # "move",
         UNCHANGED <<kind, alive, seat, link, inRoom, opened, torn, deaf>>,
         MembershipTypeOK', StepFits'
  PROVE  MemInv'
<1> USE DEF MemInv, RoomInv, TellInv
<1>1. \A i \in Job \ {j} : /\ step'[i] = step[i] /\ job'[i] = job[i] /\ found'[i] = found[i]
                           /\ Coming(i)' <=> Coming(i)
                           /\ Going(i)' <=> Going(i)
                           /\ Of(i)' = Of(i)
  BY OthersGoOn DEF MembershipTypeOK
<1>2. \A u : (IsComing(u)' <=> IsComing(u)) /\ (IsGoing(u)' <=> IsGoing(u))
  BY <1>1 DEF IsComing, IsGoing
<1>3. \A u : Active(u)' <=> Active(u)
  BY DEF Active
<1>4. \A k : Follows(k)' <=> Follows(k)
  BY DEF Follows
<1>5. step'[j] # "move"
  BY DEF MembershipTypeOK
<1>6. DeadIsEmpty' /\ FollowsOnline'
  BY <1>4 DEF DeadIsEmpty, FollowsOnline
<1>7. SidesAgree'
  BY <1>2, <1>3 DEF SidesAgree
<1>8. MovesItsOwn'
  BY <1>1, <1>5 DEF MovesItsOwn
<1>9. WillBeIn'
  BY <1>1, <1>3 DEF WillBeIn
<1>10. WillBeOut'
  BY <1>1, <1>3 DEF WillBeOut
<1>11. WillBeTold'
  BY <1>1, <1>3, <1>4 DEF WillBeTold
<1>12. WasTold'
  BY <1>1, <1>4 DEF WasTold
<1> QED BY <1>6, <1>7, <1>8, <1>9, <1>10, <1>11, <1>12

LEMMA AskKeeps ==
  ASSUME MemInv, NEW j \in Job, NEW o \in Op, NEW b \in User, NEW u \in User, Ask(j, o, b, u),
         o = "open" => kind = "DIRECT", o \in {"add", "remove", "update", "delete"} => kind = "GROUP"
  PROVE  MemInv'
<1> DEFINE s == IF o = "add" THEN "count" ELSE "write"
           n == [op |-> o, whom |-> u]
<1>1. /\ step[j] = "idle"
      /\ step' = [step EXCEPT ![j] = s] /\ job' = [job EXCEPT ![j] = n]
      /\ found' = [found EXCEPT ![j] = found[j]]
      /\ UNCHANGED <<kind, alive, seat, link, inRoom, opened, torn, deaf, found, broken>>
  BY DEF Ask, table, sockets, pages, MemInv, RoomInv, MembershipTypeOK
<1>2. n \in [op : Op \cup {"none"}, whom : User \cup {Nobody}] /\ n.op = o /\ n.whom = u
  OBVIOUS
<1>3. s \in {"count", "write"} /\ (s = "count" => o = "add")
  OBVIOUS
<1> HIDE DEF n, s
<1>4. MembershipTypeOK'
  BY <1>1, <1>2, <1>3 DEF MemInv, RoomInv, MembershipTypeOK, Step
<1>5. StepFits'
  BY <1>1, <1>2, <1>3 DEF MemInv, RoomInv, MembershipTypeOK, StepFits
<1>6. ~Coming(j) /\ ~Going(j) /\ Coming(j)' = FALSE /\ Going(j)' = FALSE
  BY <1>1, <1>3 DEF Coming, Going, MemInv, RoomInv, MembershipTypeOK
<1> QED BY <1>1, <1>3, <1>4, <1>5, <1>6, AsideKeeps

\* Who is put into the chat: WriteAdd and WriteOpen.
LEMMA PutInKeeps ==
  ASSUME MemInv, NEW j \in Job, NEW us \in SUBSET User,
         step[j] = "write", job[j].op \in {"open", "add"}, Of(j) = us,
         alive \/ kind = "DIRECT",
         step' = [step EXCEPT ![j] = "fetch"],
         seat' \in [User -> [role : {"NONE", "MEMBER", "ADMIN"}, here : BOOLEAN]],
         \A u \in User : seat'[u] = IF u \in us THEN [role |-> "MEMBER", here |-> TRUE] ELSE seat[u],
         torn' = torn \cup TornByComing(us),
         UNCHANGED <<kind, alive, link, inRoom, opened, job, found, deaf, broken>>
  PROVE  MemInv'
<1> USE DEF MemInv, RoomInv, TellInv
<1>1. \A i \in Job \ {j} : /\ step'[i] = step[i]
                           /\ Coming(i)' <=> Coming(i)
                           /\ Going(i)' <=> Going(i)
  BY OthersGoOn DEF MembershipTypeOK
<1>2. ~Coming(j) /\ ~Going(j) /\ Coming(j)' /\ ~Going(j)' /\ step'[j] = "fetch"
  BY DEF Coming, Going, MembershipTypeOK
<1>3. \A i \in Job : Of(i)' = Of(i)
  BY DEF Of
<1>4. \A u : (IsGoing(u)' <=> IsGoing(u)) /\ (IsComing(u)' <=> IsComing(u) \/ u \in us)
  BY <1>1, <1>2, <1>3 DEF IsComing, IsGoing
<1>5. \A u \in User : Active(u)' <=> Active(u) \/ u \in us
  BY DEF Active, MembershipTypeOK
<1>6. \A k \in Socket : k \notin torn' => k \notin torn /\ (Owner[k] \in us => ~IsGoing(Owner[k]))
  BY DEF TornByComing
<1>7. MembershipTypeOK'
  BY DEF MembershipTypeOK, Step, TornByComing
<1>8. StepFits'
  BY DEF StepFits, MembershipTypeOK
<1>9. DeadIsEmpty' /\ FollowsOnline'
  BY DEF DeadIsEmpty, FollowsOnline, Follows
<1>10. SidesAgree'
  BY <1>4, <1>5, <1>6, OwnerOfSocket DEF SidesAgree
<1>11. MovesItsOwn'
  BY <1>1, <1>2, <1>3 DEF MovesItsOwn
<1>12. WillBeIn'
  BY <1>1, <1>2, <1>3, <1>5, <1>6, OwnerOfSocket DEF WillBeIn
<1>13. WillBeOut'
  BY <1>1, <1>2, <1>3, <1>5, <1>6, OwnerOfSocket DEF WillBeOut, MembershipTypeOK
<1>14. WillBeTold'
  BY <1>1, <1>2, <1>3, <1>5, <1>6, OwnerOfSocket DEF WillBeTold, Follows
<1>15. WasTold'
  BY <1>1, <1>2, <1>3, <1>6 DEF WasTold, Follows
<1> QED BY <1>7, <1>8, <1>9, <1>10, <1>11, <1>12, <1>13, <1>14, <1>15

\* Who is put out of it: WriteLeft.
LEMMA PutOutKeeps ==
  ASSUME MemInv, NEW j \in Job, NEW w \in User,
         step[j] = "write", job[j].op \in {"remove", "leave"}, job[j].whom = w,
         step' = [step EXCEPT ![j] = IF kind = "GROUP" THEN "reread" ELSE "fetch"],
         seat[w].role # "NONE",
         seat' = [seat EXCEPT ![w].here = FALSE],
         torn' = torn \cup TornByGoing({w}),
         UNCHANGED <<kind, alive, link, inRoom, opened, job, found, deaf, broken>>
  PROVE  MemInv'
<1> USE DEF MemInv, RoomInv, TellInv
<1>1. \A i \in Job \ {j} : /\ step'[i] = step[i]
                           /\ Coming(i)' <=> Coming(i)
                           /\ Going(i)' <=> Going(i)
  BY OthersGoOn DEF MembershipTypeOK
<1>2. /\ ~Coming(j) /\ ~Going(j) /\ ~Coming(j)' /\ Going(j)'
      /\ step'[j] = IF kind = "GROUP" THEN "reread" ELSE "fetch"
  BY DEF Coming, Going, MembershipTypeOK
<1>3. Of(j) = {w} /\ \A i \in Job : Of(i)' = Of(i)
  BY DEF Of
<1>4. \A u : (IsComing(u)' <=> IsComing(u)) /\ (IsGoing(u)' <=> IsGoing(u) \/ u = w)
  BY <1>1, <1>2, <1>3 DEF IsComing, IsGoing
<1>5. \A u \in User : Active(u)' <=> Active(u) /\ u # w
  BY DEF Active, MembershipTypeOK
<1>6. \A k \in Socket : k \notin torn' =>
        k \notin torn /\ (Owner[k] = w => ~IsComing(w) /\ link[k] # "yes")
  BY DEF TornByGoing
<1>7. alive
  BY DEF DeadIsEmpty, Away
<1>8. MembershipTypeOK'
  <2>1. seat[w] \in [role : {"NONE", "MEMBER", "ADMIN"}, here : BOOLEAN]
    BY DEF MembershipTypeOK
  <2>2. [seat[w] EXCEPT !.here = FALSE] \in [role : {"NONE", "MEMBER", "ADMIN"}, here : BOOLEAN]
    BY <2>1
  <2> QED BY <2>2 DEF MembershipTypeOK, Step, TornByGoing
<1>9. StepFits'
  BY DEF StepFits, MembershipTypeOK
<1>10. DeadIsEmpty' /\ FollowsOnline'
  BY <1>7 DEF DeadIsEmpty, FollowsOnline, Follows
<1>11. SidesAgree'
  BY <1>4, <1>5, <1>6, OwnerOfSocket DEF SidesAgree
<1>12. MovesItsOwn'
  BY <1>1, <1>2, <1>3 DEF MovesItsOwn
<1>13. WillBeIn'
  BY <1>1, <1>2, <1>3, <1>5, <1>6, OwnerOfSocket DEF WillBeIn
<1>14. WillBeOut'
  BY <1>1, <1>2, <1>3, <1>5, <1>6, OwnerOfSocket DEF WillBeOut, MembershipTypeOK
<1>15. WillBeTold'
  BY <1>1, <1>2, <1>3, <1>5, <1>6, <1>7, OwnerOfSocket DEF WillBeTold, Follows
<1>16. WasTold'
  BY <1>1, <1>2, <1>3, <1>6, <1>7 DEF WasTold, Follows
<1> QED BY <1>8, <1>9, <1>10, <1>11, <1>12, <1>13, <1>14, <1>15, <1>16

\* The chat is deleted for everybody.
LEMMA WriteDeleteKeeps ==
  ASSUME MemInv, NEW j \in Job, WriteDelete(j), alive
  PROVE  MemInv'
<1> USE DEF MemInv, RoomInv, TellInv
<1>1. /\ step[j] = "write" /\ job[j].op = "delete" /\ alive' = FALSE
      /\ step' = [step EXCEPT ![j] = "tell"] /\ seat' = [u \in User |-> Away]
      /\ torn' = torn \cup TornByGoing(User) \cup TornByComing(User)
      /\ UNCHANGED <<kind, link, inRoom, opened, job, found, deaf, broken>>
  BY DEF WriteDelete, Goto, sockets, pages
<1>2. \A i \in Job \ {j} : /\ step'[i] = step[i]
                           /\ Coming(i)' <=> Coming(i)
                           /\ Going(i)' <=> Going(i)
  BY <1>1, OthersGoOn DEF MembershipTypeOK
<1>3. ~Coming(j) /\ ~Going(j) /\ ~Coming(j)' /\ Going(j)' /\ step'[j] = "tell"
  BY <1>1 DEF Coming, Going, MembershipTypeOK
<1>4. Of(j) = User /\ (\A i \in Job : Of(i)' = Of(i)) /\ found[j] = Empty
  BY <1>1 DEF Of, StepFits
<1>5. \A u : IsComing(u)' <=> IsComing(u)
  BY <1>2, <1>3, <1>4 DEF IsComing
<1>6. \A u \in User : ~Active(u)'
  BY <1>1 DEF Active, Away
<1>7. \A k \in Socket : k \notin torn' =>
        k \notin torn /\ ~IsComing(Owner[k]) /\ ~IsGoing(Owner[k]) /\ link[k] # "yes"
  BY <1>1, OwnerOfSocket DEF TornByGoing, TornByComing
<1>8. \A k \in Socket : \A i \in Job : k \notin torn' /\ Going(i) => Owner[k] \notin Of(i)
  BY <1>7 DEF IsGoing
<1>9. MembershipTypeOK'
  BY <1>1 DEF MembershipTypeOK, Step, TornByGoing, TornByComing, Away
<1>10. StepFits'
  BY <1>1 DEF StepFits, MembershipTypeOK
<1>11. DeadIsEmpty' /\ FollowsOnline'
  BY <1>1 DEF DeadIsEmpty, FollowsOnline, Follows, StepFits
<1>12. SidesAgree'
  BY <1>1, <1>5, <1>6, <1>7, OwnerOfSocket DEF SidesAgree
<1>13. MovesItsOwn'
  BY <1>1, <1>2, <1>3, <1>4 DEF MovesItsOwn
<1>14. WillBeIn'
  BY <1>6, OwnerOfSocket DEF WillBeIn
<1>15. WillBeOut'
  BY <1>1, <1>3, <1>4, OwnerOfSocket DEF WillBeOut, MembershipTypeOK
<1>16. WillBeTold'
  BY <1>1, <1>3, <1>4, <1>7, OwnerOfSocket DEF WillBeTold, Follows
<1>17. WasTold'
  BY <1>1, <1>2, <1>3, <1>4, <1>8 DEF WasTold, Follows, Empty
<1> QED BY <1>9, <1>10, <1>11, <1>12, <1>13, <1>14, <1>15, <1>16, <1>17

\* A handler that is putting people out goes on: it reads the roster, or the chat is
\* gone and there is nothing to read.
LEMMA RereadGoingKeeps ==
  ASSUME MemInv, NEW j \in Job, Reread(j), job[j].op # "add"
  PROVE  MemInv'
<1> USE DEF MemInv, RoomInv, TellInv
<1> DEFINE s == IF alive THEN "tell" ELSE "fetch"
           f == IF alive THEN [Empty EXCEPT !.roster = Members] ELSE found[j]
<1>1. /\ step[j] = "reread" /\ job[j].op \in {"remove", "leave"}
      /\ step' = [step EXCEPT ![j] = s] /\ found' = [found EXCEPT ![j] = f]
      /\ UNCHANGED <<kind, alive, seat, link, inRoom, opened, job, torn, deaf, broken>>
  BY DEF Reread, Goto, With, AfterTell, table, sockets, pages, StepFits, MembershipTypeOK
<1>2. f \in [socks : SUBSET Socket, roster : SUBSET User] /\ (alive => f.roster = Members)
  BY DEF MembershipTypeOK, Empty, Members
<1>3. s \in {"tell", "fetch"} /\ (s = "tell" <=> alive)
  OBVIOUS
<1> HIDE DEF s, f
<1>4. \A i \in Job \ {j} : /\ step'[i] = step[i] /\ found'[i] = found[i]
                           /\ Coming(i)' <=> Coming(i)
                           /\ Going(i)' <=> Going(i)
  BY <1>1, OthersGoOn DEF MembershipTypeOK
<1>5. /\ ~Coming(j) /\ Going(j) /\ ~Coming(j)' /\ Going(j)'
      /\ step'[j] = s /\ found'[j] = f
  BY <1>1, <1>3 DEF Coming, Going, MembershipTypeOK
<1>6. \A i \in Job : Of(i)' = Of(i)
  BY <1>1 DEF Of
<1>7. \A u : (IsComing(u)' <=> IsComing(u)) /\ (IsGoing(u)' <=> IsGoing(u))
  BY <1>4, <1>5, <1>6 DEF IsComing, IsGoing
<1>8. \A u : Active(u)' <=> Active(u)
  BY <1>1 DEF Active
<1>9. \A k \in Socket \ torn : Owner[k] \in Of(j) => ~Active(Owner[k]) /\ Owner[k] \notin Members
  BY <1>5 DEF SidesAgree, IsGoing, Members
<1>10. MembershipTypeOK'
  BY <1>1, <1>2, <1>3 DEF MembershipTypeOK, Step
<1>11. StepFits'
  BY <1>1, <1>3 DEF StepFits, MembershipTypeOK
<1>12. DeadIsEmpty' /\ FollowsOnline'
  BY <1>1 DEF DeadIsEmpty, FollowsOnline, Follows
<1>13. SidesAgree'
  BY <1>1, <1>7, <1>8 DEF SidesAgree
<1>14. MovesItsOwn'
  BY <1>1, <1>3, <1>4, <1>5, <1>6 DEF MovesItsOwn
<1>15. WillBeIn'
  BY <1>1, <1>4, <1>5, <1>6, <1>8 DEF WillBeIn
<1>16. WillBeOut'
  BY <1>1, <1>3, <1>4, <1>5, <1>6, <1>8 DEF WillBeOut
<1>17. WillBeTold'
  BY <1>1, <1>3, <1>4, <1>5, <1>6, <1>8 DEF WillBeTold, Follows
<1>18. WasTold'
  BY <1>1, <1>2, <1>3, <1>4, <1>5, <1>6, <1>9 DEF WasTold, Follows
<1> QED BY <1>10, <1>11, <1>12, <1>13, <1>14, <1>15, <1>16, <1>17, <1>18

\* The roster goes to the room.
LEMMA TellKeeps ==
  ASSUME MemInv, NEW j \in Job, Tell(j)
  PROVE  MemInv'
<1> USE DEF MemInv, RoomInv, TellInv
<1> DEFINE closed == {k \in inRoom : Owner[k] \notin found[j].roster}
           s == AfterTell(j)
           b == IF s = "idle" THEN Idle ELSE job[j]
           f == IF s = "idle" THEN Empty ELSE found[j]
<1>1. /\ step[j] = "tell" /\ job[j].op \in {"add", "remove", "leave", "update", "delete"}
      /\ opened' = opened \ closed /\ deaf' = deaf \ closed
      /\ inRoom' = IF job[j].op = "delete" THEN {} ELSE inRoom
      /\ step' = [step EXCEPT ![j] = s] /\ job' = [job EXCEPT ![j] = b]
      /\ found' = [found EXCEPT ![j] = f]
      /\ UNCHANGED <<kind, alive, seat, link, torn, broken>>
  BY DEF Tell, Goto, table, StepFits, MembershipTypeOK
<1>2. /\ f \in [socks : SUBSET Socket, roster : SUBSET User]
      /\ b \in [op : Op \cup {"none"}, whom : User \cup {Nobody}]
      /\ s = "idle" => f = Empty /\ b.op = "none"
      /\ s # "idle" => b = job[j] /\ s = "fetch" /\ job[j].op \in {"remove", "leave"}
      /\ job[j].op \in {"remove", "leave"} => s = "fetch"
      /\ s \in {"idle", "fetch"}
  BY DEF MembershipTypeOK, Empty, Idle, AfterTell
<1>3. closed \subseteq inRoom /\ \A k \in inRoom : k \in closed <=> Owner[k] \notin found[j].roster
  OBVIOUS
<1> HIDE DEF s, b, f, closed
<1>4. \A i \in Job \ {j} : /\ step'[i] = step[i] /\ found'[i] = found[i] /\ Of(i)' = Of(i)
                           /\ Coming(i)' <=> Coming(i)
                           /\ Going(i)' <=> Going(i)
  BY <1>1, OthersGoOn DEF MembershipTypeOK
<1>5. /\ step'[j] = s /\ found'[j] = f /\ ~Coming(j) /\ ~Coming(j)'
      /\ Going(j)' <=> job[j].op \in {"remove", "leave"}
      /\ Going(j) <=> job[j].op \in {"remove", "leave", "delete"}
      /\ job[j].op \in {"remove", "leave"} => Of(j)' = Of(j)
  BY <1>1, <1>2 DEF Coming, Going, MembershipTypeOK, Of
<1>6. \A u : IsComing(u)' <=> IsComing(u)
  BY <1>4, <1>5 DEF IsComing
<1>7. \A u : IsGoing(u)' => IsGoing(u)
  BY <1>4, <1>5 DEF IsGoing
<1>8. \A u : Active(u)' <=> Active(u)
  BY <1>1 DEF Active
<1>9. \A k \in Socket : Follows(k)' <=> Follows(k) /\ k \notin closed
  BY <1>1 DEF Follows
<1>10. job[j].op = "delete" => \A k \in Socket : Owner[k] \in Of(j) /\ Owner[k] \notin found[j].roster
  BY OwnerOfSocket DEF StepFits, Of, Empty
<1>11. job[j].op = "delete" => \A k \in Socket \ torn : ~Active(Owner[k])
  BY <1>5, <1>10 DEF SidesAgree, IsGoing
<1>12. MembershipTypeOK'
  BY <1>1, <1>2 DEF MembershipTypeOK, Step
<1>13. StepFits'
  BY <1>1, <1>2 DEF StepFits, MembershipTypeOK, Idle
<1>14. DeadIsEmpty' /\ FollowsOnline'
  BY <1>1, <1>9 DEF DeadIsEmpty, FollowsOnline
<1>15. SidesAgree'
  BY <1>1, <1>6, <1>7, <1>8 DEF SidesAgree
<1>16. MovesItsOwn'
  BY <1>1, <1>2, <1>4, <1>5 DEF MovesItsOwn
<1>17. WillBeIn'
  BY <1>1, <1>4, <1>5, <1>8, <1>11 DEF WillBeIn
<1>18. WillBeOut'
  BY <1>1, <1>2, <1>4, <1>5, <1>8 DEF WillBeOut
<1>19. WasTold'
  <2> SUFFICES ASSUME kind = "GROUP", NEW i \in Job, Going(i)', NEW k \in Socket \ torn,
                      Follows(k)', Owner[k] \in Of(i)'
               PROVE  /\ step'[i] \in {"reread", "tell"}
                      /\ step'[i] = "tell" => Owner[k] \notin found'[i].roster
                      /\ step'[i] = "reread" => alive
    BY <1>1 DEF WasTold
  <2>1. Follows(k) /\ k \notin closed /\ k \in inRoom
    BY <1>9 DEF WillBeTold
  <2>2. i # j
    BY <1>1, <1>3, <1>5, <2>1 DEF WasTold
  <2> QED BY <1>4, <2>1, <2>2 DEF WasTold
<1>20. WillBeTold'
  <2> SUFFICES ASSUME kind = "GROUP", NEW k \in Socket \ torn, Follows(k)'
               PROVE  /\ k \in inRoom'
                      /\ Active(Owner[k]) \/
                           \E i \in Job : /\ Going(i)' /\ Owner[k] \in Of(i)'
                                          /\ step'[i] = "reread" => alive
                                          /\ step'[i] \in {"reread", "tell"}
    BY <1>1, <1>8 DEF WillBeTold
  <2>1. Follows(k) /\ k \notin closed /\ k \in inRoom
    BY <1>9 DEF WillBeTold
  <2>2. ~(Going(j) /\ Owner[k] \in Of(j))
    BY <1>1, <1>3, <2>1 DEF WasTold
  <2>3. k \in inRoom'
    BY <1>1, <1>5, <1>10, <2>1, <2>2
  <2> QED BY <1>4, <2>1, <2>2, <2>3 DEF WillBeTold
<1> QED BY <1>12, <1>13, <1>14, <1>15, <1>16, <1>17, <1>18, <1>19, <1>20

\* A handler asks for the sockets of the people it is about.
LEMMA FetchKeeps ==
  ASSUME MemInv, NEW j \in Job, Fetch(j)
  PROVE  MemInv'
<1> USE DEF MemInv, RoomInv, TellInv
<1> DEFINE f == [Empty EXCEPT !.socks = {k \in Socket : link[k] # "off" /\ Owner[k] \in Of(j)}]
<1>1. /\ step[j] = "fetch" /\ job[j].op \in {"open", "add", "remove", "leave"}
      /\ step' = [step EXCEPT ![j] = "move"] /\ found' = [found EXCEPT ![j] = f]
      /\ UNCHANGED <<kind, alive, seat, link, inRoom, opened, job, torn, deaf, broken>>
  BY DEF Fetch, With, table, sockets, pages, StepFits, MembershipTypeOK
<1>2. /\ f \in [socks : SUBSET Socket, roster : SUBSET User]
      /\ \A k : k \in f.socks <=> k \in Socket /\ link[k] # "off" /\ Owner[k] \in Of(j)
  BY DEF Empty
<1> HIDE DEF f
<1>3. \A i \in Job \ {j} : /\ step'[i] = step[i] /\ found'[i] = found[i]
                           /\ Coming(i)' <=> Coming(i)
                           /\ Going(i)' <=> Going(i)
  BY <1>1, OthersGoOn DEF MembershipTypeOK
<1>4. /\ step'[j] = "move" /\ found'[j] = f
      /\ Coming(j)' <=> Coming(j)
      /\ Going(j)' <=> Going(j)
  BY <1>1 DEF Coming, Going, MembershipTypeOK
<1>5. \A i \in Job : Of(i)' = Of(i)
  BY <1>1 DEF Of
<1>6. \A u : (IsComing(u)' <=> IsComing(u)) /\ (IsGoing(u)' <=> IsGoing(u))
  BY <1>3, <1>4, <1>5 DEF IsComing, IsGoing
<1>7. \A u : Active(u)' <=> Active(u)
  BY <1>1 DEF Active
<1>8. MembershipTypeOK'
  BY <1>1, <1>2 DEF MembershipTypeOK, Step
<1>9. StepFits'
  BY <1>1 DEF StepFits, MembershipTypeOK
<1>10. DeadIsEmpty' /\ FollowsOnline'
  BY <1>1 DEF DeadIsEmpty, FollowsOnline, Follows
<1>11. SidesAgree'
  BY <1>1, <1>6, <1>7 DEF SidesAgree
<1>12. MovesItsOwn'
  BY <1>1, <1>2, <1>3, <1>4, <1>5 DEF MovesItsOwn
<1>13. WillBeIn'
  BY <1>1, <1>2, <1>3, <1>4, <1>5, <1>7 DEF WillBeIn
<1>14. WillBeOut'
  BY <1>1, <1>2, <1>3, <1>4, <1>5, <1>7 DEF WillBeOut, MembershipTypeOK
<1>15. WillBeTold'
  BY <1>1, <1>3, <1>4, <1>5, <1>7 DEF WillBeTold, Follows
<1>16. WasTold'
  BY <1>1, <1>3, <1>4, <1>5 DEF WasTold, Follows
<1> QED BY <1>8, <1>9, <1>10, <1>11, <1>12, <1>13, <1>14, <1>15, <1>16

\* And moves them.
LEMMA MoveKeeps ==
  ASSUME MemInv, NEW j \in Job, Move(j)
  PROVE  MemInv'
<1> USE DEF MemInv, RoomInv, TellInv
<1> DEFINE s == IF job[j].op = "add" THEN "reread" ELSE "idle"
           b == IF s = "idle" THEN Idle ELSE job[j]
           f == IF s = "idle" THEN Empty ELSE found[j]
<1>1. /\ step[j] = "move" /\ job[j].op \in {"open", "add", "remove", "leave"}
      /\ inRoom' = IF job[j].op \in {"open", "add"} THEN inRoom \cup found[j].socks
                                                    ELSE inRoom \ found[j].socks
      /\ step' = [step EXCEPT ![j] = s] /\ job' = [job EXCEPT ![j] = b]
      /\ found' = [found EXCEPT ![j] = f]
      /\ UNCHANGED <<kind, alive, seat, link, opened, torn, deaf, broken>>
  BY DEF Move, Goto, table, pages, StepFits, MembershipTypeOK
<1>2. /\ f \in [socks : SUBSET Socket, roster : SUBSET User]
      /\ b \in [op : Op \cup {"none"}, whom : User \cup {Nobody}]
      /\ s = "idle" => f = Empty /\ b.op = "none"
      /\ s # "idle" => b = job[j] /\ s = "reread" /\ job[j].op = "add"
      /\ s \in {"idle", "reread"}
  BY DEF MembershipTypeOK, Empty, Idle
<1> HIDE DEF s, b, f
<1>3. \A i \in Job \ {j} : /\ step'[i] = step[i] /\ found'[i] = found[i] /\ Of(i)' = Of(i)
                           /\ Coming(i)' <=> Coming(i)
                           /\ Going(i)' <=> Going(i)
  BY <1>1, OthersGoOn DEF MembershipTypeOK
<1>4. /\ step'[j] = s /\ ~Coming(j)' /\ ~Going(j)'
      /\ Coming(j) <=> job[j].op \in {"open", "add"}
      /\ Going(j) <=> job[j].op \in {"remove", "leave"}
  BY <1>1, <1>2 DEF Coming, Going, MembershipTypeOK
<1>5. /\ \A u : IsComing(u)' => IsComing(u)
      /\ \A u : IsGoing(u)' => IsGoing(u)
  BY <1>3, <1>4 DEF IsComing, IsGoing
<1>6. \A u : Active(u)' <=> Active(u)
  BY <1>1 DEF Active
<1>7. \A k \in found[j].socks : k \in Socket /\ link[k] # "off" /\ Owner[k] \in Of(j)
  BY <1>1 DEF MovesItsOwn, MembershipTypeOK
<1>8. /\ Coming(j) => \A k \in found[j].socks \ torn : Active(Owner[k])
      /\ Going(j) => \A k \in found[j].socks \ torn : ~Active(Owner[k])
  BY <1>7 DEF SidesAgree, IsComing, IsGoing
<1>9. MembershipTypeOK'
  BY <1>1, <1>2, <1>7 DEF MembershipTypeOK, Step
<1>10. StepFits'
  BY <1>1, <1>2 DEF StepFits, MembershipTypeOK, Idle
<1>11. DeadIsEmpty' /\ FollowsOnline'
  BY <1>1 DEF DeadIsEmpty, FollowsOnline, Follows
<1>12. SidesAgree'
  BY <1>1, <1>5, <1>6 DEF SidesAgree
<1>13. MovesItsOwn'
  BY <1>1, <1>2, <1>3, <1>4 DEF MovesItsOwn
<1>14. WillBeIn'
  BY <1>1, <1>3, <1>4, <1>6, <1>8 DEF WillBeIn
<1>15. WillBeOut'
  BY <1>1, <1>3, <1>4, <1>6, <1>8 DEF WillBeOut, MembershipTypeOK
<1>16. WillBeTold'
  <2> SUFFICES ASSUME kind = "GROUP", NEW k \in Socket \ torn, Follows(k)
               PROVE  /\ k \in inRoom'
                      /\ Active(Owner[k]) \/
                           \E i \in Job : /\ Going(i)' /\ Owner[k] \in Of(i)'
                                          /\ step'[i] = "reread" => alive
                                          /\ step'[i] \in {"reread", "tell"}
    BY <1>1, <1>6 DEF WillBeTold, Follows
  <2>1. ~(Going(j) /\ Owner[k] \in Of(j))
    BY <1>1 DEF WasTold
  <2> QED BY <1>1, <1>3, <1>4, <1>7, <2>1 DEF WillBeTold
<1>17. WasTold'
  BY <1>1, <1>3, <1>4 DEF WasTold, Follows
<1> QED BY <1>9, <1>10, <1>11, <1>12, <1>13, <1>14, <1>15, <1>16, <1>17

\* A call rejects, or the server dies, in a handler that has people to move.
LEMMA FailKeeps ==
  ASSUME MemInv, NEW j \in Job, Fail(j), Coming(j) \/ Going(j)
  PROVE  MemInv'
<1> USE DEF MemInv, RoomInv, TellInv
<1>1. /\ step' = [step EXCEPT ![j] = "idle"] /\ job' = [job EXCEPT ![j] = Idle]
      /\ found' = [found EXCEPT ![j] = Empty]
      /\ broken' = broken + 1 /\ broken < Mishaps
      /\ torn' = torn \cup {k \in Socket : Owner[k] \in Of(j)}
      /\ UNCHANGED <<kind, alive, seat, link, inRoom, opened, deaf>>
  BY DEF Fail, Goto, table, sockets, pages
<1>2. \A i \in Job \ {j} : /\ step'[i] = step[i] /\ found'[i] = found[i] /\ Of(i)' = Of(i)
                           /\ Coming(i)' <=> Coming(i)
                           /\ Going(i)' <=> Going(i)
  BY <1>1, OthersGoOn DEF MembershipTypeOK
<1>3. step'[j] = "idle" /\ ~Coming(j)' /\ ~Going(j)'
  BY <1>1 DEF Coming, Going, MembershipTypeOK
<1>4. /\ \A u : IsComing(u)' => IsComing(u)
      /\ \A u : IsGoing(u)' => IsGoing(u)
  BY <1>2, <1>3 DEF IsComing, IsGoing
<1>5. \A u : Active(u)' <=> Active(u)
  BY <1>1 DEF Active
<1>6. \A k \in Socket : k \notin torn' => k \notin torn /\ Owner[k] \notin Of(j)
  BY <1>1
<1>7. MembershipTypeOK'
  BY <1>1, MembershipAssumption DEF MembershipTypeOK, Step, Idle, Empty
<1>8. StepFits'
  BY <1>1 DEF StepFits, MembershipTypeOK, Idle
<1>9. DeadIsEmpty' /\ FollowsOnline'
  BY <1>1 DEF DeadIsEmpty, FollowsOnline, Follows
<1>10. SidesAgree'
  BY <1>1, <1>4, <1>5 DEF SidesAgree
<1>11. MovesItsOwn'
  BY <1>1, <1>2, <1>3 DEF MovesItsOwn
<1>12. WillBeIn'
  BY <1>1, <1>2, <1>5, <1>6 DEF WillBeIn
<1>13. WillBeOut'
  BY <1>1, <1>2, <1>5, <1>6 DEF WillBeOut, MembershipTypeOK
<1>14. WillBeTold'
  BY <1>1, <1>2, <1>5, <1>6 DEF WillBeTold, Follows
<1>15. WasTold'
  BY <1>1, <1>2, <1>3, <1>6 DEF WasTold, Follows
<1> QED BY <1>7, <1>8, <1>9, <1>10, <1>11, <1>12, <1>13, <1>14, <1>15

\* The handlers' steps, one by one.
LEMMA HandleKeeps ==
  ASSUME MemInv, NEW j \in Job, Handle(j)
  PROVE  MemInv'
<1> USE DEF MemInv, RoomInv, TellInv
<1>a. /\ step \in [Job -> Step] /\ job \in [Job -> [op : Op \cup {"none"}, whom : User \cup {Nobody}]]
      /\ found \in [Job -> [socks : SUBSET Socket, roster : SUBSET User]]
      /\ job = [job EXCEPT ![j] = job[j]] /\ found = [found EXCEPT ![j] = found[j]]
      /\ step[j] # "idle" => job[j].op \in Op /\ job[j].whom \in User
  BY DEF MembershipTypeOK
<1>b. /\ Idle \in [op : Op \cup {"none"}, whom : User \cup {Nobody}] /\ Idle.op = "none"
      /\ Empty \in [socks : SUBSET Socket, roster : SUBSET User]
  BY DEF Idle, Empty
\* A handler that has nobody to move ends, having changed nothing but the count of failures.
<1>1. ASSUME Goto(j, "idle"), ~Coming(j), ~Going(j), broken' \in 0..Mishaps,
             UNCHANGED <<kind, alive, seat, link, inRoom, opened, torn, deaf>>
      PROVE  MemInv'
  <2>1. /\ step' = [step EXCEPT ![j] = "idle"] /\ job' = [job EXCEPT ![j] = Idle]
        /\ found' = [found EXCEPT ![j] = Empty]
    BY <1>1 DEF Goto
  <2>2. MembershipTypeOK'
    BY <1>1, <1>b, <2>1 DEF MembershipTypeOK, Step
  <2>3. StepFits'
    BY <1>1, <1>b, <2>1 DEF StepFits, MembershipTypeOK
  <2>4. Coming(j)' = FALSE /\ Going(j)' = FALSE
    BY <1>a, <1>b, <2>1 DEF Coming, Going
  <2> QED BY <1>1, <2>1, <2>2, <2>3, <2>4, AsideKeeps
\* Or goes on, with nobody to move yet.
<1>2. ASSUME NEW s \in Step \ {"idle", "move"}, NEW f \in [socks : SUBSET Socket, roster : SUBSET User],
             step' = [step EXCEPT ![j] = s], found' = [found EXCEPT ![j] = f], step[j] # "idle",
             job[j].op = "delete" => f = Empty,
             ~Coming(j), ~Going(j), Coming(j)' = FALSE, Going(j)' = FALSE,
             s = "count" => job[j].op = "add",
             s = "fetch" => job[j].op \in {"open", "add", "remove", "leave"},
             s = "reread" => job[j].op \in {"add", "remove", "leave"},
             s = "tell" => job[j].op \in {"add", "remove", "leave", "update", "delete"},
             UNCHANGED <<kind, alive, seat, link, inRoom, opened, torn, deaf, job, broken>>
      PROVE  MemInv'
  <2>1. MembershipTypeOK'
    BY <1>2, <1>a DEF MembershipTypeOK
  <2>2. StepFits'
    BY <1>2, <1>a DEF StepFits
  <2> QED BY <1>a, <1>2, <2>1, <2>2, AsideKeeps
<1>3. broken \in 0..Mishaps
  BY DEF MembershipTypeOK
<1>4. CASE CountMembers(j)
  <2>1. ~Coming(j) /\ ~Going(j) /\ job[j].op = "add" /\ step[j] = "count"
    BY <1>4 DEF CountMembers, Coming, Going, StepFits
  <2>2. CASE Goto(j, "idle")
    BY <1>1, <1>3, <1>4, <2>1, <2>2 DEF CountMembers, table, sockets, pages
  <2>3. CASE Goto(j, "write")
    <3>1. Coming(j)' = FALSE /\ Going(j)' = FALSE
      BY <1>a, <2>1, <2>3 DEF Goto, Coming, Going
    <3> QED BY <1>a, <1>2, <1>4, <2>1, <2>3, <3>1 DEF CountMembers, Goto, table, sockets, pages, Step
  <2> QED BY <1>4, <2>2, <2>3 DEF CountMembers
<1>5. CASE WriteAdd(j)
  <2>1. ~Coming(j) /\ ~Going(j) /\ job[j].op = "add" /\ step[j] = "write"
    BY <1>5 DEF WriteAdd, Coming, Going
  <2>2. CASE alive
    <3>1. Of(j) = {job[j].whom} /\ {job[j].whom} \in SUBSET User
      BY <1>a, <2>1 DEF Of
    <3>2. seat' = [seat EXCEPT ![job[j].whom] = [role |-> "MEMBER", here |-> TRUE]]
      BY <1>5, <2>2 DEF WriteAdd
    <3>3. /\ seat' \in [User -> [role : {"NONE", "MEMBER", "ADMIN"}, here : BOOLEAN]]
          /\ \A u \in User : seat'[u] = IF u \in {job[j].whom} THEN [role |-> "MEMBER", here |-> TRUE]
                                                              ELSE seat[u]
      BY <3>2 DEF MembershipTypeOK
    <3> QED
      BY <1>5, <2>1, <2>2, <3>1, <3>3, PutInKeeps DEF WriteAdd, Goto, sockets, pages
  <2>3. CASE ~alive
    BY <1>1, <1>3, <1>5, <2>1, <2>3 DEF WriteAdd, sockets, pages
  <2> QED BY <2>2, <2>3
<1>6. CASE WriteOpen(j)
  <2>1. step[j] = "write" /\ job[j].op = "open" /\ kind = "DIRECT" /\ Of(j) = Pair /\ Pair \in SUBSET User
    BY <1>6, MembershipAssumption DEF WriteOpen, StepFits, Of
  <2>2. /\ seat' \in [User -> [role : {"NONE", "MEMBER", "ADMIN"}, here : BOOLEAN]]
        /\ \A u \in User : seat'[u] = IF u \in Pair THEN [role |-> "MEMBER", here |-> TRUE] ELSE seat[u]
    BY <1>6 DEF WriteOpen, OpenDirectChat, MembershipTypeOK
  <2> QED BY <1>6, <2>1, <2>2, PutInKeeps DEF WriteOpen, Goto, sockets, pages
<1>7. CASE WriteLeft(j)
  <2>1. ~Coming(j) /\ ~Going(j) /\ job[j].op \in {"remove", "leave"} /\ step[j] = "write"
    BY <1>7 DEF WriteLeft, Coming, Going
  <2>2. CASE seat[job[j].whom].role # "NONE"
    BY <1>7, <1>a, <2>1, <2>2, PutOutKeeps DEF WriteLeft, Goto, sockets, pages
  <2>3. CASE seat[job[j].whom].role = "NONE"
    BY <1>1, <1>3, <1>7, <2>1, <2>3 DEF WriteLeft, sockets, pages
  <2> QED BY <2>2, <2>3
<1>8. CASE WriteUpdate(j)
  <2>1. ~Coming(j) /\ ~Going(j) /\ job[j].op = "update" /\ step[j] = "write"
    BY <1>8 DEF WriteUpdate, Coming, Going
  <2>2. CASE ~alive
    BY <1>1, <1>3, <1>8, <2>1, <2>2 DEF WriteUpdate, table, sockets, pages
  <2>3. CASE alive
    <3>1. With(j, "tell", [Empty EXCEPT !.roster = Members])
      BY <1>8, <2>3 DEF WriteUpdate
    <3>2. Coming(j)' = FALSE /\ Going(j)' = FALSE
      BY <1>a, <2>1, <3>1 DEF With, Coming, Going
    <3>3. [Empty EXCEPT !.roster = Members] \in [socks : SUBSET Socket, roster : SUBSET User]
      BY DEF Empty, Members
    <3> QED
      BY <1>2, <1>8, <2>1, <3>1, <3>2, <3>3 DEF WriteUpdate, With, table, sockets, pages, Step
  <2> QED BY <2>2, <2>3
<1>9. CASE WriteDelete(j)
  <2>1. ~Coming(j) /\ ~Going(j)
    BY <1>9 DEF WriteDelete, Coming, Going
  <2>2. CASE ~alive
    BY <1>1, <1>3, <1>9, <2>1, <2>2 DEF WriteDelete, sockets, pages
  <2> QED BY <1>9, <2>2, WriteDeleteKeeps
<1>10. CASE Reread(j)
  <2>1. CASE job[j].op # "add"
    BY <1>10, <2>1, RereadGoingKeeps
  <2>2. CASE job[j].op = "add"
    <3>1. ~Coming(j) /\ ~Going(j) /\ step[j] = "reread"
      BY <1>10, <2>2 DEF Reread, Coming, Going
    <3>2. CASE ~alive
      BY <1>1, <1>3, <1>10, <2>2, <3>1, <3>2 DEF Reread, AfterTell, table, sockets, pages
    <3>3. CASE alive
      <4>1. With(j, "tell", [Empty EXCEPT !.roster = Members])
        BY <1>10, <3>3 DEF Reread
      <4>2. Coming(j)' = FALSE /\ Going(j)' = FALSE
        BY <1>a, <2>2, <4>1 DEF With, Coming, Going
      <4>3. [Empty EXCEPT !.roster = Members] \in [socks : SUBSET Socket, roster : SUBSET User]
        BY DEF Empty, Members
      <4> QED
        BY <1>2, <1>10, <2>2, <3>1, <4>1, <4>2, <4>3 DEF Reread, With, table, sockets, pages, Step
    <3> QED BY <3>2, <3>3
  <2> QED BY <2>1, <2>2
<1>11. CASE Fail(j)
  <2>1. CASE Coming(j) \/ Going(j)
    BY <1>11, <2>1, FailKeeps
  <2>2. CASE ~Coming(j) /\ ~Going(j)
    <3>1. broken' \in 0..Mishaps
      BY <1>3, <1>11, MembershipAssumption DEF Fail
    <3> QED BY <1>1, <1>11, <2>2, <3>1 DEF Fail, table, sockets, pages
  <2> QED BY <2>1, <2>2
<1> QED
  BY <1>4, <1>5, <1>6, <1>7, <1>8, <1>9, <1>10, <1>11, TellKeeps, FetchKeeps, MoveKeeps DEF Handle

\* A socket or a page does something: nobody comes or goes.
LEMMA LiveKeeps ==
  ASSUME MemInv, NEW k \in Socket, Live(k)
  PROVE  MemInv'
<1> USE DEF MemInv, RoomInv, TellInv
<1>1. UNCHANGED <<kind, alive, seat, step, job>>
  BY DEF Live, Connect, JoinChat, IsParticipant, NotAllowed, Join, Disconnect, OpenPage, LeavePage, table
<1>2. \A i \in Job : /\ step'[i] = step[i] /\ Of(i)' = Of(i)
                     /\ Coming(i)' <=> Coming(i)
                     /\ Going(i)' <=> Going(i)
  BY <1>1 DEF Coming, Going, Of
<1>3. \A u : (IsComing(u)' <=> IsComing(u)) /\ (IsGoing(u)' <=> IsGoing(u))
  BY <1>2 DEF IsComing, IsGoing
<1>4. \A u : Active(u)' <=> Active(u)
  BY <1>1 DEF Active
<1>5. DeadIsEmpty'
  BY <1>1 DEF DeadIsEmpty
<1>6. CASE Connect(k)
  <2>1. /\ link[k] = "off" /\ link' = [link EXCEPT ![k] = "ask"] /\ k \notin inRoom
        /\ UNCHANGED <<inRoom, opened, deaf, found, broken>>
        /\ torn' \in {torn \cup {k}, torn \ {k}}
        /\ k \notin torn' => IF Active(Owner[k]) THEN ~IsGoing(Owner[k]) ELSE ~IsComing(Owner[k])
    BY <1>6 DEF Connect, pages, MembershipTypeOK
  <2>2. ~Follows(k) /\ \A x : Follows(x)' <=> Follows(x)
    BY <2>1 DEF FollowsOnline, Follows
  <2>3. \A i \in Job : step[i] = "move" => k \notin found[i].socks
    BY <2>1 DEF MovesItsOwn
  <2>4. MembershipTypeOK' /\ StepFits' /\ FollowsOnline'
    BY <1>1, <2>1, <2>2 DEF MembershipTypeOK, StepFits, FollowsOnline, Links
  <2>5. SidesAgree'
    BY <1>3, <1>4, <2>1 DEF SidesAgree, MembershipTypeOK
  <2>6. MovesItsOwn'
    BY <1>2, <2>1, <2>3 DEF MovesItsOwn, MembershipTypeOK
  <2>7. WillBeIn'
    BY <1>2, <1>4, <2>1 DEF WillBeIn, MembershipTypeOK
  <2>8. WillBeOut'
    BY <1>2, <1>4, <2>1 DEF WillBeOut
  <2>9. WillBeTold' /\ WasTold'
    BY <1>1, <1>2, <1>4, <2>1, <2>2 DEF WillBeTold, WasTold
  <2> QED BY <1>5, <2>4, <2>5, <2>6, <2>7, <2>8, <2>9
<1>7. CASE JoinChat(k) \/ IsParticipant(k) \/ NotAllowed(k) \/ Join(k)
  <2>1. /\ link[k] # "off" /\ link' = [link EXCEPT ![k] = link'[k]] /\ link'[k] \in {"ask", "yes", "on"}
        /\ UNCHANGED <<opened, deaf, found>> /\ broken' \in 0..Mishaps
        /\ torn' \in {torn, torn \cup {k}} /\ inRoom' \in {inRoom, inRoom \cup {k}}
        /\ k \in inRoom' \ inRoom => link[k] = "yes"
        /\ link'[k] = "yes" => Active(Owner[k])
        /\ k \notin torn' /\ link'[k] = "on" => \/ link[k] = "ask" /\ ~Active(Owner[k])
                                                \/ k \in inRoom'
    BY <1>7, MembershipAssumption
    DEF JoinChat, IsParticipant, NotAllowed, Join, pages, MembershipTypeOK
  <2>2. \A x : Follows(x)' <=> Follows(x)
    BY <2>1 DEF Follows
  <2>3. MembershipTypeOK' /\ StepFits' /\ FollowsOnline'
    <3>1. link' \in [Socket -> Links] /\ torn' \in SUBSET Socket
      BY <2>1 DEF MembershipTypeOK, Links
    <3>2. inRoom' \in SUBSET {x \in Socket : link'[x] # "off"}
      BY <2>1 DEF MembershipTypeOK
    <3>3. MembershipTypeOK'
      BY <1>1, <2>1, <3>1, <3>2 DEF MembershipTypeOK
    <3>4. StepFits'
      BY <1>1, <2>1 DEF StepFits
    <3>5. FollowsOnline'
      BY <2>1, <2>2 DEF FollowsOnline, MembershipTypeOK
    <3> QED BY <3>3, <3>4, <3>5
  <2>4. SidesAgree'
    BY <1>3, <1>4, <2>1 DEF SidesAgree, MembershipTypeOK
  <2>5. MovesItsOwn'
    BY <1>2, <2>1 DEF MovesItsOwn, MembershipTypeOK
  <2>6. WillBeIn'
    BY <1>2, <1>4, <2>1 DEF WillBeIn, MembershipTypeOK
  <2>7. WillBeOut'
    BY <1>2, <1>4, <2>1 DEF WillBeOut, SidesAgree
  <2>8. WillBeTold' /\ WasTold'
    BY <1>1, <1>2, <1>4, <2>1, <2>2 DEF WillBeTold, WasTold
  <2> QED BY <1>5, <2>3, <2>4, <2>5, <2>6, <2>7, <2>8
<1>8. CASE Disconnect(k)
  <2>1. /\ link' = [link EXCEPT ![k] = "off"] /\ inRoom' = inRoom \ {k}
        /\ found' = [j \in Job |-> [found[j] EXCEPT !.socks = @ \ {k}]]
        /\ deaf' = deaf \cup (opened \cap {k})
        /\ UNCHANGED <<opened, torn, broken>>
    BY <1>8 DEF Disconnect
  <2>2. \A i \in Job : found'[i].socks = found[i].socks \ {k} /\ found'[i].roster = found[i].roster
    BY <2>1 DEF MembershipTypeOK
  <2>3. found' \in [Job -> [socks : SUBSET Socket, roster : SUBSET User]]
    BY <2>1 DEF MembershipTypeOK
  <2>4. \A x : Follows(x)' <=> Follows(x) /\ x # k
    BY <2>1 DEF Follows
  <2>5. MembershipTypeOK' /\ FollowsOnline'
    BY <1>1, <2>1, <2>3, <2>4 DEF MembershipTypeOK, FollowsOnline, Links
  <2>6. StepFits'
    <3>1. ASSUME NEW i \in Job, found[i] = Empty PROVE found'[i] = Empty
      <4>1. found'[i] = [found[i] EXCEPT !.socks = @ \ {k}]
        BY <2>1
      <4>2. [Empty EXCEPT !.socks = @ \ {k}] = Empty
        BY DEF Empty
      <4> QED BY <3>1, <4>1, <4>2
    <3> QED BY <1>1, <3>1 DEF StepFits
  <2>7. SidesAgree'
    BY <1>3, <1>4, <2>1 DEF SidesAgree, MembershipTypeOK
  <2>8. MovesItsOwn'
    BY <1>2, <2>1, <2>2 DEF MovesItsOwn, MembershipTypeOK
  <2>9. WillBeIn'
    <3> SUFFICES ASSUME NEW x \in Socket \ torn, link'[x] = "on", Active(Owner[x]), x \notin inRoom'
                 PROVE  \E i \in Job : /\ Coming(i)' /\ Owner[x] \in Of(i)'
                                       /\ step'[i] = "move" => x \in found'[i].socks
      BY <1>4, <2>1 DEF WillBeIn
    <3>1. x # k /\ link[x] = "on" /\ x \notin inRoom
      BY <2>1 DEF MembershipTypeOK
    <3> QED BY <1>2, <2>2, <3>1 DEF WillBeIn
  <2>10. WillBeOut'
    BY <1>2, <1>4, <2>1, <2>2 DEF WillBeOut
  <2>11. WillBeTold'
    BY <1>1, <1>2, <1>4, <2>1, <2>4 DEF WillBeTold
  <2>12. WasTold'
    BY <1>1, <1>2, <2>1, <2>2, <2>4 DEF WasTold
  <2> QED BY <1>5, <2>5, <2>6, <2>7, <2>8, <2>9, <2>10, <2>11, <2>12
<1>9. CASE OpenPage(k) \/ LeavePage(k)
  <2>1. /\ UNCHANGED <<link, inRoom, found, torn, broken>>
        /\ opened' \in SUBSET Socket /\ deaf' \in SUBSET Socket
        /\ \A x : Follows(x)' => Follows(x) \/ (x = k /\ k \in inRoom /\ Active(Owner[k]))
    BY <1>9 DEF OpenPage, LeavePage, sockets, Follows, MembershipTypeOK
  <2>2. MembershipTypeOK' /\ StepFits' /\ MovesItsOwn'
    BY <1>1, <1>2, <2>1 DEF MembershipTypeOK, StepFits, MovesItsOwn
  <2>3. SidesAgree'
    BY <1>3, <1>4, <2>1 DEF SidesAgree
  <2>4. WillBeIn' /\ WillBeOut'
    BY <1>2, <1>4, <2>1 DEF WillBeIn, WillBeOut
  <2>5. FollowsOnline'
    BY <2>1 DEF FollowsOnline, MembershipTypeOK
  <2>6. WillBeTold'
    BY <1>1, <1>2, <1>4, <2>1 DEF WillBeTold
  <2>7. WasTold'
    <3>1. \A i \in Job : Going(i) => \A x \in Socket \ torn : Owner[x] \in Of(i) => ~Active(Owner[x])
      BY DEF SidesAgree, IsGoing
    <3> QED BY <1>1, <1>2, <2>1, <3>1 DEF WasTold
  <2> QED BY <1>5, <2>2, <2>3, <2>4, <2>5, <2>6, <2>7
<1> QED BY <1>6, <1>7, <1>8, <1>9 DEF Live

\* At first nothing is under way.
LEMMA InitialMembership ==
  ASSUME NEW g \in {"GROUP", "DIRECT"}, NEW people \in SUBSET User, MembershipInit(g, people)
  PROVE  MemInv
<1>1. /\ kind = g /\ alive = TRUE
      /\ link = [s \in Socket |-> "off"] /\ inRoom = {} /\ opened = {}
      /\ step = [j \in Job |-> "idle"] /\ job = [j \in Job |-> Idle] /\ found = [j \in Job |-> Empty]
      /\ torn = {} /\ deaf = {} /\ broken = 0
  BY DEF MembershipInit
<1>2. seat \in [User -> [role : {"NONE", "MEMBER", "ADMIN"}, here : BOOLEAN]]
  <2>1. CASE g = "GROUP"
    BY <2>1 DEF MembershipInit, CreateGroup, Away
  <2>2. CASE g = "DIRECT"
    <3>1. seat = [u \in User |-> [Away EXCEPT !.role = IF u \in people THEN "MEMBER" ELSE @,
                                             !.here = u \in people]]
      BY <2>2 DEF MembershipInit
    <3>2. \A u \in User : [Away EXCEPT !.role = IF u \in people THEN "MEMBER" ELSE @,
                                      !.here = u \in people]
                           \in [role : {"NONE", "MEMBER", "ADMIN"}, here : BOOLEAN]
      <4> SUFFICES ASSUME NEW u \in User
                   PROVE  [Away EXCEPT !.role = IF u \in people THEN "MEMBER" ELSE @,
                                       !.here = u \in people]
                            \in [role : {"NONE", "MEMBER", "ADMIN"}, here : BOOLEAN]
        OBVIOUS
      <4> DEFINE x == IF u \in people THEN "MEMBER" ELSE "NONE"
                 y == u \in people
      <4>1. x \in {"NONE", "MEMBER"} /\ y \in BOOLEAN
        OBVIOUS
      <4>2. [Away EXCEPT !.role = IF u \in people THEN "MEMBER" ELSE @, !.here = u \in people]
              = [Away EXCEPT !.role = x, !.here = y]
        BY DEF Away
      <4> HIDE DEF x, y
      <4>3. [Away EXCEPT !.role = x, !.here = y]
              \in [role : {"NONE", "MEMBER", "ADMIN"}, here : BOOLEAN]
        BY <4>1 DEF Away
      <4> QED BY <4>2, <4>3
    <3> QED BY <3>1, <3>2
  <2> QED BY <2>1, <2>2
<1>3. MembershipTypeOK /\ StepFits
  BY <1>1, <1>2, MembershipAssumption DEF MembershipTypeOK, StepFits, Step, Links, Idle, Empty
<1>4. \A j \in Job : ~Coming(j) /\ ~Going(j)
  BY <1>1 DEF Coming, Going
<1>5. DeadIsEmpty /\ SidesAgree /\ MovesItsOwn /\ WillBeIn /\ WillBeOut
  BY <1>1, <1>4 DEF DeadIsEmpty, SidesAgree, MovesItsOwn, WillBeIn, WillBeOut, IsComing, IsGoing
<1>6. FollowsOnline /\ WillBeTold /\ WasTold
  BY <1>1 DEF FollowsOnline, WillBeTold, WasTold, Follows
<1> QED BY <1>3, <1>5, <1>6 DEF MemInv, RoomInv, TellInv

LEMMA MembershipStep == MemInv /\ [MembershipNext]_membershipVars => MemInv'
<1> SUFFICES ASSUME MemInv, [MembershipNext]_membershipVars PROVE MemInv'
  OBVIOUS
<1>1. ASSUME NEW j \in Job, NEW b \in User, NEW u \in User,
             FriendsPage(j, b, u) \/ GroupInfoModal(j, b, u) \/ DeleteChat(j, b) \/ ChatItem(j, b)
      PROVE  MemInv'
  BY <1>1, AskKeeps
  DEF FriendsPage, GroupInfoModal, DeleteChat, ChatItem, CreateDirectChat, AddParticipant,
      RemoveParticipant, UpdateChat, LeaveChat, Op
<1>2. CASE UNCHANGED membershipVars
  <2> USE <1>2 DEF membershipVars, MemInv, RoomInv, TellInv
  <2>1. /\ \A i : /\ Coming(i)' <=> Coming(i)
                  /\ Going(i)' <=> Going(i)
                  /\ Of(i)' = Of(i)
        /\ \A u : Active(u)' <=> Active(u)
        /\ \A k : Follows(k)' <=> Follows(k)
    BY DEF Coming, Going, Of, Active, Follows
  <2>2. \A u : (IsComing(u)' <=> IsComing(u)) /\ (IsGoing(u)' <=> IsGoing(u))
    BY <2>1 DEF IsComing, IsGoing
  <2>3. MembershipTypeOK' /\ StepFits' /\ DeadIsEmpty'
    BY DEF MembershipTypeOK, StepFits, DeadIsEmpty
  <2>4. SidesAgree' /\ MovesItsOwn' /\ WillBeIn' /\ WillBeOut'
    BY <2>1, <2>2 DEF SidesAgree, MovesItsOwn, WillBeIn, WillBeOut
  <2>5. FollowsOnline' /\ WillBeTold' /\ WasTold'
    BY <2>1 DEF FollowsOnline, WillBeTold, WasTold
  <2> QED BY <2>3, <2>4, <2>5
<1> QED BY <1>1, <1>2, HandleKeeps, LiveKeeps DEF MembershipNext

LEMMA RoomFollows == MemInv => RoomIsMembers
<1> SUFFICES ASSUME MemInv, NEW k \in Socket, link[k] = "on", k \notin torn,
                    ~IsComing(Owner[k]), ~IsGoing(Owner[k])
             PROVE  k \in inRoom <=> Active(Owner[k])
  BY DEF RoomIsMembers
<1> QED BY DEF MemInv, RoomInv, WillBeIn, WillBeOut, IsComing, IsGoing

LEMMA ToldFollows == MemInv => LeaverIsTold
BY DEF MemInv, RoomInv, TellInv, LeaverIsTold, WillBeTold, Follows, IsGoing, MembershipTypeOK

\* The room of a chat ends up with its members' sockets and no others - in a group or in a
\* direct chat, whoever is in it at first, and whoever adds, removes, leaves, opens, deletes,
\* connects or joins at the same time (websocket/emitter.ts, chats/service.ts).
THEOREM RoomsHoldMembers ==
  ASSUME NEW CONSTANT g \in {"GROUP", "DIRECT"}, NEW CONSTANT people \in SUBSET User
  PROVE  MembershipSpec(g, people) => []RoomIsMembers
<1>1. MembershipInit(g, people) => MemInv
  BY InitialMembership
<1> QED BY <1>1, MembershipStep, RoomFollows, PTL DEF MembershipSpec

\* No page that has followed a group shows it to somebody who is out of it, once the handler
\* that put them out is done: the roster is sent before the room is closed to them
\* (chats/service.ts, removeParticipant and leaveChat).
THEOREM LeaversAreTold ==
  ASSUME NEW CONSTANT g \in {"GROUP", "DIRECT"}, NEW CONSTANT people \in SUBSET User
  PROVE  MembershipSpec(g, people) => []LeaverIsTold
<1>1. MembershipInit(g, people) => MemInv
  BY InitialMembership
<1> QED BY <1>1, MembershipStep, ToldFollows, PTL DEF MembershipSpec

(***************************************************************************)
(* The list of chats.  Its badges lack only the messages that are on their *)
(* way; a chat that is marked read, or on the screen, has no badge, and    *)
(* its last mark covers what it has been told.                             *)
(***************************************************************************)
ListEvent == [op : {"new", "in", "out"}, chat : ChatId, message : Nat]
ListRequest == [read : BOOLEAN, chats : SUBSET ChatId]

\* What each variable holds.
SidebarTypeOK ==
  /\ mine \subseteq ChatId /\ sent \in [ChatId -> Nat]
  /\ gone \in [ChatId -> SUBSET Nat] /\ pointer \in [ChatId -> Nat]
  /\ online \in BOOLEAN /\ events \in Seq(ListEvent) /\ shown \in ChatId \cup {NoChatId}
  /\ marks \in [ChatId -> Nat] /\ latest \in [ChatId -> Seq(Nat)]
  /\ lists \in Seq(ListRequest) /\ chats \subseteq ChatId
  /\ badge \in [ChatId -> Nat] /\ counted \subseteq ChatId
  /\ counts \in [ChatId -> [at : {"none", "asked", "read"}, n : Nat]]
  /\ ahead \subseteq ChatId /\ wrong \subseteq ChatId

\* An event is of a message that was sent, and a message has one.
EventsOnce ==
  /\ \A i \in DOMAIN events : events[i].op = "new" => events[i].message \in 1..sent[events[i].chat]
  /\ \A i, j \in DOMAIN events : events[i].op = "new" /\ events[i] = events[j] => i = j

\* What is visible and not on its way: the browser has heard of it, or never will.
Told(c) == VisibleIn(c) \ OnTheWay(c)

\* The chat on the screen has no badge, nor has one that is being marked.
ShownIsClear(c) == shown = c => badge[c] = 0
MarkedIsClear(c) == c \notin wrong /\ Marking(c) => badge[c] = 0

\* While a chat is on the screen, or its last marks are about to be written, the pointer
\* or one of these covers all it has been told.
Covered(c) ==
  c \notin wrong /\ marks[c] = 0
    /\ (shown = c \/ (latest[c] # <<>> /\ c \in counted /\ counts[c].at = "none"))
    => \A m \in Told(c) : m <= pointer[c] \/ \E i \in DOMAIN latest[c] : m <= latest[c][i]

\* A number that nothing got ahead of lacks only what is on its way.
CountIsRight(c) ==
  counts[c].at = "read" /\ c \notin ahead => counts[c].n = Cardinality(KnownUnread(c))

\* And so does a badge.
BadgeIsRight(c) ==
  c \in counted \ wrong /\ counts[c].at = "none" /\ ~Marking(c)
    => badge[c] = Cardinality(KnownUnread(c))

ListGood(c) ==
  ShownIsClear(c) /\ MarkedIsClear(c) /\ Covered(c) /\ CountIsRight(c) /\ BadgeIsRight(c)

\* The inductive invariant of the list.
ListInv == SidebarTypeOK /\ EventsOnce /\ \A c \in ChatId : ListGood(c)

(***************************************************************************)
(* The queue of events.                                                    *)
(***************************************************************************)
HasEvent(c, m) == \E i \in DOMAIN events : events[i] = NewEvent(c, m)

LEMMA EventSeq ==
  ASSUME NEW q \in Seq(ListEvent)
  PROVE  /\ Len(q) \in Nat /\ DOMAIN q = 1..Len(q)
         /\ \A i \in DOMAIN q : q[i] \in ListEvent
BY LenProperties, ElementOfSeq

LEMMA EventTypes ==
  \A c \in ChatId : /\ \A m \in Nat : NewEvent(c, m) \in ListEvent
                    /\ UpdateEvent("in", c) \in ListEvent /\ UpdateEvent("out", c) \in ListEvent
BY DEF NewEvent, UpdateEvent, ListEvent

LEMMA WayAppend ==
  ASSUME events \in Seq(ListEvent), NEW e \in ListEvent, events' = Append(events, e),
         NEW c, NEW m
  PROVE  HasEvent(c, m)' <=> HasEvent(c, m) \/ e = NewEvent(c, m)
<1>1. Append(events, e) \in Seq(ListEvent) /\ Len(Append(events, e)) = Len(events) + 1
  BY AppendProperties
<1>2. /\ DOMAIN events' = 1..(Len(events) + 1) /\ DOMAIN events = 1..Len(events)
      /\ Len(events) \in Nat
  BY <1>1, EventSeq
<1>3. events'[Len(events) + 1] = e /\ \A i \in 1..Len(events) : events'[i] = events[i]
  BY AppendProperties
<1>4. 1..(Len(events) + 1) = (1..Len(events)) \cup {Len(events) + 1}
  BY <1>2
<1>. QED
  BY <1>2, <1>3, <1>4 DEF HasEvent, NewEvent

LEMMA WayTail ==
  ASSUME events \in Seq(ListEvent), events # <<>>, events' = Tail(events), NEW c, NEW m
  PROVE  HasEvent(c, m) <=> HasEvent(c, m)' \/ Head(events) = NewEvent(c, m)
<1>1. /\ Tail(events) \in Seq(ListEvent) /\ Len(events) \in Nat /\ Len(events) > 0
      /\ Len(Tail(events)) = Len(events) - 1
      /\ \A i \in 1..Len(Tail(events)) : Tail(events)[i] = events[i + 1]
  BY HeadTailProperties, EventSeq, EmptySeq
<1>2. DOMAIN events' = 1..(Len(events) - 1) /\ DOMAIN events = 1..Len(events)
  BY <1>1, EventSeq
<1>3. \A i \in 1..(Len(events) - 1) : i + 1 \in 1..Len(events) /\ events'[i] = events[i + 1]
  BY <1>1
<1>4. \A i \in 1..Len(events) : i = 1 \/ (i - 1 \in 1..(Len(events) - 1) /\ i - 1 + 1 = i)
  BY <1>1
<1>5. 1 \in 1..Len(events) /\ events[1] = Head(events)
  BY <1>1
<1>6. ASSUME HasEvent(c, m) PROVE HasEvent(c, m)' \/ Head(events) = NewEvent(c, m)
  <2>1. PICK i \in 1..Len(events) : events[i] = NewEvent(c, m)
    BY <1>2, <1>6 DEF HasEvent
  <2>2. CASE i = 1
    BY <1>5, <2>1, <2>2
  <2>3. CASE i # 1
    <3>1. i - 1 \in 1..(Len(events) - 1) /\ events'[i - 1] = events[i]
      BY <1>3, <1>4, <2>3
    <3>. QED
      BY <1>2, <2>1, <3>1 DEF HasEvent, NewEvent
  <2>. QED
    BY <2>2, <2>3
<1>7. ASSUME HasEvent(c, m)' PROVE HasEvent(c, m)
  <2>1. PICK i \in 1..(Len(events) - 1) : events'[i] = NewEvent(c, m)
    BY <1>2, <1>7 DEF HasEvent, NewEvent
  <2>. QED
    BY <1>2, <1>3, <2>1 DEF HasEvent
<1>8. Head(events) = NewEvent(c, m) => HasEvent(c, m)
  BY <1>2, <1>5 DEF HasEvent
<1>. QED
  BY <1>6, <1>7, <1>8

\* One of them less.
LEMMA RemoveOne ==
  ASSUME NEW S, NEW q \in Seq(S), NEW i \in DOMAIN q
  PROVE  /\ RemoveAt(q, i) \in Seq(S)
         /\ \A k \in DOMAIN q : k # i => \E n \in DOMAIN RemoveAt(q, i) : RemoveAt(q, i)[n] = q[k]
<1>1. Len(q) \in Nat /\ DOMAIN q = 1..Len(q) /\ \A k \in 1..Len(q) : q[k] \in S
  BY LenProperties, ElementOfSeq
<1>2. i \in Int /\ 1 <= i /\ i <= Len(q)
  BY <1>1
<1>3. \A k \in 1..(i - 1) : q[k] \in S
  BY <1>1, <1>2
<1>4. \A k \in (i + 1)..Len(q) : q[k] \in S
  BY <1>1, <1>2
<1>5. i - 1 \in Int /\ i + 1 \in Int /\ Len(q) \in Int /\ 1 \in Int
  BY <1>1, <1>2
<1> DEFINE L == SubSeq(q, 1, i - 1)
           R == SubSeq(q, i + 1, Len(q))
<1>6. /\ L \in Seq(S) /\ Len(L) = i - 1 /\ \A k \in 1..(i - 1) : L[k] = q[k]
  <2>1. /\ L \in Seq(S)
        /\ Len(L) = (IF 1 <= i - 1 THEN i - 1 - 1 + 1 ELSE 0)
        /\ \A k \in 1..(i - 1 - 1 + 1) : L[k] = q[1 + k - 1]
    BY ONLY <1>3, <1>5, SubSeqProperties
  <2>. QED
    BY <1>2, <2>1
<1>7. /\ R \in Seq(S) /\ Len(R) = Len(q) - i /\ \A k \in 1..(Len(q) - i) : R[k] = q[i + k]
  <2>1. /\ R \in Seq(S)
        /\ Len(R) = (IF i + 1 <= Len(q) THEN Len(q) - (i + 1) + 1 ELSE 0)
        /\ \A k \in 1..(Len(q) - (i + 1) + 1) : R[k] = q[i + 1 + k - 1]
    BY ONLY <1>4, <1>5, SubSeqProperties
  <2>2. Len(R) = Len(q) - i
    BY <1>1, <1>2, <2>1
  <2>3. ASSUME NEW k \in 1..(Len(q) - i) PROVE R[k] = q[i + k]
    <3>1. k \in 1..(Len(q) - (i + 1) + 1) /\ i + 1 + k - 1 = i + k
      BY <1>1, <1>2
    <3>. QED
      BY ONLY <2>1, <3>1
  <2>. QED
    BY <2>1, <2>2, <2>3
<1>8. RemoveAt(q, i) = L \o R
  BY DEF RemoveAt
<1>. HIDE DEF L, R
<1>9. /\ L \o R \in Seq(S) /\ Len(L \o R) = Len(L) + Len(R)
      /\ \A k \in 1..(Len(L) + Len(R)) : (L \o R)[k] = IF k <= Len(L) THEN L[k] ELSE R[k - Len(L)]
  BY <1>6, <1>7, ConcatProperties
<1>10. DOMAIN (L \o R) = 1..(Len(q) - 1)
  <2>1. DOMAIN (L \o R) = 1..Len(L \o R)
    BY ONLY <1>9, LenProperties
  <2>2. Len(L \o R) = Len(q) - 1
    BY <1>1, <1>2, <1>6, <1>7, <1>9
  <2>. QED
    BY <2>1, <2>2
<1>11. ASSUME NEW k \in DOMAIN q, k # i PROVE \E n \in DOMAIN (L \o R) : (L \o R)[n] = q[k]
  <2>1. CASE k < i
    <3>1. k \in 1..(i - 1) /\ k \in 1..(Len(q) - 1)
      BY <1>1, <1>2, <2>1
    <3>2. (L \o R)[k] = q[k]
      BY <1>1, <1>2, <1>6, <1>7, <1>9, <3>1
    <3>. QED
      BY <1>10, <3>1, <3>2
  <2>2. CASE k > i
    <3>1. k - 1 \in 1..(Len(q) - 1) /\ k - i \in 1..(Len(q) - i) /\ k - 1 - (i - 1) = k - i
          /\ i + (k - i) = k /\ ~(k - 1 <= i - 1)
      BY <1>1, <1>2, <2>2
    <3>2. k - 1 \in 1..(Len(L) + Len(R)) /\ Len(L) = i - 1
      BY <1>1, <1>2, <1>6, <1>7, <3>1
    <3>4. (L \o R)[k - 1] = R[k - 1 - (i - 1)]
      BY ONLY <1>9, <3>1, <3>2
    <3>5. (L \o R)[k - 1] = R[k - i]
      BY ONLY <3>1, <3>4
    <3>3. R[k - i] = q[k]
      BY <1>7, <3>1
    <3>. QED
      BY <1>10, <3>1, <3>3, <3>5
  <2>. QED
    BY <1>1, <1>2, <1>11, <2>1, <2>2
<1>. QED
  BY <1>8, <1>9, <1>11

(***************************************************************************)
(* Types.                                                                  *)
(***************************************************************************)
LEMMA UnreadFinite ==
  ASSUME SidebarTypeOK, NEW c \in ChatId
  PROVE  /\ IsFiniteSet(Unread(c)) /\ Cardinality(Unread(c)) \in Nat
         /\ IsFiniteSet(KnownUnread(c)) /\ Cardinality(KnownUnread(c)) \in Nat
         /\ VisibleIn(c) \subseteq 1..sent[c] /\ Unread(c) \subseteq VisibleIn(c)
         /\ KnownUnread(c) \subseteq Unread(c) /\ sent[c] \in Nat
<1>1. sent[c] \in Nat
  BY DEF SidebarTypeOK
<1>2. IsFiniteSet(1..sent[c])
  BY <1>1, FS_Interval
<1>3. VisibleIn(c) \subseteq 1..sent[c] /\ Unread(c) \subseteq VisibleIn(c)
      /\ KnownUnread(c) \subseteq Unread(c)
  BY DEF VisibleIn, Unread, KnownUnread
<1>4. IsFiniteSet(Unread(c)) /\ IsFiniteSet(KnownUnread(c))
  BY <1>2, <1>3, FS_Subset
<1>. QED
  BY <1>1, <1>3, <1>4, FS_CardinalityType

LEMMA ListStarts == ASSUME NEW in \in SUBSET ChatId, ListInit(in), SidebarAssumption PROVE ListInv
<1>1. events = <<>> /\ events \in Seq(ListEvent) /\ <<>> \in Seq(Nat)
  BY DEF ListInit
<1>2. lists \in Seq(ListRequest)
  BY DEF ListInit, Asked, ListRequest
<1>3. SidebarTypeOK
  BY <1>1, <1>2 DEF ListInit, SidebarTypeOK, NoCount
<1>4. \A c \in ChatId : ListGood(c)
  BY SidebarAssumption DEF ListInit, ListGood, ShownIsClear, MarkedIsClear, Covered, CountIsRight,
    BadgeIsRight, NoCount, Marking
<1>5. EventsOnce
  BY <1>1 DEF EventsOnce
<1>. QED
  BY <1>3, <1>4, <1>5 DEF ListInv

\* What the history remembers is of chats.
LEMMA AsideTypes ==
  ASSUME SidebarTypeOK, NEW S \in SUBSET ChatId, Aside(S)
  PROVE  ahead' \subseteq ChatId /\ wrong' \subseteq ChatId
BY DEF SidebarTypeOK, Aside, Ahead, Goes, StaleOf

LEMMA ListTypes == ASSUME ListInv, ListNext PROVE SidebarTypeOK'
<1>0. SidebarTypeOK
  BY DEF ListInv
<1>. USE <1>0
<1>e. events \in Seq(ListEvent)
  BY DEF SidebarTypeOK
<1>1. ASSUME NEW c \in ChatId, NewMessage(c) PROVE SidebarTypeOK'
  <2>1. sent' \in [ChatId -> Nat] /\ sent[c] + 1 \in Nat
    BY <1>1 DEF NewMessage, Arrives, SidebarTypeOK
  <2>2. events' \in Seq(ListEvent)
    BY <1>1, <1>e, <2>1, EventTypes, AppendProperties DEF NewMessage
  <2>. QED
    BY <1>1, <2>1, <2>2 DEF NewMessage, Arrives, SidebarTypeOK, markVars, countVars, history
<1>2. ASSUME NEW c \in ChatId, MissedMessage(c) PROVE SidebarTypeOK'
  <2>1. sent' \in [ChatId -> Nat]
    BY <1>2 DEF MissedMessage, Arrives, SidebarTypeOK
  <2>2. ahead' \subseteq ChatId /\ wrong' \subseteq ChatId
    BY <1>2, AsideTypes DEF MissedMessage
  <2>. QED
    BY <1>2, <2>1, <2>2 DEF MissedMessage, Arrives, SidebarTypeOK, markVars, countVars
<1>3. ASSUME NEW c \in ChatId, NEW m \in 0..sent[c], DeleteMessage(c, m) PROVE SidebarTypeOK'
  <2>1. sent[c] \in Nat
    BY DEF SidebarTypeOK
  <2>2. m \in Nat
    BY <2>1
  <2>3. gone' \in [ChatId -> SUBSET Nat]
    BY <1>3, <2>2 DEF DeleteMessage, SidebarTypeOK
  <2>4. ahead' \subseteq ChatId /\ wrong' \subseteq ChatId
    BY <1>3, AsideTypes DEF DeleteMessage
  <2>. QED
    BY <1>3, <2>3, <2>4 DEF DeleteMessage, SidebarTypeOK, markVars, countVars
<1>4. ASSUME NEW c \in ChatId, Added(c) \/ Removed(c) PROVE SidebarTypeOK'
  <2>1. events' \in Seq(ListEvent)
    BY <1>4, <1>e, EventTypes, AppendProperties DEF Added, Removed, Update
  <2>2. mine' \subseteq ChatId
    BY <1>4 DEF Added, Removed, SidebarTypeOK
  <2>. QED
    BY <1>4, <2>1, <2>2 DEF Added, Removed, Update, SidebarTypeOK, markVars, countVars, history
<1>5. ASSUME NEW c \in ChatId, NEW m \in 0..sent[c], FindLatest(c, m) PROVE SidebarTypeOK'
  <2>1. m \in Nat
    BY DEF SidebarTypeOK
  <2>2. latest[c] \in Seq(Nat)
    BY DEF SidebarTypeOK
  <2>3. Append(latest[c], m) \in Seq(Nat)
    BY <2>1, <2>2, AppendProperties
  <2>4. latest' \in [ChatId -> Seq(Nat)]
    BY <1>5, <2>3 DEF FindLatest, SidebarTypeOK
  <2>5. marks' \in [ChatId -> Nat]
    BY <1>5 DEF FindLatest, SidebarTypeOK
  <2>. QED
    BY <1>5, <2>4, <2>5 DEF FindLatest, SidebarTypeOK, serverVars, countVars, history
<1>6. ASSUME NEW c \in ChatId, NEW i \in DOMAIN latest[c], WriteMark(c, i) PROVE SidebarTypeOK'
  <2>1. latest[c] \in Seq(Nat)
    BY DEF SidebarTypeOK
  <2>2. latest[c][i] \in Nat /\ RemoveAt(latest[c], i) \in Seq(Nat)
    BY <2>1, LenProperties, ElementOfSeq, RemoveOne
  <2>3. latest' \in [ChatId -> Seq(Nat)]
    BY <1>6, <2>2 DEF WriteMark, SidebarTypeOK
  <2>4. pointer' \in [ChatId -> Nat]
    BY <1>6, <2>2 DEF WriteMark, SidebarTypeOK
  <2>5. ahead' \subseteq ChatId /\ wrong' \subseteq ChatId
    BY <1>6 DEF WriteMark, Ahead, Goes, SidebarTypeOK
  <2>. QED
    BY <1>6, <2>3, <2>4, <2>5 DEF WriteMark, SidebarTypeOK, countVars
<1>7. ASSUME NEW c \in ChatId, MarkFails(c) PROVE SidebarTypeOK'
  <2>1. marks' \in [ChatId -> Nat]
    <3>1. marks' = marks \/ (marks[c] > 0 /\ marks' = [marks EXCEPT ![c] = @ - 1])
      BY <1>7 DEF MarkFails
    <3>2. marks \in [ChatId -> Nat] /\ (marks[c] > 0 => marks[c] - 1 \in Nat)
      BY DEF SidebarTypeOK
    <3>3. CASE marks[c] > 0 /\ marks' = [marks EXCEPT ![c] = @ - 1]
      BY ONLY <3>2, <3>3
    <3>. QED
      BY ONLY <3>1, <3>2, <3>3
  <2>2. latest' \in [ChatId -> Seq(Nat)]
    <3>1. latest[c] \in Seq(Nat)
      BY DEF SidebarTypeOK
    <3>2. \A i \in DOMAIN latest[c] : RemoveAt(latest[c], i) \in Seq(Nat)
      BY <3>1, RemoveOne
    <3>3. latest' = latest \/ \E i \in DOMAIN latest[c] :
                                latest' = [latest EXCEPT ![c] = RemoveAt(latest[c], i)]
      BY <1>7 DEF MarkFails, SidebarTypeOK
    <3>. QED
      BY <3>2, <3>3 DEF SidebarTypeOK
  <2>3. wrong' \subseteq ChatId
    BY <1>7 DEF MarkFails, Goes, SidebarTypeOK
  <2>. QED
    BY <1>7, <2>1, <2>2, <2>3 DEF MarkFails, SidebarTypeOK, serverVars, countVars
<1>8. ASSUME NEW c \in ChatId, NEW m \in 0..sent[c], ReadElsewhere(c, m) PROVE SidebarTypeOK'
  <2>1. m \in Nat
    BY DEF SidebarTypeOK
  <2>2. pointer' \in [ChatId -> Nat]
    BY <1>8, <2>1 DEF ReadElsewhere, SidebarTypeOK
  <2>3. ahead' \subseteq ChatId /\ wrong' \subseteq ChatId
    BY <1>8, AsideTypes DEF ReadElsewhere
  <2>. QED
    BY <1>8, <2>2, <2>3 DEF ReadElsewhere, SidebarTypeOK, markVars, countVars
<1>9. CASE SocketDrops
  <2>1. ahead' \subseteq ChatId /\ wrong' \subseteq ChatId
    BY <1>9, AsideTypes DEF SocketDrops
  <2>2. events' \in Seq(ListEvent) /\ online' \in BOOLEAN
    <3>1. events' = <<>> /\ online' = FALSE
      BY <1>9 DEF SocketDrops
    <3>2. <<>> \in Seq(ListEvent)
      OBVIOUS
    <3>. QED
      BY ONLY <3>1, <3>2
  <2>. QED
    BY <1>9, <2>1, <2>2 DEF SocketDrops, SidebarTypeOK, serverVars, markVars, countVars
<1>10. CASE SocketReturns
  BY <1>10 DEF SocketReturns, SidebarTypeOK, serverVars, markVars, countVars, history
<1>11. ASSUME NEW c \in ChatId, ReadCount(c) PROVE SidebarTypeOK'
  <2>1. counts' \in [ChatId -> [at : {"none", "asked", "read"}, n : Nat]]
    <3>1. Cardinality(Unread(c)) \in Nat
      BY UnreadFinite
    <3>. QED
      BY <1>11, <3>1 DEF ReadCount, SidebarTypeOK
  <2>2. ahead' \subseteq ChatId
    BY <1>11 DEF ReadCount, SidebarTypeOK
  <2>. QED
    BY <1>11, <2>1, <2>2 DEF ReadCount, SidebarTypeOK, serverVars, markVars
<1>12. ASSUME NEW c \in ChatId, Counted(c) PROVE SidebarTypeOK'
  <2>1. counts' \in [ChatId -> [at : {"none", "asked", "read"}, n : Nat]]
    BY <1>12 DEF Counted, SidebarTypeOK, NoCount
  <2>2. badge' \in [ChatId -> Nat]
    BY <1>12 DEF Counted, SidebarTypeOK
  <2>3. wrong' \subseteq ChatId
    BY <1>12 DEF Counted, SidebarTypeOK
  <2>. QED
    BY <1>12, <2>1, <2>2, <2>3 DEF Counted, SidebarTypeOK, serverVars, markVars
<1>13. ASSUME NEW c \in ChatId, CountFails(c) PROVE SidebarTypeOK'
  <2>1. counts' \in [ChatId -> [at : {"none", "asked", "read"}, n : Nat]]
    BY <1>13 DEF CountFails, SidebarTypeOK, NoCount
  <2>. QED
    BY <1>13, <2>1 DEF CountFails, SidebarTypeOK, serverVars, markVars, history
<1>14. ASSUME NEW c \in ChatId, OpenChat(c) PROVE SidebarTypeOK'
  <2>1. badge' \in [ChatId -> Nat] /\ marks' \in [ChatId -> Nat]
    BY <1>14 DEF OpenChat, SidebarTypeOK
  <2>. QED
    BY <1>14, <2>1 DEF OpenChat, SidebarTypeOK, serverVars, countVars
<1>15. ASSUME NEW c \in ChatId, ForgetChat(c) PROVE SidebarTypeOK'
  <2>1. badge' \in [ChatId -> Nat]
    BY <1>15 DEF ForgetChat, SidebarTypeOK
  <2>. QED
    BY <1>15, <2>1 DEF ForgetChat, SidebarTypeOK, markVars, history
<1>16. ASSUME NEW i \in DOMAIN lists, ReadList(i) PROVE SidebarTypeOK'
  <2>1. [read |-> TRUE, chats |-> mine] \in ListRequest
    BY DEF SidebarTypeOK, ListRequest
  <2>2. i \in 1..Len(lists)
    BY LenProperties DEF SidebarTypeOK
  <2>3. lists' \in Seq(ListRequest)
    BY <1>16, <2>1, <2>2, ExceptSeq DEF ReadList, SidebarTypeOK
  <2>. QED
    BY <1>16, <2>3 DEF ReadList, SidebarTypeOK, serverVars, markVars, countVars, history
<1>17. ASSUME NEW i \in DOMAIN lists, Listed(i) PROVE SidebarTypeOK'
  <2>1. lists' \in Seq(ListRequest)
    BY <1>17, RemoveOne DEF Listed, SidebarTypeOK
  <2>2. lists[i].chats \subseteq ChatId
    <3>1. lists \in Seq(ListRequest)
      BY DEF SidebarTypeOK
    <3>2. i \in 1..Len(lists)
      BY <3>1, LenProperties
    <3>3. lists[i] \in ListRequest
      BY <3>1, <3>2, ElementOfSeq
    <3>. QED
      BY <3>3 DEF ListRequest
  <2>3. counts' \in [ChatId -> [at : {"none", "asked", "read"}, n : Nat]]
    BY <1>17 DEF Listed, Seed, SidebarTypeOK
  <2>. QED
    BY <1>17, <2>1, <2>2, <2>3 DEF Listed, Seed, SidebarTypeOK, serverVars, markVars, history
<1>18. ASSUME NEW i \in DOMAIN lists, ListFails(i) PROVE SidebarTypeOK'
  <2>1. lists' \in Seq(ListRequest)
    BY <1>18, RemoveOne DEF ListFails, SidebarTypeOK
  <2>. QED
    BY <1>18, <2>1 DEF ListFails, SidebarTypeOK, serverVars, markVars, countVars, history
<1>19. CASE Take
  <2>1. events' \in Seq(ListEvent) /\ Head(events) \in ListEvent
    BY <1>19, <1>e, HeadTailProperties DEF Take
  <2>2. UNCHANGED <<mine, sent, gone, pointer, online, latest, counted, counts>>
    BY <1>19 DEF Take, serverVars, countVars
  <2>3. CASE Head(events).op = "new"
    <3>1. PICK c \in ChatId : TakeNew(c, Head(events).message)
      BY <1>19, <2>1, <2>3 DEF Take, ListEvent
    <3>2. marks' \in [ChatId -> Nat] /\ ahead' \subseteq ChatId
      BY <3>1 DEF TakeNew, Ahead, SidebarTypeOK
    <3>3. badge' = badge \/ badge' = [badge EXCEPT ![c] = @ + 1]
      BY <3>1 DEF TakeNew, SidebarTypeOK
    <3>4. badge' \in [ChatId -> Nat]
      <4>1. CASE badge' = badge
        BY <4>1 DEF SidebarTypeOK
      <4>2. CASE badge' = [badge EXCEPT ![c] = @ + 1]
        BY <4>2 DEF SidebarTypeOK
      <4>. QED
        BY <3>3, <4>1, <4>2
    <3>5. wrong' \subseteq ChatId
      BY <3>1 DEF TakeNew, Goes, StaleOf, SidebarTypeOK
    <3>6. lists' \in Seq(ListRequest)
      <4>1. Asked \in ListRequest
        BY DEF Asked, ListRequest
      <4>2. lists \in Seq(ListRequest)
        BY DEF SidebarTypeOK
      <4>3. lists' = lists \/ lists' = Append(lists, Asked)
        BY <3>1 DEF TakeNew
      <4>. QED
        <5>1. Append(lists, Asked) \in Seq(ListRequest)
          BY ONLY <4>1, <4>2, AppendProperties
        <5>. QED
          BY ONLY <4>2, <4>3, <5>1
    <3>. QED
      BY <2>1, <2>2, <3>1, <3>2, <3>4, <3>5, <3>6 DEF TakeNew, SidebarTypeOK
  <2>4. CASE Head(events).op # "new"
    <3>1. PICK c \in ChatId : TakeUpdate(Head(events).op, c)
      BY <1>19, <2>1, <2>4 DEF Take, ListEvent
    <3>. QED
      BY <2>1, <2>2, <3>1 DEF TakeUpdate, SidebarTypeOK, history
  <2>. QED
    BY <2>3, <2>4
<1>20. CASE Close
  BY <1>20 DEF Close, SidebarTypeOK, serverVars, markVars, countVars, history
<1>. QED
  BY <1>1, <1>2, <1>3, <1>4, <1>5, <1>6, <1>7, <1>8, <1>9, <1>10, <1>11, <1>12, <1>13, <1>14,
     <1>15, <1>16, <1>17, <1>18, <1>19, <1>20 DEF ListNext

LEMMA OnceKeeps == ASSUME ListInv, ListNext PROVE EventsOnce'
<1>1. SidebarTypeOK /\ EventsOnce /\ events \in Seq(ListEvent)
  BY DEF ListInv, SidebarTypeOK
<1>2. /\ Len(events) \in Nat /\ DOMAIN events = 1..Len(events)
      /\ \A i \in DOMAIN events : events[i] \in ListEvent
  BY <1>1, EventSeq
<1>3. CASE events' = events /\ sent' = sent
  BY <1>1, <1>3 DEF EventsOnce
<1>4. ASSUME NEW c \in ChatId, NewMessage(c) \/ MissedMessage(c) PROVE EventsOnce'
  <2>1. sent' = [sent EXCEPT ![c] = @ + 1] /\ sent \in [ChatId -> Nat] /\ sent[c] \in Nat
    BY <1>1, <1>4 DEF NewMessage, MissedMessage, Arrives, SidebarTypeOK
  <2>2. \A i \in DOMAIN events : events[i].op = "new" =>
          /\ events[i].message \in 1..sent'[events[i].chat]
          /\ events[i] # NewEvent(c, sent[c] + 1)
    <3>1. \A d \in ChatId : 1..sent[d] \subseteq 1..sent'[d]
      BY <2>1
    <3>2. ASSUME NEW i \in DOMAIN events, events[i].op = "new"
          PROVE  events[i] # NewEvent(c, sent[c] + 1)
      <4>1. events[i].message \in 1..sent[events[i].chat]
        BY <1>1, <3>2 DEF EventsOnce
      <4>2. events[i] = NewEvent(c, sent[c] + 1)
              => events[i].chat = c /\ events[i].message = sent[c] + 1
        BY DEF NewEvent
      <4>. QED
        BY <2>1, <4>1, <4>2
    <3>3. \A i \in DOMAIN events : events[i].chat \in ChatId
      BY <1>2 DEF ListEvent
    <3>. QED
      BY <1>1, <3>1, <3>2, <3>3 DEF EventsOnce
  <2>3. CASE MissedMessage(c)
    <3>1. events' = events
      BY <2>3 DEF MissedMessage
    <3>. QED
      BY <1>1, <2>2, <3>1 DEF EventsOnce
  <2>4. CASE NewMessage(c)
    <3> DEFINE e == NewEvent(c, sent[c] + 1)
    <3>1. events' = Append(events, e) /\ e \in ListEvent
      BY <2>1, <2>4, EventTypes DEF NewMessage
    <3>2. Append(events, e) \in Seq(ListEvent) /\ Len(Append(events, e)) = Len(events) + 1
      BY <1>1, <3>1, AppendProperties
    <3>3. DOMAIN events' = (1..Len(events)) \cup {Len(events) + 1}
      BY <1>2, <3>1, <3>2, EventSeq
    <3>4. events'[Len(events) + 1] = e /\ \A i \in 1..Len(events) : events'[i] = events[i]
      BY <1>1, <3>1, AppendProperties
    <3>5. e.op = "new" /\ e.chat = c /\ e.message \in 1..sent'[c]
      BY <2>1 DEF NewEvent
    <3>. HIDE DEF e
    <3>6. \A i \in 1..Len(events) : events[i].op = "new" => events[i] # e
      BY <1>2, <2>2 DEF e
    <3>. QED
      BY <1>1, <1>2, <2>2, <3>3, <3>4, <3>5, <3>6 DEF EventsOnce
  <2>. QED
    BY <1>4, <2>3, <2>4
<1>5. ASSUME NEW c \in ChatId, Added(c) \/ Removed(c) PROVE EventsOnce'
  <2>1. sent' = sent
    BY <1>5 DEF Added, Removed, Update
  <2>2. CASE events' = events
    BY <1>1, <2>1, <2>2 DEF EventsOnce
  <2>3. ASSUME NEW e \in ListEvent, e.op # "new", events' = Append(events, e) PROVE EventsOnce'
    <3>1. Append(events, e) \in Seq(ListEvent) /\ Len(Append(events, e)) = Len(events) + 1
      BY <1>1, <2>3, AppendProperties
    <3>2. DOMAIN events' = (1..Len(events)) \cup {Len(events) + 1}
      BY <1>2, <2>3, <3>1, EventSeq
    <3>3. events'[Len(events) + 1] = e /\ \A i \in 1..Len(events) : events'[i] = events[i]
      BY <1>1, <2>3, AppendProperties
    <3>. QED
      BY <1>1, <1>2, <2>1, <2>3, <3>2, <3>3 DEF EventsOnce
  <2>. QED
    BY <1>5, <2>2, <2>3, EventTypes DEF Added, Removed, Update, UpdateEvent
<1>6. CASE Take
  <2>1. events # <<>> /\ events' = Tail(events) /\ sent' = sent
    BY <1>6 DEF Take, serverVars
  <2>2. /\ Tail(events) \in Seq(ListEvent) /\ Len(Tail(events)) = Len(events) - 1
        /\ \A i \in 1..Len(Tail(events)) : Tail(events)[i] = events[i + 1]
    BY <1>1, <2>1, HeadTailProperties
  <2>3. DOMAIN events' = 1..(Len(events) - 1)
    BY <2>1, <2>2, EventSeq
  <2>4. \A i \in DOMAIN events' : i \in Int /\ i + 1 \in DOMAIN events /\ events'[i] = events[i + 1]
    BY <1>2, <2>1, <2>2, <2>3
  <2>5. \A i, j \in DOMAIN events' : i + 1 = j + 1 => i = j
    BY <2>4
  <2>. QED
    BY <1>1, <2>1, <2>4, <2>5 DEF EventsOnce
<1>7. CASE SocketDrops
  BY <1>7 DEF SocketDrops, EventsOnce
<1>. QED
  BY <1>3, <1>4, <1>5, <1>6, <1>7 DEF ListNext, DeleteMessage, FindLatest, WriteMark, MarkFails,
    ReadElsewhere, SocketReturns, ReadCount, Counted, CountFails, OpenChat, ForgetChat, ReadList,
    Listed, ListFails, Close, serverVars

(***************************************************************************)
(* The numbers.                                                            *)
(***************************************************************************)
\* What is on its way, by the queue.
LEMMA OnItsWay ==
  ASSUME NEW c \in ChatId
  PROVE  OnTheWay(c) = {m \in 1..sent[c] : HasEvent(c, m)}
BY DEF OnTheWay, HasEvent

\* The same messages, pointer and queue: the same unread ones.
LEMMA SameMessages ==
  ASSUME NEW d \in ChatId, sent'[d] = sent[d], gone'[d] = gone[d], pointer'[d] = pointer[d],
         \A m : HasEvent(d, m)' <=> HasEvent(d, m)
  PROVE  /\ OnTheWay(d)' = OnTheWay(d) /\ VisibleIn(d)' = VisibleIn(d) /\ Told(d)' = Told(d)
         /\ Unread(d)' = Unread(d) /\ KnownUnread(d)' = KnownUnread(d)
<1>1. OnTheWay(d)' = OnTheWay(d)
  BY OnItsWay DEF OnTheWay, HasEvent, NewEvent
<1>2. VisibleIn(d)' = VisibleIn(d)
  BY DEF VisibleIn
<1>. QED
  BY <1>1, <1>2 DEF Told, Unread, KnownUnread

LEMMA SameQueue == ASSUME events' = events, NEW d, NEW m PROVE HasEvent(d, m)' <=> HasEvent(d, m)
BY DEF HasEvent, NewEvent

\* What is right of a chat stays right when nothing of it changes for the worse: what it is
\* told besides has been read.
LEMMA Untouched ==
  ASSUME NEW d \in ChatId, ListGood(d),
         shown' = d => shown = d, d \in counted' => d \in counted,
         d \in wrong => d \in wrong', d \in ahead => d \in ahead',
         badge'[d] = badge[d], marks'[d] = marks[d], latest'[d] = latest[d],
         counts'[d] = counts[d], pointer'[d] = pointer[d], KnownUnread(d)' = KnownUnread(d),
         \A m \in Told(d)' : m \in Told(d) \/ m <= pointer[d]
  PROVE  ListGood(d)'
BY DEF ListGood, ShownIsClear, MarkedIsClear, Covered, CountIsRight, BadgeIsRight, Marking

\* What the browser is not told of has been remembered.
LEMMA SetAside ==
  ASSUME NEW d \in ChatId, SidebarTypeOK, ListGood(d), NEW S, d \in S, Aside(S),
         UNCHANGED <<shown, badge, marks, latest, counted, counts>>
  PROVE  ListGood(d)'
<1>1. counts[d].at = "read" => d \in ahead'
  BY DEF Aside, Ahead
<1>2. /\ d \in wrong => d \in wrong'
      /\ marks[d] = 0 /\ (d = shown \/ (d \in counted /\ counts[d].at = "none")) => d \in wrong'
  BY DEF Aside, Goes, StaleOf
<1>3. ShownIsClear(d)' /\ MarkedIsClear(d)'
  BY <1>2 DEF ListGood, ShownIsClear, MarkedIsClear, Marking
<1>4. Covered(d)' /\ CountIsRight(d)'
  BY <1>1, <1>2 DEF Covered, CountIsRight
<1>5. BadgeIsRight(d)'
  <2>1. SUFFICES ASSUME d \in counted', d \notin wrong', counts'[d].at = "none", ~Marking(d)'
                 PROVE FALSE
    BY DEF BadgeIsRight
  <2>2. marks[d] \in Nat /\ ~(marks[d] > 0)
    BY <2>1 DEF Marking, SidebarTypeOK
  <2>3. marks[d] = 0
    BY <2>2
  <2>. QED
    BY <1>2, <2>1, <2>3
<1>. QED
  BY <1>3, <1>4, <1>5 DEF ListGood

\* The others' part in what is remembered.
LEMMA AsideGrows == ASSUME NEW S, Aside(S) PROVE wrong \subseteq wrong' /\ ahead \subseteq ahead'
BY DEF Aside, Ahead, Goes

LEMMA GoodNewMessage ==
  ASSUME ListInv, NEW c \in ChatId, NewMessage(c) \/ MissedMessage(c), NEW d \in ChatId
  PROVE  ListGood(d)'
<1>1. ListGood(d) /\ SidebarTypeOK /\ EventsOnce /\ events \in Seq(ListEvent)
  BY DEF ListInv, SidebarTypeOK
<1>2. UNCHANGED <<mine, gone, pointer, shown, badge, marks, latest, counted, counts>>
  BY DEF NewMessage, MissedMessage, Arrives, markVars, countVars
<1>3. sent' = [sent EXCEPT ![c] = @ + 1] /\ sent[c] \in Nat /\ sent[c] + 1 \in Nat
  <2>1. sent' = [sent EXCEPT ![c] = @ + 1]
    BY DEF NewMessage, MissedMessage, Arrives
  <2>2. sent[c] \in Nat
    BY <1>1 DEF SidebarTypeOK
  <2>. QED
    BY <2>1, <2>2
<1>4. wrong \subseteq wrong' /\ ahead \subseteq ahead'
  BY AsideGrows DEF NewMessage, MissedMessage, history
<1>5. CASE d # c
  <2>1. sent'[d] = sent[d]
    BY <1>1, <1>3, <1>5 DEF SidebarTypeOK
  <2>2. \A m : HasEvent(d, m)' <=> HasEvent(d, m)
    <3>1. CASE events' = events
      BY <3>1, SameQueue
    <3>2. CASE events' = Append(events, NewEvent(c, sent[c] + 1))
      <4>1. NewEvent(c, sent[c] + 1) \in ListEvent
        BY <1>3, EventTypes
      <4>2. \A m : NewEvent(c, sent[c] + 1) # NewEvent(d, m)
        BY <1>5 DEF NewEvent
      <4>. QED
        BY <1>1, <3>2, <4>1, <4>2, WayAppend
    <3>. QED
      BY <3>1, <3>2 DEF NewMessage, MissedMessage
  <2>3. KnownUnread(d)' = KnownUnread(d) /\ Told(d)' = Told(d)
    BY <1>2, <2>1, <2>2, SameMessages
  <2>. QED
    BY <1>1, <1>2, <1>4, <2>3, Untouched
<1>6. CASE d = c /\ MissedMessage(c)
  BY <1>1, <1>2, <1>6, SetAside DEF MissedMessage
<1>7. CASE d = c /\ NewMessage(c)
  <2> DEFINE n == sent[c] + 1
  <2>1. events' = Append(events, NewEvent(c, n)) /\ NewEvent(c, n) \in ListEvent
    BY <1>3, <1>7, EventTypes DEF NewMessage
  <2>2. \A m : HasEvent(c, m)' <=> HasEvent(c, m) \/ m = n
    <3>1. \A m : NewEvent(c, n) = NewEvent(c, m) <=> m = n
      BY DEF NewEvent
    <3>. QED
      BY <1>1, <2>1, <3>1, WayAppend
  <2>3. 1..sent'[c] = (1..sent[c]) \cup {n} /\ n \notin 1..sent[c]
    <3>1. sent'[c] = n
      BY <1>1, <1>3 DEF SidebarTypeOK
    <3>2. 1..n = (1..sent[c]) \cup {n}
      BY <1>3
    <3>. QED
      BY <1>3, <3>1, <3>2
  <2>. HIDE DEF n
  <2>4. OnTheWay(c)' = OnTheWay(c) \cup {n}
    BY <2>2, <2>3 DEF OnTheWay, HasEvent, NewEvent
  <2>5. VisibleIn(c) \subseteq VisibleIn(c)' /\ VisibleIn(c)' \subseteq VisibleIn(c) \cup {n}
    BY <1>2, <2>3 DEF VisibleIn
  <2>6. n \notin VisibleIn(c)
    BY <2>3 DEF VisibleIn
  <2>7. Told(c)' = Told(c)
    BY <2>4, <2>5, <2>6 DEF Told
  <2>8. KnownUnread(c)' = KnownUnread(c)
    BY <1>2, <2>4, <2>5, <2>6 DEF KnownUnread, Unread
  <2>. QED
    BY <1>1, <1>2, <1>4, <1>7, <2>7, <2>8, Untouched
<1>. QED
  BY <1>5, <1>6, <1>7

LEMMA GoodDelete ==
  ASSUME ListInv, NEW c \in ChatId, NEW k, DeleteMessage(c, k), NEW d \in ChatId
  PROVE  ListGood(d)'
<1>1. ListGood(d) /\ SidebarTypeOK
  BY DEF ListInv
<1>2. UNCHANGED <<mine, sent, pointer, events, shown, badge, marks, latest, counted, counts>>
  BY DEF DeleteMessage, markVars, countVars
<1>3. gone'[d] = IF d = c THEN gone[d] \cup {k} ELSE gone[d]
  BY <1>1 DEF DeleteMessage, SidebarTypeOK
<1>4. wrong \subseteq wrong' /\ ahead \subseteq ahead'
  BY AsideGrows DEF DeleteMessage
<1>5. CASE d = c /\ k \in KnownUnread(c)
  BY <1>1, <1>2, <1>5, SetAside DEF DeleteMessage
<1>6. CASE d # c
  <2>1. KnownUnread(d)' = KnownUnread(d) /\ Told(d)' = Told(d)
    BY <1>2, <1>3, <1>6, SameQueue, SameMessages
  <2>. QED
    BY <1>1, <1>2, <1>4, <2>1, Untouched
<1>7. CASE d = c /\ k \notin KnownUnread(c)
  <2>1. OnTheWay(d)' = OnTheWay(d)
    BY <1>2 DEF OnTheWay, NewEvent
  <2>2. VisibleIn(d)' = VisibleIn(d) \ {k}
    BY <1>2, <1>3, <1>7 DEF VisibleIn
  <2>3. KnownUnread(d)' = KnownUnread(d) /\ Told(d)' \subseteq Told(d)
    BY <1>2, <1>7, <2>1, <2>2 DEF KnownUnread, Unread, Told
  <2>. QED
    BY <1>1, <1>2, <1>4, <2>3, Untouched
<1>. QED
  BY <1>5, <1>6, <1>7

\* Moves of the server, and lists that are read or lost, say nothing of messages.
LEMMA GoodMoves ==
  ASSUME ListInv, NEW d \in ChatId,
         \/ \E c \in ChatId : Added(c) \/ Removed(c)
         \/ \E i \in DOMAIN lists : ReadList(i) \/ ListFails(i)
         \/ Close \/ SocketReturns
  PROVE  ListGood(d)'
<1>1. ListGood(d) /\ SidebarTypeOK /\ events \in Seq(ListEvent)
  BY DEF ListInv, SidebarTypeOK
<1>2. UNCHANGED <<sent, gone, pointer, counted, wrong, ahead, badge, marks, latest, counts>>
  BY DEF Added, Removed, Update, ReadList, ListFails, Close, SocketReturns, serverVars, markVars,
    countVars, history
<1>3. shown' = shown \/ shown' = NoChatId
  BY DEF Added, Removed, Update, ReadList, ListFails, Close, SocketReturns
<1>4. \A m : HasEvent(d, m)' <=> HasEvent(d, m)
  <2>1. CASE events' = events
    BY <2>1, SameQueue
  <2>2. ASSUME NEW o \in {"in", "out"}, NEW c \in ChatId,
               events' = Append(events, UpdateEvent(o, c))
        PROVE  \A m : HasEvent(d, m)' <=> HasEvent(d, m)
    <3>1. UpdateEvent(o, c) \in ListEvent /\ \A m : UpdateEvent(o, c) # NewEvent(d, m)
      BY <2>2 DEF UpdateEvent, ListEvent, NewEvent
    <3>. QED
      BY <1>1, <2>2, <3>1, WayAppend
  <2>. QED
    BY <2>1, <2>2 DEF Added, Removed, Update, ReadList, ListFails, Close, SocketReturns
<1>5. shown' = d => shown = d
  BY <1>3, SidebarAssumption
<1>6. KnownUnread(d)' = KnownUnread(d) /\ Told(d)' = Told(d)
  BY <1>2, <1>4, SameMessages
<1>. QED
  BY <1>1, <1>2, <1>5, <1>6, Untouched

LEMMA GoodDrop == ASSUME ListInv, SocketDrops, NEW d \in ChatId PROVE ListGood(d)'
<1>1. ListGood(d) /\ SidebarTypeOK
  BY DEF ListInv
<1>2. UNCHANGED <<sent, gone, pointer, shown, badge, marks, latest, counted, counts>>
      /\ events' = <<>>
  BY DEF SocketDrops, serverVars, markVars, countVars
<1> DEFINE S == {c \in ChatId : OnTheWay(c) \cap Unread(c) # {}}
<1>3. Aside(S)
  BY DEF SocketDrops
<1>. HIDE DEF S
<1>4. CASE d \in S
  BY <1>1, <1>2, <1>3, <1>4, SetAside
<1>5. CASE d \notin S
  <2>1. OnTheWay(d) \cap Unread(d) = {}
    BY <1>5 DEF S
  <2>2. OnTheWay(d)' = {} /\ VisibleIn(d)' = VisibleIn(d)
    BY <1>2 DEF OnTheWay, VisibleIn
  <2>3. KnownUnread(d)' = KnownUnread(d)
    BY <1>2, <2>1, <2>2 DEF KnownUnread, Unread
  <2>4. ASSUME NEW m \in Told(d)' PROVE m \in Told(d) \/ m <= pointer[d]
    <3>1. m \in VisibleIn(d) /\ (m \notin OnTheWay(d) => m \in Told(d))
      BY <2>2, <2>4 DEF Told
    <3>2. m \in Int /\ pointer[d] \in Int
      BY <1>1, <3>1 DEF VisibleIn, SidebarTypeOK
    <3>. QED
      BY <2>1, <3>1, <3>2 DEF Unread
  <2>. QED
    BY <1>1, <1>2, <1>3, <2>3, <2>4, AsideGrows, Untouched
<1>. QED
  BY <1>4, <1>5

LEMMA GoodFind ==
  ASSUME ListInv, NEW c \in ChatId, NEW k \in 0..sent[c], FindLatest(c, k), NEW d \in ChatId
  PROVE  ListGood(d)'
<1>1. ListGood(d) /\ SidebarTypeOK
  BY DEF ListInv
<1>2. UNCHANGED <<sent, gone, pointer, events, shown, badge, counted, counts, wrong, ahead>>
  BY DEF FindLatest, serverVars, countVars, history
<1>3. KnownUnread(d)' = KnownUnread(d) /\ Told(d)' = Told(d)
  BY <1>2, SameQueue, SameMessages
<1>4. CASE d # c
  <2>1. marks'[d] = marks[d] /\ latest'[d] = latest[d]
    BY <1>1, <1>4 DEF FindLatest, SidebarTypeOK
  <2>. QED
    BY <1>1, <1>2, <1>3, <2>1, Untouched
<1>5. CASE d = c
  <2>1. marks[d] > 0 /\ latest'[d] = Append(latest[d], k) /\ latest[d] \in Seq(Nat) /\ k \in Nat
    BY <1>1, <1>5 DEF FindLatest, SidebarTypeOK
  <2>2. /\ Append(latest[d], k) \in Seq(Nat) /\ Len(Append(latest[d], k)) = Len(latest[d]) + 1
        /\ Append(latest[d], k)[Len(latest[d]) + 1] = k /\ Len(latest[d]) \in Nat
    BY ONLY <2>1, AppendProperties, LenProperties
  <2>3. Len(latest[d]) + 1 \in DOMAIN latest'[d] /\ latest'[d][Len(latest[d]) + 1] = k
    BY <2>1, <2>2, LenProperties
  <2>4. \A m \in Told(d)' : m <= k
    BY <1>3, <1>5 DEF Told, FindLatest, IsLatest
  <2>5. Covered(d)'
    BY <2>3, <2>4 DEF Covered
  <2>6. Marking(d) /\ Marking(d)'
    BY <2>1, <2>3 DEF Marking
  <2>. QED
    BY <1>1, <1>2, <1>3, <2>5, <2>6
    DEF ListGood, ShownIsClear, MarkedIsClear, CountIsRight, BadgeIsRight
<1>. QED
  BY <1>4, <1>5

\* The last mark to be written leaves nothing unread that has been told.
LEMMA GoodWrite ==
  ASSUME ListInv, NEW c \in ChatId, NEW i \in DOMAIN latest[c], WriteMark(c, i), NEW d \in ChatId
  PROVE  ListGood(d)'
<1>1. ListGood(d) /\ SidebarTypeOK
  BY DEF ListInv
<1>2. UNCHANGED <<sent, gone, events, shown, badge, marks, counted, counts>> /\ wrong \subseteq wrong'
  BY DEF WriteMark, Goes, countVars
<1>3. CASE d # c
  <2>1. pointer'[d] = pointer[d] /\ latest'[d] = latest[d] /\ (d \in ahead => d \in ahead')
    BY <1>1, <1>3 DEF WriteMark, Ahead, SidebarTypeOK
  <2>2. KnownUnread(d)' = KnownUnread(d) /\ Told(d)' = Told(d)
    BY <1>2, <2>1, SameQueue, SameMessages
  <2>. QED
    BY <1>1, <1>2, <2>1, <2>2, Untouched
<1>4. CASE d = c
  <2> DEFINE k == latest[c][i]
  <2>1. latest[c] \in Seq(Nat) /\ pointer[c] \in Nat /\ sent[c] \in Nat
    BY <1>1 DEF SidebarTypeOK
  <2>2. k \in Nat /\ latest[c] # <<>>
    BY <2>1, LenProperties, ElementOfSeq
  <2>3. pointer'[c] = k /\ latest'[c] = RemoveAt(latest[c], i)
    BY <1>1 DEF WriteMark, SidebarTypeOK
  <2>4. \A n \in DOMAIN latest[c] :
          n = i \/ \E j \in DOMAIN latest'[c] : latest'[c][j] = latest[c][n]
    BY <2>1, <2>3, RemoveOne
  <2>5. c \notin wrong' => c \notin wrong /\ \A n \in VisibleIn(c) : ~(k < n /\ n <= pointer[c])
    BY DEF WriteMark, Goes
  <2>6. c \in ahead' \/ counts'[c].at # "read"
    BY <1>2 DEF WriteMark, Ahead
  <2>7. Told(c)' = Told(c) /\ OnTheWay(c)' = OnTheWay(c) /\ VisibleIn(c)' = VisibleIn(c)
    BY <1>2 DEF Told, OnTheWay, VisibleIn, NewEvent
  <2>8. \A m \in Told(c) : m \in VisibleIn(c) /\ m \in Int
    BY DEF Told, VisibleIn
  <2>. HIDE DEF k
  \* What was covered is covered still.
  <2>9. ASSUME c \notin wrong', marks[c] = 0,
               shown = c \/ (c \in counted /\ counts[c].at = "none")
        PROVE  \A m \in Told(c) : m <= k \/ \E j \in DOMAIN latest'[c] : m <= latest'[c][j]
    <3>1. \A m \in Told(c) : m <= pointer[c] \/ \E n \in DOMAIN latest[c] : m <= latest[c][n]
      BY <1>1, <1>4, <2>2, <2>5, <2>9 DEF ListGood, Covered
    <3>2. SUFFICES ASSUME NEW m \in Told(c), ~(m <= k)
                   PROVE  \E j \in DOMAIN latest'[c] : m <= latest'[c][j]
      OBVIOUS
    <3>3. ~(m <= pointer[c])
      BY <2>2, <2>5, <2>8, <2>9, <3>2
    <3>4. PICK n \in DOMAIN latest[c] : m <= latest[c][n]
      BY <3>1, <3>3
    <3>5. n # i
      BY <3>2, <3>4 DEF k
    <3>. QED
      BY <2>4, <3>4, <3>5
  <2>10. Marking(c) /\ (Marking(c)' => Marking(c))
    BY <2>2 DEF Marking
  <2>11. ShownIsClear(c)' /\ MarkedIsClear(c)' /\ CountIsRight(c)'
    BY <1>1, <1>2, <1>4, <2>6, <2>10
    DEF ListGood, ShownIsClear, MarkedIsClear, CountIsRight
  <2>12. Covered(c)'
    BY <1>2, <2>3, <2>7, <2>9 DEF Covered
  <2>13. BadgeIsRight(c)'
    <3>1. SUFFICES ASSUME c \in counted' \ wrong', counts'[c].at = "none", ~Marking(c)'
                   PROVE  badge'[c] = Cardinality(KnownUnread(c)')
      BY DEF BadgeIsRight
    <3>2. marks[c] = 0 /\ latest'[c] = <<>>
      <4>1. ~(marks[c] > 0) /\ latest'[c] = <<>>
        BY <1>2, <3>1 DEF Marking
      <4>. QED
        BY <1>1, <4>1 DEF SidebarTypeOK
    <3>3. \A m \in Told(c) : m <= k
      BY <1>2, <2>9, <3>1, <3>2
    <3>4. KnownUnread(c)' = {}
      <4>1. KnownUnread(c)' \subseteq {m \in Told(c) : m > k}
        BY <2>3, <2>7 DEF KnownUnread, Unread, Told
      <4>. QED
        BY <2>2, <2>8, <3>3, <4>1
    <3>5. badge[c] = 0
      BY <1>1, <1>4, <2>5, <2>10, <3>1 DEF ListGood, MarkedIsClear
    <3>. QED
      BY <1>2, <3>4, <3>5, FS_EmptySet
  <2>. QED
    BY <1>4, <2>11, <2>12, <2>13 DEF ListGood
<1>. QED
  BY <1>3, <1>4

LEMMA GoodMarkFails ==
  ASSUME ListInv, NEW c \in ChatId, MarkFails(c), NEW d \in ChatId PROVE ListGood(d)'
<1>1. ListGood(d) /\ SidebarTypeOK
  BY DEF ListInv
<1>2. UNCHANGED <<sent, gone, pointer, events, shown, badge, counted, counts, ahead>>
      /\ wrong' = wrong \cup {c}
  BY DEF MarkFails, Goes, serverVars, countVars
<1>3. KnownUnread(d)' = KnownUnread(d) /\ Told(d)' = Told(d)
  BY <1>2, SameQueue, SameMessages
<1>4. CASE d = c
  BY <1>1, <1>2, <1>3, <1>4
  DEF ListGood, ShownIsClear, MarkedIsClear, Covered, CountIsRight, BadgeIsRight
<1>5. CASE d # c
  <2>1. marks'[d] = marks[d] /\ latest'[d] = latest[d]
    BY <1>1, <1>5 DEF MarkFails, SidebarTypeOK
  <2>. QED
    BY <1>1, <1>2, <1>3, <2>1, Untouched
<1>. QED
  BY <1>4, <1>5

LEMMA GoodElsewhere ==
  ASSUME ListInv, NEW c \in ChatId, NEW k \in 0..sent[c], ReadElsewhere(c, k), NEW d \in ChatId
  PROVE  ListGood(d)'
<1>1. ListGood(d) /\ SidebarTypeOK
  BY DEF ListInv
<1>2. UNCHANGED <<sent, gone, events, shown, badge, marks, latest, counted, counts>>
  BY DEF ReadElsewhere, markVars, countVars
<1>3. wrong \subseteq wrong' /\ ahead \subseteq ahead'
  BY AsideGrows DEF ReadElsewhere
<1>4. CASE d # c
  <2>1. pointer'[d] = pointer[d]
    BY <1>1, <1>4 DEF ReadElsewhere, SidebarTypeOK
  <2>2. KnownUnread(d)' = KnownUnread(d) /\ Told(d)' = Told(d)
    BY <1>2, <2>1, SameQueue, SameMessages
  <2>. QED
    BY <1>1, <1>2, <1>3, <2>1, <2>2, Untouched
<1>5. CASE d = c /\ KnownUnread(c) # {}
  BY <1>1, <1>2, <1>5, SetAside DEF ReadElsewhere
<1>6. CASE d = c /\ KnownUnread(c) = {}
  <2>1. pointer'[d] = k /\ k \in Int
    BY <1>1, <1>6 DEF ReadElsewhere, SidebarTypeOK
  <2>2. \A m \in VisibleIn(d) : m <= k /\ m \in Int
    BY <1>6 DEF ReadElsewhere, IsLatest, VisibleIn
  <2>3. VisibleIn(d)' = VisibleIn(d)
    BY <1>2 DEF VisibleIn
  <2>4. \A m \in Told(d)' : m <= pointer'[d]
    BY <2>1, <2>2, <2>3 DEF Told
  <2>5. KnownUnread(d)' = KnownUnread(d)
    BY <1>6, <2>1, <2>2, <2>3 DEF KnownUnread, Unread
  <2>. QED
    BY <1>1, <1>2, <1>3, <2>4, <2>5
    DEF ListGood, ShownIsClear, MarkedIsClear, Covered, CountIsRight, BadgeIsRight, Marking
<1>. QED
  BY <1>4, <1>5, <1>6

LEMMA GoodReadCount ==
  ASSUME ListInv, NEW c \in ChatId, ReadCount(c), NEW d \in ChatId PROVE ListGood(d)'
<1>1. ListGood(d) /\ SidebarTypeOK
  BY DEF ListInv
<1>2. UNCHANGED <<sent, gone, pointer, events, shown, badge, marks, latest, counted, wrong>>
  BY DEF ReadCount, serverVars, markVars
<1>3. KnownUnread(d)' = KnownUnread(d) /\ Told(d)' = Told(d)
  BY <1>2, SameQueue, SameMessages
<1>4. CASE d = c
  <2>1. counts'[d].at = "read" /\ counts'[d].n = Cardinality(Unread(d))
    BY <1>1, <1>4 DEF ReadCount, SidebarTypeOK
  <2>2. d \notin ahead' => KnownUnread(d) = Unread(d)
    BY <1>4 DEF ReadCount
  <2>. QED
    BY <1>1, <1>2, <1>3, <2>1, <2>2
    DEF ListGood, ShownIsClear, MarkedIsClear, Covered, CountIsRight, BadgeIsRight, Marking
<1>5. CASE d # c
  <2>1. counts'[d] = counts[d] /\ (d \in ahead => d \in ahead')
    BY <1>1, <1>5 DEF ReadCount, SidebarTypeOK
  <2>. QED
    BY <1>1, <1>2, <1>3, <2>1, Untouched
<1>. QED
  BY <1>4, <1>5

LEMMA GoodCounted ==
  ASSUME ListInv, NEW c \in ChatId, Counted(c), NEW d \in ChatId PROVE ListGood(d)'
<1>1. ListGood(d) /\ SidebarTypeOK
  BY DEF ListInv
<1>2. UNCHANGED <<sent, gone, pointer, events, shown, marks, latest, counted, ahead>>
  BY DEF Counted, serverVars, markVars
<1>3. KnownUnread(d)' = KnownUnread(d) /\ Told(d)' = Told(d)
  BY <1>2, SameQueue, SameMessages
<1>4. CASE d # c
  <2>1. counts'[d] = counts[d] /\ badge'[d] = badge[d] /\ (d \in wrong => d \in wrong')
    BY <1>1, <1>4 DEF Counted, SidebarTypeOK
  <2>. QED
    BY <1>1, <1>2, <1>3, <2>1, Untouched
<1>5. CASE d = c
  <2>1. counts[d].at = "read" /\ counts'[d].at = "none"
    BY <1>1, <1>5 DEF Counted, SidebarTypeOK, NoCount
  <2>2. Marking(d)' <=> Marking(d)
    BY <1>2 DEF Marking
  <2>3. CASE d = shown
    <3>1. badge'[d] = 0 /\ wrong' = wrong
      BY <1>1, <1>5, <2>3 DEF Counted, SidebarTypeOK
    <3>2. Covered(d)'
      BY <1>1, <1>2, <1>3, <2>3, <3>1 DEF ListGood, Covered
    <3>3. BadgeIsRight(d)'
      <4>1. SUFFICES ASSUME d \notin wrong, ~Marking(d) PROVE KnownUnread(d) = {}
        BY <1>3, <2>2, <3>1, FS_EmptySet DEF BadgeIsRight
      <4>2. marks[d] \in Nat /\ ~(marks[d] > 0) /\ latest[d] = <<>> /\ pointer[d] \in Int
        BY <1>1, <4>1 DEF Marking, SidebarTypeOK
      <4>3. marks[d] = 0
        BY <4>2
      <4>4. \A m \in Told(d) : m <= pointer[d]
        BY <1>1, <2>3, <4>1, <4>2, <4>3 DEF ListGood, Covered
      <4>5. \A m \in KnownUnread(d) : m \in Told(d) /\ m > pointer[d] /\ m \in Int
        BY DEF KnownUnread, Unread, VisibleIn, Told
      <4>. QED
        BY <4>2, <4>4, <4>5
    <3>. QED
      BY <2>1, <3>1, <3>2, <3>3 DEF ListGood, ShownIsClear, MarkedIsClear, CountIsRight
  <2>4. CASE d # shown
    <3>1. badge'[d] = counts[d].n /\ (d \notin wrong' => d \notin ahead /\ ~Marking(d))
      BY <1>1, <1>5, <2>4 DEF Counted, SidebarTypeOK
    <3>2. ~Marking(d) => latest[d] = <<>>
      BY DEF Marking
    <3>. QED
      BY <1>1, <1>2, <1>3, <2>1, <2>2, <2>4, <3>1, <3>2
      DEF ListGood, ShownIsClear, MarkedIsClear, Covered, CountIsRight, BadgeIsRight
  <2>. QED
    BY <2>3, <2>4
<1>. QED
  BY <1>4, <1>5

LEMMA GoodCountFails ==
  ASSUME ListInv, NEW c \in ChatId, CountFails(c), NEW d \in ChatId PROVE ListGood(d)'
<1>1. ListGood(d) /\ SidebarTypeOK
  BY DEF ListInv
<1>2. UNCHANGED <<sent, gone, pointer, events, shown, badge, marks, latest, ahead, wrong>>
  BY DEF CountFails, serverVars, markVars, history
<1>3. KnownUnread(d)' = KnownUnread(d) /\ Told(d)' = Told(d)
  BY <1>2, SameQueue, SameMessages
<1>4. counted' = counted \ {c} /\ counts'[d].at = (IF d = c THEN "none" ELSE counts[d].at)
      /\ (d # c => counts'[d] = counts[d])
  BY <1>1 DEF CountFails, SidebarTypeOK, NoCount
<1>5. CASE d # c
  BY <1>1, <1>2, <1>3, <1>4, <1>5, Untouched
<1>6. CASE d = c
  BY <1>1, <1>2, <1>3, <1>4, <1>6
  DEF ListGood, ShownIsClear, MarkedIsClear, Covered, CountIsRight, BadgeIsRight, Marking
<1>. QED
  BY <1>5, <1>6

LEMMA GoodListed ==
  ASSUME ListInv, NEW i \in DOMAIN lists, Listed(i), NEW d \in ChatId PROVE ListGood(d)'
<1>1. ListGood(d) /\ SidebarTypeOK
  BY DEF ListInv
<1>2. UNCHANGED <<sent, gone, pointer, events, shown, badge, marks, latest, ahead, wrong>>
  BY DEF Listed, serverVars, markVars, history
<1>3. KnownUnread(d)' = KnownUnread(d) /\ Told(d)' = Told(d)
  BY <1>2, SameQueue, SameMessages
<1>4. CASE counts'[d].at = "asked"
  BY <1>1, <1>2, <1>3, <1>4
  DEF ListGood, ShownIsClear, MarkedIsClear, Covered, CountIsRight, BadgeIsRight, Marking
<1>5. CASE counts'[d] = counts[d] /\ (d \in counted' => d \in counted)
  BY <1>1, <1>2, <1>3, <1>5, Untouched
<1>. QED
  BY <1>4, <1>5 DEF Listed, Seed

LEMMA GoodOpened ==
  ASSUME ListInv, NEW c \in ChatId, OpenChat(c) \/ ForgetChat(c), NEW d \in ChatId
  PROVE  ListGood(d)'
<1>1. ListGood(d) /\ SidebarTypeOK
  BY DEF ListInv
<1>2. UNCHANGED <<sent, gone, pointer, events, latest, counts, ahead>>
  BY DEF OpenChat, ForgetChat, serverVars, countVars, markVars, history
<1>3. KnownUnread(d)' = KnownUnread(d) /\ Told(d)' = Told(d)
  BY <1>2, SameQueue, SameMessages
<1>4. badge'[d] = IF d = c THEN 0 ELSE badge[d]
  BY <1>1 DEF OpenChat, ForgetChat, SidebarTypeOK
<1>5. CASE d = c /\ OpenChat(c)
  <2>1. marks'[d] > 0 /\ marks'[d] # 0
    BY <1>1, <1>5 DEF OpenChat, SidebarTypeOK
  <2>. QED
    BY <1>1, <1>2, <1>3, <1>4, <1>5, <2>1
    DEF ListGood, ShownIsClear, MarkedIsClear, Covered, CountIsRight, BadgeIsRight, Marking
<1>6. CASE d = c /\ ForgetChat(c)
  <2>1. d \notin counted' /\ shown' # d
    BY <1>6, SidebarAssumption DEF ForgetChat
  <2>. QED
    BY <1>1, <1>2, <1>3, <1>4, <1>6, <2>1
    DEF ListGood, ShownIsClear, MarkedIsClear, Covered, CountIsRight, BadgeIsRight
<1>7. CASE d # c
  <2>1. /\ marks'[d] = marks[d] /\ (d \in wrong => d \in wrong') /\ (shown' = d => shown = d)
        /\ (d \in counted' => d \in counted)
    BY <1>1, <1>7, SidebarAssumption
    DEF OpenChat, ForgetChat, SidebarTypeOK, markVars, countVars, history
  <2>. QED
    BY <1>1, <1>2, <1>3, <1>4, <1>7, <2>1, Untouched
<1>. QED
  BY <1>5, <1>6, <1>7

\* An event of a message: the badge goes up with it, or the chat is marked, or is wrong.
LEMMA GoodTakeNew ==
  ASSUME ListInv, Take, Head(events).op = "new", NEW d \in ChatId PROVE ListGood(d)'
<1>1. ListGood(d) /\ SidebarTypeOK /\ EventsOnce /\ events \in Seq(ListEvent) /\ events # <<>>
  BY DEF ListInv, SidebarTypeOK, Take
<1>2. /\ Head(events) \in ListEvent /\ Len(events) \in Nat /\ Len(events) > 0
      /\ Head(events) = events[1] /\ DOMAIN events = 1..Len(events)
  BY <1>1, HeadTailProperties, EventSeq, EmptySeq
<1>0. PICK c \in ChatId, k \in Nat : c = Head(events).chat /\ k = Head(events).message
  BY <1>2 DEF ListEvent
<1>3. /\ TakeNew(c, k) /\ events' = Tail(events)
      /\ UNCHANGED <<sent, gone, pointer, latest, counted, counts>>
  BY <1>0 DEF Take, serverVars, countVars
<1>4. Head(events) = NewEvent(c, k)
  BY <1>0, <1>2 DEF NewEvent, ListEvent
<1>5. k \in 1..sent[c]
  <2>1. 1 \in DOMAIN events
    BY <1>2
  <2>. QED
    BY <1>0, <1>1, <1>2, <2>1 DEF EventsOnce
\* The message has no other event.
<1>6. ~HasEvent(c, k)'
  <2>1. SUFFICES ASSUME HasEvent(c, k)' PROVE FALSE
    OBVIOUS
  <2>2. /\ Tail(events) \in Seq(ListEvent) /\ Len(Tail(events)) = Len(events) - 1
        /\ \A n \in 1..Len(Tail(events)) : Tail(events)[n] = events[n + 1]
    BY <1>1, HeadTailProperties
  <2>3. DOMAIN events' = 1..(Len(events) - 1)
    BY <1>3, <2>2, EventSeq
  <2>4. PICK i \in 1..(Len(events) - 1) : events'[i] = Head(events)
    BY <1>4, <2>1, <2>3 DEF HasEvent, NewEvent
  <2>5. i + 1 \in DOMAIN events /\ 1 \in DOMAIN events /\ i + 1 # 1
    BY <1>2
  <2>6. events[i + 1] = events[1] /\ events[1].op = "new"
    BY <1>2, <1>3, <2>2, <2>4
  <2>. QED
    BY <1>1, <2>5, <2>6 DEF EventsOnce
<1>7. \A m : HasEvent(d, m)' <=> HasEvent(d, m) /\ ~(d = c /\ m = k)
  <2>1. \A m : Head(events) = NewEvent(d, m) <=> d = c /\ m = k
    BY <1>4 DEF NewEvent
  <2>2. \A m : HasEvent(d, m) <=> HasEvent(d, m)' \/ (d = c /\ m = k)
    BY <1>1, <1>3, <2>1, WayTail
  <2>. QED
    BY <1>6, <2>2
<1>8. /\ marks'[d] = IF d = c /\ c = shown THEN marks[d] + 1 ELSE marks[d]
      /\ shown' = shown /\ wrong \subseteq wrong' /\ marks[d] \in Nat /\ badge[d] \in Nat
  BY <1>1, <1>3 DEF TakeNew, Goes, SidebarTypeOK
<1>9. CASE d # c
  <2>1. KnownUnread(d)' = KnownUnread(d) /\ Told(d)' = Told(d)
    BY <1>3, <1>7, <1>9, SameMessages
  <2>2. badge'[d] = badge[d] /\ (d \in ahead => d \in ahead')
    BY <1>1, <1>3, <1>9 DEF TakeNew, Ahead, SidebarTypeOK
  <2>. QED
    BY <1>1, <1>3, <1>8, <1>9, <2>1, <2>2, Untouched
<1>10. CASE d = c
  <2>1. d \in ahead' \/ counts'[d].at # "read"
    BY <1>3, <1>10 DEF TakeNew, Ahead
  <2>2. VisibleIn(d)' = VisibleIn(d) /\ Unread(d)' = Unread(d)
    BY <1>3 DEF VisibleIn, Unread
  <2>3. OnTheWay(d)' = OnTheWay(d) \ {k} /\ k \in OnTheWay(d)
    <3>1. HasEvent(d, k)
      <4>1. 1 \in DOMAIN events
        BY <1>2
      <4>. QED
        BY <1>2, <1>4, <1>10, <4>1 DEF HasEvent
    <3>2. OnTheWay(d)' = {m \in 1..sent[d] : HasEvent(d, m)'}
      BY <1>3 DEF OnTheWay, HasEvent, NewEvent
    <3>. QED
      BY <1>5, <1>7, <1>10, <3>1, <3>2, OnItsWay
  <2>4. /\ k \in Unread(d) => KnownUnread(d)' = KnownUnread(d) \cup {k} /\ k \notin KnownUnread(d)
        /\ k \notin Unread(d) => KnownUnread(d)' = KnownUnread(d)
    BY <2>2, <2>3 DEF KnownUnread
  <2>5. \A m \in Told(d)' : m \in Told(d) \/ (m = k /\ k \in VisibleIn(d))
    BY <2>2, <2>3 DEF Told
  <2>6. CountIsRight(d)'
    BY <2>1 DEF CountIsRight
  <2>7. CASE d = shown
    <3>1. badge'[d] = badge[d]
      BY <1>1, <1>3, <1>10, <2>7 DEF TakeNew, SidebarTypeOK
    <3>2. marks'[d] > 0 /\ marks'[d] # 0
      BY <1>8, <1>10, <2>7
    <3>. QED
      BY <1>1, <1>8, <2>6, <2>7, <3>1, <3>2
      DEF ListGood, ShownIsClear, MarkedIsClear, Covered, BadgeIsRight, Marking
  <2>8. CASE d # shown /\ d \in chats
    <3>1. badge'[d] = badge[d] + 1 /\ (k \notin Unread(d) \/ Marking(d) => d \in wrong')
      BY <1>1, <1>3, <1>10, <2>8 DEF TakeNew, Goes, SidebarTypeOK
    <3>2. (Marking(d)' <=> Marking(d)) /\ (~Marking(d) => latest'[d] = <<>>)
      BY <1>3, <1>8, <2>8 DEF Marking
    <3>3. ShownIsClear(d)' /\ MarkedIsClear(d)' /\ Covered(d)'
      BY <1>8, <2>8, <3>1, <3>2 DEF ShownIsClear, MarkedIsClear, Covered
    <3>4. BadgeIsRight(d)'
      <4>1. SUFFICES ASSUME d \in counted' \ wrong', counts'[d].at = "none", ~Marking(d)'
                     PROVE  badge'[d] = Cardinality(KnownUnread(d)')
        BY DEF BadgeIsRight
      <4>2. k \in Unread(d) /\ d \notin wrong
        BY <1>8, <3>1, <4>1
      <4>3. badge[d] = Cardinality(KnownUnread(d))
        BY <1>1, <1>3, <3>2, <4>1, <4>2 DEF ListGood, BadgeIsRight
      <4>4. Cardinality(KnownUnread(d)') = Cardinality(KnownUnread(d)) + 1
        BY <1>1, <2>4, <4>2, UnreadFinite, FS_AddElement
      <4>. QED
        BY <3>1, <4>3, <4>4
    <3>. QED
      BY <2>6, <3>3, <3>4 DEF ListGood
  <2>9. CASE d # shown /\ d \notin chats
    <3>1. badge'[d] = badge[d] /\ marks'[d] = marks[d]
      BY <1>3, <1>8, <1>10, <2>9 DEF TakeNew
    <3>2. CASE k \notin Unread(d)
      <4>1. \A m \in Told(d)' : m \in Told(d) \/ m <= pointer[d]
        <5>1. k \in VisibleIn(d) => k <= pointer[d]
          <6>1. sent[d] \in Nat /\ pointer[d] \in Int /\ k \in Int
            BY <1>1, <1>5, <1>10 DEF SidebarTypeOK
          <6>. QED
            BY <3>2, <6>1 DEF Unread
        <5>. QED
          BY <2>5, <5>1
      <4>2. MarkedIsClear(d)' /\ ShownIsClear(d)' /\ Covered(d)' /\ BadgeIsRight(d)'
        BY <1>1, <1>3, <1>8, <2>4, <2>9, <3>1, <3>2, <4>1
        DEF ListGood, ShownIsClear, MarkedIsClear, Covered, BadgeIsRight, Marking
      <4>. QED
        BY <2>6, <4>2 DEF ListGood
    <3>3. CASE k \in Unread(d)
      <4>1. marks[d] = 0 /\ d \in counted /\ counts[d].at = "none" => d \in wrong'
        BY <1>3, <1>10, <2>9, <3>3 DEF TakeNew, Goes, StaleOf
      <4>2. BadgeIsRight(d)'
        BY <1>3, <1>8, <3>1, <4>1 DEF BadgeIsRight, Marking
      <4>. QED
        BY <1>1, <1>3, <1>8, <2>6, <2>9, <3>1, <4>1, <4>2
        DEF ListGood, ShownIsClear, MarkedIsClear, Covered, Marking
    <3>. QED
      BY <3>2, <3>3
  <2>. QED
    BY <2>7, <2>8, <2>9
<1>. QED
  BY <1>9, <1>10

LEMMA GoodTakeUpdate ==
  ASSUME ListInv, Take, Head(events).op # "new", NEW d \in ChatId PROVE ListGood(d)'
<1>1. ListGood(d) /\ SidebarTypeOK /\ events \in Seq(ListEvent) /\ events # <<>>
  BY DEF ListInv, SidebarTypeOK, Take
<1>2. /\ TakeUpdate(Head(events).op, Head(events).chat) /\ events' = Tail(events)
      /\ UNCHANGED <<sent, gone, pointer, latest, counted, counts>>
  BY DEF Take, serverVars, countVars
<1>3. \A m : HasEvent(d, m)' <=> HasEvent(d, m)
  <2>1. \A m : Head(events) # NewEvent(d, m)
    BY DEF NewEvent
  <2>. QED
    BY <1>1, <1>2, <2>1, WayTail
<1>4. UNCHANGED <<badge, marks, ahead, wrong>> /\ shown' \in {shown, NoChatId}
  BY <1>2 DEF TakeUpdate, history
<1>5. KnownUnread(d)' = KnownUnread(d) /\ Told(d)' = Told(d)
  BY <1>2, <1>3, SameMessages
<1>6. shown' = d => shown = d
  BY <1>4, SidebarAssumption
<1>. QED
  BY <1>1, <1>2, <1>4, <1>5, <1>6, Untouched

LEMMA ListSteps == ASSUME ListInv, ListNext PROVE ListInv'
<1>1. SidebarTypeOK' /\ EventsOnce'
  BY ListTypes, OnceKeeps
<1>2. ASSUME NEW d \in ChatId PROVE ListGood(d)'
  BY <1>2, GoodNewMessage, GoodDelete, GoodMoves, GoodDrop, GoodFind, GoodWrite, GoodMarkFails,
     GoodElsewhere, GoodReadCount, GoodCounted, GoodCountFails, GoodListed, GoodOpened,
     GoodTakeNew, GoodTakeUpdate DEF ListNext
<1>. QED
  BY <1>1, <1>2 DEF ListInv

\* A badge that nothing is on its way for is the number of messages the server counts as
\* unread (ChatSidebar, ChatItem), for any chats, messages, lists and counts under way,
\* whatever is opened, read, deleted, missed, left and joined meanwhile, but for the cases
\* BadgeSettles names.
THEOREM BadgesSettle == ListSpec => []BadgeSettles
<1>1. (\E in \in SUBSET ChatId : ListInit(in)) => ListInv
  BY ListStarts, SidebarAssumption
<1>2. ListInv /\ [ListNext]_sidebarVars => ListInv'
  <2>1. ASSUME ListInv, UNCHANGED sidebarVars PROVE ListInv'
    <3>1. /\ UNCHANGED <<mine, sent, gone, pointer, online, events, shown, marks, latest, lists>>
          /\ UNCHANGED <<chats, badge, counted, counts, ahead, wrong>>
      BY <2>1 DEF sidebarVars, serverVars, markVars, countVars, history
    <3>2. SidebarTypeOK' /\ EventsOnce'
      BY <2>1, <3>1 DEF ListInv, SidebarTypeOK, EventsOnce
    <3>3. ASSUME NEW d \in ChatId PROVE ListGood(d)'
      <4>1. KnownUnread(d)' = KnownUnread(d) /\ Told(d)' = Told(d)
        BY <3>1, SameQueue, SameMessages
      <4>. QED
        BY <2>1, <3>1, <4>1, Untouched DEF ListInv
    <3>. QED
      BY <3>2, <3>3 DEF ListInv
  <2>. QED
    BY <2>1, ListSteps
<1>3. ListInv => BadgeSettles
  <2>. SUFFICES ASSUME ListInv, NEW c \in (chats \cap mine \cap counted) \ wrong, Quiet(c)
                PROVE  badge[c] = Cardinality(Unread(c))
    BY DEF BadgeSettles
  <2>1. c \in ChatId /\ BadgeIsRight(c)
    BY DEF ListInv, ListGood, SidebarTypeOK
  <2>2. KnownUnread(c) = Unread(c)
    BY DEF KnownUnread, Quiet
  <2>. QED
    BY <2>1, <2>2 DEF BadgeIsRight, Quiet
<1>. QED
  BY <1>1, <1>2, <1>3, PTL DEF ListSpec

(***************************************************************************)
(* Push.  The tasks of every tab are as the tabs want them, and the last   *)
(* of all, once begun, is about the subscription the browser has; of the   *)
(* settings, one tab at least has what the server has, or is about to.     *)
(***************************************************************************)

\* A task, and a setting on its way.
Task == [op : {"setup", "remove"}, at : {"start", "post", "drop"}, endpoint : Nat]
Setting == [user : Person, on : BOOLEAN, nth : Nat]

\* What each variable holds.
PushTypeOK ==
  /\ who \in [Tab -> Person \cup {NoOne}]
  /\ prefs \in [Tab -> BOOLEAN] /\ saved \in BOOLEAN
  /\ fetching \in [Tab -> {"none", "asked", "on", "off"}]
  /\ saves \subseteq Setting /\ notify \in [Person -> BOOLEAN]
  /\ permitted \in BOOLEAN /\ queue \in [Tab -> Seq(Task)]
  /\ made \in 0..MaxEndpoints /\ sub \in 0..MaxEndpoints
  /\ rows \in [Endpoint -> Person \cup {NoOne}]
  /\ last \in Tab /\ mixed \in BOOLEAN /\ failed \in BOOLEAN /\ stale \in BOOLEAN
  /\ pushActs \in Nat

\* Only the browser that is permitted is subscribed.
BlockedIsOff == ~permitted => sub = 0

\* A tab for which nobody is signed in waits for no settings.
OutAsksNothing == \A t \in Tab : fetching[t] # "none" => who[t] # NoOne

\* The tasks of a tab: only the first has begun, and the last is what the tab wants.
Asks(t) == who[t] # NoOne /\ prefs[t]

Begins(t) == \A i \in DOMAIN queue[t] : i # 1 => queue[t][i].at = "start"

EndsAsAsked(t) ==
  queue[t] # <<>> => queue[t][Len(queue[t])].op = IF Asks(t) THEN "setup" ELSE "remove"

\* Unless tabs are at work at once, only the one that asked last is.
OthersRest == ~mixed => \A t \in Tab \ {last} : queue[t] = <<>>

\* The last task of all, once begun, is about the subscription the browser has.
LastTask ==
  ~mixed /\ Len(queue[last]) = 1 /\ queue[last][1].at # "start" =>
    LET task == queue[last][1] IN
      IF task.op = "setup" THEN task.endpoint \in Endpoint /\ (permitted => sub = task.endpoint)
                          ELSE sub \in {0, task.endpoint}

\* When it is done, the browser is as was asked.
AsAsked == IF Wants(last) THEN sub # 0 /\ rows[sub] = who[last] ELSE sub = 0
AtLast  == ~mixed /\ ~failed /\ queue[last] = <<>> => AsAsked

\* Begun setups have an endpoint, which is one that was made.
Endpoints ==
  \A t \in Tab : \A i \in DOMAIN queue[t] :
    queue[t][i].at # "start" => queue[t][i].endpoint \in Endpoint

\* A setting that has been read and not been applied is what the server has; only one is
\* on its way to it.
ReadIsKept ==
  ~stale => \A t \in Tab : fetching[t] \in {"on", "off"} =>
              saves = {} /\ (fetching[t] = "on") = notify[who[t]]
OneSave == ~stale => \A r, s \in saves : r = s

\* A switch as the server has it, or will have it when what is on its way has come.
Believed(t) ==
  IF \E s \in saves : s.user = who[t]
    THEN \E s \in saves : s.user = who[t] /\ prefs[t] = s.on
    ELSE prefs[t] = notify[who[t]]

\* Of the tabs of one user, at least one has it right or is about to.
OneIsRight ==
  ~stale => \A u \in Person : (\A t \in Tab : who[t] = u) =>
              \E t \in Tab : fetching[t] # "none" \/ Believed(t)

\* The inductive invariant of the browser's push.
PushInv ==
  /\ PushTypeOK /\ BlockedIsOff /\ OutAsksNothing
  /\ \A t \in Tab : Begins(t) /\ EndsAsAsked(t)
  /\ OthersRest /\ Endpoints /\ LastTask /\ AtLast
  /\ ReadIsKept /\ OneSave /\ OneIsRight

(***************************************************************************)
(* Queues of tasks.                                                        *)
(***************************************************************************)
\* What a queue is made of.
LEMMA TaskSeq ==
  ASSUME NEW q \in Seq(Task)
  PROVE  /\ Len(q) \in Nat /\ DOMAIN q = 1..Len(q) /\ (q = <<>> <=> Len(q) = 0)
         /\ \A i \in DOMAIN q : q[i] \in Task
BY LenProperties, ElementOfSeq, EmptySeq

\* A task more at the end.
LEMMA TaskAppend ==
  ASSUME NEW q \in Seq(Task), NEW e \in Task
  PROVE  /\ Append(q, e) \in Seq(Task) /\ Append(q, e) # <<>>
         /\ Len(Append(q, e)) = Len(q) + 1 /\ Append(q, e)[Len(q) + 1] = e
         /\ \A i \in DOMAIN Append(q, e) :
              i # Len(q) + 1 => i \in DOMAIN q /\ Append(q, e)[i] = q[i]
<1>1. /\ Append(q, e) \in Seq(Task) /\ Len(Append(q, e)) = Len(q) + 1
      /\ \A i \in 1..Len(q) : Append(q, e)[i] = q[i]
      /\ Append(q, e)[Len(q) + 1] = e
  BY AppendProperties
<1>2. Len(q) \in Nat /\ DOMAIN q = 1..Len(q) /\ DOMAIN Append(q, e) = 1..(Len(q) + 1)
  BY <1>1, TaskSeq
<1>3. \A i \in 1..(Len(q) + 1) : i # Len(q) + 1 => i \in 1..Len(q)
  BY <1>2
<1>4. Append(q, e) # <<>>
  BY <1>1, <1>2, TaskSeq
<1>. QED
  BY <1>1, <1>2, <1>3, <1>4

\* The first task is done.
LEMMA TaskTail ==
  ASSUME NEW q \in Seq(Task), q # <<>>
  PROVE  /\ RemoveAt(q, 1) \in Seq(Task) /\ Len(RemoveAt(q, 1)) = Len(q) - 1
         /\ \A i \in DOMAIN RemoveAt(q, 1) : i + 1 \in DOMAIN q /\ RemoveAt(q, 1)[i] = q[i + 1]
<1>1. Len(q) \in Nat \ {0} /\ DOMAIN q = 1..Len(q)
  BY TaskSeq
<1>2. RemoveAt(q, 1) = SubSeq(q, 1, 0) \o SubSeq(q, 2, Len(q))
  BY DEF RemoveAt
<1>3. SubSeq(q, 1, 0) = <<>>
  BY SubSeqEmpty
<1>4. Tail(q) = SubSeq(q, 2, Len(q)) /\ Tail(q) \in Seq(Task)
  BY TailIsSubSeq, HeadTailProperties
<1>5. <<>> \o Tail(q) = Tail(q)
  BY <1>4, ConcatEmptySeq
<1>6. RemoveAt(q, 1) = Tail(q)
  BY <1>2, <1>3, <1>4, <1>5
<1>7. Len(Tail(q)) = Len(q) - 1 /\ \A i \in 1..Len(Tail(q)) : Tail(q)[i] = q[i + 1]
  BY HeadTailProperties
<1>8. DOMAIN Tail(q) = 1..Len(Tail(q))
  BY <1>4, TaskSeq
<1>9. \A i \in 1..(Len(q) - 1) : i + 1 \in 1..Len(q)
  BY <1>1
<1>. QED
  BY <1>1, <1>4, <1>6, <1>7, <1>8, <1>9

\* The first task moves on; the queues of the other tabs are untouched.
LEMMA TaskMoves ==
  ASSUME queue \in [Tab -> Seq(Task)], NEW t \in Tab, queue[t] # <<>>,
         NEW a \in {"start", "post", "drop"}, NEW e \in Nat, Advance(t, 1, a, e)
  PROVE  /\ queue' \in [Tab -> Seq(Task)] /\ \A v \in Tab \ {t} : queue'[v] = queue[v]
         /\ Len(queue'[t]) = Len(queue[t]) /\ DOMAIN queue'[t] = DOMAIN queue[t]
         /\ 1 \in DOMAIN queue[t] /\ queue'[t] # <<>>
         /\ \A i \in DOMAIN queue[t] : i # 1 => queue'[t][i] = queue[t][i]
         /\ queue'[t][1].op = queue[t][1].op /\ queue'[t][1].at = a
         /\ queue'[t][1].endpoint = e
<1> DEFINE task == [queue[t][1] EXCEPT !.at = a, !.endpoint = e]
<1>1. Len(queue[t]) \in Nat /\ DOMAIN queue[t] = 1..Len(queue[t]) /\ 1 \in 1..Len(queue[t])
      /\ queue[t] \in Seq(Task) /\ queue[t][1] \in Task
  BY TaskSeq
<1>2. task \in Task /\ task.op = queue[t][1].op /\ task.at = a /\ task.endpoint = e
  BY <1>1 DEF Task
<1>3. queue'[t] = [queue[t] EXCEPT ![1] = task] /\ \A v \in Tab \ {t} : queue'[v] = queue[v]
  BY <1>1 DEF Advance
<1>q. queue' = [queue EXCEPT ![t] = [queue[t] EXCEPT ![1] = task]]
  BY <1>1 DEF Advance
<1>. HIDE DEF task
<1>4. /\ [queue[t] EXCEPT ![1] = task] \in Seq(Task)
      /\ Len([queue[t] EXCEPT ![1] = task]) = Len(queue[t])
      /\ \A j \in 1..Len(queue[t]) :
           [queue[t] EXCEPT ![1] = task][j] = IF j = 1 THEN task ELSE queue[t][j]
  BY <1>1, <1>2, ExceptSeq
<1>5. queue' \in [Tab -> Seq(Task)]
  <2> DEFINE q == [queue[t] EXCEPT ![1] = task]
  <2>1. queue' = [queue EXCEPT ![t] = q]
    BY <1>q, Zenon
  <2>2. q \in Seq(Task)
    BY <1>4, Zenon
  <2>. HIDE DEF q
  <2>. QED
    BY <2>1, <2>2
<1>6. DOMAIN queue'[t] = DOMAIN queue[t]
  BY <1>1, <1>3
<1>7. queue'[t] # <<>>
  BY <1>1, <1>6
<1>. QED
  BY <1>1, <1>2, <1>3, <1>4, <1>5, <1>6, <1>7

\* What is said of the tasks, and of their outcome.
QueueInv ==
  /\ \A t \in Tab : Begins(t) /\ EndsAsAsked(t)
  /\ OthersRest /\ Endpoints /\ LastTask /\ AtLast

\* Somebody asks for something: the last of the tasks is his, and has not begun.
LEMMA EnqueueKeeps ==
  ASSUME PushInv, NEW t \in Tab, NEW tasks \in {queue[t], <<>>}, NEW op \in {Setup, Removal},
         Enqueue(t, tasks, op), op = IF who'[t] # NoOne /\ prefs'[t] THEN Setup ELSE Removal,
         \A v \in Tab \ {t} : who'[v] = who[v] /\ prefs'[v] = prefs[v]
  PROVE  QueueInv'
<1>1. PushTypeOK /\ queue \in [Tab -> Seq(Task)]
  BY DEF PushInv, PushTypeOK
<1>2. tasks \in Seq(Task) /\ op \in Task /\ op.at = "start"
      /\ op.op = IF who'[t] # NoOne /\ prefs'[t] THEN "setup" ELSE "remove"
  <2>1. Setup \in Task /\ Setup.at = "start" /\ Setup.op = "setup"
    BY DEF Setup, Task
  <2>2. Removal \in Task /\ Removal.at = "start" /\ Removal.op = "remove"
    BY DEF Removal, Task
  <2>3. queue[t] \in Seq(Task) /\ <<>> \in Seq(Task)
    BY <1>1, EmptySeq
  <2>. QED
    BY <2>1, <2>2, <2>3
<1>3. /\ queue'[t] = Append(tasks, op) /\ \A v \in Tab \ {t} : queue'[v] = queue[v]
      /\ last' = t /\ mixed' = \E v \in Tab \ {t} : queue[v] # <<>>
  BY <1>1 DEF Enqueue
<1>4. /\ Append(tasks, op) # <<>> /\ Len(tasks) \in Nat
      /\ Len(Append(tasks, op)) = Len(tasks) + 1 /\ Append(tasks, op)[Len(tasks) + 1] = op
      /\ \A i \in DOMAIN Append(tasks, op) :
           i # Len(tasks) + 1 => i \in DOMAIN tasks /\ Append(tasks, op)[i] = tasks[i]
  BY <1>2, TaskAppend, TaskSeq
<1>5. \A i \in DOMAIN tasks : i \in DOMAIN queue[t] /\ tasks[i] = queue[t][i]
  OBVIOUS
<1>6. \A v \in Tab : Begins(v)'
  BY <1>2, <1>3, <1>4, <1>5 DEF PushInv, Begins
<1>7. \A v \in Tab : EndsAsAsked(v)'
  BY <1>2, <1>3, <1>4 DEF PushInv, EndsAsAsked, Asks
<1>8. OthersRest'
  BY <1>3 DEF OthersRest
<1>9. Endpoints'
  BY <1>2, <1>3, <1>4, <1>5 DEF PushInv, Endpoints
<1>10. LastTask'
  <2>1. Len(queue'[t]) = 1 => queue'[t][1].at = "start"
    BY <1>2, <1>3, <1>4
  <2>. QED
    BY <1>3, <2>1 DEF LastTask
<1>11. AtLast'
  BY <1>3, <1>4 DEF AtLast
<1>. QED
  BY <1>6, <1>7, <1>8, <1>9, <1>10, <1>11 DEF QueueInv

\* Nothing is asked, and nothing that was is touched.
LEMMA IdleKeeps ==
  ASSUME PushInv, UNCHANGED <<queue, last, mixed, failed, who>>,
         \A t \in Tab : Asks(t)' <=> Asks(t),
         \/ sub' = sub /\ permitted' = permitted
         \/ sub' = 0 /\ ~permitted',
         sub' # 0 => rows'[sub'] = rows[sub']
  PROVE  QueueInv'
<1>1. \A t \in Tab : Begins(t)' /\ EndsAsAsked(t)'
  BY DEF PushInv, Begins, EndsAsAsked
<1>2. OthersRest' /\ Endpoints'
  BY DEF PushInv, OthersRest, Endpoints
<1>3. LastTask'
  BY DEF PushInv, LastTask
<1>4. AtLast'
  <2>1. last \in Tab
    BY DEF PushInv, PushTypeOK
  <2>2. (who'[last] # NoOne /\ prefs'[last]) <=> (who[last] # NoOne /\ prefs[last])
    BY <2>1 DEF Asks
  <2>. QED
    BY <2>1, <2>2 DEF PushInv, AtLast, AsAsked, Wants
<1>. QED
  BY <1>1, <1>2, <1>3, <1>4 DEF QueueInv

\* The tasks of a tab are broken off.
LEMMA BreakKeeps ==
  ASSUME PushInv, NEW t \in Tab, queue' = [queue EXCEPT ![t] = <<>>],
         failed' = (failed \/ queue[t] # <<>>),
         UNCHANGED <<last, mixed, who, permitted, sub, rows>>, who[t] = NoOne,
         \A v \in Tab \ {t} : prefs'[v] = prefs[v]
  PROVE  QueueInv'
<1>1. PushTypeOK /\ queue \in [Tab -> Seq(Task)] /\ last \in Tab
  BY DEF PushInv, PushTypeOK
<1>2. queue'[t] = <<>> /\ \A v \in Tab \ {t} : queue'[v] = queue[v]
  BY <1>1
<1>3. DOMAIN queue'[t] = {} /\ Len(queue'[t]) = 0
  BY <1>2
<1>4. \A v \in Tab : Begins(v)' /\ EndsAsAsked(v)'
  BY <1>2, <1>3 DEF PushInv, Begins, EndsAsAsked, Asks
<1>5. OthersRest' /\ Endpoints'
  BY <1>2, <1>3 DEF PushInv, OthersRest, Endpoints
<1>6. LastTask'
  BY <1>1, <1>2, <1>3 DEF PushInv, LastTask
<1>7. AtLast'
  BY <1>1, <1>2 DEF PushInv, AtLast, AsAsked, Wants
<1>. QED
  BY <1>4, <1>5, <1>6, <1>7 DEF QueueInv

\* A task goes on.
LEMMA AdvanceKeeps ==
  ASSUME PushInv, NEW t \in Tab, queue[t] # <<>>, NEW a \in {"post", "drop"},
         NEW e \in Endpoint, Advance(t, 1, a, e),
         UNCHANGED <<last, mixed, failed, who, prefs, permitted>>,
         t = last /\ ~mixed /\ Len(queue[t]) = 1 =>
           IF queue[t][1].op = "setup" THEN permitted => sub' = e ELSE sub' \in {0, e}
  PROVE  QueueInv'
<1>1. PushTypeOK /\ queue \in [Tab -> Seq(Task)] /\ last \in Tab
  BY DEF PushInv, PushTypeOK
<1>0. e \in Nat
  BY PushAssumption DEF Endpoint
<1>2. /\ \A v \in Tab \ {t} : queue'[v] = queue[v]
      /\ Len(queue'[t]) = Len(queue[t]) /\ DOMAIN queue'[t] = DOMAIN queue[t]
      /\ 1 \in DOMAIN queue[t] /\ queue'[t] # <<>>
      /\ \A i \in DOMAIN queue[t] : i # 1 => queue'[t][i] = queue[t][i]
      /\ queue'[t][1].op = queue[t][1].op /\ queue'[t][1].at = a
      /\ queue'[t][1].endpoint = e
  BY <1>0, <1>1, TaskMoves
<1>3. \A v \in Tab : Begins(v)'
  BY <1>2 DEF PushInv, Begins
<1>4. \A v \in Tab : EndsAsAsked(v)'
  <2>1. Len(queue[t]) \in DOMAIN queue[t]
    BY <1>1, TaskSeq
  <2>2. queue'[t][Len(queue'[t])].op = queue[t][Len(queue[t])].op
    BY <1>2, <2>1
  <2>. QED
    BY <1>2, <2>2 DEF PushInv, EndsAsAsked, Asks
<1>5. OthersRest'
  BY <1>2 DEF PushInv, OthersRest
<1>6. Endpoints'
  BY <1>2 DEF PushInv, Endpoints
<1>7. t # last => mixed
  BY <1>1 DEF PushInv, OthersRest
<1>8. LastTask'
  BY <1>2, <1>7 DEF LastTask
<1>9. AtLast'
  BY <1>2, <1>7 DEF AtLast
<1>. QED
  BY <1>3, <1>4, <1>5, <1>6, <1>8, <1>9 DEF QueueInv

\* A task ends; if it was the last one and ended well, all is as was asked.
LEMMA DoneKeeps ==
  ASSUME PushInv, NEW t \in Tab, queue[t] # <<>>, NEW well \in BOOLEAN, Done(t, 1, well),
         UNCHANGED <<last, mixed, who, prefs, permitted>>,
         t = last /\ ~mixed /\ Len(queue[t]) = 1 /\ well => AsAsked'
  PROVE  QueueInv'
<1>1. PushTypeOK /\ queue \in [Tab -> Seq(Task)] /\ last \in Tab /\ queue[t] \in Seq(Task)
  BY DEF PushInv, PushTypeOK
<1>2. /\ queue'[t] = RemoveAt(queue[t], 1) /\ \A v \in Tab \ {t} : queue'[v] = queue[v]
      /\ failed' = IF t = last THEN ~well ELSE failed
  BY <1>1 DEF Done
<1>3. /\ queue'[t] \in Seq(Task) /\ Len(queue'[t]) = Len(queue[t]) - 1
      /\ \A i \in DOMAIN queue'[t] : i + 1 \in DOMAIN queue[t] /\ queue'[t][i] = queue[t][i + 1]
  BY <1>1, <1>2, TaskTail
<1>4. /\ Len(queue[t]) \in Nat \ {0} /\ DOMAIN queue[t] = 1..Len(queue[t])
      /\ DOMAIN queue'[t] = 1..Len(queue'[t]) /\ (queue'[t] = <<>> <=> Len(queue'[t]) = 0)
  BY <1>1, <1>3, TaskSeq
<1>5. \A i \in DOMAIN queue'[t] : queue'[t][i].at = "start"
  <2>1. \A i \in DOMAIN queue'[t] : i + 1 # 1
    BY <1>3, <1>4
  <2>. QED
    BY <1>3, <2>1 DEF PushInv, Begins
<1>6. \A v \in Tab : Begins(v)'
  BY <1>2, <1>5 DEF PushInv, Begins
<1>7. \A v \in Tab : EndsAsAsked(v)'
  <2>1. queue'[t] # <<>> => /\ Len(queue'[t]) \in DOMAIN queue'[t]
                            /\ Len(queue'[t]) + 1 = Len(queue[t])
    BY <1>3, <1>4
  <2>2. queue'[t] # <<>> => queue'[t][Len(queue'[t])].op = queue[t][Len(queue[t])].op
    BY <1>3, <2>1
  <2>. QED
    BY <1>2, <2>2 DEF PushInv, EndsAsAsked, Asks
<1>8. t # last => mixed
  BY <1>1 DEF PushInv, OthersRest
<1>9. OthersRest'
  BY <1>2, <1>8 DEF PushInv, OthersRest
<1>10. Endpoints'
  BY <1>2, <1>5 DEF PushInv, Endpoints
<1>11. LastTask'
  <2>1. Len(queue'[t]) = 1 => queue'[t][1].at = "start"
    BY <1>4, <1>5
  <2>. QED
    BY <1>8, <2>1 DEF LastTask
<1>12. AtLast'
  <2>1. queue'[t] = <<>> => Len(queue[t]) = 1
    BY <1>3, <1>4
  <2>. QED
    BY <1>2, <1>8, <2>1 DEF AtLast
<1>. QED
  BY <1>6, <1>7, <1>9, <1>10, <1>11, <1>12 DEF QueueInv

(***************************************************************************)
(* The inductive invariant, from the initial states on.                    *)
(***************************************************************************)
\* It holds of a browser that was never used.
LEMMA PushStarts == ASSUME PushInit PROVE PushInv
<1>. USE DEF PushInit
<1>0. MaxEndpoints \in Nat /\ NoOne \notin Person
  BY PushAssumption
<1>q. <<>> \in Seq(Task) /\ DOMAIN <<>> = {}
  BY EmptySeq
<1>n. 0 \in Nat /\ 0 \in 0..MaxEndpoints
  BY <1>0
<1>1. PushTypeOK
  <2>1. who \in [Tab -> Person \cup {NoOne}] /\ rows \in [Endpoint -> Person \cup {NoOne}]
    OBVIOUS
  <2>2. /\ prefs \in [Tab -> BOOLEAN] /\ fetching \in [Tab -> {"none", "asked", "on", "off"}]
        /\ notify \in [Person -> BOOLEAN]
    OBVIOUS
  <2>3. queue \in [Tab -> Seq(Task)] /\ saves \subseteq Setting
    BY <1>q
  <2>. QED
    BY <1>n, <2>1, <2>2, <2>3 DEF PushTypeOK
<1>2. BlockedIsOff /\ OutAsksNothing /\ OthersRest
  BY DEF BlockedIsOff, OutAsksNothing, OthersRest
<1>3. \A t \in Tab : Begins(t) /\ EndsAsAsked(t)
  BY <1>q DEF Begins, EndsAsAsked
<1>4. Endpoints /\ AtLast
  BY <1>q DEF Endpoints, AtLast, AsAsked, Wants
<1>5. LastTask
  <2>1. Len(queue[last]) = 0
    BY <1>q, EmptySeq
  <2>. QED
    BY <2>1 DEF LastTask
<1>6. ReadIsKept /\ OneSave /\ OneIsRight
  BY <1>0 DEF ReadIsKept, OneSave, OneIsRight
<1>. QED
  BY <1>1, <1>2, <1>3, <1>4, <1>5, <1>6 DEF PushInv

\* Somebody asks for something: a task more.
LEMMA EnqueueType ==
  ASSUME PushTypeOK, NEW t \in Tab, NEW tasks \in Seq(Task), NEW op \in {Setup, Removal},
         Enqueue(t, tasks, op)
  PROVE  queue' \in [Tab -> Seq(Task)] /\ last' \in Tab /\ mixed' \in BOOLEAN
<1>1. op \in Task
  BY DEF Setup, Removal, Task
<1>2. Append(tasks, op) \in Seq(Task)
  BY <1>1, TaskAppend
<1>. QED
  BY <1>2 DEF PushTypeOK, Enqueue

\* A task ends: a task fewer.
LEMMA DoneType ==
  ASSUME PushTypeOK, NEW t \in Tab, queue[t] # <<>>, NEW well \in BOOLEAN, Done(t, 1, well)
  PROVE  queue' \in [Tab -> Seq(Task)] /\ failed' \in BOOLEAN
<1>1. RemoveAt(queue[t], 1) \in Seq(Task)
  BY TaskTail DEF PushTypeOK
<1>. QED
  BY <1>1 DEF PushTypeOK, Done

\* The types, and who is subscribed and who waits for settings.
Basics == PushTypeOK /\ BlockedIsOff /\ OutAsksNothing

\* These hold after every step.
LEMMA PushBasics == ASSUME PushInv, PushNext PROVE Basics'
<1>0. MaxEndpoints \in Nat /\ NoOne \notin Person /\ Endpoint = 1..MaxEndpoints
  BY PushAssumption DEF Endpoint
<1>1. PushTypeOK /\ BlockedIsOff /\ OutAsksNothing
  BY DEF PushInv
<1>q. <<>> \in Seq(Task) /\ \A t \in Tab : queue[t] \in Seq(Task)
  BY <1>1, EmptySeq DEF PushTypeOK
<1>s. \A on \in BOOLEAN : (IF on THEN Setup ELSE Removal) \in {Setup, Removal}
  OBVIOUS
<1>2. ASSUME NEW t \in Tab, NEW u \in Person, SignIn(t, u) PROVE Basics'
  <2>1. prefs[t] \in BOOLEAN
    BY <1>1 DEF PushTypeOK
  <2>2. queue' \in [Tab -> Seq(Task)] /\ last' \in Tab /\ mixed' \in BOOLEAN
    BY <1>1, <1>2, <1>q, <1>s, <2>1, EnqueueType DEF SignIn, Sync
  <2>s. stale' \in BOOLEAN
    BY <1>2 DEF SignIn
  <2>w. who' \in [Tab -> Person \cup {NoOne}]
    BY <1>1, <1>2 DEF PushTypeOK, SignIn
  <2>f. fetching' \in [Tab -> {"none", "asked", "on", "off"}]
    BY <1>1, <1>2 DEF PushTypeOK, SignIn
  <2>n. pushActs' \in Nat
    BY <1>1, <1>2 DEF PushTypeOK, SignIn, PushActs
  <2>3. PushTypeOK'
    BY <1>1, <1>2, <2>2, <2>s, <2>w, <2>f, <2>n DEF PushTypeOK, SignIn, browser
  <2>4. BlockedIsOff' /\ OutAsksNothing'
    BY <1>0, <1>1, <1>2 DEF PushTypeOK, BlockedIsOff, OutAsksNothing, SignIn, browser
  <2>. QED
    BY <2>3, <2>4 DEF Basics
<1>3. ASSUME NEW t \in Tab, SignOut(t) PROVE Basics'
  <2>2. queue' \in [Tab -> Seq(Task)] /\ last' \in Tab /\ mixed' \in BOOLEAN
    BY <1>1, <1>3, <1>q, EnqueueType DEF SignOut
  <2>w. who' \in [Tab -> Person \cup {NoOne}]
    BY <1>1, <1>3 DEF PushTypeOK, SignOut
  <2>f. fetching' \in [Tab -> {"none", "asked", "on", "off"}]
    BY <1>1, <1>3 DEF PushTypeOK, SignOut
  <2>n. pushActs' \in Nat
    BY <1>1, <1>3 DEF PushTypeOK, SignOut, PushActs
  <2>3. PushTypeOK'
    BY <1>1, <1>3, <2>2, <2>w, <2>f, <2>n DEF PushTypeOK, SignOut, browser
  <2>4. BlockedIsOff' /\ OutAsksNothing'
    BY <1>1, <1>3 DEF PushTypeOK, BlockedIsOff, OutAsksNothing, SignOut, browser
  <2>. QED
    BY <2>3, <2>4 DEF Basics
<1>4. ASSUME NEW t \in Tab, Switch(t) PROVE Basics'
  <2>1. prefs[t] \in BOOLEAN /\ (~prefs[t]) \in BOOLEAN
    BY <1>1 DEF PushTypeOK
  <2>p. who[t] \in Person /\ pushActs \in Nat
    BY <1>1, <1>4 DEF PushTypeOK, Switch
  <2>2. queue' \in [Tab -> Seq(Task)] /\ last' \in Tab /\ mixed' \in BOOLEAN
    BY <1>1, <1>4, <1>q, <1>s, <2>1, EnqueueType DEF Switch, Sync
  <2>3. saves' \subseteq Setting /\ prefs' \in [Tab -> BOOLEAN] /\ saved' \in BOOLEAN
    <3>1. [user |-> who[t], on |-> ~prefs[t], nth |-> pushActs] \in Setting
      BY <2>1, <2>p DEF Setting
    <3>2. saves \subseteq Setting /\ prefs \in [Tab -> BOOLEAN]
      BY <1>1 DEF PushTypeOK
    <3>3. saves' \subseteq Setting
      BY <1>4, <3>1, <3>2 DEF Switch
    <3>4. prefs' = [prefs EXCEPT ![t] = ~prefs[t]] /\ saved' = ~prefs[t]
      BY <1>4 DEF Switch
    <3>5. prefs' \in [Tab -> BOOLEAN]
      BY <2>1, <3>2, <3>4
    <3>. QED
      BY <2>1, <3>3, <3>4, <3>5
  <2>4. PushTypeOK'
    BY <1>1, <1>4, <2>2, <2>3 DEF PushTypeOK, Switch, PushActs, browser
  <2>5. BlockedIsOff' /\ OutAsksNothing'
    BY <1>1, <1>4 DEF BlockedIsOff, OutAsksNothing, Switch, browser
  <2>. QED
    BY <2>4, <2>5 DEF Basics
<1>5. ASSUME NEW t \in Tab, LoadPage(t) PROVE Basics'
  <2>1. saved \in BOOLEAN
    BY <1>1 DEF PushTypeOK
  <2>2. queue' \in [Tab -> Seq(Task)] /\ last' \in Tab /\ mixed' \in BOOLEAN
    <3>1. CASE who[t] = NoOne
      BY <1>1, <1>5, <1>q, <3>1 DEF PushTypeOK, LoadPage
    <3>2. CASE who[t] # NoOne
      BY <1>1, <1>5, <1>q, <1>s, <2>1, <3>2, EnqueueType DEF LoadPage, Sync
    <3>. QED
      BY <3>1, <3>2
  <2>p. prefs' \in [Tab -> BOOLEAN]
    BY <1>1, <1>5, <2>1 DEF PushTypeOK, LoadPage
  <2>s. stale' \in BOOLEAN /\ failed' \in BOOLEAN
    BY <1>1, <1>5 DEF PushTypeOK, LoadPage
  <2>f. fetching' \in [Tab -> {"none", "asked", "on", "off"}]
    BY <1>1, <1>5 DEF PushTypeOK, LoadPage
  <2>n. pushActs' \in Nat
    BY <1>1, <1>5 DEF PushTypeOK, LoadPage, PushActs
  <2>3. PushTypeOK'
    BY <1>1, <1>5, <2>2, <2>p, <2>s, <2>f, <2>n DEF PushTypeOK, LoadPage, browser
  <2>4. BlockedIsOff' /\ OutAsksNothing'
    BY <1>1, <1>5 DEF PushTypeOK, BlockedIsOff, OutAsksNothing, LoadPage, browser
  <2>. QED
    BY <2>3, <2>4 DEF Basics
<1>6. ASSUME NEW t \in Tab, Grant(t) PROVE Basics'
  <2>2. queue' \in [Tab -> Seq(Task)] /\ last' \in Tab /\ mixed' \in BOOLEAN
    BY <1>1, <1>6, <1>q, EnqueueType DEF Grant
  <2>3. PushTypeOK'
    BY <1>1, <1>6, <2>2
    DEF PushTypeOK, Grant, PushActs, EnsureNotificationPermission, settings, browser
  <2>4. BlockedIsOff' /\ OutAsksNothing'
    BY <1>1, <1>6
    DEF BlockedIsOff, OutAsksNothing, Grant, EnsureNotificationPermission, settings, browser
  <2>. QED
    BY <2>3, <2>4 DEF Basics
<1>7. CASE Block
  <2>n. pushActs' \in Nat
    BY <1>1, <1>7 DEF PushTypeOK, Block, PushActs
  <2>z. 0 \in 0..MaxEndpoints
    BY <1>0
  <2>1. sub' \in 0..MaxEndpoints /\ pushActs' \in Nat /\ permitted' \in BOOLEAN
    BY <1>7, <2>n, <2>z DEF Block
  <2>2. PushTypeOK'
    BY <1>1, <1>7, <2>1 DEF PushTypeOK, Block, settings
  <2>3. BlockedIsOff' /\ OutAsksNothing'
    BY <1>1, <1>7 DEF BlockedIsOff, OutAsksNothing, Block, settings
  <2>. QED
    BY <2>2, <2>3 DEF Basics
<1>8. ASSUME NEW t \in Tab, GetSettings(t) PROVE Basics'
  BY <1>1, <1>8 DEF Basics, PushTypeOK, BlockedIsOff, OutAsksNothing, GetSettings, browser
<1>9. ASSUME NEW t \in Tab, SettingsLoaded(t) PROVE Basics'
  <2> DEFINE on == fetching[t] = "on"
  <2>1. on \in BOOLEAN
    OBVIOUS
  <2>2. queue' \in [Tab -> Seq(Task)] /\ last' \in Tab /\ mixed' \in BOOLEAN
    <3>1. CASE on = prefs[t]
      BY <1>1, <1>9, <3>1 DEF PushTypeOK, SettingsLoaded
    <3>2. CASE on # prefs[t]
      BY <1>1, <1>9, <1>q, <1>s, <2>1, <3>2, EnqueueType DEF SettingsLoaded, Sync
    <3>. QED
      BY <3>1, <3>2
  <2>3. PushTypeOK'
    BY <1>1, <1>9, <2>1, <2>2 DEF PushTypeOK, SettingsLoaded, browser
  <2>4. BlockedIsOff' /\ OutAsksNothing'
    BY <1>1, <1>9 DEF PushTypeOK, BlockedIsOff, OutAsksNothing, SettingsLoaded, browser
  <2>. QED
    BY <2>3, <2>4 DEF Basics
<1>10. ASSUME NEW t \in Tab, SettingsFail(t) PROVE Basics'
  BY <1>1, <1>10 DEF Basics, PushTypeOK, BlockedIsOff, OutAsksNothing, SettingsFail, browser
<1>11. ASSUME NEW s \in saves, UpdateNotifications(s) PROVE Basics'
  <2>1. s \in Setting
    BY <1>1 DEF PushTypeOK
  <2>2. notify' \in [Person -> BOOLEAN] /\ saves' \subseteq Setting
    BY <1>1, <1>11, <2>1 DEF PushTypeOK, UpdateNotifications, Setting
  <2>. QED
    BY <1>1, <1>11, <2>2
    DEF Basics, PushTypeOK, BlockedIsOff, OutAsksNothing, UpdateNotifications, browser
<1>12. ASSUME NEW s \in saves, SaveFails(s) PROVE Basics'
  BY <1>1, <1>12 DEF Basics, PushTypeOK, BlockedIsOff, OutAsksNothing, SaveFails, browser
<1>13. ASSUME NEW t \in Tab, NEW i \in DOMAIN queue[t], SetupStart(t, i) PROVE Basics'
  <2>1. i = 1 /\ queue[t] # <<>>
    BY <1>13 DEF SetupStart, At, Turn
  <2>2. sub' \in 0..MaxEndpoints /\ made' \in 0..MaxEndpoints /\ (~permitted => sub' = sub)
    BY <1>0, <1>1, <1>13 DEF PushTypeOK, SetupStart, browser
  <2>3. queue' \in [Tab -> Seq(Task)] /\ failed' \in BOOLEAN
    <3>1. CASE permitted
      <4>1. Advance(t, 1, "post", sub') /\ failed' = failed /\ sub' \in Nat
        BY <1>0, <1>13, <2>1, <2>2, <3>1 DEF SetupStart
      <4>. QED
        BY <1>1, <2>1, <4>1, TaskMoves DEF PushTypeOK
    <3>2. CASE ~permitted
      BY <1>1, <1>13, <2>1, <3>2, DoneType DEF SetupStart
    <3>. QED
      BY <3>1, <3>2
  <2>. QED
    BY <1>1, <1>13, <2>2, <2>3
    DEF Basics, PushTypeOK, BlockedIsOff, OutAsksNothing, SetupStart, settings
<1>14. ASSUME NEW t \in Tab, NEW i \in DOMAIN queue[t], Subscribe(t, i) PROVE Basics'
  <2>1. i = 1 /\ queue[t] # <<>> /\ Done(t, 1, who[t] # NoOne)
    BY <1>14 DEF Subscribe, At, Turn
  <2>2. queue' \in [Tab -> Seq(Task)] /\ failed' \in BOOLEAN
    BY <1>1, <2>1, DoneType
  <2>3. rows' \in [Endpoint -> Person \cup {NoOne}]
    BY <1>1, <1>14 DEF PushTypeOK, Subscribe, UpsertByEndpoint
  <2>. QED
    BY <1>1, <1>14, <2>2, <2>3
    DEF Basics, PushTypeOK, BlockedIsOff, OutAsksNothing, Subscribe, settings, browser
<1>15. ASSUME NEW t \in Tab, NEW i \in DOMAIN queue[t], TaskFails(t, i) PROVE Basics'
  <2>1. i = 1 /\ queue[t] # <<>> /\ Done(t, 1, FALSE)
    BY <1>15 DEF TaskFails, Turn
  <2>2. queue' \in [Tab -> Seq(Task)] /\ failed' \in BOOLEAN
    BY <1>1, <2>1, DoneType
  <2>. QED
    BY <1>1, <1>15, <2>2
    DEF Basics, PushTypeOK, BlockedIsOff, OutAsksNothing, TaskFails, settings, browser
<1>16. ASSUME NEW t \in Tab, NEW i \in DOMAIN queue[t], RemoveStart(t, i) PROVE Basics'
  <2>1. i = 1 /\ queue[t] # <<>>
    BY <1>16 DEF RemoveStart, At, Turn
  <2>2. queue' \in [Tab -> Seq(Task)] /\ failed' \in BOOLEAN
    <3>1. CASE sub = 0
      BY <1>1, <1>16, <2>1, <3>1, DoneType DEF RemoveStart
    <3>2. CASE sub # 0
      <4>1. Advance(t, 1, "post", sub) /\ failed' = failed /\ sub \in Nat
        BY <1>0, <1>1, <1>16, <2>1, <3>2 DEF PushTypeOK, RemoveStart
      <4>. QED
        BY <1>1, <2>1, <4>1, TaskMoves DEF PushTypeOK
    <3>. QED
      BY <3>1, <3>2
  <2>. QED
    BY <1>1, <1>16, <2>2
    DEF Basics, PushTypeOK, BlockedIsOff, OutAsksNothing, RemoveStart, settings, browser
<1>17. ASSUME NEW t \in Tab, NEW i \in DOMAIN queue[t], Unsubscribe(t, i) PROVE Basics'
  <2>1. i = 1 /\ queue[t] # <<>> /\ Advance(t, 1, "drop", queue[t][1].endpoint)
    BY <1>17 DEF Unsubscribe, At, Turn
  <2>2. queue' \in [Tab -> Seq(Task)]
    <3>1. queue[t][1] \in Task
      BY <1>17, <1>q, <2>1, TaskSeq
    <3>2. queue[t][1].endpoint \in Nat
      BY <3>1 DEF Task
    <3>. QED
      BY <1>1, <2>1, <3>2, TaskMoves DEF PushTypeOK
  <2>3. rows' \in [Endpoint -> Person \cup {NoOne}]
    BY <1>1, <1>17 DEF PushTypeOK, Unsubscribe, DeleteByEndpoint
  <2>. QED
    BY <1>1, <1>17, <2>2, <2>3
    DEF Basics, PushTypeOK, BlockedIsOff, OutAsksNothing, Unsubscribe, settings, browser
<1>18. ASSUME NEW t \in Tab, NEW i \in DOMAIN queue[t], Drop(t, i) PROVE Basics'
  <2>1. i = 1 /\ queue[t] # <<>> /\ Done(t, 1, TRUE)
    BY <1>18 DEF Drop, At, Turn
  <2>2. queue' \in [Tab -> Seq(Task)] /\ failed' \in BOOLEAN
    BY <1>1, <2>1, DoneType
  <2>3. sub' \in {0, sub} /\ 0 \in 0..MaxEndpoints
    BY <1>0, <1>18 DEF Drop
  <2>. QED
    BY <1>1, <1>18, <2>2, <2>3
    DEF Basics, PushTypeOK, BlockedIsOff, OutAsksNothing, Drop, settings
<1>19. ASSUME NEW u \in Person, NotifyMessage(u) PROVE Basics'
  BY <1>1, <1>19
  DEF Basics, PushTypeOK, BlockedIsOff, OutAsksNothing, NotifyMessage, settings, browser
<1>20. ASSUME NEW e \in sends, SendOne(e) PROVE Basics'
  <2>1. rows' \in [Endpoint -> Person \cup {NoOne}]
    BY <1>1, <1>20 DEF PushTypeOK, SendOne, DeleteByEndpoint
  <2>. QED
    BY <1>1, <1>20, <2>1
    DEF Basics, PushTypeOK, BlockedIsOff, OutAsksNothing, SendOne, settings, browser
<1>. QED
  BY <1>2, <1>3, <1>4, <1>5, <1>6, <1>7, <1>8, <1>9, <1>10, <1>11, <1>12, <1>13, <1>14, <1>15,
     <1>16, <1>17, <1>18, <1>19, <1>20 DEF PushNext

\* The last task is what the tab wants.
LEMMA LastIsAsked ==
  ASSUME PushInv, NEW t \in Tab, queue[t] # <<>>, Len(queue[t]) = 1
  PROVE  queue[t][1].op = IF Asks(t) THEN "setup" ELSE "remove"
BY DEF PushInv, EndsAsAsked

\* The step by step account of the tasks.
LEMMA PushQueues == ASSUME PushInv, PushNext PROVE QueueInv'
<1>0. MaxEndpoints \in Nat /\ NoOne \notin Person /\ Endpoint = 1..MaxEndpoints
  BY PushAssumption DEF Endpoint
<1>1. PushTypeOK /\ BlockedIsOff /\ OutAsksNothing
  BY DEF PushInv
<1>e. who \in [Tab -> Person \cup {NoOne}] /\ prefs \in [Tab -> BOOLEAN] /\ saved \in BOOLEAN
  BY <1>1 DEF PushTypeOK
<1>2. ASSUME NEW t \in Tab, NEW u \in Person, SignIn(t, u) PROVE QueueInv'
  <2>1. /\ who'[t] = u /\ u # NoOne /\ prefs' = prefs
        /\ \A v \in Tab \ {t} : who'[v] = who[v] /\ prefs'[v] = prefs[v]
    BY <1>0, <1>2, <1>e DEF SignIn
  <2>2. Enqueue(t, queue[t], IF prefs[t] THEN Setup ELSE Removal)
    BY <1>2 DEF SignIn, Sync
  <2>. QED
    BY <2>1, <2>2, EnqueueKeeps
<1>3. ASSUME NEW t \in Tab, SignOut(t) PROVE QueueInv'
  <2>1. /\ who'[t] = NoOne
        /\ \A v \in Tab \ {t} : who'[v] = who[v] /\ prefs'[v] = prefs[v]
    BY <1>3, <1>e DEF SignOut
  <2>2. Enqueue(t, queue[t], Removal)
    BY <1>3 DEF SignOut
  <2>. QED
    BY <2>1, <2>2, EnqueueKeeps
<1>4. ASSUME NEW t \in Tab, Switch(t) PROVE QueueInv'
  <2>1. /\ who'[t] # NoOne /\ prefs'[t] = ~prefs[t]
        /\ \A v \in Tab \ {t} : who'[v] = who[v] /\ prefs'[v] = prefs[v]
    BY <1>4, <1>e DEF Switch
  <2>2. Enqueue(t, queue[t], IF ~prefs[t] THEN Setup ELSE Removal)
    BY <1>4 DEF Switch, Sync
  <2>. QED
    BY <2>1, <2>2, EnqueueKeeps
<1>5. ASSUME NEW t \in Tab, LoadPage(t) PROVE QueueInv'
  <2>1. /\ who' = who /\ prefs'[t] = saved /\ permitted' = permitted
        /\ sub' = sub /\ rows' = rows
        /\ \A v \in Tab \ {t} : who'[v] = who[v] /\ prefs'[v] = prefs[v]
    BY <1>5, <1>e DEF LoadPage, browser
  <2>2. CASE who[t] = NoOne
    <3>1. /\ queue' = [queue EXCEPT ![t] = <<>>]
          /\ failed' = (failed \/ queue[t] # <<>>)
          /\ UNCHANGED <<last, mixed>>
      BY <1>5, <2>2 DEF LoadPage
    <3>. QED
      BY <2>1, <2>2, <3>1, BreakKeeps
  <2>3. CASE who[t] # NoOne
    <3>1. Enqueue(t, <<>>, IF saved THEN Setup ELSE Removal)
      BY <1>5, <2>3 DEF LoadPage, Sync
    <3>. QED
      BY <2>1, <2>3, <3>1, EnqueueKeeps
  <2>. QED
    BY <2>2, <2>3
<1>6. ASSUME NEW t \in Tab, Grant(t) PROVE QueueInv'
  <2>1. who' = who /\ prefs' = prefs /\ who[t] # NoOne /\ prefs[t]
    BY <1>6 DEF Grant, settings
  <2>2. Enqueue(t, queue[t], Setup)
    BY <1>6 DEF Grant
  <2>. QED
    BY <2>1, <2>2, EnqueueKeeps
<1>7. CASE Block
  <2>1. /\ UNCHANGED <<queue, last, mixed, failed, who, prefs>>
        /\ sub' = 0 /\ ~permitted'
    BY <1>7 DEF Block, settings
  <2>. QED
    BY <2>1, IdleKeeps DEF Asks
<1>8. ASSUME NEW t \in Tab, GetSettings(t) PROVE QueueInv'
  <2>1. UNCHANGED <<queue, last, mixed, failed, who, prefs, sub, permitted, rows>>
    BY <1>8 DEF GetSettings, browser
  <2>. QED
    BY <2>1, IdleKeeps DEF Asks
<1>9. ASSUME NEW t \in Tab, SettingsLoaded(t) PROVE QueueInv'
  <2> DEFINE on == fetching[t] = "on"
  <2>1. /\ who' = who /\ permitted' = permitted /\ sub' = sub /\ rows' = rows
        /\ failed' = failed /\ prefs'[t] = on
        /\ \A v \in Tab \ {t} : who'[v] = who[v] /\ prefs'[v] = prefs[v]
    BY <1>9, <1>e DEF SettingsLoaded, browser
  <2>2. CASE on = prefs[t]
    <3>1. UNCHANGED <<queue, last, mixed>>
      BY <1>9, <2>2 DEF SettingsLoaded
    <3>2. \A v \in Tab : prefs'[v] = prefs[v]
      BY <2>1, <2>2
    <3>. QED
      BY <2>1, <3>1, <3>2, IdleKeeps DEF Asks
  <2>3. CASE on # prefs[t]
    <3>1. Enqueue(t, queue[t], IF on THEN Setup ELSE Removal)
      BY <1>9, <2>3 DEF SettingsLoaded, Sync
    <3>2. who[t] # NoOne
      BY <1>1, <1>9 DEF OutAsksNothing, SettingsLoaded
    <3>3. (IF on THEN Setup ELSE Removal) = IF who'[t] # NoOne /\ prefs'[t] THEN Setup ELSE Removal
      BY <2>1, <3>2
    <3>. QED
      BY <2>1, <3>1, <3>3, EnqueueKeeps
  <2>. QED
    BY <2>2, <2>3
<1>10. ASSUME NEW t \in Tab, SettingsFail(t) PROVE QueueInv'
  <2>1. UNCHANGED <<queue, last, mixed, failed, who, prefs, sub, permitted, rows>>
    BY <1>10 DEF SettingsFail, browser
  <2>. QED
    BY <2>1, IdleKeeps DEF Asks
<1>11. ASSUME NEW s \in saves, UpdateNotifications(s) PROVE QueueInv'
  <2>1. UNCHANGED <<queue, last, mixed, failed, who, prefs, sub, permitted, rows>>
    BY <1>11 DEF UpdateNotifications, browser
  <2>. QED
    BY <2>1, IdleKeeps DEF Asks
<1>12. ASSUME NEW s \in saves, SaveFails(s) PROVE QueueInv'
  <2>1. UNCHANGED <<queue, last, mixed, failed, who, prefs, sub, permitted, rows>>
    BY <1>12 DEF SaveFails, browser
  <2>. QED
    BY <2>1, IdleKeeps DEF Asks
<1>13. ASSUME NEW t \in Tab, NEW i \in DOMAIN queue[t], SetupStart(t, i) PROVE QueueInv'
  <2>1. i = 1 /\ queue[t] # <<>> /\ queue[t][1].op = "setup"
    BY <1>13 DEF SetupStart, At, Turn
  <2>2. UNCHANGED <<last, mixed, who, prefs, permitted, rows>>
    BY <1>13 DEF SetupStart, settings
  <2>3. CASE permitted
    <3>1. /\ Advance(t, 1, "post", sub') /\ failed' = failed
          /\ made' = IF sub = 0 THEN made + 1 ELSE made
          /\ made' \in 0..MaxEndpoints
          /\ sub' = IF sub = 0 THEN made' ELSE sub
      BY <1>13, <2>1, <2>3 DEF SetupStart
    <3>2. sub \in 0..MaxEndpoints /\ made \in 0..MaxEndpoints
      BY <1>1 DEF PushTypeOK
    <3>3. sub' \in Endpoint
      BY <1>0, <3>1, <3>2
    <3>4. PICK e \in Endpoint : e = sub'
      BY <3>3
    <3>. QED
      BY <2>1, <2>2, <3>1, <3>4, AdvanceKeeps
  <2>4. CASE ~permitted
    <3>1. Done(t, 1, TRUE) /\ sub' = sub
      BY <1>13, <2>1, <2>4 DEF SetupStart, browser
    <3>2. AsAsked'
      BY <1>1, <2>2, <2>4, <3>1 DEF AsAsked, Wants, BlockedIsOff
    <3>. QED
      BY <2>1, <2>2, <3>1, <3>2, DoneKeeps
  <2>. QED
    BY <2>3, <2>4
<1>14. ASSUME NEW t \in Tab, NEW i \in DOMAIN queue[t], Subscribe(t, i) PROVE QueueInv'
  <2>1. /\ i = 1 /\ queue[t] # <<>> /\ queue[t][1].op = "setup" /\ queue[t][1].at = "post"
        /\ Done(t, 1, who[t] # NoOne)
    BY <1>14 DEF Subscribe, At, Turn
  <2>2. UNCHANGED <<last, mixed, who, prefs, permitted, sub>>
    BY <1>14 DEF Subscribe, settings, browser
  <2>3. ASSUME t = last, ~mixed, Len(queue[t]) = 1, who[t] # NoOne PROVE AsAsked'
    <3>1. Asks(t)
      BY <2>1, <2>3, LastIsAsked
    <3>2. queue[t][1].endpoint \in Endpoint /\ (permitted => sub = queue[t][1].endpoint)
      BY <2>1, <2>3 DEF PushInv, LastTask
    <3>3. rows' = [rows EXCEPT ![queue[t][1].endpoint] = who[t]]
      BY <1>14, <2>1, <2>3 DEF Subscribe, UpsertByEndpoint
    <3>4. CASE permitted
      <4>1. sub \in Endpoint /\ sub # 0 /\ rows'[sub] = who[t]
        BY <1>0, <1>1, <3>2, <3>3, <3>4 DEF PushTypeOK
      <4>. QED
        BY <2>2, <2>3, <3>1, <3>4, <4>1 DEF AsAsked, Wants, Asks
    <3>5. CASE ~permitted
      BY <1>1, <2>2, <3>5 DEF AsAsked, Wants, BlockedIsOff
    <3>. QED
      BY <3>4, <3>5
  <2>. QED
    BY <2>1, <2>2, <2>3, DoneKeeps
<1>15. ASSUME NEW t \in Tab, NEW i \in DOMAIN queue[t], TaskFails(t, i) PROVE QueueInv'
  <2>1. queue[t] # <<>> /\ Done(t, 1, FALSE)
    BY <1>15 DEF TaskFails, Turn
  <2>2. UNCHANGED <<last, mixed, who, prefs, permitted>>
    BY <1>15 DEF TaskFails, settings
  <2>. QED
    BY <2>1, <2>2, DoneKeeps
<1>16. ASSUME NEW t \in Tab, NEW i \in DOMAIN queue[t], RemoveStart(t, i) PROVE QueueInv'
  <2>1. i = 1 /\ queue[t] # <<>> /\ queue[t][1].op = "remove"
    BY <1>16 DEF RemoveStart, At, Turn
  <2>2. UNCHANGED <<last, mixed, who, prefs, permitted, sub>>
    BY <1>16 DEF RemoveStart, settings, browser
  <2>3. CASE sub # 0
    <3>1. Advance(t, 1, "post", sub) /\ failed' = failed
      BY <1>16, <2>1, <2>3 DEF RemoveStart
    <3>2. sub \in Endpoint
      BY <1>0, <1>1, <2>3 DEF PushTypeOK
    <3>. QED
      BY <2>1, <2>2, <3>1, <3>2, AdvanceKeeps
  <2>4. CASE sub = 0
    <3>1. Done(t, 1, TRUE)
      BY <1>16, <2>1, <2>4 DEF RemoveStart
    <3>2. ASSUME t = last, Len(queue[t]) = 1 PROVE AsAsked'
      <4>1. ~Asks(t)
        BY <2>1, <3>2, LastIsAsked
      <4>. QED
        BY <2>2, <2>4, <3>2, <4>1 DEF AsAsked, Wants, Asks
    <3>. QED
      BY <2>1, <2>2, <3>1, <3>2, DoneKeeps
  <2>. QED
    BY <2>3, <2>4
<1>17. ASSUME NEW t \in Tab, NEW i \in DOMAIN queue[t], Unsubscribe(t, i) PROVE QueueInv'
  <2>1. /\ i = 1 /\ queue[t] # <<>> /\ queue[t][1].op = "remove" /\ queue[t][1].at = "post"
        /\ Advance(t, 1, "drop", queue[t][1].endpoint)
    BY <1>17 DEF Unsubscribe, At, Turn
  <2>2. UNCHANGED <<last, mixed, failed, who, prefs, permitted, sub>>
    BY <1>17 DEF Unsubscribe, settings, browser
  <2>3. queue[t][1].endpoint \in Endpoint
    BY <1>17, <2>1 DEF PushInv, Endpoints
  <2>4. t = last /\ ~mixed /\ Len(queue[t]) = 1 => sub \in {0, queue[t][1].endpoint}
    BY <2>1 DEF PushInv, LastTask
  <2>. QED
    BY <2>1, <2>2, <2>3, <2>4, AdvanceKeeps
<1>18. ASSUME NEW t \in Tab, NEW i \in DOMAIN queue[t], Drop(t, i) PROVE QueueInv'
  <2>1. /\ i = 1 /\ queue[t] # <<>> /\ queue[t][1].op = "remove" /\ queue[t][1].at = "drop"
        /\ Done(t, 1, TRUE) /\ sub' = IF sub = queue[t][1].endpoint THEN 0 ELSE sub
    BY <1>18 DEF Drop, At, Turn
  <2>2. UNCHANGED <<last, mixed, who, prefs, permitted>>
    BY <1>18 DEF Drop, settings
  <2>3. ASSUME t = last, ~mixed, Len(queue[t]) = 1 PROVE AsAsked'
    <3>1. ~Asks(t)
      BY <2>1, <2>3, LastIsAsked
    <3>2. sub' = 0
      BY <2>1, <2>3 DEF PushInv, LastTask
    <3>. QED
      BY <2>2, <2>3, <3>1, <3>2 DEF AsAsked, Wants, Asks
  <2>. QED
    BY <2>1, <2>2, <2>3, DoneKeeps
<1>19. ASSUME NEW u \in Person, NotifyMessage(u) PROVE QueueInv'
  <2>1. UNCHANGED <<queue, last, mixed, failed, who, prefs, sub, permitted, rows>>
    BY <1>19 DEF NotifyMessage, settings, browser
  <2>. QED
    BY <2>1, IdleKeeps DEF Asks
<1>20. ASSUME NEW e \in sends, SendOne(e) PROVE QueueInv'
  <2>1. UNCHANGED <<queue, last, mixed, failed, who, prefs, sub, permitted>>
    BY <1>20 DEF SendOne, settings, browser
  <2>2. sub # 0 => rows'[sub] = rows[sub]
    BY <1>0, <1>1, <1>20 DEF PushTypeOK, SendOne, DeleteByEndpoint
  <2>. QED
    BY <2>1, <2>2, IdleKeeps DEF Asks
<1>. QED
  BY <1>2, <1>3, <1>4, <1>5, <1>6, <1>7, <1>8, <1>9, <1>10, <1>11, <1>12, <1>13, <1>14, <1>15,
     <1>16, <1>17, <1>18, <1>19, <1>20 DEF PushNext

\* What is said of the switch and the server's copy of it.
SettingsInv == ReadIsKept /\ OneSave /\ OneIsRight

\* A step that touches none of it.
LEMMA SettingsUntouched ==
  ASSUME PushInv, UNCHANGED <<who, prefs, fetching, saves, notify, stale>>
  PROVE  SettingsInv'
BY DEF PushInv, SettingsInv, ReadIsKept, OneSave, OneIsRight, Believed

\* The step by step account of the switch and the settings under way.
LEMMA PushSettings == ASSUME PushInv, PushNext PROVE SettingsInv'
<1>0. NoOne \notin Person
  BY PushAssumption
<1>1. /\ who \in [Tab -> Person \cup {NoOne}] /\ prefs \in [Tab -> BOOLEAN]
      /\ fetching \in [Tab -> {"none", "asked", "on", "off"}]
      /\ saves \subseteq Setting /\ notify \in [Person -> BOOLEAN]
  BY DEF PushInv, PushTypeOK
<1>i. ReadIsKept /\ OneSave /\ OneIsRight /\ OutAsksNothing
  BY DEF PushInv
<1>u. UNCHANGED <<who, settings, stale>> => SettingsInv'
  <2>1. UNCHANGED settings => UNCHANGED <<prefs, fetching, saves, notify>>
    BY DEF settings
  <2>. QED
    BY <2>1, SettingsUntouched
<1>2. ASSUME NEW t \in Tab, NEW u \in Person, SignIn(t, u) PROVE SettingsInv'
  <2>1. /\ who' = [who EXCEPT ![t] = u] /\ fetching' = [fetching EXCEPT ![t] = "asked"]
        /\ stale' = (stale /\ ~Settled) /\ UNCHANGED <<prefs, saves, notify>>
    BY <1>2 DEF SignIn
  <2>2. /\ fetching'[t] = "asked"
        /\ \A v \in Tab \ {t} : fetching'[v] = fetching[v] /\ who'[v] = who[v]
    BY <1>1, <2>1
  <2>3. ReadIsKept'
    <3>. SUFFICES ASSUME ~stale', NEW v \in Tab, fetching'[v] \in {"on", "off"}
                  PROVE  saves' = {} /\ (fetching'[v] = "on") = notify'[who'[v]]
      BY DEF ReadIsKept
    <3>1. v # t /\ fetching[v] \in {"on", "off"}
      BY <2>2
    <3>2. ~stale
      BY <2>1, <3>1 DEF Settled
    <3>. QED
      BY <1>i, <2>1, <2>2, <3>1, <3>2 DEF ReadIsKept
  <2>4. OneSave'
    BY <1>i, <2>1 DEF OneSave, Settled
  <2>5. OneIsRight'
    BY <2>2 DEF OneIsRight
  <2>. QED
    BY <2>3, <2>4, <2>5 DEF SettingsInv
<1>3. ASSUME NEW t \in Tab, SignOut(t) PROVE SettingsInv'
  <2>1. /\ who'[t] = NoOne /\ fetching'[t] = "none"
        /\ \A v \in Tab \ {t} : fetching'[v] = fetching[v] /\ who'[v] = who[v]
        /\ UNCHANGED <<prefs, saves, notify, stale>>
    BY <1>1, <1>3 DEF SignOut
  <2>2. ReadIsKept' /\ OneSave'
    BY <1>i, <2>1 DEF ReadIsKept, OneSave
  <2>3. OneIsRight'
    BY <1>0, <2>1 DEF OneIsRight
  <2>. QED
    BY <2>2, <2>3 DEF SettingsInv
<1>4. ASSUME NEW t \in Tab, Switch(t) PROVE SettingsInv'
  <2> DEFINE s == [user |-> who[t], on |-> ~prefs[t], nth |-> pushActs]
  <2>1. /\ prefs' = [prefs EXCEPT ![t] = ~prefs[t]] /\ saves' = saves \cup {s}
        /\ stale' = (stale \/ ~Settled) /\ UNCHANGED <<who, fetching, notify>>
    BY <1>4 DEF Switch
  <2>2. ~stale' => saves' = {s} /\ \A v \in Tab : fetching'[v] = "none"
    BY <2>1 DEF Settled
  <2>3. ReadIsKept' /\ OneSave'
    BY <2>2 DEF ReadIsKept, OneSave
  <2>4. ASSUME ~stale' PROVE Believed(t)'
    <3>1. s \in saves' /\ s.user = who'[t] /\ prefs'[t] = s.on
      BY <1>1, <2>1
    <3>. QED
      BY <3>1 DEF Believed
  <2>5. OneIsRight'
    BY <2>4 DEF OneIsRight
  <2>. QED
    BY <2>3, <2>5 DEF SettingsInv
<1>5. ASSUME NEW t \in Tab, LoadPage(t) PROVE SettingsInv'
  <2>1. /\ fetching'[t] = IF who[t] = NoOne THEN "none" ELSE "asked"
        /\ \A v \in Tab \ {t} : fetching'[v] = fetching[v]
        /\ stale' = (stale \/ saves # {}) /\ UNCHANGED <<who, saves, notify>>
    BY <1>1, <1>5 DEF LoadPage
  <2>2. ReadIsKept' /\ OneSave'
    BY <1>i, <2>1 DEF ReadIsKept, OneSave
  <2>3. OneIsRight'
    BY <1>0, <2>1 DEF OneIsRight
  <2>. QED
    BY <2>2, <2>3 DEF SettingsInv
<1>6. ASSUME NEW t \in Tab, Grant(t) PROVE SettingsInv'
  BY <1>6, <1>u DEF Grant
<1>7. CASE Block
  BY <1>7, <1>u DEF Block
<1>8. ASSUME NEW t \in Tab, GetSettings(t) PROVE SettingsInv'
  <2>1. /\ fetching'[t] = IF notify[who[t]] THEN "on" ELSE "off"
        /\ \A v \in Tab \ {t} : fetching'[v] = fetching[v]
        /\ stale' = (stale \/ saves # {}) /\ UNCHANGED <<who, prefs, saves, notify>>
    BY <1>1, <1>8 DEF GetSettings
  <2>2. notify[who[t]] \in BOOLEAN
    BY <1>1, <1>8, <1>i DEF GetSettings, OutAsksNothing
  <2>3. ReadIsKept' /\ OneSave'
    BY <1>i, <2>1, <2>2 DEF ReadIsKept, OneSave
  <2>4. OneIsRight'
    BY <2>1 DEF OneIsRight
  <2>. QED
    BY <2>3, <2>4 DEF SettingsInv
<1>9. ASSUME NEW t \in Tab, SettingsLoaded(t) PROVE SettingsInv'
  <2>1. /\ fetching[t] \in {"on", "off"} /\ fetching'[t] = "none"
        /\ prefs'[t] = (fetching[t] = "on")
        /\ \A v \in Tab \ {t} : fetching'[v] = fetching[v]
        /\ UNCHANGED <<who, saves, notify, stale>>
    BY <1>1, <1>9 DEF SettingsLoaded
  <2>2. ReadIsKept' /\ OneSave'
    BY <1>i, <2>1 DEF ReadIsKept, OneSave
  <2>3. ~stale' => Believed(t)'
    BY <1>i, <2>1 DEF ReadIsKept, Believed
  <2>4. OneIsRight'
    BY <2>3 DEF OneIsRight
  <2>. QED
    BY <2>2, <2>4 DEF SettingsInv
<1>10. ASSUME NEW t \in Tab, SettingsFail(t) PROVE SettingsInv'
  <2>1. stale'
    BY <1>10 DEF SettingsFail
  <2>. QED
    BY <2>1 DEF SettingsInv, ReadIsKept, OneSave, OneIsRight
<1>11. ASSUME NEW s \in saves, UpdateNotifications(s) PROVE SettingsInv'
  <2>1. /\ saves' = saves \ {s} /\ notify' = [notify EXCEPT ![s.user] = s.on]
        /\ UNCHANGED <<who, prefs, fetching, stale>>
    BY <1>11 DEF UpdateNotifications
  <2>2. ReadIsKept' /\ OneSave'
    BY <1>i, <2>1 DEF ReadIsKept, OneSave
  <2>3. ASSUME ~stale, NEW v \in Tab, who[v] \in Person, Believed(v) PROVE Believed(v)'
    <3>1. saves = {s} /\ saves' = {}
      BY <1>i, <2>1, <2>3 DEF OneSave
    <3>2. prefs[v] = IF s.user = who[v] THEN s.on ELSE notify[who[v]]
      BY <2>3, <3>1 DEF Believed
    <3>3. notify'[who[v]] = IF s.user = who[v] THEN s.on ELSE notify[who[v]]
      BY <1>1, <2>1, <2>3
    <3>. QED
      BY <2>1, <3>1, <3>2, <3>3 DEF Believed
  <2>4. OneIsRight'
    <3>. SUFFICES ASSUME ~stale', NEW u \in Person, \A v \in Tab : who'[v] = u
                  PROVE  \E v \in Tab : fetching'[v] # "none" \/ Believed(v)'
      BY DEF OneIsRight
    <3>1. PICK v \in Tab : fetching[v] # "none" \/ Believed(v)
      BY <1>i, <2>1 DEF OneIsRight
    <3>2. Believed(v) => Believed(v)'
      BY <2>1, <2>3
    <3>. QED
      BY <2>1, <3>1, <3>2
  <2>. QED
    BY <2>2, <2>4 DEF SettingsInv
<1>12. ASSUME NEW s \in saves, SaveFails(s) PROVE SettingsInv'
  <2>1. stale'
    BY <1>12 DEF SaveFails
  <2>. QED
    BY <2>1 DEF SettingsInv, ReadIsKept, OneSave, OneIsRight
<1>13. ASSUME NEW t \in Tab, NEW i \in DOMAIN queue[t],
              SetupStart(t, i) \/ Subscribe(t, i) \/ TaskFails(t, i)
              \/ RemoveStart(t, i) \/ Unsubscribe(t, i) \/ Drop(t, i)
       PROVE  SettingsInv'
  BY <1>13, <1>u DEF SetupStart, Subscribe, TaskFails, RemoveStart, Unsubscribe, Drop
<1>14. ASSUME NEW u \in Person, NotifyMessage(u) PROVE SettingsInv'
  BY <1>14, <1>u DEF NotifyMessage
<1>15. ASSUME NEW e \in sends, SendOne(e) PROVE SettingsInv'
  BY <1>15, <1>u DEF SendOne
<1>. QED
  BY <1>2, <1>3, <1>4, <1>5, <1>6, <1>7, <1>8, <1>9, <1>10, <1>11, <1>12, <1>13, <1>14, <1>15
     DEF PushNext

\* A stuttering step changes nothing of it.
LEMMA PushStutters == ASSUME PushInv, UNCHANGED pushVars PROVE PushInv'
BY DEF PushInv, pushVars, settings, browser, PushTypeOK, BlockedIsOff, OutAsksNothing, Begins,
       EndsAsAsked, Asks, OthersRest, Endpoints, LastTask, AtLast, AsAsked, Wants, ReadIsKept,
       OneSave, OneIsRight, Believed

\* The invariant says what is to be shown: at rest the last task of the tab that asked last
\* is done, and a tab that has the switch right is like every other.
LEMMA PushInvSettles == ASSUME PushInv PROVE PushSettles
<1>. SUFFICES ASSUME AtRest, ~mixed, ~failed
              PROVE  /\ AsAsked
                     /\ ~stale /\ (\A t \in Tab : who[t] = who[last] /\ prefs[t] = prefs[last]) =>
                          (who[last] # NoOne => prefs[last] = notify[who[last]])
  BY DEF PushSettles, AsAsked
<1>1. last \in Tab /\ who \in [Tab -> Person \cup {NoOne}]
  BY DEF PushInv, PushTypeOK
<1>2. saves = {} /\ (\A t \in Tab : fetching[t] = "none") /\ queue[last] = <<>>
  BY <1>1 DEF AtRest, Settled
<1>3. AsAsked
  BY <1>2 DEF PushInv, AtLast
<1>4. ASSUME ~stale, \A t \in Tab : who[t] = who[last] /\ prefs[t] = prefs[last],
             who[last] # NoOne
      PROVE  prefs[last] = notify[who[last]]
  <2>1. PICK t \in Tab : Believed(t)
    BY <1>1, <1>2, <1>4 DEF PushInv, OneIsRight
  <2>2. prefs[t] = notify[who[t]]
    BY <1>2, <2>1 DEF Believed
  <2>. QED
    BY <1>4, <2>2
<1>. QED
  BY <1>3, <1>4

\* When all that was asked in a browser is done, it is subscribed or not as the tab that
\* asked last wants it, its endpoint is that tab's user's, and the switch is what the
\* server has (lib/push.ts, NotificationsProvider.tsx): for any number of tabs and users.
THEOREM PushIsAsAsked == PushSpec => []PushSettles
<1>1. PushInit => PushInv
  BY PushStarts
<1>2. PushInv /\ [PushNext]_pushVars => PushInv'
  <2>1. ASSUME PushInv, PushNext PROVE PushInv'
    BY <2>1, PushBasics, PushQueues, PushSettings DEF PushInv, Basics, QueueInv, SettingsInv
  <2>. QED
    BY <2>1, PushStutters
<1>3. PushInv => PushSettles
  BY PushInvSettles
<1>. QED
  BY <1>1, <1>2, <1>3, PTL DEF PushSpec
=============================================================================
