------------------------------ MODULE ChatList ------------------------------
(***************************************************************************)
(* The list of chats beside the page (web ChatSidebar.tsx, ChatItem.tsx),  *)
(* and its badges: how many messages of each chat are unread.              *)
(*                                                                         *)
(* A badge starts from the server's count, is kept up by the events of the *)
(* socket and cleared when its chat is opened; the page marks the chat read*)
(* (ChatThreads).  Messages are those of other people, numbered as they are*)
(* sent; the server counts the visible ones behind the read pointer, and   *)
(* they may be deleted, read in another browser, or missed by the socket.  *)
(***************************************************************************)
EXTENDS Naturals, Sequences, FiniteSets, SequencesExt

CONSTANTS ChatId, NoChatId,
          MaxMessages, \* bound: messages of a chat
          MaxMoves,    \* bound: what people do and what fails, together
          MaxLists     \* bound: lists under way at a time

ASSUME SidebarAssumption == NoChatId \notin ChatId

VARIABLES
  mine,     \* chats the user is in
  sent,     \* the last message of each
  gone,     \* messages that are deleted
  pointer,  \* lastReadMessageId: the last message the user has read
  online,   \* the socket is connected
  events,   \* on their way to the browser
  shown,    \* the chat on the screen
  marks,    \* marks of each chat that are asked for
  latest,   \* ... and those that have found their message
  lists,    \* list requests under way: what was read, or "asked"
  chats,    \* the chats in the list
  badge,
  counted,  \* countRequested
  counts,   \* the count request of each chat: "none", "asked", or the number read
  ahead,    \* history: chats whose count something got ahead of
  wrong,    \* history: chats whose badge nothing corrects until they are opened or counted
  moves

serverVars == <<mine, sent, gone, pointer>>
markVars   == <<marks, latest>>
countVars  == <<counted, counts>>
history    == <<ahead, wrong>>
sidebarVars == <<serverVars, online, events, shown, markVars, lists, chats, badge, countVars,
                 history, moves>>

Asked == [read |-> FALSE, chats |-> {}]
NoCount == [at |-> "none", n |-> 0]

\* The user is in some chats, with a message in each, and the page has just been loaded.
ListInit(in) ==
  /\ mine = in /\ sent = [c \in ChatId |-> IF c \in in THEN 1 ELSE 0]
  /\ gone = [c \in ChatId |-> {}] /\ pointer = [c \in ChatId |-> 0]
  /\ online = TRUE /\ events = <<>> /\ shown = NoChatId
  /\ marks = [c \in ChatId |-> 0] /\ latest = [c \in ChatId |-> <<>>]
  /\ lists = <<Asked>> /\ chats = {} /\ badge = [c \in ChatId |-> 0]
  /\ counted = {} /\ counts = [c \in ChatId |-> NoCount]
  /\ ahead = {} /\ wrong = {} /\ moves = 0

VisibleIn(c) == (1..sent[c]) \ gone[c]

\* countUnread: what is visible and newer than the pointer, deleted or not, is.
Unread(c) == {m \in VisibleIn(c) : m > pointer[c]}

NewEvent(c, m)    == [op |-> "new", chat |-> c, message |-> m]
UpdateEvent(o, c) == [op |-> o, chat |-> c, message |-> 0]
OnTheWay(c) == {m \in 1..sent[c] : \E i \in DOMAIN events : events[i] = NewEvent(c, m)}

\* The unread messages whose events have come, or never will.
KnownUnread(c) == Unread(c) \ OnTheWay(c)

Moves == moves < MaxMoves /\ moves' = moves + 1
Hears(c) == online /\ c \in mine
Marking(c) == marks[c] > 0 \/ latest[c] # <<>>

\* History.  KnownUnread(c) changes for the chats in S, and the badge does not: a count that is
\* still to be read will have it, one that has been read will not, and a mark that has
\* not found its message yet will clear it.
Ahead(S) == ahead' = ahead \cup {c \in S : counts[c].at = "read"}
StaleOf(S) == {c \in S : /\ marks[c] = 0
                         /\ c = shown \/ (c \in counted /\ counts[c].at = "none")}
Goes(S)  == wrong' = wrong \cup S
Aside(S) == Ahead(S) /\ Goes(StaleOf(S))

(***************************************************************************)
(* The server.                                                             *)
(***************************************************************************)
Arrives(c) ==
  /\ sent[c] < MaxMessages
  /\ sent' = [sent EXCEPT ![c] = @ + 1]
  /\ UNCHANGED <<mine, gone, pointer, online, shown, markVars, lists, chats, badge, countVars>>

NewMessage(c) ==
  /\ Hears(c) /\ Arrives(c)
  /\ events' = Append(events, NewEvent(c, sent[c] + 1))
  /\ UNCHANGED <<history, moves>>

\* The socket is down, the user has left, or the server dies before it tells the room.
\* Nothing is fetched again when the socket is back.
MissedMessage(c) ==
  /\ IF Hears(c) THEN Moves ELSE UNCHANGED moves
  /\ Arrives(c) /\ Aside({c})
  /\ UNCHANGED events

\* The sender deletes a message: message:deleted (onMessageChanged) changes the preview of
\* the chat, and leaves the badge.
DeleteMessage(c, m) ==
  /\ m \in VisibleIn(c) /\ Moves
  /\ gone' = [gone EXCEPT ![c] = @ \cup {m}]
  /\ Aside(IF m \in KnownUnread(c) THEN {c} ELSE {})
  /\ UNCHANGED <<mine, sent, pointer, online, events, shown, markVars, lists, chats, badge,
                 countVars>>

\* The user is added to a chat, or removed from it; the members are told.
Update(op, c) ==
  /\ Moves
  /\ events' = IF online THEN Append(events, UpdateEvent(op, c)) ELSE events
  /\ UNCHANGED <<sent, gone, pointer, online, shown, markVars, lists, chats, badge, countVars,
                 history>>

Added(c)   == c \notin mine /\ mine' = mine \cup {c} /\ Update("in", c)
Removed(c) == c \in mine    /\ mine' = mine \ {c}    /\ Update("out", c)

\* markChatRead finds the last visible message, or none, ...
IsLatest(c, m) == m \in {0} \cup VisibleIn(c) /\ \A n \in VisibleIn(c) : n <= m

FindLatest(c, m) ==
  /\ marks[c] > 0 /\ c \in mine /\ IsLatest(c, m)
  /\ marks' = [marks EXCEPT ![c] = @ - 1]
  /\ latest' = [latest EXCEPT ![c] = Append(@, m)]
  /\ UNCHANGED <<serverVars, online, events, shown, lists, chats, badge, countVars, history, moves>>

\* ... looks whether it is still there, and writes it; one that was overtaken sets the
\* pointer back.
WriteMark(c, i) ==
  LET m == latest[c][i] IN
  /\ m \notin gone[c]
  /\ pointer' = [pointer EXCEPT ![c] = m]
  /\ latest' = [latest EXCEPT ![c] = RemoveAt(@, i)]
  /\ Ahead({c})
  /\ Goes(IF \E n \in VisibleIn(c) : m < n /\ n <= pointer[c] THEN {c} ELSE {})
  /\ UNCHANGED <<mine, sent, gone, online, events, shown, marks, lists, chats, badge, countVars,
                 moves>>

\* A mark is refused to one who has been removed, and for a message deleted meanwhile;
\* any may fail.
MarkFails(c) ==
  /\ \/ /\ marks[c] > 0
        /\ IF c \in mine THEN Moves ELSE UNCHANGED moves
        /\ marks' = [marks EXCEPT ![c] = @ - 1]
        /\ UNCHANGED latest
     \/ \E i \in DOMAIN latest[c] :
          /\ IF latest[c][i] \notin gone[c] THEN Moves ELSE UNCHANGED moves
          /\ latest' = [latest EXCEPT ![c] = RemoveAt(@, i)]
          /\ UNCHANGED marks
  /\ Goes({c})
  /\ UNCHANGED <<serverVars, online, events, shown, lists, chats, badge, countVars, ahead>>

\* The user reads the chat in another browser: onReadReceipt ignores what is one's own.
ReadElsewhere(c, m) ==
  /\ c \in mine /\ IsLatest(c, m) /\ Moves
  /\ pointer' = [pointer EXCEPT ![c] = m]
  /\ Aside(IF KnownUnread(c) # {} THEN {c} ELSE {})
  /\ UNCHANGED <<mine, sent, gone, online, events, shown, markVars, lists, chats, badge,
                 countVars>>

\* The socket breaks, with what is on its way.
SocketDrops ==
  /\ online /\ Moves
  /\ online' = FALSE /\ events' = <<>>
  /\ Aside({c \in ChatId : OnTheWay(c) \cap Unread(c) # {}})
  /\ UNCHANGED <<serverVars, shown, markVars, lists, chats, badge, countVars>>

SocketReturns ==
  /\ ~online
  /\ online' = TRUE
  /\ UNCHANGED <<serverVars, events, shown, markVars, lists, chats, badge, countVars, history, moves>>

\* listChats, and getUnreadCount of one chat.
ReadList(i) ==
  /\ ~lists[i].read
  /\ lists' = [lists EXCEPT ![i] = [read |-> TRUE, chats |-> mine]]
  /\ UNCHANGED <<serverVars, online, events, shown, markVars, chats, badge, countVars, history, moves>>

\* Messages that the number has, and whose events have not come, are counted twice.
ReadCount(c) ==
  /\ counts[c].at = "asked" /\ c \in mine
  /\ counts' = [counts EXCEPT ![c] = [at |-> "read", n |-> Cardinality(Unread(c))]]
  /\ ahead' = IF KnownUnread(c) = Unread(c) THEN ahead \ {c} ELSE ahead \cup {c}
  /\ UNCHANGED <<serverVars, online, events, shown, markVars, lists, chats, badge, counted, wrong,
                 moves>>

(***************************************************************************)
(* The list.                                                               *)
(***************************************************************************)
\* seedUnread: a number is asked for once.
Seed(S) ==
  /\ counted' = counted \cup S
  /\ counts' = [c \in ChatId |->
                  IF c \in S \ counted THEN [at |-> "asked", n |-> 0] ELSE counts[c]]

\* What was read before a later event, or before another list, replaces what they did.
Listed(i) ==
  /\ lists[i].read
  /\ lists' = RemoveAt(lists, i)
  /\ chats' = lists[i].chats
  /\ Seed(lists[i].chats)
  /\ UNCHANGED <<serverVars, online, events, shown, markVars, badge, history, moves>>

ListFails(i) ==
  /\ Moves
  /\ lists' = RemoveAt(lists, i)
  /\ UNCHANGED <<serverVars, online, events, shown, markVars, chats, badge, countVars, history>>

\* Mutant of Counted: the number is shown though the chat has been opened.
Counted_Open(c) ==
  /\ counts[c].at = "read"
  /\ counts' = [counts EXCEPT ![c] = NoCount]
  /\ badge' = [badge EXCEPT ![c] = counts[c].n]
  /\ wrong' = IF c = shown THEN wrong
              ELSE IF c \in ahead \/ Marking(c) THEN wrong \cup {c} ELSE wrong \ {c}
  /\ UNCHANGED <<serverVars, online, events, shown, markVars, lists, chats, counted, ahead, moves>>

Counted(c) ==
  /\ counts[c].at = "read"
  /\ counts' = [counts EXCEPT ![c] = NoCount]
  /\ badge' = [badge EXCEPT ![c] = IF c = shown THEN 0 ELSE counts[c].n]
  /\ wrong' = IF c = shown THEN wrong
              ELSE IF c \in ahead \/ Marking(c) THEN wrong \cup {c} ELSE wrong \ {c}
  /\ UNCHANGED <<serverVars, online, events, shown, markVars, lists, chats, counted, ahead, moves>>

\* A count that fails, or is refused to one who has been removed, may be asked for again.
CountFails(c) ==
  /\ counts[c].at # "none" /\ Moves
  /\ counts' = [counts EXCEPT ![c] = NoCount]
  /\ counted' = counted \ {c}
  /\ UNCHANGED <<serverVars, online, events, shown, markVars, lists, chats, badge, history>>

\* Opening a chat clears its badge, and the page marks it read.
OpenChat(c) ==
  /\ shown # c /\ c \in chats /\ Moves
  /\ shown' = c
  /\ badge' = [badge EXCEPT ![c] = 0]
  /\ marks' = [marks EXCEPT ![c] = @ + 1]
  /\ wrong' = wrong \ {c}
  /\ UNCHANGED <<serverVars, online, events, latest, lists, chats, countVars, ahead>>

Close ==
  /\ shown # NoChatId
  /\ shown' = NoChatId
  /\ UNCHANGED <<serverVars, online, events, markVars, lists, chats, badge, countVars, history, moves>>

\* onNewMessage: a chat the list does not have is fetched with the list; the badge of
\* one that is not open goes up, and the page of one that is marks it read.
TakeNew(c, m) ==
  /\ marks' = [marks EXCEPT ![c] = IF c = shown THEN @ + 1 ELSE @]
  /\ IF c \in chats
       THEN /\ badge' = [badge EXCEPT ![c] = IF c = shown THEN @ ELSE @ + 1]
            /\ Goes(IF c # shown /\ (m \notin Unread(c) \/ Marking(c)) THEN {c} ELSE {})
            /\ UNCHANGED lists
       ELSE /\ Len(lists) < MaxLists
            /\ lists' = Append(lists, Asked)
            /\ Goes(IF c # shown /\ m \in Unread(c) THEN StaleOf({c}) ELSE {})
            /\ UNCHANGED badge
  /\ Ahead({c})
  /\ UNCHANGED <<shown, chats>>

\* onChatUpdated: the chat leaves the list, and the page; one that the list does not
\* have stays out of it.
TakeUpdate(op, c) ==
  /\ chats' = IF op = "out" THEN chats \ {c} ELSE chats
  /\ shown' = IF op = "out" /\ c = shown THEN NoChatId ELSE shown
  /\ UNCHANGED <<badge, marks, lists, history>>

Take ==
  /\ events # <<>>
  /\ events' = Tail(events)
  /\ LET e == Head(events) IN
       IF e.op = "new" THEN TakeNew(e.chat, e.message) ELSE TakeUpdate(e.op, e.chat)
  /\ UNCHANGED <<serverVars, online, latest, countVars, moves>>

\* "Delete for me" (ChatItem.tsx): the user is out, and the chat and its number forgotten
\* (bound: its count has been answered, so that one of a chat is under way at a time).
ForgetChat(c) ==
  /\ c \in chats \cap mine /\ counts[c].at = "none" /\ Moves
  /\ mine' = mine \ {c} /\ chats' = chats \ {c}
  /\ badge' = [badge EXCEPT ![c] = 0]
  /\ counted' = counted \ {c}
  /\ shown' = IF shown = c THEN NoChatId ELSE shown
  /\ UNCHANGED <<sent, gone, pointer, online, events, markVars, lists, counts, history>>

ListNext ==
  \/ \E c \in ChatId : \/ NewMessage(c) \/ MissedMessage(c) \/ Added(c) \/ Removed(c)
                        \/ MarkFails(c) \/ ReadCount(c) \/ Counted(c) \/ CountFails(c)
                        \/ OpenChat(c) \/ ForgetChat(c)
                        \/ \E m \in 0..sent[c] :
                             DeleteMessage(c, m) \/ FindLatest(c, m) \/ ReadElsewhere(c, m)
                        \/ \E i \in DOMAIN latest[c] : WriteMark(c, i)
  \/ \E i \in DOMAIN lists : ReadList(i) \/ Listed(i) \/ ListFails(i)
  \/ Take \/ Close \/ SocketDrops \/ SocketReturns

ListSpec == (\E in \in SUBSET ChatId : ListInit(in)) /\ [][ListNext]_sidebarVars

(***************************************************************************)
(* Properties.                                                             *)
(***************************************************************************)
\* Nothing about c is under way.
Quiet(c) == OnTheWay(c) = {} /\ ~Marking(c) /\ counts[c].at = "none"

\* When all has come in, a badge is the number of messages the server has as unread,
\* whichever chats were opened, left, joined and listed meanwhile (ChatSidebar.tsx:41-194)
\* - but for what nothing corrects until the chat is opened or counted again:
\*   what the list is not told, or does not heed: an unread message that is deleted, a chat
\*     read in another browser, a message missed with the socket down or out of the chat;
\*   a count that an event, a mark or one of these got ahead of;
\*   a message told after it was read or deleted, or while the chat is being marked;
\*   a mark that failed, or that set the pointer back behind another;
\*   a message of a chat that was out of the list and had been counted (countRequested).
BadgeSettles ==
  \A c \in (chats \cap mine \cap counted) \ wrong :
    Quiet(c) => badge[c] = Cardinality(Unread(c))
=============================================================================
