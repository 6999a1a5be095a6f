------------------------------- MODULE Typing -------------------------------
(***************************************************************************)
(* Typing indicators: what the people of some chats tell with each key     *)
(* stroke (web ChatPage.tsx), what the server passes on (websocket         *)
(* connection.ts), and what the page of one of them shows of it            *)
(* (use-typing-indicator.ts).                                              *)
(***************************************************************************)
EXTENDS Naturals, Sequences

CONSTANTS User,      \* the others, in every chat
          Chat, None,
          MaxStrokes, \* bound: key strokes, stops and connections that break
          MaxVisits   \* bound: chats the viewer opens

VARIABLES
  at,        \* the chat each of the others is typing in
  throttled, \* typingTimers: <<user, chat>> whose start was passed on a moment ago
  handling,  \* typing events the server has taken and not passed on
  events,    \* events on their way to the viewer
  open,      \* the viewer's chat
  state,     \* the chat and the users of the page's state
  timers,    \* users whose indicator will be dropped
  kept,      \* history: users of the state whose timers the page has dropped
  strokes, visits

typingVars == <<at, throttled, handling, events, open, state, timers, kept, strokes, visits>>

viewer == <<open, state, timers, kept>>

TypingInit ==
  /\ at = [u \in User |-> None] /\ throttled = {} /\ handling = {} /\ events = <<>>
  /\ open \in Chat /\ state = [chat |-> None, users |-> {}] /\ timers = {} /\ kept = {}
  /\ strokes = 0 /\ visits = 0

Strokes == strokes < MaxStrokes /\ strokes' = strokes + 1
Event(u, c, on) == [user |-> u, chat |-> c, on |-> on]

(***************************************************************************)
(* The others.  A start is passed on once in three seconds.                *)
(***************************************************************************)
Stroke(u, c) ==
  /\ at[u] \in {None, c} /\ Strokes
  /\ at' = [at EXCEPT ![u] = c]
  /\ handling' = IF <<u, c>> \in throttled THEN handling ELSE handling \cup {Event(u, c, TRUE)}
  /\ throttled' = throttled \cup {<<u, c>>}
  /\ UNCHANGED <<events, viewer, visits>>

\* The text is sent or emptied, or another chat opened.
Stop(u) ==
  /\ at[u] # None /\ Strokes
  /\ at' = [at EXCEPT ![u] = None]
  /\ throttled' = throttled \ {<<u, at[u]>>}
  /\ handling' = handling \cup {Event(u, at[u], FALSE)}
  /\ UNCHANGED <<events, viewer, visits>>

\* A browser is closed, or its connection breaks: nothing is said.
Vanish(u) ==
  /\ at[u] # None /\ Strokes
  /\ at' = [at EXCEPT ![u] = None]
  /\ throttled' = throttled \ ({u} \X Chat)
  /\ UNCHANGED <<handling, events, viewer, visits>>

Unthrottle(u, c) ==
  /\ <<u, c>> \in throttled
  /\ throttled' = throttled \ {<<u, c>>}
  /\ UNCHANGED <<at, handling, events, viewer, strokes, visits>>

\* Who is a member is asked first, so events may overtake each other.
Relay ==
  \E e \in handling :
    /\ handling' = handling \ {e}
    /\ events' = Append(events, e)
    /\ UNCHANGED <<at, throttled, viewer, strokes, visits>>

(***************************************************************************)
(* The viewer's page.                                                      *)
(***************************************************************************)
Shown == IF state.chat = open THEN state.users ELSE {}

ClearUser(u) ==
  /\ timers' = timers \ {u} /\ kept' = kept \ {u}
  /\ state' = [state EXCEPT !.users = @ \ {u}]

Take ==
  /\ events # <<>>
  /\ events' = Tail(events)
  /\ LET e == Head(events) IN
       \/ /\ e.chat # open
          /\ UNCHANGED <<state, timers, kept>>
       \/ /\ e.chat = open /\ ~e.on
          /\ ClearUser(e.user)
       \/ /\ e.chat = open /\ e.on
          /\ state' = [chat |-> open, users |-> Shown \cup {e.user}]
          /\ timers' = timers \cup {e.user} /\ kept' = kept \ {e.user}
  /\ UNCHANGED <<at, throttled, handling, open, strokes, visits>>

\* Mutant of Expire: the indicator is dropped only when the browser hears of it.
Expire_Told(u) == FALSE /\ UNCHANGED typingVars

\* Six seconds after the last start.
Expire(u) ==
  /\ u \in timers
  /\ ClearUser(u)
  /\ UNCHANGED <<at, throttled, handling, events, open, strokes, visits>>

\* The timers of the chat before are cleared; its state stays, and is not shown.
Open(c) ==
  /\ c # open /\ visits < MaxVisits
  /\ visits' = visits + 1
  /\ open' = c
  /\ timers' = {} /\ kept' = state.users
  /\ UNCHANGED <<at, throttled, handling, events, state, strokes>>

TypingNext ==
  \/ \E u \in User : Stop(u) \/ Vanish(u) \/ Expire(u)
                     \/ \E c \in Chat : Stroke(u, c) \/ Unthrottle(u, c)
  \/ \E c \in Chat : Open(c)
  \/ Relay \/ Take

\* The server passes on what it took, the connection delivers, and timers fire.
TypingFairness == WF_typingVars(Relay) /\ WF_typingVars(Take) /\ \A u \in User : WF_typingVars(Expire(u))

TypingSpec == TypingInit /\ [][TypingNext]_typingVars /\ TypingFairness

\* "x is typing" does not stay when x is not, though the event that says so is lost or
\* overtaken: "drop an indicator this long after the last typing event, in case the
\* matching stopped typing one never arrives" (use-typing-indicator.ts:17).  Not so for
\* what the page still has when its chat is opened again: the timers are gone by then.
TypingFades ==
  \A u \in User : u \in Shown \ kept /\ at[u] # open ~> u \notin Shown \/ at[u] = open \/ u \in kept
=============================================================================
