----------------------------- MODULE MCClient -----------------------------
(***************************************************************************)
(* Small instances of what must settle in a browser: the refreshes and     *)
(* requests of its tabs (TabSessions), and who it shows as typing (Typing).*)
(* One behaviour is about one of them, and nothing is under way in the     *)
(* other.                                                                  *)
(***************************************************************************)
EXTENDS TabSessions

CONSTANTS User, Chat, None, MaxStrokes, MaxVisits

VARIABLES subject,
          at, throttled, handling, signals, open, state, timers, kept, strokes, visits

Hints == INSTANCE Typing WITH events <- signals

typingVars == <<at, throttled, handling, signals, open, state, timers, kept, strokes, visits>>
mcVars == <<subject, tabVars, typingVars>>

MCInit ==
  /\ subject \in {"tabs", "typing"}
  /\ TabInit /\ Hints!TypingInit
  /\ open = CHOOSE c \in Chat : TRUE   \* chats are interchangeable

MCNext ==
  \/ subject = "tabs"   /\ TabNext          /\ UNCHANGED <<subject, typingVars>>
  \/ subject = "typing" /\ Hints!TypingNext /\ UNCHANGED <<subject, tabVars>>

MCSpec == MCInit /\ [][MCNext]_mcVars /\ TabFairness /\ Hints!TypingFairness

\* That an indicator goes (Typing).
TypingFades == Hints!TypingFades
=============================================================================
