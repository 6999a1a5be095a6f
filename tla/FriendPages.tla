----------------------------- MODULE FriendPages -----------------------------
(***************************************************************************)
(* The pages on which one user sees friends, requests, suggestions, people *)
(* found and somebody's profile (web features/friends/pages and            *)
(* DirectInfoModal.tsx), and their requests, which handlers of Friends     *)
(* serve beside those of everybody else.                                   *)
(*                                                                         *)
(* A page loads once, when it is opened, and then follows only what is     *)
(* done on it.  That its lists may come out of the cache is left to        *)
(* Friends.                                                                *)
(***************************************************************************)
EXTENDS Friends

CONSTANTS Me,   \* the user of the pages
          Mine  \* the handler that serves what is asked on them, one at a time

ASSUME PagesAssumption == Me \in User /\ User # {Me} /\ Mine \in Req

VARIABLES
  page,      \* what is open
  loading,   \* the next step of its load, or "no"
  listed,    \* the people or requests it lists; of a profile, the request of its button
  found,     \* what a load has read of the requests and not shown yet
  waiting,   \* pendingIds
  busy,      \* what has been asked on it
  answer,    \* what became of that
  newest,    \* of the two rows of a pair, those with the later createdAt
  overtaken  \* history: it was loaded before something else changed the tables

screen   == <<page, loading, listed, found, waiting>>
asked    == <<busy, answer>>
pageVars == <<screen, asked, newest, overtaken>>
allVars  == <<friendVars, pageVars>>

Pages  == {"friends", "pending", "sent", "search", "suggestions", "profile"}
Finder == {"search", "suggestions"}
NoAct  == <<"none", Missing>>
Them   == CHOOSE u \in User : u # Me   \* whose profile it is

PagesInit(friends) ==
  /\ FriendsInit(friends)
  /\ page = "none" /\ loading = "no" /\ listed = {} /\ found = {} /\ waiting = {}
  /\ busy = NoAct /\ answer = "none" /\ newest = {} /\ overtaken = FALSE

(***************************************************************************)
(* What a page offers.  The friends page asks to remove a friend by the id *)
(* of that user.                                                           *)
(***************************************************************************)
Offers ==
  CASE page = "friends" -> {<<"remove", f>> : f \in listed}
    [] page = "pending" -> {"accept", "REJECTED"} \X listed
    [] page = "sent"    -> {"CANCELLED"} \X listed
    [] page \in Finder  -> {<<"send", <<Me, f>>>> : f \in listed \ waiting}
    [] page = "profile" -> {<<IF d[1] = Me THEN "send" ELSE "accept", d>> : d \in listed}
    [] OTHER            -> {}

\* The checks a handler begins with.  A friendship is looked up by its own id, which is
\* no user's.
Takes(o) ==
  CASE o[1] = "send"   -> request[Back(o[2])] # "PENDING"
    [] o[1] = "remove" -> o[2] \in made
    [] OTHER           -> request[o[2]] = "PENDING"

Ask(o) ==
  \/ o[1] = "send"     /\ Send(Mine, o[2])
  \/ o[1] = "accept"   /\ Accept(Mine, o[2])
  \/ o[1] = "remove"   /\ Remove(Mine, o[2])
  \/ o[1] \in Answers  /\ Answer(Mine, o[1], o[2])

MineIdle == at[Mine] = "idle" /\ owed[Mine] = {}

Do(o) ==
  /\ o \in Offers /\ loading = "no" /\ busy = NoAct /\ MineIdle
  /\ busy' = o
  /\ \/ Takes(o) /\ Ask(o) /\ UNCHANGED answer
     \/ ~Takes(o) /\ answer' = "refused" /\ UNCHANGED friendVars
  /\ UNCHANGED <<screen, newest, overtaken>>

(***************************************************************************)
(* The handlers, and what the page will hear of its own.                   *)
(***************************************************************************)
Outcomes ==
  IF tables' # tables \/ at[Mine] = "write" THEN {"done"}
  ELSE IF at[Mine] = "commit" THEN {"done", "refused"} ELSE {"refused"}

ServerStep ==
  /\ \/ \E r \in Req : (r # Mine /\ Press(r)) \/ Work(r)
     \/ Redis /\ UNCHANGED <<tables, handlers>>
  /\ LET created == {d \in Dir : request[d] = "NONE" /\ request'[d] # "NONE"}
         own     == busy # NoAct /\ at'[Mine] # at[Mine]
     IN  /\ newest' = (newest \ {Back(d) : d \in created}) \cup created
         /\ overtaken' = (overtaken \/ (tables' # tables /\ ~own))
         /\ IF own /\ at'[Mine] = "idle" THEN answer' \in Outcomes ELSE UNCHANGED answer
  /\ UNCHANGED <<screen, busy>>

\* The answer is lost, and shown as a refusal.
LoseAnswer ==
  /\ answer = "done"
  /\ answer' = "lost" /\ overtaken' = TRUE
  /\ UNCHANGED <<friendVars, screen, busy, newest>>

\* The page has its answer.
Settle(result) ==
  /\ busy # NoAct /\ answer \in result /\ MineIdle
  /\ busy' = NoAct /\ answer' = "none"
  /\ UNCHANGED <<friendVars, page, found, newest>>

\* A list loses what was done with.
ListAnswered ==
  /\ page \in {"friends", "pending", "sent"}
  /\ Settle({"done"})
  /\ listed' = listed \ {busy[2]}
  /\ UNCHANGED <<loading, waiting, overtaken>>

\* Mutant of FinderAnswered: the person is taken off the page, until the next search.
FinderAnswered_Gone ==
  /\ page \in Finder
  /\ Settle({"done"})
  /\ listed' = listed \ {busy[2]}
  /\ UNCHANGED <<loading, waiting, overtaken>>

\* A finder remembers whom a request was sent to, which a search that is under way will
\* overwrite.
FinderAnswered ==
  /\ page \in Finder
  /\ Settle({"done"})
  /\ waiting' = waiting \cup {busy[2][2]}
  /\ overtaken' = (overtaken \/ loading # "no")
  /\ UNCHANGED <<listed, loading>>

\* A profile is loaded again.
ProfileAnswered ==
  /\ page = "profile"
  /\ Settle({"done"})
  /\ loading' = "first" /\ overtaken' = FALSE
  /\ UNCHANGED <<listed, waiting>>

\* After an error everything stays as it was.
ErrorShown ==
  /\ Settle({"refused", "lost"})
  /\ UNCHANGED <<listed, loading, waiting, overtaken>>

(***************************************************************************)
(* Loading.                                                                *)
(***************************************************************************)
Open(p) ==
  /\ page' = p /\ loading' = IF p = "search" THEN "no" ELSE "first"
  /\ listed' = {} /\ found' = {} /\ waiting' = {}
  /\ busy' = NoAct /\ answer' = "none" /\ overtaken' = FALSE
  /\ UNCHANGED <<friendVars, newest>>

\* A search keeps what the one before has found until it is answered.
Submit ==
  /\ page = "search" /\ loading = "no"
  /\ loading' = "first" /\ overtaken' = FALSE
  /\ UNCHANGED <<friendVars, page, listed, found, waiting, asked, newest>>

loadOnly == <<friendVars, page, asked, newest, overtaken>>

Received == {d \in Dir : d[2] = Me /\ request[d] = "PENDING"}
Sent     == {d \in Dir : d[1] = Me /\ request[d] = "PENDING"}
People   == User \ ({Me} \cup away)   \* whom a search finds

\* getFriends, getPendingRequests, searchUsers, getSuggestions
FetchList ==
  /\ loading = "first" /\ page # "profile"
  /\ listed' = CASE page = "friends" -> Truth(List(Me))
                 [] page = "pending" -> Received
                 [] page = "sent"    -> Sent
                 [] page = "search"  -> People
                 [] OTHER            -> People \ Truth(Sugg(Me))
  /\ loading' = IF page \in Finder THEN "second" ELSE "no"
  /\ UNCHANGED <<loadOnly, found, waiting>>

\* getPendingRequests, and its answer
FetchPending ==
  /\ loading = "second" /\ page # "profile"
  /\ found' = {d[1] : d \in Received} \cup {d[2] : d \in Sent} /\ loading' = "show"
  /\ UNCHANGED <<loadOnly, listed, waiting>>

ShowPending ==
  /\ loading = "show"
  /\ waiting' = found /\ found' = {} /\ loading' = "no"
  /\ UNCHANGED <<loadOnly, listed>>

\* getProfile: the friendship, and if there is none the latest request.
FindFriendshipBetween ==
  /\ loading = "first" /\ page = "profile"
  /\ IF Friends(Me, Them) THEN listed' = {} /\ loading' = "no"
                          ELSE loading' = "second" /\ UNCHANGED listed
  /\ UNCHANGED <<loadOnly, found, waiting>>

FindLatestRequestBetween ==
  /\ loading = "second" /\ page = "profile"
  /\ LET latest == {d \in newest : Both(d) = {Me, Them}}
     IN  listed' = IF latest \cap (Received \cup Sent) = {} THEN {<<Me, Them>>}
                                                           ELSE latest \cap Received
  /\ loading' = "no"
  /\ UNCHANGED <<loadOnly, found, waiting>>

\* Any of its requests fails: what was shown stays, with what has been found since.
LoadFails ==
  /\ loading # "no"
  /\ loading' = "no" /\ found' = {} /\ overtaken' = TRUE
  /\ UNCHANGED <<friendVars, page, listed, waiting, asked, newest>>

PagesNext ==
  \/ ServerStep
  \/ \E o \in Offers : Do(o)
  \/ \E p \in Pages : Open(p)
  \/ LoseAnswer \/ ListAnswered \/ FinderAnswered \/ ProfileAnswered \/ ErrorShown
  \/ Submit \/ FetchList \/ FetchPending \/ ShowPending
  \/ FindFriendshipBetween \/ FindLatestRequestBetween \/ LoadFails

PagesSpec == (\E friends \in SUBSET Dir : PagesInit(friends)) /\ [][PagesNext]_allVars

(***************************************************************************)
(* Properties.                                                             *)
(***************************************************************************)
\* A page that has loaded, and was not overtaken by a change made elsewhere, offers
\* nothing the server refuses: except a removal, which is asked for by the wrong id; a
\* request where there was one before, which can never be sent again; and, when requests
\* have crossed, whatever a profile makes of the newer one.
OfferedIsGood ==
  loading = "no" /\ busy = NoAct /\ ~overtaken =>
    \A o \in Offers :
      \/ Takes(o) /\ (o[1] = "send" => request[o[2]] = "NONE")
      \/ o[1] = "remove"
      \/ o[1] = "send" /\ request[o[2]] \in {"ACCEPTED"} \cup Answers
      \/ page = "profile" /\ request[<<Me, Them>>] # "NONE" /\ request[<<Them, Me>>] # "NONE"

\* "will be removed from your friends", the dialog says (FriendsPage.tsx:126): a removal
\* is refused only if they are not friends any more.
RemovedIsGone ==
  busy[1] = "remove" /\ answer = "refused" => ~Friends(Me, busy[2])
=============================================================================
