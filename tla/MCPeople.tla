------------------------------ MODULE MCPeople ------------------------------
(***************************************************************************)
(* Small instances, for TLC, of what people know of each other: whether    *)
(* somebody is there (Presence), and who is whose friend (Friends, and     *)
(* FriendPages over it).  A scenario is what one run looks at:             *)
(*   - "leases" is presence without anybody watching, "orderly" is the dot *)
(*     when announcements are not overtaken, "overtaken" when they may be; *)
(*   - "requests" is two people, their requests and nobody reading; "lists"*)
(*     is the cached list of a friend, with writes, reads and accounts that*)
(*     go; "suggestions" the other cached value; "redis" the cache of two  *)
(*     servers whose connections break;                                    *)
(*   - "pages" is what one of the two sees and does.                       *)
(***************************************************************************)
EXTENDS Presence, FriendPages, FiniteSets, TLC

CONSTANTS Scenarios,
          s1, s2, s3, v1, v2,
          f1, f2, q1, q2, c1, c2

VARIABLE scenario

mcVars == <<vars, allVars, scenario>>

Homes == s1 :> v1 @@ s2 :> v2 @@ s3 :> v1
Run   == q1 :> v1 @@ q2 :> v2
Keys  == {<<"list", f1>>, <<"suggestions", f1>>}

OfPresence == {"leases", "orderly", "overtaken"}

MCInit ==
  /\ scenario \in Scenarios
  /\ PresenceInit
  /\ PagesInit(IF scenario = "redis" THEN {<<f1, f2>>} ELSE {})

MCPresenceNext ==
  /\ scenario \in OfPresence
  /\ PresenceNext
  /\ scenario = "leases"  => watch' = "off" /\ conn'[s3] = "new"
  /\ scenario # "leases"  => outages' = 0
  /\ scenario = "orderly" => Orderly
  /\ UNCHANGED <<allVars, scenario>>

Used == CASE scenario = "lists" -> {List(f1)}
          [] scenario = "redis" -> {List(f1)}
          [] scenario = "suggestions" -> {Sugg(f1)}
          [] OTHER -> {}

Presses == CASE scenario = "redis" -> {"none", "away"}
             [] scenario = "suggestions" -> {"none", "send", "accept", "remove"} \cup Answers
             [] scenario = "lists" -> {"none", "send", "accept", "remove", "away"}
             [] OTHER -> {"none", "send", "accept", "remove"} \cup Answers

\* Nobody reads the cache: what is invalidated may as well be at once.  Of the answers
\* the page does not give, one is as good as the other; and who leaves a page comes back
\* to the same one, for nothing of it is kept.
PagesBounds ==
  /\ (\E r \in Req : owed[r] # {}) => owed' # owed
  /\ job'[q2][1] # "REJECTED"
  /\ page # "none" => page' = page

MCFriendsNext ==
  /\ scenario \notin OfPresence
  /\ IF scenario = "pages" THEN PagesNext ELSE FriendsNext /\ UNCHANGED pageVars
  /\ \A r \in Req : fill'[r].key \in Used \cup {Missing} /\ job'[r][1] \in Presses
  /\ faults' <= IF scenario = "redis" THEN Faults ELSE 0
  /\ scenario = "pages" => PagesBounds
  /\ UNCHANGED <<vars, scenario>>

MCSpec == MCInit /\ [][MCPresenceNext \/ MCFriendsNext]_mcVars

\* None of the fair actions is held up for ever by a scenario.
MCFairSpec == MCSpec /\ Fairness /\ CacheFairness
=============================================================================
