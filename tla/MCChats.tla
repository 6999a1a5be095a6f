------------------------------ MODULE MCChats ------------------------------
(***************************************************************************)
(* Small instances of Membership, ChatPage, ChatList and Push for TLC.  A  *)
(* scenario is what one run looks at: a group and the room of its sockets; *)
(* a direct chat and its room; the page of a user who goes from one chat to*)
(* another; the badge of one chat in the list (chats are counted apart);   *)
(* the browser's push subscription.                                        *)
(***************************************************************************)
EXTENDS Membership, ChatPage, ChatList, Push, TLC

CONSTANTS u1, u2, k2, j1, j2, Scenarios, A, a1

VARIABLE scenario

mcVars == <<membershipVars, pageVars, sidebarVars, pushVars, scenario>>

Owners   == k2 :> u2
Homes    == a1 :> A
Symmetry == Permutations(Job) \cup Permutations(Key) \cup Permutations(Text)
            \cup Permutations(Tab)

MCInit ==
  /\ scenario \in Scenarios
  /\ \/ scenario = "group" /\ MembershipInit("GROUP", {u1, u2})
     \/ scenario # "group" /\ MembershipInit("DIRECT", {})
     \/ scenario = "direct" /\ MembershipInit("DIRECT", Pair)
  /\ PageInit /\ ListInit({A})
  /\ PushInit
  /\ scenario # "push" => permitted /\ last = CHOOSE t \in Tab : TRUE

MCNext ==
  \/ /\ scenario \in {"group", "direct"}
     /\ MembershipNext
     /\ UNCHANGED <<pageVars, sidebarVars, pushVars, scenario>>
  \/ /\ scenario = "page"
     /\ PageNext
     /\ UNCHANGED <<membershipVars, sidebarVars, pushVars, scenario>>
  \/ /\ scenario = "list"
     /\ ListNext
     /\ UNCHANGED <<membershipVars, pageVars, pushVars, scenario>>
  \/ /\ scenario = "push"
     /\ PushNext
     /\ UNCHANGED <<membershipVars, pageVars, sidebarVars, scenario>>

MCSpec == MCInit /\ [][MCNext]_mcVars
=============================================================================
