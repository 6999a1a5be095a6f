------------------------------ MODULE MCMessages ------------------------------
(***************************************************************************)
(* Small instances of ChatThreads for TLC: a and b in one chat.  A scenario*)
(* bounds what one run explores: the messages of before, who has the chat  *)
(* open, what people do and how often, the handlers at work at once, what  *)
(* goes wrong.                                                             *)
(***************************************************************************)
EXTENDS ChatThreads, TLC

CONSTANTS a, b, k1, k2, k3, t1, t2, Scenarios

VARIABLE scenario

Authors == k1 :> a @@ k2 :> a @@ k3 :> b

Scenario(before, people, there, ops, p, v, h, m) ==
  [before |-> before, people |-> people, there |-> there, ops |-> ops, presses |-> p,
   visits |-> v, handlers |-> h, mishaps |-> m]

Changes == {"edit", "delete", "react"}
Both    == {a, b}

Retrying == Scenario(<<>>, {a}, {a}, {"send"}, 3, 0, 2, 2)
Returning == Scenario(<<>>, {a}, {a}, {"send"}, 2, 1, 2, 1)
Dropping == Scenario(<<>>, {a}, Both, {"send"}, 1, 1, 1, 1)
Changing == Scenario(<<k1>>, Both, Both, Changes, 2, 0, 2, 0)
Reacting == Scenario(<<k1>>, Both, Both, {"react"}, 3, 0, 2, 0)
Failing  == Scenario(<<k1>>, Both, Both, Changes, 2, 0, 1, 1)
Reading  == Scenario(<<>>, Both, Both, {"send"}, 2, 0, 2, 0)
Deleting == Scenario(<<k1>>, Both, Both, {"send", "delete"}, 2, 0, 2, 0)
Opening  == Scenario(<<k1>>, {a}, Both, {"send", "edit", "delete"}, 1, 1, 2, 0)

AllScenarios == {Retrying, Returning, Dropping, Changing, Reacting, Failing, Reading, Deleting, Opening}

mcVars == <<vars, scenario>>

MCInit == scenario \in Scenarios /\ 
          ThreadsInit(scenario.before, scenario.people, scenario.there)

MCNext ==
  /\ ThreadsNext
  /\ \A r \in Req : pc'[r] # "idle" => req'[r].op \in scenario.ops \cup {"read"}
  /\ presses' <= scenario.presses /\ visits' <= scenario.visits
  /\ mishaps' + drops' <= scenario.mishaps
  /\ Cardinality({r \in Req : pc'[r] # "idle"}) <= scenario.handlers
  /\ scenario.visits = 0 => page' = page   \* pages that stay open
  /\ \A u \in Both \ scenario.there : page'[u] = "away" /\ u \notin room'
  /\ origin'[k1] # None => origin'[k1].text = t1   \* the names of texts and ids do
  /\ origin'[k2] # None /\ scenario.before = <<>> => origin'[k1] # None   \* not matter
  /\ UNCHANGED scenario

MCSpec == MCInit /\ [][MCNext]_mcVars

Symmetry == Permutations(Req)
=============================================================================
