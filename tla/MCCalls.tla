------------------------------- MODULE MCCalls -------------------------------
(***************************************************************************)
(* Small instances of Calls for TLC, and of IceTrickle beside it: the      *)
(* signalling of a call and the candidates of a call.                      *)
(*                                                                         *)
(* A scenario bounds what one run explores: how many calls are dialled, how*)
(* many handlers are at work at once, how often something goes wrong.      *)
(***************************************************************************)
EXTENDS Calls, IceTrickle, FiniteSets, TLC

CONSTANTS u1, u2, a1, b1, Scenarios

VARIABLE scenario

Owners == a1 :> u1 @@ b1 :> u2

Scenario(d, h, m) == [dials |-> d, handlers |-> h, mishaps |-> m]

Race       == Scenario(1, 2, 0)   \* two handlers may overtake each other
Mishap1    == Scenario(1, 1, 1)   \* one handler at a time, and one mishap
Glare      == Scenario(2, 1, 0)   \* both may dial
Candidates == Scenario(0, 0, 0)   \* only IceTrickle

Signalling == {Race, Mishap1, Candidates}
GlareOnly  == {Glare}

mcVars == <<vars, iceVars, scenario>>

Busy == {r \in Req : pc[r] # "idle"}

MCInit == CallsInit /\ IceInit /\ scenario \in Scenarios

MCCallsNext ==
  /\ scenario # Candidates
  /\ CallsNext
  /\ dials' <= scenario.dials
  /\ Cardinality(Busy') <= scenario.handlers
  /\ mishaps' <= scenario.mishaps
  /\ UNCHANGED <<iceVars, scenario>>

MCIceNext ==
  /\ scenario = Candidates
  /\ IceNext
  /\ UNCHANGED <<vars, scenario>>

MCSpec == MCInit /\ [][MCCallsNext \/ MCIceNext]_mcVars

\* RingOut stays within every scenario.
MCFairSpec == MCSpec /\ \A d \in Device : WF_vars(RingOut(d))

\* What becomes of a call in the table decides nothing a browser sees: every
\* handler comes to its relay whatever it finds there.
GlareView == <<pc, [r \in Req |-> <<req[r].kind, req[r].user, req[r].why, req[r].dial>>],
               active, clientVars>>
=============================================================================
