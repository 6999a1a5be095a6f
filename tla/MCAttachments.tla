---------------------------- MODULE MCAttachments ----------------------------
(***************************************************************************)
(* Small instances of Attachments for TLC.  A scenario bounds what one run *)
(* explores: the keys that are generated, the requests and runs of the job *)
(* that overlap, how often something fails, whether the group is deleted.  *)
(***************************************************************************)
EXTENDS Attachments, TLC

CONSTANTS f1, f2, f3, f4, a1, a2, a3, m1, Scenarios

VARIABLE scenario

OneMessage == m1 :> {f1, f2}

Scenario(k, r, j, m, d) ==
  [keys |-> k, requests |-> r, runs |-> j, mishaps |-> m, deletes |-> d]

Sending   == Scenario({f1, f2}, 2, 1, 0, TRUE)      \* a send and its retry
Failing   == Scenario({f1, f2}, 1, 1, 1, FALSE)
Cleaning  == Scenario({f1, f2}, 1, 2, 0, FALSE)     \* two runs of the job
Limit     == Scenario({f1, f2, f3, f4}, 2, 0, 0, FALSE)
Signing   == Scenario({a1, a2}, 2, 1, 1, FALSE)     \* two registrations
Replacing == Scenario({a1, a2, a3}, 2, 1, 0, FALSE) \* two new avatars
Group     == Scenario({f3}, 1, 1, 0, TRUE)          \* its photo

AllScenarios == {Sending, Failing, Cleaning, Limit, Signing, Replacing, Group}
GroupOnly    == {Group}

mcVars == <<vars, scenario>>

MCInit == scenario \in Scenarios /\ FilesInit(scenario.keys)

MCNext ==
  /\ FilesNext
  /\ Cardinality({r \in Req : pc'[r] # "idle"}) <= scenario.requests
  /\ Cardinality({j \in Run : job'[j].at # "off"}) <= scenario.runs
  /\ mishaps' <= scenario.mishaps
  /\ chat' \/ scenario.deletes
  /\ UNCHANGED scenario

MCSpec == MCInit /\ [][MCNext]_mcVars
MCFairSpec == MCSpec /\ FilesFairness
=============================================================================
