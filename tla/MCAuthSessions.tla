--------------------------- MODULE MCAuthSessions ---------------------------
(***************************************************************************)
(* Small instances of AuthSessions for TLC.                                *)
(*                                                                         *)
(* A scenario bounds what is explored from one initial state: the requests *)
(* served at once, the writes that end sessions, whether there are sockets *)
(* and whether the lifetime of a token can run out.                        *)
(***************************************************************************)
EXTENDS AuthSessions, FiniteSets, TLC

CONSTANTS Scenarios

VARIABLE scenario

Scenario(r, e, k, x) == [requests |-> r, eras |-> e, sockets |-> k, expiry |-> x]

Rotation   == Scenario(2, 0, FALSE, FALSE)
Sockets    == Scenario(2, 0, TRUE, FALSE)
Writes     == Scenario(2, 1, FALSE, FALSE)
Expiry     == Scenario(1, 0, FALSE, TRUE)

Rotations   == {Rotation}
Revocations == {Sockets, Writes, Expiry}

mcVars == <<vars, scenario>>

MCNext ==
  /\ Next
  /\ Cardinality({r \in Req : pc'[r] # "idle"}) <= scenario.requests
  /\ era' <= scenario.eras
  /\ scenario.eras = 0 => \A r \in Req : pc'[r] # "write"
  /\ ~scenario.sockets => \A k \in Socket : sock'[k] = NoSock
  /\ ~scenario.expiry => expired' = {}
  /\ UNCHANGED scenario

MCInit == Init /\ scenario \in Scenarios

MCSpec     == MCInit /\ [][MCNext]_mcVars
MCFairSpec == MCSpec /\ Fairness

\* Requests, rows and devices are interchangeable.
Symmetry == Permutations(Device) \cup Permutations(Session)
              \cup Permutations(Token) \cup Permutations(Req)

\* History variables never guard an action, so a run whose properties do not
\* read one may identify the states that differ only there.
ReuseView == <<rows, deleted, era, client, pc, req, sock, endedBy, lostRot>>
=============================================================================
