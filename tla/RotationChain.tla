---------------------------- MODULE RotationChain ----------------------------
(***************************************************************************)
(* What refresh-token rotation promises of a login session, whatever the   *)
(* requests racing over it: the right to the session is one baton.  It is  *)
(* in the hands of the server while a token is being issued, then of the   *)
(* device as one refresh token, and each use hands it back and forth.  Once*)
(* dropped - revoked, expired and deleted, or lost by a request that died -*)
(* it is never picked up again.                                            *)
(*                                                                         *)
(* Abstract specification of auth/service.ts issueTokens and               *)
(* refreshAccessToken; AuthSessions implements it.                         *)
(***************************************************************************)
CONSTANT Session

VARIABLE baton   \* for each session "unborn", "server", "device" or "dropped"

ChainInit == baton = [s \in Session |-> "unborn"]

\* A login creates the session and is about to issue its first token.
Open(s) ==
  /\ baton[s] = "unborn"
  /\ baton' = [baton EXCEPT ![s] = "server"]

Issue(s) ==
  /\ baton[s] = "server"
  /\ baton' = [baton EXCEPT ![s] = "device"]

\* A refresh claims the one token of the session.
Claim(s) ==
  /\ baton[s] = "device"
  /\ baton' = [baton EXCEPT ![s] = "server"]

\* Any number of sessions lose their baton at once.
Drop(S) ==
  /\ S \subseteq {s \in Session : baton[s] \in {"server", "device"}}
  /\ baton' = [s \in Session |-> IF s \in S THEN "dropped" ELSE baton[s]]

ChainNext ==
  \/ \E s \in Session : Open(s) \/ Issue(s) \/ Claim(s)
  \/ \E S \in SUBSET Session : Drop(S)

ChainSpec == ChainInit /\ [][ChainNext]_baton
=============================================================================
