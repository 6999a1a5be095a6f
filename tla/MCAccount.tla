----------------------------- MODULE MCAccount -----------------------------
(***************************************************************************)
(* Small instances of Account, and of what stands before it, for TLC.      *)
(*                                                                         *)
(* "password" is guessing and logging in, "codes" two-factor, "links" the  *)
(* links of verification and reset, "deletion" deleting and recovering,    *)
(* the last two with servers that die; "bucket" is the rate limit of a     *)
(* route (RateLimit), "form" the username field (UsernameForm).            *)
(***************************************************************************)
EXTENDS Account, RateLimit, UsernameForm, TLC

CONSTANTS Scenarios, Tries, q1, q2, v1, v2

VARIABLE scenario

mcVars   == <<accountVars, rateVars, formVars, scenario>>

TriesOf == [g \in Guess |-> Tries]
Homes   == q1 :> v1 @@ q2 :> v2

\* What a scenario is not about stands still.
MCInit ==
  /\ scenario \in Scenarios
  /\ AccountInit(scenario # "links", scenario = "guarded")
  /\ RateInit /\ (scenario # "bucket" => closed)
  /\ FormInit /\ (scenario # "form" => form = "account" /\ taken = {})

OpsOf ==
  [password |-> {"login", "updateMe"},
   codes    |-> {"login", "loginTwoFactor", "enableTwoFactor", "disableTwoFactor", "sendCode"},
   links    |-> {"verifyEmail", "resendVerification", "forgotPassword", "resetPassword"},
   deletion |-> {"deleteMe", "recoverAccount", "verifyRecovery", "login"},
   guarded  |-> {"loginTwoFactor", "sendCode", "deleteMe"}]

MCAccountNext ==
  /\ scenario \in DOMAIN OpsOf
  /\ AccountNext
  /\ \A r \in Req : op'[r] \in OpsOf[scenario] \cup {"none"}
  /\ scenario # "password" => \A r \in Req : seen'[r] # "wrong"
  /\ issued' <= IF scenario \in {"links", "deletion"} THEN MaxSecrets ELSE MaxSecrets - 1
  /\ faults' <= IF scenario \in {"links", "deletion"} THEN MaxFaults ELSE 0
  /\ UNCHANGED <<rateVars, formVars, scenario>>

MCNext ==
  \/ MCAccountNext
  \/ scenario = "bucket" /\ RateNext /\ UNCHANGED <<accountVars, formVars, scenario>>
  \/ scenario = "form" /\ FormNext /\ UNCHANGED <<accountVars, rateVars, scenario>>

MCSpec == MCInit /\ [][MCNext]_mcVars /\ AccountFairness
=============================================================================
