---------------------------- MODULE AccountProofs ----------------------------
(***************************************************************************)
(* Proofs about Account: links and codes are used once, a deleted account  *)
(* keeps its recovery window, and the counters lock, however many handlers *)
(* run.  Then about UsernameForm, any names, however one types, and about  *)
(* RateLimit, any servers and requests at once.                            *)
(***************************************************************************)
EXTENDS Account, UsernameForm, RateLimit, FiniteSetTheorems, TLAPS

Issuers   == {"resendVerification", "forgotPassword", "recoverAccount", "deleteMe", "sendCode",
              "login"}
CodeUsers == {"loginTwoFactor", "enableTwoFactor", "deleteMe", "disableTwoFactor"}
LinkUsers == {"verifyEmail", "resetPassword", "verifyRecovery"}
OpNames   == Issuers \cup CodeUsers \cup LinkUsers \cup {"updateMe", "none"}
Steps     == {"idle", "window", "delete", "create", "mail", "unlock", "verify", "lock", "find",
              "found", "fail", "forget", "enable", "disable", "write", "clear", "mark", "rename"}

\* What a handler looks up in the tables of its operation.
LEMMA IssuesOf == \A o \in Issuers : Issues[o] \in Types
BY DEF Issues, Issuers, Types

LEMMA UsesOf ==
  /\ \A o \in CodeUsers : Uses[o] = "code"
  /\ Uses["verifyEmail"] = "verify" /\ Uses["resetPassword"] = "reset"
  /\ Uses["verifyRecovery"] = "recovery"
BY DEF Uses, CodeUsers

(***************************************************************************)
(* Links and codes.                                                        *)
(***************************************************************************)
\* The secrets are numbered as they are made.
SecretTypes ==
  /\ issued \in Nat
  /\ token \in [Types -> 0..issued]
  /\ inbox \in SUBSET (Types \X (0..issued))
  /\ at \in [Req -> Steps] /\ op \in [Req -> OpNames] /\ sec \in [Req -> 0..issued]
  /\ spent \in SUBSET (Types \X (1..issued))

\* The operations whose handlers come to a step.
StepOf(r) ==
  /\ at[r] \in {"window", "delete", "create", "mail"} => op[r] \in Issuers
  /\ at[r] \in {"unlock", "verify"} => op[r] = "login"
  /\ at[r] = "lock" => op[r] \in CodeUsers \ {"disableTwoFactor"}
  /\ at[r] \in {"find", "found"} => op[r] \in LinkUsers \cup (CodeUsers \ {"disableTwoFactor"})
  /\ at[r] = "disable" => op[r] = "disableTwoFactor"
  /\ at[r] = "forget" => op[r] \in CodeUsers
  /\ at[r] = "enable" => op[r] = "enableTwoFactor"
  /\ at[r] = "mark" => op[r] = "deleteMe"
  /\ at[r] = "write" => op[r] \in {"resetPassword", "verifyRecovery"}
  /\ at[r] = "clear" => op[r] = "verifyRecovery"

\* A handler that found its secret has one, and one that has deleted the code goes on with
\* a code that is not in the table.
HasSecret(r) ==
  /\ at[r] \in {"found", "write", "clear", "enable"} => sec[r] # None
  /\ at[r] = "forget" /\ op[r] # "disableTwoFactor" => sec[r] # None
  /\ at[r] = "enable" => token["code"] # sec[r]

SecretInv ==
  /\ SecretTypes
  /\ \A r \in Req : StepOf(r) /\ HasSecret(r)
  /\ UsedIsDead

LEMMA SecretInitial ==
  ASSUME NEW v \in BOOLEAN, NEW two \in BOOLEAN, AccountInit(v, two)
  PROVE  SecretInv
<1>1. SecretTypes
  <2>1. issued = 1 /\ token \in [Types -> 0..issued]
    BY DEF AccountInit, Types, None
  <2>2. inbox \in SUBSET (Types \X (0..issued))
    BY DEF AccountInit, Types
  <2>3. at \in [Req -> Steps] /\ op \in [Req -> OpNames]
    BY DEF AccountInit, Steps, OpNames
  <2>4. sec \in [Req -> 0..issued]
    BY <2>1 DEF AccountInit, None
  <2>5. spent \in SUBSET (Types \X (1..issued))
    BY DEF AccountInit
  <2> QED BY <2>1, <2>2, <2>3, <2>4, <2>5 DEF SecretTypes
<1>2. \A r \in Req : StepOf(r) /\ HasSecret(r)
  BY DEF AccountInit, StepOf, HasSecret
<1> QED BY <1>1, <1>2 DEF AccountInit, SecretInv, UsedIsDead

\* Tokens are at most deleted.
Shrunk ==
  /\ issued' = issued
  /\ token' \in [Types -> 0..issued]
  /\ \A t \in Types : token'[t] \in {token[t], None}

LEMMA Deleted ==
  ASSUME SecretInv, issued' = issued,
         \/ token' = token
         \/ \E t \in Types : token' = [token EXCEPT ![t] = None]
         \/ \E S \in SUBSET Types : token' = [t \in Types |-> IF t \in S THEN token[t] ELSE None]
  PROVE  Shrunk
BY DEF SecretInv, SecretTypes, Shrunk, None

LEMMA NothingSpent ==
  ASSUME SecretInv, Shrunk, UNCHANGED <<inbox, at, op, sec, spent>>
  PROVE  SecretInv'
BY DEF Shrunk, SecretInv, SecretTypes, StepOf, HasSecret, UsedIsDead, Types, None

\* A handler takes a step, and the others stay where they are.
LEMMA OneMoves ==
  ASSUME SecretInv, Shrunk, UNCHANGED <<inbox, spent>>, NEW r \in Req,
         at' \in [Req -> Steps], op' \in [Req -> OpNames], sec' \in [Req -> 0..issued],
         \A q \in Req \ {r} : at'[q] = at[q] /\ op'[q] = op[q] /\ sec'[q] = sec[q],
         StepOf(r)', HasSecret(r)'
  PROVE  SecretInv'
<1>1. SecretTypes'
  BY DEF Shrunk, SecretInv, SecretTypes
<1>2. ASSUME NEW q \in Req PROVE StepOf(q)' /\ HasSecret(q)'
  <2>1. CASE q = r
    BY <2>1
  <2>2. CASE q # r
    <3>1. at'[q] = at[q] /\ op'[q] = op[q] /\ sec'[q] = sec[q]
      BY <2>2
    <3>2. StepOf(q) /\ HasSecret(q)
      BY DEF SecretInv
    <3> QED BY <3>1, <3>2 DEF Shrunk, StepOf, HasSecret, Types, None
  <2> QED BY <2>1, <2>2
<1>3. UsedIsDead'
  BY DEF Shrunk, SecretInv, SecretTypes, UsedIsDead, None
<1> QED BY <1>1, <1>2, <1>3 DEF SecretInv

LEMMA HandlerBegins ==
  ASSUME SecretInv, NEW r \in Req, NEW o \in OpNames, NEW s \in 0..issued,
         NEW step \in {"window", "delete", "unlock", "verify", "lock", "find", "disable", "mark",
                       "rename"},
         Begin(r, o, s, step), UNCHANGED tokens,
         step \in {"window", "delete"} => o \in Issuers,
         step \in {"unlock", "verify"} => o = "login",
         step = "lock" => o \in CodeUsers \ {"disableTwoFactor"},
         step = "find" => o \in LinkUsers,
         step = "disable" => o = "disableTwoFactor",
         step = "mark" => o = "deleteMe"
  PROVE  SecretInv'
<1>1. Shrunk
  BY Deleted DEF tokens
<1>2. /\ at' \in [Req -> Steps] /\ op' \in [Req -> OpNames] /\ sec' \in [Req -> 0..issued]
      /\ at'[r] = step /\ op'[r] = o
      /\ \A q \in Req \ {r} : at'[q] = at[q] /\ op'[q] = op[q] /\ sec'[q] = sec[q]
  BY DEF Begin, SecretInv, SecretTypes, Steps
<1>3. StepOf(r)'
  BY <1>2 DEF StepOf
<1>4. HasSecret(r)'
  BY <1>2 DEF HasSecret
<1>5. UNCHANGED <<inbox, spent>>
  BY DEF Begin, tokens, notes
<1> QED BY <1>1, <1>2, <1>3, <1>4, <1>5, OneMoves

LEMMA HandlerGoesOn ==
  ASSUME SecretInv, Shrunk, UNCHANGED inbox, NEW r \in Req, NEW step \in Steps, Goto(r, step),
         at'[r] = step /\ op'[r] = op[r] /\ sec'[r] = sec[r] => StepOf(r)' /\ HasSecret(r)'
  PROVE  SecretInv'
<1>1. /\ at' \in [Req -> Steps] /\ op' \in [Req -> OpNames] /\ sec' \in [Req -> 0..issued]
      /\ at'[r] = step /\ op'[r] = op[r] /\ sec'[r] = sec[r]
      /\ \A q \in Req \ {r} : at'[q] = at[q] /\ op'[q] = op[q] /\ sec'[q] = sec[q]
  BY DEF Goto, SecretInv, SecretTypes
<1>2. UNCHANGED spent
  BY DEF Goto, notes
<1> QED BY <1>1, <1>2, OneMoves

\* A handler ends, and has used its secret or not.
LEMMA HandlerEnds ==
  ASSUME SecretInv, Shrunk, NEW r \in Req, NEW used \in BOOLEAN, End(r, used),
         inbox' \in SUBSET (Types \X (0..issued)),
         used => /\ Uses[op[r]] \in Types /\ sec[r] # None
                 /\ token'[Uses[op[r]]] # sec[r]
  PROVE  SecretInv'
<1>1. SecretTypes'
  <2>1. at' \in [Req -> Steps] /\ op' \in [Req -> OpNames]
    BY DEF End, SecretInv, SecretTypes, Steps, OpNames
  <2>2. issued' \in Nat /\ sec' \in [Req -> 0..issued']
    BY DEF Shrunk, End, SecretInv, SecretTypes, None
  <2>3. spent' \in SUBSET (Types \X (1..issued'))
    BY DEF Shrunk, End, SecretInv, SecretTypes, None
  <2> QED BY <2>1, <2>2, <2>3 DEF Shrunk, SecretInv, SecretTypes
<1>2. ASSUME NEW q \in Req PROVE StepOf(q)' /\ HasSecret(q)'
  <2>1. CASE q = r
    <3>1. at'[q] = "idle"
      BY <2>1 DEF End, SecretInv, SecretTypes
    <3> QED BY <3>1 DEF StepOf, HasSecret
  <2>2. CASE q # r
    <3>1. at'[q] = at[q] /\ op'[q] = op[q] /\ sec'[q] = sec[q]
      BY <2>2 DEF End, SecretInv, SecretTypes
    <3>2. StepOf(q) /\ HasSecret(q)
      BY DEF SecretInv
    <3> QED BY <3>1, <3>2 DEF Shrunk, StepOf, HasSecret, Types, None
  <2> QED BY <2>1, <2>2
<1>3. ASSUME NEW u \in spent' PROVE token'[u[1]] # u[2]
  <2>1. CASE u \in spent
    <3>1. u[1] \in Types /\ u[2] \in 1..issued /\ token[u[1]] # u[2]
      BY <2>1 DEF SecretInv, SecretTypes, UsedIsDead
    <3> QED BY <3>1 DEF Shrunk, None
  <2>2. CASE u \notin spent
    <3>1. used /\ u = <<Uses[op[r]], sec[r]>>
      BY <2>2 DEF End
    <3> QED BY <3>1
  <2> QED BY <2>1, <2>2
<1> QED BY <1>1, <1>2, <1>3 DEF SecretInv, UsedIsDead

\* deleteMe has used its code, and goes on.
CodeSpent(r) ==
  /\ op[r] = "deleteMe"
  /\ at' = [at EXCEPT ![r] = "mark"] /\ spent' = spent \cup {<<"code", sec[r]>>}
  /\ UNCHANGED <<op, sec, seen, listed, faults, renames, fresh, late>>

LEMMA CodeIsSpent ==
  ASSUME SecretInv, Shrunk, UNCHANGED inbox, NEW r \in Req, CodeSpent(r),
         sec[r] # None, token'["code"] = None
  PROVE  SecretInv'
<1>1. /\ at' \in [Req -> Steps] /\ at'[r] = "mark" /\ UNCHANGED <<op, sec>>
      /\ \A q \in Req \ {r} : at'[q] = at[q]
  BY DEF CodeSpent, SecretInv, SecretTypes, Steps
<1>2. <<"code", sec[r]>> \in Types \X (1..issued)
  BY DEF SecretInv, SecretTypes, Types, None
<1>3. spent' = spent \cup {<<"code", sec[r]>>}
  BY DEF CodeSpent
<1>4. SecretTypes'
  BY <1>1, <1>2, <1>3 DEF Shrunk, SecretInv, SecretTypes
<1>5. ASSUME NEW q \in Req PROVE StepOf(q)' /\ HasSecret(q)'
  <2>1. CASE q = r
    BY <1>1, <2>1 DEF CodeSpent, StepOf, HasSecret
  <2>2. CASE q # r
    <3>1. at'[q] = at[q] /\ op'[q] = op[q] /\ sec'[q] = sec[q]
      BY <1>1, <2>2
    <3>2. StepOf(q) /\ HasSecret(q)
      BY DEF SecretInv
    <3> QED BY <3>1, <3>2 DEF Shrunk, StepOf, HasSecret, Types, None
  <2> QED BY <2>1, <2>2
<1>6. ASSUME NEW u \in spent' PROVE token'[u[1]] # u[2]
  <2>1. CASE u \in spent
    <3>1. u[1] \in Types /\ u[2] \in 1..issued /\ token[u[1]] # u[2]
      BY <2>1 DEF SecretInv, SecretTypes, UsedIsDead
    <3> QED BY <3>1 DEF Shrunk, None
  <2>2. CASE u = <<"code", sec[r]>>
    BY <2>2
  <2> QED BY <2>1, <2>2, <1>3
<1> QED BY <1>4, <1>5, <1>6 DEF SecretInv, UsedIsDead

LEMMA Mailed ==
  ASSUME SecretInv
  PROVE  /\ \A t \in Types : Received(t) \subseteq 0..issued
         /\ Codes \subseteq 0..issued /\ None \in 0..issued
BY DEF SecretInv, SecretTypes, Received, Codes, None, Types

\* The pages: a handler begins with a secret its owner was mailed, or with none.
LEMMA PageStep == ASSUME SecretInv, NEW r \in Req, Page(r) PROVE SecretInv'
<1> USE DEF OpNames, Issuers, CodeUsers, LinkUsers
<1>1. None \in 0..issued
  BY Mailed
<1>2. ASSUME NEW o \in Issuers, AskFor(r, o) PROVE SecretInv'
  BY <1>1, <1>2, HandlerBegins DEF AskFor
<1>3. ASSUME NEW s \in Codes, NEW o \in {"loginTwoFactor", "enableTwoFactor"}, Present(r, o, s)
      PROVE  SecretInv'
  BY <1>3, Mailed, HandlerBegins DEF Present
<1>4. ASSUME NEW t \in Types, NEW s \in Received(t), NEW o \in LinkUsers, Open(r, o, s)
      PROVE  SecretInv'
  BY <1>4, Mailed, HandlerBegins DEF Open
<1>5. CASE \E right \in BOOLEAN : Login(r, right)
  BY <1>1, <1>5, HandlerBegins DEF Login
<1>6. CASE \E s \in Codes : VerifyLoginTwoFactor(r, s) \/ EnableTwoFactor(r, s)
  BY <1>3, <1>6 DEF VerifyLoginTwoFactor, EnableTwoFactor
<1>7. CASE \/ ResendLoginTwoFactor(r) \/ ResendVerification(r) \/ ForgotPassword(r)
           \/ RecoverAccount(r) \/ RequestTwoFactorSetup(r) \/ RequestDeletionChallenge(r)
  BY <1>2, <1>7 DEF ResendLoginTwoFactor, ResendVerification, ForgotPassword, RecoverAccount,
                    RequestTwoFactorSetup, RequestDeletionChallenge
<1>8. CASE VerifyEmailPage(r) \/ ResetPasswordPage(r) \/ VerifyRecoveryPage(r)
  BY <1>4, <1>8 DEF VerifyEmailPage, ResetPasswordPage, VerifyRecoveryPage, VerifyEmail,
                    ResetPassword, VerifyRecovery, Types
<1>9. CASE DisableTwoFactor(r)
  BY <1>1, <1>9, HandlerBegins DEF DisableTwoFactor
<1>10. CASE \E s \in Codes : DeleteMe(r, s)
  BY <1>10, Mailed, HandlerBegins DEF DeleteMe
<1>11. CASE UpdateMe(r)
  BY <1>1, <1>11, HandlerBegins DEF UpdateMe
<1> QED
  BY <1>5, <1>6, <1>7, <1>8, <1>9, <1>10, <1>11
  DEF Page, LoginPage, ResendVerificationPage, ForgotPasswordPage, RecoverAccountPage,
      SecurityPrivacyPage, DeleteAccountDialog

\* The steps of a handler.  Only a new link or code is a number that was not there, and
\* it is greater than any that was used.
LEMMA WorkStep == ASSUME SecretInv, NEW r \in Req, Work(r) PROVE SecretInv'
<1> USE DEF Steps
<1>a. StepOf(r) /\ HasSecret(r) /\ inbox \in SUBSET (Types \X (0..issued)) /\ issued \in Nat
      /\ sec \in [Req -> 0..issued] /\ token \in [Types -> 0..issued]
  BY DEF SecretInv, SecretTypes
<1>b. UNCHANGED tokens => Shrunk /\ UNCHANGED inbox
  BY Deleted DEF tokens
<1>c. ASSUME NEW t \in Types, token' = [token EXCEPT ![t] = None], issued' = issued
      PROVE  Shrunk /\ token'[t] = None
  BY <1>a, <1>c, Deleted
<1>d. ASSUME UNCHANGED tokens, End(r, FALSE) PROVE SecretInv'
  BY <1>a, <1>b, <1>d, HandlerEnds
<1>1. CASE InWindow(r)
  BY <1>1, <1>a, <1>b, <1>d, HandlerGoesOn DEF InWindow, StepOf, HasSecret
<1>2. CASE Issue(r) /\ op[r] \in Issuers
  <2>1. Issues[op[r]] \in Types
    BY <1>2, IssuesOf
  <2>2. CASE DeleteAllOfType(r)
    BY <1>2, <2>1, <2>2, <1>c, HandlerGoesOn DEF DeleteAllOfType, StepOf, HasSecret
  <2>3. CASE CreateToken(r)
    <3>1. CASE Refuse(r)
      BY <3>1, <1>d DEF Refuse
    <3>2. CASE ~Refuse(r)
      <4> DEFINE t == Issues[op[r]]
      <4>1. /\ at[r] = "create" /\ issued' = issued + 1
            /\ token' = [token EXCEPT ![t] = issued']
            /\ at' = [at EXCEPT ![r] = "mail"] /\ sec' = [sec EXCEPT ![r] = issued']
            /\ UNCHANGED <<inbox, op, spent>>
        BY <2>3, <3>2 DEF CreateToken, notes
      <4>2. SecretTypes'
        BY <4>1, <2>1 DEF SecretInv, SecretTypes
      <4>3. ASSUME NEW q \in Req PROVE StepOf(q)' /\ HasSecret(q)'
        <5>1. CASE q = r
          <6>1. at'[q] = "mail" /\ op'[q] = op[r]
            BY <5>1, <4>1 DEF SecretInv, SecretTypes
          <6> QED BY <6>1, <1>2 DEF StepOf, HasSecret
        <5>2. CASE q # r
          <6>1. at'[q] = at[q] /\ op'[q] = op[q] /\ sec'[q] = sec[q] /\ sec[q] \in 0..issued
            BY <5>2, <4>1 DEF SecretInv, SecretTypes
          <6>2. token'["code"] \in {token["code"], issued + 1}
            BY <4>1, <1>a DEF Types
          <6>3. StepOf(q) /\ HasSecret(q)
            BY DEF SecretInv
          <6>4. StepOf(q)'
            BY <6>1, <6>3 DEF StepOf
          <6>5. HasSecret(q)'
            BY <6>1, <6>2, <6>3, <1>a DEF HasSecret
          <6> QED BY <6>4, <6>5
        <5> QED BY <5>1, <5>2
      <4>4. ASSUME NEW u \in spent PROVE token'[u[1]] # u[2]
        <5>1. u[1] \in Types /\ u[2] \in 1..issued /\ token[u[1]] # u[2]
          BY DEF SecretInv, SecretTypes, UsedIsDead
        <5> QED BY <5>1, <4>1, <1>a
      <4> QED BY <4>1, <4>2, <4>3, <4>4 DEF SecretInv, UsedIsDead
    <3> QED BY <3>1, <3>2
  <2>4. CASE Mail(r)
    <3>1. Shrunk
      BY <2>4, Deleted DEF Mail
    <3>2. inbox' \in SUBSET (Types \X (0..issued))
      BY <2>4, <2>1, <1>a DEF Mail
    <3> QED BY <2>4, <3>1, <3>2, HandlerEnds DEF Mail
  <2> QED BY <1>2, <2>2, <2>3, <2>4 DEF Issue
<1>3. CASE ClearExpiredLock(r)
  BY <1>3, <1>a, <1>b, HandlerGoesOn DEF ClearExpiredLock, StepOf, HasSecret
<1>4. CASE WrongPassword(r) \/ WrongCode(r)
  BY <1>4, <1>d DEF WrongPassword, WrongCode
<1>5. CASE RightPassword(r)
  <2>1. at[r] = "verify" /\ UNCHANGED tokens /\ (Goto(r, "delete") \/ End(r, FALSE))
    BY <1>5 DEF RightPassword
  <2> QED BY <2>1, <1>a, <1>b, <1>d, HandlerGoesOn DEF StepOf, HasSecret, Issuers
<1>6. CASE CodeLock(r)
  BY <1>6, <1>a, <1>b, <1>d, HandlerGoesOn DEF CodeLock, StepOf, HasSecret
<1>7. CASE FindCode(r)
  <2>1. /\ at[r] = "find" /\ UNCHANGED tokens
        /\ \/ IsLive("code", sec[r]) /\ Goto(r, "found")
           \/ Goto(r, "fail")
    BY <1>7 DEF FindCode
  <2> QED BY <2>1, <1>a, <1>b, HandlerGoesOn DEF IsLive, StepOf, HasSecret
<1>8. CASE RightCode(r)
  <2>1. op[r] \in CodeUsers
    BY <1>8, <1>a, UsesOf DEF RightCode, StepOf, LinkUsers
  <2> QED BY <1>8, <2>1, <1>a, <1>b, HandlerGoesOn DEF RightCode, StepOf, HasSecret
<1>9. CASE ForgetCode(r)
  <2>1. at[r] = "forget" /\ Uses[op[r]] = "code" /\ op[r] \in CodeUsers
    BY <1>9, <1>a, UsesOf DEF ForgetCode, StepOf
  <2>2. Shrunk /\ UNCHANGED inbox /\ token'["code"] = None
    BY <1>9, <1>c DEF ForgetCode, Types
  <2>3. CASE Goto(r, "enable") /\ op[r] = "enableTwoFactor"
    BY <2>1, <2>2, <2>3, <1>a, HandlerGoesOn DEF StepOf, HasSecret
  <2>4. CASE CodeSpent(r)
    BY <2>1, <2>2, <2>4, <1>a, CodeIsSpent DEF HasSecret, CodeSpent
  <2>5. CASE End(r, sec[r] # None)
    BY <2>1, <2>2, <2>5, <1>a, HandlerEnds DEF Types
  <2> QED BY <1>9, <2>1, <2>3, <2>4, <2>5 DEF ForgetCode, CodeSpent
<1>10. CASE SetTwoFactor(r)
  BY <1>10, <1>a, <1>b, UsesOf, HandlerEnds
  DEF SetTwoFactor, StepOf, HasSecret, CodeUsers, Types, tokens
<1>11. CASE ClearTwoFactor(r)
  BY <1>11, <1>a, <1>b, HandlerGoesOn DEF ClearTwoFactor, StepOf, HasSecret, CodeUsers
<1>12. CASE FindLiveToken(r)
  BY <1>12, <1>a, <1>b, <1>d, HandlerGoesOn DEF FindLiveToken, IsLive, StepOf, HasSecret
<1>13. CASE MarkVerifiedAndClearTokens(r)
  <2>1. Shrunk /\ UNCHANGED inbox /\ token'["verify"] = None
    BY <1>13, <1>c DEF MarkVerifiedAndClearTokens, Types
  <2> QED
    BY <1>13, <2>1, <1>a, UsesOf, HandlerEnds DEF MarkVerifiedAndClearTokens, HasSecret, Types
<1>14. CASE CheckOwner(r)
  <2>1. /\ at[r] = "found" /\ op[r] \in {"resetPassword", "verifyRecovery"} /\ UNCHANGED tokens
        /\ Goto(r, "write") \/ End(r, FALSE)
    BY <1>14 DEF CheckOwner
  <2> QED BY <2>1, <1>a, <1>b, <1>d, HandlerGoesOn DEF StepOf, HasSecret
<1>15. CASE ResetPasswordAndClearToken(r)
  <2>1. Shrunk /\ UNCHANGED inbox /\ (sec[r] # None => token'["reset"] # sec[r])
    BY <1>15, <1>a DEF ResetPasswordAndClearToken, Shrunk, Types, None
  <2> QED
    BY <1>15, <2>1, <1>a, UsesOf, HandlerEnds DEF ResetPasswordAndClearToken, HasSecret, Types
<1>16. CASE RestoreDeleted(r)
  BY <1>16, <1>a, <1>b, HandlerGoesOn DEF RestoreDeleted, StepOf, HasSecret
<1>17. CASE ForgetRecovery(r)
  <2>1. Shrunk /\ UNCHANGED inbox /\ token'["recovery"] = None
    BY <1>17, <1>c DEF ForgetRecovery, Types
  <2>2. op[r] = "verifyRecovery" /\ sec[r] # None
    BY <1>17, <1>a DEF ForgetRecovery, StepOf, HasSecret
  <2> QED BY <1>17, <2>1, <2>2, <1>a, UsesOf, HandlerEnds DEF ForgetRecovery, Types
<1>18. CASE MarkDeleted(r)
  <2>1. Shrunk /\ UNCHANGED <<inbox, spent, op, sec>> /\ at' = [at EXCEPT ![r] = "window"]
        /\ op[r] = "deleteMe"
    BY <1>18, <1>a, <1>b DEF MarkDeleted, StepOf
  <2>2. /\ at' \in [Req -> Steps] /\ at'[r] = "window"
        /\ \A q \in Req \ {r} : at'[q] = at[q]
    BY <2>1 DEF SecretInv, SecretTypes
  <2>3. StepOf(r)' /\ HasSecret(r)'
    BY <2>1, <2>2 DEF StepOf, HasSecret, Issuers
  <2> QED BY <2>1, <2>2, <2>3, OneMoves DEF Shrunk, SecretInv, SecretTypes
<1>19. CASE UpdateAccount(r)
  <2>1. CASE Refuse(r)
    BY <2>1, <1>d DEF Refuse
  <2>2. CASE ~Refuse(r)
    <3>1. /\ at' = [at EXCEPT ![r] = "idle"] /\ op' = [op EXCEPT ![r] = "none"]
          /\ UNCHANGED <<sec, spent>> /\ UNCHANGED tokens
      BY <1>19, <2>2 DEF UpdateAccount
    <3>2. /\ at' \in [Req -> Steps] /\ op' \in [Req -> OpNames] /\ at'[r] = "idle"
          /\ \A q \in Req \ {r} : at'[q] = at[q] /\ op'[q] = op[q]
      BY <3>1 DEF SecretInv, SecretTypes, OpNames
    <3>3. StepOf(r)' /\ HasSecret(r)'
      BY <3>2 DEF StepOf, HasSecret
    <3> QED BY <3>1, <3>2, <3>3, <1>b, OneMoves DEF SecretInv, SecretTypes
  <2> QED BY <2>1, <2>2
<1> QED
  BY <1>1, <1>2, <1>3, <1>4, <1>5, <1>6, <1>7, <1>8, <1>9, <1>10, <1>11, <1>12, <1>13, <1>14,
     <1>15, <1>16, <1>17, <1>18, <1>19
  DEF Work, SendVerification, SendReset, SendRecovery, SendTwoFactorCode, Issuers

\* A server that dies, the jobs and time use nothing.
LEMMA SecretStep == SecretInv /\ [AccountNext]_accountVars => SecretInv'
<1> SUFFICES ASSUME SecretInv, [AccountNext]_accountVars PROVE SecretInv'
  OBVIOUS
<1>1. ASSUME NEW r \in Req, Die(r) PROVE SecretInv'
  <2>1. /\ at' \in [Req -> Steps] /\ op' \in [Req -> OpNames] /\ sec' \in [Req -> 0..issued]
        /\ at'[r] = "idle"
        /\ \A q \in Req \ {r} : at'[q] = at[q] /\ op'[q] = op[q] /\ sec'[q] = sec[q]
    BY <1>1 DEF Die, SecretInv, SecretTypes, Steps, OpNames, None
  <2>2. StepOf(r)' /\ HasSecret(r)'
    BY <2>1 DEF StepOf, HasSecret
  <2>3. Shrunk /\ UNCHANGED <<inbox, spent>>
    BY <1>1, Deleted DEF Die, tokens
  <2> QED BY <2>1, <2>2, <2>3, OneMoves
<1>2. ASSUME Shrunk, UNCHANGED handler, UNCHANGED <<inbox, spent>> PROVE SecretInv'
  BY <1>2, NothingSpent DEF handler
<1>3. CASE AnonymizeAccount
  <2>1. token' = [t \in Types |-> IF t \in {} THEN token[t] ELSE None] /\ issued' = issued
    BY <1>3 DEF AnonymizeAccount
  <2>2. Shrunk
    BY <2>1, {} \in SUBSET Types, Deleted
  <2> QED BY <1>2, <1>3, <2>2 DEF AnonymizeAccount, notes
<1>4. CASE DeleteExpired
  <2> DEFINE S == {t \in Types : live[t]}
  <2>1. token' = [t \in Types |-> IF t \in S THEN token[t] ELSE None] /\ issued' = issued
    BY <1>4 DEF DeleteExpired
  <2>2. Shrunk
    BY <2>1, Deleted
  <2> QED BY <1>2, <1>4, <2>2 DEF DeleteExpired, jobOnly, notes
<1>5. CASE FindDeletedSince \/ JobFails \/ Time \/ UNCHANGED accountVars
  <2>1. UNCHANGED <<token, issued>> /\ UNCHANGED handler /\ UNCHANGED <<inbox, spent>>
    BY <1>5 DEF FindDeletedSince, JobFails, Time, Expire, LockEnds, ChallengeExpires,
                CooldownEnds, WindowEnds, jobOnly, accountVars, tokens, notes
  <2> QED BY <1>2, <2>1, Deleted
<1> QED
  BY <1>1, <1>3, <1>4, <1>5, PageStep, WorkStep DEF AccountNext

\* A link or code is used once (UsedIsDead), however many handlers use it at the same time,
\* die half-way or send others meanwhile: deleteAllOfType, createToken, and the use of each.
THEOREM UsedOnce == AccountSpec => []UsedIsDead
<1>1. (\E v, two \in BOOLEAN : (two => v) /\ AccountInit(v, two)) => SecretInv
  BY SecretInitial
<1>2. SecretInv => UsedIsDead
  BY DEF SecretInv
<1> QED BY <1>1, <1>2, SecretStep, PTL DEF AccountSpec

(***************************************************************************)
(* Deletion.                                                               *)
(***************************************************************************)
\* Handlers that may still delete the account, and those that restore it.
Deletes(r)  == op[r] = "deleteMe" /\ at[r] \in {"lock", "find", "found", "forget", "mark"}
Restores(r) == op[r] = "verifyRecovery" /\ at[r] \in {"found", "write"}

\* Whoever still deletes began before the deletion, and the window outlives them; once it
\* has closed nothing is left that restores the account, unless it had begun before.
WindowInv ==
  /\ live \in [Types -> BOOLEAN] /\ deleted \in {"no", "young", "over"}
  /\ deleted # "no" => \A r \in Req : Deletes(r) => r \in fresh
  /\ deleted = "over" => fresh = {} /\ ~live["recovery"]
  /\ deleted = "over" /\ ~late => \A r \in Req : ~Restores(r)
  /\ (listed \/ scrubbed) /\ ~late => deleted = "over"

LEMMA WindowInitial ==
  ASSUME NEW v \in BOOLEAN, NEW two \in BOOLEAN, AccountInit(v, two)
  PROVE  WindowInv
BY DEF AccountInit, WindowInv, Restores

\* A handler takes a step that does not bring it nearer to deleting or restoring.
LEMMA OthersStay ==
  ASSUME SecretInv, WindowInv, NEW r \in Req, UNCHANGED <<deleted, late, listed, scrubbed>>,
         \A q \in Req \ {r} : at'[q] = at[q] /\ op'[q] = op[q],
         fresh' \in {fresh, fresh \ {r}},
         live' \in [Types -> BOOLEAN], deleted = "over" => ~live'["recovery"],
         Deletes(r)' => deleted = "no" \/ (Deletes(r) /\ fresh' = fresh),
         Restores(r)' => deleted # "over" \/ Restores(r)
  PROVE  WindowInv'
<1>1. ASSUME NEW q \in Req, q # r PROVE (Deletes(q)' <=> Deletes(q)) /\ (Restores(q)' <=> Restores(q))
  BY <1>1 DEF Deletes, Restores
<1> QED BY <1>1 DEF WindowInv

LEMMA WindowGoesOn ==
  ASSUME SecretInv, WindowInv, NEW r \in Req, NEW step \in Steps, Goto(r, step),
         UNCHANGED <<deleted, scrubbed, live>>, step # "lock",
         step \in {"find", "found", "forget", "mark"} /\ op[r] = "deleteMe" => Deletes(r),
         step \in {"found", "write"} /\ op[r] = "verifyRecovery" =>
           deleted # "over" \/ Restores(r)
  PROVE  WindowInv'
<1>1. /\ \A q \in Req \ {r} : at'[q] = at[q] /\ op'[q] = op[q]
      /\ at'[r] = step /\ op'[r] = op[r] /\ fresh' = fresh
      /\ UNCHANGED <<deleted, late, listed, scrubbed>>
  BY DEF Goto, notes, SecretInv, SecretTypes
<1>2. live' \in [Types -> BOOLEAN] /\ (deleted = "over" => ~live'["recovery"])
  BY DEF WindowInv
<1>3. Deletes(r)' => Deletes(r) /\ fresh' = fresh
  BY <1>1 DEF Deletes
<1>4. Restores(r)' => deleted # "over" \/ Restores(r)
  BY <1>1 DEF Restores
<1> QED BY <1>1, <1>2, <1>3, <1>4, OthersStay

LEMMA WindowEndsHandler ==
  ASSUME SecretInv, WindowInv, NEW r \in Req, NEW used \in BOOLEAN, End(r, used),
         UNCHANGED <<deleted, scrubbed, live>>
  PROVE  WindowInv'
<1>1. /\ \A q \in Req \ {r} : at'[q] = at[q] /\ op'[q] = op[q]
      /\ at'[r] = "idle" /\ fresh' = fresh \ {r} /\ UNCHANGED <<deleted, late, listed, scrubbed>>
  BY DEF End, SecretInv, SecretTypes
<1>2. live' \in [Types -> BOOLEAN] /\ (deleted = "over" => ~live'["recovery"])
  BY DEF WindowInv
<1>3. ~Deletes(r)' /\ ~Restores(r)'
  BY <1>1 DEF Deletes, Restores
<1> QED BY <1>1, <1>2, <1>3, OthersStay

LEMMA WindowBegins ==
  ASSUME SecretInv, WindowInv, NEW r \in Req, NEW o \in OpNames, NEW s, NEW step \in Steps,
         Begin(r, o, s, step), UNCHANGED <<row, tokens>>,
         o = "deleteMe" => deleted = "no", step \notin {"found", "write"}
  PROVE  WindowInv'
<1>1. /\ \A q \in Req \ {r} : at'[q] = at[q] /\ op'[q] = op[q]
      /\ at'[r] = step /\ op'[r] = o /\ UNCHANGED <<fresh, deleted, late, listed, scrubbed, live>>
  BY DEF Begin, SecretInv, SecretTypes, notes, row, tokens
<1>2. live' \in [Types -> BOOLEAN] /\ (deleted = "over" => ~live'["recovery"])
  BY <1>1 DEF WindowInv
<1>3. (Deletes(r)' => deleted = "no") /\ ~Restores(r)'
  BY <1>1 DEF Deletes, Restores
<1> QED BY <1>1, <1>2, <1>3, OthersStay

LEMMA PageWindow == ASSUME SecretInv, WindowInv, NEW r \in Req, Page(r) PROVE WindowInv'
<1> USE DEF OpNames, Issuers, CodeUsers, LinkUsers, Steps
<1>1. ASSUME NEW o \in Issuers \ {"deleteMe"}, AskFor(r, o) PROVE WindowInv'
  BY <1>1, WindowBegins DEF AskFor
<1>2. ASSUME NEW s, NEW o \in {"loginTwoFactor", "enableTwoFactor"}, Present(r, o, s)
      PROVE  WindowInv'
  BY <1>2, WindowBegins DEF Present
<1>3. ASSUME NEW s, NEW o \in LinkUsers, Open(r, o, s) PROVE WindowInv'
  BY <1>3, WindowBegins DEF Open
<1>4. CASE LoginPage(r) \/ ResendVerificationPage(r) \/ ForgotPasswordPage(r)
           \/ RecoverAccountPage(r) \/ RequestTwoFactorSetup(r) \/ RequestDeletionChallenge(r)
  <2>1. CASE \E right \in BOOLEAN : Login(r, right)
    BY <2>1, WindowBegins DEF Login
  <2> QED
    BY <1>1, <1>2, <1>4, <2>1
    DEF LoginPage, VerifyLoginTwoFactor, ResendLoginTwoFactor, ResendVerificationPage,
        ResendVerification, ForgotPasswordPage, ForgotPassword, RecoverAccountPage,
        RecoverAccount, RequestTwoFactorSetup, RequestDeletionChallenge
<1>5. CASE VerifyEmailPage(r) \/ ResetPasswordPage(r) \/ VerifyRecoveryPage(r)
  BY <1>3, <1>5 DEF VerifyEmailPage, ResetPasswordPage, VerifyRecoveryPage, VerifyEmail,
                    ResetPassword, VerifyRecovery
<1>6. CASE DisableTwoFactor(r) \/ \E s \in Codes : EnableTwoFactor(r, s)
  BY <1>2, <1>6, WindowBegins DEF DisableTwoFactor, EnableTwoFactor
<1>7. CASE \E s \in Codes : DeleteMe(r, s)
  BY <1>7, WindowBegins DEF DeleteMe, FindVerifiedOwner, Active
<1>8. CASE UpdateMe(r)
  BY <1>8, WindowBegins DEF UpdateMe
<1> QED
  BY <1>4, <1>5, <1>6, <1>7, <1>8 DEF Page, SecurityPrivacyPage, DeleteAccountDialog

\* Only a live link restores, and there is none once the window has closed; a handler that
\* deletes after that would have begun before, and the window would not have closed.
LEMMA WorkWindow == ASSUME SecretInv, WindowInv, NEW r \in Req, Work(r) PROVE WindowInv'
<1> USE DEF Steps
<1>a. StepOf(r)
  BY DEF SecretInv
<1>b. ASSUME UNCHANGED row, UNCHANGED live, End(r, FALSE) PROVE WindowInv'
  BY <1>b, WindowEndsHandler DEF row
<1>1. CASE InWindow(r)
  BY <1>1, <1>b, WindowGoesOn DEF InWindow, row, tokens
<1>2. CASE Issue(r)
  <2>1. CASE DeleteAllOfType(r)
    BY <2>1, WindowGoesOn DEF DeleteAllOfType, row
  <2>2. CASE CreateToken(r)
    <3>1. CASE Refuse(r)
      BY <3>1, <1>b DEF Refuse, tokens
    <3>2. CASE ~Refuse(r)
      <4>1. /\ at' = [at EXCEPT ![r] = "mail"] /\ UNCHANGED <<row, op, listed, fresh, late>>
            /\ live' = [live EXCEPT ![Issues[op[r]]] = (Issues[op[r]] = "recovery" => deleted # "over")]
        BY <2>2, <3>2 DEF CreateToken, notes
      <4>2. /\ \A q \in Req \ {r} : at'[q] = at[q] /\ op'[q] = op[q]
            /\ at'[r] = "mail"
        BY <4>1 DEF SecretInv, SecretTypes
      <4>3. live' \in [Types -> BOOLEAN] /\ (deleted = "over" => ~live'["recovery"])
        <5> DEFINE t == Issues[op[r]]
        <5>1. PICK b \in BOOLEAN : b = (t = "recovery" => deleted # "over")
          OBVIOUS
        <5>2. live' = [live EXCEPT ![t] = b]
          BY <4>1, <5>1
        <5>3. live' \in [Types -> BOOLEAN]
          BY <5>2 DEF WindowInv
        <5>4. live'["recovery"] \in {live["recovery"], b} /\ (t # "recovery" => live'["recovery"] = live["recovery"])
          BY <5>2 DEF WindowInv, Types
        <5>5. ASSUME deleted = "over" PROVE live'["recovery"] = FALSE
          <6>1. ~live["recovery"]
            BY <5>5 DEF WindowInv
          <6>2. CASE t = "recovery"
            BY <6>1, <6>2, <5>1, <5>4, <5>5 DEF WindowInv, Types
          <6>3. CASE t # "recovery"
            BY <6>1, <6>3, <5>4 DEF WindowInv, Types
          <6> QED BY <6>2, <6>3
        <5> QED BY <5>3, <5>5
      <4>4. ~Deletes(r)' /\ ~Restores(r)'
        BY <4>2 DEF Deletes, Restores
      <4> QED BY <4>1, <4>2, <4>3, <4>4, OthersStay DEF row
    <3> QED BY <3>1, <3>2
  <2>3. CASE Mail(r)
    BY <2>3, <1>b DEF Mail
  <2> QED BY <1>2, <2>1, <2>2, <2>3 DEF Issue
<1>3. CASE ClearExpiredLock(r) \/ WrongPassword(r) \/ RightPassword(r)
  <2>1. UNCHANGED row /\ UNCHANGED live /\ (End(r, FALSE) \/ Goto(r, "verify") \/ Goto(r, "delete"))
    BY <1>3 DEF ClearExpiredLock, WrongPassword, RightPassword, tokens
  <2> QED BY <2>1, <1>b, WindowGoesOn DEF row
<1>4. CASE CodeLock(r) \/ WrongCode(r)
  <2>1. CASE End(r, FALSE)
    BY <1>4, <2>1, <1>b DEF CodeLock, WrongCode, tokens
  <2>2. CASE CodeLock(r) /\ Goto(r, "find")
    BY <2>2, <1>a, WindowGoesOn DEF CodeLock, row, tokens, StepOf, Deletes
  <2> QED BY <1>4, <2>1, <2>2 DEF CodeLock, WrongCode
<1>15. CASE FindCode(r)
  <2>1. UNCHANGED <<deleted, scrubbed, live>> /\ (op[r] = "deleteMe" => Deletes(r))
        /\ op[r] # "verifyRecovery"
    BY <1>15, UsesOf DEF FindCode, row, tokens, Deletes
  <2>2. Goto(r, "found") \/ Goto(r, "fail")
    BY <1>15 DEF FindCode
  <2> QED BY <2>1, <2>2, WindowGoesOn
<1>5. CASE RightCode(r)
  BY <1>5, <1>a, WindowGoesOn DEF RightCode, row, tokens, StepOf, Deletes
<1>6. CASE ForgetCode(r)
  <2>1. /\ UNCHANGED row /\ UNCHANGED live /\ at[r] = "forget"
    BY <1>6 DEF ForgetCode
  <2>2. CASE End(r, sec[r] # None)
    BY <2>1, <2>2, WindowEndsHandler DEF row
  <2>3. CASE Goto(r, "enable")
    BY <2>1, <2>3, WindowGoesOn DEF row
  <2>4. CASE CodeSpent(r)
    <3>1. /\ at' = [at EXCEPT ![r] = "mark"] /\ op[r] = "deleteMe"
          /\ UNCHANGED <<op, fresh, deleted, late, listed, scrubbed, live>>
      BY <2>1, <2>4 DEF CodeSpent, row
    <3>2. /\ \A q \in Req \ {r} : at'[q] = at[q] /\ op'[q] = op[q]
          /\ at'[r] = "mark"
      BY <3>1 DEF SecretInv, SecretTypes
    <3>3. live' \in [Types -> BOOLEAN] /\ (deleted = "over" => ~live'["recovery"])
      BY <3>1 DEF WindowInv
    <3>4. Deletes(r) /\ ~Restores(r)'
      BY <2>1, <3>1, <3>2 DEF Deletes, Restores
    <3> QED BY <3>1, <3>2, <3>3, <3>4, OthersStay
  <2> QED BY <1>6, <2>2, <2>3, <2>4 DEF ForgetCode, CodeSpent
<1>7. CASE SetTwoFactor(r) \/ MarkVerifiedAndClearTokens(r)
  BY <1>7, WindowEndsHandler DEF SetTwoFactor, MarkVerifiedAndClearTokens, tokens
<1>8. CASE ClearTwoFactor(r)
  BY <1>8, <1>a, WindowGoesOn DEF ClearTwoFactor, tokens, StepOf
<1>9. CASE FindLiveToken(r)
  <2>1. /\ UNCHANGED row /\ UNCHANGED live
        /\ \/ End(r, FALSE)
           \/ Goto(r, "found") /\ at[r] = "find" /\ (op[r] = "verifyRecovery" => live["recovery"])
    BY <1>9, UsesOf DEF FindLiveToken, IsLive, tokens
  <2>2. live["recovery"] => deleted # "over"
    BY DEF WindowInv
  <2> QED BY <2>1, <2>2, <1>b, WindowGoesOn DEF row, Deletes
<1>10. CASE CheckOwner(r)
  <2>1. /\ UNCHANGED row /\ UNCHANGED live /\ at[r] = "found"
        /\ End(r, FALSE) \/ Goto(r, "write")
    BY <1>10 DEF CheckOwner, tokens
  <2> QED BY <2>1, <1>b, WindowGoesOn DEF row, Restores
<1>11. CASE ResetPasswordAndClearToken(r) \/ ForgetRecovery(r)
  BY <1>11, WindowEndsHandler DEF ResetPasswordAndClearToken, ForgetRecovery, row
<1>12. CASE RestoreDeleted(r)
  <2>1. /\ Restores(r) /\ deleted' = "no" /\ UNCHANGED <<live, listed, scrubbed, late>>
    BY <1>12 DEF RestoreDeleted, Restores, Goto, notes, tokens
  <2> QED BY <2>1 DEF WindowInv
<1>13. CASE MarkDeleted(r)
  <2>1. /\ Deletes(r) /\ deleted' = "young" /\ UNCHANGED <<live, listed, scrubbed, late, op>>
        /\ at' = [at EXCEPT ![r] = "window"] /\ fresh' = {q \in Req : at[q] # "idle"}
    BY <1>13, <1>a DEF MarkDeleted, StepOf, Deletes, tokens
  <2>2. deleted # "over"
    BY <2>1 DEF WindowInv
  <2>3. ASSUME NEW q \in Req, Deletes(q)' PROVE q \in fresh'
    BY <2>1, <2>3 DEF Deletes, SecretInv, SecretTypes
  <2> QED BY <2>1, <2>2, <2>3 DEF WindowInv
<1>14. CASE UpdateAccount(r)
  <2>1. CASE Refuse(r)
    BY <2>1, <1>b DEF Refuse, tokens
  <2>2. CASE ~Refuse(r)
    <3>1. /\ at' = [at EXCEPT ![r] = "idle"] /\ op' = [op EXCEPT ![r] = "none"]
          /\ fresh' = fresh \ {r} /\ UNCHANGED <<deleted, late, listed, scrubbed, live>>
      BY <1>14, <2>2 DEF UpdateAccount, tokens
    <3>2. /\ \A q \in Req \ {r} : at'[q] = at[q] /\ op'[q] = op[q]
          /\ at'[r] = "idle"
      BY <3>1 DEF SecretInv, SecretTypes
    <3>3. ~Deletes(r)' /\ ~Restores(r)'
      BY <3>2 DEF Deletes, Restores
    <3> QED BY <3>1, <3>2, <3>3, OthersStay DEF WindowInv
  <2> QED BY <2>1, <2>2
<1> QED
  BY <1>1, <1>2, <1>3, <1>4, <1>5, <1>6, <1>7, <1>8, <1>9, <1>10, <1>11, <1>12, <1>13, <1>14,
     <1>15
  DEF Work, SendVerification, SendReset, SendRecovery, SendTwoFactorCode

LEMMA WindowStep == SecretInv /\ WindowInv /\ [AccountNext]_accountVars => WindowInv'
<1> SUFFICES ASSUME SecretInv, WindowInv, [AccountNext]_accountVars PROVE WindowInv'
  OBVIOUS
<1>1. ASSUME NEW r \in Req, Die(r) PROVE WindowInv'
  <2>1. /\ \A q \in Req \ {r} : at'[q] = at[q] /\ op'[q] = op[q]
        /\ at'[r] = "idle" /\ fresh' = fresh \ {r}
        /\ UNCHANGED <<deleted, late, listed, scrubbed, live>>
    BY <1>1 DEF Die, row, tokens, SecretInv, SecretTypes
  <2>2. ~Deletes(r)' /\ ~Restores(r)'
    BY <2>1 DEF Deletes, Restores
  <2> QED BY <1>1, <2>1, <2>2, OthersStay DEF WindowInv
<1>2. ASSUME UNCHANGED handler, UNCHANGED <<deleted, fresh, late>>, 
             live' \in [Types -> BOOLEAN], deleted = "over" => ~live'["recovery"],
             (listed' \/ scrubbed') /\ ~late => deleted = "over"
      PROVE  WindowInv'
  BY <1>2 DEF WindowInv, handler, Deletes, Restores
<1>3. CASE FindDeletedSince \/ AnonymizeAccount \/ JobFails \/ DeleteExpired
  <2>1. /\ UNCHANGED handler /\ UNCHANGED <<deleted, fresh, late, live>>
        /\ \/ listed' /\ deleted = "over" /\ UNCHANGED scrubbed
           \/ listed /\ ~listed'
           \/ UNCHANGED <<listed, scrubbed>>
    BY <1>3 DEF FindDeletedSince, AnonymizeAccount, JobFails, DeleteExpired, jobOnly, notes, row,
                tokens
  <2> QED BY <2>1, <1>2 DEF WindowInv
<1>4. CASE WindowEnds
  <2>1. /\ UNCHANGED handler /\ fresh = {} /\ fresh' = {} /\ deleted' = "over"
        /\ live' = [live EXCEPT !["recovery"] = FALSE] /\ UNCHANGED <<listed, scrubbed>>
        /\ late' = (late \/ \E r \in Req : Restores(r)) /\ deleted = "young"
    BY <1>4 DEF WindowEnds, Restores
  <2>2. live' \in [Types -> BOOLEAN] /\ ~live'["recovery"]
    BY <2>1 DEF WindowInv, Types
  <2>3. \A r \in Req : (Deletes(r)' <=> Deletes(r)) /\ (Restores(r)' <=> Restores(r))
    BY <2>1 DEF handler, Deletes, Restores
  <2> QED BY <2>1, <2>2, <2>3 DEF WindowInv
<1>5. CASE \E t \in Types : Expire(t)
  <2>1. /\ UNCHANGED handler /\ UNCHANGED <<deleted, fresh, late, listed, scrubbed>>
        /\ \E t \in Types : live' = [live EXCEPT ![t] = FALSE]
    BY <1>5 DEF Expire, jobOnly, notes, row
  <2>2. live' \in [Types -> BOOLEAN] /\ (live'["recovery"] => live["recovery"])
    BY <2>1 DEF WindowInv, Types
  <2> QED BY <2>1, <2>2, <1>2 DEF WindowInv
<1>6. CASE ChallengeExpires \/ CooldownEnds \/ (\E g \in Guess : LockEnds(g))
           \/ UNCHANGED accountVars
  <2>1. UNCHANGED handler /\ UNCHANGED <<deleted, fresh, late, listed, scrubbed, live>>
    BY <1>6 DEF ChallengeExpires, CooldownEnds, LockEnds, accountVars, jobOnly, notes, row, tokens
  <2> QED BY <2>1, <1>2 DEF WindowInv
<1> QED
  BY <1>1, <1>3, <1>4, <1>5, <1>6, PageWindow, WorkWindow DEF AccountNext, Time

\* A deleted account keeps its recovery window, and is not anonymized while it is in use
\* (deleteMe, verifyRecovery, runAnonymization), however many handlers run and die, unless
\* its recovery was under way as the window closed.
THEOREM WindowKept == AccountSpec => []RestoredIsSafe
<1>1. (\E v, two \in BOOLEAN : (two => v) /\ AccountInit(v, two)) => SecretInv /\ WindowInv
  BY SecretInitial, WindowInitial
<1>2. SecretInv /\ WindowInv => RestoredIsSafe
  BY DEF WindowInv, RestoredIsSafe
<1> QED BY <1>1, <1>2, SecretStep, WindowStep, PTL DEF AccountSpec

(***************************************************************************)
(* Counters and locks.                                                     *)
(***************************************************************************)
\* Handlers that may still count a wrong password or code, or write a new username.
Trying(g) ==
  IF g = "password" THEN {r \in Req : at[r] \in {"unlock", "verify"} /\ seen[r] = "wrong"}
  ELSE {r \in Req : at[r] = "fail" \/ (at[r] = "find" /\ op[r] \in CodeUsers)}

Renaming == {r \in Req : at[r] = "rename"}

LimitTypes ==
  /\ fails \in [Guess -> Nat] /\ guesses \in [Guess -> Nat]
  /\ lock \in [Guess -> {"none", "on", "over"}] /\ lifted \in [Guess -> BOOLEAN]
  /\ seen \in [Req -> {"none", "wrong", "code", "right"}]
  /\ renames \in Nat

\* While a lock is on, whoever was trying as it came may still count, and nobody joins
\* them; without a lock there were as many tries as the counter says.
Limited(g) ==
  /\ lock[g] = "none" <=> fails[g] < MaxTries[g]
  /\ ~lifted[g] =>
       /\ lock[g] = "none" => guesses[g] <= fails[g]
       /\ lock[g] = "over" => guesses[g] = 0
       /\ lock[g] = "on" => guesses[g] + Cardinality(Trying(g)) <= MaxTries[g] - 1 + Cardinality(Req)

Renamed ==
  /\ ~cooldown => renames = 0
  /\ cooldown => renames + Cardinality(Renaming) <= Cardinality(Req)

LimitInv == LimitTypes /\ (\A g \in Guess : Limited(g)) /\ Renamed

LEMMA Sizes ==
  /\ Cardinality(Req) \in Nat
  /\ \A S \in SUBSET Req :
       /\ Cardinality(S) \in Nat /\ Cardinality(S) <= Cardinality(Req)
       /\ \A T \in SUBSET S : Cardinality(T) <= Cardinality(S)
       /\ \A r \in S : Cardinality(S \ {r}) = Cardinality(S) - 1
<1>1. IsFiniteSet(Req)
  BY AccountAssumption DEF AccountAssumption
<1>2. ASSUME NEW S \in SUBSET Req
      PROVE  IsFiniteSet(S) /\ Cardinality(S) \in Nat /\ Cardinality(S) <= Cardinality(Req)
  BY <1>1, FS_Subset, FS_CardinalityType
<1>3. ASSUME NEW S \in SUBSET Req, NEW T \in SUBSET S PROVE Cardinality(T) <= Cardinality(S)
  BY <1>2, FS_Subset
<1>4. ASSUME NEW S \in SUBSET Req, NEW r \in S PROVE Cardinality(S \ {r}) = Cardinality(S) - 1
  BY <1>2, FS_RemoveElement
<1> QED BY <1>1, <1>2, <1>3, <1>4, FS_CardinalityType

LEMMA TryingTypes ==
  /\ \A g \in Guess : Trying(g) \subseteq Req /\ Trying(g)' \subseteq Req
  /\ Renaming \subseteq Req /\ Renaming' \subseteq Req
BY DEF Trying, Renaming

LEMMA LimitInitial ==
  ASSUME NEW v \in BOOLEAN, NEW two \in BOOLEAN, AccountInit(v, two)
  PROVE  LimitInv
<1>1. LimitTypes
  BY DEF AccountInit, LimitTypes, None
<1>2. ASSUME NEW g \in Guess PROVE Limited(g)
  BY AccountAssumption DEF AccountInit, Limited, AccountAssumption
<1>3. Renamed
  BY DEF AccountInit, Renamed
<1> QED BY <1>1, <1>2, <1>3 DEF LimitInv

\* Nothing is counted, and nobody begins to try what is locked.
LEMMA NothingCounted ==
  ASSUME LimitInv, UNCHANGED <<locks, renames, cooldown>>,
         seen' \in [Req -> {"none", "wrong", "code", "right"}],
         \A g \in Guess : lock[g] = "on" => Trying(g)' \subseteq Trying(g),
         cooldown => Renaming' \subseteq Renaming
  PROVE  LimitInv'
<1>1. LimitTypes'
  BY DEF LimitInv, LimitTypes, locks
<1>2. ASSUME NEW g \in Guess PROVE Limited(g)'
  <2>1. Limited(g) /\ guesses[g] \in Nat /\ MaxTries[g] \in Nat
    BY AccountAssumption DEF LimitInv, LimitTypes, AccountAssumption
  <2>2. lock[g] = "on" => /\ Cardinality(Trying(g)') <= Cardinality(Trying(g))
                          /\ Cardinality(Trying(g)') \in Nat /\ Cardinality(Trying(g)) \in Nat
    BY TryingTypes, Sizes
  <2>3. guesses' = guesses /\ fails' = fails /\ lock' = lock /\ lifted' = lifted
    BY DEF locks
  <2> QED BY <2>1, <2>2, <2>3, Sizes DEF Limited
<1>3. Renamed'
  <2>1. cooldown => /\ Cardinality(Renaming') <= Cardinality(Renaming)
                    /\ Cardinality(Renaming') \in Nat /\ Cardinality(Renaming) \in Nat
    BY TryingTypes, Sizes
  <2> QED BY <2>1, Sizes DEF LimitInv, LimitTypes, Renamed
<1> QED BY <1>1, <1>2, <1>3 DEF LimitInv

\* A handler counts a wrong try, and ends.
LEMMA OneCounted ==
  ASSUME LimitInv, NEW h \in Guess, NEW r \in Trying(h), RecordFailed(h),
         UNCHANGED <<renames, cooldown>>,
         seen' \in [Req -> {"none", "wrong", "code", "right"}],
         \A g \in Guess : Trying(g)' \subseteq Trying(g) \ {r},
         Renaming' \subseteq Renaming
  PROVE  LimitInv'
<1>1. LimitTypes'
  BY DEF LimitInv, LimitTypes, RecordFailed, CountOn
<1>2. ASSUME NEW g \in Guess PROVE Limited(g)'
  <2>1. /\ Limited(g) /\ guesses[g] \in Nat /\ fails[g] \in Nat
        /\ MaxTries[g] \in Nat \ {0} /\ lock[g] \in {"none", "on", "over"}
    BY AccountAssumption DEF LimitInv, LimitTypes, AccountAssumption
  <2>2. /\ Cardinality(Trying(g)') <= Cardinality(Trying(g))
        /\ Cardinality(Trying(g)') \in Nat /\ Cardinality(Trying(g)) \in Nat
        /\ Cardinality(Trying(g)) <= Cardinality(Req) /\ Cardinality(Req) \in Nat
    BY TryingTypes, Sizes
  <2>3. CASE g = h
    <3>1. Cardinality(Trying(g)') <= Cardinality(Trying(g)) - 1
      <4>1. Trying(g) \in SUBSET Req /\ Trying(g) \ {r} \in SUBSET Req
        BY TryingTypes
      <4>2. Cardinality(Trying(g) \ {r}) = Cardinality(Trying(g)) - 1
        BY <2>3, <4>1, Sizes
      <4>3. Cardinality(Trying(g)') <= Cardinality(Trying(g) \ {r})
        BY <4>1, Sizes
      <4> QED BY <4>2, <4>3
    <3>2. /\ guesses'[g] = guesses[g] + 1 /\ lifted'[g] = lifted[g]
          /\ fails'[g] = IF fails[g] < MaxTries[g] THEN fails[g] + 1 ELSE fails[g]
          /\ lock'[g] = IF fails[g] + 1 >= MaxTries[g] /\ lock[g] # "on" THEN "on" ELSE lock[g]
      BY <2>3 DEF RecordFailed, CountOn, LimitInv, LimitTypes
    <3>3. CASE lock[g] = "on"
      BY <3>1, <3>2, <3>3, <2>1, <2>2 DEF Limited
    <3>4. CASE lock[g] = "none"
      BY <3>1, <3>2, <3>4, <2>1, <2>2 DEF Limited
    <3>5. CASE lock[g] = "over"
      BY <3>1, <3>2, <3>5, <2>1, <2>2 DEF Limited
    <3> QED BY <2>1, <3>3, <3>4, <3>5
  <2>4. CASE g # h
    <3>1. /\ guesses'[g] = guesses[g] /\ lifted'[g] = lifted[g]
          /\ fails'[g] = fails[g] /\ lock'[g] = lock[g]
      BY <2>4 DEF RecordFailed, LimitInv, LimitTypes
    <3> QED BY <3>1, <2>1, <2>2 DEF Limited
  <2> QED BY <2>3, <2>4
<1>3. Renamed'
  <2>1. /\ Cardinality(Renaming') <= Cardinality(Renaming)
        /\ Cardinality(Renaming') \in Nat /\ Cardinality(Renaming) \in Nat
    BY TryingTypes, Sizes
  <2> QED BY <2>1, Sizes DEF LimitInv, LimitTypes, Renamed
<1> QED BY <1>1, <1>2, <1>3 DEF LimitInv

\* A counter is reset by a handler that does not begin to try something else.
LEMMA OneReset ==
  ASSUME LimitInv, NEW h \in Guess, NEW proved \in BOOLEAN, ResetFailures(h, proved),
         UNCHANGED <<renames, cooldown>>,
         seen' \in [Req -> {"none", "wrong", "code", "right"}],
         \A g \in Guess \ {h} : Trying(g)' \subseteq Trying(g),
         Renaming' \subseteq Renaming
  PROVE  LimitInv'
<1>1. LimitTypes'
  BY DEF LimitInv, LimitTypes, ResetFailures
<1>2. ASSUME NEW g \in Guess PROVE Limited(g)'
  <2>1. /\ Limited(g) /\ guesses[g] \in Nat /\ fails[g] \in Nat
        /\ MaxTries[g] \in Nat \ {0} /\ lock[g] \in {"none", "on", "over"}
    BY AccountAssumption DEF LimitInv, LimitTypes, AccountAssumption
  <2>2. CASE g = h
    <3>1. /\ fails'[g] = 0 /\ lock'[g] = "none"
          /\ guesses'[g] = IF proved THEN 0 ELSE guesses[g]
          /\ ~lifted'[g] => proved \/ (~lifted[g] /\ lock[g] = "over")
      BY <2>2 DEF ResetFailures, LimitInv, LimitTypes
    <3> QED BY <3>1, <2>1 DEF Limited
  <2>3. CASE g # h
    <3>1. /\ guesses'[g] = guesses[g] /\ lifted'[g] = lifted[g]
          /\ fails'[g] = fails[g] /\ lock'[g] = lock[g]
      BY <2>3 DEF ResetFailures, LimitInv, LimitTypes
    <3>2. /\ Cardinality(Trying(g)') <= Cardinality(Trying(g))
          /\ Cardinality(Trying(g)') \in Nat /\ Cardinality(Trying(g)) \in Nat
          /\ Cardinality(Req) \in Nat
      BY <2>3, TryingTypes, Sizes
    <3> QED BY <3>1, <3>2, <2>1 DEF Limited
  <2> QED BY <2>2, <2>3
<1>3. Renamed'
  <2>1. /\ Cardinality(Renaming') <= Cardinality(Renaming)
        /\ Cardinality(Renaming') \in Nat /\ Cardinality(Renaming) \in Nat
    BY TryingTypes, Sizes
  <2> QED BY <2>1, Sizes DEF LimitInv, LimitTypes, Renamed
<1> QED BY <1>1, <1>2, <1>3 DEF LimitInv

\* One handler takes a step that counts nothing.
LEMMA OneActs ==
  ASSUME SecretInv, LimitInv, NEW r \in Req, UNCHANGED <<locks, renames, cooldown>>,
         seen' \in [Req -> {"none", "wrong", "code", "right"}],
         \A q \in Req \ {r} : at'[q] = at[q] /\ op'[q] = op[q] /\ seen'[q] = seen[q],
         \A g \in Guess : r \in Trying(g)' => r \in Trying(g) \/ lock[g] # "on",
         at'[r] = "rename" => at[r] = "rename" \/ ~cooldown
  PROVE  LimitInv'
<1>1. ASSUME NEW g \in Guess, lock[g] = "on" PROVE Trying(g)' \subseteq Trying(g)
  <2>1. ASSUME NEW q \in Req \ {r} PROVE q \in Trying(g)' <=> q \in Trying(g)
    BY <2>1 DEF Trying
  <2>2. Trying(g)' \subseteq Req
    BY TryingTypes
  <2> QED BY <1>1, <2>1, <2>2
<1>2. cooldown => Renaming' \subseteq Renaming
  BY DEF Renaming
<1> QED BY <1>1, <1>2, NothingCounted

LEMMA BeginsLimits ==
  ASSUME SecretInv, LimitInv, NEW r \in Req, NEW o, NEW s, NEW step \in Steps,
         Begin(r, o, s, step), UNCHANGED <<row, locks>>, o \in OpNames,
         seen' = seen \/ \E word \in {"wrong", "code", "right"} : seen' = [seen EXCEPT ![r] = word],
         step \in {"unlock", "verify"} => lock["password"] # "on",
         step = "find" => o \notin CodeUsers, step # "fail", step = "rename" => ~cooldown
  PROVE  LimitInv'
<1>1. /\ \A q \in Req \ {r} : at'[q] = at[q] /\ op'[q] = op[q] /\ seen'[q] = seen[q]
      /\ at'[r] = step /\ op'[r] = o
      /\ seen' \in [Req -> {"none", "wrong", "code", "right"}]
  BY DEF Begin, SecretInv, SecretTypes, LimitInv, LimitTypes
<1>2. ASSUME NEW g \in Guess, r \in Trying(g)' PROVE lock[g] # "on"
  BY <1>1, <1>2 DEF Trying, Guess
<1>3. UNCHANGED <<locks, renames, cooldown>>
  BY DEF Begin, notes, row
<1> QED BY <1>1, <1>2, <1>3, OneActs

LEMMA GoesOnLimits ==
  ASSUME SecretInv, LimitInv, NEW r \in Req, NEW step \in Steps, Goto(r, step),
         UNCHANGED <<locks, cooldown>>,
         step = "verify" => at[r] = "unlock", step # "unlock", step # "rename",
         step \in {"find", "fail"} => r \in Trying("code") \/ lock["code"] # "on"
  PROVE  LimitInv'
<1>1. /\ \A q \in Req \ {r} : at'[q] = at[q] /\ op'[q] = op[q] /\ seen'[q] = seen[q]
      /\ at'[r] = step /\ op'[r] = op[r] /\ seen' = seen
      /\ UNCHANGED <<locks, renames, cooldown>>
  BY DEF Goto, notes, SecretInv, SecretTypes
<1>2. seen' \in [Req -> {"none", "wrong", "code", "right"}]
  BY <1>1 DEF LimitInv, LimitTypes
<1>3. ASSUME NEW g \in Guess, r \in Trying(g)' PROVE r \in Trying(g) \/ lock[g] # "on"
  BY <1>1, <1>3 DEF Trying, Guess
<1> QED BY <1>1, <1>2, <1>3, OneActs

LEMMA EndsLimits ==
  ASSUME SecretInv, LimitInv, NEW r \in Req, NEW used \in BOOLEAN, End(r, used),
         UNCHANGED <<locks, cooldown>>
  PROVE  LimitInv'
<1>1. /\ \A q \in Req \ {r} : at'[q] = at[q] /\ op'[q] = op[q] /\ seen'[q] = seen[q]
      /\ at'[r] = "idle" /\ UNCHANGED <<locks, renames, cooldown>>
      /\ seen' \in [Req -> {"none", "wrong", "code", "right"}]
  BY DEF End, SecretInv, SecretTypes, LimitInv, LimitTypes
<1>2. ASSUME NEW g \in Guess PROVE r \notin Trying(g)'
  BY <1>1 DEF Trying
<1> QED BY <1>1, <1>2, OneActs

LEMMA PageLimits == ASSUME SecretInv, LimitInv, NEW r \in Req, Page(r) PROVE LimitInv'
<1> USE DEF OpNames, Issuers, CodeUsers, LinkUsers, Steps
<1>1. ASSUME NEW o \in Issuers, AskFor(r, o) PROVE LimitInv'
  BY <1>1, BeginsLimits DEF AskFor
<1>2. ASSUME NEW s, NEW o \in {"loginTwoFactor", "enableTwoFactor"}, Present(r, o, s)
      PROVE  LimitInv'
  BY <1>2, BeginsLimits DEF Present
<1>3. ASSUME NEW s, NEW o \in LinkUsers, Open(r, o, s) PROVE LimitInv'
  BY <1>3, BeginsLimits DEF Open
<1>4. ASSUME NEW right \in BOOLEAN, Login(r, right) PROVE LimitInv'
  <2>1. \E word \in {"wrong", "code", "right"} : seen' = [seen EXCEPT ![r] = word]
    BY <1>4 DEF Login
  <2>2. UNCHANGED <<row, locks>> /\ lock["password"] # "on"
    BY <1>4 DEF Login
  <2>3. Begin(r, "login", None, "unlock") \/ Begin(r, "login", None, "verify")
    BY <1>4 DEF Login
  <2> QED BY <2>1, <2>2, <2>3, BeginsLimits
<1>5. CASE \/ ResendLoginTwoFactor(r) \/ ResendVerification(r) \/ ForgotPassword(r)
           \/ RecoverAccount(r) \/ RequestTwoFactorSetup(r) \/ RequestDeletionChallenge(r)
  BY <1>1, <1>5 DEF ResendLoginTwoFactor, ResendVerification, ForgotPassword, RecoverAccount,
                    RequestTwoFactorSetup, RequestDeletionChallenge
<1>6. CASE \E s \in Codes : VerifyLoginTwoFactor(r, s) \/ EnableTwoFactor(r, s)
  BY <1>2, <1>6 DEF VerifyLoginTwoFactor, EnableTwoFactor
<1>7. CASE VerifyEmailPage(r) \/ ResetPasswordPage(r) \/ VerifyRecoveryPage(r)
  BY <1>3, <1>7 DEF VerifyEmailPage, ResetPasswordPage, VerifyRecoveryPage, VerifyEmail,
                    ResetPassword, VerifyRecovery
<1>8. CASE DisableTwoFactor(r)
  BY <1>8, BeginsLimits DEF DisableTwoFactor
<1>9. CASE \E s \in Codes : DeleteMe(r, s)
  BY <1>9, BeginsLimits DEF DeleteMe
<1>10. CASE UpdateMe(r)
  BY <1>10, BeginsLimits DEF UpdateMe
<1> QED
  BY <1>4, <1>5, <1>6, <1>7, <1>8, <1>9, <1>10
  DEF Page, LoginPage, ResendVerificationPage, ForgotPasswordPage, RecoverAccountPage,
      SecurityPrivacyPage, DeleteAccountDialog

LEMMA WorkLimits == ASSUME SecretInv, LimitInv, NEW r \in Req, Work(r) PROVE LimitInv'
<1> USE DEF Steps
<1>a. StepOf(r) /\ at \in [Req -> Steps] /\ op \in [Req -> OpNames]
      /\ seen \in [Req -> {"none", "wrong", "code", "right"}]
  BY DEF SecretInv, SecretTypes, LimitInv, LimitTypes
<1>b. ASSUME UNCHANGED <<locks, cooldown>>, End(r, FALSE) PROVE LimitInv'
  BY <1>b, EndsLimits
<1>c. ASSUME Goto(r, "delete") \/ Goto(r, "forget")
      PROVE  /\ \A g \in Guess : Trying(g)' \subseteq Trying(g)
             /\ Renaming' \subseteq Renaming /\ seen' = seen /\ UNCHANGED renames
  <2>1. /\ \A q \in Req \ {r} : at'[q] = at[q] /\ op'[q] = op[q]
        /\ at'[r] \in {"delete", "forget"} /\ op'[r] = op[r] /\ seen' = seen
        /\ UNCHANGED renames
    BY <1>c, <1>a DEF Goto, notes
  <2>2. ASSUME NEW g \in Guess PROVE Trying(g)' \subseteq Trying(g)
    BY <2>1 DEF Trying
  <2>3. Renaming' \subseteq Renaming
    BY <2>1 DEF Renaming
  <2> QED BY <2>1, <2>2, <2>3
<1>d. ASSUME End(r, FALSE)
      PROVE  /\ \A g \in Guess : Trying(g)' \subseteq Trying(g) \ {r}
             /\ Renaming' \subseteq Renaming /\ UNCHANGED renames
             /\ seen' \in [Req -> {"none", "wrong", "code", "right"}]
  <2>1. /\ \A q \in Req \ {r} : at'[q] = at[q] /\ op'[q] = op[q] /\ seen'[q] = seen[q]
        /\ at'[r] = "idle" /\ UNCHANGED renames
        /\ seen' \in [Req -> {"none", "wrong", "code", "right"}]
    BY <1>a, <1>d DEF End
  <2>2. ASSUME NEW g \in Guess PROVE Trying(g)' \subseteq Trying(g) \ {r}
    BY <2>1 DEF Trying
  <2>3. Renaming' \subseteq Renaming
    BY <2>1 DEF Renaming
  <2> QED BY <2>1, <2>2, <2>3
<1>1. CASE InWindow(r)
  BY <1>1, <1>b, GoesOnLimits DEF InWindow, row
<1>2. CASE Issue(r)
  <2>1. CASE DeleteAllOfType(r)
    BY <2>1, GoesOnLimits DEF DeleteAllOfType, row
  <2>2. CASE CreateToken(r)
    <3>1. CASE Refuse(r)
      BY <3>1, <1>b DEF Refuse, row
    <3>2. CASE ~Refuse(r)
      <4>1. /\ at' = [at EXCEPT ![r] = "mail"] /\ UNCHANGED <<row, locks, op, seen, renames>>
        BY <2>2, <3>2 DEF CreateToken, notes
      <4>2. /\ \A q \in Req \ {r} : at'[q] = at[q] /\ op'[q] = op[q] /\ seen'[q] = seen[q]
            /\ at'[r] = "mail" /\ seen' \in [Req -> {"none", "wrong", "code", "right"}]
        BY <4>1, <1>a
      <4>3. ASSUME NEW g \in Guess PROVE r \notin Trying(g)'
        BY <4>2 DEF Trying
      <4> QED BY <4>1, <4>2, <4>3, OneActs DEF row
    <3> QED BY <3>1, <3>2
  <2>3. CASE Mail(r)
    BY <2>3, <1>b DEF Mail, row
  <2> QED BY <1>2, <2>1, <2>2, <2>3 DEF Issue
<1>3. CASE ClearExpiredLock(r)
  <2>1. ResetFailures("password", FALSE) /\ Goto(r, "verify") /\ UNCHANGED cooldown
    BY <1>3 DEF ClearExpiredLock, row
  <2>2. /\ \A q \in Req \ {r} : at'[q] = at[q] /\ op'[q] = op[q]
        /\ at'[r] = "verify" /\ seen' = seen /\ UNCHANGED renames
    BY <2>1, <1>a DEF Goto, notes
  <2>3. ASSUME NEW g \in Guess \ {"password"} PROVE Trying(g)' \subseteq Trying(g)
    BY <2>2 DEF Trying
  <2>4. Renaming' \subseteq Renaming
    BY <2>2 DEF Renaming
  <2> QED BY <2>1, <2>2, <2>3, <2>4, <1>a, OneReset DEF Guess
<1>4. CASE WrongPassword(r)
  <2>1. r \in Trying("password")
    BY <1>4 DEF WrongPassword, Trying
  <2> QED BY <1>4, <2>1, <1>d, OneCounted DEF WrongPassword, Guess, row
<1>5. CASE RightPassword(r)
  <2>1. ResetFailures("password", TRUE) /\ UNCHANGED cooldown /\ (Goto(r, "delete") \/ End(r, FALSE))
    BY <1>5 DEF RightPassword, row
  <2>2. CASE End(r, FALSE)
    BY <2>1, <2>2, <1>d, OneReset DEF Guess
  <2>3. CASE Goto(r, "delete")
    BY <2>1, <2>3, <1>a, <1>c, OneReset DEF Guess
  <2> QED BY <2>1, <2>2, <2>3
<1>6. CASE CodeLock(r)
  <2>1. UNCHANGED <<locks, cooldown>>
    BY <1>6 DEF CodeLock, row
  <2> QED BY <1>6, <2>1, <1>b, GoesOnLimits DEF CodeLock
<1>7. CASE FindCode(r)
  <2>1. UNCHANGED <<locks, cooldown>> /\ (Goto(r, "found") \/ Goto(r, "fail")) /\ at[r] = "find"
    BY <1>7 DEF FindCode, row
  <2>2. op[r] \in CodeUsers
    BY <1>7, <1>a, UsesOf DEF FindCode, StepOf, LinkUsers
  <2>3. r \in Trying("code")
    BY <2>1, <2>2 DEF Trying
  <2> QED BY <2>1, <2>3, GoesOnLimits
<1>8. CASE WrongCode(r)
  <2>1. r \in Trying("code")
    BY <1>8 DEF WrongCode, Trying
  <2> QED BY <1>8, <2>1, <1>d, OneCounted DEF WrongCode, Guess, row
<1>9. CASE RightCode(r)
  <2>1. ResetFailures("code", TRUE) /\ UNCHANGED cooldown /\ Goto(r, "forget")
    BY <1>9 DEF RightCode, row
  <2> QED BY <2>1, <1>a, <1>c, OneReset DEF Guess
<1>10. CASE ForgetCode(r)
  <2>1. UNCHANGED <<locks, cooldown>>
    BY <1>10 DEF ForgetCode, row
  <2>2. CASE End(r, sec[r] # None)
    BY <2>1, <2>2, EndsLimits
  <2>3. CASE Goto(r, "enable")
    BY <2>1, <2>3, GoesOnLimits
  <2>4. CASE CodeSpent(r)
    <3>1. at' = [at EXCEPT ![r] = "mark"] /\ UNCHANGED <<locks, cooldown, op, seen, renames>>
      BY <2>1, <2>4 DEF CodeSpent
    <3>2. /\ \A q \in Req \ {r} : at'[q] = at[q] /\ op'[q] = op[q] /\ seen'[q] = seen[q]
          /\ at'[r] = "mark" /\ seen' \in [Req -> {"none", "wrong", "code", "right"}]
      BY <3>1, <1>a
    <3>3. ASSUME NEW g \in Guess PROVE r \notin Trying(g)'
      BY <3>2 DEF Trying
    <3> QED BY <3>1, <3>2, <3>3, OneActs
  <2> QED BY <1>10, <2>2, <2>3, <2>4 DEF ForgetCode, CodeSpent
<1>11. CASE SetTwoFactor(r) \/ MarkVerifiedAndClearTokens(r)
  BY <1>11, EndsLimits DEF SetTwoFactor, MarkVerifiedAndClearTokens
<1>12. CASE ClearTwoFactor(r)
  BY <1>12, GoesOnLimits DEF ClearTwoFactor
<1>13. CASE FindLiveToken(r)
  BY <1>13, <1>b, GoesOnLimits DEF FindLiveToken, row
<1>14. CASE CheckOwner(r)
  <2>1. UNCHANGED <<locks, cooldown>> /\ (End(r, FALSE) \/ Goto(r, "write"))
    BY <1>14 DEF CheckOwner, row
  <2> QED BY <2>1, <1>b, GoesOnLimits
<1>15. CASE ResetPasswordAndClearToken(r) \/ ForgetRecovery(r)
  BY <1>15, EndsLimits DEF ResetPasswordAndClearToken, ForgetRecovery, row
<1>16. CASE RestoreDeleted(r)
  BY <1>16, GoesOnLimits DEF RestoreDeleted
<1>17. CASE MarkDeleted(r)
  <2>1. at' = [at EXCEPT ![r] = "window"] /\ UNCHANGED <<locks, cooldown, op, seen, renames>>
    BY <1>17 DEF MarkDeleted
  <2>2. /\ \A q \in Req \ {r} : at'[q] = at[q] /\ op'[q] = op[q] /\ seen'[q] = seen[q]
        /\ at'[r] = "window" /\ seen' \in [Req -> {"none", "wrong", "code", "right"}]
    BY <2>1, <1>a
  <2>3. ASSUME NEW g \in Guess PROVE r \notin Trying(g)'
    BY <2>2 DEF Trying
  <2> QED BY <2>1, <2>2, <2>3, OneActs
<1>18. CASE UpdateAccount(r)
  <2>1. CASE Refuse(r)
    BY <2>1, <1>b DEF Refuse, row
  <2>2. CASE ~Refuse(r)
    <3>1. /\ at[r] = "rename" /\ cooldown' = TRUE /\ renames' = renames + 1
          /\ at' = [at EXCEPT ![r] = "idle"] /\ op' = [op EXCEPT ![r] = "none"]
          /\ UNCHANGED locks /\ seen' = seen
      BY <1>18, <2>2 DEF UpdateAccount
    <3>2. /\ \A q \in Req \ {r} : at'[q] = at[q] /\ op'[q] = op[q]
          /\ at'[r] = "idle"
      BY <3>1, <1>a
    <3>3. ASSUME NEW g \in Guess PROVE Limited(g)'
      <4>1. Trying(g)' \subseteq Trying(g)
        BY <3>1, <3>2 DEF Trying
      <4>2. /\ Cardinality(Trying(g)') <= Cardinality(Trying(g))
            /\ Cardinality(Trying(g)') \in Nat /\ Cardinality(Trying(g)) \in Nat
        BY <4>1, TryingTypes, Sizes
      <4>3. Limited(g) /\ guesses[g] \in Nat /\ MaxTries[g] \in Nat
        BY AccountAssumption DEF LimitInv, LimitTypes, AccountAssumption
      <4>4. guesses' = guesses /\ fails' = fails /\ lock' = lock /\ lifted' = lifted
        BY <3>1 DEF locks
      <4> QED BY <4>2, <4>3, <4>4, Sizes DEF Limited
    <3>4. Renamed'
      <4>1. Renaming' \subseteq Renaming \ {r} /\ r \in Renaming
        BY <3>1, <3>2 DEF Renaming
      <4>2. Renaming \in SUBSET Req /\ Renaming \ {r} \in SUBSET Req
        BY DEF Renaming
      <4>3. Cardinality(Renaming \ {r}) = Cardinality(Renaming) - 1
        BY <4>1, <4>2, Sizes
      <4>4. Cardinality(Renaming') <= Cardinality(Renaming \ {r})
        BY <4>1, <4>2, Sizes
      <4>5. /\ Cardinality(Renaming) \in Nat /\ Cardinality(Renaming') \in Nat
            /\ Cardinality(Req) \in Nat /\ Cardinality(Renaming) <= Cardinality(Req)
        BY <4>2, TryingTypes, Sizes
      <4>6. /\ renames \in Nat /\ (~cooldown => renames = 0)
            /\ cooldown => renames + Cardinality(Renaming) <= Cardinality(Req)
        BY DEF LimitInv, LimitTypes, Renamed
      <4> QED BY <3>1, <4>3, <4>4, <4>5, <4>6 DEF Renamed
    <3>5. LimitTypes'
      BY <3>1, <1>a DEF LimitInv, LimitTypes, locks
    <3> QED BY <3>3, <3>4, <3>5 DEF LimitInv
  <2> QED BY <2>1, <2>2
<1> QED
  BY <1>1, <1>2, <1>3, <1>4, <1>5, <1>6, <1>7, <1>8, <1>9, <1>10, <1>11, <1>12, <1>13, <1>14,
     <1>15, <1>16, <1>17, <1>18
  DEF Work, SendVerification, SendReset, SendRecovery, SendTwoFactorCode

LEMMA LimitStep == SecretInv /\ LimitInv /\ [AccountNext]_accountVars => LimitInv'
<1> SUFFICES ASSUME SecretInv, LimitInv, [AccountNext]_accountVars PROVE LimitInv'
  OBVIOUS
<1>a. ASSUME UNCHANGED handler
      PROVE  (\A g \in Guess : Trying(g)' = Trying(g)) /\ Renaming' = Renaming /\ seen' = seen
  BY <1>a DEF handler, Trying, Renaming
<1>b. ASSUME UNCHANGED handler, UNCHANGED <<locks, renames, cooldown>> PROVE LimitInv'
  BY <1>a, <1>b, NothingCounted DEF LimitInv, LimitTypes
<1>1. ASSUME NEW r \in Req, Die(r) PROVE LimitInv'
  <2>1. /\ \A q \in Req \ {r} : at'[q] = at[q] /\ op'[q] = op[q] /\ seen'[q] = seen[q]
        /\ at'[r] = "idle" /\ UNCHANGED <<locks, renames, cooldown>>
        /\ seen' \in [Req -> {"none", "wrong", "code", "right"}]
    BY <1>1 DEF Die, row, SecretInv, SecretTypes, LimitInv, LimitTypes
  <2>2. ASSUME NEW g \in Guess PROVE r \notin Trying(g)'
    BY <2>1 DEF Trying
  <2> QED BY <2>1, <2>2, OneActs
<1>2. CASE AnonymizeAccount
  <2>1. /\ UNCHANGED handler /\ UNCHANGED <<renames, cooldown>>
        /\ fails' = [g \in Guess |-> 0] /\ lock' = [g \in Guess |-> "none"]
        /\ guesses' = [g \in Guess |-> 0] /\ lifted' = [g \in Guess |-> FALSE]
    BY <1>2 DEF AnonymizeAccount, notes
  <2>2. LimitTypes'
    BY <2>1, <1>a DEF LimitInv, LimitTypes
  <2>3. ASSUME NEW g \in Guess PROVE Limited(g)'
    BY <2>1, AccountAssumption DEF Limited, AccountAssumption
  <2>4. Renamed'
    BY <2>1, <1>a DEF LimitInv, Renamed
  <2> QED BY <2>2, <2>3, <2>4 DEF LimitInv
<1>3. ASSUME NEW h \in Guess, LockEnds(h) PROVE LimitInv'
  <2>1. /\ UNCHANGED handler /\ UNCHANGED <<renames, cooldown, fails>> /\ lock[h] = "on"
        /\ lock' = [lock EXCEPT ![h] = "over"] /\ guesses' = [guesses EXCEPT ![h] = 0]
        /\ lifted' = [lifted EXCEPT ![h] = FALSE]
    BY <1>3 DEF LockEnds, notes, row
  <2>2. LimitTypes'
    BY <2>1, <1>a DEF LimitInv, LimitTypes
  <2>3. ASSUME NEW g \in Guess PROVE Limited(g)'
    BY <2>1, <1>a DEF LimitInv, LimitTypes, Limited
  <2>4. Renamed'
    BY <2>1, <1>a DEF LimitInv, Renamed
  <2> QED BY <2>2, <2>3, <2>4 DEF LimitInv
<1>4. CASE CooldownEnds
  <2>1. UNCHANGED handler /\ UNCHANGED locks /\ cooldown' = FALSE /\ renames' = 0
    BY <1>4 DEF CooldownEnds
  <2>2. LimitTypes'
    BY <2>1, <1>a DEF LimitInv, LimitTypes, locks
  <2>3. ASSUME NEW g \in Guess PROVE Limited(g)'
    BY <2>1, <1>a DEF LimitInv, Limited, locks
  <2>4. Renamed'
    BY <2>1 DEF Renamed
  <2> QED BY <2>2, <2>3, <2>4 DEF LimitInv
<1>5. CASE \/ FindDeletedSince \/ JobFails \/ DeleteExpired \/ ChallengeExpires \/ WindowEnds
           \/ (\E t \in Types : Expire(t)) \/ UNCHANGED accountVars
  <2>1. UNCHANGED handler /\ UNCHANGED <<locks, renames, cooldown>>
    BY <1>5 DEF FindDeletedSince, JobFails, DeleteExpired, ChallengeExpires, WindowEnds, Expire,
                accountVars, jobOnly, notes, row
  <2> QED BY <2>1, <1>b
<1> QED
  BY <1>1, <1>2, <1>3, <1>4, <1>5, PageLimits, WorkLimits DEF AccountNext, Time

\* Between two locks at most as many passwords and codes are tried as are allowed, and as
\* many more as were being tried as the lock came (recordLoginFailure, resetLoginFailures,
\* consumeTwoFactorCode), for any limits and any number of handlers; and a username changes
\* once in a cooldown but for handlers that were running.
THEOREM LimitsHold == AccountSpec => []LimitsNearlyHold
<1>1. (\E v, two \in BOOLEAN : (two => v) /\ AccountInit(v, two)) => SecretInv /\ LimitInv
  BY SecretInitial, LimitInitial
<1>2. ASSUME LimitInv PROVE LimitsNearlyHold
  <2>1. ASSUME NEW g \in Guess PROVE lifted[g] \/ guesses[g] <= MaxTries[g] - 1 + Cardinality(Req)
    <3>1. /\ Limited(g) /\ guesses[g] \in Nat /\ fails[g] \in Nat
          /\ MaxTries[g] \in Nat \ {0} /\ lock[g] \in {"none", "on", "over"}
      BY <1>2, AccountAssumption DEF LimitInv, LimitTypes, AccountAssumption
    <3>2. Cardinality(Trying(g)) \in Nat /\ Cardinality(Req) \in Nat
      BY TryingTypes, Sizes
    <3> QED BY <3>1, <3>2 DEF Limited
  <2>2. renames <= Cardinality(Req)
    <3>1. Cardinality(Renaming) \in Nat /\ Cardinality(Req) \in Nat
      BY TryingTypes, Sizes
    <3> QED BY <1>2, <3>1 DEF LimitInv, LimitTypes, Renamed
  <2> QED BY <2>1, <2>2 DEF LimitsNearlyHold
<1> QED BY <1>1, <1>2, SecretStep, LimitStep, PTL DEF AccountSpec

(***************************************************************************)
(* The username field (UsernameForm).                                      *)
(***************************************************************************)
\* Only the page of one's account fetches a profile, and only the sign-up has a step past
\* this one.
FormsDiffer == (past => form = "signup") /\ (form = "signup" => fetching = 0)

\* What is due or under way is about the name in the field, unless one was overtaken.
OnlyThisName ==
  ~overtaken =>
    /\ timer # Nobody => timer = field
    /\ \A n : \A w \in {"asked", "taken", "available"} : <<n, w>> \in checks => n = field

\* What is under way is a check.
ChecksType == \A c \in checks : \E n : \E w \in {"asked", "taken", "available"} : c = <<n, w>>

FormInv == FormsDiffer /\ ChecksType /\ OnlyThisName /\ NameIsVouched

LEMMA FormInitial == FormInit => FormInv
BY DEF FormInit, FormInv, FormsDiffer, ChecksType, OnlyThisName, NameIsVouched

\* One step per action.  A name that is typed, or comes with the profile, starts over, and
\* then nothing is due or under way for another; an answer is the one about the field.
LEMMA FormStep == FormInv /\ [FormNext]_formVars => FormInv'
<1> SUFFICES ASSUME FormInv, [FormNext]_formVars PROVE FormInv'
  OBVIOUS
<1> USE DEF FormInv, FormsDiffer, ChecksType, OnlyThisName, NameIsVouched
<1>1. ASSUME NEW n \in Name \cup {Nobody}, Type(n) PROVE FormInv'
  BY <1>1 DEF Type, StatusOf
<1>2. ASSUME NEW n \in Name, CheckUsername(n) PROVE FormInv'
  BY <1>2 DEF CheckUsername
<1>3. ASSUME NEW n \in Name, Others(n) PROVE FormInv'
  BY <1>3 DEF Others
<1>4. ASSUME NEW c \in checks, Checked(c) PROVE FormInv'
  <2>1. PICK n : \E w \in {"asked", "taken", "available"} : c = <<n, w>>
    BY <1>4
  <2>2. ~overtaken => c[1] = field
    <3>1. PICK w \in {"asked", "taken", "available"} : c = <<n, w>>
      BY <2>1
    <3>2. ~overtaken => n = field
      BY <3>1
    <3> QED BY <3>1, <3>2
  <2>3. checks' \subseteq checks /\ UNCHANGED <<form, field, timer, fetching, past, overtaken>>
    BY <1>4 DEF Checked
  <2>4. NameIsVouched'
    BY <1>4, <2>2, <2>3 DEF Checked
  <2> QED BY <2>3, <2>4
<1>5. CASE Check
  BY <1>5 DEF Check
<1>6. CASE GoToStep3
  BY <1>6 DEF GoToStep3
<1>7. CASE Back \/ Submit
  BY <1>7 DEF Back, Submit
<1>8. CASE Save
  BY <1>8 DEF Save
<1>9. CASE UploadAvatar
  BY <1>9 DEF UploadAvatar
<1>10. CASE Refreshed
  <2>1. UNCHANGED <<form, timer, checks, past>> /\ status' = "idle"
    BY <1>10 DEF Refreshed
  <2>2. form # "signup"
    BY <1>10 DEF Refreshed
  <2>3. ~past'
    BY <2>1, <2>2
  <2>4. FormsDiffer' /\ ChecksType' /\ NameIsVouched'
    BY <2>1, <2>2, <2>3
  <2>5. ~overtaken' => checks' = {} /\ timer' = Nobody
    BY <1>10 DEF Refreshed
  <2>6. OnlyThisName'
    BY <2>5
  <2> QED BY <2>4, <2>6
<1>11. CASE UNCHANGED formVars
  BY <1>11 DEF formVars
<1> HIDE DEF FormInv
<1> QED
  BY <1>1, <1>2, <1>3, <1>4, <1>5, <1>6, <1>7, <1>8, <1>9, <1>10, <1>11 DEF FormNext

\* A name that is shown as available, or that the sign-up went on with, is the one the
\* server found free (handleUsernameChange, runUsernameCheck, goToStep3), whatever names
\* there are and however many times one types, saves and uploads.
THEOREM Vouched == FormSpec => []NameIsVouched
<1>1. FormInv => NameIsVouched
  BY DEF FormInv
<1> QED
  BY <1>1, FormInitial, FormStep, PTL DEF FormSpec

(***************************************************************************)
(* RateLimit: however many requests and servers there are, and whatever the*)
(* capacity, the rate and the length of a second.                          *)
(***************************************************************************)
\* The key lives long enough to be full again: what expires is worth no less than a key
\* that is not there.
LivesLong == there => expires >= stamp /\ Rate * (expires - stamp) >= Capacity

\* What passed, and what the bucket still has, is what there was and what time has
\* refilled since one began to count.
Balanced == ~unmetered => passed + Level <= Capacity + Rate * (clock - since)

RateInv == RateTypeOK /\ LivesLong /\ Balanced

\* Rounding up to whole seconds is enough (math.ceil in the script).
LEMMA SecondsAreEnough ==
  ASSUME NEW p \in Nat
  PROVE  Seconds(p) \in Nat /\ Rate * (Second * Seconds(p)) >= p
<1> DEFINE d == Rate * Second
           q == (p + d - 1) \div d
<1>1. d \in Nat \ {0}
  BY RateAssumption, SMT
<1>2. q \in Nat /\ q * d + d > p + d - 1
  <2>1. \A n \in Nat, m \in Nat \ {0} : n \div m \in Nat /\ (n \div m) * m + m > n
    BY SMT
  <2>2. p + d - 1 \in Nat
    BY <1>1, SMT
  <2>. HIDE DEF d
  <2>. QED
    BY <1>1, <2>1, <2>2
<1>3. Rate * (Second * q) = q * d
  <2>1. \A x, y, z \in Int : x * (y * z) = z * (x * y)
    BY SMT
  <2>2. Rate \in Int /\ Second \in Int /\ q \in Int
    BY <1>2, RateAssumption, SMT
  <2>. HIDE DEF q
  <2>. QED
    BY <2>1, <2>2 DEF d
<1>4. q * d \in Nat
  BY <1>1, <1>2, SMT
<1>. HIDE DEF d
<1>. QED
  <2>1. q * d >= p
    <3>. HIDE DEF q
    <3>1. \A x, y, z \in Int : x + y > z + y - 1 => x >= z
      BY SMT
    <3>. QED
      BY <1>1, <1>2, <1>4, <3>1, SMT
  <2>. QED
    BY <1>2, <1>3, <2>1 DEF Seconds, d

\* The bucket's level is one of its levels.
LEMMA LevelIsNat ==
  ASSUME RateTypeOK
  PROVE  Level \in 0..Capacity
<1>1. Rate * (clock - stamp) \in Nat
  <2>1. \A x, y \in Nat : x * y \in Nat
    BY SMT
  <2>2. clock - stamp \in Nat /\ Rate \in Nat
    BY RateAssumption, SMT DEF RateTypeOK
  <2>. QED
    BY <2>1, <2>2
<1>. DEFINE refill == Rate * (clock - stamp)
<1>2. refill \in Nat
  BY <1>1
<1>. HIDE DEF refill
<1>3. Level = IF there /\ clock < expires THEN Min2(Capacity, left + refill) ELSE Capacity
  BY DEF Level, refill
<1>. QED
  BY <1>2, <1>3, RateAssumption, SMT DEF RateTypeOK, Min2

\* The same of the next state.
LEMMA LevelPrimedIsNat ==
  ASSUME RateTypeOK'
  PROVE  Level' \in 0..Capacity
<1>1. Rate * (clock' - stamp') \in Nat
  <2>1. \A x, y \in Nat : x * y \in Nat
    BY SMT
  <2>2. clock' - stamp' \in Nat /\ Rate \in Nat
    <3>1. clock' \in Nat /\ stamp' \in 0..clock'
      BY DEF RateTypeOK
    <3>2. \A x \in Nat : \A y \in 0..x : x - y \in Nat
      BY SMT
    <3>3. Rate \in Nat
      BY RateAssumption, SMT
    <3>. QED
      BY <3>1, <3>2, <3>3
  <2>. QED
    BY <2>1, <2>2
<1>. DEFINE refill == Rate * (clock' - stamp')
<1>2. refill \in Nat
  BY <1>1
<1>. HIDE DEF refill
<1>3. Level' = IF there' /\ clock' < expires' THEN Min2(Capacity, left' + refill) ELSE Capacity
  BY DEF Level, refill, Min2
<1>4. left' \in 0..Capacity
  BY DEF RateTypeOK
<1>5. \A c \in Nat : \A l \in 0..c : \A n \in Nat : Min2(c, l + n) \in 0..c /\ c \in 0..c
  BY SMT DEF Min2
<1>6. Capacity \in Nat
  BY RateAssumption
<1>. QED
  BY <1>2, <1>3, <1>4, <1>5, <1>6

\* A tick refills the bucket by no more than the rate.
LEMMA TickRefills ==
  ASSUME RateTypeOK, LivesLong, clock' = clock + 1, UNCHANGED bucket
  PROVE  Level' <= Level + Rate
<1>. DEFINE now  == Rate * (clock - stamp)
            next == Rate * ((clock + 1) - stamp)
            life == Rate * (expires - stamp)
<1>1. now \in Int /\ next = now + Rate /\ next \in Int /\ life \in Int
  <2>1. \A x, y \in Int : x * y \in Int /\ x * (y + 1) = x * y + x
    BY SMT
  <2>2. clock - stamp \in Int /\ (clock + 1) - stamp = (clock - stamp) + 1 /\ Rate \in Int
        /\ expires - stamp \in Int
    BY RateAssumption, SMT DEF RateTypeOK
  <2>3. next = Rate * ((clock - stamp) + 1)
    BY <2>2
  <2>. QED
    BY <2>1, <2>2, <2>3
<1>2. clock + 1 >= expires => next >= life
  <2>1. \A x \in Nat, y, z \in Int : y >= z => x * y >= x * z
    BY SMT
  <2>2. SUFFICES ASSUME clock + 1 >= expires PROVE clock + 1 - stamp >= expires - stamp
    BY <2>1, RateAssumption, SMT DEF RateTypeOK
  <2>. QED
    BY <2>2, SMT DEF RateTypeOK
<1>3. there => life >= Capacity
  BY DEF LivesLong
<1>. HIDE DEF now, next, life
<1>4. Level = IF there /\ clock < expires THEN Min2(Capacity, left + now) ELSE Capacity
  BY DEF Level, now
<1>5. Level' = IF there /\ clock + 1 < expires THEN Min2(Capacity, left + next) ELSE Capacity
  <2>1. Level' = IF there' /\ clock' < expires'
                   THEN Min2(Capacity, left' + Rate * (clock' - stamp')) ELSE Capacity
    BY DEF Level, Min2
  <2>2. there' = there /\ left' = left /\ stamp' = stamp /\ expires' = expires
    BY DEF bucket
  <2>3. Rate * (clock' - stamp') = next
    <3>1. clock' = clock + 1
      OBVIOUS
    <3>. QED
      BY <2>2, <3>1 DEF next
  <2>4. CASE there /\ clock + 1 < expires
    <3>1. there' /\ clock' < expires'
      BY <2>2, <2>4
    <3>. QED
      BY <2>1, <2>2, <2>3, <2>4, <3>1
  <2>5. CASE ~(there /\ clock + 1 < expires)
    <3>1. ~(there' /\ clock' < expires')
      BY <2>2, <2>5
    <3>. QED
      BY <2>1, <2>5, <3>1
  <2>. QED
    BY <2>4, <2>5
<1>. QED
  BY <1>1, <1>2, <1>3, <1>4, <1>5, RateAssumption, SMT DEF RateTypeOK, Min2

\* What the script takes is what it lets a request have.
LEMMA ConsumeTakes ==
  ASSUME RateTypeOK, ConsumeBucket, clock' = clock
  PROVE  /\ LivesLong' /\ left' \in 0..Capacity /\ there' /\ stamp' = clock /\ expires' \in Nat
         /\ Level' = IF Level >= Cost THEN Level - Cost ELSE Level
<1>1. Seconds(Capacity) \in Nat /\ Rate * (Second * Seconds(Capacity)) >= Capacity
  BY SecondsAreEnough, RateAssumption
<1>2. Level \in 0..Capacity
  BY LevelIsNat
<1>. DEFINE ttl == Second * Seconds(Capacity)
<1>3. ttl \in Nat
  BY <1>1, RateAssumption, SMT
<1>4. Rate * ttl >= Capacity
  BY <1>1
<1>5. expires' = clock + ttl /\ stamp' = clock /\ there' = TRUE
  BY DEF ConsumeBucket
<1>. HIDE DEF ttl
<1>6. expires' - stamp' = ttl /\ expires' \in Nat
  BY <1>3, <1>5, SMT DEF RateTypeOK
<1>7. left' \in 0..Capacity /\ left' = IF Level >= Cost THEN Level - Cost ELSE Level
  BY <1>2, RateAssumption, SMT DEF ConsumeBucket
<1>8. LivesLong'
  BY <1>3, <1>4, <1>5, <1>6, SMT DEF LivesLong, RateTypeOK
<1>9. Level' = left'
  <2>1. ttl > 0 \/ Capacity = 0
    <3>1. ttl = 0 => Rate * ttl = 0
      BY RateAssumption, SMT
    <3>. QED
      BY <1>3, <1>4, <3>1, RateAssumption, SMT
  <2>2. Rate * (clock' - stamp') = 0
    BY <1>5, RateAssumption, SMT DEF RateTypeOK
  <2>3. clock' < expires' \/ Capacity = 0
    BY <1>3, <1>5, <2>1, SMT DEF RateTypeOK
  <2>4. Level' = IF there' /\ clock' < expires'
                   THEN Min2(Capacity, left' + Rate * (clock' - stamp')) ELSE Capacity
    BY DEF Level, Min2
  <2>. QED
    BY <1>5, <1>7, <2>2, <2>3, <2>4, RateAssumption, SMT DEF Min2
<1>. QED
  BY <1>5, <1>6, <1>7, <1>8, <1>9

(***************************************************************************)
(* The invariant, one step for each action.                                *)
(***************************************************************************)
LEMMA RateInvInit == RateInit => RateInv
<1>. SUFFICES ASSUME RateInit PROVE RateInv
  OBVIOUS
<1>1. RateTypeOK
  <2>1. link \in [Server -> {"cold", "ready", "down"}] /\ closed \in BOOLEAN
        /\ asking \in SUBSET Request /\ there \in BOOLEAN /\ unmetered \in BOOLEAN
    BY DEF RateInit
  <2>2. clock = 0 /\ left = 0 /\ stamp = 0 /\ expires = 0 /\ since = 0 /\ passed = 0
        /\ promise = 0 /\ outages = 0
    BY DEF RateInit
  <2>3. 0 \in Nat /\ 0 \in 0..0 /\ 0 \in 0..Capacity
    BY RateAssumption, SMT
  <2>. QED
    BY <2>1, <2>2, <2>3 DEF RateTypeOK
<1>2. LivesLong
  BY DEF RateInit, LivesLong
<1>3. Level = Capacity /\ Rate * (clock - since) = 0
  BY RateAssumption, SMT DEF RateInit, Level
<1>4. Balanced
  BY <1>3, RateAssumption, SMT DEF RateInit, Balanced
<1>. QED
  BY <1>1, <1>2, <1>4 DEF RateInv

\* Time since one began to count has a value.
LEMMA ElapsedIsNat ==
  ASSUME RateTypeOK
  PROVE  Rate * (clock - since) \in Nat
<1>1. \A x, y \in Nat : x * y \in Nat
  BY SMT
<1>2. clock - since \in Nat /\ Rate \in Nat
  BY RateAssumption, SMT DEF RateTypeOK
<1>. QED
  BY <1>1, <1>2

\* What leaves the bucket, the time and the count alone keeps the invariant.
LEMMA RateInvKept ==
  ASSUME RateInv, UNCHANGED <<clock, bucket, since, passed>>,
         unmetered' = unmetered \/ unmetered' = TRUE, RateTypeOK'
  PROVE  RateInv'
<1>1. there' = there /\ left' = left /\ stamp' = stamp /\ expires' = expires
      /\ clock' = clock /\ since' = since /\ passed' = passed
  BY DEF bucket
<1>2. Level' = Level
  BY <1>1 DEF Level, Min2
<1>3. LivesLong'
  BY <1>1 DEF RateInv, LivesLong
<1>4. Balanced'
  BY <1>1, <1>2 DEF RateInv, Balanced
<1>. QED
  BY <1>3, <1>4 DEF RateInv

LEMMA RateInvStep == RateInv /\ [RateNext]_rateVars => RateInv'
<1>. SUFFICES ASSUME RateInv, [RateNext]_rateVars PROVE RateInv'
  OBVIOUS
<1>. USE RateAssumption
<1>0. RateTypeOK /\ Level \in 0..Capacity
  BY LevelIsNat DEF RateInv
<1>1. ASSUME NEW r \in Request, Unready(r) PROVE RateInv'
  <2>1. RateTypeOK'
    <3>1. unmetered' \in BOOLEAN
      BY <1>0, <1>1 DEF Unready, RateTypeOK
    <3>2. clock' = clock /\ there' = there /\ left' = left /\ stamp' = stamp
          /\ expires' = expires /\ link' = link /\ closed' = closed /\ asking' = asking
          /\ since' = since /\ passed' = passed /\ promise' = promise /\ outages' = outages
      BY <1>1 DEF Unready, bucket
    <3>. QED
      BY <1>0, <3>1, <3>2 DEF RateTypeOK
  <2>. QED
    BY <1>1, <2>1, RateInvKept DEF Unready
<1>2. ASSUME NEW r \in Request, Ask(r) PROVE RateInv'
  <2>1. RateTypeOK'
    BY <1>0, <1>2, SMT DEF RateTypeOK, Ask, bucket
  <2>. QED
    BY <1>2, <2>1, RateInvKept DEF Ask
<1>3. ASSUME NEW r \in Request, Answer(r) PROVE RateInv'
  <2>1. LivesLong' /\ left' \in 0..Capacity /\ there' /\ stamp' = clock /\ expires' \in Nat
        /\ Level' = IF Level >= Cost THEN Level - Cost ELSE Level
    BY <1>0, <1>3, ConsumeTakes DEF Answer
  <2>2. there' \in BOOLEAN
    BY <1>3 DEF Answer, ConsumeBucket
  <2>3. clock' = clock /\ since' = since /\ unmetered' = unmetered
    BY <1>3 DEF Answer
  <2>4. passed' = IF Level >= Cost THEN passed + Cost ELSE passed
    BY <1>3 DEF Answer, Pass
  <2>5. promise' \in Nat
    <3>1. CASE Level >= Cost
      BY <1>3, <3>1 DEF Answer
    <3>2. CASE ~(Level >= Cost)
      <4>1. Cost - Level \in Nat
        BY <1>0, <3>2, SMT
      <4>2. Seconds(Cost - Level) \in Nat
        BY <4>1, SecondsAreEnough
      <4>3. promise' = Retry(Level)
        BY <1>3, <3>2 DEF Answer
      <4>4. Second * Seconds(Cost - Level) \in Nat
        BY <4>2, SMT
      <4>. QED
        BY <1>0, <4>3, <4>4, SMT DEF Retry, RateTypeOK
    <3>. QED
      BY <3>1, <3>2
  <2>6. RateTypeOK'
    <3>1. passed' \in Nat
      BY <1>0, <2>4, SMT DEF RateTypeOK
    <3>2. asking' \in SUBSET Request /\ link' = link /\ closed' = closed /\ outages' = outages
      BY <1>0, <1>3 DEF Answer, RateTypeOK
    <3>. QED
      BY <1>0, <2>1, <2>2, <2>3, <2>5, <3>1, <3>2, SMT DEF RateTypeOK
  <2>7. Balanced'
    <3>1. Balanced /\ Rate * (clock - since) \in Nat
      BY <1>0, ElapsedIsNat DEF RateInv
    <3>2. passed' + Level' = passed + Level
      BY <1>0, <2>1, <2>4, SMT DEF RateTypeOK
    <3>. QED
      BY <2>3, <3>1, <3>2 DEF Balanced
  <2>. QED
    BY <2>1, <2>6, <2>7 DEF RateInv
<1>4. ASSUME NEW r \in Request, AskFails(r) \/ Resent(r) PROVE RateInv'
  <2>1. clock' = clock /\ since' = since /\ passed' = passed
    BY <1>4 DEF AskFails, Resent
  <2>2. /\ unmetered' \in BOOLEAN /\ (~unmetered' => ~unmetered)
        /\ promise' = 0 /\ asking' \in SUBSET Request
        /\ link' = link /\ closed' = closed /\ outages' \in Nat
    <3>1. asking' \in SUBSET Request /\ link' = link /\ closed' = closed /\ promise' = 0
      BY <1>0, <1>4 DEF AskFails, Resent, RateTypeOK
    <3>2. outages' \in Nat
      BY <1>0, <1>4, SMT DEF AskFails, Resent, RateTypeOK
    <3>3. unmetered' \in BOOLEAN /\ (~unmetered' => ~unmetered)
      BY <1>0, <1>4 DEF AskFails, Resent, RateTypeOK
    <3>. QED
      BY <3>1, <3>2, <3>3
  <2>3. CASE UNCHANGED bucket
    <3>1. RateTypeOK'
      BY <1>0, <2>1, <2>2, <2>3, SMT DEF RateTypeOK, bucket
    <3>2. there' = there /\ left' = left /\ stamp' = stamp /\ expires' = expires
      BY <2>3 DEF bucket
    <3>3. Level' = Level
      BY <2>1, <3>2 DEF Level, Min2
    <3>4. LivesLong' /\ Balanced'
      BY <2>1, <2>2, <3>2, <3>3 DEF RateInv, LivesLong, Balanced
    <3>. QED
      BY <3>1, <3>4 DEF RateInv
  <2>4. CASE ConsumeBucket
    <3>1. LivesLong' /\ left' \in 0..Capacity /\ there' /\ stamp' = clock /\ expires' \in Nat
          /\ Level' = IF Level >= Cost THEN Level - Cost ELSE Level
      BY <1>0, <2>1, <2>4, ConsumeTakes
    <3>2. there' \in BOOLEAN
      BY <2>4 DEF ConsumeBucket
    <3>3. RateTypeOK'
      BY <1>0, <2>1, <2>2, <3>1, <3>2, SMT DEF RateTypeOK
    <3>4. Balanced'
      <4>1. Balanced /\ Rate * (clock - since) \in Nat
        BY <1>0, ElapsedIsNat DEF RateInv
      <4>2. passed \in Nat /\ Level' \in Int /\ Level' <= Level
        BY <1>0, <3>1, SMT DEF RateTypeOK
      <4>3. ~unmetered' => ~unmetered
        BY <2>2
      <4>4. \A x, y, z \in Int, w \in Int : x + y <= z /\ w <= y => x + w <= z
        BY SMT
      <4>. DEFINE most == Capacity + Rate * (clock - since)
      <4>5. most \in Int
        BY <4>1, SMT
      <4>6. Balanced' <=> (~unmetered' => passed + Level' <= most)
        BY <2>1 DEF Balanced
      <4>7. ~unmetered => passed + Level <= most
        BY <4>1 DEF Balanced
      <4>. HIDE DEF most
      <4>8. Level \in Int /\ passed \in Int
        BY <1>0, <4>2, SMT
      <4>. SUFFICES ASSUME ~unmetered' PROVE passed + Level' <= most
        BY <4>6
      <4>9. passed + Level <= most
        BY <4>3, <4>7
      <4>. QED
        BY <4>2, <4>4, <4>5, <4>8, <4>9
    <3>. QED
      BY <3>1, <3>3, <3>4 DEF RateInv
  <2>. QED
    BY <1>4, <2>3, <2>4 DEF AskFails, Resent
<1>5. ASSUME NEW s \in Server, Ready(s) PROVE RateInv'
  <2>1. RateTypeOK'
    BY <1>0, <1>5, SMT DEF RateTypeOK, Ready, bucket
  <2>. QED
    BY <1>5, <2>1, RateInvKept DEF Ready
<1>6. ASSUME NEW s \in Server, Down(s) PROVE RateInv'
  <2>1. RateTypeOK'
    BY <1>0, <1>6, SMT DEF RateTypeOK, Down, bucket
  <2>. QED
    BY <1>6, <2>1, RateInvKept DEF Down
<1>7. ASSUME NEW s \in Server, Restart(s) PROVE RateInv'
  <2>1. RateTypeOK'
    BY <1>0, <1>7, SMT DEF RateTypeOK, Restart, bucket
  <2>. QED
    BY <1>7, <2>1, RateInvKept DEF Restart
<1>8. CASE Forget
  <2>1. RateTypeOK'
    <3>1. there' \in BOOLEAN /\ unmetered' \in BOOLEAN /\ promise' = 0 /\ outages' = outages + 1
      BY <1>8 DEF Forget
    <3>3. promise' \in Nat /\ outages' \in Nat
      BY <1>0, <3>1, SMT DEF RateTypeOK
    <3>2. clock' = clock /\ left' = left /\ stamp' = stamp /\ expires' = expires
          /\ link' = link /\ closed' = closed /\ asking' = asking /\ since' = since
          /\ passed' = passed
      BY <1>8 DEF Forget
    <3>. QED
      BY <1>0, <3>1, <3>2, <3>3 DEF RateTypeOK
  <2>2. LivesLong' /\ Balanced'
    BY <1>8 DEF Forget, LivesLong, Balanced
  <2>. QED
    BY <2>1, <2>2 DEF RateInv
<1>9. CASE Tick
  <2>1. clock' = clock + 1 /\ UNCHANGED bucket /\ since' = since /\ passed' = passed
        /\ unmetered' = unmetered
    BY <1>9 DEF Tick
  <2>2. RateTypeOK'
    BY <1>0, <1>9, SMT DEF RateTypeOK, Tick, bucket
  <2>3. LivesLong'
    BY <2>1 DEF RateInv, LivesLong, bucket
  <2>4. Level' <= Level + Rate
    BY <1>0, <2>1, TickRefills DEF RateInv
  <2>5. Rate * (clock' - since') = Rate * (clock - since) + Rate
    <3>1. \A x, y \in Int : x * (y + 1) = x * y + x
      BY SMT
    <3>2. clock' - since' = (clock - since) + 1 /\ clock - since \in Int /\ Rate \in Int
      BY <1>0, <2>1, SMT DEF RateTypeOK
    <3>. QED
      BY <3>1, <3>2
  <2>6. Balanced'
    <3>. DEFINE most == Rate * (clock - since)
    <3>1. most \in Int /\ (~unmetered => passed + Level <= Capacity + most)
      BY <1>0, ElapsedIsNat, SMT DEF RateInv, Balanced
    <3>2. Balanced' <=> (~unmetered => passed + Level' <= Capacity + (most + Rate))
      BY <2>1, <2>5 DEF Balanced
    <3>3. Level' \in Int /\ passed \in Int
      BY <1>0, <2>2, LevelPrimedIsNat, SMT DEF RateTypeOK
    <3>. HIDE DEF most
    <3>. SUFFICES ASSUME ~unmetered PROVE passed + Level' <= Capacity + (most + Rate)
      BY <3>2
    <3>4. passed + Level <= Capacity + most
      BY <3>1
    <3>5. \A p, l, m, c, r, n \in Int : p + l <= c + m /\ n <= l + r => p + n <= c + (m + r)
      BY SMT
    <3>6. Level \in Int /\ Capacity \in Int /\ Rate \in Int
      BY <1>0, RateAssumption, SMT
    <3>. QED
      BY <2>4, <3>1, <3>3, <3>4, <3>5, <3>6
  <2>. QED
    BY <2>2, <2>3, <2>6 DEF RateInv
<1>10. CASE Count
  <2>1. RateTypeOK'
    <3>1. since' \in 0..clock' /\ passed' \in Nat
      BY <1>0, <1>10, SMT DEF RateTypeOK, Count
    <3>2. unmetered' \in BOOLEAN
      BY <1>10 DEF Count
    <3>3. clock' = clock /\ there' = there /\ left' = left /\ stamp' = stamp
          /\ expires' = expires /\ link' = link /\ closed' = closed /\ asking' = asking
          /\ promise' = promise /\ outages' = outages
      BY <1>10 DEF Count, bucket
    <3>. QED
      BY <1>0, <3>1, <3>2, <3>3 DEF RateTypeOK
  <2>2. clock' = clock /\ there' = there /\ left' = left /\ stamp' = stamp
        /\ expires' = expires /\ since' = clock /\ passed' = 0
    BY <1>10 DEF Count, bucket
  <2>3. Level' = Level
    BY <2>2 DEF Level, Min2
  <2>4. Rate * (clock' - since') = 0
    BY <1>0, <2>2, SMT DEF RateTypeOK
  <2>5. Balanced'
    BY <1>0, <2>2, <2>3, <2>4, SMT DEF Balanced
  <2>6. LivesLong'
    BY <2>2 DEF RateInv, LivesLong
  <2>. QED
    BY <2>1, <2>5, <2>6 DEF RateInv
<1>11. CASE UNCHANGED rateVars
  <2>1. RateTypeOK'
    BY <1>0, <1>11 DEF RateTypeOK, rateVars, bucket
  <2>. QED
    BY <1>11, <2>1, RateInvKept DEF rateVars
<1>. QED
  BY <1>1, <1>2, <1>3, <1>4, <1>5, <1>6, <1>7, <1>8, <1>9, <1>10, <1>11 DEF RateNext

(***************************************************************************)
(* The theorems.                                                           *)
(***************************************************************************)
LEMMA RateInvariant == RateSpec => []RateInv
  BY RateInvInit, RateInvStep, PTL DEF RateSpec

\* The bucket never holds more than its capacity, and its stamp is never ahead of the
\* clock of Redis (consumeBucket).
THEOREM RateTypeCorrect == RateSpec => []RateTypeOK
<1>1. RateInv => RateTypeOK
  BY DEF RateInv
<1>. QED
  BY <1>1, RateInvariant, PTL

\* However many servers and requests share the bucket, and whenever one begins to count:
\* no more passes than the capacity and what time has refilled, as long as every request
\* was put to the script (checkAndApplyLimit, consumeBucket).
THEOREM LimitCorrect == RateSpec => []LimitHolds
<1>1. RateInv => LimitHolds
  <2>. SUFFICES ASSUME RateInv PROVE LimitHolds
    OBVIOUS
  <2>1. Level \in 0..Capacity /\ Rate * (clock - since) \in Nat /\ passed \in Nat
    BY LevelIsNat, ElapsedIsNat DEF RateInv, RateTypeOK
  <2>2. ~unmetered => passed + Level <= Capacity + Rate * (clock - since)
    BY DEF RateInv, Balanced
  <2>3. \A x, l \in Nat, z \in Int : x + l <= z => x <= z
    BY SMT
  <2>4. Capacity + Rate * (clock - since) \in Int /\ Level \in Nat
    BY <2>1, RateAssumption, SMT
  <2>. QED
    BY <2>1, <2>2, <2>3, <2>4 DEF LimitHolds
<1>. QED
  BY <1>1, RateInvariant, PTL

(***************************************************************************)
(* Retry-After.                                                            *)
(***************************************************************************)
\* At the time that was told the key will hold a request's cost.
PromiseKept == promise # 0 => there /\ promise - stamp \in Nat /\ left + Rate * (promise - stamp) >= Cost

LEMMA PromiseKeptStep ==
  ASSUME RateTypeOK, PromiseKept, [RateNext]_rateVars
  PROVE  PromiseKept'
<1>1. CASE UNCHANGED <<bucket, promise>>
  <2>1. there' = there /\ left' = left /\ stamp' = stamp /\ promise' = promise
    BY <1>1 DEF bucket
  <2>. QED
    BY <2>1 DEF PromiseKept
<1>2. CASE promise' = 0
  BY <1>2 DEF PromiseKept
<1>3. ASSUME NEW r \in Request, Answer(r), ~(Level >= Cost) PROVE PromiseKept'
  <2>. DEFINE wait == Second * Seconds(Cost - Level)
  <2>1. Cost - Level \in Nat /\ Level \in Nat
    BY <1>3, LevelIsNat, RateAssumption, SMT
  <2>2. Seconds(Cost - Level) \in Nat /\ Rate * wait >= Cost - Level
    BY <2>1, SecondsAreEnough
  <2>3. wait \in Nat /\ Rate * wait \in Nat
    <3>1. \A x, y \in Nat : x * y \in Nat
      BY SMT
    <3>2. Second \in Nat /\ Rate \in Nat
      BY RateAssumption, SMT
    <3>. QED
      BY <2>2, <3>1, <3>2
  <2>4. promise' = clock + wait /\ there' = TRUE /\ left' = Level /\ stamp' = clock
    BY <1>3 DEF Answer, ConsumeBucket, Retry
  <2>. HIDE DEF wait
  <2>5. promise' - stamp' = wait
    BY <2>3, <2>4, SMT DEF RateTypeOK
  <2>6. left' + Rate * wait >= Cost
    <3>1. Cost \in Nat
      BY RateAssumption, SMT
    <3>. QED
      BY <2>1, <2>2, <2>3, <2>4, <3>1, SMT
  <2>. QED
    BY <2>3, <2>4, <2>5, <2>6 DEF PromiseKept
<1>4. ASSUME NEW r \in Request, Answer(r), Level >= Cost PROVE promise' = 0
  BY <1>4 DEF Answer
<1>. QED
  BY <1>1, <1>2, <1>3, <1>4
  DEF RateNext, Unready, Ask, AskFails, Resent, Ready, Down, Restart, Forget, Tick, Count, rateVars

\* Whoever waits for as long as Retry-After says is let through, if nobody else was
\* (the script's retryAfter): for every capacity, cost, rate and length of a second.
THEOREM RetryCorrect == RateSpec => []RetryIsEnough
<1>1. RateInit => PromiseKept
  BY DEF RateInit, PromiseKept
<1>2. RateTypeOK /\ PromiseKept /\ [RateNext]_rateVars => PromiseKept'
  BY PromiseKeptStep
<1>3. RateTypeOK /\ PromiseKept => RetryIsEnough
  <2>. SUFFICES ASSUME RateTypeOK, PromiseKept, promise # 0, clock >= promise
                PROVE  Level >= Cost
    BY DEF RetryIsEnough
  <2>. DEFINE told == Rate * (promise - stamp)
              now  == Rate * (clock - stamp)
  <2>1. told \in Int /\ now \in Int /\ now >= told
    <3>1. \A x, y, z \in Nat : y >= z => x * z \in Int /\ x * y \in Int /\ x * y >= x * z
      BY SMT
    <3>2. promise - stamp \in Nat /\ clock - stamp \in Nat /\ clock - stamp >= promise - stamp
          /\ Rate \in Nat
      BY RateAssumption, SMT DEF RateTypeOK, PromiseKept
    <3>. QED
      BY <3>1, <3>2
  <2>2. left + told >= Cost
    BY DEF PromiseKept
  <2>3. Level = IF there /\ clock < expires THEN Min2(Capacity, left + now) ELSE Capacity
    BY DEF Level
  <2>. HIDE DEF told, now
  <2>4. left \in Int /\ Capacity \in Int /\ Cost \in Int /\ Capacity >= Cost
    BY RateAssumption, SMT DEF RateTypeOK
  <2>5. left + now >= Cost
    BY <2>1, <2>2, <2>4, SMT
  <2>6. Min2(Capacity, left + now) >= Cost
    BY <2>1, <2>4, <2>5, SMT DEF Min2
  <2>. QED
    BY <2>3, <2>4, <2>6
<1>. QED
  BY <1>1, <1>2, <1>3, RateTypeCorrect, PTL DEF RateSpec
=============================================================================
