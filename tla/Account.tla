------------------------------ MODULE Account ------------------------------
(***************************************************************************)
(* The life of one account (auth/service.ts, users/service.ts): the links  *)
(* and codes that are mailed and used once, the counters that lock it, and *)
(* its deletion, recovery and anonymization.                               *)
(*                                                                         *)
(* Handlers run at the same time, one database call a step; the 30 days of *)
(* recovery are longer than any handler runs.  Sessions are AuthSessions'  *)
(* business, the cached friend lists Friends'.                             *)
(***************************************************************************)
EXTENDS Naturals, FiniteSets

CONSTANTS Req,        \* handlers running at the same time
          MaxTries,   \* wrong passwords and wrong codes that lock
          MaxSecrets, \* bound: links and codes issued
          MaxFaults   \* bound: handlers and jobs that die

Types == {"verify", "reset", "recovery", "code"}
Guess == {"password", "code"}
None  == 0

ASSUME AccountAssumption ==
  /\ IsFiniteSet(Req)
  /\ MaxTries \in [Guess -> Nat \ {0}]
  /\ MaxSecrets \in Nat /\ MaxFaults \in Nat

VARIABLES
  verified, twoFactor, scrubbed,  \* isEmailVerified, twoFactorEnabled, anonymizedAt
  deleted,                        \* deletedAt: "no", "young" within the window, or "over"
  fails, lock,                    \* each counter, and whether its lock is "on" or "over"
  cooldown,                       \* usernameChangedAt is recent
  token, live,                    \* the row of each type, and whether it has expired
  issued,                         \* links and codes made
  inbox,                          \* what the owner was mailed
  challenge,                      \* somebody has proved the password and owes a code
  at, op, sec, seen,              \* each handler: step, operation, its secret, what it read
  listed,                         \* the job's step
  faults,
  guesses, renames,               \* history: since the last lock or cooldown was over
  lifted,                         \* history: the counter was reset once more for the same lock
  spent,                          \* history: secrets that have done their work
  fresh, late                     \* history: handlers from before the account was deleted;
                                  \* a restore was under way as the window closed

row      == <<verified, twoFactor, scrubbed, deleted, cooldown>>
locks    == <<fails, lock, guesses, lifted>>
tokens   == <<token, live, issued, inbox, challenge>>
handler  == <<at, op, sec, seen>>
notes    == <<renames, spent, fresh, late>>
accountVars == <<row, locks, tokens, handler, listed, faults, notes>>

\* The type each operation issues, or uses.
Issues == [resendVerification |-> "verify", forgotPassword |-> "reset",
           recoverAccount |-> "recovery", deleteMe |-> "recovery",
           sendCode |-> "code", login |-> "code"]
Uses == [verifyEmail |-> "verify", resetPassword |-> "reset", verifyRecovery |-> "recovery",
         loginTwoFactor |-> "code", enableTwoFactor |-> "code", deleteMe |-> "code",
         disableTwoFactor |-> "code"]
Ops == DOMAIN Issues \cup DOMAIN Uses \cup {"updateMe"}

\* register has made the account with its first link; or it was verified since, with
\* two-factor on or off.
AccountInit(v, two) ==
  /\ verified = v /\ twoFactor = two /\ scrubbed = FALSE /\ deleted = "no"
  /\ fails = [g \in Guess |-> 0] /\ lock = [g \in Guess |-> "none"]
  /\ guesses = fails /\ lifted = [g \in Guess |-> FALSE]
  /\ cooldown = FALSE /\ renames = 0
  /\ token = [t \in Types |-> IF t = "verify" /\ ~v THEN 1 ELSE None]
  /\ live = [t \in Types |-> t = "verify" /\ ~v]
  /\ issued = 1 /\ inbox = {<<"verify", 1>>} /\ challenge = FALSE
  /\ at = [r \in Req |-> "idle"] /\ op = [r \in Req |-> "none"]
  /\ sec = [r \in Req |-> None] /\ seen = [r \in Req |-> "none"]
  /\ listed = FALSE /\ faults = 0
  /\ spent = {} /\ fresh = {} /\ late = FALSE

Active   == deleted = "no" /\ ~scrubbed

\* requireAuth has found the account active before a handler looks.
FindVerifiedOwner == Active /\ verified

Received(t) == {s \in 1..MaxSecrets : <<t, s>> \in inbox}
IsLive(t, s) == token[t] = s /\ s # None /\ live[t]

(***************************************************************************)
(* How a handler begins, goes on and ends.                                 *)
(***************************************************************************)
Begin(r, o, s, step) ==
  /\ at[r] = "idle"
  /\ at' = [at EXCEPT ![r] = step] /\ op' = [op EXCEPT ![r] = o]
  /\ sec' = [sec EXCEPT ![r] = s]
  /\ UNCHANGED <<listed, faults, notes>>

Goto(r, step) ==
  /\ at' = [at EXCEPT ![r] = step]
  /\ UNCHANGED <<op, sec, seen, listed, faults, notes>>

End(r, used) ==
  /\ at' = [at EXCEPT ![r] = "idle"] /\ op' = [op EXCEPT ![r] = "none"]
  /\ sec' = [sec EXCEPT ![r] = None] /\ seen' = [seen EXCEPT ![r] = "none"]
  /\ spent' = IF used THEN spent \cup {<<Uses[op[r]], sec[r]>>} ELSE spent
  /\ fresh' = fresh \ {r}
  /\ UNCHANGED <<listed, faults, renames, late>>

Refuse(r) == End(r, FALSE) /\ UNCHANGED <<row, locks, tokens>>

(***************************************************************************)
(* Issuing: deleteAllOfType, createToken, and the mail.                    *)
(***************************************************************************)
AskFor(r, o) ==
  /\ Begin(r, o, None, IF o = "recoverAccount" THEN "window" ELSE "delete")
  /\ UNCHANGED <<row, locks, tokens, seen>>

ResendVerification(r) == Active /\ ~verified /\ AskFor(r, "resendVerification")
ForgotPassword(r)     == Active /\ verified /\ AskFor(r, "forgotPassword")
RecoverAccount(r)     == deleted = "young" /\ ~scrubbed /\ AskFor(r, "recoverAccount")
ResendLoginTwoFactor(r) == challenge /\ AskFor(r, "sendCode")
RequestTwoFactorSetup(r) == Active /\ AskFor(r, "sendCode")
RequestDeletionChallenge(r) == FindVerifiedOwner /\ twoFactor /\ AskFor(r, "sendCode")

\* requestAccountRecovery reads the row again.
InWindow(r) ==
  /\ at[r] = "window"
  /\ IF deleted = "young" THEN Goto(r, "delete") ELSE End(r, FALSE)
  /\ UNCHANGED <<row, locks, tokens>>

DeleteAllOfType(r) ==
  /\ at[r] = "delete"
  /\ token' = [token EXCEPT ![Issues[op[r]]] = None]
  /\ Goto(r, "create")
  /\ UNCHANGED <<row, locks, live, issued, inbox, challenge>>

\* One row for a user and a type.
CreateToken(r) ==
  LET t == Issues[op[r]] IN
  /\ at[r] = "create"
  /\ \/ /\ token[t] = None /\ issued < MaxSecrets
        /\ issued' = issued + 1
        /\ token' = [token EXCEPT ![t] = issued']
        /\ live' = [live EXCEPT ![t] = (t = "recovery" => deleted # "over")]
        /\ at' = [at EXCEPT ![r] = "mail"] /\ sec' = [sec EXCEPT ![r] = issued']
        /\ UNCHANGED <<row, locks, inbox, challenge, op, seen, listed, faults, notes>>
     \/ token[t] # None /\ Refuse(r)

\* A mail that fails is logged, and the handler goes on.
Mail(r) ==
  LET t == Issues[op[r]] IN
  /\ at[r] = "mail"
  /\ \/ inbox' = inbox \cup {<<t, sec[r]>>}
     \/ inbox' = inbox
  /\ challenge' = (challenge \/ op[r] = "login")
  /\ End(r, FALSE)
  /\ UNCHANGED <<row, locks, token, live, issued>>

Issue(r) == DeleteAllOfType(r) \/ CreateToken(r) \/ Mail(r)

\* Each handler has this sequence of its own.
SendVerification(r)  == op[r] = "resendVerification" /\ Issue(r)
SendReset(r)         == op[r] = "forgotPassword" /\ Issue(r)
SendRecovery(r)      == op[r] \in {"recoverAccount", "deleteMe"} /\ Issue(r)
SendTwoFactorCode(r) == op[r] \in {"sendCode", "login"} /\ Issue(r)

(***************************************************************************)
(* Counters and locks: one UPDATE each.                                    *)
(***************************************************************************)
\* A counter above the limit is as good as one at the limit.
CountOn(g) == IF fails[g] < MaxTries[g] THEN fails[g] + 1 ELSE fails[g]

\* Mutant of RecordFailed: it is the counter before this try that is compared.
RecordFailed_Late(g) ==
  /\ guesses' = [guesses EXCEPT ![g] = @ + 1]
  /\ fails' = [fails EXCEPT ![g] = CountOn(g)]
  /\ lock' = [lock EXCEPT ![g] = IF fails[g] >= MaxTries[g] /\ @ # "on" THEN "on" ELSE @]
  /\ UNCHANGED lifted

RecordFailed(g) ==
  /\ guesses' = [guesses EXCEPT ![g] = @ + 1]
  /\ fails' = [fails EXCEPT ![g] = CountOn(g)]
  /\ lock' = [lock EXCEPT ![g] = IF fails[g] + 1 >= MaxTries[g] /\ @ # "on" THEN "on" ELSE @]
  /\ UNCHANGED lifted

\* resetLoginFailures, resetTwoFactorFailures; proved says that the password or the code
\* was right.
ResetFailures(g, proved) ==
  /\ fails' = [fails EXCEPT ![g] = 0] /\ lock' = [lock EXCEPT ![g] = "none"]
  /\ guesses' = IF proved THEN [guesses EXCEPT ![g] = 0] ELSE guesses
  /\ lifted' = [lifted EXCEPT ![g] = ~proved /\ (@ \/ lock[g] # "over")]

(***************************************************************************)
(* login.  seen is what the handler goes by, as it read it: the password   *)
(* is wrong, or right, or right and a code is owed.                        *)
(***************************************************************************)
Login(r, right) ==
  /\ ~scrubbed /\ lock["password"] # "on"
  /\ Begin(r, "login", None, IF lock["password"] = "over" THEN "unlock" ELSE "verify")
  /\ seen' = [seen EXCEPT ![r] =
       IF ~right THEN "wrong" ELSE IF Active /\ verified /\ twoFactor THEN "code" ELSE "right"]
  /\ UNCHANGED <<row, locks, tokens>>

ClearExpiredLock(r) ==
  /\ at[r] = "unlock"
  /\ ResetFailures("password", FALSE)
  /\ Goto(r, "verify")
  /\ UNCHANGED <<row, tokens>>

WrongPassword(r) ==
  /\ at[r] = "verify" /\ seen[r] = "wrong"
  /\ RecordFailed("password")
  /\ End(r, FALSE)
  /\ UNCHANGED <<row, tokens>>

\* Deleted and unverified accounts are told so; with two-factor on a code is sent, else
\* a session begins.
RightPassword(r) ==
  /\ at[r] = "verify" /\ seen[r] # "wrong"
  /\ ResetFailures("password", TRUE)
  /\ IF seen[r] = "code" THEN Goto(r, "delete") ELSE End(r, FALSE)
  /\ UNCHANGED <<row, tokens>>

(***************************************************************************)
(* consumeTwoFactorCode, for a login, for enabling two-factor and for      *)
(* deleting the account: s is a code that was mailed, or None for a wrong  *)
(* one.                                                                    *)
(***************************************************************************)
Present(r, o, s) ==
  /\ Begin(r, o, s, "lock")
  /\ UNCHANGED <<row, locks, tokens, seen>>

VerifyLoginTwoFactor(r, s) == challenge /\ ~scrubbed /\ Present(r, "loginTwoFactor", s)
EnableTwoFactor(r, s)      == Active /\ Present(r, "enableTwoFactor", s)

CodeLock(r) ==
  /\ at[r] = "lock"
  /\ IF lock["code"] = "on" THEN End(r, FALSE) ELSE Goto(r, "find")
  /\ UNCHANGED <<row, locks, tokens>>

FindCode(r) ==
  /\ at[r] = "find" /\ Uses[op[r]] = "code"
  /\ Goto(r, IF IsLive("code", sec[r]) THEN "found" ELSE "fail")
  /\ UNCHANGED <<row, locks, tokens>>

WrongCode(r) ==
  /\ at[r] = "fail"
  /\ RecordFailed("code")
  /\ End(r, FALSE)
  /\ UNCHANGED <<row, tokens>>

RightCode(r) ==
  /\ at[r] = "found" /\ Uses[op[r]] = "code"
  /\ ResetFailures("code", TRUE)
  /\ Goto(r, "forget")
  /\ UNCHANGED <<row, tokens>>

\* The code is deleted; then the session begins, or the next step is taken.
ForgetCode(r) ==
  /\ at[r] = "forget"
  /\ token' = [token EXCEPT !["code"] = None]
  /\ CASE op[r] = "enableTwoFactor" -> Goto(r, "enable")
       [] op[r] = "deleteMe" ->
            /\ at' = [at EXCEPT ![r] = "mark"]
            /\ spent' = spent \cup {<<"code", sec[r]>>}
            /\ UNCHANGED <<op, sec, seen, listed, faults, renames, fresh, late>>
       [] OTHER -> End(r, sec[r] # None)
  /\ UNCHANGED <<row, locks, live, issued, inbox, challenge>>

SetTwoFactor(r) ==
  /\ at[r] = "enable"
  /\ twoFactor' = TRUE /\ UNCHANGED <<verified, scrubbed, deleted, cooldown>>
  /\ End(r, TRUE)
  /\ UNCHANGED <<locks, tokens>>

\* disableTwoFactor proves the password.
DisableTwoFactor(r) ==
  /\ Active
  /\ Begin(r, "disableTwoFactor", None, "disable")
  /\ UNCHANGED <<row, locks, tokens, seen>>

ClearTwoFactor(r) ==
  /\ at[r] = "disable"
  /\ twoFactor' = FALSE /\ UNCHANGED <<verified, scrubbed, deleted, cooldown>>
  /\ Goto(r, "forget")
  /\ UNCHANGED <<locks, tokens>>

(***************************************************************************)
(* Using a link: found by its hash, and then used.                         *)
(***************************************************************************)
Open(r, o, s) ==
  /\ Begin(r, o, s, "find")
  /\ UNCHANGED <<row, locks, tokens, seen>>

VerifyEmail(r, s)    == Open(r, "verifyEmail", s)
ResetPassword(r, s)  == Open(r, "resetPassword", s)
VerifyRecovery(r, s) == Open(r, "verifyRecovery", s)

FindLiveToken(r) ==
  /\ at[r] = "find" /\ Uses[op[r]] # "code"
  /\ IF IsLive(Uses[op[r]], sec[r]) THEN Goto(r, "found") ELSE End(r, FALSE)
  /\ UNCHANGED <<row, locks, tokens>>

MarkVerifiedAndClearTokens(r) ==
  /\ at[r] = "found" /\ op[r] = "verifyEmail"
  /\ verified' = TRUE /\ UNCHANGED <<twoFactor, scrubbed, deleted, cooldown>>
  /\ token' = [token EXCEPT !["verify"] = None]
  /\ End(r, TRUE)
  /\ UNCHANGED <<locks, live, issued, inbox, challenge>>

CheckOwner(r) ==
  /\ at[r] = "found" /\ op[r] \in {"resetPassword", "verifyRecovery"}
  /\ IF IF op[r] = "resetPassword" THEN Active /\ verified ELSE deleted # "no"
       THEN Goto(r, "write") ELSE End(r, FALSE)
  /\ UNCHANGED <<row, locks, tokens>>

\* Mutant of ResetPasswordAndClearToken: the row stays.
ResetPasswordAndClearToken_Kept(r) ==
  /\ at[r] = "write" /\ op[r] = "resetPassword"
  /\ End(r, TRUE)
  /\ UNCHANGED <<row, locks, tokens>>

\* The row the handler found is deleted, if it is still the one.
ResetPasswordAndClearToken(r) ==
  /\ at[r] = "write" /\ op[r] = "resetPassword"
  /\ token' = [token EXCEPT !["reset"] = IF @ = sec[r] THEN None ELSE @]
  /\ End(r, TRUE)
  /\ UNCHANGED <<row, locks, live, issued, inbox, challenge>>

RestoreDeleted(r) ==
  /\ at[r] = "write" /\ op[r] = "verifyRecovery"
  /\ deleted' = "no" /\ UNCHANGED <<verified, twoFactor, scrubbed, cooldown>>
  /\ Goto(r, "clear")
  /\ UNCHANGED <<locks, tokens>>

ForgetRecovery(r) ==
  /\ at[r] = "clear"
  /\ token' = [token EXCEPT !["recovery"] = None]
  /\ End(r, TRUE)
  /\ UNCHANGED <<row, locks, live, issued, inbox, challenge>>

(***************************************************************************)
(* deleteMe proves the password and, with two-factor on, a code.           *)
(***************************************************************************)
DeleteMe(r, s) ==
  /\ FindVerifiedOwner
  /\ Begin(r, "deleteMe", s, IF twoFactor THEN "lock" ELSE "mark")
  /\ UNCHANGED <<row, locks, tokens, seen>>

MarkDeleted(r) ==
  /\ at[r] = "mark"
  /\ deleted' = "young" /\ UNCHANGED <<verified, twoFactor, scrubbed, cooldown>>
  /\ at' = [at EXCEPT ![r] = "window"]
  /\ fresh' = {q \in Req : at[q] # "idle"}
  /\ UNCHANGED <<locks, tokens, op, sec, seen, listed, faults, renames, spent, late>>

(***************************************************************************)
(* updateMe with another username: free, and not within the cooldown.      *)
(***************************************************************************)
UpdateMe(r) ==
  /\ Active /\ ~cooldown
  /\ Begin(r, "updateMe", None, "rename")
  /\ UNCHANGED <<row, locks, tokens, seen>>

UpdateAccount(r) ==
  /\ at[r] = "rename"
  /\ \/ /\ cooldown' = TRUE /\ UNCHANGED <<verified, twoFactor, scrubbed, deleted>>
        /\ at' = [at EXCEPT ![r] = "idle"] /\ op' = [op EXCEPT ![r] = "none"]
        /\ renames' = renames + 1
        /\ fresh' = fresh \ {r}
        /\ UNCHANGED <<locks, tokens, sec, seen, listed, faults, spent, late>>
     \/ Refuse(r)                      \* taken, found at once or by the unique index

(***************************************************************************)
(* The jobs.                                                               *)
(***************************************************************************)
jobOnly == <<locks, handler, notes>>

\* Mutant of FindDeletedSince: every deleted account is listed.
FindDeletedSince_NoCutoff ==
  /\ ~listed /\ deleted # "no" /\ ~scrubbed
  /\ listed' = TRUE
  /\ UNCHANGED <<row, tokens, faults, jobOnly>>

FindDeletedSince ==
  /\ ~listed /\ deleted = "over" /\ ~scrubbed
  /\ listed' = TRUE
  /\ UNCHANGED <<row, tokens, faults, jobOnly>>

\* Mutant of AnonymizeAccount: the account is not marked as done with.
AnonymizeAccount_Unmarked ==
  /\ listed /\ listed' = FALSE
  /\ verified' = FALSE /\ token' = [t \in Types |-> None]
  /\ UNCHANGED <<twoFactor, scrubbed, deleted, cooldown, live, issued, inbox, challenge, faults, jobOnly>>

AnonymizeAccount ==
  /\ listed /\ listed' = FALSE
  /\ scrubbed' = TRUE /\ verified' = FALSE
  /\ token' = [t \in Types |-> None]
  /\ fails' = [g \in Guess |-> 0] /\ lock' = [g \in Guess |-> "none"]
  /\ guesses' = fails' /\ lifted' = [g \in Guess |-> FALSE]  \* there is nothing to guess
  /\ UNCHANGED <<twoFactor, deleted, cooldown, live, issued, inbox, challenge, faults,
                 handler, notes>>

JobFails ==
  /\ listed /\ faults < MaxFaults
  /\ listed' = FALSE /\ faults' = faults + 1
  /\ UNCHANGED <<row, tokens, jobOnly>>

DeleteExpired ==
  /\ \E t \in Types : token[t] # None /\ ~live[t]
  /\ token' = [t \in Types |-> IF live[t] THEN token[t] ELSE None]
  /\ UNCHANGED <<row, live, issued, inbox, challenge, listed, faults, jobOnly>>

(***************************************************************************)
(* Time, and a server that dies.                                           *)
(***************************************************************************)
Expire(t) ==
  /\ t # "recovery" /\ live[t] /\ live' = [live EXCEPT ![t] = FALSE]
  /\ UNCHANGED <<row, token, issued, inbox, challenge, listed, faults, jobOnly>>

ChallengeExpires ==
  /\ challenge /\ challenge' = FALSE
  /\ UNCHANGED <<row, token, live, issued, inbox, listed, faults, jobOnly>>

LockEnds(g) ==
  /\ lock[g] = "on"
  /\ lock' = [lock EXCEPT ![g] = "over"]
  /\ guesses' = [guesses EXCEPT ![g] = 0] /\ lifted' = [lifted EXCEPT ![g] = FALSE]
  /\ UNCHANGED <<row, tokens, handler, listed, faults, fails, notes>>

CooldownEnds ==
  /\ cooldown /\ cooldown' = FALSE /\ renames' = 0
  /\ UNCHANGED <<verified, twoFactor, scrubbed, deleted, locks, tokens, handler, listed, faults,
                 spent, fresh, late>>

\* The recovery link expires with the window.
WindowEnds ==
  /\ deleted = "young" /\ fresh = {}
  /\ deleted' = "over" /\ live' = [live EXCEPT !["recovery"] = FALSE]
  /\ late' = (late \/ \E r \in Req : op[r] = "verifyRecovery" /\ at[r] \in {"found", "write"})
  /\ UNCHANGED <<verified, twoFactor, scrubbed, cooldown, locks, token, issued, inbox, challenge,
                 handler, listed, faults, renames, spent, fresh>>

Die(r) ==
  /\ at[r] # "idle" /\ faults < MaxFaults /\ faults' = faults + 1
  /\ at' = [at EXCEPT ![r] = "idle"] /\ op' = [op EXCEPT ![r] = "none"]
  /\ sec' = [sec EXCEPT ![r] = None] /\ seen' = [seen EXCEPT ![r] = "none"]
  /\ fresh' = fresh \ {r}
  /\ UNCHANGED <<row, locks, tokens, listed, renames, spent, late>>

(***************************************************************************)
(* The pages: each sends what its form or its link holds.                  *)
(***************************************************************************)
Codes == Received("code") \cup {None}

LoginPage(r) ==
  \/ \E right \in BOOLEAN : Login(r, right)
  \/ \E s \in Codes : VerifyLoginTwoFactor(r, s)
  \/ ResendLoginTwoFactor(r)

VerifyEmailPage(r)        == \E s \in Received("verify") : VerifyEmail(r, s)
ResendVerificationPage(r) == ResendVerification(r)
ForgotPasswordPage(r)     == ForgotPassword(r)
ResetPasswordPage(r)      == \E s \in Received("reset") : ResetPassword(r, s)
RecoverAccountPage(r)     == RecoverAccount(r)
VerifyRecoveryPage(r)     == \E s \in Received("recovery") : VerifyRecovery(r, s)

SecurityPrivacyPage(r) ==
  \/ RequestTwoFactorSetup(r) \/ DisableTwoFactor(r)
  \/ \E s \in Codes : EnableTwoFactor(r, s)

DeleteAccountDialog(r) ==
  \/ RequestDeletionChallenge(r)
  \/ \E s \in Codes : DeleteMe(r, s)

Page(r) ==
  \/ LoginPage(r) \/ VerifyEmailPage(r) \/ ResendVerificationPage(r)
  \/ ForgotPasswordPage(r) \/ ResetPasswordPage(r) \/ RecoverAccountPage(r)
  \/ VerifyRecoveryPage(r) \/ SecurityPrivacyPage(r) \/ DeleteAccountDialog(r)
  \/ UpdateMe(r)

Work(r) ==
  \/ InWindow(r)
  \/ SendVerification(r) \/ SendReset(r) \/ SendRecovery(r) \/ SendTwoFactorCode(r)
  \/ ClearExpiredLock(r) \/ WrongPassword(r) \/ RightPassword(r)
  \/ CodeLock(r) \/ FindCode(r) \/ WrongCode(r) \/ RightCode(r) \/ ForgetCode(r)
  \/ SetTwoFactor(r) \/ ClearTwoFactor(r)
  \/ FindLiveToken(r) \/ MarkVerifiedAndClearTokens(r) \/ CheckOwner(r)
  \/ ResetPasswordAndClearToken(r) \/ RestoreDeleted(r) \/ ForgetRecovery(r)
  \/ MarkDeleted(r) \/ UpdateAccount(r)

Time ==
  \/ \E t \in Types : Expire(t)
  \/ \E g \in Guess : LockEnds(g)
  \/ ChallengeExpires \/ CooldownEnds \/ WindowEnds

AccountNext ==
  \/ \E r \in Req : Page(r) \/ Work(r) \/ Die(r)
  \/ FindDeletedSince \/ AnonymizeAccount \/ JobFails \/ DeleteExpired
  \/ Time

\* The job runs again and again (registry.ts), and its database calls return.
AccountFairness == WF_accountVars(FindDeletedSince) /\ WF_accountVars(AnonymizeAccount)

AccountSpec ==
  /\ \E v, two \in BOOLEAN : (two => v) /\ AccountInit(v, two)
  /\ [][AccountNext]_accountVars
  /\ AccountFairness

(***************************************************************************)
(* Properties.                                                             *)
(***************************************************************************)
\* Between two locks at most MaxTries passwords, or codes, are tried, and as many more as
\* were being tried when the lock came ("atomic to avoid concurrent bypass",
\* auth/service.ts:220) -- unless a second handler that found the last lock over has reset
\* the counter, or even the next lock; and a username changes once in a cooldown, and by handlers already running.
LimitsNearlyHold ==
  /\ \A g \in Guess : lifted[g] \/ guesses[g] <= MaxTries[g] - 1 + Cardinality(Req)
  /\ renames <= Cardinality(Req)

\* A link or code that has done its work is not in the table again: whoever presents it
\* afterwards is refused ("so a stale token can never be replayed", email/repository.ts:59).
UsedIsDead == \A used \in spent : token[used[1]] # used[2]

\* An account that is anonymized had its whole recovery window, and is not in use --
\* unless its recovery was under way at the very end of the window.
RestoredIsSafe == scrubbed /\ ~late => deleted = "over"

\* A deleted account that nobody recovers is anonymized in the end.
ScrubbedInTheEnd == deleted = "over" ~> scrubbed \/ deleted # "over"
=============================================================================
