---------------------------- MODULE UsernameForm ----------------------------
(***************************************************************************)
(* The username field of two forms, and what it says of the name in it: the*)
(* page of one's account (web AccountPage.tsx) and the second step of the  *)
(* sign-up (SignupPage.tsx), with checkUsername of users/service.ts.       *)
(*                                                                         *)
(* Typing starts a timer over, the timer sends a check, and an answer is   *)
(* taken for the name in the field, whichever it was about.                *)
(***************************************************************************)
EXTENDS Naturals

CONSTANTS Name, Short,  \* names, and those of fewer than four characters
          Nobody,
          MaxTyped      \* bound: names typed, taken and freed, saves and photos, together

VARIABLES
  form,      \* "account" or "signup"
  own,       \* the user's name on the server, Nobody in a sign-up
  profile,   \* and in the page
  field, status,
  timer,     \* the name whose check is due
  checks,    \* checks under way: the name, and what was read
  taken,     \* names of others
  sent,      \* the name of a save or a sign-up under way
  fetching,  \* profiles being fetched, after a save or a new photo
  past,      \* the sign-up is past this step
  vouched,   \* history: the name that was found available last
  overtaken, \* history: a check was under way for what is no longer in the field
  typed

formVars == <<form, own, profile, field, status, timer, checks, taken, sent, fetching, past, vouched,
              overtaken, typed>>

Happens == typed < MaxTyped /\ typed' = typed + 1

FormInit ==
  /\ form \in {"account", "signup"}
  /\ own = IF form = "account" THEN CHOOSE n \in Name \ Short : TRUE ELSE Nobody
  /\ profile = own /\ field = own /\ status = "idle" /\ timer = Nobody /\ checks = {}
  /\ taken \in SUBSET (Name \ {own})
  /\ sent = Nobody /\ fetching = 0 /\ past = FALSE
  /\ vouched = Nobody /\ overtaken = FALSE /\ typed = 0

(***************************************************************************)
(* handleUsernameChange, useSuggestion; the timer, the check, its answer.  *)
(***************************************************************************)
\* The sign-up takes a short name for any other, and none for no check; its button takes
\* neither (step2Valid).
StatusOf(n) == IF n = profile THEN "idle"
               ELSE IF n \in Short /\ form = "account" THEN "short" ELSE "checking"

\* Mutant of Type: a name that needs no check leaves the timer of the one before.
Type_TimerRuns(n) ==
  /\ n # field /\ (n = Nobody => form = "signup") /\ ~past /\ Happens
  /\ field' = n /\ status' = StatusOf(n)
  /\ timer' = IF status' = "checking" /\ timer = Nobody THEN n ELSE timer
  /\ overtaken' = (checks # {})
  /\ UNCHANGED <<form, own, profile, checks, taken, sent, fetching, past, vouched>>

Type(n) ==
  /\ n # field /\ (n = Nobody => form = "signup") /\ ~past /\ Happens
  /\ field' = n /\ status' = StatusOf(n)
  /\ timer' = IF status' = "checking" THEN n ELSE Nobody
  /\ overtaken' = (checks # {})
  /\ UNCHANGED <<form, own, profile, checks, taken, sent, fetching, past, vouched>>

Check ==
  /\ timer # Nobody
  /\ timer' = Nobody
  /\ checks' = checks \cup {<<timer, "asked">>}
  /\ status' = IF form = "signup" THEN "checking" ELSE status
  /\ UNCHANGED <<form, own, profile, field, taken, sent, fetching, past, vouched,
                 overtaken, typed>>

CheckUsername(n) ==
  /\ <<n, "asked">> \in checks
  /\ checks' = (checks \ {<<n, "asked">>})
                 \cup {<<n, IF n \in taken \cup {own} THEN "taken" ELSE "available">>}
  /\ UNCHANGED <<form, own, profile, field, status, timer, taken, sent, fetching, past,
                 vouched, overtaken, typed>>

\* An answer, or a check that failed.
Checked(c) ==
  /\ c \in checks
  /\ checks' = checks \ {c}
  /\ \/ c[2] = "available" /\ status' = "available" /\ vouched' = c[1]
     \/ status' = "taken" /\ UNCHANGED vouched
  /\ UNCHANGED <<form, own, profile, field, timer, taken, sent, fetching, past, overtaken,
                 typed>>

(***************************************************************************)
(* What the forms do with it.                                              *)
(***************************************************************************)
\* goToStep3, when the button is enabled; Back; handleSignUp, which the server refuses
\* when the name is taken by then.
GoToStep3 ==
  /\ form = "signup" /\ ~past /\ status = "available" /\ field \in Name \ Short
  /\ past' = TRUE
  /\ UNCHANGED <<form, own, profile, field, status, timer, checks, taken, sent, fetching,
                 vouched, overtaken, typed>>

Back ==
  /\ past /\ sent = Nobody /\ Happens
  /\ past' = FALSE
  /\ UNCHANGED <<form, own, profile, field, status, timer, checks, taken, sent, fetching,
                 vouched, overtaken>>

\* handleSave, and handleSignUp.
Submit ==
  /\ sent = Nobody /\ Happens
  /\ IF form = "signup" THEN past /\ own = Nobody ELSE status \notin {"checking", "short", "taken"}
  /\ sent' = field
  /\ UNCHANGED <<form, own, profile, field, status, timer, checks, taken, fetching, past,
                 vouched, overtaken>>

\* The server has the last word (P2002, the cooldown), and a request may
\* fail.
Save ==
  /\ sent # Nobody
  /\ sent' = Nobody
  /\ \/ /\ sent \notin taken
        /\ own' = sent
        /\ fetching' = IF form = "account" THEN fetching + 1 ELSE fetching
     \/ UNCHANGED <<own, fetching>>
  /\ UNCHANGED <<form, profile, field, status, timer, checks, taken, past, vouched,
                 overtaken, typed>>

\* handleCropConfirm.
UploadAvatar ==
  /\ form = "account" /\ Happens
  /\ fetching' = fetching + 1
  /\ UNCHANGED <<form, own, profile, field, status, timer, checks, taken, sent, past,
                 vouched, overtaken>>

\* refreshUser: the form starts over from the profile; what is due or under way goes on.
Refreshed ==
  /\ fetching > 0
  /\ fetching' = fetching - 1
  /\ profile' = own /\ field' = own /\ status' = "idle"
  /\ overtaken' = (checks # {} \/ timer # Nobody)
  /\ UNCHANGED <<form, own, timer, checks, taken, sent, past, vouched, typed>>

\* Others take names, and give them up.
Others(n) ==
  /\ n # own /\ Happens
  /\ taken' = IF n \in taken THEN taken \ {n} ELSE taken \cup {n}
  /\ UNCHANGED <<form, own, profile, field, status, timer, checks, sent, fetching, past,
                 vouched, overtaken>>

FormNext ==
  \/ \E n \in Name \cup {Nobody} : Type(n)
  \/ \E n \in Name : CheckUsername(n) \/ Others(n)
  \/ \E c \in checks : Checked(c)
  \/ Check \/ GoToStep3 \/ Back \/ Submit \/ Save \/ UploadAvatar \/ Refreshed

FormSpec == FormInit /\ [][FormNext]_formVars

(***************************************************************************)
(* Properties.                                                             *)
(***************************************************************************)
\* A name that is shown as available, or that the sign-up went on with, is the one the
\* server was asked about and found free: however one types, saves and uploads meanwhile.
\* Not so when a check was still under way for another name: its answer is taken for this.
NameIsVouched ==
  (status = "available" \/ past) /\ ~overtaken => field = vouched
=============================================================================
