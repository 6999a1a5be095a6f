-------------------------------- MODULE Push --------------------------------
(***************************************************************************)
(* Web push in one browser (web lib/push.ts, NotificationsProvider.tsx,    *)
(* public/sw.js; api push/, settings/).  The tabs share one subscription of*)
(* the browser; each sets it up or removes it as its user signs in and out *)
(* and switches Messages on and off.  The server keeps a row for each      *)
(* endpoint, and forgets those that turn out to be dead.                   *)
(***************************************************************************)
EXTENDS Naturals, Sequences, SequencesExt

CONSTANTS Tab, Person, NoOne,
          MaxPushActs,  \* bound: sign-ins, sign-outs, switches, page loads, grants
          MaxEndpoints, \* bound: subscriptions made
          MaxFailures   \* bound: requests and tasks that fail

ASSUME PushAssumption == NoOne \notin Person /\ MaxEndpoints \in Nat

VARIABLES
  who,       \* the user of each tab
  prefs,     \* whether Messages is on in each tab
  saved,     \* and in local storage
  fetching,  \* settings each tab waits for: "none", "asked", or the value read
  saves,     \* settings on their way to the server
  notify,    \* UserSettings.notifyMessages
  permitted, \* Notification.permission is granted
  queue,     \* tasks of each tab, oldest first
  sub,       \* the browser's subscription, an endpoint or 0
  made,      \* endpoints so far
  rows,      \* PushSubscription: the user of each endpoint
  sends,     \* pushes on their way
  last,      \* history: the tab that asked for something last,
  mixed,     \* while another tab was at work
  failed,    \* history: its last task failed, or was broken off
  stale,     \* history: the setting was switched while one was on its way, or one was lost
  pushActs, failures

settings == <<prefs, saved, fetching, saves, notify>>
browser  == <<sub, made>>
pushVars == <<who, settings, permitted, queue, browser, rows, sends, last, mixed, failed,
              stale, pushActs, failures>>

Endpoint == 1..MaxEndpoints

PushInit ==
  /\ who = [t \in Tab |-> NoOne] /\ prefs = [t \in Tab |-> TRUE] /\ saved = TRUE
  /\ fetching = [t \in Tab |-> "none"] /\ saves = {} /\ notify = [u \in Person |-> TRUE]
  /\ permitted \in BOOLEAN /\ queue = [t \in Tab |-> <<>>]
  /\ sub = 0 /\ made = 0 /\ rows = [e \in Endpoint |-> NoOne] /\ sends = {}
  /\ last \in Tab /\ mixed = FALSE /\ failed = FALSE /\ stale = FALSE
  /\ pushActs = 0 /\ failures = 0

PushActs == pushActs < MaxPushActs /\ pushActs' = pushActs + 1
Fails    == failures < MaxFailures /\ failures' = failures + 1

\* No setting is on its way.
Settled == saves = {} /\ \A t \in Tab : fetching[t] = "none"

Setup  == [op |-> "setup", at |-> "start", endpoint |-> 0]
Removal == [op |-> "remove", at |-> "start", endpoint |-> 0]

(***************************************************************************)
(* What a tab wants, and the tasks for it.                                 *)
(***************************************************************************)
Enqueue(t, tasks, op) ==
  /\ queue' = [queue EXCEPT ![t] = Append(tasks, op)]
  /\ last' = t
  /\ mixed' = \E v \in Tab \ {t} : queue[v] # <<>>

\* The effect that follows the user and the switch.
Sync(t, tasks, on) == Enqueue(t, tasks, IF on THEN Setup ELSE Removal)

SignIn(t, u) ==
  /\ who[t] = NoOne /\ PushActs
  /\ who' = [who EXCEPT ![t] = u]
  /\ fetching' = [fetching EXCEPT ![t] = "asked"]
  /\ Sync(t, queue[t], prefs[t])
  /\ stale' = (stale /\ ~Settled)
  /\ UNCHANGED <<prefs, saved, saves, notify, permitted, browser, rows, sends,
                 failed, failures>>

SignOut(t) ==
  /\ who[t] # NoOne /\ PushActs
  /\ who' = [who EXCEPT ![t] = NoOne]
  /\ fetching' = [fetching EXCEPT ![t] = "none"]
  /\ Enqueue(t, queue[t], Removal)
  /\ UNCHANGED <<prefs, saved, saves, notify, permitted, browser, rows, sends, failed,
                 stale, failures>>

\* setPrefs.  A setting that is still being fetched will undo the switch.
Switch(t) ==
  /\ who[t] # NoOne /\ PushActs
  /\ prefs' = [prefs EXCEPT ![t] = ~@] /\ saved' = ~prefs[t]
  /\ saves' = saves \cup {[user |-> who[t], on |-> ~prefs[t], nth |-> pushActs]}
  /\ Sync(t, queue[t], ~prefs[t])
  /\ stale' = (stale \/ ~Settled)
  /\ UNCHANGED <<who, fetching, notify, permitted, browser, rows, sends, failed, failures>>

\* A page is loaded again.  The tasks it had are broken off, and nobody takes them up
\* when nobody is signed in.
LoadPage(t) ==
  /\ PushActs
  /\ prefs' = [prefs EXCEPT ![t] = saved]
  /\ fetching' = [fetching EXCEPT ![t] = IF who[t] = NoOne THEN "none" ELSE "asked"]
  /\ IF who[t] = NoOne
       THEN /\ queue' = [queue EXCEPT ![t] = <<>>]
            /\ failed' = (failed \/ queue[t] # <<>>)
            /\ UNCHANGED <<last, mixed>>
       ELSE /\ Sync(t, <<>>, saved)
            /\ UNCHANGED failed
  /\ stale' = (stale \/ saves # {})
  /\ UNCHANGED <<who, saved, saves, notify, permitted, browser, rows, sends, failures>>

\* ensureNotificationPermission, at a click: the prompt is answered.
EnsureNotificationPermission == ~permitted /\ permitted' = TRUE

\* retrySubscribe: the tab tries again.
Grant(t) ==
  /\ who[t] # NoOne /\ prefs[t] /\ PushActs
  /\ EnsureNotificationPermission
  /\ Enqueue(t, queue[t], Setup)
  /\ UNCHANGED <<who, settings, browser, rows, sends, failed, stale, failures>>

\* The permission is withdrawn in the browser, and the subscription is gone.
Block ==
  /\ permitted /\ PushActs
  /\ permitted' = FALSE /\ sub' = 0
  /\ UNCHANGED <<who, settings, queue, made, rows, sends, last, mixed, failed, stale, failures>>

(***************************************************************************)
(* Settings.                                                               *)
(***************************************************************************)
GetSettings(t) ==
  /\ fetching[t] = "asked"
  /\ fetching' = [fetching EXCEPT ![t] = IF notify[who[t]] THEN "on" ELSE "off"]
  /\ stale' = (stale \/ saves # {})
  /\ UNCHANGED <<who, prefs, saved, saves, notify, permitted, queue, browser, rows, sends,
                 last, mixed, failed, pushActs, failures>>

SettingsLoaded(t) ==
  /\ fetching[t] \in {"on", "off"}
  /\ LET on == fetching[t] = "on" IN
       /\ prefs' = [prefs EXCEPT ![t] = on] /\ saved' = on
       /\ IF on # prefs[t] THEN Sync(t, queue[t], on) ELSE UNCHANGED <<queue, last, mixed>>
  /\ fetching' = [fetching EXCEPT ![t] = "none"]
  /\ UNCHANGED <<who, saves, notify, permitted, browser, rows, sends, failed, stale,
                 pushActs, failures>>

SettingsFail(t) ==
  /\ fetching[t] # "none" /\ Fails
  /\ fetching' = [fetching EXCEPT ![t] = "none"]
  /\ stale' = TRUE
  /\ UNCHANGED <<who, prefs, saved, saves, notify, permitted, queue, browser, rows, sends,
                 last, mixed, failed, pushActs>>

UpdateNotifications(s) ==
  /\ s \in saves
  /\ saves' = saves \ {s}
  /\ notify' = [notify EXCEPT ![s.user] = s.on]
  /\ UNCHANGED <<who, prefs, saved, fetching, permitted, queue, browser, rows, sends, last, mixed,
                 failed, stale, pushActs, failures>>

SaveFails(s) ==
  /\ s \in saves /\ Fails
  /\ saves' = saves \ {s}
  /\ stale' = TRUE
  /\ UNCHANGED <<who, prefs, saved, fetching, notify, permitted, queue, browser, rows, sends, last,
                 mixed, failed, pushActs>>

(***************************************************************************)
(* The tasks.                                                              *)
(***************************************************************************)
\* Mutant of Turn: a task does not wait for the one before.
Turn_Any(t, i) == i \in DOMAIN queue[t]

\* "Run them strictly one after another" (NotificationsProvider.tsx:55), in this tab.
Turn(t, i) == i = 1 /\ queue[t] # <<>>

At(t, i, op, at) == Turn(t, i) /\ queue[t][i].op = op /\ queue[t][i].at = at

Advance(t, i, at, e) ==
  queue' = [queue EXCEPT ![t][i].at = at, ![t][i].endpoint = e]

\* How a task ends.
Done(t, i, well) ==
  /\ queue' = [queue EXCEPT ![t] = RemoveAt(@, i)]
  /\ failed' = IF t = last THEN ~well ELSE failed

\* The table: a row is taken over by whoever subscribes with its endpoint.
UpsertByEndpoint(e, u) == rows' = [rows EXCEPT ![e] = u]
DeleteByEndpoint(e)    == rows' = [rows EXCEPT ![e] = NoOne]
FindForMessage(u)      == IF notify[u] THEN {e \in Endpoint : rows[e] = u} ELSE {}

SetupStart(t, i) ==
  /\ At(t, i, "setup", "start")
  /\ IF permitted
       THEN /\ made' = IF sub = 0 THEN made + 1 ELSE made
            /\ made' \in 0..MaxEndpoints
            /\ sub' = IF sub = 0 THEN made' ELSE sub
            /\ Advance(t, i, "post", sub')
            /\ UNCHANGED failed
       ELSE /\ Done(t, i, TRUE)
            /\ UNCHANGED browser
  /\ UNCHANGED <<who, settings, permitted, rows, sends, last, mixed, stale, pushActs, failures>>

\* The row is that of whoever is signed in by now.
Subscribe(t, i) ==
  /\ At(t, i, "setup", "post")
  /\ IF who[t] = NoOne THEN UNCHANGED rows ELSE UpsertByEndpoint(queue[t][i].endpoint, who[t])
  /\ Done(t, i, who[t] # NoOne)
  /\ UNCHANGED <<who, settings, permitted, browser, sends, last, mixed, stale,
                 pushActs, failures>>

\* No service worker, no key, no push service, no answer.
TaskFails(t, i) ==
  /\ Turn(t, i) /\ Fails
  /\ queue[t][i].op = "setup" \/ queue[t][i].at # "post"
  /\ Done(t, i, FALSE)
  /\ UNCHANGED <<who, settings, permitted, browser, rows, sends, last, mixed, stale, pushActs>>

RemoveStart(t, i) ==
  /\ At(t, i, "remove", "start")
  /\ IF sub = 0
       THEN Done(t, i, TRUE)
       ELSE Advance(t, i, "post", sub) /\ UNCHANGED failed
  /\ UNCHANGED <<who, settings, permitted, browser, rows, sends, last, mixed, stale,
                 pushActs, failures>>

\* A request that fails is let be.  Signed out, the tab has no token for it any more:
\* the row stays.
Unsubscribe(t, i) ==
  /\ At(t, i, "remove", "post")
  /\ Advance(t, i, "drop", queue[t][i].endpoint)
  /\ \/ /\ IF who[t] = NoOne THEN UNCHANGED rows ELSE DeleteByEndpoint(queue[t][i].endpoint)
        /\ UNCHANGED failures
     \/ /\ who[t] # NoOne /\ Fails
        /\ UNCHANGED rows
  /\ UNCHANGED <<who, settings, permitted, browser, sends, last, mixed, failed,
                 stale, pushActs>>

Drop(t, i) ==
  /\ At(t, i, "remove", "drop")
  /\ sub' = IF sub = queue[t][i].endpoint THEN 0 ELSE sub
  /\ Done(t, i, TRUE)
  /\ UNCHANGED <<who, settings, permitted, made, rows, sends, last, mixed, stale,
                 pushActs, failures>>

(***************************************************************************)
(* A message to u is sent to the endpoints of u (notifyMessage, sendOne);  *)
(* the row of one that is gone is deleted.                                 *)
(***************************************************************************)
NotifyMessage(u) ==
  /\ sends' = sends \cup FindForMessage(u)
  /\ UNCHANGED <<who, settings, permitted, queue, browser, rows, last, mixed, failed, stale,
                 pushActs, failures>>

SendOne(e) ==
  /\ e \in sends
  /\ sends' = sends \ {e}
  /\ IF sub = e THEN UNCHANGED rows ELSE DeleteByEndpoint(e)
  /\ UNCHANGED <<who, settings, permitted, queue, browser, last, mixed, failed, stale, pushActs,
                 failures>>

PushNext ==
  \/ \E t \in Tab : SignOut(t) \/ Switch(t) \/ LoadPage(t) \/ Grant(t)
                    \/ GetSettings(t) \/ SettingsLoaded(t) \/ SettingsFail(t)
                    \/ \E u \in Person : SignIn(t, u)
  \/ Block
  \/ \E s \in saves : UpdateNotifications(s) \/ SaveFails(s)
  \/ \E t \in Tab : \E i \in DOMAIN queue[t] :
       SetupStart(t, i) \/ Subscribe(t, i) \/ TaskFails(t, i) \/ RemoveStart(t, i)
       \/ Unsubscribe(t, i) \/ Drop(t, i)
  \/ \E u \in Person : NotifyMessage(u)
  \/ \E e \in sends : SendOne(e)

PushSpec == PushInit /\ [][PushNext]_pushVars

(***************************************************************************)
(* Properties.                                                             *)
(***************************************************************************)
AtRest == Settled /\ \A t \in Tab : queue[t] = <<>>

Wants(t) == who[t] # NoOne /\ prefs[t] /\ permitted

\* When all that was asked is done, the browser is as the tab that asked last wants it:
\* signed in with Messages on, it is subscribed and the server knows the endpoint as the
\* user's; otherwise it is not subscribed, and nobody's messages come to it.  The switch
\* is then what the server has.  Not so when a task failed or was broken off, when two
\* tabs were at work at once (each has a queue of its own), when settings raced, or when
\* a tab was not told of a switch in the other.
PushSettles ==
  AtRest /\ ~mixed /\ ~failed =>
    /\ IF Wants(last) THEN sub # 0 /\ rows[sub] = who[last] ELSE sub = 0
    /\ ~stale /\ (\A t \in Tab : who[t] = who[last] /\ prefs[t] = prefs[last]) =>
         (who[last] # NoOne => prefs[last] = notify[who[last]])
=============================================================================
