---------------------------- MODULE TabSessions ----------------------------
(***************************************************************************)
(* The tabs of one browser (web lib/api/tokens.ts, client.ts, lib/socket.ts*)
(* and AuthProvider.tsx): they share the refresh cookie and the session    *)
(* hint, and each keeps its access token to itself.                        *)
(*                                                                         *)
(* The server is what AuthSessions shows of it: a refresh with the newest  *)
(* token of a live session rotates it; any other token is refused, and     *)
(* when it was rotated, or its session revoked, a while ago, every session *)
(* ends.  One person uses the browser.                                     *)
(***************************************************************************)
EXTENDS Naturals

CONSTANTS Tab,
          Locks,      \* the browser has Web Locks
          MaxSession, \* bound: sign-ins
          MaxEvents   \* bound: page loads, sign-ins, access tokens that expire, sockets refused,
                      \* sessions revoked elsewhere, and requests or answers lost, together

ASSUME TabAssumption ==
  Locks \in BOOLEAN /\ MaxSession \in Nat \ {0} /\ MaxEvents \in Nat

VARIABLES
  cookie,   \* <<session, number of the token>>, or NoCookie
  hint,     \* the session hint in local storage
  gen,      \* the newest token of each session
  aged,     \* tokens of each session revoked before the grace period
  alive,    \* sessions that are not revoked
  cur,      \* the session signed in to last
  user,     \* what each tab shows: "loading", "out" (the sign-in form), "in"
  access,   \* the session of its access token, and whether that has expired
  refresh,  \* its refresh under way
  want,     \* who waits for it
  req,      \* its API request under way
  events,
  lost,     \* history: a request or an answer was lost
  kicked,   \* history: a tab was signed out of a live session
  crossed   \* history: somebody signed in while an answer about a session before was out, or
            \* signed out of an earlier session, in a tab that was not signed in again

jar     == <<cookie, hint>>
server  == <<gen, aged, alive, cur>>
tabs    == <<user, access, refresh, want, req>>
history == <<lost, kicked, crossed>>
tabVars == <<jar, server, tabs, events, history>>

NoCookie  == <<0, 0>>
NoAccess  == [s |-> 0, fresh |-> FALSE]
NoRefresh == [at |-> "none", tok |-> NoCookie, again |-> FALSE, res |-> "none"]
Session   == 1..MaxSession

\* Somebody signed in in one tab a while ago, and the others were loaded after that.
TabInit ==
  /\ cookie = <<1, 2>> /\ hint = TRUE
  /\ gen = [s \in Session |-> IF s = 1 THEN 2 ELSE 1] /\ aged = [s \in Session |-> gen[s] - 1]
  /\ alive = [s \in Session |-> s = 1] /\ cur = 1
  /\ user = [t \in Tab |-> "in"] /\ access = [t \in Tab |-> [s |-> 1, fresh |-> TRUE]]
  /\ refresh = [t \in Tab |-> NoRefresh] /\ want = [t \in Tab |-> {}]
  /\ req = [t \in Tab |-> "none"]
  /\ events = 0 /\ lost = FALSE /\ kicked = FALSE /\ crossed = FALSE

Accepted(t) == access[t].fresh /\ access[t].s # 0 /\ alive[access[t].s]
Out(t)      == refresh[t].at \in {"sent", "answered"}
Happens     == events < MaxEvents /\ events' = events + 1
Lose        == Happens /\ lost' = TRUE

\* One refresh for all who ask for it in a tab.
DedupeRefresh(t, who) ==
  /\ want' = [want EXCEPT ![t] = @ \cup {who}]
  /\ refresh' = [refresh EXCEPT ![t].at = IF @ = "none" THEN "queued" ELSE @]

(***************************************************************************)
(* A page is loaded: with the hint it begins by a refresh.  A refresh that *)
(* was under way in that tab is broken off, and its answer lost.           *)
(***************************************************************************)
Load(t) ==
  /\ Happens /\ lost' = (lost \/ Out(t))
  /\ access' = [access EXCEPT ![t] = NoAccess]
  /\ refresh' = [refresh EXCEPT ![t] = IF hint THEN [NoRefresh EXCEPT !.at = "queued"] ELSE NoRefresh]
  /\ req' = [req EXCEPT ![t] = "none"]
  /\ want' = [want EXCEPT ![t] = IF hint THEN {"load"} ELSE {}]
  /\ user' = [user EXCEPT ![t] = IF hint THEN "loading" ELSE "out"]
  /\ UNCHANGED <<jar, server, kicked, crossed>>

(***************************************************************************)
(* apiClient.  A request that is refused with a token refreshes and is sent*)
(* once more.                                                              *)
(***************************************************************************)
Send(t, kind) ==
  /\ user[t] = "in" /\ req[t] = "none"
  /\ req' = [req EXCEPT ![t] = kind]
  /\ UNCHANGED <<jar, server, user, access, refresh, want, events, history>>

\* A logout revokes the session; its answer clears the cookie.
Answered(t) ==
  /\ req[t] \in {"get", "logout", "get again", "logout again"}
  /\ \/ /\ Accepted(t)
        /\ IF req[t] \in {"logout", "logout again"}
             THEN /\ alive' = [alive EXCEPT ![access[t].s] = FALSE]
                  /\ req' = [req EXCEPT ![t] = "bye"]
                  /\ crossed' = (crossed \/ access[t].s # cur)
             ELSE req' = [req EXCEPT ![t] = "none"] /\ UNCHANGED <<alive, crossed>>
        /\ UNCHANGED <<want, refresh>>
     \/ /\ ~Accepted(t) /\ req[t] \in {"get", "logout"}
        /\ access[t] # NoAccess
        /\ "request" \notin want[t]
        /\ DedupeRefresh(t, "request")
        /\ UNCHANGED <<alive, req, crossed>>
     \/ /\ ~Accepted(t) /\ (req[t] \in {"get again", "logout again"} \/ access[t] = NoAccess)
        /\ req' = [req EXCEPT ![t] = IF @ \in {"logout", "logout again"} THEN "failed" ELSE "none"]
        /\ UNCHANGED <<alive, want, refresh, crossed>>
  /\ UNCHANGED <<jar, gen, aged, cur, user, access, events, lost, kicked>>

\* logout clears what the tab holds, whatever came of it.
LoggedOut(t) ==
  /\ req[t] \in {"bye", "failed"}
  /\ req' = [req EXCEPT ![t] = "none"]
  /\ cookie' = IF req[t] = "bye" THEN NoCookie ELSE cookie
  /\ hint' = FALSE
  /\ access' = [access EXCEPT ![t] = NoAccess] /\ user' = [user EXCEPT ![t] = "out"]
  /\ UNCHANGED <<server, refresh, want, events, history>>

LoseRequest(t) ==
  /\ req[t] \in {"get", "logout", "get again", "logout again", "bye"} /\ "request" \notin want[t]
  /\ Lose
  /\ req' = [req EXCEPT ![t] = IF @ \in {"get", "get again"} THEN "none" ELSE "failed"]
  /\ UNCHANGED <<jar, server, user, access, refresh, want, kicked, crossed>>

\* A socket that is refused for its token waits for a refresh, too.
ConnectError(t) ==
  /\ user[t] = "in" /\ ~Accepted(t) /\ "socket" \notin want[t]
  /\ Happens
  /\ DedupeRefresh(t, "socket")
  /\ UNCHANGED <<jar, server, user, access, req, history>>

(***************************************************************************)
(* A refresh: one for a tab, and with Web Locks one for the browser.       *)
(***************************************************************************)
\* Mutant of CrossTabLock: each tab refreshes by itself.
CrossTabLock_InTab(t) == TRUE

CrossTabLock(t) == Locks => \A u \in Tab \ {t} : refresh[u].at \in {"none", "queued"}

PostRefresh(t) ==
  /\ refresh[t].at \in {"queued", "wait"}
  /\ CrossTabLock(t)
  /\ refresh' = [refresh EXCEPT ![t].at = "sent", ![t].tok = cookie]
  /\ UNCHANGED <<jar, server, user, access, want, req, events, history>>

Rotate(t) ==
  LET s == refresh[t].tok[1] IN
  /\ alive[s] /\ refresh[t].tok[2] = gen[s]
  /\ gen' = [gen EXCEPT ![s] = @ + 1] /\ UNCHANGED alive
  /\ refresh' = [refresh EXCEPT ![t].at = "answered", ![t].res = "ok", ![t].tok = <<s, gen'[s]>>]

Refuse(t, code) ==
  refresh' = [refresh EXCEPT ![t].at = "answered", ![t].res = code]

Reused(t) == alive' = [s \in Session |-> FALSE] /\ Refuse(t, "refused") /\ UNCHANGED gen

ServeRefresh(t) ==
  LET s == refresh[t].tok[1]
      n == refresh[t].tok[2]
  IN
  /\ refresh[t].at = "sent"
  /\ \/ s \in Session /\ Rotate(t)
     \/ /\ s \in Session /\ (n < gen[s] \/ ~alive[s])
        /\ \/ n > aged[s] /\ Refuse(t, "rotated") /\ UNCHANGED <<gen, alive>>
           \/ n <= aged[s] /\ Reused(t)
     \/ s = 0 /\ Refuse(t, "refused") /\ UNCHANGED <<gen, alive>>
  /\ UNCHANGED <<jar, aged, cur, user, access, want, req, events, history>>

\* Any other failure of the handler refuses the token, too.
FailRefresh(t) ==
  /\ refresh[t].at = "sent" /\ Lose
  /\ Refuse(t, "refused")
  /\ UNCHANGED <<jar, server, user, access, want, req, kicked, crossed>>

\* Everybody who waits hears that it worked.
Resolve(t) ==
  LET s == refresh[t].tok[1] IN
  /\ access' = [access EXCEPT ![t] = [s |-> s, fresh |-> TRUE]] /\ hint' = TRUE
  /\ user' = [user EXCEPT ![t] = IF "load" \in want[t] THEN "in" ELSE @]
  /\ req' = [req EXCEPT ![t] = IF "request" \notin want[t] THEN @
                               ELSE IF @ = "get" THEN "get again" ELSE "logout again"]
  /\ want' = [want EXCEPT ![t] = {}] /\ refresh' = [refresh EXCEPT ![t] = NoRefresh]

\* ... or that it failed: a page that was loading shows the sign-in form, a request goes
\* there, and a socket stays as it is.
Reject(t) ==
  LET out == want[t] \cap {"load", "request"} # {} IN
  /\ access' = IF out THEN [access EXCEPT ![t] = NoAccess] ELSE access
  /\ hint' = (hint /\ ~out)
  /\ user' = IF out THEN [user EXCEPT ![t] = "out"] ELSE user
  /\ req' = IF "request" \in want[t] THEN [req EXCEPT ![t] = "none"] ELSE req
  /\ want' = [want EXCEPT ![t] = {}] /\ refresh' = [refresh EXCEPT ![t] = NoRefresh]
  /\ kicked' = (kicked \/ (out /\ alive[cur]))

\* The answer comes: a rotated token replaces the cookie, any other refusal than
\* "rotated" clears it; after that one the tab waits and tries once more.
Delivered(t) ==
  /\ refresh[t].at = "answered"
  /\ \/ /\ refresh[t].res = "ok"
        /\ cookie' = refresh[t].tok /\ Resolve(t) /\ UNCHANGED kicked
     \/ /\ refresh[t].res = "rotated" /\ ~refresh[t].again
        /\ refresh' = [refresh EXCEPT ![t].at = "wait", ![t].again = TRUE]
        /\ UNCHANGED <<jar, user, access, want, req, kicked>>
     \/ refresh[t].res = "rotated" /\ refresh[t].again /\ Reject(t) /\ UNCHANGED cookie
     \/ refresh[t].res = "refused" /\ Reject(t) /\ cookie' = NoCookie
  /\ UNCHANGED <<server, events, lost, crossed>>

\* Mutant of LoseRefresh: the lock is not given back.
LoseRefresh_Locked(t) ==
  /\ Out(t) /\ Lose
  /\ refresh' = [refresh EXCEPT ![t].at = "stuck"]
  /\ UNCHANGED <<jar, server, user, access, want, req, kicked, crossed>>

LoseRefresh(t) ==
  /\ Out(t) /\ Lose
  /\ Reject(t)
  /\ UNCHANGED <<cookie, server, crossed>>

\* getMe, of a page that has refreshed or of one that fetches the profile again
\* (refreshUser), is lost: the tab gives its token up.
GetMeFails(t) ==
  /\ Lose
  /\ \/ /\ refresh[t].at = "answered" /\ refresh[t].res = "ok" /\ "load" \in want[t]
        /\ cookie' = refresh[t].tok
        /\ refresh' = [refresh EXCEPT ![t] = NoRefresh] /\ want' = [want EXCEPT ![t] = {}]
        /\ UNCHANGED req
     \/ /\ req[t] \in {"get", "get again"} /\ "request" \notin want[t]
        /\ req' = [req EXCEPT ![t] = "none"]
        /\ UNCHANGED <<cookie, refresh, want>>
  /\ hint' = FALSE /\ access' = [access EXCEPT ![t] = NoAccess]
  /\ user' = [user EXCEPT ![t] = "out"]
  /\ kicked' = (kicked \/ alive[cur])
  /\ UNCHANGED <<server, crossed>>

(***************************************************************************)
(* Signing in, and what happens elsewhere.                                 *)
(***************************************************************************)
Login(t) ==
  /\ user[t] = "out" /\ want[t] = {} /\ cur < MaxSession /\ Happens
  /\ cur' = cur + 1 /\ alive' = [alive EXCEPT ![cur'] = TRUE]
  /\ cookie' = <<cur', 1>> /\ hint' = TRUE
  /\ access' = [access EXCEPT ![t] = [s |-> cur', fresh |-> TRUE]]
  /\ user' = [user EXCEPT ![t] = "in"]
  /\ crossed' = (crossed \/ \E u \in Tab : Out(u) \/ req[u] = "bye")
  /\ UNCHANGED <<gen, aged, refresh, want, req, lost, kicked>>

AccessExpires(t) ==
  /\ access[t].fresh /\ Happens
  /\ access' = [access EXCEPT ![t].fresh = FALSE]
  /\ UNCHANGED <<jar, server, user, refresh, want, req, history>>

Revoked(s) ==
  /\ alive[s] /\ Happens /\ alive' = [alive EXCEPT ![s] = FALSE]
  /\ UNCHANGED <<jar, gen, aged, cur, tabs, history>>

GraceEnds ==
  LET old == [s \in Session |-> IF alive[s] THEN gen[s] - 1 ELSE IF s <= cur THEN gen[s] ELSE 0] IN
  /\ aged # old /\ aged' = old
  /\ UNCHANGED <<jar, gen, alive, cur, tabs, events, history>>

TabStep(t) ==
  \/ Answered(t) \/ LoggedOut(t) \/ PostRefresh(t) \/ ServeRefresh(t)
  \/ Delivered(t)

TabNext ==
  \/ \E t \in Tab :
       \/ Load(t) \/ Send(t, "get") \/ Send(t, "logout") \/ TabStep(t)
       \/ LoseRequest(t) \/ ConnectError(t) \/ LoseRefresh(t) \/ FailRefresh(t)
       \/ GetMeFails(t) \/ Login(t) \/ AccessExpires(t)
  \/ \E s \in Session : Revoked(s)
  \/ GraceEnds

\* Requests are answered, or fail; promises and locks go on.
TabFairness == \A t \in Tab : WF_tabVars(TabStep(t))

TabSpec == TabInit /\ [][TabNext]_tabVars /\ TabFairness

(***************************************************************************)
(* Properties.                                                             *)
(***************************************************************************)
\* With Web Locks nobody is signed out of a session that is alive ("two tabs must not
\* present the same one at once", tokens.ts:79), unless a request was lost, or somebody
\* signed in while an answer about the session before was still to come, or signed out
\* where that earlier session was still open.
AliveIsNotKicked == kicked => lost \/ crossed \/ ~Locks

\* Whatever happens to the refresh it waits for, a request settles.
RequestSettles == \A t \in Tab : req[t] # "none" ~> req[t] = "none"
=============================================================================
