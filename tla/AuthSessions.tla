---------------------------- MODULE AuthSessions ----------------------------
(***************************************************************************)
(* Login sessions and rotating refresh tokens of one account:              *)
(* apps/api/src/auth/service.ts, auth/refresh-token.repository.ts, the     *)
(* session check of the HTTP and socket middlewares, and disconnectSockets.*)
(*                                                                         *)
(* Every handler is a request r \in Req that runs as a sequence of steps,  *)
(* one per awaited database call; between two of its steps any other       *)
(* request may take any of its own.  pc[r] names the next step.            *)
(*                                                                         *)
(* Time is nondeterministic: a rotated token leaves its 30 second grace    *)
(* window, and a token expires, at any moment (Age, Expire).               *)
(***************************************************************************)
EXTENDS Naturals

CONSTANTS Device,   \* browsers: each has one cookie jar and one access token
          Session,  \* rows of the Session table
          Token,    \* rows of the RefreshToken table
          Req,      \* requests being served at the same time
          Socket,   \* Socket.IO connections
          None,     \* "no session", "no token", "no device"
          MaxEra,   \* bound: password changes, resets and deletions
          Expiring, \* bound: the tokens whose seven days can pass
          Timely    \* TRUE: no request outlives the grace window

ASSUME ConstantsAssumption ==
  /\ None \notin Device \cup Session \cup Token
  /\ MaxEra \in Nat
  /\ Expiring \subseteq Token
  /\ Timely \in BOOLEAN

VARIABLES
  sess,       \* Session.revokedAt: "none" (no row), "live", "revoked"
  token,      \* RefreshToken: "none", "active", "recent" (revoked within the
              \* grace window), "old" (revoked before it), "deleted"
  tokSess,    \* RefreshToken.sessionId
  expired,    \* tokens whose expiresAt has passed
  deleted,    \* User.deletedAt is set
  era,        \* how often the password changed or the account was deleted
  cookie,     \* the refresh cookie in each device's jar
  jwt,        \* the sid of the access token each device holds
  pc,         \* next step of each request
  req,        \* what each request has read or been given so far
  sock,       \* live sockets and handshakes
  \* History variables: read by the properties, never by a guard.
  readEra,    \* era at which the login that made the session read the user row
  bornEra,    \* era at which the session row was created
  endedBy,    \* how a token was revoked: "rotation", "one" (logout or end
              \* session), "many" (every wider revocation)
  lostRot,    \* tokens whose rotation was never answered to the device
  stranded    \* sessions a dead request had still to revoke or disconnect

rows   == <<sess, token, tokSess, expired>>
client == <<cookie, jwt>>
born   == <<readEra, bornEra>>
hist   == <<readEra, bornEra, endedBy, lostRot, stranded>>
vars   == <<sess, token, tokSess, expired, deleted, era, cookie, jwt, pc, req,
            sock, readEra, bornEra, endedBy, lostRot, stranded>>

Era == 0..MaxEra

LoginSteps   == {"loginSession", "loginToken"}
RefreshSteps == {"rfFind", "rfSession", "rfUser", "rfClaim", "rfIssue"}
EndSteps     == {"write", "sessions", "tokens", "sockets"}
Steps        == {"idle", "deliver", "clear"} \cup LoginSteps \cup RefreshSteps
                  \cup EndSteps

EndOps == {"end", "logout", "others", "all", "password", "delete", "reuse"}
Ops    == {"none", "login", "refresh"} \cup EndOps

\* What a request carries from one step to the next: what it does, for which
\* device, the token presented, the token created, the session it is about, the
\* era at which it read the user row, and (history) whether its session was
\* revoked before it came.
Locals(o, d, t, s, e, x) ==
  [op |-> o, dev |-> d, tok |-> t, new |-> None, sid |-> s, era |-> e,
   doomed |-> x]

NoReq  == Locals("none", None, None, None, 0, FALSE)
NoSock == [st |-> "none", sid |-> None, late |-> FALSE]

\* What is referred to exists: foreign keys of the rows, and the rows a cookie,
\* an access token, a socket or a request in the middle of a handler names.
References ==
  /\ \A t \in Token : token[t] # "none" =>
       tokSess[t] \in Session /\ sess[tokSess[t]] # "none"
  /\ \A t \in expired : token[t] # "none"
  /\ \A d \in Device :
       /\ cookie[d] # None => token[cookie[d]] # "none"
       /\ jwt[d] # None => sess[jwt[d]] # "none"
  /\ \A k \in Socket : sock[k].st # "none" => sock[k].sid \in Session
  /\ \A r \in Req :
       /\ pc[r] \in LoginSteps => req[r].op = "login"
       /\ pc[r] \in RefreshSteps => req[r].op = "refresh"
       /\ pc[r] = "deliver" => req[r].op \in {"login", "refresh"}
       /\ pc[r] = "write" => req[r].op \in {"password", "delete"}
       /\ pc[r] \in RefreshSteps \/ req[r].op \in {"refresh", "reuse"} =>
            req[r].tok \in Token /\ token[req[r].tok] # "none"
       /\ pc[r] \in {"loginToken", "rfSession", "rfUser", "rfClaim", "rfIssue",
                     "deliver"} \/ req[r].op \in {"end", "logout", "others"} =>
            req[r].sid \in Session /\ sess[req[r].sid] # "none"
       /\ pc[r] \in RefreshSteps \ {"rfFind"} => req[r].sid = tokSess[req[r].tok]
       /\ pc[r] \in {"deliver", "clear"} => req[r].dev \in Device
       /\ req[r].op \in {"login", "refresh", "logout", "all", "reuse"} =>
            req[r].dev \in Device
       /\ pc[r] = "deliver" => req[r].new \in Token /\ token[req[r].new] # "none"

LocalsType ==
  [op : Ops, dev : Device \cup {None}, tok : Token \cup {None},
   new : Token \cup {None}, sid : Session \cup {None}, era : Era,
   doomed : BOOLEAN]
SocketType ==
  [st : {"none", "checked", "open"}, sid : Session \cup {None}, late : BOOLEAN]

Types ==
  /\ sess \in [Session -> {"none", "live", "revoked"}]
  /\ token \in [Token -> {"none", "active", "recent", "old", "deleted"}]
  /\ tokSess \in [Token -> Session \cup {None}]
  /\ expired \in SUBSET Token
  /\ deleted \in BOOLEAN
  /\ era \in Era
  /\ cookie \in [Device -> Token \cup {None}]
  /\ jwt \in [Device -> Session \cup {None}]
  /\ pc \in [Req -> Steps]
  /\ req \in [Req -> LocalsType]
  /\ sock \in [Socket -> SocketType]
  /\ readEra \in [Session -> Era]
  /\ bornEra \in [Session -> Era]
  /\ endedBy \in [Token -> {"no", "rotation", "one", "many"}]
  /\ lostRot \in SUBSET Token
  /\ stranded \in SUBSET Session

\* Each variable has its type, and what is referred to exists (schema.prisma's
\* relations, and the ids the handlers of auth/service.ts carry along).
TypeOK == Types /\ References

Init ==
  /\ sess = [s \in Session |-> "none"]
  /\ token = [t \in Token |-> "none"]
  /\ tokSess = [t \in Token |-> None]
  /\ expired = {}
  /\ deleted = FALSE
  /\ era = 0
  /\ cookie = [d \in Device |-> None]
  /\ jwt = [d \in Device |-> None]
  /\ pc = [r \in Req |-> "idle"]
  /\ req = [r \in Req |-> NoReq]
  /\ sock = [k \in Socket |-> NoSock]
  /\ readEra = [s \in Session |-> 0]
  /\ bornEra = [s \in Session |-> 0]
  /\ endedBy = [t \in Token |-> "no"]
  /\ lostRot = {}
  /\ stranded = {}

(***************************************************************************)
(* Helpers.                                                                *)
(***************************************************************************)
Step(r, p) == pc' = [pc EXCEPT ![r] = p]

Finish(r) ==
  /\ Step(r, "idle")
  /\ req' = [req EXCEPT ![r] = NoReq]

\* The check both middlewares make: the access token's session is live and
\* its account is not soft-deleted.
Authenticated(d) ==
  /\ jwt[d] # None
  /\ sess[jwt[d]] = "live"
  /\ ~deleted

\* Mutant of Targets: a password change keeps the caller signed in.
Targets_KeepCaller(r) ==
  CASE req[r].op \in {"end", "logout"} -> {req[r].sid}
    [] req[r].op = "others"            -> Session \ {req[r].sid}
    [] req[r].op = "password" /\ req[r].dev # None
                                       -> Session \ {jwt[req[r].dev]}
    [] OTHER                           -> Session

\* The sessions a revocation is about: the where clause of its two updates and
\* the filter of its disconnectSockets call.
Targets(r) ==
  CASE req[r].op \in {"end", "logout"} -> {req[r].sid}
    [] req[r].op = "others"            -> Session \ {req[r].sid}
    [] OTHER                           -> Session

(***************************************************************************)
(* Login: the user row is read and the password verified (LoginStart), then*)
(* issueTokens creates the session row and the first refresh token.  With  *)
(* two-factor on the same steps run with a challenge between the first two.*)
(***************************************************************************)
LoginStart(r, d) ==
  /\ pc[r] = "idle"
  /\ ~deleted
  /\ Step(r, "loginSession")
  /\ req' = [req EXCEPT ![r] = Locals("login", d, None, None, era, FALSE)]
  /\ UNCHANGED <<rows, deleted, era, client, sock, hist>>

LoginSession(r) ==
  /\ pc[r] = "loginSession"
  /\ \E s \in Session :
       /\ sess[s] = "none"
       /\ sess' = [sess EXCEPT ![s] = "live"]
       /\ req' = [req EXCEPT ![r].sid = s]
       /\ readEra' = [readEra EXCEPT ![s] = req[r].era]
       /\ bornEra' = [bornEra EXCEPT ![s] = era]
  /\ Step(r, "loginToken")
  /\ UNCHANGED <<token, tokSess, expired, deleted, era, client, sock, endedBy,
                 lostRot, stranded>>

\* createToken, the last step of issueTokens for a login and for a rotation.
\* (touchSession before it writes only Session.expiresAt, which nothing reads
\* to decide anything.)
IssueToken(r, p) ==
  /\ pc[r] = p
  /\ \E t \in Token :
       /\ token[t] = "none"
       /\ token' = [token EXCEPT ![t] = "active"]
       /\ tokSess' = [tokSess EXCEPT ![t] = req[r].sid]
       /\ req' = [req EXCEPT ![r].new = t]
  /\ Step(r, "deliver")
  /\ UNCHANGED <<sess, expired, deleted, era, client, sock, hist>>

LoginToken(r) == IssueToken(r, "loginToken")

(***************************************************************************)
(* refreshAccessToken.                                                     *)
(***************************************************************************)
RefreshStart(r, d) ==
  /\ pc[r] = "idle"
  /\ cookie[d] # None
  /\ Step(r, "rfFind")
  /\ req' = [req EXCEPT ![r] =
               Locals("refresh", d, cookie[d], None, 0,
                      sess[tokSess[cookie[d]]] = "revoked")]
  /\ UNCHANGED <<rows, deleted, era, client, sock, hist>>

\* Mutant of RefreshFind: no grace window.
RefreshFind_NoGrace(r) ==
  /\ pc[r] = "rfFind"
  /\ LET t == req[r].tok IN
       \/ /\ token[t] \in {"recent", "old"}
          /\ Step(r, "sessions")
          /\ req' = [req EXCEPT ![r].op = "reuse"]
       \/ /\ token[t] = "active"
          /\ Step(r, "rfSession")
          /\ req' = [req EXCEPT ![r].sid = tokSess[t]]
  /\ UNCHANGED <<rows, deleted, era, client, sock, hist>>

RefreshFind(r) ==
  /\ pc[r] = "rfFind"
  /\ LET t == req[r].tok IN
       \/ /\ token[t] = "deleted"
          /\ Step(r, "clear")
          /\ UNCHANGED req
       \/ /\ token[t] = "recent"        \* REFRESH_TOKEN_ROTATED
          /\ Finish(r)
       \/ /\ token[t] = "old"           \* reuse: revoke everything
          /\ Step(r, "sessions")
          /\ req' = [req EXCEPT ![r].op = "reuse"]
       \/ /\ token[t] = "active"
          /\ t \in expired
          /\ Step(r, "clear")
          /\ UNCHANGED req
       \/ /\ token[t] = "active"
          /\ t \notin expired
          /\ Step(r, "rfSession")
          /\ req' = [req EXCEPT ![r].sid = tokSess[t]]
  /\ UNCHANGED <<rows, deleted, era, client, sock, hist>>

\* Mutant of RefreshSession: the session row is not looked at.
RefreshSession_Unchecked(r) ==
  /\ pc[r] = "rfSession"
  /\ Step(r, "rfUser")
  /\ UNCHANGED <<rows, deleted, era, client, req, sock, hist>>

RefreshSession(r) ==
  /\ pc[r] = "rfSession"
  /\ Step(r, IF sess[req[r].sid] = "live" THEN "rfUser" ELSE "clear")
  /\ UNCHANGED <<rows, deleted, era, client, req, sock, hist>>

RefreshUser(r) ==
  /\ pc[r] = "rfUser"
  /\ Step(r, IF deleted THEN "clear" ELSE "rfClaim")
  /\ UNCHANGED <<rows, deleted, era, client, req, sock, hist>>

\* Mutant of RefreshClaim: the update has no "revokedAt: null" condition.
RefreshClaim_Unconditional(r) ==
  /\ pc[r] = "rfClaim"
  /\ token' = [token EXCEPT ![req[r].tok] = "recent"]
  /\ endedBy' = [endedBy EXCEPT ![req[r].tok] = "rotation"]
  /\ Step(r, "rfIssue")
  /\ UNCHANGED <<sess, tokSess, expired, deleted, era, client, req, sock, born,
                 lostRot, stranded>>

\* revokeIfActive: one conditional update; whoever loses it answers ROTATED.
RefreshClaim(r) ==
  /\ pc[r] = "rfClaim"
  /\ IF token[req[r].tok] = "active"
       THEN /\ token' = [token EXCEPT ![req[r].tok] = "recent"]
            /\ endedBy' = [endedBy EXCEPT ![req[r].tok] = "rotation"]
            /\ Step(r, "rfIssue")
            /\ UNCHANGED req
       ELSE /\ Finish(r)
            /\ UNCHANGED <<token, endedBy>>
  /\ UNCHANGED <<sess, tokSess, expired, deleted, era, client, sock, born,
                 lostRot, stranded>>

RefreshIssue(r) == IssueToken(r, "rfIssue")

(***************************************************************************)
(* Answers.  setRefreshCookie and clearRefreshCookie act when the response *)
(* reaches the browser, in whatever order responses arrive.                *)
(***************************************************************************)
Deliver(r) ==
  /\ pc[r] = "deliver"
  /\ cookie' = [cookie EXCEPT ![req[r].dev] = req[r].new]
  /\ jwt' = [jwt EXCEPT ![req[r].dev] = req[r].sid]
  /\ Finish(r)
  /\ UNCHANGED <<rows, deleted, era, sock, hist>>

Clear(r) ==
  /\ pc[r] = "clear"
  /\ cookie' = [cookie EXCEPT ![req[r].dev] = None]
  /\ Finish(r)
  /\ UNCHANGED <<rows, deleted, era, jwt, sock, hist>>

\* The response is lost on its way.
LoseResponse(r) ==
  /\ pc[r] \in {"deliver", "clear"}
  /\ Finish(r)
  /\ lostRot' = IF pc[r] = "deliver" /\ req[r].op = "refresh"
                  THEN lostRot \cup {req[r].tok} ELSE lostRot
  /\ UNCHANGED <<rows, deleted, era, client, sock, born, endedBy, stranded>>

(***************************************************************************)
(* Revocation.  Every form of it is: (a write to the user row,) an update  *)
(* of the sessions, an update of their tokens, disconnectSockets - awaited *)
(* one after the other, outside any transaction.                           *)
(***************************************************************************)
EndStart(r, d, op, s) ==
  /\ pc[r] = "idle"
  /\ Authenticated(d)
  /\ Step(r, "sessions")
  /\ req' = [req EXCEPT ![r] = Locals(op, d, None, s, 0, FALSE)]
  /\ UNCHANGED <<rows, deleted, era, client, sock, hist>>

RevokeSession(r, d) ==
  \E s \in Session : sess[s] # "none" /\ EndStart(r, d, "end", s)
Logout(r, d)              == EndStart(r, d, "logout", jwt[d])
RevokeOtherSessions(r, d) == EndStart(r, d, "others", jwt[d])
RevokeAllSessions(r, d)   == EndStart(r, d, "all", None)

\* changePassword and deleteMe: the current password is verified, then the
\* user row is written by a later step.
CredentialStart(r, d, op) ==
  /\ pc[r] = "idle"
  /\ Authenticated(d)
  /\ era < MaxEra
  /\ Step(r, "write")
  /\ req' = [req EXCEPT ![r] = Locals(op, d, None, None, 0, FALSE)]
  /\ UNCHANGED <<rows, deleted, era, client, sock, hist>>

ChangePassword(r, d) == CredentialStart(r, d, "password")
DeleteMe(r, d)       == CredentialStart(r, d, "delete")

\* resetPassword proves itself by an emailed token, not by a session.
ResetPassword(r) ==
  /\ pc[r] = "idle"
  /\ ~deleted
  /\ era < MaxEra
  /\ Step(r, "write")
  /\ req' = [req EXCEPT ![r] = Locals("password", None, None, None, 0, FALSE)]
  /\ UNCHANGED <<rows, deleted, era, client, sock, hist>>

WriteUser(r) ==
  /\ pc[r] = "write"
  /\ era < MaxEra
  /\ era' = era + 1
  /\ deleted' = (deleted \/ req[r].op = "delete")
  /\ Step(r, "sessions")
  /\ UNCHANGED <<rows, client, req, sock, hist>>

\* The first update.  revokeSessionForUser counts the rows it changed: when
\* the session was not live its tokens are left alone, revokeSession answers
\* 404 and logout goes on to the sockets.
EndSessions(r) ==
  /\ pc[r] = "sessions"
  /\ LET hit == {s \in Targets(r) : sess[s] = "live"}
         one == req[r].op \in {"end", "logout"}
     IN  /\ sess' = [s \in Session |-> IF s \in hit THEN "revoked" ELSE sess[s]]
         /\ \/ /\ ~one \/ hit # {}
               /\ Step(r, "tokens")
               /\ UNCHANGED req
            \/ /\ one /\ hit = {}
               /\ req[r].op = "end"
               /\ Finish(r)
            \/ /\ one /\ hit = {}
               /\ req[r].op = "logout"
               /\ Step(r, "sockets")
               /\ UNCHANGED req
  /\ UNCHANGED <<token, tokSess, expired, deleted, era, client, sock, hist>>

\* Mutant of EndTokens: revokeSession forgets disconnectSockets.
EndTokens_NoDisconnect(r) ==
  /\ pc[r] = "tokens"
  /\ LET hit == {t \in Token : token[t] = "active" /\ tokSess[t] \in Targets(r)}
     IN  token' = [t \in Token |-> IF t \in hit THEN "recent" ELSE token[t]]
  /\ IF req[r].op = "end" THEN Finish(r) ELSE Step(r, "sockets") /\ UNCHANGED req
  /\ UNCHANGED <<sess, tokSess, expired, deleted, era, client, sock, hist>>

EndTokens(r) ==
  /\ pc[r] = "tokens"
  /\ LET hit == {t \in Token : token[t] = "active" /\ tokSess[t] \in Targets(r)}
         by  == IF req[r].op \in {"end", "logout"} THEN "one" ELSE "many"
     IN  /\ token' = [t \in Token |-> IF t \in hit THEN "recent" ELSE token[t]]
         /\ endedBy' = [t \in Token |-> IF t \in hit THEN by ELSE endedBy[t]]
  /\ Step(r, "sockets")
  /\ UNCHANGED <<sess, tokSess, expired, deleted, era, client, req, sock, born,
                 lostRot, stranded>>

\* disconnectSockets.  fetchSockets sees the connected sockets, not a handshake
\* still inside the auth middleware; a socket's session never changes, so
\* reading the list and disconnecting from it is one step.
EndSockets(r) ==
  /\ pc[r] = "sockets"
  /\ sock' = [k \in Socket |-> IF sock[k].st = "open" /\ sock[k].sid \in Targets(r)
                                 THEN NoSock ELSE sock[k]]
  /\ IF req[r].op \in {"logout", "all", "reuse"}
       THEN Step(r, "clear") /\ UNCHANGED req
       ELSE Finish(r)
  /\ UNCHANGED <<rows, deleted, era, client, hist>>

(***************************************************************************)
(* A request stops between two of its steps: the server dies, or a database*)
(* call rejects.  In the second case the refresh controller still answers, *)
(* and clears the cookie.                                                  *)
(***************************************************************************)
Left(r) ==
  CASE pc[r] = "sessions" /\ req[r].op \in {"password", "delete"} ->
         {s \in Session : sess[s] = "live"}
    [] pc[r] \in {"tokens", "sockets"} ->
         {s \in Targets(r) : sess[s] = "revoked"}
    [] OTHER -> {}

Abort(r) ==
  /\ pc[r] \in LoginSteps \cup RefreshSteps \cup EndSteps
  /\ stranded' = stranded \cup Left(r)
  /\ lostRot' = IF pc[r] = "rfIssue" THEN lostRot \cup {req[r].tok} ELSE lostRot
  /\ \/ Finish(r)
     \/ /\ req[r].op \in {"refresh", "reuse"}
        /\ Step(r, "clear")
        /\ UNCHANGED req
  /\ UNCHANGED <<rows, deleted, era, client, sock, born, endedBy>>

(***************************************************************************)
(* Sockets: socketAuthMiddleware reads the session row, then the server    *)
(* registers the connection.                                               *)
(***************************************************************************)
SocketCheck(k, d) ==
  /\ sock[k].st = "none"
  /\ Authenticated(d)
  /\ sock' = [sock EXCEPT ![k] = [st |-> "checked", sid |-> jwt[d],
                                  late |-> FALSE]]
  /\ UNCHANGED <<rows, deleted, era, client, pc, req, hist>>

SocketOpen(k) ==
  /\ sock[k].st = "checked"
  /\ sock' = [sock EXCEPT ![k].st = "open",
                          ![k].late = (sess[sock[k].sid] = "revoked")]
  /\ UNCHANGED <<rows, deleted, era, client, pc, req, hist>>

SocketClose(k) ==
  /\ sock[k].st # "none"
  /\ sock' = [sock EXCEPT ![k] = NoSock]
  /\ UNCHANGED <<rows, deleted, era, client, pc, req, hist>>

(***************************************************************************)
(* Time, the expired-token job and account recovery.                       *)
(***************************************************************************)
\* 30 seconds have passed since the token was revoked.  With Timely, no request
\* that presented it is still being served or answered.
Age(t) ==
  /\ token[t] = "recent"
  /\ Timely => \A r \in Req : req[r].tok # t
  /\ token' = [token EXCEPT ![t] = "old"]
  /\ UNCHANGED <<sess, tokSess, expired, deleted, era, client, pc, req, sock,
                 hist>>

Expire(t) ==
  /\ token[t] \in {"active", "recent", "old"}
  /\ t \in Expiring \ expired
  /\ expired' = expired \cup {t}
  /\ UNCHANGED <<sess, token, tokSess, deleted, era, client, pc, req, sock, hist>>

\* jobs/expired-refresh-tokens: deleteExpired.
DeleteExpired ==
  /\ \E t \in expired : token[t] # "deleted"
  /\ token' = [t \in Token |-> IF t \in expired THEN "deleted" ELSE token[t]]
  /\ UNCHANGED <<sess, tokSess, expired, deleted, era, client, pc, req, sock,
                 hist>>

\* verifyRecovery: restoreDeleted.
Restore ==
  /\ deleted
  /\ deleted' = FALSE
  /\ UNCHANGED <<rows, era, client, pc, req, sock, hist>>

(***************************************************************************)
(* The specification.                                                      *)
(***************************************************************************)
Begin(r) ==
  \/ ResetPassword(r)
  \/ \E d \in Device :
       \/ LoginStart(r, d)
       \/ RefreshStart(r, d)
       \/ RevokeSession(r, d)
       \/ Logout(r, d)
       \/ RevokeOtherSessions(r, d)
       \/ RevokeAllSessions(r, d)
       \/ ChangePassword(r, d)
       \/ DeleteMe(r, d)

Continue(r) ==
  \/ LoginSession(r) \/ LoginToken(r)
  \/ RefreshFind(r) \/ RefreshSession(r) \/ RefreshUser(r)
  \/ RefreshClaim(r) \/ RefreshIssue(r)
  \/ Deliver(r) \/ Clear(r)
  \/ WriteUser(r) \/ EndSessions(r) \/ EndTokens(r) \/ EndSockets(r)

Environment ==
  \/ \E r \in Req : LoseResponse(r) \/ Abort(r)
  \/ \E k \in Socket : SocketOpen(k) \/ SocketClose(k)
                         \/ \E d \in Device : SocketCheck(k, d)
  \/ \E t \in Token : Age(t) \/ Expire(t)
  \/ DeleteExpired
  \/ Restore

Next == (\E r \in Req : Begin(r) \/ Continue(r)) \/ Environment

Spec == Init /\ [][Next]_vars

\* A handler that awaits a reply is resumed: the database answers or rejects.
Fairness == \A r \in Req : WF_vars(Continue(r))

FairSpec == Spec /\ Fairness

(***************************************************************************)
(* Properties.                                                             *)
(***************************************************************************)
HoldsToken(t, s) == token[t] = "active" /\ tokSess[t] = s
Issuing(r, s)    == pc[r] \in {"loginToken", "rfIssue"} /\ req[r].sid = s

\* "Concurrent refreshes rotate it exactly once": however many requests race
\* over a session, at most one of its refresh tokens is unrevoked, at most one
\* request is about to create one, and never both (revokeIfActive, issueTokens).
RotationUnique ==
  \A s \in Session :
    /\ \A t, u \in Token : HoldsToken(t, s) /\ HoldsToken(u, s) => t = u
    /\ \A r, q \in Req : Issuing(r, s) /\ Issuing(q, s) => r = q
    /\ \A t \in Token, r \in Req : ~(HoldsToken(t, s) /\ Issuing(r, s))

\* A refresh that reaches the server after its session was revoked is never
\* given tokens, although the session row and the token rows are written by
\* two statements (refreshAccessToken reads the session again).
RefreshAfterEndRefused ==
  \A r \in Req : pc[r] \in {"rfUser", "rfClaim", "rfIssue", "deliver"}
                   => ~req[r].doomed

\* Every revocation gets to the sockets: one that is still open on a revoked
\* session will be closed by the request revoking it, or was opened by a
\* handshake that overtook the revocation, or that request died
\* (disconnectSockets is called by every path that revokes a session).
Covered(s) == \E r \in Req : pc[r] \in {"tokens", "sockets"} /\ s \in Targets(r)

RevocationReachesSockets ==
  \A k \in Socket :
    (sock[k].st = "open" /\ ~sock[k].late /\ sess[sock[k].sid] = "revoked")
      => (sock[k].sid \in stranded \/ Covered(sock[k].sid))

\* Changing or resetting the password and deleting the account end every
\* session that existed when the user row was written, also those that log in
\* or refresh meanwhile (changePassword, resetPassword, deleteMe).
Ending == \E r \in Req : pc[r] = "sessions" /\ req[r].op \in {"password", "delete"}

WriteEndsOldSessions ==
  \A s \in Session :
    (sess[s] = "live" /\ bornEra[s] < era) => (s \in stranded \/ Ending)

\* With requests faster than the grace window, reuse detection strikes only a
\* token whose rotation was never answered or that was revoked with its
\* session: two tabs, retries and reordered responses do not trigger it
\* (refreshTokenReuseGraceMs, REFRESH_TOKEN_ROTATED).
ReuseHasCause ==
  \A r \in Req : (pc[r] = "sessions" /\ req[r].op = "reuse")
                   => \/ req[r].tok \in lostRot
                      \/ endedBy[req[r].tok] # "rotation"

\* A socket connected before its session was revoked is closed in the end,
\* unless the request that revoked it died (disconnectSockets).
SocketsEventuallyDrop ==
  \A k \in Socket, s \in Session :
    (sock[k].st = "open" /\ ~sock[k].late /\ sock[k].sid = s
       /\ sess[s] = "revoked")
      ~> (sock[k].st # "open" \/ sock[k].sid # s \/ s \in stranded)

\* A session's refresh tokens and the requests issuing them form one chain.
Baton ==
  [s \in Session |->
     IF sess[s] = "none" THEN "unborn"
     ELSE IF \E r \in Req : Issuing(r, s) THEN "server"
     ELSE IF \E t \in Token : HoldsToken(t, s) THEN "device"
     ELSE "dropped"]

Chain == INSTANCE RotationChain WITH baton <- Baton

\* Each session follows the abstract chain: its right to refresh is in one
\* place at a time, and once dropped it never comes back (issueTokens,
\* refreshAccessToken, the revoke* updates, deleteExpired).
ImplementsChain == Chain!ChainSpec
=============================================================================
