------------------------- MODULE AuthSessionsProofs -------------------------
(***************************************************************************)
(* Proofs about AuthSessions, for every number of devices, sessions,       *)
(* tokens, requests and sockets.                                           *)
(*                                                                         *)
(* TypeOK (types, and the existence of what rows and requests refer to) is *)
(* inductive.  Given it, RotationUnique, DoomedInv, RevocationReachesSockets*)
(* and WriteEndsOldSessions are each preserved by every step.              *)
(***************************************************************************)
EXTENDS AuthSessions, TLAPS

(***************************************************************************)
(* What the requests carry.                                                *)
(***************************************************************************)
LEMMA EraStart == 0 \in Era
BY ConstantsAssumption DEF Era

LEMMA EraNext == ASSUME era \in Era, era < MaxEra PROVE era + 1 \in Era
BY ConstantsAssumption DEF Era

LEMMA OpsIn ==
  {"none", "login", "refresh", "end", "logout", "others", "all", "password",
   "delete", "reuse"} \subseteq Ops
BY DEF Ops, EndOps

LEMMA StepsIn ==
  {"idle", "deliver", "clear", "loginSession", "loginToken", "rfFind",
   "rfSession", "rfUser", "rfClaim", "rfIssue", "write", "sessions", "tokens",
   "sockets"} \subseteq Steps
BY DEF Steps, LoginSteps, RefreshSteps, EndSteps

\* Locals and NoReq build well-typed request records.
LEMMA LocalsTyped ==
  ASSUME NEW o \in Ops, NEW d \in Device \cup {None},
         NEW t \in Token \cup {None}, NEW s \in Session \cup {None},
         NEW e \in Era, NEW x \in BOOLEAN
  PROVE  Locals(o, d, t, s, e, x) \in LocalsType
BY DEF LocalsType, Locals

LEMMA NoReqTyped == NoReq \in LocalsType
BY EraStart DEF NoReq, Locals, LocalsType, Ops

LEMMA NoSockTyped == NoSock \in SocketType
BY DEF NoSock, SocketType

\* Updating one field of a request record keeps its type.
LEMMA UpdateTyped ==
  ASSUME NEW q \in LocalsType
  PROVE  /\ q.era \in Era
         /\ \A s \in Session \cup {None} : [q EXCEPT !.sid = s] \in LocalsType
         /\ \A t \in Token \cup {None} : [q EXCEPT !.new = t] \in LocalsType
         /\ [q EXCEPT !.op = "reuse"] \in LocalsType
BY DEF LocalsType, Ops, EndOps

(***************************************************************************)
(* Types.                                                                  *)
(***************************************************************************)
LEMMA TypesInit == Init => Types
<1> SUFFICES ASSUME Init PROVE Types
  OBVIOUS
<1>1. pc \in [Req -> Steps]
  BY StepsIn DEF Init
<1>2. req \in [Req -> LocalsType] /\ sock \in [Socket -> SocketType]
  BY NoReqTyped, NoSockTyped DEF Init
<1>3. readEra \in [Session -> Era] /\ bornEra \in [Session -> Era] /\ era \in Era
  BY EraStart DEF Init
<1>4. /\ sess \in [Session -> {"none", "live", "revoked"}]
      /\ token \in [Token -> {"none", "active", "recent", "old", "deleted"}]
      /\ tokSess \in [Token -> Session \cup {None}]
      /\ cookie \in [Device -> Token \cup {None}]
      /\ jwt \in [Device -> Session \cup {None}]
      /\ endedBy \in [Token -> {"no", "rotation", "one", "many"}]
  BY DEF Init
<1>5. /\ expired \in SUBSET Token
      /\ deleted \in BOOLEAN
      /\ lostRot \in SUBSET Token
      /\ stranded \in SUBSET Session
  BY DEF Init
<1> QED
  BY <1>1, <1>2, <1>3, <1>4, <1>5 DEF Types

\* Every action keeps each variable in its type.
LEMMA TypesStep == TypeOK /\ [Next]_vars => Types'
<1> SUFFICES ASSUME Types, References, [Next]_vars PROVE Types'
  BY DEF TypeOK
<1>1. ASSUME NEW r \in Req, LoginSession(r) PROVE Types'
  <2>1. PICK s \in Session :
          /\ sess' = [sess EXCEPT ![s] = "live"]
          /\ req' = [req EXCEPT ![r].sid = s]
          /\ readEra' = [readEra EXCEPT ![s] = req[r].era]
          /\ bornEra' = [bornEra EXCEPT ![s] = era]
    BY <1>1 DEF LoginSession
  <2>2. req[r] \in LocalsType /\ era \in Era
    BY DEF Types
  <2>3. [req[r] EXCEPT !.sid = s] \in LocalsType /\ req[r].era \in Era
    BY <2>2, UpdateTyped
  <2>4. req' \in [Req -> LocalsType]
    BY <2>1, <2>3 DEF Types
  <2>5. readEra' \in [Session -> Era] /\ bornEra' \in [Session -> Era]
    BY <2>1, <2>2, <2>3 DEF Types
  <2>6. sess' \in [Session -> {"none", "live", "revoked"}]
    BY <2>1 DEF Types
  <2>7. pc' \in [Req -> Steps]
    BY <1>1, StepsIn DEF LoginSession, Step, Types
  <2> QED
    BY <1>1, <2>4, <2>5, <2>6, <2>7 DEF LoginSession, client, Types
<1>2. ASSUME NEW r \in Req, NEW p \in {"loginToken", "rfIssue"}, IssueToken(r, p)
      PROVE  Types'
  <2>1. PICK t \in Token :
          /\ token' = [token EXCEPT ![t] = "active"]
          /\ tokSess' = [tokSess EXCEPT ![t] = req[r].sid]
          /\ req' = [req EXCEPT ![r].new = t]
    BY <1>2 DEF IssueToken
  <2>2. req[r] \in LocalsType
    BY DEF Types
  <2>3. [req[r] EXCEPT !.new = t] \in LocalsType /\ req[r].sid \in Session \cup {None}
    BY <2>2, UpdateTyped DEF LocalsType
  <2>4. req' \in [Req -> LocalsType]
    BY <2>1, <2>3 DEF Types
  <2>5. /\ token' \in [Token -> {"none", "active", "recent", "old", "deleted"}]
        /\ tokSess' \in [Token -> Session \cup {None}]
    BY <2>1, <2>3 DEF Types
  <2>6. pc' \in [Req -> Steps]
    BY <1>2, StepsIn DEF IssueToken, Step, Types
  <2> QED
    BY <1>2, <2>4, <2>5, <2>6 DEF IssueToken, client, hist, Types
<1>3. ASSUME NEW r \in Req, RefreshFind(r) PROVE Types'
  <2>1. /\ req[r] \in LocalsType
        /\ req[r].tok \in Token
    <3>1. pc[r] \in RefreshSteps
      BY <1>3 DEF RefreshFind, RefreshSteps
    <3> QED
      BY <3>1 DEF Types, References
  <2>2. tokSess[req[r].tok] \in Session \cup {None}
    BY <2>1 DEF Types
  <2>3. /\ [req[r] EXCEPT !.sid = tokSess[req[r].tok]] \in LocalsType
        /\ [req[r] EXCEPT !.op = "reuse"] \in LocalsType
    BY <2>1, <2>2, UpdateTyped
  <2>4. req' \in [Req -> LocalsType]
    BY <1>3, <2>3, NoReqTyped DEF RefreshFind, Finish, Types
  <2>5. pc' \in [Req -> Steps]
    BY <1>3, StepsIn DEF RefreshFind, Step, Finish, Types
  <2> QED
    BY <1>3, <2>4, <2>5 DEF RefreshFind, rows, client, hist, Types
<1>4. ASSUME NEW r \in Req, RefreshClaim(r) PROVE Types'
  <2>1. req' \in [Req -> LocalsType]
    BY <1>4, NoReqTyped DEF RefreshClaim, Finish, Types
  <2>2. pc' \in [Req -> Steps]
    BY <1>4, StepsIn DEF RefreshClaim, Step, Finish, Types
  <2>3. /\ token' \in [Token -> {"none", "active", "recent", "old", "deleted"}]
        /\ endedBy' \in [Token -> {"no", "rotation", "one", "many"}]
    BY <1>4 DEF RefreshClaim, Types
  <2> QED
    BY <1>4, <2>1, <2>2, <2>3 DEF RefreshClaim, client, born, Types
<1>5. ASSUME NEW r \in Req, WriteUser(r) PROVE Types'
  <2>1. era' \in Era
    BY <1>5, EraNext DEF WriteUser, Types
  <2>2. pc' \in [Req -> Steps]
    BY <1>5, StepsIn DEF WriteUser, Step, Types
  <2>3. deleted' \in BOOLEAN
    BY <1>5 DEF WriteUser, Types
  <2> QED
    BY <1>5, <2>1, <2>2, <2>3 DEF WriteUser, rows, client, hist, Types
<1>6. ASSUME NEW r \in Req, EndSessions(r) PROVE Types'
  <2>1. req' \in [Req -> LocalsType]
    BY <1>6, NoReqTyped DEF EndSessions, Finish, Types
  <2>2. pc' \in [Req -> Steps]
    BY <1>6, StepsIn DEF EndSessions, Step, Finish, Types
  <2>3. sess' \in [Session -> {"none", "live", "revoked"}]
    BY <1>6 DEF EndSessions, Types
  <2> QED
    BY <1>6, <2>1, <2>2, <2>3 DEF EndSessions, client, hist, Types
<1>7. ASSUME NEW r \in Req, EndSockets(r) PROVE Types'
  <2>1. req' \in [Req -> LocalsType]
    BY <1>7, NoReqTyped DEF EndSockets, Finish, Types
  <2>2. pc' \in [Req -> Steps]
    BY <1>7, StepsIn DEF EndSockets, Step, Finish, Types
  <2>3. sock' \in [Socket -> SocketType]
    BY <1>7, NoSockTyped DEF EndSockets, Types
  <2> QED
    BY <1>7, <2>1, <2>2, <2>3 DEF EndSockets, rows, client, hist, Types
<1>8. ASSUME NEW r \in Req, Abort(r) PROVE Types'
  <2>1. req' \in [Req -> LocalsType]
    BY <1>8, NoReqTyped DEF Abort, Finish, Types
  <2>2. pc' \in [Req -> Steps]
    BY <1>8, StepsIn DEF Abort, Step, Finish, Types
  <2>3. lostRot' \in SUBSET Token
    BY <1>8 DEF Abort, References, RefreshSteps, Types
  <2>4. stranded' \in SUBSET Session
    <3>1. Left(r) \subseteq Session
      <4>1. Targets(r) \subseteq Session
        <5>1. CASE req[r].op \in {"end", "logout"}
          BY <5>1 DEF Targets, References
        <5>2. CASE req[r].op \notin {"end", "logout"}
          BY <5>2 DEF Targets
        <5> QED
          BY <5>1, <5>2
      <4> QED
        BY <4>1 DEF Left
    <3> QED
      BY <1>8, <3>1 DEF Abort, Types
  <2> QED
    BY <1>8, <2>1, <2>2, <2>3, <2>4 DEF Abort, rows, client, born, Types
<1>9. ASSUME NEW r \in Req, NEW d \in Device, RevokeSession(r, d) PROVE Types'
  <2>1. PICK s \in Session : EndStart(r, d, "end", s)
    BY <1>9 DEF RevokeSession
  <2>2. Locals("end", d, None, s, 0, FALSE) \in LocalsType
    BY OpsIn, EraStart, LocalsTyped
  <2>3. req' \in [Req -> LocalsType]
    BY <2>1, <2>2 DEF EndStart, Types
  <2>4. pc' \in [Req -> Steps]
    BY <2>1, StepsIn DEF EndStart, Step, Types
  <2> QED
    BY <2>1, <2>3, <2>4 DEF EndStart, rows, client, hist, Types
<1>10. ASSUME NEW k \in Socket, SocketOpen(k) PROVE Types'
  <2>1. \A q \in SocketType, b \in BOOLEAN :
          [[q EXCEPT !.st = "open"] EXCEPT !.late = b] \in SocketType
    BY DEF SocketType
  <2>2. sock[k] \in SocketType /\ (sess[sock[k].sid] = "revoked") \in BOOLEAN
    BY DEF Types
  <2>3. sock' = [sock EXCEPT ![k] =
           [[sock[k] EXCEPT !.st = "open"]
              EXCEPT !.late = (sess[sock[k].sid] = "revoked")]]
    BY <1>10 DEF SocketOpen, Types
  <2>4. sock' \in [Socket -> SocketType]
    BY <2>1, <2>2, <2>3 DEF Types
  <2> QED
    BY <1>10, <2>4 DEF SocketOpen, rows, client, hist, Types
<1>11. ASSUME NEW r \in Req, RefreshSession(r) PROVE Types'
  BY <1>11, StepsIn
  DEF Types, References, RefreshSession, Step, rows, client, hist
<1>12. ASSUME NEW r \in Req, RefreshUser(r) PROVE Types'
  BY <1>12, StepsIn
  DEF Types, References, RefreshUser, Step, rows, client, hist
<1>13. ASSUME NEW r \in Req, Deliver(r) PROVE Types'
  BY <1>13, NoReqTyped, StepsIn
  DEF Types, References, Deliver, Step, Finish, rows, hist, LocalsType
<1>14. ASSUME NEW r \in Req, Clear(r) PROVE Types'
  BY <1>14, NoReqTyped, StepsIn
  DEF Types, References, Clear, Step, Finish, rows, hist
<1>15. ASSUME NEW r \in Req, EndTokens(r) PROVE Types'
  BY <1>15, StepsIn
  DEF Types, References, EndTokens, Step, client, born
<1>16. ASSUME NEW r \in Req, LoseResponse(r) PROVE Types'
  BY <1>16, NoReqTyped, StepsIn
  DEF Types, References, LoseResponse, Step, Finish, rows, client, born
<1>17. ASSUME NEW r \in Req, ResetPassword(r) PROVE Types'
  BY <1>17, EraStart, LocalsTyped, OpsIn, StepsIn
  DEF Types, References, ResetPassword, Step, rows, client, hist
<1>18. ASSUME NEW r \in Req, NEW d \in Device, LoginStart(r, d) PROVE Types'
  BY <1>18, EraStart, LocalsTyped, OpsIn, StepsIn
  DEF Types, References, LoginStart, Step, rows, client, hist
<1>19. ASSUME NEW r \in Req, NEW d \in Device, RefreshStart(r, d) PROVE Types'
  BY <1>19, EraStart, LocalsTyped, OpsIn, StepsIn
  DEF Types, References, RefreshStart, Step, rows, client, hist
<1>20. ASSUME NEW r \in Req, NEW d \in Device, Logout(r, d) PROVE Types'
  BY <1>20, EraStart, LocalsTyped, OpsIn, StepsIn
  DEF Types, References, Logout, EndStart, Authenticated, Step, rows, client,
    hist
<1>21. ASSUME NEW r \in Req, NEW d \in Device, RevokeOtherSessions(r, d) PROVE Types'
  BY <1>21, EraStart, LocalsTyped, OpsIn, StepsIn
  DEF Types, References, RevokeOtherSessions, EndStart, Authenticated, Step,
    rows, client, hist
<1>22. ASSUME NEW r \in Req, NEW d \in Device, RevokeAllSessions(r, d) PROVE Types'
  BY <1>22, EraStart, LocalsTyped, OpsIn, StepsIn
  DEF Types, References, RevokeAllSessions, EndStart, Step, rows, client, hist
<1>23. ASSUME NEW r \in Req, NEW d \in Device, ChangePassword(r, d) PROVE Types'
  BY <1>23, EraStart, LocalsTyped, OpsIn, StepsIn
  DEF Types, References, ChangePassword, CredentialStart, Step, rows, client,
    hist
<1>24. ASSUME NEW r \in Req, NEW d \in Device, DeleteMe(r, d) PROVE Types'
  BY <1>24, EraStart, LocalsTyped, OpsIn, StepsIn
  DEF Types, References, DeleteMe, CredentialStart, Step, rows, client, hist
<1>25. ASSUME NEW k \in Socket, SocketClose(k) PROVE Types'
  BY <1>25, NoSockTyped
  DEF Types, References, SocketClose, rows, client, hist
<1>26. ASSUME NEW k \in Socket, NEW d \in Device, SocketCheck(k, d) PROVE Types'
  BY <1>26, NoSockTyped
  DEF Types, References, SocketCheck, Authenticated, rows, client, hist,
    SocketType
<1>27. ASSUME NEW t \in Token, Age(t) PROVE Types'
  BY <1>27, StepsIn
  DEF Types, References, Age, client, hist
<1>28. ASSUME NEW t \in Token, Expire(t) PROVE Types'
  BY <1>28, StepsIn
  DEF Types, References, Expire, client, hist
<1>29. ASSUME DeleteExpired PROVE Types'
  BY <1>29, StepsIn
  DEF Types, References, DeleteExpired, client, hist
<1>30. ASSUME Restore PROVE Types'
  BY <1>30, StepsIn
  DEF Types, References, Restore, rows, client, hist
<1>31. CASE UNCHANGED vars
  BY <1>31 DEF vars, Types
<1> QED
  BY <1>1, <1>2, <1>3, <1>4, <1>5, <1>6, <1>7, <1>8, <1>9, <1>10, <1>11,
     <1>12, <1>13, <1>14, <1>15, <1>16, <1>17, <1>18, <1>19, <1>20, <1>21,
     <1>22, <1>23, <1>24, <1>25, <1>26, <1>27, <1>28, <1>29, <1>30, <1>31
     DEF Next, Begin, Continue, Environment, LoginToken, RefreshIssue

(***************************************************************************)
(* What rows, clients and requests refer to exists.                        *)
(***************************************************************************)
LEMMA ReferencesInit == Init => References
BY DEF Init, References, NoReq, NoSock, Locals, LoginSteps, RefreshSteps

LEMMA ReferencesStep == TypeOK /\ [Next]_vars => References'
<1> SUFFICES ASSUME Types, References, [Next]_vars PROVE References'
  BY DEF TypeOK
<1> USE ConstantsAssumption DEF LoginSteps, RefreshSteps, EndSteps, LocalsType,
                                SocketType
<1>1. ASSUME NEW r \in Req, LoginSession(r) PROVE References'
  BY <1>1, SMTT(30)
  DEF Types, References, LoginSession, Step, client
<1>2. ASSUME NEW r \in Req, NEW p \in {"loginToken", "rfIssue"},
           IssueToken(r, p)
      PROVE References'
  BY <1>2, SMTT(30)
  DEF Types, References, IssueToken, Step, client
<1>3. ASSUME NEW r \in Req, RefreshFind(r) PROVE References'
  <2>1. /\ req[r].tok \in Token /\ token[req[r].tok] # "none"
        /\ req[r].op = "refresh" /\ req[r].dev \in Device
    BY <1>3 DEF RefreshFind, References
  <2>2. tokSess[req[r].tok] \in Session /\ sess[tokSess[req[r].tok]] # "none"
    BY <2>1 DEF References
  <2>3. CASE UNCHANGED req /\ pc' = [pc EXCEPT ![r] = "clear"]
    BY <1>3, <2>1, <2>3, SMTT(30)
    DEF Types, References, RefreshFind, rows, client
  <2>4. CASE Finish(r)
    BY <1>3, <2>4, SMTT(30)
    DEF Types, References, RefreshFind, Finish, Step, NoReq, Locals, rows,
      client
  <2>5. CASE /\ pc' = [pc EXCEPT ![r] = "sessions"]
             /\ req' = [req EXCEPT ![r].op = "reuse"]
    BY <1>3, <2>1, <2>2, <2>5, SMTT(30)
    DEF Types, References, RefreshFind, rows, client
  <2>6. CASE /\ pc' = [pc EXCEPT ![r] = "rfSession"]
             /\ req' = [req EXCEPT ![r].sid = tokSess[req[r].tok]]
    BY <1>3, <2>1, <2>2, <2>6, SMTT(30)
    DEF Types, References, RefreshFind, rows, client
  <2> QED
    BY <1>3, <2>3, <2>4, <2>5, <2>6 DEF RefreshFind, Step
<1>4. ASSUME NEW r \in Req, RefreshSession(r) PROVE References'
  BY <1>4, SMTT(30)
  DEF Types, References, RefreshSession, Step, rows, client, born, hist
<1>5. ASSUME NEW r \in Req, RefreshUser(r) PROVE References'
  BY <1>5, SMTT(30)
  DEF Types, References, RefreshUser, Step, rows, client, born, hist
<1>6. ASSUME NEW r \in Req, RefreshClaim(r) PROVE References'
  BY <1>6, SMTT(30)
  DEF Types, References, RefreshClaim, Step, Finish, NoReq, Locals, rows,
    client, born, hist
<1>7. ASSUME NEW r \in Req, Deliver(r) PROVE References'
  BY <1>7, SMTT(30)
  DEF Types, References, Deliver, Step, Finish, NoReq, Locals, rows, client,
    born, hist
<1>8. ASSUME NEW r \in Req, Clear(r) PROVE References'
  BY <1>8, SMTT(30)
  DEF Types, References, Clear, Step, Finish, NoReq, Locals, rows, client,
    born, hist
<1>9. ASSUME NEW r \in Req, WriteUser(r) PROVE References'
  BY <1>9, SMTT(30)
  DEF Types, References, WriteUser, Step, rows, client, born, hist
<1>10. ASSUME NEW r \in Req, EndSessions(r) PROVE References'
  BY <1>10, SMTT(30)
  DEF Types, References, EndSessions, Targets, Step, Finish, NoReq, Locals,
    rows, client, born, hist
<1>11. ASSUME NEW r \in Req, EndTokens(r) PROVE References'
  BY <1>11, SMTT(30)
  DEF Types, References, EndTokens, Step, rows, client, born, hist
<1>12. ASSUME NEW r \in Req, EndSockets(r) PROVE References'
  BY <1>12, SMTT(30)
  DEF Types, References, EndSockets, Targets, NoSock, Step, Finish, NoReq,
    Locals, rows, client, born, hist
<1>13. ASSUME NEW r \in Req, LoseResponse(r) PROVE References'
  BY <1>13, SMTT(30)
  DEF Types, References, LoseResponse, Step, Finish, NoReq, Locals, rows,
    client, born, hist
<1>14. ASSUME NEW r \in Req, Abort(r) PROVE References'
  BY <1>14, SMTT(30)
  DEF Types, References, Abort, Step, Finish, NoReq, Locals, rows, client,
    born, hist
<1>15. ASSUME NEW r \in Req, ResetPassword(r) PROVE References'
  BY <1>15, SMTT(30)
  DEF Types, References, ResetPassword, Step, Locals, rows, client, hist
<1>16. ASSUME NEW r \in Req, NEW d \in Device, LoginStart(r, d) PROVE References'
  BY <1>16, SMTT(30)
  DEF Types, References, LoginStart, Step, Locals, rows, client, hist
<1>17. ASSUME NEW r \in Req, NEW d \in Device, RefreshStart(r, d) PROVE References'
  BY <1>17, SMTT(30)
  DEF Types, References, RefreshStart, Step, Locals, rows, client, hist
<1>18. ASSUME NEW r \in Req, NEW d \in Device, RevokeSession(r, d) PROVE References'
  BY <1>18, SMTT(30)
  DEF Types, References, RevokeSession, EndStart, Authenticated, Step, Locals,
    rows, client, hist
<1>19. ASSUME NEW r \in Req, NEW d \in Device, Logout(r, d) PROVE References'
  BY <1>19, SMTT(30)
  DEF Types, References, Logout, EndStart, Authenticated, Step, Locals, rows,
    client, hist
<1>20. ASSUME NEW r \in Req, NEW d \in Device, RevokeOtherSessions(r, d) PROVE References'
  BY <1>20, SMTT(30)
  DEF Types, References, RevokeOtherSessions, EndStart, Authenticated, Step,
    Locals, rows, client, hist
<1>21. ASSUME NEW r \in Req, NEW d \in Device, RevokeAllSessions(r, d) PROVE References'
  BY <1>21, SMTT(30)
  DEF Types, References, RevokeAllSessions, EndStart, Step, Locals, rows,
    client, hist
<1>22. ASSUME NEW r \in Req, NEW d \in Device, ChangePassword(r, d) PROVE References'
  BY <1>22, SMTT(30)
  DEF Types, References, ChangePassword, CredentialStart, Step, Locals, rows,
    client, hist
<1>23. ASSUME NEW r \in Req, NEW d \in Device, DeleteMe(r, d) PROVE References'
  BY <1>23, SMTT(30)
  DEF Types, References, DeleteMe, CredentialStart, Step, Locals, rows,
    client, hist
<1>24. ASSUME NEW k \in Socket, SocketOpen(k) PROVE References'
  BY <1>24, SMTT(30)
  DEF Types, References, SocketOpen, rows, client
<1>25. ASSUME NEW k \in Socket, SocketClose(k) PROVE References'
  BY <1>25, SMTT(30)
  DEF Types, References, SocketClose, NoSock, rows, client
<1>26. ASSUME NEW k \in Socket, NEW d \in Device, SocketCheck(k, d) PROVE References'
  BY <1>26, SMTT(30)
  DEF Types, References, SocketCheck, Authenticated, rows, client
<1>27. ASSUME NEW t \in Token, Age(t) PROVE References'
  BY <1>27, SMTT(30)
  DEF Types, References, Age, client
<1>28. ASSUME NEW t \in Token, Expire(t) PROVE References'
  BY <1>28, SMTT(30)
  DEF Types, References, Expire, client
<1>29. ASSUME DeleteExpired PROVE References'
  BY <1>29, SMTT(30)
  DEF Types, References, DeleteExpired, client
<1>30. ASSUME Restore PROVE References'
  BY <1>30, SMTT(30)
  DEF Types, References, Restore, rows, client
<1>31. CASE UNCHANGED vars
  BY <1>31 DEF vars, References
<1> QED
  BY <1>1, <1>2, <1>3, <1>4, <1>5, <1>6, <1>7, <1>8, <1>9, <1>10, <1>11,
     <1>12, <1>13, <1>14, <1>15, <1>16, <1>17, <1>18, <1>19, <1>20, <1>21,
     <1>22, <1>23, <1>24, <1>25, <1>26, <1>27, <1>28, <1>29, <1>30, <1>31
     DEF Next, Begin, Continue, Environment, LoginToken, RefreshIssue

\* Types and references hold in every reachable state.
THEOREM TypeCorrect == Spec => []TypeOK
<1>1. Init => TypeOK
  BY TypesInit, ReferencesInit DEF TypeOK
<1>2. TypeOK /\ [Next]_vars => TypeOK'
  BY TypesStep, ReferencesStep DEF TypeOK
<1> QED
  BY <1>1, <1>2, PTL DEF Spec

(***************************************************************************)
(* The chain of a session's refresh tokens.                                *)
(***************************************************************************)
\* A quiet step creates no session, no token and no issuer.
Quiet ==
  /\ \A s \in Session : (sess'[s] = "none") <=> (sess[s] = "none")
  /\ \A s \in Session, t \in Token : HoldsToken(t, s)' => HoldsToken(t, s)
  /\ \A s \in Session, r \in Req : Issuing(r, s)' => Issuing(r, s)

Claims(r) == RefreshClaim(r) /\ token[req[r].tok] = "active"

LEMMA QuietSteps ==
  TypeOK /\ [Next]_vars =>
    \/ Quiet
    \/ \E r \in Req : LoginSession(r) \/ Claims(r)
    \/ \E r \in Req, p \in {"loginToken", "rfIssue"} : IssueToken(r, p)
<1> SUFFICES ASSUME Types, References, [Next]_vars
             PROVE  \/ Quiet
                    \/ \E r \in Req : LoginSession(r) \/ Claims(r)
                    \/ \E r \in Req, p \in {"loginToken", "rfIssue"} :
                         IssueToken(r, p)
  BY DEF TypeOK
<1>1. ASSUME NEW r \in Req, RefreshClaim(r), ~Claims(r) PROVE Quiet
  BY <1>1 DEF Claims, Quiet, HoldsToken, Issuing, Types, LocalsType,
     RefreshClaim, Finish, Step, NoReq
<1>2. ASSUME NEW r \in Req, RefreshFind(r) PROVE Quiet
  <2>1. /\ UNCHANGED <<sess, token, tokSess>>
        /\ \A q \in Req : q # r => pc'[q] = pc[q] /\ req'[q] = req[q]
        /\ pc'[r] \notin {"loginToken", "rfIssue"}
    BY <1>2 DEF RefreshFind, Finish, Step, rows, Types
  <2> QED
    BY <2>1 DEF Quiet, HoldsToken, Issuing
<1>3. ASSUME NEW r \in Req, RefreshSession(r) PROVE Quiet
  BY <1>3
  DEF Quiet, HoldsToken, Issuing, Types, LocalsType, RefreshSession, Step, rows
<1>4. ASSUME NEW r \in Req, RefreshUser(r) PROVE Quiet
  BY <1>4
  DEF Quiet, HoldsToken, Issuing, Types, LocalsType, RefreshUser, Step, rows
<1>5. ASSUME NEW r \in Req, Deliver(r) PROVE Quiet
  BY <1>5
  DEF Quiet, HoldsToken, Issuing, Types, LocalsType, Deliver, Finish, Step,
    NoReq, rows
<1>6. ASSUME NEW r \in Req, Clear(r) PROVE Quiet
  BY <1>6
  DEF Quiet, HoldsToken, Issuing, Types, LocalsType, Clear, Finish, Step,
    NoReq, rows
<1>7. ASSUME NEW r \in Req, WriteUser(r) PROVE Quiet
  BY <1>7
  DEF Quiet, HoldsToken, Issuing, Types, LocalsType, WriteUser, Step, rows
<1>8. ASSUME NEW r \in Req, EndSessions(r) PROVE Quiet
  BY <1>8
  DEF Quiet, HoldsToken, Issuing, Types, LocalsType, EndSessions, Finish,
    Step, NoReq, rows
<1>9. ASSUME NEW r \in Req, EndTokens(r) PROVE Quiet
  BY <1>9
  DEF Quiet, HoldsToken, Issuing, Types, LocalsType, EndTokens, Step
<1>10. ASSUME NEW r \in Req, EndSockets(r) PROVE Quiet
  BY <1>10
  DEF Quiet, HoldsToken, Issuing, Types, LocalsType, EndSockets, Finish, Step,
    NoReq, rows
<1>11. ASSUME NEW r \in Req, LoseResponse(r) PROVE Quiet
  BY <1>11
  DEF Quiet, HoldsToken, Issuing, Types, LocalsType, LoseResponse, Finish,
    Step, NoReq, rows
<1>12. ASSUME NEW r \in Req, Abort(r) PROVE Quiet
  BY <1>12
  DEF Quiet, HoldsToken, Issuing, Types, LocalsType, Abort, Finish, Step,
    NoReq, rows
<1>13. ASSUME NEW r \in Req, ResetPassword(r) PROVE Quiet
  BY <1>13
  DEF Quiet, HoldsToken, Issuing, Types, LocalsType, ResetPassword, Step, rows
<1>14. ASSUME NEW r \in Req, NEW d \in Device, LoginStart(r, d) PROVE Quiet
  BY <1>14
  DEF Quiet, HoldsToken, Issuing, Types, LocalsType, LoginStart, Step, rows
<1>15. ASSUME NEW r \in Req, NEW d \in Device, RefreshStart(r, d) PROVE Quiet
  BY <1>15
  DEF Quiet, HoldsToken, Issuing, Types, LocalsType, RefreshStart, Step, rows
<1>16. ASSUME NEW r \in Req, NEW d \in Device, RevokeSession(r, d) PROVE Quiet
  BY <1>16
  DEF Quiet, HoldsToken, Issuing, Types, LocalsType, RevokeSession, EndStart,
    Step, rows
<1>17. ASSUME NEW r \in Req, NEW d \in Device, Logout(r, d) PROVE Quiet
  BY <1>17
  DEF Quiet, HoldsToken, Issuing, Types, LocalsType, Logout, EndStart, Step,
    rows
<1>18. ASSUME NEW r \in Req, NEW d \in Device, RevokeOtherSessions(r, d) PROVE Quiet
  BY <1>18
  DEF Quiet, HoldsToken, Issuing, Types, LocalsType, RevokeOtherSessions,
    EndStart, Step, rows
<1>19. ASSUME NEW r \in Req, NEW d \in Device, RevokeAllSessions(r, d) PROVE Quiet
  BY <1>19
  DEF Quiet, HoldsToken, Issuing, Types, LocalsType, RevokeAllSessions,
    EndStart, Step, rows
<1>20. ASSUME NEW r \in Req, NEW d \in Device, ChangePassword(r, d) PROVE Quiet
  BY <1>20
  DEF Quiet, HoldsToken, Issuing, Types, LocalsType, ChangePassword,
    CredentialStart, Step, rows
<1>21. ASSUME NEW r \in Req, NEW d \in Device, DeleteMe(r, d) PROVE Quiet
  BY <1>21
  DEF Quiet, HoldsToken, Issuing, Types, LocalsType, DeleteMe,
    CredentialStart, Step, rows
<1>22. ASSUME NEW k \in Socket, SocketOpen(k) PROVE Quiet
  BY <1>22
  DEF Quiet, HoldsToken, Issuing, Types, LocalsType, SocketOpen, rows
<1>23. ASSUME NEW k \in Socket, SocketClose(k) PROVE Quiet
  BY <1>23
  DEF Quiet, HoldsToken, Issuing, Types, LocalsType, SocketClose, rows
<1>24. ASSUME NEW k \in Socket, NEW d \in Device, SocketCheck(k, d) PROVE Quiet
  BY <1>24
  DEF Quiet, HoldsToken, Issuing, Types, LocalsType, SocketCheck, rows
<1>25. ASSUME NEW t \in Token, Age(t) PROVE Quiet
  BY <1>25
  DEF Quiet, HoldsToken, Issuing, Types, LocalsType, Age
<1>26. ASSUME NEW t \in Token, Expire(t) PROVE Quiet
  BY <1>26
  DEF Quiet, HoldsToken, Issuing, Types, LocalsType, Expire
<1>27. ASSUME DeleteExpired PROVE Quiet
  BY <1>27
  DEF Quiet, HoldsToken, Issuing, Types, LocalsType, DeleteExpired, References
<1>28. ASSUME Restore PROVE Quiet
  BY <1>28
  DEF Quiet, HoldsToken, Issuing, Types, LocalsType, Restore, rows
<1>29. ASSUME UNCHANGED vars PROVE Quiet
  BY <1>29
  DEF Quiet, HoldsToken, Issuing, Types, LocalsType, vars
<1> QED
  BY <1>1, <1>2, <1>3, <1>4, <1>5, <1>6, <1>7, <1>8, <1>9, <1>10, <1>11,
     <1>12, <1>13, <1>14, <1>15, <1>16, <1>17, <1>18, <1>19, <1>20, <1>21,
     <1>22, <1>23, <1>24, <1>25, <1>26, <1>27, <1>28, <1>29 DEF Next, Begin,
     Continue, Environment, LoginToken, RefreshIssue

\* The three steps that are not quiet, in terms of holders and issuers.
LEMMA LoginEffect ==
  ASSUME Types, References, NEW r \in Req, LoginSession(r)
  PROVE  \E s \in Session :
           /\ sess[s] = "none" /\ sess' = [sess EXCEPT ![s] = "live"]
           /\ \A t \in Token : ~HoldsToken(t, s)
           /\ \A q \in Req : ~Issuing(q, s)
           /\ \A u \in Session : ~Issuing(r, u)
           /\ \A u \in Session, t \in Token : HoldsToken(t, u)' <=> HoldsToken(t, u)
           /\ \A u \in Session, q \in Req :
                Issuing(q, u)' <=> (IF q = r THEN u = s ELSE Issuing(q, u))
<1>1. PICK s \in Session :
        /\ sess[s] = "none"
        /\ sess' = [sess EXCEPT ![s] = "live"]
        /\ req' = [req EXCEPT ![r].sid = s]
        /\ pc' = [pc EXCEPT ![r] = "loginToken"]
        /\ UNCHANGED <<token, tokSess>>
  BY DEF LoginSession, Step
<1>2. \A t \in Token : ~HoldsToken(t, s)
  BY <1>1 DEF HoldsToken, References
<1>3. /\ \A q \in Req : ~Issuing(q, s)
      /\ \A u \in Session : ~Issuing(r, u)
  BY <1>1 DEF Issuing, References, LoginSession
<1>4. \A u \in Session, t \in Token : HoldsToken(t, u)' <=> HoldsToken(t, u)
  BY <1>1 DEF HoldsToken
<1>5. \A u \in Session, q \in Req :
        Issuing(q, u)' <=> (IF q = r THEN u = s ELSE Issuing(q, u))
  BY <1>1 DEF Issuing, Types, LocalsType, LoginSession
<1> QED
  BY <1>1, <1>2, <1>3, <1>4, <1>5

LEMMA IssueEffect ==
  ASSUME Types, References, NEW r \in Req, NEW p \in {"loginToken", "rfIssue"},
         IssueToken(r, p)
  PROVE  /\ req[r].sid \in Session /\ sess[req[r].sid] # "none"
         /\ Issuing(r, req[r].sid)
         /\ UNCHANGED sess
         /\ \A u \in Session, q \in Req :
              Issuing(q, u)' <=> (q # r /\ Issuing(q, u))
         /\ \E t \in Token :
              /\ \A u \in Session : ~HoldsToken(t, u)
              /\ \A u \in Session, v \in Token :
                   HoldsToken(v, u)' <=> (IF v = t THEN u = req[r].sid
                                                   ELSE HoldsToken(v, u))
<1>1. PICK t \in Token :
        /\ token[t] = "none"
        /\ token' = [token EXCEPT ![t] = "active"]
        /\ tokSess' = [tokSess EXCEPT ![t] = req[r].sid]
        /\ req' = [req EXCEPT ![r].new = t]
        /\ pc' = [pc EXCEPT ![r] = "deliver"]
        /\ UNCHANGED sess
  BY DEF IssueToken, Step
<1>2. pc[r] = p /\ req[r].sid \in Session /\ sess[req[r].sid] # "none"
  BY DEF IssueToken, References
<1>3. \A u \in Session, q \in Req : Issuing(q, u)' <=> (q # r /\ Issuing(q, u))
  BY <1>1 DEF Issuing, Types, LocalsType
<1>4. \A u \in Session, v \in Token :
        HoldsToken(v, u)' <=> (IF v = t THEN u = req[r].sid ELSE HoldsToken(v, u))
  BY <1>1 DEF HoldsToken, Types
<1>5. Issuing(r, req[r].sid) /\ \A u \in Session : ~HoldsToken(t, u)
  BY <1>1, <1>2 DEF Issuing, HoldsToken
<1> QED
  BY <1>1, <1>2, <1>3, <1>4, <1>5

LEMMA ClaimEffect ==
  ASSUME Types, References, NEW r \in Req, Claims(r)
  PROVE  /\ req[r].tok \in Token
         /\ req[r].sid \in Session /\ sess[req[r].sid] # "none"
         /\ HoldsToken(req[r].tok, req[r].sid)
         /\ UNCHANGED sess
         /\ \A u \in Session, v \in Token :
              HoldsToken(v, u)' <=> (v # req[r].tok /\ HoldsToken(v, u))
         /\ \A u \in Session, q \in Req :
              Issuing(q, u)' <=> (IF q = r THEN u = req[r].sid ELSE Issuing(q, u))
<1>1. /\ req[r].tok \in Token
      /\ req[r].sid = tokSess[req[r].tok]
      /\ req[r].sid \in Session /\ sess[req[r].sid] # "none"
  BY DEF Claims, RefreshClaim, References, RefreshSteps
<1>2. /\ token[req[r].tok] = "active"
      /\ token' = [token EXCEPT ![req[r].tok] = "recent"]
      /\ pc' = [pc EXCEPT ![r] = "rfIssue"]
      /\ UNCHANGED <<sess, req, tokSess>>
  BY DEF Claims, RefreshClaim, Step
<1>3. \A u \in Session, v \in Token :
        HoldsToken(v, u)' <=> (v # req[r].tok /\ HoldsToken(v, u))
  BY <1>1, <1>2 DEF HoldsToken, Types
<1>4. \A u \in Session, q \in Req :
        Issuing(q, u)' <=> (IF q = r THEN u = req[r].sid ELSE Issuing(q, u))
  BY <1>2 DEF Issuing, Types
<1> QED
  BY <1>1, <1>2, <1>3, <1>4 DEF HoldsToken

LEMMA RotationStep == TypeOK /\ RotationUnique /\ [Next]_vars => RotationUnique'
<1> SUFFICES ASSUME Types, References, RotationUnique, [Next]_vars
             PROVE  RotationUnique'
  BY DEF TypeOK
<1>1. CASE Quiet
  BY <1>1 DEF Quiet, RotationUnique
\* The new session has no token and no issuer yet.
<1>2. ASSUME NEW r \in Req, LoginSession(r) PROVE RotationUnique'
  BY <1>2, LoginEffect DEF RotationUnique
\* The issuer turns into the holder.
<1>3. ASSUME NEW r \in Req, NEW p \in {"loginToken", "rfIssue"}, IssueToken(r, p)
      PROVE  RotationUnique'
  BY <1>3, IssueEffect DEF RotationUnique
\* The holder turns into the issuer; the condition of the update makes it the
\* only one.
<1>4. ASSUME NEW r \in Req, Claims(r) PROVE RotationUnique'
  BY <1>4, ClaimEffect DEF RotationUnique
<1> QED
  BY <1>1, <1>2, <1>3, <1>4, QuietSteps DEF TypeOK

\* However many requests race over a session, its right to refresh is in one
\* place (revokeIfActive, issueTokens).
THEOREM RotationIsUnique == Spec => []RotationUnique
<1>1. Init => RotationUnique
  BY DEF Init, RotationUnique, HoldsToken, Issuing
<1> QED
  BY <1>1, TypeCorrect, RotationStep, PTL DEF Spec

(***************************************************************************)
(* Refinement of RotationChain.                                            *)
(***************************************************************************)
LEMMA ChainStep == TypeOK /\ RotationUnique /\ [Next]_vars => [Chain!ChainNext]_Baton
<1> SUFFICES ASSUME Types, References, RotationUnique, [Next]_vars
             PROVE  Chain!ChainNext \/ Baton' = Baton
  BY DEF TypeOK
<1> USE DEF Chain!ChainNext
<1>1. CASE Quiet
  <2> DEFINE S == {s \in Session : Baton'[s] # Baton[s]}
  <2>1. \A s \in S : Baton[s] \in {"server", "device"} /\ Baton'[s] = "dropped"
    BY <1>1 DEF Quiet, Baton, RotationUnique
  <2>2. Baton' = [s \in Session |-> IF s \in S THEN "dropped" ELSE Baton[s]]
    <3>1. Baton' = [s \in Session |-> Baton'[s]]
      BY DEF Baton
    <3> QED
      BY <2>1, <3>1
  <2>3. Chain!Drop(S)
    BY <2>1, <2>2 DEF Chain!Drop
  <2> QED
    BY <2>3
<1>2. ASSUME NEW r \in Req, LoginSession(r) PROVE Chain!ChainNext
  <2>1. PICK s \in Session :
          /\ sess[s] = "none" /\ sess' = [sess EXCEPT ![s] = "live"]
          /\ \A t \in Token : ~HoldsToken(t, s)
          /\ \A q \in Req : ~Issuing(q, s)
          /\ \A u \in Session : ~Issuing(r, u)
          /\ \A u \in Session, t \in Token : HoldsToken(t, u)' <=> HoldsToken(t, u)
          /\ \A u \in Session, q \in Req :
               Issuing(q, u)' <=> (IF q = r THEN u = s ELSE Issuing(q, u))
    BY <1>2, LoginEffect
  <2>2. Baton[s] = "unborn" /\ Baton'[s] = "server"
    BY <2>1 DEF Baton, Types
  <2>3. \A u \in Session \ {s} : Baton'[u] = Baton[u]
    BY <2>1 DEF Baton, Types
  <2>4. Chain!Open(s)
    BY <2>2, <2>3 DEF Chain!Open, Baton
  <2> QED
    BY <2>4
<1>3. ASSUME NEW r \in Req, NEW p \in {"loginToken", "rfIssue"}, IssueToken(r, p)
      PROVE  Chain!ChainNext
  <2> DEFINE s == req[r].sid
  <2>1. /\ s \in Session /\ sess[s] # "none"
        /\ Issuing(r, s)
        /\ UNCHANGED sess
        /\ \A u \in Session, q \in Req :
             Issuing(q, u)' <=> (q # r /\ Issuing(q, u))
    BY <1>3, IssueEffect
  <2>2. PICK t \in Token :
          /\ \A u \in Session : ~HoldsToken(t, u)
          /\ \A u \in Session, v \in Token :
               HoldsToken(v, u)' <=> (IF v = t THEN u = s ELSE HoldsToken(v, u))
    BY <1>3, IssueEffect
  <2>3. \A u \in Session \ {s} : ~Issuing(r, u) /\ ~HoldsToken(t, u)'
    BY <2>1, <2>2 DEF Issuing
  <2> HIDE DEF s
  <2>4. Baton[s] = "server" /\ Baton'[s] = "device"
    BY <2>1, <2>2 DEF Baton, RotationUnique
  <2>5. \A u \in Session \ {s} : Baton'[u] = Baton[u]
    BY <2>1, <2>2, <2>3 DEF Baton
  <2>6. Chain!Issue(s)
    BY <2>1, <2>4, <2>5 DEF Chain!Issue, Baton
  <2> QED
    BY <2>1, <2>6
<1>4. ASSUME NEW r \in Req, Claims(r) PROVE Chain!ChainNext
  <2> DEFINE s == req[r].sid
  <2>1. /\ req[r].tok \in Token
        /\ s \in Session /\ sess[s] # "none"
        /\ HoldsToken(req[r].tok, s)
        /\ UNCHANGED sess
        /\ \A u \in Session, v \in Token :
             HoldsToken(v, u)' <=> (v # req[r].tok /\ HoldsToken(v, u))
        /\ \A u \in Session, q \in Req :
             Issuing(q, u)' <=> (IF q = r THEN u = s ELSE Issuing(q, u))
    BY <1>4, ClaimEffect
  <2>2. \A u \in Session \ {s} : ~HoldsToken(req[r].tok, u) /\ ~Issuing(r, u)
    BY <1>4, <2>1 DEF HoldsToken, Issuing, Claims, RefreshClaim
  <2> HIDE DEF s
  <2>3. Baton[s] = "device" /\ Baton'[s] = "server"
    BY <2>1 DEF Baton, RotationUnique
  <2>4. \A u \in Session \ {s} : Baton'[u] = Baton[u]
    BY <2>1, <2>2 DEF Baton
  <2>5. Chain!Claim(s)
    BY <2>1, <2>3, <2>4 DEF Chain!Claim, Baton
  <2> QED
    BY <2>1, <2>5
<1> QED
  BY <1>1, <1>2, <1>3, <1>4, QuietSteps DEF TypeOK

\* AuthSessions implements the abstract chain: per session one baton, dropped
\* for good (issueTokens, refreshAccessToken, the revocations, deleteExpired).
THEOREM ChainImplemented == Spec => ImplementsChain
<1>1. Init => Chain!ChainInit
  BY DEF Init, Chain!ChainInit, Baton
<1> QED
  BY <1>1, ChainStep, TypeCorrect, RotationIsUnique, PTL
  DEF Spec, ImplementsChain, Chain!ChainSpec

(***************************************************************************)
(* A refresh that comes after the end of its session gets nothing.         *)
(***************************************************************************)
\* A doomed request still carries a token of a revoked session, and is not past
\* the session check.
DoomedInv ==
  \A r \in Req : req[r].doomed =>
    /\ req[r].tok \in Token
    /\ token[req[r].tok] # "none"
    /\ sess[tokSess[req[r].tok]] = "revoked"
    /\ pc[r] \notin {"loginSession", "loginToken", "rfUser", "rfClaim", "rfIssue",
                    "deliver"}

LEMMA DoomedStep == TypeOK /\ DoomedInv /\ [Next]_vars => DoomedInv'
<1> SUFFICES ASSUME Types, References, DoomedInv, [Next]_vars PROVE DoomedInv'
  BY DEF TypeOK
<1>1. ASSUME NEW r \in Req, LoginSession(r) PROVE DoomedInv'
  BY <1>1, SMTT(30)
  DEF DoomedInv, Types, References, LoginSteps, RefreshSteps, EndSteps,
    LocalsType, SocketType, LoginSession, Step
<1>2. ASSUME NEW r \in Req, NEW p \in {"loginToken", "rfIssue"},
           IssueToken(r, p)
      PROVE DoomedInv'
  BY <1>2, SMTT(30)
  DEF DoomedInv, Types, References, LoginSteps, RefreshSteps, EndSteps,
    LocalsType, SocketType, IssueToken, Step, hist
<1>3. ASSUME NEW r \in Req, RefreshFind(r) PROVE DoomedInv'
  BY <1>3, SMTT(30)
  DEF DoomedInv, Types, References, LoginSteps, RefreshSteps, EndSteps,
    LocalsType, SocketType, RefreshFind, Step, Finish, NoReq, Locals, rows,
    client, born, hist
<1>4. ASSUME NEW r \in Req, RefreshSession(r) PROVE DoomedInv'
  BY <1>4, SMTT(30)
  DEF DoomedInv, Types, References, LoginSteps, RefreshSteps, EndSteps,
    LocalsType, SocketType, RefreshSession, Step, rows, hist
<1>5. ASSUME NEW r \in Req, RefreshUser(r) PROVE DoomedInv'
  BY <1>5, SMTT(30)
  DEF DoomedInv, Types, References, LoginSteps, RefreshSteps, EndSteps,
    LocalsType, SocketType, RefreshUser, Step, rows, hist
<1>6. ASSUME NEW r \in Req, RefreshClaim(r) PROVE DoomedInv'
  BY <1>6, SMTT(30)
  DEF DoomedInv, Types, References, LoginSteps, RefreshSteps, EndSteps,
    LocalsType, SocketType, RefreshClaim, Step, Finish, NoReq, Locals, born
<1>7. ASSUME NEW r \in Req, Deliver(r) PROVE DoomedInv'
  BY <1>7, SMTT(30)
  DEF DoomedInv, Types, References, LoginSteps, RefreshSteps, EndSteps,
    LocalsType, SocketType, Deliver, Step, Finish, NoReq, Locals, rows,
    client, born, hist
<1>8. ASSUME NEW r \in Req, Clear(r) PROVE DoomedInv'
  BY <1>8, SMTT(30)
  DEF DoomedInv, Types, References, LoginSteps, RefreshSteps, EndSteps,
    LocalsType, SocketType, Clear, Step, Finish, NoReq, Locals, rows, client,
    born, hist
<1>9. ASSUME NEW r \in Req, WriteUser(r) PROVE DoomedInv'
  BY <1>9, SMTT(30)
  DEF DoomedInv, Types, References, LoginSteps, RefreshSteps, EndSteps,
    LocalsType, SocketType, WriteUser, Step, rows, hist
<1>10. ASSUME NEW r \in Req, EndSessions(r) PROVE DoomedInv'
  BY <1>10, SMTT(30)
  DEF DoomedInv, Types, References, LoginSteps, RefreshSteps, EndSteps,
    LocalsType, SocketType, EndSessions, Targets, Step, Finish, NoReq, Locals,
    rows, client, born, hist
<1>11. ASSUME NEW r \in Req, EndTokens(r) PROVE DoomedInv'
  BY <1>11, SMTT(30)
  DEF DoomedInv, Types, References, LoginSteps, RefreshSteps, EndSteps,
    LocalsType, SocketType, EndTokens, Step, born
<1>12. ASSUME NEW r \in Req, EndSockets(r) PROVE DoomedInv'
  BY <1>12, SMTT(30)
  DEF DoomedInv, Types, References, LoginSteps, RefreshSteps, EndSteps,
    LocalsType, SocketType, EndSockets, Targets, NoSock, Step, Finish, NoReq,
    Locals, rows, client, born, hist
<1>13. ASSUME NEW r \in Req, LoseResponse(r) PROVE DoomedInv'
  BY <1>13, SMTT(30)
  DEF DoomedInv, Types, References, LoginSteps, RefreshSteps, EndSteps,
    LocalsType, SocketType, LoseResponse, Step, Finish, NoReq, Locals, rows,
    client, born, hist
<1>14. ASSUME NEW r \in Req, Abort(r) PROVE DoomedInv'
  BY <1>14, SMTT(30)
  DEF DoomedInv, Types, References, LoginSteps, RefreshSteps, EndSteps,
    LocalsType, SocketType, Abort, Left, Targets, Step, Finish, NoReq, Locals,
    rows, client, born, hist
<1>15. ASSUME NEW r \in Req, ResetPassword(r) PROVE DoomedInv'
  BY <1>15, SMTT(30)
  DEF DoomedInv, Types, References, LoginSteps, RefreshSteps, EndSteps,
    LocalsType, SocketType, ResetPassword, Step, Locals, rows, hist
<1>16. ASSUME NEW r \in Req, NEW d \in Device, LoginStart(r, d) PROVE DoomedInv'
  BY <1>16, SMTT(30)
  DEF DoomedInv, Types, References, LoginSteps, RefreshSteps, EndSteps,
    LocalsType, SocketType, LoginStart, Step, Locals, rows, hist
<1>17. ASSUME NEW r \in Req, NEW d \in Device, RefreshStart(r, d) PROVE DoomedInv'
  <2>1. /\ cookie[d] \in Token
        /\ token[cookie[d]] # "none"
        /\ pc' = [pc EXCEPT ![r] = "rfFind"]
        /\ UNCHANGED <<sess, token, tokSess>>
    BY <1>17 DEF RefreshStart, Step, rows, References, Types
  <2>2. /\ req'[r].tok = cookie[d]
        /\ req'[r].doomed = (sess[tokSess[cookie[d]]] = "revoked")
        /\ \A q \in Req : q # r => req'[q] = req[q]
    BY <1>17 DEF RefreshStart, Locals, Types
  <2> SUFFICES ASSUME NEW q \in Req, req'[q].doomed
               PROVE  /\ req'[q].tok \in Token
                      /\ token[req'[q].tok] # "none"
                      /\ sess[tokSess[req'[q].tok]] = "revoked"
                      /\ pc'[q] \notin {"loginSession", "loginToken", "rfUser",
                                        "rfClaim", "rfIssue", "deliver"}
    BY <2>1 DEF DoomedInv
  <2>3. CASE q = r
    BY <2>1, <2>2, <2>3 DEF Types
  <2>4. CASE q # r
    BY <2>1, <2>2, <2>4 DEF DoomedInv, Types
  <2> QED
    BY <2>3, <2>4
<1>18. ASSUME NEW r \in Req, NEW d \in Device, RevokeSession(r, d) PROVE DoomedInv'
  BY <1>18, SMTT(30)
  DEF DoomedInv, Types, References, LoginSteps, RefreshSteps, EndSteps,
    LocalsType, SocketType, RevokeSession, EndStart, Step, Locals, rows, hist
<1>19. ASSUME NEW r \in Req, NEW d \in Device, Logout(r, d) PROVE DoomedInv'
  BY <1>19, SMTT(30)
  DEF DoomedInv, Types, References, LoginSteps, RefreshSteps, EndSteps,
    LocalsType, SocketType, Logout, EndStart, Step, Locals, rows, hist
<1>20. ASSUME NEW r \in Req, NEW d \in Device, RevokeOtherSessions(r, d) PROVE DoomedInv'
  BY <1>20, SMTT(30)
  DEF DoomedInv, Types, References, LoginSteps, RefreshSteps, EndSteps,
    LocalsType, SocketType, RevokeOtherSessions, EndStart, Step, Locals, rows,
    hist
<1>21. ASSUME NEW r \in Req, NEW d \in Device, RevokeAllSessions(r, d) PROVE DoomedInv'
  BY <1>21, SMTT(30)
  DEF DoomedInv, Types, References, LoginSteps, RefreshSteps, EndSteps,
    LocalsType, SocketType, RevokeAllSessions, EndStart, Step, Locals, rows,
    hist
<1>22. ASSUME NEW r \in Req, NEW d \in Device, ChangePassword(r, d) PROVE DoomedInv'
  BY <1>22, SMTT(30)
  DEF DoomedInv, Types, References, LoginSteps, RefreshSteps, EndSteps,
    LocalsType, SocketType, ChangePassword, CredentialStart, Step, Locals,
    rows, hist
<1>23. ASSUME NEW r \in Req, NEW d \in Device, DeleteMe(r, d) PROVE DoomedInv'
  BY <1>23, SMTT(30)
  DEF DoomedInv, Types, References, LoginSteps, RefreshSteps, EndSteps,
    LocalsType, SocketType, DeleteMe, CredentialStart, Step, Locals, rows,
    hist
<1>24. ASSUME NEW k \in Socket, SocketOpen(k) PROVE DoomedInv'
  BY <1>24, SMTT(30)
  DEF DoomedInv, Types, References, LoginSteps, RefreshSteps, EndSteps,
    LocalsType, SocketType, SocketOpen, rows, hist
<1>25. ASSUME NEW k \in Socket, SocketClose(k) PROVE DoomedInv'
  BY <1>25, SMTT(30)
  DEF DoomedInv, Types, References, LoginSteps, RefreshSteps, EndSteps,
    LocalsType, SocketType, SocketClose, NoSock, rows, hist
<1>26. ASSUME NEW k \in Socket, NEW d \in Device, SocketCheck(k, d) PROVE DoomedInv'
  BY <1>26, SMTT(30)
  DEF DoomedInv, Types, References, LoginSteps, RefreshSteps, EndSteps,
    LocalsType, SocketType, SocketCheck, Authenticated, rows, hist
<1>27. ASSUME NEW t \in Token, Age(t) PROVE DoomedInv'
  BY <1>27, SMTT(30)
  DEF DoomedInv, Types, References, LoginSteps, RefreshSteps, EndSteps,
    LocalsType, SocketType, Age, hist
<1>28. ASSUME NEW t \in Token, Expire(t) PROVE DoomedInv'
  BY <1>28, SMTT(30)
  DEF DoomedInv, Types, References, LoginSteps, RefreshSteps, EndSteps,
    LocalsType, SocketType, Expire, hist
<1>29. ASSUME DeleteExpired PROVE DoomedInv'
  BY <1>29, SMTT(30)
  DEF DoomedInv, Types, References, LoginSteps, RefreshSteps, EndSteps,
    LocalsType, SocketType, DeleteExpired, hist
<1>30. ASSUME Restore PROVE DoomedInv'
  BY <1>30, SMTT(30)
  DEF DoomedInv, Types, References, LoginSteps, RefreshSteps, EndSteps,
    LocalsType, SocketType, Restore, rows, hist
<1>31. ASSUME UNCHANGED vars PROVE DoomedInv'
  BY <1>31, SMTT(30)
  DEF DoomedInv, Types, References, LoginSteps, RefreshSteps, EndSteps,
    LocalsType, SocketType, vars
<1> QED
  BY <1>1, <1>2, <1>3, <1>4, <1>5, <1>6, <1>7, <1>8, <1>9, <1>10, <1>11,
     <1>12, <1>13, <1>14, <1>15, <1>16, <1>17, <1>18, <1>19, <1>20, <1>21,
     <1>22, <1>23, <1>24, <1>25, <1>26, <1>27, <1>28, <1>29, <1>30, <1>31
     DEF Next, Begin, Continue, Environment, LoginToken, RefreshIssue

\* No request that arrives after its session was revoked is given tokens
\* (refreshAccessToken).
THEOREM RefreshAfterEnd == Spec => []RefreshAfterEndRefused
<1>1. Init => DoomedInv
  BY DEF Init, DoomedInv, NoReq, Locals
<1>2. DoomedInv => RefreshAfterEndRefused
  BY DEF DoomedInv, RefreshAfterEndRefused
<1> QED
  BY <1>1, <1>2, TypeCorrect, DoomedStep, PTL DEF Spec

(***************************************************************************)
(* Revocations and sockets.                                                *)
(***************************************************************************)
Exposed(k) ==
  sock[k].st = "open" /\ ~sock[k].late /\ sess[sock[k].sid] = "revoked"

\* A step that exposes no socket, takes no session out of stranded and lets the
\* requests that are revoking go on keeps every exposed socket accounted for.
LEMMA SocketsShrink ==
  ASSUME RevocationReachesSockets,
         \A k \in Socket : Exposed(k)' => Exposed(k) /\ sock'[k].sid = sock[k].sid,
         stranded \subseteq stranded',
         \A r \in Req : pc[r] \in {"tokens", "sockets"} =>
           pc'[r] \in {"tokens", "sockets"} /\ req'[r] = req[r]
  PROVE  RevocationReachesSockets'
<1> SUFFICES ASSUME NEW k \in Socket, Exposed(k)'
             PROVE  \/ sock'[k].sid \in stranded'
                    \/ Covered(sock[k].sid)'
  BY DEF RevocationReachesSockets, Exposed
<1>1. Exposed(k) /\ sock'[k].sid = sock[k].sid
  OBVIOUS
<1>2. CASE sock[k].sid \in stranded
  BY <1>1, <1>2
<1>3. CASE Covered(sock[k].sid)
  <2>1. PICK r \in Req : pc[r] \in {"tokens", "sockets"} /\ sock[k].sid \in Targets(r)
    BY <1>3 DEF Covered
  <2>2. Targets(r)' = Targets(r)
    BY <2>1 DEF Targets
  <2> QED
    BY <1>1, <2>1, <2>2 DEF Covered
<1> QED
  BY <1>1, <1>2, <1>3 DEF RevocationReachesSockets, Exposed

LEMMA SocketsStep ==
  TypeOK /\ RevocationReachesSockets /\ [Next]_vars => RevocationReachesSockets'
<1> SUFFICES ASSUME Types, References, RevocationReachesSockets, [Next]_vars
             PROVE  RevocationReachesSockets'
  BY DEF TypeOK
<1> DEFINE Shrinks ==
      /\ \A k \in Socket : Exposed(k)' => Exposed(k) /\ sock'[k].sid = sock[k].sid
      /\ stranded \subseteq stranded'
      /\ \A r \in Req : pc[r] \in {"tokens", "sockets"} =>
           pc'[r] \in {"tokens", "sockets"} /\ req'[r] = req[r]
<1>shrink. Shrinks => RevocationReachesSockets'
  BY SocketsShrink
<1> HIDE DEF Shrinks
\* The request that revokes the sessions covers them.
<1>1. ASSUME NEW r \in Req, EndSessions(r) PROVE RevocationReachesSockets'
  <2>1. /\ pc[r] = "sessions"
        /\ \A s \in Session : sess'[s] = "revoked" /\ sess[s] # "revoked" =>
             s \in Targets(r) /\ pc'[r] = "tokens" /\ req'[r] = req[r]
        /\ \A q \in Req : q # r => pc'[q] = pc[q] /\ req'[q] = req[q]
        /\ UNCHANGED <<sock, stranded>>
    BY <1>1 DEF EndSessions, Step, Finish, hist, Types
  <2> SUFFICES ASSUME NEW k \in Socket, Exposed(k)'
               PROVE  sock[k].sid \in stranded \/ Covered(sock[k].sid)'
    BY <2>1 DEF RevocationReachesSockets, Exposed
  <2>2. sock[k].sid \in Session /\ sock[k].st = "open" /\ ~sock[k].late
    BY <2>1 DEF Exposed, References
  <2>3. CASE sess[sock[k].sid] = "revoked"
    <3>1. sock[k].sid \in stranded \/ Covered(sock[k].sid)
      BY <2>2, <2>3 DEF RevocationReachesSockets
    <3>2. ASSUME Covered(sock[k].sid) PROVE Covered(sock[k].sid)'
      <4>1. PICK q \in Req : pc[q] \in {"tokens", "sockets"} /\ sock[k].sid \in Targets(q)
        BY <3>2 DEF Covered
      <4>2. q # r /\ Targets(q)' = Targets(q)
        BY <4>1, <2>1 DEF Targets
      <4> QED
        BY <4>1, <4>2, <2>1 DEF Covered
    <3> QED
      BY <3>1, <3>2
  <2>4. CASE sess[sock[k].sid] # "revoked"
    <3>1. sock[k].sid \in Targets(r) /\ pc'[r] = "tokens" /\ req'[r] = req[r]
      BY <2>1, <2>2, <2>4 DEF Exposed
    <3>2. Targets(r)' = Targets(r)
      BY <3>1 DEF Targets
    <3> QED
      BY <3>1, <3>2, <2>1 DEF Covered
  <2> QED
    BY <2>3, <2>4
\* The request that disconnects leaves no socket it covered.
<1>2. ASSUME NEW r \in Req, EndSockets(r) PROVE RevocationReachesSockets'
  <2>1. /\ \A q \in Req : q # r => pc'[q] = pc[q] /\ req'[q] = req[q]
        /\ UNCHANGED <<sess, stranded>>
        /\ \A k \in Socket :
             sock'[k] = IF sock[k].st = "open" /\ sock[k].sid \in Targets(r)
                          THEN NoSock ELSE sock[k]
    BY <1>2 DEF EndSockets, Step, Finish, hist, rows, Types
  <2> SUFFICES ASSUME NEW k \in Socket, Exposed(k)'
               PROVE  (sock[k].sid \in stranded)' \/ Covered(sock[k].sid)'
    BY <2>1 DEF RevocationReachesSockets, Exposed
  <2>2. sock'[k] = sock[k] /\ sock[k].sid \notin Targets(r) /\ Exposed(k)
    BY <2>1 DEF Exposed, NoSock
  <2>3. sock[k].sid \in stranded \/ Covered(sock[k].sid)
    BY <2>2 DEF RevocationReachesSockets, Exposed
  <2>4. ASSUME Covered(sock[k].sid) PROVE Covered(sock[k].sid)'
    <3>1. PICK q \in Req : pc[q] \in {"tokens", "sockets"} /\ sock[k].sid \in Targets(q)
      BY <2>4 DEF Covered
    <3>2. q # r /\ Targets(q)' = Targets(q)
      BY <3>1, <2>1, <2>2 DEF Targets
    <3> QED
      BY <3>1, <3>2, <2>1, <2>2 DEF Covered
  <2> QED
    BY <2>1, <2>2, <2>3, <2>4
\* A request that dies strands the sessions it covered.
<1>3. ASSUME NEW r \in Req, Abort(r) PROVE RevocationReachesSockets'
  <2>1. /\ \A q \in Req : q # r => pc'[q] = pc[q] /\ req'[q] = req[q]
        /\ stranded' = stranded \cup Left(r)
        /\ UNCHANGED <<sess, sock>>
    BY <1>3 DEF Abort, Step, Finish, rows, Types
  <2> SUFFICES ASSUME NEW k \in Socket, Exposed(k)
               PROVE  sock[k].sid \in stranded' \/ Covered(sock[k].sid)'
    BY <2>1 DEF RevocationReachesSockets, Exposed
  <2>2. sock[k].sid \in stranded \/ Covered(sock[k].sid)
    BY DEF RevocationReachesSockets, Exposed
  <2>3. ASSUME Covered(sock[k].sid)
        PROVE  sock[k].sid \in Left(r) \/ Covered(sock[k].sid)'
    <3>1. PICK q \in Req : pc[q] \in {"tokens", "sockets"} /\ sock[k].sid \in Targets(q)
      BY <2>3 DEF Covered
    <3>2. CASE q = r
      <4>1. sock[k].sid \in Session /\ sess[sock[k].sid] = "revoked"
        BY DEF Exposed, References
      <4>2. Left(r) = {s \in Targets(r) : sess[s] = "revoked"}
        BY <3>1, <3>2 DEF Left
      <4> QED
        BY <3>1, <3>2, <4>1, <4>2
    <3>3. CASE q # r
      <4>1. Targets(q)' = Targets(q)
        BY <3>3, <2>1 DEF Targets
      <4> QED
        BY <3>1, <3>3, <4>1, <2>1 DEF Covered
    <3> QED
      BY <3>2, <3>3
  <2> QED
    BY <2>1, <2>2, <2>3
\* A socket opened on a revoked session is late.
<1>4. ASSUME NEW k \in Socket, SocketOpen(k) PROVE RevocationReachesSockets'
  <2>1. /\ UNCHANGED <<sess, pc, req, stranded>>
        /\ \A j \in Socket : j # k => sock'[j] = sock[j]
        /\ sock'[k].late = (sess[sock[k].sid] = "revoked")
        /\ sock'[k].sid = sock[k].sid
    BY <1>4 DEF SocketOpen, rows, hist, Types, SocketType
  <2>2. Shrinks
    BY <2>1 DEF Shrinks, Exposed
  <2> QED
    BY <2>2, <1>shrink
<1>5. ASSUME NEW r \in Req, LoginSession(r)
      PROVE  RevocationReachesSockets'
  <2>1. Shrinks
    BY <1>5
    DEF Shrinks, Exposed, Types, LoginSession, Step
  <2> QED
    BY <2>1, <1>shrink
<1>6. ASSUME NEW r \in Req, NEW p \in {"loginToken", "rfIssue"}, IssueToken(r, p)
      PROVE  RevocationReachesSockets'
  <2>1. Shrinks
    BY <1>6
    DEF Shrinks, Exposed, Types, IssueToken, Step, hist
  <2> QED
    BY <2>1, <1>shrink
<1>7. ASSUME NEW r \in Req, RefreshFind(r)
      PROVE  RevocationReachesSockets'
  <2>1. Shrinks
    BY <1>7
    DEF Shrinks, Exposed, Types, RefreshFind, Step, Finish, rows, hist
  <2> QED
    BY <2>1, <1>shrink
<1>8. ASSUME NEW r \in Req, RefreshSession(r)
      PROVE  RevocationReachesSockets'
  <2>1. Shrinks
    BY <1>8
    DEF Shrinks, Exposed, Types, RefreshSession, Step, rows, hist
  <2> QED
    BY <2>1, <1>shrink
<1>9. ASSUME NEW r \in Req, RefreshUser(r)
      PROVE  RevocationReachesSockets'
  <2>1. Shrinks
    BY <1>9
    DEF Shrinks, Exposed, Types, RefreshUser, Step, rows, hist
  <2> QED
    BY <2>1, <1>shrink
<1>10. ASSUME NEW r \in Req, RefreshClaim(r)
      PROVE  RevocationReachesSockets'
  <2>1. Shrinks
    BY <1>10
    DEF Shrinks, Exposed, Types, RefreshClaim, Step, Finish, born
  <2> QED
    BY <2>1, <1>shrink
<1>11. ASSUME NEW r \in Req, Deliver(r)
      PROVE  RevocationReachesSockets'
  <2>1. Shrinks
    BY <1>11
    DEF Shrinks, Exposed, Types, Deliver, Step, Finish, rows, hist
  <2> QED
    BY <2>1, <1>shrink
<1>12. ASSUME NEW r \in Req, Clear(r)
      PROVE  RevocationReachesSockets'
  <2>1. Shrinks
    BY <1>12
    DEF Shrinks, Exposed, Types, Clear, Step, Finish, rows, hist
  <2> QED
    BY <2>1, <1>shrink
<1>13. ASSUME NEW r \in Req, WriteUser(r)
      PROVE  RevocationReachesSockets'
  <2>1. Shrinks
    BY <1>13
    DEF Shrinks, Exposed, Types, WriteUser, Step, rows, hist
  <2> QED
    BY <2>1, <1>shrink
<1>14. ASSUME NEW r \in Req, EndTokens(r)
      PROVE  RevocationReachesSockets'
  <2>1. Shrinks
    BY <1>14
    DEF Shrinks, Exposed, Types, EndTokens, Step, born
  <2> QED
    BY <2>1, <1>shrink
<1>15. ASSUME NEW r \in Req, LoseResponse(r)
      PROVE  RevocationReachesSockets'
  <2>1. Shrinks
    BY <1>15
    DEF Shrinks, Exposed, Types, LoseResponse, Step, Finish, rows, born
  <2> QED
    BY <2>1, <1>shrink
<1>16. ASSUME NEW r \in Req, ResetPassword(r)
      PROVE  RevocationReachesSockets'
  <2>1. Shrinks
    BY <1>16
    DEF Shrinks, Exposed, Types, ResetPassword, Step, rows, hist
  <2> QED
    BY <2>1, <1>shrink
<1>17. ASSUME NEW r \in Req, NEW d \in Device, LoginStart(r, d)
      PROVE  RevocationReachesSockets'
  <2>1. Shrinks
    BY <1>17
    DEF Shrinks, Exposed, Types, LoginStart, Step, rows, hist
  <2> QED
    BY <2>1, <1>shrink
<1>18. ASSUME NEW r \in Req, NEW d \in Device, RefreshStart(r, d)
      PROVE  RevocationReachesSockets'
  <2>1. Shrinks
    BY <1>18
    DEF Shrinks, Exposed, Types, RefreshStart, Step, rows, hist
  <2> QED
    BY <2>1, <1>shrink
<1>19. ASSUME NEW r \in Req, NEW d \in Device, RevokeSession(r, d)
      PROVE  RevocationReachesSockets'
  <2>1. Shrinks
    BY <1>19
    DEF Shrinks, Exposed, Types, RevokeSession, EndStart, Step, rows, hist
  <2> QED
    BY <2>1, <1>shrink
<1>20. ASSUME NEW r \in Req, NEW d \in Device, Logout(r, d)
      PROVE  RevocationReachesSockets'
  <2>1. Shrinks
    BY <1>20
    DEF Shrinks, Exposed, Types, Logout, EndStart, Step, rows, hist
  <2> QED
    BY <2>1, <1>shrink
<1>21. ASSUME NEW r \in Req, NEW d \in Device, RevokeOtherSessions(r, d)
      PROVE  RevocationReachesSockets'
  <2>1. Shrinks
    BY <1>21
    DEF Shrinks, Exposed, Types, RevokeOtherSessions, EndStart, Step, rows,
      hist
  <2> QED
    BY <2>1, <1>shrink
<1>22. ASSUME NEW r \in Req, NEW d \in Device, RevokeAllSessions(r, d)
      PROVE  RevocationReachesSockets'
  <2>1. Shrinks
    BY <1>22
    DEF Shrinks, Exposed, Types, RevokeAllSessions, EndStart, Step, rows, hist
  <2> QED
    BY <2>1, <1>shrink
<1>23. ASSUME NEW r \in Req, NEW d \in Device, ChangePassword(r, d)
      PROVE  RevocationReachesSockets'
  <2>1. Shrinks
    BY <1>23
    DEF Shrinks, Exposed, Types, ChangePassword, CredentialStart, Step, rows,
      hist
  <2> QED
    BY <2>1, <1>shrink
<1>24. ASSUME NEW r \in Req, NEW d \in Device, DeleteMe(r, d)
      PROVE  RevocationReachesSockets'
  <2>1. Shrinks
    BY <1>24
    DEF Shrinks, Exposed, Types, DeleteMe, CredentialStart, Step, rows, hist
  <2> QED
    BY <2>1, <1>shrink
<1>25. ASSUME NEW k \in Socket, SocketClose(k)
      PROVE  RevocationReachesSockets'
  <2>1. Shrinks
    BY <1>25
    DEF Shrinks, Exposed, Types, SocketClose, NoSock, rows, hist
  <2> QED
    BY <2>1, <1>shrink
<1>26. ASSUME NEW k \in Socket, NEW d \in Device, SocketCheck(k, d)
      PROVE  RevocationReachesSockets'
  <2>1. Shrinks
    BY <1>26
    DEF Shrinks, Exposed, Types, SocketCheck, rows, hist
  <2> QED
    BY <2>1, <1>shrink
<1>27. ASSUME NEW t \in Token, Age(t)
      PROVE  RevocationReachesSockets'
  <2>1. Shrinks
    BY <1>27
    DEF Shrinks, Exposed, Types, Age, hist
  <2> QED
    BY <2>1, <1>shrink
<1>28. ASSUME NEW t \in Token, Expire(t)
      PROVE  RevocationReachesSockets'
  <2>1. Shrinks
    BY <1>28
    DEF Shrinks, Exposed, Types, Expire, hist
  <2> QED
    BY <2>1, <1>shrink
<1>29. ASSUME DeleteExpired
      PROVE  RevocationReachesSockets'
  <2>1. Shrinks
    BY <1>29
    DEF Shrinks, Exposed, Types, DeleteExpired, hist
  <2> QED
    BY <2>1, <1>shrink
<1>30. ASSUME Restore
      PROVE  RevocationReachesSockets'
  <2>1. Shrinks
    BY <1>30
    DEF Shrinks, Exposed, Types, Restore, rows, hist
  <2> QED
    BY <2>1, <1>shrink
<1>31. ASSUME UNCHANGED vars
      PROVE  RevocationReachesSockets'
  <2>1. Shrinks
    BY <1>31
    DEF Shrinks, Exposed, Types, vars
  <2> QED
    BY <2>1, <1>shrink
<1> QED
  BY <1>1, <1>2, <1>3, <1>4, <1>5, <1>6, <1>7, <1>8, <1>9, <1>10, <1>11,
     <1>12, <1>13, <1>14, <1>15, <1>16, <1>17, <1>18, <1>19, <1>20, <1>21,
     <1>22, <1>23, <1>24, <1>25, <1>26, <1>27, <1>28, <1>29, <1>30, <1>31
     DEF Next, Begin, Continue, Environment, LoginToken, RefreshIssue

\* Every revocation gets to the sockets that were open on its sessions
\* (revoke*, disconnectSockets).
THEOREM SocketsReached == Spec => []RevocationReachesSockets
<1>1. Init => RevocationReachesSockets
  BY DEF Init, RevocationReachesSockets, NoSock
<1> QED
  BY <1>1, TypeCorrect, SocketsStep, PTL DEF Spec

(***************************************************************************)
(* Password changes, resets and deletions.                                 *)
(***************************************************************************)
LEMMA WriteStep ==
  TypeOK /\ WriteEndsOldSessions /\ [Next]_vars => WriteEndsOldSessions'
<1> SUFFICES ASSUME Types, References, WriteEndsOldSessions, [Next]_vars
             PROVE  WriteEndsOldSessions'
  BY DEF TypeOK
<1>1. ASSUME NEW r \in Req, LoginSession(r) PROVE WriteEndsOldSessions'
  <2>1. PICK s \in Session :
          /\ sess' = [sess EXCEPT ![s] = "live"]
          /\ bornEra' = [bornEra EXCEPT ![s] = era]
          /\ req' = [req EXCEPT ![r].sid = s]
    BY <1>1 DEF LoginSession
  <2>2. pc[r] = "loginSession" /\ UNCHANGED <<era, stranded>>
        /\ \A q \in Req : q # r => pc'[q] = pc[q] /\ req'[q] = req[q]
    BY <1>1, <2>1 DEF LoginSession, Step, Types
  <2>3. ASSUME Ending PROVE Ending'
    BY <2>2, <2>3 DEF Ending
  <2>4. ~(era < era)
    BY ConstantsAssumption DEF Types, Era
  <2> QED
    BY <2>1, <2>2, <2>3, <2>4 DEF WriteEndsOldSessions, Types
<1>2. ASSUME NEW r \in Req, NEW p \in {"loginToken", "rfIssue"},
           IssueToken(r, p)
      PROVE WriteEndsOldSessions'
  BY <1>2, SMTT(30)
  DEF WriteEndsOldSessions, Ending, Targets, Types, References, LoginSteps,
    RefreshSteps, EndSteps, LocalsType, SocketType, IssueToken, Step, hist
<1>3. ASSUME NEW r \in Req, RefreshFind(r) PROVE WriteEndsOldSessions'
  BY <1>3, SMTT(30)
  DEF WriteEndsOldSessions, Ending, Targets, Types, References, LoginSteps,
    RefreshSteps, EndSteps, LocalsType, SocketType, RefreshFind, Step, Finish,
    NoReq, Locals, rows, client, born, hist
<1>4. ASSUME NEW r \in Req, RefreshSession(r) PROVE WriteEndsOldSessions'
  BY <1>4, SMTT(30)
  DEF WriteEndsOldSessions, Ending, Targets, Types, References, LoginSteps,
    RefreshSteps, EndSteps, LocalsType, SocketType, RefreshSession, Step,
    rows, hist
<1>5. ASSUME NEW r \in Req, RefreshUser(r) PROVE WriteEndsOldSessions'
  BY <1>5, SMTT(30)
  DEF WriteEndsOldSessions, Ending, Targets, Types, References, LoginSteps,
    RefreshSteps, EndSteps, LocalsType, SocketType, RefreshUser, Step, rows,
    hist
<1>6. ASSUME NEW r \in Req, RefreshClaim(r) PROVE WriteEndsOldSessions'
  BY <1>6, SMTT(30)
  DEF WriteEndsOldSessions, Ending, Targets, Types, References, LoginSteps,
    RefreshSteps, EndSteps, LocalsType, SocketType, RefreshClaim, Step,
    Finish, NoReq, Locals, born
<1>7. ASSUME NEW r \in Req, Deliver(r) PROVE WriteEndsOldSessions'
  BY <1>7, SMTT(30)
  DEF WriteEndsOldSessions, Ending, Targets, Types, References, LoginSteps,
    RefreshSteps, EndSteps, LocalsType, SocketType, Deliver, Step, Finish,
    NoReq, Locals, rows, client, born, hist
<1>8. ASSUME NEW r \in Req, Clear(r) PROVE WriteEndsOldSessions'
  BY <1>8, SMTT(30)
  DEF WriteEndsOldSessions, Ending, Targets, Types, References, LoginSteps,
    RefreshSteps, EndSteps, LocalsType, SocketType, Clear, Step, Finish,
    NoReq, Locals, rows, client, born, hist
<1>9. ASSUME NEW r \in Req, WriteUser(r) PROVE WriteEndsOldSessions'
  BY <1>9, SMTT(30)
  DEF WriteEndsOldSessions, Ending, Targets, Types, References, LoginSteps,
    RefreshSteps, EndSteps, LocalsType, SocketType, WriteUser, Step, rows,
    hist
<1>10. ASSUME NEW r \in Req, EndSessions(r) PROVE WriteEndsOldSessions'
  BY <1>10, SMTT(30)
  DEF WriteEndsOldSessions, Ending, Targets, Types, References, LoginSteps,
    RefreshSteps, EndSteps, LocalsType, SocketType, EndSessions, Targets,
    Step, Finish, NoReq, Locals, rows, client, born, hist
<1>11. ASSUME NEW r \in Req, EndTokens(r) PROVE WriteEndsOldSessions'
  BY <1>11, SMTT(30)
  DEF WriteEndsOldSessions, Ending, Targets, Types, References, LoginSteps,
    RefreshSteps, EndSteps, LocalsType, SocketType, EndTokens, Step, born
<1>12. ASSUME NEW r \in Req, EndSockets(r) PROVE WriteEndsOldSessions'
  BY <1>12, SMTT(30)
  DEF WriteEndsOldSessions, Ending, Targets, Types, References, LoginSteps,
    RefreshSteps, EndSteps, LocalsType, SocketType, EndSockets, Targets,
    NoSock, Step, Finish, NoReq, Locals, rows, client, born, hist
<1>13. ASSUME NEW r \in Req, LoseResponse(r) PROVE WriteEndsOldSessions'
  BY <1>13, SMTT(30)
  DEF WriteEndsOldSessions, Ending, Targets, Types, References, LoginSteps,
    RefreshSteps, EndSteps, LocalsType, SocketType, LoseResponse, Step,
    Finish, NoReq, Locals, rows, client, born, hist
<1>14. ASSUME NEW r \in Req, Abort(r) PROVE WriteEndsOldSessions'
  BY <1>14, SMTT(30)
  DEF WriteEndsOldSessions, Ending, Targets, Types, References, LoginSteps,
    RefreshSteps, EndSteps, LocalsType, SocketType, Abort, Left, Targets,
    Step, Finish, NoReq, Locals, rows, client, born, hist
<1>15. ASSUME NEW r \in Req, ResetPassword(r) PROVE WriteEndsOldSessions'
  BY <1>15, SMTT(30)
  DEF WriteEndsOldSessions, Ending, Targets, Types, References, LoginSteps,
    RefreshSteps, EndSteps, LocalsType, SocketType, ResetPassword, Step,
    Locals, rows, hist
<1>16. ASSUME NEW r \in Req, NEW d \in Device, LoginStart(r, d) PROVE WriteEndsOldSessions'
  BY <1>16, SMTT(30)
  DEF WriteEndsOldSessions, Ending, Targets, Types, References, LoginSteps,
    RefreshSteps, EndSteps, LocalsType, SocketType, LoginStart, Step, Locals,
    rows, hist
<1>17. ASSUME NEW r \in Req, NEW d \in Device, RefreshStart(r, d) PROVE WriteEndsOldSessions'
  BY <1>17, SMTT(30)
  DEF WriteEndsOldSessions, Ending, Targets, Types, References, LoginSteps,
    RefreshSteps, EndSteps, LocalsType, SocketType, RefreshStart, Step,
    Locals, rows, hist
<1>18. ASSUME NEW r \in Req, NEW d \in Device, RevokeSession(r, d) PROVE WriteEndsOldSessions'
  BY <1>18, SMTT(30)
  DEF WriteEndsOldSessions, Ending, Targets, Types, References, LoginSteps,
    RefreshSteps, EndSteps, LocalsType, SocketType, RevokeSession, EndStart,
    Step, Locals, rows, hist
<1>19. ASSUME NEW r \in Req, NEW d \in Device, Logout(r, d) PROVE WriteEndsOldSessions'
  BY <1>19, SMTT(30)
  DEF WriteEndsOldSessions, Ending, Targets, Types, References, LoginSteps,
    RefreshSteps, EndSteps, LocalsType, SocketType, Logout, EndStart, Step,
    Locals, rows, hist
<1>20. ASSUME NEW r \in Req, NEW d \in Device, RevokeOtherSessions(r, d) PROVE WriteEndsOldSessions'
  BY <1>20, SMTT(30)
  DEF WriteEndsOldSessions, Ending, Targets, Types, References, LoginSteps,
    RefreshSteps, EndSteps, LocalsType, SocketType, RevokeOtherSessions,
    EndStart, Step, Locals, rows, hist
<1>21. ASSUME NEW r \in Req, NEW d \in Device, RevokeAllSessions(r, d) PROVE WriteEndsOldSessions'
  BY <1>21, SMTT(30)
  DEF WriteEndsOldSessions, Ending, Targets, Types, References, LoginSteps,
    RefreshSteps, EndSteps, LocalsType, SocketType, RevokeAllSessions,
    EndStart, Step, Locals, rows, hist
<1>22. ASSUME NEW r \in Req, NEW d \in Device, ChangePassword(r, d) PROVE WriteEndsOldSessions'
  BY <1>22, SMTT(30)
  DEF WriteEndsOldSessions, Ending, Targets, Types, References, LoginSteps,
    RefreshSteps, EndSteps, LocalsType, SocketType, ChangePassword,
    CredentialStart, Step, Locals, rows, hist
<1>23. ASSUME NEW r \in Req, NEW d \in Device, DeleteMe(r, d) PROVE WriteEndsOldSessions'
  BY <1>23, SMTT(30)
  DEF WriteEndsOldSessions, Ending, Targets, Types, References, LoginSteps,
    RefreshSteps, EndSteps, LocalsType, SocketType, DeleteMe, CredentialStart,
    Step, Locals, rows, hist
<1>24. ASSUME NEW k \in Socket, SocketOpen(k) PROVE WriteEndsOldSessions'
  BY <1>24, SMTT(30)
  DEF WriteEndsOldSessions, Ending, Targets, Types, References, LoginSteps,
    RefreshSteps, EndSteps, LocalsType, SocketType, SocketOpen, rows, hist
<1>25. ASSUME NEW k \in Socket, SocketClose(k) PROVE WriteEndsOldSessions'
  BY <1>25, SMTT(30)
  DEF WriteEndsOldSessions, Ending, Targets, Types, References, LoginSteps,
    RefreshSteps, EndSteps, LocalsType, SocketType, SocketClose, NoSock, rows,
    hist
<1>26. ASSUME NEW k \in Socket, NEW d \in Device, SocketCheck(k, d) PROVE WriteEndsOldSessions'
  BY <1>26, SMTT(30)
  DEF WriteEndsOldSessions, Ending, Targets, Types, References, LoginSteps,
    RefreshSteps, EndSteps, LocalsType, SocketType, SocketCheck,
    Authenticated, rows, hist
<1>27. ASSUME NEW t \in Token, Age(t) PROVE WriteEndsOldSessions'
  BY <1>27, SMTT(30)
  DEF WriteEndsOldSessions, Ending, Targets, Types, References, LoginSteps,
    RefreshSteps, EndSteps, LocalsType, SocketType, Age, hist
<1>28. ASSUME NEW t \in Token, Expire(t) PROVE WriteEndsOldSessions'
  BY <1>28, SMTT(30)
  DEF WriteEndsOldSessions, Ending, Targets, Types, References, LoginSteps,
    RefreshSteps, EndSteps, LocalsType, SocketType, Expire, hist
<1>29. ASSUME DeleteExpired PROVE WriteEndsOldSessions'
  BY <1>29, SMTT(30)
  DEF WriteEndsOldSessions, Ending, Targets, Types, References, LoginSteps,
    RefreshSteps, EndSteps, LocalsType, SocketType, DeleteExpired, hist
<1>30. ASSUME Restore PROVE WriteEndsOldSessions'
  BY <1>30, SMTT(30)
  DEF WriteEndsOldSessions, Ending, Targets, Types, References, LoginSteps,
    RefreshSteps, EndSteps, LocalsType, SocketType, Restore, rows, hist
<1>31. ASSUME UNCHANGED vars PROVE WriteEndsOldSessions'
  BY <1>31, SMTT(30)
  DEF WriteEndsOldSessions, Ending, Targets, Types, References, LoginSteps,
    RefreshSteps, EndSteps, LocalsType, SocketType, vars
<1> QED
  BY <1>1, <1>2, <1>3, <1>4, <1>5, <1>6, <1>7, <1>8, <1>9, <1>10, <1>11,
     <1>12, <1>13, <1>14, <1>15, <1>16, <1>17, <1>18, <1>19, <1>20, <1>21,
     <1>22, <1>23, <1>24, <1>25, <1>26, <1>27, <1>28, <1>29, <1>30, <1>31
     DEF Next, Begin, Continue, Environment, LoginToken, RefreshIssue

\* A change of credentials ends every session that was there when the user row
\* was written (changePassword, resetPassword, deleteMe).
THEOREM OldSessionsEnd == Spec => []WriteEndsOldSessions
<1>1. Init => WriteEndsOldSessions
  BY DEF Init, WriteEndsOldSessions
<1> QED
  BY <1>1, TypeCorrect, WriteStep, PTL DEF Spec

(***************************************************************************)
(* Reuse detection and its causes.                                         *)
(***************************************************************************)
\* The response of r brings token t to its device; r presented token t; r has rotated t
\* and is not done.
Delivering(r, t) == pc[r] = "deliver" /\ req[r].new = t
Presents(r, t)   == req[r].tok = t
Answering(r, t)  == Presents(r, t) /\ pc[r] \in {"rfIssue", "deliver"}

\* A token is with one device or on its way there; who presents it is that device.
OneHolder ==
  \A t \in Token :
    /\ \A d, e \in Device : cookie[d] = t /\ cookie[e] = t => d = e
    /\ \A r, q \in Req : Delivering(r, t) /\ Delivering(q, t) => r = q
    /\ \A r \in Req, d \in Device : ~(Delivering(r, t) /\ cookie[d] = t)
    /\ \A r, q \in Req : ~(Delivering(r, t) /\ Presents(q, t))
    /\ \A q \in Req, d \in Device : Presents(q, t) /\ cookie[d] = t => req[q].dev = d
    /\ \A q \in Req : Presents(q, t) => pc[q] # "idle" /\ req[q].op \in {"refresh", "reuse"}

\* A rotated token whose successor was not lost, and a token that no device has any more.
Rotated(t) == endedBy[t] = "rotation" /\ t \notin lostRot /\ token[t] \in {"recent", "old"}

Gone(t) == (\A d \in Device : cookie[d] # t) /\ \A r \in Req : ~Delivering(r, t)

\* The device has let go of a rotated token, or its rotation is still being answered; when
\* the grace window is over the first holds and nobody is left to present it.
RotatedIsGone ==
  \A t \in Token : Rotated(t) =>
    /\ Gone(t) \/ \E r \in Req : Answering(r, t)
    /\ token[t] = "old" => Gone(t) /\ \A r \in Req : ~Presents(r, t)

HasCause(t) == t \in lostRot \/ endedBy[t] # "rotation"

ReuseIsSpent ==
  \A r \in Req : req[r].op = "reuse" =>
    req[r].tok \in Token /\ token[req[r].tok] \in {"old", "deleted"} /\ HasCause(req[r].tok)

ReuseInv == OneHolder /\ RotatedIsGone /\ ReuseIsSpent

\* A calm step presents, rotates and delivers no token, and ages none.
CalmRows ==
  \A t \in Token :
    /\ endedBy'[t] = "rotation" => endedBy[t] = "rotation"
    /\ endedBy'[t] = "rotation" /\ token'[t] \in {"recent", "old"} => token'[t] = token[t]
    /\ token[t] \in {"old", "deleted"} => token'[t] \in {"old", "deleted"}

CalmRequest(r) ==
  /\ req'[r].tok # None =>
       req'[r].tok = req[r].tok /\ req'[r].dev = req[r].dev /\ req'[r].op = req[r].op /\ pc'[r] # "idle"
  /\ req'[r].op = "reuse" => req[r].op = "reuse" /\ req'[r].tok = req[r].tok
  /\ pc'[r] = "deliver" => pc[r] = "deliver" /\ req'[r].new = req[r].new
  /\ pc[r] \in {"rfIssue", "deliver"} =>
       \/ pc'[r] \in {"rfIssue", "deliver"} /\ req'[r].tok = req[r].tok
       \/ req[r].tok \in lostRot' \/ req[r].op # "refresh"

Calm ==
  /\ lostRot \subseteq lostRot' /\ CalmRows
  /\ \A d \in Device : cookie'[d] \in {cookie[d], None}
  /\ \A r \in Req : CalmRequest(r)

LEMMA CalmWhen ==
  ASSUME Types, NEW r \in Req, UNCHANGED <<token, endedBy>>, lostRot \subseteq lostRot',
         \A d \in Device : cookie'[d] \in {cookie[d], None},
         \A q \in Req \ {r} : pc'[q] = pc[q] /\ req'[q] = req[q] /\ (req[q].tok # None => pc[q] # "idle"),
         CalmRequest(r)
  PROVE  Calm
<1>1. CalmRows
  BY DEF CalmRows
<1>2. \A q \in Req \ {r} : CalmRequest(q)
  BY DEF CalmRequest
<1>. QED
  BY <1>1, <1>2 DEF Calm

\* Which steps are not calm.
LEMMA CalmSteps ==
  TypeOK /\ OneHolder /\ [Next]_vars =>
    \/ Calm
    \/ \E r \in Req : \/ Claims(r) \/ Deliver(r) \/ RefreshFind(r)
                      \/ \E p \in {"loginToken", "rfIssue"} : IssueToken(r, p)
                      \/ \E d \in Device : RefreshStart(r, d)
    \/ \E t \in Token : Age(t)
<1> SUFFICES ASSUME Types, References, OneHolder, [Next]_vars,
                    ~ \E r \in Req : \/ Claims(r) \/ Deliver(r) \/ RefreshFind(r)
                                     \/ \E p \in {"loginToken", "rfIssue"} : IssueToken(r, p)
                                     \/ \E d \in Device : RefreshStart(r, d),
                    ~ \E t \in Token : Age(t)
             PROVE  Calm
  BY DEF TypeOK
<1>a. \A q \in Req : req[q].tok # None => pc[q] # "idle" /\ req[q].op \in {"refresh", "reuse"}
  BY DEF OneHolder, Presents, Types, LocalsType
<1>b. ASSUME UNCHANGED <<token, endedBy, lostRot, cookie, pc, req>> PROVE Calm
  BY <1>a, <1>b DEF Calm, CalmRows, CalmRequest, Types
\* A request that begins, without a token.
<1>c. ASSUME NEW r \in Req, NEW p, NEW o, NEW d, NEW s, NEW e, p # "deliver", o # "reuse", pc[r] = "idle",
             pc' = [pc EXCEPT ![r] = p], req' = [req EXCEPT ![r] = Locals(o, d, None, s, e, FALSE)],
             UNCHANGED <<token, endedBy, lostRot, cookie>>
      PROVE  Calm
  <2>1. /\ pc'[r] = p /\ req'[r].tok = None /\ req'[r].op = o
        /\ \A q \in Req \ {r} : pc'[q] = pc[q] /\ req'[q] = req[q]
    BY <1>c DEF Types, Locals
  <2>2. CalmRequest(r)
    BY <1>c, <2>1 DEF CalmRequest
  <2>. QED
    BY <1>a, <1>c, <2>1, <2>2, CalmWhen
\* A request that goes on, or ends.
<1>d. ASSUME NEW r \in Req, NEW p, p # "deliver", pc' = [pc EXCEPT ![r] = p], pc[r] # "idle",
             \/ req' = req /\ p # "idle"
             \/ (\E x : req' = [req EXCEPT ![r].sid = x]) /\ p # "idle"
             \/ req' = [req EXCEPT ![r] = NoReq],
             pc[r] \in {"rfIssue", "deliver"} => req[r].tok \in lostRot' \/ req[r].op # "refresh",
             UNCHANGED <<token, endedBy>>, lostRot \subseteq lostRot',
             \A d \in Device : cookie'[d] \in {cookie[d], None}
      PROVE  Calm
  <2>1. /\ pc'[r] = p
        /\ \A q \in Req \ {r} : pc'[q] = pc[q] /\ req'[q] = req[q]
    BY <1>d DEF Types
  <2>2. \/ /\ req'[r].tok = req[r].tok /\ req'[r].op = req[r].op /\ req'[r].dev = req[r].dev /\ p # "idle"
        \/ req'[r].tok = None /\ req'[r].op = "none"
    BY <1>d DEF Types, LocalsType, NoReq, Locals
  <2>3. CalmRequest(r)
    BY <1>d, <2>1, <2>2 DEF CalmRequest
  <2>. QED
    BY <1>a, <1>d, <2>1, <2>3, CalmWhen
<1>1. ASSUME NEW r \in Req, LoginSession(r) PROVE Calm
  BY <1>1, <1>d DEF LoginSession, Step, client, hist
<1>2. ASSUME NEW r \in Req, RefreshSession(r) \/ RefreshUser(r) PROVE Calm
  BY <1>2, <1>d DEF RefreshSession, RefreshUser, Step, rows, client, hist
<1>3. ASSUME NEW r \in Req, RefreshClaim(r) PROVE Calm
  <2>1. token[req[r].tok] # "active"
    BY <1>3 DEF Claims
  <2>. QED
    BY <1>3, <1>d, <2>1 DEF RefreshClaim, Step, Finish, client
<1>4. ASSUME NEW r \in Req, Clear(r) PROVE Calm
  <2>1. \A d \in Device : cookie'[d] \in {cookie[d], None}
    BY <1>4 DEF Clear, Types
  <2>. QED
    BY <1>4, <1>d, <2>1 DEF Clear, Step, Finish, rows, hist
<1>5. ASSUME NEW r \in Req, WriteUser(r) PROVE Calm
  BY <1>5, <1>d DEF WriteUser, Step, rows, client, hist
<1>6. ASSUME NEW r \in Req, EndSessions(r) PROVE Calm
  <2>1. \E p \in {"tokens", "sockets", "idle"} :
          /\ pc' = [pc EXCEPT ![r] = p]
          /\ (req' = req /\ p # "idle") \/ req' = [req EXCEPT ![r] = NoReq]
    BY <1>6 DEF EndSessions, Step, Finish
  <2>. QED
    BY <1>6, <1>d, <2>1 DEF EndSessions, client, hist
<1>7. ASSUME NEW r \in Req, EndTokens(r) PROVE Calm
  <2>1. /\ pc[r] = "tokens" /\ pc' = [pc EXCEPT ![r] = "sockets"] /\ UNCHANGED <<req, cookie, lostRot>>
    BY <1>7 DEF EndTokens, Step, client
  <2>2. \A t \in Token : \/ token'[t] = token[t] /\ endedBy'[t] = endedBy[t]
                         \/ token[t] = "active" /\ endedBy'[t] \in {"one", "many"}
    BY <1>7 DEF EndTokens
  <2>3. CalmRows
    BY <2>2 DEF CalmRows
  <2>4. \A q \in Req : CalmRequest(q)
    BY <1>a, <2>1 DEF CalmRequest, Types
  <2>. QED
    BY <2>1, <2>3, <2>4 DEF Calm
<1>8. ASSUME NEW r \in Req, EndSockets(r) PROVE Calm
  BY <1>8, <1>d DEF EndSockets, Step, Finish, rows, client, hist
<1>9. ASSUME NEW r \in Req, LoseResponse(r) PROVE Calm
  <2>1. /\ pc[r] \in {"deliver", "clear"} /\ pc' = [pc EXCEPT ![r] = "idle"]
        /\ req' = [req EXCEPT ![r] = NoReq] /\ UNCHANGED <<token, endedBy, cookie>>
        /\ lostRot' = IF pc[r] = "deliver" /\ req[r].op = "refresh" THEN lostRot \cup {req[r].tok} ELSE lostRot
    BY <1>9 DEF LoseResponse, Finish, Step, rows, client
  <2>. QED
    BY <1>d, <2>1
<1>10. ASSUME NEW r \in Req, Abort(r) PROVE Calm
  <2>1. /\ pc[r] \notin {"idle", "deliver"} /\ UNCHANGED <<token, endedBy, cookie>>
        /\ lostRot' = IF pc[r] = "rfIssue" THEN lostRot \cup {req[r].tok} ELSE lostRot
        /\ \E p \in {"idle", "clear"} :
             /\ pc' = [pc EXCEPT ![r] = p]
             /\ (req' = req /\ p # "idle") \/ req' = [req EXCEPT ![r] = NoReq]
    BY <1>10 DEF Abort, Finish, Step, rows, client, LoginSteps, RefreshSteps, EndSteps
  <2>. QED
    BY <1>d, <2>1
<1>11. ASSUME NEW r \in Req, ResetPassword(r) PROVE Calm
  BY <1>11, <1>c DEF ResetPassword, Step, rows, client, hist
<1>12. ASSUME NEW r \in Req, NEW d \in Device, LoginStart(r, d) PROVE Calm
  BY <1>12, <1>c DEF LoginStart, Step, rows, client, hist
<1>13. ASSUME NEW r \in Req, NEW d \in Device, NEW o \in {"end", "logout", "others", "all"}, NEW s, EndStart(r, d, o, s) PROVE Calm
  BY <1>13, <1>c DEF EndStart, Step, rows, client, hist
<1>14. ASSUME NEW r \in Req, NEW d \in Device, NEW o \in {"password", "delete"}, CredentialStart(r, d, o) PROVE Calm
  BY <1>14, <1>c DEF CredentialStart, Step, rows, client, hist
<1>15. ASSUME NEW k \in Socket, SocketOpen(k) \/ SocketClose(k) \/ \E d \in Device : SocketCheck(k, d) PROVE Calm
  BY <1>15, <1>b DEF SocketOpen, SocketClose, SocketCheck, rows, client, hist
<1>16. ASSUME NEW t \in Token, Expire(t) PROVE Calm
  BY <1>16, <1>b DEF Expire, client, hist
<1>17. ASSUME DeleteExpired PROVE Calm
  <2>1. UNCHANGED <<endedBy, lostRot, cookie, pc, req>> /\ \A t \in Token : token'[t] \in {token[t], "deleted"}
    BY <1>17 DEF DeleteExpired, client, hist
  <2>2. CalmRows
    BY <2>1 DEF CalmRows
  <2>3. \A q \in Req : CalmRequest(q)
    BY <1>a, <2>1 DEF CalmRequest, Types
  <2>. QED
    BY <2>1, <2>2, <2>3 DEF Calm
<1>18. CASE Restore
  BY <1>18, <1>b DEF Restore, rows, client, hist
<1>19. CASE UNCHANGED vars
  BY <1>19, <1>b DEF vars
<1>. QED
  BY <1>1, <1>2, <1>3, <1>4, <1>5, <1>6, <1>7, <1>8, <1>9, <1>10, <1>11, <1>12, <1>13, <1>14, <1>15, <1>16,
     <1>17, <1>18, <1>19
  DEF Next, Begin, Continue, Environment, LoginToken, RefreshIssue, RevokeSession, Logout,
      RevokeOtherSessions, RevokeAllSessions, ChangePassword, DeleteMe

LEMMA CalmKeeps == TypeOK /\ ReuseInv /\ Calm => ReuseInv'
<1> SUFFICES ASSUME Types, References, ReuseInv, Calm PROVE ReuseInv'
  BY DEF TypeOK
<1>0. /\ \A t \in Token : t # None
      /\ \A r \in Req, t \in Token : Delivering(r, t)' => Delivering(r, t)
      /\ \A r \in Req, t \in Token : Presents(r, t)' =>
           Presents(r, t) /\ req'[r].dev = req[r].dev /\ req'[r].op = req[r].op /\ pc'[r] # "idle"
      /\ \A d \in Device, t \in Token : cookie'[d] = t => cookie[d] = t
  BY ConstantsAssumption DEF Calm, CalmRequest, Delivering, Presents
<1>1. OneHolder'
  BY <1>0 DEF ReuseInv, OneHolder
<1>2. \A t \in Token : Rotated(t)' => Rotated(t) /\ token'[t] = token[t]
  BY DEF Calm, CalmRows, Rotated
<1>3. \A t \in Token : Gone(t) => Gone(t)'
  BY <1>0 DEF Gone
<1>4. \A r \in Req, t \in Token : Answering(r, t) /\ t \notin lostRot' => Answering(r, t)'
  <2>1. \A r \in Req, t \in Token : Answering(r, t) => req[r].op = "refresh"
    BY DEF Answering, Presents, References, RefreshSteps, ReuseInv, OneHolder
  <2>. QED
    BY <2>1 DEF Calm, CalmRequest, Answering, Presents
<1>5. RotatedIsGone'
  <2>. SUFFICES ASSUME NEW t \in Token, Rotated(t)'
                PROVE  /\ Gone(t)' \/ \E r \in Req : Answering(r, t)'
                       /\ token'[t] = "old" => Gone(t)' /\ \A r \in Req : ~Presents(r, t)'
    BY DEF RotatedIsGone
  <2>1. Rotated(t) /\ token'[t] = token[t] /\ t \notin lostRot'
    BY <1>2 DEF Rotated
  <2>2. Gone(t) \/ \E r \in Req : Answering(r, t)
    BY <2>1 DEF ReuseInv, RotatedIsGone
  <2>3. token[t] = "old" => Gone(t) /\ \A r \in Req : ~Presents(r, t)
    BY <2>1 DEF ReuseInv, RotatedIsGone
  <2>. QED
    BY <1>0, <1>3, <1>4, <2>1, <2>2, <2>3
<1>6. ReuseIsSpent'
  BY DEF Calm, CalmRows, CalmRequest, ReuseInv, ReuseIsSpent, HasCause
<1>. QED
  BY <1>1, <1>5, <1>6 DEF ReuseInv

\* A device presents the token it has.
LEMMA PresentKeeps ==
  ASSUME Types, References, ReuseInv, NEW r \in Req, NEW d \in Device, RefreshStart(r, d)
  PROVE  ReuseInv'
<1> DEFINE c == cookie[d]
<1>1. /\ pc[r] = "idle" /\ c \in Token /\ pc' = [pc EXCEPT ![r] = "rfFind"]
      /\ UNCHANGED <<token, endedBy, lostRot, cookie>>
      /\ \E x : req' = [req EXCEPT ![r] = Locals("refresh", d, c, None, 0, x)]
  BY DEF RefreshStart, Step, Types, rows, client, hist
<1>2. /\ pc'[r] = "rfFind" /\ req'[r].tok = c /\ req'[r].dev = d /\ req'[r].op = "refresh"
      /\ \A q \in Req \ {r} : pc'[q] = pc[q] /\ req'[q] = req[q]
  BY <1>1 DEF Types, Locals
<1>. HIDE DEF c
<1>3. /\ \A q \in Req, t \in Token : Delivering(q, t)' <=> (q # r /\ Delivering(q, t))
      /\ \A q \in Req, t \in Token : Presents(q, t)' <=> IF q = r THEN t = c ELSE Presents(q, t)
      /\ \A q \in Req, t \in Token : Answering(q, t)' <=> (q # r /\ Answering(q, t))
      /\ \A q \in Req, t \in Token : Delivering(q, t) \/ Answering(q, t) => q # r
  BY <1>1, <1>2 DEF Delivering, Presents, Answering
<1>4. OneHolder'
  <2>1. \A q \in Req : ~Delivering(q, c)
    BY <1>1 DEF c, ReuseInv, OneHolder
  <2>2. \A e \in Device : cookie[e] = c => e = d
    BY <1>1 DEF c, ReuseInv, OneHolder
  <2>. QED
    BY <1>1, <1>2, <1>3, <2>1, <2>2 DEF ReuseInv, OneHolder
<1>5. RotatedIsGone'
  <2>1. \A t \in Token : Rotated(t)' <=> Rotated(t)
    BY <1>1 DEF Rotated
  <2>2. \A t \in Token : Gone(t) => Gone(t)' /\ t # c
    BY <1>1, <1>3 DEF Gone, c
  <2>. QED
    BY <1>1, <1>3, <2>1, <2>2 DEF ReuseInv, RotatedIsGone
<1>6. ReuseIsSpent'
  BY <1>1, <1>2 DEF ReuseInv, ReuseIsSpent, HasCause
<1>. QED
  BY <1>4, <1>5, <1>6 DEF ReuseInv

\* A token that was rotated and answered is not presented when it is old: whoever presents
\* an old token has a cause.
LEMMA FindKeeps ==
  ASSUME Types, References, ReuseInv, NEW r \in Req, RefreshFind(r)
  PROVE  ReuseInv'
<1> DEFINE t == req[r].tok
<1>1. /\ pc[r] = "rfFind" /\ t \in Token /\ UNCHANGED <<token, endedBy, lostRot, cookie>>
  BY DEF RefreshFind, References, RefreshSteps, rows, client, hist
<1>2. CASE token[t] = "old" /\ pc' = [pc EXCEPT ![r] = "sessions"] /\ req' = [req EXCEPT ![r].op = "reuse"]
  <2>1. /\ pc'[r] = "sessions" /\ req'[r].tok = t /\ req'[r].op = "reuse" /\ req'[r].dev = req[r].dev
        /\ \A q \in Req \ {r} : pc'[q] = pc[q] /\ req'[q] = req[q]
    BY <1>2 DEF Types, LocalsType
  <2>2. HasCause(t)
    BY <1>1, <1>2 DEF ReuseInv, RotatedIsGone, Rotated, HasCause, Presents
  <2>. HIDE DEF t
  <2>3. /\ \A q \in Req, u \in Token : Delivering(q, u)' <=> Delivering(q, u)
        /\ \A q \in Req, u \in Token : Presents(q, u)' <=> Presents(q, u)
        /\ \A q \in Req, u \in Token : Answering(q, u)' <=> Answering(q, u)
    BY <1>1, <2>1 DEF Delivering, Presents, Answering, t
  <2>4. OneHolder'
    BY <1>1, <2>1, <2>3 DEF ReuseInv, OneHolder
  <2>5. RotatedIsGone'
    BY <1>1, <2>3 DEF ReuseInv, RotatedIsGone, Rotated, Gone
  <2>6. ReuseIsSpent'
    BY <1>1, <1>2, <2>1, <2>2 DEF ReuseInv, ReuseIsSpent, HasCause
  <2>. QED
    BY <2>4, <2>5, <2>6 DEF ReuseInv
<1>3. CASE \E p \in {"clear", "idle", "rfSession"} :
             /\ pc' = [pc EXCEPT ![r] = p]
             /\ \/ req' = req /\ p # "idle"
                \/ (\E x : req' = [req EXCEPT ![r].sid = x]) /\ p # "idle"
                \/ req' = [req EXCEPT ![r] = NoReq]
  <2>1. PICK p \in {"clear", "idle", "rfSession"} :
             /\ pc' = [pc EXCEPT ![r] = p]
             /\ \/ req' = req /\ p # "idle"
                \/ (\E x : req' = [req EXCEPT ![r].sid = x]) /\ p # "idle"
                \/ req' = [req EXCEPT ![r] = NoReq]
    BY <1>3
  <2>2. pc'[r] = p /\ \A q \in Req \ {r} : pc'[q] = pc[q] /\ req'[q] = req[q]
    BY <2>1 DEF Types
  <2>3. \/ /\ req'[r].tok = req[r].tok /\ req'[r].op = req[r].op /\ req'[r].dev = req[r].dev /\ p # "idle"
        \/ req'[r].tok = None /\ req'[r].op = "none"
    BY <2>1 DEF Types, LocalsType, NoReq, Locals
  <2>4. CalmRequest(r)
    BY <1>1, <2>2, <2>3 DEF CalmRequest
  <2>5. \A q \in Req : req[q].tok # None => pc[q] # "idle"
    BY DEF ReuseInv, OneHolder, Presents, Types, LocalsType
  <2>6. Calm
    BY <1>1, <2>2, <2>4, <2>5, CalmWhen
  <2>. QED
    BY <2>6, CalmKeeps DEF TypeOK
<1>. QED
  BY <1>2, <1>3 DEF RefreshFind, Step, Finish

LEMMA ClaimKeeps ==
  ASSUME Types, References, ReuseInv, NEW r \in Req, Claims(r)
  PROVE  ReuseInv'
<1>0. PICK c \in Token : c = req[r].tok
  BY DEF Claims, RefreshClaim, References, RefreshSteps
<1>1. /\ pc[r] = "rfClaim" /\ c \in Token /\ token[c] = "active" /\ pc' = [pc EXCEPT ![r] = "rfIssue"]
      /\ token' = [token EXCEPT ![c] = "recent"] /\ endedBy' = [endedBy EXCEPT ![c] = "rotation"]
      /\ UNCHANGED <<req, cookie, lostRot>>
  BY <1>0 DEF Claims, RefreshClaim, Step, client
<1>2. /\ \A q \in Req, u \in Token : Delivering(q, u)' <=> Delivering(q, u)
      /\ \A q \in Req, u \in Token : Presents(q, u)' <=> Presents(q, u)
      /\ \A q \in Req, u \in Token : Answering(q, u) => Answering(q, u)'
      /\ Answering(r, c)'
  BY <1>0, <1>1 DEF Delivering, Presents, Answering, Types
<1>3. /\ token'[c] = "recent" /\ \A u \in Token \ {c} : token'[u] = token[u] /\ endedBy'[u] = endedBy[u]
      /\ \A q \in Req : pc[q] # "idle" => pc'[q] # "idle"
  BY <1>1 DEF Types
<1>4. OneHolder'
  BY <1>1, <1>2, <1>3 DEF ReuseInv, OneHolder
<1>5. RotatedIsGone'
  <2>. SUFFICES ASSUME NEW t \in Token, Rotated(t)'
                PROVE  /\ Gone(t)' \/ \E q \in Req : Answering(q, t)'
                       /\ token'[t] = "old" => Gone(t)' /\ \A q \in Req : ~Presents(q, t)'
    BY DEF RotatedIsGone
  <2>1. CASE t = c
    BY <1>2, <1>3, <2>1
  <2>2. CASE t # c
    <3>1. Rotated(t) /\ token'[t] = token[t]
      BY <1>1, <1>3, <2>2 DEF Rotated
    <3>2. Gone(t) => Gone(t)'
      BY <1>1, <1>2 DEF Gone
    <3>3. (Gone(t) \/ \E q \in Req : Answering(q, t)) /\ (token[t] = "old" => Gone(t) /\ \A q \in Req : ~Presents(q, t))
      BY <3>1 DEF ReuseInv, RotatedIsGone
    <3>. QED
      BY <1>2, <3>1, <3>2, <3>3
  <2>. QED
    BY <2>1, <2>2
<1>6. ReuseIsSpent'
  BY <1>1, <1>3 DEF ReuseInv, ReuseIsSpent, HasCause
<1>. QED
  BY <1>4, <1>5, <1>6 DEF ReuseInv

\* The token that is issued is with nobody.
LEMMA IssueKeeps ==
  ASSUME Types, References, ReuseInv, NEW r \in Req, NEW p \in {"loginToken", "rfIssue"}, IssueToken(r, p)
  PROVE  ReuseInv'
<1>1. PICK n \in Token : /\ token[n] = "none" /\ token' = [token EXCEPT ![n] = "active"]
                         /\ req' = [req EXCEPT ![r].new = n] /\ pc[r] = p /\ pc' = [pc EXCEPT ![r] = "deliver"]
                         /\ UNCHANGED <<endedBy, lostRot, cookie>>
  BY DEF IssueToken, Step, client, hist
<1>2. /\ pc'[r] = "deliver" /\ req'[r].new = n /\ req'[r].tok = req[r].tok /\ req'[r].dev = req[r].dev
      /\ req'[r].op = req[r].op /\ \A q \in Req \ {r} : pc'[q] = pc[q] /\ req'[q] = req[q]
      /\ token'[n] = "active" /\ \A t \in Token \ {n} : token'[t] = token[t]
  BY <1>1 DEF Types, LocalsType
<1>3. /\ \A q \in Req, t \in Token : Delivering(q, t)' <=> IF q = r THEN t = n ELSE Delivering(q, t)
      /\ \A q \in Req, t \in Token : Presents(q, t)' <=> Presents(q, t)
      /\ \A q \in Req, t \in Token : Answering(q, t) => Answering(q, t)'
      /\ \A t \in Token : ~Delivering(r, t)
  BY <1>1, <1>2 DEF Delivering, Presents, Answering
<1>4. /\ \A q \in Req : ~Delivering(q, n) /\ ~Presents(q, n)
      /\ \A d \in Device : cookie[d] # n
  <2>1. \A q \in Req : ~Presents(q, n)
    BY <1>1 DEF Presents, ReuseInv, OneHolder, References
  <2>. QED
    BY <1>1, <2>1, ConstantsAssumption DEF Delivering, References
<1>5. OneHolder'
  BY <1>1, <1>2, <1>3, <1>4 DEF ReuseInv, OneHolder
<1>6. RotatedIsGone'
  <2>. SUFFICES ASSUME NEW t \in Token, Rotated(t)'
                PROVE  /\ Gone(t)' \/ \E q \in Req : Answering(q, t)'
                       /\ token'[t] = "old" => Gone(t)' /\ \A q \in Req : ~Presents(q, t)'
    BY DEF RotatedIsGone
  <2>1. t # n /\ Rotated(t) /\ token'[t] = token[t]
    BY <1>1, <1>2 DEF Rotated
  <2>2. Gone(t) => Gone(t)'
    BY <1>1, <1>3, <2>1 DEF Gone
  <2>3. (Gone(t) \/ \E q \in Req : Answering(q, t)) /\ (token[t] = "old" => Gone(t) /\ \A q \in Req : ~Presents(q, t))
    BY <2>1 DEF ReuseInv, RotatedIsGone
  <2>. QED
    BY <1>3, <2>1, <2>2, <2>3
<1>7. ReuseIsSpent'
  BY <1>1, <1>2 DEF ReuseInv, ReuseIsSpent, HasCause
<1>. QED
  BY <1>5, <1>6, <1>7 DEF ReuseInv

\* The device lets go of the token it presented.
LEMMA DeliverKeeps ==
  ASSUME Types, References, ReuseInv, NEW r \in Req, Deliver(r)
  PROVE  ReuseInv'
<1> DEFINE n == req[r].new
           d == req[r].dev
<1>1. /\ pc[r] = "deliver" /\ n \in Token /\ d \in Device /\ cookie' = [cookie EXCEPT ![d] = n]
      /\ pc' = [pc EXCEPT ![r] = "idle"] /\ req' = [req EXCEPT ![r] = NoReq]
      /\ UNCHANGED <<token, endedBy, lostRot>> /\ Delivering(r, n)
  BY DEF Deliver, References, Finish, Step, rows, hist, Delivering
<1>2. /\ pc'[r] = "idle" /\ req'[r] = NoReq /\ \A q \in Req \ {r} : pc'[q] = pc[q] /\ req'[q] = req[q]
      /\ cookie'[d] = n /\ \A e \in Device \ {d} : cookie'[e] = cookie[e]
      /\ \A q \in Req, t \in Token : Answering(q, t) => Presents(q, t)
  BY <1>1 DEF Types, Answering
<1>3. /\ \A q \in Req, t \in Token : Delivering(q, t)' <=> (q # r /\ Delivering(q, t))
      /\ \A q \in Req, t \in Token : Presents(q, t)' <=> (q # r /\ Presents(q, t))
      /\ \A q \in Req, t \in Token : Answering(q, t)' <=> (q # r /\ Answering(q, t))
  BY <1>2, ConstantsAssumption DEF Delivering, Presents, Answering, NoReq, Locals
<1>4. \A t \in Token : Presents(r, t) => \A e \in Device : cookie[e] = t => e = d
  BY DEF ReuseInv, OneHolder
<1>. HIDE DEF n, d
<1>5. OneHolder'
  BY <1>1, <1>2, <1>3 DEF ReuseInv, OneHolder
<1>6. RotatedIsGone'
  <2>. SUFFICES ASSUME NEW t \in Token, Rotated(t)
                PROVE  /\ Gone(t)' \/ \E q \in Req : Answering(q, t)'
                       /\ token[t] = "old" => Gone(t)' /\ \A q \in Req : ~Presents(q, t)'
    BY <1>1 DEF RotatedIsGone, Rotated
  <2>1. Gone(t) => Gone(t)'
    BY <1>1, <1>2, <1>3 DEF Gone
  <2>2. Answering(r, t) => Gone(t)'
    <3>. SUFFICES ASSUME Presents(r, t) PROVE Gone(t)'
      BY <1>2
    <3>1. \A q \in Req : ~Delivering(q, t)
      BY DEF ReuseInv, OneHolder
    <3>2. t # n
      BY <1>1, <3>1
    <3>. QED
      BY <1>2, <1>3, <1>4, <3>1, <3>2 DEF Gone
  <2>3. (Gone(t) \/ \E q \in Req : Answering(q, t)) /\ (token[t] = "old" => Gone(t) /\ \A q \in Req : ~Presents(q, t))
    BY DEF ReuseInv, RotatedIsGone
  <2>. QED
    BY <1>3, <2>1, <2>2, <2>3
<1>7. ReuseIsSpent'
  BY <1>1, <1>2 DEF ReuseInv, ReuseIsSpent, HasCause, NoReq, Locals
<1>. QED
  BY <1>5, <1>6, <1>7 DEF ReuseInv

\* The grace window of a token closes when its requests are served and answered.
LEMMA AgeKeeps ==
  ASSUME Timely, Types, References, ReuseInv, NEW a \in Token, Age(a)
  PROVE  ReuseInv'
<1>1. /\ \A r \in Req : ~Presents(r, a) /\ ~Answering(r, a)
      /\ token[a] = "recent" /\ token' = [token EXCEPT ![a] = "old"]
      /\ UNCHANGED <<endedBy, lostRot, cookie, pc, req>>
  BY DEF Age, Presents, Answering, client, hist
<1>2. token'[a] = "old" /\ \A t \in Token \ {a} : token'[t] = token[t]
  BY <1>1 DEF Types
<1>3. OneHolder'
  BY <1>1 DEF ReuseInv, OneHolder, Delivering, Presents
<1>4. RotatedIsGone'
  BY <1>1, <1>2 DEF ReuseInv, RotatedIsGone, Rotated, Gone, Delivering, Presents, Answering
<1>5. ReuseIsSpent'
  BY <1>1, <1>2 DEF ReuseInv, ReuseIsSpent, HasCause
<1>. QED
  BY <1>3, <1>4, <1>5 DEF ReuseInv

LEMMA ReuseStep == Timely /\ TypeOK /\ ReuseInv /\ [Next]_vars => ReuseInv'
BY CalmSteps, CalmKeeps, PresentKeeps, FindKeeps, ClaimKeeps, IssueKeeps, DeliverKeeps, AgeKeeps
DEF TypeOK, ReuseInv

\* Reuse detection strikes only a token whose rotation was never answered or that was
\* revoked with its session, for any number of devices, tokens and requests, as long as
\* requests are faster than the grace window (refreshAccessToken, refreshTokenReuseGraceMs).
THEOREM ReuseCaused == Timely => (Spec => []ReuseHasCause)
<1> SUFFICES ASSUME Timely PROVE Spec => []ReuseHasCause
  OBVIOUS
<1>1. Init => ReuseInv
  BY ConstantsAssumption DEF Init, ReuseInv, OneHolder, RotatedIsGone, ReuseIsSpent, Rotated, Delivering, Presents,
     NoReq, Locals
<1>2. ReuseInv => ReuseHasCause
  BY DEF ReuseInv, ReuseIsSpent, ReuseHasCause, HasCause
<1> QED
  BY <1>1, <1>2, TypeCorrect, ReuseStep, PTL DEF Spec
=============================================================================
