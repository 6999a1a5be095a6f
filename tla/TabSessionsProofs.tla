-------------------------- MODULE TabSessionsProofs --------------------------
(***************************************************************************)
(* Proofs about TabSessions: however many tabs, sign-ins and accidents.    *)
(***************************************************************************)
EXTENDS TabSessions, TLAPS

(***************************************************************************)
(* The invariant.  While the browser has Web Locks, nothing was lost or    *)
(* crossed, and the session signed in to last is alive, its newest token   *)
(* is in the cookie or in the one answer that is on its way to it; so what *)
(* the tab with the lock presents is the newest, and is not refused.       *)
(***************************************************************************)
Token      == (0..MaxSession) \X Nat
Refreshing == [at : {"none", "queued", "sent", "answered", "wait"}, tok : Token,
               again : BOOLEAN, res : {"none", "ok", "rotated", "refused"}]
Accesses   == [s : 0..MaxSession, fresh : BOOLEAN]
Requests   == {"none", "get", "logout", "get again", "logout again", "bye", "failed"}
Waiting    == {"load", "request", "socket"}

TabTypeOK ==
  /\ cookie \in Token /\ hint \in BOOLEAN
  /\ gen \in [Session -> Nat \ {0}] /\ aged \in [Session -> Nat]
  /\ alive \in [Session -> BOOLEAN] /\ cur \in Session
  /\ user \in [Tab -> {"loading", "out", "in"}]
  /\ access \in [Tab -> Accesses]
  /\ refresh \in [Tab -> Refreshing]
  /\ want \in [Tab -> SUBSET Waiting]
  /\ req \in [Tab -> Requests]
  /\ events \in 0..MaxEvents
  /\ lost \in BOOLEAN /\ kicked \in BOOLEAN /\ crossed \in BOOLEAN

\* A session that was not signed in to yet is not alive, and has its first token.
SignedInBefore == \A s \in Session : (alive[s] => s <= cur) /\ (s > cur => gen[s] = 1)

Holds(t) == refresh[t].at \notin {"none", "queued"}

\* At most one tab has the lock.
OneHolds == Locks => \A t, u \in Tab : Holds(t) /\ Holds(u) => t = u

Calm   == Locks /\ ~lost /\ ~crossed /\ alive[cur]
Newest == <<cur, gen[cur]>>

\* The last session is alive: nobody's logout was answered.
NoBye == Calm => \A t \in Tab : req[t] # "bye"

JarIsNewest   == Calm => cookie = Newest \/ \E t \in Tab : refresh[t].at = "answered"
SentNewest    == Calm => \A t \in Tab : refresh[t].at = "sent" => refresh[t].tok = Newest
AnswersNewest ==
  Calm => \A t \in Tab : refresh[t].at = "answered"
                           => refresh[t].res = "ok" /\ refresh[t].tok = Newest

TokensInv == NoBye /\ JarIsNewest /\ SentNewest /\ AnswersNewest
TabInv    == TabTypeOK /\ SignedInBefore /\ OneHolds /\ TokensInv /\ AliveIsNotKicked

LEMMA TabInitHolds == TabInit => TabInv
<1>. SUFFICES ASSUME TabInit PROVE TabInv
  OBVIOUS
<1>1. 1 \in Session /\ MaxEvents \in Nat /\ Session \subseteq Nat
  BY TabAssumption, SMT DEF Session
<1>2. TabTypeOK
  <2>1. NoRefresh \in Refreshing /\ <<1, 2>> \in Token
    BY TabAssumption, SMT DEF NoRefresh, NoCookie, Refreshing, Token
  <2>2. [s |-> 1, fresh |-> TRUE] \in Accesses
    BY TabAssumption, SMT DEF Accesses
  <2>3. gen \in [Session -> Nat \ {0}] /\ aged \in [Session -> Nat]
    BY <1>1, SMT DEF TabInit
  <2>4. cookie \in Token /\ hint \in BOOLEAN /\ alive \in [Session -> BOOLEAN] /\ cur \in Session
    BY <1>1, <2>1 DEF TabInit
  <2>5. /\ user \in [Tab -> {"loading", "out", "in"}] /\ req \in [Tab -> Requests]
        /\ access \in [Tab -> Accesses] /\ refresh \in [Tab -> Refreshing]
    BY <2>1, <2>2 DEF TabInit, Requests
  <2>6. want \in [Tab -> SUBSET Waiting]
    BY DEF TabInit
  <2>7. events \in 0..MaxEvents
    BY <1>1, SMT DEF TabInit
  <2>8. lost \in BOOLEAN /\ kicked \in BOOLEAN /\ crossed \in BOOLEAN
    BY DEF TabInit
  <2>. QED
    BY <2>3, <2>4, <2>5, <2>6, <2>7, <2>8 DEF TabTypeOK
<1>3. SignedInBefore
  <2>1. cur = 1 /\ \A s \in Session : (alive[s] <=> s = 1) /\ (s # 1 => gen[s] = 1)
    BY <1>1 DEF TabInit
  <2>. QED
    BY <1>1, <2>1, SMT DEF SignedInBefore
<1>4. \A t \in Tab : refresh[t].at = "none"
  BY DEF TabInit, NoRefresh
<1>5. OneHolds /\ SentNewest /\ AnswersNewest
  BY <1>4 DEF OneHolds, Holds, SentNewest, AnswersNewest
<1>6. NoBye /\ JarIsNewest /\ AliveIsNotKicked
  BY <1>1, SMT DEF TabInit, NoBye, JarIsNewest, AliveIsNotKicked, Newest
<1>. QED
  BY <1>2, <1>3, <1>5, <1>6 DEF TabInv, TokensInv

(***************************************************************************)
(* Types, action by action.                                                *)
(***************************************************************************)
\* A tab's refresh moves on.
LEMMA RefreshTyped ==
  ASSUME TabTypeOK, NEW t \in Tab, NEW r \in Refreshing, refresh' = [refresh EXCEPT ![t] = r]
  PROVE  /\ refresh' \in [Tab -> Refreshing] /\ refresh'[t] = r
         /\ \A u \in Tab \ {t} : refresh'[u] = refresh[u]
BY DEF TabTypeOK

LEMMA AccessTyped ==
  ASSUME TabTypeOK, NEW t \in Tab, NEW a \in Accesses, access' = [access EXCEPT ![t] = a]
  PROVE  access' \in [Tab -> Accesses]
BY DEF TabTypeOK

LEMMA Bounds ==
  /\ NoCookie \in Token /\ NoAccess \in Accesses /\ NoRefresh \in Refreshing
  /\ [NoRefresh EXCEPT !.at = "queued"] \in Refreshing
  /\ MaxEvents \in Nat /\ MaxSession \in Nat /\ Session \subseteq Nat
<1>1. MaxEvents \in Nat /\ MaxSession \in Nat /\ Session \subseteq Nat /\ 0 \in 0..MaxSession
  BY TabAssumption, SMT DEF Session
<1>2. NoCookie \in Token /\ NoAccess \in Accesses
  BY <1>1 DEF NoCookie, NoAccess, Token, Accesses
<1>3. NoRefresh \in Refreshing /\ [NoRefresh EXCEPT !.at = "queued"] \in Refreshing
  BY <1>2 DEF NoRefresh, Refreshing
<1>. QED
  BY <1>1, <1>2, <1>3

LEMMA HappensTyped ==
  ASSUME TabTypeOK, Happens PROVE events' \in 0..MaxEvents
BY Bounds, SMT DEF TabTypeOK, Happens

LEMMA LoadTyped ==
  ASSUME TabTypeOK, NEW t \in Tab, Load(t) PROVE TabTypeOK'
<1>1. access' \in [Tab -> Accesses] /\ refresh' \in [Tab -> Refreshing]
  BY Bounds DEF Load, TabTypeOK
<1>2. req' \in [Tab -> Requests] /\ want' \in [Tab -> SUBSET Waiting]
      /\ user' \in [Tab -> {"loading", "out", "in"}]
  BY DEF Load, TabTypeOK, Requests, Waiting
<1>3. events' \in 0..MaxEvents /\ lost' \in BOOLEAN
  BY HappensTyped DEF Load, TabTypeOK
<1>. QED
  BY <1>1, <1>2, <1>3 DEF Load, TabTypeOK, jar, server

LEMMA DedupeTyped ==
  ASSUME TabTypeOK, NEW t \in Tab, NEW who \in Waiting, DedupeRefresh(t, who)
  PROVE  /\ want' \in [Tab -> SUBSET Waiting] /\ refresh' \in [Tab -> Refreshing]
         /\ \A u \in Tab : Holds(u)' = Holds(u) /\ (Holds(u) => refresh'[u] = refresh[u])
<1>1. refresh[t] \in Refreshing
  BY DEF TabTypeOK
<1> DEFINE r == [refresh[t] EXCEPT !.at = IF @ = "none" THEN "queued" ELSE @]
<1>2. r \in Refreshing /\ (r.at \in {"none", "queued"} <=> refresh[t].at \in {"none", "queued"})
      /\ (refresh[t].at # "none" => r = refresh[t])
  BY <1>1 DEF Refreshing
<1>3. refresh' = [refresh EXCEPT ![t] = r]
  BY DEF DedupeRefresh, TabTypeOK
<1>. HIDE DEF r
<1>4. want' \in [Tab -> SUBSET Waiting]
  BY DEF DedupeRefresh, TabTypeOK
<1>. QED
  BY <1>2, <1>3, <1>4, RefreshTyped DEF Holds

LEMMA SendTyped ==
  ASSUME TabTypeOK, NEW t \in Tab, NEW kind \in {"get", "logout"}, Send(t, kind)
  PROVE  TabTypeOK'
BY DEF Send, TabTypeOK, Requests, jar, server, history

LEMMA AnsweredTyped ==
  ASSUME TabTypeOK, NEW t \in Tab, Answered(t) PROVE TabTypeOK'
<1>1. alive' \in [Session -> BOOLEAN] /\ req' \in [Tab -> Requests] /\ crossed' \in BOOLEAN
  BY DEF Answered, TabTypeOK, Requests
<1>2. want' \in [Tab -> SUBSET Waiting] /\ refresh' \in [Tab -> Refreshing]
  <2>1. CASE DedupeRefresh(t, "request")
    BY <2>1, DedupeTyped DEF Waiting
  <2>2. CASE UNCHANGED <<want, refresh>>
    BY <2>2 DEF TabTypeOK
  <2>. QED
    BY <2>1, <2>2 DEF Answered
<1>. QED
  BY <1>1, <1>2 DEF Answered, TabTypeOK, jar

LEMMA LoggedOutTyped ==
  ASSUME TabTypeOK, NEW t \in Tab, LoggedOut(t) PROVE TabTypeOK'
BY Bounds DEF LoggedOut, TabTypeOK, Requests, server, history

LEMMA LoseRequestTyped ==
  ASSUME TabTypeOK, NEW t \in Tab, LoseRequest(t) PROVE TabTypeOK'
<1>1. events' \in 0..MaxEvents
  BY HappensTyped DEF LoseRequest, Lose
<1>. QED
  BY <1>1 DEF LoseRequest, Lose, TabTypeOK, Requests, jar, server

LEMMA ConnectErrorTyped ==
  ASSUME TabTypeOK, NEW t \in Tab, ConnectError(t) PROVE TabTypeOK'
<1>1. events' \in 0..MaxEvents
  BY HappensTyped DEF ConnectError
<1>2. want' \in [Tab -> SUBSET Waiting] /\ refresh' \in [Tab -> Refreshing]
  BY DedupeTyped DEF ConnectError, Waiting
<1>. QED
  BY <1>1, <1>2 DEF ConnectError, TabTypeOK, jar, server, history

\* What becomes of a refresh, as a record.
LEMMA PostRefreshIs ==
  ASSUME TabTypeOK, NEW t \in Tab, PostRefresh(t)
  PROVE  /\ refresh' \in [Tab -> Refreshing]
         /\ refresh'[t].at = "sent" /\ refresh'[t].tok = cookie
         /\ \A u \in Tab \ {t} : refresh'[u] = refresh[u]
<1> DEFINE r == [refresh[t] EXCEPT !.at = "sent", !.tok = cookie]
<1>1. r \in Refreshing /\ r.at = "sent" /\ r.tok = cookie
  BY DEF TabTypeOK, Refreshing
<1>2. refresh' = [refresh EXCEPT ![t] = r]
  BY DEF PostRefresh, TabTypeOK
<1>. HIDE DEF r
<1>. QED
  BY <1>1, <1>2, RefreshTyped

LEMMA RefuseIs ==
  ASSUME TabTypeOK, NEW t \in Tab, NEW code \in {"rotated", "refused"}, Refuse(t, code)
  PROVE  /\ refresh' \in [Tab -> Refreshing]
         /\ refresh'[t].at = "answered" /\ refresh'[t].res = code
         /\ \A u \in Tab \ {t} : refresh'[u] = refresh[u]
<1> DEFINE r == [refresh[t] EXCEPT !.at = "answered", !.res = code]
<1>1. r \in Refreshing /\ r.at = "answered" /\ r.res = code
  BY DEF TabTypeOK, Refreshing
<1>2. refresh' = [refresh EXCEPT ![t] = r]
  BY DEF Refuse, TabTypeOK
<1>. HIDE DEF r
<1>. QED
  BY <1>1, <1>2, RefreshTyped

LEMMA RotateIs ==
  ASSUME TabTypeOK, NEW t \in Tab, refresh[t].tok[1] \in Session, Rotate(t)
  PROVE  LET s == refresh[t].tok[1] IN
         /\ alive[s] /\ alive' = alive /\ gen' = [gen EXCEPT ![s] = @ + 1]
         /\ gen' \in [Session -> Nat \ {0}]
         /\ refresh' \in [Tab -> Refreshing]
         /\ refresh'[t].at = "answered" /\ refresh'[t].res = "ok" /\ refresh'[t].tok = <<s, gen'[s]>>
         /\ \A u \in Tab \ {t} : refresh'[u] = refresh[u]
<1> DEFINE s == refresh[t].tok[1]
<1>1. gen' = [gen EXCEPT ![s] = gen[s] + 1] /\ alive[s] /\ alive' = alive
  BY DEF Rotate
<1>2. gen' \in [Session -> Nat \ {0}] /\ <<s, gen'[s]>> \in Token
  <2>1. gen[s] + 1 \in Nat \ {0}
    <3>1. gen[s] \in Nat
      BY DEF TabTypeOK
    <3>. QED
      BY <3>1, SMT
  <2>2. s \in 0..MaxSession
    BY Bounds, SMT DEF Session
  <2>. HIDE DEF s
  <2>3. gen' \in [Session -> Nat \ {0}]
    BY <1>1, <2>1 DEF TabTypeOK
  <2>4. s \in Session
    BY DEF s
  <2>. QED
    BY <2>2, <2>3, <2>4 DEF Token
<1> DEFINE r == [refresh[t] EXCEPT !.at = "answered", !.res = "ok", !.tok = <<s, gen'[s]>>]
<1>3. refresh' = [refresh EXCEPT ![t] = r]
  BY DEF Rotate, TabTypeOK
<1>4. r \in Refreshing /\ r.at = "answered" /\ r.res = "ok" /\ r.tok = <<s, gen'[s]>>
  <2>1. refresh[t] \in Refreshing
    BY DEF TabTypeOK
  <2>. HIDE DEF s
  <2>. QED
    BY <1>2, <2>1 DEF Refreshing
<1>. HIDE DEF r
<1>. QED
  BY <1>1, <1>2, <1>3, <1>4, RefreshTyped

LEMMA PostRefreshTyped ==
  ASSUME TabTypeOK, NEW t \in Tab, PostRefresh(t) PROVE TabTypeOK'
BY PostRefreshIs DEF PostRefresh, TabTypeOK, jar, server, history

\* What a served refresh leaves.
LEMMA ServeRefreshIs ==
  ASSUME TabTypeOK, NEW t \in Tab, ServeRefresh(t)
  PROVE  LET s == refresh[t].tok[1]
             n == refresh[t].tok[2]
         IN
         /\ gen' \in [Session -> Nat \ {0}] /\ alive' \in [Session -> BOOLEAN]
         /\ refresh' \in [Tab -> Refreshing]
         /\ refresh'[t].at = "answered"
         /\ \A u \in Tab \ {t} : refresh'[u] = refresh[u]
         /\ \/ /\ s \in Session /\ alive[s] /\ n = gen[s]
               /\ gen' = [gen EXCEPT ![s] = @ + 1] /\ alive' = alive
               /\ refresh'[t].res = "ok" /\ refresh'[t].tok = <<s, gen'[s]>>
            \/ /\ s = 0 \/ n < gen[s] \/ ~alive[s]
               /\ gen' = gen /\ alive' \in {alive, [x \in Session |-> FALSE]}
<1> DEFINE s == refresh[t].tok[1]
           n == refresh[t].tok[2]
<1>1. CASE s \in Session /\ Rotate(t)
  BY <1>1, RotateIs DEF TabTypeOK, Rotate
<1>2. CASE /\ s = 0 \/ n < gen[s] \/ ~alive[s]
           /\ \E code \in {"rotated", "refused"} : Refuse(t, code)
           /\ gen' = gen /\ alive' \in {alive, [x \in Session |-> FALSE]}
  BY <1>2, RefuseIs DEF TabTypeOK
<1>. QED
  BY <1>1, <1>2 DEF ServeRefresh, Reused

LEMMA ServeRefreshTyped ==
  ASSUME TabTypeOK, NEW t \in Tab, ServeRefresh(t) PROVE TabTypeOK'
<1>1. /\ gen' \in [Session -> Nat \ {0}] /\ alive' \in [Session -> BOOLEAN]
      /\ refresh' \in [Tab -> Refreshing]
  BY ServeRefreshIs
<1>. QED
  BY <1>1 DEF ServeRefresh, TabTypeOK, jar, history

LEMMA FailRefreshTyped ==
  ASSUME TabTypeOK, NEW t \in Tab, FailRefresh(t) PROVE TabTypeOK'
<1>1. events' \in 0..MaxEvents /\ lost' = TRUE
  BY HappensTyped DEF FailRefresh, Lose
<1>2. refresh' \in [Tab -> Refreshing]
  BY RefuseIs DEF FailRefresh
<1>. QED
  BY <1>1, <1>2 DEF FailRefresh, TabTypeOK, jar, server

LEMMA EndIs ==
  ASSUME TabTypeOK, NEW t \in Tab, Resolve(t) \/ Reject(t)
  PROVE  /\ access' \in [Tab -> Accesses] /\ hint' \in BOOLEAN
         /\ user' \in [Tab -> {"loading", "out", "in"}] /\ req' \in [Tab -> Requests]
         /\ want' \in [Tab -> SUBSET Waiting] /\ refresh' \in [Tab -> Refreshing]
         /\ refresh'[t].at = "none" /\ \A u \in Tab \ {t} : refresh'[u] = refresh[u]
         /\ \A u \in Tab : req'[u] = "bye" => req[u] = "bye"
<1>1. refresh' = [refresh EXCEPT ![t] = NoRefresh] /\ want' = [want EXCEPT ![t] = {}]
  BY DEF Resolve, Reject
<1>2. /\ refresh' \in [Tab -> Refreshing] /\ refresh'[t].at = "none"
      /\ \A u \in Tab \ {t} : refresh'[u] = refresh[u]
  BY <1>1, RefreshTyped, Bounds DEF NoRefresh
<1>3. want' \in [Tab -> SUBSET Waiting]
  BY <1>1 DEF TabTypeOK
<1>4. CASE Resolve(t)
  <2>1. refresh[t].tok[1] \in 0..MaxSession
    BY DEF TabTypeOK, Refreshing, Token
  <2>2. [s |-> refresh[t].tok[1], fresh |-> TRUE] \in Accesses
    BY <2>1 DEF Accesses
  <2>3. access' \in [Tab -> Accesses] /\ hint' \in BOOLEAN
    BY <1>4, <2>2, AccessTyped DEF Resolve
  <2>4. /\ user' \in [Tab -> {"loading", "out", "in"}] /\ req' \in [Tab -> Requests]
        /\ \A u \in Tab : req'[u] = "bye" => req[u] = "bye"
    BY <1>4 DEF Resolve, TabTypeOK, Requests
  <2>. QED
    BY <1>2, <1>3, <2>3, <2>4
<1>5. CASE Reject(t)
  <2>1. access' \in [Tab -> Accesses] /\ hint' \in BOOLEAN
    BY <1>5, Bounds DEF Reject, TabTypeOK
  <2>2. /\ user' \in [Tab -> {"loading", "out", "in"}] /\ req' \in [Tab -> Requests]
        /\ \A u \in Tab : req'[u] = "bye" => req[u] = "bye"
    BY <1>5 DEF Reject, TabTypeOK, Requests
  <2>. QED
    BY <1>2, <1>3, <2>1, <2>2
<1>. QED
  BY <1>4, <1>5

LEMMA DeliveredTyped ==
  ASSUME TabTypeOK, NEW t \in Tab, Delivered(t) PROVE TabTypeOK'
<1>1. CASE /\ Resolve(t) \/ Reject(t)
           /\ cookie' \in {cookie, NoCookie, refresh[t].tok}
           /\ kicked' = kicked \/ Reject(t)
  <2>1. cookie' \in Token
    BY <1>1, Bounds DEF TabTypeOK, Refreshing
  <2>2. kicked' \in BOOLEAN
    BY <1>1 DEF Reject, TabTypeOK
  <2>. QED
    BY <1>1, <2>1, <2>2, EndIs DEF Delivered, TabTypeOK, server
<1>2. CASE /\ refresh' = [refresh EXCEPT ![t].at = "wait", ![t].again = TRUE]
           /\ UNCHANGED <<jar, user, access, want, req, kicked>>
  <2> DEFINE r == [refresh[t] EXCEPT !.at = "wait", !.again = TRUE]
  <2>1. r \in Refreshing
    BY DEF TabTypeOK, Refreshing
  <2>2. refresh' = [refresh EXCEPT ![t] = r]
    BY <1>2 DEF TabTypeOK
  <2>. HIDE DEF r
  <2>3. refresh' \in [Tab -> Refreshing]
    BY <2>1, <2>2, RefreshTyped
  <2>. QED
    BY <1>2, <2>3 DEF Delivered, TabTypeOK, server, jar
<1>. QED
  BY <1>1, <1>2 DEF Delivered

LEMMA GetMeFailsTyped ==
  ASSUME TabTypeOK, NEW t \in Tab, GetMeFails(t) PROVE TabTypeOK'
<1>1. events' \in 0..MaxEvents /\ lost' = TRUE
  BY HappensTyped DEF GetMeFails, Lose
<1>2. /\ cookie' \in Token /\ want' \in [Tab -> SUBSET Waiting]
      /\ refresh' \in [Tab -> Refreshing] /\ req' \in [Tab -> Requests]
  <2>1. CASE cookie' = refresh[t].tok /\ refresh' = [refresh EXCEPT ![t] = NoRefresh]
             /\ want' = [want EXCEPT ![t] = {}] /\ req' = req
    <3>1. refresh' \in [Tab -> Refreshing]
      BY <2>1, RefreshTyped, Bounds
    <3>. QED
      BY <2>1, <3>1 DEF TabTypeOK, Refreshing
  <2>2. CASE req' = [req EXCEPT ![t] = "none"] /\ UNCHANGED <<cookie, refresh, want>>
    BY <2>2 DEF TabTypeOK, Requests
  <2>. QED
    BY <2>1, <2>2 DEF GetMeFails
<1>3. access' \in [Tab -> Accesses]
  BY AccessTyped, Bounds DEF GetMeFails
<1>4. user' \in [Tab -> {"loading", "out", "in"}] /\ hint' \in BOOLEAN /\ kicked' \in BOOLEAN
  BY DEF GetMeFails, TabTypeOK
<1>. QED
  BY <1>1, <1>2, <1>3, <1>4 DEF GetMeFails, TabTypeOK, server

LEMMA LoseRefreshTyped ==
  ASSUME TabTypeOK, NEW t \in Tab, LoseRefresh(t) PROVE TabTypeOK'
<1>1. events' \in 0..MaxEvents /\ lost' = TRUE
  BY HappensTyped DEF LoseRefresh, Lose
<1>2. kicked' \in BOOLEAN
  BY DEF LoseRefresh, Reject, TabTypeOK
<1>. QED
  BY <1>1, <1>2, EndIs DEF LoseRefresh, TabTypeOK, server

LEMMA LoginTyped ==
  ASSUME TabTypeOK, NEW t \in Tab, Login(t)
  PROVE  /\ TabTypeOK' /\ \A s \in Session : s <= cur' => s <= cur \/ s = cur'
<1>1. /\ cur' \in Session /\ cur' \in 0..MaxSession
      /\ \A s \in Session : s <= cur' => s <= cur \/ s = cur'
  BY TabAssumption, SMT DEF Login, TabTypeOK, Session
<1>2. cookie' \in Token /\ [s |-> cur', fresh |-> TRUE] \in Accesses
  <2>1. 1 \in Nat
    BY SMT
  <2>. QED
    BY <1>1, <2>1 DEF Login, Token, Accesses
<1>3. access' \in [Tab -> Accesses]
  BY <1>2, AccessTyped DEF Login
<1>4. alive' \in [Session -> BOOLEAN] /\ crossed' \in BOOLEAN /\ hint' \in BOOLEAN
      /\ user' \in [Tab -> {"loading", "out", "in"}]
  BY DEF Login, TabTypeOK
<1>5. events' \in 0..MaxEvents
  BY HappensTyped DEF Login
<1>. QED
  BY <1>1, <1>2, <1>3, <1>4, <1>5 DEF Login, TabTypeOK

LEMMA ExpiresTyped ==
  ASSUME TabTypeOK, NEW t \in Tab, AccessExpires(t) PROVE TabTypeOK'
<1>1. events' \in 0..MaxEvents
  BY HappensTyped DEF AccessExpires
<1>2. access' \in [Tab -> Accesses]
  BY DEF AccessExpires, TabTypeOK, Accesses
<1>. QED
  BY <1>1, <1>2 DEF AccessExpires, TabTypeOK, jar, server, history

LEMMA RevokedTyped ==
  ASSUME TabTypeOK, NEW s \in Session, Revoked(s) PROVE TabTypeOK'
<1>1. events' \in 0..MaxEvents
  BY HappensTyped DEF Revoked
<1>. QED
  BY <1>1 DEF Revoked, TabTypeOK, jar, tabs, history

LEMMA GraceTyped ==
  ASSUME TabTypeOK, GraceEnds PROVE TabTypeOK'
<1> DEFINE old == [s \in Session |-> IF alive[s] THEN gen[s] - 1 ELSE IF s <= cur THEN gen[s] ELSE 0]
<1>1. aged' = old
  BY DEF GraceEnds
<1>2. old \in [Session -> Nat]
  <2>1. ASSUME NEW s \in Session PROVE gen[s] \in Nat /\ gen[s] - 1 \in Nat /\ 0 \in Nat
    <3>1. gen[s] \in Nat \ {0}
      BY DEF TabTypeOK
    <3>. QED
      BY <3>1, SMT
  <2>. QED
    BY <2>1
<1>. HIDE DEF old
<1>. QED
  BY <1>1, <1>2 DEF GraceEnds, TabTypeOK, jar, tabs, history

LEMMA TabTypeStep ==
  ASSUME TabTypeOK, [TabNext]_tabVars PROVE TabTypeOK'
<1>1. CASE UNCHANGED tabVars
  BY <1>1 DEF tabVars, jar, server, tabs, history, TabTypeOK
<1>2. CASE TabNext
  BY <1>2, LoadTyped, SendTyped, AnsweredTyped, LoggedOutTyped, LoseRequestTyped, ConnectErrorTyped,
     PostRefreshTyped, ServeRefreshTyped, FailRefreshTyped, DeliveredTyped, LoseRefreshTyped,
     GetMeFailsTyped, LoginTyped, ExpiresTyped, RevokedTyped, GraceTyped
  DEF TabNext, TabStep
<1>. QED
  BY <1>1, <1>2

(***************************************************************************)
(* Who may be refused.                                                     *)
(***************************************************************************)
\* A step that touches neither the cookie nor the sessions, takes no lock, and drops an
\* answer or shows the sign-in form only when something was lost.
LEMMA QuietStep ==
  ASSUME TabInv, UNCHANGED <<cookie, gen, alive, cur, crossed>>, lost => lost',
         \A u \in Tab : Holds(u)' => Holds(u) /\ refresh'[u] = refresh[u],
         \A u \in Tab : refresh[u].at = "answered" => refresh'[u] = refresh[u] \/ lost',
         \A u \in Tab : req'[u] = "bye" => req[u] = "bye",
         kicked' => kicked \/ lost'
  PROVE  (SignedInBefore /\ OneHolds /\ TokensInv /\ AliveIsNotKicked)'
<1>1. (Calm' => Calm /\ ~lost') /\ Newest' = Newest
  BY DEF Calm, Newest
<1>2. SignedInBefore' /\ OneHolds' /\ AliveIsNotKicked'
  BY DEF TabInv, SignedInBefore, OneHolds, AliveIsNotKicked
<1>3. NoBye' /\ JarIsNewest'
  BY <1>1 DEF TabInv, TokensInv, NoBye, JarIsNewest
<1>4. SentNewest' /\ AnswersNewest'
  <2>1. \A u \in Tab : refresh'[u].at \in {"sent", "answered"} => Holds(u)'
    BY DEF Holds
  <2>. QED
    BY <1>1, <2>1 DEF TabInv, TokensInv, SentNewest, AnswersNewest
<1>. QED
  BY <1>2, <1>3, <1>4 DEF TokensInv

\* When the last session is not alive, or something was lost or crossed, nothing is
\* claimed of its token.
LEMMA UncalmStep ==
  ASSUME ~Calm' PROVE TokensInv'
BY DEF TokensInv, NoBye, JarIsNewest, SentNewest, AnswersNewest

LEMMA LoadKeeps ==
  ASSUME TabInv, NEW t \in Tab, Load(t)
  PROVE  (SignedInBefore /\ OneHolds /\ TokensInv /\ AliveIsNotKicked)'
<1>1. refresh'[t].at \in {"none", "queued"} /\ \A u \in Tab \ {t} : refresh'[u] = refresh[u]
  BY DEF Load, NoRefresh, TabInv, TabTypeOK
<1>2. refresh[t].at = "answered" => lost'
  BY DEF Load, Out
<1>3. \A u \in Tab : req'[u] = "bye" => req[u] = "bye"
  BY DEF Load, TabInv, TabTypeOK
<1>4. UNCHANGED <<cookie, gen, alive, cur, crossed, kicked>> /\ (lost => lost')
  BY DEF Load, jar, server
<1>. QED
  BY <1>1, <1>2, <1>3, <1>4, QuietStep DEF Holds

LEMMA AnsweredKeeps ==
  ASSUME TabInv, NEW t \in Tab, Answered(t)
  PROVE  (SignedInBefore /\ OneHolds /\ TokensInv /\ AliveIsNotKicked)'
<1>1. UNCHANGED <<cookie, gen, cur, lost, kicked>>
  BY DEF Answered, jar
<1>2. \A u \in Tab : Holds(u)' = Holds(u) /\ (Holds(u) => refresh'[u] = refresh[u])
  <2>1. CASE DedupeRefresh(t, "request")
    BY <2>1, DedupeTyped DEF Waiting, TabInv
  <2>2. CASE UNCHANGED <<want, refresh>>
    BY <2>2 DEF Holds
  <2>. QED
    BY <2>1, <2>2 DEF Answered
<1>3. CASE UNCHANGED <<alive, crossed>> /\ \A u \in Tab : req'[u] = "bye" => req[u] = "bye"
  BY <1>1, <1>2, <1>3, QuietStep DEF Holds
<1>4. CASE /\ alive' = [alive EXCEPT ![access[t].s] = FALSE]
           /\ crossed' = (crossed \/ access[t].s # cur)
  <2>1. ~Calm'
    BY <1>1, <1>4 DEF Calm, TabInv, TabTypeOK
  <2>2. \A s \in Session : alive'[s] => alive[s]
    BY <1>4 DEF TabInv, TabTypeOK
  <2>3. SignedInBefore'
    BY <1>1, <2>2 DEF TabInv, SignedInBefore
  <2>4. OneHolds' /\ AliveIsNotKicked'
    BY <1>1, <1>2, <1>4 DEF TabInv, OneHolds, AliveIsNotKicked
  <2>. QED
    BY <2>1, <2>3, <2>4, UncalmStep
<1>. QED
  <2>1. \/ UNCHANGED <<alive, crossed>> /\ \A u \in Tab : req'[u] = "bye" => req[u] = "bye"
        \/ /\ alive' = [alive EXCEPT ![access[t].s] = FALSE]
           /\ crossed' = (crossed \/ access[t].s # cur)
    BY DEF Answered, TabInv, TabTypeOK
  <2>. QED
    BY <1>3, <1>4, <2>1

LEMMA LoggedOutKeeps ==
  ASSUME TabInv, NEW t \in Tab, LoggedOut(t)
  PROVE  (SignedInBefore /\ OneHolds /\ TokensInv /\ AliveIsNotKicked)'
<1>1. UNCHANGED <<gen, alive, cur, refresh, lost, kicked, crossed>>
  BY DEF LoggedOut, server, history
<1>2. \A u \in Tab : req'[u] = "bye" => req[u] = "bye"
  BY DEF LoggedOut, TabInv, TabTypeOK
<1>3. CASE req[t] = "bye"
  <2>1. ~Calm'
    BY <1>1, <1>3 DEF TabInv, TokensInv, NoBye, Calm
  <2>. QED
    BY <1>1, <2>1, UncalmStep DEF TabInv, SignedInBefore, OneHolds, Holds, AliveIsNotKicked
<1>4. CASE req[t] # "bye"
  <2>1. cookie' = cookie
    BY <1>4 DEF LoggedOut
  <2>. QED
    BY <1>1, <1>2, <2>1, QuietStep DEF Holds
<1>. QED
  BY <1>3, <1>4

LEMMA LoseRequestKeeps ==
  ASSUME TabInv, NEW t \in Tab, LoseRequest(t)
  PROVE  (SignedInBefore /\ OneHolds /\ TokensInv /\ AliveIsNotKicked)'
<1>1. UNCHANGED <<cookie, gen, alive, cur, crossed, kicked, refresh>> /\ lost'
  BY DEF LoseRequest, Lose, jar, server
<1>2. \A u \in Tab : req'[u] = "bye" => req[u] = "bye"
  BY DEF LoseRequest, TabInv, TabTypeOK
<1>. QED
  BY <1>1, <1>2, QuietStep DEF Holds

LEMMA ConnectErrorKeeps ==
  ASSUME TabInv, NEW t \in Tab, ConnectError(t)
  PROVE  (SignedInBefore /\ OneHolds /\ TokensInv /\ AliveIsNotKicked)'
<1>1. UNCHANGED <<cookie, gen, alive, cur, crossed, kicked, req, lost>>
  BY DEF ConnectError, jar, server, history
<1>2. \A u \in Tab : Holds(u)' = Holds(u) /\ (Holds(u) => refresh'[u] = refresh[u])
  BY DedupeTyped DEF ConnectError, Waiting, TabInv
<1>. QED
  BY <1>1, <1>2, QuietStep DEF Holds

\* With the lock, no answer is on its way to anybody else: the cookie is the newest.
LEMMA PostRefreshKeeps ==
  ASSUME TabInv, NEW t \in Tab, PostRefresh(t)
  PROVE  (SignedInBefore /\ OneHolds /\ TokensInv /\ AliveIsNotKicked)'
<1>1. UNCHANGED <<cookie, gen, alive, cur, crossed, kicked, req, lost>>
  BY DEF PostRefresh, jar, server, history
<1>2. /\ refresh'[t].at = "sent" /\ refresh'[t].tok = cookie
      /\ \A u \in Tab \ {t} : refresh'[u] = refresh[u]
  BY PostRefreshIs DEF TabInv
<1>3. Locks => \A u \in Tab \ {t} : ~Holds(u) /\ ~Holds(u)'
  BY <1>2 DEF PostRefresh, CrossTabLock, Holds
<1>4. SignedInBefore' /\ OneHolds' /\ NoBye' /\ AliveIsNotKicked'
  BY <1>1, <1>3 DEF TabInv, TokensInv, SignedInBefore, OneHolds, NoBye, Calm, AliveIsNotKicked
<1>5. Calm => cookie = Newest
  <2>1. Locks => \A u \in Tab : refresh[u].at # "answered"
    BY <1>3 DEF PostRefresh, Holds
  <2>. QED
    BY <2>1 DEF TabInv, TokensInv, JarIsNewest, Calm
<1>6. (Calm' => Calm) /\ Newest' = Newest
  BY <1>1 DEF Calm, Newest
<1>7. Calm' => \A u \in Tab : refresh'[u].at \in {"sent", "answered"} => u = t
  BY <1>3 DEF Calm, Holds
<1>8. JarIsNewest' /\ SentNewest' /\ AnswersNewest'
  BY <1>1, <1>2, <1>5, <1>6, <1>7 DEF JarIsNewest, SentNewest, AnswersNewest
<1>. QED
  BY <1>4, <1>8 DEF TokensInv

\* The newest token of a live session is rotated; any other ends the calm.
LEMMA ServeRefreshKeeps ==
  ASSUME TabInv, NEW t \in Tab, ServeRefresh(t)
  PROVE  (SignedInBefore /\ OneHolds /\ TokensInv /\ AliveIsNotKicked)'
<1>. DEFINE s == refresh[t].tok[1]
            n == refresh[t].tok[2]
<1>1. UNCHANGED <<cookie, cur, crossed, kicked, req, lost>> /\ refresh[t].at = "sent"
  BY DEF ServeRefresh, jar, history
<1>2. /\ refresh'[t].at = "answered" /\ \A u \in Tab \ {t} : refresh'[u] = refresh[u]
      /\ \/ /\ s \in Session /\ alive[s] /\ n = gen[s]
            /\ gen' = [gen EXCEPT ![s] = @ + 1] /\ alive' = alive
            /\ refresh'[t].res = "ok" /\ refresh'[t].tok = <<s, gen'[s]>>
         \/ /\ s = 0 \/ n < gen[s] \/ ~alive[s]
            /\ gen' = gen /\ alive' \in {alive, [x \in Session |-> FALSE]}
  BY ServeRefreshIs DEF TabInv
<1>. HIDE DEF s, n
<1>3. OneHolds' /\ AliveIsNotKicked'
  <2>1. \A u \in Tab : Holds(u)' = Holds(u)
    BY <1>1, <1>2 DEF Holds
  <2>. QED
    BY <1>1, <2>1 DEF TabInv, OneHolds, AliveIsNotKicked
<1>4. SignedInBefore'
  <2>1. \A x \in Session : (alive'[x] => alive[x]) /\ (~alive[x] => gen'[x] = gen[x])
    BY <1>2 DEF TabInv, TabTypeOK
  <2>2. \A x \in Session : x > cur => ~(x <= cur)
    BY Bounds, SMT DEF TabInv, TabTypeOK
  <2>. QED
    BY <1>1, <2>1, <2>2 DEF TabInv, SignedInBefore
<1>5. Calm' => Calm
  BY <1>1, <1>2 DEF Calm, TabInv, TabTypeOK
<1>6. Calm => refresh[t].tok = Newest
  BY <1>1 DEF TabInv, TokensInv, SentNewest
<1>7. Calm => s = cur /\ n = gen[cur] /\ s # 0 /\ ~(n < gen[s])
  <2>1. cur # 0 /\ ~(gen[cur] < gen[cur])
    <3>1. cur \in 1..MaxSession /\ gen[cur] \in Nat \ {0}
      BY DEF TabInv, TabTypeOK, Session
    <3>. QED
      BY <3>1, Bounds, SMT
  <2>. QED
    BY <1>6, <2>1 DEF Newest, s, n
<1>8. Calm' => refresh'[t].res = "ok" /\ refresh'[t].tok = Newest'
  BY <1>1, <1>2, <1>5, <1>7 DEF Newest, Calm
<1>9. Calm' => \A u \in Tab : refresh'[u].at \in {"sent", "answered"} => u = t
  BY <1>1, <1>2, <1>3 DEF Calm, OneHolds, Holds
<1>10. NoBye' /\ JarIsNewest' /\ SentNewest' /\ AnswersNewest'
  BY <1>1, <1>2, <1>5, <1>8, <1>9
  DEF TabInv, TokensInv, NoBye, JarIsNewest, SentNewest, AnswersNewest
<1>. QED
  BY <1>3, <1>4, <1>10 DEF TokensInv

LEMMA FailRefreshKeeps ==
  ASSUME TabInv, NEW t \in Tab, FailRefresh(t)
  PROVE  (SignedInBefore /\ OneHolds /\ TokensInv /\ AliveIsNotKicked)'
<1>1. UNCHANGED <<cookie, gen, alive, cur, crossed, kicked, req>> /\ lost' /\ refresh[t].at = "sent"
  BY DEF FailRefresh, Lose, jar, server
<1>2. refresh'[t].at = "answered" /\ \A u \in Tab \ {t} : refresh'[u] = refresh[u]
  BY RefuseIs DEF FailRefresh, TabInv
<1>3. \A u \in Tab : Holds(u)' = Holds(u)
  BY <1>1, <1>2 DEF Holds
<1>4. ~Calm'
  BY <1>1 DEF Calm
<1>. QED
  BY <1>1, <1>3, <1>4, UncalmStep DEF TabInv, SignedInBefore, OneHolds, AliveIsNotKicked

\* In the calm the answer is the newest token, and the cookie becomes it.
LEMMA DeliveredKeeps ==
  ASSUME TabInv, NEW t \in Tab, Delivered(t)
  PROVE  (SignedInBefore /\ OneHolds /\ TokensInv /\ AliveIsNotKicked)'
<1>1. UNCHANGED <<gen, alive, cur, crossed, lost>> /\ refresh[t].at = "answered"
  BY DEF Delivered, server
<1>2. /\ \A u \in Tab \ {t} : refresh'[u] = refresh[u]
      /\ refresh'[t].at \in {"none", "wait"}
      /\ \A u \in Tab : req'[u] = "bye" => req[u] = "bye"
  <2>1. CASE Resolve(t) \/ Reject(t)
    BY <2>1, EndIs DEF TabInv
  <2>2. CASE refresh' = [refresh EXCEPT ![t].at = "wait", ![t].again = TRUE] /\ req' = req
    BY <2>2 DEF TabInv, TabTypeOK, Refreshing
  <2>. QED
    BY <2>1, <2>2 DEF Delivered
<1>3. Holds(t) /\ \A u \in Tab : Holds(u)' => Holds(u)
  BY <1>1, <1>2 DEF Holds
<1>4. (Calm' <=> Calm) /\ Newest' = Newest
  BY <1>1 DEF Calm, Newest
<1>5. Calm => refresh[t].res = "ok" /\ refresh[t].tok = Newest
  BY <1>1 DEF TabInv, TokensInv, AnswersNewest
<1>6. Calm => cookie' = Newest /\ kicked' = kicked
  BY <1>5 DEF Delivered
<1>7. kicked' => kicked \/ alive[cur]
  BY DEF Delivered, Reject
<1>8. SignedInBefore' /\ OneHolds'
  BY <1>1, <1>3 DEF TabInv, SignedInBefore, OneHolds
<1>9. AliveIsNotKicked'
  BY <1>1, <1>6, <1>7 DEF TabInv, AliveIsNotKicked, Calm
<1>10. Calm' => \A u \in Tab : refresh'[u].at \notin {"sent", "answered"}
  BY <1>2, <1>3, <1>4 DEF TabInv, OneHolds, Calm, Holds
<1>11. NoBye' /\ JarIsNewest' /\ SentNewest' /\ AnswersNewest'
  BY <1>2, <1>4, <1>6, <1>10
  DEF TabInv, TokensInv, NoBye, JarIsNewest, SentNewest, AnswersNewest
<1>. QED
  BY <1>8, <1>9, <1>11 DEF TokensInv

LEMMA LoseRefreshKeeps ==
  ASSUME TabInv, NEW t \in Tab, LoseRefresh(t)
  PROVE  (SignedInBefore /\ OneHolds /\ TokensInv /\ AliveIsNotKicked)'
<1>1. UNCHANGED <<cookie, gen, alive, cur, crossed>> /\ lost'
  BY DEF LoseRefresh, Lose, server
<1>2. /\ refresh'[t].at = "none" /\ \A u \in Tab \ {t} : refresh'[u] = refresh[u]
      /\ \A u \in Tab : req'[u] = "bye" => req[u] = "bye"
  BY EndIs DEF LoseRefresh, TabInv
<1>. QED
  BY <1>1, <1>2, QuietStep DEF Holds

\* The answer that a loading page drops was still put into the cookie; but something was lost.
LEMMA GetMeFailsKeeps ==
  ASSUME TabInv, NEW t \in Tab, GetMeFails(t)
  PROVE  (SignedInBefore /\ OneHolds /\ TokensInv /\ AliveIsNotKicked)'
<1>1. UNCHANGED <<gen, alive, cur, crossed>> /\ lost'
  BY DEF GetMeFails, Lose, server
<1>2. \A u \in Tab : Holds(u)' => Holds(u)
  <2>1. refresh' \in {refresh, [refresh EXCEPT ![t] = NoRefresh]}
    BY DEF GetMeFails
  <2>. QED
    BY <2>1 DEF Holds, NoRefresh, TabInv, TabTypeOK
<1>3. ~Calm'
  BY <1>1 DEF Calm
<1>. QED
  BY <1>1, <1>2, <1>3, UncalmStep DEF TabInv, SignedInBefore, OneHolds, AliveIsNotKicked

\* A sign-in that crosses nothing: its token is in the cookie, and no other is out.
LEMMA LoginKeeps ==
  ASSUME TabInv, NEW t \in Tab, Login(t)
  PROVE  (SignedInBefore /\ OneHolds /\ TokensInv /\ AliveIsNotKicked)'
<1>1. /\ UNCHANGED <<gen, refresh, req, lost, kicked>>
      /\ cookie' = <<cur', 1>> /\ alive' = [alive EXCEPT ![cur'] = TRUE]
      /\ crossed' = (crossed \/ \E u \in Tab : Out(u) \/ req[u] = "bye")
  BY DEF Login
<1>2. cur' \in Session /\ cur' > cur /\ \A s \in Session : (s <= cur => s <= cur') /\ (s > cur' => s > cur)
  BY TabAssumption, SMT DEF Login, TabInv, TabTypeOK, Session
<1>3. SignedInBefore'
  <2>1. cur' <= cur'
    BY <1>2, Bounds, SMT
  <2>. QED
    BY <1>1, <1>2, <2>1 DEF SignedInBefore, TabInv, TabTypeOK
<1>4. cookie' = Newest'
  <2>1. gen[cur'] = 1
    BY <1>2 DEF TabInv, SignedInBefore
  <2>. QED
    BY <1>1, <2>1 DEF Newest
<1>5. Calm' => \A u \in Tab : refresh'[u].at \notin {"sent", "answered"} /\ req'[u] # "bye"
  BY <1>1 DEF Calm, Out
<1>6. NoBye' /\ JarIsNewest' /\ SentNewest' /\ AnswersNewest'
  BY <1>4, <1>5 DEF NoBye, JarIsNewest, SentNewest, AnswersNewest
<1>7. OneHolds' /\ AliveIsNotKicked'
  BY <1>1 DEF TabInv, OneHolds, Holds, AliveIsNotKicked
<1>. QED
  BY <1>3, <1>6, <1>7 DEF TokensInv

LEMMA RevokedKeeps ==
  ASSUME TabInv, NEW s \in Session, Revoked(s)
  PROVE  (SignedInBefore /\ OneHolds /\ TokensInv /\ AliveIsNotKicked)'
<1>1. /\ UNCHANGED <<cookie, gen, cur, crossed, kicked, lost, req, refresh>>
      /\ alive' = [alive EXCEPT ![s] = FALSE]
  BY DEF Revoked, jar, tabs, history
<1>2. (\A x \in Session : alive'[x] => alive[x]) /\ (Calm' => Calm) /\ Newest' = Newest
  BY <1>1 DEF TabInv, TabTypeOK, Calm, Newest
<1>3. SignedInBefore' /\ OneHolds' /\ AliveIsNotKicked'
  BY <1>1, <1>2 DEF TabInv, SignedInBefore, OneHolds, Holds, AliveIsNotKicked
<1>4. NoBye' /\ JarIsNewest' /\ SentNewest' /\ AnswersNewest'
  BY <1>1, <1>2 DEF TabInv, TokensInv, NoBye, JarIsNewest, SentNewest, AnswersNewest
<1>. QED
  BY <1>3, <1>4 DEF TokensInv

LEMMA TabStepKeeps ==
  ASSUME TabInv, [TabNext]_tabVars PROVE TabInv'
<1>1. TabTypeOK'
  BY TabTypeStep DEF TabInv
<1>2. ASSUME UNCHANGED <<cookie, gen, alive, cur, crossed, lost, kicked, refresh, req>>
      PROVE  (SignedInBefore /\ OneHolds /\ TokensInv /\ AliveIsNotKicked)'
  BY <1>2, QuietStep DEF Holds
<1>3. (SignedInBefore /\ OneHolds /\ TokensInv /\ AliveIsNotKicked)'
  <2>1. CASE UNCHANGED tabVars
    BY <1>2, <2>1 DEF tabVars, jar, server, tabs, history
  <2>2. CASE GraceEnds
    BY <1>2, <2>2 DEF GraceEnds, jar, tabs, history
  <2>3. CASE \E t \in Tab : AccessExpires(t)
    BY <1>2, <2>3 DEF AccessExpires, jar, server, history
  <2>4. ASSUME NEW t \in Tab, NEW kind \in {"get", "logout"}, Send(t, kind)
        PROVE  (SignedInBefore /\ OneHolds /\ TokensInv /\ AliveIsNotKicked)'
    <3>1. \A u \in Tab : req'[u] = "bye" => req[u] = "bye"
      BY <2>4 DEF Send, TabInv, TabTypeOK
    <3>2. UNCHANGED <<cookie, gen, alive, cur, crossed, lost, kicked, refresh>>
      BY <2>4 DEF Send, jar, server, history
    <3>. QED
      BY <3>1, <3>2, QuietStep DEF Holds
  <2>. QED
    BY <2>1, <2>2, <2>3, <2>4, LoadKeeps, AnsweredKeeps, LoggedOutKeeps, LoseRequestKeeps,
       ConnectErrorKeeps, PostRefreshKeeps, ServeRefreshKeeps, FailRefreshKeeps, DeliveredKeeps,
       LoseRefreshKeeps, GetMeFailsKeeps, LoginKeeps, RevokedKeeps
    DEF TabNext, TabStep
<1>. QED
  BY <1>1, <1>3 DEF TabInv

\* With Web Locks nobody is signed out of a session that is alive (withCrossTabLock and
\* refreshAccessToken, tokens.ts), unless a request was lost, or somebody signed in or out
\* across tabs meanwhile: for every number of tabs, sign-ins and accidents.
THEOREM TabsKeepTheSession == TabSpec => []AliveIsNotKicked
<1>1. TabInv => AliveIsNotKicked
  BY DEF TabInv
<1>. QED
  BY <1>1, TabInitHolds, TabStepKeeps, PTL DEF TabSpec
=============================================================================
