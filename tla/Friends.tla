------------------------------- MODULE Friends -------------------------------
(***************************************************************************)
(* Friend requests and friendships (friends/service.ts, repository.ts) and *)
(* the two cached lists that are read from them (friends/cache.ts).        *)
(*                                                                         *)
(* There is one row of FriendRequest for a sender and a receiver; it is    *)
(* never deleted and never pending again.  A friendship is named by the    *)
(* request whose acceptance made it.                                       *)
(***************************************************************************)
EXTENDS CacheAside

CONSTANT User

ASSUME KeyAssumption == Key \subseteq {"list", "suggestions"} \X User

VARIABLES
  request,  \* FriendRequest.status of each <<sender, receiver>>
  made,     \* the friendships
  away,     \* accounts with a deletedAt
  at,       \* next step of each handler
  job       \* what each handler is asked, and the request or friendship

tables     == <<request, made, away>>
handlers   == <<at, job>>
friendVars == <<cacheVars, tables, handlers>>

Dir     == {d \in User \X User : d[1] # d[2]}
Back(d) == <<d[2], d[1]>>
List(u) == <<"list", u>>
Sugg(u) == <<"suggestions", u>>
Both(d) == {d[1], d[2]}

Lists(d) == {List(u) : u \in Both(d)}
Suggs(d) == {Sugg(u) : u \in Both(d)}

Friends(a, b) == <<a, b>> \in made \/ <<b, a>> \in made
FriendIds(u)  == {f \in User : Friends(u, f)}
Pending(u)    == {f \in User \ {u} : \E d \in {<<u, f>>, <<f, u>>} : request[d] = "PENDING"}

FriendsInit(friends) ==
  /\ CacheInit
  /\ request = [d \in Dir |-> IF d \in friends THEN "ACCEPTED" ELSE "NONE"]
  /\ made = friends /\ away = {}
  /\ at = [r \in Req |-> "idle"] /\ job = [r \in Req |-> <<"none", Missing>>]

\* What the loaders of getFriends and getSuggestions return: findFriendshipsOf, and
\* whom findSuggestions leaves out (whose account is deleted is not invalidated there).
Truth(k) == IF k[1] = "list" THEN FriendIds(k[2]) \ away
                             ELSE FriendIds(k[2]) \cup Pending(k[2])

\* A write changes what a loader has read already, or some of it.
Rows(k) == <<FriendIds(k[2]), IF k[1] = "list" THEN away ELSE Pending(k[2])>>

Overtaken ==
  LET changed == {k \in Key : Rows(k)' # Rows(k)} IN
  fill' = [r \in Req |-> [fill[r] EXCEPT !.old = @ \/ (fill[r].at # "load" /\ fill[r].key \in changed)]]

cacheOnly == <<entry, servers, faults>>

Start(r, o, d, s) ==
  /\ at[r] = "idle" /\ fill[r].at = "none" /\ owed[r] = {}
  /\ at' = [at EXCEPT ![r] = s] /\ job' = [job EXCEPT ![r] = <<o, d>>]
  /\ UNCHANGED <<cacheVars, tables>>

\* The handler has written, and invalidates ks, as far as anyone reads them; then it
\* is done.
Wrote(r, ks) ==
  /\ at' = [at EXCEPT ![r] = "idle"] /\ job' = [job EXCEPT ![r] = <<"none", Missing>>]
  /\ owed' = [owed EXCEPT ![r] = ks \cap Key]
  /\ Overtaken
  /\ UNCHANGED cacheOnly

Refused(r) == UNCHANGED tables /\ Wrote(r, {})

(***************************************************************************)
(* sendRequest: no request the other way may be pending, and none may have *)
(* been made this way before.                                              *)
(***************************************************************************)
Send(r, d) ==
  /\ request[Back(d)] # "PENDING"
  /\ Start(r, "send", d, "create")

Create(r) ==
  LET d == job[r][2] IN
  /\ at[r] = "create"
  /\ \/ /\ request[d] = "NONE"
        /\ request' = [request EXCEPT ![d] = "PENDING"] /\ UNCHANGED <<made, away>>
        /\ Wrote(r, Suggs(d))
     \/ request[d] # "NONE" /\ Refused(r)

\* cancelRequest by the sender, rejectRequest by the receiver: checked, and then written
\* by id.
Answers == {"CANCELLED", "REJECTED"}

Answer(r, a, d) ==
  /\ request[d] = "PENDING"
  /\ Start(r, a, d, "write")

SetRequestStatus(r) ==
  LET d == job[r][2] IN
  /\ at[r] = "write"
  /\ request' = [request EXCEPT ![d] = job[r][1]] /\ UNCHANGED <<made, away>>
  /\ Wrote(r, Suggs(d))

\* acceptRequest finds the request pending, and again in its transaction, where it reads
\* what is committed at the time.
Accept(r, d) ==
  /\ request[d] = "PENDING"
  /\ Start(r, "accept", d, "read")

AcceptRead(r) ==
  /\ at[r] = "read"
  /\ \/ /\ request[job[r][2]] = "PENDING"
        /\ at' = [at EXCEPT ![r] = "commit"] /\ UNCHANGED <<cacheVars, tables, job>>
     \/ request[job[r][2]] # "PENDING" /\ Refused(r)

\* Mutant of AcceptCommit: only the suggestions are invalidated.
AcceptCommit_Lists(r) ==
  LET d == job[r][2] IN
  /\ at[r] = "commit"
  /\ request' = [request EXCEPT ![d] = "ACCEPTED"]
  /\ made' = IF Back(d) \in made THEN made ELSE made \cup {d}
  /\ UNCHANGED away
  /\ Wrote(r, Suggs(d))

\* A friendship made since by the other request is found, or refuses this transaction.
AcceptCommit(r) ==
  LET d == job[r][2] IN
  /\ at[r] = "commit"
  /\ \/ /\ request' = [request EXCEPT ![d] = "ACCEPTED"]
        /\ made' = IF Back(d) \in made THEN made ELSE made \cup {d}
        /\ UNCHANGED away
        /\ Wrote(r, Lists(d) \cup Suggs(d))
     \/ Friends(d[1], d[2]) /\ Refused(r)

\* removeFriend, by the id of the friendship.
Remove(r, d) ==
  /\ d \in made
  /\ Start(r, "remove", d, "delete")

DeleteFriendship(r) ==
  LET d == job[r][2] IN
  /\ at[r] = "delete"
  /\ \/ /\ d \in made
        /\ made' = made \ {d} /\ UNCHANGED <<request, away>>
        /\ Wrote(r, Lists(d) \cup Suggs(d))
     \/ d \notin made /\ Refused(r)

(***************************************************************************)
(* An account is deleted or restored: invalidateFriendsOf reads who has it *)
(* in a list.                                                              *)
(***************************************************************************)
Away(r, u) ==
  /\ at[r] = "idle" /\ fill[r].at = "none" /\ owed[r] = {}
  /\ away' = IF u \in away THEN away \ {u} ELSE away \cup {u}
  /\ UNCHANGED <<request, made>>
  /\ at' = [at EXCEPT ![r] = "ids"] /\ job' = [job EXCEPT ![r] = <<"away", <<u, u>>>>]
  /\ Overtaken
  /\ UNCHANGED <<cacheOnly, owed>>

InvalidateFriendsOf(r) ==
  LET u == job[r][2][1] IN
  /\ at[r] = "ids"
  /\ \/ UNCHANGED tables /\ Wrote(r, {List(f) : f \in FriendIds(u)})
     \/ /\ Fault                       \* the query rejects, and nobody tries again
        /\ entry' = [k \in Key |-> IF entry[k] # Missing THEN [entry[k] EXCEPT !.why = "forgotten"]
                                                         ELSE entry[k]]
        /\ at' = [at EXCEPT ![r] = "idle"] /\ job' = [job EXCEPT ![r] = <<"none", Missing>>]
        /\ UNCHANGED <<servers, fill, owed, tables>>

(***************************************************************************)
(* Reading the lists.  Suggestions are read by several queries: friendships*)
(* first, then requests.                                                   *)
(***************************************************************************)
Read(r, k) == at[r] = "idle" /\ Miss(r, k) /\ UNCHANGED <<tables, handlers>>

FindRows(r) ==
  /\ fill[r].at = "load"
  /\ LET k == fill[r].key IN
       IF k[1] = "list" THEN Load(r, Truth(k), FALSE) ELSE Load(r, FriendIds(k[2]), TRUE)
  /\ UNCHANGED <<tables, handlers>>

FindPending(r) ==
  /\ fill[r].at = "more"
  /\ Load(r, fill[r].val \cup Pending(fill[r].key[2]), FALSE)
  /\ UNCHANGED <<tables, handlers>>

Cached(r) == Store(r) \/ \E k \in Key : Invalidate(r, k)

\* The handlers a dead server was serving go with it.
Die(s) ==
  /\ Crash(s)
  /\ at' = [r \in Req |-> IF Runs[r] = s THEN "idle" ELSE at[r]]
  /\ job' = [r \in Req |-> IF Runs[r] = s THEN <<"none", Missing>> ELSE job[r]]
  /\ UNCHANGED tables
  /\ \A r \in Req : Runs[r] = s => at[r] # "ids"

Press(r) ==
  \/ \E d \in Dir : Send(r, d) \/ Accept(r, d) \/ Remove(r, d) \/ \E a \in Answers : Answer(r, a, d)
  \/ \E u \in User : Away(r, u)
  \/ \E k \in Key : Read(r, k)

Work(r) ==
  \/ Create(r) \/ SetRequestStatus(r) \/ AcceptRead(r) \/ AcceptCommit(r)
  \/ DeleteFriendship(r) \/ InvalidateFriendsOf(r) \/ FindRows(r) \/ FindPending(r)
  \/ Cached(r) /\ UNCHANGED <<tables, handlers>>

Redis ==
  \/ \E k \in Key : Expire(k)
  \/ \E s \in Node : CacheStep(s)

FriendsNext ==
  \/ \E r \in Req : Press(r) \/ Work(r)
  \/ Redis /\ UNCHANGED <<tables, handlers>>
  \/ \E s \in Node : Die(s)

\* At first some people are friends.
FriendsSpec ==
  (\E friends \in SUBSET Dir : FriendsInit(friends)) /\ [][FriendsNext]_friendVars

(***************************************************************************)
(* Properties.                                                             *)
(***************************************************************************)
\* Keys some handler has still to invalidate.
Due(k) == \E r \in Req :
  \/ k \in owed[r]
  \/ at[r] = "ids" /\ k \in {List(f) : f \in FriendIds(job[r][2][1])}

\* A cached list is what the tables say ("invalidated on every friendship change",
\* friends/config.ts:7), unless a handler is about to invalidate it, it was stored by a
\* read the change overtook, or the invalidation was skipped.
CacheIsFresh ==
  \A k \in Key : entry[k] # Missing /\ entry[k].why = "fresh" /\ ~Due(k) => entry[k].val = Truth(k)
=============================================================================
