------------------------------- MODULE Presence -------------------------------
(***************************************************************************)
(* The presence of one user: redis/presence/index.ts and its Lua scripts,  *)
(* which run atomically in Redis; the connect and disconnect handlers of   *)
(* websocket/connection.ts; jobs/presence-sweep.ts; and the dot another    *)
(* member of a chat sees (web presence-context.tsx).                       *)
(*                                                                         *)
(* Time passes in heartbeat periods.  A handler sends its Redis command as *)
(* its first step and over the one connection of its server, so the touch  *)
(* belongs to the action that opens a socket and the release to the one    *)
(* that closes it.  What they returned is announced later, after other     *)
(* awaits and in any order.                                                *)
(***************************************************************************)
EXTENDS Integers

CONSTANTS Socket,  \* connections of the user, in his lifetime
          Server,  \* API servers
          Home,    \* the server of each socket
          Ttl,     \* presenceConfig.socketTtlMs, in heartbeat periods
          Outages, \* bound: how often Redis becomes unreachable
          Drops    \* bound: how often the other member's connection drops

ASSUME PresenceAssumption ==
  /\ Home \in [Socket -> Server]
  /\ Ttl \in Nat /\ Ttl > 1
  /\ Outages \in Nat
  /\ Drops \in Nat

VARIABLES
  conn,    \* each socket: not there yet, open, closed, or its server died
  up,      \* the next step of its connect handler
  first,   \* what the touch of the connect handler returned
  down,    \* its disconnect handler has an offline transition to announce
  room,    \* sockets that have joined the chat's room
  lease,   \* presence:user:<id>: the periods each socket's lease has left
  index,   \* presence:online: the periods the user's lease has left, or Gone
  due,     \* sockets whose heartbeat of this period is still to come
  ready,   \* isRedisReady()
  outages, \* how often it has become FALSE
  sweep,   \* the sweep was handed the user and has not told the chats yet
  watch,   \* the connection of the other member
  snap,    \* what onlineAmong returned to its connect handler
  shown,   \* the dot: PresenceProvider's online set has the user
  drops    \* how often the other member's connection dropped

sockVars  == <<conn, up, first, down, room, due>>
redisVars == <<lease, index>>
failVars  == <<ready, outages>>
watchVars == <<watch, snap, drops>>
vars == <<sockVars, redisVars, failVars, sweep, watchVars, shown>>

Gone == -1   \* the user is not a member of presence:online

Live == {s \in Socket : lease[s] > 0}

\* No announcement is under way.
Settled ==
  /\ \A s \in Socket : up[s] = "none" /\ ~down[s]
  /\ ~sweep
  /\ watch \in {"off", "on"}

\* Types, and that only a socket that was opened holds a lease, is in the room
\* or has a handler (redis/presence/index.ts, websocket/connection.ts).
PresenceTypeOK ==
  /\ conn \in [Socket -> {"new", "open", "closed", "dead"}]
  /\ up \in [Socket -> {"none", "join", "tell"}]
  /\ first \in [Socket -> BOOLEAN]
  /\ down \in [Socket -> BOOLEAN]
  /\ room \in SUBSET Socket
  /\ lease \in [Socket -> 0..Ttl]
  /\ index \in {Gone} \cup 0..Ttl
  /\ due \in SUBSET Socket
  /\ ready \in BOOLEAN
  /\ outages \in 0..Outages
  /\ sweep \in BOOLEAN
  /\ watch \in {"off", "joined", "looked", "on"}
  /\ snap \in BOOLEAN
  /\ shown \in BOOLEAN
  /\ drops \in 0..Drops
  /\ \A s \in room \cup due : conn[s] = "open"
  /\ \A s \in Live : conn[s] # "new"
  /\ \A s \in Socket : conn[s] \in {"new", "dead"} => up[s] = "none" /\ ~down[s]
  /\ \A s \in Socket : down[s] => conn[s] = "closed"

PresenceInit ==
  /\ conn = [s \in Socket |-> "new"]
  /\ up = [s \in Socket |-> "none"]
  /\ first = [s \in Socket |-> FALSE]
  /\ down = [s \in Socket |-> FALSE]
  /\ room = {}
  /\ lease = [s \in Socket |-> 0]
  /\ index = Gone
  /\ due = {}
  /\ ready = TRUE
  /\ outages = 0
  /\ sweep = FALSE
  /\ watch = "off"
  /\ snap = FALSE
  /\ shown = FALSE
  /\ drops = 0

(***************************************************************************)
(* The Lua scripts.                                                        *)
(***************************************************************************)
\* Mutant of Touch: only a first touch writes the user's lease.
Touch_FirstOnly(s) ==
  /\ lease' = [lease EXCEPT ![s] = Ttl]
  /\ index' = IF Live = {} THEN Ttl ELSE index

\* presenceTouch: the lease of the socket, and the user's with GT.
Touch(s) ==
  /\ lease' = [lease EXCEPT ![s] = Ttl]
  /\ index' = IF index > Ttl THEN index ELSE Ttl

\* presenceRelease: the user goes with the last live socket.
Release(s) ==
  /\ lease' = [lease EXCEPT ![s] = 0]
  /\ index' = IF Live \ {s} = {} THEN Gone ELSE index

\* It reports the offline transition to whoever removed the user.
Offline(s) == Live \ {s} = {} /\ index # Gone

\* localSockets, what a server falls back on without Redis.
LocalFirst(s) ==
  \A t \in Socket \ {s} : Home[t] = Home[s] => conn[t] # "open"

(***************************************************************************)
(* The connect handler: touch, join the rooms, announce.                   *)
(***************************************************************************)
Connect(s) ==
  /\ conn[s] = "new"
  /\ conn' = [conn EXCEPT ![s] = "open"]
  /\ up' = [up EXCEPT ![s] = "join"]
  /\ IF ready
       THEN Touch(s) /\ first' = [first EXCEPT ![s] = (Live = {})]
       ELSE first' = [first EXCEPT ![s] = LocalFirst(s)] /\ UNCHANGED redisVars
  /\ UNCHANGED <<down, room, due, failVars, sweep, watchVars, shown>>

\* joinAllChats; a socket that has gone in the meantime joins nothing.
ConnectJoin(s) ==
  /\ up[s] = "join"
  /\ up' = [up EXCEPT ![s] = "tell"]
  /\ room' = IF conn[s] = "open" THEN room \cup {s} ELSE room
  /\ UNCHANGED <<conn, first, down, due, redisVars, failVars, sweep, watchVars, shown>>

\* The chats cannot be read: the socket joins no room, and nobody is told.
JoinFails(s) ==
  /\ up[s] = "join"
  /\ up' = [up EXCEPT ![s] = "none"]
  /\ UNCHANGED <<conn, first, down, room, due, redisVars, failVars, sweep, watchVars, shown>>

Show(b) == shown' = IF watch = "off" THEN shown ELSE b

\* Mutant of ConnectTell: it leaves the announcement to chat:join.
ConnectTell_Never(s) ==
  /\ up[s] = "tell"
  /\ up' = [up EXCEPT ![s] = "none"]
  /\ UNCHANGED <<conn, first, down, room, due, redisVars, failVars, sweep, watchVars,
                 shown>>

ConnectTell(s) ==
  /\ up[s] = "tell"
  /\ up' = [up EXCEPT ![s] = "none"]
  /\ IF first[s] THEN Show(TRUE) ELSE UNCHANGED shown
  /\ UNCHANGED <<conn, first, down, room, due, redisVars, failVars, sweep, watchVars>>

\* The timer's touch; nobody looks at what it returns.
Heartbeat(s) ==
  /\ s \in due
  /\ due' = due \ {s}
  /\ IF ready THEN Touch(s) ELSE UNCHANGED redisVars
  /\ UNCHANGED <<conn, up, first, down, room, failVars, sweep, watchVars, shown>>

(***************************************************************************)
(* The disconnect handler: release, announce to the rooms it was in.       *)
(***************************************************************************)
Close(s) ==
  /\ conn[s] = "open"
  /\ conn' = [conn EXCEPT ![s] = "closed"]
  /\ due' = due \ {s}
  /\ room' = room \ {s}
  /\ IF ready
       THEN Release(s) /\ down' = [down EXCEPT ![s] = Offline(s) /\ s \in room]
       ELSE /\ down' = [down EXCEPT ![s] = LocalFirst(s) /\ s \in room]
            /\ UNCHANGED redisVars
  /\ UNCHANGED <<up, first, failVars, sweep, watchVars, shown>>

DisconnectTell(s) ==
  /\ down[s]
  /\ down' = [down EXCEPT ![s] = FALSE]
  /\ Show(FALSE)
  /\ UNCHANGED <<conn, up, first, room, due, redisVars, failVars, sweep, watchVars>>

(***************************************************************************)
(* Servers that die, time, the sweep and Redis.                            *)
(***************************************************************************)
ServerDies(v) ==
  /\ \E s \in Socket : Home[s] = v /\ conn[s] = "open"
  /\ LET S == {s \in Socket : Home[s] = v /\ conn[s] # "new"} IN
       /\ conn' = [s \in Socket |-> IF s \in S THEN "dead" ELSE conn[s]]
       /\ up' = [s \in Socket |-> IF s \in S THEN "none" ELSE up[s]]
       /\ down' = [s \in Socket |-> down[s] /\ s \notin S]
       /\ due' = due \ S
       /\ room' = room \ S
  /\ UNCHANGED <<first, redisVars, failVars, sweep, watchVars, shown>>

\* A period passes once every open socket has had its heartbeat.
Tick ==
  /\ due = {}
  /\ Live # {} \/ index > 0
  /\ lease' = [s \in Socket |-> IF lease[s] = 0 THEN 0 ELSE lease[s] - 1]
  /\ index' = IF index > 0 THEN index - 1 ELSE index
  /\ due' = {s \in Socket : conn[s] = "open"}
  /\ UNCHANGED <<conn, up, first, down, room, failVars, sweep, watchVars, shown>>

\* Mutant of Sweep: only users with a live socket are looked at.
Sweep_Live ==
  /\ ready /\ ~sweep
  /\ index = 0 /\ Live # {}
  /\ index' = Gone
  /\ sweep' = TRUE
  /\ UNCHANGED <<sockVars, lease, failVars, watchVars, shown>>

Sweep ==
  /\ ready /\ ~sweep
  /\ index = 0 /\ Live = {}
  /\ index' = Gone
  /\ sweep' = TRUE
  /\ UNCHANGED <<sockVars, lease, failVars, watchVars, shown>>

SweepTell ==
  /\ sweep
  /\ sweep' = FALSE
  /\ Show(FALSE)
  /\ UNCHANGED <<sockVars, redisVars, failVars, watchVars>>

\* The chats of the user cannot be read, or the server dies.
SweepFails ==
  /\ sweep
  /\ sweep' = FALSE
  /\ UNCHANGED <<sockVars, redisVars, failVars, watchVars, shown>>

Outage ==
  /\ ready
  /\ outages < Outages
  /\ outages' = outages + 1
  /\ ready' = FALSE
  /\ UNCHANGED <<sockVars, redisVars, sweep, watchVars, shown>>

Restored ==
  /\ ~ready
  /\ ready' = TRUE
  /\ UNCHANGED <<sockVars, redisVars, outages, sweep, watchVars, shown>>

(***************************************************************************)
(* The other member: joins the rooms, gets a snapshot, then the deltas.    *)
(***************************************************************************)
WatcherJoins ==
  /\ watch = "off"
  /\ watch' = "joined"
  /\ UNCHANGED <<sockVars, redisVars, failVars, sweep, snap, drops, shown>>

\* onlineAmong; without Redis, the sockets of the server asked.
WatcherLooks ==
  /\ watch = "joined"
  /\ watch' = "looked"
  /\ \/ ready /\ snap' = (index > 0)
     \/ /\ ~ready
        /\ \E v \in Server :
             snap' = (\E s \in Socket : Home[s] = v /\ conn[s] = "open")
  /\ UNCHANGED <<sockVars, redisVars, failVars, sweep, drops, shown>>

\* presence:state only ever adds.
WatcherShows ==
  /\ watch = "looked"
  /\ watch' = "on"
  /\ shown' = (shown \/ snap)
  /\ snap' = FALSE
  /\ UNCHANGED <<sockVars, redisVars, failVars, sweep, drops>>

WatcherDrops ==
  /\ watch = "on"
  /\ drops < Drops
  /\ drops' = drops + 1
  /\ watch' = "off"
  /\ shown' = FALSE
  /\ UNCHANGED <<sockVars, redisVars, failVars, sweep, snap>>

Tells ==
  \/ \E s \in Socket : ConnectJoin(s) \/ ConnectTell(s) \/ DisconnectTell(s)
  \/ SweepTell \/ WatcherLooks \/ WatcherShows

Clock == Tick \/ \E s \in Socket : Heartbeat(s)

\* What changes who is online, or who is told.
Changes ==
  \/ \E s \in Socket : Connect(s) \/ Close(s)
  \/ \E v \in Server : ServerDies(v)
  \/ Tick \/ Sweep \/ WatcherJoins

Told ==
  \/ Tells \/ Changes
  \/ \E s \in Socket : Heartbeat(s)
  \/ Outage \/ Restored \/ WatcherDrops

Untold == SweepFails \/ \E s \in Socket : JoinFails(s)

PresenceNext == Told \/ Untold

PresenceSpec == PresenceInit /\ [][PresenceNext]_vars

\* Every announcement is made, before the next change.
Orderly     == Told /\ (Changes => Settled)
OrderlySpec == PresenceInit /\ [][Orderly]_vars

\* Handlers go on, time passes, the sweep runs, Redis comes back.
Fairness ==
  WF_vars(Tells) /\ WF_vars(Clock) /\ WF_vars(Sweep) /\ WF_vars(Restored)

FairPresenceSpec == PresenceSpec /\ Fairness

(***************************************************************************)
(* Properties.                                                             *)
(***************************************************************************)
\* The user's lease outlives the leases of the sockets, so that the sweep and
\* onlineAmong, which look at it first, miss no live socket (the GT of touch,
\* and release and sweep on different servers, interleaved).
IndexCoversLeases == \A s \in Live : lease[s] <= index

\* As long as Redis is reachable, a user with an open socket anywhere is online,
\* whatever his other sockets and their servers do (touch, release, sweep).
OpenIsOnline ==
  outages = 0 => \A s \in Socket : conn[s] = "open" => lease[s] > 0 /\ index > 0

\* The other member's dot, when there is nothing left to announce: green only
\* while the user is online or not yet swept, and green if he is online.  It needs
\* every announcement to be made before the next change (OrderlySpec): the handlers
\* announce in any order (connect and disconnect handlers, presence-sweep).
DotIsRight ==
  outages = 0 /\ Settled /\ watch = "on" =>
    /\ shown => index # Gone
    /\ index > 0 => shown

\* A user all of whose sockets are gone leaves the online index in the end, even
\* if none of them was released (presence leases, presence-sweep).
GoneIsSwept ==
  (\A s \in Socket : conn[s] # "open")
    ~> (index = Gone \/ \E s \in Socket : conn[s] = "open")
=============================================================================
