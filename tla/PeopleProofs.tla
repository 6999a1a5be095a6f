----------------------------- MODULE PeopleProofs -----------------------------
(***************************************************************************)
(* Theorems about what people know of each other: about Presence, for any  *)
(* number of sockets and servers and any lease of at least two heartbeat   *)
(* periods; and about Friends, the cache under it and the pages over it,   *)
(* for any users, servers and handlers and any number of faults.           *)
(***************************************************************************)
EXTENDS Presence, FriendPages, TLAPS

(***************************************************************************)
(* The index of who is online.                                             *)
(***************************************************************************)
\* Without an outage Redis is ready, and the lease of an open socket lasts until
\* its next heartbeat: one period if that is still to come, two if it has been.
LeaseLasts ==
  outages = 0 =>
    /\ ready
    /\ \A s \in Socket : conn[s] = "open" => lease[s] > (IF s \in due THEN 0 ELSE 1)

PresenceInv == PresenceTypeOK /\ IndexCoversLeases /\ LeaseLasts

LEMMA InvInitially == PresenceInit => PresenceInv
<1> SUFFICES ASSUME PresenceInit PROVE PresenceInv
  OBVIOUS
<1>0. \A s \in Socket : lease[s] = 0 /\ ~(lease[s] > 0)
  <2>1. lease = [s \in Socket |-> 0]
    BY DEF PresenceInit
  <2>2. lease \in [Socket -> {0}]
    BY <2>1
  <2> QED BY <2>2
<1>1. PresenceTypeOK
  <2>1. lease \in [Socket -> 0..Ttl] /\ outages \in 0..Outages /\ drops \in 0..Drops
    BY PresenceAssumption DEF PresenceInit
  <2>2. Live = {}
    BY <1>0 DEF Live
  <2> QED BY <2>1, <2>2 DEF PresenceInit, PresenceTypeOK
<1>2. IndexCoversLeases
  BY <1>0 DEF IndexCoversLeases, Live
<1>3. LeaseLasts
  BY DEF PresenceInit, LeaseLasts
<1> QED BY <1>1, <1>2, <1>3 DEF PresenceInv

\* What touch does to the two leases, whoever calls it.
LEMMA TouchWrites ==
  ASSUME PresenceInv, NEW s \in Socket, Touch(s)
  PROVE  /\ lease' \in [Socket -> 0..Ttl] /\ lease'[s] = Ttl
         /\ \A t \in Socket \ {s} : lease'[t] = lease[t]
         /\ index' \in {Gone} \cup 0..Ttl
         /\ IndexCoversLeases'
<1> USE DEF PresenceInv, PresenceTypeOK
<1>1. lease' \in [Socket -> 0..Ttl] /\ lease'[s] = Ttl
  BY PresenceAssumption DEF Touch
<1>2. \A t \in Socket \ {s} : lease'[t] = lease[t]
  BY DEF Touch
<1>3. index' \in {Gone} \cup 0..Ttl /\ index' >= Ttl
  BY PresenceAssumption DEF Touch, Gone
<1>4. \A t \in Socket : lease'[t] <= Ttl
  BY <1>1, PresenceAssumption
<1>5. IndexCoversLeases'
  BY <1>1, <1>3, <1>4, PresenceAssumption DEF IndexCoversLeases, Live, Gone
<1> QED BY <1>1, <1>2, <1>3, <1>5

\* What release does.
LEMMA ReleaseWrites ==
  ASSUME PresenceInv, NEW s \in Socket, Release(s)
  PROVE  /\ lease' \in [Socket -> 0..Ttl] /\ lease'[s] = 0
         /\ \A t \in Socket \ {s} : lease'[t] = lease[t]
         /\ index' \in {Gone} \cup 0..Ttl
         /\ IndexCoversLeases'
<1> USE DEF PresenceInv, PresenceTypeOK
<1>1. lease' \in [Socket -> 0..Ttl] /\ lease'[s] = 0
  BY PresenceAssumption DEF Release
<1>2. \A t \in Socket \ {s} : lease'[t] = lease[t]
  BY DEF Release
<1>3. index' \in {Gone} \cup 0..Ttl
  BY DEF Release
<1>4. ASSUME NEW t \in Socket, lease'[t] > 0
      PROVE  lease'[t] <= index'
  <2>1. t \in Live \ {s} /\ lease'[t] = lease[t]
    BY <1>1, <1>2, <1>4 DEF Live
  <2>2. index' = index
    BY <2>1 DEF Release
  <2> QED BY <2>1, <2>2 DEF IndexCoversLeases
<1>5. IndexCoversLeases'
  BY <1>4 DEF IndexCoversLeases, Live
<1> QED BY <1>1, <1>2, <1>3, <1>5

LEMMA ConnectKeeps ==
  ASSUME PresenceInv, NEW s \in Socket, Connect(s)
  PROVE  PresenceInv'
<1> USE DEF PresenceInv
<1>1. /\ conn[s] = "new" /\ conn' = [conn EXCEPT ![s] = "open"]
      /\ up' = [up EXCEPT ![s] = "join"]
      /\ UNCHANGED <<down, room, due, failVars, sweep, watchVars, shown>>
  BY DEF Connect
<1>5. first' \in [Socket -> BOOLEAN]
  <2>1. \E b \in BOOLEAN : first' = [first EXCEPT ![s] = b]
    <3>1. (Live = {}) \in BOOLEAN /\ LocalFirst(s) \in BOOLEAN
      BY Zenon DEF LocalFirst
    <3> QED BY <3>1, Zenon DEF Connect
  <2> QED BY <2>1 DEF PresenceTypeOK
<1>2. lease' \in [Socket -> 0..Ttl] /\ index' \in {Gone} \cup 0..Ttl
      /\ IndexCoversLeases'
      /\ (\A t \in Socket \ {s} : lease'[t] = lease[t])
      /\ (ready => lease'[s] = Ttl)
  <2>1. CASE ready
    BY <2>1, TouchWrites DEF Connect
  <2>2. CASE ~ready
    BY <2>2 DEF Connect, redisVars, PresenceTypeOK, IndexCoversLeases, Live
  <2> QED BY <2>1, <2>2
<1>3. PresenceTypeOK'
  BY <1>1, <1>5, <1>2 DEF PresenceTypeOK, Live, failVars, watchVars
<1>4. LeaseLasts'
  <2> SUFFICES ASSUME outages' = 0
               PROVE  ready' /\ \A t \in Socket : conn'[t] = "open" =>
                                  lease'[t] > (IF t \in due' THEN 0 ELSE 1)
    BY DEF LeaseLasts
  <2>1. ready /\ ready'
    BY <1>1 DEF failVars, LeaseLasts
  <2>2. lease'[s] > 1
    BY <1>2, <2>1, PresenceAssumption
  <2>3. ASSUME NEW t \in Socket \ {s}, conn'[t] = "open"
        PROVE  lease'[t] > (IF t \in due' THEN 0 ELSE 1)
    BY <1>1, <1>2, <2>3 DEF LeaseLasts, failVars, PresenceTypeOK
  <2>4. lease'[s] > (IF s \in due' THEN 0 ELSE 1)
    BY <1>2, <2>2, PresenceAssumption
  <2> QED BY <2>1, <2>3, <2>4
<1> QED BY <1>2, <1>3, <1>4

LEMMA HeartbeatKeeps ==
  ASSUME PresenceInv, NEW s \in Socket, Heartbeat(s)
  PROVE  PresenceInv'
<1> USE DEF PresenceInv
<1>1. /\ s \in due /\ due' = due \ {s}
      /\ UNCHANGED <<conn, up, first, down, room, failVars, sweep, watchVars, shown>>
  BY DEF Heartbeat
<1>2. lease' \in [Socket -> 0..Ttl] /\ index' \in {Gone} \cup 0..Ttl
      /\ IndexCoversLeases'
      /\ (\A t \in Socket \ {s} : lease'[t] = lease[t])
      /\ (ready => lease'[s] = Ttl) /\ (~ready => lease' = lease)
  <2>1. CASE ready
    BY <2>1, TouchWrites DEF Heartbeat
  <2>2. CASE ~ready
    BY <2>2 DEF Heartbeat, redisVars, PresenceTypeOK, IndexCoversLeases, Live
  <2> QED BY <2>1, <2>2
<1>3. PresenceTypeOK'
  BY <1>1, <1>2 DEF PresenceTypeOK, Live, failVars, watchVars
<1>4. LeaseLasts'
  <2> SUFFICES ASSUME outages' = 0
               PROVE  ready' /\ \A t \in Socket : conn'[t] = "open" =>
                                  lease'[t] > (IF t \in due' THEN 0 ELSE 1)
    BY DEF LeaseLasts
  <2>1. ready /\ ready'
    BY <1>1 DEF failVars, LeaseLasts
  <2>2. lease'[s] > 1
    BY <1>2, <2>1, PresenceAssumption
  <2>3. ASSUME NEW t \in Socket \ {s}, conn'[t] = "open"
        PROVE  lease'[t] > (IF t \in due' THEN 0 ELSE 1)
    BY <1>1, <1>2, <2>3 DEF LeaseLasts, failVars
  <2>4. lease'[s] > (IF s \in due' THEN 0 ELSE 1)
    BY <1>2, <2>2, PresenceAssumption
  <2> QED BY <2>1, <2>3, <2>4
<1> QED BY <1>2, <1>3, <1>4

LEMMA CloseKeeps ==
  ASSUME PresenceInv, NEW s \in Socket, Close(s)
  PROVE  PresenceInv'
<1> USE DEF PresenceInv
<1>1. /\ conn[s] = "open" /\ conn' = [conn EXCEPT ![s] = "closed"]
      /\ due' = due \ {s} /\ room' = room \ {s}
      /\ down' \in [Socket -> BOOLEAN]
      /\ \A t \in Socket \ {s} : down'[t] = down[t]
      /\ UNCHANGED <<up, first, failVars, sweep, watchVars, shown>>
  BY DEF Close, PresenceTypeOK
<1>2. lease' \in [Socket -> 0..Ttl] /\ index' \in {Gone} \cup 0..Ttl
      /\ IndexCoversLeases'
      /\ (\A t \in Socket \ {s} : lease'[t] = lease[t])
  <2>1. CASE ready
    BY <2>1, ReleaseWrites DEF Close
  <2>2. CASE ~ready
    BY <2>2 DEF Close, redisVars, PresenceTypeOK, IndexCoversLeases, Live
  <2> QED BY <2>1, <2>2
<1>3. PresenceTypeOK'
  BY <1>1, <1>2 DEF PresenceTypeOK, Live, failVars, watchVars
<1>4. LeaseLasts'
  BY <1>1, <1>2 DEF LeaseLasts, failVars, PresenceTypeOK
<1> QED BY <1>2, <1>3, <1>4

LEMMA TickKeeps ==
  ASSUME PresenceInv, Tick
  PROVE  PresenceInv'
<1> USE DEF PresenceInv
<1>1. /\ due = {} /\ due' = {s \in Socket : conn[s] = "open"}
      /\ lease' = [s \in Socket |-> IF lease[s] = 0 THEN 0 ELSE lease[s] - 1]
      /\ index' = IF index > 0 THEN index - 1 ELSE index
      /\ UNCHANGED <<conn, up, first, down, room, failVars, sweep, watchVars, shown>>
  BY DEF Tick
<1>2. lease' \in [Socket -> 0..Ttl] /\ index' \in {Gone} \cup 0..Ttl
  BY <1>1, PresenceAssumption DEF PresenceTypeOK, Gone
<1>3. \A s \in Socket : lease'[s] > 0 => lease[s] = lease'[s] + 1
  BY <1>1, PresenceAssumption DEF PresenceTypeOK
<1>4. PresenceTypeOK'
  BY <1>1, <1>2, <1>3, PresenceAssumption DEF PresenceTypeOK, Live, failVars, watchVars
<1>5. IndexCoversLeases'
  <2> SUFFICES ASSUME NEW s \in Socket, lease'[s] > 0
               PROVE  lease'[s] <= index'
    BY DEF IndexCoversLeases, Live
  <2>1. lease[s] = lease'[s] + 1 /\ lease'[s] \in Nat
    BY <1>2, <1>3, PresenceAssumption
  <2>2. lease[s] <= index /\ index \in Int
    BY <2>1, PresenceAssumption DEF IndexCoversLeases, Live, PresenceTypeOK, Gone
  <2> QED BY <1>1, <2>1, <2>2
<1>6. LeaseLasts'
  <2> SUFFICES ASSUME outages' = 0
               PROVE  ready' /\ \A t \in Socket : conn'[t] = "open" =>
                                  lease'[t] > (IF t \in due' THEN 0 ELSE 1)
    BY DEF LeaseLasts
  <2>1. ready' /\ \A t \in Socket : conn[t] = "open" => lease[t] > 1
    BY <1>1 DEF failVars, LeaseLasts
  <2>2. ASSUME NEW t \in Socket, conn'[t] = "open"
        PROVE  t \in due' /\ lease'[t] > 0
    BY <1>1, <2>1, <2>2, PresenceAssumption DEF PresenceTypeOK
  <2> QED BY <2>1, <2>2
<1> QED BY <1>4, <1>5, <1>6

LEMMA SweepKeeps ==
  ASSUME PresenceInv, Sweep
  PROVE  PresenceInv'
<1> USE DEF PresenceInv
<1>1. /\ Live = {} /\ index' = Gone /\ sweep' = TRUE
      /\ UNCHANGED <<sockVars, lease, failVars, watchVars, shown>>
  BY DEF Sweep
<1>2. PresenceTypeOK' /\ Live' = {}
  BY <1>1 DEF PresenceTypeOK, Live, sockVars, failVars, watchVars
<1>3. LeaseLasts'
  BY <1>1 DEF LeaseLasts, sockVars, failVars
<1> QED BY <1>2, <1>3 DEF IndexCoversLeases

LEMMA ServerDiesKeeps ==
  ASSUME PresenceInv, NEW v \in Server, ServerDies(v)
  PROVE  PresenceInv'
<1> USE DEF PresenceInv
<1> DEFINE S == {s \in Socket : Home[s] = v /\ conn[s] # "new"}
<1>1. /\ conn' = [s \in Socket |-> IF s \in S THEN "dead" ELSE conn[s]]
      /\ up' = [s \in Socket |-> IF s \in S THEN "none" ELSE up[s]]
      /\ down' = [s \in Socket |-> down[s] /\ s \notin S]
      /\ due' = due \ S /\ room' = room \ S
      /\ UNCHANGED <<first, redisVars, failVars, sweep, watchVars, shown>>
  BY DEF ServerDies
<1> HIDE DEF S
<1>2. down' \in [Socket -> BOOLEAN] /\ \A s \in Socket : down'[s] => down[s] /\ s \notin S
  BY <1>1 DEF PresenceTypeOK
<1>3. /\ conn' \in [Socket -> {"new", "open", "closed", "dead"}]
      /\ up' \in [Socket -> {"none", "join", "tell"}]
      /\ due' \in SUBSET Socket /\ room' \in SUBSET Socket
  BY <1>1 DEF PresenceTypeOK
<1>4. \A s \in Socket : conn'[s] = IF s \in S THEN "dead" ELSE conn[s]
  BY <1>1
<1>5. \A s \in Socket : conn'[s] \in {"new", "dead"} => up'[s] = "none" /\ ~down'[s]
  BY <1>1, <1>2, <1>4 DEF PresenceTypeOK
<1>6. PresenceTypeOK'
  BY <1>1, <1>2, <1>3, <1>4, <1>5
     DEF PresenceTypeOK, Live, redisVars, failVars, watchVars
<1>7. IndexCoversLeases'
  BY <1>1 DEF IndexCoversLeases, Live, redisVars
<1>8. LeaseLasts'
  BY <1>1, <1>4 DEF LeaseLasts, redisVars, failVars
<1> QED BY <1>6, <1>7, <1>8

\* The other steps write no lease, no socket and no heartbeat.
LEMMA OthersKeep ==
  ASSUME PresenceInv,
         Tells \/ Outage \/ Restored \/ WatcherJoins \/ WatcherDrops
  PROVE  PresenceInv'
<1> USE DEF PresenceInv
<1>1. PresenceTypeOK'
  <2> USE DEF PresenceTypeOK, Live
  <2>1. ASSUME NEW s \in Socket, ConnectJoin(s)
        PROVE  PresenceTypeOK'
    BY <2>1 DEF ConnectJoin, redisVars, failVars, watchVars
  <2>2. ASSUME NEW s \in Socket, ConnectTell(s)
        PROVE  PresenceTypeOK'
    BY <2>2 DEF ConnectTell, Show, redisVars, failVars, watchVars
  <2>3. ASSUME NEW s \in Socket, DisconnectTell(s)
        PROVE  PresenceTypeOK'
    BY <2>3 DEF DisconnectTell, Show, redisVars, failVars, watchVars
  <2>4. CASE SweepTell
    BY <2>4 DEF SweepTell, Show, sockVars, redisVars, failVars, watchVars
  <2>5. CASE WatcherLooks
    <3>1. snap' \in BOOLEAN
      <4>1. CASE snap' = (index > 0)
        <5>1. (index > 0) \in BOOLEAN
          BY SMT
        <5> QED BY <4>1, <5>1, Zenon
      <4>2. ASSUME NEW v \in Server,
                   snap' = (\E s \in Socket : Home[s] = v /\ conn[s] = "open")
            PROVE  snap' \in BOOLEAN
        <5>1. (\E s \in Socket : Home[s] = v /\ conn[s] = "open") \in BOOLEAN
          BY Zenon
        <5> QED BY <4>2, <5>1, Zenon
      <4> QED BY <2>5, <4>1, <4>2, Zenon DEF WatcherLooks
    <3>2. /\ watch' = "looked"
          /\ UNCHANGED <<sockVars, redisVars, failVars, sweep, drops, shown>>
      BY <2>5 DEF WatcherLooks
    <3> QED BY <3>1, <3>2 DEF sockVars, redisVars, failVars
  <2>6. CASE WatcherShows
    BY <2>6 DEF WatcherShows, sockVars, redisVars, failVars
  <2>7. CASE Outage
    <3>1. outages' \in 0..Outages
      BY <2>7, PresenceAssumption DEF Outage
    <3> QED BY <2>7, <3>1 DEF Outage, sockVars, redisVars, watchVars
  <2>8. CASE Restored
    BY <2>8 DEF Restored, sockVars, redisVars, watchVars
  <2>9. CASE WatcherJoins
    BY <2>9 DEF WatcherJoins, sockVars, redisVars, failVars
  <2>10. CASE WatcherDrops
    <3>1. drops' \in 0..Drops
      BY <2>10, PresenceAssumption DEF WatcherDrops
    <3> QED BY <2>10, <3>1 DEF WatcherDrops, sockVars, redisVars, failVars
  <2> QED
    BY <2>1, <2>2, <2>3, <2>4, <2>5, <2>6, <2>7, <2>8, <2>9, <2>10 DEF Tells
<1>2. UNCHANGED <<lease, index, conn, due>>
  BY DEF Tells, ConnectJoin, ConnectTell, DisconnectTell, SweepTell, WatcherLooks,
         WatcherShows, Outage, Restored, WatcherJoins, WatcherDrops, sockVars,
         redisVars
<1>5. outages' = 0 => outages = 0 /\ (ready => ready')
  <2>1. CASE Outage
    BY <2>1 DEF Outage, PresenceTypeOK
  <2>2. CASE Restored
    BY <2>2 DEF Restored
  <2>3. CASE Tells \/ WatcherJoins \/ WatcherDrops
    BY <2>3 DEF Tells, ConnectJoin, ConnectTell, DisconnectTell, SweepTell,
                WatcherLooks, WatcherShows, WatcherJoins, WatcherDrops, failVars
  <2> QED BY <2>1, <2>2, <2>3
<1>3. IndexCoversLeases'
  BY <1>2 DEF IndexCoversLeases, Live
<1>4. LeaseLasts'
  BY <1>2, <1>5 DEF LeaseLasts
<1> QED BY <1>1, <1>3, <1>4

LEMMA UntoldKeeps ==
  ASSUME PresenceInv, Untold
  PROVE  PresenceInv'
<1>1. CASE SweepFails
  BY <1>1 DEF SweepFails, sockVars, redisVars, failVars, watchVars, PresenceInv,
              PresenceTypeOK, IndexCoversLeases, LeaseLasts, Live
<1>2. ASSUME NEW s \in Socket, JoinFails(s) PROVE PresenceInv'
  BY <1>2 DEF JoinFails, redisVars, failVars, watchVars, PresenceInv,
              PresenceTypeOK, IndexCoversLeases, LeaseLasts, Live
<1> QED BY <1>1, <1>2 DEF Untold

LEMMA InvKept == PresenceInv /\ [PresenceNext]_vars => PresenceInv'
<1> SUFFICES ASSUME PresenceInv, [PresenceNext]_vars PROVE PresenceInv'
  OBVIOUS
<1>1. CASE UNCHANGED vars
  BY <1>1 DEF vars, sockVars, redisVars, failVars, watchVars, PresenceInv,
              PresenceTypeOK, IndexCoversLeases, LeaseLasts, Live
<1>2. CASE PresenceNext
  BY <1>2, ConnectKeeps, CloseKeeps, HeartbeatKeeps, TickKeeps, SweepKeeps,
     ServerDiesKeeps, OthersKeep, UntoldKeeps DEF PresenceNext, Told, Changes
<1> QED BY <1>1, <1>2

LEMMA InvHolds == PresenceSpec => []PresenceInv
  BY InvInitially, InvKept, PTL DEF PresenceSpec

\* Types, and what must not outlive its socket (PresenceTypeOK).
THEOREM PresenceTypeCorrect == PresenceSpec => []PresenceTypeOK
<1>1. PresenceInv => PresenceTypeOK
  BY DEF PresenceInv
<1> QED BY <1>1, InvHolds, PTL

\* The user's lease covers the leases of all his live sockets (presenceTouch,
\* presenceRelease and presenceSweep in any order, from any number of servers).
THEOREM IndexCovers == PresenceSpec => []IndexCoversLeases
<1>1. PresenceInv => IndexCoversLeases
  BY DEF PresenceInv
<1> QED BY <1>1, InvHolds, PTL

\* Without an outage an open socket keeps its user online: no disconnect of
\* another socket and no sweep takes him out (connection.ts, presence-sweep).
THEOREM OpenMeansOnline == PresenceSpec => []OpenIsOnline
<1>1. PresenceInv => OpenIsOnline
  <2> SUFFICES ASSUME PresenceInv, outages = 0, NEW s \in Socket, conn[s] = "open"
               PROVE  lease[s] > 0 /\ index > 0
    BY DEF OpenIsOnline
  <2>1. lease[s] > (IF s \in due THEN 0 ELSE 1) /\ lease[s] \in Nat
    BY PresenceAssumption DEF PresenceInv, LeaseLasts, PresenceTypeOK
  <2>2. lease[s] > 0
    BY <2>1
  <2>3. lease[s] <= index /\ index \in Int
    BY <2>2, PresenceAssumption
       DEF PresenceInv, IndexCoversLeases, Live, PresenceTypeOK, Gone
  <2> QED BY <2>1, <2>2, <2>3
<1> QED BY <1>1, InvHolds, PTL

(***************************************************************************)
(* The dot another member sees.                                            *)
(***************************************************************************)
Announces(s) == up[s] # "none" /\ first[s]
Withdraws    == sweep \/ \E s \in Socket : down[s]

\* What is announced is so until it has been; an open socket that has joined is in the
\* room; and who connects sees no announcement before his snapshot is shown.
DotInv ==
  /\ Withdraws => index = Gone
  /\ \A s \in Socket : Announces(s) => index # Gone
  /\ \A s \in Socket : conn[s] = "open" /\ up[s] # "join" => s \in room
  /\ watch \in {"joined", "looked"} => ~Withdraws /\ \A s \in Socket : up[s] = "none"
  /\ watch # "on" => ~shown
  /\ watch = "looked" => (snap <=> index > 0)
  /\ watch = "on" /\ shown => index # Gone \/ Withdraws
  /\ watch = "on" /\ index > 0 => shown \/ \E s \in Socket : Announces(s)

OrderlyInv == outages = 0 => DotInv

\* Before a change nothing is left to announce.
LEMMA BeforeChange ==
  ASSUME PresenceInv, DotInv, Settled
  PROVE  /\ ~Withdraws /\ \A s \in Socket : ~Announces(s) /\ up[s] = "none" /\ ~down[s]
         /\ watch \in {"off", "on"} /\ ~sweep
         /\ \A s \in Socket : conn[s] = "open" => s \in room
         /\ watch = "on" => (shown => index # Gone) /\ (index > 0 => shown)
         /\ watch = "off" => ~shown
BY DEF Settled, DotInv, Withdraws, Announces

\* A user with a live socket is online.
LEMMA LiveIsOnline ==
  ASSUME PresenceInv, NEW s \in Live
  PROVE  index > 0 /\ index \in Int /\ index # Gone
<1>1. s \in Socket /\ lease[s] > 0 /\ lease[s] <= index
  BY DEF PresenceInv, IndexCoversLeases, Live
<1>2. lease[s] \in Nat /\ index \in Int
  BY <1>1, PresenceAssumption DEF PresenceInv, PresenceTypeOK, Gone
<1> QED BY <1>1, <1>2 DEF Gone

LEMMA IndexIsInteger == PresenceInv => index \in Int /\ index >= Gone
BY PresenceAssumption DEF PresenceInv, PresenceTypeOK, Gone

\* Each step keeps the dot's invariant.
LEMMA ConnectDot ==
  ASSUME PresenceInv, DotInv, Settled, ready, NEW s \in Socket, Connect(s)
  PROVE  DotInv'
<1>1. /\ ~Withdraws /\ \A t \in Socket : ~Announces(t) /\ up[t] = "none" /\ ~down[t]
      /\ watch \in {"off", "on"} /\ ~sweep
      /\ \A t \in Socket : conn[t] = "open" => t \in room
      /\ watch = "on" => (shown => index # Gone) /\ (index > 0 => shown)
      /\ watch = "off" => ~shown
  BY BeforeChange
<1>2. /\ conn \in [Socket -> {"new", "open", "closed", "dead"}]
      /\ up \in [Socket -> {"none", "join", "tell"}] /\ first \in [Socket -> BOOLEAN]
  BY DEF PresenceInv, PresenceTypeOK
<1>3. /\ conn' = [conn EXCEPT ![s] = "open"] /\ up' = [up EXCEPT ![s] = "join"]
      /\ first' = [first EXCEPT ![s] = (Live = {})]
      /\ down' = down /\ room' = room /\ sweep' = sweep /\ watch' = watch /\ snap' = snap
      /\ shown' = shown
  BY DEF Connect, watchVars
<1>4. index' > 0 /\ index' # Gone
  BY IndexIsInteger, PresenceAssumption DEF Connect, Touch, Gone
<1>5. ~Withdraws'
  BY <1>1, <1>3 DEF Withdraws
<1>6. watch = "on" => shown \/ Announces(s)'
  <2>1. CASE Live = {}
    BY <1>2, <1>3, <2>1 DEF Announces
  <2>2. CASE Live # {}
    <3> PICK t \in Live : TRUE
      BY <2>2
    <3> QED BY LiveIsOnline, <1>1
  <2> QED BY <2>1, <2>2
<1>7. \A t \in Socket : conn'[t] = "open" /\ up'[t] # "join" => t \in room'
  BY <1>1, <1>2, <1>3
<1> QED BY <1>1, <1>3, <1>4, <1>5, <1>6, <1>7 DEF DotInv

LEMMA CloseDot ==
  ASSUME PresenceInv, DotInv, Settled, ready, NEW s \in Socket, Close(s)
  PROVE  DotInv'
<1>1. /\ ~Withdraws /\ \A t \in Socket : ~Announces(t) /\ up[t] = "none" /\ ~down[t]
      /\ watch \in {"off", "on"} /\ ~sweep
      /\ \A t \in Socket : conn[t] = "open" => t \in room
      /\ watch = "on" => (shown => index # Gone) /\ (index > 0 => shown)
      /\ watch = "off" => ~shown
  BY BeforeChange
<1>2. conn \in [Socket -> {"new", "open", "closed", "dead"}] /\ down \in [Socket -> BOOLEAN]
  BY DEF PresenceInv, PresenceTypeOK
<1>3. /\ conn[s] = "open" /\ conn' = [conn EXCEPT ![s] = "closed"] /\ up' = up /\ first' = first
      /\ down' = [down EXCEPT ![s] = Offline(s) /\ s \in room]
      /\ room' = room \ {s} /\ sweep' = sweep /\ watch' = watch /\ shown' = shown
      /\ index' = IF Live \ {s} = {} THEN Gone ELSE index
  BY DEF Close, watchVars, Release
<1>4. s \in room
  BY <1>1, <1>3
<1>5. ~sweep' /\ (\A t \in Socket : down'[t] <=> t = s /\ Offline(s))
  BY <1>1, <1>2, <1>3, <1>4
<1>6. Withdraws' <=> Offline(s)
  BY <1>5 DEF Withdraws
<1>7. \A t \in Socket : ~Announces(t)' /\ up'[t] = "none"
  BY <1>1, <1>3 DEF Announces
<1>8. \A t \in Socket : conn'[t] = "open" /\ up'[t] # "join" => t \in room'
  BY <1>1, <1>2, <1>3
<1>9. Offline(s) => index' = Gone
  BY <1>3 DEF Offline
<1>10. index' # Gone \/ Offline(s) \/ index = Gone
  BY <1>3 DEF Offline
<1>11. index' > 0 => index > 0
  BY <1>3 DEF Gone
<1> QED BY <1>1, <1>3, <1>6, <1>7, <1>8, <1>9, <1>10, <1>11 DEF DotInv

LEMMA OtherChangesDot ==
  ASSUME PresenceInv, DotInv, Settled,
         Tick \/ Sweep \/ WatcherJoins \/ \E v \in Server : ServerDies(v)
  PROVE  DotInv'
<1>1. /\ ~Withdraws /\ \A t \in Socket : ~Announces(t) /\ up[t] = "none" /\ ~down[t]
      /\ watch \in {"off", "on"} /\ ~sweep
      /\ \A t \in Socket : conn[t] = "open" => t \in room
      /\ watch = "on" => (shown => index # Gone) /\ (index > 0 => shown)
      /\ watch = "off" => ~shown
  BY BeforeChange
<1>2. index \in Int /\ index >= -1
  BY IndexIsInteger DEF Gone
<1>3. CASE Tick
  <2>1. /\ conn' = conn /\ up' = up /\ first' = first /\ down' = down /\ room' = room
        /\ sweep' = sweep /\ watch' = watch /\ snap' = snap /\ shown' = shown
        /\ index' = IF index > 0 THEN index - 1 ELSE index
    BY <1>3 DEF Tick, watchVars
  <2>2. (index' # Gone <=> index # Gone) /\ (index' > 0 => index > 0)
    BY <2>1, <1>2 DEF Gone
  <2>3. ~Withdraws' /\ \A t \in Socket : ~Announces(t)'
    BY <1>1, <2>1 DEF Withdraws, Announces
  <2> QED BY <1>1, <2>1, <2>2, <2>3 DEF DotInv
<1>4. CASE Sweep
  <2>1. /\ conn' = conn /\ up' = up /\ first' = first /\ down' = down /\ room' = room
        /\ sweep' = TRUE /\ watch' = watch /\ snap' = snap /\ shown' = shown /\ index' = Gone
    BY <1>4 DEF Sweep, sockVars, watchVars
  <2>2. Withdraws' /\ \A t \in Socket : ~Announces(t)'
    BY <1>1, <2>1 DEF Withdraws, Announces
  <2>3. ~(Gone > 0)
    BY DEF Gone
  <2> QED BY <1>1, <2>1, <2>2, <2>3 DEF DotInv
<1>5. CASE WatcherJoins
  <2>1. /\ conn' = conn /\ up' = up /\ first' = first /\ down' = down /\ room' = room
        /\ sweep' = sweep /\ watch = "off" /\ watch' = "joined" /\ shown' = shown /\ index' = index
    BY <1>5 DEF WatcherJoins, sockVars, redisVars
  <2>2. ~Withdraws' /\ \A t \in Socket : ~Announces(t)'
    BY <1>1, <2>1 DEF Withdraws, Announces
  <2> QED BY <1>1, <2>1, <2>2 DEF DotInv
<1>6. ASSUME NEW v \in Server, ServerDies(v) PROVE DotInv'
  <2>1. PICK S : S = {s \in Socket : Home[s] = v /\ conn[s] # "new"}
    OBVIOUS
  <2>2. /\ conn' = [s \in Socket |-> IF s \in S THEN "dead" ELSE conn[s]]
        /\ up' = [s \in Socket |-> IF s \in S THEN "none" ELSE up[s]]
        /\ down' = [s \in Socket |-> down[s] /\ s \notin S]
        /\ room' = room \ S
        /\ first' = first /\ index' = index /\ sweep' = sweep /\ watch' = watch
        /\ snap' = snap /\ shown' = shown
    BY <1>6, <2>1 DEF ServerDies, redisVars, watchVars
  <2>3. ~Withdraws' /\ \A t \in Socket : ~Announces(t)' /\ up'[t] = "none"
    BY <1>1, <2>2 DEF Withdraws, Announces
  <2>4. \A t \in Socket : conn'[t] = "open" /\ up'[t] # "join" => t \in room'
    BY <1>1, <2>2
  <2> QED BY <1>1, <2>2, <2>3, <2>4 DEF DotInv
<1> QED BY <1>3, <1>4, <1>5, <1>6

LEMMA HeartbeatDot ==
  ASSUME PresenceInv, DotInv, outages = 0, NEW s \in Socket, Heartbeat(s)
  PROVE  DotInv'
<1>1. s \in Live
  BY DEF Heartbeat, PresenceInv, PresenceTypeOK, LeaseLasts, Live
<1>2. index > 0 /\ index \in Int /\ index # Gone
  BY <1>1, LiveIsOnline
<1>3. index' > 0 /\ index' # Gone
  BY <1>2, PresenceAssumption DEF Heartbeat, Touch, redisVars, Gone
<1>4. /\ conn' = conn /\ up' = up /\ first' = first /\ down' = down /\ room' = room
      /\ sweep' = sweep /\ watch' = watch /\ snap' = snap /\ shown' = shown
  BY DEF Heartbeat, watchVars
<1>5. (Withdraws' <=> Withdraws) /\ \A t \in Socket : Announces(t)' <=> Announces(t)
  BY <1>4 DEF Withdraws, Announces
<1> QED BY <1>2, <1>3, <1>4, <1>5 DEF DotInv

LEMMA TellsDot ==
  ASSUME PresenceInv, DotInv, outages = 0, Tells
  PROVE  DotInv'
<1>0. /\ up \in [Socket -> {"none", "join", "tell"}] /\ down \in [Socket -> BOOLEAN]
      /\ \A s \in room : conn[s] = "open"
      /\ index \in Int
  BY IndexIsInteger DEF PresenceInv, PresenceTypeOK
<1>1. ASSUME NEW s \in Socket, ConnectJoin(s) PROVE DotInv'
  <2>1. /\ up[s] = "join" /\ up' = [up EXCEPT ![s] = "tell"] /\ conn' = conn
        /\ room' = IF conn[s] = "open" THEN room \cup {s} ELSE room
        /\ first' = first /\ down' = down /\ sweep' = sweep /\ index' = index
        /\ watch' = watch /\ snap' = snap /\ shown' = shown
    BY <1>1 DEF ConnectJoin, redisVars, watchVars
  <2>2. (Withdraws' <=> Withdraws) /\ \A t \in Socket : Announces(t)' <=> Announces(t)
    BY <1>0, <2>1 DEF Withdraws, Announces
  <2>3. \A t \in Socket : conn'[t] = "open" /\ up'[t] # "join" => t \in room'
    BY <1>0, <2>1 DEF DotInv
  <2>4. watch \notin {"joined", "looked"}
    BY <2>1 DEF DotInv
  <2> QED BY <2>1, <2>2, <2>3, <2>4 DEF DotInv
<1>2. ASSUME NEW s \in Socket, ConnectTell(s) PROVE DotInv'
  <2>1. /\ up[s] = "tell" /\ up' = [up EXCEPT ![s] = "none"] /\ conn' = conn /\ room' = room
        /\ first' = first /\ down' = down /\ sweep' = sweep /\ index' = index
        /\ watch' = watch /\ snap' = snap
        /\ shown' = IF first[s] /\ watch # "off" THEN TRUE ELSE shown
    BY <1>2 DEF ConnectTell, Show, redisVars, watchVars
  <2>2. /\ Withdraws' <=> Withdraws
        /\ \A t \in Socket : Announces(t)' <=> t # s /\ Announces(t)
        /\ Announces(s) <=> first[s]
    BY <1>0, <2>1 DEF Withdraws, Announces
  <2>3. \A t \in Socket : conn'[t] = "open" /\ up'[t] # "join" => t \in room'
    BY <1>0, <2>1 DEF DotInv
  <2>4. watch \notin {"joined", "looked"}
    BY <2>1 DEF DotInv
  <2>5. watch = "on" /\ shown' => index # Gone \/ Withdraws
    BY <2>1, <2>2 DEF DotInv
  <2>6. watch = "on" /\ index > 0 => shown' \/ \E t \in Socket : Announces(t)'
    BY <2>1, <2>2 DEF DotInv
  <2>7. watch # "on" => ~shown'
    BY <2>1, <2>4, <1>2 DEF DotInv, PresenceInv, PresenceTypeOK
  <2> QED BY <2>1, <2>2, <2>3, <2>4, <2>5, <2>6, <2>7 DEF DotInv
<1>3. ASSUME SweepTell \/ \E s \in Socket : DisconnectTell(s) PROVE DotInv'
  <2>1. /\ conn' = conn /\ up' = up /\ first' = first /\ room' = room /\ index' = index
        /\ watch' = watch /\ snap' = snap
        /\ shown' = IF watch = "off" THEN shown ELSE FALSE
    BY <1>3 DEF DisconnectTell, SweepTell, Show, sockVars, redisVars, watchVars
  <2>2. Withdraws
    BY <1>3 DEF DisconnectTell, SweepTell, Withdraws
  <2>3. index = Gone /\ ~(index > 0) /\ watch \notin {"joined", "looked"}
    BY <2>2 DEF DotInv, Gone
  <2>4. \A t \in Socket : Announces(t)' <=> Announces(t)
    BY <2>1 DEF Announces
  <2>5. ~shown'
    BY <2>1 DEF DotInv
  <2> QED BY <2>1, <2>3, <2>4, <2>5 DEF DotInv
<1>4. CASE WatcherLooks
  <2>1. /\ conn' = conn /\ up' = up /\ first' = first /\ down' = down /\ room' = room
        /\ sweep' = sweep /\ shown' = shown /\ index' = index
        /\ watch = "joined" /\ watch' = "looked" /\ (snap' <=> index > 0)
    BY <1>4 DEF WatcherLooks, sockVars, redisVars, PresenceInv, LeaseLasts
  <2>2. (Withdraws' <=> Withdraws) /\ \A t \in Socket : Announces(t)' <=> Announces(t)
    BY <2>1 DEF Withdraws, Announces
  <2> QED BY <2>1, <2>2 DEF DotInv
<1>5. CASE WatcherShows
  <2>1. /\ conn' = conn /\ up' = up /\ first' = first /\ down' = down /\ room' = room
        /\ sweep' = sweep /\ index' = index
        /\ watch = "looked" /\ watch' = "on" /\ shown' = (shown \/ snap)
    BY <1>5 DEF WatcherShows, sockVars, redisVars
  <2>2. (Withdraws' <=> Withdraws) /\ \A t \in Socket : Announces(t)' <=> Announces(t)
    BY <2>1 DEF Withdraws, Announces
  <2>3. shown' <=> index > 0
    BY <2>1 DEF DotInv
  <2>4. index > 0 => index # Gone
    BY DEF Gone
  <2> QED BY <2>1, <2>2, <2>3, <2>4 DEF DotInv
<1> QED BY <1>1, <1>2, <1>3, <1>4, <1>5 DEF Tells

LEMMA OrderlyKept ==
  PresenceInv /\ OrderlyInv /\ [Orderly]_vars => OrderlyInv'
<1> SUFFICES ASSUME PresenceInv, OrderlyInv, [Orderly]_vars, outages' = 0
             PROVE  DotInv'
  BY DEF OrderlyInv
<1>1. CASE UNCHANGED vars
  <2>1. /\ conn' = conn /\ up' = up /\ first' = first /\ down' = down /\ room' = room
        /\ sweep' = sweep /\ index' = index /\ outages' = outages
        /\ watch' = watch /\ snap' = snap /\ shown' = shown
    BY <1>1 DEF vars, sockVars, redisVars, failVars, watchVars
  <2>2. (Withdraws' <=> Withdraws) /\ \A t \in Socket : Announces(t)' <=> Announces(t)
    BY <2>1 DEF Withdraws, Announces
  <2> QED BY <2>1, <2>2 DEF DotInv, OrderlyInv
<1>2. CASE Orderly
  <2>1. outages = 0
    <3>1. CASE Changes
      BY <3>1 DEF Changes, Connect, Close, ServerDies, Tick, Sweep, WatcherJoins, failVars
    <3>2. CASE Tells
      BY <3>2 DEF Tells, ConnectJoin, ConnectTell, DisconnectTell, SweepTell, WatcherLooks,
                  WatcherShows, failVars
    <3>3. CASE \E s \in Socket : Heartbeat(s)
      BY <3>3 DEF Heartbeat, failVars
    <3>4. CASE Restored \/ WatcherDrops
      BY <3>4 DEF Restored, WatcherDrops, failVars
    <3>5. CASE Outage
      BY <3>5, PresenceAssumption DEF Outage, PresenceInv, PresenceTypeOK
    <3> QED BY <1>2, <3>1, <3>2, <3>3, <3>4, <3>5 DEF Orderly, Told
  <2>2. DotInv /\ ready
    BY <2>1 DEF OrderlyInv, PresenceInv, LeaseLasts
  <2>3. CASE Changes
    <3>1. Settled
      BY <1>2, <2>3 DEF Orderly
    <3> QED BY <2>2, <2>3, <3>1, ConnectDot, CloseDot, OtherChangesDot DEF Changes
  <2>4. CASE Outage \/ Restored
    BY <2>1, <2>2, <2>4 DEF Outage, Restored
  <2>5. CASE WatcherDrops
    <3>1. /\ conn' = conn /\ up' = up /\ first' = first /\ down' = down /\ room' = room
          /\ sweep' = sweep /\ index' = index /\ watch' = "off" /\ ~shown'
      BY <2>5 DEF WatcherDrops, sockVars, redisVars
    <3>2. (Withdraws' <=> Withdraws) /\ \A t \in Socket : Announces(t)' <=> Announces(t)
      BY <3>1 DEF Withdraws, Announces
    <3> QED BY <2>2, <3>1, <3>2 DEF DotInv
  <2> QED BY <1>2, <2>1, <2>2, <2>3, <2>4, <2>5, TellsDot, HeartbeatDot DEF Orderly, Told
<1> QED BY <1>1, <1>2

LEMMA DotInitially == PresenceInit => OrderlyInv
<1> SUFFICES ASSUME PresenceInit PROVE DotInv
  BY DEF OrderlyInv
<1>1. ~Withdraws /\ \A s \in Socket : ~Announces(s) /\ conn[s] = "new"
  BY DEF PresenceInit, Withdraws, Announces
<1> QED BY <1>1 DEF PresenceInit, DotInv, Gone

\* The other member's dot is right when nothing is left to announce, if every
\* announcement is made before the next change (connection.ts, presence-sweep,
\* presence-context.tsx).
THEOREM OrderlyDot == OrderlySpec => []DotIsRight
<1>1. PresenceInv /\ OrderlyInv => DotIsRight
  <2> SUFFICES ASSUME PresenceInv, DotInv, Settled, watch = "on"
               PROVE  (shown => index # Gone) /\ (index > 0 => shown)
    BY DEF DotIsRight, OrderlyInv
  <2> QED BY BeforeChange
<1>2. PresenceInit => PresenceInv /\ OrderlyInv
  BY InvInitially, DotInitially
<1>3. PresenceInv /\ OrderlyInv /\ [Orderly]_vars => PresenceInv' /\ OrderlyInv'
  BY InvKept, OrderlyKept DEF PresenceNext, Orderly
<1> QED BY <1>1, <1>2, <1>3, PTL DEF OrderlySpec

(***************************************************************************)
(* The cached lists of friends and suggestions.                            *)
(***************************************************************************)
Why == Node \cup {"fresh", "overtaken", "passed", "forgotten"}

Entries == [val : SUBSET User, why : Why]

CacheType ==
  /\ entry \in [Key -> {Missing} \cup Entries]
  /\ mode \in [Node -> {"usable", "down", "clearing"}]
  /\ stale \in [Node -> BOOLEAN] /\ linked \in [Node -> BOOLEAN] /\ retry \in [Node -> BOOLEAN]
  /\ left \in [Node -> [Clear -> (SUBSET Key) \cup {Missing}]]
  /\ owed \in [Req -> SUBSET Key]

FillType ==
  /\ fill \in [Req -> [at : {"none", "load", "more", "set"}, key : Key \cup {Missing},
                       val : (SUBSET User) \cup {Missing}, old : BOOLEAN]]
  /\ \A r \in Req : fill[r].at # "none" => fill[r].key \in Key
  /\ \A r \in Req : fill[r].at \in {"more", "set"} => fill[r].val \in SUBSET User

TablesType ==
  /\ request \in [Dir -> {"NONE", "PENDING", "ACCEPTED"} \cup Answers]
  /\ made \in SUBSET Dir /\ away \in SUBSET User

JobsType ==
  /\ at \in [Req -> {"idle", "create", "write", "read", "commit", "delete", "ids"}]
  /\ job \in [Req -> ({"none", "send", "accept", "remove", "away"} \cup Answers)
                     \X ((User \X User) \cup {Missing})]
  /\ \A r \in Req : at[r] \notin {"idle", "ids"} => job[r][2] \in Dir
  /\ \A r \in Req : at[r] = "ids" => job[r][2] \in User \X User
  /\ \A r \in Req : at[r] = "write" => job[r][1] \in Answers
  /\ \A r \in Req : at[r] # "idle" => owed[r] = {}

FriendsType == CacheType /\ FillType /\ TablesType /\ JobsType

\* What a read has found is still true, unless a write has overtaken it.
FillsAreTrue ==
  \A r \in Req : ~fill[r].old =>
    /\ fill[r].at = "set" => fill[r].val = Truth(fill[r].key)
    /\ fill[r].at = "more" => fill[r].key[1] # "list" /\ fill[r].val = FriendIds(fill[r].key[2])

\* A clear that a skipped invalidation waits for has its key still to delete.
ClearsWillReach ==
  /\ \A s \in Node : mode[s] = "clearing" => stale[s]
  /\ \A s \in Node, c \in Clear, k \in Key :
       left[s][c] # Missing /\ entry[k] # Missing /\ entry[k].why = s => k \in left[s][c]

Remembers == SkippedIsRemembered /\ ClearsWillReach

\* How one clear of one server changes, and all of one server's.
LEMMA LeftOne ==
  ASSUME NEW L, L \in [Node -> [Clear -> (SUBSET Key) \cup {Missing}]], NEW s \in Node, NEW c \in Clear,
         NEW K \in (SUBSET Key) \cup {Missing}
  PROVE  /\ [L EXCEPT ![s][c] = K] \in [Node -> [Clear -> (SUBSET Key) \cup {Missing}]]
         /\ \A v \in Node, e \in Clear :
              [L EXCEPT ![s][c] = K][v][e] = IF v = s /\ e = c THEN K ELSE L[v][e]
<1>1. [L[s] EXCEPT ![c] = K] \in [Clear -> (SUBSET Key) \cup {Missing}]
  <2>1. L[s] \in [Clear -> (SUBSET Key) \cup {Missing}]
    OBVIOUS
  <2> QED BY <2>1
<1>2. L[s] \in [Clear -> (SUBSET Key) \cup {Missing}]
  OBVIOUS
<1>3. [L EXCEPT ![s][c] = K] = [L EXCEPT ![s] = [L[s] EXCEPT ![c] = K]]
  OBVIOUS
<1>4. [L EXCEPT ![s] = [L[s] EXCEPT ![c] = K]] \in [Node -> [Clear -> (SUBSET Key) \cup {Missing}]]
  BY <1>1
<1>5. \A e \in Clear : [L[s] EXCEPT ![c] = K][e] = IF e = c THEN K ELSE L[s][e]
  BY <1>2
<1> QED BY <1>3, <1>4, <1>5

\* Whatever leaves the cache, or is stored by a read, concerns no skipped invalidation.
LEMMA EntriesChange ==
  ASSUME Remembers, UNCHANGED servers,
         \A k \in Key : entry'[k] = entry[k] \/ entry'[k] = Missing \/ entry'[k].why \notin Node
  PROVE  Remembers'
<1>1. /\ mode' = mode /\ stale' = stale /\ left' = left
  BY DEF servers
<1>2. SkippedIsRemembered'
  BY <1>1 DEF Remembers, SkippedIsRemembered
<1>3. ClearsWillReach'
  BY <1>1 DEF Remembers, ClearsWillReach
<1> QED BY <1>2, <1>3 DEF Remembers

\* The invalidation of one key that Redis did not get.
LEMMA BlameKeeps ==
  ASSUME CacheType, Remembers, NEW s \in Node, NEW k \in Key, MarkStale(s), entry' = Blame(s, k),
         mode' = mode, left' = left
  PROVE  /\ Remembers' /\ stale' \in [Node -> BOOLEAN]
         /\ entry' \in [Key -> {Missing} \cup Entries]
         /\ \A j \in Key : entry'[j] = entry[j] \/ (j = k /\ entry'[j].why # "fresh")
<1>1. stale \in [Node -> BOOLEAN] /\ entry \in [Key -> {Missing} \cup Entries]
  BY DEF CacheType
<1>2. stale' = [stale EXCEPT ![s] = TRUE]
  <2>1. CASE mode[s] = "clearing"
    <3>1. stale[s] = TRUE
      BY <1>1, <2>1 DEF Remembers, ClearsWillReach
    <3> QED BY <1>1, <2>1, <3>1 DEF MarkStale
  <2> QED BY <2>1 DEF MarkStale
<1>3. stale' \in [Node -> BOOLEAN] /\ stale'[s] /\ \A v \in Node : stale[v] => stale'[v]
  BY <1>1, <1>2
<1>4. CASE entry[k] = Missing
  <2>1. entry' = entry
    BY <1>4 DEF Blame
  <2>2. SkippedIsRemembered'
    BY <1>3, <2>1 DEF Remembers, SkippedIsRemembered
  <2>3. ClearsWillReach'
    BY <1>3, <2>1 DEF Remembers, ClearsWillReach
  <2> QED BY <1>1, <1>3, <2>1, <2>2, <2>3 DEF Remembers
<1>5. CASE entry[k] # Missing
  <2>1. PICK w : w = (IF \E c \in Clear : left[s][c] # Missing /\ k \notin left[s][c]
                        THEN "passed" ELSE s)
    OBVIOUS
  <2>2. w \in Why /\ w # "fresh" /\ (w \in Node => w = s)
    BY <2>1, CacheAssumption DEF Why
  <2>3. entry' = [entry EXCEPT ![k].why = w]
    BY <1>5, <2>1 DEF Blame
  <2>4. entry[k] \in Entries
    BY <1>1, <1>5
  <2>5. entry'[k] \in Entries /\ entry'[k].why = w /\ entry' \in [Key -> {Missing} \cup Entries]
        /\ \A j \in Key : j # k => entry'[j] = entry[j]
    BY <1>1, <2>2, <2>3, <2>4 DEF Entries
  <2>6. SkippedIsRemembered'
    BY <1>3, <2>2, <2>5 DEF Remembers, SkippedIsRemembered
  <2>7. w \in Node => \A c \in Clear : left[s][c] = Missing \/ k \in left[s][c]
    BY <2>1, CacheAssumption
  <2>8. ClearsWillReach'
    <3>1. ASSUME NEW v \in Node, NEW c \in Clear, NEW j \in Key, left[v][c] # Missing,
                 entry'[j] # Missing, entry'[j].why = v
          PROVE  j \in left[v][c]
      <4>1. CASE j = k
        BY <2>2, <2>5, <2>7, <3>1, <4>1
      <4>2. CASE j # k
        BY <2>5, <3>1, <4>2 DEF Remembers, ClearsWillReach
      <4> QED BY <4>1, <4>2
    <3>2. \A v \in Node : mode[v] = "clearing" => stale'[v]
      BY <1>3 DEF Remembers, ClearsWillReach
    <3> QED BY <3>1, <3>2 DEF ClearsWillReach
  <2> QED BY <1>3, <2>2, <2>5, <2>6, <2>8 DEF Remembers
<1> QED BY <1>4, <1>5

\* A connection comes and goes, and is cleared: a server no longer remembers what it has
\* skipped once it has deleted it.
LEMMA OnReadyKeeps ==
  ASSUME CacheType, Remembers, NEW s \in Node, OnReady(s), entry' = entry, stale' = stale
  PROVE  /\ Remembers' /\ mode' \in [Node -> {"usable", "down", "clearing"}]
         /\ left' \in [Node -> [Clear -> (SUBSET Key) \cup {Missing}]]
<1>1. /\ mode \in [Node -> {"usable", "down", "clearing"}]
      /\ left \in [Node -> [Clear -> (SUBSET Key) \cup {Missing}]]
  BY DEF CacheType
<1>0. SkippedIsRemembered'
  BY DEF Remembers, SkippedIsRemembered
<1>2. CASE UNCHANGED <<mode, left>>
  <2>1. ClearsWillReach'
    BY <1>2 DEF Remembers, ClearsWillReach
  <2> QED BY <1>0, <1>1, <1>2, <2>1 DEF Remembers
<1>3. CASE mode' = [mode EXCEPT ![s] = "usable"] /\ UNCHANGED left
  <2>1. ClearsWillReach'
    BY <1>1, <1>3 DEF Remembers, ClearsWillReach
  <2> QED BY <1>0, <1>1, <1>3, <2>1 DEF Remembers
<1>4. ASSUME stale[s], mode' = [mode EXCEPT ![s] = "clearing"], NEW c \in Clear,
             left' = [left EXCEPT ![s][c] = Key]
      PROVE  /\ Remembers' /\ mode' \in [Node -> {"usable", "down", "clearing"}]
             /\ left' \in [Node -> [Clear -> (SUBSET Key) \cup {Missing}]]
  <2>1. \A v \in Node, e \in Clear : left'[v][e] = IF v = s /\ e = c THEN Key ELSE left[v][e]
    BY <1>1, <1>4
  <2>2. ClearsWillReach'
    BY <1>1, <1>4, <2>1 DEF Remembers, ClearsWillReach
  <2>3. left' \in [Node -> [Clear -> (SUBSET Key) \cup {Missing}]]
    BY <1>1, <1>4
  <2> QED BY <1>0, <1>1, <1>4, <2>2, <2>3 DEF Remembers
<1> QED BY <1>2, <1>3, <1>4 DEF OnReady

\* A connection comes, breaks or is cleared: entries only disappear.
LEMMA CacheStepKeeps ==
  ASSUME CacheType, Remembers, NEW s \in Node, CacheStep(s)
  PROVE  CacheType' /\ Remembers' /\ fill' = fill /\ owed' = owed
         /\ \A k \in Key : entry'[k] = entry[k] \/ entry'[k] = Missing
<1>0. /\ entry \in [Key -> {Missing} \cup Entries]
      /\ mode \in [Node -> {"usable", "down", "clearing"}]
      /\ stale \in [Node -> BOOLEAN] /\ linked \in [Node -> BOOLEAN] /\ retry \in [Node -> BOOLEAN]
      /\ left \in [Node -> [Clear -> (SUBSET Key) \cup {Missing}]]
      /\ owed \in [Req -> SUBSET Key]
  BY DEF CacheType
<1>1. CASE Ready(s)
  <2>1. /\ linked' = [linked EXCEPT ![s] = TRUE] /\ OnReady(s) /\ entry' = entry
        /\ stale' = stale /\ retry' = retry /\ fill' = fill /\ owed' = owed
    BY <1>1 DEF Ready
  <2> QED BY <1>0, <2>1, OnReadyKeeps DEF CacheType
<1>2. CASE Break(s)
  <2>1. /\ linked' = [linked EXCEPT ![s] = FALSE] /\ mode' = [mode EXCEPT ![s] = "down"]
        /\ stale' = [stale EXCEPT ![s] = @ \/ mode[s] = "usable"]
        /\ entry' = entry /\ left' = left /\ retry' = retry /\ fill' = fill /\ owed' = owed
    BY <1>2 DEF Break
  <2>2. stale' \in [Node -> BOOLEAN] /\ \A v \in Node : stale[v] => stale'[v]
    BY <1>0, <2>1
  <2>3. SkippedIsRemembered'
    BY <2>1, <2>2 DEF Remembers, SkippedIsRemembered
  <2>4. ClearsWillReach'
    BY <1>0, <2>1, <2>2 DEF Remembers, ClearsWillReach
  <2> QED BY <1>0, <2>1, <2>2, <2>3, <2>4 DEF CacheType, Remembers
<1>3. CASE ClearAgain(s)
  <2>1. /\ retry' = [retry EXCEPT ![s] = FALSE] /\ entry' = entry /\ stale' = stale
        /\ linked' = linked /\ fill' = fill /\ owed' = owed
        /\ OnReady(s) \/ UNCHANGED <<mode, left>>
    BY <1>3 DEF ClearAgain
  <2>2. CASE OnReady(s)
    BY <1>0, <2>1, <2>2, OnReadyKeeps DEF CacheType
  <2>3. CASE UNCHANGED <<mode, left>>
    <3>1. Remembers'
      BY <2>1, <2>3 DEF Remembers, SkippedIsRemembered, ClearsWillReach
    <3> QED BY <1>0, <2>1, <2>3, <3>1 DEF CacheType
  <2> QED BY <2>1, <2>2, <2>3
<1>4. ASSUME NEW c \in Clear, ClearDone(s, c) PROVE CacheType' /\ Remembers'
  <2>1. /\ left[s][c] = {} /\ left' = [left EXCEPT ![s][c] = Missing]
        /\ stale' = [stale EXCEPT ![s] = FALSE]
        /\ mode' = (IF mode[s] # "clearing" THEN mode
                    ELSE [mode EXCEPT ![s] = IF linked[s] THEN "usable" ELSE "down"])
        /\ entry' = entry /\ linked' = linked /\ retry' = retry /\ owed' = owed
    BY <1>4 DEF ClearDone
  <2>2. left[s][c] # Missing
    BY <2>1, CacheAssumption
  <2>3. \A k \in Key : entry[k] = Missing \/ entry[k].why # s
    BY <2>1, <2>2 DEF Remembers, ClearsWillReach
  <2>4. stale' \in [Node -> BOOLEAN] /\ ~stale'[s] /\ \A v \in Node : v # s => stale'[v] = stale[v]
    BY <1>0, <2>1
  <2>5. SkippedIsRemembered'
    BY <2>1, <2>3, <2>4 DEF Remembers, SkippedIsRemembered
  <2>6. /\ left' \in [Node -> [Clear -> (SUBSET Key) \cup {Missing}]]
        /\ \A v \in Node, e \in Clear : left'[v][e] = IF v = s /\ e = c THEN Missing ELSE left[v][e]
    <3>1. Missing \in (SUBSET Key) \cup {Missing}
      OBVIOUS
    <3> QED BY <1>0, <2>1, <3>1, LeftOne
  <2>7. /\ mode' \in [Node -> {"usable", "down", "clearing"}] /\ mode'[s] # "clearing"
        /\ \A v \in Node : v # s => mode'[v] = mode[v]
    BY <1>0, <2>1
  <2>8. ClearsWillReach'
    BY <2>1, <2>4, <2>6, <2>7 DEF Remembers, ClearsWillReach
  <2> QED BY <1>0, <2>1, <2>4, <2>5, <2>6, <2>7, <2>8 DEF CacheType, Remembers
<1>5. ASSUME NEW c \in Clear, ClearFails(s, c) PROVE CacheType' /\ Remembers'
  <2>1. /\ left' = [left EXCEPT ![s][c] = Missing]
        /\ entry' = entry /\ linked' = linked /\ stale' = stale /\ owed' = owed
        /\ mode' = [mode EXCEPT ![s] = "down"] \/ mode' = mode
        /\ retry' = [retry EXCEPT ![s] = TRUE] \/ retry' = retry
    BY <1>5 DEF ClearFails
  <2>2. /\ left' \in [Node -> [Clear -> (SUBSET Key) \cup {Missing}]]
        /\ \A v \in Node, e \in Clear : left'[v][e] = IF v = s /\ e = c THEN Missing ELSE left[v][e]
    <3>1. Missing \in (SUBSET Key) \cup {Missing}
      OBVIOUS
    <3> QED BY <1>0, <2>1, <3>1, LeftOne
  <2>3. /\ mode' \in [Node -> {"usable", "down", "clearing"}]
        /\ \A v \in Node : mode'[v] = "clearing" => mode[v] = "clearing"
    BY <1>0, <2>1
  <2>4. retry' \in [Node -> BOOLEAN]
    BY <1>0, <2>1
  <2>5. SkippedIsRemembered'
    BY <2>1 DEF Remembers, SkippedIsRemembered
  <2>6. ClearsWillReach'
    BY <2>1, <2>2, <2>3 DEF Remembers, ClearsWillReach
  <2> QED BY <1>0, <2>1, <2>2, <2>3, <2>4, <2>5, <2>6 DEF CacheType, Remembers
<1>6. ASSUME NEW c \in Clear, NEW k \in Key, DeleteMatching(s, c, k)
      PROVE  /\ CacheType' /\ Remembers'
             /\ \A j \in Key : entry'[j] = entry[j] \/ entry'[j] = Missing
  <2>1. /\ left[s][c] # Missing /\ left' = [left EXCEPT ![s][c] = @ \ {k}]
        /\ entry' = [entry EXCEPT ![k] = Missing]
        /\ mode' = mode /\ linked' = linked /\ stale' = stale /\ owed' = owed /\ retry' = retry
    BY <1>6 DEF DeleteMatching
  <2>2. left[s][c] \in SUBSET Key
    <3>1. left[s] \in [Clear -> (SUBSET Key) \cup {Missing}]
      BY <1>0
    <3>2. left[s][c] \in (SUBSET Key) \cup {Missing}
      BY <3>1
    <3> QED BY <2>1, <3>2
  <2>3. /\ left' \in [Node -> [Clear -> (SUBSET Key) \cup {Missing}]]
        /\ \A v \in Node, e \in Clear :
             left'[v][e] = IF v = s /\ e = c THEN left[v][e] \ {k} ELSE left[v][e]
    <3>1. PICK K : K = left[s][c] \ {k}
      OBVIOUS
    <3>2. K \in (SUBSET Key) \cup {Missing} /\ left' = [left EXCEPT ![s][c] = K]
      BY <2>1, <2>2, <3>1
    <3>3. /\ left' \in [Node -> [Clear -> (SUBSET Key) \cup {Missing}]]
          /\ \A v \in Node, e \in Clear : left'[v][e] = IF v = s /\ e = c THEN K ELSE left[v][e]
      BY <1>0, <3>2, LeftOne
    <3> QED BY <3>1, <3>3
  <2>4. entry' \in [Key -> {Missing} \cup Entries] /\ entry'[k] = Missing
        /\ \A j \in Key : j # k => entry'[j] = entry[j]
    BY <1>0, <2>1
  <2>5. SkippedIsRemembered'
    BY <2>1, <2>4 DEF Remembers, SkippedIsRemembered
  <2>6. ClearsWillReach'
    BY <2>1, <2>3, <2>4 DEF Remembers, ClearsWillReach
  <2> QED BY <1>0, <2>1, <2>3, <2>4, <2>5, <2>6 DEF CacheType, Remembers
<1>7. fill' = fill /\ owed' = owed
  BY DEF CacheStep, Ready, Break, ClearAgain, ClearDone, ClearFails, DeleteMatching
<1>8. ASSUME NEW c \in Clear, ClearDone(s, c) \/ ClearFails(s, c) PROVE entry' = entry
  BY <1>8 DEF ClearDone, ClearFails
<1>9. ASSUME Ready(s) \/ Break(s) \/ ClearAgain(s) PROVE entry' = entry
  BY <1>9 DEF Ready, Break, ClearAgain
<1> QED BY <1>1, <1>2, <1>3, <1>4, <1>5, <1>6, <1>7, <1>8, <1>9 DEF CacheStep

\* A server that dies forgets what it had skipped, and nothing still waits for it.
LEMMA CrashKeeps ==
  ASSUME CacheType, Remembers, NEW s \in Node, Crash(s)
  PROVE  /\ CacheType' /\ Remembers'
         /\ \A k \in Key : entry'[k] = entry[k]
              \/ (entry[k] # Missing /\ entry'[k].why # "fresh")
         /\ \A k \in Key, r \in Req : Runs[r] = s /\ k \in owed[r] =>
              entry'[k] = Missing \/ entry'[k].why # "fresh"
         /\ \A r \in Req : Runs[r] # s => owed'[r] = owed[r] /\ fill'[r] = fill[r]
         /\ \A r \in Req : Runs[r] = s => owed'[r] = {} /\ fill'[r] = NoFill
<1>0. /\ entry \in [Key -> {Missing} \cup Entries]
      /\ mode \in [Node -> {"usable", "down", "clearing"}]
      /\ stale \in [Node -> BOOLEAN] /\ linked \in [Node -> BOOLEAN] /\ retry \in [Node -> BOOLEAN]
      /\ left \in [Node -> [Clear -> (SUBSET Key) \cup {Missing}]]
      /\ owed \in [Req -> SUBSET Key]
  BY DEF CacheType
<1>1. /\ linked' = [linked EXCEPT ![s] = FALSE] /\ mode' = [mode EXCEPT ![s] = "down"]
      /\ stale' = [stale EXCEPT ![s] = FALSE] /\ retry' = [retry EXCEPT ![s] = FALSE]
      /\ left' = [left EXCEPT ![s] = [c \in Clear |-> Missing]]
      /\ fill' = [r \in Req |-> IF Runs[r] = s THEN NoFill ELSE fill[r]]
      /\ owed' = [r \in Req |-> IF Runs[r] = s THEN {} ELSE owed[r]]
  BY DEF Crash
<1>2. PICK Lost : Lost = {k \in Key : /\ entry[k] # Missing
                                      /\ entry[k].why = s \/ \E r \in Req : Runs[r] = s /\ k \in owed[r]}
  OBVIOUS
<1>3. entry' = [k \in Key |-> IF k \in Lost THEN [entry[k] EXCEPT !.why = "forgotten"] ELSE entry[k]]
  BY <1>2 DEF Crash
<1>4. \A k \in Lost : entry[k] \in Entries
  BY <1>0, <1>2
<1>5. "forgotten" \in Why /\ "forgotten" \notin Node
  BY CacheAssumption DEF Why
<1>6. \A k \in Key : k \in Lost => entry'[k] \in Entries /\ entry'[k].why = "forgotten"
  BY <1>3, <1>4, <1>5 DEF Entries
<1>7. \A k \in Key : k \notin Lost => entry'[k] = entry[k]
  BY <1>3
<1>8. entry' \in [Key -> {Missing} \cup Entries]
  BY <1>0, <1>3, <1>6, <1>7
<1>9. \A v \in Node : v # s => stale'[v] = stale[v]
  BY <1>0, <1>1
<1>10. SkippedIsRemembered'
  BY <1>2, <1>5, <1>6, <1>7, <1>9 DEF Remembers, SkippedIsRemembered
<1>11. \A v \in Node, c \in Clear : left'[v][c] = IF v = s THEN Missing ELSE left[v][c]
  BY <1>0, <1>1
<1>12. \A v \in Node : mode'[v] = "clearing" => v # s /\ mode[v] = "clearing"
  BY <1>0, <1>1
<1>13. ClearsWillReach'
  <2>1. ASSUME NEW v \in Node, NEW c \in Clear, NEW k \in Key, left'[v][c] # Missing,
               entry'[k] # Missing, entry'[k].why = v
        PROVE  k \in left'[v][c]
    <3>1. v # s /\ left'[v][c] = left[v][c]
      BY <1>11, <2>1
    <3>2. k \notin Lost
      BY <1>5, <1>6, <2>1
    <3> QED BY <1>7, <2>1, <3>1, <3>2 DEF Remembers, ClearsWillReach
  <2>2. \A v \in Node : mode'[v] = "clearing" => stale'[v]
    BY <1>9, <1>12 DEF Remembers, ClearsWillReach
  <2> QED BY <2>1, <2>2 DEF ClearsWillReach
<1>14. CacheType'
  <2>1. /\ mode' \in [Node -> {"usable", "down", "clearing"}]
        /\ stale' \in [Node -> BOOLEAN] /\ linked' \in [Node -> BOOLEAN] /\ retry' \in [Node -> BOOLEAN]
    BY <1>0, <1>1
  <2>2. left' \in [Node -> [Clear -> (SUBSET Key) \cup {Missing}]]
    <3>1. [c \in Clear |-> Missing] \in [Clear -> (SUBSET Key) \cup {Missing}]
      OBVIOUS
    <3> QED BY <1>0, <1>1, <3>1
  <2>3. owed' \in [Req -> SUBSET Key]
    BY <1>0, <1>1
  <2> QED BY <1>8, <2>1, <2>2, <2>3 DEF CacheType
<1>16. \A k \in Key, r \in Req : Runs[r] = s /\ k \in owed[r] => entry[k] = Missing \/ k \in Lost
  BY <1>2
<1>17. \A r \in Req : /\ Runs[r] # s => owed'[r] = owed[r] /\ fill'[r] = fill[r]
                      /\ Runs[r] = s => owed'[r] = {} /\ fill'[r] = NoFill
  BY <1>1
<1>18. \A k \in Key : entry'[k] = entry[k] \/ (entry[k] # Missing /\ entry'[k].why # "fresh")
  BY <1>2, <1>6, <1>7
<1> QED BY <1>6, <1>7, <1>10, <1>13, <1>14, <1>16, <1>17, <1>18 DEF Remembers

\* The lists are read from the tables.
LEMMA TablesSame ==
  ASSUME UNCHANGED tables
  PROVE  /\ \A u : FriendIds(u)' = FriendIds(u) /\ Pending(u)' = Pending(u)
         /\ \A k : Truth(k)' = Truth(k)
<1>1. request' = request /\ made' = made /\ away' = away
  BY DEF tables
<1>2. \A u : FriendIds(u)' = FriendIds(u) /\ Pending(u)' = Pending(u)
  BY <1>1 DEF FriendIds, Friends, Pending
<1> QED BY <1>1, <1>2 DEF Truth

LEMMA TruthType ==
  ASSUME TablesType
  PROVE  /\ \A u : FriendIds(u) \in SUBSET User /\ Pending(u) \in SUBSET User
         /\ \A k : Truth(k) \in SUBSET User
<1>1. \A u : FriendIds(u) \in SUBSET User /\ Pending(u) \in SUBSET User
  BY DEF FriendIds, Pending
<1> QED BY <1>1 DEF Truth

\* What is cached stays true: what a step makes false it has to invalidate, and an entry
\* that it no longer has to must be gone, or blamed.
LEMMA FreshAfter ==
  ASSUME CacheIsFresh,
         \A k \in Key : Truth(k)' = Truth(k) \/ Due(k)',
         \A k \in Key : Due(k) => Due(k)' \/ entry'[k] = Missing \/ entry'[k].why # "fresh",
         \A k \in Key : \/ entry'[k] = entry[k] \/ entry'[k] = Missing
                        \/ entry'[k].why # "fresh" \/ entry'[k].val = Truth(k)
  PROVE  CacheIsFresh'
<1> SUFFICES ASSUME NEW k \in Key, entry'[k] # Missing, entry'[k].why = "fresh", ~Due(k)'
             PROVE  entry'[k].val = Truth(k)'
  BY DEF CacheIsFresh
<1>1. Truth(k)' = Truth(k) /\ ~Due(k)
  OBVIOUS
<1>2. CASE entry'[k] = entry[k]
  BY <1>1, <1>2 DEF CacheIsFresh
<1> QED BY <1>1, <1>2

\* The lists that invalidateFriendsOf will find.
Reached(r) == {List(f) : f \in FriendIds(job[r][2][1])}

\* What has still to be invalidated, when only one handler's part of it changes.
LEMMA DueAfter ==
  ASSUME NEW r \in Req, NEW k,
         \A q \in Req : q # r => owed'[q] = owed[q] /\ at'[q] = at[q],
         \A q \in Req : q # r /\ at[q] = "ids" /\ k \in Reached(q)
            => k \in Reached(q)' \/ k \in owed'[r],
         Due(k)
  PROVE  \/ Due(k)'
         \/ k \in owed[r] /\ k \notin owed'[r]
         \/ at[r] = "ids" /\ k \in Reached(r) /\ k \notin owed'[r]
<1>0. /\ Due(k) <=> \E q \in Req : k \in owed[q] \/ (at[q] = "ids" /\ k \in Reached(q))
      /\ Due(k)' <=> \E q \in Req : k \in owed'[q] \/ (at'[q] = "ids" /\ k \in Reached(q)')
  BY DEF Due, Reached
<1>1. PICK q \in Req : k \in owed[q] \/ (at[q] = "ids" /\ k \in Reached(q))
  BY <1>0
<1>2. CASE q = r
  BY <1>0, <1>1, <1>2
<1>3. CASE q # r
  BY <1>0, <1>1, <1>3
<1> QED BY <1>2, <1>3

\* What a write does to the reads under way.
LEMMA OvertakenKeeps ==
  ASSUME FillType, FillsAreTrue, Overtaken
  PROVE  /\ FillType' /\ FillsAreTrue'
         /\ \A r \in Req : fill'[r].at = fill[r].at /\ fill'[r].key = fill[r].key
<1>1. PICK changed : changed = {k \in Key : Rows(k)' # Rows(k)}
  OBVIOUS
<1>2. fill' = [r \in Req |-> [fill[r] EXCEPT !.old = @ \/ (fill[r].at # "load" /\ fill[r].key \in changed)]]
  BY <1>1 DEF Overtaken
<1>3. fill \in [Req -> [at : {"none", "load", "more", "set"}, key : Key \cup {Missing},
                        val : (SUBSET User) \cup {Missing}, old : BOOLEAN]]
  BY DEF FillType
<1>4. ASSUME NEW r \in Req
      PROVE  /\ fill'[r] \in [at : {"none", "load", "more", "set"}, key : Key \cup {Missing},
                              val : (SUBSET User) \cup {Missing}, old : BOOLEAN]
             /\ fill'[r].at = fill[r].at /\ fill'[r].key = fill[r].key /\ fill'[r].val = fill[r].val
             /\ ~fill'[r].old => ~fill[r].old /\ (fill[r].at # "load" => fill[r].key \notin changed)
  <2>0. fill[r] \in [at : {"none", "load", "more", "set"}, key : Key \cup {Missing},
                     val : (SUBSET User) \cup {Missing}, old : BOOLEAN]
    BY <1>3
  <2>1. PICK b \in BOOLEAN : b = (fill[r].old \/ (fill[r].at # "load" /\ fill[r].key \in changed))
    BY <1>3
  <2>2. fill'[r] = [fill[r] EXCEPT !.old = b]
    BY <1>2, <2>1
  <2>3. fill'[r].old = b
    BY <2>0, <2>2
  <2> QED BY <2>0, <2>1, <2>2, <2>3
<1>5. fill' \in [Req -> [at : {"none", "load", "more", "set"}, key : Key \cup {Missing},
                         val : (SUBSET User) \cup {Missing}, old : BOOLEAN]]
  BY <1>2, <1>4
<1>6. FillType'
  BY <1>4, <1>5 DEF FillType
<1>7. ASSUME NEW r \in Req, ~fill'[r].old, NEW k, k = fill[r].key
      PROVE  /\ fill'[r].at = "set" => fill'[r].val = Truth(k)'
             /\ fill'[r].at = "more" => k[1] # "list" /\ fill'[r].val = FriendIds(k[2])'
  <2>1. /\ fill'[r].at = fill[r].at /\ fill'[r].val = fill[r].val /\ ~fill[r].old
        /\ fill[r].at # "load" => k \notin changed
        /\ fill[r].at # "none" => k \in Key
    BY <1>4, <1>7 DEF FillType
  <2>2. CASE fill[r].at \in {"set", "more"}
    <3>1. Rows(k)' = Rows(k)
      BY <1>1, <2>1, <2>2
    <3>2. /\ FriendIds(k[2])' = FriendIds(k[2])
          /\ k[1] = "list" => away' = away
          /\ k[1] # "list" => Pending(k[2])' = Pending(k[2])
      BY <3>1 DEF Rows
    <3>3. Truth(k)' = Truth(k)
      BY <3>2 DEF Truth
    <3> QED BY <1>7, <2>1, <3>2, <3>3 DEF FillsAreTrue
  <2> QED BY <2>1, <2>2
<1>8. FillsAreTrue'
  <2> SUFFICES ASSUME NEW r \in Req, ~fill'[r].old
               PROVE  /\ fill'[r].at = "set" => fill'[r].val = Truth(fill[r].key)'
                      /\ fill'[r].at = "more" => fill'[r].key[1] # "list"
                                                 /\ fill'[r].val = FriendIds(fill[r].key[2])'
    BY <1>4 DEF FillsAreTrue
  <2> QED BY <1>4, <1>7
<1> QED BY <1>4, <1>6, <1>8

\* What a write of one pair's request and friendship changes, and what it does not.
LEMMA WriteReaches ==
  ASSUME TablesType, NEW d \in Dir, away' = away,
         \A e \in Dir : e # d => request'[e] = request[e],
         \A e : e # d => (e \in made' <=> e \in made)
  PROVE  /\ \A u \in User : u \notin Both(d) => FriendIds(u)' = FriendIds(u) /\ Pending(u)' = Pending(u)
         /\ \A u, f : f \in FriendIds(u) => f \in FriendIds(u)' \/ f \in Both(d)
         /\ made' = made => \A u : FriendIds(u)' = FriendIds(u)
<1>0. d = <<d[1], d[2]>> /\ d[1] \in User /\ d[2] \in User
  BY DEF Dir
<1>1. \A u, f : u \notin Both(d) => /\ <<u, f>> # d /\ <<f, u>> # d
  BY <1>0 DEF Both
<1>2. ASSUME NEW u, u \notin Both(d) PROVE FriendIds(u)' = FriendIds(u)
  <2>1. \A f : Friends(u, f)' <=> Friends(u, f)
    BY <1>1, <1>2 DEF Friends
  <2> QED BY <2>1 DEF FriendIds
<1>3. ASSUME NEW u \in User, u \notin Both(d) PROVE Pending(u)' = Pending(u)
  <2>1. ASSUME NEW f \in User \ {u}, NEW e \in {<<u, f>>, <<f, u>>}
        PROVE  request'[e] = request[e]
    <3>1. e # d
      BY <1>1, <1>3, <2>1
    <3>2. e \in Dir
      BY <2>1 DEF Dir
    <3> QED BY <3>1, <3>2
  <2> QED BY <2>1 DEF Pending
<1>4. ASSUME NEW u, NEW f, f \in FriendIds(u), f \notin Both(d) PROVE f \in FriendIds(u)'
  <2>1. <<u, f>> # d /\ <<f, u>> # d /\ f \in User /\ Friends(u, f)
    BY <1>0, <1>4 DEF Both, FriendIds
  <2>2. Friends(u, f)'
    BY <2>1 DEF Friends
  <2> QED BY <2>1, <2>2 DEF FriendIds
<1>5. ASSUME made' = made, NEW u PROVE FriendIds(u)' = FriendIds(u)
  BY <1>5 DEF FriendIds, Friends
<1> QED BY <1>2, <1>3, <1>4, <1>5

FriendsInv == FriendsType /\ FillsAreTrue /\ CacheIsFresh /\ Remembers

\* The last step of a handler, if it invalidates what it makes false.
LEMMA WroteKeeps ==
  ASSUME FriendsInv, NEW r \in Req, at[r] # "idle", NEW ks, Wrote(r, ks), TablesType',
         \A k \in Key : Truth(k)' = Truth(k) \/ k \in ks,
         \A k \in Key, q \in Req : q # r /\ at[q] = "ids" /\ k \in {List(f) : f \in FriendIds(job[q][2][1])}
            => k \in ks \/ k \in Reached(q)',
         at[r] = "ids" => \A k \in Reached(r) : k \in ks
  PROVE  FriendsInv'
<1>1. /\ at' = [at EXCEPT ![r] = "idle"] /\ job' = [job EXCEPT ![r] = <<"none", Missing>>]
      /\ owed' = [owed EXCEPT ![r] = ks \cap Key]
      /\ Overtaken /\ entry' = entry /\ UNCHANGED servers
  BY DEF Wrote, cacheOnly
<1>2. CacheType /\ FillType /\ TablesType /\ JobsType /\ FillsAreTrue /\ Remembers /\ CacheIsFresh
  BY DEF FriendsInv, FriendsType
<1>3. /\ at \in [Req -> {"idle", "create", "write", "read", "commit", "delete", "ids"}]
      /\ job \in [Req -> ({"none", "send", "accept", "remove", "away"} \cup Answers)
                     \X ((User \X User) \cup {Missing})]
      /\ owed \in [Req -> SUBSET Key]
  BY <1>2 DEF JobsType, CacheType
<1>4. FillType' /\ FillsAreTrue'
  BY <1>1, <1>2, OvertakenKeeps
<1>5. Remembers'
  BY <1>1, <1>2, EntriesChange
<1>6. owed' \in [Req -> SUBSET Key] /\ owed'[r] = ks \cap Key
      /\ \A q \in Req : q # r => owed'[q] = owed[q] /\ at'[q] = at[q] /\ job'[q] = job[q]
  BY <1>1, <1>3
<1>7. CacheType'
  BY <1>1, <1>2, <1>6 DEF CacheType, servers
<1>8. JobsType'
  <2>1. at' \in [Req -> {"idle", "create", "write", "read", "commit", "delete", "ids"}] /\ at'[r] = "idle"
    BY <1>1, <1>3
  <2>2. <<"none", Missing>> \in ({"none", "send", "accept", "remove", "away"} \cup Answers)
                                  \X ((User \X User) \cup {Missing})
    OBVIOUS
  <2>3. job' \in [Req -> ({"none", "send", "accept", "remove", "away"} \cup Answers)
                     \X ((User \X User) \cup {Missing})]
    BY <1>1, <1>3, <2>2
  <2> QED BY <1>2, <1>6, <2>1, <2>3 DEF JobsType
<1>9. CacheIsFresh'
  <2>1. ASSUME NEW k \in Key, Due(k) PROVE Due(k)'
    <3>1. \A q \in Req : q # r /\ at[q] = "ids" /\ k \in Reached(q) => k \in Reached(q)' \/ k \in owed'[r]
      BY <1>6 DEF Reached
    <3>2. owed[r] = {}
      BY <1>2 DEF JobsType
    <3>3. at[r] = "ids" /\ k \in Reached(r) => k \in owed'[r]
      BY <1>6
    <3> QED BY <1>6, <2>1, <3>1, <3>2, <3>3, DueAfter
  <2>2. ASSUME NEW k \in Key, k \in ks PROVE Due(k)'
    BY <1>6, <2>2 DEF Due
  <2> QED BY <1>1, <1>2, <2>1, <2>2, FreshAfter
<1> QED BY <1>2, <1>4, <1>5, <1>7, <1>8, <1>9 DEF FriendsInv, FriendsType

\* A write invalidates the suggestions of both people, and their lists too if it makes or
\* ends their friendship.
LEMMA PairWritten ==
  ASSUME FriendsInv, NEW r \in Req, at[r] \notin {"idle", "ids"}, NEW d \in Dir, NEW ks, Wrote(r, ks),
         TablesType', away' = away,
         \A e \in Dir : e # d => request'[e] = request[e],
         \A e : e # d => (e \in made' <=> e \in made),
         ks = Lists(d) \cup Suggs(d) \/ (made' = made /\ ks = Suggs(d))
  PROVE  FriendsInv'
<1>1. TablesType
  BY DEF FriendsInv, FriendsType
<1>2. /\ \A u \in User : u \notin Both(d) => FriendIds(u)' = FriendIds(u) /\ Pending(u)' = Pending(u)
      /\ \A u, f : f \in FriendIds(u) => f \in FriendIds(u)' \/ f \in Both(d)
      /\ made' = made => \A u : FriendIds(u)' = FriendIds(u)
  BY <1>1, WriteReaches
<1>3. ASSUME NEW k \in Key, k \notin ks PROVE Truth(k)' = Truth(k)
  <2>1. k = <<k[1], k[2]>> /\ k[1] \in {"list", "suggestions"} /\ k[2] \in User
    BY KeyAssumption
  <2>2. CASE k[2] \notin Both(d)
    BY <1>2, <2>1, <2>2 DEF Truth
  <2>3. CASE k[2] \in Both(d)
    <3>1. k \in Lists(d) \/ k \in Suggs(d)
      BY <2>1, <2>3 DEF Lists, Suggs, List, Sugg
    <3>2. made' = made /\ ks = Suggs(d)
      BY <1>3, <3>1
    <3>3. k[1] = "list"
      BY <1>3, <2>1, <2>3, <3>2 DEF Suggs, Sugg
    <3> QED BY <1>2, <3>2, <3>3 DEF Truth
  <2> QED BY <2>2, <2>3
<1>4. ASSUME NEW k \in Key, NEW q \in Req, q # r, at[q] = "ids",
             k \in {List(f) : f \in FriendIds(job[q][2][1])}, k \notin ks
      PROVE  k \in Reached(q)'
  <2>1. PICK u : u = job[q][2][1]
    OBVIOUS
  <2>2. PICK f \in FriendIds(u) : k = List(f)
    BY <1>4, <2>1
  <2>3. f \in FriendIds(u)'
    <3>1. CASE f \in Both(d) /\ made' # made
      BY <1>4, <2>2, <3>1 DEF Lists
    <3> QED BY <1>2, <2>2, <3>1
  <2>4. job'[q] = job[q]
    BY <1>4 DEF Wrote, FriendsInv, FriendsType, JobsType
  <2>5. u = job'[q][2][1]
    BY <2>1, <2>4
  <2>6. Reached(q)' = {List(g) : g \in FriendIds(u)'}
    BY <2>5 DEF Reached, FriendIds, Friends
  <2> QED BY <2>2, <2>3, <2>6
<1> QED BY <1>1, <1>3, <1>4, WroteKeeps

\* A handler that finds there is nothing to do.
LEMMA RefusedKeeps ==
  ASSUME FriendsInv, NEW r \in Req, at[r] \notin {"idle", "ids"}, Refused(r)
  PROVE  FriendsInv'
<1>1. UNCHANGED tables /\ Wrote(r, {})
  BY DEF Refused
<1>2. /\ \A u : FriendIds(u)' = FriendIds(u)
      /\ \A k : Truth(k)' = Truth(k)
  BY <1>1, TablesSame
<1>3. TablesType'
  BY <1>1 DEF FriendsInv, FriendsType, TablesType, tables
<1>4. ASSUME NEW k \in Key, NEW q \in Req, q # r, at[q] = "ids",
             k \in {List(f) : f \in FriendIds(job[q][2][1])}
      PROVE  k \in Reached(q)'
  <2>1. PICK u : u = job[q][2][1]
    OBVIOUS
  <2>2. job'[q] = job[q]
    BY <1>1, <1>4 DEF Wrote, FriendsInv, FriendsType, JobsType
  <2>3. u = job'[q][2][1]
    BY <2>1, <2>2
  <2>4. Reached(q)' = {List(g) : g \in FriendIds(u)'}
    BY <2>3 DEF Reached, FriendIds, Friends
  <2> QED BY <1>2, <1>4, <2>1, <2>4
<1> QED BY <1>1, <1>2, <1>3, <1>4, WroteKeeps

\* Nothing of the tables or of the cache changes.
LEMMA AtKeeps ==
  ASSUME FriendsInv, UNCHANGED <<cacheVars, tables>>, JobsType',
         \A q \in Req : (at'[q] = "ids" <=> at[q] = "ids") /\ (at[q] = "ids" => job'[q] = job[q])
  PROVE  FriendsInv'
<1>1. /\ entry' = entry /\ mode' = mode /\ stale' = stale /\ linked' = linked /\ left' = left
      /\ retry' = retry /\ fill' = fill /\ owed' = owed
      /\ request' = request /\ made' = made /\ away' = away
  BY DEF cacheVars, tables
<1>2. /\ \A u : FriendIds(u)' = FriendIds(u) /\ Pending(u)' = Pending(u)
      /\ \A k : Truth(k)' = Truth(k)
  BY TablesSame
<1>3. CacheType' /\ FillType' /\ TablesType'
  BY <1>1 DEF FriendsInv, FriendsType, CacheType, FillType, TablesType
<1>4. Remembers'
  BY <1>1, EntriesChange DEF FriendsInv, servers
<1>5. FillsAreTrue'
  <2> SUFFICES ASSUME NEW q \in Req, ~fill[q].old, NEW k, k = fill[q].key
               PROVE  /\ fill[q].at = "set" => fill[q].val = Truth(k)'
                      /\ fill[q].at = "more" => k[1] # "list" /\ fill[q].val = FriendIds(k[2])'
    BY <1>1 DEF FillsAreTrue
  <2> QED BY <1>2 DEF FriendsInv, FillsAreTrue
<1>6. ASSUME NEW k PROVE Due(k)' <=> Due(k)
  <2>1. ASSUME NEW q \in Req, at[q] = "ids" PROVE Reached(q)' = Reached(q)
    <3>1. PICK u : u = job[q][2][1]
      OBVIOUS
    <3>2. u = job'[q][2][1]
      BY <2>1, <3>1
    <3>3. Reached(q)' = {List(g) : g \in FriendIds(u)'}
      BY <3>2 DEF Reached, FriendIds, Friends
    <3> QED BY <1>2, <3>1, <3>3 DEF Reached
  <2>2. /\ Due(k) <=> \E q \in Req : k \in owed[q] \/ (at[q] = "ids" /\ k \in Reached(q))
        /\ Due(k)' <=> \E q \in Req : k \in owed'[q] \/ (at'[q] = "ids" /\ k \in Reached(q)')
    BY DEF Due, Reached
  <2> QED BY <1>1, <2>1, <2>2
<1>7. CacheIsFresh'
  <2>1. CacheIsFresh
    BY DEF FriendsInv
  <2> QED BY <1>1, <1>2, <1>6, <2>1, FreshAfter
<1> QED BY <1>3, <1>4, <1>5, <1>7 DEF FriendsInv, FriendsType

\* A handler has made its checks.
LEMMA StartKeeps ==
  ASSUME FriendsInv, NEW r \in Req, NEW d \in Dir,
         NEW o \in {"none", "send", "accept", "remove", "away"} \cup Answers,
         NEW s \in {"create", "write", "read", "delete"},
         s = "write" => o \in Answers, Start(r, o, d, s)
  PROVE  FriendsInv'
<1>1. /\ at[r] = "idle" /\ owed[r] = {} /\ at' = [at EXCEPT ![r] = s]
      /\ job' = [job EXCEPT ![r] = <<o, d>>] /\ UNCHANGED <<cacheVars, tables>> /\ owed' = owed
  BY DEF Start, cacheVars
<1>2. JobsType
  BY DEF FriendsInv, FriendsType
<1>3. d \in User \X User
  BY DEF Dir
<1>4. <<o, d>> \in ({"none", "send", "accept", "remove", "away"} \cup Answers)
                     \X ((User \X User) \cup {Missing})
  BY <1>3
<1>5. /\ at' \in [Req -> {"idle", "create", "write", "read", "commit", "delete", "ids"}]
      /\ job' \in [Req -> ({"none", "send", "accept", "remove", "away"} \cup Answers)
                            \X ((User \X User) \cup {Missing})]
      /\ at'[r] = s /\ job'[r] = <<o, d>>
      /\ \A q \in Req : q # r => at'[q] = at[q] /\ job'[q] = job[q]
  BY <1>1, <1>2, <1>4 DEF JobsType
<1>6. JobsType'
  BY <1>1, <1>2, <1>5 DEF JobsType
<1>7. \A q \in Req : (at'[q] = "ids" <=> at[q] = "ids") /\ (at[q] = "ids" => job'[q] = job[q])
  BY <1>1, <1>5
<1> QED BY <1>1, <1>6, <1>7, AtKeeps

\* The writes of each handler.
LEMMA CreateKeeps ==
  ASSUME FriendsInv, NEW r \in Req, Create(r)
  PROVE  FriendsInv'
<1>1. PICK d : d = job[r][2]
  OBVIOUS
<1>2. at[r] = "create" /\ d \in Dir /\ TablesType
  BY <1>1 DEF Create, FriendsInv, FriendsType, JobsType
<1>3. CASE request' = [request EXCEPT ![d] = "PENDING"] /\ UNCHANGED <<made, away>> /\ Wrote(r, Suggs(d))
  <2>1. /\ \A e \in Dir : e # d => request'[e] = request[e]
        /\ TablesType'
    BY <1>2, <1>3 DEF TablesType
  <2> QED BY <1>2, <1>3, <2>1, PairWritten
<1>4. CASE Refused(r)
  BY <1>2, <1>4, RefusedKeeps
<1> QED BY <1>1, <1>3, <1>4 DEF Create

LEMMA SetRequestStatusKeeps ==
  ASSUME FriendsInv, NEW r \in Req, SetRequestStatus(r)
  PROVE  FriendsInv'
<1>1. PICK d, a : d = job[r][2] /\ a = job[r][1]
  OBVIOUS
<1>2. at[r] = "write" /\ d \in Dir /\ a \in Answers /\ TablesType
  BY <1>1 DEF SetRequestStatus, FriendsInv, FriendsType, JobsType
<1>3. request' = [request EXCEPT ![d] = a] /\ UNCHANGED <<made, away>> /\ Wrote(r, Suggs(d))
  BY <1>1 DEF SetRequestStatus
<1>4. /\ \A e \in Dir : e # d => request'[e] = request[e]
      /\ TablesType'
  BY <1>2, <1>3 DEF TablesType
<1> QED BY <1>2, <1>3, <1>4, PairWritten

LEMMA AcceptReadKeeps ==
  ASSUME FriendsInv, NEW r \in Req, AcceptRead(r)
  PROVE  FriendsInv'
<1>1. CASE at' = [at EXCEPT ![r] = "commit"] /\ UNCHANGED <<cacheVars, tables, job>>
  <2>1. at[r] = "read" /\ JobsType
    BY DEF AcceptRead, FriendsInv, FriendsType
  <2>2. /\ at' \in [Req -> {"idle", "create", "write", "read", "commit", "delete", "ids"}]
        /\ at'[r] = "commit" /\ job' = job /\ owed' = owed
        /\ \A q \in Req : q # r => at'[q] = at[q]
    BY <1>1, <2>1 DEF JobsType, cacheVars
  <2>3. JobsType'
    BY <2>1, <2>2 DEF JobsType
  <2>4. \A q \in Req : (at'[q] = "ids" <=> at[q] = "ids") /\ (at[q] = "ids" => job'[q] = job[q])
    BY <2>1, <2>2
  <2> QED BY <1>1, <2>3, <2>4, AtKeeps
<1>2. CASE Refused(r)
  BY <1>2, RefusedKeeps DEF AcceptRead
<1> QED BY <1>1, <1>2 DEF AcceptRead

LEMMA AcceptCommitKeeps ==
  ASSUME FriendsInv, NEW r \in Req, AcceptCommit(r)
  PROVE  FriendsInv'
<1>1. PICK d : d = job[r][2]
  OBVIOUS
<1>2. at[r] = "commit" /\ d \in Dir /\ TablesType
  BY <1>1 DEF AcceptCommit, FriendsInv, FriendsType, JobsType
<1>3. CASE /\ request' = [request EXCEPT ![d] = "ACCEPTED"]
           /\ made' = IF Back(d) \in made THEN made ELSE made \cup {d}
           /\ UNCHANGED away /\ Wrote(r, Lists(d) \cup Suggs(d))
  <2>1. /\ \A e \in Dir : e # d => request'[e] = request[e]
        /\ \A e : e # d => (e \in made' <=> e \in made)
        /\ TablesType'
    BY <1>2, <1>3 DEF TablesType
  <2>2. away' = away
    BY <1>3
  <2>3. PICK ks : ks = Lists(d) \cup Suggs(d)
    OBVIOUS
  <2>4. Wrote(r, ks)
    BY <1>3, <2>3
  <2> QED BY <1>2, <2>1, <2>2, <2>3, <2>4, PairWritten
<1>4. CASE Refused(r)
  BY <1>2, <1>4, RefusedKeeps
<1> QED BY <1>1, <1>3, <1>4 DEF AcceptCommit

LEMMA DeleteFriendshipKeeps ==
  ASSUME FriendsInv, NEW r \in Req, DeleteFriendship(r)
  PROVE  FriendsInv'
<1>1. PICK d : d = job[r][2]
  OBVIOUS
<1>2. at[r] = "delete" /\ d \in Dir /\ TablesType
  BY <1>1 DEF DeleteFriendship, FriendsInv, FriendsType, JobsType
<1>3. CASE made' = made \ {d} /\ UNCHANGED <<request, away>> /\ Wrote(r, Lists(d) \cup Suggs(d))
  <2>1. /\ \A e \in Dir : e # d => request'[e] = request[e]
        /\ \A e : e # d => (e \in made' <=> e \in made)
        /\ TablesType' /\ away' = away
    BY <1>2, <1>3 DEF TablesType
  <2>3. PICK ks : ks = Lists(d) \cup Suggs(d)
    OBVIOUS
  <2>4. Wrote(r, ks)
    BY <1>3, <2>3
  <2> QED BY <1>2, <2>1, <2>3, <2>4, PairWritten
<1>4. CASE Refused(r)
  BY <1>2, <1>4, RefusedKeeps
<1> QED BY <1>1, <1>3, <1>4 DEF DeleteFriendship

\* An account comes or goes: the lists of its friends are still to be invalidated, and
\* their suggestions do not tell.
LEMMA AwayKeeps ==
  ASSUME FriendsInv, NEW r \in Req, NEW u \in User, Away(r, u)
  PROVE  FriendsInv'
<1>1. /\ at[r] = "idle" /\ owed[r] = {} /\ owed' = owed
      /\ away' = (IF u \in away THEN away \ {u} ELSE away \cup {u})
      /\ request' = request /\ made' = made
      /\ at' = [at EXCEPT ![r] = "ids"] /\ job' = [job EXCEPT ![r] = <<"away", <<u, u>>>>]
      /\ Overtaken /\ entry' = entry /\ UNCHANGED servers
  BY DEF Away, cacheOnly
<1>2. CacheType /\ FillType /\ TablesType /\ JobsType /\ FillsAreTrue /\ Remembers /\ CacheIsFresh
  BY DEF FriendsInv, FriendsType
<1>3. FillType' /\ FillsAreTrue'
  BY <1>1, <1>2, OvertakenKeeps
<1>4. Remembers'
  BY <1>1, <1>2, EntriesChange
<1>5. CacheType' /\ TablesType'
  BY <1>1, <1>2 DEF CacheType, TablesType, servers
<1>6. \A v : FriendIds(v)' = FriendIds(v) /\ Pending(v)' = Pending(v)
  BY <1>1 DEF FriendIds, Friends, Pending
<1>7. <<"away", <<u, u>>>> \in ({"none", "send", "accept", "remove", "away"} \cup Answers)
                                 \X ((User \X User) \cup {Missing})
  OBVIOUS
<1>8. /\ at' \in [Req -> {"idle", "create", "write", "read", "commit", "delete", "ids"}]
      /\ job' \in [Req -> ({"none", "send", "accept", "remove", "away"} \cup Answers)
                            \X ((User \X User) \cup {Missing})]
      /\ at'[r] = "ids" /\ job'[r] = <<"away", <<u, u>>>>
      /\ \A q \in Req : q # r => at'[q] = at[q] /\ job'[q] = job[q]
  BY <1>1, <1>2, <1>7 DEF JobsType
<1>9. JobsType'
  BY <1>1, <1>2, <1>8 DEF JobsType
<1>10. Reached(r)' = {List(f) : f \in FriendIds(u)}
  <2>1. u = job'[r][2][1]
    BY <1>8
  <2>2. Reached(r)' = {List(f) : f \in FriendIds(u)'}
    BY <2>1 DEF Reached, FriendIds, Friends
  <2> QED BY <1>6, <2>2
<1>11. ASSUME NEW k \in Key PROVE Truth(k)' = Truth(k) \/ Due(k)'
  <2>1. CASE k[1] # "list"
    BY <1>6, <2>1 DEF Truth
  <2>2. CASE k[1] = "list" /\ u \notin FriendIds(k[2])
    <3>1. FriendIds(k[2]) \ away' = FriendIds(k[2]) \ away
      BY <1>1, <2>2
    <3> QED BY <1>6, <2>2, <3>1 DEF Truth
  <2>3. CASE k[1] = "list" /\ u \in FriendIds(k[2])
    <3>1. k = List(k[2]) /\ k[2] \in User
      BY <2>3, KeyAssumption DEF List
    <3>2. k[2] \in FriendIds(u)
      BY <2>3, <3>1 DEF FriendIds, Friends
    <3>3. k \in Reached(r)'
      BY <1>10, <3>1, <3>2
    <3> QED BY <1>8, <3>3 DEF Due, Reached
  <2> QED BY <2>1, <2>2, <2>3
<1>12. ASSUME NEW k \in Key, Due(k) PROVE Due(k)'
  <2>1. ASSUME NEW q \in Req, q # r PROVE Reached(q)' = Reached(q)
    <3>1. PICK v : v = job[q][2][1]
      OBVIOUS
    <3>2. v = job'[q][2][1]
      BY <1>8, <2>1, <3>1
    <3>3. Reached(q)' = {List(g) : g \in FriendIds(v)'}
      BY <3>2 DEF Reached, FriendIds, Friends
    <3> QED BY <1>6, <3>1, <3>3 DEF Reached
  <2>2. \A q \in Req : q # r => owed'[q] = owed[q] /\ at'[q] = at[q]
    BY <1>1, <1>8
  <2> QED BY <1>1, <1>12, <2>1, <2>2, DueAfter
<1>13. CacheIsFresh'
  BY <1>1, <1>2, <1>11, <1>12, FreshAfter
<1> QED BY <1>3, <1>4, <1>5, <1>9, <1>13 DEF FriendsInv, FriendsType

\* Its friends are looked up as they are by then.
LEMMA InvalidateFriendsOfKeeps ==
  ASSUME FriendsInv, NEW r \in Req, InvalidateFriendsOf(r)
  PROVE  FriendsInv'
<1>1. at[r] = "ids"
  BY DEF InvalidateFriendsOf
<1>2. CacheType /\ FillType /\ TablesType /\ JobsType /\ FillsAreTrue /\ Remembers /\ CacheIsFresh
  BY DEF FriendsInv, FriendsType
<1>3. CASE UNCHANGED tables /\ Wrote(r, Reached(r))
  <2>1. /\ \A v : FriendIds(v)' = FriendIds(v)
        /\ \A k : Truth(k)' = Truth(k)
    BY <1>3, TablesSame
  <2>2. TablesType'
    BY <1>2, <1>3 DEF TablesType, tables
  <2>3. ASSUME NEW k \in Key, NEW q \in Req, q # r, at[q] = "ids",
               k \in {List(f) : f \in FriendIds(job[q][2][1])}
        PROVE  k \in Reached(q)'
    <3>1. PICK u : u = job[q][2][1]
      OBVIOUS
    <3>2. job'[q] = job[q]
      BY <1>2, <1>3, <2>3 DEF Wrote, JobsType
    <3>3. u = job'[q][2][1]
      BY <3>1, <3>2
    <3>4. Reached(q)' = {List(g) : g \in FriendIds(u)'}
      BY <3>3 DEF Reached, FriendIds, Friends
    <3> QED BY <2>1, <2>3, <3>1, <3>4
  <2>4. PICK ks : ks = Reached(r)
    OBVIOUS
  <2>5. Wrote(r, ks)
    BY <1>3, <2>4
  <2> QED BY <1>1, <2>1, <2>2, <2>3, <2>4, <2>5, WroteKeeps
<1>4. CASE /\ entry' = [k \in Key |-> IF entry[k] # Missing THEN [entry[k] EXCEPT !.why = "forgotten"]
                                                            ELSE entry[k]]
           /\ at' = [at EXCEPT ![r] = "idle"] /\ job' = [job EXCEPT ![r] = <<"none", Missing>>]
           /\ UNCHANGED <<servers, fill, owed, tables>>
  <2>1. "forgotten" \in Why /\ "forgotten" \notin Node
    BY CacheAssumption DEF Why
  <2>2. ASSUME NEW k \in Key
        PROVE  entry'[k] \in {Missing} \cup Entries
               /\ (entry'[k] = Missing \/ entry'[k].why = "forgotten")
    <3>1. entry[k] \in {Missing} \cup Entries
      BY <1>2 DEF CacheType
    <3> QED BY <1>4, <2>1, <3>1 DEF Entries
  <2>3. entry' \in [Key -> {Missing} \cup Entries]
    BY <1>4, <2>2
  <2>4. Remembers'
    BY <1>2, <1>4, <2>1, <2>2, EntriesChange
  <2>5. CacheIsFresh'
    BY <2>2 DEF CacheIsFresh
  <2>6. CacheType' /\ FillType' /\ TablesType'
    BY <1>2, <1>4, <2>3 DEF CacheType, FillType, TablesType, servers, tables
  <2>7. /\ \A v : FriendIds(v)' = FriendIds(v)
        /\ \A k : Truth(k)' = Truth(k)
    BY <1>4, TablesSame
  <2>8. FillsAreTrue'
    <3> SUFFICES ASSUME NEW q \in Req, ~fill[q].old, NEW k, k = fill[q].key
                 PROVE  /\ fill[q].at = "set" => fill[q].val = Truth(k)'
                        /\ fill[q].at = "more" => k[1] # "list" /\ fill[q].val = FriendIds(k[2])'
      BY <1>4 DEF FillsAreTrue
    <3> QED BY <1>2, <2>7 DEF FillsAreTrue
  <2>9. JobsType'
    <3>1. <<"none", Missing>> \in ({"none", "send", "accept", "remove", "away"} \cup Answers)
                                    \X ((User \X User) \cup {Missing})
      OBVIOUS
    <3>2. /\ at' \in [Req -> {"idle", "create", "write", "read", "commit", "delete", "ids"}]
          /\ job' \in [Req -> ({"none", "send", "accept", "remove", "away"} \cup Answers)
                                \X ((User \X User) \cup {Missing})]
          /\ at'[r] = "idle" /\ owed' = owed
          /\ \A q \in Req : q # r => at'[q] = at[q] /\ job'[q] = job[q]
      BY <1>2, <1>4, <3>1 DEF JobsType
    <3> QED BY <1>2, <3>2 DEF JobsType
  <2> QED BY <2>4, <2>5, <2>6, <2>8, <2>9 DEF FriendsInv, FriendsType
<1> QED BY <1>3, <1>4 DEF InvalidateFriendsOf, Reached

\* A step of the cache alone.
LEMMA CacheKeeps ==
  ASSUME FriendsInv, UNCHANGED <<tables, handlers>>, CacheType', FillType', Remembers',
         \A q \in Req : at[q] # "idle" => owed'[q] = {},
         \A q \in Req : \/ fill'[q] = fill[q] \/ fill'[q].at \in {"none", "load"} \/ fill'[q].old
                        \/ fill'[q].at = "set" /\ fill'[q].val = Truth(fill[q].key) /\ fill'[q].key = fill[q].key
                        \/ /\ fill'[q].at = "more" /\ fill'[q].key = fill[q].key
                           /\ fill[q].key[1] # "list" /\ fill'[q].val = FriendIds(fill[q].key[2]),
         \A k \in Key, q \in Req : k \in owed[q] =>
           k \in owed'[q] \/ entry'[k] = Missing \/ entry'[k].why # "fresh",
         \A k \in Key : \/ entry'[k] = entry[k] \/ entry'[k] = Missing
                        \/ entry'[k].why # "fresh" \/ entry'[k].val = Truth(k)
  PROVE  FriendsInv'
<1>1. at' = at /\ job' = job /\ UNCHANGED tables
  BY DEF handlers
<1>2. /\ \A u : FriendIds(u)' = FriendIds(u) /\ Pending(u)' = Pending(u)
      /\ \A k : Truth(k)' = Truth(k)
  BY <1>1, TablesSame
<1>3. TablesType' /\ JobsType'
  BY <1>1 DEF FriendsInv, FriendsType, TablesType, JobsType, tables
<1>4. FillsAreTrue'
  <2> SUFFICES ASSUME NEW q \in Req, ~fill'[q].old, NEW k, k = fill'[q].key
               PROVE  /\ fill'[q].at = "set" => fill'[q].val = Truth(k)'
                      /\ fill'[q].at = "more" => k[1] # "list" /\ fill'[q].val = FriendIds(k[2])'
    BY DEF FillsAreTrue
  <2>1. CASE fill'[q] = fill[q]
    BY <1>2, <2>1 DEF FriendsInv, FillsAreTrue
  <2>2. CASE fill'[q].at \in {"none", "load"}
    BY <2>2
  <2>3. CASE fill'[q].at = "set" /\ fill'[q].val = Truth(fill[q].key) /\ fill'[q].key = fill[q].key
    BY <1>2, <2>3
  <2>4. CASE /\ fill'[q].at = "more" /\ fill'[q].key = fill[q].key
             /\ fill[q].key[1] # "list" /\ fill'[q].val = FriendIds(fill[q].key[2])
    BY <1>2, <2>4
  <2> QED BY <2>1, <2>2, <2>3, <2>4
<1>5. ASSUME NEW k \in Key, Due(k) PROVE Due(k)' \/ entry'[k] = Missing \/ entry'[k].why # "fresh"
  <2>1. PICK q \in Req : k \in owed[q] \/ (at[q] = "ids" /\ k \in Reached(q))
    BY <1>5 DEF Due, Reached
  <2>2. Reached(q)' = Reached(q)
    BY <1>1, <1>2 DEF Reached, FriendIds, Friends, tables
  <2>3. Due(k)' <=> \E p \in Req : k \in owed'[p] \/ (at'[p] = "ids" /\ k \in Reached(p)')
    BY DEF Due, Reached
  <2> QED BY <1>1, <2>1, <2>2, <2>3
<1>6. CacheIsFresh'
  <2>1. CacheIsFresh
    BY DEF FriendsInv
  <2> QED BY <1>2, <1>5, <2>1, FreshAfter
<1> QED BY <1>3, <1>4, <1>6 DEF FriendsInv, FriendsType

\* The steps of a read, and of an invalidation.
LEMMA ReadKeeps ==
  ASSUME FriendsInv, NEW r \in Req, NEW k \in Key, Read(r, k)
  PROVE  FriendsInv'
<1>1. /\ fill' = [fill EXCEPT ![r] = [at |-> "load", key |-> k, val |-> Missing, old |-> FALSE]]
      /\ entry' = entry /\ owed' = owed /\ UNCHANGED servers /\ UNCHANGED <<tables, handlers>>
  BY DEF Read, Miss
<1>2. CacheType /\ FillType /\ Remembers /\ JobsType
  BY DEF FriendsInv, FriendsType
<1>3. CacheType' /\ Remembers'
  BY <1>1, <1>2, EntriesChange DEF CacheType, servers
<1>4. /\ fill' \in [Req -> [at : {"none", "load", "more", "set"}, key : Key \cup {Missing},
                            val : (SUBSET User) \cup {Missing}, old : BOOLEAN]]
      /\ fill'[r].at = "load" /\ fill'[r].key = k
      /\ \A q \in Req : q # r => fill'[q] = fill[q]
  BY <1>1, <1>2 DEF FillType
<1>5. FillType'
  BY <1>2, <1>4 DEF FillType
<1>6. \A q \in Req : fill'[q] = fill[q] \/ fill'[q].at \in {"none", "load"}
  BY <1>4
<1>7. \A q \in Req : at[q] # "idle" => owed'[q] = {}
  BY <1>1, <1>2 DEF JobsType
<1> QED BY <1>1, <1>3, <1>5, <1>6, <1>7, CacheKeeps

\* A query of the loader.
LEMMA LoadKeeps ==
  ASSUME FriendsInv, UNCHANGED <<tables, handlers>>, NEW r \in Req, fill[r].at # "none",
         NEW v \in SUBSET User, NEW more \in BOOLEAN, Load(r, v, more),
         IF more THEN fill[r].key[1] # "list" /\ v = FriendIds(fill[r].key[2])
                 ELSE fill[r].old \/ v = Truth(fill[r].key)
  PROVE  FriendsInv'
<1>1. CacheType /\ FillType /\ Remembers /\ JobsType
  BY DEF FriendsInv, FriendsType
<1>2. PICK s : s = IF more THEN "more" ELSE "set"
  OBVIOUS
<1>3. /\ fill' = [fill EXCEPT ![r].at = s, ![r].val = v]
      /\ entry' = entry /\ owed' = owed /\ UNCHANGED servers
  BY <1>2 DEF Load
<1>4. fill[r] \in [at : {"none", "load", "more", "set"}, key : Key \cup {Missing},
                   val : (SUBSET User) \cup {Missing}, old : BOOLEAN]
  BY <1>1 DEF FillType
<1>5. fill' = [fill EXCEPT ![r] = [fill[r] EXCEPT !.at = s, !.val = v]]
  BY <1>1, <1>3 DEF FillType
<1>6. /\ [fill[r] EXCEPT !.at = s, !.val = v]
           \in [at : {"none", "load", "more", "set"}, key : Key \cup {Missing},
                val : (SUBSET User) \cup {Missing}, old : BOOLEAN]
      /\ [fill[r] EXCEPT !.at = s, !.val = v].at = s
      /\ [fill[r] EXCEPT !.at = s, !.val = v].val = v
      /\ [fill[r] EXCEPT !.at = s, !.val = v].key = fill[r].key
      /\ [fill[r] EXCEPT !.at = s, !.val = v].old = fill[r].old
  BY <1>2, <1>4
<1>7. /\ fill' \in [Req -> [at : {"none", "load", "more", "set"}, key : Key \cup {Missing},
                            val : (SUBSET User) \cup {Missing}, old : BOOLEAN]]
      /\ fill'[r].at = s /\ fill'[r].val = v /\ fill'[r].key = fill[r].key /\ fill'[r].old = fill[r].old
      /\ \A q \in Req : q # r => fill'[q] = fill[q]
  BY <1>1, <1>5, <1>6 DEF FillType
<1>8. FillType'
  BY <1>1, <1>2, <1>7 DEF FillType
<1>9. CacheType' /\ Remembers'
  BY <1>1, <1>3, EntriesChange DEF CacheType, servers
<1>10. \A q \in Req : \/ fill'[q] = fill[q] \/ fill'[q].at \in {"none", "load"} \/ fill'[q].old
                      \/ fill'[q].at = "set" /\ fill'[q].val = Truth(fill[q].key) /\ fill'[q].key = fill[q].key
                      \/ /\ fill'[q].at = "more" /\ fill'[q].key = fill[q].key
                         /\ fill[q].key[1] # "list" /\ fill'[q].val = FriendIds(fill[q].key[2])
  BY <1>2, <1>7
<1>11. \A q \in Req : at[q] # "idle" => owed'[q] = {}
  BY <1>1, <1>3 DEF JobsType
<1> QED BY <1>3, <1>8, <1>9, <1>10, <1>11, CacheKeeps

LEMMA FindRowsKeeps ==
  ASSUME FriendsInv, NEW r \in Req, FindRows(r)
  PROVE  FriendsInv'
<1>1. PICK k : k = fill[r].key
  OBVIOUS
<1>2. Truth(k) \in SUBSET User /\ FriendIds(k[2]) \in SUBSET User
  BY TruthType DEF FriendsInv, FriendsType
<1>3. fill[r].at # "none" /\ UNCHANGED <<tables, handlers>>
  BY DEF FindRows
<1>4. CASE k[1] = "list" /\ Load(r, Truth(k), FALSE)
  BY <1>1, <1>2, <1>3, <1>4, LoadKeeps
<1>5. CASE k[1] # "list" /\ Load(r, FriendIds(k[2]), TRUE)
  BY <1>1, <1>2, <1>3, <1>5, LoadKeeps
<1> QED BY <1>1, <1>4, <1>5 DEF FindRows

LEMMA FindPendingKeeps ==
  ASSUME FriendsInv, NEW r \in Req, FindPending(r)
  PROVE  FriendsInv'
<1>1. PICK k, v : k = fill[r].key /\ v = fill[r].val \cup Pending(fill[r].key[2])
  OBVIOUS
<1>2. fill[r].at = "more" /\ UNCHANGED <<tables, handlers>> /\ Load(r, v, FALSE)
  BY <1>1 DEF FindPending
<1>3. v \in SUBSET User
  BY <1>1, <1>2, TruthType DEF FriendsInv, FriendsType, FillType
<1>4. fill[r].old \/ v = Truth(k)
  BY <1>1, <1>2 DEF FriendsInv, FillsAreTrue, Truth
<1> QED BY <1>1, <1>2, <1>3, <1>4, LoadKeeps

LEMMA StoreKeeps ==
  ASSUME FriendsInv, NEW r \in Req, Store(r), UNCHANGED <<tables, handlers>>
  PROVE  FriendsInv'
<1>1. CacheType /\ FillType /\ Remembers /\ JobsType /\ FillsAreTrue
  BY DEF FriendsInv, FriendsType
<1>2. PICK k, e : k = fill[r].key
        /\ e = [val |-> fill[r].val, why |-> IF fill[r].old THEN "overtaken" ELSE "fresh"]
  OBVIOUS
<1>3. /\ fill[r].at = "set" /\ fill' = [fill EXCEPT ![r] = NoFill] /\ owed' = owed
      /\ UNCHANGED servers
      /\ entry' = [entry EXCEPT ![k] = e] \/ entry' = entry
  BY <1>2 DEF Store
<1>4. k \in Key /\ e \in Entries /\ e.why \notin Node
      /\ (e.why # "fresh" \/ e.val = Truth(k))
  BY <1>1, <1>2, <1>3, CacheAssumption DEF FillType, FillsAreTrue, Entries, Why
<1>5. /\ entry' \in [Key -> {Missing} \cup Entries]
      /\ \A j \in Key : entry'[j] = entry[j] \/ (j = k /\ entry'[j] = e)
  BY <1>1, <1>3, <1>4 DEF CacheType
<1>6. NoFill \in [at : {"none", "load", "more", "set"}, key : Key \cup {Missing},
                  val : (SUBSET User) \cup {Missing}, old : BOOLEAN] /\ NoFill.at = "none"
  BY DEF NoFill
<1>7. /\ fill' \in [Req -> [at : {"none", "load", "more", "set"}, key : Key \cup {Missing},
                            val : (SUBSET User) \cup {Missing}, old : BOOLEAN]]
      /\ fill'[r] = NoFill
      /\ \A q \in Req : q # r => fill'[q] = fill[q]
  BY <1>1, <1>3, <1>6 DEF FillType
<1>8. FillType'
  BY <1>1, <1>6, <1>7 DEF FillType
<1>9. CacheType'
  BY <1>1, <1>3, <1>5 DEF CacheType, servers
<1>10. Remembers'
  BY <1>1, <1>3, <1>4, <1>5, EntriesChange
<1>11. \A q \in Req : fill'[q] = fill[q] \/ fill'[q].at \in {"none", "load"}
  BY <1>6, <1>7
<1>12. \A q \in Req : at[q] # "idle" => owed'[q] = {}
  BY <1>1, <1>3 DEF JobsType
<1>13. \A j \in Key : \/ entry'[j] = entry[j] \/ entry'[j] = Missing
                      \/ entry'[j].why # "fresh" \/ entry'[j].val = Truth(j)
  BY <1>4, <1>5
<1> QED BY <1>3, <1>8, <1>9, <1>10, <1>11, <1>12, <1>13, CacheKeeps

LEMMA InvalidateKeeps ==
  ASSUME FriendsInv, NEW r \in Req, NEW k \in Key, Invalidate(r, k), UNCHANGED <<tables, handlers>>
  PROVE  FriendsInv'
<1>1. CacheType /\ FillType /\ Remembers /\ JobsType
  BY DEF FriendsInv, FriendsType
<1>2. PICK s \in Node : s = Runs[r]
  BY CacheAssumption
<1>3. /\ k \in owed[r] /\ owed' = [owed EXCEPT ![r] = @ \ {k}]
      /\ mode' = mode /\ linked' = linked /\ left' = left /\ retry' = retry /\ fill' = fill
      /\ \/ entry' = [entry EXCEPT ![k] = Missing] /\ stale' = stale
         \/ MarkStale(s) /\ entry' = Blame(s, k)
  BY <1>2 DEF Invalidate
<1>4. /\ owed' \in [Req -> SUBSET Key] /\ owed'[r] = owed[r] \ {k}
      /\ \A q \in Req : q # r => owed'[q] = owed[q]
  BY <1>1, <1>3 DEF CacheType
<1>5. /\ Remembers' /\ stale' \in [Node -> BOOLEAN]
      /\ entry' \in [Key -> {Missing} \cup Entries]
      /\ \A j \in Key : \/ entry'[j] = entry[j] /\ (j = k => entry[k] = Missing)
                        \/ entry'[j] = Missing \/ entry'[j].why # "fresh"
  <2>1. CASE entry' = [entry EXCEPT ![k] = Missing] /\ stale' = stale
    <3>1. /\ entry' \in [Key -> {Missing} \cup Entries] /\ entry'[k] = Missing
          /\ \A j \in Key : j # k => entry'[j] = entry[j]
      BY <1>1, <2>1 DEF CacheType
    <3>2. Remembers'
      BY <1>1, <1>3, <2>1, <3>1, EntriesChange DEF servers
    <3>3. stale' \in [Node -> BOOLEAN]
      BY <1>1, <2>1 DEF CacheType
    <3> QED BY <3>1, <3>2, <3>3
  <2>2. CASE MarkStale(s) /\ entry' = Blame(s, k)
    <3>1. /\ Remembers' /\ stale' \in [Node -> BOOLEAN]
          /\ entry' \in [Key -> {Missing} \cup Entries]
          /\ \A j \in Key : entry'[j] = entry[j] \/ (j = k /\ entry'[j].why # "fresh")
      BY <1>1, <1>3, <2>2, BlameKeeps
    <3>2. entry[k] # Missing => entry'[k].why # "fresh"
      <4>1. ASSUME entry[k] # Missing PROVE entry'[k].why # "fresh"
        <5>1. PICK w : w = (IF \E c \in Clear : left[s][c] # Missing /\ k \notin left[s][c]
                              THEN "passed" ELSE s)
          OBVIOUS
        <5>2. w # "fresh"
          BY <5>1, CacheAssumption
        <5>3. entry' = [entry EXCEPT ![k].why = w]
          BY <2>2, <4>1, <5>1 DEF Blame
        <5>4. entry[k] \in Entries
          BY <1>1, <4>1 DEF CacheType
        <5> QED BY <1>1, <5>2, <5>3, <5>4 DEF CacheType, Entries
      <4> QED BY <4>1
    <3> QED BY <3>1, <3>2
  <2> QED BY <1>3, <2>1, <2>2
<1>6. CacheType' /\ FillType'
  BY <1>1, <1>3, <1>4, <1>5 DEF CacheType, FillType
<1>7. \A q \in Req : at[q] # "idle" => owed'[q] = {}
  BY <1>1, <1>4 DEF JobsType
<1>8. \A j \in Key, q \in Req : j \in owed[q] =>
        j \in owed'[q] \/ entry'[j] = Missing \/ entry'[j].why # "fresh"
  BY <1>4, <1>5
<1>9. \A q \in Req : fill'[q] = fill[q]
  BY <1>3
<1>10. \A j \in Key : entry'[j] = entry[j] \/ entry'[j] = Missing \/ entry'[j].why # "fresh"
  BY <1>5
<1> QED BY <1>5, <1>6, <1>7, <1>8, <1>9, <1>10, CacheKeeps

LEMMA RedisKeeps ==
  ASSUME FriendsInv, Redis, UNCHANGED <<tables, handlers>>
  PROVE  FriendsInv'
<1>1. CacheType /\ FillType /\ Remembers /\ JobsType
  BY DEF FriendsInv, FriendsType
<1>2. /\ CacheType' /\ Remembers' /\ fill' = fill /\ owed' = owed
      /\ \A k \in Key : entry'[k] = entry[k] \/ entry'[k] = Missing
  <2>1. ASSUME NEW k \in Key, Expire(k)
        PROVE  /\ CacheType' /\ Remembers' /\ fill' = fill /\ owed' = owed
               /\ \A j \in Key : entry'[j] = entry[j] \/ entry'[j] = Missing
    <3>1. entry' = [entry EXCEPT ![k] = Missing] /\ UNCHANGED servers /\ fill' = fill /\ owed' = owed
      BY <2>1 DEF Expire
    <3>2. /\ entry' \in [Key -> {Missing} \cup Entries]
          /\ \A j \in Key : entry'[j] = entry[j] \/ entry'[j] = Missing
      BY <1>1, <3>1 DEF CacheType
    <3>3. Remembers'
      BY <1>1, <3>1, <3>2, EntriesChange
    <3> QED BY <1>1, <3>1, <3>2, <3>3 DEF CacheType, servers
  <2>2. ASSUME NEW s \in Node, CacheStep(s)
        PROVE  /\ CacheType' /\ Remembers' /\ fill' = fill /\ owed' = owed
               /\ \A k \in Key : entry'[k] = entry[k] \/ entry'[k] = Missing
    BY <1>1, <2>2, CacheStepKeeps
  <2> QED BY <2>1, <2>2 DEF Redis
<1>3. FillType'
  BY <1>1, <1>2 DEF FillType
<1>4. \A q \in Req : at[q] # "idle" => owed'[q] = {}
  BY <1>1, <1>2 DEF JobsType
<1> QED BY <1>2, <1>3, <1>4, CacheKeeps

LEMMA DieKeeps ==
  ASSUME FriendsInv, NEW s \in Node, Die(s)
  PROVE  FriendsInv'
<1>1. CacheType /\ FillType /\ TablesType /\ JobsType /\ FillsAreTrue /\ Remembers /\ CacheIsFresh
  BY DEF FriendsInv, FriendsType
<1>2. /\ at' = [r \in Req |-> IF Runs[r] = s THEN "idle" ELSE at[r]]
      /\ job' = [r \in Req |-> IF Runs[r] = s THEN <<"none", Missing>> ELSE job[r]]
      /\ UNCHANGED tables
      /\ \A r \in Req : Runs[r] = s => at[r] # "ids"
      /\ Crash(s)
  BY DEF Die
<1>3. /\ CacheType' /\ Remembers'
      /\ \A k \in Key : entry'[k] = entry[k] \/ (entry[k] # Missing /\ entry'[k].why # "fresh")
      /\ \A k \in Key, r \in Req : Runs[r] = s /\ k \in owed[r] =>
           entry'[k] = Missing \/ entry'[k].why # "fresh"
      /\ \A r \in Req : Runs[r] # s => owed'[r] = owed[r] /\ fill'[r] = fill[r]
      /\ \A r \in Req : Runs[r] = s => owed'[r] = {} /\ fill'[r] = NoFill
  BY <1>1, <1>2, CrashKeeps
<1>4. /\ \A u : FriendIds(u)' = FriendIds(u) /\ Pending(u)' = Pending(u)
      /\ \A k : Truth(k)' = Truth(k)
  BY <1>2, TablesSame
<1>5. TablesType'
  BY <1>1, <1>2 DEF TablesType, tables
<1>6. NoFill \in [at : {"none", "load", "more", "set"}, key : Key \cup {Missing},
                  val : (SUBSET User) \cup {Missing}, old : BOOLEAN] /\ NoFill.at = "none"
  BY DEF NoFill
<1>7. FillType'
  <2>1. fill' = [r \in Req |-> IF Runs[r] = s THEN NoFill ELSE fill[r]]
    BY <1>2 DEF Crash
  <2>2. fill' \in [Req -> [at : {"none", "load", "more", "set"}, key : Key \cup {Missing},
                           val : (SUBSET User) \cup {Missing}, old : BOOLEAN]]
    BY <1>1, <1>6, <2>1 DEF FillType
  <2> QED BY <1>1, <1>3, <1>6, <2>2 DEF FillType
<1>8. <<"none", Missing>> \in ({"none", "send", "accept", "remove", "away"} \cup Answers)
                                \X ((User \X User) \cup {Missing})
  OBVIOUS
<1>9. /\ \A r \in Req : Runs[r] = s => at'[r] = "idle"
      /\ \A r \in Req : Runs[r] # s => at'[r] = at[r] /\ job'[r] = job[r]
  BY <1>2
<1>10. JobsType'
  <2>1. at' \in [Req -> {"idle", "create", "write", "read", "commit", "delete", "ids"}]
    BY <1>1, <1>2 DEF JobsType
  <2>2. job' \in [Req -> ({"none", "send", "accept", "remove", "away"} \cup Answers)
                            \X ((User \X User) \cup {Missing})]
    BY <1>1, <1>2, <1>8 DEF JobsType
  <2> QED BY <1>1, <1>3, <1>9, <2>1, <2>2 DEF JobsType
<1>11. FillsAreTrue'
  <2> SUFFICES ASSUME NEW q \in Req, ~fill'[q].old, NEW k, k = fill'[q].key
               PROVE  /\ fill'[q].at = "set" => fill'[q].val = Truth(k)'
                      /\ fill'[q].at = "more" => k[1] # "list" /\ fill'[q].val = FriendIds(k[2])'
    BY DEF FillsAreTrue
  <2> QED BY <1>1, <1>3, <1>4, <1>6 DEF FillsAreTrue
<1>12. ASSUME NEW k \in Key, Due(k) PROVE Due(k)' \/ entry'[k] = Missing \/ entry'[k].why # "fresh"
  <2>1. PICK q \in Req : k \in owed[q] \/ (at[q] = "ids" /\ k \in Reached(q))
    BY <1>12 DEF Due, Reached
  <2>2. CASE Runs[q] = s
    BY <1>2, <1>3, <2>1, <2>2
  <2>3. CASE Runs[q] # s
    <3>1. PICK v : v = job[q][2][1]
      OBVIOUS
    <3>2. v = job'[q][2][1]
      BY <1>9, <2>3, <3>1
    <3>3. Reached(q)' = {List(g) : g \in FriendIds(v)'}
      BY <3>2 DEF Reached, FriendIds, Friends
    <3>4. Reached(q)' = Reached(q)
      BY <1>4, <3>1, <3>3 DEF Reached
    <3>5. Due(k)' <=> \E p \in Req : k \in owed'[p] \/ (at'[p] = "ids" /\ k \in Reached(p)')
      BY DEF Due, Reached
    <3> QED BY <1>3, <1>9, <2>1, <2>3, <3>4, <3>5
  <2> QED BY <2>2, <2>3
<1>13. CacheIsFresh'
  BY <1>1, <1>3, <1>4, <1>12, FreshAfter
<1> QED BY <1>3, <1>5, <1>7, <1>10, <1>11, <1>13 DEF FriendsInv, FriendsType

\* The invariant holds at first, and is kept.
LEMMA FriendsInitInv ==
  ASSUME NEW friends \in SUBSET Dir, FriendsInit(friends)
  PROVE  FriendsInv
<1>1. /\ entry = [k \in Key |-> Missing]
      /\ mode = [s \in Node |-> "usable"] /\ stale = [s \in Node |-> FALSE]
      /\ linked = [s \in Node |-> TRUE] /\ retry = [s \in Node |-> FALSE]
      /\ left = [s \in Node |-> [c \in Clear |-> Missing]]
      /\ fill = [r \in Req |-> NoFill] /\ owed = [r \in Req |-> {}]
  BY DEF FriendsInit, CacheInit
<1>2. /\ request = [d \in Dir |-> IF d \in friends THEN "ACCEPTED" ELSE "NONE"]
      /\ made = friends /\ away = {}
      /\ at = [r \in Req |-> "idle"] /\ job = [r \in Req |-> <<"none", Missing>>]
  BY DEF FriendsInit
<1>3. CacheType
  <2>1. left \in [Node -> [Clear -> (SUBSET Key) \cup {Missing}]]
    BY <1>1
  <2> QED BY <1>1, <2>1 DEF CacheType
<1>4. NoFill \in [at : {"none", "load", "more", "set"}, key : Key \cup {Missing},
                  val : (SUBSET User) \cup {Missing}, old : BOOLEAN] /\ NoFill.at = "none"
  BY DEF NoFill
<1>5. FillType /\ FillsAreTrue
  BY <1>1, <1>4 DEF FillType, FillsAreTrue
<1>6. TablesType
  BY <1>2 DEF TablesType
<1>7. <<"none", Missing>> \in ({"none", "send", "accept", "remove", "away"} \cup Answers)
                                \X ((User \X User) \cup {Missing})
  OBVIOUS
<1>8. JobsType
  BY <1>1, <1>2, <1>7 DEF JobsType
<1>9. CacheIsFresh
  BY <1>1 DEF CacheIsFresh
<1>10. Remembers
  BY <1>1 DEF Remembers, SkippedIsRemembered, ClearsWillReach
<1> QED BY <1>3, <1>5, <1>6, <1>8, <1>9, <1>10 DEF FriendsInv, FriendsType

LEMMA PressKeeps ==
  ASSUME FriendsInv, NEW r \in Req, Press(r)
  PROVE  FriendsInv'
<1>1. ASSUME NEW d \in Dir, Send(r, d) PROVE FriendsInv'
  BY <1>1, StartKeeps DEF Send
<1>2. ASSUME NEW d \in Dir, Accept(r, d) PROVE FriendsInv'
  BY <1>2, StartKeeps DEF Accept
<1>3. ASSUME NEW d \in Dir, Remove(r, d) PROVE FriendsInv'
  BY <1>3, StartKeeps DEF Remove
<1>4. ASSUME NEW d \in Dir, NEW a \in Answers, Answer(r, a, d) PROVE FriendsInv'
  BY <1>4, StartKeeps DEF Answer
<1>5. ASSUME NEW u \in User, Away(r, u) PROVE FriendsInv'
  BY <1>5, AwayKeeps
<1>6. ASSUME NEW k \in Key, Read(r, k) PROVE FriendsInv'
  BY <1>6, ReadKeeps
<1> QED BY <1>1, <1>2, <1>3, <1>4, <1>5, <1>6 DEF Press

LEMMA WorkKeeps ==
  ASSUME FriendsInv, NEW r \in Req, Work(r)
  PROVE  FriendsInv'
<1>1. CASE Create(r)             BY <1>1, CreateKeeps
<1>2. CASE SetRequestStatus(r)   BY <1>2, SetRequestStatusKeeps
<1>3. CASE AcceptRead(r)         BY <1>3, AcceptReadKeeps
<1>4. CASE AcceptCommit(r)       BY <1>4, AcceptCommitKeeps
<1>5. CASE DeleteFriendship(r)   BY <1>5, DeleteFriendshipKeeps
<1>6. CASE InvalidateFriendsOf(r)
  BY <1>6, InvalidateFriendsOfKeeps
<1>7. CASE FindRows(r)           BY <1>7, FindRowsKeeps
<1>8. CASE FindPending(r)        BY <1>8, FindPendingKeeps
<1>9. CASE Cached(r) /\ UNCHANGED <<tables, handlers>>
  BY <1>9, StoreKeeps, InvalidateKeeps DEF Cached
<1> QED BY <1>1, <1>2, <1>3, <1>4, <1>5, <1>6, <1>7, <1>8, <1>9 DEF Work

LEMMA FriendsNextInv ==
  ASSUME FriendsInv, [FriendsNext]_friendVars
  PROVE  FriendsInv'
<1>1. CASE \E r \in Req : Press(r) \/ Work(r)
  BY <1>1, PressKeeps, WorkKeeps
<1>2. CASE Redis /\ UNCHANGED <<tables, handlers>>
  BY <1>2, RedisKeeps
<1>3. CASE \E s \in Node : Die(s)
  BY <1>3, DieKeeps
<1>4. CASE UNCHANGED friendVars
  <2>1. UNCHANGED <<cacheVars, tables>> /\ at' = at /\ job' = job /\ owed' = owed
    BY <1>4 DEF friendVars, handlers, cacheVars
  <2>2. JobsType'
    BY <2>1 DEF FriendsInv, FriendsType, JobsType
  <2> QED BY <2>1, <2>2, AtKeeps
<1> QED BY <1>1, <1>2, <1>3, <1>4 DEF FriendsNext

\* For any users, servers, handlers and clears: types; a read that no write overtook holds
\* what the tables say; and a clear that a skipped invalidation waits for has still to
\* reach its key (friends/service.ts, friends/cache.ts, redis/cache.ts).
THEOREM FriendsInvariant == FriendsSpec => []FriendsInv
<1>1. (\E friends \in SUBSET Dir : FriendsInit(friends)) => FriendsInv
  BY FriendsInitInv
<1>2. FriendsInv /\ [FriendsNext]_friendVars => FriendsInv'
  BY FriendsNextInv
<1> QED BY <1>1, <1>2, PTL DEF FriendsSpec

\* A cached list is what the tables say, unless it is about to be invalidated, was read
\* before a write and stored after it, or its invalidation was skipped (friends/cache.ts,
\* cacheAside of redis/cache.ts).
THEOREM CacheFresh == FriendsSpec => []CacheIsFresh
<1>1. FriendsInv => CacheIsFresh
  BY DEF FriendsInv
<1> QED BY <1>1, FriendsInvariant, PTL

\* A server whose invalidation did not reach Redis remembers it until it has deleted the
\* key (markStale and onReady of redis/cache.ts).
THEOREM SkippedRemembered == FriendsSpec => []SkippedIsRemembered
<1>1. FriendsInv => SkippedIsRemembered
  BY DEF FriendsInv, Remembers
<1> QED BY <1>1, FriendsInvariant, PTL

(***************************************************************************)
(* What a page offers.                                                     *)
(***************************************************************************)

Asks == {"send", "accept", "remove"} \cup Answers

\* What a page may list, and how far its load may be.
PagesType ==
  /\ page \in Pages \cup {"none"} /\ loading \in {"no", "first", "second", "show"}
  /\ answer \in {"none", "done", "refused", "lost"}
  /\ newest \in SUBSET Dir /\ overtaken \in BOOLEAN
  /\ page = "friends" => listed \in SUBSET User
  /\ page \in Finder => listed \in SUBSET (User \ {Me})
  /\ page \in {"pending", "sent"} => listed \in SUBSET Dir
  /\ page = "profile" => listed \in SUBSET {<<Me, Them>>, <<Them, Me>>}
  /\ loading = "second" => page \in Finder \cup {"profile"}
  /\ loading = "show" => page \in Finder

\* What was asked is what the page offered, and its handler works on nothing else.
AskedHere ==
  /\ busy # NoAct =>
       /\ page \in Finder => \E f \in User \ {Me} : busy[2] = <<Me, f>>
       /\ answer = "none" => at[Mine] # "idle" /\ job[Mine] = busy
       /\ answer # "none" => at[Mine] = "idle"
  /\ busy = NoAct => answer = "none"

\* Of a pair of people with one request, that one is the newest.
NewestIsKnown ==
  \A d \in Dir :
    /\ request[d] = "PENDING" /\ request[Back(d)] = "NONE" => d \in newest
    /\ d \in newest => request[d] # "NONE"

\* Somebody who has asked Me, or whom Me has asked.
Asked(f) == request[<<Me, f>>] = "PENDING" \/ request[<<f, Me>>] = "PENDING"

\* A request that the profile may offer to accept, or to send.
Good(d) ==
  \/ request[<<Me, Them>>] # "NONE" /\ request[<<Them, Me>>] # "NONE"
  \/ d[1] = Me /\ request[d] # "PENDING" /\ (request[d] = "NONE" => request[Back(d)] # "PENDING")
  \/ d[1] # Me /\ request[d] = "PENDING"

\* What a page shows is what it has read, but for what was just done on it.
ListsAreTrue ==
  ~overtaken =>
    /\ page \in {"pending", "sent"} /\ loading = "no" =>
         \A d \in listed : request[d] = "PENDING" \/ (answer = "done" /\ busy[2] = d)
    /\ page \in Finder /\ loading = "no" =>
         \A f \in listed : Asked(f) => f \in waiting \/ (answer = "done" /\ busy[2] = <<Me, f>>)
    /\ page \in Finder /\ loading = "show" =>
         \A f \in User \ {Me} : Asked(f) => f \in found \/ (answer = "done" /\ busy[2] = <<Me, f>>)
    /\ page = "profile" /\ loading = "no" /\ answer # "done" => \A d \in listed : Good(d)

OffersInv == PagesType /\ AskedHere /\ NewestIsKnown /\ ListsAreTrue

\* There is somebody whose profile is open.
LEMMA ThemType == Them \in User /\ Them # Me /\ <<Me, Them>> \in Dir /\ <<Them, Me>> \in Dir
<1>1. \E u \in User : u # Me
  BY PagesAssumption
<1>2. Them \in User /\ Them # Me
  BY <1>1 DEF Them
<1> QED BY <1>2, PagesAssumption DEF Dir

\* Everything a page offers is asked of a request it lists, or of a person.
LEMMA OffersShape ==
  ASSUME PagesType, NEW o \in Offers
  PROVE  /\ o = <<o[1], o[2]>> /\ o[1] \in Asks
         /\ page = "friends" => o[1] = "remove"
         /\ page # "friends" => o[1] # "remove" /\ o[2] \in Dir
         /\ page \in {"pending", "sent"} => o[1] # "send" /\ o[2] \in listed
         /\ page \in Finder => o[1] = "send" /\ \E f \in listed \ waiting : f \in User \ {Me} /\ o[2] = <<Me, f>>
         /\ page = "profile" => /\ o[1] = (IF o[2][1] = Me THEN "send" ELSE "accept")
                                /\ o[2] \in listed
         /\ page # "none"
<1>1. CASE page = "friends"
  <2>1. Offers = {<<"remove", f>> : f \in listed}
    BY <1>1 DEF Offers, Finder
  <2> QED BY <1>1, <2>1 DEF Asks, Finder
<1>2. CASE page = "pending"
  <2>1. Offers = {"accept", "REJECTED"} \X listed
    BY <1>2 DEF Offers, Finder
  <2>2. listed \in SUBSET Dir
    BY <1>2 DEF PagesType
  <2> QED BY <1>2, <2>1, <2>2 DEF Asks, Finder, Answers
<1>3. CASE page = "sent"
  <2>1. Offers = {"CANCELLED"} \X listed
    BY <1>3 DEF Offers, Finder
  <2>2. listed \in SUBSET Dir
    BY <1>3 DEF PagesType
  <2> QED BY <1>3, <2>1, <2>2 DEF Asks, Finder, Answers
<1>4. CASE page \in Finder
  <2>1. Offers = {<<"send", <<Me, f>>>> : f \in listed \ waiting}
    BY <1>4 DEF Offers, Finder
  <2>2. listed \in SUBSET (User \ {Me})
    BY <1>4 DEF PagesType
  <2>3. \A f \in User \ {Me} : <<Me, f>> \in Dir
    BY PagesAssumption DEF Dir
  <2> QED BY <1>4, <2>1, <2>2, <2>3 DEF Asks, Finder
<1>5. CASE page = "profile"
  <2>1. Offers = {<<IF d[1] = Me THEN "send" ELSE "accept", d>> : d \in listed}
    BY <1>5 DEF Offers, Finder
  <2>2. listed \in SUBSET Dir
    BY <1>5, ThemType DEF PagesType
  <2> QED BY <1>5, <2>1, <2>2 DEF Asks, Finder
<1>6. CASE page = "none"
  <2>1. Offers = {}
    BY <1>6 DEF Offers, Finder
  <2> QED BY <2>1
<1> QED BY <1>1, <1>2, <1>3, <1>4, <1>5, <1>6 DEF PagesType, Pages, Finder

\* What follows from the invariant.
LEMMA OffersFollow == TablesType /\ OffersInv => OfferedIsGood
<1> SUFFICES ASSUME TablesType, OffersInv, loading = "no", busy = NoAct, ~overtaken, NEW o \in Offers
             PROVE  \/ Takes(o) /\ (o[1] = "send" => request[o[2]] = "NONE")
                    \/ o[1] = "remove"
                    \/ o[1] = "send" /\ request[o[2]] \in {"ACCEPTED"} \cup Answers
                    \/ page = "profile" /\ request[<<Me, Them>>] # "NONE" /\ request[<<Them, Me>>] # "NONE"
  BY DEF OfferedIsGood
<1>1. PagesType /\ answer = "none" /\ request \in [Dir -> {"NONE", "PENDING", "ACCEPTED"} \cup Answers]
  BY DEF OffersInv, AskedHere, TablesType
<1>2. /\ o[1] \in Asks
      /\ page = "friends" => o[1] = "remove"
      /\ page # "friends" => o[1] # "remove" /\ o[2] \in Dir
      /\ page \in {"pending", "sent"} => o[1] # "send" /\ o[2] \in listed
      /\ page \in Finder => o[1] = "send" /\ \E f \in listed \ waiting : f \in User \ {Me} /\ o[2] = <<Me, f>>
      /\ page = "profile" => /\ o[1] = (IF o[2][1] = Me THEN "send" ELSE "accept") /\ o[2] \in listed
      /\ page # "none"
  BY <1>1, OffersShape
<1>3. o[1] \notin {"send", "remove"} => (Takes(o) <=> request[o[2]] = "PENDING")
  BY DEF Takes
<1>4. o[1] = "send" => (Takes(o) <=> request[Back(o[2])] # "PENDING")
  BY DEF Takes
<1>5. CASE page \in {"pending", "sent"}
  <2>1. request[o[2]] = "PENDING"
    BY <1>1, <1>2, <1>5 DEF OffersInv, ListsAreTrue
  <2> QED BY <1>2, <1>3, <1>5, <2>1
<1>6. CASE page \in Finder
  <2>1. PICK f \in listed \ waiting : f \in User \ {Me} /\ o[2] = <<Me, f>>
    BY <1>2, <1>6
  <2>2. ~Asked(f)
    BY <1>1, <1>6, <2>1 DEF OffersInv, ListsAreTrue
  <2>3. request[<<Me, f>>] # "PENDING" /\ request[<<f, Me>>] # "PENDING" /\ Back(o[2]) = <<f, Me>>
    BY <2>1, <2>2 DEF Asked, Back
  <2>4. request[o[2]] \in {"NONE", "PENDING", "ACCEPTED"} \cup Answers
    BY <1>1, <2>1, PagesAssumption DEF Dir
  <2> QED BY <1>2, <1>4, <1>6, <2>1, <2>3, <2>4
<1>7. CASE page = "profile"
  <2>1. Good(o[2])
    BY <1>1, <1>2, <1>7 DEF OffersInv, ListsAreTrue
  <2>2. request[o[2]] \in {"NONE", "PENDING", "ACCEPTED"} \cup Answers
    BY <1>1, <1>2, <1>7
  <2> QED BY <1>2, <1>3, <1>4, <1>7, <2>1, <2>2 DEF Good
<1> QED BY <1>1, <1>2, <1>5, <1>6, <1>7 DEF PagesType, Pages, Finder

\* What a step of a handler may do to the tables, and to whom it belongs.
Settles(r) ==
  /\ \A e \in Dir : \/ request'[e] = request[e] \/ request'[e] \in {"ACCEPTED"} \cup Answers
                    \/ request[e] = "NONE" /\ request'[e] = "PENDING"
  /\ \A e \in Dir : e # job[r][2] => request'[e] = request[e]
  /\ \A q \in Req : q # r => at'[q] = at[q] /\ job'[q] = job[q]
  /\ \/ at'[r] = at[r] /\ job'[r] = job[r] /\ UNCHANGED tables
     \/ at[r] # "idle" /\ at'[r] = "idle"
     \/ at[r] # "idle" /\ at'[r] = "commit" /\ job'[r] = job[r] /\ UNCHANGED tables

\* The steps of Work, one by one.
LEMMA WorkSettles ==
  ASSUME FriendsInv, NEW r \in Req, Work(r)
  PROVE  Settles(r)
<1>1. /\ at \in [Req -> {"idle", "create", "write", "read", "commit", "delete", "ids"}]
      /\ job \in [Req -> ({"none", "send", "accept", "remove", "away"} \cup Answers)
                            \X ((User \X User) \cup {Missing})]
      /\ at[r] \notin {"idle", "ids"} => job[r][2] \in Dir
      /\ at[r] = "write" => job[r][1] \in Answers
      /\ request \in [Dir -> {"NONE", "PENDING", "ACCEPTED"} \cup Answers]
  BY DEF FriendsInv, FriendsType, JobsType, TablesType
<1>2. ASSUME NEW ks, Wrote(r, ks)
      PROVE  at'[r] = "idle" /\ \A q \in Req : q # r => at'[q] = at[q] /\ job'[q] = job[q]
  <2>1. at' = [at EXCEPT ![r] = "idle"] /\ job' = [job EXCEPT ![r] = <<"none", Missing>>]
    BY <1>2 DEF Wrote
  <2> QED BY <1>1, <2>1
<1>3. CASE UNCHANGED <<tables, handlers>>
  BY <1>3 DEF Settles, tables, handlers
<1>4. ASSUME at[r] # "idle", Refused(r) PROVE Settles(r)
  BY <1>2, <1>4 DEF Refused, Settles, tables
<1>5. ASSUME at[r] # "idle", NEW d \in Dir, d = job[r][2], NEW v, request' = [request EXCEPT ![d] = v],
             v \in {"ACCEPTED"} \cup Answers \/ (request[d] = "NONE" /\ v = "PENDING"),
             NEW ks, Wrote(r, ks)
      PROVE  Settles(r)
  <2>1. request'[d] = v /\ \A e \in Dir : e # d => request'[e] = request[e]
    BY <1>1, <1>5
  <2> QED BY <1>2, <1>5, <2>1 DEF Settles
<1>6. CASE Create(r)
  <2>1. PICK d : d = job[r][2]
    OBVIOUS
  <2>2. at[r] = "create" /\ d \in Dir
    BY <1>1, <1>6, <2>1 DEF Create
  <2>3. CASE request[d] = "NONE" /\ request' = [request EXCEPT ![d] = "PENDING"] /\ Wrote(r, Suggs(d))
    BY <1>5, <2>1, <2>2, <2>3
  <2> QED BY <1>4, <1>6, <2>1, <2>2, <2>3 DEF Create
<1>7. CASE SetRequestStatus(r)
  <2>1. PICK d, a : d = job[r][2] /\ a = job[r][1]
    OBVIOUS
  <2>2. at[r] = "write" /\ d \in Dir /\ a \in Answers
    BY <1>1, <1>7, <2>1 DEF SetRequestStatus
  <2>3. request' = [request EXCEPT ![d] = a] /\ Wrote(r, Suggs(d))
    BY <1>7, <2>1 DEF SetRequestStatus
  <2> QED BY <1>5, <2>1, <2>2, <2>3
<1>8. CASE AcceptRead(r)
  <2>1. at[r] = "read"
    BY <1>8 DEF AcceptRead
  <2>2. CASE at' = [at EXCEPT ![r] = "commit"] /\ UNCHANGED <<cacheVars, tables, job>>
    BY <1>1, <2>1, <2>2 DEF Settles, tables
  <2> QED BY <1>4, <1>8, <2>1, <2>2 DEF AcceptRead
<1>9. CASE AcceptCommit(r)
  <2>1. PICK d : d = job[r][2]
    OBVIOUS
  <2>2. at[r] = "commit" /\ d \in Dir
    BY <1>1, <1>9, <2>1 DEF AcceptCommit
  <2>3. CASE request' = [request EXCEPT ![d] = "ACCEPTED"] /\ Wrote(r, Lists(d) \cup Suggs(d))
    BY <1>5, <2>1, <2>2, <2>3
  <2> QED BY <1>4, <1>9, <2>1, <2>2, <2>3 DEF AcceptCommit
<1>10. CASE DeleteFriendship(r)
  <2>1. PICK d : d = job[r][2]
    OBVIOUS
  <2>2. at[r] = "delete"
    BY <1>10 DEF DeleteFriendship
  <2>3. CASE request' = request /\ Wrote(r, Lists(d) \cup Suggs(d))
    BY <1>2, <2>2, <2>3 DEF Settles
  <2> QED BY <1>4, <1>10, <2>1, <2>2, <2>3 DEF DeleteFriendship
<1>11. CASE InvalidateFriendsOf(r)
  <2>1. at[r] = "ids" /\ UNCHANGED tables
    BY <1>11 DEF InvalidateFriendsOf
  <2>2. at' = [at EXCEPT ![r] = "idle"] /\ job' = [job EXCEPT ![r] = <<"none", Missing>>]
    BY <1>11 DEF InvalidateFriendsOf, Wrote
  <2> QED BY <1>1, <2>1, <2>2 DEF Settles, tables
<1>12. CASE FindRows(r)
  BY <1>3, <1>12 DEF FindRows
<1>13. CASE FindPending(r)
  BY <1>3, <1>13 DEF FindPending
<1> QED BY <1>3, <1>6, <1>7, <1>8, <1>9, <1>10, <1>11, <1>12, <1>13 DEF Work

\* Somebody else's handler begins, or reads.
LEMMA PressSettles ==
  ASSUME FriendsInv, NEW r \in Req, Press(r), r # Mine
  PROVE  request' = request /\ at'[Mine] = at[Mine] /\ job'[Mine] = job[Mine]
<1>1. /\ at \in [Req -> {"idle", "create", "write", "read", "commit", "delete", "ids"}]
      /\ job \in [Req -> ({"none", "send", "accept", "remove", "away"} \cup Answers)
                            \X ((User \X User) \cup {Missing})]
  BY DEF FriendsInv, FriendsType, JobsType
<1>2. ASSUME NEW o, NEW d, NEW s, Start(r, o, d, s)
      PROVE  request' = request /\ at'[Mine] = at[Mine] /\ job'[Mine] = job[Mine]
  BY <1>1, <1>2, PagesAssumption DEF Start, tables
<1>3. ASSUME NEW u \in User, Away(r, u)
      PROVE  request' = request /\ at'[Mine] = at[Mine] /\ job'[Mine] = job[Mine]
  BY <1>1, <1>3, PagesAssumption DEF Away
<1>4. ASSUME NEW k \in Key, Read(r, k)
      PROVE  request' = request /\ at'[Mine] = at[Mine] /\ job'[Mine] = job[Mine]
  BY <1>4 DEF Read, tables, handlers
<1> QED BY <1>2, <1>3, <1>4 DEF Press, Send, Accept, Remove, Answer

\* What a step of the servers leaves the page with.
LEMMA ServerFacts ==
  ASSUME FriendsInv, ServerStep
  PROVE  /\ \A e \in Dir : \/ request'[e] = request[e] \/ request'[e] \in {"ACCEPTED"} \cup Answers
                           \/ request[e] = "NONE" /\ request'[e] = "PENDING"
         /\ \/ at'[Mine] = at[Mine] /\ job'[Mine] = job[Mine]
            \/ at[Mine] # "idle" /\ at'[Mine] = "idle"
            \/ at[Mine] # "idle" /\ at'[Mine] = "commit" /\ job'[Mine] = job[Mine] /\ UNCHANGED tables
         /\ at'[Mine] # at[Mine] => \A e \in Dir : e # job[Mine][2] => request'[e] = request[e]
<1>1. ASSUME NEW r \in Req, r # Mine, Press(r)
      PROVE  request' = request /\ at'[Mine] = at[Mine] /\ job'[Mine] = job[Mine]
  BY <1>1, PressSettles
<1>2. ASSUME Redis, UNCHANGED <<tables, handlers>>
      PROVE  request' = request /\ at'[Mine] = at[Mine] /\ job'[Mine] = job[Mine]
  BY <1>2 DEF tables, handlers
<1>3. ASSUME NEW r \in Req, Work(r) PROVE Settles(r)
  BY <1>3, WorkSettles
<1>4. CASE \E r \in Req : Work(r)
  BY <1>3, <1>4, PagesAssumption DEF Settles
<1> QED BY <1>1, <1>2, <1>4 DEF ServerStep

\* The servers go on: what is written for the page it will hear of, and anything else
\* overtakes it.
LEMMA ServerKeepsOffers ==
  ASSUME FriendsInv, OffersInv, ServerStep
  PROVE  OffersInv'
<1>1. PICK created, own :
        /\ created = {d \in Dir : request[d] = "NONE" /\ request'[d] # "NONE"}
        /\ own = (busy # NoAct /\ at'[Mine] # at[Mine])
  OBVIOUS
<1>2. /\ newest' = (newest \ {Back(d) : d \in created}) \cup created
      /\ overtaken' = (overtaken \/ (tables' # tables /\ ~own))
      /\ own /\ at'[Mine] = "idle" => answer' \in Outcomes
      /\ ~(own /\ at'[Mine] = "idle") => answer' = answer
      /\ page' = page /\ loading' = loading /\ listed' = listed /\ found' = found
      /\ waiting' = waiting /\ busy' = busy
  BY <1>1 DEF ServerStep, screen
<1>3. /\ \A e \in Dir : \/ request'[e] = request[e] \/ request'[e] \in {"ACCEPTED"} \cup Answers
                        \/ request[e] = "NONE" /\ request'[e] = "PENDING"
      /\ \/ at'[Mine] = at[Mine] /\ job'[Mine] = job[Mine]
         \/ at[Mine] # "idle" /\ at'[Mine] = "idle"
         \/ at[Mine] # "idle" /\ at'[Mine] = "commit" /\ job'[Mine] = job[Mine] /\ UNCHANGED tables
      /\ at'[Mine] # at[Mine] => \A e \in Dir : e # job[Mine][2] => request'[e] = request[e]
  BY ServerFacts
<1>4. PagesType /\ AskedHere /\ NewestIsKnown /\ ListsAreTrue
  BY DEF OffersInv
<1>5. Outcomes \subseteq {"done", "refused"} /\ (tables' # tables => Outcomes = {"done"})
  BY DEF Outcomes
<1>6. PagesType'
  <2>1. newest' \in SUBSET Dir /\ overtaken' \in BOOLEAN
    BY <1>1, <1>2, <1>4 DEF PagesType
  <2>2. answer' \in {"none", "done", "refused", "lost"}
    BY <1>2, <1>4, <1>5 DEF PagesType
  <2> QED BY <1>2, <1>4, <2>1, <2>2 DEF PagesType
<1>7. AskedHere'
  <2>1. CASE busy = NoAct
    BY <1>1, <1>2, <1>4, <2>1 DEF AskedHere
  <2>2. CASE busy # NoAct /\ answer # "none"
    <3>1. at[Mine] = "idle"
      BY <1>4, <2>2 DEF AskedHere
    <3>2. at'[Mine] = "idle" /\ answer' = answer
      BY <1>1, <1>2, <1>3, <3>1
    <3> QED BY <1>2, <1>4, <2>2, <3>2 DEF AskedHere
  <2>3. CASE busy # NoAct /\ answer = "none"
    <3>1. at[Mine] # "idle" /\ job[Mine] = busy
      BY <1>4, <2>3 DEF AskedHere
    <3>2. CASE at'[Mine] = "idle"
      <4>1. answer' # "none"
        BY <1>1, <1>2, <1>5, <2>3, <3>1, <3>2
      <4> QED BY <1>2, <1>4, <2>3, <3>2, <4>1 DEF AskedHere
    <3>3. CASE at'[Mine] # "idle"
      <4>1. answer' = "none" /\ job'[Mine] = busy
        BY <1>2, <1>3, <2>3, <3>1, <3>3
      <4> QED BY <1>2, <1>4, <2>3, <3>3, <4>1 DEF AskedHere
    <3> QED BY <3>2, <3>3
  <2> QED BY <2>1, <2>2, <2>3
<1>8. \A d \in Dir : Back(d) \in Dir /\ Back(Back(d)) = d
  BY DEF Back, Dir
<1>9. NewestIsKnown'
  <2>1. ASSUME NEW d \in Dir, request'[d] = "PENDING", request'[Back(d)] = "NONE" PROVE d \in newest'
    <3>1. CASE request[d] = "NONE"
      BY <1>1, <1>2, <2>1, <3>1
    <3>2. CASE request[d] # "NONE"
      <4>1. request[d] = "PENDING" /\ request[Back(d)] = "NONE"
        BY <1>3, <1>8, <2>1, <3>2 DEF Answers
      <4>2. d \in newest
        BY <1>4, <2>1, <4>1 DEF NewestIsKnown
      <4>3. d \notin {Back(e) : e \in created}
        <5>1. ASSUME NEW e \in created, d = Back(e) PROVE FALSE
          BY <1>1, <1>8, <2>1, <5>1
        <5> QED BY <5>1
      <4> QED BY <1>2, <4>2, <4>3
    <3> QED BY <3>1, <3>2
  <2>2. ASSUME NEW d \in Dir, d \in newest' PROVE request'[d] # "NONE"
    <3>1. CASE d \in created
      BY <1>1, <3>1
    <3>2. CASE d \in newest
      <4>1. request[d] # "NONE"
        BY <1>4, <3>2 DEF NewestIsKnown
      <4> QED BY <1>3, <4>1 DEF Answers
    <3> QED BY <1>2, <2>2, <3>1, <3>2
  <2> QED BY <2>1, <2>2 DEF NewestIsKnown
<1>10. CASE tables' = tables
  <2>1. \A d : request'[d] = request[d]
    BY <1>10 DEF tables
  <2>2. ~overtaken' => ~overtaken
    BY <1>2
  <2>3. answer = "done" => answer' = "done"
    <3>1. CASE own
      <4>1. answer = "none"
        BY <1>1, <1>3, <1>4, <3>1 DEF AskedHere
      <4> QED BY <4>1
    <3> QED BY <1>2, <3>1
  <2>4. (\A f : Asked(f)' <=> Asked(f)) /\ (\A d : Good(d)' <=> Good(d))
    BY <2>1 DEF Asked, Good
  <2>5. answer' # "done" => answer # "done"
    BY <2>3
  <2> QED BY <1>2, <1>4, <1>6, <1>7, <1>9, <2>1, <2>2, <2>3, <2>4, <2>5 DEF OffersInv, ListsAreTrue
<1>11. CASE tables' # tables /\ ~own
  <2>1. overtaken'
    BY <1>2, <1>11
  <2> QED BY <1>6, <1>7, <1>9, <2>1 DEF OffersInv, ListsAreTrue
<1>12. CASE tables' # tables /\ own
  <2>1. busy # NoAct /\ at'[Mine] = "idle" /\ at[Mine] # "idle"
    BY <1>1, <1>3, <1>12 DEF tables
  <2>2. answer = "none" /\ job[Mine] = busy
    BY <1>4, <2>1 DEF AskedHere
  <2>3. answer' = "done"
    BY <1>2, <1>5, <1>12, <2>1
  <2>4. \A e \in Dir : e # busy[2] => request'[e] = request[e]
    BY <1>3, <2>1, <2>2
  <2>5. ~overtaken' => ~overtaken
    BY <1>2
  <2>6. page \in {"pending", "sent"} /\ loading = "no" /\ ~overtaken =>
          \A d \in listed : request'[d] = "PENDING" \/ busy[2] = d
    BY <1>4, <2>2, <2>4 DEF ListsAreTrue, PagesType
  <2>7. page \in Finder => \A f \in User \ {Me} : Asked(f)' => Asked(f) \/ busy[2] = <<Me, f>>
    <3> SUFFICES ASSUME page \in Finder, NEW f \in User \ {Me}, Asked(f)', busy[2] # <<Me, f>>
                 PROVE  Asked(f)
      OBVIOUS
    <3>1. PICK g \in User \ {Me} : busy[2] = <<Me, g>>
      BY <1>4, <2>1 DEF AskedHere
    <3>2. <<Me, f>> \in Dir /\ <<f, Me>> \in Dir /\ <<f, Me>> # <<Me, g>>
      BY PagesAssumption, <3>1 DEF Dir
    <3>3. request'[<<Me, f>>] = request[<<Me, f>>] /\ request'[<<f, Me>>] = request[<<f, Me>>]
      BY <2>4, <3>1, <3>2
    <3> QED BY <3>3 DEF Asked
  <2>8. page \in Finder => listed \in SUBSET (User \ {Me})
    BY <1>4 DEF PagesType
  <2>9. ListsAreTrue'
    <3> SUFFICES ASSUME ~overtaken
                 PROVE  /\ page \in {"pending", "sent"} /\ loading = "no" =>
                             \A d \in listed : request'[d] = "PENDING" \/ busy[2] = d
                        /\ page \in Finder /\ loading = "no" =>
                             \A f \in listed : Asked(f)' => f \in waiting \/ busy[2] = <<Me, f>>
                        /\ page \in Finder /\ loading = "show" =>
                             \A f \in User \ {Me} : Asked(f)' => f \in found \/ busy[2] = <<Me, f>>
      BY <1>2, <2>3, <2>5 DEF ListsAreTrue
    <3>1. page \in Finder /\ loading = "no" => \A f \in listed : Asked(f) => f \in waiting
      BY <1>4, <2>2 DEF ListsAreTrue
    <3>2. page \in Finder /\ loading = "show" => \A f \in User \ {Me} : Asked(f) => f \in found
      BY <1>4, <2>2 DEF ListsAreTrue
    <3> QED BY <2>6, <2>7, <2>8, <3>1, <3>2
  <2> QED BY <1>6, <1>7, <1>9, <2>9 DEF OffersInv
<1> QED BY <1>10, <1>11, <1>12

\* Nothing of the tables or of the handlers changes.
LEMMA ScreenOnly ==
  ASSUME OffersInv, UNCHANGED friendVars, newest' = newest, PagesType',
         \/ busy' = busy /\ (answer' = "none" <=> answer = "none") /\ page' = page
         \/ busy' = NoAct /\ answer' = "none"
  PROVE  /\ AskedHere' /\ NewestIsKnown' /\ request' = request
         /\ (\A f : Asked(f)' <=> Asked(f)) /\ (\A d : Good(d)' <=> Good(d))
<1>1. request' = request /\ at' = at /\ job' = job
  BY DEF friendVars, tables, handlers
<1>2. (\A f : Asked(f)' <=> Asked(f)) /\ (\A d : Good(d)' <=> Good(d))
  BY <1>1 DEF Asked, Good
<1>3. NewestIsKnown'
  BY <1>1 DEF OffersInv, NewestIsKnown
<1>4. AskedHere'
  BY <1>1 DEF OffersInv, AskedHere
<1> QED BY <1>1, <1>2, <1>3, <1>4

\* The steps of the page.
LEMMA DoKeepsOffers ==
  ASSUME FriendsInv, OffersInv, NEW o \in Offers, Do(o)
  PROVE  OffersInv'
<1>1. /\ busy = NoAct /\ answer = "none" /\ at[Mine] = "idle" /\ busy' = o
      /\ UNCHANGED <<screen, newest, overtaken>>
  BY DEF Do, MineIdle, OffersInv, AskedHere
<1>2. /\ o = <<o[1], o[2]>> /\ o[1] \in Asks
      /\ page # "friends" => o[1] # "remove" /\ o[2] \in Dir
      /\ page \in Finder => o[1] = "send" /\ \E f \in listed \ waiting : f \in User \ {Me} /\ o[2] = <<Me, f>>
  BY OffersShape DEF OffersInv
<1>3. o # NoAct
  BY <1>2 DEF Asks, Answers, NoAct
<1>4. /\ request' = request /\ answer' \in {"none", "refused"}
      /\ answer' = "none" => at'[Mine] # "idle" /\ job'[Mine] = o
      /\ answer' # "none" => at'[Mine] = "idle"
  <2>1. CASE Takes(o) /\ Ask(o) /\ UNCHANGED answer
    <3>1. ASSUME NEW a, NEW d, NEW s \in {"create", "write", "read", "delete"}, Start(Mine, a, d, s)
          PROVE  request' = request /\ at'[Mine] # "idle" /\ job'[Mine] = <<a, d>>
      <4>1. at' = [at EXCEPT ![Mine] = s] /\ job' = [job EXCEPT ![Mine] = <<a, d>>] /\ UNCHANGED tables
        BY <3>1 DEF Start
      <4> QED BY <4>1, PagesAssumption DEF tables, FriendsInv, FriendsType, JobsType
    <3>2. PICK s \in {"create", "write", "read", "delete"} : Start(Mine, o[1], o[2], s)
      BY <2>1 DEF Ask, Send, Accept, Remove, Answer
    <3> QED BY <1>1, <1>2, <2>1, <3>1, <3>2
  <2>2. CASE ~Takes(o) /\ answer' = "refused" /\ UNCHANGED friendVars
    BY <1>1, <2>2 DEF friendVars, tables, handlers
  <2> QED BY <2>1, <2>2 DEF Do
<1>5. PagesType'
  BY <1>1, <1>4 DEF OffersInv, PagesType, screen
<1>6. AskedHere'
  <2>1. page \in Finder => \E f \in User \ {Me} : o[2] = <<Me, f>>
    BY <1>2
  <2> QED BY <1>1, <1>3, <1>4, <2>1 DEF AskedHere, screen
<1>7. NewestIsKnown'
  BY <1>1, <1>4 DEF OffersInv, NewestIsKnown
<1>8. (\A f : Asked(f)' <=> Asked(f)) /\ (\A d : Good(d)' <=> Good(d))
  BY <1>4 DEF Asked, Good
<1>9. ListsAreTrue'
  BY <1>1, <1>4, <1>8 DEF OffersInv, ListsAreTrue, screen
<1> QED BY <1>5, <1>6, <1>7, <1>9 DEF OffersInv

LEMMA OpenKeepsOffers ==
  ASSUME OffersInv, NEW p \in Pages, Open(p)
  PROVE  OffersInv'
<1>1. /\ page' = p /\ loading' = (IF p = "search" THEN "no" ELSE "first")
      /\ listed' = {} /\ found' = {} /\ waiting' = {}
      /\ busy' = NoAct /\ answer' = "none" /\ overtaken' = FALSE
      /\ UNCHANGED friendVars /\ newest' = newest
  BY DEF Open
<1>2. PagesType'
  BY <1>1 DEF OffersInv, PagesType
<1>3. AskedHere' /\ NewestIsKnown'
  BY <1>1, <1>2, ScreenOnly
<1>4. ListsAreTrue'
  BY <1>1 DEF ListsAreTrue
<1> QED BY <1>2, <1>3, <1>4 DEF OffersInv

LEMMA AnswersKeepOffers ==
  ASSUME OffersInv, LoseAnswer \/ ListAnswered \/ FinderAnswered \/ ProfileAnswered \/ ErrorShown
  PROVE  OffersInv'
<1>1. CASE LoseAnswer
  <2>1. /\ answer = "done" /\ answer' = "lost" /\ overtaken' = TRUE /\ UNCHANGED friendVars
        /\ busy' = busy /\ newest' = newest /\ UNCHANGED screen
    BY <1>1 DEF LoseAnswer
  <2>2. PagesType'
    BY <2>1 DEF OffersInv, PagesType, screen
  <2>3. AskedHere' /\ NewestIsKnown'
    BY <2>1, <2>2, ScreenOnly DEF screen
  <2> QED BY <2>1, <2>2, <2>3 DEF OffersInv, ListsAreTrue
<1>2. CASE ListAnswered
  <2>1. /\ page \in {"friends", "pending", "sent"} /\ answer = "done" /\ listed' = listed \ {busy[2]}
        /\ busy' = NoAct /\ answer' = "none" /\ UNCHANGED friendVars
        /\ page' = page /\ found' = found /\ newest' = newest
        /\ loading' = loading /\ waiting' = waiting /\ overtaken' = overtaken
    BY <1>2 DEF ListAnswered, Settle
  <2>2. PagesType'
    BY <2>1 DEF OffersInv, PagesType, Finder
  <2>3. AskedHere' /\ NewestIsKnown' /\ request' = request
    BY <2>1, <2>2, ScreenOnly
  <2>4. ListsAreTrue'
    BY <2>1, <2>3 DEF OffersInv, ListsAreTrue, Finder
  <2> QED BY <2>2, <2>3, <2>4 DEF OffersInv
<1>3. CASE FinderAnswered
  <2>1. /\ page \in Finder /\ answer = "done" /\ busy # NoAct /\ waiting' = waiting \cup {busy[2][2]}
        /\ busy' = NoAct /\ answer' = "none" /\ UNCHANGED friendVars
        /\ page' = page /\ found' = found /\ newest' = newest
        /\ loading' = loading /\ listed' = listed /\ overtaken' = (overtaken \/ loading # "no")
    BY <1>3 DEF FinderAnswered, Settle
  <2>2. PagesType'
    BY <2>1 DEF OffersInv, PagesType
  <2>3. AskedHere' /\ NewestIsKnown' /\ \A f : Asked(f)' <=> Asked(f)
    BY <2>1, <2>2, ScreenOnly
  <2>4. \A f : busy[2] = <<Me, f>> => f \in waiting'
    BY <2>1
  <2>5. ListsAreTrue'
    BY <2>1, <2>3, <2>4 DEF OffersInv, ListsAreTrue, Finder
  <2> QED BY <2>2, <2>3, <2>5 DEF OffersInv
<1>4. CASE ProfileAnswered
  <2>1. /\ page = "profile" /\ loading' = "first"
        /\ busy' = NoAct /\ answer' = "none" /\ UNCHANGED friendVars
        /\ page' = page /\ found' = found /\ newest' = newest
        /\ listed' = listed /\ waiting' = waiting /\ overtaken' = FALSE
    BY <1>4 DEF ProfileAnswered, Settle
  <2>2. PagesType'
    BY <2>1 DEF OffersInv, PagesType
  <2>3. AskedHere' /\ NewestIsKnown'
    BY <2>1, <2>2, ScreenOnly
  <2>4. ListsAreTrue'
    BY <2>1 DEF ListsAreTrue
  <2> QED BY <2>2, <2>3, <2>4 DEF OffersInv
<1>5. CASE ErrorShown
  <2>1. /\ answer \in {"refused", "lost"}
        /\ busy' = NoAct /\ answer' = "none" /\ UNCHANGED friendVars
        /\ page' = page /\ found' = found /\ newest' = newest
        /\ listed' = listed /\ loading' = loading /\ waiting' = waiting /\ overtaken' = overtaken
    BY <1>5 DEF ErrorShown, Settle
  <2>2. PagesType'
    BY <2>1 DEF OffersInv, PagesType
  <2>3. AskedHere' /\ NewestIsKnown' /\ request' = request
        /\ (\A f : Asked(f)' <=> Asked(f)) /\ (\A d : Good(d)' <=> Good(d))
    BY <2>1, <2>2, ScreenOnly
  <2>4. ListsAreTrue'
    BY <2>1, <2>3 DEF OffersInv, ListsAreTrue
  <2> QED BY <2>2, <2>3, <2>4 DEF OffersInv
<1> QED BY <1>1, <1>2, <1>3, <1>4, <1>5

LEMMA LoadsKeepOffers ==
  ASSUME FriendsInv, OffersInv, Submit \/ FetchList \/ FetchPending \/ ShowPending \/ LoadFails
  PROVE  OffersInv'
<1>1. CASE Submit
  <2>1. /\ page = "search" /\ loading' = "first" /\ overtaken' = FALSE
        /\ UNCHANGED friendVars /\ busy' = busy /\ answer' = answer /\ newest' = newest
        /\ page' = page /\ listed' = listed
    BY <1>1 DEF Submit, asked
  <2>2. PagesType'
    BY <2>1 DEF OffersInv, PagesType
  <2>3. AskedHere' /\ NewestIsKnown'
    BY <2>1, <2>2, ScreenOnly
  <2>4. ListsAreTrue'
    BY <2>1 DEF ListsAreTrue
  <2> QED BY <2>2, <2>3, <2>4 DEF OffersInv
<1>2. CASE FetchList
  <2>1. /\ page # "profile" /\ loading = "first"
        /\ page = "friends" => listed' = Truth(List(Me))
        /\ page = "pending" => listed' = Received
        /\ page = "sent" => listed' = Sent
        /\ page = "search" => listed' = People
        /\ page = "suggestions" => listed' = People \ Truth(Sugg(Me))
        /\ loading' = (IF page \in Finder THEN "second" ELSE "no")
        /\ UNCHANGED friendVars /\ busy' = busy /\ answer' = answer /\ newest' = newest
        /\ page' = page /\ found' = found /\ waiting' = waiting /\ overtaken' = overtaken
    BY <1>2 DEF FetchList, loadOnly, asked
  <2>2. Truth(List(Me)) \in SUBSET User
    BY TruthType DEF FriendsInv, FriendsType
  <2>3. People \in SUBSET (User \ {Me}) /\ Received \in SUBSET Dir /\ Sent \in SUBSET Dir
    BY DEF People, Received, Sent
  <2>4. PagesType'
    BY <2>1, <2>2, <2>3 DEF OffersInv, PagesType, Finder
  <2>5. AskedHere' /\ NewestIsKnown' /\ request' = request
    BY <2>1, <2>4, ScreenOnly
  <2>6. \A d \in Received \cup Sent : request[d] = "PENDING"
    BY DEF Received, Sent
  <2>7. ListsAreTrue'
    BY <2>1, <2>5, <2>6 DEF ListsAreTrue, Finder
  <2> QED BY <2>4, <2>5, <2>7 DEF OffersInv
<1>3. CASE FetchPending
  <2>1. /\ page # "profile" /\ loading = "second" /\ loading' = "show"
        /\ found' = {d[1] : d \in Received} \cup {d[2] : d \in Sent}
        /\ UNCHANGED friendVars /\ busy' = busy /\ answer' = answer /\ newest' = newest
        /\ page' = page /\ listed' = listed /\ waiting' = waiting /\ overtaken' = overtaken
    BY <1>3 DEF FetchPending, loadOnly, asked
  <2>2. PagesType'
    BY <2>1 DEF OffersInv, PagesType
  <2>3. AskedHere' /\ NewestIsKnown' /\ \A f : Asked(f)' <=> Asked(f)
    BY <2>1, <2>2, ScreenOnly
  <2>4. \A f \in User \ {Me} : Asked(f) => f \in found'
    <3> SUFFICES ASSUME NEW f \in User \ {Me}, Asked(f) PROVE f \in found'
      OBVIOUS
    <3>1. <<Me, f>> \in Dir /\ <<f, Me>> \in Dir
      BY PagesAssumption DEF Dir
    <3>2. <<Me, f>> \in Sent \/ <<f, Me>> \in Received
      BY <3>1 DEF Asked, Sent, Received
    <3>3. <<Me, f>>[2] = f /\ <<f, Me>>[1] = f
      OBVIOUS
    <3> QED BY <2>1, <3>2, <3>3
  <2>5. ListsAreTrue'
    BY <2>1, <2>3, <2>4 DEF OffersInv, PagesType, ListsAreTrue, Finder
  <2> QED BY <2>2, <2>3, <2>5 DEF OffersInv
<1>4. CASE ShowPending
  <2>1. /\ loading = "show" /\ loading' = "no" /\ waiting' = found
        /\ UNCHANGED friendVars /\ busy' = busy /\ answer' = answer /\ newest' = newest
        /\ page' = page /\ listed' = listed /\ overtaken' = overtaken
    BY <1>4 DEF ShowPending, loadOnly, asked
  <2>2. PagesType'
    BY <2>1 DEF OffersInv, PagesType
  <2>3. AskedHere' /\ NewestIsKnown' /\ \A f : Asked(f)' <=> Asked(f)
    BY <2>1, <2>2, ScreenOnly
  <2>4. ListsAreTrue'
    BY <2>1, <2>3 DEF OffersInv, PagesType, ListsAreTrue, Finder
  <2> QED BY <2>2, <2>3, <2>4 DEF OffersInv
<1>5. CASE LoadFails
  <2>1. /\ loading' = "no" /\ overtaken' = TRUE
        /\ UNCHANGED friendVars /\ busy' = busy /\ answer' = answer /\ newest' = newest
        /\ page' = page /\ listed' = listed
    BY <1>5 DEF LoadFails, asked
  <2>2. PagesType'
    BY <2>1 DEF OffersInv, PagesType
  <2>3. AskedHere' /\ NewestIsKnown'
    BY <2>1, <2>2, ScreenOnly
  <2> QED BY <2>1, <2>2, <2>3 DEF OffersInv, ListsAreTrue
<1> QED BY <1>1, <1>2, <1>3, <1>4, <1>5

LEMMA ProfileKeepsOffers ==
  ASSUME OffersInv, FindFriendshipBetween \/ FindLatestRequestBetween
  PROVE  OffersInv'
<1>1. CASE FindFriendshipBetween
  <2>1. /\ page = "profile" /\ loading' \in {"no", "second"}
        /\ listed' = {} \/ (loading' = "second" /\ listed' = listed)
        /\ UNCHANGED friendVars /\ busy' = busy /\ answer' = answer /\ newest' = newest
        /\ page' = page /\ overtaken' = overtaken
    BY <1>1 DEF FindFriendshipBetween, loadOnly, asked
  <2>2. PagesType'
    BY <2>1 DEF OffersInv, PagesType, Finder
  <2>3. AskedHere' /\ NewestIsKnown'
    BY <2>1, <2>2, ScreenOnly
  <2>4. ListsAreTrue'
    BY <2>1 DEF ListsAreTrue, Finder
  <2> QED BY <2>2, <2>3, <2>4 DEF OffersInv
<1>2. CASE FindLatestRequestBetween
  <2>1. PICK latest : latest = {d \in newest : Both(d) = {Me, Them}}
    OBVIOUS
  <2>2. /\ page = "profile" /\ loading' = "no"
        /\ listed' = (IF latest \cap (Received \cup Sent) = {} THEN {<<Me, Them>>}
                                                              ELSE latest \cap Received)
        /\ UNCHANGED friendVars /\ busy' = busy /\ answer' = answer /\ newest' = newest
        /\ page' = page /\ overtaken' = overtaken
    BY <1>2, <2>1 DEF FindLatestRequestBetween, loadOnly, asked
  <2>3. /\ \A d \in Received : d \in Dir /\ d[2] = Me /\ request[d] = "PENDING"
        /\ \A d \in latest \cap Received : d = <<Them, Me>>
    <3>1. \A d \in Received : d \in Dir /\ d[2] = Me /\ request[d] = "PENDING"
      BY DEF Received
    <3>2. \A d \in Dir : d[2] = Me /\ Both(d) = {Me, Them} => d = <<Them, Me>>
      BY ThemType DEF Dir, Both
    <3> QED BY <2>1, <3>1, <3>2
  <2>4. PagesType'
    BY <2>2, <2>3 DEF OffersInv, PagesType, Finder
  <2>5. AskedHere' /\ NewestIsKnown' /\ \A d : Good(d)' <=> Good(d)
    BY <2>2, <2>4, ScreenOnly
  <2>6. Good(<<Them, Me>>) \/ request[<<Them, Me>>] # "PENDING"
    BY ThemType DEF Good
  <2>7. ASSUME latest \cap (Received \cup Sent) = {} PROVE Good(<<Me, Them>>)
    <3>1. <<Me, Them>> \in Dir /\ <<Them, Me>> \in Dir
          /\ Both(<<Me, Them>>) = {Me, Them} /\ Both(<<Them, Me>>) = {Me, Them}
          /\ Back(<<Me, Them>>) = <<Them, Me>> /\ Back(<<Them, Me>>) = <<Me, Them>>
      BY ThemType DEF Both, Back
    <3>2. request[<<Me, Them>>] = "PENDING" /\ request[<<Them, Me>>] = "NONE" => FALSE
      BY <2>1, <2>7, <3>1 DEF OffersInv, NewestIsKnown, Sent
    <3>3. request[<<Them, Me>>] = "PENDING" /\ request[<<Me, Them>>] = "NONE" => FALSE
      BY <2>1, <2>7, <3>1 DEF OffersInv, NewestIsKnown, Received
    <3> QED BY <3>1, <3>2, <3>3 DEF Good
  <2>8. \A d \in listed' : Good(d)
    BY <2>2, <2>3, <2>6, <2>7
  <2>9. ListsAreTrue'
    BY <2>2, <2>5, <2>8 DEF ListsAreTrue, Finder
  <2> QED BY <2>4, <2>5, <2>9 DEF OffersInv
<1> QED BY <1>1, <1>2

LEMMA OffersInit ==
  ASSUME NEW friends \in SUBSET Dir, PagesInit(friends)
  PROVE  FriendsInv /\ OffersInv
<1>1. FriendsInv
  BY FriendsInitInv DEF PagesInit
<1>2. /\ page = "none" /\ loading = "no" /\ listed = {} /\ waiting = {}
      /\ busy = NoAct /\ answer = "none" /\ newest = {} /\ overtaken = FALSE
      /\ request = [d \in Dir |-> IF d \in friends THEN "ACCEPTED" ELSE "NONE"]
  BY DEF PagesInit, FriendsInit
<1>3. PagesType
  BY <1>2 DEF PagesType, Finder
<1>4. AskedHere /\ ListsAreTrue
  BY <1>2 DEF AskedHere, ListsAreTrue, Finder
<1>5. NewestIsKnown
  <2>1. \A d \in Dir : request[d] \in {"ACCEPTED", "NONE"}
    BY <1>2
  <2> QED BY <1>2, <2>1 DEF NewestIsKnown
<1> QED BY <1>1, <1>3, <1>4, <1>5 DEF OffersInv

\* What is asked on a page is asked of a handler as anybody else asks.
LEMMA PagesStepFriends ==
  ASSUME FriendsInv, OffersInv, [PagesNext]_allVars
  PROVE  [FriendsNext]_friendVars
<1>1. CASE ServerStep
  BY <1>1 DEF ServerStep, FriendsNext
<1>2. ASSUME NEW o \in Offers, Do(o) PROVE [FriendsNext]_friendVars
  <2>1. o[1] \in Asks /\ (o[1] # "remove" => o[2] \in Dir)
    BY OffersShape DEF OffersInv
  <2>2. CASE Takes(o) /\ Ask(o)
    <3>1. o[1] = "remove" => o[2] \in made
      BY <2>2 DEF Takes
    <3>2. o[2] \in Dir
      BY <2>1, <3>1 DEF FriendsInv, FriendsType, TablesType
    <3>3. Press(Mine)
      BY <2>2, <3>2 DEF Ask, Press
    <3> QED BY <3>3, PagesAssumption DEF FriendsNext
  <2> QED BY <1>2, <2>2 DEF Do
<1>3. CASE UNCHANGED friendVars
  BY <1>3
<1>4. ASSUME \/ \E p \in Pages : Open(p)
             \/ LoseAnswer \/ ListAnswered \/ FinderAnswered \/ ProfileAnswered \/ ErrorShown
             \/ Submit \/ FetchList \/ FetchPending \/ ShowPending
             \/ FindFriendshipBetween \/ FindLatestRequestBetween \/ LoadFails
             \/ UNCHANGED allVars
      PROVE  UNCHANGED friendVars
  BY <1>4 DEF Open, LoseAnswer, ListAnswered, FinderAnswered, ProfileAnswered, ErrorShown, Settle,
              Submit, FetchList, FetchPending, ShowPending, FindFriendshipBetween,
              FindLatestRequestBetween, LoadFails, loadOnly, allVars
<1> QED BY <1>1, <1>2, <1>3, <1>4 DEF PagesNext

LEMMA PagesNextInv ==
  ASSUME FriendsInv, OffersInv, [PagesNext]_allVars
  PROVE  FriendsInv' /\ OffersInv'
<1>1. FriendsInv'
  BY PagesStepFriends, FriendsNextInv
<1>2. CASE UNCHANGED allVars
  <2>1. /\ UNCHANGED friendVars /\ newest' = newest /\ busy' = busy /\ answer' = answer
        /\ page' = page /\ loading' = loading /\ listed' = listed /\ found' = found
        /\ waiting' = waiting /\ overtaken' = overtaken
    BY <1>2 DEF allVars, pageVars, screen, asked
  <2>2. PagesType'
    BY <2>1 DEF OffersInv, PagesType
  <2>3. AskedHere' /\ NewestIsKnown' /\ request' = request
        /\ (\A f : Asked(f)' <=> Asked(f)) /\ (\A d : Good(d)' <=> Good(d))
    BY <2>1, <2>2, ScreenOnly
  <2>4. ListsAreTrue'
    BY <2>1, <2>3 DEF OffersInv, ListsAreTrue
  <2> QED BY <1>1, <2>2, <2>3, <2>4 DEF OffersInv
<1>3. OffersInv'
  BY <1>2, ServerKeepsOffers, DoKeepsOffers, OpenKeepsOffers, AnswersKeepOffers, LoadsKeepOffers,
     ProfileKeepsOffers DEF PagesNext
<1> QED BY <1>1, <1>3

\* A page that nothing has overtaken lists what it could have read now, but for what was
\* just done on it (web features/friends/pages, DirectInfoModal.tsx).
THEOREM PagesInvariant == PagesSpec => [](FriendsInv /\ OffersInv)
<1>1. (\E friends \in SUBSET Dir : PagesInit(friends)) => FriendsInv /\ OffersInv
  BY OffersInit
<1>2. (FriendsInv /\ OffersInv) /\ [PagesNext]_allVars => (FriendsInv /\ OffersInv)'
  BY PagesNextInv
<1> QED BY <1>1, <1>2, PTL DEF PagesSpec

\* Whatever one user does on the pages, the servers do nothing that Friends does not
\* allow: so what is proved of Friends holds beside the pages.
THEOREM PagesImplementFriends == PagesSpec => FriendsSpec
<1>1. (\E friends \in SUBSET Dir : PagesInit(friends))
        => (\E friends \in SUBSET Dir : FriendsInit(friends))
  BY DEF PagesInit
<1>2. FriendsInv /\ OffersInv /\ [PagesNext]_allVars => [FriendsNext]_friendVars
  BY PagesStepFriends
<1> QED BY <1>1, <1>2, PagesInvariant, PTL DEF PagesSpec, FriendsSpec

\* A page that has loaded, and was not overtaken, offers nothing the server refuses, but
\* for what OfferedIsGood names (friends/service.ts and the pages).
THEOREM OffersGood == PagesSpec => []OfferedIsGood
<1>1. FriendsInv /\ OffersInv => OfferedIsGood
  BY OffersFollow DEF FriendsInv, FriendsType
<1> QED BY <1>1, PagesInvariant, PTL
=============================================================================
