# BakBak in TLA+

BakBak is a chat application: an Express and Socket.IO API (`apps/api`) over
PostgreSQL (Prisma), Redis and an S3 bucket, and a React client (`apps/web`).
The API runs as any number of identical servers. Every handler is an `async`
function, and most of them make several awaited calls to PostgreSQL or Redis
without a transaction around them, so the handlers of different requests - and
of different servers - interleave between any two of those calls. This is where
the specifications here put their steps: one action per awaited call, with all
the assignments the code makes between two awaits in the same action.

Files: `X.tla` is a specification, `MCX.tla` its instances for TLC, `X_run.cfg`
one run of TLC, `XProofs.tla` theorems and proofs for TLAPS. `PROJECT.json`
lists components, runs, mutants, the source lines behind each definition, the
disagreements found, the hazards and the theorems.

    tlc -workers 2 -config AuthSessions_rotation.cfg MCAuthSessions.tla
    tlapm AuthSessionsProofs.tla
## The system

| Component | State | Operations | Interacts with |
|---|---|---|---|
| Login sessions (`auth/`) | `Session`, `RefreshToken` | login, refresh with rotation and reuse detection, logout, end one / others / all, expired-token job | HTTP and socket authentication, forced disconnection, accounts |
| Sign-up, verification, lockout, two-factor, recovery (`auth/`, `email/repository.ts`, `users/repository.ts`) | `VerificationToken`, failure counters and lock times on `User` | register, verify, resend, forgot / reset password, send / consume code, recover | email, sessions |
| Accounts (`users/`, `jobs/anonymize-deleted-users.ts`) | `User`, `UserProfile` | profile and username, avatar, delete, anonymize | sessions, friends' caches, files |
| Friends (`friends/`) | `FriendRequest`, `Friendship`, cached lists in Redis | send, cancel, accept, reject, remove, suggestions | cache, users |
| Chats (`chats/`, `websocket/rooms.ts`) | `Chat`, `ChatParticipant`, socket rooms | open direct, create group, update, add / remove, leave, delete | sockets, messages |
| Messages (`messages/`) | `Message`, `MessageReaction`, read pointers | send, edit, delete, react, mark read, unread count | uploads, sockets, push |
| Uploads (`uploads/`, `jobs/orphan-attachments.ts`, `redis/lock.ts`) | `Attachment`, bucket, lock | upload, access, delete, orphan job | messages, avatars, group photos |
| Calls (`calls/`, web `features/calls/`) | `Call`, timeline entries; phase, peer connection and queue of each browser | offer, answer, candidate, end, ring-out, history | sockets, messages |
| Sockets (`websocket/`) | sockets, rooms, typing throttles | handshake, connect, join, typing, read receipt, disconnect | sessions, presence, chats |
| Presence (`redis/presence/`, `jobs/presence-sweep.ts`) | leases in Redis, local mirror, last seen | touch, release, sweep, lookup | sockets, web client |
| Cache and limits (`redis/cache.ts`, `redis/rate-limit.ts`) | cached values, token buckets | cache-aside read, invalidate; take a token, fail open or closed | all |
| Jobs (`jobs/registry.ts`) | timers | start, run safely, stop | uploads, presence, accounts, sessions |
| Push, email, settings | subscriptions, preferences | notify, prune; send; update | messages, auth |
| Web client (`apps/web`) | token in memory, socket, thread, call | refresh on 401, listeners, views | all of the API |

Everything goes through three channels: HTTP requests, socket events relayed to
rooms (across servers by the Redis adapter), and the database. Nothing orders
them against each other. There are almost no transactions; the code relies on
unique indexes, conditional updates (`updateMany ... where revokedAt: null`), Lua
scripts and, once, a lock with a TTL.

What is hard here, and where:

- requests that race between a read and a write: refresh rotation, session checks,
  both sides of a call hanging up, files listed and deleted, edits against deletes
  (`AuthSessions`, `CallRecords`, `Attachments`, `Messages`),
  codes and lockout counters, friend requests, members who come and go (`Account`, `Friends`,
  `Membership`);
- relays that overtake each other, because each handler awaits first: call
  events, presence announcements, message events (`Calls`, `IceTrickle`, `Presence`,
  `ChatThreads`);
- client code that goes on after an await in a state that has changed (`Calls`,
  `ChatThreads`, `ChatPage`, `FriendPages`, `UsernameForm`);
- lost answers and connections, retries, timers on both sides (`AuthSessions`,
  `Calls`, `Attachments`, `ChatThreads`, `TabSessions`);
- servers that die between two writes, leases and locks that expire
  (`AuthSessions`, `Presence`, `Attachments`, `Account`);
- caches filled with a value read before the invalidation, and skipped
  invalidations (`CacheAside`, `Friends`);
- tabs that share one cookie, or one push subscription (`TabSessions`, `Push`).

What makes each component correct: sessions - one usable refresh token, nothing
survives a revocation; calls - one outcome per call, nobody left in half a call;
presence - online exactly while a socket is; files - nothing in use is deleted,
nothing else stays; messages - one row per clientId, every view converges to the
row, a deleted message has no text; chats - members and rooms agree; friends - a pair is in one state; accounts - a code or token works once,
failures lock and success unlocks; caches - what was invalidated is not served
again. `PROJECT.json` lists the hazards with their lines, and for those without a
property why there is none.

## Not modelled

JWT, hashing and cookies (libraries; they appear as the ids they carry), zod schemas and
serialization, email templates, what a notification says, the settings nothing else
depends on and a member's own preferences for a chat (single updates), WebRTC itself,
paging and search of messages, markup, styling and media playback, pages that only
show what they have loaded, metrics and health checks, Docker and CI. None of them has
state that two steps could find in disagreement; what is left out of a component that
is modelled is said in its section.

## The modules

| Module | About | Composes |
|---|---|---|
| `RotationChain` | abstract: where the right to refresh is | |
| `AuthSessions` | login sessions, refresh tokens, sockets | implements `RotationChain` |
| `CallRecords` | the server's part of a call and its history | |
| `Calls` | browsers, sockets and relays around it | extends and implements `CallRecords` |
| `IceTrickle` | candidates of a call and their queue | |
| `Presence` | leases, sweep, announcements, the dot | |
| `Attachments` | files, their rows and objects, the orphan job | |
| `Messages` | the server's handlers on one chat's messages | |
| `ChatThreads` | the pages that show the chat, sockets and retries | extends and implements `Messages` |
| `ChatPage` | one page that goes from chat to chat | |
| `ChatList` | the badges of the list of chats | |
| `Membership` | who is in a chat, and whose sockets are in its room | |
| `Push` | the push subscription of a browser with several tabs | |
| `CacheAside` | the cache several servers share | |
| `Friends` | requests and friendships, and their cached lists | extends `CacheAside` |
| `FriendPages` | the pages on which one of them sees and does this | extends `Friends` |
| `Account` | one account's links, codes, locks, deletion and recovery | |
| `RateLimit` | a token bucket, and the middleware around it | |
| `UsernameForm` | the username field of the sign-up and account pages | |
| `TabSessions` | tokens and refresh in the tabs of a browser | |
| `Typing` | who is shown as typing | |

`MCAuthSessions`, `MCCalls`, `MCAttachments`, `MCMessages`, `MCPeople` (`Presence`, `Friends`,
`FriendPages`), `MCChats` (`Membership`, `ChatPage`, `ChatList`, `Push`), `MCAccount` (`Account`,
`RateLimit`, `UsernameForm`) and `MCClient` (`TabSessions`, `Typing`) instantiate them for TLC;
`AuthSessionsProofs`, `CallRecordsProofs` (also `Calls`), `PeopleProofs` (`Presence`, `Friends`,
`CacheAside` and `FriendPages`), `AttachmentsProofs`, `MessagesProofs` (also `ChatThreads`),
`ChatPageProofs` (also `Membership`), `AccountProofs` (also `UsernameForm` and `RateLimit`) and
`TabSessionsProofs` prove theorems about them.

Modules that share a run are not composed: each of its scenarios steps one of them
and leaves the variables of the others alone.

## AuthSessions: login sessions and refresh tokens

Source: `auth/service.ts`, `auth/refresh-token.repository.ts`,
`auth/controller.ts`, `middleware/auth.middleware.ts`, `websocket/auth.ts`,
`disconnectSockets` in `websocket/emitter.ts`, `users/service.ts` deleteMe,
`jobs/expired-refresh-tokens.ts`.

### State and actions

One account. `sess`, `token`, `tokSess` and `expired` are the rows of `Session`
and `RefreshToken`; a revoked token is `recent` within the 30 seconds of
`refreshTokenReuseGraceMs` and `old` after them. `deleted` is `User.deletedAt`,
`era` counts the writes that are to end every session. `cookie` and `jwt` are
what each browser holds. `pc` and `req` are the requests in the middle of their
handlers, `sock` the sockets, with the handshakes that have passed
`socketAuthMiddleware` and are not connected yet.

A handler is the action that starts it (`LoginStart`, `RefreshStart`,
`RevokeSession`, `Logout`, `RevokeOtherSessions`, `RevokeAllSessions`,
`ChangePassword`, `DeleteMe`, `ResetPassword`) and the steps `Continue(r)`
takes it through, one per database call. `Abort` stops it between two of them:
the server dies, or the call rejects (the refresh controller then clears the
cookie). `LoseResponse` loses an answer. Time is an adversary: `Age` lets the
grace window of a token pass at any moment and `Expire` its seven days.

History variables (`readEra`, `bornEra`, `endedBy`, `lostRot`, `stranded`) are
read by properties and by no guard; the `VIEW` of a run hides the ones its
properties do not read.

### Properties

- `RotationUnique` (proved): however many requests race over a session, at most one of
  its tokens is unrevoked or one request is about to create one, never both.
- `ImplementsChain`: the session follows `RotationChain`, the abstract
  specification: the right to refresh is in one place at a time, and never comes
  back once dropped.
- `RefreshAfterEndRefused`: a refresh that arrives after its session was revoked
  gets no tokens, although sessions and tokens are revoked by two statements.
- `RevocationReachesSockets` (proved), `SocketsEventuallyDrop`: the sockets connected
  before a revocation are closed by it.
- `WriteEndsOldSessions`: a session older than the password change, the reset or
  the deletion does not survive it.
- `ReuseHasCause`: with requests shorter than the grace window, reuse detection
  fires only for a token whose rotation was never answered or that was revoked
  with its session. `Timely` states that bound on requests; the safety runs
  above do without it.

Some statements of the documentation are not what the code does. Ending one session can
later end all of them: its refresh token is revoked with it, and the browser that
still presents that token is taken for a thief (`auth/service.ts:785`). A login that has verified the old password keeps
its session over a password change (FEATURES.md:15): `WriteEndsOldSessions` speaks of
sessions that are older than the change. A third is visible in
`RevocationReachesSockets` itself: a handshake that checked its session before
the revocation and connects after it keeps its socket, and the property exempts
it (`late`).

### Runs and bounds

`MCAuthSessions` adds a variable `scenario` that is chosen once and restricts
which requests are made, so that one run covers several small worlds:

- `auth_rotation`: logins, refreshes, replays and logouts over two sessions and
  three tokens, the requests shorter than the grace window.
- `auth_revocation`: `Sockets`, every revocation against handshakes and crashes;
  `Writes`, the three credential writes against logins and refreshes that are
  under way; `Expiry`, tokens that run out and the job that deletes them.

Two requests are what a race needs, a third adds no new pair of adjacent steps;
three tokens allow two rotations in a row and with them a token that is replayed
after its successor was replaced. `MaxEra` bounds the credential writes,
`Expiring` the tokens whose lifetime can run out. Deadlock is not checked: ids
run out, and a system nobody calls stops.

### Fairness

`SocketsEventuallyDrop` assumes weak fairness of `Continue(r)`: a handler that
awaits the database is resumed with an answer or an error. Nothing is assumed of
clients, of handshakes or of time. A handler that dies is exempted in the
property (`stranded`), because the code has no retry for it.

### Proofs

`AuthSessionsProofs` proves, for every size of the constants, `TypeOK`,
`RotationUnique`, `ImplementsChain`, `RefreshAfterEndRefused`,
`RevocationReachesSockets`, `WriteEndsOldSessions` and `ReuseHasCause`. `TypeOK` is inductive by
itself: it carries the references between rows, requests and cookies.
`RotationUnique` is inductive given `TypeOK`; the refinement follows from it
step by step, as `Baton` is a function only because the holder is unique.
`RefreshAfterEndRefused` and the other two need that a revoked session is never
live again and that a request keeps its session while it is being served.

`ReuseHasCause` is proved under `Timely`, as the run checks it: no request takes longer
than the grace window, 30 seconds in the code. Without that a slow request presents a
token that was rotated before it arrived. `ReuseInv` follows a token from hand to hand. A token
is with one device or on its way to one, and who presents it is that device
(`OneHolder`). Once it is rotated the device lets go of it, or the rotation is still being
answered; when the grace window is over, nobody is left who could present it, unless the
answer was lost (`RotatedIsGone`). So what is taken for reuse was lost, or ended by
something else than a rotation (`ReuseIsSpent`). Most steps are `Calm`: they present, rotate and
deliver nothing, and one lemma covers them all.

Only model-checked: `SocketsEventuallyDrop` (liveness).
## Calls

Source: `calls/signaling.ts`, `calls/service.ts`, `calls/repository.ts`,
`schema/call/call.prisma`; `features/calls/call-context.tsx`,
`features/chat/socket-context.tsx`, `features/chat/hooks/use-socket-event.ts`.

Three modules, because three questions are asked of different state:

- `CallRecords`: the server. The `Call` table, the entries it leaves in the
  conversation, and the handlers that run between an event and its relay.
- `Calls`, which extends it: the browsers, the sockets and the relay to the room.
- `IceTrickle`: the candidates of one call and the queue they wait in.

### CallRecords

`Receive` starts a handler with an event, `CanSignal` is its membership check.
An offer goes on with `FindDirectCallee` and `CreateRinging`, an answer with
`FindLive` and `MarkAnswered`, an end with `FindLive`, `MarkEnded` and
`PostEntry`; `Relay` ends all three. No event says which call it is about, so
`FindLive` takes the newest live row and decides the outcome from what it read.
`CallFails` is a rejected database call - the membership check then drops the
event, everything else is logged and the event relayed - and `Crash` the death of
the server. `active` are the participants; `Leave` and `Rejoin` change it.
`lostPost` is history: entries a failed handler did not post.

`OutcomeIsFinal`, `EndedIsPosted` and `PostedHasEnded` are what remains true of
the history when any participant may send any event at any time, whatever his
browser shows: this is what the proofs are about, and `calls_signalling`
checks `EndedIsPosted` with the browsers of `Calls` as the senders.

### Calls

`cl[d]` is the `CallProvider` of a browser: its `phase`, `pcRef` (`pc`),
`localRef` (`mic`), `chatIdRef` (`chat`), and `task`, the async function
(`startCall` or `accept`) that is waiting for the ICE servers or the
microphone. `teardown` does not stop a task, and the task does not look, after
its await, whether it is still wanted: `DialIce`, `DialMedia`, `AcceptIce` and
`AcceptMedia` are what happens then. `up` and `inbox` are the two directions of
the socket, each in order; the handlers in between are those of `CallRecords`,
and overtake each other. `dial` numbers the diallings; it stands for the SDP
an event carries, and no guard of the server reads it.

Abstracted: React has rendered before the next event is handled (the listeners
read the current phase through a ref, `use-socket-event.ts`); a browser runs
one async function at a time; the description is set, answered and emitted in the
step in which the microphone is granted; muting, the timer and the toasts.

`ServerIsCallRecords` shows that the composition adds nothing to the server's
part, so that what is proved of `CallRecords` holds in it. `NobodyTalksAlone`
holds for one dialling between two browsers; with a third browser, or a late
answer of an earlier dialling, two browsers can be paired that are in different
calls. `OneCallAtATime` is checked with two diallings, so that both may dial at
once.

### IceTrickle

`sent[p]` is a set: the handlers of one socket's events relay in any order.
`Description` stands for the description. `CandidatesArrive` says that the queue, the
copy `flushCandidates` is working on and the connection together hold whatever
was heard, and that the caller, which listens from the start, ends up with
everything. The callee does not: it is not in the call before the offer
arrives, and the offer can come last.

### Disagreements

What the code does otherwise than one would expect, and why some properties above are
stated as they are:

- a dialling that is hung up before its ICE servers have arrived opens the
  microphone afterwards (`call-context.tsx:216`);
- a call closed as MISSED can have an `answeredAt` and a duration, when the
  answer is recorded between the two steps of the end (`calls/service.ts:116`);
- a row is left RINGING by an offer that was overtaken by its end, and the next
  answer or end of the chat is then attributed to it;
- an end closes the newest row of the chat, which can be another dialling's;
- the offer goes to the whole room but the sending socket, so the caller's own other
  browsers ring, and a second browser of the callee that rings out hangs up the
  call the first one is in;
- a lost connection does not tear the call down: the client listens to call
  events only;
- a candidate that overtakes the offer is dropped.

### Runs and bounds

`calls_signalling` has one dialling between two browsers in two scenarios:
`Race`, two handlers at work at once and nothing that fails, and `Mishap1`, one
handler at a time and one mishap (a browser closes, or loses its network with the
last of the events on their way, a handler fails, the server dies, a participant leaves). A third, `Candidates`,
holds the call still and steps `IceTrickle`, which shares no variable with it.
`calls_glare` has two diallings with one handler at a time: a race between
relays needs two handlers, glare two diallings. `GlareView` leaves out of the
state what that property does not depend on: the history rows are only read by
handlers whose choice among them decides nothing a browser sees.

### Fairness

`RingingStops` assumes that the ring-out timer of a browser that stays open and
keeps ringing fires (`WF_vars(RingOut(d))`). It assumes nothing of the network,
of the handlers or of people.

### Proofs

`CallRecordsProofs` proves `RecordsTypeOK`, `EndedIsPosted`, `PostedHasEnded` and
`OutcomeIsFinal` for every number of people, calls and handlers. Their
conjunction `RecordsInv` (without the action property) is inductive:
`EndedIsPosted` counts on the handler that closes a row holding an existing one,
`PostedHasEnded` on nobody posting before it has closed. Two lemmas cover the
steps that only move a handler on or end it, and there is one per step that
writes. `OutcomeStands` follows from the invariant: a row that ended is in none
of the states the three writing steps look for.

The same module then proves of `Calls`, for any number of browsers, diallings and
mishaps, that queues, inboxes and what browsers hold keep their types (`CallsTypeOK`);
`CallsImplementRecords`, the refinement `ServerIsCallRecords`, step by step; that
`EndedIsPosted` and `PostedHasEnded` hold with the browsers; and `OneCallAtATime`, from the
guards of every step that changes a phase, the late steps of `startCall` and `accept`
among them.

Of `IceTrickle` it proves `CandidatesArrive`, for any candidates and any order of the
relays. `IceInv` adds to it what it rests on: a candidate of the callee that the caller has
not heard is still ungathered, in a handler or in the caller's inbox (`OnTheWay`); before
the dialling nothing has come to the callee or from it (`NothingBefore`), so the caller is
in the call when the first one comes; the queue is empty once the description is set, the
copy of it once it is flushed (`Drained`).

`FirstCallIsShared` proves `NobodyTalksAlone` for two browsers of two people and the first
call dialled, whichever of them dials and however many handlers relay at the same time
(the run has two). `PairInv` names the dialler and the callee (`Between`) and says what is
on its way between them (`Comes`): there is one offer at most, and while it is on its way
the callee has not heard of the call (`Unheard`), so nothing it sends can be overtaken by
it; an end is on its way only from a browser that is idle by then, for good; and when
one side is connected and the other is not in the call, the other's end is still on its
way (`NotAlone`). Teardown does not stop `startCall` and `accept`: the invariant
also holds of a browser that has hung up and goes on to send its offer or its answer.

Only model-checked: `RingingStops` (liveness).

## Presence

Source: `redis/presence/index.ts` and `lua.scripts.ts`, `websocket/connection.ts`,
`jobs/presence-sweep.ts`, `features/chat/presence-context.tsx`.

### State and actions

One user with several sockets, on several servers, and one other member of a
chat who watches his dot. `lease[s]` is the score of a socket in
`presence:user:<id>` and `index` that of the user in `presence:online`, both as
the heartbeat periods they still have; `Touch` and `Release` are the two scripts,
which Redis runs atomically.

`Connect(s)` and `Close(s)` contain the command their handler sends: it is sent
in the synchronous part of the handler, over the one connection the server has
to Redis, which keeps the order. What follows it is not: the handler awaits the
rooms of the user (`ConnectJoin`) and announces what the script returned
(`ConnectTell`, `DisconnectTell`), and the sweep of any server tells the chats
later (`SweepTell`). Both may fail and then tell nobody: `joinAllChats` gives back an
empty list (`JoinFails`; `connection.ts:222`), and the query of the sweep rejects (`SweepFails`;
`presence-sweep.ts:29`). `ServerDies` takes the sockets and handlers of a server with
it and leaves their leases; `Outage` makes `isRedisReady()` false, and the
handlers then fall back on the sockets of their own server (`LocalFirst`).
`Tick` is the passing of a period, in which every open socket has had its
heartbeat. The watching member joins the room, asks for a snapshot and adds it to
what it shows, in three steps between which the announcements arrive.

Left out: the last-seen time, the announcement `chat:join` makes when a chat is
opened, more than one chat, and heartbeats that are late by more than a period
(`heartbeatMs` is a third of the lease, and a timer that late means a server that
does not run).

### Properties

- `IndexCoversLeases`: the user's lease outlives his sockets', although sockets
  are touched, released and swept on different servers.
- `OpenIsOnline` (proved): while Redis has always been reachable, a user with an open
  socket is online, whatever happens to his other sockets and their servers.
- `GoneIsSwept`: a user all of whose sockets are gone leaves the index, even if
  none of them was released.
- `DotIsRight`, of the behaviours that are `Orderly` (`OrderlySpec`): the dot is right
  once nothing is left to announce - if every announcement is made, and no change happens
  while one is under way. Without that condition it is not: a socket may close while its connect handler awaits the rooms, and is then
  announced, although jobs/presence-sweep.ts:12 says that nobody is left showing a
  stale green dot.

### Runs and bounds

`people_known` has two scenarios about presence: `leases`, two sockets on two servers
with an outage and with nobody watching, and `orderly`, three sockets and a
watching member. Its other scenarios are about friends (below). A lease lasts two periods instead of the code's three, the
least in which a lease that was not renewed differs from one that was.

### Fairness

`GoneIsSwept` assumes that handlers go on (`Tells`), timers fire (`Clock`), the
sweep, which every server runs on an interval, is run again (`Sweep`), and Redis
comes back (`Restored`). It assumes nothing of users.

### Proofs

`PeopleProofs` proves type correctness, `IndexCoversLeases` and
`OpenIsOnline` for any number of sockets and servers and any length of the lease. The inductive
invariant adds `LeaseLasts`: without an outage, an open socket whose heartbeat of
this period is still to come has at least one more period, and one that has
had it two; `Tick` alone would break `OpenIsOnline` without it.

`OrderlyDot` proves `DotIsRight` of `OrderlySpec`. `DotInv` says what must still be on its
way: while somebody is about to say that the user is gone he is out of the index, while
somebody is about to say that he is there he is in it, a socket that has joined is in
the room and hears both, and a snapshot that was looked at and not shown yet is
still right. `GoneIsSwept` (liveness) is only model-checked.
## Attachments

Source: `uploads/service.ts` and `repository.ts`, `sendMessage` with attachments,
`register` and `uploadAvatar` as far as files go, `updateChat` (photo),
`deleteChat`, `jobs/orphan-attachments.ts`, `redis/lock.ts`.

### State and actions

The files of one person. A file is an object in the bucket (`object`) and mostly
a row (`rows`, with `link` for `messageId` and `old` for older than
`orphanGraceMs`); no transaction covers both. `req`/`pc` are the requests:
`Upload*`, `Delete*`, `Send*` (also a retry with the same clientId), `Signup*`
(object, row, profile) and `Avatar*` (object, profile, removal of the previous
object; no row). A run of the orphan job takes the lock (`JobStart`), makes the
four queries one by one (`ListUnlinked`, `ListAvatars`, `ListLive`,
`ListDeleted`) and then deletes each candidate, object first (`CleanObject`,
`CleanRow`). `LockExpires` takes the lock from a run that goes on; `JobFails`
ends a run with or without releasing it; `Stop` and `SignupWithout` are calls
that reject and servers that die.

Assumed, as `jobs/config.ts` does ("a day is far longer than any open composer
survives"): a file that is being sent is younger than a day (`SendStart`, `Age`).
Assumed of clients: a file is sent with one message (`FilesOf`), as the web
client does; the code would let two messages take one file from each other. And what a client gives
`PATCH /users/me/avatar` is no storage key (`AvatarUrl`), as it never is with the web client; the code
takes any string (`contracts/user.ts:70`, `users/service.ts:191`), a key too, which the next
`uploadAvatar` then removes as the previous one (`users/service.ts:218`). `InUseIsKept` does not
hold of a file whose key was given there.

### Properties

- `InUseIsKept`: the files of a message that was sent stay linked and stored
  until the message or the file is deleted, and the profile never names an avatar that
  is gone, whatever the job does meanwhile.
- `NoForgottenObject`: an object without a row is that of an upload in progress.
  History exempts what the code does forget: objects whose upload or sign-up died
  before the row, and those whose rows go by cascade when their group is deleted.
- `GarbageGoes`: what was never sent, or belongs to a deleted message, goes.
- `GroupPhotoKept` does not hold (`files_groupphoto`): the photo of a group is an
  upload that is never linked, and the job deletes it after a day.

Not claimed: that the quota holds - it is read before the upload and not afterwards, and
concurrent uploads exceed it by as many as there are - and that a replaced avatar's object goes. Two avatars uploaded at once
read the same previous key, and the one that loses stays in the bucket.

### Runs and bounds

`files_kept` has seven scenarios, each with the keys, requests and runs its
question needs: a send and its retry; failures; two overlapping runs; uploads at the
quota; two registrations; two new avatars; a group photo. Two requests and two runs
are what a race needs; a message has two files, so that some and all differ.

### Fairness

`GarbageGoes` assumes that the job is started again and again (an interval on
every server), that a run goes on, and that a lock nobody releases expires.
`Mishaps` bounds the failures: a bucket that fails for ever keeps its garbage. The
scenario without runs of the job says nothing about it.

### Proofs

`AttachmentsProofs` proves `InUseIsKept` and `NoForgottenObject` for every set of files and
messages that `FilesAssumption` allows, and any number of requests and of runs of the job.
What makes them inductive (`FilesInv`) is why the four queries of the job are enough:

- a key that is being made is new (`MadeIsNew`): no run has it, nothing is deleted under it,
  and no other request names it;
- what a run has listed stays listed rightly (`Lists`): its row is gone by now, or a day
  old, or of a deleted message, and the profile has none of it - links only ever go to a
  message the file was sent with (`Links`), and a message that is deleted stays deleted;
- a file that is being sent is young, so that no run can have it (`Sends`) - the assumption
  of `jobs/config.ts`, without which the job could take a file between the check and the link;
- a row whose object is gone is one the owner deletes or the job lists (`RowsHaveObjects`).

There is one lemma per action. TLC checked the parts of `FilesInv` on the instances of
`files_kept` before they were proved.
## Messages

Source: `messages/service.ts` and `repository.ts`, the broadcasts of
`websocket/emitter.ts`, `Message` and `MessageReaction` of the schema, and web
`features/chat/pages/ChatPage.tsx` with `useChatRoom`.

### State and actions

`Messages` is the server's side of one chat. A message is named by the clientId it
was sent with, which the unique index on `(senderId, clientId)` justifies. `log` is
the order of `createdAt`, `row` what the table says of each message (text,
`deletedAt`, the id of each person's reaction), `read` the pointers
`lastReadMessageId`. A handler (`req`, `pc`, `got`) takes one step per database call:

| Handler | Steps |
|---|---|
| `sendMessage` | `SendStart` (known clientId: answer the original), `SendCreate` (insert, or what the unique index found) |
| `editMessage`, `deleteMessage` | `ChangeStart` (the checks), `EditWrite` / `DeleteWrite` (by id alone) |
| `toggleReaction` | `ReactStart`, `FindReaction`, `Toggle` (a unique index or a missing row refuses it), `Reread` |
| `markChatRead` | `FindLatest`, `MessageExists`, `SetLastRead` or `ClearLastRead` |

All but the cleared pointer then `Tell`: serialization awaits the avatars and file URLs,
so the broadcast is a step of its own. `Fail` is a rejected call or a server that
dies at that step.

`ChatThreads` extends it by one browser per person: `OpenChat` requests the chat and
the list and marks it read, `ReadPart` is the server reading either, `Loaded`
replaces the page; `TellRoom`, `Take`, `Ignore` are the events (in order for each
browser), `Respond` the response to the page's own request (any time, put on the page
whatever it has heard meanwhile), `GiveUp` a request whose connection breaks while
its handler goes on, `Disconnect` and `Reconnect` the socket. `Send` reuses the clientId
of a failed attempt for the same text.

History variables name what the code does not protect against, and the properties
exempt just that: `shaken` (handlers overlapped on the message or pointer, or one
failed), `missed` and `late` (a change while the socket was down, or after a load or a
response had read the message), `deaf`. README.md:161 of the repository lists
missed-message recovery as not built.

### Properties

- `ToldIsTrue`: no change goes untold: when nobody works on a message or pointer, the
  room was last told what the table says.
- `DeletedHasNoText` (proved): "the row stays, its text goes" (`messages/repository.ts:196`).
  Without the exemption it does not hold: an edit checked before a deletion and
  written after it restores a text.
- `TogglesCount` (proved): reactions add up, without any exemption.
- `ThreadSettles`: an open page shows each message and pointer as the table has it,
  in whatever order its load, the events and the responses came.
- `UnreadSettles`: an open page leaves nothing unread once its marks are done; no mark
  takes the pointer back.
- `SentOnce`: what was sent once is one message, however often it is retried and
  although earlier attempts still run. A retry after the chat was opened again or another
  text was tried is a new send (`pendingSend` is replaced), and the property says so.

### Run and bounds

`messages_threads` has nine scenarios: retries, retries across reopening, connections
that break, overlapping changes, toggles, failures, marks, deletions, loads. Each has
two people, at most two handlers at once (what a race between two writes needs), three
messages, up to three actions and two failures. Scenarios that do not open the page start
with pages that show the chat, a state the opening scenarios reach. There is no
deadlock check: the people stop when their presses are used up.

### Theorems

`MessagesProofs` proves, for any number of people, messages and handlers, the type
invariant, `ToldIsTrue`, `DeletedHasNoText` and `TogglesCount` of `Messages`, and
`ServerIsMessages`: `ThreadsSpec` implements `MessagesSpec`, so they hold with
the browsers too. `MessagesInv` adds why: a handler at work on an unshaken message is
alone with it, or all of them are attempts of one send (`Alone`); so what it holds
is what the table says (`NewsIsTrue`), an edit about to be written is of a visible
message (`EditSeesMessage`), and what the table says was told or will be
(`ToldOrTelling`).

The properties of the pages are proved of `ThreadsSpec`, from one invariant each:

- `SentOnceOnly` (`SentOnce`): `SendsInv` says that a clientId of the present occasion is for
  what is pending or was sent, and that a send that is awaited is of what is pending; so
  a retry finds the clientId of the attempt before.
- `ThreadsSettle` (`ThreadSettles`): `PagesInv` looks at one page and one message or pointer at
  a time (`Fine`). The last event on its way says what was last told; a send comes before what
  is done to the message; and a page that could follow every change shows the present
  value when nothing is on its way and nobody is about to tell. `ServerInv` is the
  server's part of it: who is about to tell what.
- `UnreadSettle` (`UnreadSettles`): `UnreadInv` says of each message that a page at attention
  has not marked that a mark that covers it is at work, or that the event that will
  start one is still to come.

### Left out

Replies, files of a message (`Attachments`), paging and search, call entries
(`CallRecords`), membership and blocked senders, the socket event `read:receipt` that
the web client never sends, further browsers of one person. A load that fails is one
that never ends. Going from one chat to another is in `ChatPage` (below).

## Chats: membership, pages, badges, push

### Membership

Source: `chats/service.ts` and `repository.ts`, `websocket/emitter.ts`, the joins of
`websocket/connection.ts`, and the pages that ask (`GroupInfoModal.tsx`, `ChatItem.tsx`,
`FriendsPage.tsx`).

One chat, a group or the direct chat of a pair. `seat` is `ChatParticipant` (role,
`leftAt`), `inRoom` the sockets in the chat's room. A handler (`step`, `job`, `found`)
takes one step per call: it counts (`CountMembers`), writes (`WriteAdd`, `WriteOpen`,
`WriteLeft`, `WriteUpdate`, `WriteDelete`), reads the roster again (`Reread`) and tells the
room (`Tell`), asks all servers for the user's sockets (`Fetch`) and moves each
(`Move`) - who goes is told first, who comes is moved first. A socket asks whether its
user is in the chat (`IsParticipant`) and then joins (`Join`). `Fail` and `NotAllowed` are
calls that reject and servers that die.

- `RoomIsMembers`: when all is done, the sockets in the room are those of the members -
  unless a join or a sweep overlapped with the opposite one, or failed (`torn`). Both do
  leave a socket of somebody who is out in the room until it reconnects, and a removal
  whose sweep failed is refused when it is tried again (`chats/service.ts:397`).
- `LeaverIsTold`: whoever is put out of a group hears of it before the room is closed
  to them.

Not claimed: the cap on the size of a group, which additions at once exceed; and that an
admin who is added again stays one (`addOrRestoreParticipant` writes MEMBER).
Left out: names and photos (`Attachments` has their files), and a member's own
preferences.

### ChatPage

Source: `features/chat/pages/ChatPage.tsx`. The router keeps the page and gives it another
chat, so the thread, the composer and the requests outlive the chat they belong to,
but for what the page starts over. `KeyIsOneMessage`: whatever is retried, one clientId is
never given to the server for two chats, texts or replies. `PageIsOneChat`: once a chat is
loaded, what the page shows and replies to is its own. Two cases are exempt because the
code does put the wrong thing there: a message that answers a request made in the chat
before (`upsertMessage` does not compare the chat), and a load that fails, after which
the thread and header of the chat before stay while what is sent goes to the new one. A
file is sent with a new clientId each time it is tried, so its retries are not retries
to the server; the model sends text.

### ChatList

Source: `features/chat/components/ChatSidebar.tsx`, `ChatItem.tsx`, and `markChatRead` and
`countUnread` of the server. The server counts the visible messages of other people behind
the read pointer (`Unread`); a badge starts from that number (`ReadCount`, `Counted`), goes up with
each `message:new` (`TakeNew`) and is cleared when its chat is opened (`OpenChat`), which also
asks for a mark. A mark finds the last visible message and then writes it (`FindLatest`,
`WriteMark`), so marks overtake each other. Chats are left, joined, forgotten ("delete for
me") and listed again. Three things change the server's number and not the badge:
`DeleteMessage` (`message:deleted` changes the preview only, `ChatSidebar.tsx:128`),
`ReadElsewhere` (one's own `message:read` is ignored, `:144`), and `MissedMessage` and
`SocketDrops` (nothing is fetched again when the socket is back).

`BadgeSettles`: when all has come in, a badge is what the server counts as unread - for the
chats that none of these befell since they were opened or counted (`wrong`):

- an unread message was deleted, the chat was read in another browser, or a message was
  missed with the socket down or out of the chat;
- a count was read, and then an event, a mark or one of the above got ahead of it; a message
  that the count already has is told afterwards;
- a message was told after it was read or deleted, or while the chat was being marked;
- a mark failed, or set the pointer back behind another;
- a message came for a chat that was out of the list and had been counted before
  (`countRequested` is not reset).

All of these are what the code does: the badge stays wrong until the chat is opened, or
the page loaded again. `ReadCount` reads the pointer and counts in one step, where the code
makes two queries: a mark in between is as one that got ahead of the count. Bound: one count of
a chat is under way at a time (`ForgetChat` waits for it).

### Push

Source: `lib/push.ts`, `NotificationsProvider.tsx`, `push/service.ts`, `settings/service.ts`.
The tabs of a browser share one subscription (`sub`); each has a queue of tasks that
set it up or remove it. The server keeps a row for each endpoint (`rows`) and drops those
that turn out dead (`SendOne`). `PushSettles`: when all is done, the browser is as the
tab that asked last wants it, and the server knows it - unless a task failed or was
broken off, two tabs were at work at once, or settings raced. Signing out clears the
token before the removal runs, so the row stays until a push to it fails; a switch in
one tab is not told to the other; a page that is closed during a removal leaves the
subscription.

### Run and bounds

`chats_rooms` has five scenarios: `group` and `direct` (two members, one socket, two
handlers, one failure - what a race between a join and a sweep, or between two handlers,
needs), `page` (two chats, four acts), `list` (one chat, since badges do not depend on each
other, with three messages and three moves: what people do and what fails) and `push` (two tabs, three acts, one failure). All is safety;
nothing is assumed to happen, and there is no deadlock check because people stop.

### Proofs

`ChatPageProofs` proves `KeyIsOneMessage` and `PageIsOneChat` for all chats, messages and
retries. For the first, the key a retry would use is one the server was given with this
chat, text and reply (`PendingIsKnown`): every action that changes one of them drops the key
or takes a new one. For the second (`PageInv`), whatever the page, its requests and the
server refer to is a stored message, and the chat of a stored message never changes; nothing
is replied to while a chat loads.

It also proves `RoomsHoldMembers` and `LeaversAreTold` of `Membership`: `RoomIsMembers` and
`LeaverIsTold`, for groups and direct chats, any people in them at first, and any number of
sockets and handlers. `RoomInv` says what still has to happen: a member's socket outside the
room is one that a handler is about to move in, a socket in the room of somebody who is out
one that a handler is about to move out (`WillBeIn`, `WillBeOut`), and of sockets that are not
torn the handlers at work agree on the side (`SidesAgree`). `TellInv` adds the order: who has
followed the chat is in the room until the handler that puts him out has told it
(`WillBeTold`, `WasTold`).

`BadgesSettle` proves `BadgeSettles` of `ChatList`, for any number of chats (`list` has one),
messages, lists, marks and counts under way. `ListInv` rests on the unread messages whose
events are not still to come (`KnownUnread`), which the badge is to show: while a count is not
overtaken, it is their number (`CountIsRight`), and so is the badge of a chat that has been
counted and is not being marked (`BadgeIsRight`); the chat on the screen has no badge (`ShownIsClear`), nor has one
that is being marked (`MarkedIsClear`), because the pointer, or what a mark found, covers all
the browser has been told of it (`Covered`). No event comes twice (`EventsOnce`).

`PushIsAsAsked` proves `PushSettles` of `Push`, for any number of tabs, users, tasks and
endpoints. `PushInv` has two halves. Of the tasks: only the first of a tab has begun, the
last is what the tab wants (`EndsAsAsked`), tabs other than the one that asked last have
none unless `mixed` says so, and the last task of all, once begun, is about the
subscription the browser has (`LastTask`); so that when it is done, the browser is as was
asked (`AtLast`). Of the setting, while nothing raced: what was read and not applied is
what the server has (`ReadIsKept`), one save at most is under way (`OneSave`), and one of
the tabs of a user is right about the switch, or is about to be (`OneIsRight`).
## Friends, their cache and their pages

Source: `friends/service.ts`, `repository.ts`, `cache.ts`, `redis/cache.ts`,
`schema/user/friends.prisma`; `features/friends/pages`, `DirectInfoModal.tsx`.

### Modules

- `CacheAside`: the cache several servers share. `Miss`, `Load`, `Store` are
  `cacheAside`; `Invalidate` what follows a write. `mode[s]` and `stale[s]` are the state
  of `makeCache` on a server: while Redis is down or an invalidation failed it
  remembers that something was skipped, and clears (`DeleteMatching`, `ClearDone`,
  `ClearFails`, `ClearAgain`) when the connection (`linked[s]`) is back. `owed[r]` are the
  keys a handler has still to invalidate.
- `Friends` extends it: `request` and `made` are the tables, a handler (`at`, `job`) checks,
  writes and then invalidates. There is one row of `FriendRequest` for a sender and a
  receiver, it is never deleted and never pending again.
- `FriendPages` extends that: a page (`page`, `loading`, `listed`, `waiting`) loads when it
  is opened, in up to three requests, is edited after its own actions, and offers what
  it thinks can be done (`Offers`). Its requests are handlers of `Friends`, beside those
  of everybody else.

### Properties

- `CacheIsFresh`: a cached list is what the tables say, unless a handler is about to
  invalidate it, the read that stored it was overtaken by the change, or the invalidation
  was skipped.
- `SkippedIsRemembered`: an entry that was not invalidated because Redis was out of
  reach is known to be wrong to the server that skipped it, until it has cleared.
- `CacheComesBack`: after an outage a server uses the cache again.
- `OfferedIsGood`: a page that has loaded and was not overtaken offers nothing the
  server refuses. The exceptions are what the code does: a removal (below); a request
  where there was one before - the row stays and `(senderId, receiverId)` is unique, so
  "You can send a new request later" does not come true (`friends/service.ts:107`); and a
  profile that looks at the newer of two crossed requests only (`users/service.ts:452`),
  which after that was cancelled offers "Add friend" while one's own is pending.
- `RemovedIsGone` does not hold (`people_removal`): the friends page removes a friend by
  the id of the user, and the server looks it up among the ids of friendships.

Also visible in the model: cancelling a request while it is being accepted overwrites
ACCEPTED although the friendship stays; a search under way when an "Add" is
answered overwrites `pendingIds`, and a search whose second request fails keeps the
old ones.

### Runs and bounds

`people_known` has five scenarios besides those of presence: `requests` (two people, two
handlers, nobody reading), `lists` and `suggestions` (one cached value, writes, reads and
accounts that go), `redis` (two servers whose connections break, two faults) and `pages`
(one of the two has a page open). Two handlers are what a read overtaken by a write needs;
a second server is needed for a skipped invalidation to matter.

`CacheComesBack` assumes that clears and the timer after a failed one go on
(`CacheFairness`), and the faults are bounded; nothing is assumed of people.

### Proofs

`PeopleProofs` proves, for any users, servers, handlers, keys and clears and any number of
faults:

- `CacheFresh` and `SkippedRemembered`, from one invariant (`FriendsInv`). `FillsAreTrue`: a
  read under way holds what the tables say, unless a write overtook it - the lemma
  `WroteKeeps` shows of every write that what it changes is in the keys the handler goes on to
  invalidate, or in those of an account's deletion that has still to read whose lists
  to invalidate. `ClearsWillReach`: a clear under way has still to delete whatever
  its server skipped, and a server that is clearing still needs the clear; so when
  `ClearDone` forgets, nothing is left to remember.
- `PagesImplementFriends`: whatever one user does on the pages, the servers do what
  `FriendsSpec` allows, so both theorems hold beside the pages.
- `OffersGood`, from `OffersInv`: what a page lists is what it has read, but for what was just
  done on it (`ListsAreTrue`); what was asked is what its handler works on
  (`AskedHere`); and of two people with one request, that one is the newest
  (`NewestIsKnown`).

`PagesAssumption` says that there is somebody besides the user of the pages;
`KeyAssumption` that the keys are those of the two lists. Only model-checked:
`CacheComesBack` (liveness).
## Accounts, rate limit, username field

### Account

Source: `auth/service.ts`, `users/service.ts`, `users/repository.ts`, `email/repository.ts`, the
jobs for deleted accounts and expired tokens, and the pages that call them.

One account. `token` is the row of `VerificationToken` of each type, `live` whether it has
expired, `inbox` what was mailed; `fails` and `lock` the two counters and their locks;
`deleted` is `deletedAt` as "young" within the recovery window and "over" after it. A
handler (`at`, `op`, `sec`, `seen`) takes one step per database call: issuing is
`DeleteAllOfType`, `CreateToken`, `Mail`; using is a look-up and a later write. `Die` is a
server that dies, `JobFails` a run of the job that does. Time is an adversary, except that
the window is longer than any handler runs (`WindowEnds` waits for `fresh`).

- `LimitsNearlyHold`: between two locks at most as many passwords or codes are tried as
  allowed and as many more as were being tried when the lock came. A second handler that
  found the last lock over resets the counter late (`resetLoginFailures`), or even the
  next lock; what it lifts is exempt.
- `UsedIsDead`: a link or code that has done its work is refused from then on. Two
  handlers that overlap may both use it: the property is about who comes after. The code of
  `deleteMe` is one of those.
- `RestoredIsSafe`: an account that is anonymized had its whole window and is not in use,
  unless its recovery was under way at the very end: `anonymizeAccount` does not look again.
- `ScrubbedInTheEnd`: a deleted account that nobody recovers is anonymized, although
  runs of the job fail.

Not modelled: what else a deletion touches (`AuthSessions` ends its sessions, `Friends` its
cached lists), the texts of mails. DeleteAccountDialog.tsx:95 says that deleting
"cannot be undone", which the recovery link undoes for 30 days.

### RateLimit

Source: `redis/rate-limit.ts`, `redis/lua.scripts.ts`, `redis/client.ts`. One bucket,
several servers; `ConsumeBucket` is the script with its rounding and its lifetime in whole
seconds, in parts of a token so that a tick refills a whole number. `LimitHolds`: however
many servers and requests, and whenever one begins to count, what passes is at most the
capacity and what time has refilled - while every request is put to the script. The first
requests of a server whose connection is not ready yet pass without it even where the
route fails closed, and a Redis that loses the key starts a full bucket; both are
exempt (`unmetered`). A script that is sent again after a reconnect may charge a request
twice (`Resent`).

### UsernameForm

Source: `AccountPage.tsx`, `SignupPage.tsx`, `checkUsername`. `NameIsVouched`: a name shown
as available, or that the sign-up went on with, is the one the server found free, unless a
check was under way for another name: its answer is taken for whatever is in the field.
Such an answer can also mark one's own name as taken, and `refreshUser` after a save or
a photo resets what was typed meanwhile. The field of the sign-up may be emptied.

### Run and bounds

`account_life` has seven scenarios, each with the operations its question needs: `password`,
`codes`, `links`, `deletion`, `guarded` (deletion with two-factor on), `bucket`, `form`. Two
handlers, two tries before a lock, four links and codes and one death: two handlers are a
race, the second try is the one that locks, and a third link can replace one that is in
use. The bucket holds two requests and a part of a third.

`ScrubbedInTheEnd` assumes that the job runs again and again on its interval and that its
database calls return (`AccountFairness`); its failures are bounded.

### Proofs

`AccountProofs` proves the three safety properties of `Account` for any limits and any
finite set of handlers, by an invariant each. `SecretInv`: secrets are numbered as they are
made, a handler past its look-up holds one, and one that has deleted the code goes on with a
secret that is not in the table - so what is spent cannot come back. `WindowInv`: whoever
still deletes the account began before the deletion and is outlived by the window, and once
it has closed nothing is left that restores the account unless it began before. `LimitInv`
counts: while a lock is on, the guesses made and those of the handlers still trying are
together at most the limit and one per handler; a counter without a lock has counted every
guess. It also proves `NameIsVouched` from `FormInv`: unless one was overtaken, the check
that is due or under way is for the name in the field.

Of `RateLimit` it proves `LimitHolds` and `RetryIsEnough` (from `PromiseKept`) - whoever waits as long as
Retry-After says is let through if nobody else was - for every capacity, cost, rate, second,
and number of servers and requests. `RateInv` adds to the types that a key lives until it
would be full again (`LivesLong`: so what expires is worth no less than the full bucket
that takes its place) and the balance of what passed and what is left against what time
refilled (`Balanced`). The rounding of the script enters through one lemma about `\div`.
## The client: tabs and typing

### TabSessions

Source: `lib/api/tokens.ts`, `lib/api/client.ts`, `lib/socket.ts`, `AuthProvider.tsx`. The tabs
of one browser share the cookie and the session hint; each has its access token and
one promise for a refresh under way (`refresh`, `want`), and with Web Locks only one tab at a
time refreshes. The server is what `AuthSessions` shows of it (`Rotate`, `Refuse`,
`Reused`). Sessions end elsewhere, access tokens expire, pages are loaded again in the
middle, requests and answers are lost.

A page that is loaded refreshes and then asks who the user is (`getMe`); when that fails, it
gives the token up, and so does `refreshUser` (`GetMeFails`; `AuthProvider.tsx:42`, `:64`). It counts
as a request that failed.

- `AliveIsNotKicked`: nobody is signed out of a session that is alive, unless a request was
  lost or failed, or a sign-in or sign-out crossed an answer about another session: the
  refresh controller clears the cookie on a passing database error, and the answer of a
  failed refresh may reach the browser after a new sign-in has set its cookie.
- `RequestSettles`: whatever becomes of the refresh a request waits for, it settles.
  Assumed is that requests are answered or fail, and that promises and locks go on
  (`TabFairness`).

### Typing

Source: `use-typing-indicator.ts`, the typing events of `websocket/connection.ts`. The server
passes on a start once in three seconds and asks first who is a member, so events
overtake each other. `TypingFades`: an indicator does not stay when its person is gone,
whether or not that was told, as "in case the matching stopped typing one never arrives"
(use-typing-indicator.ts:17) says. The property exempts `kept`, which is what the code
leaves: opening another chat clears the timers (:85) but keeps the state of the chat
before, and when that is opened again nothing drops its indicators.

### Run and bounds

`client_tabs` steps `TabSessions` (two tabs, two sessions, three events) or `Typing` (one
other person, two chats, three strokes, two visits). Two tabs are what a race for the
cookie needs.

### Proofs

`TabSessionsProofs` proves `AliveIsNotKicked` for any number of tabs, sessions and
events. While the browser has Web Locks, nothing was lost or crossed and the session
signed in to last is alive, at most one tab holds the lock (`OneHolds`), the newest token is
in the cookie or in the one answer that is on its way to it (`JarIsNewest`), and what
the tab with the lock presents is that token (`SentNewest`) - so it is not refused. A
logout that is answered after a later sign-in clears the cookie of that sign-in;
the invariant does not hold then, and `crossed` names it. `RequestSettles` and
`TypingFades` are only model-checked.
## What is proved, checked, and neither

Proved for all sizes: the theorems listed in `PROJECT.json`, from the assumptions
named in the modules (`ConstantsAssumption`, `CallsAssumption`, `DevicesAssumption`,
`PresenceAssumption`, `CacheAssumption`, `KeyAssumption`, `PagesAssumption`,
`MessagesAssumption`, `MembershipAssumption`, `RateAssumption`, `AccountAssumption`,
`FilesAssumption`, `TabAssumption`, `CandAssumption`, `SidebarAssumption`,
`PushAssumption`: sizes, that ids and markers differ, who owns what, and for
files that each is sent with one message). `ReuseCaused` is stated under `Timely`, and
`OrderlyDot` of `OrderlySpec`, as the runs check them.

Model-checked only, as liveness under fairness, which with ENABLED is beyond the prover:
`SocketsEventuallyDrop`, `RingingStops`, `GarbageGoes`, `GoneIsSwept`, `CacheComesBack`,
`ScrubbedInTheEnd`, `RequestSettles` and `TypingFades`. Every other property of a passing
run is stated by a theorem. The modules declare no
RECURSIVE operator. `FirstCallIsShared` has as hypotheses what the run has: two browsers of
two people, and one dialling.

Neither: whatever the module sections list as left out.

What would come next: a composition of `TabSessions` with `AuthSessions`, whose server it
repeats.
