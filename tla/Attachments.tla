----------------------------- MODULE Attachments -----------------------------
(***************************************************************************)
(* The files of one person: uploads/service.ts and uploads/repository.ts,  *)
(* the attachments of messages/service.ts sendMessage, the avatars of      *)
(* auth/service.ts register and users/service.ts uploadAvatar, the group   *)
(* photo of chats/service.ts updateChat, and jobs/orphan-attachments.ts    *)
(* under redis/lock.ts.                                                    *)
(*                                                                         *)
(* A file is an object in the bucket and, mostly, a row of Attachment; no  *)
(* transaction covers both.  One action per awaited call.                  *)
(***************************************************************************)
EXTENDS FiniteSets, Integers

CONSTANTS Upload,  \* keys under "<userId>/", of POST /uploads
          Photos,  \* those of them that the web client saves as a group photo
          Avatar,  \* keys under "avatars/"
          Message, \* the messages sent with files, each with its clientId
          FilesOf, \* attachmentIds of each message
          Req,     \* requests of the person being served at once
          Run,     \* runs of the orphan job, on any server
          Quota,   \* userQuotaBytes, in files
          Mishaps, \* bound: failing calls and servers that die
          None

ASSUME FilesAssumption ==
  /\ Photos \subseteq Upload /\ Upload \cap Avatar = {}
  /\ FilesOf \in [Message -> SUBSET (Upload \ Photos)]
  /\ \A m, n \in Message : m # n => FilesOf[m] \cap FilesOf[n] = {}
  /\ None \notin Upload \cup Avatar \cup Message \cup Run
  /\ Quota \in Nat /\ Mishaps \in Nat

Key == Upload \cup Avatar

VARIABLES
  fresh,   \* keys that have not been generated yet
  object,  \* keys with an object in the bucket
  rows,    \* keys with a row
  link,    \* Attachment.messageId
  old,     \* rows older than orphanGraceMs
  msg,     \* the message rows
  chat,    \* the group they are sent to exists
  photo,   \* Chat.avatar
  account, \* the person has signed up
  profile, \* UserProfile.avatar
  pc, req, \* the requests: next step; key, message and previous avatar
  lock,    \* who holds lock:jobs:orphan-attachments
  job,     \* the runs: next step, the rows old at its start, what was listed
  sent,    \* history: messages whose files were linked
  asked,   \* history: keys whose owner deleted them
  lost,    \* history: keys whose upload stopped half-way, or whose row went with a group
  mishaps

fileVars == <<fresh, object, rows, link, old>>
chatVars == <<chat, photo>>
userVars == <<msg, chatVars, account, profile>>
reqVars  == <<pc, req>>
jobVars  == <<lock, job>>
pastVars == <<sent, asked, lost, mishaps>>
vars == <<fileVars, userVars, reqVars, jobVars, pastVars>>

NoReq == [key |-> None, msg |-> None, prev |-> None]
NoRun == [at |-> "off", cut |-> {}, avatars |-> {}, list |-> {}, key |-> None]

Steps == {"idle", "store", "row", "check", "create", "link", "unstore", "unrow",
          "signupStore", "signupRow", "signupUser",
          "avatarStore", "avatarSet", "avatarDrop"}

RunSteps == {"off", "unlinked", "avatars", "live", "deleted", "object", "row"}

FilesInit(keys) ==
  /\ fresh = keys
  /\ object = {} /\ rows = {} /\ old = {}
  /\ link = [f \in Upload |-> None]
  /\ msg = [m \in Message |-> "none"]
  /\ chat = TRUE
  /\ photo = None
  /\ account = FALSE
  /\ profile = None
  /\ pc = [r \in Req |-> "idle"]
  /\ req = [r \in Req |-> NoReq]
  /\ lock = None
  /\ job = [j \in Run |-> NoRun]
  /\ sent = {} /\ asked = {} /\ lost = {}
  /\ mishaps = 0

Start(r, step, q) ==
  /\ pc[r] = "idle"
  /\ pc' = [pc EXCEPT ![r] = step]
  /\ req' = [req EXCEPT ![r] = q]

Go(r, from, to) ==
  /\ pc[r] = from
  /\ pc' = [pc EXCEPT ![r] = to]
  /\ UNCHANGED req

Answer(r, from) ==
  /\ pc[r] = from
  /\ pc' = [pc EXCEPT ![r] = "idle"]
  /\ req' = [req EXCEPT ![r] = NoReq]

\* A generated key is in use from then on.
Generate(k) == k \in fresh /\ fresh' = fresh \ {k}

DropRow(k) ==
  /\ rows' = rows \ {k}
  /\ old' = old \ {k}
  /\ link' = [f \in Upload |-> IF f = k THEN None ELSE link[f]]

(***************************************************************************)
(* POST /uploads and DELETE /uploads/:id.                                  *)
(***************************************************************************)
\* totalBytesForOwner, against the quota.
UploadStart(r, f) ==
  /\ Cardinality(rows \cap Upload) < Quota
  /\ Generate(f)
  /\ Start(r, "store", [NoReq EXCEPT !.key = f])
  /\ UNCHANGED <<object, rows, link, old, userVars, jobVars, pastVars>>

UploadStore(r) ==
  /\ Go(r, "store", "row")
  /\ object' = object \cup {req[r].key}
  /\ UNCHANGED <<fresh, rows, link, old, userVars, jobVars, pastVars>>

UploadRow(r) ==
  /\ Answer(r, "row")
  /\ rows' = rows \cup {req[r].key}
  /\ UNCHANGED <<fresh, object, link, old, userVars, jobVars, pastVars>>

DeleteStart(r, f) ==
  /\ f \in rows
  /\ Start(r, "unstore", [NoReq EXCEPT !.key = f])
  /\ asked' = asked \cup {f}
  /\ UNCHANGED <<fileVars, userVars, jobVars, sent, lost, mishaps>>

\* Mutant of DeleteObject: the row goes first, and with it the trace of the object.
DeleteObject_RowFirst(r) ==
  /\ Go(r, "unstore", "unrow")
  /\ DropRow(req[r].key)
  /\ UNCHANGED <<fresh, object, userVars, jobVars, pastVars>>

DeleteObject(r) ==
  /\ Go(r, "unstore", "unrow")
  /\ object' = object \ {req[r].key}
  /\ UNCHANGED <<fresh, rows, link, old, userVars, jobVars, pastVars>>

DeleteRow(r) ==
  /\ Answer(r, "unrow")
  /\ DropRow(req[r].key)
  /\ UNCHANGED <<fresh, object, userVars, jobVars, pastVars>>

(***************************************************************************)
(* sendMessage with attachments, also as the retry of one; deleteMessage.  *)
(***************************************************************************)
Young(m) == FilesOf[m] \cap old = {}

\* findByClientId finds nothing.  Nobody sends a file that is a day old
\* (jobs/config.ts, orphanGraceMs).
SendStart(r, m) ==
  /\ FilesOf[m] \subseteq rows /\ Young(m)
  /\ chat /\ msg[m] = "none"
  /\ Start(r, "check", [NoReq EXCEPT !.msg = m])
  /\ UNCHANGED <<fileVars, userVars, jobVars, pastVars>>

Unlinked(m) == \A f \in FilesOf[m] : f \in rows /\ link[f] = None

\* loadOwnedUnlinkedAttachments.
SendCheck(r) ==
  /\ \/ Go(r, "check", "create") /\ Unlinked(req[r].msg)
     \/ Answer(r, "check") /\ ~Unlinked(req[r].msg)
  /\ UNCHANGED <<fileVars, userVars, jobVars, pastVars>>

\* createMessageRow: a second insert with the clientId returns the first's row, and
\* none succeeds without a chat.
SendCreate(r) ==
  /\ \/ Go(r, "create", "link") /\ chat
        /\ msg' = [msg EXCEPT ![req[r].msg] = IF @ = "none" THEN "live" ELSE @]
     \/ Answer(r, "create") /\ ~chat /\ UNCHANGED msg
  /\ UNCHANGED <<fileVars, chatVars, account, profile, jobVars, pastVars>>

\* linkManyToMessage: whatever rows are still there, if the message is.
SendLink(r) ==
  /\ Answer(r, "link")
  /\ link' = [f \in Upload |-> IF f \in FilesOf[req[r].msg] \cap rows /\ chat
                                 THEN req[r].msg ELSE link[f]]
  /\ sent' = sent \cup {req[r].msg}
  /\ UNCHANGED <<fresh, object, rows, old, userVars, jobVars, asked, lost, mishaps>>

DeleteMessage(m) ==
  /\ msg[m] = "live"
  /\ msg' = [msg EXCEPT ![m] = "deleted"]
  /\ UNCHANGED <<fileVars, chatVars, account, profile, reqVars, jobVars, pastVars>>

\* deleteById of a group: messages and attachment rows go by cascade, and nobody
\* looks after their objects.
DeleteChat ==
  /\ chat
  /\ chat' = FALSE
  /\ photo' = None
  /\ msg' = [m \in Message |-> "none"]
  /\ LET linked == {f \in Upload : link[f] # None} IN
       /\ rows' = rows \ linked
       /\ old' = old \ linked
       /\ lost' = lost \cup linked
  /\ link' = [f \in Upload |-> None]
  /\ UNCHANGED <<fresh, object, account, profile, reqVars, jobVars, sent, asked, mishaps>>

\* uploadGroupAvatar, then updateChat or createGroupChat with its key.
SetPhoto(f) ==
  /\ chat
  /\ f \in rows \ asked
  /\ f \notin old
  /\ photo' = f
  /\ UNCHANGED <<fileVars, msg, chat, account, profile, reqVars, jobVars, pastVars>>

(***************************************************************************)
(* Avatars.  register has a row for its avatar, uploadAvatar has none.     *)
(***************************************************************************)
SignupStart(r, k) ==
  /\ ~account
  /\ Generate(k)
  /\ Start(r, "signupStore", [NoReq EXCEPT !.key = k])
  /\ UNCHANGED <<object, rows, link, old, userVars, jobVars, pastVars>>

SignupStore(r) ==
  /\ Go(r, "signupStore", "signupRow")
  /\ object' = object \cup {req[r].key}
  /\ UNCHANGED <<fresh, rows, link, old, userVars, jobVars, pastVars>>

SignupRow(r) ==
  /\ Go(r, "signupRow", "signupUser")
  /\ rows' = rows \cup {req[r].key}
  /\ UNCHANGED <<fresh, object, link, old, userVars, jobVars, pastVars>>

\* The email is unique: of two registrations, one creates the user.
SignupUser(r) ==
  /\ Answer(r, "signupUser")
  /\ account' = TRUE
  /\ profile' = IF account THEN profile ELSE req[r].key
  /\ UNCHANGED <<fileVars, msg, chatVars, jobVars, pastVars>>

\* findAvatarKey is read before anything is stored.
AvatarStart(r, k) ==
  /\ account
  /\ Generate(k)
  /\ Start(r, "avatarStore", [NoReq EXCEPT !.key = k, !.prev = profile])
  /\ UNCHANGED <<object, rows, link, old, userVars, jobVars, pastVars>>

AvatarStore(r) ==
  /\ Go(r, "avatarStore", "avatarSet")
  /\ object' = object \cup {req[r].key}
  /\ UNCHANGED <<fresh, rows, link, old, userVars, jobVars, pastVars>>

AvatarSet(r) ==
  /\ Go(r, "avatarSet", "avatarDrop")
  /\ profile' = req[r].key
  /\ UNCHANGED <<fileVars, msg, chatVars, account, jobVars, pastVars>>

AvatarDrop(r) ==
  /\ Answer(r, "avatarDrop")
  /\ object' = object \ {req[r].prev}
  /\ UNCHANGED <<fresh, rows, link, old, userVars, jobVars, pastVars>>

\* updateAvatar: a URL that is none of our keys (assumed of clients: the code takes any
\* string, and a key given here would be removed as the previous one of the next upload).
AvatarUrl ==
  /\ profile # None
  /\ profile' = None
  /\ UNCHANGED <<fileVars, msg, chatVars, account, reqVars, jobVars, pastVars>>

\* A call rejects, or the server dies.  Before storing, nothing has happened.
Stop(r) ==
  /\ mishaps < Mishaps
  /\ mishaps' = mishaps + 1
  /\ \/ pc[r] \in {"row", "signupRow", "avatarSet", "avatarDrop"}
        /\ lost' = lost \cup ({req[r].key, req[r].prev} \ {None})
     \/ pc[r] \in {"create", "link", "unstore", "unrow", "signupUser"}
        /\ UNCHANGED lost
  /\ Answer(r, pc[r])
  /\ UNCHANGED <<fileVars, userVars, jobVars, sent, asked>>

\* resolveAvatar logs what it catches and register goes on without an avatar.
SignupWithout(r) ==
  /\ mishaps < Mishaps
  /\ mishaps' = mishaps + 1
  /\ pc[r] \in {"signupStore", "signupRow"}
  /\ pc' = [pc EXCEPT ![r] = "signupUser"]
  /\ req' = [req EXCEPT ![r].key = None]
  /\ lost' = IF pc[r] = "signupRow" THEN lost \cup {req[r].key} ELSE lost
  /\ UNCHANGED <<fileVars, userVars, jobVars, sent, asked>>

(***************************************************************************)
(* The orphan job: runWithLock, cleanupOrphans.                            *)
(***************************************************************************)
SetRun(j, run) == job' = [job EXCEPT ![j] = run]

JobStart(j) ==
  /\ job[j].at = "off"
  /\ lock = None
  /\ lock' = j
  /\ SetRun(j, [NoRun EXCEPT !.at = "unlinked", !.cut = old])
  /\ UNCHANGED <<fileVars, userVars, reqVars, pastVars>>

\* Mutant of ListUnlinked: no grace for what is being sent.
ListUnlinked_NoGrace(j) ==
  /\ job[j].at = "unlinked"
  /\ SetRun(j, [job[j] EXCEPT !.at = "avatars",
                              !.list = {f \in rows \cap Upload : link[f] = None}])
  /\ UNCHANGED <<fileVars, userVars, reqVars, lock, pastVars>>

\* findUnlinkedUploads.
ListUnlinked(j) ==
  /\ job[j].at = "unlinked"
  /\ SetRun(j, [job[j] EXCEPT !.at = "avatars",
                              !.list = {f \in job[j].cut \cap rows \cap Upload :
                                          link[f] = None}])
  /\ UNCHANGED <<fileVars, userVars, reqVars, lock, pastVars>>

\* findAvatarAttachments.
ListAvatars(j) ==
  /\ job[j].at = "avatars"
  /\ SetRun(j, [job[j] EXCEPT !.at = "live",
                              !.avatars = job[j].cut \cap rows \cap Avatar])
  /\ UNCHANGED <<fileVars, userVars, reqVars, lock, pastVars>>

\* Mutant of ListLive: every old avatar row counts as replaced.
ListLive_None(j) ==
  /\ job[j].at = "live"
  /\ SetRun(j, [job[j] EXCEPT !.at = "deleted", !.avatars = {},
                              !.list = @ \cup job[j].avatars])
  /\ UNCHANGED <<fileVars, userVars, reqVars, lock, pastVars>>

\* findLiveAvatarKeys.
ListLive(j) ==
  /\ job[j].at = "live"
  /\ SetRun(j, [job[j] EXCEPT !.at = "deleted", !.avatars = {},
                              !.list = @ \cup (job[j].avatars \ {profile})])
  /\ UNCHANGED <<fileVars, userVars, reqVars, lock, pastVars>>

\* Mutant of ListDeleted: files of deleted messages are left to the other list.
ListDeleted_Never(j) ==
  /\ job[j].at = "deleted"
  /\ SetRun(j, [job[j] EXCEPT !.at = "object", !.cut = {}])
  /\ UNCHANGED <<fileVars, userVars, reqVars, lock, pastVars>>

\* findDeletedMessageAttachments, of any age.
ListDeleted(j) ==
  /\ job[j].at = "deleted"
  /\ SetRun(j, [job[j] EXCEPT !.at = "object", !.cut = {},
                              !.list = @ \cup {f \in rows \cap Upload :
                                  link[f] # None /\ msg[link[f]] = "deleted"}])
  /\ UNCHANGED <<fileVars, userVars, reqVars, lock, pastVars>>

\* A failing storage leaves the row for the next run.
CleanObject(j, k) ==
  /\ job[j].at = "object" /\ k \in job[j].list
  /\ \/ /\ object' = object \ {k}
        /\ SetRun(j, [job[j] EXCEPT !.at = "row", !.list = @ \ {k}, !.key = k])
        /\ UNCHANGED mishaps
     \/ /\ mishaps < Mishaps
        /\ mishaps' = mishaps + 1
        /\ SetRun(j, [job[j] EXCEPT !.list = @ \ {k}])
        /\ UNCHANGED object
  /\ UNCHANGED <<fresh, rows, link, old, userVars, reqVars, lock, sent, asked, lost>>

\* The row may be gone already (P2025).
CleanRow(j) ==
  /\ job[j].at = "row"
  /\ DropRow(job[j].key)
  /\ SetRun(j, [job[j] EXCEPT !.at = "object", !.key = None])
  /\ UNCHANGED <<fresh, object, userVars, reqVars, lock, pastVars>>

\* The lock is released by the run that still owns it.
Released(j) == lock' = IF lock = j THEN None ELSE lock

JobEnds(j) ==
  /\ job[j].at = "object" /\ job[j].list = {}
  /\ SetRun(j, NoRun)
  /\ Released(j)
  /\ UNCHANGED <<fileVars, userVars, reqVars, pastVars>>

\* The run throws, or its server dies and leaves the lock to its TTL.
JobFails(j) ==
  /\ job[j].at # "off"
  /\ mishaps < Mishaps
  /\ mishaps' = mishaps + 1
  /\ SetRun(j, NoRun)
  /\ Released(j) \/ UNCHANGED lock
  /\ UNCHANGED <<fileVars, userVars, reqVars, sent, asked, lost>>

\* orphanLockTtlMs passes; a run that is still at work is not told.
LockExpires ==
  /\ lock # None
  /\ lock' = None
  /\ UNCHANGED <<fileVars, userVars, reqVars, job, pastVars>>

\* A day passes over a row, and with it every request that was using the file.
Age(k) ==
  /\ k \in rows \ old
  /\ \A r \in Req : req[r].key # k
                    /\ (req[r].msg # None => k \notin FilesOf[req[r].msg])
  /\ old' = old \cup {k}
  /\ UNCHANGED <<fresh, object, rows, link, userVars, reqVars, jobVars, pastVars>>

UploadSteps(r) == UploadStore(r) \/ UploadRow(r) \/ DeleteObject(r) \/ DeleteRow(r)
SendSteps(r)   == SendCheck(r) \/ SendCreate(r) \/ SendLink(r)
AvatarSteps(r) ==
  SignupStore(r) \/ SignupRow(r) \/ SignupUser(r)
    \/ AvatarStore(r) \/ AvatarSet(r) \/ AvatarDrop(r)

JobSteps(j) ==
  \/ ListUnlinked(j) \/ ListAvatars(j) \/ ListLive(j) \/ ListDeleted(j)
  \/ \E k \in job[j].list : CleanObject(j, k)
  \/ CleanRow(j) \/ JobEnds(j)

FilesNext ==
  \/ \E r \in Req :
       \/ \E f \in Upload : UploadStart(r, f) \/ DeleteStart(r, f)
       \/ \E m \in Message : SendStart(r, m)
       \/ \E k \in Avatar : SignupStart(r, k) \/ AvatarStart(r, k)
       \/ UploadSteps(r) \/ SendSteps(r) \/ AvatarSteps(r)
       \/ Stop(r) \/ SignupWithout(r)
  \/ \E m \in Message : DeleteMessage(m)
  \/ \E f \in Photos : SetPhoto(f)
  \/ DeleteChat \/ AvatarUrl
  \/ \E j \in Run : JobStart(j) \/ JobSteps(j) \/ JobFails(j)
  \/ LockExpires
  \/ \E k \in Key : Age(k)

FilesSpec == FilesInit(Key) /\ [][FilesNext]_vars

\* The job is started every hour, one that runs goes on, and a lock that nobody
\* releases runs out.
FilesFairness ==
  /\ WF_vars(\E j \in Run : JobSteps(j))
  /\ WF_vars(\E j \in Run : JobStart(j))
  /\ WF_vars(LockExpires)

FairFilesSpec == FilesSpec /\ FilesFairness

(***************************************************************************)
(* Properties.                                                             *)
(***************************************************************************)
\* The files of a live message can be fetched, unless its owner deleted the file:
\* whatever runs of the job overlap with its send, its retry and each other
\* (sendMessage, cleanupOrphans, runWithLock).  And the avatar of the profile is in the
\* bucket, whatever uploads race and whichever rows the job finds replaced
\* (uploadAvatar, findLiveAvatarKeys).
InUseIsKept ==
  /\ \A m \in sent : msg[m] = "live" =>
       \A f \in FilesOf[m] \ asked : link[f] = m /\ f \in object
  /\ profile # None => profile \in object

\* No object is forgotten: one without a row belongs to an upload that is about
\* to write it, or that stopped there, or went with its group (upload, delete,
\* cleanupOrphans).
NoForgottenObject ==
  \A f \in Upload \cap object :
    f \in rows \cup lost \/ \E r \in Req : pc[r] = "row" /\ req[r].key = f

\* Files that were never sent, and files of deleted messages.
Garbage ==
  {f \in Upload \cap rows :
     IF link[f] = None THEN f \in old ELSE msg[link[f]] = "deleted"}

\* Whatever becomes garbage goes: again and again there is none (cleanupOrphans).
GarbageGoes == []<>(Garbage = {})

\* "removes what nothing references any more" (FEATURES.md:100).
GroupPhotoKept == photo # None => photo \in object \cup asked
=============================================================================
