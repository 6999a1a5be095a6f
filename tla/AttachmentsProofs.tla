-------------------------- MODULE AttachmentsProofs --------------------------
(***************************************************************************)
(* Proofs about Attachments: nothing in use is deleted and no object is    *)
(* forgotten, for any files and messages and any number of requests and of *)
(* runs of the job that overlap.                                           *)
(***************************************************************************)
EXTENDS Attachments, TLAPS

ReqType == [key : Key \cup {None}, msg : Message \cup {None}, prev : Avatar \cup {None}]

RunType == [at : RunSteps, cut : SUBSET Key, avatars : SUBSET Avatar,
            list : SUBSET Key, key : Key \cup {None}]

FilesTypes ==
  /\ fresh \subseteq Key /\ object \subseteq Key /\ rows \subseteq Key /\ old \subseteq rows
  /\ link \in [Upload -> Message \cup {None}]
  /\ msg \in [Message -> {"none", "live", "deleted"}] /\ chat \in BOOLEAN
  /\ profile \in Avatar \cup {None}
  /\ pc \in [Req -> Steps]
  /\ req \in [Req -> ReqType]
  /\ job \in [Run -> RunType]
  /\ asked \subseteq Upload /\ sent \subseteq Message

\* What a request holds at each of its steps.
HoldsAt(r) ==
  /\ pc[r] \in {"store", "row", "unstore", "unrow"} => req[r].key \in Upload
  /\ pc[r] \in {"signupStore", "signupRow", "avatarStore", "avatarSet"} => req[r].key \in Avatar
  /\ pc[r] = "signupUser" => req[r].key \in Avatar \cup {None}
  /\ pc[r] \in {"check", "create", "link"} <=> req[r].msg # None
  /\ pc[r] \in {"unstore", "unrow"} => req[r].key \in asked
  /\ pc[r] = "unrow" => req[r].key \notin object
  /\ pc[r] = "avatarDrop" => req[r].prev = None \/ req[r].prev # profile

Holds == \A r \in Req : HoldsAt(r)

\* A key that is being used for the first time, or was not yet.
Making(r) ==
  /\ pc[r] \in {"store", "row", "signupStore", "signupRow", "signupUser",
                "avatarStore", "avatarSet"}
  /\ req[r].key # None

Listed(j) == job[j].list \cup {job[j].key}
Named(j)  == job[j].cut \cup job[j].avatars \cup Listed(j)

NotInUse(k) ==
  /\ k \notin old \cup asked /\ k # profile
  /\ \A q \in Req : req[q].prev # k
  /\ \A j \in Run : k \notin Named(j)

FreshIsNew ==
  \A k \in fresh : /\ NotInUse(k) /\ k \notin object \cup rows
                   /\ \A q \in Req : req[q].key # k

MadeIsNew ==
  \A r \in Req : Making(r) =>
    /\ NotInUse(req[r].key)
    /\ \A q \in Req \ {r} : req[q].key # req[r].key
    /\ pc[r] # "signupUser" => req[r].key \notin rows
    /\ pc[r] \in {"row", "signupRow", "signupUser", "avatarSet"} => req[r].key \in object

\* A file is linked to a message it was sent with, which was created and is in the chat.
Links ==
  /\ \A f \in Upload : link[f] # None =>
       f \in rows /\ f \in FilesOf[link[f]] /\ msg[link[f]] # "none"
  /\ \A m \in Message : msg[m] # "none" => chat
  /\ \A m \in sent : chat => msg[m] # "none"
  /\ \A r \in Req : pc[r] = "link" /\ chat => msg[req[r].msg] # "none"

\* What a run has listed is a day old, or of a deleted message, or has no row by now; and
\* the profile has none of it.
Dead(f) == f \in old \/ (link[f] # None /\ msg[link[f]] = "deleted")

Lists ==
  \A j \in Run :
    /\ \A f \in Upload \cap rows : f \in job[j].cut => f \in old
    /\ \A f \in Upload \cap rows : f \in Listed(j) =>
         Dead(f) /\ (link[f] # None => msg[link[f]] = "deleted")
    /\ job[j].key \notin object
    /\ profile \in Listed(j) => profile = None

\* A file that is being sent is young, and no run has it.
Sends ==
  \A r \in Req : \A f \in Upload : req[r].msg # None /\ f \in FilesOf[req[r].msg] =>
    /\ f \notin old
    /\ chat /\ msg[req[r].msg] # "deleted" =>
         /\ \A j \in Run : f \notin Named(j)
         /\ f \in asked \/ f \in rows

RowsHaveObjects == \A f \in Upload \cap rows : f \in object \cup asked \/ Dead(f)

FilesInv ==
  /\ FilesTypes /\ Holds /\ FreshIsNew /\ MadeIsNew /\ Links /\ Lists /\ Sends
  /\ RowsHaveObjects /\ InUseIsKept /\ NoForgottenObject

\* The shapes of requests and runs.
LEMMA NoReqTyped == NoReq \in ReqType
  BY DEF ReqType, NoReq

LEMMA NoRunTyped == NoRun \in RunType
  BY DEF RunType, NoRun, RunSteps

LEMMA ReqChanged ==
  ASSUME NEW q \in ReqType, NEW k \in Key \cup {None}, NEW p \in Avatar \cup {None}
  PROVE  [q EXCEPT !.key = k, !.prev = p] \in ReqType
  BY DEF ReqType

LEMMA RunChanged ==
  ASSUME NEW run \in RunType, NEW s \in RunSteps, NEW C \in SUBSET Key,
         NEW A \in SUBSET Avatar, NEW L \in SUBSET Key, NEW k \in Key \cup {None}
  PROVE  /\ [run EXCEPT !.at = s, !.cut = C] \in RunType
         /\ [run EXCEPT !.at = s, !.list = L] \in RunType
         /\ [run EXCEPT !.at = s, !.avatars = A] \in RunType
         /\ [run EXCEPT !.at = s, !.avatars = A, !.list = L] \in RunType
         /\ [run EXCEPT !.at = s, !.cut = C, !.list = L] \in RunType
         /\ [run EXCEPT !.at = s, !.key = k] \in RunType
         /\ [run EXCEPT !.at = s, !.list = L, !.key = k] \in RunType
         /\ [run EXCEPT !.list = L] \in RunType
  BY DEF RunType

LEMMA JobTyped ==
  ASSUME FilesTypes, NEW j \in Run, NEW run \in RunType, SetRun(j, run)
  PROVE  job' \in [Run -> RunType]
  BY DEF FilesTypes, SetRun, RunType

LEMMA RunIsTyped == ASSUME FilesTypes, NEW j \in Run
  PROVE /\ job[j] \in RunType /\ job[j].list \in SUBSET Key
        /\ job[j].cut \in SUBSET Key /\ job[j].avatars \in SUBSET Avatar
  BY DEF FilesTypes, RunType

(***************************************************************************)
(* Uploads and deletions.                                                  *)
(***************************************************************************)
LEMMA UploadStartKeeps ==
  ASSUME FilesInv, NEW r \in Req, NEW f \in Upload, UploadStart(r, f)
  PROVE  FilesInv'
  <1> USE FilesAssumption DEF FilesInv
  <1>1. /\ FilesTypes' /\ Links' /\ Lists'
        /\ Sends' /\ RowsHaveObjects' /\ InUseIsKept' /\ NoForgottenObject'
    BY DEF UploadStart, Generate, Start, NoReq, userVars, jobVars, pastVars, chatVars,
        FilesTypes, ReqType, RunType, Key, Steps, RunSteps, Links, Lists, Listed, Dead,
        Sends, Named, RowsHaveObjects, InUseIsKept, NoForgottenObject
  <1>2. Holds'
    BY DEF UploadStart, Generate, Start, NoReq, userVars, jobVars, pastVars, chatVars,
        Holds, HoldsAt, FilesTypes, ReqType, RunType, Key
  <1>3. FreshIsNew'
    BY DEF UploadStart, Generate, Start, NoReq, userVars, jobVars, pastVars, chatVars,
        FreshIsNew, NotInUse, Named, Listed, FilesTypes, ReqType, RunType, Key
  <1>4. MadeIsNew'
    BY DEF UploadStart, Generate, Start, NoReq, userVars, jobVars, pastVars, chatVars,
        MadeIsNew, Making, NotInUse, Named, Listed, FilesTypes, ReqType, RunType, Key,
        Holds, HoldsAt, FreshIsNew
  <1> QED BY <1>1, <1>2, <1>3, <1>4

LEMMA UploadStoreKeeps == ASSUME FilesInv, NEW r \in Req, UploadStore(r) PROVE FilesInv'
  <1> USE FilesAssumption DEF FilesInv
  <1>1. /\ FreshIsNew' /\ MadeIsNew' /\ Links'
        /\ Sends' /\ RowsHaveObjects' /\ InUseIsKept'
    BY DEF UploadStore, Go, userVars, jobVars, pastVars, chatVars, FreshIsNew, NotInUse,
        Named, Listed, MadeIsNew, Making, Links, Sends, RowsHaveObjects, Dead, InUseIsKept
  <1>2. NoForgottenObject'
    BY DEF UploadStore, Go, userVars, jobVars, pastVars, chatVars, NoForgottenObject,
        FilesTypes, ReqType, RunType, Key
  <1>3. FilesTypes'
    BY DEF UploadStore, Go, userVars, jobVars, pastVars, chatVars, FilesTypes, ReqType,
        RunType, Key, Steps, RunSteps, Holds, HoldsAt
  <1>4. Holds'
    BY DEF UploadStore, Go, userVars, jobVars, pastVars, chatVars, Holds, HoldsAt,
        FilesTypes, ReqType, RunType, Key, MadeIsNew, Making, NotInUse, Named, Listed,
        FreshIsNew
  <1>5. Lists'
    BY DEF UploadStore, Go, userVars, jobVars, pastVars, chatVars, Lists, Listed, Dead,
        FilesTypes, ReqType, RunType, Key, Holds, HoldsAt, MadeIsNew, Making, NotInUse,
        Named, FreshIsNew
  <1> QED BY <1>1, <1>2, <1>3, <1>4, <1>5

LEMMA UploadRowKeeps == ASSUME FilesInv, NEW r \in Req, UploadRow(r) PROVE FilesInv'
  <1> USE FilesAssumption DEF FilesInv
  <1>1. Links' /\ Sends' /\ InUseIsKept' /\ NoForgottenObject'
    BY DEF UploadRow, Answer, NoReq, userVars, jobVars, pastVars, chatVars, Links, Sends,
        Named, Listed, InUseIsKept, NoForgottenObject
  <1>2. Holds'
    BY DEF UploadRow, Answer, NoReq, userVars, jobVars, pastVars, chatVars, Holds, HoldsAt,
        FilesTypes, ReqType, RunType, Key
  <1>3. FreshIsNew'
    BY DEF UploadRow, Answer, NoReq, userVars, jobVars, pastVars, chatVars, FreshIsNew,
        NotInUse, Named, Listed, FilesTypes, ReqType, RunType, Key
  <1>4. MadeIsNew'
    BY DEF UploadRow, Answer, NoReq, userVars, jobVars, pastVars, chatVars, MadeIsNew,
        Making, NotInUse, Named, Listed, FilesTypes, ReqType, RunType, Key
  <1>5. FilesTypes'
    BY DEF UploadRow, Answer, NoReq, userVars, jobVars, pastVars, chatVars, FilesTypes,
        ReqType, RunType, Key, Steps, RunSteps, Holds, HoldsAt
  <1>6. Lists'
    BY DEF UploadRow, Answer, NoReq, userVars, jobVars, pastVars, chatVars, Lists, Listed,
        Dead, FilesTypes, ReqType, RunType, Key, Holds, HoldsAt, MadeIsNew, Making,
        NotInUse, Named, FreshIsNew
  <1>7. RowsHaveObjects'
    BY DEF UploadRow, Answer, NoReq, userVars, jobVars, pastVars, chatVars, RowsHaveObjects,
        Dead, FilesTypes, ReqType, RunType, Key, Holds, HoldsAt, MadeIsNew, Making,
        NotInUse, Named, Listed, FreshIsNew
  <1> QED BY <1>1, <1>2, <1>3, <1>4, <1>5, <1>6, <1>7

LEMMA DeleteStartKeeps ==
  ASSUME FilesInv, NEW r \in Req, NEW f \in Upload, DeleteStart(r, f)
  PROVE  FilesInv'
  <1> USE FilesAssumption DEF FilesInv
  <1>1. /\ FilesTypes' /\ Links' /\ Lists'
        /\ Sends' /\ RowsHaveObjects' /\ InUseIsKept' /\ NoForgottenObject'
    BY DEF DeleteStart, Start, NoReq, fileVars, userVars, jobVars, chatVars, FilesTypes,
        ReqType, RunType, Key, Steps, RunSteps, Links, Lists, Listed, Dead, Sends, Named,
        RowsHaveObjects, InUseIsKept, NoForgottenObject
  <1>2. Holds'
    BY DEF DeleteStart, Start, NoReq, fileVars, userVars, jobVars, chatVars, Holds, HoldsAt,
        FilesTypes, ReqType, RunType, Key
  <1>3. FreshIsNew'
    BY DEF DeleteStart, Start, NoReq, fileVars, userVars, jobVars, chatVars, FreshIsNew,
        NotInUse, Named, Listed, FilesTypes, ReqType, RunType, Key
  <1>4. MadeIsNew'
    BY DEF DeleteStart, Start, NoReq, fileVars, userVars, jobVars, chatVars, MadeIsNew,
        Making, NotInUse, Named, Listed, FilesTypes, ReqType, RunType, Key, Holds, HoldsAt
  <1> QED BY <1>1, <1>2, <1>3, <1>4

LEMMA DeleteObjectKeeps == ASSUME FilesInv, NEW r \in Req, DeleteObject(r) PROVE FilesInv'
  <1> USE FilesAssumption DEF FilesInv
  <1>1. /\ FilesTypes' /\ Holds' /\ FreshIsNew' /\ MadeIsNew'
        /\ Links' /\ Lists' /\ Sends' /\ NoForgottenObject'
    BY DEF DeleteObject, Go, userVars, jobVars, pastVars, chatVars, FilesTypes, ReqType,
        RunType, Key, Steps, RunSteps, Holds, HoldsAt, FreshIsNew, NotInUse, Named, Listed,
        MadeIsNew, Making, Links, Lists, Dead, Sends, NoForgottenObject
  <1>2. RowsHaveObjects'
    BY DEF DeleteObject, Go, userVars, jobVars, pastVars, chatVars, RowsHaveObjects, Dead,
        FilesTypes, ReqType, RunType, Key, Holds, HoldsAt
  <1>3. InUseIsKept'
    BY DEF DeleteObject, Go, userVars, jobVars, pastVars, chatVars, InUseIsKept, FilesTypes,
        ReqType, RunType, Key, Holds, HoldsAt
  <1> QED BY <1>1, <1>2, <1>3

LEMMA DeleteRowKeeps == ASSUME FilesInv, NEW r \in Req, DeleteRow(r) PROVE FilesInv'
  <1> USE FilesAssumption DEF FilesInv
  <1>1. FilesTypes' /\ MadeIsNew' /\ Links' /\ Lists' /\ RowsHaveObjects'
    BY DEF DeleteRow, Answer, NoReq, DropRow, userVars, jobVars, pastVars, chatVars,
        FilesTypes, ReqType, RunType, Key, Steps, RunSteps, MadeIsNew, Making, NotInUse,
        Named, Listed, Links, Lists, Dead, RowsHaveObjects
  <1>2. Holds'
    BY DEF DeleteRow, Answer, NoReq, DropRow, userVars, jobVars, pastVars, chatVars, Holds,
        HoldsAt, FilesTypes, ReqType, RunType, Key
  <1>3. FreshIsNew'
    BY DEF DeleteRow, Answer, NoReq, DropRow, userVars, jobVars, pastVars, chatVars,
        FreshIsNew, NotInUse, Named, Listed, FilesTypes, ReqType, RunType, Key
  <1>4. Sends'
    BY DEF DeleteRow, Answer, NoReq, DropRow, userVars, jobVars, pastVars, chatVars, Sends,
        Named, Listed, FilesTypes, ReqType, RunType, Key, Holds, HoldsAt
  <1>5. InUseIsKept'
    BY DEF DeleteRow, Answer, NoReq, DropRow, userVars, jobVars, pastVars, chatVars,
        InUseIsKept, FilesTypes, ReqType, RunType, Key, Holds, HoldsAt
  <1>6. NoForgottenObject'
    BY DEF DeleteRow, Answer, NoReq, DropRow, userVars, jobVars, pastVars, chatVars,
        NoForgottenObject, FilesTypes, ReqType, RunType, Key, Holds, HoldsAt
  <1> QED BY <1>1, <1>2, <1>3, <1>4, <1>5, <1>6

(***************************************************************************)
(* Messages.                                                               *)
(***************************************************************************)
LEMMA SendStartKeeps ==
  ASSUME FilesInv, NEW r \in Req, NEW m \in Message, SendStart(r, m)
  PROVE  FilesInv'
  <1> USE FilesAssumption DEF FilesInv
  <1>1. /\ FilesTypes' /\ MadeIsNew' /\ Links'
        /\ Lists' /\ RowsHaveObjects' /\ InUseIsKept' /\ NoForgottenObject'
    BY DEF SendStart, Start, NoReq, Young, fileVars, userVars, jobVars, pastVars, chatVars,
        FilesTypes, ReqType, RunType, Key, Steps, RunSteps, MadeIsNew, Making, NotInUse,
        Named, Listed, Links, Lists, Dead, RowsHaveObjects, InUseIsKept, NoForgottenObject
  <1>2. Holds'
    BY DEF SendStart, Start, NoReq, Young, fileVars, userVars, jobVars, pastVars, chatVars,
        Holds, HoldsAt, FilesTypes, ReqType, RunType, Key
  <1>3. FreshIsNew'
    BY DEF SendStart, Start, NoReq, Young, fileVars, userVars, jobVars, pastVars, chatVars,
        FreshIsNew, NotInUse, Named, Listed, FilesTypes, ReqType, RunType, Key
  <1>4. Sends'
    BY DEF SendStart, Start, NoReq, Young, fileVars, userVars, jobVars, pastVars, chatVars,
        Sends, Named, Listed, FilesTypes, ReqType, RunType, Key, Holds, HoldsAt, MadeIsNew,
        Making, NotInUse, FreshIsNew, Steps, RunSteps, Links, Lists, Dead, RowsHaveObjects,
        InUseIsKept, NoForgottenObject
  <1> QED BY <1>1, <1>2, <1>3, <1>4

LEMMA SendCheckKeeps == ASSUME FilesInv, NEW r \in Req, SendCheck(r) PROVE FilesInv'
  <1> USE FilesAssumption DEF FilesInv
  <1>1. CASE Go(r, "check", "create")
    <2>1. /\ FilesTypes' /\ Holds' /\ FreshIsNew' /\ MadeIsNew' /\ Links'
          /\ Lists' /\ Sends' /\ RowsHaveObjects' /\ InUseIsKept' /\ NoForgottenObject'
      BY <1>1 DEF SendCheck, Go, Answer, NoReq, Unlinked, fileVars, userVars, jobVars,
          pastVars, chatVars, FilesTypes, ReqType, RunType, Key, Steps, RunSteps, Holds,
          HoldsAt, FreshIsNew, NotInUse, Named, Listed, MadeIsNew, Making, Links, Lists,
          Dead, Sends, RowsHaveObjects, InUseIsKept, NoForgottenObject
    <2> QED BY <2>1
  <1>2. CASE Answer(r, "check")
    <2>1. /\ FilesTypes' /\ MadeIsNew' /\ Links' /\ Lists'
          /\ Sends' /\ RowsHaveObjects' /\ InUseIsKept' /\ NoForgottenObject'
      BY <1>2 DEF SendCheck, Go, Answer, NoReq, Unlinked, fileVars, userVars, jobVars,
          pastVars, chatVars, FilesTypes, ReqType, RunType, Key, Steps, RunSteps, MadeIsNew,
          Making, NotInUse, Named, Listed, Links, Lists, Dead, Sends, RowsHaveObjects,
          InUseIsKept, NoForgottenObject
    <2>2. Holds'
      BY <1>2 DEF SendCheck, Go, Answer, NoReq, Unlinked, fileVars, userVars, jobVars,
          pastVars, chatVars, Holds, HoldsAt, FilesTypes, ReqType, RunType, Key
    <2>3. FreshIsNew'
      BY <1>2 DEF SendCheck, Go, Answer, NoReq, Unlinked, fileVars, userVars, jobVars,
          pastVars, chatVars, FreshIsNew, NotInUse, Named, Listed, FilesTypes, ReqType,
          RunType, Key
    <2> QED BY <2>1, <2>2, <2>3
  <1> QED BY <1>1, <1>2 DEF SendCheck

LEMMA SendCreateKeeps == ASSUME FilesInv, NEW r \in Req, SendCreate(r) PROVE FilesInv'
  <1> USE FilesAssumption DEF FilesInv
  <1>1. CASE Go(r, "create", "link")
    <2>1. FilesTypes' /\ Holds' /\ FreshIsNew' /\ MadeIsNew' /\ NoForgottenObject'
      BY <1>1 DEF SendCreate, Go, Answer, NoReq, fileVars, chatVars, jobVars, pastVars,
          FilesTypes, ReqType, RunType, Key, Steps, RunSteps, Holds, HoldsAt, FreshIsNew,
          NotInUse, Named, Listed, MadeIsNew, Making, NoForgottenObject
    <2>2. Lists'
      BY <1>1 DEF SendCreate, Go, Answer, NoReq, fileVars, chatVars, jobVars, pastVars,
          Lists, Listed, Dead, FilesTypes, ReqType, RunType, Key
    <2>3. Sends'
      BY <1>1 DEF SendCreate, Go, Answer, NoReq, fileVars, chatVars, jobVars, pastVars,
          Sends, Named, Listed, FilesTypes, ReqType, RunType, Key
    <2>4. RowsHaveObjects'
      BY <1>1 DEF SendCreate, Go, Answer, NoReq, fileVars, chatVars, jobVars, pastVars,
          RowsHaveObjects, Dead, FilesTypes, ReqType, RunType, Key
    <2>5. Links'
      BY <1>1 DEF SendCreate, Go, Answer, NoReq, fileVars, chatVars, jobVars, pastVars,
          Links, FilesTypes, ReqType, RunType, Key, Holds, HoldsAt
    <2>6. InUseIsKept'
      BY <1>1 DEF SendCreate, Go, Answer, NoReq, fileVars, chatVars, jobVars, pastVars,
          InUseIsKept, FilesTypes, ReqType, RunType, Key, Holds, HoldsAt, MadeIsNew, Making,
          NotInUse, Named, Listed, FreshIsNew, Steps, RunSteps, Links, Lists, Dead, Sends,
          RowsHaveObjects, NoForgottenObject
    <2> QED BY <2>1, <2>2, <2>3, <2>4, <2>5, <2>6
  <1>2. CASE Answer(r, "create")
    <2>1. FilesTypes' /\ MadeIsNew' /\ NoForgottenObject'
      BY <1>2 DEF SendCreate, Go, Answer, NoReq, fileVars, chatVars, jobVars, pastVars,
          FilesTypes, ReqType, RunType, Key, Steps, RunSteps, MadeIsNew, Making, NotInUse,
          Named, Listed, NoForgottenObject
    <2>2. Holds'
      BY <1>2 DEF SendCreate, Go, Answer, NoReq, fileVars, chatVars, jobVars, pastVars,
          Holds, HoldsAt, FilesTypes, ReqType, RunType, Key
    <2>3. FreshIsNew'
      BY <1>2 DEF SendCreate, Go, Answer, NoReq, fileVars, chatVars, jobVars, pastVars,
          FreshIsNew, NotInUse, Named, Listed, FilesTypes, ReqType, RunType, Key
    <2>4. Links'
      BY <1>2 DEF SendCreate, Go, Answer, NoReq, fileVars, chatVars, jobVars, pastVars,
          Links, FilesTypes, ReqType, RunType, Key
    <2>5. Lists'
      BY <1>2 DEF SendCreate, Go, Answer, NoReq, fileVars, chatVars, jobVars, pastVars,
          Lists, Listed, Dead, FilesTypes, ReqType, RunType, Key
    <2>6. Sends'
      BY <1>2 DEF SendCreate, Go, Answer, NoReq, fileVars, chatVars, jobVars, pastVars,
          Sends, Named, Listed, FilesTypes, ReqType, RunType, Key
    <2>7. RowsHaveObjects'
      BY <1>2 DEF SendCreate, Go, Answer, NoReq, fileVars, chatVars, jobVars, pastVars,
          RowsHaveObjects, Dead, FilesTypes, ReqType, RunType, Key
    <2>8. InUseIsKept'
      BY <1>2 DEF SendCreate, Go, Answer, NoReq, fileVars, chatVars, jobVars, pastVars,
          InUseIsKept, FilesTypes, ReqType, RunType, Key
    <2> QED BY <2>1, <2>2, <2>3, <2>4, <2>5, <2>6, <2>7, <2>8
  <1> QED BY <1>1, <1>2 DEF SendCreate

LEMMA SendLinkKeeps == ASSUME FilesInv, NEW r \in Req, SendLink(r) PROVE FilesInv'
  <1> USE FilesAssumption DEF FilesInv
  <1>1. MadeIsNew' /\ Sends' /\ NoForgottenObject'
    BY DEF SendLink, Answer, NoReq, userVars, jobVars, chatVars, MadeIsNew, Making,
        NotInUse, Named, Listed, Sends, NoForgottenObject
  <1>2. Holds'
    BY DEF SendLink, Answer, NoReq, userVars, jobVars, chatVars, Holds, HoldsAt, FilesTypes,
        ReqType, RunType, Key
  <1>3. FreshIsNew'
    BY DEF SendLink, Answer, NoReq, userVars, jobVars, chatVars, FreshIsNew, NotInUse,
        Named, Listed, FilesTypes, ReqType, RunType, Key
  <1>4. Links'
    BY DEF SendLink, Answer, NoReq, userVars, jobVars, chatVars, Links, FilesTypes, ReqType,
        RunType, Key
  <1>5. FilesTypes'
    BY DEF SendLink, Answer, NoReq, userVars, jobVars, chatVars, FilesTypes, ReqType,
        RunType, Key, Steps, RunSteps, Holds, HoldsAt
  <1>6. Lists'
    BY DEF SendLink, Answer, NoReq, userVars, jobVars, chatVars, Lists, Listed, Dead,
        FilesTypes, ReqType, RunType, Key, Holds, HoldsAt, MadeIsNew, Making, NotInUse,
        Named, FreshIsNew, Steps, RunSteps, Links, Sends, RowsHaveObjects, InUseIsKept,
        NoForgottenObject
  <1>7. RowsHaveObjects'
    BY DEF SendLink, Answer, NoReq, userVars, jobVars, chatVars, RowsHaveObjects, Dead,
        FilesTypes, ReqType, RunType, Key, Holds, HoldsAt, MadeIsNew, Making, NotInUse,
        Named, Listed, FreshIsNew, Steps, RunSteps, Links, Lists, Sends, InUseIsKept,
        NoForgottenObject
  <1>8. InUseIsKept'
    BY DEF SendLink, Answer, NoReq, userVars, jobVars, chatVars, InUseIsKept, FilesTypes,
        ReqType, RunType, Key, Holds, HoldsAt, MadeIsNew, Making, NotInUse, Named, Listed,
        FreshIsNew, Steps, RunSteps, Links, Lists, Dead, Sends, RowsHaveObjects,
        NoForgottenObject
  <1> QED BY <1>1, <1>2, <1>3, <1>4, <1>5, <1>6, <1>7, <1>8

LEMMA DeleteMessageKeeps ==
  ASSUME FilesInv, NEW m \in Message, DeleteMessage(m)
  PROVE  FilesInv'
  <1> USE FilesAssumption DEF FilesInv
  <1>1. /\ FilesTypes' /\ Holds' /\ FreshIsNew' /\ MadeIsNew' /\ Links'
        /\ Lists' /\ Sends' /\ RowsHaveObjects' /\ InUseIsKept' /\ NoForgottenObject'
    BY DEF DeleteMessage, fileVars, chatVars, reqVars, jobVars, pastVars, FilesTypes,
        ReqType, RunType, Key, Steps, RunSteps, Holds, HoldsAt, FreshIsNew, NotInUse, Named,
        Listed, MadeIsNew, Making, Links, Lists, Dead, Sends, RowsHaveObjects, InUseIsKept,
        NoForgottenObject
  <1> QED BY <1>1

LEMMA DeleteChatKeeps == ASSUME FilesInv, DeleteChat PROVE FilesInv'
  <1> USE FilesAssumption DEF FilesInv
  <1>a. link' \in [Upload -> Message \cup {None}] BY DEF DeleteChat
  <1>b. msg' \in [Message -> {"none", "live", "deleted"}] BY DEF DeleteChat
  <1>t. FilesTypes' BY <1>a, <1>b DEF DeleteChat, FilesTypes, reqVars, jobVars
  <1>1. /\ Holds' /\ FreshIsNew' /\ MadeIsNew' /\ Links'
        /\ Lists' /\ Sends' /\ RowsHaveObjects' /\ NoForgottenObject'
    BY DEF DeleteChat, reqVars, jobVars, Holds, HoldsAt, FreshIsNew, NotInUse, Named,
        Listed, MadeIsNew, Making, Links, Lists, Dead, Sends, RowsHaveObjects,
        NoForgottenObject
  <1>2. InUseIsKept'
    BY DEF DeleteChat, reqVars, jobVars, InUseIsKept, FilesTypes, ReqType, RunType, Key
  <1> QED BY <1>t, <1>1, <1>2

LEMMA SetPhotoKeeps == ASSUME FilesInv, NEW f \in Photos, SetPhoto(f) PROVE FilesInv'
  <1> USE FilesAssumption DEF FilesInv
  <1>1. /\ FilesTypes' /\ Holds' /\ FreshIsNew' /\ MadeIsNew' /\ Links'
        /\ Lists' /\ Sends' /\ RowsHaveObjects' /\ InUseIsKept' /\ NoForgottenObject'
    BY DEF SetPhoto, fileVars, reqVars, jobVars, pastVars, FilesTypes, ReqType, RunType,
        Key, Steps, RunSteps, Holds, HoldsAt, FreshIsNew, NotInUse, Named, Listed,
        MadeIsNew, Making, Links, Lists, Dead, Sends, RowsHaveObjects, InUseIsKept,
        NoForgottenObject
  <1> QED BY <1>1

(***************************************************************************)
(* Avatars.                                                                *)
(***************************************************************************)
LEMMA SignupStartKeeps ==
  ASSUME FilesInv, NEW r \in Req, NEW k \in Avatar, SignupStart(r, k)
  PROVE  FilesInv'
  <1> USE FilesAssumption DEF FilesInv
  <1>1. /\ FilesTypes' /\ Links' /\ Lists'
        /\ Sends' /\ RowsHaveObjects' /\ InUseIsKept' /\ NoForgottenObject'
    BY DEF SignupStart, Generate, Start, NoReq, userVars, jobVars, pastVars, chatVars,
        FilesTypes, ReqType, RunType, Key, Steps, RunSteps, Links, Lists, Listed, Dead,
        Sends, Named, RowsHaveObjects, InUseIsKept, NoForgottenObject
  <1>2. Holds'
    BY DEF SignupStart, Generate, Start, NoReq, userVars, jobVars, pastVars, chatVars,
        Holds, HoldsAt, FilesTypes, ReqType, RunType, Key
  <1>3. FreshIsNew'
    BY DEF SignupStart, Generate, Start, NoReq, userVars, jobVars, pastVars, chatVars,
        FreshIsNew, NotInUse, Named, Listed, FilesTypes, ReqType, RunType, Key
  <1>4. MadeIsNew'
    BY DEF SignupStart, Generate, Start, NoReq, userVars, jobVars, pastVars, chatVars,
        MadeIsNew, Making, NotInUse, Named, Listed, FilesTypes, ReqType, RunType, Key,
        Holds, HoldsAt, FreshIsNew
  <1> QED BY <1>1, <1>2, <1>3, <1>4

LEMMA SignupStoreKeeps == ASSUME FilesInv, NEW r \in Req, SignupStore(r) PROVE FilesInv'
  <1> USE FilesAssumption DEF FilesInv
  <1>1. /\ Holds' /\ FreshIsNew' /\ MadeIsNew'
        /\ Links' /\ Sends' /\ RowsHaveObjects' /\ InUseIsKept'
    BY DEF SignupStore, Go, userVars, jobVars, pastVars, chatVars, Holds, HoldsAt,
        FreshIsNew, NotInUse, Named, Listed, MadeIsNew, Making, Links, Sends,
        RowsHaveObjects, Dead, InUseIsKept
  <1>2. FilesTypes'
    BY DEF SignupStore, Go, userVars, jobVars, pastVars, chatVars, FilesTypes, ReqType,
        RunType, Key, Steps, RunSteps, Holds, HoldsAt
  <1>3. NoForgottenObject'
    BY DEF SignupStore, Go, userVars, jobVars, pastVars, chatVars, NoForgottenObject,
        FilesTypes, ReqType, RunType, Key, Holds, HoldsAt
  <1>4. Lists'
    BY DEF SignupStore, Go, userVars, jobVars, pastVars, chatVars, Lists, Listed, Dead,
        FilesTypes, ReqType, RunType, Key, Holds, HoldsAt, MadeIsNew, Making, NotInUse,
        Named, FreshIsNew
  <1> QED BY <1>1, <1>2, <1>3, <1>4

LEMMA SignupRowKeeps == ASSUME FilesInv, NEW r \in Req, SignupRow(r) PROVE FilesInv'
  <1> USE FilesAssumption DEF FilesInv
  <1>1. /\ Holds' /\ FreshIsNew' /\ Links'
        /\ Sends' /\ InUseIsKept' /\ NoForgottenObject'
    BY DEF SignupRow, Go, userVars, jobVars, pastVars, chatVars, Holds, HoldsAt, FreshIsNew,
        NotInUse, Named, Listed, Links, Sends, InUseIsKept, NoForgottenObject
  <1>2. MadeIsNew'
    BY DEF SignupRow, Go, userVars, jobVars, pastVars, chatVars, MadeIsNew, Making,
        NotInUse, Named, Listed, FilesTypes, ReqType, RunType, Key
  <1>3. FilesTypes'
    BY DEF SignupRow, Go, userVars, jobVars, pastVars, chatVars, FilesTypes, ReqType,
        RunType, Key, Steps, RunSteps, Holds, HoldsAt
  <1>4. Lists'
    BY DEF SignupRow, Go, userVars, jobVars, pastVars, chatVars, Lists, Listed, Dead,
        FilesTypes, ReqType, RunType, Key, Holds, HoldsAt
  <1>5. RowsHaveObjects'
    BY DEF SignupRow, Go, userVars, jobVars, pastVars, chatVars, RowsHaveObjects, Dead,
        FilesTypes, ReqType, RunType, Key, Holds, HoldsAt
  <1> QED BY <1>1, <1>2, <1>3, <1>4, <1>5

LEMMA SignupUserKeeps == ASSUME FilesInv, NEW r \in Req, SignupUser(r) PROVE FilesInv'
  <1> USE FilesAssumption DEF FilesInv
  <1>1. Links' /\ Sends' /\ RowsHaveObjects' /\ NoForgottenObject'
    BY DEF SignupUser, Answer, NoReq, fileVars, chatVars, jobVars, pastVars, Links, Sends,
        Named, Listed, RowsHaveObjects, Dead, NoForgottenObject
  <1>2. FreshIsNew'
    BY DEF SignupUser, Answer, NoReq, fileVars, chatVars, jobVars, pastVars, FreshIsNew,
        NotInUse, Named, Listed, FilesTypes, ReqType, RunType, Key
  <1>3. MadeIsNew'
    BY DEF SignupUser, Answer, NoReq, fileVars, chatVars, jobVars, pastVars, MadeIsNew,
        Making, NotInUse, Named, Listed, FilesTypes, ReqType, RunType, Key
  <1>4. FilesTypes'
    BY DEF SignupUser, Answer, NoReq, fileVars, chatVars, jobVars, pastVars, FilesTypes,
        ReqType, RunType, Key, Steps, RunSteps, Holds, HoldsAt
  <1>5. Holds'
    BY DEF SignupUser, Answer, NoReq, fileVars, chatVars, jobVars, pastVars, Holds, HoldsAt,
        FilesTypes, ReqType, RunType, Key, MadeIsNew, Making, NotInUse, Named, Listed,
        FreshIsNew
  <1>6. Lists'
    BY DEF SignupUser, Answer, NoReq, fileVars, chatVars, jobVars, pastVars, Lists, Listed,
        Dead, FilesTypes, ReqType, RunType, Key, Holds, HoldsAt, MadeIsNew, Making,
        NotInUse, Named, FreshIsNew
  <1>7. InUseIsKept'
    BY DEF SignupUser, Answer, NoReq, fileVars, chatVars, jobVars, pastVars, InUseIsKept,
        FilesTypes, ReqType, RunType, Key, Holds, HoldsAt, MadeIsNew, Making, NotInUse,
        Named, Listed, FreshIsNew
  <1> QED BY <1>1, <1>2, <1>3, <1>4, <1>5, <1>6, <1>7

LEMMA AvatarStartKeeps ==
  ASSUME FilesInv, NEW r \in Req, NEW k \in Avatar, AvatarStart(r, k)
  PROVE  FilesInv'
  <1> USE FilesAssumption DEF FilesInv
  <1>a. [NoReq EXCEPT !.key = k, !.prev = profile] \in ReqType
    BY NoReqTyped, ReqChanged DEF FilesTypes, Key
  <1>b. req' \in [Req -> ReqType] /\ pc' \in [Req -> Steps]
    BY <1>a DEF AvatarStart, Start, FilesTypes, Steps
  <1>t. FilesTypes'
    BY <1>b DEF AvatarStart, Generate, FilesTypes, userVars, chatVars, jobVars, pastVars
  <1>1. /\ FreshIsNew' /\ Links' /\ Lists'
        /\ Sends' /\ RowsHaveObjects' /\ InUseIsKept' /\ NoForgottenObject'
    BY DEF AvatarStart, Generate, Start, NoReq, userVars, jobVars, pastVars, chatVars,
        FreshIsNew, NotInUse, Named, Listed, Links, Lists, Dead, Sends, RowsHaveObjects,
        InUseIsKept, NoForgottenObject
  <1>2. Holds'
    BY DEF AvatarStart, Generate, Start, NoReq, userVars, jobVars, pastVars, chatVars,
        Holds, HoldsAt, FilesTypes, ReqType, RunType, Key
  <1>3. MadeIsNew'
    BY DEF AvatarStart, Generate, Start, NoReq, userVars, jobVars, pastVars, chatVars,
        MadeIsNew, Making, NotInUse, Named, Listed, FilesTypes, ReqType, RunType, Key,
        Holds, HoldsAt, FreshIsNew
  <1> QED BY <1>t, <1>1, <1>2, <1>3

LEMMA AvatarStoreKeeps == ASSUME FilesInv, NEW r \in Req, AvatarStore(r) PROVE FilesInv'
  <1> USE FilesAssumption DEF FilesInv
  <1>1. /\ Holds' /\ FreshIsNew' /\ MadeIsNew'
        /\ Links' /\ Sends' /\ RowsHaveObjects' /\ InUseIsKept'
    BY DEF AvatarStore, Go, userVars, jobVars, pastVars, chatVars, Holds, HoldsAt,
        FreshIsNew, NotInUse, Named, Listed, MadeIsNew, Making, Links, Sends,
        RowsHaveObjects, Dead, InUseIsKept
  <1>2. FilesTypes'
    BY DEF AvatarStore, Go, userVars, jobVars, pastVars, chatVars, FilesTypes, ReqType,
        RunType, Key, Steps, RunSteps, Holds, HoldsAt
  <1>3. NoForgottenObject'
    BY DEF AvatarStore, Go, userVars, jobVars, pastVars, chatVars, NoForgottenObject,
        FilesTypes, ReqType, RunType, Key, Holds, HoldsAt
  <1>4. Lists'
    BY DEF AvatarStore, Go, userVars, jobVars, pastVars, chatVars, Lists, Listed, Dead,
        FilesTypes, ReqType, RunType, Key, Holds, HoldsAt, MadeIsNew, Making, NotInUse,
        Named, FreshIsNew
  <1> QED BY <1>1, <1>2, <1>3, <1>4

LEMMA AvatarSetKeeps == ASSUME FilesInv, NEW r \in Req, AvatarSet(r) PROVE FilesInv'
  <1> USE FilesAssumption DEF FilesInv
  <1>1. FreshIsNew' /\ Links' /\ Sends' /\ RowsHaveObjects' /\ NoForgottenObject'
    BY DEF AvatarSet, Go, fileVars, chatVars, jobVars, pastVars, FreshIsNew, NotInUse,
        Named, Listed, Links, Sends, RowsHaveObjects, Dead, NoForgottenObject
  <1>2. MadeIsNew'
    BY DEF AvatarSet, Go, fileVars, chatVars, jobVars, pastVars, MadeIsNew, Making,
        NotInUse, Named, Listed, FilesTypes, ReqType, RunType, Key
  <1>3. FilesTypes'
    BY DEF AvatarSet, Go, fileVars, chatVars, jobVars, pastVars, FilesTypes, ReqType,
        RunType, Key, Steps, RunSteps, Holds, HoldsAt
  <1>4. Holds'
    BY DEF AvatarSet, Go, fileVars, chatVars, jobVars, pastVars, Holds, HoldsAt, FilesTypes,
        ReqType, RunType, Key, MadeIsNew, Making, NotInUse, Named, Listed, FreshIsNew
  <1>5. Lists'
    BY DEF AvatarSet, Go, fileVars, chatVars, jobVars, pastVars, Lists, Listed, Dead,
        FilesTypes, ReqType, RunType, Key, Holds, HoldsAt, MadeIsNew, Making, NotInUse,
        Named, FreshIsNew
  <1>6. InUseIsKept'
    BY DEF AvatarSet, Go, fileVars, chatVars, jobVars, pastVars, InUseIsKept, FilesTypes,
        ReqType, RunType, Key, Holds, HoldsAt, MadeIsNew, Making, NotInUse, Named, Listed,
        FreshIsNew
  <1> QED BY <1>1, <1>2, <1>3, <1>4, <1>5, <1>6

LEMMA AvatarDropKeeps == ASSUME FilesInv, NEW r \in Req, AvatarDrop(r) PROVE FilesInv'
  <1> USE FilesAssumption DEF FilesInv
  <1>1. /\ FilesTypes' /\ Holds' /\ MadeIsNew'
        /\ Links' /\ Lists' /\ Sends' /\ NoForgottenObject'
    BY DEF AvatarDrop, Answer, NoReq, userVars, jobVars, pastVars, chatVars, FilesTypes,
        ReqType, RunType, Key, Steps, RunSteps, Holds, HoldsAt, MadeIsNew, Making, NotInUse,
        Named, Listed, Links, Lists, Dead, Sends, NoForgottenObject
  <1>2. FreshIsNew'
    BY DEF AvatarDrop, Answer, NoReq, userVars, jobVars, pastVars, chatVars, FreshIsNew,
        NotInUse, Named, Listed, FilesTypes, ReqType, RunType, Key
  <1>3. RowsHaveObjects'
    BY DEF AvatarDrop, Answer, NoReq, userVars, jobVars, pastVars, chatVars,
        RowsHaveObjects, Dead, FilesTypes, ReqType, RunType, Key
  <1>4. InUseIsKept'
    BY DEF AvatarDrop, Answer, NoReq, userVars, jobVars, pastVars, chatVars, InUseIsKept,
        FilesTypes, ReqType, RunType, Key, Holds, HoldsAt
  <1> QED BY <1>1, <1>2, <1>3, <1>4

LEMMA AvatarUrlKeeps == ASSUME FilesInv, AvatarUrl PROVE FilesInv'
  <1> USE FilesAssumption DEF FilesInv
  <1>1. /\ FilesTypes' /\ Holds' /\ MadeIsNew' /\ Links'
        /\ Lists' /\ Sends' /\ RowsHaveObjects' /\ InUseIsKept' /\ NoForgottenObject'
    BY DEF AvatarUrl, fileVars, chatVars, reqVars, jobVars, pastVars, FilesTypes, ReqType,
        RunType, Key, Steps, RunSteps, Holds, HoldsAt, MadeIsNew, Making, NotInUse, Named,
        Listed, Links, Lists, Dead, Sends, RowsHaveObjects, InUseIsKept, NoForgottenObject
  <1>2. FreshIsNew'
    BY DEF AvatarUrl, fileVars, chatVars, reqVars, jobVars, pastVars, FreshIsNew, NotInUse,
        Named, Listed, FilesTypes, ReqType, RunType, Key
  <1> QED BY <1>1, <1>2

(***************************************************************************)
(* Requests that stop.                                                     *)
(***************************************************************************)
LEMMA StopKeeps == ASSUME FilesInv, NEW r \in Req, Stop(r) PROVE FilesInv'
  <1> USE FilesAssumption DEF FilesInv
  <1>1. /\ FilesTypes' /\ MadeIsNew' /\ Lists'
        /\ Sends' /\ RowsHaveObjects' /\ InUseIsKept' /\ NoForgottenObject'
    BY DEF Stop, Answer, NoReq, fileVars, userVars, jobVars, chatVars, FilesTypes, ReqType,
        RunType, Key, Steps, RunSteps, MadeIsNew, Making, NotInUse, Named, Listed, Lists,
        Dead, Sends, RowsHaveObjects, InUseIsKept, NoForgottenObject
  <1>2. Holds'
    BY DEF Stop, Answer, NoReq, fileVars, userVars, jobVars, chatVars, Holds, HoldsAt,
        FilesTypes, ReqType, RunType, Key
  <1>3. FreshIsNew'
    BY DEF Stop, Answer, NoReq, fileVars, userVars, jobVars, chatVars, FreshIsNew, NotInUse,
        Named, Listed, FilesTypes, ReqType, RunType, Key
  <1>4. Links'
    BY DEF Stop, Answer, NoReq, fileVars, userVars, jobVars, chatVars, Links, FilesTypes,
        ReqType, RunType, Key
  <1> QED BY <1>1, <1>2, <1>3, <1>4

LEMMA SignupWithoutKeeps == ASSUME FilesInv, NEW r \in Req, SignupWithout(r) PROVE FilesInv'
  <1> USE FilesAssumption DEF FilesInv
  <1>t. FilesTypes'
    BY DEF SignupWithout, FilesTypes, ReqType, Steps, fileVars, userVars, chatVars, jobVars
  <1>1. /\ Links' /\ Lists' /\ Sends'
        /\ RowsHaveObjects' /\ InUseIsKept' /\ NoForgottenObject'
    BY DEF SignupWithout, fileVars, userVars, jobVars, chatVars, Links, Lists, Listed, Dead,
        Sends, Named, RowsHaveObjects, InUseIsKept, NoForgottenObject
  <1>2. Holds'
    BY DEF SignupWithout, fileVars, userVars, jobVars, chatVars, Holds, HoldsAt, FilesTypes,
        ReqType, RunType, Key
  <1>3. FreshIsNew'
    BY DEF SignupWithout, fileVars, userVars, jobVars, chatVars, FreshIsNew, NotInUse,
        Named, Listed, FilesTypes, ReqType, RunType, Key
  <1>4. MadeIsNew'
    BY DEF SignupWithout, fileVars, userVars, jobVars, chatVars, MadeIsNew, Making,
        NotInUse, Named, Listed, FilesTypes, ReqType, RunType, Key
  <1> QED BY <1>t, <1>1, <1>2, <1>3, <1>4

(***************************************************************************)
(* The orphan job, and time.                                               *)
(***************************************************************************)
LEMMA JobStartKeeps == ASSUME FilesInv, NEW j \in Run, JobStart(j) PROVE FilesInv'
  <1> USE FilesAssumption DEF FilesInv
  <1>c. job' \in [Run -> RunType]
    <2>1. [NoRun EXCEPT !.at = "unlinked", !.cut = old] \in RunType
      BY NoRunTyped, RunChanged DEF RunSteps, FilesTypes, Key
    <2> QED BY <2>1, JobTyped DEF JobStart
  <1>t. FilesTypes'
    BY <1>c DEF JobStart, FilesTypes, fileVars, userVars, chatVars, reqVars, pastVars
  <1>1. /\ Holds' /\ MadeIsNew' /\ Links'
        /\ Sends' /\ RowsHaveObjects' /\ InUseIsKept' /\ NoForgottenObject'
    BY DEF JobStart, SetRun, NoRun, fileVars, userVars, reqVars, pastVars, chatVars, Holds,
        HoldsAt, MadeIsNew, Making, NotInUse, Named, Listed, Links, Sends, RowsHaveObjects,
        Dead, InUseIsKept, NoForgottenObject
  <1>2. FreshIsNew'
    BY DEF JobStart, SetRun, NoRun, fileVars, userVars, reqVars, pastVars, chatVars,
        FreshIsNew, NotInUse, Named, Listed, FilesTypes, ReqType, RunType, Key
  <1>3. Lists'
    BY DEF JobStart, SetRun, NoRun, fileVars, userVars, reqVars, pastVars, chatVars, Lists,
        Listed, Dead, FilesTypes, ReqType, RunType, Key
  <1> QED BY <1>t, <1>1, <1>2, <1>3

LEMMA ListUnlinkedKeeps == ASSUME FilesInv, NEW j \in Run, ListUnlinked(j) PROVE FilesInv'
  <1> USE FilesAssumption DEF FilesInv
  <1> DEFINE L == {f \in job[j].cut \cap rows \cap Upload : link[f] = None}
  <1>a. L \in SUBSET Key /\ {} \in SUBSET Avatar /\ {} \in SUBSET Key
    BY RunIsTyped DEF FilesTypes, Key
  <1>b. SetRun(j, [job[j] EXCEPT !.at = "avatars", !.list = L]) BY DEF ListUnlinked
  <1>c. job' \in [Run -> RunType]
    <2> HIDE DEF L
    <2> QED BY <1>a, <1>b, RunIsTyped, RunChanged, JobTyped DEF RunSteps
  <1>t. FilesTypes'
    BY <1>c DEF ListUnlinked, FilesTypes, fileVars, userVars, chatVars, reqVars, pastVars
  <1>1. /\ Holds' /\ FreshIsNew' /\ MadeIsNew' /\ Links'
        /\ Sends' /\ RowsHaveObjects' /\ InUseIsKept' /\ NoForgottenObject'
    BY DEF ListUnlinked, SetRun, fileVars, userVars, reqVars, pastVars, chatVars, Holds,
        HoldsAt, FreshIsNew, NotInUse, Named, Listed, MadeIsNew, Making, Links, Sends,
        RowsHaveObjects, Dead, InUseIsKept, NoForgottenObject
  <1>2. Lists'
    BY DEF ListUnlinked, SetRun, fileVars, userVars, reqVars, pastVars, chatVars, Lists,
        Listed, Dead, FilesTypes, ReqType, RunType, Key
  <1> QED BY <1>t, <1>1, <1>2

LEMMA ListAvatarsKeeps == ASSUME FilesInv, NEW j \in Run, ListAvatars(j) PROVE FilesInv'
  <1> USE FilesAssumption DEF FilesInv
  <1>c. job' \in [Run -> RunType]
    <2> DEFINE A == job[j].cut \cap rows \cap Avatar
    <2>1. SetRun(j, [job[j] EXCEPT !.at = "live", !.avatars = A]) BY DEF ListAvatars
    <2>2. A \in SUBSET Avatar OBVIOUS
    <2> HIDE DEF A
    <2> QED BY <2>1, <2>2, RunIsTyped, RunChanged, JobTyped DEF RunSteps
  <1>t. FilesTypes'
    BY <1>c DEF ListAvatars, FilesTypes, fileVars, userVars, chatVars, reqVars, pastVars
  <1>1. /\ Holds' /\ FreshIsNew' /\ MadeIsNew' /\ Links'
        /\ Lists' /\ Sends' /\ RowsHaveObjects' /\ InUseIsKept' /\ NoForgottenObject'
    BY DEF ListAvatars, SetRun, fileVars, userVars, reqVars, pastVars, chatVars, Holds,
        HoldsAt, FreshIsNew, NotInUse, Named, Listed, MadeIsNew, Making, Links, Lists, Dead,
        Sends, RowsHaveObjects, InUseIsKept, NoForgottenObject
  <1> QED BY <1>t, <1>1

LEMMA ListLiveKeeps == ASSUME FilesInv, NEW j \in Run, ListLive(j) PROVE FilesInv'
  <1> USE FilesAssumption DEF FilesInv
  <1> DEFINE L == job[j].list \cup (job[j].avatars \ {profile})
  <1>a. L \in SUBSET Key /\ {} \in SUBSET Avatar /\ {} \in SUBSET Key
    BY RunIsTyped DEF FilesTypes, Key
  <1>b. SetRun(j, [job[j] EXCEPT !.at = "deleted", !.avatars = {}, !.list = L]) BY DEF ListLive
  <1>c. job' \in [Run -> RunType]
    <2> HIDE DEF L
    <2> QED BY <1>a, <1>b, RunIsTyped, RunChanged, JobTyped DEF RunSteps
  <1>t. FilesTypes'
    BY <1>c DEF ListLive, FilesTypes, fileVars, userVars, chatVars, reqVars, pastVars
  <1>1. /\ Holds' /\ FreshIsNew' /\ MadeIsNew' /\ Links'
        /\ Sends' /\ RowsHaveObjects' /\ InUseIsKept' /\ NoForgottenObject'
    BY DEF ListLive, SetRun, fileVars, userVars, reqVars, pastVars, chatVars, Holds,
        HoldsAt, FreshIsNew, NotInUse, Named, Listed, MadeIsNew, Making, Links, Sends,
        RowsHaveObjects, Dead, InUseIsKept, NoForgottenObject
  <1>2. Lists'
    BY DEF ListLive, SetRun, fileVars, userVars, reqVars, pastVars, chatVars, Lists, Listed,
        Dead, FilesTypes, ReqType, RunType, Key
  <1> QED BY <1>t, <1>1, <1>2

LEMMA ListDeletedKeeps == ASSUME FilesInv, NEW j \in Run, ListDeleted(j) PROVE FilesInv'
  <1> USE FilesAssumption DEF FilesInv
  <1> DEFINE L == job[j].list \cup
    {f \in rows \cap Upload : link[f] # None /\ msg[link[f]] = "deleted"}
  <1>a. L \in SUBSET Key /\ {} \in SUBSET Avatar /\ {} \in SUBSET Key
    BY RunIsTyped DEF FilesTypes, Key
  <1>b. SetRun(j, [job[j] EXCEPT !.at = "object", !.cut = {}, !.list = L]) BY DEF ListDeleted
  <1>c. job' \in [Run -> RunType]
    <2> HIDE DEF L
    <2> QED BY <1>a, <1>b, RunIsTyped, RunChanged, JobTyped DEF RunSteps
  <1>t. FilesTypes'
    BY <1>c DEF ListDeleted, FilesTypes, fileVars, userVars, chatVars, reqVars, pastVars
  <1>1. /\ Holds' /\ FreshIsNew' /\ Links'
        /\ RowsHaveObjects' /\ InUseIsKept' /\ NoForgottenObject'
    BY DEF ListDeleted, SetRun, fileVars, userVars, reqVars, pastVars, chatVars, Holds,
        HoldsAt, FreshIsNew, NotInUse, Named, Listed, Links, RowsHaveObjects, Dead,
        InUseIsKept, NoForgottenObject
  <1>2. Lists'
    BY DEF ListDeleted, SetRun, fileVars, userVars, reqVars, pastVars, chatVars, Lists,
        Listed, Dead, FilesTypes, ReqType, RunType, Key
  <1>3. MadeIsNew'
    BY DEF ListDeleted, SetRun, fileVars, userVars, reqVars, pastVars, chatVars, MadeIsNew,
        Making, NotInUse, Named, Listed, FilesTypes, ReqType, RunType, Key, Holds, HoldsAt
  <1>4. Sends'
    BY DEF ListDeleted, SetRun, fileVars, userVars, reqVars, pastVars, chatVars, Sends,
        Named, Listed, FilesTypes, ReqType, RunType, Key, Holds, HoldsAt, MadeIsNew, Making,
        NotInUse, FreshIsNew, Steps, RunSteps, Links, Lists, Dead, RowsHaveObjects,
        InUseIsKept, NoForgottenObject
  <1> QED BY <1>t, <1>1, <1>2, <1>3, <1>4

LEMMA CleanObjectKeeps ==
  ASSUME FilesInv, NEW j \in Run, NEW k \in job[j].list, CleanObject(j, k)
  PROVE  FilesInv'
  <1> USE FilesAssumption DEF FilesInv
  <1>a. job[j].list \ {k} \in SUBSET Key /\ k \in Key BY RunIsTyped
  <1>b. job' \in [Run -> RunType]
    <2>1. CASE SetRun(j, [job[j] EXCEPT !.at = "row", !.list = @ \ {k}, !.key = k])
      <3>1. [job[j] EXCEPT !.at = "row", !.list = @ \ {k}, !.key = k] \in RunType
        BY <1>a, RunIsTyped DEF RunType, RunSteps
      <3> QED BY <2>1, <3>1, JobTyped
    <2>2. CASE SetRun(j, [job[j] EXCEPT !.list = @ \ {k}])
      <3>1. [job[j] EXCEPT !.list = @ \ {k}] \in RunType BY <1>a, RunIsTyped DEF RunType
      <3> QED BY <2>2, <3>1, JobTyped
    <2> QED BY <2>1, <2>2 DEF CleanObject
  <1>c. /\ object' \subseteq object /\ object \subseteq object' \cup {k}
        /\ \A i \in Run : /\ Listed(i)' \subseteq Listed(i) /\ Named(i)' \subseteq Named(i)
                          /\ job'[i].cut = job[i].cut
                          /\ job'[i].key = job[i].key \/ job'[i].key \notin object'
    <2>1. CASE /\ object' = object \ {k}
               /\ SetRun(j, [job[j] EXCEPT !.at = "row", !.list = @ \ {k}, !.key = k])
      BY <2>1 DEF SetRun, FilesTypes, RunType, Listed, Named
    <2>2. CASE UNCHANGED object /\ SetRun(j, [job[j] EXCEPT !.list = @ \ {k}])
      BY <2>2 DEF SetRun, FilesTypes, RunType, Listed, Named
    <2> QED BY <2>1, <2>2 DEF CleanObject
  <1>d. k \in Listed(j) BY DEF Listed
  <1>e. UNCHANGED <<fresh, rows, link, old, userVars, reqVars, sent, asked, lost>> BY DEF CleanObject
  <1>1. FilesTypes' BY <1>b, <1>c, <1>e DEF FilesTypes, userVars, chatVars, reqVars
  <1>2. Holds' BY <1>c, <1>e DEF Holds, HoldsAt, userVars, reqVars
  <1>3. FreshIsNew' BY <1>c, <1>e DEF FreshIsNew, NotInUse, userVars, reqVars
  <1>4. MadeIsNew' BY <1>c, <1>d, <1>e DEF MadeIsNew, Making, NotInUse, Named, userVars, reqVars
  <1>5. Links' BY <1>e DEF Links, userVars, chatVars, reqVars
  <1>6. Lists' BY <1>c, <1>e DEF Lists, Dead, userVars
  <1>7. Sends' BY <1>c, <1>e DEF Sends, userVars, chatVars, reqVars
  <1>8. RowsHaveObjects' BY <1>c, <1>d, <1>e DEF RowsHaveObjects, Lists, Dead, userVars
  <1>9. InUseIsKept' BY <1>c, <1>d, <1>e DEF InUseIsKept, FilesTypes, Links, Lists, userVars
  <1>10. NoForgottenObject' BY <1>c, <1>e DEF NoForgottenObject, reqVars
  <1> QED BY <1>1, <1>2, <1>3, <1>4, <1>5, <1>6, <1>7, <1>8, <1>9, <1>10

LEMMA CleanRowKeeps == ASSUME FilesInv, NEW j \in Run, CleanRow(j) PROVE FilesInv'
  <1> USE FilesAssumption DEF FilesInv
  <1>c. job' \in [Run -> RunType]
    BY FilesAssumption, RunIsTyped, RunChanged, JobTyped DEF RunSteps, CleanRow
  <1>t. FilesTypes'
    BY <1>c DEF CleanRow, DropRow, FilesTypes, userVars, chatVars, reqVars, pastVars
  <1>1. Holds' /\ MadeIsNew' /\ Links' /\ Sends' /\ RowsHaveObjects'
    BY DEF CleanRow, SetRun, DropRow, userVars, reqVars, pastVars, chatVars, Holds, HoldsAt,
        MadeIsNew, Making, NotInUse, Named, Listed, Links, Sends, RowsHaveObjects, Dead
  <1>2. FreshIsNew'
    BY DEF CleanRow, SetRun, DropRow, userVars, reqVars, pastVars, chatVars, FreshIsNew,
        NotInUse, Named, Listed, FilesTypes, ReqType, RunType, Key
  <1>3. Lists'
    BY DEF CleanRow, SetRun, DropRow, userVars, reqVars, pastVars, chatVars, Lists, Listed,
        Dead, FilesTypes, ReqType, RunType, Key
  <1>4. InUseIsKept'
    BY DEF CleanRow, SetRun, DropRow, userVars, reqVars, pastVars, chatVars, InUseIsKept,
        FilesTypes, ReqType, RunType, Key, Holds, HoldsAt, MadeIsNew, Making, NotInUse,
        Named, Listed, FreshIsNew, Steps, RunSteps, Links, Lists, Dead, Sends,
        RowsHaveObjects, NoForgottenObject
  <1>5. NoForgottenObject'
    BY DEF CleanRow, SetRun, DropRow, userVars, reqVars, pastVars, chatVars,
        NoForgottenObject, FilesTypes, ReqType, RunType, Key, Holds, HoldsAt, MadeIsNew,
        Making, NotInUse, Named, Listed, FreshIsNew, Steps, RunSteps, Links, Lists, Dead,
        Sends, RowsHaveObjects, InUseIsKept
  <1> QED BY <1>t, <1>1, <1>2, <1>3, <1>4, <1>5

LEMMA JobEndsKeeps == ASSUME FilesInv, NEW j \in Run, JobEnds(j) PROVE FilesInv'
  <1> USE FilesAssumption DEF FilesInv
  <1>1. /\ FilesTypes' /\ Holds' /\ MadeIsNew' /\ Links'
        /\ Sends' /\ RowsHaveObjects' /\ InUseIsKept' /\ NoForgottenObject'
    BY DEF JobEnds, SetRun, NoRun, Released, fileVars, userVars, reqVars, pastVars,
        chatVars, FilesTypes, ReqType, RunType, Key, Steps, RunSteps, Holds, HoldsAt,
        MadeIsNew, Making, NotInUse, Named, Listed, Links, Sends, RowsHaveObjects, Dead,
        InUseIsKept, NoForgottenObject
  <1>2. FreshIsNew'
    BY DEF JobEnds, SetRun, NoRun, Released, fileVars, userVars, reqVars, pastVars,
        chatVars, FreshIsNew, NotInUse, Named, Listed, FilesTypes, ReqType, RunType, Key
  <1>3. Lists'
    BY DEF JobEnds, SetRun, NoRun, Released, fileVars, userVars, reqVars, pastVars,
        chatVars, Lists, Listed, Dead, FilesTypes, ReqType, RunType, Key
  <1> QED BY <1>1, <1>2, <1>3

LEMMA JobFailsKeeps == ASSUME FilesInv, NEW j \in Run, JobFails(j) PROVE FilesInv'
  <1> USE FilesAssumption DEF FilesInv
  <1>1. /\ FilesTypes' /\ Holds' /\ MadeIsNew' /\ Links'
        /\ Sends' /\ RowsHaveObjects' /\ InUseIsKept' /\ NoForgottenObject'
    BY DEF JobFails, SetRun, NoRun, Released, fileVars, userVars, reqVars, chatVars,
        FilesTypes, ReqType, RunType, Key, Steps, RunSteps, Holds, HoldsAt, MadeIsNew,
        Making, NotInUse, Named, Listed, Links, Sends, RowsHaveObjects, Dead, InUseIsKept,
        NoForgottenObject
  <1>2. FreshIsNew'
    BY DEF JobFails, SetRun, NoRun, Released, fileVars, userVars, reqVars, chatVars,
        FreshIsNew, NotInUse, Named, Listed, FilesTypes, ReqType, RunType, Key
  <1>3. Lists'
    BY DEF JobFails, SetRun, NoRun, Released, fileVars, userVars, reqVars, chatVars, Lists,
        Listed, Dead, FilesTypes, ReqType, RunType, Key
  <1> QED BY <1>1, <1>2, <1>3

LEMMA LockExpiresKeeps == ASSUME FilesInv, LockExpires PROVE FilesInv'
  <1> USE FilesAssumption DEF FilesInv
  <1>1. /\ FilesTypes' /\ Holds' /\ FreshIsNew' /\ MadeIsNew' /\ Links'
        /\ Lists' /\ Sends' /\ RowsHaveObjects' /\ InUseIsKept' /\ NoForgottenObject'
    BY DEF LockExpires, fileVars, userVars, reqVars, pastVars, chatVars, FilesTypes,
        ReqType, RunType, Key, Steps, RunSteps, Holds, HoldsAt, FreshIsNew, NotInUse, Named,
        Listed, MadeIsNew, Making, Links, Lists, Dead, Sends, RowsHaveObjects, InUseIsKept,
        NoForgottenObject
  <1> QED BY <1>1

LEMMA AgeKeeps == ASSUME FilesInv, NEW k \in Key, Age(k) PROVE FilesInv'
  <1> USE FilesAssumption DEF FilesInv
  <1>1. /\ FilesTypes' /\ Holds' /\ FreshIsNew' /\ MadeIsNew' /\ Links'
        /\ Lists' /\ Sends' /\ RowsHaveObjects' /\ InUseIsKept' /\ NoForgottenObject'
    BY DEF Age, userVars, reqVars, jobVars, pastVars, chatVars, FilesTypes, ReqType,
        RunType, Key, Steps, RunSteps, Holds, HoldsAt, FreshIsNew, NotInUse, Named, Listed,
        MadeIsNew, Making, Links, Lists, Dead, Sends, RowsHaveObjects, InUseIsKept,
        NoForgottenObject
  <1> QED BY <1>1

(***************************************************************************)
(* The theorems.                                                           *)
(***************************************************************************)
LEMMA FilesStart == FilesInit(Key) => FilesInv
  <1> SUFFICES ASSUME FilesInit(Key) PROVE FilesInv OBVIOUS
  <1> USE FilesAssumption DEF FilesInit
  <1>1. FilesTypes BY NoReqTyped, NoRunTyped DEF FilesTypes, Steps
  <1>2. Holds BY DEF Holds, HoldsAt, NoReq
  <1>3. FreshIsNew BY DEF FreshIsNew, NotInUse, Named, Listed, NoReq, NoRun, Key
  <1>4. MadeIsNew BY DEF MadeIsNew, Making
  <1>5. Links /\ RowsHaveObjects /\ InUseIsKept /\ NoForgottenObject
    BY DEF Links, RowsHaveObjects, InUseIsKept, NoForgottenObject
  <1>6. Lists BY DEF Lists, Listed, NoRun
  <1>7. Sends BY DEF Sends, NoReq
  <1> QED BY <1>1, <1>2, <1>3, <1>4, <1>5, <1>6, <1>7 DEF FilesInv

LEMMA FilesStutter == FilesInv /\ UNCHANGED vars => FilesInv'
  BY DEF vars, fileVars, userVars, chatVars, reqVars, jobVars, pastVars, FilesInv, FilesTypes,
         Holds, HoldsAt, FreshIsNew, MadeIsNew, NotInUse, Making, Named, Listed, Links, Lists,
         Dead, Sends, RowsHaveObjects, InUseIsKept, NoForgottenObject

LEMMA FilesStep == FilesInv /\ [FilesNext]_vars => FilesInv'
  <1> SUFFICES ASSUME FilesInv, [FilesNext]_vars PROVE FilesInv' OBVIOUS
  <1>1. CASE UNCHANGED vars BY <1>1, FilesStutter
  <1>2. ASSUME NEW r \in Req, NEW f \in Upload, UploadStart(r, f) \/ DeleteStart(r, f)
       PROVE  FilesInv'
    BY <1>2, UploadStartKeeps, DeleteStartKeeps
  <1>3. ASSUME NEW r \in Req, NEW m \in Message, SendStart(r, m) PROVE FilesInv'
    BY <1>3, SendStartKeeps
  <1>4. ASSUME NEW r \in Req, NEW k \in Avatar, SignupStart(r, k) \/ AvatarStart(r, k)
       PROVE  FilesInv'
    BY <1>4, SignupStartKeeps, AvatarStartKeeps
  <1>5. ASSUME NEW r \in Req, UploadSteps(r) PROVE FilesInv'
    BY <1>5, UploadStoreKeeps, UploadRowKeeps, DeleteObjectKeeps, DeleteRowKeeps DEF UploadSteps
  <1>6. ASSUME NEW r \in Req, SendSteps(r) PROVE FilesInv'
    BY <1>6, SendCheckKeeps, SendCreateKeeps, SendLinkKeeps DEF SendSteps
  <1>7. ASSUME NEW r \in Req, AvatarSteps(r) PROVE FilesInv'
    BY <1>7, SignupStoreKeeps, SignupRowKeeps, SignupUserKeeps, AvatarStoreKeeps,
       AvatarSetKeeps, AvatarDropKeeps DEF AvatarSteps
  <1>8. ASSUME NEW r \in Req, Stop(r) \/ SignupWithout(r) PROVE FilesInv'
    BY <1>8, StopKeeps, SignupWithoutKeeps
  <1>9. ASSUME NEW j \in Run, JobStart(j) \/ JobSteps(j) \/ JobFails(j) PROVE FilesInv'
    BY <1>9, JobStartKeeps, ListUnlinkedKeeps, ListAvatarsKeeps, ListLiveKeeps, ListDeletedKeeps,
       CleanObjectKeeps, CleanRowKeeps, JobEndsKeeps, JobFailsKeeps DEF JobSteps
  <1>10. ASSUME NEW m \in Message, DeleteMessage(m) PROVE FilesInv' BY <1>10, DeleteMessageKeeps
  <1>11. ASSUME NEW f \in Photos, SetPhoto(f) PROVE FilesInv' BY <1>11, SetPhotoKeeps
  <1>12. ASSUME NEW k \in Key, Age(k) PROVE FilesInv' BY <1>12, AgeKeeps
  <1>13. CASE DeleteChat \/ AvatarUrl \/ LockExpires
    BY <1>13, DeleteChatKeeps, AvatarUrlKeeps, LockExpiresKeeps
  <1> QED
    BY <1>1, <1>2, <1>3, <1>4, <1>5, <1>6, <1>7, <1>8, <1>9, <1>10, <1>11, <1>12, <1>13
    DEF FilesNext

LEMMA FilesAlways == FilesSpec => []FilesInv
  BY FilesStart, FilesStep, PTL DEF FilesSpec

\* What a message or the profile uses stays stored and linked, whatever the job finds:
\* cleanupOrphans against sendMessage, its retry and uploadAvatar.
THEOREM InUseStays == FilesSpec => []InUseIsKept
  <1>1. FilesInv => InUseIsKept BY DEF FilesInv
  <1> QED BY <1>1, FilesAlways, PTL

\* An object without a row belongs to an upload in progress, to one that stopped there or to
\* a deleted group: upload, delete and cleanupOrphans forget none.
THEOREM NothingForgotten == FilesSpec => []NoForgottenObject
  <1>1. FilesInv => NoForgottenObject BY DEF FilesInv
  <1> QED BY <1>1, FilesAlways, PTL

=============================================================================
