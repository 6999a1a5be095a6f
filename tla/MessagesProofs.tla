---------------------------- MODULE MessagesProofs ----------------------------
(***************************************************************************)
(* Messages, for any number of people, messages and handlers: what the room*)
(* was told is what the table says, a deleted message has no text, and the *)
(* reactions add up - where no handlers overlapped on a message and none   *)
(* failed, respectively always.  ChatThreads inherits all of it: what its  *)
(* browsers do to the server is what Messages allows.                      *)
(*                                                                         *)
(* Of the browsers: a send is one message however often it is retried, a   *)
(* page that was left alone shows what the table says, and leaves nothing  *)
(* unread.                                                                 *)
(***************************************************************************)
EXTENDS ChatThreads, TLAPS, WellFoundedInduction

\* Which handler can be at which step.
StepsOfOp ==
  \A r \in Req :
    /\ pc[r] = "create" => req[r].op = "send"
    /\ pc[r] = "edit" => req[r].op = "edit"
    /\ pc[r] = "delete" => req[r].op = "delete"
    /\ pc[r] \in {"find", "toggle", "reread"} => req[r].op = "react"
    /\ pc[r] \in {"exists", "point", "clear"} => req[r].op = "read"

\* A message that is worked on is in the table, or about to be.
WorkedIsWritten ==
  \A r \in Req : pc[r] \in Working \ {"create"} /\ req[r].op # "read" => Written(req[r].key)

\* Nobody has reacted to a message that is not there.
UnwrittenIsBlank == \A k \in Key : ~Written(k) => flipped[k] = {}

\* Handlers on a message or pointer that is not shaken are alone with it, or all of
\* them are attempts of one send.
Alone ==
  \A q, r \in Req :
    q # r /\ pc[q] \in Working /\ pc[r] \in Working /\ Subject(q) = Subject(r)
      /\ Subject(r) \notin shaken => req[q].op = "send" /\ req[r].op = "send"

\* What a handler is about to tell is what the table says.
NewsIsTrue ==
  \A r \in Req : pc[r] = "tell" /\ Subject(r) \notin shaken => News(r) = Value(Subject(r))

\* What the table says was told, or somebody is going to tell it.
ToldOrTelling ==
  \A s \in Entry :
    s \notin shaken =>
      \/ told[s] = Value(s) \/ (s \in User /\ read[s] = None)
      \/ \E r \in Req : pc[r] \in {"reread", "tell"} /\ Subject(r) = s

\* An edit that is about to be written is not of a deleted message.
EditSeesMessage ==
  \A r \in Req : pc[r] = "edit" /\ req[r].key \notin shaken => ~row[req[r].key].gone

MessagesInv ==
  /\ MessagesTypeOK /\ StepsOfOp /\ WorkedIsWritten /\ Alone /\ NewsIsTrue
  /\ ToldOrTelling /\ EditSeesMessage /\ DeletedHasNoText /\ TogglesCount
  /\ UnwrittenIsBlank

\* The invariant is what the properties need.
LEMMA InvGivesTold == MessagesInv => ToldIsTrue
  BY DEF MessagesInv, ToldOrTelling, ToldIsTrue, At, Entry, Value, Working, Steps

\* Nothing has happened yet.
LEMMA InitMessagesInv == MessagesInit(<<>>, {}) => MessagesInv
<1> SUFFICES ASSUME MessagesInit(<<>>, {}) PROVE MessagesInv
  OBVIOUS
<1> USE MessagesAssumption DEF MessagesInit
<1>0. \A k \in Key : ~Contains(<<>>, k)
  BY DEF Contains
<1>1. row = [k \in Key |-> NoRow] /\ read = [u \in User |-> None]
  BY <1>0
<1>2. NoRow \in RowType /\ NoReq \in ReqType
  BY DEF NoRow, RowType, NoReq, Request, ReqType
<1>3. told \in [User \cup Key -> RowType \cup Key \cup {None}]
  BY <1>1, <1>2 DEF Value
<1>4. MessagesTypeOK
  <2>1. row \in [Key -> RowType] /\ got \in [Req -> RowType] /\ req \in [Req -> ReqType]
    BY <1>1, <1>2
  <2>2. log \in Seq(Key) /\ read \in [User -> Key \cup {None}] /\ pc \in [Req -> Steps]
    BY <1>1 DEF Steps
  <2>3. added \in 0..Reactions /\ mishaps \in 0..Mishaps /\ flipped \in [Key -> SUBSET User]
    OBVIOUS
  <2> QED BY <1>3, <2>1, <2>2, <2>3 DEF MessagesTypeOK
<1>5. StepsOfOp /\ WorkedIsWritten /\ Alone /\ NewsIsTrue /\ EditSeesMessage
  BY DEF StepsOfOp, WorkedIsWritten, Alone, NewsIsTrue, EditSeesMessage, Working, Steps
<1>6. ToldOrTelling
  BY DEF ToldOrTelling, Entry
<1>7. DeletedHasNoText /\ TogglesCount /\ UnwrittenIsBlank
  BY <1>1 DEF DeletedHasNoText, TogglesCount, UnwrittenIsBlank, NoRow
<1> QED BY <1>4, <1>5, <1>6, <1>7 DEF MessagesInv

\* What a handler works on is a pointer for a mark, and a message otherwise.
LEMMA SubjectType ==
  ASSUME MessagesTypeOK, NEW r \in Req, pc[r] # "idle"
  PROVE  /\ Subject(r) \in User \cup Key
         /\ Subject(r) \in User <=> req[r].op = "read"
         /\ req[r].op # "read" => req[r].key \in Key /\ row[req[r].key] \in RowType
  BY MessagesAssumption DEF MessagesTypeOK, Subject

LEMMA NoReqType == NoReq \in ReqType /\ NoReq.op = "none" /\ NoReq.like = 0
  BY MessagesAssumption DEF NoReq, Request, ReqType

\* The rows that handlers write.
LEMMA RowTypes ==
  /\ NoRow \in RowType
  /\ \A w \in RowType, t \in Text \cup {None} : [w EXCEPT !.text = t] \in RowType
  /\ \A w \in RowType : [w EXCEPT !.gone = TRUE, !.text = None] \in RowType
<1>1. NoRow \in RowType
  BY MessagesAssumption DEF NoRow, RowType
<1>2. \A w \in RowType, t \in Text \cup {None} : [w EXCEPT !.text = t] \in RowType
  BY DEF RowType
<1>3. \A w \in RowType : [w EXCEPT !.gone = TRUE, !.text = None] \in RowType
  BY DEF RowType
<1> QED BY <1>1, <1>2, <1>3

\* What becomes of a request while it is handled.
LEMMA ReqTypes ==
  /\ \A q \in ReqType, n \in 0..Reactions :
       [q EXCEPT !.like = n] \in ReqType
  /\ \A q \in ReqType, k \in Key : [q EXCEPT !.key = k] \in ReqType
  BY DEF ReqType

\* A reaction that comes or goes.
LEMMA LikeType ==
  ASSUME NEW w \in RowType, NEW u \in User, NEW n \in 0..Reactions
  PROVE  [w EXCEPT !.likes = [w.likes EXCEPT ![u] = n]] \in RowType
<1>1. [w.likes EXCEPT ![u] = n] \in [User -> 0..Reactions]
  BY DEF RowType
<1> QED BY <1>1 DEF RowType

\* A handler gets to work, alone or not.
LEMMA BeginType ==
  ASSUME MessagesTypeOK, NEW r \in Req, pc[r] # "idle", NEW p \in Steps, Begin(r, p)
  PROVE  pc' \in [Req -> Steps] /\ shaken' \in SUBSET (User \cup Key)
  BY SubjectType DEF MessagesTypeOK, Begin, Goto

\* A send begins: it is new, or was sent before.
LEMMA SendStartKeeps == ASSUME MessagesInv, NEW r \in Req, SendStart(r) PROVE MessagesInv'
<1> USE MessagesAssumption DEF MessagesInv
<1>1. MessagesTypeOK'
  <2>1. req[r].key \in Key /\ row[req[r].key] \in RowType
    BY SubjectType DEF SendStart
  <2>2. pc' \in [Req -> Steps] /\ shaken' \in SUBSET (User \cup Key)
    BY BeginType DEF SendStart, Goto, MessagesTypeOK, Steps
  <2>3. got' \in [Req -> RowType]
    BY <2>1 DEF SendStart, Holds, MessagesTypeOK
  <2>4. pc'[r] \in {"answer", "create"} /\ \A q \in Req \ {r} : pc'[q] = pc[q]
    BY DEF SendStart, Begin, Goto, MessagesTypeOK
  <2> QED BY <2>2, <2>3, <2>4 DEF SendStart, MessagesTypeOK, tables
<1>2. StepsOfOp'
  BY DEF SendStart, Goto, Holds, Begin, Clash, tables, MessagesTypeOK, StepsOfOp
<1>3. WorkedIsWritten'
  BY DEF SendStart, Goto, Holds, Begin, Clash, tables, MessagesTypeOK, Steps, Working, StepsOfOp, WorkedIsWritten, Written, Visible, Contains
<1>4. Alone'
  BY DEF SendStart, Goto, Holds, Begin, Clash, tables, MessagesTypeOK, Steps, Working, StepsOfOp, Alone, Subject
<1>5. NewsIsTrue'
  BY DEF SendStart, Goto, Holds, Begin, Clash, tables, MessagesTypeOK, Steps, Working, StepsOfOp, WorkedIsWritten, Alone, NewsIsTrue, Subject, News, Value
<1>6. ToldOrTelling'
  <2>1. UNCHANGED <<log, row, read, told, req>> /\ shaken \subseteq shaken'
    BY DEF SendStart, Begin, tables
  <2>2. \A q \in Req : pc[q] \in {"reread", "tell"} => pc'[q] = pc[q]
    BY DEF SendStart, Begin, Goto, MessagesTypeOK
  <2> QED BY <2>1, <2>2 DEF ToldOrTelling, Subject, Value
<1>7. EditSeesMessage'
  BY DEF SendStart, Goto, Holds, Begin, Clash, tables, MessagesTypeOK, Steps, Working, StepsOfOp, Alone, EditSeesMessage, Subject, Visible, NoRow
<1>8. DeletedHasNoText'
  BY DEF SendStart, Goto, Holds, Begin, Clash, tables, MessagesTypeOK, RowType, Steps, StepsOfOp, EditSeesMessage, DeletedHasNoText, NoRow, Subject
<1>9. TogglesCount'
  BY DEF SendStart, Goto, Holds, Begin, Clash, tables, MessagesTypeOK, RowType, Steps, StepsOfOp, TogglesCount, UnwrittenIsBlank, NoRow
<1>10. UnwrittenIsBlank'
  BY DEF SendStart, Goto, Holds, Begin, Clash, tables, MessagesTypeOK, Steps, Working, StepsOfOp, WorkedIsWritten, UnwrittenIsBlank, Written, Contains
<1> QED BY <1>1, <1>2, <1>3, <1>4, <1>5, <1>6, <1>7, <1>8, <1>9, <1>10

\* The row is created, or was by an earlier attempt.
LEMMA SendCreateKeeps == ASSUME MessagesInv, NEW r \in Req, SendCreate(r) PROVE MessagesInv'
<1> USE MessagesAssumption DEF MessagesInv
<1> DEFINE k == req[r].key
           new == [NoRow EXCEPT !.text = req[r].text]
<1>0. k \in Key /\ row[k] \in RowType /\ req[r].text \in Text \cup {None}
  BY SubjectType DEF SendCreate, MessagesTypeOK, StepsOfOp, ReqType
<1>a. new \in RowType /\ new.gone = FALSE /\ new.likes = [u \in User |-> 0]
  BY <1>0, RowTypes DEF NoRow
<1>b. \/ ~Written(k) /\ log' = Append(log, k)
         /\ row' = [row EXCEPT ![k] = new] /\ got' = [got EXCEPT ![r] = new]
      \/ log' = log /\ row' = row /\ got' = [got EXCEPT ![r] = row[k]]
  BY <1>0 DEF SendCreate, Holds, MessagesTypeOK
<1>1. MessagesTypeOK'
  <2>1. row' \in [Key -> RowType] /\ got' \in [Req -> RowType] /\ log' \in Seq(Key)
    <3>1. row' \in [Key -> RowType]
      BY <1>0, <1>a, <1>b DEF MessagesTypeOK
    <3>2. got' \in [Req -> RowType]
      <4>1. got \in [Req -> RowType] /\ \E v \in RowType : got' = [got EXCEPT ![r] = v]
        BY <1>0, <1>a, <1>b DEF MessagesTypeOK
      <4> HIDE DEF MessagesInv
      <4> QED BY <4>1
    <3>3. log' \in Seq(Key)
      <4>1. log \in Seq(Key) /\ k \in Key /\ log' \in {log, Append(log, k)}
        BY <1>0, <1>b DEF MessagesTypeOK
      <4> HIDE DEF MessagesInv, k
      <4> QED BY <4>1
    <3> QED BY <3>1, <3>2, <3>3
  <2>2. /\ UNCHANGED <<read, req, told, added, flipped, shaken, mishaps>>
        /\ pc' \in [Req -> Steps] /\ pc'[r] = "tell" /\ \A q \in Req \ {r} : pc'[q] = pc[q]
    BY DEF SendCreate, Goto, MessagesTypeOK, Steps
  <2>3. pc[r] = "create"
    BY DEF SendCreate
  <2> HIDE DEF k, new
  <2> QED BY <2>1, <2>2, <2>3 DEF MessagesTypeOK
<1>2. StepsOfOp'
  BY DEF SendCreate, Goto, Holds, MessagesTypeOK, StepsOfOp
<1>3. WorkedIsWritten'
  BY DEF SendCreate, Goto, Holds, MessagesTypeOK, Steps, Working, StepsOfOp, WorkedIsWritten, Written, Visible, Contains
<1>4. Alone'
  BY DEF SendCreate, Goto, Holds, MessagesTypeOK, Steps, Working, StepsOfOp, Alone, Subject
<1>5. NewsIsTrue'
  BY DEF SendCreate, Goto, Holds, MessagesTypeOK, Steps, Working, StepsOfOp, WorkedIsWritten, Alone, NewsIsTrue, Subject, News, Value
<1>6. ToldOrTelling'
  BY DEF SendCreate, Goto, Holds, MessagesTypeOK, Steps, Working, StepsOfOp, Alone, NewsIsTrue, ToldOrTelling, Subject, News, Value, Entry
<1>7. EditSeesMessage'
  BY DEF SendCreate, Goto, Holds, MessagesTypeOK, Steps, Working, StepsOfOp, Alone, EditSeesMessage, Subject, Visible, NoRow
<1>8. DeletedHasNoText'
  BY <1>0, <1>a, <1>b DEF SendCreate, MessagesTypeOK, DeletedHasNoText
<1>9. TogglesCount'
  <2>1. flipped' = flipped
    BY DEF SendCreate
  <2>2. CASE ~Written(k) /\ row' = [row EXCEPT ![k] = new]
    <3>1. \A j \in Key \ {k} : row'[j] = row[j]
      BY <1>0, <2>2 DEF MessagesTypeOK
    <3>2. \A v \in User : row'[k].likes[v] = 0 /\ v \notin flipped[k]
      BY <1>0, <1>a, <2>2 DEF MessagesTypeOK, UnwrittenIsBlank
    <3> HIDE DEF k, new
    <3> QED BY <1>0, <2>1, <3>1, <3>2 DEF TogglesCount
  <2>3. CASE row' = row
    BY <2>1, <2>3 DEF TogglesCount
  <2> QED BY <1>b, <2>2, <2>3
<1>10. UnwrittenIsBlank'
  BY DEF SendCreate, Goto, Holds, MessagesTypeOK, Steps, Working, StepsOfOp, WorkedIsWritten, UnwrittenIsBlank, Written, Contains
<1> QED BY <1>1, <1>2, <1>3, <1>4, <1>5, <1>6, <1>7, <1>8, <1>9, <1>10

\* An edit or a deletion is checked.
LEMMA ChangeStartKeeps == ASSUME MessagesInv, NEW r \in Req, ChangeStart(r) PROVE MessagesInv'
<1> USE MessagesAssumption DEF MessagesInv
<1>1. MessagesTypeOK'
  <2>1. pc' \in [Req -> Steps] /\ shaken' \in SUBSET (User \cup Key)
    BY BeginType DEF ChangeStart, Goto, MessagesTypeOK, Steps
  <2> QED BY <2>1 DEF ChangeStart, Begin, Goto, MessagesTypeOK, tables
<1>2. StepsOfOp'
  BY DEF ChangeStart, Goto, Begin, Clash, tables, MessagesTypeOK, StepsOfOp
<1>3. WorkedIsWritten'
  BY DEF ChangeStart, Goto, Begin, Clash, tables, MessagesTypeOK, Steps, Working, StepsOfOp, WorkedIsWritten, Written, Visible, Contains
<1>4. Alone'
  BY DEF ChangeStart, Goto, Begin, Clash, tables, MessagesTypeOK, Steps, Working, StepsOfOp, Alone, Subject
<1>5. NewsIsTrue'
  BY DEF ChangeStart, Goto, Begin, Clash, tables, MessagesTypeOK, Steps, Working, StepsOfOp, WorkedIsWritten, Alone, NewsIsTrue, Subject, News, Value
<1>6. ToldOrTelling'
  BY DEF ChangeStart, Goto, Begin, Clash, tables, MessagesTypeOK, Steps, Working, StepsOfOp, Alone, NewsIsTrue, ToldOrTelling, Subject, News, Value, Entry
<1>7. EditSeesMessage'
  BY DEF ChangeStart, Goto, Begin, Clash, tables, MessagesTypeOK, Steps, Working, StepsOfOp, Alone, EditSeesMessage, Subject, Visible, NoRow
<1>8. DeletedHasNoText'
  BY DEF ChangeStart, Goto, Begin, Clash, tables, MessagesTypeOK, RowType, Steps, StepsOfOp, EditSeesMessage, DeletedHasNoText, NoRow, Subject
<1>9. TogglesCount'
  BY DEF ChangeStart, Goto, Begin, Clash, tables, MessagesTypeOK, RowType, Steps, StepsOfOp, TogglesCount, UnwrittenIsBlank, NoRow
<1>10. UnwrittenIsBlank'
  BY DEF ChangeStart, Goto, Begin, Clash, tables, MessagesTypeOK, Steps, Working, StepsOfOp, WorkedIsWritten, UnwrittenIsBlank, Written, Contains
<1> QED BY <1>1, <1>2, <1>3, <1>4, <1>5, <1>6, <1>7, <1>8, <1>9, <1>10

\* A text is written over the one that is there.
LEMMA EditWriteKeeps == ASSUME MessagesInv, NEW r \in Req, EditWrite(r) PROVE MessagesInv'
<1> USE MessagesAssumption DEF MessagesInv
<1>1. MessagesTypeOK'
  <2>1. req[r].key \in Key /\ row[req[r].key] \in RowType
    BY SubjectType DEF EditWrite, StepsOfOp
  <2>2. req[r].text \in Text \cup {None}
    BY DEF MessagesTypeOK, ReqType
  <2>3. [row[req[r].key] EXCEPT !.text = req[r].text] \in RowType
    BY <2>1, <2>2, RowTypes
  <2>4. row' \in [Key -> RowType]
    BY <2>1, <2>3 DEF EditWrite, MessagesTypeOK
  <2>5. got' \in [Req -> RowType]
    BY <2>1, <2>4 DEF EditWrite, Holds, MessagesTypeOK
  <2> QED BY <2>4, <2>5 DEF EditWrite, Goto, MessagesTypeOK, Steps
<1>2. StepsOfOp'
  BY DEF EditWrite, Goto, Holds, MessagesTypeOK, StepsOfOp
<1>3. WorkedIsWritten'
  BY DEF EditWrite, Goto, Holds, MessagesTypeOK, Steps, Working, StepsOfOp, WorkedIsWritten, Written, Visible, Contains
<1>4. Alone'
  BY DEF EditWrite, Goto, Holds, MessagesTypeOK, Steps, Working, StepsOfOp, Alone, Subject
<1>5. NewsIsTrue'
  BY DEF EditWrite, Goto, Holds, MessagesTypeOK, Steps, Working, StepsOfOp, WorkedIsWritten, Alone, NewsIsTrue, Subject, News, Value
<1>6. ToldOrTelling'
  BY DEF EditWrite, Goto, Holds, MessagesTypeOK, Steps, Working, StepsOfOp, Alone, NewsIsTrue, ToldOrTelling, Subject, News, Value, Entry
<1>7. EditSeesMessage'
  BY DEF EditWrite, Goto, Holds, MessagesTypeOK, Steps, Working, StepsOfOp, Alone, EditSeesMessage, Subject, Visible, NoRow
<1>8. DeletedHasNoText'
  BY DEF EditWrite, Goto, Holds, MessagesTypeOK, RowType, Steps, StepsOfOp, EditSeesMessage, DeletedHasNoText, NoRow, Subject
<1>9. TogglesCount'
  BY DEF EditWrite, Goto, Holds, MessagesTypeOK, RowType, Steps, StepsOfOp, TogglesCount, UnwrittenIsBlank, NoRow
<1>10. UnwrittenIsBlank'
  BY DEF EditWrite, Goto, Holds, MessagesTypeOK, Steps, Working, StepsOfOp, WorkedIsWritten, UnwrittenIsBlank, Written, Contains
<1> QED BY <1>1, <1>2, <1>3, <1>4, <1>5, <1>6, <1>7, <1>8, <1>9, <1>10

\* A message is marked deleted.
LEMMA DeleteWriteKeeps == ASSUME MessagesInv, NEW r \in Req, DeleteWrite(r) PROVE MessagesInv'
<1> USE MessagesAssumption DEF MessagesInv
<1>1. MessagesTypeOK'
  <2>1. req[r].key \in Key /\ row[req[r].key] \in RowType
    BY SubjectType DEF DeleteWrite, StepsOfOp
  <2>2. [row[req[r].key] EXCEPT !.gone = TRUE, !.text = None] \in RowType
    BY <2>1, RowTypes
  <2>3. row' \in [Key -> RowType]
    BY <2>1, <2>2 DEF DeleteWrite, MessagesTypeOK
  <2>4. got' \in [Req -> RowType]
    BY <2>1, <2>3 DEF DeleteWrite, Holds, MessagesTypeOK
  <2>5. pc' \in [Req -> Steps]
    BY DEF DeleteWrite, Goto, MessagesTypeOK, Steps
  <2>6. \A q \in Req : pc'[q] # "idle" => pc[q] # "idle"
    BY DEF DeleteWrite, Goto, MessagesTypeOK
  <2>7. \A q \in Req : pc'[q] \in {"exists", "point"} => pc[q] \in {"exists", "point"}
    BY DEF DeleteWrite, Goto, MessagesTypeOK
  <2> QED BY <2>3, <2>4, <2>5, <2>6, <2>7 DEF DeleteWrite, MessagesTypeOK
<1>2. StepsOfOp'
  BY DEF DeleteWrite, Goto, Holds, MessagesTypeOK, StepsOfOp
<1>3. WorkedIsWritten'
  BY DEF DeleteWrite, Goto, Holds, MessagesTypeOK, Steps, Working, StepsOfOp, WorkedIsWritten, Written, Visible, Contains
<1>4. Alone'
  BY DEF DeleteWrite, Goto, Holds, MessagesTypeOK, Steps, Working, StepsOfOp, Alone, Subject
<1>5. NewsIsTrue'
  BY DEF DeleteWrite, Goto, Holds, MessagesTypeOK, Steps, Working, StepsOfOp, WorkedIsWritten, Alone, NewsIsTrue, Subject, News, Value
<1>6. ToldOrTelling'
  <2>1. Subject(r) = req[r].key /\ UNCHANGED <<log, read, told, req, shaken>>
    BY DEF DeleteWrite, StepsOfOp, Subject
  <2>2. pc'[r] = "tell" /\ \A q \in Req \ {r} : pc'[q] = pc[q]
    BY DEF DeleteWrite, Goto, MessagesTypeOK
  <2>3. \A s \in Entry \ {req[r].key} : Value(s)' = Value(s)
    BY DEF DeleteWrite, Value, Entry, MessagesTypeOK
  <2> QED BY <2>1, <2>2, <2>3 DEF ToldOrTelling, Subject, DeleteWrite
<1>7. EditSeesMessage'
  BY DEF DeleteWrite, Goto, Holds, MessagesTypeOK, Steps, Working, StepsOfOp, Alone, EditSeesMessage, Subject, Visible, NoRow
<1>8. DeletedHasNoText'
  BY DEF DeleteWrite, Goto, Holds, MessagesTypeOK, RowType, Steps, StepsOfOp, EditSeesMessage, DeletedHasNoText, NoRow, Subject
<1>9. TogglesCount'
  BY DEF DeleteWrite, Goto, Holds, MessagesTypeOK, RowType, Steps, StepsOfOp, TogglesCount, UnwrittenIsBlank, NoRow
<1>10. UnwrittenIsBlank'
  BY DEF DeleteWrite, Goto, Holds, MessagesTypeOK, Steps, Working, StepsOfOp, WorkedIsWritten, UnwrittenIsBlank, Written, Contains
<1> QED BY <1>1, <1>2, <1>3, <1>4, <1>5, <1>6, <1>7, <1>8, <1>9, <1>10

\* A toggle is checked.
LEMMA ReactStartKeeps == ASSUME MessagesInv, NEW r \in Req, ReactStart(r) PROVE MessagesInv'
<1> USE MessagesAssumption DEF MessagesInv
<1>1. MessagesTypeOK'
  <2>1. pc' \in [Req -> Steps] /\ shaken' \in SUBSET (User \cup Key)
    BY BeginType DEF ReactStart, Goto, MessagesTypeOK, Steps
  <2> QED BY <2>1 DEF ReactStart, Begin, Goto, MessagesTypeOK, tables
<1>2. StepsOfOp'
  BY DEF ReactStart, Goto, Begin, Clash, tables, MessagesTypeOK, StepsOfOp
<1>3. WorkedIsWritten'
  BY DEF ReactStart, Goto, Begin, Clash, tables, MessagesTypeOK, Steps, Working, StepsOfOp, WorkedIsWritten, Written, Visible, Contains
<1>4. Alone'
  BY DEF ReactStart, Goto, Begin, Clash, tables, MessagesTypeOK, Steps, Working, StepsOfOp, Alone, Subject
<1>5. NewsIsTrue'
  BY DEF ReactStart, Goto, Begin, Clash, tables, MessagesTypeOK, Steps, Working, StepsOfOp, WorkedIsWritten, Alone, NewsIsTrue, Subject, News, Value
<1>6. ToldOrTelling'
  BY DEF ReactStart, Goto, Begin, Clash, tables, MessagesTypeOK, Steps, Working, StepsOfOp, Alone, NewsIsTrue, ToldOrTelling, Subject, News, Value, Entry
<1>7. EditSeesMessage'
  BY DEF ReactStart, Goto, Begin, Clash, tables, MessagesTypeOK, Steps, Working, StepsOfOp, Alone, EditSeesMessage, Subject, Visible, NoRow
<1>8. DeletedHasNoText'
  BY DEF ReactStart, Goto, Begin, Clash, tables, MessagesTypeOK, RowType, Steps, StepsOfOp, EditSeesMessage, DeletedHasNoText, NoRow, Subject
<1>9. TogglesCount'
  BY DEF ReactStart, Goto, Begin, Clash, tables, MessagesTypeOK, RowType, Steps, StepsOfOp, TogglesCount, UnwrittenIsBlank, NoRow
<1>10. UnwrittenIsBlank'
  BY DEF ReactStart, Goto, Begin, Clash, tables, MessagesTypeOK, Steps, Working, StepsOfOp, WorkedIsWritten, UnwrittenIsBlank, Written, Contains
<1> QED BY <1>1, <1>2, <1>3, <1>4, <1>5, <1>6, <1>7, <1>8, <1>9, <1>10

\* The reaction is looked for.
LEMMA FindReactionKeeps == ASSUME MessagesInv, NEW r \in Req, FindReaction(r) PROVE MessagesInv'
<1> USE MessagesAssumption DEF MessagesInv
<1>1. MessagesTypeOK'
  <2>0. row[req[r].key] \in RowType /\ req[r].user \in User /\ req[r] \in ReqType
    BY SubjectType DEF FindReaction, StepsOfOp, MessagesTypeOK
  <2>1. row[req[r].key].likes[req[r].user] \in 0..Reactions
    BY <2>0 DEF RowType
  <2>2. req' \in [Req -> ReqType]
    BY <2>0, <2>1, ReqTypes DEF FindReaction, MessagesTypeOK
  <2>3. \A q \in Req : /\ req'[q].op = req[q].op /\ req'[q].key = req[q].key
                       /\ req'[q].user = req[q].user
    BY DEF FindReaction, MessagesTypeOK, ReqType
  <2> QED BY <2>2, <2>3 DEF FindReaction, Goto, MessagesTypeOK, tables, Steps
<1>2. StepsOfOp'
  BY DEF FindReaction, Goto, tables, MessagesTypeOK, StepsOfOp
<1>3. WorkedIsWritten'
  BY DEF FindReaction, Goto, tables, MessagesTypeOK, Steps, Working, StepsOfOp, WorkedIsWritten, Written, Visible, Contains
<1>4. Alone'
  BY DEF FindReaction, Goto, tables, MessagesTypeOK, Steps, Working, StepsOfOp, Alone, Subject
<1>5. NewsIsTrue'
  BY DEF FindReaction, Goto, tables, MessagesTypeOK, Steps, Working, StepsOfOp, WorkedIsWritten, Alone, NewsIsTrue, Subject, News, Value
<1>6. ToldOrTelling'
  BY DEF FindReaction, Goto, tables, MessagesTypeOK, Steps, Working, StepsOfOp, Alone, NewsIsTrue, ToldOrTelling, Subject, News, Value, Entry
<1>7. EditSeesMessage'
  BY DEF FindReaction, Goto, tables, MessagesTypeOK, Steps, Working, StepsOfOp, Alone, EditSeesMessage, Subject, Visible, NoRow
<1>8. DeletedHasNoText'
  BY DEF FindReaction, Goto, tables, MessagesTypeOK, RowType, Steps, StepsOfOp, EditSeesMessage, DeletedHasNoText, NoRow, Subject
<1>9. TogglesCount'
  BY DEF FindReaction, Goto, tables, MessagesTypeOK, RowType, Steps, StepsOfOp, TogglesCount, UnwrittenIsBlank, NoRow
<1>10. UnwrittenIsBlank'
  BY DEF FindReaction, Goto, tables, MessagesTypeOK, Steps, Working, StepsOfOp, WorkedIsWritten, UnwrittenIsBlank, Written, Contains
<1> QED BY <1>1, <1>2, <1>3, <1>4, <1>5, <1>6, <1>7, <1>8, <1>9, <1>10

\* A toggle that succeeds: the reaction and the history of it change together.
LEMMA SetLikeKeeps ==
  ASSUME MessagesInv, NEW r \in Req, pc[r] = "toggle", NEW n \in 0..Reactions,
         SetLike(r, n), n = 0 <=> row[req[r].key].likes[req[r].user] # 0
  PROVE  /\ row' \in [Key -> RowType] /\ flipped' \in [Key -> SUBSET User]
         /\ DeletedHasNoText' \/ ~(shaken' = shaken)
         /\ TogglesCount'
<1> USE MessagesAssumption DEF MessagesInv
<1> DEFINE k == req[r].key
           u == req[r].user
           new == [row[k] EXCEPT !.likes = [row[k].likes EXCEPT ![u] = n]]
<1>1. k \in Key /\ u \in User /\ row[k] \in RowType
  BY SubjectType DEF StepsOfOp, MessagesTypeOK
<1>2. new \in RowType /\ new.gone = row[k].gone /\ new.text = row[k].text
  BY <1>1, LikeType DEF RowType
<1>3. row' = [row EXCEPT ![k] = new]
  BY <1>1 DEF SetLike, MessagesTypeOK
<1>4. row' \in [Key -> RowType]
  BY <1>1, <1>2, <1>3 DEF MessagesTypeOK
<1>5. flipped' \in [Key -> SUBSET User]
  BY <1>1 DEF SetLike, MessagesTypeOK
<1>6. DeletedHasNoText' \/ ~(shaken' = shaken)
  BY <1>1, <1>2, <1>3 DEF DeletedHasNoText, MessagesTypeOK
<1>7. TogglesCount'
  <2>1. \A v \in User : new.likes[v] = IF v = u THEN n ELSE row[k].likes[v]
    BY <1>1 DEF RowType
  <2>2. \A v \in User : v \in flipped'[k] <=> (IF v = u THEN u \notin flipped[k] ELSE v \in flipped[k])
    BY <1>1 DEF SetLike, MessagesTypeOK
  <2>3. \A j \in Key \ {k} : row'[j] = row[j] /\ flipped'[j] = flipped[j]
    BY <1>1, <1>3 DEF SetLike, MessagesTypeOK
  <2>4. row'[k] = new
    BY <1>1, <1>3 DEF MessagesTypeOK
  <2>5. n = 0 <=> row[k].likes[u] # 0
    OBVIOUS
  <2> HIDE DEF k, u, new
  <2> QED BY <1>1, <2>5, <2>1, <2>2, <2>3, <2>4 DEF TogglesCount
<1> QED BY <1>4, <1>5, <1>6, <1>7

\* The reaction is added or taken away, or has been meanwhile.
LEMMA ToggleKeeps == ASSUME MessagesInv, NEW r \in Req, Toggle(r) PROVE MessagesInv'
<1> USE MessagesAssumption DEF MessagesInv
<1> DEFINE k == req[r].key
           u == req[r].user
           now == row[k].likes[u]
<1>1. k \in Key /\ u \in User /\ row[k] \in RowType /\ pc[r] = "toggle" /\ req[r].op = "react"
  BY SubjectType DEF Toggle, StepsOfOp, MessagesTypeOK
<1>2. now \in 0..Reactions
  BY <1>1 DEF RowType
<1>3. PICK n \in 0..Reactions :
        \/ SetLike(r, n) /\ (n = 0 <=> now # 0) /\ added' \in 0..Reactions
        \/ Goto(r, "refused") /\ UNCHANGED <<row, added, flipped>>
  <2>1. added + 1 \in 1..Reactions \/ ~(added < Reactions)
    BY DEF MessagesTypeOK
  <2>2. CASE req[r].like = 0 /\ now = 0 /\ added < Reactions /\ SetLike(r, added + 1)
               /\ added' = added + 1
    BY <2>1, <2>2
  <2>3. CASE req[r].like # 0 /\ now = req[r].like /\ SetLike(r, 0) /\ UNCHANGED added
    BY <2>3 DEF MessagesTypeOK
  <2>4. CASE Goto(r, "refused") /\ UNCHANGED <<row, added, flipped>>
    BY <2>4
  <2> QED BY <2>2, <2>3, <2>4 DEF Toggle
<1>4. UNCHANGED <<log, read, told, req, got, shaken, mishaps>>
  BY DEF Toggle
<1>5. /\ pc'[r] \in {"reread", "refused"} /\ pc' \in [Req -> Steps]
      /\ \A q \in Req \ {r} : pc'[q] = pc[q]
      /\ pc'[r] = "refused" => UNCHANGED <<row, flipped>>
  BY <1>3 DEF SetLike, Goto, MessagesTypeOK, Steps
<1>6. /\ row' \in [Key -> RowType] /\ flipped' \in [Key -> SUBSET User]
      /\ DeletedHasNoText' /\ TogglesCount' /\ added' \in 0..Reactions
  <2>1. CASE SetLike(r, n) /\ (n = 0 <=> now # 0) /\ added' \in 0..Reactions
    BY <1>1, <1>4, <2>1, SetLikeKeeps
  <2>2. CASE UNCHANGED <<row, added, flipped>>
    BY <1>4, <2>2 DEF DeletedHasNoText, TogglesCount, MessagesTypeOK
  <2> QED BY <1>3, <2>1, <2>2
<1>7. \A j \in Key : /\ row'[j].gone = row[j].gone
                     /\ j # k => row'[j] = row[j] /\ flipped'[j] = flipped[j]
  <2>1. CASE SetLike(r, n)
    <3>1. \A j \in Key \ {k} : row'[j] = row[j] /\ flipped'[j] = flipped[j]
      BY <1>1, <2>1 DEF SetLike, MessagesTypeOK
    <3>2. row'[k] = [row[k] EXCEPT !.likes = [row[k].likes EXCEPT ![u] = n]]
      BY <1>1, <2>1 DEF SetLike, MessagesTypeOK
    <3>3. row'[k].gone = row[k].gone
      BY <1>1, <3>2 DEF RowType
    <3> QED BY <3>1, <3>3
  <2>2. CASE UNCHANGED <<row, flipped>>
    BY <2>2
  <2> QED BY <1>3, <2>1, <2>2
<1>8. \A q \in Req : Subject(q)' = Subject(q) /\ News(q)' = News(q)
  BY <1>4 DEF Subject, News
<1>9. \A s \in User \cup Key : s # k => Value(s)' = Value(s)
  BY <1>4, <1>7 DEF Value
<1>10. \A q \in Req : pc'[q] \in Working => pc[q] \in Working
  BY <1>1, <1>5 DEF Working, Steps
<1>11. MessagesTypeOK'
  BY <1>1, <1>4, <1>5, <1>6 DEF MessagesTypeOK
<1>12. StepsOfOp'
  BY <1>1, <1>4, <1>5 DEF StepsOfOp
<1>13. WorkedIsWritten'
  BY <1>1, <1>4, <1>5 DEF WorkedIsWritten, Working, Steps, Written
<1>14. Alone'
  BY <1>4, <1>8, <1>10 DEF Alone
<1>15. NewsIsTrue'
  <2> SUFFICES ASSUME NEW q \in Req, pc'[q] = "tell", Subject(q) \notin shaken
               PROVE  News(q) = Value(Subject(q))'
    BY <1>4, <1>8 DEF NewsIsTrue
  <2>1. q # r /\ pc[q] = "tell" /\ News(q) = Value(Subject(q))
    BY <1>5 DEF NewsIsTrue
  <2>2. Subject(q) \in User \cup Key
    BY <2>1, SubjectType
  <2>3. CASE Subject(q) = k
    <3>1. Subject(r) = k
      BY <1>1 DEF Subject
    <3> QED BY <1>1, <2>1, <2>3, <3>1 DEF Alone, Working, Steps
  <2>4. CASE Subject(q) # k
    BY <1>4, <1>7, <1>8, <2>1, <2>2, <2>4 DEF Value
  <2> QED BY <2>3, <2>4
<1>16. ToldOrTelling'
  <2> SUFFICES ASSUME NEW s \in Entry, s \notin shaken
               PROVE  \/ told[s] = Value(s)' \/ (s \in User /\ read'[s] = None)
                      \/ \E q \in Req : pc'[q] \in {"reread", "tell"} /\ Subject(q) = s
    BY <1>4, <1>8 DEF ToldOrTelling
  <2>1. Subject(r) = k
    BY <1>1 DEF Subject
  <2>2. CASE s = k /\ pc'[r] = "reread"
    BY <2>1, <2>2
  <2>3. CASE s # k \/ UNCHANGED row
    <3>1. Value(s)' = Value(s)
      BY <1>4, <1>9, <2>3 DEF Value, Entry
    <3>2. \A q \in Req : pc[q] \in {"reread", "tell"} => pc'[q] = pc[q]
      BY <1>1, <1>5
    <3>3. read' = read
      BY DEF Toggle
    <3> QED BY <3>1, <3>2, <3>3 DEF ToldOrTelling
  <2> QED BY <1>5, <2>2, <2>3
<1>17. EditSeesMessage'
  <2>1. \A q \in Req : pc'[q] = "edit" => pc[q] = "edit" /\ req[q].key \in Key
    BY <1>1, <1>5 DEF StepsOfOp, MessagesTypeOK
  <2> QED BY <1>4, <1>7, <2>1 DEF EditSeesMessage
<1>18. UnwrittenIsBlank'
  <2>1. Written(k)
    BY <1>1 DEF WorkedIsWritten, Working, Steps
  <2> QED BY <1>4, <1>7, <2>1 DEF UnwrittenIsBlank, Written
<1> HIDE DEF MessagesInv
<1> QED BY <1>6, <1>11, <1>12, <1>13, <1>14, <1>15, <1>16, <1>17, <1>18 DEF MessagesInv

\* The message is read again.
LEMMA RereadKeeps == ASSUME MessagesInv, NEW r \in Req, Reread(r) PROVE MessagesInv'
<1> USE MessagesAssumption DEF MessagesInv
<1>1. MessagesTypeOK'
  <2>1. row[req[r].key] \in RowType
    BY SubjectType DEF Reread, StepsOfOp
  <2>2. got' \in [Req -> RowType]
    BY <2>1 DEF Reread, Holds, MessagesTypeOK
  <2>3. pc' \in [Req -> Steps]
    BY DEF Reread, Goto, MessagesTypeOK, Steps
  <2>4. \A q \in Req : pc'[q] # "idle" => pc[q] # "idle"
    BY DEF Reread, Goto, MessagesTypeOK
  <2>5. \A q \in Req : pc'[q] \in {"exists", "point"} => pc[q] \in {"exists", "point"}
    BY DEF Reread, Goto, MessagesTypeOK
  <2> QED BY <2>2, <2>3, <2>4, <2>5 DEF Reread, tables, MessagesTypeOK
<1>2. StepsOfOp'
  BY DEF Reread, Goto, Holds, tables, MessagesTypeOK, StepsOfOp
<1>3. WorkedIsWritten'
  BY DEF Reread, Goto, Holds, tables, MessagesTypeOK, Steps, Working, StepsOfOp, WorkedIsWritten, Written, Visible, Contains
<1>4. Alone'
  BY DEF Reread, Goto, Holds, tables, MessagesTypeOK, Steps, Working, StepsOfOp, Alone, Subject
<1>5. NewsIsTrue'
  BY DEF Reread, Goto, Holds, tables, MessagesTypeOK, Steps, Working, StepsOfOp, WorkedIsWritten, Alone, NewsIsTrue, Subject, News, Value
<1>6. ToldOrTelling'
  BY DEF Reread, Goto, Holds, tables, MessagesTypeOK, Steps, Working, StepsOfOp, Alone, NewsIsTrue, ToldOrTelling, Subject, News, Value, Entry
<1>7. EditSeesMessage'
  BY DEF Reread, Goto, Holds, tables, MessagesTypeOK, Steps, Working, StepsOfOp, Alone, EditSeesMessage, Subject, Visible, NoRow
<1>8. DeletedHasNoText'
  BY DEF Reread, Goto, Holds, tables, MessagesTypeOK, RowType, Steps, StepsOfOp, EditSeesMessage, DeletedHasNoText, NoRow, Subject
<1>9. TogglesCount'
  BY DEF Reread, Goto, Holds, tables, MessagesTypeOK, RowType, Steps, StepsOfOp, TogglesCount, UnwrittenIsBlank, NoRow
<1>10. UnwrittenIsBlank'
  BY DEF Reread, Goto, Holds, tables, MessagesTypeOK, Steps, Working, StepsOfOp, WorkedIsWritten, UnwrittenIsBlank, Written, Contains
<1> QED BY <1>1, <1>2, <1>3, <1>4, <1>5, <1>6, <1>7, <1>8, <1>9, <1>10

\* A mark looks for the newest message.
LEMMA FindLatestKeeps == ASSUME MessagesInv, NEW r \in Req, FindLatest(r) PROVE MessagesInv'
<1> USE MessagesAssumption DEF MessagesInv
<1>a. pc[r] = "start" /\ req[r].op = "read" /\ req[r].user \in User
  BY DEF FindLatest, MessagesTypeOK
<1>b. PICK p \in {"exists", "clear"} : Begin(r, p)
  BY DEF FindLatest
<1>c. pc' \in [Req -> Steps] /\ shaken' \in SUBSET (User \cup Key)
  BY <1>a, <1>b, BeginType DEF Steps
<1>d. req' = req \/ \E k \in Key : req' = [req EXCEPT ![r].key = k]
  BY DEF FindLatest
<1>e. req' \in [Req -> ReqType]
  BY <1>d, ReqTypes DEF MessagesTypeOK
<1>f. \A q \in Req : req'[q].op = req[q].op /\ req'[q].user = req[q].user
  <2>1. CASE req' = req
    BY <2>1
  <2>2. ASSUME NEW k \in Key, req' = [req EXCEPT ![r].key = k]
        PROVE  \A q \in Req : req'[q].op = req[q].op /\ req'[q].user = req[q].user
    BY <2>2 DEF MessagesTypeOK, ReqType
  <2> QED BY <1>d, <2>1, <2>2
<1>g. \A q \in Req \ {r} : req'[q] = req[q] /\ pc'[q] = pc[q]
  BY <1>b, <1>d DEF Begin, Goto, MessagesTypeOK
<1>h. pc'[r] \in {"exists", "clear"} /\ (pc'[r] = "exists" => req'[r].key \in Key)
  BY <1>b DEF FindLatest, Begin, Goto, MessagesTypeOK, ReqType
<1>1. MessagesTypeOK'
  BY <1>c, <1>e, <1>f, <1>g, <1>h DEF FindLatest, MessagesTypeOK, tables
<1>2. StepsOfOp'
  BY <1>a, <1>f, <1>g, <1>h DEF StepsOfOp
<1>3. WorkedIsWritten'
  BY <1>a, <1>f, <1>g DEF FindLatest, tables, WorkedIsWritten, Written
<1>4. Alone'
  <2>1. \A q \in Req : Subject(q)' = Subject(q)
    BY <1>a, <1>f, <1>g DEF Subject
  <2>2. shaken' = IF Clash(r) THEN shaken \cup {Subject(r)} ELSE shaken
    BY <1>b DEF Begin
  <2>3. ASSUME NEW q \in Req \ {r}, pc'[q] \in Working, Subject(q) = Subject(r),
               Subject(r) \notin shaken'
        PROVE  FALSE
    BY <1>a, <1>g, <2>2, <2>3 DEF Clash
  <2>4. shaken \subseteq shaken'
    BY <2>2
  <2> QED BY <1>f, <1>g, <2>1, <2>3, <2>4 DEF Alone
<1>5. NewsIsTrue'
  BY DEF FindLatest, Goto, Begin, Clash, tables, MessagesTypeOK, Steps, Working, StepsOfOp, WorkedIsWritten, Alone, NewsIsTrue, Subject, News, Value
<1>6. ToldOrTelling'
  BY DEF FindLatest, Goto, Begin, Clash, tables, MessagesTypeOK, Steps, Working, StepsOfOp, Alone, NewsIsTrue, ToldOrTelling, Subject, News, Value, Entry
<1>7. EditSeesMessage'
  BY DEF FindLatest, Goto, Begin, Clash, tables, MessagesTypeOK, Steps, Working, StepsOfOp, Alone, EditSeesMessage, Subject, Visible, NoRow
<1>8. DeletedHasNoText'
  BY DEF FindLatest, Goto, Begin, Clash, tables, MessagesTypeOK, RowType, Steps, StepsOfOp, EditSeesMessage, DeletedHasNoText, NoRow, Subject
<1>9. TogglesCount'
  BY DEF FindLatest, Goto, Begin, Clash, tables, MessagesTypeOK, RowType, Steps, StepsOfOp, TogglesCount, UnwrittenIsBlank, NoRow
<1>10. UnwrittenIsBlank'
  BY DEF FindLatest, Goto, Begin, Clash, tables, MessagesTypeOK, Steps, Working, StepsOfOp, WorkedIsWritten, UnwrittenIsBlank, Written, Contains
<1> QED BY <1>1, <1>2, <1>3, <1>4, <1>5, <1>6, <1>7, <1>8, <1>9, <1>10

\* The message to mark is still there, or not.
LEMMA MessageExistsKeeps == ASSUME MessagesInv, NEW r \in Req, MessageExists(r) PROVE MessagesInv'
<1> USE MessagesAssumption DEF MessagesInv
<1>1. MessagesTypeOK'
  <2>1. req[r].user \in User
    BY DEF MessageExists, MessagesTypeOK
  <2>2. shaken' \in SUBSET (User \cup Key)
    BY <2>1 DEF MessageExists, MessagesTypeOK
  <2> QED BY <2>2 DEF MessageExists, Goto, MessagesTypeOK, tables, Steps
<1>2. StepsOfOp'
  BY DEF MessageExists, Goto, tables, MessagesTypeOK, StepsOfOp
<1>3. WorkedIsWritten'
  BY DEF MessageExists, Goto, tables, MessagesTypeOK, Steps, Working, StepsOfOp, WorkedIsWritten, Written, Visible, Contains
<1>4. Alone'
  <2>1. \A q \in Req : Subject(q)' = Subject(q)
    BY DEF MessageExists, Subject
  <2>2. \A q \in Req : pc'[q] \in Working => pc[q] \in Working
    BY DEF MessageExists, Goto, MessagesTypeOK, Working, Steps
  <2>3. shaken \subseteq shaken'
    BY DEF MessageExists
  <2> QED BY <2>1, <2>2, <2>3 DEF MessageExists, Alone
<1>5. NewsIsTrue'
  BY DEF MessageExists, Goto, tables, MessagesTypeOK, Steps, Working, StepsOfOp, WorkedIsWritten, Alone, NewsIsTrue, Subject, News, Value
<1>6. ToldOrTelling'
  BY DEF MessageExists, Goto, tables, MessagesTypeOK, Steps, Working, StepsOfOp, Alone, NewsIsTrue, ToldOrTelling, Subject, News, Value, Entry
<1>7. EditSeesMessage'
  BY DEF MessageExists, Goto, tables, MessagesTypeOK, Steps, Working, StepsOfOp, Alone, EditSeesMessage, Subject, Visible, NoRow
<1>8. DeletedHasNoText'
  BY DEF MessageExists, Goto, tables, MessagesTypeOK, RowType, Steps, StepsOfOp, EditSeesMessage, DeletedHasNoText, NoRow, Subject
<1>9. TogglesCount'
  BY DEF MessageExists, Goto, tables, MessagesTypeOK, RowType, Steps, StepsOfOp, TogglesCount, UnwrittenIsBlank, NoRow
<1>10. UnwrittenIsBlank'
  BY DEF MessageExists, Goto, tables, MessagesTypeOK, Steps, Working, StepsOfOp, WorkedIsWritten, UnwrittenIsBlank, Written, Contains
<1> QED BY <1>1, <1>2, <1>3, <1>4, <1>5, <1>6, <1>7, <1>8, <1>9, <1>10

\* The pointer is moved.
LEMMA SetLastReadKeeps == ASSUME MessagesInv, NEW r \in Req, SetLastRead(r) PROVE MessagesInv'
<1> USE MessagesAssumption DEF MessagesInv
<1>1. MessagesTypeOK'
  <2>1. req[r].key \in Key \cup {None}
    BY DEF SetLastRead, MessagesTypeOK
  <2>2. read' \in [User -> Key \cup {None}]
    BY <2>1 DEF SetLastRead, MessagesTypeOK
  <2>3. pc' \in [Req -> Steps]
    BY DEF SetLastRead, Goto, MessagesTypeOK, Steps
  <2>4. \A q \in Req : pc'[q] # "idle" => pc[q] # "idle"
    BY DEF SetLastRead, Goto, MessagesTypeOK
  <2>5. \A q \in Req : pc'[q] \in {"exists", "point"} => pc[q] \in {"exists", "point"}
    BY DEF SetLastRead, Goto, MessagesTypeOK
  <2> QED BY <2>2, <2>3, <2>4, <2>5 DEF SetLastRead, MessagesTypeOK
<1>2. StepsOfOp'
  BY DEF SetLastRead, Goto, MessagesTypeOK, StepsOfOp
<1>3. WorkedIsWritten'
  BY DEF SetLastRead, Goto, MessagesTypeOK, Steps, Working, StepsOfOp, WorkedIsWritten, Written, Visible, Contains
<1>4. Alone'
  BY DEF SetLastRead, Goto, MessagesTypeOK, Steps, Working, StepsOfOp, Alone, Subject
<1>5. NewsIsTrue'
  BY DEF SetLastRead, Goto, MessagesTypeOK, Steps, Working, StepsOfOp, WorkedIsWritten, Alone, NewsIsTrue, Subject, News, Value
<1>6. ToldOrTelling'
  BY DEF SetLastRead, Goto, MessagesTypeOK, Steps, Working, StepsOfOp, Alone, NewsIsTrue, ToldOrTelling, Subject, News, Value, Entry
<1>7. EditSeesMessage'
  BY DEF SetLastRead, Goto, MessagesTypeOK, Steps, Working, StepsOfOp, Alone, EditSeesMessage, Subject, Visible, NoRow
<1>8. DeletedHasNoText'
  BY DEF SetLastRead, Goto, MessagesTypeOK, RowType, Steps, StepsOfOp, EditSeesMessage, DeletedHasNoText, NoRow, Subject
<1>9. TogglesCount'
  BY DEF SetLastRead, Goto, MessagesTypeOK, RowType, Steps, StepsOfOp, TogglesCount, UnwrittenIsBlank, NoRow
<1>10. UnwrittenIsBlank'
  BY DEF SetLastRead, Goto, MessagesTypeOK, Steps, Working, StepsOfOp, WorkedIsWritten, UnwrittenIsBlank, Written, Contains
<1> QED BY <1>1, <1>2, <1>3, <1>4, <1>5, <1>6, <1>7, <1>8, <1>9, <1>10

\* The pointer of an empty chat is cleared.
LEMMA ClearLastReadKeeps == ASSUME MessagesInv, NEW r \in Req, ClearLastRead(r) PROVE MessagesInv'
<1> USE MessagesAssumption DEF MessagesInv
<1>1. MessagesTypeOK'
  <2>1. None \in Key \cup {None}
    BY DEF ClearLastRead, MessagesTypeOK
  <2>2. read' \in [User -> Key \cup {None}]
    BY <2>1 DEF ClearLastRead, MessagesTypeOK
  <2>3. pc' \in [Req -> Steps]
    BY DEF ClearLastRead, Goto, MessagesTypeOK, Steps
  <2>4. \A q \in Req : pc'[q] # "idle" => pc[q] # "idle"
    BY DEF ClearLastRead, Goto, MessagesTypeOK
  <2>5. \A q \in Req : pc'[q] \in {"exists", "point"} => pc[q] \in {"exists", "point"}
    BY DEF ClearLastRead, Goto, MessagesTypeOK
  <2> QED BY <2>2, <2>3, <2>4, <2>5 DEF ClearLastRead, MessagesTypeOK
<1>2. StepsOfOp'
  BY DEF ClearLastRead, Goto, MessagesTypeOK, StepsOfOp
<1>3. WorkedIsWritten'
  BY DEF ClearLastRead, Goto, MessagesTypeOK, Steps, Working, StepsOfOp, WorkedIsWritten, Written, Visible, Contains
<1>4. Alone'
  BY DEF ClearLastRead, Goto, MessagesTypeOK, Steps, Working, StepsOfOp, Alone, Subject
<1>5. NewsIsTrue'
  BY DEF ClearLastRead, Goto, MessagesTypeOK, Steps, Working, StepsOfOp, WorkedIsWritten, Alone, NewsIsTrue, Subject, News, Value
<1>6. ToldOrTelling'
  <2>1. pc[r] = "clear" /\ req[r].user \in User
    BY DEF ClearLastRead, MessagesTypeOK
  <2>2. \A s \in Entry : s = req[r].user => s \in User /\ read'[s] = None
    BY <2>1 DEF ClearLastRead, MessagesTypeOK
  <2>3. \A s \in Entry \ {req[r].user} : Value(s)' = Value(s) /\ (s \in User => read'[s] = read[s])
    BY DEF ClearLastRead, Value, Entry, MessagesTypeOK
  <2>4. \A q \in Req : pc[q] \in {"reread", "tell"} =>
                        pc'[q] = pc[q] /\ Subject(q)' = Subject(q)
    BY <2>1 DEF ClearLastRead, Goto, Subject, MessagesTypeOK
  <2>5. UNCHANGED <<told, shaken>>
    BY DEF ClearLastRead
  <2> QED BY <2>2, <2>3, <2>4, <2>5 DEF ToldOrTelling
<1>7. EditSeesMessage'
  BY DEF ClearLastRead, Goto, MessagesTypeOK, Steps, Working, StepsOfOp, Alone, EditSeesMessage, Subject, Visible, NoRow
<1>8. DeletedHasNoText'
  BY DEF ClearLastRead, Goto, MessagesTypeOK, RowType, Steps, StepsOfOp, EditSeesMessage, DeletedHasNoText, NoRow, Subject
<1>9. TogglesCount'
  BY DEF ClearLastRead, Goto, MessagesTypeOK, RowType, Steps, StepsOfOp, TogglesCount, UnwrittenIsBlank, NoRow
<1>10. UnwrittenIsBlank'
  BY DEF ClearLastRead, Goto, MessagesTypeOK, Steps, Working, StepsOfOp, WorkedIsWritten, UnwrittenIsBlank, Written, Contains
<1> QED BY <1>1, <1>2, <1>3, <1>4, <1>5, <1>6, <1>7, <1>8, <1>9, <1>10

\* The room is told.
LEMMA TellKeeps == ASSUME MessagesInv, NEW r \in Req, Tell(r) PROVE MessagesInv'
<1> USE MessagesAssumption DEF MessagesInv
<1>1. MessagesTypeOK'
  <2>1. News(r) \in RowType \cup Key \cup {None}
    BY DEF Tell, News, MessagesTypeOK, ReqType
  <2>2. told' \in [User \cup Key -> RowType \cup Key \cup {None}]
    BY <2>1 DEF Tell, MessagesTypeOK
  <2> QED BY <2>2 DEF Tell, Goto, MessagesTypeOK, Steps
<1>2. StepsOfOp'
  BY DEF Tell, Goto, MessagesTypeOK, StepsOfOp
<1>3. WorkedIsWritten'
  BY DEF Tell, Goto, MessagesTypeOK, Steps, Working, StepsOfOp, WorkedIsWritten, Written, Visible, Contains
<1>4. Alone'
  BY DEF Tell, Goto, MessagesTypeOK, Steps, Working, StepsOfOp, Alone, Subject
<1>5. NewsIsTrue'
  BY DEF Tell, Goto, MessagesTypeOK, Steps, Working, StepsOfOp, WorkedIsWritten, Alone, NewsIsTrue, Subject, News, Value
<1>6. ToldOrTelling'
  BY DEF Tell, Goto, MessagesTypeOK, Steps, Working, StepsOfOp, Alone, NewsIsTrue, ToldOrTelling, Subject, News, Value, Entry
<1>7. EditSeesMessage'
  BY DEF Tell, Goto, MessagesTypeOK, Steps, Working, StepsOfOp, Alone, EditSeesMessage, Subject, Visible, NoRow
<1>8. DeletedHasNoText'
  BY DEF Tell, Goto, MessagesTypeOK, RowType, Steps, StepsOfOp, EditSeesMessage, DeletedHasNoText, NoRow, Subject
<1>9. TogglesCount'
  BY DEF Tell, Goto, MessagesTypeOK, RowType, Steps, StepsOfOp, TogglesCount, UnwrittenIsBlank, NoRow
<1>10. UnwrittenIsBlank'
  BY DEF Tell, Goto, MessagesTypeOK, Steps, Working, StepsOfOp, WorkedIsWritten, UnwrittenIsBlank, Written, Contains
<1> QED BY <1>1, <1>2, <1>3, <1>4, <1>5, <1>6, <1>7, <1>8, <1>9, <1>10

\* Something fails.
LEMMA FailKeeps == ASSUME MessagesInv, NEW r \in Req, Fail(r) PROVE MessagesInv'
<1> USE MessagesAssumption DEF MessagesInv
<1>1. MessagesTypeOK'
  <2>1. pc[r] # "idle"
    BY DEF Fail, Working
  <2>2. shaken' \in SUBSET (User \cup Key)
    BY <2>1, SubjectType DEF Fail, MessagesTypeOK
  <2>3. mishaps' \in 0..Mishaps
    BY DEF Fail, MessagesTypeOK
  <2>4. /\ pc' \in [Req -> Steps] /\ pc'[r] = "refused"
        /\ \A q \in Req \ {r} : pc'[q] = pc[q]
    BY DEF Fail, Goto, MessagesTypeOK, Steps
  <2>5. UNCHANGED <<log, row, read, told, added, flipped, req, got>>
    BY DEF Fail, tables
  <2> QED BY <2>1, <2>2, <2>3, <2>4, <2>5 DEF MessagesTypeOK
<1>2. StepsOfOp'
  BY DEF Fail, Goto, tables, MessagesTypeOK, StepsOfOp
<1>3. WorkedIsWritten'
  BY DEF Fail, Goto, tables, MessagesTypeOK, Steps, Working, StepsOfOp, WorkedIsWritten, Written, Visible, Contains
<1>4. Alone'
  BY DEF Fail, Goto, tables, MessagesTypeOK, Steps, Working, StepsOfOp, Alone, Subject
<1>5. NewsIsTrue'
  BY DEF Fail, Goto, tables, MessagesTypeOK, Steps, Working, StepsOfOp, WorkedIsWritten, Alone, NewsIsTrue, Subject, News, Value
<1>6. ToldOrTelling'
  BY DEF Fail, Goto, tables, MessagesTypeOK, Steps, Working, StepsOfOp, Alone, NewsIsTrue, ToldOrTelling, Subject, News, Value, Entry
<1>7. EditSeesMessage'
  BY DEF Fail, Goto, tables, MessagesTypeOK, Steps, Working, StepsOfOp, Alone, EditSeesMessage, Subject, Visible, NoRow
<1>8. DeletedHasNoText'
  BY DEF Fail, Goto, tables, MessagesTypeOK, RowType, Steps, StepsOfOp, EditSeesMessage, DeletedHasNoText, NoRow, Subject
<1>9. TogglesCount'
  BY DEF Fail, Goto, tables, MessagesTypeOK, RowType, Steps, StepsOfOp, TogglesCount, UnwrittenIsBlank, NoRow
<1>10. UnwrittenIsBlank'
  BY DEF Fail, Goto, tables, MessagesTypeOK, Steps, Working, StepsOfOp, WorkedIsWritten, UnwrittenIsBlank, Written, Contains
<1> QED BY <1>1, <1>2, <1>3, <1>4, <1>5, <1>6, <1>7, <1>8, <1>9, <1>10

\* A handler is done.
LEMMA AnswerKeeps == ASSUME MessagesInv, NEW r \in Req, Answer(r) PROVE MessagesInv'
<1> USE MessagesAssumption DEF MessagesInv
<1>1. MessagesTypeOK'
  BY NoReqType, RowTypes DEF Answer, Goto, Holds, tables, MessagesTypeOK, Steps
<1>2. StepsOfOp'
  BY DEF Answer, Goto, Holds, tables, MessagesTypeOK, StepsOfOp, NoReq, Request
<1>3. WorkedIsWritten'
  BY DEF Answer, Goto, Holds, tables, MessagesTypeOK, Steps, Working, StepsOfOp, WorkedIsWritten, Written, Visible, Contains, NoReq, Request
<1>4. Alone'
  BY DEF Answer, Goto, Holds, tables, MessagesTypeOK, Steps, Working, StepsOfOp, Alone, Subject, NoReq, Request
<1>5. NewsIsTrue'
  BY DEF Answer, Goto, Holds, tables, MessagesTypeOK, Steps, Working, StepsOfOp, WorkedIsWritten, Alone, NewsIsTrue, Subject, News, Value, NoReq, Request
<1>6. ToldOrTelling'
  BY DEF Answer, Goto, Holds, tables, MessagesTypeOK, Steps, Working, StepsOfOp, Alone, NewsIsTrue, ToldOrTelling, Subject, News, Value, Entry, NoReq, Request
<1>7. EditSeesMessage'
  BY DEF Answer, Goto, Holds, tables, MessagesTypeOK, Steps, Working, StepsOfOp, Alone, EditSeesMessage, Subject, Visible, NoRow, NoReq, Request
<1>8. DeletedHasNoText'
  BY DEF Answer, Goto, Holds, tables, MessagesTypeOK, RowType, Steps, StepsOfOp, EditSeesMessage, DeletedHasNoText, NoRow, Subject
<1>9. TogglesCount'
  BY DEF Answer, Goto, Holds, tables, MessagesTypeOK, RowType, Steps, StepsOfOp, TogglesCount, UnwrittenIsBlank, NoRow
<1>10. UnwrittenIsBlank'
  BY DEF Answer, Goto, Holds, tables, MessagesTypeOK, Steps, Working, StepsOfOp, WorkedIsWritten, UnwrittenIsBlank, Written, Contains
<1> QED BY <1>1, <1>2, <1>3, <1>4, <1>5, <1>6, <1>7, <1>8, <1>9, <1>10

\* Somebody asks for something.
LEMMA AskKeeps ==
  ASSUME MessagesInv, NEW r \in Req, NEW u \in User, NEW q \in AnyRequest(u), Ask(r, q)
  PROVE  MessagesInv'
<1> USE MessagesAssumption DEF MessagesInv
<1>0. q \in ReqType /\ q.op \in Op /\ q.user = u /\ (q.op # "read" => q.key \in Key)
  BY DEF AnyRequest, Request, ReqType, Op
<1>1. MessagesTypeOK'
  BY <1>0 DEF Ask, Goto, tables, MessagesTypeOK, Steps
<1>2. StepsOfOp'
  BY DEF Ask, Goto, tables, MessagesTypeOK, StepsOfOp, NoReq, Request
<1>3. WorkedIsWritten'
  BY DEF Ask, Goto, tables, MessagesTypeOK, Steps, Working, StepsOfOp, WorkedIsWritten, Written, Visible, Contains, NoReq, Request
<1>4. Alone'
  BY DEF Ask, Goto, tables, MessagesTypeOK, Steps, Working, StepsOfOp, Alone, Subject, NoReq, Request
<1>5. NewsIsTrue'
  BY DEF Ask, Goto, tables, MessagesTypeOK, Steps, Working, StepsOfOp, WorkedIsWritten, Alone, NewsIsTrue, Subject, News, Value, NoReq, Request
<1>6. ToldOrTelling'
  BY DEF Ask, Goto, tables, MessagesTypeOK, Steps, Working, StepsOfOp, Alone, NewsIsTrue, ToldOrTelling, Subject, News, Value, Entry, NoReq, Request
<1>7. EditSeesMessage'
  BY DEF Ask, Goto, tables, MessagesTypeOK, Steps, Working, StepsOfOp, Alone, EditSeesMessage, Subject, Visible, NoRow, NoReq, Request
<1>8. DeletedHasNoText'
  BY DEF Ask, Goto, tables, MessagesTypeOK, RowType, Steps, StepsOfOp, EditSeesMessage, DeletedHasNoText, NoRow, Subject
<1>9. TogglesCount'
  BY DEF Ask, Goto, tables, MessagesTypeOK, RowType, Steps, StepsOfOp, TogglesCount, UnwrittenIsBlank, NoRow
<1>10. UnwrittenIsBlank'
  BY DEF Ask, Goto, tables, MessagesTypeOK, Steps, Working, StepsOfOp, WorkedIsWritten, UnwrittenIsBlank, Written, Contains
<1> QED BY <1>1, <1>2, <1>3, <1>4, <1>5, <1>6, <1>7, <1>8, <1>9, <1>10

\* Each step of Messages, and each step of something else, keeps the invariant.
LEMMA NextMessagesInv == MessagesInv /\ [MessagesNext]_messageVars => MessagesInv'
<1> SUFFICES ASSUME MessagesInv, [MessagesNext]_messageVars PROVE MessagesInv'
  OBVIOUS
<1>1. ASSUME NEW r \in Req, Handle(r) PROVE MessagesInv'
  BY <1>1, SendStartKeeps, SendCreateKeeps, ChangeStartKeeps, EditWriteKeeps,
     DeleteWriteKeeps, ReactStartKeeps, FindReactionKeeps, ToggleKeeps, RereadKeeps,
     FindLatestKeeps, MessageExistsKeeps, SetLastReadKeeps, ClearLastReadKeeps DEF Handle
<1>2. ASSUME NEW r \in Req, Tell(r) \/ Fail(r) \/ Answer(r) PROVE MessagesInv'
  BY <1>2, TellKeeps, FailKeeps, AnswerKeeps
<1>3. ASSUME NEW r \in Req, NEW u \in User, NEW q \in AnyRequest(u), Ask(r, q)
      PROVE  MessagesInv'
  BY <1>3, AskKeeps
<1>4. CASE UNCHANGED messageVars
  BY <1>4 DEF messageVars, MessagesInv, MessagesTypeOK, StepsOfOp, WorkedIsWritten, Alone,
     NewsIsTrue, ToldOrTelling, EditSeesMessage, DeletedHasNoText, TogglesCount,
     UnwrittenIsBlank, Written, Subject, News, Value
<1> QED BY <1>1, <1>2, <1>3, <1>4 DEF MessagesNext

\* MessagesInv is always true.
THEOREM MessagesInvariant == MessagesSpec => []MessagesInv
  BY InitMessagesInv, NextMessagesInv, PTL DEF MessagesSpec

\* The tables and the handlers' locals have their types: no handler goes on to look
\* for a message it does not have (messages/service.ts, markChatRead).
THEOREM MessagesType == MessagesSpec => []MessagesTypeOK
  BY MessagesInvariant, PTL DEF MessagesInv

\* What the room was last told of a message or a pointer is what the table says, once
\* nobody works on it, unless handlers overlapped on it or one of them failed.
THEOREM ToldTrue == MessagesSpec => []ToldIsTrue
  BY MessagesInvariant, InvGivesTold, PTL

\* A deleted message has no text, unless an edit overlapped with the deletion.
THEOREM DeletedText == MessagesSpec => []DeletedHasNoText
  BY MessagesInvariant, PTL DEF MessagesInv

\* The reactions are what the successful toggles add up to, in any interleaving.
THEOREM Toggles == MessagesSpec => []TogglesCount
  BY MessagesInvariant, PTL DEF MessagesInv

\* A retry is of the person's own message.
OwnSends ==
  /\ pending \in [User -> {Nothing} \cup [key : Key, text : Text]]
  /\ \A b \in User : pending[b] # Nothing => Author[pending[b].key] = b

\* Only a send that begins, ends or is forgotten changes what may be retried.
LEMMA NextOwnSends == OwnSends /\ [ThreadsNext]_vars => OwnSends'
<1> SUFFICES ASSUME OwnSends, [ThreadsNext]_vars PROVE OwnSends'
  OBVIOUS
<1>1. CASE UNCHANGED pending
  BY <1>1 DEF OwnSends
<1>2. ASSUME NEW b, pending' = [pending EXCEPT ![b] = Nothing] PROVE OwnSends'
  BY <1>2 DEF OwnSends
<1>3. ASSUME NEW b \in User, NEW k \in Key, NEW t \in Text, Author[k] = b,
             pending' = [pending EXCEPT ![b] = [key |-> k, text |-> t]]
      PROVE  OwnSends'
  BY <1>3 DEF OwnSends
<1>4. ASSUME NEW r \in Req, Serve(r) PROVE OwnSends'
  <2>1. UNCHANGED pending \/ pending' = [pending EXCEPT ![req[r].user] = Nothing]
    BY <1>4 DEF Serve, TellRoom, Respond, GiveUp, sendVars
  <2> QED BY <2>1, <1>1, <1>2
<1>5. ASSUME NEW b \in User, Browse(b) PROVE OwnSends'
  <2>1. ASSUME NEW r \in Req, NEW t \in Text, Send(b, r, t) PROVE OwnSends'
    BY <2>1, <1>1, <1>3 DEF Send
  <2>2. ASSUME NEW r \in Req, OpenChat(b, r) \/ Take(b, r) PROVE OwnSends'
    BY <2>2, <1>1, <1>2 DEF OpenChat, Take, sendVars
  <2>3. ASSUME NEW r \in Req, NEW k \in Key,
               Delete(b, r, k) \/ React(b, r, k) \/ \E t \in Text : Edit(b, r, k, t)
        PROVE  OwnSends'
    BY <2>3, <1>1 DEF Delete, React, Edit, sendVars
  <2>4. ASSUME \/ \E part \in {"chat", "list"} : ReadPart(b, part)
               \/ Loaded(b) \/ LeaveChat(b) \/ Ignore(b) \/ Disconnect(b) \/ Reconnect(b)
        PROVE  OwnSends'
    BY <2>4, <1>1 DEF ReadPart, Loaded, LeaveChat, Ignore, Disconnect, Reconnect, sendVars
  <2> QED BY <1>5, <2>1, <2>2, <2>3, <2>4 DEF Browse
<1> QED BY <1>1, <1>4, <1>5 DEF ThreadsNext, vars, sendVars

\* A browser asks the server only for what any participant may ask, and does nothing
\* else to it.
LEMMA BrowseAsks ==
  ASSUME OwnSends, NEW b \in User, Browse(b)
  PROVE  \/ UNCHANGED messageVars
         \/ \E r \in Req : \E q \in AnyRequest(b) : Ask(r, q)
<1>1. ASSUME NEW r \in Req, OpenChat(b, r) \/ Take(b, r)
      PROVE  UNCHANGED messageVars \/ \E q \in AnyRequest(b) : Ask(r, q)
  <2>1. Request("read", b, None, None) \in AnyRequest(b)
    BY DEF AnyRequest
  <2> QED BY <1>1, <2>1 DEF OpenChat, Take
<1>2. ASSUME NEW r \in Req, NEW t \in Text, Send(b, r, t)
      PROVE  \E q \in AnyRequest(b) : Ask(r, q)
  <2>1. CASE pending[b].text = t /\ Press(b, r, Request("send", b, pending[b].key, t))
    <3>1. pending[b] # Nothing
      BY <2>1, MessagesAssumption DEF Nothing
    <3>2. pending[b].key \in Key /\ Author[pending[b].key] = b
      BY <3>1 DEF OwnSends
    <3>3. Request("send", b, pending[b].key, t) \in AnyRequest(b)
      BY <3>2 DEF AnyRequest
    <3> QED BY <2>1, <3>3 DEF Press
  <2>2. ASSUME NEW k \in Key, Author[k] = b, Press(b, r, Request("send", b, k, t))
        PROVE  \E q \in AnyRequest(b) : Ask(r, q)
    <3>1. Request("send", b, k, t) \in AnyRequest(b)
      BY <2>2 DEF AnyRequest
    <3> QED BY <2>2, <3>1 DEF Press
  <2> QED BY <1>2, <2>1, <2>2 DEF Send
<1>3. ASSUME NEW r \in Req, NEW k \in Key, Delete(b, r, k) \/ React(b, r, k)
      PROVE  \E q \in AnyRequest(b) : Ask(r, q)
  <2>1. \A o \in {"delete", "react"} : Request(o, b, k, None) \in AnyRequest(b)
    BY DEF AnyRequest
  <2> QED BY <1>3, <2>1 DEF Delete, React, Press
<1>4. ASSUME NEW r \in Req, NEW k \in Key, NEW t \in Text, Edit(b, r, k, t)
      PROVE  \E q \in AnyRequest(b) : Ask(r, q)
  <2>1. Request("edit", b, k, t) \in AnyRequest(b)
    BY DEF AnyRequest
  <2> QED BY <1>4, <2>1 DEF Edit, Press
<1>5. ASSUME \/ \E part \in {"chat", "list"} : ReadPart(b, part)
             \/ Loaded(b) \/ LeaveChat(b) \/ Ignore(b) \/ Disconnect(b) \/ Reconnect(b)
      PROVE  UNCHANGED messageVars
  BY <1>5 DEF ReadPart, Loaded, LeaveChat, Ignore, Disconnect, Reconnect
<1> QED BY <1>1, <1>2, <1>3, <1>4, <1>5 DEF Browse

\* Whatever the pages of a chat do, with their retries, their late loads and their
\* broken connections, the server behaves as Messages says.
THEOREM ServerIsMessages == ThreadsSpec => MessagesSpec
<1>1. ThreadsInit(<<>>, {}, {}) => MessagesInit(<<>>, {})
  BY DEF ThreadsInit
<1>2. OwnSends /\ [ThreadsNext]_vars => [MessagesNext]_messageVars
  <2> SUFFICES ASSUME OwnSends, [ThreadsNext]_vars PROVE [MessagesNext]_messageVars
    OBVIOUS
  <2>1. ASSUME NEW r \in Req, Serve(r) PROVE [MessagesNext]_messageVars
    BY <2>1 DEF Serve, TellRoom, Respond, GiveUp, MessagesNext
  <2>2. ASSUME NEW b \in User, Browse(b) PROVE [MessagesNext]_messageVars
    BY <2>2, BrowseAsks DEF MessagesNext
  <2>3. CASE UNCHANGED vars
    BY <2>3 DEF vars
  <2> QED BY <2>1, <2>2, <2>3 DEF ThreadsNext
<1>3. ThreadsInit(<<>>, {}, {}) => OwnSends
  BY DEF ThreadsInit, OwnSends
<1> QED BY <1>1, <1>2, <1>3, NextOwnSends, PTL DEF ThreadsSpec, MessagesSpec

\* So what holds of Messages holds with the browsers: a deleted message has no text...
THEOREM ThreadsDeletedText == ThreadsSpec => []DeletedHasNoText
  BY ServerIsMessages, DeletedText, PTL

\* ...what the room was told is true...
THEOREM ThreadsToldTrue == ThreadsSpec => []ToldIsTrue
  BY ServerIsMessages, ToldTrue, PTL

\* ...and the reactions add up.
THEOREM ThreadsToggles == ThreadsSpec => []TogglesCount
  BY ServerIsMessages, Toggles, PTL

\* What a handler does to itself and to the others.
LEMMA HandlerKeeps ==
  ASSUME MessagesTypeOK, NEW r \in Req, Handle(r) \/ Tell(r) \/ Fail(r)
  PROVE  /\ pc[r] \notin {"idle", "answer", "refused"} /\ pc'[r] \notin {"idle", "start"}
         /\ req'[r].op = req[r].op /\ req'[r].user = req[r].user /\ req'[r].text = req[r].text
         /\ req[r].op # "read" => req'[r].key = req[r].key
         /\ \A q \in Req \ {r} : pc'[q] = pc[q] /\ req'[q] = req[q] /\ got'[q] = got[q]
<1>1. CASE Tell(r) \/ Fail(r)
  BY <1>1 DEF Tell, Fail, Goto, Working, Steps, tables, MessagesTypeOK
<1>2. CASE SendStart(r) \/ SendCreate(r)
  BY <1>2 DEF SendStart, SendCreate, Goto, Begin, Holds, tables, MessagesTypeOK
<1>3. CASE ChangeStart(r) \/ EditWrite(r) \/ DeleteWrite(r)
  BY <1>3 DEF ChangeStart, EditWrite, DeleteWrite, Goto, Begin, Holds, tables, MessagesTypeOK
<1>4. CASE ReactStart(r) \/ Reread(r)
  BY <1>4 DEF ReactStart, Reread, Goto, Begin, Holds, tables, MessagesTypeOK
<1>5. CASE FindReaction(r)
  BY <1>5 DEF FindReaction, Goto, tables, MessagesTypeOK, ReqType
<1>6. CASE Toggle(r)
  BY <1>6 DEF Toggle, SetLike, Goto, MessagesTypeOK
<1>7. CASE FindLatest(r)
  BY <1>7 DEF FindLatest, Goto, Begin, tables, MessagesTypeOK, ReqType
<1>8. CASE MessageExists(r) \/ SetLastRead(r) \/ ClearLastRead(r)
  BY <1>8 DEF MessageExists, SetLastRead, ClearLastRead, Goto, tables, MessagesTypeOK
<1>. QED
  BY <1>1, <1>2, <1>3, <1>4, <1>5, <1>6, <1>7, <1>8 DEF Handle

\* An answered handler is free again; one that is asked starts.
LEMMA AnswerFrees ==
  ASSUME MessagesTypeOK, NEW r \in Req, Answer(r)
  PROVE  /\ pc[r] \in {"answer", "refused"} /\ pc'[r] = "idle"
         /\ \A q \in Req \ {r} : pc'[q] = pc[q] /\ req'[q] = req[q] /\ got'[q] = got[q]
BY DEF Answer, Goto, Holds, MessagesTypeOK

LEMMA AskStarts ==
  ASSUME MessagesTypeOK, NEW r \in Req, NEW q, Ask(r, q)
  PROVE  /\ pc[r] = "idle" /\ pc'[r] = "start" /\ req'[r] = q
         /\ \A p \in Req \ {r} : pc'[p] = pc[p] /\ req'[p] = req[p]
         /\ UNCHANGED <<log, row, read, told, added, flipped, got, shaken, mishaps>>
BY DEF Ask, Goto, tables, MessagesTypeOK

(***************************************************************************)
(* A send and its retries (handleSend, pendingSend): a text gets one       *)
(* clientId until it is sent, or something else was tried meanwhile.       *)
(***************************************************************************)
Origin == [text : Text, start : Nat]

SendsTypeOK ==
  /\ pending \in [User -> {Nothing} \cup [key : Key, text : Text]]
  /\ said \in [User -> SUBSET (Text \cup {None})]
  /\ start \in [User -> Nat]
  /\ origin \in [Key -> Origin \cup {None}]
  /\ waiting \in SUBSET Req

\* A clientId of the present occasion is for what is pending, or was sent.
OfThisOccasion ==
  \A k \in Key :
    LET u == Author[k] IN
    origin[k] # None =>
      /\ origin[k].start <= start[u]
      /\ origin[k].start = start[u] => origin[k].text \in said[u] \/ origin[k].text = pending[u].text

\* A send that is awaited is of what is pending, unless the chat was opened since.
AwaitedIsPending ==
  \A r \in waiting :
    LET u == req[r].user IN
    /\ pc[r] # "idle"
    /\ req[r].op = "send" => pending[u] = Nothing \/ req[r].text = pending[u].text

OneKeyEach ==
  \A j, k \in Key : origin[j] = origin[k] /\ origin[j] # None /\ Author[j] = Author[k] => j = k

SendsInv == SendsTypeOK /\ OfThisOccasion /\ AwaitedIsPending /\ OneKeyEach

LEMMA SendsInitially == ThreadsInit(<<>>, {}, {}) => SendsInv
BY SMT DEF ThreadsInit, SendsInv, SendsTypeOK, OfThisOccasion, AwaitedIsPending, OneKeyEach

\* What neither answers, opens nor sends leaves the occasions alone.
LEMMA SendsQuiet ==
  ASSUME SendsInv, UNCHANGED <<pending, said, start, origin>>, waiting' \in SUBSET waiting,
         \A r \in waiting' : /\ pc'[r] # "idle" /\ req'[r].op = req[r].op
                             /\ req'[r].user = req[r].user /\ req'[r].text = req[r].text
  PROVE  SendsInv'
<1>1. SendsTypeOK' /\ OfThisOccasion' /\ OneKeyEach'
  BY DEF SendsInv, SendsTypeOK, OfThisOccasion, OneKeyEach
<1>2. AwaitedIsPending'
  BY DEF SendsInv, SendsTypeOK, AwaitedIsPending
<1>. QED
  BY <1>1, <1>2 DEF SendsInv

LEMMA OpenChatSends ==
  ASSUME SendsInv, MessagesTypeOK, NEW b \in User, NEW r \in Req, OpenChat(b, r)
  PROVE  SendsInv'
<1>1. /\ pending' = [pending EXCEPT ![b] = Nothing] /\ start' = [start EXCEPT ![b] = @ + 1]
      /\ UNCHANGED <<said, origin, waiting>>
  BY DEF OpenChat
<1>2. \A q \in waiting : q # r /\ pc'[q] = pc[q] /\ req'[q] = req[q]
  <2>1. pc[r] = "idle" /\ \A p \in Req \ {r} : pc'[p] = pc[p] /\ req'[p] = req[p]
    BY AskStarts DEF OpenChat
  <2>. QED
    BY <2>1 DEF SendsInv, SendsTypeOK, AwaitedIsPending
<1>3. start'[b] \in Nat /\ start'[b] > start[b] /\ \A u \in User \ {b} : start'[u] = start[u]
  <2>1. start[b] \in Nat
    BY DEF SendsInv, SendsTypeOK
  <2>2. start'[b] = start[b] + 1 /\ \A u \in User \ {b} : start'[u] = start[u]
    BY <1>1 DEF SendsInv, SendsTypeOK
  <2>. QED
    BY <2>1, <2>2, SMT
<1>4. SendsTypeOK' /\ OneKeyEach'
  BY <1>1, <1>3 DEF SendsInv, SendsTypeOK, OneKeyEach
<1>5. OfThisOccasion'
  <2>. SUFFICES ASSUME NEW k \in Key, origin[k] # None
                PROVE  /\ origin[k].start <= start'[Author[k]]
                       /\ origin[k].start = start'[Author[k]] =>
                            \/ origin[k].text \in said[Author[k]]
                            \/ origin[k].text = pending'[Author[k]].text
    BY <1>1 DEF OfThisOccasion
  <2>1. Author[k] \in User /\ origin[k].start \in Nat /\ start[Author[k]] \in Nat
    BY MessagesAssumption DEF SendsInv, SendsTypeOK, Origin
  <2>2. origin[k].start <= start[Author[k]]
    BY DEF SendsInv, OfThisOccasion
  <2>3. CASE Author[k] = b
    BY <1>3, <2>1, <2>2, <2>3, SMT
  <2>4. CASE Author[k] # b
    <3>1. start'[Author[k]] = start[Author[k]] /\ pending'[Author[k]] = pending[Author[k]]
      BY <1>1, <1>3, <2>1, <2>4 DEF SendsInv, SendsTypeOK
    <3>. QED
      BY <3>1 DEF SendsInv, OfThisOccasion
  <2>. QED
    BY <2>3, <2>4
<1>6. AwaitedIsPending'
  BY <1>1, <1>2 DEF SendsInv, SendsTypeOK, AwaitedIsPending
<1>. QED
  BY <1>4, <1>5, <1>6 DEF SendsInv

\* A press adds one request that is awaited.
LEMMA PressIs ==
  ASSUME SendsInv, MessagesTypeOK, NEW b \in User, NEW r \in Req, NEW q, Press(b, r, q)
  PROVE  /\ waiting' = waiting \cup {r} /\ req'[r] = q /\ pc'[r] # "idle"
         /\ \A p \in waiting : p # r /\ pc'[p] # "idle" /\ req'[p] = req[p]
<1>1. /\ pc[r] = "idle" /\ pc'[r] = "start" /\ req'[r] = q
      /\ \A p \in Req \ {r} : pc'[p] = pc[p] /\ req'[p] = req[p]
  BY AskStarts DEF Press
<1>. QED
  BY <1>1 DEF Press, SendsInv, SendsTypeOK, AwaitedIsPending

\* Another press: an edit, a deletion, a reaction.
LEMMA PressSends ==
  ASSUME SendsInv, MessagesTypeOK, NEW b \in User, NEW r \in Req, NEW q, Press(b, r, q),
         q.op # "send", UNCHANGED sendVars
  PROVE  SendsInv'
<1>1. /\ waiting' = waiting \cup {r} /\ req'[r] = q /\ pc'[r] # "idle"
      /\ \A p \in waiting : p # r /\ pc'[p] # "idle" /\ req'[p] = req[p]
  BY PressIs
<1>2. SendsTypeOK' /\ OfThisOccasion' /\ OneKeyEach'
  BY <1>1 DEF SendsInv, SendsTypeOK, OfThisOccasion, OneKeyEach, sendVars
<1>3. AwaitedIsPending'
  BY <1>1 DEF SendsInv, AwaitedIsPending, sendVars
<1>. QED
  BY <1>2, <1>3 DEF SendsInv

\* A new clientId is given to a text only if it has none on this occasion.
LEMMA SendSends ==
  ASSUME SendsInv, MessagesTypeOK, NEW b \in User, NEW r \in Req, NEW t \in Text, Send(b, r, t)
  PROVE  SendsInv'
<1>1. t \notin said[b] /\ said' = said /\ ~Awaits(b, {"send", "edit"})
  BY DEF Send
<1>2. PICK k \in Key \cup {None} : Press(b, r, Request("send", b, k, t))
  BY DEF Send, SendsInv, SendsTypeOK, Nothing
<1>3. /\ waiting' = waiting \cup {r} /\ pc'[r] # "idle"
      /\ req'[r].op = "send" /\ req'[r].user = b /\ req'[r].text = t
      /\ \A p \in waiting : p # r /\ pc'[p] # "idle" /\ req'[p] = req[p]
  BY <1>2, PressIs DEF Request
<1>4. \A p \in waiting : req[p].user = b => req[p].op # "send"
  BY <1>1 DEF Awaits
<1>5. CASE pending[b].text = t /\ UNCHANGED <<pending, start, origin>>
  <2>1. SendsTypeOK' /\ OfThisOccasion' /\ OneKeyEach'
    BY <1>1, <1>3, <1>5 DEF SendsInv, SendsTypeOK, OfThisOccasion, OneKeyEach
  <2>2. AwaitedIsPending'
    BY <1>3, <1>5 DEF SendsInv, AwaitedIsPending
  <2>. QED
    BY <2>1, <2>2 DEF SendsInv
<1>6. ASSUME NEW j \in Key, Author[j] = b, origin[j] = None,
             start' = [start EXCEPT ![b] = IF pending[b] = Nothing THEN @ ELSE @ + 1],
             pending' = [pending EXCEPT ![b] = [key |-> j, text |-> t]],
             origin' = [origin EXCEPT ![j] = [text |-> t, start |-> start'[b]]]
      PROVE  SendsInv'
  <2>1. /\ start[b] \in Nat /\ start'[b] \in Nat /\ start[b] <= start'[b]
        /\ (pending[b] = Nothing => start'[b] = start[b])
        /\ (pending[b] # Nothing => start'[b] > start[b])
        /\ \A u \in User \ {b} : start'[u] = start[u]
    <3>1. start[b] \in Nat
      BY DEF SendsInv, SendsTypeOK
    <3>2. /\ start'[b] = IF pending[b] = Nothing THEN start[b] ELSE start[b] + 1
          /\ \A u \in User \ {b} : start'[u] = start[u]
      BY <1>6 DEF SendsInv, SendsTypeOK
    <3>. QED
      BY <3>1, <3>2, SMT
  <2>2. /\ pending'[b].text = t /\ \A u \in User \ {b} : pending'[u] = pending[u]
        /\ origin'[j].text = t /\ origin'[j].start = start'[b]
        /\ \A i \in Key \ {j} : origin'[i] = origin[i]
    BY <1>6 DEF SendsInv, SendsTypeOK
  <2>3. SendsTypeOK'
    <3>1. [key |-> j, text |-> t] \in [key : Key, text : Text]
      OBVIOUS
    <3>2. [text |-> t, start |-> start'[b]] \in Origin
      BY <2>1 DEF Origin
    <3>3. start' \in [User -> Nat]
      BY <1>6, <2>1 DEF SendsInv, SendsTypeOK
    <3>. QED
      BY <1>1, <1>3, <1>6, <3>1, <3>2, <3>3 DEF SendsInv, SendsTypeOK
  <2>4. \A i \in Key \ {j} : Author[i] = b /\ origin[i] # None =>
          /\ origin[i].start \in Nat /\ origin[i].start <= start[b]
          /\ origin[i].start = start[b] => origin[i].text \in said[b] \/ origin[i].text = pending[b].text
    BY DEF SendsInv, OfThisOccasion, SendsTypeOK, Origin
  <2>5. \A i \in Key \ {j} : Author[i] = b /\ origin[i] # None /\ origin[i].start = start'[b]
          => origin[i].text \in said[b]
    <3>. SUFFICES ASSUME NEW i \in Key \ {j}, Author[i] = b, origin[i] # None,
                         origin[i].start = start'[b]
                  PROVE  origin[i].text \in said[b]
      OBVIOUS
    <3>1. pending[b] = Nothing /\ origin[i].start = start[b]
      BY <2>1, <2>4, SMT
    <3>2. origin[i].text \in Text /\ Nothing.text = None
      BY DEF SendsInv, SendsTypeOK, Origin, Nothing
    <3>. QED
      BY <2>4, <3>1, <3>2, MessagesAssumption
  <2>6. OfThisOccasion'
    <3>. SUFFICES ASSUME NEW i \in Key, origin'[i] # None
                  PROVE  /\ origin'[i].start <= start'[Author[i]]
                         /\ origin'[i].start = start'[Author[i]] =>
                              \/ origin'[i].text \in said'[Author[i]]
                              \/ origin'[i].text = pending'[Author[i]].text
      BY DEF OfThisOccasion
    <3>1. CASE i = j
      BY <1>6, <2>1, <2>2, <3>1, SMT
    <3>2. CASE i # j /\ Author[i] = b
      <4>1. origin[i].start <= start'[b]
        BY <2>1, <2>2, <2>4, <3>2, SMT
      <4>. QED
        BY <1>1, <2>2, <2>5, <3>2, <4>1
    <3>3. CASE i # j /\ Author[i] # b
      <4>1. Author[i] \in User
        BY MessagesAssumption
      <4>. QED
        BY <1>1, <2>1, <2>2, <3>3, <4>1 DEF SendsInv, OfThisOccasion
    <3>. QED
      BY <3>1, <3>2, <3>3
  <2>7. OneKeyEach'
    <3>1. \A i \in Key \ {j} : Author[i] = b /\ origin'[i] # None => origin'[i] # origin'[j]
      BY <1>1, <2>2, <2>5
    <3>. QED
      BY <1>6, <2>2, <3>1 DEF SendsInv, OneKeyEach
  <2>8. AwaitedIsPending'
    <3>1. \A p \in waiting : req[p].op = "send" => req[p].user # b
      BY <1>4
    <3>2. \A u : u # b => pending'[u] = pending[u] \/ u \notin User
      BY <2>2
    <3>3. \A p \in waiting : req[p].op = "send" => req[p].user \in User
      BY DEF SendsInv, SendsTypeOK, AwaitedIsPending, MessagesTypeOK
    <3>. QED
      BY <1>3, <2>2, <3>1, <3>2, <3>3 DEF SendsInv, AwaitedIsPending
  <2>. QED
    BY <2>3, <2>6, <2>7, <2>8 DEF SendsInv
<1>. QED
  BY <1>5, <1>6 DEF Send

\* A send that is answered is no longer pending, and its text was said.
LEMMA RespondSends ==
  ASSUME SendsInv, MessagesTypeOK, NEW r \in Req, Respond(r)
  PROVE  SendsInv'
<1>1. Answer(r) /\ waiting' = waiting \ {r} /\ UNCHANGED <<start, origin>>
  BY DEF Respond
<1>2. \A q \in waiting' : q \in waiting /\ pc'[q] # "idle" /\ req'[q] = req[q]
  BY <1>1, AnswerFrees DEF SendsInv, SendsTypeOK, AwaitedIsPending
<1>3. CASE UNCHANGED <<pending, said>>
  BY <1>1, <1>2, <1>3, SendsQuiet
<1>4. CASE /\ r \in waiting /\ req[r].op = "send"
           /\ pending' = [pending EXCEPT ![req[r].user] = Nothing]
           /\ said' = [said EXCEPT ![req[r].user] = @ \cup {req[r].text}]
  <2> DEFINE u == req[r].user
  <2>1. /\ u \in User /\ req[r].text \in Text \cup {None}
        /\ pending[u] = Nothing \/ req[r].text = pending[u].text
    BY <1>4 DEF SendsInv, AwaitedIsPending, SendsTypeOK, MessagesTypeOK, ReqType
  <2>2. /\ pending'[u] = Nothing /\ said'[u] = said[u] \cup {req[r].text}
        /\ \A v \in User \ {u} : pending'[v] = pending[v] /\ said'[v] = said[v]
    BY <1>4, <2>1 DEF SendsInv, SendsTypeOK
  <2>3. SendsTypeOK' /\ OneKeyEach'
    BY <1>1, <1>4, <2>1 DEF SendsInv, SendsTypeOK, OneKeyEach
  <2>4. \A k \in Key : origin[k] # None => origin[k].text # None
    BY MessagesAssumption DEF SendsInv, SendsTypeOK, Origin
  <2>. HIDE DEF u
  <2>5. OfThisOccasion'
    <3>. SUFFICES ASSUME NEW k \in Key, origin[k] # None, origin[k].start = start[Author[k]]
                  PROVE  origin[k].text \in said'[Author[k]]
                         \/ origin[k].text = pending'[Author[k]].text
      BY <1>1 DEF OfThisOccasion, SendsInv
    <3>1. /\ Author[k] \in User
          /\ origin[k].text \in said[Author[k]] \/ origin[k].text = pending[Author[k]].text
      BY MessagesAssumption DEF SendsInv, OfThisOccasion
    <3>. QED
      BY <2>1, <2>2, <2>4, <3>1 DEF Nothing
  <2>6. AwaitedIsPending'
    <3>1. \A q \in waiting : req[q].user \in User \/ req[q].op # "send"
      BY DEF SendsInv, SendsTypeOK, AwaitedIsPending, MessagesTypeOK
    <3>. QED
      BY <1>2, <2>2, <3>1 DEF SendsInv, AwaitedIsPending
  <2>. QED
    BY <2>3, <2>5, <2>6 DEF SendsInv
<1>. QED
  BY <1>3, <1>4 DEF Respond, Sent

LEMMA NextSends == SendsInv /\ MessagesTypeOK /\ [ThreadsNext]_vars => SendsInv'
<1>. SUFFICES ASSUME SendsInv, MessagesTypeOK, [ThreadsNext]_vars PROVE SendsInv'
  OBVIOUS
<1>a. ASSUME UNCHANGED <<pending, said, start, origin, waiting>>,
             \A r \in waiting : /\ pc'[r] # "idle" /\ req'[r].op = req[r].op
                                /\ req'[r].user = req[r].user /\ req'[r].text = req[r].text
      PROVE  SendsInv'
  BY <1>a, SendsQuiet
<1>b. \A r \in waiting : r \in Req /\ pc[r] # "idle"
  BY DEF SendsInv, SendsTypeOK, AwaitedIsPending
<1>1. CASE UNCHANGED vars
  BY <1>1, <1>a, <1>b DEF vars, sendVars, messageVars
<1>2. ASSUME NEW r \in Req, Serve(r) PROVE SendsInv'
  <2>1. CASE (Handle(r) \/ Fail(r) \/ Tell(r)) /\ UNCHANGED <<sendVars, waiting>>
    BY <2>1, <1>a, <1>b, HandlerKeeps DEF sendVars
  <2>2. CASE GiveUp(r)
    <3>1. /\ UNCHANGED <<pending, said, start, origin, pc, req>> /\ waiting' = waiting \ {r}
      BY <2>2 DEF GiveUp, sendVars, messageVars
    <3>. QED
      BY <3>1, <1>b, SendsQuiet
  <2>. QED
    BY <1>2, <2>1, <2>2, RespondSends DEF Serve, TellRoom
<1>3. ASSUME NEW b \in User, Browse(b) PROVE SendsInv'
  <2>1. ASSUME NEW part, ReadPart(b, part) \/ Loaded(b) \/ LeaveChat(b) \/ Ignore(b)
                           \/ Disconnect(b) \/ Reconnect(b)
        PROVE  SendsInv'
    <3>1. UNCHANGED <<pending, said, start, origin, waiting, pc, req>>
      BY <2>1 DEF ReadPart, Loaded, LeaveChat, Ignore, Disconnect, Reconnect, sendVars, messageVars
    <3>. QED
      BY <3>1, <1>a, <1>b
  <2>2. ASSUME NEW r \in Req, Take(b, r) PROVE SendsInv'
    <3>1. UNCHANGED <<pending, said, start, origin, waiting>>
      BY <2>2 DEF Take, sendVars
    <3>2. \A q \in waiting : pc'[q] = pc[q] /\ req'[q] = req[q]
      <4>1. CASE UNCHANGED messageVars
        BY <4>1 DEF messageVars
      <4>2. CASE Ask(r, Request("read", b, None, None))
        BY <4>2, <1>b, AskStarts
      <4>. QED
        BY <2>2, <4>1, <4>2 DEF Take
    <3>. QED
      BY <3>1, <3>2, <1>a, <1>b
  <2>3. ASSUME NEW r \in Req, NEW k \in Key, NEW t \in Text, Edit(b, r, k, t) PROVE SendsInv'
    <3>1. Request("edit", b, k, t).op # "send"
      BY DEF Request
    <3>. QED
      BY <2>3, <3>1, PressSends DEF Edit
  <2>4. ASSUME NEW r \in Req, NEW k \in Key, Delete(b, r, k) \/ React(b, r, k)
        PROVE  SendsInv'
    <3>1. /\ Request("delete", b, k, None).op # "send" /\ Request("react", b, k, None).op # "send"
      BY DEF Request
    <3>. QED
      BY <2>4, <3>1, PressSends DEF Delete, React
  <2>. QED
    BY <1>3, <2>1, <2>2, <2>3, <2>4, OpenChatSends, SendSends DEF Browse
<1>. QED
  BY <1>1, <1>2, <1>3 DEF ThreadsNext

\* What a person sends once is one message, however often it is retried (handleSend keeps
\* the clientId in pendingSend), for any number of people, texts, failures and retries.
THEOREM SentOnceOnly == ThreadsSpec => []SentOnce
<1>1. OneKeyEach => SentOnce
  BY DEF OneKeyEach, SentOnce
<1>2. ThreadsSpec => []MessagesTypeOK
  BY ServerIsMessages, MessagesType, PTL
<1>. QED
  BY <1>1, <1>2, SendsInitially, NextSends, PTL DEF ThreadsSpec, SendsInv

(***************************************************************************)
(* What else holds of the server: which rows are those of messages, and    *)
(* that the room was told of each of them unless a send is at work on it.  *)
(***************************************************************************)
IsRow(w) == w \in RowType /\ (w.text \in Text \/ w.gone)

IsSending(k) == \E r \in Req : pc[r] \in Working /\ req[r].op = "send" /\ req[r].key = k

\* Somebody is going to tell the room of s.
IsTelling(s) == \E r \in Req : pc[r] \in {"reread", "tell"} /\ Subject(r) = s

WritesText == \A r \in Req : pc[r] # "idle" /\ req[r].op \in {"send", "edit"} => req[r].text \in Text

RowIsWritten ==
  \A k \in Key : IF Written(k) THEN IsRow(row[k]) ELSE row[k] = NoRow /\ told[k] = NoRow

GotIsRow ==
  \A r \in Req : pc[r] \in {"tell", "answer"} /\ req[r].op # "read"
                   => Written(req[r].key) /\ IsRow(got[r])

UntoldHasSender ==
  \A k \in Key \ shaken : Written(k) /\ told[k] = NoRow =>
    \E r \in Req : pc[r] = "tell" /\ req[r].op = "send" /\ req[r].key = k

OnlySendsTold == \A k \in Key \ shaken : IsSending(k) => told[k] \in {NoRow, row[k]}

ServerInv == WritesText /\ RowIsWritten /\ GotIsRow /\ UntoldHasSender /\ OnlySendsTold

LEMMA IsRowIsNotNoRow == \A w : IsRow(w) => w # NoRow
BY MessagesAssumption DEF IsRow, NoRow

LEMMA ServerInitially == MessagesInit(<<>>, {}) => ServerInv
<1>. SUFFICES ASSUME MessagesInit(<<>>, {}) PROVE ServerInv
  OBVIOUS
<1>1. \A k \in Key : ~Written(k) /\ row[k] = NoRow /\ told[k] = NoRow
  <2>1. \A k \in Key : ~Contains(<<>>, k)
    BY DEF Contains
  <2>2. \A k \in Key : k \notin User
    BY MessagesAssumption
  <2>. QED
    BY <2>1, <2>2 DEF MessagesInit, Written, Value
<1>2. \A r \in Req : pc[r] = "idle"
  BY DEF MessagesInit
<1>. QED
  BY <1>1, <1>2 DEF ServerInv, WritesText, RowIsWritten, GotIsRow, UntoldHasSender, OnlySendsTold,
     IsSending, Working

\* Messages stay in the table.
LEMMA AppendWrites ==
  ASSUME log \in Seq(Key), NEW k \in Key, log' = Append(log, k)
  PROVE  \A j \in Key : Written(j)' <=> Written(j) \/ j = k
BY DEF Written, Contains

(***************************************************************************)
(* What a handler's step does to the subject of the handler, and that it   *)
(* does nothing to the others.                                             *)
(***************************************************************************)
LEMMA StepLeavesOthers ==
  ASSUME MessagesTypeOK, NEW r \in Req, Handle(r) \/ Tell(r) \/ Fail(r), NEW x, x # Subject(r)
  PROVE  (IsTelling(x)' <=> IsTelling(x)) /\ (IsSending(x)' <=> IsSending(x))
<1>1. /\ pc[r] \notin {"idle", "answer", "refused"}
      /\ req'[r].op = req[r].op /\ req'[r].user = req[r].user
      /\ req[r].op # "read" => req'[r].key = req[r].key
      /\ \A q \in Req \ {r} : pc'[q] = pc[q] /\ req'[q] = req[q]
  BY HandlerKeeps
<1>2. \A q \in Req \ {r} : Subject(q)' = Subject(q)
  BY <1>1 DEF Subject
<1>3. Subject(r)' = Subject(r)
  BY <1>1 DEF Subject
<1>4. IsTelling(x)' <=> IsTelling(x)
  BY <1>1, <1>2, <1>3 DEF IsTelling
<1>5. IsSending(x)' <=> IsSending(x)
  BY <1>1 DEF IsSending, Subject
<1>. QED
  BY <1>4, <1>5

\* A handler that does not tell changes nothing of the room's news.
LEMMA HandleTells == 
  ASSUME NEW r \in Req, Handle(r) \/ Fail(r)
  PROVE  told' = told /\ shaken \subseteq shaken'
<1>1. CASE Fail(r)
  BY <1>1 DEF Fail, tables
<1>2. CASE SendStart(r) \/ SendCreate(r) \/ ChangeStart(r) \/ EditWrite(r) \/ DeleteWrite(r)
  BY <1>2 DEF SendStart, SendCreate, ChangeStart, EditWrite, DeleteWrite, Begin, tables
<1>3. CASE ReactStart(r) \/ FindReaction(r) \/ Toggle(r) \/ Reread(r)
  BY <1>3 DEF ReactStart, FindReaction, Toggle, SetLike, Reread, Begin, tables
<1>4. CASE FindLatest(r) \/ MessageExists(r) \/ SetLastRead(r) \/ ClearLastRead(r)
  BY <1>4 DEF FindLatest, MessageExists, SetLastRead, ClearLastRead, Begin, tables
<1>. QED
  BY <1>1, <1>2, <1>3, <1>4 DEF Handle

\* Which table a step writes, and where.
LEMMA HandleWrites ==
  ASSUME MessagesInv, ServerInv, NEW r \in Req, Handle(r) \/ Fail(r) \/ Tell(r)
  PROVE  LET s == Subject(r) IN
         /\ \A k \in Key : Written(k) => Written(k)'
         /\ \A k \in Key \ {s} : row'[k] = row[k] /\ (Written(k)' <=> Written(k))
         /\ \A u \in User \ {s} : read'[u] = read[u]
         /\ \/ UNCHANGED <<log, row, read>>
            \/ /\ \A k \in Key : k = s => Written(k)'
               /\ pc[r] = "create" /\ ~Written(s) /\ s \in Key /\ read' = read
               /\ IsRow(row'[s]) /\ ~row'[s].gone /\ pc'[r] = "tell" /\ got'[r] = row'[s]
            \/ /\ pc[r] \in {"edit", "delete"} /\ pc'[r] = "tell" /\ UNCHANGED <<log, read>>
               /\ s \in Key /\ IsRow(row'[s]) /\ (row[s].gone => row'[s].gone) /\ got'[r] = row'[s]
            \/ /\ pc[r] = "toggle" /\ pc'[r] = "reread" /\ UNCHANGED <<log, read, got>>
               /\ s \in Key /\ IsRow(row'[s]) /\ row'[s].gone = row[s].gone
            \/ /\ pc[r] = "point" /\ pc'[r] = "tell" /\ UNCHANGED <<log, row, got>>
               /\ s \in User /\ req[r].op = "read"
            \/ /\ pc[r] = "clear" /\ pc'[r] = "answer" /\ UNCHANGED <<log, row, got>>
               /\ s \in User /\ read'[s] = None /\ req[r].op = "read"
<1> DEFINE s == Subject(r)
<1>0. MessagesTypeOK /\ pc[r] # "idle"
  BY HandlerKeeps DEF MessagesInv
<1>a. /\ s \in User \cup Key /\ (s \in User <=> req[r].op = "read")
      /\ req[r].op = "read" => s = req[r].user
      /\ req[r].op # "read" => s = req[r].key /\ s \in Key
  BY <1>0, SubjectType DEF Subject
<1>b. Key \cap User = {}
  BY MessagesAssumption
<1>. HIDE DEF s
<1>1. CASE UNCHANGED <<log, row, read>>
  BY <1>1 DEF Written, s
<1>2. CASE SendCreate(r)
  <2>1. req[r].op = "send" /\ pc[r] = "create" /\ read' = read /\ pc'[r] = "tell" /\ s = req[r].key
    BY <1>2, <1>a DEF SendCreate, MessagesInv, StepsOfOp, Goto, MessagesTypeOK
  <2>2. CASE /\ ~Written(s) /\ log' = Append(log, s) /\ got'[r] = row'[s]
             /\ row' = [row EXCEPT ![s] = [NoRow EXCEPT !.text = req[r].text]]
    <3>1. [NoRow EXCEPT !.text = req[r].text].text \in Text /\ ~[NoRow EXCEPT !.text = req[r].text].gone
      BY <2>1 DEF NoRow, ServerInv, WritesText
    <3>2. [NoRow EXCEPT !.text = req[r].text] \in RowType
      BY RowTypes, <2>1 DEF ServerInv, WritesText
    <3>3. row'[s] = [NoRow EXCEPT !.text = req[r].text] /\ \A k \in Key \ {s} : row'[k] = row[k]
      BY <1>a, <2>1, <2>2, <1>0 DEF MessagesTypeOK
    <3>4. \A j \in Key : Written(j)' <=> Written(j) \/ j = s
      BY <1>a, <2>1, <2>2, <1>0, AppendWrites DEF MessagesTypeOK
    <3>5. IsRow(row'[s]) /\ ~row'[s].gone
      BY <3>1, <3>2, <3>3 DEF IsRow
    <3>6. /\ \A k \in Key : Written(k) => Written(k)'
          /\ \A k \in Key \ {s} : Written(k)' <=> Written(k)
          /\ s \in Key /\ \A k \in Key : k = s => Written(k)'
      BY <1>a, <2>1, <3>4
    <3>. QED
      BY <2>1, <2>2, <3>3, <3>5, <3>6 DEF s
  <2>3. CASE UNCHANGED <<log, row>>
    BY <1>1, <2>1, <2>3
  <2>. QED
    BY <1>2, <2>1, <2>2, <2>3, <1>0 DEF SendCreate, Holds, MessagesTypeOK
<1>3. CASE EditWrite(r) \/ DeleteWrite(r)
  <2>1. /\ req[r].op \in {"edit", "delete"} /\ pc[r] = req[r].op /\ UNCHANGED <<log, read>>
        /\ pc'[r] = "tell" /\ s = req[r].key /\ s \in Key /\ got'[r] = row'[s]
    BY <1>0, <1>3, <1>a DEF EditWrite, DeleteWrite, MessagesInv, StepsOfOp, Goto, Holds, MessagesTypeOK
  <2>2. row[s] \in RowType /\ \A k \in Key \ {s} : row'[k] = row[k]
    BY <1>0, <1>3, <2>1 DEF EditWrite, DeleteWrite, MessagesTypeOK
  <2>3. CASE EditWrite(r)
    <3>1. req[r].text \in Text
      BY <2>1, <2>3 DEF EditWrite, ServerInv, WritesText, MessagesInv, StepsOfOp
    <3>2. row'[s] = [row[s] EXCEPT !.text = req[r].text]
      BY <1>0, <2>1, <2>3 DEF EditWrite, MessagesTypeOK
    <3>3. row'[s] \in RowType /\ row'[s].text = req[r].text /\ row'[s].gone = row[s].gone
      BY <2>2, <3>1, <3>2 DEF RowType
    <3>. QED
      BY <1>a, <2>1, <2>2, <3>1, <3>3 DEF IsRow, Written, s
  <2>4. CASE DeleteWrite(r)
    <3>1. row'[s] = [row[s] EXCEPT !.gone = TRUE, !.text = None]
      BY <1>0, <2>1, <2>4 DEF DeleteWrite, MessagesTypeOK
    <3>2. row'[s] \in RowType /\ row'[s].gone
      BY <2>2, <3>1 DEF RowType
    <3>. QED
      BY <1>a, <2>1, <2>2, <3>2 DEF IsRow, Written, s
  <2>. QED
    BY <1>3, <2>3, <2>4
<1>4. CASE Toggle(r)
  <2>1. /\ req[r].op = "react" /\ pc[r] = "toggle" /\ s = req[r].key /\ s \in Key
        /\ UNCHANGED <<log, read, got>>
    BY <1>0, <1>4, <1>a DEF Toggle, MessagesInv, StepsOfOp
  <2>2. CASE \E id \in 0..Reactions : SetLike(r, id)
    <3>. PICK id \in 0..Reactions : SetLike(r, id)
      BY <2>2
    <3>1. row[s] \in RowType /\ req[r].user \in User /\ Written(s) /\ pc'[r] = "reread"
      BY <1>0, <2>1 DEF MessagesTypeOK, MessagesInv, WorkedIsWritten, Working, Steps, SetLike, Goto
    <3>2. /\ row'[s] = [row[s] EXCEPT !.likes = [row[s].likes EXCEPT ![req[r].user] = id]]
          /\ \A k \in Key \ {s} : row'[k] = row[k]
      BY <1>0, <2>1 DEF SetLike, MessagesTypeOK
    <3>3. row'[s] \in RowType
      BY <3>1, <3>2, LikeType
    <3>4. row'[s].text = row[s].text /\ row'[s].gone = row[s].gone
      BY <3>1, <3>2 DEF RowType
    <3>5. IsRow(row'[s])
      BY <2>1, <3>1, <3>3, <3>4 DEF IsRow, ServerInv, RowIsWritten
    <3>. QED
      BY <1>a, <2>1, <3>1, <3>2, <3>4, <3>5 DEF Written, s
  <2>3. CASE row' = row
    BY <1>1, <2>1, <2>3
  <2>4. added \in 0..Reactions /\ (added < Reactions => added + 1 \in 0..Reactions) /\ 0 \in 0..Reactions
    BY <1>0, MessagesAssumption, SMT DEF MessagesTypeOK
  <2>. QED
    BY <1>4, <2>2, <2>3, <2>4 DEF Toggle
<1>5. CASE SetLastRead(r) \/ ClearLastRead(r)
  <2>1. /\ req[r].op = "read" /\ s = req[r].user /\ s \in User /\ UNCHANGED <<log, row, got>>
        /\ \A u \in User \ {s} : read'[u] = read[u]
    BY <1>0, <1>5, <1>a DEF SetLastRead, ClearLastRead, MessagesInv, StepsOfOp, MessagesTypeOK
  <2>2. \/ pc[r] = "point" /\ pc'[r] = "tell"
        \/ pc[r] = "clear" /\ pc'[r] = "answer" /\ read'[s] = None
    BY <1>0, <1>5, <2>1 DEF SetLastRead, ClearLastRead, Goto, MessagesTypeOK
  <2>. QED
    BY <1>b, <2>1, <2>2 DEF Written, s
<1>6. CASE ~(SendCreate(r) \/ EditWrite(r) \/ DeleteWrite(r) \/ Toggle(r) \/ SetLastRead(r) \/ ClearLastRead(r))
  BY <1>1, <1>6 DEF Handle, Fail, Tell, SendStart, ChangeStart, ReactStart, FindReaction, Reread,
     FindLatest, MessageExists, tables
<1>. QED
  BY <1>2, <1>3, <1>4, <1>5, <1>6

\* Asking and answering leave what is worked on and told alone.
LEMMA EndsLeave ==
  ASSUME MessagesTypeOK, NEW r \in Req, Answer(r) \/ \E q : Ask(r, q)
  PROVE  /\ UNCHANGED <<log, row, read, told, shaken>>
         /\ \A x : (IsTelling(x)' <=> IsTelling(x)) /\ (IsSending(x)' <=> IsSending(x))
<1>1. /\ UNCHANGED <<log, row, read, told, shaken>>
      /\ pc[r] \in {"idle", "answer", "refused"} /\ pc'[r] \in {"idle", "start"}
      /\ \A q \in Req \ {r} : pc'[q] = pc[q] /\ req'[q] = req[q]
  BY AnswerFrees, AskStarts DEF Answer, tables
<1>2. pc[r] \notin Working /\ pc'[r] \notin Working
  BY <1>1 DEF Working
<1>3. \A x : IsTelling(x)' <=> IsTelling(x)
  <2>1. \A q \in Req \ {r} : Subject(q)' = Subject(q)
    BY <1>1 DEF Subject
  <2>. QED
    BY <1>1, <2>1 DEF IsTelling
<1>4. \A x : IsSending(x)' <=> IsSending(x)
  BY <1>1, <1>2 DEF IsSending
<1>. QED
  BY <1>1, <1>3, <1>4

\* What a handler is going to tell or answer is the row as it is.
LEMMA HandlerHolds ==
  ASSUME MessagesInv, ServerInv, NEW r \in Req, Handle(r) \/ Fail(r), req[r].op # "read",
         pc'[r] \in {"tell", "answer"}
  PROVE  got'[r] = row'[req[r].key]
<1>0. MessagesTypeOK /\ StepsOfOp
  BY DEF MessagesInv
<1>1. CASE SendStart(r) \/ SendCreate(r)
  BY <1>0, <1>1 DEF SendStart, SendCreate, Goto, Holds, Begin, tables, MessagesTypeOK
<1>2. CASE ChangeStart(r) \/ ReactStart(r) \/ Fail(r)
  BY <1>0, <1>2 DEF ChangeStart, ReactStart, Fail, Goto, Begin, MessagesTypeOK
<1>3. CASE EditWrite(r) \/ DeleteWrite(r) \/ Reread(r)
  BY <1>0, <1>3 DEF EditWrite, DeleteWrite, Reread, Goto, Holds, tables, MessagesTypeOK
<1>4. CASE FindReaction(r) \/ Toggle(r)
  BY <1>0, <1>4 DEF FindReaction, Toggle, SetLike, Goto, MessagesTypeOK
<1>5. CASE FindLatest(r) \/ MessageExists(r) \/ SetLastRead(r) \/ ClearLastRead(r)
  BY <1>0, <1>5 DEF FindLatest, MessageExists, SetLastRead, ClearLastRead, StepsOfOp
<1>. QED
  BY <1>1, <1>2, <1>3, <1>4, <1>5 DEF Handle

\* A handler that begins to send found no such message.
LEMMA SenderBegins ==
  ASSUME MessagesTypeOK, NEW r \in Req, Handle(r) \/ Fail(r), req[r].op = "send",
         pc[r] \notin Working, pc'[r] \in Working
  PROVE  ~Written(req[r].key)
<1>1. pc[r] = "start" /\ ~Fail(r)
  BY HandlerKeeps DEF Working, MessagesTypeOK, Fail, Goto
<1>2. SendStart(r)
  BY <1>1 DEF Handle, SendCreate, ChangeStart, EditWrite, DeleteWrite, ReactStart, FindReaction,
     Toggle, Reread, FindLatest, MessageExists, SetLastRead, ClearLastRead
<1>. QED
  BY <1>2 DEF SendStart, Goto, Working, MessagesTypeOK

LEMMA HandleServer ==
  ASSUME MessagesInv, MessagesInv', ServerInv, NEW r \in Req, Handle(r) \/ Fail(r)
  PROVE  ServerInv'
<1> DEFINE s == Subject(r)
<1>0. MessagesTypeOK /\ StepsOfOp
  BY DEF MessagesInv
<1>1. /\ pc[r] \notin {"idle", "answer", "refused"} /\ pc'[r] \notin {"idle", "start"}
      /\ req'[r].op = req[r].op /\ req'[r].text = req[r].text
      /\ req[r].op # "read" => req'[r].key = req[r].key
      /\ \A q \in Req \ {r} : pc'[q] = pc[q] /\ req'[q] = req[q] /\ got'[q] = got[q]
  BY <1>0, HandlerKeeps
<1>2. told' = told /\ shaken \subseteq shaken'
  BY HandleTells
<1>3. /\ \A k \in Key : Written(k) => Written(k)'
      /\ \A k \in Key \ {s} : row'[k] = row[k] /\ (Written(k)' <=> Written(k))
      /\ \/ UNCHANGED <<log, row>>
         \/ /\ pc[r] = "create" /\ ~Written(s) /\ s \in Key /\ pc'[r] = "tell"
            /\ \A k \in Key : k = s => Written(k)' /\ IsRow(row'[k])
         \/ /\ pc[r] \in {"edit", "delete", "toggle"} /\ UNCHANGED log
            /\ s \in Key /\ IsRow(row'[s])
  BY HandleWrites
<1>4. /\ s \in User \cup Key /\ (s \in User <=> req[r].op = "read")
      /\ req[r].op # "read" => s = req[r].key /\ s \in Key
  BY <1>0, <1>1, SubjectType DEF Subject
<1>5. \A k \in Key \ {s} : IsSending(k)' <=> IsSending(k)
  BY <1>0, StepLeavesOthers
<1>6. pc[r] \in Working \ {"create"} => Written(s) \/ req[r].op = "read"
  BY <1>4 DEF MessagesInv, WorkedIsWritten
<1>7. Fail(r) => s \in shaken'
  BY DEF Fail
<1>8. pc[r] # "tell" \/ Fail(r)
  BY DEF Handle, SendStart, SendCreate, ChangeStart, EditWrite, DeleteWrite, ReactStart, FindReaction,
     Toggle, Reread, FindLatest, MessageExists, SetLastRead, ClearLastRead
<1>. HIDE DEF s
<1>9. \A k \in Key : Written(k)' /\ ~Written(k) => k = s /\ pc[r] = "create" /\ pc'[r] = "tell" /\ IsRow(row'[k])
  <2>1. CASE UNCHANGED log
    BY <2>1 DEF Written
  <2>. QED
    BY <1>3, <2>1
<1>10. WritesText'
  BY <1>1 DEF ServerInv, WritesText
<1>11. RowIsWritten'
  <2>. SUFFICES ASSUME NEW k \in Key
                PROVE  IF Written(k)' THEN IsRow(row'[k]) ELSE row'[k] = NoRow /\ told[k] = NoRow
    BY <1>2 DEF RowIsWritten, IsRow
  <2>1. CASE Written(k)
    <3>1. IsRow(row[k]) /\ Written(k)'
      BY <1>3, <2>1 DEF ServerInv, RowIsWritten
    <3>. QED
      BY <1>3, <3>1
  <2>2. CASE ~Written(k) /\ Written(k)'
    BY <1>9, <2>2
  <2>3. CASE ~Written(k) /\ ~Written(k)'
    <3>1. row[k] = NoRow /\ told[k] = NoRow
      BY <2>3 DEF ServerInv, RowIsWritten
    <3>2. row'[k] = row[k]
      <4>1. CASE k # s
        BY <1>3, <4>1
      <4>2. CASE k = s /\ pc[r] \in {"edit", "delete", "toggle"}
        <5>1. Written(s) \/ req[r].op = "read"
          BY <1>6, <4>2 DEF Working, Steps
        <5>2. req[r].op # "read"
          BY <1>0, <4>2 DEF StepsOfOp
        <5>. QED
          BY <2>3, <4>2, <5>1, <5>2
      <4>. QED
        BY <1>3, <2>3, <4>1, <4>2
    <3>. QED
      BY <2>3, <3>1, <3>2
  <2>. QED
    BY <2>1, <2>2, <2>3
<1>12. GotIsRow'
  <2>. SUFFICES ASSUME NEW q \in Req, pc'[q] \in {"tell", "answer"}, req'[q].op # "read"
                PROVE  Contains(log', req'[q].key) /\ IsRow(got'[q])
    BY DEF GotIsRow, IsRow, Written
  <2>0. req'[q].key \in Key
    BY DEF MessagesInv, MessagesTypeOK
  <2>1. CASE q # r
    <3>1. Written(req[q].key) /\ IsRow(got[q]) /\ req[q].key \in Key /\ got'[q] = got[q]
      BY <1>1, <2>0, <2>1 DEF ServerInv, GotIsRow
    <3>2. \A k \in Key : k = req'[q].key => Written(k)'
      BY <1>1, <1>3, <2>1, <3>1
    <3>. QED
      BY <2>0, <3>1, <3>2 DEF Written
  <2>2. CASE q = r
    <3>1. got'[r] = row'[req[r].key] /\ req[r].op # "read" /\ req'[r].key = req[r].key
      BY <1>1, <2>2, HandlerHolds
    <3>2. \A k \in Key : k = req[r].key => Written(k)'
      <4>1. CASE pc[r] \in Working \ {"create"}
        BY <1>3, <1>4, <1>6, <3>1, <4>1
      <4>2. CASE pc[r] \in {"create", "start"}
        <5>1. CASE SendCreate(r)
          <6>1. Written(req[r].key) \/ log' = Append(log, req[r].key)
            BY <5>1 DEF SendCreate
          <6>. QED
            BY <1>0, <1>3, <2>0, <2>2, <3>1, <6>1, AppendWrites DEF MessagesTypeOK
        <5>2. CASE SendStart(r)
          BY <1>0, <1>3, <2>2, <5>2 DEF SendStart, Goto, Begin, MessagesTypeOK
        <5>3. CASE ~SendCreate(r) /\ ~SendStart(r)
          BY <1>0, <2>2, <3>1, <4>2, <5>3
          DEF Handle, Fail, ChangeStart, ReactStart, FindLatest, Goto, Begin, MessagesTypeOK,
              EditWrite, DeleteWrite, FindReaction, Toggle, Reread, MessageExists, SetLastRead, ClearLastRead
        <5>. QED
          BY <5>1, <5>2, <5>3
      <4>. QED
        BY <1>0, <1>1, <4>1, <4>2 DEF Working, MessagesTypeOK
    <3>3. IsRow(row'[req[r].key])
      BY <1>4, <1>11, <3>1, <3>2 DEF RowIsWritten, IsRow
    <3>. QED
      BY <1>4, <2>2, <3>1, <3>2, <3>3 DEF Written
  <2>. QED
    BY <2>1, <2>2
<1>13. UntoldHasSender'
  <2>. SUFFICES ASSUME NEW k \in Key \ shaken', Written(k)', told[k] = NoRow
                PROVE  \E q \in Req : pc'[q] = "tell" /\ req'[q].op = "send" /\ req'[q].key = k
    BY <1>2 DEF UntoldHasSender
  <2>1. CASE Written(k)
    <3>1. PICK q \in Req : pc[q] = "tell" /\ req[q].op = "send" /\ req[q].key = k
      BY <1>2, <2>1 DEF ServerInv, UntoldHasSender
    <3>2. q # r
      BY <1>4, <1>7, <1>8, <3>1
    <3>. QED
      BY <1>1, <3>1, <3>2
  <2>2. CASE ~Written(k)
    <3>1. k = s /\ pc[r] = "create" /\ pc'[r] = "tell" /\ req[r].op = "send"
      BY <1>0, <1>9, <2>2 DEF StepsOfOp
    <3>. QED
      BY <1>1, <1>4, <3>1
  <2>. QED
    BY <2>1, <2>2
<1>14. OnlySendsTold'
  <2>. SUFFICES ASSUME NEW k \in Key \ shaken', IsSending(k)' PROVE told[k] \in {NoRow, row'[k]}
    BY <1>2 DEF OnlySendsTold
  <2>1. k \notin shaken
    BY <1>2
  <2>2. CASE k # s
    BY <1>3, <1>5, <2>1, <2>2 DEF ServerInv, OnlySendsTold
  <2>3. CASE k = s /\ ~Written(k)
    BY <2>3 DEF ServerInv, RowIsWritten
  <2>4. CASE k = s /\ Written(k)
    <3>1. PICK q \in Req : pc'[q] \in Working /\ req'[q].op = "send" /\ req'[q].key = k
      BY DEF IsSending
    <3>2. pc[q] \in Working /\ req[q].op = "send" /\ req[q].key = k
      BY <1>0, <1>1, <2>4, <3>1, SenderBegins
    <3>3. pc[r] \in {"edit", "delete", "toggle"} => FALSE
      <4>. SUFFICES ASSUME pc[r] \in {"edit", "delete", "toggle"} PROVE FALSE
        OBVIOUS
      <4>1. req[r].op \notin {"send", "read"} /\ pc[r] \in Working
        BY <1>0 DEF StepsOfOp, Working, Steps
      <4>2. q # r /\ Subject(q) = k /\ Subject(r) = k
        BY <1>4, <2>4, <3>2, <4>1 DEF Subject
      <4>. QED
        BY <2>1, <3>2, <4>1, <4>2 DEF MessagesInv, Alone
    <3>4. row' = row
      BY <1>3, <2>4, <3>3
    <3>. QED
      BY <2>1, <3>2, <3>4 DEF ServerInv, OnlySendsTold, IsSending
  <2>. QED
    BY <2>2, <2>3, <2>4
<1>. QED
  BY <1>10, <1>11, <1>12, <1>13, <1>14 DEF ServerInv

\* What a handler tells the room is the row, unless others overlapped.
LEMMA TellIs ==
  ASSUME MessagesInv, ServerInv, NEW r \in Req, Tell(r)
  PROVE  LET s == Subject(r) IN
         /\ UNCHANGED <<log, row, read, req, got, shaken>> /\ s \in Entry
         /\ pc[r] = "tell" /\ pc'[r] = "answer"
         /\ told'[s] = News(r) /\ \A x \in Entry \ {s} : told'[x] = told[x]
         /\ s \in Key => IsRow(told'[s]) /\ Written(s) /\ req[r].op # "read" /\ req[r].key = s
         /\ s \notin shaken => told'[s] = Value(s)
<1>0. MessagesTypeOK /\ pc[r] # "idle"
  BY HandlerKeeps DEF MessagesInv
<1>1. /\ UNCHANGED <<log, row, read, req, got, shaken>> /\ pc[r] = "tell" /\ pc'[r] = "answer"
      /\ told' = [told EXCEPT ![Subject(r)] = News(r)]
  BY <1>0 DEF Tell, Goto, MessagesTypeOK
<1>2. Subject(r) \in Entry /\ (Subject(r) \in User <=> req[r].op = "read")
  BY <1>0, SubjectType DEF Entry
<1>3. /\ told'[Subject(r)] = News(r)
      /\ \A x \in Entry \ {Subject(r)} : told'[x] = told[x]
  BY <1>0, <1>1, <1>2 DEF MessagesTypeOK, Entry
<1>4. Subject(r) \in Key => req[r].op # "read" /\ req[r].key = Subject(r)
  BY <1>2, MessagesAssumption DEF Subject
<1>5. Subject(r) \in Key => IsRow(News(r)) /\ Written(Subject(r))
  BY <1>1, <1>4 DEF News, ServerInv, GotIsRow
<1>6. Subject(r) \notin shaken => News(r) = Value(Subject(r))
  BY <1>1 DEF MessagesInv, NewsIsTrue
<1>. QED
  BY <1>1, <1>2, <1>3, <1>4, <1>5, <1>6

\* The senders of a message are alone with it.
LEMMA SendersAlone ==
  ASSUME MessagesInv, NEW k \in Key \ shaken, NEW r \in Req, pc[r] \in Working, Subject(r) = k,
         NEW q \in Req, pc[q] \in Working, req[q].op = "send", req[q].key = k
  PROVE  req[r].op = "send"
BY DEF MessagesInv, Alone, Subject

LEMMA TellServer ==
  ASSUME MessagesInv, ServerInv, NEW r \in Req, Tell(r)
  PROVE  ServerInv'
<1> DEFINE s == Subject(r)
<1>0. MessagesTypeOK
  BY DEF MessagesInv
<1>1. /\ UNCHANGED <<log, row, read, req, got, shaken>> /\ s \in Entry
      /\ pc[r] = "tell" /\ pc'[r] = "answer"
      /\ \A x \in Entry \ {s} : told'[x] = told[x]
      /\ s \in Key => IsRow(told'[s]) /\ Written(s) /\ req[r].op # "read" /\ req[r].key = s
      /\ s \notin shaken => told'[s] = Value(s)
  BY TellIs
<1>2. \A q \in Req \ {r} : pc'[q] = pc[q]
  BY <1>0, HandlerKeeps
<1>3. \A k \in Key \ {s} : IsSending(k)' <=> IsSending(k)
  BY <1>0, StepLeavesOthers
<1>4. \A k \in Key : k \in Entry /\ (Written(k)' <=> Written(k)) /\ Value(k) = row[k]
  BY <1>1, MessagesAssumption DEF Entry, Written, Value
<1>5. WritesText' /\ GotIsRow'
  BY <1>1, <1>2 DEF ServerInv, WritesText, GotIsRow, IsRow, Written
<1>6. RowIsWritten'
  BY <1>1, <1>4 DEF ServerInv, RowIsWritten, IsRow
<1>7. UntoldHasSender'
  <2>. SUFFICES ASSUME NEW k \in Key \ shaken, Written(k), told'[k] = NoRow
                PROVE  \E q \in Req : pc'[q] = "tell" /\ req[q].op = "send" /\ req[q].key = k
    BY <1>1, <1>4 DEF UntoldHasSender
  <2>1. k # s
    BY <1>1, IsRowIsNotNoRow
  <2>2. PICK q \in Req : pc[q] = "tell" /\ req[q].op = "send" /\ req[q].key = k
    BY <1>1, <1>4, <2>1 DEF ServerInv, UntoldHasSender
  <2>3. q # r
    BY <2>1, <2>2 DEF Subject
  <2>. QED
    BY <1>2, <2>2, <2>3
<1>8. OnlySendsTold'
  <2>. SUFFICES ASSUME NEW k \in Key \ shaken, IsSending(k)' PROVE told'[k] \in {NoRow, row[k]}
    BY <1>1 DEF OnlySendsTold
  <2>1. CASE k = s
    BY <1>1, <1>4, <2>1
  <2>2. CASE k # s
    BY <1>1, <1>3, <1>4, <2>2 DEF ServerInv, OnlySendsTold
  <2>. QED
    BY <2>1, <2>2
<1>. QED
  BY <1>5, <1>6, <1>7, <1>8 DEF ServerInv

LEMMA EndServer ==
  ASSUME MessagesInv, ServerInv, NEW r \in Req,
         Answer(r) \/ \E u \in User : \E q \in AnyRequest(u) : Ask(r, q)
  PROVE  ServerInv'
<1>0. MessagesTypeOK
  BY DEF MessagesInv
<1>1. /\ UNCHANGED <<log, row, read, told, shaken>>
      /\ \A x : (IsTelling(x)' <=> IsTelling(x)) /\ (IsSending(x)' <=> IsSending(x))
  BY <1>0, EndsLeave
<1>2. /\ pc[r] \in {"idle", "answer", "refused"} /\ pc'[r] \in {"idle", "start"}
      /\ \A q \in Req \ {r} : pc'[q] = pc[q] /\ req'[q] = req[q] /\ got'[q] = got[q]
  BY <1>0, AnswerFrees, AskStarts
<1>3. pc'[r] # "idle" /\ req'[r].op \in {"send", "edit"} => req'[r].text \in Text
  <2>1. CASE Answer(r)
    BY <1>0, <2>1, AnswerFrees
  <2>2. ASSUME NEW u \in User, NEW q \in AnyRequest(u), Ask(r, q)
        PROVE  req'[r].op \in {"send", "edit"} => req'[r].text \in Text
    <3>1. req'[r] = q
      BY <1>0, <2>2, AskStarts
    <3>2. q.op \in {"send", "edit"} => q.text \in Text
      BY DEF AnyRequest, Request
    <3>. QED
      BY <3>1, <3>2
  <2>. QED
    BY <2>1, <2>2
<1>4. WritesText'
  BY <1>2, <1>3 DEF ServerInv, WritesText
<1>5. RowIsWritten' /\ OnlySendsTold'
  BY <1>1 DEF ServerInv, RowIsWritten, OnlySendsTold, IsRow, Written
<1>6. GotIsRow'
  BY <1>1, <1>2 DEF ServerInv, GotIsRow, IsRow, Written
<1>7. UntoldHasSender'
  BY <1>1, <1>2 DEF ServerInv, UntoldHasSender, Written
<1>. QED
  BY <1>4, <1>5, <1>6, <1>7 DEF ServerInv

LEMMA NextServer == MessagesInv /\ MessagesInv' /\ ServerInv /\ [MessagesNext]_messageVars => ServerInv'
<1>. SUFFICES ASSUME MessagesInv, MessagesInv', ServerInv, [MessagesNext]_messageVars PROVE ServerInv'
  OBVIOUS
<1>1. CASE UNCHANGED messageVars
  BY <1>1 DEF messageVars, ServerInv, WritesText, RowIsWritten, GotIsRow, UntoldHasSender,
     OnlySendsTold, IsSending, Written, IsRow
<1>. QED
  BY <1>1, HandleServer, TellServer, EndServer DEF MessagesNext

LEMMA ServerInvariant == MessagesSpec => []ServerInv
BY MessagesInvariant, ServerInitially, NextServer, PTL DEF MessagesSpec

(***************************************************************************)
(* The browsers.  Of a queue of events only three things matter for one    *)
(* subject: which events of it there are, and which of them is the last.   *)
(***************************************************************************)
EventsIn(q, s) == {q[i] : i \in {i \in 1..Len(q) : q[i].of = s}}

EndsIn(q, s) ==
  {q[i] : i \in {i \in 1..Len(q) : q[i].of = s /\ \A j \in 1..Len(q) : j > i => q[j].of # s}}

LEMMA EndsAreEvents ==
  ASSUME NEW q, NEW s
  PROVE  /\ EndsIn(q, s) \subseteq EventsIn(q, s)
         /\ \A e \in EventsIn(q, s) : e.of = s
BY DEF EndsIn, EventsIn

LEMMA NoEvents == \A s : EventsIn(<<>>, s) = {} /\ EndsIn(<<>>, s) = {}
BY DEF EventsIn, EndsIn

LEMMA AppendEvents ==
  ASSUME NEW E, NEW q \in Seq(E), NEW e \in E, NEW s
  PROVE  /\ e.of # s => EventsIn(Append(q, e), s) = EventsIn(q, s)
         /\ e.of # s => EndsIn(Append(q, e), s) = EndsIn(q, s)
         /\ e.of = s => /\ EventsIn(Append(q, e), s) = EventsIn(q, s) \cup {e}
                        /\ EndsIn(Append(q, e), s) = {e}
<1> DEFINE p == Append(q, e)
           n == Len(q)
<1>1. /\ n \in Nat /\ Len(p) = n + 1 /\ p[n + 1] = e /\ \A i \in 1..n : p[i] = q[i]
      /\ 1..(n + 1) = (1..n) \cup {n + 1}
  OBVIOUS
<1>. HIDE DEF p, n
<1>2. EventsIn(p, s) = {p[i] : i \in {i \in 1..(n + 1) : p[i].of = s}}
      /\ EventsIn(q, s) = {q[i] : i \in {i \in 1..n : q[i].of = s}}
  BY <1>1 DEF EventsIn, n
<1>3. EndsIn(p, s) = {p[i] : i \in {i \in 1..(n + 1) :
                        p[i].of = s /\ \A j \in 1..(n + 1) : j > i => p[j].of # s}}
      /\ EndsIn(q, s) = {q[i] : i \in {i \in 1..n :
                        q[i].of = s /\ \A j \in 1..n : j > i => q[j].of # s}}
  BY <1>1 DEF EndsIn, n
<1>4. ASSUME e.of # s PROVE EventsIn(p, s) = EventsIn(q, s) /\ EndsIn(p, s) = EndsIn(q, s)
  <2>1. {i \in 1..(n + 1) : p[i].of = s} = {i \in 1..n : q[i].of = s}
    BY <1>1, <1>4
  <2>2. {i \in 1..(n + 1) : p[i].of = s /\ \A j \in 1..(n + 1) : j > i => p[j].of # s}
         = {i \in 1..n : q[i].of = s /\ \A j \in 1..n : j > i => q[j].of # s}
    BY <1>1, <1>4
  <2>. QED
    BY <1>1, <1>2, <1>3, <2>1, <2>2
<1>5. ASSUME e.of = s PROVE EventsIn(p, s) = EventsIn(q, s) \cup {e} /\ EndsIn(p, s) = {e}
  <2>1. {i \in 1..(n + 1) : p[i].of = s} = {i \in 1..n : q[i].of = s} \cup {n + 1}
    BY <1>1, <1>5
  <2>2. {i \in 1..(n + 1) : p[i].of = s /\ \A j \in 1..(n + 1) : j > i => p[j].of # s} = {n + 1}
    BY <1>1, <1>5
  <2>. QED
    BY <1>1, <1>2, <1>3, <2>1, <2>2
<1>. QED
  BY <1>4, <1>5 DEF p

\* The event that comes is one of its subject, and the last one.
LEMMA ComesIn ==
  ASSUME NEW E, NEW q \in Seq(E), NEW e \in E, NEW s, e.of = s
  PROVE  EventsIn(Append(q, e), s) = EventsIn(q, s) \cup {e}
BY AppendEvents

LEMMA ComesLast ==
  ASSUME NEW E, NEW q \in Seq(E), NEW e \in E, NEW s, e.of = s
  PROVE  EndsIn(Append(q, e), s) = {e}
BY AppendEvents

LEMMA TailEvents ==
  ASSUME NEW E, NEW q \in Seq(E), q # <<>>, NEW s
  PROVE  /\ Head(q).of # s => EventsIn(Tail(q), s) = EventsIn(q, s)
         /\ Head(q).of # s => EndsIn(Tail(q), s) = EndsIn(q, s)
         /\ Head(q).of = s => EventsIn(q, s) = EventsIn(Tail(q), s) \cup {Head(q)}
         /\ EndsIn(Tail(q), s) \subseteq EndsIn(q, s)
         /\ Head(q).of = s /\ EventsIn(Tail(q), s) = {} => Head(q) \in EndsIn(q, s)
<1> DEFINE p == Tail(q)
           n == Len(q)
           h == Head(q)
<1>1. /\ n \in Nat /\ n > 0 /\ Len(p) = n - 1 /\ q[1] = h
      /\ \A i \in 1..(n - 1) : p[i] = q[i + 1]
      /\ \A i \in 1..n : i = 1 \/ (i - 1 \in 1..(n - 1) /\ p[i - 1] = q[i])
  OBVIOUS
<1>. HIDE DEF p, n, h
<1>2. /\ EventsIn(p, s) = {p[i] : i \in {i \in 1..(n - 1) : p[i].of = s}}
      /\ EventsIn(q, s) = {q[i] : i \in {i \in 1..n : q[i].of = s}}
  BY <1>1 DEF EventsIn, n
<1>3. EndsIn(p, s) = {p[i] : i \in {i \in 1..(n - 1) :
                        p[i].of = s /\ \A j \in 1..(n - 1) : j > i => p[j].of # s}}
      /\ EndsIn(q, s) = {q[i] : i \in {i \in 1..n :
                        q[i].of = s /\ \A j \in 1..n : j > i => q[j].of # s}}
  BY <1>1 DEF EndsIn, n
<1>4. EventsIn(p, s) \subseteq EventsIn(q, s)
  BY <1>1, <1>2
<1>5. EndsIn(p, s) \subseteq EndsIn(q, s)
  <2>1. ASSUME NEW i \in 1..(n - 1), p[i].of = s, \A j \in 1..(n - 1) : j > i => p[j].of # s
        PROVE  p[i] \in EndsIn(q, s)
    <3>1. i + 1 \in 1..n /\ q[i + 1] = p[i]
      BY <1>1
    <3>2. ASSUME NEW j \in 1..n, j > i + 1 PROVE q[j].of # s
      <4>1. j - 1 \in 1..(n - 1) /\ p[j - 1] = q[j] /\ j - 1 > i
        BY <1>1, <3>2
      <4>. QED
        BY <2>1, <4>1
    <3>. QED
      BY <1>3, <2>1, <3>1, <3>2
  <2>. QED
    BY <1>3, <2>1
<1>6. ASSUME NEW e \in EventsIn(q, s) PROVE e \in EventsIn(p, s) \/ (e = h /\ h.of = s)
  <2>1. PICK i \in 1..n : q[i].of = s /\ e = q[i]
    BY <1>2
  <2>. QED
    BY <1>1, <1>2, <2>1
<1>7. ASSUME h.of = s PROVE h \in EventsIn(q, s)
  BY <1>1, <1>2, <1>7
<1>8. ASSUME NEW e \in EndsIn(q, s), h.of # s PROVE e \in EndsIn(p, s)
  <2>1. PICK i \in 1..n : q[i].of = s /\ e = q[i] /\ \A j \in 1..n : j > i => q[j].of # s
    BY <1>3
  <2>2. i - 1 \in 1..(n - 1) /\ p[i - 1] = q[i]
    BY <1>1, <1>8, <2>1
  <2>3. ASSUME NEW j \in 1..(n - 1), j > i - 1 PROVE p[j].of # s
    <3>1. j + 1 \in 1..n /\ q[j + 1] = p[j] /\ j + 1 > i
      BY <1>1, <2>3
    <3>. QED
      BY <2>1, <3>1
  <2>. QED
    BY <1>3, <2>1, <2>2, <2>3
<1>9. ASSUME h.of = s, EventsIn(p, s) = {} PROVE h \in EndsIn(q, s)
  <2>1. ASSUME NEW j \in 1..n, j > 1 PROVE q[j].of # s
    <3>1. j - 1 \in 1..(n - 1) /\ p[j - 1] = q[j]
      BY <1>1, <2>1
    <3>2. p[j - 1] \in EventsIn(p, s) \/ p[j - 1].of # s
      BY <1>2, <3>1
    <3>. QED
      BY <1>9, <3>1, <3>2
  <2>. QED
    BY <1>1, <1>3, <1>9, <2>1
<1>. QED
  BY <1>4, <1>5, <1>6, <1>7, <1>8, <1>9 DEF p, h

\* What b's page says of s, or is going to say when its load is done.
View(b, s) == IF page[b] = "open" THEN shown[b][s] ELSE copy[b][s]

\* b's page could follow every change of s since it read it.
Follows(b, s) ==
  /\ s \notin shaken
  /\ \/ page[b] = "open" /\ s \notin missed[b]
     \/ page[b] # "open" /\ s \notin late[b] /\ Part(s) \in loaded[b]

\* The events of s on their way to b, and the last one of them.
Heard(b, s)     == EventsIn(inbox[b], s)
LastHeard(b, s) == EndsIn(inbox[b], s)

Content   == RowType \cup Key \cup {None}
EventType == [op : Op, of : Entry, value : Content]

PagesTypeOK ==
  /\ page \in [User -> {"away", "loading", "open"}]
  /\ shown \in [User -> [Entry -> Content]] /\ copy \in [User -> [Entry -> Content]]
  /\ loaded \in [User -> SUBSET {"chat", "list"}]
  /\ missed \in [User -> SUBSET Entry] /\ late \in [User -> SUBSET Entry]
  /\ room \in SUBSET User /\ inbox \in [User -> Seq(EventType)]

\* Nothing is on its way to a browser that is not connected.
DeafHearNothing == \A b \in User \ room : inbox[b] = <<>>

OnlyLoadingReads == \A b \in User : page[b] # "loading" => loaded[b] = {}

\* A response that is awaited brings a message.
WaitingWrites == \A r \in waiting : r \in Req /\ pc[r] # "idle" /\ req[r].op # "read"

(***************************************************************************)
(* One page and one subject.  Events are of what there is, and the last of *)
(* them says what was last told.                                           *)
(***************************************************************************)
EventsAreReal(b, s) ==
  \A e \in Heard(b, s) :
    IF s \in User THEN e.op = "read" ELSE e.op # "read" /\ IsRow(e.value) /\ Written(s)

LastIsTold(b, s) == \A e \in LastHeard(b, s) : e.value = told[s]

ShownIsWritten(b, k) == Written(k) \/ (shown[b][k] = NoRow /\ copy[b][k] = NoRow)

\* The send of a message comes before what is done to it: as long as it is the last
\* event, or at work, there is no other.
SendsComeFirst(b, k) ==
  k \notin shaken => \A d \in LastHeard(b, k) : d.op = "send" =>
    \A e \in Heard(b, k) : e.op = "send" /\ e.value = told[k]

SendingIsHeard(b, k) ==
  k \notin shaken /\ IsSending(k) =>
    /\ \A e \in Heard(b, k) : e.op = "send" /\ e.value = row[k]
    /\ Follows(b, k) => View(b, k) \in {NoRow, row[k]}

\* A message that the page does not have is gone, or its send is yet to come.
AbsentIsGone(b, k) ==
  Follows(b, k) /\ View(b, k) = NoRow /\ told[k] # NoRow =>
    row[k].gone \/ \E e \in Heard(b, k) : e.op = "send"

\* A page that has the message before its send comes got it from a response or a load.
ShownBeforeSend(b, k) ==
  Follows(b, k) /\ (\E e \in LastHeard(b, k) : e.op = "send") =>
    View(b, k) \in {NoRow, told[k], row[k]}

Current(b, s) ==
  Follows(b, s) /\ ~IsTelling(s) /\ Heard(b, s) = {} =>
    \/ View(b, s) = Value(s)
    \/ IF s \in User THEN read[s] = None ELSE row[s].gone /\ View(b, s) = NoRow

Fine(b, s) ==
  /\ EventsAreReal(b, s) /\ LastIsTold(b, s) /\ Current(b, s)
  /\ s \in Key =>
       /\ ShownIsWritten(b, s) /\ SendsComeFirst(b, s) /\ SendingIsHeard(b, s)
       /\ AbsentIsGone(b, s) /\ ShownBeforeSend(b, s)

PagesInv ==
  /\ PagesTypeOK /\ DeafHearNothing /\ OnlyLoadingReads /\ WaitingWrites
  /\ \A b \in User, s \in Entry : Fine(b, s)

(***************************************************************************)
(* What a step leaves alone: on the server, and on a page.                 *)
(***************************************************************************)
ServerSame(s) ==
  /\ shaken \subseteq shaken' /\ told'[s] = told[s] /\ Value(s)' = Value(s)
  /\ s \in Key => row'[s] = row[s] /\ (Written(s)' <=> Written(s))
  /\ (IsTelling(s)' <=> IsTelling(s)) /\ (IsSending(s)' <=> IsSending(s))

PageSame(b, s) ==
  /\ Heard(b, s)' = Heard(b, s) /\ LastHeard(b, s)' = LastHeard(b, s)
  /\ Follows(b, s)' => Follows(b, s) /\ View(b, s)' = View(b, s)
  /\ s \in Key => {shown'[b][s], copy'[b][s]} \subseteq {shown[b][s], copy[b][s], NoRow}

LEMMA EntryIs ==
  /\ User \subseteq Entry /\ Key \subseteq Entry
  /\ \A s \in Entry : s \in User <=> s \notin Key
  /\ \A s \in Key : Value(s) = row[s]
  /\ \A s \in User : Value(s) = read[s]
BY MessagesAssumption DEF Entry, Value

LEMMA SameIsFine ==
  ASSUME NEW b \in User, NEW s \in Entry, Fine(b, s), ServerSame(s), PageSame(b, s)
  PROVE  Fine(b, s)'
<1>1. /\ Heard(b, s)' = Heard(b, s) /\ LastHeard(b, s)' = LastHeard(b, s)
      /\ Follows(b, s)' => Follows(b, s) /\ View(b, s)' = View(b, s)
      /\ s \in shaken => s \in shaken'
      /\ told'[s] = told[s]
      /\ (IsTelling(s)' <=> IsTelling(s)) /\ (IsSending(s)' <=> IsSending(s))
  BY DEF ServerSame, PageSame
<1>2. s \in Key => row'[s] = row[s] /\ (Written(s)' <=> Written(s))
  BY DEF ServerSame
<1>3. s \in User => read'[s] = read[s]
  BY EntryIs DEF ServerSame, Value
<1>4. s \in User \/ s \in Key
  BY DEF Entry
<1>5. EventsAreReal(b, s)'
  <2>1. CASE s \in User
    BY <1>1, <2>1 DEF Fine, EventsAreReal
  <2>2. CASE s \notin User
    BY <1>1, <1>2, <1>4, <2>2 DEF Fine, EventsAreReal, IsRow
  <2>. QED
    BY <2>1, <2>2
<1>6. LastIsTold(b, s)'
  BY <1>1 DEF Fine, LastIsTold
<1>7. Current(b, s)'
  BY <1>1, <1>2, <1>3, <1>4 DEF Fine, Current, Value
<1>8. ASSUME s \in Key PROVE ShownIsWritten(b, s)'
  BY <1>2, <1>8 DEF Fine, ShownIsWritten, PageSame
<1>9. ASSUME s \in Key PROVE SendsComeFirst(b, s)'
  BY <1>1, <1>9 DEF Fine, SendsComeFirst
<1>10. ASSUME s \in Key PROVE SendingIsHeard(b, s)'
  BY <1>1, <1>2, <1>10 DEF Fine, SendingIsHeard
<1>11. ASSUME s \in Key PROVE AbsentIsGone(b, s)' /\ ShownBeforeSend(b, s)'
  BY <1>1, <1>2, <1>11 DEF Fine, AbsentIsGone, ShownBeforeSend
<1>. QED
  BY <1>5, <1>6, <1>7, <1>8, <1>9, <1>10, <1>11 DEF Fine

\* A page that is behind, or away, has only events to be right about.
BehindSame(b, s) ==
  /\ Heard(b, s)' \subseteq Heard(b, s) /\ LastHeard(b, s)' \subseteq LastHeard(b, s)
  /\ ~Follows(b, s)'
  /\ s \in Key => {shown'[b][s], copy'[b][s]} \subseteq {shown[b][s], copy[b][s], NoRow}

LEMMA BehindIsFine ==
  ASSUME NEW b \in User, NEW s \in Entry, Fine(b, s), ServerSame(s), BehindSame(b, s)
  PROVE  Fine(b, s)'
<1>1. /\ \A e \in Heard(b, s)' : e \in Heard(b, s)
      /\ \A e \in LastHeard(b, s)' : e \in LastHeard(b, s)
      /\ ~Follows(b, s)'
      /\ s \in shaken => s \in shaken'
      /\ told'[s] = told[s] /\ (IsSending(s)' <=> IsSending(s))
  BY DEF ServerSame, BehindSame
<1>2. s \in Key => row'[s] = row[s] /\ (Written(s)' <=> Written(s))
  BY DEF ServerSame
<1>4. s \in User \/ s \in Key
  BY DEF Entry
<1>5. EventsAreReal(b, s)'
  <2>1. CASE s \in User
    BY <1>1, <2>1 DEF Fine, EventsAreReal
  <2>2. CASE s \notin User
    BY <1>1, <1>2, <1>4, <2>2 DEF Fine, EventsAreReal, IsRow
  <2>. QED
    BY <2>1, <2>2
<1>6. LastIsTold(b, s)' /\ Current(b, s)'
  BY <1>1 DEF Fine, LastIsTold, Current
<1>8. ASSUME s \in Key PROVE ShownIsWritten(b, s)'
  BY <1>2, <1>8 DEF Fine, ShownIsWritten, BehindSame
<1>9. ASSUME s \in Key PROVE SendsComeFirst(b, s)'
  BY <1>1, <1>9 DEF Fine, SendsComeFirst
<1>10. ASSUME s \in Key PROVE SendingIsHeard(b, s)' /\ AbsentIsGone(b, s)' /\ ShownBeforeSend(b, s)'
  BY <1>1, <1>2, <1>10 DEF Fine, SendingIsHeard, AbsentIsGone, ShownBeforeSend
<1>. QED
  BY <1>5, <1>6, <1>8, <1>9, <1>10 DEF Fine

LEMMA PagesInitially == ThreadsInit(<<>>, {}, {}) => PagesInv
<1>. SUFFICES ASSUME ThreadsInit(<<>>, {}, {}) PROVE PagesInv
  OBVIOUS
<1>1. /\ page = [b \in User |-> "away"] /\ shown = [b \in User |-> Blank] /\ copy = [b \in User |-> Blank]
      /\ loaded = [b \in User |-> {}] /\ room = {} /\ inbox = [b \in User |-> <<>>] /\ waiting = {}
      /\ missed = [b \in User |-> {}] /\ late = missed
  BY DEF ThreadsInit
<1>2. Blank \in [Entry -> Content]
  BY RowTypes DEF Blank, Content
<1>3. PagesTypeOK
  BY <1>1, <1>2 DEF PagesTypeOK
<1>4. DeafHearNothing /\ OnlyLoadingReads /\ WaitingWrites
  BY <1>1 DEF DeafHearNothing, OnlyLoadingReads, WaitingWrites
<1>5. ASSUME NEW b \in User, NEW s \in Entry PROVE Fine(b, s)
  <2>1. Heard(b, s) = {} /\ LastHeard(b, s) = {}
    BY <1>1, NoEvents DEF Heard, LastHeard
  <2>2. ~Follows(b, s)
    BY <1>1 DEF Follows
  <2>3. s \in Key => shown[b][s] = NoRow /\ copy[b][s] = NoRow
    BY <1>1, EntryIs DEF Blank
  <2>. QED
    BY <2>1, <2>2, <2>3 DEF Fine, EventsAreReal, LastIsTold, Current, ShownIsWritten, SendsComeFirst,
       SendingIsHeard, AbsentIsGone, ShownBeforeSend
<1>. QED
  BY <1>3, <1>4, <1>5 DEF PagesInv

\* A page that shows what the table says, or has nothing of what is gone, is fine.
LEMMA ThreadsAreSettled == PagesInv => ThreadSettles
<1>. SUFFICES ASSUME PagesInv, NEW b \in User, NEW s \in Entry, page[b] = "open", Settled(b, s),
                     s \notin shaken \cup missed[b]
              PROVE  Shows(b, s)
  BY DEF ThreadSettles
<1>1. Follows(b, s) /\ View(b, s) = shown[b][s]
  BY DEF Follows, View
<1>2. ~IsTelling(s)
  BY DEF Settled, At, IsTelling, Working, Steps
<1>3. Heard(b, s) = {}
  <2>1. \A i \in 1..Len(inbox[b]) : inbox[b][i] \in Range(inbox[b])
    BY DEF PagesInv, PagesTypeOK, Range
  <2>. QED
    BY <2>1 DEF Settled, Heard, EventsIn
<1>. QED
  BY <1>1, <1>2, <1>3 DEF PagesInv, Fine, Current, Shows

\* What has no part in it stays as it was.
LEMMA PageStays ==
  ASSUME NEW b \in User, NEW s \in Entry, UNCHANGED <<page, shown, copy, loaded, missed, late, inbox>>,
         shaken \subseteq shaken'
  PROVE  PageSame(b, s)
BY DEF PageSame, Heard, LastHeard, Follows, View

LEMMA ServerStays == ASSUME UNCHANGED messageVars PROVE \A s \in Entry : ServerSame(s)
BY DEF messageVars, ServerSame, Value, Written, IsTelling, IsSending, Subject

LEMMA EndsStay ==
  ASSUME MessagesTypeOK, NEW r \in Req, Answer(r) \/ \E q : Ask(r, q)
  PROVE  \A s \in Entry : ServerSame(s)
<1>1. /\ UNCHANGED <<log, row, read, told, shaken>>
      /\ \A x : (IsTelling(x)' <=> IsTelling(x)) /\ (IsSending(x)' <=> IsSending(x))
  BY EndsLeave
<1>. QED
  BY <1>1 DEF ServerSame, Value, Written

\* A handler's step is of its subject alone.
LEMMA HandleElsewhere ==
  ASSUME MessagesInv, ServerInv, NEW r \in Req, Handle(r) \/ Fail(r), NEW s \in Entry, s # Subject(r)
  PROVE  ServerSame(s)
<1>1. told' = told /\ shaken \subseteq shaken'
  BY HandleTells
<1>2. (IsTelling(s)' <=> IsTelling(s)) /\ (IsSending(s)' <=> IsSending(s))
  BY StepLeavesOthers DEF MessagesInv
<1>3. /\ s \in Key => row'[s] = row[s] /\ (Written(s)' <=> Written(s))
      /\ s \in User => read'[s] = read[s]
  BY HandleWrites
<1>4. Value(s)' = Value(s)
  BY <1>3, EntryIs DEF Value
<1>. QED
  BY <1>1, <1>2, <1>3, <1>4 DEF ServerSame

\* Who tells goes on telling, until it is told.
LEMMA TellingStays ==
  ASSUME MessagesInv, NEW r \in Req, Handle(r), NEW s \in Entry, IsTelling(s)
  PROVE  IsTelling(s)'
<1>0. MessagesTypeOK /\ StepsOfOp
  BY DEF MessagesInv
<1>1. /\ pc[r] \notin {"idle", "answer", "refused"}
      /\ req'[r].op = req[r].op /\ req'[r].user = req[r].user
      /\ req[r].op # "read" => req'[r].key = req[r].key
      /\ \A q \in Req \ {r} : pc'[q] = pc[q] /\ req'[q] = req[q]
  BY <1>0, HandlerKeeps
<1>2. PICK q \in Req : pc[q] \in {"reread", "tell"} /\ Subject(q) = s
  BY DEF IsTelling
<1>3. Subject(q)' = s
  BY <1>1, <1>2 DEF Subject
<1>4. pc'[q] \in {"reread", "tell"}
  <2>1. CASE q # r
    BY <1>1, <1>2, <2>1
  <2>2. CASE q = r
    <3>1. Reread(r)
      BY <1>2, <2>2, <1>0 DEF Handle, SendStart, SendCreate, ChangeStart, EditWrite, DeleteWrite, ReactStart,
         FindReaction, Toggle, Reread, FindLatest, MessageExists, SetLastRead, ClearLastRead, StepsOfOp
    <3>. QED
      BY <2>2, <3>1, <1>0 DEF Reread, Goto, MessagesTypeOK
  <2>. QED
    BY <2>1, <2>2
<1>. QED
  BY <1>3, <1>4 DEF IsTelling

\* Who begins to send found no such message.
LEMMA SendingBegins ==
  ASSUME MessagesInv, NEW r \in Req, Handle(r), NEW s \in Key, IsSending(s)', ~IsSending(s)
  PROVE  ~Written(s)
<1>0. MessagesTypeOK
  BY DEF MessagesInv
<1>1. /\ req'[r].op = req[r].op
      /\ req[r].op # "read" => req'[r].key = req[r].key
      /\ \A q \in Req \ {r} : pc'[q] = pc[q] /\ req'[q] = req[q]
  BY <1>0, HandlerKeeps
<1>2. PICK q \in Req : pc'[q] \in Working /\ req'[q].op = "send" /\ req'[q].key = s
  BY DEF IsSending
<1>3. q = r /\ req[r].op = "send" /\ req[r].key = s /\ pc[r] \notin Working
  BY <1>1, <1>2 DEF IsSending
<1>. QED
  BY <1>0, <1>2, <1>3, SenderBegins

\* A message that is about to be changed was told as it is.
LEMMA ChangedWasTold ==
  ASSUME MessagesInv, NEW r \in Req, pc[r] \in {"edit", "delete", "toggle"}, NEW s \in Key,
         s = Subject(r), s \notin shaken
  PROVE  told[s] = row[s] /\ ~IsSending(s)
<1>1. req[r].op \in {"edit", "delete", "react"} /\ pc[r] \in Working
  BY DEF MessagesInv, StepsOfOp, Working, Steps
<1>2. ASSUME NEW q \in Req, pc[q] \in Working, Subject(q) = s PROVE q = r
  BY <1>1, <1>2 DEF MessagesInv, Alone
<1>3. ~ \E q \in Req : pc[q] \in {"reread", "tell"} /\ Subject(q) = s
  BY <1>2 DEF Working, Steps
<1>4. Value(s) = row[s] /\ s \in Entry /\ s \notin User
  BY EntryIs
<1>5. ~IsSending(s)
  BY <1>1, <1>2 DEF IsSending, Subject
<1>. QED
  BY <1>3, <1>4, <1>5 DEF MessagesInv, ToldOrTelling

\* Of a message that is not there nobody has heard.
LEMMA UnwrittenIsUnheard ==
  ASSUME NEW b \in User, NEW s \in Key, Fine(b, s), ~Written(s)
  PROVE  Heard(b, s) = {} /\ LastHeard(b, s) = {} /\ View(b, s) = NoRow
<1>1. s \notin User
  BY MessagesAssumption
<1>2. Heard(b, s) = {}
  BY <1>1 DEF Fine, EventsAreReal
<1>3. LastHeard(b, s) = {}
  BY <1>2, EndsAreEvents DEF Heard, LastHeard
<1>. QED
  BY <1>2, <1>3 DEF Fine, ShownIsWritten, View

\* A handler's step, seen from a page, when it is on the subject of the handler.
LEMMA HandleFine ==
  ASSUME MessagesInv, MessagesInv', ServerInv, NEW r \in Req, Handle(r) \/ Fail(r),
         UNCHANGED <<page, shown, copy, loaded, missed, late, inbox>>,
         NEW b \in User, NEW s \in Entry, s = Subject(r), Fine(b, s)
  PROVE  Fine(b, s)'
<1>0. MessagesTypeOK
  BY DEF MessagesInv
<1>1. told' = told /\ shaken \subseteq shaken'
  BY HandleTells
<1>2. /\ Heard(b, s)' = Heard(b, s) /\ LastHeard(b, s)' = LastHeard(b, s)
      /\ Follows(b, s)' => Follows(b, s) /\ s \notin shaken'
      /\ View(b, s)' = View(b, s)
  BY <1>1 DEF Heard, LastHeard, Follows, View
<1>3. s \in Key => (Written(s) => Written(s)')
  BY HandleWrites
<1>4. Fail(r) => s \in shaken'
  BY DEF Fail
<1>5. Subject(r)' = s
  BY <1>0, HandlerKeeps DEF Subject
<1>6. EventsAreReal(b, s)' /\ LastIsTold(b, s)'
  <2>1. CASE s \in User
    BY <1>1, <1>2, <2>1 DEF Fine, EventsAreReal, LastIsTold
  <2>2. CASE s \in Key
    BY <1>1, <1>2, <1>3, <2>2 DEF Fine, EventsAreReal, LastIsTold, IsRow
  <2>. QED
    BY <2>1, <2>2 DEF Entry
<1>7. s \in Key => ShownIsWritten(b, s)' /\ SendsComeFirst(b, s)'
  BY <1>1, <1>2, <1>3 DEF Fine, ShownIsWritten, SendsComeFirst
<1>8. s \in Key /\ s \notin shaken' /\ IsSending(s)' /\ ~IsSending(s) => ~Written(s)
  BY <1>4, SendingBegins
<1>9. s \notin shaken' /\ IsTelling(s) => IsTelling(s)'
  BY <1>4, TellingStays
<1>10. pc'[r] \in {"reread", "tell"} => IsTelling(s)'
  BY <1>5 DEF IsTelling
<1> DEFINE Rest == /\ Current(b, s)'
                   /\ s \in Key => SendingIsHeard(b, s)' /\ AbsentIsGone(b, s)' /\ ShownBeforeSend(b, s)'
<1>11. CASE s \in shaken'
  <2>1. ~Follows(b, s)'
    BY <1>2, <1>11
  <2>. QED
    BY <1>6, <1>7, <1>11, <2>1 DEF Fine, Current, SendingIsHeard, AbsentIsGone, ShownBeforeSend
<1>12. ASSUME s \notin shaken', UNCHANGED <<log, row, read>> PROVE Rest
  <2>1. Value(s)' = Value(s)
    BY <1>12 DEF Value
  <2>2. Current(b, s)'
    BY <1>2, <1>9, <1>12, <2>1 DEF Fine, Current
  <2>3. ASSUME s \in Key PROVE AbsentIsGone(b, s)' /\ ShownBeforeSend(b, s)'
    BY <1>1, <1>2, <1>12, <2>3 DEF Fine, AbsentIsGone, ShownBeforeSend
  <2>4. ASSUME s \in Key PROVE SendingIsHeard(b, s)'
    <3>1. CASE IsSending(s)
      BY <1>1, <1>2, <1>12, <2>4, <3>1 DEF Fine, SendingIsHeard
    <3>2. CASE IsSending(s)' /\ ~IsSending(s)
      <4>1. Heard(b, s) = {} /\ View(b, s) = NoRow
        BY <1>8, <1>12, <2>4, <3>2, UnwrittenIsUnheard
      <4>. QED
        BY <1>2, <4>1 DEF SendingIsHeard
    <3>. QED
      BY <3>1, <3>2 DEF SendingIsHeard
  <2>. QED
    BY <2>2, <2>3, <2>4
<1>13. ASSUME s \notin shaken', s \in Key, ~Written(s), pc'[r] = "tell" PROVE Rest
  <2>1. Heard(b, s) = {} /\ LastHeard(b, s) = {} /\ View(b, s) = NoRow
    BY <1>13, UnwrittenIsUnheard
  <2>2. told[s] = NoRow
    BY <1>13 DEF ServerInv, RowIsWritten
  <2>. QED
    BY <1>1, <1>2, <1>10, <1>13, <2>1, <2>2 DEF Current, SendingIsHeard, AbsentIsGone, ShownBeforeSend
<1>14. ASSUME s \notin shaken', s \in Key, pc[r] \in {"edit", "delete", "toggle"},
              pc'[r] \in {"reread", "tell"}, row[s].gone => row'[s].gone
       PROVE  Rest
  <2>1. told[s] = row[s] /\ ~IsSending(s)
    BY <1>1, <1>14, ChangedWasTold
  <2>2. req[r].op # "read" /\ req[r].key = s
    BY <1>14, MessagesAssumption, SubjectType DEF MessagesInv, StepsOfOp, Subject
  <2>3. Written(s)
    BY <1>14, <2>2 DEF MessagesInv, WorkedIsWritten, Working, Steps
  <2>4. ~IsSending(s)'
    BY <1>8, <1>14, <2>1, <2>3
  <2>5. AbsentIsGone(b, s)'
    BY <1>1, <1>2, <1>14 DEF Fine, AbsentIsGone
  <2>6. ShownBeforeSend(b, s)'
    BY <1>1, <1>2, <1>14, <2>1 DEF Fine, ShownBeforeSend
  <2>. QED
    BY <1>10, <1>14, <2>4, <2>5, <2>6 DEF Current, SendingIsHeard
<1>15. ASSUME s \in User, pc'[r] = "tell" \/ read'[s] = None PROVE Rest
  BY <1>10, <1>15, EntryIs DEF Current
<1>16. Rest \/ s \in shaken'
  <2>1. UNCHANGED <<log, row, read>>
        \/ (s \in Key /\ ~Written(s) /\ pc'[r] = "tell")
        \/ (/\ s \in Key /\ pc[r] \in {"edit", "delete", "toggle"} /\ pc'[r] \in {"reread", "tell"}
            /\ row[s].gone => row'[s].gone)
        \/ (s \in User /\ (pc'[r] = "tell" \/ read'[s] = None))
    BY HandleWrites
  <2>. QED
    BY <1>12, <1>13, <1>14, <1>15, <2>1
<1>. QED
  BY <1>6, <1>7, <1>11, <1>16 DEF Fine

LEMMA HandlePages ==
  ASSUME MessagesInv, MessagesInv', ServerInv, PagesInv, NEW r \in Req, Handle(r) \/ Fail(r),
         UNCHANGED <<page, shown, copy, loaded, missed, late, room, inbox, waiting>>
  PROVE  PagesInv'
<1>1. PagesTypeOK' /\ DeafHearNothing' /\ OnlyLoadingReads'
  BY DEF PagesInv, PagesTypeOK, DeafHearNothing, OnlyLoadingReads
<1>2. WaitingWrites'
  BY HandlerKeeps DEF PagesInv, WaitingWrites, MessagesInv
<1>3. ASSUME NEW b \in User, NEW s \in Entry PROVE Fine(b, s)'
  <2>1. CASE s = Subject(r)
    BY <2>1, HandleFine DEF PagesInv
  <2>2. CASE s # Subject(r)
    <3>1. ServerSame(s)
      BY <2>2, HandleElsewhere
    <3>2. PageSame(b, s)
      BY HandleTells, PageStays
    <3>. QED
      BY <3>1, <3>2, SameIsFine DEF PagesInv
  <2>. QED
    BY <2>1, <2>2
<1>. QED
  BY <1>1, <1>2, <1>3 DEF PagesInv

\* The room is told: what each browser gets, and what those who are not in it miss.
LEMMA TellReaches ==
  ASSUME MessagesInv, MessagesInv', ServerInv, PagesInv, NEW r \in Req, TellRoom(r)
  PROVE  /\ Event(r) \in EventType /\ PagesTypeOK'
         /\ UNCHANGED <<page, shown, copy, loaded, room>>
         /\ \A b \in User :
              /\ b \in room => inbox'[b] = Append(inbox[b], Event(r)) /\ missed'[b] = missed[b] /\ late'[b] = late[b]
              /\ b \notin room => inbox'[b] = <<>> /\ inbox[b] = <<>>
              /\ b \notin room /\ b \in Present =>
                   /\ missed'[b] = missed[b] \cup {Subject(r)}
                   /\ late'[b] = late[b] \cup Overtaken(b, {Subject(r)})
              /\ b \notin Present => missed'[b] = missed[b] /\ late'[b] = late[b]
<1>1. /\ pc[r] = "tell" /\ req[r].op \in Op /\ Subject(r) \in Entry /\ told'[Subject(r)] = News(r)
  <2>1. Tell(r)
    BY DEF TellRoom
  <2>2. pc[r] = "tell" /\ Subject(r) \in Entry /\ told'[Subject(r)] = News(r)
    BY <2>1, TellIs
  <2>. QED
    BY <2>2 DEF MessagesInv, MessagesTypeOK
<1>2. News(r) \in Content
  BY <1>1 DEF MessagesInv, MessagesTypeOK, Entry, Content
<1>3. Event(r) \in EventType
  BY <1>1, <1>2 DEF Event, EventType
<1>4. inbox' = [b \in User |-> IF b \in room THEN Append(inbox[b], Event(r)) ELSE inbox[b]]
  BY DEF TellRoom
<1>5. /\ missed' = [b \in User |-> IF b \in Present \ room THEN missed[b] \cup {Subject(r)} ELSE missed[b]]
      /\ late' = [b \in User |-> IF b \in Present \ room THEN late[b] \cup Overtaken(b, {Subject(r)}) ELSE late[b]]
  BY DEF TellRoom, Unheard
<1>6. UNCHANGED <<page, shown, copy, loaded, room>>
  BY DEF TellRoom
<1>7. inbox' \in [User -> Seq(EventType)]
  BY <1>3, <1>4 DEF PagesInv, PagesTypeOK
<1>8. missed' \in [User -> SUBSET Entry] /\ late' \in [User -> SUBSET Entry]
  BY <1>1, <1>5 DEF PagesInv, PagesTypeOK, Overtaken
<1>9. PagesTypeOK'
  BY <1>6, <1>7, <1>8 DEF PagesInv, PagesTypeOK
<1>10. \A b \in User : b \notin room => inbox[b] = <<>>
  BY DEF PagesInv, DeafHearNothing
<1>. QED
  BY <1>3, <1>4, <1>5, <1>6, <1>9, <1>10

\* A page that was not in the room when it was told is behind.
LEMMA UntoldIsFine ==
  ASSUME MessagesInv, MessagesInv', ServerInv, PagesInv, NEW r \in Req, TellRoom(r),
         NEW b \in User \ room, NEW s \in Entry, s = Subject(r)
  PROVE  Fine(b, s)'
<1>1. /\ UNCHANGED <<page, shown, copy, loaded>> /\ inbox'[b] = <<>> /\ inbox[b] = <<>>
      /\ b \in Present => missed'[b] = missed[b] \cup {s} /\ late'[b] = late[b] \cup Overtaken(b, {s})
      /\ b \notin Present => missed'[b] = missed[b] /\ late'[b] = late[b]
  BY TellReaches
<1>2. Heard(b, s)' = {} /\ LastHeard(b, s)' = {}
  BY <1>1, NoEvents DEF Heard, LastHeard
<1>3. ~Follows(b, s)'
  <2>1. CASE b \in Present
    BY <1>1, <2>1 DEF Follows, Overtaken
  <2>2. CASE b \notin Present
    BY <1>1, <2>2 DEF Follows, Present, PagesInv, OnlyLoadingReads
  <2>. QED
    BY <2>1, <2>2
<1>4. s \in Key => ShownIsWritten(b, s)'
  <2>1. Tell(r)
    BY DEF TellRoom
  <2>2. UNCHANGED log
    BY <2>1, TellIs
  <2>. QED
    BY <1>1, <2>2 DEF PagesInv, Fine, ShownIsWritten, Written
<1>. QED
  BY <1>2, <1>3, <1>4 DEF Fine, EventsAreReal, LastIsTold, Current, SendsComeFirst, SendingIsHeard,
     AbsentIsGone, ShownBeforeSend

\* A page that is in the room has the event to come.
LEMMA ToldIsFine ==
  ASSUME MessagesInv, MessagesInv', ServerInv, PagesInv, NEW r \in Req, TellRoom(r),
         NEW b \in room, NEW s \in Entry, s = Subject(r)
  PROVE  Fine(b, s)'
<1>0. b \in User /\ Fine(b, s) /\ MessagesTypeOK
  BY DEF PagesInv, PagesTypeOK, MessagesInv
<1>. DEFINE e == Event(r)
<1>1. /\ UNCHANGED <<log, row, read, req, got, shaken>>
      /\ pc[r] = "tell" /\ pc'[r] = "answer" /\ told'[s] = News(r)
      /\ s \in Key => IsRow(told'[s]) /\ Written(s) /\ req[r].op # "read" /\ req[r].key = s
      /\ s \notin shaken => told'[s] = Value(s)
  BY TellIs DEF TellRoom
<1>2. /\ UNCHANGED <<page, shown, copy, loaded>> /\ inbox'[b] = Append(inbox[b], e)
      /\ missed'[b] = missed[b] /\ late'[b] = late[b]
      /\ e \in EventType /\ inbox[b] \in Seq(EventType)
  BY <1>0, TellReaches DEF PagesInv, PagesTypeOK
<1>3. e.of = s /\ e.op = req[r].op /\ e.value = told'[s]
  BY <1>1 DEF Event
<1>4. s \in User => e.op = "read"
  BY <1>0, <1>1, <1>3, SubjectType
<1>. HIDE DEF e
<1>5. Heard(b, s)' = Heard(b, s) \cup {e} /\ LastHeard(b, s)' = {e}
  <2>1. PICK q \in Seq(EventType), d \in EventType : q = inbox[b] /\ d = e
    BY <1>2
  <2>2. d.of = s
    BY <1>3, <2>1
  <2>3. EventsIn(Append(q, d), s) = EventsIn(q, s) \cup {d}
    BY <2>2, ComesIn
  <2>4. EndsIn(Append(q, d), s) = {d}
    BY <2>2, ComesLast
  <2>. QED
    BY <1>2, <2>1, <2>3, <2>4 DEF Heard, LastHeard
<1>6. (Follows(b, s)' <=> Follows(b, s)) /\ View(b, s)' = View(b, s)
  BY <1>1, <1>2 DEF Follows, View
<1>7. EventsAreReal(b, s)'
  <2>1. CASE s \in User
    BY <1>4, <1>5, <2>1, <1>0 DEF Fine, EventsAreReal
  <2>2. CASE s \in Key
    BY <1>0, <1>1, <1>3, <1>5, <2>2, EntryIs DEF Fine, EventsAreReal, IsRow, Written
  <2>. QED
    BY <2>1, <2>2 DEF Entry
<1>8. LastIsTold(b, s)' /\ Current(b, s)'
  BY <1>3, <1>5 DEF LastIsTold, Current
<1>9. SUFFICES ASSUME s \in Key
               PROVE  /\ ShownIsWritten(b, s)' /\ SendsComeFirst(b, s)' /\ SendingIsHeard(b, s)'
                      /\ AbsentIsGone(b, s)' /\ ShownBeforeSend(b, s)'
  BY <1>7, <1>8 DEF Fine
<1>10. s \notin shaken => told'[s] = row[s]
  BY <1>1, <1>9, EntryIs
<1>11. ASSUME s \notin shaken, e.op = "send" PROVE IsSending(s)
  BY <1>1, <1>3, <1>9, <1>11 DEF IsSending, Working, Steps
<1>12. ASSUME s \notin shaken, NEW q \in Req, pc[q] \in Working, req[q].op = "send", req[q].key = s
       PROVE  e.op = "send"
  <2>1. pc[r] \in Working
    BY <1>1 DEF Working, Steps
  <2>. QED
    BY <1>3, <1>9, <1>12, <2>1, SendersAlone
<1>13. ShownIsWritten(b, s)'
  BY <1>0, <1>1, <1>2, <1>9 DEF Fine, ShownIsWritten, Written
<1>14. SendsComeFirst(b, s)'
  BY <1>0, <1>1, <1>3, <1>5, <1>9, <1>10, <1>11 DEF Fine, SendsComeFirst, SendingIsHeard
<1>15. ASSUME s \notin shaken, IsSending(s)' PROVE e.op = "send" /\ IsSending(s)
  <2>1. PICK q \in Req : pc'[q] \in Working /\ req'[q].op = "send" /\ req'[q].key = s
    BY <1>15 DEF IsSending
  <2>2. q # r /\ pc[q] \in Working
    BY <1>0, <1>1, <2>1, HandlerKeeps DEF TellRoom, Working
  <2>. QED
    BY <1>1, <1>11, <1>12, <1>15, <2>1, <2>2
<1>16. SendingIsHeard(b, s)'
  <2>. SUFFICES ASSUME s \notin shaken, IsSending(s)'
                PROVE  /\ \A d \in Heard(b, s)' : d.op = "send" /\ d.value = row[s]
                       /\ Follows(b, s)' => View(b, s)' \in {NoRow, row[s]}
    BY <1>1 DEF SendingIsHeard
  <2>. QED
    BY <1>0, <1>3, <1>5, <1>6, <1>9, <1>10, <1>15 DEF Fine, SendingIsHeard
<1>17. AbsentIsGone(b, s)'
  <2>. SUFFICES ASSUME Follows(b, s), View(b, s) = NoRow, e.op # "send"
                PROVE  row[s].gone \/ \E d \in Heard(b, s) : d.op = "send"
    BY <1>1, <1>5, <1>6 DEF AbsentIsGone
  <2>1. s \notin shaken
    BY DEF Follows
  <2>2. told[s] # NoRow
    <3>1. Written(s)
      BY <1>1, <1>9
    <3>2. ASSUME told[s] = NoRow PROVE FALSE
      <4>1. PICK q \in Req : pc[q] = "tell" /\ req[q].op = "send" /\ req[q].key = s
        BY <1>9, <2>1, <3>1, <3>2 DEF ServerInv, UntoldHasSender
      <4>. QED
        BY <1>12, <2>1, <4>1 DEF Working, Steps
    <3>. QED
      BY <3>2
  <2>. QED
    BY <1>0, <1>9, <2>2 DEF Fine, AbsentIsGone
<1>18. ShownBeforeSend(b, s)'
  <2>. SUFFICES ASSUME Follows(b, s), e.op = "send"
                PROVE  View(b, s) \in {NoRow, row[s]}
    BY <1>1, <1>5, <1>6 DEF ShownBeforeSend
  <2>. QED
    BY <1>0, <1>9, <1>11 DEF Fine, SendingIsHeard, Follows
<1>. QED
  BY <1>13, <1>14, <1>16, <1>17, <1>18

LEMMA TellPages ==
  ASSUME MessagesInv, MessagesInv', ServerInv, PagesInv, NEW r \in Req, TellRoom(r)
  PROVE  PagesInv'
<1>0. Tell(r) /\ MessagesTypeOK
  BY DEF TellRoom, MessagesInv
<1>1. /\ UNCHANGED <<log, row, read, req, got, shaken>>
      /\ \A x \in Entry \ {Subject(r)} : told'[x] = told[x]
  BY <1>0, TellIs
<1>2. PagesTypeOK' /\ UNCHANGED <<page, shown, copy, loaded, room>>
  BY TellReaches
<1>3. DeafHearNothing' /\ OnlyLoadingReads'
  BY <1>2, TellReaches DEF PagesInv, DeafHearNothing, OnlyLoadingReads
<1>4. WaitingWrites'
  <2>1. /\ pc'[r] # "idle" /\ req' = req /\ waiting' = waiting
        /\ \A q \in Req \ {r} : pc'[q] = pc[q]
    BY <1>0, <1>1, HandlerKeeps DEF TellRoom
  <2>. QED
    BY <2>1 DEF PagesInv, WaitingWrites
<1>5. ASSUME NEW b \in User, NEW s \in Entry PROVE Fine(b, s)'
  <2>1. CASE s = Subject(r)
    BY <2>1, ToldIsFine, UntoldIsFine
  <2>2. CASE s # Subject(r)
    <3>1. ServerSame(s)
      BY <1>0, <1>1, <2>2, StepLeavesOthers DEF ServerSame, Value, Written
    <3>2. Event(r) \in EventType /\ Event(r).of # s /\ inbox[b] \in Seq(EventType)
      BY <2>2, TellReaches DEF Event, PagesInv, PagesTypeOK
    <3>3. Heard(b, s)' = Heard(b, s) /\ LastHeard(b, s)' = LastHeard(b, s)
      <4>1. inbox'[b] = inbox[b] \/ inbox'[b] = Append(inbox[b], Event(r))
        BY TellReaches
      <4>2. /\ EventsIn(Append(inbox[b], Event(r)), s) = EventsIn(inbox[b], s)
            /\ EndsIn(Append(inbox[b], Event(r)), s) = EndsIn(inbox[b], s)
        BY <3>2, AppendEvents
      <4>. QED
        BY <4>1, <4>2 DEF Heard, LastHeard
    <3>4. (s \in missed[b] => s \in missed'[b]) /\ (s \in late[b] => s \in late'[b])
      BY TellReaches
    <3>5. PageSame(b, s)
      BY <1>1, <1>2, <3>3, <3>4 DEF PageSame, Follows, View
    <3>. QED
      BY <3>1, <3>5, SameIsFine DEF PagesInv
  <2>. QED
    BY <2>1, <2>2
<1>. QED
  BY <1>2, <1>3, <1>4, <1>5 DEF PagesInv

\* A response puts a message on a page as its handler had it.
LEMMA AnswerShows ==
  ASSUME MessagesInv, ServerInv, PagesInv, NEW r \in Req, Respond(r)
  PROVE  LET u == req[r].user
             k == req[r].key
         IN /\ Answer(r) /\ waiting' = waiting \ {r} /\ UNCHANGED <<page, copy, loaded, room, inbox>>
            /\ \/ UNCHANGED <<shown, missed, late>>
               \/ /\ u \in Present /\ k \in Key /\ Written(k) /\ IsRow(got[r])
                  /\ shown' = [shown EXCEPT ![u][k] = got[r]]
                  /\ missed' = [missed EXCEPT ![u] = IF got[r] # row[k] THEN @ \cup {k} ELSE @ \ {k}]
                  /\ late' = [late EXCEPT ![u] = @ \cup Overtaken(u, {k})]
<1>1. /\ Answer(r) /\ waiting' = waiting \ {r} /\ UNCHANGED <<page, copy, loaded, room, inbox>>
  BY DEF Respond, netVars
<1>2. CASE r \in waiting /\ pc[r] = "answer" /\ req[r].user \in Present
  <2>1. req[r].op # "read" /\ req[r].key \in Key /\ Written(req[r].key) /\ IsRow(got[r])
    BY <1>2 DEF PagesInv, WaitingWrites, ServerInv, GotIsRow, MessagesInv, MessagesTypeOK
  <2>. QED
    BY <1>1, <1>2, <2>1 DEF Respond, Replaced
<1>3. CASE ~(r \in waiting /\ pc[r] = "answer" /\ req[r].user \in Present)
  BY <1>1, <1>3 DEF Respond
<1>. QED
  BY <1>2, <1>3

LEMMA RespondPages ==
  ASSUME MessagesInv, ServerInv, PagesInv, NEW r \in Req, Respond(r)
  PROVE  PagesInv'
<1> DEFINE u == req[r].user
           k == req[r].key
           v == got[r]
<1>0. MessagesTypeOK /\ PagesTypeOK
  BY DEF MessagesInv, PagesInv
<1>1. /\ Answer(r) /\ waiting' = waiting \ {r} /\ UNCHANGED <<page, copy, loaded, room, inbox>>
      /\ \/ UNCHANGED <<shown, missed, late>>
         \/ /\ u \in Present /\ k \in Key /\ Written(k) /\ IsRow(v)
            /\ shown' = [shown EXCEPT ![u][k] = v]
            /\ missed' = [missed EXCEPT ![u] = IF v # row[k] THEN @ \cup {k} ELSE @ \ {k}]
            /\ late' = [late EXCEPT ![u] = @ \cup Overtaken(u, {k})]
  BY AnswerShows
<1>2. \A s \in Entry : ServerSame(s)
  BY <1>0, <1>1, EndsStay
<1>3. UNCHANGED <<log, row, read, shaken>>
  BY <1>0, <1>1, EndsLeave
<1>4. DeafHearNothing' /\ OnlyLoadingReads'
  BY <1>1 DEF PagesInv, DeafHearNothing, OnlyLoadingReads
<1>5. WaitingWrites'
  BY <1>0, <1>1, AnswerFrees DEF PagesInv, WaitingWrites
<1>. HIDE DEF u, k, v
<1>6. CASE UNCHANGED <<shown, missed, late>>
  <2>1. PagesTypeOK'
    BY <1>1, <1>6 DEF PagesInv, PagesTypeOK
  <2>2. \A b \in User, s \in Entry : PageSame(b, s)
    BY <1>1, <1>3, <1>6, PageStays
  <2>3. \A b \in User, s \in Entry : Fine(b, s)'
    BY <1>2, <2>2, SameIsFine DEF PagesInv
  <2>. QED
    BY <1>4, <1>5, <2>1, <2>3 DEF PagesInv
<1>7. CASE /\ u \in Present /\ k \in Key /\ Written(k) /\ IsRow(v)
           /\ shown' = [shown EXCEPT ![u][k] = v]
           /\ missed' = [missed EXCEPT ![u] = IF v # row[k] THEN @ \cup {k} ELSE @ \ {k}]
           /\ late' = [late EXCEPT ![u] = @ \cup Overtaken(u, {k})]
  <2>1. u \in User /\ k \in Entry /\ v \in Content /\ v # NoRow
    BY <1>7, EntryIs, IsRowIsNotNoRow DEF Present, IsRow, Content
  <2>2. shown' \in [User -> [Entry -> Content]]
    <3>1. [shown[u] EXCEPT ![k] = v] \in [Entry -> Content]
      BY <1>0, <2>1 DEF PagesTypeOK
    <3>. QED
      BY <1>0, <1>7, <2>1, <3>1 DEF PagesTypeOK
  <2>3. missed' \in [User -> SUBSET Entry] /\ late' \in [User -> SUBSET Entry]
    BY <1>0, <1>7, <2>1 DEF PagesTypeOK, Overtaken
  <2>4. PagesTypeOK'
    BY <1>0, <1>1, <2>2, <2>3 DEF PagesTypeOK
  <2>5. /\ shown'[u][k] = v
        /\ \A b \in User, s \in Entry : b # u \/ s # k => shown'[b][s] = shown[b][s]
        /\ \A b \in User, s \in Entry : b # u \/ s # k => (s \in missed'[b] <=> s \in missed[b])
        /\ v # row[k] => k \in missed'[u]
        /\ \A b \in User, s \in Entry : s \in late[b] => s \in late'[b]
        /\ Part(k) \in loaded[u] => k \in late'[u]
    BY <1>0, <1>7, <2>1 DEF PagesTypeOK, Overtaken
  <2>6. \A b \in User, s \in Entry : Heard(b, s)' = Heard(b, s) /\ LastHeard(b, s)' = LastHeard(b, s)
    BY <1>1 DEF Heard, LastHeard
  <2>7. ASSUME NEW b \in User, NEW s \in Entry, b # u \/ s # k \/ page[b] # "open" PROVE Fine(b, s)'
    <3>1. CASE b # u \/ s # k
      <4>1. PageSame(b, s)
        BY <1>1, <1>3, <2>5, <2>6, <3>1 DEF PageSame, Follows, View
      <4>. QED
        BY <1>2, <4>1, SameIsFine DEF PagesInv
    <3>2. CASE b = u /\ s = k /\ page[b] # "open"
      <4>1. ~Follows(b, s)'
        BY <1>1, <2>5, <3>2 DEF Follows
      <4>2. Fine(b, s) /\ ServerSame(s) /\ Written(s) /\ s \in Key
        BY <1>2, <1>7, <3>2 DEF PagesInv
      <4>3. Written(s)'
        BY <4>2 DEF ServerSame
      <4>4. told'[s] = told[s] /\ (IsSending(s)' <=> IsSending(s)) /\ row' = row
        BY <1>3, <4>2 DEF ServerSame
      <4>5. EventsAreReal(b, s)'
        BY <2>6, <4>2, <4>3, EntryIs DEF Fine, EventsAreReal, IsRow
      <4>6. LastIsTold(b, s)' /\ Current(b, s)' /\ AbsentIsGone(b, s)' /\ ShownBeforeSend(b, s)'
        BY <2>6, <4>1, <4>2, <4>4 DEF Fine, LastIsTold, Current, AbsentIsGone, ShownBeforeSend
      <4>7. SendsComeFirst(b, s)' /\ SendingIsHeard(b, s)' /\ ShownIsWritten(b, s)'
        BY <1>3, <2>6, <4>1, <4>2, <4>3, <4>4 DEF Fine, SendsComeFirst, SendingIsHeard, ShownIsWritten
      <4>. QED
        BY <4>5, <4>6, <4>7 DEF Fine
    <3>. QED
      BY <2>7, <3>1, <3>2
  <2>8. ASSUME NEW b \in User, NEW s \in Entry, b = u, s = k, page[b] = "open" PROVE Fine(b, s)'
    <3>1. Fine(b, s) /\ ServerSame(s) /\ Value(s) = row[s]
      BY <1>2, <1>7, <2>1, <2>8, EntryIs DEF PagesInv
    <3>2. told'[s] = told[s] /\ (IsSending(s)' <=> IsSending(s)) /\ row' = row /\ Written(s)' /\ s \in Key /\ Value(s)' = row[s]
      BY <1>3, <1>7, <2>8, <3>1, EntryIs DEF ServerSame
    <3>3. View(b, s)' = v /\ (Follows(b, s)' => s \notin shaken /\ v = row[s])
      BY <1>1, <1>3, <2>5, <2>8 DEF View, Follows
    <3>4. Heard(b, s)' = Heard(b, s) /\ LastHeard(b, s)' = LastHeard(b, s)
      BY <2>1, <2>6
    <3>5. EventsAreReal(b, s)'
      BY <1>7, <3>1, <3>2, <3>4, EntryIs DEF Fine, EventsAreReal, IsRow
    <3>6. LastIsTold(b, s)' /\ Current(b, s)' /\ AbsentIsGone(b, s)' /\ ShownBeforeSend(b, s)'
      BY <2>1, <3>1, <3>2, <3>3, <3>4 DEF Fine, LastIsTold, Current, AbsentIsGone, ShownBeforeSend
    <3>7. SendsComeFirst(b, s)' /\ ShownIsWritten(b, s)'
      BY <1>3, <1>7, <3>1, <3>2, <3>4 DEF Fine, SendsComeFirst, ShownIsWritten
    <3>8. SendingIsHeard(b, s)'
      BY <1>3, <1>7, <3>1, <3>2, <3>3, <3>4 DEF Fine, SendingIsHeard
    <3>. QED
      BY <3>5, <3>6, <3>7, <3>8 DEF Fine
  <2>9. \A b \in User, s \in Entry : Fine(b, s)'
    BY <2>7, <2>8
  <2>. QED
    BY <1>4, <1>5, <2>4, <2>9 DEF PagesInv
<1>. QED
  BY <1>1, <1>6, <1>7

\* What neither a page nor its events have a part in.
LEMMA QuietPages ==
  ASSUME MessagesInv, PagesInv, UNCHANGED messageVars \/ \E r \in Req : \E q : Ask(r, q),
         UNCHANGED <<page, shown, copy, loaded, missed, late, inbox>>,
         room \subseteq room', room' \subseteq User,
         \A r \in waiting' : r \in Req /\ pc'[r] # "idle" /\ req'[r].op # "read"
  PROVE  PagesInv'
<1>1. \A s \in Entry : ServerSame(s)
  BY ServerStays, EndsStay DEF MessagesInv
<1>2. shaken \subseteq shaken'
  BY EndsLeave DEF MessagesInv, messageVars
<1>3. \A b \in User, s \in Entry : PageSame(b, s)
  BY <1>2, PageStays
<1>4. \A b \in User, s \in Entry : Fine(b, s)'
  BY <1>1, <1>3, SameIsFine DEF PagesInv
<1>5. PagesTypeOK' /\ DeafHearNothing' /\ OnlyLoadingReads' /\ WaitingWrites'
  BY DEF PagesInv, PagesTypeOK, DeafHearNothing, OnlyLoadingReads, WaitingWrites
<1>. QED
  BY <1>4, <1>5 DEF PagesInv

\* A press asks for a change of a message, and waits for it.
LEMMA PressPages ==
  ASSUME MessagesInv, PagesInv, NEW b \in User, NEW r \in Req, NEW q, Press(b, r, q), q.op # "read"
  PROVE  PagesInv'
<1>1. Ask(r, q) /\ waiting' = waiting \cup {r}
      /\ UNCHANGED <<page, shown, copy, loaded, missed, late, inbox, room>>
  BY DEF Press, pageVars, netVars
<1>2. /\ pc[r] = "idle" /\ pc'[r] = "start" /\ req'[r] = q
      /\ \A p \in Req \ {r} : pc'[p] = pc[p] /\ req'[p] = req[p]
  BY <1>1, AskStarts DEF MessagesInv
<1>3. \A p \in waiting' : p \in Req /\ pc'[p] # "idle" /\ req'[p].op # "read"
  BY <1>1, <1>2 DEF PagesInv, WaitingWrites
<1>. QED
  BY <1>1, <1>3, QuietPages DEF PagesInv, PagesTypeOK

LEMMA WaitingStays ==
  ASSUME MessagesInv, PagesInv, UNCHANGED waiting, UNCHANGED messageVars \/ \E r \in Req : \E q : Ask(r, q)
  PROVE  /\ WaitingWrites' /\ UNCHANGED <<log, row, read, told, shaken>>
         /\ \A s \in Entry : ServerSame(s)
<1>1. \A s \in Entry : ServerSame(s)
  BY ServerStays, EndsStay DEF MessagesInv
<1>2. UNCHANGED <<log, row, read, told, shaken>>
  BY EndsLeave DEF MessagesInv, messageVars
<1>3. ASSUME UNCHANGED messageVars PROVE WaitingWrites'
  <2>1. UNCHANGED <<pc, req, waiting>>
    BY <1>3 DEF messageVars
  <2>2. WaitingWrites
    BY DEF PagesInv
  <2>. QED
    BY <2>1, <2>2 DEF WaitingWrites
<1>4. ASSUME NEW r \in Req, NEW q, Ask(r, q) PROVE WaitingWrites'
  <2>1. /\ pc[r] = "idle" /\ \A p \in Req \ {r} : pc'[p] = pc[p] /\ req'[p] = req[p]
    BY <1>4, AskStarts DEF MessagesInv
  <2>. QED
    BY <2>1 DEF PagesInv, WaitingWrites
<1>. QED
  BY <1>1, <1>2, <1>3, <1>4 DEF PagesInv, WaitingWrites

\* A page that opens has nothing yet; one that is left has nothing any more.
LEMMA OpenChatPages ==
  ASSUME MessagesInv, PagesInv, NEW b \in User, NEW r \in Req, OpenChat(b, r)
  PROVE  PagesInv'
<1>1. /\ page[b] = "away" /\ page' = [page EXCEPT ![b] = "loading"]
      /\ UNCHANGED <<shown, loaded, copy, missed, late, room, inbox, waiting>>
      /\ \E q : Ask(r, q)
  BY DEF OpenChat, netVars
<1>2. WaitingWrites' /\ UNCHANGED shaken /\ \A s \in Entry : ServerSame(s)
  BY <1>1, WaitingStays
<1>3. PagesTypeOK' /\ DeafHearNothing' /\ OnlyLoadingReads'
  BY <1>1 DEF PagesInv, PagesTypeOK, DeafHearNothing, OnlyLoadingReads
<1>4. loaded[b] = {}
  BY <1>1 DEF PagesInv, OnlyLoadingReads
<1>5. \A c \in User : page'[c] = IF c = b THEN "loading" ELSE page[c]
  BY <1>1 DEF PagesInv, PagesTypeOK
<1>6. ASSUME NEW c \in User, NEW s \in Entry PROVE Fine(c, s)'
  <2>1. Heard(c, s)' = Heard(c, s) /\ LastHeard(c, s)' = LastHeard(c, s)
    BY <1>1 DEF Heard, LastHeard
  <2>2. Follows(c, s)' => Follows(c, s) /\ View(c, s)' = View(c, s)
    BY <1>1, <1>2, <1>4, <1>5 DEF Follows, View
  <2>3. PageSame(c, s)
    BY <1>1, <2>1, <2>2 DEF PageSame
  <2>. QED
    BY <1>2, <2>3, SameIsFine DEF PagesInv
<1>. QED
  BY <1>2, <1>3, <1>6 DEF PagesInv

LEMMA LeaveChatPages ==
  ASSUME MessagesInv, PagesInv, NEW b \in User, LeaveChat(b)
  PROVE  PagesInv'
<1>1. /\ page' = [page EXCEPT ![b] = "away"] /\ shown' = [shown EXCEPT ![b] = Blank]
      /\ copy' = [copy EXCEPT ![b] = Blank] /\ loaded' = [loaded EXCEPT ![b] = {}]
      /\ late' = [late EXCEPT ![b] = {}] /\ missed' = [missed EXCEPT ![b] = {}]
      /\ UNCHANGED <<messageVars, room, inbox, waiting>>
  BY DEF LeaveChat, netVars
<1>2. WaitingWrites' /\ UNCHANGED shaken /\ \A s \in Entry : ServerSame(s)
  BY <1>1, WaitingStays
<1>3. Blank \in [Entry -> Content] /\ \A s \in Entry : s \in Key => Blank[s] = NoRow
  BY RowTypes, EntryIs DEF Blank, Content
<1>4. PagesTypeOK' /\ DeafHearNothing' /\ OnlyLoadingReads'
  BY <1>1, <1>3 DEF PagesInv, PagesTypeOK, DeafHearNothing, OnlyLoadingReads
<1>5. \A c \in User \ {b} : /\ page'[c] = page[c] /\ shown'[c] = shown[c] /\ copy'[c] = copy[c]
                            /\ loaded'[c] = loaded[c] /\ late'[c] = late[c] /\ missed'[c] = missed[c]
  BY <1>1 DEF PagesInv, PagesTypeOK
<1>6. page'[b] = "away" /\ shown'[b] = Blank /\ copy'[b] = Blank /\ loaded'[b] = {}
  BY <1>1 DEF PagesInv, PagesTypeOK
<1>7. ASSUME NEW c \in User, NEW s \in Entry PROVE Fine(c, s)'
  <2>1. Heard(c, s)' = Heard(c, s) /\ LastHeard(c, s)' = LastHeard(c, s)
    BY <1>1 DEF Heard, LastHeard
  <2>2. CASE c # b
    <3>1. PageSame(c, s)
      BY <1>2, <1>5, <2>1, <2>2 DEF PageSame, Follows, View
    <3>. QED
      BY <1>2, <3>1, SameIsFine DEF PagesInv
  <2>3. CASE c = b
    <3>1. ~Follows(b, s)'
      BY <1>6 DEF Follows
    <3>2. Fine(b, s) /\ ServerSame(s) /\ (s \in Key => shown'[b][s] = NoRow /\ copy'[b][s] = NoRow)
      BY <1>2, <1>3, <1>6 DEF PagesInv
    <3>3. UNCHANGED <<told, shaken, row, log>> /\ (IsSending(s)' <=> IsSending(s))
      BY <1>1, <3>2 DEF messageVars, ServerSame
    <3>4. Heard(b, s)' = Heard(b, s) /\ LastHeard(b, s)' = LastHeard(b, s)
      BY <2>1, <2>3
    <3>5. EventsAreReal(b, s)' /\ LastIsTold(b, s)' /\ Current(b, s)'
      BY <3>1, <3>2, <3>3, <3>4 DEF Fine, EventsAreReal, LastIsTold, Current, IsRow, Written
    <3>6. s \in Key => /\ ShownIsWritten(b, s)' /\ SendsComeFirst(b, s)' /\ SendingIsHeard(b, s)'
                       /\ AbsentIsGone(b, s)' /\ ShownBeforeSend(b, s)'
      BY <3>1, <3>2, <3>3, <3>4
      DEF Fine, ShownIsWritten, SendsComeFirst, SendingIsHeard, AbsentIsGone, ShownBeforeSend
    <3>. QED
      BY <2>3, <3>5, <3>6 DEF Fine
  <2>. QED
    BY <2>2, <2>3
<1>. QED
  BY <1>2, <1>4, <1>7 DEF PagesInv

\* What a load has read is the page, as it was when the load read it.
LEMMA LoadedPages ==
  ASSUME MessagesInv, PagesInv, NEW b \in User, Loaded(b)
  PROVE  PagesInv'
<1>0. PagesTypeOK
  BY DEF PagesInv
<1>1. /\ loaded[b] = {"chat", "list"} /\ page' = [page EXCEPT ![b] = "open"]
      /\ shown' = [shown EXCEPT ![b] = copy[b]] /\ missed' = [missed EXCEPT ![b] = late[b]]
      /\ loaded' = [loaded EXCEPT ![b] = {}] /\ late' = [late EXCEPT ![b] = {}]
      /\ copy' = [copy EXCEPT ![b] = Blank]
      /\ UNCHANGED <<messageVars, room, inbox, waiting>>
  BY DEF Loaded, netVars
<1>2. WaitingWrites' /\ UNCHANGED shaken /\ \A s \in Entry : ServerSame(s)
  BY <1>1, WaitingStays
<1>3. Blank \in [Entry -> Content] /\ \A s \in Entry : s \in Key => Blank[s] = NoRow
  BY RowTypes, EntryIs DEF Blank, Content
<1>4. shown' \in [User -> [Entry -> Content]] /\ copy' \in [User -> [Entry -> Content]]
  BY <1>0, <1>1, <1>3 DEF PagesTypeOK
<1>5. missed' \in [User -> SUBSET Entry] /\ late' \in [User -> SUBSET Entry]
      /\ page' \in [User -> {"away", "loading", "open"}] /\ loaded' \in [User -> SUBSET {"chat", "list"}]
  BY <1>0, <1>1 DEF PagesTypeOK
<1>6. PagesTypeOK' /\ DeafHearNothing'
  BY <1>0, <1>1, <1>4, <1>5 DEF PagesInv, PagesTypeOK, DeafHearNothing
<1>7. \A c \in User \ {b} : /\ page'[c] = page[c] /\ shown'[c] = shown[c] /\ copy'[c] = copy[c]
                            /\ loaded'[c] = loaded[c] /\ late'[c] = late[c] /\ missed'[c] = missed[c]
  BY <1>0, <1>1 DEF PagesTypeOK
<1>8. /\ page'[b] = "open" /\ shown'[b] = copy[b] /\ missed'[b] = late[b] /\ copy'[b] = Blank
      /\ page[b] # "open" /\ loaded'[b] = {}
  BY <1>0, <1>1 DEF PagesTypeOK, PagesInv, OnlyLoadingReads
<1>9. OnlyLoadingReads'
  BY <1>7, <1>8 DEF PagesInv, OnlyLoadingReads
<1>10. ASSUME NEW c \in User, NEW s \in Entry PROVE Fine(c, s)'
  <2>1. Heard(c, s)' = Heard(c, s) /\ LastHeard(c, s)' = LastHeard(c, s)
    BY <1>1 DEF Heard, LastHeard
  <2>2. Follows(c, s)' => Follows(c, s) /\ View(c, s)' = View(c, s)
    BY <1>1, <1>2, <1>7, <1>8 DEF Follows, View, Part
  <2>3. s \in Key => {shown'[c][s], copy'[c][s]} \subseteq {shown[c][s], copy[c][s], NoRow}
    BY <1>3, <1>7, <1>8
  <2>4. PageSame(c, s)
    BY <2>1, <2>2, <2>3 DEF PageSame
  <2>. QED
    BY <1>2, <2>4, SameIsFine DEF PagesInv
<1>. QED
  BY <1>2, <1>6, <1>9, <1>10 DEF PagesInv

\* A part of the page is read: it says what the table says.
LEMMA ReadFine ==
  ASSUME MessagesInv, ServerInv, PagesInv, NEW b \in User, NEW s \in Entry,
         page[b] = "loading", UNCHANGED messageVars, UNCHANGED <<page, shown, late, inbox>>, loaded' \in [User -> SUBSET {"chat", "list"}],
         copy'[b][s] = IF s \in Key /\ ~Visible(s) THEN NoRow ELSE Value(s)
  PROVE  Fine(b, s)'
<1>1. Fine(b, s) /\ UNCHANGED <<row, read, log, told, shaken, pc, req>>
  BY DEF PagesInv, messageVars
<1>2. /\ Heard(b, s)' = Heard(b, s) /\ LastHeard(b, s)' = LastHeard(b, s)
      /\ (IsTelling(s)' <=> IsTelling(s)) /\ (IsSending(s)' <=> IsSending(s))
      /\ Value(s)' = Value(s) /\ (s \in Key => (Written(s)' <=> Written(s)))
  BY <1>1 DEF Heard, LastHeard, IsTelling, IsSending, Subject, Value, Written
<1>3. View(b, s)' = copy'[b][s]
  BY DEF View
<1>4. EventsAreReal(b, s)' /\ LastIsTold(b, s)'
  BY <1>1, <1>2, EntryIs DEF Fine, EventsAreReal, LastIsTold, IsRow
<1>5. CASE s \in User
  <2>1. View(b, s)' = Value(s)
    BY <1>3, <1>5, EntryIs
  <2>2. Current(b, s)'
    BY <1>2, <2>1 DEF Current
  <2>. QED
    BY <1>4, <1>5, <2>2, EntryIs DEF Fine
<1>6. CASE s \in Key
  <2>1. /\ Visible(s) => View(b, s)' = row[s] /\ row[s] # NoRow /\ Written(s)
        /\ ~Visible(s) => View(b, s)' = NoRow
        /\ ~Visible(s) /\ ~row[s].gone => told[s] = NoRow /\ row[s] = NoRow
    BY <1>3, <1>6, EntryIs, IsRowIsNotNoRow DEF Visible, ServerInv, RowIsWritten
  <2>2. Current(b, s)'
    BY <1>1, <1>2, <1>6, <2>1, EntryIs DEF Current
  <2>3. AbsentIsGone(b, s)' /\ ShownBeforeSend(b, s)'
    BY <1>1, <1>2, <2>1 DEF AbsentIsGone, ShownBeforeSend
  <2>4. SendsComeFirst(b, s)' /\ SendingIsHeard(b, s)'
    BY <1>1, <1>2, <1>6, <2>1 DEF Fine, SendsComeFirst, SendingIsHeard
  <2>5. ShownIsWritten(b, s)'
    BY <1>1, <1>2, <1>6, <2>1 DEF Fine, ShownIsWritten, Visible
  <2>. QED
    BY <1>4, <2>2, <2>3, <2>4, <2>5 DEF Fine
<1>. QED
  BY <1>5, <1>6 DEF Entry

LEMMA ReadPartPages ==
  ASSUME MessagesInv, ServerInv, PagesInv, NEW b \in User, NEW part \in {"chat", "list"}, ReadPart(b, part)
  PROVE  PagesInv'
<1>0. PagesTypeOK /\ MessagesTypeOK
  BY DEF PagesInv, MessagesInv
<1> DEFINE f == [s \in Entry |-> IF Part(s) # part THEN copy[b][s]
                        ELSE IF s \in Key /\ ~Visible(s) THEN NoRow ELSE Value(s)]
<1>1. /\ page[b] = "loading" /\ loaded' = [loaded EXCEPT ![b] = @ \cup {part}]
      /\ copy' = [copy EXCEPT ![b] = f]
      /\ UNCHANGED <<page, shown, missed, late, room, inbox, waiting>> /\ UNCHANGED messageVars
  BY DEF ReadPart, netVars
<1>2. WaitingWrites' /\ UNCHANGED shaken /\ \A s \in Entry : ServerSame(s)
  BY <1>1, WaitingStays
<1>3. \A s \in Entry : Value(s) \in Content /\ copy[b][s] \in Content
  BY <1>0, EntryIs DEF PagesTypeOK, MessagesTypeOK, Content, Value, Entry
<1>4. f \in [Entry -> Content]
  BY <1>3, RowTypes DEF Content
<1>5. /\ copy'[b] = f /\ copy' \in [User -> [Entry -> Content]]
      /\ \A c \in User \ {b} : copy'[c] = copy[c] /\ loaded'[c] = loaded[c]
      /\ loaded'[b] = loaded[b] \cup {part} /\ loaded' \in [User -> SUBSET {"chat", "list"}]
  BY <1>0, <1>1, <1>4 DEF PagesTypeOK
<1>6. \A s \in Entry : copy'[b][s] = IF Part(s) # part THEN copy[b][s]
                        ELSE IF s \in Key /\ ~Visible(s) THEN NoRow ELSE Value(s)
  BY <1>5
<1>. HIDE DEF f
<1>7. PagesTypeOK' /\ DeafHearNothing'
  BY <1>0, <1>1, <1>5 DEF PagesInv, PagesTypeOK, DeafHearNothing
<1>8. OnlyLoadingReads'
  BY <1>1, <1>5 DEF PagesInv, OnlyLoadingReads
<1>9. ASSUME NEW c \in User, NEW s \in Entry PROVE Fine(c, s)'
  <2>1. CASE c = b /\ Part(s) = part
    <3>1. copy'[b][s] = IF s \in Key /\ ~Visible(s) THEN NoRow ELSE Value(s)
      BY <1>6, <2>1
    <3>. QED
      BY <1>1, <1>5, <2>1, <3>1, ReadFine
  <2>2. CASE c # b \/ Part(s) # part
    <3>1. copy'[c][s] = copy[c][s] /\ (Part(s) \in loaded'[c] <=> Part(s) \in loaded[c])
      BY <1>5, <1>6, <2>2
    <3>2. PageSame(c, s)
      BY <1>1, <1>2, <3>1 DEF PageSame, Heard, LastHeard, Follows, View
    <3>. QED
      BY <1>2, <3>2, SameIsFine DEF PagesInv
  <2>. QED
    BY <2>1, <2>2
<1>. QED
  BY <1>2, <1>7, <1>8, <1>9 DEF PagesInv

\* The page of another chat lets events go by.
LEMMA IgnorePages ==
  ASSUME MessagesInv, PagesInv, NEW b \in User, Ignore(b)
  PROVE  PagesInv'
<1>0. PagesTypeOK
  BY DEF PagesInv
<1>1. /\ page[b] = "away" /\ inbox[b] # <<>> /\ inbox' = [inbox EXCEPT ![b] = Tail(@)]
      /\ UNCHANGED <<page, shown, copy, loaded, missed, late, room, waiting>> /\ UNCHANGED messageVars
  BY <1>0 DEF Ignore, pageVars, Present, PagesTypeOK
<1>2. WaitingWrites' /\ UNCHANGED shaken /\ \A s \in Entry : ServerSame(s)
  BY <1>1, WaitingStays
<1>3. inbox[b] \in Seq(EventType) /\ Tail(inbox[b]) \in Seq(EventType)
  BY <1>0, <1>1 DEF PagesTypeOK
<1>4. /\ inbox'[b] = Tail(inbox[b]) /\ \A c \in User \ {b} : inbox'[c] = inbox[c]
      /\ inbox' \in [User -> Seq(EventType)]
  BY <1>0, <1>1, <1>3 DEF PagesTypeOK
<1>5. PagesTypeOK' /\ DeafHearNothing' /\ OnlyLoadingReads'
  BY <1>0, <1>1, <1>4 DEF PagesInv, PagesTypeOK, DeafHearNothing, OnlyLoadingReads
<1>6. ASSUME NEW c \in User, NEW s \in Entry PROVE Fine(c, s)'
  <2>1. CASE c = b
    <3>1. PICK q \in Seq(EventType) : q = inbox[b]
      BY <1>3
    <3>2. EventsIn(Tail(q), s) \subseteq EventsIn(q, s) /\ EndsIn(Tail(q), s) \subseteq EndsIn(q, s)
      BY <1>1, <3>1, TailEvents
    <3>3. ~Follows(b, s)'
      BY <1>1 DEF Follows, PagesInv, OnlyLoadingReads
    <3>4. BehindSame(b, s)
      BY <1>1, <1>4, <3>1, <3>2, <3>3 DEF BehindSame, Heard, LastHeard
    <3>. QED
      BY <1>2, <2>1, <3>4, BehindIsFine DEF PagesInv
  <2>2. CASE c # b
    <3>1. PageSame(c, s)
      BY <1>1, <1>2, <1>4, <2>2 DEF PageSame, Heard, LastHeard, Follows, View
    <3>. QED
      BY <1>2, <3>1, SameIsFine DEF PagesInv
  <2>. QED
    BY <2>1, <2>2
<1>. QED
  BY <1>2, <1>5, <1>6 DEF PagesInv

\* A connection that drops takes the events with it: the page is behind in each.
LEMMA DisconnectPages ==
  ASSUME MessagesInv, PagesInv, NEW b \in User, Disconnect(b)
  PROVE  PagesInv'
<1>0. PagesTypeOK
  BY DEF PagesInv
<1> DEFINE Lost(c) == {e.of : e \in Range(inbox[c])}
<1>1. /\ inbox' = [inbox EXCEPT ![b] = <<>>] /\ room' = room \ {b}
      /\ missed' = [c \in User |-> IF c \in Present \cap {b} THEN missed[c] \cup Lost(c) ELSE missed[c]]
      /\ late' = [c \in User |-> IF c \in Present \cap {b} THEN late[c] \cup Overtaken(c, Lost(c)) ELSE late[c]]
      /\ UNCHANGED <<page, shown, copy, loaded, waiting>> /\ UNCHANGED messageVars
  BY DEF Disconnect, Unheard
<1>2. WaitingWrites' /\ UNCHANGED shaken /\ \A s \in Entry : ServerSame(s)
  BY <1>1, WaitingStays
<1>3. Lost(b) \subseteq Entry
  <2>1. inbox[b] \in Seq(EventType)
    BY <1>0 DEF PagesTypeOK
  <2>2. \A i \in DOMAIN inbox[b] : inbox[b][i].of \in Entry
    <3>1. \A i \in 1..Len(inbox[b]) : inbox[b][i] \in EventType
      BY <2>1
    <3>2. \A e \in EventType : e.of \in Entry
      BY DEF EventType
    <3>. QED
      BY <2>1, <3>1, <3>2
  <2>. QED
    BY <2>2 DEF Range
<1>4. \A s \in Entry : Heard(b, s) = {} \/ s \in Lost(b)
  <2>1. \A i \in 1..Len(inbox[b]) : inbox[b][i].of \in Lost(b)
    BY <1>0 DEF PagesTypeOK, Range
  <2>. QED
    BY <2>1 DEF Heard, EventsIn
<1>. HIDE DEF Lost
<1>5. /\ inbox'[b] = <<>> /\ \A c \in User \ {b} : inbox'[c] = inbox[c]
      /\ inbox' \in [User -> Seq(EventType)]
  BY <1>0, <1>1 DEF PagesTypeOK
<1>6. missed' \in [User -> SUBSET Entry] /\ late' \in [User -> SUBSET Entry]
  BY <1>0, <1>1, <1>3 DEF PagesTypeOK, Overtaken
<1>7. PagesTypeOK' /\ DeafHearNothing' /\ OnlyLoadingReads'
  BY <1>0, <1>1, <1>5, <1>6 DEF PagesInv, PagesTypeOK, DeafHearNothing, OnlyLoadingReads
<1>8. ASSUME NEW c \in User, NEW s \in Entry PROVE Fine(c, s)'
  <2>1. (s \in missed[c] => s \in missed'[c]) /\ (s \in late[c] => s \in late'[c])
    BY <1>1
  <2>2. CASE c # b
    <3>1. PageSame(c, s)
      BY <1>1, <1>2, <1>5, <2>1, <2>2 DEF PageSame, Heard, LastHeard, Follows, View
    <3>. QED
      BY <1>2, <3>1, SameIsFine DEF PagesInv
  <2>3. CASE c = b
    <3>1. Heard(b, s)' = {} /\ LastHeard(b, s)' = {}
      BY <1>5, NoEvents DEF Heard, LastHeard
    <3>2. CASE Heard(b, s) = {}
      <4>1. LastHeard(b, s) = {}
        BY <3>2, EndsAreEvents DEF Heard, LastHeard
      <4>2. PageSame(b, s)
        BY <1>1, <1>2, <2>1, <2>3, <3>1, <3>2, <4>1 DEF PageSame, Follows, View
      <4>. QED
        BY <1>2, <2>3, <4>2, SameIsFine DEF PagesInv
    <3>3. CASE s \in Lost(b)
      <4>1. CASE b \in Present
        <5>1. s \in missed'[b] /\ (Part(s) \in loaded[b] => s \in late'[b])
          BY <1>1, <3>3, <4>1 DEF Overtaken
        <5>. QED
          BY <1>1, <3>1, <5>1, <2>3, <1>2, BehindIsFine DEF BehindSame, Follows, PagesInv
      <4>2. CASE b \notin Present
        <5>1. ~Follows(b, s)'
          BY <1>1, <4>2 DEF Present, Follows, PagesInv, OnlyLoadingReads
        <5>. QED
          BY <1>1, <3>1, <5>1, <2>3, <1>2, BehindIsFine DEF BehindSame, PagesInv
      <4>. QED
        BY <4>1, <4>2
    <3>. QED
      BY <1>4, <3>2, <3>3
  <2>. QED
    BY <2>2, <2>3
<1>. QED
  BY <1>2, <1>7, <1>8 DEF PagesInv

\* An event comes to a page: what becomes of the page and of what is still to come.
LEMMA TakeIs ==
  ASSUME MessagesInv, PagesInv, NEW b \in User, NEW r \in Req, Take(b, r)
  PROVE  LET h == Head(inbox[b]) IN
         /\ b \in Present /\ inbox[b] # <<>> /\ h \in EventType
         /\ inbox[b] \in Seq(EventType) /\ inbox'[b] = Tail(inbox[b])
         /\ \A c \in User \ {b} : inbox'[c] = inbox[c]
         /\ UNCHANGED <<page, copy, loaded, room, waiting>>
         /\ UNCHANGED messageVars \/ \E q : Ask(r, q)
         /\ \A c \in User, s \in Entry : c # b \/ s # h.of =>
              shown'[c][s] = shown[c][s] /\ (s \in missed'[c] <=> s \in missed[c]) /\ (s \in late'[c] <=> s \in late[c])
         /\ Part(h.of) \in loaded[b] => h.of \in late'[b]
         /\ Applies(b, h) => shown'[b][h.of] = h.value /\ h.of \notin missed'[b]
         /\ ~Applies(b, h) => shown'[b][h.of] = shown[b][h.of] /\ (h.of \in missed'[b] <=> h.of \in missed[b])
         /\ PagesTypeOK'
<1> DEFINE h == Head(inbox[b])
<1>0. PagesTypeOK
  BY DEF PagesInv
<1>1. /\ b \in Present /\ inbox[b] # <<>> /\ inbox' = [inbox EXCEPT ![b] = Tail(@)]
      /\ IF Applies(b, h) THEN Show(b, h.of, h.value) ELSE UNCHANGED <<shown, missed>>
      /\ late' = [late EXCEPT ![b] = @ \cup Overtaken(b, {h.of})]
      /\ UNCHANGED <<page, copy, loaded, room, waiting>>
      /\ UNCHANGED messageVars \/ \E q : Ask(r, q)
  BY DEF Take, Replaced
<1>2. inbox[b] \in Seq(EventType) /\ h \in EventType /\ Tail(inbox[b]) \in Seq(EventType)
  BY <1>0, <1>1 DEF PagesTypeOK
<1>3. h.of \in Entry /\ h.value \in Content
  BY <1>2 DEF EventType
<1>. HIDE DEF h
<1>4. /\ inbox'[b] = Tail(inbox[b]) /\ \A c \in User \ {b} : inbox'[c] = inbox[c]
      /\ inbox' \in [User -> Seq(EventType)]
  BY <1>0, <1>1, <1>2 DEF PagesTypeOK
<1>5. /\ late' \in [User -> SUBSET Entry] /\ late'[b] = late[b] \cup Overtaken(b, {h.of})
      /\ \A c \in User \ {b} : late'[c] = late[c]
  BY <1>0, <1>1, <1>3 DEF PagesTypeOK, Overtaken
<1>6. /\ Part(h.of) \in loaded[b] => h.of \in late'[b]
      /\ \A s \in Entry : s # h.of => (s \in late'[b] <=> s \in late[b])
  BY <1>5 DEF Overtaken
<1>7. CASE ~Applies(b, h)
  <2>1. UNCHANGED <<shown, missed>>
    BY <1>1, <1>7
  <2>2. PagesTypeOK'
    BY <1>0, <1>1, <1>4, <1>5, <2>1 DEF PagesTypeOK
  <2>. QED
    BY <1>1, <1>2, <1>4, <1>5, <1>6, <1>7, <2>1, <2>2 DEF h
<1>8. CASE Applies(b, h)
  <2>1. shown' = [shown EXCEPT ![b][h.of] = h.value] /\ missed' = [missed EXCEPT ![b] = @ \ {h.of}]
    BY <1>1, <1>8 DEF Show
  <2>2. [shown[b] EXCEPT ![h.of] = h.value] \in [Entry -> Content]
    BY <1>0, <1>3 DEF PagesTypeOK
  <2>3. shown' \in [User -> [Entry -> Content]] /\ missed' \in [User -> SUBSET Entry]
    BY <1>0, <2>1, <2>2 DEF PagesTypeOK
  <2>4. /\ shown'[b][h.of] = h.value /\ h.of \notin missed'[b]
        /\ \A c \in User, s \in Entry : c # b \/ s # h.of =>
             shown'[c][s] = shown[c][s] /\ (s \in missed'[c] <=> s \in missed[c])
    BY <1>0, <1>3, <2>1 DEF PagesTypeOK
  <2>5. PagesTypeOK'
    BY <1>0, <1>1, <1>4, <1>5, <2>3 DEF PagesTypeOK
  <2>6. \A c \in User, s \in Entry : c # b \/ s # h.of =>
          /\ shown'[c][s] = shown[c][s] /\ (s \in missed'[c] <=> s \in missed[c])
          /\ (s \in late'[c] <=> s \in late[c])
    BY <1>5, <1>6, <2>4
  <2>. QED
    BY <1>1, <1>2, <1>4, <1>6, <1>8, <2>4, <2>5, <2>6 DEF h
<1>. QED
  BY <1>7, <1>8

\* The page and the subject of the event that comes.
LEMMA TakenIsFine ==
  ASSUME MessagesInv, ServerInv, PagesInv, NEW b \in User, NEW r \in Req, Take(b, r),
         NEW s \in Entry, s = Head(inbox[b]).of, page[b] = "open"
  PROVE  Fine(b, s)'
<1> DEFINE h == Head(inbox[b])
<1>0. MessagesTypeOK /\ PagesTypeOK /\ Fine(b, s)
  BY DEF MessagesInv, PagesInv
<1>1. /\ inbox[b] # <<>> /\ inbox[b] \in Seq(EventType) /\ inbox'[b] = Tail(inbox[b])
      /\ UNCHANGED <<page, copy, loaded, waiting>>
      /\ UNCHANGED messageVars \/ \E q : Ask(r, q)
      /\ Applies(b, h) => shown'[b][s] = h.value /\ s \notin missed'[b]
      /\ ~Applies(b, h) => shown'[b][s] = shown[b][s] /\ (s \in missed'[b] <=> s \in missed[b])
      /\ h \in EventType
  BY TakeIs
<1>2. /\ UNCHANGED <<log, row, read, told, shaken>> /\ ServerSame(s)
  BY <1>1, WaitingStays
<1>3. h.of = s
  OBVIOUS
<1>. HIDE DEF h
<1>4. /\ Heard(b, s) = Heard(b, s)' \cup {h} /\ LastHeard(b, s)' \subseteq LastHeard(b, s)
      /\ Heard(b, s)' = {} => h \in LastHeard(b, s)
  <2>1. PICK q \in Seq(EventType) : q = inbox[b]
    BY <1>1
  <2>2. q # <<>> /\ Head(q) = h /\ Head(q).of = s
    BY <1>1, <1>3, <2>1 DEF h
  <2>3. /\ EventsIn(q, s) = EventsIn(Tail(q), s) \cup {Head(q)}
    BY <2>2, TailEvents
  <2>4. /\ EndsIn(Tail(q), s) \subseteq EndsIn(q, s)
        /\ EventsIn(Tail(q), s) = {} => Head(q) \in EndsIn(q, s)
    BY <2>2, TailEvents
  <2>. QED
    BY <1>1, <2>1, <2>2, <2>3, <2>4 DEF Heard, LastHeard
<1>5. /\ (IsTelling(s)' <=> IsTelling(s)) /\ (IsSending(s)' <=> IsSending(s))
      /\ Value(s)' = Value(s) /\ (s \in Key => (Written(s)' <=> Written(s)))
  BY <1>2 DEF ServerSame
<1>6. /\ View(b, s) = shown[b][s] /\ View(b, s)' = shown'[b][s]
      /\ Follows(b, s) <=> s \notin shaken /\ s \notin missed[b]
      /\ Follows(b, s)' <=> s \notin shaken /\ s \notin missed'[b]
  BY <1>1, <1>2 DEF View, Follows
<1>7. EventsAreReal(b, s)'
  BY <1>0, <1>4, <1>5, EntryIs DEF Fine, EventsAreReal, IsRow
<1>8. LastIsTold(b, s)'
  BY <1>0, <1>2, <1>4 DEF Fine, LastIsTold
<1>9. ASSUME s \notin shaken, ~IsTelling(s)
      PROVE  told[s] = Value(s) \/ (s \in User /\ read[s] = None)
  BY <1>9 DEF MessagesInv, ToldOrTelling, IsTelling
<1>10. CASE s \in User
  <2>1. Applies(b, h)
    BY <1>0, <1>4, <1>10 DEF Fine, EventsAreReal, Applies
  <2>2. Current(b, s)'
    <3>. SUFFICES ASSUME Follows(b, s)', ~IsTelling(s), Heard(b, s)' = {}
                  PROVE  View(b, s)' = Value(s) \/ read[s] = None
      BY <1>2, <1>5, <1>10 DEF Current
    <3>. QED
      BY <1>0, <1>1, <1>4, <1>6, <1>9, <2>1 DEF Fine, LastIsTold
  <2>. QED
    BY <1>7, <1>8, <1>10, <2>2, EntryIs DEF Fine
<1>11. CASE s \in Key
  <2>1. /\ s \notin User /\ Value(s) = row[s] /\ Written(s)
        /\ h.op # "read" /\ h.value # NoRow
    BY <1>0, <1>4, <1>11, EntryIs, IsRowIsNotNoRow DEF Fine, EventsAreReal
  <2>2. ShownIsWritten(b, s)'
    BY <1>5, <1>11, <2>1 DEF ShownIsWritten
  <2>3. SendsComeFirst(b, s)'
    BY <1>0, <1>2, <1>4, <1>11 DEF Fine, SendsComeFirst
  <2>4. SendingIsHeard(b, s)'
    BY <1>0, <1>1, <1>2, <1>4, <1>5, <1>6, <1>11 DEF Fine, SendingIsHeard
  <2>5. AbsentIsGone(b, s)'
    BY <1>0, <1>1, <1>2, <1>3, <1>4, <1>6, <1>11, <2>1 DEF Fine, AbsentIsGone, Applies
  <2>6. ShownBeforeSend(b, s)'
    <3>. SUFFICES ASSUME Follows(b, s)', NEW e \in LastHeard(b, s)', e.op = "send"
                  PROVE  View(b, s)' \in {NoRow, told[s], row[s]}
      BY <1>2 DEF ShownBeforeSend
    <3>1. e \in LastHeard(b, s) /\ s \notin shaken
      BY <1>4, <1>6
    <3>2. h.value = told[s]
      BY <1>0, <1>4, <1>11, <3>1 DEF Fine, SendsComeFirst
    <3>3. Follows(b, s) => View(b, s) \in {NoRow, told[s], row[s]}
      BY <1>0, <1>11, <3>1 DEF Fine, ShownBeforeSend
    <3>. QED
      BY <1>1, <1>6, <3>2, <3>3
  <2>7. Current(b, s)'
    <3>. SUFFICES ASSUME Follows(b, s)', ~IsTelling(s), Heard(b, s)' = {}
                  PROVE  View(b, s)' = row[s] \/ (row[s].gone /\ View(b, s)' = NoRow)
      BY <1>2, <1>5, <2>1 DEF Current
    <3>1. h \in LastHeard(b, s) /\ h.value = told[s] /\ told[s] = row[s] /\ s \notin shaken
      BY <1>0, <1>4, <1>6, <1>9, <2>1 DEF Fine, LastIsTold
    <3>2. CASE Applies(b, h)
      BY <1>1, <1>6, <3>1, <3>2
    <3>3. CASE ~Applies(b, h) /\ h.op = "send"
      <4>1. View(b, s) # NoRow /\ Follows(b, s) /\ View(b, s)' = View(b, s)
        BY <1>1, <1>3, <1>6, <3>3 DEF Applies
      <4>. QED
        BY <1>0, <1>11, <3>1, <3>3, <4>1 DEF Fine, ShownBeforeSend
    <3>4. CASE ~Applies(b, h) /\ h.op # "send"
      <4>1. View(b, s) = NoRow /\ Follows(b, s) /\ View(b, s)' = View(b, s)
        BY <1>1, <1>3, <1>6, <2>1, <3>4 DEF Applies
      <4>2. told[s] # NoRow /\ \A e \in Heard(b, s) : e.op # "send"
        BY <1>4, <2>1, <3>1, <3>4
      <4>. QED
        BY <1>0, <1>11, <4>1, <4>2 DEF Fine, AbsentIsGone
    <3>. QED
      BY <3>2, <3>3, <3>4
  <2>. QED
    BY <1>7, <1>8, <2>2, <2>3, <2>4, <2>5, <2>6, <2>7 DEF Fine
<1>. QED
  BY <1>10, <1>11 DEF Entry

LEMMA TakePages ==
  ASSUME MessagesInv, ServerInv, PagesInv, NEW b \in User, NEW r \in Req, Take(b, r)
  PROVE  PagesInv'
<1> DEFINE h == Head(inbox[b])
<1>1. /\ b \in Present /\ inbox[b] # <<>> /\ h \in EventType
      /\ inbox[b] \in Seq(EventType) /\ inbox'[b] = Tail(inbox[b])
      /\ \A c \in User \ {b} : inbox'[c] = inbox[c]
      /\ UNCHANGED <<page, copy, loaded, room, waiting>>
      /\ UNCHANGED messageVars \/ \E q : Ask(r, q)
      /\ \A c \in User, s \in Entry : c # b \/ s # h.of =>
           shown'[c][s] = shown[c][s] /\ (s \in missed'[c] <=> s \in missed[c]) /\ (s \in late'[c] <=> s \in late[c])
      /\ Part(h.of) \in loaded[b] => h.of \in late'[b]
      /\ PagesTypeOK'
  BY TakeIs
<1>2. WaitingWrites' /\ UNCHANGED shaken /\ \A s \in Entry : ServerSame(s)
  BY <1>1, WaitingStays
<1>3. DeafHearNothing' /\ OnlyLoadingReads'
  BY <1>1 DEF PagesInv, DeafHearNothing, OnlyLoadingReads
<1>. HIDE DEF h
<1>4. ASSUME NEW c \in User, NEW s \in Entry PROVE Fine(c, s)'
  <2>1. CASE c = b /\ s = h.of /\ page[b] = "open"
    BY <2>1, TakenIsFine DEF h
  <2>2. CASE c # b \/ s # h.of
    <3>1. Heard(c, s)' = Heard(c, s) /\ LastHeard(c, s)' = LastHeard(c, s)
      <4>1. PICK q \in Seq(EventType) : q = inbox[b]
        BY <1>1
      <4>2. q # <<>> /\ Head(q) = h
        BY <1>1, <4>1 DEF h
      <4>3. s # h.of => EventsIn(Tail(q), s) = EventsIn(q, s) /\ EndsIn(Tail(q), s) = EndsIn(q, s)
        BY <4>2, TailEvents
      <4>. QED
        BY <1>1, <2>2, <4>1, <4>3 DEF Heard, LastHeard
    <3>2. PageSame(c, s)
      BY <1>1, <1>2, <2>2, <3>1 DEF PageSame, Follows, View
    <3>. QED
      BY <1>2, <3>2, SameIsFine DEF PagesInv
  <2>3. CASE c = b /\ s = h.of /\ page[b] # "open"
    <3>1. PICK q \in Seq(EventType) : q = inbox[b]
      BY <1>1
    <3>2. q # <<>>
      BY <1>1, <3>1
    <3>3. EventsIn(Tail(q), s) \subseteq EventsIn(q, s) /\ EndsIn(Tail(q), s) \subseteq EndsIn(q, s)
      BY <3>2, TailEvents
    <3>4. Heard(b, s)' \subseteq Heard(b, s) /\ LastHeard(b, s)' \subseteq LastHeard(b, s)
      BY <1>1, <3>1, <3>3 DEF Heard, LastHeard
    <3>5. ~Follows(b, s)'
      BY <1>1, <2>3 DEF Follows
    <3>6. ServerSame(s) /\ Fine(b, s)
      BY <1>2 DEF PagesInv
    <3>7. shown'[b][s] \in {shown[b][s], h.value}
      BY TakeIs, <2>3 DEF h
    <3>8. s \in Key => Written(s) /\ Written(s)'
      <4>1. h \in Heard(b, s)
        <5>1. EventsIn(q, s) = EventsIn(Tail(q), s) \cup {Head(q)}
          BY <2>3, <3>1, <3>2, TailEvents DEF h
        <5>. QED
          BY <3>1, <5>1 DEF h, Heard
      <4>. QED
        BY <3>6, <4>1, EntryIs DEF Fine, EventsAreReal, ServerSame
    <3>9. told'[s] = told[s] /\ (IsSending(s)' <=> IsSending(s)) /\ (s \in Key => row'[s] = row[s])
      BY <3>6 DEF ServerSame
    <3>10. EventsAreReal(b, s)' /\ LastIsTold(b, s)' /\ Current(b, s)'
      BY <3>4, <3>5, <3>6, <3>8, <3>9, EntryIs DEF Fine, EventsAreReal, LastIsTold, Current, IsRow
    <3>11. s \in Key => /\ ShownIsWritten(b, s)' /\ SendsComeFirst(b, s)' /\ SendingIsHeard(b, s)'
                        /\ AbsentIsGone(b, s)' /\ ShownBeforeSend(b, s)'
      BY <1>2, <3>4, <3>5, <3>6, <3>8, <3>9
      DEF Fine, ShownIsWritten, SendsComeFirst, SendingIsHeard, AbsentIsGone, ShownBeforeSend
    <3>. QED
      BY <2>3, <3>10, <3>11 DEF Fine
  <2>. QED
    BY <2>1, <2>2, <2>3
<1>. QED
  BY <1>1, <1>2, <1>3, <1>4 DEF PagesInv

LEMMA NextPages ==
  MessagesInv /\ MessagesInv' /\ ServerInv /\ PagesInv /\ SendsInv /\ [ThreadsNext]_vars => PagesInv'
<1>. SUFFICES ASSUME MessagesInv, MessagesInv', ServerInv, PagesInv, SendsInv, [ThreadsNext]_vars
              PROVE  PagesInv'
  OBVIOUS
<1>1. CASE UNCHANGED vars
  <2>1. UNCHANGED messageVars /\ UNCHANGED <<page, shown, copy, loaded, missed, late, inbox, room, waiting>>
    BY <1>1 DEF vars, pageVars, netVars
  <2>2. WaitingWrites'
    BY <2>1, WaitingStays
  <2>. QED
    BY <2>1, <2>2, QuietPages DEF WaitingWrites, PagesInv, PagesTypeOK
<1>2. ASSUME NEW r \in Req, Serve(r) PROVE PagesInv'
  <2>1. CASE /\ Handle(r) \/ Fail(r)
             /\ UNCHANGED <<pageVars, sendVars, netVars, waiting, presses, visits, drops>>
    BY <2>1, HandlePages DEF pageVars, netVars
  <2>2. CASE GiveUp(r)
    <3>1. /\ UNCHANGED messageVars /\ waiting' \subseteq waiting
          /\ UNCHANGED <<page, shown, copy, loaded, missed, late, inbox, room>>
      BY <2>2 DEF GiveUp, pageVars, netVars
    <3>2. \A q \in waiting' : q \in Req /\ pc'[q] # "idle" /\ req'[q].op # "read"
      BY <3>1 DEF messageVars, PagesInv, WaitingWrites
    <3>. QED
      BY <3>1, <3>2, QuietPages DEF PagesInv, PagesTypeOK
  <2>. QED
    BY <1>2, <2>1, <2>2, TellPages, RespondPages DEF Serve
<1>3. ASSUME NEW b \in User, Browse(b) PROVE PagesInv'
  <2>1. ASSUME NEW part \in {"chat", "list"}, ReadPart(b, part) PROVE PagesInv'
    BY <2>1, ReadPartPages
  <2>2. CASE Reconnect(b)
    <3>1. /\ UNCHANGED messageVars /\ room' = room \cup {b}
          /\ UNCHANGED <<page, shown, copy, loaded, missed, late, inbox, waiting>>
      BY <2>2 DEF Reconnect, pageVars
    <3>2. WaitingWrites'
      BY <3>1, WaitingStays
    <3>. QED
      BY <3>1, <3>2, QuietPages DEF WaitingWrites, PagesInv, PagesTypeOK
  <2>3. ASSUME NEW r \in Req, NEW t \in Text, Send(b, r, t) PROVE PagesInv'
    <3>1. PICK k : Press(b, r, Request("send", b, k, t))
      BY <2>3 DEF Send
    <3>. QED
      BY <3>1, PressPages DEF Request
  <2>4. ASSUME NEW r \in Req, NEW k \in Key, NEW t \in Text, Edit(b, r, k, t) PROVE PagesInv'
    BY <2>4, PressPages DEF Edit, Request
  <2>5. ASSUME NEW r \in Req, NEW k \in Key, Delete(b, r, k) \/ React(b, r, k) PROVE PagesInv'
    BY <2>5, PressPages DEF Delete, React, Request
  <2>. QED
    BY <1>3, <2>1, <2>2, <2>3, <2>4, <2>5, LoadedPages, LeaveChatPages, IgnorePages, DisconnectPages,
       OpenChatPages, TakePages DEF Browse
<1>. QED
  BY <1>1, <1>2, <1>3 DEF ThreadsNext

\* A page that was left alone long enough shows each message and each pointer as the table
\* has it (ChatPage's handlers of events, responses and loads), for any number of people,
\* messages, visits and broken connections.
THEOREM ThreadsSettle == ThreadsSpec => []ThreadSettles
<1>1. ThreadsSpec => [](MessagesInv /\ ServerInv)
  BY ServerIsMessages, MessagesInvariant, ServerInvariant, PTL
<1>2. MessagesInv => MessagesTypeOK
  BY DEF MessagesInv
<1>. QED
  BY <1>1, <1>2, SendsInitially, NextSends, PagesInitially, NextPages, ThreadsAreSettled, PTL DEF ThreadsSpec

(***************************************************************************)
(* What is unread.  Later is After for a log that is given.                *)
(***************************************************************************)
Later(l, k, j) ==
  j = None \/ \E m \in 1..Len(l), n \in 1..Len(l) : m < n /\ l[m] = j /\ l[n] = k

LEMMA AfterIsLater == \A k, j : After(k, j) <=> Later(log, k, j)
BY DEF After, Later

\* A message that is added comes after what is there, and before nothing.
LEMMA AppendLater ==
  ASSUME NEW l \in Seq(Key), NEW x \in Key, NEW k \in Key, k # x, NEW j
  PROVE  Later(Append(l, x), k, j) <=> Later(l, k, j)
<1>1. /\ Len(l) \in Nat /\ Len(Append(l, x)) = Len(l) + 1 /\ Append(l, x)[Len(l) + 1] = x
      /\ \A i \in 1..Len(l) : Append(l, x)[i] = l[i]
  OBVIOUS
<1>2. ASSUME NEW m \in 1..(Len(l) + 1), NEW n \in 1..(Len(l) + 1), m < n, Append(l, x)[n] = k
      PROVE  m \in 1..Len(l) /\ n \in 1..Len(l)
  BY <1>1, <1>2
<1>. QED
  BY <1>1, <1>2 DEF Later

\* A set of numbers has a least one, and a greatest one if it is bounded.
LEMMA Least ==
  ASSUME NEW T, T \subseteq Nat, T # {}
  PROVE  \E x \in T : \A y \in T : x <= y
<1>1. IsWellFoundedOn(OpToRel(<, Nat), Nat)
  BY NatLessThanWellFounded, Zenon
<1>2. PICK x \in T : \A y \in T : ~(<<y, x>> \in OpToRel(<, Nat))
  BY <1>1, WFMin, Zenon
<1>3. \A y \in T : ~(y < x)
  BY <1>2 DEF OpToRel
<1>4. \A y \in T : x <= y
  BY <1>3
<1>. QED
  BY <1>4

LEMMA Greatest ==
  ASSUME NEW n \in Nat, NEW T, T \subseteq 0..n, T # {}
  PROVE  \E x \in T : \A y \in T : y <= x
<1> DEFINE S == {n - x : x \in T}
<1>1. \A x \in T : n - x \in Nat
  OBVIOUS
<1>2. S \subseteq Nat /\ S # {}
  BY <1>1
<1>. HIDE DEF S
<1>3. PICK z \in S : \A y \in S : z <= y
  BY <1>2, Least
<1>4. PICK x \in T : z = n - x
  BY <1>3 DEF S
<1>5. \A y \in T : n - x <= n - y
  BY <1>3, <1>4 DEF S
<1>6. \A y \in T : y <= x
  BY <1>5
<1>. QED
  BY <1>6

\* A message is in the log once.
NoRepeats == \A m, n \in 1..Len(log) : log[m] = log[n] => m = n

\* Among messages that are visible one is the newest, and none comes after it.
LEMMA SomeNewest ==
  ASSUME log \in Seq(Key), NEW k \in Key, Visible(k)
  PROVE  \E j \in Key : Newest(j)
<1> DEFINE T == {i \in 1..Len(log) : Visible(log[i])}
<1>1. T # {}
  BY DEF Visible, Written, Contains
<1>2. Len(log) \in Nat /\ T \subseteq 0..Len(log) /\ T \subseteq 1..Len(log)
  OBVIOUS
<1>3. \A i \in 1..Len(log) : i \in T <=> Visible(log[i])
  OBVIOUS
<1>. HIDE DEF T
<1>4. PICK x \in T : \A y \in T : y <= x
  BY <1>1, <1>2, Greatest
<1>5. log[x] \in Key /\ x \in 1..Len(log) /\ Visible(log[x])
  BY <1>2, <1>3
<1>6. \A y \in 1..Len(log) : y > x => ~Visible(log[y])
  BY <1>2, <1>3, <1>4
<1>. QED
  BY <1>5, <1>6 DEF Newest

LEMMA NothingAfterNewest ==
  ASSUME NoRepeats, NEW j \in Key, Newest(j), NEW k \in Key, Visible(k)
  PROVE  ~Later(log, k, j)
<1>1. PICK i \in 1..Len(log) : log[i] = j /\ \A n \in 1..Len(log) : n > i => ~Visible(log[n])
  BY DEF Newest
<1>2. ASSUME NEW m \in 1..Len(log), NEW n \in 1..Len(log), m < n, log[m] = j, log[n] = k PROVE FALSE
  BY <1>1, <1>2 DEF NoRepeats
<1>. QED
  BY <1>2, MessagesAssumption DEF Later

(***************************************************************************)
(* Handlers that mark the chat read, and what will make the next one start.*)
(***************************************************************************)
MarkersOf(b) == {r \in Req : pc[r] \in {"exists", "point", "clear"} /\ req[r].user = b}

MarkComes(b) == \E r \in Req : pc[r] = "start" /\ req[r].op = "read" /\ req[r].user = b

SendComes(b, k) == \E e \in Heard(b, k) : e.op = "send"

Coming(b, k) == SendComes(b, k) \/ IsSending(k) \/ MarkComes(b)

\* A message is not unread, or a mark that covers it is at work, or one will be.
Caught(b, k) ==
  \/ Coming(b, k)
  \/ /\ \A r \in MarkersOf(b) : ~Later(log, k, req[r].key)
     /\ Later(log, k, read[b]) => MarkersOf(b) # {}

\* The chat is open in b's browser, and its socket was there all the time.
Attends(b) == page[b] # "away" /\ b \notin shaken /\ b \notin deaf

IsNews(b, k) == Visible(k) /\ Author[k] # b /\ k \notin shaken

MarksNameNone ==
  \A r \in Req : (pc[r] = "start" /\ req[r].op = "read") \/ pc[r] = "clear" => req[r].key = None

AttendersHear == \A b \in User : page[b] # "away" /\ b \notin deaf => b \in room

UnreadInv ==
  /\ NoRepeats /\ MarksNameNone /\ AttendersHear
  /\ \A b \in User, k \in Key : Attends(b) /\ IsNews(b, k) => Caught(b, k)

LEMMA UnreadInitially == ThreadsInit(<<>>, {}, {}) => UnreadInv
<1>. SUFFICES ASSUME ThreadsInit(<<>>, {}, {}) PROVE UnreadInv
  OBVIOUS
<1>1. page = [b \in User |-> "away"] /\ log = <<>> /\ pc = [r \in Req |-> "idle"]
  BY DEF ThreadsInit, MessagesInit
<1>. QED
  BY <1>1 DEF UnreadInv, NoRepeats, MarksNameNone, AttendersHear, Attends

LEMMA UnreadIsSettled == UnreadInv /\ PagesInv /\ MessagesInv => UnreadSettles
<1>. SUFFICES ASSUME UnreadInv, PagesInv, MessagesInv, NEW b \in User, page[b] = "open", Settled(b, b),
                     b \notin shaken \cup deaf,
                     ~(\E r \in Req : pc[r] # "idle" /\ req[r].user = b /\ req[r].op = "read"),
                     NEW k \in Unread(b), k \notin shaken, Settled(b, k)
              PROVE  FALSE
  BY DEF UnreadSettles
<1>1. k \in Key /\ IsNews(b, k) /\ Attends(b) /\ Later(log, k, read[b])
  BY AfterIsLater DEF Unread, IsNews, Attends
<1>2. MarkersOf(b) = {} /\ ~MarkComes(b)
  BY DEF MarkersOf, MarkComes, MessagesInv, StepsOfOp
<1>3. ~IsSending(k)
  BY DEF Settled, At, IsSending, Subject
<1>4. Heard(b, k) = {}
  <2>1. \A i \in 1..Len(inbox[b]) : inbox[b][i] \in Range(inbox[b])
    BY DEF PagesInv, PagesTypeOK, Range
  <2>. QED
    BY <2>1 DEF Settled, Heard, EventsIn
<1>. QED
  BY <1>1, <1>2, <1>3, <1>4 DEF UnreadInv, Caught, Coming, SendComes

\* A pair that a step does not touch.
LEMMA CaughtStays ==
  ASSUME NEW b \in User, NEW k \in Key, Caught(b, k), Coming(b, k) => Coming(b, k)',
         \A j : Later(log', k, j) <=> Later(log, k, j),
         read'[b] = read[b], MarkersOf(b)' = MarkersOf(b),
         \A r \in MarkersOf(b) : req'[r] = req[r]
  PROVE  Caught(b, k)'
BY DEF Caught

\* A handler on something else leaves b's marks alone.
LEMMA OthersMark ==
  ASSUME MessagesInv, MessagesInv', NEW r \in Req, Handle(r) \/ Tell(r) \/ Fail(r), NEW b \in User,
         req[r].op # "read" \/ req[r].user # b
  PROVE  /\ MarkersOf(b)' = MarkersOf(b) /\ \A q \in MarkersOf(b) : req'[q] = req[q]
         /\ MarkComes(b)' <=> MarkComes(b)
<1>1. /\ req'[r].op = req[r].op /\ req'[r].user = req[r].user
      /\ pc'[r] \notin {"idle", "start"}
      /\ \A q \in Req \ {r} : pc'[q] = pc[q] /\ req'[q] = req[q]
  BY HandlerKeeps DEF MessagesInv
<1>2. r \notin MarkersOf(b) /\ r \notin MarkersOf(b)'
  BY <1>1 DEF MarkersOf, MessagesInv, StepsOfOp
<1>3. MarkersOf(b)' = MarkersOf(b)
  BY <1>1, <1>2 DEF MarkersOf
<1>4. \A q \in MarkersOf(b) : req'[q] = req[q]
  BY <1>1, <1>2 DEF MarkersOf
<1>5. MarkComes(b)' <=> MarkComes(b)
  BY <1>1 DEF MarkComes
<1>. QED
  BY <1>3, <1>4, <1>5

\* A send goes on until the room is told, unless it fails.
LEMMA SendGoesOn ==
  ASSUME MessagesInv, NEW r \in Req, Handle(r) \/ Fail(r), NEW k \in Key \ shaken', IsSending(k)
  PROVE  IsSending(k)'
<1>1. /\ req'[r].op = req[r].op
      /\ req[r].op # "read" => req'[r].key = req[r].key
      /\ \A q \in Req \ {r} : pc'[q] = pc[q] /\ req'[q] = req[q]
  BY HandlerKeeps DEF MessagesInv
<1>2. PICK q \in Req : pc[q] \in Working /\ req[q].op = "send" /\ req[q].key = k
  BY DEF IsSending
<1>3. CASE q # r
  BY <1>1, <1>2, <1>3 DEF IsSending
<1>4. CASE q = r
  <2>1. ~Fail(r)
    BY <1>2, <1>4 DEF Fail, Subject
  <2>2. pc[r] \in {"create", "tell"}
    BY <1>2, <1>4 DEF MessagesInv, StepsOfOp, Working, Steps
  <2>3. SendCreate(r)
    BY <2>1, <2>2 DEF Handle, SendStart, ChangeStart, EditWrite, DeleteWrite, ReactStart,
       FindReaction, Toggle, Reread, FindLatest, MessageExists, SetLastRead, ClearLastRead
  <2>4. pc'[r] = "tell"
    BY <2>3 DEF SendCreate, Goto, MessagesInv, MessagesTypeOK
  <2>. QED
    BY <1>1, <1>2, <1>4, <2>4 DEF IsSending, Working, Steps
<1>. QED
  BY <1>3, <1>4

\* The log grows by a message that a send is at work on, or not at all.
LEMMA LogGrows ==
  ASSUME MessagesInv, NEW r \in Req, Handle(r) \/ Fail(r)
  PROVE  \/ UNCHANGED log
         \/ \E x \in Key : /\ ~Written(x) /\ log' = Append(log, x) /\ IsSending(x)'
                           /\ req[r].op = "send" /\ x = req[r].key
<1>1. CASE SendCreate(r)
  <2>1. /\ pc[r] = "create" /\ pc'[r] = "tell" /\ req' = req /\ req[r].op = "send" /\ req[r].key \in Key
        /\ log' = log \/ (~Written(req[r].key) /\ log' = Append(log, req[r].key))
    BY <1>1 DEF SendCreate, Goto, MessagesInv, MessagesTypeOK, StepsOfOp
  <2>2. IsSending(req[r].key)'
    BY <2>1 DEF IsSending, Working, Steps
  <2>. QED
    BY <2>1, <2>2
<1>2. CASE ~SendCreate(r)
  BY <1>2 DEF Handle, Fail, SendStart, ChangeStart, ReactStart, FindReaction, Reread, EditWrite,
     DeleteWrite, Toggle, SetLike, SetLastRead, ClearLastRead, FindLatest, MessageExists, tables
<1>. QED
  BY <1>1, <1>2

\* A message becomes visible when it is sent, and never again.
LEMMA NewsIsOld ==
  ASSUME MessagesInv, ServerInv, NEW r \in Req, Handle(r) \/ Fail(r) \/ Tell(r), UNCHANGED log,
         NEW b \in User, NEW k \in Key, IsNews(b, k)'
  PROVE  IsNews(b, k)
<1>1. Written(k)' <=> Written(k)
  BY DEF Written
<1>2. shaken \subseteq shaken'
  BY HandleTells, TellIs
<1>3. row[k].gone => row'[k].gone
  BY <1>1, HandleWrites
<1>. QED
  BY <1>1, <1>2, <1>3 DEF IsNews, Visible

LEMMA NoRepeatsStays ==
  ASSUME log \in Seq(Key), NoRepeats, NEW x \in Key, ~Written(x), log' = Append(log, x)
  PROVE  NoRepeats'
<1>1. /\ Len(log) \in Nat /\ Len(log') = Len(log) + 1 /\ log'[Len(log) + 1] = x
      /\ \A i \in 1..Len(log) : log'[i] = log[i]
  OBVIOUS
<1>2. \A i \in 1..Len(log) : log[i] # x
  BY DEF Written, Contains
<1>3. \A m \in 1..(Len(log) + 1) : m \in 1..Len(log) \/ m = Len(log) + 1
  BY <1>1
<1>. QED
  BY <1>1, <1>2, <1>3 DEF NoRepeats

\* A handler that does not mark b's chat read.
LEMMA OtherHandlerCatches ==
  ASSUME MessagesInv, MessagesInv', ServerInv, UnreadInv, NEW r \in Req, Handle(r) \/ Fail(r),
         UNCHANGED <<page, deaf, inbox>>, NEW b \in User, NEW k \in Key, Attends(b)', IsNews(b, k)',
         req[r].op # "read" \/ req[r].user # b
  PROVE  Caught(b, k)'
<1>1. shaken \subseteq shaken' /\ k \notin shaken' /\ Attends(b)
  BY HandleTells DEF Attends, IsNews
<1>2. read'[b] = read[b]
  BY HandleWrites, <1>1 DEF Subject
<1>3. /\ MarkersOf(b)' = MarkersOf(b) /\ \A q \in MarkersOf(b) : req'[q] = req[q]
      /\ MarkComes(b)' <=> MarkComes(b)
  BY OthersMark
<1>4. Coming(b, k) => Coming(b, k)'
  BY <1>1, <1>3, SendGoesOn DEF Coming, SendComes, Heard
<1>5. CASE UNCHANGED log
  <2>1. Caught(b, k)
    BY <1>1, <1>5, NewsIsOld DEF UnreadInv
  <2>2. \A j : Later(log', k, j) <=> Later(log, k, j)
    BY <1>5
  <2>. QED
    BY <1>2, <1>3, <1>4, <2>1, <2>2, CaughtStays
<1>6. ASSUME NEW x \in Key, ~Written(x), log' = Append(log, x), IsSending(x)'
      PROVE  Caught(b, k)'
  <2>1. CASE k = x
    BY <1>6, <2>1 DEF Caught, Coming
  <2>2. CASE k # x
    <3>1. log \in Seq(Key)
      BY DEF MessagesInv, MessagesTypeOK
    <3>2. \A j : Later(log', k, j) <=> Later(log, k, j)
      BY <1>6, <2>2, <3>1, AppendLater
    <3>3. IsNews(b, k)
      <4>1. Written(k)
        BY <1>6, <2>2, <3>1, AppendWrites DEF IsNews, Visible
      <4>2. row[k].gone => row'[k].gone
        BY <4>1, HandleWrites
      <4>. QED
        BY <1>1, <4>1, <4>2 DEF IsNews, Visible
    <3>4. Caught(b, k)
      BY <1>1, <3>3 DEF UnreadInv
    <3>. QED
      BY <1>2, <1>3, <1>4, <3>2, <3>4, CaughtStays
  <2>. QED
    BY <2>1, <2>2
<1>. QED
  BY <1>5, <1>6, LogGrows

\* b's own mark: it begins with the newest message, and alone.
LEMMA MarkBegins ==
  ASSUME MessagesInv, ServerInv, UnreadInv, NEW r \in Req, FindLatest(r), NEW b \in User,
         req[r].user = b, b \notin shaken', NEW k \in Key, IsNews(b, k)
  PROVE  Caught(b, k)'
<1>0. MessagesTypeOK /\ pc[r] = "start" /\ req[r].op = "read" /\ req[r].key = None /\ UNCHANGED <<log, read>>
  BY DEF FindLatest, MessagesInv, UnreadInv, MarksNameNone, tables
<1>1. PICK j \in Key : Newest(j)
  BY <1>0, SomeNewest DEF IsNews, MessagesTypeOK
<1>2. PICK i \in Key : /\ Newest(i) /\ req' = [req EXCEPT ![r].key = i] /\ Begin(r, "exists")
  BY <1>0, <1>1 DEF FindLatest
<1>3. /\ pc'[r] = "exists" /\ req'[r].key = i /\ req'[r].user = b
      /\ \A q \in Req \ {r} : pc'[q] = pc[q] /\ req'[q] = req[q]
  BY <1>0, <1>2 DEF Begin, Goto, MessagesTypeOK, ReqType
<1>4. \A q \in Req \ {r} : q \notin MarkersOf(b)
  <2>1. ~Clash(r)
    BY <1>0, <1>2 DEF Begin, Subject
  <2>2. ASSUME NEW q \in Req \ {r}, q \in MarkersOf(b) PROVE FALSE
    <3>1. req[q].op = "read" /\ pc[q] \in Working /\ req[q].user = b
      BY <2>2 DEF MarkersOf, MessagesInv, StepsOfOp, Working, Steps
    <3>. QED
      BY <1>0, <2>1, <2>2, <3>1 DEF Clash, Subject
  <2>. QED
    BY <2>2
<1>5. MarkersOf(b)' = {r}
  BY <1>3, <1>4 DEF MarkersOf
<1>6. ~Later(log', k, i)
  BY <1>0, <1>2, NothingAfterNewest DEF UnreadInv, IsNews
<1>7. \A q \in MarkersOf(b)' : ~Later(log', k, req'[q].key)
  BY <1>3, <1>5, <1>6
<1>8. MarkersOf(b)' # {}
  BY <1>5
<1>. QED
  BY <1>7, <1>8 DEF Caught

\* b's own mark goes on: it looks whether the message is there, and moves the pointer.
LEMMA MarkGoesOn ==
  ASSUME MessagesInv, ServerInv, UnreadInv, NEW r \in Req,
         MessageExists(r) \/ SetLastRead(r) \/ ClearLastRead(r),
         NEW b \in User, req[r].user = b, b \notin shaken', NEW k \in Key \ shaken',
         inbox' = inbox, Caught(b, k)
  PROVE  Caught(b, k)'
<1>0. /\ MessagesTypeOK /\ pc[r] \in {"exists", "point", "clear"} /\ UNCHANGED <<log, req>>
      /\ req[r].op = "read" /\ (pc[r] = "clear" => req[r].key = None)
  BY DEF MessageExists, SetLastRead, ClearLastRead, MessagesInv, UnreadInv, MarksNameNone, tables, StepsOfOp
<1>1. \A q \in Req \ {r} : pc'[q] = pc[q]
  BY <1>0, HandlerKeeps DEF Handle
<1>2. pc'[r] # "start"
  BY <1>0, HandlerKeeps DEF Handle
<1>3. Coming(b, k) => Coming(b, k)'
  <2>1. MarkComes(b)' <=> MarkComes(b)
    BY <1>0, <1>1, <1>2 DEF MarkComes
  <2>2. IsSending(k) => IsSending(k)'
    BY SendGoesOn DEF Handle
  <2>. QED
    BY <2>1, <2>2 DEF Coming, SendComes, Heard
<1>4. CASE MessageExists(r)
  <2>1. pc'[r] = "point" /\ read' = read
    BY <1>0, <1>4 DEF MessageExists, Goto, MessagesTypeOK, tables
  <2>2. MarkersOf(b)' = MarkersOf(b)
    BY <1>0, <1>1, <2>1 DEF MarkersOf
  <2>3. \A j : Later(log', k, j) <=> Later(log, k, j)
    BY <1>0
  <2>4. read'[b] = read[b] /\ \A q \in MarkersOf(b) : req'[q] = req[q]
    BY <1>0, <2>1
  <2>. QED
    BY <1>3, <2>2, <2>3, <2>4, CaughtStays
<1>5. CASE SetLastRead(r) \/ ClearLastRead(r)
  <2>1. read'[b] = req[r].key /\ pc'[r] \in {"tell", "answer"}
    BY <1>0, <1>5 DEF SetLastRead, ClearLastRead, Goto, MessagesTypeOK
  <2>2. r \in MarkersOf(b)
    BY <1>0 DEF MarkersOf
  <2>3. MarkersOf(b)' \subseteq MarkersOf(b)
    BY <1>0, <1>1, <2>1 DEF MarkersOf
  <2>4. CASE Coming(b, k)
    BY <1>3, <2>4 DEF Caught
  <2>5. CASE \A q \in MarkersOf(b) : ~Later(log, k, req[q].key)
    <3>1. ~Later(log', k, read'[b])
      BY <1>0, <2>1, <2>2, <2>5
    <3>2. \A q \in MarkersOf(b)' : ~Later(log', k, req'[q].key)
      BY <1>0, <2>3, <2>5
    <3>. QED
      BY <3>1, <3>2 DEF Caught
  <2>. QED
    BY <2>4, <2>5 DEF Caught
<1>. QED
  BY <1>4, <1>5

LEMMA HandleUnread ==
  ASSUME MessagesInv, MessagesInv', ServerInv, UnreadInv, NEW r \in Req, Handle(r) \/ Fail(r),
         UNCHANGED <<page, deaf, room, inbox>>
  PROVE  UnreadInv'
<1>0. MessagesTypeOK /\ shaken \subseteq shaken'
  BY HandleTells DEF MessagesInv
<1>1. NoRepeats'
  <2>1. CASE UNCHANGED log
    BY <2>1 DEF UnreadInv, NoRepeats
  <2>2. ASSUME NEW x \in Key, ~Written(x), log' = Append(log, x) PROVE NoRepeats'
    BY <1>0, <2>2, NoRepeatsStays DEF UnreadInv, MessagesTypeOK
  <2>. QED
    BY <2>1, <2>2, LogGrows
<1>2. MarksNameNone'
  <2>1. /\ \A q \in Req \ {r} : pc'[q] = pc[q] /\ req'[q] = req[q]
        /\ pc'[r] # "start"
    BY <1>0, HandlerKeeps
  <2>2. pc'[r] = "clear" => req'[r].key = None
    <3>1. CASE FindLatest(r)
      BY <1>0, <3>1 DEF FindLatest, Begin, Goto, MessagesTypeOK
    <3>2. CASE ~FindLatest(r)
      BY <1>0, <3>2 DEF Handle, Fail, SendStart, SendCreate, ChangeStart, EditWrite, DeleteWrite, ReactStart,
         FindReaction, Toggle, SetLike, Reread, MessageExists, SetLastRead, ClearLastRead, Begin,
         Goto, MessagesTypeOK
    <3>. QED
      BY <3>1, <3>2
  <2>. QED
    BY <2>1, <2>2 DEF UnreadInv, MarksNameNone
<1>3. AttendersHear'
  BY DEF UnreadInv, AttendersHear
<1>4. ASSUME NEW b \in User, NEW k \in Key, Attends(b)', IsNews(b, k)' PROVE Caught(b, k)'
  <2>1. CASE req[r].op # "read" \/ req[r].user # b
    BY <1>4, <2>1, OtherHandlerCatches
  <2>2. CASE req[r].op = "read" /\ req[r].user = b
    <3>1. b \notin shaken' /\ k \notin shaken' /\ Attends(b)
      BY <1>0, <1>4 DEF Attends, IsNews
    <3>2. FindLatest(r) \/ MessageExists(r) \/ SetLastRead(r) \/ ClearLastRead(r)
      <4>1. ~Fail(r)
        BY <2>2, <3>1 DEF Fail, Subject
      <4>. QED
        BY <2>2, <4>1 DEF Handle, SendStart, SendCreate, ChangeStart, EditWrite, DeleteWrite, ReactStart,
           FindReaction, Toggle, Reread, MessagesInv, StepsOfOp
    <3>3. UNCHANGED log
      BY <3>2 DEF FindLatest, MessageExists, SetLastRead, ClearLastRead, tables
    <3>4. IsNews(b, k) /\ Caught(b, k)
      BY <1>4, <3>1, <3>3, NewsIsOld DEF UnreadInv
    <3>. QED
      BY <2>2, <3>1, <3>2, <3>4, MarkBegins, MarkGoesOn
  <2>. QED
    BY <2>1, <2>2
<1>. QED
  BY <1>1, <1>2, <1>3, <1>4 DEF UnreadInv

\* The room is told: who attends has the event of a send on its way.
LEMMA TellUnread ==
  ASSUME MessagesInv, MessagesInv', ServerInv, PagesInv, UnreadInv, NEW r \in Req, TellRoom(r)
  PROVE  UnreadInv'
<1>0. Tell(r) /\ MessagesTypeOK /\ UNCHANGED <<page, deaf, room>>
  BY DEF TellRoom, MessagesInv
<1>1. /\ UNCHANGED <<log, row, read, req, got, shaken>> /\ pc[r] = "tell" /\ pc'[r] = "answer"
      /\ \A q \in Req \ {r} : pc'[q] = pc[q]
  BY <1>0, TellIs, HandlerKeeps
<1>2. NoRepeats' /\ AttendersHear'
  BY <1>0, <1>1 DEF UnreadInv, NoRepeats, AttendersHear
<1>3. MarksNameNone'
  BY <1>1 DEF UnreadInv, MarksNameNone
<1>4. ASSUME NEW b \in User, NEW k \in Key, Attends(b)', IsNews(b, k)' PROVE Caught(b, k)'
  <2>1. Attends(b) /\ IsNews(b, k) /\ Caught(b, k) /\ b \in room
    BY <1>0, <1>1, <1>4 DEF Attends, IsNews, Visible, Written, UnreadInv, AttendersHear
  <2>2. MarkersOf(b)' = MarkersOf(b) /\ (MarkComes(b)' <=> MarkComes(b))
    BY <1>1 DEF MarkersOf, MarkComes
  <2>3. PICK q \in Seq(EventType) : q = inbox[b]
    BY DEF PagesInv, PagesTypeOK
  <2>4. Event(r) \in EventType /\ inbox'[b] = Append(q, Event(r))
    BY <2>1, <2>3, TellReaches
  <2>5. CASE Subject(r) # k
    <3>1. IsSending(k)' <=> IsSending(k)
      BY <1>0, <2>5, StepLeavesOthers
    <3>2. EventsIn(Append(q, Event(r)), k) = EventsIn(q, k)
      BY <2>4, <2>5, AppendEvents DEF Event
    <3>3. SendComes(b, k)' <=> SendComes(b, k)
      BY <2>3, <2>4, <3>2 DEF SendComes, Heard
    <3>4. Coming(b, k) => Coming(b, k)'
      BY <2>2, <3>1, <3>3 DEF Coming
    <3>5. \A j : Later(log', k, j) <=> Later(log, k, j)
      BY <1>1
    <3>. QED
      BY <1>1, <2>1, <2>2, <3>4, <3>5, CaughtStays
  <2>6. CASE Subject(r) = k
    <3>0. PICK e \in EventType : e = Event(r)
      BY <2>4
    <3>1. EventsIn(Append(q, e), k) = EventsIn(q, k) \cup {e}
      BY <2>6, <3>0, ComesIn DEF Event
    <3>2. SendComes(b, k) => SendComes(b, k)'
      BY <2>3, <2>4, <3>0, <3>1 DEF SendComes, Heard
    <3>3. IsSending(k) => SendComes(b, k)'
      <4>1. IsSending(k) => req[r].op = "send"
        BY <1>1, <2>1, <2>6, SendersAlone DEF IsSending, IsNews, Working, Steps
      <4>2. req[r].op = "send" => Event(r).op = "send"
        BY DEF Event
      <4>. QED
        BY <2>3, <2>4, <3>0, <3>1, <4>1, <4>2 DEF SendComes, Heard
    <3>4. Coming(b, k) => Coming(b, k)'
      BY <2>2, <3>2, <3>3 DEF Coming
    <3>5. \A j : Later(log', k, j) <=> Later(log, k, j)
      BY <1>1
    <3>. QED
      BY <1>1, <2>1, <2>2, <3>4, <3>5, CaughtStays
  <2>. QED
    BY <2>5, <2>6
<1>. QED
  BY <1>2, <1>3, <1>4 DEF UnreadInv

\* Requests that come and go, where no event is lost but the one that marks the chat read.
LEMMA QuietUnread ==
  ASSUME MessagesInv, UnreadInv, AttendersHear',
         \/ UNCHANGED messageVars
         \/ \E r \in Req : Answer(r)
         \/ \E r \in Req : \E q : Ask(r, q) /\ (q.op = "read" => q.key = None),
         \A b \in User, k \in Key : Attends(b)' /\ IsNews(b, k) =>
           MarkComes(b)' \/ (Attends(b) /\ (SendComes(b, k) => SendComes(b, k)'))
  PROVE  UnreadInv'
<1>0. MessagesTypeOK
  BY DEF MessagesInv
<1>1. /\ UNCHANGED <<log, row, read, shaken>> /\ \A k \in Key : IsSending(k)' <=> IsSending(k)
  <2>1. CASE UNCHANGED messageVars
    BY <2>1 DEF messageVars, IsSending
  <2>. QED
    BY <1>0, <2>1, EndsLeave
<1> DEFINE MarksStay(b) == /\ MarkersOf(b)' = MarkersOf(b) /\ (MarkComes(b) => MarkComes(b)')
                           /\ \A q \in MarkersOf(b) : req'[q] = req[q]
<1>2. MarksNameNone' /\ \A b \in User : MarksStay(b)
  <2>1. CASE UNCHANGED messageVars
    BY <2>1 DEF messageVars, UnreadInv, MarksNameNone, MarkersOf, MarkComes
  <2>2. ASSUME NEW r \in Req, Answer(r) \/ \E q : Ask(r, q) /\ (q.op = "read" => q.key = None)
        PROVE  MarksNameNone' /\ \A b \in User : MarksStay(b)
    <3>1. /\ pc[r] \in {"idle", "answer", "refused"}
          /\ \A q \in Req \ {r} : pc'[q] = pc[q] /\ req'[q] = req[q]
          /\ pc'[r] = "idle" \/ (pc'[r] = "start" /\ (req'[r].op = "read" => req'[r].key = None))
      BY <1>0, <2>2, AnswerFrees, AskStarts
    <3>2. MarksNameNone'
      BY <3>1 DEF UnreadInv, MarksNameNone
    <3>3. ASSUME NEW b \in User PROVE MarksStay(b)
      <4>1. r \notin MarkersOf(b) /\ r \notin MarkersOf(b)'
        BY <3>1 DEF MarkersOf
      <4>2. MarkersOf(b)' = MarkersOf(b)
        BY <3>1, <4>1 DEF MarkersOf
      <4>3. \A q \in MarkersOf(b) : req'[q] = req[q]
        BY <3>1, <4>1 DEF MarkersOf
      <4>. QED
        BY <3>1, <4>2, <4>3 DEF MarkComes
    <3>. QED
      BY <3>2, <3>3
  <2>. QED
    BY <2>1, <2>2
<1>3. NoRepeats'
  BY <1>1 DEF UnreadInv, NoRepeats
<1>4. ASSUME NEW b \in User, NEW k \in Key, Attends(b)', IsNews(b, k)' PROVE Caught(b, k)'
  <2>1. IsNews(b, k)
    BY <1>1, <1>4 DEF IsNews, Visible, Written
  <2>2. CASE MarkComes(b)'
    BY <2>2 DEF Caught, Coming
  <2>3. CASE Attends(b) /\ (SendComes(b, k) => SendComes(b, k)')
    <3>1. Caught(b, k)
      BY <2>1, <2>3 DEF UnreadInv
    <3>2. Coming(b, k) => Coming(b, k)'
      BY <1>1, <1>2, <2>3 DEF Coming
    <3>3. \A j : Later(log', k, j) <=> Later(log, k, j)
      BY <1>1
    <3>4. /\ read'[b] = read[b] /\ MarkersOf(b)' = MarkersOf(b)
          /\ \A q \in MarkersOf(b) : req'[q] = req[q]
      BY <1>1, <1>2
    <3>. QED
      BY <3>1, <3>2, <3>3, <3>4, CaughtStays
  <2>. QED
    BY <1>4, <2>1, <2>2, <2>3
<1>. QED
  BY <1>2, <1>3, <1>4 DEF UnreadInv

\* The event of somebody else's message makes the page mark the chat read.
LEMMA TakeUnread ==
  ASSUME MessagesInv, PagesInv, UnreadInv, NEW b \in User, NEW r \in Req, Take(b, r)
  PROVE  UnreadInv'
<1> DEFINE h == Head(inbox[b])
           mark == Request("read", b, None, None)
<1>1. /\ UNCHANGED <<page, deaf, room>> /\ inbox[b] # <<>>
      /\ IF h.op = "send" /\ Author[h.of] # b THEN Ask(r, mark) ELSE UNCHANGED messageVars
  BY DEF Take
<1>2. /\ inbox[b] \in Seq(EventType) /\ inbox'[b] = Tail(inbox[b])
      /\ \A c \in User \ {b} : inbox'[c] = inbox[c]
  BY TakeIs
<1>3. mark.op = "read" /\ mark.key = None /\ mark.user = b
  BY DEF Request
<1>. HIDE DEF mark
<1>4. Ask(r, mark) => MarkComes(b)'
  BY <1>3, AskStarts DEF MarkComes, MessagesInv
<1>5. AttendersHear' /\ UNCHANGED shaken
  BY <1>1, EndsLeave DEF UnreadInv, AttendersHear, MessagesInv, messageVars
<1>6. ASSUME NEW c \in User, NEW k \in Key, Attends(c)', IsNews(c, k)
      PROVE  MarkComes(c)' \/ (Attends(c) /\ (SendComes(c, k) => SendComes(c, k)'))
  <2>1. Attends(c)
    BY <1>1, <1>5, <1>6 DEF Attends
  <2>2. CASE c # b
    BY <1>2, <2>1, <2>2 DEF SendComes, Heard
  <2>3. CASE c = b /\ ~Ask(r, mark)
    <3>1. PICK q \in Seq(EventType) : q = inbox[b]
      BY <1>2
    <3>2. h = Head(q) /\ q # <<>> /\ ~(h.op = "send" /\ h.of = k)
      BY <1>1, <1>6, <2>3, <3>1 DEF IsNews
    <3>3. EventsIn(Tail(q), k) = EventsIn(q, k) \/ (h.of = k /\ EventsIn(q, k) = EventsIn(Tail(q), k) \cup {h})
      BY <3>2, TailEvents
    <3>4. SendComes(b, k) => SendComes(b, k)'
      BY <1>2, <3>1, <3>2, <3>3 DEF SendComes, Heard
    <3>. QED
      BY <2>1, <2>3, <3>4
  <2>. QED
    BY <1>4, <2>2, <2>3
<1>. QED
  BY <1>1, <1>3, <1>5, <1>6, QuietUnread

LEMMA NextUnread ==
  MessagesInv /\ MessagesInv' /\ ServerInv /\ PagesInv /\ UnreadInv /\ [ThreadsNext]_vars => UnreadInv'
<1>. SUFFICES ASSUME MessagesInv, MessagesInv', ServerInv, PagesInv, UnreadInv, [ThreadsNext]_vars
              PROVE  UnreadInv'
  OBVIOUS
\* Pages, connections and events as they were.
<1>a. ASSUME UNCHANGED <<page, deaf, inbox>>, room \subseteq room',
             \/ UNCHANGED messageVars
             \/ \E r \in Req : Answer(r)
             \/ \E r \in Req : \E q : Ask(r, q) /\ (q.op = "read" => q.key = None)
      PROVE  UnreadInv'
  <2>1. UNCHANGED shaken
    BY <1>a, EndsLeave DEF MessagesInv, messageVars
  <2>2. AttendersHear'
    BY <1>a DEF UnreadInv, AttendersHear
  <2>3. \A b \in User, k \in Key : Attends(b)' /\ IsNews(b, k) =>
          Attends(b) /\ (SendComes(b, k) => SendComes(b, k)')
    BY <1>a, <2>1 DEF Attends, SendComes, Heard
  <2>. QED
    BY <1>a, <2>2, <2>3, QuietUnread
<1>1. CASE UNCHANGED vars
  BY <1>1, <1>a DEF vars, pageVars, netVars
<1>2. ASSUME NEW r \in Req, Serve(r) PROVE UnreadInv'
  <2>1. CASE /\ Handle(r) \/ Fail(r)
             /\ UNCHANGED <<pageVars, sendVars, netVars, waiting, presses, visits, drops>>
    BY <2>1, HandleUnread DEF pageVars, netVars
  <2>2. CASE GiveUp(r)
    BY <2>2, <1>a DEF GiveUp, pageVars, netVars
  <2>3. CASE Respond(r)
    BY <2>3, <1>a DEF Respond, netVars
  <2>. QED
    BY <1>2, <2>1, <2>2, <2>3, TellUnread DEF Serve
<1>3. ASSUME NEW b \in User, Browse(b) PROVE UnreadInv'
  <2>0. PagesTypeOK
    BY DEF PagesInv
  <2>1. CASE \E part \in {"chat", "list"} : ReadPart(b, part)
    BY <2>1, <1>a DEF ReadPart, netVars
  <2>2. CASE Loaded(b) \/ LeaveChat(b) \/ Ignore(b) \/ Disconnect(b)
    <3>1. /\ UNCHANGED messageVars
          /\ \A c \in User \ {b} : /\ page'[c] = page[c] /\ inbox'[c] = inbox[c]
                                   /\ (c \in deaf' <=> c \in deaf) /\ (c \in room' <=> c \in room)
      BY <2>0, <2>2 DEF Loaded, LeaveChat, Ignore, Disconnect, netVars, pageVars, PagesTypeOK
    <3>2. page'[b] # "away" /\ b \notin deaf' =>
            /\ page[b] # "away" /\ b \notin deaf /\ inbox'[b] = inbox[b] /\ (b \in room => b \in room')
      <4>1. CASE Loaded(b)
        <5>1. page[b] = "loading"
          BY <4>1 DEF Loaded, PagesInv, OnlyLoadingReads
        <5>. QED
          BY <4>1, <5>1 DEF Loaded, netVars
      <4>2. CASE LeaveChat(b)
        BY <2>0, <4>2 DEF LeaveChat, PagesTypeOK
      <4>3. CASE Ignore(b)
        BY <2>0, <4>3 DEF Ignore, pageVars, Present, PagesTypeOK
      <4>4. CASE Disconnect(b)
        BY <2>0, <4>4 DEF Disconnect, Present, PagesTypeOK
      <4>. QED
        BY <2>2, <4>1, <4>2, <4>3, <4>4
    <3>3. AttendersHear'
      BY <3>1, <3>2 DEF UnreadInv, AttendersHear
    <3>4. \A c \in User, k \in Key : Attends(c)' /\ IsNews(c, k) =>
            Attends(c) /\ (SendComes(c, k) => SendComes(c, k)')
      BY <3>1, <3>2 DEF Attends, SendComes, Heard, messageVars
    <3>. QED
      BY <3>1, <3>3, <3>4, QuietUnread
  <2>3. CASE Reconnect(b)
    BY <2>3, <1>a DEF Reconnect, pageVars
  <2>4. ASSUME NEW r \in Req, OpenChat(b, r) PROVE UnreadInv'
    <3>1. /\ Ask(r, Request("read", b, None, None)) /\ UNCHANGED <<room, inbox>>
          /\ deaf' = IF b \in room THEN deaf ELSE deaf \cup {b}
          /\ \A c \in User \ {b} : page'[c] = page[c]
      BY <2>0, <2>4 DEF OpenChat, netVars, PagesTypeOK
    <3>2. MarkComes(b)' /\ UNCHANGED shaken
      BY <3>1, AskStarts DEF MarkComes, MessagesInv, Request
    <3>3. AttendersHear'
      BY <3>1 DEF UnreadInv, AttendersHear
    <3>4. \A c \in User \ {b} : Attends(c)' <=> Attends(c)
      BY <3>1, <3>2 DEF Attends
    <3>5. \A c \in User, k \in Key : Attends(c)' /\ IsNews(c, k) =>
            MarkComes(c)' \/ (Attends(c) /\ (SendComes(c, k) => SendComes(c, k)'))
      BY <3>1, <3>2, <3>4 DEF SendComes, Heard
    <3>. QED
      BY <3>1, <3>3, <3>5, QuietUnread DEF Request
  <2>5. ASSUME NEW r \in Req, NEW q, Press(b, r, q), q.op # "read" PROVE UnreadInv'
    BY <2>5, <1>a DEF Press, pageVars, netVars
  <2>6. ASSUME NEW r \in Req, NEW t \in Text, Send(b, r, t) PROVE UnreadInv'
    <3>1. PICK k : Press(b, r, Request("send", b, k, t))
      BY <2>6 DEF Send
    <3>. QED
      BY <3>1, <2>5 DEF Request
  <2>7. ASSUME NEW r \in Req, NEW k \in Key, NEW t \in Text, Edit(b, r, k, t) PROVE UnreadInv'
    BY <2>7, <2>5 DEF Edit, Request
  <2>8. ASSUME NEW r \in Req, NEW k \in Key, Delete(b, r, k) \/ React(b, r, k) PROVE UnreadInv'
    BY <2>8, <2>5 DEF Delete, React, Request
  <2>. QED
    BY <1>3, <2>1, <2>2, <2>3, <2>4, <2>6, <2>7, <2>8, TakeUnread DEF Browse
<1>. QED
  BY <1>1, <1>2, <1>3 DEF ThreadsNext

\* An open page leaves nothing unread once its marks are done (markChatRead, and ChatPage's
\* effects that call it), for any number of people, messages, visits and broken connections.
THEOREM UnreadSettle == ThreadsSpec => []UnreadSettles
<1>1. ThreadsSpec => [](MessagesInv /\ ServerInv)
  BY ServerIsMessages, MessagesInvariant, ServerInvariant, PTL
<1>2. MessagesInv => MessagesTypeOK
  BY DEF MessagesInv
<1>. QED
  BY <1>1, <1>2, SendsInitially, NextSends, PagesInitially, NextPages, UnreadInitially, NextUnread,
     UnreadIsSettled, PTL DEF ThreadsSpec
=============================================================================
