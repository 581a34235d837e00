------------------------- MODULE ChatCountersProofs -------------------------
(***************************************************************************)
(* The counters of a channel and of a user, and DeletedIsGone, for any     *)
(* users, messages and requests.                                           *)
(*                                                                         *)
(* UnreadIsExact needs only that a message is added to the counters once,  *)
(* and after it was inserted (AddedOnce), and that a request saves the     *)
(* number of what it has counted (CountedIsSaved).  DeletedIsGone is       *)
(* carried by what an edit under way knows of the deletions of its message *)
(* (EditIsAlone) and a deletion of what it has written (DeletionIsSaved).  *)
(*                                                                         *)
(* CountIsExact is carried by what each listener has loaded: it never      *)
(* exceeds what is counted already (CountFits), and is the count itself    *)
(* until two of them meet (CountIsKnown).  UsageIsExact needs the same of  *)
(* a user (UsageIsKnown), and that no message is deleted twice             *)
(* (RequestInv).                                                           *)
(***************************************************************************)
EXTENDS ChatCounters, FiniteSetTheorems, SequenceTheorems, TLAPS

-----------------------------------------------------------------------------
(* What is under way *)

\* What is under way is about a message of the log; a notice has no listeners.
SentFirst ==
  /\ \A m \in Message : IsSent(m) <=> msg[m] # "new"
  /\ \A m \in Message : msg[m] \in {"inserted", "emitted"} => owner[m] # None
  /\ \A m \in Message : unread[m] # "idle" \/ use[m].pc # "idle" => msg[m] = "emitted"
  /\ \A r \in Request : req[r].pc \notin {"new", "failed"} => IsSent(req[r].of)

AddedOnce ==
  \A m \in added : IsSent(m) /\ unread[m] \notin {"idle", "inc"}

CountedIsSaved ==
  \A r \in Request :
    req[r].pc \in {"insert", "update"} => req[r].n = Cardinality(req[r].counted)

\* The requests that write a message, and what they have found.
WritersOnly ==
  \A r \in Request : req[r].pc \in {"message", "history"} =>
    /\ req[r].kind # "see"
    /\ req[r].found => req[r].kind = "delete"

\* An edit that has still to save the message, and no deletion, or an overlap.
EditIsAlone ==
  \A r \in Request :
    req[r].kind = "edit" /\ req[r].pc = "message" /\ req[r].of \notin overlap =>
      /\ \A i \in 1..Len(edits[req[r].of]) : ~edits[req[r].of][i]
      /\ \A q \in Request : req[q].of = req[r].of /\ req[q].pc \in {"message", "history"}
           => req[q].kind # "delete"

DeletionIsSaved ==
  \A r \in Request :
    req[r].kind = "delete" /\ req[r].pc = "history" /\ req[r].of \notin overlap =>
      req[r].of \in gone

-----------------------------------------------------------------------------
(* Positions in the log *)

LEMMA PositionOfSent ==
  ASSUME NEW m \in Message, IsSent(m)
  PROVE  Position(m) \in 1..Len(log) /\ log[Position(m)] = m
  BY DEF IsSent, Position

LEMMA AfterIsFinite ==
  ASSUME log \in Seq(Message), NEW i \in Nat
  PROVE  IsFiniteSet(After(i)) /\ After(i) \subseteq Message /\ Cardinality(After(i)) \in Nat
<1> DEFINE D == (i + 1)..Len(log)
           f == [j \in D |-> log[j]]
<1>1. IsFiniteSet(D)
  BY FS_Interval
<1>2. After(i) = {f[j] : j \in D}
  BY DEF After
<1>3. f \in Surjection(D, After(i))
  BY <1>2 DEF Surjection
<1>4. IsFiniteSet(After(i))
  BY <1>1, <1>3, FS_Surjection
<1> QED
  BY <1>4, FS_CardinalityType DEF After


-----------------------------------------------------------------------------
(* Types *)

Pc == {"idle", "find", "insert", "update", "over", "failed"}

LEMMA TaskMoves ==
  ASSUME NEW t \in Task, NEW p \in Pc
  PROVE  [t EXCEPT !.pc = p] \in Task
  BY DEF Task, Pc

LEMMA TaskSame ==
  ASSUME NEW t \in Task
  PROVE  [t EXCEPT !.pc = t.pc] \in Task
  BY DEF Task

LEMMA ReqMoves ==
  ASSUME NEW q \in ReqType,
         NEW p \in {"count", "insert", "update", "message", "history", "done", "failed"}
  PROVE  [q EXCEPT !.pc = p] \in ReqType
  BY DEF ReqType

LEMMA LoadedIsTask ==
  ASSUME NEW s \in Seq(Nat)
  PROVE  Loaded(s) \in Task /\ (Loaded(s).pc = "update" => s # <<>>)
  BY DEF Loaded, Task

LEMMA SavedIsTyped ==
  ASSUME NEW s \in Seq(Nat), NEW t \in Task, NEW n \in Nat
  PROVE  /\ Saved(s, t, n) \in Seq(Nat)
         /\ t.pc = "insert" \/ s # <<>> => Saved(s, t, n) # <<>>
<1>1. CASE t.pc = "insert"
  <2>1. Append(s, n) \in Seq(Nat) /\ Len(Append(s, n)) = Len(s) + 1 /\ Len(s) \in Nat
    OBVIOUS
  <2>2. Append(s, n) # <<>>
    BY <2>1, EmptySeq
  <2> QED
    BY <1>1, <2>1, <2>2 DEF Saved
<1>2. CASE t.pc # "insert"
  <2> DEFINE e == [s EXCEPT ![1] = n]
  <2>1. Len(s) \in Nat /\ s \in [1..Len(s) -> Nat]
    BY LenProperties
  <2>2. e \in [1..Len(s) -> Nat]
    BY <2>1
  <2>3. e \in Seq(Nat) /\ (s # <<>> => e # <<>>)
    <3>1. e \in Seq(Nat) /\ DOMAIN e = 1..Len(s)
      BY <2>1, <2>2, SeqDef
    <3>2. ASSUME s # <<>> PROVE e # <<>>
      BY <2>1, <3>1, <3>2, EmptySeq, LenProperties
    <3> QED
      BY <3>1, <3>2
  <2> QED
    BY <1>2, <2>3 DEF Saved
<1> QED
  BY <1>1, <1>2

RowTyped(w) ==
  w \in [unread : Nat, last : 0..Len(log)] /\ (w.last = 0 => w = NoRow)

RowsTyped(f) == f = [u \in User |-> f[u]] /\ \A u \in User : RowTyped(f[u])

LEMMA RowGrows ==
  ASSUME NEW w, RowTyped(w), w # NoRow
  PROVE  RowTyped([w EXCEPT !.unread = @ + 1])
  BY DEF RowTyped

LEMMA MarkedIsTyped ==
  ASSUME NEW s \in Seq(BOOLEAN)
  PROVE  [s EXCEPT ![1] = TRUE] \in Seq(BOOLEAN)
<1>1. Len(s) \in Nat /\ s \in [1..Len(s) -> BOOLEAN]
  BY LenProperties
<1>2. [s EXCEPT ![1] = TRUE] \in [1..Len(s) -> BOOLEAN]
  BY <1>1
<1> QED
  BY <1>1, <1>2, SeqDef

LEMMA OfIsUser ==
  ASSUME TypeOK, SentFirst, NEW x \in Message \cup Request, use[x].pc # "idle"
  PROVE  Of(x) \in User
<1>1. CASE x \in Message
  BY <1>1 DEF TypeOK, SentFirst, Of
<1>2. CASE x \notin Message
  <2>1. req[x] \in ReqType
    BY <1>2 DEF TypeOK
  <2> QED
    BY <1>2, <2>1 DEF Of, ReqType
<1> QED
  BY <1>1, <1>2

LEMMA TypeStep == TypeOK /\ SentFirst /\ [Next]_vars => TypeOK'
<1> SUFFICES ASSUME TypeOK, SentFirst, [Next]_vars PROVE TypeOK'
  OBVIOUS
<1> USE NoneAssumption, DisjointAssumption, BoundAssumption DEF TypeOK, tables, history
<1>1. ASSUME NEW m \in Message, Insert(m) PROVE TypeOK'
  <2>1. /\ log' \in Seq(Message) /\ Len(log') = Len(log) + 1
        /\ log'[Len(log) + 1] = m
        /\ \A i \in 1..Len(log) : log'[i] = log[i] /\ log'[i] # m
    BY <1>1 DEF Insert, SentFirst, IsSent
  <2>2. msg' \in [Message -> {"new", "inserted", "emitted", "failed"}]
    BY <1>1 DEF Insert
  <2>3. \A i, j \in 1..Len(log') : i # j => log'[i] # log'[j]
    <3>1. Len(log) \in Nat /\ \A i, j \in 1..Len(log) : i # j => log[i] # log[j]
      OBVIOUS
    <3> HIDE DEF TypeOK
    <3>2. \A i \in 1..Len(log') : i \in 1..Len(log) \/ i = Len(log) + 1
      BY <2>1, <3>1
    <3> QED
      BY <2>1, <3>1, <3>2
  <2>4. row' \in [User -> [unread : Nat, last : 0..Len(log')]]
    <3>1. row' = row /\ row \in [User -> [unread : Nat, last : 0..Len(log)]]
      BY <1>1 DEF Insert
    <3>2. \A i \in 0..Len(log) : i \in 0..Len(log')
      BY <2>1
    <3> HIDE DEF TypeOK
    <3> QED
      BY <3>1, <3>2
  <2>5. gone' \subseteq ToSet(log')
    <3>1. DOMAIN log = 1..Len(log) /\ DOMAIN log' = 1..Len(log') /\ Len(log) \in Nat
      BY <2>1, LenProperties
    <3>2. ToSet(log) \subseteq ToSet(log')
      BY <2>1, <3>1 DEF ToSet
    <3> QED
      BY <1>1, <3>2 DEF Insert
  <2> QED
    BY <1>1, <2>1, <2>2, <2>3, <2>4, <2>5 DEF Insert
<1>2. ASSUME NEW m \in Message, Emit(m) PROVE TypeOK'
  <2>1. count[m] \in Task /\ use[m] \in Task
    OBVIOUS
  <2>2. [count[m] EXCEPT !.pc = "find"] \in Task /\ [use[m] EXCEPT !.pc = "find"] \in Task
    BY <2>1, TaskMoves DEF Pc
  <2>3. count' \in [Message -> Task]
    <3> DEFINE c == IF "count" \in on THEN [count[m] EXCEPT !.pc = "find"]
                    ELSE [count[m] EXCEPT !.pc = count[m].pc]
    <3>1. c \in Task
      BY <2>1, <2>2, TaskSame
    <3>2. count' = [count EXCEPT ![m] = c]
      BY <1>2 DEF Emit
    <3> QED
      BY <3>1, <3>2
  <2>4. use' \in [Message \cup Request -> Task]
    <3> DEFINE c == IF "usage" \in on THEN [use[m] EXCEPT !.pc = "find"]
                    ELSE [use[m] EXCEPT !.pc = use[m].pc]
    <3>1. c \in Task
      BY <2>1, <2>2, TaskSame
    <3>2. use' = [use EXCEPT ![m] = c]
      BY <1>2 DEF Emit
    <3> QED
      BY <3>1, <3>2
  <2>5. \A k \in Message : count'[k].pc = "update" => status' # <<>>
    BY <1>2 DEF Emit
  <2>6. /\ msg' \in [Message -> {"new", "inserted", "emitted", "failed"}]
        /\ unread' \in [Message -> {"idle", "inc", "find", "insert", "update", "over",
                                    "failed"}]
    BY <1>2 DEF Emit
  <2> QED
    BY <1>2, <2>3, <2>4, <2>5, <2>6 DEF Emit
<1>3. ASSUME NEW m \in Message, SendFails(m) PROVE TypeOK'
  BY <1>3 DEF SendFails
<1>4. ASSUME NEW m \in Message, IncreaUnread(m) PROVE TypeOK'
  <2>1. RowsTyped(row')
    <3>1. RowsTyped(row)
      BY DEF RowsTyped, RowTyped
    <3> HIDE DEF TypeOK
    <3>2. \A u \in User : RowTyped(IF HasRow(u) THEN [row[u] EXCEPT !.unread = row[u].unread + 1]
                                  ELSE row[u])
      <4>1. SUFFICES ASSUME NEW u \in User
                    
                     PROVE   RowTyped(IF HasRow(u) THEN [row[u] EXCEPT !.unread = row[u].unread + 1]
                                     ELSE row[u])
        OBVIOUS
      <4>2. RowTyped(row[u])
        BY <3>1 DEF RowsTyped
      <4>3. CASE HasRow(u)
        <5>1. RowTyped([row[u] EXCEPT !.unread = row[u].unread + 1])
          BY <4>2, <4>3, RowGrows DEF HasRow
        <5> QED
          BY <4>3, <5>1
      <4> QED
        BY <4>2, <4>3
    <3>3. row' = [u \in User |-> IF HasRow(u) THEN [row[u] EXCEPT !.unread = row[u].unread + 1]
                                ELSE row[u]]
      BY <1>4 DEF IncreaUnread
    <3> HIDE DEF HasRow
    <3> QED
      BY <3>2, <3>3 DEF RowsTyped
  <2>2. unread' \in [Message -> {"idle", "inc", "find", "insert", "update", "over", "failed"}]
    BY <1>4 DEF IncreaUnread
  <2>3. added' \in SUBSET Message /\ drift' \in SUBSET User
    BY <1>4 DEF IncreaUnread
  <2> QED
    BY <1>4, <2>1, <2>2, <2>3 DEF IncreaUnread, RowsTyped, RowTyped
<1>5. ASSUME NEW m \in Message, FindOwn(m) PROVE TypeOK'
  BY <1>5 DEF FindOwn
<1>6. ASSUME NEW m \in Message, SaveOwn(m) PROVE TypeOK'
  <2>1. owner[m] \in User /\ Position(m) \in 1..Len(log)
    <3>1. msg[m] = "emitted"
      BY <1>6 DEF SaveOwn, SentFirst
    <3>2. IsSent(m) /\ owner[m] \in User
      BY <3>1 DEF SentFirst
    <3> QED
      BY <3>2, PositionOfSent
  <2>2. RowsTyped(row')
    <3>1. RowsTyped(row)
      BY DEF RowsTyped, RowTyped
    <3>2. RowTyped([unread |-> 0, last |-> Position(m)])
      BY <2>1 DEF RowTyped
    <3> HIDE DEF TypeOK
    <3> QED
      BY <1>6, <2>1, <3>1, <3>2 DEF SaveOwn, RowsTyped
  <2>3. unread' \in [Message -> {"idle", "inc", "find", "insert", "update", "over", "failed"}]
    BY <1>6 DEF SaveOwn
  <2>4. drift' \in SUBSET User
    BY <1>6, <2>1 DEF SaveOwn, Recounted
  <2> QED
    BY <1>6, <2>2, <2>3, <2>4 DEF SaveOwn, RowsTyped, RowTyped
<1>7. ASSUME NEW m \in Message, FindStatus(m) PROVE TypeOK'
  <2>1. Loaded(status) \in Task /\ (Loaded(status).pc = "update" => status # <<>>)
    BY LoadedIsTask
  <2>2. count' \in [Message -> Task] /\ metCount' \in BOOLEAN
    BY <1>7, <2>1 DEF FindStatus
  <2>3. \A k \in Message : count'[k].pc = "update" => status' # <<>>
    BY <1>7, <2>1 DEF FindStatus
  <2> QED
    BY <1>7, <2>2, <2>3 DEF FindStatus
<1>8. ASSUME NEW m \in Message, SaveStatus(m) PROVE TypeOK'
  <2>1. count[m] \in Task /\ count[m].pc \in {"insert", "update"}
    BY <1>8 DEF SaveStatus
  <2>2. CountedOnce(count[m]) \in Nat
    BY <2>1 DEF CountedOnce, Task
  <2>3. status' \in Seq(Nat) /\ status' # <<>>
    BY <1>8, <2>1, <2>2, SavedIsTyped DEF SaveStatus
  <2>4. [count[m] EXCEPT !.pc = "over"] \in Task
    BY <2>1, TaskMoves DEF Pc
  <2>5. count' \in [Message -> Task]
    BY <1>8, <2>4 DEF SaveStatus
  <2> QED
    BY <1>8, <2>3, <2>5 DEF SaveStatus
<1>9. ASSUME NEW x \in Message \cup Request, FindUsage(x) PROVE TypeOK'
  <2>1. Of(x) \in User
    BY <1>9, OfIsUser DEF FindUsage
  <2>2. Loaded(usage[Of(x)]) \in Task
    BY <2>1, LoadedIsTask
  <2>3. use' \in [Message \cup Request -> Task] /\ metUse' \in SUBSET User
    BY <1>9, <2>1, <2>2 DEF FindUsage
  <2> QED
    BY <1>9, <2>3 DEF FindUsage
<1>10. ASSUME NEW x \in Message \cup Request, SaveUsage(x) PROVE TypeOK'
  <2>1. Of(x) \in User /\ use[x] \in Task
    BY <1>10, OfIsUser DEF SaveUsage
  <2>2. Used(x, use[x].n) \in Nat
    BY <2>1 DEF Used, Task
  <2>3. Saved(usage[Of(x)], use[x], Used(x, use[x].n)) \in Seq(Nat)
    BY <2>1, <2>2, SavedIsTyped
  <2>4. usage' \in [User -> Seq(Nat)]
    BY <1>10, <2>1, <2>3 DEF SaveUsage
  <2>5. [use[x] EXCEPT !.pc = "over"] \in Task
    BY <2>1, TaskMoves DEF Pc
  <2>6. use' \in [Message \cup Request -> Task] /\ metUse' \in SUBSET User
    BY <1>10, <2>1, <2>5 DEF SaveUsage
  <2> QED
    BY <1>10, <2>4, <2>6 DEF SaveUsage
<1>11. ASSUME NEW r \in Request, FindSeen(r) PROVE TypeOK'
  <2>1. req[r] \in ReqType /\ req \in [Request -> ReqType]
    OBVIOUS
  <2>0. HasRow(req[r].by) \in BOOLEAN
    BY DEF HasRow
  <2>2. req'[r] \in ReqType
    <3> HIDE DEF TypeOK
    <3> QED
      BY <1>11, <2>1, <2>0 DEF FindSeen, ReqType
  <2>3. req' \in [Request -> ReqType]
    BY <1>11, <2>1, <2>2 DEF FindSeen
  <2> QED
    BY <1>11, <2>3 DEF FindSeen
<1>12. ASSUME NEW r \in Request, CountUnread(r) PROVE TypeOK'
  <2>1. req[r] \in ReqType /\ req \in [Request -> ReqType]
    OBVIOUS
  <2>4. Position(req[r].of) \in 1..Len(log)
    BY <1>12, <2>1, PositionOfSent DEF CountUnread, SentFirst, ReqType
  <2>5. /\ After(Position(req[r].of)) \in SUBSET Message
        /\ ChatUnread(Position(req[r].of)) \in Nat
    BY <2>4, AfterIsFinite DEF ChatUnread
  <2>2. req'[r] \in ReqType
    <3> HIDE DEF TypeOK
    <3> QED
      BY <1>12, <2>1, <2>5 DEF CountUnread, ReqType
  <2>3. req' \in [Request -> ReqType]
    BY <1>12, <2>1, <2>2 DEF CountUnread
  <2> QED
    BY <1>12, <2>3 DEF CountUnread
<1>13. ASSUME NEW r \in Request, SaveSeen(r) PROVE TypeOK'
  <2>1. req[r] \in ReqType /\ req \in [Request -> ReqType]
    OBVIOUS
  <2>2. PICK p \in {"failed", "done"} : req' = [req EXCEPT ![r].pc = p]
    BY <1>13 DEF SaveSeen
  <2>3. req' \in [Request -> ReqType]
    <3> HIDE DEF TypeOK
    <3>1. [req[r] EXCEPT !.pc = p] \in ReqType
      BY <2>1, ReqMoves
    <3> QED
      BY <2>1, <2>2, <3>1
  <2>4. Position(req[r].of) \in 1..Len(log)
    BY <1>13, <2>1, PositionOfSent DEF SaveSeen, SentFirst, ReqType
  <2>5. req[r].by \in User /\ req[r].n \in Nat
    BY <2>1 DEF ReqType
  <2>6. RowsTyped(row')
    <3>1. RowsTyped(row)
      BY DEF RowsTyped, RowTyped
    <3>2. RowTyped([unread |-> req[r].n, last |-> Position(req[r].of)])
      BY <2>4, <2>5 DEF RowTyped
    <3> HIDE DEF TypeOK
    <3> QED
      BY <1>13, <2>5, <3>1, <3>2 DEF SaveSeen, RowsTyped
  <2>7. drift' \in SUBSET User
    BY <1>13, <2>5 DEF SaveSeen, Recounted
  <2> QED
    BY <1>13, <2>3, <2>6, <2>7 DEF SaveSeen, RowsTyped, RowTyped
<1>14. ASSUME NEW r \in Request, FindMessage(r) PROVE TypeOK'
  <2>1. req[r] \in ReqType /\ req \in [Request -> ReqType]
    OBVIOUS
  <2>2. req'[r] \in ReqType
    <3> HIDE DEF TypeOK
    <3> QED
      BY <1>14, <2>1 DEF FindMessage, ReqType
  <2>3. req' \in [Request -> ReqType]
    BY <1>14, <2>1, <2>2 DEF FindMessage
  <2>4. overlap' \in SUBSET Message
    BY <1>14, <2>1 DEF FindMessage, ReqType
  <2> QED
    BY <1>14, <2>3, <2>4 DEF FindMessage
<1>15. ASSUME NEW r \in Request, SaveMessage(r) PROVE TypeOK'
  <2>1. req[r] \in ReqType /\ req \in [Request -> ReqType]
    OBVIOUS
  <2>2. PICK p \in {"history"} : req' = [req EXCEPT ![r].pc = p]
    BY <1>15 DEF SaveMessage
  <2>3. req' \in [Request -> ReqType]
    <3> HIDE DEF TypeOK
    <3>1. [req[r] EXCEPT !.pc = p] \in ReqType
      BY <2>1, ReqMoves
    <3> QED
      BY <2>1, <2>2, <3>1
  <2>4. req[r].of \in ToSet(log)
    <3>1. IsSent(req[r].of)
      BY <1>15, <2>1 DEF SaveMessage, SentFirst
    <3> QED
      BY <3>1, LenProperties DEF IsSent, ToSet
  <2>5. gone' \subseteq ToSet(log)
    BY <1>15, <2>4 DEF SaveMessage, Written
  <2> QED
    BY <1>15, <2>3, <2>5 DEF SaveMessage
<1>16. ASSUME NEW r \in Request, SaveHistory(r) PROVE TypeOK'
  <2>1. req[r] \in ReqType /\ req \in [Request -> ReqType]
    OBVIOUS
  <2>2. PICK p \in {"done"} : req' = [req EXCEPT ![r].pc = p]
    BY <1>16 DEF SaveHistory
  <2>3. req' \in [Request -> ReqType]
    <3> HIDE DEF TypeOK
    <3>1. [req[r] EXCEPT !.pc = p] \in ReqType
      BY <2>1, ReqMoves
    <3> QED
      BY <2>1, <2>2, <3>1
  <2>4. req[r].of \in Message /\ edits[req[r].of] \in Seq(BOOLEAN)
    BY <2>1 DEF ReqType
  <2>5. edits' \in [Message -> Seq(BOOLEAN)]
    <3> DEFINE h == edits[req[r].of]
               d == req[r].kind = "delete"
    <3>1. [h EXCEPT ![1] = TRUE] \in Seq(BOOLEAN)
      BY <2>4, MarkedIsTyped
    <3>2. Append(h, d) \in Seq(BOOLEAN)
      <4>1. d \in BOOLEAN
        OBVIOUS
      <4> HIDE DEF d
      <4> QED
        BY <2>4, <4>1, AppendProperties
    <3>3. \/ edits' = [edits EXCEPT ![req[r].of] = [h EXCEPT ![1] = TRUE]]
          \/ edits' = [edits EXCEPT ![req[r].of] = Append(h, d)]
      BY <1>16 DEF SaveHistory
    <3>4. edits \in [Message -> Seq(BOOLEAN)]
      OBVIOUS
    <3> HIDE DEF h, d, TypeOK
    <3> QED
      BY <2>4, <3>1, <3>2, <3>3, <3>4
  <2>6. use[r] \in Task /\ [use[r] EXCEPT !.pc = "find"] \in Task
    BY TaskMoves DEF Pc
  <2>7. use' \in [Message \cup Request -> Task]
    BY <1>16, <2>6 DEF SaveHistory
  <2> QED
    BY <1>16, <2>3, <2>5, <2>7 DEF SaveHistory
<1>17. ASSUME TaskFails PROVE TypeOK'
  <2>1. \A t \in Task : [t EXCEPT !.pc = "failed"] \in Task
    BY TaskMoves DEF Pc
  <2>2. \A q \in ReqType : [q EXCEPT !.pc = "failed"] \in ReqType
    BY DEF ReqType
  <2>3. unread' \in [Message -> {"idle", "inc", "find", "insert", "update", "over", "failed"}]
    BY <1>17 DEF TaskFails
  <2>4. /\ \/ count' = count
           \/ \E m \in Message : count' = [count EXCEPT ![m].pc = "failed"]
        /\ \/ use' = use
           \/ \E x \in Message \cup Request : use' = [use EXCEPT ![x].pc = "failed"]
        /\ \/ req' = req
           \/ \E r \in Request : req' = [req EXCEPT ![r].pc = "failed"]
    BY <1>17 DEF TaskFails
  <2>5. /\ count' \in [Message -> Task] /\ use' \in [Message \cup Request -> Task]
        /\ req' \in [Request -> ReqType]
    <3>1. /\ count \in [Message -> Task] /\ use \in [Message \cup Request -> Task]
          /\ req \in [Request -> ReqType]
      OBVIOUS
    <3> HIDE DEF TypeOK
    <3> QED
      BY <2>1, <2>2, <2>4, <3>1
  <2>6. \A m \in Message : count'[m].pc = "update" => status' # <<>>
    <3>1. /\ count \in [Message -> Task] /\ status' = status
          /\ \A m \in Message : count[m].pc = "update" => status # <<>>
      BY <1>17 DEF TaskFails
    <3>2. \A m \in Message : count'[m].pc \in {count[m].pc, "failed"}
      <4> HIDE DEF TypeOK
      <4> QED
        BY <2>4, <3>1 DEF Task
    <3> HIDE DEF TypeOK
    <3> QED
      BY <3>1, <3>2
  <2>7. faults' \in 0..MaxFaults
    <3>1. faults \in 0..MaxFaults /\ MaxFaults \in Nat
      OBVIOUS
    <3>2. faults < MaxFaults /\ faults' = faults + 1
      BY <1>17 DEF TaskFails
    <3> HIDE DEF TypeOK
    <3> QED
      BY <3>1, <3>2
  <2> QED
    BY <1>17, <2>3, <2>5, <2>6, <2>7 DEF TaskFails
<1>18. ASSUME UNCHANGED vars PROVE TypeOK'
  BY <1>18 DEF vars
<1> QED
  BY <1>1, <1>2, <1>3, <1>4, <1>5, <1>6, <1>7, <1>8, <1>9, <1>10, <1>11, <1>12, <1>13,
     <1>14, <1>15, <1>16, <1>17, <1>18 DEF Next

-----------------------------------------------------------------------------
(* What was sent, added and counted *)

\* A failure moves the place of one task, and nothing else of anything.
LEMMA FailedOnly ==
  ASSUME TypeOK, TaskFails
  PROVE  /\ \A m \in Message : \/ unread'[m] = unread[m]
                               \/ unread[m] # "idle" /\ unread'[m] = "failed"
         /\ \A x \in Message \cup Request :
              \/ use'[x].pc = use[x].pc
              \/ use[x].pc # "idle" /\ use'[x].pc = "failed"
         /\ \A r \in Request :
              /\ \/ req'[r].pc = req[r].pc
                 \/ req[r].pc \notin {"new", "done"} /\ req'[r].pc = "failed"
              /\ req'[r].kind = req[r].kind /\ req'[r].by = req[r].by
              /\ req'[r].of = req[r].of /\ req'[r].found = req[r].found
              /\ req'[r].n = req[r].n /\ req'[r].counted = req[r].counted
         /\ UNCHANGED <<on, owner, msg, tables, history>>
<1>1. /\ unread \in [Message -> {"idle", "inc", "find", "insert", "update", "over", "failed"}]
      /\ use \in [Message \cup Request -> Task] /\ req \in [Request -> ReqType]
  BY DEF TypeOK
<1>2. \/ unread' = unread
      \/ \E m \in Message : unread[m] # "idle" /\ unread' = [unread EXCEPT ![m] = "failed"]
  BY DEF TaskFails
<1>3. \/ use' = use
      \/ \E x \in Message \cup Request :
           use[x].pc # "idle" /\ use' = [use EXCEPT ![x].pc = "failed"]
  BY DEF TaskFails
<1>4. \/ req' = req
      \/ \E r \in Request :
           req[r].pc \notin {"new", "done"} /\ req' = [req EXCEPT ![r].pc = "failed"]
  BY DEF TaskFails
<1>5. UNCHANGED <<on, owner, msg, tables, history>>
  BY DEF TaskFails
<1>6. \A x \in Message \cup Request :
        \/ use'[x].pc = use[x].pc
        \/ use[x].pc # "idle" /\ use'[x].pc = "failed"
  BY <1>1, <1>3 DEF Task
<1>7. \A r \in Request :
        /\ req'[r].pc = req[r].pc
             \/ (req[r].pc \notin {"new", "done"} /\ req'[r].pc = "failed")
        /\ req'[r].kind = req[r].kind /\ req'[r].by = req[r].by
        /\ req'[r].of = req[r].of /\ req'[r].found = req[r].found
        /\ req'[r].n = req[r].n /\ req'[r].counted = req[r].counted
  <2> TAKE q \in Request
  <2>1. \/ req'[q] = req[q]
        \/ req[q].pc \notin {"new", "done"} /\ req'[q] = [req[q] EXCEPT !.pc = "failed"]
    BY <1>1, <1>4
  <2>2. req[q] \in ReqType
    BY <1>1
  <2>3. CASE req'[q] = req[q]
    BY <2>3
  <2>4. CASE req[q].pc \notin {"new", "done"} /\ req'[q] = [req[q] EXCEPT !.pc = "failed"]
    <3> DEFINE w == req[q]
    <3>1. /\ w.pc \notin {"new", "done"} /\ req'[q] = [w EXCEPT !.pc = "failed"] /\ w \in ReqType
      BY <2>2, <2>4
    <3> HIDE DEF w
    <3>2. /\ w.pc \notin {"new", "done"} /\ req'[q].pc = "failed"
          /\ req'[q].kind = w.kind /\ req'[q].by = w.by /\ req'[q].of = w.of
          /\ req'[q].found = w.found /\ req'[q].n = w.n /\ req'[q].counted = w.counted
      BY <3>1 DEF ReqType
    <3> QED
      BY <3>2 DEF w
  <2> QED
    BY <2>1, <2>3, <2>4
<1>8. \A m \in Message : \/ unread'[m] = unread[m]
                         \/ unread[m] # "idle" /\ unread'[m] = "failed"
  BY <1>1, <1>2
<1> QED
  BY <1>5, <1>6, <1>7, <1>8

LEMMA SaveSeenOnly ==
  ASSUME TypeOK, NEW r \in Request, SaveSeen(r)
  PROVE  /\ req' \in [Request -> ReqType]
         /\ \A q \in Request \ {r} : req'[q] = req[q]
         /\ req'[r].pc \in {"done", "failed"} /\ req[r].pc \in {"insert", "update"}
         /\ req'[r].kind = req[r].kind /\ req'[r].of = req[r].of
<1>1. req \in [Request -> ReqType] /\ req[r] \in ReqType
  BY DEF TypeOK
<1>2. PICK p \in {"failed", "done"} : req' = [req EXCEPT ![r].pc = p]
  BY DEF SaveSeen
<1>3. [req[r] EXCEPT !.pc = p] \in ReqType
  BY <1>1, ReqMoves
<1>4. req'[r] = [req[r] EXCEPT !.pc = p] /\ \A q \in Request \ {r} : req'[q] = req[q]
  BY <1>1, <1>2
<1>5. req' \in [Request -> ReqType]
  BY <1>1, <1>2, <1>3
<1>6. req[r].pc \in {"insert", "update"}
  BY DEF SaveSeen
<1> QED
  BY <1>1, <1>4, <1>5, <1>6 DEF ReqType

LEMMA LogGrows ==
  ASSUME TypeOK, SentFirst, NEW m \in Message, Insert(m)
  PROVE  /\ log' \in Seq(Message) /\ Len(log) \in Nat /\ Len(log') = Len(log) + 1
         /\ log'[Len(log) + 1] = m
         /\ \A i \in 1..Len(log) : log'[i] = log[i]
         /\ ~IsSent(m)
         /\ \A k \in Message : IsSent(k)' <=> IsSent(k) \/ k = m
<1>1. /\ log' \in Seq(Message) /\ Len(log) \in Nat /\ Len(log') = Len(log) + 1
      /\ log'[Len(log) + 1] = m
      /\ \A i \in 1..Len(log) : log'[i] = log[i]
      /\ ~IsSent(m)
  BY DEF Insert, TypeOK, SentFirst
<1>2. \A k \in Message : IsSent(k)' <=> IsSent(k) \/ k = m
  BY <1>1 DEF IsSent
<1> QED
  BY <1>1, <1>2

LEMMA SentSame ==
  ASSUME UNCHANGED log
  PROVE  \A m : IsSent(m)' <=> IsSent(m)
  BY DEF IsSent

LEMMA SentStep == TypeOK /\ SentFirst /\ [Next]_vars => SentFirst'
<1> SUFFICES ASSUME TypeOK, SentFirst, [Next]_vars PROVE SentFirst'
  OBVIOUS
<1> USE DisjointAssumption DEF TypeOK, SentFirst, tables, history
<1>1. ASSUME NEW m \in Message, Insert(m) PROVE SentFirst'
  <2>1. /\ msg' = [msg EXCEPT ![m] = IF owner[m] = None THEN "failed" ELSE "inserted"]
        /\ msg[m] = "new" /\ msg \in [Message -> {"new", "inserted", "emitted", "failed"}]
        /\ UNCHANGED <<owner, unread, use, req>>
    BY <1>1 DEF Insert
  <2>2. \A r \in Request : req[r].of \in Message
    BY DEF ReqType
  <2> HIDE DEF TypeOK
  <2> QED
    BY <1>1, <2>1, <2>2, LogGrows
<1>2. ASSUME NEW m \in Message, Emit(m) PROVE SentFirst'
  BY <1>2, SentSame DEF Emit
<1>3. ASSUME NEW m \in Message, SendFails(m) PROVE SentFirst'
  BY <1>3, SentSame DEF SendFails
<1>4. ASSUME NEW m \in Message, IncreaUnread(m) PROVE SentFirst'
  BY <1>4, SentSame DEF IncreaUnread
<1>5. ASSUME NEW m \in Message, FindOwn(m) PROVE SentFirst'
  BY <1>5, SentSame DEF FindOwn
<1>6. ASSUME NEW m \in Message, SaveOwn(m) PROVE SentFirst'
  BY <1>6, SentSame DEF SaveOwn
<1>7. ASSUME NEW m \in Message, FindStatus(m) PROVE SentFirst'
  BY <1>7, SentSame DEF FindStatus
<1>8. ASSUME NEW m \in Message, SaveStatus(m) PROVE SentFirst'
  BY <1>8, SentSame DEF SaveStatus
<1>9. ASSUME NEW x \in Message \cup Request, FindUsage(x) PROVE SentFirst'
  BY <1>9, SentSame DEF FindUsage
<1>10. ASSUME NEW x \in Message \cup Request, SaveUsage(x) PROVE SentFirst'
  BY <1>10, SentSame DEF SaveUsage
<1>11. ASSUME NEW r \in Request, FindSeen(r) PROVE SentFirst'
  BY <1>11, SentSame DEF FindSeen
<1>12. ASSUME NEW r \in Request, CountUnread(r) PROVE SentFirst'
  BY <1>12, SentSame DEF CountUnread
<1>13. ASSUME NEW r \in Request, SaveSeen(r) PROVE SentFirst'
  <2>1. UNCHANGED <<msg, owner, unread, use, log>>
    BY <1>13 DEF SaveSeen
  <2> HIDE DEF TypeOK
  <2> QED
    BY <1>13, <2>1, SaveSeenOnly, SentSame
<1>14. ASSUME NEW r \in Request, FindMessage(r) PROVE SentFirst'
  BY <1>14, SentSame DEF FindMessage
<1>15. ASSUME NEW r \in Request, SaveMessage(r) PROVE SentFirst'
  BY <1>15, SentSame DEF SaveMessage
<1>16. ASSUME NEW r \in Request, SaveHistory(r) PROVE SentFirst'
  <2>1. use' = [use EXCEPT ![r].pc = "find"] /\ r \notin Message
    BY <1>16 DEF SaveHistory
  <2> QED
    BY <1>16, <2>1, SentSame DEF SaveHistory
<1>17. ASSUME TaskFails PROVE SentFirst'
  <2> HIDE DEF TypeOK
  <2> QED
    BY <1>17, FailedOnly, SentSame
<1>18. ASSUME UNCHANGED vars PROVE SentFirst'
  BY <1>18, SentSame DEF vars
<1> QED
  BY <1>1, <1>2, <1>3, <1>4, <1>5, <1>6, <1>7, <1>8, <1>9, <1>10, <1>11, <1>12, <1>13,
     <1>14, <1>15, <1>16, <1>17, <1>18 DEF Next

LEMMA AddedStep == TypeOK /\ SentFirst /\ AddedOnce /\ [Next]_vars => AddedOnce'
<1> SUFFICES ASSUME TypeOK, SentFirst, AddedOnce, [Next]_vars PROVE AddedOnce'
  OBVIOUS
<1> USE DEF TypeOK, SentFirst, AddedOnce, tables, history
<1>1. ASSUME NEW m \in Message, Insert(m) PROVE AddedOnce'
  BY <1>1, LogGrows DEF Insert
<1>2. ASSUME NEW m \in Message, Emit(m) PROVE AddedOnce'
  BY <1>2, SentSame DEF Emit
<1>3. ASSUME NEW m \in Message, SendFails(m) PROVE AddedOnce'
  BY <1>3, SentSame DEF SendFails
<1>4. ASSUME NEW m \in Message, IncreaUnread(m) PROVE AddedOnce'
  BY <1>4, SentSame DEF IncreaUnread
<1>5. ASSUME NEW m \in Message, FindOwn(m) PROVE AddedOnce'
  BY <1>5, SentSame DEF FindOwn
<1>6. ASSUME NEW m \in Message, SaveOwn(m) PROVE AddedOnce'
  BY <1>6, SentSame DEF SaveOwn
<1>7. ASSUME NEW m \in Message, FindStatus(m) PROVE AddedOnce'
  BY <1>7, SentSame DEF FindStatus
<1>8. ASSUME NEW m \in Message, SaveStatus(m) PROVE AddedOnce'
  BY <1>8, SentSame DEF SaveStatus
<1>9. ASSUME NEW x \in Message \cup Request, FindUsage(x) PROVE AddedOnce'
  BY <1>9, SentSame DEF FindUsage
<1>10. ASSUME NEW x \in Message \cup Request, SaveUsage(x) PROVE AddedOnce'
  BY <1>10, SentSame DEF SaveUsage
<1>11. ASSUME NEW r \in Request, FindSeen(r) PROVE AddedOnce'
  BY <1>11, SentSame DEF FindSeen
<1>12. ASSUME NEW r \in Request, CountUnread(r) PROVE AddedOnce'
  BY <1>12, SentSame DEF CountUnread
<1>13. ASSUME NEW r \in Request, SaveSeen(r) PROVE AddedOnce'
  BY <1>13, SentSame DEF SaveSeen
<1>14. ASSUME NEW r \in Request, FindMessage(r) PROVE AddedOnce'
  BY <1>14, SentSame DEF FindMessage
<1>15. ASSUME NEW r \in Request, SaveMessage(r) PROVE AddedOnce'
  BY <1>15, SentSame DEF SaveMessage
<1>16. ASSUME NEW r \in Request, SaveHistory(r) PROVE AddedOnce'
  BY <1>16, SentSame DEF SaveHistory
<1>17. ASSUME TaskFails PROVE AddedOnce'
  BY <1>17, SentSame DEF TaskFails
<1>18. ASSUME UNCHANGED vars PROVE AddedOnce'
  BY <1>18, SentSame DEF vars
<1> QED
  BY <1>1, <1>2, <1>3, <1>4, <1>5, <1>6, <1>7, <1>8, <1>9, <1>10, <1>11, <1>12, <1>13,
     <1>14, <1>15, <1>16, <1>17, <1>18 DEF Next

LEMMA CountedStep == TypeOK /\ CountedIsSaved /\ [Next]_vars => CountedIsSaved'
<1> SUFFICES ASSUME TypeOK, CountedIsSaved, [Next]_vars PROVE CountedIsSaved'
  OBVIOUS
<1> USE DEF TypeOK, CountedIsSaved, tables, history
<1>1. ASSUME NEW m \in Message, Insert(m) PROVE CountedIsSaved'
  BY <1>1 DEF Insert
<1>2. ASSUME NEW m \in Message, Emit(m) PROVE CountedIsSaved'
  BY <1>2 DEF Emit
<1>3. ASSUME NEW m \in Message, SendFails(m) PROVE CountedIsSaved'
  BY <1>3 DEF SendFails
<1>4. ASSUME NEW m \in Message, IncreaUnread(m) PROVE CountedIsSaved'
  BY <1>4 DEF IncreaUnread
<1>5. ASSUME NEW m \in Message, FindOwn(m) PROVE CountedIsSaved'
  BY <1>5 DEF FindOwn
<1>6. ASSUME NEW m \in Message, SaveOwn(m) PROVE CountedIsSaved'
  BY <1>6 DEF SaveOwn
<1>7. ASSUME NEW m \in Message, FindStatus(m) PROVE CountedIsSaved'
  BY <1>7 DEF FindStatus
<1>8. ASSUME NEW m \in Message, SaveStatus(m) PROVE CountedIsSaved'
  BY <1>8 DEF SaveStatus
<1>9. ASSUME NEW x \in Message \cup Request, FindUsage(x) PROVE CountedIsSaved'
  BY <1>9 DEF FindUsage
<1>10. ASSUME NEW x \in Message \cup Request, SaveUsage(x) PROVE CountedIsSaved'
  BY <1>10 DEF SaveUsage
<1>11. ASSUME NEW r \in Request, FindSeen(r) PROVE CountedIsSaved'
  BY <1>11 DEF FindSeen
<1>12. ASSUME NEW r \in Request, CountUnread(r) PROVE CountedIsSaved'
  <2>1. req \in [Request -> ReqType] /\ req[r] \in ReqType
    OBVIOUS
  <2>2. /\ req'[r].n = Cardinality(req'[r].counted)
        /\ \A q \in Request \ {r} : req'[q] = req[q]
    <3> HIDE DEF TypeOK
    <3> QED
      BY <1>12, <2>1 DEF CountUnread, ChatUnread, ReqType
  <2> QED
    BY <2>2
<1>13. ASSUME NEW r \in Request, SaveSeen(r) PROVE CountedIsSaved'
  <2> HIDE DEF TypeOK
  <2> QED
    BY <1>13, SaveSeenOnly
<1>14. ASSUME NEW r \in Request, FindMessage(r) PROVE CountedIsSaved'
  BY <1>14 DEF FindMessage
<1>15. ASSUME NEW r \in Request, SaveMessage(r) PROVE CountedIsSaved'
  BY <1>15 DEF SaveMessage
<1>16. ASSUME NEW r \in Request, SaveHistory(r) PROVE CountedIsSaved'
  BY <1>16 DEF SaveHistory
<1>17. ASSUME TaskFails PROVE CountedIsSaved'
  <2> HIDE DEF TypeOK
  <2> QED
    BY <1>17, FailedOnly
<1>18. ASSUME UNCHANGED vars PROVE CountedIsSaved'
  BY <1>18 DEF vars
<1> QED
  BY <1>1, <1>2, <1>3, <1>4, <1>5, <1>6, <1>7, <1>8, <1>9, <1>10, <1>11, <1>12, <1>13,
     <1>14, <1>15, <1>16, <1>17, <1>18 DEF Next

-----------------------------------------------------------------------------
(* UnreadIsExact *)

\* A message added to the counters adds 1 to those of the users who have not seen it.
LEMMA OneMore ==
  ASSUME TypeOK, NEW i \in Nat, NEW m \in Message, m \in After(i), m \notin added
  PROVE  Cardinality(After(i) \cap (added \cup {m})) = Cardinality(After(i) \cap added) + 1
<1>1. IsFiniteSet(After(i) \cap added)
  BY AfterIsFinite, FS_Subset DEF TypeOK
<1>2. After(i) \cap (added \cup {m}) = (After(i) \cap added) \cup {m}
  OBVIOUS
<1> QED
  BY <1>1, <1>2, FS_AddElement

LEMMA UnreadSame ==
  ASSUME UnreadIsExact, UNCHANGED <<log, row, added, drift>>
  PROVE  UnreadIsExact'
  BY DEF UnreadIsExact, HasRow, After

\* A row saved with the number of the messages of S that it stands for.
LEMMA Resaved ==
  ASSUME TypeOK, UnreadIsExact, NEW u \in User, NEW i \in 1..Len(log), NEW S,
         UNCHANGED <<log, added>>, drift' = Recounted(u, i, S),
         row' = [row EXCEPT ![u] = [unread |-> Cardinality(S), last |-> i]]
  PROVE  UnreadIsExact'
<1>1. SUFFICES ASSUME NEW v \in User, v \notin drift', row'[v] # NoRow, NEW j,
                      j = row'[v].last
               PROVE  row'[v].unread = Cardinality(After(j) \cap added)
  BY DEF UnreadIsExact, HasRow, After
<1>2. CASE v = u
  <2>1. S = added \cap After(i)
    BY <1>1, <1>2 DEF Recounted
  <2>2. row'[v] = [unread |-> Cardinality(S), last |-> i]
    BY <1>2 DEF TypeOK
  <2>3. j = i /\ row'[v].unread = Cardinality(S)
    BY <1>1, <2>2
  <2>4. After(j) \cap added = S
    BY <2>1, <2>3
  <2> QED
    BY <2>3, <2>4
<1>3. CASE v # u
  <2>1. row'[v] = row[v]
    BY <1>3 DEF TypeOK
  <2>2. v \notin drift
    BY <1>1, <1>3 DEF Recounted
  <2> QED
    BY <1>1, <2>1, <2>2 DEF UnreadIsExact, HasRow
<1> QED
  BY <1>2, <1>3

LEMMA UnreadStep ==
  TypeOK /\ SentFirst /\ AddedOnce /\ CountedIsSaved /\ UnreadIsExact /\ [Next]_vars
  => UnreadIsExact'
<1> SUFFICES ASSUME TypeOK, SentFirst, AddedOnce, CountedIsSaved, UnreadIsExact, [Next]_vars
             PROVE  UnreadIsExact'
  OBVIOUS
<1> USE DEF AddedOnce, CountedIsSaved, tables, history
<1>1. ASSUME NEW m \in Message, Insert(m) PROVE UnreadIsExact'
  <2>1. \A i \in 0..Len(log) : After(i)' = After(i) \cup {m}
    BY <1>1, LogGrows DEF After
  <2>2. m \notin added
    BY <1>1, LogGrows
  <2>3. UNCHANGED <<row, added, drift>>
    BY <1>1 DEF Insert
  <2>4. SUFFICES ASSUME NEW u \in User, u \notin drift, row[u] # NoRow,
                        NEW i, i = row[u].last
                 PROVE  row[u].unread = Cardinality(After(i)' \cap added)
    BY <2>3 DEF UnreadIsExact, HasRow, After
  <2>5. row[u] \in [unread : Nat, last : 0..Len(log)]
    BY DEF TypeOK
  <2>6. i \in 0..Len(log)
    BY <2>4, <2>5
  <2>7. After(i)' \cap added = After(i) \cap added
    BY <2>1, <2>2, <2>6
  <2> QED
    BY <2>4, <2>7 DEF UnreadIsExact, HasRow
<1>2. ASSUME NEW m \in Message, Emit(m) PROVE UnreadIsExact'
  <2>1. UNCHANGED <<log, row, added, drift>>
    BY <1>2 DEF Emit
  <2> QED
    BY <2>1, UnreadSame
<1>3. ASSUME NEW m \in Message, SendFails(m) PROVE UnreadIsExact'
  <2>1. UNCHANGED <<log, row, added, drift>>
    BY <1>3 DEF SendFails
  <2> QED
    BY <2>1, UnreadSame
<1>4. ASSUME NEW m \in Message, IncreaUnread(m) PROVE UnreadIsExact'
  <2>1. /\ UNCHANGED log /\ added' = added \cup {m}
        /\ drift' = drift \cup {u \in User : HasRow(u) /\ Position(m) <= row[u].last}
        /\ \A u \in User : row'[u] = IF HasRow(u)
                                   THEN [row[u] EXCEPT !.unread = row[u].unread + 1]
                                   ELSE row[u]
    BY <1>4 DEF IncreaUnread
  <2>2. m \notin added
    BY <1>4 DEF IncreaUnread
  <2>3. IsSent(m)
    BY <1>4 DEF IncreaUnread, SentFirst
  <2>4. SUFFICES ASSUME NEW u \in User, u \notin drift', row'[u] # NoRow,
                        NEW i, i = row'[u].last
                 PROVE  row'[u].unread = Cardinality(After(i) \cap (added \cup {m}))
    BY <2>1 DEF UnreadIsExact, HasRow, After
  <2>5. row[u] \in [unread : Nat, last : 0..Len(log)]
    BY DEF TypeOK
  <2>6. HasRow(u)
    BY <2>1, <2>4 DEF HasRow
  <2>7. row'[u].unread = row[u].unread + 1 /\ i = row[u].last /\ i \in Nat
    <3>1. row'[u] = [row[u] EXCEPT !.unread = row[u].unread + 1]
      BY <2>1, <2>6
    <3>2. Len(log) \in Nat
      BY DEF TypeOK
    <3> QED
      BY <2>4, <2>5, <3>1, <3>2
  <2>8. u \notin drift /\ ~(Position(m) <= i)
    BY <2>1, <2>4, <2>6, <2>7
  <2>9. m \in After(i)
    <3>1. Position(m) \in 1..Len(log) /\ log[Position(m)] = m /\ Len(log) \in Nat
      BY <2>3, PositionOfSent DEF TypeOK
    <3>2. Position(m) \in (i + 1)..Len(log)
      BY <2>7, <2>8, <3>1
    <3> QED
      BY <3>1, <3>2 DEF After
  <2>10. row[u].unread = Cardinality(After(i) \cap added)
    BY <2>6, <2>7, <2>8 DEF UnreadIsExact
  <2> QED
    BY <2>2, <2>7, <2>9, <2>10, OneMore
<1>5. ASSUME NEW m \in Message, FindOwn(m) PROVE UnreadIsExact'
  <2>1. UNCHANGED <<log, row, added, drift>>
    BY <1>5 DEF FindOwn
  <2> QED
    BY <2>1, UnreadSame
<1>6. ASSUME NEW m \in Message, SaveOwn(m) PROVE UnreadIsExact'
  <2>1. owner[m] \in User /\ Position(m) \in 1..Len(log)
    <3>1. msg[m] = "emitted"
      BY <1>6 DEF SaveOwn, SentFirst
    <3>2. IsSent(m) /\ owner[m] \in User
      BY <3>1 DEF SentFirst, TypeOK
    <3> QED
      BY <3>2, PositionOfSent
  <2>2. CASE row' = row /\ drift' = drift
    <3>1. UNCHANGED <<log, row, added, drift>>
      BY <1>6, <2>2 DEF SaveOwn
    <3> QED
      BY <3>1, UnreadSame
  <2>3. CASE /\ row' = [row EXCEPT ![owner[m]] = [unread |-> 0, last |-> Position(m)]]
             /\ drift' = Recounted(owner[m], Position(m), {})
    <3>1. UNCHANGED <<log, added>> /\ Cardinality({}) = 0
      BY <1>6, FS_EmptySet DEF SaveOwn
    <3> QED
      BY <2>1, <2>3, <3>1, Resaved
  <2> QED
    BY <1>6, <2>2, <2>3 DEF SaveOwn
<1>7. ASSUME NEW m \in Message, FindStatus(m) PROVE UnreadIsExact'
  <2>1. UNCHANGED <<log, row, added, drift>>
    BY <1>7 DEF FindStatus
  <2> QED
    BY <2>1, UnreadSame
<1>8. ASSUME NEW m \in Message, SaveStatus(m) PROVE UnreadIsExact'
  <2>1. UNCHANGED <<log, row, added, drift>>
    BY <1>8 DEF SaveStatus
  <2> QED
    BY <2>1, UnreadSame
<1>9. ASSUME NEW x \in Message \cup Request, FindUsage(x) PROVE UnreadIsExact'
  <2>1. UNCHANGED <<log, row, added, drift>>
    BY <1>9 DEF FindUsage
  <2> QED
    BY <2>1, UnreadSame
<1>10. ASSUME NEW x \in Message \cup Request, SaveUsage(x) PROVE UnreadIsExact'
  <2>1. UNCHANGED <<log, row, added, drift>>
    BY <1>10 DEF SaveUsage
  <2> QED
    BY <2>1, UnreadSame
<1>11. ASSUME NEW r \in Request, FindSeen(r) PROVE UnreadIsExact'
  <2>1. UNCHANGED <<log, row, added, drift>>
    BY <1>11 DEF FindSeen
  <2> QED
    BY <2>1, UnreadSame
<1>12. ASSUME NEW r \in Request, CountUnread(r) PROVE UnreadIsExact'
  <2>1. UNCHANGED <<log, row, added, drift>>
    BY <1>12 DEF CountUnread
  <2> QED
    BY <2>1, UnreadSame
<1>13. ASSUME NEW r \in Request, SaveSeen(r) PROVE UnreadIsExact'
  <2>1. req[r] \in ReqType
    BY DEF TypeOK
  <2>2. /\ req[r].by \in User /\ Position(req[r].of) \in 1..Len(log)
        /\ req[r].n = Cardinality(req[r].counted)
    BY <1>13, <2>1, PositionOfSent DEF SaveSeen, SentFirst, ReqType
  <2>3. CASE row' = row /\ drift' = drift
    <3>1. UNCHANGED <<log, row, added, drift>>
      BY <1>13, <2>3 DEF SaveSeen
    <3> QED
      BY <3>1, UnreadSame
  <2>4. CASE /\ row' = [row EXCEPT ![req[r].by] = [unread |-> req[r].n,
                                                 last |-> Position(req[r].of)]]
             /\ drift' = Recounted(req[r].by, Position(req[r].of), req[r].counted)
    <3>1. UNCHANGED <<log, added>>
      BY <1>13 DEF SaveSeen
    <3> QED
      BY <2>2, <2>4, <3>1, Resaved
  <2> QED
    BY <1>13, <2>3, <2>4 DEF SaveSeen
<1>14. ASSUME NEW r \in Request, FindMessage(r) PROVE UnreadIsExact'
  <2>1. UNCHANGED <<log, row, added, drift>>
    BY <1>14 DEF FindMessage
  <2> QED
    BY <2>1, UnreadSame
<1>15. ASSUME NEW r \in Request, SaveMessage(r) PROVE UnreadIsExact'
  <2>1. UNCHANGED <<log, row, added, drift>>
    BY <1>15 DEF SaveMessage
  <2> QED
    BY <2>1, UnreadSame
<1>16. ASSUME NEW r \in Request, SaveHistory(r) PROVE UnreadIsExact'
  <2>1. UNCHANGED <<log, row, added, drift>>
    BY <1>16 DEF SaveHistory
  <2> QED
    BY <2>1, UnreadSame
<1>17. ASSUME TaskFails PROVE UnreadIsExact'
  <2>1. UNCHANGED <<log, row, added, drift>>
    BY <1>17 DEF TaskFails
  <2> QED
    BY <2>1, UnreadSame
<1>18. ASSUME UNCHANGED vars PROVE UnreadIsExact'
  <2>1. UNCHANGED <<log, row, added, drift>>
    BY <1>18 DEF vars
  <2> QED
    BY <2>1, UnreadSame
<1> QED
  BY <1>1, <1>2, <1>3, <1>4, <1>5, <1>6, <1>7, <1>8, <1>9, <1>10, <1>11, <1>12, <1>13,
     <1>14, <1>15, <1>16, <1>17, <1>18 DEF Next

-----------------------------------------------------------------------------
(* DeletedIsGone *)

Deletions == WritersOnly /\ EditIsAlone /\ DeletionIsSaved /\ DeletedIsGone

LEMMA AppendFalse ==
  ASSUME NEW h \in Seq(BOOLEAN)
  PROVE  /\ Append(h, FALSE) \in Seq(BOOLEAN) /\ Len(Append(h, FALSE)) = Len(h) + 1
         /\ Len(h) \in Nat /\ Append(h, FALSE)[Len(h) + 1] = FALSE
         /\ \A i \in 1..Len(h) : Append(h, FALSE)[i] = h[i]
<1>1. Len(h) \in Nat
  OBVIOUS
<1>2. Append(h, FALSE) \in Seq(BOOLEAN)
  OBVIOUS
<1>3. Len(Append(h, FALSE)) = Len(h) + 1
  OBVIOUS
<1>4. Append(h, FALSE)[Len(h) + 1] = FALSE
  OBVIOUS
<1>5. \A i \in 1..Len(h) : Append(h, FALSE)[i] = h[i]
  OBVIOUS
<1> QED
  BY <1>1, <1>2, <1>3, <1>4, <1>5

LEMMA DeletionSame ==
  ASSUME TypeOK, Deletions,
         UNCHANGED <<gone, edits, overlap>>,
         \A q \in Request :
           /\ req'[q].kind = req[q].kind /\ req'[q].of = req[q].of
           /\ req'[q].found = req[q].found
           /\ req'[q].pc = req[q].pc \/ req'[q].pc \notin {"message", "history"}
  PROVE  Deletions'
<1> USE DEF Deletions
<1>1. WritersOnly' /\ DeletionIsSaved' /\ DeletedIsGone'
  BY DEF WritersOnly, DeletionIsSaved, DeletedIsGone
<1>2. EditIsAlone'
  BY DEF EditIsAlone
<1> QED
  BY <1>1, <1>2

LEMMA DeletionStep == TypeOK /\ Deletions /\ [Next]_vars => Deletions'
<1> SUFFICES ASSUME TypeOK, Deletions, [Next]_vars PROVE Deletions'
  OBVIOUS
<1> USE DEF tables, history, Deletions
<1>1. ASSUME NEW m \in Message, Insert(m) PROVE Deletions'
  <2>1. UNCHANGED <<gone, edits, overlap, req>>
    BY <1>1 DEF Insert
  <2> QED
    BY <2>1, DeletionSame
<1>2. ASSUME NEW m \in Message, Emit(m) PROVE Deletions'
  <2>1. UNCHANGED <<gone, edits, overlap, req>>
    BY <1>2 DEF Emit
  <2> QED
    BY <2>1, DeletionSame
<1>3. ASSUME NEW m \in Message, SendFails(m) PROVE Deletions'
  <2>1. UNCHANGED <<gone, edits, overlap, req>>
    BY <1>3 DEF SendFails
  <2> QED
    BY <2>1, DeletionSame
<1>4. ASSUME NEW m \in Message, IncreaUnread(m) PROVE Deletions'
  <2>1. UNCHANGED <<gone, edits, overlap, req>>
    BY <1>4 DEF IncreaUnread
  <2> QED
    BY <2>1, DeletionSame
<1>5. ASSUME NEW m \in Message, FindOwn(m) PROVE Deletions'
  <2>1. UNCHANGED <<gone, edits, overlap, req>>
    BY <1>5 DEF FindOwn
  <2> QED
    BY <2>1, DeletionSame
<1>6. ASSUME NEW m \in Message, SaveOwn(m) PROVE Deletions'
  <2>1. UNCHANGED <<gone, edits, overlap, req>>
    BY <1>6 DEF SaveOwn
  <2> QED
    BY <2>1, DeletionSame
<1>7. ASSUME NEW m \in Message, FindStatus(m) PROVE Deletions'
  <2>1. UNCHANGED <<gone, edits, overlap, req>>
    BY <1>7 DEF FindStatus
  <2> QED
    BY <2>1, DeletionSame
<1>8. ASSUME NEW m \in Message, SaveStatus(m) PROVE Deletions'
  <2>1. UNCHANGED <<gone, edits, overlap, req>>
    BY <1>8 DEF SaveStatus
  <2> QED
    BY <2>1, DeletionSame
<1>9. ASSUME NEW x \in Message \cup Request, FindUsage(x) PROVE Deletions'
  <2>1. UNCHANGED <<gone, edits, overlap, req>>
    BY <1>9 DEF FindUsage
  <2> QED
    BY <2>1, DeletionSame
<1>10. ASSUME NEW x \in Message \cup Request, SaveUsage(x) PROVE Deletions'
  <2>1. UNCHANGED <<gone, edits, overlap, req>>
    BY <1>10 DEF SaveUsage
  <2> QED
    BY <2>1, DeletionSame
<1>11. ASSUME NEW r \in Request, FindSeen(r) PROVE Deletions'
  <2>1. UNCHANGED <<gone, edits, overlap>>
    BY <1>11 DEF FindSeen
  <2>2. /\ req'[r].kind = "see" /\ req'[r].pc = "count"
        /\ \A q \in Request \ {r} : req'[q] = req[q]
        /\ req[r].kind = "see" /\ req[r].pc = "new"
    <3>1. req \in [Request -> ReqType] /\ req[r] \in ReqType
      BY DEF TypeOK
    <3> QED
      BY <1>11, <3>1 DEF FindSeen, ReqType
  <2>3. WritersOnly' /\ DeletionIsSaved' /\ DeletedIsGone'
    BY <2>1, <2>2 DEF WritersOnly, DeletionIsSaved, DeletedIsGone
  <2>4. EditIsAlone'
    BY <2>1, <2>2 DEF EditIsAlone
  <2> QED
    BY <2>3, <2>4
<1>12. ASSUME NEW r \in Request, CountUnread(r) PROVE Deletions'
  <2>1. UNCHANGED <<gone, edits, overlap>>
    BY <1>12 DEF CountUnread
  <2>2. /\ req'[r].kind = req[r].kind /\ req'[r].of = req[r].of
        /\ req'[r].found = req[r].found
        /\ req'[r].pc \notin {"message", "history"}
        /\ \A q \in Request \ {r} : req'[q] = req[q]
    <3>1. req \in [Request -> ReqType] /\ req[r] \in ReqType
      BY DEF TypeOK
    <3> QED
      BY <1>12, <3>1 DEF CountUnread, ReqType
  <2> QED
    BY <2>1, <2>2, DeletionSame
<1>13. ASSUME NEW r \in Request, SaveSeen(r) PROVE Deletions'
  <2>1. UNCHANGED <<gone, edits, overlap>>
    BY <1>13 DEF SaveSeen
  <2>2. req'[r].found = req[r].found
    BY <1>13 DEF SaveSeen, TypeOK, ReqType
  <2> QED
    BY <1>13, <2>1, <2>2, SaveSeenOnly, DeletionSame
<1>14. ASSUME NEW r \in Request, FindMessage(r) PROVE Deletions'
  <2>1. req \in [Request -> ReqType] /\ req[r] \in ReqType
    BY DEF TypeOK
  <2>2. /\ req'[r].kind = req[r].kind /\ req'[r].of = req[r].of
        /\ req[r].kind # "see" /\ req[r].pc = "new"
        /\ req'[r].found = (req[r].kind = "delete" /\ edits[req[r].of] # <<>>)
        /\ req'[r].pc \in {"message", "failed"}
        /\ req[r].kind # "delete" /\ req'[r].pc = "message" => req[r].of \notin gone
        /\ \A q \in Request \ {r} : req'[q] = req[q]
    BY <1>14, <2>1 DEF FindMessage, ReqType, MayEdit
  <2>3. /\ UNCHANGED <<gone, edits>> /\ overlap \subseteq overlap'
        /\ req'[r].pc = "message" /\ req[r].of \notin overlap' =>
             \A q \in Request : req[q].of = req[r].of /\ req[q].pc \in {"message", "history"}
               => req[r].kind # "delete" /\ req[q].kind # "delete"
    BY <1>14, <2>2 DEF FindMessage, Under
  <2>5. WritersOnly' /\ DeletionIsSaved' /\ DeletedIsGone'
    BY <2>2, <2>3 DEF WritersOnly, DeletionIsSaved, DeletedIsGone
  <2>6. ASSUME NEW e \in Request, req'[e].kind = "edit", req'[e].pc = "message",
               req'[e].of \notin overlap'
        PROVE  /\ \A i \in 1..Len(edits[req[e].of]) : ~edits[req[e].of][i]
               /\ \A q \in Request :
                    req'[q].of = req'[e].of /\ req'[q].pc \in {"message", "history"}
                    => req'[q].kind # "delete"
    <3>1. CASE e = r
      <4>1. req[r].of \notin gone /\ req[r].of \in Message
        BY <2>1, <2>2, <2>6, <3>1 DEF ReqType
      <4>2. \A i \in 1..Len(edits[req[r].of]) : ~edits[req[r].of][i]
        BY <2>2, <2>3, <2>6, <3>1, <4>1 DEF DeletedIsGone
      <4>3. \A q \in Request : req[q].of = req[r].of /\ req[q].pc \in {"message", "history"}
              => req[q].kind # "delete"
        BY <2>2, <2>3, <2>6, <3>1
      <4> QED
        BY <2>2, <2>6, <3>1, <4>2, <4>3
    <3>2. CASE e # r
      <4>1. /\ req[e].kind = "edit" /\ req[e].pc = "message" /\ req'[e].of = req[e].of
            /\ req[e].of \notin overlap
        BY <2>2, <2>3, <2>6, <3>2
      <4>2. /\ \A i \in 1..Len(edits[req[e].of]) : ~edits[req[e].of][i]
            /\ \A q \in Request :
                 req[q].of = req[e].of /\ req[q].pc \in {"message", "history"}
                 => req[q].kind # "delete"
        BY <4>1 DEF EditIsAlone
      <4>3. ASSUME req'[r].of = req'[e].of, req'[r].pc \in {"message", "history"}
            PROVE  req[r].kind # "delete"
        <5>1. req[r].of = req[e].of /\ req'[r].pc = "message"
          BY <2>2, <4>1, <4>3
        <5> QED
          BY <2>3, <2>6, <4>1, <5>1
      <4> QED
        BY <2>2, <4>1, <4>2, <4>3
    <3> QED
      BY <3>1, <3>2
  <2>7. EditIsAlone'
    BY <2>2, <2>3, <2>6 DEF EditIsAlone
  <2> QED
    BY <2>5, <2>7
<1>15. ASSUME NEW r \in Request, SaveMessage(r) PROVE Deletions'
  <2>1. req \in [Request -> ReqType] /\ req[r] \in ReqType
    BY DEF TypeOK
  <2>2. /\ req'[r].kind = req[r].kind /\ req'[r].of = req[r].of
        /\ req'[r].found = req[r].found /\ req[r].of \in Message
        /\ req[r].pc = "message" /\ req'[r].pc = "history"
        /\ \A q \in Request \ {r} : req'[q] = req[q]
    BY <1>15, <2>1 DEF SaveMessage, ReqType
  <2>3. /\ UNCHANGED <<edits, overlap>>
        /\ gone' = IF req[r].kind = "delete" THEN gone \cup {req[r].of}
                   ELSE gone \ {req[r].of}
    BY <1>15 DEF SaveMessage, Written
  <2>4. req[r].kind \in {"edit", "delete"}
    BY <2>1, <2>2 DEF WritersOnly, ReqType
  <2>5. WritersOnly'
    BY <2>2 DEF WritersOnly
  <2>10. \A e \in Request :
           /\ req'[e].kind = req[e].kind /\ req'[e].of = req[e].of
           /\ (req'[e].pc = "message") => (req[e].pc = "message")
           /\ (req'[e].pc \in {"message", "history"}) = (req[e].pc \in {"message", "history"})
    BY <2>2
  <2>6. WritersOnly' /\ EditIsAlone'
    BY <2>3, <2>5, <2>10 DEF EditIsAlone
  <2>7. CASE req[r].kind = "delete"
    BY <2>2, <2>3, <2>6, <2>7 DEF DeletionIsSaved, DeletedIsGone
  <2>8. CASE req[r].kind = "edit" /\ req[r].of \notin overlap
    <3>1. /\ \A i \in 1..Len(edits[req[r].of]) : ~edits[req[r].of][i]
          /\ \A q \in Request : req[q].of = req[r].of /\ req[q].pc \in {"message", "history"}
               => req[q].kind # "delete"
      BY <2>2, <2>8 DEF EditIsAlone
    <3>2. \A q \in Request : req[q].kind = "delete" /\ req[q].pc = "history"
                              => req[q].of # req[r].of
      BY <3>1
    <3> QED
      BY <2>2, <2>3, <2>6, <2>8, <3>1, <3>2 DEF DeletionIsSaved, DeletedIsGone
  <2>9. CASE req[r].kind = "edit" /\ req[r].of \in overlap
    BY <2>2, <2>3, <2>6, <2>9 DEF DeletionIsSaved, DeletedIsGone
  <2> QED
    BY <2>4, <2>7, <2>8, <2>9
<1>16. ASSUME NEW r \in Request, SaveHistory(r) PROVE Deletions'
  <2>1. req \in [Request -> ReqType] /\ req[r] \in ReqType
    BY DEF TypeOK
  <2>2. /\ req'[r].kind = req[r].kind /\ req'[r].of = req[r].of
        /\ req'[r].found = req[r].found /\ req[r].of \in Message
        /\ req[r].pc = "history" /\ req'[r].pc = "done"
        /\ \A q \in Request \ {r} : req'[q] = req[q]
    BY <1>16, <2>1 DEF SaveHistory, ReqType
  <2> DEFINE h == edits[req[r].of]
  <2>3. /\ UNCHANGED <<gone, overlap>> /\ h \in Seq(BOOLEAN)
        /\ edits \in [Message -> Seq(BOOLEAN)]
        /\ edits' = [edits EXCEPT ![req[r].of] =
                       IF req[r].found THEN [h EXCEPT ![1] = TRUE]
                       ELSE Append(h, req[r].kind = "delete")]
    BY <1>16, <2>2 DEF SaveHistory, TypeOK
  <2>4. req[r].kind # "see" /\ (req[r].found => req[r].kind = "delete")
    BY <2>2 DEF WritersOnly
  <2>6. WritersOnly' /\ DeletionIsSaved'
    BY <2>2, <2>3 DEF WritersOnly, DeletionIsSaved
  <2>7. CASE req[r].kind = "delete"
    <3>1. req[r].of \notin overlap => req[r].of \in gone
      BY <2>2, <2>7 DEF DeletionIsSaved
    <3>2. \A m \in Message \ {req[r].of} : edits'[m] = edits[m]
      BY <2>3
    <3>3. DeletedIsGone'
      BY <2>3, <3>1, <3>2 DEF DeletedIsGone
    <3>4. ASSUME NEW e \in Request, req'[e].kind = "edit", req'[e].pc = "message",
                 req'[e].of \notin overlap'
          PROVE  /\ \A i \in 1..Len(edits'[req'[e].of]) : ~edits'[req'[e].of][i]
                 /\ \A q \in Request :
                      req'[q].of = req'[e].of /\ req'[q].pc \in {"message", "history"}
                      => req'[q].kind # "delete"
      <4>1. e # r /\ req'[e] = req[e] /\ req[e].of \in Message
        BY <2>1, <2>2, <3>4 DEF ReqType
      <4>2. /\ \A i \in 1..Len(edits[req[e].of]) : ~edits[req[e].of][i]
            /\ \A q \in Request :
                 req[q].of = req[e].of /\ req[q].pc \in {"message", "history"}
                 => req[q].kind # "delete"
        BY <2>3, <3>4, <4>1 DEF EditIsAlone
      <4>3. req[e].of # req[r].of
        BY <2>2, <2>7, <4>2
      <4>4. edits'[req[e].of] = edits[req[e].of]
        BY <3>2, <4>1, <4>3
      <4> QED
        BY <2>2, <4>1, <4>2, <4>4
    <3> QED
      BY <2>6, <3>3, <3>4 DEF EditIsAlone
  <2>8. CASE req[r].kind # "delete"
    <3>1. edits' = [edits EXCEPT ![req[r].of] = Append(h, FALSE)]
      BY <2>3, <2>4, <2>8
    <3>2. /\ Append(h, FALSE) \in Seq(BOOLEAN) /\ Len(Append(h, FALSE)) = Len(h) + 1
          /\ Len(h) \in Nat /\ Append(h, FALSE)[Len(h) + 1] = FALSE
          /\ \A i \in 1..Len(h) : Append(h, FALSE)[i] = h[i]
      <4>1. h \in Seq(BOOLEAN)
        BY <2>3
      <4> HIDE DEF h
      <4> QED
        BY <4>1, AppendFalse
    <3>3. \A i \in 1..(Len(h) + 1) : Append(h, FALSE)[i] => i \in 1..Len(h) /\ h[i]
      BY <3>2
    <3>4. \A m \in Message : \A i \in 1..Len(edits'[m]) :
            edits'[m][i] => i \in 1..Len(edits[m]) /\ edits[m][i]
      <4>1. SUFFICES ASSUME NEW m \in Message, NEW i \in 1..Len(edits'[m]), edits'[m][i]
                     PROVE  i \in 1..Len(edits[m]) /\ edits[m][i]
        OBVIOUS
      <4>2. CASE m = req[r].of
        <5>1. edits'[m] = Append(h, FALSE)
          BY <2>3, <3>1, <4>2
        <5> QED
          BY <3>2, <3>3, <4>1, <4>2, <5>1
      <4>3. CASE m # req[r].of
        BY <2>3, <3>1, <4>1, <4>3
      <4> QED
        BY <4>2, <4>3
    <3>5. DeletedIsGone'
      BY <2>3, <3>4 DEF DeletedIsGone
    <3>6. \A e \in Request : req[e].of \in Message
      BY <2>1 DEF ReqType
    <3>7. \A e \in Request : req'[e].pc = "message" => req'[e] = req[e]
      BY <2>2
    <3>8. \A q \in Request :
            /\ req'[q].kind = req[q].kind /\ req'[q].of = req[q].of
            /\ (req'[q].pc \in {"message", "history"}) => (req[q].pc \in {"message", "history"})
      BY <2>2
    <3>9. ASSUME NEW e \in Request, req'[e].kind = "edit", req'[e].pc = "message",
                 req'[e].of \notin overlap'
          PROVE  /\ \A i \in 1..Len(edits'[req'[e].of]) : ~edits'[req'[e].of][i]
                 /\ \A q \in Request :
                      req'[q].of = req'[e].of /\ req'[q].pc \in {"message", "history"}
                      => req'[q].kind # "delete"
      <4>1. req'[e] = req[e] /\ req[e].of \in Message
        BY <3>6, <3>7, <3>9
      <4>2. /\ \A i \in 1..Len(edits[req[e].of]) : ~edits[req[e].of][i]
            /\ \A q \in Request :
                 req[q].of = req[e].of /\ req[q].pc \in {"message", "history"}
                 => req[q].kind # "delete"
        BY <2>3, <3>9, <4>1 DEF EditIsAlone
      <4> QED
        BY <3>4, <3>8, <4>1, <4>2
    <3>10. EditIsAlone'
      BY <3>9 DEF EditIsAlone
    <3> QED
      BY <2>6, <3>5, <3>10
  <2> QED
    BY <2>7, <2>8
<1>17. ASSUME TaskFails PROVE Deletions'
  <2>1. UNCHANGED <<gone, edits, overlap>>
    BY <1>17 DEF TaskFails
  <2> QED
    BY <1>17, <2>1, FailedOnly, DeletionSame
<1>18. ASSUME UNCHANGED vars PROVE Deletions'
  <2>1. UNCHANGED <<gone, edits, overlap, req>>
    BY <1>18 DEF vars
  <2> QED
    BY <2>1, DeletionSame
<1> QED
  BY <1>1, <1>2, <1>3, <1>4, <1>5, <1>6, <1>7, <1>8, <1>9, <1>10, <1>11, <1>12, <1>13,
     <1>14, <1>15, <1>16, <1>17, <1>18 DEF Next

-----------------------------------------------------------------------------
(* What rows count together *)

\* The units of the rows after the first.
Others(s) == {p \in Units(s) : p[1] # 1}

LEMMA UpTo ==
  ASSUME NEW n \in Nat
  PROVE  IsFiniteSet(1..n) /\ Cardinality(1..n) = n
  BY FS_Interval

LEMMA UnitsAreFinite ==
  ASSUME NEW s \in Seq(Nat)
  PROVE  /\ IsFiniteSet(Units(s)) /\ Total(s) \in Nat
         /\ IsFiniteSet(Others(s)) /\ Cardinality(Others(s)) \in Nat
<1> DEFINE D == 1..Len(s)
           f == [i \in D |-> {i} \X (1..s[i])]
<1>1. Len(s) \in Nat /\ \A i \in D : s[i] \in Nat
  BY LenProperties
<1>2. IsFiniteSet(D)
  BY <1>1, FS_Interval
<1>3. IsFiniteSet({f[i] : i \in D})
  <2>1. f \in Surjection(D, {f[i] : i \in D})
    BY DEF Surjection
  <2> QED
    BY <1>2, <2>1, FS_Surjection
<1>4. \A T \in {f[i] : i \in D} : IsFiniteSet(T)
  <2>1. ASSUME NEW i \in D PROVE IsFiniteSet(f[i])
    <3>1. IsFiniteSet({i}) /\ IsFiniteSet(1..s[i])
      BY <1>1, FS_Singleton, UpTo
    <3> QED
      BY <3>1, FS_Product
  <2> QED
    BY <2>1
<1>5. Units(s) = UNION {f[i] : i \in D}
  BY DEF Units
<1>6. IsFiniteSet(Units(s))
  BY <1>3, <1>4, <1>5, FS_UNION
<1>7. Others(s) \in SUBSET Units(s)
  BY DEF Others
<1> QED
  BY <1>6, <1>7, FS_Subset, FS_CardinalityType DEF Total

LEMMA UnitsMember ==
  ASSUME NEW s \in Seq(Nat), NEW p
  PROVE  p \in Units(s) <=> \E i \in 1..Len(s) : \E j \in 1..s[i] : p = <<i, j>>
  BY DEF Units

LEMMA TotalOfNone == Units(<<>>) = {} /\ Total(<<>>) = 0
<1>1. Units(<<>>) = {}
  BY DEF Units
<1> QED
  BY <1>1, FS_EmptySet DEF Total

LEMMA TotalOfRest ==
  ASSUME NEW s \in Seq(Nat), s # <<>>
  PROVE  Total(s) = s[1] + Cardinality(Others(s))
<1> DEFINE F == {1} \X (1..s[1])
<1>1. Len(s) \in Nat /\ 1 \in 1..Len(s) /\ s[1] \in Nat
  BY LenProperties, EmptySeq
<1>2. Units(s) = F \cup Others(s) /\ F \cap Others(s) = {}
  <2>1. \A p : p \in F <=> \E j \in 1..s[1] : p = <<1, j>>
    OBVIOUS
  <2> HIDE DEF F
  <2> QED
    BY <1>1, <2>1, UnitsMember DEF Others
<1>3. IsFiniteSet(F) /\ Cardinality(F) = s[1]
  <2>1. IsFiniteSet({1}) /\ Cardinality({1}) = 1
    BY FS_Singleton
  <2>2. IsFiniteSet(1..s[1]) /\ Cardinality(1..s[1]) = s[1]
    BY <1>1, UpTo
  <2>3. IsFiniteSet(F) /\ Cardinality(F) = Cardinality({1}) * Cardinality(1..s[1])
    BY <2>1, <2>2, FS_Product
  <2> QED
    BY <1>1, <2>1, <2>2, <2>3
<1>4. Cardinality(F \cup Others(s)) =
        Cardinality(F) + Cardinality(Others(s)) - Cardinality(F \cap Others(s))
  BY <1>3, UnitsAreFinite, FS_Union
<1>5. Cardinality(F \cap Others(s)) = 0
  BY <1>2, FS_EmptySet
<1> QED
  BY <1>1, <1>2, <1>3, <1>4, <1>5, UnitsAreFinite DEF Total

LEMMA OthersSame ==
  ASSUME NEW s \in Seq(Nat), NEW e \in Seq(Nat), Len(e) = Len(s),
         \A i \in 1..Len(s) : i # 1 => e[i] = s[i]
  PROVE  Others(e) = Others(s)
<1>1. \A p : p \in Others(e) <=> \E i \in 1..Len(s) : i # 1 /\ \E j \in 1..e[i] : p = <<i, j>>
  BY UnitsMember DEF Others
<1>2. \A p : p \in Others(s) <=> \E i \in 1..Len(s) : i # 1 /\ \E j \in 1..s[i] : p = <<i, j>>
  BY UnitsMember DEF Others
<1>3. \A p : p \in Others(e) <=> p \in Others(s)
  BY <1>1, <1>2
<1> QED
  BY <1>3

\* A change of the first row leaves the others.
LEMMA TotalOfUpdate ==
  ASSUME NEW s \in Seq(Nat), s # <<>>, NEW n \in Nat, NEW e, e = [s EXCEPT ![1] = n]
  PROVE  /\ e \in Seq(Nat) /\ e # <<>> /\ e[1] = n
         /\ Others(e) = Others(s)
         /\ Total(e) = n + Cardinality(Others(s))
<1>1. Len(s) \in Nat /\ 1 \in 1..Len(s) /\ s \in [1..Len(s) -> Nat]
  BY LenProperties, EmptySeq
<1>2. e \in [1..Len(s) -> Nat]
  BY <1>1
<1>3. e \in Seq(Nat) /\ Len(e) = Len(s) /\ e # <<>>
  <2>1. e \in Seq(Nat) /\ DOMAIN e = 1..Len(s)
    BY <1>1, <1>2, SeqDef
  <2>2. Len(e) = Len(s)
    BY <1>1, <2>1, LenProperties
  <2> QED
    BY <1>1, <2>1, <2>2, EmptySeq
<1>4. e[1] = n /\ \A i \in 1..Len(s) : i # 1 => e[i] = s[i]
  BY <1>1
<1>5. Others(e) = Others(s)
  BY <1>3, <1>4, OthersSame
<1>6. Total(e) = n + Cardinality(Others(s))
  BY <1>3, <1>4, <1>5, TotalOfRest
<1> QED
  BY <1>3, <1>4, <1>5, <1>6

\* A row that is inserted counts nothing yet, or one message.
LEMMA TotalOfInsert ==
  ASSUME NEW s \in Seq(Nat), NEW n \in {0, 1}
  PROVE  /\ Total(Append(s, n)) = Total(s) + n
         /\ s # <<>> =>
              Cardinality(Others(Append(s, n))) = Cardinality(Others(s)) + n
<1> DEFINE a == Append(s, n)
           k == Len(s) + 1
<1>1. /\ a \in Seq(Nat) /\ Len(a) = k /\ Len(s) \in Nat /\ a[k] = n
      /\ \A i \in 1..Len(s) : a[i] = s[i]
  BY AppendProperties
<1> HIDE DEF a
<1>2. Units(a) = IF n = 0 THEN Units(s) ELSE Units(s) \cup {<<k, 1>>}
  <2>1. 1..Len(a) = (1..Len(s)) \cup {k} /\ k \notin 1..Len(s)
    BY <1>1
  <2>2. ASSUME NEW p PROVE p \in Units(a) <=> p \in Units(s) \/ (n = 1 /\ p = <<k, 1>>)
    <3>1. p \in Units(a) <=> \E i \in 1..Len(a) : \E j \in 1..a[i] : p = <<i, j>>
      BY <1>1, UnitsMember
    <3>2. p \in Units(s) <=> \E i \in 1..Len(s) : \E j \in 1..s[i] : p = <<i, j>>
      BY UnitsMember
    <3>3. (\E j \in 1..a[k] : p = <<k, j>>) <=> (n = 1 /\ p = <<k, 1>>)
      <4>1. 1..0 = {} /\ 1..1 = {1}
        OBVIOUS
      <4> HIDE DEF k
      <4> QED
        BY <1>1, <4>1
    <3>4. (\E i \in 1..Len(s) : \E j \in 1..a[i] : p = <<i, j>>)
            <=> (\E i \in 1..Len(s) : \E j \in 1..s[i] : p = <<i, j>>)
      BY <1>1
    <3> HIDE DEF k
    <3> QED
      BY <2>1, <3>1, <3>2, <3>3, <3>4
  <2> HIDE DEF k
  <2>3. CASE n = 0
    <3>1. \A p : p \in Units(a) <=> p \in Units(s)
      BY <2>2, <2>3
    <3>2. Units(a) = Units(s)
      BY <3>1
    <3> QED
      BY <2>3, <3>2
  <2>4. CASE n = 1
    <3>1. \A p : p \in Units(a) <=> p \in Units(s) \/ p = <<k, 1>>
      BY <2>2, <2>4
    <3>2. Units(a) = Units(s) \cup {<<k, 1>>}
      BY <3>1
    <3> QED
      BY <2>4, <3>2
  <2> QED
    BY <2>3, <2>4
<1>3. <<k, 1>> \notin Units(s)
  BY <1>1, UnitsMember
<1>4. Total(a) = Total(s) + n
  <2>1. Total(s) \in Nat /\ IsFiniteSet(Units(s))
    BY UnitsAreFinite
  <2>2. Cardinality(Units(s) \cup {<<k, 1>>}) = Cardinality(Units(s)) + 1
    BY <1>3, <2>1, FS_AddElement
  <2> HIDE DEF k
  <2> QED
    BY <1>2, <2>1, <2>2 DEF Total
<1>5. ASSUME s # <<>>
      PROVE  Cardinality(Others(a)) = Cardinality(Others(s)) + n
  <2>1. a # <<>> /\ a[1] = s[1] /\ s[1] \in Nat
    BY <1>1, <1>5, EmptySeq, LenProperties
  <2>2. Total(a) = a[1] + Cardinality(Others(a)) /\ Total(s) = s[1] + Cardinality(Others(s))
    BY <1>1, <1>5, <2>1, TotalOfRest
  <2>3. Cardinality(Others(a)) \in Nat /\ Cardinality(Others(s)) \in Nat
    BY <1>1, UnitsAreFinite
  <2> QED
    BY <1>4, <2>1, <2>2, <2>3
<1> QED
  BY <1>4, <1>5 DEF a
-----------------------------------------------------------------------------
(* CountIsExact *)

\* Messages that updateChannelStatus has counted.
Counted == {m \in Message : count[m].pc = "over"}

Counts(m) == count[m].pc \in {"insert", "update"}

\* No listener can make the rows count more than the listeners that are over: what one
\* has loaded, and what the other rows hold, is counted already.
CountFits ==
  /\ \A m \in Message : count[m].pc # "idle" => msg[m] = "emitted"
  /\ \A m \in Message : count[m].pc = "insert" => count[m].n = 0
  /\ Total(status) <= Cardinality(Counted)
  /\ \A m \in Message : count[m].pc = "update" =>
       count[m].n + Cardinality(Others(status)) <= Cardinality(Counted)

\* Until two listeners meet, the one that has loaded the count knows it.
CountIsKnown ==
  metCount \/
  /\ Total(status) = Cardinality(Counted)
  /\ \A m \in Message : count[m].pc = "insert" => status = <<>>
  /\ \A m \in Message : count[m].pc = "update" => count[m].n = status[1]
  /\ \A m, k \in Message : Counts(m) /\ Counts(k) => m = k

CountInv == CountFits /\ CountIsKnown

LEMMA CountedIsFinite ==
  ASSUME TypeOK, SentFirst, CountFits
  PROVE  IsFiniteSet(Counted) /\ Cardinality(Counted) \in Nat
<1>1. log \in Seq(Message) /\ Len(log) \in Nat
  BY DEF TypeOK
<1>2. IsFiniteSet(After(0))
  BY <1>1, AfterIsFinite
<1>3. Counted \subseteq After(0)
  <2>1. \A m \in Counted : IsSent(m)
    BY DEF Counted, CountFits, SentFirst
  <2> QED
    BY <1>1, <2>1 DEF IsSent, After, Counted
<1> QED
  BY <1>2, <1>3, FS_Subset, FS_CardinalityType

\* Steps that move a listener neither to nor from what it has loaded.
LEMMA CountSame ==
  ASSUME TypeOK, CountInv, UNCHANGED <<status, metCount>>,
         \A m \in Message : msg[m] = "emitted" => msg'[m] = "emitted",
         \A m \in Message : \/ count'[m] = count[m]
                            \/ /\ count'[m].pc \in {"find", "failed"}
                               /\ count[m].pc # "over" /\ msg'[m] = "emitted"
  PROVE  CountInv'
<1>1. Counted' = Counted
  BY DEF Counted
<1>2. CountFits'
  BY <1>1 DEF CountInv, CountFits
<1>3. CountIsKnown'
  BY <1>1 DEF CountInv, CountIsKnown, Counts
<1> QED
  BY <1>2, <1>3 DEF CountInv

LEMMA CountFound ==
  ASSUME TypeOK, CountInv, NEW m \in Message, FindStatus(m)
  PROVE  CountInv'
<1>1. /\ count[m].pc = "find" /\ count \in [Message -> Task] /\ status \in Seq(Nat)
      /\ UNCHANGED <<msg, status>> /\ count' = [count EXCEPT ![m] = Loaded(status)]
  BY DEF FindStatus, TypeOK, tables
<1>2. /\ count'[m] = Loaded(status)
      /\ \A k \in Message \ {m} : count'[k] = count[k]
  BY <1>1
<1>3. Loaded(status).pc \in {"insert", "update"}
  BY DEF Loaded
<1>4. Counted' = Counted
  BY <1>1, <1>2, <1>3 DEF Counted
<1>5. metCount' = FALSE => metCount = FALSE /\ \A k \in Message : ~Counts(k)
  BY DEF FindStatus, Holding, Counts, TypeOK
<1>6. /\ Loaded(status).pc = "insert" => status = <<>> /\ Loaded(status).n = 0
      /\ Loaded(status).pc = "update" => status # <<>> /\ Loaded(status).n = status[1]
  BY DEF Loaded
<1>7. CountFits'
  <2>1. \A k \in Message : count'[k].pc # "idle" => msg'[k] = "emitted"
    BY <1>1, <1>2 DEF CountInv, CountFits
  <2>2. \A k \in Message : count'[k].pc = "insert" => count'[k].n = 0
    BY <1>2, <1>6 DEF CountInv, CountFits
  <2>3. \A k \in Message : count'[k].pc = "update" =>
          count'[k].n + Cardinality(Others(status)) <= Cardinality(Counted)
    <3>1. status # <<>> => Total(status) = status[1] + Cardinality(Others(status))
      BY <1>1, TotalOfRest
    <3> QED
      BY <1>2, <1>6, <3>1 DEF CountInv, CountFits
  <2> QED
    BY <1>1, <1>4, <2>1, <2>2, <2>3 DEF CountInv, CountFits
<1>8. CountIsKnown'
  <2>1. SUFFICES ASSUME ~metCount' PROVE CountIsKnown'
    BY DEF CountIsKnown
  <2>2. ~metCount /\ \A k \in Message : Counts(k)' => k = m
    <3>1. metCount' \in BOOLEAN
      BY DEF FindStatus, TypeOK
    <3> QED
      BY <1>2, <1>5, <2>1, <3>1 DEF Counts
  <2> QED
    BY <1>1, <1>2, <1>4, <1>6, <2>2 DEF CountInv, CountIsKnown, Counts
<1> QED
  BY <1>7, <1>8 DEF CountInv

LEMMA CountSaved ==
  ASSUME TypeOK, SentFirst, CountInv, NEW m \in Message, SaveStatus(m)
  PROVE  CountInv'
<1> DEFINE C == Cardinality(Counted)
           O == Cardinality(Others(status))
<1>1. /\ Counts(m) /\ count \in [Message -> Task] /\ status \in Seq(Nat)
      /\ UNCHANGED <<msg, metCount>> /\ count' = [count EXCEPT ![m].pc = "over"]
      /\ status' = Saved(status, count[m], count[m].n + 1)
      /\ count[m].n \in Nat
  BY DEF SaveStatus, CountedOnce, TypeOK, history, Counts, Task
<1>2. /\ count'[m].pc = "over"
      /\ \A k \in Message \ {m} : count'[k] = count[k]
  BY <1>1 DEF Task
<1>3. Counted' = Counted \cup {m} /\ m \notin Counted
  BY <1>1, <1>2 DEF Counted, Counts
<1>4. C \in Nat /\ Cardinality(Counted') = C + 1
  BY <1>3, CountedIsFinite, FS_AddElement DEF CountInv
<1>5. O \in Nat /\ Total(status) \in Nat
  BY <1>1, UnitsAreFinite
<1>6. \A k \in Message : count'[k].pc # "idle" => msg'[k] = "emitted"
  BY <1>1, <1>2 DEF CountInv, CountFits, Counts
<1>7. \A k \in Message : count'[k].pc \in {"insert", "update"} => k # m /\ count'[k] = count[k]
  BY <1>2
<1>8. \A k \in Message : count[k].pc = "update" => count[k].n + O <= C /\ count[k].n \in Nat
  BY <1>1 DEF CountInv, CountFits, Task
<1>9. metCount \/ (Total(status) = C /\ \A k \in Message : Counts(k)' => FALSE)
  BY <1>1, <1>7 DEF CountInv, CountIsKnown, Counts
<1>10. CASE count[m].pc = "insert"
  <2>1. status' = Append(status, 1)
    BY <1>1, <1>10 DEF Saved, CountInv, CountFits
  <2>2. /\ Total(status') = Total(status) + 1
        /\ status # <<>> => Cardinality(Others(status')) = O + 1
    BY <1>1, <2>1, TotalOfInsert
  <2>3. \A k \in Message : count[k].pc = "update" => status # <<>>
    BY DEF TypeOK
  <2>4. CountFits'
    <3>1. Total(status') <= C + 1
      BY <1>4, <1>5, <2>2 DEF CountInv, CountFits
    <3>2. \A k \in Message : count'[k].pc = "update" =>
            count'[k].n + Cardinality(Others(status')) <= C + 1
      <4> HIDE DEF C, O
      <4> QED
        BY <1>4, <1>5, <1>7, <1>8, <2>2, <2>3
    <3> QED
      BY <1>4, <1>6, <1>7, <3>1, <3>2 DEF CountInv, CountFits
  <2>5. CountIsKnown'
    BY <1>1, <1>4, <1>9, <2>2 DEF CountIsKnown, Counts
  <2> QED
    BY <2>4, <2>5 DEF CountInv
<1>11. CASE count[m].pc = "update"
  <2>1. status # <<>> /\ status' = [status EXCEPT ![1] = count[m].n + 1]
    BY <1>1, <1>11 DEF Saved, TypeOK
  <2>2. Others(status') = Others(status) /\ Total(status') = count[m].n + 1 + O
    <3>1. count[m].n + 1 \in Nat
      BY <1>1
    <3> QED
      BY <1>1, <2>1, <3>1, TotalOfUpdate
  <2>3. CountFits'
    <3>1. Total(status') <= C + 1
      BY <1>1, <1>4, <1>5, <1>8, <1>11, <2>2
    <3>2. \A k \in Message : count'[k].pc = "update" =>
            count'[k].n + Cardinality(Others(status')) <= C + 1
      <4> HIDE DEF C, O
      <4> QED
        BY <1>4, <1>5, <1>7, <1>8, <2>2 DEF O
    <3> QED
      BY <1>4, <1>6, <1>7, <3>1, <3>2 DEF CountInv, CountFits
  <2>4. metCount \/ Total(status') = C + 1
    <3>1. metCount \/ count[m].n = status[1]
      BY <1>11 DEF CountInv, CountIsKnown
    <3>2. Total(status) = status[1] + O /\ status[1] \in Nat
      BY <1>1, <2>1, TotalOfRest, EmptySeq, LenProperties
    <3> HIDE DEF C, O
    <3> QED
      BY <1>1, <1>4, <1>5, <1>9, <2>2, <3>1, <3>2
  <2>5. CountIsKnown'
    BY <1>1, <1>4, <1>9, <2>4 DEF CountIsKnown, Counts
  <2> QED
    BY <2>3, <2>5 DEF CountInv
<1> QED
  BY <1>1, <1>10, <1>11 DEF Counts

LEMMA CountStep == TypeOK /\ SentFirst /\ CountInv /\ [Next]_vars => CountInv'
<1> SUFFICES ASSUME TypeOK, SentFirst, CountInv, [Next]_vars PROVE CountInv'
  OBVIOUS
<1> USE DEF tables, history
<1>1. ASSUME NEW m \in Message, Insert(m) PROVE CountInv'
  <2>1. UNCHANGED <<status, metCount, count>> /\ msg[m] = "new"
    BY <1>1 DEF Insert
  <2>2. \A k \in Message : msg[k] = "emitted" => msg'[k] = "emitted"
    BY <1>1, <2>1 DEF Insert, TypeOK
  <2> QED
    BY <2>1, <2>2, CountSame
<1>2. ASSUME NEW m \in Message, Emit(m) PROVE CountInv'
  <2>1. /\ UNCHANGED <<status, metCount>> /\ msg[m] = "inserted"
        /\ msg' = [msg EXCEPT ![m] = "emitted"]
        /\ count' = [count EXCEPT ![m].pc = IF "count" \in on THEN "find" ELSE @]
    BY <1>2 DEF Emit
  <2>2. \A k \in Message : msg[k] = "emitted" => msg'[k] = "emitted"
    BY <2>1 DEF TypeOK
  <2>3. count[m].pc = "idle" /\ count[m] \in Task /\ msg'[m] = "emitted"
    BY <2>1 DEF CountInv, CountFits, TypeOK
  <2>4. count'[m] = count[m] \/ count'[m].pc = "find"
    <3>1. CASE "count" \in on
      BY <2>1, <3>1 DEF TypeOK, Task
    <3>2. CASE "count" \notin on
      <4>1. count'[m] = [count[m] EXCEPT !.pc = count[m].pc]
        BY <2>1, <3>2 DEF TypeOK
      <4> QED
        BY <2>3, <4>1 DEF Task
    <3> QED
      BY <3>1, <3>2
  <2>5. \A k \in Message \ {m} : count'[k] = count[k]
    BY <2>1 DEF TypeOK
  <2> QED
    BY <2>1, <2>2, <2>3, <2>4, <2>5, CountSame
<1>3. ASSUME NEW m \in Message, FindStatus(m) PROVE CountInv'
  BY <1>3, CountFound
<1>4. ASSUME NEW m \in Message, SaveStatus(m) PROVE CountInv'
  BY <1>4, CountSaved
<1>5. ASSUME TaskFails PROVE CountInv'
  <2>1. /\ UNCHANGED <<status, metCount, msg>>
        /\ \/ UNCHANGED count
           \/ \E m \in Message : /\ count[m].pc \in {"find", "insert", "update"}
                                 /\ count' = [count EXCEPT ![m].pc = "failed"]
    BY <1>5 DEF TaskFails
  <2>2. \A m \in Message : \/ count'[m] = count[m]
                           \/ /\ count'[m].pc = "failed"
                              /\ count[m].pc \in {"find", "insert", "update"}
    BY <2>1 DEF TypeOK, Task
  <2>3. \A m \in Message : count[m].pc \in {"find", "insert", "update"} => msg[m] = "emitted"
    BY DEF CountInv, CountFits
  <2> QED
    BY <2>1, <2>2, <2>3, CountSame
<1>6. CASE /\ UNCHANGED <<status, metCount, count>>
           /\ \A m \in Message : msg[m] = "emitted" => msg'[m] = "emitted"
  BY <1>6, CountSame
<1>7. ASSUME NEW m \in Message, SendFails(m) PROVE CountInv'
  BY <1>6, <1>7 DEF SendFails, TypeOK
<1>8. ASSUME NEW m \in Message, IncreaUnread(m) \/ FindOwn(m) \/ SaveOwn(m) PROVE CountInv'
  BY <1>6, <1>8 DEF IncreaUnread, FindOwn, SaveOwn
<1>9. ASSUME NEW x \in Message \cup Request, FindUsage(x) \/ SaveUsage(x) PROVE CountInv'
  BY <1>6, <1>9 DEF FindUsage, SaveUsage
<1>10. ASSUME NEW r \in Request, FindSeen(r) \/ CountUnread(r) \/ SaveSeen(r) PROVE CountInv'
  BY <1>6, <1>10 DEF FindSeen, CountUnread, SaveSeen
<1>11. ASSUME NEW r \in Request, FindMessage(r) \/ SaveMessage(r) \/ SaveHistory(r)
       PROVE  CountInv'
  BY <1>6, <1>11 DEF FindMessage, SaveMessage, SaveHistory
<1>12. ASSUME UNCHANGED vars PROVE CountInv'
  BY <1>6, <1>12 DEF vars
<1> QED
  BY <1>1, <1>2, <1>3, <1>4, <1>5, <1>7, <1>8, <1>9, <1>10, <1>11, <1>12 DEF Next

LEMMA CountInvImplies ==
  ASSUME CountInv
  PROVE  CountIsExact
  BY DEF CountInv, CountFits, CountIsKnown, CountIsExact, Counted
-----------------------------------------------------------------------------
(* A message is deleted once *)

\* Requests keep to their kind, deletions are the sender's, and the event of a request
\* follows its end.
RequestsInOrder ==
  \A r \in Request :
    /\ req[r].kind = "delete" => owner[req[r].of] = req[r].by
    /\ req[r].pc \in {"count", "insert", "update"} => req[r].kind = "see"
    /\ use[r].pc # "idle" => req[r].pc = "done"

\* A deletion under way is alone with its message and knows its history, in which no
\* deletion is; once it is over, the first row of the history says so.
Marked(h) == h # <<>> /\ h[1]

Known(r) ==
  /\ req[r].pc = "done" => Marked(edits[req[r].of])
  /\ req[r].pc \in {"message", "history"} =>
       /\ req[r].found <=> edits[req[r].of] # <<>>
       /\ ~Marked(edits[req[r].of])
       /\ Under(req[r].of) = {r}

DeletionIsKnown ==
  \A r \in Request : req[r].kind = "delete" /\ req[r].of \notin overlap => Known(r)

DeletedOnce ==
  \A r, q \in Request :
    /\ req[r].kind = "delete" /\ req[q].kind = "delete"
    /\ req[r].of = req[q].of /\ req[r].of \notin overlap
    /\ req[r].pc = "done" /\ req[q].pc = "done"
    => r = q

RequestInv == RequestsInOrder /\ DeletionIsKnown /\ DeletedOnce

LEMMA MarkedFirst ==
  ASSUME NEW h \in Seq(BOOLEAN), h # <<>>
  PROVE  [h EXCEPT ![1] = TRUE] # <<>> /\ [h EXCEPT ![1] = TRUE][1]
<1>1. Len(h) \in Nat /\ 1 \in 1..Len(h) /\ h \in [1..Len(h) -> BOOLEAN]
  BY LenProperties, EmptySeq
<1>2. [h EXCEPT ![1] = TRUE][1] = TRUE /\ DOMAIN [h EXCEPT ![1] = TRUE] = 1..Len(h)
  BY <1>1
<1>3. DOMAIN <<>> = 1..0
  OBVIOUS
<1> QED
  BY <1>1, <1>2, <1>3

\* Steps after which no more requests write, and no more deletions are over.
LEMMA RequestSame ==
  ASSUME TypeOK, RequestInv, UNCHANGED <<owner, edits, overlap>>,
         \A r \in Request :
           /\ req'[r].kind = req[r].kind /\ req'[r].by = req[r].by /\ req'[r].of = req[r].of
           /\ req'[r].found = req[r].found
           /\ \/ req'[r].pc = req[r].pc
              \/ req[r].pc # "done" /\ req'[r].pc = "failed"
              \/ req[r].kind = "see" /\ req[r].pc # "done" /\
                 req'[r].pc \in {"count", "insert", "update", "done"}
           /\ use'[r].pc = "idle" <=> use[r].pc = "idle"
  PROVE  RequestInv'
<1>1. \A r \in Request :
        /\ req'[r].kind = "delete" /\ req'[r].pc \in {"message", "history", "done"} =>
             req[r].kind = "delete" /\ req'[r].pc = req[r].pc
        /\ req'[r].pc \in {"message", "history"} => req[r].pc = req'[r].pc
  OBVIOUS
<1>2. RequestsInOrder'
  <2>1. SUFFICES ASSUME NEW r \in Request
                 PROVE  /\ req'[r].kind = "delete" => owner'[req'[r].of] = req'[r].by
                        /\ req'[r].pc \in {"count", "insert", "update"} => req'[r].kind = "see"
                        /\ use'[r].pc # "idle" => req'[r].pc = "done"
    BY DEF RequestsInOrder
  <2>2. /\ req[r].kind = "delete" => owner[req[r].of] = req[r].by
        /\ req[r].pc \in {"count", "insert", "update"} => req[r].kind = "see"
        /\ use[r].pc # "idle" => req[r].pc = "done"
    BY DEF RequestInv, RequestsInOrder
  <2> QED
    BY <2>2
<1>3. DeletionIsKnown'
  <2>1. SUFFICES ASSUME NEW r \in Request, req[r].kind = "delete", req[r].of \notin overlap
                 PROVE  Known(r)'
    BY DEF DeletionIsKnown
  <2>2. Known(r)
    BY <2>1 DEF RequestInv, DeletionIsKnown
  <2>3. req'[r].pc = req[r].pc /\ req[r].pc \in {"message", "history"}
        => Under(req[r].of)' \subseteq Under(req[r].of) /\ r \in Under(req[r].of)'
    BY <1>1 DEF Under
  <2>4. req'[r].of = req[r].of
    OBVIOUS
  <2> QED
    BY <1>1, <2>1, <2>2, <2>3, <2>4 DEF Known
<1>4. DeletedOnce'
  BY <1>1 DEF RequestInv, DeletedOnce
<1> QED
  BY <1>2, <1>3, <1>4 DEF RequestInv

LEMMA RequestFinds ==
  ASSUME TypeOK, RequestInv, NEW r \in Request, FindMessage(r)
  PROVE  RequestInv'
<1>1. req \in [Request -> ReqType] /\ req[r] \in ReqType
  BY DEF TypeOK
<1>2. /\ req'[r].kind = req[r].kind /\ req'[r].of = req[r].of /\ req'[r].by = req[r].by
      /\ req[r].kind # "see" /\ req[r].pc = "new"
      /\ req'[r].found = (req[r].kind = "delete" /\ edits[req[r].of] # <<>>)
      /\ req'[r].pc \in {"message", "failed"}
      /\ req[r].kind = "delete" /\ req'[r].pc = "message" => MayDelete(req[r].of)
      /\ \A q \in Request \ {r} : req'[q] = req[q]
      /\ UNCHANGED <<owner, edits, use>>
  BY <1>1 DEF FindMessage, ReqType, tables
<1>3. /\ overlap \subseteq overlap'
      /\ req'[r].pc = "message" /\ req[r].of \notin overlap' =>
           \A q \in Under(req[r].of) : req[r].kind # "delete" /\ req[q].kind # "delete"
  BY <1>2 DEF FindMessage
<1>4. RequestsInOrder'
  BY <1>2 DEF RequestInv, RequestsInOrder
<1>5. DeletionIsKnown'
  <2>1. SUFFICES ASSUME NEW d \in Request, req'[d].kind = "delete", req'[d].of \notin overlap'
                 PROVE  Known(d)'
    BY DEF DeletionIsKnown
  <2>2. CASE d = r
    <3>1. req'[r].pc = "message" => Under(req[r].of) = {}
      BY <1>2, <1>3, <2>1, <2>2
    <3>2. req'[r].pc = "message" => Under(req[r].of)' = {r}
      BY <1>2, <3>1 DEF Under
    <3>3. req'[r].pc = "message" => ~Marked(edits[req[r].of])
      BY <1>2, <2>1, <2>2 DEF MayDelete, Marked
    <3> QED
      BY <1>2, <2>1, <2>2, <3>2, <3>3 DEF Known
  <2>3. CASE d # r
    <3>1. req'[d] = req[d] /\ req[d].kind = "delete" /\ req[d].of \notin overlap
      BY <1>2, <1>3, <2>1, <2>3
    <3>2. Known(d)
      BY <3>1 DEF RequestInv, DeletionIsKnown
    <3>3. ASSUME req[d].pc \in {"message", "history"} PROVE Under(req[d].of)' = {d}
      <4>1. d \in Under(req[d].of) /\ Under(req[d].of) = {d}
        BY <3>2, <3>3 DEF Under, Known
      <4>2. ~(req'[r].pc = "message" /\ req[r].of = req[d].of)
        BY <1>2, <1>3, <2>1, <3>1, <4>1
      <4>3. r \notin Under(req[d].of)'
        BY <1>2, <4>2 DEF Under
      <4>4. \A q \in Request \ {r} : q \in Under(req[d].of)' <=> q \in Under(req[d].of)
        BY <1>2 DEF Under
      <4>5. Under(req[d].of)' \subseteq Request
        BY DEF Under
      <4> QED
        BY <2>3, <4>1, <4>3, <4>4, <4>5
    <3> QED
      BY <1>2, <3>1, <3>2, <3>3 DEF Known
  <2> QED
    BY <2>2, <2>3
<1>6. DeletedOnce'
  <2>1. \A q \in Request : req'[q].pc = "done" => req'[q] = req[q]
    BY <1>2
  <2> QED
    BY <1>3, <2>1 DEF RequestInv, DeletedOnce
<1> QED
  BY <1>4, <1>5, <1>6 DEF RequestInv

LEMMA RequestWrites ==
  ASSUME TypeOK, RequestInv, NEW r \in Request, SaveMessage(r)
  PROVE  RequestInv'
<1>1. req \in [Request -> ReqType] /\ req[r] \in ReqType
  BY DEF TypeOK
<1>2. /\ req[r].pc = "message" /\ req' = [req EXCEPT ![r].pc = "history"]
      /\ UNCHANGED <<owner, edits, overlap, use>>
  BY DEF SaveMessage, history
<1>3. \A q \in Request :
        /\ req'[q].kind = req[q].kind /\ req'[q].by = req[q].by /\ req'[q].of = req[q].of
        /\ req'[q].found = req[q].found
        /\ req'[q].pc \in {"message", "history"} <=> req[q].pc \in {"message", "history"}
        /\ req'[q].pc = req[q].pc \/ (req[q].pc = "message" /\ req'[q].pc = "history")
  BY <1>1, <1>2 DEF ReqType
<1>4. \A m : Under(m)' = Under(m)
  BY <1>3 DEF Under
<1>5. RequestsInOrder' /\ DeletedOnce'
  BY <1>2, <1>3 DEF RequestInv, RequestsInOrder, DeletedOnce
<1>6. DeletionIsKnown'
  <2>1. SUFFICES ASSUME NEW d \in Request, req[d].kind = "delete", req[d].of \notin overlap
                 PROVE  Known(d)'
    BY <1>2, <1>3 DEF DeletionIsKnown
  <2>2. Known(d)
    BY <2>1 DEF RequestInv, DeletionIsKnown
  <2>3. req'[d].of = req[d].of /\ edits' = edits
    BY <1>2, <1>3
  <2> QED
    BY <1>3, <1>4, <2>2, <2>3 DEF Known
<1> QED
  BY <1>5, <1>6 DEF RequestInv

LEMMA RequestEnds ==
  ASSUME TypeOK, RequestInv, WritersOnly, NEW r \in Request, SaveHistory(r)
  PROVE  RequestInv'
<1> DEFINE m == req[r].of
           h == edits[req[r].of]
<1>1. req \in [Request -> ReqType] /\ req[r] \in ReqType /\ m \in Message
      /\ h \in Seq(BOOLEAN) /\ use \in [Message \cup Request -> Task]
  BY DEF TypeOK, ReqType
<1>2. /\ req[r].pc = "history" /\ req' = [req EXCEPT ![r].pc = "done"]
      /\ use' = [use EXCEPT ![r].pc = "find"]
      /\ UNCHANGED <<owner, overlap>>
      /\ edits' = [edits EXCEPT ![m] = IF req[r].found THEN [h EXCEPT ![1] = TRUE]
                                       ELSE Append(h, req[r].kind = "delete")]
  BY DEF SaveHistory, history
<1>3. /\ \A q \in Request :
           /\ req'[q].kind = req[q].kind /\ req'[q].by = req[q].by /\ req'[q].of = req[q].of
           /\ req'[q].found = req[q].found
      /\ \A q \in Request \ {r} : req'[q] = req[q] /\ use'[q] = use[q]
      /\ req'[r].pc = "done"
  BY <1>1, <1>2 DEF ReqType
<1>4. RequestsInOrder'
  BY <1>2, <1>3 DEF RequestInv, RequestsInOrder
<1>5. \A k \in Message \ {m} : edits'[k] = edits[k]
  BY <1>2 DEF TypeOK
<1>6. edits'[m] = IF req[r].found THEN [h EXCEPT ![1] = TRUE]
                  ELSE Append(h, req[r].kind = "delete")
  BY <1>1, <1>2 DEF TypeOK
<1>7. /\ req[r].found => req[r].kind = "delete"
      /\ req[r].kind = "delete" /\ m \notin overlap =>
           (req[r].found <=> h # <<>>) /\ ~Marked(h) /\ Under(m) = {r}
  BY <1>2 DEF RequestInv, DeletionIsKnown, Known, WritersOnly
<1>8. h # <<>> => 1 \in 1..Len(h)
  BY <1>1, EmptySeq
<1>9. Marked(h) => Marked(edits'[m])
  <2>1. SUFFICES ASSUME h # <<>>, h[1] PROVE edits'[m] # <<>> /\ edits'[m][1]
    BY DEF Marked
  <2>2. CASE req[r].found
    <3>1. edits'[m] = [h EXCEPT ![1] = TRUE]
      BY <1>6, <2>2
    <3> HIDE DEF h, m
    <3> QED
      BY <1>1, <1>8, <2>1, <3>1, MarkedFirst
  <2>3. CASE ~req[r].found
    <3>1. edits'[m] = Append(h, req[r].kind = "delete") /\ (req[r].kind = "delete") \in BOOLEAN
      BY <1>6, <2>3
    <3> DEFINE d == req[r].kind = "delete"
    <3>2. d \in BOOLEAN /\ edits'[m] = Append(h, d)
      BY <3>1
    <3> HIDE DEF h, m, d
    <3> QED
      BY <1>1, <1>8, <2>1, <3>2, AppendProperties
  <2> QED
    BY <2>2, <2>3
<1>10. req[r].kind = "delete" /\ m \notin overlap => Marked(edits'[m])
  <2>1. SUFFICES ASSUME req[r].kind = "delete", m \notin overlap
                 PROVE  edits'[m] # <<>> /\ edits'[m][1]
    BY DEF Marked
  <2>2. CASE h # <<>>
    <3>1. edits'[m] = [h EXCEPT ![1] = TRUE]
      BY <1>6, <1>7, <2>1, <2>2
    <3> HIDE DEF h, m
    <3> QED
      BY <1>1, <1>8, <2>2, <3>1, MarkedFirst
  <2>3. CASE h = <<>>
    <3>1. edits'[m] = Append(<<>>, TRUE)
      BY <1>6, <1>7, <2>1, <2>3
    <3> HIDE DEF m
    <3> QED
      BY <3>1
  <2> QED
    BY <2>2, <2>3
<1>11. DeletionIsKnown'
  <2>1. SUFFICES ASSUME NEW d \in Request, req[d].kind = "delete", req[d].of \notin overlap
                 PROVE  Known(d)'
    BY <1>2, <1>3 DEF DeletionIsKnown
  <2>2. CASE d = r
    BY <1>3, <1>10, <2>1, <2>2 DEF Known
  <2>3. CASE d # r
    <3>1. req'[d] = req[d] /\ req[d] \in ReqType
      BY <1>1, <1>3, <2>3
    <3>2. Known(d)
      BY <2>1 DEF RequestInv, DeletionIsKnown
    <3>3. req[d].pc \in {"message", "history"} => req[d].of # m
      <4>1. r \in Under(m)
        BY <1>2 DEF Under
      <4> QED
        BY <2>3, <3>2, <4>1 DEF Known
    <3>4. req[d].of # m => edits'[req[d].of] = edits[req[d].of]
      BY <1>5, <3>1 DEF ReqType
    <3>5. Under(req[d].of)' = Under(req[d].of) \ {r}
      BY <1>3 DEF Under
    <3> QED
      BY <1>9, <2>3, <3>1, <3>2, <3>3, <3>4, <3>5 DEF Known
  <2> QED
    BY <2>2, <2>3
<1>12. DeletedOnce'
  <2>1. ASSUME NEW q \in Request, req[q].kind = "delete", req[r].kind = "delete",
               req[q].of = m, m \notin overlap, req[q].pc = "done"
        PROVE  FALSE
    <3>1. Marked(h)
      BY <2>1 DEF RequestInv, DeletionIsKnown, Known
    <3> QED
      BY <1>7, <2>1, <3>1
  <2> QED
    BY <1>2, <1>3, <2>1 DEF RequestInv, DeletedOnce
<1> QED
  BY <1>4, <1>11, <1>12 DEF RequestInv

LEMMA RequestStep ==
  TypeOK /\ SentFirst /\ WritersOnly /\ RequestInv /\ [Next]_vars => RequestInv'
<1> SUFFICES ASSUME TypeOK, SentFirst, WritersOnly, RequestInv, [Next]_vars PROVE RequestInv'
  OBVIOUS
<1> USE DisjointAssumption DEF tables, history
<1>0. req \in [Request -> ReqType] /\ use \in [Message \cup Request -> Task]
  BY DEF TypeOK
<1>1. CASE /\ UNCHANGED <<owner, edits, overlap, req>>
           /\ \A r \in Request : use'[r].pc = "idle" <=> use[r].pc = "idle"
  BY <1>1, RequestSame
<1>2. CASE UNCHANGED <<owner, edits, overlap, req, use>>
  BY <1>1, <1>2
<1>3. ASSUME NEW m \in Message, Emit(m) PROVE RequestInv'
  <2>1. \A r \in Request : use'[r] = use[r]
    BY <1>0, <1>3 DEF Emit
  <2> QED
    BY <1>1, <1>3, <2>1 DEF Emit
<1>4. ASSUME NEW m \in Message,
             Insert(m) \/ SendFails(m) \/ IncreaUnread(m) \/ FindOwn(m) \/ SaveOwn(m)
             \/ FindStatus(m) \/ SaveStatus(m)
      PROVE  RequestInv'
  BY <1>2, <1>4 DEF Insert, SendFails, IncreaUnread, FindOwn, SaveOwn, FindStatus, SaveStatus
<1>5. ASSUME NEW x \in Message \cup Request, FindUsage(x) PROVE RequestInv'
  <2>1. \A r \in Request : use'[r].pc = "idle" <=> use[r].pc = "idle"
    BY <1>0, <1>5 DEF FindUsage, Loaded
  <2> QED
    BY <1>1, <1>5, <2>1 DEF FindUsage
<1>6. ASSUME NEW x \in Message \cup Request, SaveUsage(x) PROVE RequestInv'
  <2>1. \A r \in Request : use'[r].pc = "idle" <=> use[r].pc = "idle"
    BY <1>0, <1>6 DEF SaveUsage, Task
  <2> QED
    BY <1>1, <1>6, <2>1 DEF SaveUsage
<1>7. ASSUME NEW r \in Request, FindSeen(r) PROVE RequestInv'
  <2>1. /\ req[r].kind = "see" /\ req[r].pc = "new"
        /\ req'[r].kind = req[r].kind /\ req'[r].by = req[r].by /\ req'[r].of = req[r].of
        /\ req'[r].pc = "count"
        /\ \A q \in Request \ {r} : req'[q] = req[q]
        /\ UNCHANGED <<owner, edits, overlap, use>>
    BY <1>0, <1>7 DEF FindSeen, ReqType
  <2>2. \A m : Under(m)' = Under(m)
    BY <2>1 DEF Under
  <2>3. RequestsInOrder' /\ DeletedOnce'
    BY <2>1 DEF RequestInv, RequestsInOrder, DeletedOnce
  <2>4. DeletionIsKnown'
    <3>1. SUFFICES ASSUME NEW d \in Request, req[d].kind = "delete", req[d].of \notin overlap
                   PROVE  Known(d)'
      BY <2>1 DEF DeletionIsKnown
    <3>2. Known(d) /\ d # r
      BY <2>1, <3>1 DEF RequestInv, DeletionIsKnown
    <3> QED
      BY <2>1, <2>2, <3>2 DEF Known
  <2> QED
    BY <2>3, <2>4 DEF RequestInv
<1>8. ASSUME NEW r \in Request, CountUnread(r) PROVE RequestInv'
  <2>1. /\ req[r].pc = "count" /\ req[r] \in ReqType
        /\ req'[r].kind = req[r].kind /\ req'[r].by = req[r].by /\ req'[r].of = req[r].of
        /\ req'[r].found = req[r].found /\ req'[r].pc \in {"insert", "update"}
        /\ \A q \in Request \ {r} : req'[q] = req[q]
        /\ UNCHANGED <<owner, edits, overlap, use>>
    BY <1>0, <1>8 DEF CountUnread, ReqType
  <2>2. req[r].kind = "see"
    BY <2>1 DEF RequestInv, RequestsInOrder
  <2> QED
    BY <2>1, <2>2, RequestSame
<1>9. ASSUME NEW r \in Request, SaveSeen(r) PROVE RequestInv'
  <2>1. /\ req[r].pc \in {"insert", "update"} /\ req[r] \in ReqType
        /\ req'[r].kind = req[r].kind /\ req'[r].by = req[r].by /\ req'[r].of = req[r].of
        /\ req'[r].found = req[r].found /\ req'[r].pc \in {"done", "failed"}
        /\ \A q \in Request \ {r} : req'[q] = req[q]
        /\ UNCHANGED <<owner, edits, overlap, use>>
    BY <1>0, <1>9 DEF SaveSeen, ReqType
  <2>2. req[r].kind = "see"
    BY <2>1 DEF RequestInv, RequestsInOrder
  <2> QED
    BY <2>1, <2>2, RequestSame
<1>10. ASSUME NEW r \in Request, FindMessage(r) PROVE RequestInv'
  BY <1>10, RequestFinds
<1>11. ASSUME NEW r \in Request, SaveMessage(r) PROVE RequestInv'
  BY <1>11, RequestWrites
<1>12. ASSUME NEW r \in Request, SaveHistory(r) PROVE RequestInv'
  BY <1>12, RequestEnds
<1>13. ASSUME TaskFails PROVE RequestInv'
  <2>1. UNCHANGED <<owner, edits, overlap>>
    BY <1>13 DEF TaskFails
  <2>2. \A x \in Message \cup Request : use'[x].pc = "idle" <=> use[x].pc = "idle"
    BY <1>13, FailedOnly
  <2> QED
    BY <1>13, <2>1, <2>2, FailedOnly, RequestSame
<1>14. ASSUME UNCHANGED vars PROVE RequestInv'
  BY <1>2, <1>14 DEF vars
<1> QED
  BY <1>3, <1>4, <1>5, <1>6, <1>7, <1>8, <1>9, <1>10, <1>11, <1>12, <1>13, <1>14 DEF Next
-----------------------------------------------------------------------------
(* UsageIsExact *)

Saves(x)   == use[x].pc \in {"insert", "update"}
Sent(u)    == {m \in Message : owner[m] = u /\ use[m].pc = "over"}
Deleted(u) == {m \in Message : owner[m] = u /\ \E r \in Request :
                 req[r].of = m /\ req[r].kind = "delete" /\ use[r].pc = "over"}

Overlapped(u) == \E m \in overlap : owner[m] = u

\* Until two listeners of a user meet, the one that has loaded his usage knows it.
UsageIsKnown ==
  \A x \in Message \cup Request : Saves(x) /\ Of(x) \notin metUse =>
    /\ use[x].pc = "insert" => usage[Of(x)] = <<>> /\ use[x].n = 0
    /\ use[x].pc = "update" => usage[Of(x)] # <<>> /\ use[x].n = usage[Of(x)][1]
    /\ \A y \in Message \cup Request : Saves(y) /\ Of(y) = Of(x) => y = x

UsageAdds(u) == Total(usage[u]) + Cardinality(Deleted(u)) = Cardinality(Sent(u))

UsageInv ==
  /\ UsageIsKnown
  /\ \A u \in User \ metUse : ~Overlapped(u) => UsageAdds(u)

LEMMA SentIsFinite ==
  ASSUME TypeOK, SentFirst, RequestInv, NEW u
  PROVE  /\ IsFiniteSet(Sent(u)) /\ Cardinality(Sent(u)) \in Nat
         /\ IsFiniteSet(Deleted(u)) /\ Cardinality(Deleted(u)) \in Nat
<1>1. log \in Seq(Message) /\ Len(log) \in Nat
  BY DEF TypeOK
<1>2. IsFiniteSet(After(0))
  BY <1>1, AfterIsFinite
<1>3. \A m \in Message : IsSent(m) => m \in After(0)
  BY <1>1 DEF IsSent, After
<1>4. \A m \in Sent(u) : m \in Message /\ IsSent(m)
  BY DEF Sent, SentFirst
<1>5. \A m \in Deleted(u) : m \in Message /\ IsSent(m)
  BY DEF Deleted, SentFirst, RequestInv, RequestsInOrder
<1>6. Sent(u) \in SUBSET After(0) /\ Deleted(u) \in SUBSET After(0)
  BY <1>3, <1>4, <1>5
<1> QED
  BY <1>2, <1>6, FS_Subset, FS_CardinalityType

\* Steps that move a listener neither to nor from what it has loaded.
LEMMA UsageSame ==
  ASSUME TypeOK, UsageInv, UNCHANGED <<owner, usage, metUse>>, overlap \subseteq overlap',
         \A r \in Request : /\ req'[r].kind = req[r].kind /\ req'[r].by = req[r].by
                            /\ req'[r].of = req[r].of,
         \A x \in Message \cup Request :
           use'[x] = use[x] \/ (use'[x].pc \in {"find", "failed"} /\ use[x].pc # "over")
  PROVE  UsageInv'
<1>1. \A u : Sent(u)' = Sent(u) /\ Deleted(u)' = Deleted(u)
  BY DEF Sent, Deleted
<1>2. \A x \in Message \cup Request : Of(x)' = Of(x) /\ (Saves(x)' => Saves(x) /\ use'[x] = use[x])
  BY DEF Of, Saves
<1>3. UsageIsKnown'
  <2>1. SUFFICES ASSUME NEW x \in Message \cup Request, Saves(x)', Of(x) \notin metUse
                 PROVE  /\ use[x].pc = "insert" => usage[Of(x)] = <<>> /\ use[x].n = 0
                        /\ use[x].pc = "update" =>
                             usage[Of(x)] # <<>> /\ use[x].n = usage[Of(x)][1]
                        /\ \A y \in Message \cup Request : Saves(y)' /\ Of(y) = Of(x) => y = x
    BY <1>2 DEF UsageIsKnown
  <2> QED
    BY <1>2, <2>1 DEF UsageInv, UsageIsKnown
<1>4. ASSUME NEW u \in User \ metUse, ~Overlapped(u)' PROVE UsageAdds(u)'
  <2>1. ~Overlapped(u)
    BY <1>4 DEF Overlapped
  <2>2. UsageAdds(u)
    BY <1>4, <2>1 DEF UsageInv
  <2> QED
    BY <1>1, <2>2 DEF UsageAdds
<1> QED
  BY <1>3, <1>4 DEF UsageInv

LEMMA UsageFound ==
  ASSUME TypeOK, SentFirst, UsageInv, NEW x \in Message \cup Request, FindUsage(x)
  PROVE  UsageInv'
<1> DEFINE u == Of(x)
<1>1. /\ use[x].pc = "find" /\ use \in [Message \cup Request -> Task]
      /\ UNCHANGED <<owner, usage, req, overlap>>
      /\ use' = [use EXCEPT ![x] = Loaded(usage[u])]
      /\ metUse' = IF Holding({use[y] : y \in {y \in Message \cup Request : Of(y) = u}}) = {}
                   THEN metUse ELSE metUse \cup {u}
  BY DEF FindUsage, TypeOK, tables
<1>2. u \in User /\ usage[u] \in Seq(Nat)
  BY <1>1, OfIsUser DEF TypeOK
<1>3. /\ use'[x] = Loaded(usage[u])
      /\ \A y \in (Message \cup Request) \ {x} : use'[y] = use[y]
  BY <1>1
<1>4. /\ Loaded(usage[u]).pc \in {"insert", "update"}
      /\ Loaded(usage[u]).pc = "insert" => usage[u] = <<>> /\ Loaded(usage[u]).n = 0
      /\ Loaded(usage[u]).pc = "update" =>
           usage[u] # <<>> /\ Loaded(usage[u]).n = usage[u][1]
  BY DEF Loaded
<1>5. u \notin metUse' => \A y \in Message \cup Request : Of(y) = u => ~Saves(y)
  BY <1>1 DEF Holding, Saves
<1>6. metUse \subseteq metUse' /\ \A y \in Message \cup Request : Of(y)' = Of(y)
  BY <1>1 DEF Of
<1>7. \A v : Sent(v)' = Sent(v) /\ Deleted(v)' = Deleted(v)
  <2>1. \A y \in Message \cup Request : use'[y].pc = "over" <=> use[y].pc = "over"
    BY <1>1, <1>3, <1>4
  <2> QED
    BY <1>1, <2>1 DEF Sent, Deleted
<1>8. UsageIsKnown'
  <2>1. SUFFICES ASSUME NEW y \in Message \cup Request, Saves(y)', Of(y) \notin metUse'
                 PROVE  /\ use'[y].pc = "insert" => usage[Of(y)] = <<>> /\ use'[y].n = 0
                        /\ use'[y].pc = "update" =>
                             usage[Of(y)] # <<>> /\ use'[y].n = usage[Of(y)][1]
                        /\ \A z \in Message \cup Request : Saves(z)' /\ Of(z) = Of(y) => z = y
    BY <1>1, <1>6 DEF UsageIsKnown
  <2>2. CASE Of(y) = u
    <3>1. \A z \in Message \cup Request : Saves(z)' /\ Of(z) = u => z = x
      BY <1>3, <1>5, <2>1, <2>2 DEF Saves
    <3> QED
      BY <1>3, <1>4, <2>1, <2>2, <3>1
  <2>3. CASE Of(y) # u
    <3>1. \A z \in Message \cup Request : Of(z) = Of(y) => use'[z] = use[z]
      BY <1>3, <2>3
    <3>2. Saves(y) /\ Of(y) \notin metUse
      BY <1>6, <2>1, <3>1 DEF Saves
    <3> QED
      BY <3>1, <3>2 DEF UsageInv, UsageIsKnown, Saves
  <2> QED
    BY <2>2, <2>3
<1>9. ASSUME NEW v \in User \ metUse', ~Overlapped(v)' PROVE UsageAdds(v)'
  BY <1>1, <1>6, <1>7, <1>9 DEF UsageInv, UsageAdds, Overlapped
<1> QED
  BY <1>8, <1>9 DEF UsageInv

LEMMA UsageSaved ==
  ASSUME TypeOK, SentFirst, RequestInv, UsageInv, NEW x \in Message \cup Request, SaveUsage(x),
         NEW u, u = Of(x), NEW n, n = use[x].n, NEW s, s = usage[u]
  PROVE  UsageInv'
<1>1. /\ Saves(x) /\ use \in [Message \cup Request -> Task]
      /\ UNCHANGED <<owner, req, overlap>>
      /\ use' = [use EXCEPT ![x].pc = "over"]
      /\ usage' = [usage EXCEPT ![u] = Saved(s, use[x], Used(x, n))]
      /\ metUse' = IF x \in Request /\ req[x].kind = "delete" /\ n = 0
                   THEN metUse \cup {u} ELSE metUse
  BY DEF SaveUsage, Saves, TypeOK
<1>2. u \in User /\ s \in Seq(Nat) /\ n \in Nat
  BY <1>1, OfIsUser DEF TypeOK, Saves, Task
<1>3. /\ use'[x].pc = "over"
      /\ \A y \in (Message \cup Request) \ {x} : use'[y] = use[y]
  BY <1>1 DEF Task
<1>4. metUse \subseteq metUse' /\ \A y \in Message \cup Request : Of(y)' = Of(y)
  BY <1>1 DEF Of
<1>5. /\ usage'[u] = Saved(s, use[x], Used(x, n))
      /\ \A v \in User \ {u} : usage'[v] = usage[v]
  BY <1>1, <1>2 DEF TypeOK
<1>6. u \notin metUse =>
        /\ use[x].pc = "insert" => s = <<>> /\ n = 0
        /\ use[x].pc = "update" => s # <<>> /\ n = s[1]
        /\ \A y \in Message \cup Request : Saves(y) /\ Of(y) = u => y = x
  BY <1>1 DEF UsageInv, UsageIsKnown
<1>7. UsageIsKnown'
  <2>1. SUFFICES ASSUME NEW y \in Message \cup Request, Saves(y)', Of(y) \notin metUse'
                 PROVE  /\ use'[y].pc = "insert" => usage'[Of(y)] = <<>> /\ use'[y].n = 0
                        /\ use'[y].pc = "update" =>
                             usage'[Of(y)] # <<>> /\ use'[y].n = usage'[Of(y)][1]
                        /\ \A z \in Message \cup Request : Saves(z)' /\ Of(z) = Of(y) => z = y
    BY <1>1, <1>4 DEF UsageIsKnown
  <2>2. /\ \A z \in Message \cup Request : Saves(z)' => z # x /\ use'[z] = use[z] /\ Saves(z)
        /\ Of(y) \notin metUse
    BY <1>3, <1>4, <2>1 DEF Saves
  <2>3. Of(y) # u
    BY <1>6, <2>1, <2>2
  <2>4. Of(y) \in User
    BY <2>1, <2>2, OfIsUser DEF Saves
  <2> QED
    BY <1>5, <2>1, <2>2, <2>3, <2>4 DEF UsageInv, UsageIsKnown
<1>8. ASSUME NEW v \in User \ metUse', ~Overlapped(v)', v # u PROVE UsageAdds(v)'
  <2>1. UsageAdds(v)
    BY <1>1, <1>4, <1>8 DEF UsageInv, Overlapped
  <2>2. Sent(v)' = Sent(v)
    BY <1>1, <1>3, <1>8 DEF Sent, Of
  <2>3. Deleted(v)' = Deleted(v)
    <3>1. ASSUME NEW r \in Request, req[r].kind = "delete", owner[req[r].of] = v PROVE r # x
      <4>1. req[r].by = v /\ r \notin Message
        BY <3>1, DisjointAssumption DEF RequestInv, RequestsInOrder
      <4> QED
        BY <1>8, <4>1 DEF Of
    <3> QED
      BY <1>1, <1>3, <3>1 DEF Deleted
  <2> QED
    BY <1>5, <1>8, <2>1, <2>2, <2>3 DEF UsageAdds
<1>9. ASSUME u \notin metUse', ~Overlapped(u)' PROVE UsageAdds(u)'
  <2> DEFINE D == Cardinality(Deleted(u))
             S == Cardinality(Sent(u))
             O == Cardinality(Others(s))
  <2>1. /\ D \in Nat /\ S \in Nat /\ Total(s) + D = S /\ u \notin metUse
        /\ IsFiniteSet(Sent(u)) /\ IsFiniteSet(Deleted(u))
    BY <1>1, <1>2, <1>4, <1>9, SentIsFinite DEF UsageInv, UsageAdds, Overlapped
  <2>0. Total(usage'[u]) \in Nat /\ Total(s) \in Nat
    <3>1. Used(x, n) \in Nat /\ use[x] \in Task
      BY <1>1, <1>2 DEF Used
    <3>2. Saved(s, use[x], Used(x, n)) \in Seq(Nat)
      BY <1>2, <3>1, SavedIsTyped
    <3> QED
      BY <1>2, <1>5, <3>2, UnitsAreFinite
  <2>3. ASSUME NEW k \in Nat, k = Used(x, n), use[x].pc = "insert" => k \in {0, 1}
        PROVE  Total(usage'[u]) + n = Total(s) + k
    <3>1. CASE use[x].pc = "insert"
      <4>1. usage'[u] = Append(s, k) /\ n = 0
        BY <1>5, <1>6, <2>1, <2>3, <3>1 DEF Saved
      <4>2. Total(Append(s, k)) = Total(s) + k
        BY <1>2, <2>3, <3>1, TotalOfInsert
      <4>3. Total(s) \in Nat
        BY <1>2, UnitsAreFinite
      <4> QED
        BY <4>1, <4>2, <4>3
    <3>2. CASE use[x].pc = "update"
      <4>1. usage'[u] = [s EXCEPT ![1] = k] /\ s # <<>> /\ n = s[1]
        BY <1>5, <1>6, <2>1, <2>3, <3>2 DEF Saved
      <4>2. Total(usage'[u]) = k + O
        BY <1>2, <2>3, <4>1, TotalOfUpdate
      <4>3. Total(s) = n + O /\ O \in Nat
        BY <1>2, <4>1, TotalOfRest, UnitsAreFinite
      <4> HIDE DEF O
      <4> QED
        BY <1>2, <2>3, <4>2, <4>3
    <3> QED
      BY <1>1, <3>1, <3>2 DEF Saves
  <2>4. CASE x \in Message
    <3>1. x \notin Request /\ owner[x] = u
      BY <2>4, DisjointAssumption DEF Of
    <3>2. Deleted(u)' = Deleted(u)
      BY <1>1, <1>3, <3>1 DEF Deleted
    <3>3. Sent(u)' = Sent(u) \cup {x} /\ x \notin Sent(u)
      BY <1>1, <1>3, <2>4, <3>1 DEF Sent, Saves
    <3>4. Cardinality(Sent(u)') = S + 1
      <4>1. Cardinality(Sent(u) \cup {x}) = S + 1
        BY <2>1, <3>3, FS_AddElement
      <4> QED
        BY <3>3, <4>1
    <3>5. Total(usage'[u]) + n = Total(s) + (n + 1)
      <4>1. n + 1 = Used(x, n) /\ n + 1 \in Nat
        BY <1>2, <2>4 DEF Used
      <4>2. use[x].pc = "insert" => n + 1 \in {0, 1}
        BY <1>6, <2>1
      <4> QED
        BY <2>3, <4>1, <4>2
    <3>6. Total(usage'[u]) \in Nat /\ Total(s) \in Nat
      BY <2>0
    <3> HIDE DEF D, S
    <3> QED
      BY <1>2, <2>1, <3>2, <3>4, <3>5, <3>6 DEF UsageAdds, D
  <2>5. CASE x \in Request /\ req[x].kind # "delete"
    <3>1. Deleted(u)' = Deleted(u)
      BY <1>1, <1>3, <2>5 DEF Deleted
    <3>2. Sent(u)' = Sent(u)
      BY <1>1, <1>3, <2>5, DisjointAssumption DEF Sent
    <3>3. Total(usage'[u]) + n = Total(s) + n
      <4>1. n = Used(x, n)
        BY <2>5, DisjointAssumption DEF Used
      <4>2. use[x].pc = "insert" => n \in {0, 1}
        BY <1>6, <2>1
      <4> QED
        BY <1>2, <2>3, <4>1, <4>2
    <3>4. Total(usage'[u]) \in Nat /\ Total(s) \in Nat
      BY <2>0
    <3> HIDE DEF D, S
    <3> QED
      BY <1>2, <2>1, <3>1, <3>2, <3>3, <3>4 DEF UsageAdds, D, S
  <2>6. CASE x \in Request /\ req[x].kind = "delete"
    <3> DEFINE m == req[x].of
    <3>1. n # 0 /\ use[x].pc # "insert" /\ req[x] \in ReqType /\ m \in Message
      BY <1>1, <1>6, <1>9, <2>1, <2>6 DEF TypeOK, ReqType
    <3>2. owner[m] = u /\ req[x].pc = "done"
      BY <1>1, <2>6, DisjointAssumption DEF RequestInv, RequestsInOrder, Of, Saves
    <3>3. m \notin overlap
      BY <1>1, <1>9, <3>2 DEF Overlapped
    <3>4. m \notin Deleted(u)
      <4>1. SUFFICES ASSUME NEW r \in Request, req[r].of = m, req[r].kind = "delete",
                            use[r].pc = "over"
                     PROVE  FALSE
        BY DEF Deleted
      <4>2. req[r].pc = "done"
        BY <4>1 DEF RequestInv, RequestsInOrder
      <4>3. r = x
        BY <2>6, <3>2, <3>3, <4>1, <4>2 DEF RequestInv, DeletedOnce
      <4> QED
        BY <1>1, <4>1, <4>3 DEF Saves
    <3>5. Deleted(u)' = Deleted(u) \cup {m}
      BY <1>1, <1>3, <2>6, <3>1, <3>2 DEF Deleted
    <3>6. Cardinality(Deleted(u)') = D + 1
      <4>1. Cardinality(Deleted(u) \cup {m}) = D + 1
        BY <2>1, <3>4, FS_AddElement
      <4> QED
        BY <3>5, <4>1
    <3>7. Sent(u)' = Sent(u)
      BY <1>1, <1>3, <2>6, DisjointAssumption DEF Sent
    <3>8. Total(usage'[u]) + n = Total(s) + (n - 1)
      <4>1. n - 1 = Used(x, n) /\ n - 1 \in Nat
        BY <1>2, <2>6, <3>1, DisjointAssumption DEF Used
      <4> QED
        BY <2>3, <3>1, <4>1
    <3>9. Total(usage'[u]) \in Nat /\ Total(s) \in Nat
      BY <2>0
    <3>10. Total(usage'[u]) + (D + 1) = S
      <4>1. Total(usage'[u]) = Total(s) - 1
        BY <1>2, <3>8, <3>9
      <4> HIDE DEF D, S
      <4> QED
        BY <2>1, <3>9, <4>1
    <3> QED
      BY <3>6, <3>7, <3>10 DEF UsageAdds
  <2> QED
    BY <2>4, <2>5, <2>6
<1>10. \A v \in User \ metUse' : ~Overlapped(v)' => UsageAdds(v)'
  BY <1>8, <1>9
<1> QED
  BY <1>7, <1>10 DEF UsageInv

LEMMA UsageStep ==
  TypeOK /\ SentFirst /\ RequestInv /\ UsageInv /\ [Next]_vars => UsageInv'
<1> SUFFICES ASSUME TypeOK, SentFirst, RequestInv, UsageInv, [Next]_vars PROVE UsageInv'
  OBVIOUS
<1> USE DisjointAssumption DEF tables, history
<1>0. req \in [Request -> ReqType] /\ use \in [Message \cup Request -> Task]
  BY DEF TypeOK
<1>1. CASE UNCHANGED <<owner, usage, metUse, overlap, req, use>>
  BY <1>1, UsageSame
<1>2. ASSUME NEW m \in Message,
             Insert(m) \/ SendFails(m) \/ IncreaUnread(m) \/ FindOwn(m) \/ SaveOwn(m)
             \/ FindStatus(m) \/ SaveStatus(m)
      PROVE  UsageInv'
  BY <1>1, <1>2 DEF Insert, SendFails, IncreaUnread, FindOwn, SaveOwn, FindStatus, SaveStatus
<1>3. ASSUME NEW m \in Message, Emit(m) PROVE UsageInv'
  <2>1. /\ UNCHANGED <<owner, usage, metUse, overlap, req>>
        /\ use' = [use EXCEPT ![m].pc = IF "usage" \in on THEN "find" ELSE @]
        /\ use[m].pc = "idle" /\ use[m] \in Task
    BY <1>0, <1>3 DEF Emit, SentFirst
  <2>2. use'[m] = use[m] \/ use'[m].pc = "find"
    <3>1. CASE "usage" \in on
      BY <1>0, <2>1, <3>1 DEF Task
    <3>2. CASE "usage" \notin on
      <4>1. use'[m] = [use[m] EXCEPT !.pc = use[m].pc]
        BY <1>0, <2>1, <3>2
      <4> QED
        BY <2>1, <4>1 DEF Task
    <3> QED
      BY <3>1, <3>2
  <2>3. \A x \in (Message \cup Request) \ {m} : use'[x] = use[x]
    BY <1>0, <2>1
  <2> QED
    BY <2>1, <2>2, <2>3, UsageSame
<1>4. ASSUME NEW x \in Message \cup Request, FindUsage(x) PROVE UsageInv'
  BY <1>4, UsageFound
<1>5. ASSUME NEW x \in Message \cup Request, SaveUsage(x) PROVE UsageInv'
  <2>1. PICK u, n, s : u = Of(x) /\ n = use[x].n /\ s = usage[u]
    OBVIOUS
  <2> QED
    BY <1>5, <2>1, UsageSaved
<1>6. ASSUME NEW r \in Request,
             FindSeen(r) \/ CountUnread(r) \/ SaveSeen(r) \/ FindMessage(r) \/ SaveMessage(r)
      PROVE  UsageInv'
  <2>1. UNCHANGED <<owner, usage, metUse, use>> /\ overlap \subseteq overlap'
    BY <1>6 DEF FindSeen, CountUnread, SaveSeen, FindMessage, SaveMessage
  <2>2. \A q \in Request :
          req'[q].kind = req[q].kind /\ req'[q].by = req[q].by /\ req'[q].of = req[q].of
    BY <1>0, <1>6 DEF FindSeen, CountUnread, SaveSeen, FindMessage, SaveMessage, ReqType
  <2> QED
    BY <2>1, <2>2, UsageSame
<1>7. ASSUME NEW r \in Request, SaveHistory(r) PROVE UsageInv'
  <2>1. /\ UNCHANGED <<owner, usage, metUse, overlap>> /\ req[r].pc = "history"
        /\ use' = [use EXCEPT ![r].pc = "find"] /\ req' = [req EXCEPT ![r].pc = "done"]
    BY <1>7 DEF SaveHistory
  <2>2. \A q \in Request :
          req'[q].kind = req[q].kind /\ req'[q].by = req[q].by /\ req'[q].of = req[q].of
    BY <1>0, <2>1 DEF ReqType
  <2>3. use[r].pc = "idle"
    BY <2>1 DEF RequestInv, RequestsInOrder
  <2>4. /\ use'[r].pc = "find"
        /\ \A x \in (Message \cup Request) \ {r} : use'[x] = use[x]
    BY <1>0, <2>1 DEF Task
  <2> QED
    BY <2>1, <2>2, <2>3, <2>4, UsageSame
<1>8. ASSUME TaskFails PROVE UsageInv'
  <2>1. UNCHANGED <<owner, usage, metUse, overlap>>
    BY <1>8 DEF TaskFails
  <2>2. \/ use' = use
        \/ \E x \in Message \cup Request : /\ use[x].pc \in {"find", "insert", "update"}
                                           /\ use' = [use EXCEPT ![x].pc = "failed"]
    BY <1>8 DEF TaskFails
  <2>3. \A x \in Message \cup Request :
          use'[x] = use[x] \/ (use'[x].pc \in {"find", "failed"} /\ use[x].pc # "over")
    BY <1>0, <2>2 DEF Task
  <2> QED
    BY <1>8, <2>1, <2>3, FailedOnly, UsageSame
<1>9. ASSUME UNCHANGED vars PROVE UsageInv'
  BY <1>1, <1>9 DEF vars
<1> QED
  BY <1>2, <1>3, <1>4, <1>5, <1>6, <1>7, <1>8, <1>9 DEF Next

LEMMA UsageInvImplies ==
  ASSUME UsageInv, TypeOK
  PROVE  UsageIsExact
<1>1. SUFFICES ASSUME NEW u \in User \ metUse, {m \in Message : owner[m] = u} \cap overlap = {}
               PROVE  UsageAdds(u)
  <2>1. \A u \in User :
          LET mine == {m \in Message : owner[m] = u} IN
          /\ Sent(u) = {m \in mine : use[m].pc = "over"}
          /\ Deleted(u) = {m \in mine : \E r \in Request :
                             req[r].of = m /\ req[r].kind = "delete" /\ use[r].pc = "over"}
    BY DEF Sent, Deleted
  <2> QED
    BY <2>1 DEF UsageIsExact, UsageAdds
<1>2. ~Overlapped(u)
  BY <1>1 DEF Overlapped, TypeOK
<1> QED
  BY <1>1, <1>2 DEF UsageInv

-----------------------------------------------------------------------------
(* Theorems *)

IInv ==
  /\ TypeOK
  /\ SentFirst
  /\ AddedOnce
  /\ CountedIsSaved
  /\ WritersOnly
  /\ EditIsAlone
  /\ DeletionIsSaved
  /\ UnreadIsExact
  /\ DeletedIsGone
  /\ CountInv
  /\ RequestInv
  /\ UsageInv

\* A request as Init has it.
NewRequest == [kind : {"see", "edit", "delete"}, by : User, of : Message,
               pc : {"new"}, found : {FALSE}, n : {0}, counted : {{}}]

LEMMA NewIsTyped ==
  ASSUME NEW x \in NewRequest PROVE x \in ReqType
<1>1. x.found \in BOOLEAN
  BY DEF NewRequest
<1>2. x.n \in Nat
  BY DEF NewRequest
<1>3. x.counted \in SUBSET Message
  BY DEF NewRequest
<1>4. x.kind \in {"see", "edit", "delete"} /\ x.by \in User /\ x.of \in Message
  BY DEF NewRequest
<1>5. x.pc \in {"new", "count", "insert", "update", "message", "history", "done", "failed"}
  BY DEF NewRequest
<1>6. x = [kind |-> x.kind, by |-> x.by, of |-> x.of, pc |-> x.pc, found |-> x.found,
           n |-> x.n, counted |-> x.counted]
  BY Zenon DEF NewRequest
<1> QED
  BY <1>1, <1>2, <1>3, <1>4, <1>5, <1>6 DEF ReqType

LEMMA InitOK == Init => IInv
<1> SUFFICES ASSUME Init PROVE IInv
  OBVIOUS
<1> USE NoneAssumption, BoundAssumption DEF Init
<1>1. TypeOK
  <2>1. req \in [Request -> ReqType]
    <3>1. req \in [Request -> NewRequest]
      BY DEF NewRequest
    <3> HIDE DEF Init
    <3> QED
      BY <3>1, NewIsTyped
  <2>2. /\ count \in [Message -> Task] /\ use \in [Message \cup Request -> Task]
        /\ \A m \in Message : count[m].pc # "update"
    BY DEF Task, Idle
  <2>3. row \in [User -> [unread : Nat, last : 0..Len(log)]]
    BY DEF NoRow
  <2>4. /\ log \in Seq(Message) /\ status \in Seq(Nat) /\ Len(log) = 0
        /\ usage \in [User -> Seq(Nat)] /\ edits \in [Message -> Seq(BOOLEAN)]
    OBVIOUS
  <2>5. /\ \A i, j \in 1..Len(log) : i # j => log[i] # log[j]
        /\ \A u \in User : row[u].last = 0 => row[u] = NoRow
        /\ gone \subseteq ToSet(log) /\ overlap \subseteq Message
        /\ added \subseteq Message /\ drift \subseteq User /\ metUse \subseteq User
        /\ faults \in 0..MaxFaults
    OBVIOUS
  <2>7. metCount \in BOOLEAN
    OBVIOUS
  <2>6. /\ msg \in [Message -> {"new", "inserted", "emitted", "failed"}]
        /\ unread \in [Message -> {"idle", "inc", "find", "insert", "update", "over", "failed"}]
        /\ owner \in [Message -> User \cup {None}] /\ on \in Slices
    OBVIOUS
  <2> HIDE DEF Init
  <2> QED
    BY <2>1, <2>2, <2>3, <2>4, <2>5, <2>6, <2>7 DEF TypeOK
<1>2. Len(log) = 0 /\ \A r \in Request : req[r].pc = "new"
  OBVIOUS
<1>3. SentFirst
  BY <1>2 DEF SentFirst, IsSent, Idle
<1>4. AddedOnce /\ CountedIsSaved /\ WritersOnly /\ EditIsAlone /\ DeletionIsSaved
  BY <1>2 DEF AddedOnce, CountedIsSaved, WritersOnly, EditIsAlone, DeletionIsSaved
<1>5. UnreadIsExact /\ DeletedIsGone
  BY DEF UnreadIsExact, HasRow, DeletedIsGone
<1>6. CountInv
  <2>1. \A m \in Message : count[m] = Idle
    OBVIOUS
  <2>2. Counted = {} /\ \A m \in Message : ~Counts(m)
    BY <2>1 DEF Counted, Counts, Idle
  <2>3. Total(status) = 0 /\ Cardinality(Counted) = 0
    BY <2>2, TotalOfNone, FS_EmptySet
  <2> HIDE DEF Init
  <2> QED
    BY <2>1, <2>2, <2>3 DEF CountInv, CountFits, CountIsKnown, Idle
<1>7. RequestInv
  <2>1. \A r \in Request : use[r].pc = "idle"
    BY DEF Idle
  <2>2. \A r \in Request : req[r].kind = "delete" => owner[req[r].of] = req[r].by
    OBVIOUS
  <2> HIDE DEF Init
  <2> QED
    BY <1>2, <2>1, <2>2 DEF RequestInv, RequestsInOrder, DeletionIsKnown, Known, DeletedOnce
<1>8. UsageInv
  <2>1. \A x \in Message \cup Request : use[x].pc = "idle"
    BY DEF Idle
  <2>2. \A u \in User : usage[u] = <<>>
    OBVIOUS
  <2> HIDE DEF Init
  <2>3. \A u : Sent(u) = {} /\ Deleted(u) = {}
    BY <2>1 DEF Sent, Deleted
  <2>4. \A u \in User : UsageAdds(u)
    <3>1. SUFFICES ASSUME NEW u \in User PROVE UsageAdds(u)
      OBVIOUS
    <3>2. Total(usage[u]) = 0
      BY <2>2, TotalOfNone
    <3>3. Cardinality(Sent(u)) = 0 /\ Cardinality(Deleted(u)) = 0
      BY <2>3, FS_EmptySet
    <3> QED
      BY <3>2, <3>3 DEF UsageAdds
  <2>5. UsageIsKnown
    BY <2>1 DEF UsageIsKnown, Saves
  <2> QED
    BY <2>4, <2>5 DEF UsageInv
<1> QED
  BY <1>1, <1>3, <1>4, <1>5, <1>6, <1>7, <1>8 DEF IInv

LEMMA InvStep == IInv /\ [Next]_vars => IInv'
<1> SUFFICES ASSUME IInv, [Next]_vars PROVE IInv'
  OBVIOUS
<1>1. TypeOK' /\ SentFirst' /\ AddedOnce' /\ CountedIsSaved' /\ UnreadIsExact'
  BY TypeStep, SentStep, AddedStep, CountedStep, UnreadStep DEF IInv
<1>2. WritersOnly' /\ EditIsAlone' /\ DeletionIsSaved' /\ DeletedIsGone'
  BY DeletionStep DEF IInv, Deletions
<1>3. CountInv' /\ RequestInv' /\ UsageInv'
  BY CountStep, RequestStep, UsageStep DEF IInv
<1> QED
  BY <1>1, <1>2, <1>3 DEF IInv

LEMMA Invariance == Spec => []IInv
  BY InitOK, InvStep, PTL DEF Spec

\* The tables and the handlers have their types; rows are never lost, no counter falls
\* below zero, and a user has last seen a message that is in the channel.
THEOREM TypeCorrect == Spec => []TypeOK
  BY Invariance, PTL DEF IInv

\* updateLastSeen and increaUnread agree: outside the recorded races the unread counter
\* of every user is the number of counted messages after the one last seen.
THEOREM UnreadAlwaysExact == Spec => []UnreadIsExact
  BY Invariance, PTL DEF IInv

\* updateMessage and deleteMessage: a message whose deletion is in its history keeps its
\* deleted_date, unless an edit overlapped the deletion.
THEOREM DeletedStaysGone == Spec => []DeletedIsGone
  BY Invariance, PTL DEF IInv

\* updateChannelStatus: the message count of a channel never exceeds the messages counted,
\* and is their number unless two runs of the listener have loaded the same count.
THEOREM CountAlwaysExact == Spec => []CountIsExact
<1>1. IInv => CountIsExact
  BY CountInvImplies DEF IInv
<1> QED
  BY Invariance, <1>1, PTL

\* userUsage: the message count of a user is the messages sent less the messages deleted,
\* each once, outside the recorded races.
THEOREM UsageAlwaysExact == Spec => []UsageIsExact
<1>1. IInv => UsageIsExact
  BY UsageInvImplies DEF IInv
<1> QED
  BY Invariance, <1>1, PTL

=============================================================================
