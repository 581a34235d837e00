---------------------------- MODULE ChatCounters ----------------------------
(***************************************************************************)
(* The counters of a chat channel.  A message is inserted, and then        *)
(* emitted to listeners that run side by side: one adds 1 to the unread    *)
(* counters of the channel and resets the sender's, one counts the         *)
(* messages of the channel, one those of the sender.  A user who has seen  *)
(* a message has his unread counter recounted; edits and deletions of a    *)
(* message go through the usage of its sender as well.                     *)
(*                                                                         *)
(* But for the UPDATE of the unread counters, every counter is loaded,     *)
(* changed in memory and saved as a whole, with an await in between.       *)
(***************************************************************************)
EXTENDS Integers, Sequences, FiniteSets, SequencesExt, FiniteSetsExt

CONSTANTS
  User,
  Message,
  Request,    \* requests to see, edit or delete a message, each made once
  None,
  Slices,     \* sets of listeners; those of a set share no table with the others
  MaxSeen,    \* bound of requests to see a message
  MaxFaults   \* bound of failing awaits

ASSUME NoneAssumption  == None \notin User
ASSUME DisjointAssumption == Message \cap Request = {}
ASSUME SliceAssumption == Slices \subseteq SUBSET {"unread", "count", "usage"}
ASSUME BoundAssumption == MaxSeen \in Nat /\ MaxFaults \in Nat

VARIABLES
  on,        \* the listeners looked at
  owner,     \* owner[m]: who sends m; None if it is a notice to the channel
  msg,       \* msg[m]: where the send of m is
  log,       \* the messages of the channel, in the order of their created_date
  row,       \* row[u]: the row of u in realtime_chat_channel_user_last_seen, or NoRow
  status,    \* msg_count of the rows of the channel in realtime_chat_channel_status
  usage,     \* usage[u]: message_count of the rows of u in realtime_user_usage
  gone,      \* messages with a deleted_date
  edits,     \* edits[m]: its rows in realtime_message_edited_history, TRUE with deleted_date
  unread,    \* unread[m]: where the listener increaUnread is with m
  count,     \* count[m]: where updateChannelStatus is with m, and what it has loaded
  use,       \* use[x]: likewise of the usage listener of message or request x
  req,       \* req[r]: a request, where it is and what it has loaded
  faults,    \* failing awaits so far
  added,     \* history: messages whose UPDATE of the unread counters is done
  drift,     \* history: users whose counter was recounted or reset in the middle of sends
  metCount,  \* history: two listeners have loaded the same count of the channel
  metUse,    \* history: users for whom two listeners have loaded the same usage, or
             \* whose deletion was counted before what it deletes
  overlap    \* history: messages with a deletion and another edit or deletion at once

tables   == <<log, row, status, usage, gone, edits>>
history  == <<added, drift, metCount, metUse, overlap>>
vars     == <<on, owner, msg, tables, unread, count, use, req, faults, history>>

NoRow == [unread |-> 0, last |-> 0]   \* last: a position in log
Idle  == [pc |-> "idle", n |-> 0]
Task  == [pc : {"idle", "find", "insert", "update", "over", "failed"}, n : Nat]

ReqType == [kind : {"see", "edit", "delete"}, by : User, of : Message,
            pc : {"new", "count", "insert", "update", "message", "history", "done", "failed"},
            found : BOOLEAN, n : Nat, counted : SUBSET Message]

\* The row a request or a listener has loaded, found or not, it inserts or updates.
Loaded(s) == IF s = <<>> THEN [pc |-> "insert", n |-> 0] ELSE [pc |-> "update", n |-> s[1]]

\* The row that findOneBy finds is the first; save updates it, or inserts another.
Saved(s, task, n) == IF task.pc = "insert" THEN Append(s, n) ELSE [s EXCEPT ![1] = n]

\* What the rows count together: the units of all rows.
Units(s)     == UNION {{i} \X (1..s[i]) : i \in 1..Len(s)}
Total(s)     == Cardinality(Units(s))
Holding(S)   == {t \in S : t.pc \in {"insert", "update"}}
Position(m)  == CHOOSE i \in 1..Len(log) : log[i] = m
IsSent(m)    == \E i \in 1..Len(log) : log[i] = m
After(i)     == {log[j] : j \in (i + 1)..Len(log)}

-----------------------------------------------------------------------------
\* A row of the channel or of a user is never lost, and no counter falls below zero; the
\* unread counter of a user is on a message of the channel.
TypeOK ==
  /\ on \in Slices
  /\ owner \in [Message -> User \cup {None}]
  /\ msg \in [Message -> {"new", "inserted", "emitted", "failed"}]
  /\ log \in Seq(Message) /\ \A i, j \in 1..Len(log) : i # j => log[i] # log[j]
  /\ row \in [User -> [unread : Nat, last : 0..Len(log)]]
  /\ \A u \in User : row[u].last = 0 => row[u] = NoRow
  /\ status \in Seq(Nat)
  /\ usage \in [User -> Seq(Nat)]
  /\ gone \subseteq ToSet(log)
  /\ edits \in [Message -> Seq(BOOLEAN)]
  /\ unread \in [Message -> {"idle", "inc", "find", "insert", "update", "over", "failed"}]
  /\ count \in [Message -> Task]
  /\ use \in [Message \cup Request -> Task]
  /\ req \in [Request -> ReqType]
  /\ \A m \in Message : count[m].pc = "update" => status # <<>>
  /\ faults \in 0..MaxFaults
  /\ added \subseteq Message
  /\ drift \subseteq User
  /\ metCount \in BOOLEAN
  /\ metUse \subseteq User
  /\ overlap \subseteq Message

\* Requests that the listeners looked at have to do with.
Kinds == (IF "unread" \in on THEN {"see"} ELSE {})
         \cup (IF "usage" \in on THEN {"edit", "delete"} ELSE {})

Init ==
  /\ on \in Slices
  /\ owner \in [Message -> User \cup {None}]
  /\ msg = [m \in Message |-> "new"]
  /\ log = <<>>
  /\ row = [u \in User |-> NoRow]
  /\ status = <<>>
  /\ usage = [u \in User |-> <<>>]
  /\ gone = {}
  /\ edits = [m \in Message |-> <<>>]
  /\ unread = [m \in Message |-> "idle"]
  /\ count = [m \in Message |-> Idle]
  /\ use = [x \in Message \cup Request |-> Idle]
  /\ req \in [Request -> [kind : {"see", "edit", "delete"}, by : User, of : Message,
                          pc : {"new"}, found : {FALSE}, n : {0}, counted : {{}}]]
  /\ \A r \in Request : IF Kinds = {} THEN req[r].kind = "see" ELSE req[r].kind \in Kinds
  /\ \A r \in Request : req[r].kind = "see" \/ owner[req[r].of] = req[r].by
  /\ faults = 0
  /\ added = {}
  /\ drift = {}
  /\ metCount = FALSE
  /\ metUse = {}
  /\ overlap = {}

-----------------------------------------------------------------------------
(* Sends *)

\* saveChatMessage or saveMessage; a notice has no listeners.
Insert(m) ==
  /\ msg[m] = "new"
  /\ log' = Append(log, m)
  /\ msg' = [msg EXCEPT ![m] = IF owner[m] = None THEN "failed" ELSE "inserted"]
  /\ UNCHANGED <<on, owner, row, status, usage, gone, edits, unread, count, use, req, faults,
                 history>>

Emit(m) ==
  /\ msg[m] = "inserted"
  /\ msg' = [msg EXCEPT ![m] = "emitted"]
  /\ unread' = [unread EXCEPT ![m] = IF "unread" \in on THEN "inc" ELSE @]
  /\ count' = [count EXCEPT ![m].pc = IF "count" \in on THEN "find" ELSE @]
  /\ use' = [use EXCEPT ![m].pc = IF "usage" \in on THEN "find" ELSE @]
  /\ UNCHANGED <<on, owner, tables, req, faults, history>>

\* Between the INSERT and the event: the rows per channel, the sockets, the attachments.
SendFails(m) ==
  /\ faults < MaxFaults
  /\ msg[m] = "inserted"
  /\ msg' = [msg EXCEPT ![m] = "failed"]
  /\ faults' = faults + 1
  /\ UNCHANGED <<on, owner, tables, unread, count, use, req, history>>

-----------------------------------------------------------------------------
(* increaUnread *)

HasRow(u) == row[u] # NoRow

\* One UPDATE of all rows; then resetRemine.
IncreaUnread(m) ==
  /\ unread[m] = "inc"
  /\ row' = [u \in User |-> IF HasRow(u) THEN [row[u] EXCEPT !.unread = @ + 1]
                            ELSE row[u]]
  /\ unread' = [unread EXCEPT ![m] = "find"]
  /\ added' = added \cup {m}
  /\ drift' = drift \cup {u \in User : HasRow(u) /\ Position(m) <= row[u].last}
  /\ UNCHANGED <<on, owner, msg, log, status, usage, gone, edits, count, use, req, faults,
                 metCount, metUse, overlap>>

FindOwn(m) ==
  /\ unread[m] = "find"
  /\ unread' = [unread EXCEPT ![m] = IF HasRow(owner[m]) THEN "update" ELSE "insert"]
  /\ UNCHANGED <<on, owner, msg, tables, count, use, req, faults, history>>

\* A row that now counts the messages of S after position i: those added to it before do
\* not come again, the others do.
Recounted(u, i, S) ==
  IF S = added \cap After(i) THEN drift \ {u} ELSE drift \cup {u}

\* The unique key refuses a row inserted after another.
SaveOwn(m) ==
  LET u == owner[m]  i == Position(m) IN
  /\ unread[m] \in {"insert", "update"}
  /\ IF unread[m] = "insert" /\ HasRow(u)
     THEN /\ unread' = [unread EXCEPT ![m] = "failed"]
          /\ UNCHANGED <<row, drift>>
     ELSE /\ unread' = [unread EXCEPT ![m] = "over"]
          /\ row' = [row EXCEPT ![u] = [unread |-> 0, last |-> i]]
          /\ drift' = Recounted(u, i, {})
  /\ UNCHANGED <<on, owner, msg, log, status, usage, gone, edits, count, use, req, faults,
                 added, metCount, metUse, overlap>>

-----------------------------------------------------------------------------
(* updateLastSeen *)

FindSeen(r) ==
  /\ "unread" \in on
  /\ Cardinality({q \in Request : req[q].pc # "new"}) < MaxSeen
  /\ req[r].kind = "see" /\ req[r].pc = "new"
  /\ IsSent(req[r].of)
  /\ req' = [req EXCEPT ![r].pc = "count", ![r].found = HasRow(req[r].by)]
  /\ UNCHANGED <<on, owner, msg, tables, unread, count, use, faults, history>>

\* Wrong on purpose: the message itself counts.  Breaks UnreadIsExact.
UnreadWithSeen(i) == Cardinality(After(i)) + 1

\* getChatUnread: messages of any kind, the seen one taken away.
ChatUnread(i) == Cardinality(After(i))

CountUnread(r) ==
  LET i == Position(req[r].of) IN
  /\ req[r].pc = "count"
  /\ req' = [req EXCEPT ![r].pc = IF req[r].found THEN "update" ELSE "insert",
                        ![r].n = ChatUnread(i), ![r].counted = After(i)]
  /\ UNCHANGED <<on, owner, msg, tables, unread, count, use, faults, history>>

SaveSeen(r) ==
  LET u == req[r].by  i == Position(req[r].of) IN
  /\ req[r].pc \in {"insert", "update"}
  /\ IF req[r].pc = "insert" /\ HasRow(u)
     THEN /\ req' = [req EXCEPT ![r].pc = "failed"]
          /\ UNCHANGED <<row, drift>>
     ELSE /\ req' = [req EXCEPT ![r].pc = "done"]
          /\ row' = [row EXCEPT ![u] = [unread |-> req[r].n, last |-> i]]
          /\ drift' = Recounted(u, i, req[r].counted)
  /\ UNCHANGED <<on, owner, msg, log, status, usage, gone, edits, unread, count, use, faults,
                 added, metCount, metUse, overlap>>

-----------------------------------------------------------------------------
(* updateChannelStatus *)

FindStatus(m) ==
  /\ count[m].pc = "find"
  /\ metCount' = (metCount \/ Holding({count[x] : x \in Message}) # {})
  /\ count' = [count EXCEPT ![m] = Loaded(status)]
  /\ UNCHANGED <<on, owner, msg, tables, unread, use, req, faults, added, drift, metUse,
                 overlap>>

\* Wrong on purpose: the first message creates a row that has counted it already.
\* Breaks CountIsExact.
CountedTwice(task) == IF task.pc = "insert" THEN 2 ELSE task.n + 1

CountedOnce(task) == task.n + 1

SaveStatus(m) ==
  /\ count[m].pc \in {"insert", "update"}
  /\ status' = Saved(status, count[m], CountedOnce(count[m]))
  /\ count' = [count EXCEPT ![m].pc = "over"]
  /\ UNCHANGED <<on, owner, msg, log, row, usage, gone, edits, unread, use, req, faults,
                 history>>

-----------------------------------------------------------------------------
(* userUsage *)

Of(x) == IF x \in Message THEN owner[x] ELSE req[x].by

FindUsage(x) ==
  LET others == {use[y] : y \in {y \in Message \cup Request : Of(y) = Of(x)}} IN
  /\ use[x].pc = "find"
  /\ metUse' = IF Holding(others) = {} THEN metUse ELSE metUse \cup {Of(x)}
  /\ use' = [use EXCEPT ![x] = Loaded(usage[Of(x)])]
  /\ UNCHANGED <<on, owner, msg, tables, unread, count, req, faults, added, drift, metCount,
                 overlap>>

\* Wrong on purpose: the guard of reduceMessageCount is dropped.  Breaks TypeOK.
UsedBelowZero(x, n) == IF x \in Message THEN n + 1
                       ELSE IF req[x].kind = "delete" THEN n - 1 ELSE n

\* increMessageCount(1), reduceMessageCount(1), and neither for an edit.
Used(x, n) == IF x \in Message THEN n + 1
              ELSE IF req[x].kind = "delete" /\ n > 0 THEN n - 1 ELSE n

SaveUsage(x) ==
  LET u == Of(x) IN
  /\ use[x].pc \in {"insert", "update"}
  /\ usage' = [usage EXCEPT ![u] = Saved(@, use[x], Used(x, use[x].n))]
  /\ metUse' = IF x \in Request /\ req[x].kind = "delete" /\ use[x].n = 0 THEN metUse \cup {u}
               ELSE metUse
  /\ use' = [use EXCEPT ![x].pc = "over"]
  /\ UNCHANGED <<on, owner, msg, log, row, status, gone, edits, unread, count, req, faults,
                 added, drift, metCount, overlap>>

-----------------------------------------------------------------------------
(* updateMessage and deleteMessage *)

Under(m) == {r \in Request : req[r].of = m /\ req[r].pc \in {"message", "history"}}

\* Wrong on purpose: the history is not asked.  Breaks UsageIsExact.
MayDeleteAgain(m) == TRUE

\* Of the history only the first row is asked, and deleted_date of the message is not.
MayDelete(m) == edits[m] = <<>> \/ ~edits[m][1]

MayEdit(m) == m \notin gone

FindMessage(r) ==
  LET m == req[r].of
      delete == req[r].kind = "delete" IN
  /\ req[r].kind # "see" /\ req[r].pc = "new"
  /\ IsSent(m)
  /\ req' = [req EXCEPT
       ![r].pc = IF (delete /\ MayDelete(m)) \/ (~delete /\ MayEdit(m)) THEN "message"
                 ELSE "failed",
       ![r].found = delete /\ edits[m] # <<>>]
  /\ overlap' = IF req'[r].pc = "message"
                   /\ \E q \in Under(m) : delete \/ req[q].kind = "delete"
                THEN overlap \cup {m} ELSE overlap
  /\ UNCHANGED <<on, owner, msg, tables, unread, count, use, faults, added, drift, metCount,
                 metUse>>

\* Wrong on purpose: a deletion is noted in the history only.  Breaks DeletedIsGone.
WrittenByEdit(r) == gone \ {req[r].of}

\* The whole row: an edit has loaded it with no deleted_date, and writes that back.
Written(r) == IF req[r].kind = "delete" THEN gone \cup {req[r].of} ELSE gone \ {req[r].of}

SaveMessage(r) ==
  /\ req[r].pc = "message"
  /\ gone' = Written(r)
  /\ req' = [req EXCEPT ![r].pc = "history"]
  /\ UNCHANGED <<on, owner, msg, log, row, status, usage, edits, unread, count, use, faults,
                 history>>

\* An edit adds a row; a deletion marks the row it has loaded, or adds one; then the event.
SaveHistory(r) ==
  LET m == req[r].of IN
  /\ req[r].pc = "history"
  /\ edits' = [edits EXCEPT ![m] = IF req[r].found THEN [@ EXCEPT ![1] = TRUE]
                                   ELSE Append(@, req[r].kind = "delete")]
  /\ req' = [req EXCEPT ![r].pc = "done"]
  /\ use' = [use EXCEPT ![r].pc = "find"]
  /\ UNCHANGED <<on, owner, msg, log, row, status, usage, gone, unread, count, faults, history>>

-----------------------------------------------------------------------------
(* Failures of an await, in a listener or in a request. *)

TaskFails ==
  /\ faults < MaxFaults
  /\ faults' = faults + 1
  /\ \/ \E m \in Message :
          /\ unread[m] \in {"inc", "find", "insert", "update"}
          /\ unread' = [unread EXCEPT ![m] = "failed"]
          /\ UNCHANGED <<count, use, req>>
     \/ \E m \in Message :
          /\ count[m].pc \in {"find", "insert", "update"}
          /\ count' = [count EXCEPT ![m].pc = "failed"]
          /\ UNCHANGED <<unread, use, req>>
     \/ \E x \in Message \cup Request :
          /\ use[x].pc \in {"find", "insert", "update"}
          /\ use' = [use EXCEPT ![x].pc = "failed"]
          /\ UNCHANGED <<unread, count, req>>
     \/ \E r \in Request :
          /\ req[r].pc \in {"count", "insert", "update", "message", "history"}
          /\ req' = [req EXCEPT ![r].pc = "failed"]
          /\ UNCHANGED <<unread, count, use>>
  /\ UNCHANGED <<on, owner, msg, tables, history>>

-----------------------------------------------------------------------------
Next ==
  \/ \E m \in Message : \/ Insert(m) \/ Emit(m) \/ SendFails(m)
                        \/ IncreaUnread(m) \/ FindOwn(m) \/ SaveOwn(m)
                        \/ FindStatus(m) \/ SaveStatus(m)
  \/ \E x \in Message \cup Request : FindUsage(x) \/ SaveUsage(x)
  \/ \E r \in Request : \/ FindSeen(r) \/ CountUnread(r) \/ SaveSeen(r)
                        \/ FindMessage(r) \/ SaveMessage(r) \/ SaveHistory(r)
  \/ TaskFails

Spec == Init /\ [][Next]_vars

-----------------------------------------------------------------------------
(* Properties *)

\* The unread counter of a user is the number of messages added to the counters after the
\* one he has seen last, be it by a recount, by increments or both.  It drifts only if a
\* recount or reset met a message inserted but not yet added, added but not in the count,
\* or never added, or if a message is added after it was seen; and the next recount in
\* peace mends it.
UnreadIsExact ==
  \A u \in User \ drift :
    HasRow(u) => row[u].unread = Cardinality(After(row[u].last) \cap added)

\* The message count of a channel never exceeds the messages the listener has counted, and
\* is that number unless two of its runs have loaded the same count.
CountIsExact ==
  LET over == Cardinality({m \in Message : count[m].pc = "over"}) IN
  /\ Total(status) <= over
  /\ metCount \/ Total(status) = over

\* The message count of a user is the messages counted less the messages whose deletion
\* was, each deleted once.  It differs only if two listeners have loaded the same count, a
\* deletion was counted before its message, or two requests on a message overlapped.
UsageIsExact ==
  \A u \in User \ metUse :
    LET mine    == {m \in Message : owner[m] = u}
        sent    == {m \in mine : use[m].pc = "over"}
        deleted == {m \in mine : \E r \in Request :
                      req[r].of = m /\ req[r].kind = "delete" /\ use[r].pc = "over"}
    IN mine \cap overlap = {} =>
         Total(usage[u]) + Cardinality(deleted) = Cardinality(sent)

\* A message whose deletion is in its history is gone: it is never back with its deletion
\* refused for ever, unless an edit overlapped the deletion.
DeletedIsGone ==
  \A m \in Message \ overlap : (\E i \in 1..Len(edits[m]) : edits[m][i]) => m \in gone

=============================================================================
