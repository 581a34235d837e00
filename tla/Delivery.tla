------------------------------ MODULE Delivery ------------------------------
(***************************************************************************)
(* Delivery of events and notifications by the Notification service: the   *)
(* send to the room of the recipients, the rows of message_user_status it  *)
(* leaves for those it takes to be offline, the resend when a client of    *)
(* theirs connects, and the status a user may set on a message.            *)
(*                                                                         *)
(* What presence says of a user (module Presence) is an input here: a send *)
(* may take anybody to be online or offline.  Recipients are those of a    *)
(* user or of an ordinary channel; system channels and broadcasts leave no *)
(* rows, and chat messages have unread counters instead.                   *)
(***************************************************************************)
EXTENDS Naturals, FiniteSets

CONSTANTS
  User,
  Socket,       \* connections, each used once
  Owner,        \* Owner[s]: the user whose token opened s
  Message,      \* message uids, each sent once
  Recipients,   \* Recipients[m]: the users of the channels m is sent to
  AtLeastOnce,  \* messages with qos = 1
  Persistent,   \* messages with persistence
  Delayed,      \* messages with delay > 0
  Update        \* calls of PUT notification/status, each used once

ASSUME OwnerAssumption   == Owner \in [Socket -> User]
ASSUME MessageAssumption == /\ Recipients \in [Message -> SUBSET User]
                            /\ AtLeastOnce \in SUBSET Message
                            /\ Persistent \in SUBSET Message
                            /\ Delayed \in SUBSET Message

VARIABLES
  send,       \* send[m]: where MessageService.send of m is
  offline,    \* offline[m]: userOffline, its local variable
  table,      \* the messages in table message
  row,        \* row[m][u]: the status row of m for u
  conn,       \* conn[s]: "joined" once s is in the rooms of its user
  resend,     \* resend[s]: where userResent of s is
  batch,      \* batch[s]: messageUnsents, its local variable; with each message,
              \* for the properties, the status of its row when it was read
  update,     \* update[k]: a status update and its local variables
  copies,     \* history: copies[s][m], how often m was handed to s
  misjudged,  \* history: <<m, u>>, u taken for online without a socket to reach
  overtaken,  \* history: <<m, u>>, a row saved between the query and the delete
              \* of a resend to u
  cut         \* history: <<m, u>>, a resend of m to a socket already gone

history == <<copies, misjudged, overtaken, cut>>
vars    == <<send, offline, table, row, conn, resend, batch, update, history>>

Sockets(u) == {s \in Socket : Owner[s] = u}
Status     == {"none", "unsent", "read"}    \* none: no row
Pair       == Message \X User
Kept(m)    == m \in AtLeastOnce \cup Persistent

NoUpdate(pc) == [pc |-> pc, of |-> {}, found |-> FALSE, to |-> "none"]

-----------------------------------------------------------------------------
TypeOK ==
  /\ send    \in [Message -> {"idle", "judged", "stored", "listed", "timer",
                              "done", "failed"}]
  /\ offline \in [Message -> SUBSET User]
  /\ table   \in SUBSET Message
  /\ row     \in [Message -> [User -> Status]]
  /\ conn    \in [Socket -> {"new", "live", "joined", "gone"}]
  /\ resend  \in [Socket -> {"idle", "query", "emit", "delete", "done", "failed"}]
  /\ batch   \in [Socket -> SUBSET (Message \X Status)]
  /\ update  \in [Update -> [pc : {"idle", "save", "done"}, of : SUBSET Pair,
                             found : BOOLEAN, to : Status]]
  /\ copies  \in [Socket -> [Message -> Nat]]
  /\ misjudged \in SUBSET Pair
  /\ overtaken \in SUBSET Pair
  /\ cut       \in SUBSET Pair

Init ==
  /\ send    = [m \in Message |-> "idle"]
  /\ offline = [m \in Message |-> {}]
  /\ table   = {}
  /\ row     = [m \in Message |-> [u \in User |-> "none"]]
  /\ conn    = [s \in Socket |-> "new"]
  /\ resend  = [s \in Socket |-> "idle"]
  /\ batch   = [s \in Socket |-> {}]
  /\ update  = [k \in Update |-> NoUpdate("idle")]
  /\ copies  = [s \in Socket |-> [m \in Message |-> 0]]
  /\ misjudged = {}
  /\ overtaken = {}
  /\ cut       = {}

-----------------------------------------------------------------------------
(* Sockets and the resend *)

\* WS_CLIENT_CONNECTED starts userResent beside the handler that joins rooms.
Connect(s) ==
  /\ conn[s] = "new"
  /\ conn'   = [conn EXCEPT ![s] = "live"]
  /\ resend' = [resend EXCEPT ![s] = "query"]
  /\ UNCHANGED <<send, offline, table, row, batch, update, history>>

JoinRooms(s) ==
  /\ conn[s] = "live"
  /\ conn' = [conn EXCEPT ![s] = "joined"]
  /\ UNCHANGED <<send, offline, table, row, resend, batch, update, history>>

Disconnect(s) ==
  /\ conn[s] \in {"live", "joined"}
  /\ conn' = [conn EXCEPT ![s] = "gone"]
  /\ UNCHANGED <<send, offline, table, row, resend, batch, update, history>>

\* Wrong on purpose: any qos.  Breaks OnceWithoutQoS.
MessageAnyQoS(u) == {m \in table : row[m][u] # "none"}

\* Wrong on purpose: the wrong status.  Breaks ResentOnConnect.
MessageRead(u) == {m \in table \cap AtLeastOnce : row[m][u] = "read"}

\* getMessageUnsent: the second where() replaces the first, so the status of the
\* row does not matter.
MessageUnsent(u) ==
  {m \in table \cap AtLeastOnce : row[m][u] # "none"}

\* Nothing unsent: nothing to emit, and nothing is deleted.
QueryUnsent(s) ==
  LET found == MessageUnsent(Owner[s]) IN
  /\ resend[s] = "query"
  /\ resend' = [resend EXCEPT ![s] = IF found = {} THEN "done" ELSE "emit"]
  /\ batch'  = [batch EXCEPT ![s] = {<<m, row[m][Owner[s]]>> : m \in found}]
  /\ UNCHANGED <<send, offline, table, row, conn, update, history>>

InBatch(s) == {b[1] : b \in batch[s]}

\* Wrong on purpose: to the user room, which the socket may not have joined yet.
\* Breaks NoSilentLoss.
EmitBatchToRoom(s) ==
  /\ resend[s] = "emit"
  /\ resend' = [resend EXCEPT ![s] = "delete"]
  /\ batch'  = [batch EXCEPT ![s] = {}]
  /\ cut' = cut \cup {p \in InBatch(s) \X {Owner[s]} : conn[s] = "gone"}
  /\ copies' = [t \in Socket |-> [m \in Message |-> copies[t][m] +
       (IF m \in InBatch(s) /\ Owner[t] = Owner[s] /\ conn[t] = "joined" THEN 1 ELSE 0)]]
  /\ UNCHANGED <<send, offline, table, row, conn, update, misjudged, overtaken>>

\* client.emit for each: to a socket that is gone it does nothing.
EmitBatch(s) ==
  /\ resend[s] = "emit"
  /\ resend' = [resend EXCEPT ![s] = "delete"]
  /\ batch'  = [batch EXCEPT ![s] = {}]
  /\ IF conn[s] = "gone"
     THEN /\ cut' = cut \cup (InBatch(s) \X {Owner[s]})
          /\ UNCHANGED copies
     ELSE /\ copies' = [copies EXCEPT ![s] =
                [m \in Message |-> copies[s][m] + (IF m \in InBatch(s) THEN 1 ELSE 0)]]
          /\ UNCHANGED cut
  /\ UNCHANGED <<send, offline, table, row, conn, update, misjudged, overtaken>>

\* Wrong on purpose: does not wait for the emit.  Breaks MailMovesForward.
DeleteRowsEarly(s) ==
  /\ resend[s] \in {"emit", "delete"}
  /\ resend' = [resend EXCEPT ![s] = "done"]
  /\ row' = [m \in Message |-> [row[m] EXCEPT ![Owner[s]] = "none"]]
  /\ UNCHANGED <<send, offline, table, conn, batch, update, history>>

\* Every row of the user is deleted, not only those of the batch.
DeleteRows(s) ==
  /\ resend[s] = "delete"
  /\ resend' = [resend EXCEPT ![s] = "done"]
  /\ row' = [m \in Message |-> [row[m] EXCEPT ![Owner[s]] = "none"]]
  /\ UNCHANGED <<send, offline, table, conn, batch, update, history>>

\* The database refuses, or the process dies.  A failed query reads as [].
ResendFails(s) ==
  /\ resend[s] \in {"query", "emit", "delete"}
  /\ resend' = [resend EXCEPT ![s] = "failed"]
  /\ batch'  = [batch EXCEPT ![s] = {}]
  /\ UNCHANGED <<send, offline, table, row, conn, update, history>>

\* Pairs of a row saved now for u that a resend under way has not read but
\* will delete.
Overtaken(m, users) ==
  {m} \X {u \in users : \E s \in Sockets(u) : resend[s] \in {"emit", "delete"}}

-----------------------------------------------------------------------------
(* MessageService.send *)

\* getUsers: the online flag of every recipient, right or wrong.
GetUsers(m) ==
  /\ send[m] = "idle"
  /\ send' = [send EXCEPT ![m] = "judged"]
  /\ \E off \in SUBSET Recipients[m] : offline' = [offline EXCEPT ![m] = off]
  /\ UNCHANGED <<table, row, conn, resend, batch, update, history>>

SaveMessage(m) ==
  /\ send[m] = "judged"
  /\ Kept(m)
  /\ send'  = [send EXCEPT ![m] = "stored"]
  /\ table' = table \cup {m}
  /\ UNCHANGED <<offline, row, conn, resend, batch, update, history>>

\* Wrong on purpose: the status no row of this table starts with.  Breaks TypeOK.
SaveStatusSent(m) ==
  /\ send[m] = "stored"
  /\ \A u \in offline[m] : row[m][u] = "none"
  /\ send' = [send EXCEPT ![m] = "listed"]
  /\ row'  = [row EXCEPT ![m] = [u \in User |->
                IF u \in offline[m] THEN "sent" ELSE row[m][u]]]
  /\ overtaken' = overtaken \cup Overtaken(m, offline[m])
  /\ UNCHANGED <<offline, table, conn, resend, batch, update, copies, misjudged, cut>>

\* saveMessageStatusUnsent, one transaction.  A row that a status update made
\* first is a duplicate key: see Fail.
SaveStatusUnsent(m) ==
  /\ send[m] = "stored"
  /\ \A u \in offline[m] : row[m][u] = "none"
  /\ send' = [send EXCEPT ![m] = "listed"]
  /\ row'  = [row EXCEPT ![m] = [u \in User |->
                IF u \in offline[m] THEN "unsent" ELSE row[m][u]]]
  /\ overtaken' = overtaken \cup Overtaken(m, offline[m])
  /\ UNCHANGED <<offline, table, conn, resend, batch, update, copies, misjudged, cut>>

Reachable(u) == {s \in Sockets(u) : conn[s] = "joined"}

\* The emit to the rooms of the recipients, at once or when the timer fires.
Emit(m) ==
  /\ send' = [send EXCEPT ![m] = "done"]
  /\ copies' = [s \in Socket |->
       IF conn[s] = "joined" /\ Owner[s] \in Recipients[m]
       THEN [copies[s] EXCEPT ![m] = @ + 1] ELSE copies[s]]
  /\ misjudged' = misjudged \cup
       ({m} \X {u \in Recipients[m] \ offline[m] : Reachable(u) = {}})
  /\ UNCHANGED <<offline, table, row, conn, resend, batch, update, overtaken, cut>>

Ready(m) == send[m] = "listed" \/ (send[m] = "judged" /\ ~Kept(m))

SendToChannel(m) == Ready(m) /\ m \notin Delayed /\ Emit(m)

\* The call returns, and the message waits in a timer of its process.
StartTimer(m) ==
  /\ Ready(m)
  /\ m \in Delayed
  /\ send' = [send EXCEPT ![m] = "timer"]
  /\ UNCHANGED <<offline, table, row, conn, resend, batch, update, history>>

FireTimer(m) == send[m] = "timer" /\ Emit(m)

\* A step throws, or the process dies: nothing is emitted.
Fail(m) ==
  /\ send[m] \in {"judged", "stored", "listed", "timer"}
  /\ send'    = [send EXCEPT ![m] = "failed"]
  /\ offline' = [offline EXCEPT ![m] = {}]
  /\ UNCHANGED <<table, row, conn, resend, batch, update, history>>

-----------------------------------------------------------------------------
(* updateNotificationStatusItem *)

FindStatus(k, m, u, to) ==
  /\ update[k].pc = "idle"
  /\ m \in table
  /\ to # "none"
  /\ update' = [update EXCEPT ![k] =
       [pc |-> "save", of |-> {<<m, u>>}, found |-> row[m][u] # "none", to |-> to]]
  /\ UNCHANGED <<send, offline, table, row, conn, resend, batch, history>>

\* save: an insert when no row was found, refused if there is one by now;
\* otherwise the row is set, or made again if it was deleted.
SaveStatus(k) ==
  \E m \in Message, u \in User :
    /\ <<m, u>> \in update[k].of
    /\ update[k].found \/ row[m][u] = "none"
    /\ row' = [row EXCEPT ![m][u] = update[k].to]
    /\ update' = [update EXCEPT ![k] = NoUpdate("done")]
    /\ overtaken' = overtaken \cup Overtaken(m, {u})
    /\ UNCHANGED <<send, offline, table, conn, resend, batch, copies, misjudged, cut>>

UpdateFails(k) ==
  /\ update[k].pc = "save"
  /\ update' = [update EXCEPT ![k] = NoUpdate("done")]
  /\ UNCHANGED <<send, offline, table, row, conn, resend, batch, history>>

-----------------------------------------------------------------------------
Resend(s) == QueryUnsent(s) \/ EmitBatch(s) \/ DeleteRows(s) \/ ResendFails(s)

Next ==
  \/ \E s \in Socket : Connect(s) \/ JoinRooms(s) \/ Disconnect(s) \/ Resend(s)
  \/ \E m \in Message :
       \/ GetUsers(m) \/ SaveMessage(m) \/ SaveStatusUnsent(m)
       \/ SendToChannel(m) \/ StartTimer(m) \/ FireTimer(m) \/ Fail(m)
  \/ \E k \in Update :
       \/ \E m \in Message, u \in User, to \in Status : FindStatus(k, m, u, to)
       \/ SaveStatus(k) \/ UpdateFails(k)

Spec == Init /\ [][Next]_vars

\* A server that runs goes on with a resend it has begun; one that dies is a
\* step of Resend too.  Nothing else is owed.
FairSpec == Spec /\ \A s \in Socket : WF_vars(Resend(s))

-----------------------------------------------------------------------------
Handed(m, u) == \E s \in Sockets(u) : copies[s][m] > 0

(***************************************************************************)
(* A message with qos = 1 whose send went through is not lost on anyone:   *)
(* each recipient has been handed it or has a row that makes a later       *)
(* connect resend it.  The history names the three windows in which the    *)
(* code does lose it: presence was wrong when it was sent; its row was     *)
(* saved after a resend had read and before it deleted; the client went    *)
(* away while its resend was waiting for the database.                     *)
(***************************************************************************)
NoSilentLoss ==
  \A m \in AtLeastOnce : \A u \in Recipients[m] :
    (send[m] = "done" /\ <<m, u>> \notin misjudged \cup overtaken \cup cut)
    => row[m][u] # "none" \/ Handed(m, u)

(***************************************************************************)
(* A message with qos = 0 comes to the clients of a user at one moment     *)
(* only, once to each that is there: whoever connects later, the same      *)
(* client again or another, is not handed it, stored with rows or not and  *)
(* whatever a resend or a status update made of those rows.                *)
(***************************************************************************)
OnceWithoutQoS ==
  [][\A m \in Message \ AtLeastOnce, s \in Socket :
       copies'[s][m] # copies[s][m] =>
         copies'[s][m] = 1 /\ ~Handed(m, Owner[s])]_vars

(***************************************************************************)
(* A client that connects while an unsent row waits for its user gets the  *)
(* message, or another client of the user does, unless the user marks it   *)
(* as read, the client disconnects, its resend fails, or the resend of     *)
(* another client deletes the row (in the two windows of the history).     *)
(***************************************************************************)
ResentOnConnect ==
  \A s \in Socket, m \in AtLeastOnce :
    (resend[s] = "query" /\ m \in table /\ row[m][Owner[s]] = "unsent")
    ~> (Handed(m, Owner[s]) \/ row[m][Owner[s]] = "read"
        \/ conn[s] = "gone" \/ resend[s] = "failed"
        \/ <<m, Owner[s]>> \in overtaken \cup cut)

\* What is promised to u of m, as Mailbox has it: a message whose send is over, with no row
\* and no copy, is "lost", which it has no word for.
Mail(m, u) ==
  IF Handed(m, u) THEN "handed"
  ELSE IF <<m, u>> \in misjudged \cup overtaken \cup cut THEN "exposed"
  ELSE IF row[m][u] # "none" THEN "kept"
  ELSE IF send[m] = "done" THEN "lost"
  ELSE IF send[m] = "failed" THEN "refused" ELSE "none"

Box(m, u) == INSTANCE Mailbox WITH mail <- Mail(m, u)

(***************************************************************************)
(* For every recipient of a qos = 1 message Delivery implements Mailbox: a *)
(* row is deleted only when its message was handed over, even if the send  *)
(* failed after the row was saved, and nothing refused comes back but by a *)
(* status the user sets.                                                   *)
(***************************************************************************)
MailMovesForward ==
  /\ \A m \in AtLeastOnce : \A u \in Recipients[m] : Box(m, u)!Init
  /\ [][\A m \in AtLeastOnce : \A u \in Recipients[m] :
         Mail(m, u)' # Mail(m, u) => Box(m, u)!Next]_vars

(***************************************************************************)
(* qos = 1 sends until the user has read: a resend picks no message its    *)
(* user has marked as read.  Refuted: the query ignores the status.        *)
(***************************************************************************)
ResendsOnlyUnsent ==
  \A s \in Socket : \A b \in batch[s] : b[2] = "unsent"

(***************************************************************************)
(* A message sent while the user was taken to be offline is kept until a   *)
(* resend has emitted it, be it to a socket already gone.  Refuted: the    *)
(* resend deletes every row of its user, one saved since its query too.    *)
(***************************************************************************)
KeptUntilOnline ==
  \A m \in AtLeastOnce : \A u \in offline[m] :
    send[m] = "done" => row[m][u] # "none" \/ Handed(m, u) \/ <<m, u>> \in cut

=============================================================================
