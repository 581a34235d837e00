--------------------------- MODULE DeliveryProofs ---------------------------
(***************************************************************************)
(* NoSilentLoss and OnceWithoutQoS for any users, sockets, messages and    *)
(* status updates.                                                         *)
(*                                                                         *)
(* NoSilentLoss speaks of sends that are over.  What carries it there is   *)
(* what a resend under way owes to every row of its user: to have the      *)
(* message in its batch while it waits to emit, and to have handed it over *)
(* before it deletes.                                                      *)
(***************************************************************************)
EXTENDS Delivery, TLAPS

-----------------------------------------------------------------------------
(* The inductive invariant *)

\* A status row, made or about to be made, is of a stored message and is one.
RowsAreStored ==
  /\ \A m \in Message, u \in User : row[m][u] # "none" => m \in table
  /\ \A m \in Message : send[m] = "stored" => m \in table
  /\ \A k \in Update : \A p \in update[k].of : p[1] \in table /\ update[k].to # "none"

OfflineAreRecipients == \A m \in Message : offline[m] \subseteq Recipients[m]

\* A resend that waits to emit has every row of its user it will delete.
BatchHasRows ==
  \A s \in Socket : resend[s] = "emit" =>
    \A m \in AtLeastOnce :
      (row[m][Owner[s]] # "none" /\ <<m, Owner[s]>> \notin overtaken) => m \in InBatch(s)

\* A resend that waits to delete has handed over what it will delete.
DeleteIsDue ==
  \A s \in Socket : resend[s] = "delete" =>
    \A m \in AtLeastOnce :
      (row[m][Owner[s]] # "none" /\ <<m, Owner[s]>> \notin overtaken \cup cut)
        => Handed(m, Owner[s])

\* From the moment the rows are saved, who was taken to be offline is safe.
OfflineIsSafe ==
  \A m \in AtLeastOnce : send[m] \in {"listed", "timer", "done"} =>
    \A u \in offline[m] :
      <<m, u>> \notin overtaken \cup cut => row[m][u] # "none" \/ Handed(m, u)

OnlineIsSafe ==
  \A m \in Message : send[m] = "done" =>
    \A u \in Recipients[m] \ offline[m] : <<m, u>> \notin misjudged => Handed(m, u)

\* Only messages with qos = 1 are in a batch, so only the send hands out others.
BatchIsQoS == \A s \in Socket : InBatch(s) \subseteq AtLeastOnce

OnceAtEmit ==
  \A s \in Socket, m \in Message \ AtLeastOnce :
    copies[s][m] <= (IF send[m] = "done" THEN 1 ELSE 0)

IInv ==
  /\ TypeOK
  /\ RowsAreStored
  /\ OfflineAreRecipients
  /\ BatchHasRows
  /\ DeleteIsDue
  /\ OfflineIsSafe
  /\ OnlineIsSafe
  /\ BatchIsQoS
  /\ OnceAtEmit

-----------------------------------------------------------------------------
(* Types *)

LEMMA BatchTyped == TypeOK => \A s \in Socket : InBatch(s) \subseteq Message
  BY DEF TypeOK, InBatch

LEMMA TypeStep == TypeOK /\ [Next]_vars => TypeOK'
<1> SUFFICES ASSUME TypeOK, [Next]_vars PROVE TypeOK'
  OBVIOUS
<1> USE OwnerAssumption, MessageAssumption DEF TypeOK, history
<1>1. ASSUME NEW s \in Socket, Connect(s) PROVE TypeOK'
  BY <1>1 DEF Connect
<1>2. ASSUME NEW s \in Socket, JoinRooms(s) PROVE TypeOK'
  BY <1>2 DEF JoinRooms
<1>3. ASSUME NEW s \in Socket, Disconnect(s) PROVE TypeOK'
  BY <1>3 DEF Disconnect
<1>4. ASSUME NEW s \in Socket, QueryUnsent(s) PROVE TypeOK'
  BY <1>4 DEF QueryUnsent, MessageUnsent, Status
<1>5. ASSUME NEW s \in Socket, EmitBatch(s) PROVE TypeOK'
  <2>1. (copies \in [Socket -> [Message -> Nat]])'
    <3>1. CASE conn[s] = "gone"
      BY <1>5, <3>1 DEF EmitBatch
    <3>2. CASE conn[s] # "gone"
      <4> DEFINE more == [n \in Message |-> copies[s][n] + (IF n \in InBatch(s) THEN 1 ELSE 0)]
      <4>1. more \in [Message -> Nat]
        OBVIOUS
      <4>2. copies' = [copies EXCEPT ![s] = more]
        BY <1>5, <3>2 DEF EmitBatch
      <4> HIDE DEF more
      <4> QED
        BY <4>1, <4>2
    <3> QED
      BY <3>1, <3>2
  <2>2. (cut \in SUBSET Pair)'
    BY <1>5, BatchTyped DEF EmitBatch, Pair
  <2> QED
    BY <1>5, <2>1, <2>2 DEF EmitBatch
<1>6. ASSUME NEW s \in Socket, DeleteRows(s) PROVE TypeOK'
  BY <1>6 DEF DeleteRows, Status
<1>7. ASSUME NEW s \in Socket, ResendFails(s) PROVE TypeOK'
  BY <1>7 DEF ResendFails
<1>8. ASSUME NEW m \in Message, GetUsers(m) PROVE TypeOK'
  BY <1>8 DEF GetUsers
<1>9. ASSUME NEW m \in Message, SaveMessage(m) PROVE TypeOK'
  BY <1>9 DEF SaveMessage
<1>10. ASSUME NEW m \in Message, SaveStatusUnsent(m) PROVE TypeOK'
  BY <1>10 DEF SaveStatusUnsent, Overtaken, Pair, Status
<1>11. ASSUME NEW m \in Message, SendToChannel(m) PROVE TypeOK'
  BY <1>11 DEF SendToChannel, Emit, Ready, Pair
<1>12. ASSUME NEW m \in Message, StartTimer(m) PROVE TypeOK'
  BY <1>12 DEF StartTimer, Ready
<1>13. ASSUME NEW m \in Message, FireTimer(m) PROVE TypeOK'
  BY <1>13 DEF FireTimer, Emit, Pair
<1>14. ASSUME NEW m \in Message, Fail(m) PROVE TypeOK'
  BY <1>14 DEF Fail
<1>15. ASSUME NEW k \in Update, NEW m \in Message, NEW u \in User, NEW to \in Status,
           FindStatus(k, m, u, to) PROVE TypeOK'
  BY <1>15 DEF FindStatus, Pair
<1>16. ASSUME NEW k \in Update, SaveStatus(k) PROVE TypeOK'
  BY <1>16 DEF SaveStatus, Overtaken, Pair, NoUpdate, Status
<1>17. ASSUME NEW k \in Update, UpdateFails(k) PROVE TypeOK'
  BY <1>17 DEF UpdateFails, NoUpdate, Status
<1>18. CASE UNCHANGED vars
  BY <1>18 DEF vars
<1> QED
  BY <1>1, <1>2, <1>3, <1>4, <1>5, <1>6, <1>7, <1>8, <1>9, <1>10, <1>11,
     <1>12, <1>13, <1>14, <1>15, <1>16, <1>17, <1>18
     DEF Next, Resend

(***************************************************************************)
(* The state keeps its types; in particular a socket is never handed a     *)
(* message that was not sent, and a program counter never leaves its path. *)
(***************************************************************************)
THEOREM TypeCorrect == Spec => []TypeOK
<1>1. Init => TypeOK
  BY DEF Init, TypeOK, NoUpdate, Status
<1> QED
  BY <1>1, TypeStep, PTL DEF Spec

-----------------------------------------------------------------------------
(* The steps: of each, first what it can disturb, then the rest. *)

LEMMA InitInv == Init => IInv
<1> SUFFICES ASSUME Init PROVE IInv
  OBVIOUS
<1>1. TypeOK
  BY DEF Init, TypeOK, NoUpdate, Status
<1>2. OnceAtEmit
  BY DEF Init, OnceAtEmit
<1>3. RowsAreStored /\ OfflineAreRecipients
  BY <1>1 DEF Init, NoUpdate, RowsAreStored, OfflineAreRecipients
<1>4. BatchHasRows /\ DeleteIsDue /\ BatchIsQoS
  BY DEF Init, BatchHasRows, DeleteIsDue, BatchIsQoS, InBatch
<1>5. OfflineIsSafe /\ OnlineIsSafe
  BY MessageAssumption DEF Init, OfflineIsSafe, OnlineIsSafe
<1> QED
  BY <1>1, <1>2, <1>3, <1>4, <1>5 DEF IInv

\* An emit takes nothing back, and hands m to every recipient it can reach.
LEMMA EmitHands ==
  ASSUME TypeOK, NEW m \in Message, Emit(m)
  PROVE  /\ \A n \in Message, u \in User : Handed(n, u) => Handed(n, u)'
         /\ \A u \in Recipients[m] : Reachable(u) # {} => Handed(m, u)'
         /\ \A s \in Socket, n \in Message \ {m} : copies'[s][n] = copies[s][n]
         /\ \A s \in Socket : copies'[s][m] <= copies[s][m] + 1
<1> USE OwnerAssumption, MessageAssumption DEF TypeOK, Emit
<1>1. \A s \in Socket, n \in Message \ {m} : copies'[s][n] = copies[s][n]
  OBVIOUS
<1>2. \A s \in Socket : copies'[s][m] \in {copies[s][m], copies[s][m] + 1}
  OBVIOUS
<1>3. \A s \in Socket : conn[s] = "joined" /\ Owner[s] \in Recipients[m]
                        => copies'[s][m] = copies[s][m] + 1
  OBVIOUS
<1>4. \A s \in Socket, n \in Message : copies[s][n] \in Nat
  OBVIOUS
<1>5. \A s \in Socket, n \in Message : copies[s][n] > 0 => copies'[s][n] > 0
  BY <1>1, <1>2, <1>4
<1>6. \A n \in Message, u \in User : Handed(n, u) => Handed(n, u)'
  BY <1>5 DEF Handed, Sockets
<1>7. ASSUME NEW u \in Recipients[m], Reachable(u) # {} PROVE Handed(m, u)'
  <2>1. PICK s \in Socket : Owner[s] = u /\ conn[s] = "joined"
    BY <1>7 DEF Reachable, Sockets
  <2>2. copies'[s][m] > 0
    BY <2>1, <1>3, <1>4
  <2> QED
    BY <2>1, <2>2 DEF Handed, Sockets
<1>8. \A s \in Socket : copies'[s][m] <= copies[s][m] + 1
  BY <1>2, <1>4
<1> QED
  BY <1>1, <1>6, <1>7, <1>8

\* A resend takes nothing back, and hands its batch to its socket or is cut.
LEMMA EmitBatchHands ==
  ASSUME TypeOK, NEW s \in Socket, EmitBatch(s)
  PROVE  /\ \A n \in Message, u \in User : Handed(n, u) => Handed(n, u)'
         /\ \A n \in InBatch(s) : Handed(n, Owner[s])' \/ <<n, Owner[s]>> \in cut'
         /\ cut \subseteq cut'
         /\ \A t \in Socket, n \in Message \ InBatch(s) : copies'[t][n] = copies[t][n]
<1> USE OwnerAssumption DEF TypeOK, EmitBatch, Handed, Sockets
<1>0. InBatch(s) \subseteq Message
  BY BatchTyped
<1>1. CASE conn[s] = "gone"
  BY <1>0, <1>1
<1>2. CASE conn[s] # "gone"
  <2>1. \A n \in Message : copies'[s][n] = copies[s][n] + (IF n \in InBatch(s) THEN 1 ELSE 0)
    BY <1>2
  <2>2. \A t \in Socket \ {s} : copies'[t] = copies[t]
    BY <1>2
  <2>3. \A t \in Socket, n \in Message : copies[t][n] > 0 => copies'[t][n] > 0
    <3>1. \A t \in Socket, n \in Message : copies[t][n] \in Nat
      OBVIOUS
    <3>2. ASSUME NEW n \in Message, copies[s][n] > 0 PROVE copies'[s][n] > 0
      <4> HIDE DEF TypeOK, EmitBatch
      <4>1. copies'[s][n] = copies[s][n] + (IF n \in InBatch(s) THEN 1 ELSE 0)
        BY <2>1
      <4>2. copies[s][n] \in Nat
        BY <3>1
      <4> QED
        BY <3>2, <4>1, <4>2
    <3> QED
      BY <2>2, <3>2
  <2>4. \A n \in InBatch(s) : copies'[s][n] > 0
    BY <1>0, <2>1
  <2>5. cut' = cut
    BY <1>2
  <2> HIDE DEF EmitBatch
  <2>6. \A n \in Message, u \in User : Handed(n, u) => Handed(n, u)'
    BY <2>3
  <2>7. \A n \in InBatch(s) : Handed(n, Owner[s])'
    BY <2>4
  <2>8. \A t \in Socket, n \in Message \ InBatch(s) : copies'[t][n] = copies[t][n]
    BY <2>1, <2>2
  <2> QED
    BY <2>5, <2>6, <2>7, <2>8
<1> QED
  BY <1>1, <1>2

LEMMA InvStep == IInv /\ [Next]_vars => IInv'
<1> SUFFICES ASSUME IInv, [Next]_vars PROVE IInv'
  OBVIOUS
<1> USE OwnerAssumption, MessageAssumption DEF TypeOK, IInv, history
<1>0. TypeOK'
  BY TypeStep
<1>1. ASSUME NEW s \in Socket, Connect(s) PROVE IInv'
  <2>1. (RowsAreStored /\ OfflineAreRecipients /\ BatchHasRows /\ DeleteIsDue
        /\ OfflineIsSafe /\ OnlineIsSafe /\ BatchIsQoS /\ OnceAtEmit)'
    BY <1>1 DEF Connect, RowsAreStored, OfflineAreRecipients, BatchHasRows,
       InBatch, DeleteIsDue, OfflineIsSafe, OnlineIsSafe, BatchIsQoS,
       OnceAtEmit, Handed, Sockets
  <2> QED
    BY <1>0, <2>1
<1>2. ASSUME NEW s \in Socket, JoinRooms(s) PROVE IInv'
  <2>1. (RowsAreStored /\ OfflineAreRecipients /\ BatchHasRows /\ DeleteIsDue
        /\ OfflineIsSafe /\ OnlineIsSafe /\ BatchIsQoS /\ OnceAtEmit)'
    BY <1>2 DEF JoinRooms, RowsAreStored, OfflineAreRecipients, BatchHasRows,
       InBatch, DeleteIsDue, OfflineIsSafe, OnlineIsSafe, BatchIsQoS,
       OnceAtEmit, Handed, Sockets
  <2> QED
    BY <1>0, <2>1
<1>3. ASSUME NEW s \in Socket, Disconnect(s) PROVE IInv'
  <2>1. (RowsAreStored /\ OfflineAreRecipients /\ BatchHasRows /\ DeleteIsDue
        /\ OfflineIsSafe /\ OnlineIsSafe /\ BatchIsQoS /\ OnceAtEmit)'
    BY <1>3 DEF Disconnect, RowsAreStored, OfflineAreRecipients, BatchHasRows,
       InBatch, DeleteIsDue, OfflineIsSafe, OnlineIsSafe, BatchIsQoS,
       OnceAtEmit, Handed, Sockets
  <2> QED
    BY <1>0, <2>1
<1>4. ASSUME NEW s \in Socket, QueryUnsent(s) PROVE IInv'
  <2>1. BatchHasRows'
    <3>1. \A n \in MessageUnsent(Owner[s]) : n \in InBatch(s)'
      <4>1. ASSUME NEW n \in MessageUnsent(Owner[s])
            PROVE  <<n, row[n][Owner[s]]>> \in batch'[s]
        BY <1>4 DEF QueryUnsent
      <4>2. ASSUME NEW n \in MessageUnsent(Owner[s]) PROVE n \in InBatch(s)'
        <5> DEFINE b == <<n, row[n][Owner[s]]>>
        <5>1. b \in batch'[s] /\ b[1] = n
          BY <4>1
        <5> HIDE DEF b
        <5> QED
          BY <5>1 DEF InBatch
      <4> QED
        BY <4>2
    <3>2. \A n \in AtLeastOnce : row[n][Owner[s]] # "none" => n \in MessageUnsent(Owner[s])
      BY DEF MessageUnsent, RowsAreStored
    <3>3. \A t \in Socket \ {s} : InBatch(t)' = InBatch(t) /\ resend'[t] = resend[t]
      BY <1>4 DEF QueryUnsent, InBatch
    <3> QED
      BY <1>4, <3>1, <3>2, <3>3 DEF QueryUnsent, BatchHasRows
  <2>2. BatchIsQoS'
    BY <1>4 DEF QueryUnsent, MessageUnsent, BatchIsQoS, InBatch
  <2>3. (RowsAreStored /\ OfflineAreRecipients /\ DeleteIsDue /\ OfflineIsSafe
        /\ OnlineIsSafe /\ OnceAtEmit)'
    BY <1>4 DEF QueryUnsent, MessageUnsent, RowsAreStored,
       OfflineAreRecipients, DeleteIsDue, BatchHasRows, OfflineIsSafe,
       OnlineIsSafe, OnceAtEmit, BatchIsQoS, Handed, Sockets
  <2> QED
    BY <1>0, <2>1, <2>2, <2>3
<1>5. ASSUME NEW s \in Socket, EmitBatch(s) PROVE IInv'
  <2>1. DeleteIsDue'
    BY <1>5, EmitBatchHands DEF EmitBatch, DeleteIsDue, BatchHasRows
  <2>2. OfflineIsSafe'
    BY <1>5, EmitBatchHands DEF EmitBatch, OfflineIsSafe, DeleteIsDue
  <2>3. OnlineIsSafe'
    BY <1>5, EmitBatchHands DEF EmitBatch, OnlineIsSafe
  <2>4. BatchIsQoS'
    BY <1>5, EmitBatchHands DEF EmitBatch, BatchIsQoS, InBatch
  <2>5. OnceAtEmit'
    <3>1. \A t \in Socket, n \in Message \ AtLeastOnce : copies'[t][n] = copies[t][n]
      BY <1>5, EmitBatchHands DEF BatchIsQoS
    <3>2. send' = send
      BY <1>5 DEF EmitBatch
    <3> QED
      BY <3>1, <3>2 DEF OnceAtEmit
  <2>6. (RowsAreStored /\ OfflineAreRecipients /\ BatchHasRows)'
    BY <1>5, EmitBatchHands DEF EmitBatch, RowsAreStored, OfflineAreRecipients,
       BatchHasRows, InBatch
  <2> QED
    BY <1>0, <2>1, <2>2, <2>3, <2>4, <2>5, <2>6
<1>6. ASSUME NEW s \in Socket, DeleteRows(s) PROVE IInv'
  <2>1. RowsAreStored'
    BY <1>6 DEF DeleteRows, RowsAreStored
  <2>2. BatchHasRows'
    BY <1>6 DEF DeleteRows, BatchHasRows, RowsAreStored, InBatch
  <2>3. DeleteIsDue'
    BY <1>6 DEF DeleteRows, DeleteIsDue, BatchHasRows, Handed, Sockets
  <2>4. OfflineIsSafe'
    BY <1>6 DEF DeleteRows, OfflineIsSafe, DeleteIsDue, Handed, Sockets
  <2>5. (OfflineAreRecipients /\ OnlineIsSafe /\ BatchIsQoS /\ OnceAtEmit)'
    BY <1>6 DEF DeleteRows, OfflineAreRecipients, OnlineIsSafe, BatchIsQoS,
       InBatch, OnceAtEmit, Handed, Sockets
  <2> QED
    BY <1>0, <2>1, <2>2, <2>3, <2>4, <2>5
<1>7. ASSUME NEW s \in Socket, ResendFails(s) PROVE IInv'
  <2>1. BatchIsQoS'
    BY <1>7 DEF ResendFails, BatchIsQoS, InBatch
  <2>2. (RowsAreStored /\ OfflineAreRecipients /\ BatchHasRows /\ DeleteIsDue
        /\ OfflineIsSafe /\ OnlineIsSafe /\ OnceAtEmit)'
    BY <1>7 DEF ResendFails, RowsAreStored, OfflineAreRecipients, BatchHasRows,
       InBatch, DeleteIsDue, OfflineIsSafe, OnlineIsSafe, OnceAtEmit,
       BatchIsQoS, Handed, Sockets
  <2> QED
    BY <1>0, <2>1, <2>2
<1>8. ASSUME NEW m \in Message, GetUsers(m) PROVE IInv'
  <2>1. OfflineAreRecipients'
    BY <1>8 DEF GetUsers, OfflineAreRecipients
  <2>2. (RowsAreStored /\ BatchHasRows /\ DeleteIsDue /\ OfflineIsSafe
        /\ OnlineIsSafe /\ BatchIsQoS /\ OnceAtEmit)'
    BY <1>8 DEF GetUsers, RowsAreStored, BatchHasRows, InBatch, DeleteIsDue,
       OfflineIsSafe, OnlineIsSafe, BatchIsQoS, OnceAtEmit, Handed, Sockets
  <2> QED
    BY <1>0, <2>1, <2>2
<1>9. ASSUME NEW m \in Message, SaveMessage(m) PROVE IInv'
  <2>1. RowsAreStored'
    BY <1>9 DEF SaveMessage, RowsAreStored
  <2>2. (OfflineAreRecipients /\ BatchHasRows /\ DeleteIsDue /\ OfflineIsSafe
        /\ OnlineIsSafe /\ BatchIsQoS /\ OnceAtEmit)'
    BY <1>9 DEF SaveMessage, OfflineAreRecipients, BatchHasRows, RowsAreStored,
       InBatch, DeleteIsDue, OfflineIsSafe, OnlineIsSafe, BatchIsQoS,
       OnceAtEmit, Handed, Sockets
  <2> QED
    BY <1>0, <2>1, <2>2
<1>10. ASSUME NEW m \in Message, SaveStatusUnsent(m) PROVE IInv'
  <2>1. RowsAreStored'
    BY <1>10 DEF SaveStatusUnsent, Overtaken, RowsAreStored, Sockets
  <2>2. BatchHasRows'
    BY <1>10 DEF SaveStatusUnsent, Overtaken, BatchHasRows, RowsAreStored,
       InBatch, Sockets
  <2>3. DeleteIsDue'
    BY <1>10 DEF SaveStatusUnsent, Overtaken, DeleteIsDue, BatchHasRows,
       Handed, Sockets
  <2>4. OfflineIsSafe'
    BY <1>10 DEF SaveStatusUnsent, Overtaken, OfflineIsSafe, DeleteIsDue,
       Handed, Sockets
  <2>5. (OfflineAreRecipients /\ OnlineIsSafe /\ BatchIsQoS /\ OnceAtEmit)'
    BY <1>10 DEF SaveStatusUnsent, Overtaken, OfflineAreRecipients,
       OnlineIsSafe, BatchIsQoS, InBatch, OnceAtEmit, Handed, Sockets
  <2> QED
    BY <1>0, <2>1, <2>2, <2>3, <2>4, <2>5
<1>11. ASSUME NEW m \in Message, SendToChannel(m) PROVE IInv'
  <2>1. DeleteIsDue'
    BY <1>11, EmitHands DEF SendToChannel, Emit, Ready, Kept, Reachable,
       DeleteIsDue, BatchHasRows
  <2>2. OfflineIsSafe'
    BY <1>11, EmitHands DEF SendToChannel, Emit, Ready, Kept, Reachable,
       OfflineIsSafe, DeleteIsDue
  <2>3. OnlineIsSafe'
    BY <1>11, EmitHands DEF SendToChannel, Emit, Ready, Kept, Reachable,
       OnlineIsSafe
  <2>4. OnceAtEmit'
    BY <1>11, EmitHands DEF SendToChannel, Emit, Ready, Kept, Reachable,
       OnceAtEmit, BatchIsQoS
  <2>5. (RowsAreStored /\ OfflineAreRecipients /\ BatchHasRows /\ BatchIsQoS)'
    BY <1>11, EmitHands DEF SendToChannel, Emit, Ready, Kept, Reachable,
       RowsAreStored, OfflineAreRecipients, BatchHasRows, InBatch, BatchIsQoS
  <2> QED
    BY <1>0, <2>1, <2>2, <2>3, <2>4, <2>5
<1>12. ASSUME NEW m \in Message, StartTimer(m) PROVE IInv'
  <2>1. OfflineIsSafe'
    BY <1>12 DEF StartTimer, Ready, Kept, OfflineIsSafe, DeleteIsDue, Handed,
       Sockets
  <2>2. (RowsAreStored /\ OfflineAreRecipients /\ BatchHasRows /\ DeleteIsDue
        /\ OnlineIsSafe /\ BatchIsQoS /\ OnceAtEmit)'
    BY <1>12 DEF StartTimer, Ready, Kept, RowsAreStored, OfflineAreRecipients,
       BatchHasRows, InBatch, DeleteIsDue, OnlineIsSafe, BatchIsQoS,
       OnceAtEmit, Handed, Sockets
  <2> QED
    BY <1>0, <2>1, <2>2
<1>13. ASSUME NEW m \in Message, FireTimer(m) PROVE IInv'
  <2>1. DeleteIsDue'
    BY <1>13, EmitHands DEF FireTimer, Emit, Reachable, DeleteIsDue,
       BatchHasRows
  <2>2. OfflineIsSafe'
    BY <1>13, EmitHands DEF FireTimer, Emit, Reachable, OfflineIsSafe,
       DeleteIsDue
  <2>3. OnlineIsSafe'
    BY <1>13, EmitHands DEF FireTimer, Emit, Reachable, OnlineIsSafe
  <2>4. OnceAtEmit'
    BY <1>13, EmitHands DEF FireTimer, Emit, Reachable, OnceAtEmit, BatchIsQoS
  <2>5. (RowsAreStored /\ OfflineAreRecipients /\ BatchHasRows /\ BatchIsQoS)'
    BY <1>13, EmitHands DEF FireTimer, Emit, Reachable, RowsAreStored,
       OfflineAreRecipients, BatchHasRows, InBatch, BatchIsQoS
  <2> QED
    BY <1>0, <2>1, <2>2, <2>3, <2>4, <2>5
<1>14. ASSUME NEW m \in Message, Fail(m) PROVE IInv'
  <2>1. OfflineAreRecipients'
    BY <1>14 DEF Fail, OfflineAreRecipients
  <2>2. (RowsAreStored /\ BatchHasRows /\ DeleteIsDue /\ OfflineIsSafe
        /\ OnlineIsSafe /\ BatchIsQoS /\ OnceAtEmit)'
    BY <1>14 DEF Fail, RowsAreStored, BatchHasRows, InBatch, DeleteIsDue,
       OfflineIsSafe, OnlineIsSafe, BatchIsQoS, OnceAtEmit, Handed, Sockets
  <2> QED
    BY <1>0, <2>1, <2>2
<1>15. ASSUME NEW k \in Update, NEW m \in Message, NEW u \in User, NEW to \in Status,
           FindStatus(k, m, u, to) PROVE IInv'
  <2>1. RowsAreStored'
    BY <1>15 DEF FindStatus, RowsAreStored
  <2>2. (OfflineAreRecipients /\ BatchHasRows /\ DeleteIsDue /\ OfflineIsSafe
        /\ OnlineIsSafe /\ BatchIsQoS /\ OnceAtEmit)'
    BY <1>15 DEF FindStatus, OfflineAreRecipients, BatchHasRows, RowsAreStored,
       InBatch, DeleteIsDue, OfflineIsSafe, OnlineIsSafe, BatchIsQoS,
       OnceAtEmit, Handed, Sockets
  <2> QED
    BY <1>0, <2>1, <2>2
<1>16. ASSUME NEW k \in Update, SaveStatus(k) PROVE IInv'
  <2>1. RowsAreStored'
    BY <1>16 DEF SaveStatus, Overtaken, NoUpdate, RowsAreStored, Sockets
  <2>2. BatchHasRows'
    BY <1>16 DEF SaveStatus, Overtaken, NoUpdate, BatchHasRows, RowsAreStored,
       InBatch, Sockets
  <2>3. DeleteIsDue'
    BY <1>16 DEF SaveStatus, Overtaken, NoUpdate, DeleteIsDue, BatchHasRows,
       Handed, Sockets
  <2>4. OfflineIsSafe'
    <3>1. \A m \in Message, u \in User : row[m][u] # "none" => row'[m][u] # "none"
      BY <1>16 DEF SaveStatus, RowsAreStored
    <3>2. send' = send /\ offline' = offline /\ copies' = copies
      BY <1>16 DEF SaveStatus
    <3>3. overtaken \cup cut \subseteq overtaken' \cup cut'
      BY <1>16 DEF SaveStatus
    <3> QED
      BY <3>1, <3>2, <3>3 DEF OfflineIsSafe, Handed, Sockets
  <2>5. (OfflineAreRecipients /\ OnlineIsSafe /\ BatchIsQoS /\ OnceAtEmit)'
    BY <1>16 DEF SaveStatus, Overtaken, NoUpdate, OfflineAreRecipients,
       OnlineIsSafe, BatchIsQoS, InBatch, OnceAtEmit, Handed, Sockets
  <2> QED
    BY <1>0, <2>1, <2>2, <2>3, <2>4, <2>5
<1>17. ASSUME NEW k \in Update, UpdateFails(k) PROVE IInv'
  <2>1. RowsAreStored'
    BY <1>17 DEF UpdateFails, NoUpdate, RowsAreStored
  <2>2. (OfflineAreRecipients /\ BatchHasRows /\ DeleteIsDue /\ OfflineIsSafe
        /\ OnlineIsSafe /\ BatchIsQoS /\ OnceAtEmit)'
    BY <1>17 DEF UpdateFails, NoUpdate, OfflineAreRecipients, BatchHasRows,
       RowsAreStored, InBatch, DeleteIsDue, OfflineIsSafe, OnlineIsSafe,
       BatchIsQoS, OnceAtEmit, Handed, Sockets
  <2> QED
    BY <1>0, <2>1, <2>2
<1>18. CASE UNCHANGED vars
  BY <1>18, <1>0 DEF vars, RowsAreStored, OfflineAreRecipients, BatchHasRows,
     DeleteIsDue, OfflineIsSafe, OnlineIsSafe, BatchIsQoS, OnceAtEmit, InBatch,
     Handed, Sockets
<1> QED
  BY <1>1, <1>2, <1>3, <1>4, <1>5, <1>6, <1>7, <1>8, <1>9, <1>10, <1>11,
     <1>12, <1>13, <1>14, <1>15, <1>16, <1>17, <1>18
     DEF Next, Resend

-----------------------------------------------------------------------------
LEMMA IInvAlways == Spec => []IInv
  BY InitInv, InvStep, PTL DEF Spec

LEMMA InvIsSafe == IInv => NoSilentLoss
<1> SUFFICES ASSUME IInv, NEW m \in AtLeastOnce, NEW u \in Recipients[m],
                    send[m] = "done",
                    <<m, u>> \notin misjudged \cup overtaken \cup cut
             PROVE  row[m][u] # "none" \/ Handed(m, u)
  BY DEF NoSilentLoss
<1>1. CASE u \in offline[m]
  BY <1>1 DEF IInv, OfflineIsSafe
<1>2. CASE u \notin offline[m]
  BY <1>2, MessageAssumption DEF IInv, OnlineIsSafe
<1> QED
  BY <1>1, <1>2

(***************************************************************************)
(* A message with qos = 1 whose send went through is not lost outside the  *)
(* three windows of the history: NoSilentLoss, for every instance.         *)
(***************************************************************************)
THEOREM NothingLostSilently == Spec => []NoSilentLoss
  BY InvIsSafe, IInvAlways, PTL

-----------------------------------------------------------------------------
(* Once without qos *)

\* An emit is the one moment of m, whatever its qos.
LEMMA EmitIsOnce ==
  ASSUME IInv, NEW n \in Message, Emit(n), send[n] # "done",
         NEW m \in Message \ AtLeastOnce, NEW s \in Socket, copies'[s][m] # copies[s][m]
  PROVE  copies'[s][m] = 1 /\ ~Handed(m, Owner[s])
<1>1. m = n
  BY EmitHands DEF IInv
<1>2. \A t \in Socket : copies[t][m] = 0
  BY <1>1 DEF IInv, OnceAtEmit, TypeOK
<1>3. copies'[s][m] = copies[s][m] + 1
  BY <1>1 DEF Emit, IInv, TypeOK
<1> QED
  BY <1>2, <1>3 DEF Handed, Sockets

LEMMA OnceStep ==
  ASSUME IInv, [Next]_vars, NEW m \in Message \ AtLeastOnce, NEW s \in Socket,
         copies'[s][m] # copies[s][m]
  PROVE  copies'[s][m] = 1 /\ ~Handed(m, Owner[s])
<1>1. ASSUME NEW t \in Socket, Resend(t) PROVE copies'[s][m] = copies[s][m]
  <2>1. CASE EmitBatch(t)
    <3>1. m \notin InBatch(t)
      BY DEF IInv, BatchIsQoS
    <3> QED
      BY <2>1, <3>1, EmitBatchHands DEF IInv
  <2> QED
    BY <1>1, <2>1 DEF Resend, QueryUnsent, DeleteRows, ResendFails, history
<1>2. CASE UNCHANGED copies
  BY <1>2
<1>3. ASSUME NEW n \in Message, SendToChannel(n) \/ FireTimer(n)
      PROVE  copies'[s][m] = 1 /\ ~Handed(m, Owner[s])
  <2>1. Emit(n) /\ send[n] # "done"
    BY <1>3 DEF SendToChannel, Ready, FireTimer
  <2> QED
    BY <2>1, EmitIsOnce
<1> QED
  BY <1>1, <1>2, <1>3
  DEF Next, Connect, JoinRooms, Disconnect, GetUsers, SaveMessage, SaveStatusUnsent,
      StartTimer, Fail, FindStatus, SaveStatus, UpdateFails, history, vars

(***************************************************************************)
(* A message with qos = 0 comes to the clients of a user at one moment     *)
(* only, whatever rows it left and whoever connects later: OnceWithoutQoS. *)
(***************************************************************************)
THEOREM SentOnceWithoutQoS == Spec => OnceWithoutQoS
<1> DEFINE Once(m, s) == copies'[s][m] # copies[s][m] =>
                           copies'[s][m] = 1 /\ ~Handed(m, Owner[s])
<1>1. IInv /\ [Next]_vars => [\A m \in Message \ AtLeastOnce, s \in Socket : Once(m, s)]_vars
  BY OnceStep
<1> QED
  BY <1>1, IInvAlways, PTL DEF Spec, OnceWithoutQoS

-----------------------------------------------------------------------------
(* Delivery implements Mailbox *)

Exposed(m, u) == <<m, u>> \in misjudged \cup overtaken \cup cut

\* A resend that waits to emit m took it from a row, which no other resend has deleted
\* but after an emit.
BatchIsKept ==
  \A s \in Socket : \A m \in InBatch(s) :
    row[m][Owner[s]] # "none" \/ Handed(m, Owner[s]) \/ Exposed(m, Owner[s])

\* What nothing takes back: a copy, a window, a failure.
Stands ==
  /\ \A m \in Message, u \in User : Handed(m, u) => Handed(m, u)'
  /\ \A m \in Message, u \in User : Exposed(m, u) => Exposed(m, u)'
  /\ \A m \in Message : send[m] = "failed" => send'[m] = "failed"

LEMMA StandsStep == TypeOK /\ [Next]_vars => Stands
<1> SUFFICES ASSUME TypeOK, [Next]_vars PROVE Stands
  OBVIOUS
<1> USE DEF Stands, Exposed, TypeOK, history
<1>1. ASSUME NEW s \in Socket, Connect(s) PROVE Stands
  BY <1>1 DEF Connect, Handed, Sockets
<1>2. ASSUME NEW s \in Socket, JoinRooms(s) PROVE Stands
  BY <1>2 DEF JoinRooms, Handed, Sockets
<1>3. ASSUME NEW s \in Socket, Disconnect(s) PROVE Stands
  BY <1>3 DEF Disconnect, Handed, Sockets
<1>4. ASSUME NEW s \in Socket, QueryUnsent(s) PROVE Stands
  BY <1>4 DEF QueryUnsent, Handed, Sockets
<1>5. ASSUME NEW s \in Socket, EmitBatch(s) PROVE Stands
  BY <1>5, EmitBatchHands DEF EmitBatch
<1>6. ASSUME NEW s \in Socket, DeleteRows(s) PROVE Stands
  BY <1>6 DEF DeleteRows, Handed, Sockets
<1>7. ASSUME NEW s \in Socket, ResendFails(s) PROVE Stands
  BY <1>7 DEF ResendFails, Handed, Sockets
<1>8. ASSUME NEW m \in Message, GetUsers(m) PROVE Stands
  BY <1>8 DEF GetUsers, Handed, Sockets
<1>9. ASSUME NEW m \in Message, SaveMessage(m) PROVE Stands
  BY <1>9 DEF SaveMessage, Handed, Sockets
<1>10. ASSUME NEW m \in Message, SaveStatusUnsent(m) PROVE Stands
  BY <1>10 DEF SaveStatusUnsent, Handed, Sockets
<1>11. ASSUME NEW m \in Message, SendToChannel(m) PROVE Stands
  <2>1. Emit(m) /\ send[m] # "failed"
    BY <1>11 DEF SendToChannel, Ready
  <2>2. \A v \in Message, u \in User : Handed(v, u) => Handed(v, u)'
    BY <2>1, EmitHands
  <2> QED
    BY <2>1, <2>2 DEF Emit
<1>12. ASSUME NEW m \in Message, StartTimer(m) PROVE Stands
  BY <1>12 DEF StartTimer, Ready, Handed, Sockets
<1>13. ASSUME NEW m \in Message, FireTimer(m) PROVE Stands
  <2>1. Emit(m) /\ send[m] # "failed"
    BY <1>13 DEF FireTimer
  <2>2. \A v \in Message, u \in User : Handed(v, u) => Handed(v, u)'
    BY <2>1, EmitHands
  <2> QED
    BY <2>1, <2>2 DEF Emit
<1>14. ASSUME NEW m \in Message, Fail(m) PROVE Stands
  BY <1>14 DEF Fail, Handed, Sockets
<1>15. ASSUME NEW k \in Update, NEW m \in Message, NEW u \in User, NEW to \in Status,
           FindStatus(k, m, u, to) PROVE Stands
  BY <1>15 DEF FindStatus, Handed, Sockets
<1>16. ASSUME NEW k \in Update, SaveStatus(k) PROVE Stands
  BY <1>16 DEF SaveStatus, Handed, Sockets
<1>17. ASSUME NEW k \in Update, UpdateFails(k) PROVE Stands
  BY <1>17 DEF UpdateFails, Handed, Sockets
<1>18. CASE UNCHANGED vars
  BY <1>18 DEF vars, Handed, Sockets
<1> QED
  BY <1>1, <1>2, <1>3, <1>4, <1>5, <1>6, <1>7, <1>8, <1>9, <1>10, <1>11, <1>12, <1>13,
     <1>14, <1>15, <1>16, <1>17, <1>18 DEF Next, Resend

\* A row of a qos = 1 message goes only after its message was handed over.
RowsStay ==
  \A m \in AtLeastOnce, u \in User :
    row[m][u] # "none" => row'[m][u] # "none" \/ Handed(m, u) \/ Exposed(m, u)

LEMMA RowsStayStep == IInv /\ [Next]_vars => RowsStay
<1> SUFFICES ASSUME IInv, [Next]_vars PROVE RowsStay
  OBVIOUS
<1> USE OwnerAssumption, MessageAssumption DEF RowsStay, IInv, TypeOK, history
<1>1. ASSUME NEW s \in Socket, Connect(s) PROVE RowsStay
  BY <1>1 DEF Connect
<1>2. ASSUME NEW s \in Socket, JoinRooms(s) PROVE RowsStay
  BY <1>2 DEF JoinRooms
<1>3. ASSUME NEW s \in Socket, Disconnect(s) PROVE RowsStay
  BY <1>3 DEF Disconnect
<1>4. ASSUME NEW s \in Socket, QueryUnsent(s) PROVE RowsStay
  BY <1>4 DEF QueryUnsent
<1>5. ASSUME NEW s \in Socket, EmitBatch(s) PROVE RowsStay
  BY <1>5 DEF EmitBatch
<1>6. ASSUME NEW s \in Socket, DeleteRows(s) PROVE RowsStay
  BY <1>6 DEF DeleteRows, IInv, DeleteIsDue, Exposed
<1>7. ASSUME NEW s \in Socket, ResendFails(s) PROVE RowsStay
  BY <1>7 DEF ResendFails
<1>8. ASSUME NEW m \in Message, GetUsers(m) PROVE RowsStay
  BY <1>8 DEF GetUsers
<1>9. ASSUME NEW m \in Message, SaveMessage(m) PROVE RowsStay
  BY <1>9 DEF SaveMessage
<1>10. ASSUME NEW m \in Message, SaveStatusUnsent(m) PROVE RowsStay
  BY <1>10 DEF SaveStatusUnsent
<1>11. ASSUME NEW m \in Message, SendToChannel(m) PROVE RowsStay
  BY <1>11 DEF SendToChannel, Emit, Ready
<1>12. ASSUME NEW m \in Message, StartTimer(m) PROVE RowsStay
  BY <1>12 DEF StartTimer, Ready
<1>13. ASSUME NEW m \in Message, FireTimer(m) PROVE RowsStay
  BY <1>13 DEF FireTimer, Emit
<1>14. ASSUME NEW m \in Message, Fail(m) PROVE RowsStay
  BY <1>14 DEF Fail
<1>15. ASSUME NEW k \in Update, NEW m \in Message, NEW u \in User, NEW to \in Status,
           FindStatus(k, m, u, to) PROVE RowsStay
  BY <1>15 DEF FindStatus
<1>16. ASSUME NEW k \in Update, SaveStatus(k) PROVE RowsStay
  BY <1>16 DEF SaveStatus, IInv, RowsAreStored
<1>17. ASSUME NEW k \in Update, UpdateFails(k) PROVE RowsStay
  BY <1>17 DEF UpdateFails
<1>18. CASE UNCHANGED vars
  BY <1>18 DEF vars
<1> QED
  BY <1>1, <1>2, <1>3, <1>4, <1>5, <1>6, <1>7, <1>8, <1>9, <1>10, <1>11, <1>12, <1>13,
     <1>14, <1>15, <1>16, <1>17, <1>18 DEF Next, Resend

LEMMA BatchStep == IInv /\ BatchIsKept /\ [Next]_vars => BatchIsKept'
<1> SUFFICES ASSUME IInv, BatchIsKept, [Next]_vars PROVE BatchIsKept'
  OBVIOUS
<1>0. \A s \in Socket : \A m \in InBatch(s) :
        row'[m][Owner[s]] # "none" \/ Handed(m, Owner[s])' \/ Exposed(m, Owner[s])'
  <2>1. \A s \in Socket : InBatch(s) \subseteq AtLeastOnce /\ Owner[s] \in User
    BY OwnerAssumption DEF IInv, BatchIsQoS
  <2>2. RowsStay /\ Stands
    BY RowsStayStep, StandsStep DEF IInv
  <2> QED
    BY <2>1, <2>2, MessageAssumption DEF BatchIsKept, RowsStay, Stands
<1>00. TypeOK
  BY DEF IInv
<1> USE <1>00, OwnerAssumption DEF history
<1>1. ASSUME NEW s \in Socket, Connect(s) PROVE BatchIsKept'
  <2>1. \A t \in Socket : InBatch(t)' = InBatch(t)
    BY <1>1 DEF Connect, InBatch
  <2> QED
    BY <2>1, <1>0 DEF BatchIsKept
<1>2. ASSUME NEW s \in Socket, JoinRooms(s) PROVE BatchIsKept'
  <2>1. \A t \in Socket : InBatch(t)' = InBatch(t)
    BY <1>2 DEF JoinRooms, InBatch
  <2> QED
    BY <2>1, <1>0 DEF BatchIsKept
<1>3. ASSUME NEW s \in Socket, Disconnect(s) PROVE BatchIsKept'
  <2>1. \A t \in Socket : InBatch(t)' = InBatch(t)
    BY <1>3 DEF Disconnect, InBatch
  <2> QED
    BY <2>1, <1>0 DEF BatchIsKept
<1>4. ASSUME NEW s \in Socket, QueryUnsent(s) PROVE BatchIsKept'
  <2>1. \A m \in InBatch(s)' : m \in MessageUnsent(Owner[s])
    BY <1>4 DEF QueryUnsent, InBatch, TypeOK
  <2>2. \A t \in Socket \ {s} : InBatch(t)' = InBatch(t)
    BY <1>4 DEF QueryUnsent, InBatch, TypeOK
  <2>3. \A m \in InBatch(s)' : row[m][Owner[s]] # "none"
    BY <2>1 DEF MessageUnsent
  <2> QED
    BY <1>4, <2>2, <2>3, <1>0 DEF QueryUnsent, BatchIsKept
<1>5. ASSUME NEW s \in Socket, EmitBatch(s) PROVE BatchIsKept'
  <2>1. \A t \in Socket : InBatch(t)' \subseteq InBatch(t)
    BY <1>5 DEF EmitBatch, InBatch, TypeOK
  <2> QED
    BY <2>1, <1>0 DEF BatchIsKept
<1>6. ASSUME NEW s \in Socket, DeleteRows(s) PROVE BatchIsKept'
  <2>1. \A t \in Socket : InBatch(t)' = InBatch(t)
    BY <1>6 DEF DeleteRows, InBatch
  <2> QED
    BY <2>1, <1>0 DEF BatchIsKept
<1>7. ASSUME NEW s \in Socket, ResendFails(s) PROVE BatchIsKept'
  <2>1. \A t \in Socket : InBatch(t)' \subseteq InBatch(t)
    BY <1>7 DEF ResendFails, InBatch, TypeOK
  <2> QED
    BY <2>1, <1>0 DEF BatchIsKept
<1>8. ASSUME NEW m \in Message, GetUsers(m) PROVE BatchIsKept'
  <2>1. \A t \in Socket : InBatch(t)' = InBatch(t)
    BY <1>8 DEF GetUsers, InBatch
  <2> QED
    BY <2>1, <1>0 DEF BatchIsKept
<1>9. ASSUME NEW m \in Message, SaveMessage(m) PROVE BatchIsKept'
  <2>1. \A t \in Socket : InBatch(t)' = InBatch(t)
    BY <1>9 DEF SaveMessage, InBatch
  <2> QED
    BY <2>1, <1>0 DEF BatchIsKept
<1>10. ASSUME NEW m \in Message, SaveStatusUnsent(m) PROVE BatchIsKept'
  <2>1. \A t \in Socket : InBatch(t)' = InBatch(t)
    BY <1>10 DEF SaveStatusUnsent, InBatch
  <2> QED
    BY <2>1, <1>0 DEF BatchIsKept
<1>11. ASSUME NEW m \in Message, SendToChannel(m) PROVE BatchIsKept'
  <2>1. \A t \in Socket : InBatch(t)' = InBatch(t)
    BY <1>11 DEF SendToChannel, Emit, Ready, InBatch
  <2> QED
    BY <2>1, <1>0 DEF BatchIsKept
<1>12. ASSUME NEW m \in Message, StartTimer(m) PROVE BatchIsKept'
  <2>1. \A t \in Socket : InBatch(t)' = InBatch(t)
    BY <1>12 DEF StartTimer, Ready, InBatch
  <2> QED
    BY <2>1, <1>0 DEF BatchIsKept
<1>13. ASSUME NEW m \in Message, FireTimer(m) PROVE BatchIsKept'
  <2>1. \A t \in Socket : InBatch(t)' = InBatch(t)
    BY <1>13 DEF FireTimer, Emit, InBatch
  <2> QED
    BY <2>1, <1>0 DEF BatchIsKept
<1>14. ASSUME NEW m \in Message, Fail(m) PROVE BatchIsKept'
  <2>1. \A t \in Socket : InBatch(t)' = InBatch(t)
    BY <1>14 DEF Fail, InBatch
  <2> QED
    BY <2>1, <1>0 DEF BatchIsKept
<1>15. ASSUME NEW k \in Update, NEW m \in Message, NEW u \in User, NEW to \in Status,
           FindStatus(k, m, u, to) PROVE BatchIsKept'
  <2>1. \A t \in Socket : InBatch(t)' = InBatch(t)
    BY <1>15 DEF FindStatus, InBatch
  <2> QED
    BY <2>1, <1>0 DEF BatchIsKept
<1>16. ASSUME NEW k \in Update, SaveStatus(k) PROVE BatchIsKept'
  <2>1. \A t \in Socket : InBatch(t)' = InBatch(t)
    BY <1>16 DEF SaveStatus, InBatch
  <2> QED
    BY <2>1, <1>0 DEF BatchIsKept
<1>17. ASSUME NEW k \in Update, UpdateFails(k) PROVE BatchIsKept'
  <2>1. \A t \in Socket : InBatch(t)' = InBatch(t)
    BY <1>17 DEF UpdateFails, InBatch
  <2> QED
    BY <2>1, <1>0 DEF BatchIsKept
<1>18. CASE UNCHANGED vars
  <2>1. \A t \in Socket : InBatch(t)' = InBatch(t)
    BY <1>18 DEF vars, InBatch
  <2> QED
    BY <2>1, <1>0 DEF BatchIsKept
<1> QED
  BY <1>1, <1>2, <1>3, <1>4, <1>5, <1>6, <1>7, <1>8, <1>9, <1>10, <1>11, <1>12, <1>13,
     <1>14, <1>15, <1>16, <1>17, <1>18 DEF Next, Resend

LEMMA BatchAlways == Spec => []BatchIsKept
<1>1. Init => BatchIsKept
  BY DEF Init, BatchIsKept, InBatch
<1> QED
  BY <1>1, BatchStep, IInvAlways, PTL DEF Spec

\* Only the send itself, or a resend of what is kept, hands a message over.
HandsKept ==
  \A m \in Message, u \in User :
    Handed(m, u)' /\ ~Handed(m, u) =>
      send[m] # "failed" \/ row[m][u] # "none" \/ Exposed(m, u)

LEMMA HandsStep == TypeOK /\ BatchIsKept /\ [Next]_vars => HandsKept
<1> SUFFICES ASSUME TypeOK, BatchIsKept, [Next]_vars PROVE HandsKept
  OBVIOUS
<1> USE OwnerAssumption DEF HandsKept, history
<1>1. ASSUME NEW s \in Socket, Connect(s) PROVE HandsKept
  BY <1>1 DEF Connect, Handed, Sockets
<1>2. ASSUME NEW s \in Socket, JoinRooms(s) PROVE HandsKept
  BY <1>2 DEF JoinRooms, Handed, Sockets
<1>3. ASSUME NEW s \in Socket, Disconnect(s) PROVE HandsKept
  BY <1>3 DEF Disconnect, Handed, Sockets
<1>4. ASSUME NEW s \in Socket, QueryUnsent(s) PROVE HandsKept
  BY <1>4 DEF QueryUnsent, Handed, Sockets
<1>5. ASSUME NEW s \in Socket, EmitBatch(s) PROVE HandsKept
  <2>1. ASSUME NEW n \in Message, NEW v \in User, Handed(n, v)', ~Handed(n, v)
        PROVE  n \in InBatch(s) /\ v = Owner[s]
    <3>1. PICK t \in Socket : Owner[t] = v /\ copies'[t][n] > 0 /\ ~(copies[t][n] > 0)
      BY <2>1 DEF Handed, Sockets
    <3>2. t = s
      BY <1>5, <3>1 DEF EmitBatch, TypeOK
    <3> QED
      BY <1>5, <3>1, <3>2, EmitBatchHands
  <2> QED
    BY <2>1 DEF BatchIsKept
<1>6. ASSUME NEW s \in Socket, DeleteRows(s) PROVE HandsKept
  BY <1>6 DEF DeleteRows, Handed, Sockets
<1>7. ASSUME NEW s \in Socket, ResendFails(s) PROVE HandsKept
  BY <1>7 DEF ResendFails, Handed, Sockets
<1>8. ASSUME NEW m \in Message, GetUsers(m) PROVE HandsKept
  BY <1>8 DEF GetUsers, Handed, Sockets
<1>9. ASSUME NEW m \in Message, SaveMessage(m) PROVE HandsKept
  BY <1>9 DEF SaveMessage, Handed, Sockets
<1>10. ASSUME NEW m \in Message, SaveStatusUnsent(m) PROVE HandsKept
  BY <1>10 DEF SaveStatusUnsent, Handed, Sockets
<1>11. ASSUME NEW m \in Message, SendToChannel(m) PROVE HandsKept
  <2>1. ASSUME NEW n \in Message, NEW v \in User, Handed(n, v)', ~Handed(n, v) PROVE n = m
    BY <1>11, <2>1, EmitHands DEF SendToChannel, Handed, Sockets
  <2> QED
    BY <1>11, <2>1 DEF SendToChannel, Emit, Ready
<1>12. ASSUME NEW m \in Message, StartTimer(m) PROVE HandsKept
  BY <1>12 DEF StartTimer, Handed, Sockets
<1>13. ASSUME NEW m \in Message, FireTimer(m) PROVE HandsKept
  <2>1. ASSUME NEW n \in Message, NEW v \in User, Handed(n, v)', ~Handed(n, v) PROVE n = m
    BY <1>13, <2>1, EmitHands DEF FireTimer, Handed, Sockets
  <2> QED
    BY <1>13, <2>1 DEF FireTimer, Emit
<1>14. ASSUME NEW m \in Message, Fail(m) PROVE HandsKept
  BY <1>14 DEF Fail, Handed, Sockets
<1>15. ASSUME NEW k \in Update, NEW m \in Message, NEW u \in User, NEW to \in Status,
           FindStatus(k, m, u, to) PROVE HandsKept
  BY <1>15 DEF FindStatus, Handed, Sockets
<1>16. ASSUME NEW k \in Update, SaveStatus(k) PROVE HandsKept
  BY <1>16 DEF SaveStatus, Handed, Sockets
<1>17. ASSUME NEW k \in Update, UpdateFails(k) PROVE HandsKept
  BY <1>17 DEF UpdateFails, Handed, Sockets
<1>18. CASE UNCHANGED vars
  BY <1>18 DEF vars, Handed, Sockets
<1> QED
  BY <1>1, <1>2, <1>3, <1>4, <1>5, <1>6, <1>7, <1>8, <1>9, <1>10, <1>11, <1>12, <1>13,
     <1>14, <1>15, <1>16, <1>17, <1>18 DEF Next, Resend

MailStep == \A m \in AtLeastOnce : \A u \in Recipients[m] :
              Mail(m, u)' # Mail(m, u) => Box(m, u)!Next

LEMMA MailSteps == IInv /\ NoSilentLoss' /\ BatchIsKept /\ [Next]_vars => MailStep
<1> SUFFICES ASSUME IInv, NoSilentLoss', BatchIsKept, [Next]_vars,
                    NEW m \in AtLeastOnce, NEW u \in Recipients[m], Mail(m, u)' # Mail(m, u)
             PROVE  Box(m, u)!Next
  BY DEF MailStep
<1>1. m \in Message /\ u \in User
  BY MessageAssumption
<1>2. /\ Handed(m, u) => Handed(m, u)'
      /\ Exposed(m, u) => Exposed(m, u)'
      /\ send[m] = "failed" => send'[m] = "failed"
  BY <1>1, StandsStep DEF IInv, Stands
<1>3. row[m][u] # "none" => row'[m][u] # "none" \/ Handed(m, u) \/ Exposed(m, u)
  BY <1>1, RowsStayStep DEF RowsStay
<1>4. Handed(m, u)' /\ ~Handed(m, u) => send[m] # "failed" \/ row[m][u] # "none" \/ Exposed(m, u)
  BY <1>1, HandsStep DEF IInv, HandsKept
<1>5. send'[m] = "done" => Exposed(m, u)' \/ row'[m][u] # "none" \/ Handed(m, u)'
  BY DEF NoSilentLoss, Exposed
<1>6. send[m] = "done" => Exposed(m, u) \/ row[m][u] # "none" \/ Handed(m, u)
  BY InvIsSafe DEF NoSilentLoss, Exposed
<1> USE DEF Box!Next, Box!Refuse, Box!Keep, Box!Hand, Box!Expose
<1>7. Mail(m, u) = IF Handed(m, u) THEN "handed" ELSE IF Exposed(m, u) THEN "exposed"
                   ELSE IF row[m][u] # "none" THEN "kept" ELSE IF send[m] = "done" THEN "lost"
                   ELSE IF send[m] = "failed" THEN "refused" ELSE "none"
  BY DEF Mail, Exposed
<1>8. Mail(m, u)' = IF Handed(m, u)' THEN "handed" ELSE IF Exposed(m, u)' THEN "exposed"
                    ELSE IF row'[m][u] # "none" THEN "kept" ELSE IF send'[m] = "done" THEN "lost"
                    ELSE IF send'[m] = "failed" THEN "refused" ELSE "none"
  BY DEF Mail, Exposed
<1> QED
  BY <1>2, <1>3, <1>4, <1>5, <1>6, <1>7, <1>8

(***************************************************************************)
(* Delivery implements Mailbox for every recipient of every qos = 1        *)
(* message: no row is deleted before its message was handed over, outside  *)
(* the three windows, and what was handed over or refused stays so.        *)
(***************************************************************************)
THEOREM MailIsNeverDropped == Spec => MailMovesForward
<1>1. Init => \A m \in AtLeastOnce : \A u \in Recipients[m] : Box(m, u)!Init
  BY MessageAssumption DEF Init, Box!Init, Mail, Handed, Sockets
<1>2. IInv /\ NoSilentLoss' /\ BatchIsKept /\ [Next]_vars => [MailStep]_vars
  BY MailSteps
<1>3. Spec => [][MailStep]_vars
  BY <1>2, IInvAlways, BatchAlways, NothingLostSilently, PTL DEF Spec
<1> QED
  BY <1>1, <1>3, PTL DEF Spec, MailMovesForward, MailStep

=============================================================================
