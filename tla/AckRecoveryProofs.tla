------------------------- MODULE AckRecoveryProofs -------------------------
(***************************************************************************)
(* Recoverable and AckedIsOver for any users, clients and messages.        *)
(*                                                                         *)
(* AckedIsOver rests on the order of a send: nobody can have a message in  *)
(* hand before the key of its user is written (WrittenFirst), so no key is *)
(* written after an acknowledgement.  Recoverable rests on the order of    *)
(* the two expiries: a key that points to nothing is one whose message has *)
(* expired (GoneIsExpired).                                                *)
(***************************************************************************)
EXTENDS AckRecovery, TLAPS

-----------------------------------------------------------------------------
(* The inductive invariant *)

\* registerUsersSend is through with u, or never had to write a key for u.
Written(m, u) == send[m] # "idle" /\ u \notin unkeyed[m]

OnlyWhileSending ==
  \A m \in Message : unkeyed[m] # {} => send[m] = "cached"

\* Whoever has a message, or a right to it, has it after its key was written.
WrittenFirst ==
  /\ \A m \in Message, u \in User :
       <<m, u>> \in key \cup acked => Written(m, u)
  /\ \A s \in Socket, m \in Message :
       (m \in taken[s] \cup queue[s] \/ <<s, m>> \in handed) => Written(m, Owner[s])

\* A message that was cached and is not any more has expired.
GoneIsExpired ==
  \A m \in Message : (send[m] # "idle" /\ m \notin cached) =>
    \A u \in User : <<m, u>> \in excused

Kept(m, u) == Handed(m, u) \/ <<m, u>> \in key \/ Held(m, u)

\* Recoverable, from the moment the key is written.
KeptSinceWritten ==
  \A m \in Message : \A u \in online[m] :
    (send[m] \in {"cached", "done"} /\ u \notin unkeyed[m] /\ <<m, u>> \notin excused)
    => Kept(m, u)

IInv ==
  /\ TypeOK
  /\ OnlyWhileSending
  /\ WrittenFirst
  /\ AckedIsOver
  /\ GoneIsExpired
  /\ KeptSinceWritten

-----------------------------------------------------------------------------
LEMMA InitInv == Init => IInv
  BY AckAssumption DEF Init, IInv, TypeOK, OnlyWhileSending, WrittenFirst, Written,
     AckedIsOver, GoneIsExpired, KeptSinceWritten

LEMMA StepType == ASSUME TypeOK, [Next]_vars PROVE TypeOK'
<1> USE AckAssumption DEF TypeOK, Pair, sending, recovering
<1>1. ASSUME NEW m \in Message, CacheMessage(m) PROVE TypeOK'
  BY <1>1 DEF CacheMessage
<1>2. ASSUME NEW m \in Message, NEW u \in User, RegisterUser(m, u) PROVE TypeOK'
  BY <1>2 DEF RegisterUser
<1>3. ASSUME NEW m \in Message, NEW u \in User, RegisterFails(m, u) PROVE TypeOK'
  BY <1>3 DEF RegisterFails
<1>4. ASSUME NEW m \in Message, SendToChannel(m) PROVE TypeOK'
  BY <1>4 DEF SendToChannel, Receivers
<1>5. ASSUME NEW m \in Message, Fail(m) PROVE TypeOK'
  BY <1>5 DEF Fail
<1>6. ASSUME NEW s \in Socket, Connect(s) PROVE TypeOK'
  BY <1>6 DEF Connect
<1>7. ASSUME NEW s \in Socket, JoinRooms(s) PROVE TypeOK'
  BY <1>7 DEF JoinRooms
<1>8. ASSUME NEW s \in Socket, Disconnect(s) PROVE TypeOK'
  BY <1>8 DEF Disconnect
<1>9. ASSUME NEW s \in Socket, NEW m \in Message, Ack(s, m) PROVE TypeOK'
  BY <1>9 DEF Ack
<1>10. ASSUME NEW s \in Socket, Scan(s) PROVE TypeOK'
  BY <1>10 DEF Scan, Keyed
<1>11. ASSUME NEW s \in Socket, NEW m \in Message, TakeKey(s, m) PROVE TypeOK'
  BY <1>11 DEF TakeKey, Keyed
<1>12. ASSUME NEW s \in Socket, NEW m \in Message, LoadMessage(s, m) PROVE TypeOK'
  BY <1>12 DEF LoadMessage
<1>13. ASSUME NEW s \in Socket, EmitOldest(s) PROVE TypeOK'
  BY <1>13 DEF EmitOldest
<1>14. ASSUME NEW s \in Socket, RecoverFails(s) PROVE TypeOK'
  BY <1>14 DEF RecoverFails
<1>15. ASSUME NEW m \in Message, ExpireMessage(m) PROVE TypeOK'
  BY <1>15 DEF ExpireMessage
<1>16. ASSUME NEW m \in Message, NEW u \in User, ExpireKey(m, u) PROVE TypeOK'
  BY <1>16 DEF ExpireKey
<1>17. CASE UNCHANGED vars
  BY <1>17 DEF vars
<1> QED
  BY <1>1, <1>2, <1>3, <1>4, <1>5, <1>6, <1>7, <1>8, <1>9,
     <1>10, <1>11, <1>12, <1>13, <1>14, <1>15, <1>16, <1>17 DEF Next, Recover

LEMMA StepInv == ASSUME IInv, [Next]_vars PROVE IInv'
<1>0. TypeOK /\ TypeOK'
  BY StepType DEF IInv
<1> USE <1>0, AckAssumption DEF IInv, TypeOK, Pair, sending, recovering
<1>1. ASSUME NEW m \in Message, CacheMessage(m) PROVE IInv'
  <2>1. AckedIsOver'
    BY <1>1 DEF CacheMessage, AckedIsOver
  <2>2. OnlyWhileSending'
    BY <1>1 DEF CacheMessage, OnlyWhileSending
  <2>3. WrittenFirst'
    BY <1>1 DEF CacheMessage, WrittenFirst, Written
  <2>4. GoneIsExpired'
    BY <1>1 DEF CacheMessage, GoneIsExpired
  <2>5. KeptSinceWritten'
    <3> SUFFICES ASSUME NEW n \in Message, NEW v \in online'[n],
                        send'[n] \in {"cached", "done"}, v \notin unkeyed'[n],
                        <<n, v>> \notin excused'
                 PROVE  Kept(n, v)'
      BY DEF KeptSinceWritten
    <3>1. n # m
      BY <1>1 DEF CacheMessage
    <3>2. Kept(n, v)
      BY <1>1, <3>1 DEF CacheMessage, KeptSinceWritten
    <3> QED
      BY <1>1, <3>2 DEF CacheMessage, Kept, Handed, Held
  <2> QED
    BY <2>1, <2>2, <2>3, <2>4, <2>5
<1>2. ASSUME NEW m \in Message, NEW u \in User, RegisterUser(m, u) PROVE IInv'
  <2>1. GoneIsExpired'
    BY <1>2 DEF RegisterUser, GoneIsExpired
  <2>2. OnlyWhileSending'
    BY <1>2 DEF RegisterUser, OnlyWhileSending
  <2>3. WrittenFirst'
    BY <1>2 DEF RegisterUser, WrittenFirst, Written, OnlyWhileSending
  <2>4. AckedIsOver'
    BY <1>2 DEF RegisterUser, AckedIsOver, WrittenFirst, Written
  <2>5. KeptSinceWritten'
    <3> SUFFICES ASSUME NEW n \in Message, NEW v \in online'[n],
                        send'[n] \in {"cached", "done"}, v \notin unkeyed'[n],
                        <<n, v>> \notin excused'
                 PROVE  Kept(n, v)'
      BY DEF KeptSinceWritten
    <3>1. CASE <<n, v>> = <<m, u>>
      BY <1>2, <3>1 DEF RegisterUser, Kept
    <3>2. CASE <<n, v>> # <<m, u>>
      <4>1. Kept(n, v)
        BY <1>2, <3>2 DEF RegisterUser, KeptSinceWritten
      <4> QED
        BY <1>2, <4>1 DEF RegisterUser, Kept, Handed, Held
    <3> QED
      BY <3>1, <3>2
  <2> QED
    BY <2>1, <2>2, <2>3, <2>4, <2>5
<1>3. ASSUME NEW m \in Message, NEW u \in User, RegisterFails(m, u) PROVE IInv'
  <2>1. AckedIsOver'
    BY <1>3 DEF RegisterFails, AckedIsOver
  <2>2. OnlyWhileSending'
    BY <1>3 DEF RegisterFails, OnlyWhileSending
  <2>3. WrittenFirst'
    BY <1>3 DEF RegisterFails, WrittenFirst, Written
  <2>4. GoneIsExpired'
    BY <1>3 DEF RegisterFails, GoneIsExpired
  <2>5. KeptSinceWritten'
    <3> SUFFICES ASSUME NEW n \in Message, NEW v \in online'[n],
                        send'[n] \in {"cached", "done"}, v \notin unkeyed'[n],
                        <<n, v>> \notin excused'
                 PROVE  Kept(n, v)'
      BY DEF KeptSinceWritten
    <3>1. <<n, v>> # <<m, u>>
      BY <1>3 DEF RegisterFails
    <3>2. Kept(n, v)
      BY <1>3, <3>1 DEF RegisterFails, KeptSinceWritten
    <3> QED
      BY <1>3, <3>2 DEF RegisterFails, Kept, Handed, Held
  <2> QED
    BY <2>1, <2>2, <2>3, <2>4, <2>5
<1>4. ASSUME NEW m \in Message, SendToChannel(m) PROVE IInv'
  <2>1. (AckedIsOver /\ GoneIsExpired)'
    BY <1>4 DEF SendToChannel, AckedIsOver, GoneIsExpired
  <2>2. OnlyWhileSending'
    BY <1>4 DEF SendToChannel, OnlyWhileSending
  <2>3. WrittenFirst'
    BY <1>4 DEF SendToChannel, Receivers, WrittenFirst, Written
  <2>4. KeptSinceWritten'
    <3> SUFFICES ASSUME NEW n \in Message, NEW v \in online'[n],
                        send'[n] \in {"cached", "done"}, v \notin unkeyed'[n],
                        <<n, v>> \notin excused'
                 PROVE  Kept(n, v)'
      BY DEF KeptSinceWritten
    <3>1. Kept(n, v)
      BY <1>4 DEF SendToChannel, KeptSinceWritten
    <3> QED
      BY <1>4, <3>1 DEF SendToChannel, Kept, Handed, Held
  <2> QED
    BY <2>1, <2>2, <2>3, <2>4
<1>5. ASSUME NEW m \in Message, Fail(m) PROVE IInv'
  <2>1. (AckedIsOver /\ GoneIsExpired)'
    BY <1>5 DEF Fail, AckedIsOver, GoneIsExpired
  <2>2. OnlyWhileSending'
    BY <1>5 DEF Fail, OnlyWhileSending
  <2>3. WrittenFirst'
    BY <1>5 DEF Fail, WrittenFirst, Written, OnlyWhileSending
  <2>4. KeptSinceWritten'
    <3> SUFFICES ASSUME NEW n \in Message, NEW v \in online'[n],
                        send'[n] \in {"cached", "done"}, v \notin unkeyed'[n],
                        <<n, v>> \notin excused'
                 PROVE  Kept(n, v)'
      BY DEF KeptSinceWritten
    <3>1. Kept(n, v)
      BY <1>5 DEF Fail, KeptSinceWritten
    <3> QED
      BY <1>5, <3>1 DEF Fail, Kept, Handed, Held
  <2> QED
    BY <2>1, <2>2, <2>3, <2>4
<1>6. ASSUME NEW s \in Socket, Connect(s) PROVE IInv'
  BY <1>6 DEF Connect, OnlyWhileSending, WrittenFirst, Written, AckedIsOver,
     GoneIsExpired, KeptSinceWritten, Kept, Handed, Held
<1>7. ASSUME NEW s \in Socket, JoinRooms(s) PROVE IInv'
  BY <1>7 DEF JoinRooms, OnlyWhileSending, WrittenFirst, Written, AckedIsOver,
     GoneIsExpired, KeptSinceWritten, Kept, Handed, Held
<1>8. ASSUME NEW s \in Socket, Disconnect(s) PROVE IInv'
  BY <1>8 DEF Disconnect, OnlyWhileSending, WrittenFirst, Written,
     AckedIsOver, GoneIsExpired, KeptSinceWritten, Kept, Handed, Held
<1>9. ASSUME NEW s \in Socket, NEW m \in Message, Ack(s, m) PROVE IInv'
  <2>1. (OnlyWhileSending /\ GoneIsExpired)'
    BY <1>9 DEF Ack, OnlyWhileSending, GoneIsExpired
  <2>2. WrittenFirst'
    BY <1>9 DEF Ack, WrittenFirst, Written
  <2>3. AckedIsOver'
    BY <1>9 DEF Ack, AckedIsOver
  <2>4. KeptSinceWritten'
    <3> SUFFICES ASSUME NEW n \in Message, NEW v \in online'[n],
                        send'[n] \in {"cached", "done"}, v \notin unkeyed'[n],
                        <<n, v>> \notin excused'
                 PROVE  Kept(n, v)'
      BY DEF KeptSinceWritten
    <3>1. Kept(n, v)
      BY <1>9 DEF Ack, KeptSinceWritten
    <3> QED
      BY <1>9, <3>1 DEF Ack, Kept, Handed, Held, Sockets
  <2> QED
    BY <2>1, <2>2, <2>3, <2>4
<1>10. ASSUME NEW s \in Socket, Scan(s) PROVE IInv'
  BY <1>10 DEF Scan, OnlyWhileSending, WrittenFirst, Written, AckedIsOver,
     GoneIsExpired, KeptSinceWritten, Kept, Handed, Held
<1>11. ASSUME NEW s \in Socket, NEW m \in Message, TakeKey(s, m) PROVE IInv'
  <2>1. (OnlyWhileSending /\ GoneIsExpired)'
    BY <1>11 DEF TakeKey, OnlyWhileSending, GoneIsExpired
  <2>2. WrittenFirst'
    BY <1>11 DEF TakeKey, Keyed, WrittenFirst, Written
  <2>3. AckedIsOver'
    BY <1>11 DEF TakeKey, AckedIsOver
  <2>4. KeptSinceWritten'
    <3> SUFFICES ASSUME NEW n \in Message, NEW v \in online'[n],
                        send'[n] \in {"cached", "done"}, v \notin unkeyed'[n],
                        <<n, v>> \notin excused'
                 PROVE  Kept(n, v)'
      BY DEF KeptSinceWritten
    <3>1. Kept(n, v)
      BY <1>11 DEF TakeKey, KeptSinceWritten
    <3> QED
      BY <1>11, <3>1 DEF TakeKey, Kept, Handed, Held, Sockets, Keyed
  <2> QED
    BY <2>1, <2>2, <2>3, <2>4
<1>12. ASSUME NEW s \in Socket, NEW m \in Message, LoadMessage(s, m) PROVE IInv'
  <2>1. (OnlyWhileSending /\ AckedIsOver /\ GoneIsExpired)'
    BY <1>12 DEF LoadMessage, OnlyWhileSending, AckedIsOver, GoneIsExpired
  <2>2. WrittenFirst'
    BY <1>12 DEF LoadMessage, WrittenFirst, Written
  <2>3. KeptSinceWritten'
    <3> SUFFICES ASSUME NEW n \in Message, NEW v \in online'[n],
                        send'[n] \in {"cached", "done"}, v \notin unkeyed'[n],
                        <<n, v>> \notin excused'
                 PROVE  Kept(n, v)'
      BY DEF KeptSinceWritten
    <3>1. Kept(n, v)
      BY <1>12 DEF LoadMessage, KeptSinceWritten
    <3> QED
      BY <1>12, <3>1 DEF LoadMessage, Kept, Handed, Held, Sockets, GoneIsExpired,
         WrittenFirst, Written
  <2> QED
    BY <2>1, <2>2, <2>3
<1>13. ASSUME NEW s \in Socket, EmitOldest(s) PROVE IInv'
  <2>1. (OnlyWhileSending /\ AckedIsOver)'
    BY <1>13 DEF EmitOldest, OnlyWhileSending, AckedIsOver
  <2>2. WrittenFirst'
    BY <1>13 DEF EmitOldest, WrittenFirst, Written
  <2>3. GoneIsExpired'
    BY <1>13 DEF EmitOldest, GoneIsExpired
  <2>4. KeptSinceWritten'
    <3> SUFFICES ASSUME NEW n \in Message, NEW v \in online'[n],
                        send'[n] \in {"cached", "done"}, v \notin unkeyed'[n],
                        <<n, v>> \notin excused'
                 PROVE  Kept(n, v)'
      BY DEF KeptSinceWritten
    <3>1. Kept(n, v)
      BY <1>13 DEF EmitOldest, KeptSinceWritten
    <3>2. PICK m \in queue[s] :
             /\ queue' = [queue EXCEPT ![s] = @ \ {m}]
             /\ \/ /\ excused' = excused \cup {<<m, Owner[s]>>}
                   /\ UNCHANGED handed
                \/ /\ handed' = handed \cup {<<s, m>>}
                   /\ UNCHANGED excused
      BY <1>13 DEF EmitOldest
    <3>3. CASE m = n /\ v = Owner[s]
      <4>1. <<s, n>> \in handed'
        BY <3>2, <3>3
      <4> QED
        BY <4>1, <3>3 DEF Kept, Handed, Sockets
    <3>4. CASE m # n \/ v # Owner[s]
      <4>1. handed \subseteq handed'
        BY <3>2
      <4>2. Held(n, v) => Held(n, v)'
        BY <1>13, <3>2, <3>4 DEF EmitOldest, Held, Sockets
      <4> QED
        BY <1>13, <3>1, <4>1, <4>2 DEF EmitOldest, Kept, Handed
    <3> QED
      BY <3>3, <3>4
  <2> QED
    BY <2>1, <2>2, <2>3, <2>4
<1>14. ASSUME NEW s \in Socket, RecoverFails(s) PROVE IInv'
  <2>1. (OnlyWhileSending /\ AckedIsOver)'
    BY <1>14 DEF RecoverFails, OnlyWhileSending, AckedIsOver
  <2>2. WrittenFirst'
    BY <1>14 DEF RecoverFails, WrittenFirst, Written
  <2>3. GoneIsExpired'
    BY <1>14 DEF RecoverFails, GoneIsExpired
  <2>4. KeptSinceWritten'
    <3> SUFFICES ASSUME NEW n \in Message, NEW v \in online'[n],
                        send'[n] \in {"cached", "done"}, v \notin unkeyed'[n],
                        <<n, v>> \notin excused'
                 PROVE  Kept(n, v)'
      BY DEF KeptSinceWritten
    <3>1. Kept(n, v)
      BY <1>14 DEF RecoverFails, KeptSinceWritten
    <3>2. CASE Handed(n, v) \/ <<n, v>> \in key
      BY <1>14, <3>2 DEF RecoverFails, Kept, Handed
    <3>3. CASE Held(n, v)
      <4>1. PICK r \in Sockets(v) : n \in taken[r] \cup queue[r]
        BY <3>3 DEF Held
      <4>2. r # s
        BY <1>14, <4>1 DEF RecoverFails, Sockets
      <4>3. n \in taken'[r] \cup queue'[r]
        BY <1>14, <4>1, <4>2 DEF RecoverFails, Sockets
      <4> QED
        BY <4>1, <4>3 DEF Kept, Held
    <3> QED
      BY <3>1, <3>2, <3>3 DEF Kept
  <2> QED
    BY <2>1, <2>2, <2>3, <2>4
<1>15. ASSUME NEW m \in Message, ExpireMessage(m) PROVE IInv'
  <2>1. (OnlyWhileSending /\ WrittenFirst /\ AckedIsOver)'
    BY <1>15 DEF ExpireMessage, OnlyWhileSending, WrittenFirst, AckedIsOver,
       Written
  <2>2. GoneIsExpired'
    BY <1>15 DEF ExpireMessage, GoneIsExpired
  <2>3. KeptSinceWritten'
    <3> SUFFICES ASSUME NEW n \in Message, NEW v \in online'[n],
                        send'[n] \in {"cached", "done"}, v \notin unkeyed'[n],
                        <<n, v>> \notin excused'
                 PROVE  Kept(n, v)'
      BY DEF KeptSinceWritten
    <3>1. Kept(n, v)
      BY <1>15 DEF ExpireMessage, KeptSinceWritten
    <3> QED
      BY <1>15, <3>1 DEF ExpireMessage, Kept, Handed, Held
  <2> QED
    BY <2>1, <2>2, <2>3
<1>16. ASSUME NEW m \in Message, NEW u \in User, ExpireKey(m, u) PROVE IInv'
  <2>1. (OnlyWhileSending /\ GoneIsExpired)'
    BY <1>16 DEF ExpireKey, OnlyWhileSending, GoneIsExpired
  <2>2. WrittenFirst'
    BY <1>16 DEF ExpireKey, WrittenFirst, Written
  <2>3. AckedIsOver'
    BY <1>16 DEF ExpireKey, AckedIsOver
  <2>4. KeptSinceWritten'
    <3> SUFFICES ASSUME NEW n \in Message, NEW v \in online'[n],
                        send'[n] \in {"cached", "done"}, v \notin unkeyed'[n],
                        <<n, v>> \notin excused'
                 PROVE  Kept(n, v)'
      BY DEF KeptSinceWritten
    <3>1. Kept(n, v)
      BY <1>16 DEF ExpireKey, KeptSinceWritten
    <3> QED
      BY <1>16, <3>1 DEF ExpireKey, Kept, Handed, Held, Sockets, GoneIsExpired,
         WrittenFirst, Written
  <2> QED
    BY <2>1, <2>2, <2>3, <2>4
<1>17. CASE UNCHANGED vars
  BY <1>17 DEF vars, OnlyWhileSending, WrittenFirst, Written, AckedIsOver, GoneIsExpired,
     KeptSinceWritten, Kept, Handed, Held
<1> QED
  BY <1>1, <1>2, <1>3, <1>4, <1>5, <1>6, <1>7, <1>8, <1>9,
     <1>10, <1>11, <1>12, <1>13, <1>14, <1>15, <1>16, <1>17 DEF Next, Recover

LEMMA IInvAlways == Spec => []IInv
  BY InitInv, StepInv, PTL DEF Spec

-----------------------------------------------------------------------------
(* The theorems *)

\* The state of AckRecovery stays in its types.
THEOREM TypeCorrect == Spec => []TypeOK
<1>1. IInv => TypeOK
  BY DEF IInv
<1> QED
  BY <1>1, IInvAlways, PTL

(***************************************************************************)
(* A message sent to a user taken to be online is handed over, keyed or    *)
(* held by a recovery, unless it expired or a recovery of it was cut off:  *)
(* Recoverable, for every instance.                                        *)
(***************************************************************************)
THEOREM NothingUnrecoverable == Spec => []Recoverable
<1>1. IInv => Recoverable
  BY DEF IInv, Recoverable, KeptSinceWritten, OnlyWhileSending, Kept
<1> QED
  BY <1>1, IInvAlways, PTL

(***************************************************************************)
(* No key is left, or written, after the user has acknowledged:            *)
(* AckedIsOver, for every instance.                                        *)
(***************************************************************************)
THEOREM AckIsFinal == Spec => []AckedIsOver
<1>1. IInv => AckedIsOver
  BY DEF IInv
<1> QED
  BY <1>1, IInvAlways, PTL

-----------------------------------------------------------------------------
(* AckRecovery implements Mailbox *)

\* Nobody is taken to be online before getUsers.
JudgedFirst == \A m \in Message : send[m] = "idle" => online[m] = {}

LEMMA JudgedAlways == Spec => []JudgedFirst
<1>1. Init => JudgedFirst
  BY DEF Init, JudgedFirst
<1>2. TypeOK /\ JudgedFirst /\ [Next]_vars => JudgedFirst'
  <2> SUFFICES ASSUME TypeOK, JudgedFirst, [Next]_vars PROVE JudgedFirst'
    OBVIOUS
  <2>1. ASSUME NEW m \in Message, CacheMessage(m) PROVE JudgedFirst'
    BY <2>1 DEF CacheMessage, JudgedFirst, TypeOK
  <2>2. ASSUME NEW m \in Message, SendToChannel(m) \/ Fail(m) PROVE JudgedFirst'
    BY <2>2 DEF SendToChannel, Fail, JudgedFirst, TypeOK
  <2>3. ASSUME UNCHANGED <<send, online>> PROVE JudgedFirst'
    BY <2>3 DEF JudgedFirst
  <2> QED
    BY <2>1, <2>2, <2>3 DEF Next, Recover, vars, sending, ExpireMessage, RegisterUser,
       RegisterFails, ExpireKey, Connect, JoinRooms, Disconnect, Scan, EmitOldest, TakeKey,
       LoadMessage, RecoverFails, Ack
<1> QED
  BY <1>1, <1>2, TypeCorrect, PTL DEF Spec

\* What nothing takes back: a copy, an excuse, a failure, the verdict of presence.
Stands ==
  /\ handed \subseteq handed' /\ excused \subseteq excused'
  /\ \A m \in Message : send[m] = "failed" => send'[m] = "failed"
  /\ \A m \in Message : send[m] # "idle" =>
       online'[m] = online[m] /\ unkeyed'[m] \subseteq unkeyed[m]

LEMMA StandsStep == TypeOK /\ [Next]_vars => Stands
<1> SUFFICES ASSUME TypeOK, [Next]_vars PROVE Stands
  OBVIOUS
<1> USE DEF Stands, TypeOK, sending
<1>1. ASSUME NEW m \in Message, CacheMessage(m) PROVE Stands
  BY <1>1 DEF CacheMessage
<1>2. ASSUME NEW m \in Message, NEW u \in User, RegisterUser(m, u) PROVE Stands
  BY <1>2 DEF RegisterUser
<1>3. ASSUME NEW m \in Message, NEW u \in User, RegisterFails(m, u) PROVE Stands
  BY <1>3 DEF RegisterFails
<1>4. ASSUME NEW m \in Message, SendToChannel(m) PROVE Stands
  BY <1>4 DEF SendToChannel
<1>5. ASSUME NEW m \in Message, Fail(m) PROVE Stands
  BY <1>5 DEF Fail
<1>6. ASSUME NEW s \in Socket, Connect(s) PROVE Stands
  BY <1>6 DEF Connect
<1>7. ASSUME NEW s \in Socket, JoinRooms(s) PROVE Stands
  BY <1>7 DEF JoinRooms
<1>8. ASSUME NEW s \in Socket, Disconnect(s) PROVE Stands
  BY <1>8 DEF Disconnect
<1>9. ASSUME NEW s \in Socket, NEW m \in Message, Ack(s, m) PROVE Stands
  BY <1>9 DEF Ack
<1>10. ASSUME NEW s \in Socket, Scan(s) PROVE Stands
  BY <1>10 DEF Scan
<1>11. ASSUME NEW s \in Socket, NEW m \in Message, TakeKey(s, m) PROVE Stands
  BY <1>11 DEF TakeKey
<1>12. ASSUME NEW s \in Socket, NEW m \in Message, LoadMessage(s, m) PROVE Stands
  BY <1>12 DEF LoadMessage
<1>13. ASSUME NEW s \in Socket, EmitOldest(s) PROVE Stands
  BY <1>13 DEF EmitOldest
<1>14. ASSUME NEW s \in Socket, RecoverFails(s) PROVE Stands
  BY <1>14 DEF RecoverFails
<1>15. ASSUME NEW m \in Message, ExpireMessage(m) PROVE Stands
  BY <1>15 DEF ExpireMessage
<1>16. ASSUME NEW m \in Message, NEW u \in User, ExpireKey(m, u) PROVE Stands
  BY <1>16 DEF ExpireKey
<1>17. CASE UNCHANGED vars
  BY <1>17 DEF vars
<1> QED
  BY <1>1, <1>2, <1>3, <1>4, <1>5, <1>6, <1>7, <1>8, <1>9, <1>10, <1>11, <1>12, <1>13,
     <1>14, <1>15, <1>16, <1>17 DEF Next, Recover

\* A key or a message that is held goes only to where the message is handed over.
KeptStays ==
  \A m \in Message, u \in User :
    Kept(m, u) /\ <<m, u>> \notin excused' => Kept(m, u)'

LEMMA KeptStep == IInv /\ [Next]_vars => KeptStays
<1> SUFFICES ASSUME IInv, [Next]_vars PROVE KeptStays
  OBVIOUS
<1> USE AckAssumption DEF KeptStays, IInv, TypeOK, Pair, recovering, sending
<1>1. ASSUME NEW m \in Message, CacheMessage(m) PROVE KeptStays
  BY <1>1 DEF CacheMessage, Kept, Handed, Held
<1>2. ASSUME NEW m \in Message, NEW u \in User, RegisterUser(m, u) PROVE KeptStays
  BY <1>2 DEF RegisterUser, Kept, Handed, Held
<1>3. ASSUME NEW m \in Message, NEW u \in User, RegisterFails(m, u) PROVE KeptStays
  BY <1>3 DEF RegisterFails, Kept, Handed, Held
<1>4. ASSUME NEW m \in Message, SendToChannel(m) PROVE KeptStays
  BY <1>4 DEF SendToChannel, Kept, Handed, Held
<1>5. ASSUME NEW m \in Message, Fail(m) PROVE KeptStays
  BY <1>5 DEF Fail, Kept, Handed, Held
<1>6. ASSUME NEW s \in Socket, Connect(s) PROVE KeptStays
  BY <1>6 DEF Connect, Kept, Handed, Held
<1>7. ASSUME NEW s \in Socket, JoinRooms(s) PROVE KeptStays
  BY <1>7 DEF JoinRooms, Kept, Handed, Held
<1>8. ASSUME NEW s \in Socket, Disconnect(s) PROVE KeptStays
  BY <1>8 DEF Disconnect, Kept, Handed, Held
<1>9. ASSUME NEW s \in Socket, NEW m \in Message, Ack(s, m) PROVE KeptStays
  BY <1>9 DEF Ack, Kept, Handed, Held, Sockets
<1>10. ASSUME NEW s \in Socket, Scan(s) PROVE KeptStays
  BY <1>10 DEF Scan, Kept, Handed, Held
<1>11. ASSUME NEW s \in Socket, NEW m \in Message, TakeKey(s, m) PROVE KeptStays
  BY <1>11 DEF TakeKey, Kept, Handed, Held, Sockets, Keyed
<1>12. ASSUME NEW s \in Socket, NEW m \in Message, LoadMessage(s, m) PROVE KeptStays
  BY <1>12 DEF LoadMessage, Kept, Handed, Held, Sockets, GoneIsExpired,
     WrittenFirst, Written
<1>13. ASSUME NEW s \in Socket, EmitOldest(s) PROVE KeptStays
  <2>1. PICK m \in queue[s] :
           /\ queue' = [queue EXCEPT ![s] = @ \ {m}]
           /\ \/ excused' = excused \cup {<<m, Owner[s]>>} /\ UNCHANGED handed
              \/ handed' = handed \cup {<<s, m>>} /\ UNCHANGED excused
    BY <1>13 DEF EmitOldest
  <2>2. ASSUME NEW n \in Message, NEW v \in User, Kept(n, v), <<n, v>> \notin excused'
        PROVE  Kept(n, v)'
    <3>1. CASE n = m /\ v = Owner[s]
      <4>1. <<s, n>> \in handed'
        BY <2>1, <2>2, <3>1
      <4> QED
        BY <3>1, <4>1 DEF Kept, Handed, Sockets
    <3>2. CASE n # m \/ v # Owner[s]
      <4>1. handed \subseteq handed'
        BY <2>1
      <4>2. Held(n, v) => Held(n, v)'
        BY <1>13, <2>1, <3>2 DEF EmitOldest, Held, Sockets
      <4> QED
        BY <1>13, <2>2, <4>1, <4>2 DEF EmitOldest, Kept, Handed
    <3> QED
      BY <3>1, <3>2
  <2> QED
    BY <2>2
<1>14. ASSUME NEW s \in Socket, RecoverFails(s) PROVE KeptStays
  <2>1. ASSUME NEW n \in Message, NEW v \in User, Held(n, v), <<n, v>> \notin excused'
        PROVE  Held(n, v)'
    <3>1. PICK r \in Sockets(v) : n \in taken[r] \cup queue[r]
      BY <2>1 DEF Held
    <3>2. r # s
      BY <1>14, <2>1, <3>1 DEF RecoverFails, Sockets
    <3>3. n \in taken'[r] \cup queue'[r]
      BY <1>14, <3>1, <3>2 DEF RecoverFails, Sockets
    <3> QED
      BY <3>1, <3>3 DEF Held
  <2> QED
    BY <1>14, <2>1 DEF RecoverFails, Kept, Handed
<1>15. ASSUME NEW m \in Message, ExpireMessage(m) PROVE KeptStays
  BY <1>15 DEF ExpireMessage, Kept, Handed, Held
<1>16. ASSUME NEW m \in Message, NEW u \in User, ExpireKey(m, u) PROVE KeptStays
  BY <1>16 DEF ExpireKey, Kept, Handed, Held, Sockets, GoneIsExpired,
     WrittenFirst, Written
<1>17. CASE UNCHANGED vars
  BY <1>17 DEF vars, Kept, Handed, Held
<1> QED
  BY <1>1, <1>2, <1>3, <1>4, <1>5, <1>6, <1>7, <1>8, <1>9, <1>10, <1>11, <1>12, <1>13,
     <1>14, <1>15, <1>16, <1>17 DEF Next, Recover

\* Only the send itself, or a recovery that holds it, hands a message over.
HandsHeld ==
  \A m \in Message, u \in User :
    Handed(m, u)' /\ ~Handed(m, u) => send[m] # "failed" \/ Held(m, u)

LEMMA HandsStep == TypeOK /\ [Next]_vars => HandsHeld
<1> SUFFICES ASSUME TypeOK, [Next]_vars PROVE HandsHeld
  OBVIOUS
<1> USE AckAssumption DEF HandsHeld, TypeOK
<1>1. ASSUME NEW m \in Message, CacheMessage(m) PROVE HandsHeld
  BY <1>1 DEF CacheMessage, Handed, Held, Sockets
<1>2. ASSUME NEW m \in Message, NEW u \in User, RegisterUser(m, u) PROVE HandsHeld
  BY <1>2 DEF RegisterUser, Handed, Held, Sockets
<1>3. ASSUME NEW m \in Message, NEW u \in User, RegisterFails(m, u) PROVE HandsHeld
  BY <1>3 DEF RegisterFails, Handed, Held, Sockets
<1>4. ASSUME NEW m \in Message, SendToChannel(m) PROVE HandsHeld
  BY <1>4 DEF SendToChannel, Handed, Held, Sockets
<1>5. ASSUME NEW m \in Message, Fail(m) PROVE HandsHeld
  BY <1>5 DEF Fail, Handed, Held, Sockets
<1>6. ASSUME NEW s \in Socket, Connect(s) PROVE HandsHeld
  BY <1>6 DEF Connect, Handed, Held, Sockets
<1>7. ASSUME NEW s \in Socket, JoinRooms(s) PROVE HandsHeld
  BY <1>7 DEF JoinRooms, Handed, Held, Sockets
<1>8. ASSUME NEW s \in Socket, Disconnect(s) PROVE HandsHeld
  BY <1>8 DEF Disconnect, Handed, Held, Sockets
<1>9. ASSUME NEW s \in Socket, NEW m \in Message, Ack(s, m) PROVE HandsHeld
  BY <1>9 DEF Ack, Handed, Held, Sockets
<1>10. ASSUME NEW s \in Socket, Scan(s) PROVE HandsHeld
  BY <1>10 DEF Scan, Handed, Held, Sockets
<1>11. ASSUME NEW s \in Socket, NEW m \in Message, TakeKey(s, m) PROVE HandsHeld
  BY <1>11 DEF TakeKey, Handed, Held, Sockets
<1>12. ASSUME NEW s \in Socket, NEW m \in Message, LoadMessage(s, m) PROVE HandsHeld
  BY <1>12 DEF LoadMessage, Handed, Held, Sockets
<1>13. ASSUME NEW s \in Socket, EmitOldest(s) PROVE HandsHeld
  <2>1. PICK m \in queue[s] : handed' \subseteq handed \cup {<<s, m>>}
    BY <1>13 DEF EmitOldest
  <2> QED
    BY <2>1 DEF Handed, Held, Sockets
<1>14. ASSUME NEW s \in Socket, RecoverFails(s) PROVE HandsHeld
  BY <1>14 DEF RecoverFails, Handed, Held, Sockets
<1>15. ASSUME NEW m \in Message, ExpireMessage(m) PROVE HandsHeld
  BY <1>15 DEF ExpireMessage, Handed, Held, Sockets
<1>16. ASSUME NEW m \in Message, NEW u \in User, ExpireKey(m, u) PROVE HandsHeld
  BY <1>16 DEF ExpireKey, Handed, Held, Sockets
<1>17. CASE UNCHANGED vars
  BY <1>17 DEF vars, Handed, Held, Sockets
<1> QED
  BY <1>1, <1>2, <1>3, <1>4, <1>5, <1>6, <1>7, <1>8, <1>9, <1>10, <1>11, <1>12, <1>13,
     <1>14, <1>15, <1>16, <1>17 DEF Next, Recover

NoneLost == \A m \in Message, u \in User : Mail(m, u) # "lost"

LEMMA NoneIsLost == IInv /\ JudgedFirst => NoneLost
<1> SUFFICES ASSUME IInv, JudgedFirst, NEW m \in Message, NEW u \in User,
                    u \in online[m] \ unkeyed[m], send[m] # "failed",
                    <<m, u>> \notin excused
             PROVE  Kept(m, u)
  BY DEF NoneLost, Mail, Kept
<1>1. send[m] \in {"cached", "done"}
  BY DEF IInv, TypeOK, JudgedFirst
<1> QED
  BY <1>1 DEF IInv, KeptSinceWritten

MailStep == \A m \in Message, u \in User : Mail(m, u)' # Mail(m, u) => Box(m, u)!Next

LEMMA MailSteps == IInv /\ JudgedFirst /\ NoneLost' /\ [Next]_vars => MailStep
<1> SUFFICES ASSUME IInv, JudgedFirst, NoneLost', [Next]_vars,
                    NEW m \in Message, NEW u \in User, Mail(m, u)' # Mail(m, u)
             PROVE  Box(m, u)!Next
  BY DEF MailStep
<1>1. /\ Handed(m, u) => Handed(m, u)'
      /\ <<m, u>> \in excused => <<m, u>> \in excused'
      /\ send[m] = "failed" => send'[m] = "failed"
  BY StandsStep DEF IInv, Stands, Handed
<1>2. Kept(m, u) /\ <<m, u>> \notin excused' => Kept(m, u)'
  BY KeptStep DEF KeptStays
<1>3. Handed(m, u)' /\ ~Handed(m, u) => send[m] # "failed" \/ Kept(m, u)
  BY HandsStep DEF IInv, HandsHeld, Kept
<1>4. u \in online[m] \ unkeyed[m] => u \in online'[m] \ unkeyed'[m]
  BY StandsStep DEF IInv, Stands, JudgedFirst
<1>5. Mail(m, u) # "lost" /\ Mail(m, u)' # "lost"
  BY NoneIsLost DEF NoneLost
<1> DEFINE Is(h, e, k, n, f) ==
      IF h THEN "handed" ELSE IF e THEN "exposed" ELSE IF k THEN "kept"
      ELSE IF n THEN "none" ELSE IF f THEN "refused" ELSE "lost"
<1>6. Mail(m, u) = Is(Handed(m, u), <<m, u>> \in excused, Kept(m, u),
                      u \notin online[m] \ unkeyed[m], send[m] = "failed")
  BY DEF Mail, Kept
<1>7. Mail(m, u)' = Is(Handed(m, u)', <<m, u>> \in excused', Kept(m, u)',
                       u \notin online'[m] \ unkeyed'[m], send'[m] = "failed")
  BY DEF Mail, Kept
<1> QED
  BY <1>1, <1>2, <1>3, <1>4, <1>5, <1>6, <1>7
     DEF Box!Next, Box!Refuse, Box!Keep, Box!Hand, Box!Expose

(***************************************************************************)
(* AckRecovery implements Mailbox for every user and message: what has its *)
(* key is in Redis or in the hands of a recovery until it is handed over,  *)
(* outside the windows that are excused.                                   *)
(***************************************************************************)
THEOREM MailIsNeverDropped == Spec => MailMovesForward
<1>1. Init => \A m \in Message, u \in User : Box(m, u)!Init
  BY DEF Init, Box!Init, Mail, Handed, Held, Sockets
<1>2. IInv /\ JudgedFirst /\ NoneLost' /\ [Next]_vars => [MailStep]_vars
  BY MailSteps
<1>3. IInv /\ JudgedFirst => NoneLost
  BY NoneIsLost
<1>4. Spec => [][MailStep]_vars
  BY <1>2, <1>3, IInvAlways, JudgedAlways, PTL DEF Spec
<1> QED
  BY <1>1, <1>4, PTL DEF Spec, MailMovesForward, MailStep

=============================================================================
