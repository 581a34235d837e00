----------------------------- MODULE MCDelivery -----------------------------
(* Instances of Delivery for TLC. *)
EXTENDS Delivery, TLC

CONSTANTS u1, s1, s2, m1, m2, m3, k1

\* Two clients of one user, one after or beside the other.
MCOwner      == s1 :> u1 @@ s2 :> u1
MCRecipients == [m \in Message |-> {u1}]

\* Two messages at most: one that must arrive, with a delayed one that must too, or with one
\* kept in the history that must not arrive twice.
Sent       == {m \in Message : send[m] # "idle"}
Updated    == \E k \in Update : update[k].pc # "idle"
MaySend(m) == Sent \cup {m} \in {{m1}, {m2}, {m3}, {m1, m2}, {m1, m3}} /\ ~Updated

\* A status is set on a message alone, or on one whose send failed beside another.  Of a row
\* for qos = 0 only that it is there matters.
MayUpdate(m, to) ==
  /\ Sent = {m} \/ (m = m2 /\ send[m] = "failed")
  /\ m \in AtLeastOnce \/ to = "unsent"

MCNext ==
  \/ \E s \in Socket : Connect(s) \/ JoinRooms(s) \/ Disconnect(s) \/ Resend(s)
  \/ \E m \in Message :
       \/ MaySend(m) /\ GetUsers(m)
       \/ SaveMessage(m) \/ SaveStatusUnsent(m)
       \/ SendToChannel(m) \/ StartTimer(m) \/ FireTimer(m) \/ Fail(m)
  \/ \E k \in Update :
       \/ \E m \in Message, u \in User, to \in Status :
            MayUpdate(m, to) /\ FindStatus(k, m, u, to)
       \/ SaveStatus(k) \/ UpdateFails(k)

MCSpec == Init /\ [][MCNext]_vars /\ \A s \in Socket : WF_vars(Resend(s))

=============================================================================
