---------------------------- MODULE AckRecovery ----------------------------
(***************************************************************************)
(* Messages that need an acknowledgement.  Before such a message is sent,  *)
(* it is cached in Redis with a key for each recipient taken to be online. *)
(* An acknowledgement deletes the key; a client that connects while keys   *)
(* of its user are there takes them and gets the messages once more.  Keys *)
(* and messages expire by themselves (60 s by default).                    *)
(*                                                                         *)
(* A key belongs to the user, not to the client: any client of the user    *)
(* may acknowledge, and any that connects may take it.                     *)
(***************************************************************************)
EXTENDS Naturals, FiniteSets

CONSTANTS
  User,
  Socket,      \* connections, each used once
  Owner,       \* Owner[s]: the user whose token opened s
  Message,     \* messages that need an acknowledgement, each sent once
  Recipients,  \* Recipients[m]: the users m is sent to
  Time         \* Time[m]: header.time

ASSUME AckAssumption == /\ Owner \in [Socket -> User]
                        /\ Recipients \in [Message -> SUBSET User]
                        /\ Time \in [Message -> Nat]

VARIABLES
  send,     \* send[m]: where MessageService.send of m is
  online,   \* online[m]: to_actual_user, those taken to be online
  unkeyed,  \* unkeyed[m]: the users registerUsersSend has still to write a key for
  cached,   \* the messages under ws_message:<uid>
  key,      \* <<m, u>>: the key ws_user_send:<email>::<uid>
  conn,     \* conn[s]: "joined" once s is in the rooms of its user
  recover,  \* recover[s]: sendMessageUnsent of s, "busy" from the answer to KEYS on
  found,    \* found[s]: keys of getMessageNotSendByUser it has not looked at
  taken,    \* taken[s]: messageUnsents it has not loaded
  queue,    \* queue[s]: messages, loaded and not yet emitted
  handed,   \* history: <<s, m>>, m was emitted to s while it was connected
  acked,    \* history: <<m, u>>
  excused   \* history: <<m, u>>, expired, not registered because of an error, or
            \* taken by a recovery that did not get through to its client

sending    == <<send, online, unkeyed>>
recovering == <<recover, found, taken, queue>>
vars == <<sending, cached, key, conn, recovering, handed, acked, excused>>

Sockets(u) == {s \in Socket : Owner[s] = u}
Keyed(u)   == {m \in Message : <<m, u>> \in key}
Pair       == Message \X User

-----------------------------------------------------------------------------
TypeOK ==
  /\ send    \in [Message -> {"idle", "cached", "done", "failed"}]
  /\ online  \in [Message -> SUBSET User]
  /\ unkeyed \in [Message -> SUBSET User]
  /\ cached  \in SUBSET Message
  /\ key     \in SUBSET Pair
  /\ conn    \in [Socket -> {"new", "live", "joined", "gone"}]
  /\ recover \in [Socket -> {"idle", "scan", "busy", "failed"}]
  /\ found   \in [Socket -> SUBSET Message]
  /\ taken   \in [Socket -> SUBSET Message]
  /\ queue   \in [Socket -> SUBSET Message]
  /\ handed  \in SUBSET (Socket \X Message)
  /\ acked   \in SUBSET Pair
  /\ excused \in SUBSET Pair

Init ==
  /\ send    = [m \in Message |-> "idle"]
  /\ online  = [m \in Message |-> {}]
  /\ unkeyed = [m \in Message |-> {}]
  /\ cached  = {}
  /\ key     = {}
  /\ conn    = [s \in Socket |-> "new"]
  /\ recover = [s \in Socket |-> "idle"]
  /\ found   = [s \in Socket |-> {}]
  /\ taken   = [s \in Socket |-> {}]
  /\ queue   = [s \in Socket |-> {}]
  /\ handed  = {}
  /\ acked   = {}
  /\ excused = {}

-----------------------------------------------------------------------------
(* The send *)

\* Wrong on purpose: the keys without the message.  Breaks Recoverable.
CacheNothing(m) ==
  /\ send[m] = "idle"
  /\ send' = [send EXCEPT ![m] = "cached"]
  /\ \E on \in SUBSET Recipients[m] :
       /\ online' = [online EXCEPT ![m] = on]
       /\ unkeyed' = [unkeyed EXCEPT ![m] = on]
  /\ UNCHANGED <<cached, key, conn, recovering, handed, acked, excused>>

\* getUsers asks presence, which may answer anything, and beforeSendMessage
\* caches the message first, then writes the keys, all at once.
CacheMessage(m) ==
  /\ send[m] = "idle"
  /\ send' = [send EXCEPT ![m] = "cached"]
  /\ cached' = cached \cup {m}
  /\ \E on \in SUBSET Recipients[m] :
       /\ online' = [online EXCEPT ![m] = on]
       /\ unkeyed' = [unkeyed EXCEPT ![m] = on]
  /\ UNCHANGED <<key, conn, recovering, handed, acked, excused>>

\* Wrong on purpose: a key per message, without the user.  Breaks TypeOK.
RegisterMessage(m, u) ==
  /\ u \in unkeyed[m]
  /\ unkeyed' = [unkeyed EXCEPT ![m] = @ \ {u}]
  /\ key' = key \cup {<<m>>}
  /\ UNCHANGED <<send, online, cached, conn, recovering, handed, acked, excused>>

RegisterUser(m, u) ==
  /\ u \in unkeyed[m]
  /\ unkeyed' = [unkeyed EXCEPT ![m] = @ \ {u}]
  /\ key' = key \cup {<<m, u>>}
  /\ UNCHANGED <<send, online, cached, conn, recovering, handed, acked, excused>>

\* An error of one user's SET is logged and forgotten.
RegisterFails(m, u) ==
  /\ u \in unkeyed[m]
  /\ unkeyed' = [unkeyed EXCEPT ![m] = @ \ {u}]
  /\ excused' = excused \cup {<<m, u>>}
  /\ UNCHANGED <<send, online, cached, key, conn, recovering, handed, acked>>

Receivers(m) == {s \in Socket : conn[s] = "joined" /\ Owner[s] \in Recipients[m]}

\* Wrong on purpose: emit for emitAsync, the keys are not waited for.  Breaks
\* AckedIsOver.
SendAtOnce(m) ==
  /\ send[m] = "cached"
  /\ send' = [send EXCEPT ![m] = "done"]
  /\ handed' = handed \cup (Receivers(m) \X {m})
  /\ UNCHANGED <<online, unkeyed, cached, key, conn, recovering, acked, excused>>

\* The emit waits for the listener (emitAsync), and so for every key.
SendToChannel(m) ==
  /\ send[m] = "cached"
  /\ unkeyed[m] = {}
  /\ send' = [send EXCEPT ![m] = "done"]
  /\ handed' = handed \cup (Receivers(m) \X {m})
  /\ UNCHANGED <<online, unkeyed, cached, key, conn, recovering, acked, excused>>

\* A later step of the send throws or the process dies: no emit, the keys stay.
Fail(m) ==
  /\ send[m] = "cached"
  /\ send' = [send EXCEPT ![m] = "failed"]
  /\ unkeyed' = [unkeyed EXCEPT ![m] = {}]
  /\ UNCHANGED <<online, cached, key, conn, recovering, handed, acked, excused>>

-----------------------------------------------------------------------------
(* Clients *)

Connect(s) ==
  /\ conn[s] = "new"
  /\ conn' = [conn EXCEPT ![s] = "live"]
  /\ recover' = [recover EXCEPT ![s] = "scan"]
  /\ UNCHANGED <<sending, cached, key, found, taken, queue, handed, acked, excused>>

JoinRooms(s) ==
  /\ conn[s] = "live"
  /\ conn' = [conn EXCEPT ![s] = "joined"]
  /\ UNCHANGED <<sending, cached, key, recovering, handed, acked, excused>>

Disconnect(s) ==
  /\ conn[s] \in {"live", "joined"}
  /\ conn' = [conn EXCEPT ![s] = "gone"]
  /\ UNCHANGED <<sending, cached, key, recovering, handed, acked, excused>>

\* client_ack of a message the client was handed: removeLogUserSend.
Ack(s, m) ==
  /\ conn[s] \in {"live", "joined"}
  /\ <<s, m>> \in handed
  /\ acked' = acked \cup {<<m, Owner[s]>>}
  /\ key' = key \ {<<m, Owner[s]>>}
  /\ UNCHANGED <<sending, cached, conn, recovering, handed, excused>>

-----------------------------------------------------------------------------
(* The recovery *)

\* Wrong on purpose: SCAN for KEYS, the first page only.  Breaks RecoveredOnConnect.
ScanOnePage(s) ==
  /\ recover[s] = "scan"
  /\ recover' = [recover EXCEPT ![s] = "busy"]
  /\ \E page \in SUBSET Keyed(Owner[s]) :
       /\ Cardinality(page) <= 1
       /\ found' = [found EXCEPT ![s] = page]
  /\ UNCHANGED <<sending, cached, key, conn, taken, queue, handed, acked, excused>>

\* KEYS ws_user_send:<email>::*
Scan(s) ==
  /\ recover[s] = "scan"
  /\ recover' = [recover EXCEPT ![s] = "busy"]
  /\ found' = [found EXCEPT ![s] = Keyed(Owner[s])]
  /\ UNCHANGED <<sending, cached, key, conn, taken, queue, handed, acked, excused>>

\* GETDEL of the keys one after the other; one that is gone by now gives nothing.
TakeKey(s, m) ==
  /\ m \in found[s]
  /\ found' = [found EXCEPT ![s] = @ \ {m}]
  /\ taken' = [taken EXCEPT ![s] = @ \cup ({m} \cap Keyed(Owner[s]))]
  /\ key' = key \ {<<m, Owner[s]>>}
  /\ UNCHANGED <<sending, cached, conn, recover, queue, handed, acked, excused>>

\* getCacheMessage, once every key is taken: an expired message is passed over.
LoadMessage(s, m) ==
  /\ found[s] = {}
  /\ m \in taken[s]
  /\ taken' = [taken EXCEPT ![s] = @ \ {m}]
  /\ queue' = [queue EXCEPT ![s] = @ \cup ({m} \cap cached)]
  /\ UNCHANGED <<sending, cached, key, conn, recover, found, handed, acked, excused>>

\* Every message is loaded: the oldest is emitted, 400 ms after the one before.
EmitOldest(s) ==
  /\ found[s] = {} /\ taken[s] = {}
  /\ \E m \in queue[s] :
       /\ \A n \in queue[s] : Time[m] <= Time[n]
       /\ queue' = [queue EXCEPT ![s] = @ \ {m}]
       /\ \/ /\ conn[s] = "gone"
             /\ excused' = excused \cup {<<m, Owner[s]>>}
             /\ UNCHANGED handed
          \/ /\ conn[s] # "gone"
             /\ handed' = handed \cup {<<s, m>>}
             /\ UNCHANGED excused
  /\ UNCHANGED <<sending, cached, key, conn, recover, found, taken, acked>>

\* Redis refuses a command or the process dies, with what had been taken.
RecoverFails(s) ==
  /\ recover[s] = "scan" \/ found[s] \cup taken[s] \cup queue[s] # {}
  /\ recover' = [recover EXCEPT ![s] = "failed"]
  /\ excused' = excused \cup ((taken[s] \cup queue[s]) \X {Owner[s]})
  /\ found' = [found EXCEPT ![s] = {}]
  /\ taken' = [taken EXCEPT ![s] = {}]
  /\ queue' = [queue EXCEPT ![s] = {}]
  /\ UNCHANGED <<sending, cached, key, conn, handed, acked>>

-----------------------------------------------------------------------------
(* Expiry *)

\* Both are set with the same expiry, the message before its keys: it is gone first.
ExpireMessage(m) ==
  /\ m \in cached
  /\ cached' = cached \ {m}
  /\ excused' = excused \cup ({m} \X User)
  /\ UNCHANGED <<sending, key, conn, recovering, handed, acked>>

\* Wrong on purpose: the key expires before its message.  Breaks MailMovesForward.
ExpireKeyFirst(m, u) ==
  /\ <<m, u>> \in key
  /\ key' = key \ {<<m, u>>}
  /\ UNCHANGED <<sending, cached, conn, recovering, handed, acked, excused>>

ExpireKey(m, u) ==
  /\ <<m, u>> \in key
  /\ m \notin cached
  /\ key' = key \ {<<m, u>>}
  /\ UNCHANGED <<sending, cached, conn, recovering, handed, acked, excused>>

-----------------------------------------------------------------------------
Recover(s) ==
  \/ Scan(s) \/ EmitOldest(s)
  \/ \E m \in Message : TakeKey(s, m) \/ LoadMessage(s, m)

Next ==
  \/ \E m \in Message :
       \/ CacheMessage(m) \/ SendToChannel(m) \/ Fail(m)
       \/ ExpireMessage(m)
       \/ \E u \in User : RegisterUser(m, u) \/ RegisterFails(m, u) \/ ExpireKey(m, u)
  \/ \E s \in Socket :
       \/ Connect(s) \/ JoinRooms(s) \/ Disconnect(s) \/ Recover(s) \/ RecoverFails(s)
       \/ \E m \in Message : Ack(s, m)

Spec == Init /\ [][Next]_vars

\* A server that runs goes on with a recovery it has begun; it may also fail.
FairSpec == Spec /\ \A s \in Socket : WF_vars(Recover(s))

-----------------------------------------------------------------------------
Handed(m, u) == \E s \in Sockets(u) : <<s, m>> \in handed
Held(m, u)   == \E s \in Sockets(u) : m \in taken[s] \cup queue[s]

(***************************************************************************)
(* A message that was sent to a user taken to be online is never just      *)
(* gone: a client of the user was handed it, or its key is there for the   *)
(* next connect, or a recovery holds it.  This closes the window that      *)
(* module Delivery calls misjudged, for the messages that ask for it.      *)
(***************************************************************************)
Recoverable ==
  \A m \in Message : \A u \in online[m] :
    (send[m] = "done" /\ <<m, u>> \notin excused)
    => Handed(m, u) \/ <<m, u>> \in key \/ Held(m, u)

(***************************************************************************)
(* An acknowledgement is final: from then on the user has no key for the   *)
(* message, so that no client which connects later recovers it, although   *)
(* clients may recover, acknowledge and connect while keys of the same     *)
(* send are being written.                                                 *)
(***************************************************************************)
AckedIsOver == key \cap acked = {}

(***************************************************************************)
(* A client that connects while a key of its user is there gets the        *)
(* message, or another client of the user does, unless the message expires *)
(* or a recovery of the user does not get through.                         *)
(***************************************************************************)
RecoveredOnConnect ==
  \A u \in User, m \in Message :
    (<<m, u>> \in key /\ \E s \in Sockets(u) : recover[s] = "scan")
    ~> (Handed(m, u) \/ <<m, u>> \in excused
        \/ \E s \in Sockets(u) : recover[s] = "failed")

\* What is promised to u of m, as Mailbox has it: a message whose key was written and is
\* neither there nor held is "lost", which it has no word for.
Mail(m, u) ==
  IF Handed(m, u) THEN "handed"
  ELSE IF <<m, u>> \in excused THEN "exposed"
  ELSE IF <<m, u>> \in key \/ Held(m, u) THEN "kept"
  ELSE IF u \notin online[m] \/ u \in unkeyed[m] THEN "none"
  ELSE IF send[m] = "failed" THEN "refused" ELSE "lost"

Box(m, u) == INSTANCE Mailbox WITH mail <- Mail(m, u)

(***************************************************************************)
(* For every user AckRecovery implements Mailbox: a message that has its   *)
(* key is passed from the key to a recovery and from there to a client,    *)
(* and is at no time in neither, even if its send failed.                  *)
(***************************************************************************)
MailMovesForward ==
  /\ \A m \in Message, u \in User : Box(m, u)!Init
  /\ [][\A m \in Message, u \in User : Mail(m, u)' # Mail(m, u) => Box(m, u)!Next]_vars

=============================================================================
