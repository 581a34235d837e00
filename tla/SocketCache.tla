---------------------------- MODULE SocketCache ----------------------------
(***************************************************************************)
(* The list of a user's sockets in Redis, ws_user:<email>, which           *)
(* getDevicesOnline reads to decide which devices a push notification      *)
(* skips.  It is composed with Presence: the connect, the disconnect and   *)
(* the offline sweep of that module drive it.  Both updates of the list    *)
(* are a GET and, after the await, a SET or DEL of the whole list:         *)
(*                                                                         *)
(*   add    addUserSocketToCache, started by the connect                   *)
(*   drop   removeUserSocketFromCache, started by the disconnect           *)
(***************************************************************************)
EXTENDS Presence

VARIABLES
  cache,      \* cache[u]: the sockets listed in ws_user:<email>
  add,        \* add[s]: where addUserSocketToCache is
  addRead,    \* addRead[s]: currentUserSockets, its local variable
  drop,       \* drop[s]: where removeUserSocketFromCache is
  dropRead,   \* dropRead[s]: currentUserSockets, its local variable
  crossed     \* history: users two of whose updates were in flight together

locals    == <<add, addRead, drop, dropRead>>
cacheVars == <<cache, add, addRead, drop, dropRead, crossed>>
allVars   == <<vars, cacheVars>>

CacheTypeOK ==
  /\ cache    \in [User -> SUBSET Socket]
  /\ add      \in [Socket -> {"idle", "read", "write", "done"}]
  /\ addRead  \in [Socket -> SUBSET Socket]
  /\ drop     \in [Socket -> {"idle", "read", "write", "done"}]
  /\ dropRead \in [Socket -> SUBSET Socket]
  /\ crossed  \in SUBSET User

CacheInit ==
  /\ Init
  /\ cache    = [u \in User |-> {}]
  /\ add      = [s \in Socket |-> "idle"]
  /\ addRead  = [s \in Socket |-> {}]
  /\ drop     = [s \in Socket |-> "idle"]
  /\ dropRead = [s \in Socket |-> {}]
  /\ crossed  = {}

-----------------------------------------------------------------------------
(* Steps of Presence that move a step of this module *)

ConnectSocket(s) ==
  /\ Connect(s)
  /\ add' = [add EXCEPT ![s] = "read"]
  /\ UNCHANGED <<cache, addRead, drop, dropRead, crossed>>

DisconnectSocket(s) ==
  /\ Disconnect(s)
  /\ drop' = [drop EXCEPT ![s] = "read"]
  /\ UNCHANGED <<cache, add, addRead, dropRead, crossed>>

\* The last command of setOfflineStatus deletes the user's list.
SweepSockets(s) ==
  /\ ClearCache(s)
  /\ cache' = [cache EXCEPT ![Owner[s]] = {}]
  /\ UNCHANGED <<locals, crossed>>

PresenceStep(s) ==
  /\ \/ JoinUserRoom(s) \/ SetFlag(s) \/ ReadList(s) \/ WriteList(s)
     \/ FindOnline(s) \/ FindOffline(s) \/ ClearFlag(s) \/ ClearList(s)
  /\ UNCHANGED cacheVars

-----------------------------------------------------------------------------
(* The two read-modify-writes *)

\* Another socket of the user is between its GET and its write.
Crossing(s) ==
  \E t \in Sockets(Owner[s]) \ {s} : add[t] = "write" \/ drop[t] = "write"

MarkCrossed(s) == crossed' = crossed \cup {u \in {Owner[s]} : Crossing(s)}

ReadForAdd(s) ==
  /\ add[s] = "read"
  /\ add' = [add EXCEPT ![s] = "write"]
  /\ addRead' = [addRead EXCEPT ![s] = cache[Owner[s]]]
  /\ MarkCrossed(s)
  /\ UNCHANGED <<vars, cache, drop, dropRead>>

\* Wrong on purpose: pushes the user, not the socket.  Breaks CacheTypeOK.
WriteUserForAdd(s) ==
  /\ add[s] = "write"
  /\ add' = [add EXCEPT ![s] = "done"]
  /\ cache' = [cache EXCEPT ![Owner[s]] = addRead[s] \cup {Owner[s]}]
  /\ addRead' = [addRead EXCEPT ![s] = {}]
  /\ UNCHANGED <<vars, drop, dropRead, crossed>>

WriteForAdd(s) ==
  /\ add[s] = "write"
  /\ add' = [add EXCEPT ![s] = "done"]
  /\ cache' = [cache EXCEPT ![Owner[s]] = addRead[s] \cup {s}]
  /\ addRead' = [addRead EXCEPT ![s] = {}]
  /\ UNCHANGED <<vars, drop, dropRead, crossed>>

\* The GET of the disconnect follows the GET of the connect on the same Redis
\* connection.
ReadForDrop(s) ==
  /\ drop[s] = "read"
  /\ add[s] # "read"
  /\ drop' = [drop EXCEPT ![s] = "write"]
  /\ dropRead' = [dropRead EXCEPT ![s] = cache[Owner[s]]]
  /\ MarkCrossed(s)
  /\ UNCHANGED <<vars, cache, add, addRead>>

\* Wrong on purpose: filters nothing out.  Breaks CacheIsLive.
WriteBackForDrop(s) ==
  /\ drop[s] = "write"
  /\ add[s] = "done"
  /\ drop' = [drop EXCEPT ![s] = "done"]
  /\ cache' = [cache EXCEPT ![Owner[s]] = dropRead[s]]
  /\ dropRead' = [dropRead EXCEPT ![s] = {}]
  /\ UNCHANGED <<vars, add, addRead, crossed>>

\* Wrong on purpose: does not queue behind the add.  Breaks RemovedStaysRemoved.
WriteEarlyForDrop(s) ==
  /\ drop[s] = "write"
  /\ drop' = [drop EXCEPT ![s] = "done"]
  /\ cache' = [cache EXCEPT ![Owner[s]] = dropRead[s] \ {s}]
  /\ dropRead' = [dropRead EXCEPT ![s] = {}]
  /\ UNCHANGED <<vars, add, addRead, crossed>>

\* SET of the sockets that remain, DEL when none does: a missing key reads as
\* [].  The write of add was sent on an earlier reply of the same connection.
WriteForDrop(s) ==
  /\ drop[s] = "write"
  /\ add[s] = "done"
  /\ drop' = [drop EXCEPT ![s] = "done"]
  /\ cache' = [cache EXCEPT ![Owner[s]] = dropRead[s] \ {s}]
  /\ dropRead' = [dropRead EXCEPT ![s] = {}]
  /\ UNCHANGED <<vars, add, addRead, crossed>>

-----------------------------------------------------------------------------
(* Failures *)

Updating(s) == add[s] \in {"read", "write"} \/ drop[s] \in {"read", "write"}

\* A crash also stops the updates of the server's sockets, half done or not.
CrashServer(h) ==
  LET lost == {s \in Socket : Home[s] = h /\ Updating(s)} \cup Hit(h) IN
  /\ lost # {}
  /\ conn'   = [s \in Socket |-> IF s \in lost THEN "gone" ELSE conn[s]]
  /\ room'   = room \ lost
  /\ join'   = Stopped(join, lost)
  /\ mark'   = Stopped(mark, lost)
  /\ sweep'  = Stopped(sweep, lost)
  /\ add'    = Stopped(add, lost)
  /\ drop'   = Stopped(drop, lost)
  /\ markRead' = [s \in Socket |-> IF s \in lost THEN {} ELSE markRead[s]]
  /\ addRead'  = [s \in Socket |-> IF s \in lost THEN {} ELSE addRead[s]]
  /\ dropRead' = [s \in Socket |-> IF s \in lost THEN {} ELSE dropRead[s]]
  /\ killed' = killed \cup {Owner[s] : s \in lost}
  /\ UNCHANGED <<flag, list, disturbed, cache, crossed>>

ExpirePresence(u) == ExpireFlag(u) /\ UNCHANGED cacheVars

\* The list has the same two-day expiry as the flag, refreshed by updates only.
ExpireCache(u) ==
  /\ cache[u] # {}
  /\ cache' = [cache EXCEPT ![u] = {}]
  /\ DisturbedIfLive(u)
  /\ UNCHANGED <<conn, room, flag, list, join, mark, markRead, sweep, killed,
                 locals, crossed>>

-----------------------------------------------------------------------------
SocketHandler(s) ==
  \/ PresenceStep(s) \/ SweepSockets(s)
  \/ ReadForAdd(s) \/ WriteForAdd(s) \/ ReadForDrop(s) \/ WriteForDrop(s)

CacheNext ==
  \/ \E s \in Socket : ConnectSocket(s) \/ DisconnectSocket(s) \/ SocketHandler(s)
  \/ \E h \in Server : CrashServer(h)
  \/ \E u \in User : ExpirePresence(u) \/ ExpireCache(u)

CacheSpec == CacheInit /\ [][CacheNext]_allVars

-----------------------------------------------------------------------------
CacheSettled(u) ==
  /\ Settled(u)
  /\ \A s \in Sockets(u) : add[s] \in {"idle", "done"} /\ drop[s] \in {"idle", "done"}

(***************************************************************************)
(* getDevicesOnline sees the truth: once a user's handlers have settled,   *)
(* ws_user:<email> lists exactly the user's live sockets, unless two       *)
(* updates of the list were in flight together or presence itself was      *)
(* disturbed (module Presence).                                            *)
(***************************************************************************)
CacheIsLive ==
  \A u \in Undisturbed \ crossed : CacheSettled(u) => cache[u] = Live(u)

(***************************************************************************)
(* No update in flight holds a socket the service has finished removing:   *)
(* whatever it writes back, a removed socket does not return to the list,  *)
(* and so an offline device is not skipped by the push notification.       *)
(***************************************************************************)
RemovedStaysRemoved ==
  [][\A u \in Undisturbed \ crossed : \A s \in Sockets(u) :
        drop[s] = "done" /\ s \notin cache[u] => s \notin cache'[u]]_allVars

=============================================================================
