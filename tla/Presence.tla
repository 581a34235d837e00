------------------------------ MODULE Presence ------------------------------
(***************************************************************************)
(* Who is online, as the Notification service (src/WebsocketBE) keeps it   *)
(* in Redis.  Every socket.io connection of a user runs, on the server     *)
(* that holds it, handlers that are suspended at each await:               *)
(*                                                                         *)
(*   join   clientJoinChannel: a database query, then socket.join of the   *)
(*          user room, the room fetchSockets looks at                      *)
(*   mark   setOnlineStatus: SET flag, SMEMBERS list, SADD list            *)
(*   sweep  2 s after the disconnect: fetchSockets of the user room and,   *)
(*          if it is empty, setOfflineStatus: DEL flag, SREM list, DEL of  *)
(*          the user's socket list (that key is in module SocketCache)     *)
(*                                                                         *)
(* One Redis command is one step, so the handlers of different sockets, on *)
(* one server or on several, interleave at every await.                    *)
(***************************************************************************)
EXTENDS Naturals, FiniteSets

CONSTANTS
  User,
  Server,   \* processes of the service; they share Redis and nothing else
  Socket,   \* connections: socket.io never reuses an id, so each connects once
  Owner,    \* Owner[s]: the user whose token opened s
  Home      \* Home[s]: the server that accepted s

ASSUME OwnerAssumption == Owner \in [Socket -> User]
ASSUME HomeAssumption  == Home \in [Socket -> Server]

VARIABLES
  conn,       \* conn[s]: life of the connection
  room,       \* sockets that are in their user's room, user_<email>
  flag,       \* flag[u]: the key ws_user_online:<email>
  list,       \* the set ws_users_online
  join,       \* join[s]: where the join handler of s is
  mark,       \* mark[s]: where setOnlineStatus is
  markRead,   \* markRead[s]: listOnlines, its local variable
  sweep,      \* sweep[s]: where the delayed offline check of s is
  disturbed,  \* history: users a sweep or an expiry hit while they had a client
  killed      \* history: users who lost a connection or a handler in a crash

history == <<disturbed, killed>>
vars    == <<conn, room, flag, list, join, mark, markRead, sweep, disturbed, killed>>

Sockets(u)  == {s \in Socket : Owner[s] = u}
Live(u)     == {s \in Sockets(u) : conn[s] = "live"}
Sweeping(u) == \E s \in Sockets(u) : sweep[s] \in {"flag", "list", "cache"}

\* u joins the users to excuse when it has a live client.
DisturbedIfLive(u) == disturbed' = disturbed \cup {v \in {u} : Live(v) # {}}

-----------------------------------------------------------------------------
TypeOK ==
  /\ conn      \in [Socket -> {"new", "live", "gone"}]
  /\ room      \in SUBSET Socket
  /\ flag      \in [User -> BOOLEAN]
  /\ list      \in SUBSET User
  /\ join      \in [Socket -> {"idle", "query", "done"}]
  /\ mark      \in [Socket -> {"idle", "flag", "read", "write", "done"}]
  /\ markRead  \in [Socket -> SUBSET User]
  /\ sweep     \in [Socket -> {"idle", "timer", "flag", "list", "cache", "done"}]
  /\ disturbed \in SUBSET User
  /\ killed    \in SUBSET User

Init ==
  /\ conn      = [s \in Socket |-> "new"]
  /\ room      = {}
  /\ flag      = [u \in User |-> FALSE]
  /\ list      = {}
  /\ join      = [s \in Socket |-> "idle"]
  /\ mark      = [s \in Socket |-> "idle"]
  /\ markRead  = [s \in Socket |-> {}]
  /\ sweep     = [s \in Socket |-> "idle"]
  /\ disturbed = {}
  /\ killed    = {}

-----------------------------------------------------------------------------
(* Connection *)

\* handleConnection: WS_CLIENT_CONNECTED starts join, WS_CLIENT_ONLINE starts
\* mark, whether or not the user was online before.  A connection made while a
\* sweep of the same user is past its check is a disturbance.
Connect(s) ==
  /\ conn[s] = "new"
  /\ conn' = [conn EXCEPT ![s] = "live"]
  /\ join' = [join EXCEPT ![s] = "query"]
  /\ mark' = [mark EXCEPT ![s] = "flag"]
  /\ disturbed' = disturbed \cup {u \in {Owner[s]} : Sweeping(u)}
  /\ UNCHANGED <<room, flag, list, markRead, sweep, killed>>

\* The channel query has returned: client.join(user room).  socket.io makes
\* join a no-op once the socket has disconnected.
JoinUserRoom(s) ==
  /\ join[s] = "query"
  /\ join' = [join EXCEPT ![s] = "done"]
  /\ room' = room \cup {t \in {s} : conn[t] = "live"}
  /\ UNCHANGED <<conn, flag, list, mark, markRead, sweep, history>>

SetFlag(s) ==
  /\ mark[s] = "flag"
  /\ mark' = [mark EXCEPT ![s] = "read"]
  /\ flag' = [flag EXCEPT ![Owner[s]] = TRUE]
  /\ UNCHANGED <<conn, room, list, join, markRead, sweep, history>>

\* Wrong on purpose: the user is not pushed.  Breaks ListCoversOnline.
ReadListOnly(s) ==
  /\ mark[s] = "read"
  /\ mark' = [mark EXCEPT ![s] = "write"]
  /\ markRead' = [markRead EXCEPT ![s] = list]
  /\ UNCHANGED <<conn, room, flag, list, join, sweep, history>>

ReadList(s) ==
  /\ mark[s] = "read"
  /\ mark' = [mark EXCEPT ![s] = "write"]
  /\ markRead' = [markRead EXCEPT ![s] = list \cup {Owner[s]}]
  /\ UNCHANGED <<conn, room, flag, list, join, sweep, history>>

\* Wrong on purpose: the array is added as one member.  Breaks TypeOK.
WriteListNested(s) ==
  /\ mark[s] = "write"
  /\ mark' = [mark EXCEPT ![s] = "done"]
  /\ list' = list \cup {markRead[s]}
  /\ markRead' = [markRead EXCEPT ![s] = {}]
  /\ UNCHANGED <<conn, room, flag, join, sweep, history>>

\* The whole list that was read is added again, not only the user.
WriteList(s) ==
  /\ mark[s] = "write"
  /\ mark' = [mark EXCEPT ![s] = "done"]
  /\ list' = list \cup markRead[s]
  /\ markRead' = [markRead EXCEPT ![s] = {}]
  /\ UNCHANGED <<conn, room, flag, join, sweep, history>>

-----------------------------------------------------------------------------
(* Disconnection *)

\* Wrong on purpose: no timer is armed.  Breaks FlagIsPresence.
DisconnectUntimed(s) ==
  /\ conn[s] = "live"
  /\ conn' = [conn EXCEPT ![s] = "gone"]
  /\ room' = room \ {s}
  /\ UNCHANGED <<flag, list, join, mark, markRead, sweep, history>>

\* The socket leaves its rooms at once; handleDisconnect arms the 2000 ms timer.
Disconnect(s) ==
  /\ conn[s] = "live"
  /\ conn'  = [conn EXCEPT ![s] = "gone"]
  /\ room'  = room \ {s}
  /\ sweep' = [sweep EXCEPT ![s] = "timer"]
  /\ UNCHANGED <<flag, list, join, mark, markRead, history>>

\* What isUserOffline may see: the room on every server; when fetchSockets
\* fails (a server does not answer the adapter in time) the room on this
\* server; when that fails too, nothing.
Views(s) == {room, {t \in room : Home[t] = Home[s]}, {}}

Seen(view, u) == {t \in view : Owner[t] = u}

\* Wrong on purpose: asks the flag, not the room.  Breaks LeftIsOffline.
FindOnlineByFlag(s) ==
  /\ sweep[s] = "timer"
  /\ flag[Owner[s]]
  /\ sweep' = [sweep EXCEPT ![s] = "done"]
  /\ UNCHANGED <<conn, room, flag, list, join, mark, markRead, history>>

\* The timer fires and a client of the user is in view: nothing to do.
FindOnline(s) ==
  /\ sweep[s] = "timer"
  /\ mark[s] # "flag"   \* its SET was sent 2 s before on the same connection
  /\ \E view \in Views(s) : Seen(view, Owner[s]) # {}
  /\ sweep' = [sweep EXCEPT ![s] = "done"]
  /\ UNCHANGED <<conn, room, flag, list, join, mark, markRead, history>>

\* The timer fires and no client is in view: WS_CLIENT_OFFLINE.  A live client
\* that is out of view (still joining, or on a server that did not answer) is
\* judged offline: a disturbance.
FindOffline(s) ==
  /\ sweep[s] = "timer"
  /\ mark[s] # "flag"
  /\ \E view \in Views(s) : Seen(view, Owner[s]) = {}
  /\ sweep' = [sweep EXCEPT ![s] = "flag"]
  /\ DisturbedIfLive(Owner[s])
  /\ UNCHANGED <<conn, room, flag, list, join, mark, markRead, killed>>

\* setOfflineStatus, one Redis command at a time.
ClearFlag(s) ==
  /\ sweep[s] = "flag"
  /\ sweep' = [sweep EXCEPT ![s] = "list"]
  /\ flag'  = [flag EXCEPT ![Owner[s]] = FALSE]
  /\ UNCHANGED <<conn, room, list, join, mark, markRead, history>>

ClearList(s) ==
  /\ sweep[s] = "list"
  /\ sweep' = [sweep EXCEPT ![s] = "cache"]
  /\ list'  = list \ {Owner[s]}
  /\ UNCHANGED <<conn, room, flag, join, mark, markRead, history>>

ClearCache(s) ==
  /\ sweep[s] = "cache"
  /\ sweep' = [sweep EXCEPT ![s] = "done"]
  /\ UNCHANGED <<conn, room, flag, list, join, mark, markRead, history>>

-----------------------------------------------------------------------------
(* Failures *)

Working(s) ==
  \/ join[s] = "query"
  \/ mark[s] \in {"flag", "read", "write"}
  \/ sweep[s] \in {"timer", "flag", "list", "cache"}

\* The sockets whose connection or handler dies with server h.
Hit(h) == {s \in Socket : Home[s] = h /\ (conn[s] = "live" \/ Working(s))}

Stopped(pc, hit) == [s \in Socket |-> IF s \in hit THEN "done" ELSE pc[s]]

\* A server dies: its connections end without a disconnect event and its
\* handlers and timers never continue.  Redis keeps what they wrote.
Crash(h) ==
  /\ Hit(h) # {}
  /\ conn'   = [s \in Socket |-> IF s \in Hit(h) THEN "gone" ELSE conn[s]]
  /\ room'   = room \ Hit(h)
  /\ join'   = Stopped(join, Hit(h))
  /\ mark'   = Stopped(mark, Hit(h))
  /\ sweep'  = Stopped(sweep, Hit(h))
  /\ markRead' = [s \in Socket |-> IF s \in Hit(h) THEN {} ELSE markRead[s]]
  /\ killed' = killed \cup {Owner[s] : s \in Hit(h)}
  /\ UNCHANGED <<flag, list, disturbed>>

\* Nothing refreshes a key between connections: two days after the user's last
\* connect the flag expires, clients or not.
ExpireFlag(u) ==
  /\ flag[u]
  /\ flag' = [flag EXCEPT ![u] = FALSE]
  /\ DisturbedIfLive(u)
  /\ UNCHANGED <<conn, room, list, join, mark, markRead, sweep, killed>>

-----------------------------------------------------------------------------
Handler(s) ==
  \/ JoinUserRoom(s) \/ SetFlag(s) \/ ReadList(s) \/ WriteList(s)
  \/ FindOnline(s) \/ FindOffline(s)
  \/ ClearFlag(s) \/ ClearList(s) \/ ClearCache(s)

Next ==
  \/ \E s \in Socket : Connect(s) \/ Disconnect(s) \/ Handler(s)
  \/ \E h \in Server : Crash(h)
  \/ \E u \in User : ExpireFlag(u)

Spec == Init /\ [][Next]_vars

\* A server that is up runs its handlers and its timers: weak fairness for the
\* steps of each socket.  Clients and failures owe nothing.
FairSpec == Spec /\ \A s \in Socket : WF_vars(Handler(s))

-----------------------------------------------------------------------------
\* No handler that writes u's flag or u's entry in the list is suspended.
Settled(u) ==
  \A s \in Sockets(u) : /\ mark[s]  \in {"idle", "done"}
                        /\ sweep[s] \in {"idle", "done"}

Undisturbed == User \ (disturbed \cup killed)

(***************************************************************************)
(* isOnlineStatus tells the truth once the handlers have settled: the flag *)
(* of a user is set exactly when the user has a live client.  The only     *)
(* ways to break it are the windows the history records: a sweep whose     *)
(* check misses a client that is still joining or that sits on a server    *)
(* that did not answer, a connection made during a sweep, an expiry under  *)
(* a client, and a crash.                                                  *)
(***************************************************************************)
FlagIsPresence ==
  \A u \in Undisturbed : Settled(u) => (flag[u] <=> Live(u) # {})

(***************************************************************************)
(* A broadcast looks its recipients up in ws_users_online                  *)
(* (getUsersOnline): every settled user who is flagged online is in that   *)
(* list, although each connect writes back a list it read earlier.         *)
(***************************************************************************)
ListCoversOnline ==
  \A u \in Undisturbed : Settled(u) /\ flag[u] => u \in list

(***************************************************************************)
(* A user whose last client has left is eventually shown offline, unless a *)
(* client comes back or a server that had to run a timer crashed.          *)
(***************************************************************************)
LeftIsOffline ==
  \A u \in User :
    (Live(u) = {} /\ flag[u]) ~> (~flag[u] \/ Live(u) # {} \/ u \in killed)

=============================================================================
