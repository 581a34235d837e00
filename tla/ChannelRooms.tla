---------------------------- MODULE ChannelRooms ----------------------------
(***************************************************************************)
(* Channel membership of the Notification service, kept twice: as rows of  *)
(* the table channel_member and as the socket.io rooms a send goes to.     *)
(*                                                                         *)
(* A membership request finds or creates the channel, then updates the     *)
(* row of each member (a query, then a save or a delete), then tells every *)
(* server, over Redis pub/sub, to move the member's sockets (socketsJoin,  *)
(* socketsLeave).  A socket that connects joins what one query returned    *)
(* (clientJoinChannel).  Every await is a point where others run.          *)
(***************************************************************************)
EXTENDS Naturals, FiniteSets, Sequences

CONSTANTS
  Channel,  \* channel names
  User,
  Server,
  Socket,   \* connections, each used once
  Owner,    \* Owner[s]: the user whose token opened s
  Home,     \* Home[s]: the server that accepted s
  Request,  \* membership requests, each used once
  MaxId     \* bound: primary keys of table channel, 1 .. MaxId

ASSUME OwnerAssumption == Owner \in [Socket -> User]
ASSUME HomeAssumption  == Home \in [Socket -> Server]
ASSUME MaxIdAssumption == MaxId \in Nat

VARIABLES
  chan,    \* chan[c]: the id of the channel named c, 0 when there is none
  nextId,  \* AUTO_INCREMENT of table channel
  row,     \* row[i][u]: the member row of u in the channel with id i
  shake,   \* shake[s]: where clientJoinChannel of s is
  seen,    \* seen[s]: dynamicChannels, its local variable
  rooms,   \* rooms[s]: the channels whose room s is in
  bus,     \* bus[h]: the room commands server h has still to receive
  req,     \* req[r]: a membership request and its local variables
  missed,  \* history: <<s, c>>, the last command for c reached s's server
           \* while s was between its query and its joins, and was not in what
           \* the query returned
  torn     \* history: <<c, u>>, touched by two requests at once, or by one
           \* that died before it had told the servers

vars == <<chan, nextId, row, shake, seen, rooms, bus, req, missed, torn>>

Id     == 1 .. MaxId
Status == {"none", "active", "revoked"}    \* revoked: revoke_date is set
Kind   == {"none", "add", "delete", "revoke", "remove"}

Command == [op : {"join", "leave"}, chan : Channel, to : SUBSET User]

\* todo: members not looked at yet; loaded: the member being saved, with the
\* row the query found; ok: memberSuccess, less what has been published.
Job == [pc     : {"idle", "members", "channel", "publish", "done"},
        kind   : Kind,
        chan   : SUBSET Channel,
        id     : 0 .. MaxId,
        todo   : SUBSET User,
        loaded : SUBSET (User \X Status),
        ok     : SUBSET User]

NoJob(pc) == [pc |-> pc, kind |-> "none", chan |-> {}, id |-> 0,
              todo |-> {}, loaded |-> {}, ok |-> {}]

Member(c, u) == chan[c] # 0 /\ row[chan[c]][u] = "active"

-----------------------------------------------------------------------------
TypeOK ==
  /\ chan   \in [Channel -> 0 .. MaxId]
  /\ nextId \in 1 .. MaxId + 1
  /\ row    \in [Id -> [User -> Status]]
  /\ shake  \in [Socket -> {"new", "read", "joined", "gone"}]
  /\ seen   \in [Socket -> SUBSET Channel]
  /\ rooms  \in [Socket -> SUBSET Channel]
  /\ bus    \in [Server -> Seq(Command)]
  /\ req    \in [Request -> Job]
  /\ missed \in SUBSET (Socket \X Channel)
  /\ torn   \in SUBSET (Channel \X User)

\* The service starts with any channels and any member rows in the database.
Init ==
  /\ chan   \in {f \in [Channel -> 0 .. MaxId] :
                   \A c, d \in Channel : f[c] = f[d] /\ f[c] # 0 => c = d}
  /\ nextId \in {n \in 1 .. MaxId + 1 : \A c \in Channel : chan[c] < n}
  /\ row    \in {f \in [Id -> [User -> Status]] :
                   \A i \in Id : (\A c \in Channel : chan[c] # i)
                                    => f[i] = [u \in User |-> "none"]}
  /\ shake  = [s \in Socket |-> "new"]
  /\ seen   = [s \in Socket |-> {}]
  /\ rooms  = [s \in Socket |-> {}]
  /\ bus    = [h \in Server |-> <<>>]
  /\ req    = [r \in Request |-> NoJob("idle")]
  /\ missed = {}
  /\ torn   = {}

-----------------------------------------------------------------------------
(* Sockets *)

\* Wrong on purpose: revoke_date is not looked at.  Breaks RoomsMatchRows.
QueryAllChannels(s) ==
  /\ shake[s] = "new"
  /\ shake' = [shake EXCEPT ![s] = "read"]
  /\ seen'  = [seen EXCEPT ![s] =
                 {c \in Channel : chan[c] # 0 /\ row[chan[c]][Owner[s]] # "none"}]
  /\ UNCHANGED <<chan, nextId, row, rooms, bus, req, missed, torn>>

\* clientJoinChannel queries the channels of the user: active rows only.  The
\* connection itself moves nothing here until the query is answered.
QueryChannels(s) ==
  /\ shake[s] = "new"
  /\ shake' = [shake EXCEPT ![s] = "read"]
  /\ seen'  = [seen EXCEPT ![s] = {c \in Channel : Member(c, Owner[s])}]
  /\ UNCHANGED <<chan, nextId, row, rooms, bus, req, missed, torn>>

\* client.join for every channel of the answer, then for the user room.
JoinRooms(s) ==
  /\ shake[s] = "read"
  /\ shake' = [shake EXCEPT ![s] = "joined"]
  /\ rooms' = [rooms EXCEPT ![s] = seen[s]]
  /\ seen'  = [seen EXCEPT ![s] = {}]
  /\ UNCHANGED <<chan, nextId, row, bus, req, missed, torn>>

\* socket.io takes the socket out of its rooms; a later join does nothing.
Disconnect(s) ==
  /\ shake[s] \in {"read", "joined"}
  /\ shake' = [shake EXCEPT ![s] = "gone"]
  /\ seen'  = [seen EXCEPT ![s] = {}]
  /\ rooms' = [rooms EXCEPT ![s] = {}]
  /\ missed' = {m \in missed : m[1] # s}
  /\ UNCHANGED <<chan, nextId, row, bus, req, torn>>

-----------------------------------------------------------------------------
(* Room commands *)

Publish(op, c, to) ==
  bus' = [h \in Server |-> Append(bus[h], [op |-> op, chan |-> c, to |-> to])]

Addressed(h, cmd, at) ==
  {s \in Socket : Home[s] = h /\ Owner[s] \in cmd.to /\ shake[s] = at}

\* The adapter of server h receives the next command and moves the sockets that
\* are in a user room it names.
Deliver(h) ==
  LET cmd   == Head(bus[h])
      moved == Addressed(h, cmd, "joined")
      early == Addressed(h, cmd, "read")
  IN
  /\ bus[h] # <<>>
  /\ bus' = [bus EXCEPT ![h] = Tail(@)]
  /\ rooms' = [s \in Socket |->
       IF s \notin moved THEN rooms[s]
       ELSE IF cmd.op = "join" THEN rooms[s] \cup {cmd.chan}
       ELSE rooms[s] \ {cmd.chan}]
  /\ missed' =
       (missed \ ((moved \cup early) \X {cmd.chan}))
         \cup ({s \in early : (cmd.chan \in seen[s]) # (cmd.op = "join")} \X {cmd.chan})
  /\ UNCHANGED <<chan, nextId, row, shake, seen, req, torn>>

-----------------------------------------------------------------------------
(* Membership requests *)

\* The members request r may still touch or has still to publish.
Touches(r) ==
  IF req[r].kind = "remove" THEN User
  ELSE req[r].todo \cup req[r].ok \cup {l[1] : l \in req[r].loaded}

\* Pairs on which a request that starts now overlaps one that has not ended.
Overlap(c, members) ==
  {c} \X {u \in members : \E q \in Request : c \in req[q].chan /\ u \in Touches(q)}

Begin(r, kind, c, id, members) ==
  /\ req[r].pc = "idle"
  /\ req' = [req EXCEPT ![r] = [NoJob("members") EXCEPT
               !.kind = kind, !.chan = {c}, !.id = id, !.todo = members]]
  /\ torn' = torn \cup Overlap(c, members)
  /\ UNCHANGED <<row, shake, seen, rooms, bus, missed>>

\* createChannel: INSERT, an error when the name is taken, then the members.
CreateChannel(r, c, members) ==
  /\ chan[c] = 0
  /\ nextId <= MaxId
  /\ chan' = [chan EXCEPT ![c] = nextId]
  /\ nextId' = nextId + 1
  /\ Begin(r, "add", c, nextId, members)

\* addChannelMember, deleteChannelMember (deleteMemberByChannelName is the same
\* for one member), revokeChannelMember: not found is an error.
FindChannel(r, kind, c, members) ==
  /\ kind \in {"add", "delete", "revoke"}
  /\ chan[c] # 0
  /\ Begin(r, kind, c, chan[c], members)
  /\ UNCHANGED <<chan, nextId>>

\* deleteChannel looks the name up and keeps the id.
FindForRemoval(r, c) ==
  /\ chan[c] # 0
  /\ Begin(r, "remove", c, chan[c], User)
  /\ UNCHANGED <<chan, nextId>>

\* The loop over the members looks the next one up.  A revoke of somebody who
\* has no row is a memberError.
LoadMember(r, u) ==
  LET found == row[req[r].id][u] IN
  /\ req[r].pc = "members" /\ req[r].kind \in {"add", "revoke"}
  /\ req[r].loaded = {}
  /\ u \in req[r].todo
  /\ req' = [req EXCEPT
       ![r].todo = @ \ {u},
       ![r].loaded = IF req[r].kind = "revoke" /\ found = "none" THEN {}
                     ELSE {<<u, found>>}]
  /\ UNCHANGED <<chan, nextId, row, shake, seen, rooms, bus, missed, torn>>

\* save: an INSERT for a row that was not found, refused by the unique key when
\* one has appeared; otherwise the row gets the status, and comes back if it was
\* deleted in between.
SaveMember(r) ==
  \E u \in User, found \in Status :
    /\ <<u, found>> \in req[r].loaded
    /\ found = "none" => row[req[r].id][u] = "none"
    /\ row' = [row EXCEPT ![req[r].id][u] =
                 IF req[r].kind = "add" THEN "active" ELSE "revoked"]
    /\ req' = [req EXCEPT ![r].loaded = {}, ![r].ok = @ \cup {u}]
    /\ UNCHANGED <<chan, nextId, shake, seen, rooms, bus, missed, torn>>

\* The save fails, on that key or in the database: a memberError.
SaveFails(r) ==
  /\ req[r].loaded # {}
  /\ req' = [req EXCEPT ![r].loaded = {}]
  /\ UNCHANGED <<chan, nextId, row, shake, seen, rooms, bus, missed, torn>>

\* Wrong on purpose: marks the row, where no reader expects it.  Breaks TypeOK.
MarkMember(r, u) ==
  /\ req[r].pc = "members" /\ req[r].kind = "delete"
  /\ u \in req[r].todo
  /\ row' = [row EXCEPT ![req[r].id][u] = "deleted"]
  /\ req' = [req EXCEPT ![r].todo = @ \ {u}, ![r].ok = @ \cup {u}]
  /\ UNCHANGED <<chan, nextId, shake, seen, rooms, bus, missed, torn>>

DeleteMember(r, u) ==
  /\ req[r].pc = "members" /\ req[r].kind = "delete"
  /\ u \in req[r].todo
  /\ row' = [row EXCEPT ![req[r].id][u] = "none"]
  /\ req' = [req EXCEPT ![r].todo = @ \ {u}, ![r].ok = @ \cup {u}]
  /\ UNCHANGED <<chan, nextId, shake, seen, rooms, bus, missed, torn>>

\* Wrong on purpose: forgets the revoked rows.  Breaks NoOrphanRows.
DeleteActiveRows(r) ==
  /\ req[r].pc = "members" /\ req[r].kind = "remove"
  /\ row' = [row EXCEPT ![req[r].id] =
               [u \in User |-> IF @[u] = "active" THEN "none" ELSE @[u]]]
  /\ req' = [req EXCEPT ![r].pc = "channel"]
  /\ UNCHANGED <<chan, nextId, shake, seen, rooms, bus, missed, torn>>

\* deleteChannel: the rows of the id it found, then the channel of that name,
\* whatever its id is by now.
DeleteRows(r) ==
  /\ req[r].pc = "members" /\ req[r].kind = "remove"
  /\ row' = [row EXCEPT ![req[r].id] = [u \in User |-> "none"]]
  /\ req' = [req EXCEPT ![r].pc = "channel"]
  /\ UNCHANGED <<chan, nextId, shake, seen, rooms, bus, missed, torn>>

DeleteName(r) ==
  /\ req[r].pc = "channel"
  /\ chan' = [c \in Channel |-> IF c \in req[r].chan THEN 0 ELSE chan[c]]
  /\ req' = [req EXCEPT ![r].pc = "publish"]
  /\ UNCHANGED <<nextId, row, shake, seen, rooms, bus, missed, torn>>

\* All members are done: their sockets are told one member after the other.
PublishMember(r, u) ==
  /\ req[r].pc = "members" /\ req[r].kind # "remove"
  /\ req[r].todo = {} /\ req[r].loaded = {}
  /\ u \in req[r].ok
  /\ \E c \in req[r].chan :
       Publish(IF req[r].kind = "add" THEN "join" ELSE "leave", c, {u})
  /\ req' = [req EXCEPT ![r].ok = @ \ {u}]
  /\ UNCHANGED <<chan, nextId, row, shake, seen, rooms, missed, torn>>

\* leaveAllFromChannel: every socket of every server.
PublishRemoval(r) ==
  /\ req[r].pc = "publish"
  /\ \E c \in req[r].chan : Publish("leave", c, User)
  /\ req' = [req EXCEPT ![r] = NoJob("done")]
  /\ UNCHANGED <<chan, nextId, row, shake, seen, rooms, missed, torn>>

Return(r) ==
  /\ req[r].pc = "members" /\ req[r].kind # "remove"
  /\ Touches(r) = {}
  /\ req' = [req EXCEPT ![r] = NoJob("done")]
  /\ UNCHANGED <<chan, nextId, row, shake, seen, rooms, bus, missed, torn>>

\* The request dies where it stands: its process does, or deleteChannel's second
\* delete throws.  What it wrote stays, what it had not published is lost.
Abort(r) ==
  /\ req[r].pc \in {"members", "channel", "publish"}
  /\ torn' = torn \cup (req[r].chan \X (IF req[r].kind = "remove" THEN User ELSE req[r].ok))
  /\ req' = [req EXCEPT ![r] = NoJob("done")]
  /\ UNCHANGED <<chan, nextId, row, shake, seen, rooms, bus, missed>>

-----------------------------------------------------------------------------
Next ==
  \/ \E s \in Socket : QueryChannels(s) \/ JoinRooms(s) \/ Disconnect(s)
  \/ \E h \in Server : Deliver(h)
  \/ \E r \in Request, c \in Channel :
       \/ FindForRemoval(r, c)
       \/ \E members \in SUBSET User \ {{}} :
            \/ CreateChannel(r, c, members)
            \/ \E kind \in Kind : FindChannel(r, kind, c, members)
  \/ \E r \in Request :
       \/ \E u \in User : LoadMember(r, u) \/ DeleteMember(r, u) \/ PublishMember(r, u)
       \/ SaveMember(r) \/ SaveFails(r) \/ DeleteRows(r) \/ DeleteName(r)
       \/ PublishRemoval(r) \/ Return(r) \/ Abort(r)

Spec == Init /\ [][Next]_vars

-----------------------------------------------------------------------------
\* No request is at work on the pair, and no command about it is on its way.
Quiet(c, u) ==
  /\ \A r \in Request : c \in req[r].chan => u \notin Touches(r)
  /\ \A h \in Server : \A i \in 1 .. Len(bus[h]) :
       bus[h][i].chan = c => u \notin bus[h][i].to

(***************************************************************************)
(* The rooms of a connected socket agree with the member rows once things  *)
(* are quiet: it is in the room of a channel exactly when its user is an   *)
(* active member.  Membership may change at any moment of the handshake;   *)
(* the one gap is a command that arrives between the query and the joins   *)
(* with a change the query had not returned.                               *)
(***************************************************************************)
RoomsMatchRows ==
  \A s \in Socket, c \in Channel :
    (/\ shake[s] = "joined"
     /\ Quiet(c, Owner[s])
     /\ <<c, Owner[s]>> \notin torn
     /\ <<s, c>> \notin missed)
    => (c \in rooms[s] <=> Member(c, Owner[s]))

(***************************************************************************)
(* A send to a channel reaches the members: the same without the gap, for  *)
(* the members only.  Refuted by a member added during the handshake.      *)
(***************************************************************************)
MembersAreInRoom ==
  \A s \in Socket, c \in Channel :
    (/\ shake[s] = "joined"
     /\ Quiet(c, Owner[s])
     /\ <<c, Owner[s]>> \notin torn
     /\ Member(c, Owner[s]))
    => c \in rooms[s]

(***************************************************************************)
(* deleteChannel deletes the rows by id and the channel by name, and       *)
(* nothing ties a row to its channel in the database: still, no member row *)
(* outlives its channel unless two requests met on it.                     *)
(***************************************************************************)
NoOrphanRows ==
  \A i \in Id, u \in User :
    (/\ \A r \in Request : req[r].pc \in {"idle", "done"}
     /\ torn = {}
     /\ row[i][u] # "none")
    => \E c \in Channel : chan[c] = i

=============================================================================
