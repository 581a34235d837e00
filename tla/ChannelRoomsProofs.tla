------------------------- MODULE ChannelRoomsProofs -------------------------
(***************************************************************************)
(* The properties of ChannelRooms for any channels, users, servers,        *)
(* sockets and requests.                                                   *)
(*                                                                         *)
(* A row is changed first, and the servers are told later; a request that  *)
(* is alone with a member (Apart) and whose channel is still the one it    *)
(* found (StillThere) owes exactly that message (Owed).  Everybody else is *)
(* right already, or will be with the last command under way (Agree).      *)
(***************************************************************************)
EXTENDS ChannelRooms, TLAPS

-----------------------------------------------------------------------------
(* The inductive invariant *)

Working(r) == req[r].pc \in {"members", "channel", "publish"}

\* What a request at work looks like.
JobFits(r) ==
  /\ ~Working(r) => req[r].chan = {} /\ req[r].ok = {} /\ req[r].loaded = {}
  /\ Working(r) => /\ \E c \in Channel : req[r].chan = {c}
                   /\ req[r].id \in 1 .. (nextId - 1)
                   /\ \A c \in Channel : chan[c] = req[r].id => c \in req[r].chan
  /\ req[r].pc \in {"channel", "publish"} => req[r].kind = "remove"
  /\ req[r].kind = "remove" => req[r].ok = {} /\ req[r].loaded = {}

Jobs == \A r \in Request : JobFits(r)

\* Keys are used once, and rows have one that was.
Keys ==
  /\ \A c \in Channel : chan[c] < nextId
  /\ \A c, d \in Channel : chan[c] = chan[d] /\ chan[c] # 0 => c = d
  /\ \A i \in Id, u \in User : i >= nextId => row[i][u] = "none"

\* Two requests that touch the same member are recorded.
Apart ==
  \A q, r \in Request : \A c \in req[q].chan \cap req[r].chan :
    q # r => \A u \in Touches(q) \cap Touches(r) : <<c, u>> \in torn

\* The channel a request works on is the one it found.
StillThere ==
  \A r \in Request : \A c \in req[r].chan : \A u \in Touches(r) :
    req[r].pc # "publish" /\ <<c, u>> \notin torn => chan[c] = req[r].id

\* Between the two deletes of deleteChannel no row comes back.
Cleared ==
  \A r \in Request : \A c \in req[r].chan, u \in User :
    req[r].pc = "channel" /\ <<c, u>> \notin torn => row[req[r].id][u] = "none"

RowsHaveChannel ==
  \A i \in Id, u \in User :
    torn = {} /\ row[i][u] # "none" => \E c \in Channel : chan[c] = i

\* r has changed the row of u, and has not told the servers.
Untold(r, u) ==
  IF req[r].kind = "remove" THEN req[r].pc \in {"channel", "publish"}
  ELSE u \in req[r].ok

\* What r will tell is true.
Owed ==
  \A r \in Request : \A c \in req[r].chan, u \in User :
    Untold(r, u) /\ <<c, u>> \notin torn => (Member(c, u) <=> req[r].kind = "add")

\* The last command for c and u that is on its way to server h.
Names(cmd, c, u) == cmd.chan = c /\ u \in cmd.to

Last(h, i, c, u) ==
  /\ i \in 1 .. Len(bus[h])
  /\ Names(bus[h][i], c, u)
  /\ \A j \in 1 .. Len(bus[h]) : j > i => ~Names(bus[h][j], c, u)

NoneFor(h, c, u) == \A i \in 1 .. Len(bus[h]) : ~Names(bus[h][i], c, u)

\* The rooms of a socket, or the ones it is about to join.
Held(s) == IF shake[s] = "read" THEN seen[s] ELSE rooms[s]

Told(c, u) ==
  /\ <<c, u>> \notin torn
  /\ \A r \in Request : c \in req[r].chan => ~Untold(r, u)

Agree ==
  \A c \in Channel, u \in User : Told(c, u) =>
    /\ \A h \in Server : \A i \in 1 .. Len(bus[h]) :
         Last(h, i, c, u) => (bus[h][i].op = "join" <=> Member(c, u))
    /\ \A s \in Socket :
         /\ Owner[s] = u
         /\ shake[s] \in {"read", "joined"}
         /\ NoneFor(Home[s], c, u)
         /\ <<s, c>> \notin missed
         => (c \in Held(s) <=> Member(c, u))

IInv ==
  /\ TypeOK
  /\ Jobs
  /\ Keys
  /\ Apart
  /\ StillThere
  /\ Cleared
  /\ RowsHaveChannel
  /\ Owed
  /\ Agree

-----------------------------------------------------------------------------
(* Types *)

\* What the steps of a request do to its record.
LEMMA BeginEffect ==
  ASSUME TypeOK, NEW r \in Request, NEW kind \in Kind, NEW c \in Channel,
         NEW id \in 0 .. MaxId, NEW members \in SUBSET User,
         Begin(r, kind, c, id, members)
  PROVE  /\ (req \in [Request -> Job])'
         /\ (torn \in SUBSET (Channel \X User))'
         /\ \A q \in Request \ {r} : req'[q] = req[q]
         /\ req'[r].pc = "members" /\ req'[r].kind = kind
         /\ req'[r].chan = {c} /\ req'[r].id = id
         /\ req'[r].todo = members /\ req'[r].loaded = {} /\ req'[r].ok = {}
<1> DEFINE job == [NoJob("members") EXCEPT
                    !.kind = kind, !.chan = {c}, !.id = id, !.todo = members]
<1>1. NoJob("members") \in Job
  BY MaxIdAssumption DEF NoJob, Job, Kind
<1>2. job \in Job
  BY <1>1 DEF Job
<1>3. /\ job.pc = "members" /\ job.kind = kind /\ job.chan = {c} /\ job.id = id
      /\ job.todo = members /\ job.loaded = {} /\ job.ok = {}
  BY DEF NoJob
<1>4. req' = [req EXCEPT ![r] = job]
  BY DEF Begin
<1> HIDE DEF job
<1>5. torn' \subseteq Channel \X User
  BY DEF TypeOK, Begin, Overlap
<1> QED
  BY <1>2, <1>3, <1>4, <1>5 DEF TypeOK

LEMMA DoneEffect ==
  ASSUME TypeOK, NEW r \in Request, req' = [req EXCEPT ![r] = NoJob("done")]
  PROVE  /\ (req \in [Request -> Job])'
         /\ \A q \in Request \ {r} : req'[q] = req[q]
         /\ req'[r].pc = "done" /\ req'[r].kind = "none" /\ req'[r].chan = {}
         /\ req'[r].todo = {} /\ req'[r].loaded = {} /\ req'[r].ok = {}
<1>1. NoJob("done") \in Job
  BY MaxIdAssumption DEF NoJob, Job, Kind
<1> QED
  BY <1>1 DEF TypeOK, NoJob

LEMMA LoadEffect ==
  ASSUME TypeOK, NEW r \in Request, NEW u \in User, LoadMember(r, u),
         row[req[r].id][u] \in Status
  PROVE  /\ (req \in [Request -> Job])'
         /\ \A q \in Request \ {r} : req'[q] = req[q]
         /\ req'[r].pc = "members" /\ req'[r].kind = req[r].kind
         /\ req'[r].chan = req[r].chan /\ req'[r].id = req[r].id
         /\ req'[r].ok = req[r].ok /\ req'[r].todo = req[r].todo \ {u}
         /\ req'[r].loaded \subseteq {<<u, row[req[r].id][u]>>}
<1> DEFINE found == row[req[r].id][u]
           new == IF req[r].kind = "revoke" /\ found = "none" THEN {} ELSE {<<u, found>>}
<1>1. req \in [Request -> Job]
  BY DEF TypeOK
<1>2. req' = [req EXCEPT ![r] = [req[r] EXCEPT !.todo = @ \ {u}, !.loaded = new]]
  BY <1>1 DEF LoadMember
<1>3. new \in SUBSET (User \X Status) /\ new \subseteq {<<u, found>>}
  OBVIOUS
<1>4. req[r].pc = "members"
  BY DEF LoadMember
<1> HIDE DEF new, found
<1>5. req' \in [Request -> Job]
  BY <1>1, <1>2, <1>3 DEF Job
<1> QED
  BY <1>1, <1>2, <1>3, <1>4, <1>5 DEF found, Job

LEMMA DeleteEffect ==
  ASSUME TypeOK, NEW r \in Request, NEW u \in User, DeleteMember(r, u)
  PROVE  /\ (req \in [Request -> Job])'
         /\ \A q \in Request \ {r} : req'[q] = req[q]
         /\ req'[r].pc = "members" /\ req'[r].kind = "delete" /\ req[r].kind = "delete"
         /\ req'[r].chan = req[r].chan /\ req'[r].id = req[r].id
         /\ req'[r].ok = req[r].ok \cup {u} /\ req'[r].todo = req[r].todo \ {u}
         /\ req'[r].loaded = req[r].loaded /\ u \in req[r].todo
<1>1. req \in [Request -> Job]
  BY DEF TypeOK
<1>2. req' = [req EXCEPT ![r] = [req[r] EXCEPT !.todo = @ \ {u}, !.ok = @ \cup {u}]]
  BY <1>1 DEF DeleteMember
<1>3. req[r].pc = "members" /\ req[r].kind = "delete" /\ u \in req[r].todo
  BY DEF DeleteMember
<1>4. req' \in [Request -> Job]
  BY <1>1, <1>2 DEF Job
<1> QED
  BY <1>1, <1>2, <1>3, <1>4 DEF Job

LEMMA SaveEffect ==
  ASSUME TypeOK, NEW r \in Request, NEW u \in User,
         req' = [req EXCEPT ![r].loaded = {}, ![r].ok = @ \cup {u}]
  PROVE  /\ (req \in [Request -> Job])'
         /\ \A q \in Request \ {r} : req'[q] = req[q]
         /\ req'[r].pc = req[r].pc /\ req'[r].kind = req[r].kind
         /\ req'[r].chan = req[r].chan /\ req'[r].id = req[r].id
         /\ req'[r].ok = req[r].ok \cup {u} /\ req'[r].todo = req[r].todo
         /\ req'[r].loaded = {}
<1>1. req \in [Request -> Job]
  BY DEF TypeOK
<1>2. req' = [req EXCEPT ![r] = [req[r] EXCEPT !.loaded = {}, !.ok = @ \cup {u}]]
  BY <1>1
<1>3. req' \in [Request -> Job]
  BY <1>1, <1>2 DEF Job
<1> QED
  BY <1>1, <1>2, <1>3 DEF Job

LEMMA SaveFailsEffect ==
  ASSUME TypeOK, NEW r \in Request, SaveFails(r)
  PROVE  /\ (req \in [Request -> Job])'
         /\ \A q \in Request \ {r} : req'[q] = req[q]
         /\ req'[r].pc = req[r].pc /\ req'[r].kind = req[r].kind
         /\ req'[r].chan = req[r].chan /\ req'[r].id = req[r].id
         /\ req'[r].ok = req[r].ok /\ req'[r].todo = req[r].todo
         /\ req'[r].loaded = {}
<1>1. req \in [Request -> Job]
  BY DEF TypeOK
<1>2. req' = [req EXCEPT ![r] = [req[r] EXCEPT !.loaded = {}]]
  BY <1>1 DEF SaveFails
<1>3. req' \in [Request -> Job]
  BY <1>1, <1>2 DEF Job
<1> QED
  BY <1>1, <1>2, <1>3 DEF Job

\* The steps of deleteChannel.
LEMMA PcEffect ==
  ASSUME TypeOK, NEW r \in Request, NEW pc \in {"channel", "publish"},
         req' = [req EXCEPT ![r].pc = pc]
  PROVE  /\ (req \in [Request -> Job])'
         /\ \A q \in Request \ {r} : req'[q] = req[q]
         /\ req'[r].pc = pc /\ req'[r].kind = req[r].kind
         /\ req'[r].chan = req[r].chan /\ req'[r].id = req[r].id
         /\ req'[r].ok = req[r].ok /\ req'[r].todo = req[r].todo
         /\ req'[r].loaded = req[r].loaded
<1>1. req \in [Request -> Job]
  BY DEF TypeOK
<1>2. req' = [req EXCEPT ![r] = [req[r] EXCEPT !.pc = pc]]
  BY <1>1
<1>3. req' \in [Request -> Job]
  BY <1>1, <1>2 DEF Job
<1> QED
  BY <1>1, <1>2, <1>3 DEF Job

LEMMA TellEffect ==
  ASSUME TypeOK, NEW r \in Request, NEW u \in User, PublishMember(r, u)
  PROVE  /\ (req \in [Request -> Job])'
         /\ \A q \in Request \ {r} : req'[q] = req[q]
         /\ req'[r].pc = "members" /\ req'[r].kind = req[r].kind
         /\ req'[r].chan = req[r].chan /\ req'[r].id = req[r].id
         /\ req'[r].ok = req[r].ok \ {u} /\ req'[r].todo = req[r].todo
         /\ req'[r].loaded = req[r].loaded
<1>1. req \in [Request -> Job]
  BY DEF TypeOK
<1>2. req' = [req EXCEPT ![r] = [req[r] EXCEPT !.ok = @ \ {u}]]
  BY <1>1 DEF PublishMember
<1>3. req[r].pc = "members"
  BY DEF PublishMember
<1>4. req' \in [Request -> Job]
  BY <1>1, <1>2 DEF Job
<1> QED
  BY <1>1, <1>2, <1>3, <1>4 DEF Job

LEMMA PublishTypes ==
  ASSUME bus \in [Server -> Seq(Command)], NEW op \in {"join", "leave"},
         NEW c \in Channel, NEW to \in SUBSET User, Publish(op, c, to)
  PROVE  (bus \in [Server -> Seq(Command)])'
<1> DEFINE cmd == [op |-> op, chan |-> c, to |-> to]
<1>1. cmd \in Command
  BY DEF Command
<1>2. bus' = [h \in Server |-> Append(bus[h], cmd)]
  BY DEF Publish
<1> HIDE DEF cmd
<1> QED
  BY <1>1, <1>2

\* A request at work holds the key of a row.
LEMMA JobIds ==
  ASSUME TypeOK, Jobs, NEW r \in Request, Working(r)
  PROVE  req[r].id \in Id /\ req[r].id < nextId
<1>1. nextId \in 1 .. MaxId + 1 /\ req[r].id \in 1 .. (nextId - 1)
  BY DEF TypeOK, Jobs, JobFits
<1> QED
  BY <1>1, MaxIdAssumption DEF Id

LEMMA TypeStep == TypeOK /\ Jobs /\ [Next]_vars => TypeOK'
<1> SUFFICES ASSUME TypeOK, Jobs, [Next]_vars PROVE TypeOK'
  OBVIOUS
<1> USE OwnerAssumption, HomeAssumption, MaxIdAssumption DEF TypeOK
<1>1. ASSUME NEW s \in Socket, QueryChannels(s) PROVE TypeOK'
  BY <1>1 DEF QueryChannels
<1>2. ASSUME NEW s \in Socket, JoinRooms(s) PROVE TypeOK'
  BY <1>2 DEF JoinRooms
<1>3. ASSUME NEW s \in Socket, Disconnect(s) PROVE TypeOK'
  BY <1>3 DEF Disconnect
<1>4. ASSUME NEW h \in Server, Deliver(h) PROVE TypeOK'
  <2>1. Head(bus[h]) \in Command /\ Tail(bus[h]) \in Seq(Command)
    BY <1>4 DEF Deliver
  <2>2. Head(bus[h]).chan \in Channel
    BY <2>1 DEF Command
  <2>3. (rooms \in [Socket -> SUBSET Channel])'
    BY <1>4, <2>2 DEF Deliver
  <2>4. (missed \in SUBSET (Socket \X Channel))'
    BY <1>4, <2>2 DEF Deliver, Addressed
  <2>5. (bus \in [Server -> Seq(Command)])'
    BY <1>4, <2>1 DEF Deliver
  <2> QED
    BY <1>4, <2>3, <2>4, <2>5 DEF Deliver
<1>5. ASSUME NEW r \in Request, NEW c \in Channel, FindForRemoval(r, c) PROVE TypeOK'
  <2>1. Begin(r, "remove", c, chan[c], User)
    BY <1>5 DEF FindForRemoval
  <2>2. "remove" \in Kind
    BY DEF Kind
  <2> QED
    <3>1. (req \in [Request -> Job])' /\ (torn \in SUBSET (Channel \X User))'
      BY <2>1, <2>2, BeginEffect
    <3> QED
      BY <1>5, <2>1, <3>1 DEF FindForRemoval, Begin
<1>6. ASSUME NEW r \in Request, NEW c \in Channel, NEW members \in SUBSET User,
             CreateChannel(r, c, members) PROVE TypeOK'
  <2>1. Begin(r, "add", c, nextId, members) /\ nextId \in 1 .. MaxId
    BY <1>6 DEF CreateChannel
  <2>2. "add" \in Kind
    BY DEF Kind
  <2>3. (req \in [Request -> Job])' /\ (torn \in SUBSET (Channel \X User))'
    BY <2>1, <2>2, BeginEffect
  <2> QED
    BY <1>6, <2>1, <2>3 DEF CreateChannel, Begin
<1>7. ASSUME NEW r \in Request, NEW kind \in Kind, NEW c \in Channel,
             NEW members \in SUBSET User, FindChannel(r, kind, c, members)
      PROVE  TypeOK'
  <2>1. Begin(r, kind, c, chan[c], members)
    BY <1>7 DEF FindChannel
  <2>2. (req \in [Request -> Job])' /\ (torn \in SUBSET (Channel \X User))'
    BY <2>1, BeginEffect
  <2> QED
    BY <1>7, <2>1, <2>2 DEF FindChannel, Begin
<1>8. ASSUME NEW r \in Request, NEW u \in User, LoadMember(r, u) PROVE TypeOK'
  <2>1. row[req[r].id][u] \in Status
    <3>1. req[r].id \in Id
      BY <1>8, JobIds DEF LoadMember, Working
    <3> QED
      BY <3>1
  <2>2. (req \in [Request -> Job])'
    BY <1>8, <2>1, LoadEffect
  <2> QED
    BY <1>8, <2>2 DEF LoadMember
<1>9. ASSUME NEW r \in Request, NEW u \in User, DeleteMember(r, u) PROVE TypeOK'
  <2>1. (req \in [Request -> Job])'
    BY <1>9, DeleteEffect
  <2> QED
    BY <1>9, <2>1 DEF DeleteMember, Status
<1>10. ASSUME NEW r \in Request, NEW u \in User, PublishMember(r, u) PROVE TypeOK'
  <2>1. (req \in [Request -> Job])'
    BY <1>10, TellEffect
  <2>2. PICK c \in Channel :
          Publish(IF req[r].kind = "add" THEN "join" ELSE "leave", c, {u})
    BY <1>10 DEF PublishMember, Job
  <2>3. (bus \in [Server -> Seq(Command)])'
    BY <2>2, PublishTypes
  <2> QED
    BY <1>10, <2>1, <2>3 DEF PublishMember
<1>11. ASSUME NEW r \in Request, SaveMember(r) PROVE TypeOK'
  <2>1. (req \in [Request -> Job])'
    BY <1>11, SaveEffect DEF SaveMember
  <2>2. (row \in [Id -> [User -> Status]])'
    <3>1. PICK u \in User, status \in Status : row' = [row EXCEPT ![req[r].id][u] = status]
      BY <1>11 DEF SaveMember, Status
    <3> QED
      BY <3>1
  <2> QED
    BY <1>11, <2>1, <2>2 DEF SaveMember
<1>12. ASSUME NEW r \in Request, SaveFails(r) PROVE TypeOK'
  <2>1. (req \in [Request -> Job])'
    BY <1>12, SaveFailsEffect
  <2> QED
    BY <1>12, <2>1 DEF SaveFails
<1>13. ASSUME NEW r \in Request, DeleteRows(r) PROVE TypeOK'
  <2>1. (req \in [Request -> Job])'
    BY <1>13, PcEffect DEF DeleteRows
  <2> QED
    BY <1>13, <2>1 DEF DeleteRows, Status
<1>14. ASSUME NEW r \in Request, DeleteName(r) PROVE TypeOK'
  <2>1. (req \in [Request -> Job])'
    BY <1>14, PcEffect DEF DeleteName
  <2> QED
    BY <1>14, <2>1 DEF DeleteName
<1>15. ASSUME NEW r \in Request, PublishRemoval(r) PROVE TypeOK'
  <2>1. (req \in [Request -> Job])'
    BY <1>15, DoneEffect DEF PublishRemoval
  <2>2. PICK c \in Channel : Publish("leave", c, User)
    BY <1>15 DEF PublishRemoval, Job
  <2>3. (bus \in [Server -> Seq(Command)])'
    BY <2>2, PublishTypes
  <2> QED
    BY <1>15, <2>1, <2>3 DEF PublishRemoval
<1>16. ASSUME NEW r \in Request, Return(r) PROVE TypeOK'
  BY <1>16, DoneEffect DEF Return
<1>17. ASSUME NEW r \in Request, Abort(r) PROVE TypeOK'
  <2>1. req[r] \in Job
    OBVIOUS
  <2>2. (torn \in SUBSET (Channel \X User))'
    BY <1>17, <2>1 DEF Abort, Job
  <2> QED
    BY <1>17, <2>2, DoneEffect DEF Abort
<1>18. CASE UNCHANGED vars
  BY <1>18 DEF vars
<1> QED
  BY <1>1, <1>2, <1>3, <1>4, <1>5, <1>6, <1>7, <1>8, <1>9, <1>10, <1>11,
     <1>12, <1>13, <1>14, <1>15, <1>16, <1>17, <1>18 DEF Next

-----------------------------------------------------------------------------
(* Everything but Agree *)

Shape ==
  /\ Jobs
  /\ Keys
  /\ Apart
  /\ StillThere
  /\ Cleared
  /\ RowsHaveChannel
  /\ Owed

LEMMA UntoldTouches ==
  ASSUME TypeOK, NEW r \in Request, NEW u \in User, Untold(r, u)
  PROVE  u \in Touches(r)
  BY DEF Untold, Touches

\* Only what r says of itself changes.
LEMMA OthersSame ==
  ASSUME NEW q, req'[q] = req[q]
  PROVE  /\ Touches(q)' = Touches(q)
         /\ Working(q)' <=> Working(q)
         /\ \A u : Untold(q, u)' <=> Untold(q, u)
  BY DEF Touches, Working, Untold

\* A request that goes on with the same channel, or ends, touches nobody new.
LEMMA ApartStep ==
  ASSUME Apart, NEW r \in Request, \A q \in Request \ {r} : req'[q] = req[q],
         req'[r].chan = {} \/ (req'[r].chan = req[r].chan /\ Touches(r)' \subseteq Touches(r)),
         torn \subseteq torn'
  PROVE  Apart'
<1> SUFFICES ASSUME NEW p \in Request, NEW q \in Request, p # q,
                    NEW c \in req'[p].chan \cap req'[q].chan,
                    NEW u \in Touches(p)' \cap Touches(q)'
             PROVE  <<c, u>> \in torn
  BY DEF Apart
<1>1. \A o \in Request : c \in req'[o].chan => c \in req[o].chan /\ Touches(o)' \subseteq Touches(o)
  BY OthersSame
<1> QED
  BY <1>1 DEF Apart

\* r, which holds the row of its members, changes those of V, or nothing.
LEMMA RowStep ==
  ASSUME TypeOK, TypeOK', Shape, NEW r \in Request, NEW V \in SUBSET User,
         Working(r), V # {} => req[r].pc = "members",
         \A q \in Request \ {r} : req'[q] = req[q],
         UNCHANGED <<chan, nextId>>, torn \subseteq torn',
         V \subseteq Touches(r),
         \A i \in Id, u \in User : row'[i][u] # row[i][u] => i = req[r].id /\ u \in V,
         \A u \in V : row'[req[r].id][u] = "active" <=> req[r].kind = "add",
         \/ /\ ~Working(r)' /\ V = {}
            /\ req'[r].chan = {} /\ req'[r].ok = {} /\ req'[r].loaded = {}
            /\ req'[r].kind # "remove"
         \/ /\ req'[r].chan = req[r].chan /\ req'[r].id = req[r].id
            /\ req'[r].kind = req[r].kind
            /\ Touches(r)' \subseteq Touches(r)
            /\ \A u \in User : Untold(r, u)' => Untold(r, u) \/ u \in V
            /\ req[r].kind = "remove" => req'[r].ok = {} /\ req'[r].loaded = {}
            /\ \/ req'[r].pc = "members" /\ req[r].pc = "members"
               \/ /\ req'[r].pc = "channel" /\ req[r].kind = "remove"
                  /\ req[r].pc = "members"
                  /\ \A u \in User : row'[req[r].id][u] = "none"
  PROVE  Shape'
<1>1. Jobs'
  <2> SUFFICES ASSUME NEW q \in Request PROVE JobFits(q)'
    BY DEF Jobs
  <2>1. CASE q # r
    BY <2>1, OthersSame DEF Shape, Jobs, JobFits
  <2>2. CASE q = r
    BY <2>2 DEF Shape, Jobs, JobFits, Working
  <2> QED
    BY <2>1, <2>2
<1>2. Keys'
  <2>1. req[r].id \in Id /\ req[r].id < nextId
    BY JobIds DEF Shape
  <2>2. nextId \in Nat
    BY MaxIdAssumption DEF TypeOK
  <2>3. ASSUME NEW i \in Id, NEW u \in User, i >= nextId PROVE row'[i][u] = "none"
    BY <2>1, <2>2, <2>3, MaxIdAssumption DEF Shape, Keys, Id
  <2> QED
    BY <2>3 DEF Shape, Keys
<1>3. Apart'
  <2>1. CASE req'[r].chan = {}
    BY <2>1, ApartStep DEF Shape
  <2>2. CASE req'[r].chan # {}
    <3>1. req'[r].chan = req[r].chan /\ Touches(r)' \subseteq Touches(r)
      BY <2>2
    <3> QED
      BY <3>1, ApartStep DEF Shape
  <2> QED
    BY <2>1, <2>2
<1>4. StillThere'
  <2> SUFFICES ASSUME NEW q \in Request, NEW c \in req'[q].chan, NEW u \in Touches(q)',
                      req'[q].pc # "publish", <<c, u>> \notin torn'
               PROVE  chan[c] = req'[q].id
    BY DEF StillThere
  <2>1. CASE q # r
    BY <2>1, OthersSame DEF Shape, StillThere
  <2>2. CASE q = r
    BY <2>2 DEF Shape, StillThere
  <2> QED
    BY <2>1, <2>2
\* Who touches a member of V besides r is recorded.
<1>5. ASSUME NEW q \in Request \ {r}, NEW c \in req[q].chan, NEW u \in V,
             u \in Touches(q), c \in req[r].chan
      PROVE  <<c, u>> \in torn
  BY <1>5 DEF Shape, Apart
<1>6. \A c \in Channel : chan[c] = req[r].id => c \in req[r].chan
  BY DEF Shape, Jobs, JobFits
<1>7. Cleared'
  <2> SUFFICES ASSUME NEW q \in Request, NEW c \in req'[q].chan, NEW u \in User,
                      req'[q].pc = "channel", <<c, u>> \notin torn'
               PROVE  row'[req'[q].id][u] = "none"
    BY DEF Cleared
  <2>1. CASE q = r
    BY <2>1 DEF Working
  <2>2. CASE q # r
    <3>1. /\ req[q].pc = "channel" /\ req[q].kind = "remove" /\ c \in req[q].chan
          /\ c \in Channel /\ req'[q] = req[q]
      BY <2>2 DEF Shape, Jobs, JobFits, TypeOK, Job
    <3>2. u \in Touches(q) /\ Working(q)
      BY <3>1 DEF Touches, Working
    <3>3. chan[c] = req[q].id /\ row[req[q].id][u] = "none"
      BY <3>1, <3>2 DEF Shape, StillThere, Cleared
    <3>4. CASE u \in V /\ req[q].id = req[r].id
      BY <1>5, <1>6, <2>2, <3>1, <3>2, <3>3, <3>4
    <3>5. CASE ~(u \in V /\ req[q].id = req[r].id)
      <4>1. req[q].id \in Id
        BY <3>2, JobIds DEF Shape
      <4> QED
        BY <3>1, <3>3, <3>5, <4>1
    <3> QED
      BY <3>4, <3>5
  <2> QED
    BY <2>1, <2>2
<1>8. PICK c0 \in Channel : req[r].chan = {c0}
  BY DEF Shape, Jobs, JobFits
<1>9. \A u \in V : <<c0, u>> \notin torn => chan[c0] = req[r].id
  BY <1>8 DEF Shape, StillThere
<1>10. RowsHaveChannel'
  <2> SUFFICES ASSUME NEW i \in Id, NEW u \in User, torn' = {}, row'[i][u] # "none"
               PROVE  \E c \in Channel : chan[c] = i
    BY DEF RowsHaveChannel
  <2>1. torn = {}
    OBVIOUS
  <2>2. CASE row'[i][u] = row[i][u]
    BY <2>1, <2>2 DEF Shape, RowsHaveChannel
  <2>3. CASE row'[i][u] # row[i][u]
    BY <1>9, <2>1, <2>3
  <2> QED
    BY <2>2, <2>3
<1>11. ASSUME NEW c \in Channel, NEW u \in User, ~(c = c0 /\ u \in V)
       PROVE  Member(c, u)' <=> Member(c, u)
  <2>1. CASE chan[c] = 0
    BY <2>1 DEF Member
  <2>2. CASE chan[c] # 0
    <3>1. chan[c] \in Id
      BY <2>2, MaxIdAssumption DEF TypeOK, Id
    <3>2. row'[chan[c]][u] = row[chan[c]][u]
      BY <1>6, <1>8, <1>11, <3>1
    <3> QED
      BY <3>2 DEF Member
  <2> QED
    BY <2>1, <2>2
<1>12. Owed'
  <2> SUFFICES ASSUME NEW q \in Request, NEW c \in req'[q].chan, NEW u \in User,
                      Untold(q, u)', <<c, u>> \notin torn'
               PROVE  Member(c, u)' <=> req'[q].kind = "add"
    BY DEF Owed
  <2>1. c \in Channel /\ <<c, u>> \notin torn
    BY DEF TypeOK, Job
  <2>2. CASE q # r
    <3>1. c \in req[q].chan /\ Untold(q, u) /\ req'[q].kind = req[q].kind
      BY <2>2, OthersSame
    <3>2. Member(c, u) <=> req[q].kind = "add"
      BY <2>1, <3>1 DEF Shape, Owed
    <3>3. ~(c = c0 /\ u \in V)
      BY <1>5, <1>8, <2>1, <2>2, <3>1, UntoldTouches
    <3> QED
      BY <1>11, <2>1, <3>1, <3>2, <3>3
  <2>3. CASE q = r
    <3>1. /\ req'[r].chan = req[r].chan /\ req'[r].kind = req[r].kind
          /\ Untold(r, u) \/ u \in V
      BY <2>3
    <3>2. c = c0
      BY <1>8, <2>3, <3>1
    <3>3. CASE u \in V
      <4>1. chan[c] = req[r].id /\ req[r].id # 0
        BY <1>9, <2>1, <3>2, <3>3, JobIds, MaxIdAssumption DEF Shape, Id
      <4> QED
        BY <2>3, <3>1, <3>3, <4>1 DEF Member
    <3>4. CASE u \notin V
      BY <1>8, <1>11, <2>1, <2>3, <3>1, <3>2, <3>4 DEF Shape, Owed
    <3> QED
      BY <3>3, <3>4
  <2> QED
    BY <2>2, <2>3
<1> QED
  BY <1>1, <1>2, <1>3, <1>4, <1>7, <1>10, <1>12 DEF Shape

\* r goes on without a change to the tables.
LEMMA NoRowStep ==
  ASSUME TypeOK, TypeOK', Shape, NEW r \in Request, Working(r), req[r].pc = "members",
         \A q \in Request \ {r} : req'[q] = req[q],
         UNCHANGED <<chan, nextId, row, torn>>,
         req'[r].pc = "members", req'[r].chan = req[r].chan, req'[r].id = req[r].id,
         req'[r].kind = req[r].kind, req[r].kind # "remove",
         Touches(r)' \subseteq Touches(r),
         \A u \in User : Untold(r, u)' => Untold(r, u)
  PROVE  Shape'
<1> DEFINE V == {}
<1>1. /\ V \in SUBSET User /\ V = {} /\ V \subseteq Touches(r)
      /\ \A i \in Id, u \in User : row'[i][u] # row[i][u] => i = req[r].id /\ u \in V
      /\ \A u \in V : row'[req[r].id][u] = "active" <=> req[r].kind = "add"
  OBVIOUS
<1> HIDE DEF V
<1> QED
  BY <1>1, RowStep

\* A request starts on channel c, which it found with the key id or has just created.
LEMMA BeginStep ==
  ASSUME TypeOK, TypeOK', Shape, NEW r \in Request, NEW kind \in Kind, NEW c \in Channel,
         NEW id \in 1 .. MaxId, NEW members \in SUBSET User,
         Begin(r, kind, c, id, members), kind = "remove" => members = User,
         \/ chan[c] = id /\ UNCHANGED <<chan, nextId>>
         \/ /\ chan[c] = 0 /\ id = nextId
            /\ chan' = [chan EXCEPT ![c] = nextId]
            /\ nextId' = nextId + 1
  PROVE  /\ Shape'
         /\ \A d \in Channel, u \in User :
              /\ Told(d, u)' => Told(d, u)
              /\ Member(d, u)' <=> Member(d, u)
<1>1. /\ \A q \in Request \ {r} : req'[q] = req[q]
      /\ req'[r].pc = "members" /\ req'[r].kind = kind
      /\ req'[r].chan = {c} /\ req'[r].id = id
      /\ req'[r].todo = members /\ req'[r].loaded = {} /\ req'[r].ok = {}
  <2>1. id \in 0 .. MaxId
    BY MaxIdAssumption
  <2> QED
    BY <2>1, BeginEffect
<1>2. /\ req[r].chan = {} /\ ~Working(r)
      /\ torn' = torn \cup Overlap(c, members) /\ row' = row
  BY DEF Begin, Shape, Jobs, JobFits, Working
<1>3. /\ chan \in [Channel -> 0 .. MaxId] /\ chan' \in [Channel -> 0 .. MaxId]
      /\ nextId \in Nat /\ nextId' \in Nat /\ nextId <= nextId'
      /\ chan'[c] = id /\ id < nextId'
      /\ \A d \in Channel \ {c} : chan'[d] = chan[d]
      /\ chan[c] = id \/ (chan[c] = 0 /\ id = nextId)
  <2>1. /\ chan \in [Channel -> 0 .. MaxId] /\ chan' \in [Channel -> 0 .. MaxId]
        /\ nextId \in Nat /\ nextId' \in Nat
    BY MaxIdAssumption DEF TypeOK
  <2>2. chan[c] < nextId
    BY DEF Shape, Keys
  <2>3. CASE chan[c] = id /\ UNCHANGED <<chan, nextId>>
    <3>1. chan' = chan /\ nextId' = nextId /\ id < nextId
      BY <2>2, <2>3
    <3> QED
      BY <2>1, <2>3, <3>1
  <2>4. CASE /\ chan[c] = 0 /\ id = nextId
             /\ chan' = [chan EXCEPT ![c] = nextId]
             /\ nextId' = nextId + 1
    BY <2>1, <2>4
  <2> QED
    BY <2>1, <2>3, <2>4
<1>4. Keys'
  <2>1. \A d \in Channel : chan[d] < nextId /\ chan[d] \in Nat
    BY <1>3, MaxIdAssumption DEF Shape, Keys
  <2>2. \A d \in Channel : chan'[d] < nextId'
    BY <1>3, <2>1
  <2>3. \A d, e \in Channel : chan'[d] = chan'[e] /\ chan'[d] # 0 => d = e
    BY <1>3, <2>1 DEF Shape, Keys
  <2>4. \A i \in Id, u \in User : i >= nextId' => row'[i][u] = "none"
    BY <1>2, <1>3, MaxIdAssumption DEF Shape, Keys, Id
  <2> QED
    BY <2>2, <2>3, <2>4 DEF Keys
<1>5. Jobs'
  <2> SUFFICES ASSUME NEW q \in Request PROVE JobFits(q)'
    BY DEF Jobs
  <2>1. CASE q = r
    <3>1. \A d \in Channel : chan'[d] = id => d = c
      BY <1>3, <1>4, MaxIdAssumption DEF Keys
    <3>2. id \in 1 .. (nextId' - 1)
      <4>1. \A n \in Nat : id < n => id \in 1 .. (n - 1)
        BY MaxIdAssumption
      <4>2. nextId' \in Nat /\ id < nextId'
        BY <1>3
      <4> QED
        BY <4>1, <4>2, Zenon
    <3> QED
      BY <1>1, <2>1, <3>1, <3>2 DEF JobFits, Working
  <2>2. CASE q # r
    <3>1. req'[q] = req[q] /\ (Working(q)' <=> Working(q))
      BY <1>1, <2>2, OthersSame
    <3>2. ASSUME Working(q)
          PROVE  /\ req[q].id \in 1 .. (nextId' - 1)
                 /\ \A d \in Channel : chan'[d] = req[q].id => d \in req[q].chan
      <4>1. req[q].id \in 1 .. (nextId - 1)
        BY <3>2 DEF Shape, Jobs, JobFits
      <4> QED
        BY <1>3, <3>2, <4>1 DEF Shape, Jobs, JobFits
    <3> QED
      BY <3>1, <3>2 DEF Shape, Jobs, JobFits
  <2> QED
    BY <2>1, <2>2
<1>6. Touches(r)' = members
  BY <1>1 DEF Touches
<1>7. Apart'
  <2>1. ASSUME NEW q \in Request, q # r, c \in req'[q].chan,
               NEW u \in Touches(q)' \cap members
        PROVE  <<c, u>> \in torn'
    <3>1. c \in req[q].chan /\ u \in Touches(q)
      BY <1>1, <2>1, OthersSame
    <3> QED
      BY <1>2, <3>1 DEF Overlap
  <2> SUFFICES ASSUME NEW p \in Request, NEW q \in Request, p # q,
                      NEW d \in req'[p].chan \cap req'[q].chan,
                      NEW u \in Touches(p)' \cap Touches(q)'
               PROVE  <<d, u>> \in torn'
    BY DEF Apart
  <2>2. CASE p # r /\ q # r
    BY <1>1, <1>2, <2>2, OthersSame DEF Shape, Apart
  <2>3. CASE p = r
    BY <1>1, <1>6, <2>1, <2>3
  <2>4. CASE q = r
    BY <1>1, <1>6, <2>1, <2>4
  <2> QED
    BY <2>2, <2>3, <2>4
<1>8. StillThere'
  <2> SUFFICES ASSUME NEW q \in Request, NEW d \in req'[q].chan, NEW u \in Touches(q)',
                      req'[q].pc # "publish", <<d, u>> \notin torn'
               PROVE  chan'[d] = req'[q].id
    BY DEF StillThere
  <2>1. CASE q = r
    BY <1>1, <1>3, <2>1
  <2>2. CASE q # r
    <3>1. /\ req'[q] = req[q] /\ d \in req[q].chan /\ u \in Touches(q)
          /\ <<d, u>> \notin torn /\ d \in Channel /\ Working(q)
      BY <1>1, <1>2, <2>2, OthersSame DEF Shape, Jobs, JobFits, TypeOK, Job
    <3>2. chan[d] = req[q].id
      BY <3>1 DEF Shape, StillThere
    <3>3. req[q].id # 0
      BY <3>1, JobIds, MaxIdAssumption DEF Shape, Id
    <3> QED
      BY <1>3, <3>1, <3>2, <3>3
  <2> QED
    BY <2>1, <2>2
<1>9. Cleared'
  <2> SUFFICES ASSUME NEW q \in Request, NEW d \in req'[q].chan, NEW u \in User,
                      req'[q].pc = "channel", <<d, u>> \notin torn'
               PROVE  row'[req'[q].id][u] = "none"
    BY DEF Cleared
  <2>1. q # r
    BY <1>1
  <2> QED
    BY <1>1, <1>2, <2>1 DEF Shape, Cleared
<1>10. RowsHaveChannel'
  <2> SUFFICES ASSUME NEW i \in Id, NEW u \in User, torn' = {}, row'[i][u] # "none"
               PROVE  \E d \in Channel : chan'[d] = i
    BY DEF RowsHaveChannel
  <2>1. PICK d \in Channel : chan[d] = i
    BY <1>2 DEF Shape, RowsHaveChannel
  <2> QED
    BY <1>3, <2>1, MaxIdAssumption DEF Id
<1>11. ASSUME NEW d \in Channel, NEW u \in User PROVE Member(d, u)' <=> Member(d, u)
  <2>1. CASE chan'[d] = chan[d]
    BY <1>2, <2>1 DEF Member
  <2>2. CASE chan'[d] # chan[d]
    <3>1. chan[d] = 0 /\ chan'[d] = nextId /\ nextId \in Id
      BY <1>3, <2>2, MaxIdAssumption DEF Id
    <3>2. row'[nextId][u] = "none"
      BY <1>2, <3>1, MaxIdAssumption DEF Shape, Keys, Id
    <3> QED
      BY <3>1, <3>2 DEF Member
  <2> QED
    BY <2>1, <2>2
<1>12. \A q \in Request, u \in User : Untold(q, u)' => q # r /\ Untold(q, u)
  BY <1>1, OthersSame DEF Untold
<1>13. Owed'
  <2> SUFFICES ASSUME NEW q \in Request, NEW d \in req'[q].chan, NEW u \in User,
                      Untold(q, u)', <<d, u>> \notin torn'
               PROVE  Member(d, u)' <=> req'[q].kind = "add"
    BY DEF Owed
  <2>1. /\ q # r /\ Untold(q, u) /\ req'[q] = req[q] /\ d \in Channel
        /\ <<d, u>> \notin torn
    BY <1>1, <1>2, <1>12 DEF TypeOK, Job
  <2> QED
    BY <1>11, <2>1 DEF Shape, Owed
<1>14. ASSUME NEW d \in Channel, NEW u \in User, Told(d, u)' PROVE Told(d, u)
  <2>1. ASSUME NEW q \in Request, d \in req[q].chan PROVE ~Untold(q, u)
    <3>1. q # r /\ req'[q] = req[q]
      BY <1>1, <1>2, <2>1
    <3> QED
      BY <1>14, <2>1, <3>1, OthersSame DEF Told
  <2> QED
    BY <1>2, <1>14, <2>1 DEF Told
<1> QED
  BY <1>4, <1>5, <1>7, <1>8, <1>9, <1>10, <1>11, <1>13, <1>14 DEF Shape

\* deleteChannel deletes the channel by its name: the rows are gone.
LEMMA NameStep ==
  ASSUME TypeOK, TypeOK', Shape, NEW r \in Request, DeleteName(r)
  PROVE  /\ Shape'
         /\ \A d \in Channel, u \in User : Told(d, u)' =>
              Told(d, u) /\ (Member(d, u)' <=> Member(d, u))
<1>1. /\ \A q \in Request \ {r} : req'[q] = req[q]
      /\ req'[r].pc = "publish" /\ req'[r].kind = req[r].kind
      /\ req'[r].chan = req[r].chan /\ req'[r].id = req[r].id
      /\ req'[r].ok = req[r].ok /\ req'[r].todo = req[r].todo
      /\ req'[r].loaded = req[r].loaded
  BY PcEffect DEF DeleteName
<1>2. /\ req[r].pc = "channel" /\ req[r].kind = "remove" /\ Working(r)
      /\ nextId' = nextId /\ row' = row /\ torn' = torn
      /\ \A d \in Channel : chan'[d] = IF d \in req[r].chan THEN 0 ELSE chan[d]
  BY DEF DeleteName, Shape, Jobs, JobFits, Working
<1>3. Touches(r) = User /\ Touches(r)' = User
  BY <1>1, <1>2 DEF Touches
<1>4. Jobs'
  <2> SUFFICES ASSUME NEW q \in Request PROVE JobFits(q)'
    BY DEF Jobs
  <2>1. /\ Working(q)' <=> Working(q)
        /\ req'[q].chan = req[q].chan /\ req'[q].ok = req[q].ok /\ req'[q].id = req[q].id
        /\ req'[q].loaded = req[q].loaded /\ req'[q].kind = req[q].kind
    BY <1>1, <1>2, OthersSame DEF Working
  <2>2. ASSUME Working(q), NEW d \in Channel, chan'[d] = req[q].id PROVE d \in req[q].chan
    <3>1. req[q].id # 0
      BY <2>2, JobIds, MaxIdAssumption DEF Shape, Id
    <3> QED
      BY <1>2, <2>2, <3>1 DEF Shape, Jobs, JobFits
  <2> QED
    BY <1>1, <1>2, <2>1, <2>2 DEF Shape, Jobs, JobFits
<1>5. Keys'
  <2>1. nextId \in Nat /\ \A d \in Channel : chan[d] \in Nat /\ 0 <= chan[d] /\ chan[d] < nextId
    BY MaxIdAssumption DEF TypeOK, Shape, Keys
  <2> QED
    BY <1>2, <2>1 DEF Shape, Keys
<1>6. Apart'
  BY <1>1, <1>2, <1>3, ApartStep DEF Shape
<1>7. ASSUME NEW q \in Request \ {r}, NEW d \in req[q].chan, NEW u \in User,
             u \in Touches(q), d \in req[r].chan
      PROVE  <<d, u>> \in torn
  BY <1>3, <1>7 DEF Shape, Apart
<1>8. StillThere'
  <2> SUFFICES ASSUME NEW q \in Request, NEW d \in req'[q].chan, NEW u \in Touches(q)',
                      req'[q].pc # "publish", <<d, u>> \notin torn'
               PROVE  chan'[d] = req'[q].id
    BY DEF StillThere
  <2>1. /\ q # r /\ req'[q] = req[q] /\ d \in req[q].chan /\ u \in Touches(q)
        /\ <<d, u>> \notin torn /\ d \in Channel /\ req[q] \in Job
    BY <1>1, <1>2, OthersSame DEF TypeOK, Job
  <2>2. u \in User
    BY <2>1 DEF Touches, Job
  <2> QED
    BY <1>2, <1>7, <2>1, <2>2 DEF Shape, StillThere
<1>9. Cleared'
  <2> SUFFICES ASSUME NEW q \in Request, NEW d \in req'[q].chan, NEW u \in User,
                      req'[q].pc = "channel", <<d, u>> \notin torn'
               PROVE  row'[req'[q].id][u] = "none"
    BY DEF Cleared
  <2>1. q # r
    BY <1>1
  <2> QED
    BY <1>1, <1>2, <2>1 DEF Shape, Cleared
<1>10. RowsHaveChannel'
  <2> SUFFICES ASSUME NEW i \in Id, NEW u \in User, torn = {}, row[i][u] # "none"
               PROVE  \E d \in Channel : chan'[d] = i
    BY <1>2 DEF RowsHaveChannel
  <2>1. PICK d \in Channel : chan[d] = i
    BY DEF Shape, RowsHaveChannel
  <2>2. ASSUME d \in req[r].chan PROVE FALSE
    <3>1. chan[d] = req[r].id
      BY <1>2, <1>3, <2>2 DEF Shape, StillThere
    <3> QED
      BY <1>2, <2>1, <2>2, <3>1 DEF Shape, Cleared
  <2> QED
    BY <1>2, <2>1, <2>2
<1>11. \A d \in Channel, u \in User : d \notin req[r].chan => (Member(d, u)' <=> Member(d, u))
  BY <1>2 DEF Member
<1>12. Owed'
  <2> SUFFICES ASSUME NEW q \in Request, NEW d \in req'[q].chan, NEW u \in User,
                      Untold(q, u)', <<d, u>> \notin torn'
               PROVE  Member(d, u)' <=> req'[q].kind = "add"
    BY DEF Owed
  <2>1. d \in Channel
    BY DEF TypeOK, Job
  <2>2. CASE q = r
    <3>1. chan'[d] = 0
      BY <1>1, <1>2, <2>1, <2>2
    <3>2. req'[q].kind = "remove"
      BY <1>1, <1>2, <2>2
    <3> QED
      BY <3>1, <3>2 DEF Member
  <2>3. CASE q # r
    <3>1. /\ req'[q] = req[q] /\ d \in req[q].chan /\ Untold(q, u) /\ <<d, u>> \notin torn
      BY <1>1, <1>2, <2>3, OthersSame
    <3>2. d \notin req[r].chan
      BY <1>7, <2>3, <3>1, UntoldTouches
    <3> QED
      BY <1>11, <2>1, <3>1, <3>2 DEF Shape, Owed
  <2> QED
    BY <2>2, <2>3
<1>13. ASSUME NEW d \in Channel, NEW u \in User, Told(d, u)'
       PROVE  Told(d, u) /\ (Member(d, u)' <=> Member(d, u))
  <2>1. \A q \in Request : Untold(q, u)' <=> Untold(q, u)
    BY <1>1, <1>2, OthersSame DEF Untold
  <2>2. \A q \in Request : req'[q].chan = req[q].chan
    BY <1>1
  <2>3. Untold(r, u)
    BY <1>2 DEF Untold
  <2> QED
    BY <1>2, <1>11, <1>13, <2>1, <2>2, <2>3 DEF Told
<1> QED
  BY <1>4, <1>5, <1>6, <1>8, <1>9, <1>10, <1>12, <1>13 DEF Shape

-----------------------------------------------------------------------------
(* Agree *)

\* The rooms and the commands stay: enough that nobody is told, or loses a row.
LEMMA AgreeKept ==
  ASSUME Agree, UNCHANGED <<shake, seen, rooms, bus, missed>>,
         \A c \in Channel, u \in User : Told(c, u)' =>
           Told(c, u) /\ (Member(c, u)' <=> Member(c, u))
  PROVE  Agree'
<1>1. /\ \A h, i, c, u : Last(h, i, c, u)' <=> Last(h, i, c, u)
      /\ \A h, c, u : NoneFor(h, c, u)' <=> NoneFor(h, c, u)
      /\ \A s : Held(s)' = Held(s)
  BY DEF Last, NoneFor, Held, Names
<1> QED
  BY <1>1 DEF Agree

\* The servers are told the truth about the members of to.
LEMMA AgreePublish ==
  ASSUME TypeOK, Agree, NEW op \in {"join", "leave"}, NEW c \in Channel, NEW to \in SUBSET User,
         Publish(op, c, to), UNCHANGED <<shake, seen, rooms, missed>>,
         \A d \in Channel, u \in User : Told(d, u)' =>
           /\ d = c /\ u \in to => (op = "join" <=> Member(d, u)')
           /\ ~(d = c /\ u \in to) => Told(d, u) /\ (Member(d, u)' <=> Member(d, u))
  PROVE  Agree'
<1> DEFINE cmd == [op |-> op, chan |-> c, to |-> to]
<1>1. cmd.op = op /\ cmd.chan = c /\ cmd.to = to
  OBVIOUS
<1>2. bus' = [h \in Server |-> Append(bus[h], cmd)] /\ cmd \in Command
  BY DEF Publish, Command
<1> HIDE DEF cmd
<1>3. ASSUME NEW h \in Server
      PROVE  /\ Len(bus[h]) \in Nat /\ Len(bus'[h]) = Len(bus[h]) + 1
             /\ bus'[h][Len(bus[h]) + 1] = cmd
             /\ \A i \in 1 .. Len(bus[h]) : bus'[h][i] = bus[h][i]
  <2>1. bus[h] \in Seq(Command) /\ bus'[h] = Append(bus[h], cmd)
    BY <1>2 DEF TypeOK
  <2> QED
    BY <1>2, <2>1
<1> SUFFICES ASSUME NEW d \in Channel, NEW u \in User, Told(d, u)'
             PROVE  /\ \A h \in Server : \A i \in 1 .. Len(bus'[h]) :
                         Last(h, i, d, u)' => (bus'[h][i].op = "join" <=> Member(d, u)')
                    /\ \A s \in Socket :
                         /\ Owner[s] = u
                         /\ shake'[s] \in {"read", "joined"}
                         /\ NoneFor(Home[s], d, u)'
                         /\ <<s, d>> \notin missed'
                         => (d \in Held(s)' <=> Member(d, u)')
  BY DEF Agree
<1>4. CASE d = c /\ u \in to
  <2>1. Names(cmd, d, u)
    BY <1>1, <1>4 DEF Names
  <2>2. ASSUME NEW h \in Server, NEW i \in 1 .. Len(bus'[h]), Last(h, i, d, u)'
        PROVE  bus'[h][i].op = op
    <3>1. i = Len(bus[h]) + 1
      <4>1. Len(bus[h]) + 1 \in 1 .. Len(bus'[h]) /\ Names(bus'[h][Len(bus[h]) + 1], d, u)
        BY <1>3, <2>1
      <4>2. ~(Len(bus[h]) + 1 > i)
        BY <2>2, <4>1 DEF Last, Names
      <4> QED
        BY <1>3, <4>2
    <3> QED
      BY <1>1, <1>3, <3>1
  <2>3. \A h \in Server : ~NoneFor(h, d, u)'
    <3> SUFFICES ASSUME NEW h \in Server, NoneFor(h, d, u)' PROVE FALSE
      OBVIOUS
    <3>1. Len(bus[h]) + 1 \in 1 .. Len(bus'[h]) /\ Names(bus'[h][Len(bus[h]) + 1], d, u)
      BY <1>3, <2>1
    <3> QED
      BY <3>1 DEF NoneFor, Names
  <2> QED
    BY <1>4, <2>2, <2>3, HomeAssumption
<1>5. CASE ~(d = c /\ u \in to)
  <2>1. ~Names(cmd, d, u)
    BY <1>1, <1>5 DEF Names
  <2>2. Told(d, u) /\ (Member(d, u)' <=> Member(d, u))
    BY <1>5
  <2>3. ASSUME NEW h \in Server, NEW i \in 1 .. Len(bus'[h]), Last(h, i, d, u)'
        PROVE  bus'[h][i].op = "join" <=> Member(d, u)'
    <3>1. Names(bus'[h][i], d, u)
          /\ \A j \in 1 .. Len(bus'[h]) : j > i => ~Names(bus'[h][j], d, u)
      BY <2>3 DEF Last, Names
    <3>2. i \in 1 .. Len(bus[h])
      BY <1>3, <2>1, <3>1
    <3>3. Last(h, i, d, u)
      BY <1>3, <3>1, <3>2 DEF Last
    <3>4. bus'[h][i] = bus[h][i]
      BY <1>3, <3>2
    <3> QED
      BY <2>2, <3>2, <3>3, <3>4 DEF Agree
  <2>4. ASSUME NEW h \in Server, NoneFor(h, d, u)' PROVE NoneFor(h, d, u)
    <3>1. \A i \in 1 .. Len(bus'[h]) : ~Names(bus'[h][i], d, u)
      BY <2>4 DEF NoneFor, Names
    <3> QED
      BY <1>3, <3>1 DEF NoneFor
  <2>5. \A s : Held(s)' = Held(s)
    BY DEF Held
  <2> QED
    BY <2>2, <2>3, <2>4, <2>5, HomeAssumption DEF Agree
<1> QED
  BY <1>4, <1>5

\* A step of the sockets or of an adapter leaves tables and requests alone.
LEMMA ShapeKept ==
  ASSUME UNCHANGED <<chan, nextId, row, req, torn>>
  PROVE  /\ Shape => Shape'
         /\ \A c, u : Told(c, u)' <=> Told(c, u)
         /\ \A c, u : Member(c, u)' <=> Member(c, u)
<1>1. /\ \A r : Touches(r)' = Touches(r)
      /\ \A r : Working(r)' <=> Working(r)
      /\ \A r, u : Untold(r, u)' <=> Untold(r, u)
      /\ \A c, u : Member(c, u)' <=> Member(c, u)
  BY DEF Touches, Working, Untold, Member
<1>2. Jobs => Jobs'
  BY <1>1 DEF Jobs, JobFits
<1>3. Keys => Keys'
  BY DEF Keys
<1>4. (Apart => Apart') /\ (StillThere => StillThere')
  BY <1>1 DEF Apart, StillThere
<1>5. (Cleared => Cleared') /\ (RowsHaveChannel => RowsHaveChannel')
  BY DEF Cleared, RowsHaveChannel
<1>6. Owed => Owed'
  BY <1>1 DEF Owed
<1>7. \A c, u : Told(c, u)' <=> Told(c, u)
  BY <1>1 DEF Told
<1> QED
  BY <1>1, <1>2, <1>3, <1>4, <1>5, <1>6, <1>7 DEF Shape

\* Connecting, joining and leaving: what a socket holds is what its query returned.
LEMMA AgreeSocket ==
  ASSUME TypeOK, Agree, NEW s \in Socket, QueryChannels(s) \/ JoinRooms(s) \/ Disconnect(s)
  PROVE  Agree'
<1>1. UNCHANGED <<chan, nextId, row, req, torn, bus>>
  BY DEF QueryChannels, JoinRooms, Disconnect
<1>2. /\ \A c, u : Told(c, u)' <=> Told(c, u)
      /\ \A c, u : Member(c, u)' <=> Member(c, u)
  BY <1>1, ShapeKept
<1>3. /\ \A h, i, c, u : Last(h, i, c, u)' <=> Last(h, i, c, u)
      /\ \A h, c, u : NoneFor(h, c, u)' <=> NoneFor(h, c, u)
  BY <1>1 DEF Last, NoneFor, Names
<1>4. ASSUME NEW t \in Socket, NEW c \in Channel, shake'[t] \in {"read", "joined"},
             <<t, c>> \notin missed'
      PROVE  \/ /\ shake[t] \in {"read", "joined"} /\ <<t, c>> \notin missed
                /\ c \in Held(t)' <=> c \in Held(t)
             \/ c \in Held(t)' <=> Member(c, Owner[t])
  <2>1. CASE QueryChannels(s)
    BY <1>4, <2>1 DEF QueryChannels, Held, TypeOK
  <2>2. CASE JoinRooms(s)
    BY <1>4, <2>2 DEF JoinRooms, Held, TypeOK
  <2>3. CASE Disconnect(s)
    <3>1. t # s
      BY <1>4, <2>3 DEF Disconnect, TypeOK
    <3> QED
      BY <1>4, <2>3, <3>1 DEF Disconnect, Held, TypeOK
  <2> QED
    BY <2>1, <2>2, <2>3
<1> SUFFICES ASSUME NEW d \in Channel, NEW u \in User, Told(d, u)'
             PROVE  /\ \A h \in Server : \A i \in 1 .. Len(bus'[h]) :
                         Last(h, i, d, u)' => (bus'[h][i].op = "join" <=> Member(d, u)')
                    /\ \A t \in Socket :
                         /\ Owner[t] = u
                         /\ shake'[t] \in {"read", "joined"}
                         /\ NoneFor(Home[t], d, u)'
                         /\ <<t, d>> \notin missed'
                         => (d \in Held(t)' <=> Member(d, u)')
  BY DEF Agree
<1>5. \A h \in Server : \A i \in 1 .. Len(bus'[h]) :
        Last(h, i, d, u)' => (bus'[h][i].op = "join" <=> Member(d, u)')
  BY <1>1, <1>2, <1>3 DEF Agree
<1>6. ASSUME NEW t \in Socket, Owner[t] = u, shake'[t] \in {"read", "joined"},
             NoneFor(Home[t], d, u)', <<t, d>> \notin missed'
      PROVE  d \in Held(t)' <=> Member(d, u)'
  BY <1>2, <1>3, <1>4, <1>6 DEF Agree
<1> QED
  BY <1>5, <1>6

\* The adapter of h receives a command: if it is the last one, it is the truth.
LEMMA AgreeDeliver ==
  ASSUME TypeOK, Agree, NEW h \in Server, Deliver(h)
  PROVE  Agree'
<1> DEFINE cmd == Head(bus[h])
<1>1. UNCHANGED <<chan, nextId, row, req, torn, shake, seen>>
  BY DEF Deliver
<1>2. /\ \A c, u : Told(c, u)' <=> Told(c, u)
      /\ \A c, u : Member(c, u)' <=> Member(c, u)
  BY <1>1, ShapeKept
<1>3. /\ bus[h] \in Seq(Command) /\ bus[h] # <<>>
      /\ bus'[h] = Tail(bus[h])
      /\ \A g \in Server \ {h} : bus'[g] = bus[g]
  BY DEF Deliver, TypeOK
<1>4. /\ Len(bus[h]) \in Nat /\ Len(bus[h]) >= 1 /\ Len(bus'[h]) = Len(bus[h]) - 1
      /\ cmd = bus[h][1]
      /\ \A i \in 1 .. Len(bus'[h]) : bus'[h][i] = bus[h][i + 1]
  BY <1>3
<1>5. cmd \in Command
  BY <1>3
<1>6. \A s \in Socket :
        rooms'[s] = IF s \notin Addressed(h, cmd, "joined") THEN rooms[s]
                    ELSE IF cmd.op = "join" THEN rooms[s] \cup {cmd.chan}
                    ELSE rooms[s] \ {cmd.chan}
  BY DEF Deliver
<1>7. missed' =
        (missed \ ((Addressed(h, cmd, "joined") \cup Addressed(h, cmd, "read")) \X {cmd.chan}))
          \cup ({s \in Addressed(h, cmd, "read") :
                   (cmd.chan \in seen[s]) # (cmd.op = "join")} \X {cmd.chan})
  BY DEF Deliver
<1> HIDE DEF cmd
<1> SUFFICES ASSUME NEW d \in Channel, NEW u \in User, Told(d, u)'
             PROVE  /\ \A g \in Server : \A i \in 1 .. Len(bus'[g]) :
                         Last(g, i, d, u)' => (bus'[g][i].op = "join" <=> Member(d, u)')
                    /\ \A s \in Socket :
                         /\ Owner[s] = u
                         /\ shake'[s] \in {"read", "joined"}
                         /\ NoneFor(Home[s], d, u)'
                         /\ <<s, d>> \notin missed'
                         => (d \in Held(s)' <=> Member(d, u)')
  BY DEF Agree
<1>8. ASSUME NEW g \in Server, NEW i \in 1 .. Len(bus'[g]), Last(g, i, d, u)'
      PROVE  bus'[g][i].op = "join" <=> Member(d, u)'
  <2>1. CASE g # h
    <3>1. Last(g, i, d, u)
      BY <1>3, <1>8, <2>1 DEF Last, Names
    <3> QED
      BY <1>2, <1>3, <2>1, <3>1 DEF Agree
  <2>2. CASE g = h
    <3>1. /\ i + 1 \in 1 .. Len(bus[h]) /\ bus'[h][i] = bus[h][i + 1]
          /\ Names(bus'[h][i], d, u)
          /\ \A j \in 1 .. Len(bus'[h]) : j > i => ~Names(bus'[h][j], d, u)
      BY <1>4, <1>8, <2>2 DEF Last, Names
    <3>2. ASSUME NEW j \in 1 .. Len(bus[h]), j > i + 1 PROVE ~Names(bus[h][j], d, u)
      <4>1. j - 1 \in 1 .. Len(bus'[h]) /\ j - 1 > i
        BY <1>4, <2>2, <3>2
      <4>2. bus'[h][j - 1] = bus[h][(j - 1) + 1] /\ (j - 1) + 1 = j
        BY <1>4, <4>1
      <4> QED
        BY <3>1, <4>1, <4>2
    <3>3. Last(h, i + 1, d, u)
      BY <3>1, <3>2 DEF Last
    <3> QED
      BY <1>2, <2>2, <3>1, <3>3 DEF Agree
  <2> QED
    BY <2>1, <2>2
<1>9. ASSUME NEW s \in Socket, Owner[s] = u, shake'[s] \in {"read", "joined"},
             NoneFor(Home[s], d, u)', <<s, d>> \notin missed'
      PROVE  d \in Held(s)' <=> Member(d, u)'
  <2>1. shake'[s] = shake[s] /\ seen'[s] = seen[s]
    BY <1>1
  <2>2. CASE Home[s] = h /\ Names(cmd, d, u)
    <3>1. \A j \in 1 .. Len(bus[h]) : j > 1 => ~Names(bus[h][j], d, u)
      <4> SUFFICES ASSUME NEW j \in 1 .. Len(bus[h]), j > 1 PROVE ~Names(bus[h][j], d, u)
        OBVIOUS
      <4>1. j - 1 \in 1 .. Len(bus'[h])
        BY <1>4
      <4>2. bus'[h][j - 1] = bus[h][(j - 1) + 1] /\ (j - 1) + 1 = j
        BY <1>4, <4>1
      <4> QED
        BY <1>9, <2>2, <4>1, <4>2 DEF NoneFor, Names
    <3>2. Last(h, 1, d, u)
      BY <1>4, <2>2, <3>1 DEF Last
    <3>3. cmd.op = "join" <=> Member(d, u)
      BY <1>2, <1>4, <3>2 DEF Agree
    <3>4. cmd.chan = d /\ s \in Addressed(h, cmd, shake[s])
      BY <1>9, <2>2 DEF Names, Addressed
    <3>5. CASE shake[s] = "joined"
      BY <1>2, <1>6, <2>1, <3>3, <3>4, <3>5 DEF Held
    <3>6. CASE shake[s] = "read"
      <4>1. (d \in seen[s]) <=> (cmd.op = "join")
        BY <1>7, <1>9, <3>4, <3>6
      <4> QED
        BY <1>2, <2>1, <3>3, <3>6, <4>1 DEF Held
    <3> QED
      BY <1>9, <2>1, <3>5, <3>6
  <2>3. CASE ~(Home[s] = h /\ Names(cmd, d, u))
    <3>1. NoneFor(Home[s], d, u)
      <4>1. CASE Home[s] # h
        BY <1>3, <1>9, <4>1, HomeAssumption DEF NoneFor, Names
      <4>2. CASE Home[s] = h
        <5> SUFFICES ASSUME NEW j \in 1 .. Len(bus[h]) PROVE ~Names(bus[h][j], d, u)
          BY <4>2 DEF NoneFor
        <5>1. CASE j = 1
          BY <1>4, <2>3, <4>2, <5>1
        <5>2. CASE j # 1
          <6>1. j - 1 \in 1 .. Len(bus'[h])
            BY <1>4, <5>2
          <6>2. bus'[h][j - 1] = bus[h][(j - 1) + 1] /\ (j - 1) + 1 = j
            BY <1>4, <6>1
          <6> QED
            BY <1>9, <4>2, <6>1, <6>2 DEF NoneFor, Names
        <5> QED
          BY <5>1, <5>2
      <4> QED
        BY <4>1, <4>2
    <3>2. ~(cmd.chan = d /\ (s \in Addressed(h, cmd, "joined") \/ s \in Addressed(h, cmd, "read")))
      BY <1>9, <2>3 DEF Names, Addressed
    <3>3. <<s, d>> \notin missed
      BY <1>7, <1>9, <3>2
    <3>4. d \in Held(s)' <=> d \in Held(s)
      BY <1>6, <2>1, <3>2 DEF Held
    <3> QED
      BY <1>2, <1>9, <2>1, <3>1, <3>3, <3>4 DEF Agree
  <2> QED
    BY <2>2, <2>3
<1> QED
  BY <1>8, <1>9

-----------------------------------------------------------------------------
(* The steps *)

LEMMA InitInv == Init => IInv
<1> SUFFICES ASSUME Init PROVE IInv
  OBVIOUS
<1>1. TypeOK
  <2>1. NoJob("idle") \in Job
    BY MaxIdAssumption DEF NoJob, Job, Kind
  <2> QED
    BY <2>1, MaxIdAssumption DEF Init, TypeOK
<1>2. \A r \in Request :
        /\ req[r].pc = "idle" /\ req[r].kind = "none" /\ req[r].chan = {}
        /\ req[r].ok = {} /\ req[r].loaded = {}
  BY DEF Init, NoJob
<1>3. Jobs /\ Apart /\ StillThere /\ Cleared /\ Owed
  BY <1>2 DEF Jobs, JobFits, Working, Apart, StillThere, Cleared, Owed
<1>4. ASSUME NEW i \in Id, NEW u \in User, row[i][u] # "none"
      PROVE  \E c \in Channel : chan[c] = i
  BY <1>4 DEF Init
<1>5. Keys
  <2>1. \A c \in Channel : chan[c] < nextId
    BY DEF Init
  <2>2. \A c, d \in Channel : chan[c] = chan[d] /\ chan[c] # 0 => c = d
    BY DEF Init
  <2>3. \A i \in Id, u \in User : i >= nextId => row[i][u] = "none"
    BY <1>1, <1>4, <2>1, MaxIdAssumption DEF TypeOK, Id
  <2> QED
    BY <2>1, <2>2, <2>3 DEF Keys
<1>6. RowsHaveChannel
  BY <1>4 DEF RowsHaveChannel
<1>7. Agree
  <2>1. \A s \in Socket : shake[s] = "new"
    BY DEF Init
  <2>2. \A h \in Server : bus[h] = <<>>
    BY DEF Init
  <2> QED
    BY <2>1, <2>2 DEF Agree
<1> QED
  BY <1>1, <1>3, <1>5, <1>6, <1>7 DEF IInv

LEMMA StepInv == IInv /\ [Next]_vars => IInv'
<1> SUFFICES ASSUME IInv, [Next]_vars PROVE IInv'
  OBVIOUS
<1>1. TypeOK /\ Shape /\ Agree /\ TypeOK'
  BY TypeStep DEF IInv, Shape
<1> SUFFICES Shape' /\ Agree'
  BY <1>1 DEF IInv, Shape
<1>2. ASSUME NEW s \in Socket, QueryChannels(s) \/ JoinRooms(s) \/ Disconnect(s)
      PROVE  Shape' /\ Agree'
  <2>1. UNCHANGED <<chan, nextId, row, req, torn>>
    BY <1>2 DEF QueryChannels, JoinRooms, Disconnect
  <2> QED
    BY <1>1, <1>2, <2>1, ShapeKept, AgreeSocket
<1>3. ASSUME NEW h \in Server, Deliver(h) PROVE Shape' /\ Agree'
  <2>1. UNCHANGED <<chan, nextId, row, req, torn>>
    BY <1>3 DEF Deliver
  <2> QED
    BY <1>1, <1>3, <2>1, ShapeKept, AgreeDeliver
<1>4. ASSUME NEW r \in Request, NEW kind \in Kind, NEW c \in Channel,
             NEW id \in 1 .. MaxId, NEW members \in SUBSET User,
             Begin(r, kind, c, id, members), kind = "remove" => members = User,
             \/ chan[c] = id /\ UNCHANGED <<chan, nextId>>
             \/ /\ chan[c] = 0 /\ id = nextId
                /\ chan' = [chan EXCEPT ![c] = nextId]
                /\ nextId' = nextId + 1
      PROVE  Shape' /\ Agree'
  <2>1. /\ Shape'
        /\ \A d \in Channel, u \in User :
             /\ Told(d, u)' => Told(d, u)
             /\ Member(d, u)' <=> Member(d, u)
    BY <1>1, <1>4, BeginStep
  <2>2. UNCHANGED <<shake, seen, rooms, bus, missed>>
    BY <1>4 DEF Begin
  <2> QED
    BY <1>1, <2>1, <2>2, AgreeKept
<1>5. ASSUME NEW r \in Request, NEW c \in Channel, FindForRemoval(r, c) PROVE Shape' /\ Agree'
  <2>1. /\ Begin(r, "remove", c, chan[c], User) /\ UNCHANGED <<chan, nextId>>
        /\ chan[c] # 0
    BY <1>5 DEF FindForRemoval
  <2>2. chan[c] \in 1 .. MaxId /\ "remove" \in Kind
    BY <1>1, <2>1, MaxIdAssumption DEF TypeOK, Kind
  <2> QED
    BY <1>4, <2>1, <2>2
<1>6. ASSUME NEW r \in Request, NEW c \in Channel, NEW members \in SUBSET User,
             CreateChannel(r, c, members)
      PROVE  Shape' /\ Agree'
  <2>1. /\ Begin(r, "add", c, nextId, members) /\ chan[c] = 0
        /\ chan' = [chan EXCEPT ![c] = nextId] /\ nextId' = nextId + 1
        /\ nextId <= MaxId
    BY <1>6 DEF CreateChannel
  <2>2. nextId \in 1 .. MaxId /\ "add" \in Kind
    BY <1>1, <2>1, MaxIdAssumption DEF TypeOK, Kind
  <2> QED
    BY <1>4, <2>1, <2>2
<1>7. ASSUME NEW r \in Request, NEW kind \in Kind, NEW c \in Channel,
             NEW members \in SUBSET User, FindChannel(r, kind, c, members)
      PROVE  Shape' /\ Agree'
  <2>1. /\ Begin(r, kind, c, chan[c], members) /\ UNCHANGED <<chan, nextId>>
        /\ chan[c] # 0 /\ kind # "remove"
    BY <1>7 DEF FindChannel
  <2>2. chan[c] \in 1 .. MaxId
    BY <1>1, <2>1, MaxIdAssumption DEF TypeOK
  <2> QED
    BY <1>4, <2>1, <2>2
\* A step that keeps the servers in the dark.
<1>8. ASSUME NEW r \in Request, NEW V \in SUBSET User, Shape',
             UNCHANGED <<chan, shake, seen, rooms, bus, missed>>, torn \subseteq torn',
             \A q \in Request \ {r} : req'[q] = req[q],
             \A i \in Id, u \in User : row'[i][u] # row[i][u] => i = req[r].id /\ u \in V,
             Working(r),
             \A c \in req[r].chan, u \in User :
               \/ <<c, u>> \in torn'
               \/ ~Untold(r, u) /\ u \notin V
               \/ c \in req'[r].chan /\ Untold(r, u)'
      PROVE  Agree'
  <2>1. PICK c0 \in Channel : req[r].chan = {c0}
    BY <1>1, <1>8 DEF Shape, Jobs, JobFits
  <2>2. \A c \in Channel : chan[c] = req[r].id => c = c0
    BY <1>1, <1>8, <2>1 DEF Shape, Jobs, JobFits
  <2>3. ASSUME NEW d \in Channel, NEW u \in User, Told(d, u)'
        PROVE  Told(d, u) /\ (Member(d, u)' <=> Member(d, u))
    <3>1. <<d, u>> \notin torn' /\ (d \in req'[r].chan => ~Untold(r, u)')
      BY <2>3 DEF Told
    <3>2. d = c0 => ~Untold(r, u) /\ u \notin V
      BY <1>8, <2>1, <3>1
    <3>3. Told(d, u)
      <4>1. ASSUME NEW q \in Request, d \in req[q].chan PROVE ~Untold(q, u)
        <5>1. CASE q = r
          BY <2>1, <3>2, <4>1, <5>1
        <5>2. CASE q # r
          BY <1>8, <2>3, <4>1, <5>2, OthersSame DEF Told
        <5> QED
          BY <5>1, <5>2
      <4> QED
        BY <1>8, <3>1, <4>1 DEF Told
    <3>4. CASE chan[d] = 0
      BY <1>8, <3>3, <3>4 DEF Member
    <3>5. CASE chan[d] # 0
      <4>1. chan[d] \in Id
        BY <1>1, <3>5, MaxIdAssumption DEF TypeOK, Id
      <4>2. row'[chan[d]][u] = row[chan[d]][u]
        BY <1>8, <2>2, <3>2, <4>1
      <4> QED
        BY <1>8, <3>3, <4>2 DEF Member
    <3> QED
      BY <3>4, <3>5
  <2> QED
    BY <1>1, <1>8, <2>3, AgreeKept
<1>9. ASSUME NEW r \in Request, NEW u \in User, LoadMember(r, u) PROVE Shape' /\ Agree'
  <2>1. /\ Working(r) /\ req[r].pc = "members" /\ req[r].kind # "remove"
        /\ UNCHANGED <<chan, nextId, row, shake, seen, rooms, bus, missed, torn>>
        /\ u \in req[r].todo /\ req[r].loaded = {}
    BY <1>9 DEF LoadMember, Working
  <2>2. row[req[r].id][u] \in Status
    BY <1>1, <2>1, JobIds DEF TypeOK, Shape
  <2>3. /\ \A q \in Request \ {r} : req'[q] = req[q]
        /\ req'[r].pc = "members" /\ req'[r].kind = req[r].kind
        /\ req'[r].chan = req[r].chan /\ req'[r].id = req[r].id
        /\ req'[r].ok = req[r].ok /\ req'[r].todo = req[r].todo \ {u}
        /\ req'[r].loaded \subseteq {<<u, row[req[r].id][u]>>}
    BY <1>1, <1>9, <2>2, LoadEffect
  <2>4. Touches(r)' \subseteq Touches(r)
    BY <2>1, <2>3 DEF Touches
  <2>5. \A v : Untold(r, v)' <=> Untold(r, v)
    BY <2>1, <2>3 DEF Untold
  <2>6. Shape'
    BY <1>1, <2>1, <2>3, <2>4, <2>5, NoRowStep
  <2> QED
    BY <1>8, <2>1, <2>3, <2>5, <2>6
<1>10. ASSUME NEW r \in Request, SaveFails(r) PROVE Shape' /\ Agree'
  <2>1. /\ Working(r) /\ req[r].pc = "members" /\ req[r].kind # "remove"
        /\ UNCHANGED <<chan, nextId, row, shake, seen, rooms, bus, missed, torn>>
    <3>1. req[r].loaded # {} /\ req[r] \in Job
      BY <1>1, <1>10 DEF SaveFails, TypeOK
    <3>2. Working(r) /\ req[r].kind # "remove"
      BY <1>1, <3>1 DEF Shape, Jobs, JobFits
    <3> QED
      BY <1>1, <1>10, <3>2 DEF Shape, Jobs, JobFits, Working, SaveFails
  <2>2. /\ \A q \in Request \ {r} : req'[q] = req[q]
        /\ req'[r].pc = req[r].pc /\ req'[r].kind = req[r].kind
        /\ req'[r].chan = req[r].chan /\ req'[r].id = req[r].id
        /\ req'[r].ok = req[r].ok /\ req'[r].todo = req[r].todo
        /\ req'[r].loaded = {}
    BY <1>1, <1>10, SaveFailsEffect
  <2>3. Touches(r)' \subseteq Touches(r)
    BY <2>1, <2>2 DEF Touches
  <2>4. \A v : Untold(r, v)' <=> Untold(r, v)
    BY <2>1, <2>2 DEF Untold
  <2>5. Shape'
    BY <1>1, <2>1, <2>2, <2>3, <2>4, NoRowStep
  <2> QED
    BY <1>8, <2>1, <2>2, <2>4, <2>5
<1>11. ASSUME NEW r \in Request, SaveMember(r) PROVE Shape' /\ Agree'
  <2>1. PICK u \in User, found \in Status :
          /\ <<u, found>> \in req[r].loaded
          /\ row' = [row EXCEPT ![req[r].id][u] =
                       IF req[r].kind = "add" THEN "active" ELSE "revoked"]
          /\ req' = [req EXCEPT ![r].loaded = {}, ![r].ok = @ \cup {u}]
          /\ UNCHANGED <<chan, nextId, shake, seen, rooms, bus, missed, torn>>
    BY <1>11 DEF SaveMember
  <2>2. Working(r) /\ req[r].pc = "members" /\ req[r].kind # "remove"
    <3>1. req[r].loaded # {} /\ req[r] \in Job
      BY <1>1, <2>1 DEF TypeOK
    <3>2. Working(r) /\ req[r].kind # "remove"
      BY <1>1, <3>1 DEF Shape, Jobs, JobFits
    <3> QED
      BY <1>1, <3>2 DEF Shape, Jobs, JobFits, Working
  <2>3. /\ \A q \in Request \ {r} : req'[q] = req[q]
        /\ req'[r].pc = req[r].pc /\ req'[r].kind = req[r].kind
        /\ req'[r].chan = req[r].chan /\ req'[r].id = req[r].id
        /\ req'[r].ok = req[r].ok \cup {u} /\ req'[r].todo = req[r].todo
        /\ req'[r].loaded = {}
    BY <1>1, <2>1, SaveEffect
  <2>4. u \in Touches(r)
    BY <2>1, <2>2 DEF Touches
  <2>5. Touches(r)' \subseteq Touches(r)
    BY <2>2, <2>3, <2>4 DEF Touches
  <2>6. \A v : Untold(r, v)' <=> (Untold(r, v) \/ v \in {u})
    BY <2>2, <2>3 DEF Untold
  <2>7. /\ \A i \in Id, v \in User : row'[i][v] # row[i][v] => i = req[r].id /\ v \in {u}
        /\ \A v \in {u} : row'[req[r].id][v] = "active" <=> req[r].kind = "add"
    <3>1. req[r].id \in Id
      BY <1>1, <2>2, JobIds DEF Shape
    <3> QED
      BY <1>1, <2>1, <3>1 DEF TypeOK
  <2>8. Shape'
    <3> DEFINE V == {u}
    <3>1. /\ V \in SUBSET User /\ V \subseteq Touches(r)
          /\ \A i \in Id, v \in User : row'[i][v] # row[i][v] => i = req[r].id /\ v \in V
          /\ \A v \in V : row'[req[r].id][v] = "active" <=> req[r].kind = "add"
          /\ \A v \in User : Untold(r, v)' => Untold(r, v) \/ v \in V
      BY <2>4, <2>6, <2>7
    <3>2. torn \subseteq torn' /\ UNCHANGED <<chan, nextId>>
      BY <2>1
    <3> HIDE DEF V
    <3> QED
      BY <1>1, <2>2, <2>3, <2>5, <3>1, <3>2, RowStep
  <2> QED
    BY <1>8, <2>1, <2>2, <2>3, <2>6, <2>7, <2>8
<1>12. ASSUME NEW r \in Request, NEW u \in User, DeleteMember(r, u) PROVE Shape' /\ Agree'
  <2>1. /\ Working(r) /\ req[r].pc = "members" /\ req[r].kind = "delete"
        /\ row' = [row EXCEPT ![req[r].id][u] = "none"]
        /\ UNCHANGED <<chan, nextId, shake, seen, rooms, bus, missed, torn>>
    BY <1>12 DEF DeleteMember, Working
  <2>2. /\ \A q \in Request \ {r} : req'[q] = req[q]
        /\ req'[r].pc = "members" /\ req'[r].kind = "delete" /\ req[r].kind = "delete"
        /\ req'[r].chan = req[r].chan /\ req'[r].id = req[r].id
        /\ req'[r].ok = req[r].ok \cup {u} /\ req'[r].todo = req[r].todo \ {u}
        /\ req'[r].loaded = req[r].loaded /\ u \in req[r].todo
    BY <1>1, <1>12, DeleteEffect
  <2>3. u \in Touches(r)
    BY <2>1, <2>2 DEF Touches
  <2>4. Touches(r)' \subseteq Touches(r)
    BY <2>1, <2>2, <2>3 DEF Touches
  <2>5. \A v : Untold(r, v)' <=> (Untold(r, v) \/ v \in {u})
    BY <2>1, <2>2 DEF Untold
  <2>6. /\ \A i \in Id, v \in User : row'[i][v] # row[i][v] => i = req[r].id /\ v \in {u}
        /\ \A v \in {u} : row'[req[r].id][v] = "active" <=> req[r].kind = "add"
    <3>1. req[r].id \in Id
      BY <1>1, <2>1, JobIds DEF Shape
    <3> QED
      BY <1>1, <2>1, <3>1 DEF TypeOK
  <2>7. Shape'
    BY <1>1, <2>1, <2>2, <2>3, <2>4, <2>5, <2>6, RowStep
  <2> QED
    BY <1>8, <2>1, <2>2, <2>5, <2>6, <2>7
<1>13. ASSUME NEW r \in Request, DeleteRows(r) PROVE Shape' /\ Agree'
  <2>1. /\ Working(r) /\ req[r].pc = "members" /\ req[r].kind = "remove"
        /\ row' = [row EXCEPT ![req[r].id] = [u \in User |-> "none"]]
        /\ UNCHANGED <<chan, nextId, shake, seen, rooms, bus, missed, torn>>
    BY <1>13 DEF DeleteRows, Working
  <2>2. /\ \A q \in Request \ {r} : req'[q] = req[q]
        /\ req'[r].pc = "channel" /\ req'[r].kind = req[r].kind
        /\ req'[r].chan = req[r].chan /\ req'[r].id = req[r].id
        /\ req'[r].ok = req[r].ok /\ req'[r].loaded = req[r].loaded
    BY <1>1, <1>13, PcEffect DEF DeleteRows
  <2>3. Touches(r) = User /\ Touches(r)' = User
    BY <2>1, <2>2 DEF Touches
  <2>4. \A v : Untold(r, v)'
    BY <2>1, <2>2 DEF Untold
  <2>5. /\ \A i \in Id, v \in User : row'[i][v] # row[i][v] => i = req[r].id /\ v \in User
        /\ \A v \in User : row'[req[r].id][v] = "none"
    <3>1. req[r].id \in Id
      BY <1>1, <2>1, JobIds DEF Shape
    <3> QED
      BY <1>1, <2>1, <3>1 DEF TypeOK
  <2>6. \A v \in User : row'[req[r].id][v] = "active" <=> req[r].kind = "add"
    BY <2>1, <2>5
  <2>7. req'[r].ok = {} /\ req'[r].loaded = {}
    BY <1>1, <2>1, <2>2 DEF Shape, Jobs, JobFits
  <2>8. Shape'
    <3>1. torn \subseteq torn' /\ UNCHANGED <<chan, nextId>> /\ torn' = torn
      BY <2>1
    <3>2. /\ User \subseteq Touches(r) /\ Touches(r)' \subseteq Touches(r)
          /\ \A v \in User : v \in User
      BY <2>3
    <3>3. /\ req'[r].pc = "channel" /\ req[r].kind = "remove" /\ req[r].pc = "members"
          /\ req'[r].chan = req[r].chan /\ req'[r].id = req[r].id /\ req'[r].kind = req[r].kind
      BY <2>1, <2>2
    <3> QED
      BY <1>1, <2>1, <2>2, <2>5, <2>6, <2>7, <3>1, <3>2, <3>3, RowStep
  <2> QED
    BY <1>8, <2>1, <2>2, <2>4, <2>5, <2>8
<1>14. ASSUME NEW r \in Request, DeleteName(r) PROVE Shape' /\ Agree'
  <2>1. /\ Shape'
        /\ \A d \in Channel, u \in User : Told(d, u)' =>
             Told(d, u) /\ (Member(d, u)' <=> Member(d, u))
    BY <1>1, <1>14, NameStep
  <2>2. UNCHANGED <<shake, seen, rooms, bus, missed>>
    BY <1>14 DEF DeleteName
  <2> QED
    BY <1>1, <2>1, <2>2, AgreeKept
\* A request that ends.
<1>15. ASSUME NEW r \in Request, Working(r), req' = [req EXCEPT ![r] = NoJob("done")],
              UNCHANGED <<chan, nextId, row>>, torn \subseteq torn'
       PROVE  /\ Shape' /\ \A q \in Request \ {r} : req'[q] = req[q]
              /\ req'[r].chan = {}
  <2>1. /\ \A q \in Request \ {r} : req'[q] = req[q]
        /\ req'[r].pc = "done" /\ req'[r].kind = "none" /\ req'[r].chan = {}
        /\ req'[r].ok = {} /\ req'[r].loaded = {}
    BY <1>1, <1>15, DoneEffect
  <2>2. ~Working(r)'
    BY <2>1 DEF Working
  <2>3. \A i \in Id, v \in User : row'[i][v] = row[i][v]
    BY <1>15
  <2>4. Shape'
    BY <1>1, <1>15, <2>1, <2>2, <2>3, RowStep
  <2> QED
    BY <2>1, <2>4
<1>16. ASSUME NEW r \in Request, Return(r) PROVE Shape' /\ Agree'
  <2>1. /\ Working(r) /\ req[r].kind # "remove" /\ Touches(r) = {}
        /\ req' = [req EXCEPT ![r] = NoJob("done")]
        /\ UNCHANGED <<chan, nextId, row, shake, seen, rooms, bus, missed, torn>>
    BY <1>16 DEF Return, Working
  <2>2. \A v : ~Untold(r, v)
    BY <2>1 DEF Untold, Touches
  <2>3. Shape' /\ \A q \in Request \ {r} : req'[q] = req[q]
    BY <1>15, <2>1
  <2> DEFINE V == {}
  <2>4. /\ torn \subseteq torn' /\ V \in SUBSET User
        /\ \A i \in Id, v \in User : row'[i][v] # row[i][v] => i = req[r].id /\ v \in V
        /\ \A c \in req[r].chan, v \in User : <<c, v>> \in torn' \/ (~Untold(r, v) /\ v \notin V)
    BY <2>1, <2>2
  <2> HIDE DEF V
  <2> QED
    BY <1>8, <2>1, <2>3, <2>4
<1>17. ASSUME NEW r \in Request, Abort(r) PROVE Shape' /\ Agree'
  <2>1. /\ Working(r) /\ req' = [req EXCEPT ![r] = NoJob("done")]
        /\ torn' = torn \cup (req[r].chan \X (IF req[r].kind = "remove" THEN User ELSE req[r].ok))
        /\ UNCHANGED <<chan, nextId, row, shake, seen, rooms, bus, missed>>
    BY <1>17 DEF Abort, Working
  <2>2. \A c \in req[r].chan, v \in User : Untold(r, v) => <<c, v>> \in torn'
    BY <2>1 DEF Untold
  <2>3. Shape' /\ \A q \in Request \ {r} : req'[q] = req[q]
    BY <1>15, <2>1
  <2> DEFINE V == {}
  <2>4. /\ torn \subseteq torn' /\ V \in SUBSET User
        /\ \A i \in Id, v \in User : row'[i][v] # row[i][v] => i = req[r].id /\ v \in V
        /\ \A c \in req[r].chan, v \in User : <<c, v>> \in torn' \/ (~Untold(r, v) /\ v \notin V)
    BY <2>1, <2>2
  <2> HIDE DEF V
  <2> QED
    BY <1>8, <2>1, <2>3, <2>4
<1>18. ASSUME NEW r \in Request, NEW u \in User, PublishMember(r, u) PROVE Shape' /\ Agree'
  <2>1. /\ Working(r) /\ req[r].pc = "members" /\ req[r].kind # "remove"
        /\ u \in req[r].ok
        /\ UNCHANGED <<chan, nextId, row, shake, seen, rooms, missed, torn>>
    BY <1>18 DEF PublishMember, Working
  <2>2. PICK c \in Channel : req[r].chan = {c}
    BY <1>1, <2>1 DEF Shape, Jobs, JobFits
  <2>3. Publish(IF req[r].kind = "add" THEN "join" ELSE "leave", c, {u})
    BY <1>18, <2>2 DEF PublishMember
  <2>4. /\ \A q \in Request \ {r} : req'[q] = req[q]
        /\ req'[r].pc = "members" /\ req'[r].kind = req[r].kind
        /\ req'[r].chan = req[r].chan /\ req'[r].id = req[r].id
        /\ req'[r].ok = req[r].ok \ {u} /\ req'[r].todo = req[r].todo
        /\ req'[r].loaded = req[r].loaded
    BY <1>1, <1>18, TellEffect
  <2>5. Touches(r)' \subseteq Touches(r)
    BY <2>1, <2>4 DEF Touches
  <2>6. \A v : Untold(r, v)' <=> (Untold(r, v) /\ v # u)
    BY <2>1, <2>4 DEF Untold
  <2>7. Shape'
    <3>1. \A v \in User : Untold(r, v)' => Untold(r, v)
      BY <2>6
    <3> QED
      BY <1>1, <2>1, <2>4, <2>5, <3>1, NoRowStep
  <2>8. Untold(r, u)
    BY <2>1 DEF Untold
  <2>9. \A d, v : Member(d, v)' <=> Member(d, v)
    BY <2>1 DEF Member
  <2>10. ASSUME NEW d \in Channel, NEW v \in User, Told(d, v)'
         PROVE  /\ d = c /\ v \in {u} =>
                     ((IF req[r].kind = "add" THEN "join" ELSE "leave") = "join" <=> Member(d, v)')
                /\ ~(d = c /\ v \in {u}) => Told(d, v) /\ (Member(d, v)' <=> Member(d, v))
    <3>1. CASE d = c /\ v = u
      <4>1. <<c, u>> \notin torn
        BY <2>1, <2>10, <3>1 DEF Told
      <4>2. Member(c, u) <=> req[r].kind = "add"
        BY <1>1, <2>2, <2>8, <4>1 DEF Shape, Owed
      <4> QED
        BY <2>9, <3>1, <4>2
    <3>2. CASE ~(d = c /\ v = u)
      <4>1. ASSUME NEW q \in Request, d \in req[q].chan PROVE ~Untold(q, v)
        <5>1. CASE q = r
          BY <2>2, <2>4, <2>6, <2>10, <3>2, <4>1, <5>1 DEF Told
        <5>2. CASE q # r
          BY <2>4, <2>10, <4>1, <5>2, OthersSame DEF Told
        <5> QED
          BY <5>1, <5>2
      <4>2. Told(d, v)
        BY <2>1, <2>10, <4>1 DEF Told
      <4> QED
        BY <2>9, <3>2, <4>2
    <3> QED
      BY <3>1, <3>2
  <2>11. (IF req[r].kind = "add" THEN "join" ELSE "leave") \in {"join", "leave"}
    OBVIOUS
  <2> QED
    BY <1>1, <2>1, <2>3, <2>7, <2>10, <2>11, AgreePublish
<1>19. ASSUME NEW r \in Request, PublishRemoval(r) PROVE Shape' /\ Agree'
  <2>1. /\ Working(r) /\ req[r].pc = "publish" /\ req' = [req EXCEPT ![r] = NoJob("done")]
        /\ UNCHANGED <<chan, nextId, row, shake, seen, rooms, missed, torn>>
    BY <1>19 DEF PublishRemoval, Working
  <2>2. PICK c \in Channel : req[r].chan = {c}
    BY <1>1, <2>1 DEF Shape, Jobs, JobFits
  <2>3. Publish("leave", c, User)
    BY <1>19, <2>2 DEF PublishRemoval
  <2>4. Shape' /\ \A q \in Request \ {r} : req'[q] = req[q]
    BY <1>15, <2>1
  <2>5. req[r].kind = "remove" /\ \A v : Untold(r, v)
    BY <1>1, <2>1 DEF Shape, Jobs, JobFits, Untold
  <2>6. \A d, v : Member(d, v)' <=> Member(d, v)
    BY <2>1 DEF Member
  <2>7. ASSUME NEW d \in Channel, NEW v \in User, Told(d, v)'
        PROVE  /\ d = c /\ v \in User => ("leave" = "join" <=> Member(d, v)')
               /\ ~(d = c /\ v \in User) => Told(d, v) /\ (Member(d, v)' <=> Member(d, v))
    <3>1. CASE d = c
      <4>1. <<c, v>> \notin torn
        BY <2>1, <2>7, <3>1 DEF Told
      <4>2. ~Member(c, v)
        BY <1>1, <2>2, <2>5, <4>1 DEF Shape, Owed
      <4> QED
        BY <2>6, <3>1, <4>2
    <3>2. CASE d # c
      <4>1. ASSUME NEW q \in Request, d \in req[q].chan PROVE ~Untold(q, v)
        <5>1. q # r
          BY <2>2, <3>2, <4>1
        <5> QED
          BY <2>4, <2>7, <4>1, <5>1, OthersSame DEF Told
      <4>2. Told(d, v)
        BY <2>1, <2>7, <4>1 DEF Told
      <4> QED
        BY <2>6, <3>2, <4>2
    <3> QED
      BY <3>1, <3>2
  <2> QED
    BY <1>1, <2>1, <2>3, <2>4, <2>7, AgreePublish
<1>20. CASE UNCHANGED vars
  <2>1. UNCHANGED <<chan, nextId, row, shake, seen, rooms, bus, req, missed, torn>>
    BY <1>20 DEF vars
  <2> QED
    BY <1>1, <2>1, ShapeKept, AgreeKept
<1> QED
  BY <1>2, <1>3, <1>5, <1>6, <1>7, <1>9, <1>10, <1>11, <1>12, <1>13, <1>14, <1>16,
     <1>17, <1>18, <1>19, <1>20 DEF Next

LEMMA Invariance == Spec => []IInv
  BY InitInv, StepInv, PTL DEF Spec

(***************************************************************************)
(* Tables, rooms, commands and requests keep their types, whatever the     *)
(* requests do to each other.                                              *)
(***************************************************************************)
THEOREM TypeCorrect == Spec => []TypeOK
  BY Invariance, PTL DEF IInv

(***************************************************************************)
(* clientJoinChannel and the membership requests: once things are quiet, a *)
(* socket is in the room of a channel exactly when its user is an active   *)
(* member, outside the recorded windows.                                   *)
(***************************************************************************)
THEOREM RoomsAreRight == Spec => []RoomsMatchRows
<1>1. IInv => RoomsMatchRows
  <2> SUFFICES ASSUME IInv, NEW s \in Socket, NEW c \in Channel, shake[s] = "joined",
                      Quiet(c, Owner[s]), <<c, Owner[s]>> \notin torn, <<s, c>> \notin missed
               PROVE  c \in rooms[s] <=> Member(c, Owner[s])
    BY DEF RoomsMatchRows
  <2>1. Owner[s] \in User /\ Home[s] \in Server
    BY OwnerAssumption, HomeAssumption
  <2>2. Told(c, Owner[s])
    BY <2>1, UntoldTouches DEF Told, Quiet, IInv
  <2>3. NoneFor(Home[s], c, Owner[s])
    BY <2>1 DEF NoneFor, Names, Quiet
  <2> QED
    BY <2>1, <2>2, <2>3 DEF IInv, Agree, Held
<1> QED
  BY <1>1, Invariance, PTL

(***************************************************************************)
(* deleteChannel: no member row outlives its channel unless two requests   *)
(* met on it, or one died halfway.                                         *)
(***************************************************************************)
THEOREM NoRowIsOrphaned == Spec => []NoOrphanRows
<1>1. IInv => NoOrphanRows
  BY DEF IInv, RowsHaveChannel, NoOrphanRows
<1> QED
  BY <1>1, Invariance, PTL

=============================================================================
