------------------------- MODULE SocketCacheProofs -------------------------
(***************************************************************************)
(* The properties of Presence, alone, and those of SocketCache, which      *)
(* composes the list of sockets with it, for any users, servers and        *)
(* sockets.                                                                *)
(*                                                                         *)
(* FlagIsPresence and ListCoversOnline rest on what each suspended handler *)
(* of Presence still has to do (PresenceInv).  CacheIsLive rests on this:  *)
(* a list in flight is as good as the list in Redis: as long as no two     *)
(* sockets of a user are between read and write together (OneWriter), what *)
(* one of them has read holds every live socket that was added, and no     *)
(* socket that was removed (Good).  A sweep that wipes the list meets no   *)
(* live socket (NoSweepOnLive), and whoever has left without a crash has   *)
(* its removal under way (Stages).                                         *)
(***************************************************************************)
EXTENDS SocketCache, TLAPS

-----------------------------------------------------------------------------
(* Presence: FlagIsPresence and ListCoversOnline.  Neither is inductive: both speak of settled
   users only, and what makes them true then is what each suspended handler still has to do. *)

\* How far the handlers of s can be, given the life of its connection.
Phases ==
  \A s \in Socket :
    /\ conn[s] = "new"  => mark[s] = "idle" /\ sweep[s] = "idle" /\ join[s] = "idle"
    /\ conn[s] = "live" => mark[s] # "idle" /\ sweep[s] = "idle"
    /\ conn[s] = "gone" => mark[s] # "idle" /\ sweep[s] # "idle"
    /\ mark[s] = "flag" => sweep[s] \in {"idle", "timer"}

RoomIsLive == \A s \in room : conn[s] = "live"

\* No sweep is past its check while the user has a client.
NoLateSweep ==
  \A u \in Undisturbed : \A s, t \in Sockets(u) :
    conn[s] = "live" => sweep[t] \notin {"flag", "list", "cache"}

\* The flag is up once a live client has set it.
LiveIsFlagged ==
  \A u \in Undisturbed : \A s \in Sockets(u) :
    conn[s] = "live" /\ mark[s] # "flag" => flag[u]

\* Behind a flag stands a client, or a check that will find there is none.
FlagHasReason ==
  \A u \in Undisturbed :
    flag[u] => \E s \in Sockets(u) : conn[s] = "live" \/ sweep[s] \in {"timer", "flag"}

\* A client that has written the list is in it, and one that is about to write
\* it adds itself.
LiveIsListed ==
  \A u \in Undisturbed : \A s \in Sockets(u) :
    conn[s] = "live" /\ mark[s] = "done" => u \in list

WritesItself == \A s \in Socket : mark[s] = "write" => Owner[s] \in markRead[s]

PresenceInv ==
  /\ TypeOK
  /\ Phases
  /\ RoomIsLive
  /\ NoLateSweep
  /\ LiveIsFlagged
  /\ FlagHasReason
  /\ LiveIsListed
  /\ WritesItself

-----------------------------------------------------------------------------
(* Types of Presence *)

LEMMA PresenceTypeStep == TypeOK /\ [Next]_vars => TypeOK'
<1> SUFFICES ASSUME TypeOK, [Next]_vars PROVE TypeOK'
  OBVIOUS
<1> USE OwnerAssumption, HomeAssumption DEF TypeOK
<1>1. ASSUME NEW s \in Socket, Connect(s) PROVE TypeOK'
  BY <1>1 DEF Connect
<1>2. ASSUME NEW s \in Socket, Disconnect(s) PROVE TypeOK'
  BY <1>2 DEF Disconnect, history
<1>3. ASSUME NEW s \in Socket, Handler(s) PROVE TypeOK'
  <2>1. CASE JoinUserRoom(s)
    BY <2>1 DEF JoinUserRoom, history
  <2>2. CASE SetFlag(s)
    BY <2>2 DEF SetFlag, history
  <2>3. CASE ReadList(s)
    BY <2>3 DEF ReadList, history
  <2>4. CASE WriteList(s)
    BY <2>4 DEF WriteList, history
  <2>5. CASE FindOnline(s)
    BY <2>5 DEF FindOnline, history
  <2>6. CASE FindOffline(s)
    BY <2>6 DEF FindOffline, DisturbedIfLive
  <2>7. CASE ClearFlag(s)
    BY <2>7 DEF ClearFlag, history
  <2>8. CASE ClearList(s)
    BY <2>8 DEF ClearList, history
  <2>9. CASE ClearCache(s)
    BY <2>9 DEF ClearCache, history
  <2> QED
    BY <1>3, <2>1, <2>2, <2>3, <2>4, <2>5, <2>6, <2>7, <2>8, <2>9 DEF Handler
<1>4. ASSUME NEW h \in Server, Crash(h) PROVE TypeOK'
  BY <1>4 DEF Crash, Stopped, Hit
<1>5. ASSUME NEW u \in User, ExpireFlag(u) PROVE TypeOK'
  BY <1>5 DEF ExpireFlag, DisturbedIfLive
<1>6. CASE UNCHANGED vars
  BY <1>6 DEF vars
<1> QED
  BY <1>1, <1>2, <1>3, <1>4, <1>5, <1>6 DEF Next

(***************************************************************************)
(* The state keeps its types: no handler leaves a Redis key or a program   *)
(* counter outside the values the model gives it.                          *)
(***************************************************************************)
THEOREM PresenceTypeCorrect == Spec => []TypeOK
<1>1. Init => TypeOK
  BY DEF Init, TypeOK
<1> QED
  BY <1>1, PresenceTypeStep, PTL DEF Spec

-----------------------------------------------------------------------------
(* The steps of Presence: of each, first what it can disturb, then the rest *)

LEMMA PresenceInit == Init => PresenceInv
  BY OwnerAssumption DEF Init, PresenceInv, TypeOK, Phases, RoomIsLive, NoLateSweep,
     LiveIsFlagged, FlagHasReason, LiveIsListed, WritesItself, Sockets, Undisturbed

LEMMA PresenceInvStep == PresenceInv /\ [Next]_vars => PresenceInv'
<1> SUFFICES ASSUME PresenceInv, [Next]_vars PROVE PresenceInv'
  OBVIOUS
<1> USE OwnerAssumption DEF TypeOK, PresenceInv, Sockets, Undisturbed
<1>0. TypeOK'
  BY PresenceTypeStep
<1>1. ASSUME NEW s \in Socket, Connect(s) PROVE PresenceInv'
  <2>1. Phases'
    BY <1>1 DEF Connect, Sweeping, Phases
  <2>2. NoLateSweep'
    BY <1>1 DEF Connect, Sweeping, Phases, NoLateSweep
  <2>3. LiveIsFlagged'
    BY <1>1 DEF Connect, Sweeping, Phases, NoLateSweep, LiveIsFlagged
  <2>4. (RoomIsLive /\ FlagHasReason /\ LiveIsListed /\ WritesItself)'
    BY <1>1 DEF Connect, Sweeping,
       Phases, RoomIsLive, NoLateSweep, FlagHasReason, LiveIsListed,
       WritesItself
  <2> QED
    BY <1>0, <2>1, <2>2, <2>3, <2>4
<1>2. ASSUME NEW s \in Socket, Disconnect(s) PROVE PresenceInv'
  <2>1. Phases'
    BY <1>2 DEF Disconnect, history, Phases
  <2>2. RoomIsLive'
    BY <1>2 DEF Disconnect, history, Phases, RoomIsLive
  <2>3. FlagHasReason'
    BY <1>2 DEF Disconnect, history, Phases, RoomIsLive, FlagHasReason
  <2>4. (NoLateSweep /\ LiveIsFlagged /\ LiveIsListed /\ WritesItself)'
    BY <1>2 DEF Disconnect, history,
       Phases, NoLateSweep, LiveIsFlagged, LiveIsListed, WritesItself
  <2> QED
    BY <1>0, <2>1, <2>2, <2>3, <2>4
<1>3. ASSUME NEW s \in Socket, JoinUserRoom(s) PROVE PresenceInv'
  <2>1. RoomIsLive'
    BY <1>3 DEF JoinUserRoom, history, Phases, RoomIsLive
  <2>2. (Phases /\ NoLateSweep /\ LiveIsFlagged /\ FlagHasReason
        /\ LiveIsListed /\ WritesItself)'
    BY <1>3 DEF JoinUserRoom, history,
       Phases, RoomIsLive, NoLateSweep, LiveIsFlagged, FlagHasReason,
       LiveIsListed, WritesItself
  <2> QED
    BY <1>0, <2>1, <2>2
<1>4. ASSUME NEW s \in Socket, SetFlag(s) PROVE PresenceInv'
  <2>1. LiveIsFlagged'
    BY <1>4 DEF SetFlag, history, Phases, NoLateSweep, LiveIsFlagged
  <2>2. FlagHasReason'
    BY <1>4 DEF SetFlag, history, Phases, RoomIsLive, FlagHasReason
  <2>3. (Phases /\ RoomIsLive /\ NoLateSweep /\ LiveIsListed
        /\ WritesItself)'
    BY <1>4 DEF SetFlag, history,
       Phases, RoomIsLive, NoLateSweep, LiveIsListed, WritesItself
  <2> QED
    BY <1>0, <2>1, <2>2, <2>3
<1>5. ASSUME NEW s \in Socket, ReadList(s) PROVE PresenceInv'
  <2>1. WritesItself'
    BY <1>5 DEF ReadList, history, Phases, WritesItself
  <2>2. (Phases /\ RoomIsLive /\ NoLateSweep /\ LiveIsFlagged
        /\ FlagHasReason /\ LiveIsListed)'
    BY <1>5 DEF ReadList, history,
       Phases, RoomIsLive, NoLateSweep, LiveIsFlagged, FlagHasReason,
       LiveIsListed, WritesItself
  <2> QED
    BY <1>0, <2>1, <2>2
<1>6. ASSUME NEW s \in Socket, WriteList(s) PROVE PresenceInv'
  <2>1. LiveIsListed'
    BY <1>6 DEF WriteList, history, Phases, NoLateSweep, LiveIsListed,
       WritesItself
  <2>2. WritesItself'
    BY <1>6 DEF WriteList, history, Phases, WritesItself
  <2>3. (Phases /\ RoomIsLive /\ NoLateSweep /\ LiveIsFlagged
        /\ FlagHasReason)'
    BY <1>6 DEF WriteList, history,
       Phases, RoomIsLive, NoLateSweep, LiveIsFlagged, FlagHasReason
  <2> QED
    BY <1>0, <2>1, <2>2, <2>3
<1>7. ASSUME NEW s \in Socket, FindOnline(s) PROVE PresenceInv'
  <2>1. FlagHasReason'
    BY <1>7 DEF FindOnline, Views, Seen, history, Phases, RoomIsLive,
       FlagHasReason
  <2>2. (Phases /\ RoomIsLive /\ NoLateSweep /\ LiveIsFlagged
        /\ LiveIsListed /\ WritesItself)'
    BY <1>7 DEF FindOnline, Views, Seen, history,
       Phases, RoomIsLive, NoLateSweep, LiveIsFlagged, LiveIsListed,
       WritesItself
  <2> QED
    BY <1>0, <2>1, <2>2
<1>8. ASSUME NEW s \in Socket, FindOffline(s) PROVE PresenceInv'
  <2>1. NoLateSweep'
    BY <1>8 DEF FindOffline, DisturbedIfLive, Live, Phases, NoLateSweep
  <2>2. (Phases /\ RoomIsLive /\ LiveIsFlagged /\ FlagHasReason
        /\ LiveIsListed /\ WritesItself)'
    BY <1>8 DEF FindOffline, DisturbedIfLive, Live,
       Phases, RoomIsLive, NoLateSweep, LiveIsFlagged, FlagHasReason,
       LiveIsListed, WritesItself
  <2> QED
    BY <1>0, <2>1, <2>2
<1>9. ASSUME NEW s \in Socket, ClearFlag(s) PROVE PresenceInv'
  <2>1. LiveIsFlagged'
    BY <1>9 DEF ClearFlag, history, Phases, NoLateSweep, LiveIsFlagged
  <2>2. FlagHasReason'
    BY <1>9 DEF ClearFlag, history, Phases, RoomIsLive, FlagHasReason
  <2>3. (Phases /\ RoomIsLive /\ NoLateSweep /\ LiveIsListed
        /\ WritesItself)'
    BY <1>9 DEF ClearFlag, history,
       Phases, RoomIsLive, NoLateSweep, LiveIsListed, WritesItself
  <2> QED
    BY <1>0, <2>1, <2>2, <2>3
<1>10. ASSUME NEW s \in Socket, ClearList(s) PROVE PresenceInv'
  <2>1. LiveIsListed'
    BY <1>10 DEF ClearList, history, Phases, NoLateSweep, LiveIsListed,
       WritesItself
  <2>2. (Phases /\ RoomIsLive /\ NoLateSweep /\ LiveIsFlagged
        /\ FlagHasReason /\ WritesItself)'
    BY <1>10 DEF ClearList, history,
       Phases, RoomIsLive, NoLateSweep, LiveIsFlagged, FlagHasReason,
       WritesItself
  <2> QED
    BY <1>0, <2>1, <2>2
<1>11. ASSUME NEW s \in Socket, ClearCache(s) PROVE PresenceInv'
  <2>1. (Phases /\ RoomIsLive /\ NoLateSweep /\ LiveIsFlagged
        /\ FlagHasReason /\ LiveIsListed /\ WritesItself)'
    BY <1>11 DEF ClearCache, history,
       Phases, RoomIsLive, NoLateSweep, LiveIsFlagged, FlagHasReason,
       LiveIsListed, WritesItself
  <2> QED
    BY <1>0, <2>1
<1>12. ASSUME NEW h \in Server, Crash(h) PROVE PresenceInv'
  <2>1. Phases'
    BY <1>12 DEF Crash, Stopped, Hit, Working, Phases
  <2>2. RoomIsLive'
    BY <1>12 DEF Crash, Stopped, Hit, Working, Phases, RoomIsLive
  <2>3. FlagHasReason'
    BY <1>12 DEF Crash, Stopped, Hit, Working, Phases, RoomIsLive, FlagHasReason
  <2>4. (NoLateSweep /\ LiveIsFlagged /\ LiveIsListed /\ WritesItself)'
    BY <1>12 DEF Crash, Stopped, Hit, Working,
       Phases, NoLateSweep, LiveIsFlagged, LiveIsListed, WritesItself
  <2> QED
    BY <1>0, <2>1, <2>2, <2>3, <2>4
<1>13. ASSUME NEW u \in User, ExpireFlag(u) PROVE PresenceInv'
  <2>1. LiveIsFlagged'
    BY <1>13 DEF ExpireFlag, DisturbedIfLive, Live, Phases, NoLateSweep,
       LiveIsFlagged
  <2>2. FlagHasReason'
    BY <1>13 DEF ExpireFlag, DisturbedIfLive, Live, Phases, RoomIsLive,
       FlagHasReason
  <2>3. (Phases /\ RoomIsLive /\ NoLateSweep /\ LiveIsListed
        /\ WritesItself)'
    BY <1>13 DEF ExpireFlag, DisturbedIfLive, Live,
       Phases, RoomIsLive, NoLateSweep, LiveIsListed, WritesItself
  <2> QED
    BY <1>0, <2>1, <2>2, <2>3
<1>14. CASE UNCHANGED vars
  BY <1>14, <1>0 DEF vars, history, Phases, RoomIsLive, NoLateSweep,
     LiveIsFlagged,
     FlagHasReason, LiveIsListed, WritesItself
<1> QED
  BY <1>1, <1>2, <1>3, <1>4, <1>5, <1>6, <1>7, <1>8, <1>9, <1>10, <1>11, <1>12,
     <1>13, <1>14 DEF Next, Handler

-----------------------------------------------------------------------------
LEMMA PresenceInvAlways == Spec => []PresenceInv
  BY PresenceInit, PresenceInvStep, PTL DEF Spec

(***************************************************************************)
(* Once the handlers of a user have settled, isOnlineStatus tells whether  *)
(* the user has a live client: FlagIsPresence, for every instance.         *)
(***************************************************************************)
THEOREM FlagIsTruth == Spec => []FlagIsPresence
<1>1. PresenceInv => FlagIsPresence
  <2> SUFFICES ASSUME PresenceInv, NEW u \in Undisturbed, Settled(u)
               PROVE  flag[u] <=> Live(u) # {}
    BY DEF FlagIsPresence
  <2>1. flag[u] => Live(u) # {}
    BY DEF PresenceInv, FlagHasReason, Settled, Live, Sockets
  <2>2. Live(u) # {} => flag[u]
    BY DEF PresenceInv, LiveIsFlagged, Settled, Live, Sockets
  <2> QED
    BY <2>1, <2>2 DEF PresenceInv, TypeOK, Undisturbed
<1> QED
  BY <1>1, PresenceInvAlways, PTL

(***************************************************************************)
(* A settled user who is flagged online is in ws_users_online, the list a  *)
(* broadcast looks its recipients up in: ListCoversOnline.                 *)
(***************************************************************************)
THEOREM OnlineIsListed == Spec => []ListCoversOnline
<1>1. PresenceInv => ListCoversOnline
  <2> SUFFICES ASSUME PresenceInv, NEW u \in Undisturbed, Settled(u), flag[u]
               PROVE  u \in list
    BY DEF ListCoversOnline
  <2>1. PICK s \in Sockets(u) : conn[s] = "live"
    BY DEF PresenceInv, FlagHasReason, Settled
  <2>2. mark[s] = "done"
    BY <2>1 DEF PresenceInv, Phases, Settled, Sockets
  <2> QED
    BY <2>1, <2>2 DEF PresenceInv, LiveIsListed
<1> QED
  BY <1>1, PresenceInvAlways, PTL


-----------------------------------------------------------------------------
(* SocketCache: the inductive invariant *)

Writing(s) == add[s] = "write" \/ drop[s] = "write"

\* How far the updates of a socket can be, given its connection.
Stages ==
  \A s \in Socket :
    /\ conn[s] = "new"  => add[s] = "idle" /\ drop[s] = "idle"
    /\ conn[s] # "new"  => add[s] # "idle"
    /\ conn[s] = "live" => drop[s] = "idle"
    /\ conn[s] = "gone" => drop[s] # "idle" \/ Owner[s] \in killed
    /\ drop[s] = "done" => add[s] = "done"
    /\ drop[s] = "write" => add[s] # "read"

NoSweepOnLive ==
  \A s \in Socket :
    sweep[s] \in {"flag", "list", "cache"} /\ Owner[s] \in Undisturbed =>
      \A t \in Socket : Owner[t] = Owner[s] => conn[t] # "live"

OneWriter ==
  \A s, t \in Socket :
    s # t /\ Owner[s] = Owner[t] /\ Owner[s] \notin crossed => ~(Writing(s) /\ Writing(t))

\* t is in S if it is live and was added, and only if it was not removed.
Fits(t, S) ==
  /\ t \in S => add[t] = "done" /\ drop[t] # "done"
  /\ conn[t] = "live" /\ add[t] = "done" => t \in S

\* What is in Redis, and what a socket is about to write of the others.
Good ==
  \A s \in Socket : Owner[s] \in Undisturbed \ crossed =>
    /\ Fits(s, cache[Owner[s]])
    /\ \A t \in Socket \ {s} : Owner[t] = Owner[s] =>
         /\ add[t] = "write" => Fits(s, addRead[t])
         /\ drop[t] = "write" => Fits(s, dropRead[t])

\* Nobody else's sockets are in a list.
OwnSockets ==
  /\ \A u \in User : \A t \in cache[u] : Owner[t] = u
  /\ \A s \in Socket : \A t \in addRead[s] \cup dropRead[s] : Owner[t] = Owner[s]

IInv ==
  /\ TypeOK
  /\ CacheTypeOK
  /\ Stages
  /\ NoSweepOnLive
  /\ OneWriter
  /\ Good
  /\ OwnSockets

-----------------------------------------------------------------------------
(* Types *)

LEMMA TypeStep ==
  TypeOK /\ CacheTypeOK /\ [CacheNext]_allVars
  => (TypeOK /\ CacheTypeOK)'
<1> SUFFICES ASSUME TypeOK, CacheTypeOK, [CacheNext]_allVars
             PROVE  (TypeOK /\ CacheTypeOK)'
  OBVIOUS
<1> USE OwnerAssumption, HomeAssumption DEF TypeOK, CacheTypeOK, DisturbedIfLive,
        vars, history, cacheVars, locals
<1>1. ASSUME NEW s \in Socket, ConnectSocket(s) PROVE (TypeOK /\ CacheTypeOK)'
  BY <1>1 DEF ConnectSocket, Connect
<1>2. ASSUME NEW s \in Socket, DisconnectSocket(s) PROVE (TypeOK /\ CacheTypeOK)'
  BY <1>2 DEF DisconnectSocket, Disconnect
<1>3. ASSUME NEW s \in Socket, PresenceStep(s) PROVE (TypeOK /\ CacheTypeOK)'
  <2>1. CacheTypeOK'
    BY <1>3 DEF PresenceStep
  <2>2. CASE JoinUserRoom(s)
    BY <2>1, <2>2 DEF JoinUserRoom
  <2>3. CASE SetFlag(s)
    BY <2>1, <2>3 DEF SetFlag
  <2>4. CASE ReadList(s)
    BY <2>1, <2>4 DEF ReadList
  <2>5. CASE WriteList(s)
    BY <2>1, <2>5 DEF WriteList
  <2>6. CASE FindOnline(s)
    BY <2>1, <2>6 DEF FindOnline
  <2>7. CASE FindOffline(s)
    BY <2>1, <2>7 DEF FindOffline
  <2>8. CASE ClearFlag(s)
    BY <2>1, <2>8 DEF ClearFlag
  <2>9. CASE ClearList(s)
    BY <2>1, <2>9 DEF ClearList
  <2> QED
    BY <1>3, <2>2, <2>3, <2>4, <2>5, <2>6, <2>7, <2>8, <2>9 DEF PresenceStep
<1>4. ASSUME NEW s \in Socket, SweepSockets(s) PROVE (TypeOK /\ CacheTypeOK)'
  BY <1>4 DEF SweepSockets, ClearCache
<1>5. ASSUME NEW s \in Socket, ReadForAdd(s) PROVE (TypeOK /\ CacheTypeOK)'
  BY <1>5 DEF ReadForAdd, MarkCrossed, Crossing
<1>6. ASSUME NEW s \in Socket, WriteForAdd(s) PROVE (TypeOK /\ CacheTypeOK)'
  BY <1>6 DEF WriteForAdd
<1>7. ASSUME NEW s \in Socket, ReadForDrop(s) PROVE (TypeOK /\ CacheTypeOK)'
  BY <1>7 DEF ReadForDrop, MarkCrossed, Crossing
<1>8. ASSUME NEW s \in Socket, WriteForDrop(s) PROVE (TypeOK /\ CacheTypeOK)'
  BY <1>8 DEF WriteForDrop
<1>9. ASSUME NEW h \in Server, CrashServer(h) PROVE (TypeOK /\ CacheTypeOK)'
  <2> DEFINE lost == {t \in Socket : Home[t] = h /\ Updating(t)} \cup Hit(h)
  <2>1. lost \subseteq Socket
    BY DEF Hit
  <2> HIDE DEF lost
  <2>2. /\ conn' = [t \in Socket |-> IF t \in lost THEN "gone" ELSE conn[t]]
        /\ room' = room \ lost /\ killed' = killed \cup {Owner[t] : t \in lost}
        /\ UNCHANGED <<flag, list, disturbed, cache, crossed>>
    BY <1>9 DEF CrashServer, lost
  <2>3. /\ join' = Stopped(join, lost) /\ mark' = Stopped(mark, lost)
        /\ sweep' = Stopped(sweep, lost) /\ add' = Stopped(add, lost)
        /\ drop' = Stopped(drop, lost)
    BY <1>9 DEF CrashServer, lost
  <2>4. /\ markRead' = [t \in Socket |-> IF t \in lost THEN {} ELSE markRead[t]]
        /\ addRead' = [t \in Socket |-> IF t \in lost THEN {} ELSE addRead[t]]
        /\ dropRead' = [t \in Socket |-> IF t \in lost THEN {} ELSE dropRead[t]]
    BY <1>9 DEF CrashServer, lost
  <2>5. conn' \in [Socket -> {"new", "live", "gone"}] /\ room' \in SUBSET Socket
    BY <2>2
  <2>6. killed' \in SUBSET User
    BY <2>1, <2>2
  <2>7. /\ join' \in [Socket -> {"idle", "query", "done"}]
        /\ mark' \in [Socket -> {"idle", "flag", "read", "write", "done"}]
        /\ sweep' \in [Socket -> {"idle", "timer", "flag", "list", "cache", "done"}]
    BY <2>3 DEF Stopped
  <2>8. /\ add' \in [Socket -> {"idle", "read", "write", "done"}]
        /\ drop' \in [Socket -> {"idle", "read", "write", "done"}]
    BY <2>3 DEF Stopped
  <2>9. /\ markRead' \in [Socket -> SUBSET User]
        /\ addRead' \in [Socket -> SUBSET Socket] /\ dropRead' \in [Socket -> SUBSET Socket]
    BY <2>4
  <2> QED
    BY <2>2, <2>5, <2>6, <2>7, <2>8, <2>9
<1>10. ASSUME NEW u \in User, ExpirePresence(u) PROVE (TypeOK /\ CacheTypeOK)'
  BY <1>10 DEF ExpirePresence, ExpireFlag
<1>11. ASSUME NEW u \in User, ExpireCache(u) PROVE (TypeOK /\ CacheTypeOK)'
  BY <1>11 DEF ExpireCache
<1>12. ASSUME UNCHANGED allVars PROVE (TypeOK /\ CacheTypeOK)'
  BY <1>12 DEF allVars, cacheVars, vars, locals
<1> QED
  BY <1>1, <1>2, <1>3, <1>4, <1>5, <1>6, <1>7, <1>8, <1>9, <1>10, <1>11, <1>12
     DEF CacheNext, SocketHandler

-----------------------------------------------------------------------------
(* Where the handlers are *)

LEMMA StagesStep ==
  TypeOK /\ CacheTypeOK /\ Stages /\ [CacheNext]_allVars
  => Stages'
<1> SUFFICES ASSUME TypeOK, CacheTypeOK, Stages, [CacheNext]_allVars
             PROVE  Stages'
  OBVIOUS
<1> USE OwnerAssumption, HomeAssumption DEF TypeOK, CacheTypeOK, Stages,
        vars, history, cacheVars, locals
<1>1. ASSUME NEW s \in Socket, ConnectSocket(s) PROVE Stages'
  BY <1>1 DEF ConnectSocket, Connect
<1>2. ASSUME NEW s \in Socket, DisconnectSocket(s) PROVE Stages'
  BY <1>2 DEF DisconnectSocket, Disconnect
<1>3. ASSUME NEW s \in Socket, PresenceStep(s) PROVE Stages'
  BY <1>3 DEF PresenceStep, JoinUserRoom, SetFlag, ReadList, WriteList,
            FindOnline, FindOffline, ClearFlag, ClearList
<1>4. ASSUME NEW s \in Socket, SweepSockets(s) PROVE Stages'
  BY <1>4 DEF SweepSockets, ClearCache
<1>5. ASSUME NEW s \in Socket, ReadForAdd(s) PROVE Stages'
  BY <1>5 DEF ReadForAdd, MarkCrossed, Crossing
<1>6. ASSUME NEW s \in Socket, WriteForAdd(s) PROVE Stages'
  BY <1>6 DEF WriteForAdd
<1>7. ASSUME NEW s \in Socket, ReadForDrop(s) PROVE Stages'
  BY <1>7 DEF ReadForDrop, MarkCrossed, Crossing
<1>8. ASSUME NEW s \in Socket, WriteForDrop(s) PROVE Stages'
  BY <1>8 DEF WriteForDrop
<1>9. ASSUME NEW h \in Server, CrashServer(h) PROVE Stages'
  BY <1>9 DEF CrashServer, Stopped
<1>10. ASSUME NEW u \in User, ExpirePresence(u) PROVE Stages'
  BY <1>10 DEF ExpirePresence, ExpireFlag
<1>11. ASSUME NEW u \in User, ExpireCache(u) PROVE Stages'
  BY <1>11 DEF ExpireCache
<1>12. ASSUME UNCHANGED allVars PROVE Stages'
  BY <1>12 DEF allVars, cacheVars, vars, locals
<1> QED
  BY <1>1, <1>2, <1>3, <1>4, <1>5, <1>6, <1>7, <1>8, <1>9, <1>10, <1>11, <1>12
     DEF CacheNext, SocketHandler

LEMMA SweepStep ==
  TypeOK /\ CacheTypeOK /\ NoSweepOnLive /\ [CacheNext]_allVars
  => NoSweepOnLive'
<1> SUFFICES ASSUME TypeOK, CacheTypeOK, NoSweepOnLive, [CacheNext]_allVars
             PROVE  NoSweepOnLive'
  OBVIOUS
<1> USE OwnerAssumption, HomeAssumption DEF TypeOK, CacheTypeOK, NoSweepOnLive, Undisturbed,
        DisturbedIfLive, Sweeping, Live, Sockets, vars, history, cacheVars, locals
<1>1. ASSUME NEW s \in Socket, ConnectSocket(s) PROVE NoSweepOnLive'
  BY <1>1 DEF ConnectSocket, Connect
<1>2. ASSUME NEW s \in Socket, DisconnectSocket(s) PROVE NoSweepOnLive'
  BY <1>2 DEF DisconnectSocket, Disconnect
<1>3. ASSUME NEW s \in Socket, PresenceStep(s) PROVE NoSweepOnLive'
  BY <1>3 DEF PresenceStep, JoinUserRoom, SetFlag, ReadList, WriteList,
            FindOnline, FindOffline, ClearFlag, ClearList
<1>4. ASSUME NEW s \in Socket, SweepSockets(s) PROVE NoSweepOnLive'
  BY <1>4 DEF SweepSockets, ClearCache
<1>5. ASSUME NEW s \in Socket, ReadForAdd(s) PROVE NoSweepOnLive'
  BY <1>5 DEF ReadForAdd, MarkCrossed, Crossing
<1>6. ASSUME NEW s \in Socket, WriteForAdd(s) PROVE NoSweepOnLive'
  BY <1>6 DEF WriteForAdd
<1>7. ASSUME NEW s \in Socket, ReadForDrop(s) PROVE NoSweepOnLive'
  BY <1>7 DEF ReadForDrop, MarkCrossed, Crossing
<1>8. ASSUME NEW s \in Socket, WriteForDrop(s) PROVE NoSweepOnLive'
  BY <1>8 DEF WriteForDrop
<1>9. ASSUME NEW h \in Server, CrashServer(h) PROVE NoSweepOnLive'
  BY <1>9 DEF CrashServer, Stopped
<1>10. ASSUME NEW u \in User, ExpirePresence(u) PROVE NoSweepOnLive'
  BY <1>10 DEF ExpirePresence, ExpireFlag
<1>11. ASSUME NEW u \in User, ExpireCache(u) PROVE NoSweepOnLive'
  BY <1>11 DEF ExpireCache
<1>12. ASSUME UNCHANGED allVars PROVE NoSweepOnLive'
  BY <1>12 DEF allVars, cacheVars, vars, locals
<1> QED
  BY <1>1, <1>2, <1>3, <1>4, <1>5, <1>6, <1>7, <1>8, <1>9, <1>10, <1>11, <1>12
     DEF CacheNext, SocketHandler

LEMMA WriterStep ==
  TypeOK /\ CacheTypeOK /\ OneWriter /\ [CacheNext]_allVars
  => OneWriter'
<1> SUFFICES ASSUME TypeOK, CacheTypeOK, OneWriter, [CacheNext]_allVars
             PROVE  OneWriter'
  OBVIOUS
<1> USE OwnerAssumption DEF TypeOK, CacheTypeOK, OneWriter, Writing, Sockets,
        vars, history, cacheVars, locals
<1>1. ASSUME NEW s \in Socket, ConnectSocket(s) PROVE OneWriter'
  BY <1>1 DEF ConnectSocket, Connect
<1>2. ASSUME NEW s \in Socket, DisconnectSocket(s) PROVE OneWriter'
  BY <1>2 DEF DisconnectSocket, Disconnect
<1>3. ASSUME NEW s \in Socket, PresenceStep(s) PROVE OneWriter'
  BY <1>3 DEF PresenceStep, JoinUserRoom, SetFlag, ReadList, WriteList,
            FindOnline, FindOffline, ClearFlag, ClearList
<1>4. ASSUME NEW s \in Socket, SweepSockets(s) PROVE OneWriter'
  BY <1>4 DEF SweepSockets, ClearCache
<1>5. ASSUME NEW s \in Socket, ReadForAdd(s) PROVE OneWriter'
  BY <1>5 DEF ReadForAdd, MarkCrossed, Crossing
<1>6. ASSUME NEW s \in Socket, WriteForAdd(s) PROVE OneWriter'
  BY <1>6 DEF WriteForAdd
<1>7. ASSUME NEW s \in Socket, ReadForDrop(s) PROVE OneWriter'
  BY <1>7 DEF ReadForDrop, MarkCrossed, Crossing
<1>8. ASSUME NEW s \in Socket, WriteForDrop(s) PROVE OneWriter'
  BY <1>8 DEF WriteForDrop
<1>9. ASSUME NEW h \in Server, CrashServer(h) PROVE OneWriter'
  BY <1>9 DEF CrashServer, Stopped
<1>10. ASSUME NEW u \in User, ExpirePresence(u) PROVE OneWriter'
  BY <1>10 DEF ExpirePresence, ExpireFlag
<1>11. ASSUME NEW u \in User, ExpireCache(u) PROVE OneWriter'
  BY <1>11 DEF ExpireCache
<1>12. ASSUME UNCHANGED allVars PROVE OneWriter'
  BY <1>12 DEF allVars, cacheVars, vars, locals
<1> QED
  BY <1>1, <1>2, <1>3, <1>4, <1>5, <1>6, <1>7, <1>8, <1>9, <1>10, <1>11, <1>12
     DEF CacheNext, SocketHandler

LEMMA OwnStep ==
  TypeOK /\ CacheTypeOK /\ OwnSockets /\ [CacheNext]_allVars
  => OwnSockets'
<1> SUFFICES ASSUME TypeOK, CacheTypeOK, OwnSockets, [CacheNext]_allVars
             PROVE  OwnSockets'
  OBVIOUS
<1> USE OwnerAssumption DEF TypeOK, CacheTypeOK, OwnSockets, vars, history, cacheVars, locals
<1>1. ASSUME NEW s \in Socket, ConnectSocket(s) PROVE OwnSockets'
  BY <1>1 DEF ConnectSocket, Connect
<1>2. ASSUME NEW s \in Socket, DisconnectSocket(s) PROVE OwnSockets'
  BY <1>2 DEF DisconnectSocket, Disconnect
<1>3. ASSUME NEW s \in Socket, PresenceStep(s) PROVE OwnSockets'
  BY <1>3 DEF PresenceStep, JoinUserRoom, SetFlag, ReadList, WriteList,
            FindOnline, FindOffline, ClearFlag, ClearList
<1>4. ASSUME NEW s \in Socket, SweepSockets(s) PROVE OwnSockets'
  BY <1>4 DEF SweepSockets, ClearCache
<1>5. ASSUME NEW s \in Socket, ReadForAdd(s) PROVE OwnSockets'
  BY <1>5 DEF ReadForAdd, MarkCrossed, Crossing
<1>6. ASSUME NEW s \in Socket, WriteForAdd(s) PROVE OwnSockets'
  BY <1>6 DEF WriteForAdd
<1>7. ASSUME NEW s \in Socket, ReadForDrop(s) PROVE OwnSockets'
  BY <1>7 DEF ReadForDrop, MarkCrossed, Crossing
<1>8. ASSUME NEW s \in Socket, WriteForDrop(s) PROVE OwnSockets'
  BY <1>8 DEF WriteForDrop
<1>9. ASSUME NEW h \in Server, CrashServer(h) PROVE OwnSockets'
  BY <1>9 DEF CrashServer, Stopped
<1>10. ASSUME NEW u \in User, ExpirePresence(u) PROVE OwnSockets'
  BY <1>10 DEF ExpirePresence, ExpireFlag
<1>11. ASSUME NEW u \in User, ExpireCache(u) PROVE OwnSockets'
  BY <1>11 DEF ExpireCache
<1>12. ASSUME UNCHANGED allVars PROVE OwnSockets'
  BY <1>12 DEF allVars, cacheVars, vars, locals
<1> QED
  BY <1>1, <1>2, <1>3, <1>4, <1>5, <1>6, <1>7, <1>8, <1>9, <1>10, <1>11, <1>12
     DEF CacheNext, SocketHandler

-----------------------------------------------------------------------------
(* The lists *)

LEMMA GoodSame ==
  ASSUME Good, UNCHANGED cacheVars, UNCHANGED <<conn, killed>>, disturbed \subseteq disturbed'
  PROVE  Good'
  BY DEF Good, Fits, Undisturbed, cacheVars, locals

\* No live socket is missed in a list that is wiped.
LEMMA WipeIsGood ==
  ASSUME TypeOK, CacheTypeOK, Good, NEW u \in User, cache' = [cache EXCEPT ![u] = {}],
         UNCHANGED locals, UNCHANGED <<conn, crossed, killed>>, disturbed \subseteq disturbed',
         u \in Undisturbed' => \A x \in Socket : Owner[x] = u => conn[x] # "live"
  PROVE  Good'
<1> USE OwnerAssumption DEF Good, Fits, Undisturbed, locals, TypeOK, CacheTypeOK
<1>1. ASSUME NEW x \in Socket, Owner[x] \in Undisturbed' \ crossed
      PROVE  Fits(x, cache[Owner[x]])'
  <2>1. CASE Owner[x] = u
    BY <1>1, <2>1
  <2>2. CASE Owner[x] # u
    BY <1>1, <2>2
  <2> QED
    BY <2>1, <2>2
<1> QED
  BY <1>1

LEMMA GoodStep ==
  TypeOK /\ CacheTypeOK /\ Stages /\ NoSweepOnLive /\ OneWriter /\ Good /\ [CacheNext]_allVars
  => Good'
<1> SUFFICES ASSUME TypeOK, CacheTypeOK, Stages, NoSweepOnLive, OneWriter, Good,
                    [CacheNext]_allVars
             PROVE  Good'
  OBVIOUS
<1> USE OwnerAssumption DEF TypeOK, CacheTypeOK, Good, Fits, Undisturbed,
        vars, history, cacheVars, locals
<1>1. ASSUME NEW s \in Socket, ConnectSocket(s) PROVE Good'
  <2>1. /\ conn[s] = "new" /\ add'[s] = "read"
        /\ UNCHANGED <<cache, addRead, drop, dropRead, crossed>>
        /\ \A x \in Socket \ {s} : conn'[x] = conn[x] /\ add'[x] = add[x]
        /\ disturbed \subseteq disturbed' /\ killed' = killed
    BY <1>1 DEF ConnectSocket, Connect
  <2>2. add[s] = "idle"
    BY <2>1 DEF Stages
  <2> QED
    BY <2>1, <2>2
<1>2. ASSUME NEW s \in Socket, DisconnectSocket(s) PROVE Good'
  BY <1>2 DEF DisconnectSocket, Disconnect
<1>3. ASSUME NEW s \in Socket, PresenceStep(s) PROVE Good'
  <2>1. UNCHANGED cacheVars /\ UNCHANGED <<conn, killed>> /\ disturbed \subseteq disturbed'
    BY <1>3 DEF PresenceStep, JoinUserRoom, SetFlag, ReadList, WriteList,
            FindOnline, FindOffline, ClearFlag, ClearList, DisturbedIfLive
  <2> QED
    BY <2>1, GoodSame
<1>4. ASSUME NEW s \in Socket, SweepSockets(s) PROVE Good'
  <2>1. /\ cache' = [cache EXCEPT ![Owner[s]] = {}] /\ UNCHANGED locals /\ sweep[s] = "cache"
        /\ UNCHANGED <<conn, crossed, disturbed, killed>>
    BY <1>4 DEF SweepSockets, ClearCache
  <2>2. Owner[s] \in Undisturbed => \A x \in Socket : Owner[x] = Owner[s] => conn[x] # "live"
    BY <2>1 DEF NoSweepOnLive
  <2> QED
    BY <2>1, <2>2, WipeIsGood
<1>5. ASSUME NEW s \in Socket, ReadForAdd(s) PROVE Good'
  BY <1>5 DEF ReadForAdd, MarkCrossed, Crossing
<1>6. ASSUME NEW s \in Socket, WriteForAdd(s) PROVE Good'
  <2>1. /\ add[s] = "write" /\ drop[s] # "done"
        /\ add' = [add EXCEPT ![s] = "done"] /\ UNCHANGED <<vars, drop, dropRead, crossed>>
        /\ cache' = [cache EXCEPT ![Owner[s]] = addRead[s] \cup {s}]
        /\ addRead' = [addRead EXCEPT ![s] = {}]
    BY <1>6 DEF WriteForAdd, Stages
  <2>2. ASSUME NEW x \in Socket, Owner[x] \in Undisturbed \ crossed
        PROVE  /\ Fits(x, cache[Owner[x]])'
               /\ \A t \in Socket \ {x} : Owner[t] = Owner[x] =>
                    /\ add'[t] = "write" => Fits(x, addRead[t])'
                    /\ drop'[t] = "write" => Fits(x, dropRead[t])'
    <3>1. CASE Owner[x] # Owner[s]
      <4>1. \A t \in Socket : Owner[t] = Owner[x] => t # s
        BY <3>1
      <4>2. cache'[Owner[x]] = cache[Owner[x]] /\ add'[x] = add[x]
        BY <2>1, <3>1
      <4> QED
        BY <2>1, <2>2, <4>1, <4>2
    <3>2. CASE x = s
      <4>1. s \in cache'[Owner[s]] /\ add'[s] = "done"
        BY <2>1
      <4>2. \A t \in Socket \ {s} : Owner[t] = Owner[s] => ~Writing(t)
        BY <2>1, <2>2, <3>2 DEF OneWriter, Writing
      <4>3. \A t \in Socket \ {s} : Owner[t] = Owner[s] =>
              add'[t] # "write" /\ drop'[t] # "write"
        BY <2>1, <4>2 DEF Writing
      <4> QED
        BY <2>1, <3>2, <4>1, <4>3
    <3>3. CASE x # s /\ Owner[x] = Owner[s]
      <4>1. Fits(x, addRead[s])
        BY <2>1, <2>2, <3>3
      <4>2. add'[x] = add[x] /\ (x \in cache'[Owner[x]] <=> x \in addRead[s])
        BY <2>1, <3>3
      <4>3. \A t \in Socket \ {x} : Owner[t] = Owner[x] =>
              /\ add'[t] = "write" => t # s /\ add[t] = "write" /\ addRead'[t] = addRead[t]
              /\ drop'[t] = "write" => drop[t] = "write" /\ dropRead'[t] = dropRead[t]
        BY <2>1
      <4> QED
        BY <2>1, <2>2, <4>1, <4>2, <4>3
    <3> QED
      BY <3>1, <3>2, <3>3
  <2> QED
    BY <2>1, <2>2
<1>7. ASSUME NEW s \in Socket, ReadForDrop(s) PROVE Good'
  BY <1>7 DEF ReadForDrop, MarkCrossed, Crossing
<1>8. ASSUME NEW s \in Socket, WriteForDrop(s) PROVE Good'
  <2>1. /\ drop[s] = "write" /\ add[s] = "done"
        /\ drop' = [drop EXCEPT ![s] = "done"] /\ UNCHANGED <<vars, add, addRead, crossed>>
        /\ cache' = [cache EXCEPT ![Owner[s]] = dropRead[s] \ {s}]
        /\ dropRead' = [dropRead EXCEPT ![s] = {}]
    BY <1>8 DEF WriteForDrop
  <2>2. conn[s] # "live"
    BY <2>1 DEF Stages
  <2>3. ASSUME NEW x \in Socket, Owner[x] \in Undisturbed \ crossed
        PROVE  /\ Fits(x, cache[Owner[x]])'
               /\ \A t \in Socket \ {x} : Owner[t] = Owner[x] =>
                    /\ add'[t] = "write" => Fits(x, addRead[t])'
                    /\ drop'[t] = "write" => Fits(x, dropRead[t])'
    <3>1. CASE Owner[x] # Owner[s]
      <4>1. \A t \in Socket : Owner[t] = Owner[x] => t # s
        BY <3>1
      <4>2. cache'[Owner[x]] = cache[Owner[x]] /\ drop'[x] = drop[x]
        BY <2>1, <3>1
      <4> QED
        BY <2>1, <2>3, <4>1, <4>2
    <3>2. CASE x = s
      <4>1. s \notin cache'[Owner[s]] /\ drop'[s] = "done" /\ conn'[s] # "live"
        BY <2>1, <2>2
      <4>2. \A t \in Socket \ {s} : Owner[t] = Owner[s] => ~Writing(t)
        BY <2>1, <2>3, <3>2 DEF OneWriter, Writing
      <4>3. \A t \in Socket \ {s} : Owner[t] = Owner[s] =>
              add'[t] # "write" /\ drop'[t] # "write"
        BY <2>1, <4>2 DEF Writing
      <4> QED
        BY <2>1, <3>2, <4>1, <4>3
    <3>3. CASE x # s /\ Owner[x] = Owner[s]
      <4>1. Fits(x, dropRead[s])
        BY <2>1, <2>3, <3>3
      <4>2. drop'[x] = drop[x] /\ (x \in cache'[Owner[x]] <=> x \in dropRead[s])
        BY <2>1, <3>3
      <4>3. \A t \in Socket \ {x} : Owner[t] = Owner[x] =>
              /\ add'[t] = "write" => add[t] = "write" /\ addRead'[t] = addRead[t]
              /\ drop'[t] = "write" => t # s /\ drop[t] = "write" /\ dropRead'[t] = dropRead[t]
        BY <2>1
      <4> QED
        BY <2>1, <2>3, <4>1, <4>2, <4>3
    <3> QED
      BY <3>1, <3>2, <3>3
  <2> QED
    BY <2>1, <2>3
<1>9. ASSUME NEW h \in Server, CrashServer(h) PROVE Good'
  BY <1>9 DEF CrashServer, Stopped
<1>10. ASSUME NEW u \in User, ExpirePresence(u) PROVE Good'
  <2>1. UNCHANGED cacheVars /\ UNCHANGED <<conn, killed>> /\ disturbed \subseteq disturbed'
    BY <1>10 DEF ExpirePresence, ExpireFlag, DisturbedIfLive
  <2> QED
    BY <2>1, GoodSame
<1>11. ASSUME NEW u \in User, ExpireCache(u) PROVE Good'
  <2>1. /\ cache' = [cache EXCEPT ![u] = {}] /\ UNCHANGED locals
        /\ UNCHANGED <<conn, crossed, killed>>
        /\ disturbed' = disturbed \cup {v \in {u} : Live(v) # {}}
    BY <1>11 DEF ExpireCache, DisturbedIfLive
  <2>2. disturbed \subseteq disturbed'
        /\ (u \in Undisturbed' => \A x \in Socket : Owner[x] = u => conn[x] # "live")
    BY <2>1 DEF Live, Sockets
  <2> QED
    BY <2>1, <2>2, WipeIsGood
<1>12. ASSUME UNCHANGED allVars PROVE Good'
  BY <1>12 DEF allVars, cacheVars, vars, locals
<1> QED
  BY <1>1, <1>2, <1>3, <1>4, <1>5, <1>6, <1>7, <1>8, <1>9, <1>10, <1>11, <1>12
     DEF CacheNext, SocketHandler

-----------------------------------------------------------------------------
(* Theorems *)

LEMMA InitOK == CacheInit => IInv
<1> SUFFICES ASSUME CacheInit PROVE IInv
  OBVIOUS
<1> USE OwnerAssumption DEF CacheInit, Init
<1>1. TypeOK /\ CacheTypeOK
  BY DEF TypeOK, CacheTypeOK
<1>2. Stages /\ NoSweepOnLive
  BY DEF Stages, NoSweepOnLive
<1>3. OneWriter
  BY DEF OneWriter, Writing
<1>4. Good /\ OwnSockets
  BY DEF Good, Fits, OwnSockets
<1> QED
  BY <1>1, <1>2, <1>3, <1>4 DEF IInv

LEMMA InvStep == IInv /\ [CacheNext]_allVars => IInv'
  BY TypeStep, StagesStep, SweepStep, WriterStep, OwnStep, GoodStep DEF IInv

LEMMA Invariance == CacheSpec => []IInv
  BY InitOK, InvStep, PTL DEF CacheSpec

LEMMA InvImplies == IInv => CacheIsLive
<1> SUFFICES ASSUME IInv, NEW u \in Undisturbed \ crossed, CacheSettled(u)
             PROVE  cache[u] = Live(u)
  BY DEF CacheIsLive
<1> USE OwnerAssumption DEF IInv, Undisturbed, Live, Sockets
<1>1. ASSUME NEW s \in cache[u] PROVE s \in Live(u)
  <2>1. s \in Socket /\ Owner[s] = u
    BY DEF CacheTypeOK, OwnSockets
  <2>2. add[s] = "done" /\ drop[s] # "done" /\ drop[s] \in {"idle", "done"}
    BY <2>1 DEF Good, Fits, CacheSettled
  <2> QED
    BY <2>1, <2>2 DEF Stages, TypeOK
<1>2. ASSUME NEW s \in Live(u) PROVE s \in cache[u]
  <2>1. add[s] = "done"
    BY <1>2 DEF Stages, CacheSettled
  <2> QED
    BY <1>2, <2>1 DEF Good, Fits
<1> QED
  BY <1>1, <1>2

\* The action of RemovedStaysRemoved.
StaysRemoved ==
  \A u \in Undisturbed \ crossed : \A s \in Sockets(u) :
    drop[s] = "done" /\ s \notin cache[u] => s \notin cache'[u]

LEMMA StepKeepsRemoved == IInv /\ [CacheNext]_allVars => StaysRemoved
<1> SUFFICES ASSUME IInv, [CacheNext]_allVars,
                    NEW u \in Undisturbed \ crossed, NEW s \in Sockets(u),
                    drop[s] = "done", s \notin cache[u]
             PROVE  s \notin cache'[u]
  BY DEF StaysRemoved
<1> USE OwnerAssumption DEF Sockets
<1>1. s \in Socket /\ Owner[s] = u /\ u \in User /\ cache \in [User -> SUBSET Socket]
  BY DEF Undisturbed, IInv, CacheTypeOK
<1>2. add[s] = "done"
  BY <1>1 DEF IInv, Stages
<1>3. ASSUME NEW t \in Socket, WriteForAdd(t) PROVE s \notin cache'[u]
  <2>1. t # s /\ add[t] = "write" /\ cache' = [cache EXCEPT ![Owner[t]] = addRead[t] \cup {t}]
    BY <1>2, <1>3 DEF WriteForAdd
  <2>2. Owner[t] = u => s \notin addRead[t]
    BY <1>1, <2>1 DEF IInv, Good, Fits
  <2> QED
    BY <1>1, <2>1, <2>2
<1>4. ASSUME NEW t \in Socket, WriteForDrop(t) PROVE s \notin cache'[u]
  <2>1. drop[t] = "write" /\ cache' = [cache EXCEPT ![Owner[t]] = dropRead[t] \ {t}]
    BY <1>4 DEF WriteForDrop
  <2>2. Owner[t] = u => t # s /\ s \notin dropRead[t]
    BY <1>1, <2>1 DEF IInv, Good, Fits
  <2> QED
    BY <1>1, <2>1, <2>2
<1>5. ASSUME NEW t \in Socket, SweepSockets(t) PROVE s \notin cache'[u]
  BY <1>1, <1>5 DEF SweepSockets
<1>6. ASSUME NEW v \in User, ExpireCache(v) PROVE s \notin cache'[u]
  BY <1>1, <1>6 DEF ExpireCache
<1>7. ASSUME NEW t \in Socket,
             ConnectSocket(t) \/ DisconnectSocket(t) \/ PresenceStep(t)
             \/ ReadForAdd(t) \/ ReadForDrop(t)
      PROVE  cache' = cache
  BY <1>7 DEF ConnectSocket, DisconnectSocket, PresenceStep, cacheVars, ReadForAdd,
              ReadForDrop
<1>8. ASSUME (\E h \in Server : CrashServer(h)) \/ (\E v \in User : ExpirePresence(v))
             \/ UNCHANGED allVars
      PROVE  cache' = cache
  BY <1>8 DEF CrashServer, ExpirePresence, cacheVars, allVars
<1> QED
  BY <1>3, <1>4, <1>5, <1>6, <1>7, <1>8 DEF CacheNext, SocketHandler

\* The presence of the composed system and the lists of sockets have their types: only
\* sockets are in a list.
THEOREM TypeCorrect == CacheSpec => []CacheTypeOK
  BY Invariance, PTL DEF IInv

\* addUserSocketToCache, removeUserSocketFromCache and setOfflineStatus: once the handlers
\* of a user have settled, the list holds exactly the live sockets of the user, outside
\* the recorded windows.
THEOREM ListIsTrue == CacheSpec => []CacheIsLive
  BY Invariance, InvImplies, PTL

\* removeUserSocketFromCache: what another socket of the user writes back never holds a
\* socket that was removed.
THEOREM RemovalStands == CacheSpec => RemovedStaysRemoved
<1>1. IInv /\ [CacheNext]_allVars => [StaysRemoved]_allVars
  BY StepKeepsRemoved
<1> QED
  BY <1>1, Invariance, PTL DEF CacheSpec, RemovedStaysRemoved, StaysRemoved

=============================================================================
