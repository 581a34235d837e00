---------------------------- MODULE TrashFolders ----------------------------
(***************************************************************************)
(* Folders in the trash.  The API keeps a row in trash_collection per      *)
(* trashed folder and queues a job for every row it inserts or removes; a  *)
(* worker walks the tree: down from a trashed folder, to trash what is     *)
(* below it, and up from a recovered one, to recover what is above it.     *)
(*                                                                         *)
(* The worker reads its jobs from RabbitMQ, one after the other and each   *)
(* to its end, or from Bull, where the handler does not wait for the walk: *)
(* the job is done at once, and walks run side by side.                    *)
(***************************************************************************)
EXTENDS Naturals, Sequences, FiniteSets, SequencesExt

CONSTANTS
  Folder,
  None,
  Parent,     \* Parent[f]: the folder that f is in, or None
  Request,    \* requests to the API, each made once or never
  MaxFaults   \* bound of failing steps and crashes

ASSUME FolderAssumption == IsFiniteSet(Folder)
ASSUME ParentAssumption == Parent \in [Folder -> Folder \cup {None}] /\ None \notin Folder
ASSUME BoundAssumption  == MaxFaults \in Nat

VARIABLES
  serial,   \* the worker reads from RabbitMQ
  row,      \* row[f]: the id of its row in trash_collection; 0 if it has none
  lastId,   \* the id of the last row
  tombs,    \* ids in deleted_item
  flag,     \* flag[f]: is_trashed of the folder
  links,    \* links[f]: is_trashed of the links in it
  req,      \* req[k]: the request, and where its handler is
  queue,    \* requests with a job in the queue
  walk,     \* walk[k]: the walk of the job of k
  faults,   \* failing steps and crashes so far
  met,      \* history: pairs of walks that ran side by side
  touched,  \* history: touched[k], the folders whose flag the walk of k has set
  purged,   \* history: folders whose row a client has deleted for good
  crossed,  \* history: folders two changes of whose row had their jobs or walks in another
            \* order than the changes
  broken,   \* history: folders left with a part of a change by a failure
  unwalked, \* history: folders a failing walk did not come to
  untold    \* history: ids without a tombstone, or the other way round, by a failure

rows    == <<row, lastId, tombs>>
history == <<met, touched, purged, crossed, broken, unwalked, untold>>
vars    == <<serial, rows, flag, links, req, queue, walk, faults, history>>

Children(f) == {c \in Folder : Parent[c] = f}

\* A trash in order: the trashed folders are closed downwards.
InOrder(S) == \A f \in S : Children(f) \subseteq S

Kind   == {"trash", "recover", "purge"}
NoWalk == [pc |-> "none", at |-> None, todo |-> <<>>, back |-> <<>>]

NoRequest == [pc |-> "new", kind |-> "trash", of |-> None, id |-> 0]

ReqType  == [pc : {"new", "remove", "queue", "tomb", "done", "failed"},
             kind : Kind, of : Folder \cup {None}, id : Nat]
WalkType == [pc : {"none", "flag", "links", "children", "next", "parent", "rows", "tomb",
                   "back", "over"},
             at : Folder \cup {None}, todo : Seq(Folder), back : Seq(Folder \X Nat)]

-----------------------------------------------------------------------------
\* The ids of rows are those of their table: no two rows, and no walk, disagree on them.
TypeOK ==
  /\ serial \in BOOLEAN
  /\ row    \in [Folder -> 0..lastId]
  /\ \A f, g \in Folder : f # g => row[f] # row[g] \/ row[f] = 0
  /\ lastId \in Nat
  /\ tombs  \in SUBSET (1..lastId)
  /\ flag   \in [Folder -> BOOLEAN]
  /\ links  \in [Folder -> BOOLEAN]
  /\ req    \in [Request -> ReqType]
  /\ \A k \in Request : req[k].pc # "new" => req[k].of # None
  /\ queue  \in Seq(Request)
  /\ walk   \in [Request -> WalkType]
  /\ \A k \in Request : walk[k].pc \notin {"none", "over"} =>
       req[k].kind # "purge" /\ walk[k].at # None
  /\ faults \in 0..MaxFaults
  /\ met     \in SUBSET (SUBSET Request)
  /\ touched \in [Request -> SUBSET Folder]
  /\ \A X \in {purged, crossed, broken, unwalked} : X \in SUBSET Folder
  /\ untold \in SUBSET (1..lastId)

Init ==
  /\ serial \in BOOLEAN
  /\ \E S \in {S \in SUBSET Folder : InOrder(S)} :
       /\ flag  = [f \in Folder |-> f \in S]
       /\ links = flag
       /\ lastId = Cardinality(S)
       /\ row \in {r \in [Folder -> 0..lastId] :
                     /\ \A f \in Folder : r[f] # 0 <=> f \in S
                     /\ \A f, g \in S : r[f] = r[g] => f = g}
  /\ tombs = {}
  /\ req    = [k \in Request |-> NoRequest]
  /\ queue  = <<>>
  /\ walk   = [k \in Request |-> NoWalk]
  /\ faults = 0
  /\ met = {}
  /\ touched = [k \in Request |-> {}]
  /\ purged = {}
  /\ crossed = {}
  /\ broken = {}
  /\ unwalked = {}
  /\ untold = {}

-----------------------------------------------------------------------------
(* Rows *)

\* A job about f has still to be queued, or waits in the queue.
Unqueued(f) == \E k \in Request : req[k].of = f /\ req[k].pc = "queue"
Waiting(f)  == \E i \in 1..Len(queue) : req[queue[i]].of = f

CrossedIf(f, cond) == crossed' = IF cond THEN crossed \cup {f} ELSE crossed

\* Wrong on purpose: the id is the number of rows.  Breaks TypeOK.
InsertCounted(f) ==
  /\ lastId' = Cardinality({g \in Folder : row[g] # 0}) + 1
  /\ row'    = [row EXCEPT ![f] = lastId']
  /\ UNCHANGED tombs

InsertRow(f) ==
  /\ row'    = [row EXCEPT ![f] = lastId + 1]
  /\ lastId' = lastId + 1
  /\ UNCHANGED tombs

\* By id: the row may be gone, or another one of the same folder.
RemoveRow(f, id) ==
  /\ row' = [row EXCEPT ![f] = IF @ = id THEN 0 ELSE @]
  /\ UNCHANGED <<lastId, tombs>>

\* Wrong on purpose: no tombstone.  Breaks TombsAreGone.
AddNothing(id) == UNCHANGED <<row, lastId, tombs>>

AddTomb(id) == tombs' = tombs \cup {id} /\ UNCHANGED <<row, lastId>>

-----------------------------------------------------------------------------
(* The API *)

\* save: the unique key refuses a second row of a folder.
SaveTrash(k, f) ==
  /\ req[k].pc = "new"
  /\ \/ /\ row[f] = 0
        /\ InsertRow(f)
        /\ CrossedIf(f, Unqueued(f))
        /\ req' = [req EXCEPT ![k] = [pc |-> "queue", kind |-> "trash", of |-> f, id |-> lastId']]
     \/ /\ row[f] # 0
        /\ req' = [req EXCEPT ![k] = [pc |-> "failed", kind |-> "trash", of |-> f, id |-> 0]]
        /\ UNCHANGED <<rows, crossed>>
  /\ UNCHANGED <<serial, flag, links, queue, walk, faults, met, touched, purged, broken,
                 unwalked, untold>>

\* recover and delete: find the row, await, and remove it.
FindTrash(k, kind, f) ==
  /\ req[k].pc = "new"
  /\ req' = [req EXCEPT ![k] = [pc |-> IF row[f] = 0 THEN "failed" ELSE "remove",
                               kind |-> kind, of |-> f, id |-> row[f]]]
  /\ UNCHANGED <<serial, rows, flag, links, queue, walk, faults, history>>

RemoveTrash(k) ==
  LET f == req[k].of IN
  /\ req[k].pc = "remove"
  /\ RemoveRow(f, req[k].id)
  /\ CrossedIf(f, Unqueued(f) \/ row[f] \notin {0, req[k].id})
  /\ req'    = [req EXCEPT ![k].pc = "queue"]
  /\ purged' = IF req[k].kind = "purge" THEN purged \cup {f} ELSE purged
  /\ UNCHANGED <<serial, flag, links, queue, walk, faults, met, touched, broken, unwalked,
                 untold>>

AfterQueue(k) == IF req[k].kind = "trash" THEN "done" ELSE "tomb"

QueueJob(k) ==
  /\ req[k].pc = "queue"
  /\ req'   = [req EXCEPT ![k].pc = AfterQueue(k)]
  /\ queue' = Append(queue, k)
  /\ UNCHANGED <<serial, rows, flag, links, walk, faults, history>>

\* Bull lets the request fail, with its row changed; RabbitMQ swallows the error, and the
\* handler goes on to the tombstone.
QueueFails(k) ==
  LET f == req[k].of IN
  /\ faults < MaxFaults
  /\ req[k].pc = "queue"
  /\ req'    = [req EXCEPT ![k].pc = IF serial THEN AfterQueue(k) ELSE "failed"]
  /\ faults' = faults + 1
  /\ broken' = broken \cup {f}
  /\ untold' = IF ~serial /\ AfterQueue(k) = "tomb" THEN untold \cup {req[k].id} ELSE untold
  /\ UNCHANGED <<serial, rows, flag, links, queue, walk, met, touched, purged, crossed,
                 unwalked>>

SaveTomb(k) ==
  /\ req[k].pc = "tomb"
  /\ req' = [req EXCEPT ![k].pc = "done"]
  /\ AddTomb(req[k].id)
  /\ UNCHANGED <<serial, flag, links, queue, walk, faults, history>>

\* insert throws, and the batch answers the item with an error: its row is gone and its job
\* on the way, without a tombstone.
TombFails(k) ==
  /\ faults < MaxFaults
  /\ req[k].pc = "tomb"
  /\ req'    = [req EXCEPT ![k].pc = "done"]
  /\ faults' = faults + 1
  /\ untold' = untold \cup {req[k].id}
  /\ UNCHANGED <<serial, rows, flag, links, queue, walk, met, touched, purged, crossed, broken,
                 unwalked>>

-----------------------------------------------------------------------------
(* The walks *)

Active == {k \in Request : walk[k].pc \notin {"none", "over"}}

\* The handler of a job of Bull does not wait; that of RabbitMQ is awaited, with a
\* prefetch of one.
MayStart == queue # <<>> /\ (serial => Active = {})

\* A job of a purged folder returns at once.
StartWalk ==
  LET k == Head(queue) IN
  /\ MayStart
  /\ queue' = Tail(queue)
  /\ walk'  = [walk EXCEPT ![k] = IF req[k].kind = "purge" THEN [NoWalk EXCEPT !.pc = "over"]
                                  ELSE [NoWalk EXCEPT !.pc = "flag", !.at = req[k].of]]
  /\ met'   = IF req[k].kind = "purge" THEN met ELSE met \cup {{k, j} : j \in Active}
  /\ UNCHANGED <<serial, rows, flag, links, req, faults, touched, purged, crossed, broken,
                 unwalked, untold>>

Trashing(k) == req[k].kind = "trash"

\* trashCollection
SetFlag(k) ==
  LET f == walk[k].at IN
  /\ walk[k].pc = "flag"
  /\ flag' = [flag EXCEPT ![f] = Trashing(k)]
  /\ walk' = [walk EXCEPT ![k].pc = "links"]
  /\ touched' = [touched EXCEPT ![k] = @ \cup {f}]
  /\ UNCHANGED <<serial, rows, links, req, queue, faults, met, purged, crossed, broken,
                 unwalked, untold>>

\* updateCollectionsLink
SetLinks(k) ==
  /\ walk[k].pc = "links"
  /\ links' = [links EXCEPT ![walk[k].at] = Trashing(k)]
  /\ walk'  = [walk EXCEPT ![k].pc = IF Trashing(k) THEN "children" ELSE "parent"]
  /\ UNCHANGED <<serial, rows, flag, req, queue, faults, history>>

\* Wrong on purpose: one level only.  Breaks NoneLiveBelow.
LiveChildrenOfTop(k) == {c \in Children(walk[k].at) : ~flag[c] /\ walk[k].at = req[k].of}

\* Those found NOT_TRASHED in the one query of findByParentId.
LiveChildren(k) == {c \in Children(walk[k].at) : ~flag[c]}

ReadChildren(k) ==
  /\ walk[k].pc = "children"
  /\ walk' = [walk EXCEPT ![k].pc = "next", ![k].todo = SetToSeq(LiveChildren(k)) \o @]
  /\ UNCHANGED <<serial, rows, flag, links, req, queue, faults, history>>

\* The row of a child, and then the walk of the child, before the next one.
TrashChild(k) ==
  LET c == Head(walk[k].todo) IN
  /\ walk[k].pc = "next" /\ walk[k].todo # <<>>
  /\ row[c] = 0
  /\ InsertRow(c)
  /\ CrossedIf(c, Unqueued(c) \/ Waiting(c))
  /\ walk' = [walk EXCEPT ![k].pc = "flag", ![k].at = c, ![k].todo = Tail(@)]
  /\ UNCHANGED <<serial, flag, links, req, queue, faults, met, touched, purged, broken,
                 unwalked, untold>>

TrashedParent(p) == p # None /\ flag[p]

ReadParent(k) ==
  /\ walk[k].pc = "parent"
  /\ walk' = [walk EXCEPT ![k].pc = IF TrashedParent(Parent[walk[k].at]) THEN "rows" ELSE "back"]
  /\ UNCHANGED <<serial, rows, flag, links, req, queue, faults, history>>

\* Without a row nothing is recovered: the client has purged it, or asked for it itself.
ReadRows(k) ==
  LET p == Parent[walk[k].at] IN
  /\ walk[k].pc = "rows"
  /\ walk' = [walk EXCEPT
       ![k].pc   = IF row[p] = 0 THEN "back" ELSE "tomb",
       ![k].back = IF row[p] = 0 THEN @ ELSE <<<<p, row[p]>>>> \o @]
  /\ UNCHANGED <<serial, rows, flag, links, req, queue, faults, history>>

\* createDeleteItemNoUid, and then the walk of the parent.
TombParent(k) ==
  /\ walk[k].pc = "tomb"
  /\ AddTomb(Head(walk[k].back)[2])
  /\ walk' = [walk EXCEPT ![k].pc = "flag", ![k].at = Head(walk[k].back)[1]]
  /\ UNCHANGED <<serial, flag, links, req, queue, faults, history>>

\* Wrong on purpose: rows of recovered parents stay.  Breaks FlagsAreRows.
RemoveNone(f, id) == UNCHANGED rows

RemoveParent(f, id) == RemoveRow(f, id)

\* After the recursion, from the top down: trashRepo.remove.
GoBack(k) ==
  LET p  == Head(walk[k].back)[1]
      id == Head(walk[k].back)[2]
  IN
  /\ walk[k].pc = "back" /\ walk[k].back # <<>>
  /\ RemoveParent(p, id)
  /\ CrossedIf(p, row[p] = id /\ (Unqueued(p) \/ Waiting(p)))
  /\ walk' = [walk EXCEPT ![k].back = Tail(@)]
  /\ UNCHANGED <<serial, flag, links, req, queue, faults, met, touched, purged, broken,
                 unwalked, untold>>

EndWalk(k) ==
  /\ walk[k].pc \in {"next", "back"} /\ walk[k].todo = <<>> /\ walk[k].back = <<>>
  /\ walk' = [walk EXCEPT ![k] = [NoWalk EXCEPT !.pc = "over"]]
  /\ UNCHANGED <<serial, rows, flag, links, req, queue, faults, history>>

-----------------------------------------------------------------------------
(* Failures *)

HalfDone(k) == (IF walk[k].pc \in {"flag", "links"} THEN {walk[k].at} ELSE {})
               \cup {b[1] : b \in ToSet(walk[k].back)}

\* The folders next on a walk down, and the folder a walk up is at.
Unreached(k) ==
  IF ~Trashing(k) \/ walk[k].pc = "flag" THEN {walk[k].at} \cup ToSet(walk[k].todo)
  ELSE IF walk[k].pc \in {"links", "children"}
       THEN Children(walk[k].at) \cup ToSet(walk[k].todo)
  ELSE ToSet(walk[k].todo)

\* A walk is given up; then marks say what it leaves undone.
GiveUp(S) ==
  /\ broken'   = broken \cup UNION {HalfDone(k) : k \in S}
  /\ unwalked' = unwalked \cup UNION {Unreached(k) : k \in S}
  /\ untold'   = untold \cup UNION {{b[2] : b \in ToSet(walk[k].back)} : k \in S}

\* The child has a row already, which its own job will see to: the exception ends the
\* walk, with the brothers of the child.
ChildHasRow(k) ==
  /\ walk[k].pc = "next" /\ walk[k].todo # <<>>
  /\ row[Head(walk[k].todo)] # 0
  /\ GiveUp({k})
  /\ walk' = [walk EXCEPT ![k] = [NoWalk EXCEPT !.pc = "over"]]
  /\ UNCHANGED <<serial, rows, flag, links, req, queue, faults, met, touched, purged, crossed>>

\* An exception of the database, swallowed or, in Bull, unhandled.
WalkFails(k) ==
  /\ faults < MaxFaults
  /\ k \in Active
  /\ GiveUp({k})
  /\ walk'   = [walk EXCEPT ![k] = [NoWalk EXCEPT !.pc = "over"]]
  /\ faults' = faults + 1
  /\ UNCHANGED <<serial, rows, flag, links, req, queue, met, touched, purged, crossed>>

\* The worker dies.  The job of RabbitMQ was not acknowledged and comes again, from its
\* start; those of Bull were done.
Crash ==
  /\ faults < MaxFaults
  /\ Active # {}
  /\ GiveUp(Active)
  /\ walk'   = [k \in Request |-> IF k \notin Active THEN walk[k]
                                  ELSE IF serial THEN NoWalk ELSE [NoWalk EXCEPT !.pc = "over"]]
  /\ queue'  = IF serial THEN SetToSeq(Active) \o queue ELSE queue
  /\ faults' = faults + 1
  /\ UNCHANGED <<serial, rows, flag, links, req, met, touched, purged, crossed>>

-----------------------------------------------------------------------------
RequestStep(k) == \/ \E f \in Folder : \/ SaveTrash(k, f)
                                        \/ \E kind \in {"recover", "purge"} : FindTrash(k, kind, f)
                  \/ RemoveTrash(k) \/ QueueJob(k) \/ QueueFails(k) \/ SaveTomb(k) \/ TombFails(k)

WalkStep(k) == \/ SetFlag(k) \/ SetLinks(k) \/ ReadChildren(k) \/ TrashChild(k)
               \/ ReadParent(k) \/ ReadRows(k) \/ TombParent(k) \/ GoBack(k) \/ EndWalk(k)
               \/ ChildHasRow(k) \/ WalkFails(k)

Next == StartWalk \/ Crash \/ \E k \in Request : RequestStep(k) \/ WalkStep(k)

Spec == Init /\ [][Next]_vars

-----------------------------------------------------------------------------
(* Properties *)

Quiet == /\ \A k \in Request : req[k].pc \in {"new", "done", "failed"}
         /\ queue = <<>> /\ Active = {}

\* Two walks that ran side by side have both set the flag of f.
Raced(f) == \E P \in met : \A k \in P : f \in touched[k]

\* When all is done, the folders with a row are those with the flag, and so are their
\* links: whatever was trashed and recovered meanwhile, from above and from below.  The
\* two part only where two walks of Bull raced, where a row changed before the job of an
\* earlier change was queued or, by a walk, done, where a recovery came too late for its
\* row, where a client deleted the row for good, and where a failure left a change half
\* done.
FlagsAreRows ==
  Quiet => \A f \in Folder \ (purged \cup crossed \cup broken) :
    Raced(f) \/ (flag[f] = (row[f] # 0) /\ links[f] = flag[f])

\* When all is done, no live folder is below a trashed one, which no client would show:
\* trashing goes all the way down, and recovering all the way up.
NoneLiveBelow ==
  Quiet => \A f \in Folder \ unwalked :
    Parent[f] # None /\ flag[Parent[f]] =>
      flag[f] \/ Parent[f] \in purged \cup crossed \cup broken \/ Raced(Parent[f])

\* When all is done, every row that is gone has the tombstone clients learn it from,
\* and no row that is there has one.
TombsAreGone ==
  Quiet => \A id \in (1..lastId) \ untold :
    id \in tombs <=> \A f \in Folder : row[f] # id

=============================================================================
