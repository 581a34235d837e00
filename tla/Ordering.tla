------------------------------ MODULE Ordering ------------------------------
(***************************************************************************)
(* The ordering of the objects of one user and one type: requests that     *)
(* reset it (the worker numbers all objects anew) and requests that sort   *)
(* (the worker moves some objects between their neighbours).  Both are     *)
(* accepted by the API, which keeps a status per request_uid in Redis and  *)
(* queues a job; the statuses of resets are also the only thing that keeps *)
(* other requests out while a reset runs.                                  *)
(*                                                                         *)
(* Of an order number only its time is kept, order_update_time: which of   *)
(* two writes of a number stands depends on nothing else.                  *)
(***************************************************************************)
EXTENDS Naturals, FiniteSets

CONSTANTS
  Reset, Sort,   \* requests, each made once with a uid of its own
  Item,          \* the objects
  Moves,         \* Moves[s]: the objects that sort s moves
  Time,          \* Time[s]: the order_update_time its client gave
  MaxTime,       \* bound of times
  MaxFaults      \* bound of crashes of the worker and jobs given up by an exception

Request == Reset \cup Sort

ASSUME DisjointAssumption == Reset \cap Sort = {}
ASSUME SortAssumption     == /\ Moves \in [Sort -> SUBSET Item]
                             /\ Time \in [Sort -> 1..MaxTime]
ASSUME BoundAssumption    == MaxTime \in Nat /\ MaxFaults \in Nat

VARIABLES
  call,     \* call[p]: where the handler of request p in the API is
  unread,   \* unread[p]: keys of resets it has listed and not read yet
  key,      \* key[p]: the status in Redis; "none": not set, or expired
  job,      \* job[p]: where the job of p is
  left,     \* left[s]: objects of its list that sort s has still to write
  order,    \* order[i]: order_update_time of i
  faults,   \* crashes of the worker and jobs given up so far
  early,    \* history: <<p, r>>, p listed the keys before the key of r was set
  finished, \* history: requests whose key has been DONE since they were begun
  again,    \* history: resets set to IN_PROCESS when their key was DONE or gone
  given,    \* history: requests whose job was never added, was dropped, or ended
            \* without a last status
  stale,    \* history: <<s, r>>, r renumbered between the reading of s and a write
  unsaved,  \* history: <<s, i>>, an update of i by s that failed
  undone    \* history: objects whose time a reset has set back

api     == <<call, unread>>
history == <<early, finished, again, given, stale, unsaved, undone>>
vars    == <<api, key, job, left, order, faults, history>>

Status  == {"none", "INIT", "IN_PROCESS", "DONE"}
InWork  == {"found", "begun", "read", "saved", "ended"}

-----------------------------------------------------------------------------
TypeOK ==
  /\ call   \in [Request -> {"new", "read", "set", "add", "replied", "refused"}]
  /\ unread \in [Request -> SUBSET Reset]
  /\ key    \in [Request -> Status]
  /\ job    \in [Request -> {"none", "queued", "over"} \cup InWork]
  /\ left   \in [Sort -> SUBSET Item] /\ \A s \in Sort : left[s] # {} => job[s] = "read"
  /\ order  \in [Item -> 0..MaxTime]
  /\ faults \in 0..MaxFaults
  /\ early  \in SUBSET (Request \X Reset)
  /\ finished \in SUBSET Request
  /\ again  \in SUBSET Reset
  /\ given  \in SUBSET Request
  /\ stale  \in SUBSET (Sort \X Reset)
  /\ unsaved \in SUBSET (Sort \X Item)
  /\ undone \in SUBSET Item

Init ==
  /\ call   = [p \in Request |-> "new"]
  /\ unread = [p \in Request |-> {}]
  /\ key    = [p \in Request |-> "none"]
  /\ job    = [p \in Request |-> "none"]
  /\ left   = [s \in Sort |-> {}]
  /\ order  = [i \in Item |-> 0]
  /\ faults = 0
  /\ early  = {}
  /\ finished = {}
  /\ again  = {}
  /\ given  = {}
  /\ stale  = {}
  /\ unsaved = {}
  /\ undone = {}

Running(r) == key[r] \in {"INIT", "IN_PROCESS"}
NoKeyYet(r) == call[r] \in {"new", "read", "set"}

-----------------------------------------------------------------------------
(* The API *)

\* isResetOrderRunning: KEYS, and after it a GET for each.
ListKeys(p) ==
  LET listed == {r \in Reset : key[r] # "none"} IN
  /\ call[p] = "new"
  /\ call'   = [call EXCEPT ![p] = IF listed = {} THEN "set" ELSE "read"]
  /\ unread' = [unread EXCEPT ![p] = listed]
  /\ early'  = early \cup {<<p, r>> : r \in {r \in Reset \ {p} : NoKeyYet(r)}}
  /\ UNCHANGED <<key, job, left, order, faults, finished, again, given, stale, unsaved,
                 undone>>

\* Wrong on purpose: INIT does not count as running.  Breaks OneReset.
BlocksBegun(r) == key[r] = "IN_PROCESS"

\* Wrong on purpose: IN_PROCESS does not count as running.  Breaks StaleOnlyIfEarly.
BlocksInit(r) == key[r] = "INIT"

Blocks(r) == Running(r)

\* A request is refused at the first reset that runs, and passes after the last GET.
ReadKey(p, r) ==
  LET rest == unread[p] \ {r} IN
  /\ call[p] = "read" /\ r \in unread[p]
  /\ call'   = [call EXCEPT ![p] = IF Blocks(r) THEN "refused"
                                   ELSE IF rest = {} THEN "set" ELSE "read"]
  /\ unread' = [unread EXCEPT ![p] = IF Blocks(r) THEN {} ELSE rest]
  /\ UNCHANGED <<key, job, left, order, faults, history>>

SetInit(p) ==
  /\ call[p] = "set"
  /\ call' = [call EXCEPT ![p] = "add"]
  /\ key'  = [key EXCEPT ![p] = "INIT"]
  /\ UNCHANGED <<unread, job, left, order, faults, history>>

AddJob(p) ==
  /\ call[p] = "add"
  /\ call' = [call EXCEPT ![p] = "replied"]
  /\ job'  = [job EXCEPT ![p] = "queued"]
  /\ UNCHANGED <<unread, key, left, order, faults, history>>

\* The queue is down.  With BullMQ the client of a reset is told so; all others get
\* their reply as if nothing had happened.  The key stays INIT.
AddFails(p) ==
  /\ call[p] = "add"
  /\ call'  = [call EXCEPT ![p] = "replied"]
  /\ given' = given \cup {p}
  /\ UNCHANGED <<unread, key, job, left, order, faults, early, finished, again, stale,
                 unsaved, undone>>

-----------------------------------------------------------------------------
(* The worker *)

\* Wrong on purpose: a sort is taken whatever its status.  Breaks OnlyForward.
MayBeginAny(p) == key[p] # "none"

\* A reset is begun if its key is there; a sort only if it is INIT.
MayBegin(p) == IF p \in Reset THEN key[p] # "none" ELSE key[p] = "INIT"

TakeJob(p) ==
  /\ job[p] = "queued"
  /\ job'   = [job EXCEPT ![p] = IF MayBegin(p) THEN "found" ELSE "ended"]
  /\ given' = IF MayBegin(p) THEN given ELSE given \cup {p}
  /\ UNCHANGED <<api, key, left, order, faults, early, finished, again, stale, unsaved,
                 undone>>

Begin(p) ==
  /\ job[p] = "found"
  /\ job'   = [job EXCEPT ![p] = "begun"]
  /\ key'   = [key EXCEPT ![p] = "IN_PROCESS"]
  /\ again' = again \cup ({p} \cap {r \in Reset : ~Running(r)})
  /\ finished' = finished \ {p}
  /\ UNCHANGED <<api, left, order, faults, early, given, stale, unsaved, undone>>

\* The stored function numbers every object anew, in one transaction, and gives
\* it the time of the database.
Renumber(r) ==
  /\ r \in Reset /\ job[r] = "begun"
  /\ job'    = [job EXCEPT ![r] = "saved"]
  /\ \E t \in 0..MaxTime :
       /\ order'  = [i \in Item |-> t]
       /\ undone' = undone \cup {i \in Item : order[i] > t}
  /\ stale'  = stale \cup {<<s, r>> : s \in {s \in Sort : left[s] # {}}}
  /\ UNCHANGED <<api, key, left, faults, early, finished, again, given, unsaved>>

\* Wrong on purpose: an error leaves the status as it is.  Breaks KeyHasJob.
AfterErrorEnded == "ended"

\* An error of the function is caught, and the status is DONE all the same.
AfterError == "saved"

RenumberFails(r) ==
  /\ r \in Reset /\ job[r] = "begun"
  /\ job' = [job EXCEPT ![r] = AfterError]
  /\ UNCHANGED <<api, key, left, order, faults, history>>

\* It returns @nReturn, which nothing sets when there is no object: no branch of
\* the code then gives the key a last status.
RenumberNothing(r) ==
  /\ r \in Reset /\ job[r] = "begun"
  /\ job'   = [job EXCEPT ![r] = "ended"]
  /\ given' = given \cup {r}
  /\ UNCHANGED <<api, key, left, order, faults, early, finished, again, stale, unsaved,
                 undone>>

ReadList(s) ==
  /\ s \in Sort /\ job[s] = "begun"
  /\ job'  = [job EXCEPT ![s] = "read"]
  /\ left' = [left EXCEPT ![s] = Moves[s]]
  /\ UNCHANGED <<api, key, order, faults, history>>

\* Wrong on purpose: the other way round.  Breaks DoneMeansDone.
LessThanSwapped(i, t) == order[i] > t

\* The condition of the UPDATE.
LessThan(i, t) == order[i] < t

SaveItem(s, i) ==
  /\ job[s] = "read" /\ i \in left[s]
  /\ order' = IF LessThan(i, Time[s]) THEN [order EXCEPT ![i] = Time[s]] ELSE order
  /\ left'  = [left EXCEPT ![s] = @ \ {i}]
  /\ UNCHANGED <<api, key, job, faults, history>>

\* Ten duplicates in a row, or any other error: updateSortWithRepo swallows it.
SaveItemFails(s, i) ==
  /\ job[s] = "read" /\ i \in left[s]
  /\ left'    = [left EXCEPT ![s] = @ \ {i}]
  /\ unsaved' = unsaved \cup {<<s, i>>}
  /\ UNCHANGED <<api, key, job, order, faults, early, finished, again, given, stale, undone>>

\* Any other exception, of the database or of Redis, from the first statement of the job to
\* the last: handleSortOrder or the processor swallows it, the job is acknowledged, and the
\* status stays as it is.  So does a missing user.  (Of a reset, the stored function has
\* cases of its own.)
WorkFails(p) ==
  /\ faults < MaxFaults
  /\ job[p] \in {"queued", "found", "read", "saved"} \/ (p \in Sort /\ job[p] = "begun")
  /\ job'   = [job EXCEPT ![p] = "ended"]
  /\ left'  = [s \in Sort |-> IF s = p THEN {} ELSE left[s]]
  /\ given' = given \cup {p}
  /\ faults' = faults + 1
  /\ UNCHANGED <<api, key, order, early, finished, again, stale, unsaved, undone>>

Finish(p) ==
  /\ job[p] = "saved" \/ (p \in Sort /\ job[p] = "read" /\ left[p] = {})
  /\ job' = [job EXCEPT ![p] = "ended"]
  /\ key' = [key EXCEPT ![p] = "DONE"]
  /\ finished' = finished \cup {p}
  /\ UNCHANGED <<api, left, order, faults, early, again, given, stale, unsaved, undone>>

Ack(p) ==
  /\ job[p] = "ended"
  /\ job' = [job EXCEPT ![p] = "over"]
  /\ UNCHANGED <<api, key, left, order, faults, history>>

\* Wrong on purpose: the list outlives the worker.  Breaks TypeOK.
CrashKeepsList(p) ==
  /\ faults < MaxFaults
  /\ job[p] \in InWork
  /\ job'    = [job EXCEPT ![p] = "queued"]
  /\ faults' = faults + 1
  /\ UNCHANGED <<api, key, left, order, history>>

\* The worker dies; what it had not acknowledged is delivered again.
Crash(p) ==
  /\ faults < MaxFaults
  /\ job[p] \in InWork
  /\ job'    = [job EXCEPT ![p] = "queued"]
  /\ left'   = [s \in Sort |-> IF s = p THEN {} ELSE left[s]]
  /\ faults' = faults + 1
  /\ UNCHANGED <<api, key, order, history>>

\* The time to live of a key runs from its last SET, whatever the job does.
Expire(p) ==
  /\ key[p] # "none"
  /\ key' = [key EXCEPT ![p] = "none"]
  /\ UNCHANGED <<api, job, left, order, faults, history>>

-----------------------------------------------------------------------------
ApiStep(p)  == ListKeys(p) \/ (\E r \in Reset : ReadKey(p, r))
               \/ SetInit(p) \/ AddJob(p)

WorkStep(p) == \/ TakeJob(p) \/ Begin(p) \/ Renumber(p) \/ ReadList(p) \/ Finish(p)
               \/ Ack(p)
               \/ \E i \in Item : p \in Sort /\ SaveItem(p, i)

Faulty(p)   == \/ AddFails(p) \/ RenumberFails(p) \/ RenumberNothing(p) \/ WorkFails(p)
               \/ Crash(p) \/ Expire(p)
               \/ \E i \in Item : p \in Sort /\ SaveItemFails(p, i)

Next == \E p \in Request : ApiStep(p) \/ WorkStep(p) \/ Faulty(p)

Spec == Init /\ [][Next]_vars

-----------------------------------------------------------------------------
(* Properties *)

\* The check of resetOrder and of every sort exists for this: no two resets run at a
\* time.  Two do only if each listed the keys before the other set its own, or if a job
\* that was delivered again, or outlived its key, set it to IN_PROCESS anew.
OneReset ==
  \A r1, r2 \in Reset :
    r1 # r2 /\ Running(r1) /\ Running(r2) =>
      \/ {<<r1, r2>>, <<r2, r1>>} \subseteq early
      \/ r1 \in again \/ r2 \in again

\* A sort writes numbers it has worked out from a list that a reset has since numbered
\* anew only if the API let it pass before the reset had its key, or the reset outlived
\* its key or runs again.
StaleOnlyIfEarly ==
  \A p \in stale : p \in early \/ p[2] \in again \/ key[p[2]] # "IN_PROCESS"

\* A status that says there is more to come has a job behind it, except where the code
\* gives the job up and leaves the status to expire.
KeyHasJob ==
  \A p \in Request \ given :
    /\ key[p] = "INIT" => call[p] = "add" \/ job[p] \in {"queued", "found"}
    /\ key[p] = "IN_PROCESS" => job[p] \in {"queued", "found", "begun", "read", "saved"}

\* A sort that is DONE has moved its objects, unless they have been moved later, the
\* update failed, or a reset has set their time back.
DoneMeansDone ==
  \A s \in Sort : key[s] = "DONE" =>
    \A i \in Moves[s] : \/ order[i] >= Time[s]
                        \/ <<s, i>> \in unsaved
                        \/ i \in undone

\* What clients see of a status moves as JobStatus says: that of a sort only forward.
ClientView(p) ==
  IF key[p] # "none" THEN key[p]
  ELSE IF NoKeyYet(p) \/ call[p] = "refused" THEN "unknown"
  ELSE IF p \in finished THEN "past" ELSE "lost"

Promise(p) == INSTANCE JobStatus WITH
  Repeatable <- p \in Reset, status <- ClientView(p)

OnlyForward ==
  /\ \A p \in Request : Promise(p)!Init
  /\ [][\A p \in Request : [Promise(p)!Next]_(ClientView(p))]_vars

=============================================================================
