---------------------------- MODULE LastModified ----------------------------
(***************************************************************************)
(* The bookkeeping of last changes, for one api_name: api_last_modified    *)
(* holds for every user the date of the last change, which clients compare *)
(* with what they have, and push_change the users whose devices are still  *)
(* to be woken for it.                                                     *)
(*                                                                         *)
(* A change comes in one of three ways.  The API queues it for one user    *)
(* (own) or for all users of a collection (shared), and a worker writes    *)
(* it; or a client puts a date of its own with a stored procedure (put).   *)
(* A cron job pushes to the users with an overdue row and deletes the rows,*)
(* whether the push has reached them or not.                               *)
(***************************************************************************)
EXTENDS Naturals, FiniteSets

CONSTANTS
  User,
  Update,     \* changes, each made once
  Kind,       \* Kind[k]: the way change k comes in
  Reaches,    \* Reaches[k]: the users it is for
  Date,       \* Date[k]: its updated_date
  MaxDate,    \* bound of the dates and of the clock
  Limit,      \* LIMIT: rows per page of the cron job
  MaxFaults   \* bound of redeliveries, restarts and pushes that miss users

ASSUME UserAssumption   == IsFiniteSet(User)
ASSUME UpdateAssumption == /\ Kind \in [Update -> {"own", "shared", "put"}]
                           /\ Reaches \in [Update -> SUBSET User]
                           /\ Date \in [Update -> 1..MaxDate]
ASSUME OneUserAssumption == \A k \in Update : Kind[k] # "shared" =>
                              \E u \in User : Reaches[k] = {u}
ASSUME BoundAssumption   == MaxDate \in Nat /\ Limit \in Nat \ {0} /\ MaxFaults \in Nat

VARIABLES
  alm,      \* alm[u]: api_modified_date of u; 0 if it has no row
  push,     \* push[u]: created_date of the row of u in push_change; 0 if it has none
  pc,       \* pc[k]: where the handling of k is
  seen,     \* seen[k][u]: the date the stored function read of u
  cron,     \* where the cron job is; "stuck": isRunning was not reset
  cutoff,   \* pushChangeTime, its local variable
  offset,   \* the offset of its page
  total,    \* numRows of its page
  page,     \* the users of its page whose rows are not deleted yet
  clock,    \* the time, less overdueTime
  faults,   \* redeliveries, restarts and pushes that missed users so far
  owed,     \* history: users whose date has risen since they were last pushed to
  lowered,  \* history: users whose date changed between a read and its write
  missed,   \* history: users with a rise left to a row already pushed
  outrun,   \* history: changes whose UPDATE met no row, and whose SELECT a row of
            \* another, older change
  unpushed  \* history: users with a rise whose row is deleted though no push went out

job     == <<alm, push, pc, seen>>
tick    == <<cron, cutoff, offset, total, page>>
history == <<owed, lowered, missed, outrun, unpushed>>
vars    == <<job, tick, clock, faults, history>>

UserOf(k) == CHOOSE u \in User : Reaches[k] = {u}
NoMarks   == [u \in User |-> 0]

\* The await points of createLastModify, of the stored procedure and of its function.
OwnSteps      == {"update", "find", "insert", "findpush", "insertpush"}
FunctionSteps == {"read", "write"}
Working       == OwnSteps \cup FunctionSteps \cup {"check"}

-----------------------------------------------------------------------------
TypeOK ==
  /\ alm    \in [User -> 0..MaxDate]
  /\ push   \in [User -> 0..MaxDate]
  /\ pc     \in [Update -> {"new", "queued", "ack", "done", "failed"} \cup Working]
  /\ seen   \in [Update -> [User -> 0..MaxDate]]
  /\ cron   \in {"idle", "list", "push", "clean", "stuck"}
  /\ cutoff \in 0..MaxDate
  /\ offset \in Nat
  /\ total  \in Nat
  /\ page   \in SUBSET {u \in User : push[u] # 0}   \* nobody else deletes its rows
  /\ clock  \in 0..MaxDate
  /\ faults \in 0..MaxFaults
  /\ owed   \in SUBSET User
  /\ lowered \in SUBSET User
  /\ missed \in SUBSET User
  /\ outrun \in SUBSET Update
  /\ unpushed \in SUBSET User

Init ==
  /\ alm    = NoMarks
  /\ push   = NoMarks
  /\ pc     = [k \in Update |-> "new"]
  /\ seen   = [k \in Update |-> NoMarks]
  /\ cron   = "idle"
  /\ cutoff = 0
  /\ offset = 0
  /\ total  = 0
  /\ page   = {}
  /\ clock  = 0
  /\ faults = 0
  /\ owed   = {}
  /\ lowered = {}
  /\ missed = {}
  /\ outrun = {}
  /\ unpushed = {}

Goto(k, from, to) ==
  /\ pc[k] = from
  /\ pc' = [pc EXCEPT ![k] = to]

-----------------------------------------------------------------------------
(* The ways in *)

\* addJob and its kin; an error of the queue is swallowed and the change is lost.
AddJob(k) ==
  /\ Kind[k] # "put"
  /\ \E to \in {"queued", "failed"} : Goto(k, "new", to)
  /\ UNCHANGED <<alm, push, seen, tick, clock, faults, history>>

PutRequest(k) ==
  /\ Kind[k] = "put"
  /\ Goto(k, "new", "check")
  /\ UNCHANGED <<alm, push, seen, tick, clock, faults, history>>

TakeJob(k) ==
  /\ Goto(k, "queued", IF Kind[k] = "own" THEN "update" ELSE "read")
  /\ UNCHANGED <<alm, push, seen, tick, clock, faults, history>>

-----------------------------------------------------------------------------
(* createLastModify *)

\* The condition of the UPDATE.
Outdated(u, date) == alm[u] # 0 /\ alm[u] < date

UpdateMark(k) ==
  LET u == UserOf(k)
      hit == Outdated(u, Date[k])
  IN
  /\ Goto(k, "update", IF hit THEN "findpush" ELSE "find")
  /\ alm'  = IF hit THEN [alm EXCEPT ![u] = Date[k]] ELSE alm
  /\ owed' = IF hit THEN owed \cup {u} ELSE owed
  /\ UNCHANGED <<push, seen, tick, clock, faults, lowered, missed, outrun, unpushed>>

\* Wrong on purpose: no second look, the row of an unchanged date is not inserted.
\* Breaks DoneIsRecorded.
AfterFindAny(u) == "findpush"

\* Wrong on purpose: a date that did not change needs no push.  Breaks Told, when a job
\* is delivered again.
AfterFindDone(u) == IF alm[u] = 0 THEN "insert" ELSE "ack"

AfterFind(u) == IF alm[u] = 0 THEN "insert" ELSE "findpush"

\* Any row will do: its date is not compared again.
FindMark(k) ==
  /\ Goto(k, "find", AfterFind(UserOf(k)))
  /\ outrun' = IF Outdated(UserOf(k), Date[k]) THEN outrun \cup {k} ELSE outrun
  /\ UNCHANGED <<alm, push, seen, tick, clock, faults, owed, lowered, missed, unpushed>>

\* The unique key refuses a second row: the exception ends the job, whatever its date.
InsertMark(k) ==
  LET u == UserOf(k) IN
  /\ Goto(k, "insert", IF alm[u] = 0 THEN "findpush" ELSE "failed")
  /\ alm'  = IF alm[u] = 0 THEN [alm EXCEPT ![u] = Date[k]] ELSE alm
  /\ owed' = IF alm[u] = 0 THEN owed \cup {u} ELSE owed
  /\ UNCHANGED <<push, seen, tick, clock, faults, lowered, missed, outrun, unpushed>>

\* Rows that are deleted without another push: the push has gone out.
Pushed(u) == cron = "clean" /\ u \in page

FindPush(k) ==
  LET u == UserOf(k) IN
  /\ Goto(k, "findpush", IF push[u] = 0 THEN "insertpush" ELSE "ack")
  /\ missed' = IF Pushed(u) THEN missed \cup {u} ELSE missed
  /\ UNCHANGED <<alm, push, seen, tick, clock, faults, owed, lowered, outrun, unpushed>>

\* INSERT IGNORE: a row that is there stays as it is.
InsertIgnore(users, date) ==
  [u \in User |-> IF u \in users /\ push[u] = 0 THEN date ELSE push[u]]

InsertPush(k) ==
  /\ Goto(k, "insertpush", "ack")
  /\ push' = InsertIgnore(Reaches[k], Date[k])
  /\ UNCHANGED <<alm, seen, tick, clock, faults, history>>

-----------------------------------------------------------------------------
(* The stored procedure and its function m2023_insertAPILastModify *)

\* The procedure looks first, in a statement of its own.
CheckMark(k) ==
  /\ Goto(k, "check", IF alm[UserOf(k)] >= Date[k] THEN "done" ELSE "read")
  /\ UNCHANGED <<alm, push, seen, tick, clock, faults, history>>

\* The function is called in one statement, for one user or in a loop over all of
\* them: it reads from the snapshot of its first SELECT.
ReadMarks(k) ==
  /\ Goto(k, "read", "write")
  /\ seen' = [seen EXCEPT ![k] = [u \in User |-> IF u \in Reaches[k] THEN alm[u] ELSE 0]]
  /\ UNCHANGED <<alm, push, tick, clock, faults, history>>

\* Wrong on purpose: without the comparison.  Breaks NeverBack.
BehindOrNot(k) == Reaches[k]

Behind(k) == {u \in Reaches[k] : seen[k][u] < Date[k]}

\* Wrong on purpose: no row for those who have a date already.  Breaks ToldOrWaiting.
ToWakeFirst(k) == {u \in Behind(k) : seen[k][u] = 0}

ToWake(k) == Behind(k)

\* ON DUPLICATE KEY UPDATE does not compare the dates again.
WriteMarks(k) ==
  /\ Goto(k, "write", IF Kind[k] = "put" THEN "done" ELSE "ack")
  /\ alm'  = [u \in User |-> IF u \in Behind(k) THEN Date[k] ELSE alm[u]]
  /\ push' = InsertIgnore(ToWake(k), Date[k])
  /\ seen' = [seen EXCEPT ![k] = NoMarks]
  /\ owed' = owed \cup Behind(k)
  /\ lowered' = lowered \cup {u \in Behind(k) : seen[k][u] # alm[u]}
  /\ missed'  = missed \cup {u \in Behind(k) : Pushed(u)}
  /\ UNCHANGED <<tick, clock, faults, outrun, unpushed>>

-----------------------------------------------------------------------------
(* The end of a job, and its failures *)

Ack(k) ==
  /\ Goto(k, "ack", "done")
  /\ UNCHANGED <<alm, push, seen, tick, clock, faults, history>>

\* Errors of the database are caught in the handler: the job counts as done.
Fail(k) ==
  /\ pc[k] \in Working
  /\ pc'   = [pc EXCEPT ![k] = "failed"]
  /\ seen' = [seen EXCEPT ![k] = NoMarks]
  /\ UNCHANGED <<alm, push, tick, clock, faults, history>>

\* The worker dies before the acknowledgement: the job is delivered again.
Redeliver(k) ==
  /\ faults < MaxFaults
  /\ Kind[k] # "put" /\ pc[k] \in Working \cup {"ack"}
  /\ pc'     = [pc EXCEPT ![k] = "queued"]
  /\ seen'   = [seen EXCEPT ![k] = NoMarks]
  /\ faults' = faults + 1
  /\ UNCHANGED <<alm, push, tick, clock, history>>

-----------------------------------------------------------------------------
(* The cron job *)

Tick ==
  /\ clock < MaxDate
  /\ clock' = clock + 1
  /\ UNCHANGED <<job, tick, faults, history>>

\* While isRunning is set, the timer does nothing.
StartCron ==
  /\ cron = "idle"
  /\ cron'   = "list"
  /\ cutoff' = clock
  /\ UNCHANGED <<job, offset, total, page, clock, faults, history>>

\* pushChange returns, or is given up; its local variables are gone.
LeaveCron(state) ==
  /\ cron'   = state
  /\ cutoff' = 0
  /\ offset' = 0
  /\ total'  = 0
  /\ page'   = {}

\* Wrong on purpose: everybody.  Breaks TypeOK's rows of the page.
DueAll == User

Due == {u \in User : push[u] # 0 /\ push[u] <= cutoff}

AtMost(n, m) == IF n <= m THEN n ELSE m

\* Oldest rows first: everything in S is as old as anything in T.
Older(S, T) == \A u \in S, v \in T : push[u] <= push[v]

ListRows ==
  /\ cron = "list"
  /\ \E skipped \in SUBSET Due : \E listed \in SUBSET (Due \ skipped) :
       /\ Cardinality(skipped) = AtMost(offset, Cardinality(Due))
       /\ Cardinality(listed) = AtMost(Limit, Cardinality(Due \ skipped))
       /\ Older(skipped, Due \ skipped)
       /\ Older(listed, Due \ (skipped \cup listed))
       /\ IF listed = {} THEN LeaveCron("idle")
          ELSE /\ cron'  = "push"
               /\ page'  = listed
               /\ total' = Cardinality(Due)
               /\ UNCHANGED <<cutoff, offset>>
  /\ UNCHANGED <<job, clock, faults, history>>

\* The silent push goes to the users in reached: a device that gets it reads the dates.
\* No error shows in what follows.  getListDeviceByUser returns that of its query, which
\* has no length, so that nobody is reached; a provider that cannot be made passes over its
\* devices; what APNs refuses is not looked at.
PushDevices(reached) ==
  /\ cron = "push"
  /\ cron' = "clean"
  /\ owed' = owed \ reached
  /\ unpushed' = (unpushed \cup (owed \cap page)) \ reached
  /\ IF reached = page THEN UNCHANGED faults
     ELSE faults < MaxFaults /\ faults' = faults + 1
  /\ UNCHANGED <<job, cutoff, offset, total, page, clock, lowered, missed, outrun>>

\* One DELETE per user.  After the last, the next page if there were more rows.
CleanRow(u) ==
  /\ cron = "clean"
  /\ u \in page /\ Older({u}, page)
  /\ push' = [push EXCEPT ![u] = 0]
  /\ \/ /\ page # {u}
        /\ page' = page \ {u}
        /\ UNCHANGED <<cron, cutoff, offset, total>>
     \/ /\ page = {u} /\ total > offset + Limit
        /\ cron'   = "list"
        /\ offset' = offset + Limit
        /\ page'   = {}
        /\ UNCHANGED <<cutoff, total>>
     \/ /\ page = {u} /\ total <= offset + Limit
        /\ LeaveCron("idle")
  /\ UNCHANGED <<alm, pc, seen, clock, faults, history>>

\* An exception leaves isRunning set, and so does a push that is never answered
\* (pushMessage resolves only then): the job never runs again in this process.
CronFails ==
  /\ cron \in {"list", "push", "clean"}
  /\ LeaveCron("stuck")
  /\ UNCHANGED <<job, clock, faults, history>>

RestartCron ==
  /\ faults < MaxFaults
  /\ cron # "idle"
  /\ LeaveCron("idle")
  /\ faults' = faults + 1
  /\ UNCHANGED <<job, clock, history>>

-----------------------------------------------------------------------------
Arrive(k) == AddJob(k) \/ PutRequest(k)

JobStep(k) ==
  \/ TakeJob(k)    \/ UpdateMark(k) \/ FindMark(k)  \/ InsertMark(k) \/ FindPush(k)
  \/ InsertPush(k) \/ CheckMark(k)  \/ ReadMarks(k) \/ WriteMarks(k) \/ Ack(k)

CronStep == \/ StartCron \/ ListRows
            \/ \E reached \in SUBSET page : PushDevices(reached)
            \/ \E u \in User : CleanRow(u)

Next ==
  \/ \E k \in Update : Arrive(k) \/ JobStep(k) \/ Fail(k) \/ Redeliver(k)
  \/ CronStep \/ CronFails \/ RestartCron \/ Tick

Spec == Init /\ [][Next]_vars

\* Statements that were sent are answered, queues deliver, the timer of the cron job
\* fires and time passes; no client has to ask and nothing has to fail.  A change takes
\* finitely many steps, so one condition for all of them is enough.
FairSpec == /\ Spec
            /\ WF_vars(\E k \in Update : JobStep(k))
            /\ WF_vars(CronStep) /\ WF_vars(Tick)

-----------------------------------------------------------------------------
(* Properties *)

\* The date of a user never goes back (the guard of createLastModify and of the stored
\* procedure), except where the function writes over a date it has not read.
NeverBack == [][\A u \in User : alm'[u] >= alm[u] \/ u \in lowered']_vars

\* A change that was handled is in the dates of everybody it is for, whatever was
\* delivered twice and however the writers interleaved.  Only the race for the first
\* row of a user loses dates: the later INSERT fails and its exception is swallowed,
\* or the SELECT of a job finds the row of another and takes it for its own.
DoneIsRecorded ==
  \A k \in Update \ outrun : pc[k] \in {"ack", "done"} =>
    \A u \in Reaches[k] : alm[u] >= Date[k] \/ u \in lowered

Unfinished(u) == \E k \in Update :
  u \in Reaches[k] /\ pc[k] \in {"queued", "failed"} \cup OwnSteps

\* A user whose date has risen since the last push has a row in push_change or a
\* handler that has still to see to it, unless that handler found a row of a push
\* that was already out and is deleted after it, or the row went though its push did not
\* go out.
ToldOrWaiting ==
  \A u \in owed : push[u] # 0 \/ Unfinished(u) \/ u \in missed \cup unpushed

\* A user whose date rises is pushed to in the end, unless the row was missed or went
\* without a push, a handler failed, or the cron job threw and is stuck until a restart.
Told ==
  \A u \in User :
    u \in owed ~> \/ u \notin owed \/ u \in missed \cup unpushed \/ cron = "stuck"
                  \/ \E k \in Update : u \in Reaches[k] /\ pc[k] = "failed"

=============================================================================
