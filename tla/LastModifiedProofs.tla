------------------------- MODULE LastModifiedProofs -------------------------
(***************************************************************************)
(* NeverBack, DoneIsRecorded and ToldOrWaiting for any finite set of users,*)
(* any changes, dates and page of the cron job.                            *)
(*                                                                         *)
(* DoneIsRecorded needs what a handler has passed (Recorded) and what the  *)
(* stored function has read (SeenIsOld).  ToldOrWaiting needs to know which*)
(* handlers still come to push_change: only queued jobs of one user do,    *)
(* and past a push that is out only those that have not looked yet.        *)
(***************************************************************************)
EXTENDS LastModified, FiniteSetTheorems, TLAPS

-----------------------------------------------------------------------------
(* The inductive invariant *)

\* Only a queued change of one user runs through createLastModify, and only a put checks.
KindFits ==
  \A k \in Update :
    /\ pc[k] \in OwnSteps => Kind[k] = "own"
    /\ pc[k] = "check" => Kind[k] = "put"
    /\ pc[k] \in FunctionSteps => Kind[k] # "own"

\* What the stored function has read is no newer than what is there.
SeenIsOld ==
  \A k \in Update : \A u \in User :
    pc[k] = "write" /\ u \in Reaches[k] => seen[k][u] <= alm[u] \/ u \in lowered

\* Past its write, or past finding that there is nothing to write, a change is recorded.
Recorded ==
  \A k \in Update \ outrun : pc[k] \in {"findpush", "insertpush", "ack", "done"} =>
    \A u \in Reaches[k] : alm[u] >= Date[k] \/ u \in lowered

\* A queued change of u, to be handled, being handled or given up.
WillPush(u, steps) ==
  \E k \in Update : Kind[k] = "own" /\ u \in Reaches[k] /\ pc[k] \in steps

Before == {"queued", "failed", "update", "find", "insert", "findpush"}

RisenIsCovered ==
  \A u \in owed : \/ push[u] # 0 \/ WillPush(u, Before \cup {"insertpush"})
                  \/ u \in missed \cup unpushed

\* A rise after the push went out is not left to the row of that push.
RisenSincePush ==
  \A u \in owed : Pushed(u) => WillPush(u, Before) \/ u \in missed \cup unpushed

-----------------------------------------------------------------------------
LEMMA ReachesOne ==
  ASSUME NEW k \in Update, Kind[k] # "shared"
  PROVE  UserOf(k) \in User /\ Reaches[k] = {UserOf(k)}
  BY OneUserAssumption DEF UserOf

LEMMA TypeStep ==
  TypeOK /\ KindFits /\ [Next]_vars
  => (TypeOK /\ KindFits)'
<1> SUFFICES ASSUME TypeOK, KindFits, [Next]_vars
             PROVE  (TypeOK /\ KindFits)'
  OBVIOUS
<1> USE UserAssumption, UpdateAssumption, BoundAssumption, ReachesOne DEF TypeOK,
        KindFits, Working, OwnSteps, FunctionSteps
<1>1. ASSUME NEW k \in Update, AddJob(k) PROVE (TypeOK /\ KindFits)'
  BY <1>1 DEF AddJob, Goto, tick, history
<1>2. ASSUME NEW k \in Update, PutRequest(k) PROVE (TypeOK /\ KindFits)'
  BY <1>2 DEF PutRequest, Goto, tick, history
<1>3. ASSUME NEW k \in Update, TakeJob(k) PROVE (TypeOK /\ KindFits)'
  BY <1>3 DEF TakeJob, Goto, tick, history
<1>4. ASSUME NEW k \in Update, UpdateMark(k) PROVE (TypeOK /\ KindFits)'
  BY <1>4 DEF UpdateMark, Goto, tick, Outdated
<1>5. ASSUME NEW k \in Update, FindMark(k) PROVE (TypeOK /\ KindFits)'
  BY <1>5 DEF FindMark, Goto, tick, Outdated, AfterFind
<1>6. ASSUME NEW k \in Update, InsertMark(k) PROVE (TypeOK /\ KindFits)'
  BY <1>6 DEF InsertMark, Goto, tick
<1>7. ASSUME NEW k \in Update, FindPush(k) PROVE (TypeOK /\ KindFits)'
  BY <1>7 DEF FindPush, Goto, tick, Pushed
<1>8. ASSUME NEW k \in Update, InsertPush(k) PROVE (TypeOK /\ KindFits)'
  BY <1>8 DEF InsertPush, Goto, tick, history, InsertIgnore
<1>9. ASSUME NEW k \in Update, CheckMark(k) PROVE (TypeOK /\ KindFits)'
  BY <1>9 DEF CheckMark, Goto, tick, history
<1>10. ASSUME NEW k \in Update, ReadMarks(k) PROVE (TypeOK /\ KindFits)'
  BY <1>10 DEF ReadMarks, Goto, tick, history
<1>11. ASSUME NEW k \in Update, WriteMarks(k) PROVE (TypeOK /\ KindFits)'
  BY <1>11 DEF WriteMarks, Goto, tick, InsertIgnore, Behind, ToWake, Pushed, NoMarks
<1>12. ASSUME NEW k \in Update, Ack(k) PROVE (TypeOK /\ KindFits)'
  BY <1>12 DEF Ack, Goto, tick, history
<1>13. ASSUME NEW k \in Update, Fail(k) PROVE (TypeOK /\ KindFits)'
  BY <1>13 DEF Fail, tick, history, NoMarks
<1>14. ASSUME NEW k \in Update, Redeliver(k) PROVE (TypeOK /\ KindFits)'
  BY <1>14 DEF Redeliver, tick, history, NoMarks
<1>15. CASE StartCron
  BY <1>15 DEF StartCron, job, history
<1>16. CASE ListRows
  <2>1. PICK skipped \in SUBSET Due : \E listed \in SUBSET (Due \ skipped) :
          IF listed = {} THEN LeaveCron("idle")
          ELSE /\ cron' = "push" /\ page' = listed /\ total' = Cardinality(Due)
               /\ UNCHANGED <<cutoff, offset>>
    BY <1>16 DEF ListRows
  <2>2. Cardinality(Due) \in Nat
    BY FS_Subset, FS_CardinalityType DEF Due
  <2> QED
    BY <1>16, <2>1, <2>2 DEF ListRows, LeaveCron, Due, job, history
<1>17. ASSUME NEW reached \in SUBSET page, PushDevices(reached) PROVE (TypeOK /\ KindFits)'
  BY <1>17 DEF PushDevices, job
<1>18. ASSUME NEW u \in User, CleanRow(u) PROVE (TypeOK /\ KindFits)'
  BY <1>18 DEF CleanRow, LeaveCron, history
<1>19. CASE CronFails
  BY <1>19 DEF CronFails, LeaveCron, job, history
<1>20. CASE RestartCron
  BY <1>20 DEF RestartCron, LeaveCron, job, history
<1>21. CASE Tick
  BY <1>21 DEF Tick, job, tick, history
<1>22. CASE UNCHANGED vars
  BY <1>22 DEF vars, job, tick, history
<1> QED
  BY <1>1, <1>2, <1>3, <1>4, <1>5, <1>6, <1>7, <1>8, <1>9, <1>10, <1>11, <1>12, <1>13,
     <1>14, <1>15, <1>16, <1>17, <1>18, <1>19, <1>20, <1>21, <1>22 DEF Next, Arrive, JobStep,
     CronStep

(***************************************************************************)
(* The state keeps its types, and the page of the cron job holds rows that *)
(* are there: nobody else deletes them.                                    *)
(***************************************************************************)
THEOREM TypeCorrect == Spec => []TypeOK
<1>1. Init => TypeOK /\ KindFits
  BY BoundAssumption DEF Init, TypeOK, KindFits, Working, OwnSteps, FunctionSteps, NoMarks
<1> QED
  BY <1>1, TypeStep, PTL DEF Spec

-----------------------------------------------------------------------------
(* Dates *)

Forward == \A u \in User : alm'[u] >= alm[u] \/ u \in lowered'

LEMMA ForwardStep ==
  TypeOK /\ KindFits /\ [Next]_vars
  => Forward
<1> SUFFICES ASSUME TypeOK, KindFits, [Next]_vars
             PROVE  Forward
  OBVIOUS
<1> USE UserAssumption, UpdateAssumption, BoundAssumption, ReachesOne DEF TypeOK,
        KindFits, Working, OwnSteps, FunctionSteps, Forward
<1>1. ASSUME NEW k \in Update, AddJob(k) PROVE Forward
  BY <1>1 DEF AddJob, Goto, tick, history
<1>2. ASSUME NEW k \in Update, PutRequest(k) PROVE Forward
  BY <1>2 DEF PutRequest, Goto, tick, history
<1>3. ASSUME NEW k \in Update, TakeJob(k) PROVE Forward
  BY <1>3 DEF TakeJob, Goto, tick, history
<1>4. ASSUME NEW k \in Update, UpdateMark(k) PROVE Forward
  BY <1>4 DEF UpdateMark, Goto, tick, Outdated
<1>5. ASSUME NEW k \in Update, FindMark(k) PROVE Forward
  BY <1>5 DEF FindMark, Goto, tick, Outdated, AfterFind
<1>6. ASSUME NEW k \in Update, InsertMark(k) PROVE Forward
  BY <1>6 DEF InsertMark, Goto, tick
<1>7. ASSUME NEW k \in Update, FindPush(k) PROVE Forward
  BY <1>7 DEF FindPush, Goto, tick, Pushed
<1>8. ASSUME NEW k \in Update, InsertPush(k) PROVE Forward
  BY <1>8 DEF InsertPush, Goto, tick, history, InsertIgnore
<1>9. ASSUME NEW k \in Update, CheckMark(k) PROVE Forward
  BY <1>9 DEF CheckMark, Goto, tick, history
<1>10. ASSUME NEW k \in Update, ReadMarks(k) PROVE Forward
  BY <1>10 DEF ReadMarks, Goto, tick, history
<1>11. ASSUME NEW k \in Update, WriteMarks(k) PROVE Forward
  BY <1>11 DEF WriteMarks, Goto, tick, InsertIgnore, Behind, ToWake, Pushed, NoMarks
<1>12. ASSUME NEW k \in Update, Ack(k) PROVE Forward
  BY <1>12 DEF Ack, Goto, tick, history
<1>13. ASSUME NEW k \in Update, Fail(k) PROVE Forward
  BY <1>13 DEF Fail, tick, history, NoMarks
<1>14. ASSUME NEW k \in Update, Redeliver(k) PROVE Forward
  BY <1>14 DEF Redeliver, tick, history, NoMarks
<1>15. CASE StartCron
  BY <1>15 DEF StartCron, job, history
<1>16. CASE ListRows
  BY <1>16 DEF ListRows, LeaveCron, job, history, Due
<1>17. ASSUME NEW reached \in SUBSET page, PushDevices(reached) PROVE Forward
  BY <1>17 DEF PushDevices, job
<1>18. ASSUME NEW u \in User, CleanRow(u) PROVE Forward
  BY <1>18 DEF CleanRow, LeaveCron, history
<1>19. CASE CronFails
  BY <1>19 DEF CronFails, LeaveCron, job, history
<1>20. CASE RestartCron
  BY <1>20 DEF RestartCron, LeaveCron, job, history
<1>21. CASE Tick
  BY <1>21 DEF Tick, job, tick, history
<1>22. CASE UNCHANGED vars
  BY <1>22 DEF vars, job, tick, history
<1> QED
  BY <1>1, <1>2, <1>3, <1>4, <1>5, <1>6, <1>7, <1>8, <1>9, <1>10, <1>11, <1>12, <1>13,
     <1>14, <1>15, <1>16, <1>17, <1>18, <1>19, <1>20, <1>21, <1>22 DEF Next, Arrive, JobStep,
     CronStep

(***************************************************************************)
(* The date of a user never goes back, however many writers meet on it,    *)
(* except where the function overwrites a date it has not read.            *)
(***************************************************************************)
THEOREM DatesNeverGoBack == Spec => NeverBack
<1>1. Init => TypeOK /\ KindFits
  BY BoundAssumption DEF Init, TypeOK, KindFits, Working, OwnSteps, FunctionSteps, NoMarks
<1>2. TypeOK /\ KindFits /\ [Next]_vars => [Forward]_vars
  BY ForwardStep
<1>3. Spec => [][Forward]_vars
  BY <1>1, <1>2, TypeStep, PTL DEF Spec
<1> QED
  BY <1>3, PTL DEF NeverBack, Forward

LEMMA RecordStep ==
  TypeOK /\ KindFits /\ SeenIsOld /\ Recorded /\ [Next]_vars
  => (SeenIsOld /\ Recorded)'
<1> SUFFICES ASSUME TypeOK, KindFits, SeenIsOld, Recorded, [Next]_vars
             PROVE  (SeenIsOld /\ Recorded)'
  OBVIOUS
<1> USE UserAssumption, UpdateAssumption, BoundAssumption, ReachesOne DEF TypeOK,
        KindFits, Working, OwnSteps, FunctionSteps, SeenIsOld, Recorded
<1>1. ASSUME NEW k \in Update, AddJob(k) PROVE (SeenIsOld /\ Recorded)'
  BY <1>1 DEF AddJob, Goto, tick, history
<1>2. ASSUME NEW k \in Update, PutRequest(k) PROVE (SeenIsOld /\ Recorded)'
  BY <1>2 DEF PutRequest, Goto, tick, history
<1>3. ASSUME NEW k \in Update, TakeJob(k) PROVE (SeenIsOld /\ Recorded)'
  BY <1>3 DEF TakeJob, Goto, tick, history
<1>4. ASSUME NEW k \in Update, UpdateMark(k) PROVE (SeenIsOld /\ Recorded)'
  BY <1>4 DEF UpdateMark, Goto, tick, Outdated
<1>5. ASSUME NEW k \in Update, FindMark(k) PROVE (SeenIsOld /\ Recorded)'
  BY <1>5 DEF FindMark, Goto, tick, Outdated, AfterFind
<1>6. ASSUME NEW k \in Update, InsertMark(k) PROVE (SeenIsOld /\ Recorded)'
  BY <1>6 DEF InsertMark, Goto, tick
<1>7. ASSUME NEW k \in Update, FindPush(k) PROVE (SeenIsOld /\ Recorded)'
  BY <1>7 DEF FindPush, Goto, tick, Pushed
<1>8. ASSUME NEW k \in Update, InsertPush(k) PROVE (SeenIsOld /\ Recorded)'
  BY <1>8 DEF InsertPush, Goto, tick, history, InsertIgnore
<1>9. ASSUME NEW k \in Update, CheckMark(k) PROVE (SeenIsOld /\ Recorded)'
  BY <1>9 DEF CheckMark, Goto, tick, history
<1>10. ASSUME NEW k \in Update, ReadMarks(k) PROVE (SeenIsOld /\ Recorded)'
  BY <1>10 DEF ReadMarks, Goto, tick, history
<1>11. ASSUME NEW k \in Update, WriteMarks(k) PROVE (SeenIsOld /\ Recorded)'
  BY <1>11 DEF WriteMarks, Goto, tick, InsertIgnore, Behind, ToWake, Pushed, NoMarks
<1>12. ASSUME NEW k \in Update, Ack(k) PROVE (SeenIsOld /\ Recorded)'
  BY <1>12 DEF Ack, Goto, tick, history
<1>13. ASSUME NEW k \in Update, Fail(k) PROVE (SeenIsOld /\ Recorded)'
  BY <1>13 DEF Fail, tick, history, NoMarks
<1>14. ASSUME NEW k \in Update, Redeliver(k) PROVE (SeenIsOld /\ Recorded)'
  BY <1>14 DEF Redeliver, tick, history, NoMarks
<1>15. CASE StartCron
  BY <1>15 DEF StartCron, job, history
<1>16. CASE ListRows
  BY <1>16 DEF ListRows, LeaveCron, job, history, Due
<1>17. ASSUME NEW reached \in SUBSET page, PushDevices(reached) PROVE (SeenIsOld /\ Recorded)'
  BY <1>17 DEF PushDevices, job
<1>18. ASSUME NEW u \in User, CleanRow(u) PROVE (SeenIsOld /\ Recorded)'
  BY <1>18 DEF CleanRow, LeaveCron, history
<1>19. CASE CronFails
  BY <1>19 DEF CronFails, LeaveCron, job, history
<1>20. CASE RestartCron
  BY <1>20 DEF RestartCron, LeaveCron, job, history
<1>21. CASE Tick
  BY <1>21 DEF Tick, job, tick, history
<1>22. CASE UNCHANGED vars
  BY <1>22 DEF vars, job, tick, history
<1> QED
  BY <1>1, <1>2, <1>3, <1>4, <1>5, <1>6, <1>7, <1>8, <1>9, <1>10, <1>11, <1>12, <1>13,
     <1>14, <1>15, <1>16, <1>17, <1>18, <1>19, <1>20, <1>21, <1>22 DEF Next, Arrive, JobStep,
     CronStep

(***************************************************************************)
(* No handled change is lost: whoever it is for has its date, or a later   *)
(* one, but for the race for the first row and for overwritten dates.      *)
(***************************************************************************)
THEOREM NoChangeIsLost == Spec => []DoneIsRecorded
<1>1. Init => TypeOK /\ KindFits /\ SeenIsOld /\ Recorded
  BY BoundAssumption DEF Init, TypeOK, KindFits, SeenIsOld, Recorded, Working, OwnSteps,
     FunctionSteps, NoMarks
<1>2. Recorded => DoneIsRecorded
  BY DEF Recorded, DoneIsRecorded
<1> QED
  BY <1>1, <1>2, TypeStep, RecordStep, PTL DEF Spec

-----------------------------------------------------------------------------
(* Pushes *)

LEMMA PushStep ==
  TypeOK /\ KindFits /\ RisenIsCovered /\ RisenSincePush /\ [Next]_vars
  => (RisenIsCovered /\ RisenSincePush)'
<1> SUFFICES ASSUME TypeOK, KindFits, RisenIsCovered, RisenSincePush, [Next]_vars
             PROVE  (RisenIsCovered /\ RisenSincePush)'
  OBVIOUS
<1> USE UserAssumption, UpdateAssumption, BoundAssumption, ReachesOne DEF TypeOK,
        KindFits, Working, OwnSteps, FunctionSteps, RisenIsCovered, RisenSincePush,
        WillPush, Before, Pushed
<1>1. ASSUME NEW k \in Update, AddJob(k) PROVE (RisenIsCovered /\ RisenSincePush)'
  BY <1>1 DEF AddJob, Goto, tick, history
<1>2. ASSUME NEW k \in Update, PutRequest(k) PROVE (RisenIsCovered /\ RisenSincePush)'
  BY <1>2 DEF PutRequest, Goto, tick, history
<1>3. ASSUME NEW k \in Update, TakeJob(k) PROVE (RisenIsCovered /\ RisenSincePush)'
  BY <1>3 DEF TakeJob, Goto, tick, history
<1>4. ASSUME NEW k \in Update, UpdateMark(k) PROVE (RisenIsCovered /\ RisenSincePush)'
  BY <1>4 DEF UpdateMark, Goto, tick, Outdated
<1>5. ASSUME NEW k \in Update, FindMark(k) PROVE (RisenIsCovered /\ RisenSincePush)'
  BY <1>5 DEF FindMark, Goto, tick, Outdated, AfterFind
<1>6. ASSUME NEW k \in Update, InsertMark(k) PROVE (RisenIsCovered /\ RisenSincePush)'
  BY <1>6 DEF InsertMark, Goto, tick
<1>7. ASSUME NEW k \in Update, FindPush(k) PROVE (RisenIsCovered /\ RisenSincePush)'
  BY <1>7 DEF FindPush, Goto, tick, Pushed
<1>8. ASSUME NEW k \in Update, InsertPush(k) PROVE (RisenIsCovered /\ RisenSincePush)'
  <2>1. \A u \in User : push[u] # 0 \/ u \in Reaches[k] => push'[u] # 0
    BY <1>8 DEF InsertPush, Goto, InsertIgnore
  <2>2. \A j \in Update : pc'[j] = IF j = k THEN "ack" ELSE pc[j]
    BY <1>8 DEF InsertPush, Goto
  <2>3. pc[k] = "insertpush" /\ UNCHANGED <<owed, missed, unpushed, cron, page>>
    BY <1>8 DEF InsertPush, Goto, tick, history
  <2>4. RisenIsCovered'
    BY <2>1, <2>2, <2>3
  <2>5. RisenSincePush'
    BY <2>2, <2>3
  <2> QED
    BY <2>4, <2>5
<1>9. ASSUME NEW k \in Update, CheckMark(k) PROVE (RisenIsCovered /\ RisenSincePush)'
  BY <1>9 DEF CheckMark, Goto, tick, history
<1>10. ASSUME NEW k \in Update, ReadMarks(k) PROVE (RisenIsCovered /\ RisenSincePush)'
  BY <1>10 DEF ReadMarks, Goto, tick, history
<1>11. ASSUME NEW k \in Update, WriteMarks(k) PROVE (RisenIsCovered /\ RisenSincePush)'
  BY <1>11 DEF WriteMarks, Goto, tick, InsertIgnore, Behind, ToWake, Pushed, NoMarks
<1>12. ASSUME NEW k \in Update, Ack(k) PROVE (RisenIsCovered /\ RisenSincePush)'
  BY <1>12 DEF Ack, Goto, tick, history
<1>13. ASSUME NEW k \in Update, Fail(k) PROVE (RisenIsCovered /\ RisenSincePush)'
  BY <1>13 DEF Fail, tick, history, NoMarks
<1>14. ASSUME NEW k \in Update, Redeliver(k) PROVE (RisenIsCovered /\ RisenSincePush)'
  BY <1>14 DEF Redeliver, tick, history, NoMarks
<1>15. CASE StartCron
  BY <1>15 DEF StartCron, job, history
<1>16. CASE ListRows
  BY <1>16 DEF ListRows, LeaveCron, job, history, Due
<1>17. ASSUME NEW reached \in SUBSET page, PushDevices(reached)
      PROVE (RisenIsCovered /\ RisenSincePush)'
  BY <1>17 DEF PushDevices, job
<1>18. ASSUME NEW u \in User, CleanRow(u) PROVE (RisenIsCovered /\ RisenSincePush)'
  BY <1>18 DEF CleanRow, LeaveCron, history
<1>19. CASE CronFails
  BY <1>19 DEF CronFails, LeaveCron, job, history
<1>20. CASE RestartCron
  BY <1>20 DEF RestartCron, LeaveCron, job, history
<1>21. CASE Tick
  BY <1>21 DEF Tick, job, tick, history
<1>22. CASE UNCHANGED vars
  BY <1>22 DEF vars, job, tick, history
<1> QED
  BY <1>1, <1>2, <1>3, <1>4, <1>5, <1>6, <1>7, <1>8, <1>9, <1>10, <1>11, <1>12, <1>13,
     <1>14, <1>15, <1>16, <1>17, <1>18, <1>19, <1>20, <1>21, <1>22 DEF Next, Arrive, JobStep,
     CronStep

(***************************************************************************)
(* No wakeup is lost silently: a user whose date rose has a row, or a      *)
(* handler still to write one, or is recorded as missed or as not reached. *)
(***************************************************************************)
THEOREM RiseIsPushedOrWaits == Spec => []ToldOrWaiting
<1>1. Init => TypeOK /\ KindFits /\ RisenIsCovered /\ RisenSincePush
  BY BoundAssumption DEF Init, TypeOK, KindFits, RisenIsCovered, RisenSincePush, Working,
     OwnSteps, FunctionSteps, NoMarks
<1>2. RisenIsCovered => ToldOrWaiting
  BY DEF RisenIsCovered, ToldOrWaiting, Unfinished, WillPush, Before, OwnSteps
<1> QED
  BY <1>1, <1>2, TypeStep, PushStep, PTL DEF Spec

=============================================================================
