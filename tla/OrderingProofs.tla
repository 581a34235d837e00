--------------------------- MODULE OrderingProofs ---------------------------
(***************************************************************************)
(* The properties of Ordering for any requests, objects, times and number  *)
(* of crashes, and that the statuses clients see implement JobStatus.      *)
(*                                                                         *)
(* OneReset and StaleOnlyIfEarly rest on one fact, PassedMeansOver: a      *)
(* request that has read the key of a reset, or listed the keys when it    *)
(* was not there, was right then, and only a reset that runs again is      *)
(* running since.  OnlyForward and DoneMeansDone rest on how far the job   *)
(* of a request can be, given its key.                                     *)
(***************************************************************************)
EXTENDS Ordering, TLAPS

-----------------------------------------------------------------------------
(* The inductive invariant *)

\* A request has a job only once it got its reply.
JobAfterReply == \A p \in Request : call[p] # "replied" => job[p] = "none"

\* A request has a key only once it was accepted.
NothingBefore ==
  \A p \in Request :
    /\ call[p] \notin {"add", "replied"} => key[p] = "none" /\ p \notin finished
    /\ call[p] # "read" => unread[p] = {}

\* What the key says of the past.
FinishedIsDone ==
  \A p \in Request :
    /\ key[p] \in {"INIT", "IN_PROCESS"} => p \notin finished
    /\ key[p] = "DONE" => p \in finished

\* What the job says of the key.
JobFitsKey ==
  \A p \in Request :
    /\ job[p] \in {"begun", "read", "saved"} =>
         key[p] \in {"IN_PROCESS", "none"} /\ p \notin finished
    /\ p \in Sort /\ job[p] = "found" => key[p] \in {"INIT", "none"} /\ p \notin finished
    /\ p \in Sort => job[p] # "saved"

\* A request that has listed the keys knows of each later reset.
LaterIsEarly ==
  \A p \in Request : \A r \in Reset \ {p} :
    call[p] # "new" /\ <<p, r>> \notin early => ~NoKeyYet(r)

\* A reset that a request has found over, or has not found at all, runs only again.
PassedMeansOver ==
  \A p \in Request : \A r \in Reset \ {p} :
    call[p] \in {"read", "set", "add", "replied"} /\ <<p, r>> \notin early
      /\ r \notin unread[p] /\ Running(r) => r \in again

StaleWasPassed == \A p \in stale : p[1] \in Sort /\ p[2] \in Reset /\ call[p[1]] = "replied"

\* What a sort has written stands as DoneMeansDone says.
Stands(s, i) == order[i] >= Time[s] \/ <<s, i>> \in unsaved \/ i \in undone

WrittenStands ==
  \A s \in Sort : job[s] = "read" => \A i \in Moves[s] \ left[s] : Stands(s, i)

IInv ==
  /\ TypeOK
  /\ JobAfterReply
  /\ NothingBefore
  /\ FinishedIsDone
  /\ JobFitsKey
  /\ LaterIsEarly
  /\ PassedMeansOver
  /\ StaleWasPassed
  /\ StaleOnlyIfEarly
  /\ KeyHasJob
  /\ WrittenStands
  /\ DoneMeansDone

-----------------------------------------------------------------------------
(* Types *)

LEMMA TypeStep == TypeOK /\ JobAfterReply /\ [Next]_vars => (TypeOK /\ JobAfterReply)'
<1> SUFFICES ASSUME TypeOK, JobAfterReply, [Next]_vars PROVE (TypeOK /\ JobAfterReply)'
  OBVIOUS
<1> USE DisjointAssumption, SortAssumption, BoundAssumption DEF TypeOK, JobAfterReply,
        Request, Status, InWork
<1>1. ASSUME NEW p \in Request, ListKeys(p) PROVE (TypeOK /\ JobAfterReply)'
  BY <1>1 DEF ListKeys
<1>2. ASSUME NEW p \in Request, NEW r \in Reset, ReadKey(p, r)
      PROVE  (TypeOK /\ JobAfterReply)'
  BY <1>2 DEF ReadKey, history
<1>3. ASSUME NEW p \in Request, SetInit(p) PROVE (TypeOK /\ JobAfterReply)'
  BY <1>3 DEF SetInit, history
<1>4. ASSUME NEW p \in Request, AddJob(p) PROVE (TypeOK /\ JobAfterReply)'
  BY <1>4 DEF AddJob, history
<1>5. ASSUME NEW p \in Request, AddFails(p) PROVE (TypeOK /\ JobAfterReply)'
  BY <1>5 DEF AddFails
<1>6. ASSUME NEW p \in Request, TakeJob(p) PROVE (TypeOK /\ JobAfterReply)'
  BY <1>6 DEF TakeJob, api
<1>7. ASSUME NEW p \in Request, Begin(p) PROVE (TypeOK /\ JobAfterReply)'
  BY <1>7 DEF Begin, api
<1>8. ASSUME NEW p \in Request, Renumber(p) PROVE (TypeOK /\ JobAfterReply)'
  <2>1. stale' \in SUBSET (Sort \X Reset)
    BY <1>8 DEF Renumber
  <2>2. order' \in [Item -> 0..MaxTime] /\ undone' \in SUBSET Item
    BY <1>8 DEF Renumber
  <2> QED
    BY <1>8, <2>1, <2>2 DEF Renumber, api
<1>9. ASSUME NEW p \in Request, RenumberFails(p) PROVE (TypeOK /\ JobAfterReply)'
  BY <1>9 DEF RenumberFails, AfterError, api, history
<1>10. ASSUME NEW p \in Request, RenumberNothing(p) PROVE (TypeOK /\ JobAfterReply)'
  BY <1>10 DEF RenumberNothing, api
<1>11. ASSUME NEW p \in Request, ReadList(p) PROVE (TypeOK /\ JobAfterReply)'
  BY <1>11 DEF ReadList, api, history
<1>12. ASSUME NEW p \in Sort, NEW i \in Item, SaveItem(p, i) PROVE (TypeOK /\ JobAfterReply)'
  <2>1. order' \in [Item -> 0..MaxTime]
    BY <1>12 DEF SaveItem
  <2> QED
    BY <1>12, <2>1 DEF SaveItem, api, history
<1>13. ASSUME NEW p \in Sort, NEW i \in Item, SaveItemFails(p, i)
       PROVE  (TypeOK /\ JobAfterReply)'
  BY <1>13 DEF SaveItemFails, api
<1>14. ASSUME NEW p \in Request, WorkFails(p) PROVE (TypeOK /\ JobAfterReply)'
  BY <1>14 DEF WorkFails, api
<1>15. ASSUME NEW p \in Request, Finish(p) PROVE (TypeOK /\ JobAfterReply)'
  BY <1>15 DEF Finish, api
<1>16. ASSUME NEW p \in Request, Ack(p) PROVE (TypeOK /\ JobAfterReply)'
  BY <1>16 DEF Ack, api, history
<1>17. ASSUME NEW p \in Request, Crash(p) PROVE (TypeOK /\ JobAfterReply)'
  BY <1>17 DEF Crash, api, history
<1>18. ASSUME NEW p \in Request, Expire(p) PROVE (TypeOK /\ JobAfterReply)'
  BY <1>18 DEF Expire, api, history
<1>19. CASE UNCHANGED vars
  BY <1>19 DEF vars, api, history
<1> QED
  BY <1>1, <1>2, <1>3, <1>4, <1>5, <1>6, <1>7, <1>8, <1>9, <1>10, <1>11, <1>12, <1>13, <1>14,
     <1>15, <1>16, <1>17, <1>18, <1>19 DEF Next, ApiStep, WorkStep, Faulty

(***************************************************************************)
(* The state keeps its types, and a sort holds a list only while it works  *)
(* on it: a worker that dies takes the list with it.                       *)
(***************************************************************************)
THEOREM TypeCorrect == Spec => []TypeOK
<1>1. Init => TypeOK /\ JobAfterReply
  BY BoundAssumption DEF Init, TypeOK, JobAfterReply, Status, InWork
<1> QED
  BY <1>1, TypeStep, PTL DEF Spec

-----------------------------------------------------------------------------
LEMMA KeyStep ==
  /\ TypeOK /\ JobAfterReply /\ NothingBefore /\ FinishedIsDone /\ JobFitsKey /\ [Next]_vars
  => (NothingBefore /\ FinishedIsDone /\ JobFitsKey)'
<1> SUFFICES ASSUME TypeOK, JobAfterReply, NothingBefore, FinishedIsDone, JobFitsKey,
                    [Next]_vars
             PROVE  (NothingBefore /\ FinishedIsDone /\ JobFitsKey)'
  OBVIOUS
<1> USE DisjointAssumption, SortAssumption DEF TypeOK, Request, Status, InWork,
        JobAfterReply, NothingBefore, FinishedIsDone, JobFitsKey
<1>1. ASSUME NEW p \in Request, ListKeys(p)
      PROVE  (NothingBefore /\ FinishedIsDone /\ JobFitsKey)'
  BY <1>1 DEF ListKeys, Running, NoKeyYet
<1>2. ASSUME NEW p \in Request, NEW r \in Reset, ReadKey(p, r)
      PROVE  (NothingBefore /\ FinishedIsDone /\ JobFitsKey)'
  BY <1>2 DEF ReadKey, Blocks, history
<1>3. ASSUME NEW p \in Request, SetInit(p)
      PROVE  (NothingBefore /\ FinishedIsDone /\ JobFitsKey)'
  BY <1>3 DEF SetInit, history
<1>4. ASSUME NEW p \in Request, AddJob(p)
      PROVE  (NothingBefore /\ FinishedIsDone /\ JobFitsKey)'
  BY <1>4 DEF AddJob, history
<1>5. ASSUME NEW p \in Request, AddFails(p)
      PROVE  (NothingBefore /\ FinishedIsDone /\ JobFitsKey)'
  BY <1>5 DEF AddFails
<1>6. ASSUME NEW p \in Request, TakeJob(p)
      PROVE  (NothingBefore /\ FinishedIsDone /\ JobFitsKey)'
  BY <1>6 DEF TakeJob, MayBegin, api
<1>7. ASSUME NEW p \in Request, Begin(p)
      PROVE  (NothingBefore /\ FinishedIsDone /\ JobFitsKey)'
  BY <1>7 DEF Begin, api
<1>8. ASSUME NEW p \in Request, Renumber(p)
      PROVE  (NothingBefore /\ FinishedIsDone /\ JobFitsKey)'
  BY <1>8 DEF Renumber, api
<1>9. ASSUME NEW p \in Request, RenumberFails(p)
      PROVE  (NothingBefore /\ FinishedIsDone /\ JobFitsKey)'
  BY <1>9 DEF RenumberFails, AfterError, api, history
<1>10. ASSUME NEW p \in Request, RenumberNothing(p)
       PROVE  (NothingBefore /\ FinishedIsDone /\ JobFitsKey)'
  BY <1>10 DEF RenumberNothing, api
<1>11. ASSUME NEW p \in Request, ReadList(p)
       PROVE  (NothingBefore /\ FinishedIsDone /\ JobFitsKey)'
  BY <1>11 DEF ReadList, api, history
<1>12. ASSUME NEW p \in Sort, NEW i \in Item, SaveItem(p, i)
       PROVE  (NothingBefore /\ FinishedIsDone /\ JobFitsKey)'
  BY <1>12 DEF SaveItem, api, history
<1>13. ASSUME NEW p \in Sort, NEW i \in Item, SaveItemFails(p, i)
       PROVE  (NothingBefore /\ FinishedIsDone /\ JobFitsKey)'
  BY <1>13 DEF SaveItemFails, api
<1>14. ASSUME NEW p \in Request, WorkFails(p)
       PROVE  (NothingBefore /\ FinishedIsDone /\ JobFitsKey)'
  BY <1>14 DEF WorkFails, api
<1>15. ASSUME NEW p \in Request, Finish(p)
       PROVE  (NothingBefore /\ FinishedIsDone /\ JobFitsKey)'
  BY <1>15 DEF Finish, api
<1>16. ASSUME NEW p \in Request, Ack(p) PROVE (NothingBefore /\ FinishedIsDone /\ JobFitsKey)'
  BY <1>16 DEF Ack, api, history
<1>17. ASSUME NEW p \in Request, Crash(p)
       PROVE  (NothingBefore /\ FinishedIsDone /\ JobFitsKey)'
  BY <1>17 DEF Crash, api, history
<1>18. ASSUME NEW p \in Request, Expire(p)
       PROVE  (NothingBefore /\ FinishedIsDone /\ JobFitsKey)'
  BY <1>18 DEF Expire, api, history
<1>19. CASE UNCHANGED vars
  BY <1>19 DEF vars, api, history
<1> QED
  BY <1>1, <1>2, <1>3, <1>4, <1>5, <1>6, <1>7, <1>8, <1>9, <1>10, <1>11, <1>12, <1>13,
     <1>14, <1>15, <1>16, <1>17, <1>18, <1>19 DEF Next, ApiStep, WorkStep, Faulty

LEMMA PassStep ==
  /\ TypeOK /\ JobAfterReply /\ NothingBefore /\ LaterIsEarly /\ PassedMeansOver
  /\ [Next]_vars
  => (LaterIsEarly /\ PassedMeansOver)'
<1> SUFFICES ASSUME TypeOK, JobAfterReply, NothingBefore, LaterIsEarly, PassedMeansOver,
                    [Next]_vars
             PROVE  (LaterIsEarly /\ PassedMeansOver)'
  OBVIOUS
<1> USE DisjointAssumption, SortAssumption DEF TypeOK, Request, Status, InWork,
        JobAfterReply, NothingBefore, LaterIsEarly, PassedMeansOver, Running, NoKeyYet
<1>1. ASSUME NEW p \in Request, ListKeys(p) PROVE (LaterIsEarly /\ PassedMeansOver)'
  BY <1>1 DEF ListKeys, Running, NoKeyYet
<1>2. ASSUME NEW p \in Request, NEW r \in Reset, ReadKey(p, r)
      PROVE  (LaterIsEarly /\ PassedMeansOver)'
  BY <1>2 DEF ReadKey, Blocks, history
<1>3. ASSUME NEW p \in Request, SetInit(p) PROVE (LaterIsEarly /\ PassedMeansOver)'
  BY <1>3 DEF SetInit, history
<1>4. ASSUME NEW p \in Request, AddJob(p) PROVE (LaterIsEarly /\ PassedMeansOver)'
  BY <1>4 DEF AddJob, history
<1>5. ASSUME NEW p \in Request, AddFails(p) PROVE (LaterIsEarly /\ PassedMeansOver)'
  BY <1>5 DEF AddFails
<1>6. ASSUME NEW p \in Request, TakeJob(p) PROVE (LaterIsEarly /\ PassedMeansOver)'
  BY <1>6 DEF TakeJob, MayBegin, api
<1>7. ASSUME NEW p \in Request, Begin(p) PROVE (LaterIsEarly /\ PassedMeansOver)'
  BY <1>7 DEF Begin, api
<1>8. ASSUME NEW p \in Request, Renumber(p) PROVE (LaterIsEarly /\ PassedMeansOver)'
  BY <1>8 DEF Renumber, api
<1>9. ASSUME NEW p \in Request, RenumberFails(p) PROVE (LaterIsEarly /\ PassedMeansOver)'
  BY <1>9 DEF RenumberFails, AfterError, api, history
<1>10. ASSUME NEW p \in Request, RenumberNothing(p) PROVE (LaterIsEarly /\ PassedMeansOver)'
  BY <1>10 DEF RenumberNothing, api
<1>11. ASSUME NEW p \in Request, ReadList(p) PROVE (LaterIsEarly /\ PassedMeansOver)'
  BY <1>11 DEF ReadList, api, history
<1>12. ASSUME NEW p \in Sort, NEW i \in Item, SaveItem(p, i)
       PROVE  (LaterIsEarly /\ PassedMeansOver)'
  BY <1>12 DEF SaveItem, api, history
<1>13. ASSUME NEW p \in Sort, NEW i \in Item, SaveItemFails(p, i)
       PROVE  (LaterIsEarly /\ PassedMeansOver)'
  BY <1>13 DEF SaveItemFails, api
<1>14. ASSUME NEW p \in Request, WorkFails(p) PROVE (LaterIsEarly /\ PassedMeansOver)'
  BY <1>14 DEF WorkFails, api
<1>15. ASSUME NEW p \in Request, Finish(p) PROVE (LaterIsEarly /\ PassedMeansOver)'
  BY <1>15 DEF Finish, api
<1>16. ASSUME NEW p \in Request, Ack(p) PROVE (LaterIsEarly /\ PassedMeansOver)'
  BY <1>16 DEF Ack, api, history
<1>17. ASSUME NEW p \in Request, Crash(p) PROVE (LaterIsEarly /\ PassedMeansOver)'
  BY <1>17 DEF Crash, api, history
<1>18. ASSUME NEW p \in Request, Expire(p) PROVE (LaterIsEarly /\ PassedMeansOver)'
  BY <1>18 DEF Expire, api, history
<1>19. CASE UNCHANGED vars
  BY <1>19 DEF vars, api, history
<1> QED
  BY <1>1, <1>2, <1>3, <1>4, <1>5, <1>6, <1>7, <1>8, <1>9, <1>10, <1>11, <1>12, <1>13,
     <1>14, <1>15, <1>16, <1>17, <1>18, <1>19 DEF Next, ApiStep, WorkStep, Faulty

LEMMA StaleStep ==
  /\ TypeOK /\ JobAfterReply /\ NothingBefore /\ JobFitsKey /\ PassedMeansOver
  /\ StaleWasPassed /\ StaleOnlyIfEarly /\ [Next]_vars
  => (StaleWasPassed /\ StaleOnlyIfEarly)'
<1> SUFFICES ASSUME TypeOK, JobAfterReply, NothingBefore, JobFitsKey, PassedMeansOver,
                    StaleWasPassed, StaleOnlyIfEarly, [Next]_vars
             PROVE  (StaleWasPassed /\ StaleOnlyIfEarly)'
  OBVIOUS
<1> USE DisjointAssumption, SortAssumption DEF TypeOK, Request, Status, InWork,
        JobAfterReply, NothingBefore, JobFitsKey, PassedMeansOver, StaleWasPassed,
        StaleOnlyIfEarly, Running
<1>1. ASSUME NEW p \in Request, ListKeys(p) PROVE (StaleWasPassed /\ StaleOnlyIfEarly)'
  BY <1>1 DEF ListKeys, Running, NoKeyYet
<1>2. ASSUME NEW p \in Request, NEW r \in Reset, ReadKey(p, r)
      PROVE  (StaleWasPassed /\ StaleOnlyIfEarly)'
  BY <1>2 DEF ReadKey, Blocks, history
<1>3. ASSUME NEW p \in Request, SetInit(p) PROVE (StaleWasPassed /\ StaleOnlyIfEarly)'
  BY <1>3 DEF SetInit, history
<1>4. ASSUME NEW p \in Request, AddJob(p) PROVE (StaleWasPassed /\ StaleOnlyIfEarly)'
  BY <1>4 DEF AddJob, history
<1>5. ASSUME NEW p \in Request, AddFails(p) PROVE (StaleWasPassed /\ StaleOnlyIfEarly)'
  BY <1>5 DEF AddFails
<1>6. ASSUME NEW p \in Request, TakeJob(p) PROVE (StaleWasPassed /\ StaleOnlyIfEarly)'
  BY <1>6 DEF TakeJob, MayBegin, api
<1>7. ASSUME NEW p \in Request, Begin(p) PROVE (StaleWasPassed /\ StaleOnlyIfEarly)'
  BY <1>7 DEF Begin, api
<1>8. ASSUME NEW p \in Request, Renumber(p) PROVE (StaleWasPassed /\ StaleOnlyIfEarly)'
  BY <1>8 DEF Renumber, api
<1>9. ASSUME NEW p \in Request, RenumberFails(p) PROVE (StaleWasPassed /\ StaleOnlyIfEarly)'
  BY <1>9 DEF RenumberFails, AfterError, api, history
<1>10. ASSUME NEW p \in Request, RenumberNothing(p)
       PROVE  (StaleWasPassed /\ StaleOnlyIfEarly)'
  BY <1>10 DEF RenumberNothing, api
<1>11. ASSUME NEW p \in Request, ReadList(p) PROVE (StaleWasPassed /\ StaleOnlyIfEarly)'
  BY <1>11 DEF ReadList, api, history
<1>12. ASSUME NEW p \in Sort, NEW i \in Item, SaveItem(p, i)
       PROVE  (StaleWasPassed /\ StaleOnlyIfEarly)'
  BY <1>12 DEF SaveItem, api, history
<1>13. ASSUME NEW p \in Sort, NEW i \in Item, SaveItemFails(p, i)
       PROVE  (StaleWasPassed /\ StaleOnlyIfEarly)'
  BY <1>13 DEF SaveItemFails, api
<1>14. ASSUME NEW p \in Request, WorkFails(p) PROVE (StaleWasPassed /\ StaleOnlyIfEarly)'
  BY <1>14 DEF WorkFails, api
<1>15. ASSUME NEW p \in Request, Finish(p) PROVE (StaleWasPassed /\ StaleOnlyIfEarly)'
  BY <1>15 DEF Finish, api
<1>16. ASSUME NEW p \in Request, Ack(p) PROVE (StaleWasPassed /\ StaleOnlyIfEarly)'
  BY <1>16 DEF Ack, api, history
<1>17. ASSUME NEW p \in Request, Crash(p) PROVE (StaleWasPassed /\ StaleOnlyIfEarly)'
  BY <1>17 DEF Crash, api, history
<1>18. ASSUME NEW p \in Request, Expire(p) PROVE (StaleWasPassed /\ StaleOnlyIfEarly)'
  BY <1>18 DEF Expire, api, history
<1>19. CASE UNCHANGED vars
  BY <1>19 DEF vars, api, history
<1> QED
  BY <1>1, <1>2, <1>3, <1>4, <1>5, <1>6, <1>7, <1>8, <1>9, <1>10, <1>11, <1>12, <1>13,
     <1>14, <1>15, <1>16, <1>17, <1>18, <1>19 DEF Next, ApiStep, WorkStep, Faulty

LEMMA JobStep ==
  /\ TypeOK /\ JobAfterReply /\ NothingBefore /\ JobFitsKey /\ KeyHasJob /\ [Next]_vars
  => (KeyHasJob)'
<1> SUFFICES ASSUME TypeOK, JobAfterReply, NothingBefore, JobFitsKey, KeyHasJob, [Next]_vars
             PROVE  (KeyHasJob)'
  OBVIOUS
<1> USE DisjointAssumption, SortAssumption DEF TypeOK, Request, Status, InWork,
        JobAfterReply, NothingBefore, JobFitsKey, KeyHasJob
<1>1. ASSUME NEW p \in Request, ListKeys(p) PROVE (KeyHasJob)'
  BY <1>1 DEF ListKeys, Running, NoKeyYet
<1>2. ASSUME NEW p \in Request, NEW r \in Reset, ReadKey(p, r) PROVE (KeyHasJob)'
  BY <1>2 DEF ReadKey, Blocks, history
<1>3. ASSUME NEW p \in Request, SetInit(p) PROVE (KeyHasJob)'
  BY <1>3 DEF SetInit, history
<1>4. ASSUME NEW p \in Request, AddJob(p) PROVE (KeyHasJob)'
  BY <1>4 DEF AddJob, history
<1>5. ASSUME NEW p \in Request, AddFails(p) PROVE (KeyHasJob)'
  BY <1>5 DEF AddFails
<1>6. ASSUME NEW p \in Request, TakeJob(p) PROVE (KeyHasJob)'
  BY <1>6 DEF TakeJob, MayBegin, api
<1>7. ASSUME NEW p \in Request, Begin(p) PROVE (KeyHasJob)'
  BY <1>7 DEF Begin, api
<1>8. ASSUME NEW p \in Request, Renumber(p) PROVE (KeyHasJob)'
  BY <1>8 DEF Renumber, api
<1>9. ASSUME NEW p \in Request, RenumberFails(p) PROVE (KeyHasJob)'
  BY <1>9 DEF RenumberFails, AfterError, api, history
<1>10. ASSUME NEW p \in Request, RenumberNothing(p) PROVE (KeyHasJob)'
  BY <1>10 DEF RenumberNothing, api
<1>11. ASSUME NEW p \in Request, ReadList(p) PROVE (KeyHasJob)'
  BY <1>11 DEF ReadList, api, history
<1>12. ASSUME NEW p \in Sort, NEW i \in Item, SaveItem(p, i) PROVE (KeyHasJob)'
  BY <1>12 DEF SaveItem, api, history
<1>13. ASSUME NEW p \in Sort, NEW i \in Item, SaveItemFails(p, i) PROVE (KeyHasJob)'
  BY <1>13 DEF SaveItemFails, api
<1>14. ASSUME NEW p \in Request, WorkFails(p) PROVE (KeyHasJob)'
  BY <1>14 DEF WorkFails, api
<1>15. ASSUME NEW p \in Request, Finish(p) PROVE (KeyHasJob)'
  BY <1>15 DEF Finish, api
<1>16. ASSUME NEW p \in Request, Ack(p) PROVE (KeyHasJob)'
  BY <1>16 DEF Ack, api, history
<1>17. ASSUME NEW p \in Request, Crash(p) PROVE (KeyHasJob)'
  BY <1>17 DEF Crash, api, history
<1>18. ASSUME NEW p \in Request, Expire(p) PROVE (KeyHasJob)'
  BY <1>18 DEF Expire, api, history
<1>19. CASE UNCHANGED vars
  BY <1>19 DEF vars, api, history
<1> QED
  BY <1>1, <1>2, <1>3, <1>4, <1>5, <1>6, <1>7, <1>8, <1>9, <1>10, <1>11, <1>12, <1>13,
     <1>14, <1>15, <1>16, <1>17, <1>18, <1>19 DEF Next, ApiStep, WorkStep, Faulty

LEMMA OrderStep ==
  /\ TypeOK /\ JobFitsKey /\ WrittenStands /\ DoneMeansDone /\ [Next]_vars
  => (WrittenStands /\ DoneMeansDone)'
<1> SUFFICES ASSUME TypeOK, JobFitsKey, WrittenStands, DoneMeansDone, [Next]_vars
             PROVE  (WrittenStands /\ DoneMeansDone)'
  OBVIOUS
<1> USE DisjointAssumption, SortAssumption DEF TypeOK, Request, Status, InWork,
        JobFitsKey, WrittenStands, DoneMeansDone, Stands, LessThan
<1>1. ASSUME NEW p \in Request, ListKeys(p) PROVE (WrittenStands /\ DoneMeansDone)'
  BY <1>1 DEF ListKeys, Running, NoKeyYet
<1>2. ASSUME NEW p \in Request, NEW r \in Reset, ReadKey(p, r)
      PROVE  (WrittenStands /\ DoneMeansDone)'
  BY <1>2 DEF ReadKey, Blocks, history
<1>3. ASSUME NEW p \in Request, SetInit(p) PROVE (WrittenStands /\ DoneMeansDone)'
  BY <1>3 DEF SetInit, history
<1>4. ASSUME NEW p \in Request, AddJob(p) PROVE (WrittenStands /\ DoneMeansDone)'
  BY <1>4 DEF AddJob, history
<1>5. ASSUME NEW p \in Request, AddFails(p) PROVE (WrittenStands /\ DoneMeansDone)'
  BY <1>5 DEF AddFails
<1>6. ASSUME NEW p \in Request, TakeJob(p) PROVE (WrittenStands /\ DoneMeansDone)'
  BY <1>6 DEF TakeJob, MayBegin, api
<1>7. ASSUME NEW p \in Request, Begin(p) PROVE (WrittenStands /\ DoneMeansDone)'
  BY <1>7 DEF Begin, api
<1>8. ASSUME NEW p \in Request, Renumber(p) PROVE (WrittenStands /\ DoneMeansDone)'
  BY <1>8 DEF Renumber, api
<1>9. ASSUME NEW p \in Request, RenumberFails(p) PROVE (WrittenStands /\ DoneMeansDone)'
  BY <1>9 DEF RenumberFails, AfterError, api, history
<1>10. ASSUME NEW p \in Request, RenumberNothing(p) PROVE (WrittenStands /\ DoneMeansDone)'
  BY <1>10 DEF RenumberNothing, api
<1>11. ASSUME NEW p \in Request, ReadList(p) PROVE (WrittenStands /\ DoneMeansDone)'
  BY <1>11 DEF ReadList, api, history
<1>12. ASSUME NEW p \in Sort, NEW i \in Item, SaveItem(p, i)
       PROVE  (WrittenStands /\ DoneMeansDone)'
  BY <1>12 DEF SaveItem, api, history
<1>13. ASSUME NEW p \in Sort, NEW i \in Item, SaveItemFails(p, i)
       PROVE  (WrittenStands /\ DoneMeansDone)'
  BY <1>13 DEF SaveItemFails, api
<1>14. ASSUME NEW p \in Request, WorkFails(p) PROVE (WrittenStands /\ DoneMeansDone)'
  BY <1>14 DEF WorkFails, api
<1>15. ASSUME NEW p \in Request, Finish(p) PROVE (WrittenStands /\ DoneMeansDone)'
  BY <1>15 DEF Finish, api
<1>16. ASSUME NEW p \in Request, Ack(p) PROVE (WrittenStands /\ DoneMeansDone)'
  BY <1>16 DEF Ack, api, history
<1>17. ASSUME NEW p \in Request, Crash(p) PROVE (WrittenStands /\ DoneMeansDone)'
  BY <1>17 DEF Crash, api, history
<1>18. ASSUME NEW p \in Request, Expire(p) PROVE (WrittenStands /\ DoneMeansDone)'
  BY <1>18 DEF Expire, api, history
<1>19. CASE UNCHANGED vars
  BY <1>19 DEF vars, api, history
<1> QED
  BY <1>1, <1>2, <1>3, <1>4, <1>5, <1>6, <1>7, <1>8, <1>9, <1>10, <1>11, <1>12, <1>13,
     <1>14, <1>15, <1>16, <1>17, <1>18, <1>19 DEF Next, ApiStep, WorkStep, Faulty

-----------------------------------------------------------------------------
(* The properties *)

LEMMA InitInv == Init => IInv
<1> SUFFICES ASSUME Init PROVE IInv
  OBVIOUS
<1>1. TypeOK
  BY BoundAssumption DEF Init, TypeOK, Status, InWork
<1> QED
  BY <1>1 DEF Init, IInv, JobAfterReply, NothingBefore, FinishedIsDone, JobFitsKey,
     LaterIsEarly,
     PassedMeansOver, StaleWasPassed, StaleOnlyIfEarly, KeyHasJob, WrittenStands, DoneMeansDone,
     Running, Request

LEMMA InvStep == IInv /\ [Next]_vars => IInv'
  BY TypeStep, KeyStep, PassStep, StaleStep, JobStep, OrderStep DEF IInv

LEMMA Invariance == Spec => []IInv
  BY InitInv, InvStep, PTL DEF Spec

LEMMA ResetsExclude == IInv => OneReset
<1> SUFFICES ASSUME IInv, NEW r1 \in Reset, NEW r2 \in Reset, r1 # r2, Running(r1),
                    Running(r2)
             PROVE  \/ {<<r1, r2>>, <<r2, r1>>} \subseteq early
                    \/ r1 \in again \/ r2 \in again
  BY DEF OneReset
<1>1. /\ call[r1] \in {"add", "replied"} /\ unread[r1] = {}
      /\ call[r2] \in {"add", "replied"} /\ unread[r2] = {}
  BY DEF IInv, NothingBefore, Running, Request
<1> QED
  BY <1>1 DEF IInv, PassedMeansOver, Request

(***************************************************************************)
(* isResetOrderRunning keeps resets apart: of any number of resets, two    *)
(* run at once only if each listed the keys before the other had its own,  *)
(* or one is running again after its key was DONE or gone.                 *)
(***************************************************************************)
THEOREM ResetsAreExclusive == Spec => []OneReset
  BY Invariance, ResetsExclude, PTL

(***************************************************************************)
(* A sort never writes over the numbers of a reset that its check could    *)
(* have seen, unless the reset outlived its key or runs again.             *)
(***************************************************************************)
THEOREM SortsAreNotStale == Spec => []StaleOnlyIfEarly
<1>1. IInv => StaleOnlyIfEarly
  BY DEF IInv
<1> QED
  BY <1>1, Invariance, PTL

(***************************************************************************)
(* However often the worker dies, a status INIT or IN_PROCESS has a job in *)
(* the queue or in work, but for the jobs the code gives up.               *)
(***************************************************************************)
THEOREM StatusHasJob == Spec => []KeyHasJob
<1>1. IInv => KeyHasJob
  BY DEF IInv
<1> QED
  BY <1>1, Invariance, PTL

(***************************************************************************)
(* A sort that reports DONE has its effect on every object it moved, for   *)
(* any other sorts and resets at the same time.                            *)
(***************************************************************************)
THEOREM DoneIsDone == Spec => []DoneMeansDone
<1>1. IInv => DoneMeansDone
  BY DEF IInv
<1> QED
  BY <1>1, Invariance, PTL

-----------------------------------------------------------------------------
(* The refinement *)

PromiseStep == \A p \in Request : [Promise(p)!Next]_(ClientView(p))

LEMMA ViewStep == IInv /\ [Next]_vars => PromiseStep
<1> SUFFICES ASSUME IInv, [Next]_vars, NEW q \in Request
             PROVE  [Promise(q)!Next]_(ClientView(q))
  BY DEF PromiseStep
<1> USE DisjointAssumption DEF IInv, TypeOK, Request, Status, JobAfterReply, NothingBefore,
        FinishedIsDone, JobFitsKey, ClientView, NoKeyYet, Promise!Next, Promise!Accept,
        Promise!Begin, Promise!Finish, Promise!Repeat, Promise!Lose, Promise!Forget
<1>1. ASSUME NEW p \in Request, ListKeys(p) PROVE [Promise(q)!Next]_(ClientView(q))
  BY <1>1 DEF ListKeys, Running, NoKeyYet
<1>2. ASSUME NEW p \in Request, NEW r \in Reset, ReadKey(p, r)
      PROVE  [Promise(q)!Next]_(ClientView(q))
  BY <1>2 DEF ReadKey, Blocks, history
<1>3. ASSUME NEW p \in Request, SetInit(p) PROVE [Promise(q)!Next]_(ClientView(q))
  BY <1>3 DEF SetInit, history
<1>4. ASSUME NEW p \in Request, AddJob(p) PROVE [Promise(q)!Next]_(ClientView(q))
  BY <1>4 DEF AddJob, history
<1>5. ASSUME NEW p \in Request, AddFails(p) PROVE [Promise(q)!Next]_(ClientView(q))
  BY <1>5 DEF AddFails
<1>6. ASSUME NEW p \in Request, TakeJob(p) PROVE [Promise(q)!Next]_(ClientView(q))
  BY <1>6 DEF TakeJob, MayBegin, api
<1>7. ASSUME NEW p \in Request, Begin(p) PROVE [Promise(q)!Next]_(ClientView(q))
  BY <1>7 DEF Begin, api
<1>8. ASSUME NEW p \in Request, Renumber(p) PROVE [Promise(q)!Next]_(ClientView(q))
  BY <1>8 DEF Renumber, api
<1>9. ASSUME NEW p \in Request, RenumberFails(p) PROVE [Promise(q)!Next]_(ClientView(q))
  BY <1>9 DEF RenumberFails, AfterError, api, history
<1>10. ASSUME NEW p \in Request, RenumberNothing(p) PROVE [Promise(q)!Next]_(ClientView(q))
  BY <1>10 DEF RenumberNothing, api
<1>11. ASSUME NEW p \in Request, ReadList(p) PROVE [Promise(q)!Next]_(ClientView(q))
  BY <1>11 DEF ReadList, api, history
<1>12. ASSUME NEW p \in Sort, NEW i \in Item, SaveItem(p, i)
       PROVE  [Promise(q)!Next]_(ClientView(q))
  BY <1>12 DEF SaveItem, api, history
<1>13. ASSUME NEW p \in Sort, NEW i \in Item, SaveItemFails(p, i)
       PROVE  [Promise(q)!Next]_(ClientView(q))
  BY <1>13 DEF SaveItemFails, api
<1>14. ASSUME NEW p \in Request, WorkFails(p) PROVE [Promise(q)!Next]_(ClientView(q))
  BY <1>14 DEF WorkFails, api
<1>15. ASSUME NEW p \in Request, Finish(p) PROVE [Promise(q)!Next]_(ClientView(q))
  BY <1>15 DEF Finish, api
<1>16. ASSUME NEW p \in Request, Ack(p) PROVE [Promise(q)!Next]_(ClientView(q))
  BY <1>16 DEF Ack, api, history
<1>17. ASSUME NEW p \in Request, Crash(p) PROVE [Promise(q)!Next]_(ClientView(q))
  BY <1>17 DEF Crash, api, history
<1>18. ASSUME NEW p \in Request, Expire(p) PROVE [Promise(q)!Next]_(ClientView(q))
  BY <1>18 DEF Expire, api, history
<1>19. CASE UNCHANGED vars
  BY <1>19 DEF vars, api, history
<1> QED
  BY <1>1, <1>2, <1>3, <1>4, <1>5, <1>6, <1>7, <1>8, <1>9, <1>10, <1>11, <1>12, <1>13,
     <1>14, <1>15, <1>16, <1>17, <1>18, <1>19 DEF Next, ApiStep, WorkStep, Faulty

(***************************************************************************)
(* Ordering implements JobStatus for every request: the status a client    *)
(* polls only moves forward, and only a reset is ever taken up again.      *)
(***************************************************************************)
THEOREM StatusMovesForward == Spec => OnlyForward
<1>1. Init => \A p \in Request : Promise(p)!Init
  BY DEF Init, Promise!Init, ClientView, NoKeyYet
<1>2. IInv /\ [Next]_vars => [PromiseStep]_vars
  BY ViewStep
<1>3. Spec => [][PromiseStep]_vars
  BY <1>2, Invariance, PTL DEF Spec
<1> QED
  BY <1>1, <1>3, PTL DEF Spec, OnlyForward, PromiseStep

=============================================================================
