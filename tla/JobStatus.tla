------------------------------ MODULE JobStatus ------------------------------
(***************************************************************************)
(* What a client may see of the status of a job it was given a request_uid *)
(* for, when it asks for it again and again: a status that only moves      *)
(* forward until it is no longer kept, unless the job is Repeatable, when  *)
(* it may be taken up again after it was done.                             *)
(***************************************************************************)
CONSTANT Repeatable   \* a Boolean

VARIABLE
  status    \* "lost" and "past": no longer kept, before and after it was done; a client
            \* cannot tell them from "unknown"

StatusTypeOK == status \in {"unknown", "INIT", "IN_PROCESS", "DONE", "lost", "past"}

Init == status = "unknown"

Accept == status = "unknown" /\ status' = "INIT"
Begin  == status \in {"INIT", "lost"} /\ status' = "IN_PROCESS"
Finish == status \in {"IN_PROCESS", "lost"} /\ status' = "DONE"
Repeat == Repeatable /\ status \in {"DONE", "past"} /\ status' = "IN_PROCESS"
Lose   == status \in {"INIT", "IN_PROCESS"} /\ status' = "lost"
Forget == status = "DONE" /\ status' = "past"

Next == Accept \/ Begin \/ Finish \/ Repeat \/ Lose \/ Forget

Spec == Init /\ [][Next]_status

=============================================================================
