------------------------------ MODULE Mailbox ------------------------------
(***************************************************************************)
(* What a service promises to one recipient of one message: once it keeps  *)
(* the message it does not drop it, and once the message was handed over   *)
(* that is so for good.  A recipient may be exposed to a window in which   *)
(* the promise does not hold; a later emit may still reach them.           *)
(***************************************************************************)
VARIABLE
  mail   \* "none": not kept yet; "refused": the send failed before it was; "kept": where a
         \* later connect finds it; "handed": a client of the recipient was given it;
         \* "exposed": in a window

MailTypeOK == mail \in {"none", "refused", "kept", "handed", "exposed"}

Init == mail = "none"

Refuse == mail = "none" /\ mail' = "refused"
Keep   == mail \in {"none", "refused"} /\ mail' = "kept"
Hand   == mail \in {"none", "kept", "exposed"} /\ mail' = "handed"
Expose == mail \in {"none", "refused", "kept"} /\ mail' = "exposed"

Next == Refuse \/ Keep \/ Hand \/ Expose

Spec == Init /\ [][Next]_mail

=============================================================================
