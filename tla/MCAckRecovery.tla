--------------------------- MODULE MCAckRecovery ---------------------------
(* The instance of AckRecovery for TLC. *)
EXTENDS AckRecovery, TLC

CONSTANTS u1, s1, s2, m1, m2

MCOwner      == s1 :> u1 @@ s2 :> u1
MCRecipients == m1 :> {u1} @@ m2 :> {u1}
MCTime       == m1 :> 1 @@ m2 :> 2

=============================================================================
