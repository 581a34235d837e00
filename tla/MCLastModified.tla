--------------------------- MODULE MCLastModified ---------------------------
(* Instances of LastModified for TLC. *)
EXTENDS LastModified, TLC

CONSTANTS u1, u2, own, put, shared

\* A change to a collection that two users share, between a later one of the first user
\* and a later date that the second puts itself: on both rows two ways of writing meet.
MCKind    == own :> "own" @@ put :> "put" @@ shared :> "shared"
MCReaches == own :> {u1} @@ put :> {u2} @@ shared :> {u1, u2}
MCDate    == own :> 2 @@ put :> 2 @@ shared :> 1

=============================================================================
