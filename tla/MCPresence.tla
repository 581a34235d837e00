----------------------------- MODULE MCPresence -----------------------------
(* The instance of Presence for TLC. *)
EXTENDS Presence, TLC

CONSTANTS u1, h1, h2, s1, s2, s3

\* Three clients of one user on two servers: each may connect before, while or
\* after another one disconnects.
MCOwner == s1 :> u1 @@ s2 :> u1 @@ s3 :> u1
MCHome  == s1 :> h1 @@ s2 :> h2 @@ s3 :> h1

=============================================================================
