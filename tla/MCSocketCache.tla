--------------------------- MODULE MCSocketCache ---------------------------
(* Instances of SocketCache for TLC. *)
EXTENDS SocketCache, TLC

CONSTANTS u1, h1, h2, s1, s2

\* A user with two clients, on two servers: the second connects before, while
\* or after the first disconnects.
MCOwner == s1 :> u1 @@ s2 :> u1
MCHome  == s1 :> h1 @@ s2 :> h2

=============================================================================
