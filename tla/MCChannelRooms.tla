--------------------------- MODULE MCChannelRooms ---------------------------
(* Instances of ChannelRooms for TLC. *)
EXTENDS ChannelRooms, TLC

CONSTANTS c1, u1, u2, h1, s1, s2, r1, r2

\* Two users with a client each on one server: servers share no state of this
\* module but the tables, and the properties speak of one socket at a time.
MCOwner == s1 :> u1 @@ s2 :> u2
MCHome == s1 :> h1 @@ s2 :> h1

\* No request is named outside its own entry of req.
RequestSymmetry == Permutations({r1, r2})

=============================================================================
