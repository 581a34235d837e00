--------------------------- MODULE MCChatCounters ---------------------------
(* Instances of ChatCounters for TLC. *)
EXTENDS ChatCounters, TLC

CONSTANTS u1, u2, m1, m2, r1, r2, r3

\* Listeners on different tables are looked at one by one.
MCSlices == {{"unread"}, {"count"}, {"usage"}}

Symmetry == Permutations(User) \cup Permutations(Message) \cup Permutations(Request)

=============================================================================
