--------------------------- MODULE MCTrashFolders ---------------------------
(* Instances of TrashFolders for TLC. *)
EXTENDS TrashFolders, TLC

CONSTANTS top, sub, leaf, twin, box, lid, k1, k2, k3

\* A folder in a folder, with two folders in it; and a folder with one in it.
MCParent == top :> None @@ sub :> top @@ leaf :> sub @@ twin :> sub @@ box :> None @@ lid :> box

Large == {top, sub, leaf, twin}
Small == {box, lid}

\* Of rows only their ids matter, in any order.
Order == <<top, sub, leaf, twin, box, lid>>
MCInit ==
  /\ Init
  /\ \A i, j \in 1..6 : i < j /\ row[Order[j]] # 0 => row[Order[i]] < row[Order[j]]

\* Two requests in the large tree; or three in the small one, no purge if all are made.
Asked == {req[k].of : k \in Request} \ {None}
Trash == {f \in Folder : row[f] # 0}
Fresh == {k \in Request : req[k].pc = "new"}
OneTree ==
  \/ Asked \cup Trash \subseteq Large /\ Fresh # {}
  \/ /\ Asked \cup Trash \subseteq Small
     /\ Fresh # {} \/ \A k \in Request : req[k].kind # "purge"

\* The third request is not made in the large tree.
MayAsk(k) == k \in Fresh => Cardinality(Fresh) > 1 \/ Asked \subseteq Small

MCNext == StartWalk \/ Crash \/ \E k \in Request : (MayAsk(k) /\ RequestStep(k)) \/ WalkStep(k)

MCSpec == MCInit /\ [][MCNext]_vars

Symmetry == Permutations(Request)

=============================================================================
