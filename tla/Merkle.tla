------------------------------- MODULE Merkle -------------------------------
(***************************************************************************)
(* The hash layer of src/crypto.rs: domain-separated leaf and node hashes, *)
(* the RFC 6962 shaped tree with lone-node promotion, the audit path and   *)
(* the inclusion fold.                                                     *)
(*                                                                         *)
(* SHA-256 is a free constructor: a digest IS the byte string it hashes,   *)
(* wrapped, so two digests are equal only if their inputs are.  This is    *)
(* collision resistance taken as perfect; that no leaf hash is ever a node *)
(* hash is not assumed, it follows from what the two functions hash.       *)
(*                                                                         *)
(* A tree level is a sequence.  The code's 0-based index i is position     *)
(* i + 1 here; indices that are program values keep the code's base.       *)
(***************************************************************************)
EXTENDS Integers, Sequences

MERKLE_LEAF_TAG == 0
MERKLE_NODE_TAG == 1

Sha256(bytes) == [sha256 |-> bytes]

LeafHash(leaf)        == Sha256(<<MERKLE_LEAF_TAG, leaf>>)
NodeHash(left, right) == Sha256(<<MERKLE_NODE_TAG, left, right>>)

(* The root of an empty batch. *)
EmptyRoot == Sha256(<<>>)

(* n.div_ceil(2): how many nodes the level above n nodes has. *)
DivCeil2(n) == (n + 1) \div 2

LeafLevel(leaves) == [i \in 1..Len(leaves) |-> LeafHash(leaves[i])]

(* Mutants of Parents: a lone node paired with itself; a lone node lost.   *)
ParentsDuplicated(level) ==
    [k \in 1..DivCeil2(Len(level)) |->
        NodeHash(level[2*k - 1], IF 2*k <= Len(level) THEN level[2*k] ELSE level[2*k - 1])]
ParentsOfPairs(level) ==
    [k \in 1..(Len(level) \div 2) |-> NodeHash(level[2*k - 1], level[2*k])]

(* One round of the while loop: pairs are hashed, a lone trailing node is  *)
(* promoted unchanged.                                                     *)
Parents(level) ==
    [k \in 1..DivCeil2(Len(level)) |->
        IF 2*k <= Len(level) THEN NodeHash(level[2*k - 1], level[2*k])
                             ELSE level[2*k - 1]]

(* The path entries a level contributes for the node at 0-based idx: its   *)
(* sibling, or nothing when the node is promoted.                          *)
Sibling(level, idx) ==
    IF idx % 2 = 1 THEN <<level[idx]>>
    ELSE IF idx + 1 < Len(level) THEN <<level[idx + 2]>> ELSE <<>>

-----------------------------------------------------------------------------
(* The three functions as the rest of the verifier calls them.  The module *)
(* MerkleProof runs the same loops one iteration at a time and checks that *)
(* these definitions return what the loops return.                         *)

(* NodesAfter(n)[k] is how many nodes n nodes are after k rounds.          *)
NodesAfter(n) ==
    LET nodes[k \in Nat] == IF k = 0 THEN n ELSE DivCeil2(nodes[k-1])
    IN  nodes

(* How many rounds it takes while there is more than one node.             *)
Height(n) ==
    CHOOSE h \in 0..n : /\ NodesAfter(n)[h] <= 1
                        /\ \A j \in 0..(h-1) : NodesAfter(n)[j] > 1

(* LevelsOf(leaves)[k] is `level` after k rounds. *)
LevelsOf(leaves) ==
    LET level[k \in Nat] == IF k = 0 THEN LeafLevel(leaves)
                                     ELSE Parents(level[k-1])
    IN  level

MerkleRoot(leaves) ==
    IF leaves = <<>> THEN EmptyRoot
                     ELSE LevelsOf(leaves)[Height(Len(leaves))][1]

(* A round of merkle_audit_path: the sibling joins the path. *)
StartPath(index) == [index |-> index, path |-> <<>>]

Extended(last, level) ==
    [index |-> last.index \div 2, path |-> last.path \o Sibling(level, last.index)]

PathsOf(leaves, index) ==
    LET path[k \in Nat] == IF k = 0 THEN StartPath(index)
                           ELSE Extended(path[k-1], LevelsOf(leaves)[k-1])
    IN  path

MerkleAuditPath(leaves, index) ==
    IF index >= Len(leaves) THEN <<>>
                            ELSE PathsOf(leaves, index)[Height(Len(leaves))].path

(* The guards of the fold's branches: a left child is promoted when it is  *)
(* the last of its level, otherwise the next path entry is its sibling.    *)
IsLeft(fold)       == fold.index % 2 = 0
(* Mutant of IsPromoted: off by one. *)
IsPromotedLate(fold) == IsLeft(fold) /\ fold.index + 1 > fold.count

IsPromoted(fold)   == IsLeft(fold) /\ fold.index + 1 >= fold.count
HasNext(fold, path) == fold.path_pos < Len(path)

(* Mutant of Climb: the index is not halved. *)
ClimbSameIndex(fold, node, used) ==
    [current  |-> node, index |-> fold.index, count |-> DivCeil2(fold.count),
     path_pos |-> fold.path_pos + used]

(* The tail of an iteration: move up one level holding `node`, `used` path *)
(* entries further on.                                                     *)
Climb(fold, node, used) ==
    [current  |-> node,
     index    |-> fold.index \div 2,
     count    |-> DivCeil2(fold.count),
     path_pos |-> fold.path_pos + used]

(* Mutant of Combine: the sibling is always on the right. *)
CombineOneSided(fold, path) == NodeHash(fold.current, path[fold.path_pos + 1])

(* What an iteration makes of `current`. *)
Combine(fold, path) ==
    LET sibling == path[fold.path_pos + 1]
    IN  IF IsLeft(fold) THEN NodeHash(fold.current, sibling)
                        ELSE NodeHash(sibling, fold.current)

(* Mutant of StartFold: the leaf is taken for its hash. *)
StartFoldUnhashed(leaf, leaf_index, leaf_count) ==
    [current |-> leaf, index |-> leaf_index, count |-> leaf_count, path_pos |-> 0]

StartFold(leaf, leaf_index, leaf_count) ==
    [current |-> LeafHash(leaf), index |-> leaf_index,
     count |-> leaf_count, path_pos |-> 0]

(* Mutant of Lands: what is left of the path is ignored. *)
LandsEarly(fold, path, expected_root) == fold.current = expected_root

(* After the loop: the path is used up and the fold landed on the root. *)
Lands(fold, path, expected_root) ==
    fold.path_pos = Len(path) /\ fold.current = expected_root

(* A turn of the fold's loop; a fold that wants for a path entry ends with *)
(* more of the path used than there is.                                    *)
Turn(fold, path) ==
    IF fold.count <= 1 THEN fold
    ELSE IF IsPromoted(fold) THEN Climb(fold, fold.current, 0)
    ELSE IF HasNext(fold, path) THEN Climb(fold, Combine(fold, path), 1)
    ELSE [fold EXCEPT !.count = 1, !.path_pos = Len(path) + 1]

FoldsOf(leaf, leaf_index, leaf_count, path) ==
    LET fold[k \in Nat] == IF k = 0 THEN StartFold(leaf, leaf_index, leaf_count)
                                    ELSE Turn(fold[k-1], path)
    IN  fold

MerkleInclusionVerify(leaf, leaf_index, leaf_count, path, expected_root) ==
    /\ leaf_count # 0
    /\ leaf_index < leaf_count
    /\ Lands(FoldsOf(leaf, leaf_index, leaf_count, path)[Height(leaf_count)],
             path, expected_root)
=============================================================================
