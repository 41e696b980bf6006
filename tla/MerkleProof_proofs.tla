-------------------------- MODULE MerkleProof_proofs --------------------------
(***************************************************************************)
(* Proofs about MerkleProof, for every set of rows, batch, path and count. *)
(***************************************************************************)
EXTENDS MerkleProof, Merkle_proofs

-----------------------------------------------------------------------------
(* The signer's tree: every level is made of the parents of the one below, *)
(* and the signer stops at a level of at most one node.                    *)
TowerInv ==
    /\ IsSeq(leaves)
    /\ IsSeq(tower)
    /\ Len(tower) >= 1
    /\ \A k \in 1..Len(tower) : IsSeq(tower[k])
    /\ tower[1] = LeafLevel(leaves)
    /\ \A k \in 1..(Len(tower) - 1) :
          Len(tower[k]) > 1 /\ tower[k+1] = Parents(tower[k])
    /\ pc # "root" => Len(Top) <= 1

(* Who is being answered, and when the loop counter may move. *)
ControlInv ==
    /\ pc \in {"check", "fold"} => ByProof
    /\ pc \in {"recheck", "recompute"} => source = "rows"
    /\ pc \in {"check", "recheck"} => round = 0
    /\ pc \in {"root", "signed", "path", "proved"} =>
          round = 0 /\ source = "none"
    /\ verdict # "none" => pc = "done"
    /\ round \in Nat
    /\ gen.index \in Nat
    /\ pc = "fold" => proof.leaf_count # 0 /\ proof.leaf_index < proof.leaf_count

(* A batch is a sequence.                                                  *)
LEMMA BatchSeq ==
    ASSUME NEW b \in Batch
    PROVE  IsSeq(b)
  BY BatchAssumption, SeqIsSeq

(* The signer's levels are sequences, each but the last longer than one    *)
(* node and followed by the level half as long.                            *)
LEMMA TowerFacts ==
    ASSUME TowerInv
    PROVE  /\ IsSeq(leaves) /\ Len(leaves) \in Nat
           /\ IsSeq(tower) /\ Len(tower) \in Nat /\ 1 \in 1..Len(tower)
           /\ \A k \in 1..Len(tower) : IsSeq(tower[k]) /\ Len(tower[k]) \in Nat
           /\ \A k \in 1..Len(tower) :
                 k # Len(tower) => /\ k + 1 \in 1..Len(tower)
                                   /\ Len(tower[k]) > 1
                                   /\ tower[k+1] = Parents(tower[k])
           /\ Len(tower[1]) = Len(leaves)
           /\ \A i \in 1..Len(leaves) : tower[1][i] = LeafHash(leaves[i])
  <1>1. /\ IsSeq(leaves) /\ IsSeq(tower)
        /\ \A k \in 1..Len(tower) : IsSeq(tower[k])
    BY DEF TowerInv
  <1>2. Len(leaves) \in Nat /\ Len(tower) \in Nat /\ 1 \in 1..Len(tower)
    BY <1>1 DEF TowerInv, IsSeq
  <1>3. \A k \in 1..Len(tower) : Len(tower[k]) \in Nat
    BY <1>1 DEF IsSeq
  <1>4. ASSUME NEW k \in 1..Len(tower), k # Len(tower)
        PROVE  k + 1 \in 1..Len(tower) /\ Len(tower[k]) > 1 /\ tower[k+1] = Parents(tower[k])
    <2>1. k \in 1..(Len(tower) - 1)
      BY <1>2, <1>4
    <2>. QED BY <1>2, <2>1 DEF TowerInv
  <1>5. /\ Len(tower[1]) = Len(leaves)
        /\ \A i \in 1..Len(leaves) : tower[1][i] = LeafHash(leaves[i])
    BY <1>1, LeafLevelShape DEF TowerInv
  <1>. QED BY <1>1, <1>2, <1>3, <1>4, <1>5

(* Where a root is, once signed: the only node of the last level. *)
LEMMA TopOfTower ==
    ASSUME TowerInv, NEW k \in 1..Len(tower), Len(tower[k]) = 1
    PROVE  k = Len(tower) /\ leaves # <<>> /\ Root = tower[k][1]
  <1>1. Len(tower) \in Nat
    BY DEF TowerInv, IsSeq
  <1>2. k = Len(tower)
    <2>. SUFFICES ASSUME k # Len(tower) PROVE FALSE
      OBVIOUS
    <2>1. k \in 1..(Len(tower) - 1)
      BY <1>1
    <2>2. Len(tower[k]) > 1
      BY <2>1 DEF TowerInv
    <2>. QED BY <2>2
  <1>3. leaves # <<>>
    <2>. SUFFICES ASSUME leaves = <<>> PROVE FALSE
      OBVIOUS
    <2>1. Len(tower[1]) = 0
      BY LeafLevelShape DEF TowerInv
    <2>2. k # 1
      BY <2>1
    <2>3. 1 \in 1..(Len(tower) - 1)
      BY <1>1, <1>2, <2>2
    <2>. QED BY <2>1, <2>3 DEF TowerInv
  <1>. QED BY <1>2, <1>3 DEF Root, Top

-----------------------------------------------------------------------------
(* The levels built so far are those of the tree.                          *)
LEMMA TowerInvariant == Spec => []TowerInv
  <1>1. Init => TowerInv
    <2>. SUFFICES ASSUME Init PROVE TowerInv
      OBVIOUS
    <2>1. IsSeq(leaves)
      BY BatchSeq DEF Init
    <2>2. tower = [i \in 1..1 |-> tower[i]] /\ tower[1] = LeafLevel(leaves)
      BY DEF Init
    <2>3. IsSeq(tower) /\ Len(tower) = 1
      BY <2>2, SeqOfFunction
    <2>4. IsSeq(tower[1])
      BY <2>1, <2>2, LeafLevelShape
    <2>. QED BY <2>1, <2>2, <2>3, <2>4 DEF TowerInv, Init
  <1>2. TowerInv /\ [Next]_vars => TowerInv'
    <2>. SUFFICES ASSUME TowerInv, [Next]_vars PROVE TowerInv'
      OBVIOUS
    <2>. USE DEF Top
    <2>1. CASE RootLevel
      <3>. DEFINE n == Len(tower)
      <3>1. n \in Nat /\ n >= 1 /\ IsSeq(tower[n]) /\ IsSeq(tower)
        BY DEF TowerInv, IsSeq
      <3>2. tower' = Append(tower, Parents(tower[n])) /\ Len(tower[n]) > 1
        BY <2>1 DEF RootLevel
      <3>3. /\ IsSeq(tower')
            /\ Len(tower') = n + 1
            /\ \A i \in 1..n : tower'[i] = tower[i]
            /\ tower'[n + 1] = Parents(tower[n])
        BY <3>1, <3>2, AppendSeq
      <3>4. IsSeq(Parents(tower[n]))
        BY <3>1, ParentsShape
      <3>5. pc' = "root" /\ leaves' = leaves
        BY <2>1 DEF RootLevel
      <3>6. \A k \in 1..Len(tower') : IsSeq(tower'[k])
        BY <3>1, <3>3, <3>4 DEF TowerInv
      <3>7. \A k \in 1..(Len(tower') - 1) :
                Len(tower'[k]) > 1 /\ tower'[k+1] = Parents(tower'[k])
        BY <3>1, <3>2, <3>3 DEF TowerInv
      <3>. QED BY <3>1, <3>3, <3>5, <3>6, <3>7 DEF TowerInv
    <2>2. CASE RootDone
      BY <2>2 DEF RootDone, signer, TowerInv
    <2>3. CASE pc # "root" /\ pc' # "root" /\ UNCHANGED signer
      BY <2>3 DEF signer, TowerInv
    <2>4. CASE UNCHANGED vars
      BY <2>4 DEF vars, TowerInv
    <2>. QED
      BY <2>1, <2>2, <2>3, <2>4
      DEF Next, Compute, Environment, PathStart, PathLevel, PathDone, SubmitOwn,
          SubmitMoved, SubmitOther, Submit, SubmitRows, VerifyOutOfRange,
          VerifyStart, Looping, FoldPromote, FoldSibling, FoldMissing, FoldDone,
          RecomputeStart, RecomputeLevel, RecomputeDone, Answer
  <1>. QED BY <1>1, <1>2, PTL DEF Spec

(* The verifier answers what was submitted, once, and counts its rounds    *)
(* from zero.                                                              *)
LEMMA ControlInvariant == Spec => []ControlInv
  <1>1. Init => ControlInv
    BY DEF Init, ControlInv, ByProof, NoGen
  <1>2. ControlInv /\ [Next]_vars => ControlInv'
    <2>. SUFFICES ASSUME ControlInv, [Next]_vars PROVE ControlInv'
      OBVIOUS
    <2>. USE DEF ControlInv, ByProof, vars, signer, exporter, input, Answer, Looping
    <2>0. CASE PathLevel
      <3>1. gen'.index = gen.index
        BY <2>0 DEF PathLevel
      <3>. QED BY <2>0, <3>1 DEF PathLevel
    <2>1. CASE RootLevel \/ RootDone \/ PathDone
      BY <2>1 DEF RootLevel, RootDone, PathDone
    <2>2. CASE VerifyOutOfRange \/ VerifyStart
      BY <2>2 DEF VerifyOutOfRange, VerifyStart, InRange
    <2>3. CASE FoldPromote \/ FoldSibling \/ FoldMissing \/ FoldDone
      BY <2>3 DEF FoldPromote, FoldSibling, FoldMissing, FoldDone
    <2>4. CASE RecomputeStart \/ RecomputeLevel \/ RecomputeDone
      BY <2>4 DEF RecomputeStart, RecomputeLevel, RecomputeDone
    <2>5. CASE Environment
      BY <2>5 DEF Environment, PathStart, SubmitOwn, SubmitMoved, SubmitOther,
                  Submit, SubmitRows
    <2>6. CASE UNCHANGED vars
      BY <2>6
    <2>. QED BY <2>0, <2>1, <2>2, <2>3, <2>4, <2>5, <2>6 DEF Next, Compute
  <1>. QED BY <1>1, <1>2, PTL DEF Spec

-----------------------------------------------------------------------------
(* Soundness of the fold.  While a proof for the true row count is folded, *)
(* `current` stands at a known place of the tree; if it started from a row *)
(* that is not there, it differs from the node at that place on every      *)
(* level, because hashing is injective.                                    *)
AtNode(k) ==
    /\ k \in 1..Len(tower)
    /\ fold.count = Len(tower[k])
    /\ fold.index \in 0..(fold.count - 1)

BindInv ==
    /\ proof.leaf_index \in Nat
    /\ proof.leaf_count \in Nat
    /\ pc = "fold" /\ proof.leaf_count = Len(leaves) =>
          /\ AtNode(round + 1)
          /\ proof.leaf # leaves[proof.leaf_index + 1] =>
                fold.current # tower[round + 1][fold.index + 1]
    /\ InclusionBinds

(* One climb of a node known to be at level k leaves it at level k + 1. *)
LEMMA ClimbPosition ==
    ASSUME TowerInv, NEW k, AtNode(k), fold.count > 1, NEW node, NEW used,
           NEW f, f = Climb(fold, node, used)
    PROVE  /\ pc # "root" => k + 1 \in 1..Len(tower)
           /\ pc # "root" => tower[k+1] = Parents(tower[k])
           /\ IsSeq(tower[k])
           /\ f.current = node
           /\ f.count = DivCeil2(Len(tower[k]))
           /\ f.count = Len(Parents(tower[k]))
           /\ f.index = fold.index \div 2
           /\ f.index \in 0..(f.count - 1)
           /\ fold.index % 2 \in {0, 1}
           /\ IsPromoted(fold) =>
                 Parents(tower[k])[f.index + 1] = tower[k][fold.index + 1]
           /\ ~IsPromoted(fold) /\ IsLeft(fold) =>
                 Parents(tower[k])[f.index + 1]
                    = NodeHash(tower[k][fold.index + 1], tower[k][fold.index + 2])
           /\ ~IsLeft(fold) =>
                 Parents(tower[k])[f.index + 1]
                    = NodeHash(tower[k][fold.index], tower[k][fold.index + 1])
  <1>1. IsSeq(tower[k]) /\ Len(tower) \in Nat /\ k \in 1..Len(tower)
    BY DEF TowerInv, AtNode, IsSeq
  <1>2. ASSUME pc # "root"
        PROVE  k + 1 \in 1..Len(tower) /\ tower[k+1] = Parents(tower[k])
    <2>1. k # Len(tower)
      BY <1>2 DEF TowerInv, Top, AtNode
    <2>2. k \in 1..(Len(tower) - 1)
      BY <1>1, <2>1
    <2>. QED BY <1>1, <2>2 DEF TowerInv
  <1>3. /\ f.current = node
        /\ f.count = DivCeil2(Len(tower[k]))
        /\ f.index = fold.index \div 2
    BY DEF Climb, AtNode
  <1>4. f.count = Len(Parents(tower[k]))
    BY <1>1, <1>3, ParentsShape
  <1>5. f.index \in 0..(f.count - 1)
    BY <1>1, <1>3, ParentOf DEF AtNode
  <1>6. /\ Len(tower[k]) > 1 /\ Len(tower[k]) \in Nat
        /\ fold.index \in 0..(Len(tower[k]) - 1)
        /\ fold.count = Len(tower[k])
    BY <1>1 DEF AtNode, IsSeq
  <1>7. /\ fold.index % 2 \in {0, 1}
        /\ fold.index % 2 = 0 /\ fold.index + 1 >= Len(tower[k]) =>
              Parents(tower[k])[f.index + 1] = tower[k][fold.index + 1]
        /\ fold.index % 2 = 0 /\ fold.index + 1 < Len(tower[k]) =>
              Parents(tower[k])[f.index + 1]
                 = NodeHash(tower[k][fold.index + 1], tower[k][fold.index + 2])
        /\ fold.index % 2 = 1 =>
              Parents(tower[k])[f.index + 1]
                 = NodeHash(tower[k][fold.index], tower[k][fold.index + 1])
    <2>. DEFINE l == tower[k]
                i == fold.index
    <2>1. IsSeq(l) /\ Len(l) > 1 /\ i \in 0..(Len(l) - 1)
      BY <1>1, <1>6
    <2>2. f.index = i \div 2
      BY <1>3
    <2>. HIDE DEF l, i
    <2>. DEFINE p == Parents(l)[(i \div 2) + 1]
    <2>3. /\ i % 2 \in {0, 1}
          /\ i % 2 = 0 /\ i + 1 >= Len(l) => p = l[i + 1]
          /\ i % 2 = 0 /\ i + 1 < Len(l) => p = NodeHash(l[i + 1], l[i + 2])
          /\ i % 2 = 1 => p = NodeHash(l[i], l[i + 1])
      BY <2>1, ParentOf
    <2>4. p = Parents(l)[f.index + 1]
      BY <2>2
    <2>. HIDE DEF p
    <2>. QED BY <2>3, <2>4 DEF l, i
  <1>8. /\ IsLeft(fold) <=> fold.index % 2 = 0
        /\ IsPromoted(fold) <=> fold.index % 2 = 0 /\ fold.index + 1 >= Len(tower[k])
    BY <1>6 DEF IsLeft, IsPromoted
  <1>. HIDE DEF IsLeft, IsPromoted
  <1>9. /\ ~IsLeft(fold) => fold.index % 2 = 1
        /\ ~IsPromoted(fold) /\ IsLeft(fold) => fold.index + 1 < Len(tower[k])
    BY <1>6, <1>7, <1>8
  <1>. QED BY <1>1, <1>2, <1>3, <1>4, <1>5, <1>7, <1>8, <1>9

(* An accepted proof for the signed row count is about the row at the      *)
(* position it claims, for batches of every size and whatever else the     *)
(* pack carries (crypto.rs:280-326).                                       *)
THEOREM InclusionIsBinding == Spec => []InclusionBinds
  <1>1. Init => BindInv
    BY DEF Init, BindInv, InclusionBinds, Accepted, NoProof
  <1>2. TowerInv /\ TowerInv' /\ ControlInv /\ ControlInv' /\ BindInv /\ [Next]_vars
            => BindInv'
    <2>. SUFFICES ASSUME TowerInv, TowerInv', ControlInv, ControlInv', BindInv,
                         [Next]_vars
                  PROVE  BindInv'
      OBVIOUS
    <2>. USE DEF signer, exporter, input
    <2>1. CASE VerifyStart
      <3>1. /\ fold' = StartFold(proof.leaf, proof.leaf_index, proof.leaf_count)
            /\ UNCHANGED <<leaves, tower, proof, source, verdict, round>>
            /\ pc' = "fold" /\ pc = "check"
        BY <2>1 DEF VerifyStart
      <3>2. round = 0 /\ proof.leaf_index < proof.leaf_count
        BY <2>1 DEF VerifyStart, InRange, ControlInv
      <3>3. ASSUME proof.leaf_count = Len(leaves)
            PROVE  /\ AtNode(round + 1)'
                   /\ proof.leaf # leaves[proof.leaf_index + 1] =>
                        fold'.current # tower[1][fold'.index + 1]
        <4>1. /\ fold'.current = LeafHash(proof.leaf)
              /\ fold'.index = proof.leaf_index
              /\ fold'.count = Len(leaves)
          BY <3>1, <3>3 DEF StartFold
        <4>2. /\ Len(tower[1]) = Len(leaves)
              /\ 1 \in 1..Len(tower)
              /\ \A i \in 1..Len(leaves) : tower[1][i] = LeafHash(leaves[i])
          BY LeafLevelShape DEF TowerInv, IsSeq
        <4>3. proof.leaf_index + 1 \in 1..Len(leaves)
          BY <3>2, <3>3 DEF BindInv
        <4>. QED BY <3>1, <3>2, <3>3, <4>1, <4>2, <4>3, HashFacts DEF AtNode, BindInv
      <3>. QED BY <3>1, <3>2, <3>3 DEF BindInv, InclusionBinds, Accepted
    <2>2. CASE FoldPromote
      <3>. DEFINE k == round + 1
      <3>1. /\ fold' = Climb(fold, fold.current, 0)
            /\ UNCHANGED <<leaves, tower, proof, source, verdict, pc>>
            /\ pc = "fold" /\ fold.count > 1 /\ IsPromoted(fold) /\ round' = round + 1
        BY <2>2 DEF FoldPromote, Looping
      <3>2. ASSUME proof.leaf_count = Len(leaves)
            PROVE  /\ AtNode(round + 1)'
                   /\ proof.leaf # leaves[proof.leaf_index + 1] =>
                        fold'.current # tower[k + 1][fold'.index + 1]
        <4>1. AtNode(k) /\ k \in Nat
          BY <3>1, <3>2 DEF BindInv, ControlInv
        <4>. HIDE DEF k
        <4>2. /\ k + 1 \in 1..Len(tower)
              /\ tower[k+1] = Parents(tower[k])
              /\ IsSeq(tower[k])
              /\ fold'.current = fold.current
              /\ fold'.count = Len(tower[k+1])
              /\ fold'.index = fold.index \div 2
              /\ fold'.index \in 0..(fold'.count - 1)
          BY <3>1, <4>1, ClimbPosition
        <4>3. tower[k+1][fold'.index + 1] = tower[k][fold.index + 1]
          BY <3>1, <4>1, ClimbPosition
        <4>. QED BY <3>1, <3>2, <4>1, <4>2, <4>3 DEF AtNode, BindInv, k
      <3>. QED BY <3>1, <3>2 DEF BindInv, InclusionBinds, Accepted
    <2>3. CASE FoldSibling
      <3>. DEFINE k == round + 1
      <3>1. /\ fold' = Climb(fold, Combine(fold, proof.path), 1)
            /\ UNCHANGED <<leaves, tower, proof, source, verdict, pc>>
            /\ pc = "fold" /\ fold.count > 1 /\ ~IsPromoted(fold) /\ round' = round + 1
        BY <2>3 DEF FoldSibling, Looping
      <3>2. ASSUME proof.leaf_count = Len(leaves)
            PROVE  /\ AtNode(round + 1)'
                   /\ proof.leaf # leaves[proof.leaf_index + 1] =>
                        fold'.current # tower[k + 1][fold'.index + 1]
        <4>1. AtNode(k) /\ k \in Nat
          BY <3>1, <3>2 DEF BindInv, ControlInv
        <4>. HIDE DEF k
        <4>2. /\ k + 1 \in 1..Len(tower)
              /\ tower[k+1] = Parents(tower[k])
              /\ IsSeq(tower[k])
              /\ fold'.current = Combine(fold, proof.path)
              /\ fold'.count = Len(tower[k+1])
              /\ fold'.index = fold.index \div 2
              /\ fold'.index \in 0..(fold'.count - 1)
          BY <3>1, <4>1, ClimbPosition
        <4>3. CASE IsLeft(fold)
          <5>1. tower[k+1][fold'.index + 1]
                  = NodeHash(tower[k][fold.index + 1], tower[k][fold.index + 2])
            BY <3>1, <4>1, <4>3, ClimbPosition
          <5>2. \E s : fold'.current = NodeHash(fold.current, s)
            BY <4>2, <4>3 DEF Combine
          <5>. QED BY <3>1, <3>2, <4>1, <4>2, <5>1, <5>2, HashFacts DEF AtNode, BindInv, k
        <4>4. CASE ~IsLeft(fold)
          <5>1. tower[k+1][fold'.index + 1]
                  = NodeHash(tower[k][fold.index], tower[k][fold.index + 1])
            BY <3>1, <4>1, <4>4, ClimbPosition
          <5>2. \E s : fold'.current = NodeHash(s, fold.current)
            BY <4>2, <4>4 DEF Combine
          <5>. QED BY <3>1, <3>2, <4>1, <4>2, <5>1, <5>2, HashFacts DEF AtNode, BindInv, k
        <4>. QED BY <4>3, <4>4
      <3>. QED BY <3>1, <3>2 DEF BindInv, InclusionBinds, Accepted
    <2>4. CASE FoldDone
      <3>1. /\ UNCHANGED <<leaves, tower, proof, source>>
            /\ pc = "fold" /\ fold.count <= 1 /\ pc' = "done"
            /\ verdict' = "accept" => fold.current = Root
        BY <2>4 DEF FoldDone, Answer, Lands
      <3>2. ASSUME proof.leaf_count = Len(leaves), verdict' = "accept"
            PROVE  proof.leaf = leaves[proof.leaf_index + 1]
        <4>1. AtNode(round + 1)
          BY <3>1, <3>2 DEF BindInv
        <4>2. fold.count = 1 /\ fold.index = 0
          <5>1. fold.count \in Nat
            BY <4>1 DEF AtNode, TowerInv, IsSeq
          <5>2. fold.count <= 1 /\ fold.index \in 0..(fold.count - 1)
            BY <3>1, <4>1 DEF AtNode
          <5>3. \A c \in Nat : \A i \in 0..(c - 1) : c <= 1 => c = 1 /\ i = 0
            OBVIOUS
          <5>. QED BY <5>1, <5>2, <5>3
        <4>3. Root = tower[round + 1][1]
          BY <4>1, <4>2, TopOfTower DEF AtNode
        <4>. QED BY <3>1, <3>2, <4>2, <4>3 DEF BindInv
      <3>. QED BY <3>1, <3>2 DEF BindInv, InclusionBinds, Accepted
    <2>5. CASE SubmitOwn \/ \E leaf \in Leaf, count \in 0..MaxCount, index \in 0..MaxCount :
                  SubmitMoved(leaf, index, count) \/ SubmitOther(leaf, index, count)
      <3>1. Len(leaves) \in Nat /\ gen.index \in Nat
        BY DEF TowerInv, ControlInv, IsSeq
      <3>2. pc' = "check" /\ proof'.leaf_index \in Nat /\ proof'.leaf_count \in Nat
        BY <2>5, <3>1, BoundAssumption DEF SubmitOwn, SubmitMoved, SubmitOther, Submit
      <3>. QED BY <3>2 DEF BindInv, InclusionBinds, Accepted
    <2>6. CASE /\ UNCHANGED <<leaves, proof>>
               /\ pc' # "fold"
               /\ Accepted' => ~ByProof'
      BY <2>6 DEF BindInv, InclusionBinds
    <2>7. CASE UNCHANGED vars
      BY <2>7 DEF vars, BindInv, AtNode, InclusionBinds, Accepted, ByProof
    <2>. QED
      BY <2>1, <2>2, <2>3, <2>4, <2>5, <2>6, <2>7
      DEF Next, Compute, Environment, RootLevel, RootDone, PathStart, PathLevel,
          PathDone, SubmitRows, VerifyOutOfRange, FoldMissing, RecomputeStart,
          RecomputeLevel, RecomputeDone, Answer, Looping, Accepted, ControlInv, ByProof
  <1>3. BindInv => InclusionBinds
    BY DEF BindInv
  <1>. QED BY <1>1, <1>2, <1>3, TowerInvariant, ControlInvariant, PTL DEF Spec

-----------------------------------------------------------------------------
(* Domain separation.  Every node of the tree is a tagged row of the batch *)
(* or a tagged pair of nodes of the tree, so a digest that is not a node   *)
(* cannot become one by being hashed with anything.                        *)
IsNode(t, x) == \E k \in 1..Len(t) : \E i \in 1..Len(t[k]) : x = t[k][i]

WellMade(b, t, x) ==
    \/ \E j \in 1..Len(b) : x = LeafHash(b[j])
    \/ \E p, q : IsNode(t, p) /\ IsNode(t, q) /\ x = NodeHash(p, q)

NodesInv == \A x : IsNode(tower, x) => WellMade(leaves, tower, x)

(* A batch that is not empty has a top level, whose first node is one of   *)
(* the tree.                                                               *)
LEMMA TopIsNode ==
    ASSUME TowerInv, leaves # <<>>
    PROVE  Len(Top) \in Nat /\ Len(Top) >= 1 /\ IsNode(tower, Top[1])
  <1>. DEFINE n == Len(tower)
  <1>1. n \in Nat /\ n >= 1 /\ \A k \in 1..n : Len(tower[k]) \in Nat
    BY DEF TowerInv, IsSeq
  <1>2. CASE n = 1
    <2>1. Len(leaves) >= 1 /\ Len(tower[1]) = Len(leaves)
      BY LeafLevelShape DEF TowerInv, IsSeq
    <2>. QED BY <1>1, <1>2, <2>1 DEF Top, IsNode
  <1>3. CASE n # 1
    <2>. DEFINE k == n - 1
    <2>1. k \in 1..(n - 1) /\ k \in 1..n /\ k + 1 = n
      BY <1>1, <1>3
    <2>2. Len(tower[k]) > 1 /\ tower[n] = Parents(tower[k]) /\ IsSeq(tower[k])
      BY <2>1 DEF TowerInv
    <2>3. Len(tower[n]) = DivCeil2(Len(tower[k])) /\ Len(tower[k]) \in Nat
      BY <2>2, ParentsShape DEF IsSeq
    <2>4. Len(tower[n]) >= 1
      <3>1. \A m \in Nat : m > 1 => (m + 1) \div 2 >= 1
        OBVIOUS
      <3>. QED BY <2>2, <2>3, <3>1 DEF DivCeil2
    <2>. QED BY <1>1, <2>4 DEF Top, IsNode
  <1>. QED BY <1>2, <1>3

(* Adding the level above the last one keeps every node well made. *)
LEMMA ParentsWellMade ==
    ASSUME NEW b, NEW t, IsSeq(t), NEW l, IsSeq(l),
           \A x : IsNode(t, x) => WellMade(b, t, x),
           \A i \in 1..Len(l) : IsNode(t, l[i]),
           NEW u, u = Append(t, Parents(l)),
           NEW y, IsNode(u, y)
    PROVE  WellMade(b, u, y)
  <1>. DEFINE n == Len(t)
  <1>1. /\ n \in Nat
        /\ Len(u) = n + 1
        /\ \A i \in 1..n : u[i] = t[i]
        /\ u[n + 1] = Parents(l)
    BY AppendSeq DEF IsSeq
  <1>2. \A x : IsNode(t, x) => IsNode(u, x)
    BY <1>1 DEF IsNode
  <1>3. \A x : WellMade(b, t, x) => WellMade(b, u, x)
    BY <1>2 DEF WellMade
  <1>4. ASSUME NEW j \in 1..Len(Parents(l))
        PROVE  WellMade(b, u, Parents(l)[j])
    <2>1. /\ Len(l) \in Nat
          /\ j \in 1..DivCeil2(Len(l))
          /\ Parents(l)[j] = IF 2*j <= Len(l) THEN NodeHash(l[2*j - 1], l[2*j])
                                              ELSE l[2*j - 1]
      BY <1>4, ParentsShape DEF IsSeq
    <2>2. 2*j - 1 \in 1..Len(l)
      BY <2>1 DEF DivCeil2
    <2>3. CASE 2*j <= Len(l)
      <3>1. 2*j \in 1..Len(l)
        BY <2>1, <2>3
      <3>2. IsNode(u, l[2*j - 1]) /\ IsNode(u, l[2*j])
        BY <1>2, <2>2, <3>1
      <3>3. Parents(l)[j] = NodeHash(l[2*j - 1], l[2*j])
        BY <2>1, <2>3
      <3>. QED BY <3>2, <3>3 DEF WellMade
    <2>4. CASE ~(2*j <= Len(l))
      <3>1. Parents(l)[j] = l[2*j - 1]
        BY <2>1, <2>4
      <3>. QED BY <1>3, <2>2, <3>1
    <2>. QED BY <2>3, <2>4
  <1>5. PICK k \in 1..Len(u) : \E i \in 1..Len(u[k]) : y = u[k][i]
    BY DEF IsNode
  <1>6. CASE k = n + 1
    BY <1>1, <1>4, <1>5, <1>6
  <1>7. CASE k # n + 1
    <2>1. k \in 1..n
      BY <1>1, <1>5, <1>7
    <2>2. IsNode(t, y)
      BY <1>1, <1>5, <2>1 DEF IsNode
    <2>. QED BY <1>3, <2>2
  <1>. QED BY <1>6, <1>7

(* Every node of the tree is a leaf hash of the batch or the hash of two   *)
(* nodes.                                                                  *)
LEMMA NodesInvariant == Spec => []NodesInv
  <1>1. Init => NodesInv
    <2>. SUFFICES ASSUME Init, NEW x, IsNode(tower, x)
                  PROVE  WellMade(leaves, tower, x)
      BY DEF NodesInv
    <2>1. IsSeq(leaves)
      BY BatchSeq DEF Init
    <2>2. tower = [i \in 1..1 |-> tower[i]] /\ tower[1] = LeafLevel(leaves)
      BY DEF Init
    <2>3. Len(tower) = 1
      BY <2>2, SeqOfFunction
    <2>. QED BY <2>1, <2>2, <2>3, LeafLevelShape DEF IsNode, WellMade
  <1>2. TowerInv /\ NodesInv /\ [Next]_vars => NodesInv'
    <2>. SUFFICES ASSUME TowerInv, NodesInv, [Next]_vars PROVE NodesInv'
      OBVIOUS
    <2>1. CASE RootLevel
      <3>1. /\ IsSeq(tower) /\ Len(tower) \in Nat /\ Len(tower) >= 1
            /\ IsSeq(Top) /\ leaves' = leaves
            /\ tower' = Append(tower, Parents(Top))
        BY <2>1 DEF RootLevel, Top, TowerInv, IsSeq
      <3>2. \A i \in 1..Len(Top) : IsNode(tower, Top[i])
        BY <3>1 DEF IsNode, Top
      <3>. SUFFICES ASSUME NEW x, IsNode(tower', x)
                    PROVE  WellMade(leaves, tower', x)
        BY <3>1 DEF NodesInv
      <3>. QED BY <3>1, <3>2, ParentsWellMade DEF NodesInv
    <2>2. CASE UNCHANGED signer
      BY <2>2 DEF signer, NodesInv
    <2>. QED
      BY <2>1, <2>2
      DEF Next, vars, Compute, Environment, PathStart, PathLevel, PathDone, SubmitOwn,
          SubmitMoved, SubmitOther, Submit, SubmitRows, VerifyOutOfRange, RootDone,
          VerifyStart, Looping, FoldPromote, FoldSibling, FoldMissing, FoldDone,
          RecomputeStart, RecomputeLevel, RecomputeDone, Answer, signer
  <1>. QED BY <1>1, <1>2, TowerInvariant, PTL DEF Spec

MemberInv ==
    /\ pc = "fold" => fold.current # EmptyRoot
    /\ pc = "fold" /\ proof.leaf \notin RangeOf(leaves) => ~IsNode(tower, fold.current)
    /\ InclusionMember

(* A digest that is not of the tree has no parent in it.                   *)
LEMMA NotNodeAbove ==
    ASSUME NodesInv, NEW x, ~IsNode(tower, x)
    PROVE  \A s : ~IsNode(tower, NodeHash(x, s)) /\ ~IsNode(tower, NodeHash(s, x))
  <1>. SUFFICES ASSUME NEW y, NEW s, IsNode(tower, y),
                       y = NodeHash(x, s) \/ y = NodeHash(s, x)
                PROVE  FALSE
    OBVIOUS
  <1>1. WellMade(leaves, tower, y)
    BY DEF NodesInv
  <1>2. PICK p, q : IsNode(tower, p) /\ IsNode(tower, q) /\ y = NodeHash(p, q)
    BY <1>1, HashFacts DEF WellMade
  <1>. QED BY <1>2, HashFacts

(* Whatever leaf_count a proof claims, an accepted row is a row of the     *)
(* batch: no inner node passes for one (crypto.rs:160-162, 280-326).       *)
THEOREM InclusionIsMembership == Spec => []InclusionMember
  <1>1. Init => MemberInv
    BY DEF Init, MemberInv, InclusionMember, Accepted
  <1>2. TowerInv /\ TowerInv' /\ ControlInv /\ NodesInv /\ MemberInv /\ [Next]_vars
            => MemberInv'
    <2>. SUFFICES ASSUME TowerInv, TowerInv', ControlInv, NodesInv, MemberInv,
                         [Next]_vars
                  PROVE  MemberInv'
      OBVIOUS
    <2>. USE DEF signer, exporter, input
    <2>1. CASE VerifyStart
      <3>1. /\ fold'.current = LeafHash(proof.leaf)
            /\ UNCHANGED <<leaves, tower, proof, source, verdict>>
            /\ pc' = "fold"
        BY <2>1 DEF VerifyStart, StartFold
      <3>2. ASSUME IsNode(tower, LeafHash(proof.leaf))
            PROVE  proof.leaf \in RangeOf(leaves)
        <4>1. WellMade(leaves, tower, LeafHash(proof.leaf))
          BY <3>2 DEF NodesInv
        <4>2. \E j \in 1..Len(leaves) : LeafHash(proof.leaf) = LeafHash(leaves[j])
          BY <4>1, HashFacts DEF WellMade
        <4>. QED BY <4>2, HashFacts DEF RangeOf
      <3>3. (proof.leaf \notin RangeOf(leaves) => ~IsNode(tower, fold.current))'
        BY <3>1, <3>2 DEF IsNode, RangeOf
      <3>. QED BY <3>1, <3>3, HashFacts DEF MemberInv, InclusionMember, Accepted
    <2>2. CASE FoldPromote
      <3>1. /\ fold'.current = fold.current
            /\ UNCHANGED <<leaves, tower, proof, source, verdict, pc>>
            /\ pc = "fold"
        BY <2>2 DEF FoldPromote, Looping, Climb
      <3>. QED BY <3>1 DEF MemberInv, InclusionMember, Accepted, IsNode, RangeOf
    <2>3. CASE FoldSibling
      <3>1. /\ fold'.current = Combine(fold, proof.path)
            /\ UNCHANGED <<leaves, tower, proof, source, verdict, pc>>
            /\ pc = "fold"
        BY <2>3 DEF FoldSibling, Looping, Climb
      <3>2. PICK s : fold'.current \in {NodeHash(fold.current, s), NodeHash(s, fold.current)}
        BY <3>1 DEF Combine
      <3>3. fold'.current # EmptyRoot
        BY <3>2, HashFacts
      <3>4. proof.leaf \notin RangeOf(leaves) => ~IsNode(tower, fold'.current)
        BY <3>1, <3>2, NotNodeAbove DEF MemberInv
      <3>5. (proof.leaf \notin RangeOf(leaves) => ~IsNode(tower, fold.current))'
        BY <3>1, <3>4 DEF IsNode, RangeOf
      <3>. QED BY <3>1, <3>3, <3>5 DEF MemberInv, InclusionMember, Accepted
    <2>4. CASE FoldDone
      <3>1. /\ UNCHANGED <<leaves, tower, proof, source>>
            /\ pc = "fold" /\ pc' = "done"
            /\ verdict' = "accept" => fold.current = Root
        BY <2>4 DEF FoldDone, Answer, Lands
      <3>2. ASSUME verdict' = "accept"
            PROVE  proof.leaf \in RangeOf(leaves)
        <4>1. leaves # <<>>
          BY <3>1, <3>2 DEF MemberInv, Root
        <4>2. IsNode(tower, fold.current)
          BY <3>1, <3>2, <4>1, TopIsNode DEF Root
        <4>. QED BY <3>1, <4>2 DEF MemberInv
      <3>. QED BY <3>1, <3>2 DEF MemberInv, InclusionMember, Accepted, RangeOf
    <2>5. CASE pc' # "fold" /\ (Accepted' => ~ByProof')
      BY <2>5 DEF MemberInv, InclusionMember
    <2>6. CASE UNCHANGED vars
      BY <2>6 DEF vars, MemberInv, InclusionMember, Accepted, ByProof, IsNode, RangeOf
    <2>. QED
      BY <2>1, <2>2, <2>3, <2>4, <2>5, <2>6
      DEF Next, Compute, Environment, RootLevel, RootDone, PathStart, PathLevel,
          PathDone, SubmitOwn, SubmitMoved, SubmitOther, Submit, SubmitRows,
          VerifyOutOfRange, FoldMissing, RecomputeStart, RecomputeLevel,
          RecomputeDone, Answer, Looping, Accepted, ControlInv, ByProof
  <1>3. MemberInv => InclusionMember
    BY DEF MemberInv
  <1>. QED BY <1>1, <1>2, <1>3, TowerInvariant, ControlInvariant, NodesInvariant,
              PTL DEF Spec

-----------------------------------------------------------------------------
(* The recompute: the verifier's level and the signer's have the same      *)
(* length on every round; they stay equal if the rows are the batch, and   *)
(* differ somewhere if the rows are not.                                   *)
SameLevel(k) == IsSeq(level) /\ k \in 1..Len(tower) /\ Len(level) = Len(tower[k])

Differs(l, m) == \E i \in 0..(Len(l) - 1) : l[i + 1] # m[i + 1]

RecomputeInv ==
    /\ IsSeq(rows)
    /\ pc = "recompute" =>
          /\ SameLevel(round + 1)
          /\ rows # <<>>
          /\ rows = leaves => level = tower[round + 1]
          /\ rows # leaves => Differs(level, tower[round + 1])
    /\ RecomputeExact

(* Levels of one length that differ have parents that differ. *)
LEMMA ParentsDiffer ==
    ASSUME NEW l, IsSeq(l), NEW m, IsSeq(m), Len(l) = Len(m), Len(l) > 1,
           Differs(l, m)
    PROVE  Differs(Parents(l), Parents(m))
  <1>1. PICK i \in 0..(Len(l) - 1) : l[i + 1] # m[i + 1]
    BY DEF Differs
  <1>. DEFINE h == i \div 2
              p == Parents(l)[h + 1]
              q == Parents(m)[h + 1]
  <1>2. h \in 0..(Len(Parents(l)) - 1)
    BY ParentOf, ParentsShape
  <1>3. /\ i % 2 \in {0, 1}
        /\ i % 2 = 0 /\ i + 1 >= Len(l) => p = l[i + 1]
        /\ i % 2 = 0 /\ i + 1 < Len(l) => p = NodeHash(l[i + 1], l[i + 2])
        /\ i % 2 = 1 => p = NodeHash(l[i], l[i + 1])
    BY ParentOf
  <1>4. /\ i % 2 = 0 /\ i + 1 >= Len(l) => q = m[i + 1]
        /\ i % 2 = 0 /\ i + 1 < Len(l) => q = NodeHash(m[i + 1], m[i + 2])
        /\ i % 2 = 1 => q = NodeHash(m[i], m[i + 1])
    <2>1. i \in 0..(Len(m) - 1) /\ Len(m) > 1
      OBVIOUS
    <2>2. /\ i % 2 = 0 /\ i + 1 >= Len(m) => q = m[i + 1]
          /\ i % 2 = 0 /\ i + 1 < Len(m) => q = NodeHash(m[i + 1], m[i + 2])
          /\ i % 2 = 1 => q = NodeHash(m[i], m[i + 1])
      BY <2>1, ParentOf
    <2>. QED BY <2>2
  <1>5. p # q
    <2>. HIDE DEF p, q
    <2>1. Len(l) \in Nat
      BY DEF IsSeq
    <2>2. i % 2 = 0 \/ i % 2 = 1
      BY <1>3
    <2>3. i + 1 >= Len(l) \/ i + 1 < Len(l)
      BY <2>1
    <2>. QED BY <1>1, <1>3, <1>4, <2>2, <2>3, HashFacts
  <1>. QED BY <1>2, <1>5 DEF Differs

(* Two different sequences of one length differ at some place.             *)
LEMMA SeqsDiffer ==
    ASSUME NEW r, IsSeq(r), NEW s, IsSeq(s), Len(r) = Len(s), r # s
    PROVE  \E i \in 1..Len(r) : r[i] # s[i]
  BY DEF IsSeq

(* While the verifier's merkle_root runs, its level agrees with the        *)
(* signer's level of that round exactly if the rows do.                    *)
LEMMA RecomputeInvariant == Spec => []RecomputeInv
  <1>1. Init => RecomputeInv
    <2>. SUFFICES ASSUME Init PROVE RecomputeInv
      OBVIOUS
    <2>1. rows \in Seq({})
      BY DEF Init
    <2>2. IsSeq(rows)
      BY <2>1, SeqIsSeq
    <2>. QED BY <2>2 DEF Init, RecomputeInv, RecomputeExact
  <1>2. TowerInv /\ ControlInv /\ RecomputeInv /\ [Next]_vars => RecomputeInv'
    <2>. SUFFICES ASSUME TowerInv, ControlInv, RecomputeInv, [Next]_vars
                  PROVE  RecomputeInv'
      OBVIOUS
    <2>. USE DEF signer, exporter, input
    <2>1. CASE \E r \in Batch : SubmitRows(r)
      <3>1. rows' \in Batch /\ pc' = "recheck"
        BY <2>1 DEF SubmitRows
      <3>2. IsSeq(rows')
        BY <3>1, BatchSeq
      <3>. QED BY <3>1, <3>2 DEF RecomputeInv, RecomputeExact
    <2>2. CASE RecomputeStart
      <3>1. UNCHANGED <<leaves, tower, rows, source, round>> /\ pc = "recheck" /\ round = 0
        BY <2>2 DEF RecomputeStart, ControlInv
      <3>2. CASE rows = <<>> \/ Len(rows) # Len(leaves)
        BY <2>2, <3>1, <3>2 DEF RecomputeStart, Answer, RecomputeInv, RecomputeExact
      <3>3. CASE ~(rows = <<>> \/ Len(rows) # Len(leaves))
        <4>1. level' = LeafLevel(rows) /\ pc' = "recompute"
          BY <2>2, <3>3 DEF RecomputeStart
        <4>2. /\ IsSeq(rows) /\ IsSeq(leaves) /\ IsSeq(level') /\ IsSeq(tower)
              /\ Len(level') = Len(rows) /\ Len(tower[1]) = Len(leaves)
              /\ \A i \in 1..Len(rows) : level'[i] = LeafHash(rows[i])
              /\ \A i \in 1..Len(rows) : tower[1][i] = LeafHash(leaves[i])
              /\ 1 \in 1..Len(tower)
          <5>1. IsSeq(rows)
            BY DEF RecomputeInv
          <5>2. /\ IsSeq(level') /\ Len(level') = Len(rows)
                /\ \A i \in 1..Len(rows) : level'[i] = LeafHash(rows[i])
            BY <4>1, <5>1, LeafLevelShape
          <5>. QED BY <3>3, <5>1, <5>2, TowerFacts
        <4>3. SameLevel(round + 1)'
          BY <3>1, <3>3, <4>2 DEF SameLevel
        <4>4. rows = leaves => level' = tower[1]
          BY <4>1 DEF TowerInv
        <4>5. ASSUME rows # leaves
              PROVE  Differs(level', tower[1])
          <5>1. PICK i \in 1..Len(rows) : rows[i] # leaves[i]
            BY <3>3, <4>2, <4>5, SeqsDiffer
          <5>2. level'[i] # tower[1][i]
            BY <4>2, <5>1, HashFacts
          <5>3. i - 1 \in 0..(Len(level') - 1) /\ (i - 1) + 1 = i
            BY <4>2 DEF IsSeq
          <5>. QED BY <5>2, <5>3 DEF Differs
        <4>. QED BY <3>1, <3>3, <4>1, <4>2, <4>3, <4>4, <4>5 DEF RecomputeInv, RecomputeExact
      <3>. QED BY <3>2, <3>3
    <2>3. CASE RecomputeLevel
      <3>. DEFINE k == round + 1
      <3>1. /\ UNCHANGED <<leaves, tower, rows, source, pc>>
            /\ pc = "recompute" /\ Len(level) > 1
            /\ level' = Parents(level) /\ round' = round + 1
        BY <2>3 DEF RecomputeLevel
      <3>2. SameLevel(k) /\ k \in Nat /\ IsSeq(tower[k]) /\ Len(tower) \in Nat
        <4>1. SameLevel(k) /\ k \in Nat
          BY <3>1 DEF RecomputeInv, ControlInv
        <4>. QED BY <4>1, TowerFacts DEF SameLevel
      <3>3. k # Len(tower)
        BY <3>1, <3>2 DEF SameLevel, TowerInv, Top
      <3>. HIDE DEF k
      <3>4. k \in 1..(Len(tower) - 1)
        BY <3>2, <3>3 DEF SameLevel
      <3>5. k + 1 \in 1..Len(tower) /\ tower[k+1] = Parents(tower[k])
        BY <3>2, <3>4 DEF TowerInv
      <3>6. /\ IsSeq(Parents(level))
            /\ Len(Parents(level)) = Len(Parents(tower[k]))
        BY <3>2, ParentsShape DEF SameLevel
      <3>7. Differs(level, tower[k]) => Differs(Parents(level), Parents(tower[k]))
        BY <3>1, <3>2, ParentsDiffer DEF SameLevel
      <3>. QED BY <3>1, <3>2, <3>5, <3>6, <3>7 DEF RecomputeInv, SameLevel, RecomputeExact, k
    <2>4. CASE RecomputeDone
      <3>1. /\ UNCHANGED <<leaves, tower, rows, source>>
            /\ pc = "recompute" /\ pc' = "done" /\ Len(level) <= 1
            /\ verdict' = IF level[1] = Root THEN "accept" ELSE "reject"
        BY <2>4 DEF RecomputeDone, Answer
      <3>2. SameLevel(round + 1) /\ Len(level) \in Nat /\ rows # <<>>
        BY <3>1 DEF RecomputeInv, SameLevel, IsSeq
      <3>3. CASE rows = leaves
        <4>1. leaves # <<>> /\ Len(Top) >= 1 /\ Len(Top) \in Nat
          BY <3>2, <3>3, TopIsNode
        <4>2. level = tower[round + 1]
          BY <3>1, <3>3 DEF RecomputeInv
        <4>3. Len(tower[round + 1]) = 1
          <5>1. Len(level) # 0
            <6>. SUFFICES ASSUME Len(level) = 0 PROVE FALSE
              OBVIOUS
            <6>1. round + 1 = Len(tower) \/ Len(tower[round + 1]) > 1
              BY <3>2, TowerFacts DEF SameLevel
            <6>. QED BY <4>1, <4>2, <6>1 DEF Top
          <5>2. \A n \in Nat : n # 0 /\ n <= 1 => n = 1
            OBVIOUS
          <5>. QED BY <3>1, <3>2, <5>1, <5>2 DEF SameLevel
        <4>4. Root = level[1]
          BY <3>2, <4>2, <4>3, TopOfTower DEF SameLevel
        <4>. QED BY <3>1, <3>2, <3>3, <4>4 DEF RecomputeInv, RecomputeExact
      <3>4. CASE rows # leaves
        <4>1. PICK i \in 0..(Len(level) - 1) : level[i + 1] # tower[round + 1][i + 1]
          BY <3>1, <3>4 DEF RecomputeInv, Differs
        <4>2. i = 0 /\ Len(level) = 1
          <5>1. \A n \in Nat : \A j \in 0..(n - 1) : n <= 1 => j = 0 /\ n = 1
            OBVIOUS
          <5>. QED BY <3>1, <3>2, <5>1
        <4>3. Root = tower[round + 1][1]
          BY <3>2, <4>2, TopOfTower DEF SameLevel
        <4>. QED BY <3>1, <3>4, <4>1, <4>2, <4>3 DEF RecomputeInv, RecomputeExact
      <3>. QED BY <3>3, <3>4
    <2>5. CASE /\ UNCHANGED rows
               /\ pc' # "recompute"
               /\ ~(pc' = "done" /\ source' = "rows")
      BY <2>5 DEF RecomputeInv, RecomputeExact
    <2>6. CASE UNCHANGED vars
      BY <2>6 DEF vars, RecomputeInv, RecomputeExact, SameLevel
    <2>. QED
      BY <2>1, <2>2, <2>3, <2>4, <2>5, <2>6
      DEF Next, Compute, Environment, RootLevel, RootDone, PathStart, PathLevel,
          PathDone, SubmitOwn, SubmitMoved, SubmitOther, Submit, VerifyStart,
          VerifyOutOfRange, FoldPromote, FoldSibling, FoldMissing, FoldDone,
          Answer, Looping, ControlInv, ByProof
  <1>. QED BY <1>1, <1>2, TowerInvariant, ControlInvariant, PTL DEF Spec

(* A full recompute accepts the rows that were signed and no others        *)
(* (verify.rs:419-443).                                                    *)
THEOREM RecomputeIsExact == Spec => []RecomputeExact
  <1>1. RecomputeInv => RecomputeExact
    BY DEF RecomputeInv
  <1>. QED BY <1>1, RecomputeInvariant, PTL

-----------------------------------------------------------------------------
(* The round trip.  trail[k] is where merkle_audit_path stood before its   *)
(* k-th round: the node on the way up and how much of the path was there.  *)
(* Promoted(t, l, k): the node has no sibling on level l.                  *)
Promoted(t, l, k) == t[k].idx % 2 = 0 /\ t[k].idx + 1 >= Len(l)

TrailStep(t, path, tw, k) ==
    /\ t[k].idx \in 0..(Len(tw[k]) - 1)
    /\ t[k].pos \in Nat
    /\ t[k+1].idx = t[k].idx \div 2
    /\ Promoted(t, tw[k], k) => t[k+1].pos = t[k].pos
    /\ ~Promoted(t, tw[k], k) =>
          /\ t[k+1].pos = t[k].pos + 1
          /\ t[k].pos + 1 \in 1..Len(path)
          /\ path[t[k].pos + 1] =
                IF t[k].idx % 2 = 1 THEN tw[k][t[k].idx] ELSE tw[k][t[k].idx + 2]

(* What the generator has recorded, at any point of its loop. *)
TrailOK ==
    /\ IsSeq(trail) /\ IsSeq(gen.path)
    /\ Len(trail) \in 1..Len(tower)
    /\ trail[1].idx = gen.index /\ trail[1].pos = 0
    /\ gen.level = tower[Len(trail)]
    /\ gen.idx = trail[Len(trail)].idx
    /\ Len(gen.path) = trail[Len(trail)].pos
    /\ gen.idx \in 0..(Len(gen.level) - 1)
    /\ \A k \in 1..(Len(trail) - 1) : TrailStep(trail, gen.path, tower, k)

GenInv ==
    /\ pc = "path" => gen.index < Len(leaves)
    /\ pc \in {"path", "proved"} /\ gen.index < Len(leaves) => TrailOK
    /\ pc = "proved" /\ gen.index < Len(leaves) => Len(gen.level) <= 1

(* Recorded steps stay recorded when the trail and the path grow. *)
LEMMA TrailStepKept ==
    ASSUME NEW t, IsSeq(t), NEW path, IsSeq(path), NEW tw,
           NEW e, NEW more, IsSeq(more),
           NEW k \in 1..(Len(t) - 1), TrailStep(t, path, tw, k)
    PROVE  TrailStep(Append(t, e), path \o more, tw, k)
  <1>. DEFINE u == Append(t, e)
              q == path \o more
  <1>1. k \in 1..Len(t) /\ k + 1 \in 1..Len(t)
    BY DEF IsSeq
  <1>2. u[k] = t[k] /\ u[k+1] = t[k+1]
    BY <1>1, AppendSeq
  <1>3. /\ Len(q) = Len(path) + Len(more)
        /\ \A i \in 1..Len(path) : q[i] = path[i]
        /\ Len(path) \in Nat /\ Len(more) \in Nat
    BY ConcatSeq DEF IsSeq
  <1>. HIDE DEF u, q
  <1>4. \A i \in 1..Len(path) : i \in 1..Len(q)
    BY <1>3
  <1>5. TrailStep(u, q, tw, k)
    BY <1>2, <1>3, <1>4 DEF TrailStep, Promoted
  <1>. QED BY <1>5 DEF u, q

(* merkle_audit_path keeps step with the levels of the tree, and its path  *)
(* so far holds the siblings met.                                          *)
LEMMA GenInvariant == Spec => []GenInv
  <1>1. Init => GenInv
    BY DEF Init, GenInv
  <1>2. TowerInv /\ TowerInv' /\ ControlInv /\ GenInv /\ [Next]_vars => GenInv'
    <2>. SUFFICES ASSUME TowerInv, TowerInv', ControlInv, GenInv, [Next]_vars
                  PROVE  GenInv'
      OBVIOUS
    <2>. USE DEF signer, exporter, input
    <2>1. CASE \E index \in 0..Len(leaves) : PathStart(index)
      <3>1. PICK index \in 0..Len(leaves) : PathStart(index)
        BY <2>1
      <3>2. /\ gen' = [index |-> index, level |-> LeafLevel(leaves),
                       idx |-> index, path |-> <<>>]
            /\ trail' = <<[idx |-> index, pos |-> 0]>>
            /\ pc' = IF index >= Len(leaves) THEN "proved" ELSE "path"
            /\ UNCHANGED <<leaves, tower>>
        BY <3>1 DEF PathStart
      <3>3. CASE index >= Len(leaves)
        <4>1. ~(index < Len(leaves))
          BY <3>3, TowerFacts
        <4>. QED BY <3>2, <3>3, <4>1 DEF GenInv
      <3>4. CASE ~(index >= Len(leaves))
        <4>1. index \in 0..(Len(leaves) - 1) /\ index < Len(leaves)
          BY <3>4, TowerFacts
        <4>2. /\ IsSeq(trail') /\ Len(trail') = 1
              /\ trail'[1].idx = index /\ trail'[1].pos = 0
          <5>1. trail' \in Seq({[idx |-> index, pos |-> 0]})
            BY <3>2
          <5>. QED BY <3>2, <5>1, SeqIsSeq
        <4>3. IsSeq(gen'.path) /\ Len(gen'.path) = 0
          <5>1. gen'.path = <<>> /\ <<>> \in Seq({})
            BY <3>2
          <5>. QED BY <5>1, SeqIsSeq
        <4>4. /\ gen'.level = tower[1] /\ gen'.idx = index /\ gen'.index = index
              /\ Len(tower[1]) = Len(leaves) /\ 1 \in 1..Len(tower)
          BY <3>2, TowerFacts DEF TowerInv
        <4>5. TrailOK'
          BY <3>2, <4>1, <4>2, <4>3, <4>4 DEF TrailOK
        <4>. QED BY <3>2, <3>4, <4>1, <4>4, <4>5 DEF GenInv
      <3>. QED BY <3>3, <3>4
    <2>2. CASE PathLevel
      <3>. DEFINE n == Len(trail)
                  l == tower[n]
                  i == gen.idx
                  s == Sibling(l, i)
      <3>1. /\ pc = "path" /\ pc' = "path" /\ UNCHANGED <<leaves, tower>>
            /\ gen'.index = gen.index /\ gen'.level = Parents(gen.level)
            /\ gen'.idx = gen.idx \div 2
            /\ gen'.path = gen.path \o Sibling(gen.level, gen.idx)
            /\ trail' = Append(trail, [idx |-> gen'.idx, pos |-> Len(gen'.path)])
            /\ Len(gen.level) > 1
        BY <2>2 DEF PathLevel
      <3>2. TrailOK /\ gen.index < Len(leaves)
        BY <3>1 DEF GenInv
      <3>3. /\ IsSeq(trail) /\ IsSeq(gen.path) /\ n \in 1..Len(tower)
            /\ gen.level = l /\ i \in 0..(Len(l) - 1) /\ Len(l) > 1
            /\ trail[n].idx = i /\ trail[n].pos = Len(gen.path)
        BY <3>1, <3>2 DEF TrailOK
      <3>4. IsSeq(l) /\ Len(l) \in Nat /\ n \in Nat /\ Len(gen.path) \in Nat
        BY <3>3, TowerFacts DEF IsSeq
      <3>5. n # Len(tower)
        BY <3>1, <3>3 DEF TowerInv, Top
      <3>6. n + 1 \in 1..Len(tower) /\ tower[n + 1] = Parents(l)
        BY <3>3, <3>5, TowerFacts
      <3>7. /\ IsSeq(s)
            /\ i % 2 = 0 /\ i + 1 >= Len(l) => Len(s) = 0
            /\ ~(i % 2 = 0 /\ i + 1 >= Len(l)) =>
                  Len(s) = 1 /\ s[1] = IF i % 2 = 1 THEN l[i] ELSE l[i + 2]
        BY <3>3, <3>4, SiblingShape
      <3>8. /\ IsSeq(gen'.path)
            /\ Len(gen'.path) = Len(gen.path) + Len(s)
            /\ \A j \in 1..Len(s) : gen'.path[Len(gen.path) + j] = s[j]
            /\ gen'.path = gen.path \o s
        <4>1. gen'.path = gen.path \o s
          BY <3>1, <3>3
        <4>. HIDE DEF s
        <4>. QED BY <3>3, <3>7, <4>1, ConcatSeq
      <3>. DEFINE e == [idx |-> gen'.idx, pos |-> Len(gen'.path)]
      <3>9. /\ IsSeq(trail') /\ Len(trail') = n + 1
            /\ \A k \in 1..n : trail'[k] = trail[k]
            /\ trail'[n + 1] = e
            /\ trail' = Append(trail, e)
        BY <3>1, <3>3, AppendSeq
      <3>10. i \div 2 \in 0..(Len(Parents(l)) - 1)
        BY <3>3, <3>4, ParentOf, ParentsShape
      <3>. HIDE DEF n, l, i, s
      <3>11. ASSUME NEW k \in 1..n
             PROVE  TrailStep(trail', gen'.path, tower, k)
        <4>1. CASE k = n
          <5>1. /\ trail'[k].idx = i /\ trail'[k].pos = Len(gen.path)
                /\ trail'[k+1].idx = i \div 2 /\ trail'[k+1].pos = Len(gen'.path)
            <6>1. trail'[k] = trail[k] /\ trail'[k+1] = e
              BY <3>9, <4>1
            <6>2. e.idx = i \div 2 /\ e.pos = Len(gen'.path)
              BY <3>1 DEF i
            <6>. HIDE DEF e
            <6>. QED BY <3>3, <4>1, <6>1, <6>2
          <5>2. tower[k] = l
            BY <4>1 DEF l
          <5>3. CASE i % 2 = 0 /\ i + 1 >= Len(l)
            BY <3>3, <3>4, <3>7, <3>8, <5>1, <5>2, <5>3 DEF TrailStep, Promoted
          <5>4. CASE ~(i % 2 = 0 /\ i + 1 >= Len(l))
            <6>1. /\ Len(s) = 1
                  /\ Len(gen.path) + 1 \in 1..Len(gen'.path)
                  /\ Len(gen'.path) = Len(gen.path) + 1
                  /\ gen'.path[Len(gen.path) + 1] = IF i % 2 = 1 THEN l[i] ELSE l[i + 2]
              <7>1. /\ Len(s) = 1
                    /\ s[1] = IF i % 2 = 1 THEN l[i] ELSE l[i + 2]
                BY <3>7, <5>4
              <7>2. Len(gen'.path) = Len(gen.path) + 1
                BY <3>8, <7>1
              <7>3. gen'.path[Len(gen.path) + 1] = s[1]
                BY <3>8, <7>1
              <7>4. Len(gen.path) + 1 \in 1..Len(gen'.path)
                BY <3>4, <7>2
              <7>. QED BY <7>1, <7>2, <7>3, <7>4
            <6>. QED BY <3>3, <3>4, <5>1, <5>2, <5>4, <6>1 DEF TrailStep, Promoted
          <5>. QED BY <5>3, <5>4
        <4>2. CASE k # n
          <5>1. k \in 1..(Len(trail) - 1)
            BY <3>4, <4>2 DEF n
          <5>2. TrailStep(trail, gen.path, tower, k)
            BY <3>2, <5>1 DEF TrailOK
          <5>. HIDE DEF e
          <5>. QED BY <3>3, <3>7, <3>8, <3>9, <5>1, <5>2, TrailStepKept
        <4>. QED BY <4>1, <4>2
      <3>12. TrailOK'
        <4>1. trail'[1].idx = gen'.index /\ trail'[1].pos = 0
          BY <3>1, <3>2, <3>3, <3>9 DEF TrailOK
        <4>2. gen'.level = tower'[Len(trail')] /\ Len(trail') \in 1..Len(tower')
          BY <3>1, <3>3, <3>6, <3>9
        <4>3. /\ gen'.idx = trail'[Len(trail')].idx
              /\ Len(gen'.path) = trail'[Len(trail')].pos
          BY <3>9
        <4>4. gen'.idx \in 0..(Len(gen'.level) - 1)
          BY <3>1, <3>3, <3>10 DEF i
        <4>5. \A k \in 1..(Len(trail') - 1) : TrailStep(trail', gen'.path, tower', k)
          <5>1. 1..(Len(trail') - 1) = 1..n /\ tower' = tower
            BY <3>1, <3>4, <3>9
          <5>. QED BY <3>11, <5>1
        <4>. QED BY <3>8, <3>9, <4>1, <4>2, <4>3, <4>4, <4>5 DEF TrailOK
      <3>. QED BY <3>1, <3>2, <3>12 DEF GenInv
    <2>3. CASE PathDone
      <3>1. /\ pc = "path" /\ pc' = "proved" /\ Len(gen.level) <= 1
            /\ UNCHANGED <<leaves, tower, gen, trail>>
        BY <2>3 DEF PathDone
      <3>. QED BY <3>1 DEF GenInv, TrailOK
    <2>4. CASE pc' \notin {"path", "proved"}
      BY <2>4 DEF GenInv
    <2>5. CASE UNCHANGED vars
      BY <2>5 DEF vars, GenInv, TrailOK
    <2>. QED
      BY <2>1, <2>2, <2>3, <2>4, <2>5
      DEF Next, Compute, Environment, RootLevel, RootDone, SubmitOwn, SubmitMoved,
          SubmitOther, Submit, SubmitRows, VerifyOutOfRange, VerifyStart, Looping,
          FoldPromote, FoldSibling, FoldMissing, FoldDone, RecomputeStart,
          RecomputeLevel, RecomputeDone, Answer
  <1>. QED BY <1>1, <1>2, TowerInvariant, ControlInvariant, PTL DEF Spec

(* While the exporter's own proof is folded, the fold retraces the trail. *)
Retraces(k) ==
    /\ AtNode(k)
    /\ fold.current = tower[k][fold.index + 1]
    /\ fold.index = trail[k].idx
    /\ fold.path_pos = trail[k].pos

OwnProof ==
    /\ TrailOK
    /\ Len(trail) = Len(tower)
    /\ gen.index < Len(leaves)
    /\ proof.leaf = leaves[gen.index + 1]
    /\ proof.leaf_index = gen.index
    /\ proof.leaf_count = Len(leaves)
    /\ proof.path = gen.path

OwnInv ==
    /\ source = "exporter" => OwnProof /\ pc \in {"check", "fold", "done"}
    /\ source = "exporter" /\ pc = "fold" => Retraces(round + 1)
    /\ RoundTrip

(* What the exporter appended at one level of the tree.                    *)
LEMMA TrailAt ==
    ASSUME TowerInv, OwnProof, NEW k \in 1..Len(tower), k # Len(tower)
    PROVE  TrailStep(trail, gen.path, tower, k)
  <1>1. k \in 1..(Len(trail) - 1)
    BY TowerFacts DEF OwnProof
  <1>. QED BY <1>1 DEF OwnProof, TrailOK

(* The proof merkle_audit_path makes is accepted by                        *)
(* merkle_inclusion_verify, for every position of a batch of every size    *)
(* (crypto.rs:203-246, 280-326).                                           *)
THEOREM RoundTripAccepted == Spec => []RoundTrip
  <1>1. Init => OwnInv
    BY DEF Init, OwnInv, RoundTrip
  <1>2. TowerInv /\ ControlInv /\ GenInv /\ OwnInv /\ [Next]_vars => OwnInv'
    <2>. SUFFICES ASSUME TowerInv, ControlInv, GenInv, OwnInv, [Next]_vars
                  PROVE  OwnInv'
      OBVIOUS
    <2>. USE DEF signer, exporter, input
    <2>1. CASE SubmitOwn
      <3>1. /\ pc = "proved" /\ pc' = "check" /\ gen.index < Len(leaves)
            /\ UNCHANGED <<leaves, tower, gen, trail>>
            /\ proof'.leaf = leaves[gen.index + 1] /\ proof'.leaf_index = gen.index
            /\ proof'.leaf_count = Len(leaves) /\ proof'.path = gen.path
        BY <2>1 DEF SubmitOwn, Submit
      <3>2. TrailOK /\ Len(gen.level) <= 1
        BY <3>1 DEF GenInv
      <3>3. Len(trail) = Len(tower)
        <4>. SUFFICES ASSUME Len(trail) # Len(tower) PROVE FALSE
          OBVIOUS
        <4>1. Len(tower[Len(trail)]) > 1 /\ Len(tower[Len(trail)]) \in Nat
          BY <3>2, TowerFacts DEF TrailOK
        <4>2. gen.level = tower[Len(trail)]
          BY <3>2 DEF TrailOK
        <4>. QED BY <3>2, <4>1, <4>2
      <3>4. OwnProof'
        BY <3>1, <3>2, <3>3 DEF OwnProof, TrailOK
      <3>. QED BY <3>1, <3>4 DEF OwnInv, RoundTrip
    <2>2. CASE VerifyStart /\ source = "exporter"
      <3>1. /\ UNCHANGED <<leaves, tower, gen, trail, proof, source>>
            /\ pc' = "fold" /\ round' = 0
            /\ fold'.current = LeafHash(proof.leaf) /\ fold'.index = proof.leaf_index
            /\ fold'.count = proof.leaf_count /\ fold'.path_pos = 0
        BY <2>2 DEF VerifyStart, StartFold, ControlInv
      <3>2. OwnProof
        BY <2>2 DEF OwnInv
      <3>3. gen.index + 1 \in 1..Len(leaves) /\ gen.index \in 0..(Len(leaves) - 1)
        BY <3>2, TowerFacts DEF OwnProof, ControlInv
      <3>4. /\ fold'.count = Len(tower[1])
            /\ fold'.current = tower[1][gen.index + 1]
            /\ 1 \in 1..Len(tower)
            /\ trail[1].idx = gen.index /\ trail[1].pos = 0
            /\ Len(tower[1]) = Len(leaves)
        BY <3>1, <3>2, <3>3, TowerFacts DEF OwnProof, TrailOK
      <3>5. Retraces(1)'
        BY <3>1, <3>2, <3>3, <3>4 DEF Retraces, AtNode, OwnProof
      <3>6. OwnProof'
        BY <3>1, <3>2 DEF OwnProof, TrailOK
      <3>. QED BY <3>1, <3>5, <3>6 DEF OwnInv, RoundTrip
    <2>3. CASE VerifyOutOfRange /\ source = "exporter"
      <3>1. OwnProof /\ ~InRange
        BY <2>3 DEF OwnInv, VerifyOutOfRange
      <3>2. Len(leaves) \in Nat /\ gen.index \in Nat
        BY TowerFacts DEF ControlInv
      <3>. QED BY <3>1, <3>2 DEF OwnProof, InRange
    <2>4. CASE FoldPromote /\ source = "exporter"
      <3>0. PICK k : k = round + 1
        OBVIOUS
      <3>1. /\ fold' = Climb(fold, fold.current, 0)
            /\ UNCHANGED <<leaves, tower, gen, trail, proof, source, verdict, pc>>
            /\ pc = "fold" /\ fold.count > 1 /\ IsPromoted(fold) /\ round' = k
        BY <2>4, <3>0 DEF FoldPromote, Looping
      <3>2. OwnProof /\ Retraces(k) /\ k \in Nat
        BY <2>4, <3>0, <3>1 DEF OwnInv, ControlInv
      <3>3. /\ k + 1 \in 1..Len(tower)
            /\ tower[k+1] = Parents(tower[k])
            /\ fold'.current = fold.current
            /\ fold'.count = Len(tower[k+1])
            /\ fold'.index = fold.index \div 2
            /\ fold'.index \in 0..(fold'.count - 1)
            /\ tower[k+1][fold'.index + 1] = tower[k][fold.index + 1]
        <4>1. PICK f : f = Climb(fold, fold.current, 0)
          OBVIOUS
        <4>2. AtNode(k) /\ TowerInv /\ fold.count > 1 /\ pc # "root"
          BY <3>1, <3>2 DEF Retraces
        <4>3. /\ k + 1 \in 1..Len(tower) /\ tower[k+1] = Parents(tower[k])
              /\ f.current = fold.current /\ f.index = fold.index \div 2
              /\ f.count = Len(Parents(tower[k])) /\ f.index \in 0..(f.count - 1)
              /\ IsPromoted(fold) =>
                    Parents(tower[k])[f.index + 1] = tower[k][fold.index + 1]
          BY <4>1, <4>2, ClimbPosition
        <4>. QED BY <3>1, <4>1, <4>3
      <3>4. TrailStep(trail, gen.path, tower, k)
        BY <3>2, <3>3, TowerFacts, TrailAt DEF Retraces, AtNode
      <3>5. Promoted(trail, tower[k], k)
        BY <3>1, <3>2 DEF Promoted, IsPromoted, IsLeft, Retraces, AtNode
      <3>6. fold'.path_pos = fold.path_pos
        <4>1. trail[k].pos \in Nat
          BY <3>4 DEF TrailStep
        <4>. QED BY <3>1, <3>2, <4>1 DEF Climb, Retraces
      <3>7. Retraces(k + 1)'
        BY <3>1, <3>2, <3>3, <3>4, <3>5, <3>6 DEF Retraces, AtNode, TrailStep
      <3>8. OwnProof'
        BY <3>1, <3>2 DEF OwnProof, TrailOK
      <3>. QED BY <3>1, <3>7, <3>8 DEF OwnInv, RoundTrip
    <2>5. CASE (FoldSibling \/ FoldMissing) /\ source = "exporter"
      <3>0. PICK k : k = round + 1
        OBVIOUS
      <3>1. pc = "fold" /\ fold.count > 1 /\ ~IsPromoted(fold)
        BY <2>5 DEF FoldSibling, FoldMissing, Looping
      <3>2. OwnProof /\ Retraces(k) /\ k \in Nat
        BY <2>5, <3>0, <3>1 DEF OwnInv, ControlInv
      <3>3. k \in 1..Len(tower) /\ k # Len(tower)
        BY <3>1, <3>2, TowerFacts DEF Retraces, AtNode, TowerInv, Top
      <3>4. TrailStep(trail, gen.path, tower, k)
        BY <3>2, <3>3, TrailAt
      <3>5. ~Promoted(trail, tower[k], k)
        BY <3>1, <3>2 DEF Promoted, IsPromoted, IsLeft, Retraces, AtNode
      <3>6. /\ trail[k].pos \in Nat
            /\ trail[k+1].idx = trail[k].idx \div 2
            /\ trail[k+1].pos = trail[k].pos + 1
            /\ trail[k].pos + 1 \in 1..Len(gen.path)
            /\ gen.path[trail[k].pos + 1] =
                  IF trail[k].idx % 2 = 1 THEN tower[k][trail[k].idx]
                                          ELSE tower[k][trail[k].idx + 2]
        BY <3>4, <3>5 DEF TrailStep
      <3>7. HasNext(fold, proof.path)
        <4>1. Len(gen.path) \in Nat
          BY <3>2 DEF OwnProof, TrailOK, IsSeq
        <4>. QED BY <3>2, <3>6, <4>1 DEF HasNext, Retraces, OwnProof
      <3>8. /\ fold' = Climb(fold, Combine(fold, proof.path), 1)
            /\ UNCHANGED <<leaves, tower, gen, trail, proof, source, verdict, pc>>
            /\ round' = k
        BY <2>5, <3>0, <3>7 DEF FoldSibling, FoldMissing
      <3>9. /\ k + 1 \in 1..Len(tower)
            /\ tower[k+1] = Parents(tower[k])
            /\ fold'.current = Combine(fold, proof.path)
            /\ fold'.count = Len(tower[k+1])
            /\ fold'.index = fold.index \div 2
            /\ fold'.index \in 0..(fold'.count - 1)
            /\ fold.index % 2 \in {0, 1}
            /\ IsLeft(fold) => tower[k+1][fold'.index + 1]
                  = NodeHash(tower[k][fold.index + 1], tower[k][fold.index + 2])
            /\ ~IsLeft(fold) => tower[k+1][fold'.index + 1]
                  = NodeHash(tower[k][fold.index], tower[k][fold.index + 1])
        <4>1. AtNode(k)
          BY <3>2 DEF Retraces
        <4>2. /\ k + 1 \in 1..Len(tower)
              /\ tower[k+1] = Parents(tower[k])
              /\ fold'.current = Combine(fold, proof.path)
              /\ fold'.count = Len(Parents(tower[k]))
              /\ fold'.index = fold.index \div 2
              /\ fold'.index \in 0..(fold'.count - 1)
              /\ fold.index % 2 \in {0, 1}
          BY <3>1, <3>8, <4>1, ClimbPosition
        <4>3. IsLeft(fold) => Parents(tower[k])[fold'.index + 1]
                  = NodeHash(tower[k][fold.index + 1], tower[k][fold.index + 2])
          BY <3>1, <3>8, <4>1, ClimbPosition
        <4>4. ~IsLeft(fold) => Parents(tower[k])[fold'.index + 1]
                  = NodeHash(tower[k][fold.index], tower[k][fold.index + 1])
          BY <3>1, <3>8, <4>1, ClimbPosition
        <4>. QED BY <4>2, <4>3, <4>4
      <3>10. proof.path[fold.path_pos + 1] =
                IF fold.index % 2 = 1 THEN tower[k][fold.index]
                                      ELSE tower[k][fold.index + 2]
        BY <3>2, <3>6 DEF Retraces, OwnProof
      <3>11. fold'.current = tower[k+1][fold'.index + 1]
        <4>1. CASE IsLeft(fold)
          <5>1. fold.index % 2 # 1
            BY <4>1 DEF IsLeft
          <5>. QED BY <3>2, <3>9, <3>10, <4>1, <5>1 DEF Combine, Retraces
        <4>2. CASE ~IsLeft(fold)
          <5>1. fold.index % 2 = 1
            BY <3>9, <4>2 DEF IsLeft
          <5>. QED BY <3>2, <3>9, <3>10, <4>2, <5>1 DEF Combine, Retraces
        <4>. QED BY <4>1, <4>2
      <3>12. fold'.path_pos = trail[k+1].pos
        BY <3>2, <3>6, <3>8 DEF Climb, Retraces
      <3>13. Retraces(k + 1)'
        BY <3>2, <3>6, <3>8, <3>9, <3>11, <3>12 DEF Retraces, AtNode
      <3>14. OwnProof'
        BY <3>2, <3>8 DEF OwnProof, TrailOK
      <3>. QED BY <3>1, <3>8, <3>13, <3>14 DEF OwnInv, RoundTrip
    <2>6. CASE FoldDone /\ source = "exporter"
      <3>0. PICK k : k = round + 1
        OBVIOUS
      <3>1. /\ UNCHANGED <<leaves, tower, gen, trail, proof, source>>
            /\ pc = "fold" /\ fold.count <= 1 /\ pc' = "done"
            /\ verdict' = IF Lands(fold, proof.path, Root) THEN "accept" ELSE "reject"
        BY <2>6 DEF FoldDone, Answer
      <3>2. OwnProof /\ Retraces(k)
        BY <2>6, <3>0, <3>1 DEF OwnInv
      <3>3. fold.count \in Nat /\ fold.index \in 0..(fold.count - 1)
        BY <3>2, TowerFacts DEF Retraces, AtNode
      <3>4. fold.count = 1 /\ fold.index = 0
        <4>1. \A c \in Nat : \A i \in 0..(c - 1) : c <= 1 => c = 1 /\ i = 0
          OBVIOUS
        <4>. QED BY <3>1, <3>3, <4>1
      <3>5. k = Len(tower) /\ Root = tower[k][1]
        BY <3>2, <3>4, TopOfTower DEF Retraces, AtNode
      <3>6. fold.path_pos = Len(proof.path) /\ fold.current = Root
        BY <3>2, <3>4, <3>5 DEF Retraces, OwnProof, TrailOK
      <3>7. OwnProof'
        BY <3>1, <3>2 DEF OwnProof, TrailOK
      <3>. QED BY <3>1, <3>6, <3>7 DEF OwnInv, RoundTrip, Lands
    <2>7. CASE source' # "exporter"
      BY <2>7 DEF OwnInv, RoundTrip
    <2>8. CASE UNCHANGED vars
      BY <2>8 DEF vars, OwnInv, RoundTrip, OwnProof, TrailOK, Retraces, AtNode
    <2>9. CASE \/ RootLevel \/ RootDone \/ PathLevel \/ PathDone
               \/ \E index \in 0..Len(leaves) : PathStart(index)
      BY <2>9 DEF RootLevel, RootDone, PathLevel, PathDone, PathStart, ControlInv,
                  OwnInv, RoundTrip
    <2>10. CASE RecomputeStart \/ RecomputeLevel \/ RecomputeDone
      BY <2>10 DEF RecomputeStart, RecomputeLevel, RecomputeDone, ControlInv,
                   OwnInv, RoundTrip
    <2>11. CASE /\ source # "exporter"
                /\ VerifyStart \/ VerifyOutOfRange \/ FoldPromote \/ FoldSibling
                     \/ FoldMissing \/ FoldDone
      BY <2>11 DEF VerifyStart, VerifyOutOfRange, FoldPromote, FoldSibling,
                   FoldMissing, FoldDone, OwnInv, RoundTrip
    <2>. QED
      BY <2>1, <2>2, <2>3, <2>4, <2>5, <2>6, <2>7, <2>8, <2>9, <2>10, <2>11
      DEF Next, Compute, Environment, SubmitMoved, SubmitOther, Submit, SubmitRows
  <1>3. OwnInv => RoundTrip
    BY DEF OwnInv
  <1>. QED BY <1>1, <1>2, <1>3, TowerInvariant, ControlInvariant, GenInvariant,
              PTL DEF Spec

-----------------------------------------------------------------------------
(* The type invariant: the remaining conjuncts are inductive once the      *)
(* submitted path is known to be a sequence.                               *)
PlainInv ==
    /\ pc \in {"root", "signed", "path", "proved", "check", "fold", "recheck",
               "recompute", "done"}
    /\ source \in {"none", "exporter", "other", "rows"}
    /\ verdict \in {"none", "accept", "reject"}
    /\ leaves \in Batch
    /\ rows \in Batch \cup {<<>>}
    /\ IsSeq(gen.path)
    /\ proof.leaf_index \in Nat /\ proof.leaf_count \in Nat /\ IsSeq(proof.path)
    /\ pc = "fold" =>
          /\ fold.count \in Nat
          /\ fold.index \in 0..(fold.count - 1)
          /\ fold.path_pos \in 0..Len(proof.path)

(* The empty sequence.                                                     *)
LEMMA EmptyIsSeq == IsSeq(<<>>) /\ Len(<<>>) = 0
  <1>1. <<>> \in Seq({})
    OBVIOUS
  <1>. QED BY <1>1, SeqIsSeq

(* A function on 1..n is a sequence, by membership.                        *)
LEMMA FunctionIsSeq ==
    ASSUME NEW S, NEW n \in Nat, NEW f \in [1..n -> S]
    PROVE  IsSeq(f)
  BY SeqOfFunction

(* A path with surplus entries is a sequence.                              *)
LEMMA PaddedIsSeq ==
    ASSUME NEW p, IsSeq(p), NEW q \in Padded(p)
    PROVE  IsSeq(q)
  <1>1. CASE q = p
    BY <1>1
  <1>2. CASE \E n \in 1..MaxPadding : \E pad \in [1..n -> Foreign] : q = p \o pad
    <2>0. PICK n \in 1..MaxPadding : \E pad \in [1..n -> Foreign] : q = p \o pad
      BY <1>2
    <2>1. PICK pad \in [1..n -> Foreign] : q = p \o pad
      BY <2>0
    <2>2. n \in Nat
      BY BoundAssumption
    <2>3. IsSeq(pad)
      BY <2>2, FunctionIsSeq
    <2>. QED BY <2>1, <2>3, ConcatSeq
  <1>. QED BY <1>1, <1>2 DEF Padded

(* The index of the fold stays below its count when both are halved.       *)
LEMMA ClimbRange ==
    ASSUME NEW c \in Nat, c > 1, NEW i \in 0..(c - 1)
    PROVE  DivCeil2(c) \in Nat /\ i \div 2 \in 0..(DivCeil2(c) - 1)
  BY DEF DivCeil2

(* The parts of the state that no other invariant types: rows, index,      *)
(* round and the fold's place in its path.                                 *)
LEMMA PlainInvariant == Spec => []PlainInv
  <1>1. Init => PlainInv
    <2>. SUFFICES ASSUME Init PROVE PlainInv
      OBVIOUS
    <2>1. gen.path = <<>> /\ proof.path = <<>>
      BY DEF Init, NoGen, NoProof
    <2>2. IsSeq(gen.path) /\ IsSeq(proof.path)
      BY <2>1, EmptyIsSeq
    <2>3. proof.leaf_index = 0 /\ proof.leaf_count = 0
      BY DEF Init, NoProof
    <2>. QED BY <2>2, <2>3 DEF Init, PlainInv
  <1>2. TowerInv /\ ControlInv /\ GenInv /\ PlainInv /\ [Next]_vars => PlainInv'
    <2>. SUFFICES ASSUME TowerInv, ControlInv, GenInv, PlainInv, [Next]_vars
                  PROVE  PlainInv'
      OBVIOUS
    <2>. USE DEF signer, exporter, input
    <2>1. CASE RootLevel \/ RootDone \/ PathDone
      BY <2>1 DEF RootLevel, RootDone, PathDone, PlainInv
    <2>2. CASE \E index \in 0..Len(leaves) : PathStart(index)
      <3>1. PICK index \in 0..Len(leaves) : PathStart(index)
        BY <2>2
      <3>2. gen'.path = <<>>
        BY <3>1 DEF PathStart
      <3>3. IsSeq(gen'.path)
        BY <3>2, EmptyIsSeq
      <3>. QED BY <3>1, <3>3 DEF PathStart, PlainInv
    <2>3. CASE PathLevel
      <3>1. pc = "path" /\ gen'.path = gen.path \o Sibling(gen.level, gen.idx)
        BY <2>3 DEF PathLevel
      <3>2. TrailOK
        BY <3>1 DEF GenInv
      <3>3. IsSeq(gen.level) /\ gen.idx \in 0..(Len(gen.level) - 1)
        BY <3>2, TowerFacts DEF TrailOK
      <3>4. IsSeq(Sibling(gen.level, gen.idx))
        BY <3>3, SiblingShape
      <3>5. IsSeq(gen'.path)
        BY <3>1, <3>4, ConcatSeq DEF PlainInv
      <3>. QED BY <2>3, <3>5 DEF PathLevel, PlainInv
    <2>4. CASE SubmitOwn
      <3>1. /\ proof'.leaf_index = gen.index /\ proof'.leaf_count = Len(leaves)
            /\ proof'.path = gen.path
        BY <2>4 DEF SubmitOwn, Submit
      <3>2. proof'.leaf_index \in Nat /\ proof'.leaf_count \in Nat /\ IsSeq(proof'.path)
        BY <3>1, TowerFacts DEF ControlInv, PlainInv
      <3>. QED BY <2>4, <3>2 DEF SubmitOwn, Submit, PlainInv
    <2>5. CASE \E leaf \in Leaf, count \in 0..MaxCount, index \in 0..MaxCount :
                  SubmitMoved(leaf, index, count) \/ SubmitOther(leaf, index, count)
      <3>1. PICK leaf \in Leaf, count \in 0..MaxCount, index \in 0..MaxCount :
                  SubmitMoved(leaf, index, count) \/ SubmitOther(leaf, index, count)
        BY <2>5
      <3>2. count \in Nat /\ index \in Nat
        BY BoundAssumption
      <3>3. /\ proof'.leaf_index = index /\ proof'.leaf_count = count
            /\ \/ proof'.path \in Padded(gen.path)
               \/ \E n \in 0..MaxPath : proof'.path \in [1..n -> Nodes \cup Foreign]
        BY <3>1 DEF SubmitMoved, SubmitOther, Submit
      <3>4. IsSeq(proof'.path)
        <4>1. CASE proof'.path \in Padded(gen.path)
          BY <4>1, PaddedIsSeq DEF PlainInv
        <4>2. CASE \E n \in 0..MaxPath : proof'.path \in [1..n -> Nodes \cup Foreign]
          <5>1. PICK n \in 0..MaxPath : proof'.path \in [1..n -> Nodes \cup Foreign]
            BY <4>2
          <5>2. n \in Nat
            BY BoundAssumption
          <5>. QED BY <5>1, <5>2, FunctionIsSeq
        <4>. QED BY <3>3, <4>1, <4>2
      <3>. QED BY <3>1, <3>2, <3>3, <3>4 DEF SubmitMoved, SubmitOther, Submit, PlainInv
    <2>6. CASE \E r \in Batch : SubmitRows(r)
      BY <2>6 DEF SubmitRows, PlainInv
    <2>7. CASE VerifyStart
      <3>1. /\ fold'.count = proof.leaf_count /\ fold'.index = proof.leaf_index
            /\ fold'.path_pos = 0 /\ UNCHANGED proof /\ InRange
        BY <2>7 DEF VerifyStart, StartFold
      <3>2. /\ fold'.count \in Nat /\ fold'.index \in 0..(fold'.count - 1)
            /\ fold'.path_pos \in 0..Len(proof.path)
        BY <3>1 DEF PlainInv, InRange, IsSeq
      <3>. QED BY <2>7, <3>2 DEF VerifyStart, PlainInv
    <2>8. CASE FoldPromote \/ FoldSibling
      <3>1. /\ pc = "fold" /\ UNCHANGED <<pc, source, verdict, leaves, rows, gen, proof>>
            /\ fold.count > 1
            /\ fold'.count = DivCeil2(fold.count) /\ fold'.index = fold.index \div 2
            /\ \/ fold'.path_pos = fold.path_pos + 0
               \/ fold'.path_pos = fold.path_pos + 1 /\ fold.path_pos < Len(proof.path)
        BY <2>8 DEF FoldPromote, FoldSibling, Looping, Climb, HasNext
      <3>2. /\ fold'.count \in Nat /\ fold'.index \in 0..(fold'.count - 1)
        BY <3>1, ClimbRange DEF PlainInv
      <3>3. Len(proof.path) \in Nat /\ fold.path_pos \in 0..Len(proof.path)
        BY <3>1 DEF PlainInv, IsSeq
      <3>4. fold'.path_pos \in 0..Len(proof.path)
        BY <3>1, <3>3
      <3>. QED BY <3>1, <3>2, <3>4 DEF PlainInv
    <2>9. CASE VerifyOutOfRange \/ FoldMissing \/ FoldDone
      BY <2>9 DEF VerifyOutOfRange, FoldMissing, FoldDone, Answer, PlainInv
    <2>10. CASE RecomputeStart \/ RecomputeLevel \/ RecomputeDone
      BY <2>10 DEF RecomputeStart, RecomputeLevel, RecomputeDone, Answer, PlainInv
    <2>11. CASE UNCHANGED vars
      BY <2>11 DEF vars, PlainInv
    <2>. QED
      BY <2>1, <2>2, <2>3, <2>4, <2>5, <2>6, <2>7, <2>8, <2>9, <2>10, <2>11
      DEF Next, Compute, Environment
  <1>. QED BY <1>1, <1>2, TowerInvariant, ControlInvariant, GenInvariant, PTL DEF Spec

(* The variables stay inside their types: levels halve, and neither the    *)
(* path index nor the fold leaves the tree or the path.                    *)
THEOREM TypeCorrect == Spec => []TypeOK
  <1>1. TowerInv /\ ControlInv /\ GenInv /\ RecomputeInv /\ PlainInv => TypeOK
    <2>. SUFFICES ASSUME TowerInv, ControlInv, GenInv, RecomputeInv, PlainInv
                  PROVE  TypeOK
      OBVIOUS
    <2>1. /\ Len(tower) >= 1 /\ Len(tower[1]) = Len(leaves)
          /\ pc # "root" => Len(Top) <= 1
      BY TowerFacts DEF TowerInv
    <2>2. \A k \in 1..(Len(tower) - 1) :
              Len(tower[k]) > 1 /\ Len(tower[k+1]) = DivCeil2(Len(tower[k]))
      <3>. SUFFICES ASSUME NEW k \in 1..(Len(tower) - 1)
                    PROVE  Len(tower[k]) > 1 /\ Len(tower[k+1]) = DivCeil2(Len(tower[k]))
        OBVIOUS
      <3>1. k \in 1..Len(tower) /\ k # Len(tower)
        BY TowerFacts
      <3>2. Len(tower[k]) > 1 /\ tower[k+1] = Parents(tower[k]) /\ IsSeq(tower[k])
        BY <3>1, TowerFacts
      <3>. QED BY <3>2, ParentsShape
    <2>3. pc \in {"path", "proved"} /\ gen.index < Len(leaves) => gen.idx < Len(gen.level)
      <3>. SUFFICES ASSUME pc \in {"path", "proved"}, gen.index < Len(leaves)
                    PROVE  gen.idx < Len(gen.level)
        OBVIOUS
      <3>1. TrailOK
        BY DEF GenInv
      <3>2. gen.idx \in 0..(Len(gen.level) - 1) /\ Len(gen.level) \in Nat
        BY <3>1, TowerFacts DEF TrailOK
      <3>. QED BY <3>2
    <2>4. pc = "recompute" => Len(level) = Len(tower[round + 1])
      BY DEF RecomputeInv, SameLevel
    <2>5. pc = "fold" => /\ fold.index \in 0..(fold.count - 1)
                         /\ fold.path_pos \in 0..Len(proof.path)
      BY DEF PlainInv
    <2>. QED BY <2>1, <2>2, <2>3, <2>4, <2>5 DEF TypeOK, PlainInv, ControlInv
  <1>. QED BY <1>1, TowerInvariant, ControlInvariant, GenInvariant, RecomputeInvariant,
              PlainInvariant, PTL

-----------------------------------------------------------------------------
(* The loops and the functions *)

(* A round of the loop is the last one exactly if a node is left.          *)
LEMMA RoundsLeft ==
    ASSUME NEW n \in Nat, NEW k \in 0..Height(n)
    PROVE  /\ Height(n) \in Nat /\ k \in Nat
           /\ NodesAfter(n)[k] <= 1 => k = Height(n)
           /\ NodesAfter(n)[k] > 1 => k + 1 \in 0..Height(n)
  <1>1. PICK h, a : h = Height(n) /\ a = NodesAfter(n)
    OBVIOUS
  <1>2. h \in Nat /\ a[h] <= 1 /\ \A j \in 0..(h - 1) : a[j] > 1
    BY <1>1, HeightFacts
  <1>3. k \in 0..h
    BY <1>1
  <1>4. a[k] \in Nat /\ a[h] \in Nat
    <2>1. \A j \in Nat : a[j] \in Nat
      BY <1>1, NodesShrink
    <2>. QED BY <1>2, <1>3, <2>1
  <1>5. ASSUME a[k] <= 1 PROVE k = h
    BY <1>2, <1>3, <1>4, <1>5
  <1>6. ASSUME a[k] > 1 PROVE k + 1 \in 0..h
    BY <1>2, <1>3, <1>4, <1>6
  <1>. QED BY <1>1, <1>2, <1>3, <1>5, <1>6

(* The levels the signer's loop went through are those of the function.    *)
LEMMA TowerIsLevels ==
    ASSUME TowerInv
    PROVE  \A k \in 1..Len(tower) : tower[k] = LevelsOf(leaves)[k - 1]
  <1>1. PICK l : l = LevelsOf(leaves)
    OBVIOUS
  <1>2. l[0] = LeafLevel(leaves) /\ \A k \in Nat : l[k+1] = Parents(l[k])
    BY <1>1, LevelsUnfold
  <1>3. PICK S : S = {k \in Nat : k \in 1..Len(tower) => tower[k] = l[k - 1]}
    OBVIOUS
  <1>4. Len(tower) \in Nat /\ Len(tower) > 0
    BY TowerFacts DEF TowerInv
  <1>5. 1 \in S
    BY <1>2, <1>3 DEF TowerInv
  <1>6. ASSUME NEW k \in 1..Len(tower), k < Len(tower), k \in S PROVE k + 1 \in S
    <2>1. tower[k] = l[k - 1] /\ k - 1 \in Nat /\ k \in Nat
      BY <1>3, <1>6
    <2>2. tower[k+1] = Parents(tower[k])
      BY <1>4, <1>6 DEF TowerInv
    <2>3. l[k - 1 + 1] = Parents(l[k - 1])
      BY <1>2, <2>1
    <2>4. k - 1 + 1 = k /\ k + 1 - 1 = k
      BY <2>1
    <2>. QED BY <1>3, <2>1, <2>2, <2>3, <2>4
  <1>7. \A k \in 1..Len(tower) : k \in S
    BY <1>4, <1>5, <1>6, InductiveTo
  <1>. QED BY <1>1, <1>3, <1>7

(* merkle_root's loop returns the root (crypto.rs:170-201).                *)
LEMMA RootReturned ==
    ASSUME TowerInv, pc # "root"
    PROVE  Root = MerkleRoot(leaves)
  <1>1. CASE leaves = <<>>
    BY <1>1 DEF Root, MerkleRoot
  <1>2. CASE leaves # <<>>
    <2>1. PICK n, t, k, l : /\ n = Len(leaves) /\ t = Len(tower) /\ k = t - 1
                            /\ l = LevelsOf(leaves)
      OBVIOUS
    <2>2. IsSeq(leaves) /\ n \in Nat /\ t \in Nat \ {0} /\ k \in Nat /\ k + 1 = t
      BY <2>1, TowerFacts DEF TowerInv
    <2>3. \A j \in 1..t : tower[j] = l[j - 1]
      BY <2>1, TowerIsLevels
    <2>4. PICK a, h : a = NodesAfter(n) /\ h = Height(n)
      OBVIOUS
    <2>5. \A j \in Nat : Len(l[j]) = a[j]
      BY <2>1, <2>2, <2>4, LevelShape
    <2>6. h \in Nat /\ a[h] <= 1 /\ \A j \in 0..(h - 1) : a[j] > 1
      BY <2>2, <2>4, HeightFacts
    <2>7. \A j \in Nat : a[j] \in Nat
      BY <2>2, <2>4, NodesShrink
    <2>8. tower[t] = l[k] /\ a[k] <= 1
      <3>1. t \in 1..t /\ tower[t] = l[k]
        BY <2>1, <2>2, <2>3
      <3>2. Len(tower[t]) <= 1
        BY <2>1 DEF TowerInv, Top
      <3>. QED BY <2>2, <2>5, <3>1, <3>2
    <2>9. \A j \in 0..(k - 1) : a[j] > 1
      <3>. SUFFICES ASSUME NEW j \in 0..(k - 1) PROVE a[j] > 1
        OBVIOUS
      <3>1. j \in Nat /\ j + 1 \in 1..(t - 1) /\ j + 1 \in 1..t /\ j + 1 - 1 = j
        BY <2>1, <2>2
      <3>2. Len(tower[j + 1]) > 1
        BY <2>1, <3>1 DEF TowerInv
      <3>. QED BY <2>3, <2>5, <3>1, <3>2
    <2>10. k = h
      BY <2>2, <2>6, <2>7, <2>8, <2>9
    <2>11. Root = tower[t][1]
      BY <1>2, <2>1 DEF Root, Top
    <2>12. MerkleRoot(leaves) = l[h][1]
      BY <1>2, <2>1, <2>4 DEF MerkleRoot
    <2>. QED BY <2>8, <2>10, <2>11, <2>12
  <1>. QED BY <1>1, <1>2

(* The exporter's loop after k rounds. *)
PathRun(k) ==
    /\ gen.level = LevelsOf(leaves)[k]
    /\ gen.idx = PathsOf(leaves, gen.index)[k].index
    /\ gen.path = PathsOf(leaves, gen.index)[k].path

(* The verifier's after k turns. *)
FoldRun(k) ==
    /\ fold = FoldsOf(proof.leaf, proof.leaf_index, proof.leaf_count, proof.path)[k]
    /\ fold.count = NodesAfter(proof.leaf_count)[k]

Verified == MerkleInclusionVerify(proof.leaf, proof.leaf_index, proof.leaf_count,
                                  proof.path, Root)

LoopInv ==
    /\ pc = "path" => /\ gen.index < Len(leaves)
                      /\ \E k \in 0..Height(Len(leaves)) : PathRun(k)
    /\ pc = "proved" => gen.path = MerkleAuditPath(leaves, gen.index)
    /\ pc = "fold" => \E k \in 0..Height(proof.leaf_count) : FoldRun(k)
    /\ pc = "done" /\ ByProof => (verdict = "accept" <=> Verified)

(* A fold that wanted for an entry lands nowhere.                          *)
LEMMA NeverLands ==
    ASSUME PlainInv, ControlInv, pc = "fold", NEW k \in 0..Height(proof.leaf_count), FoldRun(k),
           fold.count > 1, ~IsPromoted(fold), ~HasNext(fold, proof.path)
    PROVE  ~Verified
  <1>1. PICK leaf, i, c, p : /\ leaf = proof.leaf /\ i = proof.leaf_index
                             /\ c = proof.leaf_count /\ p = proof.path
    OBVIOUS
  <1>2. i \in Nat /\ c \in Nat /\ i < c /\ Len(p) \in Nat
    BY <1>1 DEF PlainInv, ControlInv, IsSeq
  <1>3. PICK f, h : f = FoldsOf(leaf, i, c, p) /\ h = Height(c)
    OBVIOUS
  <1>4. fold = f[k] /\ fold.count = NodesAfter(c)[k] /\ k \in 0..h
    BY <1>1, <1>3 DEF FoldRun
  <1>5. \A j \in Nat : f[j+1] = Turn(f[j], p)
    BY ONLY <1>3, FoldsUnfold
  <1>6. h \in Nat /\ k \in Nat /\ k + 1 \in 0..h
    BY <1>2, <1>3, <1>4, RoundsLeft
  <1>7. fold = [current |-> fold.current, index |-> fold.index, count |-> fold.count,
                path_pos |-> fold.path_pos]
    <2>1. f[k] = [current |-> f[k].current, index |-> f[k].index, count |-> f[k].count,
                  path_pos |-> f[k].path_pos]
      BY <1>2, <1>3, <1>4, FoldPlace
    <2>. QED BY <1>4, <2>1
  <1>8. PICK g : g = f[k + 1]
    OBVIOUS
  <1>9. g.count = 1 /\ g.path_pos = Len(p) + 1
    <2>1. Turn(fold, p) = [fold EXCEPT !.count = 1, !.path_pos = Len(p) + 1]
      BY <1>1, <1>2 DEF Turn, PlainInv
    <2>2. g = [fold EXCEPT !.count = 1, !.path_pos = Len(p) + 1]
      BY <1>4, <1>5, <1>6, <1>8, <2>1
    <2>. QED BY <1>7, <2>2
  <1>10. PICK S : S = {m \in Nat : f[k + 1 + m] = g}
    OBVIOUS
  <1>11. 0 \in S
    BY <1>6, <1>8, <1>10
  <1>12. ASSUME NEW m \in Nat, m \in S PROVE m + 1 \in S
    <2>1. PICK j : j = k + 1 + m
      OBVIOUS
    <2>2. j \in Nat /\ j + 1 = k + 1 + (m + 1) /\ f[j] = g
      BY <1>6, <1>10, <1>12, <2>1
    <2>3. f[j + 1] = Turn(g, p)
      BY <1>5, <2>2
    <2>4. Turn(g, p) = g
      BY <1>9 DEF Turn
    <2>. QED BY <1>10, <2>2, <2>3, <2>4
  <1>13. f[h] = g
    <2>1. PICK m : m = h - (k + 1)
      OBVIOUS
    <2>2. m \in Nat /\ k + 1 + m = h
      BY <1>6, <2>1
    <2>3. \A j \in Nat : j \in S
      BY <1>11, <1>12, Inductive
    <2>. QED BY <1>10, <2>2, <2>3
  <1>14. ~Lands(f[h], p, Root)
    BY <1>2, <1>9, <1>13 DEF Lands
  <1>. QED BY <1>1, <1>3, <1>14 DEF Verified, MerkleInclusionVerify

(* The loops run as the functions do, round by round.                      *)
LEMMA LoopInvariant == Spec => []LoopInv
  <1>1. Init => LoopInv
    BY DEF Init, LoopInv
  <1>2. TowerInv /\ ControlInv /\ PlainInv /\ LoopInv /\ [Next]_vars => LoopInv'
    <2>. SUFFICES ASSUME TowerInv, ControlInv, PlainInv, LoopInv, [Next]_vars
                  PROVE  LoopInv'
      OBVIOUS
    <2>. USE DEF signer, exporter, input
    <2>0. IsSeq(leaves) /\ Len(leaves) \in Nat
      BY TowerFacts
    <2>1. CASE RootLevel \/ RootDone
      BY <2>1 DEF RootLevel, RootDone, LoopInv
    <2>2. CASE \E index \in 0..Len(leaves) : PathStart(index)
      <3>1. PICK index \in 0..Len(leaves) : PathStart(index)
        BY <2>2
      <3>2. /\ gen'.index = index /\ gen'.level = LeafLevel(leaves) /\ gen'.idx = index
            /\ gen'.path = <<>> /\ UNCHANGED leaves
            /\ pc' = IF index >= Len(leaves) THEN "proved" ELSE "path"
        BY <3>1 DEF PathStart
      <3>3. CASE index >= Len(leaves)
        <4>1. gen'.path = MerkleAuditPath(leaves', gen'.index)
          BY <3>2, <3>3 DEF MerkleAuditPath
        <4>. QED BY <3>2, <3>3, <4>1 DEF LoopInv
      <3>4. CASE ~(index >= Len(leaves))
        <4>1. /\ LevelsOf(leaves)[0] = LeafLevel(leaves)
              /\ PathsOf(leaves, index)[0] = StartPath(index)
          BY LevelsUnfold, PathsUnfold
        <4>2. PathRun(0)'
          BY <3>2, <4>1 DEF PathRun, StartPath
        <4>3. 0 \in 0..Height(Len(leaves')) /\ gen'.index < Len(leaves')
          <5>1. Height(Len(leaves)) \in 0..Len(leaves)
            BY <2>0, HeightFacts
          <5>. QED BY <2>0, <3>2, <3>4, <5>1
        <4>. QED BY <3>2, <3>4, <4>2, <4>3 DEF LoopInv
      <3>. QED BY <3>3, <3>4
    <2>3. CASE PathLevel
      <3>1. /\ pc = "path" /\ pc' = "path" /\ UNCHANGED leaves /\ Len(gen.level) > 1
            /\ gen'.index = gen.index /\ gen'.level = Parents(gen.level)
            /\ gen'.idx = gen.idx \div 2
            /\ gen'.path = gen.path \o Sibling(gen.level, gen.idx)
        BY <2>3 DEF PathLevel
      <3>2. PICK l, q, i, t : /\ l = LevelsOf(t) /\ q = PathsOf(t, i)
                              /\ t = leaves /\ i = gen.index
        OBVIOUS
      <3>3. q[0] = StartPath(i) /\ \A j \in Nat : q[j+1] = Extended(q[j], l[j])
        BY ONLY <3>2, PathsUnfold
      <3>4. \A j \in Nat : l[j+1] = Parents(l[j])
        BY ONLY <3>2, LevelsUnfold
      <3>5. PICK k \in 0..Height(Len(leaves)) : PathRun(k)
        BY <3>1 DEF LoopInv
      <3>6. gen.level = l[k] /\ gen.idx = q[k].index /\ gen.path = q[k].path
        BY <3>2, <3>5 DEF PathRun
      <3>7. k \in Nat /\ k + 1 \in 0..Height(Len(leaves))
        <4>1. k \in Nat
          BY <2>0, RoundsLeft
        <4>2. NodesAfter(Len(leaves))[k] > 1
          BY <2>0, <3>1, <3>2, <3>6, <4>1, LevelShape
        <4>. QED BY <2>0, <4>1, <4>2, RoundsLeft
      <3>8. /\ q[k+1].index = q[k].index \div 2
            /\ q[k+1].path = q[k].path \o Sibling(l[k], q[k].index)
        <4>1. /\ Extended(q[k], l[k]).index = q[k].index \div 2
              /\ Extended(q[k], l[k]).path = q[k].path \o Sibling(l[k], q[k].index)
          BY DEF Extended
        <4>. QED BY <3>3, <3>7, <4>1
      <3>9. q[k+1].index = gen'.idx /\ q[k+1].path = gen'.path /\ l[k+1] = gen'.level
        BY <3>1, <3>4, <3>6, <3>7, <3>8
      <3>10. PathRun(k + 1)'
        BY <3>1, <3>2, <3>9 DEF PathRun
      <3>11. gen'.index < Len(leaves') /\ k + 1 \in 0..Height(Len(leaves'))
        BY <3>1, <3>7 DEF LoopInv
      <3>. QED BY <3>1, <3>10, <3>11 DEF LoopInv
    <2>4. CASE PathDone
      <3>1. /\ pc = "path" /\ pc' = "proved" /\ UNCHANGED <<leaves, gen>>
            /\ Len(gen.level) <= 1
        BY <2>4 DEF PathDone
      <3>2. PICK k \in 0..Height(Len(leaves)) : PathRun(k)
        BY <3>1 DEF LoopInv
      <3>3. k \in Nat
        BY <2>0, RoundsLeft
      <3>4. NodesAfter(Len(leaves))[k] <= 1
        BY <2>0, <3>1, <3>2, <3>3, LevelShape DEF PathRun
      <3>5. k = Height(Len(leaves))
        BY <2>0, <3>4, RoundsLeft
      <3>6. ~(gen.index >= Len(leaves))
        BY <2>0, <3>1 DEF LoopInv, ControlInv
      <3>7. gen.path = MerkleAuditPath(leaves, gen.index)
        BY <3>2, <3>5, <3>6 DEF PathRun, MerkleAuditPath
      <3>. QED BY <3>1, <3>7 DEF LoopInv
    <2>5. CASE \/ SubmitOwn
               \/ \E leaf \in Leaf, count \in 0..MaxCount, index \in 0..MaxCount :
                     SubmitMoved(leaf, index, count) \/ SubmitOther(leaf, index, count)
               \/ \E r \in Batch : SubmitRows(r)
      <3>1. pc' \in {"check", "recheck"}
        BY <2>5 DEF SubmitOwn, SubmitMoved, SubmitOther, Submit, SubmitRows
      <3>. QED BY <3>1 DEF LoopInv
    <2>6. CASE VerifyOutOfRange
      <3>1. ~InRange /\ verdict' = "reject" /\ pc' = "done" /\ UNCHANGED <<leaves, tower, proof>>
        BY <2>6 DEF VerifyOutOfRange, Answer
      <3>2. ~Verified
        BY <3>1 DEF Verified, MerkleInclusionVerify, InRange
      <3>3. Verified' <=> Verified
        BY <3>1 DEF Verified, Root, Top
      <3>. QED BY <3>1, <3>2, <3>3 DEF LoopInv
    <2>7. CASE VerifyStart
      <3>1. /\ fold' = StartFold(proof.leaf, proof.leaf_index, proof.leaf_count)
            /\ pc' = "fold" /\ UNCHANGED proof
        BY <2>7 DEF VerifyStart
      <3>2. FoldsOf(proof.leaf, proof.leaf_index, proof.leaf_count, proof.path)[0] = fold'
        BY <3>1, FoldsUnfold
      <3>3. NodesAfter(proof.leaf_count)[0] = proof.leaf_count
        BY NodesUnfold
      <3>4. FoldRun(0)'
        BY <3>1, <3>2, <3>3 DEF FoldRun, StartFold
      <3>5. 0 \in 0..Height(proof.leaf_count)
        <4>1. Height(proof.leaf_count) \in 0..proof.leaf_count /\ proof.leaf_count \in Nat
          BY HeightFacts DEF PlainInv
        <4>. QED BY <4>1
      <3>. QED BY <3>1, <3>4, <3>5 DEF LoopInv
    <2>8. CASE FoldPromote \/ FoldSibling
      <3>1. /\ pc = "fold" /\ pc' = "fold" /\ UNCHANGED proof /\ fold.count > 1
            /\ fold' = Turn(fold, proof.path)
            /\ fold'.count = DivCeil2(fold.count)
        <4>1. fold.count > 1 /\ ~(fold.count <= 1)
          BY <2>8 DEF FoldPromote, FoldSibling, Looping, PlainInv
        <4>2. /\ pc = "fold" /\ pc' = "fold" /\ UNCHANGED proof
              /\ fold'.count = DivCeil2(fold.count)
          BY <2>8 DEF FoldPromote, FoldSibling, Looping, Climb
        <4>3. fold' = Turn(fold, proof.path)
          BY <2>8, <4>1 DEF FoldPromote, FoldSibling, Turn
        <4>. QED BY <4>1, <4>2, <4>3
      <3>2. PICK k \in 0..Height(proof.leaf_count) : FoldRun(k)
        BY <3>1 DEF LoopInv
      <3>3. PICK f, a, c : /\ f = FoldsOf(proof.leaf, proof.leaf_index, proof.leaf_count, proof.path)
                           /\ a = NodesAfter(c) /\ c = proof.leaf_count
        OBVIOUS
      <3>4. fold = f[k] /\ fold.count = a[k] /\ c \in Nat /\ k \in 0..Height(c)
        BY <3>2, <3>3 DEF FoldRun, PlainInv
      <3>5. k \in Nat /\ k + 1 \in 0..Height(c)
        BY <3>1, <3>3, <3>4, RoundsLeft
      <3>6. f[k+1] = Turn(f[k], proof.path) /\ a[k+1] = DivCeil2(a[k])
        BY <3>3, <3>5, FoldsUnfold, NodesUnfold
      <3>7. fold' = f[k+1] /\ fold'.count = a[k+1]
        BY <3>1, <3>4, <3>6
      <3>8. FoldRun(k + 1)'
        BY <3>1, <3>3, <3>7 DEF FoldRun
      <3>. QED BY <3>1, <3>3, <3>5, <3>8 DEF LoopInv
    <2>9. CASE FoldMissing
      <3>1. /\ pc = "fold" /\ fold.count > 1 /\ ~IsPromoted(fold) /\ ~HasNext(fold, proof.path)
            /\ verdict' = "reject" /\ pc' = "done" /\ UNCHANGED <<leaves, tower, proof>>
        BY <2>9 DEF FoldMissing, Looping, Answer
      <3>2. PICK k \in 0..Height(proof.leaf_count) : FoldRun(k)
        BY <3>1 DEF LoopInv
      <3>3. ~Verified
        BY <3>1, <3>2, NeverLands
      <3>4. Verified' <=> Verified
        BY <3>1 DEF Verified, Root, Top
      <3>. QED BY <3>1, <3>3, <3>4 DEF LoopInv
    <2>10. CASE FoldDone
      <3>1. /\ pc = "fold" /\ fold.count <= 1
            /\ verdict' = IF Lands(fold, proof.path, Root) THEN "accept" ELSE "reject"
            /\ pc' = "done" /\ UNCHANGED <<leaves, tower, proof>>
        BY <2>10 DEF FoldDone, Answer
      <3>2. PICK k \in 0..Height(proof.leaf_count) : FoldRun(k)
        BY <3>1 DEF LoopInv
      <3>3. k = Height(proof.leaf_count)
        <4>1. NodesAfter(proof.leaf_count)[k] <= 1 /\ proof.leaf_count \in Nat
          BY <3>1, <3>2 DEF FoldRun, PlainInv
        <4>. QED BY <4>1, RoundsLeft
      <3>4. Verified <=> Lands(fold, proof.path, Root)
        BY <3>1, <3>2, <3>3 DEF Verified, MerkleInclusionVerify, FoldRun, ControlInv
      <3>5. Verified' <=> Verified
        BY <3>1 DEF Verified, Root, Top
      <3>. QED BY <3>1, <3>4, <3>5 DEF LoopInv
    <2>11. CASE RecomputeStart \/ RecomputeLevel \/ RecomputeDone
      <3>1. source' = "rows" /\ pc' \in {"done", "recompute"}
        BY <2>11 DEF RecomputeStart, RecomputeLevel, RecomputeDone, Answer, ControlInv
      <3>. QED BY <3>1 DEF LoopInv, ByProof
    <2>12. CASE UNCHANGED vars
      <3>1. /\ UNCHANGED <<pc, leaves, tower, gen, source, proof, fold, verdict>>
        BY <2>12 DEF vars
      <3>2. /\ Verified' <=> Verified
            /\ \A k : PathRun(k)' <=> PathRun(k)
            /\ \A k : FoldRun(k)' <=> FoldRun(k)
        BY <3>1 DEF Verified, Root, Top, PathRun, FoldRun
      <3>. QED BY <3>1, <3>2 DEF LoopInv, ByProof
    <2>. QED
      BY <2>1, <2>2, <2>3, <2>4, <2>5, <2>6, <2>7, <2>8, <2>9, <2>10, <2>11, <2>12
      DEF Next, Compute, Environment
  <1>. QED BY <1>1, <1>2, TowerInvariant, ControlInvariant, PlainInvariant, PTL DEF Spec

(* What the loops of crypto.rs:170-326 return, run an iteration at a time, *)
(* is what the functions of Merkle say, which the other modules use.       *)
THEOREM LoopsAreFunctions == Spec => []LoopsReturnFunctions
  <1>1. TowerInv /\ LoopInv => LoopsReturnFunctions
    BY RootReturned DEF LoopInv, LoopsReturnFunctions, Verified
  <1>. QED BY <1>1, TowerInvariant, LoopInvariant, PTL

(* An accepted proof for the signed row count is the exporter's, digest    *)
(* for digest: there is one way to prove a row (crypto.rs:322-325).        *)
THEOREM InclusionHasOnePath == Spec => []InclusionPathUnique
  <1>1. TowerInv /\ PlainInv /\ LoopInv => InclusionPathUnique
    <2>. SUFFICES ASSUME TowerInv, PlainInv, LoopInv, Accepted, ByProof,
                         proof.leaf_count = Len(leaves)
                  PROVE  proof.path = MerkleAuditPath(leaves, proof.leaf_index)
      BY DEF InclusionPathUnique
    <2>1. pc = "done" /\ verdict = "accept"
      BY DEF Accepted
    <2>2. Root = MerkleRoot(leaves)
      BY <2>1, RootReturned
    <2>3. MerkleInclusionVerify(proof.leaf, proof.leaf_index, Len(leaves), proof.path,
                                MerkleRoot(leaves))
      BY <2>1, <2>2 DEF LoopInv, Verified
    <2>4. IsSeq(leaves) /\ IsSeq(proof.path) /\ proof.leaf_index \in Nat
      BY TowerFacts DEF PlainInv
    <2>. QED BY <2>3, <2>4, PathBinds
  <1>. QED BY <1>1, TowerInvariant, PlainInvariant, LoopInvariant, PTL

-----------------------------------------------------------------------------
(* The tree of RFC 6962 *)

(* The powers of two up to the n-th. *)
PowersTo(g, n) == g = [k \in 0..n |-> IF k = 0 THEN 1 ELSE 2 * g[k-1]]

(* Two tables of the powers agree on what they share.                      *)
LEMMA PowersAgree ==
    ASSUME NEW m \in Nat, NEW g, PowersTo(g, m), NEW n \in Nat, NEW h, PowersTo(h, n)
    PROVE  \A k \in Nat : k <= m /\ k <= n => g[k] = h[k]
  <1>1. PICK S : S = {k \in Nat : k <= m /\ k <= n => g[k] = h[k]}
    OBVIOUS
  <1>2. 0 \in S
    BY <1>1 DEF PowersTo
  <1>3. ASSUME NEW k \in Nat, k \in S PROVE k + 1 \in S
    <2>. SUFFICES ASSUME k + 1 <= m, k + 1 <= n PROVE g[k+1] = h[k+1]
      BY <1>1
    <2>1. g[k] = h[k]
      BY <1>1, <1>3
    <2>2. k + 1 \in 0..m /\ k + 1 \in 0..n /\ k + 1 # 0 /\ k + 1 - 1 = k
      OBVIOUS
    <2>3. g[k+1] = 2 * g[k]
      BY <2>2 DEF PowersTo
    <2>4. h[k+1] = 2 * h[k]
      BY <2>2 DEF PowersTo
    <2>. QED BY <2>1, <2>3, <2>4
  <1>. QED BY <1>1, <1>2, <1>3, Inductive

(* There is a table of the powers of any length.                           *)
LEMMA PowersExist == \A n \in Nat : \E g : PowersTo(g, n)
  <1>1. PICK S : S = {n \in Nat : \E g : PowersTo(g, n)}
    OBVIOUS
  <1>2. 0 \in S
    <2>1. PICK g : g = [k \in 0..0 |-> 1]
      OBVIOUS
    <2>2. \A k \in 0..0 : k = 0
      OBVIOUS
    <2>3. PowersTo(g, 0)
      BY <2>1, <2>2 DEF PowersTo
    <2>. QED BY <1>1, <2>3
  <1>3. ASSUME NEW n \in Nat, n \in S PROVE n + 1 \in S
    <2>1. PICK g : PowersTo(g, n)
      BY <1>1, <1>3
    <2>2. PICK h : h = [k \in 0..(n + 1) |-> IF k = n + 1 THEN 2 * g[n] ELSE g[k]]
      OBVIOUS
    <2>3. \A k \in 0..n : g[k] = IF k = 0 THEN 1 ELSE 2 * g[k-1]
      BY <2>1 DEF PowersTo
    <2>4. \A k \in 0..n : k \in 0..(n + 1) /\ k # n + 1
      OBVIOUS
    <2>5. \A k \in 0..n : h[k] = g[k]
      BY <2>2, <2>4
    <2>6. ASSUME NEW k \in 0..(n + 1)
          PROVE  h[k] = IF k = 0 THEN 1 ELSE 2 * h[k-1]
      <3>1. CASE k = n + 1
        <4>1. k # 0 /\ k - 1 = n /\ n \in 0..n
          BY <3>1
        <4>. QED BY <2>2, <2>5, <3>1, <4>1
      <3>2. CASE k # n + 1
        <4>1. k \in 0..n /\ (k # 0 => k - 1 \in 0..n)
          BY <3>2
        <4>. QED BY <2>3, <2>5, <4>1
      <3>. QED BY <3>1, <3>2
    <2>7. PowersTo(h, n + 1)
      BY <2>2, <2>6 DEF PowersTo
    <2>. QED BY <1>1, <2>7
  <1>4. \A n \in Nat : n \in S
    BY <1>2, <1>3, Inductive
  <1>. QED BY <1>1, <1>4

(* Each power is twice the one before.                                     *)
LEMMA PowersUnfold ==
    /\ PowersOfTwo[0] = 1
    /\ \A k \in Nat : PowersOfTwo[k+1] = 2 * PowersOfTwo[k]
  <1>1. PICK f : f = [n \in Nat |-> (CHOOSE g : PowersTo(g, n))[n]]
    OBVIOUS
  <1>2. ASSUME NEW n \in Nat PROVE f[n] = IF n = 0 THEN 1 ELSE 2 * f[n-1]
    <2>1. PICK g : g = CHOOSE x : PowersTo(x, n)
      OBVIOUS
    <2>2. PowersTo(g, n) /\ f[n] = g[n]
      BY <1>1, <2>1, PowersExist
    <2>3. n \in 0..n
      OBVIOUS
    <2>4. g[n] = IF n = 0 THEN 1 ELSE 2 * g[n-1]
      BY <2>2, <2>3 DEF PowersTo
    <2>5. ASSUME n # 0 PROVE f[n-1] = g[n-1]
      <3>1. PICK m : m = n - 1
        OBVIOUS
      <3>2. m \in Nat /\ m <= n /\ m <= m
        BY <2>5, <3>1
      <3>3. PICK h : h = CHOOSE g_ : PowersTo(g_, m)
        OBVIOUS
      <3>4. PowersTo(h, m) /\ f[m] = h[m]
        BY <1>1, <3>2, <3>3, PowersExist
      <3>. QED BY <2>2, <3>1, <3>2, <3>4, PowersAgree
    <2>. QED BY <2>2, <2>4, <2>5
  <1>3. f = [k \in Nat |-> IF k = 0 THEN 1 ELSE 2 * f[k-1]]
    BY <1>1, <1>2
  <1>4. PowersOfTwo = [k \in Nat |-> IF k = 0 THEN 1 ELSE 2 * PowersOfTwo[k-1]]
    BY <1>3 DEF PowersOfTwo
  <1>5. PICK p : p = PowersOfTwo
    OBVIOUS
  <1>6. p = [k \in Nat |-> IF k = 0 THEN 1 ELSE 2 * p[k-1]]
    BY <1>4, <1>5
  <1>7. \A k \in Nat : k + 1 \in Nat /\ k + 1 # 0 /\ k + 1 - 1 = k
    OBVIOUS
  <1>8. \A k \in Nat : p[k+1] = 2 * p[k]
    BY <1>6, <1>7
  <1>. QED BY <1>5, <1>6, <1>8

(* The powers are numbers that outgrow their exponents.                    *)
LEMMA PowersLarge == \A j \in Nat : PowersOfTwo[j] \in Nat /\ PowersOfTwo[j] > j
  <1>1. PICK p : p = PowersOfTwo
    OBVIOUS
  <1>2. p[0] = 1 /\ \A k \in Nat : p[k+1] = 2 * p[k]
    BY <1>1, PowersUnfold
  <1>3. PICK S : S = {j \in Nat : p[j] \in Nat /\ p[j] > j}
    OBVIOUS
  <1>4. 0 \in S
    BY <1>2, <1>3
  <1>5. ASSUME NEW j \in Nat, j \in S PROVE j + 1 \in S
    BY <1>2, <1>3, <1>5
  <1>6. \A j \in Nat : j \in S
    BY <1>4, <1>5, Inductive
  <1>. QED BY <1>1, <1>3, <1>6

(* Of two powers the larger is at least twice the smaller.                 *)
LEMMA PowersApart ==
    \A i, j \in Nat : i < j => 2 * PowersOfTwo[i] <= PowersOfTwo[j]
  <1>. SUFFICES ASSUME NEW i \in Nat PROVE \A j \in Nat : i < j => 2 * PowersOfTwo[i] <= PowersOfTwo[j]
    OBVIOUS
  <1>1. PICK p : p = PowersOfTwo
    OBVIOUS
  <1>2. \A k \in Nat : p[k] \in Nat /\ p[k+1] = 2 * p[k]
    BY <1>1, PowersUnfold, PowersLarge
  <1>3. PICK S : S = {j \in Nat : i < j => 2 * p[i] <= p[j]}
    OBVIOUS
  <1>4. 0 \in S
    BY <1>3
  <1>5. ASSUME NEW j \in Nat, j \in S PROVE j + 1 \in S
    <2>1. CASE i < j
      BY <1>2, <1>3, <1>5, <2>1
    <2>2. CASE ~(i < j)
      <3>1. i < j + 1 => i = j
        BY <2>2
      <3>2. p[j+1] = 2 * p[j] /\ p[j] \in Nat
        BY <1>2
      <3>. QED BY <1>3, <3>1, <3>2
    <2>. QED BY <2>1, <2>2
  <1>6. \A j \in Nat : j \in S
    BY <1>4, <1>5, Inductive
  <1>. QED BY <1>1, <1>3, <1>6

(* A size past a power, and not past the next, splits at that power.       *)
LEMMA SplitIs ==
    ASSUME NEW n \in Nat, NEW k \in Nat, PowersOfTwo[k] < n, n <= 2 * PowersOfTwo[k]
    PROVE  Split(n) = PowersOfTwo[k]
  <1>1. PICK p, s : p = PowersOfTwo /\ s = Split(n)
    OBVIOUS
  <1>2. \A j \in Nat : p[j] \in Nat /\ p[j] > j
    BY <1>1, PowersLarge
  <1>3. p[k] \in {p[j] : j \in 0..n} /\ p[k] < n /\ 2 * p[k] >= n
    <2>1. k \in 0..n
      BY <1>1, <1>2
    <2>. QED BY <1>1, <1>2, <2>1
  <1>4. s \in {p[j] : j \in 0..n} /\ s < n /\ 2 * s >= n
    <2>1. s = CHOOSE x \in {p[j] : j \in 0..n} : x < n /\ 2 * x >= n
      BY <1>1 DEF Split
    <2>. QED BY <1>3, <2>1
  <1>5. PICK j \in 0..n : s = p[j]
    BY <1>4
  <1>6. j \in Nat /\ p[j] \in Nat /\ p[k] \in Nat
    BY <1>2, <1>5
  <1>7. ~(j < k) /\ ~(k < j)
    <2>1. (j < k => 2 * p[j] <= p[k]) /\ (k < j => 2 * p[k] <= p[j])
      BY <1>1, <1>6, PowersApart
    <2>. QED BY <1>3, <1>4, <1>5, <1>6, <2>1
  <1>. QED BY <1>1, <1>5, <1>6, <1>7

(* A tree of more than one leaf splits into two smaller ones.              *)
LEMMA SplitInside ==
    ASSUME NEW n \in Nat, n > 1
    PROVE  Split(n) \in 1..(n - 1) /\ n - Split(n) \in 1..(n - 1)
  <1>1. PICK p : p = PowersOfTwo
    OBVIOUS
  <1>2. p[0] = 1 /\ \A j \in Nat : p[j] \in Nat /\ p[j] > j /\ p[j+1] = 2 * p[j]
    BY <1>1, PowersLarge, PowersUnfold
  <1>3. PICK S : S = {j \in Nat : n <= 2 * p[j] => \E i \in Nat : p[i] < n /\ n <= 2 * p[i]}
    OBVIOUS
  <1>4. 0 \in S
    <2>1. p[0] < n
      BY <1>2
    <2>. QED BY <1>3, <2>1
  <1>5. ASSUME NEW j \in Nat, j \in S PROVE j + 1 \in S
    <2>1. CASE p[j+1] < n
      <3>1. j + 1 \in Nat
        OBVIOUS
      <3>. QED BY <1>3, <2>1, <3>1
    <2>2. CASE ~(p[j+1] < n)
      <3>1. n <= 2 * p[j]
        BY <1>2, <2>2
      <3>. QED BY <1>3, <1>5, <3>1
    <2>. QED BY <2>1, <2>2
  <1>6. n \in S
    BY <1>4, <1>5, Inductive
  <1>7. PICK i \in Nat : p[i] < n /\ n <= 2 * p[i]
    <2>1. n <= 2 * p[n]
      BY <1>2
    <2>. QED BY <1>3, <1>6, <2>1
  <1>8. Split(n) = p[i]
    BY <1>1, <1>7, SplitIs
  <1>. QED BY <1>2, <1>7, <1>8

(* The trees over n leaves, wherever they start, made of smaller ones.     *)
Over(g, n, s) ==
    [lo \in Nat |-> IF n = 1 THEN LeafHash(s[lo + 1])
                    ELSE NodeHash(g[Split(n)][lo], g[n - Split(n)][lo + Split(n)])]

(* A tree is made of what is known of the smaller ones.                    *)
LEMMA OverSame ==
    ASSUME NEW s, NEW n \in Nat, n >= 1, NEW g, NEW h, \A j \in 1..(n - 1) : g[j] = h[j]
    PROVE  Over(g, n, s) = Over(h, n, s)
  <1>1. CASE n = 1
    BY <1>1 DEF Over
  <1>2. CASE n # 1
    <2>1. g[Split(n)] = h[Split(n)] /\ g[n - Split(n)] = h[n - Split(n)]
      BY <1>2, SplitInside
    <2>. QED BY <2>1 DEF Over
  <1>. QED BY <1>1, <1>2

(* The trees of up to n leaves. *)
SubtreesTo(g, n, s) == g = [m \in 1..n |-> Over(g, m, s)]

(* Two tables of trees agree on the sizes they share.                      *)
LEMMA SubtreesAgree ==
    ASSUME NEW s, NEW m \in Nat, NEW g, SubtreesTo(g, m, s),
           NEW n \in Nat, NEW h, SubtreesTo(h, n, s)
    PROVE  \A k \in Nat : k >= 1 /\ k <= m /\ k <= n => g[k] = h[k]
  <1>1. PICK S : S = {k \in Nat : \A j \in 1..k : j <= m /\ j <= n => g[j] = h[j]}
    OBVIOUS
  <1>2. 0 \in S
    BY <1>1
  <1>3. ASSUME NEW k \in Nat, k \in S PROVE k + 1 \in S
    <2>1. ASSUME k + 1 <= m, k + 1 <= n PROVE g[k+1] = h[k+1]
      <3>1. k + 1 \in 1..m /\ k + 1 \in 1..n /\ k + 1 >= 1 /\ k + 1 - 1 = k
        BY <2>1
      <3>2. g[k+1] = Over(g, k + 1, s) /\ h[k+1] = Over(h, k + 1, s)
        BY <3>1 DEF SubtreesTo
      <3>3. \A j \in 1..k : g[j] = h[j]
        BY <1>1, <1>3, <2>1
      <3>4. PICK i : i = k + 1
        OBVIOUS
      <3>5. i \in Nat /\ i >= 1 /\ \A j \in 1..(i - 1) : g[j] = h[j]
        BY <3>3, <3>4
      <3>6. Over(g, i, s) = Over(h, i, s)
        BY <3>5, OverSame
      <3>. QED BY <3>2, <3>4, <3>6
    <2>2. \A j \in 1..(k + 1) : j \in 1..k \/ j = k + 1
      OBVIOUS
    <2>. QED BY <1>1, <1>3, <2>1, <2>2
  <1>4. \A k \in Nat : k \in S
    BY <1>2, <1>3, Inductive
  <1>. QED BY <1>1, <1>4

(* There is a table of trees of any length.                                *)
LEMMA SubtreesExist == \A s : \A n \in Nat : \E g : SubtreesTo(g, n, s)
  <1>. SUFFICES ASSUME NEW s PROVE \A n \in Nat : \E g : SubtreesTo(g, n, s)
    OBVIOUS
  <1>1. PICK S : S = {n \in Nat : \E g : SubtreesTo(g, n, s)}
    OBVIOUS
  <1>2. 0 \in S
    <2>1. PICK g : g = [m \in 1..0 |-> 0]
      OBVIOUS
    <2>2. SubtreesTo(g, 0, s)
      BY <2>1 DEF SubtreesTo
    <2>. QED BY <1>1, <2>2
  <1>3. ASSUME NEW n \in Nat, n \in S PROVE n + 1 \in S
    <2>1. PICK g : SubtreesTo(g, n, s)
      BY <1>1, <1>3
    <2>2. PICK h : h = [m \in 1..(n + 1) |-> IF m = n + 1 THEN Over(g, n + 1, s) ELSE g[m]]
      OBVIOUS
    <2>3. \A m \in 1..n : g[m] = Over(g, m, s)
      BY <2>1 DEF SubtreesTo
    <2>4. \A m \in 1..n : m \in 1..(n + 1) /\ m # n + 1
      OBVIOUS
    <2>5. \A m \in 1..n : h[m] = g[m]
      BY <2>2, <2>4
    <2>6. ASSUME NEW m \in 1..(n + 1) PROVE h[m] = Over(h, m, s)
      <3>1. m \in Nat /\ m >= 1 /\ \A j \in 1..(m - 1) : g[j] = h[j]
        BY <2>5
      <3>2. Over(g, m, s) = Over(h, m, s)
        BY <3>1, OverSame
      <3>3. CASE m = n + 1
        BY <2>2, <3>2, <3>3
      <3>4. CASE m # n + 1
        <4>1. m \in 1..n
          BY <3>4
        <4>. QED BY <2>3, <2>5, <3>2, <4>1
      <3>. QED BY <3>3, <3>4
    <2>7. SubtreesTo(h, n + 1, s)
      BY <2>2, <2>6 DEF SubtreesTo
    <2>. QED BY <1>1, <2>7
  <1>4. \A n \in Nat : n \in S
    BY <1>2, <1>3, Inductive
  <1>. QED BY <1>1, <1>4

(* A tree of n leaves is made of its two parts, as RFC 6962 says.          *)
LEMMA SubtreesUnfold ==
    ASSUME NEW s
    PROVE  \A n \in Nat \ {0} : SubtreesOf(s)[n] = Over(SubtreesOf(s), n, s)
  <1>1. PICK f : f = [n \in Nat \ {0} |-> (CHOOSE g : SubtreesTo(g, n, s))[n]]
    OBVIOUS
  <1>2. ASSUME NEW n \in Nat \ {0} PROVE f[n] = Over(f, n, s)
    <2>1. PICK g : g = CHOOSE x : SubtreesTo(x, n, s)
      OBVIOUS
    <2>2. SubtreesTo(g, n, s) /\ f[n] = g[n]
      BY <1>1, <2>1, SubtreesExist
    <2>3. n \in 1..n /\ n \in Nat /\ n >= 1
      OBVIOUS
    <2>4. g[n] = Over(g, n, s)
      BY <2>2, <2>3 DEF SubtreesTo
    <2>5. ASSUME NEW j \in 1..(n - 1) PROVE g[j] = f[j]
      <3>1. j \in Nat \ {0} /\ j \in Nat /\ j >= 1 /\ j <= n /\ j <= j
        OBVIOUS
      <3>2. PICK h : h = CHOOSE x : SubtreesTo(x, j, s)
        OBVIOUS
      <3>3. SubtreesTo(h, j, s) /\ f[j] = h[j]
        BY <1>1, <3>1, <3>2, SubtreesExist
      <3>. QED BY <2>2, <3>1, <3>3, SubtreesAgree
    <2>6. Over(g, n, s) = Over(f, n, s)
      BY <2>3, <2>5, OverSame
    <2>. QED BY <2>2, <2>4, <2>6
  <1>3. f = [n \in Nat \ {0} |-> Over(f, n, s)]
    BY <1>1, <1>2
  <1>4. f = [n \in Nat \ {0} |->
                [lo \in Nat |-> IF n = 1 THEN LeafHash(s[lo + 1])
                                ELSE NodeHash(f[Split(n)][lo], f[n - Split(n)][lo + Split(n)])]]
    BY <1>3 DEF Over
  <1>5. SubtreesOf(s) = [n \in Nat \ {0} |->
                [lo \in Nat |-> IF n = 1 THEN LeafHash(s[lo + 1])
                                ELSE NodeHash(SubtreesOf(s)[Split(n)][lo],
                                              SubtreesOf(s)[n - Split(n)][lo + Split(n)])]]
    BY <1>4 DEF SubtreesOf
  <1>6. PICK t : t = SubtreesOf(s)
    OBVIOUS
  <1>7. t = [n \in Nat \ {0} |-> Over(t, n, s)]
    BY <1>5, <1>6 DEF Over
  <1>8. \A n \in Nat \ {0} : t[n] = Over(t, n, s)
    BY <1>7
  <1>. QED BY <1>6, <1>8

-----------------------------------------------------------------------------
(* The loop's levels are trees of RFC 6962 *)

(* o cuts n leaves into a runs of p of them, the last of which may be      *)
(* shorter; the i-th run starts past the first o[i] leaves.                *)
Cut(o, a, n, p) ==
    /\ \A i \in 0..a : o[i] \in Nat
    /\ o[0] = 0 /\ o[a] = n
    /\ \A i \in 0..(a - 1) : /\ o[i] < o[i+1]
                             /\ o[i+1] <= o[i] + p
                             /\ i + 1 < a => o[i+1] = o[i] + p

(* The cut a round later: two runs are one, a lone run stays.              *)
Coarser(o, a) == [i \in 0..DivCeil2(a) |-> IF 2*i <= a THEN o[2*i] ELSE o[a]]

(* Where the i-th run of the coarser cut starts and ends.                  *)
LEMMA CoarserRun ==
    ASSUME NEW o, NEW a \in Nat, NEW n \in Nat, NEW p \in Nat, Cut(o, a, n, p),
           NEW r, r = Coarser(o, a), NEW i \in Nat, i < DivCeil2(a)
    PROVE  /\ r[i] = o[2*i] /\ 2*i < a /\ 2*i \in Nat
           /\ 2*i + 1 < a => /\ r[i+1] = o[2*i + 2]
                             /\ o[2*i + 1] = o[2*i] + p
                             /\ o[2*i + 1] < o[2*i + 2]
                             /\ o[2*i + 2] <= o[2*i + 1] + p
                             /\ 2*i + 2 < a => o[2*i + 2] = o[2*i + 1] + p
           /\ ~(2*i + 1 < a) => /\ 2*i + 1 = a /\ i + 1 = DivCeil2(a)
                                /\ r[i+1] = o[2*i + 1]
                                /\ o[2*i] < o[2*i + 1]
                                /\ o[2*i + 1] <= o[2*i] + p
  <1>1. PICK b : b = DivCeil2(a)
    OBVIOUS
  <1>2. /\ b \in Nat /\ 2*b >= a /\ 2*b <= a + 1
    BY <1>1 DEF DivCeil2
  <1>3. i < b /\ i \in 0..b /\ i + 1 \in 0..b /\ 2*(i + 1) = 2*i + 2
    BY <1>1, <1>2
  <1>4. /\ r[i] = IF 2*i <= a THEN o[2*i] ELSE o[a]
        /\ r[i+1] = IF 2*(i + 1) <= a THEN o[2*(i + 1)] ELSE o[a]
    BY <1>1, <1>3 DEF Coarser
  <1>5. 2*i < a /\ 2*i \in Nat
    BY <1>2, <1>3
  <1>6. r[i] = o[2*i]
    BY <1>4, <1>5
  <1>7. \A j \in 0..(a - 1) : /\ o[j] < o[j+1]
                              /\ o[j+1] <= o[j] + p
                              /\ j + 1 < a => o[j+1] = o[j] + p
    BY DEF Cut
  <1>8. PICK j : j = 2*i
    OBVIOUS
  <1>9. j \in Nat /\ j < a /\ j \in 0..(a - 1)
    BY <1>5, <1>8
  <1>10. ASSUME j + 1 < a
         PROVE  /\ r[i+1] = o[j + 2] /\ o[j + 1] = o[j] + p
                /\ o[j + 1] < o[j + 2] /\ o[j + 2] <= o[j + 1] + p
                /\ j + 2 < a => o[j + 2] = o[j + 1] + p
    <2>1. r[i+1] = o[j + 2]
      <3>1. 2*(i + 1) <= a /\ 2*(i + 1) = j + 2
        BY <1>3, <1>8, <1>9, <1>10
      <3>. QED BY <1>4, <3>1
    <2>2. o[j + 1] = o[j] + p
      BY <1>7, <1>9, <1>10
    <2>3. PICK k : k = j + 1
      OBVIOUS
    <2>4. k \in 0..(a - 1) /\ k + 1 = j + 2
      BY <1>9, <1>10, <2>3
    <2>5. /\ o[k] < o[k+1] /\ o[k+1] <= o[k] + p
          /\ k + 1 < a => o[k+1] = o[k] + p
      BY <1>7, <2>4
    <2>. QED BY <2>1, <2>2, <2>3, <2>4, <2>5
  <1>11. ASSUME ~(j + 1 < a)
         PROVE  /\ j + 1 = a /\ i + 1 = b /\ r[i+1] = o[j + 1]
                /\ o[j] < o[j + 1] /\ o[j + 1] <= o[j] + p
    <2>1. j + 1 = a /\ ~(2*(i + 1) <= a) /\ i + 1 = b
      BY <1>2, <1>3, <1>8, <1>9, <1>11
    <2>. QED BY <1>4, <1>7, <1>9, <2>1
  <1>. QED BY <1>1, <1>5, <1>6, <1>8, <1>10, <1>11

(* A round doubles the runs of a cut.                                      *)
LEMMA CutJoins ==
    ASSUME NEW o, NEW a \in Nat, a > 0, NEW n \in Nat, NEW p \in Nat, Cut(o, a, n, p)
    PROVE  Cut(Coarser(o, a), DivCeil2(a), n, 2 * p)
  <1>1. PICK r, b : r = Coarser(o, a) /\ b = DivCeil2(a)
    OBVIOUS
  <1>2. b \in Nat /\ 2*b >= a /\ 2*b <= a + 1
    BY <1>1 DEF DivCeil2
  <1>3. \A i \in 0..a : o[i] \in Nat
    BY DEF Cut
  <1>4. \A i \in 0..b : r[i] = IF 2*i <= a THEN o[2*i] ELSE o[a]
    BY <1>1 DEF Coarser
  <1>5. ASSUME NEW i \in 0..b PROVE r[i] \in Nat
    <2>1. a \in 0..a /\ (2*i <= a => 2*i \in 0..a)
      OBVIOUS
    <2>. QED BY <1>3, <1>4, <2>1
  <1>6. r[0] = 0 /\ r[b] = n
    <2>1. o[0] = 0 /\ o[a] = n
      BY DEF Cut
    <2>2. 0 \in 0..b /\ b \in 0..b /\ (2*b <= a => 2*b = a) /\ 2*0 = 0 /\ 0 <= a
      BY <1>2
    <2>3. r[0] = IF 2*0 <= a THEN o[2*0] ELSE o[a]
      BY <1>4, <2>2
    <2>4. r[b] = IF 2*b <= a THEN o[2*b] ELSE o[a]
      BY <1>4, <2>2
    <2>. QED BY <2>1, <2>2, <2>3, <2>4
  <1>7. ASSUME NEW i \in 0..(b - 1)
        PROVE  /\ r[i] < r[i+1] /\ r[i+1] <= r[i] + 2*p
               /\ i + 1 < b => r[i+1] = r[i] + 2*p
    <2>1. i \in Nat /\ i < DivCeil2(a)
      BY <1>1, <1>2
    <2>2. PICK x, y, z, j : j = 2*i /\ x = o[j] /\ y = o[j + 1] /\ z = o[j + 2]
      OBVIOUS
    <2>3. /\ r[i] = x /\ j < a /\ j \in Nat
          /\ j + 1 < a => /\ r[i+1] = z /\ y = x + p /\ y < z /\ z <= y + p
                          /\ j + 2 < a => z = y + p
          /\ ~(j + 1 < a) => j + 1 = a /\ i + 1 = b /\ r[i+1] = y /\ x < y /\ y <= x + p
      <3>1. r = Coarser(o, a)
        BY <1>1
      <3>. QED BY <1>1, <2>1, <2>2, <3>1, CoarserRun
    <2>4. x \in Nat /\ y \in Nat /\ (j + 1 < a => z \in Nat)
      <3>1. j \in 0..a /\ j + 1 \in 0..a /\ (j + 1 < a => j + 2 \in 0..a)
        BY <2>3
      <3>. QED BY <1>3, <2>2, <3>1
    <2>5. CASE j + 1 < a
      <3>1. i + 1 < b => j + 2 < a
        BY <1>2, <2>1, <2>2, <2>3
      <3>. QED BY <2>3, <2>4, <2>5, <3>1
    <2>6. CASE ~(j + 1 < a)
      BY <2>3, <2>4, <2>6
    <2>. QED BY <2>5, <2>6
  <1>8. Cut(r, b, n, 2 * p)
    BY <1>5, <1>6, <1>7 DEF Cut
  <1>. QED BY <1>1, <1>8

(* The nodes of a level are the trees over the runs of a cut.              *)
Cuts(o, a, n, p, t, l) ==
    /\ Cut(o, a, n, p)
    /\ \A i \in 0..(a - 1) : l[i+1] = t[o[i+1] - o[i]][o[i]]

(* A round of merkle_root (crypto.rs:186-197) pairs neighbouring trees and *)
(* promotes a lone one, as RFC 6962 splits the tree over both.             *)
LEMMA RoundJoins ==
    ASSUME NEW s, NEW t, t = SubtreesOf(s), NEW o, NEW n \in Nat, NEW k \in Nat,
           NEW l, IsSeq(l), Len(l) > 0, Cuts(o, Len(l), n, PowersOfTwo[k], t, l)
    PROVE  Cuts(Coarser(o, Len(l)), DivCeil2(Len(l)), n, PowersOfTwo[k+1], t, Parents(l))
  <1>1. PICK a, b, p, r, m : /\ a = Len(l) /\ b = DivCeil2(a) /\ p = PowersOfTwo[k]
                             /\ r = Coarser(o, a) /\ m = Parents(l)
    OBVIOUS
  <1>2. a \in Nat /\ a > 0 /\ p \in Nat /\ PowersOfTwo[k+1] = 2 * p
    BY <1>1, PowersUnfold, PowersLarge DEF IsSeq
  <1>3. Cut(o, a, n, p) /\ \A i \in 0..(a - 1) : l[i+1] = t[o[i+1] - o[i]][o[i]]
    BY <1>1 DEF Cuts
  <1>4. Cut(r, b, n, 2 * p)
    BY <1>1, <1>2, <1>3, CutJoins
  <1>5. \A i \in 0..a : o[i] \in Nat
    BY <1>3 DEF Cut
  <1>6. \A i \in 1..b : m[i] = IF 2*i <= a THEN NodeHash(l[2*i - 1], l[2*i]) ELSE l[2*i - 1]
    BY <1>1, ParentsShape
  <1>7. \A i \in Nat \ {0} : t[i] = Over(t, i, s)
    <2>1. t = SubtreesOf(s)
      OBVIOUS
    <2>. QED BY ONLY <2>1, SubtreesUnfold
  <1>8. ASSUME NEW i \in 0..(b - 1) PROVE m[i+1] = t[r[i+1] - r[i]][r[i]]
    <2>1. i \in Nat /\ i < DivCeil2(a) /\ i + 1 \in 1..b /\ b \in Nat
      BY <1>1, <1>2 DEF DivCeil2
    <2>2. PICK x, y, z, j : j = 2*i /\ x = o[j] /\ y = o[j + 1] /\ z = o[j + 2]
      OBVIOUS
    <2>3. /\ r[i] = x /\ j < a /\ j \in Nat
          /\ j + 1 < a => r[i+1] = z /\ y = x + p /\ y < z /\ z <= y + p
          /\ ~(j + 1 < a) => j + 1 = a /\ r[i+1] = y
      <3>1. r = Coarser(o, a)
        BY <1>1
      <3>2. Cut(o, a, n, p) /\ a \in Nat /\ p \in Nat /\ i \in Nat /\ i < DivCeil2(a)
        BY <1>2, <1>3, <2>1
      <3>3. /\ r[i] = o[2*i] /\ 2*i < a /\ 2*i \in Nat
            /\ 2*i + 1 < a => /\ r[i+1] = o[2*i + 2]
                              /\ o[2*i + 1] = o[2*i] + p
                              /\ o[2*i + 1] < o[2*i + 2]
                              /\ o[2*i + 2] <= o[2*i + 1] + p
            /\ ~(2*i + 1 < a) => 2*i + 1 = a /\ r[i+1] = o[2*i + 1]
        BY <3>1, <3>2, CoarserRun
      <3>. QED BY <2>2, <3>3
    <2>4. 2*(i + 1) = j + 2 /\ 2*(i + 1) - 1 = j + 1 /\ j \in 0..(a - 1)
      BY <1>2, <2>1, <2>2, <2>3
    <2>5. m[i+1] = IF j + 2 <= a THEN NodeHash(l[j+1], l[j+2]) ELSE l[j+1]
      <3>1. PICK d : d = i + 1
        OBVIOUS
      <3>2. d \in 1..b /\ 2*d = j + 2 /\ 2*d - 1 = j + 1
        BY <2>1, <2>4, <3>1
      <3>3. m[d] = IF 2*d <= a THEN NodeHash(l[2*d - 1], l[2*d]) ELSE l[2*d - 1]
        BY <1>6, <3>2
      <3>. QED BY <3>1, <3>2, <3>3
    <2>6. l[j+1] = t[y - x][x]
      BY <1>3, <2>2, <2>4
    <2>7. CASE j + 1 < a
      <3>1. j + 1 \in 0..(a - 1) /\ j + 1 + 1 = j + 2 /\ j + 2 <= a
        BY <1>2, <2>3, <2>7
      <3>2. l[j+2] = t[z - y][y]
        <4>1. PICK q : q = j + 1
          OBVIOUS
        <4>2. q \in 0..(a - 1) /\ q + 1 = j + 2
          BY <3>1, <4>1
        <4>3. l[q+1] = t[o[q+1] - o[q]][o[q]]
          BY <1>3, <4>2
        <4>. QED BY <2>2, <4>1, <4>2, <4>3
      <3>3. x \in Nat /\ y \in Nat /\ z \in Nat
        <4>1. j \in 0..a /\ j + 1 \in 0..a /\ j + 2 \in 0..a
          BY <1>2, <2>3, <3>1
        <4>. QED BY <1>5, <2>2, <4>1
      <3>4. PICK d : d = z - x
        OBVIOUS
      <3>5. /\ d \in Nat \ {0} /\ d \in Nat /\ d > p /\ d <= 2 * p /\ d # 1
            /\ y - x = p /\ z - y = d - p /\ y = x + p
        <4>1. p > 0
          BY <1>1, <1>2, PowersLarge
        <4>. QED BY <1>2, <2>3, <2>7, <3>3, <3>4, <4>1
      <3>6. Split(d) = p
        BY <1>1, <3>5, SplitIs
      <3>7. t[d][x] = NodeHash(t[p][x], t[d - p][x + p])
        <4>1. t[d] = Over(t, d, s)
          BY <1>7, <3>5
        <4>2. Over(t, d, s)[x] = NodeHash(t[p][x], t[d - p][x + p])
          BY <3>3, <3>5, <3>6 DEF Over
        <4>. QED BY <4>1, <4>2
      <3>8. m[i+1] = NodeHash(t[p][x], t[d - p][x + p])
        BY <2>5, <2>6, <3>1, <3>2, <3>5
      <3>. QED BY <2>3, <2>7, <3>4, <3>7, <3>8
    <2>8. CASE ~(j + 1 < a)
      <3>1. m[i+1] = l[j+1] /\ r[i+1] = y
        <4>1. ~(j + 2 <= a)
          BY <1>2, <2>3, <2>8
        <4>. QED BY <2>3, <2>5, <2>8, <4>1
      <3>. QED BY <2>3, <2>6, <3>1
    <2>. QED BY <2>7, <2>8
  <1>9. Cuts(r, b, n, 2 * p, t, m)
    BY <1>4, <1>8 DEF Cuts
  <1>. QED BY <1>1, <1>2, <1>9

(* merkle_root over any batch is the hash of RFC 6962's tree over it.      *)
LEMMA RootIsTopDown ==
    ASSUME NEW s, IsSeq(s)
    PROVE  MerkleRoot(s) = RFC6962Root(s)
  <1>1. CASE s = <<>>
    BY <1>1 DEF MerkleRoot, RFC6962Root, EmptyRoot
  <1>2. CASE s # <<>>
    <2>1. PICK n, l, t, a, p : /\ n = Len(s) /\ l = LevelsOf(s) /\ t = SubtreesOf(s)
                               /\ a = NodesAfter(n) /\ p = PowersOfTwo
      OBVIOUS
    <2>2. n \in Nat /\ n > 0
      <3>1. n \in Nat /\ s = [i \in 1..n |-> s[i]]
        BY <2>1 DEF IsSeq
      <3>2. CASE n = 0
        <4>1. s = <<>>
          BY <3>1, <3>2
        <4>. QED BY <1>2, <4>1
      <3>. QED BY <3>1, <3>2
    <2>3. p[0] = 1 /\ a[0] = n /\ \A k \in Nat : a[k+1] = DivCeil2(a[k])
      BY <2>1, PowersUnfold, NodesUnfold
    <2>4. l[0] = LeafLevel(s) /\ \A k \in Nat : l[k+1] = Parents(l[k])
      <3>1. l = LevelsOf(s)
        BY <2>1
      <3>. QED BY ONLY <3>1, LevelsUnfold
    <2>5. \A k \in Nat : IsSeq(l[k]) /\ Len(l[k]) = a[k]
      BY <2>1, LevelShape
    <2>6. PICK S : S = {k \in Nat : a[k] > 0 /\ \E o : Cuts(o, a[k], n, p[k], t, l[k])}
      OBVIOUS
    <2>7. 0 \in S
      <3>1. PICK o : o = [i \in 0..n |-> i]
        OBVIOUS
      <3>2. \A i \in 0..n : o[i] = i
        BY <3>1
      <3>3. Cut(o, n, n, 1)
        <4>1. \A i \in 0..(n - 1) : i \in 0..n /\ i + 1 \in 0..n
          BY <2>2
        <4>. QED BY <2>2, <3>2, <4>1 DEF Cut
      <3>4. ASSUME NEW i \in 0..(n - 1) PROVE l[0][i+1] = t[o[i+1] - o[i]][o[i]]
        <4>1. i \in Nat /\ i \in 0..n /\ i + 1 \in 0..n /\ i + 1 \in 1..n /\ i + 1 - i = 1
          BY <2>2
        <4>2. t[1] = Over(t, 1, s)
          <5>1. t = SubtreesOf(s)
            BY <2>1
          <5>2. \A j \in Nat \ {0} : t[j] = Over(t, j, s)
            BY ONLY <5>1, SubtreesUnfold
          <5>. QED BY <5>2
        <4>3. t[1][i] = LeafHash(s[i+1])
          BY <4>1, <4>2 DEF Over
        <4>4. LeafLevel(s)[i+1] = LeafHash(s[i+1])
          BY <2>1, <4>1 DEF LeafLevel
        <4>. QED BY <2>4, <3>2, <4>1, <4>3, <4>4
      <3>5. Cuts(o, n, n, 1, t, l[0])
        BY <3>3, <3>4 DEF Cuts
      <3>. QED BY <2>2, <2>3, <2>6, <3>5
    <2>8. ASSUME NEW k \in Nat, k \in S PROVE k + 1 \in S
      <3>1. PICK o : Cuts(o, a[k], n, p[k], t, l[k])
        BY <2>6, <2>8
      <3>2. PICK m : m = l[k]
        OBVIOUS
      <3>3. IsSeq(m) /\ Len(m) = a[k] /\ Len(m) > 0
        BY <2>5, <2>6, <2>8, <3>2
      <3>4. Cuts(o, Len(m), n, PowersOfTwo[k], t, m)
        BY <2>1, <3>1, <3>2, <3>3
      <3>5. t = SubtreesOf(s) /\ n \in Nat
        BY <2>1, <2>2
      <3>6. Cuts(Coarser(o, Len(m)), DivCeil2(Len(m)), n, PowersOfTwo[k+1], t, Parents(m))
        BY <3>3, <3>4, <3>5, RoundJoins
      <3>7. a[k+1] = DivCeil2(Len(m)) /\ l[k+1] = Parents(m) /\ p[k+1] = PowersOfTwo[k+1]
        BY <2>1, <2>3, <2>4, <3>2, <3>3
      <3>8. Cuts(Coarser(o, Len(m)), a[k+1], n, p[k+1], t, l[k+1])
        BY <3>6, <3>7
      <3>9. a[k+1] > 0
        <4>1. Len(m) \in Nat
          BY <3>3 DEF IsSeq
        <4>. QED BY <3>3, <3>7, <4>1 DEF DivCeil2
      <3>. QED BY <2>6, <3>8, <3>9
    <2>9. PICK h : h = Height(n)
      OBVIOUS
    <2>10. h \in Nat /\ a[h] <= 1
      BY <2>1, <2>2, <2>9, HeightFacts
    <2>11. h \in S
      BY <2>7, <2>8, <2>10, Inductive
    <2>12. PICK o : a[h] > 0 /\ Cuts(o, a[h], n, p[h], t, l[h])
      BY <2>6, <2>11
    <2>13. a[h] = 1
      <3>1. a[h] \in Nat
        BY <2>5, <2>10 DEF IsSeq
      <3>. QED BY <2>10, <2>12, <3>1
    <2>14. l[h][1] = t[n][0]
      <3>1. o[0] = 0 /\ o[1] = n /\ l[h][0+1] = t[o[0+1] - o[0]][o[0]]
        BY <2>12, <2>13 DEF Cuts, Cut
      <3>. QED BY <2>2, <3>1
    <2>. QED BY <1>2, <2>1, <2>9, <2>14 DEF MerkleRoot, RFC6962Root
  <1>. QED BY <1>1, <1>2

(* The signed root is the tree hash RFC 6962 defines top down, whatever    *)
(* the size of the batch (crypto.rs:170-198).                              *)
THEOREM RootMatchesRFC == Spec => []RootIsRFC6962
  <1>1. TowerInv => RootIsRFC6962
    <2>. SUFFICES ASSUME TowerInv, pc = "signed" PROVE Root = RFC6962Root(leaves)
      BY DEF RootIsRFC6962
    <2>1. Root = MerkleRoot(leaves)
      BY RootReturned
    <2>2. IsSeq(leaves)
      BY TowerFacts
    <2>. QED BY <2>1, <2>2, RootIsTopDown
  <1>. QED BY <1>1, TowerInvariant, PTL

=============================================================================
