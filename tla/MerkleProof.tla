----------------------------- MODULE MerkleProof -----------------------------
(***************************************************************************)
(* One life of a signed Merkle root, at the granularity of one loop        *)
(* iteration of src/crypto.rs:                                             *)
(*                                                                         *)
(*   the signer runs merkle_root over its batch and publishes the root;    *)
(*   an exporter may run merkle_audit_path for one leaf;                   *)
(*   whoever assembled the pack submits something to the verifier: the     *)
(*   exporter's proof, some other inclusion proof, or a list of rows;      *)
(*   the verifier runs merkle_inclusion_verify on a proof, and merkle_root *)
(*   on rows, and answers.                                                 *)
(*                                                                         *)
(* The signer's root and row count are fixed by its signature; everything  *)
(* submitted is data of the pack and may be anything.                      *)
(***************************************************************************)
EXTENDS Merkle

CONSTANTS
    Leaf,        \* row hashes a proof may be about
    Batch,       \* batches the signer may anchor, and rows a pack may carry
    Foreign,     \* digests a path may hold besides the nodes of the tree
    MaxCount,    \* largest leaf_count a foreign proof claims
    MaxPath,     \* longest path a foreign proof carries
    MaxPadding   \* surplus entries that may follow the exporter's own path

ASSUME BatchAssumption == Batch \subseteq Seq(Leaf)
ASSUME BoundAssumption == MaxCount \in Nat /\ MaxPath \in Nat /\ MaxPadding \in Nat

VARIABLES
    pc,       \* where the computation is
    leaves,   \* the batch behind the signed root, in leaf order
    tower,    \* the levels the signer's loop went through, leaf level first
    gen,      \* locals of merkle_audit_path
    source,   \* who made the submission
    proof,    \* the submitted inclusion proof, with the row hash it is for
    fold,     \* locals of merkle_inclusion_verify
    rows,     \* the submitted rows' hashes, in leaf order
    level,    \* the verifier's own merkle_root loop
    verdict,  \* what the verifier answered
    trail,    \* auxiliary: [idx, pos] of merkle_audit_path before each round
    round     \* auxiliary: iterations of the verifier's loop so far

vars == <<pc, leaves, tower, gen, source, proof, fold, rows, level, verdict,
          trail, round>>

signer   == <<leaves, tower>>
exporter == <<gen, trail>>
input    == <<source, proof, rows>>

Top    == tower[Len(tower)]
Root   == IF leaves = <<>> THEN EmptyRoot ELSE Top[1]

(* Every digest of the signer's tree. *)
NodesAt(k) == {tower[k][i] : i \in 1..Len(tower[k])}
Nodes      == UNION {NodesAt(k) : k \in 1..Len(tower)}

(* The audit path the exporter computed, possibly with surplus entries. *)
Padded(path) ==
    {path} \cup {path \o pad : pad \in UNION {[1..n -> Foreign] : n \in 1..MaxPadding}}

NoGen   == [index |-> 0, level |-> <<>>, idx |-> 0, path |-> <<>>]
NoProof == [leaf |-> EmptyRoot, leaf_index |-> 0, leaf_count |-> 0, path |-> <<>>]
NoFold  == [current |-> EmptyRoot, index |-> 0, count |-> 0, path_pos |-> 0]

Init ==
    /\ leaves \in Batch
    /\ pc = "root"
    /\ tower = <<LeafLevel(leaves)>>
    /\ gen = NoGen
    /\ source = "none"
    /\ proof = NoProof
    /\ fold = NoFold
    /\ rows = <<>>
    /\ level = <<>>
    /\ verdict = "none"
    /\ trail = <<>>
    /\ round = 0

-----------------------------------------------------------------------------
(* merkle_root, run by the signer *)

RootLevel ==
    /\ pc = "root"
    /\ Len(Top) > 1
    /\ tower' = Append(tower, Parents(Top))
    /\ UNCHANGED <<pc, leaves, exporter, input, fold, level, verdict, round>>

(* Mutant of RootDone: waits for exactly one node. *)
RootDoneAtOne ==
    /\ pc = "root"
    /\ Len(Top) = 1
    /\ pc' = "signed"
    /\ UNCHANGED <<signer, exporter, input, fold, level, verdict, round>>

RootDone ==
    /\ pc = "root"
    /\ Len(Top) <= 1
    /\ pc' = "signed"
    /\ UNCHANGED <<signer, exporter, input, fold, level, verdict, round>>

-----------------------------------------------------------------------------
(* merkle_audit_path, run by the exporter *)

PathStart(index) ==
    /\ pc = "signed"
    /\ gen' = [index |-> index, level |-> LeafLevel(leaves),
               idx |-> index, path |-> <<>>]
    /\ trail' = <<[idx |-> index, pos |-> 0]>>
    /\ pc' = IF index >= Len(leaves) THEN "proved" ELSE "path"
    /\ UNCHANGED <<signer, input, fold, level, verdict, round>>

PathLevel ==
    /\ pc = "path"
    /\ Len(gen.level) > 1
    /\ gen' = [index |-> gen.index,
               level |-> Parents(gen.level),
               idx   |-> gen.idx \div 2,
               path  |-> gen.path \o Sibling(gen.level, gen.idx)]
    /\ trail' = Append(trail, [idx |-> gen'.idx, pos |-> Len(gen'.path)])
    /\ UNCHANGED <<pc, signer, input, fold, level, verdict, round>>

PathDone ==
    /\ pc = "path"
    /\ Len(gen.level) <= 1
    /\ pc' = "proved"
    /\ UNCHANGED <<signer, exporter, input, fold, level, verdict, round>>

-----------------------------------------------------------------------------
(* What the pack carries *)

Submit(who, p) ==
    /\ proof' = p
    /\ source' = who
    /\ pc' = "check"
    /\ UNCHANGED <<signer, exporter, fold, rows, level, verdict, round>>

(* The exporter's proof for a leaf of the batch, as generated. *)
SubmitOwn ==
    /\ pc = "proved"
    /\ gen.index < Len(leaves)
    /\ Submit("exporter", [leaf |-> leaves[gen.index + 1],
                           leaf_index |-> gen.index,
                           leaf_count |-> Len(leaves),
                           path |-> gen.path])

(* The generated path, attached to any row hash and position. *)
SubmitMoved(leaf, index, count) ==
    /\ pc = "proved"
    /\ \E path \in Padded(gen.path) :
          Submit("other", [leaf |-> leaf, leaf_index |-> index,
                           leaf_count |-> count, path |-> path])

(* Any proof at all, over nodes of the tree and digests from elsewhere. *)
SubmitOther(leaf, index, count) ==
    /\ pc = "signed"
    /\ \E n \in 0..MaxPath : \E path \in [1..n -> Nodes \cup Foreign] :
          Submit("other", [leaf |-> leaf, leaf_index |-> index,
                           leaf_count |-> count, path |-> path])

(* Rows for a full recompute. *)
SubmitRows(r) ==
    /\ pc = "signed"
    /\ rows' = r
    /\ source' = "rows"
    /\ pc' = "recheck"
    /\ UNCHANGED <<signer, exporter, proof, fold, level, verdict, round>>

-----------------------------------------------------------------------------
(* merkle_inclusion_verify *)

Answer(v) ==
    /\ verdict' = v
    /\ pc' = "done"

InRange == proof.leaf_count # 0 /\ proof.leaf_index < proof.leaf_count

VerifyOutOfRange ==
    /\ pc = "check"
    /\ ~InRange
    /\ Answer("reject")
    /\ UNCHANGED <<signer, exporter, input, fold, level, round>>

VerifyStart ==
    /\ pc = "check"
    /\ InRange
    /\ fold' = StartFold(proof.leaf, proof.leaf_index, proof.leaf_count)
    /\ pc' = "fold"
    /\ UNCHANGED <<signer, exporter, input, level, verdict, round>>

Looping == pc = "fold" /\ fold.count > 1

(* A left child without a right sibling climbs unchanged. *)
FoldPromote ==
    /\ Looping
    /\ IsPromoted(fold)
    /\ fold' = Climb(fold, fold.current, 0)
    /\ round' = round + 1
    /\ UNCHANGED <<pc, signer, exporter, input, level, verdict>>

(* Any other node is hashed with the next entry of the path. *)
FoldSibling ==
    /\ Looping
    /\ ~IsPromoted(fold)
    /\ HasNext(fold, proof.path)
    /\ fold' = Climb(fold, Combine(fold, proof.path), 1)
    /\ round' = round + 1
    /\ UNCHANGED <<pc, signer, exporter, input, level, verdict>>

(* Mutant of FoldMissing: a path that runs out is enough. *)
FoldMissingAccepted ==
    /\ Looping
    /\ ~IsPromoted(fold)
    /\ ~HasNext(fold, proof.path)
    /\ Answer("accept")
    /\ UNCHANGED <<signer, exporter, input, fold, level, round>>

(* The path ran out. *)
FoldMissing ==
    /\ Looping
    /\ ~IsPromoted(fold)
    /\ ~HasNext(fold, proof.path)
    /\ Answer("reject")
    /\ UNCHANGED <<signer, exporter, input, fold, level, round>>

FoldDone ==
    /\ pc = "fold"
    /\ fold.count <= 1
    /\ Answer(IF Lands(fold, proof.path, Root) THEN "accept" ELSE "reject")
    /\ UNCHANGED <<signer, exporter, input, fold, level, round>>

-----------------------------------------------------------------------------
(* sovereign_recompute_ok: an anchor without rows is refused, the row      *)
(* count is compared before any hashing, then merkle_root runs over the    *)
(* rows and its result is compared.                                        *)

RecomputeStart ==
    /\ pc = "recheck"
    /\ IF rows = <<>> \/ Len(rows) # Len(leaves)
         THEN Answer("reject") /\ UNCHANGED level
         ELSE /\ level' = LeafLevel(rows)
              /\ pc' = "recompute"
              /\ UNCHANGED verdict
    /\ UNCHANGED <<signer, exporter, input, fold, round>>

RecomputeLevel ==
    /\ pc = "recompute"
    /\ Len(level) > 1
    /\ level' = Parents(level)
    /\ round' = round + 1
    /\ UNCHANGED <<pc, signer, exporter, input, fold, verdict>>

RecomputeDone ==
    /\ pc = "recompute"
    /\ Len(level) <= 1
    /\ Answer(IF level[1] = Root THEN "accept" ELSE "reject")
    /\ UNCHANGED <<signer, exporter, input, fold, level, round>>

-----------------------------------------------------------------------------
Compute ==
    \/ RootLevel \/ RootDone
    \/ PathLevel \/ PathDone
    \/ VerifyOutOfRange \/ VerifyStart
    \/ FoldPromote \/ FoldSibling \/ FoldMissing \/ FoldDone
    \/ RecomputeStart \/ RecomputeLevel \/ RecomputeDone

Environment ==
    \/ \E index \in 0..Len(leaves) : PathStart(index)
    \/ SubmitOwn
    \/ \E leaf \in Leaf, count \in 0..MaxCount, index \in 0..MaxCount :
          SubmitMoved(leaf, index, count) \/ SubmitOther(leaf, index, count)
    \/ \E r \in Batch : SubmitRows(r)

Next == Compute \/ Environment

Spec == Init /\ [][Next]_vars

(* A call, once made, is executed; nothing obliges anyone to make one. *)
FairSpec == Spec /\ WF_vars(Compute)

-----------------------------------------------------------------------------
(* The shape of every variable: levels shrink by half, the path index and  *)
(* the fold's locals stay inside the tree and the path.                    *)
TypeOK ==
    /\ pc \in {"root", "signed", "path", "proved", "check", "fold", "recheck",
              "recompute", "done"}
    /\ source \in {"none", "exporter", "other", "rows"}
    /\ verdict \in {"none", "accept", "reject"}
    /\ leaves \in Batch
    /\ rows \in Batch \cup {<<>>}
    /\ Len(tower) >= 1
    /\ Len(tower[1]) = Len(leaves)
    /\ \A k \in 1..(Len(tower) - 1) :
          Len(tower[k]) > 1 /\ Len(tower[k+1]) = DivCeil2(Len(tower[k]))
    /\ pc # "root" => Len(Top) <= 1
    /\ gen.index \in Nat
    /\ pc \in {"path", "proved"} /\ gen.index < Len(leaves) => gen.idx < Len(gen.level)
    /\ pc = "fold" => /\ fold.index \in 0..(fold.count - 1)
                      /\ fold.path_pos \in 0..Len(proof.path)
    /\ pc = "recompute" => Len(level) = Len(tower[round + 1])
    /\ round \in Nat

ByProof  == source \in {"exporter", "other"}
Accepted == pc = "done" /\ verdict = "accept"
RangeOf(s) == {s[i] : i \in 1..Len(s)}

(* A proof accepted for the signed row count is about the row that really  *)
(* sits at the claimed position: no other row hash can take its place.     *)
InclusionBinds ==
    Accepted /\ ByProof /\ proof.leaf_count = Len(leaves) =>
        proof.leaf = leaves[proof.leaf_index + 1]

(* ... and its path is the audit path of that position, digest for digest. *)
InclusionPathUnique ==
    Accepted /\ ByProof /\ proof.leaf_count = Len(leaves) =>
        proof.path = MerkleAuditPath(leaves, proof.leaf_index)

(* Whatever leaf_count a proof claims, an accepted row is some row of the  *)
(* batch: an inner node of the tree never passes for a row.                *)
InclusionMember ==
    Accepted /\ ByProof => proof.leaf \in RangeOf(leaves)

(* The exporter's own proof is accepted, for every position and batch size *)
(* (the round trip merkle_audit_path promises in its comment).             *)
RoundTrip ==
    pc = "done" /\ source = "exporter" => verdict = "accept"

(* A full recompute accepts the batch that was signed, and nothing else:   *)
(* no dropped, added, altered or reordered row goes unnoticed.             *)
RecomputeExact ==
    pc = "done" /\ source = "rows" =>
        (verdict = "accept" <=> rows = leaves /\ rows # <<>>)

(* The loops, run one iteration at a time, return what the operators of    *)
(* Merkle say they return (the other modules use those operators).         *)
LoopsReturnFunctions ==
    /\ pc = "signed" => Root = MerkleRoot(leaves)
    /\ pc = "proved" => gen.path = MerkleAuditPath(leaves, gen.index)
    /\ pc = "done" /\ ByProof =>
          (verdict = "accept" <=>
              MerkleInclusionVerify(proof.leaf, proof.leaf_index,
                                    proof.leaf_count, proof.path, Root))

PowersOfTwo ==
    LET power[j \in Nat] == IF j = 0 THEN 1 ELSE 2 * power[j-1]
    IN  power

(* RFC 6962, 2.1: the tree over n leaves splits at the largest power of    *)
(* two smaller than n.                                                     *)
Split(n) ==
    CHOOSE k \in {PowersOfTwo[j] : j \in 0..n} : k < n /\ 2*k >= n

(* SubtreesOf(s)[n][lo] is the hash over the n leaves that follow the      *)
(* first lo ones.                                                          *)
SubtreesOf(s) ==
    LET subtree[n \in Nat \ {0}] ==
            [lo \in Nat |->
                IF n = 1 THEN LeafHash(s[lo + 1])
                ELSE NodeHash(subtree[Split(n)][lo],
                              subtree[n - Split(n)][lo + Split(n)])]
    IN  subtree

RFC6962Root(s) == IF s = <<>> THEN Sha256(<<>>) ELSE SubtreesOf(s)[Len(s)][0]

(* merkle_root's level-by-level pairing with lone-node promotion builds    *)
(* the tree of RFC 6962, which defines it top down.                        *)
RootIsRFC6962 ==
    pc = "signed" => Root = RFC6962Root(leaves)

(* Every call of the three functions returns: no index or count gets stuck *)
(* above one.                                                              *)
CallsReturn ==
    /\ pc = "root" ~> pc = "signed"
    /\ pc = "path" ~> pc = "proved"
    /\ pc \in {"check", "recheck"} ~> pc = "done"
=============================================================================
