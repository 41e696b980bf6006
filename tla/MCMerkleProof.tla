---------------------------- MODULE MCMerkleProof ----------------------------
(* Small instances of MerkleProof. *)
EXTENDS MerkleProof

CONSTANTS a, b, z

(* Proofs from anywhere: every tree shape up to four leaves, repeated rows *)
(* included.  z is a row the signer never saw, LeafHash(a) a digest of the *)
(* tree where a row hash belongs.                                          *)
SmallLeaf  == {a, b, z, LeafHash(a)}
SmallBatch == {<<>>, <<a>>, <<a, b>>, <<b, a>>, <<a, a, b>>, <<a, b, a>>,
               <<a, b, b, a>>}
SmallForeign == {LeafHash(z)}

(* The exporter's own proofs: distinct rows, up to nine of them; and for   *)
(* the recompute every batch of up to five over two rows, against every    *)
(* other.                                                                  *)
Row(i) == [row |-> i]
HonestLeaf  == {a, b} \cup {Row(i) : i \in 1..9}
HonestBatch == UNION {[1..n -> {a, b}] : n \in 0..5}
               \cup {[i \in 1..n |-> Row(i)] : n \in 1..9}
NoForeign == {}
=============================================================================
