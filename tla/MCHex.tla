-------------------------------- MODULE MCHex --------------------------------
(* An instance of Hex: the bytes at the ends of the three digit ranges and *)
(* next to them, the last letters of both cases, and a byte past ASCII.    *)
EXTENDS Hex

Boundary == {47, 48, 57, 58, 64, 65, 70, 71, 90, 96, 97, 102, 103, 195}
Few      == {48, 57, 65, 70, 97, 102, 103}
MCTexts  == UNION {[1..n -> Boundary] : n \in 0..2} \cup UNION {[1..n -> Few] : n \in 3..4}

(* 00, 09, 0a, 0f, 90, 9a, a0, af, ff *)
MCBytes   == {0, 9, 10, 15, 144, 154, 160, 175, 255}
MCDigests == UNION {[1..n -> MCBytes] : n \in 0..2}
=============================================================================
