-------------------------------- MODULE Pack --------------------------------
(***************************************************************************)
(* The v2 record format (src/pack.rs), the signatures in it (src/crypto.rs)*)
(* and the projection of an anchor that is signed (src/canonical.rs).      *)
(*                                                                         *)
(* A pack is a sequence of lines [kind, body].  A digest written in hex is *)
(* the digest; text that does not decode to what its field needs is        *)
(* NotHex.  A signature is the record of what was signed, by which key,    *)
(* under which scheme: it verifies exactly when these three agree.         *)
(***************************************************************************)
EXTENDS Merkle, FiniteSets, FiniteSetsExt, SequencesExt

CONSTANTS
    TenantChain,    \* chain labels that start with "tenant:"
    None,           \* an absent optional field
    NotHex,         \* hex text that does not decode
    MaxInt,         \* the largest i64
    OverflowChecks  \* of the build: on in dev, off in release (Cargo.toml)

ASSUME LabelAssumption == "fleet" \notin TenantChain
ASSUME WidthAssumption == MaxInt \in Nat \ {0} /\ OverflowChecks \in BOOLEAN

MinInt == -MaxInt - 1

(* What 64 bits keep of an integer: the value of an i64 sum in a build     *)
(* without overflow checks, and of a cast in every build.                  *)
I64(n) == MinInt + ((n - MinInt) % (MaxInt - MinInt + 1))

(* An i64 sum ends the program in a build with overflow checks. *)
Overflows(n) == OverflowChecks /\ n \notin MinInt..MaxInt

KnownAlg == {"ed25519", "ES256", "ML-DSA-87"}

Sign(alg, key, message) == [alg |-> alg, key |-> key, over |-> message]

(* Mutant of SignatureValid: an unknown scheme is let through. *)
SignatureValidOpen(alg, key, message, signature) ==
    alg \in KnownAlg => signature = Sign(alg, key, message)

SignatureValid(alg, key, message, signature) ==
    /\ alg \in KnownAlg
    /\ key # NotHex
    /\ signature # NotHex
    /\ signature = Sign(alg, key, message)

ANCHOR_PAYLOAD_VERSION == 1

(* Mutant of AnchorPayloadHash: the end of the range is not signed. *)
AnchorPayloadHashOpenEnd(a) ==
    Sha256(<<ANCHOR_PAYLOAD_VERSION, a.from_id, a.row_count,
             a.merkle_root, a.prev_anchor_id, a.prev_root>>)

(* What an anchor signature is over: neither the anchor's id nor its chain. *)
AnchorPayloadHash(a) ==
    Sha256(<<ANCHOR_PAYLOAD_VERSION, a.from_id, a.to_id, a.row_count,
             a.merkle_root, a.prev_anchor_id, a.prev_root>>)

OnTenantChain(label) == label \in TenantChain

(* The entries of a list that pass a test, in a strict order; those it does *)
(* not tell apart stay in the order of the list.  The k-th is the one that  *)
(* k - 1 others come before.  (TLC evaluates a concatenation at once.)      *)
Arranged(s, Test(_), Before(_, _)) ==
    [k \in 1..Cardinality({i \in DOMAIN s : Test(s[i])}) |->
        s[CHOOSE i \in DOMAIN s :
            /\ Test(s[i])
            /\ k = 1 + Cardinality({j \in DOMAIN s :
                   /\ Test(s[j])
                   /\ \/ Before(s[j], s[i])
                      \/ ~Before(s[i], s[j]) /\ j < i})]] \o <<>>

Selected(s, Test(_)) == Arranged(s, Test, LAMBDA x, y : FALSE)

(* sort_by: stable, Before is the strict order of the sort key. *)
Sorted(s, Before(_, _)) == Arranged(s, LAMBDA x : TRUE, Before)

(* A HashMap collected from a list: the last entry with a key wins. *)
LastWith(s, P(_)) ==
    LET I == {i \in DOMAIN s : P(s[i])}
    IN  IF I = {} THEN None ELSE s[Max(I)]

(* The exporter's leaf order. *)
LeafBefore(x, y) ==
    \/ x.created_at < y.created_at
    \/ x.created_at = y.created_at /\ x.id < y.id

InLeafOrder(rows) == Sorted(rows, LeafBefore)

PayloadHashes(rows) == [i \in DOMAIN rows |-> rows[i].payload_hash]
=============================================================================
