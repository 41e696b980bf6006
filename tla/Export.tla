------------------------------- MODULE Export -------------------------------
(***************************************************************************)
(* How a pack comes to be: the records examples/make_test_vectors.rs signs *)
(* and writes.  The gateway that exports real packs is not in this         *)
(* repository; this generator is the repository's own account of it, and   *)
(* builds its records with the verifier's crypto and canonical modules.    *)
(***************************************************************************)
EXTENDS Damage

CONSTANTS
    TenantId,                       \* whose pack it is
    OwnChain,                       \* the label of its sovereign chain
    RowKey, FleetKey, TenantKey     \* public keys

ASSUME OwnChainAssumption == OwnChain \in TenantChain

(* A prefix of the hash of the public key, taken to tell keys apart. *)
KeyId(key) == Sha256(key)

KeyEntry(key, sig_alg, usage, key_origin) ==
    [key_id |-> KeyId(key), sig_alg |-> sig_alg, usage |-> usage,
     key_origin |-> key_origin, public_key_hex |-> key]

SigningKeys == <<KeyEntry(RowKey, "ed25519", "row", "fleet"),
                 KeyEntry(FleetKey, "ed25519", "anchor", "fleet"),
                 KeyEntry(TenantKey, "ES256", "anchor", "managed")>>

(* An exported row.  e is what was logged: [id, tenant, created_at,        *)
(* signed]; the payload embeds a unique request id.                        *)
Payload(e) == <<e.tenant, e.id>>

MakeRow(e, anchor_id, chain, proof) ==
    LET hash    == Sha256(Payload(e))
        Given(x) == IF e.signed THEN x ELSE None
    IN  [id |-> e.id, created_at |-> e.created_at,
         payload |-> Payload(e), payload_hash |-> hash,
         signature |-> Given(Sign("ed25519", RowKey, hash)),
         signing_key_id |-> Given(KeyId(RowKey)), sig_alg |-> Given("ed25519"),
         signed |-> e.signed,
         covered_by |-> [anchor_id |-> anchor_id, chain |-> chain],
         inclusion_proof |-> proof]

Leaves(rows) == [i \in DOMAIN rows |-> Sha256(Payload(rows[i]))]

(* The inclusion proof of the row at 0-based leaf_index. *)
ProofFor(leaves, leaf_index) ==
    [leaf_index |-> leaf_index, leaf_count |-> Len(leaves),
     path |-> MerkleAuditPath(leaves, leaf_index)]

(* (Re)sign an anchor's fields as they stand, with its chain's key. *)
AnchorKey(chain) == IF chain = "fleet" THEN FleetKey ELSE TenantKey
AnchorAlg(chain) == IF chain = "fleet" THEN "ed25519" ELSE "ES256"

Resign(a) ==
    [a EXCEPT !.signature =
        Sign(a.sig_alg, AnchorKey(a.chain), AnchorPayloadHash(a))]

(* prev is the anchor before this one on the chain, or None. *)
MakeAnchor(id, chain, from_id, to_id, leaves, prev) ==
    Resign([id |-> id, chain |-> chain, from_id |-> from_id, to_id |-> to_id,
            row_count |-> Len(leaves), merkle_root |-> MerkleRoot(leaves),
            prev_anchor_id |-> IF prev = None THEN None ELSE prev.id,
            prev_root |-> IF prev = None THEN None ELSE prev.merkle_root,
            signature |-> None, signing_key_id |-> KeyId(AnchorKey(chain)),
            sig_alg |-> AnchorAlg(chain)])

-----------------------------------------------------------------------------
(* The file *)

Lines(kind, bodies) == [i \in DOMAIN bodies |-> Line(kind, bodies[i])]

Header == [format_version |-> 2, tenant_id |-> TenantId]

(* Everything but the manifest, in file order. *)
Records(audits, rows, anchors_) ==
    <<Line("header", Header), Line("signing_keys", [keys |-> SigningKeys])>>
        \o Lines("audit", audits) \o Lines("ai_audit", rows)
        \o Lines("anchor", anchors_)

Count(lines, P(_)) == Cardinality({i \in DOMAIN lines : P(lines[i])})

(* The manifest counts what the exporter has written so far. *)
ManifestOf(lines, handoff) ==
    [format_version |-> 2, tenant_id |-> TenantId,
     counts |-> [audit     |-> Count(lines, LAMBDA l : l.kind = "audit"),
                 ai_audit  |-> Count(lines, LAMBDA l : l.kind = "ai_audit"),
                 ai_signed |-> Count(lines, LAMBDA l :
                                   l.kind = "ai_audit" /\ l.body.signed),
                 anchors   |-> Count(lines, LAMBDA l : l.kind = "anchor")],
     signing_key_ids |-> {KeyId(FleetKey), KeyId(TenantKey)},
     genesis_handoff |-> handoff]

HandoffAt(cursor) ==
    [handoff_cursor_id |-> cursor, sovereign_first_from_id |-> cursor + 1]

SealedPack(lines, handoff) ==
    Append(lines, Line("manifest", ManifestOf(lines, handoff)))
=============================================================================
