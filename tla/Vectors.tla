------------------------------- MODULE Vectors -------------------------------
(***************************************************************************)
(* The golden vectors of the repository, as examples/make_test_vectors.rs  *)
(* builds them; vectors/README.md says which checks each of them fails.    *)
(***************************************************************************)
EXTENDS Export

CONSTANTS Other,        \* another tenant
          Stray         \* a value that decodes but is not the right one

Entry(tenant, n) == [id |-> n, tenant |-> tenant, created_at |-> n, signed |-> TRUE]

(* Three rows of the tenant between two of another, and two of its own     *)
(* batch.                                                                  *)
FleetBatch == <<Entry(TenantId, 1), Entry(Other, 4), Entry(TenantId, 2),
                Entry(Other, 5), Entry(TenantId, 3)>>
SovereignBatch == <<Entry(TenantId, 6), Entry(TenantId, 7)>>

fleet_leaves  == Leaves(FleetBatch)
fleet_rows    == [i \in 1..3 |->
    MakeRow(FleetBatch[2*i - 1], 100, "fleet", ProofFor(fleet_leaves, 2*(i-1)))]
sovereign_rows == [i \in 1..2 |-> MakeRow(SovereignBatch[i], 200, OwnChain, None)]
fleet_anchor  == MakeAnchor(100, "fleet", 1, 5, fleet_leaves, None)
tenant_anchor == MakeAnchor(200, OwnChain, 6, 7, Leaves(SovereignBatch), None)

base == SealedPack(Records(<<>>, fleet_rows \o sovereign_rows,
                           <<fleet_anchor, tenant_anchor>>), HandoffAt(5))

(* examples/make_demo_pack.rs writes the same records as sample/: other     *)
(* keys and request ids, which the model does not tell apart.              *)
demo_pack == base

(* Positions in base (the generator's indices are 0-based). *)
signing_keys_idx    == 2
first_fleet_row     == 3
first_sovereign_row == 6
fleet_anchor_idx    == 8
tenant_anchor_idx   == 9
manifest_idx        == 10

At(i) == base[i].body
Edit(i, body_) == [base EXCEPT ![i].body = body_]

valid == base
truncated == SubSeq(base, 1, manifest_idx - 1)
integrity_row_payload ==
    Edit(first_sovereign_row, [At(first_sovereign_row) EXCEPT !.payload = Stray])
row_signature ==
    Edit(first_sovereign_row, [At(first_sovereign_row) EXCEPT !.signature = Stray])
anchor_signature ==
    Edit(tenant_anchor_idx, [At(tenant_anchor_idx) EXCEPT !.signature = Stray])
sovereign_root ==
    Edit(tenant_anchor_idx,
         Resign([At(tenant_anchor_idx) EXCEPT !.merkle_root = Stray]))
fleet_inclusion ==
    Edit(first_fleet_row,
         [At(first_fleet_row) EXCEPT !.inclusion_proof.path[1] = Stray])
coverage_missing_anchor ==
    RemoveAt(Edit(manifest_idx, [At(manifest_idx) EXCEPT !.counts.anchors = 1]),
             fleet_anchor_idx)

(* The conformance table: what each file fails. *)
Table ==
    {<<valid, {}>>,
     <<truncated, {"structure.manifest_terminal"}>>,
     <<integrity_row_payload, {"row_integrity"}>>,
     <<row_signature, {"row_signature"}>>,
     <<anchor_signature, {"anchor_signature"}>>,
     <<sovereign_root, {"sovereign_recompute"}>>,
     <<fleet_inclusion, {"fleet_inclusion"}>>,
     <<coverage_missing_anchor, {"coverage", "fleet_inclusion"}>>}

(* The tests' pack with the CNSA 2.0 key on the fleet anchor. *)
ml_dsa_87 ==
    [base EXCEPT ![signing_keys_idx].body.keys[2].sig_alg = "ML-DSA-87",
                 ![fleet_anchor_idx].body =
                     Resign([At(fleet_anchor_idx) EXCEPT !.sig_alg = "ML-DSA-87"])]

(* The tamper tests that have no vector: the check each must fail.         *)
tampered_row_payload ==
    Edit(first_fleet_row, [At(first_fleet_row) EXCEPT !.payload = Stray])
corrupted_row_signature ==
    Edit(first_fleet_row, [At(first_fleet_row) EXCEPT !.signature = Stray])
corrupted_anchor_signature ==
    Edit(fleet_anchor_idx, [At(fleet_anchor_idx) EXCEPT !.signature = Stray])
broken_seam ==
    Edit(manifest_idx, [At(manifest_idx) EXCEPT !.genesis_handoff.handoff_cursor_id = 6])
widened_anchor ==
    [ml_dsa_87 EXCEPT ![fleet_anchor_idx].body.to_id = 6]
unknown_sig_alg ==
    Edit(fleet_anchor_idx, [At(fleet_anchor_idx) EXCEPT !.sig_alg = "FALCON-1024"])
miscounted_manifest ==
    Edit(manifest_idx, [At(manifest_idx) EXCEPT !.counts.ai_audit = 99])

Tests ==
    {<<tampered_row_payload, "row_integrity">>,
     <<corrupted_row_signature, "row_signature">>,
     <<corrupted_anchor_signature, "anchor_signature">>,
     <<broken_seam, "genesis_seam">>,
     <<widened_anchor, "anchor_signature">>,
     <<unknown_sig_alg, "anchor_signature">>,
     <<miscounted_manifest, "structure.counts">>}

(* What the documents say of lines no vector has: an admin row is only     *)
(* counted, a record of a newer kind and blank lines are passed over, a    *)
(* malformed line is a failed finding, and the manifest is the last record.*)
admin_row ==
    InsertAt(Edit(manifest_idx, [At(manifest_idx) EXCEPT !.counts.audit = 1]),
             first_fleet_row, Line("audit", None))
newer_record == InsertAt(base, first_fleet_row, Line("other", None))
blank_line   == Append(base, Line("blank", None))
malformed_line    == InsertAt(base, first_fleet_row, Line("malformed", None))
record_after_manifest == Append(base, Line("other", None))

OtherLines ==
    {<<admin_row, {}>>, <<newer_record, {}>>, <<blank_line, {}>>,
     <<malformed_line, {"structure.parse"}>>,
     <<record_after_manifest, {"structure.manifest_terminal"}>>}

(* Packs the documents and the tests say pass.                             *)
Passing == {<<demo_pack, {}>>, <<ml_dsa_87, {}>>}

GoldenPacks == {row[1] : row \in Table \cup Tests \cup OtherLines \cup Passing}

=============================================================================
