------------------------------ MODULE PackVerify ------------------------------
(***************************************************************************)
(* verify() of src/verify.rs: the verifier of v2 (Merkle) evidence packs.  *)
(* One action per record kind of the parse loop, then one action per       *)
(* check, in the order of the code; each check appends its finding.        *)
(*                                                                         *)
(* A finding keeps the name of its check and its outcome; the detail text  *)
(* is left out.                                                            *)
(***************************************************************************)
EXTENDS Pack

CONSTANT Packs      \* the packs the verifier may be handed

(* A text is a sequence of lines, a signing_keys record holds one of keys, *)
(* and a header and a manifest are records.                                *)
IsText(p) ==
    /\ Len(p) \in Nat /\ DOMAIN p = 1..Len(p)
    /\ \A i \in DOMAIN p :
          /\ p[i].kind = "signing_keys" =>
                p[i].body.keys \in Seq(Range(p[i].body.keys))
          /\ p[i].kind \in {"header", "manifest"} => p[i].body # None

ASSUME PacksAssumption == \A p \in Packs : IsText(p)

VARIABLES
    pc,                 \* idle, parse, the check to run next, report or panic
    pack,               \* the lines handed to the verifier
    line,               \* the next line to read
    header,             \* locals of verify()
    keys, ai, anchors, manifest, audit_count, parse_errors, last_was_manifest,
    findings            \* report.findings

loaded == <<header, keys, ai, anchors, manifest, audit_count, parse_errors,
            last_was_manifest>>
vars   == <<pc, pack, line, loaded, findings>>

-----------------------------------------------------------------------------
(* Collections the checks look things up in *)

KeyById(kid)    == LastWith(keys, LAMBDA k : k.key_id = kid)
AnchorById(id)  == LastWith(anchors, LAMBDA a : a.id = id)
RowsByAnchor(id) == Selected(ai, LAMBDA r : r.covered_by.anchor_id = id)

-----------------------------------------------------------------------------
(* Per-item checks *)

KeyWellFormed(k) ==
    /\ k.usage \in {"row", "anchor"}
    /\ k.key_origin \in {"fleet", "customer", "managed"}
    /\ k.public_key_hex # NotHex

(* Mutant of RowIntegrityOK: the recorded hash is believed. *)
RowIntegrityBelieved(r) == r.payload_hash # NotHex

RowIntegrityOK(r) == r.payload_hash = Sha256(r.payload)

RowSignatureOK(r) ==
    LET key == KeyById(r.signing_key_id)
    IN  /\ r.signature # None
        /\ r.signing_key_id # None
        /\ key # None
        /\ r.payload_hash # NotHex
        /\ SignatureValid(IF r.sig_alg = None THEN key.sig_alg ELSE r.sig_alg,
                          key.public_key_hex, r.payload_hash, r.signature)

AnchorSignatureOK(a) ==
    LET key == KeyById(a.signing_key_id)
    IN  /\ key # None
        /\ SignatureValid(a.sig_alg, key.public_key_hex,
                          AnchorPayloadHash(a), a.signature)

(* An empty signing_key_ids list does not constrain the anchors. *)
Listed(a) ==
    manifest # None /\ manifest.signing_key_ids # {} =>
        a.signing_key_id \in manifest.signing_key_ids

(* Mutants of SovereignRecomputeOK: rows hashed in file order; the root    *)
(* not compared; only genesis anchors recomputed.                          *)
SovereignRecomputeInFileOrder(a) ==
    /\ RowsByAnchor(a.id) # <<>>
    /\ Len(RowsByAnchor(a.id)) = a.row_count
    /\ MerkleRoot(PayloadHashes(RowsByAnchor(a.id))) = a.merkle_root
SovereignRecomputeCountOnly(a) ==
    RowsByAnchor(a.id) # <<>> /\ Len(RowsByAnchor(a.id)) = a.row_count
SovereignRecomputeGenesisOnly(a) ==
    a.prev_anchor_id = None =>
        MerkleRoot(PayloadHashes(InLeafOrder(RowsByAnchor(a.id)))) = a.merkle_root

SovereignRecomputeOK(a) ==
    LET rows == RowsByAnchor(a.id)
    IN  /\ rows # <<>>
        /\ Len(rows) = a.row_count
        /\ \A i \in DOMAIN rows : rows[i].payload_hash # NotHex
        /\ MerkleRoot(PayloadHashes(InLeafOrder(rows))) = a.merkle_root

(* Mutants of FleetInclusionOK: a row without a proof is let through; the  *)
(* proof is not folded.                                                    *)
FleetInclusionOptional(r) ==
    r.inclusion_proof # None =>
        LET anchor == AnchorById(r.covered_by.anchor_id)
            proof  == r.inclusion_proof
        IN  /\ anchor # None
            /\ I64(proof.leaf_count) = anchor.row_count
            /\ MerkleInclusionVerify(r.payload_hash, proof.leaf_index,
                                     proof.leaf_count, proof.path, anchor.merkle_root)
FleetInclusionCountOnly(r) ==
    /\ AnchorById(r.covered_by.anchor_id) # None
    /\ r.inclusion_proof # None
    /\ I64(r.inclusion_proof.leaf_count) = AnchorById(r.covered_by.anchor_id).row_count

FleetInclusionOK(r) ==
    LET anchor == AnchorById(r.covered_by.anchor_id)
        proof  == r.inclusion_proof
    IN  /\ anchor # None
        /\ proof # None
        /\ I64(proof.leaf_count) = anchor.row_count
        /\ r.payload_hash # NotHex
        /\ anchor.merkle_root # NotHex
        /\ \A i \in DOMAIN proof.path : proof.path[i] # NotHex
        /\ MerkleInclusionVerify(r.payload_hash, proof.leaf_index,
                                 proof.leaf_count, proof.path, anchor.merkle_root)

(* The anchors of one chain, by id; each but the first links to the one    *)
(* before it.  The first may link to an anchor outside the pack.           *)
Chain(label) ==
    Arranged(anchors, LAMBDA a : a.chain = label, LAMBDA x, y : x.id < y.id)

(* Mutant of LinksTo: some link is enough. *)
LinksSomewhere(a, prev) == a.prev_anchor_id # None /\ a.prev_root # None

LinksTo(a, prev) ==
    /\ a.prev_anchor_id = prev.id
    /\ a.prev_root # None
    /\ a.prev_root = prev.merkle_root

ChainLinks(label) ==
    \A i \in 2..Len(Chain(label)) : LinksTo(Chain(label)[i], Chain(label)[i-1])

(* Mutant of SeamOK: where the tenant chain starts is not checked. *)
SeamLabelsOnly(handoff) ==
    \A i \in DOMAIN ai :
        IF ai[i].id <= handoff.handoff_cursor_id
          THEN ai[i].covered_by.chain = "fleet"
          ELSE OnTenantChain(ai[i].covered_by.chain)

Sovereign == {a.from_id : a \in {x \in Range(anchors) : OnTenantChain(x.chain)}}

SeamOK(handoff) ==
    /\ \A i \in DOMAIN ai :
          IF ai[i].id <= handoff.handoff_cursor_id
            THEN ai[i].covered_by.chain = "fleet"
            ELSE OnTenantChain(ai[i].covered_by.chain)
    /\ Sovereign # {}
    /\ Min(Sovereign) = handoff.sovereign_first_from_id
    /\ Min(Sovereign) = I64(handoff.handoff_cursor_id + 1)

(* The row after the cursor, wanted whenever there is a tenant anchor. *)
SeamOverflows(handoff) ==
    Sovereign # {} /\ Overflows(handoff.handoff_cursor_id + 1)

Signed == {i \in DOMAIN ai : ai[i].signed}

(* Mutant of CountsOK: signed rows and anchors are counted, rows are not. *)
CountsWithoutRows ==
    /\ manifest.counts.anchors   = Len(anchors)
    /\ manifest.counts.audit     = audit_count
    /\ manifest.counts.ai_signed = Cardinality(Signed)

CountsOK ==
    /\ manifest.counts.ai_audit  = Len(ai)
    /\ manifest.counts.anchors   = Len(anchors)
    /\ manifest.counts.audit     = audit_count
    /\ manifest.counts.ai_signed = Cardinality(Signed)

SameIdentity ==
    header.tenant_id = manifest.tenant_id /\ manifest.format_version = 2

RowsIntact        == \A i \in DOMAIN ai : RowIntegrityOK(ai[i])
SignedRowsVerify  == \A i \in DOMAIN ai : ai[i].signed => RowSignatureOK(ai[i])
AnchorsVerify     == \A i \in DOMAIN anchors :
                         AnchorSignatureOK(anchors[i]) /\ Listed(anchors[i])
FleetRowsIncluded == \A i \in DOMAIN ai :
                         ai[i].covered_by.chain = "fleet" => FleetInclusionOK(ai[i])
RowsCovered       == \A i \in DOMAIN ai :
                         AnchorById(ai[i].covered_by.anchor_id) # None

-----------------------------------------------------------------------------
Init ==
    /\ pc = "idle"
    /\ pack = <<>>
    /\ line = 1
    /\ header = None
    /\ keys = <<>> /\ ai = <<>> /\ anchors = <<>>
    /\ manifest = None
    /\ audit_count = 0 /\ parse_errors = 0
    /\ last_was_manifest = FALSE
    /\ findings = <<>>

(* A call of verify(). *)
Submit(p) ==
    /\ pc = "idle"
    /\ pc' = "parse"
    /\ pack' = p
    /\ UNCHANGED <<line, loaded, findings>>

-----------------------------------------------------------------------------
(* The parse loop: one line per step *)

AtLine(kind) ==
    /\ pc = "parse"
    /\ line <= Len(pack)
    /\ pack[line].kind = kind
    /\ line' = line + 1
    /\ UNCHANGED <<pc, pack, findings>>

body == pack[line].body

(* A blank line is skipped before it can touch last_was_manifest. *)
ReadBlank ==
    AtLine("blank") /\ UNCHANGED loaded

(* The first header counts, later ones are ignored. *)
ReadHeader ==
    /\ AtLine("header")
    /\ header' = IF header = None THEN body ELSE header
    /\ last_was_manifest' = FALSE
    /\ UNCHANGED <<keys, ai, anchors, manifest, audit_count, parse_errors>>

ReadSigningKeys ==
    /\ AtLine("signing_keys")
    /\ keys' = keys \o body.keys
    /\ last_was_manifest' = FALSE
    /\ UNCHANGED <<header, ai, anchors, manifest, audit_count, parse_errors>>

ReadAudit ==
    /\ AtLine("audit")
    /\ audit_count' = audit_count + 1
    /\ last_was_manifest' = FALSE
    /\ UNCHANGED <<header, keys, ai, anchors, manifest, parse_errors>>

(* Mutant of ReadAiAudit: a row is stored twice. *)
ReadAiAuditTwice ==
    /\ AtLine("ai_audit")
    /\ ai' = ai \o <<body, body>>
    /\ last_was_manifest' = FALSE
    /\ UNCHANGED <<header, keys, anchors, manifest, audit_count, parse_errors>>

ReadAiAudit ==
    /\ AtLine("ai_audit")
    /\ ai' = Append(ai, body)
    /\ last_was_manifest' = FALSE
    /\ UNCHANGED <<header, keys, anchors, manifest, audit_count, parse_errors>>

ReadAnchor ==
    /\ AtLine("anchor")
    /\ anchors' = Append(anchors, body)
    /\ last_was_manifest' = FALSE
    /\ UNCHANGED <<header, keys, ai, manifest, audit_count, parse_errors>>

(* The last manifest counts. *)
ReadManifest ==
    /\ AtLine("manifest")
    /\ manifest' = body
    /\ last_was_manifest' = TRUE
    /\ UNCHANGED <<header, keys, ai, anchors, audit_count, parse_errors>>

(* Mutant of ReadOther: a newer record is a malformed line. *)
ReadOtherMalformed ==
    /\ AtLine("other")
    /\ parse_errors' = parse_errors + 1
    /\ last_was_manifest' = FALSE
    /\ UNCHANGED <<header, keys, ai, anchors, manifest, audit_count>>

(* A record kind this version predates. *)
ReadOther ==
    /\ AtLine("other")
    /\ last_was_manifest' = FALSE
    /\ UNCHANGED <<header, keys, ai, anchors, manifest, audit_count, parse_errors>>

ReadMalformed ==
    /\ AtLine("malformed")
    /\ parse_errors' = parse_errors + 1
    /\ last_was_manifest' = FALSE
    /\ UNCHANGED <<header, keys, ai, anchors, manifest, audit_count>>

ParseDone ==
    /\ pc = "parse"
    /\ line > Len(pack)
    /\ pc' = "structure.parse"
    /\ UNCHANGED <<pack, line, loaded, findings>>

Parse ==
    \/ ReadBlank \/ ReadHeader \/ ReadSigningKeys \/ ReadAudit \/ ReadAiAudit
    \/ ReadAnchor \/ ReadManifest \/ ReadOther \/ ReadMalformed \/ ParseDone

-----------------------------------------------------------------------------
(* The checks *)

(* report.record(check, ok, _), then on to the next check. *)
Record(check, ok, next) ==
    /\ pc = check
    /\ findings' = Append(findings, [check |-> check, ok |-> ok])
    /\ pc' = next
    /\ UNCHANGED <<pack, line, loaded>>

(* A check the code leaves out of the report, or never finishes. *)
Skip(check, next) ==
    /\ pc = check
    /\ pc' = next
    /\ UNCHANGED <<pack, line, loaded, findings>>

CheckParse ==
    Record("structure.parse", parse_errors = 0, "structure.header")

CheckHeader ==
    Record("structure.header", header # None /\ header.format_version = 2,
           "structure.manifest_terminal")

(* Mutant of CheckManifestTerminal: a manifest anywhere will do. *)
CheckManifestAnywhere ==
    Record("structure.manifest_terminal", manifest # None, "structure.counts")

CheckManifestTerminal ==
    Record("structure.manifest_terminal", manifest # None /\ last_was_manifest,
           "structure.counts")

CheckCounts ==
    IF manifest # None
      THEN Record("structure.counts", CountsOK, "structure.identity")
      ELSE Skip("structure.counts", "structure.identity")

CheckIdentity ==
    IF header # None /\ manifest # None
      THEN Record("structure.identity", SameIdentity, "signing_keys")
      ELSE Skip("structure.identity", "signing_keys")

CheckSigningKeys ==
    Record("signing_keys", \A i \in DOMAIN keys : KeyWellFormed(keys[i]),
           "row_integrity")

CheckRowIntegrity ==
    Record("row_integrity", RowsIntact, "row_signature")

CheckRowSignature ==
    Record("row_signature", SignedRowsVerify, "anchor_signature")

CheckAnchorSignature ==
    Record("anchor_signature", AnchorsVerify, "sovereign_recompute")

CheckSovereignRecompute ==
    Record("sovereign_recompute",
           \A i \in DOMAIN anchors :
               OnTenantChain(anchors[i].chain) => SovereignRecomputeOK(anchors[i]),
           "fleet_inclusion")

(* Mutant of CheckFleetInclusion: left out of a report without fleet rows. *)
CheckFleetInclusionIfAny ==
    IF \E i \in DOMAIN ai : ai[i].covered_by.chain = "fleet"
      THEN Record("fleet_inclusion", FleetRowsIncluded, "chain_continuity")
      ELSE Skip("fleet_inclusion", "chain_continuity")

CheckFleetInclusion ==
    Record("fleet_inclusion", FleetRowsIncluded, "chain_continuity")

CheckContinuity ==
    Record("chain_continuity",
           \A label \in {anchors[i].chain : i \in DOMAIN anchors} : ChainLinks(label),
           "genesis_seam")

CheckSeam ==
    LET handoff == IF manifest = None THEN None ELSE manifest.genesis_handoff
    IN  IF handoff # None /\ SeamOverflows(handoff)
          THEN Skip("genesis_seam", "panic")
          ELSE Record("genesis_seam", handoff # None => SeamOK(handoff), "coverage")

CheckCoverage ==
    Record("coverage", RowsCovered, "report")

Check ==
    \/ CheckParse \/ CheckHeader \/ CheckManifestTerminal \/ CheckCounts
    \/ CheckIdentity \/ CheckSigningKeys \/ CheckRowIntegrity \/ CheckRowSignature
    \/ CheckAnchorSignature \/ CheckSovereignRecompute \/ CheckFleetInclusion
    \/ CheckContinuity \/ CheckSeam \/ CheckCoverage

(* Report::passed *)
Passed ==
    findings # <<>> /\ \A i \in DOMAIN findings : findings[i].ok

-----------------------------------------------------------------------------
Verify == Parse \/ Check
Next   == Verify \/ \E p \in Packs : Submit(p)

Spec == Init /\ [][Next]_vars

-----------------------------------------------------------------------------
(* Properties *)

CheckNames ==
    <<"structure.parse", "structure.header", "structure.manifest_terminal",
      "structure.counts", "structure.identity", "signing_keys", "row_integrity",
      "row_signature", "anchor_signature", "sovereign_recompute",
      "fleet_inclusion", "chain_continuity", "genesis_seam", "coverage">>

(* The locals hold no more than the lines read so far, and a manifest that *)
(* is the last line is a manifest.                                         *)
TypeOK ==
    /\ pc \in {"idle", "parse", "report", "panic"} \cup Range(CheckNames)
    /\ line \in 1..(Len(pack) + 1)
    /\ audit_count + parse_errors + Len(ai) + Len(anchors) \in 0..(line - 1)
    /\ last_was_manifest \in BOOLEAN
    /\ last_was_manifest => manifest # None
    /\ \A k \in DOMAIN findings :
          findings[k].check \in Range(CheckNames) /\ findings[k].ok \in BOOLEAN

LinesOf(kind)  == {i \in DOMAIN pack : pack[i].kind = kind}
Bodies(kind)   == {pack[i].body : i \in LinesOf(kind)}
DeclaredKeys   == UNION {Range(b.keys) : b \in Bodies("signing_keys")}
RowLinesUnder(id) ==
    Selected(pack, LAMBDA l : l.kind = "ai_audit" /\ l.body.covered_by.anchor_id = id)

Accepted == pc = "report" /\ Passed

(* PASS means the text is whole (README.md:17-18): every line parses, some *)
(* line is a v2 header, and the last line that is not blank is a manifest  *)
(* for the same tenant whose counts are the numbers of lines of the text.  *)
PassIsComplete ==
    Accepted =>
        /\ LinesOf("malformed") = {}
        /\ \E h \in Bodies("header"), i \in LinesOf("manifest") :
              LET m == pack[i].body
              IN  /\ \A j \in DOMAIN pack : j > i => pack[j].kind = "blank"
                  /\ h.format_version = 2 /\ h.tenant_id = m.tenant_id
                  /\ m.counts.audit     = Cardinality(LinesOf("audit"))
                  /\ m.counts.ai_audit  = Cardinality(LinesOf("ai_audit"))
                  /\ m.counts.anchors   = Cardinality(LinesOf("anchor"))
                  /\ m.counts.ai_signed =
                        Cardinality({j \in LinesOf("ai_audit") : pack[j].body.signed})

(* PASS means that every row and anchor of the text is intact and signed   *)
(* (README.md:19-26): a row's hash is the hash of its payload, and a       *)
(* signed row and every anchor carry a signature, over exactly that hash   *)
(* or the anchor's fields, by a key some line of the text declares.        *)
PassIsSigned ==
    Accepted =>
        /\ \A r \in Bodies("ai_audit") :
              /\ r.payload_hash = Sha256(r.payload)
              /\ r.signed =>
                    \E k \in DeclaredKeys, alg \in KnownAlg :
                        /\ k.key_id = r.signing_key_id
                        /\ r.signature = Sign(alg, k.public_key_hex, Sha256(r.payload))
        /\ \A a \in Bodies("anchor") :
              \E k \in DeclaredKeys :
                  /\ k.key_id = a.signing_key_id
                  /\ a.signature = Sign(a.sig_alg, k.public_key_hex, AnchorPayloadHash(a))

(* PASS means every row names an anchor of the text, and a row labelled    *)
(* fleet is proven to be a leaf under the root of one it names, among as   *)
(* many as its signed row count says (README.md:21-23).                    *)
PassIsCovered ==
    Accepted =>
        \A r \in Bodies("ai_audit") :
            \E a \in Bodies("anchor") :
                /\ a.id = r.covered_by.anchor_id
                /\ r.covered_by.chain = "fleet" =>
                      /\ r.inclusion_proof # None
                      /\ I64(r.inclusion_proof.leaf_count) = a.row_count
                      /\ MerkleInclusionVerify(Sha256(r.payload),
                             r.inclusion_proof.leaf_index,
                             r.inclusion_proof.leaf_count,
                             r.inclusion_proof.path, a.merkle_root)

(* PASS means the rows that name a tenant anchor of the text are, in leaf  *)
(* order, all the leaves under its root (README.md:234-237).               *)
PassIsRecomputed ==
    Accepted =>
        \A a \in Bodies("anchor") : OnTenantChain(a.chain) =>
            LET lines == RowLinesUnder(a.id)
                rows  == [i \in DOMAIN lines |-> lines[i].body]
            IN  /\ Len(rows) = a.row_count
                /\ MerkleRoot(PayloadHashes(InLeafOrder(rows))) = a.merkle_root

(* No check is passed over: the report lists every check, once and in      *)
(* order, but for the counts of a text without manifest and the identity   *)
(* of one without header or manifest (verify.rs:142, 161).  A check that   *)
(* never ran would pass (tests/verify_pack.rs:566-567).                    *)
NoCheckSkipped ==
    pc = "report" =>
        [k \in DOMAIN findings |-> findings[k].check] =
        Selected(CheckNames, LAMBDA check :
            /\ check \in {"structure.counts", "structure.identity"} =>
                  LinesOf("manifest") # {}
            /\ check = "structure.identity" => LinesOf("header") # {})
=============================================================================
