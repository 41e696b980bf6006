----------------------------- MODULE ChainVerify -----------------------------
(***************************************************************************)
(* verify_chain() of src/chain.rs: the verifier of chain/v1 packs, whose   *)
(* rows are hash-chained and whose anchors sign heads of the chain.        *)
(*                                                                         *)
(* As in PackVerify, one action per record kind and one per check.         *)
(***************************************************************************)
EXTENDS ChainPack

CONSTANT ChainPacks     \* the packs the verifier may be handed

(* A text is a sequence of lines, a signing_keys record holds one of keys, *)
(* and a manifest is a record.                                             *)
IsText(p) ==
    /\ Len(p) \in Nat /\ DOMAIN p = 1..Len(p)
    /\ \A i \in DOMAIN p :
          /\ p[i].kind = "signing_keys" =>
                p[i].body.keys \in Seq(Range(p[i].body.keys))
          /\ p[i].kind = "manifest" => p[i].body # None

ASSUME ChainPacksAssumption == \A p \in ChainPacks : IsText(p)

VARIABLES
    pc,                 \* idle, parse, the check to run next, report or panic
    pack,               \* the lines handed to the verifier
    line,               \* the next line to read
    header,             \* locals of verify_chain()
    keys, rows, anchors, manifest, parse_errors, last_was_manifest,
    findings            \* report.findings

loaded == <<header, keys, rows, anchors, manifest, parse_errors, last_was_manifest>>
vars   == <<pc, pack, line, loaded, findings>>

-----------------------------------------------------------------------------
(* What the checks look at *)

Table == IF header = None THEN "" ELSE header.table

KeyById(kid) == LastWith(keys, LAMBDA k : k.key_id = kid)

(* rows, after rows.sort_by_key. *)
InOrder == Sorted(rows, LAMBDA x, y : x.chain_seq < y.chain_seq)

EntryBySeq(seq) == LastWith(InOrder, LAMBDA r : r.chain_seq = seq)

AnchorsById == Sorted(anchors, LAMBDA x, y : x.id < y.id)

(* Mutant of CountsOK: only the anchors are counted. *)
CountsOfAnchors ==
    /\ manifest.counts.anchors = Len(anchors)
    /\ manifest.table = Table
    /\ manifest.profile = CHAIN_PACK_PROFILE

CountsOK ==
    /\ manifest.counts.rows    = Len(rows)
    /\ manifest.counts.anchors = Len(anchors)
    /\ manifest.table = Table
    /\ manifest.profile = CHAIN_PACK_PROFILE

KeyWellFormed(k) ==
    /\ k.usage = "anchor"
    /\ k.key_origin \in {"product", "fleet", "customer", "managed"}
    /\ k.public_key_hex # NotHex

RowRecomputes(r) ==
    r.prev_hash # NotHex /\ r.entry_hash = EntryHash(r.prev_hash, r.canonical)

(* A pack that starts past sequence 1 is a window: nothing is asked of its *)
(* first row.                                                              *)
StartsCleanly ==
    rows # <<>> /\ InOrder[1].chain_seq = 1 => InOrder[1].prev_hash = Genesis

Follows(r, before) ==
    /\ r.chain_seq = I64(before.chain_seq + 1)
    /\ r.prev_hash = before.entry_hash

RowsLink ==
    /\ StartsCleanly
    /\ \A i \in 2..Len(rows) : Follows(InOrder[i], InOrder[i - 1])

AnchorSignatureOK(a) ==
    LET key == KeyById(a.signing_key_id)
    IN  /\ key # None
        /\ SignatureValid(a.sig_alg, key.public_key_hex,
                          ChainAnchorPayloadHash(Table, a), a.signature)

(* Mutant of BindsHead: the head is not compared. *)
BindsHeadPresent(a) == EntryBySeq(a.to_seq) # None

BindsHead(a) ==
    /\ EntryBySeq(a.to_seq) # None
    /\ a.chain_head = EntryBySeq(a.to_seq).entry_hash

(* Mutant of Tiles: the first range may start anywhere. *)
TilesFromSecond(i) ==
    i > 1 => AnchorsById[i].from_seq = I64(AnchorsById[i - 1].to_seq + 1)

(* The first range starts at the first row, any other after the one before.*)
Tiles(i) ==
    IF i = 1 THEN rows # <<>> => AnchorsById[1].from_seq = InOrder[1].chain_seq
             ELSE AnchorsById[i].from_seq = I64(AnchorsById[i - 1].to_seq + 1)

HeadsBind ==
    \A i \in DOMAIN anchors :
        LET a == AnchorsById[i]
        IN  /\ a.row_count = I64(a.to_seq - a.from_seq + 1)
            /\ Tiles(i)
            /\ BindsHead(a)

(* The first anchor may link to one outside the pack. *)
LinksTo(a, before) ==
    /\ a.prev_anchor_id = before.id
    /\ a.prev_head # None
    /\ a.prev_head = before.chain_head

AnchorsLink ==
    \A i \in 2..Len(anchors) : LinksTo(AnchorsById[i], AnchorsById[i - 1])

LastAnchored == Max({anchors[i].to_seq : i \in DOMAIN anchors})
LastRow      == InOrder[Len(rows)].chain_seq

(* The declared tail is only read when there are rows past the last anchor.*)
TailDeclared ==
    rows # <<>> =>
        /\ anchors # <<>>
        /\ LastRow > LastAnchored =>
              /\ manifest # None
              /\ manifest.unanchored_tail = I64(LastRow - LastAnchored)

(* Where the sums overflow: the number after a row; the width of a range   *)
(* and the number after it; the rows past the last anchor.                 *)
RowsOverflow == \E i \in DOMAIN rows : Overflows(rows[i].chain_seq + 1)

AnchorsOverflow ==
    \E i \in DOMAIN anchors :
        LET a == anchors[i]
        IN  \/ Overflows(a.to_seq - a.from_seq) \/ Overflows(a.to_seq - a.from_seq + 1)
            \/ Overflows(a.to_seq + 1)

TailOverflows ==
    /\ rows # <<>> /\ anchors # <<>>
    /\ LastRow > LastAnchored
    /\ Overflows(LastRow - LastAnchored)

-----------------------------------------------------------------------------
Init ==
    /\ pc = "idle"
    /\ pack = <<>>
    /\ line = 1
    /\ header = None /\ manifest = None
    /\ keys = <<>> /\ rows = <<>> /\ anchors = <<>>
    /\ parse_errors = 0
    /\ last_was_manifest = FALSE
    /\ findings = <<>>

(* A call of verify_chain(). *)
Submit(p) ==
    /\ pc = "idle"
    /\ pc' = "parse"
    /\ pack' = p
    /\ UNCHANGED <<line, loaded, findings>>

-----------------------------------------------------------------------------
(* The parse loop: one line per step *)

AtLine(kind) ==
    /\ pc = "parse"
    /\ line <= Len(pack)
    /\ pack[line].kind = kind
    /\ line' = line + 1
    /\ UNCHANGED <<pc, pack, findings>>

body == pack[line].body

ReadBlank ==
    AtLine("blank") /\ UNCHANGED loaded

ReadHeader ==
    /\ AtLine("header")
    /\ header' = IF header = None THEN body ELSE header
    /\ last_was_manifest' = FALSE
    /\ UNCHANGED <<keys, rows, anchors, manifest, parse_errors>>

ReadSigningKeys ==
    /\ AtLine("signing_keys")
    /\ keys' = keys \o body.keys
    /\ last_was_manifest' = FALSE
    /\ UNCHANGED <<header, rows, anchors, manifest, parse_errors>>

(* Mutant of ReadChainRow: a row is stored twice. *)
ReadChainRowTwice ==
    /\ AtLine("chain_row")
    /\ rows' = rows \o <<body, body>>
    /\ last_was_manifest' = FALSE
    /\ UNCHANGED <<header, keys, anchors, manifest, parse_errors>>

ReadChainRow ==
    /\ AtLine("chain_row")
    /\ rows' = Append(rows, body)
    /\ last_was_manifest' = FALSE
    /\ UNCHANGED <<header, keys, anchors, manifest, parse_errors>>

ReadChainAnchor ==
    /\ AtLine("chain_anchor")
    /\ anchors' = Append(anchors, body)
    /\ last_was_manifest' = FALSE
    /\ UNCHANGED <<header, keys, rows, manifest, parse_errors>>

ReadManifest ==
    /\ AtLine("manifest")
    /\ manifest' = body
    /\ last_was_manifest' = TRUE
    /\ UNCHANGED <<header, keys, rows, anchors, parse_errors>>

(* Mutant of ReadOther: a newer record is a malformed line. *)
ReadOtherMalformed ==
    /\ AtLine("other")
    /\ parse_errors' = parse_errors + 1
    /\ last_was_manifest' = FALSE
    /\ UNCHANGED <<header, keys, rows, anchors, manifest>>

ReadOther ==
    /\ AtLine("other")
    /\ last_was_manifest' = FALSE
    /\ UNCHANGED <<header, keys, rows, anchors, manifest, parse_errors>>

ReadMalformed ==
    /\ AtLine("malformed")
    /\ parse_errors' = parse_errors + 1
    /\ last_was_manifest' = FALSE
    /\ UNCHANGED <<header, keys, rows, anchors, manifest>>

ParseDone ==
    /\ pc = "parse"
    /\ line > Len(pack)
    /\ pc' = "structure.parse"
    /\ UNCHANGED <<pack, line, loaded, findings>>

Parse ==
    \/ ReadBlank \/ ReadHeader \/ ReadSigningKeys \/ ReadChainRow
    \/ ReadChainAnchor \/ ReadManifest \/ ReadOther \/ ReadMalformed \/ ParseDone

-----------------------------------------------------------------------------
(* The checks *)

Record(check, ok, next) ==
    /\ pc = check
    /\ findings' = Append(findings, [check |-> check, ok |-> ok])
    /\ pc' = next
    /\ UNCHANGED <<pack, line, loaded>>

(* A check the code leaves out of the report, or never finishes. *)
Skip(check, next) ==
    /\ pc = check
    /\ pc' = next
    /\ UNCHANGED <<pack, line, loaded, findings>>

CheckParse == Record("structure.parse", parse_errors = 0, "structure.header")

CheckHeader ==
    Record("structure.header",
           /\ header # None
           /\ header.format_version = 1 /\ header.profile = CHAIN_PACK_PROFILE,
           "structure.manifest_terminal")

CheckManifestTerminal ==
    Record("structure.manifest_terminal", manifest # None /\ last_was_manifest,
           "structure.counts")

CheckCounts ==
    IF manifest # None
      THEN Record("structure.counts", CountsOK, "signing_keys")
      ELSE Skip("structure.counts", "signing_keys")

CheckSigningKeys ==
    Record("signing_keys", \A i \in DOMAIN keys : KeyWellFormed(keys[i]),
           "row_recompute")

(* One loop collects what this check and the next report. *)
CheckRowRecompute ==
    IF RowsOverflow
      THEN Skip("row_recompute", "panic")
      ELSE Record("row_recompute", \A i \in DOMAIN rows : RowRecomputes(rows[i]),
                  "linkage")

CheckLinkage == Record("linkage", RowsLink, "anchor_signature")

CheckAnchorSignature ==
    Record("anchor_signature", \A i \in DOMAIN anchors : AnchorSignatureOK(anchors[i]),
           "head_binding")

CheckHeadBinding ==
    IF AnchorsOverflow
      THEN Skip("head_binding", "panic")
      ELSE Record("head_binding", HeadsBind, "anchor_continuity")

CheckContinuity == Record("anchor_continuity", AnchorsLink, "coverage")

CheckCoverage ==
    IF TailOverflows
      THEN Skip("coverage", "panic")
      ELSE Record("coverage", TailDeclared, "report")

Check ==
    \/ CheckParse \/ CheckHeader \/ CheckManifestTerminal \/ CheckCounts
    \/ CheckSigningKeys \/ CheckRowRecompute \/ CheckLinkage \/ CheckAnchorSignature
    \/ CheckHeadBinding \/ CheckContinuity \/ CheckCoverage

(* Report::passed *)
Passed ==
    findings # <<>> /\ \A i \in DOMAIN findings : findings[i].ok

-----------------------------------------------------------------------------
VerifyChain == Parse \/ Check
Next        == VerifyChain \/ \E p \in ChainPacks : Submit(p)
Spec        == Init /\ [][Next]_vars

-----------------------------------------------------------------------------
(* Properties *)

CheckNames ==
    {"structure.parse", "structure.header", "structure.manifest_terminal",
     "structure.counts", "signing_keys", "row_recompute", "linkage",
     "anchor_signature", "head_binding", "anchor_continuity", "coverage"}

(* The locals hold no more than the lines read so far, and a manifest that *)
(* is the last line is a manifest.                                         *)
TypeOK ==
    /\ pc \in {"idle", "parse", "report", "panic"} \cup CheckNames
    /\ line \in 1..(Len(pack) + 1)
    /\ parse_errors + Len(rows) + Len(anchors) \in 0..(line - 1)
    /\ last_was_manifest \in BOOLEAN
    /\ last_was_manifest => manifest # None
    /\ \A k \in DOMAIN findings :
          findings[k].check \in CheckNames /\ findings[k].ok \in BOOLEAN

LinesOf(kind) == {i \in DOMAIN pack : pack[i].kind = kind}
Bodies(kind)  == {pack[i].body : i \in LinesOf(kind)}
DeclaredKeys  == UNION {Range(b.keys) : b \in Bodies("signing_keys")}

Accepted == pc = "report" /\ Passed

RowNumbers == {r.chain_seq : r \in Bodies("chain_row")}

(* The rows of an accepted text are numbered without a gap and each number *)
(* appears on one line, and each row up to the last anchor is in exactly   *)
(* one anchored range (chain.rs:18-20, 30-31).                             *)
OneRangeEach ==
    Accepted /\ RowNumbers # {} =>
        LET last == Max({a.to_seq : a \in Bodies("chain_anchor")})
        IN  \A n \in Min(RowNumbers)..Max(RowNumbers) :
                /\ Cardinality({i \in LinesOf("chain_row") :
                                    pack[i].body.chain_seq = n}) = 1
                /\ n <= last =>
                      Cardinality({i \in LinesOf("chain_anchor") :
                          n \in pack[i].body.from_seq..pack[i].body.to_seq}) = 1

(* PASS means the text is whole and vouched for (chain.rs:17-27): every    *)
(* line parses, the last that is not blank is a manifest of the table some *)
(* header names, with the counts of the text; every row's hash is that of  *)
(* its bytes; and every anchor is signed, for that very table, by a key    *)
(* some line declares.                                                     *)
PassIsSigned ==
    Accepted =>
        /\ LinesOf("malformed") = {}
        /\ \A r \in Bodies("chain_row") :
              r.prev_hash # NotHex /\ r.entry_hash = EntryHash(r.prev_hash, r.canonical)
        /\ \E h \in Bodies("header"), i \in LinesOf("manifest") :
              LET m == pack[i].body
              IN  /\ \A j \in DOMAIN pack : j > i => pack[j].kind = "blank"
                  /\ h.profile = CHAIN_PACK_PROFILE /\ m.profile = CHAIN_PACK_PROFILE
                  /\ h.table = m.table
                  /\ m.counts.rows    = Cardinality(LinesOf("chain_row"))
                  /\ m.counts.anchors = Cardinality(LinesOf("chain_anchor"))
                  /\ \A a \in Bodies("chain_anchor") : \E k \in DeclaredKeys :
                        /\ k.key_id = a.signing_key_id
                        /\ a.signature = Sign(a.sig_alg, k.public_key_hex,
                                              ChainAnchorPayloadHash(h.table, a))

(* Rows past the last anchor of an accepted text are as many as its        *)
(* manifest declares (chain.rs:31-33).                                     *)
TailAsDeclared ==
    Accepted /\ Bodies("chain_anchor") # {} =>
        LET last == Max({a.to_seq : a \in Bodies("chain_anchor")})
        IN  manifest.unanchored_tail = Cardinality({n \in RowNumbers : n > last})
=============================================================================
