--------------------------- MODULE EvidenceSystem ---------------------------
(***************************************************************************)
(* The gateway that logs, anchors and exports rows, the ways a pack is     *)
(* spoilt between the log and the verifier, and the verifier.              *)
(*                                                                         *)
(* The gateway is not in this repository; it does here what the packs of   *)
(* examples/make_test_vectors.rs and docs/EVIDENCE_PACK_V2.md show of it:  *)
(* a shared fleet chain over every tenant's rows until the handoff, then   *)
(* the tenant's own chain.  An exporter that goes wrong does so before it  *)
(* writes the manifest, which then counts what it wrote; damage in transit *)
(* comes after.                                                            *)
(***************************************************************************)
EXTENDS PackVerify, Export

CONSTANTS
    Schedules,      \* sequences of [tenant, created_at, signed] the gateway may log
    AuditRows,      \* admin rows in every export
    Faults,         \* the kinds of fault of this instance
    MaxFaults,      \* how many of them strike one pack
    Stray           \* a value that decodes but is not the right one

(* created_at and the row's id are i64 columns (pack.rs:80-82).             *)
ASSUME SchedulesAssumption ==
    /\ AuditRows \in Nat /\ MaxFaults \in Nat
    /\ \A s \in Schedules :
          /\ Len(s) \in 0..MaxInt
          /\ \A n \in 1..Len(s) : s[n].created_at \in Int /\ s[n].signed \in BOOLEAN

(* A header or manifest that is there is not one that is absent. *)
Headers == [format_version : {1, 2}, tenant_id : {TenantId, Stray}]

Handoffs ==
    {None} \cup [handoff_cursor_id : MinInt..MaxInt, sovereign_first_from_id : Int]

Manifests ==
    [format_version : {2}, tenant_id : {TenantId, Stray},
     counts : [audit : Nat, ai_audit : Nat, ai_signed : Nat, anchors : Nat],
     signing_key_ids : SUBSET {KeyId(FleetKey), KeyId(TenantKey)},
     genesis_handoff : Handoffs]

ASSUME RecordAssumption == None \notin Headers \cup Manifests

VARIABLES
    stage,          \* live, draft, transit, verify
    log,            \* every row the gateway stored; a row's id is its place
    batches,        \* what was anchored: [anchor, rows in leaf order]
    cursor,         \* the last row on the fleet chain, once handed off
    handoff,        \* the genesis_handoff of the pack being exported
    file,           \* the lines of the pack
    original,       \* the pack as it would be with no fault
    faults          \* the kinds of fault that struck it

gateway == <<log, batches, cursor>>
export  == <<handoff, original>>
system  == <<stage, gateway, export, file, faults>>

SystemInit ==
    /\ Init
    /\ stage = "live"
    /\ log = <<>> /\ batches = <<>>
    /\ cursor = None /\ handoff = None
    /\ file = <<>> /\ original = <<>>
    /\ faults = <<>>

-----------------------------------------------------------------------------
(* The gateway *)

Logged(s, n) ==
    [id |-> n, tenant |-> s[n].tenant, created_at |-> s[n].created_at,
     signed |-> s[n].signed]

(* No row is logged with the payload a damaged one gets. *)
ASSUME StrayAssumption ==
    \A s \in Schedules : \A n \in 1..Len(s) : Payload(Logged(s, n)) # Stray

(* created_at is taken before the id is assigned: ids need not follow it.  *)
LogRow ==
    /\ stage = "live"
    /\ \E s \in Schedules :
          /\ Len(log) < Len(s)
          /\ \A n \in DOMAIN log : log[n] = Logged(s, n)
          /\ log' = Append(log, Logged(s, Len(log) + 1))
    /\ UNCHANGED <<stage, batches, cursor, export, file, faults, vars>>

(* Mutant of LastTo: ranges overlap by one. *)
LastToOverlapping == IF batches = <<>> THEN 0 ELSE Last(batches).anchor.to_id - 1

LastTo == IF batches = <<>> THEN 0 ELSE Last(batches).anchor.to_id

OnChain(chain) == Selected(batches, LAMBDA b : b.anchor.chain = chain)
PrevOn(chain)  == IF OnChain(chain) = <<>> THEN None ELSE Last(OnChain(chain)).anchor

Unanchored == SubSeq(log, LastTo + 1, Len(log))

AnchorRows(chain, unordered) ==
    LET rows == InLeafOrder(unordered)
    IN  /\ stage = "live"
        /\ rows # <<>>
        /\ batches' = Append(batches,
               [rows   |-> rows,
                anchor |-> MakeAnchor(Len(batches) + 1, chain, LastTo + 1, Len(log),
                                      Leaves(rows), PrevOn(chain))])
        /\ UNCHANGED <<stage, log, cursor, export, file, faults, vars>>

FleetTick ==
    cursor = None /\ AnchorRows("fleet", Unanchored)

(* From here on the tenant's rows go to its own chain. *)
Handoff ==
    /\ stage = "live"
    /\ cursor = None
    /\ cursor' = LastTo
    /\ UNCHANGED <<stage, log, batches, export, file, faults, vars>>

SovereignTick ==
    /\ cursor # None
    /\ AnchorRows(OwnChain, Selected(Unanchored, LAMBDA e : e.tenant = TenantId))

-----------------------------------------------------------------------------
(* The exporter *)

(* A row of the tenant as the window shows it: under the anchor of its     *)
(* batch, on the fleet chain with its inclusion proof.                     *)
Exported(e, window) ==
    LET b == CHOOSE x \in Range(window) : e \in Range(x.rows)
        i == CHOOSE k \in DOMAIN b.rows : b.rows[k] = e
    IN  MakeRow(e, b.anchor.id, b.anchor.chain,
                IF b.anchor.chain = "fleet" THEN ProofFor(Leaves(b.rows), i - 1) ELSE None)

InWindow(window) == UNION {Range(b.rows) : b \in Range(window)}

(* One window of the two chains.  The handoff is declared when the window  *)
(* holds the first sovereign anchor of a tenant that was on the fleet.     *)
Export(lo, hi) ==
    LET window == SubSeq(batches, lo, hi)
        rows   == Selected(log, LAMBDA e : e.tenant = TenantId /\ e \in InWindow(window))
        lines  == Records([i \in 1..AuditRows |-> i],
                          [i \in DOMAIN rows |-> Exported(rows[i], window)],
                          [i \in DOMAIN window |-> window[i].anchor])
        seam   == /\ OnChain("fleet") # <<>>
                  /\ \E b \in Range(window) :
                        b.anchor.chain = OwnChain /\ b.anchor.prev_anchor_id = None
    IN  /\ stage = "live"
        /\ stage' = "draft"
        /\ handoff' = IF seam THEN HandoffAt(cursor) ELSE None
        /\ file' = lines
        /\ original' = SealedPack(lines, handoff')
        /\ UNCHANGED <<gateway, faults, vars>>

Seal ==
    /\ stage = "draft"
    /\ stage' = "transit"
    /\ file' = SealedPack(file, handoff)
    /\ UNCHANGED <<gateway, export, faults, vars>>

-----------------------------------------------------------------------------
(* Faults *)

Fault(kind, at, files) ==
    /\ stage = at
    /\ kind \in Faults
    /\ Len(faults) < MaxFaults
    /\ faults' = Append(faults, kind)
    /\ file' \in files
    /\ UNCHANGED <<stage, gateway, export, vars>>

(* Of the exporter *)
Reorder == Fault("reorder", "draft", LinesSwapped(file))
Newer   == Fault("newer", "draft", WithLine(file, Line("other", None)))
Omit    == Fault("omit", "draft", LineLost(file))
Repeat  == Fault("repeat", "draft", LineRepeated(file))

(* A whole batch missing from the window: its anchor and the rows under it. *)
Without(lines, id) ==
    Selected(lines, LAMBDA l :
        /\ l.kind = "anchor" => l.body.id # id
        /\ l.kind = "ai_audit" => l.body.covered_by.anchor_id # id)

OmitBatch ==
    Fault("omit_batch", "draft", {Without(file, b.anchor.id) : b \in Range(batches)})

(* A row under the wrong chain label. *)
Relabelled(lines) ==
    {[lines EXCEPT ![i].body.covered_by.chain = chain] :
        i \in {j \in DOMAIN lines : lines[j].kind = "ai_audit"},
        chain \in TenantChain \cup {"fleet"}}

Relabel == Fault("relabel", "draft", Relabelled(file) \ {file})

(* In transit *)
Lose      == Fault("lose", "transit", LineLost(file))
Truncate  == Fault("truncate", "transit", EndLost(file))
Duplicate == Fault("duplicate", "transit", LineRepeated(file))
Misplace  == Fault("misplace", "transit", LastMoved(file))
Blank     == Fault("blank", "transit", WithLine(file, Line("blank", None)))
Garble    == Fault("garble", "transit", LineGarbled(file))

(* The ways one field, or a payload with its hash, changes. *)
AlteredRow(r) ==
    {[r EXCEPT !.payload = Stray], [r EXCEPT !.payload_hash = NotHex],
     [r EXCEPT !.payload = Stray, !.payload_hash = Sha256(Stray)],
     [r EXCEPT !.signature = Stray], [r EXCEPT !.signed = ~r.signed],
     [r EXCEPT !.id = r.id + 1], [r EXCEPT !.created_at = r.created_at + 1],
     [r EXCEPT !.covered_by.anchor_id = @ + 1]}
    \cup IF r.inclusion_proof = None THEN {}
         ELSE {[r EXCEPT !.inclusion_proof = None],
               [r EXCEPT !.inclusion_proof.leaf_index = @ + 1],
               [r EXCEPT !.inclusion_proof.leaf_count = MaxInt + 1],
               [r EXCEPT !.inclusion_proof.path = Append(@, Stray)]}

AlteredAnchor(a) ==
    {[a EXCEPT !.merkle_root = Stray], [a EXCEPT !.row_count = @ + 1],
     [a EXCEPT !.to_id = @ + 1], [a EXCEPT !.from_id = MinInt],
     [a EXCEPT !.prev_anchor_id = None],
     [a EXCEPT !.prev_root = Stray], [a EXCEPT !.signature = NotHex],
     [a EXCEPT !.sig_alg = "FALCON-1024"], [a EXCEPT !.id = @ + 1]}
    \cup {[a EXCEPT !.chain = c] : c \in (TenantChain \cup {"fleet"}) \ {a.chain}}

AlteredManifest(m) ==
    {[m EXCEPT !.counts.ai_audit = @ + 1], [m EXCEPT !.counts.ai_signed = @ + 1],
     [m EXCEPT !.tenant_id = Stray], [m EXCEPT !.genesis_handoff = HandoffAt(1)],
     [m EXCEPT !.genesis_handoff = [handoff_cursor_id       |-> MaxInt,
                                    sovereign_first_from_id |-> MinInt]],
     [m EXCEPT !.genesis_handoff = None], [m EXCEPT !.signing_key_ids = {}]}

AlteredHeader(h) == {[h EXCEPT !.format_version = 1], [h EXCEPT !.tenant_id = Stray]}

AlteredKeys(r) ==
    {[r EXCEPT !.keys[i].public_key_hex = hex] : i \in DOMAIN r.keys, hex \in {Stray, NotHex}}

Altered(l) ==
    CASE l.kind = "header"       -> AlteredHeader(l.body)
      [] l.kind = "signing_keys" -> AlteredKeys(l.body)
      [] l.kind = "ai_audit"     -> AlteredRow(l.body)
      [] l.kind = "anchor"       -> AlteredAnchor(l.body)
      [] l.kind = "manifest"     -> AlteredManifest(l.body)
      [] OTHER -> {}

Alter ==
    Fault("alter", "transit",
          UNION {{[file EXCEPT ![i].body = body_] : body_ \in Altered(file[i])} :
                     i \in DOMAIN file})

(* Beside a line, before it or after, another of its kind that differs from *)
(* it in a field: written so, or added in transit.                         *)
Twinned(lines) ==
    UNION {{InsertAt(lines, k, Line(lines[i].kind, body_)) :
                k \in {i, i + 1}, body_ \in Altered(lines[i])} : i \in DOMAIN lines}

Twin == \E at \in {"draft", "transit"} : Fault("twin", at, Twinned(file))

Spoil ==
    \/ Reorder \/ Newer \/ Omit \/ Repeat \/ OmitBatch \/ Relabel
    \/ Lose \/ Truncate \/ Duplicate \/ Misplace \/ Blank \/ Garble \/ Alter
    \/ Twin

-----------------------------------------------------------------------------
Deliver ==
    /\ stage = "transit"
    /\ stage' = "verify"
    /\ Submit(file)
    /\ UNCHANGED <<gateway, export, file, faults>>

Verifier == Verify /\ UNCHANGED system

Gateway == LogRow \/ FleetTick \/ Handoff \/ SovereignTick

SystemNext ==
    \/ Gateway
    \/ \E lo, hi \in DOMAIN batches : lo <= hi /\ Export(lo, hi)
    \/ Spoil \/ Seal \/ Deliver \/ Verifier

SystemSpec == SystemInit /\ [][SystemNext]_<<system, vars>>

-----------------------------------------------------------------------------
(* Properties *)

SystemTypeOK ==
    /\ stage \in {"live", "draft", "transit", "verify"}
    /\ stage = "verify" <=> pc # "idle"
    /\ Len(faults) \in 0..MaxFaults /\ Range(faults) \subseteq Faults
    /\ cursor \in {None} \cup 0..LastTo
    /\ \A i \in DOMAIN batches :
          LET a == batches[i].anchor
          IN  /\ a.id = i
              /\ a.from_id = IF i = 1 THEN 1 ELSE batches[i-1].anchor.to_id + 1
              /\ a.to_id \in a.from_id..Len(log)
              /\ a.row_count = Len(batches[i].rows)

Suffered(kinds) == Range(faults) \subseteq kinds

(* No false alarm: whatever was logged, anchored and exported, and however *)
(* the window cuts the chains, the pack passes, also when the exporter     *)
(* writes its records in another order, a newer exporter adds record kinds *)
(* (README.md:221), or blank lines are added (verify.rs:80).               *)
NoFalseAlarm ==
    pc = "report" /\ Suffered({"reorder", "newer", "blank"}) => Passed

(* A tenant anchor of an accepted pack comes with its whole batch: for one *)
(* of the batches the gateway anchored, the rows that name it carry that   *)
(* batch's payloads, all of them and in leaf order (README.md:234-237).    *)
SovereignBatchExact ==
    Accepted =>
        \A a \in Bodies("anchor") : OnTenantChain(a.chain) =>
            \E b \in Range(batches) :
                LET rows == RowLinesUnder(a.id)
                    own  == InLeafOrder([i \in DOMAIN rows |-> rows[i].body])
                IN  /\ a.merkle_root = b.anchor.merkle_root
                    /\ [i \in DOMAIN own |-> own[i].payload] =
                           [i \in DOMAIN b.rows |-> Payload(b.rows[i])]

(* A row labelled fleet in an accepted pack was logged, and anchored at    *)
(* the leaf its proof names under the root of the anchor it names.         *)
FleetRowsLogged ==
    Accepted =>
        \A r \in Bodies("ai_audit") : r.covered_by.chain = "fleet" =>
            \E a \in Bodies("anchor"), b \in Range(batches) :
                /\ a.id = r.covered_by.anchor_id
                /\ a.merkle_root = b.anchor.merkle_root
                /\ r.inclusion_proof # None
                /\ r.inclusion_proof.leaf_index + 1 \in DOMAIN b.rows
                /\ r.payload = Payload(b.rows[r.inclusion_proof.leaf_index + 1])

(* Nothing of the pack can go missing on the way: if lines were lost or    *)
(* the end cut off, and nothing else happened, only the whole pack passes  *)
(* (README.md:17-18, 219).                                                 *)
LossDetected ==
    Accepted /\ Suffered({"lose", "truncate"}) => pack = original

(* No anchor is missing between two of an accepted pack: the tenant        *)
(* anchors are consecutive batches of the chain the gateway built          *)
(* (README.md:27-28).                                                      *)
AnchorsConsecutive ==
    Accepted =>
        LET chain   == OnChain(OwnChain)
            present == {i \in DOMAIN chain :
                           \E a \in Bodies("anchor") :
                               /\ a.chain = OwnChain
                               /\ a.merkle_root = chain[i].anchor.merkle_root}
        IN  \A i, j \in present : i..j \subseteq present

(* A pack accepted with a handoff holds the tenant's history since then    *)
(* without a gap: every row the gateway logged for the tenant past the     *)
(* declared cursor, up to the last row the tenant chain covers that begins *)
(* there, is in it, on the tenant's chain and not also on the fleet's      *)
(* (README.md:239-243).  An anchor's label is not signed: of a pack with   *)
(* two tenant labels this says nothing about the chain that begins later.  *)
SeamHasNoGap ==
    Accepted /\ manifest.genesis_handoff # None =>
        \A e \in Range(log) :
            /\ e.tenant = TenantId
            /\ e.id > manifest.genesis_handoff.handoff_cursor_id
            /\ \E first, a \in Bodies("anchor") :
                  /\ OnTenantChain(a.chain) /\ first.chain = a.chain
                  /\ first.from_id = Min(Sovereign)
                  /\ e.id <= a.to_id
            => LET copies == {r \in Bodies("ai_audit") : r.payload = Payload(e)}
               IN  /\ copies # {}
                   /\ \A r \in copies : OnTenantChain(r.covered_by.chain)

(* What README.md:21-23 says of a PASS: every row sits under a signed      *)
(* anchor, by full recomputation on the tenant's chain or by an inclusion  *)
(* proof.  Here: its anchor is a tenant anchor, whose batch the verifier   *)
(* recomputes, or its inclusion proof folds to its anchor's root.          *)
EveryRowProven ==
    Accepted =>
        \A r \in Bodies("ai_audit") : \E a \in Bodies("anchor") :
            /\ a.id = r.covered_by.anchor_id
            /\ \/ OnTenantChain(a.chain)
               \/ /\ r.inclusion_proof # None
                  /\ r.covered_by.chain = "fleet"
                  /\ MerkleInclusionVerify(r.payload_hash, r.inclusion_proof.leaf_index,
                        r.inclusion_proof.leaf_count, r.inclusion_proof.path,
                        a.merkle_root)

(* What docs/EVIDENCE_PACK_V2.md:112-113 says the verifier establishes:    *)
(* anchor signatures under keys the manifest lists.                        *)
AnchorsListed ==
    Accepted =>
        \A a \in Bodies("anchor") : a.signing_key_id \in manifest.signing_key_ids

-----------------------------------------------------------------------------
(* The abstract specification *)

(* A chain is a book whose entries are batches: their payloads, in leaf    *)
(* order.                                                                  *)
Entry(b) == [k \in DOMAIN b.rows |-> Payload(b.rows[k])]

Anchored(chain) ==
    LET own == OnChain(chain)
    IN  [i \in DOMAIN own |-> Entry(own[i])]

Chains    == {"fleet", OwnChain}
Histories == [c \in Chains |-> Anchored(c)]
SealedTo  == [c \in Chains |-> Cardinality({i \in DOMAIN batches : batches[i].anchor.chain = c})]
Answer    == IF pc # "report" THEN "none" ELSE IF Passed THEN "PASS" ELSE "FAIL"

(* The payloads of the rows under an anchor of the pack, as recomputed. *)
PayloadsUnder(id) ==
    LET own == InLeafOrder(RowsByAnchor(id))
    IN  [i \in DOMAIN own |-> own[i].payload]

Shown ==
    IF ~Accepted THEN <<>>
    ELSE LET own == Chain(OwnChain)
         IN  [k \in DOMAIN own |-> PayloadsUnder(own[k].id)]

L == INSTANCE Ledger WITH
        Books   <- Chains,
        history <- Histories, sealed <- SealedTo,
        verdict <- Answer,    shown  <- Shown

(* The gateway, the transport and verify() implement the ledger: a chain   *)
(* is only added to, and what a PASS shows under tenant anchors is a       *)
(* window of one chain, batch by batch: none missing inside it, none with  *)
(* a row more or less or of another (README.md:27-28, 234-237).            *)
LedgerOfChains == L!Spec
=============================================================================
