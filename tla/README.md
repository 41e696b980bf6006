# scrutari-verify in TLA+

`scrutari-verify` checks an evidence pack offline: a JSONL text with audit rows,
anchors over them, signatures, and a terminal manifest. It answers PASS or FAIL,
and PASS is a promise (`README.md`, "What a PASS proves"). This project models
the program from the command line down to the digits of a hex field: both
verifiers, the dispatch between them, the Merkle functions, the hex decoder, and
the systems around them (a gateway or database that logs, anchors and exports;
the ways a pack gets damaged). TLC checks what PASS promises on small instances;
TLAPS proves the most important promises for every value of the constants.

Paths below are relative to the repository.

## Inventory

| Component | State it keeps | Operations | Hard about it |
|---|---|---|---|
| Merkle functions (`src/crypto.rs:140-326`) | the level being reduced; the fold's `current, index, count, path_pos` | `merkle_root`, `merkle_audit_path`, `merkle_inclusion_verify` | lone-node promotion, written twice from different ends; index arithmetic; unsigned `leaf_index`, `leaf_count`, `path` |
| v2 verifier (`src/verify.rs`) | the parse loop's locals; the report | the parse loop; 14 checks | records in any order, repeated, missing; checks that look records up by unsigned ids and labels; checks that are left out; `i64` sums over numbers of the text |
| chain/v1 verifier (`src/chain.rs`) | the parse loop's locals; the report | the parse loop; 11 checks | windowed chains, prefix signatures, unsigned anchor ids, `i64` ranges |
| Record format (`src/pack.rs`), signed projections (`src/canonical.rs`, `src/chain.rs`) | none | `anchor_payload_hash`, `chain_anchor_payload_hash` | which fields a signature covers, and which it does not |
| Signature schemes (`src/crypto.rs:15-126`) | none | `verify_ed25519`, `verify_es256`, `verify_ml_dsa_87` | library arithmetic; an unknown scheme must fail |
| Hex (`src/hexutil.rs`, `src/crypto.rs:147-157`) | `i`, `out` of `decode` | `decode`, `decode32`, `hex_lower` | odd lengths, digits at the ends of their ranges; digests compared as text in some checks and as bytes in others |
| Command line (`src/main.rs`), browser build (`src/wasm.rs`), dispatch (`is_chain_pack`) | where the invocation stands; exit code | read, choose the engine, verify, print | which engine a text gets; ends that are not a verdict; waiting at a terminal |
| Vector and demo generators (`examples/`) | none | build and sign packs | the repository's only account of an exporter |
| Gateway, exporter, transport (not in the repository) | log, two anchor chains, handoff cursor | log, anchor, hand off, export a window | windows that cut chains, ids out of time order, partial exports, lost or damaged lines |
| Database trigger, anchor worker, chain exporter (not in the repository) | tables, their anchors | insert, anchor a head, export a window | tables that begin alike, anchored with one key |

The program is one sequential function of one text. Nothing in it runs
concurrently, persists or retries; the actors whose steps interleave are those
around it: tenants logging rows, writers of tables, the anchoring jobs, the
handoff, the exporter, and the damage on the way. The properties that make each
part correct:

* Merkle: an accepted proof proves the row that is at that place of the signed
  batch, and only in one way; honest proofs are accepted; a full recompute
  accepts exactly the signed batch; the loops end.
* v2 verifier: what PASS says of the text (whole, intact, signed, covered,
  recomputed), no check silently passed over.
* chain/v1 verifier: what PASS says of the text (whole, intact, signed, each row
  in one range).
* Hex: the two ways of comparing digests agree; decoding ends and stays inside
  the text.
* Program: exit code 0 means one whole export, verified by its own engine; every
  documented vector ends as documented; every invocation ends.
* Systems: no honest pack is rejected; what a PASS shows is a window of what was
  logged and sealed, none altered, missing, out of place or from elsewhere.

## Modules

| Module | Models |
|---|---|
| `Merkle` | hashes, tree levels, the fold's guards and steps; `MerkleRoot`, `MerkleAuditPath`, `MerkleInclusionVerify`, their loops as functions of the round |
| `MerkleProof` | the three functions one loop iteration per step, between a signer, an exporter and whoever assembled the pack |
| `Hex` | `decode` one iteration per step, `decode32`, `hex_lower`, and comparing hex text without case |
| `Pack` | the v2 record format, signatures, `anchor_payload_hash`, the leaf order, `i64` arithmetic |
| `PackVerify` | `verify()`: `Submit`, one `Read...` action per record kind, one `Check...` action per check |
| `ChainPack` | the chain/v1 record format: row hashes, the signed payload of an anchor |
| `ChainVerify` | `verify_chain()`, laid out as `PackVerify` is |
| `Cli` | one invocation: input, `is_chain_pack`, the engine chosen, report, exit code |
| `Export`, `ChainExport` | how the records of each format are built and signed |
| `Damage` | what can happen to the lines of a file |
| `Vectors` | the golden vectors, the edits of `tests/verify_pack.rs`, and packs with the lines they lack (admin, newer, blank, malformed) |
| `CliSystem` | packs of both formats, whole, spoilt, spliced, and `Vectors`, handed to `Cli` |
| `EvidenceSystem` | gateway, exporter, faults and `PackVerify` composed |
| `ChainSystem` | hash-chained tables, their anchor worker, exporter, faults and `ChainVerify` composed |
| `Ledger` | the abstract specification: append-only books sealed from the front, and a verdict that shows a sealed window of one of them |
| `MCMerkleProof`, `MCHex`, `MCCli`, `MCEvidence`, `MCChain` | the instances TLC checks |
| `Merkle_proofs`, `MerkleProof_proofs`, `PackVerify_proofs`, `ChainVerify_proofs`, `EvidenceSystem_proofs`, `ChainSystem_proofs`, `Hex_proofs`, `Ledger_proofs` | lemmas and theorems |

How they are put together:

* `MerkleProof` checks that its loops return what the functions of `Merkle` say
  (`LoopsReturnFunctions`); `Pack` and the modules above use the functions.
* `Hex` shows that a text is a digest's hex up to case exactly if it decodes to
  the digest (`ComparisonsAgree`); the verifiers' modules therefore compare
  digests, in whichever of the two ways the code does it.
* `Cli` runs both engines, `INSTANCE PackVerify WITH Packs <- Texts` and
  `INSTANCE ChainVerify WITH ChainPacks <- Texts`, over one text of either
  format. An engine sees the other format's records as `serde_json` makes of
  them: unknown discriminators are `other`, a header or manifest that lacks its
  fields is `malformed` (`AsV2`, `AsChain`).
* `EvidenceSystem` and `ChainSystem` compose a verifier with the world that
  produces its packs, and each implements `Ledger` under a refinement mapping
  (`LedgerOfChains`, `LedgerOfTables`). The books are the anchor chains, whose
  entries are batches, or the tables, whose entries are rows; `sealed` is what
  is anchored; `shown` is what the verifier recomputed: the payloads under each
  tenant anchor in the order of the chain, or the row hashes up to the last
  anchor. Rows under fleet anchors are shown one by one and belong to no window;
  `FleetRowsLogged` is about them.

State and code: the variables of `PackVerify` are the locals of `verify()` under
their own names (`header, keys, ai, anchors, manifest, audit_count,
last_was_manifest`; `parse_errors` is their number), `findings` is
`report.findings` without the detail texts, and `pc` is the check to run next,
named as the report names it, or `panic`. `ChainVerify` does the same for
`verify_chain()` (`rows` for `ai`; `InOrder` is `rows` after its sort,
`EntryBySeq` the map `entry_by_seq`). `key_by_id`, `anchor_by_id` and
`rows_by_anchor` are functions of the lists (`KeyById`, `AnchorById`,
`RowsByAnchor`) because they are built once and never change. Filters and stable
sorts of lists are one operator, `Arranged`, which gives each place in the
result to the entry that has so many others before it; that form can be reasoned
about without recursion. In `MerkleProof`,
`tower` keeps every value `level` takes in the signer's `merkle_root`, `fold`
holds the locals of `merkle_inclusion_verify`, and `trail` and `round` are
auxiliary. In `Cli`, `stage` is the place in `main`, `entry` the arguments and
what standard input is.

### What is abstracted

* SHA-256 is a free constructor: digests are equal exactly if the inputs are.
  That no leaf hash is a node hash follows from what is hashed.
* A signature is the record of scheme, key and message, and verifies exactly if
  these agree; only the gateway and the worker sign in the instances.
* Outside `Hex`, a hex field is the value it encodes, and text that does not
  decode, or not to the width its reader needs, is the one value `NotHex`.
* A key id tells keys apart (`KeyId` is injective; the code takes a prefix of a
  hash). `created_at` is a number where the code compares strings: the exporter
  is taken to write times of one format and width.
* A line is a record `[kind, body]`. What `serde_json` refuses is `malformed`;
  a JSON record with a discriminator this version does not know is `other`.
  Only headers and manifests carry a `profile`, so the probe of `is_chain_pack`
  looks at it there.
* `MaxInt` stands for the largest `i64`: 32767 in the runs, far above any number
  an export contains. A sum or cast keeps what fits (`I64`), or, where the code
  adds and `OverflowChecks` is set, ends the engine in `panic`.
* In a chain pack bytes are a sequence of tokens, a digest being one token and
  genesis' `00` another, so that a row's message is the concatenation of
  `prev_hash` and `canonical` and not a pair. The concatenation does not say
  where the first part ends. Every row but the first has that settled by its
  link; the first row of a window has not, and `PrefixAttested` claims no more.
* A chain manifest's `seq_range`, `signing_key_ids` and `format_version` and the
  boundary notes are read by no check and left out. So are a row's provenance
  fields. A row's `signature`, `signing_key_id` and `sig_alg` are `None` when
  absent.
* Reading either yields the text or fails (a missing file, not UTF-8); the
  browser build's call has no file, no arguments and no exit code, and is an
  invocation with `entry.pack = "page"`.

## Runs

| Run | Instance | Shows |
|---|---|---|
| `proof_any` | every batch shape of 0 to 4 leaves with repeated rows; any proof with `leaf_count`, `leaf_index` up to 5 and path up to 3 over all tree nodes and a foreign digest; rows may be a tree digest | `TypeOK`, `InclusionBinds`, `InclusionPathUnique`, `InclusionMember`, `LoopsReturnFunctions` |
| `proof_honest` | distinct rows, batches of 1 to 9, every position; all lists of up to 5 rows over 2 values against all batches | `RoundTrip`, `RootIsRFC6962`, `RecomputeExact`, `CallsReturn` |
| `hex` | all texts of up to 2 bytes over the ends of the digit ranges and their neighbours, of 3 and 4 bytes over the digits at the ends; digests of up to 2 bytes | `TypeOK`, `ComparisonsAgree`, `DecodeReturns` |
| `cli_texts` | exports of both formats, with blank lines, with lines swapped, spliced with each other and themselves; 8 golden vectors, 4 test edits, 5 packs with the other kinds of line; the largest `i64`; every way in | `ZeroIsOneExport`, `NoFalseAlarm`, `Conformance`, `InvocationEnds` |
| `never_panics` | the largest `i64` in a build with overflow checks | `NeverPanics` is violated (below) |
| `intact` | three logs of 5 rows, every anchoring schedule, handoff and window | `SystemTypeOK`, `NoFalseAlarm` |
| `faults` | two logs of 3 rows, every schedule and window, every single fault of the exporter or in transit | `TypeOK`, `PassIsComplete`, `PassIsSigned`, `PassIsCovered`, `PassIsRecomputed`, `NoCheckSkipped`, `NoFalseAlarm`, `AnchorsConsecutive`, `SeamHasNoGap` |
| `two_faults` | a log of 2 rows, two faults of six kinds that can cover each other | `SovereignBatchExact`, `FleetRowsLogged`, `LossDetected`, `LedgerOfChains` |
| `relabel` | a log of 3 rows, one row under a wrong chain label | `EveryRowProven` is violated (below) |
| `listed` | a log of 2 rows, one altered field | `AnchorsListed` is violated (below) |
| `chain_faults` | two tables of 3 and 2 rows that begin alike, every interleaving of inserts and anchors, every window of anchors, every single fault | `TypeOK`, `NoFalseAlarm`, `LossDetected`, `OneRangeEach`, `PassIsSigned`, `AnchorsIssued`, `PrefixAttested`, `LedgerOfTables` |
| `chain_tail` | the same tables, one line omitted by the exporter | `TailAsDeclared` is violated (below) |

Distinct states: `proof_honest` 29 232, `hex` 23 208, `cli_texts` 105 117,
`intact` 78 300, `faults` 1 030 596, `two_faults` 757 055, `chain_faults`
1 378 890.

Why the bounds are enough. The rules of the fold differ by the parity of index
and count at each level; up to nine leaves every combination of three levels
occurs, promotion over one and two levels included. In `proof_any` a path of
three entries is one longer than any genuine path for four leaves, and a claimed
count of five one more than any tree has. The decoder treats each pair of digits
alike and each digit by its range; four bytes are two pairs, and an odd length
follows an even one.

The logs give every way of cutting rows into fleet and tenant batches of one to
five rows, on one chain, on both, and with rows of another tenant between; three
batches of one chain leave one to be missed between two; windows leave out the
start, the end or both. Faults change one field, one line, or a batch; a fault
and its cover (a wrong count put right, a second label, a line lost and another
repeated) take two. `twin` puts beside a header, a `signing_keys` record, a row,
an anchor or a manifest another that differs in a field, before it or after: in
the exporter, whose manifest then counts both, or in transit. So first and last
of two headers or manifests, and keys and anchors of one id with different
bodies, occur in `faults`. `LedgerOfChains`
is the costliest to evaluate and is checked on logs of two rows, with two
faults; a batch missing between two others needs three, and is there in
`faults` for `AnchorsConsecutive`.

Three chained rows make one to three anchors with a tail of none to two; the
second table has the first one's head and range for as long as both hold one
row, which is when only the table name in the signed payload tells their anchors
apart (`foreign`, `misname`). `rewrite` changes a row and hashes every row behind
it anew. `alter` also sets numbers to the ends of the `i64` range, where, with
`OverflowChecks = FALSE` as in a release build, they wrap; `AnchorsIssued` and
`OneRangeEach` hold all the same.

For `cli_texts`: a splice of the beginning of one pack and the end of another
includes two whole packs in one file, a pack with lines lost or repeated at one
place, and a chain header before v2 records and the other way round. Two windows
of equal size of each format are what makes splices whose counts are right.

The other bounds: `Writes` bounds the tables, `Schedules` the log (a run's rows
are a prefix of one of its sequences), `MaxFaults` the faults, `MaxCount`,
`MaxPath` and `MaxPadding` the foreign proofs, `Texts` the texts. Deadlock is
not checked: a verifier that has reported stops, and so does a process that has
exited.

### Fairness

* `MerkleProof` and `Hex`: weak fairness of the function's own steps (`Compute`,
  `Next`): a call, once made, is executed by its thread. Nothing obliges anyone
  to make a call.
* `Cli`: weak fairness of what the process does by itself; of its reading only
  when it reads a file or a pipe, which end. A terminal need never end, so
  `InvocationEnds` excepts the invocation that asks for standard input by name
  (`--pack -`) at one. That one without `--pack` prints help instead is the
  code at `src/main.rs:52-57`.
* `EvidenceSystem` and `ChainSystem` state no fairness: their properties are
  invariants and the safety specification `Ledger`.

### Four disagreements

* `relabel`. `README.md:21-23` says of a PASS that every row sits under a signed
  anchor, by full recomputation on the tenant's chain or by an inclusion proof
  against the fleet chain. The verifier demands the proof of rows labelled
  `fleet` (`src/verify.rs:312`) and recomputes anchors labelled `tenant:`
  (`src/verify.rs:290`). In a pack without handoff a row labelled `tenant:...`
  that names a fleet anchor gets neither, and passes. `PassIsCovered` and
  `PassIsRecomputed` state what does hold: the check a row or anchor gets
  follows its own label.
* `chain_tail`. `src/chain.rs:31-33` says that rows past the last anchor must
  match the declared `unanchored_tail`. The code compares only when there is
  such a row (`src/chain.rs:566`): a pack whose only unanchored row was left out
  before the manifest counted what was written passes while declaring a tail of
  one.
* `never_panics`. `src/verify.rs:64` and `src/chain.rs:204` say that the engines
  never panic. `handoff_cursor_id + 1` (`src/verify.rs:564`) and the sums over
  `chain_seq`, `from_seq` and `to_seq` (from `src/chain.rs:381`) are unchecked
  additions of numbers of the text; in a build with overflow checks, which is
  what `Cargo.toml:54` calls the standard build, the largest `i64` ends the
  program with Rust's code 101. A release build wraps.
* `listed`. `docs/EVIDENCE_PACK_V2.md:112-113` says that anchors are signed
  under keys the manifest lists. The list is optional, and an empty one
  constrains nothing (`src/verify.rs:259`).

Two sentences the model reads with the code. The head of `src/chain.rs` says
that a chain starts at the genesis marker and its first range at 1; the code,
and its own remark at `src/chain.rs:351-352`, accept a window that starts later.
`README.md:190-191` says that the header's `profile` field selects the engine;
the code looks at the first line that is not blank, whatever record that is
(`src/chain.rs:190-202`), so that a chain pack that starts with a row goes to
the v2 engine, and fails there.

## Proofs

`MerkleProof_proofs`, for all sets of rows, batches, paths and counts, from
`BatchAssumption` (batches are sequences) and `BoundAssumption`:

* `TypeCorrect`, `InclusionIsBinding`, `InclusionHasOnePath`,
  `InclusionIsMembership`, `RoundTripAccepted`, `RecomputeIsExact`,
  `RootMatchesRFC` and `LoopsAreFunctions` prove the invariants of the runs.
* The argument. `TowerInv`: the levels are the parents of one another, so the
  tree is there to talk about. `ControlInv`: whose submission is being answered.
  Binding: while a proof for the true count is folded, `fold.count` is the
  length of the level reached, and `current` is the node at `index` there
  exactly if the submitted row is the one at `leaf_index`; a wrong node stays
  wrong because `NodeHash` is injective. Membership: an inner node or a foreign
  row can never be under the root, because whatever is not a node of the tree
  has no parent in it (`NodesInv`), whatever count is claimed. Round trip: the
  fold retraces the exporter's `trail` of indices and path lengths. Recompute:
  the verifier's level equals the signer's level of the same round exactly if
  the rows are equal.
* Loops and functions. `LoopInv`: after k rounds the locals of each of the three
  loops are the k-th values of the functions (`LevelsOf`, `PathsOf`, `FoldsOf`),
  and no loop has more rounds than `Height` says. So what the functions are
  proved to do, the code's loops do. `InclusionHasOnePath` is `PathBinds` for
  the functions: going down from the root, each entry of an accepted path is the
  sibling at its level, as an entry of the exporter's path is.
* RFC 6962. The code goes up the levels; the RFC splits the leaves at the
  largest power of two below their number, top down. `Cut`: the nodes of level k
  are the RFC's trees over consecutive runs of the leaves, all of 2^k leaves but
  the last, which may have fewer. A round makes the next, `Coarser`, cut of it:
  two neighbouring runs are one of 2^(k+1), which the RFC splits exactly where
  they met, and a lone run stays as it is, being no longer than a full one. At
  the top one run is left, the whole batch. The induction is over the round. The
  RFC's definition is a function of the number of leaves built on the one for
  fewer, so the module needs no recursive operator.

`Merkle_proofs` holds the lemmas about the functions of `Merkle` and about the
lists of `Pack`. Four of them carry the other modules: `RootBinds` (leaves as
many and with the same root are the same leaves), `FoldBinds` (a proof for the
count of a tree that folds to its root is about the leaf at its index),
`PathBinds` (and its path is the leaf's), and `RootFirst` (the root depends on
the first leaf, whatever the count). They go by rounds, up and down the levels, so the induction they need is over a number and
not over data.

`PackVerify_proofs` and `ChainVerify_proofs`, for every set of packs, from
`PacksAssumption` and `ChainPacksAssumption` (a text is a sequence of lines, a
`signing_keys` record holds a sequence of keys, a header or manifest is a record;
TLC evaluates both for the texts of `cli_texts` as `TextsAssumption`):

* `PassComplete`, `PassSigned`, `PassCovered`, `PassRecomputed` and
  `EveryCheckReported` prove `PassIsComplete`, `PassIsSigned`, `PassIsCovered`,
  `PassIsRecomputed` and `NoCheckSkipped` of the v2 verifier; `ChainPassSigned`
  proves `PassIsSigned` of the chain verifier, which says the first three things
  of a chain pack; `PackTypeCorrect` and `ChainTypeCorrect` prove both
  `TypeOK`s.
* These invariants speak about the text, at the report; they are not inductive
  because nothing in them says how the locals came from the text. `Loaded` says
  so, line by line: the lists hold bodies of the text and all of those read so
  far, the counters are cardinalities of sets of lines read, and a
  `last_was_manifest` manifest is the last line read but for blanks. `Verdict`
  says that while no finding has failed, the condition of every check already
  passed holds of the locals. Checks do not change the locals, so at the report
  both together are the property. The maps enter by one lemma: what `LastWith`
  finds is an entry of the list with the key asked for (`KeyFound`, from
  `MaxIn`).
* A Merkle root depends on the order of the rows, so `PassRecomputed` needs
  more: `Listing`, that the list of rows is the row lines read so far *in their
  order*, none twice. Then the rows that name an anchor, taken from the list or
  from the lines, are one sequence (`SameSelection`), and its leaves too.
* `EveryCheckReported` is about the report itself. `Reported` says that at the
  p-th check the findings are those of the checks before it, in order, but for
  the two that a text without header or manifest does not get; `Presence` says
  which texts those are.

`EvidenceSystem_proofs`, for every schedule of rows, every interleaving of
logging, anchoring and handoff, every window exported, every fault and any number
of faults, from `SchedulesAssumption` (no more rows than an `i64` counts, times
and ids are numbers), `RecordAssumption` (a header or manifest is not the value
that stands for none), `StrayAssumption` (the payload a faulty exporter makes up
is no logged row's), `OwnChainAssumption`, `WidthAssumption` and
`PacksAssumption`:

* `SystemTypeCorrect`, `LostLinesDetected`, `FleetRowsExact`,
  `SovereignBatchesExact`, `NoAnchorMissing` and `SeamIsClosed` prove
  `SystemTypeOK`, `LossDetected`, `FleetRowsLogged`, `SovereignBatchExact`,
  `AnchorsConsecutive` and `SeamHasNoGap`; `ChainsAreALedger` proves that the
  system implements `Ledger`.
* The inductive invariant is `SystemInv`. `Database`: a row's id is its place;
  the batches' ranges tile the log; a batch holds rows of its range, and its
  anchor signs their root, their number and the root of the batch before it on
  its chain. `Delivered`: whatever happened to a file, each of its lines has its
  shape, and an anchor line carries a signature the gateway made or none that
  decodes. As in the chain system that is all a fault can leave, and no proof
  looks at which faults there were. `Inv` and `Listing` are those of
  `PackVerify_proofs`. `SystemTypeOK` needs `FaultsTyped` besides.
* What an accepted anchor is. A verified signature is one of the gateway's, and
  what is signed fixes range, count, root and previous root (`AnchorGenuine`),
  though neither the id nor the chain label: which chain an anchor is of has to
  come from elsewhere.
* Rows. The recompute takes the rows that name the anchor in leaf order, as many
  as it says; by `RootBinds` their hashes are the batch's leaves, and hashes are
  terms, so the payloads are (`BatchRecomputed`). A fleet row's proof is for the
  signed count, since `leaf_count as i64` is not negative and hence did not wrap
  (`NotWrapped`); by `FoldBinds` it is the leaf at its index.
* Anchors. Each links to the one before it by that one's root. Two batches never
  have one root: their first rows differ, since no row is anchored twice
  (`RootFirst`, `RootsDiffer`). So the root of the link names one batch, the last
  before it on its chain, and by induction along the pack's anchors they are
  consecutive batches of one chain (`ChainConsecutive`, `PartOfChain`), whichever
  label they carry.
* The seam. The check compares the smallest `from_id` on the tenant's label with
  the cursor plus one, a sum that may wrap; a wrapped one is negative and a
  genuine `from_id` is not, so it did not wrap (`SuccessorNotWrapped`,
  `SeamAt`). The anchor that begins there names a batch that begins at the seam;
  the batches' ranges tile the log, so a later row lies in the range of exactly
  one batch (`BatchHolding`), and `Sealing` says that a batch holds every row of
  the tenant in its range. Were that batch a fleet one, fleet batches would
  follow a tenant one, which `FleetFirst` excludes; were its anchor missing from
  the pack, the anchors would not be consecutive (`NoneBetween`). So its rows
  are recomputed and the row's payload is among them (`RowUnder`). That no copy
  of it is labelled fleet is the cursor's check of fleet rows and `Known`: the
  payload of a line is a made up one or that of a logged row, and then no id a
  fault writes puts it before that row. Labels are unsigned, and a pack may
  carry a second tenant label whose anchors begin later; the property therefore
  speaks of the chain that begins at the seam.
* `LossDetected` needs `OnlyLost`, as in the chain system.
* The refinement. A tick appends and seals one batch of one chain and leaves the
  other (`ChainGrows`); at the report, what was recomputed under the anchors of
  the tenant's label is a window of one chain (`ShownIsWindow`), by the two
  arguments above together. Other steps stutter.

`ChainSystem_proofs`, for all tables, all writings of them, every interleaving of
the trigger, the worker and the exporter, every fault and any number of faults,
from `WritesAssumption` (finitely many tables, no more rows than an `i64` counts,
rows written as token sequences), `ManifestAssumption` (a manifest is not the
value that stands for none), `WidthAssumption` and the two above:

* `AcceptedAnchorsIssued`, `OneAnchorAttestsPrefix`, `OneRowOneRange` and
  `LostLinesShow` prove `AnchorsIssued`, `PrefixAttested`, `OneRangeEach` and
  `LossDetected`; `TablesAreALedger` proves that the system implements `Ledger`.
* The inductive invariant is `SystemInv`. `Database`: every row chains to the one
  before it, every anchor covers what the one before it left, and signs its
  head. `Delivered`: whatever happened to a file, each of its lines has its
  shape, numbers of 64 bits, and an anchor line carries a signature the worker
  made or none that decodes. That is all a fault can leave, and all the proofs
  use of it: none of them looks at which faults there were. `Inv` and `Listing`
  of `ChainVerify_proofs` describe `verify_chain()` on that text.
* The argument. An accepted anchor's signature is genuine, and a signature is
  over the whole anchor but its id, table included: it is an anchor of the named
  table. The links between anchors leave no hole, since `prev_head` and the
  bounds are signed. The head an anchor binds is the hash of the row at its
  `to_seq`; hashes are terms, so equal hashes have equal messages, and walking
  down the links every row below is the table's row at its number. The walk
  stops at the first row of the pack, whose `prev_hash` nothing links. Rows and
  ranges are consecutive; sums wrap at the largest `i64`, but a sorted list
  never falls, so no step of it can have wrapped (`Wraps`).
* `OneRangeEach` holds of the system, not of `ChainVerify` alone: an anchor with
  `to_seq` below `from_seq` would pass the verifier's tiling if a key holder
  signed one, and the worker does not.
* `LossDetected` needs `OnlyLost`: while the faults so far only lose lines the
  file is the sealed pack or shorter, under the same manifest or none. A manifest
  that counts more than there is fails.
* The refinement. Rows and anchors only grow, each insert or anchor is an append
  or a sealing, and at the report the rows shown are a window of one table below
  what is sealed of it (`ShownIsWindow`). Other steps stutter.

`Hex_proofs`, for all sets of texts and digests, from `HexAssumption` (both are
sequences of bytes):

* `HexTypeCorrect` and `HexComparisonsAgree`. The invariant says that `out`
  holds the values of the digit pairs before `i`, all digits, and that `err`
  means an odd length, a character that is no digit, or a wrong width. That a
  byte is its two digits and back is arithmetic on `div` and `mod`.

`Ledger_proofs`, for every set of books, from no assumption:

* `ShownForGood`: what a PASS showed remains a window of the sealed part of one
  book. It needs that books are sequences, that no more is sealed than written,
  and that a window below the sealed bound is the same in every extension
  (`WindowKept`). Every behaviour of `ChainSystem`, by `TablesAreALedger`, and
  every one of `EvidenceSystem`, by `ChainsAreALedger`, is one of `Ledger` under
  its mapping, and inherits it.

Only model-checked, and why:

* `CallsReturn`, `DecodeReturns`, `InvocationEnds`: liveness under fairness.
* `Conformance`, `ZeroIsOneExport`, the `NoFalseAlarm` of `CliSystem`: properties
  of particular texts.
* The `NoFalseAlarm`s of the two systems: they say that an honest pack passes
  every check, so they follow the exporter through the verifier in the other
  direction than all the proofs above.

## Not modelled

The arithmetic of the signature schemes (libraries; here ideal). The exporters,
the gateway, the database trigger and the anchor worker are not in this
repository: their models are marked external and do what the generators, the
documents and the verifiers' checks show of them. The ends of an invocation that
the argument parser makes itself (`--help`, `--version`, bad arguments).
Colours, wording and key fingerprints of the report; build, release and
publishing.
