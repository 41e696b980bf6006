------------------------------ MODULE CliSystem ------------------------------
(***************************************************************************)
(* Texts of both formats, whole and spoilt, handed to the program.  The    *)
(* exports: of one tenant, the golden pack and two windows of equal size   *)
(* on its own chain; of one table, two windows of its chain.               *)
(***************************************************************************)
EXTENDS Cli, Damage

CONSTANTS
    TenantId, OwnChain, RowKey, FleetKey, TenantKey, Other, Stray,  \* of Vectors
    WorkerKey,                                                      \* the key of its table's anchors
    table                                                           \* its table

V2    == INSTANCE Vectors
Chain == INSTANCE ChainExport WITH AnchorKey <- WorkerKey

-----------------------------------------------------------------------------
(* Exports *)

OwnAnchor(id, e, prev) == V2!MakeAnchor(id, OwnChain, e.id, e.id, V2!Leaves(<<e>>), prev)
OwnWindow(e, anchor, handoff) ==
    V2!SealedPack(V2!Records(<<>>, <<V2!MakeRow(e, anchor.id, OwnChain, None)>>,
                             <<anchor>>), handoff)

e1 == V2!Entry(TenantId, 1)
e2 == V2!Entry(TenantId, 2)
own1 == OwnAnchor(1, e1, None)
own2 == OwnAnchor(2, e2, own1)

row1 == Chain!Row(1, Genesis, <<Stray>>)
row2 == Chain!Row(2, row1.entry_hash, <<Other>>)
row3 == Chain!Row(3, row2.entry_hash, <<Other>>)
head1 == Chain!MakeAnchor(table, 1, <<row1>>, None)
head2 == Chain!MakeAnchor(table, 2, <<row2>>, head1)
ChainWindow(rows_, anchors_, tail) ==
    Chain!SealedPack(Chain!Records(table, rows_, anchors_), table, tail)

OwnWindows   == {OwnWindow(e1, own1, None), OwnWindow(e2, own2, None)}
ChainWindows == {ChainWindow(<<row1>>, <<head1>>, 0),
                 ChainWindow(<<row2, row3>>, <<head2>>, 1)}
Windows      == OwnWindows \cup ChainWindows
Exports      == Windows \cup {V2!base}

(* What reaches the program: a pack as it is, with a blank line, or with   *)
(* two lines swapped; the beginning of one pack and the end of the same or *)
(* another, which may be two whole packs in one file, or one with lines    *)
(* lost or repeated.                                                       *)
Spliced(p, q) ==
    {SubSeq(p, 1, i) \o SubSeq(q, j, Len(q)) : i \in DOMAIN p, j \in DOMAIN q}

Spoilt ==
    UNION {LinesSwapped(p) : p \in Windows} \cup UNION {Spliced(p, q) : p, q \in Windows}

BlankAdded == UNION {WithLine(p, Line("blank", None)) : p \in Exports}

GoldenPacks == V2!GoldenPacks
HandedOver  == Exports \cup BlankAdded \cup Spoilt \cup GoldenPacks \cup {<<>>}

(* The largest i64 where the verifiers add one. *)
AtTheEnd ==
    {OwnWindow(e1, own1, [handoff_cursor_id |-> MaxInt, sovereign_first_from_id |-> 1]),
     ChainWindow(<<Chain!Row(MaxInt, Genesis, <<Stray>>)>>, <<>>, 1)}

-----------------------------------------------------------------------------
(* Properties *)

(* What a text of the documents fails, and what one of the tests does.     *)
Documented == V2!Table \cup V2!OtherLines \cup V2!Passing
Tested     == V2!Tests
Failing    == {f.check : f \in {g \in Range(findings) : ~g.ok}}

Whole == Exports \cup {row[1] : row \in {r \in Documented : r[2] = {}}}

Content(text) ==
    {text[i] : i \in {k \in DOMAIN text :
        text[k].kind \in {"audit", "ai_audit", "anchor", "chain_row", "chain_anchor"}}}
ContentLines(text) ==
    Cardinality({k \in DOMAIN text : text[k].kind \in {l.kind : l \in Content(text)}})

(* Exit code 0 says that the input is one export: its rows and anchors are *)
(* those of one pack, each once, and the engine that passed it is the one  *)
(* of that pack's format.  Two packs in one file, parts of packs, or a     *)
(* text sent to the wrong engine never give it (main.rs:8, 73-80).         *)
ZeroIsOneExport ==
    stage = "exit" /\ exit_code = 0 =>
        \E p \in Whole :
            /\ Content(input) = Content(p) /\ ContentLines(input) = ContentLines(p)
            /\ (profile = CHAIN_PACK_PROFILE <=> p \in ChainWindows)

(* No export, with blank lines or without, gets exit code 1, though the    *)
(* report may be lost: the engine of the other format would reject it.     *)
NoFalseAlarm ==
    stage = "exit" /\ input \in Exports \cup BlankAdded => exit_code # 1

(* The verifier fails each golden vector at exactly the checks the table   *)
(* of vectors/README.md:15-28 names and passes valid.jsonl, the demo pack  *)
(* and the ML-DSA-87 pack; each edit of tests/verify_pack.rs:444-590 fails *)
(* at least the check its test names; other lines are treated as           *)
(* README.md:221-222, 301 and docs/EVIDENCE_PACK_V2.md:11-18 say; and the  *)
(* exit code tells them apart (main.rs:8).                                 *)
Conformance ==
    stage = "exit" /\ exit_code \in {0, 1} =>
        /\ \A row \in Documented : input = row[1] =>
              Failing = row[2] /\ (exit_code = 0 <=> row[2] = {})
        /\ \A row \in Tested : input = row[1] => row[2] \in Failing /\ exit_code = 1

(* Every invocation ends (main.rs:52-57), unless standard input was asked  *)
(* for by name at a terminal, which may never end.                         *)
InvocationEnds ==
    stage = "start" /\ ~(entry.pack = "-" /\ entry.terminal) ~> stage = "exit"

(* "Never panics - every error becomes a failed finding" (verify.rs:64,    *)
(* chain.rs:204).                                                          *)
NeverPanics == pc # "panic"
=============================================================================
