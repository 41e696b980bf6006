----------------------------- MODULE ChainSystem -----------------------------
(***************************************************************************)
(* Hash-chained tables, the worker that anchors their heads, the exporter, *)
(* the ways a chain pack is spoilt, and verify_chain.                      *)
(*                                                                         *)
(* The database trigger, the worker and the exporter are not in this       *)
(* repository: they do what src/chain.rs says of them and what its checks  *)
(* require.  Every table is anchored with the same key.                    *)
(***************************************************************************)
EXTENDS ChainVerify, ChainExport

CONSTANTS
    Tables,         \* the hash-chained tables
    Writes,         \* [Tables -> what is written to each, as canonical rows]
    Faults,         \* the kinds of fault of this instance
    MaxFaults,      \* how many of them strike one pack
    Stray           \* a value that decodes but is not the right one

(* Rows are numbered in an i64 column (chain.rs:125), and what is written  *)
(* is a list of tokens.                                                    *)
ASSUME WritesAssumption ==
    /\ IsFiniteSet(Tables)
    /\ \A t \in Tables :
          /\ Len(Writes[t]) \in 0..MaxInt
          /\ \A n \in 1..Len(Writes[t]) : Writes[t][n] \in Seq(Range(Writes[t][n]))

(* A manifest that is there is not a manifest that is absent. *)
Manifests ==
    [profile : {CHAIN_PACK_PROFILE, Stray}, table : Tables \cup {Stray},
     unanchored_tail : Nat, counts : [rows : Nat, anchors : Nat]]

ASSUME ManifestAssumption == None \notin Manifests

VARIABLES
    stage,          \* live, draft, transit, verify
    log,            \* [Tables -> the rows of the table]
    issued,         \* [Tables -> the anchors of the table]
    named,          \* the table the pack being exported names
    tail,           \* the unanchored_tail it declares
    file,           \* its lines
    original,       \* the pack as it would be with no fault
    faults          \* the kinds of fault that struck it

database == <<log, issued>>
system   == <<stage, database, named, tail, file, original, faults>>

SystemInit ==
    /\ Init
    /\ stage = "live"
    /\ log = [t \in Tables |-> <<>>] /\ issued = [t \in Tables |-> <<>>]
    /\ named = None /\ tail = 0
    /\ file = <<>> /\ original = <<>>
    /\ faults = <<>>

-----------------------------------------------------------------------------
(* The tables *)

(* The trigger, on an insert. *)
Insert(t) ==
    LET n == Len(log[t]) + 1
    IN  /\ stage = "live"
        /\ n <= Len(Writes[t])
        /\ log' = [log EXCEPT ![t] = Append(@, Row(n, HeadOf(@), Writes[t][n]))]
        /\ UNCHANGED <<stage, issued, named, tail, file, original, faults, vars>>

AnchoredTo(t) == IF issued[t] = <<>> THEN 0 ELSE Last(issued[t]).to_seq

(* One table of anchors for all of them. *)
NextId == 1 + Cardinality(UNION {{t} \X (DOMAIN issued[t]) : t \in Tables})

AnchorHead(t) ==
    /\ stage = "live"
    /\ AnchoredTo(t) < Len(log[t])
    /\ issued' = [issued EXCEPT ![t] = Append(@,
           MakeAnchor(t, NextId, SubSeq(log[t], AnchoredTo(t) + 1, Len(log[t])),
                      IF @ = <<>> THEN None ELSE Last(@)))]
    /\ UNCHANGED <<stage, log, named, tail, file, original, faults, vars>>

-----------------------------------------------------------------------------
(* The exporter *)

(* Anchors i to j of a table with the rows they cover, and behind the last *)
(* anchor the rows that wait for the next.                                 *)
Export(t, i, j) ==
    LET newest == j = Len(issued[t])
        upto   == IF newest THEN Len(log[t]) ELSE issued[t][j].to_seq
        n      == upto - issued[t][j].to_seq
        lines  == Records(t, SubSeq(log[t], issued[t][i].from_seq, upto),
                          SubSeq(issued[t], i, j))
    IN  /\ stage = "live"
        /\ stage' = "draft"
        /\ named' = t /\ tail' = n
        /\ file' = lines
        /\ original' = SealedPack(lines, t, n)
        /\ UNCHANGED <<database, faults, vars>>

(* The manifest counts what was written; the tail was known before. *)
Seal ==
    /\ stage = "draft"
    /\ stage' = "transit"
    /\ file' = SealedPack(file, named, tail)
    /\ UNCHANGED <<database, named, tail, original, faults, vars>>

-----------------------------------------------------------------------------
(* Faults *)

Strike(kind, at, results) ==
    /\ stage = at
    /\ kind \in Faults
    /\ Len(faults) < MaxFaults
    /\ faults' = Append(faults, kind)
    /\ file' \in results
    /\ UNCHANGED <<stage, database, tail, original, vars>>

(* Of the exporter *)
Reorder == Strike("reorder", "draft", LinesSwapped(file)) /\ UNCHANGED named
Newer   == Strike("newer", "draft", WithLine(file, Line("other", None))) /\ UNCHANGED named
Omit    == Strike("omit", "draft", LineLost(file)) /\ UNCHANGED named
Repeat  == Strike("repeat", "draft", LineRepeated(file)) /\ UNCHANGED named

(* The pack names another table than the one it was taken from. *)
Misname ==
    \E t \in Tables \ {named} :
        /\ Strike("misname", "draft",
               {[i \in DOMAIN file |->
                   IF file[i].kind = "header" THEN Line("header", HeaderFor(t))
                                              ELSE file[i]]})
        /\ named' = t

(* An anchor of another table among the anchors. *)
Foreign ==
    \E a \in UNION {Range(issued[t]) : t \in Tables \ {named}} :
        /\ Strike("foreign", "draft",
               {[file EXCEPT ![i].body = a] :
                   i \in {k \in DOMAIN file : file[k].kind = "chain_anchor"}})
        /\ UNCHANGED named

(* In transit *)
Lose      == Strike("lose", "transit", LineLost(file)) /\ UNCHANGED named
Truncate  == Strike("truncate", "transit", EndLost(file)) /\ UNCHANGED named
Duplicate == Strike("duplicate", "transit", LineRepeated(file)) /\ UNCHANGED named
Blank     == Strike("blank", "transit", WithLine(file, Line("blank", None))) /\ UNCHANGED named
Garble    == Strike("garble", "transit", LineGarbled(file)) /\ UNCHANGED named

(* One row rewritten, and every row behind it hashed anew. *)
NewCanonical(i, k) == IF k = i THEN <<Stray>> ELSE file[k].body.canonical

NewPrevHashes(i) ==
    LET prev[k \in DOMAIN file] ==
            IF k = 1 \/ file[k-1].kind # "chain_row" THEN file[k].body.prev_hash
            ELSE IF k > i THEN EntryHash(prev[k-1], NewCanonical(i, k - 1))
                          ELSE file[k-1].body.entry_hash
    IN  prev

Rewritten(i) ==
    LET prev == NewPrevHashes(i)
    IN  [k \in DOMAIN file |->
            IF k < i \/ file[k].kind # "chain_row" THEN file[k]
            ELSE Line("chain_row", Row(file[k].body.chain_seq, prev[k], NewCanonical(i, k)))]

RowLines == {i \in DOMAIN file : file[i].kind = "chain_row"}

Rewrite ==
    /\ \A i \in RowLines : file[i].body.prev_hash # NotHex
    /\ Strike("rewrite", "transit", {Rewritten(i) : i \in RowLines})
    /\ UNCHANGED named

(* Numbers stay numbers of 64 bits, or the line would not parse. *)
AlteredRow(r) ==
    {[r EXCEPT !.canonical = <<Stray>>],
     [r EXCEPT !.prev_hash = <<Stray>>],
     [r EXCEPT !.prev_hash = NotHex], [r EXCEPT !.entry_hash = <<Stray>>],
     [r EXCEPT !.chain_seq = I64(@ + 1)], [r EXCEPT !.chain_seq = MaxInt]}
    \cup IF r.prev_hash = NotHex THEN {}
         ELSE {Row(r.chain_seq, r.prev_hash, <<Stray>>)}

AlteredAnchor(a) ==
    {[a EXCEPT !.chain_head = <<Stray>>], [a EXCEPT !.from_seq = I64(@ + 1)],
     [a EXCEPT !.to_seq = I64(@ + 1)], [a EXCEPT !.to_seq = I64(@ - 1)],
     [a EXCEPT !.to_seq = MaxInt], [a EXCEPT !.from_seq = MinInt],
     [a EXCEPT !.row_count = I64(@ + 1)], [a EXCEPT !.prev_anchor_id = None],
     [a EXCEPT !.prev_head = <<Stray>>], [a EXCEPT !.signature = NotHex],
     [a EXCEPT !.sig_alg = "FALCON-1024"], [a EXCEPT !.id = I64(@ + 1)]}

AlteredManifest(m) ==
    {[m EXCEPT !.counts.rows = @ + 1], [m EXCEPT !.counts.anchors = @ + 1],
     [m EXCEPT !.table = Stray], [m EXCEPT !.profile = Stray],
     [m EXCEPT !.unanchored_tail = @ + 1]}

Altered(l) ==
    CASE l.kind = "chain_row"    -> AlteredRow(l.body)
      [] l.kind = "chain_anchor" -> AlteredAnchor(l.body)
      [] l.kind = "manifest"     -> AlteredManifest(l.body)
      [] OTHER -> {}

Alter ==
    /\ Strike("alter", "transit",
           UNION {{[file EXCEPT ![i].body = b] : b \in Altered(file[i])} : i \in DOMAIN file})
    /\ UNCHANGED named

Spoil ==
    \/ Reorder \/ Newer \/ Omit \/ Repeat \/ Misname \/ Foreign
    \/ Lose \/ Truncate \/ Duplicate \/ Blank \/ Garble \/ Rewrite \/ Alter

-----------------------------------------------------------------------------
Deliver ==
    /\ stage = "transit"
    /\ stage' = "verify"
    /\ Submit(file)
    /\ UNCHANGED <<database, named, tail, file, original, faults>>

SystemNext ==
    \/ \E t \in Tables : Insert(t) \/ AnchorHead(t)
    \/ \E t \in Tables : \E i, j \in DOMAIN issued[t] : i <= j /\ Export(t, i, j)
    \/ Spoil \/ Seal \/ Deliver
    \/ VerifyChain /\ UNCHANGED system

SystemSpec == SystemInit /\ [][SystemNext]_<<system, vars>>

-----------------------------------------------------------------------------
(* Properties *)

Suffered(kinds) == Range(faults) \subseteq kinds

(* No false alarm: any window of whole anchored ranges passes, with the    *)
(* rows that wait for the next anchor, also when the exporter writes its   *)
(* records in another order or adds newer kinds, or blank lines are added. *)
NoFalseAlarm ==
    pc = "report" /\ Suffered({"reorder", "newer", "blank"}) => Passed

(* If lines were lost or the end cut off, and nothing else happened, only  *)
(* the whole pack passes.                                                  *)
LossDetected ==
    Accepted /\ Suffered({"lose", "truncate"}) => pack = original

(* The anchors of an accepted pack are, in order and without a hole,       *)
(* anchors the worker issued for the very table the pack names             *)
(* (chain.rs:21-23, 28-29): no anchor of another table stands in, also     *)
(* where two chains have the same head.                                    *)
AnchorsIssued ==
    Accepted =>
        LET SignedPart(a) == [a EXCEPT !.id = None]
            theirs == issued[header.table]
        IN  Bodies("chain_anchor") # {} =>
                \E i, j \in DOMAIN theirs :
                    {SignedPart(a) : a \in Bodies("chain_anchor")} =
                    {SignedPart(theirs[k]) : k \in i..j}

(* One anchor attests the whole prefix below it (chain.rs:9-10,            *)
(* README.md:191-195): every row of an accepted pack up to its last anchor *)
(* is the row the table held at that number.  Of the first row of a window *)
(* only the bytes that were hashed are attested, not where prev_hash ends  *)
(* in them.                                                                *)
PrefixAttested ==
    Accepted =>
        \A r \in Bodies("chain_row") :
            (\E a \in Bodies("chain_anchor") : r.chain_seq <= a.to_seq) =>
                LET held == log[header.table]
                IN  /\ r.chain_seq \in DOMAIN held
                    /\ r.entry_hash = held[r.chain_seq].entry_hash
                    /\ r.prev_hash \o r.canonical =
                           held[r.chain_seq].prev_hash \o held[r.chain_seq].canonical
                    /\ r.chain_seq # Min(RowNumbers) \/ r.chain_seq = 1 =>
                           r.canonical = held[r.chain_seq].canonical

-----------------------------------------------------------------------------
(* The abstract specification *)

(* The rows of the pack up to its last anchor, in the order of the table.  *)
Attested ==
    IF anchors = <<>> THEN <<>>
    ELSE Arranged(rows, LAMBDA r : r.chain_seq <= LastAnchored,
                  LAMBDA x, y : x.chain_seq < y.chain_seq)

EntryHashes(rows_) == [i \in DOMAIN rows_ |-> rows_[i].entry_hash]

Histories == [t \in Tables |-> EntryHashes(log[t])]
SealedTo  == [t \in Tables |-> AnchoredTo(t)]
Answer    == IF pc # "report" THEN "none" ELSE IF Passed THEN "PASS" ELSE "FAIL"
Shown     == IF Accepted THEN EntryHashes(Attested) ELSE <<>>

L == INSTANCE Ledger WITH
        Books   <- Tables,
        history <- Histories, sealed <- SealedTo,
        verdict <- Answer,    shown  <- Shown

(* The tables, their anchors and verify_chain implement the ledger: a      *)
(* table is only added to, an anchor seals all that is under it, and a     *)
(* PASS shows a window of one table as it was sealed (chain.rs:9-10).      *)
LedgerOfTables == L!Spec
=============================================================================
