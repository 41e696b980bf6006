-------------------------- MODULE ChainVerify_proofs --------------------------
(***************************************************************************)
(* What a PASS of ChainVerify means, proved for every set of packs.        *)
(*                                                                         *)
(* As in PackVerify_proofs, Loaded ties the locals of verify_chain() to    *)
(* the lines read so far, and Verdict says that while no finding has       *)
(* failed every check already passed by holds of those locals.             *)
(***************************************************************************)
EXTENDS ChainVerify, Merkle_proofs

-----------------------------------------------------------------------------
(* The invariant *)

Before(kind) == {i \in LinesOf(kind) : i < line}

Place ==
    /\ Len(pack) \in Nat
    /\ DOMAIN pack = 1..Len(pack)
    /\ \A i \in LinesOf("signing_keys") : pack[i].body.keys \in Seq(Range(pack[i].body.keys))
    /\ \A i \in LinesOf("manifest") : pack[i].body # None
    /\ line \in 1..(Len(pack) + 1)
    /\ pc \in {"idle", "parse", "report", "panic"} \cup CheckNames
    /\ pc \notin {"idle", "parse"} => line = Len(pack) + 1
    /\ pc = "idle" => /\ pack = <<>> /\ line = 1 /\ header = None
                      /\ keys = <<>> /\ rows = <<>> /\ anchors = <<>>
                      /\ parse_errors = 0 /\ last_was_manifest = FALSE

Lists ==
    /\ keys \in Seq(DeclaredKeys)
    /\ rows \in Seq(Bodies("chain_row"))
    /\ anchors \in Seq(Bodies("chain_anchor"))
    /\ \A i \in Before("chain_row") : \E k \in DOMAIN rows : rows[k] = pack[i].body
    /\ \A i \in Before("chain_anchor") : \E k \in DOMAIN anchors : anchors[k] = pack[i].body

Counters ==
    /\ parse_errors = Cardinality(Before("malformed"))
    /\ Len(rows) = Cardinality(Before("chain_row"))
    /\ Len(anchors) = Cardinality(Before("chain_anchor"))
    /\ parse_errors + Len(rows) + Len(anchors) < line

LastManifest(i) ==
    /\ i \in Before("manifest")
    /\ manifest = pack[i].body
    /\ \A j \in DOMAIN pack : i < j /\ j < line => pack[j].kind = "blank"

Ends ==
    /\ header # None => header \in Bodies("header")
    /\ last_was_manifest \in BOOLEAN
    /\ last_was_manifest => \E i \in Before("manifest") : LastManifest(i)

Loaded == Place /\ Lists /\ Counters /\ Ends

(* The values of pc once a check is behind. *)
AfterCoverage  == {"report"}
AfterLinks     == AfterCoverage  \cup {"coverage"}
AfterHeads     == AfterLinks     \cup {"anchor_continuity"}
AfterAnchors   == AfterHeads     \cup {"head_binding"}
AfterLinkage   == AfterAnchors   \cup {"anchor_signature"}
AfterRecompute == AfterLinkage   \cup {"linkage"}
AfterCounts    == AfterRecompute \cup {"signing_keys", "row_recompute"}
AfterTerminal  == AfterCounts    \cup {"structure.counts"}
AfterHeader    == AfterTerminal  \cup {"structure.manifest_terminal"}
AfterParse     == AfterHeader    \cup {"structure.header"}

IsList == findings \in Seq(Range(findings))

AllOk == \A k \in DOMAIN findings : findings[k].ok

HeaderIsChain  == /\ header # None
                  /\ header.format_version = 1 /\ header.profile = CHAIN_PACK_PROFILE
ManifestIsLast == manifest # None /\ last_was_manifest
CountsAgree    == manifest # None => CountsOK
RowsRecompute  == \A i \in DOMAIN rows : RowRecomputes(rows[i])
AnchorsVerify  == \A i \in DOMAIN anchors : AnchorSignatureOK(anchors[i])

Verdict ==
    /\ IsList
    /\ AllOk =>
          /\ pc \in AfterParse     => parse_errors = 0
          /\ pc \in AfterHeader    => HeaderIsChain
          /\ pc \in AfterTerminal  => ManifestIsLast
          /\ pc \in AfterCounts    => CountsAgree
          /\ pc \in AfterRecompute => RowsRecompute
          /\ pc \in AfterLinkage   => RowsLink
          /\ pc \in AfterAnchors   => AnchorsVerify
          /\ pc \in AfterHeads     => HeadsBind
          /\ pc \in AfterLinks     => AnchorsLink
          /\ pc \in AfterCoverage  => TailDeclared

-----------------------------------------------------------------------------
(* Lookups *)

(* A key that is found is one the text declares, under the id asked for.   *)
LEMMA KeyFound ==
    ASSUME Loaded, NEW kid, KeyById(kid) # None
    PROVE  KeyById(kid) \in DeclaredKeys /\ KeyById(kid).key_id = kid
<1> DEFINE I == {i \in DOMAIN keys : keys[i].key_id = kid}
<1>1. KeyById(kid) = IF I = {} THEN None ELSE keys[Max(I)]
  BY DEF KeyById, LastWith
<1>2. Len(keys) \in Nat /\ I \subseteq 1..Len(keys) /\ keys \in Seq(DeclaredKeys)
  BY DEF Loaded, Lists
<1>3. Max(I) \in I
  BY <1>1, <1>2, MaxIn
<1> QED BY <1>1, <1>2, <1>3

-----------------------------------------------------------------------------
(* The checks leave the locals alone *)

(* What no step of a check changes. *)
LEMMA LoadedStable ==
    ASSUME Loaded, UNCHANGED <<pack, line, loaded>>, pc' # "idle",
           pc' \in {"parse", "report", "panic"} \cup CheckNames,
           pc' \notin {"idle", "parse"} => line = Len(pack) + 1
    PROVE  Loaded'
<1>1. Place'
  BY DEF Loaded, Place, loaded, LinesOf
<1>2. Lists'
  BY DEF Loaded, Lists, loaded, Before, LinesOf, Bodies, DeclaredKeys
<1>3. Counters'
  BY DEF Loaded, Counters, loaded, Before, LinesOf
<1>4. Ends'
  BY DEF Loaded, Ends, loaded, Before, LinesOf, Bodies, LastManifest
<1> QED BY <1>1, <1>2, <1>3, <1>4 DEF Loaded

(* The outcome of a check does not depend on when it is asked for.         *)
LEMMA OutcomesStable ==
    ASSUME UNCHANGED <<pack, line, loaded>>
    PROVE  /\ parse_errors' = parse_errors
           /\ HeaderIsChain' <=> HeaderIsChain
           /\ ManifestIsLast' <=> ManifestIsLast
           /\ CountsAgree' <=> CountsAgree
           /\ RowsRecompute' <=> RowsRecompute
           /\ AnchorsVerify' <=> AnchorsVerify
           /\ RowsLink' <=> RowsLink
           /\ HeadsBind' <=> HeadsBind
           /\ AnchorsLink' <=> AnchorsLink
           /\ TailDeclared' <=> TailDeclared
<1> USE DEF loaded
<1>1. parse_errors' = parse_errors /\ (HeaderIsChain' <=> HeaderIsChain)
      /\ (ManifestIsLast' <=> ManifestIsLast)
  BY DEF HeaderIsChain, ManifestIsLast
<1>2. CountsAgree' <=> CountsAgree
  BY DEF CountsAgree, CountsOK, Table
<1>3. RowsRecompute' <=> RowsRecompute
  BY DEF RowsRecompute, RowRecomputes
<1>4. AnchorsVerify' <=> AnchorsVerify
  BY DEF AnchorsVerify, AnchorSignatureOK, KeyById, LastWith, Table
<1>5. InOrder' = InOrder /\ AnchorsById' = AnchorsById
  BY DEF InOrder, AnchorsById, Sorted, Arranged
<1>6. RowsLink' <=> RowsLink
  BY <1>5 DEF RowsLink, StartsCleanly, Follows
<1>7. HeadsBind' <=> HeadsBind
  <2>1. \A seq : EntryBySeq(seq)' = EntryBySeq(seq)
    BY <1>5 DEF EntryBySeq, LastWith
  <2>2. \A a : BindsHead(a)' <=> BindsHead(a)
    BY <2>1 DEF BindsHead
  <2>3. \A i : Tiles(i)' <=> Tiles(i)
    BY <1>5 DEF Tiles
  <2> QED BY <1>5, <2>2, <2>3 DEF HeadsBind
<1>8. AnchorsLink' <=> AnchorsLink
  BY <1>5 DEF AnchorsLink, LinksTo
<1>9. TailDeclared' <=> TailDeclared
  BY <1>5 DEF TailDeclared, LastRow, LastAnchored
<1> QED BY <1>1, <1>2, <1>3, <1>4, <1>6, <1>7, <1>8, <1>9

(* One more finding: all are well exactly if the earlier ones and it are.  *)
LEMMA Appended ==
    ASSUME IsList, NEW x, findings' = Append(findings, x)
    PROVE  IsList' /\ (AllOk' => AllOk /\ x.ok)
  BY OneMore DEF IsList, AllOk

(* A finding recorded at pc = check goes with the step to the next check.  *)
LEMMA Recorded ==
    ASSUME IsList, NEW check, NEW ok, NEW next, Record(check, ok, next)
    PROVE  /\ IsList'
           /\ AllOk' => AllOk /\ ok
           /\ pc = check /\ pc' = next
           /\ UNCHANGED <<pack, line, loaded>>
<1>1. IsList' /\ (AllOk' => AllOk /\ [check |-> check, ok |-> ok].ok)
  BY Appended DEF Record
<1> QED BY <1>1 DEF Record

(* A check left out adds no finding.                                       *)
LEMMA Skipped ==
    ASSUME IsList, NEW check, NEW next, Skip(check, next)
    PROVE  /\ IsList'
           /\ AllOk' => AllOk
           /\ pc = check /\ pc' = next
           /\ UNCHANGED <<pack, line, loaded>>
  BY DEF Skip, AllOk, IsList

(* Each check establishes its own condition and keeps the earlier ones.    *)
LEMMA CheckVerdict ==
    ASSUME Loaded, Verdict, Check
    PROVE  /\ Verdict'
           /\ UNCHANGED <<pack, line, loaded>>
           /\ pc \notin {"idle", "parse"} /\ pc' \notin {"idle", "parse"}
           /\ pc' \in {"report", "panic"} \cup CheckNames
<1> USE DEF AfterParse, AfterHeader, AfterTerminal, AfterCounts, AfterRecompute,
            AfterLinkage, AfterAnchors, AfterHeads, AfterLinks, AfterCoverage, CheckNames
<1>f. IsList
  BY DEF Verdict
<1>1. CASE CheckParse
  <2>1. /\ IsList'
        /\ AllOk' => AllOk /\ parse_errors = 0
        /\ pc = "structure.parse" /\ pc' = "structure.header"
        /\ UNCHANGED <<pack, line, loaded>>
    <3>1. PICK x : x = [check |-> "structure.parse", ok |-> parse_errors = 0]
      OBVIOUS
    <3>2. findings' = Append(findings, x)
      BY <1>1, <3>1 DEF CheckParse, Record
    <3>3. x.ok <=> parse_errors = 0
      BY <3>1
    <3>4. IsList' /\ (AllOk' => AllOk /\ x.ok)
      BY <1>f, <3>2, Appended
    <3> QED BY <1>1, <3>3, <3>4 DEF CheckParse, Record
  <2> QED BY <2>1, OutcomesStable DEF Verdict
<1>2. CASE CheckHeader
  <2>1. /\ IsList'
        /\ AllOk' => AllOk /\ HeaderIsChain
        /\ pc = "structure.header" /\ pc' = "structure.manifest_terminal"
        /\ UNCHANGED <<pack, line, loaded>>
    BY <1>2, <1>f, Recorded DEF CheckHeader, HeaderIsChain
  <2> QED BY <2>1, OutcomesStable DEF Verdict
<1>3. CASE CheckManifestTerminal
  <2>1. /\ IsList'
        /\ AllOk' => AllOk /\ ManifestIsLast
        /\ pc = "structure.manifest_terminal" /\ pc' = "structure.counts"
        /\ UNCHANGED <<pack, line, loaded>>
    BY <1>3, <1>f, Recorded DEF CheckManifestTerminal, ManifestIsLast
  <2> QED BY <2>1, OutcomesStable DEF Verdict
<1>4. CASE CheckCounts
  <2>1. /\ IsList'
        /\ AllOk' => AllOk /\ CountsAgree
        /\ pc = "structure.counts" /\ pc' = "signing_keys"
        /\ UNCHANGED <<pack, line, loaded>>
    <3>1. CASE manifest # None
      BY <1>4, <1>f, <3>1, Recorded DEF CheckCounts, CountsAgree
    <3>2. CASE manifest = None
      BY <1>4, <1>f, <3>2, Skipped DEF CheckCounts, CountsAgree
    <3> QED BY <3>1, <3>2
  <2> QED BY <2>1, OutcomesStable DEF Verdict
<1>5. CASE CheckSigningKeys
  <2>1. /\ IsList'
        /\ AllOk' => AllOk
        /\ pc = "signing_keys" /\ pc' = "row_recompute"
        /\ UNCHANGED <<pack, line, loaded>>
    BY <1>5, <1>f, Recorded DEF CheckSigningKeys
  <2> QED BY <2>1, OutcomesStable DEF Verdict
<1>6. CASE CheckRowRecompute
  <2>1. /\ IsList'
        /\ AllOk' => AllOk
        /\ pc = "row_recompute" /\ pc' \in {"linkage", "panic"}
        /\ AllOk' => pc' = "panic" \/ RowsRecompute
        /\ UNCHANGED <<pack, line, loaded>>
    <3>1. CASE RowsOverflow
      BY <1>6, <1>f, <3>1, Skipped DEF CheckRowRecompute
    <3>2. CASE ~RowsOverflow
      BY <1>6, <1>f, <3>2, Recorded DEF CheckRowRecompute, RowsRecompute
    <3> QED BY <3>1, <3>2
  <2> QED BY <2>1, OutcomesStable DEF Verdict
<1>7. CASE CheckLinkage
  <2>1. /\ IsList'
        /\ AllOk' => AllOk /\ RowsLink
        /\ pc = "linkage" /\ pc' = "anchor_signature"
        /\ UNCHANGED <<pack, line, loaded>>
    BY <1>7, <1>f, Recorded DEF CheckLinkage
  <2> QED BY <2>1, OutcomesStable DEF Verdict
<1>8. CASE CheckAnchorSignature
  <2>1. /\ IsList'
        /\ AllOk' => AllOk /\ AnchorsVerify
        /\ pc = "anchor_signature" /\ pc' = "head_binding"
        /\ UNCHANGED <<pack, line, loaded>>
    BY <1>8, <1>f, Recorded DEF CheckAnchorSignature, AnchorsVerify
  <2> QED BY <2>1, OutcomesStable DEF Verdict
<1>9. CASE CheckHeadBinding
  <2>1. /\ IsList'
        /\ AllOk' => AllOk
        /\ pc = "head_binding" /\ pc' \in {"anchor_continuity", "panic"}
        /\ AllOk' => pc' = "panic" \/ HeadsBind
        /\ UNCHANGED <<pack, line, loaded>>
    <3>1. CASE AnchorsOverflow
      BY <1>9, <1>f, <3>1, Skipped DEF CheckHeadBinding
    <3>2. CASE ~AnchorsOverflow
      BY <1>9, <1>f, <3>2, Recorded DEF CheckHeadBinding
    <3> QED BY <3>1, <3>2
  <2> QED BY <2>1, OutcomesStable DEF Verdict
<1>10. CASE CheckContinuity
  <2>1. /\ IsList'
        /\ AllOk' => AllOk /\ AnchorsLink
        /\ pc = "anchor_continuity" /\ pc' = "coverage"
        /\ UNCHANGED <<pack, line, loaded>>
    BY <1>10, <1>f, Recorded DEF CheckContinuity
  <2> QED BY <2>1, OutcomesStable DEF Verdict
<1>11. CASE CheckCoverage
  <2>1. /\ IsList'
        /\ AllOk' => AllOk
        /\ pc = "coverage" /\ pc' \in {"report", "panic"}
        /\ AllOk' => pc' = "panic" \/ TailDeclared
        /\ UNCHANGED <<pack, line, loaded>>
    <3>1. CASE TailOverflows
      BY <1>11, <1>f, <3>1, Skipped DEF CheckCoverage
    <3>2. CASE ~TailOverflows
      BY <1>11, <1>f, <3>2, Recorded DEF CheckCoverage
    <3> QED BY <3>1, <3>2
  <2> QED BY <2>1, OutcomesStable DEF Verdict
<1> QED BY <1>1, <1>2, <1>3, <1>4, <1>5, <1>6, <1>7, <1>8, <1>9, <1>10, <1>11
        DEF Check

-----------------------------------------------------------------------------
(* One line read *)

(* What the text holds does not change while it is read; the line read     *)
(* joins the lines of its kind, and only those.                            *)
LEMMA LineRead ==
    ASSUME Place, NEW kind, AtLine(kind)
    PROVE  /\ Place'
           /\ line \in LinesOf(kind) /\ line \notin Before(kind)
           /\ Before(kind)' = Before(kind) \cup {line}
           /\ \A k : k # kind => Before(k)' = Before(k)
           /\ \A k : LinesOf(k)' = LinesOf(k) /\ Bodies(k)' = Bodies(k)
           /\ DeclaredKeys' = DeclaredKeys
           /\ pack' = pack /\ line' = line + 1 /\ line \in Nat
<1>1. /\ pack' = pack /\ line' = line + 1 /\ pc' = pc /\ pc = "parse"
      /\ line \in 1..Len(pack) /\ Len(pack) \in Nat /\ DOMAIN pack = 1..Len(pack)
      /\ pack[line].kind = kind
  BY DEF Place, AtLine
<1>2. Place'
  BY <1>1 DEF Place, LinesOf
<1>3. \A k : LinesOf(k)' = LinesOf(k) /\ Bodies(k)' = Bodies(k)
  BY <1>1 DEF LinesOf, Bodies
<1>4. line \in LinesOf(kind) /\ line \notin Before(kind)
  BY <1>1 DEF LinesOf, Before
<1>5. \A k : Before(k)' = {i \in LinesOf(k) : i < line + 1}
  BY <1>1 DEF Before, LinesOf
<1>6. \A k : \A i \in LinesOf(k) : i \in 1..Len(pack) /\ (i = line => k = kind)
  BY <1>1 DEF LinesOf
<1>7. Before(kind)' = Before(kind) \cup {line}
  <2>1. \A i \in LinesOf(kind) : i < line + 1 <=> i < line \/ i = line
    BY <1>1, <1>6
  <2> QED BY <1>4, <1>5, <2>1 DEF Before
<1>8. ASSUME NEW k, k # kind PROVE Before(k)' = Before(k)
  <2>1. \A i \in LinesOf(k) : i < line + 1 <=> i < line
    BY <1>1, <1>6, <1>8
  <2> QED BY <1>5, <2>1 DEF Before
<1>9. DeclaredKeys' = DeclaredKeys
  BY <1>3 DEF DeclaredKeys
<1> QED BY <1>1, <1>2, <1>3, <1>4, <1>7, <1>8, <1>9

(* The lines read so far can be counted, and a line more counts one more.  *)
LEMMA LinesCounted ==
    ASSUME Place, NEW S, S \subseteq DOMAIN pack
    PROVE  /\ IsFiniteSet(S) /\ Cardinality(S) \in Nat
           /\ \A x : x \notin S => Cardinality(S \cup {x}) = Cardinality(S) + 1
<1>1. IsFiniteSet(1..Len(pack))
  <2>1. Len(pack) \in Int /\ 1 \in Int
    BY DEF Place
  <2> QED BY <2>1, FS_Interval
<1>2. IsFiniteSet(S)
  BY <1>1, FS_Subset DEF Place
<1> QED BY <1>2, FS_CardinalityType, FS_AddElement

(* A line of a kind the locals do not collect leaves Lists as it is.       *)
LEMMA ListsKept ==
    ASSUME Place, Lists, NEW kind, AtLine(kind),
           kind # "chain_row", kind # "chain_anchor",
           keys' \in Seq(DeclaredKeys), UNCHANGED <<rows, anchors>>
    PROVE  Lists'
<1>1. /\ Before("chain_row")' = Before("chain_row")
      /\ Before("chain_anchor")' = Before("chain_anchor")
      /\ Bodies("chain_row")' = Bodies("chain_row")
      /\ Bodies("chain_anchor")' = Bodies("chain_anchor")
      /\ DeclaredKeys' = DeclaredKeys
      /\ pack' = pack
  BY LineRead
<1> QED BY <1>1 DEF Lists

(* Likewise Counters, but for the counter of malformed lines.              *)
LEMMA CountersKept ==
    ASSUME Place, Lists, Counters, NEW kind, AtLine(kind),
           kind # "chain_row", kind # "chain_anchor",
           parse_errors' = IF kind = "malformed" THEN parse_errors + 1 ELSE parse_errors,
           UNCHANGED <<rows, anchors>>
    PROVE  Counters'
<1>1. /\ Before(kind)' = Before(kind) \cup {line} /\ line \notin Before(kind)
      /\ \A k : k # kind => Before(k)' = Before(k)
      /\ line' = line + 1 /\ line \in Nat
  BY LineRead
<1>2. Cardinality(Before("malformed")) \in Nat
  BY LinesCounted DEF Before, LinesOf
<1>3. Cardinality(Before(kind)') = Cardinality(Before(kind)) + 1
  BY <1>1, LinesCounted DEF Before, LinesOf
<1>4. parse_errors' = Cardinality(Before("malformed")')
  <2>1. CASE kind = "malformed"
    BY <1>3, <2>1 DEF Counters
  <2>2. CASE kind # "malformed"
    BY <1>1, <2>2 DEF Counters
  <2> QED BY <2>1, <2>2
<1>5. /\ Before("chain_row")' = Before("chain_row")
      /\ Before("chain_anchor")' = Before("chain_anchor")
  BY <1>1
<1>6. Len(rows) \in Nat /\ Len(anchors) \in Nat
  BY DEF Lists
<1>7. parse_errors' + Len(rows') + Len(anchors') < line'
  BY <1>1, <1>2, <1>6 DEF Counters
<1> QED BY <1>4, <1>5, <1>7 DEF Counters

(* A line that is neither a header, nor a manifest, nor blank.             *)
LEMMA EndsKept ==
    ASSUME Place, Ends, NEW kind, AtLine(kind),
           last_was_manifest' = FALSE,
           header' # None => header' = header \/ header' \in Bodies("header")
    PROVE  Ends'
<1>1. Bodies("header")' = Bodies("header")
  BY LineRead
<1> QED BY <1>1 DEF Ends

(* Each turn of the parse loop keeps Loaded.                               *)
LEMMA ReadKeepsLoaded ==
    ASSUME Loaded, Parse
    PROVE  Loaded'
<1> USE DEF Loaded
<1>1. CASE ReadBlank
  <2>1. AtLine("blank") /\ UNCHANGED loaded
    BY <1>1 DEF ReadBlank
  <2>2. Place' /\ Lists' /\ Counters'
    BY <2>1, LineRead, ListsKept, CountersKept DEF loaded, Lists
  <2>3. Ends'
    <3>1. /\ Before("manifest")' = Before("manifest") /\ Bodies("header")' = Bodies("header")
          /\ pack' = pack /\ line' = line + 1 /\ pack[line].kind = "blank"
          /\ DOMAIN pack = 1..Len(pack) /\ line \in Nat
      BY <2>1, LineRead DEF AtLine, Place
    <3>2. ASSUME NEW i, LastManifest(i) PROVE LastManifest(i)'
      <4>1. \A j \in 1..Len(pack) : j < line + 1 => j < line \/ j = line
        BY <3>1
      <4> QED BY <2>1, <3>1, <3>2, <4>1 DEF LastManifest, loaded
    <3> QED BY <2>1, <3>1, <3>2 DEF Ends, loaded
  <2> QED BY <2>2, <2>3
<1>2. CASE ReadHeader
  <2>1. AtLine("header") /\ UNCHANGED <<keys, rows, anchors, parse_errors>>
    BY <1>2 DEF ReadHeader
  <2>2. Place' /\ Lists' /\ Counters'
    BY <2>1, LineRead, ListsKept, CountersKept DEF Lists
  <2>3. pack[line].body \in Bodies("header")
    BY <2>1, LineRead DEF Bodies
  <2>4. Ends'
    BY <1>2, <2>1, <2>3, EndsKept DEF ReadHeader, body
  <2> QED BY <2>2, <2>4
<1>3. CASE ReadSigningKeys
  <2>1. /\ AtLine("signing_keys")
        /\ UNCHANGED <<header, rows, anchors, parse_errors>>
        /\ keys' = keys \o pack[line].body.keys /\ last_was_manifest' = FALSE
    BY <1>3 DEF ReadSigningKeys, body
  <2>2. keys' \in Seq(DeclaredKeys)
    <3>1. line \in LinesOf("signing_keys")
      BY <2>1, LineRead
    <3>2. PICK b : b = pack[line].body.keys
      OBVIOUS
    <3>3. b \in Seq(Range(b)) /\ Range(b) \subseteq DeclaredKeys
      BY <3>1, <3>2 DEF Place, DeclaredKeys, Bodies
    <3>4. b \in Seq(DeclaredKeys)
      BY <3>3
    <3> QED BY <2>1, <3>2, <3>4 DEF Lists
  <2>3. Place' /\ Lists' /\ Counters' /\ Ends'
    BY <2>1, <2>2, LineRead, ListsKept, CountersKept, EndsKept
  <2> QED BY <2>3
<1>4. CASE ReadManifest
  <2>1. /\ AtLine("manifest") /\ manifest' = pack[line].body
        /\ last_was_manifest' = TRUE
        /\ UNCHANGED <<header, keys, rows, anchors, parse_errors>>
    BY <1>4 DEF ReadManifest, body
  <2>2. Place' /\ Lists' /\ Counters'
    BY <2>1, LineRead, ListsKept, CountersKept DEF Lists
  <2>3. Ends'
    <3>1. /\ Before("manifest")' = Before("manifest") \cup {line}
          /\ Bodies("header")' = Bodies("header")
          /\ pack' = pack /\ line' = line + 1 /\ line \in Nat
          /\ DOMAIN pack = 1..Len(pack)
      BY <2>1, LineRead DEF Place
    <3>2. PICK l : l = line
      OBVIOUS
    <3>3. \A j \in 1..Len(pack) : ~(l < j /\ j < line + 1)
      BY <3>1, <3>2
    <3>4. LastManifest(l)'
      BY <2>1, <3>1, <3>2, <3>3 DEF LastManifest
    <3> QED BY <2>1, <3>1, <3>2, <3>4 DEF Ends
  <2> QED BY <2>2, <2>3
<1>5. CASE ReadOther
  <2>1. AtLine("other") /\ UNCHANGED <<header, keys, rows, anchors, parse_errors>>
        /\ last_was_manifest' = FALSE
    BY <1>5 DEF ReadOther
  <2>2. Place' /\ Lists' /\ Counters' /\ Ends'
    BY <2>1, LineRead, ListsKept, CountersKept, EndsKept DEF Lists
  <2> QED BY <2>2
<1>6. CASE ReadMalformed
  <2>1. AtLine("malformed") /\ UNCHANGED <<header, keys, rows, anchors>>
        /\ parse_errors' = parse_errors + 1 /\ last_was_manifest' = FALSE
    BY <1>6 DEF ReadMalformed
  <2>2. Place' /\ Lists' /\ Counters' /\ Ends'
    BY <2>1, LineRead, ListsKept, CountersKept, EndsKept DEF Lists
  <2> QED BY <2>2
<1>7. CASE ReadChainRow
  <2>1. /\ AtLine("chain_row") /\ rows' = Append(rows, pack[line].body)
        /\ last_was_manifest' = FALSE
        /\ UNCHANGED <<header, keys, anchors, parse_errors>>
    BY <1>7 DEF ReadChainRow, body
  <2>2. /\ Place' /\ line \in LinesOf("chain_row") /\ line \notin Before("chain_row")
        /\ Before("chain_row")' = Before("chain_row") \cup {line}
        /\ \A k : k # "chain_row" => Before(k)' = Before(k)
        /\ \A k : Bodies(k)' = Bodies(k)
        /\ DeclaredKeys' = DeclaredKeys
        /\ pack' = pack /\ line' = line + 1 /\ line \in Nat
    BY <2>1, LineRead
  <2>3. PICK b, n : b = pack[line].body /\ n = Len(rows) + 1
    OBVIOUS
  <2>4. b \in Bodies("chain_row")
    BY <2>2, <2>3 DEF Bodies
  <2>5. /\ rows' \in Seq(Bodies("chain_row")) /\ Len(rows') = n /\ Len(rows) \in Nat
        /\ DOMAIN rows = 1..Len(rows) /\ DOMAIN rows' = 1..n /\ rows'[n] = b
        /\ \A k \in 1..Len(rows) : rows'[k] = rows[k]
    BY <2>1, <2>3, <2>4, ListGrows DEF Lists
  <2>6. Lists'
    <3>1. \A i \in Before("chain_row")' : \E k \in DOMAIN rows' : rows'[k] = pack[i].body
      <4> TAKE i \in Before("chain_row")'
      <4>1. CASE i = line
        BY <2>3, <2>5, <4>1
      <4>2. CASE i \in Before("chain_row")
        <5>1. PICK k \in 1..Len(rows) : rows[k] = pack[i].body
          BY <2>5, <4>2 DEF Lists
        <5>2. k \in 1..n
          BY <2>3, <2>5
        <5> QED BY <2>5, <5>1, <5>2
      <4> QED BY <2>2, <4>1, <4>2
    <3>2. Before("chain_anchor")' = Before("chain_anchor")
      BY <2>2
    <3> QED BY <2>1, <2>2, <2>5, <3>1, <3>2 DEF Lists
  <2>7. Counters'
    <3>1. Cardinality(Before("chain_row")') = Cardinality(Before("chain_row")) + 1
      BY <2>2, LinesCounted DEF Before, LinesOf
    <3>2. /\ Before("malformed")' = Before("malformed")
          /\ Before("chain_anchor")' = Before("chain_anchor")
      BY <2>2
    <3>3. Cardinality(Before("malformed")) \in Nat /\ Len(anchors) \in Nat
      BY LinesCounted DEF Before, LinesOf, Lists
    <3>4. parse_errors' + Len(rows') + Len(anchors') < line'
      BY <2>1, <2>2, <2>3, <2>5, <3>3 DEF Counters
    <3> QED BY <2>1, <2>3, <2>5, <3>1, <3>2, <3>4 DEF Counters
  <2>8. Ends'
    BY <2>1, EndsKept
  <2> QED BY <2>2, <2>6, <2>7, <2>8
<1>8. CASE ReadChainAnchor
  <2>1. /\ AtLine("chain_anchor") /\ anchors' = Append(anchors, pack[line].body)
        /\ last_was_manifest' = FALSE
        /\ UNCHANGED <<header, keys, rows, parse_errors>>
    BY <1>8 DEF ReadChainAnchor, body
  <2>2. /\ Place' /\ line \in LinesOf("chain_anchor") /\ line \notin Before("chain_anchor")
        /\ Before("chain_anchor")' = Before("chain_anchor") \cup {line}
        /\ \A k : k # "chain_anchor" => Before(k)' = Before(k)
        /\ \A k : Bodies(k)' = Bodies(k)
        /\ DeclaredKeys' = DeclaredKeys
        /\ pack' = pack /\ line' = line + 1 /\ line \in Nat
    BY <2>1, LineRead
  <2>3. PICK b, n : b = pack[line].body /\ n = Len(anchors) + 1
    OBVIOUS
  <2>4. b \in Bodies("chain_anchor")
    BY <2>2, <2>3 DEF Bodies
  <2>5. /\ anchors' \in Seq(Bodies("chain_anchor")) /\ Len(anchors') = n /\ Len(anchors) \in Nat
        /\ DOMAIN anchors = 1..Len(anchors) /\ DOMAIN anchors' = 1..n /\ anchors'[n] = b
        /\ \A k \in 1..Len(anchors) : anchors'[k] = anchors[k]
    BY <2>1, <2>3, <2>4, ListGrows DEF Lists
  <2>6. Lists'
    <3>1. \A i \in Before("chain_anchor")' : \E k \in DOMAIN anchors' : anchors'[k] = pack[i].body
      <4> TAKE i \in Before("chain_anchor")'
      <4>1. CASE i = line
        BY <2>3, <2>5, <4>1
      <4>2. CASE i \in Before("chain_anchor")
        <5>1. PICK k \in 1..Len(anchors) : anchors[k] = pack[i].body
          BY <2>5, <4>2 DEF Lists
        <5>2. k \in 1..n
          BY <2>3, <2>5
        <5> QED BY <2>5, <5>1, <5>2
      <4> QED BY <2>2, <4>1, <4>2
    <3>2. Before("chain_row")' = Before("chain_row")
      BY <2>2
    <3> QED BY <2>1, <2>2, <2>5, <3>1, <3>2 DEF Lists
  <2>7. Counters'
    <3>1. Cardinality(Before("chain_anchor")') = Cardinality(Before("chain_anchor")) + 1
      BY <2>2, LinesCounted DEF Before, LinesOf
    <3>2. /\ Before("malformed")' = Before("malformed")
          /\ Before("chain_row")' = Before("chain_row")
      BY <2>2
    <3>3. Cardinality(Before("malformed")) \in Nat /\ Len(rows) \in Nat
      BY LinesCounted DEF Before, LinesOf, Lists
    <3>4. parse_errors' + Len(rows') + Len(anchors') < line'
      BY <2>1, <2>2, <2>3, <2>5, <3>3 DEF Counters
    <3> QED BY <2>1, <2>3, <2>5, <3>1, <3>2, <3>4 DEF Counters
  <2>8. Ends'
    BY <2>1, EndsKept
  <2> QED BY <2>2, <2>6, <2>7, <2>8
<1>9. CASE ParseDone
  <2>1. /\ UNCHANGED <<pack, line, loaded>> /\ pc' = "structure.parse" /\ pc = "parse"
        /\ line > Len(pack)
    BY <1>9 DEF ParseDone
  <2>2. "structure.parse" \in CheckNames
    BY DEF CheckNames
  <2>3. line = Len(pack) + 1
    BY <2>1 DEF Place
  <2> QED BY <2>1, <2>2, <2>3, LoadedStable
<1> QED BY <1>1, <1>2, <1>3, <1>4, <1>5, <1>6, <1>7, <1>8, <1>9 DEF Parse

-----------------------------------------------------------------------------
(* The invariant holds *)

Inv == Loaded /\ Verdict

(* Before a pack is submitted there is nothing to describe.                *)
LEMMA InitInv == Init => Inv
<1> SUFFICES ASSUME Init PROVE Inv
  OBVIOUS
<1>1. Place
  BY DEF Init, Place, LinesOf
<1>2. \A k : Before(k) = {}
  BY DEF Init, Before, LinesOf
<1>3. Lists
  BY <1>2 DEF Init, Lists
<1>4. Counters
  BY <1>2, FS_EmptySet DEF Init, Counters
<1>5. Ends
  BY DEF Init, Ends
<1>6. Verdict
  BY DEF Init, Verdict, IsList, AllOk, Range, AfterParse, AfterHeader, AfterTerminal,
     AfterCounts, AfterRecompute, AfterLinkage, AfterAnchors, AfterHeads, AfterLinks,
     AfterCoverage
<1> QED BY <1>1, <1>3, <1>4, <1>5, <1>6 DEF Inv, Loaded

(* Before the first check is behind, Verdict asks nothing of the locals.   *)
LEMMA NothingPassedYet ==
    ASSUME Verdict, UNCHANGED findings, pc' \in {"parse", "structure.parse"}
    PROVE  Verdict'
  BY DEF Verdict, IsList, AfterParse, AfterHeader, AfterTerminal, AfterCounts,
     AfterRecompute, AfterLinkage, AfterAnchors, AfterHeads, AfterLinks, AfterCoverage

(* A submitted pack has no line read yet.                                  *)
LEMMA SubmitKeepsLoaded ==
    ASSUME Loaded, NEW p, IsText(p), Submit(p)
    PROVE  Loaded'
<1>1. /\ pc = "idle" /\ pc' = "parse" /\ pack' = p
      /\ line' = 1 /\ header' = None /\ keys' = <<>> /\ rows' = <<>> /\ anchors' = <<>>
      /\ parse_errors' = 0 /\ last_was_manifest' = FALSE
  BY DEF Loaded, Place, Submit, loaded
<1>2. Place'
  BY <1>1 DEF Place, LinesOf, IsText
<1>3. \A k : Before(k)' = {}
  <2>1. \A i \in 1..Len(p) : ~(i < 1)
    BY DEF IsText
  <2> QED BY <1>1, <2>1 DEF Before, LinesOf, IsText
<1>4. Lists'
  BY <1>1, <1>3 DEF Lists
<1>5. Counters'
  <2>1. Len(rows') = 0 /\ Len(anchors') = 0
    BY <1>1
  <2>2. \A k : Cardinality(Before(k)') = 0
    BY <1>3, FS_EmptySet
  <2> QED BY <1>1, <2>1, <2>2 DEF Counters
<1>6. Ends'
  BY <1>1 DEF Ends
<1> QED BY <1>2, <1>4, <1>5, <1>6 DEF Loaded

(* Every step of verify_chain() keeps both halves of the invariant.        *)
LEMMA StepInv ==
    ASSUME Inv, VerifyChain \/ (\E p : IsText(p) /\ Submit(p)) \/ UNCHANGED vars
    PROVE  Inv'
<1> USE DEF Inv
<1>1. CASE Parse
  <2>1. UNCHANGED findings /\ pc' \in {"parse", "structure.parse"}
    BY <1>1 DEF Parse, ReadBlank, ReadHeader, ReadSigningKeys, ReadChainRow,
       ReadChainAnchor, ReadManifest, ReadOther, ReadMalformed, ParseDone, AtLine
  <2> QED BY <1>1, <2>1, ReadKeepsLoaded, NothingPassedYet
<1>2. CASE Check
  <2>1. /\ Verdict' /\ UNCHANGED <<pack, line, loaded>>
        /\ pc \notin {"idle", "parse"} /\ pc' \notin {"idle", "parse"}
        /\ pc' \in {"report", "panic"} \cup CheckNames
    BY <1>2, CheckVerdict
  <2>2. line = Len(pack) + 1
    BY <2>1 DEF Loaded, Place
  <2> QED BY <2>1, <2>2, LoadedStable
<1>3. CASE \E p : IsText(p) /\ Submit(p)
  <2>1. PICK p : IsText(p) /\ Submit(p)
    BY <1>3
  <2>2. UNCHANGED findings /\ pc' = "parse"
    BY <2>1 DEF Submit
  <2> QED BY <2>1, <2>2, SubmitKeepsLoaded, NothingPassedYet
<1>4. CASE UNCHANGED vars
  <2>1. UNCHANGED <<pack, line, loaded>> /\ UNCHANGED <<pc, findings>>
    BY <1>4 DEF vars
  <2>2. Loaded'
    <3>1. Place'
      BY <2>1 DEF Loaded, Place, loaded, LinesOf
    <3>2. Lists'
      BY <2>1 DEF Loaded, Lists, loaded, Before, LinesOf, Bodies, DeclaredKeys
    <3>3. Counters'
      BY <2>1 DEF Loaded, Counters, loaded, Before, LinesOf
    <3>4. Ends'
      BY <2>1 DEF Loaded, Ends, loaded, Before, LinesOf, Bodies, LastManifest
    <3> QED BY <3>1, <3>2, <3>3, <3>4 DEF Loaded
  <2>3. Verdict'
    BY <2>1, OutcomesStable DEF Verdict, IsList, AllOk, AfterParse, AfterHeader,
       AfterTerminal, AfterCounts, AfterRecompute, AfterLinkage, AfterAnchors,
       AfterHeads, AfterLinks, AfterCoverage
  <2> QED BY <2>2, <2>3
<1> QED BY <1>1, <1>2, <1>3, <1>4 DEF VerifyChain

(* verify_chain() at work, and a new pack handed to it.                    *)
LEMMA NextInv == Inv /\ [Next]_vars => Inv'
  BY StepInv, ChainPacksAssumption DEF Next

(* Loaded and Verdict hold throughout.                                     *)
LEMMA Invariant == Spec => []Inv
  BY InitInv, NextInv, PTL DEF Spec

(* The rows and the anchors are those of the lines read so far, in their   *)
(* order.                                                                  *)
Listing ==
    /\ Collected(rows, pack, Before("chain_row"))
    /\ Collected(anchors, pack, Before("chain_anchor"))

(* Nothing is read yet.                                                    *)
LEMMA InitListing == Init => Listing
<1> SUFFICES ASSUME Init PROVE Listing
  OBVIOUS
<1>1. rows = <<>> /\ anchors = <<>> /\ \A k : Before(k) = {}
  BY DEF Init, Before, LinesOf
<1> QED BY <1>1, NoneCollected DEF Listing

(* A line read is appended to its list; no check touches the lists.        *)
LEMMA StepListing ==
    ASSUME Inv, Listing,
           VerifyChain \/ (\E p : IsText(p) /\ Submit(p)) \/ UNCHANGED vars
    PROVE  Listing'
<1>1. CASE UNCHANGED <<pack, line, loaded>>
  BY <1>1 DEF Listing, Before, LinesOf, loaded
<1>2. CASE Check
  BY <1>1, <1>2, CheckVerdict DEF Inv
<1>3. ASSUME NEW kind, AtLine(kind), UNCHANGED <<rows, anchors>>,
             kind # "chain_row", kind # "chain_anchor"
      PROVE  Listing'
  <2>1. /\ Before("chain_row")' = Before("chain_row")
        /\ Before("chain_anchor")' = Before("chain_anchor") /\ pack' = pack
    BY <1>3, LineRead DEF Inv, Loaded
  <2> QED BY <1>3, <2>1 DEF Listing
<1>4. CASE ReadChainRow
  <2>1. /\ AtLine("chain_row") /\ rows' = Append(rows, pack[line].body)
        /\ anchors' = anchors
    BY <1>4 DEF ReadChainRow, body
  <2>2. /\ Before("chain_row")' = Before("chain_row") \cup {line}
        /\ Before("chain_anchor")' = Before("chain_anchor")
        /\ line \in LinesOf("chain_row") /\ line \in Nat /\ pack' = pack
    BY <2>1, LineRead DEF Inv, Loaded
  <2>3. \A i \in Before("chain_row") : i \in Nat /\ i < line
    BY DEF Before, LinesOf, Inv, Loaded, Place
  <2>4. pack[line].body \in Bodies("chain_row") /\ rows \in Seq(Bodies("chain_row"))
    BY <2>2 DEF Bodies, Inv, Loaded, Lists
  <2>5. Collected(Append(rows, pack[line].body), pack, Before("chain_row") \cup {line})
    BY <2>2, <2>3, <2>4, OneMoreCollected DEF Listing
  <2> QED BY <2>1, <2>2, <2>5 DEF Listing
<1>5. CASE ReadChainAnchor
  <2>1. /\ AtLine("chain_anchor") /\ anchors' = Append(anchors, pack[line].body)
        /\ rows' = rows
    BY <1>5 DEF ReadChainAnchor, body
  <2>2. /\ Before("chain_anchor")' = Before("chain_anchor") \cup {line}
        /\ Before("chain_row")' = Before("chain_row")
        /\ line \in LinesOf("chain_anchor") /\ line \in Nat /\ pack' = pack
    BY <2>1, LineRead DEF Inv, Loaded
  <2>3. \A i \in Before("chain_anchor") : i \in Nat /\ i < line
    BY DEF Before, LinesOf, Inv, Loaded, Place
  <2>4. pack[line].body \in Bodies("chain_anchor") /\ anchors \in Seq(Bodies("chain_anchor"))
    BY <2>2 DEF Bodies, Inv, Loaded, Lists
  <2>5. Collected(Append(anchors, pack[line].body), pack, Before("chain_anchor") \cup {line})
    BY <2>2, <2>3, <2>4, OneMoreCollected DEF Listing
  <2> QED BY <2>1, <2>2, <2>5 DEF Listing
<1>6. CASE \E p : IsText(p) /\ Submit(p)
  <2>1. PICK p : IsText(p) /\ Submit(p)
    BY <1>6
  <2>2. pack' = p /\ line' = 1 /\ rows' = <<>> /\ anchors' = <<>>
    BY <2>1 DEF Submit, Inv, Loaded, Place, loaded
  <2>3. \A k : Before(k)' = {}
    <3>1. \A i \in 1..Len(p) : ~(i < 1)
      BY <2>1 DEF IsText
    <3> QED BY <2>1, <2>2, <3>1 DEF Before, LinesOf, IsText
  <2> QED BY <2>2, <2>3, NoneCollected DEF Listing
<1>7. CASE Parse
  BY <1>1, <1>3, <1>4, <1>5, <1>7 DEF Parse, ReadBlank, ReadHeader, ReadSigningKeys,
     ReadManifest, ReadOther, ReadMalformed, ParseDone, loaded
<1>8. CASE UNCHANGED vars
  BY <1>1, <1>8 DEF vars
<1> QED BY <1>2, <1>6, <1>7, <1>8 DEF VerifyChain

-----------------------------------------------------------------------------
(* The sorted lists *)

(* rows.sort_by_key, anchors.sort_by_key.                                  *)
LEMMA RowsArranged ==
    ASSUME NEW S, rows \in Seq(S), \A i \in DOMAIN rows : rows[i].chain_seq \in Int
    PROVE  ArrangedByKey(InOrder, rows, DOMAIN rows, [i \in DOMAIN rows |-> rows[i].chain_seq])
<1> DEFINE P(i) == {j \in DOMAIN rows :
                         /\ TRUE
                         /\ \/ rows[j].chain_seq < rows[i].chain_seq
                            \/ ~(rows[i].chain_seq < rows[j].chain_seq) /\ j < i}
           At(k) == CHOOSE i \in DOMAIN rows : /\ TRUE
                                               /\ k = 1 + Cardinality(P(i))
           c == [k \in 1..Cardinality(DOMAIN rows) |-> At(k)]
<1>1. PICK key : key = [i \in DOMAIN rows |-> rows[i].chain_seq]
  OBVIOUS
<1>2. /\ Len(rows) \in Nat /\ DOMAIN rows = 1..Len(rows)
      /\ \A i \in DOMAIN rows : key[i] \in Int /\ key[i] = rows[i].chain_seq
  BY <1>1
<1>3. InOrder = [k \in 1..Cardinality(DOMAIN rows) |-> rows[c[k]]] \o <<>>
  <2>1. InOrder = [k \in 1..Cardinality({i \in DOMAIN rows : TRUE}) |-> rows[At(k)]] \o <<>>
    BY DEF InOrder, Sorted, Arranged
  <2>2. {i \in DOMAIN rows : TRUE} = DOMAIN rows
    OBVIOUS
  <2> HIDE DEF At
  <2> QED BY <2>1, <2>2
<1>4. \A i \in DOMAIN rows : P(i) = Under(DOMAIN rows, key, i)
  BY <1>2 DEF Under
<1>5. ASSUME NEW k \in 1..Cardinality(DOMAIN rows),
             \E i \in DOMAIN rows : k = 1 + Cardinality(Under(DOMAIN rows, key, i))
      PROVE  /\ c[k] \in DOMAIN rows
             /\ k = 1 + Cardinality(Under(DOMAIN rows, key, c[k]))
  <2> HIDE DEF P
  <2>1. \E i \in DOMAIN rows : /\ TRUE
                               /\ k = 1 + Cardinality(P(i))
    BY <1>4, <1>5
  <2> QED BY <1>4, <2>1
<1> HIDE DEF c
<1>6. ArrangedByKey(InOrder, rows, DOMAIN rows, key)
  BY <1>2, <1>3, <1>5, Arranging
<1> QED BY <1>1, <1>6

(* The sort by id of the continuity check is AnchorsById.                  *)
LEMMA AnchorsArranged ==
    ASSUME NEW S, anchors \in Seq(S), \A i \in DOMAIN anchors : anchors[i].id \in Int
    PROVE  ArrangedByKey(AnchorsById, anchors, DOMAIN anchors, [i \in DOMAIN anchors |-> anchors[i].id])
<1> DEFINE P(i) == {j \in DOMAIN anchors :
                         /\ TRUE
                         /\ \/ anchors[j].id < anchors[i].id
                            \/ ~(anchors[i].id < anchors[j].id) /\ j < i}
           At(k) == CHOOSE i \in DOMAIN anchors : /\ TRUE
                                              /\ k = 1 + Cardinality(P(i))
           c == [k \in 1..Cardinality(DOMAIN anchors) |-> At(k)]
<1>1. PICK key : key = [i \in DOMAIN anchors |-> anchors[i].id]
  OBVIOUS
<1>2. /\ Len(anchors) \in Nat /\ DOMAIN anchors = 1..Len(anchors)
      /\ \A i \in DOMAIN anchors : key[i] \in Int /\ key[i] = anchors[i].id
  BY <1>1
<1>3. AnchorsById = [k \in 1..Cardinality(DOMAIN anchors) |-> anchors[c[k]]] \o <<>>
  <2>1. AnchorsById = [k \in 1..Cardinality({i \in DOMAIN anchors : TRUE}) |-> anchors[At(k)]] \o <<>>
    BY DEF AnchorsById, Sorted, Arranged
  <2>2. {i \in DOMAIN anchors : TRUE} = DOMAIN anchors
    OBVIOUS
  <2> HIDE DEF At
  <2> QED BY <2>1, <2>2
<1>4. \A i \in DOMAIN anchors : P(i) = Under(DOMAIN anchors, key, i)
  BY <1>2 DEF Under
<1>5. ASSUME NEW k \in 1..Cardinality(DOMAIN anchors),
             \E i \in DOMAIN anchors : k = 1 + Cardinality(Under(DOMAIN anchors, key, i))
      PROVE  /\ c[k] \in DOMAIN anchors
             /\ k = 1 + Cardinality(Under(DOMAIN anchors, key, c[k]))
  <2> HIDE DEF P
  <2>1. \E i \in DOMAIN anchors : /\ TRUE
                                  /\ k = 1 + Cardinality(P(i))
    BY <1>4, <1>5
  <2> QED BY <1>4, <2>1
<1> HIDE DEF c
<1>6. ArrangedByKey(AnchorsById, anchors, DOMAIN anchors, key)
  BY <1>2, <1>3, <1>5, Arranging
<1> QED BY <1>1, <1>6

(* The sorted rows are the rows, from the smallest number to the largest.  *)
LEMMA RowsSorted ==
    ASSUME NEW S, rows \in Seq(S), \A i \in DOMAIN rows : rows[i].chain_seq \in Int
    PROVE  /\ Len(rows) \in Nat /\ DOMAIN rows = 1..Len(rows)
           /\ Len(InOrder) = Len(rows) /\ DOMAIN InOrder = 1..Len(rows)
           /\ \A k \in 1..Len(rows) : \E i \in DOMAIN rows : InOrder[k] = rows[i]
           /\ \A i \in DOMAIN rows : \E k \in 1..Len(rows) : InOrder[k] = rows[i]
           /\ \A j, k \in 1..Len(rows) :
                 j < k => InOrder[j].chain_seq <= InOrder[k].chain_seq
           /\ \E c : /\ Enumerates(DOMAIN rows, c)
                     /\ \A k \in 1..Len(rows) : InOrder[k] = rows[c[k]]
<1>1. PICK key : key = [i \in DOMAIN rows |-> rows[i].chain_seq]
  OBVIOUS
<1>2. Len(rows) \in Nat /\ DOMAIN rows = 1..Len(rows)
      /\ \A i \in DOMAIN rows : key[i] = rows[i].chain_seq
  BY <1>1
<1>3. Cardinality(DOMAIN rows) = Len(rows)
  BY <1>2, CountTo
<1>4. PICK c : /\ EnumeratesByKey(DOMAIN rows, key, c)
               /\ InOrder = [k \in 1..Len(rows) |-> rows[c[k]]]
               /\ Len(InOrder) = Len(rows) /\ DOMAIN InOrder = 1..Len(rows)
  BY <1>1, <1>3, RowsArranged DEF ArrangedByKey
<1>5. /\ \A k \in 1..Len(rows) : c[k] \in DOMAIN rows /\ InOrder[k] = rows[c[k]]
      /\ \A i \in DOMAIN rows : \E k \in 1..Len(rows) : c[k] = i
      /\ Enumerates(DOMAIN rows, c)
      /\ \A j, k \in 1..Len(rows) : j < k =>
            key[c[j]] < key[c[k]] \/ (key[c[j]] = key[c[k]] /\ c[j] < c[k])
  BY <1>3, <1>4 DEF EnumeratesByKey, Enumerates
<1>6. ASSUME NEW j \in 1..Len(rows), NEW k \in 1..Len(rows), j < k
      PROVE  InOrder[j].chain_seq <= InOrder[k].chain_seq
  <2>1. /\ InOrder[j].chain_seq = key[c[j]] /\ InOrder[k].chain_seq = key[c[k]]
        /\ key[c[j]] \in Int /\ key[c[k]] \in Int
    BY <1>2, <1>5
  <2>2. PICK x, y : x = key[c[j]] /\ y = key[c[k]]
    OBVIOUS
  <2>3. x < y \/ x = y
    BY <1>5, <1>6, <2>2
  <2>4. x <= y
    BY <2>1, <2>2, <2>3
  <2> QED BY <2>1, <2>2, <2>4
<1> QED BY <1>2, <1>4, <1>5, <1>6

(* It drops no anchor and invents none.                                    *)
LEMMA AnchorsSorted ==
    ASSUME NEW S, anchors \in Seq(S), \A i \in DOMAIN anchors : anchors[i].id \in Int
    PROVE  /\ Len(anchors) \in Nat /\ DOMAIN anchors = 1..Len(anchors)
           /\ \A k \in 1..Len(anchors) : \E i \in DOMAIN anchors : AnchorsById[k] = anchors[i]
           /\ \A i \in DOMAIN anchors : \E k \in 1..Len(anchors) : AnchorsById[k] = anchors[i]
           /\ \E c : /\ Enumerates(DOMAIN anchors, c)
                     /\ \A k \in 1..Len(anchors) : AnchorsById[k] = anchors[c[k]]
<1>1. PICK key : key = [i \in DOMAIN anchors |-> anchors[i].id]
  OBVIOUS
<1>2. Len(anchors) \in Nat /\ DOMAIN anchors = 1..Len(anchors)
  OBVIOUS
<1>3. Cardinality(DOMAIN anchors) = Len(anchors)
  BY <1>2, CountTo
<1>4. PICK c : /\ EnumeratesByKey(DOMAIN anchors, key, c)
               /\ AnchorsById = [k \in 1..Len(anchors) |-> anchors[c[k]]]
  BY <1>1, <1>3, AnchorsArranged DEF ArrangedByKey
<1>5. /\ Enumerates(DOMAIN anchors, c)
      /\ \A k \in 1..Len(anchors) : c[k] \in DOMAIN anchors /\ AnchorsById[k] = anchors[c[k]]
      /\ \A i \in DOMAIN anchors : \E k \in 1..Len(anchors) : c[k] = i
  BY <1>3, <1>4 DEF EnumeratesByKey, Enumerates
<1> QED BY <1>2, <1>5

(* Numbers of 64 bits. *)
InWidth(n) == n \in MinInt..MaxInt

(* A number of 64 bits is itself.                                          *)
LEMMA NoWrap == \A n : InWidth(n) => I64(n) = n /\ n \in Int /\ MinInt \in Int
  BY WidthAssumption DEF I64, InWidth, MinInt

(* Past the last number comes the first.                                   *)
LEMMA Wraps == I64(MaxInt + 1) = MinInt /\ MinInt < 0 /\ 0 <= MaxInt /\ MaxInt \in Int
  BY WidthAssumption DEF I64, MinInt

(* Rows that follow one another in order are numbered without a gap: the   *)
(* sum cannot have wrapped, as the sorted numbers do not fall.             *)
LEMMA RowsNumbered ==
    ASSUME NEW S, rows \in Seq(S), \A i \in DOMAIN rows : InWidth(rows[i].chain_seq),
           RowsLink
    PROVE  \A k \in 1..Len(rows) :
               /\ InOrder[k].chain_seq \in Int
               /\ InOrder[k].chain_seq = InOrder[1].chain_seq + k - 1
<1>1. \A i \in DOMAIN rows : rows[i].chain_seq \in Int
  BY NoWrap
<1>2. /\ Len(rows) \in Nat
      /\ \A k \in 1..Len(rows) : InWidth(InOrder[k].chain_seq) /\ InOrder[k].chain_seq \in Int
      /\ \A j, k \in 1..Len(rows) :
            j < k => InOrder[j].chain_seq <= InOrder[k].chain_seq
  BY <1>1, RowsSorted
<1>3. \A k \in 2..Len(rows) : InOrder[k].chain_seq = I64(InOrder[k-1].chain_seq + 1)
  BY DEF RowsLink, Follows
<1> DEFINE T == {k \in 1..Len(rows) : InOrder[k].chain_seq = InOrder[1].chain_seq + k - 1}
<1>4. Len(rows) > 0 => 1 \in T
  BY <1>2
<1>5. ASSUME NEW k \in 1..Len(rows), k < Len(rows), k \in T PROVE k + 1 \in T
  <2>1. /\ k + 1 \in 2..Len(rows) /\ (k + 1) - 1 = k /\ k + 1 \in 1..Len(rows) /\ k < k + 1
        /\ 1 \in 1..Len(rows)
    BY <1>2, <1>5
  <2>2. PICK m, n, f : /\ m = InOrder[k].chain_seq /\ n = InOrder[k+1].chain_seq
                       /\ f = InOrder[1].chain_seq
    OBVIOUS
  <2>3. InWidth(m) /\ m \in Int /\ n \in Int /\ m <= n /\ n = I64(m + 1) /\ f \in Int
        /\ m = f + k - 1
    BY <1>2, <1>3, <1>5, <2>1, <2>2
  <2>4. n = m + 1
    <3>1. CASE m = MaxInt
      BY <2>3, <3>1, Wraps
    <3>2. CASE m # MaxInt
      <4>1. InWidth(m + 1)
        BY <2>3, <3>2, Wraps DEF InWidth, MinInt
      <4> QED BY <2>3, <4>1, NoWrap
    <3> QED BY <3>1, <3>2
  <2>5. n = f + (k + 1) - 1
    BY <2>1, <2>3, <2>4
  <2> QED BY <2>1, <2>2, <2>5
<1> HIDE DEF T
<1>6. \A k \in 1..Len(rows) : k \in T
  BY <1>2, <1>4, <1>5, InductiveTo
<1> QED BY <1>2, <1>6 DEF T

(* An anchor that binds its head names a row of the pack.                  *)
LEMMA HeadIsRow ==
    ASSUME NEW S, rows \in Seq(S), \A i \in DOMAIN rows : rows[i].chain_seq \in Int,
           NEW a, BindsHead(a)
    PROVE  \E k \in 1..Len(rows) : /\ InOrder[k].chain_seq = a.to_seq
                                   /\ InOrder[k].entry_hash = a.chain_head
<1> DEFINE I == {k \in DOMAIN InOrder : InOrder[k].chain_seq = a.to_seq}
<1>1. EntryBySeq(a.to_seq) = IF I = {} THEN None ELSE InOrder[Max(I)]
  BY DEF EntryBySeq, LastWith
<1>2. EntryBySeq(a.to_seq) # None /\ a.chain_head = EntryBySeq(a.to_seq).entry_hash
  BY DEF BindsHead
<1>3. Len(rows) \in Nat /\ I \subseteq 1..Len(rows) /\ I # {}
  BY <1>1, <1>2, RowsSorted
<1>4. Max(I) \in I
  BY <1>3, MaxIn
<1> QED BY <1>1, <1>2, <1>3, <1>4

-----------------------------------------------------------------------------
(* What a PASS means *)

(* At the report the locals describe the whole text, and every check holds.*)
LEMMA AtReport ==
    ASSUME Inv, Accepted
    PROVE  /\ \A k : Before(k) = LinesOf(k)
           /\ line = Len(pack) + 1 /\ Len(pack) \in Nat /\ DOMAIN pack = 1..Len(pack)
           /\ parse_errors = 0 /\ HeaderIsChain /\ ManifestIsLast /\ CountsAgree
           /\ RowsRecompute /\ RowsLink /\ AnchorsVerify
           /\ HeadsBind /\ AnchorsLink /\ TailDeclared
<1>1. pc = "report" /\ AllOk
  BY DEF Accepted, Passed, AllOk
<1>2. line = Len(pack) + 1 /\ Len(pack) \in Nat /\ DOMAIN pack = 1..Len(pack)
  BY <1>1 DEF Inv, Loaded, Place
<1>3. \A k : Before(k) = LinesOf(k)
  <2>1. \A i \in 1..Len(pack) : i < Len(pack) + 1
    BY <1>2
  <2> QED BY <1>2, <2>1 DEF Before, LinesOf
<1> QED BY <1>1, <1>2, <1>3 DEF Inv, Verdict, AfterParse, AfterHeader, AfterTerminal,
        AfterCounts, AfterRecompute, AfterLinkage, AfterAnchors, AfterHeads,
        AfterLinks, AfterCoverage

(* A PASS of a chain pack vouches for the text as a whole, for the hash of *)
(* every row and for the signature of every anchor over the pack's table   *)
(* (chain.rs:244-507).                                                     *)
THEOREM ChainPassSigned == Spec => []PassIsSigned
<1>1. ASSUME Inv PROVE PassIsSigned
  <2> SUFFICES ASSUME Accepted
               PROVE
        /\ LinesOf("malformed") = {}
        /\ \A r \in Bodies("chain_row") :
              r.prev_hash # NotHex /\ r.entry_hash = EntryHash(r.prev_hash, r.canonical)
        /\ \E h \in Bodies("header"), i \in LinesOf("manifest") :
              LET m == pack[i].body
              IN  /\ \A j \in DOMAIN pack : j > i => pack[j].kind = "blank"
                  /\ h.profile = CHAIN_PACK_PROFILE /\ m.profile = CHAIN_PACK_PROFILE
                  /\ h.table = m.table
                  /\ m.counts.rows    = Cardinality(LinesOf("chain_row"))
                  /\ m.counts.anchors = Cardinality(LinesOf("chain_anchor"))
                  /\ \A a \in Bodies("chain_anchor") : \E k \in DeclaredKeys :
                        /\ k.key_id = a.signing_key_id
                        /\ a.signature = Sign(a.sig_alg, k.public_key_hex,
                                              ChainAnchorPayloadHash(h.table, a))
    BY DEF PassIsSigned
  <2> USE <1>1
  <2>1. LinesOf("malformed") = {}
    <3>1. Cardinality(LinesOf("malformed")) = 0
      BY AtReport DEF Inv, Loaded, Counters
    <3>2. IsFiniteSet(LinesOf("malformed"))
      BY LinesCounted DEF Inv, Loaded, LinesOf
    <3> QED BY <3>1, <3>2, FS_EmptySet
  <2>2. ASSUME NEW r \in Bodies("chain_row")
        PROVE  r.prev_hash # NotHex /\ r.entry_hash = EntryHash(r.prev_hash, r.canonical)
    <3>1. PICK k \in DOMAIN rows : rows[k] = r
      BY AtReport DEF Inv, Loaded, Lists, Bodies
    <3> QED BY <3>1, AtReport DEF RowsRecompute, RowRecomputes
  <2>3. /\ header \in Bodies("header") /\ header.profile = CHAIN_PACK_PROFILE
        /\ Table = header.table
    BY AtReport DEF Inv, Loaded, Ends, HeaderIsChain, Table
  <2>4. PICK i \in LinesOf("manifest") : LastManifest(i)
    BY AtReport DEF Inv, Loaded, Ends, ManifestIsLast
  <2>5. manifest # None /\ manifest = pack[i].body
    BY <2>4, AtReport DEF LastManifest, ManifestIsLast
  <2>6. \A j \in DOMAIN pack : j > i => pack[j].kind = "blank"
    <3>1. \A j \in 1..Len(pack) : j < line /\ (j > i => i < j)
      BY AtReport DEF LinesOf
    <3> QED BY <2>4, <3>1, AtReport DEF LastManifest
  <2>7. /\ manifest.counts.rows    = Cardinality(LinesOf("chain_row"))
        /\ manifest.counts.anchors = Cardinality(LinesOf("chain_anchor"))
        /\ manifest.table = header.table /\ manifest.profile = CHAIN_PACK_PROFILE
    BY <2>3, <2>5, AtReport DEF CountsAgree, CountsOK, Inv, Loaded, Counters
  <2>8. ASSUME NEW a \in Bodies("chain_anchor")
        PROVE  \E k \in DeclaredKeys :
                   /\ k.key_id = a.signing_key_id
                   /\ a.signature = Sign(a.sig_alg, k.public_key_hex,
                                         ChainAnchorPayloadHash(header.table, a))
    <3>1. PICK n \in DOMAIN anchors : anchors[n] = a
      BY AtReport DEF Inv, Loaded, Lists, Bodies
    <3>2. AnchorSignatureOK(a)
      BY <3>1, AtReport DEF AnchorsVerify
    <3>3. PICK k : k = KeyById(a.signing_key_id)
      OBVIOUS
    <3>4. k # None /\ SignatureValid(a.sig_alg, k.public_key_hex,
                                     ChainAnchorPayloadHash(header.table, a), a.signature)
      BY <2>3, <3>2, <3>3 DEF AnchorSignatureOK
    <3>5. k \in DeclaredKeys /\ k.key_id = a.signing_key_id
      BY <3>3, <3>4, KeyFound DEF Inv
    <3> QED BY <3>4, <3>5 DEF SignatureValid
  <2> QED BY <2>1, <2>2, <2>3, <2>5, <2>6, <2>7, <2>8
<1> QED BY <1>1, Invariant, PTL

-----------------------------------------------------------------------------
(* Types *)

FindingsTyped ==
    \A k \in DOMAIN findings :
        findings[k].check \in CheckNames /\ findings[k].ok \in BOOLEAN

(* A finding recorded is about a check and has a verdict.                  *)
LEMMA RecordedTyped ==
    ASSUME IsList, FindingsTyped, NEW check \in CheckNames, NEW ok \in BOOLEAN,
           NEW next, Record(check, ok, next)
    PROVE  FindingsTyped'
<1>1. PICK x : x = [check |-> check, ok |-> ok]
  OBVIOUS
<1>2. x.check \in CheckNames /\ x.ok \in BOOLEAN
  BY <1>1
<1>3. findings' = Append(findings, x)
  BY <1>1 DEF Record
<1>4. /\ Len(findings) \in Nat /\ DOMAIN findings = 1..Len(findings)
      /\ Len(findings') = Len(findings) + 1 /\ DOMAIN findings' = 1..Len(findings')
      /\ findings'[Len(findings')] = x
      /\ \A k \in DOMAIN findings : findings'[k] = findings[k]
  BY <1>3, OneMore DEF IsList
<1>5. \A k \in DOMAIN findings' : k \in DOMAIN findings \/ k = Len(findings')
  BY <1>4
<1> QED BY <1>2, <1>4, <1>5 DEF FindingsTyped

(* The findings are typed throughout.                                      *)
LEMMA FindingsStayTyped == Inv /\ FindingsTyped /\ [Next]_vars => FindingsTyped'
<1> SUFFICES ASSUME Inv, FindingsTyped, [Next]_vars PROVE FindingsTyped'
  OBVIOUS
<1>f. IsList
  BY DEF Inv, Verdict
<1>1. CASE UNCHANGED findings
  BY <1>1 DEF FindingsTyped
<1>2. CASE Check
  <2>1. ASSUME NEW check \in CheckNames, NEW next,
               Skip(check, next) \/ \E ok \in BOOLEAN : Record(check, ok, next)
        PROVE  FindingsTyped'
    BY <1>f, <1>1, <2>1, RecordedTyped DEF Skip
  <2>2. CheckParse => \E ok \in BOOLEAN : Record("structure.parse", ok, "structure.header")
    BY DEF CheckParse
  <2>3. CheckHeader =>
          \E ok \in BOOLEAN : Record("structure.header", ok, "structure.manifest_terminal")
    BY DEF CheckHeader
  <2>4. CheckManifestTerminal =>
          \E ok \in BOOLEAN : Record("structure.manifest_terminal", ok, "structure.counts")
    BY DEF CheckManifestTerminal
  <2>5. CheckCounts =>
          \/ Skip("structure.counts", "signing_keys")
          \/ \E ok \in BOOLEAN : Record("structure.counts", ok, "signing_keys")
    BY DEF CheckCounts, CountsOK
  <2>6. CheckSigningKeys =>
          \E ok \in BOOLEAN : Record("signing_keys", ok, "row_recompute")
    BY DEF CheckSigningKeys
  <2>7. CheckRowRecompute =>
          \/ Skip("row_recompute", "panic")
          \/ \E ok \in BOOLEAN : Record("row_recompute", ok, "linkage")
    BY DEF CheckRowRecompute
  <2>8. CheckLinkage => \E ok \in BOOLEAN : Record("linkage", ok, "anchor_signature")
    BY DEF CheckLinkage, RowsLink
  <2>9. CheckAnchorSignature =>
          \E ok \in BOOLEAN : Record("anchor_signature", ok, "head_binding")
    BY DEF CheckAnchorSignature
  <2>10. CheckHeadBinding =>
          \/ Skip("head_binding", "panic")
          \/ \E ok \in BOOLEAN : Record("head_binding", ok, "anchor_continuity")
    BY DEF CheckHeadBinding, HeadsBind
  <2>11. CheckContinuity =>
          \E ok \in BOOLEAN : Record("anchor_continuity", ok, "coverage")
    BY DEF CheckContinuity, AnchorsLink
  <2>12. CheckCoverage =>
          \/ Skip("coverage", "panic")
          \/ \E ok \in BOOLEAN : Record("coverage", ok, "report")
    BY DEF CheckCoverage, TailDeclared
  <2> QED BY <1>2, <2>1, <2>2, <2>3, <2>4, <2>5, <2>6, <2>7, <2>8, <2>9, <2>10,
             <2>11, <2>12 DEF Check, CheckNames
<1>3. CASE Parse
  BY <1>1, <1>3 DEF Parse, ReadBlank, ReadHeader, ReadSigningKeys, ReadChainRow,
     ReadChainAnchor, ReadManifest, ReadOther, ReadMalformed, ParseDone, AtLine
<1>4. CASE \E p \in ChainPacks : Submit(p)
  BY <1>1, <1>4 DEF Submit
<1> QED BY <1>1, <1>2, <1>3, <1>4 DEF Next, VerifyChain, vars

(* The locals of verify_chain() never hold more than the lines read so     *)
(* far, and every finding is about one of its checks (chain.rs:206-622).   *)
THEOREM ChainTypeCorrect == Spec => []TypeOK
<1>1. Init => FindingsTyped
  BY DEF Init, FindingsTyped
<1>2. ASSUME Inv, FindingsTyped PROVE TypeOK
  <2>1. parse_errors + Len(rows) + Len(anchors) \in 0..(line - 1)
    <3>1. Cardinality(Before("malformed")) \in Nat
      BY <1>2, LinesCounted DEF Inv, Loaded, Before, LinesOf
    <3>2. Len(rows) \in Nat /\ Len(anchors) \in Nat /\ line \in Nat
      BY <1>2 DEF Inv, Loaded, Place, Lists
    <3> QED BY <1>2, <3>1, <3>2 DEF Inv, Loaded, Counters
  <2>2. last_was_manifest \in BOOLEAN /\ (last_was_manifest => manifest # None)
    BY <1>2 DEF Inv, Loaded, Place, Ends, LastManifest, Before
  <2> QED BY <1>2, <2>1, <2>2 DEF TypeOK, Inv, Loaded, Place, FindingsTyped
<1> QED BY <1>1, <1>2, Invariant, FindingsStayTyped, PTL DEF Spec
=============================================================================
