-------------------------- MODULE PackVerify_proofs --------------------------
(***************************************************************************)
(* What a PASS of PackVerify means, proved for every set of packs.         *)
(*                                                                         *)
(* The inductive invariant has two halves.  Loaded says that the locals of *)
(* verify() describe the lines read so far, in both directions: nothing in *)
(* them that the text does not hold, nothing in the text that they lack.   *)
(* Verdict says that while no finding has failed, every check already      *)
(* passed by holds of those locals.  At "report" all lines are read and    *)
(* all checks are passed, and the two together speak of the text.          *)
(*                                                                         *)
(* Three more invariants serve one theorem each: Listing, that the rows    *)
(* are in the order of their lines (a Merkle root depends on it); Presence *)
(* and Reported, that the findings so far are those of the checks passed,  *)
(* in order, those for want of a header or a manifest left out.            *)
(***************************************************************************)
EXTENDS PackVerify, Merkle_proofs

-----------------------------------------------------------------------------
(* The invariant *)

Before(kind) == {i \in LinesOf(kind) : i < line}

Place ==
    /\ Len(pack) \in Nat
    /\ DOMAIN pack = 1..Len(pack)
    /\ \A i \in LinesOf("signing_keys") : pack[i].body.keys \in Seq(Range(pack[i].body.keys))
    /\ \A i \in LinesOf("manifest") : pack[i].body # None
    /\ line \in 1..(Len(pack) + 1)
    /\ pc \in {"idle", "parse", "report", "panic"} \cup Range(CheckNames)
    /\ pc \notin {"idle", "parse"} => line = Len(pack) + 1
    /\ pc = "idle" => /\ pack = <<>> /\ line = 1 /\ header = None
                      /\ keys = <<>> /\ ai = <<>> /\ anchors = <<>>
                      /\ audit_count = 0 /\ parse_errors = 0
                      /\ last_was_manifest = FALSE

Lists ==
    /\ keys \in Seq(DeclaredKeys)
    /\ ai \in Seq(Bodies("ai_audit"))
    /\ anchors \in Seq(Bodies("anchor"))
    /\ \A i \in Before("ai_audit") : \E k \in DOMAIN ai : ai[k] = pack[i].body
    /\ \A i \in Before("anchor") : \E k \in DOMAIN anchors : anchors[k] = pack[i].body

SignedBefore == {i \in Before("ai_audit") : pack[i].body.signed}

Counters ==
    /\ audit_count = Cardinality(Before("audit"))
    /\ parse_errors = Cardinality(Before("malformed"))
    /\ Len(ai) = Cardinality(Before("ai_audit"))
    /\ Len(anchors) = Cardinality(Before("anchor"))
    /\ Cardinality(Signed) = Cardinality(SignedBefore)
    /\ audit_count + parse_errors + Len(ai) + Len(anchors) < line

LastManifest(i) ==
    /\ i \in Before("manifest")
    /\ manifest = pack[i].body
    /\ \A j \in DOMAIN pack : i < j /\ j < line => pack[j].kind = "blank"

Ends ==
    /\ header # None => header \in Bodies("header")
    /\ last_was_manifest \in BOOLEAN
    /\ last_was_manifest => \E i \in Before("manifest") : LastManifest(i)

Loaded == Place /\ Lists /\ Counters /\ Ends

(* The values of pc once a check is behind. *)
AfterCoverage  == {"report"}
AfterSeam      == AfterCoverage  \cup {"coverage"}
AfterLinks     == AfterSeam      \cup {"genesis_seam"}
AfterFleet     == AfterLinks     \cup {"chain_continuity"}
AfterRecompute == AfterFleet     \cup {"fleet_inclusion"}
AfterAnchors   == AfterRecompute \cup {"sovereign_recompute"}
AfterSigned    == AfterAnchors   \cup {"anchor_signature"}
AfterIntact    == AfterSigned    \cup {"row_signature"}
AfterIdentity  == AfterIntact    \cup {"signing_keys", "row_integrity"}
AfterCounts    == AfterIdentity  \cup {"structure.identity"}
AfterTerminal  == AfterCounts    \cup {"structure.counts"}
AfterHeader    == AfterTerminal  \cup {"structure.manifest_terminal"}
AfterParse     == AfterHeader    \cup {"structure.header"}

IsList == findings \in Seq(Range(findings))

AllOk == \A k \in DOMAIN findings : findings[k].ok

HeaderIsV2     == header # None /\ header.format_version = 2
ManifestIsLast == manifest # None /\ last_was_manifest
CountsAgree    == manifest # None => CountsOK
IdentityAgrees == header # None /\ manifest # None => SameIdentity
TenantAnchorsRecompute ==
    \A i \in DOMAIN anchors :
        OnTenantChain(anchors[i].chain) => SovereignRecomputeOK(anchors[i])
ChainsLink == \A label \in {anchors[i].chain : i \in DOMAIN anchors} : ChainLinks(label)
SeamHolds  == manifest # None /\ manifest.genesis_handoff # None =>
                  SeamOK(manifest.genesis_handoff)

Verdict ==
    /\ IsList
    /\ AllOk =>
          /\ pc \in AfterParse    => parse_errors = 0
          /\ pc \in AfterHeader   => HeaderIsV2
          /\ pc \in AfterTerminal => ManifestIsLast
          /\ pc \in AfterCounts   => CountsAgree
          /\ pc \in AfterIdentity => IdentityAgrees
          /\ pc \in AfterIntact   => RowsIntact
          /\ pc \in AfterSigned   => SignedRowsVerify
          /\ pc \in AfterAnchors  => AnchorsVerify
          /\ pc \in AfterRecompute => TenantAnchorsRecompute
          /\ pc \in AfterFleet    => FleetRowsIncluded
          /\ pc \in AfterLinks    => ChainsLink
          /\ pc \in AfterSeam     => SeamHolds
          /\ pc \in AfterCoverage => RowsCovered

-----------------------------------------------------------------------------
(* Lookups *)

(* A key that is found is one the text declares, under the id asked for.   *)
LEMMA KeyFound ==
    ASSUME Loaded, NEW kid, KeyById(kid) # None
    PROVE  KeyById(kid) \in DeclaredKeys /\ KeyById(kid).key_id = kid
<1> DEFINE I == {i \in DOMAIN keys : keys[i].key_id = kid}
<1>1. KeyById(kid) = IF I = {} THEN None ELSE keys[Max(I)]
  BY DEF KeyById, LastWith
<1>2. Len(keys) \in Nat /\ I \subseteq 1..Len(keys) /\ keys \in Seq(DeclaredKeys)
  BY DEF Loaded, Lists
<1>3. Max(I) \in I
  BY <1>1, <1>2, MaxIn
<1> QED BY <1>1, <1>2, <1>3

(* An anchor that is found is one of the text, with the id asked for.      *)
LEMMA AnchorFound ==
    ASSUME Loaded, NEW id, AnchorById(id) # None
    PROVE  AnchorById(id) \in Bodies("anchor") /\ AnchorById(id).id = id
<1> DEFINE I == {i \in DOMAIN anchors : anchors[i].id = id}
<1>1. AnchorById(id) = IF I = {} THEN None ELSE anchors[Max(I)]
  BY DEF AnchorById, LastWith
<1>2. Len(anchors) \in Nat /\ I \subseteq 1..Len(anchors) /\ anchors \in Seq(Bodies("anchor"))
  BY DEF Loaded, Lists
<1>3. Max(I) \in I
  BY <1>1, <1>2, MaxIn
<1> QED BY <1>1, <1>2, <1>3

-----------------------------------------------------------------------------
(* The checks leave the locals alone *)

(* What no step of a check changes. *)
LEMMA LoadedStable ==
    ASSUME Loaded, UNCHANGED <<pack, line, loaded>>, pc' # "idle",
           pc' \in {"parse", "report", "panic"} \cup Range(CheckNames),
           pc' \notin {"idle", "parse"} => line = Len(pack) + 1
    PROVE  Loaded'
<1>1. Place'
  BY DEF Loaded, Place, loaded, LinesOf
<1>2. Lists'
  BY DEF Loaded, Lists, loaded, Before, LinesOf, Bodies, DeclaredKeys
<1>3. Counters'
  BY DEF Loaded, Counters, loaded, Before, LinesOf, Signed, SignedBefore
<1>4. Ends'
  BY DEF Loaded, Ends, loaded, Before, LinesOf, Bodies, LastManifest
<1> QED BY <1>1, <1>2, <1>3, <1>4 DEF Loaded

(* The outcome of a check does not depend on when it is asked for.         *)
LEMMA OutcomesStable ==
    ASSUME UNCHANGED <<pack, line, loaded>>
    PROVE  /\ parse_errors' = parse_errors
           /\ HeaderIsV2' <=> HeaderIsV2
           /\ ManifestIsLast' <=> ManifestIsLast
           /\ CountsAgree' <=> CountsAgree
           /\ IdentityAgrees' <=> IdentityAgrees
           /\ RowsIntact' <=> RowsIntact
           /\ SignedRowsVerify' <=> SignedRowsVerify
           /\ AnchorsVerify' <=> AnchorsVerify
           /\ TenantAnchorsRecompute' <=> TenantAnchorsRecompute
           /\ FleetRowsIncluded' <=> FleetRowsIncluded
           /\ ChainsLink' <=> ChainsLink
           /\ SeamHolds' <=> SeamHolds
           /\ RowsCovered' <=> RowsCovered
<1> USE DEF loaded
<1>1. parse_errors' = parse_errors /\ (HeaderIsV2' <=> HeaderIsV2)
      /\ (ManifestIsLast' <=> ManifestIsLast)
  BY DEF HeaderIsV2, ManifestIsLast
<1>2. CountsAgree' <=> CountsAgree
  BY DEF CountsAgree, CountsOK, Signed
<1>3. IdentityAgrees' <=> IdentityAgrees
  BY DEF IdentityAgrees, SameIdentity
<1>4. RowsIntact' <=> RowsIntact
  BY DEF RowsIntact, RowIntegrityOK
<1>5. SignedRowsVerify' <=> SignedRowsVerify
  BY DEF SignedRowsVerify, RowSignatureOK, KeyById, LastWith
<1>6. AnchorsVerify' <=> AnchorsVerify
  BY DEF AnchorsVerify, AnchorSignatureOK, Listed, KeyById, LastWith
<1>7. FleetRowsIncluded' <=> FleetRowsIncluded
  BY DEF FleetRowsIncluded, FleetInclusionOK, AnchorById, LastWith
<1>8. RowsCovered' <=> RowsCovered
  BY DEF RowsCovered, AnchorById, LastWith
<1>9. TenantAnchorsRecompute' <=> TenantAnchorsRecompute
  <2>1. \A id : RowsByAnchor(id)' = RowsByAnchor(id)
    BY DEF RowsByAnchor, Selected, Arranged
  <2> QED BY <2>1 DEF TenantAnchorsRecompute, SovereignRecomputeOK
<1>10. ChainsLink' <=> ChainsLink
  <2>1. \A label : Chain(label)' = Chain(label)
    BY DEF Chain, Arranged
  <2> QED BY <2>1 DEF ChainsLink, ChainLinks
<1>11. SeamHolds' <=> SeamHolds
  BY DEF SeamHolds, SeamOK, Sovereign
<1> QED BY <1>1, <1>2, <1>3, <1>4, <1>5, <1>6, <1>7, <1>8, <1>9, <1>10, <1>11

(* One more finding: all are well exactly if the earlier ones and it are.  *)
LEMMA Appended ==
    ASSUME IsList, NEW x, findings' = Append(findings, x)
    PROVE  IsList' /\ (AllOk' => AllOk /\ x.ok)
  BY OneMore DEF IsList, AllOk

(* A finding recorded at pc = check goes with the step to the next check.  *)
LEMMA Recorded ==
    ASSUME IsList, NEW check, NEW ok, NEW next, Record(check, ok, next)
    PROVE  /\ IsList'
           /\ AllOk' => AllOk /\ ok
           /\ pc = check /\ pc' = next
           /\ UNCHANGED <<pack, line, loaded>>
<1>1. IsList' /\ (AllOk' => AllOk /\ [check |-> check, ok |-> ok].ok)
  BY Appended DEF Record
<1> QED BY <1>1 DEF Record

(* A check left out adds no finding.                                       *)
LEMMA Skipped ==
    ASSUME IsList,
           NEW check, NEW next, Skip(check, next)
    PROVE  /\ IsList'
           /\ AllOk' => AllOk
           /\ pc = check /\ pc' = next
           /\ UNCHANGED <<pack, line, loaded>>
  BY DEF Skip, AllOk, IsList

(* Each check establishes its own condition and keeps the earlier ones.    *)
LEMMA CheckVerdict ==
    ASSUME Loaded, Verdict, Check
    PROVE  /\ Verdict'
           /\ UNCHANGED <<pack, line, loaded>>
           /\ pc \notin {"idle", "parse"} /\ pc' \notin {"idle", "parse"}
           /\ pc' \in {"report", "panic"} \cup Range(CheckNames)
<1> USE DEF AfterParse, AfterHeader, AfterTerminal, AfterCounts, AfterIdentity,
            AfterIntact, AfterSigned, AfterAnchors, AfterRecompute, AfterFleet, AfterLinks, AfterSeam,
     AfterCoverage
<1>f. IsList
  BY DEF Verdict
<1>n. Range(CheckNames) =
         {"structure.parse", "structure.header", "structure.manifest_terminal",
          "structure.counts", "structure.identity", "signing_keys", "row_integrity",
          "row_signature", "anchor_signature", "sovereign_recompute",
          "fleet_inclusion", "chain_continuity", "genesis_seam", "coverage"}
  <2>1. DOMAIN CheckNames = 1..14
    BY DEF CheckNames
  <2>2. Range(CheckNames) = {CheckNames[i] : i \in 1..14}
    BY <2>1 DEF Range
  <2> QED BY <2>2 DEF CheckNames
<1>1. CASE CheckParse
  <2>1. /\ IsList'
        /\ AllOk' => AllOk /\ parse_errors = 0
        /\ pc = "structure.parse" /\ pc' = "structure.header"
        /\ UNCHANGED <<pack, line, loaded>>
    <3>1. PICK x : x = [check |-> "structure.parse", ok |-> parse_errors = 0]
      OBVIOUS
    <3>2. findings' = Append(findings, x)
      BY <1>1, <3>1 DEF CheckParse, Record
    <3>3. x.ok <=> parse_errors = 0
      BY <3>1
    <3> QED BY <1>1, <1>f, <3>2, <3>3, Appended DEF CheckParse, Record
  <2> QED BY <1>n, <2>1, OutcomesStable DEF Verdict
<1>2. CASE CheckHeader
  <2>1. /\ IsList'
        /\ AllOk' => AllOk /\ HeaderIsV2
        /\ pc = "structure.header" /\ pc' = "structure.manifest_terminal"
        /\ UNCHANGED <<pack, line, loaded>>
    BY <1>2, <1>f, Recorded DEF CheckHeader, HeaderIsV2
  <2> QED BY <1>n, <2>1, OutcomesStable DEF Verdict
<1>3. CASE CheckManifestTerminal
  <2>1. /\ IsList'
        /\ AllOk' => AllOk /\ ManifestIsLast
        /\ pc = "structure.manifest_terminal" /\ pc' = "structure.counts"
        /\ UNCHANGED <<pack, line, loaded>>
    BY <1>3, <1>f, Recorded DEF CheckManifestTerminal, ManifestIsLast
  <2> QED BY <1>n, <2>1, OutcomesStable DEF Verdict
<1>4. CASE CheckCounts
  <2>1. /\ IsList'
        /\ AllOk' => AllOk /\ CountsAgree
        /\ pc = "structure.counts" /\ pc' = "structure.identity"
        /\ UNCHANGED <<pack, line, loaded>>
    <3>1. CASE manifest # None
      BY <1>4, <1>f, <3>1, Recorded DEF CheckCounts, CountsAgree
    <3>2. CASE manifest = None
      BY <1>4, <1>f, <3>2, Skipped DEF CheckCounts, CountsAgree
    <3> QED BY <3>1, <3>2
  <2> QED BY <1>n, <2>1, OutcomesStable DEF Verdict
<1>5. CASE CheckIdentity
  <2>1. /\ IsList'
        /\ AllOk' => AllOk /\ IdentityAgrees
        /\ pc = "structure.identity" /\ pc' = "signing_keys"
        /\ UNCHANGED <<pack, line, loaded>>
    <3>1. CASE header # None /\ manifest # None
      BY <1>5, <1>f, <3>1, Recorded DEF CheckIdentity, IdentityAgrees
    <3>2. CASE ~(header # None /\ manifest # None)
      BY <1>5, <1>f, <3>2, Skipped DEF CheckIdentity, IdentityAgrees
    <3> QED BY <3>1, <3>2
  <2> QED BY <1>n, <2>1, OutcomesStable DEF Verdict
<1>6. CASE CheckSigningKeys
  <2>1. /\ IsList'
        /\ AllOk' => AllOk
        /\ pc = "signing_keys" /\ pc' = "row_integrity"
        /\ UNCHANGED <<pack, line, loaded>>
    BY <1>6, <1>f, Recorded DEF CheckSigningKeys
  <2> QED BY <1>n, <2>1, OutcomesStable DEF Verdict
<1>7. CASE CheckRowIntegrity
  <2>1. /\ IsList'
        /\ AllOk' => AllOk /\ RowsIntact
        /\ pc = "row_integrity" /\ pc' = "row_signature"
        /\ UNCHANGED <<pack, line, loaded>>
    BY <1>7, <1>f, Recorded DEF CheckRowIntegrity
  <2> QED BY <1>n, <2>1, OutcomesStable DEF Verdict
<1>8. CASE CheckRowSignature
  <2>1. /\ IsList'
        /\ AllOk' => AllOk /\ SignedRowsVerify
        /\ pc = "row_signature" /\ pc' = "anchor_signature"
        /\ UNCHANGED <<pack, line, loaded>>
    BY <1>8, <1>f, Recorded DEF CheckRowSignature
  <2> QED BY <1>n, <2>1, OutcomesStable DEF Verdict
<1>9. CASE CheckAnchorSignature
  <2>1. /\ IsList'
        /\ AllOk' => AllOk /\ AnchorsVerify
        /\ pc = "anchor_signature" /\ pc' = "sovereign_recompute"
        /\ UNCHANGED <<pack, line, loaded>>
    BY <1>9, <1>f, Recorded DEF CheckAnchorSignature
  <2> QED BY <1>n, <2>1, OutcomesStable DEF Verdict
<1>10. CASE CheckSovereignRecompute
  <2>1. /\ IsList'
        /\ AllOk' => AllOk /\ TenantAnchorsRecompute
        /\ pc = "sovereign_recompute" /\ pc' = "fleet_inclusion"
        /\ UNCHANGED <<pack, line, loaded>>
    BY <1>10, <1>f, Recorded DEF CheckSovereignRecompute, TenantAnchorsRecompute
  <2> QED BY <1>n, <2>1, OutcomesStable DEF Verdict
<1>11. CASE CheckFleetInclusion
  <2>1. /\ IsList'
        /\ AllOk' => AllOk /\ FleetRowsIncluded
        /\ pc = "fleet_inclusion" /\ pc' = "chain_continuity"
        /\ UNCHANGED <<pack, line, loaded>>
    BY <1>11, <1>f, Recorded DEF CheckFleetInclusion
  <2> QED BY <1>n, <2>1, OutcomesStable DEF Verdict
<1>12. CASE CheckContinuity
  <2>1. /\ IsList'
        /\ AllOk' => AllOk /\ ChainsLink
        /\ pc = "chain_continuity" /\ pc' = "genesis_seam"
        /\ UNCHANGED <<pack, line, loaded>>
    BY <1>12, <1>f, Recorded DEF CheckContinuity, ChainsLink
  <2> QED BY <1>n, <2>1, OutcomesStable DEF Verdict
<1>13. CASE CheckSeam
  <2>1. /\ IsList'
        /\ AllOk' => AllOk
        /\ pc = "genesis_seam" /\ pc' \in {"coverage", "panic"}
        /\ pc' = "coverage" => (AllOk' => SeamHolds)
        /\ UNCHANGED <<pack, line, loaded>>
    <3>1. CASE Skip("genesis_seam", "panic")
      BY <3>1, <1>f, Skipped
    <3>2. PICK handoff : handoff = IF manifest = None THEN None ELSE manifest.genesis_handoff
      OBVIOUS
    <3>3. CASE Record("genesis_seam", handoff # None => SeamOK(handoff), "coverage")
      <4>1. /\ IsList' /\ pc = "genesis_seam" /\ pc' = "coverage"
            /\ AllOk' => AllOk /\ (handoff # None => SeamOK(handoff))
            /\ UNCHANGED <<pack, line, loaded>>
        BY <3>3, <1>f, Recorded
      <4>2. (handoff # None => SeamOK(handoff)) => SeamHolds
        BY <3>2 DEF SeamHolds
      <4> QED BY <4>1, <4>2
    <3> QED BY <1>13, <3>1, <3>2, <3>3 DEF CheckSeam
  <2> QED BY <1>n, <2>1, OutcomesStable DEF Verdict
<1>14. CASE CheckCoverage
  <2>1. /\ IsList'
        /\ AllOk' => AllOk /\ RowsCovered
        /\ pc = "coverage" /\ pc' = "report"
        /\ UNCHANGED <<pack, line, loaded>>
    BY <1>14, <1>f, Recorded DEF CheckCoverage
  <2> QED BY <1>n, <2>1, OutcomesStable DEF Verdict
<1> QED BY <1>1, <1>2, <1>3, <1>4, <1>5, <1>6, <1>7, <1>8, <1>9, <1>10, <1>11,
           <1>12, <1>13, <1>14 DEF Check

-----------------------------------------------------------------------------
(* One line read *)

(* What the text holds does not change while it is read; the line read     *)
(* joins the lines of its kind, and only those.                            *)
LEMMA LineRead ==
    ASSUME Place, NEW kind, AtLine(kind)
    PROVE  /\ Place'
           /\ line \in LinesOf(kind) /\ line \notin Before(kind)
           /\ Before(kind)' = Before(kind) \cup {line}
           /\ \A k : k # kind => Before(k)' = Before(k)
           /\ \A k : LinesOf(k)' = LinesOf(k) /\ Bodies(k)' = Bodies(k)
           /\ DeclaredKeys' = DeclaredKeys
           /\ pack' = pack /\ line' = line + 1 /\ line \in Nat
<1>1. /\ pack' = pack /\ line' = line + 1 /\ pc' = pc /\ pc = "parse"
      /\ line \in 1..Len(pack) /\ Len(pack) \in Nat /\ DOMAIN pack = 1..Len(pack)
      /\ pack[line].kind = kind
  BY DEF Place, AtLine
<1>2. Place'
  BY <1>1 DEF Place, LinesOf
<1>3. \A k : LinesOf(k)' = LinesOf(k) /\ Bodies(k)' = Bodies(k)
  BY <1>1 DEF LinesOf, Bodies
<1>4. line \in LinesOf(kind) /\ line \notin Before(kind)
  BY <1>1 DEF LinesOf, Before
<1>5. \A k : Before(k)' = {i \in LinesOf(k) : i < line + 1}
  BY <1>1 DEF Before, LinesOf
<1>6. \A k : \A i \in LinesOf(k) : i \in 1..Len(pack) /\ (i = line => k = kind)
  BY <1>1 DEF LinesOf
<1>7. Before(kind)' = Before(kind) \cup {line}
  <2>1. \A i \in LinesOf(kind) : i < line + 1 <=> i < line \/ i = line
    BY <1>1, <1>6
  <2> QED BY <1>4, <1>5, <2>1 DEF Before
<1>8. ASSUME NEW k, k # kind PROVE Before(k)' = Before(k)
  <2>1. \A i \in LinesOf(k) : i < line + 1 <=> i < line
    BY <1>1, <1>6, <1>8
  <2> QED BY <1>5, <2>1 DEF Before
<1>9. DeclaredKeys' = DeclaredKeys
  BY <1>3 DEF DeclaredKeys
<1> QED BY <1>1, <1>2, <1>3, <1>4, <1>7, <1>8, <1>9

(* The lines read so far can be counted, and a line more counts one more.  *)
LEMMA LinesCounted ==
    ASSUME Place, NEW S, S \subseteq DOMAIN pack
    PROVE  /\ IsFiniteSet(S) /\ Cardinality(S) \in Nat
           /\ \A x : x \notin S => Cardinality(S \cup {x}) = Cardinality(S) + 1
<1>1. IsFiniteSet(1..Len(pack))
  <2>1. Len(pack) \in Int /\ 1 \in Int
    BY DEF Place
  <2> QED BY <2>1, FS_Interval
<1>2. IsFiniteSet(S)
  BY <1>1, FS_Subset DEF Place
<1> QED BY <1>2, FS_CardinalityType, FS_AddElement

(* A line of a kind the locals do not collect leaves Lists as it is.       *)
LEMMA ListsKept ==
    ASSUME Place, Lists, NEW kind, AtLine(kind), kind # "ai_audit", kind # "anchor",
           keys' \in Seq(DeclaredKeys), UNCHANGED <<ai, anchors>>
    PROVE  Lists'
<1>1. /\ Before("ai_audit")' = Before("ai_audit")
      /\ Before("anchor")' = Before("anchor")
      /\ Bodies("ai_audit")' = Bodies("ai_audit")
      /\ Bodies("anchor")' = Bodies("anchor")
      /\ DeclaredKeys' = DeclaredKeys
      /\ pack' = pack
  BY LineRead DEF AtLine
<1> QED BY <1>1 DEF Lists

(* Likewise Counters, but for the counter of that kind.                    *)
LEMMA CountersKept ==
    ASSUME Place, Lists, Counters, NEW kind, AtLine(kind),
           kind # "ai_audit", kind # "anchor",
           audit_count' = IF kind = "audit" THEN audit_count + 1 ELSE audit_count,
           parse_errors' = IF kind = "malformed" THEN parse_errors + 1 ELSE parse_errors,
           UNCHANGED <<ai, anchors>>
    PROVE  Counters'
<1>1. /\ Before(kind)' = Before(kind) \cup {line} /\ line \notin Before(kind)
      /\ \A k : k # kind => Before(k)' = Before(k)
      /\ pack' = pack /\ line' = line + 1 /\ line \in Nat
  BY LineRead
<1>2. \A k : Cardinality(Before(k)) \in Nat
  BY LinesCounted DEF Before, LinesOf
<1>3. Cardinality(Before(kind)') = Cardinality(Before(kind)) + 1
  BY <1>1, LinesCounted DEF Before, LinesOf
<1>4. audit_count' = Cardinality(Before("audit")')
  <2>1. CASE kind = "audit"
    BY <1>3, <2>1 DEF Counters
  <2>2. CASE kind # "audit"
    BY <1>1, <2>2 DEF Counters
  <2> QED BY <2>1, <2>2
<1>5. parse_errors' = Cardinality(Before("malformed")')
  <2>1. CASE kind = "malformed"
    BY <1>3, <2>1 DEF Counters
  <2>2. CASE kind # "malformed"
    BY <1>1, <2>2 DEF Counters
  <2> QED BY <2>1, <2>2
<1>6. /\ Before("ai_audit")' = Before("ai_audit")
      /\ Before("anchor")' = Before("anchor")
  BY <1>1
<1>7. SignedBefore' = SignedBefore /\ Signed' = Signed
  BY <1>1, <1>6 DEF SignedBefore, Signed
<1>8. audit_count' + parse_errors' + Len(ai') + Len(anchors') < line'
  <2>1. /\ Len(ai) \in Nat /\ Len(anchors) \in Nat
        /\ audit_count \in Nat /\ parse_errors \in Nat
    BY <1>2 DEF Lists, Counters
  <2>2. audit_count + parse_errors + Len(ai) + Len(anchors) < line
    BY DEF Counters
  <2>3. audit_count' + parse_errors' <= audit_count + parse_errors + 1
    <3>1. CASE kind = "audit"
      BY <2>1, <3>1
    <3>2. CASE kind = "malformed"
      BY <2>1, <3>2
    <3>3. CASE kind # "audit" /\ kind # "malformed"
      BY <2>1, <3>3
    <3> QED BY <3>1, <3>2, <3>3
  <2>4. /\ audit_count' \in Nat /\ parse_errors' \in Nat
        /\ Len(ai') = Len(ai) /\ Len(anchors') = Len(anchors)
    BY <2>1
  <2> QED BY <1>1, <2>1, <2>2, <2>3, <2>4
<1> QED BY <1>4, <1>5, <1>6, <1>7, <1>8 DEF Counters

(* A line that is neither a header, nor a manifest, nor blank.             *)
LEMMA EndsKept ==
    ASSUME Place, Ends, NEW kind, AtLine(kind),
           last_was_manifest' = FALSE,
           header' # None => header' = header \/ header' \in Bodies("header")
    PROVE  Ends'
<1>1. Bodies("header")' = Bodies("header")
  BY LineRead
<1> QED BY <1>1 DEF Ends

(* Each turn of the parse loop keeps Loaded.                               *)
LEMMA ReadKeepsLoaded ==
    ASSUME Loaded, Parse
    PROVE  Loaded'
<1> USE DEF Loaded
<1>1. CASE ReadBlank
  <2>1. AtLine("blank") /\ UNCHANGED loaded
    BY <1>1 DEF ReadBlank
  <2>2. Place' /\ Lists' /\ Counters'
    BY <2>1, LineRead, ListsKept, CountersKept DEF loaded, Lists
  <2>3. Ends'
    <3>1. /\ Before("manifest")' = Before("manifest") /\ Bodies("header")' = Bodies("header")
          /\ pack' = pack /\ line' = line + 1 /\ pack[line].kind = "blank"
          /\ DOMAIN pack = 1..Len(pack) /\ line \in Nat
      BY <2>1, LineRead DEF AtLine, Place
    <3>2. ASSUME NEW i, LastManifest(i) PROVE LastManifest(i)'
      <4>1. \A j \in 1..Len(pack) : j < line + 1 => j < line \/ j = line
        BY <3>1
      <4> QED BY <2>1, <3>1, <3>2, <4>1 DEF LastManifest, loaded
    <3> QED BY <2>1, <3>1, <3>2 DEF Ends, loaded
  <2> QED BY <2>2, <2>3
<1>2. CASE ReadHeader
  <2>1. AtLine("header") /\ UNCHANGED <<keys, ai, anchors, audit_count, parse_errors>>
    BY <1>2 DEF ReadHeader
  <2>2. Place' /\ Lists' /\ Counters'
    BY <2>1, LineRead, ListsKept, CountersKept DEF Lists
  <2>3. pack[line].body \in Bodies("header")
    BY <2>1, LineRead DEF Bodies
  <2>4. Ends'
    BY <1>2, <2>1, <2>3, EndsKept DEF ReadHeader, body
  <2> QED BY <2>2, <2>4
<1>3. CASE ReadSigningKeys
  <2>1. /\ AtLine("signing_keys")
        /\ UNCHANGED <<header, ai, anchors, audit_count, parse_errors>>
        /\ keys' = keys \o pack[line].body.keys /\ last_was_manifest' = FALSE
    BY <1>3 DEF ReadSigningKeys, body
  <2>2. keys' \in Seq(DeclaredKeys)
    <3>1. line \in LinesOf("signing_keys")
      BY <2>1, LineRead
    <3>2. PICK b : b = pack[line].body.keys
      OBVIOUS
    <3>3. b \in Seq(Range(b)) /\ Range(b) \subseteq DeclaredKeys
      BY <3>1, <3>2 DEF Place, DeclaredKeys, Bodies
    <3>4. b \in Seq(DeclaredKeys)
      BY <3>3
    <3> QED BY <2>1, <3>2, <3>4 DEF Lists
  <2>3. Place' /\ Lists' /\ Counters' /\ Ends'
    BY <2>1, <2>2, LineRead, ListsKept, CountersKept, EndsKept
  <2> QED BY <2>3
<1>4. CASE ReadAudit
  <2>1. AtLine("audit") /\ UNCHANGED <<header, keys, ai, anchors, parse_errors>>
        /\ audit_count' = audit_count + 1 /\ last_was_manifest' = FALSE
    BY <1>4 DEF ReadAudit
  <2>2. Place' /\ Lists' /\ Counters' /\ Ends'
    BY <2>1, LineRead, ListsKept, CountersKept, EndsKept DEF Lists
  <2> QED BY <2>2
<1>7. CASE ReadManifest
  <2>1. /\ AtLine("manifest") /\ manifest' = pack[line].body
        /\ last_was_manifest' = TRUE
        /\ UNCHANGED <<header, keys, ai, anchors, audit_count, parse_errors>>
    BY <1>7 DEF ReadManifest, body
  <2>2. Place' /\ Lists' /\ Counters'
    BY <2>1, LineRead, ListsKept, CountersKept DEF Lists
  <2>3. Ends'
    <3>1. /\ Before("manifest")' = Before("manifest") \cup {line}
          /\ Bodies("header")' = Bodies("header")
          /\ pack' = pack /\ line' = line + 1 /\ line \in Nat
          /\ DOMAIN pack = 1..Len(pack)
      BY <2>1, LineRead DEF AtLine, Place
    <3>2. PICK l : l = line
      OBVIOUS
    <3>3. \A j \in 1..Len(pack) : ~(l < j /\ j < line + 1)
      BY <3>1, <3>2
    <3>4. LastManifest(l)'
      BY <2>1, <3>1, <3>2, <3>3 DEF LastManifest
    <3> QED BY <2>1, <3>1, <3>2, <3>4 DEF Ends
  <2> QED BY <2>2, <2>3
<1>8. CASE ReadOther
  <2>1. AtLine("other")
        /\ UNCHANGED <<header, keys, ai, anchors, audit_count, parse_errors>>
        /\ last_was_manifest' = FALSE
    BY <1>8 DEF ReadOther
  <2>2. Place' /\ Lists' /\ Counters' /\ Ends'
    BY <2>1, LineRead, ListsKept, CountersKept, EndsKept DEF Lists
  <2> QED BY <2>2
<1>9. CASE ReadMalformed
  <2>1. AtLine("malformed") /\ UNCHANGED <<header, keys, ai, anchors, audit_count>>
        /\ parse_errors' = parse_errors + 1 /\ last_was_manifest' = FALSE
    BY <1>9 DEF ReadMalformed
  <2>2. Place' /\ Lists' /\ Counters' /\ Ends'
    BY <2>1, LineRead, ListsKept, CountersKept, EndsKept DEF Lists
  <2> QED BY <2>2
<1>5. CASE ReadAiAudit
  <2>1. /\ AtLine("ai_audit") /\ ai' = Append(ai, pack[line].body)
        /\ last_was_manifest' = FALSE
        /\ UNCHANGED <<header, keys, anchors, audit_count, parse_errors>>
    BY <1>5 DEF ReadAiAudit, body
  <2>2. /\ Place' /\ line \in LinesOf("ai_audit") /\ line \notin Before("ai_audit")
        /\ Before("ai_audit")' = Before("ai_audit") \cup {line}
        /\ \A k : k # "ai_audit" => Before(k)' = Before(k)
        /\ \A k : Bodies(k)' = Bodies(k)
        /\ DeclaredKeys' = DeclaredKeys
        /\ pack' = pack /\ line' = line + 1 /\ line \in Nat
    BY <2>1, LineRead
  <2>3. PICK l, r, n : l = line /\ r = pack[line].body /\ n = Len(ai) + 1
    OBVIOUS
  <2>4. r \in Bodies("ai_audit")
    BY <2>2, <2>3 DEF Bodies
  <2>5. /\ ai' \in Seq(Bodies("ai_audit")) /\ Len(ai') = n /\ Len(ai) \in Nat
        /\ DOMAIN ai = 1..Len(ai) /\ DOMAIN ai' = 1..n /\ ai'[n] = r
        /\ \A k \in 1..Len(ai) : ai'[k] = ai[k]
    BY <2>1, <2>3, <2>4, ListGrows DEF Lists
  <2>6. Lists'
    <3>1. \A i \in Before("ai_audit")' : \E k \in DOMAIN ai' : ai'[k] = pack[i].body
      <4> TAKE i \in Before("ai_audit")'
      <4>1. CASE i = line
        BY <2>3, <2>5, <4>1
      <4>2. CASE i \in Before("ai_audit")
        <5>1. PICK k \in 1..Len(ai) : ai[k] = pack[i].body
          BY <2>5, <4>2 DEF Lists
        <5>2. k \in 1..n
          BY <2>3, <2>5
        <5> QED BY <2>5, <5>1, <5>2
      <4> QED BY <2>2, <4>1, <4>2
    <3>2. Before("anchor")' = Before("anchor")
      BY <2>2
    <3> QED BY <2>1, <2>2, <2>5, <3>1, <3>2 DEF Lists
  <2>7. Counters'
    <3>1. Cardinality(Before("ai_audit")') = Cardinality(Before("ai_audit")) + 1
      BY <2>2, LinesCounted DEF Before, LinesOf
    <3>2. /\ Before("audit")' = Before("audit") /\ Before("malformed")' = Before("malformed")
          /\ Before("anchor")' = Before("anchor")
      BY <2>2
    <3>3. /\ Signed' = {i \in 1..n : ai'[i].signed}
          /\ Signed = {i \in 1..Len(ai) : ai[i].signed}
      BY <2>5 DEF Signed
    <3>4. /\ \A i \in 1..n : i \in 1..Len(ai) \/ i = n
          /\ \A i \in 1..Len(ai) : i \in 1..n
          /\ n \notin 1..Len(ai) /\ n \in 1..n
      BY <2>3, <2>5
    <3>5. SignedBefore' = {i \in Before("ai_audit") \cup {l} : pack[i].body.signed}
      BY <2>2, <2>3 DEF SignedBefore
    <3>6. Cardinality(Signed') = Cardinality(SignedBefore')
      <4>1. CASE r.signed
        <5>1. Signed' = Signed \cup {n} /\ n \notin Signed
          BY <2>5, <3>3, <3>4, <4>1
        <5>2. SignedBefore' = SignedBefore \cup {l} /\ l \notin SignedBefore
          BY <2>2, <2>3, <3>5, <4>1 DEF SignedBefore
        <5>3. IsFiniteSet(Signed)
          <6>1. IsFiniteSet(1..Len(ai))
            BY <2>5, FS_Interval
          <6> QED BY <3>3, <6>1, FS_Subset
        <5>4. Cardinality(Signed') = Cardinality(Signed) + 1
          BY <5>1, <5>3, FS_AddElement
        <5>5. Cardinality(SignedBefore') = Cardinality(SignedBefore) + 1
          BY <5>2, LinesCounted DEF SignedBefore, Before, LinesOf
        <5> QED BY <5>4, <5>5 DEF Counters
      <4>2. CASE ~ r.signed
        <5>1. Signed' = Signed
          BY <2>5, <3>3, <3>4, <4>2
        <5>2. SignedBefore' = SignedBefore
          BY <2>3, <3>5, <4>2 DEF SignedBefore
        <5> QED BY <5>1, <5>2 DEF Counters
      <4> QED BY <4>1, <4>2
    <3>8. audit_count' + parse_errors' + Len(ai') + Len(anchors') < line'
      <4>1. \A k : Cardinality(Before(k)) \in Nat
        BY LinesCounted DEF Before, LinesOf
      <4>2. Len(anchors) \in Nat /\ audit_count \in Nat /\ parse_errors \in Nat
        BY <4>1 DEF Lists, Counters
      <4>3. audit_count + parse_errors + Len(ai) + Len(anchors) < line
        BY DEF Counters
      <4> QED BY <2>1, <2>2, <2>3, <2>5, <4>2, <4>3
    <3> QED BY <2>1, <2>3, <2>5, <3>1, <3>2, <3>6, <3>8 DEF Counters
  <2>8. Ends'
    BY <2>1, EndsKept
  <2> QED BY <2>2, <2>6, <2>7, <2>8
<1>6. CASE ReadAnchor
  <2>1. /\ AtLine("anchor") /\ anchors' = Append(anchors, pack[line].body)
        /\ last_was_manifest' = FALSE
        /\ UNCHANGED <<header, keys, ai, audit_count, parse_errors>>
    BY <1>6 DEF ReadAnchor, body
  <2>2. /\ Place' /\ line \in LinesOf("anchor") /\ line \notin Before("anchor")
        /\ Before("anchor")' = Before("anchor") \cup {line}
        /\ \A k : k # "anchor" => Before(k)' = Before(k)
        /\ \A k : Bodies(k)' = Bodies(k)
        /\ DeclaredKeys' = DeclaredKeys
        /\ pack' = pack /\ line' = line + 1 /\ line \in Nat
    BY <2>1, LineRead
  <2>3. PICK a, n : a = pack[line].body /\ n = Len(anchors) + 1
    OBVIOUS
  <2>4. a \in Bodies("anchor")
    BY <2>2, <2>3 DEF Bodies
  <2>5. /\ anchors' \in Seq(Bodies("anchor")) /\ Len(anchors') = n /\ Len(anchors) \in Nat
        /\ DOMAIN anchors = 1..Len(anchors) /\ DOMAIN anchors' = 1..n /\ anchors'[n] = a
        /\ \A k \in 1..Len(anchors) : anchors'[k] = anchors[k]
    BY <2>1, <2>3, <2>4, ListGrows DEF Lists
  <2>6. Lists'
    <3>1. \A i \in Before("anchor")' : \E k \in DOMAIN anchors' : anchors'[k] = pack[i].body
      <4> TAKE i \in Before("anchor")'
      <4>1. CASE i = line
        BY <2>3, <2>5, <4>1
      <4>2. CASE i \in Before("anchor")
        <5>1. PICK k \in 1..Len(anchors) : anchors[k] = pack[i].body
          BY <2>5, <4>2 DEF Lists
        <5>2. k \in 1..n
          BY <2>3, <2>5
        <5> QED BY <2>5, <5>1, <5>2
      <4> QED BY <2>2, <4>1, <4>2
    <3>2. Before("ai_audit")' = Before("ai_audit")
      BY <2>2
    <3> QED BY <2>1, <2>2, <2>5, <3>1, <3>2 DEF Lists
  <2>7. Counters'
    <3>1. Cardinality(Before("anchor")') = Cardinality(Before("anchor")) + 1
      <4>1. Before("anchor") \subseteq DOMAIN pack
        BY DEF Before, LinesOf
      <4> QED BY <2>2, <4>1, LinesCounted
    <3>2. /\ Before("audit")' = Before("audit") /\ Before("malformed")' = Before("malformed")
          /\ Before("ai_audit")' = Before("ai_audit")
      BY <2>2
    <3>3. SignedBefore' = SignedBefore /\ Signed' = Signed
      BY <2>1, <2>2, <3>2 DEF SignedBefore, Signed
    <3>4. audit_count' + parse_errors' + Len(ai') + Len(anchors') < line'
      <4>1. \A k : Cardinality(Before(k)) \in Nat
        BY LinesCounted DEF Before, LinesOf
      <4>2. Len(ai) \in Nat /\ audit_count \in Nat /\ parse_errors \in Nat
        BY <4>1 DEF Lists, Counters
      <4>3. audit_count + parse_errors + Len(ai) + Len(anchors) < line
        BY DEF Counters
      <4> QED BY <2>1, <2>2, <2>3, <2>5, <4>2, <4>3
    <3> QED BY <2>1, <2>3, <2>5, <3>1, <3>2, <3>3, <3>4 DEF Counters
  <2>8. Ends'
    BY <2>1, EndsKept
  <2> QED BY <2>2, <2>6, <2>7, <2>8
<1>10. CASE ParseDone
  <2>1. /\ UNCHANGED <<pack, line, loaded>> /\ pc' = "structure.parse" /\ pc = "parse"
        /\ line > Len(pack)
    BY <1>10 DEF ParseDone
  <2>2. "structure.parse" \in Range(CheckNames)
    <3>1. 1 \in DOMAIN CheckNames /\ CheckNames[1] = "structure.parse"
      BY DEF CheckNames
    <3> QED BY <3>1 DEF Range
  <2>3. line = Len(pack) + 1
    BY <2>1 DEF Place
  <2> QED BY <2>1, <2>2, <2>3, LoadedStable
<1> QED BY <1>1, <1>2, <1>3, <1>4, <1>5, <1>6, <1>7, <1>8, <1>9, <1>10 DEF Parse

-----------------------------------------------------------------------------
(* The invariant holds *)

Inv == Loaded /\ Verdict

(* Before a pack is submitted there is nothing to describe.                *)
LEMMA InitInv == Init => Inv
<1> SUFFICES ASSUME Init PROVE Inv
  OBVIOUS
<1>1. Place
  BY DEF Init, Place, LinesOf
<1>2. \A k : Before(k) = {}
  BY DEF Init, Before, LinesOf
<1>3. Lists
  BY <1>2 DEF Init, Lists
<1>4. Signed = {} /\ SignedBefore = {}
  BY <1>2 DEF Init, Signed, SignedBefore
<1>5. Counters
  <2>1. /\ audit_count = 0 /\ parse_errors = 0 /\ line = 1
        /\ Len(ai) = 0 /\ Len(anchors) = 0
    BY DEF Init
  <2>2. \A k : Cardinality(Before(k)) = 0
    BY <1>2, FS_EmptySet
  <2> QED BY <1>4, <2>1, <2>2 DEF Counters
<1>6. Ends
  BY DEF Init, Ends
<1>7. Verdict
  BY DEF Init, Verdict, IsList, AllOk, Range, AfterParse, AfterHeader, AfterTerminal,
     AfterCounts, AfterIdentity, AfterIntact, AfterSigned, AfterAnchors, AfterRecompute, AfterFleet, AfterLinks, AfterSeam,
     AfterCoverage
<1> QED BY <1>1, <1>3, <1>5, <1>6, <1>7 DEF Inv, Loaded

(* Before the first check is behind, Verdict asks nothing of the locals.   *)
LEMMA NothingPassedYet ==
    ASSUME Verdict, UNCHANGED findings, pc' \in {"parse", "structure.parse"}
    PROVE  Verdict'
  BY DEF Verdict, IsList, AfterParse, AfterHeader, AfterTerminal, AfterCounts,
     AfterIdentity, AfterIntact, AfterSigned, AfterAnchors, AfterRecompute, AfterFleet, AfterLinks, AfterSeam,
     AfterCoverage

(* A submitted pack has no line read yet.                                  *)
LEMMA SubmitKeepsLoaded ==
    ASSUME Loaded, NEW p, IsText(p), Submit(p)
    PROVE  Loaded'
<1>1. /\ pc = "idle" /\ pc' = "parse" /\ pack' = p
      /\ line' = 1 /\ header' = None /\ keys' = <<>> /\ ai' = <<>> /\ anchors' = <<>>
      /\ audit_count' = 0 /\ parse_errors' = 0 /\ last_was_manifest' = FALSE
  BY DEF Loaded, Place, Submit, loaded
<1>2. Place'
  BY <1>1 DEF Place, LinesOf, IsText
<1>3. \A k : Before(k)' = {}
  <2>1. \A i \in 1..Len(p) : ~(i < 1)
    BY DEF IsText
  <2> QED BY <1>1, <2>1 DEF Before, LinesOf, IsText
<1>4. Lists'
  BY <1>1, <1>3 DEF Lists
<1>5. Signed' = {} /\ SignedBefore' = {}
  BY <1>1, <1>3 DEF Signed, SignedBefore
<1>6. Counters'
  <2>1. Len(ai') = 0 /\ Len(anchors') = 0
    BY <1>1
  <2>2. \A k : Cardinality(Before(k)') = 0
    BY <1>3, FS_EmptySet
  <2> QED BY <1>1, <1>5, <2>1, <2>2 DEF Counters
<1>7. Ends'
  BY <1>1 DEF Ends
<1> QED BY <1>2, <1>4, <1>6, <1>7 DEF Loaded

(* Every step of verify() keeps both halves of the invariant.              *)
LEMMA StepInv ==
    ASSUME Inv, Verify \/ (\E p : IsText(p) /\ Submit(p)) \/ UNCHANGED vars
    PROVE  Inv'
<1> USE DEF Inv
<1>1. CASE Parse
  <2>1. UNCHANGED findings /\ pc' \in {"parse", "structure.parse"}
    BY <1>1 DEF Parse, ReadBlank, ReadHeader, ReadSigningKeys, ReadAudit, ReadAiAudit,
       ReadAnchor, ReadManifest, ReadOther, ReadMalformed, ParseDone, AtLine
  <2> QED BY <1>1, <2>1, ReadKeepsLoaded, NothingPassedYet
<1>2. CASE Check
  <2>1. /\ Verdict' /\ UNCHANGED <<pack, line, loaded>>
        /\ pc \notin {"idle", "parse"} /\ pc' \notin {"idle", "parse"}
        /\ pc' \in {"report", "panic"} \cup Range(CheckNames)
    BY <1>2, CheckVerdict
  <2>2. line = Len(pack) + 1
    BY <2>1 DEF Loaded, Place
  <2> QED BY <2>1, <2>2, LoadedStable
<1>3. CASE \E p : IsText(p) /\ Submit(p)
  <2>1. PICK p : IsText(p) /\ Submit(p)
    BY <1>3
  <2>2. UNCHANGED findings /\ pc' = "parse"
    BY <2>1 DEF Submit
  <2> QED BY <2>1, <2>2, SubmitKeepsLoaded, NothingPassedYet
<1>4. CASE UNCHANGED vars
  <2>1. UNCHANGED <<pack, line, loaded>> /\ UNCHANGED <<pc, findings>>
    BY <1>4 DEF vars
  <2>2. Loaded'
    <3>1. Place'
      BY <2>1 DEF Loaded, Place, loaded, LinesOf
    <3>2. Lists'
      BY <2>1 DEF Loaded, Lists, loaded, Before, LinesOf, Bodies, DeclaredKeys
    <3>3. Counters'
      BY <2>1 DEF Loaded, Counters, loaded, Before, LinesOf, Signed, SignedBefore
    <3>4. Ends'
      BY <2>1 DEF Loaded, Ends, loaded, Before, LinesOf, Bodies, LastManifest
    <3> QED BY <3>1, <3>2, <3>3, <3>4 DEF Loaded
  <2>3. Verdict'
    BY <2>1, OutcomesStable DEF Verdict, IsList, AllOk, AfterParse, AfterHeader,
       AfterTerminal, AfterCounts, AfterIdentity, AfterIntact, AfterSigned,
       AfterAnchors, AfterRecompute, AfterFleet, AfterLinks, AfterSeam, AfterCoverage
  <2> QED BY <2>2, <2>3
<1> QED BY <1>1, <1>2, <1>3, <1>4 DEF Verify

(* verify() at work, and a new pack handed to it.                          *)
LEMMA NextInv == Inv /\ [Next]_vars => Inv'
  BY StepInv, PacksAssumption DEF Next

(* Loaded and Verdict hold throughout.                                     *)
LEMMA Invariant == Spec => []Inv
  BY InitInv, NextInv, PTL DEF Spec

-----------------------------------------------------------------------------
(* The rows in the order of the text *)

(* The rows are those of the lines read so far, in their order. *)
Listing == Collected(ai, pack, Before("ai_audit"))

(* Nothing is listed before a pack is read.                                *)
LEMMA InitListing == Init => Listing
<1> SUFFICES ASSUME Init PROVE Listing
  OBVIOUS
<1>1. ai = <<>> /\ Before("ai_audit") = {}
  BY DEF Init, Before, LinesOf
<1> QED BY <1>1, NoneCollected DEF Listing

(* A row line read goes to the end of the list; other steps leave it.      *)
LEMMA StepListing ==
    ASSUME Inv, Listing,
           Verify \/ (\E p : IsText(p) /\ Submit(p)) \/ UNCHANGED vars
    PROVE  Listing'
<1>1. CASE UNCHANGED <<pack, line, loaded>>
  BY <1>1 DEF Listing, Before, LinesOf, loaded
<1>2. CASE Check
  BY <1>1, <1>2, CheckVerdict DEF Inv
<1>3. ASSUME NEW kind, AtLine(kind), ai' = ai, kind # "ai_audit"
      PROVE  Listing'
  <2>1. Before("ai_audit")' = Before("ai_audit") /\ pack' = pack
    BY <1>3, LineRead DEF Inv, Loaded
  <2> QED BY <1>3, <2>1 DEF Listing
<1>4. CASE ReadAiAudit
  <2>1. AtLine("ai_audit") /\ ai' = Append(ai, pack[line].body)
    BY <1>4 DEF ReadAiAudit, body
  <2>2. /\ Before("ai_audit")' = Before("ai_audit") \cup {line}
        /\ line \in LinesOf("ai_audit") /\ line \in Nat /\ pack' = pack
    BY <2>1, LineRead DEF Inv, Loaded
  <2>3. \A i \in Before("ai_audit") : i \in Nat /\ i < line
    BY DEF Before, LinesOf, Inv, Loaded, Place
  <2>4. pack[line].body \in Bodies("ai_audit") /\ ai \in Seq(Bodies("ai_audit"))
    BY <2>2 DEF Bodies, Inv, Loaded, Lists
  <2>5. Collected(Append(ai, pack[line].body), pack, Before("ai_audit") \cup {line})
    BY <2>2, <2>3, <2>4, OneMoreCollected DEF Listing
  <2> QED BY <2>1, <2>2, <2>5 DEF Listing
<1>5. CASE \E p : IsText(p) /\ Submit(p)
  <2>1. PICK p : IsText(p) /\ Submit(p)
    BY <1>5
  <2>2. pack' = p /\ line' = 1 /\ ai' = <<>>
    BY <2>1 DEF Submit, Inv, Loaded, Place, loaded
  <2>3. Before("ai_audit")' = {}
    <3>1. \A i \in 1..Len(p) : ~(i < 1)
      BY <2>1 DEF IsText
    <3> QED BY <2>1, <2>2, <3>1 DEF Before, LinesOf, IsText
  <2> QED BY <2>2, <2>3, NoneCollected DEF Listing
<1>6. CASE Parse
  BY <1>1, <1>3, <1>4, <1>6 DEF Parse, ReadBlank, ReadHeader, ReadSigningKeys,
     ReadAudit, ReadAnchor, ReadManifest, ReadOther, ReadMalformed, ParseDone, loaded
<1>7. CASE UNCHANGED vars
  BY <1>1, <1>7 DEF vars
<1> QED BY <1>2, <1>5, <1>6, <1>7 DEF Verify

(* The rows are listed in order at every step.                             *)
LEMMA NextListing == Inv /\ Listing /\ [Next]_vars => Listing'
  BY StepListing, PacksAssumption DEF Next

(* ai_by_anchor: the rows that name an anchor, in the order of the list.   *)
LEMMA RowsSelected ==
    ASSUME NEW S, ai \in Seq(S), NEW id
    PROVE  InListOrder(RowsByAnchor(id), ai,
               {i \in DOMAIN ai : ai[i].covered_by.anchor_id = id})
<1> DEFINE Test(i) == ai[i].covered_by.anchor_id = id
           P(i) == {j \in DOMAIN ai : /\ Test(j)
                                      /\ FALSE \/ (~FALSE /\ j < i)}
           R == {i \in DOMAIN ai : Test(i)}
           At(k) == CHOOSE i \in DOMAIN ai : /\ Test(i)
                                             /\ k = 1 + Cardinality(P(i))
           c == [k \in 1..Cardinality(R) |-> At(k)]
<1>1. PICK key : key = [i \in DOMAIN ai |-> 0]
  OBVIOUS
<1>2. Len(ai) \in Nat /\ DOMAIN ai = 1..Len(ai) /\ R \subseteq 1..Len(ai)
  OBVIOUS
<1>3. RowsByAnchor(id) = [k \in 1..Cardinality(R) |-> ai[c[k]]] \o <<>>
  <2>1. RowsByAnchor(id) = [k \in 1..Cardinality(R) |-> ai[At(k)]] \o <<>>
    BY DEF RowsByAnchor, Selected, Arranged
  <2> HIDE DEF At, R
  <2> QED BY <2>1
<1>4. ASSUME NEW i \in R PROVE P(i) = Under(R, key, i)
  <2>1. \A j \in R : key[j] = 0
    BY <1>1
  <2>2. P(i) = {j \in R : j < i}
    OBVIOUS
  <2>3. \A j \in R : (key[j] < key[i] \/ (~(key[i] < key[j]) /\ j < i)) <=> j < i
    BY <1>2, <1>4, <2>1
  <2> HIDE DEF P, R
  <2>4. \A j : j \in Under(R, key, i) <=> j \in R /\ j < i
    BY <2>3 DEF Under
  <2> QED BY <2>2, <2>4
<1>5. ASSUME NEW k \in 1..Cardinality(R),
             \E i \in R : k = 1 + Cardinality(Under(R, key, i))
      PROVE  c[k] \in R /\ k = 1 + Cardinality(Under(R, key, c[k]))
  <2>1. \A i : i \in R <=> i \in DOMAIN ai /\ Test(i)
    OBVIOUS
  <2> HIDE DEF P, R, Test
  <2>2. \E i \in DOMAIN ai : /\ Test(i)
                             /\ k = 1 + Cardinality(P(i))
    BY <1>4, <1>5, <2>1
  <2>3. c[k] \in DOMAIN ai /\ Test(c[k]) /\ k = 1 + Cardinality(P(c[k]))
    BY <2>2
  <2> QED BY <1>4, <2>1, <2>3
<1> HIDE DEF c, R
<1>6. \A i \in R : key[i] \in Int
  BY <1>1, <1>2
<1>7. ArrangedByKey(RowsByAnchor(id), ai, R, key)
  BY <1>2, <1>3, <1>5, <1>6, Arranging
<1> QED BY <1>1, <1>7 DEF InListOrder, R

(* The lines of the rows that name an anchor, in the order of the text.    *)
LEMMA LinesSelected ==
    ASSUME Place, NEW id
    PROVE  InListOrder(RowLinesUnder(id), pack,
               {i \in DOMAIN pack : pack[i].kind = "ai_audit"
                                    /\ pack[i].body.covered_by.anchor_id = id})
<1> DEFINE Test(i) == /\ pack[i].kind = "ai_audit"
                      /\ pack[i].body.covered_by.anchor_id = id
           P(i) == {j \in DOMAIN pack : /\ Test(j)
                                        /\ FALSE \/ (~FALSE /\ j < i)}
           R == {i \in DOMAIN pack : Test(i)}
           At(k) == CHOOSE i \in DOMAIN pack : /\ Test(i)
                                               /\ k = 1 + Cardinality(P(i))
           c == [k \in 1..Cardinality(R) |-> At(k)]
<1>1. PICK key : key = [i \in DOMAIN pack |-> 0]
  OBVIOUS
<1>2. Len(pack) \in Nat /\ DOMAIN pack = 1..Len(pack) /\ R \subseteq 1..Len(pack)
  BY DEF Place
<1>3. RowLinesUnder(id) = [k \in 1..Cardinality(R) |-> pack[c[k]]] \o <<>>
  <2>1. RowLinesUnder(id) = [k \in 1..Cardinality(R) |-> pack[At(k)]] \o <<>>
    BY DEF RowLinesUnder, Selected, Arranged
  <2> HIDE DEF At, R
  <2> QED BY <2>1
<1>4. ASSUME NEW i \in R PROVE P(i) = Under(R, key, i)
  <2>1. \A j \in R : key[j] = 0
    BY <1>1
  <2>2. P(i) = {j \in R : j < i}
    OBVIOUS
  <2>3. \A j \in R : (key[j] < key[i] \/ (~(key[i] < key[j]) /\ j < i)) <=> j < i
    BY <1>2, <1>4, <2>1
  <2> HIDE DEF P, R
  <2>4. \A j : j \in Under(R, key, i) <=> j \in R /\ j < i
    BY <2>3 DEF Under
  <2> QED BY <2>2, <2>4
<1>5. ASSUME NEW k \in 1..Cardinality(R),
             \E i \in R : k = 1 + Cardinality(Under(R, key, i))
      PROVE  c[k] \in R /\ k = 1 + Cardinality(Under(R, key, c[k]))
  <2>1. \A i : i \in R <=> i \in DOMAIN pack /\ Test(i)
    OBVIOUS
  <2> HIDE DEF P, R, Test
  <2>2. \E i \in DOMAIN pack : /\ Test(i)
                               /\ k = 1 + Cardinality(P(i))
    BY <1>4, <1>5, <2>1
  <2>3. c[k] \in DOMAIN pack /\ Test(c[k]) /\ k = 1 + Cardinality(P(c[k]))
    BY <2>2
  <2> QED BY <1>4, <2>1, <2>3
<1> HIDE DEF c, R
<1>6. \A i \in R : key[i] \in Int
  BY <1>1, <1>2
<1>7. ArrangedByKey(RowLinesUnder(id), pack, R, key)
  BY <1>2, <1>3, <1>5, <1>6, Arranging
<1> QED BY <1>1, <1>7 DEF InListOrder, R

(* Once the text is read, the two are the same rows.                       *)
LEMMA RowsOfLines ==
    ASSUME Inv, Listing, Before("ai_audit") = LinesOf("ai_audit"), NEW id
    PROVE  /\ RowsByAnchor(id) = [k \in DOMAIN RowLinesUnder(id) |-> RowLinesUnder(id)[k].body]
           /\ Len(RowsByAnchor(id)) \in Nat
<1> DEFINE I == LinesOf("ai_audit")
           B == {r \in Bodies("ai_audit") : r.covered_by.anchor_id = id}
           R == {i \in DOMAIN ai : ai[i].covered_by.anchor_id = id}
           L == {i \in DOMAIN pack : pack[i].kind = "ai_audit"
                                     /\ pack[i].body.covered_by.anchor_id = id}
<1>1. Place /\ ai \in Seq(Bodies("ai_audit")) /\ Collected(ai, pack, I)
  BY DEF Inv, Loaded, Lists, Listing
<1>2. Positions(I, pack)
  BY <1>1 DEF Place, LinesOf, Positions
<1>3. Matching(R, ai, B)
  <2>1. \A k \in DOMAIN ai : ai[k] \in Bodies("ai_audit")
    BY <1>1
  <2> QED BY <2>1 DEF Matching
<1>4. WithBody(L, pack, I, B)
  BY DEF WithBody, LinesOf, Bodies
<1>5. PICK t, u : t = RowsByAnchor(id) /\ u = RowLinesUnder(id)
  OBVIOUS
<1>6. InListOrder(t, ai, R) /\ InListOrder(u, pack, L)
  BY <1>1, <1>5, RowsSelected, LinesSelected
<1> HIDE DEF B, R, L, I
<1>7. BodiesOf(t, u)
  <2>1. Collected(ai, pack, I)
    BY <1>1
  <2> QED BY ONLY <1>2, <1>3, <1>4, <1>6, <2>1, SameSelection
<1>8. PICK S, c : t = [k \in 1..Cardinality(S) |-> ai[c[k]]]
                  /\ Len(t) = Cardinality(S) /\ Cardinality(S) \in Nat
                  /\ DOMAIN t = 1..Cardinality(S)
  BY <1>6 DEF InListOrder, ArrangedByKey, EnumeratesByKey, Enumerates
<1>9. t = [k \in DOMAIN u |-> u[k].body]
  BY <1>7, <1>8 DEF BodiesOf
<1> QED BY <1>5, <1>8, <1>9

-----------------------------------------------------------------------------
(* What a PASS means *)

(* At the report the locals describe the whole text, and every check holds.*)
LEMMA AtReport ==
    ASSUME Inv, Accepted
    PROVE  /\ \A k : Before(k) = LinesOf(k)
           /\ parse_errors = 0 /\ HeaderIsV2 /\ ManifestIsLast /\ CountsAgree
           /\ IdentityAgrees /\ RowsIntact /\ SignedRowsVerify /\ AnchorsVerify
           /\ TenantAnchorsRecompute /\ FleetRowsIncluded /\ RowsCovered
           /\ ChainsLink /\ SeamHolds
<1>1. pc = "report" /\ AllOk
  BY DEF Accepted, Passed, AllOk
<1>2. line = Len(pack) + 1 /\ Len(pack) \in Nat /\ DOMAIN pack = 1..Len(pack)
  BY <1>1 DEF Inv, Loaded, Place
<1>3. \A k : Before(k) = LinesOf(k)
  <2>1. \A i \in 1..Len(pack) : i < Len(pack) + 1
    BY <1>2
  <2> QED BY <1>2, <2>1 DEF Before, LinesOf
<1> QED BY <1>1, <1>3 DEF Inv, Verdict, AfterParse, AfterHeader, AfterTerminal,
        AfterCounts, AfterIdentity, AfterIntact, AfterSigned, AfterAnchors,
        AfterRecompute, AfterFleet, AfterLinks, AfterSeam, AfterCoverage

(* Every row and anchor line of the text is one of the items checked.      *)
LEMMA EveryLineChecked ==
    ASSUME Inv, Accepted
    PROVE  /\ \A r \in Bodies("ai_audit") : \E k \in DOMAIN ai : ai[k] = r
           /\ \A a \in Bodies("anchor") : \E k \in DOMAIN anchors : anchors[k] = a
  BY AtReport DEF Inv, Loaded, Lists, Bodies

(* A PASS vouches for the hash of every row and for the signatures of the  *)
(* signed rows and of all anchors (verify.rs:206-275).                     *)
THEOREM PassSigned == Spec => []PassIsSigned
<1>1. ASSUME Inv PROVE PassIsSigned
  <2> SUFFICES ASSUME Accepted
               PROVE
        /\ \A r \in Bodies("ai_audit") :
              /\ r.payload_hash = Sha256(r.payload)
              /\ r.signed =>
                    \E k \in DeclaredKeys, alg \in KnownAlg :
                        /\ k.key_id = r.signing_key_id
                        /\ r.signature = Sign(alg, k.public_key_hex, Sha256(r.payload))
        /\ \A a \in Bodies("anchor") :
              \E k \in DeclaredKeys :
                  /\ k.key_id = a.signing_key_id
                  /\ a.signature = Sign(a.sig_alg, k.public_key_hex, AnchorPayloadHash(a))
    BY DEF PassIsSigned
  <2> USE <1>1
  <2>1. ASSUME NEW r \in Bodies("ai_audit")
        PROVE  r.payload_hash = Sha256(r.payload)
    BY EveryLineChecked, AtReport DEF RowsIntact, RowIntegrityOK
  <2>2. ASSUME NEW r \in Bodies("ai_audit"), r.signed
        PROVE  \E k \in DeclaredKeys, alg \in KnownAlg :
                   /\ k.key_id = r.signing_key_id
                   /\ r.signature = Sign(alg, k.public_key_hex, Sha256(r.payload))
    <3>1. RowSignatureOK(r)
      BY <2>2, EveryLineChecked, AtReport DEF SignedRowsVerify
    <3>2. PICK k : k = KeyById(r.signing_key_id)
      OBVIOUS
    <3>3. PICK alg : alg = IF r.sig_alg = None THEN k.sig_alg ELSE r.sig_alg
      OBVIOUS
    <3>4. k # None /\ SignatureValid(alg, k.public_key_hex, r.payload_hash, r.signature)
      BY <3>1, <3>2, <3>3 DEF RowSignatureOK
    <3>5. k \in DeclaredKeys /\ k.key_id = r.signing_key_id
      BY <3>2, <3>4, KeyFound DEF Inv
    <3>6. alg \in KnownAlg /\ r.signature = Sign(alg, k.public_key_hex, Sha256(r.payload))
      BY <2>1, <3>4 DEF SignatureValid
    <3> QED BY <3>5, <3>6
  <2>3. ASSUME NEW a \in Bodies("anchor")
        PROVE  \E k \in DeclaredKeys :
                   /\ k.key_id = a.signing_key_id
                   /\ a.signature = Sign(a.sig_alg, k.public_key_hex, AnchorPayloadHash(a))
    <3>1. AnchorSignatureOK(a)
      BY EveryLineChecked, AtReport DEF AnchorsVerify
    <3>2. PICK k : k = KeyById(a.signing_key_id)
      OBVIOUS
    <3>3. k # None /\ SignatureValid(a.sig_alg, k.public_key_hex, AnchorPayloadHash(a), a.signature)
      BY <3>1, <3>2 DEF AnchorSignatureOK
    <3>4. k \in DeclaredKeys /\ k.key_id = a.signing_key_id
      BY <3>2, <3>3, KeyFound DEF Inv
    <3> QED BY <3>3, <3>4 DEF SignatureValid
  <2> QED BY <2>1, <2>2, <2>3
<1> QED BY <1>1, Invariant, PTL

(* A PASS vouches that every row names an anchor of the text and that the  *)
(* rows labelled fleet are leaves under theirs (verify.rs:309-352).        *)
THEOREM PassCovered == Spec => []PassIsCovered
<1>1. ASSUME Inv PROVE PassIsCovered
  <2> SUFFICES ASSUME Accepted, NEW r \in Bodies("ai_audit")
               PROVE
            \E a \in Bodies("anchor") :
                /\ a.id = r.covered_by.anchor_id
                /\ r.covered_by.chain = "fleet" =>
                      /\ r.inclusion_proof # None
                      /\ I64(r.inclusion_proof.leaf_count) = a.row_count
                      /\ MerkleInclusionVerify(Sha256(r.payload),
                             r.inclusion_proof.leaf_index,
                             r.inclusion_proof.leaf_count,
                             r.inclusion_proof.path, a.merkle_root)
    BY DEF PassIsCovered
  <2> USE <1>1
  <2>1. PICK a : a = AnchorById(r.covered_by.anchor_id)
    OBVIOUS
  <2>2. a # None /\ (r.covered_by.chain = "fleet" => FleetInclusionOK(r))
    BY <2>1, EveryLineChecked, AtReport DEF RowsCovered, FleetRowsIncluded
  <2>3. a \in Bodies("anchor") /\ a.id = r.covered_by.anchor_id
    BY <2>1, <2>2, AnchorFound DEF Inv
  <2>4. r.payload_hash = Sha256(r.payload)
    BY EveryLineChecked, AtReport DEF RowsIntact, RowIntegrityOK
  <2>5. ASSUME r.covered_by.chain = "fleet"
        PROVE  /\ r.inclusion_proof # None
               /\ I64(r.inclusion_proof.leaf_count) = a.row_count
               /\ MerkleInclusionVerify(Sha256(r.payload), r.inclusion_proof.leaf_index,
                      r.inclusion_proof.leaf_count, r.inclusion_proof.path,
                      a.merkle_root)
    BY <2>1, <2>2, <2>4, <2>5 DEF FleetInclusionOK
  <2> QED BY <2>3, <2>5
<1> QED BY <1>1, Invariant, PTL

(* A PASS vouches that the text is whole: no line was lost, none is        *)
(* malformed, and nothing follows the manifest (verify.rs:69-171).         *)
THEOREM PassComplete == Spec => []PassIsComplete
<1>1. ASSUME Inv PROVE PassIsComplete
  <2> SUFFICES ASSUME Accepted
               PROVE
        /\ LinesOf("malformed") = {}
        /\ \E h \in Bodies("header"), i \in LinesOf("manifest") :
              LET m == pack[i].body
              IN  /\ \A j \in DOMAIN pack : j > i => pack[j].kind = "blank"
                  /\ h.format_version = 2 /\ h.tenant_id = m.tenant_id
                  /\ m.counts.audit     = Cardinality(LinesOf("audit"))
                  /\ m.counts.ai_audit  = Cardinality(LinesOf("ai_audit"))
                  /\ m.counts.anchors   = Cardinality(LinesOf("anchor"))
                  /\ m.counts.ai_signed =
                        Cardinality({j \in LinesOf("ai_audit") : pack[j].body.signed})
    BY DEF PassIsComplete
  <2> USE <1>1
  <2>1. LinesOf("malformed") = {}
    <3>1. Cardinality(LinesOf("malformed")) = 0
      BY AtReport DEF Inv, Loaded, Counters
    <3>2. IsFiniteSet(LinesOf("malformed"))
      BY LinesCounted DEF Inv, Loaded, LinesOf
    <3> QED BY <3>1, <3>2, FS_EmptySet
  <2>2. header \in Bodies("header") /\ header # None /\ header.format_version = 2
    BY AtReport DEF Inv, Loaded, Ends, HeaderIsV2
  <2>3. PICK i \in LinesOf("manifest") : LastManifest(i)
    BY AtReport DEF Inv, Loaded, Ends, ManifestIsLast
  <2>4. manifest # None /\ manifest = pack[i].body
    BY <2>3, AtReport DEF LastManifest, ManifestIsLast
  <2>5. \A j \in DOMAIN pack : j > i => pack[j].kind = "blank"
    <3>1. /\ line = Len(pack) + 1 /\ Len(pack) \in Nat /\ DOMAIN pack = 1..Len(pack)
          /\ i \in 1..Len(pack)
      BY <2>3 DEF Inv, Loaded, Place, Accepted, LinesOf
    <3>2. \A j \in 1..Len(pack) : j < line /\ (j > i => i < j)
      BY <3>1
    <3> QED BY <2>3, <3>1, <3>2 DEF LastManifest
  <2>6. header.tenant_id = manifest.tenant_id
    BY <2>2, <2>4, AtReport DEF IdentityAgrees, SameIdentity
  <2>7. /\ manifest.counts.audit     = Cardinality(LinesOf("audit"))
        /\ manifest.counts.ai_audit  = Cardinality(LinesOf("ai_audit"))
        /\ manifest.counts.anchors   = Cardinality(LinesOf("anchor"))
        /\ manifest.counts.ai_signed = Cardinality(SignedBefore)
    BY <2>4, AtReport DEF CountsAgree, CountsOK, Inv, Loaded, Counters
  <2>8. SignedBefore = {j \in LinesOf("ai_audit") : pack[j].body.signed}
    BY AtReport DEF SignedBefore
  <2> QED BY <2>1, <2>2, <2>4, <2>5, <2>6, <2>7, <2>8
<1> QED BY <1>1, Invariant, PTL

(* A PASS vouches that each tenant anchor's root is the Merkle root of all *)
(* the rows of the text that name it, in leaf order (verify.rs:277-307).   *)
THEOREM PassRecomputed == Spec => []PassIsRecomputed
<1>1. ASSUME Inv, Listing PROVE PassIsRecomputed
  <2> SUFFICES ASSUME Accepted, NEW a \in Bodies("anchor"), OnTenantChain(a.chain),
                      NEW rows,
                      rows = [i \in DOMAIN RowLinesUnder(a.id) |-> RowLinesUnder(a.id)[i].body]
               PROVE  /\ Len(rows) = a.row_count
                      /\ MerkleRoot(PayloadHashes(InLeafOrder(rows))) = a.merkle_root
    BY DEF PassIsRecomputed
  <2> USE <1>1
  <2>1. SovereignRecomputeOK(a)
    BY EveryLineChecked, AtReport DEF TenantAnchorsRecompute
  <2>2. RowsByAnchor(a.id) = rows
    <3>1. Before("ai_audit") = LinesOf("ai_audit")
      BY AtReport
    <3> QED BY <3>1, RowsOfLines
  <2>3. PICK t : t = RowsByAnchor(a.id)
    OBVIOUS
  <2>4. Len(t) = a.row_count /\ MerkleRoot(PayloadHashes(InLeafOrder(t))) = a.merkle_root
    BY <2>1, <2>3 DEF SovereignRecomputeOK
  <2> QED BY <2>2, <2>3, <2>4
<1>2. Spec => []Listing
  BY InitListing, InitInv, NextInv, NextListing, PTL DEF Spec
<1> QED BY <1>1, <1>2, Invariant, PTL

-----------------------------------------------------------------------------
(* Types *)

FindingsTyped ==
    \A k \in DOMAIN findings :
        findings[k].check \in Range(CheckNames) /\ findings[k].ok \in BOOLEAN

(* A finding recorded is about a check and has a verdict.                  *)
LEMMA RecordedTyped ==
    ASSUME IsList, FindingsTyped, NEW check \in Range(CheckNames), NEW ok \in BOOLEAN,
           NEW next, Record(check, ok, next)
    PROVE  FindingsTyped'
<1>1. PICK x : x = [check |-> check, ok |-> ok]
  OBVIOUS
<1>2. x.check \in Range(CheckNames) /\ x.ok \in BOOLEAN
  BY <1>1
<1>3. findings' = Append(findings, x)
  BY <1>1 DEF Record
<1>4. /\ Len(findings) \in Nat /\ DOMAIN findings = 1..Len(findings)
      /\ Len(findings') = Len(findings) + 1 /\ DOMAIN findings' = 1..Len(findings')
      /\ findings'[Len(findings')] = x
      /\ \A k \in DOMAIN findings : findings'[k] = findings[k]
  BY <1>3, OneMore DEF IsList
<1>5. \A k \in DOMAIN findings' : k \in DOMAIN findings \/ k = Len(findings')
  BY <1>4
<1> QED BY <1>2, <1>4, <1>5 DEF FindingsTyped

(* The findings are typed throughout.                                      *)
LEMMA FindingsStayTyped == Inv /\ FindingsTyped /\ [Next]_vars => FindingsTyped'
<1> SUFFICES ASSUME Inv, FindingsTyped, [Next]_vars PROVE FindingsTyped'
  OBVIOUS
<1>f. IsList
  BY DEF Inv, Verdict
<1>n. Range(CheckNames) =
         {"structure.parse", "structure.header", "structure.manifest_terminal",
          "structure.counts", "structure.identity", "signing_keys", "row_integrity",
          "row_signature", "anchor_signature", "sovereign_recompute",
          "fleet_inclusion", "chain_continuity", "genesis_seam", "coverage"}
  <2>1. DOMAIN CheckNames = 1..14
    BY DEF CheckNames
  <2>2. Range(CheckNames) = {CheckNames[i] : i \in 1..14}
    BY <2>1 DEF Range
  <2> QED BY <2>2 DEF CheckNames
<1>1. CASE UNCHANGED findings
  BY <1>1 DEF FindingsTyped
<1>2. CASE Check
  <2>1. ASSUME NEW check \in Range(CheckNames), NEW next,
               Skip(check, next) \/ \E ok \in BOOLEAN : Record(check, ok, next)
        PROVE  FindingsTyped'
    BY <1>f, <1>1, <2>1, RecordedTyped DEF Skip
  <2>2. CheckParse =>
          \E ok \in BOOLEAN : Record("structure.parse", ok, "structure.header")
    BY DEF CheckParse
  <2>3. CheckHeader =>
          \E ok \in BOOLEAN : Record("structure.header", ok, "structure.manifest_terminal")
    BY DEF CheckHeader
  <2>4. CheckManifestTerminal =>
          \E ok \in BOOLEAN : Record("structure.manifest_terminal", ok, "structure.counts")
    BY DEF CheckManifestTerminal
  <2>5. CheckCounts =>
          \/ Skip("structure.counts", "structure.identity")
          \/ \E ok \in BOOLEAN : Record("structure.counts", ok, "structure.identity")
    BY DEF CheckCounts, CountsOK
  <2>6. CheckIdentity =>
          \/ Skip("structure.identity", "signing_keys")
          \/ \E ok \in BOOLEAN : Record("structure.identity", ok, "signing_keys")
    BY DEF CheckIdentity, SameIdentity
  <2>7. CheckSigningKeys =>
          \E ok \in BOOLEAN : Record("signing_keys", ok, "row_integrity")
    BY DEF CheckSigningKeys
  <2>8. CheckRowIntegrity =>
          \E ok \in BOOLEAN : Record("row_integrity", ok, "row_signature")
    BY DEF CheckRowIntegrity, RowsIntact
  <2>9. CheckRowSignature =>
          \E ok \in BOOLEAN : Record("row_signature", ok, "anchor_signature")
    BY DEF CheckRowSignature, SignedRowsVerify
  <2>10. CheckAnchorSignature =>
          \E ok \in BOOLEAN : Record("anchor_signature", ok, "sovereign_recompute")
    BY DEF CheckAnchorSignature, AnchorsVerify
  <2>11. CheckSovereignRecompute =>
          \E ok \in BOOLEAN : Record("sovereign_recompute", ok, "fleet_inclusion")
    BY DEF CheckSovereignRecompute
  <2>12. CheckFleetInclusion =>
          \E ok \in BOOLEAN : Record("fleet_inclusion", ok, "chain_continuity")
    BY DEF CheckFleetInclusion, FleetRowsIncluded
  <2>13. CheckContinuity =>
          \E ok \in BOOLEAN : Record("chain_continuity", ok, "genesis_seam")
    BY DEF CheckContinuity
  <2>14. CheckSeam =>
          \/ Skip("genesis_seam", "panic")
          \/ \E ok \in BOOLEAN : Record("genesis_seam", ok, "coverage")
    BY DEF CheckSeam, SeamOK
  <2>15. CheckCoverage =>
          \E ok \in BOOLEAN : Record("coverage", ok, "report")
    BY DEF CheckCoverage, RowsCovered
  <2> QED BY <1>2, <2>1, <1>n, <2>2, <2>3, <2>4, <2>5, <2>6, <2>7, <2>8,
             <2>9, <2>10, <2>11, <2>12, <2>13, <2>14, <2>15 DEF Check
<1>3. CASE Parse
  BY <1>1, <1>3 DEF Parse, ReadBlank, ReadHeader, ReadSigningKeys, ReadAudit, ReadAiAudit,
     ReadAnchor, ReadManifest, ReadOther, ReadMalformed, ParseDone, AtLine
<1>4. CASE \E p \in Packs : Submit(p)
  BY <1>1, <1>4 DEF Submit
<1> QED BY <1>1, <1>2, <1>3, <1>4 DEF Next, Verify, vars

(* The locals of verify() never hold more than the lines read so far, and  *)
(* every finding is about one of its checks (verify.rs:69-602).            *)
THEOREM PackTypeCorrect == Spec => []TypeOK
<1>1. Init => FindingsTyped
  BY DEF Init, FindingsTyped
<1>2. ASSUME Inv, FindingsTyped PROVE TypeOK
  <2>1. audit_count + parse_errors + Len(ai) + Len(anchors) \in 0..(line - 1)
    <3>1. \A k : Cardinality(Before(k)) \in Nat
      BY <1>2, LinesCounted DEF Inv, Loaded, Before, LinesOf
    <3>2. Len(ai) \in Nat /\ Len(anchors) \in Nat /\ line \in Nat
      BY <1>2 DEF Inv, Loaded, Place, Lists
    <3> QED BY <1>2, <3>1, <3>2 DEF Inv, Loaded, Counters
  <2>2. last_was_manifest \in BOOLEAN /\ (last_was_manifest => manifest # None)
    BY <1>2 DEF Inv, Loaded, Place, Ends, LastManifest, Before
  <2> QED BY <1>2, <2>1, <2>2 DEF TypeOK, Inv, Loaded, Place, FindingsTyped
<1> QED BY <1>1, <1>2, Invariant, FindingsStayTyped, PTL DEF Spec

-----------------------------------------------------------------------------
(* The report lists every check *)

(* A text with a header or a manifest leaves verify() with one. *)
Presence ==
    /\ \A i \in LinesOf("header") : pack[i].body # None
    /\ header = None <=> Before("header") = {}
    /\ manifest = None <=> Before("manifest") = {}

(* No text, no header and no manifest.                                     *)
LEMMA InitPresence == Init => Presence
  BY DEF Init, Presence, Before, LinesOf

(* A header or manifest line read leaves one behind, and only such a line. *)
LEMMA StepPresence ==
    ASSUME Inv, Presence, [Next]_vars
    PROVE  Presence'
<1>1. CASE UNCHANGED <<pack, line, loaded>>
  BY <1>1 DEF Presence, Before, LinesOf, loaded
<1>2. CASE Check
  BY <1>1, <1>2, CheckVerdict DEF Inv
<1>3. ASSUME NEW kind, AtLine(kind), UNCHANGED <<header, manifest>>,
             kind # "header", kind # "manifest"
      PROVE  Presence'
  <2>1. /\ Before("header")' = Before("header")
        /\ Before("manifest")' = Before("manifest")
        /\ LinesOf("header")' = LinesOf("header") /\ pack' = pack
    BY <1>3, LineRead DEF Inv, Loaded
  <2> QED BY <1>3, <2>1 DEF Presence
<1>4. CASE ReadHeader
  <2>1. /\ AtLine("header") /\ manifest' = manifest
        /\ header' = IF header = None THEN pack[line].body ELSE header
    BY <1>4 DEF ReadHeader, body
  <2>2. /\ Before("header")' = Before("header") \cup {line}
        /\ Before("manifest")' = Before("manifest")
        /\ LinesOf("header")' = LinesOf("header") /\ pack' = pack
        /\ line \in LinesOf("header")
    BY <2>1, LineRead DEF Inv, Loaded
  <2> QED BY <2>1, <2>2 DEF Presence
<1>5. CASE ReadManifest
  <2>1. AtLine("manifest") /\ manifest' = pack[line].body /\ header' = header
    BY <1>5 DEF ReadManifest, body
  <2>2. /\ Before("manifest")' = Before("manifest") \cup {line}
        /\ Before("header")' = Before("header")
        /\ LinesOf("header")' = LinesOf("header") /\ pack' = pack
        /\ line \in LinesOf("manifest")
    BY <2>1, LineRead DEF Inv, Loaded
  <2>3. pack[line].body # None
    BY <2>2 DEF Inv, Loaded, Place
  <2> QED BY <2>1, <2>2, <2>3 DEF Presence
<1>6. CASE \E p \in Packs : Submit(p)
  <2>1. PICK p \in Packs : Submit(p)
    BY <1>6
  <2>0. IsText(p)
    BY PacksAssumption
  <2>2. /\ pack = <<>> /\ line = 1 /\ pack' = p /\ line' = 1
        /\ header' = header /\ manifest' = manifest
    BY <2>1 DEF Submit, Inv, Loaded, Place, loaded
  <2>3. \A k : Before(k)' = {}
    <3>1. \A i \in 1..Len(p) : ~(i < 1)
      BY <2>0 DEF IsText
    <3> QED BY <2>2, <3>1, <2>0 DEF Before, LinesOf, IsText
  <2>4. \A k : Before(k) = {}
    BY <2>2 DEF Before, LinesOf
  <2>5. \A i \in LinesOf("header")' : pack'[i].body # None
    BY <2>0, <2>2 DEF LinesOf, IsText
  <2> QED BY <2>2, <2>3, <2>4, <2>5 DEF Presence
<1>7. CASE Parse
  BY <1>1, <1>3, <1>4, <1>5, <1>7 DEF Parse, ReadBlank, ReadSigningKeys, ReadAudit,
     ReadAiAudit, ReadAnchor, ReadOther, ReadMalformed, ParseDone, loaded
<1>8. CASE UNCHANGED vars
  BY <1>1, <1>8 DEF vars
<1> QED BY <1>2, <1>6, <1>7, <1>8 DEF Next, Verify

(* The checks by number, as lines of a text of their own. *)
CheckLines == [k \in 1..14 |-> [body |-> CheckNames[k]]]

NextName(p) == IF p = 14 THEN "report" ELSE CheckNames[p + 1]

(* Whether the p-th check is made. *)
Ran(p) ==
    /\ CheckNames[p] \in {"structure.counts", "structure.identity"} => manifest # None
    /\ CheckNames[p] = "structure.identity" => header # None

(* The p-th check is next; after the last comes the report. *)
At(p) == \/ p \in 1..14 /\ pc = CheckNames[p]
         \/ p = 15 /\ pc = "report"

RanBefore(p) == {k \in 1..14 : k < p /\ Ran(k)}

FindingNames == [k \in DOMAIN findings |-> findings[k].check]

Reported ==
    /\ pc \in {"idle", "parse"} => findings = <<>>
    /\ \A p \in 1..15 : At(p) => Collected(FindingNames, CheckLines, RanBefore(p))

(* The checks by number are different checks.                              *)
LEMMA Numbered ==
    /\ DOMAIN CheckNames = 1..14 /\ CheckNames[1] = "structure.parse"
    /\ \A p \in 1..14 : CheckNames[p] \notin {"idle", "parse", "report", "panic"}
    /\ \A p \in 1..14 : CheckNames[p] \in Range(CheckNames)
    /\ \A p, q \in 1..14 : CheckNames[p] = CheckNames[q] => p = q
<1>1. /\ DOMAIN CheckNames = 1..14 /\ CheckNames[1] = "structure.parse"
  BY DEF CheckNames
<1>2. \A p \in 1..14 : CheckNames[p] \in Range(CheckNames)
  BY <1>1 DEF Range
<1>3. \A p \in 1..14 : CheckNames[p] \notin {"idle", "parse", "report", "panic"}
  BY DEF CheckNames
<1>4. PICK f : f = [s \in {"structure.parse", "structure.header",
          "structure.manifest_terminal", "structure.counts", "structure.identity",
          "signing_keys", "row_integrity", "row_signature", "anchor_signature",
          "sovereign_recompute", "fleet_inclusion", "chain_continuity",
          "genesis_seam", "coverage"} |->
          IF s = "structure.parse" THEN 1 ELSE IF s = "structure.header" THEN 2
          ELSE IF s = "structure.manifest_terminal" THEN 3
          ELSE IF s = "structure.counts" THEN 4
          ELSE IF s = "structure.identity" THEN 5 ELSE IF s = "signing_keys" THEN 6
          ELSE IF s = "row_integrity" THEN 7 ELSE IF s = "row_signature" THEN 8
          ELSE IF s = "anchor_signature" THEN 9 ELSE IF s = "sovereign_recompute" THEN 10
          ELSE IF s = "fleet_inclusion" THEN 11 ELSE IF s = "chain_continuity" THEN 12
          ELSE IF s = "genesis_seam" THEN 13 ELSE 14]
  OBVIOUS
<1>5. \A p \in 1..14 : f[CheckNames[p]] = p
  BY <1>4 DEF CheckNames
<1> QED BY <1>1, <1>2, <1>3, <1>5

Made(check, next) == \E ok : Record(check, ok, next)

(* The step of the p-th check: made, left out for want of what it looks    *)
(* at, or never finished.                                                  *)
StepAt(p) ==
    /\ pc = CheckNames[p]
    /\ \/ Ran(p) /\ Made(CheckNames[p], NextName(p))
       \/ ~Ran(p) /\ Skip(CheckNames[p], NextName(p))
       \/ pc' = "panic"

(* Every check is made when it is due, but for those that need a manifest  *)
(* or a header, and the next one follows.                                  *)
LEMMA CheckSteps == Check => \E p \in 1..14 : StepAt(p)
<1>1. ASSUME NEW p \in 1..14, Made(CheckNames[p], NextName(p)), Ran(p) PROVE StepAt(p)
  BY <1>1 DEF Made, Record, StepAt
<1>2. ASSUME NEW p \in 1..14, Skip(CheckNames[p], NextName(p)), ~Ran(p) PROVE StepAt(p)
  BY <1>2 DEF Skip, StepAt
<1>3. /\ \A p \in 1..14 : p # 4 /\ p # 5 => Ran(p)
      /\ Ran(4) <=> manifest # None
      /\ Ran(5) <=> header # None /\ manifest # None
  BY DEF Ran, CheckNames
<1>4. /\ CheckNames[1] = "structure.parse"
      /\ NextName(1) = "structure.header"
      /\ CheckNames[2] = "structure.header"
      /\ NextName(2) = "structure.manifest_terminal"
      /\ CheckNames[3] = "structure.manifest_terminal"
      /\ NextName(3) = "structure.counts"
      /\ CheckNames[4] = "structure.counts"
      /\ NextName(4) = "structure.identity"
      /\ CheckNames[5] = "structure.identity"
      /\ NextName(5) = "signing_keys"
      /\ CheckNames[6] = "signing_keys"
      /\ NextName(6) = "row_integrity"
      /\ CheckNames[7] = "row_integrity"
      /\ NextName(7) = "row_signature"
  BY DEF NextName, CheckNames
<1>5. /\ CheckNames[8] = "row_signature"
      /\ NextName(8) = "anchor_signature"
      /\ CheckNames[9] = "anchor_signature"
      /\ NextName(9) = "sovereign_recompute"
      /\ CheckNames[10] = "sovereign_recompute"
      /\ NextName(10) = "fleet_inclusion"
      /\ CheckNames[11] = "fleet_inclusion"
      /\ NextName(11) = "chain_continuity"
      /\ CheckNames[12] = "chain_continuity"
      /\ NextName(12) = "genesis_seam"
      /\ CheckNames[13] = "genesis_seam"
      /\ NextName(13) = "coverage"
      /\ CheckNames[14] = "coverage"
      /\ NextName(14) = "report"
  BY DEF NextName, CheckNames
<1>6. CheckParse => StepAt(1)
  <2>1. CheckParse => Made("structure.parse", "structure.header")
    BY DEF CheckParse, Made
  <2> QED BY <1>1, <1>3, <1>4, <2>1
<1>7. CheckHeader => StepAt(2)
  <2>1. CheckHeader => Made("structure.header", "structure.manifest_terminal")
    BY DEF CheckHeader, Made
  <2> QED BY <1>1, <1>3, <1>4, <2>1
<1>8. CheckManifestTerminal => StepAt(3)
  <2>1. CheckManifestTerminal => Made("structure.manifest_terminal", "structure.counts")
    BY DEF CheckManifestTerminal, Made
  <2> QED BY <1>1, <1>3, <1>4, <2>1
<1>9. CheckCounts => StepAt(4)
  <2>1. CASE manifest # None
    <3>1. CheckCounts => Made("structure.counts", "structure.identity")
      BY <2>1 DEF CheckCounts, Made
    <3> QED BY <1>1, <1>3, <1>4, <2>1, <3>1
  <2>2. CASE ~(manifest # None)
    <3>1. CheckCounts => Skip("structure.counts", "structure.identity")
      BY <2>2 DEF CheckCounts
    <3> QED BY <1>2, <1>3, <1>4, <2>2, <3>1
  <2> QED BY <2>1, <2>2
<1>10. CheckIdentity => StepAt(5)
  <2>1. CASE header # None /\ manifest # None
    <3>1. CheckIdentity => Made("structure.identity", "signing_keys")
      BY <2>1 DEF CheckIdentity, Made
    <3> QED BY <1>1, <1>3, <1>4, <2>1, <3>1
  <2>2. CASE ~(header # None /\ manifest # None)
    <3>1. CheckIdentity => Skip("structure.identity", "signing_keys")
      BY <2>2 DEF CheckIdentity
    <3> QED BY <1>2, <1>3, <1>4, <2>2, <3>1
  <2> QED BY <2>1, <2>2
<1>11. CheckSigningKeys => StepAt(6)
  <2>1. CheckSigningKeys => Made("signing_keys", "row_integrity")
    BY DEF CheckSigningKeys, Made
  <2> QED BY <1>1, <1>3, <1>4, <2>1
<1>12. CheckRowIntegrity => StepAt(7)
  <2>1. CheckRowIntegrity => Made("row_integrity", "row_signature")
    BY DEF CheckRowIntegrity, Made
  <2> QED BY <1>1, <1>3, <1>4, <2>1
<1>13. CheckRowSignature => StepAt(8)
  <2>1. CheckRowSignature => Made("row_signature", "anchor_signature")
    BY DEF CheckRowSignature, Made
  <2> QED BY <1>1, <1>3, <1>5, <2>1
<1>14. CheckAnchorSignature => StepAt(9)
  <2>1. CheckAnchorSignature => Made("anchor_signature", "sovereign_recompute")
    BY DEF CheckAnchorSignature, Made
  <2> QED BY <1>1, <1>3, <1>5, <2>1
<1>15. CheckSovereignRecompute => StepAt(10)
  <2>1. CheckSovereignRecompute => Made("sovereign_recompute", "fleet_inclusion")
    BY DEF CheckSovereignRecompute, Made
  <2> QED BY <1>1, <1>3, <1>5, <2>1
<1>16. CheckFleetInclusion => StepAt(11)
  <2>1. CheckFleetInclusion => Made("fleet_inclusion", "chain_continuity")
    BY DEF CheckFleetInclusion, Made
  <2> QED BY <1>1, <1>3, <1>5, <2>1
<1>17. CheckContinuity => StepAt(12)
  <2>1. CheckContinuity => Made("chain_continuity", "genesis_seam")
    BY DEF CheckContinuity, Made
  <2> QED BY <1>1, <1>3, <1>5, <2>1
<1>18. CheckSeam => StepAt(13)
  <2>1. CheckSeam => Made("genesis_seam", "coverage") \/ Skip("genesis_seam", "panic")
    BY DEF CheckSeam, Made
  <2>2. Skip("genesis_seam", "panic") => StepAt(13)
    BY <1>5 DEF Skip, StepAt
  <2> QED BY <1>1, <1>3, <1>5, <2>1, <2>2
<1>19. CheckCoverage => StepAt(14)
  <2>1. CheckCoverage => Made("coverage", "report")
    BY DEF CheckCoverage, Made
  <2> QED BY <1>1, <1>3, <1>5, <2>1
<1>20. \A p \in {1, 2, 3, 4, 5, 6, 7, 8, 9, 10, 11, 12, 13, 14} : p \in 1..14
  OBVIOUS
<1> QED BY <1>6, <1>7, <1>8, <1>9, <1>10, <1>11, <1>12, <1>13, <1>14, <1>15, <1>16, <1>17, <1>18, <1>19, <1>20 DEF Check

(* Which checks are left out is settled when the text is read.             *)
LEMMA RanStable ==
    ASSUME UNCHANGED loaded
    PROVE  \A p : RanBefore(p)' = RanBefore(p)
  BY DEF loaded, RanBefore, Ran

(* The check made is the last of those behind.                             *)
LEMMA OneMoreRan ==
    ASSUME NEW p \in 1..14
    PROVE  RanBefore(p + 1) = IF Ran(p) THEN RanBefore(p) \cup {p} ELSE RanBefore(p)
<1>1. \A k \in 1..14 : k < p + 1 <=> k < p \/ k = p
  OBVIOUS
<1>2. CASE Ran(p)
  BY <1>1, <1>2 DEF RanBefore
<1>3. CASE ~Ran(p)
  BY <1>1, <1>3 DEF RanBefore
<1> QED BY <1>2, <1>3

(* A finding more is a name more.                                          *)
LEMMA NameAdded ==
    ASSUME IsList, FindingsTyped, NEW check \in Range(CheckNames), NEW next,
           Made(check, next)
    PROVE  /\ FindingNames \in Seq(Range(CheckNames))
           /\ FindingNames' = Append(FindingNames, check)
<1>1. PICK ok : Record(check, ok, next)
  BY DEF Made
<1>2. PICK x : x = [check |-> check, ok |-> ok]
  OBVIOUS
<1>3. findings' = Append(findings, x) /\ x.check = check
  BY <1>1, <1>2 DEF Record
<1>4. /\ Len(findings) \in Nat /\ DOMAIN findings = 1..Len(findings)
      /\ Len(findings') = Len(findings) + 1 /\ DOMAIN findings' = 1..Len(findings')
      /\ findings'[Len(findings')] = x
      /\ \A k \in DOMAIN findings : findings'[k] = findings[k]
  BY <1>3, OneMore DEF IsList
<1>5. PICK n, s, t : /\ n = Len(findings)
                     /\ s = [k \in 1..n |-> findings[k].check]
                     /\ t = [k \in 1..(n + 1) |-> findings'[k].check]
  OBVIOUS
<1>6. FindingNames = s /\ FindingNames' = t
  BY <1>4, <1>5 DEF FindingNames
<1>7. /\ n \in Nat /\ t[n + 1] = check /\ DOMAIN t = 1..(n + 1)
      /\ \A k \in 1..n : t[k] = s[k]
  BY <1>3, <1>4, <1>5
<1>8. s \in Seq(Range(CheckNames)) /\ Len(s) = n
  <2>1. \A k \in 1..n : findings[k].check \in Range(CheckNames)
    BY <1>4, <1>5 DEF FindingsTyped
  <2> QED BY <1>5, <1>7, <2>1
<1>9. t = Append(s, check)
  <2>1. \A k \in 1..(n + 1) : k \in 1..n \/ k = n + 1
    BY <1>7
  <2>2. PICK u : u = Append(s, check)
    OBVIOUS
  <2>3. /\ DOMAIN u = 1..(n + 1) /\ u[n + 1] = check /\ \A k \in 1..n : u[k] = s[k]
    BY <1>8, <2>2, ListGrows
  <2>5. u = [k \in 1..(n + 1) |-> u[k]]
    <3>1. u \in Seq(Range(CheckNames))
      BY <1>8, <2>2, ListGrows
    <3> QED BY <2>3, <3>1
  <2>4. \A k \in 1..(n + 1) : t[k] = u[k]
    BY <1>7, <2>1, <2>3
  <2> QED BY <1>5, <2>2, <2>4, <2>5
<1> QED BY <1>6, <1>8, <1>9

(* Each step keeps the report at the checks made.                          *)
LEMMA StepReported ==
    ASSUME Inv, FindingsTyped, Reported, [Next]_vars
    PROVE  Reported'
<1>1. CASE Check
  <2>1. PICK p \in 1..14 : StepAt(p)
    BY <1>1, CheckSteps
  <2>2. /\ UNCHANGED loaded /\ pc' \notin {"idle", "parse"} /\ IsList
    BY <1>1, CheckVerdict DEF Inv, Verdict
  <2>3. Collected(FindingNames, CheckLines, RanBefore(p)) /\ pc = CheckNames[p]
    BY <2>1 DEF Reported, At, StepAt
  <2>4. ASSUME NEW q \in 1..15, At(q)'
        PROVE  q = p + 1 /\ pc' # "panic"
    <3>1. pc' # "panic"
      BY <2>4, Numbered DEF At
    <3>2. pc' = NextName(p)
      BY <2>1, <3>1 DEF StepAt, Made, Record, Skip
    <3>3. CASE p = 14
      BY <2>4, <3>2, <3>3, Numbered DEF At, NextName
    <3>4. CASE p # 14
      <4>1. p + 1 \in 1..14 /\ pc' = CheckNames[p + 1]
        BY <3>2, <3>4 DEF NextName
      <4> QED BY <2>4, <3>1, <4>1, Numbered DEF At
    <3> QED BY <3>1, <3>3, <3>4
  <2>5. ASSUME NEW q \in 1..15, At(q)'
        PROVE  Collected(FindingNames', CheckLines, RanBefore(q))
    <3>1. q = p + 1 /\ pc' # "panic"
      BY <2>4, <2>5
    <3>2. CASE Ran(p) /\ Made(CheckNames[p], NextName(p))
      <4>1. PICK l : l = p
        OBVIOUS
      <4>2. /\ FindingNames \in Seq(Range(CheckNames))
            /\ FindingNames' = Append(FindingNames, CheckLines[l].body)
            /\ CheckLines[l].body \in Range(CheckNames)
        <5>1. CheckNames[p] \in Range(CheckNames) /\ CheckLines[l].body = CheckNames[p]
          BY <4>1, Numbered DEF CheckLines
        <5> QED BY <2>2, <3>2, <5>1, NameAdded
      <4>3. \A i \in RanBefore(p) : i \in Nat /\ i < l
        BY <4>1 DEF RanBefore
      <4>4. Collected(Append(FindingNames, CheckLines[l].body), CheckLines, RanBefore(p) \cup {l})
        <5>1. PICK S, list, text, I : /\ S = Range(CheckNames) /\ list = FindingNames
                                      /\ text = CheckLines /\ I = RanBefore(p)
          OBVIOUS
        <5>2. /\ list \in Seq(S) /\ Collected(list, text, I) /\ l \in Nat
              /\ text[l].body \in S
          BY <2>3, <4>1, <4>2, <5>1
        <5>3. \A i \in I : i \in Nat /\ i < l
          BY <4>3, <5>1
        <5>4. Collected(Append(list, text[l].body), text, I \cup {l})
          BY ONLY <5>2, <5>3, OneMoreCollected
        <5> QED BY <5>1, <5>4
      <4>5. RanBefore(q) = RanBefore(p) \cup {l}
        BY <3>1, <3>2, <4>1, OneMoreRan
      <4> QED BY <4>2, <4>4, <4>5
    <3>3. CASE ~Ran(p) /\ Skip(CheckNames[p], NextName(p))
      <4>1. FindingNames' = FindingNames
        BY <3>3 DEF Skip, FindingNames
      <4>2. RanBefore(q) = RanBefore(p)
        BY <3>1, <3>3, OneMoreRan
      <4> QED BY <2>3, <4>1, <4>2
    <3> QED BY <2>1, <3>1, <3>2, <3>3 DEF StepAt
  <2>6. \A q : RanBefore(q)' = RanBefore(q)
    BY <2>2, RanStable
  <2>7. CheckLines' = CheckLines
    BY DEF CheckLines, CheckNames
  <2> QED BY <2>2, <2>5, <2>6, <2>7 DEF Reported
<1>2. CASE Parse \/ \E p \in Packs : Submit(p)
  <2>1. findings' = <<>> /\ pc' \in {"parse", "structure.parse"}
    BY <1>2 DEF Parse, ReadBlank, ReadHeader, ReadSigningKeys, ReadAudit, ReadAiAudit,
       ReadAnchor, ReadManifest, ReadOther, ReadMalformed, ParseDone, AtLine, Submit,
       Reported
  <2>2. ASSUME NEW q \in 1..15, At(q)' PROVE q = 1
    BY <2>1, <2>2, Numbered DEF At
  <2>3. Collected(FindingNames, CheckLines, RanBefore(1))'
    <3>1. FindingNames' = <<>> /\ RanBefore(1)' = {}
      BY <2>1 DEF FindingNames, RanBefore
    <3> QED BY <3>1, NoneCollected
  <2> QED BY <2>1, <2>2, <2>3 DEF Reported
<1>3. CASE UNCHANGED vars
  <2>1. UNCHANGED loaded /\ pc' = pc /\ findings' = findings
    BY <1>3 DEF vars
  <2>2. \A q : RanBefore(q)' = RanBefore(q)
    BY <2>1, RanStable
  <2> QED BY <2>1, <2>2 DEF Reported, At, FindingNames, CheckLines
<1> QED BY <1>1, <1>2, <1>3 DEF Next, Verify

(* A check as NoCheckSkipped wants it in the report. *)
Wanted(check) ==
    /\ check \in {"structure.counts", "structure.identity"} => LinesOf("manifest") # {}
    /\ check = "structure.identity" => LinesOf("header") # {}

(* The checks wanted, in the order of the code.                            *)
LEMMA ChecksSelected ==
    InListOrder(Selected(CheckNames, Wanted), CheckNames,
                {k \in 1..14 : Wanted(CheckNames[k])})
<1> DEFINE Test(i) == Wanted(CheckNames[i])
           P(i) == {j \in DOMAIN CheckNames : /\ Test(j)
                                              /\ FALSE \/ (~FALSE /\ j < i)}
           R == {i \in DOMAIN CheckNames : Test(i)}
           At_(k) == CHOOSE i \in DOMAIN CheckNames : /\ Test(i)
                                                      /\ k = 1 + Cardinality(P(i))
           c == [k \in 1..Cardinality(R) |-> At_(k)]
<1> HIDE DEF Wanted
<1>1. PICK key : key = [i \in DOMAIN CheckNames |-> 0]
  OBVIOUS
<1>2. DOMAIN CheckNames = 1..14 /\ R \subseteq 1..14 /\ 14 \in Nat
  BY Numbered
<1>3. Selected(CheckNames, Wanted) = [k \in 1..Cardinality(R) |-> CheckNames[c[k]]] \o <<>>
  <2>1. Selected(CheckNames, Wanted) = [k \in 1..Cardinality(R) |-> CheckNames[At_(k)]] \o <<>>
    BY DEF Selected, Arranged
  <2> HIDE DEF At_, R
  <2> QED BY <2>1
<1>4. ASSUME NEW i \in R PROVE P(i) = Under(R, key, i)
  <2>1. \A j \in R : key[j] = 0
    BY <1>1
  <2>2. P(i) = {j \in R : j < i}
    OBVIOUS
  <2>3. \A j \in R : (key[j] < key[i] \/ (~(key[i] < key[j]) /\ j < i)) <=> j < i
    BY <1>2, <1>4, <2>1
  <2> HIDE DEF P, R
  <2>4. \A j : j \in Under(R, key, i) <=> j \in R /\ j < i
    BY <2>3 DEF Under
  <2> QED BY <2>2, <2>4
<1>5. ASSUME NEW k \in 1..Cardinality(R),
             \E i \in R : k = 1 + Cardinality(Under(R, key, i))
      PROVE  c[k] \in R /\ k = 1 + Cardinality(Under(R, key, c[k]))
  <2>1. \A i : i \in R <=> i \in DOMAIN CheckNames /\ Test(i)
    OBVIOUS
  <2> HIDE DEF P, R, Test
  <2>2. \E i \in DOMAIN CheckNames : /\ Test(i)
                                     /\ k = 1 + Cardinality(P(i))
    BY <1>4, <1>5, <2>1
  <2>3. c[k] \in DOMAIN CheckNames /\ Test(c[k]) /\ k = 1 + Cardinality(P(c[k]))
    BY <2>2
  <2> QED BY <1>4, <2>1, <2>3
<1>6. R = {k \in 1..14 : Wanted(CheckNames[k])}
  BY <1>2
<1> HIDE DEF c, R
<1>7. \A i \in R : key[i] \in Int
  BY <1>1, <1>2
<1>8. ArrangedByKey(Selected(CheckNames, Wanted), CheckNames, R, key)
  BY <1>2, <1>3, <1>5, <1>7, Arranging
<1> QED BY <1>1, <1>6, <1>8 DEF InListOrder

(* No check is passed over, whatever the pack: a report that lacked one    *)
(* would pass for want of a failure (verify.rs:69-602, 44-66).             *)
THEOREM EveryCheckReported == Spec => []NoCheckSkipped
<1>1. ASSUME Inv, Presence, Reported PROVE NoCheckSkipped
  <2> SUFFICES ASSUME pc = "report"
               PROVE  FindingNames = Selected(CheckNames, Wanted)
    BY DEF NoCheckSkipped, FindingNames, Wanted
  <2>1. PICK R, t : R = {k \in 1..14 : Wanted(CheckNames[k])} /\ t = Selected(CheckNames, Wanted)
    OBVIOUS
  <2>2. RanBefore(15) = R
    <3>1. \A k : Before(k) = LinesOf(k)
      <4>1. line = Len(pack) + 1 /\ Len(pack) \in Nat /\ DOMAIN pack = 1..Len(pack)
        BY <1>1 DEF Inv, Loaded, Place
      <4>2. \A i \in 1..Len(pack) : i < Len(pack) + 1
        BY <4>1
      <4> QED BY <4>1, <4>2 DEF Before, LinesOf
    <3>2. \A k \in 1..14 : (Ran(k) <=> Wanted(CheckNames[k])) /\ k < 15
      BY <1>1, <3>1 DEF Presence, Ran, Wanted
    <3> QED BY <2>1, <3>2 DEF RanBefore
  <2>3. Collected(FindingNames, CheckLines, R)
    BY <1>1, <2>2 DEF Reported, At
  <2>4. InListOrder(t, CheckNames, R)
    BY <2>1, ChecksSelected
  <2>5. PICK f : /\ Enumerates(R, f)
                 /\ \A j, k \in 1..Cardinality(R) : j < k => f[j] < f[k]
                 /\ Len(FindingNames) = Cardinality(R)
                 /\ DOMAIN FindingNames = 1..Len(FindingNames)
                 /\ \A k \in 1..Len(FindingNames) : FindingNames[k] = CheckLines[f[k]].body
    BY <2>3 DEF Collected
  <2>6. PICK zero : zero = [i \in DOMAIN CheckNames |-> 0]
    OBVIOUS
  <2>7. PICK d : /\ EnumeratesByKey(R, zero, d)
                 /\ t = [k \in 1..Cardinality(R) |-> CheckNames[d[k]]]
    BY <2>4, <2>6 DEF InListOrder, ArrangedByKey
  <2>8. \A i \in R : zero[i] = 0 /\ zero[i] \in Int /\ i \in Int /\ i \in 1..14
    BY <2>1, <2>6, Numbered
  <2>9. EnumeratesByKey(R, zero, f)
    <3> SUFFICES ASSUME NEW j \in 1..Cardinality(R), NEW k \in 1..Cardinality(R), j < k
                 PROVE  zero[f[j]] = zero[f[k]] /\ f[j] < f[k]
      BY <2>5 DEF EnumeratesByKey
    <3> QED BY <2>5, <2>8 DEF Enumerates
  <2>10. \A k \in 1..Cardinality(R) : f[k] = d[k] /\ f[k] \in R
    BY <2>5, <2>7, <2>8, <2>9, OneOrder DEF Enumerates
  <2>11. \A k \in 1..Cardinality(R) : FindingNames[k] = CheckNames[d[k]]
    BY <2>5, <2>8, <2>10 DEF CheckLines
  <2>12. FindingNames = [k \in 1..Cardinality(R) |-> FindingNames[k]]
    BY <2>5 DEF FindingNames
  <2> QED BY <2>1, <2>7, <2>11, <2>12
<1>2. Init => FindingsTyped /\ Reported
  <2> SUFFICES ASSUME Init PROVE FindingsTyped /\ Reported
    OBVIOUS
  <2>1. findings = <<>> /\ pc = "idle"
    BY DEF Init
  <2>2. \A q \in 1..15 : ~At(q)
    BY <2>1, Numbered DEF At
  <2> QED BY <2>1, <2>2 DEF FindingsTyped, Reported
<1>3. Inv /\ FindingsTyped /\ Reported /\ [Next]_vars => FindingsTyped' /\ Reported'
  BY FindingsStayTyped, StepReported
<1>4. Inv /\ Presence /\ [Next]_vars => Presence'
  BY StepPresence
<1> QED BY <1>1, <1>2, <1>3, <1>4, InitPresence, Invariant, PTL DEF Spec
=============================================================================
