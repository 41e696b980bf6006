--------------------------------- MODULE Cli ---------------------------------
(***************************************************************************)
(* One invocation of the program (src/main.rs), or one call of its browser *)
(* build (src/wasm.rs): where the text comes from, which of the two        *)
(* engines verifies it, and what the caller is told.                       *)
(*                                                                         *)
(* A text is a sequence of lines of either format.  An engine parses every *)
(* line by its own rules, and makes of the other format's lines what       *)
(* serde_json makes of them.                                               *)
(***************************************************************************)
EXTENDS ChainPack

CONSTANT Texts      \* what a file, a pipe or a page may hold

(* What both engines assume of a text. *)
ASSUME TextsAssumption ==
    \A t \in Texts :
        /\ Len(t) \in Nat /\ DOMAIN t = 1..Len(t)
        /\ \A i \in DOMAIN t :
              /\ t[i].kind = "signing_keys" =>
                    t[i].body.keys \in Seq(Range(t[i].body.keys))
              /\ t[i].kind \in {"header", "manifest"} => t[i].body # None

VARIABLES
    stage,          \* start, dispatch, verify, exit
    entry,          \* the call: where its text is to come from, and how
    input,          \* the text there is to read
    profile,        \* the engine chosen
    exit_code,      \* of the process; what the page is told, from wasm
    \* the engine running
    pc, pack, line, header, keys, ai, rows, anchors, manifest, audit_count,
    parse_errors, last_was_manifest, findings

process == <<stage, entry, input, profile, exit_code>>
engine  == <<pc, pack, line, header, keys, ai, rows, anchors, manifest,
             audit_count, parse_errors, last_was_manifest, findings>>
vars    == <<process, engine>>

Merkle2 == INSTANCE PackVerify WITH Packs <- Texts
Chain1  == INSTANCE ChainVerify WITH ChainPacks <- Texts

-----------------------------------------------------------------------------
(* The formats in each other's eyes *)

IsChainRecord(l) == l.kind \in {"header", "manifest"} /\ "profile" \in DOMAIN l.body
IsV2Record(l)    == l.kind \in {"header", "manifest"} /\ "tenant_id" \in DOMAIN l.body

(* A record that lacks a field is malformed, an unknown kind is Other. *)
AsV2(l) ==
    IF l.kind \in {"chain_row", "chain_anchor"} THEN [l EXCEPT !.kind = "other"]
    ELSE IF IsChainRecord(l) THEN [l EXCEPT !.kind = "malformed"] ELSE l

AsChain(l) ==
    IF l.kind \in {"audit", "ai_audit", "anchor"} THEN [l EXCEPT !.kind = "other"]
    ELSE IF IsV2Record(l) THEN [l EXCEPT !.kind = "malformed"] ELSE l

Parsed(text, As(_)) == [i \in DOMAIN text |-> As(text[i])]

(* Mutant of IsChainPack: blank lines are not passed over. *)
IsChainPackAtOnce(text) == text # <<>> /\ IsChainRecord(text[1])

(* The first line that is not blank carries the chain/v1 profile. *)
IsChainPack(text) ==
    LET lines == {i \in DOMAIN text : text[i].kind # "blank"}
    IN  /\ lines # {}
        /\ IsChainRecord(text[Min(lines)])
        /\ text[Min(lines)].body.profile = CHAIN_PACK_PROFILE

-----------------------------------------------------------------------------
(* terminal: the text is to come from standard input, and that is one.     *)
(* A page calls verify_pack_json.                                          *)
CommandLines ==
    [pack : {"absent", "-"}, json : BOOLEAN, terminal : BOOLEAN]
        \cup [pack : {"file"}, json : BOOLEAN, terminal : {FALSE}]
FromPage == [pack |-> "page", json |-> TRUE, terminal |-> FALSE]

Init ==
    /\ stage = "start"
    /\ entry \in CommandLines \cup {FromPage}
    /\ input \in Texts
    /\ profile = None /\ exit_code = None
    /\ Merkle2!Init /\ rows = <<>>

FromTerminal == entry.terminal

Exit(code) ==
    /\ stage' = "exit"
    /\ exit_code' = code
    /\ UNCHANGED <<entry, input, profile, engine>>

(* Mutant of NothingComing: only an explicit "-" is refused. *)
NothingComingDash == FromTerminal /\ entry.pack = "-"

(* No --pack, and standard input is a terminal. *)
NothingComing == FromTerminal /\ entry.pack = "absent"

PrintHelp ==
    stage = "start" /\ NothingComing /\ Exit(2)

(* A missing file, or text that is not UTF-8. *)
ReadFails ==
    stage = "start" /\ entry # FromPage /\ ~NothingComing /\ Exit(2)

ReadInput ==
    /\ stage = "start" /\ ~NothingComing
    /\ stage' = "dispatch"
    /\ UNCHANGED <<entry, input, profile, exit_code, engine>>

Dispatch ==
    /\ stage = "dispatch"
    /\ stage' = "verify"
    /\ \/ /\ IsChainPack(input)
          /\ profile' = CHAIN_PACK_PROFILE
          /\ Chain1!Submit(Parsed(input, AsChain))
       \/ /\ ~IsChainPack(input)
          /\ profile' = "merkle/v2"
          /\ Merkle2!Submit(Parsed(input, AsV2))
    /\ UNCHANGED <<entry, input, exit_code, ai, rows, audit_count>>

Verify ==
    /\ stage = "verify"
    /\ \/ profile = "merkle/v2" /\ Merkle2!Verify /\ UNCHANGED rows
       \/ profile = CHAIN_PACK_PROFILE /\ Chain1!VerifyChain
              /\ UNCHANGED <<ai, audit_count>>
    /\ UNCHANGED process

(* Report::passed *)
Passed == Merkle2!Passed

(* The page is told passed as true or false; here, as an exit code. *)
PrintReport ==
    /\ stage = "verify" /\ pc = "report"
    /\ Exit(IF Passed THEN 0 ELSE 1)

(* The report does not serialize. *)
SerializeFails ==
    /\ stage = "verify" /\ pc = "report"
    /\ entry # FromPage /\ entry.json
    /\ Exit(2)

(* println! panics when nobody reads its pipe any more. *)
PrintFails ==
    /\ stage = "verify" /\ pc = "report"
    /\ entry # FromPage
    /\ Exit(101)

(* An engine that panicked: the process ends with Rust's code for it. *)
Abort ==
    stage = "verify" /\ pc = "panic" /\ Exit(101)

Answer == PrintReport \/ SerializeFails \/ PrintFails \/ Abort
Next   == PrintHelp \/ ReadFails \/ ReadInput \/ Dispatch \/ Verify \/ Answer

Spec == Init /\ [][Next]_vars

(* The process runs; a file or a pipe ends, a terminal need not. *)
FairSpec ==
    /\ Spec
    /\ WF_vars(PrintHelp \/ Dispatch \/ Verify \/ Answer)
    /\ WF_vars(~FromTerminal /\ (ReadFails \/ ReadInput))
=============================================================================
