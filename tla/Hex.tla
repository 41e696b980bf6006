--------------------------------- MODULE Hex ---------------------------------
(***************************************************************************)
(* Hex text: the decoder of src/hexutil.rs, one iteration of its loop per  *)
(* step, and the encoder of src/crypto.rs.  A verifier compares digests in *)
(* two ways: it decodes the text of the pack and compares bytes, or it     *)
(* encodes its own digest and compares text, ignoring case.  The modules   *)
(* of the verifiers take both to be equality of digests; this module says  *)
(* why they may.                                                           *)
(***************************************************************************)
EXTENDS Integers, Sequences

CONSTANTS
    Texts,          \* what a field of a pack may hold, as bytes of UTF-8
    Digests,        \* what a verifier may have computed
    DigestLen       \* how many bytes decode32 wants

Byte == 0..255

ASSUME HexAssumption ==
    Texts \subseteq Seq(Byte) /\ Digests \subseteq Seq(Byte) /\ DigestLen \in Nat

VARIABLES
    pc,             \* length, digits, ok or err
    text,           \* the argument
    fixed,          \* whether it is decode32 that was called
    i, out          \* locals of decode()

vars == <<pc, text, fixed, i, out>>

-----------------------------------------------------------------------------
(* hex_digit *)

Digits     == 48..57        \* '0'..'9'
LowerAF    == 97..102       \* 'a'..'f'
UpperAF    == 65..70        \* 'A'..'F'
IsDigit(b) == b \in Digits \cup LowerAF \cup UpperAF

(* Mutant of HexDigit: upper case starts at zero. *)
HexDigitUpperLow(b) ==
    IF b \in Digits THEN b - 48 ELSE IF b \in LowerAF THEN b - 87 ELSE b - 65

HexDigit(b) ==
    IF b \in Digits THEN b - 48 ELSE IF b \in LowerAF THEN b - 87 ELSE b - 55

(* hex_lower *)
Hex(v) == IF v < 10 THEN 48 + v ELSE 87 + v

HexLower(bytes) ==
    [k \in 1..(2 * Len(bytes)) |->
        IF k % 2 = 1 THEN Hex(bytes[(k + 1) \div 2] \div 16)
                     ELSE Hex(bytes[k \div 2] % 16)]

(* str::eq_ignore_ascii_case *)
Lower(b) == IF b \in 65..90 THEN b + 32 ELSE b

EqIgnoreCase(s, t) ==
    /\ Len(s) = Len(t)
    /\ \A k \in 1..Len(s) : Lower(s[k]) = Lower(t[k])

-----------------------------------------------------------------------------
Init ==
    /\ pc = "length"
    /\ text \in Texts
    /\ fixed \in BOOLEAN
    /\ i = 0
    /\ out = <<>>

(* Mutant of CheckLength: a last odd digit is left alone. *)
CheckLengthNever ==
    pc = "length" /\ pc' = "digits" /\ UNCHANGED <<text, fixed, i, out>>

CheckLength ==
    /\ pc = "length"
    /\ pc' = IF Len(text) % 2 = 1 THEN "err" ELSE "digits"
    /\ UNCHANGED <<text, fixed, i, out>>

(* i is 0-based: the next two digits. *)
Hi == text[i + 1]
Lo == text[i + 2]

InText == pc = "digits" /\ i < Len(text)

(* Mutant of DecodePair: the index does not move. *)
DecodePairAgain ==
    /\ InText /\ IsDigit(Hi) /\ IsDigit(Lo)
    /\ out' = <<HexDigit(Hi) * 16 + HexDigit(Lo)>>
    /\ i' = i
    /\ UNCHANGED <<pc, text, fixed>>

DecodePair ==
    /\ InText /\ IsDigit(Hi) /\ IsDigit(Lo)
    /\ out' = Append(out, HexDigit(Hi) * 16 + HexDigit(Lo))
    /\ i' = i + 2
    /\ UNCHANGED <<pc, text, fixed>>

BadDigit ==
    /\ InText /\ ~(IsDigit(Hi) /\ IsDigit(Lo))
    /\ pc' = "err"
    /\ UNCHANGED <<text, fixed, i, out>>

(* decode32 looks at the length of what decode returned. *)
Return ==
    /\ pc = "digits" /\ i >= Len(text)
    /\ pc' = IF fixed /\ Len(out) # DigestLen THEN "err" ELSE "ok"
    /\ UNCHANGED <<text, fixed, i, out>>

Next == CheckLength \/ DecodePair \/ BadDigit \/ Return

Spec     == Init /\ [][Next]_vars
FairSpec == Spec /\ WF_vars(Next)

-----------------------------------------------------------------------------
(* The two digits behind each byte so far, and no index past the text      *)
(* (hexutil.rs:14-15).                                                     *)
TypeOK ==
    /\ pc \in {"length", "digits", "ok", "err"}
    /\ text \in Texts /\ fixed \in BOOLEAN
    /\ i \in 0..Len(text) /\ i % 2 = 0 /\ Len(out) = i \div 2
    /\ \A k \in 1..Len(out) : out[k] \in Byte
    /\ pc # "length" /\ pc # "err" => Len(text) % 2 = 0

(* The two comparisons agree: a text is a digest's own hex in any mix of   *)
(* cases exactly when it decodes, and decodes to that digest.  So no two   *)
(* digests share a text, and no text passes one comparison and fails the   *)
(* other (verify.rs:210, 372, 434-438; hexutil.rs:1-3).                    *)
ComparisonsAgree ==
    pc \in {"ok", "err"} =>
        \A d \in Digests : (fixed => Len(d) = DigestLen) =>
            (EqIgnoreCase(HexLower(d), text) <=> pc = "ok" /\ out = d)

(* decode() returns, for any text. *)
DecodeReturns == pc = "length" ~> pc \in {"ok", "err"}
=============================================================================
