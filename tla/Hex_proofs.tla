------------------------------ MODULE Hex_proofs ------------------------------
(***************************************************************************)
(* The two ways a verifier compares a digest with hex text agree, proved   *)
(* for every text and every digest.                                        *)
(*                                                                         *)
(* The inductive invariant says that each byte decoded so far is made of   *)
(* the two digits it stands over, and that an error has a cause no digest  *)
(* of the wanted length shares.                                            *)
(***************************************************************************)
EXTENDS Hex, SequenceTheorems, TLAPS

-----------------------------------------------------------------------------
(* Arithmetic of digits and bytes *)

(* A letter or figure stands for v exactly if it is v's digit but for case.*)
LEMMA DigitText ==
    ASSUME NEW v \in 0..15, NEW c \in Byte
    PROVE  Lower(Hex(v)) = Lower(c) <=> IsDigit(c) /\ HexDigit(c) = v
  BY DEF Lower, Hex, IsDigit, HexDigit, Digits, LowerAF, UpperAF, Byte

(* A digit is worth at most 15.                                            *)
LEMMA DigitRange ==
    ASSUME NEW c \in Byte, IsDigit(c)
    PROVE  HexDigit(c) \in 0..15
  BY DEF IsDigit, HexDigit, Digits, LowerAF, UpperAF, Byte

(* Two digits make one byte, and it has those two.                         *)
LEMMA ByteOfDigits ==
    ASSUME NEW h \in 0..15, NEW l \in 0..15
    PROVE  /\ h * 16 + l \in Byte
           /\ (h * 16 + l) \div 16 = h /\ (h * 16 + l) % 16 = l
  BY DEF Byte

(* A byte has two digits.                                                  *)
LEMMA DigitsOfByte ==
    ASSUME NEW b \in Byte
    PROVE  b \div 16 \in 0..15 /\ b % 16 \in 0..15 /\ b = (b \div 16) * 16 + (b % 16)
  BY DEF Byte

-----------------------------------------------------------------------------
(* What hex_lower writes *)

LEMMA HexLowerAt ==
    ASSUME NEW d \in Seq(Byte)
    PROVE  /\ Len(HexLower(d)) = 2 * Len(d)
           /\ \A k \in 1..Len(d) :
                 /\ HexLower(d)[2*k - 1] = Hex(d[k] \div 16)
                 /\ HexLower(d)[2*k] = Hex(d[k] % 16)
<1>1. Len(HexLower(d)) = 2 * Len(d)
  BY DEF HexLower
<1>2. ASSUME NEW k \in 1..Len(d)
      PROVE  /\ HexLower(d)[2*k - 1] = Hex(d[k] \div 16)
             /\ HexLower(d)[2*k] = Hex(d[k] % 16)
  <2>1. /\ 2*k - 1 \in 1..(2 * Len(d)) /\ 2*k \in 1..(2 * Len(d))
        /\ (2*k - 1) % 2 = 1 /\ (2*k) % 2 = 0
        /\ ((2*k - 1) + 1) \div 2 = k /\ (2*k) \div 2 = k
    OBVIOUS
  <2> QED BY <2>1 DEF HexLower
<1> QED BY <1>1, <1>2

(* A text's digits, two by two, are the halves of the digest's bytes.      *)
Spells(s, d) ==
    /\ Len(s) = 2 * Len(d)
    /\ \A k \in 1..Len(d) :
          /\ IsDigit(s[2*k - 1]) /\ HexDigit(s[2*k - 1]) = d[k] \div 16
          /\ IsDigit(s[2*k]) /\ HexDigit(s[2*k]) = d[k] % 16

(* A text compares equal to the lower-case hex of a digest iff it spells it. *)
LEMMA TextOfDigest ==
    ASSUME NEW d \in Seq(Byte), NEW s \in Seq(Byte)
    PROVE  EqIgnoreCase(HexLower(d), s) <=> Spells(s, d)
<1>1. ASSUME Len(s) = 2 * Len(d), NEW k \in 1..Len(d)
      PROVE  /\ Lower(HexLower(d)[2*k - 1]) = Lower(s[2*k - 1]) <=>
                   IsDigit(s[2*k - 1]) /\ HexDigit(s[2*k - 1]) = d[k] \div 16
             /\ Lower(HexLower(d)[2*k]) = Lower(s[2*k]) <=>
                   IsDigit(s[2*k]) /\ HexDigit(s[2*k]) = d[k] % 16
  <2>1. 2*k - 1 \in 1..Len(s) /\ 2*k \in 1..Len(s)
    BY <1>1
  <2>2. s[2*k - 1] \in Byte /\ s[2*k] \in Byte /\ d[k] \in Byte
    BY <2>1
  <2>3. d[k] \div 16 \in 0..15 /\ d[k] % 16 \in 0..15
    BY <2>2, DigitsOfByte
  <2>4. Lower(Hex(d[k] \div 16)) = Lower(s[2*k - 1]) <=>
           IsDigit(s[2*k - 1]) /\ HexDigit(s[2*k - 1]) = d[k] \div 16
    BY <2>2, <2>3, DigitText
  <2>5. Lower(Hex(d[k] % 16)) = Lower(s[2*k]) <=>
           IsDigit(s[2*k]) /\ HexDigit(s[2*k]) = d[k] % 16
    BY <2>2, <2>3, DigitText
  <2> QED BY <2>4, <2>5, HexLowerAt
<1>2. ASSUME Len(s) = 2 * Len(d), NEW j \in 1..Len(s)
      PROVE  \E k \in 1..Len(d) : j = 2*k - 1 \/ j = 2*k
  <2>1. /\ (j + 1) \div 2 \in 1..Len(d)
        /\ j = 2 * ((j + 1) \div 2) - 1 \/ j = 2 * ((j + 1) \div 2)
    BY <1>2
  <2> QED BY <2>1
<1>3. ASSUME EqIgnoreCase(HexLower(d), s) PROVE Spells(s, d)
  <2>1. Len(s) = 2 * Len(d)
    BY <1>3, HexLowerAt DEF EqIgnoreCase
  <2>2. ASSUME NEW k \in 1..Len(d)
        PROVE  /\ Lower(HexLower(d)[2*k - 1]) = Lower(s[2*k - 1])
               /\ Lower(HexLower(d)[2*k]) = Lower(s[2*k])
    <3>1. 2*k - 1 \in 1..(2 * Len(d)) /\ 2*k \in 1..(2 * Len(d))
      OBVIOUS
    <3> QED BY <1>3, <3>1, HexLowerAt DEF EqIgnoreCase
  <2> QED BY <1>1, <2>1, <2>2 DEF Spells
<1>4. ASSUME Spells(s, d) PROVE EqIgnoreCase(HexLower(d), s)
  <2>1. Len(s) = 2 * Len(d) /\ Len(HexLower(d)) = Len(s)
    BY <1>4, HexLowerAt DEF Spells
  <2>2. ASSUME NEW j \in 1..Len(s) PROVE Lower(HexLower(d)[j]) = Lower(s[j])
    <3>1. PICK k \in 1..Len(d) : j = 2*k - 1 \/ j = 2*k
      BY <1>2, <2>1
    <3> QED BY <1>1, <1>4, <2>1, <3>1 DEF Spells
  <2> QED BY <2>1, <2>2 DEF EqIgnoreCase
<1> QED BY <1>3, <1>4

-----------------------------------------------------------------------------
(* The invariant *)

Decoded ==
    \A k \in 1..Len(out) :
        /\ IsDigit(text[2*k - 1]) /\ HexDigit(text[2*k - 1]) = out[k] \div 16
        /\ IsDigit(text[2*k]) /\ HexDigit(text[2*k]) = out[k] % 16

(* Why no digest of the wanted length has this text. *)
Refused ==
    \/ Len(text) % 2 = 1
    \/ \E k \in 1..Len(text) : ~IsDigit(text[k])
    \/ fixed /\ Len(text) # 2 * DigestLen

Inv ==
    /\ TypeOK
    /\ out \in Seq(Byte)
    /\ Decoded
    /\ pc = "err" => Refused
    /\ pc = "ok" => i = Len(text) /\ (fixed => Len(out) = DigestLen)

(* Nothing is decoded yet.                                                 *)
LEMMA InitInv == Init => Inv
  BY HexAssumption DEF Init, Inv, TypeOK, Decoded, Byte

(* One pair of digits more, or the end.                                    *)
LEMMA NextInv == Inv /\ [Next]_vars => Inv'
<1> SUFFICES ASSUME Inv, [Next]_vars PROVE Inv'
  OBVIOUS
<1>0. /\ text \in Seq(Byte) /\ out \in Seq(Byte) /\ Len(text) \in Nat /\ i \in Nat
      /\ i <= Len(text) /\ i % 2 = 0 /\ Len(out) = i \div 2 /\ 2 * Len(out) = i
      /\ fixed \in BOOLEAN
  BY HexAssumption DEF Inv, TypeOK
<1>1. CASE CheckLength
  BY <1>0, <1>1 DEF CheckLength, Inv, TypeOK, Decoded, Refused
<1>2. CASE DecodePair
  <2>1. /\ pc = "digits" /\ i < Len(text) /\ Len(text) % 2 = 0 /\ i + 2 <= Len(text)
        /\ Hi \in Byte /\ Lo \in Byte /\ IsDigit(Hi) /\ IsDigit(Lo)
    <3>1. /\ pc = "digits" /\ i < Len(text) /\ IsDigit(Hi) /\ IsDigit(Lo)
          /\ Len(text) % 2 = 0
      BY <1>2 DEF DecodePair, InText, Inv, TypeOK
    <3>2. i + 2 <= Len(text)
      BY <1>0, <3>1
    <3> QED BY <1>0, <3>1, <3>2 DEF Hi, Lo
  <2>2. PICK b : b = HexDigit(Hi) * 16 + HexDigit(Lo)
    OBVIOUS
  <2>3. b \in Byte /\ b \div 16 = HexDigit(Hi) /\ b % 16 = HexDigit(Lo)
    BY <2>1, <2>2, DigitRange, ByteOfDigits
  <2>4. /\ out' = Append(out, b) /\ i' = i + 2 /\ pc' = pc /\ text' = text
        /\ fixed' = fixed
    BY <1>2, <2>2 DEF DecodePair
  <2>5. /\ out' \in Seq(Byte) /\ Len(out') = Len(out) + 1
        /\ out'[Len(out) + 1] = b /\ \A k \in 1..Len(out) : out'[k] = out[k]
    BY <1>0, <2>3, <2>4
  <2>6. TypeOK'
    BY <1>0, <2>1, <2>3, <2>4, <2>5 DEF Inv, TypeOK
  <2>7. Decoded'
    <3>1. ASSUME NEW k \in 1..Len(out')
          PROVE  /\ IsDigit(text[2*k - 1]) /\ HexDigit(text[2*k - 1]) = out'[k] \div 16
                 /\ IsDigit(text[2*k]) /\ HexDigit(text[2*k]) = out'[k] % 16
      <4>1. CASE k \in 1..Len(out)
        BY <2>5, <4>1 DEF Inv, Decoded
      <4>2. CASE k = Len(out) + 1
        <5>1. 2*k - 1 = i + 1 /\ 2*k = i + 2
          BY <1>0, <4>2
        <5> QED BY <2>1, <2>3, <2>5, <4>2, <5>1 DEF Hi, Lo
      <4> QED BY <1>0, <2>5, <4>1, <4>2
    <3> QED BY <2>4, <3>1 DEF Decoded
  <2> QED BY <2>1, <2>4, <2>5, <2>6, <2>7 DEF Inv
<1>3. CASE BadDigit
  <2>1. /\ pc = "digits" /\ i < Len(text) /\ Len(text) % 2 = 0 /\ i + 2 <= Len(text)
        /\ ~IsDigit(text[i + 1]) \/ ~IsDigit(text[i + 2])
    BY <1>0, <1>3 DEF BadDigit, InText, Inv, TypeOK, Hi, Lo
  <2>2. \E k \in 1..Len(text) : ~IsDigit(text[k])
    BY <1>0, <2>1
  <2> QED BY <1>0, <1>3, <2>2 DEF BadDigit, Inv, TypeOK, Decoded, Refused
<1>4. CASE Return
  <2>1. i = Len(text)
    BY <1>0, <1>4 DEF Return
  <2>2. ASSUME pc' = "err" PROVE Refused
    <3>1. fixed /\ Len(out) # DigestLen
      BY <1>4, <2>2, Zenon DEF Return
    <3>2. Len(text) # 2 * DigestLen
      BY <1>0, <2>1, <3>1, HexAssumption
    <3> QED BY <3>1, <3>2, Zenon DEF Refused
  <2>3. pc' = "ok" => (fixed => Len(out) = DigestLen)
    BY <1>4 DEF Return
  <2> QED BY <1>0, <1>4, <2>1, <2>2, <2>3 DEF Return, Inv, TypeOK, Decoded, Refused
<1>5. CASE UNCHANGED vars
  BY <1>5 DEF vars, Inv, TypeOK, Decoded, Refused
<1> QED BY <1>1, <1>2, <1>3, <1>4, <1>5 DEF Next

(* At the end, decoding and comparing texts agree.                         *)
LEMMA InvComparisons == Inv => ComparisonsAgree
<1> SUFFICES ASSUME Inv, pc \in {"ok", "err"}, NEW d \in Digests,
                    fixed => Len(d) = DigestLen
             PROVE  EqIgnoreCase(HexLower(d), text) <=> pc = "ok" /\ out = d
  BY DEF ComparisonsAgree
<1>0. /\ d \in Seq(Byte) /\ text \in Seq(Byte) /\ out \in Seq(Byte)
      /\ Len(d) \in Nat /\ Len(text) \in Nat /\ i \in Nat /\ i % 2 = 0
      /\ Len(out) = i \div 2 /\ fixed \in BOOLEAN
  BY HexAssumption DEF Inv, TypeOK
<1>1. CASE pc = "err"
  <2>1. ASSUME Spells(text, d) PROVE FALSE
    <3>1. Len(text) = 2 * Len(d) /\ Len(text) % 2 = 0
      BY <1>0, <2>1 DEF Spells
    <3>2. PICK j \in 1..Len(text) : ~IsDigit(text[j])
      <4>1. Refused
        BY <1>1 DEF Inv
      <4>2. ~(Len(text) % 2 = 1)
        BY <3>1
      <4>3. fixed => ~(Len(text) # 2 * DigestLen)
        BY <3>1, Zenon
      <4> QED BY <4>1, <4>2, <4>3, Zenon DEF Refused
    <3>3. /\ (j + 1) \div 2 \in 1..Len(d)
          /\ j = 2 * ((j + 1) \div 2) - 1 \/ j = 2 * ((j + 1) \div 2)
      BY <1>0, <3>1
    <3> QED BY <2>1, <3>2, <3>3 DEF Spells
  <2> QED BY <1>0, <1>1, <2>1, TextOfDigest
<1>2. CASE pc = "ok"
  <2>1. Len(text) = 2 * Len(out)
    BY <1>0, <1>2 DEF Inv
  <2>2. Spells(text, out)
    BY <2>1 DEF Inv, Decoded, Spells
  <2>3. ASSUME Spells(text, d) PROVE out = d
    <3>1. Len(out) = Len(d)
      BY <1>0, <2>1, <2>3 DEF Spells
    <3>2. ASSUME NEW k \in 1..Len(d) PROVE out[k] = d[k]
      <4>1. out[k] \div 16 = d[k] \div 16 /\ out[k] % 16 = d[k] % 16
        BY <2>2, <2>3, <3>1 DEF Spells
      <4>2. out[k] \in Byte /\ d[k] \in Byte
        BY <1>0, <3>1
      <4> QED BY <4>1, <4>2, DigitsOfByte
    <3> QED BY <1>0, <3>1, <3>2, SeqEqual
  <2> QED BY <1>0, <1>2, <2>2, <2>3, TextOfDigest
<1> QED BY <1>1, <1>2

-----------------------------------------------------------------------------
(* decode() reads two digits a byte and never past the text.               *)
THEOREM HexTypeCorrect == Spec => []TypeOK
<1>1. Inv => TypeOK
  BY DEF Inv
<1> QED BY <1>1, InitInv, NextInv, PTL DEF Spec

(* Comparing decoded bytes and comparing encoded text agree, for every     *)
(* text and every digest.                                                  *)
THEOREM HexComparisonsAgree == Spec => []ComparisonsAgree
  BY InitInv, NextInv, InvComparisons, PTL DEF Spec
=============================================================================
