---------------------------- MODULE Ledger_proofs ----------------------------
(***************************************************************************)
(* What a verifier was shown stands for good, proved for every set of      *)
(* books.  The systems that implement the ledger inherit it.               *)
(*                                                                         *)
(* The windows of a book that lie in its sealed part are the same in every *)
(* later state: writing only adds behind them (WindowKept).                *)
(***************************************************************************)
EXTENDS Ledger, SequenceTheorems, TLAPS

-----------------------------------------------------------------------------
(* Books *)

Kept ==
    /\ DOMAIN history = Books /\ DOMAIN sealed = Books
    /\ \A b \in Books : IsBook(history[b]) /\ sealed[b] \in 0..Len(history[b])

Inv == Kept /\ ShownStands

(* A window of a book is the same in every book that goes on from it.      *)
LEMMA WindowKept ==
    ASSUME NEW s, NEW t, IsBook(s), IsBook(t), IsPrefix(s, t),
           NEW from \in Nat \ {0}, NEW to \in 0..Len(s)
    PROVE  SubSeq(t, from, to) = SubSeq(s, from, to)
<1>1. /\ s \in Seq(Range(s)) /\ Len(s) \in Nat
      /\ t \in Seq(Range(t)) /\ Len(t) \in Nat /\ Len(s) <= Len(t)
  BY DEF IsBook, IsPrefix
<1>2. \A k \in 1..Len(s) : s[k] = t[k]
  <2>1. SubSeq(s, 1, Len(s)) = SubSeq(t, 1, Len(s))
    BY DEF IsPrefix
  <2> TAKE k \in 1..Len(s)
  <2>2. SubSeq(s, 1, Len(s))[k] = s[k] /\ SubSeq(t, 1, Len(s))[k] = t[k]
    BY <1>1
  <2> QED BY <2>1, <2>2
<1>3. CASE from <= to
  <2>1. SubSeq(s, from, to) = [k \in 1..(to - from + 1) |-> s[from + k - 1]]
    BY <1>1, <1>3
  <2>2. SubSeq(t, from, to) = [k \in 1..(to - from + 1) |-> t[from + k - 1]]
    BY <1>1, <1>3
  <2>3. \A k \in 1..(to - from + 1) : s[from + k - 1] = t[from + k - 1]
    BY <1>1, <1>2, <1>3
  <2> QED BY <2>1, <2>2, <2>3
<1>4. CASE ~(from <= to)
  BY <1>1, <1>4
<1> QED BY <1>3, <1>4

(* One step of Grow, seen from every book.                                 *)
LEMMA GrowKeeps ==
    ASSUME Kept, NEW b \in Books, Grow(b)
    PROVE  /\ Kept'
           /\ \A c \in Books : /\ sealed[c] <= sealed'[c]
                               /\ IsPrefix(history[c], history'[c])
<1>1. /\ DOMAIN history' = Books /\ DOMAIN sealed' = Books
      /\ \A c \in Books \ {b} : history'[c] = history[c] /\ sealed'[c] = sealed[c]
  BY DEF Grow, Kept
<1>2. /\ IsBook(history'[b]) /\ IsPrefix(history[b], history'[b])
      /\ sealed'[b] \in sealed[b]..Len(history'[b])
  BY DEF Grow
<1>3. /\ sealed[b] \in Nat /\ Len(history'[b]) \in Nat
  BY <1>2 DEF Kept, IsBook
<1>4. \A c \in Books : IsPrefix(history[c], history[c]) /\ sealed[c] <= sealed[c]
  BY DEF Kept, IsBook, IsPrefix
<1>5. Kept'
  BY <1>1, <1>2, <1>3 DEF Kept
<1> QED BY <1>1, <1>2, <1>3, <1>4, <1>5

(* What was a window of the sealed part is one after the step.             *)
LEMMA ShownKept ==
    ASSUME Inv, Kept', UNCHANGED answer,
           \A c \in Books : sealed[c] <= sealed'[c] /\ IsPrefix(history[c], history'[c])
    PROVE  ShownStands'
<1> SUFFICES ASSUME verdict = "PASS"
             PROVE  ShownStands'
  BY DEF ShownStands, answer
<1>0. PICK b \in Books : shown \in Windows(b)
  BY DEF Inv, ShownStands
<1>1. PICK from \in 1..(sealed[b] + 1), to \in 0..sealed[b] :
          shown = SubSeq(history[b], from, to)
  BY <1>0 DEF Windows
<1>2. /\ sealed[b] \in 0..Len(history[b]) /\ sealed'[b] \in 0..Len(history'[b])
      /\ Len(history[b]) \in Nat /\ Len(history'[b]) \in Nat
      /\ IsBook(history[b]) /\ IsBook(history'[b])
  BY DEF Inv, Kept, IsBook
<1>3. from \in Nat \ {0} /\ to \in 0..Len(history[b])
  BY <1>2
<1>4. SubSeq(history'[b], from, to) = SubSeq(history[b], from, to)
  BY <1>2, <1>3, WindowKept
<1>5. from \in 1..(sealed'[b] + 1) /\ to \in 0..sealed'[b]
  BY <1>2
<1>6. shown' = SubSeq(history'[b], from, to)
  BY <1>1, <1>4 DEF answer
<1>7. shown' \in Windows(b)'
  BY <1>5, <1>6 DEF Windows
<1> QED BY <1>7 DEF ShownStands

-----------------------------------------------------------------------------
(* Empty books show nothing.                                               *)
LEMMA InitInv == Init => Inv
<1> SUFFICES ASSUME Init PROVE Inv
  OBVIOUS
<1>1. Kept
  <2>1. IsBook(<<>>) /\ Len(<<>>) = 0
    BY DEF IsBook
  <2> QED BY <2>1 DEF Init, Kept
<1> QED BY <1>1 DEF Init, Inv, ShownStands

(* Books grow, seals move up, windows are shown.                           *)
LEMMA NextInv == Inv /\ [Next]_vars => Inv'
<1> SUFFICES ASSUME Inv, [Next]_vars PROVE Inv'
  OBVIOUS
<1>1. ASSUME NEW b \in Books, Grow(b) PROVE Inv'
  BY <1>1, GrowKeeps, ShownKept DEF Inv, Grow
<1>2. CASE Reject
  BY <1>2 DEF Reject, Inv, Kept, ShownStands, books
<1>3. ASSUME NEW b \in Books, Show(b) PROVE Inv'
  <2>1. UNCHANGED books /\ shown' \in Windows(b)
    BY <1>3 DEF Show
  <2>2. Kept'
    BY <2>1 DEF Inv, Kept, books
  <2>3. shown' \in Windows(b)'
    BY <2>1 DEF Windows, books
  <2> QED BY <2>2, <2>3 DEF Inv, ShownStands
<1>4. CASE UNCHANGED vars
  BY <1>4 DEF vars, books, answer, Inv, Kept, ShownStands, Windows
<1> QED BY <1>1, <1>2, <1>3, <1>4 DEF Next

(* Inv holds throughout.                                                   *)
LEMMA Invariant == Spec => []Inv
  BY InitInv, NextInv, PTL DEF Spec

(* A PASS stays true for good.                                             *)
THEOREM ShownForGood == Spec => []ShownStands
  BY Invariant, PTL DEF Inv
=============================================================================
