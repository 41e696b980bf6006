-------------------------------- MODULE Ledger --------------------------------
(***************************************************************************)
(* What the evidence promises, without packs, hashes or signatures.        *)
(*                                                                         *)
(* Books are only ever added to, and are sealed from the front.  Someone   *)
(* who verifies a pack is told nothing, or is shown a window of one book,  *)
(* out of what was sealed of it: no entry altered, missing, out of place,  *)
(* or from another book.                                                   *)
(***************************************************************************)
EXTENDS Naturals, SequencesExt

CONSTANT Books

VARIABLES
    history,    \* [Books -> the entries, first to last]
    sealed,     \* [Books -> how many of them are sealed]
    verdict,    \* none, PASS or FAIL
    shown       \* the entries a PASS is about

books  == <<history, sealed>>
answer == <<verdict, shown>>
vars   == <<books, answer>>

Init ==
    /\ history = [b \in Books |-> <<>>]
    /\ sealed = [b \in Books |-> 0]
    /\ verdict = "none" /\ shown = <<>>

(* More is written, or sealed, or both, in one book. *)
IsBook(entries) == entries \in Seq(Range(entries))

Grow(b) ==
    /\ UNCHANGED answer
    /\ \E entries \in {history'[b]}, to \in {sealed'[b]} :
          /\ IsBook(entries)
          /\ IsPrefix(history[b], entries)
          /\ to \in sealed[b]..Len(entries)
          /\ history' = [history EXCEPT ![b] = entries]
          /\ sealed'  = [sealed EXCEPT ![b] = to]

Reject ==
    /\ verdict = "none"
    /\ verdict' = "FAIL"
    /\ UNCHANGED <<books, shown>>

(* The windows of the sealed part of a book. *)
Windows(b) ==
    LET entries == history[b]
    IN  {SubSeq(entries, from, to) : from \in 1..(sealed[b] + 1), to \in 0..sealed[b]}

Show(b) ==
    /\ verdict = "none"
    /\ verdict' = "PASS"
    /\ shown' \in Windows(b)
    /\ UNCHANGED books

Next == \E b \in Books : Grow(b) \/ Reject \/ Show(b)

Spec == Init /\ [][Next]_vars

-----------------------------------------------------------------------------
(* Properties *)

(* What a PASS showed stays true: however much is written and sealed after *)
(* it, the entries shown are, in order and none left out, a sealed part of *)
(* one book as it stands now (README.md:27-28, chain.rs:9-10).             *)
ShownStands ==
    verdict = "PASS" => \E b \in Books : shown \in Windows(b)
=============================================================================
