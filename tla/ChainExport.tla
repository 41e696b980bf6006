----------------------------- MODULE ChainExport -----------------------------
(***************************************************************************)
(* How a chain/v1 pack comes to be: rows, signed anchors and the lines of  *)
(* the file.  The database trigger, the anchor worker and the exporter are *)
(* not in this repository; src/chain.rs says what they compute and write.  *)
(***************************************************************************)
EXTENDS ChainPack, Damage

CONSTANT AnchorKey      \* the worker's public key, the same for every table

Row(seq, prev, canonical) ==
    [chain_seq |-> seq, prev_hash |-> prev, canonical |-> canonical,
     entry_hash |-> EntryHash(prev, canonical)]

HeadOf(rows_) == IF rows_ = <<>> THEN Genesis ELSE Last(rows_).entry_hash

Signed(t, a) ==
    [a EXCEPT !.signature =
        Sign("ed25519", AnchorKey, ChainAnchorPayloadHash(t, a))]

(* The rows since prev, the anchor before this one, if any. *)
MakeAnchor(t, id, rows_, prev) ==
    Signed(t, [id |-> id, from_seq |-> Head(rows_).chain_seq,
               to_seq |-> Last(rows_).chain_seq, row_count |-> Len(rows_),
               chain_head |-> HeadOf(rows_),
               prev_anchor_id |-> IF prev = None THEN None ELSE prev.id,
               prev_head |-> IF prev = None THEN None ELSE prev.chain_head,
               signature |-> None, signing_key_id |-> AnchorKey,
               sig_alg |-> "ed25519"])

-----------------------------------------------------------------------------
(* The file *)

KeyEntry == [key_id |-> AnchorKey, sig_alg |-> "ed25519", usage |-> "anchor",
             key_origin |-> "fleet", public_key_hex |-> AnchorKey]

HeaderFor(t) == [format_version |-> 1, profile |-> CHAIN_PACK_PROFILE, table |-> t]

Lines(kind, bodies) == [i \in DOMAIN bodies |-> Line(kind, bodies[i])]

(* Everything but the manifest. *)
Records(t, rows_, anchors_) ==
    <<Line("header", HeaderFor(t)), Line("signing_keys", [keys |-> <<KeyEntry>>])>>
        \o Lines("chain_row", rows_) \o Lines("chain_anchor", anchors_)

(* n rows wait for their anchor. *)
SealedPack(lines, t, n) ==
    Append(lines, Line("manifest",
        [profile |-> CHAIN_PACK_PROFILE, table |-> t, unanchored_tail |-> n,
         counts |-> [rows    |-> Cardinality({i \in DOMAIN lines : lines[i].kind = "chain_row"}),
                     anchors |-> Cardinality({i \in DOMAIN lines : lines[i].kind = "chain_anchor"})]]))
=============================================================================
