------------------------------ MODULE ChainPack ------------------------------
(***************************************************************************)
(* The chain/v1 record format of src/chain.rs: the hash of a row and the   *)
(* projection of an anchor that is signed.                                 *)
(*                                                                         *)
(* Bytes are a sequence of tokens, a digest being one of them, so that a   *)
(* row's message is the concatenation the code hashes; text that is not    *)
(* hex is NotHex.                                                          *)
(***************************************************************************)
EXTENDS Pack

CHAIN_ANCHOR_PAYLOAD_VERSION == 1
CHAIN_ANCHOR_KIND            == "chain_head"
CHAIN_PACK_PROFILE           == "chain/v1"

(* prev_hash 00: one zero byte. *)
Genesis == <<[byte |-> 0]>>

(* Mutant of ChainAnchorPayloadHash: the table is not pinned. *)
ChainAnchorPayloadHashAnyTable(table, a) ==
    Sha256(<<CHAIN_ANCHOR_PAYLOAD_VERSION, CHAIN_ANCHOR_KIND, a.from_seq,
             a.to_seq, a.row_count, a.chain_head, a.prev_anchor_id, a.prev_head>>)

(* What a chain anchor signature is over: the table, but not the anchor's  *)
(* id.                                                                     *)
ChainAnchorPayloadHash(table, a) ==
    Sha256(<<CHAIN_ANCHOR_PAYLOAD_VERSION, CHAIN_ANCHOR_KIND, table, a.from_seq,
             a.to_seq, a.row_count, a.chain_head, a.prev_anchor_id, a.prev_head>>)

(* The computation of the trigger. *)
EntryHash(prev, canonical) == <<Sha256(prev \o canonical)>>
=============================================================================
