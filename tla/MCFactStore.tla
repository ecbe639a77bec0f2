----------------------------- MODULE MCFactStore -----------------------------
(* The fact store for TLC, with the codec of its transactions: an attribute
   that clients only upsert and the one that records commits; an entity and
   the reference of a commit; a value, null and the encoding of a commit. *)
EXTENDS Codec
=============================================================================
