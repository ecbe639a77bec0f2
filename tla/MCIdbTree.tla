------------------------------ MODULE MCIdbTree ------------------------------
(* The IndexedDB tree and its queue for TLC: any mix of up to Calls writes,
   clears and closes, the ones in the middle of which may be aborted. *)
EXTENDS IdbTree
=============================================================================
