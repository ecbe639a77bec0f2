------------------------------- MODULE MCHybrid -------------------------------
(* The hybrid source for TLC: any mix of up to Calls transactions and merges,
   all of which may be under way at once. *)
EXTENDS Hybrid
=============================================================================
