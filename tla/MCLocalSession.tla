---------------------------- MODULE MCLocalSession ----------------------------
(* The local session for TLC: one subscription to a query of two scans, two
   writers and three commits. *)
EXTENDS LocalSession
=============================================================================
