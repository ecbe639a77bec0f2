----------------------------- MODULE MCLiveQueries -----------------------------
(* The shared queries for TLC: two requests, which may race to make the channel
   or share it, and two selections. *)
EXTENDS LiveQueries
=============================================================================
