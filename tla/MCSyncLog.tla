------------------------------- MODULE MCSyncLog -------------------------------
(* The log for TLC.  SyncLog.cfg: two pushes of two frames, so that frames of
   the two interleave and one can come after a crash, headers of two bytes, so
   that a chunk can end inside one, and one pull (pulls do not affect each
   other).  SyncLogDropped.cfg: one such push and no pull. *)
EXTENDS SyncLog
=============================================================================
