----------------------------- MODULE MCIdbWriter -----------------------------
(* The tree in IndexedDB for TLC.  Which hashes are small is decided by a sum
   over what was hashed; the numbers are chosen such that the contents have
   trees of as many shapes as possible. *)
EXTENDS IdbWriter, Sequences, SequencesExt

RECURSIVE Digest(_)
Digest(hash) ==
  IF hash[1] = 0
  THEN FoldLeft(LAMBDA sum, n : (sum * 4 + n + 1) % 11, 1, hash[2])
  ELSE FoldLeft(LAMBDA sum, k : (sum * 3 + Digest(hash[2][k]) + hash[1]) % 11,
                1, SetToSortSeq(DOMAIN hash[2], <))

SmallDigest(hash) == Digest(hash) % 5 < 2
=============================================================================
