----------------------------- MODULE MCRankedTree -----------------------------
(* The tree for TLC: five keys, whose ranks make the tree of one to three
   levels of cuts, and ranges with every kind of start.  An end within the
   range is one that excludes the next key, so that some of the ends that
   exclude do for all. *)
EXTENDS RankedTree

FewRanks(key) == CASE key = 1 -> 2 [] key = 2 -> 4 [] key = 3 -> 1 [] key = 4 -> 3 [] OTHER -> 1
SomeRanges ==
  [from : Bounds, to : {Unbounded} \cup [kind : {"Excluded"}, key : {2, 5}]]
=============================================================================
