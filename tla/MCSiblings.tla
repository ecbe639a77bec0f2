----------------------------- MODULE MCSiblings -----------------------------
(* Lists of items for TLC: one major below and two above, and four digits, both
   with a gap, so that a few insertions run through minors of both lengths,
   carry, borrow, skip the gap and come to both ends of the majors; biases
   below, between and above the digits, and one that begins with the least. *)
EXTENDS Siblings

TwoMajors == << <<2, 2>>, <<5, 6>> >>
TwoPairs == << <<3, 4>>, <<6, 7>> >>
FourBiases == { <<>>, <<4>>, <<7>>, <<3, 6>> }
=============================================================================
