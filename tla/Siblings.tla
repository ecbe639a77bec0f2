------------------------------ MODULE Siblings ------------------------------
(***************************************************************************)
(* A list of items with the position keys of Position: `insert` of         *)
(* src/position/lib.js gives an item a key in front of, behind or between  *)
(* the items there are, with a bias that is derived from the item.  The    *)
(* import of a document (src/fact.js) does so for the members of an array, *)
(* each behind the last.  Keys are sorted by whoever reads the list, so    *)
(* that the order of the keys is the order of the items.                   *)
(***************************************************************************)
EXTENDS Position

CONSTANTS
  Biases,      \* the biases items have; none is <<>>
  MaxItems     \* bound on the items of the list

ASSUME SiblingsAssumption ==
  /\ \A bias \in Biases : bias \in Seq(Codes(DigitRanges)) /\ (bias # <<>> => Trim(bias) # <<>>)
  /\ MaxItems \in Nat

VARIABLES
  keys,     \* the keys of the items, in the order the items are meant to have
  plain     \* history: no insertion so far was one of those that Lapse names

vars == <<keys, plain>>

-----------------------------------------------------------------------------
(* How lists of digits compare: as if least digits went on behind them. *)
Precedes(a, b) ==
  \E i \in 1 .. Max({Len(a), Len(b)}) :
    /\ Digit(a, i, Least) < Digit(b, i, Least)
    /\ \A j \in 1 .. i - 1 : Digit(a, j, Least) = Digit(b, j, Least)

Behind(digits, n) == SubSeq(digits, n + 1, Len(digits))

(* Where the operations on keys go wrong.  The first: a bias continues digits
   that Decrement trimmed, in the place of those, and is not below what stands
   there in the key. *)
Trims(digits) == Decrement(digits) # Null /\ Len(Decrement(digits)) < Len(digits)

Overtakes(digits, rest, bias) ==
  Trims(digits) /\ ~Precedes(bias, Behind(digits, Len(Decrement(digits))) \o rest)

(* The second: where neither a major nor a minor is left, a bias replaces the
   decremented or the incremented patch after a look at their first digits. *)
LapseDecrement(patch, bias) ==
  LET digits   == Decrement(patch)
      replaced == digits # <<>> /\ Head(bias) <= digits[1]
  IN  /\ bias # <<>> /\ digits # Null
      /\ replaced => ~Precedes(bias, patch)
      /\ ~replaced => Overtakes(patch, <<>>, bias)

LapseIncrement(patch, bias) ==
  LET digits == Increment(patch)
  IN  bias # <<>> /\ digits # Null /\ Head(bias) >= digits[1] /\ ~Precedes(patch, bias)

(* The third: no digit fits where two lists first differ, and Intermediate finds
   one further on, where the lower list may have the greater digit. *)
Falls(low, high) ==
  LET digits == Intermediate(low, high)
  IN  /\ digits \notin {NoDigits(Equal), NoDigits(Consecutive)}
      /\ digits[Len(digits)] < Digit(low, Len(digits), Least)

(* The fourth: where no digit fits at all, the lower patch is continued, also
   when the upper one continues it with less. *)
LapsePatch(low, high, bias) ==
  \/ Falls(low, high)
  \/ /\ Intermediate(low, high) = NoDigits(Consecutive)
     /\ Len(low) < Len(high) /\ low = SubSeq(high, 1, Len(low))
     /\ ~Precedes(IF bias = <<>> THEN <<Median>> ELSE bias, Behind(high, Len(low)))

(* And nothing sorts before the least key of all. *)
LapseBefore(bias, high) ==
  \/ Overtakes(Minor(high), Patch(high), bias)
  \/ /\ Decrement(Minor(high)) = Null /\ DecrementDigit(Major(high), MajorRanges) = Out
     /\ Patch(high) = <<>> \/ LapseDecrement(Patch(high), bias)

LapseAfter(bias, low) ==
  /\ Increment(Minor(low)) = Null /\ IncrementDigit(Major(low), MajorRanges) = Out
  /\ LapseIncrement(Patch(low), bias)

LapseBetween(bias, low, high) ==
  LET major == IntermediateDigit(Major(low), Major(high), MajorRanges)
  IN  \/ /\ major = Equal
         /\ \/ Minor(low) = Minor(high) /\ LapsePatch(Patch(low), Patch(high), bias)
            \/ Falls(Minor(low), Minor(high))
      \/ /\ major = Consecutive /\ Increment(Minor(low)) = Null
         /\ \/ Overtakes(Minor(high), Patch(high), bias)
            \/ Decrement(Minor(high)) = Null /\ LapseDecrement(Patch(high), bias)

-----------------------------------------------------------------------------
Init == keys = <<>> /\ plain = TRUE

(* A list is not continued once its keys may be out of order. *)
Room == plain /\ Len(keys) < MaxItems

InsertFirst ==
  /\ Room /\ keys = <<>>
  /\ \E bias \in Biases : keys' = <<First(bias)>>
  /\ UNCHANGED plain

(* Also what the import of an array does for each of its members. *)
InsertLast ==
  /\ Room /\ keys # <<>>
  /\ \E bias \in Biases :
       /\ keys' = Append(keys, After(bias, keys[Len(keys)]))
       /\ plain' = ~LapseAfter(bias, keys[Len(keys)])

InsertInFront ==
  /\ Room /\ keys # <<>>
  /\ \E bias \in Biases :
       /\ keys' = <<Before(bias, keys[1])>> \o keys
       /\ plain' = ~LapseBefore(bias, keys[1])

InsertBetween ==
  /\ Room
  /\ \E bias \in Biases, i \in 1 .. Len(keys) - 1 :
       /\ keys' = SubSeq(keys, 1, i) \o <<Between(bias, keys[i], keys[i + 1])>>
                    \o SubSeq(keys, i + 1, Len(keys))
       /\ plain' = ~LapseBetween(bias, keys[i], keys[i + 1])

Next == InsertFirst \/ InsertLast \/ InsertInFront \/ InsertBetween

Spec == Init /\ [][Next]_vars

-----------------------------------------------------------------------------
(* Keys are made of the digits of their alphabets, although neighbours and
   averages of digits are computed on character codes and may fall into the
   gaps, and no key ends in a digit that is implied. *)
KeysWellFormed == \A i \in DOMAIN keys :
  /\ Major(keys[i]) \in Codes(MajorRanges)
  /\ \A j \in 2 .. Len(keys[i]) : keys[i][j] \in Codes(DigitRanges)
  /\ keys[i][Len(keys[i])] # Least \/ Len(keys[i]) = 1

(* Wherever items are inserted, and across the lengths that minors get when
   the major changes, the keys sort strictly in the order of the items, no two
   items share a key and none passes another, unless an insertion was one of
   the lapses; and each of those does put a key out of order. *)
KeysInOrder ==
  plain <=> \A i, j \in DOMAIN keys : i < j => Sorts(keys[i], keys[j])
=============================================================================
