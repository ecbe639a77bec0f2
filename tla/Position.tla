------------------------------ MODULE Position ------------------------------
(***************************************************************************)
(* The position keys of src/position: strings of digits that sort where an *)
(* item stands among its siblings, so that an item can be put in front of, *)
(* behind or between others without touching their keys.  A key is a major *)
(* digit, a minor part whose length the major gives, and a patch of any    *)
(* length; trailing least digits are left out of it.                       *)
(*                                                                         *)
(* Digits are character codes.  The alphabets are constants, since what is *)
(* hard happens at their ends: `parse` of base.js makes ranges of codes    *)
(* out of them.  The bias is what a new key gets besides its place, so     *)
(* that replicas which insert in the same place get different keys.        *)
(***************************************************************************)
EXTENDS Integers, Sequences, FiniteSets, FiniteSetsExt

CONSTANTS
  MajorRanges,   \* base52: the ranges of the major digits, negative and positive
  DigitRanges    \* base62: the ranges of all the other digits, in order

RangesAreSorted(ranges) ==
  /\ \A i \in DOMAIN ranges : 1 < ranges[i][1] /\ ranges[i][1] <= ranges[i][2]
  /\ \A i, j \in DOMAIN ranges : i < j => ranges[i][2] + 1 < ranges[j][1]

ASSUME RangesAssumption ==
  /\ MajorRanges \in Seq(Nat \X Nat) /\ Len(MajorRanges) = 2
  /\ DigitRanges \in Seq(Nat \X Nat) /\ DigitRanges # <<>>
  /\ RangesAreSorted(MajorRanges) /\ RangesAreSorted(DigitRanges)
  /\ DigitRanges[1][1] < DigitRanges[Len(DigitRanges)][2]   \* two digits at least
  /\ MajorRanges[1][1] # DigitRanges[1][1]    \* "A" and "0"

(* What the operations on digits return when there is no digit to return. *)
Out == -1
Equal == -2
Consecutive == -3
NoDigits(why) == <<why>>
Null == NoDigits(Out)

Codes(ranges) == UNION {ranges[i][1] .. ranges[i][2] : i \in DOMAIN ranges}
Least == DigitRanges[1][1]
Greatest == DigitRanges[Len(DigitRanges)][2]

(* base.js median: the code in the middle of the sorted alphabet. *)
Median ==
  CHOOSE c \in Codes(DigitRanges) :
    Cardinality({d \in Codes(DigitRanges) : d < c}) = Cardinality(Codes(DigitRanges)) \div 2

-----------------------------------------------------------------------------
(* Deviation: the next code, also when it is in a gap. *)
NextCode(digit, ranges) ==
  IF digit + 1 > ranges[Len(ranges)][2] THEN Out ELSE digit + 1

(* digit.js: the neighbours of a digit, rounded into the ranges. *)
IncrementDigit(digit, ranges) ==
  LET reach == {i \in DOMAIN ranges : digit + 1 <= ranges[i][2]}
  IN  IF reach = {} THEN Out ELSE Max({digit + 1, ranges[Min(reach)][1]})

DecrementDigit(digit, ranges) ==
  LET reach == {i \in DOMAIN ranges : digit - 1 >= ranges[i][1]}
  IN  IF reach = {} THEN Out ELSE Min({digit - 1, ranges[Max(reach)][2]})

(* A digit between two, rounded up or else down when the average falls into
   a gap; the bound it is rounded down to is compared with the end of the next
   range (`last < high`), not with the upper digit. *)
IntermediateDigit(from, to, ranges) ==
  LET bottom == Min({from, to})
      top    == Max({from, to})
      digit  == (top + bottom + 1) \div 2
      reach  == {i \in DOMAIN ranges : digit <= ranges[i][2]}
      i      == IF reach = {} THEN Len(ranges) + 1 ELSE Min(reach)
      last   == IF i = 1 THEN Out ELSE ranges[i - 1][2]
  IN  CASE bottom = top -> Equal
        [] top - bottom = 1 -> Consecutive
        [] OTHER ->
             IF reach = {} THEN IF bottom < last /\ last < top THEN last ELSE Consecutive
             ELSE IF digit >= ranges[i][1] THEN digit
             ELSE IF bottom < ranges[i][1] /\ ranges[i][1] < top THEN ranges[i][1]
             ELSE IF bottom < last /\ last < ranges[i][2] THEN last
             ELSE Consecutive

-----------------------------------------------------------------------------
(* digits.js: numbers written with such digits. *)
Digit(digits, i, default) == IF i \in DOMAIN digits THEN digits[i] ELSE default

Trim(digits) ==
  LET kept == {i \in DOMAIN digits : digits[i] # Least}
  IN  SubSeq(digits, 1, IF kept = {} THEN 0 ELSE Max(kept))

(* The digits behind the one that is incremented are dropped: they are least. *)
Increment(digits) ==
  LET able == {i \in DOMAIN digits : IncrementDigit(digits[i], DigitRanges) # Out}
      at   == Max(able)
  IN  IF able = {} THEN Null
      ELSE Append(SubSeq(digits, 1, at - 1), IncrementDigit(digits[at], DigitRanges))

(* Those behind the one that is decremented become the greatest. *)
Decrement(digits) ==
  LET able == {i \in DOMAIN digits : DecrementDigit(digits[i], DigitRanges) # Out}
      at   == Max(able)
  IN  IF able = {} THEN Null
      ELSE Trim([i \in DOMAIN digits |->
                   IF i < at THEN digits[i]
                   ELSE IF i > at THEN Greatest
                   ELSE DecrementDigit(digits[at], DigitRanges)])

(* From the first digit in which the two differ on, the digits of the lower
   one, up to the first that has an intermediate digit. *)
Intermediate(begin, end) ==
  LET size   == Max({Len(begin), Len(end)})
      differ == {i \in 1 .. size : Digit(begin, i, Least) # Digit(end, i, Least)}
      first  == Min(differ)
      rising == Digit(begin, first, Least) < Digit(end, first, Least)
      from   == IF rising THEN begin ELSE end
      to     == IF rising THEN end ELSE begin
      middle(i) == IntermediateDigit(Digit(from, i, Least), Digit(to, i, Greatest + 1),
                                     DigitRanges)
      free   == {i \in first .. size : middle(i) \notin {Equal, Consecutive}}
      at     == Min(free)
  IN  IF differ = {} THEN NoDigits(Equal)
      ELSE IF free = {} THEN NoDigits(Consecutive)
      ELSE [i \in 1 .. at |-> IF i = at THEN middle(i) ELSE Digit(from, i, Least)]

-----------------------------------------------------------------------------
(* major.js, minor.js and patch.js: the parts of a key. *)
Zero == MajorRanges[2][1]

(* Majors in the middle leave room for few minor digits, those at the edges
   for many; a major outside of the ranges leaves none. *)
Capacity(major) ==
  IF major \in MajorRanges[2][1] .. MajorRanges[2][2] THEN major - MajorRanges[2][1] + 1
  ELSE IF major \in MajorRanges[1][1] .. MajorRanges[1][2] THEN MajorRanges[1][2] - major + 1
  ELSE 0

Major(position) == position[1]

(* Least digits that were trimmed are put back. *)
Minor(position) ==
  [i \in 1 .. Capacity(Major(position)) |-> Digit(position, i + 1, Least)]

Patch(position) == SubSeq(position, Capacity(Major(position)) + 2, Len(position))

Filled(size, digit) == [i \in 1 .. size |-> digit]

(* Deviation: the bias also takes the place of the last digit if its head is the
   digit of the lower patch there. *)
BiasedLoosely(digits, low, high, bias) ==
  IF bias = <<>> THEN digits
  ELSE LET at   == Len(digits)
           fits == /\ at \in DOMAIN low /\ at \in DOMAIN high
                   /\ low[at] <= Head(bias) /\ Head(bias) < high[at]
       IN  SubSeq(digits, 1, IF fits THEN at - 1 ELSE at) \o bias

(* The default case: the last digit gives way to the bias when the head of
   the bias fits in between as well. *)
Biased(digits, low, high, bias) ==
  IF bias = <<>> THEN digits
  ELSE LET at   == Len(digits)
           fits == /\ at \in DOMAIN low /\ at \in DOMAIN high
                   /\ low[at] < Head(bias) /\ Head(bias) < high[at]
       IN  SubSeq(digits, 1, IF fits THEN at - 1 ELSE at) \o bias

IntermediatePatch(low, high, bias) ==
  LET digits == Intermediate(low, high)
  IN  IF digits = NoDigits(Equal) THEN Null
      ELSE IF digits = NoDigits(Consecutive)
           THEN low \o (IF bias = <<>> THEN <<Median>> ELSE bias)
      ELSE Biased(digits, low, high, bias)

NextPatch(patch, bias) ==
  LET next == IntermediatePatch(patch, <<Greatest + 1>>, bias)
  IN  IF next = Null THEN patch \o bias ELSE next

IncrementPatch(patch, bias) ==
  LET digits == Increment(patch)
  IN  IF digits = Null THEN Append(patch, Median)
      ELSE IF bias = <<>> THEN digits
      ELSE IF Head(bias) >= digits[1] THEN bias
      ELSE digits \o bias

(* decrease: the patch without the least digits at its end, if any is left
   behind the first. *)
ShortenedPatch(patch) ==
  LET kept == {i \in 2 .. Len(patch) : patch[i] # Least}
  IN  IF kept = {} THEN Null ELSE SubSeq(patch, 1, Max(kept))

DecrementPatch(patch, bias) ==
  LET fewer  == Decrement(patch)
      digits == IF fewer = Null THEN ShortenedPatch(patch) ELSE fewer
  IN  IF digits = Null THEN Null
      ELSE IF bias = <<>> THEN digits
      ELSE IF digits # <<>> /\ Head(bias) <= digits[1] THEN bias
      ELSE digits \o bias

-----------------------------------------------------------------------------
(* position.js *)
Create(major, minor, patch) ==
  LET rest == Trim(patch)
  IN  <<major>> \o (IF rest = <<>> THEN Trim(minor) ELSE minor) \o rest

Before(bias, position) ==
  LET minor == Decrement(Minor(position))
      major == DecrementDigit(Major(position), MajorRanges)
      patch == DecrementPatch(Patch(position), bias)
  IN  IF minor # Null THEN Create(Major(position), minor, bias)
      ELSE IF major # Out THEN Create(major, Filled(Capacity(major), Greatest), bias)
      ELSE IF patch # Null THEN Create(Major(position), Minor(position), patch)
      ELSE Trim(position)

After(bias, position) ==
  LET minor == Increment(Minor(position))
      major == IncrementDigit(Major(position), MajorRanges)
  IN  IF minor # Null THEN Create(Major(position), minor, bias)
      ELSE IF major # Out THEN Create(major, Filled(Capacity(major), Least), bias)
      ELSE Create(Major(position), Minor(position), IncrementPatch(Patch(position), bias))

(* Equal majors: the middle of the minors, or else of the patches. *)
BetweenMinors(bias, low, high) ==
  LET minor == Intermediate(Minor(low), Minor(high))
      patch == IntermediatePatch(Patch(low), Patch(high), bias)
  IN  IF minor = NoDigits(Equal)
      THEN IF patch = Null THEN low ELSE Create(Major(low), Minor(low), patch)
      ELSE IF minor # NoDigits(Consecutive) THEN Create(Major(low), minor, bias)
      ELSE IF DecrementPatch(Patch(high), bias) # Null
           THEN Create(Major(high), Minor(high), <<>>)
      ELSE Create(Major(low), Minor(low), NextPatch(Patch(low), bias))

(* Consecutive majors: whichever of the two has room on the inner side. *)
BetweenMajors(bias, low, high) ==
  LET above == Increment(Minor(low))
      below == Decrement(Minor(high))
      patch == DecrementPatch(Patch(high), bias)
  IN  IF above # Null THEN Create(Major(low), above, bias)
      ELSE IF below # Null THEN Create(Major(high), below, bias)
      ELSE IF patch # Null THEN Create(Major(high), Minor(high), patch)
      ELSE Create(Major(low), Minor(low), NextPatch(Patch(low), bias))

Between(bias, low, high) ==
  LET major == IntermediateDigit(Major(low), Major(high), MajorRanges)
  IN  IF major = Equal THEN BetweenMinors(bias, low, high)
      ELSE IF major = Consecutive THEN BetweenMajors(bias, low, high)
      ELSE Create(major, Filled(Capacity(major), Least), bias)

(* insert of an item without siblings. *)
First(bias) == Create(Zero, <<>>, bias)

-----------------------------------------------------------------------------
(* How keys sort: as the strings of their digits. *)
Sorts(a, b) ==
  \/ \E i \in DOMAIN a \cap DOMAIN b :
       a[i] < b[i] /\ \A j \in 1 .. i - 1 : a[j] = b[j]
  \/ Len(a) < Len(b) /\ \A i \in DOMAIN a : a[i] = b[i]
=============================================================================
