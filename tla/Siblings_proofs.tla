--------------------------- MODULE Siblings_proofs ---------------------------
(***************************************************************************)
(* Proofs about the keys of Position and the lists of Siblings, for every  *)
(* pair of alphabets, every set of biases and lists of any length.         *)
(*                                                                         *)
(* A key is compared as the list of its digits, continued with least       *)
(* digits without end (Lower): that is what it means that digits are       *)
(* trimmed, and it turns keys of different lengths into ones that can be   *)
(* compared digit by digit.  For well-formed keys this is how strings sort *)
(* (SortsIsLower).  From the arithmetic of one digit in an alphabet with   *)
(* gaps follows that of lists of digits, then that of the parts of a key,  *)
(* then what Before, After and Between give (BeforeIs, AfterIs, BetweenIs),*)
(* and from these the invariant of the list of items (ListInv).            *)
(*                                                                         *)
(* The second part is about RankedTree, which shares with the first that   *)
(* all is ordered by keys, the facts of least and greatest members of      *)
(* sets, and no definition.  What join_with_rank makes of siblings is      *)
(* stated once (JoinShows): the blocks of a level are the keys between two *)
(* cuts, and the cuts of a level are the keys of a higher rank.  So the    *)
(* rows of a tree are a function of its entries (Rows), insert leaves the  *)
(* rows those of one more entry (InsertIs), and a read is at a place in    *)
(* them (ReadIs).                                                          *)
(***************************************************************************)
EXTENDS Siblings, RankedTree, WellFoundedInduction, FiniteSetTheorems, SequenceTheorems, TLAPS

(* Least and greatest members of sets of numbers. *)
LEMMA LeastOf ==
  ASSUME NEW S, S \subseteq Nat, S # {}
  PROVE  Min(S) \in S /\ \A y \in S : Min(S) <= y
<1> DEFINE less == OpToRel(<, Nat)
<1>1. IsWellFoundedOn(less, Nat)
  BY NatLessThanWellFounded
<1>2. \A x, y \in Nat : y < x => <<y, x>> \in less
  BY Zenon DEF OpToRel
<1> HIDE DEF less
<1>3. PICK x \in S : \A y \in S : ~ (<<y, x>> \in less)
  BY <1>1, WFMin
<1>4. \A y \in S : x =< y
  <2> TAKE y \in S
  <2>1. x \in Nat /\ y \in Nat
    OBVIOUS
  <2>2. ~ (y < x)
    BY <1>2, <1>3, <2>1
  <2> QED BY <2>1, <2>2
<1> QED BY <1>4 DEF Min

LEMMA GreatestOf ==
  ASSUME NEW n \in Nat, NEW S, S \subseteq 0 .. n, S # {}
  PROVE  Max(S) \in S /\ \A y \in S : y <= Max(S)
<1> DEFINE T == {n - y : y \in S}
<1>1. T \subseteq Nat /\ T # {}
  <2>1. \A y \in S : y \in 0 .. n
    OBVIOUS
  <2>2. \A y \in 0 .. n : n - y \in Nat
    OBVIOUS
  <2> QED BY <2>1, <2>2
<1>2. Min(T) \in T /\ \A z \in T : Min(T) <= z
  BY <1>1, LeastOf
<1>3. PICK x \in S : Min(T) = n - x
  BY <1>2
<1>4. \A y \in S : x >= y
  <2> SUFFICES ASSUME NEW y \in S PROVE x >= y
    OBVIOUS
  <2>1. n - y \in T
    OBVIOUS
  <2>2. n - x <= n - y
    BY <1>2, <1>3, <2>1
  <2>3. x \in Int /\ y \in Int
    OBVIOUS
  <2> QED BY <2>2, <2>3
<1>5. Max(S) \in S /\ \A y \in S : Max(S) >= y
  BY <1>4 DEF Max
<1>6. \A y \in S : y \in Int
  OBVIOUS
<1> QED BY <1>5, <1>6

LEMMA OfTwo ==
  ASSUME NEW a \in Int, NEW b \in Int
  PROVE  /\ Max({a, b}) = IF a >= b THEN a ELSE b
         /\ Min({a, b}) = IF a <= b THEN a ELSE b
<1>1. \E x \in {a, b} : \A y \in {a, b} : x >= y
  OBVIOUS
<1>2. Max({a, b}) \in {a, b} /\ \A y \in {a, b} : Max({a, b}) >= y
  BY <1>1 DEF Max
<1>3. \E x \in {a, b} : \A y \in {a, b} : x =< y
  OBVIOUS
<1>4. Min({a, b}) \in {a, b} /\ \A y \in {a, b} : Min({a, b}) =< y
  BY <1>3 DEF Min
<1> QED BY <1>2, <1>4

-----------------------------------------------------------------------------
(* The ranges of an alphabet, and the arithmetic of its digits. *)
IsAlphabet(ranges) ==
  ranges \in Seq(Nat \X Nat) /\ ranges # <<>> /\ RangesAreSorted(ranges)

LEMMA Alphabets ==
  /\ IsAlphabet(MajorRanges) /\ Len(MajorRanges) = 2 /\ MajorRanges[1][1] # Least
  /\ IsAlphabet(DigitRanges) /\ Least < Greatest
BY RangesAssumption DEF IsAlphabet, Least, Greatest

LEMMA RangeFacts ==
  ASSUME NEW ranges, IsAlphabet(ranges)
  PROVE  /\ Len(ranges) \in Nat /\ Len(ranges) >= 1 /\ DOMAIN ranges = 1 .. Len(ranges)
         /\ \A i \in DOMAIN ranges : ranges[i][1] \in Nat /\ ranges[i][2] \in Nat
                                      /\ 1 < ranges[i][1] /\ ranges[i][1] <= ranges[i][2]
         /\ \A i, j \in DOMAIN ranges : i < j => ranges[i][2] + 1 < ranges[j][1]
         /\ \A c : c \in Codes(ranges) <=>
              \E i \in DOMAIN ranges : c \in Nat /\ ranges[i][1] <= c /\ c <= ranges[i][2]
<1>1. Len(ranges) \in Nat /\ Len(ranges) >= 1 /\ DOMAIN ranges = 1 .. Len(ranges)
  BY DEF IsAlphabet
<1>2. \A i \in DOMAIN ranges : ranges[i][1] \in Nat /\ ranges[i][2] \in Nat
  <2> TAKE i \in DOMAIN ranges
  <2>1. ranges[i] \in Nat \X Nat
    BY <1>1 DEF IsAlphabet
  <2> QED BY <2>1
<1>3. \A c : c \in Codes(ranges) <=>
              \E i \in DOMAIN ranges : c \in Nat /\ ranges[i][1] <= c /\ c <= ranges[i][2]
  BY <1>2 DEF Codes
<1> QED BY <1>1, <1>2, <1>3 DEF IsAlphabet, RangesAreSorted

(* The codes lie between the ends of the first and of the last range. *)
LEMMA CodeBounds ==
  ASSUME NEW ranges, IsAlphabet(ranges), NEW c \in Codes(ranges)
  PROVE  c \in Nat /\ 1 < c /\ ranges[1][1] <= c /\ c <= ranges[Len(ranges)][2]
<1>0. 1 \in DOMAIN ranges /\ Len(ranges) \in DOMAIN ranges /\ Len(ranges) \in Nat
        /\ DOMAIN ranges = 1 .. Len(ranges)
  BY RangeFacts
<1>1. PICK i \in DOMAIN ranges : c \in Nat /\ ranges[i][1] <= c /\ c <= ranges[i][2]
  BY RangeFacts
<1>2. i = 1 \/ ranges[1][2] + 1 < ranges[i][1]
  <2>1. i = 1 \/ 1 < i
    BY <1>0
  <2> QED BY <1>0, <2>1, RangeFacts
<1>3. i = Len(ranges) \/ ranges[i][2] + 1 < ranges[Len(ranges)][1]
  <2>1. i = Len(ranges) \/ i < Len(ranges)
    BY <1>0
  <2> QED BY <1>0, <2>1, RangeFacts
<1>4. /\ ranges[1][1] \in Nat /\ ranges[1][2] \in Nat /\ ranges[1][1] <= ranges[1][2]
      /\ ranges[i][1] \in Nat /\ ranges[i][2] \in Nat /\ 1 < ranges[i][1]
      /\ ranges[Len(ranges)][1] \in Nat /\ ranges[Len(ranges)][2] \in Nat
      /\ ranges[Len(ranges)][1] <= ranges[Len(ranges)][2]
  BY <1>0, RangeFacts
<1>5. ranges[1][1] <= ranges[i][1]
  BY <1>2, <1>4
<1>6. ranges[i][2] <= ranges[Len(ranges)][2]
  BY <1>3, <1>4
<1> QED BY <1>1, <1>4, <1>5, <1>6

LEMMA IncrementGives ==
  ASSUME NEW ranges, IsAlphabet(ranges), NEW c \in Codes(ranges)
  PROVE  LET d == IncrementDigit(c, ranges)
         IN  /\ d # Out => d \in Codes(ranges) /\ c < d
             /\ c < ranges[Len(ranges)][2] => d # Out
<1> DEFINE reach == {i \in DOMAIN ranges : c + 1 <= ranges[i][2]}
           first == Min(reach)
           d == IncrementDigit(c, ranges)
<1>1. c \in Nat
  BY CodeBounds
<1>2. reach = {} => d = Out
  BY DEF IncrementDigit
<1>3. ASSUME reach # {}
      PROVE  d \in Codes(ranges) /\ c < d
  <2>1. reach \subseteq Nat
    BY RangeFacts
  <2>2. first \in reach
    BY <1>3, <2>1, LeastOf
  <2>3. ranges[first][1] \in Nat /\ ranges[first][2] \in Nat /\ c + 1 <= ranges[first][2]
          /\ ranges[first][1] <= ranges[first][2] /\ first \in DOMAIN ranges
    BY <2>2, RangeFacts
  <2>4. d = Max({c + 1, ranges[first][1]})
    BY <1>3 DEF IncrementDigit
  <2> HIDE DEF d, first
  <2>5. d = IF c + 1 >= ranges[first][1] THEN c + 1 ELSE ranges[first][1]
    <3>1. c + 1 \in Int /\ ranges[first][1] \in Int
      BY <1>1, <2>3
    <3> QED BY <2>4, <3>1, OfTwo
  <2>6. ranges[first][1] <= d /\ d <= ranges[first][2] /\ d \in Nat /\ c < d
    BY <1>1, <2>3, <2>5
  <2> QED BY <2>3, <2>6 DEF Codes
<1>4. ASSUME c < ranges[Len(ranges)][2] PROVE reach # {}
  <2>1. Len(ranges) \in DOMAIN ranges /\ ranges[Len(ranges)][2] \in Nat
    BY RangeFacts
  <2>2. c + 1 <= ranges[Len(ranges)][2]
    BY <1>1, <1>4, <2>1
  <2> QED BY <2>1, <2>2
<1>5. d \in Codes(ranges) => d # Out
  BY CodeBounds DEF Out
<1> QED BY <1>2, <1>3, <1>4, <1>5

LEMMA DecrementGives ==
  ASSUME NEW ranges, IsAlphabet(ranges), NEW c \in Codes(ranges)
  PROVE  LET d == DecrementDigit(c, ranges)
         IN  /\ d # Out => d \in Codes(ranges) /\ d < c
             /\ d = Out <=> c = ranges[1][1]
<1> DEFINE reach == {i \in DOMAIN ranges : c - 1 >= ranges[i][1]}
           last == Max(reach)
           d == DecrementDigit(c, ranges)
<1>1. c \in Nat /\ c - 1 \in Nat /\ ranges[1][1] <= c
  BY CodeBounds
<1>2. reach = {} => d = Out
  BY DEF DecrementDigit
<1>3. ASSUME reach # {}
      PROVE  d \in Codes(ranges) /\ d < c /\ c # ranges[1][1]
  <2>1. reach \subseteq 0 .. Len(ranges) /\ Len(ranges) \in Nat
    BY RangeFacts
  <2>2. last \in reach
    BY <1>3, <2>1, GreatestOf
  <2>3. ranges[last][1] \in Nat /\ ranges[last][2] \in Nat /\ c - 1 >= ranges[last][1]
          /\ ranges[last][1] <= ranges[last][2] /\ last \in DOMAIN ranges
    BY <2>2, RangeFacts
  <2>4. d = Min({c - 1, ranges[last][2]})
    BY <1>3 DEF DecrementDigit
  <2> HIDE DEF d, last
  <2>5. d = IF c - 1 <= ranges[last][2] THEN c - 1 ELSE ranges[last][2]
    <3>1. c - 1 \in Int /\ ranges[last][2] \in Int
      BY <1>1, <2>3
    <3> QED BY <2>4, <3>1, OfTwo
  <2>6. d \in Codes(ranges) /\ d < c
    <3>1. d \in Nat /\ ranges[last][1] <= d /\ d <= ranges[last][2] /\ d < c
      BY <1>1, <2>3, <2>5
    <3> QED BY <2>3, <3>1, RangeFacts
  <2>7. ranges[1][1] <= d
    BY <2>6, CodeBounds
  <2>8. ranges[1][1] \in Nat /\ d \in Nat
    BY <2>6, CodeBounds, RangeFacts
  <2> QED BY <1>1, <2>6, <2>7, <2>8
<1>4. ASSUME c # ranges[1][1] PROVE reach # {}
  <2>1. 1 \in DOMAIN ranges /\ ranges[1][1] \in Nat
    BY RangeFacts
  <2>2. c - 1 >= ranges[1][1]
    BY <1>1, <1>4, <2>1
  <2> QED BY <2>1, <2>2
<1>5. d \in Codes(ranges) => d # Out
  BY CodeBounds DEF Out
<1> QED BY <1>2, <1>3, <1>4, <1>5

LEMMA IntermediateGives ==
  ASSUME NEW ranges, IsAlphabet(ranges), NEW a \in Nat, NEW b \in Nat
  PROVE  LET d == IntermediateDigit(a, b, ranges)
         IN  /\ a = b <=> d = Equal
             /\ a # b /\ d # Consecutive => d \in Codes(ranges)
             /\ a < b /\ d # Consecutive => a < d /\ d < b
<1> DEFINE bottom == Min({a, b})
           top    == Max({a, b})
           digit  == (top + bottom + 1) \div 2
           reach  == {i \in DOMAIN ranges : digit <= ranges[i][2]}
           i      == IF reach = {} THEN Len(ranges) + 1 ELSE Min(reach)
           last   == IF i = 1 THEN Out ELSE ranges[i - 1][2]
           d      == IntermediateDigit(a, b, ranges)
<1>1. /\ top = IF a >= b THEN a ELSE b
      /\ bottom = IF a <= b THEN a ELSE b
  BY OfTwo
<1>2. d = CASE bottom = top -> Equal
            [] top - bottom = 1 -> Consecutive
            [] OTHER ->
                 IF reach = {} THEN IF bottom < last /\ last < top THEN last ELSE Consecutive
                 ELSE IF digit >= ranges[i][1] THEN digit
                 ELSE IF bottom < ranges[i][1] /\ ranges[i][1] < top THEN ranges[i][1]
                 ELSE IF bottom < last /\ last < ranges[i][2] THEN last
                 ELSE Consecutive
  BY DEF IntermediateDigit
<1>3. /\ bottom \in Nat /\ top \in Nat
      /\ a = b <=> bottom = top
      /\ a < b => bottom = a /\ top = b
      /\ bottom # top => bottom < top
  BY <1>1
<1> HIDE DEF bottom, top
<1>4. bottom # top /\ top - bottom # 1 => digit \in Nat /\ bottom < digit /\ digit < top
  BY <1>3
<1> HIDE DEF digit
<1>5. \A k \in DOMAIN ranges : ranges[k][1] \in Nat /\ ranges[k][2] \in Nat
        /\ 1 < ranges[k][1] /\ ranges[k][1] <= ranges[k][2]
        /\ ranges[k][1] \in Codes(ranges) /\ ranges[k][2] \in Codes(ranges)
  <2> TAKE k \in DOMAIN ranges
  <2>1. /\ ranges[k][1] \in Nat /\ ranges[k][2] \in Nat
        /\ 1 < ranges[k][1] /\ ranges[k][1] <= ranges[k][2]
    BY RangeFacts
  <2>2. ranges[k][1] <= ranges[k][1] /\ ranges[k][2] <= ranges[k][2]
    BY <2>1
  <2> QED BY <2>1, <2>2, RangeFacts
<1>6. Len(ranges) \in Nat /\ Len(ranges) >= 1 /\ DOMAIN ranges = 1 .. Len(ranges)
  BY RangeFacts
<1>7. reach # {} => i \in reach /\ \A k \in reach : i <= k
  <2>1. reach \subseteq Nat
    BY <1>6
  <2>2. reach # {} => Min(reach) \in reach /\ \A k \in reach : Min(reach) <= k
    BY <2>1, LeastOf
  <2> QED BY <2>2
<1>8. reach = {} => i = Len(ranges) + 1
  OBVIOUS
<1>9. i \in Nat /\ i >= 1
  BY <1>6, <1>7, <1>8
<1>10. i # 1 => /\ i - 1 \in DOMAIN ranges /\ last = ranges[i - 1][2]
                /\ i - 1 \notin reach
  <2> HIDE DEF i
  <2>1. ASSUME i # 1 PROVE i - 1 \in DOMAIN ranges
    <3>1. i \in DOMAIN ranges \/ i = Len(ranges) + 1
      BY <1>7, <1>8
    <3> QED BY <1>6, <1>9, <2>1, <3>1
  <2>2. ASSUME i - 1 \in reach PROVE FALSE
    <3>1. i <= i - 1
      BY <1>7, <2>2
    <3> QED BY <1>9, <3>1
  <2> QED BY <2>1, <2>2
<1>11. i = 1 => last = -1
  BY DEF Out
<1> HIDE DEF i, last
<1>12. ASSUME bottom # top, top - bottom # 1, i # 1
       PROVE  last < digit /\ last \in Codes(ranges) /\ last \in Nat
  BY <1>4, <1>5, <1>10, <1>12
<1>13. reach # {} => i \in DOMAIN ranges /\ digit <= ranges[i][2]
  BY <1>7
<1> HIDE DEF reach, d
<1>14. d = Equal \/ d = Consecutive \/ (d \in Codes(ranges) /\ bottom < d /\ d < top)
  <2>1. CASE bottom = top
    BY <1>2, <2>1
  <2>2. CASE top - bottom = 1
    BY <1>2, <1>3, <2>2
  <2>3. CASE bottom # top /\ top - bottom # 1 /\ reach = {}
    <3>1. d = IF bottom < last /\ last < top THEN last ELSE Consecutive
      BY <1>2, <2>3
    <3>2. i # 1
      BY <1>6, <1>8, <2>3
    <3> QED BY <1>12, <2>3, <3>1, <3>2
  <2>4. CASE bottom # top /\ top - bottom # 1 /\ reach # {}
    <3>1. d = IF digit >= ranges[i][1] THEN digit
              ELSE IF bottom < ranges[i][1] /\ ranges[i][1] < top THEN ranges[i][1]
              ELSE IF bottom < last /\ last < ranges[i][2] THEN last
              ELSE Consecutive
      BY <1>2, <2>4
    <3>2. CASE digit >= ranges[i][1]
      <4>1. digit \in Codes(ranges)
        BY <1>4, <1>13, <2>4, <3>2, RangeFacts
      <4> QED BY <1>4, <2>4, <3>1, <3>2, <4>1
    <3>3. CASE ~(digit >= ranges[i][1]) /\ (bottom < ranges[i][1] /\ ranges[i][1] < top)
      BY <1>5, <1>13, <2>4, <3>1, <3>3
    <3>4. CASE ~(digit >= ranges[i][1]) /\ ~(bottom < ranges[i][1] /\ ranges[i][1] < top)
               /\ bottom < last /\ last < ranges[i][2]
      <4>1. d = last
        BY <3>1, <3>4
      <4>2. i # 1
        BY <1>3, <1>11, <3>4
      <4>3. last < digit /\ last \in Codes(ranges) /\ last \in Nat
        BY <1>12, <2>4, <4>2
      <4>4. last < top
        BY <1>3, <1>4, <2>4, <4>3
      <4> QED BY <3>4, <4>1, <4>3, <4>4
    <3>5. CASE ~(digit >= ranges[i][1]) /\ ~(bottom < ranges[i][1] /\ ranges[i][1] < top)
               /\ ~(bottom < last /\ last < ranges[i][2])
      BY <3>1, <3>5
    <3> QED BY <3>2, <3>3, <3>4, <3>5
  <2> QED BY <2>1, <2>2, <2>3, <2>4
<1>15. bottom = top => d = Equal
  <2>1. bottom = top => top - bottom # 1
    BY <1>3
  <2> QED BY <1>2, <2>1, Zenon
<1>16. \A c \in Codes(ranges) : c \in Nat
  BY CodeBounds
<1>17. bottom # top => d # Equal
  <2> SUFFICES ASSUME bottom # top PROVE d # Equal
    OBVIOUS
  <2>1. d \in Codes(ranges) => d # Equal
    BY <1>16 DEF Equal
  <2>2. Consecutive # Equal
    BY DEF Consecutive, Equal
  <2>3. d = Equal => top - bottom # 1
    BY <1>2, <1>3, <2>2
  <2>4. CASE top - bottom = 1
    BY <2>3, <2>4
  <2>5. CASE top - bottom # 1 /\ reach = {}
    <3>1. d = IF bottom < last /\ last < top THEN last ELSE Consecutive
      BY <1>2, <2>5
    <3>2. i # 1
      BY <1>6, <1>8, <2>5
    <3>3. last # Equal
      BY <1>12, <2>5, <3>2 DEF Equal
    <3> QED BY <2>2, <3>1, <3>3
  <2>6. CASE top - bottom # 1 /\ reach # {}
    <3>1. d = IF digit >= ranges[i][1] THEN digit
              ELSE IF bottom < ranges[i][1] /\ ranges[i][1] < top THEN ranges[i][1]
              ELSE IF bottom < last /\ last < ranges[i][2] THEN last
              ELSE Consecutive
      BY <1>2, <2>6
    <3>2. digit # Equal /\ ranges[i][1] # Equal
      BY <1>4, <1>5, <1>13, <2>6 DEF Equal
    <3>3. bottom < last => last # Equal
      BY <1>3 DEF Equal
    <3> QED BY <2>2, <3>1, <3>2, <3>3
  <2> QED BY <2>4, <2>5, <2>6
<1> QED BY <1>3, <1>14, <1>15, <1>17 DEF d

LEMMA EndsAreCodes ==
  ASSUME NEW ranges, IsAlphabet(ranges)
  PROVE  ranges[1][1] \in Codes(ranges) /\ ranges[Len(ranges)][2] \in Codes(ranges)
<1>1. 1 \in DOMAIN ranges /\ Len(ranges) \in DOMAIN ranges
  BY RangeFacts
<1> QED BY <1>1, RangeFacts

DigitCodes == Codes(DigitRanges)

LEMMA DigitBounds ==
  /\ Least \in DigitCodes /\ Greatest \in DigitCodes /\ Least < Greatest
  /\ \A c \in DigitCodes : c \in Nat /\ 1 < c /\ Least <= c /\ c <= Greatest
BY Alphabets, EndsAreCodes, CodeBounds DEF DigitCodes, Least, Greatest

(* There is a code in the middle, and it is not the least one. *)
LEMMA MedianIsDigit == Median \in DigitCodes /\ Median # Least
<1> DEFINE below(c) == {d \in DigitCodes : d < c}
           n == Cardinality(DigitCodes)
           missing == {k \in 0 .. n - 1 : \A c \in DigitCodes : Cardinality(below(c)) # k}
<1>1. IsFiniteSet(DigitCodes) /\ n \in Nat
  <2>1. DigitCodes \subseteq Least .. Greatest /\ Least \in Int /\ Greatest \in Int
    BY DigitBounds
  <2>2. IsFiniteSet(Least .. Greatest)
    BY <2>1, FS_Interval
  <2>3. IsFiniteSet(DigitCodes)
    BY <2>1, <2>2, FS_Subset
  <2> QED BY <2>3, FS_CardinalityType
<1>2. ASSUME NEW c \in DigitCodes
      PROVE  IsFiniteSet(below(c)) /\ Cardinality(below(c)) \in Nat
  <2>1. below(c) \subseteq DigitCodes
    OBVIOUS
  <2>2. IsFiniteSet(below(c))
    BY <1>1, <2>1, FS_Subset
  <2> QED BY <2>2, FS_CardinalityType
<1>3. below(Least) = {}
  BY DigitBounds
<1>4. Cardinality(below(Least)) = 0
  BY <1>3, FS_EmptySet
<1>5. n >= 2
  <2>1. {Least, Greatest} \subseteq DigitCodes /\ Least # Greatest
    BY DigitBounds
  <2>2. Cardinality({Least}) = 1 /\ IsFiniteSet({Least})
    BY FS_Singleton
  <2>3. Cardinality({Least} \cup {Greatest}) = 2
    BY <2>1, <2>2, FS_AddElement
  <2>4. Cardinality({Least} \cup {Greatest}) <= n
    BY <1>1, <2>1, FS_Subset
  <2> QED BY <2>3, <2>4
<1>6. ASSUME NEW c \in DigitCodes, Cardinality(below(c)) + 1 < n
      PROVE  \E next \in DigitCodes : Cardinality(below(next)) = Cardinality(below(c)) + 1
  <2> DEFINE low == below(c) \cup {c}
             above == DigitCodes \ low
             next == Min(above)
  <2>1. c \notin below(c) /\ c \in Nat
    BY DigitBounds
  <2>2. Cardinality(low) = Cardinality(below(c)) + 1
    BY <1>2, <2>1, FS_AddElement
  <2>3. above # {}
    <3>1. low \subseteq DigitCodes
      OBVIOUS
    <3>2. above = {} => low = DigitCodes
      BY <3>1
    <3>3. Cardinality(below(c)) \in Nat
      BY <1>2
    <3> HIDE DEF below, low, above
    <3>4. low # DigitCodes
      BY <1>6, <1>1, <2>2, <3>3
    <3> QED BY <3>2, <3>4
  <2>4. above \subseteq Nat
    BY DigitBounds
  <2>5. next \in above /\ \A d \in above : next <= d
    BY <2>3, <2>4, LeastOf
  <2> HIDE DEF next
  <2>6. next \in DigitCodes /\ next \in Nat /\ next \notin low
    BY <2>4, <2>5
  <2>7. c < next
    <3>1. ~(next < c) /\ next # c
      BY <2>6
    <3> QED BY <2>1, <2>6, <3>1
  <2>8. below(next) = low
    <3>1. ASSUME NEW d \in below(next) PROVE d \in low
      <4>1. d \in DigitCodes /\ d \in Nat /\ d < next
        BY DigitBounds
      <4>2. d \notin above
        BY <2>5, <2>6, <4>1
      <4> QED BY <4>1, <4>2
    <3>2. ASSUME NEW d \in low PROVE d \in below(next)
      <4>1. d \in DigitCodes /\ (d < c \/ d = c)
        OBVIOUS
      <4>2. d \in Nat
        BY <4>1, DigitBounds
      <4>3. d < next
        BY <2>1, <2>6, <2>7, <4>1, <4>2
      <4> QED BY <4>1, <4>3
    <3> QED BY <3>1, <3>2
  <2> QED BY <2>2, <2>6, <2>8
<1>7. missing = {}
  <2> SUFFICES ASSUME missing # {} PROVE FALSE
    OBVIOUS
  <2> DEFINE k == Min(missing)
  <2>1. missing \subseteq Nat
    BY <1>1
  <2>2. k \in missing /\ \A j \in missing : k <= j
    BY <2>1, LeastOf
  <2> HIDE DEF k
  <2>3. k \in 0 .. n - 1 /\ \A c \in DigitCodes : Cardinality(below(c)) # k
    BY <2>2
  <2> HIDE DEF below
  <2>4. k # 0
    BY <1>4, <2>3, DigitBounds
  <2>5. k - 1 \in 0 .. n - 1 /\ k - 1 \notin missing
    <3>1. ASSUME k - 1 \in missing PROVE FALSE
      <4>1. k <= k - 1
        BY <2>2, <3>1
      <4> QED BY <1>1, <2>3, <4>1
    <3> QED BY <1>1, <2>3, <2>4, <3>1
  <2>6. PICK c \in DigitCodes : Cardinality(below(c)) = k - 1
    BY <2>5
  <2>7. Cardinality(below(c)) + 1 = k /\ k < n
    BY <1>1, <2>3, <2>6
  <2>8. PICK next \in DigitCodes : Cardinality(below(next)) = k
    BY <1>6, <2>7
  <2> QED BY <2>3, <2>8
<1> DEFINE middle == n \div 2
<1>8. middle \in 0 .. n - 1 /\ middle # 0
  BY <1>1, <1>5
<1>9. \E c \in DigitCodes : Cardinality(below(c)) = middle
  <2> HIDE DEF below, middle
  <2> QED BY <1>7, <1>8
<1>10. Median \in DigitCodes /\ Cardinality(below(Median)) = middle
  BY <1>9 DEF Median, DigitCodes
<1>11. Median # Least
  <2> HIDE DEF below, middle
  <2> QED BY <1>4, <1>8, <1>10
<1> QED BY <1>10, <1>11

-----------------------------------------------------------------------------
(* Lists of digits, continued with least digits without end, and their order:
   At looks a digit up, Same and Lower compare, Below compares digits both have. *)
At(s, i) == Digit(s, i, Least)
Same(a, b) == \A i \in Nat \ {0} : At(a, i) = At(b, i)
Lower(a, b) == \E i \in Nat \ {0} :
  At(a, i) < At(b, i) /\ \A j \in 1 .. i - 1 : At(a, j) = At(b, j)
Below(a, b) == \E i \in 1 .. Len(a) :
  i <= Len(b) /\ a[i] < b[i] /\ \A j \in 1 .. i - 1 : a[j] = b[j]

LEMMA LeastIsNat == Least \in Nat /\ Greatest \in Nat
BY DigitBounds

LEMMA AtGives ==
  ASSUME NEW s \in Seq(Nat), NEW i \in Nat \ {0}
  PROVE  /\ i <= Len(s) => At(s, i) = s[i]
         /\ i > Len(s) => At(s, i) = Least
         /\ At(s, i) \in Nat
BY LeastIsNat DEF At, Digit

LEMMA DigitLists ==
  ASSUME NEW s \in Seq(DigitCodes)
  PROVE  /\ s \in Seq(Nat)
         /\ \A i \in Nat \ {0} : At(s, i) \in DigitCodes
<1>1. \A i \in DOMAIN s : s[i] \in DigitCodes
  OBVIOUS
<1>2. \A i \in DOMAIN s : s[i] \in Nat
  BY <1>1, DigitBounds
<1>3. s \in Seq(Nat)
  BY <1>2
<1> QED BY <1>1, <1>3, DigitBounds DEF At, Digit

(* What is left behind some digits of a list. *)
LEMMA BehindGives ==
  ASSUME NEW s \in Seq(Nat), NEW n \in Nat, n <= Len(s)
  PROVE  /\ Behind(s, n) \in Seq(Nat) /\ Len(Behind(s, n)) = Len(s) - n
         /\ \A j \in 1 .. Len(s) - n : Behind(s, n)[j] = s[n + j]
<1> DEFINE r == SubSeq(s, n + 1, Len(s))
<1>1. Len(s) \in Nat /\ \A i \in n + 1 .. Len(s) : i \in 1 .. Len(s)
  OBVIOUS
<1>2. r \in Seq(Nat)
  BY <1>1
<1>3. Len(r) = Len(s) - n
  BY <1>1
<1>4. \A j \in 1 .. Len(s) - n : r[j] = s[n + j]
  BY <1>1
<1> QED BY <1>2, <1>3, <1>4 DEF Behind

LEMMA AtConcat ==
  ASSUME NEW s \in Seq(Nat), NEW t \in Seq(Nat), NEW i \in Nat \ {0}
  PROVE  At(s \o t, i) = IF i <= Len(s) THEN s[i] ELSE At(t, i - Len(s))
<1> DEFINE u == s \o t
<1>1. u \in Seq(Nat) /\ Len(u) = Len(s) + Len(t) /\ Len(s) \in Nat /\ Len(t) \in Nat
  OBVIOUS
<1>2. \A j \in 1 .. Len(s) + Len(t) : u[j] = IF j <= Len(s) THEN s[j] ELSE t[j - Len(s)]
  OBVIOUS
<1> HIDE DEF u
<1>3. At(u, i) = IF i <= Len(s) THEN s[i] ELSE At(t, i - Len(s))
  <2>1. CASE i <= Len(s)
    <3>1. i \in 1 .. Len(s) + Len(t) /\ i <= Len(u)
      BY <1>1, <2>1
    <3>2. At(u, i) = u[i]
      BY <1>1, <3>1, AtGives
    <3> QED BY <1>2, <2>1, <3>1, <3>2
  <2>2. CASE i > Len(s) /\ i <= Len(s) + Len(t)
    <3>1. i \in 1 .. Len(s) + Len(t) /\ i <= Len(u) /\ ~(i <= Len(s))
      BY <1>1, <2>2
    <3>2. i - Len(s) \in Nat \ {0} /\ i - Len(s) <= Len(t)
      BY <1>1, <2>2
    <3>3. At(u, i) = u[i] /\ At(t, i - Len(s)) = t[i - Len(s)]
      BY <1>1, <3>1, <3>2, AtGives
    <3> QED BY <1>2, <3>1, <3>3
  <2>3. CASE i > Len(s) + Len(t)
    <3>1. i - Len(s) \in Nat \ {0} /\ i - Len(s) > Len(t) /\ i > Len(u) /\ ~(i <= Len(s))
      BY <1>1, <2>3
    <3>2. At(u, i) = Least /\ At(t, i - Len(s)) = Least
      BY <1>1, <3>1, AtGives
    <3> QED BY <3>1, <3>2
  <2> QED BY <1>1, <2>1, <2>2, <2>3
<1> QED BY <1>3 DEF u

LEMMA TrimGives ==
  ASSUME NEW s \in Seq(Nat)
  PROVE  LET t == Trim(s)
         IN  /\ t \in Seq(Nat) /\ Len(t) <= Len(s) /\ \A i \in 1 .. Len(t) : t[i] = s[i]
             /\ t = <<>> \/ t[Len(t)] # Least
             /\ Same(t, s)
             /\ Len(t) = Len(s) => t = s
<1> DEFINE kept == {i \in DOMAIN s : s[i] # Least}
           m == IF kept = {} THEN 0 ELSE Max(kept)
           t == Trim(s)
<1>1. Len(s) \in Nat /\ DOMAIN s = 1 .. Len(s)
  OBVIOUS
<1>2. kept # {} => m \in kept /\ \A i \in kept : i <= m
  <2>1. kept \subseteq 0 .. Len(s)
    BY <1>1
  <2> QED BY <1>1, <2>1, GreatestOf
<1>3. kept = {} => m = 0
  OBVIOUS
<1>4. t = SubSeq(s, 1, m)
  BY DEF Trim
<1> HIDE DEF m
<1>5. m \in 0 .. Len(s)
  BY <1>1, <1>2, <1>3
<1> HIDE DEF t
<1>6. t \in Seq(Nat) /\ Len(t) = m /\ \A i \in 1 .. m : t[i] = s[i]
  BY <1>1, <1>4, <1>5
<1>7. m # 0 => s[m] # Least
  BY <1>2, <1>3
<1>8. \A i \in 1 .. Len(s) : i > m => s[i] = Least
  <2> SUFFICES ASSUME NEW i \in 1 .. Len(s), i > m, s[i] # Least PROVE FALSE
    OBVIOUS
  <2>1. i \in kept
    BY <1>1
  <2>2. i <= m
    BY <1>2, <2>1
  <2> QED BY <1>5, <2>2
<1>9. Same(t, s)
  <2> SUFFICES ASSUME NEW i \in Nat \ {0} PROVE At(t, i) = At(s, i)
    BY DEF Same
  <2>1. CASE i <= m
    <3>1. i \in 1 .. m /\ i <= Len(s)
      BY <1>1, <1>5, <2>1
    <3> QED BY <1>6, <2>1, <3>1, AtGives
  <2>2. CASE i > m /\ i <= Len(s)
    <3>1. i \in 1 .. Len(s)
      BY <1>1, <2>2
    <3> QED BY <1>6, <1>8, <2>2, <3>1, AtGives
  <2>3. CASE i > Len(s)
    <3>1. i > m
      BY <1>1, <1>5, <2>3
    <3> QED BY <1>6, <2>3, <3>1, AtGives
  <2> QED BY <1>1, <1>5, <2>1, <2>2, <2>3
<1>10. t = <<>> \/ t[Len(t)] # Least
  <2>1. CASE m = 0
    BY <1>6, <2>1
  <2>2. CASE m # 0
    BY <1>5, <1>6, <1>7, <2>2
  <2> QED BY <2>1, <2>2
<1>11. m = Len(s) => t = s
  BY <1>1, <1>4
<1>12. m <= Len(s)
  BY <1>5
<1> QED BY <1>6, <1>9, <1>10, <1>11, <1>12 DEF t

LEMMA TrimDigits ==
  ASSUME NEW s \in Seq(DigitCodes)
  PROVE  Trim(s) \in Seq(DigitCodes)
<1>1. /\ Trim(s) \in Seq(Nat) /\ Len(Trim(s)) <= Len(s)
      /\ \A i \in 1 .. Len(Trim(s)) : Trim(s)[i] = s[i]
  BY DigitLists, TrimGives
<1>2. \A i \in DOMAIN Trim(s) : Trim(s)[i] \in DigitCodes
  <2> TAKE i \in DOMAIN Trim(s)
  <2>1. i \in 1 .. Len(Trim(s)) /\ i \in DOMAIN s
    BY <1>1
  <2> QED BY <1>1, <2>1
<1> QED BY <1>1, <1>2

-----------------------------------------------------------------------------
(* What the order is made of. *)
LEMMA SameIsEqual ==
  ASSUME NEW a \in Seq(Nat), NEW b \in Seq(Nat), NEW c \in Seq(Nat), NEW d \in Seq(Nat),
         Same(a, b), Same(c, d), Lower(a, c)
  PROVE  Lower(b, d)
<1>1. PICK i \in Nat \ {0} : At(a, i) < At(c, i) /\ \A j \in 1 .. i - 1 : At(a, j) = At(c, j)
  BY DEF Lower
<1>2. At(b, i) < At(d, i)
  BY <1>1 DEF Same
<1>3. \A j \in 1 .. i - 1 : At(b, j) = At(d, j)
  BY <1>1 DEF Same
<1> QED BY <1>2, <1>3 DEF Lower

LEMMA LowerTransitive ==
  ASSUME NEW a \in Seq(Nat), NEW b \in Seq(Nat), NEW c \in Seq(Nat), Lower(a, b), Lower(b, c)
  PROVE  Lower(a, c)
<1>1. PICK i \in Nat \ {0} : At(a, i) < At(b, i) /\ \A j \in 1 .. i - 1 : At(a, j) = At(b, j)
  BY DEF Lower
<1>2. PICK k \in Nat \ {0} : At(b, k) < At(c, k) /\ \A j \in 1 .. k - 1 : At(b, j) = At(c, j)
  BY DEF Lower
<1>3. \A j \in Nat \ {0} : At(a, j) \in Nat /\ At(b, j) \in Nat /\ At(c, j) \in Nat
  BY AtGives
<1>4. CASE i <= k
  <2>1. At(a, i) < At(c, i)
    <3>1. CASE i = k
      BY <1>1, <1>2, <1>3, <3>1
    <3>2. CASE i # k
      <4>1. i \in 1 .. k - 1
        BY <1>4, <3>2
      <4> QED BY <1>1, <1>2, <4>1
    <3> QED BY <3>1, <3>2
  <2>2. \A j \in 1 .. i - 1 : At(a, j) = At(c, j)
    <3> TAKE j \in 1 .. i - 1
    <3>1. j \in 1 .. k - 1
      BY <1>4
    <3> QED BY <1>1, <1>2, <3>1
  <2> QED BY <2>1, <2>2 DEF Lower
<1>5. CASE k < i
  <2>1. At(a, k) < At(c, k)
    <3>1. k \in 1 .. i - 1
      BY <1>5
    <3> QED BY <1>1, <1>2, <3>1
  <2>2. \A j \in 1 .. k - 1 : At(a, j) = At(c, j)
    <3> TAKE j \in 1 .. k - 1
    <3>1. j \in 1 .. i - 1
      BY <1>5
    <3> QED BY <1>1, <1>2, <3>1
  <2> QED BY <2>1, <2>2 DEF Lower
<1> QED BY <1>4, <1>5

(* Digits that are Below others stay so whatever is put behind either. *)
LEMMA BelowIsLower ==
  ASSUME NEW a \in Seq(Nat), NEW b \in Seq(Nat), NEW s \in Seq(Nat), NEW t \in Seq(Nat),
         Below(a, b)
  PROVE  Lower(a \o s, b \o t)
<1>1. PICK i \in 1 .. Len(a) :
        i <= Len(b) /\ a[i] < b[i] /\ \A j \in 1 .. i - 1 : a[j] = b[j]
  BY DEF Below
<1>2. i \in Nat \ {0} /\ \A j \in 1 .. i - 1 : j \in Nat \ {0} /\ j <= Len(a) /\ j <= Len(b)
  BY <1>1
<1>3. At(a \o s, i) = a[i] /\ At(b \o t, i) = b[i]
  BY <1>1, <1>2, AtConcat
<1>4. \A j \in 1 .. i - 1 : At(a \o s, j) = a[j] /\ At(b \o t, j) = b[j]
  BY <1>2, AtConcat
<1> QED BY <1>1, <1>2, <1>3, <1>4 DEF Lower

LEMMA LowerBehind ==
  ASSUME NEW s \in Seq(Nat), NEW a \in Seq(Nat), NEW b \in Seq(Nat), Lower(a, b)
  PROVE  Lower(s \o a, s \o b)
<1>1. PICK i \in Nat \ {0} : At(a, i) < At(b, i) /\ \A j \in 1 .. i - 1 : At(a, j) = At(b, j)
  BY DEF Lower
<1> DEFINE k == Len(s) + i
<1>2. k \in Nat \ {0} /\ k > Len(s) /\ k - Len(s) = i /\ Len(s) \in Nat
  OBVIOUS
<1>3. At(s \o a, k) = At(a, i) /\ At(s \o b, k) = At(b, i)
  BY <1>2, AtConcat
<1>4. ASSUME NEW j \in 1 .. k - 1 PROVE At(s \o a, j) = At(s \o b, j)
  <2>1. j \in Nat \ {0}
    OBVIOUS
  <2>2. CASE j <= Len(s)
    BY <2>1, <2>2, AtConcat
  <2>3. CASE j > Len(s)
    <3>1. j - Len(s) \in 1 .. i - 1
      BY <1>2, <2>3
    <3>2. At(s \o a, j) = At(a, j - Len(s)) /\ At(s \o b, j) = At(b, j - Len(s))
      BY <1>2, <2>1, <2>3, AtConcat
    <3> QED BY <1>1, <3>1, <3>2
  <2> QED BY <1>2, <2>1, <2>2, <2>3
<1> HIDE DEF k
<1> QED BY <1>1, <1>2, <1>3, <1>4 DEF Lower

LEMMA LowerCancels ==
  ASSUME NEW s \in Seq(Nat), NEW a \in Seq(Nat), NEW b \in Seq(Nat)
  PROVE  Lower(s \o a, s \o b) <=> Lower(a, b)
<1>1. ASSUME Lower(s \o a, s \o b) PROVE Lower(a, b)
  <2>1. PICK i \in Nat \ {0} :
          At(s \o a, i) < At(s \o b, i) /\ \A j \in 1 .. i - 1 : At(s \o a, j) = At(s \o b, j)
    BY <1>1 DEF Lower
  <2>2. Len(s) \in Nat
    OBVIOUS
  <2>3. i > Len(s)
    <3>1. ASSUME i <= Len(s) PROVE FALSE
      <4>1. At(s \o a, i) = s[i] /\ At(s \o b, i) = s[i]
        BY <3>1, AtConcat
      <4>2. i \in 1 .. Len(s)
        BY <2>2, <3>1
      <4>3. s[i] \in Nat
        BY <4>2
      <4> QED BY <2>1, <4>1, <4>3
    <3> QED BY <2>2, <3>1
  <2> DEFINE k == i - Len(s)
  <2>4. k \in Nat \ {0} /\ ~(i <= Len(s))
    BY <2>2, <2>3
  <2>5. At(a, k) < At(b, k)
    BY <2>1, <2>4, AtConcat
  <2>6. ASSUME NEW j \in 1 .. k - 1 PROVE At(a, j) = At(b, j)
    <3>1. Len(s) + j \in Nat \ {0} /\ ~(Len(s) + j <= Len(s)) /\ (Len(s) + j) - Len(s) = j
            /\ Len(s) + j \in 1 .. i - 1
      BY <2>2, <2>4
    <3>2. At(s \o a, Len(s) + j) = At(a, j) /\ At(s \o b, Len(s) + j) = At(b, j)
      BY <3>1, AtConcat
    <3> QED BY <2>1, <3>1, <3>2
  <2> QED BY <2>4, <2>5, <2>6 DEF Lower
<1> QED BY <1>1, LowerBehind

LEMMA LowerOneWay ==
  ASSUME NEW a \in Seq(Nat), NEW b \in Seq(Nat)
  PROVE  ~Lower(a, a) /\ (Lower(a, b) => ~Lower(b, a))
<1>1. \A i \in Nat \ {0} : At(a, i) \in Nat
  BY AtGives
<1>2. ~Lower(a, a)
  BY <1>1 DEF Lower
<1> QED BY <1>2, LowerTransitive

LEMMA ConcatAssociates ==
  ASSUME NEW s \in Seq(Nat), NEW t \in Seq(Nat), NEW u \in Seq(Nat)
  PROVE  (s \o t) \o u = s \o (t \o u)
BY SMTT(30)

(* Precedes of Siblings looks no further than there are digits. *)
LEMMA PrecedesIsLower ==
  ASSUME NEW a \in Seq(Nat), NEW b \in Seq(Nat)
  PROVE  Precedes(a, b) <=> Lower(a, b)
<1> DEFINE n == Max({Len(a), Len(b)})
<1>1. n \in Nat /\ Len(a) <= n /\ Len(b) <= n /\ Len(a) \in Nat /\ Len(b) \in Nat
  <2>1. Len(a) \in Int /\ Len(b) \in Int /\ Len(a) \in Nat /\ Len(b) \in Nat
    OBVIOUS
  <2>2. n = IF Len(a) >= Len(b) THEN Len(a) ELSE Len(b)
    BY <2>1, OfTwo
  <2> HIDE DEF n
  <2> QED BY <2>1, <2>2
<1>2. Precedes(a, b) <=>
        \E i \in 1 .. n : At(a, i) < At(b, i) /\ \A j \in 1 .. i - 1 : At(a, j) = At(b, j)
  BY DEF Precedes, At
<1> HIDE DEF n
<1>3. ASSUME NEW i \in Nat \ {0}, At(a, i) < At(b, i) PROVE i \in 1 .. n
  <2>1. ASSUME i > n PROVE FALSE
    <3>1. i > Len(a) /\ i > Len(b)
      BY <1>1, <2>1
    <3>2. At(a, i) = Least /\ At(b, i) = Least
      BY <3>1, AtGives
    <3> QED BY <1>3, <3>2, LeastIsNat
  <2> QED BY <1>1, <2>1
<1>4. \A i \in 1 .. n : i \in Nat \ {0}
  OBVIOUS
<1> QED BY <1>2, <1>3, <1>4 DEF Lower

-----------------------------------------------------------------------------
(* What the operations on lists of digits give. *)
LEMMA NoDigitsAreNone ==
  /\ \A s \in Seq(Nat) : s # Null /\ s # NoDigits(Equal) /\ s # NoDigits(Consecutive)
  /\ Null # NoDigits(Equal) /\ Null # NoDigits(Consecutive)
  /\ NoDigits(Equal) # NoDigits(Consecutive)
<1>1. ASSUME NEW s \in Seq(Nat), NEW why, s = <<why>> PROVE why \in Nat
  <2>1. 1 \in DOMAIN s /\ s[1] = why
    BY <1>1
  <2>2. s[1] \in Nat
    BY <2>1
  <2> QED BY <2>1, <2>2
<1>2. Out \notin Nat /\ Equal \notin Nat /\ Consecutive \notin Nat
        /\ Out # Equal /\ Out # Consecutive /\ Equal # Consecutive
  BY DEF Out, Equal, Consecutive
<1>3. \A s \in Seq(Nat) : s # Null /\ s # NoDigits(Equal) /\ s # NoDigits(Consecutive)
  BY <1>1, <1>2 DEF Null, NoDigits
<1>4. \A x, y : <<x>> = <<y>> => x = y
  OBVIOUS
<1> HIDE DEF Out, Equal, Consecutive
<1> QED BY <1>2, <1>3, <1>4 DEF Null, NoDigits

LEMMA IncrementList ==
  ASSUME NEW s \in Seq(DigitCodes), Increment(s) # Null
  PROVE  Increment(s) \in Seq(DigitCodes) /\ Below(s, Increment(s))
<1> DEFINE able == {i \in DOMAIN s : IncrementDigit(s[i], DigitRanges) # Out}
           at == Max(able)
           x == IncrementDigit(s[at], DigitRanges)
           r == Append(SubSeq(s, 1, at - 1), x)
<1>1. able # {} /\ Increment(s) = r
  BY DEF Increment
<1>2. at \in able
  <2>1. able \subseteq 0 .. Len(s) /\ Len(s) \in Nat
    OBVIOUS
  <2> QED BY <1>1, <2>1, GreatestOf
<1>3. at \in 1 .. Len(s) /\ s[at] \in DigitCodes /\ IncrementDigit(s[at], DigitRanges) # Out
  BY <1>2
<1> HIDE DEF able, at
<1>4. x \in DigitCodes /\ s[at] < x
  BY <1>3, Alphabets, IncrementGives DEF DigitCodes
<1> HIDE DEF x
<1>5. r \in Seq(DigitCodes) /\ Len(r) = at /\ r[at] = x
        /\ \A j \in 1 .. at - 1 : r[j] = s[j]
  <2>1. SubSeq(s, 1, at - 1) \in Seq(DigitCodes) /\ Len(SubSeq(s, 1, at - 1)) = at - 1
          /\ \A j \in 1 .. at - 1 : SubSeq(s, 1, at - 1)[j] = s[j]
    BY <1>3
  <2> QED BY <1>3, <1>4, <2>1
<1> HIDE DEF r
<1>6. Below(s, r)
  <2>1. at \in 1 .. Len(s) /\ at <= Len(r) /\ s[at] < r[at] /\ \A j \in 1 .. at - 1 : s[j] = r[j]
    BY <1>3, <1>4, <1>5
  <2> QED BY <2>1 DEF Below
<1> QED BY <1>1, <1>5, <1>6

(* Decrement trims what it has decremented. *)
LEMMA DecrementList ==
  ASSUME NEW s \in Seq(DigitCodes)
  PROVE  /\ Decrement(s) # Null =>
              \E u \in Seq(DigitCodes) :
                /\ Len(u) = Len(s) /\ Below(u, s) /\ Decrement(s) = Trim(u)
                /\ Len(Trim(u)) < Len(s) => \A j \in 1 .. Len(s) - 1 : u[j] = s[j]
         /\ Decrement(s) = Null => \A i \in 1 .. Len(s) : s[i] = Least
<1> DEFINE able == {i \in DOMAIN s : DecrementDigit(s[i], DigitRanges) # Out}
           at == Max(able)
           x == DecrementDigit(s[at], DigitRanges)
           u == [i \in DOMAIN s |-> IF i < at THEN s[i] ELSE IF i > at THEN Greatest ELSE x]
<1>1. Decrement(s) = IF able = {} THEN Null ELSE Trim(u)
  BY DEF Decrement
<1>2. ASSUME able # {}
      PROVE  /\ u \in Seq(DigitCodes) /\ Len(u) = Len(s) /\ Below(u, s)
             /\ Len(Trim(u)) < Len(s) => \A j \in 1 .. Len(s) - 1 : u[j] = s[j]
  <2>1. able \subseteq 0 .. Len(s) /\ Len(s) \in Nat
    OBVIOUS
  <2>2. at \in able
    BY <1>2, <2>1, GreatestOf
  <2>3. at \in 1 .. Len(s) /\ s[at] \in DigitCodes /\ x # Out
    BY <2>2
  <2> HIDE DEF able, at
  <2>4. x \in DigitCodes /\ x < s[at]
    BY <2>3, Alphabets, DecrementGives DEF DigitCodes
  <2> HIDE DEF x
  <2>5. u \in Seq(DigitCodes) /\ Len(u) = Len(s)
    <3>1. \A i \in DOMAIN s : s[i] \in DigitCodes
      OBVIOUS
    <3>2. \A i \in 1 .. Len(s) : u[i] \in DigitCodes
      BY <2>4, <3>1, DigitBounds
    <3>3. DOMAIN u = 1 .. Len(s) /\ Len(s) \in Nat
      OBVIOUS
    <3> QED BY <3>2, <3>3
  <2>6. /\ u[at] = x /\ \A j \in 1 .. at - 1 : u[j] = s[j]
        /\ \A j \in at + 1 .. Len(s) : u[j] = Greatest
    BY <2>3
  <2> HIDE DEF u
  <2>7. at \in 1 .. Len(u) /\ at <= Len(s) /\ u[at] < s[at] /\ \A j \in 1 .. at - 1 : u[j] = s[j]
    BY <2>3, <2>4, <2>5, <2>6
  <2>8. Below(u, s)
    BY <2>7 DEF Below
  <2>9. ASSUME Len(Trim(u)) < Len(s) PROVE at = Len(s)
    <3>1. u \in Seq(Nat) /\ Len(s) \in Nat \ {0} /\ Len(s) <= Len(u)
      BY <2>3, <2>5, DigitLists
    <3>2. At(Trim(u), Len(s)) = At(u, Len(s)) /\ Trim(u) \in Seq(Nat)
      BY <3>1, TrimGives DEF Same
    <3>3. u[Len(s)] = Least
      BY <2>9, <3>1, <3>2, AtGives
    <3>4. at < Len(s) => u[Len(s)] = Greatest
      BY <2>3, <2>6, <3>1
    <3> QED BY <2>3, <3>1, <3>3, <3>4, DigitBounds
  <2> QED BY <2>5, <2>6, <2>8, <2>9
<1>3. ASSUME able = {} PROVE \A i \in 1 .. Len(s) : s[i] = Least
  <2> TAKE i \in 1 .. Len(s)
  <2>1. s[i] \in DigitCodes /\ DecrementDigit(s[i], DigitRanges) = Out
    BY <1>3
  <2> QED BY <2>1, Alphabets, DecrementGives DEF DigitCodes, Least
<1>4. able # {} => Trim(u) # Null
  BY <1>2, DigitLists, TrimGives, NoDigitsAreNone
<1> HIDE DEF able, u
<1> QED BY <1>1, <1>2, <1>3, <1>4

(* What is put behind the decremented digits, and what was behind the others. *)
LEMMA DecrementedOrder ==
  ASSUME NEW s \in Seq(DigitCodes), NEW rest \in Seq(Nat), NEW bias \in Seq(Nat),
         Decrement(s) # Null
  PROVE  /\ Decrement(s) \in Seq(DigitCodes)
         /\ Lower(Decrement(s) \o bias, s \o rest) <=> ~Overtakes(s, rest, bias)
<1> DEFINE t == Decrement(s)
           n == Len(t)
           tail == Behind(s, n)
<1>1. PICK u \in Seq(DigitCodes) :
        /\ Len(u) = Len(s) /\ Below(u, s) /\ t = Trim(u)
        /\ Len(Trim(u)) < Len(s) => \A j \in 1 .. Len(s) - 1 : u[j] = s[j]
  BY DecrementList
<1>2. s \in Seq(Nat) /\ u \in Seq(Nat) /\ Len(s) \in Nat
  BY DigitLists
<1>3. /\ t \in Seq(DigitCodes) /\ t \in Seq(Nat) /\ n \in Nat /\ n <= Len(s)
      /\ n = Len(s) => t = u
      /\ \A j \in 1 .. n : t[j] = u[j]
  BY <1>1, <1>2, TrimDigits, TrimGives
<1>4. Trims(s) <=> n < Len(s)
  BY DEF Trims
<1> HIDE DEF t, n
<1>5. CASE n = Len(s)
  <2>1. Below(t, s)
    BY <1>1, <1>3, <1>5
  <2>2. Lower(t \o bias, s \o rest)
    BY <1>2, <1>3, <2>1, BelowIsLower
  <2> QED BY <1>3, <1>4, <1>5, <2>2 DEF Overtakes, t
<1>6. CASE n < Len(s)
  <2>1. \A j \in 1 .. n : t[j] = s[j]
    <3>1. \A j \in 1 .. Len(s) - 1 : u[j] = s[j]
      BY <1>1, <1>6 DEF n
    <3> QED BY <1>2, <1>3, <1>6, <3>1
  <2>2. tail \in Seq(Nat) /\ Len(tail) = Len(s) - n
          /\ \A j \in 1 .. Len(s) - n : tail[j] = s[n + j]
    BY <1>2, <1>3, <1>6, BehindGives
  <2> HIDE DEF tail
  <2>3. s = t \o tail
    <3> DEFINE v == t \o tail
    <3>1. v \in Seq(Nat) /\ Len(v) = Len(s)
      BY <1>2, <1>3, <2>2 DEF n
    <3>2. \A j \in 1 .. Len(s) : v[j] = IF j <= n THEN t[j] ELSE tail[j - n]
      BY <1>2, <1>3, <2>2 DEF n
    <3> HIDE DEF v
    <3>3. ASSUME NEW j \in 1 .. Len(s) PROVE v[j] = s[j]
      <4>1. CASE j <= n
        BY <1>3, <2>1, <3>2, <4>1
      <4>2. CASE j > n
        <5>1. j - n \in 1 .. Len(s) - n /\ n + (j - n) = j /\ ~(j <= n)
          BY <1>2, <1>3, <4>2
        <5> QED BY <2>2, <3>2, <5>1
      <4> QED BY <1>3, <4>1, <4>2
    <3>4. s = v
      <4>1. /\ s = [j \in 1 .. Len(s) |-> s[j]] /\ v = [j \in 1 .. Len(v) |-> v[j]]
        BY <1>2, <3>1
      <4> QED BY <3>1, <3>3, <4>1
    <3> QED BY <3>4 DEF v
  <2>4. (t \o tail) \o rest = t \o (tail \o rest)
    BY <1>3, <2>2, ConcatAssociates
  <2>5. tail \o rest \in Seq(Nat) /\ s \o rest = t \o (tail \o rest)
    BY <2>2, <2>3, <2>4
  <2>6. Lower(t \o bias, t \o (tail \o rest)) <=> Lower(bias, tail \o rest)
    BY <1>3, <2>5, LowerCancels
  <2>7. Precedes(bias, tail \o rest) <=> Lower(bias, tail \o rest)
    BY <2>5, PrecedesIsLower
  <2>8. Overtakes(s, rest, bias) <=> ~Precedes(bias, tail \o rest)
    BY <1>4, <1>6 DEF Overtakes, tail, n, t
  <2> QED BY <1>3, <2>5, <2>6, <2>7, <2>8 DEF t
<1> QED BY <1>2, <1>3, <1>5, <1>6

(* Intermediate finds no digits, or those of the lower list up to some digit
   from the first that differs on, and there one in between. *)
Found(low, high, r, first, at) ==
  /\ first <= at /\ Len(r) = at /\ (at <= Len(low) \/ at <= Len(high))
  /\ At(low, first) # At(high, first) /\ \A j \in 1 .. first - 1 : At(low, j) = At(high, j)
  /\ At(low, first) < At(high, first) =>
       LET middle(i) == IntermediateDigit(At(low, i), Digit(high, i, Greatest + 1), DigitRanges)
       IN  /\ \A j \in 1 .. at - 1 : r[j] = At(low, j)
           /\ r[at] = middle(at) /\ r[at] \notin {Equal, Consecutive}
           /\ \A j \in first .. at - 1 : middle(j) \in {Equal, Consecutive}

LEMMA IntermediateIs ==
  ASSUME NEW low \in Seq(DigitCodes), NEW high, high \in Seq(DigitCodes) \/ high = <<Greatest + 1>>
  PROVE  LET r == Intermediate(low, high)
         IN  \/ r = NoDigits(Equal) /\ Same(low, high)
             \/ r = NoDigits(Consecutive)
             \/ /\ r \in Seq(DigitCodes)
                /\ \E first, at \in Nat \ {0} : Found(low, high, r, first, at)
<1> DEFINE size   == Max({Len(low), Len(high)})
           differ == {i \in 1 .. size : Digit(low, i, Least) # Digit(high, i, Least)}
           first  == Min(differ)
           rising == Digit(low, first, Least) < Digit(high, first, Least)
           from   == IF rising THEN low ELSE high
           to     == IF rising THEN high ELSE low
           middle(i) == IntermediateDigit(Digit(from, i, Least), Digit(to, i, Greatest + 1),
                                          DigitRanges)
           free   == {i \in first .. size : middle(i) \notin {Equal, Consecutive}}
           at     == Min(free)
           r      == [i \in 1 .. at |-> IF i = at THEN middle(i) ELSE Digit(from, i, Least)]
<1>1. Intermediate(low, high) = IF differ = {} THEN NoDigits(Equal)
                                ELSE IF free = {} THEN NoDigits(Consecutive)
                                ELSE r
  BY DEF Intermediate
<1>2. low \in Seq(Nat) /\ high \in Seq(Nat) /\ Greatest + 1 \in Nat
  <2>1. low \in Seq(Nat) /\ Greatest + 1 \in Nat
    BY DigitLists, LeastIsNat
  <2>2. <<Greatest + 1>> \in Seq(Nat)
    BY <2>1
  <2>3. high \in Seq(DigitCodes) => high \in Seq(Nat)
    BY DigitLists
  <2> QED BY <2>1, <2>2, <2>3
<1>3. size \in Nat /\ Len(low) <= size /\ Len(high) <= size /\ (size = Len(low) \/ size = Len(high))
  <2>1. Len(low) \in Int /\ Len(high) \in Int /\ Len(low) \in Nat /\ Len(high) \in Nat
    BY <1>2
  <2>2. size = IF Len(low) >= Len(high) THEN Len(low) ELSE Len(high)
    BY <2>1, OfTwo
  <2> HIDE DEF size
  <2> QED BY <2>1, <2>2
<1> HIDE DEF size
<1>4. differ = {} => Same(low, high)
  <2> SUFFICES ASSUME differ = {}, NEW i \in Nat \ {0} PROVE At(low, i) = At(high, i)
    BY DEF Same
  <2>1. CASE i <= size
    <3>1. i \in 1 .. size
      BY <1>3, <2>1
    <3> QED BY <3>1 DEF At
  <2>2. CASE i > size
    <3>1. Len(low) \in Nat /\ Len(high) \in Nat
      BY <1>2
    <3>2. i > Len(low) /\ i > Len(high)
      BY <1>3, <2>2, <3>1
    <3> QED BY <1>2, <3>2, AtGives
  <2> QED BY <1>3, <2>1, <2>2
<1>5. ASSUME differ # {}
      PROVE  /\ first \in 1 .. size /\ At(low, first) # At(high, first)
             /\ \A j \in 1 .. first - 1 : At(low, j) = At(high, j)
  <2>1. differ \subseteq Nat
    BY <1>3
  <2>2. first \in differ /\ \A j \in differ : first <= j
    BY <1>5, <2>1, LeastOf
  <2> HIDE DEF first
  <2>3. first \in 1 .. size /\ At(low, first) # At(high, first)
    BY <2>2 DEF At
  <2>4. \A j \in 1 .. first - 1 : At(low, j) = At(high, j)
    <3> SUFFICES ASSUME NEW j \in 1 .. first - 1, At(low, j) # At(high, j) PROVE FALSE
      OBVIOUS
    <3>1. j \in 1 .. size /\ j < first
      BY <1>3, <2>3
    <3>2. j \in differ
      BY <3>1 DEF At
    <3>3. first <= j
      BY <2>2, <3>2
    <3> QED BY <1>3, <2>3, <3>1, <3>3
  <2> QED BY <2>3, <2>4
<1>6. ASSUME differ # {}, high = <<Greatest + 1>> PROVE rising
  <2>1. Len(high) = 1 /\ high[1] = Greatest + 1
    BY <1>6
  <2>2. At(high, 1) = Greatest + 1 /\ At(low, 1) \in DigitCodes
    <3>1. 1 \in Nat \ {0} /\ 1 <= Len(high)
      BY <2>1
    <3>2. At(high, 1) = high[1]
      BY <1>2, <3>1, AtGives
    <3>3. At(low, 1) \in DigitCodes
      BY <3>1, DigitLists
    <3> QED BY <2>1, <3>2, <3>3
  <2>3. At(low, 1) < At(high, 1)
    BY <2>2, DigitBounds
  <2>4. first = 1
    <3>1. ASSUME first # 1 PROVE FALSE
      <4>1. 1 \in 1 .. first - 1
        BY <1>3, <1>5, <1>6, <3>1
      <4>2. At(low, 1) = At(high, 1)
        BY <1>5, <1>6, <4>1
      <4> QED BY <2>2, <2>3, <4>2, DigitBounds
    <3> QED BY <3>1
  <2> HIDE DEF first
  <2> QED BY <2>3, <2>4 DEF At
<1>7. ASSUME differ # {}, free # {}
      PROVE  r \in Seq(DigitCodes) /\ \E f, a \in Nat \ {0} : Found(low, high, r, f, a)
  <2>1. from \in Seq(DigitCodes) /\ to \in Seq(Nat)
    BY <1>2, <1>6, <1>7
  <2>2. ASSUME NEW i \in Nat \ {0}
        PROVE  Digit(from, i, Least) \in DigitCodes /\ Digit(to, i, Greatest + 1) \in Nat
    <3> HIDE DEF from, to
    <3>1. Digit(from, i, Least) \in DigitCodes
      BY <2>1, DigitLists DEF At
    <3>2. Digit(to, i, Greatest + 1) \in Nat
      BY <1>2, <2>1 DEF Digit
    <3> QED BY <3>1, <3>2
  <2>3. first \in 1 .. size
    BY <1>5, <1>7
  <2>4. rising <=> At(low, first) < At(high, first)
    BY DEF At
  <2>5. rising => from = low /\ to = high
    OBVIOUS
  <2> HIDE DEF first, rising, from, to
  <2>6. free \subseteq Nat
    BY <1>3, <2>3
  <2>7. at \in free /\ \A j \in free : at <= j
    BY <1>7, <2>6, LeastOf
  <2> HIDE DEF at
  <2>8. at \in Nat \ {0} /\ first \in Nat \ {0} /\ first <= at /\ at <= size
          /\ middle(at) \notin {Equal, Consecutive}
    BY <1>3, <2>3, <2>7
  <2>9. \A j \in first .. at - 1 : middle(j) \in {Equal, Consecutive}
    <3> SUFFICES ASSUME NEW j \in first .. at - 1, middle(j) \notin {Equal, Consecutive}
                 PROVE  FALSE
      OBVIOUS
    <3>1. j \in first .. size /\ j < at /\ j \in Nat
      BY <1>3, <2>8
    <3>2. j \in free
      BY <3>1
    <3>3. at <= j
      BY <2>7, <3>2
    <3> QED BY <2>8, <3>1, <3>3
  <2>10. middle(at) \in DigitCodes
    <3>1. Digit(from, at, Least) \in Nat /\ Digit(to, at, Greatest + 1) \in Nat
      BY <2>2, <2>8, DigitBounds
    <3> QED BY <2>8, <3>1, Alphabets, IntermediateGives DEF DigitCodes
  <2> HIDE DEF free
  <2>11. r \in Seq(DigitCodes) /\ Len(r) = at /\ r[at] = middle(at)
           /\ \A j \in 1 .. at - 1 : r[j] = Digit(from, j, Least)
    <3> HIDE DEF middle
    <3>1. \A j \in 1 .. at : r[j] \in DigitCodes
      <4> TAKE j \in 1 .. at
      <4>1. j \in Nat \ {0}
        OBVIOUS
      <4> QED BY <2>2, <2>10, <4>1
    <3>2. DOMAIN r = 1 .. at /\ at \in Nat
      BY <2>8
    <3>3. r \in Seq(DigitCodes) /\ Len(r) = at
      BY <3>1, <3>2
    <3>4. r[at] = middle(at)
      BY <2>8
    <3>5. \A j \in 1 .. at - 1 : r[j] = Digit(from, j, Least)
      BY <2>8
    <3> QED BY <3>3, <3>4, <3>5
  <2> HIDE DEF r
  <2>12. Found(low, high, r, first, at)
    <3>1. ASSUME At(low, first) < At(high, first)
          PROVE  from = low /\ to = high
      BY <2>4, <2>5, <3>1
    <3>2. at <= Len(low) \/ at <= Len(high)
      BY <1>3, <2>8
    <3> QED BY <1>5, <1>7, <2>8, <2>9, <2>11, <3>1, <3>2 DEF Found, At
  <2> QED BY <2>8, <2>11, <2>12
<1> HIDE DEF differ, free, r
<1> QED BY <1>1, <1>4, <1>7

LEMMA NothingBetween ==
  ASSUME NEW s \in Seq(DigitCodes)
  PROVE  Intermediate(s, s) = NoDigits(Equal)
BY DEF Intermediate

(* Where the digits that are found leave the lower list: upwards, or downwards
   if the lower one has the greater digit there, behind where the two differ. *)
Leaves(low, high, r, first, at) ==
  /\ first <= at /\ Len(r) = at /\ (at <= Len(low) \/ at <= Len(high))
  /\ At(low, first) < At(high, first) /\ \A j \in 1 .. first - 1 : At(low, j) = At(high, j)
  /\ \A j \in 1 .. at - 1 : r[j] = At(low, j)
  /\ Falls(low, high) => r[at] < At(low, at) /\ Digit(high, at, Greatest + 1) < At(low, at)
  /\ ~Falls(low, high) => At(low, at) < r[at] /\ (at = first => r[at] < At(high, at))

LEMMA MiddleIs ==
  ASSUME NEW low \in Seq(DigitCodes), NEW high \in Seq(DigitCodes), Lower(low, high)
  PROVE  LET r == Intermediate(low, high)
         IN  /\ r # NoDigits(Equal)
             /\ r # NoDigits(Consecutive) =>
                  r \in Seq(DigitCodes) /\ \E first, at \in Nat \ {0} : Leaves(low, high, r, first, at)
<1> DEFINE r == Intermediate(low, high)
<1>1. low \in Seq(Nat) /\ high \in Seq(Nat) /\ Len(high) \in Nat
  BY DigitLists
<1>2. PICK i \in Nat \ {0} :
        At(low, i) < At(high, i) /\ \A j \in 1 .. i - 1 : At(low, j) = At(high, j)
  BY DEF Lower
<1>3. \A j \in Nat \ {0} : At(low, j) \in DigitCodes /\ At(high, j) \in DigitCodes
                            /\ At(low, j) \in Nat /\ At(high, j) \in Nat
  BY DigitLists, DigitBounds
<1>4. ~Same(low, high)
  BY <1>2, <1>3 DEF Same
<1>5. r # NoDigits(Equal)
  BY <1>4, IntermediateIs, NoDigitsAreNone, DigitLists
<1>6. ASSUME r # NoDigits(Consecutive)
      PROVE  r \in Seq(DigitCodes) /\ \E first, at \in Nat \ {0} : Leaves(low, high, r, first, at)
  <2>1. PICK first, at \in Nat \ {0} : r \in Seq(DigitCodes) /\ Found(low, high, r, first, at)
    BY <1>5, <1>6, IntermediateIs
  <2>2. Falls(low, high) <=> r[Len(r)] < Digit(low, Len(r), Least)
    BY <1>5, <1>6 DEF Falls
  <2> HIDE DEF r
  <2>3. /\ first <= at /\ Len(r) = at /\ At(low, first) # At(high, first)
        /\ at <= Len(low) \/ at <= Len(high)
        /\ \A j \in 1 .. first - 1 : At(low, j) = At(high, j)
    BY <2>1 DEF Found
  <2>4. first = i
    <3>1. ASSUME first < i PROVE FALSE
      <4>1. first \in 1 .. i - 1
        BY <3>1
      <4> QED BY <1>2, <2>3, <4>1
    <3>2. ASSUME i < first PROVE FALSE
      <4>1. i \in 1 .. first - 1
        BY <3>2
      <4> QED BY <1>2, <1>3, <2>3, <4>1
    <3> QED BY <3>1, <3>2
  <2> DEFINE a == At(low, at)
             b == Digit(high, at, Greatest + 1)
             c == IntermediateDigit(a, b, DigitRanges)
  <2>5. (\A j \in 1 .. at - 1 : r[j] = At(low, j)) /\ r[at] = c /\ c \notin {Equal, Consecutive}
    BY <1>2, <2>1, <2>4 DEF Found
  <2>6. a \in Nat /\ b \in Nat
    <3>1. Greatest + 1 \in Nat
      BY LeastIsNat
    <3> QED BY <1>1, <1>3, <3>1 DEF Digit
  <2>7. IntermediateDigit(b, a, DigitRanges) = c
    <3>1. {a, b} = {b, a}
      OBVIOUS
    <3> QED BY <3>1 DEF IntermediateDigit
  <2>8. a # b /\ (a < b => a < c /\ c < b)
    BY <2>5, <2>6, Alphabets, IntermediateGives
  <2>9. b < a => c < a
    BY <2>5, <2>6, <2>7, Alphabets, IntermediateGives
  <2>10. Falls(low, high) <=> c < a
    BY <2>2, <2>3, <2>5 DEF At
  <2>11. at = first => b = At(high, at)
    <3> SUFFICES ASSUME at = first PROVE b = At(high, at)
      OBVIOUS
    <3>1. at <= Len(high)
      <4>1. ASSUME at > Len(high) PROVE FALSE
        <5>1. At(high, at) = Least /\ Least <= At(low, at)
          BY <1>1, <1>3, <4>1, AtGives, DigitBounds
        <5> QED BY <1>2, <1>3, <2>4, <5>1
      <4> QED BY <1>1, <4>1
    <3>2. at \in DOMAIN high
      BY <1>1, <3>1
    <3> QED BY <3>2 DEF At, Digit
  <2>12. c \in Nat
    <3>1. c \in DigitCodes
      BY <2>5, <2>6, <2>8, Alphabets, IntermediateGives DEF DigitCodes
    <3> QED BY <3>1, DigitBounds
  <2> HIDE DEF c, b
  <2>13. c < a => b < a
    BY <2>6, <2>8, <2>12
  <2>14. ~(c < a) => a < c /\ c < b
    BY <2>6, <2>8, <2>9, <2>12
  <2>15. Falls(low, high) => r[at] < At(low, at) /\ Digit(high, at, Greatest + 1) < At(low, at)
    BY <2>5, <2>10, <2>13 DEF b
  <2>16. ~Falls(low, high) => At(low, at) < r[at] /\ (at = first => r[at] < At(high, at))
    BY <2>5, <2>10, <2>11, <2>14
  <2>17. Leaves(low, high, r, first, at)
    BY <1>2, <2>3, <2>4, <2>5, <2>15, <2>16 DEF Leaves
  <2> QED BY <2>1, <2>17
<1> QED BY <1>5, <1>6

(* Between two lists of one length: in between, or below both. *)
LEMMA MiddleDigits ==
  ASSUME NEW low \in Seq(DigitCodes), NEW high \in Seq(DigitCodes), Len(low) = Len(high),
         Lower(low, high)
  PROVE  LET r == Intermediate(low, high)
         IN  /\ r # NoDigits(Equal)
             /\ r # NoDigits(Consecutive) => r \in Seq(DigitCodes)
             /\ r # NoDigits(Consecutive) /\ Falls(low, high) => Below(r, low)
             /\ r # NoDigits(Consecutive) /\ ~Falls(low, high) => Below(low, r) /\ Below(r, high)
<1> DEFINE r == Intermediate(low, high)
<1>1. low \in Seq(Nat) /\ high \in Seq(Nat) /\ Len(low) \in Nat
  BY DigitLists
<1>2. r # NoDigits(Equal) /\ (r # NoDigits(Consecutive) => r \in Seq(DigitCodes))
  BY MiddleIs
<1>3. ASSUME r # NoDigits(Consecutive)
      PROVE  /\ Falls(low, high) => Below(r, low)
             /\ ~Falls(low, high) => Below(low, r) /\ Below(r, high)
  <2>1. PICK first, at \in Nat \ {0} : Leaves(low, high, r, first, at)
    BY <1>3, MiddleIs
  <2> HIDE DEF r
  <2>2. /\ first <= at /\ Len(r) = at /\ at <= Len(low)
        /\ At(low, first) < At(high, first) /\ \A j \in 1 .. first - 1 : At(low, j) = At(high, j)
        /\ \A j \in 1 .. at - 1 : r[j] = At(low, j)
        /\ Falls(low, high) => r[at] < At(low, at)
        /\ ~Falls(low, high) => At(low, at) < r[at] /\ (at = first => r[at] < At(high, at))
    BY <2>1 DEF Leaves
  <2>3. \A j \in 1 .. at : /\ j \in 1 .. Len(low) /\ j \in 1 .. Len(r) /\ j <= Len(high)
                           /\ j <= Len(low) /\ j <= Len(r)
                           /\ At(low, j) = low[j] /\ At(high, j) = high[j]
    <3> TAKE j \in 1 .. at
    <3>1. j \in Nat \ {0} /\ j <= Len(low) /\ j <= Len(high) /\ j <= Len(r)
      BY <1>1, <2>2
    <3>2. At(low, j) = low[j] /\ At(high, j) = high[j]
      BY <1>1, <3>1, AtGives
    <3>3. j \in 1 .. Len(low) /\ j \in 1 .. Len(r)
      BY <1>1, <2>2, <3>1
    <3> QED BY <3>1, <3>2, <3>3
  <2>4. at \in 1 .. at /\ first \in 1 .. at /\ \A j \in 1 .. at - 1 : j \in 1 .. at
          /\ \A k \in 1 .. first - 1 : k \in 1 .. at - 1
    BY <2>2
  <2>5. \A j \in 1 .. at - 1 : r[j] = low[j]
    BY <2>2, <2>3, <2>4
  <2>6. Falls(low, high) => Below(r, low)
    BY <2>2, <2>3, <2>4, <2>5 DEF Below
  <2>7. ~Falls(low, high) => Below(low, r)
    BY <2>2, <2>3, <2>4, <2>5 DEF Below
  <2>8. ASSUME ~Falls(low, high) PROVE r[first] < high[first]
    <3>1. CASE at = first
      BY <2>2, <2>3, <2>4, <2>8, <3>1
    <3>2. CASE at # first
      <4>1. first \in 1 .. at - 1
        BY <2>2, <3>2
      <4> QED BY <2>2, <2>3, <2>4, <4>1
    <3> QED BY <3>1, <3>2
  <2>9. \A j \in 1 .. first - 1 : r[j] = high[j]
    BY <2>2, <2>3, <2>4
  <2>10. ~Falls(low, high) => Below(r, high)
    BY <2>3, <2>4, <2>8, <2>9 DEF Below
  <2> QED BY <2>6, <2>7, <2>10
<1> QED BY <1>2, <1>3

(* Past a list, whatever is put behind the digits that are found. *)
LEMMA NextDigits ==
  ASSUME NEW low \in Seq(DigitCodes)
  PROVE  LET r == Intermediate(low, <<Greatest + 1>>)
         IN  /\ r # NoDigits(Equal)
             /\ r # NoDigits(Consecutive) =>
                  r \in Seq(DigitCodes) /\ \A t \in Seq(Nat) : Lower(low, r \o t)
<1> DEFINE high == <<Greatest + 1>>
           r == Intermediate(low, high)
<1>1. low \in Seq(Nat) /\ Greatest + 1 \in Nat /\ Greatest \in Nat
  BY DigitLists, LeastIsNat
<1>2. \A j \in Nat \ {0} : At(low, j) \in DigitCodes /\ At(low, j) \in Nat /\ At(low, j) <= Greatest
  BY DigitLists, DigitBounds
<1>3. At(high, 1) = Greatest + 1
  BY DEF At, Digit
<1>4. \A j \in Nat \ {0} : Digit(high, j, Greatest + 1) = Greatest + 1
  BY DEF Digit
<1> HIDE DEF high
<1>5. At(low, 1) < At(high, 1) /\ At(low, 1) # At(high, 1)
  BY <1>1, <1>2, <1>3
<1>6. ~Same(low, high)
  BY <1>5 DEF Same
<1>7. \/ r = NoDigits(Equal) /\ Same(low, high)
      \/ r = NoDigits(Consecutive)
      \/ /\ r \in Seq(DigitCodes)
         /\ \E first, at \in Nat \ {0} : Found(low, high, r, first, at)
  BY IntermediateIs DEF high
<1>8. r # NoDigits(Equal)
  BY <1>6, <1>7, NoDigitsAreNone, DigitLists
<1>9. ASSUME r # NoDigits(Consecutive), NEW t \in Seq(Nat)
      PROVE  Lower(low, r \o t)
  <2>1. PICK first, at \in Nat \ {0} : r \in Seq(DigitCodes) /\ Found(low, high, r, first, at)
    BY <1>7, <1>8, <1>9
  <2> HIDE DEF r
  <2>2. /\ first <= at /\ Len(r) = at /\ At(low, first) # At(high, first)
        /\ \A j \in 1 .. first - 1 : At(low, j) = At(high, j)
    BY <2>1 DEF Found
  <2>3. first = 1
    <3>1. ASSUME first # 1 PROVE FALSE
      <4>1. 1 \in 1 .. first - 1
        BY <3>1
      <4> QED BY <1>5, <2>2, <4>1
    <3> QED BY <3>1
  <2>4. /\ \A j \in 1 .. at - 1 : r[j] = At(low, j)
        /\ r[at] = IntermediateDigit(At(low, at), Digit(high, at, Greatest + 1), DigitRanges)
        /\ r[at] \notin {Equal, Consecutive}
    BY <1>5, <2>1, <2>3 DEF Found
  <2>5. At(low, at) < Greatest + 1
    BY <1>1, <1>2
  <2>6. At(low, at) < r[at]
    BY <1>1, <1>2, <1>4, <2>4, <2>5, Alphabets, IntermediateGives
  <2>7. r \in Seq(Nat)
    BY <2>1, DigitLists
  <2>8. At(r \o t, at) = r[at]
    BY <2>2, <2>7, AtConcat
  <2>9. \A j \in 1 .. at - 1 : At(r \o t, j) = r[j]
    <3> TAKE j \in 1 .. at - 1
    <3>1. j \in Nat \ {0} /\ j <= Len(r)
      BY <2>2
    <3> QED BY <2>7, <3>1, AtConcat
  <2> QED BY <2>4, <2>6, <2>8, <2>9 DEF Lower
<1> QED BY <1>7, <1>8, <1>9 DEF high

-----------------------------------------------------------------------------
(* Patches.  A bias is one of the biases that items have. *)
LEMMA PositiveDigits ==
  ASSUME NEW s \in Seq(DigitCodes), NEW k \in 1 .. Len(s), s[k] # Least
  PROVE  Lower(<<>>, s)
<1> DEFINE more == {i \in 1 .. Len(s) : s[i] # Least}
           i == Min(more)
<1>1. s \in Seq(Nat) /\ \A j \in 1 .. Len(s) : s[j] \in DigitCodes
  BY DigitLists
<1>2. i \in more /\ \A j \in more : i <= j
  <2>1. more \subseteq Nat /\ more # {}
    OBVIOUS
  <2> QED BY <2>1, LeastOf
<1> HIDE DEF i
<1>3. i \in 1 .. Len(s) /\ s[i] # Least /\ i \in Nat \ {0} /\ i <= Len(s)
  BY <1>2
<1>4. \A j \in 1 .. i - 1 : s[j] = Least
  <2> SUFFICES ASSUME NEW j \in 1 .. i - 1, s[j] # Least PROVE FALSE
    OBVIOUS
  <2>1. j \in more /\ j < i
    BY <1>3
  <2>2. i <= j
    BY <1>2, <2>1
  <2> QED BY <1>3, <2>1, <2>2
<1>5. \A j \in Nat \ {0} : At(<<>>, j) = Least
  BY DEF At, Digit
<1>6. At(s, i) = s[i]
  BY <1>1, <1>3, AtGives
<1>7. At(<<>>, i) < At(s, i)
  BY <1>1, <1>3, <1>5, <1>6, DigitBounds
<1>8. \A j \in 1 .. i - 1 : At(<<>>, j) = At(s, j)
  <2> TAKE j \in 1 .. i - 1
  <2>1. j \in Nat \ {0} /\ j <= Len(s)
    BY <1>3
  <2> QED BY <1>1, <1>4, <1>5, <2>1, AtGives
<1> QED BY <1>3, <1>7, <1>8 DEF Lower

LEMMA BiasFacts ==
  ASSUME NEW bias \in Biases
  PROVE  bias \in Seq(DigitCodes) /\ bias \in Seq(Nat) /\ (bias # <<>> => Lower(<<>>, bias))
<1>1. bias \in Seq(DigitCodes) /\ (bias # <<>> => Trim(bias) # <<>>)
  BY SiblingsAssumption DEF DigitCodes
<1>2. bias \in Seq(Nat)
  BY <1>1, DigitLists
<1> DEFINE t == Trim(bias)
<1>3. /\ t \in Seq(Nat) /\ Len(t) <= Len(bias) /\ \A i \in 1 .. Len(t) : t[i] = bias[i]
      /\ t = <<>> \/ t[Len(t)] # Least
  BY <1>2, TrimGives
<1> HIDE DEF t
<1>4. ASSUME t # <<>> PROVE Lower(<<>>, bias)
  <2>1. Len(t) \in 1 .. Len(t) /\ Len(t) \in 1 .. Len(bias)
    BY <1>2, <1>3, <1>4
  <2>2. bias[Len(t)] # Least
    BY <1>3, <1>4, <2>1
  <2> QED BY <1>1, <2>1, <2>2, PositiveDigits
<1> QED BY <1>1, <1>2, <1>4 DEF t

LEMMA LowerLonger ==
  ASSUME NEW s \in Seq(Nat), NEW t \in Seq(Nat), Lower(<<>>, t)
  PROVE  s \o t \in Seq(Nat) /\ Lower(s, s \o t)
<1>1. <<>> \in Seq(Nat) /\ s \o <<>> = s
  OBVIOUS
<1>2. Lower(s \o <<>>, s \o t)
  BY <1>1, LowerBehind
<1>3. s \o t \in Seq(Nat)
  OBVIOUS
<1> QED BY <1>1, <1>2, <1>3

LEMMA BiasedIs ==
  ASSUME NEW digits \in Seq(DigitCodes), NEW low, NEW high, NEW bias \in Seq(DigitCodes)
  PROVE  Biased(digits, low, high, bias) \in Seq(DigitCodes)
<1>1. \A m \in 0 .. Len(digits) : SubSeq(digits, 1, m) \in Seq(DigitCodes)
  <2> TAKE m \in 0 .. Len(digits)
  <2>1. \A i \in 1 .. m : i \in DOMAIN digits
    OBVIOUS
  <2> QED BY <2>1
<1>2. Len(digits) \in 0 .. Len(digits)
        /\ (Len(digits) \in DOMAIN low /\ Len(digits) >= 1 => Len(digits) - 1 \in 0 .. Len(digits))
  OBVIOUS
<1>3. \A m \in 0 .. Len(digits) : SubSeq(digits, 1, m) \o bias \in Seq(DigitCodes)
  BY <1>1
<1>4. SubSeq(digits, 1, Len(digits) - 1) \o bias \in Seq(DigitCodes)
  <2>1. CASE Len(digits) >= 1
    <3>1. Len(digits) - 1 \in 0 .. Len(digits)
      BY <2>1
    <3> QED BY <1>3, <3>1
  <2>2. CASE Len(digits) = 0
    <3>1. SubSeq(digits, 1, Len(digits) - 1) = <<>>
      BY <2>2
    <3> QED BY <3>1
  <2> QED BY <2>1, <2>2
<1>5. SubSeq(digits, 1, Len(digits)) \o bias \in Seq(DigitCodes)
  BY <1>2, <1>3
<1> QED BY <1>4, <1>5 DEF Biased

LEMMA IntermediatePatchIs ==
  ASSUME NEW low \in Seq(DigitCodes), NEW high, high \in Seq(DigitCodes) \/ high = <<Greatest + 1>>,
         NEW bias \in Seq(DigitCodes)
  PROVE  IntermediatePatch(low, high, bias) \in Seq(DigitCodes) \cup {Null}
<1> DEFINE digits == Intermediate(low, high)
<1>1. digits \in Seq(DigitCodes) \/ digits = NoDigits(Equal) \/ digits = NoDigits(Consecutive)
  BY IntermediateIs
<1>2. <<Median>> \in Seq(DigitCodes)
  BY MedianIsDigit
<1>3. low \o (IF bias = <<>> THEN <<Median>> ELSE bias) \in Seq(DigitCodes)
  BY <1>2
<1>4. digits \in Seq(DigitCodes) => Biased(digits, low, high, bias) \in Seq(DigitCodes)
  BY BiasedIs
<1>5. IntermediatePatch(low, high, bias)
        = IF digits = NoDigits(Equal) THEN Null
          ELSE IF digits = NoDigits(Consecutive)
               THEN low \o (IF bias = <<>> THEN <<Median>> ELSE bias)
          ELSE Biased(digits, low, high, bias)
  BY DEF IntermediatePatch
<1> HIDE DEF digits
<1> QED BY <1>1, <1>3, <1>4, <1>5

(* Between two patches, but for the lapses. *)
LEMMA ContinuedPatch ==
  ASSUME NEW low \in Seq(DigitCodes), NEW high \in Seq(DigitCodes), NEW more \in Seq(DigitCodes),
         Lower(low, high), Lower(<<>>, more)
  PROVE  /\ Lower(low, low \o more)
         /\ Lower(low \o more, high) <=>
              ~ /\ Len(low) < Len(high) /\ low = SubSeq(high, 1, Len(low))
                /\ ~Precedes(more, Behind(high, Len(low)))
<1> DEFINE n == Len(low)
           tail == Behind(high, n)
           continued == n < Len(high) /\ low = SubSeq(high, 1, n)
<1>1. /\ low \in Seq(Nat) /\ high \in Seq(Nat) /\ more \in Seq(Nat)
      /\ n \in Nat /\ Len(high) \in Nat
  BY DigitLists
<1>2. Lower(low, low \o more)
  BY <1>1, LowerLonger
<1>3. CASE continued
  <2>1. tail \in Seq(Nat) /\ Len(tail) = Len(high) - n
          /\ \A j \in 1 .. Len(high) - n : tail[j] = high[n + j]
    <3>1. n <= Len(high)
      BY <1>1, <1>3
    <3> HIDE DEF n, continued
    <3> QED BY <1>1, <3>1, BehindGives
  <2>2. \A j \in 1 .. n : low[j] = high[j]
    BY <1>1, <1>3
  <2> HIDE DEF tail
  <2> DEFINE v == low \o tail
  <2>3. v \in Seq(Nat) /\ Len(v) = Len(high)
    BY <1>1, <2>1
  <2>4. \A j \in 1 .. Len(high) : v[j] = IF j <= n THEN low[j] ELSE tail[j - n]
    BY <1>1, <2>1
  <2> HIDE DEF v
  <2>5. ASSUME NEW j \in 1 .. Len(high) PROVE v[j] = high[j]
    <3>1. CASE j <= n
      BY <1>1, <2>2, <2>4, <3>1
    <3>2. CASE j > n
      <4>1. j - n \in 1 .. Len(high) - n /\ n + (j - n) = j /\ ~(j <= n)
        BY <1>1, <3>2
      <4> QED BY <2>1, <2>4, <4>1
    <3> QED BY <1>1, <3>1, <3>2
  <2>6. high = v
    <3>1. high = [j \in 1 .. Len(high) |-> high[j]] /\ v = [j \in 1 .. Len(v) |-> v[j]]
      BY <1>1, <2>3
    <3> QED BY <2>3, <2>5, <3>1
  <2>7. Lower(low \o more, low \o tail) <=> Lower(more, tail)
    BY <1>1, <2>1, LowerCancels
  <2>8. Precedes(more, tail) <=> Lower(more, tail)
    BY <1>1, <2>1, PrecedesIsLower
  <2> QED BY <1>2, <1>3, <2>6, <2>7, <2>8 DEF v, tail
<1>4. CASE ~continued
  <2>1. PICK i \in Nat \ {0} :
          At(low, i) < At(high, i) /\ \A j \in 1 .. i - 1 : At(low, j) = At(high, j)
    BY DEF Lower
  <2>2. i <= n
    <3> SUFFICES ASSUME i > n PROVE FALSE
      BY <1>1
    <3>1. n < Len(high)
      <4>1. ASSUME i > Len(high) PROVE FALSE
        <5>1. At(low, i) = Least /\ At(high, i) = Least
          BY <1>1, <4>1, AtGives
        <5> QED BY <2>1, <5>1, LeastIsNat
      <4> QED BY <1>1, <4>1
    <3>2. \A j \in 1 .. n : low[j] = high[j]
      <4> TAKE j \in 1 .. n
      <4>1. j \in Nat \ {0} /\ j <= Len(low) /\ j <= Len(high) /\ j \in 1 .. i - 1
        BY <1>1, <3>1
      <4>2. At(low, j) = low[j] /\ At(high, j) = high[j]
        BY <1>1, <4>1, AtGives
      <4> QED BY <2>1, <4>1, <4>2
    <3> DEFINE w == SubSeq(high, 1, n)
    <3>3. w \in Seq(Nat) /\ Len(w) = n /\ \A j \in 1 .. n : w[j] = high[j]
      BY <1>1, <3>1
    <3> HIDE DEF w
    <3>4. low = [j \in 1 .. n |-> low[j]] /\ w = [j \in 1 .. n |-> w[j]]
      BY <1>1, <3>3
    <3>5. low = w
      BY <3>2, <3>3, <3>4
    <3> QED BY <1>4, <3>1, <3>5 DEF w
  <2>3. \A j \in 1 .. i : j \in Nat \ {0} /\ j <= Len(low)
    BY <1>1, <2>2
  <2>4. \A j \in 1 .. i : At(low \o more, j) = At(low, j)
    <3> TAKE j \in 1 .. i
    <3>1. At(low \o more, j) = low[j] /\ At(low, j) = low[j]
      BY <1>1, <2>3, AtConcat, AtGives
    <3> QED BY <3>1
  <2>5. i \in 1 .. i /\ \A j \in 1 .. i - 1 : j \in 1 .. i
    OBVIOUS
  <2>6. Lower(low \o more, high)
    BY <2>1, <2>4, <2>5 DEF Lower
  <2> QED BY <1>2, <1>4, <2>6
<1> QED BY <1>3, <1>4

LEMMA PatchBetween ==
  ASSUME NEW low \in Seq(DigitCodes), NEW high \in Seq(DigitCodes), NEW bias \in Biases,
         Lower(low, high)
  PROVE  LET r == IntermediatePatch(low, high, bias)
         IN  /\ r \in Seq(DigitCodes)
             /\ Lower(low, r) /\ Lower(r, high) <=> ~LapsePatch(low, high, bias)
<1> DEFINE digits == Intermediate(low, high)
           r == IntermediatePatch(low, high, bias)
           more == IF bias = <<>> THEN <<Median>> ELSE bias
<1>1. /\ low \in Seq(Nat) /\ high \in Seq(Nat) /\ Len(low) \in Nat /\ Len(high) \in Nat
      /\ bias \in Seq(DigitCodes) /\ bias \in Seq(Nat) /\ (bias # <<>> => Lower(<<>>, bias))
  BY DigitLists, BiasFacts
<1>2. more \in Seq(DigitCodes) /\ Lower(<<>>, more)
  <2>1. <<Median>> \in Seq(DigitCodes) /\ 1 \in 1 .. Len(<<Median>>) /\ <<Median>>[1] # Least
    BY MedianIsDigit
  <2>2. Lower(<<>>, <<Median>>)
    BY <2>1, PositiveDigits
  <2> QED BY <1>1, <2>1, <2>2
<1>3. digits # NoDigits(Equal)
        /\ (digits # NoDigits(Consecutive) => digits \in Seq(DigitCodes)
              /\ \E first, at \in Nat \ {0} : Leaves(low, high, digits, first, at))
  BY MiddleIs
<1>4. r = IF digits = NoDigits(Consecutive) THEN low \o more
          ELSE Biased(digits, low, high, bias)
  BY <1>3 DEF IntermediatePatch
<1>5. LapsePatch(low, high, bias) <=>
        \/ Falls(low, high)
        \/ /\ digits = NoDigits(Consecutive)
           /\ Len(low) < Len(high) /\ low = SubSeq(high, 1, Len(low))
           /\ ~Precedes(more, Behind(high, Len(low)))
  BY DEF LapsePatch
<1>6. Falls(low, high) => digits # NoDigits(Consecutive)
  BY DEF Falls
<1>7. r \in Seq(DigitCodes)
  BY <1>1, <1>2, <1>3, <1>4, BiasedIs
<1> HIDE DEF digits, r, more
<1>8. CASE digits = NoDigits(Consecutive)
  <2>1. r = low \o more
    BY <1>4, <1>8
  <2>2. Lower(low, low \o more)
         /\ (Lower(low \o more, high) <=>
              ~ /\ Len(low) < Len(high) /\ low = SubSeq(high, 1, Len(low))
                /\ ~Precedes(more, Behind(high, Len(low))))
    BY <1>2, ContinuedPatch
  <2> QED BY <1>5, <1>6, <1>7, <1>8, <2>1, <2>2 DEF r
<1>9. CASE digits # NoDigits(Consecutive)
  <2>1. PICK first, at \in Nat \ {0} : digits \in Seq(DigitCodes) /\ Leaves(low, high, digits, first, at)
    BY <1>3, <1>9
  <2>2. /\ first <= at /\ Len(digits) = at
        /\ At(low, first) < At(high, first) /\ \A j \in 1 .. first - 1 : At(low, j) = At(high, j)
        /\ \A j \in 1 .. at - 1 : digits[j] = At(low, j)
        /\ Falls(low, high) => digits[at] < At(low, at) /\ Digit(high, at, Greatest + 1) < At(low, at)
        /\ ~Falls(low, high) => At(low, at) < digits[at] /\ (at = first => digits[at] < At(high, at))
    BY <2>1 DEF Leaves
  <2> DEFINE fits == /\ at \in DOMAIN low /\ at \in DOMAIN high
                     /\ low[at] < Head(bias) /\ Head(bias) < high[at]
  <2>3. r = IF bias = <<>> THEN digits
            ELSE SubSeq(digits, 1, IF fits THEN at - 1 ELSE at) \o bias
    BY <1>4, <1>9, <2>2 DEF Biased
  <2>4. digits \in Seq(Nat) /\ \A j \in 1 .. at : j \in Nat \ {0} /\ j <= Len(digits)
    BY <2>1, <2>2, DigitLists
  <2>5. at \in 1 .. at /\ first \in 1 .. at /\ (at # first => first \in 1 .. at - 1)
          /\ (\A j \in 1 .. at - 1 : j \in 1 .. at) /\ (\A j \in 1 .. first - 1 : j \in 1 .. at - 1)
    BY <2>2
  <2>6. ASSUME NEW t \in Seq(Nat)
        PROVE  /\ digits \o t \in Seq(Nat)
               /\ Falls(low, high) => Lower(digits \o t, low)
               /\ ~Falls(low, high) => Lower(low, digits \o t) /\ Lower(digits \o t, high)
    <3>1. \A j \in 1 .. at : At(digits \o t, j) = digits[j]
      BY <2>4, AtConcat
    <3>2. \A j \in 1 .. at - 1 : At(digits \o t, j) = At(low, j)
      BY <2>2, <2>5, <3>1
    <3>3. Falls(low, high) => Lower(digits \o t, low)
      BY <2>2, <2>5, <3>1, <3>2 DEF Lower
    <3>4. ~Falls(low, high) => Lower(low, digits \o t)
      BY <2>2, <2>5, <3>1, <3>2 DEF Lower
    <3>5. ASSUME ~Falls(low, high) PROVE At(digits \o t, first) < At(high, first)
      <4>1. CASE at = first
        BY <2>2, <2>5, <3>1, <3>5, <4>1
      <4>2. CASE at # first
        BY <2>2, <2>5, <3>2, <4>2
      <4> QED BY <4>1, <4>2
    <3>6. \A j \in 1 .. first - 1 : At(digits \o t, j) = At(high, j)
      BY <2>2, <2>5, <3>2
    <3>7. ~Falls(low, high) => Lower(digits \o t, high)
      BY <3>5, <3>6 DEF Lower
    <3>8. digits \o t \in Seq(Nat)
      BY <2>4
    <3> QED BY <3>3, <3>4, <3>7, <3>8
  <2>7. LapsePatch(low, high, bias) <=> Falls(low, high)
    BY <1>5, <1>9
  <2>8. ASSUME NEW t \in Seq(Nat), r = digits \o t
        PROVE  Lower(low, r) /\ Lower(r, high) <=> ~Falls(low, high)
    <3>1. Falls(low, high) => ~Lower(low, r)
      BY <1>1, <2>6, <2>8, LowerOneWay
    <3> QED BY <2>6, <2>8, <3>1
  <2>9. CASE bias = <<>>
    <3>1. <<>> \in Seq(Nat) /\ r = digits \o <<>>
      BY <2>3, <2>4, <2>9
    <3> QED BY <1>7, <2>7, <2>8, <3>1 DEF r
  <2>10. CASE bias # <<>> /\ ~fits
    <3>1. SubSeq(digits, 1, at) = digits
      BY <2>2, <2>4
    <3>2. r = digits \o bias
      BY <2>3, <2>10, <3>1
    <3> QED BY <1>1, <1>7, <2>7, <2>8, <3>2 DEF r
  <2>11. CASE bias # <<>> /\ fits
    <3> DEFINE s == SubSeq(digits, 1, at - 1)
    <3>1. s \in Seq(Nat) /\ Len(s) = at - 1 /\ \A j \in 1 .. at - 1 : s[j] = digits[j]
      BY <2>2, <2>4
    <3>2. r = s \o bias
      BY <2>3, <2>11
    <3> HIDE DEF s
    <3>3. At(low, at) = low[at] /\ At(high, at) = high[at] /\ Digit(high, at, Greatest + 1) = high[at]
      BY <2>11 DEF At, Digit
    <3>4. Head(bias) = bias[1] /\ bias[1] \in Nat /\ 1 <= Len(bias)
      BY <1>1, <2>11
    <3>5. low[at] \in Nat /\ high[at] \in Nat
      BY <1>1, <2>11
    <3>6. ~Falls(low, high)
      <4>1. low[at] < high[at]
        BY <2>11, <3>4, <3>5
      <4> QED BY <2>2, <3>3, <3>5, <4>1
    <3>7. At(r, at) = bias[1]
      <4>1. At(s \o bias, at) = IF at <= Len(s) THEN s[at] ELSE At(bias, at - Len(s))
        BY <1>1, <3>1, AtConcat
      <4>2. ~(at <= Len(s)) /\ at - Len(s) = 1
        BY <3>1
      <4>3. At(bias, 1) = bias[1]
        BY <1>1, <3>4, AtGives
      <4> QED BY <3>2, <4>1, <4>2, <4>3
    <3>8. \A j \in 1 .. at - 1 : At(r, j) = At(low, j)
      <4> TAKE j \in 1 .. at - 1
      <4>1. j \in Nat \ {0} /\ j <= Len(s)
        BY <3>1
      <4>2. At(s \o bias, j) = s[j]
        BY <1>1, <3>1, <4>1, AtConcat
      <4> QED BY <2>2, <3>1, <3>2, <4>2
    <3>9. Lower(low, r)
      BY <2>11, <3>3, <3>4, <3>7, <3>8 DEF Lower
    <3>10. At(r, first) < At(high, first)
      <4>1. CASE at = first
        BY <2>11, <3>3, <3>4, <3>7, <4>1
      <4>2. CASE at # first
        BY <2>2, <2>5, <3>8, <4>2
      <4> QED BY <4>1, <4>2
    <3>11. \A j \in 1 .. first - 1 : At(r, j) = At(high, j)
      BY <2>2, <2>5, <3>8
    <3>12. Lower(r, high)
      BY <3>10, <3>11 DEF Lower
    <3> QED BY <1>7, <2>7, <3>6, <3>9, <3>12 DEF r
  <2> QED BY <2>9, <2>10, <2>11
<1> QED BY <1>8, <1>9

(* There is always a next patch, and it comes behind. *)
LEMMA NextPatchAbove ==
  ASSUME NEW patch \in Seq(DigitCodes), NEW bias \in Biases
  PROVE  NextPatch(patch, bias) \in Seq(DigitCodes) /\ Lower(patch, NextPatch(patch, bias))
<1> DEFINE high == <<Greatest + 1>>
           digits == Intermediate(patch, high)
           next == IntermediatePatch(patch, high, bias)
<1>1. bias \in Seq(DigitCodes) /\ bias \in Seq(Nat) /\ patch \in Seq(Nat)
        /\ (bias # <<>> => Lower(<<>>, bias))
  BY BiasFacts, DigitLists
<1>2. digits # NoDigits(Equal)
  BY NextDigits
<1>3. ASSUME digits # NoDigits(Consecutive)
      PROVE  digits \in Seq(DigitCodes) /\ \A t \in Seq(Nat) : Lower(patch, digits \o t)
  BY <1>3, NextDigits
<1>4. next \in Seq(DigitCodes) \cup {Null}
  BY <1>1, IntermediatePatchIs
<1>5. next = IF digits = NoDigits(Equal) THEN Null
             ELSE IF digits = NoDigits(Consecutive)
                  THEN patch \o (IF bias = <<>> THEN <<Median>> ELSE bias)
             ELSE Biased(digits, patch, high, bias)
  BY DEF IntermediatePatch
<1>6. high \in Seq(Nat) /\ Len(high) = 1
  <2>1. Greatest + 1 \in Nat
    BY LeastIsNat
  <2> QED BY <2>1
<1>7. ASSUME digits = NoDigits(Consecutive)
      PROVE  next \in Seq(Nat) /\ Lower(patch, next)
  <2>1. CASE bias = <<>>
    <3>1. <<Median>> \in Seq(DigitCodes) /\ 1 \in 1 .. Len(<<Median>>) /\ <<Median>>[1] # Least
      BY MedianIsDigit
    <3>2. Lower(<<>>, <<Median>>) /\ <<Median>> \in Seq(Nat)
      BY <3>1, PositiveDigits, DigitLists
    <3>3. next = patch \o <<Median>>
      BY <1>2, <1>5, <1>7, <2>1
    <3>4. patch \o <<Median>> \in Seq(Nat) /\ Lower(patch, patch \o <<Median>>)
      BY <1>1, <3>2, LowerLonger
    <3> HIDE DEF next
    <3> QED BY <3>3, <3>4
  <2>2. CASE bias # <<>>
    <3>1. next = patch \o bias
      BY <1>2, <1>5, <1>7, <2>2
    <3> HIDE DEF next
    <3> QED BY <1>1, <2>2, <3>1, LowerLonger
  <2> QED BY <2>1, <2>2
<1> HIDE DEF next, digits
<1>8. ASSUME digits # NoDigits(Consecutive)
      PROVE  next \in Seq(Nat) /\ Lower(patch, next)
  <2> DEFINE at   == Len(digits)
             fits == /\ at \in DOMAIN patch /\ at \in DOMAIN high
                     /\ patch[at] < Head(bias) /\ Head(bias) < high[at]
  <2>1. next = Biased(digits, patch, high, bias)
    BY <1>2, <1>5, <1>8
  <2>2. next = IF bias = <<>> THEN digits
               ELSE SubSeq(digits, 1, IF fits THEN at - 1 ELSE at) \o bias
    BY <2>1 DEF Biased
  <2>3. digits \in Seq(DigitCodes) /\ digits \in Seq(Nat)
    BY <1>3, <1>8, DigitLists
  <2>4. CASE bias = <<>>
    <3>1. <<>> \in Seq(Nat) /\ digits \o <<>> = digits
      BY <2>3
    <3> QED BY <1>3, <1>8, <2>2, <2>3, <2>4, <3>1
  <2>5. CASE bias # <<>> /\ ~fits
    <3>1. SubSeq(digits, 1, at) = digits
      BY <2>3
    <3>2. next = digits \o bias
      BY <2>2, <2>5, <3>1
    <3> QED BY <1>1, <1>3, <1>8, <2>3, <3>2
  <2>6. CASE bias # <<>> /\ fits
    <3>1. at = 1 /\ 1 \in DOMAIN patch
      <4>1. DOMAIN high = {1}
        BY <1>6
      <4> HIDE DEF high, at
      <4>2. at = 1
        BY <2>6, <4>1
      <4> QED BY <2>6, <4>2
    <3>2. SubSeq(digits, 1, 0) \o bias = bias
      BY <1>1, <2>3
    <3>3. next = bias
      BY <2>2, <2>6, <3>1, <3>2
    <3>4. Head(bias) = bias[1] /\ patch[1] < bias[1]
      BY <1>1, <2>6, <3>1
    <3>5. Below(patch, bias)
      <4>1. 1 \in 1 .. Len(patch) /\ 1 <= Len(bias) /\ \A j \in 1 .. 1 - 1 : patch[j] = bias[j]
        BY <1>1, <2>6, <3>1
      <4> QED BY <3>4, <4>1 DEF Below
    <3>6. <<>> \in Seq(Nat) /\ patch \o <<>> = patch /\ bias \o <<>> = bias
      BY <1>1
    <3>7. Lower(patch, bias)
      BY <1>1, <3>5, <3>6, BelowIsLower
    <3> QED BY <1>1, <3>3, <3>7
  <2> QED BY <2>4, <2>5, <2>6
<1>9. next \in Seq(Nat) /\ Lower(patch, next)
  BY <1>7, <1>8
<1>10. next # Null
  BY <1>9, NoDigitsAreNone
<1>11. NextPatch(patch, bias) = next
  BY <1>10 DEF NextPatch, next
<1> QED BY <1>4, <1>9, <1>10, <1>11

LEMMA IncrementPatchAbove ==
  ASSUME NEW patch \in Seq(DigitCodes), NEW bias \in Biases
  PROVE  /\ IncrementPatch(patch, bias) \in Seq(DigitCodes)
         /\ Lower(patch, IncrementPatch(patch, bias)) <=> ~LapseIncrement(patch, bias)
<1> DEFINE digits == Increment(patch)
           r == IncrementPatch(patch, bias)
<1>1. bias \in Seq(DigitCodes) /\ bias \in Seq(Nat) /\ patch \in Seq(Nat)
  BY BiasFacts, DigitLists
<1>2. digits # Null => digits \in Seq(DigitCodes) /\ Below(patch, digits)
  BY IncrementList
<1>3. r = IF digits = Null THEN Append(patch, Median)
          ELSE IF bias = <<>> THEN digits
          ELSE IF Head(bias) >= digits[1] THEN bias
          ELSE digits \o bias
  BY DEF IncrementPatch
<1>6. LapseIncrement(patch, bias) <=>
        bias # <<>> /\ digits # Null /\ Head(bias) >= digits[1] /\ ~Precedes(patch, bias)
  BY DEF LapseIncrement
<1>7. Precedes(patch, bias) <=> Lower(patch, bias)
  BY <1>1, PrecedesIsLower
<1> HIDE DEF digits, r
<1>4. CASE digits = Null
  <2>1. r = patch \o <<Median>>
    BY <1>3, <1>4
  <2>2. <<Median>> \in Seq(DigitCodes) /\ 1 \in 1 .. Len(<<Median>>) /\ <<Median>>[1] # Least
    BY MedianIsDigit
  <2>3. Lower(<<>>, <<Median>>) /\ <<Median>> \in Seq(Nat)
    BY <2>2, PositiveDigits, DigitLists
  <2>4. Lower(patch, patch \o <<Median>>)
    BY <1>1, <2>3, LowerLonger
  <2>5. patch \o <<Median>> \in Seq(DigitCodes)
    BY <2>2
  <2> QED BY <1>4, <1>6, <2>1, <2>4, <2>5 DEF r
<1>5. CASE digits # Null
  <2>1. r \in Seq(DigitCodes)
    BY <1>1, <1>2, <1>3, <1>5
  <2>2. digits \in Seq(Nat)
    BY <1>2, <1>5, DigitLists
  <2>3. Lower(patch, digits) /\ Lower(patch, digits \o bias)
    <3>1. <<>> \in Seq(Nat) /\ patch \o <<>> = patch /\ digits \o <<>> = digits
      BY <1>1, <2>2
    <3> QED BY <1>1, <1>2, <1>5, <2>2, <3>1, BelowIsLower
  <2>4. CASE bias = <<>> \/ ~(Head(bias) >= digits[1])
    BY <1>3, <1>5, <1>6, <2>1, <2>3, <2>4 DEF r
  <2>5. CASE bias # <<>> /\ Head(bias) >= digits[1]
    BY <1>3, <1>5, <1>6, <1>7, <2>1, <2>5 DEF r
  <2> QED BY <2>4, <2>5
<1> QED BY <1>4, <1>5

(* A patch that can be decremented is more than none; one that is trimmed is,
   if it is any, and to a lower one, but for the lapse. *)
LEMMA DecrementPatchBelow ==
  ASSUME NEW patch \in Seq(DigitCodes), NEW bias \in Seq(DigitCodes)
  PROVE  /\ DecrementPatch(patch, bias) \in Seq(DigitCodes) \cup {Null}
         /\ DecrementPatch(patch, bias) # Null => Lower(<<>>, patch)
         /\ patch # <<>> /\ patch[Len(patch)] # Least => DecrementPatch(patch, bias) # Null
         /\ DecrementPatch(patch, bias) # Null =>
              (Lower(DecrementPatch(patch, bias), patch) <=> ~LapseDecrement(patch, bias))
<1> DEFINE fewer  == Decrement(patch)
           digits == IF fewer = Null THEN ShortenedPatch(patch) ELSE fewer
           r == DecrementPatch(patch, bias)
           kept == {i \in 2 .. Len(patch) : patch[i] # Least}
<1>1. patch \in Seq(Nat) /\ Len(patch) \in Nat /\ \A i \in 1 .. Len(patch) : patch[i] \in DigitCodes
  BY DigitLists
<1>2. ASSUME fewer # Null
      PROVE  fewer \in Seq(DigitCodes) /\ Lower(fewer, patch) /\ Lower(<<>>, patch)
  <2>1. PICK u \in Seq(DigitCodes) : Len(u) = Len(patch) /\ Below(u, patch) /\ fewer = Trim(u)
    BY <1>2, DecrementList
  <2>2. fewer \in Seq(DigitCodes) /\ Same(fewer, u) /\ u \in Seq(Nat) /\ fewer \in Seq(Nat)
    BY <2>1, TrimDigits, TrimGives, DigitLists
  <2>3. <<>> \in Seq(Nat) /\ u \o <<>> = u /\ patch \o <<>> = patch
    BY <1>1, <2>2
  <2>4. Lower(u, patch)
    BY <1>1, <2>1, <2>2, <2>3, BelowIsLower
  <2>5. Same(u, fewer) /\ Same(patch, patch)
    BY <2>2 DEF Same
  <2>6. Lower(fewer, patch)
    BY <1>1, <2>2, <2>4, <2>5, SameIsEqual
  <2>7. PICK i \in 1 .. Len(u) : i <= Len(patch) /\ u[i] < patch[i]
    BY <2>1 DEF Below
  <2>8. i \in 1 .. Len(patch) /\ u[i] \in DigitCodes /\ patch[i] \in DigitCodes
    BY <1>1, <2>1, <2>7
  <2>9. patch[i] # Least
    BY <2>7, <2>8, DigitBounds
  <2> QED BY <2>2, <2>6, <2>8, <2>9, PositiveDigits
<1>3. ASSUME fewer = Null PROVE \A i \in 1 .. Len(patch) : patch[i] = Least
  BY <1>3, DecrementList
<1>4. ASSUME fewer = Null PROVE ShortenedPatch(patch) = Null
  <2>1. kept = {}
    BY <1>3, <1>4
  <2> QED BY <2>1 DEF ShortenedPatch
<1>5. r = IF digits = Null THEN Null
          ELSE IF bias = <<>> THEN digits
          ELSE IF digits # <<>> /\ Head(bias) <= digits[1] THEN bias
          ELSE digits \o bias
  BY DEF DecrementPatch
<1>6. digits = fewer
  BY <1>4
<1> DEFINE replaced == fewer # <<>> /\ Head(bias) <= fewer[1]
<1>7. LapseDecrement(patch, bias) <=>
        /\ bias # <<>> /\ fewer # Null
        /\ replaced => ~Precedes(bias, patch)
        /\ ~replaced => Overtakes(patch, <<>>, bias)
  BY DEF LapseDecrement
<1>8. bias \in Seq(Nat) /\ <<>> \in Seq(Nat) /\ patch \o <<>> = patch
  BY <1>1, DigitLists
<1>9. fewer # Null => (Lower(fewer \o bias, patch \o <<>>) <=> ~Overtakes(patch, <<>>, bias))
  BY <1>8, DecrementedOrder
<1>10. Precedes(bias, patch) <=> Lower(bias, patch)
  BY <1>1, <1>8, PrecedesIsLower
<1> HIDE DEF r, digits, fewer
<1>11. r \in Seq(DigitCodes) \cup {Null}
  BY <1>2, <1>5, <1>6
<1>12. r # Null => fewer # Null
  BY <1>5, <1>6
<1>13. ASSUME patch # <<>>, patch[Len(patch)] # Least
       PROVE  r # Null
  <2>1. Len(patch) \in 1 .. Len(patch)
    BY <1>1, <1>13
  <2>2. fewer # Null
    BY <1>3, <1>13, <2>1
  <2>3. fewer \in Seq(DigitCodes)
    BY <1>2, <2>2
  <2>4. fewer \o bias \in Seq(DigitCodes)
    BY <2>3
  <2>5. \A s \in Seq(DigitCodes) : s # Null
    BY DigitLists, NoDigitsAreNone
  <2> QED BY <1>5, <1>6, <2>2, <2>3, <2>4, <2>5
<1>14. ASSUME r # Null
       PROVE  Lower(r, patch) <=> ~LapseDecrement(patch, bias)
  <2>1. fewer # Null /\ fewer \in Seq(DigitCodes)
    BY <1>2, <1>12, <1>14
  <2>2. CASE bias = <<>>
    BY <1>2, <1>5, <1>6, <1>7, <2>1, <2>2
  <2>3. CASE bias # <<>> /\ replaced
    BY <1>5, <1>6, <1>7, <1>10, <2>1, <2>3
  <2>4. CASE bias # <<>> /\ ~replaced
    BY <1>5, <1>6, <1>7, <1>8, <1>9, <2>1, <2>4
  <2> QED BY <2>2, <2>3, <2>4
<1> QED BY <1>2, <1>11, <1>12, <1>13, <1>14 DEF r

-----------------------------------------------------------------------------
(* Keys: the parts of one, and what is created of parts. *)
WellFormed(k) ==
  /\ k \in Seq(Nat) /\ Len(k) >= 1
  /\ Major(k) \in Codes(MajorRanges)
  /\ \A j \in 2 .. Len(k) : k[j] \in DigitCodes
  /\ k[Len(k)] # Least \/ Len(k) = 1

Joined(major, minor, patch) == <<major>> \o (minor \o patch)

LEMMA MajorsAreNat == \A m \in Codes(MajorRanges) : m \in Nat /\ Capacity(m) \in Nat
<1> TAKE m \in Codes(MajorRanges)
<1>1. m \in Nat
  BY Alphabets, CodeBounds
<1>2. MajorRanges[1][2] \in Nat /\ MajorRanges[2][1] \in Nat
  <2>1. 1 \in DOMAIN MajorRanges /\ 2 \in DOMAIN MajorRanges
    BY Alphabets, RangeFacts
  <2> QED BY <2>1, Alphabets, RangeFacts
<1>3. Capacity(m) \in Nat
  BY <1>1, <1>2 DEF Capacity
<1> QED BY <1>1, <1>3

LEMMA SameBehind ==
  ASSUME NEW s \in Seq(Nat), NEW a \in Seq(Nat), NEW b \in Seq(Nat), Same(a, b)
  PROVE  Same(s \o a, s \o b)
<1> SUFFICES ASSUME NEW i \in Nat \ {0} PROVE At(s \o a, i) = At(s \o b, i)
  BY DEF Same
<1>1. Len(s) \in Nat
  OBVIOUS
<1>2. CASE i <= Len(s)
  BY <1>2, AtConcat
<1>3. CASE i > Len(s)
  <2>1. i - Len(s) \in Nat \ {0} /\ ~(i <= Len(s))
    BY <1>1, <1>3
  <2>2. At(s \o a, i) = At(a, i - Len(s)) /\ At(s \o b, i) = At(b, i - Len(s))
    BY <2>1, AtConcat
  <2> QED BY <2>1, <2>2 DEF Same
<1> QED BY <1>1, <1>2, <1>3

LEMMA PartsOf ==
  ASSUME NEW p, WellFormed(p)
  PROVE  /\ Minor(p) \in Seq(DigitCodes) /\ Len(Minor(p)) = Capacity(Major(p))
         /\ Patch(p) \in Seq(DigitCodes)
         /\ Patch(p) = <<>> \/ Patch(p)[Len(Patch(p))] # Least
         /\ Same(p, Joined(Major(p), Minor(p), Patch(p)))
<1> DEFINE c == Capacity(Major(p))
           minor == Minor(p)
           patch == Patch(p)
<1>1. /\ p \in Seq(Nat) /\ Len(p) \in Nat /\ Len(p) >= 1 /\ DOMAIN p = 1 .. Len(p)
      /\ \A j \in 2 .. Len(p) : p[j] \in DigitCodes
      /\ p[Len(p)] # Least \/ Len(p) = 1
  BY DEF WellFormed
<1>2. c \in Nat /\ Major(p) \in Nat /\ Major(p) = p[1]
  BY MajorsAreNat DEF WellFormed, Major
<1>3. minor = [i \in 1 .. c |-> Digit(p, i + 1, Least)]
  BY DEF Minor
<1>4. patch = SubSeq(p, c + 2, Len(p))
  BY DEF Patch
<1> HIDE DEF c, minor, patch
<1>5. \A i \in 1 .. c : Digit(p, i + 1, Least) \in DigitCodes
  <2> TAKE i \in 1 .. c
  <2>1. i + 1 \in DOMAIN p => i + 1 \in 2 .. Len(p)
    BY <1>1, <1>2
  <2> QED BY <1>1, <2>1, DigitBounds DEF Digit
<1>6. minor \in Seq(DigitCodes) /\ Len(minor) = c /\ minor \in Seq(Nat)
        /\ \A i \in 1 .. c : minor[i] = At(p, i + 1)
  <2>1. minor \in Seq(DigitCodes) /\ Len(minor) = c
    BY <1>2, <1>3, <1>5
  <2> QED BY <1>3, <2>1, DigitLists DEF At
<1>7. /\ patch \in Seq(DigitCodes) /\ (patch = <<>> \/ patch[Len(patch)] # Least)
      /\ \A i \in Nat \ {0} : At(patch, i) = At(p, i + (c + 1))
  <2>1. CASE c + 2 <= Len(p)
    <3>1. Len(patch) = Len(p) - (c + 1) /\ Len(patch) \in Nat /\ Len(patch) >= 1
            /\ \A i \in 1 .. Len(patch) : patch[i] = p[i + (c + 1)]
      BY <1>1, <1>2, <1>4, <2>1
    <3>2. \A i \in 1 .. Len(patch) : patch[i] \in DigitCodes
      <4> TAKE i \in 1 .. Len(patch)
      <4>1. i + (c + 1) \in 2 .. Len(p)
        BY <1>1, <1>2, <3>1
      <4> QED BY <1>1, <3>1, <4>1
    <3>3. patch \in Seq(DigitCodes)
      <4>1. 1 <= c + 2 /\ c + 2 \in Nat /\ Len(p) <= Len(p)
        BY <1>1, <1>2
      <4>2. patch \in Seq(Nat)
        BY <1>1, <1>4, <4>1
      <4> QED BY <3>2, <4>2
    <3>4. patch[Len(patch)] # Least
      <4>1. patch[Len(patch)] = p[Len(p)]
        <5>1. Len(patch) \in 1 .. Len(patch) /\ Len(patch) + (c + 1) = Len(p)
          BY <1>1, <1>2, <3>1
        <5> QED BY <3>1, <5>1
      <4>2. Len(p) # 1
        BY <1>1, <1>2, <2>1
      <4> QED BY <1>1, <4>1, <4>2
    <3>5. ASSUME NEW i \in Nat \ {0} PROVE At(patch, i) = At(p, i + (c + 1))
      <4>1. patch \in Seq(Nat)
        BY <3>3, DigitLists
      <4>2. i + (c + 1) \in Nat \ {0}
        BY <1>2
      <4>3. CASE i <= Len(patch)
        <5>1. i \in 1 .. Len(patch) /\ i + (c + 1) <= Len(p)
          BY <1>1, <1>2, <3>1, <4>3
        <5>2. At(patch, i) = patch[i] /\ At(p, i + (c + 1)) = p[i + (c + 1)]
          BY <1>1, <4>1, <4>2, <4>3, <5>1, AtGives
        <5> QED BY <3>1, <5>1, <5>2
      <4>4. CASE i > Len(patch)
        <5>1. i + (c + 1) > Len(p)
          BY <1>1, <1>2, <3>1, <4>4
        <5> QED BY <1>1, <4>1, <4>2, <4>4, <5>1, AtGives
      <4> QED BY <3>1, <4>3, <4>4
    <3> QED BY <3>3, <3>4, <3>5
  <2>2. CASE c + 2 > Len(p)
    <3>1. patch = <<>>
      BY <1>1, <1>2, <1>4, <2>2
    <3>2. \A i \in Nat \ {0} : At(patch, i) = Least
      BY <3>1 DEF At, Digit
    <3>3. ASSUME NEW i \in Nat \ {0} PROVE At(p, i + (c + 1)) = Least
      <4>1. i + (c + 1) \in Nat \ {0} /\ i + (c + 1) > Len(p)
        BY <1>1, <1>2, <2>2
      <4> QED BY <1>1, <4>1, AtGives
    <3> QED BY <3>1, <3>2, <3>3
  <2> QED BY <1>1, <1>2, <2>1, <2>2
<1> DEFINE rest == minor \o patch
<1>8. patch \in Seq(Nat) /\ minor \in Seq(Nat) /\ rest \in Seq(Nat) /\ <<p[1]>> \in Seq(Nat)
        /\ Len(<<p[1]>>) = 1
  BY <1>1, <1>2, <1>6, <1>7, DigitLists
<1>9. ASSUME NEW i \in Nat \ {0} PROVE At(rest, i) = At(p, i + 1)
  <2>1. At(rest, i) = IF i <= Len(minor) THEN minor[i] ELSE At(patch, i - Len(minor))
    BY <1>8, AtConcat
  <2>2. CASE i <= c
    <3>1. i \in 1 .. c
      BY <1>2, <2>2
    <3> QED BY <1>6, <2>1, <2>2, <3>1
  <2>3. CASE i > c
    <3>1. i - c \in Nat \ {0} /\ ~(i <= c) /\ (i - c) + (c + 1) = i + 1
      BY <1>2, <2>3
    <3> QED BY <1>6, <1>7, <2>1, <3>1
  <2> QED BY <1>2, <2>2, <2>3
<1> HIDE DEF rest
<1>10. Same(p, <<p[1]>> \o rest)
  <2> SUFFICES ASSUME NEW i \in Nat \ {0} PROVE At(p, i) = At(<<p[1]>> \o rest, i)
    BY DEF Same
  <2>1. At(<<p[1]>> \o rest, i) = IF i <= 1 THEN <<p[1]>>[i] ELSE At(rest, i - 1)
    BY <1>8, AtConcat
  <2>2. CASE i = 1
    <3>1. At(p, i) = p[1]
      BY <1>1, <2>2, AtGives
    <3> QED BY <2>1, <2>2, <3>1
  <2>3. CASE i # 1
    <3>1. i - 1 \in Nat \ {0} /\ (i - 1) + 1 = i /\ ~(i <= 1)
      BY <2>3
    <3> QED BY <1>9, <2>1, <3>1
  <2> QED BY <2>2, <2>3
<1>11. Same(p, Joined(Major(p), minor, patch))
  BY <1>2, <1>10 DEF Joined, rest
<1> QED BY <1>6, <1>7, <1>11 DEF c, minor, patch

(* The digits that Create trims are implied. *)
LEMMA CreateIs ==
  ASSUME NEW major \in Codes(MajorRanges), NEW minor \in Seq(DigitCodes),
         NEW patch \in Seq(DigitCodes)
  PROVE  /\ WellFormed(Create(major, minor, patch))
         /\ Same(Create(major, minor, patch), Joined(major, minor, patch))
         /\ Joined(major, minor, patch) \in Seq(Nat)
<1> DEFINE rest == Trim(patch)
           kept == IF rest = <<>> THEN Trim(minor) ELSE minor
           k == Create(major, minor, patch)
<1>1. minor \in Seq(Nat) /\ patch \in Seq(Nat) /\ major \in Nat /\ <<major>> \in Seq(Nat)
  BY DigitLists, MajorsAreNat
<1>2. /\ rest \in Seq(DigitCodes) /\ rest \in Seq(Nat) /\ Same(rest, patch)
      /\ rest = <<>> \/ rest[Len(rest)] # Least
  BY <1>1, TrimGives, TrimDigits
<1>3. /\ kept \in Seq(DigitCodes) /\ kept \in Seq(Nat) /\ Same(kept, minor)
      /\ rest = <<>> => kept = <<>> \/ kept[Len(kept)] # Least
      /\ rest # <<>> => kept = minor
  BY <1>1, TrimGives, TrimDigits DEF Same
<1>4. k = (<<major>> \o kept) \o rest
  BY DEF Create
<1> HIDE DEF rest, kept
<1> DEFINE tail == kept \o rest
<1>5. k = <<major>> \o tail /\ tail \in Seq(DigitCodes) /\ tail \in Seq(Nat)
  <2>1. tail \in Seq(DigitCodes)
    BY <1>2, <1>3
  <2> QED BY <1>1, <1>2, <1>3, <1>4, <2>1, ConcatAssociates, DigitLists
<1>6. tail = <<>> \/ tail[Len(tail)] # Least
  <2>1. CASE rest = <<>>
    <3>1. tail = kept
      BY <1>3, <2>1
    <3> QED BY <1>3, <2>1, <3>1
  <2>2. CASE rest # <<>>
    <3>1. Len(tail) = Len(kept) + Len(rest) /\ Len(rest) >= 1 /\ Len(kept) \in Nat /\ Len(rest) \in Nat
      BY <1>2, <1>3, <2>2
    <3>2. tail[Len(tail)] = rest[Len(rest)]
      BY <1>2, <1>3, <3>1
    <3> QED BY <1>2, <2>2, <3>2
  <2> QED BY <2>1, <2>2
<1>7. Same(tail, minor \o patch)
  <2>1. CASE rest = <<>>
    <3>1. tail = kept /\ minor \o <<>> = minor /\ <<>> \in Seq(Nat)
      BY <1>1, <1>3, <2>1
    <3>2. Same(minor \o <<>>, minor \o patch)
      BY <1>1, <1>2, <2>1, <3>1, SameBehind
    <3> QED BY <1>3, <3>1, <3>2 DEF Same
  <2>2. CASE rest # <<>>
    <3>1. Same(minor \o rest, minor \o patch)
      BY <1>1, <1>2, SameBehind
    <3> QED BY <1>3, <2>2, <3>1
  <2> QED BY <2>1, <2>2
<1> HIDE DEF tail
<1>8. WellFormed(k)
  <2>1. Len(tail) \in Nat /\ Len(k) = Len(tail) + 1 /\ k \in Seq(Nat) /\ k[1] = major
          /\ \A j \in 2 .. Len(tail) + 1 : k[j] = tail[j - 1]
    BY <1>1, <1>5
  <2>2. \A j \in 2 .. Len(k) : k[j] \in DigitCodes
    <3> TAKE j \in 2 .. Len(k)
    <3>1. j - 1 \in 1 .. Len(tail) /\ k[j] = tail[j - 1]
      BY <2>1
    <3> QED BY <1>5, <3>1
  <2>3. k[Len(k)] # Least \/ Len(k) = 1
    <3>1. CASE tail = <<>>
      BY <2>1, <3>1
    <3>2. CASE tail # <<>>
      <4>1. Len(tail) >= 1
        BY <1>5, <3>2
      <4>2. k[Len(k)] = tail[Len(tail)]
        BY <2>1, <4>1
      <4> QED BY <1>6, <3>2, <4>2
    <3> QED BY <3>1, <3>2
  <2> HIDE DEF k
  <2>4. Len(k) >= 1 /\ Major(k) = major
    BY <2>1 DEF Major
  <2> QED BY <2>1, <2>2, <2>3, <2>4 DEF WellFormed
<1>9. minor \o patch \in Seq(Nat) /\ Joined(major, minor, patch) \in Seq(Nat)
  BY <1>1 DEF Joined
<1>10. Same(k, Joined(major, minor, patch))
  BY <1>1, <1>5, <1>7, <1>9, SameBehind DEF Joined
<1> QED BY <1>8, <1>9, <1>10

(* Keys sort as their digits compare: no digit behind a key is more than none. *)
LEMMA SortsIsLower ==
  ASSUME NEW a, NEW b, WellFormed(a), WellFormed(b)
  PROVE  Sorts(a, b) <=> Lower(a, b)
<1>1. /\ a \in Seq(Nat) /\ Len(a) \in Nat /\ Len(a) >= 1 /\ DOMAIN a = 1 .. Len(a)
      /\ b \in Seq(Nat) /\ Len(b) \in Nat /\ Len(b) >= 1 /\ DOMAIN b = 1 .. Len(b)
      /\ \A j \in 2 .. Len(a) : a[j] \in DigitCodes
      /\ \A j \in 2 .. Len(b) : b[j] \in DigitCodes
      /\ b[Len(b)] # Least \/ Len(b) = 1
  BY DEF WellFormed
<1>2. ASSUME NEW i \in DOMAIN a \cap DOMAIN b, a[i] < b[i], \A j \in 1 .. i - 1 : a[j] = b[j]
      PROVE  Lower(a, b)
  <2>1. i \in Nat \ {0} /\ i <= Len(a) /\ i <= Len(b)
    BY <1>1
  <2>2. \A j \in 1 .. i - 1 : j \in Nat \ {0} /\ j <= Len(a) /\ j <= Len(b)
    BY <1>1, <2>1
  <2>3. At(a, i) = a[i] /\ At(b, i) = b[i] /\ \A j \in 1 .. i - 1 : At(a, j) = a[j] /\ At(b, j) = b[j]
    BY <1>1, <2>1, <2>2, AtGives
  <2> QED BY <1>2, <2>1, <2>3 DEF Lower
<1>3. ASSUME Len(a) < Len(b), \A i \in DOMAIN a : a[i] = b[i]
      PROVE  Lower(a, b)
  <2> DEFINE D == {j \in 2 .. Len(b) : Len(a) < j /\ b[j] # Least}
             i == Min(D)
  <2>1. Len(b) \in D /\ D \subseteq Nat
    <3>1. Len(b) # 1 /\ Len(b) \in 2 .. Len(b) /\ Len(a) < Len(b)
      BY <1>1, <1>3
    <3>2. b[Len(b)] # Least
      BY <1>1, <3>1
    <3>3. D \subseteq 2 .. Len(b) /\ 2 .. Len(b) \subseteq Nat
      BY <1>1
    <3> QED BY <3>1, <3>2, <3>3
  <2>2. i \in D /\ \A j \in D : i <= j
    BY <2>1, LeastOf
  <2> HIDE DEF i
  <2>3. i \in Nat \ {0} /\ i \in 2 .. Len(b) /\ i <= Len(b) /\ Len(a) < i /\ b[i] # Least
    BY <1>1, <2>2
  <2>4. At(a, i) = Least /\ At(b, i) = b[i] /\ b[i] \in DigitCodes
    BY <1>1, <2>3, AtGives
  <2>5. At(a, i) < At(b, i)
    BY <2>3, <2>4, DigitBounds
  <2>6. ASSUME NEW j \in 1 .. i - 1 PROVE At(a, j) = At(b, j)
    <3>1. j \in Nat \ {0} /\ j <= Len(b)
      BY <1>1, <2>3
    <3>2. At(b, j) = b[j]
      BY <1>1, <3>1, AtGives
    <3>3. CASE j <= Len(a)
      <4>1. At(a, j) = a[j]
        BY <1>1, <3>1, <3>3, AtGives
      <4>2. j \in DOMAIN a
        BY <1>1, <3>1, <3>3
      <4> QED BY <1>3, <3>2, <4>1, <4>2
    <3>4. CASE Len(a) < j
      <4>1. At(a, j) = Least
        BY <1>1, <3>1, <3>4, AtGives
      <4>2. j \in 2 .. Len(b) /\ ~(i <= j)
        BY <1>1, <2>3, <3>1, <3>4
      <4>3. b[j] = Least
        BY <2>2, <3>4, <4>2
      <4> QED BY <3>2, <4>1, <4>3
    <3> QED BY <1>1, <3>1, <3>3, <3>4
  <2> QED BY <2>3, <2>5, <2>6 DEF Lower
<1>4. ASSUME Lower(a, b) PROVE Sorts(a, b)
  <2>1. PICK i \in Nat \ {0} : At(a, i) < At(b, i) /\ \A j \in 1 .. i - 1 : At(a, j) = At(b, j)
    BY <1>4 DEF Lower
  <2>2. i <= Len(b)
    <3>1. ASSUME i > Len(b) PROVE FALSE
      <4>1. At(b, i) = Least
        BY <1>1, <3>1, AtGives
      <4>2. i > Len(a) => At(a, i) = Least
        BY <1>1, AtGives
      <4>3. i <= Len(a) => At(a, i) \in DigitCodes
        <5>1. i <= Len(a) => At(a, i) = a[i] /\ i \in 2 .. Len(a)
          BY <1>1, <3>1, AtGives
        <5> QED BY <1>1, <5>1
      <4>4. At(a, i) \in DigitCodes
        BY <1>1, <4>2, <4>3, DigitBounds
      <4> QED BY <2>1, <4>1, <4>4, DigitBounds
    <3> QED BY <1>1, <3>1
  <2>3. At(b, i) = b[i] /\ \A j \in 1 .. i - 1 : At(b, j) = b[j]
    <3>1. \A j \in 1 .. i - 1 : j \in Nat \ {0} /\ j <= Len(b)
      BY <1>1, <2>2
    <3> QED BY <1>1, <2>2, <3>1, AtGives
  <2>4. CASE i <= Len(a)
    <3>1. \A j \in 1 .. i - 1 : j \in Nat \ {0} /\ j <= Len(a)
      BY <1>1, <2>4
    <3>2. At(a, i) = a[i] /\ \A j \in 1 .. i - 1 : At(a, j) = a[j]
      BY <1>1, <2>4, <3>1, AtGives
    <3>3. i \in DOMAIN a \cap DOMAIN b
      BY <1>1, <2>2, <2>4
    <3> QED BY <2>1, <2>3, <3>2, <3>3 DEF Sorts
  <2>5. CASE i > Len(a)
    <3>1. \A j \in 1 .. Len(a) : j \in 1 .. i - 1 /\ j \in Nat \ {0}
      BY <1>1, <2>5
    <3>2. \A j \in 1 .. Len(a) : At(a, j) = a[j]
      <4> TAKE j \in 1 .. Len(a)
      <4>1. j \in Nat \ {0} /\ j <= Len(a)
        BY <1>1
      <4> QED BY <1>1, <4>1, AtGives
    <3>3. \A j \in DOMAIN a : a[j] = b[j]
      BY <1>1, <2>1, <2>3, <3>1, <3>2
    <3>4. Len(a) < Len(b)
      BY <1>1, <2>2, <2>5
    <3> QED BY <3>3, <3>4 DEF Sorts
  <2> QED BY <1>1, <2>4, <2>5
<1> QED BY <1>2, <1>3, <1>4 DEF Sorts

LEMMA JoinedOrder ==
  ASSUME NEW m \in Nat, NEW n \in Nat, NEW x \in Seq(Nat), NEW y \in Seq(Nat),
         NEW u \in Seq(Nat), NEW v \in Seq(Nat)
  PROVE  /\ Joined(m, x, y) \in Seq(Nat)
         /\ m < n => Lower(Joined(m, x, y), Joined(n, u, v))
         /\ Below(x, u) => Lower(Joined(m, x, y), Joined(m, u, v))
         /\ Lower(x \o y, u \o v) <=> Lower(Joined(m, x, y), Joined(m, u, v))
         /\ Lower(y, v) <=> Lower(Joined(m, x, y), Joined(m, x, v))
<1>1. <<m>> \in Seq(Nat) /\ <<n>> \in Seq(Nat) /\ x \o y \in Seq(Nat) /\ u \o v \in Seq(Nat)
        /\ x \o v \in Seq(Nat)
  OBVIOUS
<1>2. ASSUME m < n PROVE Below(<<m>>, <<n>>)
  <2>1. 1 \in 1 .. Len(<<m>>) /\ 1 <= Len(<<n>>) /\ <<m>>[1] < <<n>>[1]
          /\ \A j \in 1 .. 1 - 1 : <<m>>[j] = <<n>>[j]
    BY <1>2
  <2> QED BY <2>1 DEF Below
<1>3. m < n => Lower(<<m>> \o (x \o y), <<n>> \o (u \o v))
  BY <1>1, <1>2, BelowIsLower
<1>4. Below(x, u) => Lower(x \o y, u \o v)
  BY BelowIsLower
<1>5. Lower(x \o y, u \o v) <=> Lower(<<m>> \o (x \o y), <<m>> \o (u \o v))
  BY <1>1, LowerCancels
<1>6. Lower(y, v) <=> Lower(x \o y, x \o v)
  BY LowerCancels
<1>7. Lower(x \o y, x \o v) <=> Lower(<<m>> \o (x \o y), <<m>> \o (x \o v))
  BY <1>1, LowerCancels
<1>8. <<m>> \o (x \o y) \in Seq(Nat)
  BY <1>1
<1> QED BY <1>3, <1>4, <1>5, <1>6, <1>7, <1>8 DEF Joined

(* A key and one that is created compare as their parts. *)
LEMMA CreatedOrder ==
  ASSUME NEW p, WellFormed(p), NEW m \in Codes(MajorRanges),
         NEW x \in Seq(DigitCodes), NEW y \in Seq(DigitCodes)
  PROVE  LET q == Joined(Major(p), Minor(p), Patch(p))
             k == Create(m, x, y)
         IN  /\ WellFormed(k)
             /\ Lower(q, Joined(m, x, y)) <=> Lower(p, k)
             /\ Lower(Joined(m, x, y), q) <=> Lower(k, p)
<1> DEFINE q == Joined(Major(p), Minor(p), Patch(p))
           k == Create(m, x, y)
           j == Joined(m, x, y)
<1>1. WellFormed(k) /\ Same(k, j) /\ j \in Seq(Nat)
  BY CreateIs
<1>2. Same(p, q)
  BY PartsOf
<1>3. q \in Seq(Nat)
  <2>1. Major(p) \in Nat /\ Minor(p) \in Seq(Nat) /\ Patch(p) \in Seq(Nat)
    BY PartsOf, MajorsAreNat, DigitLists DEF WellFormed
  <2> QED BY <2>1, JoinedOrder
<1>4. p \in Seq(Nat) /\ k \in Seq(Nat)
  BY <1>1 DEF WellFormed
<1>5. Same(j, k) /\ Same(q, p)
  BY <1>1, <1>2 DEF Same
<1> HIDE DEF q, k, j
<1>6. Lower(q, j) <=> Lower(p, k)
  BY <1>1, <1>2, <1>3, <1>4, <1>5, SameIsEqual
<1>7. Lower(j, q) <=> Lower(k, p)
  BY <1>1, <1>2, <1>3, <1>4, <1>5, SameIsEqual
<1> QED BY <1>1, <1>6, <1>7 DEF q, k, j

LEMMA FilledIs ==
  ASSUME NEW n \in Nat, NEW d \in DigitCodes
  PROVE  Filled(n, d) \in Seq(DigitCodes)
BY DEF Filled

LEMMA AtHead ==
  ASSUME NEW m \in Nat, NEW t \in Seq(Nat)
  PROVE  /\ At(<<m>> \o t, 1) = m
         /\ \A j \in Nat \ {0} : j # 1 => At(<<m>> \o t, j) = At(t, j - 1)
<1> DEFINE s == <<m>>
<1>1. s \in Seq(Nat) /\ Len(s) = 1 /\ s[1] = m
  OBVIOUS
<1> HIDE DEF s
<1>2. At(s \o t, 1) = s[1]
  <2>1. \A i \in Nat \ {0} : i <= Len(s) => At(s \o t, i) = s[i]
    BY <1>1, AtConcat
  <2>2. 1 \in Nat \ {0} /\ 1 <= Len(s)
    BY <1>1
  <2> QED BY <2>1, <2>2
<1>3. ASSUME NEW j \in Nat \ {0}, j # 1 PROVE At(s \o t, j) = At(t, j - 1)
  <2>1. ~(j <= Len(s))
    BY <1>1, <1>3
  <2> QED BY <1>1, <2>1, AtConcat
<1> QED BY <1>1, <1>2, <1>3 DEF s

(* Keys compare by their majors, or else by the digits behind. *)
LEMMA MajorsCompare ==
  ASSUME NEW p, NEW q, WellFormed(p), WellFormed(q), Lower(p, q)
  PROVE  /\ Major(p) <= Major(q)
         /\ Major(p) = Major(q) /\ Minor(p) # Minor(q) =>
              Below(Minor(p), Minor(q)) /\ Lower(Minor(p), Minor(q))
<1> DEFINE a == Joined(Major(p), Minor(p), Patch(p))
           b == Joined(Major(q), Minor(q), Patch(q))
           x == Minor(p)
           u == Minor(q)
           y == Patch(p)
           v == Patch(q)
<1>1. /\ Major(p) \in Nat /\ x \in Seq(Nat) /\ y \in Seq(Nat)
      /\ Len(x) = Capacity(Major(p)) /\ Same(p, a) /\ p \in Seq(Nat)
  BY PartsOf, MajorsAreNat, DigitLists DEF WellFormed
<1>2. /\ Major(q) \in Nat /\ u \in Seq(Nat) /\ v \in Seq(Nat)
      /\ Len(u) = Capacity(Major(q)) /\ Same(q, b) /\ q \in Seq(Nat)
  BY PartsOf, MajorsAreNat, DigitLists DEF WellFormed
<1>3. /\ a \in Seq(Nat) /\ b \in Seq(Nat)
      /\ x \o y \in Seq(Nat) /\ u \o v \in Seq(Nat)
  BY <1>1, <1>2, JoinedOrder
<1>4. a = <<Major(p)>> \o (x \o y) /\ b = <<Major(q)>> \o (u \o v)
  BY DEF Joined
<1> HIDE DEF a, b, x, u, y, v
<1>5. Lower(a, b)
  BY <1>1, <1>2, <1>3, SameIsEqual
<1>6. PICK i \in Nat \ {0} : At(a, i) < At(b, i) /\ \A j \in 1 .. i - 1 : At(a, j) = At(b, j)
  BY <1>5 DEF Lower
<1>7. At(a, 1) = Major(p) /\ At(b, 1) = Major(q)
  BY <1>1, <1>2, <1>3, <1>4, AtHead
<1>8. Major(p) <= Major(q)
  <2>1. CASE i = 1
    BY <1>1, <1>2, <1>6, <1>7, <2>1
  <2>2. CASE i # 1
    <3>1. 1 \in 1 .. i - 1
      BY <1>6, <2>2
    <3> QED BY <1>1, <1>2, <1>6, <1>7, <3>1
  <2> QED BY <2>1, <2>2
<1>9. ASSUME Major(p) = Major(q), x # u PROVE Below(x, u) /\ Lower(x, u)
  <2>1. i # 1
    BY <1>1, <1>2, <1>6, <1>7, <1>9
  <2>2. \A j \in Nat \ {0} : j # 1 => At(a, j) = At(x \o y, j - 1) /\ At(b, j) = At(u \o v, j - 1)
    <3>1. \A j \in Nat \ {0} : j # 1 => At(<<Major(p)>> \o (x \o y), j) = At(x \o y, j - 1)
      BY <1>1, <1>3, AtHead, Zenon
    <3>2. \A j \in Nat \ {0} : j # 1 => At(<<Major(q)>> \o (u \o v), j) = At(u \o v, j - 1)
      BY <1>2, <1>3, AtHead, Zenon
    <3> QED BY <1>4, <3>1, <3>2, Zenon
  <2> DEFINE k == i - 1
  <2>3. k \in Nat \ {0}
    BY <1>6, <2>1
  <2>4. At(x \o y, k) < At(u \o v, k)
    BY <1>6, <2>1, <2>2
  <2>5. ASSUME NEW j \in 1 .. k - 1 PROVE At(x \o y, j) = At(u \o v, j)
    <3>1. j + 1 \in 1 .. i - 1 /\ j + 1 \in Nat \ {0} /\ j + 1 # 1 /\ (j + 1) - 1 = j
      BY <1>6
    <3> QED BY <1>6, <2>2, <3>1
  <2> HIDE DEF k
  <2>6. Len(x) = Len(u) /\ Len(x) \in Nat
    BY <1>1, <1>2, <1>9
  <2>7. k <= Len(x)
    <3>1. ASSUME k > Len(x) PROVE FALSE
      <4>1. \A j \in 1 .. Len(x) : j \in 1 .. k - 1 /\ j \in Nat \ {0} /\ j <= Len(x) /\ j <= Len(u)
        BY <2>3, <2>6, <3>1
      <4>2. \A j \in 1 .. Len(x) : x[j] = u[j]
        <5> TAKE j \in 1 .. Len(x)
        <5>1. At(x \o y, j) = x[j] /\ At(u \o v, j) = u[j]
          BY <1>1, <1>2, <4>1, AtConcat
        <5> QED BY <2>5, <4>1, <5>1
      <4>3. x = u
        BY <1>1, <1>2, <2>6, <4>2
      <4> QED BY <1>9, <4>3
    <3> QED BY <2>3, <2>6, <3>1
  <2>8. k \in 1 .. Len(x) /\ k <= Len(u)
    BY <2>3, <2>6, <2>7
  <2>9. x[k] < u[k]
    BY <1>1, <1>2, <2>3, <2>4, <2>7, <2>8, AtConcat
  <2>10. \A j \in 1 .. k - 1 : x[j] = u[j]
    <3> TAKE j \in 1 .. k - 1
    <3>1. j \in Nat \ {0} /\ j <= Len(x) /\ j <= Len(u)
      BY <2>3, <2>6, <2>7
    <3>2. At(x \o y, j) = x[j] /\ At(u \o v, j) = u[j]
      BY <1>1, <1>2, <3>1, AtConcat
    <3> QED BY <2>5, <3>2
  <2>11. \A j \in 1 .. k - 1 : j \in Nat \ {0} /\ j <= Len(x) /\ j <= Len(u)
    BY <2>3, <2>6, <2>7
  <2>12. At(x, k) < At(u, k)
    BY <1>1, <1>2, <2>3, <2>7, <2>8, <2>9, AtGives
  <2>13. \A j \in 1 .. k - 1 : At(x, j) = At(u, j)
    <3> TAKE j \in 1 .. k - 1
    <3>1. At(x, j) = x[j] /\ At(u, j) = u[j]
      BY <1>1, <1>2, <2>11, AtGives
    <3> QED BY <2>10, <3>1
  <2>14. Lower(x, u)
    BY <2>3, <2>12, <2>13 DEF Lower
  <2>15. Below(x, u)
    BY <2>8, <2>9, <2>10 DEF Below
  <2> QED BY <2>14, <2>15
<1> QED BY <1>8, <1>9 DEF x, u

(* After: behind any key, but for the lapse at the upper end; that is one. *)
LEMMA AfterIs ==
  ASSUME NEW p, WellFormed(p), NEW bias \in Biases
  PROVE  /\ WellFormed(After(bias, p))
         /\ Lower(p, After(bias, p)) <=> ~LapseAfter(bias, p)
<1> DEFINE minor == Increment(Minor(p))
           major == IncrementDigit(Major(p), MajorRanges)
           q == Joined(Major(p), Minor(p), Patch(p))
<1>1. /\ Major(p) \in Codes(MajorRanges) /\ Major(p) \in Nat
      /\ Minor(p) \in Seq(DigitCodes) /\ Patch(p) \in Seq(DigitCodes)
      /\ Minor(p) \in Seq(Nat) /\ Patch(p) \in Seq(Nat)
  BY PartsOf, MajorsAreNat, DigitLists DEF WellFormed
<1>2. bias \in Seq(DigitCodes) /\ bias \in Seq(Nat)
  BY BiasFacts
<1>3. CASE minor # Null
  <2>1. minor \in Seq(DigitCodes) /\ Below(Minor(p), minor)
    BY <1>1, <1>3, IncrementList
  <2>2. minor \in Seq(Nat)
    BY <2>1, DigitLists
  <2>3. After(bias, p) = Create(Major(p), minor, bias)
    BY <1>3 DEF After
  <2>4. Lower(q, Joined(Major(p), minor, bias))
    BY <1>1, <1>2, <2>1, <2>2, JoinedOrder
  <2>5. ~LapseAfter(bias, p)
    BY <1>3 DEF LapseAfter
  <2> HIDE DEF minor
  <2> QED BY <1>1, <1>2, <2>1, <2>3, <2>4, <2>5, CreatedOrder
<1>4. CASE minor = Null /\ major # Out
  <2> DEFINE zeros == Filled(Capacity(major), Least)
  <2>1. major \in Codes(MajorRanges) /\ Major(p) < major
    BY <1>1, <1>4, Alphabets, IncrementGives
  <2>2. major \in Nat /\ zeros \in Seq(DigitCodes)
    BY <2>1, MajorsAreNat, FilledIs, DigitBounds
  <2>3. After(bias, p) = Create(major, zeros, bias)
    BY <1>4 DEF After
  <2>6. ~LapseAfter(bias, p)
    BY <1>4 DEF LapseAfter
  <2> HIDE DEF zeros, major
  <2>4. zeros \in Seq(Nat)
    BY <2>2, DigitLists
  <2>5. Lower(q, Joined(major, zeros, bias))
    BY <1>1, <1>2, <2>1, <2>2, <2>4, JoinedOrder
  <2> QED BY <1>1, <1>2, <2>1, <2>2, <2>3, <2>5, <2>6, CreatedOrder
<1>5. CASE minor = Null /\ major = Out
  <2> DEFINE patch == IncrementPatch(Patch(p), bias)
  <2>1. /\ patch \in Seq(DigitCodes)
        /\ Lower(Patch(p), patch) <=> ~LapseIncrement(Patch(p), bias)
    BY <1>1, IncrementPatchAbove
  <2>2. patch \in Seq(Nat)
    BY <2>1, DigitLists
  <2>3. After(bias, p) = Create(Major(p), Minor(p), patch)
    BY <1>5 DEF After
  <2> HIDE DEF patch
  <2>4. ~LapseAfter(bias, p) <=> Lower(Patch(p), patch)
    BY <1>5, <2>1 DEF LapseAfter
  <2>5. Lower(Patch(p), patch) <=> Lower(q, Joined(Major(p), Minor(p), patch))
    BY <1>1, <2>2, JoinedOrder
  <2> QED BY <1>1, <2>1, <2>3, <2>4, <2>5, CreatedOrder
<1> QED BY <1>3, <1>4, <1>5

(* A key that ends in no least digit is not trimmed. *)
LEMMA TrimmedAlready ==
  ASSUME NEW s \in Seq(Nat), s # <<>>, s[Len(s)] # Least
  PROVE  Trim(s) = s
<1> DEFINE t == Trim(s)
           n == Len(s)
<1>1. t \in Seq(Nat) /\ Len(t) <= n /\ Same(t, s) /\ (Len(t) = n => t = s)
  BY TrimGives
<1>2. n \in Nat \ {0} /\ Len(t) \in Nat
  BY <1>1
<1>3. At(t, n) = At(s, n)
  BY <1>1, <1>2 DEF Same
<1>4. At(s, n) = s[n]
  BY <1>2, AtGives
<1> HIDE DEF t, n
<1>5. n > Len(t) => At(t, n) = Least
  BY <1>1, <1>2, AtGives
<1>6. ~(n > Len(t))
  BY <1>3, <1>4, <1>5 DEF n
<1> QED BY <1>1, <1>2, <1>6 DEF t

(* The decremented minor, with a bias behind it. *)
LEMMA DecrementedBelow ==
  ASSUME NEW p, WellFormed(p), NEW bias \in Biases, Decrement(Minor(p)) # Null
  PROVE  LET minor == Decrement(Minor(p))
         IN  /\ minor \in Seq(DigitCodes)
             /\ Lower(Joined(Major(p), minor, bias), Joined(Major(p), Minor(p), Patch(p)))
                  <=> ~Overtakes(Minor(p), Patch(p), bias)
<1> DEFINE minor == Decrement(Minor(p))
<1>1. /\ Major(p) \in Nat /\ Minor(p) \in Seq(DigitCodes)
      /\ Minor(p) \in Seq(Nat) /\ Patch(p) \in Seq(Nat)
  BY PartsOf, MajorsAreNat, DigitLists DEF WellFormed
<1>2. bias \in Seq(Nat)
  BY BiasFacts
<1>3. /\ minor \in Seq(DigitCodes) /\ minor \in Seq(Nat)
      /\ Lower(minor \o bias, Minor(p) \o Patch(p)) <=> ~Overtakes(Minor(p), Patch(p), bias)
  BY <1>1, <1>2, DecrementedOrder, DigitLists
<1> HIDE DEF minor
<1>4. Lower(minor \o bias, Minor(p) \o Patch(p)) <=>
        Lower(Joined(Major(p), minor, bias), Joined(Major(p), Minor(p), Patch(p)))
  BY <1>1, <1>2, <1>3, JoinedOrder
<1> QED BY <1>3, <1>4 DEF minor

(* Before: in front of any key, but for the lapses; those are some. *)
LEMMA BeforeIs ==
  ASSUME NEW p, WellFormed(p), NEW bias \in Biases
  PROVE  /\ WellFormed(Before(bias, p))
         /\ Lower(Before(bias, p), p) <=> ~LapseBefore(bias, p)
<1> DEFINE minor == Decrement(Minor(p))
           major == DecrementDigit(Major(p), MajorRanges)
           patch == DecrementPatch(Patch(p), bias)
           q == Joined(Major(p), Minor(p), Patch(p))
<1>1. /\ Major(p) \in Codes(MajorRanges) /\ Major(p) \in Nat
      /\ Minor(p) \in Seq(DigitCodes) /\ Patch(p) \in Seq(DigitCodes)
      /\ Minor(p) \in Seq(Nat) /\ Patch(p) \in Seq(Nat)
      /\ Patch(p) = <<>> \/ Patch(p)[Len(Patch(p))] # Least
      /\ p \in Seq(Nat) /\ Len(p) >= 1 /\ (p[Len(p)] # Least \/ Len(p) = 1)
  BY PartsOf, MajorsAreNat, DigitLists DEF WellFormed
<1>2. bias \in Seq(DigitCodes) /\ bias \in Seq(Nat)
  BY BiasFacts
<1>3. CASE minor # Null
  <2>1. /\ minor \in Seq(DigitCodes)
        /\ Lower(Joined(Major(p), minor, bias), q) <=> ~Overtakes(Minor(p), Patch(p), bias)
    BY <1>3, DecrementedBelow
  <2>2. Before(bias, p) = Create(Major(p), minor, bias)
    BY <1>3 DEF Before
  <2>3. ~LapseBefore(bias, p) <=> Lower(Joined(Major(p), minor, bias), q)
    BY <1>3, <2>1 DEF LapseBefore
  <2> HIDE DEF minor
  <2> QED BY <1>1, <1>2, <2>1, <2>2, <2>3, CreatedOrder
<1>4. CASE minor = Null /\ major # Out
  <2> DEFINE nines == Filled(Capacity(major), Greatest)
  <2>1. major \in Codes(MajorRanges) /\ major < Major(p)
    BY <1>1, <1>4, Alphabets, DecrementGives
  <2>2. major \in Nat /\ nines \in Seq(DigitCodes)
    BY <2>1, MajorsAreNat, FilledIs, DigitBounds
  <2>3. Before(bias, p) = Create(major, nines, bias)
    BY <1>4 DEF Before
  <2>6. ~LapseBefore(bias, p)
    BY <1>4 DEF LapseBefore, Overtakes, Trims
  <2> HIDE DEF nines, major
  <2>4. nines \in Seq(Nat)
    BY <2>2, DigitLists
  <2>5. Lower(Joined(major, nines, bias), q)
    BY <1>1, <1>2, <2>1, <2>2, <2>4, JoinedOrder
  <2> QED BY <1>1, <1>2, <2>1, <2>2, <2>3, <2>5, <2>6, CreatedOrder
<1>5. CASE minor = Null /\ major = Out
  <2>1. LapseBefore(bias, p) <=> (Patch(p) = <<>> \/ LapseDecrement(Patch(p), bias))
    BY <1>5 DEF LapseBefore, Overtakes, Trims
  <2>2. CASE patch # Null
    <3>1. patch \in Seq(DigitCodes)
      BY <1>1, <1>2, <2>2, DecrementPatchBelow
    <3>2. patch \in Seq(Nat)
      BY <3>1, DigitLists
    <3>3. Before(bias, p) = Create(Major(p), Minor(p), patch)
      BY <1>5, <2>2 DEF Before
    <3>5. Lower(<<>>, Patch(p)) /\ (Lower(patch, Patch(p)) <=> ~LapseDecrement(Patch(p), bias))
      BY <1>1, <1>2, <2>2, DecrementPatchBelow
    <3>6. Patch(p) # <<>>
      <4>1. <<>> \in Seq(Nat)
        OBVIOUS
      <4> QED BY <3>5, <4>1, LowerOneWay
    <3> HIDE DEF patch
    <3>4. Lower(patch, Patch(p)) <=> Lower(Joined(Major(p), Minor(p), patch), q)
      BY <1>1, <3>2, JoinedOrder
    <3> QED BY <1>1, <2>1, <3>1, <3>3, <3>4, <3>5, <3>6, CreatedOrder
  <2>3. CASE patch = Null
    <3>1. Major(p) = MajorRanges[1][1] /\ Major(p) # Least
      BY <1>1, <1>5, Alphabets, DecrementGives
    <3>2. p # <<>> /\ p[Len(p)] # Least
      BY <1>1, <3>1 DEF Major
    <3>3. Trim(p) = p
      BY <1>1, <3>2, TrimmedAlready
    <3>4. Before(bias, p) = p
      BY <1>5, <2>3, <3>3 DEF Before
    <3>5. Patch(p) = <<>>
      BY <1>1, <1>2, <2>3, DecrementPatchBelow
    <3>6. ~Lower(p, p)
      BY <1>1, LowerOneWay
    <3> QED BY <2>1, <3>4, <3>5, <3>6
  <2> QED BY <2>2, <2>3
<1> QED BY <1>3, <1>4, <1>5

(* Between: keys of one major differ in the minor, or else in the patch. *)
LEMMA BetweenMinorsFormed ==
  ASSUME NEW p, NEW q, WellFormed(p), WellFormed(q), NEW bias \in Biases
  PROVE  WellFormed(BetweenMinors(bias, p, q))
<1> DEFINE minor == Intermediate(Minor(p), Minor(q))
           patch == IntermediatePatch(Patch(p), Patch(q), bias)
           next  == NextPatch(Patch(p), bias)
<1>1. /\ Major(p) \in Codes(MajorRanges) /\ Minor(p) \in Seq(DigitCodes)
      /\ Patch(p) \in Seq(DigitCodes)
      /\ Major(q) \in Codes(MajorRanges) /\ Minor(q) \in Seq(DigitCodes)
      /\ Patch(q) \in Seq(DigitCodes)
  BY PartsOf DEF WellFormed
<1>2. bias \in Seq(DigitCodes) /\ <<>> \in Seq(DigitCodes)
  BY BiasFacts
<1>3. /\ patch \in Seq(DigitCodes) \cup {Null}
      /\ next \in Seq(DigitCodes)
      /\ minor \in Seq(DigitCodes) \cup {NoDigits(Equal), NoDigits(Consecutive)}
  BY <1>1, <1>2, IntermediatePatchIs, NextPatchAbove, IntermediateIs
<1>4. BetweenMinors(bias, p, q) \in
        {p, Create(Major(q), Minor(q), <<>>), Create(Major(p), Minor(p), next)}
        \cup {Create(Major(p), x, bias) : x \in {x \in {minor} : x \in Seq(DigitCodes)}}
        \cup {Create(Major(p), Minor(p), y) : y \in {y \in {patch} : y \in Seq(DigitCodes)}}
  BY <1>3 DEF BetweenMinors
<1> HIDE DEF minor, patch, next
<1> QED BY <1>1, <1>2, <1>3, <1>4, CreateIs

LEMMA BetweenMinorsIs ==
  ASSUME NEW p, NEW q, WellFormed(p), WellFormed(q), NEW bias \in Biases,
         Major(p) = Major(q), Lower(p, q),
         Minor(p) # Minor(q) => Below(Minor(p), Minor(q)) /\ Lower(Minor(p), Minor(q))
  PROVE  Lower(p, BetweenMinors(bias, p, q)) /\ Lower(BetweenMinors(bias, p, q), q) <=>
           ~ \/ Minor(p) = Minor(q) /\ LapsePatch(Patch(p), Patch(q), bias)
             \/ Falls(Minor(p), Minor(q))
<1> DEFINE minor == Intermediate(Minor(p), Minor(q))
           patch == IntermediatePatch(Patch(p), Patch(q), bias)
           next  == NextPatch(Patch(p), bias)
           m == Major(p)
           a == Joined(m, Minor(p), Patch(p))
           b == Joined(m, Minor(q), Patch(q))
<1>1. /\ m \in Codes(MajorRanges) /\ m \in Nat /\ m = Major(q)
      /\ Minor(p) \in Seq(DigitCodes) /\ Patch(p) \in Seq(DigitCodes)
      /\ Minor(q) \in Seq(DigitCodes) /\ Patch(q) \in Seq(DigitCodes)
      /\ Len(Minor(p)) = Capacity(Major(p)) /\ Len(Minor(q)) = Capacity(Major(q))
      /\ Same(p, a) /\ Same(q, b)
      /\ p \in Seq(Nat) /\ q \in Seq(Nat)
  BY PartsOf, MajorsAreNat DEF WellFormed
<1>2. /\ Minor(p) \in Seq(Nat) /\ Patch(p) \in Seq(Nat)
      /\ Minor(q) \in Seq(Nat) /\ Patch(q) \in Seq(Nat)
  BY <1>1, DigitLists
<1>3. bias \in Seq(DigitCodes) /\ bias \in Seq(Nat) /\ <<>> \in Seq(DigitCodes) /\ <<>> \in Seq(Nat)
  BY BiasFacts
<1>4. CASE Minor(p) = Minor(q)
  <2>1. minor = NoDigits(Equal) /\ ~Falls(Minor(p), Minor(q))
    BY <1>1, <1>4, NothingBetween DEF Falls
  <2>2. a \in Seq(Nat) /\ b \in Seq(Nat) /\ (Lower(Patch(p), Patch(q)) <=> Lower(a, b))
    BY <1>1, <1>2, <1>4, JoinedOrder
  <2> HIDE DEF a, b
  <2>3. Lower(Patch(p), Patch(q))
    BY <1>1, <2>2, SameIsEqual
  <2>4. /\ patch \in Seq(DigitCodes)
        /\ Lower(Patch(p), patch) /\ Lower(patch, Patch(q)) <=> ~LapsePatch(Patch(p), Patch(q), bias)
    BY <1>1, <2>3, PatchBetween
  <2>5. patch \in Seq(Nat) /\ patch # Null
    BY <2>4, DigitLists, NoDigitsAreNone
  <2>6. BetweenMinors(bias, p, q) = Create(m, Minor(p), patch)
    BY <2>1, <2>5 DEF BetweenMinors
  <2> HIDE DEF patch, minor, m
  <2>7. Lower(Patch(p), patch) <=> Lower(Joined(m, Minor(p), Patch(p)), Joined(m, Minor(p), patch))
    BY <1>1, <1>2, <2>5, JoinedOrder
  <2>8. Lower(patch, Patch(q)) <=> Lower(Joined(m, Minor(p), patch), Joined(m, Minor(q), Patch(q)))
    BY <1>1, <1>2, <1>4, <2>5, JoinedOrder
  <2>9. Lower(Patch(p), patch) <=> Lower(p, Create(m, Minor(p), patch))
    BY <1>1, <2>4, <2>7, CreatedOrder DEF m
  <2>10. Lower(patch, Patch(q)) <=> Lower(Create(m, Minor(p), patch), q)
    BY <1>1, <2>4, <2>8, CreatedOrder
  <2> QED BY <1>4, <2>1, <2>4, <2>6, <2>9, <2>10
<1>5. ASSUME Minor(p) # Minor(q)
      PROVE  /\ minor # NoDigits(Equal)
             /\ minor # NoDigits(Consecutive) => minor \in Seq(DigitCodes)
             /\ minor # NoDigits(Consecutive) /\ Falls(Minor(p), Minor(q)) => Below(minor, Minor(p))
             /\ minor # NoDigits(Consecutive) /\ ~Falls(Minor(p), Minor(q)) =>
                  Below(Minor(p), minor) /\ Below(minor, Minor(q))
             /\ minor = NoDigits(Consecutive) => ~Falls(Minor(p), Minor(q))
  BY <1>1, <1>5, MiddleDigits DEF Falls
<1>6. CASE Minor(p) # Minor(q) /\ minor # NoDigits(Consecutive)
  <2>1. BetweenMinors(bias, p, q) = Create(m, minor, bias)
    BY <1>5, <1>6 DEF BetweenMinors
  <2> HIDE DEF minor, m
  <2>2. minor \in Seq(Nat) /\ minor \in Seq(DigitCodes)
    BY <1>5, <1>6, DigitLists
  <2>3. Below(minor, Minor(p)) => Lower(Joined(m, minor, bias), a)
    BY <1>1, <1>2, <1>3, <2>2, JoinedOrder
  <2>4. Below(Minor(p), minor) => Lower(a, Joined(m, minor, bias))
    BY <1>1, <1>2, <1>3, <2>2, JoinedOrder
  <2>5. Below(minor, Minor(q)) => Lower(Joined(m, minor, bias), b)
    BY <1>1, <1>2, <1>3, <2>2, JoinedOrder
  <2>6. WellFormed(Create(m, minor, bias))
          /\ (Lower(a, Joined(m, minor, bias)) <=> Lower(p, Create(m, minor, bias)))
          /\ (Lower(Joined(m, minor, bias), a) <=> Lower(Create(m, minor, bias), p))
    BY <1>1, <1>3, <2>2, CreatedOrder DEF m
  <2>7. Lower(Joined(m, minor, bias), b) <=> Lower(Create(m, minor, bias), q)
    BY <1>1, <1>3, <2>2, CreatedOrder
  <2>8. Lower(Create(m, minor, bias), p) => ~Lower(p, Create(m, minor, bias))
    BY <1>1, <2>6, LowerOneWay DEF WellFormed
  <2> QED BY <1>5, <1>6, <2>1, <2>3, <2>4, <2>5, <2>6, <2>7, <2>8
<1>7. CASE /\ Minor(p) # Minor(q) /\ minor = NoDigits(Consecutive)
           /\ DecrementPatch(Patch(q), bias) # Null
  <2>1. BetweenMinors(bias, p, q) = Create(m, Minor(q), <<>>)
    BY <1>1, <1>5, <1>7 DEF BetweenMinors
  <2>2. Lower(<<>>, Patch(q))
    BY <1>1, <1>3, <1>7, DecrementPatchBelow
  <2> HIDE DEF m
  <2>3. Below(Minor(p), Minor(q))
    BY <1>7
  <2>4. Lower(a, Joined(m, Minor(q), <<>>)) /\ Lower(Joined(m, Minor(q), <<>>), b)
    BY <1>1, <1>2, <1>3, <2>2, <2>3, JoinedOrder
  <2>5. Lower(p, Create(m, Minor(q), <<>>))
    BY <1>1, <1>3, <2>4, CreatedOrder DEF m
  <2>6. Lower(Create(m, Minor(q), <<>>), q)
    BY <1>1, <1>3, <2>4, CreatedOrder
  <2> QED BY <1>5, <1>7, <2>1, <2>5, <2>6
<1>8. CASE /\ Minor(p) # Minor(q) /\ minor = NoDigits(Consecutive)
           /\ DecrementPatch(Patch(q), bias) = Null
  <2>1. BetweenMinors(bias, p, q) = Create(m, Minor(p), next)
    BY <1>5, <1>8 DEF BetweenMinors
  <2>2. next \in Seq(DigitCodes) /\ Lower(Patch(p), next)
    BY <1>1, NextPatchAbove
  <2> HIDE DEF m, next
  <2>3. next \in Seq(Nat) /\ Below(Minor(p), Minor(q))
    BY <1>8, <2>2, DigitLists
  <2>4. Lower(a, Joined(m, Minor(p), next)) /\ Lower(Joined(m, Minor(p), next), b)
    BY <1>1, <1>2, <2>2, <2>3, JoinedOrder
  <2>5. Lower(p, Create(m, Minor(p), next))
    BY <1>1, <2>2, <2>4, CreatedOrder DEF m
  <2>6. Lower(Create(m, Minor(p), next), q)
    BY <1>1, <2>2, <2>4, CreatedOrder
  <2> QED BY <1>5, <1>8, <2>1, <2>5, <2>6
<1> QED BY <1>4, <1>6, <1>7, <1>8

LEMMA BetweenMajorsFormed ==
  ASSUME NEW p, NEW q, WellFormed(p), WellFormed(q), NEW bias \in Biases
  PROVE  WellFormed(BetweenMajors(bias, p, q))
<1> DEFINE above == Increment(Minor(p))
           below == Decrement(Minor(q))
           patch == DecrementPatch(Patch(q), bias)
           next  == NextPatch(Patch(p), bias)
<1>1. /\ Major(p) \in Codes(MajorRanges) /\ Minor(p) \in Seq(DigitCodes)
      /\ Patch(p) \in Seq(DigitCodes)
      /\ Major(q) \in Codes(MajorRanges) /\ Minor(q) \in Seq(DigitCodes)
      /\ Patch(q) \in Seq(DigitCodes)
  BY PartsOf DEF WellFormed
<1>2. bias \in Seq(DigitCodes)
  BY BiasFacts
<1>3. /\ above # Null => above \in Seq(DigitCodes)
      /\ below # Null => below \in Seq(DigitCodes)
      /\ patch # Null => patch \in Seq(DigitCodes)
      /\ next \in Seq(DigitCodes)
  BY <1>1, <1>2, IncrementList, DecrementedBelow, DecrementPatchBelow, NextPatchAbove
<1>4. /\ above # Null => BetweenMajors(bias, p, q) = Create(Major(p), above, bias)
      /\ above = Null /\ below # Null => BetweenMajors(bias, p, q) = Create(Major(q), below, bias)
      /\ above = Null /\ below = Null /\ patch # Null =>
           BetweenMajors(bias, p, q) = Create(Major(q), Minor(q), patch)
      /\ above = Null /\ below = Null /\ patch = Null =>
           BetweenMajors(bias, p, q) = Create(Major(p), Minor(p), next)
  BY DEF BetweenMajors
<1> HIDE DEF above, below, patch, next
<1> QED BY <1>1, <1>2, <1>3, <1>4, CreateIs

LEMMA BetweenMajorsIs ==
  ASSUME NEW p, NEW q, WellFormed(p), WellFormed(q), NEW bias \in Biases,
         Major(p) < Major(q)
  PROVE  Lower(p, BetweenMajors(bias, p, q)) /\ Lower(BetweenMajors(bias, p, q), q) <=>
           ~ /\ Increment(Minor(p)) = Null
             /\ \/ Overtakes(Minor(q), Patch(q), bias)
                \/ Decrement(Minor(q)) = Null /\ LapseDecrement(Patch(q), bias)
<1> DEFINE above == Increment(Minor(p))
           below == Decrement(Minor(q))
           patch == DecrementPatch(Patch(q), bias)
           next  == NextPatch(Patch(p), bias)
           a == Joined(Major(p), Minor(p), Patch(p))
           b == Joined(Major(q), Minor(q), Patch(q))
<1>1. /\ Major(p) \in Codes(MajorRanges) /\ Major(p) \in Nat
      /\ Major(q) \in Codes(MajorRanges) /\ Major(q) \in Nat
      /\ Minor(p) \in Seq(DigitCodes) /\ Patch(p) \in Seq(DigitCodes)
      /\ Minor(q) \in Seq(DigitCodes) /\ Patch(q) \in Seq(DigitCodes)
      /\ Patch(q) = <<>> \/ Patch(q)[Len(Patch(q))] # Least
  BY PartsOf, MajorsAreNat DEF WellFormed
<1>2. /\ Minor(p) \in Seq(Nat) /\ Patch(p) \in Seq(Nat)
      /\ Minor(q) \in Seq(Nat) /\ Patch(q) \in Seq(Nat)
  BY <1>1, DigitLists
<1>3. bias \in Seq(DigitCodes) /\ bias \in Seq(Nat)
  BY BiasFacts
<1>4. CASE above # Null
  <2>1. above \in Seq(DigitCodes) /\ Below(Minor(p), above)
    BY <1>1, <1>4, IncrementList
  <2>2. BetweenMajors(bias, p, q) = Create(Major(p), above, bias)
    BY <1>4 DEF BetweenMajors
  <2> HIDE DEF above
  <2>3. above \in Seq(Nat)
    BY <2>1, DigitLists
  <2>4. Lower(a, Joined(Major(p), above, bias))
    BY <1>1, <1>2, <1>3, <2>1, <2>3, JoinedOrder
  <2>5. Lower(Joined(Major(p), above, bias), b)
    BY <1>1, <1>2, <1>3, <2>3, JoinedOrder
  <2>6. Lower(p, Create(Major(p), above, bias))
    BY <1>1, <1>3, <2>1, <2>4, CreatedOrder
  <2>7. Lower(Create(Major(p), above, bias), q)
    BY <1>1, <1>3, <2>1, <2>5, CreatedOrder
  <2> QED BY <1>4, <2>2, <2>6, <2>7 DEF above
<1>5. CASE above = Null /\ below # Null
  <2>1. /\ below \in Seq(DigitCodes)
        /\ Lower(Joined(Major(q), below, bias), b) <=> ~Overtakes(Minor(q), Patch(q), bias)
    BY <1>5, DecrementedBelow
  <2>2. BetweenMajors(bias, p, q) = Create(Major(q), below, bias)
    BY <1>5 DEF BetweenMajors
  <2> HIDE DEF below
  <2>3. below \in Seq(Nat)
    BY <2>1, DigitLists
  <2>4. Lower(a, Joined(Major(q), below, bias))
    BY <1>1, <1>2, <1>3, <2>3, JoinedOrder
  <2>5. Lower(p, Create(Major(q), below, bias))
    BY <1>1, <1>3, <2>1, <2>4, CreatedOrder
  <2>6. Lower(Create(Major(q), below, bias), q) <=> Lower(Joined(Major(q), below, bias), b)
    BY <1>1, <1>3, <2>1, CreatedOrder
  <2> QED BY <1>5, <2>1, <2>2, <2>5, <2>6 DEF above, below
<1>6. CASE above = Null /\ below = Null /\ patch # Null
  <2>1. /\ patch \in Seq(DigitCodes)
        /\ Lower(patch, Patch(q)) <=> ~LapseDecrement(Patch(q), bias)
    BY <1>1, <1>3, <1>6, DecrementPatchBelow
  <2>2. ~Overtakes(Minor(q), Patch(q), bias)
    BY <1>6 DEF Overtakes, Trims
  <2>3. BetweenMajors(bias, p, q) = Create(Major(q), Minor(q), patch)
    BY <1>6 DEF BetweenMajors
  <2> HIDE DEF patch
  <2>4. patch \in Seq(Nat)
    BY <2>1, DigitLists
  <2>5. Lower(a, Joined(Major(q), Minor(q), patch))
    BY <1>1, <1>2, <2>4, JoinedOrder
  <2>6. Lower(patch, Patch(q)) <=> Lower(Joined(Major(q), Minor(q), patch), b)
    BY <1>1, <1>2, <2>4, JoinedOrder
  <2>7. Lower(p, Create(Major(q), Minor(q), patch))
    BY <1>1, <2>1, <2>5, CreatedOrder
  <2>8. Lower(Joined(Major(q), Minor(q), patch), b) <=> Lower(Create(Major(q), Minor(q), patch), q)
    BY <1>1, <2>1, CreatedOrder
  <2> QED BY <1>6, <2>1, <2>2, <2>3, <2>6, <2>7, <2>8
<1>7. CASE above = Null /\ below = Null /\ patch = Null
  <2>1. next \in Seq(DigitCodes) /\ Lower(Patch(p), next)
    BY <1>1, NextPatchAbove
  <2>2. BetweenMajors(bias, p, q) = Create(Major(p), Minor(p), next)
    BY <1>7 DEF BetweenMajors
  <2> HIDE DEF next
  <2>3. next \in Seq(Nat)
    BY <2>1, DigitLists
  <2>4. Lower(a, Joined(Major(p), Minor(p), next))
    BY <1>1, <1>2, <2>1, <2>3, JoinedOrder
  <2>5. Lower(Joined(Major(p), Minor(p), next), b)
    BY <1>1, <1>2, <2>3, JoinedOrder
  <2>6. Lower(p, Create(Major(p), Minor(p), next))
    BY <1>1, <2>1, <2>4, CreatedOrder
  <2>7. Lower(Create(Major(p), Minor(p), next), q)
    BY <1>1, <2>1, <2>5, CreatedOrder
  <2>8. ~Overtakes(Minor(q), Patch(q), bias) /\ ~LapseDecrement(Patch(q), bias)
    <3>1. Patch(q) = <<>>
      BY <1>1, <1>3, <1>7, DecrementPatchBelow
    <3>2. ~Lower(<<>>, Patch(q))
      <4>1. <<>> \in Seq(Nat)
        OBVIOUS
      <4> QED BY <3>1, <4>1, LowerOneWay
    <3>3. Decrement(Patch(q)) = Null
      BY <1>1, <1>3, <1>7, <3>1 DEF DecrementPatch, ShortenedPatch, Decrement
    <3> QED BY <1>7, <3>3 DEF Overtakes, Trims, LapseDecrement
  <2> QED BY <1>7, <2>2, <2>6, <2>7, <2>8
<1> QED BY <1>4, <1>5, <1>6, <1>7

LEMMA BetweenIs ==
  ASSUME NEW p, NEW q, WellFormed(p), WellFormed(q), NEW bias \in Biases, Lower(p, q)
  PROVE  /\ WellFormed(Between(bias, p, q))
         /\ Lower(p, Between(bias, p, q)) /\ Lower(Between(bias, p, q), q) <=>
              ~LapseBetween(bias, p, q)
<1> DEFINE major == IntermediateDigit(Major(p), Major(q), MajorRanges)
           a == Joined(Major(p), Minor(p), Patch(p))
           b == Joined(Major(q), Minor(q), Patch(q))
<1>1. /\ Major(p) \in Codes(MajorRanges) /\ Major(p) \in Nat
      /\ Major(q) \in Codes(MajorRanges) /\ Major(q) \in Nat
      /\ Minor(p) \in Seq(DigitCodes) /\ Patch(p) \in Seq(DigitCodes)
      /\ Minor(q) \in Seq(DigitCodes) /\ Patch(q) \in Seq(DigitCodes)
  BY PartsOf, MajorsAreNat DEF WellFormed
<1>2. /\ Minor(p) \in Seq(Nat) /\ Patch(p) \in Seq(Nat)
      /\ Minor(q) \in Seq(Nat) /\ Patch(q) \in Seq(Nat)
  BY <1>1, DigitLists
<1>3. bias \in Seq(DigitCodes) /\ bias \in Seq(Nat)
  BY BiasFacts
<1>4. /\ Major(p) <= Major(q)
      /\ Major(p) = Major(q) /\ Minor(p) # Minor(q) =>
           Below(Minor(p), Minor(q)) /\ Lower(Minor(p), Minor(q))
  BY MajorsCompare
<1>5. /\ Major(p) = Major(q) <=> major = Equal
      /\ Major(p) < Major(q) /\ major # Consecutive =>
           major \in Codes(MajorRanges) /\ Major(p) < major /\ major < Major(q)
  BY <1>1, Alphabets, IntermediateGives
<1>6. CASE major = Equal
  <2>1. Between(bias, p, q) = BetweenMinors(bias, p, q)
    BY <1>6 DEF Between
  <2>2. Equal # Consecutive
    BY DEF Consecutive, Equal
  <2>3. LapseBetween(bias, p, q) <=>
          \/ Minor(p) = Minor(q) /\ LapsePatch(Patch(p), Patch(q), bias)
          \/ Falls(Minor(p), Minor(q))
    BY <1>6, <2>2 DEF LapseBetween
  <2>4. Lower(p, BetweenMinors(bias, p, q)) /\ Lower(BetweenMinors(bias, p, q), q) <=>
           ~ \/ Minor(p) = Minor(q) /\ LapsePatch(Patch(p), Patch(q), bias)
             \/ Falls(Minor(p), Minor(q))
    BY <1>4, <1>5, <1>6, BetweenMinorsIs
  <2>5. WellFormed(BetweenMinors(bias, p, q))
    BY BetweenMinorsFormed
  <2> QED BY <2>1, <2>3, <2>4, <2>5
<1>7. CASE major = Consecutive
  <2>1. Consecutive # Equal
    BY DEF Consecutive, Equal
  <2>2. Between(bias, p, q) = BetweenMajors(bias, p, q)
    BY <1>7, <2>1 DEF Between
  <2>3. LapseBetween(bias, p, q) <=>
          /\ Increment(Minor(p)) = Null
          /\ \/ Overtakes(Minor(q), Patch(q), bias)
             \/ Decrement(Minor(q)) = Null /\ LapseDecrement(Patch(q), bias)
    BY <1>7, <2>1 DEF LapseBetween
  <2>4. Major(p) < Major(q)
    <3>1. Major(p) # Major(q)
      BY <1>5, <1>7, <2>1
    <3> QED BY <1>1, <1>4, <3>1
  <2>5. Lower(p, BetweenMajors(bias, p, q)) /\ Lower(BetweenMajors(bias, p, q), q) <=>
           ~ /\ Increment(Minor(p)) = Null
             /\ \/ Overtakes(Minor(q), Patch(q), bias)
                \/ Decrement(Minor(q)) = Null /\ LapseDecrement(Patch(q), bias)
    BY <2>4, BetweenMajorsIs
  <2>6. WellFormed(BetweenMajors(bias, p, q))
    BY BetweenMajorsFormed
  <2> QED BY <2>2, <2>3, <2>5, <2>6
<1>8. CASE major # Equal /\ major # Consecutive
  <2>9. ~LapseBetween(bias, p, q)
    BY <1>8 DEF LapseBetween
  <2> DEFINE zeros == Filled(Capacity(major), Least)
  <2>1. Between(bias, p, q) = Create(major, zeros, bias)
    BY <1>8 DEF Between
  <2> HIDE DEF major
  <2>2. Major(p) < Major(q)
    <3>1. Major(p) # Major(q)
      BY <1>5, <1>8
    <3> QED BY <1>1, <1>4, <3>1
  <2>3. major \in Codes(MajorRanges) /\ Major(p) < major /\ major < Major(q)
    BY <1>5, <1>8, <2>2
  <2>4. major \in Nat /\ zeros \in Seq(DigitCodes)
    BY <2>3, MajorsAreNat, FilledIs, DigitBounds
  <2> HIDE DEF zeros
  <2>5. zeros \in Seq(Nat)
    BY <2>4, DigitLists
  <2>6. Lower(a, Joined(major, zeros, bias)) /\ Lower(Joined(major, zeros, bias), b)
    BY <1>1, <1>2, <1>3, <2>3, <2>4, <2>5, JoinedOrder
  <2>7. WellFormed(Create(major, zeros, bias)) /\ Lower(p, Create(major, zeros, bias))
    BY <1>3, <2>3, <2>4, <2>6, CreatedOrder
  <2>8. Lower(Create(major, zeros, bias), q)
    BY <1>3, <2>3, <2>4, <2>6, CreatedOrder
  <2> QED BY <2>1, <2>7, <2>8, <2>9
<1> QED BY <1>6, <1>7, <1>8

-----------------------------------------------------------------------------
(* The list of items. *)
LEMMA FirstIs ==
  ASSUME NEW bias \in Biases
  PROVE  WellFormed(First(bias))
<1>1. Zero \in Codes(MajorRanges)
  <2>1. IsAlphabet(MajorRanges) /\ Len(MajorRanges) = 2
    BY Alphabets
  <2>2. 2 \in DOMAIN MajorRanges
    BY <2>1, RangeFacts
  <2>3. MajorRanges[2][1] \in Nat /\ MajorRanges[2][1] <= MajorRanges[2][1]
          /\ MajorRanges[2][1] <= MajorRanges[2][2]
    BY <2>1, <2>2, RangeFacts
  <2> QED BY <2>1, <2>2, <2>3, RangeFacts DEF Zero
<1>2. bias \in Seq(DigitCodes) /\ <<>> \in Seq(DigitCodes)
  BY BiasFacts
<1> QED BY <1>1, <1>2, CreateIs DEF First

(* The invariant: keys are well-formed, and in order as their digits compare,
   unless there was a lapse. *)
ListKeys == keys \in Seq(Seq(Nat)) /\ \A i \in 1 .. Len(keys) : WellFormed(keys[i])
Ascending == plain <=> \A i, j \in 1 .. Len(keys) : i < j => Lower(keys[i], keys[j])
ListInv == ListKeys /\ Ascending /\ plain \in BOOLEAN

(* A list with a key put in at a place: well-formed, if the key is; ascending,
   if the list was, just if the key is above what is in front and below what is
   behind. *)
IsPutIn(l, k, n, new) ==
  /\ new \in Seq(Seq(Nat)) /\ Len(new) = Len(l) + 1
  /\ \A i \in 1 .. Len(new) : new[i] = IF i <= n THEN l[i] ELSE IF i = n + 1 THEN k ELSE l[i - 1]

LEMMA PutIn ==
  ASSUME NEW l \in Seq(Seq(Nat)), \A i \in 1 .. Len(l) : WellFormed(l[i]),
         NEW k, WellFormed(k), NEW n \in 0 .. Len(l), NEW new, IsPutIn(l, k, n, new)
  PROVE  /\ \A i \in 1 .. Len(new) : WellFormed(new[i])
         /\ (\A i, j \in 1 .. Len(l) : i < j => Lower(l[i], l[j])) =>
              ((/\ n # 0 => Lower(l[n], k)
                /\ n # Len(l) => Lower(k, l[n + 1]))
               <=> \A i, j \in 1 .. Len(new) : i < j => Lower(new[i], new[j]))
<1>1. /\ Len(l) \in Nat /\ n \in Nat /\ n <= Len(l)
      /\ Len(new) \in Nat /\ Len(new) = Len(l) + 1
      /\ k \in Seq(Nat) /\ \A i \in 1 .. Len(l) : l[i] \in Seq(Nat)
  BY DEF WellFormed, IsPutIn
<1>2. \A i \in 1 .. Len(new) :
        /\ i <= n => i \in 1 .. Len(l) /\ new[i] = l[i]
        /\ i = n + 1 => new[i] = k
        /\ i > n + 1 => i - 1 \in 1 .. Len(l) /\ new[i] = l[i - 1]
  <2> TAKE i \in 1 .. Len(new)
  <2>1. i <= n => i \in 1 .. Len(l) /\ new[i] = l[i]
    BY <1>1 DEF IsPutIn
  <2>2. i = n + 1 => new[i] = k
    BY <1>1 DEF IsPutIn
  <2>3. i > n + 1 => i - 1 \in 1 .. Len(l) /\ new[i] = l[i - 1]
    BY <1>1 DEF IsPutIn
  <2> QED BY <2>1, <2>2, <2>3
<1>3. \A i \in 1 .. Len(new) : WellFormed(new[i])
  <2> TAKE i \in 1 .. Len(new)
  <2>1. i <= n \/ i = n + 1 \/ i > n + 1
    BY <1>1
  <2> QED BY <1>2, <2>1
<1>4. ASSUME \A i, j \in 1 .. Len(l) : i < j => Lower(l[i], l[j]),
             n # 0 => Lower(l[n], k), n # Len(l) => Lower(k, l[n + 1]),
             NEW i \in 1 .. Len(new), NEW j \in 1 .. Len(new), i < j
      PROVE  Lower(new[i], new[j])
  <2>1. ASSUME NEW x \in 1 .. Len(l), x <= n PROVE Lower(l[x], k)
    <3>1. n # 0 /\ n \in 1 .. Len(l)
      BY <1>1, <2>1
    <3>2. CASE x = n
      BY <1>4, <3>1, <3>2
    <3>3. CASE x < n
      <4>1. Lower(l[x], l[n]) /\ Lower(l[n], k)
        BY <1>4, <3>1, <3>3
      <4> QED BY <1>1, <3>1, <4>1, LowerTransitive
    <3> QED BY <1>1, <2>1, <3>2, <3>3
  <2>2. ASSUME NEW y \in 1 .. Len(l), n < y PROVE Lower(k, l[y])
    <3>1. n # Len(l) /\ n + 1 \in 1 .. Len(l)
      BY <1>1, <2>2
    <3>2. Lower(k, l[n + 1])
      BY <1>4, <3>1
    <3>3. CASE y = n + 1
      BY <3>2, <3>3
    <3>4. CASE n + 1 < y
      <4>1. Lower(l[n + 1], l[y])
        BY <1>4, <3>1, <3>4
      <4> QED BY <1>1, <3>1, <3>2, <4>1, LowerTransitive
    <3> QED BY <1>1, <2>2, <3>3, <3>4
  <2>3. CASE j <= n
    <3>1. i <= n
      BY <1>1, <1>4, <2>3
    <3> QED BY <1>2, <1>4, <2>3, <3>1
  <2>4. CASE j = n + 1
    <3>1. i <= n
      BY <1>1, <1>4, <2>4
    <3> QED BY <1>2, <2>1, <2>4, <3>1
  <2>5. CASE j > n + 1
    <3>1. j - 1 \in 1 .. Len(l) /\ new[j] = l[j - 1] /\ n < j - 1
      BY <1>1, <1>2, <2>5
    <3>2. CASE i <= n
      <4>1. i \in 1 .. Len(l) /\ new[i] = l[i]
        BY <1>2, <3>2
      <4>2. i < j - 1
        BY <1>1, <3>1, <3>2
      <4> QED BY <1>4, <3>1, <4>1, <4>2
    <3>3. CASE i = n + 1
      BY <1>2, <2>2, <3>1, <3>3
    <3>4. CASE i > n + 1
      <4>1. i - 1 < j - 1 /\ i - 1 \in 1 .. Len(l) /\ new[i] = l[i - 1]
        BY <1>1, <1>2, <1>4, <3>4
      <4> QED BY <1>4, <3>1, <4>1
    <3> QED BY <1>1, <3>2, <3>3, <3>4
  <2> QED BY <1>1, <2>3, <2>4, <2>5
<1>5. ASSUME \A i, j \in 1 .. Len(new) : i < j => Lower(new[i], new[j])
      PROVE  (n # 0 => Lower(l[n], k)) /\ (n # Len(l) => Lower(k, l[n + 1]))
  <2>1. n + 1 \in 1 .. Len(new) /\ new[n + 1] = k
    BY <1>1, <1>2
  <2>2. ASSUME n # 0 PROVE Lower(l[n], k)
    <3>1. n \in 1 .. Len(new) /\ n < n + 1 /\ new[n] = l[n]
      BY <1>1, <1>2, <2>2
    <3> QED BY <1>5, <2>1, <3>1
  <2>3. ASSUME n # Len(l) PROVE Lower(k, l[n + 1])
    <3>1. n + 2 \in 1 .. Len(new) /\ n + 1 < n + 2 /\ n + 2 > n + 1 /\ (n + 2) - 1 = n + 1
      BY <1>1, <2>3
    <3>2. new[n + 2] = l[n + 1]
      BY <1>2, <3>1
    <3> QED BY <1>5, <2>1, <3>1, <3>2
  <2> QED BY <2>2, <2>3
<1>6. ASSUME \A i, j \in 1 .. Len(l) : i < j => Lower(l[i], l[j])
      PROVE  (/\ n # 0 => Lower(l[n], k)
              /\ n # Len(l) => Lower(k, l[n + 1]))
             <=> \A i, j \in 1 .. Len(new) : i < j => Lower(new[i], new[j])
  BY <1>4, <1>5, <1>6
<1> QED BY <1>3, <1>6

LEMMA Concatenated ==
  ASSUME NEW S, NEW u \in Seq(S), NEW t \in Seq(S)
  PROVE  /\ u \o t \in Seq(S) /\ Len(u \o t) = Len(u) + Len(t)
         /\ \A i \in 1 .. Len(u) + Len(t) :
              (u \o t)[i] = IF i <= Len(u) THEN u[i] ELSE t[i - Len(u)]
OBVIOUS

LEMMA StartInv == Init => ListInv
<1>1. ASSUME Init PROVE ListInv
  <2>1. keys \in Seq(Seq(Nat)) /\ Len(keys) = 0 /\ plain = TRUE
    BY <1>1 DEF Init
  <2>2. \A i \in 1 .. Len(keys) : FALSE
    BY <2>1
  <2> QED BY <2>1, <2>2, Zenon DEF ListInv, ListKeys, Ascending
<1> QED BY <1>1

LEMMA StepInv == ListInv /\ [Next]_vars => ListInv'
<1> SUFFICES ASSUME ListInv, [Next]_vars PROVE ListInv'
  OBVIOUS
<1>1. /\ keys \in Seq(Seq(Nat)) /\ \A i \in 1 .. Len(keys) : WellFormed(keys[i])
      /\ Len(keys) \in Nat
  BY DEF ListInv, ListKeys
<1>2. plain <=> \A i, j \in 1 .. Len(keys) : i < j => Lower(keys[i], keys[j])
  BY DEF ListInv, Ascending
<1>3. CASE UNCHANGED vars
  BY <1>3, Zenon DEF ListInv, ListKeys, Ascending, vars
<1>4. CASE InsertFirst
  <2>1. PICK bias \in Biases : keys' = <<First(bias)>>
    BY <1>4 DEF InsertFirst
  <2>2. WellFormed(First(bias))
    BY FirstIs
  <2>3. First(bias) \in Seq(Nat)
    BY <2>2 DEF WellFormed
  <2>4. keys' \in Seq(Seq(Nat)) /\ Len(keys') = 1 /\ keys'[1] = First(bias)
    BY <2>1, <2>3
  <2>5. \A i \in 1 .. Len(keys') : WellFormed(keys'[i])
    BY <2>2, <2>4
  <2>6. \A i, j \in 1 .. Len(keys') : ~(i < j)
    BY <2>4
  <2>7. plain' = plain /\ plain
    BY <1>4 DEF InsertFirst, Room
  <2> QED BY <2>4, <2>5, <2>6, <2>7, Zenon DEF ListInv, ListKeys, Ascending
<1>5. CASE InsertLast
  <2> DEFINE n == Len(keys)
  <2>1. PICK bias \in Biases :
          keys' = Append(keys, After(bias, keys[n])) /\ plain' = ~LapseAfter(bias, keys[n])
    BY <1>5 DEF InsertLast
  <2> DEFINE k == After(bias, keys[n])
  <2>2. plain /\ n # 0 /\ n \in 1 .. Len(keys)
    BY <1>1, <1>5 DEF InsertLast, Room
  <2>3. WellFormed(k) /\ (plain' <=> Lower(keys[n], k))
    BY <1>1, <2>1, <2>2, AfterIs
  <2>4. k \in Seq(Nat)
    BY <2>3 DEF WellFormed
  <2> HIDE DEF k
  <2>5. IsPutIn(keys, k, n, keys')
    BY <1>1, <2>1, <2>4 DEF k, IsPutIn
  <2>6. n \in 0 .. Len(keys)
    BY <2>2
  <2>7. \A i \in 1 .. Len(keys') : WellFormed(keys'[i])
    BY <1>1, <2>3, <2>5, <2>6, PutIn
  <2>8. plain' <=> \A i, j \in 1 .. Len(keys') : i < j => Lower(keys'[i], keys'[j])
    BY <1>1, <1>2, <2>2, <2>3, <2>5, <2>6, PutIn
  <2>9. plain' \in BOOLEAN
    BY <2>1
  <2> QED BY <2>5, <2>7, <2>8, <2>9, Zenon DEF ListInv, ListKeys, Ascending, IsPutIn
<1>6. CASE InsertInFront
  <2>1. PICK bias \in Biases :
          keys' = <<Before(bias, keys[1])>> \o keys /\ plain' = ~LapseBefore(bias, keys[1])
    BY <1>6 DEF InsertInFront
  <2> DEFINE k == Before(bias, keys[1])
  <2>2. plain /\ 1 \in 1 .. Len(keys)
    BY <1>1, <1>6 DEF InsertInFront, Room
  <2>3. WellFormed(k) /\ (plain' <=> Lower(k, keys[1]))
    BY <1>1, <2>1, <2>2, BeforeIs
  <2>4. k \in Seq(Nat)
    BY <2>3 DEF WellFormed
  <2>5. keys' = <<k>> \o keys
    BY <2>1
  <2> HIDE DEF k
  <2>6. IsPutIn(keys, k, 0, keys')
    <3> DEFINE s == <<k>>
    <3>1. s \in Seq(Seq(Nat)) /\ Len(s) = 1 /\ s[1] = k
      BY <2>4
    <3> HIDE DEF s
    <3>2. /\ s \o keys \in Seq(Seq(Nat)) /\ Len(s \o keys) = Len(s) + Len(keys)
          /\ \A i \in 1 .. Len(s) + Len(keys) :
               (s \o keys)[i] = IF i <= Len(s) THEN s[i] ELSE keys[i - Len(s)]
      BY <1>1, <3>1, Concatenated
    <3>3. keys' = s \o keys /\ Len(s) + Len(keys) = Len(keys) + 1
      BY <1>1, <2>5, <3>1 DEF s
    <3>4. ASSUME NEW i \in 1 .. Len(keys')
          PROVE  keys'[i] = IF i <= 0 THEN keys[i] ELSE IF i = 0 + 1 THEN k ELSE keys[i - 1]
      <4>1. i \in 1 .. Len(s) + Len(keys) /\ ~(i <= 0) /\ (i <= 1 <=> i = 0 + 1)
        BY <1>1, <3>2, <3>3
      <4>2. keys'[i] = IF i <= 1 THEN s[i] ELSE keys[i - 1]
        BY <3>1, <3>2, <3>3, <4>1
      <4> QED BY <3>1, <4>1, <4>2
    <3> QED BY <3>2, <3>3, <3>4 DEF IsPutIn
  <2>7. 0 \in 0 .. Len(keys) /\ 0 + 1 = 1
    BY <1>1
  <2>8. \A i \in 1 .. Len(keys') : WellFormed(keys'[i])
    BY <1>1, <2>3, <2>6, <2>7, PutIn
  <2>9. plain' <=> \A i, j \in 1 .. Len(keys') : i < j => Lower(keys'[i], keys'[j])
    BY <1>1, <1>2, <2>2, <2>3, <2>6, <2>7, PutIn
  <2>10. plain' \in BOOLEAN
    BY <2>1
  <2> QED BY <2>6, <2>8, <2>9, <2>10, Zenon DEF ListInv, ListKeys, Ascending, IsPutIn
<1>7. CASE InsertBetween
  <2>1. PICK bias \in Biases, n \in 1 .. Len(keys) - 1 :
          /\ keys' = SubSeq(keys, 1, n) \o <<Between(bias, keys[n], keys[n + 1])>>
                       \o SubSeq(keys, n + 1, Len(keys))
          /\ plain' = ~LapseBetween(bias, keys[n], keys[n + 1])
    BY <1>7 DEF InsertBetween
  <2> DEFINE k == Between(bias, keys[n], keys[n + 1])
  <2>2. plain /\ n \in 1 .. Len(keys) /\ n + 1 \in 1 .. Len(keys) /\ n < n + 1 /\ n \in 0 .. Len(keys)
    BY <1>1, <1>7 DEF InsertBetween, Room
  <2>3. Lower(keys[n], keys[n + 1])
    BY <1>2, <2>2
  <2>4. WellFormed(k) /\ (plain' <=> Lower(keys[n], k) /\ Lower(k, keys[n + 1]))
    BY <1>1, <2>1, <2>2, <2>3, BetweenIs
  <2>5. k \in Seq(Nat)
    BY <2>4 DEF WellFormed
  <2>6. keys' = SubSeq(keys, 1, n) \o <<k>> \o SubSeq(keys, n + 1, Len(keys))
    BY <2>1
  <2> HIDE DEF k
  <2>7. IsPutIn(keys, k, n, keys')
    <3> DEFINE s == SubSeq(keys, 1, n)
               t == SubSeq(keys, n + 1, Len(keys))
    <3>1. s \in Seq(Seq(Nat)) /\ Len(s) = n /\ \A i \in 1 .. n : s[i] = keys[i]
      BY <1>1, <2>2
    <3>2. t \in Seq(Seq(Nat)) /\ Len(t) = Len(keys) - n
            /\ \A i \in 1 .. Len(keys) - n : t[i] = keys[n + i]
      BY <1>1, <2>2
    <3> HIDE DEF s, t
    <3> DEFINE u == s \o <<k>>
    <3>3. /\ u \in Seq(Seq(Nat)) /\ Len(u) = n + 1
          /\ \A i \in 1 .. n + 1 : u[i] = IF i <= n THEN keys[i] ELSE k
      BY <2>2, <2>5, <3>1
    <3>4. keys' = u \o t
      BY <2>6 DEF s, t
    <3> HIDE DEF u
    <3>5. /\ keys' \in Seq(Seq(Nat)) /\ Len(keys') = Len(keys) + 1
          /\ \A i \in 1 .. Len(keys') : keys'[i] = IF i <= n + 1 THEN u[i] ELSE t[i - (n + 1)]
      <4>1. /\ u \o t \in Seq(Seq(Nat)) /\ Len(u \o t) = Len(u) + Len(t)
            /\ \A i \in 1 .. Len(u) + Len(t) :
                 (u \o t)[i] = IF i <= Len(u) THEN u[i] ELSE t[i - Len(u)]
        BY <3>2, <3>3, Concatenated
      <4>2. Len(u) = n + 1 /\ Len(u) + Len(t) = Len(keys) + 1
        BY <1>1, <2>2, <3>2, <3>3
      <4> QED BY <3>4, <4>1, <4>2
    <3>6. ASSUME NEW i \in 1 .. Len(keys')
          PROVE  keys'[i] = IF i <= n THEN keys[i] ELSE IF i = n + 1 THEN k ELSE keys[i - 1]
      <4>1. CASE i <= n + 1
        <5>1. i \in 1 .. n + 1 /\ (i <= n \/ i = n + 1) /\ ~(n + 1 <= n)
          BY <1>1, <2>2, <3>5, <4>1
        <5>2. keys'[i] = IF i <= n THEN keys[i] ELSE k
          BY <3>3, <3>5, <4>1, <5>1
        <5> QED BY <5>1, <5>2
      <4>2. CASE i > n + 1
        <5>1. i - (n + 1) \in 1 .. Len(keys) - n /\ n + (i - (n + 1)) = i - 1
                /\ ~(i <= n + 1) /\ ~(i <= n) /\ i # n + 1
          BY <1>1, <2>2, <3>5, <4>2
        <5> QED BY <3>2, <3>5, <5>1
      <4> QED BY <1>1, <2>2, <3>5, <4>1, <4>2
    <3> QED BY <3>5, <3>6 DEF IsPutIn
  <2>8. \A i \in 1 .. Len(keys') : WellFormed(keys'[i])
    BY <1>1, <2>2, <2>4, <2>7, PutIn
  <2>9. plain' <=> \A i, j \in 1 .. Len(keys') : i < j => Lower(keys'[i], keys'[j])
    <3>1. n # 0 /\ n # Len(keys)
      BY <1>1, <2>2
    <3>2. \A i, j \in 1 .. Len(keys) : i < j => Lower(keys[i], keys[j])
      BY <1>2, <2>2
    <3>3. (Lower(keys[n], k) /\ Lower(k, keys[n + 1]))
            <=> \A i, j \in 1 .. Len(keys') : i < j => Lower(keys'[i], keys'[j])
      BY <1>1, <2>2, <2>4, <2>7, <3>1, <3>2, PutIn
    <3> QED BY <2>4, <3>3
  <2>10. plain' \in BOOLEAN
    BY <2>1
  <2> QED BY <2>7, <2>8, <2>9, <2>10, Zenon DEF ListInv, ListKeys, Ascending, IsPutIn
<1> QED BY <1>3, <1>4, <1>5, <1>6, <1>7 DEF Next

LEMMA KeysAre ==
  ASSUME ListInv
  PROVE  DOMAIN keys = 1 .. Len(keys) /\ \A i \in DOMAIN keys : WellFormed(keys[i])
<1>1. ListKeys
  BY Zenon DEF ListInv
<1>2. DOMAIN keys = 1 .. Len(keys)
  BY <1>1 DEF ListKeys
<1> QED BY <1>1, <1>2 DEF ListKeys

(* KeysWellFormed: keys are made of the digits of their alphabets, and none
   ends in an implied digit, whatever the alphabets, the biases and the places
   in which items are inserted: lapses spoil the order of keys, not the keys. *)
THEOREM WellFormedKeys == Spec => []KeysWellFormed
<1>1. ASSUME ListInv, NEW i \in DOMAIN keys PROVE WellFormed(keys[i])
  BY <1>1, KeysAre
<1>2. ListInv => KeysWellFormed
  BY <1>1 DEF KeysWellFormed, WellFormed, DigitCodes
<1> QED BY <1>2, StartInv, StepInv, PTL DEF Spec

(* KeysInOrder: at any length of the list, its keys sort strictly in the order
   in which its items were meant to be, unless the last insertion was one of the
   lapses that LapseBefore, LapseAfter and LapseBetween name; and then they do
   not, so that nothing which the code orders is excused. *)
THEOREM OrderedKeys == Spec => []KeysInOrder
<1>1. ListInv => KeysInOrder
  <2> SUFFICES ASSUME ListInv PROVE KeysInOrder
    OBVIOUS
  <2>1. DOMAIN keys = 1 .. Len(keys) /\ \A i \in DOMAIN keys : WellFormed(keys[i])
    BY KeysAre
  <2>2. \A i, j \in DOMAIN keys : Sorts(keys[i], keys[j]) <=> Lower(keys[i], keys[j])
    BY <2>1, SortsIsLower
  <2>3. plain <=> \A i, j \in DOMAIN keys : i < j => Lower(keys[i], keys[j])
    BY <2>1, Zenon DEF ListInv, Ascending
  <2> QED BY <2>2, <2>3, Zenon DEF KeysInOrder
<1> QED BY <1>1, StartInv, StepInv, PTL DEF Spec

-----------------------------------------------------------------------------
(* The ranked tree.  Induction is by way of the least number not in a set. *)
LEMMA UpTo ==
  ASSUME NEW L \in Nat, NEW S, 0 \in S, \A n \in 1 .. L : n - 1 \in S => n \in S
  PROVE  \A n \in 0 .. L : n \in S
<1> DEFINE bad == (0 .. L) \ S
<1> SUFFICES ASSUME bad # {} PROVE FALSE
  OBVIOUS
<1>1. bad \subseteq Nat /\ bad # {}
  OBVIOUS
<1>2. Min(bad) \in bad /\ \A y \in bad : Min(bad) <= y
  <2> HIDE DEF bad
  <2> QED BY <1>1, LeastOf
<1>3. PICK m \in bad : \A y \in bad : m <= y
  <2> HIDE DEF bad
  <2> QED BY <1>2
<1>4. m \in 1 .. L /\ m - 1 \in 0 .. L
  OBVIOUS
<1>5. m - 1 \notin bad
  BY <1>3, <1>4
<1> QED BY <1>4, <1>5

LEMMA FiniteBounded ==
  ASSUME NEW S, S \subseteq Nat, IsFiniteSet(S)
  PROVE  \E n \in Nat : S \subseteq 0 .. n
<1> DEFINE Bounded(T) == \E n \in Nat : T \subseteq 0 .. n
           sizes == {n \in Nat : \E T \in SUBSET Nat :
                       IsFiniteSet(T) /\ Cardinality(T) = n /\ ~Bounded(T)}
<1> SUFFICES ASSUME ~Bounded(S) PROVE FALSE
  OBVIOUS
<1>1. Cardinality(S) \in sizes
  <2>1. Cardinality(S) \in Nat
    BY FS_CardinalityType
  <2> QED BY <2>1
<1>2. PICK m \in sizes : \A n \in sizes : m <= n
  <2>1. sizes \subseteq Nat /\ sizes # {}
    BY <1>1
  <2> HIDE DEF sizes
  <2> QED BY <2>1, LeastOf
<1>3. PICK T \in SUBSET Nat : IsFiniteSet(T) /\ Cardinality(T) = m /\ ~Bounded(T)
  OBVIOUS
<1>4. T # {}
  <2>1. Bounded({})
    OBVIOUS
  <2> HIDE DEF Bounded
  <2> QED BY <2>1, <1>3
<1>5. PICK x \in T : TRUE
  BY <1>4
<1>6. IsFiniteSet(T \ {x}) /\ Cardinality(T \ {x}) = m - 1 /\ m \in Nat
  BY <1>3, FS_RemoveElement
<1>7. m - 1 \in Nat /\ ~(m <= m - 1)
  BY <1>6, FS_CardinalityType
<1>8. Bounded(T \ {x})
  <2>1. m - 1 \notin sizes
    <3> HIDE DEF sizes
    <3> QED BY <1>2, <1>7
  <2> QED BY <1>6, <1>7, <2>1
<1>9. PICK n \in Nat : T \ {x} \subseteq 0 .. n
  BY <1>8
<1>10. n + x \in Nat /\ T \subseteq 0 .. (n + x)
  BY <1>9
<1> QED BY <1>3, <1>10

(* The keys of an entry map, and those that end a node of level l. *)
KeySet(S) == S \subseteq Keys /\ IsFiniteSet(S) /\ S # {}

Cuts(S, l) == {k \in S : Rank(k) > l \/ k = Max(S)}

LEMMA KeyMax ==
  ASSUME NEW S, KeySet(S)
  PROVE  /\ Max(S) \in S /\ S \subseteq Nat /\ S \subseteq Keys
         /\ \A y \in S : y <= Max(S) /\ Rank(y) \in 1 .. MaxRank
         /\ MaxRank \in Nat
<1>1. S \subseteq Nat /\ S \subseteq Keys /\ MaxRank \in Nat /\ IsFiniteSet(S) /\ S # {}
  BY RankedAssumption DEF KeySet
<1>2. PICK n \in Nat : S \subseteq 0 .. n
  BY <1>1, FiniteBounded
<1>3. Max(S) \in S /\ \A y \in S : y <= Max(S)
  BY <1>1, <1>2, GreatestOf
<1> QED BY <1>1, <1>3, RankedAssumption

LEMMA MaxIs ==
  ASSUME NEW S, S \subseteq Nat, NEW m \in S, \A y \in S : y <= m
  PROVE  Max(S) = m
<1>1. \A x \in S : (\A y \in S : y <= x) => x = m
  <2> SUFFICES ASSUME NEW x \in S, \A y \in S : y <= x PROVE x = m
    OBVIOUS
  <2>1. m <= x /\ x <= m /\ x \in Nat /\ m \in Nat
    OBVIOUS
  <2> QED BY <2>1
<1>2. \E x \in S : \A y \in S : x >= y
  OBVIOUS
<1>3. Max(S) \in S /\ \A y \in S : Max(S) >= y
  BY <1>2 DEF Max
<1>4. Max(S) \in Nat /\ m \in Nat /\ Max(S) >= m /\ m >= Max(S)
  BY <1>3
<1> QED BY <1>4

LEMMA MinIs ==
  ASSUME NEW S, S \subseteq Nat, NEW m \in S, \A y \in S : m <= y
  PROVE  Min(S) = m
<1>1. Min(S) \in S /\ \A y \in S : Min(S) <= y
  BY LeastOf
<1>2. Min(S) \in Nat /\ m \in Nat /\ Min(S) <= m /\ m <= Min(S)
  BY <1>1
<1> QED BY <1>2

LEMMA CutsAre ==
  ASSUME NEW S, KeySet(S), NEW l \in Nat
  PROVE  /\ KeySet(Cuts(S, l)) /\ Max(Cuts(S, l)) = Max(S) /\ Max(S) \in Cuts(S, l)
         /\ Cuts(S, l + 1) \subseteq Cuts(S, l) /\ Cuts(S, l) \subseteq S
         /\ Cuts(S, 0) = S
         /\ l >= MaxRank => Cuts(S, l) = {Max(S)}
<1>1. /\ Max(S) \in S /\ S \subseteq Nat /\ S \subseteq Keys
      /\ \A y \in S : y <= Max(S) /\ Rank(y) \in 1 .. MaxRank
      /\ MaxRank \in Nat /\ IsFiniteSet(S)
  BY KeyMax DEF KeySet
<1>2. Cuts(S, l) \subseteq S /\ Max(S) \in Cuts(S, l)
  BY <1>1 DEF Cuts
<1>3. IsFiniteSet(Cuts(S, l))
  BY <1>1, <1>2, FS_Subset
<1>4. KeySet(Cuts(S, l))
  BY <1>1, <1>2, <1>3 DEF KeySet
<1>5. Max(Cuts(S, l)) = Max(S)
  <2>1. Cuts(S, l) \subseteq Nat /\ \A y \in Cuts(S, l) : y <= Max(S)
    BY <1>1, <1>2
  <2> QED BY <1>2, <2>1, MaxIs
<1> DEFINE m == Max(S)
<1>a. \A y \in S : Rank(y) \in Int /\ Rank(y) > 0 /\ Rank(y) <= MaxRank
  BY <1>1
<1>b. Cuts(S, l) = {k \in S : Rank(k) > l \/ k = m}
  BY DEF Cuts
<1>c. Cuts(S, l + 1) = {k \in S : Rank(k) > l + 1 \/ k = m}
  BY DEF Cuts
<1>d. Cuts(S, 0) = {k \in S : Rank(k) > 0 \/ k = m}
  BY DEF Cuts
<1> HIDE DEF m
<1>6. Cuts(S, l + 1) \subseteq Cuts(S, l) /\ Cuts(S, 0) = S
  BY <1>a, <1>b, <1>c, <1>d
<1>7. l >= MaxRank => Cuts(S, l) = {Max(S)}
  <2> SUFFICES ASSUME l >= MaxRank PROVE Cuts(S, l) = {Max(S)}
    OBVIOUS
  <2>1. \A y \in S : ~(Rank(y) > l)
    BY <1>1, <1>a
  <2> QED BY <1>2, <2>1, <1>b DEF m
<1> QED BY <1>2, <1>4, <1>5, <1>6, <1>7

-----------------------------------------------------------------------------
(* The rows of the tree of f: row l has the nodes of level l by the keys that
   end them; row 0 are the entries. *)
Under(S, l, c) == {k \in Cuts(S, l - 1) : k <= c /\ \A b \in Cuts(S, l) : b < c => b < k}

RowsOf(row, f) ==
  /\ row[0] = f
  /\ \A l \in 1 .. MaxRank + 1 :
       row[l] = [c \in Cuts(DOMAIN f, l) |-> Adopt([k \in Under(DOMAIN f, l, c) |-> row[l - 1][k]], l)]

Rows(f) == CHOOSE row : RowsOf(row, f)

LEMMA RowsAre ==
  ASSUME NEW f
  PROVE  RowsOf(Rows(f), f)
<1> DEFINE next(x, l) == [c \in Cuts(DOMAIN f, l) |-> Adopt([k \in Under(DOMAIN f, l, c) |-> x[k]], l)]
           Is(g, m) == g = [n \in 0 .. m |-> IF n = 0 THEN f ELSE next(g[n - 1], n)]
           S == {m \in 0 .. MaxRank + 1 : \E g : Is(g, m)}
<1>0. MaxRank + 1 \in Nat
  BY RankedAssumption
<1>1. \A row : RowsOf(row, f) <=> row[0] = f /\ \A l \in 1 .. MaxRank + 1 : row[l] = next(row[l - 1], l)
  BY DEF RowsOf
<1> HIDE DEF next
<1>2. 0 \in S
  <2>1. Is([n \in 0 .. 0 |-> f], 0)
    OBVIOUS
  <2> HIDE DEF Is
  <2> QED BY <1>0, <2>1
<1>3. ASSUME NEW m \in 1 .. MaxRank + 1, m - 1 \in S PROVE m \in S
  <2>1. PICK g : Is(g, m - 1)
    BY <1>3
  <2> DEFINE h == [n \in 0 .. m |-> IF n = 0 THEN f ELSE next(g[n - 1], n)]
  <2>2. \A n \in 0 .. m - 1 : h[n] = g[n]
    BY <1>0, <2>1
  <2>3. \A n \in 0 .. m : n # 0 => n - 1 \in 0 .. m - 1
    BY <1>0
  <2>4. Is(h, m)
    BY <2>2, <2>3
  <2> HIDE DEF Is, h
  <2> QED BY <1>0, <2>4
<1>4. MaxRank + 1 \in S
  <2> HIDE DEF S
  <2>1. \A n \in 0 .. MaxRank + 1 : n \in S
    BY <1>0, <1>2, <1>3, UpTo
  <2> QED BY <1>0, <2>1
<1>5. PICK all : Is(all, MaxRank + 1)
  BY <1>4
<1>6. all[0] = f /\ \A n \in 1 .. MaxRank + 1 : all[n] = next(all[n - 1], n)
  BY <1>0, <1>5
<1>7. \E row : RowsOf(row, f)
  BY <1>1, <1>6
<1> QED BY <1>7 DEF Rows

(* The key that ends the node of level l which may hold k. *)
Cover(S, l, k) == Min({c \in Cuts(S, l) : k <= c} \cup {Max(S)})

LEMMA CoverIs ==
  ASSUME NEW S, KeySet(S), NEW l \in Nat, NEW k \in Nat
  PROVE  /\ Cover(S, l, k) \in Cuts(S, l) /\ Cover(S, l, k) \in Nat
         /\ k <= Max(S) =>
              k <= Cover(S, l, k) /\ \A b \in Cuts(S, l) : b < Cover(S, l, k) <=> b < k
         /\ ~(k <= Max(S)) => Cover(S, l, k) = Max(S)
<1> DEFINE C == {c \in Cuts(S, l) : k <= c} \cup {Max(S)}
<1>1. /\ Max(S) \in Nat /\ Max(S) \in Cuts(S, l) /\ Cuts(S, l) \subseteq Nat
      /\ \A y \in Cuts(S, l) : y <= Max(S)
  BY CutsAre, KeyMax
<1>2. Min(C) \in C /\ \A y \in C : Min(C) <= y
  BY <1>1, LeastOf
<1>3. Cover(S, l, k) = Min(C)
  BY DEF Cover
<1> HIDE DEF Cover
<1>4. Cover(S, l, k) \in Cuts(S, l) /\ Cover(S, l, k) \in Nat
  BY <1>1, <1>2, <1>3
<1>5. ASSUME k <= Max(S)
      PROVE  k <= Cover(S, l, k) /\ \A b \in Cuts(S, l) : b < Cover(S, l, k) <=> b < k
  <2>1. k <= Cover(S, l, k)
    BY <1>2, <1>3, <1>5
  <2>2. ASSUME NEW b \in Cuts(S, l) PROVE b < Cover(S, l, k) <=> b < k
    <3>1. b \in Nat /\ (k <= b => b \in C)
      BY <1>1
    <3>2. k <= b => Cover(S, l, k) <= b
      BY <1>2, <1>3, <3>1
    <3> HIDE DEF C
    <3> QED BY <1>4, <2>1, <3>1, <3>2
  <2> QED BY <2>1, <2>2
<1>6. ASSUME ~(k <= Max(S)) PROVE Cover(S, l, k) = Max(S)
  <2>1. \A c \in Cuts(S, l) : ~(k <= c)
    BY <1>1, <1>6
  <2> QED BY <1>2, <1>3, <2>1
<1> QED BY <1>4, <1>5, <1>6

(* The node that may hold k is the child of the one above that may. *)
LEMMA CoverUnder ==
  ASSUME NEW S, KeySet(S), NEW l \in Nat, NEW k \in Nat
  PROVE  Cover(S, l, k) \in Under(S, l + 1, Cover(S, l + 1, k))
<1> DEFINE c == Cover(S, l, k)
           d == Cover(S, l + 1, k)
<1>0. l + 1 \in Nat /\ l + 1 - 1 = l
  OBVIOUS
<1>1. /\ Max(S) \in Nat /\ Cuts(S, l) \subseteq Nat /\ Cuts(S, l + 1) \subseteq Cuts(S, l)
      /\ \A y \in Cuts(S, l) : y <= Max(S)
  BY CutsAre, KeyMax
<1>2. /\ c \in Cuts(S, l) /\ c \in Nat
      /\ k <= Max(S) => k <= c /\ \A b \in Cuts(S, l) : b < c <=> b < k
      /\ ~(k <= Max(S)) => c = Max(S)
  BY CoverIs
<1>3. /\ d \in Cuts(S, l + 1) /\ d \in Nat
      /\ k <= Max(S) => k <= d /\ \A b \in Cuts(S, l + 1) : b < d <=> b < k
      /\ ~(k <= Max(S)) => d = Max(S)
  BY <1>0, CoverIs
<1> HIDE DEF c, d
<1>4. c <= d
  <2>1. d \in Cuts(S, l)
    BY <1>1, <1>3
  <2> QED BY <1>1, <1>2, <1>3, <2>1
<1>5. ASSUME NEW b \in Cuts(S, l + 1), b < d PROVE b < c
  <2>1. b \in Nat
    BY <1>1
  <2>2. CASE k <= Max(S)
    <3>1. b < k /\ k <= c
      BY <2>2, <1>2, <1>3, <1>5
    <3> QED BY <1>2, <2>1, <3>1
  <2>3. CASE ~(k <= Max(S))
    BY <2>3, <1>2, <1>3, <1>5
  <2> QED BY <2>2, <2>3
<1> QED BY <1>0, <1>2, <1>4, <1>5 DEF Under, c, d

LEMMA ChildIs ==
  ASSUME NEW S, KeySet(S), NEW l \in Nat, NEW k \in Nat, NEW node,
         DOMAIN node.items = Under(S, l + 1, Cover(S, l + 1, k))
  PROVE  /\ Child(node, k) = Cover(S, l, k)
         /\ ChildrenFor(node, k) # {} <=> k <= Max(S)
         /\ k <= Max(S) => Min(ChildrenFor(node, k)) = Cover(S, l, k)
         /\ Max(DOMAIN node.items) = Cover(S, l + 1, k)
<1> DEFINE D == DOMAIN node.items
           c == Cover(S, l, k)
           d == Cover(S, l + 1, k)
<1>0. l + 1 \in Nat /\ l + 1 - 1 = l
  OBVIOUS
<1>1. /\ Max(S) \in Nat /\ Cuts(S, l) \subseteq Nat /\ Cuts(S, l + 1) \subseteq Cuts(S, l)
      /\ \A y \in Cuts(S, l) : y <= Max(S)
  BY CutsAre, KeyMax
<1>2. /\ c \in Cuts(S, l) /\ c \in Nat
      /\ k <= Max(S) => k <= c /\ \A b \in Cuts(S, l) : b < c <=> b < k
      /\ ~(k <= Max(S)) => c = Max(S)
  BY CoverIs
<1>3. /\ d \in Cuts(S, l + 1) /\ d \in Nat
      /\ k <= Max(S) => k <= d
      /\ ~(k <= Max(S)) => d = Max(S)
  BY <1>0, CoverIs
<1>4. c \in D
  BY CoverUnder
<1>5. D = {j \in Cuts(S, l) : j <= d /\ \A b \in Cuts(S, l + 1) : b < d => b < j}
  BY <1>0 DEF Under
<1> HIDE DEF c, d, D
<1>6. D \subseteq Nat /\ d \in D /\ \A j \in D : j <= d
  BY <1>1, <1>3, <1>5
<1>7. Max(D) = d
  BY <1>6, MaxIs
<1>8. ChildrenFor(node, k) = {b \in D : k <= b}
  BY DEF ChildrenFor, Covers, D
<1>9. CASE k <= Max(S)
  <2>1. \A b \in D : k <= b => c <= b
    <3> SUFFICES ASSUME NEW b \in D, k <= b PROVE c <= b
      OBVIOUS
    <3>1. b \in Cuts(S, l) /\ b \in Nat
      BY <1>1, <1>5
    <3> QED BY <1>9, <1>2, <3>1
  <2>2. c \in ChildrenFor(node, k) /\ ChildrenFor(node, k) \subseteq Nat
        /\ \A b \in ChildrenFor(node, k) : c <= b
    BY <1>2, <1>4, <1>6, <1>8, <1>9, <2>1
  <2>3. Min(ChildrenFor(node, k)) = c
    BY <2>2, MinIs
  <2>4. ChildrenFor(node, k) \cup {d} = ChildrenFor(node, k)
    BY <1>3, <1>6, <1>8, <1>9
  <2> QED BY <1>7, <1>9, <2>2, <2>3, <2>4 DEF Child, c, d, D
<1>10. CASE ~(k <= Max(S))
  <2>1. ChildrenFor(node, k) = {}
    <3>1. \A b \in D : b \in Nat /\ b <= Max(S)
      BY <1>1, <1>5
    <3> QED BY <1>1, <1>8, <1>10, <3>1
  <2>2. Min({d}) = d
    BY <1>3, MinIs
  <2>3. ChildrenFor(node, k) \cup {Max(D)} = {d}
    BY <1>7, <2>1
  <2>4. Child(node, k) = d
    BY <2>2, <2>3 DEF Child, D
  <2>5. c = d
    BY <1>2, <1>3, <1>10
  <2> QED BY <1>7, <1>10, <2>1, <2>4, <2>5 DEF c, d, D
<1> QED BY <1>9, <1>10

-----------------------------------------------------------------------------
(* A tree of height h; one of height 1 is the bare segment of a single call. *)
HasHeight(S, h) ==
  \/ /\ h \in 2 .. MaxRank + 1 /\ Cuts(S, h) = {Max(S)}
     /\ \A l \in 2 .. h - 1 : Cuts(S, l) # {Max(S)}
  \/ h = 1 /\ S = {Max(S)}

Formed(node, f, h) == node = Rows(f)[h][Max(DOMAIN f)] /\ HasHeight(DOMAIN f, h)

LEMMA HeightIs ==
  ASSUME NEW S, KeySet(S), NEW h, HasHeight(S, h)
  PROVE  /\ h \in 1 .. MaxRank + 1 /\ h \in Nat /\ MaxRank \in Nat /\ MaxRank + 1 \in Nat
         /\ Cuts(S, h) = {Max(S)}
<1>1. Max(S) \in S /\ MaxRank \in Nat /\ Rank(Max(S)) \in 1 .. MaxRank
  BY KeyMax
<1>2. CASE h = 1 /\ S = {Max(S)}
  <2>1. Cuts(S, h) = {Max(S)}
    BY <1>2 DEF Cuts
  <2> QED BY <1>1, <1>2, <2>1
<1>3. CASE h \in 2 .. MaxRank + 1 /\ Cuts(S, h) = {Max(S)}
  BY <1>1, <1>3
<1> QED BY <1>2, <1>3 DEF HasHeight

(* A node of the tree. *)
LEMMA NodeIs ==
  ASSUME NEW f, NEW l \in 1 .. MaxRank + 1, NEW c \in Cuts(DOMAIN f, l)
  PROVE  /\ Rows(f)[l][c].branch <=> l > 1
         /\ DOMAIN Rows(f)[l][c].items = Under(DOMAIN f, l, c)
         /\ \A k \in Under(DOMAIN f, l, c) : Rows(f)[l][c].items[k] = Rows(f)[l - 1][k]
         /\ DOMAIN Rows(f)[l] = Cuts(DOMAIN f, l)
<1>1. RowsOf(Rows(f), f)
  BY RowsAre
<1>2. Rows(f)[l][c] = Adopt([k \in Under(DOMAIN f, l, c) |-> Rows(f)[l - 1][k]], l)
  BY <1>1 DEF RowsOf
<1>3. DOMAIN Rows(f)[l] = Cuts(DOMAIN f, l)
  BY <1>1 DEF RowsOf
<1> DEFINE g == [k \in Under(DOMAIN f, l, c) |-> Rows(f)[l - 1][k]]
<1>4. DOMAIN g = Under(DOMAIN f, l, c) /\ \A k \in Under(DOMAIN f, l, c) : g[k] = Rows(f)[l - 1][k]
  OBVIOUS
<1> HIDE DEF g
<1>5. Rows(f)[l][c].items = g /\ Rows(f)[l][c].branch = (l > 1)
  BY <1>2 DEF Adopt, g
<1> QED BY <1>3, <1>4, <1>5

LEMMA PathSteps ==
  ASSUME NEW node, NEW k
  PROVE  /\ DOMAIN Path(node, k) = 0 .. MaxRank /\ Path(node, k)[0] = node
         /\ \A d \in 1 .. MaxRank : Path(node, k)[d] =
              IF Path(node, k)[d - 1].branch
              THEN Path(node, k)[d - 1].items[Child(Path(node, k)[d - 1], k)]
              ELSE Path(node, k)[d - 1]
<1> DEFINE next(x) == IF x.branch THEN x.items[Child(x, k)] ELSE x
           Is(g, m) == g = [n \in 0 .. m |-> IF n = 0 THEN node ELSE next(g[n - 1])]
           S == {m \in 0 .. MaxRank : \E g : Is(g, m)}
<1>0. MaxRank \in Nat
  BY RankedAssumption
<1>1. Path(node, k) = CHOOSE g : Is(g, MaxRank)
  BY DEF Path
<1> HIDE DEF next
<1>2. 0 \in S
  <2>1. Is([n \in 0 .. 0 |-> node], 0)
    OBVIOUS
  <2> HIDE DEF Is
  <2> QED BY <1>0, <2>1
<1>3. ASSUME NEW m \in 1 .. MaxRank, m - 1 \in S PROVE m \in S
  <2>1. PICK g : Is(g, m - 1)
    BY <1>3
  <2> DEFINE h == [n \in 0 .. m |-> IF n = 0 THEN node ELSE next(g[n - 1])]
  <2>2. \A n \in 0 .. m - 1 : h[n] = g[n]
    BY <1>0, <2>1
  <2>3. \A n \in 0 .. m : n # 0 => n - 1 \in 0 .. m - 1
    BY <1>0
  <2>4. Is(h, m)
    BY <2>2, <2>3
  <2> HIDE DEF Is, h
  <2> QED BY <1>0, <2>4
<1>4. MaxRank \in S
  <2> HIDE DEF S
  <2>1. \A n \in 0 .. MaxRank : n \in S
    BY <1>0, <1>2, <1>3, UpTo
  <2> QED BY <1>0, <2>1
<1>5. Is(Path(node, k), MaxRank)
  BY <1>1, <1>4
<1> DEFINE P == Path(node, k)
<1> HIDE DEF P
<1>6. P = [n \in 0 .. MaxRank |-> IF n = 0 THEN node ELSE next(P[n - 1])]
  BY <1>5 DEF P
<1>7. DOMAIN P = 0 .. MaxRank /\ P[0] = node /\ \A d \in 1 .. MaxRank : P[d] = next(P[d - 1])
  BY <1>0, <1>6
<1> QED BY <1>7 DEF P, next

LEMMA PathIs ==
  ASSUME NEW f, KeySet(DOMAIN f), NEW node, NEW h, Formed(node, f, h), NEW k \in Nat
  PROVE  /\ \A d \in 0 .. h - 1 : Path(node, k)[d] = Rows(f)[h - d][Cover(DOMAIN f, h - d, k)]
         /\ Depth(Path(node, k)) = h - 1
<1> DEFINE S == DOMAIN f
           P == Path(node, k)
           good == {d \in Nat : P[d] = Rows(f)[h - d][Cover(S, h - d, k)]}
<1>1. h \in 1 .. MaxRank + 1 /\ h \in Nat /\ MaxRank \in Nat /\ Cuts(S, h) = {Max(S)}
  BY HeightIs DEF Formed
<1>2. /\ DOMAIN P = 0 .. MaxRank /\ P[0] = node
      /\ \A d \in 1 .. MaxRank : P[d] = IF P[d - 1].branch THEN P[d - 1].items[Child(P[d - 1], k)]
                                        ELSE P[d - 1]
  BY PathSteps
<1>3. 0 \in good
  <2>1. Cover(S, h, k) = Max(S)
    BY <1>1, CoverIs
  <2> QED BY <1>1, <1>2, <2>1 DEF Formed
<1>4. ASSUME NEW d \in 0 .. h - 1, d \in good PROVE P[d].branch <=> d < h - 1
  <2>1. h - d \in 1 .. MaxRank + 1 /\ h - d \in Nat /\ (h - d > 1 <=> d < h - 1)
    BY <1>1
  <2>2. Cover(S, h - d, k) \in Cuts(S, h - d)
    BY <2>1, CoverIs
  <2> QED BY <1>4, <2>1, <2>2, NodeIs
<1>5. ASSUME NEW d \in 1 .. h - 1, d - 1 \in good PROVE d \in good
  <2> DEFINE l == h - d
             c == Cover(S, l, k)
  <2>1. /\ d - 1 \in 0 .. h - 1 /\ d - 1 < h - 1 /\ d \in 1 .. MaxRank /\ l \in Nat
        /\ h - (d - 1) = l + 1 /\ l + 1 \in 1 .. MaxRank + 1 /\ l + 1 - 1 = l /\ l + 1 \in Nat /\ d \in Nat
    BY <1>1
  <2> HIDE DEF l
  <2>2. P[d - 1] = Rows(f)[l + 1][Cover(S, l + 1, k)]
    BY <1>5, <2>1
  <2>3. P[d] = P[d - 1].items[Child(P[d - 1], k)]
    <3>1. P[d - 1].branch
      BY <1>4, <1>5, <2>1
    <3> QED BY <1>2, <2>1, <3>1
  <2>4. Cover(S, l + 1, k) \in Cuts(S, l + 1)
    BY <2>1, CoverIs
  <2>5. /\ DOMAIN P[d - 1].items = Under(S, l + 1, Cover(S, l + 1, k))
        /\ \A j \in Under(S, l + 1, Cover(S, l + 1, k)) : P[d - 1].items[j] = Rows(f)[l][j]
    BY <2>1, <2>2, <2>4, NodeIs
  <2>6. Child(P[d - 1], k) = c
    BY <2>1, <2>5, ChildIs
  <2>7. c \in Under(S, l + 1, Cover(S, l + 1, k))
    BY <2>1, CoverUnder
  <2>8. P[d] = Rows(f)[l][c]
    BY <2>3, <2>5, <2>6, <2>7
  <2> QED BY <2>1, <2>8 DEF l
<1>6. \A d \in 0 .. h - 1 : d \in good
  <2> HIDE DEF good
  <2>1. h - 1 \in Nat
    BY <1>1
  <2> QED BY <1>3, <1>5, <2>1, UpTo
<1>7. Depth(P) = h - 1
  <2>1. {d \in DOMAIN P : ~P[d].branch} \subseteq Nat
    BY <1>1, <1>2
  <2>2. h - 1 \in {d \in DOMAIN P : ~P[d].branch}
    <3>1. h - 1 \in 0 .. h - 1 /\ h - 1 \in 0 .. MaxRank
      BY <1>1
    <3> QED BY <1>1, <1>2, <1>4, <1>6, <3>1
  <2>3. \A d \in {d \in DOMAIN P : ~P[d].branch} : h - 1 <= d
    <3> SUFFICES ASSUME NEW d \in 0 .. MaxRank, ~P[d].branch, ~(h - 1 <= d) PROVE FALSE
      BY <1>2
    <3>1. d \in 0 .. h - 1 /\ d < h - 1
      BY <1>1
    <3> QED BY <1>4, <1>6, <3>1
  <2> QED BY <2>1, <2>2, <2>3, MinIs DEF Depth
<1> QED BY <1>6, <1>7

(* A lookup finds what the entries have. *)
LEMMA GetIs ==
  ASSUME NEW f, KeySet(DOMAIN f), NEW node, NEW h, Formed(node, f, h), NEW k \in Keys
  PROVE  Get(node, k) = IF k \in DOMAIN f THEN f[k] ELSE None
<1> DEFINE S == DOMAIN f
           P == Path(node, k)
           c == Cover(S, 1, k)
<1>1. h \in 1 .. MaxRank + 1 /\ h \in Nat /\ MaxRank \in Nat /\ MaxRank + 1 \in Nat /\ k \in Nat
  BY HeightIs, RankedAssumption DEF Formed
<1>2. /\ \A d \in 0 .. h - 1 : P[d] = Rows(f)[h - d][Cover(S, h - d, k)]
      /\ Depth(P) = h - 1
  BY <1>1, PathIs
<1>3. P[h - 1] = Rows(f)[1][c]
  <2>1. h - 1 \in 0 .. h - 1 /\ h - (h - 1) = 1
    BY <1>1
  <2> QED BY <1>2, <2>1
<1>4. c \in Cuts(S, 1)
  BY <1>1, CoverIs
<1>5. /\ DOMAIN P[h - 1].items = Under(S, 1, c)
      /\ \A j \in Under(S, 1, c) : P[h - 1].items[j] = f[j]
  <2>1. 1 \in 1 .. MaxRank + 1 /\ 1 - 1 = 0
    BY <1>1
  <2>2. Rows(f)[0] = f
    BY RowsAre DEF RowsOf
  <2> QED BY <1>3, <1>4, <2>1, <2>2, NodeIs
<1>6. Get(node, k) =
        IF k \in Under(S, 1, c) /\ \A d \in 0 .. h - 1 - 1 : ChildrenFor(P[d], k) # {}
        THEN f[k] ELSE None
  <2> HIDE DEF P, c
  <2>1. Get(node, k) = IF k \in DOMAIN P[h - 1].items /\ \A d \in 0 .. h - 1 - 1 : ChildrenFor(P[d], k) # {}
                       THEN P[h - 1].items[k] ELSE None
    BY <1>2 DEF Get, P
  <2> QED BY <1>5, <2>1
<1>7. CASE k \in S
  <2>1. k <= Max(S)
    BY <1>7, KeyMax
  <2>2. k \in Under(S, 1, c)
    <3>1. k <= c /\ \A b \in Cuts(S, 1) : b < c <=> b < k
      BY <1>1, <2>1, CoverIs
    <3>2. k \in Cuts(S, 1 - 1)
      BY <1>7, CutsAre
    <3> QED BY <3>1, <3>2 DEF Under
  <2>3. ASSUME NEW d \in 0 .. h - 1 - 1 PROVE ChildrenFor(P[d], k) # {}
    <3> DEFINE l == h - d - 1
    <3>1. l \in Nat /\ l + 1 = h - d /\ l + 1 \in 1 .. MaxRank + 1 /\ d \in 0 .. h - 1 /\ l + 1 \in Nat
      BY <1>1
    <3> HIDE DEF l
    <3>2. P[d] = Rows(f)[l + 1][Cover(S, l + 1, k)]
      BY <1>2, <3>1
    <3>3. Cover(S, l + 1, k) \in Cuts(S, l + 1)
      BY <1>1, <3>1, CoverIs
    <3>4. DOMAIN P[d].items = Under(S, l + 1, Cover(S, l + 1, k))
      BY <3>1, <3>2, <3>3, NodeIs
    <3> DEFINE there == P[d]
    <3> HIDE DEF P, there
    <3>5. DOMAIN there.items = Under(S, l + 1, Cover(S, l + 1, k))
      BY <3>4 DEF there
    <3>6. ChildrenFor(there, k) # {} <=> k <= Max(S)
      BY <1>1, <3>1, <3>5, ChildIs
    <3> QED BY <2>1, <3>6 DEF there
  <2> QED BY <1>6, <1>7, <2>2, <2>3
<1>8. CASE k \notin S
  <2>1. k \notin Under(S, 1, c)
    <3>1. Cuts(S, 1 - 1) = S
      BY CutsAre
    <3> QED BY <1>8, <3>1 DEF Under
  <2> QED BY <1>6, <1>8, <2>1
<1> QED BY <1>7, <1>8

-----------------------------------------------------------------------------
(* What join_with_rank makes of a window on a row: the part of the next row in
   that window, if the window ends where nodes of the next row end. *)
FitsRow(W, S, l) ==
  /\ \A b \in Cuts(S, l) \ W : \A x, y \in W : b < x => b < y
  /\ \A x \in W \cap Cuts(S, l) : \A y \in Cuts(S, l - 1) \ W :
       y <= x => \E b \in Cuts(S, l) \ W : y <= b /\ b < x
  /\ \E m \in W \cap Cuts(S, l) : \A y \in W \cap Cuts(S, l - 1) : y <= m

(* The rank of the greatest key of all does not matter. *)
Shows(ranked, f, l, W) ==
  /\ DOMAIN ranked.items = Cuts(DOMAIN f, l) \cap W
  /\ DOMAIN ranked.rank = DOMAIN ranked.items
  /\ \A k \in DOMAIN ranked.items :
       /\ ranked.items[k] = Rows(f)[l][k]
       /\ k # Max(DOMAIN f) => ranked.rank[k] = Rank(k)

LEMMA JoinShows ==
  ASSUME NEW f, KeySet(DOMAIN f), NEW l \in 1 .. MaxRank + 1, NEW W, W \subseteq Nat,
         FitsRow(W, DOMAIN f, l), NEW ranked, Shows(ranked, f, l - 1, W)
  PROVE  Shows(JoinWithRank(ranked, l), f, l, W)
<1> DEFINE S == DOMAIN f
           K == DOMAIN ranked.items
           J == JoinWithRank(ranked, l)
           cuts == {k \in K : ranked.rank[k] > l \/ k = Max(K)}
           pending(c) == {k \in K : k <= c /\ \A b \in cuts : b < c => b < k}
           rows == Rows(f)
<1>0. /\ l \in Nat /\ l - 1 \in Nat /\ l - 1 + 1 = l
      /\ Max(S) \in Nat /\ Cuts(S, l) \subseteq Cuts(S, l - 1) /\ Cuts(S, l - 1) \subseteq S
      /\ Max(S) \in Cuts(S, l) /\ \A y \in S : y <= Max(S) /\ y \in Nat
  <2>1. l \in Nat /\ l - 1 \in Nat /\ l - 1 + 1 = l
    BY RankedAssumption
  <2> QED BY <2>1, CutsAre, KeyMax
<1>1. K = Cuts(S, l - 1) \cap W /\ \A k \in K : ranked.items[k] = rows[l - 1][k]
  BY DEF Shows
<1>2. \A k \in K : k # Max(S) => ranked.rank[k] = Rank(k)
  BY DEF Shows
<1>3. \A k \in S : k \in Cuts(S, l) <=> Rank(k) > l \/ k = Max(S)
  BY DEF Cuts
<1>4. J.items = [c \in cuts |-> Adopt([k \in pending(c) |-> ranked.items[k]], l)]
      /\ J.rank = [c \in cuts |-> IF ranked.rank[c] > l THEN ranked.rank[c] ELSE l]
  BY DEF JoinWithRank
<1> HIDE DEF S, K, rows, J
<1>5. Max(K) \in K /\ Max(K) \in Cuts(S, l) /\ \A y \in K : y <= Max(K)
  <2>1. PICK m \in W \cap Cuts(S, l) : \A y \in W \cap Cuts(S, l - 1) : y <= m
    BY DEF FitsRow, S
  <2>2. m \in K /\ K \subseteq Nat /\ \A y \in K : y <= m
    BY <1>0, <1>1, <2>1
  <2>3. Max(K) = m
    BY <2>2, MaxIs
  <2> QED BY <2>1, <2>2, <2>3
<1>6. cuts = Cuts(S, l) \cap W
  <2>1. ASSUME NEW k \in cuts PROVE k \in Cuts(S, l) \cap W
    <3>1. k \in K /\ k \in S /\ k \in W
      BY <1>0, <1>1
    <3>2. CASE k = Max(K)
      BY <1>5, <3>1, <3>2
    <3>3. CASE ranked.rank[k] > l
      BY <1>2, <1>3, <3>1, <3>3
    <3> QED BY <3>2, <3>3
  <2>2. ASSUME NEW k \in Cuts(S, l) \cap W PROVE k \in cuts
    <3>1. k \in K /\ k \in S
      BY <1>0, <1>1
    <3>2. CASE k = Max(S)
      <4>1. Max(K) \in Nat /\ k <= Max(K) /\ Max(K) <= k
        BY <1>0, <1>1, <1>5, <3>1, <3>2
      <4>2. Max(K) = k
        BY <1>0, <3>1, <4>1
      <4> QED BY <3>1, <4>2
    <3>3. CASE k # Max(S)
      BY <1>2, <1>3, <3>1, <3>3
    <3> QED BY <3>2, <3>3
  <2> QED BY <2>1, <2>2
<1>7. ASSUME NEW c \in Cuts(S, l) \cap W PROVE pending(c) = Under(S, l, c)
  <2> HIDE DEF cuts
  <2>1. ASSUME NEW k \in pending(c) PROVE k \in Under(S, l, c)
    <3>1. k \in Cuts(S, l - 1) /\ k \in W /\ k <= c
      BY <1>1
    <3>2. ASSUME NEW b \in Cuts(S, l), b < c PROVE b < k
      <4>1. CASE b \in W
        BY <4>1, <1>6, <3>2
      <4>2. CASE b \notin W
        <5>1. \A x, y \in W : b < x => b < y
          BY <4>2, <3>2 DEF FitsRow, S
        <5> QED BY <1>7, <3>1, <3>2, <5>1
      <4> QED BY <4>1, <4>2
    <3> QED BY <3>1, <3>2 DEF Under
  <2>2. ASSUME NEW k \in Under(S, l, c) PROVE k \in pending(c)
    <3>1. k \in Cuts(S, l - 1) /\ k <= c /\ \A b \in Cuts(S, l) : b < c => b < k
      BY DEF Under
    <3>2. k \in W
      <4> SUFFICES ASSUME k \notin W PROVE FALSE
        OBVIOUS
      <4>1. PICK b \in Cuts(S, l) \ W : k <= b /\ b < c
        BY <1>7, <3>1 DEF FitsRow, S
      <4>2. b < k /\ b \in Nat /\ k \in Nat
        BY <1>0, <3>1, <4>1
      <4> QED BY <4>1, <4>2
    <3> QED BY <1>1, <1>6, <3>1, <3>2
  <2> QED BY <2>1, <2>2
<1>8. ASSUME NEW c \in Cuts(S, l) \cap W PROVE J.items[c] = rows[l][c]
  <2>1. J.items[c] = Adopt([k \in pending(c) |-> ranked.items[k]], l)
    BY <1>4, <1>6
  <2>2. [k \in pending(c) |-> ranked.items[k]] = [k \in Under(S, l, c) |-> rows[l - 1][k]]
    <3>1. \A k \in pending(c) : ranked.items[k] = rows[l - 1][k]
      BY <1>1
    <3> HIDE DEF pending
    <3> QED BY <1>7, <3>1
  <2>3. rows[l][c] = Adopt([k \in Under(S, l, c) |-> rows[l - 1][k]], l)
    <3>1. RowsOf(rows, f)
      BY RowsAre DEF rows
    <3>2. rows[l] = [d \in Cuts(S, l) |-> Adopt([k \in Under(S, l, d) |-> rows[l - 1][k]], l)]
      BY <3>1 DEF RowsOf, S
    <3> QED BY <3>2
  <2> HIDE DEF pending
  <2> QED BY Zenon, <2>1, <2>2, <2>3
<1>9. ASSUME NEW c \in Cuts(S, l) \cap W, c # Max(S) PROVE J.rank[c] = Rank(c)
  <2>1. c \in K /\ c \in S
    BY <1>0, <1>1
  <2>2. ranked.rank[c] = Rank(c) /\ Rank(c) > l
    BY <1>2, <1>3, <1>9, <2>1
  <2> QED BY <1>4, <1>6, <2>2
<1>10. DOMAIN J.items = Cuts(S, l) \cap W /\ DOMAIN J.rank = Cuts(S, l) \cap W
  BY <1>4, <1>6
<1> QED BY <1>8, <1>9, <1>10 DEF Shows, S, J, rows

-----------------------------------------------------------------------------
(* One key more: the rows change in one window each, that of the node which may
   hold the key. *)
Window(S, l, k) ==
  {x \in Nat : /\ Cover(S, l, k) = Max(S) \/ x <= Cover(S, l, k)
               /\ \A b \in Cuts(S, l) : b < Cover(S, l, k) => b < x}

LEMMA GrownCuts ==
  ASSUME NEW S, KeySet(S), NEW k \in Keys, NEW l \in Nat
  PROVE  /\ KeySet(S \cup {k}) /\ k \in Nat
         /\ k <= Max(S) => Max(S \cup {k}) = Max(S) /\ Max(S) \in Cuts(S \cup {k}, l)
         /\ ~(k <= Max(S)) => Max(S \cup {k}) = k
         /\ \A b \in Cuts(S, l) : b # Max(S) => b \in Cuts(S \cup {k}, l)
         /\ Cuts(S \cup {k}, l) \subseteq Cuts(S, l) \cup {k}
<1>1. /\ Max(S) \in S /\ S \subseteq Nat /\ S \subseteq Keys /\ IsFiniteSet(S) /\ k \in Nat
      /\ \A y \in S : y <= Max(S)
  BY KeyMax, RankedAssumption DEF KeySet
<1>2. KeySet(S \cup {k})
  BY <1>1, FS_AddElement DEF KeySet
<1> DEFINE m == Max(S)
           n == Max(S \cup {k})
<1>3. k <= m => n = m
  <2> SUFFICES ASSUME k <= m PROVE n = m
    OBVIOUS
  <2>1. \A y \in S \cup {k} : y <= m
    BY <1>1
  <2> HIDE DEF m
  <2> QED BY <1>1, <2>1, MaxIs DEF m
<1>4. ~(k <= m) => n = k
  <2> SUFFICES ASSUME ~(k <= m) PROVE n = k
    OBVIOUS
  <2>1. \A y \in S \cup {k} : y <= k
    <3>1. m \in Nat /\ \A y \in S : y \in Nat /\ y <= m
      BY <1>1
    <3> HIDE DEF m
    <3> QED BY <1>1, <3>1
  <2>2. S \cup {k} \subseteq Nat /\ k \in S \cup {k}
    BY <1>1
  <2> QED BY <2>1, <2>2, MaxIs
<1> HIDE DEF m, n
<1>5. m \in S
  BY <1>1 DEF m
<1>6. Cuts(S, l) = {x \in S : Rank(x) > l \/ x = m}
  BY DEF Cuts, m
<1>7. Cuts(S \cup {k}, l) = {x \in S \cup {k} : Rank(x) > l \/ x = n}
  BY DEF Cuts, n
<1>8. k <= m => m \in Cuts(S \cup {k}, l)
  BY <1>3, <1>5, <1>7
<1>9. \A b \in Cuts(S, l) : b # m => b \in Cuts(S \cup {k}, l)
  BY <1>6, <1>7
<1>10. Cuts(S \cup {k}, l) \subseteq Cuts(S, l) \cup {k}
  BY <1>3, <1>4, <1>6, <1>7
<1> QED BY <1>1, <1>2, <1>3, <1>4, <1>8, <1>9, <1>10 DEF m, n

LEMMA WindowHas ==
  ASSUME NEW S, KeySet(S), NEW k \in Keys, NEW l \in Nat
  PROVE  /\ k \in Window(S, l, k) /\ Cover(S, l, k) \in Window(S, l, k)
         /\ Window(S, l, k) \subseteq Nat
         /\ \A x \in Cuts(S, l) : x \in Window(S, l, k) => x = Cover(S, l, k)
<1> DEFINE c == Cover(S, l, k)
           m == Max(S)
<1>1. /\ c \in Cuts(S, l) /\ c \in Nat /\ k \in Nat
      /\ k <= m => k <= c /\ \A b \in Cuts(S, l) : b < c <=> b < k
      /\ ~(k <= m) => c = m
  BY CoverIs, RankedAssumption
<1>2. m \in Nat /\ \A y \in Cuts(S, l) : y \in Nat /\ y <= m
  BY CutsAre, KeyMax
<1>3. Window(S, l, k) = {x \in Nat : (c = m \/ x <= c) /\ \A b \in Cuts(S, l) : b < c => b < x}
  BY DEF Window
<1> HIDE DEF c, m
<1>4. k \in Window(S, l, k)
  BY <1>1, <1>2, <1>3
<1>5. c \in Window(S, l, k)
  BY <1>1, <1>2, <1>3
<1>6. \A x \in Cuts(S, l) : x \in Window(S, l, k) => x = c
  <2> SUFFICES ASSUME NEW x \in Cuts(S, l), x \in Window(S, l, k) PROVE x = c
    OBVIOUS
  <2>1. x \in Nat /\ x <= c
    BY <1>2, <1>3
  <2>2. ~(x < c)
    BY <1>3, <2>1
  <2> QED BY <1>1, <2>1, <2>2
<1> QED BY <1>3, <1>4, <1>5, <1>6 DEF c

LEMMA WindowFits ==
  ASSUME NEW S, KeySet(S), NEW k \in Keys, NEW l \in Nat \ {0}
  PROVE  FitsRow(Window(S, l, k), S \cup {k}, l)
<1> DEFINE c == Cover(S, l, k)
           m == Max(S)
           W == Window(S, l, k)
           U == S \cup {k}
<1>0. l \in Nat /\ l - 1 \in Nat /\ l - 1 + 1 = l
  OBVIOUS
<1>1. /\ c \in Cuts(S, l) /\ c \in Nat
      /\ ~(k <= m) => c = m
  BY CoverIs, RankedAssumption
<1>2. m \in Nat /\ m \in Cuts(S, l) /\ \A y \in Cuts(S, l) : y \in Nat /\ y <= m
  BY CutsAre, KeyMax
<1>3. W = {x \in Nat : (c = m \/ x <= c) /\ \A b \in Cuts(S, l) : b < c => b < x}
  BY DEF Window
<1>4. k \in W /\ c \in W /\ k \in Nat
  BY <1>0, WindowHas, RankedAssumption
<1>5. /\ KeySet(U)
      /\ k <= m => Max(U) = m /\ m \in Cuts(U, l)
      /\ ~(k <= m) => Max(U) = k
      /\ \A b \in Cuts(S, l) : b # m => b \in Cuts(U, l)
      /\ Cuts(U, l) \subseteq Cuts(S, l) \cup {k}
  BY <1>0, GrownCuts
<1>6. /\ Max(U) \in Cuts(U, l) /\ Cuts(U, l) \subseteq Cuts(U, l - 1)
      /\ \A y \in Cuts(U, l - 1) : y \in Nat /\ y <= Max(U)
  <2>1. /\ Max(U) \in Cuts(U, l) /\ Cuts(U, l - 1) \subseteq U
        /\ Cuts(U, l - 1 + 1) \subseteq Cuts(U, l - 1)
    <3> HIDE DEF U
    <3> QED BY <1>0, <1>5, CutsAre
  <2>2. U \subseteq Nat /\ \A y \in U : y <= Max(U)
    <3> HIDE DEF U
    <3> QED BY <1>5, KeyMax
  <2> QED BY <1>0, <2>1, <2>2
<1> HIDE DEF c, m, W, U
<1>7. ASSUME NEW b \in Cuts(U, l) \ W, NEW x \in W, NEW y \in W, b < x PROVE b < y
  <2>1. b \in Cuts(S, l) /\ b \in Nat /\ x \in Nat /\ y \in Nat
    BY <1>2, <1>3, <1>4, <1>5
  <2>2. PICK a \in Cuts(S, l) : a < c /\ ~(a < b)
    <3>1. c = m \/ b <= c
      BY <1>1, <1>3, <1>7, <2>1
    <3> QED BY <1>3, <2>1, <3>1
  <2>3. a < y /\ a \in Nat
    BY <1>2, <1>3, <2>2
  <2> QED BY <2>1, <2>2, <2>3
<1>8. ASSUME NEW x \in W \cap Cuts(U, l), NEW y \in Cuts(U, l - 1) \ W, y <= x
      PROVE  \E b \in Cuts(U, l) \ W : y <= b /\ b < x
  <2>1. x \in Nat /\ y \in Nat
    BY <1>3, <1>6
  <2>2. PICK a \in Cuts(S, l) : a < c /\ ~(a < y)
    <3>1. c = m \/ y <= c
      BY <1>1, <1>3, <1>8, <2>1
    <3> QED BY <1>3, <2>1, <3>1
  <2>3. a < x /\ a \in Nat /\ a # m /\ a \notin W
    BY <1>1, <1>2, <1>3, <2>2
  <2> QED BY <1>5, <2>1, <2>2, <2>3
<1>9. \E n \in W \cap Cuts(U, l) : \A y \in W \cap Cuts(U, l - 1) : y <= n
  <2>1. CASE c = m
    <3>1. Max(U) \in Nat /\ m <= Max(U)
      BY <1>2, <1>4, <1>5
    <3>2. Max(U) \in W
      BY <1>2, <1>3, <2>1, <3>1
    <3> QED BY <1>6, <3>2
  <2>2. CASE c # m
    BY <1>1, <1>3, <1>4, <1>5, <2>2
  <2> QED BY <2>1, <2>2
<1> QED BY <1>7, <1>8, <1>9 DEF FitsRow, U, W

LEMMA WithIs ==
  ASSUME NEW f, NEW k, NEW v
  PROVE  /\ DOMAIN With(f, k, v) = DOMAIN f \cup {k}
         /\ \A x \in DOMAIN f \cup {k} : With(f, k, v)[x] = IF x = k THEN v ELSE f[x]
BY DEF With

(* Outside of the window, nodes stay. *)
Stays(f, g, l, k) ==
  /\ \A x \in Cuts(DOMAIN f, l) : x # Cover(DOMAIN f, l, k) =>
       /\ x \in Cuts(DOMAIN g, l) /\ x \notin Window(DOMAIN f, l, k)
       /\ Rows(g)[l][x] = Rows(f)[l][x]
  /\ \A x \in Cuts(DOMAIN g, l) : x \notin Window(DOMAIN f, l, k) =>
       x \in Cuts(DOMAIN f, l) /\ x # Cover(DOMAIN f, l, k)

LEMMA CutsStay ==
  ASSUME NEW S, KeySet(S), NEW k \in Keys, NEW l \in Nat
  PROVE  /\ \A x \in Cuts(S, l) : x # Cover(S, l, k) =>
              x \in Cuts(S \cup {k}, l) /\ x \notin Window(S, l, k) /\ x # k
         /\ \A x \in Cuts(S \cup {k}, l) : x \notin Window(S, l, k) =>
              x \in Cuts(S, l) /\ x # Cover(S, l, k)
<1>1. /\ k \in Nat /\ k <= Max(S) => Max(S) \in Cuts(S \cup {k}, l)
      /\ \A b \in Cuts(S, l) : b # Max(S) => b \in Cuts(S \cup {k}, l)
      /\ Cuts(S \cup {k}, l) \subseteq Cuts(S, l) \cup {k}
  BY GrownCuts
<1>2. /\ k \in Window(S, l, k) /\ Cover(S, l, k) \in Window(S, l, k)
      /\ \A x \in Cuts(S, l) : x \in Window(S, l, k) => x = Cover(S, l, k)
  BY WindowHas
<1>3. k \in Nat /\ (~(k <= Max(S)) => Cover(S, l, k) = Max(S))
  BY CoverIs, RankedAssumption
<1> QED BY <1>1, <1>2, <1>3

LEMMA NodesStay ==
  ASSUME NEW f, KeySet(DOMAIN f), NEW k \in Keys, NEW v
  PROVE  \A l \in 0 .. MaxRank + 1 : Stays(f, With(f, k, v), l, k)
<1> DEFINE S == DOMAIN f
           g == With(f, k, v)
           U == DOMAIN g
           stay == {l \in 0 .. MaxRank + 1 : Stays(f, g, l, k)}
<1>0. MaxRank + 1 \in Nat /\ MaxRank \in Nat /\ k \in Nat /\ Max(S) \in Nat /\ S \subseteq Nat
      /\ \A y \in S : y <= Max(S)
  BY RankedAssumption, KeyMax
<1>1. U = S \cup {k} /\ \A x \in S : x # k => g[x] = f[x]
  <2>1. DOMAIN g = S \cup {k}
    BY WithIs
  <2>2. \A x \in S \cup {k} : g[x] = IF x = k THEN v ELSE f[x]
    BY DEF With
  <2>3. \A x \in S : x # k => g[x] = f[x]
    <3> HIDE DEF g, S
    <3> QED BY <2>2
  <2> HIDE DEF g, S
  <2> QED BY <2>1, <2>3
<1>2. ASSUME NEW l \in Nat
      PROVE  /\ \A x \in Cuts(S, l) : x # Cover(S, l, k) =>
                  x \in Cuts(U, l) /\ x \notin Window(S, l, k) /\ x # k
             /\ \A x \in Cuts(U, l) : x \notin Window(S, l, k) =>
                  x \in Cuts(S, l) /\ x # Cover(S, l, k)
  BY <1>1, CutsStay
<1> HIDE DEF g, S, U
<1>3. 0 \in stay
  <2>1. Rows(g)[0] = g /\ Rows(f)[0] = f
    BY RowsAre DEF RowsOf
  <2>2. Cuts(S, 0) = S
    BY CutsAre DEF S
  <2>3. Stays(f, g, 0, k)
    BY <1>1, <1>2, <2>1, <2>2 DEF Stays, S, U
  <2> QED BY <1>0, <2>3
<1>4. ASSUME NEW l \in 1 .. MaxRank + 1, l - 1 \in stay PROVE l \in stay
  <2>0. l \in Nat /\ l - 1 \in Nat /\ l - 1 + 1 = l
    BY <1>0
  <2>1. Stays(f, g, l - 1, k)
    BY <1>4
  <2> DEFINE c == Cover(S, l, k)
             d == Cover(S, l - 1, k)
  <2>2. /\ c \in Cuts(S, l) /\ c \in Nat
        /\ k <= Max(S) => k <= c /\ \A b \in Cuts(S, l) : b < c <=> b < k
        /\ ~(k <= Max(S)) => c = Max(S)
    BY <1>0, <2>0, CoverIs DEF S
  <2>3. d \in Under(S, l, c)
    BY <1>0, <2>0, CoverUnder DEF S
  <2>4. /\ \A b \in Cuts(S, l) : b \in Nat /\ b \in S /\ b <= Max(S)
        /\ \A b \in Cuts(S, l - 1) : b \in Nat /\ b \in S /\ b <= Max(S)
    BY <1>0, <2>0, CutsAre DEF S
  <2>5. /\ \A b \in Cuts(S, l) : b # Max(S) => b \in Cuts(U, l)
        /\ Cuts(U, l) \subseteq Cuts(S, l) \cup {k}
        /\ Cuts(U, l - 1) \subseteq Cuts(S, l - 1) \cup {k}
    BY <1>0, <1>1, <2>0, GrownCuts DEF S
  <2>6. /\ \A x \in Cuts(S, l - 1) : x # d => x \in Cuts(U, l - 1) /\ Rows(g)[l - 1][x] = Rows(f)[l - 1][x]
    BY <2>1 DEF Stays, S, U
  <2> HIDE DEF c, d
  <2>7. ASSUME NEW x \in Cuts(S, l), x # c PROVE Rows(g)[l][x] = Rows(f)[l][x]
    <3>0. x \in Nat /\ x <= Max(S) /\ x \in Cuts(U, l)
      BY <1>2, <2>0, <2>4, <2>7 DEF c
    <3>1. ASSUME NEW y \in Under(S, l, x) PROVE y \in Under(U, l, x) /\ y # d
      <4>1. y \in Cuts(S, l - 1) /\ y <= x /\ \A b \in Cuts(S, l) : b < x => b < y
        BY DEF Under
      <4>2. y \in Nat
        BY <2>4, <4>1
      <4>3. d \in Cuts(S, l - 1) /\ d <= c /\ \A b \in Cuts(S, l) : b < c => b < d
        BY <2>3 DEF Under
      <4>4. y # d
        <5>1. CASE x < c
          <6>1. x < d
            BY <4>3, <5>1
          <6> QED BY <2>4, <3>0, <4>1, <4>2, <4>3, <6>1
        <5>2. CASE c < x
          <6>1. c < y
            BY <2>2, <4>1, <5>2
          <6> QED BY <2>2, <2>4, <4>2, <4>3, <6>1
        <5> QED BY <2>2, <2>7, <3>0, <5>1, <5>2
      <4>5. ASSUME NEW b \in Cuts(U, l), b < x PROVE b < y
        <5>1. CASE b \in Cuts(S, l)
          BY <4>1, <4>5, <5>1
        <5>2. CASE b \notin Cuts(S, l)
          <6>1. b = k /\ k <= Max(S)
            BY <1>0, <2>5, <3>0, <4>5, <5>2
          <6>2. c < x
            BY <1>0, <2>2, <2>7, <3>0, <4>5, <6>1
          <6>3. c < y /\ k <= c
            BY <2>2, <4>1, <6>1, <6>2
          <6> QED BY <1>0, <2>2, <4>2, <6>1, <6>3
        <5> QED BY <5>1, <5>2
      <4> QED BY <2>6, <4>1, <4>4, <4>5 DEF Under
    <3>2. ASSUME NEW y \in Under(U, l, x) PROVE y \in Under(S, l, x)
      <4>1. y \in Cuts(U, l - 1) /\ y <= x /\ \A b \in Cuts(U, l) : b < x => b < y
        BY DEF Under
      <4>2. y \in Cuts(S, l - 1)
        <5> SUFFICES ASSUME y \notin Cuts(S, l - 1) PROVE FALSE
          OBVIOUS
        <5>1. y = k /\ k <= x /\ k <= Max(S)
          BY <1>0, <2>5, <3>0, <4>1
        <5>2. c < x
          BY <1>0, <2>2, <2>7, <3>0, <5>1
        <5>3. c # Max(S)
          BY <1>0, <2>2, <3>0, <5>2
        <5>4. c < k /\ k <= c
          BY <2>2, <2>5, <4>1, <5>1, <5>2, <5>3
        <5> QED BY <1>0, <2>2, <5>4
      <4>3. ASSUME NEW b \in Cuts(S, l), b < x PROVE b < y
        <5>1. b # Max(S)
          BY <1>0, <2>4, <3>0, <4>3
        <5> QED BY <2>5, <4>1, <4>3, <5>1
      <4> QED BY <4>1, <4>2, <4>3 DEF Under
    <3>3. Under(U, l, x) = Under(S, l, x)
      BY <3>1, <3>2
    <3>4. \A y \in Under(S, l, x) : Rows(g)[l - 1][y] = Rows(f)[l - 1][y]
      BY <2>6, <3>1 DEF Under
    <3>5. RowsOf(Rows(f), f) /\ RowsOf(Rows(g), g)
      BY RowsAre
    <3>6. Rows(f)[l] = [z \in Cuts(S, l) |-> Adopt([y \in Under(S, l, z) |-> Rows(f)[l - 1][y]], l)]
      BY <3>5 DEF RowsOf, S
    <3>7. Rows(g)[l] = [z \in Cuts(U, l) |-> Adopt([y \in Under(U, l, z) |-> Rows(g)[l - 1][y]], l)]
      BY <3>5 DEF RowsOf, U
    <3>8. Rows(f)[l][x] = Adopt([y \in Under(S, l, x) |-> Rows(f)[l - 1][y]], l)
      BY <3>6
    <3>9. Rows(g)[l][x] = Adopt([y \in Under(U, l, x) |-> Rows(g)[l - 1][y]], l)
      BY <3>0, <3>7
    <3>10. [y \in Under(U, l, x) |-> Rows(g)[l - 1][y]] = [y \in Under(S, l, x) |-> Rows(f)[l - 1][y]]
      BY <3>3, <3>4
    <3> QED BY <3>8, <3>9, <3>10
  <2>8. Stays(f, g, l, k)
    BY <1>2, <2>0, <2>7 DEF Stays, S, U, c
  <2> QED BY <1>0, <2>8
<1>5. \A l \in 0 .. MaxRank + 1 : l \in stay
  <2> HIDE DEF stay
  <2> QED BY <1>0, <1>3, <1>4, UpTo
<1> QED BY <1>5 DEF g

-----------------------------------------------------------------------------
(* The loop of insert and from_set. *)
Started(items, depth) ==
  [nodes |-> JoinWithRank(RankedItems(items), 1), level |-> 2, depth |-> depth, done |-> FALSE]

RaisesTo(raised, items, path, depth, key) ==
  /\ raised[0] = Started(items, depth)
  /\ \A n \in 1 .. MaxRank : raised[n] = JoinedAbove(raised[n - 1], path, key)
  /\ Raise(items, path, depth, key) =
       raised[MaxRank].nodes.items[Min(DOMAIN raised[MaxRank].nodes.items)]

LEMMA RaiseSteps ==
  ASSUME NEW items, NEW path, NEW depth, NEW key
  PROVE  \E raised : RaisesTo(raised, items, path, depth, key)
<1> DEFINE next(x) == JoinedAbove(x, path, key)
           start == Started(items, depth)
           Is(g, m) == g = [n \in 0 .. m |-> IF n = 0 THEN start ELSE next(g[n - 1])]
           S == {m \in 0 .. MaxRank : \E g : Is(g, m)}
           top(g) == g[MaxRank].nodes.items
<1>0. MaxRank \in Nat
  BY RankedAssumption
<1>1. Raise(items, path, depth, key) =
        LET whole == CHOOSE g : Is(g, MaxRank)
        IN  top(whole)[Min(DOMAIN top(whole))]
  BY DEF Raise, Started
<1> HIDE DEF next, start
<1>2. 0 \in S
  <2>1. Is([n \in 0 .. 0 |-> start], 0)
    OBVIOUS
  <2> HIDE DEF Is
  <2> QED BY <1>0, <2>1
<1>3. ASSUME NEW m \in 1 .. MaxRank, m - 1 \in S PROVE m \in S
  <2>1. PICK g : Is(g, m - 1)
    BY <1>3
  <2> DEFINE h == [n \in 0 .. m |-> IF n = 0 THEN start ELSE next(g[n - 1])]
  <2>2. \A n \in 0 .. m - 1 : h[n] = g[n]
    BY <1>0, <2>1
  <2>3. \A n \in 0 .. m : n # 0 => n - 1 \in 0 .. m - 1
    BY <1>0
  <2>4. Is(h, m)
    BY <2>2, <2>3
  <2> HIDE DEF Is, h
  <2> QED BY <1>0, <2>4
<1>4. MaxRank \in S
  <2> HIDE DEF S
  <2>1. \A n \in 0 .. MaxRank : n \in S
    BY <1>0, <1>2, <1>3, UpTo
  <2> QED BY <1>0, <2>1
<1> DEFINE all == CHOOSE g : Is(g, MaxRank)
<1>5. Is(all, MaxRank)
  BY <1>4
<1> HIDE DEF all
<1>6. all[0] = start /\ \A n \in 1 .. MaxRank : all[n] = next(all[n - 1])
  BY <1>0, <1>5
<1>7. Raise(items, path, depth, key) = top(all)[Min(DOMAIN top(all))]
  BY <1>1 DEF all
<1>8. RaisesTo(all, items, path, depth, key)
  BY <1>6, <1>7 DEF RaisesTo, next, start
<1> QED BY <1>8

(* What was joined up to level l shows the window of row l. *)
Beside(path, h, l, key) == IF h - l <= 0 THEN <<>> ELSE BranchStack(path[h - l - 1], key)

GoesUp(g, W, h, path, key) ==
  /\ \A l \in 1 .. MaxRank + 1 : W[l] \subseteq Nat /\ FitsRow(W[l], DOMAIN g, l) /\ (h <= l => W[l] = Nat)
  /\ \A l \in 1 .. MaxRank : \A nodes :
       Shows(nodes, g, l, W[l]) => Shows(Rejoin(nodes, Beside(path, h, l, key)), g, l, W[l + 1])

Uncut(S, h, l) == \A j \in 2 .. l : h <= j => Cuts(S, j) # {Max(S)}

Raising(at, g, W, h, l) ==
  \/ /\ ~at.done /\ at.level = l + 1 /\ at.depth = IF h - l <= 0 THEN 0 ELSE h - l
     /\ Shows(at.nodes, g, l, W[l]) /\ Uncut(DOMAIN g, h, l)
  \/ /\ at.done
     /\ \E top \in 2 .. l : /\ h <= top /\ Shows(at.nodes, g, top, W[top])
                            /\ Cuts(DOMAIN g, top) = {Max(DOMAIN g)} /\ Uncut(DOMAIN g, h, top - 1)

LEMMA RaiseStep ==
  ASSUME NEW g, KeySet(DOMAIN g), NEW W, NEW h \in Nat, NEW path, NEW key, GoesUp(g, W, h, path, key),
         NEW l \in 1 .. MaxRank, NEW at, Raising(at, g, W, h, l)
  PROVE  Raising(JoinedAbove(at, path, key), g, W, h, l + 1)
<1> DEFINE U == DOMAIN g
           new == JoinedAbove(at, path, key)
           joined == JoinWithRank(Rejoin(at.nodes, Stacked(at, path, key)), at.level)
<1>0. l \in Nat /\ MaxRank \in Nat /\ l + 1 \in 1 .. MaxRank + 1 /\ l + 1 - 1 = l
  BY RankedAssumption
<1>1. CASE at.done
  <2>1. new = at
    BY <1>1 DEF JoinedAbove
  <2>2. 2 .. l \subseteq 2 .. l + 1
    BY <1>0
  <2> HIDE DEF new
  <2> QED BY <1>1, <2>1, <2>2 DEF Raising, new
<1>2. CASE ~at.done
  <2>1. /\ at.level = l + 1 /\ at.depth = IF h - l <= 0 THEN 0 ELSE h - l
        /\ Shows(at.nodes, g, l, W[l]) /\ Uncut(U, h, l)
    BY <1>2 DEF Raising
  <2>2. Stacked(at, path, key) = Beside(path, h, l, key)
    <3>1. CASE h - l <= 0
      <4>1. at.depth = 0
        BY <2>1, <3>1
      <4> QED BY <3>1, <4>1 DEF Stacked, Beside
    <3>2. CASE ~(h - l <= 0)
      <4>1. at.depth = h - l /\ at.depth # 0
        BY <1>0, <2>1, <3>2
      <4> QED BY <3>2, <4>1 DEF Stacked, Beside
    <3> QED BY <3>1, <3>2
  <2>3. Shows(Rejoin(at.nodes, Stacked(at, path, key)), g, l, W[l + 1])
    BY <2>1, <2>2 DEF GoesUp
  <2>4. W[l + 1] \subseteq Nat /\ FitsRow(W[l + 1], U, l + 1) /\ (h <= l + 1 => W[l + 1] = Nat)
    BY <1>0 DEF GoesUp
  <2>5. Shows(joined, g, l + 1, W[l + 1])
    <3> DEFINE ranked == Rejoin(at.nodes, Stacked(at, path, key))
    <3>1. Shows(ranked, g, l + 1 - 1, W[l + 1])
      BY <1>0, <2>3
    <3> HIDE DEF ranked
    <3>2. Shows(JoinWithRank(ranked, l + 1), g, l + 1, W[l + 1])
      BY <1>0, <2>4, <3>1, JoinShows
    <3> QED BY <2>1, <3>2 DEF ranked
  <2>6. new = [nodes |-> joined, level |-> at.level + 1, depth |-> Max({0, at.depth - 1}),
               done |-> at.depth <= 1 /\ IsOne(joined)]
    BY <1>2 DEF JoinedAbove
  <2> HIDE DEF joined, new
  <2>7. /\ new.nodes = joined /\ new.level = l + 1 + 1 /\ new.depth = Max({0, at.depth - 1})
        /\ new.done <=> (at.depth <= 1 /\ IsOne(joined))
    <3> DEFINE one == at.depth <= 1 /\ IsOne(joined)
    <3> HIDE DEF one
    <3>1. new.done = one
      BY <2>6 DEF one
    <3>2. new.done <=> one
      BY Zenon, <3>1
    <3>3. new.nodes = joined /\ new.level = at.level + 1 /\ new.depth = Max({0, at.depth - 1})
      BY <2>6
    <3> QED BY <2>1, <3>2, <3>3 DEF one
  <2>8. new.depth = IF h - (l + 1) <= 0 THEN 0 ELSE h - (l + 1)
    <3>1. CASE at.depth <= 1
      <4>1. Max({0, at.depth - 1}) = 0
        <5>1. Max({0, at.depth - 1}) \in {0, at.depth - 1} /\ \A y \in {0, at.depth - 1} : Max({0, at.depth - 1}) >= y
          <6>1. \E x \in {0, at.depth - 1} : \A y \in {0, at.depth - 1} : x >= y
            BY <1>0, <2>1, <3>1
          <6> QED BY <6>1 DEF Max
        <5> QED BY <1>0, <2>1, <3>1, <5>1
      <4> QED BY <1>0, <2>1, <2>7, <3>1, <4>1
    <3>2. CASE ~(at.depth <= 1)
      <4>1. at.depth - 1 \in Nat /\ at.depth = h - l /\ {0, at.depth - 1} \subseteq Nat
            /\ \A y \in {0, at.depth - 1} : y <= at.depth - 1
        BY <1>0, <2>1, <3>2
      <4>2. Max({0, at.depth - 1}) = at.depth - 1
        BY <4>1, MaxIs
      <4> QED BY <1>0, <2>1, <2>7, <3>2, <4>1, <4>2
    <3> QED BY <3>1, <3>2
  <2>9. at.depth <= 1 <=> h <= l + 1
    BY <1>0, <2>1
  <2>10. h <= l + 1 => (IsOne(joined) <=> Cuts(U, l + 1) = {Max(U)})
    <3> SUFFICES ASSUME h <= l + 1 PROVE IsOne(joined) <=> Cuts(U, l + 1) = {Max(U)}
      OBVIOUS
    <3>1. Max(U) \in Cuts(U, l + 1) /\ Cuts(U, l + 1) \subseteq Nat
      <4>1. Max(U) \in Cuts(U, l + 1) /\ Cuts(U, l + 1) \subseteq U
        BY <1>0, CutsAre
      <4> QED BY <4>1, KeyMax
    <3>2. DOMAIN joined.items = Cuts(U, l + 1)
      BY <2>4, <2>5, <3>1 DEF Shows
    <3> QED BY <3>1, <3>2 DEF IsOne
  <2>11. ASSUME new.done PROVE Raising(new, g, W, h, l + 1)
    <3>1. h <= l + 1 /\ Cuts(U, l + 1) = {Max(U)} /\ l + 1 \in 2 .. l + 1
      BY <1>0, <2>7, <2>9, <2>10, <2>11
    <3>2. Shows(new.nodes, g, l + 1, W[l + 1])
      BY <2>5, <2>7
    <3>3. Uncut(U, h, l + 1 - 1)
      BY <1>0, <2>1
    <3> QED BY <2>11, <3>1, <3>2, <3>3 DEF Raising
  <2>12. ASSUME ~new.done PROVE Raising(new, g, W, h, l + 1)
    <3>1. h <= l + 1 => Cuts(U, l + 1) # {Max(U)}
      BY <2>7, <2>9, <2>10, <2>12
    <3>2. Uncut(U, h, l + 1)
      <4> SUFFICES ASSUME NEW j \in 2 .. l + 1, h <= j PROVE Cuts(U, j) # {Max(U)}
        BY DEF Uncut
      <4>1. j = l + 1 \/ j \in 2 .. l
        BY <1>0
      <4> QED BY <2>1, <3>1, <4>1 DEF Uncut
    <3> QED BY <2>5, <2>7, <2>8, <2>12, <3>2 DEF Raising
  <2> QED BY <2>11, <2>12 DEF new
<1> QED BY <1>1, <1>2

LEMMA RaiseIs ==
  ASSUME NEW g, KeySet(DOMAIN g), NEW W, NEW h \in 1 .. MaxRank + 1, NEW path, NEW key,
         GoesUp(g, W, h, path, key), NEW items, Shows(RankedItems(items), g, 0, W[1])
  PROVE  \E top \in 2 .. MaxRank + 1 :
           /\ h <= top /\ Cuts(DOMAIN g, top) = {Max(DOMAIN g)} /\ Uncut(DOMAIN g, h, top - 1)
           /\ Raise(items, path, h - 1, key) = Rows(g)[top][Max(DOMAIN g)]
<1> DEFINE U == DOMAIN g
<1>0. MaxRank \in Nat /\ 1 <= MaxRank /\ h \in Nat /\ 1 - 1 = 0
  <2>1. Max(U) \in U /\ Rank(Max(U)) \in 1 .. MaxRank
    BY KeyMax
  <2> QED BY <2>1, RankedAssumption
<1>1. PICK raised : RaisesTo(raised, items, path, h - 1, key)
  BY RaiseSteps
<1> DEFINE good == {n \in 0 .. MaxRank : Raising(raised[n], g, W, h, n + 1)}
<1>2. 0 \in good
  <2>1. raised[0] = Started(items, h - 1)
    BY <1>1 DEF RaisesTo
  <2>2. Shows(JoinWithRank(RankedItems(items), 1), g, 1, W[1])
    <3>1. W[1] \subseteq Nat /\ FitsRow(W[1], U, 1) /\ 1 \in 1 .. MaxRank + 1
      BY <1>0 DEF GoesUp
    <3> QED BY <1>0, <3>1, JoinShows
  <2>3. /\ ~raised[0].done /\ raised[0].level = 2 /\ raised[0].depth = h - 1
        /\ raised[0].nodes = JoinWithRank(RankedItems(items), 1)
    BY <2>1 DEF Started
  <2>4. Uncut(U, h, 1)
    BY DEF Uncut
  <2>5. raised[0].depth = IF h - 1 <= 0 THEN 0 ELSE h - 1
    BY <1>0, <2>3
  <2>6. Raising(raised[0], g, W, h, 0 + 1)
    BY <2>2, <2>3, <2>4, <2>5 DEF Raising
  <2> QED BY <1>0, <2>6
<1>3. ASSUME NEW n \in 1 .. MaxRank, n - 1 \in good PROVE n \in good
  <2>1. raised[n] = JoinedAbove(raised[n - 1], path, key)
    BY <1>1 DEF RaisesTo
  <2>2. Raising(raised[n - 1], g, W, h, n)
    <3>1. n - 1 + 1 = n
      BY <1>0
    <3> QED BY <1>3, <3>1
  <2>3. Raising(raised[n], g, W, h, n + 1)
    BY <1>0, <2>1, <2>2, RaiseStep
  <2> QED BY <1>0, <2>3
<1>4. Raising(raised[MaxRank], g, W, h, MaxRank + 1)
  <2> HIDE DEF good
  <2>1. \A n \in 0 .. MaxRank : n \in good
    BY <1>0, <1>2, <1>3, UpTo
  <2> QED BY <1>0, <2>1 DEF good
<1>5. ~Uncut(U, h, MaxRank + 1)
  <2>1. Cuts(U, MaxRank + 1) = {Max(U)}
    BY <1>0, CutsAre
  <2>2. MaxRank + 1 \in 2 .. MaxRank + 1 /\ h <= MaxRank + 1
    BY <1>0
  <2> QED BY <2>1, <2>2 DEF Uncut
<1>6. PICK top \in 2 .. MaxRank + 1 :
        /\ h <= top /\ Shows(raised[MaxRank].nodes, g, top, W[top])
        /\ Cuts(U, top) = {Max(U)} /\ Uncut(U, h, top - 1)
  BY <1>4, <1>5 DEF Raising
<1>7. DOMAIN raised[MaxRank].nodes.items = {Max(U)}
      /\ raised[MaxRank].nodes.items[Max(U)] = Rows(g)[top][Max(U)] /\ Max(U) \in Nat
  <2>1. W[top] = Nat
    BY <1>0, <1>6 DEF GoesUp
  <2>2. Max(U) \in Nat
    BY KeyMax
  <2> HIDE DEF U
  <2> QED BY <1>6, <2>1, <2>2 DEF Shows, U
<1>8. Raise(items, path, h - 1, key) = Rows(g)[top][Max(U)]
  <2>1. Min({Max(U)}) = Max(U)
    BY <1>7, MinIs
  <2>2. Raise(items, path, h - 1, key) =
          raised[MaxRank].nodes.items[Min(DOMAIN raised[MaxRank].nodes.items)]
    BY <1>1 DEF RaisesTo
  <2> QED BY <1>7, <2>1, <2>2
<1> QED BY <1>6, <1>8

LEMMA RejoinNone ==
  ASSUME NEW nodes, NEW g, NEW l, NEW W, Shows(nodes, g, l, W)
  PROVE  Shows(Rejoin(nodes, <<>>), g, l, W)
<1>1. DOMAIN <<>> = {}
  OBVIOUS
<1> DEFINE none == <<>>
<1> HIDE DEF none
<1>2. DOMAIN none = {}
  BY <1>1 DEF none
<1>3. DOMAIN nodes.items \cup DOMAIN none = DOMAIN nodes.items
  BY <1>2
<1> DEFINE new == Rejoin(nodes, none)
           D == DOMAIN nodes.items
<1>4. new = [items |-> [k \in D |-> IF k \in D THEN nodes.items[k] ELSE none[k]],
             rank |-> [k \in D |-> IF k \in D THEN nodes.rank[k] ELSE Rank(k)]]
  BY <1>3 DEF Rejoin
<1> HIDE DEF new
<1>5. /\ DOMAIN new.items = D /\ DOMAIN new.rank = D
      /\ \A k \in D : new.items[k] = nodes.items[k] /\ new.rank[k] = nodes.rank[k]
  BY <1>4
<1>6. Shows(new, g, l, W)
  BY <1>5 DEF Shows
<1> QED BY <1>6 DEF new, none

LEMMA AllFits ==
  ASSUME NEW S, KeySet(S), NEW l \in Nat \ {0}
  PROVE  FitsRow(Nat, S, l)
<1>1. l \in Nat /\ l - 1 \in Nat /\ l - 1 + 1 = l
  OBVIOUS
<1>2. /\ Max(S) \in Cuts(S, l) /\ Cuts(S, l) \subseteq S /\ Cuts(S, l - 1) \subseteq S
      /\ S \subseteq Nat /\ \A y \in S : y <= Max(S)
  BY <1>1, CutsAre, KeyMax
<1>3. Cuts(S, l) \ Nat = {} /\ Cuts(S, l - 1) \ Nat = {}
  BY <1>2
<1>4. Max(S) \in Nat \cap Cuts(S, l) /\ \A y \in Nat \cap Cuts(S, l - 1) : y <= Max(S)
  BY <1>2
<1> QED BY <1>3, <1>4 DEF FitsRow

LEMMA ItemsShow ==
  ASSUME NEW items, NEW g, KeySet(DOMAIN g), NEW W, DOMAIN items = DOMAIN g \cap W,
         \A k \in DOMAIN items : items[k] = g[k]
  PROVE  Shows(RankedItems(items), g, 0, W)
<1>1. Cuts(DOMAIN g, 0) = DOMAIN g /\ Rows(g)[0] = g
  BY CutsAre, RowsAre DEF RowsOf
<1>2. /\ RankedItems(items).items = items
      /\ RankedItems(items).rank = [k \in DOMAIN items |-> Rank(k)]
  BY DEF RankedItems
<1> QED BY <1>1, <1>2 DEF Shows

LEMMA FromSetIs ==
  ASSUME NEW f, KeySet(DOMAIN f)
  PROVE  \E h \in 2 .. MaxRank + 1 : Formed(FromSet(f), f, h)
<1> DEFINE W == [l \in 1 .. MaxRank + 1 |-> Nat]
<1>0. MaxRank \in Nat /\ 1 \in 1 .. MaxRank + 1 /\ \A l \in 1 .. MaxRank + 1 : l \in Nat \ {0}
  BY RankedAssumption
<1>1. GoesUp(f, W, 1, <<>>, 0)
  <2>1. ASSUME NEW l \in 1 .. MaxRank + 1
        PROVE  W[l] \subseteq Nat /\ FitsRow(W[l], DOMAIN f, l) /\ (1 <= l => W[l] = Nat)
    BY <1>0, AllFits
  <2>2. ASSUME NEW l \in 1 .. MaxRank, NEW nodes, Shows(nodes, f, l, W[l])
        PROVE  Shows(Rejoin(nodes, Beside(<<>>, 1, l, 0)), f, l, W[l + 1])
    <3>1. l \in 1 .. MaxRank + 1 /\ l + 1 \in 1 .. MaxRank + 1 /\ 1 - l <= 0
      BY <1>0
    <3>2. Beside(<<>>, 1, l, 0) = <<>>
      BY <3>1 DEF Beside
    <3>3. W[l] = Nat /\ W[l + 1] = Nat
      BY <3>1
    <3> HIDE DEF W
    <3> QED BY <2>2, <3>2, <3>3, RejoinNone
  <2> HIDE DEF W
  <2> QED BY <2>1, <2>2 DEF GoesUp
<1>2. Shows(RankedItems(f), f, 0, W[1])
  <2>1. DOMAIN f = DOMAIN f \cap Nat
    BY KeyMax
  <2>2. W[1] = Nat
    BY <1>0
  <2> HIDE DEF W
  <2> QED BY <2>1, <2>2, ItemsShow
<1>3. PICK top \in 2 .. MaxRank + 1 :
        /\ 1 <= top /\ Cuts(DOMAIN f, top) = {Max(DOMAIN f)} /\ Uncut(DOMAIN f, 1, top - 1)
        /\ Raise(f, <<>>, 1 - 1, 0) = Rows(f)[top][Max(DOMAIN f)]
  <2> DEFINE none == <<>>
             one == 1
             zero == 0
  <2>1. GoesUp(f, W, one, none, zero) /\ one \in 1 .. MaxRank + 1 /\ Shows(RankedItems(f), f, 0, W[1])
    BY <1>0, <1>1, <1>2
  <2> HIDE DEF W, none, one, zero
  <2>2. \E top \in 2 .. MaxRank + 1 :
        /\ one <= top /\ Cuts(DOMAIN f, top) = {Max(DOMAIN f)} /\ Uncut(DOMAIN f, one, top - 1)
        /\ Raise(f, none, one - 1, zero) = Rows(f)[top][Max(DOMAIN f)]
    BY <2>1, RaiseIs
  <2> QED BY <2>2 DEF none, one, zero
<1>4. FromSet(f) = Rows(f)[top][Max(DOMAIN f)]
  <2>1. 1 - 1 = 0
    OBVIOUS
  <2> QED BY <1>3, <2>1 DEF FromSet
<1>5. HasHeight(DOMAIN f, top)
  <2>1. \A l \in 2 .. top - 1 : 1 <= l
    OBVIOUS
  <2> QED BY <1>3, <2>1 DEF HasHeight, Uncut
<1> QED BY <1>4, <1>5 DEF Formed

(***************************************************************************)
(* Insertion: the path is made anew, the siblings beside it stay, and what *)
(* comes of it has the height that its cuts give it.                       *)
(***************************************************************************)
(* The children of the node that covers a key are the cuts in its window. *)
LEMMA UnderIsWindow ==
  ASSUME NEW S, KeySet(S), NEW l \in Nat, NEW k \in Nat
  PROVE  Under(S, l + 1, Cover(S, l + 1, k)) = Cuts(S, l) \cap Window(S, l + 1, k)
<1>1. l + 1 \in Nat /\ l + 1 - 1 = l
  OBVIOUS
<1>2. Cuts(S, l) \subseteq S /\ S \subseteq Nat /\ \A y \in S : y <= Max(S)
  BY CutsAre, KeyMax
<1> DEFINE c == Cover(S, l + 1, k)
<1>3. c \in Nat
  BY <1>1, CoverIs
<1>4. Under(S, l + 1, c) = {x \in Cuts(S, l) : x <= c /\ \A b \in Cuts(S, l + 1) : b < c => b < x}
  BY <1>1 DEF Under
<1>5. Window(S, l + 1, k) =
        {x \in Nat : (c = Max(S) \/ x <= c) /\ \A b \in Cuts(S, l + 1) : b < c => b < x}
  BY DEF Window
<1> HIDE DEF c
<1>6. Under(S, l + 1, c) = Cuts(S, l) \cap Window(S, l + 1, k)
  BY <1>2, <1>3, <1>4, <1>5
<1> QED BY <1>6 DEF c

(* A window lies in that of the level above. *)
LEMMA WindowGrows ==
  ASSUME NEW S, KeySet(S), NEW l \in Nat, NEW k \in Nat
  PROVE  Window(S, l, k) \subseteq Window(S, l + 1, k)
<1> DEFINE c == Cover(S, l, k)
           d == Cover(S, l + 1, k)
           A == Cuts(S, l)
           B == Cuts(S, l + 1)
<1>1. l + 1 \in Nat
  OBVIOUS
<1>2. /\ B \subseteq A /\ A \subseteq S /\ S \subseteq Nat /\ Max(S) \in S /\ \A y \in S : y <= Max(S)
  BY CutsAre, KeyMax
<1>3. /\ c \in A /\ c \in Nat
      /\ k <= Max(S) => k <= c /\ \A b \in A : b < c <=> b < k
      /\ ~(k <= Max(S)) => c = Max(S)
  BY CoverIs
<1>4. /\ d \in B /\ d \in Nat
      /\ k <= Max(S) => k <= d /\ \A b \in B : b < d <=> b < k
      /\ ~(k <= Max(S)) => d = Max(S)
  BY <1>1, CoverIs
<1>5. Window(S, l, k) = {x \in Nat : (c = Max(S) \/ x <= c) /\ \A b \in A : b < c => b < x}
  BY DEF Window
<1>6. Window(S, l + 1, k) = {x \in Nat : (d = Max(S) \/ x <= d) /\ \A b \in B : b < d => b < x}
  BY DEF Window
<1> HIDE DEF c, d, A, B
<1>7. c <= d /\ (c = Max(S) => d = Max(S)) /\ \A b \in B : b < d => b < c
  BY <1>2, <1>3, <1>4
<1>8. ASSUME NEW x \in Window(S, l, k)
      PROVE  x \in Window(S, l + 1, k)
  <2>1. x \in Nat /\ (c = Max(S) \/ x <= c) /\ \A b \in A : b < c => b < x
    BY <1>5
  <2>2. d = Max(S) \/ x <= d
    BY <1>2, <1>3, <1>4, <1>7, <2>1
  <2>3. \A b \in B : b < d => b < x
    BY <1>2, <1>7, <2>1
  <2> QED BY <1>6, <2>1, <2>2, <2>3
<1> QED BY <1>8

(* From the height on there is one window, of every key. *)
LEMMA WindowAll ==
  ASSUME NEW S, KeySet(S), NEW h, HasHeight(S, h), NEW l \in Nat, h <= l, NEW k \in Nat
  PROVE  Cuts(S, l) = {Max(S)} /\ Window(S, l, k) = Nat
<1>1. h \in Nat /\ Cuts(S, h) = {Max(S)}
  BY HeightIs
<1>2. Max(S) \in S /\ S \subseteq Nat
  BY KeyMax
<1>3. Cuts(S, l) \subseteq Cuts(S, h)
  <2>1. \A x \in S : Rank(x) \in Nat
    BY KeyMax
  <2> QED BY <1>1, <2>1 DEF Cuts
<1>4. Max(S) \in Cuts(S, l)
  BY CutsAre
<1>5. Cuts(S, l) = {Max(S)}
  BY <1>1, <1>3, <1>4
<1>6. Cover(S, l, k) = Max(S)
  BY <1>5, CoverIs
<1>7. \A b \in Cuts(S, l) : ~(b < Cover(S, l, k))
  <2>1. Max(S) \in Nat
    BY <1>2
  <2>2. ~(Max(S) < Max(S))
    BY <2>1
  <2> QED BY <1>5, <1>6, <2>2
<1>8. Window(S, l, k) = {x \in Nat : TRUE}
  BY <1>6, <1>7 DEF Window
<1> QED BY <1>5, <1>8

LEMMA GoesUpInsert ==
  ASSUME NEW f, KeySet(DOMAIN f), NEW node, NEW h, Formed(node, f, h), NEW k \in Keys, NEW v, NEW W,
         \A l \in 1 .. MaxRank + 1 : W[l] = Window(DOMAIN f, l, k)
  PROVE  GoesUp(With(f, k, v), W, h, Path(node, k), k)
<1> DEFINE S == DOMAIN f
           g == With(f, k, v)
           path == Path(node, k)
<1>1. KeySet(S) /\ HasHeight(S, h) /\ k \in Nat
  BY RankedAssumption DEF Formed
<1>2. h \in 1 .. MaxRank + 1 /\ h \in Nat /\ MaxRank \in Nat
  BY <1>1, HeightIs
<1>3. DOMAIN g = S \cup {k}
  BY WithIs
<1>4. ASSUME NEW l \in 1 .. MaxRank + 1
      PROVE  W[l] \subseteq Nat /\ FitsRow(W[l], DOMAIN g, l) /\ (h <= l => W[l] = Nat)
  <2>1. l \in Nat \ {0} /\ l \in Nat /\ W[l] = Window(S, l, k)
    BY <1>2
  <2> HIDE DEF S, g
  <2>2. W[l] \subseteq Nat
    BY <2>1, <1>1, WindowHas
  <2>3. FitsRow(W[l], S \cup {k}, l)
    BY <2>1, <1>1, WindowFits
  <2>4. ASSUME h <= l
        PROVE  W[l] = Nat
    BY <2>1, <2>4, <1>1, WindowAll
  <2> QED BY <1>3, <2>2, <2>3, <2>4
<1>5. ASSUME NEW l \in 1 .. MaxRank, NEW nodes, Shows(nodes, g, l, W[l])
      PROVE  Shows(Rejoin(nodes, Beside(path, h, l, k)), g, l, W[l + 1])
  <2>1. /\ l \in 1 .. MaxRank + 1 /\ l + 1 \in 1 .. MaxRank + 1 /\ l \in Nat /\ l + 1 \in Nat
        /\ l \in 0 .. MaxRank + 1
    BY <1>2
  <2>2. W[l] = Window(S, l, k) /\ W[l + 1] = Window(S, l + 1, k)
    BY <2>1
  <2>3. CASE h <= l
    <3>1. W[l] = Nat /\ W[l + 1] = Nat
      BY <1>2, <1>4, <2>1, <2>3
    <3>2. Beside(path, h, l, k) = <<>>
      <4>1. h - l <= 0
        BY <1>2, <2>1, <2>3
      <4> QED BY <4>1 DEF Beside
    <3>3. Shows(Rejoin(nodes, <<>>), g, l, W[l])
      BY <1>5, RejoinNone
    <3> QED BY <3>1, <3>2, <3>3
  <2>4. CASE ~(h <= l)
    <3> DEFINE e == h - l - 1
               c == Cover(S, l, k)
               up == Cover(S, l + 1, k)
               above == path[e]
               side == Beside(path, h, l, k)
               R == Rows(f)[l]
               Q == Rows(g)[l]
    <3>1. e \in 0 .. h - 1 /\ h - e = l + 1 /\ ~(h - l <= 0)
      BY <1>2, <2>1, <2>4
    <3>2. above = Rows(f)[l + 1][up]
      BY <1>1, <3>1, PathIs
    <3>3. up \in Cuts(S, l + 1) /\ l + 1 - 1 = l
      BY <1>1, <2>1, CoverIs
    <3>4. /\ DOMAIN above.items = Under(S, l + 1, up)
          /\ \A x \in Under(S, l + 1, up) : above.items[x] = R[x]
      BY <2>1, <3>2, <3>3, NodeIs
    <3>5. Under(S, l + 1, up) = Cuts(S, l) \cap W[l + 1]
      BY <1>1, <2>1, <2>2, UnderIsWindow
    <3>6. Child(above, k) = c
      BY <1>1, <2>1, <3>4, ChildIs
    <3>7. side = [b \in (Cuts(S, l) \cap W[l + 1]) \ {c} |-> R[b]]
      <4>1. side = BranchStack(above, k)
        BY <3>1 DEF Beside
      <4>2. side = [b \in DOMAIN above.items \ {c} |-> above.items[b]]
        BY <4>1, <3>6 DEF BranchStack
      <4> HIDE DEF above, side, c, up, R
      <4> QED BY <4>2, <3>4, <3>5
    <3>8. Stays(f, g, l, k)
      BY <2>1, NodesStay
    <3>9. W[l] \subseteq W[l + 1]
      BY <1>1, <2>1, <2>2, WindowGrows
    <3>10. /\ \A x \in Cuts(S, l) : x # c => x \in Cuts(DOMAIN g, l) /\ x \notin W[l] /\ Q[x] = R[x]
           /\ \A x \in Cuts(DOMAIN g, l) : x \notin W[l] => x \in Cuts(S, l) /\ x # c
      BY <2>2, <3>8 DEF Stays
    <3>11. /\ DOMAIN nodes.items = Cuts(DOMAIN g, l) \cap W[l]
           /\ DOMAIN nodes.rank = DOMAIN nodes.items
           /\ \A x \in DOMAIN nodes.items :
                nodes.items[x] = Q[x] /\ (x # Max(DOMAIN g) => nodes.rank[x] = Rank(x))
      BY <1>5 DEF Shows
    <3> HIDE DEF S, g, path, e, c, up, above, side, R, Q
    <3>12. DOMAIN side = (Cuts(S, l) \cap W[l + 1]) \ {c}
      BY <3>7
    <3>13. DOMAIN nodes.items \cup DOMAIN side = Cuts(DOMAIN g, l) \cap W[l + 1]
      BY <3>9, <3>10, <3>11, <3>12
    <3> DEFINE D == Cuts(DOMAIN g, l) \cap W[l + 1]
               N == DOMAIN nodes.items
               new == Rejoin(nodes, side)
    <3>14. new = [items |-> [x \in D |-> IF x \in N THEN nodes.items[x] ELSE side[x]],
                  rank  |-> [x \in D |-> IF x \in N THEN nodes.rank[x] ELSE Rank(x)]]
      BY <3>13 DEF Rejoin
    <3> HIDE DEF new
    <3>15. /\ DOMAIN new.items = D /\ DOMAIN new.rank = D
           /\ \A x \in D : /\ new.items[x] = IF x \in N THEN nodes.items[x] ELSE side[x]
                           /\ new.rank[x] = IF x \in N THEN nodes.rank[x] ELSE Rank(x)
      BY <3>14
    <3>16. ASSUME NEW x \in D
           PROVE  new.items[x] = Q[x] /\ (x # Max(DOMAIN g) => new.rank[x] = Rank(x))
      <4>1. CASE x \in N
        BY <4>1, <3>11, <3>15
      <4>2. CASE x \notin N
        <5>1. x \in Cuts(S, l) /\ x # c /\ x \in W[l + 1]
          BY <4>2, <3>10, <3>11
        <5>2. side[x] = R[x] /\ Q[x] = R[x]
          BY <5>1, <3>7, <3>10
        <5> QED BY <4>2, <3>15, <5>2
      <4> QED BY <4>1, <4>2
    <3>17. Shows(new, g, l, W[l + 1])
      BY <3>15, <3>16 DEF Shows, Q
    <3> QED BY <3>17 DEF new, side
  <2> QED BY <2>3, <2>4
<1> HIDE DEF g, path
<1>6. GoesUp(g, W, h, path, k)
  BY <1>4, <1>5 DEF GoesUp
<1> QED BY <1>6 DEF g, path

LEMMA InsertIs ==
  ASSUME NEW f, KeySet(DOMAIN f), NEW node, NEW h, Formed(node, f, h), NEW k \in Keys, NEW v
  PROVE  \E top : Formed(Insert(node, k, v), With(f, k, v), top)
<1> DEFINE S == DOMAIN f
           U == S \cup {k}
           g == With(f, k, v)
           W == [l \in 1 .. MaxRank + 1 |-> Window(S, l, k)]
           path == Path(node, k)
           segment == path[h - 1].items
           items == With(segment, k, v)
<1>1. KeySet(S) /\ HasHeight(S, h) /\ k \in Nat
  BY RankedAssumption DEF Formed
<1>2. /\ h \in 1 .. MaxRank + 1 /\ h \in Nat /\ MaxRank \in Nat /\ 1 \in 1 .. MaxRank + 1
      /\ h - 1 \in 0 .. h - 1 /\ h - (h - 1) = 1
  <2>1. h \in 1 .. MaxRank + 1 /\ h \in Nat /\ MaxRank \in Nat
    BY <1>1, HeightIs
  <2> QED BY <2>1
<1>3. DOMAIN g = U /\ KeySet(U)
  BY <1>1, WithIs, GrownCuts
<1>4. \A l \in 1 .. MaxRank + 1 : W[l] = Window(S, l, k)
  OBVIOUS
<1>5. GoesUp(g, W, h, path, k)
  <2> HIDE DEF W
  <2> QED BY <1>4, GoesUpInsert
<1>6. DOMAIN items = DOMAIN g \cap W[1] /\ \A x \in DOMAIN items : items[x] = g[x]
  <2> DEFINE c == Cover(S, 1, k)
  <2>1. path[h - 1] = Rows(f)[1][c]
    BY <1>1, <1>2, PathIs
  <2>2. 0 \in Nat /\ 0 + 1 = 1 /\ 1 \in Nat /\ 1 - 1 = 0
    OBVIOUS
  <2>3. c \in Cuts(S, 1)
    BY <1>1, <2>2, CoverIs
  <2>4. Rows(f)[0] = f
    BY RowsAre DEF RowsOf
  <2>5. /\ DOMAIN segment = Under(S, 1, c)
        /\ \A x \in Under(S, 1, c) : segment[x] = f[x]
    BY <1>2, <2>1, <2>2, <2>3, <2>4, NodeIs
  <2>6. Under(S, 1, c) = Cuts(S, 0) \cap Window(S, 1, k)
    BY <1>1, <2>2, UnderIsWindow
  <2>7. Cuts(S, 0) = S /\ W[1] = Window(S, 1, k)
    BY <1>1, <1>2, <2>2, CutsAre
  <2>8. k \in W[1]
    BY <1>1, <2>2, <2>7, WindowHas
  <2>9. /\ DOMAIN items = DOMAIN segment \cup {k}
        /\ \A x \in DOMAIN segment \cup {k} : items[x] = IF x = k THEN v ELSE segment[x]
    BY DEF With
  <2>10. \A x \in S \cup {k} : g[x] = IF x = k THEN v ELSE f[x]
    BY DEF With
  <2> HIDE DEF S, g, W, path, segment, items, c
  <2> QED BY <1>3, <2>5, <2>6, <2>7, <2>8, <2>9, <2>10 DEF U
<1>7. Shows(RankedItems(items), g, 0, W[1])
  <2> HIDE DEF g, W, items
  <2> QED BY <1>3, <1>6, ItemsShow
<1>8. PICK top \in 2 .. MaxRank + 1 :
        /\ h <= top /\ Cuts(U, top) = {Max(U)} /\ Uncut(U, h, top - 1)
        /\ Raise(items, path, h - 1, k) = Rows(g)[top][Max(U)]
  <2> HIDE DEF U, g, W, path, items
  <2> QED BY <1>2, <1>3, <1>5, <1>7, RaiseIs
<1>9. Insert(node, k, v) = Raise(items, path, h - 1, k)
  <2>1. Depth(path) = h - 1
    BY <1>1, PathIs
  <2> QED BY <2>1 DEF Insert
<1>10. HasHeight(U, top)
  <2>1. ASSUME NEW l \in 2 .. top - 1
        PROVE  Cuts(U, l) # {Max(U)}
    <3>1. l \in 2 .. top - 1 /\ l \in Nat
      BY <1>2, <1>8
    <3>2. CASE h <= l
      BY <1>8, <3>1, <3>2 DEF Uncut
    <3>3. CASE ~(h <= l)
      <4>1. Cuts(S, l) # {Max(S)}
        <5>1. l \in 2 .. h - 1 /\ h # 1
          BY <1>2, <3>1, <3>3
        <5> QED BY <1>1, <5>1 DEF HasHeight
      <4>2. Max(S) \in Cuts(S, l) /\ Cuts(S, l) \subseteq S /\ S \subseteq Nat /\ Max(S) \in S
        BY <1>1, <3>1, CutsAre, KeyMax
      <4>3. PICK x \in Cuts(S, l) : x # Max(S)
        BY <4>1, <4>2
      <4>4. x \in Cuts(U, l)
        BY <1>1, <3>1, <4>3, GrownCuts
      <4>5. x < Max(S)
        BY <1>1, <4>2, <4>3, KeyMax
      <4>6. Max(S) <= Max(U) /\ U \subseteq Nat /\ Max(U) \in U
        BY <1>3, <4>2, KeyMax
      <4>7. x # Max(U)
        <5>1. x \in Nat /\ Max(S) \in Nat /\ Max(U) \in Nat
          BY <4>2, <4>3, <4>6
        <5> HIDE DEF S, U
        <5> QED BY <4>5, <4>6, <5>1
      <4> QED BY <4>4, <4>7
    <3> QED BY <3>2, <3>3
  <2> HIDE DEF U
  <2> QED BY <1>8, <2>1 DEF HasHeight
<1>11. Formed(Raise(items, path, h - 1, k), g, top)
  <2> HIDE DEF U, g, path, items
  <2> QED BY <1>3, <1>8, <1>10 DEF Formed
<1> QED BY <1>9, <1>11

(* A tree of one entry that set has made. *)
LEMMA FirstTreeIs ==
  ASSUME NEW k \in Keys, NEW v
  PROVE  LET f == With(<<>>, k, v) IN KeySet(DOMAIN f) /\ Formed(Adopt(f, 1), f, 1)
<1> DEFINE none == <<>>
           f == With(none, k, v)
<1>1. DOMAIN none = {}
  OBVIOUS
<1> HIDE DEF none
<1>2. f = [x \in {k} |-> v]
  BY <1>1 DEF With
<1>3. DOMAIN f = {k} /\ k \in Nat
  BY <1>2, RankedAssumption
<1>4. KeySet({k})
  BY FS_Singleton DEF KeySet
<1>5. Max({k}) = k
  BY <1>3, MaxIs
<1>6. 1 \in Nat /\ 1 - 1 = 0 /\ 0 \in Nat /\ 1 \in 1 .. MaxRank + 1
  BY RankedAssumption
<1>7. Cuts({k}, 1) = {k} /\ Cuts({k}, 0) = {k}
  BY <1>5 DEF Cuts
<1>8. Under({k}, 1, k) = {k}
  <2>1. k <= k /\ ~(k < k)
    BY <1>3
  <2> QED BY <1>6, <1>7, <2>1 DEF Under
<1> HIDE DEF f
<1>9. Rows(f)[0] = f /\ Rows(f)[1] = [c \in Cuts({k}, 1) |-> Adopt([x \in Under({k}, 1, c) |-> Rows(f)[0][x]], 1)]
  <2>1. /\ Rows(f)[0] = f
        /\ Rows(f)[1] = [c \in Cuts(DOMAIN f, 1) |-> Adopt([x \in Under(DOMAIN f, 1, c) |-> Rows(f)[1 - 1][x]], 1)]
    BY <1>6, RowsAre DEF RowsOf
  <2> QED BY <1>3, <1>6, <2>1
<1>10. Rows(f)[1][k] = Adopt([x \in {k} |-> f[x]], 1)
  BY <1>7, <1>8, <1>9
<1>11. [x \in {k} |-> f[x]] = f
  BY <1>2
<1>12. Formed(Adopt(f, 1), f, 1)
  BY <1>3, <1>5, <1>10, <1>11 DEF Formed, HasHeight
<1> QED BY <1>3, <1>4, <1>12 DEF f, none

LEMMA HeightsAgree ==
  ASSUME NEW S, NEW h, HasHeight(S, h), h # 1, NEW g, HasHeight(S, g), g # 1
  PROVE  h = g
<1>1. MaxRank \in Nat
  BY RankedAssumption
<1>2. /\ h \in 2 .. MaxRank + 1 /\ Cuts(S, h) = {Max(S)} /\ \A l \in 2 .. h - 1 : Cuts(S, l) # {Max(S)}
      /\ g \in 2 .. MaxRank + 1 /\ Cuts(S, g) = {Max(S)} /\ \A l \in 2 .. g - 1 : Cuts(S, l) # {Max(S)}
  BY DEF HasHeight
<1>3. ~(h < g)
  <2>1. h < g => h \in 2 .. g - 1
    BY <1>1, <1>2
  <2> QED BY <1>2, <2>1
<1>4. ~(g < h)
  <2>1. g < h => g \in 2 .. h - 1
    BY <1>1, <1>2
  <2> QED BY <1>2, <2>1
<1>5. h \in Nat /\ g \in Nat
  BY <1>1, <1>2
<1> QED BY <1>3, <1>4, <1>5

(***************************************************************************)
(* The tree, whatever was set.                                             *)
(***************************************************************************)
TreeOf(node, f) == /\ KeySet(DOMAIN f) /\ f = [x \in DOMAIN f |-> f[x]]
                   /\ \E h : Formed(node, f, h)

RootIs ==
  \/ root = NoRoot /\ entries = <<>>
  \/ TreeOf(root, entries)

LEMMA TreeNotEmpty ==
  ASSUME NEW f, NEW node, TreeOf(node, f)
  PROVE  node # NoRoot
<1>1. PICK h : Formed(node, f, h)
  BY DEF TreeOf
<1> DEFINE S == DOMAIN f
<1>2. KeySet(S) /\ HasHeight(S, h) /\ node = Rows(f)[h][Max(S)]
  BY <1>1 DEF TreeOf, Formed
<1>3. h \in 1 .. MaxRank + 1 /\ h \in Nat /\ Cuts(S, h) = {Max(S)}
  BY <1>2, HeightIs
<1>4. Max(S) \in Nat /\ h - 1 \in Nat /\ h - 1 + 1 = h
  BY <1>2, <1>3, KeyMax
<1>5. DOMAIN node.items = Under(S, h, Max(S))
  BY <1>2, <1>3, NodeIs
<1>6. Cover(S, h, Max(S)) = Max(S)
  BY <1>2, <1>3, <1>4, CoverIs
<1>7. Cover(S, h - 1, Max(S)) \in Under(S, h - 1 + 1, Cover(S, h - 1 + 1, Max(S)))
  BY <1>2, <1>4, CoverUnder
<1>8. DOMAIN node.items # {}
  BY <1>4, <1>5, <1>6, <1>7
<1>9. NoRoot.items = <<>>
  BY DEF NoRoot, Adopt
<1>10. DOMAIN NoRoot.items = {}
  BY <1>9
<1> QED BY <1>8, <1>10

LEMMA WithTree ==
  ASSUME NEW f, NEW node, TreeOf(node, f), NEW k \in Keys, NEW v
  PROVE  TreeOf(Insert(node, k, v), With(f, k, v))
<1>1. PICK h : Formed(node, f, h)
  BY DEF TreeOf
<1>2. KeySet(DOMAIN f)
  BY DEF TreeOf
<1>3. \E top : Formed(Insert(node, k, v), With(f, k, v), top)
  BY <1>1, <1>2, InsertIs
<1>4. DOMAIN With(f, k, v) = DOMAIN f \cup {k} /\ KeySet(DOMAIN f \cup {k})
  <2>1. 0 \in Nat
    OBVIOUS
  <2> QED BY <1>2, <2>1, WithIs, GrownCuts
<1>5. With(f, k, v) = [x \in DOMAIN With(f, k, v) |-> With(f, k, v)[x]]
  BY DEF With
<1> QED BY <1>3, <1>4, <1>5 DEF TreeOf

LEMMA FirstTree ==
  ASSUME NEW k \in Keys, NEW v
  PROVE  TreeOf(Adopt(With(<<>>, k, v), 1), With(<<>>, k, v))
<1>1. With(<<>>, k, v) = [x \in DOMAIN With(<<>>, k, v) |-> With(<<>>, k, v)[x]]
  BY DEF With
<1> QED BY <1>1, FirstTreeIs DEF TreeOf

LEMMA SetTree ==
  ASSUME NEW f, KeySet(DOMAIN f), f = [x \in DOMAIN f |-> f[x]]
  PROVE  TreeOf(FromSet(f), f)
BY FromSetIs DEF TreeOf

(* A tree is that of its entries, but for the bare segment of a single call. *)
LEMMA TreeIs ==
  ASSUME NEW f, NEW node, TreeOf(node, f)
  PROVE  \/ node = FromSet(f)
         \/ ~node.branch /\ node.items = f /\ IsOne(node)
<1>1. PICK h : Formed(node, f, h)
  BY DEF TreeOf
<1> DEFINE S == DOMAIN f
<1>2. KeySet(S) /\ HasHeight(S, h) /\ node = Rows(f)[h][Max(S)] /\ f = [x \in DOMAIN f |-> f[x]]
  BY <1>1 DEF TreeOf, Formed
<1>3. CASE h = 1
  <2>1. S = {Max(S)}
    BY <1>2, <1>3 DEF HasHeight
  <2>2. Max(S) \in Nat
    BY <1>2, KeyMax
  <2>3. 1 \in 1 .. MaxRank + 1 /\ 1 \in Nat /\ 1 - 1 = 0 /\ 0 \in Nat
    BY RankedAssumption
  <2>4. Cuts(S, 0) = S /\ Cuts(S, 1) = {Max(S)}
    BY <1>2, <1>3, <2>3, CutsAre, HeightIs
  <2>5. Under(S, 1, Max(S)) = S
    <3>1. Max(S) <= Max(S) /\ ~(Max(S) < Max(S))
      BY <2>2
    <3> HIDE DEF S
    <3> QED BY <2>1, <2>3, <2>4, <3>1 DEF Under
  <2>6. Rows(f)[1] = [c \in Cuts(S, 1) |-> Adopt([k \in Under(S, 1, c) |-> Rows(f)[1 - 1][k]], 1)]
    BY <2>3, RowsAre DEF RowsOf
  <2>7. Rows(f)[1][Max(S)] = Adopt([k \in Under(S, 1, Max(S)) |-> Rows(f)[1 - 1][k]], 1)
    BY <2>4, <2>6
  <2>8. Rows(f)[0] = f
    BY RowsAre DEF RowsOf
  <2>9. node = Adopt([k \in S |-> f[k]], 1)
    BY <1>2, <1>3, <2>3, <2>5, <2>7, <2>8
  <2>10. node = Adopt(f, 1)
    BY <1>2, <2>9
  <2>11. ~node.branch /\ node.items = f
    <3>1. node.items = f
      BY <2>10 DEF Adopt
    <3>2. ~node.branch
      BY <1>2, <1>3, <2>3, <2>4, NodeIs
    <3> QED BY <3>1, <3>2
  <2> QED BY <2>1, <2>11 DEF IsOne
<1>4. CASE h # 1
  <2>1. PICK g \in 2 .. MaxRank + 1 : Formed(FromSet(f), f, g)
    BY <1>2, FromSetIs
  <2>2. g # 1 /\ HasHeight(S, g) /\ FromSet(f) = Rows(f)[g][Max(S)]
    BY <2>1 DEF Formed
  <2>3. g = h
    BY <1>2, <1>4, <2>2, HeightsAgree
  <2> QED BY <1>2, <2>2, <2>3
<1> QED BY <1>3, <1>4

LEMMA RootInit == RankedInit => RootIs
<1> SUFFICES ASSUME RankedInit PROVE RootIs
  OBVIOUS
<1>1. CASE root = NoRoot /\ entries = <<>>
  BY <1>1 DEF RootIs
<1>2. CASE \E map \in Maps : root = FromSet(map) /\ entries = map
  <2>1. PICK map \in Maps : root = FromSet(map) /\ entries = map
    BY <1>2
  <2>2. PICK S : S \in SUBSET Keys /\ IsFiniteSet(S) /\ S # {} /\ map \in [S -> Values]
    BY DEF Maps
  <2>3. KeySet(DOMAIN map) /\ map = [x \in DOMAIN map |-> map[x]]
    BY <2>2 DEF KeySet
  <2> QED BY <2>1, <2>3, SetTree DEF RootIs
<1> QED BY <1>1, <1>2 DEF RankedInit

LEMMA RootStep == RootIs /\ [RankedNext]_rankedVars => RootIs'
<1> SUFFICES ASSUME RootIs, [RankedNext]_rankedVars PROVE RootIs'
  OBVIOUS
<1>1. ASSUME NEW k \in Keys, NEW v \in Values, SetKey(k, v)
      PROVE  RootIs'
  <2>1. CASE root = NoRoot
    <3>1. entries = <<>>
      BY <2>1, TreeNotEmpty DEF RootIs
    <3>2. root' = Adopt(With(<<>>, k, v), 1) /\ entries' = With(<<>>, k, v)
      BY <1>1, <2>1, <3>1 DEF SetKey
    <3> QED BY <3>2, FirstTree DEF RootIs
  <2>2. CASE root # NoRoot
    <3>1. TreeOf(root, entries)
      BY <2>2 DEF RootIs
    <3>2. root' = Insert(root, k, v) /\ entries' = With(entries, k, v)
      BY <1>1, <2>2 DEF SetKey
    <3> QED BY <3>1, <3>2, WithTree DEF RootIs
  <2> QED BY <2>1, <2>2
<1>2. ASSUME UNCHANGED <<root, entries>>
      PROVE  RootIs'
  BY <1>2 DEF RootIs
<1>3. RankedNext => (\E k \in Keys, v \in Values : SetKey(k, v)) \/ UNCHANGED <<root, entries>>
  BY DEF RankedNext, StreamRange, ReadStep, VisitStart, VisitNext, ReadSegment, ReadEntry, EndOfTree,
         Drop, Visit, Reads
<1> QED BY <1>1, <1>2, <1>3 DEF rankedVars

(* Whatever was set, in whatever order, the tree is the one that from_set makes of the
   same entries, or the bare segment of a single entry (insert and join_with_rank). *)
THEOREM SameTree == RankedSpec => []SameRoot
<1>1. RootIs => SameRoot
  BY TreeIs DEF RootIs, SameRoot
<1> QED BY <1>1, RootInit, RootStep, PTL DEF RankedSpec

(***************************************************************************)
(* A read.  Its stack is a path of nodes, each under the child that the    *)
(* node above it has visited.                                              *)
(***************************************************************************)
LEMMA Unstacked ==
  ASSUME NEW T, NEW s \in Seq(T), s # <<>>
  PROVE  LET p == SubSeq(s, 1, Len(s) - 1)
         IN  /\ Len(s) \in Nat \ {0} /\ p \in Seq(T) /\ Len(p) = Len(s) - 1
             /\ \A i \in 1 .. Len(s) - 1 : p[i] = s[i]
             /\ \A i \in 1 .. Len(s) : s[i] \in T
<1> DEFINE n == Len(s)
           p == SubSeq(s, 1, n - 1)
<1>1. n \in Nat \ {0} /\ \A i \in 1 .. n : s[i] \in T
  OBVIOUS
<1> HIDE DEF n
<1>2. 1 \in Int /\ n - 1 \in Int /\ (\A i \in 1 .. n - 1 : s[i] \in T) /\ n - 1 - 1 + 1 = n - 1
  BY <1>1
<1>3. /\ p \in Seq(T)
      /\ Len(p) = IF 1 <= n - 1 THEN n - 1 - 1 + 1 ELSE 0
      /\ \A i \in 1 .. n - 1 - 1 + 1 : p[i] = s[1 + i - 1]
  BY <1>2, SubSeqProperties
<1> HIDE DEF p
<1>4. Len(p) = n - 1 /\ \A i \in 1 .. n - 1 : p[i] = s[i]
  <2>1. \A i \in 1 .. n - 1 : 1 + i - 1 = i
    BY <1>1
  <2> QED BY <1>1, <1>2, <1>3, <2>1
<1> QED BY <1>1, <1>3, <1>4 DEF n, p

(* A stack whose top a has a frame b put on it. *)
Restack(s, a, b) == SubSeq(s, 1, Len(s) - 1) \o <<a, b>>

LEMMA Restacked ==
  ASSUME NEW T, NEW s \in Seq(T), s # <<>>, NEW a \in T, NEW b \in T
  PROVE  /\ Restack(s, a, b) \in Seq(T) /\ Len(Restack(s, a, b)) = Len(s) + 1
         /\ Restack(s, a, b) # <<>>
         /\ \A i \in 1 .. Len(s) - 1 : Restack(s, a, b)[i] = s[i]
         /\ Restack(s, a, b)[Len(s)] = a /\ Restack(s, a, b)[Len(s) + 1] = b
<1> DEFINE n == Len(s)
           p == SubSeq(s, 1, n - 1)
           t == <<a, b>>
           q == Restack(s, a, b)
<1>0. q = p \o t
  BY DEF Restack
<1>1. n \in Nat \ {0} /\ p \in Seq(T) /\ Len(p) = n - 1 /\ \A i \in 1 .. n - 1 : p[i] = s[i]
  BY Unstacked
<1>2. t \in Seq(T) /\ Len(t) = 2 /\ t[1] = a /\ t[2] = b
  OBVIOUS
<1> HIDE DEF n, p, t
<1> HIDE DEF q
<1>3. p \in Seq(T) /\ t \in Seq(T)
  BY <1>1, <1>2
<1>8. /\ p \o t \in Seq(T) /\ Len(p \o t) = Len(p) + Len(t)
      /\ \A i \in 1 .. Len(p) + Len(t) : (p \o t)[i] = IF i <= Len(p) THEN p[i] ELSE t[i - Len(p)]
  BY <1>3, ConcatProperties
<1>9. /\ q \in Seq(T) /\ Len(q) = Len(p) + Len(t)
      /\ \A i \in 1 .. Len(p) + Len(t) : q[i] = IF i <= Len(p) THEN p[i] ELSE t[i - Len(p)]
  BY <1>0, <1>8, Zenon
<1>10. n \in Nat /\ Len(p) = n - 1 /\ Len(t) = 2 /\ Len(p) + Len(t) = n + 1
  BY <1>1, <1>2
<1>4. q \in Seq(T) /\ Len(q) = n + 1 /\ \A i \in 1 .. n + 1 : q[i] = IF i <= n - 1 THEN p[i] ELSE t[i - (n - 1)]
  BY <1>9, <1>10, Zenon
<1>5. \A i \in 1 .. n - 1 : q[i] = s[i]
  BY <1>1, <1>4
<1>6. q[n] = a /\ q[n + 1] = b
  BY <1>1, <1>2, <1>4
<1>7. q # <<>>
  BY <1>1, <1>4
<1> QED BY <1>4, <1>5, <1>6, <1>7 DEF n, q

Frames(f) == [node : {Rows(f)[l][c] : l \in 1 .. MaxRank + 1, c \in Nat}, visited : Int]

(* The boundary that the i-th node of a stack has in the one above it. *)
EndOf(f, s, i) == IF i = 1 THEN Max(DOMAIN f) ELSE s[i - 1].visited

FrameIs(f, h, s, i) ==
  /\ EndOf(f, s, i) \in Cuts(DOMAIN f, h - i + 1)
  /\ s[i].node = Rows(f)[h - i + 1][EndOf(f, s, i)]
  /\ \/ i = Len(s) /\ s[i].visited = -1
     \/ h - i + 1 > 1 /\ s[i].visited \in Under(DOMAIN f, h - i + 1, EndOf(f, s, i))

StackIs(f, h, s) ==
  /\ s \in Seq(Frames(f)) /\ Len(s) <= h
  /\ \A i \in 1 .. Len(s) : FrameIs(f, h, s, i)

LEMMA TopIs ==
  ASSUME NEW f, KeySet(DOMAIN f), NEW h, HasHeight(DOMAIN f, h), NEW s, StackIs(f, h, s), s # <<>>
  PROVE  LET n == Len(s)
             l == h - n + 1
             b == EndOf(f, s, n)
         IN  /\ n \in Nat \ {0} /\ h \in Nat /\ l \in Nat \ {0} /\ l \in 1 .. MaxRank + 1
             /\ FrameIs(f, h, s, n) /\ b \in Cuts(DOMAIN f, l) /\ b \in Nat
             /\ s[n].node.branch <=> l > 1
             /\ DOMAIN s[n].node.items = Under(DOMAIN f, l, b)
             /\ \A x \in Under(DOMAIN f, l, b) : s[n].node.items[x] = Rows(f)[l - 1][x]
             /\ s[n] \in Frames(f)
<1> DEFINE n == Len(s)
           l == h - n + 1
           b == EndOf(f, s, n)
<1>1. n \in Nat \ {0} /\ n <= h /\ s[n] \in Frames(f) /\ FrameIs(f, h, s, n)
  BY Unstacked DEF StackIs
<1>2. h \in 1 .. MaxRank + 1 /\ h \in Nat /\ MaxRank \in Nat
  BY HeightIs
<1> HIDE DEF n
<1>3. l \in Nat \ {0} /\ l \in Nat /\ l \in 1 .. MaxRank + 1
  BY <1>1, <1>2
<1>4. b \in Cuts(DOMAIN f, l) /\ s[n].node = Rows(f)[l][b]
  BY <1>1 DEF FrameIs
<1>5. b \in Nat
  BY <1>3, <1>4, CutsAre, KeyMax
<1> HIDE DEF l, b
<1>6. /\ s[n].node.branch <=> l > 1
      /\ DOMAIN s[n].node.items = Under(DOMAIN f, l, b)
      /\ \A x \in Under(DOMAIN f, l, b) : s[n].node.items[x] = Rows(f)[l - 1][x]
  BY <1>3, <1>4, NodeIs
<1> QED BY <1>1, <1>2, <1>3, <1>4, <1>5, <1>6 DEF n, l, b

LEMMA PopIs ==
  ASSUME NEW f, KeySet(DOMAIN f), NEW h, HasHeight(DOMAIN f, h), NEW s, StackIs(f, h, s), s # <<>>
  PROVE  LET p == SubSeq(s, 1, Len(s) - 1)
         IN  /\ StackIs(f, h, p) /\ Len(p) = Len(s) - 1 /\ Len(s) \in Nat \ {0}
             /\ \A i \in 1 .. Len(s) : EndOf(f, p, i) = EndOf(f, s, i)
<1> DEFINE n == Len(s)
           p == SubSeq(s, 1, n - 1)
<1>1. s \in Seq(Frames(f)) /\ n <= h /\ \A i \in 1 .. n : FrameIs(f, h, s, i)
  BY DEF StackIs
<1>2. n \in Nat \ {0} /\ p \in Seq(Frames(f)) /\ Len(p) = n - 1 /\ \A i \in 1 .. n - 1 : p[i] = s[i]
  BY <1>1, Unstacked
<1>3. h \in Nat
  BY HeightIs
<1> HIDE DEF n, p
<1>4. ASSUME NEW i \in 1 .. n
      PROVE  EndOf(f, p, i) = EndOf(f, s, i)
  <2>1. CASE i = 1
    BY <2>1 DEF EndOf
  <2>2. CASE i # 1
    <3>1. i - 1 \in 1 .. n - 1
      BY <1>2, <2>2
    <3> QED BY <1>2, <2>2, <3>1 DEF EndOf
  <2> QED BY <2>1, <2>2
<1>5. ASSUME NEW i \in 1 .. n - 1
      PROVE  FrameIs(f, h, p, i)
  <2>1. i \in 1 .. n /\ i # n
    BY <1>2
  <2>2. EndOf(f, p, i) = EndOf(f, s, i) /\ p[i] = s[i]
    BY <1>2, <1>4, <2>1
  <2>3. FrameIs(f, h, s, i) /\ i # Len(s)
    BY <1>1, <2>1 DEF n
  <2> QED BY <2>2, <2>3 DEF FrameIs
<1>6. n - 1 <= h
  BY <1>1, <1>2, <1>3
<1>7. StackIs(f, h, p)
  BY <1>2, <1>5, <1>6 DEF StackIs
<1> QED BY <1>2, <1>4, <1>7 DEF n, p

(* A stack whose top node goes on to a child. *)
Visited(s, child) == Restack(s, [s[Len(s)] EXCEPT !.visited = child],
                             [node |-> s[Len(s)].node.items[child], visited |-> -1])

LEMMA VisitIs ==
  ASSUME NEW f, KeySet(DOMAIN f), NEW h, HasHeight(DOMAIN f, h), NEW s, StackIs(f, h, s), s # <<>>,
         h - Len(s) + 1 > 1,
         NEW child \in Under(DOMAIN f, h - Len(s) + 1, EndOf(f, s, Len(s)))
  PROVE  /\ StackIs(f, h, Visited(s, child)) /\ Len(Visited(s, child)) = Len(s) + 1
         /\ Len(s) \in Nat \ {0} /\ Visited(s, child) # <<>>
         /\ \A i \in 1 .. Len(s) : EndOf(f, Visited(s, child), i) = EndOf(f, s, i)
         /\ EndOf(f, Visited(s, child), Len(s) + 1) = child
         /\ EndOf(f, Visited(s, child), Len(s) + 2) = -1
         /\ child \in Cuts(DOMAIN f, h - Len(s)) /\ child \in Nat
<1> DEFINE n == Len(s)
           l == h - n + 1
           b == EndOf(f, s, n)
           T == Frames(f)
           one == [s[n] EXCEPT !.visited = child]
           two == [node |-> s[n].node.items[child], visited |-> -1]
           q == Visited(s, child)
<1>0. q = Restack(s, one, two)
  BY DEF Visited
<1> HIDE DEF q
<1>1. /\ n \in Nat \ {0} /\ h \in Nat /\ l \in Nat \ {0} /\ l \in 1 .. MaxRank + 1
      /\ FrameIs(f, h, s, n) /\ b \in Cuts(DOMAIN f, l) /\ s[n] \in T
      /\ \A x \in Under(DOMAIN f, l, b) : s[n].node.items[x] = Rows(f)[l - 1][x]
  BY TopIs
<1>2. s \in Seq(T) /\ n <= h /\ \A i \in 1 .. n : FrameIs(f, h, s, i)
  BY DEF StackIs
<1>3. MaxRank \in Nat
  BY RankedAssumption
<1>4. h - n \in 1 .. MaxRank + 1 /\ h - n = l - 1 /\ h - n \in Nat /\ n + 1 <= h
  <2>1. l > 1
    OBVIOUS
  <2> HIDE DEF n
  <2> QED BY <1>1, <1>2, <1>3, <2>1
<1>5. child \in Cuts(DOMAIN f, h - n) /\ child \in Nat
  <2>1. child \in Cuts(DOMAIN f, l - 1)
    BY DEF Under
  <2> HIDE DEF n, l
  <2>2. child \in Cuts(DOMAIN f, h - n)
    BY <1>4, <2>1
  <2>3. child \in Nat
    BY <1>4, <2>2, CutsAre, KeyMax
  <2> QED BY <2>2, <2>3
<1>6. two.node = Rows(f)[h - n][child] /\ two.visited = -1 /\ two \in T
  <2>1. s[n].node.items[child] = Rows(f)[h - n][child]
    BY <1>1, <1>4
  <2>2. two = [node |-> Rows(f)[h - n][child], visited |-> -1]
    BY <2>1
  <2> HIDE DEF n, two
  <2>3. Rows(f)[h - n][child] \in {Rows(f)[j][c] : j \in 1 .. MaxRank + 1, c \in Nat}
    BY <1>4, <1>5
  <2> QED BY <2>2, <2>3 DEF Frames
<1>7. one \in T /\ one.node = s[n].node /\ one.visited = child
  <2> DEFINE t == s[n]
  <2>1. child \in Int /\ t \in T
    BY <1>1, <1>5
  <2>2. one = [t EXCEPT !.visited = child]
    OBVIOUS
  <2> HIDE DEF t, one
  <2>3. one \in T /\ one.node = t.node /\ one.visited = child
    BY <2>1, <2>2 DEF Frames
  <2> QED BY <2>3 DEF t
<1>8. /\ q \in Seq(T) /\ Len(q) = n + 1 /\ q # <<>>
      /\ \A i \in 1 .. n - 1 : q[i] = s[i]
      /\ q[n] = one /\ q[n + 1] = two
  <2>1. s \in Seq(T) /\ one \in T /\ two \in T
    BY <1>2, <1>6, <1>7
  <2> HIDE DEF T, one, two, n
  <2>2. /\ Restack(s, one, two) \in Seq(T) /\ Len(Restack(s, one, two)) = Len(s) + 1
        /\ Restack(s, one, two) # <<>>
        /\ \A i \in 1 .. Len(s) - 1 : Restack(s, one, two)[i] = s[i]
        /\ Restack(s, one, two)[Len(s)] = one /\ Restack(s, one, two)[Len(s) + 1] = two
    BY <2>1, Restacked
  <2> QED BY <1>0, <2>2 DEF n
<1>9. FrameIs(f, h, s, n)
  BY <1>1
<1>10. /\ l > 1 /\ child \in Under(DOMAIN f, l, b)
  OBVIOUS
<1> HIDE DEF n, b, T, one, two
<1>11. ASSUME NEW i \in 1 .. n
       PROVE  EndOf(f, q, i) = EndOf(f, s, i)
  <2>1. CASE i = 1
    BY <2>1 DEF EndOf
  <2>2. CASE i # 1
    <3>1. i - 1 \in 1 .. n - 1
      BY <1>1, <2>2
    <3> QED BY <1>8, <2>2, <3>1 DEF EndOf
  <2> QED BY <2>1, <2>2
<1>12. EndOf(f, q, n + 1) = child /\ EndOf(f, q, n + 2) = -1
  <2>1. n + 1 # 1 /\ (n + 1) - 1 = n /\ n + 2 # 1 /\ (n + 2) - 1 = n + 1
    BY <1>1
  <2>2. EndOf(f, q, n + 1) = q[n].visited
    BY <2>1 DEF EndOf
  <2>3. EndOf(f, q, n + 2) = q[n + 1].visited
    BY <2>1 DEF EndOf
  <2> QED BY <1>6, <1>7, <1>8, <2>2, <2>3
<1>13. ASSUME NEW i \in 1 .. n + 1
       PROVE  FrameIs(f, h, q, i)
  <2>1. CASE i \in 1 .. n - 1
    <3>1. i \in 1 .. n /\ i # n
      BY <1>1, <2>1
    <3>2. FrameIs(f, h, s, i) /\ i # Len(s)
      BY <1>2, <3>1 DEF n
    <3> QED BY <1>8, <1>11, <2>1, <3>1, <3>2 DEF FrameIs
  <2>2. CASE i = n
    <3>1. n \in 1 .. n
      BY <1>1
    <3>2. EndOf(f, q, n) = b
      BY <1>11, <3>1 DEF b
    <3>3. b \in Cuts(DOMAIN f, l) /\ s[n].node = Rows(f)[l][b]
      BY <1>9 DEF FrameIs, b
    <3> HIDE DEF l
    <3>4. /\ EndOf(f, q, n) \in Cuts(DOMAIN f, l) /\ q[n].node = Rows(f)[l][EndOf(f, q, n)]
          /\ l > 1 /\ q[n].visited \in Under(DOMAIN f, l, EndOf(f, q, n))
      BY <1>7, <1>8, <1>10, <3>2, <3>3
    <3> QED BY <2>2, <3>4 DEF FrameIs, l
  <2>3. CASE i = n + 1
    <3>1. h - (n + 1) + 1 = h - n
      BY <1>1
    <3> QED BY <1>5, <1>6, <1>8, <1>12, <2>3, <3>1 DEF FrameIs
  <2>4. i \in 1 .. n - 1 \/ i = n \/ i = n + 1
    BY <1>1
  <2> QED BY <2>1, <2>2, <2>3, <2>4
<1>14. StackIs(f, h, q)
  BY <1>4, <1>8, <1>13 DEF StackIs, T
<1> QED BY <1>1, <1>5, <1>8, <1>11, <1>12, <1>14 DEF n, q

(* What is read is what lies between two bounds, and nothing lies before the start. *)
In(r, x) == AtLeast(r.from, x) /\ AtMost(r.to, x)

LEMMA RangeIs ==
  ASSUME NEW r, r.from \in Bounds, r.to \in Bounds
  PROVE  /\ r.from.key \in Nat
         /\ \A x \in Nat : In(r, x) => r.from.key <= x
         /\ \A x, y, z \in Nat : In(r, x) /\ x <= y /\ ~In(r, y) /\ y <= z => ~In(r, z)
<1>1. \A b \in Bounds : b.key \in Nat /\ (b.kind = "Unbounded" => b.key = 0)
  <2>1. Unbounded.key = 0
    BY DEF Unbounded
  <2>2. \A b \in [kind : {"Included", "Excluded"}, key : Keys] : b.key \in Nat /\ b.kind # "Unbounded"
    BY RankedAssumption
  <2> QED BY <2>1, <2>2 DEF Bounds
<1>2. r.from.key \in Nat /\ r.to.key \in Nat /\ (r.from.kind = "Unbounded" => r.from.key = 0)
  BY <1>1
<1>3. ASSUME NEW x \in Nat, In(r, x)
      PROVE  r.from.key <= x
  BY <1>2, <1>3 DEF In, AtLeast
<1>4. ASSUME NEW x \in Nat, NEW y \in Nat, NEW z \in Nat, In(r, x), x <= y, ~In(r, y), y <= z
      PROVE  ~In(r, z)
  <2>1. AtLeast(r.from, y)
    BY <1>2, <1>4 DEF In, AtLeast
  <2>2. ~AtMost(r.to, y)
    BY <1>4, <2>1 DEF In
  <2>3. ~AtMost(r.to, z)
    BY <1>2, <1>4, <2>2 DEF AtMost
  <2> QED BY <2>3 DEF In
<1> QED BY <1>2, <1>3, <1>4

(* The entries in the range up to F, in order: what has been yielded. *)
EntryOf(f, k) == [key |-> k, value |-> f[k]]

Yielded(f, r, F) ==
  /\ r.yielded \in Seq({EntryOf(f, x) : x \in DOMAIN f})
  /\ \A i \in 1 .. Len(r.yielded) : In(r, r.yielded[i].key) /\ r.yielded[i].key <= F
  /\ \A i, j \in 1 .. Len(r.yielded) : i < j => r.yielded[i].key < r.yielded[j].key
  /\ \A x \in DOMAIN f : In(r, x) /\ x <= F =>
       \E i \in 1 .. Len(r.yielded) : r.yielded[i] = EntryOf(f, x)

LEMMA SameRange ==
  ASSUME NEW f, NEW r, NEW q, q.from = r.from, q.to = r.to
  PROVE  /\ \A x : In(q, x) <=> In(r, x)
         /\ q.yielded = r.yielded => \A F : Yielded(f, r, F) => Yielded(f, q, F)
<1>1. \A x : In(q, x) <=> In(r, x)
  BY DEF In
<1>2. ASSUME q.yielded = r.yielded, NEW F, Yielded(f, r, F)
      PROVE  Yielded(f, q, F)
  BY <1>1, <1>2 DEF Yielded
<1> QED BY <1>1, <1>2

LEMMA YieldedNone ==
  ASSUME NEW f, NEW r, r.yielded = <<>>, DOMAIN f \subseteq Nat
  PROVE  Yielded(f, r, -1)
<1>1. r.yielded \in Seq({EntryOf(f, x) : x \in DOMAIN f}) /\ Len(r.yielded) = 0
  OBVIOUS
<1>2. 1 .. Len(r.yielded) = {}
  BY <1>1
<1>3. \A x \in DOMAIN f : ~(x <= -1)
  OBVIOUS
<1> QED BY <1>1, <1>2, <1>3 DEF Yielded

LEMMA YieldedOn ==
  ASSUME NEW f, DOMAIN f \subseteq Nat, NEW r, NEW F \in Int, Yielded(f, r, F), NEW G \in Int, F <= G,
         \A x \in DOMAIN f : F < x /\ x <= G => ~In(r, x)
  PROVE  Yielded(f, r, G)
<1>1. \A i \in 1 .. Len(r.yielded) : r.yielded[i].key \in Nat
  <2>1. r.yielded \in Seq({EntryOf(f, x) : x \in DOMAIN f})
    BY DEF Yielded
  <2>2. ASSUME NEW i \in 1 .. Len(r.yielded)
        PROVE  r.yielded[i].key \in Nat
    <3>1. r.yielded[i] \in {EntryOf(f, x) : x \in DOMAIN f}
      BY <2>1
    <3> QED BY <3>1 DEF EntryOf
  <2> QED BY <2>2
<1>2. \A i \in 1 .. Len(r.yielded) : In(r, r.yielded[i].key) /\ r.yielded[i].key <= G
  BY <1>1 DEF Yielded
<1>3. ASSUME NEW x \in DOMAIN f, In(r, x), x <= G
      PROVE  \E i \in 1 .. Len(r.yielded) : r.yielded[i] = EntryOf(f, x)
  <2>1. x <= F
    BY <1>3
  <2> QED BY <1>3, <2>1 DEF Yielded
<1> QED BY <1>2, <1>3 DEF Yielded

LEMMA YieldedNext ==
  ASSUME NEW f, DOMAIN f \subseteq Nat, NEW r, NEW F \in Int, Yielded(f, r, F), NEW k \in DOMAIN f, F < k,
         \A x \in DOMAIN f : F < x /\ x < k => ~In(r, x), In(r, k),
         NEW q, q.from = r.from, q.to = r.to, q.yielded = Append(r.yielded, EntryOf(f, k))
  PROVE  Yielded(f, q, k)
<1> DEFINE T == {EntryOf(f, x) : x \in DOMAIN f}
           y == r.yielded
           z == q.yielded
           e == EntryOf(f, k)
           n == Len(y)
<1>1. y \in Seq(T) /\ e \in T /\ k \in Nat
  BY DEF Yielded
<1>2. /\ \A i \in 1 .. n : In(r, y[i].key) /\ y[i].key <= F
      /\ \A i, j \in 1 .. n : i < j => y[i].key < y[j].key
      /\ \A x \in DOMAIN f : In(r, x) /\ x <= F => \E i \in 1 .. n : y[i] = EntryOf(f, x)
  BY DEF Yielded
<1>3. \A i \in 1 .. n : y[i].key \in Nat
  <2>1. ASSUME NEW i \in 1 .. n
        PROVE  y[i].key \in Nat
    <3>1. y[i] \in T
      BY <1>1
    <3> QED BY <3>1 DEF EntryOf
  <2> QED BY <2>1
<1>4. \A x : In(q, x) <=> In(r, x)
  BY DEF In
<1>5. z = Append(y, e) /\ e.key = k
  BY DEF EntryOf
<1>6. n \in Nat
  BY <1>1
<1> HIDE DEF T, y, z, e, n
<1>7. z \in Seq(T) /\ Len(z) = n + 1 /\ (\A i \in 1 .. n : z[i] = y[i]) /\ z[n + 1] = e
  BY <1>1, <1>5, AppendProperties DEF n
<1>8. ASSUME NEW i \in 1 .. Len(z)
      PROVE  In(q, z[i].key) /\ z[i].key <= k
  <2>1. i \in 1 .. n \/ i = n + 1
    BY <1>6, <1>7
  <2>2. CASE i \in 1 .. n
    BY <1>1, <1>2, <1>3, <1>4, <1>7, <2>2
  <2>3. CASE i = n + 1
    BY <1>1, <1>4, <1>5, <1>7, <2>3
  <2> QED BY <2>1, <2>2, <2>3
<1>9. ASSUME NEW i \in 1 .. Len(z), NEW j \in 1 .. Len(z), i < j
      PROVE  z[i].key < z[j].key
  <2>1. i \in 1 .. n /\ (j \in 1 .. n \/ j = n + 1)
    BY <1>6, <1>7, <1>9
  <2>2. CASE j \in 1 .. n
    BY <1>2, <1>7, <1>9, <2>1, <2>2
  <2>3. CASE j = n + 1
    <3>1. y[i].key <= F /\ y[i].key \in Nat /\ z[i] = y[i] /\ z[j].key = k
      BY <1>2, <1>3, <1>5, <1>7, <2>1, <2>3
    <3> QED BY <1>1, <3>1
  <2> QED BY <2>1, <2>2, <2>3
<1>10. ASSUME NEW x \in DOMAIN f, In(q, x), x <= k
       PROVE  \E i \in 1 .. Len(z) : z[i] = EntryOf(f, x)
  <2>1. In(r, x) /\ x \in Nat
    BY <1>4, <1>10
  <2>2. CASE x = k
    <3>1. n + 1 \in 1 .. Len(z)
      BY <1>6, <1>7
    <3> QED BY <1>7, <2>2, <3>1 DEF e
  <2>3. CASE x # k
    <3>1. x <= F
      BY <1>1, <1>10, <2>1, <2>3
    <3>2. PICK i \in 1 .. n : y[i] = EntryOf(f, x)
      BY <1>2, <2>1, <3>1
    <3>3. i \in 1 .. Len(z)
      BY <1>6, <1>7
    <3> QED BY <1>7, <3>2, <3>3
  <2> QED BY <2>2, <2>3
<1> QED BY <1>7, <1>8, <1>9, <1>10 DEF Yielded, T, z

(* The entries of a segment that have yet to be seen. *)
Holds(f, segment, X) == DOMAIN segment = X /\ \A x \in X : segment[x] = f[x]

Rest(S, F, e) == {x \in S : F < x /\ x <= e}
Beyond(S, c, F) == {x \in Under(S, 1, c) : F < x}

(* Before an entry has matched the read is at the start of the range: nothing in it
   has been passed. *)
Starting(f, h, r) ==
  LET n == Len(r.stack)
      start == r.from.key
  IN  /\ Yielded(f, r, -1)
      /\ \A i \in 1 .. n : EndOf(f, r.stack, i) = Cover(DOMAIN f, h - i + 1, start)
      /\ \/ /\ DOMAIN r.segment = {} /\ r.stack # <<>>
            /\ EndOf(f, r.stack, n + 1) \in {-1, Cover(DOMAIN f, h - n, start)}
         \/ /\ n = h - 1 /\ EndOf(f, r.stack, n + 1) = Cover(DOMAIN f, 1, start)
            /\ \E F \in Int :
                 /\ \A x \in DOMAIN f : x <= F => ~In(r, x)
                 /\ Holds(f, r.segment, Beyond(DOMAIN f, Cover(DOMAIN f, 1, start), F))

(* From then on it is behind an entry F in the range: the rest of a segment is to be
   seen, or the node on top, which has the next entry. *)
AfterEntry(f, r, F) ==
  LET e == EndOf(f, r.stack, Len(r.stack) + 1)
  IN  e \in Nat /\ F <= e /\ Holds(f, r.segment, Rest(DOMAIN f, F, e))

BeforeNode(f, h, r, F) ==
  LET n == Len(r.stack)
      l == h - n + 1
      b == EndOf(f, r.stack, n)
  IN  /\ r.stack # <<>> /\ DOMAIN r.segment = {} /\ EndOf(f, r.stack, n + 1) = -1
      /\ F \in Cuts(DOMAIN f, l) /\ F < b /\ \A y \in Cuts(DOMAIN f, l) : ~(F < y /\ y < b)

Going(f, h, r) ==
  \E F \in DOMAIN f : In(r, F) /\ Yielded(f, r, F) /\ (AfterEntry(f, r, F) \/ BeforeNode(f, h, r, F))

ReadFields == {"state", "from", "to", "stack", "segment", "matching", "yielded", "vain"}

ReadIs(f, h, r) ==
  /\ DOMAIN r = ReadFields /\ r.from \in Bounds /\ r.to \in Bounds
  /\ \/ /\ r.state = "reading" /\ StackIs(f, h, r.stack)
        /\ \/ ~r.matching /\ Starting(f, h, r)
           \/ r.matching /\ Going(f, h, r)
     \/ r.state = "ended" /\ Yielded(f, r, Max(DOMAIN f))

(* The entries of a leaf that are not before the start are all before its end. *)
LEMMA FromStart ==
  ASSUME NEW S, KeySet(S), NEW start \in Nat, NEW x \in S, NEW y \in Under(S, 1, Cover(S, 1, start)),
         x <= y, start <= x
  PROVE  x \in Under(S, 1, Cover(S, 1, start))
<1> DEFINE c == Cover(S, 1, start)
<1>1. S \subseteq Nat /\ \A z \in S : z <= Max(S)
  BY KeyMax
<1>2. 0 \in Nat /\ 1 - 1 = 0 /\ 1 \in Nat
  OBVIOUS
<1>3. Cuts(S, 0) = S /\ Cuts(S, 1) \subseteq S
  BY <1>2, CutsAre
<1>4. c \in Nat /\ (start <= Max(S) => \A b \in Cuts(S, 1) : b < c <=> b < start)
  BY <1>2, CoverIs
<1>5. Max(S) \in Nat /\ start <= Max(S)
  <2>1. Max(S) \in S /\ x <= Max(S)
    BY KeyMax
  <2>2. x \in Nat /\ Max(S) \in Nat
    BY <1>1, <2>1
  <2> QED BY <2>1, <2>2
<1> HIDE DEF c
<1>6. y <= c /\ y \in Nat
  BY <1>1, <1>2, <1>3 DEF Under, c
<1>7. x <= c
  <2>1. x \in Nat
    BY <1>1
  <2> QED BY <1>4, <1>6, <2>1
<1>8. \A b \in Cuts(S, 1) : b < c => b < x
  <2>1. x \in Nat /\ Cuts(S, 1) \subseteq Nat
    BY <1>1, <1>3
  <2> QED BY <1>4, <1>5, <2>1
<1> QED BY <1>2, <1>3, <1>7, <1>8 DEF Under, c

(* What lies under a node behind the cut before it. *)
LEMMA UnderFrom ==
  ASSUME NEW S, KeySet(S), NEW l \in Nat, NEW b \in Cuts(S, l + 1), NEW F \in Cuts(S, l + 1), F < b,
         \A y \in Cuts(S, l + 1) : ~(F < y /\ y < b)
  PROVE  Under(S, l + 1, b) = {x \in Cuts(S, l) : F < x /\ x <= b}
<1>1. (l + 1) - 1 = l /\ l + 1 \in Nat
  OBVIOUS
<1>2. Cuts(S, l) \subseteq Nat /\ Cuts(S, l + 1) \subseteq Nat
  BY <1>1, CutsAre, KeyMax
<1>3. Under(S, l + 1, b) = {x \in Cuts(S, l) : x <= b /\ \A y \in Cuts(S, l + 1) : y < b => y < x}
  BY <1>1 DEF Under
<1>4. \A y \in Cuts(S, l + 1) : y < b => y <= F
  BY <1>2
<1> QED BY <1>2, <1>3, <1>4

LEMMA UnderHas ==
  ASSUME NEW S, KeySet(S), NEW l \in Nat, NEW b \in Cuts(S, l + 1)
  PROVE  /\ Under(S, l + 1, b) \subseteq Cuts(S, l) /\ b \in Under(S, l + 1, b)
         /\ Under(S, l + 1, b) \subseteq Nat /\ b \in Nat
         /\ \A x \in Under(S, l + 1, b) : x <= b
         /\ \A x \in Under(S, l + 1, b), y \in Cuts(S, l) : x < y /\ y <= b => y \in Under(S, l + 1, b)
<1>1. (l + 1) - 1 = l /\ l + 1 \in Nat
  OBVIOUS
<1>2. Cuts(S, l) \subseteq Nat /\ Cuts(S, l + 1) \subseteq Cuts(S, l)
  BY <1>1, CutsAre, KeyMax
<1>3. Under(S, l + 1, b) = {x \in Cuts(S, l) : x <= b /\ \A y \in Cuts(S, l + 1) : y < b => y < x}
  BY <1>1 DEF Under
<1>4. b \in Nat /\ b <= b
  BY <1>2
<1>5. ASSUME NEW x \in Under(S, l + 1, b), NEW y \in Cuts(S, l), x < y, y <= b
      PROVE  y \in Under(S, l + 1, b)
  <2>1. \A z \in Cuts(S, l + 1) : z < b => z < y
    BY <1>2, <1>3, <1>4, <1>5
  <2> QED BY <1>3, <1>5, <2>1
<1> QED BY <1>2, <1>3, <1>4, <1>5

(* The step down that a read takes until an entry has matched. *)
LEMMA StartDown ==
  ASSUME NEW f, KeySet(DOMAIN f), NEW h, HasHeight(DOMAIN f, h), NEW r, ReadIs(f, h, r),
         r.state = "reading", ~r.matching, DOMAIN r.segment = {}, r.stack # <<>>,
         r.stack[Len(r.stack)].node.branch
  PROVE  LET top == r.stack[Len(r.stack)]
             found == ChildrenFor(top.node, r.from.key)
         IN  /\ found = {} => ReadIs(f, h, [r EXCEPT !.state = "ended"])
             /\ found # {} => ReadIs(f, h, [r EXCEPT !.stack = Visited(@, Min(found))])
<1> DEFINE S == DOMAIN f
           s == r.stack
           n == Len(s)
           l == h - n + 1
           top == s[n]
           start == r.from.key
           found == ChildrenFor(top.node, start)
           c == Cover(S, h - n, start)
<1>1. StackIs(f, h, s) /\ Starting(f, h, r) /\ DOMAIN r = ReadFields /\ r.from \in Bounds /\ r.to \in Bounds
  BY DEF ReadIs
<1>2. /\ start \in Nat
      /\ \A x \in Nat : In(r, x) => start <= x
  BY <1>1, RangeIs
<1>3. /\ n \in Nat \ {0} /\ h \in Nat /\ l \in Nat \ {0} /\ l > 1
      /\ DOMAIN top.node.items = Under(S, l, EndOf(f, s, n))
  BY <1>1, TopIs
<1>4. Yielded(f, r, -1) /\ \A i \in 1 .. n : EndOf(f, s, i) = Cover(S, h - i + 1, start)
  BY <1>1 DEF Starting
<1>5. EndOf(f, s, n) = Cover(S, l, start) /\ n \in 1 .. n /\ h - n \in Nat /\ h - n + 1 = l
  <2>1. n \in 1 .. n
    BY <1>3
  <2>2. EndOf(f, s, n) = Cover(S, l, start)
    BY <1>4, <2>1
  <2> HIDE DEF n
  <2>3. h - n \in Nat
    BY <1>3
  <2> QED BY <2>1, <2>2, <2>3
<1>6. DOMAIN top.node.items = Under(S, h - n + 1, Cover(S, h - n + 1, start))
  BY <1>3, <1>5
<1>7. (found # {} <=> start <= Max(S)) /\ (start <= Max(S) => Min(found) = c)
  <2> HIDE DEF S, n, top, start
  <2> QED BY <1>2, <1>5, <1>6, ChildIs DEF S
<1>8. S \subseteq Nat /\ Max(S) \in Nat /\ \A x \in S : x <= Max(S)
  BY KeyMax
<1>9. ASSUME found = {}
      PROVE  ReadIs(f, h, [r EXCEPT !.state = "ended"])
  <2> DEFINE q == [r EXCEPT !.state = "ended"]
  <2>1. /\ DOMAIN q = ReadFields /\ q.state = "ended" /\ q.from = r.from /\ q.to = r.to
        /\ q.yielded = r.yielded
    BY <1>1 DEF ReadFields
  <2> HIDE DEF q
  <2>2. \A x \in S : ~In(r, x)
    <3> HIDE DEF S, start
    <3> QED BY <1>2, <1>7, <1>8, <1>9
  <2>3. Yielded(f, r, Max(S))
    <3>1. -1 \in Int /\ Max(S) \in Int /\ -1 <= Max(S)
      BY <1>8
    <3> QED BY <1>4, <1>8, <2>2, <3>1, YieldedOn
  <2>4. Yielded(f, q, Max(S))
    BY <2>1, <2>3, SameRange
  <2> QED BY <1>1, <2>1, <2>4 DEF ReadIs, q
<1>10. ASSUME found # {}
       PROVE  ReadIs(f, h, [r EXCEPT !.stack = Visited(@, Min(found))])
  <2> DEFINE t == Visited(s, c)
             q == [r EXCEPT !.stack = t]
  <2>1. Min(found) = c
    BY <1>7, <1>10
  <2>2. c \in Under(S, l, EndOf(f, s, n))
    BY <1>2, <1>5, CoverUnder
  <2>3. /\ StackIs(f, h, t) /\ Len(t) = n + 1 /\ t # <<>>
        /\ \A i \in 1 .. n : EndOf(f, t, i) = EndOf(f, s, i)
        /\ EndOf(f, t, n + 1) = c /\ EndOf(f, t, n + 2) = -1
    <3>1. h - Len(s) + 1 > 1 /\ c \in Under(DOMAIN f, h - Len(s) + 1, EndOf(f, s, Len(s)))
      BY <1>3, <2>2
    <3>2. s # <<>>
      OBVIOUS
    <3> HIDE DEF s, c
    <3> QED BY <1>1, <3>1, <3>2, VisitIs
  <2> HIDE DEF t
  <2>4. /\ DOMAIN q = ReadFields /\ q.state = r.state /\ q.from = r.from /\ q.to = r.to
        /\ q.yielded = r.yielded /\ q.stack = t /\ q.segment = r.segment /\ q.matching = r.matching
    BY <1>1 DEF ReadFields
  <2> HIDE DEF q, n, s, top, found, S
  <2>5. Yielded(f, q, -1)
    BY <1>4, <2>4, SameRange
  <2>6. ASSUME NEW i \in 1 .. n + 1
        PROVE  EndOf(f, t, i) = Cover(S, h - i + 1, start)
    <3>1. CASE i \in 1 .. n
      BY <1>4, <2>3, <3>1
    <3>2. CASE i = n + 1
      <4>1. h - (n + 1) + 1 = h - n
        BY <1>3
      <4> QED BY <2>3, <3>2, <4>1
    <3>3. i \in 1 .. n \/ i = n + 1
      BY <1>3
    <3> QED BY <3>1, <3>2, <3>3
  <2>7. Starting(f, h, q)
    <3>1. EndOf(f, t, (n + 1) + 1) = -1
      <4>1. (n + 1) + 1 = n + 2
        BY <1>3
      <4> QED BY <2>3, <4>1
    <3> HIDE DEF start, c
    <3> QED BY <2>3, <2>4, <2>5, <2>6, <3>1 DEF Starting, start, S
  <2>8. ReadIs(f, h, q)
    BY <1>1, <2>3, <2>4, <2>7 DEF ReadIs
  <2> QED BY <2>1, <2>8 DEF q, t, s
<1> QED BY <1>9, <1>10

(* Down to the child that has the next entry. *)
LEMMA VisitedNext ==
  ASSUME NEW f, KeySet(DOMAIN f), NEW h, HasHeight(DOMAIN f, h), NEW r, ReadIs(f, h, r),
         r.state = "reading", r.matching, DOMAIN r.segment = {}, r.stack # <<>>,
         h - Len(r.stack) + 1 > 1,
         NEW F \in DOMAIN f, In(r, F), Yielded(f, r, F),
         NEW m \in Under(DOMAIN f, h - Len(r.stack) + 1, EndOf(f, r.stack, Len(r.stack))),
         F \in Cuts(DOMAIN f, h - Len(r.stack)), F < m,
         \A y \in Cuts(DOMAIN f, h - Len(r.stack)) : ~(F < y /\ y < m)
  PROVE  ReadIs(f, h, [r EXCEPT !.stack = Visited(@, m)])
<1> DEFINE s == r.stack
           n == Len(s)
           t == Visited(s, m)
           q == [r EXCEPT !.stack = t]
<1>1. StackIs(f, h, s) /\ DOMAIN r = ReadFields /\ r.from \in Bounds /\ r.to \in Bounds
  BY DEF ReadIs
<1>2. /\ StackIs(f, h, t) /\ Len(t) = n + 1 /\ t # <<>> /\ n \in Nat \ {0}
      /\ EndOf(f, t, n + 1) = m /\ EndOf(f, t, n + 2) = -1
  BY <1>1, VisitIs
<1> HIDE DEF t
<1>3. /\ DOMAIN q = ReadFields /\ q.state = r.state /\ q.from = r.from /\ q.to = r.to
      /\ q.yielded = r.yielded /\ q.stack = t /\ q.segment = r.segment /\ q.matching = r.matching
  BY <1>1 DEF ReadFields
<1> HIDE DEF q
<1>4. In(q, F) /\ Yielded(f, q, F)
  BY <1>3, SameRange
<1>5. BeforeNode(f, h, q, F)
  <2>1. h \in Nat
    BY HeightIs
  <2>2. (h - (n + 1)) + 1 = h - n /\ (n + 1) + 1 = n + 2
    BY <1>2, <2>1
  <2>3. /\ F \in Cuts(DOMAIN f, h - n) /\ F < m
        /\ \A y \in Cuts(DOMAIN f, h - n) : ~(F < y /\ y < m)
    OBVIOUS
  <2> HIDE DEF n
  <2> QED BY <1>2, <1>3, <2>2, <2>3 DEF BeforeNode
<1>6. ReadIs(f, h, q)
  BY <1>1, <1>2, <1>3, <1>4, <1>5 DEF ReadIs, Going
<1> QED BY <1>6 DEF q, t

(* The step of a read that has matched: to the next child, or back up. *)
LEMMA NextChild ==
  ASSUME NEW f, KeySet(DOMAIN f), NEW h, HasHeight(DOMAIN f, h), NEW r, ReadIs(f, h, r),
         r.state = "reading", r.matching, DOMAIN r.segment = {}, r.stack # <<>>,
         r.stack[Len(r.stack)].node.branch
  PROVE  LET top == r.stack[Len(r.stack)]
             rest == {b \in DOMAIN top.node.items : b > top.visited}
         IN  /\ rest = {} => ReadIs(f, h, [r EXCEPT !.stack = SubSeq(@, 1, Len(@) - 1)])
             /\ rest # {} => ReadIs(f, h, [r EXCEPT !.stack = Visited(@, Min(rest))])
<1> DEFINE S == DOMAIN f
           s == r.stack
           n == Len(s)
           l == h - n + 1
           b == EndOf(f, s, n)
           v == s[n].visited
           U == Under(S, l, b)
           rest == {x \in DOMAIN s[n].node.items : x > v}
           m == Min(rest)
<1>1. StackIs(f, h, s) /\ Going(f, h, r) /\ DOMAIN r = ReadFields /\ r.from \in Bounds /\ r.to \in Bounds
  BY DEF ReadIs
<1>2. /\ n \in Nat \ {0} /\ h \in Nat /\ l \in Nat \ {0} /\ l > 1 /\ DOMAIN s[n].node.items = U
      /\ b \in Cuts(S, l) /\ b \in Nat
      /\ (v = -1 \/ v \in U)
  <2>1. /\ n \in Nat \ {0} /\ h \in Nat /\ l \in Nat \ {0} /\ l > 1 /\ DOMAIN s[n].node.items = U
        /\ b \in Cuts(S, l) /\ b \in Nat /\ FrameIs(f, h, s, n)
    <3>1. s # <<>> /\ s[n].node.branch
      OBVIOUS
    <3> HIDE DEF s
    <3>2. s[n].node.branch <=> l > 1
      BY <1>1, <3>1, TopIs
    <3>3. n \in Nat \ {0} /\ h \in Nat /\ l \in Nat \ {0} /\ DOMAIN s[n].node.items = U
      BY <1>1, <3>1, TopIs
    <3>4. b \in Cuts(S, l) /\ b \in Nat /\ FrameIs(f, h, s, n)
      BY <1>1, <3>1, TopIs
    <3> QED BY <3>1, <3>2, <3>3, <3>4
  <2>2. v = -1 \/ v \in U
    BY <2>1 DEF FrameIs
  <2> QED BY <2>1, <2>2
<1>3. v = EndOf(f, s, n + 1)
  <2>1. n + 1 # 1 /\ (n + 1) - 1 = n
    BY <1>2
  <2> QED BY <2>1 DEF EndOf
<1>4. h - n \in Nat /\ (h - n) + 1 = l /\ (h - (n + 1)) + 1 = h - n
  <2> HIDE DEF n
  <2> QED BY <1>2
<1>5. /\ U \subseteq Cuts(S, h - n) /\ b \in U /\ U \subseteq Nat
      /\ \A x \in U : x <= b
      /\ \A x \in U, y \in Cuts(S, h - n) : x < y /\ y <= b => y \in U
  <2>1. b \in Cuts(S, (h - n) + 1) /\ U = Under(S, (h - n) + 1, b)
    BY <1>2, <1>4
  <2> HIDE DEF n, b, U
  <2> QED BY <1>4, <2>1, UnderHas
<1>6. Cuts(S, h - n) \subseteq S /\ S \subseteq Nat /\ Cuts(S, l) \subseteq Cuts(S, h - n)
  <2>1. Cuts(S, h - n) \subseteq S /\ S \subseteq Nat /\ Cuts(S, (h - n) + 1) \subseteq Cuts(S, h - n)
    <3> HIDE DEF n
    <3> QED BY <1>4, CutsAre, KeyMax
  <2> QED BY <1>4, <2>1
<1>7. PICK F \in S : In(r, F) /\ Yielded(f, r, F) /\ (AfterEntry(f, r, F) \/ BeforeNode(f, h, r, F))
  BY <1>1 DEF Going
<1>8. DOMAIN r.segment = {} /\ F \in Nat
  BY <1>6
<1>9. rest = {x \in U : x > v}
  BY <1>2
<1>10. CASE AfterEntry(f, r, F)
  <2>1. v \in Nat /\ F <= v /\ Holds(f, r.segment, Rest(S, F, v))
    <3> HIDE DEF v
    <3>1. EndOf(f, r.stack, Len(r.stack) + 1) = v
      BY <1>3
    <3> QED BY <1>10, <3>1 DEF AfterEntry
  <2>2. v \in U
    <3> HIDE DEF v, U
    <3> QED BY <1>2, <2>1
  <2>3. F = v
    <3>1. ~(F < v)
      BY <1>5, <1>6, <1>8, <2>1, <2>2 DEF Holds, Rest
    <3> HIDE DEF v
    <3> QED BY <1>8, <2>1, <3>1
  <2> HIDE DEF v, rest
  <2>4. ASSUME rest = {}
        PROVE  ReadIs(f, h, [r EXCEPT !.stack = SubSeq(@, 1, Len(@) - 1)])
    <3> DEFINE p == SubSeq(s, 1, n - 1)
               q == [r EXCEPT !.stack = p]
    <3>1. v = b
      <4>1. ~(b > v)
        BY <1>5, <1>9, <2>4
      <4>2. v <= b
        BY <1>5, <2>2
      <4> QED BY <1>2, <2>1, <4>1, <4>2
    <3>2. StackIs(f, h, p) /\ Len(p) = n - 1 /\ EndOf(f, p, n) = b
      <4>1. n \in 1 .. n
        BY <1>2
      <4> QED BY <1>1, <4>1, PopIs
    <3> HIDE DEF p
    <3>3. /\ DOMAIN q = ReadFields /\ q.state = r.state /\ q.from = r.from /\ q.to = r.to
          /\ q.yielded = r.yielded /\ q.stack = p /\ q.segment = r.segment /\ q.matching = r.matching
      BY <1>1 DEF ReadFields
    <3> HIDE DEF q
    <3>4. In(q, F) /\ Yielded(f, q, F)
      BY <1>7, <3>3, SameRange
    <3>5. AfterEntry(f, q, F)
      <4>1. n - 1 + 1 = n
        BY <1>2
      <4>2. EndOf(f, q.stack, Len(q.stack) + 1) = v
        BY <3>1, <3>2, <3>3, <4>1
      <4> QED BY <2>1, <3>3, <4>2 DEF AfterEntry
    <3>6. ReadIs(f, h, q)
      BY <1>1, <3>2, <3>3, <3>4, <3>5 DEF ReadIs, Going
    <3> QED BY <3>6 DEF q, p
  <2>5. ASSUME rest # {}
        PROVE  m \in U /\ F \in Cuts(S, h - n) /\ F < m /\ \A y \in Cuts(S, h - n) : ~(F < y /\ y < m)
    <3>1. rest \subseteq Nat
      BY <1>5, <1>9
    <3>2. m \in rest /\ \A y \in rest : m <= y
      <4> HIDE DEF rest
      <4> QED BY <2>5, <3>1, LeastOf
    <3>3. m \in U /\ m > v /\ m \in Nat /\ m <= b
      BY <1>5, <1>9, <3>2
    <3>4. F \in U /\ F < m /\ F \in Cuts(S, h - n)
      BY <1>5, <1>8, <2>2, <2>3, <3>3
    <3> HIDE DEF m
    <3>5. ASSUME NEW y \in Cuts(S, h - n), F < y, y < m
          PROVE  FALSE
      <4>1. y \in Nat
        BY <1>6
      <4>2. y <= b
        BY <1>2, <3>3, <3>5, <4>1
      <4>3. y \in U
        BY <1>5, <3>4, <3>5, <4>2
      <4>4. y \in rest
        BY <1>9, <2>3, <3>5, <4>1, <4>3, <1>8
      <4> QED BY <3>2, <3>3, <3>5, <4>1, <4>4
    <3> QED BY <3>3, <3>4, <3>5
  <2>6. ASSUME rest # {}
        PROVE  ReadIs(f, h, [r EXCEPT !.stack = Visited(@, m)])
    <3> HIDE DEF m
    <3> QED BY <1>2, <1>7, <2>5, <2>6, VisitedNext
  <2> QED BY <2>4, <2>6 DEF v, rest
<1>11. CASE BeforeNode(f, h, r, F)
  <2>1. /\ v = -1 /\ F \in Cuts(S, l) /\ F < b /\ \A y \in Cuts(S, l) : ~(F < y /\ y < b)
    BY <1>3, <1>11 DEF BeforeNode
  <2>2. rest = U /\ rest # {}
    BY <1>5, <1>9, <2>1
  <2>3. U = {x \in Cuts(S, h - n) : F < x /\ x <= b}
    <3> HIDE DEF n, l, b
    <3>1. Under(S, (h - n) + 1, b) = {x \in Cuts(S, h - n) : F < x /\ x <= b}
      <4>1. /\ b \in Cuts(S, (h - n) + 1) /\ F \in Cuts(S, (h - n) + 1) /\ F < b
            /\ \A y \in Cuts(S, (h - n) + 1) : ~(F < y /\ y < b)
        BY <1>2, <1>4, <2>1
      <4> QED BY <1>4, <4>1, UnderFrom
    <3> QED BY <1>4, <3>1
  <2> HIDE DEF v, rest
  <2>4. m \in U /\ \A y \in U : m <= y
    BY <1>5, <2>2, LeastOf
  <2>5. m \in U /\ F \in Cuts(S, h - n) /\ F < m /\ \A y \in Cuts(S, h - n) : ~(F < y /\ y < m)
    <3>1. F \in Cuts(S, h - n) /\ F < m /\ m <= b /\ m \in Nat
      BY <1>5, <1>6, <2>1, <2>3, <2>4
    <3> HIDE DEF m
    <3>2. ASSUME NEW y \in Cuts(S, h - n), F < y, y < m
          PROVE  FALSE
      <4>1. y \in Nat
        BY <1>6
      <4>2. y <= b
        BY <1>2, <3>1, <3>2, <4>1
      <4>3. y \in U
        BY <2>3, <3>2, <4>2
      <4> QED BY <2>4, <3>1, <3>2, <4>1, <4>3
    <3> QED BY <2>4, <3>1, <3>2
  <2>6. ReadIs(f, h, [r EXCEPT !.stack = Visited(@, m)])
    <3> HIDE DEF m
    <3> QED BY <1>2, <1>7, <2>5, VisitedNext
  <2> QED BY <2>2, <2>6 DEF v, rest
<1> QED BY <1>7, <1>10, <1>11

(* A segment is taken off the stack, and its entries are to be seen. *)
LEMMA SegmentRead ==
  ASSUME NEW f, KeySet(DOMAIN f), NEW h, HasHeight(DOMAIN f, h), NEW r, ReadIs(f, h, r),
         r.state = "reading", DOMAIN r.segment = {}, r.stack # <<>>,
         ~r.stack[Len(r.stack)].node.branch,
         NEW q, DOMAIN q = ReadFields, q.state = r.state, q.from = r.from, q.to = r.to,
         q.yielded = r.yielded, q.matching = r.matching,
         q.stack = SubSeq(r.stack, 1, Len(r.stack) - 1),
         q.segment = r.stack[Len(r.stack)].node.items
  PROVE  ReadIs(f, h, q)
<1> DEFINE S == DOMAIN f
           s == r.stack
           n == Len(s)
           p == SubSeq(s, 1, n - 1)
           l == h - n + 1
           b == EndOf(f, s, n)
           items == s[n].node.items
<1>1. StackIs(f, h, s) /\ r.from \in Bounds /\ r.to \in Bounds
  BY DEF ReadIs
<1>2. StackIs(f, h, p) /\ Len(p) = n - 1 /\ \A i \in 1 .. n : EndOf(f, p, i) = EndOf(f, s, i)
  BY <1>1, PopIs
<1>3. /\ n \in Nat \ {0} /\ h \in Nat /\ l \in Nat \ {0} /\ ~(l > 1) /\ FrameIs(f, h, s, n)
      /\ b \in Cuts(S, l) /\ b \in Nat
      /\ DOMAIN items = Under(S, l, b)
      /\ \A x \in Under(S, l, b) : items[x] = Rows(f)[l - 1][x]
  <2>1. s # <<>> /\ ~s[n].node.branch
    OBVIOUS
  <2> HIDE DEF s
  <2>2. (s[n].node.branch <=> l > 1) /\ n \in Nat \ {0} /\ h \in Nat /\ l \in Nat \ {0}
    BY <1>1, <2>1, TopIs
  <2>3. /\ FrameIs(f, h, s, n) /\ b \in Cuts(S, l) /\ b \in Nat
        /\ DOMAIN items = Under(S, l, b)
        /\ \A x \in Under(S, l, b) : items[x] = Rows(f)[l - 1][x]
    BY <1>1, <2>1, TopIs
  <2> QED BY <2>1, <2>2, <2>3
<1>4. l = 1 /\ n = h /\ n \in 1 .. n /\ n - 1 + 1 = n /\ n - 1 = h - 1
  <2> HIDE DEF n
  <2> QED BY <1>3
<1>5. s[n].visited = -1 /\ EndOf(f, s, n + 1) = -1
  <2>1. s[n].visited = -1
    BY <1>3 DEF FrameIs
  <2>2. n + 1 # 1 /\ (n + 1) - 1 = n
    BY <1>3
  <2> QED BY <2>1, <2>2 DEF EndOf
<1>6. Rows(f)[0] = f /\ 1 - 1 = 0 /\ 0 \in Nat /\ 0 + 1 = 1
  BY RowsAre DEF RowsOf
<1>7. Holds(f, items, Under(S, 1, b)) /\ b \in Cuts(S, 1) /\ b \in Nat
  <2>1. l = 1 /\ l - 1 = 0
    BY <1>4, <1>6
  <2> HIDE DEF items, b, l
  <2>2. /\ DOMAIN items = Under(S, 1, b) /\ b \in Cuts(S, 1) /\ b \in Nat
        /\ \A x \in Under(S, 1, b) : items[x] = f[x]
    BY <1>3, <1>6, <2>1
  <2> QED BY <2>2 DEF Holds
<1>8. EndOf(f, p, Len(p) + 1) = b
  BY <1>2, <1>4
<1>9. Cuts(S, 0) = S /\ S \subseteq Nat /\ Cuts(S, 1) \subseteq S
  <2>1. 1 \in Nat
    OBVIOUS
  <2> QED BY <1>6, <2>1, CutsAre, KeyMax
<1>10. q.stack = p /\ q.segment = items
  OBVIOUS
<1> HIDE DEF S, n, p, b, items
<1>11. CASE Starting(f, h, r) /\ ~r.matching
  <2> DEFINE start == r.from.key
             c == Cover(S, 1, start)
  <2>1. Yielded(f, r, -1) /\ \A i \in 1 .. n : EndOf(f, s, i) = Cover(S, h - i + 1, start)
    BY <1>11 DEF Starting, S, n
  <2>2. Yielded(f, q, -1)
    BY <2>1, SameRange
  <2>3. b = c
    <3>1. h - n + 1 = 1
      BY <1>4
    <3>2. EndOf(f, s, n) = Cover(S, h - n + 1, start)
      BY <1>4, <2>1
    <3> QED BY <3>1, <3>2 DEF b
  <2>4. ASSUME NEW i \in 1 .. Len(p)
        PROVE  EndOf(f, p, i) = Cover(S, h - i + 1, start)
    <3>1. i \in 1 .. n
      BY <1>2, <1>3
    <3> QED BY <1>2, <2>1, <3>1
  <2>5. Beyond(S, c, -1) = Under(S, 1, c)
    <3>1. Under(S, 1, c) \subseteq Nat
      BY <1>6, <1>9 DEF Under
    <3> QED BY <3>1 DEF Beyond
  <2>6. Holds(f, items, Beyond(S, c, -1))
    BY <1>7, <2>3, <2>5
  <2>7. \A x \in S : x <= -1 => ~In(q, x)
    BY <1>9
  <2>8. Starting(f, h, q)
    <3>1. -1 \in Int
      OBVIOUS
    <3>2. Len(p) = h - 1 /\ EndOf(f, p, Len(p) + 1) = c
      BY <1>2, <1>4, <1>8, <2>3
    <3>3. \E F \in Int : (\A x \in S : x <= F => ~In(q, x)) /\ Holds(f, items, Beyond(S, c, F))
      BY <2>6, <2>7, <3>1
    <3>4. q.from.key = start
      OBVIOUS
    <3> HIDE DEF start
    <3> QED BY <1>10, <2>2, <2>4, <3>2, <3>3, <3>4 DEF Starting, S
  <2> QED BY <1>1, <1>2, <1>10, <1>11, <2>8 DEF ReadIs
<1>12. CASE Going(f, h, r) /\ r.matching
  <2>1. PICK F \in S : In(r, F) /\ Yielded(f, r, F) /\ (AfterEntry(f, r, F) \/ BeforeNode(f, h, r, F))
    BY <1>12 DEF Going, S
  <2>2. ~AfterEntry(f, r, F)
    <3>1. ~(EndOf(f, s, Len(s) + 1) \in Nat)
      BY <1>5 DEF n
    <3> QED BY <3>1 DEF AfterEntry
  <2>3. F \in Cuts(S, 1) /\ F < b /\ \A y \in Cuts(S, 1) : ~(F < y /\ y < b)
    <3>1. /\ F \in Cuts(S, l) /\ F < b /\ \A y \in Cuts(S, l) : ~(F < y /\ y < b)
      BY <2>1, <2>2 DEF BeforeNode, S, b, n
    <3> HIDE DEF l
    <3> QED BY <1>4, <3>1
  <2>4. Under(S, 1, b) = Rest(S, F, b)
    <3>1. Under(S, 0 + 1, b) = {x \in Cuts(S, 0) : F < x /\ x <= b}
      <4>1. /\ b \in Cuts(S, 0 + 1) /\ F \in Cuts(S, 0 + 1) /\ F < b
            /\ \A y \in Cuts(S, 0 + 1) : ~(F < y /\ y < b)
        BY <1>6, <1>7, <2>3
      <4> QED BY <1>6, <4>1, UnderFrom DEF S
    <3> QED BY <1>6, <1>9, <3>1 DEF Rest
  <2>5. Holds(f, items, Rest(S, F, b)) /\ F <= b
    <3>1. F \in Nat
      BY <1>9
    <3> QED BY <1>7, <2>3, <2>4, <3>1
  <2>6. AfterEntry(f, q, F)
    BY <1>7, <1>8, <1>10, <2>5 DEF AfterEntry, S
  <2>7. In(q, F) /\ Yielded(f, q, F)
    BY <2>1, SameRange
  <2>8. Going(f, h, q)
    BY <2>6, <2>7 DEF Going, S
  <2> QED BY <1>1, <1>2, <1>10, <1>12, <2>8 DEF ReadIs
<1> QED BY <1>11, <1>12 DEF ReadIs

(* The entry that is seen next: what has been passed is in the range only if it has
   been yielded, and the rest of the segment follows it. *)
LEMMA NextEntry ==
  ASSUME NEW f, KeySet(DOMAIN f), NEW h, HasHeight(DOMAIN f, h), NEW r, ReadIs(f, h, r),
         r.state = "reading", DOMAIN r.segment # {},
         NEW key, key = Min(DOMAIN r.segment), NEW e, e = EndOf(f, r.stack, Len(r.stack) + 1)
  PROVE  /\ key \in DOMAIN r.segment /\ key \in DOMAIN f /\ e \in Nat /\ key <= e
         /\ \A x \in DOMAIN r.segment : r.segment[x] = f[x]
         /\ DOMAIN r.segment \ {key} = Rest(DOMAIN f, key, e)
         /\ \E F \in Int : /\ Yielded(f, r, F) /\ F < key
                           /\ \A x \in DOMAIN f : F < x /\ x < key => ~In(r, x)
                           /\ r.matching => F \in DOMAIN f /\ In(r, F)
         /\ ~r.matching =>
              /\ \A x \in DOMAIN f : x < key => ~In(r, x)
              /\ Len(r.stack) = h - 1 /\ e = Cover(DOMAIN f, 1, r.from.key)
              /\ DOMAIN r.segment \ {key} = Beyond(DOMAIN f, e, key)
<1> DEFINE S == DOMAIN f
           D == DOMAIN r.segment
           n == Len(r.stack)
           start == r.from.key
           c == Cover(S, 1, start)
<1>1. r.from \in Bounds /\ r.to \in Bounds /\ ((Starting(f, h, r) /\ ~r.matching) \/ (Going(f, h, r) /\ r.matching))
  BY DEF ReadIs
<1>2. S \subseteq Nat
  BY KeyMax
<1>3. start \in Nat /\ \A x \in Nat : In(r, x) => start <= x
  BY <1>1, RangeIs
<1>4. 1 \in Nat /\ 0 \in Nat /\ 0 + 1 = 1
  OBVIOUS
<1>5. Cuts(S, 0) = S
  BY <1>4, CutsAre
<1> HIDE DEF D
<1>6. CASE Starting(f, h, r) /\ ~r.matching
  <2>1. Yielded(f, r, -1) /\ n = h - 1 /\ e = c
    BY <1>6 DEF Starting, D
  <2>2. PICK F \in Int : (\A x \in S : x <= F => ~In(r, x)) /\ Holds(f, r.segment, Beyond(S, c, F))
    BY <1>6 DEF Starting, D
  <2> DEFINE U == Under(S, 1, c)
  <2>3. c \in Cuts(S, 1) /\ c \in Nat
    BY <1>3, <1>4, CoverIs
  <2>4. /\ U \subseteq S /\ U \subseteq Nat /\ \A x \in U : x <= c
        /\ \A x \in U, y \in S : x < y /\ y <= c => y \in U
    <3>1. c \in Cuts(S, 0 + 1)
      BY <1>4, <2>3
    <3>2. /\ Under(S, 0 + 1, c) \subseteq Cuts(S, 0) /\ Under(S, 0 + 1, c) \subseteq Nat
          /\ \A x \in Under(S, 0 + 1, c) : x <= c
          /\ \A x \in Under(S, 0 + 1, c), y \in Cuts(S, 0) : x < y /\ y <= c => y \in Under(S, 0 + 1, c)
      <4> HIDE DEF c, S
      <4> QED BY <1>4, <3>1, UnderHas DEF S
    <3> QED BY <1>4, <1>5, <3>2
  <2>5. ASSUME NEW x \in S, NEW y \in U, x <= y, start <= x
        PROVE  x \in U
    BY <1>3, <2>5, FromStart
  <2> HIDE DEF S, c, U
  <2>6. D = {x \in U : F < x} /\ \A x \in D : r.segment[x] = f[x]
    BY <2>2 DEF Holds, Beyond, D, U, S
  <2>7. key \in D /\ \A y \in D : key <= y
    <3>1. D \subseteq Nat /\ D # {}
      BY <2>4, <2>6 DEF D
    <3> QED BY <3>1, LeastOf DEF D
  <2>8. key \in U /\ key \in S /\ key \in Nat /\ F < key /\ key <= c
    BY <2>4, <2>6, <2>7
  <2>9. D \ {key} = {x \in U : key < x}
    <3>1. ASSUME NEW x \in D, x # key
          PROVE  x \in U /\ key < x
      <4>1. x \in U /\ key <= x /\ x \in Nat
        BY <2>4, <2>6, <2>7, <3>1
      <4> QED BY <2>8, <3>1, <4>1
    <3>2. ASSUME NEW x \in U, key < x
          PROVE  x \in D /\ x # key
      <4>1. x \in Nat
        BY <2>4
      <4> QED BY <2>6, <2>8, <3>2, <4>1
    <3> QED BY <3>1, <3>2
  <2>10. {x \in U : key < x} = {x \in S : key < x /\ x <= c}
    BY <2>4, <2>8
  <2>11. ASSUME NEW x \in S, x < key
         PROVE  ~In(r, x)
    <3>1. SUFFICES ASSUME In(r, x) PROVE FALSE
      OBVIOUS
    <3>2. x \in Nat /\ start <= x
      BY <1>2, <1>3, <3>1 DEF S
    <3>3. x <= key
      BY <2>8, <2>11, <3>2
    <3>4. x \in U
      BY <2>5, <2>8, <3>2, <3>3
    <3>5. F < x
      BY <2>2, <3>1, <3>2
    <3>6. key <= x
      BY <2>6, <2>7, <3>4, <3>5
    <3> QED BY <2>8, <2>11, <3>2, <3>6
  <2>12. D \ {key} = Rest(S, key, e) /\ D \ {key} = Beyond(S, e, key)
    BY <2>1, <2>9, <2>10 DEF Rest, Beyond, U
  <2>13. -1 \in Int /\ -1 < key
    BY <2>8
  <2>14. \A x \in S : -1 < x /\ x < key => ~In(r, x)
    BY <2>11
  <2> QED BY <1>6, <2>1, <2>3, <2>6, <2>7, <2>8, <2>11, <2>12, <2>13, <2>14 DEF S, D, c
<1>7. CASE Going(f, h, r) /\ r.matching
  <2>1. PICK F \in S : In(r, F) /\ Yielded(f, r, F) /\ (AfterEntry(f, r, F) \/ BeforeNode(f, h, r, F))
    BY <1>7 DEF Going
  <2>2. e \in Nat /\ F <= e /\ Holds(f, r.segment, Rest(S, F, e))
    BY <2>1 DEF AfterEntry, BeforeNode
  <2>3. D = {x \in S : F < x /\ x <= e} /\ \A x \in D : r.segment[x] = f[x]
    BY <2>2 DEF Holds, Rest, D
  <2>4. key \in D /\ \A y \in D : key <= y
    <3>1. D \subseteq Nat /\ D # {}
      BY <1>2, <2>3 DEF D
    <3> QED BY <3>1, LeastOf DEF D
  <2> HIDE DEF S
  <2>5. key \in S /\ key \in Nat /\ F < key /\ key <= e /\ F \in Nat
    BY <1>2, <2>3, <2>4
  <2>6. D \ {key} = {x \in S : key < x /\ x <= e}
    <3>1. ASSUME NEW x \in D, x # key
          PROVE  x \in S /\ key < x /\ x <= e
      <4>1. x \in S /\ key <= x /\ x \in Nat /\ x <= e
        BY <1>2, <2>3, <2>4, <3>1
      <4> QED BY <2>5, <3>1, <4>1
    <3>2. ASSUME NEW x \in S, key < x, x <= e
          PROVE  x \in D /\ x # key
      <4>1. x \in Nat
        BY <1>2
      <4> QED BY <2>3, <2>5, <3>2, <4>1
    <3> QED BY <3>1, <3>2
  <2>7. ASSUME NEW x \in S, F < x, x < key
        PROVE  ~In(r, x)
    <3>1. x \in Nat
      BY <1>2
    <3>2. x <= e
      BY <2>2, <2>5, <2>7, <3>1
    <3>3. key <= x
      BY <2>3, <2>4, <2>7, <3>2
    <3> QED BY <2>5, <2>7, <3>1, <3>3
  <2>8. D \ {key} = Rest(S, key, e)
    BY <2>6 DEF Rest
  <2>9. F \in Int
    BY <2>5
  <2> QED BY <1>7, <2>1, <2>2, <2>3, <2>4, <2>5, <2>7, <2>8, <2>9 DEF S, D
<1> QED BY <1>1, <1>6, <1>7

LEMMA EntryInRange ==
  ASSUME NEW f, KeySet(DOMAIN f), NEW h, HasHeight(DOMAIN f, h), NEW r, ReadIs(f, h, r),
         r.state = "reading", DOMAIN r.segment # {},
         NEW key, key = Min(DOMAIN r.segment), In(r, key),
         NEW q, DOMAIN q = ReadFields, q.state = r.state, q.from = r.from, q.to = r.to,
         q.stack = r.stack, q.matching = TRUE,
         q.segment = [x \in DOMAIN r.segment \ {key} |-> r.segment[x]],
         q.yielded = Append(r.yielded, [key |-> key, value |-> r.segment[key]])
  PROVE  ReadIs(f, h, q)
<1> DEFINE S == DOMAIN f
           e == EndOf(f, r.stack, Len(r.stack) + 1)
<1>1. StackIs(f, h, r.stack) /\ r.from \in Bounds /\ r.to \in Bounds
  BY DEF ReadIs
<1>2. S \subseteq Nat
  BY KeyMax
<1> HIDE DEF e
<1>3. /\ key \in DOMAIN r.segment /\ key \in S /\ e \in Nat /\ key <= e
      /\ \A x \in DOMAIN r.segment : r.segment[x] = f[x]
      /\ DOMAIN r.segment \ {key} = Rest(S, key, e)
      /\ \E F \in Int : /\ Yielded(f, r, F) /\ F < key
                        /\ \A x \in S : F < x /\ x < key => ~In(r, x)
  BY NextEntry DEF e
<1>4. PICK F \in Int : Yielded(f, r, F) /\ F < key /\ \A x \in S : F < x /\ x < key => ~In(r, x)
  BY <1>3
<1>5. [key |-> key, value |-> r.segment[key]] = EntryOf(f, key)
  BY <1>3 DEF EntryOf
<1>6. q.yielded = Append(r.yielded, EntryOf(f, key))
  BY <1>5
<1>7. Yielded(f, q, key)
  BY <1>2, <1>3, <1>4, <1>6, YieldedNext
<1>8. In(q, key)
  BY SameRange
<1>9. Holds(f, q.segment, Rest(S, key, e))
  BY <1>3 DEF Holds
<1>10. EndOf(f, q.stack, Len(q.stack) + 1) = e
  BY DEF e
<1>11. AfterEntry(f, q, key)
  BY <1>3, <1>9, <1>10 DEF AfterEntry
<1>12. Going(f, h, q)
  BY <1>3, <1>7, <1>8, <1>11 DEF Going
<1> QED BY <1>1, <1>12 DEF ReadIs

LEMMA EntryBefore ==
  ASSUME NEW f, KeySet(DOMAIN f), NEW h, HasHeight(DOMAIN f, h), NEW r, ReadIs(f, h, r),
         r.state = "reading", ~r.matching, DOMAIN r.segment # {},
         NEW key, key = Min(DOMAIN r.segment), ~In(r, key),
         NEW q, DOMAIN q = ReadFields, q.state = r.state, q.from = r.from, q.to = r.to,
         q.stack = r.stack, q.matching = r.matching, q.yielded = r.yielded,
         q.segment = [x \in DOMAIN r.segment \ {key} |-> r.segment[x]]
  PROVE  ReadIs(f, h, q)
<1> DEFINE S == DOMAIN f
           e == EndOf(f, r.stack, Len(r.stack) + 1)
           start == r.from.key
<1>1. StackIs(f, h, r.stack) /\ r.from \in Bounds /\ r.to \in Bounds /\ Starting(f, h, r)
  BY DEF ReadIs
<1>2. S \subseteq Nat
  BY KeyMax
<1> HIDE DEF e
<1>3. /\ key \in DOMAIN r.segment /\ key \in S /\ e \in Nat /\ key <= e
      /\ \A x \in DOMAIN r.segment : r.segment[x] = f[x]
      /\ \A x \in S : x < key => ~In(r, x)
      /\ Len(r.stack) = h - 1 /\ e = Cover(S, 1, start)
      /\ DOMAIN r.segment \ {key} = Beyond(S, e, key)
  BY NextEntry DEF e
<1>4. Yielded(f, q, -1) /\ \A x : In(q, x) <=> In(r, x)
  BY <1>1, SameRange DEF Starting
<1>5. \A x \in S : x <= key => ~In(q, x)
  <2>1. \A x \in S : x \in Nat /\ key \in Nat /\ (x <= key => x < key \/ x = key)
    BY <1>2, <1>3
  <2> QED BY <1>3, <1>4, <2>1
<1>6. Holds(f, q.segment, Beyond(S, e, key))
  BY <1>3 DEF Holds
<1>7. EndOf(f, q.stack, Len(q.stack) + 1) = e /\ Len(q.stack) = h - 1 /\ key \in Int
  BY <1>2, <1>3 DEF e
<1>8. \A i \in 1 .. Len(q.stack) : EndOf(f, q.stack, i) = Cover(S, h - i + 1, start)
  BY <1>1 DEF Starting
<1>9. \E F \in Int : (\A x \in S : x <= F => ~In(q, x)) /\ Holds(f, q.segment, Beyond(S, Cover(S, 1, start), F))
  BY <1>3, <1>5, <1>6, <1>7
<1>10. q.from.key = start
  OBVIOUS
<1> HIDE DEF S, start
<1>11. Starting(f, h, q)
  BY <1>3, <1>4, <1>7, <1>8, <1>9, <1>10 DEF Starting, S
<1> QED BY <1>1, <1>11 DEF ReadIs

LEMMA EntryBehind ==
  ASSUME NEW f, KeySet(DOMAIN f), NEW h, HasHeight(DOMAIN f, h), NEW r, ReadIs(f, h, r),
         r.state = "reading", r.matching, DOMAIN r.segment # {}, ~In(r, Min(DOMAIN r.segment)),
         NEW q, DOMAIN q = ReadFields, q.state = "ended", q.from = r.from, q.to = r.to,
         q.yielded = r.yielded
  PROVE  ReadIs(f, h, q)
<1> DEFINE S == DOMAIN f
           key == Min(DOMAIN r.segment)
<1>1. r.from \in Bounds /\ r.to \in Bounds
  BY DEF ReadIs
<1>2. S \subseteq Nat /\ Max(S) \in S /\ \A x \in S : x <= Max(S)
  BY KeyMax
<1> HIDE DEF key
<1>3. /\ key \in S
      /\ \E F \in Int : /\ Yielded(f, r, F) /\ F < key /\ F \in S /\ In(r, F)
                        /\ \A x \in S : F < x /\ x < key => ~In(r, x)
  BY NextEntry DEF key
<1>4. PICK F \in Int : /\ Yielded(f, r, F) /\ F < key /\ F \in S /\ In(r, F)
                       /\ \A x \in S : F < x /\ x < key => ~In(r, x)
  BY <1>3
<1>5. ~In(r, key)
  BY DEF key
<1>6. ASSUME NEW x \in S, F < x
      PROVE  ~In(r, x)
  <2>1. x \in Nat /\ key \in Nat /\ F \in Nat
    BY <1>2, <1>3, <1>4
  <2>2. CASE x < key
    BY <1>4, <1>6, <2>2
  <2>3. CASE key <= x
    <3>1. F <= key
      BY <1>4, <2>1
    <3> QED BY <1>1, <1>4, <1>5, <2>1, <2>3, <3>1, RangeIs
  <2> QED BY <2>1, <2>2, <2>3
<1>7. Yielded(f, r, Max(S))
  <2>1. Max(S) \in Int /\ F <= Max(S)
    BY <1>2, <1>4
  <2> QED BY <1>2, <1>4, <1>6, <2>1, YieldedOn
<1>8. Yielded(f, q, Max(S))
  BY <1>7, SameRange
<1> QED BY <1>1, <1>8 DEF ReadIs

(* The end of the tree. *)
LEMMA AllSeen ==
  ASSUME NEW f, KeySet(DOMAIN f), NEW h, HasHeight(DOMAIN f, h), NEW r, ReadIs(f, h, r),
         r.state = "reading", DOMAIN r.segment = {}, r.stack = <<>>,
         NEW q, DOMAIN q = ReadFields, q.state = "ended", q.from = r.from, q.to = r.to,
         q.yielded = r.yielded
  PROVE  ReadIs(f, h, q)
<1> DEFINE S == DOMAIN f
           start == r.from.key
           c == Cover(S, 1, start)
<1>1. /\ r.from \in Bounds /\ r.to \in Bounds
      /\ (Starting(f, h, r) /\ ~r.matching) \/ (Going(f, h, r) /\ r.matching)
  BY DEF ReadIs
<1>2. S \subseteq Nat /\ Max(S) \in S /\ (\A x \in S : x <= Max(S)) /\ Max(S) \in Int
  BY KeyMax
<1>3. Len(r.stack) = 0 /\ EndOf(f, r.stack, Len(r.stack) + 1) = Max(S)
  <2>1. Len(r.stack) = 0 /\ 0 + 1 = 1
    OBVIOUS
  <2> QED BY <2>1 DEF EndOf
<1>4. CASE Starting(f, h, r)
  <2>1. PICK F \in Int : (\A x \in S : x <= F => ~In(r, x)) /\ Holds(f, r.segment, Beyond(S, c, F))
    BY <1>4 DEF Starting
  <2>2. Yielded(f, r, -1) /\ 0 = h - 1 /\ Max(S) = c
    BY <1>3, <1>4 DEF Starting
  <2>3. h = 1 /\ Cuts(S, 1) = {Max(S)}
    <3>1. Cuts(S, h) = {Max(S)} /\ h \in Nat
      BY HeightIs
    <3> QED BY <2>2, <3>1
  <2>4. 0 \in Nat /\ 1 - 1 = 0
    OBVIOUS
  <2>5. Cuts(S, 0) = S
    BY <2>4, CutsAre
  <2> HIDE DEF S, c
  <2>6. Under(S, 1, c) = S
    <3>1. ~(Max(S) < Max(S))
      BY <1>2
    <3> QED BY <1>2, <2>2, <2>3, <2>4, <2>5, <3>1 DEF Under
  <2>7. \A x \in S : ~(F < x)
    BY <2>1, <2>6 DEF Holds, Beyond
  <2>8. \A x \in S : ~In(r, x)
    BY <1>2, <2>1, <2>7
  <2>9. -1 \in Int /\ -1 <= Max(S)
    BY <1>2
  <2> QED
    <3>1. Yielded(f, r, Max(S))
      BY <1>2, <2>2, <2>8, <2>9, YieldedOn DEF S
    <3>2. Yielded(f, q, Max(S))
      BY <3>1, SameRange
    <3> QED BY <1>1, <3>2 DEF ReadIs, S
<1>5. CASE Going(f, h, r)
  <2>1. PICK F \in S : In(r, F) /\ Yielded(f, r, F) /\ (AfterEntry(f, r, F) \/ BeforeNode(f, h, r, F))
    BY <1>5 DEF Going
  <2>2. Holds(f, r.segment, Rest(S, F, Max(S)))
    BY <1>3, <2>1 DEF AfterEntry, BeforeNode
  <2>3. \A x \in S : ~(F < x)
    BY <1>2, <2>2 DEF Holds, Rest
  <2>4. F \in Int /\ F <= Max(S)
    BY <1>2
  <2>5. Yielded(f, r, Max(S))
    BY <1>2, <2>1, <2>3, <2>4, YieldedOn
  <2>6. Yielded(f, q, Max(S))
    BY <2>5, SameRange
  <2> QED BY <1>1, <2>6 DEF ReadIs
<1> QED BY <1>1, <1>4, <1>5

(* A read begins above the root. *)
LEMMA FirstNode ==
  ASSUME NEW f, KeySet(DOMAIN f), NEW node, NEW h, Formed(node, f, h),
         NEW q, DOMAIN q = ReadFields, q.state = "reading", q.from \in Bounds, q.to \in Bounds,
         q.stack = <<[node |-> node, visited |-> -1]>>, q.segment = <<>>, q.matching = FALSE,
         q.yielded = <<>>
  PROVE  ReadIs(f, h, q)
<1> DEFINE S == DOMAIN f
           one == [node |-> node, visited |-> -1]
           s == <<one>>
           start == q.from.key
<1>1. HasHeight(S, h) /\ node = Rows(f)[h][Max(S)]
  BY DEF Formed
<1>2. h \in 1 .. MaxRank + 1 /\ h \in Nat /\ Cuts(S, h) = {Max(S)} /\ (h - 1) + 1 = h /\ 1 <= h
  <2>1. h \in 1 .. MaxRank + 1 /\ h \in Nat /\ Cuts(S, h) = {Max(S)} /\ MaxRank \in Nat
    BY <1>1, HeightIs
  <2> QED BY <2>1
<1>3. Max(S) \in Nat /\ S \subseteq Nat
  BY KeyMax
<1>4. one \in Frames(f) /\ one.visited = -1 /\ one.node = node
  <2>1. node \in {Rows(f)[l][c] : l \in 1 .. MaxRank + 1, c \in Nat}
    BY <1>1, <1>2, <1>3
  <2> QED BY <2>1 DEF Frames
<1> HIDE DEF one
<1>5. s \in Seq(Frames(f)) /\ Len(s) = 1 /\ s[1] = one /\ s # <<>>
  BY <1>4
<1>6. q.stack = s
  BY DEF one
<1> HIDE DEF s
<1>7. EndOf(f, s, 1) = Max(S) /\ EndOf(f, s, 1 + 1) = -1
  <2>1. EndOf(f, s, 1) = Max(S)
    BY DEF EndOf
  <2>2. 1 + 1 # 1 /\ (1 + 1) - 1 = 1
    OBVIOUS
  <2>3. EndOf(f, s, 1 + 1) = s[1].visited
    BY <2>2 DEF EndOf
  <2> QED BY <1>4, <1>5, <2>1, <2>3
<1>8. StackIs(f, h, s)
  <2>1. FrameIs(f, h, s, 1)
    BY <1>1, <1>2, <1>4, <1>5, <1>7 DEF FrameIs
  <2>2. \A i \in 1 .. Len(s) : i = 1
    BY <1>5
  <2> QED BY <1>2, <1>5, <2>1, <2>2 DEF StackIs
<1>9. start \in Nat
  BY RangeIs
<1>10. Cover(S, h, start) = Max(S)
  BY <1>2, <1>9, CoverIs
<1>11. \A i \in 1 .. Len(s) : EndOf(f, s, i) = Cover(S, h - i + 1, start)
  <2>1. \A i \in 1 .. Len(s) : i = 1
    BY <1>5
  <2> QED BY <1>2, <1>7, <1>10, <2>1
<1>12. Yielded(f, q, -1)
  BY <1>3, YieldedNone
<1>13. DOMAIN q.segment = {}
  OBVIOUS
<1> HIDE DEF start
<1>14. Starting(f, h, q)
  BY <1>5, <1>6, <1>7, <1>11, <1>12, <1>13 DEF Starting, start
<1> QED BY <1>6, <1>8, <1>14 DEF ReadIs

(***************************************************************************)
(* What a read yields, whatever is set before it and read by it.           *)
(***************************************************************************)
StreamIs ==
  /\ DOMAIN read = ReadFields
  /\ read.state # "none" =>
       TreeOf(root, entries) /\ \E h : Formed(root, entries, h) /\ ReadIs(entries, h, read)

LEMMA ReadAt ==
  ASSUME StreamIs, read.state # "none"
  PROVE  \E h : /\ KeySet(DOMAIN entries) /\ HasHeight(DOMAIN entries, h)
                /\ Formed(root, entries, h) /\ ReadIs(entries, h, read)
BY DEF StreamIs, TreeOf, Formed

LEMMA ReadKept ==
  ASSUME StreamIs, read.state # "none", UNCHANGED <<root, entries>>,
         NEW h, Formed(root, entries, h), ReadIs(entries, h, read')
  PROVE  StreamIs'
<1>1. TreeOf(root, entries)
  BY DEF StreamIs
<1>2. DOMAIN read' = ReadFields
  BY DEF ReadIs
<1> QED BY <1>1, <1>2 DEF StreamIs

LEMMA StreamInit == RankedInit => StreamIs
<1>1. DOMAIN NoRead = ReadFields /\ NoRead.state = "none"
  BY DEF NoRead, ReadFields
<1> QED BY <1>1 DEF RankedInit, StreamIs

LEMMA StreamBegins ==
  ASSUME RootIs, NEW range \in Ranges, StreamRange(range)
  PROVE  StreamIs'
<1>1. TreeOf(root, entries) /\ UNCHANGED <<root, entries>>
  BY DEF StreamRange, RootIs
<1>2. PICK h : Formed(root, entries, h)
  BY <1>1 DEF TreeOf
<1>3. KeySet(DOMAIN entries)
  BY <1>1 DEF TreeOf
<1>4. range.from \in Bounds /\ range.to \in Bounds
  BY RankedAssumption
<1> DEFINE q == [NoRead EXCEPT !.state = "reading", !.from = range.from, !.to = range.to,
                               !.stack = <<[node |-> root, visited |-> -1]>>]
<1>5. read' = q
  BY DEF StreamRange
<1>6. /\ DOMAIN q = ReadFields /\ q.state = "reading" /\ q.from = range.from /\ q.to = range.to
      /\ q.stack = <<[node |-> root, visited |-> -1]>> /\ q.segment = <<>> /\ q.matching = FALSE
      /\ q.yielded = <<>>
  BY DEF NoRead, ReadFields
<1> HIDE DEF q
<1>7. ReadIs(entries, h, q)
  BY <1>2, <1>3, <1>4, <1>6, FirstNode
<1>8. DOMAIN q = ReadFields
  BY <1>6
<1> QED BY <1>1, <1>2, <1>5, <1>7, <1>8 DEF StreamIs

LEMMA StreamStep == RootIs /\ StreamIs /\ [RankedNext]_rankedVars => StreamIs'
<1> SUFFICES ASSUME RootIs, StreamIs, [RankedNext]_rankedVars PROVE StreamIs'
  OBVIOUS
<1> DEFINE r == read
           q == read'
<1>0. DOMAIN read = ReadFields
  BY DEF StreamIs
<1>1. ASSUME NEW k \in Keys, NEW v \in Values, SetKey(k, v)
      PROVE  StreamIs'
  BY <1>1 DEF SetKey, StreamIs
<1>2. ASSUME NEW range \in Ranges, StreamRange(range)
      PROVE  StreamIs'
  BY <1>2, StreamBegins
<1>3. CASE Drop
  <2>1. read' = NoRead
    BY <1>3 DEF Drop, Reads
  <2>2. DOMAIN NoRead = ReadFields /\ NoRead.state = "none"
    BY DEF NoRead, ReadFields
  <2> QED BY <2>1, <2>2 DEF StreamIs
<1>4. CASE VisitStart
  <2> DEFINE found == ChildrenFor(Top.node, read.from.key)
  <2>1. /\ read.state = "reading" /\ DOMAIN read.segment = {} /\ read.stack # <<>>
        /\ Top.node.branch /\ ~read.matching /\ UNCHANGED <<root, entries>>
    BY <1>4 DEF VisitStart, AtNode, Visit, Reads
  <2>2. /\ found = {} => read' = [read EXCEPT !.state = "ended"]
        /\ found # {} => read' = [read EXCEPT !.stack = Visited(@, Min(found))]
    BY <1>4 DEF VisitStart, Visit, Reads, Visited, Restack, Popped, Top
  <2>3. PICK h : /\ KeySet(DOMAIN entries) /\ HasHeight(DOMAIN entries, h)
                 /\ Formed(root, entries, h) /\ ReadIs(entries, h, read)
    BY <2>1, ReadAt
  <2>4. /\ found = {} => ReadIs(entries, h, [read EXCEPT !.state = "ended"])
        /\ found # {} => ReadIs(entries, h, [read EXCEPT !.stack = Visited(@, Min(found))])
    BY <2>1, <2>3, StartDown DEF Top
  <2>5. ReadIs(entries, h, read')
    BY <2>2, <2>4
  <2> QED BY <2>1, <2>3, <2>5, ReadKept
<1>5. CASE VisitNext
  <2> DEFINE rest == {b \in DOMAIN Top.node.items : b > Top.visited}
  <2>1. /\ read.state = "reading" /\ DOMAIN read.segment = {} /\ read.stack # <<>>
        /\ Top.node.branch /\ read.matching /\ UNCHANGED <<root, entries>>
    BY <1>5 DEF VisitNext, AtNode, Visit, Reads
  <2>2. /\ rest = {} => read' = [read EXCEPT !.stack = SubSeq(@, 1, Len(@) - 1)]
        /\ rest # {} => read' = [read EXCEPT !.stack = Visited(@, Min(rest))]
    BY <1>5 DEF VisitNext, Visit, Reads, Visited, Restack, Popped, Top
  <2>3. PICK h : /\ KeySet(DOMAIN entries) /\ HasHeight(DOMAIN entries, h)
                 /\ Formed(root, entries, h) /\ ReadIs(entries, h, read)
    BY <2>1, ReadAt
  <2>4. /\ rest = {} => ReadIs(entries, h, [read EXCEPT !.stack = SubSeq(@, 1, Len(@) - 1)])
        /\ rest # {} => ReadIs(entries, h, [read EXCEPT !.stack = Visited(@, Min(rest))])
    BY <2>1, <2>3, NextChild DEF Top
  <2>5. ReadIs(entries, h, read')
    BY <2>2, <2>4
  <2> QED BY <2>1, <2>3, <2>5, ReadKept
<1>6. CASE ReadSegment
  <2>1. /\ read.state = "reading" /\ DOMAIN read.segment = {} /\ read.stack # <<>>
        /\ ~read.stack[Len(read.stack)].node.branch /\ UNCHANGED <<root, entries>>
    BY <1>6 DEF ReadSegment, AtNode, Reads, Top
  <2>2. PICK n : read' = [read EXCEPT !.stack = Popped, !.segment = Top.node.items, !.vain = n]
    BY <1>6 DEF ReadSegment, Reads
  <2>3. /\ DOMAIN q = ReadFields /\ q.state = read.state /\ q.from = read.from /\ q.to = read.to
        /\ q.yielded = read.yielded /\ q.matching = read.matching
        /\ q.stack = SubSeq(read.stack, 1, Len(read.stack) - 1)
        /\ q.segment = read.stack[Len(read.stack)].node.items
    BY <1>0, <2>2 DEF ReadFields, Popped, Top
  <2>4. PICK h : /\ KeySet(DOMAIN entries) /\ HasHeight(DOMAIN entries, h)
                 /\ Formed(root, entries, h) /\ ReadIs(entries, h, read)
    BY <2>1, ReadAt
  <2>5. ReadIs(entries, h, read')
    BY <2>1, <2>3, <2>4, SegmentRead
  <2> QED BY <2>1, <2>4, <2>5, ReadKept
<1>7. CASE ReadEntry
  <2> DEFINE key == Min(DOMAIN read.segment)
             rest == [k \in DOMAIN read.segment \ {key} |-> read.segment[k]]
             entry == [key |-> key, value |-> read.segment[key]]
  <2>1. /\ read.state = "reading" /\ DOMAIN read.segment # {} /\ UNCHANGED <<root, entries>>
    BY <1>7 DEF ReadEntry, Reads
  <2>2. PICK h : /\ KeySet(DOMAIN entries) /\ HasHeight(DOMAIN entries, h)
                 /\ Formed(root, entries, h) /\ ReadIs(entries, h, read)
    BY <2>1, ReadAt
  <2>3. In(read, key) <=> InRange(key)
    BY DEF In, InRange
  <2>4. read' = IF InRange(key)
                THEN [read EXCEPT !.segment = rest, !.matching = TRUE, !.yielded = Append(@, entry)]
                ELSE IF read.matching THEN [read EXCEPT !.state = "ended"]
                ELSE [read EXCEPT !.segment = rest]
    BY <1>7 DEF ReadEntry, Reads
  <2> HIDE DEF rest, entry
  <2>5. CASE InRange(key)
    <3>1. q = [read EXCEPT !.segment = rest, !.matching = TRUE, !.yielded = Append(@, entry)]
      BY <2>4, <2>5
    <3>2. /\ DOMAIN q = ReadFields /\ q.state = read.state /\ q.from = read.from /\ q.to = read.to
          /\ q.stack = read.stack /\ q.matching = TRUE /\ q.segment = rest
          /\ q.yielded = Append(read.yielded, entry)
      BY <1>0, <3>1 DEF ReadFields
    <3>3. ReadIs(entries, h, read')
      BY <2>1, <2>2, <2>3, <2>5, <3>2, EntryInRange DEF rest, entry
    <3> QED BY <2>1, <2>2, <3>3, ReadKept
  <2>6. CASE ~InRange(key) /\ read.matching
    <3>1. q = [read EXCEPT !.state = "ended"]
      BY <2>4, <2>6
    <3>2. /\ DOMAIN q = ReadFields /\ q.state = "ended" /\ q.from = read.from /\ q.to = read.to
          /\ q.yielded = read.yielded
      BY <1>0, <3>1 DEF ReadFields
    <3>3. ReadIs(entries, h, read')
      BY <2>1, <2>2, <2>3, <2>6, <3>2, EntryBehind
    <3> QED BY <2>1, <2>2, <3>3, ReadKept
  <2>7. CASE ~InRange(key) /\ ~read.matching
    <3>1. q = [read EXCEPT !.segment = rest]
      BY <2>4, <2>7
    <3>2. /\ DOMAIN q = ReadFields /\ q.state = read.state /\ q.from = read.from /\ q.to = read.to
          /\ q.stack = read.stack /\ q.matching = read.matching /\ q.segment = rest
          /\ q.yielded = read.yielded
      BY <1>0, <3>1 DEF ReadFields
    <3>3. ReadIs(entries, h, read')
      BY <2>1, <2>2, <2>3, <2>7, <3>2, EntryBefore DEF rest
    <3> QED BY <2>1, <2>2, <3>3, ReadKept
  <2> QED BY <2>5, <2>6, <2>7
<1>8. CASE EndOfTree
  <2>1. /\ read.state = "reading" /\ DOMAIN read.segment = {} /\ read.stack = <<>>
        /\ UNCHANGED <<root, entries>> /\ q = [read EXCEPT !.state = "ended"]
    BY <1>8 DEF EndOfTree, Reads
  <2>2. PICK h : /\ KeySet(DOMAIN entries) /\ HasHeight(DOMAIN entries, h)
                 /\ Formed(root, entries, h) /\ ReadIs(entries, h, read)
    BY <2>1, ReadAt
  <2>3. /\ DOMAIN q = ReadFields /\ q.state = "ended" /\ q.from = read.from /\ q.to = read.to
        /\ q.yielded = read.yielded
    BY <1>0, <2>1 DEF ReadFields
  <2>4. ReadIs(entries, h, read')
    BY <2>1, <2>2, <2>3, AllSeen
  <2> QED BY <2>1, <2>2, <2>4, ReadKept
<1>9. CASE UNCHANGED rankedVars
  BY <1>9 DEF rankedVars, StreamIs
<1> QED BY <1>1, <1>2, <1>3, <1>4, <1>5, <1>6, <1>7, <1>8, <1>9 DEF RankedNext, ReadStep

LEMMA YieldedShows ==
  ASSUME NEW F, DOMAIN entries \subseteq Nat, F \in Int, Yielded(entries, read, F)
  PROVE  /\ \A i \in DOMAIN read.yielded :
              LET key == read.yielded[i].key
              IN  key \in DOMAIN entries /\ InRange(key) /\ read.yielded[i].value = entries[key]
         /\ \A i, j \in DOMAIN read.yielded : i < j => read.yielded[i].key < read.yielded[j].key
         /\ \A k \in DOMAIN entries : InRange(k) /\ ~Yields(k) =>
              F < k /\ \A i \in DOMAIN read.yielded : read.yielded[i].key < k
<1> DEFINE y == read.yielded
           n == Len(y)
           T == {EntryOf(entries, x) : x \in DOMAIN entries}
<1>1. y \in Seq(T)
  BY DEF Yielded
<1>2. DOMAIN y = 1 .. n /\ \A i \in 1 .. n : y[i] \in T
  BY <1>1
<1>3. \A x : In(read, x) <=> InRange(x)
  BY DEF In, InRange
<1>4. /\ \A i \in 1 .. n : In(read, y[i].key) /\ y[i].key <= F
      /\ \A i, j \in 1 .. n : i < j => y[i].key < y[j].key
      /\ \A x \in DOMAIN entries : In(read, x) /\ x <= F => \E i \in 1 .. n : y[i] = EntryOf(entries, x)
  BY DEF Yielded
<1>5. ASSUME NEW i \in 1 .. n
      PROVE  y[i].key \in DOMAIN entries /\ y[i].value = entries[y[i].key]
  <2>1. PICK x \in DOMAIN entries : y[i] = EntryOf(entries, x)
    BY <1>2
  <2> QED BY <2>1 DEF EntryOf
<1> HIDE DEF y, n, T
<1>6. ASSUME NEW k \in DOMAIN entries, InRange(k), ~Yields(k)
      PROVE  F < k /\ \A i \in DOMAIN read.yielded : read.yielded[i].key < k
  <2>1. ~(k <= F)
    <3>1. SUFFICES ASSUME k <= F PROVE FALSE
      OBVIOUS
    <3>2. PICK i \in 1 .. n : y[i] = EntryOf(entries, k)
      BY <1>3, <1>4, <1>6, <3>1
    <3>3. Yields(k)
      BY <1>2, <3>2 DEF Yields, EntryOf, y
    <3> QED BY <1>6, <3>3
  <2>2. F < k /\ k \in Nat
    BY <2>1
  <2>3. ASSUME NEW i \in 1 .. n
        PROVE  y[i].key < k
    <3>1. y[i].key <= F /\ y[i].key \in Nat
      BY <1>4, <1>5
    <3> QED BY <2>2, <3>1
  <2> QED BY <1>2, <2>2, <2>3 DEF y
<1> QED BY <1>2, <1>3, <1>4, <1>5, <1>6 DEF y

LEMMA ReadsFollow == RootIs /\ StreamIs => ReadsWhatWasSet
<1> SUFFICES ASSUME RootIs, StreamIs PROVE ReadsWhatWasSet
  OBVIOUS
<1>1. ASSUME root # NoRoot, NEW k \in Keys
      PROVE  Get(root, k) = IF k \in DOMAIN entries THEN entries[k] ELSE None
  <2>1. TreeOf(root, entries)
    BY <1>1 DEF RootIs
  <2>2. PICK h : Formed(root, entries, h)
    BY <2>1 DEF TreeOf
  <2> QED BY <2>1, <2>2, GetIs DEF TreeOf
<1>2. ASSUME read.state # "none"
      PROVE  /\ \A i \in DOMAIN read.yielded :
                  LET key == read.yielded[i].key
                  IN  key \in DOMAIN entries /\ InRange(key) /\ read.yielded[i].value = entries[key]
             /\ \A i, j \in DOMAIN read.yielded : i < j => read.yielded[i].key < read.yielded[j].key
             /\ \A k \in DOMAIN entries : InRange(k) /\ ~Yields(k) =>
                  /\ read.state # "ended"
                  /\ \A i \in DOMAIN read.yielded : read.yielded[i].key < k
  <2>1. PICK h : /\ KeySet(DOMAIN entries) /\ HasHeight(DOMAIN entries, h)
                 /\ Formed(root, entries, h) /\ ReadIs(entries, h, read)
    BY <1>2, ReadAt
  <2>2. /\ DOMAIN entries \subseteq Nat /\ Max(DOMAIN entries) \in Nat
        /\ \A x \in DOMAIN entries : x <= Max(DOMAIN entries)
    BY <2>1, KeyMax
  <2>3. PICK F \in Int : /\ Yielded(entries, read, F)
                         /\ read.state = "ended" => \A x \in DOMAIN entries : x <= F
    <3>1. CASE read.state = "ended"
      <4>1. Yielded(entries, read, Max(DOMAIN entries))
        BY <2>1, <3>1 DEF ReadIs
      <4>2. Max(DOMAIN entries) \in Int
        BY <2>2
      <4> QED BY <2>2, <4>1, <4>2
    <3>2. CASE read.state = "reading" /\ Starting(entries, h, read)
      <4>1. Yielded(entries, read, -1) /\ -1 \in Int
        BY <3>2 DEF Starting
      <4> QED BY <3>2, <4>1
    <3>3. CASE read.state = "reading" /\ Going(entries, h, read)
      <4>1. PICK F \in DOMAIN entries : Yielded(entries, read, F)
        BY <3>3 DEF Going
      <4>2. F \in Int
        BY <2>2
      <4> QED BY <3>3, <4>1, <4>2
    <3> QED BY <2>1, <3>1, <3>2, <3>3 DEF ReadIs
  <2>4. /\ \A i \in DOMAIN read.yielded :
             LET key == read.yielded[i].key
             IN  key \in DOMAIN entries /\ InRange(key) /\ read.yielded[i].value = entries[key]
        /\ \A i, j \in DOMAIN read.yielded : i < j => read.yielded[i].key < read.yielded[j].key
        /\ \A k \in DOMAIN entries : InRange(k) /\ ~Yields(k) =>
             F < k /\ \A i \in DOMAIN read.yielded : read.yielded[i].key < k
    BY <2>2, <2>3, YieldedShows
  <2>5. \A k \in DOMAIN entries : F < k => read.state # "ended"
    BY <2>2, <2>3
  <2> QED BY <2>4, <2>5
<1> QED BY <1>1, <1>2 DEF ReadsWhatWasSet

(* A key has the value it was last set to; what a read yields are the entries in the
   range, in order and each once, and all of them at its end (get_entry and get_range). *)
THEOREM ReadsInOrder == RankedSpec => []ReadsWhatWasSet
<1>1. RankedInit => RootIs /\ StreamIs
  BY RootInit, StreamInit
<1>2. RootIs /\ StreamIs /\ [RankedNext]_rankedVars => RootIs' /\ StreamIs'
  BY RootStep, StreamStep
<1>3. RootIs /\ StreamIs => ReadsWhatWasSet
  BY ReadsFollow
<1> QED BY <1>1, <1>2, <1>3, PTL DEF RankedSpec
=============================================================================
