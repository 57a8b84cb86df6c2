------------------------------- MODULE InfInt -------------------------------
(***************************************************************************)
(* Numbers of any length, InfInt, as far as the library uses them: read    *)
(* from the digits in a name, and compared.  A number is its elements, the *)
(* lowest first, each of DIGIT_COUNT decimal digits (9 in the code).       *)
(*                                                                         *)
(* The numbers in names have no sign; the flag `pos' is TRUE throughout.   *)
(***************************************************************************)
EXTENDS Integers, Sequences, SequencesExt

CONSTANT DIGIT_COUNT   \* decimal digits in an element

ASSUME InfIntAssumption == DIGIT_COUNT \in Nat \ {0}

\* A digit is the code of its character.
atoi(s) ==
  LET value[i \in 0..Len(s)] == IF i = 0 THEN 0 ELSE 10 * value[i - 1] + s[i] - 48
  IN  value[Len(s)]

\* Variant: the highest element counts as a leading zero when it is below ten.
ShortenedBelowTen(val) ==
  LET top == CHOOSE i \in 1..Len(val) :
               /\ i = 1 \/ val[i] > 9
               /\ \A k \in (i + 1)..Len(val) : val[k] <= 9
  IN  SubSeq(val, 1, top)

\* The lowest element stays, be it zero.
removeLeadingZeros(val) ==
  LET top == CHOOSE i \in 1..Len(val) :
               /\ i = 1 \/ val[i] # 0
               /\ \A k \in (i + 1)..Len(val) : val[k] = 0
  IN  SubSeq(val, 1, top)

\* Elements are cut off from the end; the digits left over are the highest one.
fromString(s) ==
  LET full  == Len(s) \div DIGIT_COUNT
      over  == Len(s) % DIGIT_COUNT
      Past(k) == Len(s) - (k - 1) * DIGIT_COUNT
      whole == [k \in 1..full |-> atoi(SubSeq(s, Past(k) - DIGIT_COUNT + 1, Past(k)))]
  IN  removeLeadingZeros(IF over = 0 THEN whole
                                     ELSE Append(whole, atoi(SubSeq(s, 1, over))))

\* The longer number is the larger; of two as long, the highest element that
\* differs decides.
LessInt(m, n) ==
  \/ Len(m) < Len(n)
  \/ /\ Len(m) = Len(n)
     /\ \E i \in 1..Len(m) :
          /\ m[i] < n[i]
          /\ \A k \in (i + 1)..Len(m) : m[k] = n[k]
=============================================================================
