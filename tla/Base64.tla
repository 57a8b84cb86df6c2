------------------------------- MODULE Base64 -------------------------------
(***************************************************************************)
(* The numbers of an index file: b64_encode and b64_decode of              *)
(* src/src/util/base64.hh.  A string is a sequence of characters, and a    *)
(* character is its value in the table b64_index: one of Digit, or         *)
(* anything else for a character the table marks XX.                       *)
(***************************************************************************)
EXTENDS Integers, Sequences

CONSTANTS
  Bits,   \* bits to a digit: 6
  Width   \* bits of the integer type: those of size_t

ASSUME Base64Assumption ==
  /\ Bits \in Nat \ {0}
  /\ Width \in Nat \ {0}

\* The weight of a bit, and what a shift multiplies by.
TwoTo[n \in Nat] == IF n = 0 THEN 1 ELSE 2 * TwoTo[n - 1]

Base == TwoTo[Bits]

Modulus == TwoTo[Width]

Digit == 0..(Base - 1)

\* What decoding throws, both for an illegal character and for lost bits.
BadBase64 == -1

\* Variant: one digit too few at the powers of the base.
FewDigits(v) ==
  CHOOSE k \in 1..Width : /\ v <= TwoTo[Bits * k]
                          /\ k > 1 => v > TwoTo[Bits * (k - 1)]

NumDigits(v) ==
  CHOOSE k \in 1..Width : /\ v < TwoTo[Bits * k]
                          /\ k > 1 => v >= TwoTo[Bits * (k - 1)]

\* The most significant digit first.
Encode(v) ==
  LET chunks == NumDigits(v)
  IN  [i \in 1..chunks |-> (v \div TwoTo[Bits * (chunks - i)]) % Base]

\* How far the i-th character is shifted.  The language leaves a shift by the
\* width of the type or more undefined; the machines this is built for take
\* the amount modulo the width.
Shift(s, i) == (Bits * (Len(s) - i)) % Width

\* tmp << offset, in the integer type.
Shifted(s, i) == (s[i] * TwoTo[Shift(s, i)]) % Modulus

\* Variant: lost bits go unnoticed.
NeverLosesBits(s, i) == FALSE

LosesBits(s, i) == Shifted(s, i) \div TwoTo[Shift(s, i)] # s[i]

\* The bits that result |= tmp << offset has set in the end.
SetBits(s) ==
  {b \in 0..(Width - 1) : \E i \in 1..Len(s) : (Shifted(s, i) \div TwoTo[b]) % 2 = 1}

NumberOf(bits) ==
  LET sum[w \in Nat] ==
        IF w = 0 THEN 0
        ELSE sum[w - 1] + (IF w - 1 \in bits THEN TwoTo[w - 1] ELSE 0)
  IN  sum[Width]

Decode(s) ==
  IF \E i \in 1..Len(s) : s[i] \notin Digit \/ LosesBits(s, i)
    THEN BadBase64
    ELSE NumberOf(SetBits(s))

----------------------------------------------------------------------------
\* The reference: positional notation with no integer type to overflow.
Positional(s) ==
  LET sum[i \in 0..Len(s)] == IF i = 0 THEN 0 ELSE sum[i - 1] * Base + s[i]
  IN  sum[Len(s)]

\* How many digits the largest value of the type takes.
Longest == Len(Encode(Modulus - 1))

\* Decoding a string is exact or fails: it is not silently taken for a smaller
\* number because its leading digits fell off the type, and it is not refused if
\* the type can hold it.  Only of a string longer than any value takes nothing
\* is said but that it is refused when a character is no digit: the first
\* digits are then shifted by the width of the type or more.
DecodesExactly(s) ==
  LET legal == \A i \in 1..Len(s) : s[i] \in Digit
  IN  /\ ~legal => Decode(s) = BadBase64
      /\ legal /\ Len(s) <= Longest =>
           Decode(s) = IF Positional(s) < Modulus THEN Positional(s) ELSE BadBase64
=============================================================================
