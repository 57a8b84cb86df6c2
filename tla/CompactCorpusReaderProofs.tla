--------------------- MODULE CompactCorpusReaderProofs ---------------------
(***************************************************************************)
(* The theorems of CompactCorpusReader: for every archive and index, every *)
(* set of threads and every interleaving of their reads, d_readMutex keeps *)
(* the stream to one thread, a read returns no byte that is not the        *)
(* entry's, and from a sound corpus it returns all of them.                *)
(***************************************************************************)
EXTENDS CompactCorpusReader, RecursionProofs

IndexItem == [name : Name, offset : Nat, size : Nat]

StreamTypes ==
  /\ rd \in ReaderPhase
  /\ r_table \in Nat \cup {NoTable}
  /\ 2 * r_table <= IntMod
  /\ d_curChunk \in Nat \cup {-1}
  /\ getArea \in Seq(Byte \cup {Junk})
  /\ gptr \in Nat
  /\ r_good \in BOOLEAN
  /\ left \in Nat
  /\ dest \in Seq(Byte)

ReaderTypes ==
  /\ StreamTypes
  /\ d_indices \in Seq(IndexItem)
  /\ d_readMutex \in Thread \cup {NoThread}
  /\ rpc \in [Thread -> {"idle", "lock", "seek", "read", "copy"}]
  /\ rname \in [Thread -> Name]
  /\ answer \in [Thread -> {NoAnswer, Unknown} \cup Seq(Byte)]
  /\ reads \in Nat

\* The thread that holds d_readMutex is the one between Lock and Return.
MutualExclusion ==
  \A t \in Thread : rpc[t] \in {"seek", "read", "copy"} <=> d_readMutex = t

\* Before the corpus is open nobody reads.
ReadersWait ==
  rd \in {"new", "refused", "failed"} =>
    /\ d_curChunk = -1 /\ getArea = <<>>
    /\ \A t \in Thread : rpc[t] = "idle" /\ answer[t] = NoAnswer

\* What a thread reads, or has read, is in the index.
AskedIsKnown ==
  \A t \in Thread :
    rpc[t] # "idle" \/ answer[t] \notin {NoAnswer, Unknown} => Known(rname[t])

\* As long as the stream is good the get area has the chunk that d_curChunk
\* names, and no byte of a chunk before the first.
GetAreaFollows ==
  r_good =>
    IF d_curChunk = -1
      THEN getArea \in Seq(Byte)
      ELSE InTable(d_curChunk) /\ OnDisk(d_curChunk) /\ Decodes(d_curChunk)
           /\ getArea = Inflated(d_curChunk)

\* The position in the archive that the next byte of the stream comes from.
Position == ChunkLen * d_curChunk + gptr

StandsAt(p) == d_curChunk # -1 /\ Position = p

\* The first bytes of an entry.
BeginsEntry(item, bytes) ==
  \A k \in 1..Len(bytes) :
    HasByte(item.offset + k - 1) /\ bytes[k] = EntryByte(item.offset + k - 1)

\* The holder of the mutex finds the stream where it left it: at its entry, if an
\* int can hold the number of the chunk.
ReadInPlace(t) ==
  LET item == Item(rname[t])
  IN  /\ rpc[t] = "copy" => left + Len(dest) = item.size
      /\ ChunkNumberFits(item.offset) =>
           /\ rpc[t] = "read" => (r_good => StandsAt(item.offset))
           /\ rpc[t] = "copy" =>
                /\ BeginsEntry(item, dest)
                /\ r_good => StandsAt(item.offset + Len(dest))

\* An answer has the length of the entry, and each byte is its own or zero.
OwnOrNul(t) ==
  LET item == Item(rname[t])
  IN  answer[t] \notin {NoAnswer, Unknown} =>
        /\ Len(answer[t]) = item.size
        /\ ChunkNumberFits(item.offset) =>
             \A k \in 1..item.size :
               \/ answer[t][k] = Nul
               \/ /\ HasByte(item.offset + k - 1)
                  /\ answer[t][k] = EntryByte(item.offset + k - 1)

ReaderInv ==
  /\ AnyFiles
  /\ ReaderTypes
  /\ MutualExclusion
  /\ ReadersWait
  /\ AskedIsKnown
  /\ GetAreaFollows
  /\ rd = "open" => \A t \in Thread : ReadInPlace(t)
  /\ \A t \in Thread : OwnOrNul(t)

----------------------------------------------------------------------------
(* What Base64 promises, for every width of the integer type and every     *)
(* number of bits to a digit: the reader of an index decodes the numbers   *)
(* that its writer encoded.                                                *)

LEMMA TwoToUnfolds ==
  TwoTo = [n \in Nat |-> IF n = 0 THEN 1 ELSE 2 * TwoTo[n - 1]]
<1> DEFINE S == Nat
           one == 1
           g == [n \in Nat |-> [x \in S |-> 2 * x]]
<1>1. one \in S /\ g \in [Nat -> [S -> S]]
  OBVIOUS
<1>2. PICK f : Iterates(f, S, one, g)
  <2> HIDE DEF S, one, g
  <2> QED
    BY <1>1, Recursion
<1>3. ASSUME NEW n \in Nat, n # 0 PROVE f[n] = 2 * f[n - 1]
  <2>1. n - 1 \in Nat /\ (n - 1) + 1 = n
    BY <1>3
  <2>2. f[(n - 1) + 1] = g[n - 1][f[n - 1]]
    BY <1>2, <2>1 DEF Iterates
  <2>3. g[n - 1][f[n - 1]] = 2 * f[n - 1]
    BY <1>2, <2>1 DEF Iterates
  <2> QED
    BY <2>1, <2>2, <2>3
<1>4. f = [n \in Nat |-> IF n = 0 THEN 1 ELSE 2 * f[n - 1]]
  BY <1>2, <1>3 DEF Iterates
<1> QED
  BY <1>4 DEF TwoTo

LEMMA TwoToStep ==
  /\ TwoTo[0] = 1
  /\ \A n \in Nat : TwoTo[n + 1] = 2 * TwoTo[n]
<1>1. TwoTo[0] = 1
  BY TwoToUnfolds
<1>2. ASSUME NEW n \in Nat PROVE TwoTo[n + 1] = 2 * TwoTo[n]
  <2>1. n + 1 \in Nat /\ n + 1 # 0 /\ (n + 1) - 1 = n
    OBVIOUS
  <2> QED
    BY <2>1, TwoToUnfolds
<1> QED
  BY <1>1, <1>2

LEMMA TwoToType ==
  \A n \in Nat : TwoTo[n] \in Nat \ {0}
<1> DEFINE S == {n \in Nat : TwoTo[n] \in Nat \ {0}}
<1>1. 0 \in S
  BY TwoToStep
<1>2. \A n \in Nat : n \in S => n + 1 \in S
  BY TwoToStep
<1>3. Nat \subseteq S
  <2> HIDE DEF S
  <2> QED
    BY <1>1, <1>2, Induction
<1> QED
  BY <1>3

LEMMA TwoToSum ==
  \A m, n \in Nat : TwoTo[m + n] = TwoTo[m] * TwoTo[n]
<1> SUFFICES ASSUME NEW m \in Nat
             PROVE  \A n \in Nat : TwoTo[m + n] = TwoTo[m] * TwoTo[n]
  OBVIOUS
<1> DEFINE S == {n \in Nat : TwoTo[m + n] = TwoTo[m] * TwoTo[n]}
<1>1. 0 \in S
  BY TwoToStep, TwoToType
<1>2. ASSUME NEW n \in Nat, n \in S PROVE n + 1 \in S
  <2>1. m + (n + 1) = (m + n) + 1 /\ m + n \in Nat
    OBVIOUS
  <2>2. TwoTo[m + (n + 1)] = 2 * TwoTo[m + n]
    BY <2>1, TwoToStep
  <2>3. TwoTo[n + 1] = 2 * TwoTo[n]
    BY TwoToStep
  <2>4. 2 * (TwoTo[m] * TwoTo[n]) = TwoTo[m] * (2 * TwoTo[n])
    BY TwoToType
  <2> QED
    BY <1>2, <2>2, <2>3, <2>4
<1>3. Nat \subseteq S
  <2> HIDE DEF S
  <2> QED
    BY <1>1, <1>2, Induction
<1> QED
  BY <1>3

LEMMA TwoToMonotonic ==
  ASSUME NEW m \in Nat, NEW n \in Nat, m <= n
  PROVE  TwoTo[m] <= TwoTo[n]
<1>1. n - m \in Nat /\ n = m + (n - m)
  OBVIOUS
<1>2. TwoTo[n] = TwoTo[m] * TwoTo[n - m]
  BY <1>1, TwoToSum
<1>3. TwoTo[m] \in Nat \ {0} /\ TwoTo[n - m] \in Nat \ {0}
  BY <1>1, TwoToType
<1>4. \A a, b \in Nat \ {0} : a <= a * b
  OBVIOUS
<1> QED
  BY <1>2, <1>3, <1>4

\* To divide by a product is to divide by one factor and then by the other.
DividesInTwo(a, m, k) ==
  /\ m * k \in Nat \ {0}
  /\ a \div (m * k) = (a \div m) \div k
  /\ a % (m * k) = m * ((a \div m) % k) + (a % m)
  /\ (a % (m * k)) \div m = (a \div m) % k

LEMMA ProductQuotient ==
  ASSUME NEW a \in Nat, NEW m \in Nat \ {0}, NEW k \in Nat \ {0}
  PROVE  DividesInTwo(a, m, k)
<1> DEFINE q == a \div m
           r == a % m
           p == q \div k
           s == q % k
<1>1. q \in Nat /\ r \in Nat /\ r < m /\ a = m * q + r
  BY Division
<1>2. p \in Nat /\ s \in Nat /\ s < k /\ q = k * p + s
  BY <1>1, Division
<1>3. m * k \in Nat \ {0}
  OBVIOUS
<1> HIDE DEF q, r, p, s
<1>4. a = (m * k) * p + (m * s + r)
  <2>1. a = m * (k * p + s) + r
    BY <1>1, <1>2
  <2> QED
    BY <1>1, <1>2, <2>1
<1>5. m * s + r \in Nat /\ m * s + r < m * k
  <2>1. m * s \in Nat
    BY <1>2
  <2>2. m * s + m <= m * k
    <3>1. s + 1 <= k
      BY <1>2
    <3>2. \A x \in Nat : x <= k => m * x <= m * k
      BY Z3
    <3>3. m * (s + 1) <= m * k
      BY <1>2, <3>1, <3>2
    <3> QED
      BY <1>2, <3>3
  <2> QED
    BY <1>1, <1>3, <2>1, <2>2
<1>6. a \div (m * k) = p /\ a % (m * k) = m * s + r
  BY <1>2, <1>3, <1>4, <1>5, Quotient
<1>7. (m * s + r) \div m = s
  BY <1>1, <1>2, Quotient
<1> QED
  BY <1>3, <1>6, <1>7 DEF q, r, p, s, DividesInTwo

----------------------------------------------------------------------------
(* Bits.                                                                   *)

Bit(v, b) == (v \div TwoTo[b]) % 2

LEMMA BitType ==
  ASSUME NEW v \in Nat, NEW b \in Nat
  PROVE  Bit(v, b) \in {0, 1} /\ v \div TwoTo[b] \in Nat
<1>1. TwoTo[b] \in Nat \ {0}
  BY TwoToType
<1>2. v \div TwoTo[b] \in Nat
  BY <1>1, Division
<1>3. \A x \in Nat : x % 2 \in {0, 1}
  OBVIOUS
<1> QED
  BY <1>2, <1>3 DEF Bit

\* A remainder gains one bit with each power of two.
LEMMA RemainderStep ==
  ASSUME NEW v \in Nat, NEW w \in Nat
  PROVE  v % TwoTo[w + 1] = (v % TwoTo[w]) + (IF Bit(v, w) = 1 THEN TwoTo[w] ELSE 0)
<1> DEFINE m == TwoTo[w]
<1>1. m \in Nat \ {0} /\ TwoTo[w + 1] = m * 2
  BY TwoToType, TwoToStep
<1>2. Bit(v, w) \in {0, 1} /\ Bit(v, w) = (v \div m) % 2
  BY BitType DEF Bit
<1>3. v % m \in Nat
  BY <1>1, Division
<1> HIDE DEF m
<1>4. v % (m * 2) = m * ((v \div m) % 2) + (v % m)
  <2>1. DividesInTwo(v, m, 2)
    BY <1>1, ProductQuotient
  <2> QED
    BY <2>1 DEF DividesInTwo
<1>5. v % (m * 2) = m * Bit(v, w) + (v % m)
  BY <1>2, <1>4
<1>6. v % (m * 2) = (v % m) + (IF Bit(v, w) = 1 THEN m ELSE 0)
  <2>1. CASE Bit(v, w) = 1
    BY <1>1, <1>3, <1>5, <2>1
  <2>2. CASE Bit(v, w) = 0
    BY <1>1, <1>3, <1>5, <2>2
  <2> QED
    BY <1>2, <2>1, <2>2
<1> QED
  BY <1>1, <1>6 DEF m

\* A remainder modulo a power of two keeps the bits below it.
LEMMA RemainderBit ==
  ASSUME NEW v \in Nat, NEW b \in Nat, NEW n \in Nat, b < n
  PROVE  Bit(v % TwoTo[n], b) = Bit(v, b)
<1> DEFINE d == n - (b + 1)
           m == TwoTo[b]
           l == TwoTo[d]
           y == v \div m
<1>1. d \in Nat /\ n = b + (d + 1) /\ d + 1 \in Nat
  OBVIOUS
<1>2. m \in Nat \ {0} /\ l \in Nat \ {0} /\ 2 * l \in Nat \ {0}
  BY <1>1, TwoToType
<1>3. TwoTo[n] = m * (2 * l)
  <2>1. TwoTo[n] = m * TwoTo[d + 1]
    BY <1>1, TwoToSum
  <2> QED
    BY <1>1, <2>1, TwoToStep
<1>4. y \in Nat
  BY <1>2, Division
<1> HIDE DEF m, l, d, y
<1>5. (v % (m * (2 * l))) \div m = y % (2 * l)
  <2>1. DividesInTwo(v, m, 2 * l)
    BY <1>2, ProductQuotient
  <2> QED
    BY <2>1 DEF DividesInTwo, y
<1>6. (y % (2 * l)) % 2 = y % 2
  <2>1. y % (2 * l) = 2 * ((y \div 2) % l) + (y % 2)
    <3>1. DividesInTwo(y, 2, l)
      BY <1>2, <1>4, ProductQuotient
    <3> QED
      BY <3>1 DEF DividesInTwo
  <2>2. y \div 2 \in Nat /\ y % 2 \in Nat /\ y % 2 < 2
    BY <1>4, Division
  <2>3. (y \div 2) % l \in Nat
    BY <1>2, <2>2, Division
  <2> HIDE DEF y
  <2> QED
    BY <2>1, <2>2, <2>3, Quotient
<1> QED
  BY <1>3, <1>5, <1>6 DEF Bit, m, y

\* The bits of a number shifted to the left.
LEMMA ShiftedBit ==
  ASSUME NEW x \in Nat, NEW m \in Nat, NEW b \in Nat
  PROVE  /\ b < m => Bit(x * TwoTo[m], b) = 0
         /\ b >= m => Bit(x * TwoTo[m], b) = Bit(x, b - m)
<1>1. ASSUME b < m PROVE Bit(x * TwoTo[m], b) = 0
  <2> DEFINE d == m - (b + 1)
             p == TwoTo[b]
             l == TwoTo[d]
  <2>1. d \in Nat /\ m = b + (d + 1) /\ d + 1 \in Nat
    BY <1>1
  <2>2. p \in Nat \ {0} /\ l \in Nat \ {0}
    BY <2>1, TwoToType
  <2>3. TwoTo[m] = p * (2 * l)
    <3>1. TwoTo[m] = p * TwoTo[d + 1]
      BY <2>1, TwoToSum
    <3> QED
      BY <2>1, <3>1, TwoToStep
  <2> HIDE DEF p, l, d
  <2>4. x * l \in Nat /\ 2 * (x * l) \in Nat
    BY <2>2
  <2>5. x * TwoTo[m] = p * (2 * (x * l)) + 0
    <3>1. \A a, c, e \in Nat : a * (c * (2 * e)) = c * (2 * (a * e)) + 0
      BY Z3
    <3> QED
      BY <2>2, <2>3, <3>1
  <2>6. (p * (2 * (x * l)) + 0) \div p = 2 * (x * l)
    BY <2>2, <2>4, Quotient
  <2>7. (2 * (x * l)) % 2 = 0
    BY <2>4
  <2> QED
    BY <2>5, <2>6, <2>7 DEF Bit, p
<1>2. ASSUME b >= m PROVE Bit(x * TwoTo[m], b) = Bit(x, b - m)
  <2> DEFINE c == b - m
             p == TwoTo[m]
             q == TwoTo[c]
  <2>1. c \in Nat /\ b = m + c
    BY <1>2
  <2>2. p \in Nat \ {0} /\ q \in Nat \ {0} /\ TwoTo[b] = p * q
    BY <2>1, TwoToType, TwoToSum
  <2> HIDE DEF p, q, c
  <2>3. x * p \in Nat /\ x * p = p * x + 0
    BY <2>2
  <2>4. (x * p) \div (p * q) = ((x * p) \div p) \div q
    <3>1. DividesInTwo(x * p, p, q)
      BY <2>2, <2>3, ProductQuotient
    <3> QED
      BY <3>1 DEF DividesInTwo
  <2>5. (p * x + 0) \div p = x
    BY <2>2, Quotient
  <2>6. (x * p) \div TwoTo[b] = x \div q
    BY <2>2, <2>3, <2>4, <2>5
  <2> QED
    BY <2>6 DEF Bit, p, q, c
<1> QED
  BY <1>1, <1>2

\* A number has no bit at or above a power of two that it is below.
LEMMA BitBelow ==
  ASSUME NEW v \in Nat, NEW n \in Nat, v < TwoTo[n], NEW b \in Nat, n <= b
  PROVE  Bit(v, b) = 0
<1>1. TwoTo[n] <= TwoTo[b] /\ TwoTo[n] \in Nat /\ TwoTo[b] \in Nat \ {0}
  BY TwoToMonotonic, TwoToType
<1>2. v \div TwoTo[b] = 0
  BY <1>1, QuotientOfLess
<1> QED
  BY <1>2 DEF Bit

----------------------------------------------------------------------------
(* The number that a set of bits makes.                                    *)

Sums(f, bits) ==
  /\ f \in [Nat -> Nat]
  /\ f[0] = 0
  /\ \A w \in Nat : f[w + 1] = f[w] + (IF w \in bits THEN TwoTo[w] ELSE 0)

LEMMA NumberOfSums ==
  ASSUME NEW bits
  PROVE  \E f : Sums(f, bits) /\ NumberOf(bits) = f[Width]
<1> DEFINE weight(w) == IF w \in bits THEN TwoTo[w] ELSE 0
           zero == 0
           g == [w \in Nat |-> [x \in Nat |-> x + weight(w)]]
           step(f) == [w \in Nat |-> IF w = 0 THEN 0 ELSE f[w - 1] + weight(w - 1)]
           sum == CHOOSE f : f = step(f)
<1>1. \A w \in Nat : weight(w) \in Nat
  BY TwoToType
<1>2. zero \in Nat /\ g \in [Nat -> [Nat -> Nat]]
  <2> HIDE DEF weight
  <2> QED
    BY <1>1
<1>3. PICK f : Iterates(f, Nat, zero, g)
  <2> HIDE DEF zero, g
  <2> QED
    BY <1>2, Recursion
<1>4. \A w \in Nat : f[w + 1] = f[w] + weight(w)
  <2> HIDE DEF weight
  <2> QED
    BY <1>1, <1>3 DEF Iterates
<1>5. f = step(f)
  <2> HIDE DEF weight
  <2>1. ASSUME NEW w \in Nat, w # 0 PROVE f[w] = f[w - 1] + weight(w - 1)
    <3>1. w - 1 \in Nat /\ (w - 1) + 1 = w
      BY <2>1
    <3> QED
      BY <1>4, <3>1
  <2> QED
    BY <1>3, <2>1 DEF Iterates
<1>6. sum = step(sum)
  <2> HIDE DEF step
  <2> QED
    BY <1>5
<1>7. NumberOf(bits) = sum[Width]
  BY DEF NumberOf
<1> HIDE DEF sum
<1>8. sum[0] = 0
  BY <1>6
<1>9. ASSUME NEW w \in Nat PROVE sum[w + 1] = sum[w] + weight(w)
  <2> HIDE DEF weight
  <2>1. w + 1 \in Nat /\ w + 1 # 0 /\ (w + 1) - 1 = w
    OBVIOUS
  <2> QED
    BY <1>6, <2>1
<1>10. sum \in [Nat -> Nat]
  <2> DEFINE S == {w \in Nat : sum[w] \in Nat}
  <2>1. 0 \in S
    BY <1>8
  <2>2. \A w \in Nat : w \in S => w + 1 \in S
    <3> HIDE DEF weight
    <3> QED
      BY <1>1, <1>9
  <2>3. Nat \subseteq S
    <3> HIDE DEF S
    <3> QED
      BY <2>1, <2>2, Induction
  <2> QED
    BY <1>6, <2>3
<1>11. Sums(sum, bits)
  BY <1>8, <1>9, <1>10 DEF Sums
<1> QED
  BY <1>7, <1>11

\* The bits of a number make that number.
LEMMA BitsMakeNumber ==
  ASSUME NEW v \in Nat, v < Modulus
  PROVE  NumberOf({b \in 0..(Width - 1) : Bit(v, b) = 1}) = v
<1> DEFINE bits == {b \in 0..(Width - 1) : Bit(v, b) = 1}
<1>1. PICK f : Sums(f, bits) /\ NumberOf(bits) = f[Width]
  <2> HIDE DEF bits
  <2> QED
    BY NumberOfSums
<1> DEFINE S == {w \in Nat : w <= Width => f[w] = v % TwoTo[w]}
<1>2. 0 \in S
  BY <1>1, TwoToStep DEF Sums
<1>3. ASSUME NEW w \in Nat, w \in S PROVE w + 1 \in S
  <2> SUFFICES ASSUME w + 1 <= Width PROVE f[w + 1] = v % TwoTo[w + 1]
    OBVIOUS
  <2>1. w <= Width /\ w \in 0..(Width - 1)
    BY Base64Assumption
  <2>2. f[w] = v % TwoTo[w]
    BY <1>3, <2>1
  <2>3. w \in bits <=> Bit(v, w) = 1
    BY <2>1
  <2>4. f[w + 1] = f[w] + (IF w \in bits THEN TwoTo[w] ELSE 0)
    BY <1>1 DEF Sums
  <2> HIDE DEF bits
  <2> QED
    BY <2>2, <2>3, <2>4, RemainderStep
<1>4. Nat \subseteq S
  <2> HIDE DEF S
  <2> QED
    BY <1>2, <1>3, Induction
<1>5. f[Width] = v % TwoTo[Width]
  BY <1>4, Base64Assumption
<1>6. v % TwoTo[Width] = v
  BY Base64Assumption, TwoToType, QuotientOfLess DEF Modulus
<1> QED
  BY <1>1, <1>5, <1>6

----------------------------------------------------------------------------
(* Decoding.                                                               *)

LEMMA DecodeType ==
  ASSUME NEW s
  PROVE  Decode(s) \in Nat \cup {BadBase64}
<1>1. \A bits : NumberOf(bits) \in Nat
  <2> SUFFICES ASSUME NEW bits PROVE NumberOf(bits) \in Nat
    OBVIOUS
  <2>1. PICK f : Sums(f, bits) /\ NumberOf(bits) = f[Width]
    BY NumberOfSums
  <2> QED
    BY <2>1, Base64Assumption DEF Sums
<1> QED
  BY <1>1 DEF Decode

\* How many digits a number gets.
LEMMA Digits ==
  ASSUME NEW v \in Nat, v < Modulus
  PROVE  /\ NumDigits(v) \in 1..Width
         /\ v < TwoTo[Bits * NumDigits(v)]
         /\ Bits * (NumDigits(v) - 1) < Width
<1> DEFINE Enough(k) == /\ v < TwoTo[Bits * k]
                        /\ k > 1 => v >= TwoTo[Bits * (k - 1)]
           T == {k \in Nat \ {0} : v < TwoTo[Bits * k]}
<1>1. Bits \in Nat \ {0} /\ Width \in Nat \ {0}
  BY Base64Assumption
<1>2. Width \in T
  <2>1. Bits * Width \in Nat /\ Width <= Bits * Width
    BY <1>1
  <2>2. TwoTo[Width] <= TwoTo[Bits * Width] /\ TwoTo[Width] \in Nat /\ TwoTo[Bits * Width] \in Nat
    BY <1>1, <2>1, TwoToMonotonic, TwoToType
  <2> QED
    BY <1>1, <2>2 DEF Modulus
<1>3. PICK k \in T : \A j \in T : k <= j
  <2>1. T \in SUBSET Nat /\ T # {}
    BY <1>2
  <2> HIDE DEF T
  <2> QED
    BY <2>1, LeastElement
<1>4. k \in 1..Width /\ Enough(k)
  <2>1. k \in Nat \ {0} /\ k <= Width /\ v < TwoTo[Bits * k]
    BY <1>2, <1>3
  <2>2. ASSUME k > 1 PROVE v >= TwoTo[Bits * (k - 1)]
    <3>1. k - 1 \in Nat \ {0} /\ k - 1 \notin T
      BY <1>3, <2>1, <2>2
    <3>2. Bits * (k - 1) \in Nat
      BY <1>1, <3>1
    <3>3. TwoTo[Bits * (k - 1)] \in Nat
      BY <3>2, TwoToType
    <3> QED
      BY <3>1, <3>3
  <2> QED
    BY <1>1, <2>1, <2>2
<1>5. NumDigits(v) = CHOOSE j \in 1..Width : Enough(j)
  BY DEF NumDigits
<1> DEFINE n == NumDigits(v)
<1>6. n \in 1..Width /\ Enough(n)
  <2> HIDE DEF Enough
  <2> QED
    BY <1>4, <1>5
<1> HIDE DEF n
<1>7. Bits * (n - 1) < Width
  <2>1. CASE n = 1
    BY <1>1, <2>1
  <2>2. CASE n > 1
    <3>1. n - 1 \in Nat
      BY <1>6
    <3>2. Bits * (n - 1) \in Nat
      BY <1>1, <3>1
    <3>3. TwoTo[Bits * (n - 1)] <= v /\ v < TwoTo[Width]
      BY <1>6, <2>2 DEF Modulus
    <3>4. ~(TwoTo[Width] <= TwoTo[Bits * (n - 1)])
      <4>1. TwoTo[Bits * (n - 1)] \in Nat /\ TwoTo[Width] \in Nat
        BY <1>1, <3>2, TwoToType
      <4> QED
        BY <3>3, <4>1
    <3>5. ~(Width <= Bits * (n - 1))
      BY <1>1, <3>2, <3>4, TwoToMonotonic
    <3> QED
      BY <1>1, <3>2, <3>5
  <2> QED
    BY <1>6, <2>1, <2>2
<1> QED
  BY <1>6, <1>7 DEF n

\* The i-th character of s is the digit of v at its place.
IsDigitOf(s, i, v) ==
  LET m == Bits * (Len(s) - i)
  IN  m \in 0..(Width - 1) /\ s[i] = (v \div TwoTo[m]) % Base

\* Shifting a digit of a number that the type can hold loses nothing.
LEMMA DigitFits ==
  ASSUME NEW v \in Nat, v < Modulus, NEW s \in Seq(Int), NEW i \in 1..Len(s), IsDigitOf(s, i, v)
  PROVE  LET m == Bits * (Len(s) - i)
         IN  /\ s[i] \in Digit
             /\ Shifted(s, i) = s[i] * TwoTo[m]
             /\ ~LosesBits(s, i)
<1> DEFINE m == Bits * (Len(s) - i)
           p == TwoTo[m]
           digit == s[i]
<1>1. Bits \in Nat \ {0} /\ Width \in Nat \ {0}
  BY Base64Assumption
<1>2. m \in Nat /\ m < Width /\ digit = (v \div p) % Base
  BY <1>1 DEF IsDigitOf
<1>3. p \in Nat \ {0} /\ Base \in Nat \ {0} /\ Modulus \in Nat \ {0}
  <2> HIDE DEF m
  <2> QED
    BY <1>1, <1>2, TwoToType DEF Base, Modulus
<1>4. Shift(s, i) = m
  <2>1. Shift(s, i) = m % Width
    BY DEF Shift
  <2> HIDE DEF m
  <2> QED
    BY <1>1, <1>2, <2>1, QuotientOfLess
<1>5. Shifted(s, i) = (digit * p) % Modulus
  BY <1>4 DEF Shifted
<1>6. LosesBits(s, i) <=> Shifted(s, i) \div p # digit
  BY <1>4 DEF LosesBits
<1> HIDE DEF p, m, digit
<1>7. v \div p \in Nat /\ digit \in Nat /\ digit < Base /\ digit <= v \div p
  <2>1. v \div p \in Nat
    BY <1>3, Division
  <2>2. \A a \in Nat, b \in Nat \ {0} : a % b \in Nat /\ a % b < b /\ a % b <= a
    OBVIOUS
  <2> QED
    BY <1>2, <1>3, <2>1, <2>2
<1>8. digit * p \in Nat /\ digit * p < Modulus
  <2>1. p * (v \div p) <= v
    <3>1. v = p * (v \div p) + (v % p) /\ v % p \in Nat
      BY <1>3, Division
    <3> QED
      BY <1>3, <1>7, <3>1
  <2>2. \A a, b, c \in Nat : a <= b => a * c \in Nat /\ c * b \in Nat /\ a * c <= c * b
    BY Z3
  <2>3. digit * p \in Nat /\ p * (v \div p) \in Nat /\ digit * p <= p * (v \div p)
    BY <1>3, <1>7, <2>2
  <2> QED
    BY <1>3, <2>1, <2>3
<1>9. Shifted(s, i) = digit * p
  BY <1>3, <1>5, <1>8, QuotientOfLess
<1>10. ~LosesBits(s, i)
  <2>1. (p * digit + 0) \div p = digit /\ p * digit + 0 = digit * p
    BY <1>3, <1>7, Quotient
  <2> QED
    BY <1>6, <1>9, <2>1
<1>11. digit \in Digit
  BY <1>3, <1>7 DEF Digit
<1> QED
  BY <1>9, <1>10, <1>11 DEF p, m, digit

\* s writes v: each character is its digit, and there are enough of them.
Writes(s, v) ==
  /\ v < TwoTo[Bits * Len(s)]
  /\ \A i \in 1..Len(s) : IsDigitOf(s, i, v)

\* Each bit of a number is set by the digit that holds it, and no digit sets a
\* bit that the number has not.
LEMMA DigitsSetBits ==
  ASSUME NEW v \in Nat, v < Modulus, NEW s \in Seq(Int), Writes(s, v)
  PROVE  SetBits(s) = {b \in 0..(Width - 1) : Bit(v, b) = 1}
<1> DEFINE n == Len(s)
           m(i) == Bits * (n - i)
<1>1. Bits \in Nat \ {0} /\ Width \in Nat \ {0}
  BY Base64Assumption
<1>2. n \in Nat /\ v < TwoTo[Bits * n]
  BY DEF Writes
<1>3. ASSUME NEW i \in 1..n
      PROVE  /\ m(i) \in Nat
             /\ s[i] = (v \div TwoTo[m(i)]) % Base
             /\ Shifted(s, i) = s[i] * TwoTo[m(i)]
  <2>1. IsDigitOf(s, i, v)
    BY DEF Writes
  <2> QED
    BY <1>1, <2>1, DigitFits DEF IsDigitOf
<1>4. ASSUME NEW i \in 1..n, NEW b \in 0..(Width - 1)
      PROVE  Bit(Shifted(s, i), b) = IF m(i) <= b /\ b < m(i) + Bits THEN Bit(v, b) ELSE 0
  <2> DEFINE mm == m(i)
             x == v \div TwoTo[mm]
             dd == x % Base
  <2>1. mm \in Nat /\ Shifted(s, i) = dd * TwoTo[mm]
    BY <1>3
  <2>2. TwoTo[mm] \in Nat \ {0} /\ Base = TwoTo[Bits] /\ Base \in Nat \ {0}
    <3> HIDE DEF mm
    <3> QED
      BY <1>1, <2>1, TwoToType DEF Base
  <2> HIDE DEF mm, n
  <2>3. x \in Nat
    BY <2>2, Division
  <2>4. dd \in Nat /\ dd < TwoTo[Bits]
    <3> HIDE DEF x
    <3> QED
      BY <2>2, <2>3, Division
  <2> HIDE DEF x, dd
  <2>5. b < mm => Bit(Shifted(s, i), b) = 0
    BY <2>1, <2>4, ShiftedBit
  <2>6. ASSUME b >= mm PROVE Bit(Shifted(s, i), b) = Bit(dd, b - mm)
    BY <2>1, <2>4, <2>6, ShiftedBit
  <2>7. ASSUME b >= mm + Bits PROVE Bit(Shifted(s, i), b) = 0
    <3>1. b - mm \in Nat /\ Bits <= b - mm /\ b >= mm
      BY <1>1, <2>1, <2>7
    <3>2. Bit(dd, b - mm) = 0
      BY <1>1, <2>4, <3>1, BitBelow
    <3> QED
      BY <2>6, <3>1, <3>2
  <2>8. ASSUME b >= mm, b < mm + Bits PROVE Bit(Shifted(s, i), b) = Bit(v, b)
    <3>1. b - mm \in Nat /\ b - mm < Bits /\ b = mm + (b - mm)
      BY <1>1, <2>1, <2>8
    <3>2. Bit(dd, b - mm) = Bit(x, b - mm)
      BY <1>1, <2>2, <2>3, <3>1, RemainderBit DEF dd
    <3>3. Bit(x, b - mm) = Bit(v, b)
      <4> DEFINE c == b - mm
      <4>1. TwoTo[b] = TwoTo[mm] * TwoTo[c] /\ TwoTo[c] \in Nat \ {0}
        <5>1. c \in Nat /\ b = mm + c
          BY <3>1
        <5> HIDE DEF c
        <5> QED
          BY <2>1, <5>1, TwoToSum, TwoToType
      <4> HIDE DEF c
      <4>2. DividesInTwo(v, TwoTo[mm], TwoTo[c])
        BY <2>2, <4>1, ProductQuotient
      <4>3. v \div TwoTo[b] = x \div TwoTo[c]
        BY <4>1, <4>2 DEF DividesInTwo, x
      <4> QED
        BY <4>3 DEF Bit, c
    <3> QED
      BY <2>6, <2>8, <3>2, <3>3
  <2>9. mm = m(i)
    BY DEF mm
  <2> HIDE DEF m
  <2> QED
    BY <1>1, <2>1, <2>5, <2>7, <2>8, <2>9
<1>5. ASSUME NEW b \in 0..(Width - 1), Bit(v, b) = 1
      PROVE  \E i \in 1..n : m(i) <= b /\ b < m(i) + Bits
  <2> HIDE DEF n
  <2>1. b < Bits * n
    <3>1. Bits * n \in Nat
      BY <1>1, <1>2
    <3>2. ~(Bits * n <= b)
      BY <1>2, <1>5, <3>1, BitBelow
    <3> QED
      BY <3>1, <3>2
  <2> DEFINE q == b \div Bits
  <2>2. q \in Nat /\ Bits * q <= b /\ b < Bits * q + Bits
    BY <1>1, Division
  <2> HIDE DEF q
  <2>3. q < n
    <3>1. \A a, c, d \in Nat : c <= d => a * c <= a * d
      BY Z3
    <3>2. n <= q => Bits * n <= Bits * q
      BY <1>1, <1>2, <2>2, <3>1
    <3> QED
      BY <1>1, <1>2, <2>1, <2>2, <3>2
  <2>4. n - q \in 1..n /\ n - (n - q) = q
    BY <1>2, <2>2, <2>3
  <2>5. m(n - q) = Bits * q
    BY <2>4
  <2> HIDE DEF m
  <2> QED
    BY <2>2, <2>4, <2>5
<1>6. ASSUME NEW b \in 0..(Width - 1)
      PROVE  (\E i \in 1..n : Bit(Shifted(s, i), b) = 1) <=> Bit(v, b) = 1
  <2> HIDE DEF n, m
  <2> QED
    BY <1>4, <1>5
<1>7. SetBits(s) = {b \in 0..(Width - 1) : \E i \in 1..n : Bit(Shifted(s, i), b) = 1}
  BY DEF SetBits, Bit
<1> HIDE DEF n
<1> QED
  BY <1>6, <1>7

LEMMA WrittenDecodes ==
  ASSUME NEW v \in Nat, v < Modulus, NEW s \in Seq(Int), Writes(s, v)
  PROVE  Decode(s) = v
<1>1. \A i \in 1..Len(s) : s[i] \in Digit /\ ~LosesBits(s, i)
  BY DigitFits DEF Writes
<1>2. Decode(s) = NumberOf(SetBits(s))
  BY <1>1 DEF Decode
<1> QED
  BY <1>2, DigitsSetBits, BitsMakeNumber

\* A string that is not too long has no character that is shifted by the width of
\* the type or more.
LEMMA ShiftsInWidth ==
  ASSUME NEW k \in Nat \ {0}, Bits * (k - 1) < Width, NEW n \in 0..k, NEW i \in 1..n
  PROVE  Bits * (n - i) \in 0..(Width - 1)
<1>1. Bits \in Nat \ {0} /\ Width \in Nat \ {0}
  BY Base64Assumption
<1>2. n - i \in Nat /\ k - 1 \in Nat /\ n - i <= k - 1
  OBVIOUS
<1>3. \A a, b, c \in Nat : b <= c => a * b \in Nat /\ a * c \in Nat /\ a * b <= a * c
  BY Z3
<1>4. Bits * (n - i) \in Nat /\ Bits * (k - 1) \in Nat /\ Bits * (n - i) <= Bits * (k - 1)
  BY <1>1, <1>2, <1>3
<1> QED
  BY <1>1, <1>4

\* What b64_encode makes of a number that the type can hold.
LEMMA EncodeWrites ==
  ASSUME NEW v \in Nat, v < Modulus
  PROVE  /\ Encode(v) \in Seq(Int)
         /\ Len(Encode(v)) = NumDigits(v)
         /\ Writes(Encode(v), v)
<1> DEFINE n == NumDigits(v)
           s == Encode(v)
           digit(i) == (v \div TwoTo[Bits * (n - i)]) % Base
<1>1. n \in 1..Width /\ v < TwoTo[Bits * n] /\ Bits * (n - 1) < Width
  BY Digits
<1>2. Bits \in Nat \ {0} /\ Width \in Nat \ {0}
  BY Base64Assumption
<1>3. s = [i \in 1..n |-> digit(i)]
  BY DEF Encode
<1> HIDE DEF n, s
<1>4. ASSUME NEW i \in 1..n PROVE Bits * (n - i) \in 0..(Width - 1) /\ digit(i) \in Int
  <2>1. Bits * (n - i) \in 0..(Width - 1)
    <3>1. n \in Nat \ {0} /\ n \in 0..n
      BY <1>1, <1>2
    <3> QED
      BY <1>1, <3>1, ShiftsInWidth
  <2>2. TwoTo[Bits * (n - i)] \in Nat \ {0} /\ Base \in Nat \ {0}
    BY <1>2, <2>1, TwoToType DEF Base
  <2>3. \A a \in Nat, b, c \in Nat \ {0} : (a \div b) % c \in Int
    OBVIOUS
  <2> QED
    BY <2>1, <2>2, <2>3
<1>5. n \in Nat
  BY <1>1, <1>2
<1>6. s \in Seq(Int) /\ Len(s) = n
  <2> HIDE DEF digit
  <2> QED
    BY <1>3, <1>4, <1>5
<1>7. \A i \in 1..n : s[i] = digit(i)
  <2> HIDE DEF digit
  <2> QED
    BY <1>3
<1>8. Writes(s, v)
  BY <1>1, <1>4, <1>6, <1>7 DEF Writes, IsDigitOf
<1> QED
  BY <1>6, <1>8 DEF n, s

\* The digits of a number that the type can hold are a string of digits.
LEMMA EncodeType ==
  ASSUME NEW v \in Nat, v < Modulus
  PROVE  Encode(v) \in Seq(Int)
BY EncodeWrites

\* What is written is what is read: for every number of the integer type, and
\* whatever the width of the type and the number of bits to a digit.
THEOREM DecodeInverts ==
  \A v \in Nat : v < Modulus => Decode(Encode(v)) = v
BY EncodeWrites, WrittenDecodes

----------------------------------------------------------------------------
(* Strings that no encoder wrote.                                          *)

\* The values of the beginnings of a string of digits.
Values(f, s) ==
  /\ f \in [0..Len(s) -> Nat]
  /\ f[0] = 0
  /\ \A i \in 1..Len(s) : f[i] = f[i - 1] * Base + s[i]

LEMMA PositionalValues ==
  ASSUME NEW s \in Seq(Int), \A i \in 1..Len(s) : s[i] \in Digit
  PROVE  \E f : Values(f, s) /\ Positional(s) = f[Len(s)]
<1> DEFINE n == Len(s)
           digit(i) == IF i <= n THEN s[i] ELSE 0
           zero == 0
           g == [i \in Nat |-> [x \in Nat |-> x * Base + digit(i + 1)]]
           step(f) == [i \in 0..n |-> IF i = 0 THEN 0 ELSE f[i - 1] * Base + s[i]]
           sum == CHOOSE f : f = step(f)
<1>1. n \in Nat /\ Base \in Nat \ {0}
  BY Base64Assumption, TwoToType DEF Base
<1>2. \A i \in 1..n : s[i] \in Nat
  BY <1>1 DEF Digit
<1>3. \A i \in Nat : digit(i + 1) \in Nat
  BY <1>1, <1>2
<1>4. zero \in Nat /\ g \in [Nat -> [Nat -> Nat]]
  <2> HIDE DEF digit
  <2> QED
    BY <1>1, <1>3
<1>5. PICK f : Iterates(f, Nat, zero, g)
  <2> HIDE DEF zero, g
  <2> QED
    BY <1>4, Recursion
<1>6. \A i \in Nat : f[i] \in Nat /\ f[i + 1] = f[i] * Base + digit(i + 1)
  <2> HIDE DEF digit
  <2> QED
    BY <1>1, <1>3, <1>5 DEF Iterates
<1> DEFINE h == [i \in 0..n |-> f[i]]
<1>7. h \in [0..n -> Nat] /\ h[0] = 0
  BY <1>1, <1>5, <1>6 DEF Iterates
<1>8. ASSUME NEW i \in 1..n PROVE h[i] = h[i - 1] * Base + s[i]
  <2>1. i - 1 \in Nat /\ (i - 1) + 1 = i /\ i \in 0..n /\ i - 1 \in 0..n /\ i <= n
    BY <1>1
  <2>2. digit(i) = s[i]
    BY <2>1
  <2> HIDE DEF digit
  <2> QED
    BY <1>6, <2>1, <2>2
<1> HIDE DEF h
<1>9. h = step(h)
  BY <1>1, <1>7, <1>8
<1>10. sum = step(sum)
  <2> HIDE DEF step
  <2> QED
    BY <1>9
<1>11. Positional(s) = sum[n]
  BY DEF Positional
<1> HIDE DEF sum
<1>12. sum[0] = 0
  BY <1>1, <1>10
<1>13. \A i \in 1..n : sum[i] = sum[i - 1] * Base + s[i]
  BY <1>1, <1>10
<1>14. sum \in [0..n -> Nat]
  <2> DEFINE S == {i \in Nat : i <= n => sum[i] \in Nat}
  <2>1. 0 \in S
    BY <1>12
  <2>2. ASSUME NEW i \in Nat, i \in S PROVE i + 1 \in S
    <3> SUFFICES ASSUME i + 1 <= n PROVE sum[i + 1] \in Nat
      OBVIOUS
    <3>1. i + 1 \in 1..n /\ (i + 1) - 1 = i /\ sum[i] \in Nat
      BY <1>1, <2>2
    <3>2. sum[i + 1] = sum[i] * Base + s[i + 1] /\ s[i + 1] \in Nat
      BY <1>2, <1>13, <3>1
    <3>3. sum[i] * Base \in Nat
      BY <1>1, <3>1
    <3> QED
      BY <3>2, <3>3
  <2>3. Nat \subseteq S
    <3> HIDE DEF S
    <3> QED
      BY <2>1, <2>2, Induction
  <2>4. \A i \in 0..n : sum[i] \in Nat
    BY <1>1, <2>3
  <2>5. DOMAIN sum = 0..n /\ sum = [i \in 0..n |-> sum[i]]
    BY <1>10
  <2> QED
    BY <2>4, <2>5
<1>15. Values(sum, s)
  BY <1>12, <1>13, <1>14 DEF Values
<1> QED
  BY <1>11, <1>15

\* Dividing the value of a string by a power of the base gives the value of the
\* string without its last digits.
LEMMA LeadingValue ==
  ASSUME NEW s \in Seq(Int), \A i \in 1..Len(s) : s[i] \in Digit, NEW f, Values(f, s)
  PROVE  \A j \in 0..Len(s) : f[Len(s)] \div TwoTo[Bits * j] = f[Len(s) - j]
<1> DEFINE n == Len(s)
           v == f[n]
           S == {j \in Nat : j <= n => v \div TwoTo[Bits * j] = f[n - j]}
<1>1. n \in Nat /\ Bits \in Nat \ {0} /\ Base \in Nat \ {0} /\ Base = TwoTo[Bits]
  BY Base64Assumption, TwoToType DEF Base
<1>2. v \in Nat
  BY <1>1 DEF Values
<1>3. 0 \in S
  <2>1. Bits * 0 = 0 /\ n - 0 = n /\ TwoTo[0] = 1
    BY <1>1, TwoToStep
  <2> HIDE DEF v
  <2>2. v \div 1 = v
    BY <1>2
  <2> QED
    BY <2>1, <2>2 DEF v
<1>4. ASSUME NEW j \in Nat, j \in S PROVE j + 1 \in S
  <2> SUFFICES ASSUME j + 1 <= n PROVE v \div TwoTo[Bits * (j + 1)] = f[n - (j + 1)]
    OBVIOUS
  <2> DEFINE i == n - j
             p == TwoTo[Bits * j]
  <2>1. i \in 1..n /\ i - 1 = n - (j + 1) /\ i - 1 \in 0..n
    BY <1>1
  <2>2. v \div p = f[i]
    BY <1>1, <1>4
  <2> HIDE DEF i, v
  <2>3. f[i] = f[i - 1] * Base + s[i] /\ f[i - 1] \in Nat /\ s[i] \in Nat /\ s[i] < Base
    <3>1. s[i] \in 0..(Base - 1)
      BY <2>1 DEF Digit
    <3>2. f[i] = f[i - 1] * Base + s[i] /\ f[i - 1] \in Nat
      BY <2>1 DEF Values
    <3> QED
      BY <1>1, <3>1, <3>2
  <2>4. Bits * j \in Nat /\ Bits * (j + 1) = Bits * j + Bits
    BY <1>1
  <2>5. p \in Nat \ {0} /\ TwoTo[Bits * (j + 1)] = p * Base
    BY <1>1, <2>4, TwoToSum, TwoToType
  <2> HIDE DEF p
  <2>6. v \div (p * Base) = (v \div p) \div Base
    <3>1. DividesInTwo(v, p, Base)
      BY <1>1, <1>2, <2>5, ProductQuotient
    <3> QED
      BY <3>1 DEF DividesInTwo
  <2>7. (Base * f[i - 1] + s[i]) \div Base = f[i - 1]
    BY <1>1, <2>3, Quotient
  <2>8. f[i - 1] * Base = Base * f[i - 1]
    BY <1>1, <2>3
  <2> QED
    BY <2>1, <2>2, <2>3, <2>5, <2>6, <2>7, <2>8
<1>5. Nat \subseteq S
  <2> HIDE DEF S
  <2> QED
    BY <1>3, <1>4, Induction
<1> QED
  BY <1>1, <1>5

\* A string of digits writes its value.
LEMMA DigitsWrite ==
  ASSUME NEW s \in Seq(Int), \A i \in 1..Len(s) : s[i] \in Digit,
         \A i \in 1..Len(s) : Bits * (Len(s) - i) \in 0..(Width - 1)
  PROVE  /\ Positional(s) \in Nat
         /\ Writes(s, Positional(s))
         /\ Len(s) > 0 => Positional(s) \div TwoTo[Bits * (Len(s) - 1)] = s[1]
<1> DEFINE n == Len(s)
<1>1. PICK f : Values(f, s) /\ Positional(s) = f[n]
  BY PositionalValues
<1> DEFINE v == f[n]
<1>2. n \in Nat /\ Bits \in Nat \ {0} /\ Base \in Nat \ {0}
  BY Base64Assumption, TwoToType DEF Base
<1>3. v \in Nat
  BY <1>1, <1>2 DEF Values
<1>4. \A j \in 0..n : v \div TwoTo[Bits * j] = f[n - j]
  BY <1>1, LeadingValue
<1>5. ASSUME NEW i \in 1..n PROVE v \div TwoTo[Bits * (n - i)] = f[i]
  <2>1. n - i \in 0..n /\ n - (n - i) = i
    BY <1>2
  <2> HIDE DEF v, n
  <2> QED
    BY <1>4, <2>1
<1>6. v < TwoTo[Bits * n]
  <2>1. v \div TwoTo[Bits * n] = 0
    BY <1>1, <1>2, <1>4 DEF Values
  <2>2. Bits * n \in Nat
    BY <1>2
  <2>3. TwoTo[Bits * n] \in Nat \ {0}
    BY <2>2, TwoToType
  <2> HIDE DEF v, n
  <2> DEFINE p == TwoTo[Bits * n]
  <2>4. v = p * (v \div p) + (v % p) /\ v % p < p /\ v % p \in Nat
    <3>1. p \in Nat \ {0}
      BY <2>3
    <3> HIDE DEF p
    <3> QED
      BY <1>3, <3>1, Division
  <2> QED
    BY <2>1, <2>3, <2>4
<1>7. ASSUME NEW i \in 1..n PROVE IsDigitOf(s, i, v)
  <2>1. f[i] = f[i - 1] * Base + s[i] /\ f[i - 1] \in Nat /\ s[i] \in Nat /\ s[i] < Base
    <3>1. i - 1 \in 0..n
      BY <1>2
    <3>2. s[i] \in 0..(Base - 1)
      BY DEF Digit
    <3>3. f[i] = f[i - 1] * Base + s[i] /\ f[i - 1] \in Nat
      BY <1>1, <3>1 DEF Values
    <3> QED
      BY <1>2, <3>2, <3>3
  <2>2. (Base * f[i - 1] + s[i]) % Base = s[i] /\ Base * f[i - 1] = f[i - 1] * Base
    <3>1. f[i - 1] \in Nat /\ s[i] \in Nat /\ s[i] < Base
      BY <2>1
    <3>2. (Base * f[i - 1] + s[i]) % Base = s[i]
      <4> HIDE DEF v, n
      <4> QED
        BY <1>2, <3>1, Quotient
    <3>3. \A a, b \in Nat : a * b = b * a
      OBVIOUS
    <3> QED
      BY <1>2, <3>1, <3>2, <3>3
  <2>3. (v \div TwoTo[Bits * (n - i)]) % Base = s[i]
    <3> HIDE DEF v, n
    <3> QED
      BY <1>5, <2>1, <2>2
  <2> QED
    BY <2>3 DEF IsDigitOf
<1>8. ASSUME n > 0 PROVE v \div TwoTo[Bits * (n - 1)] = s[1]
  <2>1. 1 \in 1..n
    BY <1>2, <1>8
  <2>2. f[1] = f[1 - 1] * Base + s[1] /\ f[0] = 0 /\ s[1] \in Nat
    BY <1>1, <1>2, <2>1 DEF Values, Digit
  <2>3. f[1] = s[1]
    BY <1>2, <2>2
  <2> HIDE DEF v, n
  <2> QED
    BY <1>5, <2>1, <2>3
<1> QED
  BY <1>1, <1>3, <1>6, <1>7, <1>8 DEF Writes

\* Of a number too large for the type the first digit loses bits.
LEMMA FirstDigitLosesBits ==
  ASSUME NEW s \in Seq(Int), Len(s) > 0, s[1] \in Digit,
         Bits * (Len(s) - 1) \in 0..(Width - 1),
         NEW v \in Nat, v \div TwoTo[Bits * (Len(s) - 1)] = s[1], ~(v < Modulus)
  PROVE  LosesBits(s, 1)
<1> DEFINE m == Bits * (Len(s) - 1)
           p == TwoTo[m]
           q == TwoTo[Width - m]
           digit == s[1]
<1> SUFFICES ASSUME ~LosesBits(s, 1) PROVE FALSE
  OBVIOUS
<1>1. Width \in Nat \ {0} /\ m \in Nat /\ m < Width /\ Width - m \in Nat
  BY Base64Assumption
<1>2. Shift(s, 1) = m
  <2>1. Shift(s, 1) = m % Width
    BY DEF Shift
  <2> HIDE DEF m
  <2> QED
    BY <1>1, <2>1, QuotientOfLess
<1>3. digit = ((digit * p) % Modulus) \div p
  BY <1>2 DEF LosesBits, Shifted
<1>4. v \div p = digit /\ digit \in Nat
  BY Base64Assumption, TwoToType DEF Digit, Base
<1> HIDE DEF m, digit
<1>5. p \in Nat \ {0} /\ q \in Nat \ {0} /\ Modulus = p * q
  <2>1. Width = m + (Width - m)
    BY <1>1
  <2>2. TwoTo[m + (Width - m)] = p * q
    BY <1>1, TwoToSum
  <2> QED
    BY <1>1, <2>1, <2>2, TwoToType DEF Modulus
<1> HIDE DEF p, q
<1>6. digit < q
  <2>1. digit * p \in Nat
    BY <1>4, <1>5
  <2>2. ((digit * p) % (p * q)) \div p = ((digit * p) \div p) % q
    <3>1. DividesInTwo(digit * p, p, q)
      BY <1>5, <2>1, ProductQuotient
    <3> QED
      BY <3>1 DEF DividesInTwo
  <2>3. (digit * p) \div p \in Nat
    BY <1>5, <2>1, Division
  <2>4. ((digit * p) \div p) % q < q
    BY <1>5, <2>3, Division
  <2> QED
    BY <1>3, <1>5, <2>2, <2>4
<1>7. v < p * digit + p
  <2>1. v = p * (v \div p) + (v % p) /\ v % p < p /\ v % p \in Nat
    BY <1>5, Division
  <2> QED
    BY <1>4, <1>5, <2>1
<1>8. p * digit + p <= p * q
  <2>1. digit + 1 <= q /\ digit + 1 \in Nat
    BY <1>4, <1>5, <1>6
  <2>2. \A a, b, c \in Nat : b <= c => a * b <= a * c
    BY Z3
  <2>3. p * (digit + 1) <= p * q
    BY <1>5, <2>1, <2>2
  <2> QED
    BY <1>4, <1>5, <2>3
<1>9. p * digit + p \in Nat /\ p * q \in Nat
  BY <1>4, <1>5
<1> QED
  BY <1>5, <1>7, <1>8, <1>9

\* Whatever stands in an index: a string of digits no longer than the largest value
\* of the type is taken for the number it writes, and refused if the type cannot
\* hold that; any other character is refused.
THEOREM DecodeIsExact ==
  \A s \in Seq(Int) : DecodesExactly(s)
<1> SUFFICES ASSUME NEW s \in Seq(Int) PROVE DecodesExactly(s)
  OBVIOUS
<1> DEFINE n == Len(s)
           v == Positional(s)
           legal == \A i \in 1..n : s[i] \in Digit
<1>1. ASSUME ~legal PROVE Decode(s) = BadBase64
  BY <1>1 DEF Decode
<1>2. ASSUME legal, n <= Longest
      PROVE  Decode(s) = IF v < Modulus THEN v ELSE BadBase64
  <2>1. \A i \in 1..n : Bits * (n - i) \in 0..(Width - 1)
    <3>1. Modulus \in Nat \ {0} /\ Modulus - 1 \in Nat /\ Modulus - 1 < Modulus
      BY Base64Assumption, TwoToType DEF Modulus
    <3>2. Longest = NumDigits(Modulus - 1)
      BY <3>1, EncodeWrites DEF Longest
    <3>3. Longest \in Nat \ {0} /\ Bits * (Longest - 1) < Width
      BY <3>1, <3>2, Digits, Base64Assumption
    <3>4. n \in 0..Longest
      BY <1>2, <3>3
    <3> HIDE DEF n
    <3> QED
      BY <3>3, <3>4, ShiftsInWidth
  <2>2. v \in Nat /\ Writes(s, v) /\ (n > 0 => v \div TwoTo[Bits * (n - 1)] = s[1])
    BY <1>2, <2>1, DigitsWrite
  <2> HIDE DEF v
  <2>3. ASSUME v < Modulus PROVE Decode(s) = v
    BY <2>2, <2>3, WrittenDecodes
  <2>4. ASSUME ~(v < Modulus) PROVE Decode(s) = BadBase64
    <3>1. n > 0
      <4>1. SUFFICES ASSUME n = 0 PROVE FALSE
        OBVIOUS
      <4>2. v < TwoTo[0] /\ TwoTo[0] = 1
        BY <2>2, <4>1, Base64Assumption, TwoToStep DEF Writes
      <4>3. Modulus \in Nat \ {0}
        BY Base64Assumption, TwoToType DEF Modulus
      <4> QED
        BY <2>2, <2>4, <4>2, <4>3
    <3>2. 1 \in 1..n /\ s[1] \in Digit
      BY <1>2, <3>1
    <3>3. LosesBits(s, 1)
      BY <2>1, <2>2, <2>4, <3>1, <3>2, FirstDigitLosesBits
    <3> QED
      BY <3>2, <3>3 DEF Decode
  <2> QED
    BY <2>3, <2>4
<1> QED
  BY <1>1, <1>2 DEF DecodesExactly

----------------------------------------------------------------------------
(* The index.                                                              *)

\* The item of a name is the last one in the index that has it.
LEMMA ItemOfName ==
  ASSUME d_indices \in Seq(IndexItem), NEW n, Known(n)
  PROVE  \E i \in 1..Len(d_indices) :
           /\ Item(n) = d_indices[i] /\ d_indices[i].name = n
           /\ \A j \in (i + 1)..Len(d_indices) : d_indices[j].name # n
<1> DEFINE len == Len(d_indices)
           Latest(i) == d_indices[i].name = n /\ \A j \in (i + 1)..len : d_indices[j].name # n
           T == {k \in Nat : len - k \in 1..len /\ d_indices[len - k].name = n}
<1>1. len \in Nat
  OBVIOUS
<1>2. PICK i \in 1..len : d_indices[i].name = n
  BY DEF Known
<1>3. T \in SUBSET Nat /\ T # {}
  <2>1. len - i \in Nat /\ len - (len - i) = i
    BY <1>1, <1>2
  <2>2. len - i \in T
    BY <1>2, <2>1
  <2> QED
    BY <2>2
<1>4. PICK k \in T : \A m \in T : k <= m
  <2> HIDE DEF T
  <2> QED
    BY <1>3, LeastElement
<1>5. len - k \in 1..len /\ Latest(len - k)
  <2>1. k \in Nat /\ len - k \in 1..len /\ d_indices[len - k].name = n
    BY <1>4
  <2>2. ASSUME NEW j \in (len - k + 1)..len PROVE d_indices[j].name # n
    <3>1. len - j \in Nat /\ len - j < k /\ len - (len - j) = j /\ j \in 1..len
      BY <1>1, <2>1
    <3>2. len - j \notin T
      <4> HIDE DEF T, len
      <4> QED
        BY <1>4, <2>1, <3>1
    <3> QED
      BY <3>1, <3>2
  <2> QED
    BY <2>1, <2>2
<1>6. Item(n) = d_indices[CHOOSE j \in 1..len : Latest(j)]
  BY DEF Item
<1> DEFINE last == CHOOSE j \in 1..len : Latest(j)
<1>7. last \in 1..len /\ Latest(last)
  <2> HIDE DEF Latest
  <2> QED
    BY <1>5
<1> QED
  BY <1>6, <1>7

LEMMA ItemType ==
  ASSUME d_indices \in Seq(IndexItem), NEW n, Known(n)
  PROVE  /\ Item(n) \in IndexItem
         /\ Item(n).offset \in Nat /\ Item(n).size \in Nat
<1>1. PICK i \in 1..Len(d_indices) : Item(n) = d_indices[i]
  BY ItemOfName
<1>2. Item(n) \in IndexItem
  BY <1>1
<1> QED
  BY <1>2 DEF IndexItem

\* Opening turns an index with no malformed number into items.
LEMMA ItemsType ==
  ASSUME AnyFiles, ~Malformed(Items)
  PROVE  Items \in Seq(IndexItem)
<1>1. Len(indexFile) \in Nat /\ \A i \in 1..Len(indexFile) : indexFile[i].name \in Name
  <2> DEFINE Line == [name : Name, offset : Seq(Int), size : Seq(Int)]
  <2>1. indexFile \in Seq(Line)
    BY DEF AnyFiles
  <2>2. \A line \in Line : line.name \in Name
    OBVIOUS
  <2> HIDE DEF Line
  <2> QED
    BY <2>1, <2>2
<1>2. ASSUME NEW i \in 1..Len(indexFile) PROVE Items[i] \in IndexItem
  <2>1. Items[i] = [name   |-> indexFile[i].name,
                    offset |-> Decode(indexFile[i].offset),
                    size   |-> Decode(indexFile[i].size)]
    BY DEF Items
  <2>2. Len(Items) = Len(indexFile)
    BY <1>1 DEF Items
  <2>3. BadBase64 \notin {Items[i].offset, Items[i].size}
    BY <2>2 DEF Malformed
  <2>4. Items[i].offset \in Nat /\ Items[i].size \in Nat
    BY <2>1, <2>3, DecodeType
  <2> QED
    BY <1>1, <2>1, <2>4 DEF IndexItem
<1>3. Items = [i \in 1..Len(indexFile) |-> Items[i]]
  BY DEF Items
<1> QED
  BY <1>1, <1>2, <1>3

----------------------------------------------------------------------------
(* The archive.                                                            *)

\* The bytes of a chunk that was inflated are those of the archive, each at its
\* position.
LEMMA InflatedBytes ==
  ASSUME AnyFiles, NEW n \in Nat, OnDisk(n)
  PROVE  /\ Inflated(n) \in Seq(Byte)
         /\ Len(Inflated(n)) <= ChunkLen
         /\ ~dzFile.blocks[n + 1].cut => Inflated(n) = dzFile.blocks[n + 1].bytes
         /\ \A q \in 1..Len(Inflated(n)) :
              /\ HasByte(ChunkLen * n + (q - 1))
              /\ Inflated(n)[q] = EntryByte(ChunkLen * n + (q - 1))
<1> DEFINE block == dzFile.blocks[n + 1]
<1>1. /\ n + 1 \in 1..Len(dzFile.blocks)
      /\ block \in [bytes : Seq(Byte), cut : BOOLEAN]
      /\ Len(block.bytes) <= ChunkLen
  <2> DEFINE Block == [bytes : Seq(Byte), cut : BOOLEAN]
  <2>1. dzFile.blocks \in Seq(Block)
    BY DEF AnyFiles, ArchiveFile
  <2> HIDE DEF Block
  <2>2. n + 1 \in 1..Len(dzFile.blocks)
    BY <2>1 DEF OnDisk
  <2>3. block \in Block
    BY <2>1, <2>2
  <2>4. Len(block.bytes) <= ChunkLen
    BY <2>2 DEF AnyFiles, ArchiveFile
  <2> QED
    BY <2>2, <2>3, <2>4 DEF Block
<1>2. block.bytes \in Seq(Byte) /\ Len(block.bytes) \in Nat /\ ChunkLen \in Nat \ {0}
  BY <1>1, DzIstreamAssumption
<1>3. Inflated(n) = IF block.cut THEN SubSeq(block.bytes, 1, Len(block.bytes) - 1) ELSE block.bytes
  BY DEF Inflated
<1> HIDE DEF block
<1>4. /\ Inflated(n) \in Seq(Byte) /\ Len(Inflated(n)) \in Nat
      /\ Len(Inflated(n)) <= Len(block.bytes)
      /\ \A q \in 1..Len(Inflated(n)) : Inflated(n)[q] = block.bytes[q]
  <2>1. CASE block.cut /\ block.bytes # <<>>
    <3> DEFINE l == Len(block.bytes) - 1
    <3>1. l \in 0..Len(block.bytes)
      BY <1>2, <2>1
    <3> HIDE DEF l
    <3>2. /\ SubSeq(block.bytes, 1, l) \in Seq(Byte) /\ Len(SubSeq(block.bytes, 1, l)) = l
          /\ \A q \in 1..l : SubSeq(block.bytes, 1, l)[q] = block.bytes[q]
      BY <1>2, <3>1
    <3> QED
      BY <1>2, <1>3, <2>1, <3>1, <3>2 DEF l
  <2>2. CASE block.bytes = <<>>
    <3>1. Inflated(n) = <<>>
      BY <1>3, <2>2
    <3> QED
      BY <1>2, <2>2, <3>1
  <2>3. CASE ~block.cut
    BY <1>2, <1>3, <2>3
  <2> QED
    BY <2>1, <2>2, <2>3
<1>5. ASSUME NEW q \in 1..Len(Inflated(n))
      PROVE  /\ HasByte(ChunkLen * n + (q - 1))
             /\ Inflated(n)[q] = EntryByte(ChunkLen * n + (q - 1))
  <2>1. q - 1 \in Nat /\ q - 1 < ChunkLen /\ q - 1 < Len(block.bytes) /\ (q - 1) + 1 = q
    BY <1>1, <1>2, <1>4
  <2>2. (ChunkLen * n + (q - 1)) \div ChunkLen = n /\ (ChunkLen * n + (q - 1)) % ChunkLen = q - 1
    BY <1>2, <2>1, Quotient
  <2> QED
    BY <1>4, <2>1, <2>2 DEF HasByte, EntryByte, OnDisk, block
<1>6. Len(Inflated(n)) <= ChunkLen
  BY <1>1, <1>2, <1>4
<1>7. ~block.cut => Inflated(n) = block.bytes
  BY <1>3
<1> QED
  BY <1>4, <1>5, <1>6, <1>7 DEF block

\* A chunk that has a successor is full.
LEMMA FullChunk ==
  ASSUME AnyFiles, NEW n \in Nat, OnDisk(n + 1), Decodes(n + 1)
  PROVE  Len(Inflated(n)) = ChunkLen
<1>1. n + 1 \in 1..Len(dzFile.blocks) /\ n + 1 < Len(dzFile.blocks)
  BY DEF OnDisk, AnyFiles, ArchiveFile
<1>2. Len(dzFile.blocks[n + 1].bytes) = ChunkLen
  BY <1>1 DEF AnyFiles, ArchiveFile
<1>3. ~dzFile.blocks[n + 1].cut
  BY DEF Decodes
<1> QED
  BY <1>2, <1>3 DEF Inflated

----------------------------------------------------------------------------
(* The stream, used by one thread.                                         *)

\* A chunk that cannot be inflated leaves a stream that is not good.
LEMMA ThrowSpoils ==
  ASSUME StreamTypes, NEW n, ReadChunkThrows(n)
  PROVE  /\ StreamTypes' /\ ~r_good'
         /\ rd' = rd /\ r_table' = r_table /\ left' = left /\ dest' = dest
<1>1. /\ getArea' = IF OnDisk(n) THEN [i \in 1..Len(getArea) |-> Junk] ELSE getArea
      /\ r_good' = FALSE
      /\ UNCHANGED <<rd, r_table, d_curChunk, gptr, left, dest>>
  BY DEF ReadChunkThrows
<1>2. getArea \in Seq(Byte \cup {Junk})
  BY DEF StreamTypes
<1>3. [i \in 1..Len(getArea) |-> Junk] \in Seq(Byte \cup {Junk})
  BY <1>2
<1>4. getArea' \in Seq(Byte \cup {Junk})
  BY <1>1, <1>2, <1>3
<1> QED
  BY <1>1, <1>4 DEF StreamTypes

\* A chunk beyond the table leaves a stream that is not good, or no process.
LEMMA UndefinedSpoils ==
  ASSUME StreamTypes, NEW n, ReadChunkUndefined(n)
  PROVE  /\ StreamTypes'
         /\ UNCHANGED <<r_table, d_curChunk, getArea, gptr, left, dest>>
         /\ \/ rd' = "dead" /\ r_good' = r_good
            \/ rd' = rd /\ ~r_good'
BY DEF ReadChunkUndefined, StreamTypes, ReaderPhase

\* The chunk a seek looks for is the one of its offset, if an int can hold it.
LEMMA TargetType ==
  ASSUME NEW offset \in Nat
  PROVE  Target(offset) \in Int
<1> DEFINE q == offset \div ChunkLen
<1>1. q \in Nat
  BY DzIstreamAssumption, Division
<1> HIDE DEF q
<1>2. q % IntMod \in Nat /\ IntMod \in Nat
  BY <1>1, DzIstreamAssumption, Division
<1>3. Narrowed(q) \in Int
  BY <1>2 DEF Narrowed
<1> QED
  BY <1>3 DEF Target, q

LEMMA FittingTarget ==
  ASSUME NEW offset \in Nat, ChunkNumberFits(offset)
  PROVE  Target(offset) = offset \div ChunkLen
<1> DEFINE q == offset \div ChunkLen
<1>1. q \in Nat
  BY DzIstreamAssumption, Division
<1>2. 2 * q < IntMod
  BY DEF ChunkNumberFits
<1> HIDE DEF q
<1>3. q < IntMod /\ IntMod \in Nat \ {0}
  BY <1>1, <1>2, DzIstreamAssumption
<1>4. q % IntMod = q
  BY <1>1, <1>3, QuotientOfLess
<1>5. Narrowed(q) = q
  BY <1>2, <1>4 DEF Narrowed
<1> QED
  BY <1>5 DEF Target, q

\* Inflating a chunk makes the get area follow d_curChunk.
LEMMA InflateFollows ==
  ASSUME AnyFiles, StreamTypes, UNCHANGED dzFile, r_table' = r_table,
         NEW n \in Nat, InTable(n), OnDisk(n), Decodes(n),
         getArea' = Inflated(n), d_curChunk' = n
  PROVE  GetAreaFollows' /\ getArea' \in Seq(Byte \cup {Junk})
<1>1. InTable(n)' /\ OnDisk(n)' /\ Decodes(n)' /\ Inflated(n)' = Inflated(n)
  BY DEF InTable, OnDisk, Decodes, Inflated
<1>2. n # -1
  OBVIOUS
<1>3. GetAreaFollows'
  BY <1>1, <1>2 DEF GetAreaFollows, InTable, OnDisk, Decodes, Inflated
<1>4. Inflated(n) \in Seq(Byte)
  BY InflatedBytes
<1>5. Seq(Byte) \subseteq Seq(Byte \cup {Junk})
  OBVIOUS
<1> QED
  BY <1>3, <1>4, <1>5

\* A seek puts a good stream at the position sought, or leaves one that is not
\* good, or no process.
LEMMA SeekMoves ==
  ASSUME AnyFiles, StreamTypes, GetAreaFollows, UNCHANGED dzFile,
         rd = "open", NEW offset \in Nat, Seek(offset)
  PROVE  /\ StreamTypes' /\ GetAreaFollows'
         /\ r_table' = r_table /\ left' = left /\ dest' = dest
         /\ rd' \in {"open", "dead"}
         /\ ChunkNumberFits(offset) /\ rd' = "open" /\ r_good' => StandsAt(offset)'
<1> DEFINE n == Target(offset)
           g == offset % ChunkLen
<1>1. n \in Int /\ g \in Nat
  BY DzIstreamAssumption, Division, TargetType
<1>2. CASE r_good /\ SeekFound(offset)
  <2>1. /\ \/ n = d_curChunk /\ UNCHANGED <<getArea, d_curChunk>>
           \/ /\ InTable(n) /\ OnDisk(n) /\ Decodes(n)
              /\ getArea' = Inflated(n) /\ d_curChunk' = n
        /\ gptr' = g
        /\ UNCHANGED <<rd, r_table, r_good, left, dest>>
    BY <1>2 DEF SeekFound
  <2>2. ASSUME ChunkNumberFits(offset)
        PROVE  n \in Nat /\ offset = ChunkLen * n + g
    <3>1. n = offset \div ChunkLen
      BY <2>2, FittingTarget
    <3>2. /\ offset \div ChunkLen \in Nat
          /\ offset = ChunkLen * (offset \div ChunkLen) + (offset % ChunkLen)
      BY DzIstreamAssumption, Division
    <3> QED
      BY <3>1, <3>2
  <2> HIDE DEF n, g
  <2>3. d_curChunk' = n
    BY <2>1
  <2>4. /\ GetAreaFollows' /\ getArea' \in Seq(Byte \cup {Junk})
        /\ d_curChunk' \in Nat \cup {-1}
    <3>1. CASE UNCHANGED <<getArea, d_curChunk>>
      BY <2>1, <3>1 DEF GetAreaFollows, InTable, OnDisk, Decodes, Inflated, StreamTypes
    <3>2. CASE /\ InTable(n) /\ OnDisk(n) /\ Decodes(n)
               /\ getArea' = Inflated(n) /\ d_curChunk' = n
      <4>1. n \in Nat
        BY <1>1, <3>2 DEF InTable
      <4> QED
        BY <2>1, <3>2, <4>1, InflateFollows
    <3> QED
      BY <2>1, <3>1, <3>2
  <2>5. StreamTypes'
    BY <1>1, <2>1, <2>4 DEF StreamTypes
  <2>6. ChunkNumberFits(offset) => StandsAt(offset)'
    BY <2>1, <2>2, <2>3 DEF StandsAt, Position
  <2> QED
    BY <1>2, <2>1, <2>4, <2>5, <2>6
<1>3. CASE r_good /\ SeekNotFound(offset)
  <2>1. CASE ReadChunkThrows(n)
    <3> HIDE DEF n
    <3> QED
      BY <2>1, ThrowSpoils DEF GetAreaFollows
  <2>2. CASE ReadChunkUndefined(n)
    <3> HIDE DEF n
    <3>1. /\ StreamTypes'
          /\ UNCHANGED <<r_table, d_curChunk, getArea, gptr, left, dest>>
          /\ \/ rd' = "dead" /\ r_good' = r_good
             \/ rd' = rd /\ ~r_good'
      BY <2>2, UndefinedSpoils
    <3>2. GetAreaFollows'
      BY <3>1 DEF GetAreaFollows, InTable, OnDisk, Decodes, Inflated
    <3>3. rd' = "open" => ~r_good'
      BY <3>1
    <3> QED
      BY <3>1, <3>2, <3>3
  <2> QED
    BY <1>3, <2>1, <2>2 DEF SeekNotFound
<1>4. CASE r_good /\ SeekRefused(offset)
  <2>1. /\ ~r_good' /\ r_good' \in BOOLEAN
        /\ UNCHANGED <<rd, r_table, d_curChunk, getArea, gptr, left, dest>>
    BY <1>4 DEF SeekRefused
  <2> QED
    BY <2>1 DEF StreamTypes, GetAreaFollows
<1>5. CASE ~r_good /\ UNCHANGED <<rd, streamVars>>
  <2>1. UNCHANGED <<rd, r_table, d_curChunk, getArea, gptr, r_good, left, dest>>
    BY <1>5 DEF streamVars
  <2> QED
    BY <1>5, <2>1 DEF StreamTypes, GetAreaFollows
<1> QED
  BY <1>2, <1>3, <1>4, <1>5 DEF Seek

LEMMA Joined ==
  ASSUME NEW s \in Seq(Byte), NEW t \in Seq(Byte)
  PROVE  /\ s \o t \in Seq(Byte) /\ Len(s \o t) = Len(s) + Len(t)
         /\ \A k \in 1..Len(s) : (s \o t)[k] = s[k]
         /\ \A j \in 1..Len(t) : (s \o t)[Len(s) + j] = t[j]
OBVIOUS

\* A round of xsgetn counts what it copies, wherever in the archive it is.
LEMMA CopyTypes ==
  ASSUME AnyFiles, StreamTypes, GetAreaFollows, UNCHANGED dzFile, rd = "open",
         NEW size \in Nat, left + Len(dest) = size, XsgetnStep
  PROVE  /\ StreamTypes' /\ GetAreaFollows'
         /\ r_table' = r_table
         /\ rd' \in {"open", "dead"}
         /\ left' + Len(dest') = size
<1>1. /\ r_good /\ left > 0 /\ left \in Nat /\ gptr \in Nat
      /\ dest \in Seq(Byte) /\ Len(dest) \in Nat
  BY DEF XsgetnStep, XsgetnCopy, XsgetnOverrun, XsgetnUnderflow, Reading, StreamTypes
<1>2. CASE XsgetnCopy
  <2> DEFINE a == SmallerOf(Len(getArea) - gptr, left)
             piece == SubSeq(getArea, gptr + 1, gptr + a)
  <2>1. /\ gptr < Len(getArea)
        /\ dest' = dest \o piece /\ gptr' = gptr + a /\ left' = left - a
        /\ UNCHANGED <<rd, r_table, d_curChunk, getArea, r_good>>
    BY <1>2 DEF XsgetnCopy
  <2>2. getArea \in Seq(Byte) /\ Len(getArea) \in Nat
    <3>1. CASE d_curChunk = -1
      BY <1>1, <3>1 DEF GetAreaFollows
    <3>2. CASE d_curChunk # -1
      <4>1. /\ d_curChunk \in Nat /\ OnDisk(d_curChunk)
            /\ getArea = Inflated(d_curChunk)
        BY <1>1, <3>2 DEF GetAreaFollows, StreamTypes
      <4> QED
        BY <4>1, InflatedBytes
    <3> QED
      BY <3>1, <3>2
  <2>3. a \in 1..left /\ gptr + a <= Len(getArea)
    BY <1>1, <2>1, <2>2 DEF SmallerOf
  <2> HIDE DEF a
  <2>4. piece \in Seq(Byte) /\ Len(piece) = a
    BY <1>1, <2>2, <2>3
  <2> HIDE DEF piece
  <2>5. dest' \in Seq(Byte) /\ Len(dest') = Len(dest) + a
    BY <1>1, <2>1, <2>4, Joined
  <2>6. StreamTypes'
    BY <1>1, <2>1, <2>3, <2>5 DEF StreamTypes
  <2>7. GetAreaFollows'
    BY <2>1 DEF GetAreaFollows, InTable, OnDisk, Decodes, Inflated
  <2>8. left' + Len(dest') = size
    <3>1. left' = left - a /\ Len(dest') = Len(dest) + a /\ a \in Int
      BY <1>1, <2>1, <2>3, <2>5
    <3> QED
      BY <1>1, <3>1
  <2> QED
    BY <2>1, <2>6, <2>7, <2>8
<1>3. CASE XsgetnOverrun
  <2>1. /\ rd' = "dead"
        /\ UNCHANGED <<r_table, d_curChunk, getArea, gptr, r_good, left, dest>>
    BY <1>3 DEF XsgetnOverrun, streamVars
  <2>2. StreamTypes' /\ GetAreaFollows'
    BY <2>1 DEF StreamTypes, ReaderPhase, GetAreaFollows, InTable, OnDisk, Decodes, Inflated
  <2> QED
    BY <2>1, <2>2
<1>4. CASE XsgetnUnderflow /\ UnderflowEnd
  <2>1. /\ ~r_good' /\ r_good' \in BOOLEAN
        /\ UNCHANGED <<rd, r_table, d_curChunk, getArea, gptr, left, dest>>
    BY <1>4 DEF UnderflowEnd
  <2>2. StreamTypes' /\ GetAreaFollows'
    BY <2>1 DEF StreamTypes, GetAreaFollows
  <2> QED
    BY <2>1, <2>2
<1>5. CASE XsgetnUnderflow /\ UnderflowNext
  <2> DEFINE n == d_curChunk + 1
  <2>1. /\ InTable(n) /\ OnDisk(n) /\ Decodes(n)
        /\ getArea' = Inflated(n) /\ gptr' = 0 /\ d_curChunk' = n
        /\ r_good' \in BOOLEAN
        /\ UNCHANGED <<rd, r_table, left, dest>>
    BY <1>5 DEF UnderflowNext
  <2>2. n \in Nat
    BY DEF StreamTypes
  <2> HIDE DEF n
  <2>3. GetAreaFollows' /\ getArea' \in Seq(Byte \cup {Junk})
    BY <2>1, <2>2, InflateFollows
  <2>4. StreamTypes'
    BY <2>1, <2>2, <2>3 DEF StreamTypes
  <2> QED
    BY <2>1, <2>3, <2>4
<1>6. CASE XsgetnUnderflow /\ ReadChunkThrows(d_curChunk + 1)
  <2>1. /\ StreamTypes' /\ ~r_good'
        /\ rd' = rd /\ r_table' = r_table /\ left' = left /\ dest' = dest
    BY <1>6, ThrowSpoils
  <2>2. GetAreaFollows'
    BY <2>1 DEF GetAreaFollows
  <2> QED
    BY <2>1, <2>2
<1> QED
  BY <1>2, <1>3, <1>4, <1>5, <1>6 DEF XsgetnStep, XsgetnUnderflow

\* A round of xsgetn adds bytes of the entry that is being read, in their order,
\* and nothing else.
LEMMA CopyMoves ==
  ASSUME AnyFiles, StreamTypes, GetAreaFollows, UNCHANGED dzFile, rd = "open",
         NEW item \in IndexItem,
         left + Len(dest) = item.size, BeginsEntry(item, dest),
         r_good => StandsAt(item.offset + Len(dest)),
         XsgetnStep
  PROVE  /\ BeginsEntry(item, dest)'
         /\ rd' = "open" /\ r_good' => StandsAt(item.offset + Len(dest))'
<1> DEFINE p == item.offset + Len(dest)
<1>1. /\ r_good /\ left > 0 /\ StandsAt(p) /\ Len(dest) \in Nat
      /\ item.offset \in Nat /\ item.size \in Nat /\ p \in Nat
  BY DEF XsgetnStep, XsgetnCopy, XsgetnOverrun, XsgetnUnderflow, Reading, IndexItem, StreamTypes
<1>2. /\ d_curChunk \in Nat /\ p = ChunkLen * d_curChunk + gptr /\ gptr \in Nat
      /\ ChunkLen \in Nat \ {0}
  BY <1>1, DzIstreamAssumption DEF StandsAt, Position, StreamTypes
<1>3. /\ InTable(d_curChunk) /\ OnDisk(d_curChunk) /\ Decodes(d_curChunk)
      /\ getArea = Inflated(d_curChunk)
  BY <1>1, <1>2 DEF GetAreaFollows
<1>4. ASSUME UNCHANGED <<left, dest>>
      PROVE  BeginsEntry(item, dest)'
  BY <1>4 DEF BeginsEntry, HasByte, EntryByte
<1>5. CASE XsgetnCopy
  <2> DEFINE a == SmallerOf(Len(getArea) - gptr, left)
             piece == SubSeq(getArea, gptr + 1, gptr + a)
  <2>1. /\ gptr < Len(getArea)
        /\ dest' = dest \o piece /\ gptr' = gptr + a /\ left' = left - a
        /\ UNCHANGED <<rd, r_table, d_curChunk, getArea, r_good>>
    BY <1>5 DEF XsgetnCopy
  <2>2. /\ getArea \in Seq(Byte) /\ Len(getArea) \in Nat
        /\ \A q \in 1..Len(getArea) :
              /\ HasByte(ChunkLen * d_curChunk + (q - 1))
              /\ getArea[q] = EntryByte(ChunkLen * d_curChunk + (q - 1))
    <3> DEFINE c == d_curChunk
    <3>1. c \in Nat /\ OnDisk(c) /\ getArea = Inflated(c)
      BY <1>2, <1>3
    <3> HIDE DEF c
    <3>2. /\ Inflated(c) \in Seq(Byte)
          /\ \A q \in 1..Len(Inflated(c)) :
               /\ HasByte(ChunkLen * c + (q - 1))
               /\ Inflated(c)[q] = EntryByte(ChunkLen * c + (q - 1))
      BY <3>1, InflatedBytes
    <3> QED
      BY ONLY <3>1, <3>2 DEF c
  <2>3. a \in 1..left /\ gptr + a <= Len(getArea)
    BY <1>1, <1>2, <2>1, <2>2 DEF SmallerOf, StreamTypes
  <2> HIDE DEF a
  <2>4. /\ piece \in Seq(Byte) /\ Len(piece) = a
        /\ \A j \in 1..a : piece[j] = getArea[gptr + j]
    BY <1>2, <2>2, <2>3
  <2> HIDE DEF piece
  <2>5. dest \in Seq(Byte) /\ left \in Nat
    BY DEF StreamTypes
  <2>6. /\ dest' \in Seq(Byte) /\ Len(dest') = Len(dest) + a
        /\ \A k \in 1..Len(dest) : dest'[k] = dest[k]
        /\ \A j \in 1..a : dest'[Len(dest) + j] = piece[j]
    <3>1. /\ dest \o piece \in Seq(Byte) /\ Len(dest \o piece) = Len(dest) + Len(piece)
          /\ \A k \in 1..Len(dest) : (dest \o piece)[k] = dest[k]
          /\ \A j \in 1..Len(piece) : (dest \o piece)[Len(dest) + j] = piece[j]
      BY <2>4, <2>5, Joined
    <3> QED
      BY <2>1, <2>4, <3>1
  <2>7. ASSUME NEW k \in 1..Len(dest')
        PROVE  HasByte(item.offset + k - 1) /\ dest'[k] = EntryByte(item.offset + k - 1)
    <3>1. CASE k \in 1..Len(dest)
      BY <2>6, <3>1 DEF BeginsEntry
    <3>2. CASE k \notin 1..Len(dest)
      <4> DEFINE j == k - Len(dest)
      <4>1. j \in 1..a /\ k = Len(dest) + j
        BY <1>1, <2>3, <2>6, <3>2
      <4> HIDE DEF j
      <4>2. gptr + j \in 1..Len(getArea) /\ j \in Nat
        BY <1>2, <2>2, <2>3, <4>1
      <4>3. item.offset + k - 1 = ChunkLen * d_curChunk + ((gptr + j) - 1)
        <5>1. item.offset + k - 1 = p + j - 1
          BY <1>1, <4>1, <4>2
        <5>2. ChunkLen * d_curChunk \in Nat
          BY <1>2
        <5> HIDE DEF p
        <5> QED
          BY <1>1, <1>2, <4>2, <5>1, <5>2
      <4>4. dest'[k] = getArea[gptr + j]
        BY <2>4, <2>6, <4>1
      <4> QED
        BY <2>2, <4>2, <4>3, <4>4
    <3> QED
      BY <3>1, <3>2
  <2>8. BeginsEntry(item, dest)'
    BY <2>7 DEF BeginsEntry, HasByte, EntryByte
  <2>9. StandsAt(item.offset + Len(dest))'
    <3>1. item.offset + Len(dest') = ChunkLen * d_curChunk + (gptr + a)
      <4> DEFINE b == ChunkLen * d_curChunk
      <4>1. b \in Nat /\ a \in Nat /\ item.offset + Len(dest) = b + gptr
        BY <1>1, <1>2, <2>3
      <4> HIDE DEF b
      <4>2. item.offset + Len(dest') = (b + gptr) + a
        BY <1>1, <1>2, <2>6, <4>1
      <4> QED
        BY <1>2, <4>1, <4>2 DEF b
    <3> QED
      BY <1>2, <2>1, <3>1 DEF StandsAt, Position
  <2> QED
    BY <2>8, <2>9
<1>6. CASE XsgetnOverrun
  <2>1. /\ rd' = "dead"
        /\ UNCHANGED <<r_table, d_curChunk, getArea, gptr, r_good, left, dest>>
    BY <1>6 DEF XsgetnOverrun, streamVars
  <2> QED
    BY <1>4, <2>1
<1>7. CASE XsgetnUnderflow /\ UnderflowEnd
  <2>1. /\ ~r_good'
        /\ UNCHANGED <<rd, r_table, d_curChunk, getArea, gptr, left, dest>>
    BY <1>7 DEF UnderflowEnd
  <2> QED
    BY <1>4, <2>1
<1>8. CASE XsgetnUnderflow /\ UnderflowNext
  <2> DEFINE n == d_curChunk + 1
  <2>1. /\ gptr = Len(getArea)
        /\ InTable(n) /\ OnDisk(n) /\ Decodes(n)
        /\ getArea' = Inflated(n) /\ gptr' = 0 /\ d_curChunk' = n
        /\ r_good' \in BOOLEAN
        /\ UNCHANGED <<rd, r_table, left, dest>>
    BY <1>8 DEF XsgetnUnderflow, UnderflowNext
  <2>2. gptr = ChunkLen
    BY <1>2, <1>3, <2>1, FullChunk
  <2>3. n \in Nat
    BY <1>2
  <2>4. p = ChunkLen * n + 0
    <3>1. \A x, y \in Nat : x * y + x = x * (y + 1) + 0
      OBVIOUS
    <3> HIDE DEF p
    <3> QED
      BY <1>2, <2>2, <3>1
  <2> HIDE DEF n
  <2>5. StandsAt(item.offset + Len(dest))'
    BY <2>1, <2>3, <2>4 DEF StandsAt, Position
  <2> QED
    BY <1>4, <2>1, <2>5
<1>9. CASE XsgetnUnderflow /\ ReadChunkThrows(d_curChunk + 1)
  <2>1. /\ StreamTypes' /\ ~r_good'
        /\ rd' = rd /\ r_table' = r_table /\ left' = left /\ dest' = dest
    BY <1>9, ThrowSpoils
  <2> QED
    BY <1>4, <2>1
<1> QED
  BY <1>5, <1>6, <1>7, <1>8, <1>9 DEF XsgetnStep, XsgetnUnderflow

----------------------------------------------------------------------------
(* The threads.                                                            *)

\* What has been answered stays an answer.
LEMMA AnswerStays ==
  ASSUME NEW t \in Thread, OwnOrNul(t), UNCHANGED <<dzFile, d_indices>>,
         rname'[t] = rname[t], answer'[t] = answer[t]
  PROVE  OwnOrNul(t)'
<1> DEFINE item == Item(rname[t])
           Own(k) == \/ answer[t][k] = Nul
                     \/ /\ HasByte(item.offset + k - 1)
                        /\ answer[t][k] = EntryByte(item.offset + k - 1)
<1>1. item' = item
  BY DEF Item
<1>2. ASSUME NEW k PROVE Own(k)' <=> Own(k)
  <2> HIDE DEF item
  <2> QED
    BY <1>1 DEF HasByte, EntryByte
<1>3. OwnOrNul(t) <=>
        (answer[t] \notin {NoAnswer, Unknown} =>
           /\ Len(answer[t]) = item.size
           /\ ChunkNumberFits(item.offset) => \A k \in 1..item.size : Own(k))
  BY DEF OwnOrNul
<1>4. OwnOrNul(t)' <=>
        (answer'[t] \notin {NoAnswer, Unknown} =>
           /\ Len(answer'[t]) = item'.size
           /\ ChunkNumberFits(item'.offset) => \A k \in 1..item'.size : Own(k)')
  BY DEF OwnOrNul, ChunkNumberFits
<1> HIDE DEF item, Own
<1> QED
  BY <1>1, <1>2, <1>3, <1>4

LEMMA KnownStays ==
  ASSUME AskedIsKnown, d_indices' = d_indices, NEW t \in Thread,
         rname'[t] = rname[t], answer'[t] = answer[t],
         rpc'[t] = "idle" \/ rpc[t] # "idle"
  PROVE  (rpc'[t] # "idle" \/ answer'[t] \notin {NoAnswer, Unknown}) => Known(rname[t])'
<1>1. (rpc'[t] # "idle" \/ answer'[t] \notin {NoAnswer, Unknown}) => Known(rname[t])
  BY DEF AskedIsKnown
<1> QED
  BY <1>1 DEF Known

LEMMA StreamStays ==
  ASSUME StreamTypes, GetAreaFollows, UNCHANGED <<dzFile, rd, r_table, d_curChunk, getArea, gptr, r_good>>,
         left' \in Nat, dest' \in Seq(Byte)
  PROVE  StreamTypes' /\ GetAreaFollows'
BY DEF StreamTypes, GetAreaFollows, InTable, OnDisk, Decodes, Inflated

LEMMA PlaceStays ==
  ASSUME NEW t \in Thread, ReadInPlace(t), rpc'[t] = rpc[t], rname'[t] = rname[t],
         UNCHANGED <<dzFile, d_indices, d_curChunk, gptr, r_good, left, dest>>
  PROVE  ReadInPlace(t)'
BY DEF ReadInPlace, Item, ChunkNumberFits, BeginsEntry, HasByte, EntryByte, StandsAt, Position

LEMMA FilesStay ==
  ASSUME AnyFiles, UNCHANGED fileVars
  PROVE  AnyFiles'
BY DEF AnyFiles, fileVars, ArchiveFile

LEMMA ReaderInitHolds ==
  ASSUME ReaderInit, AnyFiles
  PROVE  ReaderInv
<1>1. ReaderTypes
  BY DzIstreamAssumption DEF ReaderInit, StreamInit, ReaderTypes, StreamTypes, ReaderPhase, NoTable
<1>2. MutualExclusion
  BY ReaderAssumption DEF ReaderInit, MutualExclusion
<1>3. ReadersWait /\ AskedIsKnown /\ GetAreaFollows
  BY DEF ReaderInit, StreamInit, ReadersWait, AskedIsKnown, GetAreaFollows
<1>4. rd # "open" /\ \A t \in Thread : OwnOrNul(t)
  BY DEF ReaderInit, OwnOrNul
<1> QED
  BY <1>1, <1>2, <1>3, <1>4 DEF ReaderInv

\* Nobody reads yet while the corpus is opened.
LEMMA OpenKeeps ==
  ASSUME ReaderInv, Open
  PROVE  ReaderInv'
<1>1. /\ rd = "new"
      /\ UNCHANGED <<fileVars, d_curChunk, r_good, left, dest, threadVars>>
      /\ \/ /\ rd' \in {"refused", "failed", "dead"}
            /\ UNCHANGED <<r_table, getArea, gptr, d_indices>>
         \/ rd' = "open" /\ ~Malformed(Items) /\ ReadExtra /\ d_indices' = Items
  BY DEF Open, OpenFails
<1>2. UNCHANGED <<dzFile, d_readMutex, rpc, rname, answer, reads>>
  BY <1>1 DEF threadVars, fileVars
<1>3. AnyFiles'
  BY <1>1, FilesStay DEF ReaderInv
<1>4. /\ d_curChunk = -1 /\ getArea = <<>>
      /\ \A t \in Thread : rpc[t] = "idle" /\ answer[t] = NoAnswer
  BY <1>1 DEF ReaderInv, ReadersWait
<1>5. ReaderTypes /\ StreamTypes
  BY DEF ReaderInv, ReaderTypes
<1>6. /\ r_table' \in Nat \cup {NoTable} /\ 2 * r_table' <= IntMod
      /\ getArea' \in Seq(Byte) /\ gptr' \in Nat
  <2>1. CASE UNCHANGED <<r_table, getArea, gptr, d_indices>>
    BY <1>4, <1>5, <2>1 DEF StreamTypes
  <2>2. CASE ReadExtra /\ dzFile.xlen = 0
    BY <1>4, <1>5, <2>2, DzIstreamAssumption DEF ReadExtra, StreamTypes, NoTable
  <2>3. CASE ReadExtra /\ dzFile.xlen # 0
    <3>1. dzFile.count \in Nat /\ 2 * dzFile.count <= IntMod
      BY DEF ReaderInv, AnyFiles, ArchiveFile
    <3>2. ChunkLen \in Nat /\ Nul \in Byte
      BY DzIstreamAssumption
    <3> QED
      BY <2>3, <3>1, <3>2 DEF ReadExtra
  <2> QED
    BY <1>1, <2>1, <2>2, <2>3
<1>7. ReaderTypes'
  <2>1. d_indices' \in Seq(IndexItem)
    BY <1>1, <1>5, ItemsType DEF ReaderInv, ReaderTypes
  <2>2. rd' \in ReaderPhase
    BY <1>1 DEF ReaderPhase
  <2>3. getArea' \in Seq(Byte \cup {Junk})
    BY <1>6
  <2>4. StreamTypes'
    BY <1>1, <1>5, <1>6, <2>2, <2>3 DEF StreamTypes
  <2> QED
    BY <1>2, <1>5, <2>1, <2>4 DEF ReaderTypes
<1>8. MutualExclusion' /\ ReadersWait' /\ AskedIsKnown'
  BY <1>1, <1>2, <1>4 DEF ReaderInv, MutualExclusion, ReadersWait, AskedIsKnown
<1>9. GetAreaFollows'
  BY <1>1, <1>4, <1>6 DEF GetAreaFollows
<1>10. \A t \in Thread : ReadInPlace(t)' /\ OwnOrNul(t)'
  BY <1>2, <1>4 DEF ReadInPlace, OwnOrNul
<1> QED
  BY <1>3, <1>7, <1>8, <1>9, <1>10 DEF ReaderInv

\* A call looks its entry up, and leaves the stream alone.
LEMMA CallKeeps ==
  ASSUME ReaderInv, NEW t \in Thread, NEW n \in Name, Call(t, n)
  PROVE  ReaderInv'
<1>1. /\ rd = "open" /\ rpc[t] = "idle" /\ reads' = reads + 1
      /\ rname' = [rname EXCEPT ![t] = n]
      /\ \/ /\ Known(n) /\ rpc' = [rpc EXCEPT ![t] = "lock"]
            /\ answer' = [answer EXCEPT ![t] = NoAnswer]
         \/ answer' = [answer EXCEPT ![t] = Unknown] /\ rpc' = rpc
      /\ UNCHANGED <<fileVars, rd, r_table, d_curChunk, getArea, gptr, r_good, left, dest,
                     d_indices, d_readMutex>>
  BY DEF Call, streamVars
<1>2. /\ ReaderTypes /\ StreamTypes /\ rpc \in [Thread -> {"idle", "lock", "seek", "read", "copy"}]
      /\ rname \in [Thread -> Name] /\ answer \in [Thread -> {NoAnswer, Unknown} \cup Seq(Byte)]
      /\ left \in Nat /\ dest \in Seq(Byte) /\ UNCHANGED dzFile
  BY <1>1 DEF ReaderInv, ReaderTypes, StreamTypes, fileVars
<1>3. \A u \in Thread : u # t =>
        rpc'[u] = rpc[u] /\ rname'[u] = rname[u] /\ answer'[u] = answer[u]
  BY <1>1, <1>2
<1>4. /\ rname'[t] = n /\ answer'[t] \in {NoAnswer, Unknown}
      /\ rpc'[t] = "idle" \/ (rpc'[t] = "lock" /\ Known(n))
  BY <1>1, <1>2
<1>5. AnyFiles'
  BY <1>1, FilesStay DEF ReaderInv
<1>6. StreamTypes' /\ GetAreaFollows'
  BY <1>1, <1>2, StreamStays DEF ReaderInv
<1>7. ReaderTypes'
  <2>1. reads' \in Nat
    BY <1>1, <1>2 DEF ReaderTypes
  <2>2. rpc' \in [Thread -> {"idle", "lock", "seek", "read", "copy"}]
    BY <1>1, <1>2
  <2>3. rname' \in [Thread -> Name]
    BY <1>1, <1>2
  <2>4. answer' \in [Thread -> {NoAnswer, Unknown} \cup Seq(Byte)]
    BY <1>1, <1>2
  <2> QED
    BY <1>1, <1>2, <1>6, <2>1, <2>2, <2>3, <2>4 DEF ReaderTypes
<1>8. MutualExclusion'
  BY <1>1, <1>3, <1>4 DEF ReaderInv, MutualExclusion
<1>9. ReadersWait'
  BY <1>1 DEF ReadersWait
<1>10. AskedIsKnown'
  <2>1. ASSUME NEW u \in Thread, rpc'[u] # "idle" \/ answer'[u] \notin {NoAnswer, Unknown}
        PROVE  Known(rname[u])'
    <3>1. CASE u = t
      BY <1>1, <1>4, <2>1, <3>1 DEF Known
    <3>2. CASE u # t
      <4>1. Known(rname[u])
        BY <1>3, <2>1, <3>2 DEF ReaderInv, AskedIsKnown
      <4> QED
        BY <1>1, <1>3, <3>2, <4>1 DEF Known
    <3> QED
      BY <3>1, <3>2
  <2> QED
    BY <2>1 DEF AskedIsKnown
<1>11. ASSUME NEW u \in Thread PROVE ReadInPlace(u)' /\ OwnOrNul(u)'
  <2>1. CASE u = t
    BY <1>4, <2>1 DEF ReadInPlace, OwnOrNul
  <2>2. CASE u # t
    BY <1>1, <1>2, <1>3, <2>2, PlaceStays, AnswerStays DEF ReaderInv
  <2> QED
    BY <2>1, <2>2
<1> QED
  BY <1>5, <1>6, <1>7, <1>8, <1>9, <1>10, <1>11 DEF ReaderInv

\* What a thread does between its call and its answer: only its own rpc, the
\* mutex and the stream change.
Within(t) ==
  /\ rd = "open" /\ rd' \in {"open", "dead"} /\ rpc[t] # "idle"
  /\ \A u \in Thread : u # t => rpc'[u] = rpc[u]
  /\ rpc'[t] # "idle"
  /\ UNCHANGED <<fileVars, d_indices, rname, answer, reads>>

LEMMA WithinKeeps ==
  ASSUME ReaderInv, NEW t \in Thread, Within(t)
  PROVE  /\ AnyFiles' /\ ReadersWait' /\ AskedIsKnown'
         /\ \A u \in Thread : OwnOrNul(u)'
<1>1. UNCHANGED dzFile
  BY DEF Within, fileVars
<1>2. AnyFiles'
  BY FilesStay DEF ReaderInv, Within
<1>3. ReadersWait'
  BY DEF Within, ReadersWait
<1>4. \A u \in Thread : OwnOrNul(u)'
  BY <1>1, AnswerStays DEF ReaderInv, Within
<1>5. ASSUME NEW u \in Thread
      PROVE  (rpc'[u] # "idle" \/ answer'[u] \notin {NoAnswer, Unknown}) => Known(rname[u])'
  <2>1. rpc'[u] = "idle" \/ rpc[u] # "idle"
    BY DEF Within
  <2> QED
    BY <2>1, KnownStays DEF ReaderInv, Within
<1>6. AskedIsKnown'
  BY <1>5 DEF AskedIsKnown
<1> QED
  BY <1>2, <1>3, <1>4, <1>6

LEMMA LockKeeps ==
  ASSUME ReaderInv, NEW t \in Thread, Lock(t)
  PROVE  ReaderInv'
<1>1. /\ rd = "open" /\ rpc[t] = "lock" /\ d_readMutex = NoThread /\ d_readMutex' = t
      /\ rpc' = [rpc EXCEPT ![t] = "seek"]
      /\ UNCHANGED <<fileVars, rd, r_table, d_curChunk, getArea, gptr, r_good, left, dest,
                     d_indices, rname, answer, reads>>
  BY DEF Lock, streamVars
<1>2. /\ ReaderTypes /\ StreamTypes /\ rpc \in [Thread -> {"idle", "lock", "seek", "read", "copy"}]
      /\ left \in Nat /\ dest \in Seq(Byte) /\ UNCHANGED dzFile
  BY <1>1 DEF ReaderInv, ReaderTypes, StreamTypes, fileVars
<1>3. rpc'[t] = "seek" /\ \A u \in Thread : u # t => rpc'[u] = rpc[u]
  BY <1>1, <1>2
<1>4. AnyFiles' /\ ReadersWait' /\ AskedIsKnown' /\ \A u \in Thread : OwnOrNul(u)'
  <2>1. Within(t)
    BY <1>1, <1>3 DEF Within
  <2> QED
    BY <2>1, WithinKeeps
<1>5. StreamTypes' /\ GetAreaFollows'
  BY <1>1, <1>2, StreamStays DEF ReaderInv
<1>6. ReaderTypes'
  BY <1>1, <1>2, <1>5 DEF ReaderTypes
<1>7. MutualExclusion'
  BY <1>1, <1>3, ReaderAssumption DEF ReaderInv, MutualExclusion
<1>8. ASSUME NEW u \in Thread PROVE ReadInPlace(u)'
  <2>1. CASE u = t
    BY <1>3, <2>1 DEF ReadInPlace
  <2>2. CASE u # t
    BY <1>1, <1>2, <1>3, <2>2, PlaceStays DEF ReaderInv
  <2> QED
    BY <2>1, <2>2
<1> QED
  BY <1>4, <1>5, <1>6, <1>7, <1>8 DEF ReaderInv

\* A step of the holder of the mutex finds all others outside.
LEMMA HolderAlone ==
  ASSUME ReaderInv, NEW t \in Thread, rpc[t] \in {"seek", "read", "copy"},
         \A u \in Thread : u # t => rpc'[u] = rpc[u]
  PROVE  /\ d_readMutex = t
         /\ \A u \in Thread : u # t => rpc[u] \in {"idle", "lock"} /\ ReadInPlace(u)'
<1>1. d_readMutex = t
  BY DEF ReaderInv, MutualExclusion
<1>2. ASSUME NEW u \in Thread, u # t PROVE rpc[u] \in {"idle", "lock"}
  BY <1>1, <1>2 DEF ReaderInv, MutualExclusion, ReaderTypes
<1>3. ASSUME NEW u \in Thread, u # t PROVE ReadInPlace(u)'
  BY <1>2, <1>3 DEF ReadInPlace
<1> QED
  BY <1>1, <1>2, <1>3

\* The item that the holder of the mutex reads.
LEMMA HolderItem ==
  ASSUME ReaderInv, NEW t \in Thread, rpc[t] # "idle"
  PROVE  /\ Item(rname[t]) \in IndexItem
         /\ Item(rname[t]).offset \in Nat /\ Item(rname[t]).size \in Nat
<1>1. Known(rname[t])
  BY DEF ReaderInv, AskedIsKnown
<1>2. d_indices \in Seq(IndexItem)
  BY DEF ReaderInv, ReaderTypes
<1> QED
  BY <1>1, <1>2, ItemType

LEMMA ItemStays ==
  ASSUME NEW t \in Thread, UNCHANGED <<d_indices, rname>>
  PROVE  Item(rname[t])' = Item(rname[t])
BY DEF Item

LEMMA SeekEntryKeeps ==
  ASSUME ReaderInv, NEW t \in Thread, SeekEntry(t)
  PROVE  ReaderInv'
<1> DEFINE item == Item(rname[t])
<1>1. /\ rd = "open" /\ rpc[t] = "seek" /\ Seek(item.offset)
      /\ rpc' = [rpc EXCEPT ![t] = "read"]
      /\ UNCHANGED <<fileVars, d_indices, d_readMutex, rname, answer, reads>>
  BY DEF SeekEntry
<1>2. /\ AnyFiles /\ ReaderTypes /\ StreamTypes /\ GetAreaFollows /\ UNCHANGED dzFile
      /\ rpc \in [Thread -> {"idle", "lock", "seek", "read", "copy"}]
  BY <1>1 DEF ReaderInv, ReaderTypes, fileVars
<1>3. rpc'[t] = "read" /\ \A u \in Thread : u # t => rpc'[u] = rpc[u]
  BY <1>1, <1>2
<1>4. item.offset \in Nat /\ item' = item
  BY <1>1, HolderItem, ItemStays
<1> HIDE DEF item
<1>5. /\ StreamTypes' /\ GetAreaFollows'
      /\ rd' \in {"open", "dead"}
      /\ ChunkNumberFits(item.offset) /\ rd' = "open" /\ r_good' => StandsAt(item.offset)'
  <2> DEFINE o == item.offset
  <2>1. o \in Nat /\ Seek(o) /\ o' = o
    BY <1>1, <1>4
  <2> HIDE DEF o
  <2>2. /\ StreamTypes' /\ GetAreaFollows'
        /\ rd' \in {"open", "dead"}
        /\ ChunkNumberFits(o) /\ rd' = "open" /\ r_good' => d_curChunk' # -1 /\ Position' = o
    BY <1>1, <1>2, <2>1, SeekMoves DEF StandsAt
  <2> QED
    BY <2>1, <2>2 DEF StandsAt, o
<1>6. AnyFiles' /\ ReadersWait' /\ AskedIsKnown' /\ \A u \in Thread : OwnOrNul(u)'
  <2>1. Within(t)
    BY <1>1, <1>3, <1>5 DEF Within
  <2> QED
    BY <2>1, WithinKeeps
<1>7. ReaderTypes'
  BY <1>1, <1>2, <1>5 DEF ReaderTypes
<1>8. MutualExclusion'
  BY <1>1, <1>3 DEF ReaderInv, MutualExclusion
<1>9. ASSUME rd' = "open", NEW u \in Thread PROVE ReadInPlace(u)'
  <2>1. CASE u = t
    BY <1>3, <1>4, <1>5, <1>9, <2>1 DEF ReadInPlace, ChunkNumberFits, item
  <2>2. CASE u # t
    BY <1>1, <1>3, <2>2, HolderAlone
  <2> QED
    BY <2>1, <2>2
<1> QED
  BY <1>5, <1>6, <1>7, <1>8, <1>9 DEF ReaderInv

LEMMA StartReadKeeps ==
  ASSUME ReaderInv, NEW t \in Thread, StartRead(t)
  PROVE  ReaderInv'
<1> DEFINE item == Item(rname[t])
<1>1. /\ rd = "open" /\ rpc[t] = "read" /\ left' = item.size /\ dest' = <<>>
      /\ rpc' = [rpc EXCEPT ![t] = "copy"]
      /\ UNCHANGED <<fileVars, rd, r_table, d_curChunk, getArea, gptr, r_good,
                     d_indices, d_readMutex, rname, answer, reads>>
  BY DEF StartRead
<1>2. /\ AnyFiles /\ ReaderTypes /\ StreamTypes /\ GetAreaFollows /\ UNCHANGED dzFile
      /\ rpc \in [Thread -> {"idle", "lock", "seek", "read", "copy"}]
  BY <1>1 DEF ReaderInv, ReaderTypes, fileVars
<1>3. rpc'[t] = "copy" /\ \A u \in Thread : u # t => rpc'[u] = rpc[u]
  BY <1>1, <1>2
<1>4. item.offset \in Nat /\ item.size \in Nat /\ item' = item
  BY <1>1, HolderItem, ItemStays
<1>5. ChunkNumberFits(item.offset) /\ r_good => StandsAt(item.offset)
  BY <1>1 DEF ReaderInv, ReadInPlace
<1>6. StreamTypes' /\ GetAreaFollows'
  BY <1>1, <1>2, <1>4, StreamStays
<1>7. AnyFiles' /\ ReadersWait' /\ AskedIsKnown' /\ \A u \in Thread : OwnOrNul(u)'
  <2>1. Within(t)
    BY <1>1, <1>3 DEF Within
  <2> QED
    BY <2>1, WithinKeeps
<1>8. ReaderTypes'
  BY <1>1, <1>2, <1>6 DEF ReaderTypes
<1>9. MutualExclusion'
  BY <1>1, <1>3 DEF ReaderInv, MutualExclusion
<1>10. ReadInPlace(t)'
  <2> HIDE DEF item
  <2>1. left' + Len(dest') = item.size /\ item.offset + Len(dest') = item.offset
    BY <1>1, <1>4
  <2>2. BeginsEntry(item, dest)'
    BY <1>1 DEF BeginsEntry
  <2>3. ChunkNumberFits(item.offset) /\ r_good' => StandsAt(item.offset + Len(dest))'
    BY <1>1, <1>4, <1>5, <2>1 DEF StandsAt, Position
  <2> QED
    BY <1>3, <1>4, <2>1, <2>2, <2>3 DEF ReadInPlace, ChunkNumberFits, item
<1>11. \A u \in Thread : ReadInPlace(u)'
  BY <1>1, <1>3, <1>10, HolderAlone
<1> QED
  BY <1>6, <1>7, <1>8, <1>9, <1>11 DEF ReaderInv

LEMMA CopyKeeps ==
  ASSUME ReaderInv, NEW t \in Thread, Copy(t)
  PROVE  ReaderInv'
<1> DEFINE item == Item(rname[t])
<1>1. /\ rd = "open" /\ rpc[t] = "copy" /\ XsgetnStep
      /\ UNCHANGED <<fileVars, d_indices, d_readMutex, rpc, rname, answer, reads>>
  BY DEF Copy, threadVars
<1>2. /\ AnyFiles /\ ReaderTypes /\ StreamTypes /\ GetAreaFollows /\ UNCHANGED dzFile
  BY <1>1 DEF ReaderInv, ReaderTypes, fileVars
<1>3. item \in IndexItem /\ item' = item
  BY <1>1, HolderItem, ItemStays
<1>4. /\ left + Len(dest) = item.size
      /\ ChunkNumberFits(item.offset) =>
           /\ BeginsEntry(item, dest)
           /\ r_good => StandsAt(item.offset + Len(dest))
  BY <1>1 DEF ReaderInv, ReadInPlace
<1> HIDE DEF item
<1>5. /\ StreamTypes' /\ GetAreaFollows'
      /\ rd' \in {"open", "dead"}
      /\ rd' = "open" => ReadInPlace(t)'
  <2>1. PICK i \in IndexItem : i = item
    BY <1>3
  <2>2. left + Len(dest) = i.size /\ i.size \in Nat
    BY <1>4, <2>1 DEF IndexItem
  <2>3. /\ StreamTypes' /\ GetAreaFollows'
        /\ rd' \in {"open", "dead"}
        /\ left' + Len(dest') = i.size
    BY <1>1, <1>2, <2>2, CopyTypes
  <2>4. ASSUME ChunkNumberFits(i.offset)
        PROVE  /\ BeginsEntry(i, dest)'
               /\ rd' = "open" /\ r_good' => StandsAt(i.offset + Len(dest))'
    <3>1. BeginsEntry(i, dest) /\ (r_good => StandsAt(i.offset + Len(dest)))
      BY <1>4, <2>1, <2>4
    <3> QED
      BY <1>1, <1>2, <2>2, <3>1, CopyMoves
  <2>5. i = item'
    BY <1>3, <2>1
  <2>6. rd' = "open" => ReadInPlace(t)'
    BY <1>1, <2>3, <2>4, <2>5 DEF ReadInPlace, ChunkNumberFits, item
  <2> QED
    BY <2>3, <2>6
<1>6. AnyFiles' /\ ReadersWait' /\ AskedIsKnown' /\ \A u \in Thread : OwnOrNul(u)'
  <2>1. Within(t)
    BY <1>1, <1>5 DEF Within
  <2> QED
    BY <2>1, WithinKeeps
<1>7. ReaderTypes'
  BY <1>1, <1>2, <1>5 DEF ReaderTypes
<1>8. MutualExclusion'
  BY <1>1 DEF ReaderInv, MutualExclusion
<1>9. rd' = "open" => \A u \in Thread : ReadInPlace(u)'
  BY <1>1, <1>5, HolderAlone
<1> QED
  BY <1>5, <1>6, <1>7, <1>8, <1>9 DEF ReaderInv

\* The answer: the bytes copied, and zeros for those that were not.
LEMMA ReturnKeeps ==
  ASSUME ReaderInv, NEW t \in Thread, Return(t)
  PROVE  ReaderInv'
<1> DEFINE item == Item(rname[t])
           bytes == [k \in 1..item.size |-> IF k <= Len(dest) THEN dest[k] ELSE Nul]
<1>1. /\ rd = "open" /\ rpc[t] = "copy"
      /\ answer' = [answer EXCEPT ![t] = bytes]
      /\ d_readMutex' = NoThread
      /\ rpc' = [rpc EXCEPT ![t] = "idle"]
      /\ left' = 0 /\ dest' = <<>>
      /\ UNCHANGED <<fileVars, rd, r_table, d_curChunk, getArea, gptr, r_good,
                     d_indices, rname, reads>>
  BY DEF Return
<1>2. /\ AnyFiles /\ ReaderTypes /\ StreamTypes /\ GetAreaFollows /\ UNCHANGED dzFile
      /\ rpc \in [Thread -> {"idle", "lock", "seek", "read", "copy"}]
      /\ answer \in [Thread -> {NoAnswer, Unknown} \cup Seq(Byte)]
  BY <1>1 DEF ReaderInv, ReaderTypes, fileVars
<1>3. /\ rpc'[t] = "idle" /\ answer'[t] = bytes
      /\ \A u \in Thread : u # t => rpc'[u] = rpc[u] /\ answer'[u] = answer[u]
  <2> HIDE DEF bytes
  <2> QED
    BY <1>1, <1>2
<1>4. item \in IndexItem /\ item.size \in Nat /\ item' = item
  BY <1>1, HolderItem, ItemStays
<1>5. ChunkNumberFits(item.offset) => BeginsEntry(item, dest)
  BY <1>1 DEF ReaderInv, ReadInPlace
<1>6. AnyFiles'
  BY <1>1, FilesStay DEF ReaderInv
<1>7. StreamTypes' /\ GetAreaFollows'
  BY <1>1, <1>2, StreamStays
<1> HIDE DEF item
<1>8. bytes \in Seq(Byte)
  <2>1. dest \in Seq(Byte) /\ Nul \in Byte
    BY <1>2, DzIstreamAssumption DEF StreamTypes
  <2>2. \A k \in 1..item.size : (IF k <= Len(dest) THEN dest[k] ELSE Nul) \in Byte
    BY <1>4, <2>1
  <2> QED
    BY <1>4, <2>2
<1>9. ReaderTypes'
  <2>1. answer' \in [Thread -> {NoAnswer, Unknown} \cup Seq(Byte)]
    <3> HIDE DEF bytes
    <3> QED
      BY <1>1, <1>2, <1>8
  <2> QED
    BY <1>1, <1>2, <1>7, <2>1 DEF ReaderTypes
<1>10. MutualExclusion'
  <2>1. d_readMutex = t /\ \A u \in Thread : u # t => rpc[u] \in {"idle", "lock"}
    BY <1>1, <1>3, HolderAlone
  <2> QED
    BY <1>1, <1>3, <2>1, ReaderAssumption DEF MutualExclusion
<1>11. ReadersWait'
  BY <1>1 DEF ReadersWait
<1>12. AskedIsKnown'
  <2>1. ASSUME NEW u \in Thread, rpc'[u] # "idle" \/ answer'[u] \notin {NoAnswer, Unknown}
        PROVE  Known(rname[u])'
    <3>1. Known(rname[u])
      BY <1>1, <1>3, <2>1 DEF ReaderInv, AskedIsKnown
    <3> QED
      BY <1>1, <3>1 DEF Known
  <2> QED
    BY <2>1 DEF AskedIsKnown
<1>13. \A u \in Thread : ReadInPlace(u)'
  <2>1. \A u \in Thread : u # t => ReadInPlace(u)'
    BY <1>1, <1>3, HolderAlone
  <2>2. ReadInPlace(t)'
    BY <1>3 DEF ReadInPlace
  <2> QED
    BY <2>1, <2>2
<1>14. OwnOrNul(t)'
  <2>1. ASSUME ChunkNumberFits(item.offset), NEW k \in 1..item.size
        PROVE  \/ bytes[k] = Nul
               \/ /\ HasByte(item.offset + k - 1)
                  /\ bytes[k] = EntryByte(item.offset + k - 1)
    <3>1. CASE k <= Len(dest)
      <4>1. k \in 1..Len(dest)
        BY <1>4, <2>1, <3>1, <1>2 DEF StreamTypes
      <4> QED
        BY <1>5, <2>1, <3>1, <4>1 DEF BeginsEntry
    <3>2. CASE ~(k <= Len(dest))
      BY <2>1, <3>2
    <3> QED
      BY <3>1, <3>2
  <2>2. Len(bytes) = item.size
    BY <1>4
  <2> HIDE DEF bytes
  <2>3. Len(answer'[t]) = item'.size
    BY <1>3, <1>4, <2>2
  <2>4. ASSUME ChunkNumberFits(item.offset), NEW k \in 1..item'.size
        PROVE  \/ answer'[t][k] = Nul
               \/ /\ HasByte(item.offset + k - 1)'
                  /\ answer'[t][k] = EntryByte(item.offset + k - 1)'
    <3>1. k \in 1..item.size
      BY <1>4
    <3>2. \/ answer'[t][k] = Nul
          \/ /\ HasByte(item.offset + k - 1)
             /\ answer'[t][k] = EntryByte(item.offset + k - 1)
      BY <1>3, <2>1, <2>4, <3>1
    <3> QED
      BY <1>2, <1>4, <3>2 DEF HasByte, EntryByte
  <2> QED
    BY <1>4, <2>3, <2>4 DEF OwnOrNul, ChunkNumberFits, item
<1>15. \A u \in Thread : OwnOrNul(u)'
  <2>1. \A u \in Thread : u # t => OwnOrNul(u)'
    BY <1>1, <1>2, <1>3, AnswerStays DEF ReaderInv
  <2> QED
    BY <1>14, <2>1
<1> QED
  BY <1>6, <1>7, <1>9, <1>10, <1>11, <1>12, <1>13, <1>15 DEF ReaderInv

LEMMA StutterKeeps ==
  ASSUME ReaderInv, UNCHANGED vars
  PROVE  ReaderInv'
<1>1. /\ UNCHANGED <<fileVars, dzFile, rd, r_table, d_curChunk, getArea, gptr, r_good, left, dest>>
      /\ UNCHANGED <<d_indices, d_readMutex, rpc, rname, answer, reads>>
  BY DEF vars, fileVars, streamVars, threadVars
<1>2. AnyFiles'
  BY <1>1, FilesStay DEF ReaderInv
<1>3. StreamTypes' /\ GetAreaFollows'
  <2>1. left \in Nat /\ dest \in Seq(Byte) /\ StreamTypes /\ GetAreaFollows
    BY DEF ReaderInv, ReaderTypes, StreamTypes
  <2> QED
    BY <1>1, <2>1, StreamStays
<1>4. ReaderTypes' /\ MutualExclusion' /\ ReadersWait'
  BY <1>1, <1>3 DEF ReaderInv, ReaderTypes, MutualExclusion, ReadersWait
<1>5. AskedIsKnown'
  <2>1. ASSUME NEW t \in Thread
        PROVE  (rpc'[t] # "idle" \/ answer'[t] \notin {NoAnswer, Unknown}) => Known(rname[t])'
    BY <1>1, KnownStays DEF ReaderInv
  <2> QED
    BY <2>1 DEF AskedIsKnown
<1>6. \A t \in Thread : OwnOrNul(t)'
  BY <1>1, AnswerStays DEF ReaderInv
<1>7. rd' = "open" => \A t \in Thread : ReadInPlace(t)'
  BY <1>1, PlaceStays DEF ReaderInv
<1> QED
  BY <1>2, <1>3, <1>4, <1>5, <1>6, <1>7 DEF ReaderInv

LEMMA NextKeeps ==
  ASSUME ReaderInv, [ReaderNext]_vars
  PROVE  ReaderInv'
<1>1. CASE Open
  BY <1>1, OpenKeeps
<1>2. CASE \E t \in Thread, n \in Name : Call(t, n)
  BY <1>2, CallKeeps
<1>3. CASE \E t \in Thread : ReadEntry(t)
  BY <1>3, LockKeeps, SeekEntryKeeps, StartReadKeeps, CopyKeeps, ReturnKeeps DEF ReadEntry
<1>4. CASE UNCHANGED vars
  BY <1>4, StutterKeeps
<1> QED
  BY <1>1, <1>2, <1>3, <1>4 DEF ReaderNext

----------------------------------------------------------------------------
\* The inductive invariant holds in every state of every behaviour.
THEOREM Invariance == ReaderSpec => []ReaderInv
<1>1. ReaderInit /\ AnyFiles => ReaderInv
  BY ReaderInitHolds
<1>2. ReaderInv /\ [ReaderNext]_vars => ReaderInv'
  BY NextKeeps
<1> QED
  BY <1>1, <1>2, PTL DEF ReaderSpec

\* Seeking, reading and answering is done by one thread at a time, the one that
\* d_readMutex names.
THEOREM Exclusion == ReaderSpec => []MutualExclusion
<1>1. ReaderInv => MutualExclusion
  BY DEF ReaderInv
<1> QED
  BY <1>1, Invariance, PTL

\* No archive, whatever is wrong with it or its index, makes a read of an entry
\* hand out a byte that is not the entry's, and that is not zero; except for
\* offsets of chunks whose number is beyond an int, for which the seek goes wrong.
THEOREM NoForeignBytes == ReaderSpec => []ForeignBytesNeverReturned
<1>1. ASSUME ReaderInv, NEW t \in Thread, Answered(t)
      PROVE  LET item == Item(rname[t])
             IN  ChunkNumberFits(item.offset) =>
                   \A k \in 1..item.size :
                     \/ answer[t][k] = Nul
                     \/ /\ HasByte(item.offset + k - 1)
                        /\ answer[t][k] = EntryByte(item.offset + k - 1)
  BY <1>1 DEF ReaderInv, OwnOrNul, Answered
<1>2. ReaderInv => ForeignBytesNeverReturned
  BY <1>1 DEF ForeignBytesNeverReturned
<1> QED
  BY <1>2, Invariance, PTL

----------------------------------------------------------------------------
(* Sound corpora.                                                          *)

\* No chunk begins with 0xff, which underflow() would answer as the end.
NoEofHead ==
  \A i \in 1..Len(dzFile.blocks) :
    dzFile.blocks[i].bytes # <<>> => dzFile.blocks[i].bytes[1] # EofByte

Readable(n) == InTable(n) /\ OnDisk(n) /\ Decodes(n)

\* There is a chunk where an empty entry would begin.
EmptyEntriesInside ==
  \A i \in 1..Len(d_indices) :
    d_indices[i].size = 0 => Readable(d_indices[i].offset \div ChunkLen)

Sound ==
  /\ \A i \in 1..Len(d_indices) : Intact(d_indices[i])
  /\ NoEofHead
  /\ EmptyEntriesInside

\* The stream of a sound corpus stays good, so that no read is cut short.
SoundInv ==
  /\ rd = "new" => r_good
  /\ Sound => r_good /\ \A t \in Thread : answer[t] \notin {NoAnswer, Unknown} => Returned(t)

LEMMA SoundItem ==
  ASSUME ReaderTypes, AnyFiles, Sound, NEW t \in Thread, Known(rname[t])
  PROVE  /\ Intact(Item(rname[t]))
         /\ Readable(Item(rname[t]).offset \div ChunkLen)
         /\ ChunkNumberFits(Item(rname[t]).offset)
<1>1. PICK i \in 1..Len(d_indices) : Item(rname[t]) = d_indices[i]
  BY ItemOfName DEF ReaderTypes
<1> DEFINE item == d_indices[i]
           n == item.offset \div ChunkLen
<1>2. item \in IndexItem /\ item.offset \in Nat /\ item.size \in Nat
  <2>1. item \in IndexItem
    BY <1>1 DEF ReaderTypes
  <2> HIDE DEF item
  <2> QED
    BY <2>1 DEF IndexItem
<1>3. Intact(item)
  BY <1>1 DEF Sound
<1>4. Readable(n)
  <2>1. CASE item.size = 0
    BY <1>1, <2>1 DEF Sound, EmptyEntriesInside
  <2>2. CASE item.size # 0
    <3>1. 1 \in 1..item.size /\ item.offset + 1 - 1 = item.offset
      BY <1>2, <2>2
    <3>2. n < r_table /\ HasByte(item.offset) /\ Decodes(n)
      BY <1>3, <3>1 DEF Intact
    <3>3. 0 <= n
      BY <1>2, DzIstreamAssumption, Division
    <3> QED
      BY <3>2, <3>3 DEF Readable, InTable, OnDisk, HasByte
  <2> QED
    BY <2>1, <2>2
<1>5. ChunkNumberFits(item.offset)
  <2>1. n < r_table /\ 2 * r_table <= IntMod /\ r_table \in Int /\ n \in Nat /\ IntMod \in Nat
    BY <1>2, <1>4, DzIstreamAssumption, Division DEF ReaderTypes, StreamTypes, Readable, InTable, NoTable
  <2>2. 2 * n < IntMod
    <3> HIDE DEF n
    <3> QED
      BY <2>1
  <2> QED
    BY <2>2 DEF ChunkNumberFits
<1> QED
  BY <1>1, <1>3, <1>4, <1>5

\* The chunks of the table are few enough for a seek to find each.
LEMMA ReadablePlace ==
  ASSUME StreamTypes, NEW offset \in Nat, Readable(offset \div ChunkLen)
  PROVE  /\ ChunkNumberFits(offset) /\ ~Negative(offset)
         /\ Target(offset) = offset \div ChunkLen
         /\ r_table # NoTable
<1> DEFINE n == offset \div ChunkLen
           g == offset % ChunkLen
<1>1. /\ n \in Nat /\ g \in Nat /\ offset = ChunkLen * n + g /\ g < ChunkLen
      /\ ChunkLen \in Nat \ {0} /\ IntMod \in Nat /\ PosMod \in Nat
      /\ ChunkLen * IntMod <= PosMod
  BY DzIstreamAssumption, Division
<1>2. n < r_table /\ r_table \in Nat \cup {NoTable} /\ 2 * r_table <= IntMod
  BY DEF Readable, InTable, StreamTypes
<1>3. 2 * n < IntMod /\ ChunkNumberFits(offset)
  <2>1. 2 * n < IntMod
    <3> HIDE DEF n
    <3> QED
      BY <1>1, <1>2 DEF NoTable
  <2> QED
    BY <2>1 DEF ChunkNumberFits
<1>4. r_table # NoTable
  <2> HIDE DEF n
  <2> QED
    BY <1>1, <1>2 DEF NoTable
<1>5. ~Negative(offset)
  <2> HIDE DEF n, g
  <2>1. 2 * n + 2 <= IntMod
    BY <1>1, <1>2 DEF NoTable
  <2>2. \A x, y, z \in Nat : y <= z => x * y <= x * z
    OBVIOUS
  <2>3. ChunkLen * (2 * n + 2) <= ChunkLen * IntMod
    <3>1. 2 * n + 2 \in Nat
      BY <1>1
    <3> QED
      BY <1>1, <2>1, <2>2, <3>1
  <2>4. ChunkLen * (2 * n + 2) = 2 * (ChunkLen * n) + 2 * ChunkLen
    <3>1. \A x, y \in Nat : x * (2 * y + 2) = 2 * (x * y) + 2 * x
      OBVIOUS
    <3> QED
      BY <1>1, <3>1
  <2> DEFINE b == ChunkLen * n
             m == ChunkLen * IntMod
  <2>5. b \in Nat /\ m \in Nat /\ offset = b + g /\ 2 * b + 2 * ChunkLen <= m /\ m <= PosMod
    BY <1>1, <2>3, <2>4
  <2> HIDE DEF b, m
  <2>6. 2 * offset < PosMod
    BY <1>1, <2>5
  <2> QED
    BY <1>1, <2>6 DEF Negative
<1> QED
  BY <1>3, <1>4, <1>5, FittingTarget

\* Where a seek goes there is a chunk, so it spoils nothing.
LEMMA SoundSeek ==
  ASSUME StreamTypes, r_good, NEW offset \in Nat, Readable(offset \div ChunkLen), Seek(offset)
  PROVE  r_good'
<1> DEFINE n == offset \div ChunkLen
<1>1. /\ InTable(n) /\ OnDisk(n) /\ Decodes(n)
      /\ Target(offset) = n /\ ~Negative(offset)
  BY ReadablePlace DEF Readable
<1> HIDE DEF n
<1>2. ~ReadChunkThrows(n) /\ ~ReadChunkUndefined(n)
  BY <1>1 DEF ReadChunkThrows, ReadChunkUndefined
<1>3. ~SeekNotFound(offset) /\ ~SeekRefused(offset)
  BY <1>1, <1>2 DEF SeekNotFound, SeekRefused
<1>4. SeekFound(offset)
  BY <1>3 DEF Seek
<1> QED
  BY <1>4 DEF SeekFound

\* Where the get area ends and the entry does not, the entry goes on in the next
\* chunk, which is there.
LEMMA SoundCopy ==
  ASSUME AnyFiles, StreamTypes, GetAreaFollows, NoEofHead,
         NEW item \in IndexItem, Intact(item),
         left + Len(dest) = item.size, StandsAt(item.offset + Len(dest)),
         r_good, XsgetnStep
  PROVE  r_good'
<1> DEFINE p == item.offset + Len(dest)
           c == d_curChunk
<1>1. /\ left > 0 /\ left \in Nat /\ Len(dest) \in Nat
      /\ item.offset \in Nat /\ item.size \in Nat
  <2>1. left > 0
    BY DEF XsgetnStep, XsgetnCopy, XsgetnOverrun, XsgetnUnderflow, Reading
  <2>2. item.offset \in Nat /\ item.size \in Nat
    BY DEF IndexItem
  <2> QED
    BY <2>1, <2>2 DEF StreamTypes
<1>2. /\ c \in Nat /\ p = ChunkLen * c + gptr /\ gptr \in Nat /\ p \in Nat
      /\ ChunkLen \in Nat \ {0}
  BY <1>1, DzIstreamAssumption DEF StandsAt, Position, StreamTypes
<1>3. InTable(c) /\ OnDisk(c) /\ Decodes(c) /\ getArea = Inflated(c)
  BY <1>2 DEF GetAreaFollows
<1>4. LET n == p \div ChunkLen
      IN  /\ n < r_table /\ HasByte(p) /\ Decodes(n)
          /\ ~dzFile.blocks[n + 1].cut
  <2> DEFINE k == Len(dest) + 1
  <2>1. k \in 1..item.size /\ item.offset + k - 1 = p
    BY <1>1
  <2> HIDE DEF k, p
  <2> QED
    BY <2>1 DEF Intact
<1> HIDE DEF p
<1>5. ASSUME gptr = Len(getArea)
      PROVE  /\ Readable(c + 1) /\ ~dzFile.blocks[c + 2].cut
             /\ dzFile.blocks[c + 2].bytes # <<>>
  <2>1. Len(Inflated(c)) <= ChunkLen /\ Len(Inflated(c)) \in Nat
    BY <1>2, <1>3, InflatedBytes
  <2>2. gptr = ChunkLen
    <3> SUFFICES ASSUME gptr < ChunkLen PROVE FALSE
      BY <1>2, <1>3, <1>5, <2>1
    <3>1. p \div ChunkLen = c /\ p % ChunkLen = gptr
      BY <1>2, Quotient
    <3>2. ~dzFile.blocks[c + 1].cut /\ gptr < Len(dzFile.blocks[c + 1].bytes)
      BY <1>4, <3>1 DEF HasByte
    <3>3. Inflated(c) = dzFile.blocks[c + 1].bytes
      BY <1>2, <1>3, <3>2, InflatedBytes
    <3> QED
      BY <1>2, <1>3, <1>5, <2>1, <3>2, <3>3
  <2>3. p \div ChunkLen = c + 1 /\ p % ChunkLen = 0
    <3>1. p = ChunkLen * (c + 1) + 0
      <4>1. \A x, y \in Nat : x * y + x = x * (y + 1) + 0
        OBVIOUS
      <4> QED
        BY <1>2, <2>2, <4>1
    <3>2. c + 1 \in Nat /\ ChunkLen \in Nat \ {0} /\ 0 < ChunkLen
      BY <1>2
    <3>3. /\ (ChunkLen * (c + 1) + 0) \div ChunkLen = c + 1
          /\ (ChunkLen * (c + 1) + 0) % ChunkLen = 0
      BY <3>2, Quotient
    <3> QED
      BY <3>1, <3>3
  <2>4. /\ c + 1 < r_table /\ Decodes(c + 1) /\ ~dzFile.blocks[(c + 1) + 1].cut
        /\ c + 1 < Len(dzFile.blocks) /\ 0 < Len(dzFile.blocks[(c + 1) + 1].bytes)
    BY <1>4, <2>3 DEF HasByte
  <2>5. (c + 1) + 1 = c + 2
    BY <1>2
  <2> QED
    BY <1>2, <2>4, <2>5 DEF Readable, InTable, OnDisk
<1>6. CASE XsgetnCopy
  BY <1>6 DEF XsgetnCopy
<1>7. CASE XsgetnOverrun
  BY <1>7 DEF XsgetnOverrun, streamVars
<1>8. CASE XsgetnUnderflow
  <2>1. gptr = Len(getArea) /\ (UnderflowEnd \/ UnderflowNext \/ ReadChunkThrows(c + 1))
    BY <1>8 DEF XsgetnUnderflow
  <2>2. /\ InTable(c + 1) /\ OnDisk(c + 1) /\ Decodes(c + 1)
        /\ ~dzFile.blocks[c + 2].cut /\ dzFile.blocks[c + 2].bytes # <<>>
    BY <1>5, <2>1 DEF Readable
  <2>3. ~ReadChunkThrows(c + 1)
    BY <2>2 DEF ReadChunkThrows
  <2>4. ~UnderflowEnd
    BY <1>2, <2>2 DEF UnderflowEnd, InTable, StreamTypes, NoTable
  <2>5. /\ getArea' = Inflated(c + 1)
        /\ r_good' = (getArea' = <<>> \/ getArea'[1] # EofByte)
    BY <2>1, <2>3, <2>4 DEF UnderflowNext
  <2>6. getArea' = dzFile.blocks[c + 2].bytes
    <3>1. c + 1 \in Nat /\ (c + 1) + 1 = c + 2
      BY <1>2
    <3> QED
      BY <2>2, <2>5, <3>1 DEF Inflated
  <2>7. c + 2 \in 1..Len(dzFile.blocks)
    BY <1>2, <2>2 DEF OnDisk, AnyFiles, ArchiveFile
  <2> QED
    BY <2>2, <2>5, <2>6, <2>7 DEF NoEofHead
<1> QED
  BY <1>6, <1>7, <1>8 DEF XsgetnStep

\* While nothing but threads and stream moves, a corpus stays as sound as it was,
\* and a whole answer stays whole.
LEMMA SoundStays ==
  ASSUME UNCHANGED <<dzFile, d_indices, r_table>>
  PROVE  /\ Sound' => Sound
         /\ \A t \in Thread : rname'[t] = rname[t] /\ answer'[t] = answer[t] /\ Returned(t)
              => Returned(t)'
<1>1. Sound' => Sound
  <2>1. (\A i \in 1..Len(d_indices) : Intact(d_indices[i]))'
          => \A i \in 1..Len(d_indices) : Intact(d_indices[i])
    BY DEF Intact, HasByte, Decodes
  <2>2. NoEofHead' => NoEofHead
    BY DEF NoEofHead
  <2>3. EmptyEntriesInside' => EmptyEntriesInside
    BY DEF EmptyEntriesInside, Readable, InTable, OnDisk, Decodes
  <2> QED
    BY <2>1, <2>2, <2>3 DEF Sound
<1>2. ASSUME NEW t \in Thread, rname'[t] = rname[t], answer'[t] = answer[t], Returned(t)
      PROVE  Returned(t)'
  <2>1. Item(rname[t])' = Item(rname[t])
    BY <1>2 DEF Item
  <2>2. \A p : EntryByte(p)' = EntryByte(p)
    BY DEF EntryByte
  <2> QED
    BY <1>2, <2>1, <2>2 DEF Returned
<1> QED
  BY <1>1, <1>2

\* A thread that gets all the bytes of its entry answers with the entry.
LEMMA SoundReturn ==
  ASSUME ReaderInv, r_good, NEW t \in Thread, Return(t), Sound
  PROVE  Returned(t)'
<1> DEFINE item == Item(rname[t])
           bytes == [k \in 1..item.size |-> IF k <= Len(dest) THEN dest[k] ELSE Nul]
<1>1. /\ rd = "open" /\ rpc[t] = "copy" /\ ~Reading
      /\ answer' = [answer EXCEPT ![t] = bytes]
      /\ UNCHANGED <<fileVars, d_indices, rname>>
  BY DEF Return
<1>2. item \in IndexItem /\ item.size \in Nat /\ item' = item
  BY <1>1, HolderItem, ItemStays
<1>3. left + Len(dest) = item.size /\ BeginsEntry(item, dest)
  <2>1. Known(rname[t])
    BY <1>1 DEF ReaderInv, AskedIsKnown
  <2>2. ChunkNumberFits(item.offset)
    BY <2>1, SoundItem DEF ReaderInv
  <2> QED
    BY <1>1, <2>2 DEF ReaderInv, ReadInPlace
<1>4. answer'[t] = bytes
  <2> HIDE DEF bytes
  <2> QED
    BY <1>1 DEF ReaderInv, ReaderTypes
<1> HIDE DEF item
<1>5. Len(dest) = item.size
  BY <1>1, <1>2, <1>3 DEF Reading, ReaderInv, ReaderTypes, StreamTypes
<1>6. bytes = [k \in 1..item.size |-> EntryByte(item.offset + k - 1)]
  BY <1>2, <1>3, <1>5 DEF BeginsEntry
<1>7. \A p : EntryByte(p)' = EntryByte(p)
  BY <1>1 DEF EntryByte, fileVars
<1> HIDE DEF bytes
<1> QED
  BY <1>2, <1>4, <1>6, <1>7 DEF Returned, item

LEMMA SoundKept ==
  ASSUME ReaderInv, SoundInv, [ReaderNext]_vars
  PROVE  SoundInv'
<1>1. ASSUME UNCHANGED <<dzFile, d_indices, r_table>>, rd' # "new" \/ r_good',
             Sound => r_good',
             ASSUME Sound, NEW t \in Thread,
                    ~(rname'[t] = rname[t] /\ answer'[t] = answer[t]),
                    answer'[t] \notin {NoAnswer, Unknown}
             PROVE  Returned(t)'
      PROVE  SoundInv'
  <2>1. ASSUME Sound', NEW t \in Thread, answer'[t] \notin {NoAnswer, Unknown}
        PROVE  Returned(t)'
    <3>1. Sound
      BY <1>1, <2>1, SoundStays
    <3>2. CASE rname'[t] = rname[t] /\ answer'[t] = answer[t]
      BY <1>1, <2>1, <3>1, <3>2, SoundStays DEF SoundInv
    <3>3. CASE ~(rname'[t] = rname[t] /\ answer'[t] = answer[t])
      BY <1>1, <2>1, <3>1, <3>3
    <3> QED
      BY <3>2, <3>3
  <2>2. Sound' => r_good'
    BY <1>1, SoundStays
  <2> QED
    BY <1>1, <2>1, <2>2 DEF SoundInv
<1>2. CASE Open
  <2>1. rd = "new" /\ rd' # "new" /\ r_good' = r_good /\ answer' = answer
    BY <1>2 DEF Open, OpenFails, threadVars
  <2>2. \A t \in Thread : answer[t] = NoAnswer
    BY <2>1 DEF ReaderInv, ReadersWait
  <2> QED
    BY <2>1, <2>2 DEF SoundInv
<1>3. CASE UNCHANGED vars
  <2>1. UNCHANGED <<dzFile, d_indices, r_table, rd, r_good, rname, answer>>
    BY <1>3 DEF vars, fileVars, streamVars, threadVars
  <2> QED
    BY <1>1, <2>1 DEF SoundInv
<1>4. ASSUME NEW t \in Thread, NEW n \in Name, Call(t, n) PROVE SoundInv'
  <2>1. /\ rd = "open" /\ UNCHANGED <<dzFile, d_indices, r_table, rd, r_good>>
        /\ rname' = [rname EXCEPT ![t] = n]
        /\ \/ answer' = [answer EXCEPT ![t] = NoAnswer]
           \/ answer' = [answer EXCEPT ![t] = Unknown]
    BY <1>4 DEF Call, streamVars, fileVars
  <2>2. \A u \in Thread : \/ rname'[u] = rname[u] /\ answer'[u] = answer[u]
                          \/ answer'[u] \in {NoAnswer, Unknown}
    BY <2>1 DEF ReaderInv, ReaderTypes
  <2> QED
    BY <1>1, <2>1, <2>2 DEF SoundInv
<1>5. ASSUME NEW t \in Thread, Lock(t) \/ StartRead(t) PROVE SoundInv'
  <2>1. /\ rd = "open" /\ UNCHANGED <<dzFile, d_indices, r_table, rd, r_good, rname, answer>>
    BY <1>5 DEF Lock, StartRead, streamVars, fileVars
  <2> QED
    BY <1>1, <2>1 DEF SoundInv
<1>6. ASSUME NEW t \in Thread, SeekEntry(t) PROVE SoundInv'
  <2>1. /\ rd = "open" /\ rpc[t] = "seek" /\ Seek(Item(rname[t]).offset)
        /\ UNCHANGED <<dzFile, d_indices, rname, answer>>
    BY <1>6 DEF SeekEntry, fileVars
  <2>2. Item(rname[t]).offset \in Nat /\ Known(rname[t])
    BY <2>1, HolderItem DEF ReaderInv, AskedIsKnown
  <2>3. rd' \in {"open", "dead"} /\ r_table' = r_table
    BY <2>1, <2>2, SeekMoves DEF ReaderInv, ReaderTypes
  <2>4. Sound => r_good'
    BY <2>1, <2>2, SoundItem, SoundSeek DEF ReaderInv, ReaderTypes, SoundInv
  <2> QED
    BY <1>1, <2>1, <2>3, <2>4
<1>7. ASSUME NEW t \in Thread, Copy(t) PROVE SoundInv'
  <2>1. /\ rd = "open" /\ rpc[t] = "copy" /\ XsgetnStep
        /\ UNCHANGED <<dzFile, d_indices, rname, answer>>
    BY <1>7 DEF Copy, fileVars, threadVars
  <2>2. Item(rname[t]) \in IndexItem /\ Known(rname[t])
    BY <2>1, HolderItem DEF ReaderInv, AskedIsKnown
  <2>3. PICK item \in IndexItem : item = Item(rname[t])
    BY <2>2
  <2>4. /\ left + Len(dest) = item.size /\ item.size \in Nat
        /\ ChunkNumberFits(item.offset) /\ r_good => StandsAt(item.offset + Len(dest))
    BY <2>1, <2>3 DEF ReaderInv, ReadInPlace, IndexItem
  <2>5. rd' \in {"open", "dead"} /\ r_table' = r_table
    BY <2>1, <2>4, CopyTypes DEF ReaderInv, ReaderTypes
  <2>6. Sound => Intact(item) /\ NoEofHead /\ ChunkNumberFits(item.offset)
    BY <2>2, <2>3, SoundItem DEF ReaderInv, Sound
  <2>7. Sound => r_good'
    BY <2>1, <2>4, <2>6, SoundCopy DEF ReaderInv, ReaderTypes, SoundInv
  <2> QED
    BY <1>1, <2>1, <2>5, <2>7
<1>8. ASSUME NEW t \in Thread, Return(t) PROVE SoundInv'
  <2>1. /\ rd = "open" /\ UNCHANGED <<dzFile, d_indices, r_table, rd, r_good, rname>>
        /\ \A u \in Thread : u # t => answer'[u] = answer[u]
    BY <1>8 DEF Return, fileVars, ReaderInv, ReaderTypes
  <2>2. Sound => Returned(t)'
    BY <1>8, SoundReturn DEF SoundInv
  <2> QED
    BY <1>1, <2>1, <2>2 DEF SoundInv
<1> QED
  BY <1>2, <1>3, <1>4, <1>5, <1>6, <1>7, <1>8 DEF ReaderNext, ReadEntry

LEMMA SoundAlways == ReaderSpec => [](ReaderInv /\ SoundInv)
<1>1. ReaderInit /\ AnyFiles => ReaderInv /\ SoundInv
  BY ReaderInitHolds DEF ReaderInit, StreamInit, SoundInv
<1>2. ReaderInv /\ SoundInv /\ [ReaderNext]_vars => ReaderInv' /\ SoundInv'
  BY NextKeeps, SoundKept
<1> QED
  BY <1>1, <1>2, PTL DEF ReaderSpec

\* From a corpus with nothing wrong every read returns its entry, all of it,
\* whatever other threads read before and meanwhile.  The two hypotheses are the
\* two sorts of archives on which the code itself goes wrong.
THEOREM SoundReads ==
  ReaderSpec => [](NoEofHead /\ EmptyEntriesInside => SoundCorpusRead)
<1>1. ReaderInv /\ SoundInv => (NoEofHead /\ EmptyEntriesInside => SoundCorpusRead)
  BY DEF SoundInv, Sound, SoundCorpusRead, Answered
<1> QED
  BY <1>1, SoundAlways, PTL

----------------------------------------------------------------------------
(* What a module that composes this one with a writer needs to know.       *)

\* A call that has not returned has no answer.
Unanswered == \A t \in Thread : rpc[t] # "idle" => answer[t] = NoAnswer

\* A corpus that is open has a header, and its index and the length of its table
\* are those of the files.
Opened ==
  rd = "open" =>
    /\ dzFile.header
    /\ d_indices = Items
    /\ r_table = IF dzFile.xlen = 0 THEN NoTable ELSE dzFile.count

ReaderFacts == ReaderInv /\ SoundInv /\ Unanswered /\ Opened

\* The stream moves, and nothing else that the others see.
LEMMA StreamSteps ==
  ASSUME NEW t \in Thread, SeekEntry(t) \/ Copy(t)
  PROVE  /\ rd = "open" /\ rd' \in {"open", "dead"} /\ r_table' = r_table
         /\ UNCHANGED <<fileVars, d_indices, rname, answer>>
         /\ rpc[t] # "idle" /\ (rpc' = rpc \/ rpc' = [rpc EXCEPT ![t] = "read"])
<1>1. CASE SeekEntry(t)
  <2>1. /\ rd = "open" /\ rpc[t] = "seek" /\ Seek(Item(rname[t]).offset)
        /\ UNCHANGED <<fileVars, d_indices, rname, answer>>
        /\ rpc' = [rpc EXCEPT ![t] = "read"]
    BY <1>1 DEF SeekEntry
  <2>2. r_table' = r_table /\ (rd' = rd \/ rd' = "dead")
    BY <2>1 DEF Seek, SeekFound, SeekNotFound, SeekRefused, ReadChunkThrows, ReadChunkUndefined, streamVars
  <2> QED
    BY <2>1, <2>2
<1>2. CASE Copy(t)
  <2>1. /\ rd = "open" /\ rpc[t] = "copy" /\ XsgetnStep
        /\ UNCHANGED <<fileVars, d_indices, rname, answer, rpc>>
    BY <1>2 DEF Copy, threadVars
  <2>2. r_table' = r_table /\ (rd' = rd \/ rd' = "dead")
    BY <2>1 DEF XsgetnStep, XsgetnCopy, XsgetnOverrun, XsgetnUnderflow, UnderflowEnd,
                UnderflowNext, ReadChunkThrows, streamVars
  <2> QED
    BY <2>1, <2>2
<1> QED
  BY <1>1, <1>2

\* A step as the threads' callers see it: the corpus is opened, a name is asked
\* for, a call returns, or nothing happens.
Asks(t, n) ==
  /\ rd = "open" /\ rd' = "open"
  /\ rname' = [rname EXCEPT ![t] = n]
  /\ answer' = [answer EXCEPT ![t] = IF Known(n) THEN NoAnswer ELSE Unknown]

Returns(t) ==
  /\ rd = "open" /\ rd' = "open"
  /\ answer[t] = NoAnswer
  /\ rname' = rname
  /\ answer' = [answer EXCEPT ![t] = answer'[t]]
  /\ Known(rname[t])'
  /\ Sound => Returned(t)'

LEMMA StepsSeen ==
  ASSUME ReaderFacts, ReaderNext
  PROVE  \/ Open /\ rd = "new" /\ rd' # "new" /\ UNCHANGED <<rname, answer>>
         \/ rd = "open" /\ rd' \in {"open", "dead"} /\ UNCHANGED <<rname, answer>>
         \/ \E t \in Thread, n \in Name : Asks(t, n)
         \/ \E t \in Thread : Returns(t)
<1>1. CASE Open
  BY <1>1 DEF Open, OpenFails, threadVars
<1>2. ASSUME NEW t \in Thread, NEW n \in Name, Call(t, n)
      PROVE  Asks(t, n)
  BY <1>2 DEF Call, Asks
<1>3. ASSUME NEW t \in Thread, Lock(t) \/ StartRead(t)
      PROVE  rd = "open" /\ rd' = "open" /\ UNCHANGED <<rname, answer>>
  BY <1>3 DEF Lock, StartRead
<1>4. ASSUME NEW t \in Thread, Return(t)
      PROVE  Returns(t)
  <2>1. /\ rd = "open" /\ rd' = "open" /\ rpc[t] = "copy" /\ rname' = rname
        /\ \E b : answer' = [answer EXCEPT ![t] = b]
    BY <1>4 DEF Return
  <2>2. answer' = [answer EXCEPT ![t] = answer'[t]]
    BY <2>1 DEF ReaderFacts, ReaderInv, ReaderTypes
  <2>3. answer[t] = NoAnswer
    BY <2>1 DEF ReaderFacts, Unanswered
  <2>4. Known(rname[t])'
    BY <1>4, <2>1 DEF Return, Known, ReaderFacts, ReaderInv, AskedIsKnown
  <2>5. Sound => Returned(t)'
    BY <1>4, SoundReturn DEF ReaderFacts, SoundInv
  <2> QED
    BY <2>1, <2>2, <2>3, <2>4, <2>5 DEF Returns
<1> QED
  BY <1>1, <1>2, <1>3, <1>4, StreamSteps DEF ReaderNext, ReadEntry

LEMMA FactsAtInit ==
  ASSUME ReaderInit, AnyFiles
  PROVE  ReaderFacts
BY ReaderInitHolds DEF ReaderInit, StreamInit, SoundInv, Unanswered, Opened, ReaderFacts

LEMMA FactsKept ==
  ASSUME ReaderFacts, [ReaderNext]_vars
  PROVE  ReaderFacts'
<1>1. ReaderInv' /\ SoundInv'
  BY NextKeeps, SoundKept DEF ReaderFacts
<1>2. rpc \in [Thread -> {"idle", "lock", "seek", "read", "copy"}]
      /\ answer \in [Thread -> {NoAnswer, Unknown} \cup Seq(Byte)]
  BY DEF ReaderFacts, ReaderInv, ReaderTypes
<1>3. Unanswered'
  <2>1. CASE Open \/ UNCHANGED vars
    BY <2>1 DEF Open, vars, threadVars, ReaderFacts, Unanswered
  <2>2. ASSUME NEW t \in Thread, NEW n \in Name, Call(t, n) PROVE Unanswered'
    BY <1>2, <2>2 DEF Call, ReaderFacts, Unanswered
  <2>3. ASSUME NEW t \in Thread, Lock(t) \/ StartRead(t) PROVE Unanswered'
    BY <1>2, <2>3 DEF Lock, StartRead, ReaderFacts, Unanswered
  <2>4. ASSUME NEW t \in Thread, SeekEntry(t) \/ Copy(t) PROVE Unanswered'
    BY <1>2, <2>4, StreamSteps DEF ReaderFacts, Unanswered
  <2>5. ASSUME NEW t \in Thread, Return(t) PROVE Unanswered'
    BY <1>2, <2>5 DEF Return, ReaderFacts, Unanswered
  <2> QED
    BY <2>1, <2>2, <2>3, <2>4, <2>5 DEF ReaderNext, ReadEntry
<1>4. Opened'
  <2>1. CASE Open
    BY <2>1 DEF Open, OpenFails, Opened, HeaderReadable, ReadExtra, Items, fileVars
  <2>2. CASE ~Open
    <3>1. /\ rd' = "open" => rd = "open"
          /\ UNCHANGED <<fileVars, d_indices, r_table>>
      <4>1. CASE UNCHANGED vars
        BY <4>1 DEF vars, streamVars
      <4>2. CASE \E t \in Thread, n \in Name : Call(t, n)
        BY <4>2 DEF Call, streamVars
      <4>3. ASSUME NEW t \in Thread, ReadEntry(t)
            PROVE  rd = "open" /\ UNCHANGED <<fileVars, d_indices, r_table>>
        BY <4>3, StreamSteps DEF ReadEntry, Lock, StartRead, Return, streamVars
      <4> QED
        BY <2>2, <4>1, <4>2, <4>3 DEF ReaderNext
    <3>2. Items' = Items
      BY <3>1 DEF Items, fileVars
    <3> QED
      BY <3>1, <3>2 DEF Opened, ReaderFacts, fileVars
  <2> QED
    BY <2>1, <2>2
<1> QED
  BY <1>1, <1>3, <1>4 DEF ReaderFacts
=============================================================================
