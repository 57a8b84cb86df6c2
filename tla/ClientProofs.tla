---------------------------- MODULE ClientProofs ----------------------------
(***************************************************************************)
(* The theorems of CApi, for every corpus, any queries in any number of    *)
(* stages and any number of iterators, while files come and go: what an    *)
(* iterator delivers is what was asked for, in order and each entry once,  *)
(* and as many as the size says; copies that share a source split it.      *)
(*                                                                         *)
(* A level of an iterator, its source or one of its stages, has come to a  *)
(* place in the order of the names (Pos) and has something left there      *)
(* (Left).  The levels are in line: what the one above has not come to,    *)
(* the one below has not passed by (Between), as far as it is wanted.  So  *)
(* the client has all there is before the place of the topmost level       *)
(* (Delivered), and at the end of the source there are no places left.     *)
(*                                                                         *)
(* Copies that share a source have between them the names before its place *)
(* (Went), and what it gives next none of them has had (Listed).           *)
(***************************************************************************)
EXTENDS CApi, RecursionProofs, FiniteSetTheorems

Kind == {"walk", "list", "container", "results"}

Content == Result \cup {Plain, Styled}

Cell ==
  [kind : Kind, query : Query \cup {NoName}, names : SUBSET Name, at : Nat, nth : Nat]

Stage == [query : Query, file : Name \cup {NoName}, buffer : Seq(Result)]

E == Name \X Content

Iterator == [cell : Handle, stages : Seq(Stage), styled : BOOLEAN]

Knowledge ==
  [db : BOOLEAN, parts : Seq(Query), order : {"natural", "numerical"}, styled : BOOLEAN,
   names : SUBSET Name, changed : SUBSET Name, got : Seq(E), before : Nat,
   said : {"nothing", "asked", "more", "end", "error"}, missed : SUBSET Name,
   moved : BOOLEAN, kept : BOOLEAN, gone : SUBSET Name]

TypeOK ==
  /\ db \in BOOLEAN /\ live \in BOOLEAN
  /\ disk \in SUBSET Name
  /\ cells \in [Handle -> Cell]
  /\ iter \in [Handle -> Iterator]
  /\ status \in [Handle -> {"unused", "open", "destroyed"}]
  /\ client \in [Handle -> Knowledge]
  /\ size \in Nat \cup {NotCounted}
  /\ counted \in SUBSET Name
  /\ changes \in Nat

\* A source is at an entry, or at its end.
InRange(c) ==
  /\ c.kind = "results" => c.query \in Query
  /\ c.at \in 1..(Len(Order(c)) + 1)
  /\ c.at <= Len(Order(c)) => c.nth \in 1..Len(Contents(c, Order(c)[c.at]))

KindOf(c) ==
  IF c.db THEN IF c.parts = <<>> THEN "container" ELSE "results"
  ELSE IF c.order = "numerical" THEN "list" ELSE "walk"

First(c) == IF c.db /\ c.parts # <<>> THEN 1 ELSE 0

\* The source and the stages are those of the request.
Serves(c, stages, cell) ==
  /\ cell.names = c.names
  /\ cell.kind = KindOf(c)
  /\ cell.kind = "results" => cell.query = c.parts[1]
  /\ Len(c.parts) = Len(stages) + First(c)
  /\ \A k \in DOMAIN stages : stages[k].query = c.parts[k + First(c)]

\* What a stage has left are results.
Filled(stages) ==
  \A k \in DOMAIN stages :
    stages[k].buffer # <<>> =>
      stages[k].file \in Name /\ Hits[stages[k].query][stages[k].file] # <<>>

Present(c, cell) ==
  (cell.at <= Len(Order(cell)) /\ Order(cell)[cell.at] \notin c.changed)
    => Order(cell)[cell.at] \in c.names

\* What a level has for a name that gets to it, and whether it gets past it.
Yield(stages, cell, k, n) ==
  IF k = 0 THEN Contents(cell, n) ELSE Hits[stages[k].query][n]

Passes(stages, cell, k, n) ==
  /\ n \in cell.names
  /\ cell.kind \in {"container", "results"} \/ n \in Xml
  /\ \A j \in 0..k : Yield(stages, cell, j, n) # <<>>

Wanted(c, stages, cell, k) ==
  {i \in DOMAIN Order(cell) :
     Order(cell)[i] \notin Unsure(c) /\ Passes(stages, cell, k, Order(cell)[i])}

Place(cell, n) ==
  IF n = NoName THEN 0 ELSE CHOOSE i \in DOMAIN Order(cell) : Order(cell)[i] = n

\* The place a level has come to, and what it has left there.
Pos(stages, cell, k) == IF k = 0 THEN cell.at ELSE Place(cell, stages[k].file)

Left(stages, cell, k) ==
  IF k > 0 THEN stages[k].buffer
  ELSE IF AtEnd(cell) \/ ~isValid(cell) THEN <<>>
  ELSE LET contents == Contents(cell, Order(cell)[cell.at])
       IN  SubSeq(contents, cell.nth, Len(contents))

\* Of what the level above has not come to, nothing wanted was passed by.
Between(c, stages, cell, k) ==
  LET below == Pos(stages, cell, k)
      above == Pos(stages, cell, k + 1)
  IN  /\ above <= below
      /\ k = 0 /\ above = below => cell.nth > 1
      /\ \A i \in Wanted(c, stages, cell, k) :
           above < i /\ i <= below =>
             i = below /\ Left(stages, cell, k) = Yield(stages, cell, k, Order(cell)[i])

Genuine(c, stages, cell, k) ==
  stages[k].file \in Name \ Unsure(c) => Passes(stages, cell, k - 1, stages[k].file)

Shown(c, n, contents) ==
  [k \in DOMAIN contents |-> <<n, IF c.styled THEN Styled ELSE contents[k]>>]

\* What was got, name by name: all there is of the names before place p, all but
\* what is left of the one there.
Delivered(c, O, p, left, G) ==
  /\ c.got = FlattenSeq(G)
  /\ \A i \in DOMAIN O :
       /\ \A j \in DOMAIN G[i] : G[i][j][1] = O[i]
       /\ i > p => G[i] = <<>>
       /\ i < p /\ O[i] \notin Unsure(c) => G[i] = Of(c, O[i])
       /\ i = p /\ O[i] \notin Unsure(c) => G[i] \o Shown(c, O[i], left) = Of(c, O[i])

Groups(O) == {G \in Seq(Seq(E)) : Len(G) = Len(O)}

Exact(c, stages, cell) ==
  LET m == Len(stages)
  IN  /\ \A k \in 1..m : Genuine(c, stages, cell, k)
      /\ \A k \in 0..(m - 1) : Between(c, stages, cell, k)
      /\ \E G \in Groups(Order(cell)) :
           Delivered(c, Order(cell), Pos(stages, cell, m), Left(stages, cell, m), G)

\* The client of an open iterator knows the corpus.
InTouch(c) ==
  /\ c.db = db
  /\ \A n \in Name \ c.changed : n \in disk <=> n \in c.names

Answered(c, stages, cell) ==
  /\ c.said = "more" =>
       HasEntry(stages, cell, Len(stages)) /\ (stages = <<>> => isValid(cell))
  /\ c.said = "end" => Reached(stages, 0) /\ AtEnd(cell)

HandleInv(h) ==
  LET c == client[h]
      it == iter[h]
      cell == cells[it.cell]
  IN  /\ c.kept
      /\ status[h] # "open" => c.said = "nothing"
      /\ status[h] = "open" =>
           /\ status[it.cell] # "unused"
           /\ InTouch(c)
           /\ it.styled = c.styled
           /\ Serves(c, it.stages, cell)
           /\ Filled(it.stages)
           /\ Present(c, cell)
           /\ Answered(c, it.stages, cell)
           /\ ~c.moved => Exact(c, it.stages, cell)

SizeInv == size # NotCounted => size = Cardinality(IF db THEN counted ELSE counted \cap Xml)

ClientInv ==
  /\ TypeOK
  /\ \A h \in Handle : InRange(cells[h])
  /\ \A h \in Handle : HandleInv(h)
  /\ SizeInv

----------------------------------------------------------------------------
(* Names and their places.                                                 *)

LEMMA Orders ==
  ASSUME NEW cell
  PROVE  /\ Order(cell) \in Seq(Name) /\ Len(Order(cell)) \in Nat
         /\ DOMAIN Order(cell) = 1..Len(Order(cell))
         /\ \A i \in DOMAIN Order(cell) : Order(cell)[i] \in Name
         /\ \A i, j \in DOMAIN Order(cell) : Order(cell)[i] = Order(cell)[j] => i = j
         /\ \A n \in Name : \E i \in DOMAIN Order(cell) : Order(cell)[i] = n
<1>1. Order(cell) \in {Natural, Numerical} /\ Lists(Natural) /\ Lists(Numerical)
  BY IteratorAssumption DEF Order
<1>2. Lists(Order(cell))
  BY <1>1
<1> DEFINE O == Order(cell)
<1> HIDE DEF O
<1>3. O \in Seq(Name) /\ ToSet(O) = Name /\ IsInjective(O)
  BY <1>2 DEF Lists, O
<1>4. \A i, j \in DOMAIN O : O[i] = O[j] => i = j
  BY <1>3 DEF IsInjective
<1>5. \A n \in Name : \E i \in DOMAIN O : O[i] = n
  BY <1>3 DEF ToSet
<1>6. Len(O) \in Nat /\ DOMAIN O = 1..Len(O) /\ \A i \in DOMAIN O : O[i] \in Name
  BY <1>3
<1> QED
  BY <1>3, <1>4, <1>5, <1>6 DEF O

LEMMA Places ==
  ASSUME NEW cell
  PROVE  /\ Place(cell, NoName) = 0
         /\ \A n \in Name : Place(cell, n) \in DOMAIN Order(cell) /\ Order(cell)[Place(cell, n)] = n
         /\ \A i \in DOMAIN Order(cell) : Place(cell, Order(cell)[i]) = i
<1>1. NoName \notin Name
  BY IteratorAssumption
<1>2. Place(cell, NoName) = 0
  BY DEF Place
<1>3. ASSUME NEW n \in Name
      PROVE  Place(cell, n) \in DOMAIN Order(cell) /\ Order(cell)[Place(cell, n)] = n
  <2>1. \E i \in DOMAIN Order(cell) : Order(cell)[i] = n
    BY Orders
  <2>2. Place(cell, n) = CHOOSE i \in DOMAIN Order(cell) : Order(cell)[i] = n
    BY <1>1 DEF Place
  <2> QED
    BY <2>1, <2>2
<1>4. ASSUME NEW i \in DOMAIN Order(cell) PROVE Place(cell, Order(cell)[i]) = i
  BY <1>3, Orders
<1> QED
  BY <1>2, <1>3, <1>4

LEMMA ContentsType ==
  ASSUME NEW cell \in Cell, cell.kind = "results" => cell.query \in Query, NEW n \in Name
  PROVE  /\ Contents(cell, n) \in Seq(Content)
         /\ cell.kind # "results" => Contents(cell, n) = <<Plain>>
         /\ Len(Contents(cell, n)) \in Nat
         /\ Contents(cell, n) # <<>> => Len(Contents(cell, n)) >= 1
<1>1. CASE cell.kind = "results"
  <2>1. Hits[cell.query][n] \in Seq(Result)
    BY <1>1, IteratorAssumption
  <2>2. Hits[cell.query][n] \in Seq(Content)
    BY <2>1 DEF Content
  <2>3. Contents(cell, n) = Hits[cell.query][n]
    BY <1>1 DEF Contents
  <2> QED
    BY <1>1, <2>2, <2>3
<1>2. CASE cell.kind # "results"
  <2>1. Contents(cell, n) = <<Plain>> /\ Plain \in Content
    BY <1>2 DEF Contents, Content
  <2> QED
    BY <2>1
<1> QED
  BY <1>1, <1>2

LEMMA BeyondIs ==
  ASSUME NEW cell \in Cell, NEW i \in Nat, i <= Len(Order(cell))
  PROVE  LET b == Beyond(cell, i)
         IN  /\ b \in Nat /\ i < b /\ b <= Len(Order(cell)) + 1
             /\ b <= Len(Order(cell)) => Sees(cell, Order(cell)[b])
             /\ \A j \in DOMAIN Order(cell) : i < j /\ j < b => ~Sees(cell, Order(cell)[j])
<1> DEFINE O == Order(cell)
           D == {j \in DOMAIN O : j > i /\ Sees(cell, O[j])} \cup {Len(O) + 1}
           b == Beyond(cell, i)
<1>1. Len(O) \in Nat /\ DOMAIN O = 1..Len(O)
  BY Orders
<1>2. D \subseteq Nat /\ D # {} /\ \A j \in D : i < j
  BY <1>1
<1>3. PICK l \in D : \A j \in D : l <= j
  <2> HIDE DEF D
  <2> QED
    BY <1>2, LeastElement
<1>4. b = Min(D)
  BY DEF Beyond
<1> HIDE DEF b
<1>5. b \in D /\ \A j \in D : b <= j
  BY <1>3, <1>4 DEF Min
<1>6. b \in Nat /\ i < b /\ b <= Len(O) + 1
  BY <1>1, <1>2, <1>5
<1>7. b <= Len(O) => Sees(cell, O[b])
  BY <1>1, <1>5
<1>8. ASSUME NEW j \in DOMAIN O, i < j, j < b PROVE ~Sees(cell, O[j])
  <2>1. Sees(cell, O[j]) => j \in D
    BY <1>8
  <2> QED
    BY <1>1, <1>5, <1>6, <1>8, <2>1
<1> QED
  BY <1>6, <1>7, <1>8 DEF b

\* Advance leaves the source at the next result of the same name, or at the next
\* name it can see.
Stays(cell, to) ==
  LET n == Order(cell)[cell.at]
  IN  to.at = cell.at /\ to.nth = cell.nth + 1 /\ cell.nth < Len(Contents(cell, n))

Jumps(cell, to) ==
  /\ to.at > cell.at /\ to.nth = 1
  /\ to.at <= Len(Order(cell)) => Sees(cell, Order(cell)[to.at])
  /\ \A j \in DOMAIN Order(cell) : cell.at < j /\ j < to.at => ~Sees(cell, Order(cell)[j])

Goes(cell, to) ==
  cell.nth = Len(Contents(cell, Order(cell)[cell.at])) /\ Jumps(cell, to)

Alike(cell, to) == to.kind = cell.kind /\ to.query = cell.query /\ to.names = cell.names

LEMMA AlikeIs ==
  ASSUME NEW cell, NEW to, Alike(cell, to)
  PROVE  Order(to) = Order(cell) /\ \A n : Contents(to, n) = Contents(cell, n)
BY DEF Alike, Order, Contents

LEMMA AdvanceIs ==
  ASSUME NEW cell \in Cell, InRange(cell), ~AtEnd(cell)
  PROVE  LET to == Advance(cell)
         IN  /\ to \in Cell /\ InRange(to) /\ Alike(cell, to)
             /\ Stays(cell, to) \/ Goes(cell, to)
<1> DEFINE O == Order(cell)
           n == O[cell.at]
           s == Contents(cell, n)
           to == Advance(cell)
           b == Beyond(cell, cell.at)
<1>1. /\ Len(O) \in Nat /\ DOMAIN O = 1..Len(O) /\ \A i \in DOMAIN O : O[i] \in Name
      /\ cell.at \in Nat /\ cell.nth \in Nat
  BY Orders DEF Cell
<1>2. cell.at \in 1..Len(O) /\ n \in Name /\ cell.nth \in 1..Len(s)
  BY <1>1 DEF AtEnd, InRange
<1>3. s \in Seq(Content) /\ Len(s) \in Nat
  BY <1>2, ContentsType DEF InRange
<1>4. /\ b \in Nat /\ cell.at < b /\ b <= Len(O) + 1
      /\ b <= Len(O) => Sees(cell, O[b])
      /\ \A j \in DOMAIN O : cell.at < j /\ j < b => ~Sees(cell, O[j])
  BY <1>1, <1>2, BeyondIs
<1>5. to = IF cell.nth < Len(s) THEN [cell EXCEPT !.nth = @ + 1]
           ELSE [cell EXCEPT !.at = b, !.nth = 1]
  BY DEF Advance
<1>6. /\ to \in Cell
      /\ to.kind = cell.kind /\ to.query = cell.query /\ to.names = cell.names
      /\ cell.nth < Len(s) => to.at = cell.at /\ to.nth = cell.nth + 1
      /\ ~(cell.nth < Len(s)) => to.at = b /\ to.nth = 1
  <2> DEFINE last == ~(cell.nth < Len(s))
  <2>1. b \in Nat /\ cell.nth + 1 \in Nat /\ 1 \in Nat
    BY <1>1, <1>4
  <2>2. to = IF last THEN [cell EXCEPT !.at = b, !.nth = 1]
             ELSE [cell EXCEPT !.nth = cell.nth + 1]
    BY <1>5
  <2> HIDE DEF to, b, last
  <2>3. CASE last
    BY <2>1, <2>2, <2>3 DEF Cell, last
  <2>4. CASE ~last
    BY <2>1, <2>2, <2>4 DEF Cell, last
  <2> QED
    BY <2>3, <2>4
<1> HIDE DEF to, b
<1>7. Alike(cell, to)
  BY <1>6 DEF Alike
<1>8. Order(to) = O /\ \A x : Contents(to, x) = Contents(cell, x)
  BY <1>7, AlikeIs
<1>9. CASE cell.nth < Len(s)
  <2>1. Stays(cell, to)
    BY <1>6, <1>9 DEF Stays
  <2>2. InRange(to)
    <3>1. to.nth \in 1..Len(s)
      BY <1>1, <1>2, <1>3, <1>6, <1>9
    <3>2. to.at = cell.at
      BY <1>6, <1>9
    <3>3. to.kind = "results" => to.query \in Query
      BY <1>6 DEF InRange
    <3> QED
      BY <1>8, <1>1, <1>2, <3>1, <3>2, <3>3 DEF InRange
  <2> QED
    BY <1>6, <1>7, <2>1, <2>2 DEF to
<1>10. CASE ~(cell.nth < Len(s))
  <2>1. cell.nth = Len(s) /\ to.at = b /\ to.nth = 1
    BY <1>1, <1>2, <1>3, <1>6, <1>10
  <2>2. Goes(cell, to)
    BY <1>4, <2>1 DEF Goes, Jumps
  <2>3. InRange(to)
    <3>1. to.kind = "results" => to.query \in Query
      BY <1>6 DEF InRange
    <3>2. to.at \in 1..(Len(O) + 1)
      BY <1>1, <1>4, <2>1
    <3>3. ASSUME to.at <= Len(O) PROVE to.nth \in 1..Len(Contents(cell, O[to.at]))
      <4>1. O[to.at] \in Name /\ Contents(cell, O[to.at]) # <<>>
        BY <1>1, <1>4, <2>1, <3>2, <3>3 DEF Sees
      <4>2. Len(Contents(cell, O[to.at])) \in Nat /\ Len(Contents(cell, O[to.at])) >= 1
        BY <4>1, ContentsType DEF InRange
      <4> QED
        BY <2>1, <4>2
    <3> QED
      BY <1>8, <3>1, <3>2, <3>3 DEF InRange
  <2> QED
    BY <1>6, <1>7, <2>2, <2>3 DEF to
<1> QED
  BY <1>9, <1>10

----------------------------------------------------------------------------
(* What is certain of a sequence of entries.                               *)

Parts(c, s) ==
  [i \in DOMAIN s |-> IF s[i][1] \in Unsure(c) THEN <<>> ELSE <<s[i]>>]

LEMMA PartsType ==
  ASSUME NEW c, NEW s \in Seq(E)
  PROVE  /\ Parts(c, s) \in Seq(Seq(E)) /\ Len(Parts(c, s)) = Len(s)
         /\ Certain(c, s) = FlattenSeq(Parts(c, s))
         /\ Certain(c, s) \in Seq(E)
<1>1. Len(s) \in Nat /\ DOMAIN s = 1..Len(s) /\ \A i \in 1..Len(s) : s[i] \in E
  OBVIOUS
<1>2. \A e \in E : <<e>> \in Seq(E)
  OBVIOUS
<1>3. <<>> \in Seq(E)
  OBVIOUS
<1>4. Parts(c, s) \in [1..Len(s) -> Seq(E)]
  BY <1>1, <1>2, <1>3 DEF Parts
<1>5. Parts(c, s) \in Seq(Seq(E)) /\ Len(Parts(c, s)) = Len(s)
  BY <1>1, <1>4
<1>6. Certain(c, s) = FlattenSeq(Parts(c, s))
  BY DEF Certain, Parts
<1>7. FlattenSeq(Parts(c, s)) \in Seq(E)
  BY <1>5, FlatFromParts
<1> QED
  BY <1>5, <1>6, <1>7

LEMMA CertainJoined ==
  ASSUME NEW c, NEW s \in Seq(E), NEW t \in Seq(E)
  PROVE  Certain(c, s \o t) = Certain(c, s) \o Certain(c, t)
<1> DEFINE u == s \o t
           p == Parts(c, s)
           q == Parts(c, t)
           r == Parts(c, u)
<1>1. /\ u \in Seq(E) /\ Len(s) \in Nat /\ Len(t) \in Nat /\ Len(u) = Len(s) + Len(t)
      /\ \A i \in 1..Len(s) : u[i] = s[i]
      /\ \A i \in 1..Len(t) : u[Len(s) + i] = t[i]
      /\ DOMAIN s = 1..Len(s) /\ DOMAIN t = 1..Len(t) /\ DOMAIN u = 1..Len(u)
  OBVIOUS
<1> HIDE DEF u
<1>2. /\ p \in Seq(Seq(E)) /\ Len(p) = Len(s) /\ Certain(c, s) = FlattenSeq(p)
      /\ q \in Seq(Seq(E)) /\ Len(q) = Len(t) /\ Certain(c, t) = FlattenSeq(q)
      /\ r \in Seq(Seq(E)) /\ Len(r) = Len(u) /\ Certain(c, u) = FlattenSeq(r)
  BY <1>1, PartsType
<1>3. \A i \in 1..Len(s) : r[i] = p[i]
  <2>1. \A i \in 1..Len(s) : i \in 1..Len(u)
    BY <1>1
  <2> QED
    BY <1>1, <2>1 DEF Parts
<1>4. \A i \in 1..Len(t) : r[Len(s) + i] = q[i]
  <2>1. \A i \in 1..Len(t) : Len(s) + i \in 1..Len(u)
    BY <1>1
  <2> QED
    BY <1>1, <2>1 DEF Parts
<1> HIDE DEF p, q, r
<1> DEFINE v == p \o q
           T == Seq(E)
<1>5. /\ v \in Seq(T) /\ Len(v) = Len(p) + Len(q)
      /\ \A i \in 1..Len(p) : v[i] = p[i]
      /\ \A i \in 1..Len(q) : v[Len(p) + i] = q[i]
      /\ \A i \in 1..Len(v) : i \notin 1..Len(p) => i - Len(p) \in 1..Len(q)
  <2> HIDE DEF T
  <2>1. p \in Seq(T) /\ q \in Seq(T)
    BY <1>2 DEF T
  <2> QED
    BY <2>1, Joint
<1> HIDE DEF v
<1>6. \A i \in 1..Len(v) : v[i] = r[i]
  <2> TAKE i \in 1..Len(v)
  <2>1. CASE i \in 1..Len(s)
    BY <1>2, <1>3, <1>5, <2>1
  <2>2. CASE i \notin 1..Len(s)
    <3>1. i - Len(s) \in 1..Len(t) /\ Len(s) + (i - Len(s)) = i
      BY <1>1, <1>2, <1>5, <2>2
    <3>2. r[Len(s) + (i - Len(s))] = q[i - Len(s)]
      BY <1>4, <3>1
    <3>3. v[Len(s) + (i - Len(s))] = q[i - Len(s)]
      BY <1>2, <1>5, <3>1
    <3> QED
      BY <3>1, <3>2, <3>3
  <2> QED
    BY <2>1, <2>2
<1>7. v = r
  BY <1>1, <1>2, <1>5, <1>6, SeqEqual
<1>8. FlattenSeq(v) = FlattenSeq(p) \o FlattenSeq(q)
  BY <1>2, FlatOfJoined DEF v
<1> QED
  BY <1>2, <1>7, <1>8 DEF u

----------------------------------------------------------------------------
(* What a request has of a name, level by level.                           *)

LEMMA NoEntries ==
  ASSUME NEW c, NEW n
  PROVE  Shown(c, n, <<>>) = <<>>
<1>1. DOMAIN <<>> = {}
  OBVIOUS
<1>2. Shown(c, n, <<>>) \in Seq(E) /\ Len(Shown(c, n, <<>>)) = 0
  BY DEF Shown
<1> QED
  BY <1>2

LEMMA ShownIs ==
  ASSUME NEW c, NEW n \in Name, NEW s \in Seq(Content)
  PROVE  /\ Shown(c, n, s) \in Seq(E) /\ Len(Shown(c, n, s)) = Len(s)
         /\ \A j \in DOMAIN Shown(c, n, s) : Shown(c, n, s)[j][1] = n
         /\ s # <<>> =>
              /\ Tail(s) \in Seq(Content)
              /\ Shown(c, n, <<Head(s)>>) \in Seq(E)
              /\ Shown(c, n, s) = Shown(c, n, <<Head(s)>>) \o Shown(c, n, Tail(s))
<1> DEFINE X(e) == <<n, IF c.styled THEN Styled ELSE e>>
<1>1. \A e \in Content : X(e) \in E /\ X(e)[1] = n
  BY DEF E, Content
<1> HIDE DEF X
<1>2. ASSUME NEW t \in Seq(Content)
      PROVE  /\ Shown(c, n, t) \in Seq(E) /\ Len(Shown(c, n, t)) = Len(t)
             /\ \A j \in 1..Len(t) : Shown(c, n, t)[j] = X(t[j])
  <2>1. Len(t) \in Nat /\ DOMAIN t = 1..Len(t) /\ \A j \in 1..Len(t) : t[j] \in Content
    OBVIOUS
  <2>2. Shown(c, n, t) = [j \in 1..Len(t) |-> X(t[j])]
    BY <2>1 DEF Shown, X
  <2>3. Shown(c, n, t) \in [1..Len(t) -> E]
    BY <1>1, <2>1, <2>2
  <2> QED
    BY <2>1, <2>2, <2>3
<1>3. \A j \in DOMAIN Shown(c, n, s) : Shown(c, n, s)[j][1] = n
  BY <1>1, <1>2
<1>4. ASSUME s # <<>>
      PROVE  /\ Tail(s) \in Seq(Content)
             /\ Shown(c, n, <<Head(s)>>) \in Seq(E)
             /\ Shown(c, n, s) = Shown(c, n, <<Head(s)>>) \o Shown(c, n, Tail(s))
  <2> DEFINE h == <<Head(s)>>
             t == Tail(s)
  <2>1. /\ h \in Seq(Content) /\ Len(h) = 1 /\ h[1] = s[1]
        /\ t \in Seq(Content) /\ Len(t) = Len(s) - 1 /\ Len(s) \in Nat /\ Len(s) >= 1
        /\ \A j \in 1..Len(t) : t[j] = s[j + 1]
    BY <1>4
  <2> HIDE DEF h, t
  <2> DEFINE a == Shown(c, n, h)
             b == Shown(c, n, t)
             w == Shown(c, n, s)
  <2>2. /\ a \in Seq(E) /\ Len(a) = 1 /\ a[1] = X(s[1])
        /\ b \in Seq(E) /\ Len(b) = Len(s) - 1 /\ \A j \in 1..Len(b) : b[j] = X(s[j + 1])
        /\ w \in Seq(E) /\ Len(w) = Len(s) /\ \A j \in 1..Len(s) : w[j] = X(s[j])
    <3>1. a \in Seq(E) /\ Len(a) = 1 /\ a[1] = X(s[1])
      <4>1. 1 \in 1..Len(h)
        BY <2>1
      <4> QED
        BY <1>2, <2>1, <4>1
    <3>2. b \in Seq(E) /\ Len(b) = Len(s) - 1 /\ \A j \in 1..Len(b) : b[j] = X(s[j + 1])
      BY <1>2, <2>1
    <3> QED
      BY <1>2, <3>1, <3>2
  <2> HIDE DEF a, b, w
  <2> DEFINE u == a \o b
  <2>3. /\ u \in Seq(E) /\ Len(u) = Len(a) + Len(b)
        /\ \A j \in 1..Len(a) : u[j] = a[j]
        /\ \A j \in 1..Len(b) : u[Len(a) + j] = b[j]
    <3>1. a \in Seq(E) /\ b \in Seq(E)
      BY <2>2
    <3> QED
      BY ONLY <3>1, Joint
  <2> HIDE DEF u
  <2>4. Len(u) = Len(w) /\ \A j \in 1..Len(w) : u[j] = w[j]
    <3>1. Len(u) = Len(w)
      BY <2>1, <2>2, <2>3
    <3>2. u[1] = w[1]
      BY <2>1, <2>2, <2>3
    <3>3. ASSUME NEW j \in 1..Len(w), j # 1 PROVE u[j] = w[j]
      <4>1. j - 1 \in 1..Len(b) /\ j = Len(a) + (j - 1) /\ (j - 1) + 1 = j
        BY <2>1, <2>2, <3>3
      <4>2. u[Len(a) + (j - 1)] = b[j - 1]
        BY <2>3, <4>1
      <4> QED
        BY <2>2, <4>1, <4>2
    <3> QED
      BY <3>1, <3>2, <3>3
  <2>5. u = w
    BY <2>2, <2>3, <2>4, SeqEqual
  <2> QED
    BY <2>1, <2>2, <2>5 DEF u, a, b, w, h, t
<1> QED
  BY <1>2, <1>3, <1>4

LEMMA OfType ==
  ASSUME NEW c \in Knowledge, NEW n \in Name
  PROVE  Of(c, n) \in Seq(E) /\ \A j \in DOMAIN Of(c, n) : Of(c, n)[j][1] = n
<1> DEFINE s == IF c.parts = <<>> THEN <<Plain>> ELSE Hits[Last(c.parts)][n]
<1>1. s \in Seq(Content)
  <2>1. <<Plain>> \in Seq(Content)
    BY DEF Content
  <2>2. c.parts \in Seq(Query)
    BY DEF Knowledge
  <2>3. c.parts # <<>> => Last(c.parts) \in Query
    BY <2>2 DEF Last
  <2>4. c.parts # <<>> => Hits[Last(c.parts)][n] \in Seq(Result)
    BY <2>3, IteratorAssumption
  <2>5. \A t \in Seq(Result) : t \in Seq(Content)
    BY DEF Content
  <2> QED
    BY <2>1, <2>4, <2>5
<1>2. Of(c, n) = IF Found(c, n) THEN Shown(c, n, s) ELSE <<>>
  BY DEF Of, Shown
<1> HIDE DEF s
<1>3. CASE Found(c, n)
  <2>1. Of(c, n) = Shown(c, n, s)
    BY <1>2, <1>3
  <2>2. Shown(c, n, s) \in Seq(E) /\ \A j \in DOMAIN Shown(c, n, s) : Shown(c, n, s)[j][1] = n
    BY <1>1, ShownIs
  <2> QED
    BY <2>1, <2>2
<1>4. CASE ~Found(c, n)
  BY <1>2, <1>4
<1> QED
  BY <1>3, <1>4

LEMMA YieldType ==
  ASSUME NEW stages \in Seq(Stage), NEW cell \in Cell, NEW k \in 0..Len(stages),
         cell.kind = "results" => cell.query \in Query, NEW n \in Name
  PROVE  Yield(stages, cell, k, n) \in Seq(Content)
<1>1. CASE k = 0
  BY <1>1, ContentsType DEF Yield
<1>2. CASE k # 0
  <2>1. k \in 1..Len(stages) /\ stages[k] \in Stage
    BY <1>2
  <2>2. Hits[stages[k].query][n] \in Seq(Result)
    BY <2>1, IteratorAssumption DEF Stage
  <2>3. \A t \in Seq(Result) : t \in Seq(Content)
    BY DEF Content
  <2>4. Yield(stages, cell, k, n) = Hits[stages[k].query][n]
    BY <1>2 DEF Yield
  <2> QED
    BY <2>2, <2>3, <2>4
<1> QED
  BY <1>1, <1>2

\* What is promised of a name is what it yields at the top, if it gets there.
LEMMA OfIs ==
  ASSUME NEW c \in Knowledge, NEW stages \in Seq(Stage), NEW cell \in Cell,
         Serves(c, stages, cell), NEW n \in Name
  PROVE  LET m == Len(stages)
         IN  Of(c, n) = IF Passes(stages, cell, m, n)
                        THEN Shown(c, n, Yield(stages, cell, m, n)) ELSE <<>>
<1> DEFINE m == Len(stages)
           Y(k) == Yield(stages, cell, k, n)
           s == IF c.parts = <<>> THEN <<Plain>> ELSE Hits[Last(c.parts)][n]
<1>1. m \in Nat /\ DOMAIN stages = 1..m /\ c.parts \in Seq(Query) /\ Len(c.parts) \in Nat
  BY DEF Knowledge
<1>2. Of(c, n) = IF Found(c, n) THEN Shown(c, n, s) ELSE <<>>
  BY DEF Of, Shown
<1>3. cell.names = c.names /\ (cell.kind \in {"container", "results"} <=> c.db)
  <2>1. c.db \in BOOLEAN /\ c.order \in {"natural", "numerical"}
    BY DEF Knowledge
  <2> QED
    BY <2>1 DEF Serves, KindOf
<1>4. /\ s = Y(m)
      /\ (\A k \in 1..(Len(c.parts) - 1) : Hits[c.parts[k]][n] # <<>>)
           <=> \A k \in 0..(m - 1) : Y(k) # <<>>
  <2>1. CASE c.db /\ c.parts # <<>>
    <3>1. /\ cell.kind = "results" /\ cell.query = c.parts[1] /\ Len(c.parts) = m + 1
          /\ \A k \in 1..m : stages[k].query = c.parts[k + 1]
      BY <1>1, <2>1 DEF Serves, KindOf, First
    <3>2. \A k \in 0..m : Y(k) = Hits[c.parts[k + 1]][n]
      <4>1. Y(0) = Hits[c.parts[0 + 1]][n]
        BY <3>1 DEF Yield, Contents
      <4>2. \A k \in 1..m : Y(k) = Hits[c.parts[k + 1]][n]
        BY <3>1 DEF Yield
      <4> QED
        BY <1>1, <4>1, <4>2
    <3> HIDE DEF Y
    <3>3. Last(c.parts) = c.parts[m + 1]
      BY <1>1, <2>1, <3>1 DEF Last
    <3>4. s = Y(m)
      BY <1>1, <2>1, <3>2, <3>3
    <3>5. ASSUME \A k \in 1..(Len(c.parts) - 1) : Hits[c.parts[k]][n] # <<>>, NEW k \in 0..(m - 1)
          PROVE  Y(k) # <<>>
      <4>1. k + 1 \in 1..(Len(c.parts) - 1) /\ k \in 0..m
        BY <1>1, <3>1
      <4> QED
        BY <3>2, <3>5, <4>1
    <3>6. ASSUME \A k \in 0..(m - 1) : Y(k) # <<>>, NEW k \in 1..(Len(c.parts) - 1)
          PROVE  Hits[c.parts[k]][n] # <<>>
      <4>1. k - 1 \in 0..(m - 1) /\ k - 1 \in 0..m /\ (k - 1) + 1 = k
        BY <1>1, <3>1
      <4> QED
        BY <3>2, <3>6, <4>1
    <3> QED
      BY <3>4, <3>5, <3>6
  <2>2. CASE ~(c.db /\ c.parts # <<>>)
    <3>1. /\ cell.kind # "results" /\ Len(c.parts) = m
          /\ \A k \in 1..m : stages[k].query = c.parts[k]
      <4>1. First(c) = 0 /\ KindOf(c) # "results"
        BY <2>2 DEF First, KindOf
      <4>2. /\ cell.kind # "results" /\ Len(c.parts) = m
            /\ \A k \in 1..m : stages[k].query = c.parts[k + 0]
        BY <1>1, <4>1 DEF Serves
      <4> QED
        BY <4>2
    <3>2. Y(0) = <<Plain>> /\ Y(0) # <<>>
      BY <3>1 DEF Yield, Contents
    <3>3. \A k \in 1..m : Y(k) = Hits[c.parts[k]][n]
      BY <3>1 DEF Yield
    <3> HIDE DEF Y
    <3>4. s = Y(m)
      <4>1. CASE m = 0
        <5>1. c.parts = <<>>
          BY <1>1, <3>1, <4>1
        <5> QED
          BY <3>2, <4>1, <5>1
      <4>2. CASE m # 0
        <5>1. c.parts # <<>> /\ Last(c.parts) = c.parts[m] /\ m \in 1..m
          BY <1>1, <3>1, <4>2 DEF Last
        <5> QED
          BY <3>3, <5>1
      <4> QED
        BY <4>1, <4>2
    <3>5. ASSUME \A k \in 1..(Len(c.parts) - 1) : Hits[c.parts[k]][n] # <<>>, NEW k \in 0..(m - 1)
          PROVE  Y(k) # <<>>
      <4>1. k = 0 \/ (k \in 1..(Len(c.parts) - 1) /\ k \in 1..m)
        BY <1>1, <3>1
      <4> QED
        BY <3>2, <3>3, <3>5, <4>1
    <3>6. ASSUME \A k \in 0..(m - 1) : Y(k) # <<>>, NEW k \in 1..(Len(c.parts) - 1)
          PROVE  Hits[c.parts[k]][n] # <<>>
      <4>1. k \in 0..(m - 1) /\ k \in 1..m
        BY <1>1, <3>1
      <4> QED
        BY <3>3, <3>6, <4>1
    <3> QED
      BY <3>4, <3>5, <3>6
  <2> QED
    BY <2>1, <2>2
<1> HIDE DEF s, Y
<1>5. (\A k \in 0..m : Y(k) # <<>>) <=> (Y(m) # <<>> /\ \A k \in 0..(m - 1) : Y(k) # <<>>)
  BY <1>1
<1>6. Passes(stages, cell, m, n) <=> Found(c, n) /\ Y(m) # <<>>
  BY <1>3, <1>4, <1>5 DEF Passes, Found, Y
<1>7. Y(m) = <<>> => Shown(c, n, Y(m)) = <<>>
  BY NoEntries
<1> QED
  BY <1>2, <1>4, <1>6, <1>7 DEF Y

----------------------------------------------------------------------------
(* What is certain of entries put together, name by name.                  *)

LEMMA CertainNone ==
  ASSUME NEW c, NEW s \in Seq(E), \A j \in DOMAIN s : s[j][1] \in Unsure(c)
  PROVE  Certain(c, s) = <<>>
<1> DEFINE p == Parts(c, s)
<1>1. p \in Seq(Seq(E)) /\ Len(p) = Len(s) /\ Certain(c, s) = FlattenSeq(p)
  BY PartsType
<1>2. \A i \in 1..Len(p) : p[i] = <<>>
  <2>1. DOMAIN s = 1..Len(s)
    OBVIOUS
  <2> QED
    BY <1>1, <2>1 DEF Parts
<1> HIDE DEF p
<1>3. FlattenSeq(p) = UpTo(p, E)[0]
  BY <1>1, <1>2, NothingAfter
<1> QED
  BY <1>1, <1>3, Joining

LEMMA CertainSame ==
  ASSUME NEW c, NEW s \in Seq(E), \A j \in DOMAIN s : s[j][1] \notin Unsure(c)
  PROVE  Certain(c, s) = s
<1> DEFINE p == Parts(c, s)
<1>1. p \in Seq(Seq(E)) /\ Len(p) = Len(s) /\ Certain(c, s) = FlattenSeq(p)
  BY PartsType
<1>2. \A i \in 1..Len(s) : p[i] = <<s[i]>>
  <2>1. DOMAIN s = 1..Len(s)
    OBVIOUS
  <2> QED
    BY <1>1, <2>1 DEF Parts
<1> HIDE DEF p
<1> QED
  BY <1>1, <1>2, Singles

CertainParts(c, G) == [i \in DOMAIN G |-> Certain(c, G[i])]

LEMMA CertainPartsType ==
  ASSUME NEW c, NEW G \in Seq(Seq(E))
  PROVE  /\ CertainParts(c, G) \in Seq(Seq(E)) /\ Len(CertainParts(c, G)) = Len(G)
         /\ \A i \in 1..Len(G) : CertainParts(c, G)[i] = Certain(c, G[i]) /\ G[i] \in Seq(E)
<1>1. Len(G) \in Nat /\ DOMAIN G = 1..Len(G) /\ \A i \in 1..Len(G) : G[i] \in Seq(E)
  OBVIOUS
<1>2. \A i \in 1..Len(G) : Certain(c, G[i]) \in Seq(E)
  BY <1>1, PartsType
<1> DEFINE H == CertainParts(c, G)
           T == Seq(E)
<1>3. H \in [1..Len(G) -> T]
  BY <1>1, <1>2 DEF CertainParts
<1>4. \A i \in 1..Len(G) : H[i] = Certain(c, G[i])
  BY <1>1 DEF CertainParts
<1> HIDE DEF H, T
<1>5. H \in Seq(T) /\ Len(H) = Len(G)
  <2> DEFINE n == Len(G)
  <2>1. n \in Nat /\ H \in [1..n -> T]
    BY <1>1, <1>3
  <2> HIDE DEF n
  <2>2. H \in Seq(T) /\ Len(H) = n
    BY ONLY <2>1
  <2> QED
    BY <2>2 DEF n
<1> QED
  BY <1>1, <1>4, <1>5 DEF H, T

LEMMA CertainFlat ==
  ASSUME NEW c, NEW G \in Seq(Seq(E))
  PROVE  Certain(c, FlattenSeq(G)) = FlattenSeq(CertainParts(c, G))
<1> DEFINE H == CertainParts(c, G)
           n == Len(G)
           f == UpTo(G, E)
           g == UpTo(H, E)
           J(x, y) == x \o y
           Q == {i \in Nat : i <= n => Certain(c, f[i]) = g[i]}
<1>1. /\ n \in Nat /\ H \in Seq(Seq(E)) /\ Len(H) = n
      /\ \A i \in 1..n : H[i] = Certain(c, G[i]) /\ G[i] \in Seq(E)
  BY CertainPartsType
<1> HIDE DEF H
<1>2. f \in [0..n -> Seq(E)] /\ f[0] = <<>> /\ \A i \in 1..n : f[i] = J(f[i - 1], G[i])
  BY Joining
<1>3. g \in [0..n -> Seq(E)] /\ g[0] = <<>> /\ \A i \in 1..n : g[i] = J(g[i - 1], H[i])
  BY <1>1, Joining
<1>4. FlattenSeq(G) = f[n] /\ FlattenSeq(H) = g[n]
  BY <1>1, FlatIsJoined
<1>5. \A s, t \in Seq(E) : Certain(c, J(s, t)) = J(Certain(c, s), Certain(c, t))
  BY CertainJoined
<1> HIDE DEF f, g, n, J
<1>6. 0 \in Q
  <2>1. Certain(c, <<>>) = <<>>
    <3>1. <<>> \in Seq(E) /\ DOMAIN <<>> = {}
      OBVIOUS
    <3> QED
      BY <3>1, CertainNone
  <2> QED
    BY <1>2, <1>3, <2>1
<1>7. ASSUME NEW i \in Nat, i \in Q PROVE i + 1 \in Q
  <2> SUFFICES ASSUME i + 1 <= n PROVE Certain(c, f[i + 1]) = g[i + 1]
    OBVIOUS
  <2>1. i + 1 \in 1..n /\ i \in 0..n /\ (i + 1) - 1 = i /\ i <= n
    BY <1>1
  <2>2. f[i + 1] = J(f[i], G[i + 1]) /\ g[i + 1] = J(g[i], H[i + 1]) /\ f[i] \in Seq(E)
    BY <1>2, <1>3, <2>1
  <2>3. Certain(c, f[i]) = g[i] /\ H[i + 1] = Certain(c, G[i + 1]) /\ G[i + 1] \in Seq(E)
    BY <1>1, <1>7, <2>1
  <2> DEFINE a == f[i]
             b == G[i + 1]
  <2>4. Certain(c, J(a, b)) = J(Certain(c, a), Certain(c, b))
    BY <1>5, <2>2, <2>3
  <2> QED
    BY <2>2, <2>3, <2>4
<1>8. Nat \subseteq Q
  <2> HIDE DEF Q
  <2> QED
    BY <1>6, <1>7, Induction
<1>9. Certain(c, f[n]) = g[n]
  BY <1>1, <1>8
<1> QED
  BY <1>4, <1>9 DEF H

----------------------------------------------------------------------------
(* What was delivered, when an entry is taken and when the top of the       *)
(* pipeline comes to another name.                                          *)

SameRequest(c, d) ==
  /\ d.db = c.db /\ d.parts = c.parts /\ d.order = c.order /\ d.styled = c.styled
  /\ d.names = c.names

LEMMA SameRequestIs ==
  ASSUME NEW c, NEW d, SameRequest(c, d)
  PROVE  /\ OrderOf(d) = OrderOf(c) /\ KindOf(d) = KindOf(c) /\ First(d) = First(c)
         /\ \A n : Of(d, n) = Of(c, n)
         /\ \A n, s : Shown(d, n, s) = Shown(c, n, s)
<1>1. OrderOf(d) = OrderOf(c) /\ KindOf(d) = KindOf(c) /\ First(d) = First(c)
  BY DEF SameRequest, OrderOf, KindOf, First
<1>2. ASSUME NEW n PROVE Of(d, n) = Of(c, n)
  <2>1. Found(d, n) = Found(c, n)
    BY DEF SameRequest, Found
  <2> QED
    BY <2>1 DEF SameRequest, Of
<1>3. \A n, s : Shown(d, n, s) = Shown(c, n, s)
  BY DEF SameRequest, Shown
<1> QED
  BY <1>1, <1>2, <1>3

LEMMA DeliveredTakes ==
  ASSUME NEW c \in Knowledge, NEW d \in Knowledge, NEW O \in Seq(Name),
         NEW p \in Nat, p \in DOMAIN O, NEW left \in Seq(Content), left # <<>>,
         NEW G \in Groups(O), Delivered(c, O, p, left, G),
         SameRequest(c, d), Unsure(c) \subseteq Unsure(d),
         d.got = c.got \o Shown(c, O[p], <<Head(left)>>)
  PROVE  \E H \in Groups(O) : Delivered(d, O, p, Tail(left), H)
<1> DEFINE n == O[p]
           e == Shown(c, n, <<Head(left)>>)
           rest == Tail(left)
           J(x, y) == x \o y
           H == [G EXCEPT ![p] = J(@, e)]
<1>1. n \in Name /\ Len(O) \in Nat /\ DOMAIN O = 1..Len(O)
  OBVIOUS
<1>2. /\ e \in Seq(E) /\ rest \in Seq(Content) /\ \A j \in DOMAIN e : e[j][1] = n
      /\ Shown(c, n, left) = J(e, Shown(c, n, rest)) /\ Shown(c, n, rest) \in Seq(E)
  <2>1. <<Head(left)>> \in Seq(Content)
    OBVIOUS
  <2> QED
    BY <1>1, <2>1, ShownIs
<1> HIDE DEF e, rest, n
<1>3. G \in Seq(Seq(E)) /\ Len(G) = Len(O)
  BY DEF Groups
<1>4. /\ c.got = FlattenSeq(G)
      /\ \A i \in 1..Len(G) : i > p => G[i] = <<>>
      /\ \A j \in DOMAIN G[p] : G[p][j][1] = n
      /\ n \notin Unsure(c) => J(G[p], Shown(c, n, left)) = Of(c, n)
  BY <1>1, <1>3 DEF Delivered, n
<1>5. /\ H \in Seq(Seq(E)) /\ Len(H) = Len(O) /\ H[p] = J(G[p], e) /\ G[p] \in Seq(E)
      /\ \A i \in 1..Len(O) : i # p => H[i] = G[i]
  <2> DEFINE T == Seq(E)
  <2>1. G \in Seq(T) /\ Len(G) = Len(O) /\ p \in 1..Len(G) /\ G[p] \in T
    BY <1>1, <1>3
  <2>2. J(G[p], e) \in T
    BY <1>2, <2>1
  <2> HIDE DEF T, J
  <2>3. /\ H \in Seq(T) /\ Len(H) = Len(O) /\ H[p] = J(G[p], e)
        /\ \A i \in 1..Len(O) : i # p => H[i] = G[i]
    BY <2>1, <2>2
  <2> QED
    BY <2>1, <2>3 DEF T
<1> HIDE DEF H
<1>6. FlattenSeq(H) = J(FlattenSeq(G), e)
  <2>1. p \in 1..Len(G) /\ Len(H) = Len(G) /\ \A i \in 1..Len(G) : i # p => H[i] = G[i]
    BY <1>1, <1>3, <1>5
  <2> QED
    BY <1>2, <1>3, <1>4, <1>5, <2>1, LastGrows
<1>7. \A m, s : Of(d, m) = Of(c, m) /\ Shown(d, m, s) = Shown(c, m, s)
  BY SameRequestIs
<1>8. \A j \in DOMAIN H[p] : H[p][j][1] = n
  <2> DEFINE a == G[p]
             b == J(a, e)
  <2>1. a \in Seq(E)
    BY <1>5
  <2>2. \A j \in DOMAIN a : a[j][1] = n
    BY <1>4
  <2> HIDE DEF a
  <2>3. \A j \in DOMAIN b : b[j][1] = n
    <3>1. /\ b \in Seq(E)
          /\ \A j \in 1..Len(a) : b[j] = a[j]
          /\ \A j \in 1..Len(e) : b[Len(a) + j] = e[j]
          /\ \A j \in 1..Len(b) : j \notin 1..Len(a) => j - Len(a) \in 1..Len(e)
      BY ONLY <1>2, <2>1, Joint
    <3>2. /\ DOMAIN a = 1..Len(a) /\ DOMAIN e = 1..Len(e) /\ DOMAIN b = 1..Len(b)
          /\ Len(a) \in Nat
      BY <1>2, <2>1, <3>1
    <3> HIDE DEF b
    <3> TAKE j \in DOMAIN b
    <3>3. CASE j \in 1..Len(a)
      BY <2>2, <3>1, <3>2, <3>3
    <3>4. CASE j \notin 1..Len(a)
      <4>1. j - Len(a) \in 1..Len(e) /\ Len(a) + (j - Len(a)) = j
        BY <3>1, <3>2, <3>4
      <4>2. b[Len(a) + (j - Len(a))] = e[j - Len(a)]
        BY <3>1, <4>1
      <4> QED
        BY <1>2, <3>2, <4>1, <4>2
    <3> QED
      BY <3>3, <3>4
  <2> QED
    BY <1>5, <2>3 DEF a
<1>9. n \notin Unsure(d) => J(H[p], Shown(c, n, rest)) = Of(c, n)
  <2> SUFFICES ASSUME n \notin Unsure(d) PROVE J(H[p], Shown(c, n, rest)) = Of(c, n)
    OBVIOUS
  <2> DEFINE a == G[p]
             b == Shown(c, n, rest)
  <2>1. a \in Seq(E) /\ b \in Seq(E)
    BY <1>2, <1>5
  <2>2. J(a, J(e, b)) = Of(c, n)
    BY <1>2, <1>4
  <2> HIDE DEF a, b
  <2>3. J(J(a, e), b) = J(a, J(e, b))
    <3>1. e \in Seq(E)
      BY <1>2
    <3> QED
      BY ONLY <2>1, <3>1, Regrouped DEF J
  <2> QED
    BY <1>5, <2>2, <2>3 DEF a, b
<1>10. d.got = FlattenSeq(H)
  BY <1>4, <1>6 DEF e, n
<1> HIDE DEF J
<1>11. Delivered(d, O, p, rest, H)
  <2> SUFFICES ASSUME NEW i \in DOMAIN O
               PROVE  /\ \A j \in DOMAIN H[i] : H[i][j][1] = O[i]
                      /\ i > p => H[i] = <<>>
                      /\ i < p /\ O[i] \notin Unsure(d) => H[i] = Of(d, O[i])
                      /\ i = p /\ O[i] \notin Unsure(d) =>
                           J(H[i], Shown(d, O[i], rest)) = Of(d, O[i])
    BY <1>10 DEF Delivered, J
  <2>1. CASE i = p
    BY <1>7, <1>8, <1>9, <2>1 DEF n
  <2>2. CASE i # p
    <3>1. H[i] = G[i]
      BY <1>1, <1>5, <2>2
    <3>2. /\ \A j \in DOMAIN G[i] : G[i][j][1] = O[i]
          /\ i > p => G[i] = <<>>
          /\ i < p /\ O[i] \notin Unsure(c) => G[i] = Of(c, O[i])
      BY DEF Delivered
    <3>3. Of(d, O[i]) = Of(c, O[i]) /\ (O[i] \notin Unsure(d) => O[i] \notin Unsure(c))
      BY <1>7
    <3> QED
      BY ONLY <2>2, <3>1, <3>2, <3>3
  <2> QED
    BY <2>1, <2>2
<1> QED
  BY <1>5, <1>11 DEF Groups, rest

LEMMA DeliveredMoves ==
  ASSUME NEW c \in Knowledge, NEW d \in Knowledge, NEW O \in Seq(Name),
         NEW p \in Nat, NEW q \in Nat, p <= q, NEW left, NEW rest,
         NEW G \in Groups(O), Delivered(c, O, p, left, G),
         SameRequest(c, d), Unsure(c) \subseteq Unsure(d), d.got = c.got,
         p = q => rest = left,
         p < q => left = <<>>,
         \A i \in DOMAIN O : p < i /\ i < q /\ O[i] \notin Unsure(d) => Of(c, O[i]) = <<>>,
         \A i \in DOMAIN O : p < i /\ i = q /\ O[i] \notin Unsure(d) =>
           /\ Shown(c, O[i], rest) = Of(c, O[i])
           /\ Shown(c, O[i], rest) \in Seq(E)
  PROVE  Delivered(d, O, q, rest, G)
<1>1. DOMAIN O = 1..Len(O) /\ Len(O) \in Nat
  OBVIOUS
<1>2. \A m, s : Of(d, m) = Of(c, m) /\ Shown(d, m, s) = Shown(c, m, s)
  BY SameRequestIs
<1>3. G \in Seq(Seq(E)) /\ DOMAIN G = DOMAIN O /\ \A i \in DOMAIN O : G[i] \in Seq(E)
  BY DEF Groups
<1> DEFINE J(x, y) == x \o y
<1>4. \A s \in Seq(E) : J(s, <<>>) = s /\ J(<<>>, s) = s
  OBVIOUS
<1> HIDE DEF J
<1>0. d.got = FlattenSeq(G)
  BY DEF Delivered
<1> SUFFICES ASSUME NEW i \in DOMAIN O
             PROVE  /\ \A j \in DOMAIN G[i] : G[i][j][1] = O[i]
                    /\ i > q => G[i] = <<>>
                    /\ i < q /\ O[i] \notin Unsure(d) => G[i] = Of(d, O[i])
                    /\ i = q /\ O[i] \notin Unsure(d) =>
                         J(G[i], Shown(d, O[i], rest)) = Of(d, O[i])
  BY <1>0 DEF Delivered, J
<1>5. /\ \A j \in DOMAIN G[i] : G[i][j][1] = O[i]
      /\ i > p => G[i] = <<>>
      /\ i < p /\ O[i] \notin Unsure(d) => G[i] = Of(c, O[i])
      /\ i = p /\ O[i] \notin Unsure(d) => J(G[i], Shown(c, O[i], left)) = Of(c, O[i])
  BY DEF Delivered, J
<1>6. CASE p = q
  BY <1>1, <1>2, <1>5, <1>6
<1>7. CASE p < q
  <2>1. Shown(c, O[i], left) = <<>>
    BY <1>7, NoEntries
  <2>2. i > q => i > p
    BY <1>1, <1>7
  <2>3. i < q /\ O[i] \notin Unsure(d) => G[i] = Of(c, O[i])
    <3>1. i < p \/ i = p \/ (p < i)
      BY <1>1
    <3> QED
      BY <1>3, <1>4, <1>5, <2>1, <3>1
  <2>4. i = q /\ O[i] \notin Unsure(d) => J(G[i], Shown(c, O[i], rest)) = Of(c, O[i])
    BY <1>1, <1>4, <1>5, <1>7
  <2> QED
    BY <1>2, <1>5, <2>2, <2>3, <2>4
<1> QED
  BY <1>6, <1>7

\* What was delivered is a beginning of what was promised, and all of it when
\* nothing of that is left.
LEMMA DeliveredIs ==
  ASSUME NEW c \in Knowledge, NEW p \in Nat, NEW left \in Seq(Content),
         NEW G \in Groups(OrderOf(c)), Delivered(c, OrderOf(c), p, left, G)
  PROVE  /\ IsPrefix(Certain(c, c.got), Certain(c, Promised(c)))
         /\ (/\ left = <<>>
             /\ \A i \in DOMAIN OrderOf(c) :
                  i > p /\ OrderOf(c)[i] \notin Unsure(c) => Of(c, OrderOf(c)[i]) = <<>>)
              => Certain(c, c.got) = Certain(c, Promised(c))
<1> DEFINE O == OrderOf(c)
           all == [i \in DOMAIN O |-> Of(c, O[i])]
           A == CertainParts(c, G)
           B == CertainParts(c, all)
           J(x, y) == x \o y
<1>1. O \in Seq(Name) /\ Len(O) \in Nat /\ DOMAIN O = 1..Len(O) /\ \A i \in 1..Len(O) : O[i] \in Name
  <2>1. O \in {Natural, Numerical}
    BY DEF OrderOf
  <2> HIDE DEF O
  <2>2. O \in Seq(Name)
    BY <2>1, IteratorAssumption DEF Lists
  <2> QED
    BY <2>2
<1> HIDE DEF O
<1>2. \A i \in 1..Len(O) : /\ Of(c, O[i]) \in Seq(E)
                           /\ \A j \in DOMAIN Of(c, O[i]) : Of(c, O[i])[j][1] = O[i]
  BY <1>1, OfType
<1>3. /\ all \in Seq(Seq(E)) /\ Len(all) = Len(O) /\ \A i \in 1..Len(O) : all[i] = Of(c, O[i])
  <2> DEFINE T == Seq(E)
  <2>1. all \in [1..Len(O) -> T]
    BY <1>1, <1>2
  <2>2. \A i \in 1..Len(O) : all[i] = Of(c, O[i])
    BY <1>1
  <2> HIDE DEF all, T
  <2>3. all \in Seq(T) /\ Len(all) = Len(O)
    BY <1>1, <2>1
  <2> QED
    BY <2>2, <2>3 DEF T
<1>4. Promised(c) = FlattenSeq(all)
  BY DEF Promised, O
<1>5. G \in Seq(Seq(E)) /\ Len(G) = Len(O) /\ c.got = FlattenSeq(G)
  BY DEF Groups, Delivered, O
<1> HIDE DEF all
<1>6. /\ A \in Seq(Seq(E)) /\ Len(A) = Len(O)
      /\ \A i \in 1..Len(O) : A[i] = Certain(c, G[i]) /\ G[i] \in Seq(E)
  BY <1>5, CertainPartsType
<1>7. /\ B \in Seq(Seq(E)) /\ Len(B) = Len(O)
      /\ \A i \in 1..Len(O) : B[i] = Certain(c, Of(c, O[i]))
  BY <1>3, CertainPartsType
<1>8. FlattenSeq(A) = Certain(c, c.got) /\ FlattenSeq(B) = Certain(c, Promised(c))
  BY <1>3, <1>4, <1>5, CertainFlat
<1> HIDE DEF A, B
<1>9. ASSUME NEW i \in 1..Len(O)
      PROVE  /\ O[i] \in Unsure(c) => A[i] = <<>> /\ B[i] = <<>>
             /\ O[i] \notin Unsure(c) => A[i] = G[i] /\ B[i] = Of(c, O[i])
  <2>1. \A j \in DOMAIN G[i] : G[i][j][1] = O[i]
    BY <1>1 DEF Delivered, O
  <2>2. O[i] \in Unsure(c) => Certain(c, G[i]) = <<>>
    BY <1>6, <2>1, CertainNone
  <2>3. O[i] \in Unsure(c) => Certain(c, Of(c, O[i])) = <<>>
    BY <1>2, CertainNone
  <2>4. O[i] \notin Unsure(c) => Certain(c, G[i]) = G[i]
    BY <1>6, <2>1, CertainSame
  <2>5. O[i] \notin Unsure(c) => Certain(c, Of(c, O[i])) = Of(c, O[i])
    BY <1>2, CertainSame
  <2> QED
    BY <1>6, <1>7, <2>2, <2>3, <2>4, <2>5
<1>10. \A i \in 1..Len(O) : i < p => A[i] = B[i]
  BY <1>1, <1>9 DEF Delivered, O
<1>11. \A i \in 1..Len(O) : i > p => A[i] = <<>>
  <2>1. \A i \in 1..Len(O) : i > p => G[i] = <<>>
    BY <1>1 DEF Delivered, O
  <2> QED
    BY <1>9, <2>1
<1>12. p \in 1..Len(O) /\ O[p] \notin Unsure(c) =>
         /\ J(G[p], Shown(c, O[p], left)) = Of(c, O[p])
         /\ Shown(c, O[p], left) \in Seq(E)
  <2>1. p \in 1..Len(O) => Shown(c, O[p], left) \in Seq(E)
    BY <1>1, ShownIs
  <2> QED
    BY <1>1, <2>1 DEF Delivered, O
<1>13. \A s \in Seq(E) : J(s, <<>>) = s
  OBVIOUS
<1>14. <<>> \in Seq(E)
  OBVIOUS
<1>15. p \in 1..Len(O) => \E u \in Seq(E) : J(A[p], u) = B[p]
  <2> HIDE DEF J
  <2>1. CASE p \in 1..Len(O) /\ O[p] \in Unsure(c)
    BY <1>9, <1>13, <1>14, <2>1
  <2>2. CASE p \in 1..Len(O) /\ O[p] \notin Unsure(c)
    BY <1>9, <1>12, <2>2
  <2> QED
    BY <2>1, <2>2
<1>16. IsPrefix(FlattenSeq(A), FlattenSeq(B))
  BY <1>6, <1>7, <1>10, <1>11, <1>15, CutShort
<1>17. ASSUME left = <<>>,
              \A i \in DOMAIN O : i > p /\ O[i] \notin Unsure(c) => Of(c, O[i]) = <<>>
       PROVE  FlattenSeq(A) = FlattenSeq(B)
  <2> HIDE DEF J
  <2>1. ASSUME NEW i \in 1..Len(O) PROVE A[i] = B[i]
    <3>1. CASE i < p
      BY <1>10, <3>1
    <3>2. CASE i > p
      BY <1>1, <1>9, <1>11, <1>17, <3>2
    <3>3. CASE i = p
      <4>1. Shown(c, O[p], left) = <<>>
        BY <1>17, NoEntries
      <4>2. CASE O[p] \in Unsure(c)
        BY <1>9, <3>3, <4>2
      <4>3. CASE O[p] \notin Unsure(c)
        <5>1. J(G[p], <<>>) = G[p]
          BY <1>6, <1>13, <3>3
        <5> QED
          BY <1>9, <1>12, <3>3, <4>1, <4>3, <5>1
      <4> QED
        BY <4>2, <4>3
    <3> QED
      BY <1>1, <3>1, <3>2, <3>3
  <2> DEFINE T == Seq(E)
  <2>2. A \in Seq(T) /\ B \in Seq(T)
    BY <1>6, <1>7
  <2> HIDE DEF T
  <2>3. A = B
    BY <1>6, <1>7, <2>1, <2>2, SeqEqual
  <2> QED
    BY <2>3
<1> QED
  BY <1>8, <1>16, <1>17 DEF O

----------------------------------------------------------------------------
(* The levels of an iterator.                                              *)

SameStages(S, T) == Len(T) = Len(S) /\ \A k \in 1..Len(S) : T[k].query = S[k].query

LEMMA WantedIs ==
  ASSUME NEW c, NEW S, NEW cell, NEW k \in Nat
  PROVE  /\ Wanted(c, S, cell, k) \subseteq DOMAIN Order(cell)
         /\ \A i \in Wanted(c, S, cell, k) :
              /\ Order(cell)[i] \notin Unsure(c)
              /\ Yield(S, cell, k, Order(cell)[i]) # <<>>
         /\ k > 0 => Wanted(c, S, cell, k) \subseteq Wanted(c, S, cell, k - 1)
         /\ k > 0 => \A i \in Wanted(c, S, cell, k - 1) :
              Yield(S, cell, k, Order(cell)[i]) # <<>> => i \in Wanted(c, S, cell, k)
<1>1. k \in 0..k /\ k > 0 => 0..k = (0..(k - 1)) \cup {k}
  OBVIOUS
<1>2. ASSUME NEW n PROVE Passes(S, cell, k, n) => Yield(S, cell, k, n) # <<>>
  BY <1>1 DEF Passes
<1>3. ASSUME NEW n, k > 0
      PROVE  Passes(S, cell, k, n) <=> Passes(S, cell, k - 1, n) /\ Yield(S, cell, k, n) # <<>>
  <2>1. k \in 0..k /\ \A j \in 0..k : j = k \/ j \in 0..(k - 1)
    BY <1>3
  <2>2. \A j \in 0..(k - 1) : j \in 0..k
    BY <1>3
  <2> QED
    BY <2>1, <2>2 DEF Passes
<1> QED
  BY <1>2, <1>3 DEF Wanted

LEMMA OfWanted ==
  ASSUME NEW c \in Knowledge, NEW S \in Seq(Stage), NEW cell \in Cell, Serves(c, S, cell),
         NEW i \in DOMAIN Order(cell), Order(cell)[i] \notin Unsure(c)
  PROVE  LET m == Len(S)
         IN  Of(c, Order(cell)[i]) =
               IF i \in Wanted(c, S, cell, m)
               THEN Shown(c, Order(cell)[i], Yield(S, cell, m, Order(cell)[i])) ELSE <<>>
<1>1. Order(cell)[i] \in Name
  BY Orders
<1>2. i \in Wanted(c, S, cell, Len(S)) <=> Passes(S, cell, Len(S), Order(cell)[i])
  BY DEF Wanted
<1> QED
  BY <1>1, <1>2, OfIs

LEMMA SamePipeline ==
  ASSUME NEW S \in Seq(Stage), NEW T \in Seq(Stage), NEW cell, NEW to,
         Alike(cell, to), SameStages(S, T), NEW k \in 0..Len(S)
  PROVE  /\ Order(to) = Order(cell)
         /\ \A n : Yield(T, to, k, n) = Yield(S, cell, k, n)
         /\ \A n : Passes(T, to, k, n) <=> Passes(S, cell, k, n)
<1>1. Order(to) = Order(cell) /\ \A n : Contents(to, n) = Contents(cell, n)
  BY AlikeIs
<1>2. ASSUME NEW j \in 0..Len(S), NEW n PROVE Yield(T, to, j, n) = Yield(S, cell, j, n)
  <2>1. CASE j = 0
    BY <1>1, <2>1 DEF Yield
  <2>2. CASE j # 0
    <3>1. j \in 1..Len(S)
      BY <2>2
    <3> QED
      BY <2>2, <3>1 DEF Yield, SameStages
  <2> QED
    BY <2>1, <2>2
<1>3. ASSUME NEW n PROVE Passes(T, to, k, n) <=> Passes(S, cell, k, n)
  <2>1. \A j \in 0..k : j \in 0..Len(S)
    OBVIOUS
  <2>2. \A j \in 0..k : Yield(T, to, j, n) = Yield(S, cell, j, n)
    BY <1>2, <2>1
  <2> QED
    BY <2>2 DEF Passes, Alike
<1> QED
  BY <1>1, <1>2, <1>3

LEMMA SameWanted ==
  ASSUME NEW S \in Seq(Stage), NEW T \in Seq(Stage), NEW cell, NEW to,
         Alike(cell, to), SameStages(S, T), NEW k \in 0..Len(S),
         NEW c, NEW d, Unsure(c) \subseteq Unsure(d)
  PROVE  Wanted(d, T, to, k) \subseteq Wanted(c, S, cell, k)
<1>1. Order(to) = Order(cell) /\ \A n : Passes(T, to, k, n) <=> Passes(S, cell, k, n)
  BY SamePipeline
<1> QED
  BY <1>1 DEF Wanted

LEMMA RestIs ==
  ASSUME NEW X, NEW s \in Seq(X), NEW i \in 1..Len(s)
  PROVE  /\ SubSeq(s, 1, Len(s)) = s
         /\ SubSeq(s, i, Len(s)) \in Seq(X) /\ SubSeq(s, i, Len(s)) # <<>>
         /\ Head(SubSeq(s, i, Len(s))) = s[i]
         /\ Tail(SubSeq(s, i, Len(s))) = SubSeq(s, i + 1, Len(s))
         /\ i = Len(s) => Tail(SubSeq(s, i, Len(s))) = <<>>
<1> DEFINE n == Len(s)
           t == SubSeq(s, 1, n)
           u == SubSeq(s, i, n)
           v == SubSeq(s, i + 1, n)
           w == Tail(u)
<1>1. n \in Nat /\ i \in Nat
  OBVIOUS
<1>2. t \in Seq(X) /\ Len(t) = n /\ \A j \in 1..n : t[j] = s[j]
  OBVIOUS
<1>3. u \in Seq(X) /\ Len(u) = n - i + 1 /\ \A j \in 1..Len(u) : u[j] = s[i + j - 1]
  OBVIOUS
<1>4. v \in Seq(X) /\ Len(v) = n - i /\ \A j \in 1..Len(v) : v[j] = s[i + 1 + j - 1]
  OBVIOUS
<1> HIDE DEF t, u, v
<1>5. w \in Seq(X) /\ Len(w) = n - i /\ \A j \in 1..Len(w) : w[j] = u[j + 1]
  BY <1>1, <1>3
<1>6. u # <<>> /\ Head(u) = u[1]
  BY <1>1, <1>3
<1> HIDE DEF w
<1>7. t = s
  BY <1>2, SeqEqual
<1>8. Head(u) = s[i]
  <2>1. 1 \in 1..Len(u) /\ i + 1 - 1 = i
    BY <1>1, <1>3
  <2>2. u[1] = s[i + 1 - 1]
    BY <1>3, <2>1
  <2> QED
    BY <1>6, <2>1, <2>2
<1>9. w = v
  <2>1. \A j \in 1..Len(w) : w[j] = v[j]
    <3> TAKE j \in 1..Len(w)
    <3>1. j + 1 \in 1..Len(u) /\ i + (j + 1) - 1 = i + 1 + j - 1 /\ j \in 1..Len(v)
      BY <1>1, <1>3, <1>4, <1>5
    <3> QED
      BY <1>3, <1>4, <1>5, <3>1
  <2> QED
    BY <1>4, <1>5, <2>1, SeqEqual
<1>10. i = n => w = <<>>
  BY <1>1, <1>5
<1> QED
  BY <1>3, <1>6, <1>7, <1>8, <1>9, <1>10 DEF t, u, v, w

LEMMA LeftIs ==
  ASSUME NEW S \in Seq(Stage), NEW cell \in Cell, InRange(cell), NEW k \in 0..Len(S)
  PROVE  /\ Left(S, cell, k) \in Seq(Content) /\ Pos(S, cell, k) \in Nat
         /\ Pos(S, cell, k) <= Len(Order(cell)) + 1
         /\ (HasEntry(S, cell, k) /\ (k = 0 => isValid(cell))) <=> Left(S, cell, k) # <<>>
<1>1. /\ Len(Order(cell)) \in Nat /\ DOMAIN Order(cell) = 1..Len(Order(cell))
      /\ \A i \in DOMAIN Order(cell) : Order(cell)[i] \in Name
  BY Orders
<1>2. CASE k = 0
  <2> DEFINE s == Contents(cell, Order(cell)[cell.at])
  <2>1. cell.at \in Nat /\ cell.at <= Len(Order(cell)) + 1
    BY <1>1 DEF InRange
  <2>2. Pos(S, cell, k) = cell.at
    BY <1>2 DEF Pos
  <2>3. CASE AtEnd(cell) \/ ~isValid(cell)
    <3>1. Left(S, cell, k) = <<>> /\ <<>> \in Seq(Content)
      BY <1>2, <2>3 DEF Left
    <3>2. ~(HasEntry(S, cell, k) /\ (k = 0 => isValid(cell)))
      BY <1>2, <2>3 DEF HasEntry
    <3> QED
      BY <2>1, <2>2, <3>1, <3>2
  <2>4. CASE ~(AtEnd(cell) \/ ~isValid(cell))
    <3>1. cell.at \in DOMAIN Order(cell)
      BY <1>1, <2>1, <2>4 DEF AtEnd, InRange
    <3>2. s \in Seq(Content) /\ Len(s) \in Nat
      BY <1>1, <3>1, ContentsType DEF InRange
    <3>3. cell.nth \in 1..Len(s)
      BY <1>1, <3>1 DEF InRange
    <3>4. Left(S, cell, k) = SubSeq(s, cell.nth, Len(s))
      <4>1. ~(k > 0)
        BY <1>2
      <4> QED
        BY <2>4, <4>1 DEF Left
    <3> HIDE DEF s
    <3>5. SubSeq(s, cell.nth, Len(s)) \in Seq(Content) /\ SubSeq(s, cell.nth, Len(s)) # <<>>
      BY <3>2, <3>3, RestIs
    <3> QED
      BY <1>2, <2>1, <2>2, <2>4, <3>4, <3>5 DEF HasEntry
  <2> QED
    BY <2>3, <2>4
<1>3. CASE k # 0
  <2>1. k \in 1..Len(S) /\ S[k] \in Stage /\ k > 0
    BY <1>3
  <2>2. S[k].buffer \in Seq(Result) /\ S[k].file \in Name \cup {NoName}
    BY <2>1 DEF Stage
  <2>3. S[k].buffer \in Seq(Content)
    BY <2>2 DEF Content
  <2>4. Left(S, cell, k) = S[k].buffer /\ Pos(S, cell, k) = Place(cell, S[k].file)
    BY <2>1 DEF Left, Pos
  <2>5. Place(cell, S[k].file) \in Nat /\ Place(cell, S[k].file) <= Len(Order(cell)) + 1
    <3>1. CASE S[k].file = NoName
      BY <1>1, <3>1, Places
    <3>2. CASE S[k].file \in Name
      BY <1>1, <3>2, Places
    <3> QED
      BY <2>2, <3>1, <3>2
  <2> QED
    BY <1>3, <2>3, <2>4, <2>5 DEF HasEntry
<1> QED
  BY <1>2, <1>3

\* The source goes on to what it sees next; nothing wanted was passed by.
Onward(c, S, cell, T, to) ==
  /\ to.at > cell.at
  /\ \A i \in DOMAIN Order(cell) :
       cell.at < i /\ i <= to.at /\ Order(cell)[i] \notin Unsure(c) =>
         IF i \in Wanted(c, S, cell, 0)
         THEN i = to.at /\ Left(T, to, 0) = Yield(S, cell, 0, Order(cell)[i])
         ELSE i = to.at => Left(T, to, 0) = <<>>

\* The entry at level k is taken.
Popped(c, S, cell, T, to, k) ==
  /\ SameStages(S, T) /\ Alike(cell, to)
  /\ \A j \in 0..Len(S) : j # k =>
       Pos(T, to, j) = Pos(S, cell, j) /\ Left(T, to, j) = Left(S, cell, j)
  /\ k # 0 => to = cell
  /\ \A j \in 1..Len(S) : T[j].file = S[j].file /\ (j # k => T[j] = S[j])
  /\ \/ /\ Pos(T, to, k) = Pos(S, cell, k)
        /\ Left(T, to, k) = Tail(Left(S, cell, k))
        /\ k = 0 => to.nth > 1
     \/ k = 0 /\ Tail(Left(S, cell, 0)) = <<>> /\ Onward(c, S, cell, T, to)

LEMMA SourceGoesOn ==
  ASSUME NEW c \in Knowledge, NEW S \in Seq(Stage), NEW cell \in Cell, NEW to \in Cell,
         InRange(to), Alike(cell, to), cell.names = c.names, InTouch(c), Jumps(cell, to)
  PROVE  Onward(c, S, cell, S, to) /\ Present(c, to)
<1> DEFINE O == Order(cell)
<1>1. Order(to) = O /\ \A n : Contents(to, n) = Contents(cell, n)
  BY AlikeIs
<1>2. /\ Len(O) \in Nat /\ DOMAIN O = 1..Len(O) /\ \A i \in DOMAIN O : O[i] \in Name
  BY Orders
<1>3. cell.at \in Nat /\ to.at \in Nat /\ to.at > cell.at /\ to.nth = 1
  BY DEF Cell, Jumps
<1>4. ASSUME NEW n \in Name, n \notin c.changed
      PROVE  Sees(cell, n) <=> n \in c.names /\ Contents(cell, n) # <<>>
  BY <1>4 DEF Sees, InTouch
<1>5. to.at \in DOMAIN O => Sees(cell, O[to.at])
  BY <1>2, <1>3 DEF Jumps
<1>6. ASSUME NEW i \in DOMAIN O, cell.at < i, i <= to.at, O[i] \notin Unsure(c)
      PROVE  IF i \in Wanted(c, S, cell, 0)
             THEN i = to.at /\ Left(S, to, 0) = Yield(S, cell, 0, O[i])
             ELSE i = to.at => Left(S, to, 0) = <<>>
  <2>1. O[i] \in Name /\ O[i] \notin c.changed
    BY <1>2, <1>6 DEF Unsure
  <2>2. i \in Wanted(c, S, cell, 0)
          <=> /\ O[i] \in c.names /\ Contents(cell, O[i]) # <<>>
              /\ cell.kind \in {"container", "results"} \/ O[i] \in Xml
    <3>1. \A j \in 0..0 : j = 0
      OBVIOUS
    <3>2. 0 \in 0..0
      OBVIOUS
    <3>3. Passes(S, cell, 0, O[i])
            <=> /\ O[i] \in c.names /\ Contents(cell, O[i]) # <<>>
                /\ cell.kind \in {"container", "results"} \/ O[i] \in Xml
      BY <3>1, <3>2 DEF Passes, Yield
    <3> QED
      BY <1>6, <3>3 DEF Wanted
  <2>3. i \in Wanted(c, S, cell, 0) => Sees(cell, O[i])
    BY <1>4, <2>1, <2>2
  <2>4. i \in Wanted(c, S, cell, 0) => i = to.at
    <3>1. i < to.at => ~Sees(cell, O[i])
      BY <1>6 DEF Jumps
    <3> QED
      BY <1>2, <1>3, <1>6, <2>3, <3>1
  <2>5. ASSUME i = to.at PROVE ~AtEnd(to) /\ (isValid(to) <=> i \in Wanted(c, S, cell, 0))
    <3>1. ~AtEnd(to)
      BY <1>1, <1>2, <1>3, <2>5 DEF AtEnd
    <3>2. O[i] \in c.names /\ Contents(cell, O[i]) # <<>>
      BY <1>4, <1>5, <2>1, <2>5
    <3>3. isValid(to) <=> cell.kind \in {"container", "results"} \/ O[i] \in Xml
      BY <1>1, <2>5, <3>1 DEF isValid, Alike
    <3> QED
      BY <2>2, <3>1, <3>2, <3>3
  <2>6. ASSUME i \in Wanted(c, S, cell, 0) PROVE Left(S, to, 0) = Yield(S, cell, 0, O[i])
    <3> DEFINE s == Contents(cell, O[i])
    <3>1. i = to.at /\ ~AtEnd(to) /\ isValid(to)
      BY <2>4, <2>5, <2>6
    <3>2. Left(S, to, 0) = SubSeq(s, 1, Len(s))
      BY <1>1, <1>3, <3>1 DEF Left
    <3>3. s \in Seq(Content) /\ Len(s) >= 1 /\ Len(s) \in Nat
      BY <2>1, <2>2, <2>6, ContentsType DEF InRange, Alike
    <3>4. SubSeq(s, 1, Len(s)) = s
      <4> HIDE DEF s
      <4>1. 1 \in 1..Len(s)
        BY <3>3
      <4> QED
        BY <3>3, <4>1, RestIs
    <3> QED
      BY <3>2, <3>4 DEF Yield
  <2>7. i \notin Wanted(c, S, cell, 0) /\ i = to.at => Left(S, to, 0) = <<>>
    BY <2>5 DEF Left
  <2> QED
    BY <2>4, <2>6, <2>7
<1>7. Onward(c, S, cell, S, to)
  BY <1>3, <1>6 DEF Onward
<1>8. Present(c, to)
  <2> SUFFICES ASSUME to.at <= Len(O), O[to.at] \notin c.changed PROVE O[to.at] \in c.names
    BY <1>1 DEF Present
  <2>1. to.at \in DOMAIN O /\ O[to.at] \in Name
    BY <1>2, <1>3
  <2> QED
    BY <1>4, <1>5, <2>1
<1> QED
  BY <1>7, <1>8

\* PassOver, of a name of another kind, which nothing was asked about.
LEMMA SourcePasses ==
  ASSUME NEW c \in Knowledge, NEW S \in Seq(Stage), NEW cell \in Cell, InRange(cell),
         cell.names = c.names, InTouch(c), cell.kind = KindOf(c), ~AtEnd(cell), ~isValid(cell)
  PROVE  LET to == Advance(cell)
         IN  /\ to \in Cell /\ InRange(to) /\ Alike(cell, to)
             /\ Onward(c, S, cell, S, to) /\ Present(c, to)
             /\ cell.at \notin Wanted(c, S, cell, 0)
<1> DEFINE to == Advance(cell)
           n == Order(cell)[cell.at]
<1>1. /\ to \in Cell /\ InRange(to) /\ Alike(cell, to) /\ (Stays(cell, to) \/ Goes(cell, to))
  BY AdvanceIs
<1>2. cell.at \in DOMAIN Order(cell) /\ n \in Name /\ n \notin Xml
      /\ cell.kind \notin {"container", "results"}
  <2>1. /\ Len(Order(cell)) \in Nat /\ DOMAIN Order(cell) = 1..Len(Order(cell))
        /\ \A i \in DOMAIN Order(cell) : Order(cell)[i] \in Name
    BY Orders
  <2>2. cell.at \in DOMAIN Order(cell)
    BY <2>1 DEF AtEnd, InRange
  <2> QED
    BY <2>1, <2>2 DEF isValid
<1>3. Contents(cell, n) = <<Plain>> /\ cell.nth \in 1..Len(Contents(cell, n))
  BY <1>2, Orders DEF Contents, InRange
<1>4. Len(<<Plain>>) = 1
  OBVIOUS
<1>5. ~Stays(cell, to)
  BY <1>3, <1>4 DEF Stays
<1>6. cell.at \notin Wanted(c, S, cell, 0)
  BY <1>2 DEF Wanted, Passes
<1> QED
  BY <1>1, <1>5, <1>6, SourceGoesOn DEF Goes

LEMMA NextIs ==
  ASSUME NEW c \in Knowledge, NEW S \in Seq(Stage), NEW cell \in Cell, InRange(cell),
         cell.names = c.names, InTouch(c), Filled(S), Present(c, cell),
         NEW k \in 0..Len(S), Left(S, cell, k) # <<>>
  PROVE  LET r == next(S, cell, k)
             p == Pos(S, cell, k)
         IN  /\ r.stages \in Seq(Stage) /\ r.cell \in Cell /\ InRange(r.cell)
             /\ Filled(r.stages) /\ Present(c, r.cell)
             /\ Popped(c, S, cell, r.stages, r.cell, k)
             /\ p \in DOMAIN Order(cell)
             /\ EntryAt(S, cell, k) = <<Order(cell)[p], Head(Left(S, cell, k))>>
<1> DEFINE O == Order(cell)
           r == next(S, cell, k)
           p == Pos(S, cell, k)
<1>1. /\ Len(O) \in Nat /\ DOMAIN O = 1..Len(O) /\ \A i \in DOMAIN O : O[i] \in Name
  BY Orders
<1>2. /\ Left(S, cell, k) \in Seq(Content) /\ p \in Nat
      /\ HasEntry(S, cell, k) /\ (k = 0 => isValid(cell))
  BY LeftIs
<1>3. Len(S) \in Nat /\ DOMAIN S = 1..Len(S) /\ \A j \in 1..Len(S) : S[j] \in Stage
  OBVIOUS
<1>4. CASE k = 0
  <2> DEFINE to == Advance(cell)
             n == O[cell.at]
             s == Contents(cell, n)
  <2>1. r = [stages |-> S, cell |-> to]
    BY <1>4 DEF next
  <2>2. ~AtEnd(cell) /\ isValid(cell) /\ p = cell.at
    BY <1>2, <1>4 DEF HasEntry, Pos
  <2>3. cell.at \in DOMAIN O /\ n \in Name
    BY <1>1, <2>2 DEF AtEnd, InRange
  <2>4. s \in Seq(Content) /\ cell.nth \in 1..Len(s)
    BY <1>1, <2>3, ContentsType DEF InRange
  <2>5. Left(S, cell, k) = SubSeq(s, cell.nth, Len(s))
    <3>1. ~(k > 0)
      BY <1>4
    <3> QED
      BY <2>2, <3>1 DEF Left
  <2>6. /\ Head(Left(S, cell, k)) = s[cell.nth]
        /\ Tail(Left(S, cell, k)) = SubSeq(s, cell.nth + 1, Len(s))
        /\ cell.nth = Len(s) => Tail(Left(S, cell, k)) = <<>>
    <3> DEFINE i == cell.nth
    <3>1. s \in Seq(Content) /\ i \in 1..Len(s)
      BY <2>4
    <3> HIDE DEF s, i
    <3>2. /\ Head(SubSeq(s, i, Len(s))) = s[i]
          /\ Tail(SubSeq(s, i, Len(s))) = SubSeq(s, i + 1, Len(s))
          /\ i = Len(s) => Tail(SubSeq(s, i, Len(s))) = <<>>
      BY ONLY <3>1, RestIs
    <3> QED
      BY <2>5, <3>2 DEF i
  <2>7. EntryAt(S, cell, k) = <<O[p], Head(Left(S, cell, k))>>
    BY <1>4, <2>2, <2>6 DEF EntryAt, Current
  <2>8. /\ to \in Cell /\ InRange(to) /\ Alike(cell, to) /\ (Stays(cell, to) \/ Goes(cell, to))
    BY <2>2, AdvanceIs
  <2> HIDE DEF to
  <2>9. Order(to) = O /\ \A x : Contents(to, x) = Contents(cell, x)
    BY <2>8, AlikeIs
  <2>10. /\ SameStages(S, S)
         /\ \A j \in 1..Len(S) : Pos(S, to, j) = Pos(S, cell, j) /\ Left(S, to, j) = Left(S, cell, j)
    <3>1. \A j \in 1..Len(S) : j # 0 /\ j > 0
      OBVIOUS
    <3>2. \A x : Place(to, x) = Place(cell, x)
      BY <2>9 DEF Place
    <3> QED
      BY <3>1, <3>2 DEF SameStages, Pos, Left
  <2>11. Present(c, to)
         /\ \/ /\ Pos(S, to, k) = p
               /\ Left(S, to, k) = Tail(Left(S, cell, k))
               /\ to.nth > 1
            \/ Tail(Left(S, cell, 0)) = <<>> /\ Onward(c, S, cell, S, to)
    <3>1. CASE Goes(cell, to)
      <4>1. Onward(c, S, cell, S, to) /\ Present(c, to)
        BY <2>8, <3>1, SourceGoesOn DEF Goes
      <4>2. cell.nth = Len(s)
        BY <3>1 DEF Goes
      <4> QED
        BY <1>4, <2>6, <4>1, <4>2
    <3>2. CASE Stays(cell, to)
      <4>1. to.at = cell.at /\ to.nth = cell.nth + 1
        BY <3>2 DEF Stays
      <4>2. to.nth > 1
        BY <2>4, <4>1
      <4>3. ~AtEnd(to) /\ isValid(to)
        BY <2>2, <2>8, <2>9, <4>1 DEF AtEnd, isValid, Alike
      <4>4. Left(S, to, k) = SubSeq(s, cell.nth + 1, Len(s))
        <5>1. ~(k > 0)
          BY <1>4
        <5> QED
          BY <2>9, <4>1, <4>3, <5>1 DEF Left
      <4>5. Pos(S, to, k) = p
        BY <1>4, <4>1 DEF Pos
      <4>6. Present(c, to)
        BY <2>9, <4>1 DEF Present
      <4> QED
        BY <2>6, <4>2, <4>4, <4>5, <4>6
    <3> QED
      BY <2>8, <3>1, <3>2
  <2>12. Popped(c, S, cell, S, to, k)
    <3>1. \A j \in 0..Len(S) : j # k => j \in 1..Len(S)
      BY <1>4
    <3> QED
      BY <1>4, <2>8, <2>10, <2>11, <3>1 DEF Popped
  <2> QED
    BY <1>4, <2>1, <2>2, <2>3, <2>7, <2>8, <2>11, <2>12 DEF to
<1>5. CASE k # 0
  <2> DEFINE T == [S EXCEPT ![k].buffer = Tail(@)]
  <2>1. k \in 1..Len(S) /\ k > 0
    BY <1>5
  <2>2. r = [stages |-> T, cell |-> cell]
    BY <1>5 DEF next
  <2>3. S[k] \in Stage /\ S[k].buffer # <<>> /\ S[k].buffer \in Seq(Result)
    BY <1>2, <1>3, <1>5, <2>1 DEF HasEntry, Stage
  <2>4. Tail(S[k].buffer) \in Seq(Result)
    BY <2>3
  <2>5. /\ T \in Seq(Stage) /\ Len(T) = Len(S)
        /\ T[k].buffer = Tail(S[k].buffer) /\ T[k].file = S[k].file /\ T[k].query = S[k].query
        /\ \A j \in 1..Len(S) : j # k => T[j] = S[j]
    <3> DEFINE x == [S[k] EXCEPT !.buffer = Tail(@)]
    <3>1. /\ x \in Stage /\ x.buffer = Tail(S[k].buffer) /\ x.file = S[k].file
          /\ x.query = S[k].query
      BY <2>3, <2>4 DEF Stage
    <3>2. T = [S EXCEPT ![k] = x]
      BY <2>3
    <3> HIDE DEF x, T
    <3> QED
      BY <1>3, <2>1, <3>1, <3>2
  <2> HIDE DEF T
  <2>6. SameStages(S, T) /\ Alike(cell, cell)
    BY <1>3, <2>1, <2>5 DEF SameStages, Alike
  <2>7. Filled(T)
    <3> SUFFICES ASSUME NEW j \in DOMAIN T, T[j].buffer # <<>>
                 PROVE  T[j].file \in Name /\ Hits[T[j].query][T[j].file] # <<>>
      BY DEF Filled
    <3>1. j \in 1..Len(S)
      BY <1>3, <2>5
    <3>2. CASE j = k
      BY <1>3, <2>1, <2>3, <2>5, <3>2 DEF Filled
    <3>3. CASE j # k
      BY <1>3, <2>5, <3>1, <3>3 DEF Filled
    <3> QED
      BY <3>2, <3>3
  <2>8. /\ Left(S, cell, k) = S[k].buffer /\ Left(T, cell, k) = T[k].buffer
        /\ p = Place(cell, S[k].file) /\ Pos(T, cell, k) = Place(cell, T[k].file)
    BY <2>1 DEF Left, Pos
  <2>9. S[k].file \in Name
    BY <1>3, <2>1, <2>3 DEF Filled
  <2>10. p \in DOMAIN O /\ O[p] = S[k].file
    BY <2>8, <2>9, Places
  <2>11. EntryAt(S, cell, k) = <<O[p], Head(Left(S, cell, k))>>
    BY <1>5, <2>8, <2>10 DEF EntryAt
  <2>12. ASSUME NEW j \in 0..Len(S), j # k
         PROVE  Pos(T, cell, j) = Pos(S, cell, j) /\ Left(T, cell, j) = Left(S, cell, j)
    <3>1. CASE j = 0
      <4>1. ~(j > 0)
        BY <3>1
      <4> QED
        BY <3>1, <4>1 DEF Pos, Left
    <3>2. CASE j # 0
      <4>1. j \in 1..Len(S) /\ T[j] = S[j]
        BY <2>5, <2>12, <3>2
      <4> QED
        BY <3>2, <4>1 DEF Pos, Left
    <3> QED
      BY <3>1, <3>2
  <2>13. \A j \in 1..Len(S) : T[j].file = S[j].file /\ (j # k => T[j] = S[j])
    BY <2>5
  <2>14. Popped(c, S, cell, T, cell, k)
    BY <1>5, <2>5, <2>6, <2>8, <2>12, <2>13 DEF Popped
  <2> QED
    BY <2>2, <2>5, <2>7, <2>10, <2>11, <2>14
<1> QED
  BY <1>4, <1>5

----------------------------------------------------------------------------
(* What an iterator gives stays exact: when more becomes unsure, when an   *)
(* entry of the top is given, when the source passes over a name, and when *)
(* a stage takes an entry from below.                                      *)

LEMMA BetweenSame ==
  ASSUME NEW c, NEW d, NEW S \in Seq(Stage), NEW T \in Seq(Stage), NEW cell, NEW to,
         Alike(cell, to), SameStages(S, T), Unsure(c) \subseteq Unsure(d),
         NEW k \in 0..Len(S), Between(c, S, cell, k),
         Pos(T, to, k) = Pos(S, cell, k), Pos(T, to, k + 1) = Pos(S, cell, k + 1),
         Left(T, to, k) = Left(S, cell, k), k = 0 => to.nth = cell.nth
  PROVE  Between(d, T, to, k)
<1>0. /\ Alike(cell, to) /\ SameStages(S, T) /\ Unsure(c) \subseteq Unsure(d)
      /\ S \in Seq(Stage) /\ T \in Seq(Stage) /\ k \in 0..Len(S)
  OBVIOUS
<1>1. Order(to) = Order(cell) /\ \A n : Yield(T, to, k, n) = Yield(S, cell, k, n)
  BY ONLY <1>0, SamePipeline
<1>2. Wanted(d, T, to, k) \subseteq Wanted(c, S, cell, k)
  BY ONLY <1>0, SameWanted
<1> QED
  BY <1>1, <1>2 DEF Between

LEMMA GenuineSame ==
  ASSUME NEW c, NEW d, NEW S \in Seq(Stage), NEW T \in Seq(Stage), NEW cell, NEW to,
         Alike(cell, to), SameStages(S, T), Unsure(c) \subseteq Unsure(d),
         NEW k \in 1..Len(S), Genuine(c, S, cell, k), T[k].file = S[k].file
  PROVE  Genuine(d, T, to, k)
<1>1. k - 1 \in 0..Len(S)
  OBVIOUS
<1>2. \A n : Passes(T, to, k - 1, n) <=> Passes(S, cell, k - 1, n)
  BY <1>1, SamePipeline
<1> QED
  BY <1>2 DEF Genuine

LEMMA ExactGrows ==
  ASSUME NEW c \in Knowledge, NEW d \in Knowledge, NEW S \in Seq(Stage), NEW cell \in Cell,
         InRange(cell), Exact(c, S, cell),
         SameRequest(c, d), Unsure(c) \subseteq Unsure(d), d.got = c.got
  PROVE  Exact(d, S, cell)
<1> DEFINE m == Len(S)
           O == Order(cell)
           p == Pos(S, cell, m)
           left == Left(S, cell, m)
<1>1. m \in Nat /\ O \in Seq(Name) /\ p \in Nat /\ Alike(cell, cell) /\ SameStages(S, S)
  BY Orders, LeftIs DEF Alike, SameStages
<1>2. \A k \in 1..m : Genuine(d, S, cell, k)
  BY <1>1, GenuineSame DEF Exact
<1>3. \A k \in 0..(m - 1) : Between(d, S, cell, k)
  <2> TAKE k \in 0..(m - 1)
  <2>1. k \in 0..m
    BY <1>1
  <2>2. Between(c, S, cell, k)
    BY DEF Exact
  <2> QED
    BY <1>1, <2>1, <2>2, BetweenSame
<1>4. PICK G \in Groups(O) : Delivered(c, O, p, left, G)
  BY DEF Exact
<1> HIDE DEF O, p, left
<1>5. Delivered(d, O, p, left, G)
  BY <1>1, <1>4, DeliveredMoves
<1> QED
  BY <1>2, <1>3, <1>4, <1>5 DEF Exact, O, p, left

\* The levels below the top do not change, whatever is made of the top.
LEMMA ExactNext ==
  ASSUME NEW c \in Knowledge, NEW d \in Knowledge, NEW S \in Seq(Stage), NEW T \in Seq(Stage),
         NEW cell \in Cell, NEW to \in Cell, InRange(cell), InRange(to),
         Serves(c, S, cell), Exact(c, S, cell),
         Left(S, cell, Len(S)) # <<>>, Pos(S, cell, Len(S)) \in DOMAIN Order(cell),
         Popped(c, S, cell, T, to, Len(S)),
         SameRequest(c, d), Unsure(c) \subseteq Unsure(d),
         LET n == Order(cell)[Pos(S, cell, Len(S))]
         IN  \/ d.got = c.got \o Shown(c, n, <<Head(Left(S, cell, Len(S)))>>)
             \/ d.got = c.got /\ n \in Unsure(d)
  PROVE  Exact(d, T, to)
<1> DEFINE m == Len(S)
           O == Order(cell)
           p == Pos(S, cell, m)
           left == Left(S, cell, m)
           q == Pos(T, to, m)
           rest == Left(T, to, m)
<1>1. /\ m \in Nat /\ DOMAIN O = 1..Len(O) /\ O \in Seq(Name) /\ p \in Nat /\ left \in Seq(Content)
      /\ Alike(cell, to) /\ SameStages(S, T) /\ Len(T) = m /\ Order(to) = O
      /\ q \in Nat /\ rest \in Seq(Content)
      /\ \A i \in DOMAIN O : O[i] \in Name
  <2>1. /\ m \in Nat /\ DOMAIN O = 1..Len(O) /\ O \in Seq(Name) /\ \A i \in DOMAIN O : O[i] \in Name
    BY Orders
  <2>2. Alike(cell, to) /\ SameStages(S, T) /\ Len(T) = m
    BY DEF Popped, SameStages
  <2>3. p \in Nat /\ left \in Seq(Content)
    BY LeftIs
  <2>4. q \in Nat /\ rest \in Seq(Content)
    BY <2>2, LeftIs
  <2> QED
    BY <2>1, <2>2, <2>3, <2>4, AlikeIs
<1>2. \A k \in 1..m : Genuine(d, T, to, k)
  BY <1>1, GenuineSame DEF Exact, Popped
<1>3. ASSUME NEW k \in 0..(m - 1) PROVE Between(d, T, to, k)
  <2>1. k \in 0..m /\ k # m /\ m # 0 /\ k + 1 \in 0..m
    BY <1>1
  <2>2. to = cell /\ \A j \in 1..m : T[j].file = S[j].file
    BY <2>1 DEF Popped
  <2>3. Pos(T, to, k) = Pos(S, cell, k) /\ Left(T, to, k) = Left(S, cell, k)
    BY <2>1 DEF Popped
  <2>4. Pos(T, to, k + 1) = Pos(S, cell, k + 1)
    <3>1. k + 1 \in 1..m /\ k + 1 # 0
      BY <1>1
    <3> QED
      BY <2>2, <3>1 DEF Pos
  <2>5. Between(c, S, cell, k)
    BY DEF Exact
  <2> QED
    BY <1>1, <2>1, <2>2, <2>3, <2>4, <2>5, BetweenSame
<1>4. PICK G \in Groups(O) : Delivered(c, O, p, left, G)
  BY DEF Exact
<1>5. /\ Shown(c, O[p], left) \in Seq(E) /\ \A n, s : Shown(d, n, s) = Shown(c, n, s)
      /\ \A n : Of(d, n) = Of(c, n)
  <2>1. O[p] \in Name
    BY <1>1
  <2>2. Shown(c, O[p], left) \in Seq(E)
    BY <1>1, <2>1, ShownIs
  <2> QED
    BY <2>2, SameRequestIs
<1>6. \E H \in Groups(O) : Delivered(d, O, p, Tail(left), H)
  <2>1. CASE d.got = c.got \o Shown(c, O[p], <<Head(left)>>)
    <3> HIDE DEF O, p, left
    <3> QED
      BY <1>1, <1>4, <2>1, DeliveredTakes DEF O, p, left
  <2>2. CASE d.got = c.got /\ O[p] \in Unsure(d)
    <3>1. Delivered(d, O, p, Tail(left), G)
      <4> HIDE DEF O, p, left
      <4> QED
        BY <1>4, <1>5, <2>2 DEF Delivered
    <3> QED
      BY <1>4, <3>1
  <2> QED
    BY <2>1, <2>2
<1>7. PICK H \in Groups(O) : Delivered(d, O, p, Tail(left), H)
  BY <1>6
<1>8. CASE q = p /\ rest = Tail(left)
  BY <1>1, <1>2, <1>3, <1>7, <1>8 DEF Exact
<1>9. CASE m = 0 /\ Tail(left) = <<>> /\ Onward(c, S, cell, T, to)
  <2>1. p = cell.at /\ q = to.at /\ p < q
    BY <1>1, <1>9 DEF Pos, Onward
  <2>2. ASSUME NEW i \in DOMAIN O, O[i] \notin Unsure(d)
        PROVE  Of(d, O[i]) = IF i \in Wanted(c, S, cell, 0)
                             THEN Shown(c, O[i], Yield(S, cell, 0, O[i])) ELSE <<>>
    <3>1. O[i] \notin Unsure(c)
      BY <2>2
    <3> QED
      BY <1>5, <1>9, <3>1, OfWanted
  <2>3. \A i \in DOMAIN O : p < i /\ i < q /\ O[i] \notin Unsure(d) => Of(d, O[i]) = <<>>
    <3> SUFFICES ASSUME NEW i \in DOMAIN O, p < i, i < q, O[i] \notin Unsure(d)
                 PROVE  i \notin Wanted(c, S, cell, 0)
      BY <2>2
    <3>1. i \in Nat /\ to.at \in Nat /\ i # to.at /\ cell.at < i /\ i <= to.at
      BY <1>1, <2>1
    <3>2. O[i] \notin Unsure(c)
      OBVIOUS
    <3> QED
      BY <1>9, <3>1, <3>2 DEF Onward
  <2>4. ASSUME NEW i \in DOMAIN O, p < i, i = q, O[i] \notin Unsure(d)
        PROVE  Shown(d, O[i], rest) = Of(d, O[i]) /\ Shown(d, O[i], rest) \in Seq(E)
    <3>1. i \in Wanted(c, S, cell, 0) => rest = Yield(S, cell, 0, O[i])
      BY <1>1, <1>9, <2>1, <2>4 DEF Onward
    <3>2. i \notin Wanted(c, S, cell, 0) => rest = <<>>
      BY <1>1, <1>9, <2>1, <2>4 DEF Onward
    <3>3. Shown(d, O[i], rest) \in Seq(E)
      BY <1>1, ShownIs
    <3> QED
      BY <1>5, <2>2, <2>4, <3>1, <3>2, <3>3, NoEntries
  <2>5. Unsure(d) \subseteq Unsure(d) /\ SameRequest(d, d) /\ p <= q /\ p # q
    BY <1>1, <2>1 DEF SameRequest
  <2>6. Delivered(d, O, q, rest, H)
    <3> DEFINE none == Tail(left)
    <3>1. none = <<>>
      BY <1>9
    <3>2. Delivered(d, O, p, none, H)
      BY <1>7
    <3> HIDE DEF O, p, q, rest, none
    <3> QED
      BY <1>1, <2>3, <2>4, <2>5, <3>1, <3>2, DeliveredMoves
  <2> QED
    BY <1>1, <1>2, <1>3, <2>6 DEF Exact
<1> QED
  BY <1>8, <1>9 DEF Popped

LEMMA ExactPasses ==
  ASSUME NEW c \in Knowledge, NEW S \in Seq(Stage), NEW cell \in Cell, NEW to \in Cell,
         InRange(cell), InRange(to), Serves(c, S, cell), Exact(c, S, cell),
         Alike(cell, to), Onward(c, S, cell, S, to), cell.at \notin Wanted(c, S, cell, 0),
         \A k \in 0..Len(S) : Left(S, cell, k) = <<>>
  PROVE  Exact(c, S, to)
<1> DEFINE m == Len(S)
           O == Order(cell)
           p == Pos(S, cell, m)
           left == Left(S, cell, m)
           q == Pos(S, to, m)
           rest == Left(S, to, m)
<1>1. /\ m \in Nat /\ DOMAIN O = 1..Len(O) /\ O \in Seq(Name)
      /\ \A i \in DOMAIN O : O[i] \in Name
      /\ p \in Nat /\ q \in Nat /\ rest \in Seq(Content) /\ left = <<>>
      /\ Order(to) = O /\ SameStages(S, S) /\ cell.at \in Nat /\ to.at \in Nat
  BY Orders, AlikeIs, LeftIs DEF SameStages, Cell
<1>2. \A k \in 1..m : Genuine(c, S, to, k)
  <2> TAKE k \in 1..m
  <2>1. Genuine(c, S, cell, k)
    BY DEF Exact
  <2> QED
    BY <1>1, <2>1, GenuineSame
<1>3. ASSUME NEW k \in 1..m
      PROVE  Pos(S, to, k) = Pos(S, cell, k) /\ Left(S, to, k) = Left(S, cell, k)
  BY <1>1, <1>3 DEF Pos, Left, Place
<1>4. ASSUME NEW k \in 0..(m - 1) PROVE Between(c, S, to, k)
  <2>1. k \in 0..m /\ k + 1 \in 1..m
    BY <1>1
  <2>2. Between(c, S, cell, k)
    BY DEF Exact
  <2>3. CASE k # 0
    <3>1. k \in 1..m
      BY <2>3
    <3>2. /\ Pos(S, to, k) = Pos(S, cell, k) /\ Left(S, to, k) = Left(S, cell, k)
          /\ Pos(S, to, k + 1) = Pos(S, cell, k + 1)
      BY <1>3, <2>1, <3>1
    <3> QED
      BY <1>1, <2>1, <2>2, <2>3, <3>2, BetweenSame
  <2>4. CASE k = 0
    <3> DEFINE above == Pos(S, to, 1)
    <3>1. above = Pos(S, cell, 1) /\ above \in Nat
      <4>1. 1 \in 1..m /\ 1 \in 0..m
        BY <2>1, <2>4
      <4> QED
        BY <1>3, <4>1, LeftIs
    <3>2. above <= cell.at /\ cell.at < to.at /\ Pos(S, to, 0) = to.at
      BY <2>2, <2>4, <3>1 DEF Between, Pos, Onward
    <3>3. 0 \in 0..m
      BY <1>1
    <3>4. Wanted(c, S, to, 0) \subseteq Wanted(c, S, cell, 0)
      BY <1>1, <3>3, SameWanted
    <3>5. \A n : Yield(S, to, 0, n) = Yield(S, cell, 0, n)
      BY <1>1, <3>3, SamePipeline
    <3>6. ASSUME NEW i \in Wanted(c, S, to, 0), above < i, i <= to.at
          PROVE  i = to.at /\ Left(S, to, 0) = Yield(S, to, 0, O[i])
      <4>1. i \in Wanted(c, S, cell, 0) /\ i \in DOMAIN O /\ O[i] \notin Unsure(c)
        BY <3>4, <3>6, WantedIs
      <4>2. ~(i <= cell.at)
        <5> SUFFICES ASSUME i <= cell.at PROVE FALSE
          OBVIOUS
        <5>1. i = cell.at
          BY <2>2, <2>4, <3>1, <3>6, <4>1 DEF Between, Pos
        <5> QED
          BY <4>1, <5>1
      <4>3. cell.at < i
        BY <1>1, <4>1, <4>2
      <4> QED
        BY <3>5, <3>6, <4>1, <4>3 DEF Onward
    <3>7. above <= to.at /\ above # to.at
      BY <1>1, <3>1, <3>2
    <3> QED
      BY <1>1, <2>4, <3>2, <3>6, <3>7 DEF Between
  <2> QED
    BY <2>3, <2>4
<1>5. PICK G \in Groups(O) : Delivered(c, O, p, left, G)
  BY DEF Exact
<1>6. Delivered(c, O, q, rest, G)
  <2>0. Unsure(c) \subseteq Unsure(c) /\ SameRequest(c, c)
    BY DEF SameRequest
  <2>1. CASE m # 0
    <3>1. q = p /\ rest = left
      BY <1>1, <1>3, <2>1
    <3> QED
      BY <1>5, <3>1
  <2>2. CASE m = 0
    <3>1. p = cell.at /\ q = to.at /\ p < q
      BY <2>2 DEF Pos, Onward
    <3>2. ASSUME NEW i \in DOMAIN O, O[i] \notin Unsure(c)
          PROVE  Of(c, O[i]) = IF i \in Wanted(c, S, cell, 0)
                               THEN Shown(c, O[i], Yield(S, cell, 0, O[i])) ELSE <<>>
      BY <2>2, <3>2, OfWanted
    <3>3. \A i \in DOMAIN O : p < i /\ i < q /\ O[i] \notin Unsure(c) => Of(c, O[i]) = <<>>
      <4> SUFFICES ASSUME NEW i \in DOMAIN O, p < i, i < q, O[i] \notin Unsure(c)
                   PROVE  i \notin Wanted(c, S, cell, 0)
        BY <3>2
      <4>1. i \in Nat /\ i # to.at /\ cell.at < i /\ i <= to.at
        BY <1>1, <3>1
      <4> QED
        BY <4>1 DEF Onward
    <3>4. ASSUME NEW i \in DOMAIN O, p < i, i = q, O[i] \notin Unsure(c)
          PROVE  Shown(c, O[i], rest) = Of(c, O[i]) /\ Shown(c, O[i], rest) \in Seq(E)
      <4>0. cell.at < i /\ i <= to.at /\ i = to.at
        BY <1>1, <3>1, <3>4
      <4>1. i \in Wanted(c, S, cell, 0) => rest = Yield(S, cell, 0, O[i])
        BY <2>2, <3>4, <4>0 DEF Onward
      <4>2. i \notin Wanted(c, S, cell, 0) => rest = <<>>
        BY <2>2, <3>4, <4>0 DEF Onward
      <4>3. Shown(c, O[i], rest) \in Seq(E)
        BY <1>1, ShownIs
      <4> QED
        BY <3>2, <3>4, <4>1, <4>2, <4>3, NoEntries
    <3>5. p <= q /\ p # q
      BY <1>1, <3>1
    <3> HIDE DEF O, p, q, rest, left
    <3> QED
      BY <1>1, <1>5, <2>0, <3>3, <3>4, <3>5, DeliveredMoves
  <2> QED
    BY <2>1, <2>2
<1> QED
  BY <1>1, <1>2, <1>4, <1>6 DEF Exact

\* The stages once stage k has parsed a name.
Parses(T, k, name) == [T EXCEPT ![k] = Parsed(@, name)]

\* Parsing a name keeps the stages what they are: of the same queries, their
\* buffers filled with results.
LEMMA ParsesKeeps ==
  ASSUME NEW S \in Seq(Stage), NEW T \in Seq(Stage), SameStages(S, T), Filled(T),
         NEW k \in 1..Len(S), NEW name \in Name
  PROVE  /\ Parses(T, k, name) \in Seq(Stage) /\ SameStages(S, Parses(T, k, name))
         /\ Filled(Parses(T, k, name))
<1> DEFINE U == Parses(T, k, name)
           x == Parsed(T[k], name)
           y == IF Readable(name) THEN Hits[T[k].query][name] ELSE <<>>
<1>1. /\ Len(T) = Len(S) /\ Len(S) \in Nat /\ DOMAIN T = 1..Len(S)
      /\ T[k] \in Stage /\ T[k].query \in Query /\ T[k].file \in Name \cup {NoName}
  <2>1. Len(T) = Len(S) /\ Len(S) \in Nat /\ DOMAIN T = 1..Len(S)
    BY DEF SameStages
  <2>2. T[k] \in Stage
    BY <2>1
  <2> QED
    BY <2>1, <2>2 DEF Stage
<1>2. Hits[T[k].query][name] \in Seq(Result) /\ y \in Seq(Result)
  <2>1. <<>> \in Seq(Result)
    OBVIOUS
  <2> QED
    BY <1>1, <2>1, IteratorAssumption
<1>3. /\ x \in Stage /\ x.query = T[k].query /\ x.file = name
      /\ x.buffer = IF name = T[k].file THEN T[k].buffer ELSE y
  <2>1. CASE name = T[k].file
    BY <1>1, <2>1 DEF Parsed
  <2>2. CASE name # T[k].file
    <3>1. x = [T[k] EXCEPT !.file = name, !.buffer = y]
      BY <2>2 DEF Parsed
    <3> HIDE DEF x, y
    <3> QED
      BY <1>1, <1>2, <2>2, <3>1 DEF Stage
  <2> QED
    BY <2>1, <2>2
<1> HIDE DEF x
<1>4. /\ U \in Seq(Stage) /\ Len(U) = Len(S) /\ DOMAIN U = 1..Len(S) /\ U[k] = x
      /\ \A j \in 1..Len(S) : j # k => U[j] = T[j]
  <2>1. U = [T EXCEPT ![k] = x]
    BY DEF Parses, x
  <2> HIDE DEF U
  <2> QED
    BY <1>1, <1>3, <2>1
<1> HIDE DEF U
<1>5. SameStages(S, U)
  BY <1>1, <1>3, <1>4 DEF SameStages
<1>6. Filled(U)
  <2> SUFFICES ASSUME NEW j \in 1..Len(S), U[j].buffer # <<>>
               PROVE  U[j].file \in Name /\ Hits[U[j].query][U[j].file] # <<>>
    BY <1>4 DEF Filled
  <2>1. CASE j = k
    <3>1. k \in DOMAIN T /\ U[j] = x /\ x.buffer # <<>>
      BY <1>1, <1>4, <2>1
    <3>2. CASE name = T[k].file
      BY <1>3, <3>1, <3>2 DEF Filled
    <3>3. CASE name # T[k].file
      BY <1>3, <3>1, <3>3 DEF y
    <3> QED
      BY <3>2, <3>3
  <2>2. CASE j # k
    BY <1>1, <1>4, <2>2 DEF Filled
  <2> QED
    BY <2>1, <2>2
<1> QED
  BY <1>4, <1>5, <1>6 DEF U

\* What holds of a stage that takes an entry from below.
LEMMA StageTakes ==
  ASSUME NEW c \in Knowledge, NEW d, NEW S \in Seq(Stage), NEW cell \in Cell, InRange(cell),
         Serves(c, S, cell), Filled(S), Present(c, cell), InTouch(c),
         NEW k \in 1..Len(S), Left(S, cell, k - 1) # <<>>, S[k].buffer = <<>>,
         NEW T \in Seq(Stage), NEW to \in Cell, InRange(to), Filled(T),
         Popped(c, S, cell, T, to, k - 1), Unsure(c) \subseteq Unsure(d),
         NEW name, name = Order(cell)[Pos(S, cell, k - 1)],
         Pos(S, cell, k - 1) \in DOMAIN Order(cell),
         name # S[k].file /\ ~Readable(name) => name \in Unsure(d)
  PROVE  LET U == Parses(T, k, name)
             b == Pos(S, cell, k - 1)
             a == Pos(S, cell, k)
         IN  /\ U \in Seq(Stage) /\ SameStages(S, U) /\ Alike(cell, to) /\ Filled(U)
             /\ \A j \in 1..Len(S) : j # k => U[j] = T[j]
             /\ U[k].file = name
             /\ a \in Nat /\ Pos(U, to, k) = b
             /\ Left(S, cell, k) = <<>>
             /\ a = b => Left(U, to, k) = <<>>
             /\ a < b /\ name \notin Unsure(d) =>
                  Left(U, to, k) = Yield(S, cell, k, name)
             /\ Exact(c, S, cell) =>
                  /\ a <= b
                  /\ name \notin Unsure(c) => b \in Wanted(c, S, cell, k - 1)
<1> DEFINE O == Order(cell)
           U == Parses(T, k, name)
           b == Pos(S, cell, k - 1)
           a == Pos(S, cell, k)
           x == Parsed(T[k], name)
<1>1. /\ k - 1 \in 0..Len(S) /\ k \in 0..Len(S) /\ k # 0 /\ k > 0 /\ k # k - 1
      /\ Len(O) \in Nat /\ DOMAIN O = 1..Len(O) /\ \A i \in DOMAIN O : O[i] \in Name
      /\ Len(S) \in Nat /\ DOMAIN S = 1..Len(S)
  BY Orders
<1>2. SameStages(S, T) /\ Alike(cell, to) /\ T[k] = S[k] /\ Order(to) = O
  BY <1>1, AlikeIs DEF Popped
<1>3. name \in Name /\ S[k] \in Stage /\ Len(T) = Len(S)
  BY <1>1, <1>2 DEF SameStages
<1>4. S[k].query \in Query /\ S[k].file \in Name \cup {NoName}
  BY <1>3 DEF Stage
<1>5. Hits[S[k].query][name] \in Seq(Result)
  BY <1>3, <1>4, IteratorAssumption
<1>6. /\ x \in Stage /\ x.file = name /\ x.query = S[k].query
      /\ name = S[k].file => x.buffer = <<>>
      /\ name # S[k].file =>
           x.buffer = IF Readable(name) THEN Hits[S[k].query][name] ELSE <<>>
  <2>1. CASE name = S[k].file
    BY <1>2, <1>3, <2>1 DEF Parsed
  <2>2. CASE name # S[k].file
    <3> DEFINE y == IF Readable(name) THEN Hits[S[k].query][name] ELSE <<>>
    <3>1. <<>> \in Seq(Result)
      OBVIOUS
    <3>2. y \in Seq(Result)
      BY <1>5, <3>1
    <3>3. x = [S[k] EXCEPT !.file = name, !.buffer = y]
      BY <1>2, <2>2 DEF Parsed
    <3> HIDE DEF x, y
    <3>4. x \in Stage /\ x.file = name /\ x.query = S[k].query /\ x.buffer = y
      BY <1>3, <3>2, <3>3 DEF Stage
    <3> QED
      BY <2>2, <3>4 DEF y
  <2> QED
    BY <2>1, <2>2
<1> HIDE DEF x
<1>7. /\ U \in Seq(Stage) /\ Len(U) = Len(S) /\ U[k] = x
      /\ \A j \in 1..Len(S) : j # k => U[j] = T[j]
  <2>1. U = [T EXCEPT ![k] = x]
    BY DEF Parses, x
  <2> HIDE DEF U
  <2> QED
    BY <1>3, <1>6, <2>1
<1> HIDE DEF U
<1>8. SameStages(S, U)
  BY <1>2, <1>3, ParsesKeeps DEF U
<1>9. Filled(U)
  BY <1>2, <1>3, ParsesKeeps DEF U
<1>10. /\ a = Place(cell, S[k].file) /\ Left(S, cell, k) = <<>>
       /\ Pos(U, to, k) = Place(to, name) /\ Left(U, to, k) = x.buffer
  BY <1>1, <1>6, <1>7 DEF Pos, Left
<1>11. Place(to, name) = b
  BY <1>2, Places
<1>12. b \in Nat /\ b \in DOMAIN O /\ a \in Nat
  BY <1>1, LeftIs
<1>13. ASSUME Exact(c, S, cell) PROVE a <= b
  <2>1. Between(c, S, cell, k - 1)
    <3>1. k - 1 \in 0..(Len(S) - 1)
      BY <1>1
    <3> QED
      BY <1>13, <3>1 DEF Exact
  <2>2. (k - 1) + 1 = k
    BY <1>1
  <2> QED
    BY <2>1, <2>2 DEF Between
<1>14. a = b <=> S[k].file = name
  <2>1. S[k].file = name => a = b
    BY <1>10, Places
  <2>2. CASE S[k].file = NoName
    BY <1>1, <1>3, <1>10, <1>12, <2>2, Places, IteratorAssumption
  <2>3. CASE S[k].file \in Name
    BY <1>10, <2>1, <2>3, Places
  <2> QED
    BY <1>4, <2>1, <2>2, <2>3
<1>15. a = b => Left(U, to, k) = <<>>
  BY <1>6, <1>10, <1>14
<1>16. a < b /\ name \notin Unsure(d) => Left(U, to, k) = Yield(S, cell, k, name)
  <2>1. a < b => S[k].file # name
    BY <1>12, <1>14
  <2> QED
    BY <1>1, <1>6, <1>10, <2>1 DEF Yield
<1>17. ASSUME Exact(c, S, cell), name \notin Unsure(c) PROVE b \in Wanted(c, S, cell, k - 1)
  <2>1. CASE k = 1
    <3>1. b = cell.at /\ k - 1 = 0
      BY <2>1 DEF Pos
    <3>2. ~AtEnd(cell) /\ isValid(cell)
      BY <1>1, <2>1, LeftIs DEF HasEntry
    <3>3. name \in c.names /\ name \notin c.changed
      BY <1>1, <1>12, <1>17, <3>1 DEF Present, Unsure
    <3>4. Contents(cell, name) # <<>>
      <4>1. cell.at <= Len(O)
        BY <1>1, <1>12, <3>1
      <4>2. cell.nth \in 1..Len(Contents(cell, name))
        BY <3>1, <4>1 DEF InRange
      <4>3. Len(<<>>) = 0
        OBVIOUS
      <4> QED
        BY <4>2, <4>3
    <3>5. name \in cell.names /\ (cell.kind \in {"container", "results"} \/ name \in Xml)
      BY <3>1, <3>2, <3>3 DEF isValid, Serves
    <3>6. Passes(S, cell, 0, name)
      <4>1. \A j \in 0..0 : j = 0
        OBVIOUS
      <4> QED
        BY <3>4, <3>5, <4>1 DEF Passes, Yield
    <3> QED
      BY <1>12, <1>17, <3>1, <3>6 DEF Wanted
  <2>2. CASE k # 1
    <3>1. /\ k - 1 \in 1..Len(S) /\ k - 1 > 0 /\ k - 1 # 0 /\ k - 1 \in Nat
          /\ (k - 1) - 1 \in Nat /\ (k - 1) - 1 \in 0..Len(S)
      BY <1>1, <2>2
    <3>2. b = Place(cell, S[k - 1].file) /\ S[k - 1].buffer # <<>>
      BY <3>1 DEF Pos, Left
    <3>3. S[k - 1].file \in Name /\ Hits[S[k - 1].query][S[k - 1].file] # <<>>
      BY <1>1, <3>1, <3>2 DEF Filled
    <3>4. name = S[k - 1].file
      BY <3>2, <3>3, Places
    <3>5. Genuine(c, S, cell, k - 1)
      BY <1>17, <3>1 DEF Exact
    <3>6. Passes(S, cell, (k - 1) - 1, name)
      BY <1>17, <3>3, <3>4, <3>5 DEF Genuine
    <3>7. b \in Wanted(c, S, cell, (k - 1) - 1)
      BY <1>12, <1>17, <3>6 DEF Wanted
    <3>8. Yield(S, cell, k - 1, name) # <<>>
      BY <3>1, <3>3, <3>4 DEF Yield
    <3> DEFINE j == k - 1
    <3>9. j \in Nat /\ j > 0 /\ b \in Wanted(c, S, cell, j - 1) /\ Yield(S, cell, j, O[b]) # <<>>
      BY <3>1, <3>7, <3>8
    <3> HIDE DEF j, b
    <3>10. b \in Wanted(c, S, cell, j)
      BY <3>9, WantedIs
    <3> QED
      BY <3>10 DEF j, b
  <2> QED
    BY <2>1, <2>2
<1> QED
  BY <1>2, <1>6, <1>7, <1>8, <1>9, <1>10, <1>11, <1>12, <1>13, <1>15, <1>16, <1>17 DEF U

LEMMA ExactTakes ==
  ASSUME NEW c \in Knowledge, NEW d \in Knowledge, NEW S \in Seq(Stage), NEW cell \in Cell,
         InRange(cell), Serves(c, S, cell), Filled(S), Present(c, cell), InTouch(c),
         Exact(c, S, cell),
         NEW k \in 1..Len(S), Left(S, cell, k - 1) # <<>>, S[k].buffer = <<>>,
         NEW T \in Seq(Stage), NEW to \in Cell, InRange(to), Filled(T),
         Popped(c, S, cell, T, to, k - 1),
         SameRequest(c, d), Unsure(c) \subseteq Unsure(d), d.got = c.got,
         NEW name, name = Order(cell)[Pos(S, cell, k - 1)],
         Pos(S, cell, k - 1) \in DOMAIN Order(cell),
         name # S[k].file /\ ~Readable(name) => name \in Unsure(d)
  PROVE  Exact(d, Parses(T, k, name), to)
<1> DEFINE O == Order(cell)
           U == Parses(T, k, name)
           m == Len(S)
           b == Pos(S, cell, k - 1)
           a == Pos(S, cell, k)
<1>1. /\ U \in Seq(Stage) /\ SameStages(S, U) /\ Alike(cell, to) /\ Filled(U)
      /\ \A j \in 1..m : j # k => U[j] = T[j]
      /\ U[k].file = name
      /\ a \in Nat /\ a <= b /\ Pos(U, to, k) = b
      /\ Left(S, cell, k) = <<>>
      /\ a = b => Left(U, to, k) = <<>>
      /\ a < b /\ name \notin Unsure(d) => Left(U, to, k) = Yield(S, cell, k, name)
      /\ name \notin Unsure(c) => b \in Wanted(c, S, cell, k - 1)
  BY StageTakes
<1> HIDE DEF U
<1>2. /\ k - 1 \in 0..m /\ k - 1 \in 0..(m - 1) /\ k \in 0..m /\ (k - 1) + 1 = k /\ m \in Nat
      /\ DOMAIN O = 1..Len(O) /\ O \in Seq(Name) /\ Order(to) = O
      /\ \A i \in DOMAIN O : O[i] \in Name /\ i \in Nat
      /\ b \in DOMAIN O /\ b \in Nat /\ O[b] = name /\ Len(U) = m
  <2>1. /\ k - 1 \in 0..m /\ k - 1 \in 0..(m - 1) /\ k \in 0..m /\ (k - 1) + 1 = k /\ m \in Nat
    OBVIOUS
  <2>2. /\ DOMAIN O = 1..Len(O) /\ O \in Seq(Name) /\ Order(to) = O
        /\ \A i \in DOMAIN O : O[i] \in Name /\ i \in Nat
    BY <1>1, Orders, AlikeIs
  <2> QED
    BY <1>1, <2>1, <2>2 DEF SameStages
<1>3. \A j \in 0..m : j # k - 1 /\ j # k =>
        Pos(U, to, j) = Pos(S, cell, j) /\ Left(U, to, j) = Left(S, cell, j)
  <2> SUFFICES ASSUME NEW j \in 0..m, j # k - 1, j # k
               PROVE  Pos(U, to, j) = Pos(S, cell, j) /\ Left(U, to, j) = Left(S, cell, j)
    OBVIOUS
  <2>1. Pos(T, to, j) = Pos(S, cell, j) /\ Left(T, to, j) = Left(S, cell, j)
    BY DEF Popped
  <2>2. CASE j = 0
    <3>1. ~(j > 0)
      BY <2>2
    <3> QED
      BY <2>1, <2>2, <3>1 DEF Pos, Left
  <2>3. CASE j # 0
    <3>1. U[j] = T[j]
      BY <1>1, <2>3
    <3> QED
      BY <2>1, <2>3, <3>1 DEF Pos, Left
  <2> QED
    BY <2>2, <2>3
<1>4. /\ \/ /\ Pos(U, to, k - 1) = b
            /\ k = 1 => to.nth > 1
         \/ k = 1 /\ Onward(c, S, cell, U, to)
      /\ k # 1 => to = cell
  <2>1. Pos(U, to, k - 1) = Pos(T, to, k - 1) /\ Left(U, to, k - 1) = Left(T, to, k - 1)
    <3>1. CASE k = 1
      <4>1. ~(k - 1 > 0) /\ k - 1 = 0
        BY <3>1
      <4> QED
        BY <4>1 DEF Pos, Left
    <3>2. CASE k # 1
      <4>1. k - 1 \in 1..m /\ k - 1 # k /\ k - 1 # 0
        BY <1>2, <3>2
      <4>2. U[k - 1] = T[k - 1]
        BY <1>1, <4>1
      <4> QED
        BY <4>1, <4>2 DEF Pos, Left
    <3> QED
      BY <3>1, <3>2
  <2>2. k - 1 = 0 <=> k = 1
    BY <1>2
  <2>3. k = 1 /\ Onward(c, S, cell, T, to) => Onward(c, S, cell, U, to)
    BY <2>1, <2>2 DEF Onward
  <2>4. k - 1 # 0 => to = cell
    BY DEF Popped
  <2>5. \/ Pos(T, to, k - 1) = b /\ (k - 1 = 0 => to.nth > 1)
        \/ k - 1 = 0 /\ Onward(c, S, cell, T, to)
    BY DEF Popped
  <2> QED
    BY <2>1, <2>2, <2>3, <2>4, <2>5
<1>5. \A j \in 1..m : Genuine(d, U, to, j)
  <2> TAKE j \in 1..m
  <2>1. CASE j = k
    <3>1. ASSUME name \notin Unsure(d) PROVE Passes(U, to, k - 1, name)
      <4>1. b \in Wanted(c, S, cell, k - 1)
        BY <1>1, <3>1
      <4>2. Passes(S, cell, k - 1, name)
        BY <1>2, <4>1 DEF Wanted
      <4>3. U \in Seq(Stage) /\ SameStages(S, U) /\ Alike(cell, to) /\ k - 1 \in 0..Len(S)
        BY <1>1, <1>2
      <4>4. \A n : Passes(U, to, k - 1, n) <=> Passes(S, cell, k - 1, n)
        BY ONLY <4>3, SamePipeline
      <4> QED
        BY <4>2, <4>4
    <3> QED
      BY <1>1, <2>1, <3>1 DEF Genuine
  <2>2. CASE j # k
    <3>1. U[j].file = S[j].file
      BY <1>1, <2>2 DEF Popped
    <3>2. Genuine(c, S, cell, j)
      BY DEF Exact
    <3> QED
      BY <1>1, <3>1, <3>2, GenuineSame
  <2> QED
    BY <2>1, <2>2
<1>6. Between(c, S, cell, k - 1)
  BY <1>2 DEF Exact
<1>7. \A i \in Wanted(c, S, cell, k - 1) : a < i /\ i <= b => i = b
  BY <1>2, <1>6 DEF Between
<1>8. ASSUME NEW j \in 0..(m - 1) PROVE Between(d, U, to, j)
  <2>1. j \in 0..m /\ j + 1 \in 0..m /\ j + 1 \in 1..m
    BY <1>2
  <2>2. Between(c, S, cell, j)
    BY DEF Exact
  <2>3. Wanted(d, U, to, j) \subseteq Wanted(c, S, cell, j)
    BY <1>1, <2>1, SameWanted
  <2>4. \A n : Yield(U, to, j, n) = Yield(S, cell, j, n)
    BY <1>1, <2>1, SamePipeline
  <2>5. CASE j = k - 1
    <3>1. Pos(U, to, j + 1) = b
      BY <1>1, <1>2, <2>5
    <3>2. CASE Pos(U, to, k - 1) = b /\ (k = 1 => to.nth > 1)
      <4>1. \A i \in Wanted(d, U, to, j) : i \in Nat
        BY <1>2, <2>3, WantedIs
      <4>2. ~\E i \in Wanted(d, U, to, j) : b < i /\ i <= b
        BY <1>2, <4>1
      <4> QED
        BY <1>2, <2>5, <3>1, <3>2, <4>2 DEF Between
    <3>3. CASE k = 1 /\ Onward(c, S, cell, U, to)
      <4>1. j = 0 /\ b = cell.at /\ Pos(U, to, j) = to.at /\ to.at \in Nat /\ b < to.at
        BY <2>5, <3>3 DEF Pos, Cell, Onward
      <4>2. ASSUME NEW i \in Wanted(d, U, to, j), b < i, i <= to.at
            PROVE  i = to.at /\ Left(U, to, j) = Yield(U, to, j, O[i])
        <5>1. i \in Wanted(c, S, cell, 0) /\ i \in DOMAIN O /\ O[i] \notin Unsure(c)
          BY <2>3, <4>1, <4>2, WantedIs
        <5> QED
          BY <2>4, <3>3, <4>1, <4>2, <5>1 DEF Onward
      <4> QED
        BY <1>2, <3>1, <4>1, <4>2 DEF Between
    <3> QED
      BY <1>4, <3>2, <3>3
  <2>6. CASE j = k
    <3> DEFINE above == Pos(U, to, j + 1)
    <3>1. above = Pos(S, cell, j + 1) /\ above \in Nat
      <4>1. j + 1 # k - 1 /\ j + 1 # k
        BY <1>2, <2>6
      <4> QED
        BY <1>3, <2>1, <4>1, LeftIs
    <3>2. above <= a /\ Pos(U, to, j) = b /\ j # 0 /\ Left(S, cell, j) = <<>>
      BY <1>1, <2>2, <2>6, <3>1 DEF Between
    <3>3. ASSUME NEW i \in Wanted(d, U, to, j), above < i, i <= b
          PROVE  i = b /\ Left(U, to, j) = Yield(U, to, j, O[i])
      <4>1. i \in Wanted(c, S, cell, k) /\ i \in Nat
        BY <1>2, <2>3, <2>6, WantedIs
      <4>2. ~(i <= a)
        <5> SUFFICES ASSUME i <= a PROVE FALSE
          OBVIOUS
        <5>1. Left(S, cell, k) = Yield(S, cell, k, O[i])
          BY <2>2, <2>6, <3>1, <3>3, <4>1 DEF Between
        <5>2. Yield(S, cell, k, O[i]) # <<>>
          BY <1>2, <4>1, WantedIs
        <5> QED
          BY <1>1, <5>1, <5>2
      <4>3. i \in Wanted(c, S, cell, k - 1)
        BY <1>2, <4>1, WantedIs
      <4>4. a < i
        BY <1>1, <4>1, <4>2
      <4>5. i = b
        BY <1>7, <3>3, <4>3, <4>4
      <4>6. name \notin Unsure(d)
        <5>1. O[i] \notin Unsure(d)
          BY <1>2, <2>1, <3>3, WantedIs
        <5> QED
          BY <1>2, <4>5, <5>1
      <4> QED
        BY <1>1, <1>2, <2>4, <2>6, <4>4, <4>5, <4>6
    <3>4. above <= b
      BY <1>1, <1>2, <3>1, <3>2
    <3> QED
      BY <1>2, <3>2, <3>3, <3>4 DEF Between
  <2>7. CASE j # k - 1 /\ j # k
    <3>1. j + 1 # k
      BY <1>2, <2>7
    <3>2. Pos(U, to, j) = Pos(S, cell, j) /\ Left(U, to, j) = Left(S, cell, j)
      BY <1>3, <2>1, <2>7
    <3>3. Pos(U, to, j + 1) = Pos(S, cell, j + 1)
      <4>1. CASE j + 1 = k - 1
        <5>1. k # 1
          BY <1>2, <2>1, <4>1
        <5> QED
          BY <1>4, <4>1, <5>1
      <4>2. CASE j + 1 # k - 1
        BY <1>3, <2>1, <3>1, <4>2
      <4> QED
        BY <4>1, <4>2
    <3>4. j = 0 => to.nth = cell.nth
      <4>1. j = 0 => k # 1
        BY <2>7
      <4> QED
        BY <1>4, <4>1
    <3> QED
      BY <1>1, <2>1, <2>2, <3>2, <3>3, <3>4, BetweenSame
  <2> QED
    BY <2>5, <2>6, <2>7
<1> DEFINE p == Pos(S, cell, m)
           left == Left(S, cell, m)
           q == Pos(U, to, m)
           rest == Left(U, to, m)
<1>9. PICK G \in Groups(O) : Delivered(c, O, p, left, G)
  BY DEF Exact
<1>10. Delivered(d, O, q, rest, G)
  <2>1. p \in Nat /\ q \in Nat /\ rest \in Seq(Content)
    <3>1. m \in 0..m /\ m \in 0..Len(U)
      BY <1>2
    <3> QED
      BY <1>1, <3>1, LeftIs
  <2>2. CASE k # m
    <3>1. m # k - 1 /\ m \in 0..m
      BY <1>2
    <3>2. q = p /\ rest = left
      BY <1>3, <2>2, <3>1
    <3> HIDE DEF O, p, q, rest, left
    <3> QED
      BY <1>2, <1>9, <2>1, <3>2, DeliveredMoves
  <2>3. CASE k = m
    <3>1. p = a /\ q = b /\ left = <<>> /\ rest = Left(U, to, k)
      BY <1>1, <2>3
    <3>2. ASSUME NEW i \in DOMAIN O, O[i] \notin Unsure(d)
          PROVE  Of(c, O[i]) = IF i \in Wanted(c, S, cell, k)
                               THEN Shown(c, O[i], Yield(S, cell, k, O[i])) ELSE <<>>
      <4>1. O[i] \notin Unsure(c)
        BY <3>2
      <4> QED
        BY <2>3, <4>1, OfWanted
    <3>3. \A i \in DOMAIN O : p < i /\ i < q /\ O[i] \notin Unsure(d) => Of(c, O[i]) = <<>>
      <4> SUFFICES ASSUME NEW i \in DOMAIN O, p < i, i < q, O[i] \notin Unsure(d)
                   PROVE  i \notin Wanted(c, S, cell, k)
        BY <3>2
      <4>1. i \in Wanted(c, S, cell, k) => i \in Wanted(c, S, cell, k - 1)
        <5>1. k \in Nat /\ k > 0
          BY <1>2
        <5> QED
          BY ONLY <5>1, WantedIs
      <4>2. a < i /\ i <= b /\ i # b
        BY <1>2, <3>1
      <4> QED
        BY <1>7, <4>1, <4>2
    <3>4. ASSUME NEW i \in DOMAIN O, p < i, i = q, O[i] \notin Unsure(d)
          PROVE  Shown(c, O[i], rest) = Of(c, O[i]) /\ Shown(c, O[i], rest) \in Seq(E)
      <4>1. i = b /\ a < b /\ O[i] = name /\ name \notin Unsure(d) /\ name \notin Unsure(c)
        BY <1>2, <3>1, <3>4
      <4>2. rest = Yield(S, cell, k, O[i])
        BY <1>1, <3>1, <4>1
      <4>3. i \in Wanted(c, S, cell, k - 1)
        BY <1>1, <4>1
      <4>4. i \notin Wanted(c, S, cell, k) => rest = <<>>
        BY <1>2, <4>2, <4>3, WantedIs
      <4>5. Shown(c, O[i], rest) \in Seq(E)
        BY <1>2, <2>1, ShownIs
      <4> QED
        BY <3>2, <3>4, <4>2, <4>4, <4>5, NoEntries
    <3>5. p <= q /\ (p = q => rest = left) /\ (p < q => left = <<>>)
      BY <1>1, <3>1
    <3> HIDE DEF O, p, q, rest, left
    <3> QED
      BY <1>2, <1>9, <2>1, <3>3, <3>4, <3>5, DeliveredMoves
  <2> QED
    BY <2>2, <2>3
<1> QED
  BY <1>2, <1>5, <1>8, <1>9, <1>10 DEF Exact, U

----------------------------------------------------------------------------
(* An iterator is opened at what its source sees first.                    *)

LEMMA SourceIs ==
  ASSUME TypeOK, NEW kind \in Kind, NEW q \in Query \cup {NoName}, kind = "results" => q \in Query
  PROVE  LET none == [kind |-> kind, query |-> q, names |-> disk, at |-> 0, nth |-> 1]
             cell == Source(kind, q)
         IN  /\ none \in Cell /\ cell \in Cell /\ InRange(cell)
             /\ Alike(none, cell) /\ Jumps(none, cell) /\ none.at = 0
             /\ cell.kind = kind /\ cell.query = q /\ cell.names = disk
<1> DEFINE none == [kind |-> kind, query |-> q, names |-> disk, at |-> 0, nth |-> 1]
           cell == Source(kind, q)
           b == Beyond(none, 0)
           O == Order(none)
<1>1. none \in Cell /\ none.at = 0
  BY DEF TypeOK, Cell
<1>2. cell = [kind |-> kind, query |-> q, names |-> disk, at |-> b, nth |-> 1]
  BY DEF Source
<1>3. Len(O) \in Nat /\ DOMAIN O = 1..Len(O) /\ \A i \in DOMAIN O : O[i] \in Name
  BY Orders
<1>4. /\ b \in Nat /\ 0 < b /\ b <= Len(O) + 1
      /\ b <= Len(O) => Sees(none, O[b])
      /\ \A j \in DOMAIN O : 0 < j /\ j < b => ~Sees(none, O[j])
  BY <1>1, <1>3, BeyondIs
<1>5. /\ cell \in Cell /\ cell.kind = kind /\ cell.query = q /\ cell.names = disk
      /\ cell.at = b /\ cell.nth = 1
  <2> HIDE DEF cell, b
  <2> QED
    BY <1>2, <1>4 DEF TypeOK, Cell
<1>6. Alike(none, cell)
  BY <1>5 DEF Alike
<1> HIDE DEF cell, b
<1>7. Order(cell) = O /\ \A n : Contents(cell, n) = Contents(none, n)
  BY <1>6, AlikeIs
<1>8. Jumps(none, cell)
  BY <1>1, <1>4, <1>5 DEF Jumps
<1>9. InRange(cell)
  <2>1. ASSUME b <= Len(O) PROVE 1 \in 1..Len(Contents(none, O[b]))
    <3>1. O[b] \in Name /\ Contents(none, O[b]) # <<>>
      BY <1>3, <1>4, <2>1 DEF Sees
    <3>2. Len(Contents(none, O[b])) \in Nat /\ Len(Contents(none, O[b])) >= 1
      BY <1>1, <3>1, ContentsType
    <3> QED
      BY <3>2
  <2>2. b \in 1..(Len(O) + 1)
    BY <1>3, <1>4
  <2> QED
    BY <1>5, <1>7, <2>1, <2>2 DEF InRange
<1> QED
  BY <1>1, <1>5, <1>6, <1>8, <1>9 DEF cell

LEMMA ExactOpens ==
  ASSUME NEW c \in Knowledge, NEW S \in Seq(Stage), NEW none \in Cell, NEW cell \in Cell,
         InRange(cell), Serves(c, S, cell), Alike(none, cell), Jumps(none, cell), none.at = 0,
         InTouch(c), c.got = <<>>, \A k \in 1..Len(S) : S[k].file = NoName
  PROVE  Exact(c, S, cell) /\ Present(c, cell)
<1> DEFINE O == Order(cell)
           m == Len(S)
           q == Pos(S, cell, m)
           rest == Left(S, cell, m)
<1>1. /\ m \in Nat /\ DOMAIN O = 1..Len(O) /\ O \in Seq(Name) /\ Len(O) \in Nat
      /\ \A i \in DOMAIN O : O[i] \in Name
      /\ q \in Nat /\ rest \in Seq(Content) /\ SameStages(S, S)
      /\ Order(none) = O /\ none.names = c.names /\ cell.at \in Nat
  <2>1. m \in Nat /\ m \in 0..m /\ SameStages(S, S)
    BY DEF SameStages
  <2>2. q \in Nat /\ rest \in Seq(Content)
    BY <2>1, LeftIs
  <2>3. Order(none) = O /\ none.names = c.names /\ cell.at \in Nat
    BY AlikeIs DEF Alike, Serves, Cell
  <2> QED
    BY <2>1, <2>2, <2>3, Orders
<1>2. Onward(c, S, none, S, cell) /\ Present(c, cell)
  BY <1>1, SourceGoesOn
<1>3. \A i \in DOMAIN O, n \in Name : Yield(S, none, 0, n) = Yield(S, cell, 0, n)
  <2>1. 0 \in 0..m
    BY <1>1
  <2> QED
    BY <1>1, <2>1, SamePipeline
<1>4. Wanted(c, S, none, 0) = Wanted(c, S, cell, 0)
  <2>1. 0 \in 0..m /\ Alike(cell, none) /\ Unsure(c) \subseteq Unsure(c)
    BY <1>1 DEF Alike
  <2>2. Wanted(c, S, none, 0) \subseteq Wanted(c, S, cell, 0)
    BY <1>1, <2>1, SameWanted
  <2>3. Wanted(c, S, cell, 0) \subseteq Wanted(c, S, none, 0)
    BY <1>1, <2>1, SameWanted
  <2> QED
    BY <2>2, <2>3
<1>5. ASSUME NEW i \in DOMAIN O, i <= cell.at, O[i] \notin Unsure(c)
      PROVE  IF i \in Wanted(c, S, cell, 0)
             THEN i = cell.at /\ Left(S, cell, 0) = Yield(S, cell, 0, O[i])
             ELSE i = cell.at => Left(S, cell, 0) = <<>>
  BY <1>1, <1>2, <1>3, <1>4, <1>5 DEF Onward
<1>6. cell.at > 0
  BY <1>2 DEF Onward
<1>7. \A k \in 1..m : Pos(S, cell, k) = 0
  BY Places DEF Pos
<1>8. \A k \in 1..m : Genuine(c, S, cell, k)
  BY IteratorAssumption DEF Genuine
<1>9. ASSUME NEW k \in 0..(m - 1) PROVE Between(c, S, cell, k)
  <2>1. Pos(S, cell, k + 1) = 0 /\ k \in 0..m /\ k \in Nat
    <3>1. k + 1 \in 1..m /\ k \in 0..m /\ k \in Nat
      BY <1>1
    <3> QED
      BY <1>7, <3>1
  <2>2. \A i \in Wanted(c, S, cell, k) : i \in DOMAIN O /\ i \in Nat /\ O[i] \notin Unsure(c)
    BY <1>1, <2>1, WantedIs
  <2>3. CASE k = 0
    <3>1. Pos(S, cell, 0) = cell.at
      BY DEF Pos
    <3>2. ASSUME NEW i \in Wanted(c, S, cell, 0), i <= cell.at
          PROVE  i = cell.at /\ Left(S, cell, 0) = Yield(S, cell, 0, O[i])
      BY <1>5, <2>2, <2>3, <3>2
    <3>3. 0 <= cell.at /\ cell.at # 0
      BY <1>1, <1>6
    <3> QED
      BY <2>1, <2>3, <3>1, <3>2, <3>3 DEF Between
  <2>4. CASE k # 0
    <3>1. Pos(S, cell, k) = 0
      BY <1>7, <2>1, <2>4
    <3>2. ~\E i \in Wanted(c, S, cell, k) : 0 < i /\ i <= 0
      BY <2>2
    <3> QED
      BY <2>1, <2>4, <3>1, <3>2 DEF Between
  <2> QED
    BY <2>3, <2>4
<1> DEFINE G == [i \in 1..Len(O) |-> <<>>]
<1>10. /\ G \in Seq(Seq(E)) /\ Len(G) = Len(O) /\ \A i \in 1..Len(O) : G[i] = <<>>
  <2> DEFINE T == Seq(E)
  <2>1. <<>> \in T
    OBVIOUS
  <2>2. \A i \in 1..Len(O) : G[i] = <<>>
    OBVIOUS
  <2>3. G \in [1..Len(O) -> T]
    BY <2>1
  <2> HIDE DEF T, G
  <2>4. G \in Seq(T) /\ Len(G) = Len(O)
    BY <1>1, <2>3
  <2> QED
    BY <2>2, <2>4 DEF T
<1> HIDE DEF G
<1>11. FlattenSeq(G) = <<>>
  <2>1. FlattenSeq(G) = UpTo(G, E)[0]
    BY <1>1, <1>10, NothingAfter
  <2> QED
    BY <1>10, <2>1, Joining
<1>12. \A i \in DOMAIN O : \A j \in DOMAIN G[i] : FALSE
  <2>1. DOMAIN <<>> = {}
    OBVIOUS
  <2> QED
    BY <1>1, <1>10, <2>1
<1>13. Delivered(c, O, 0, <<>>, G)
  <2> HIDE DEF O
  <2>0. DOMAIN O = 1..Len(O) /\ Len(O) \in Nat
    BY <1>1
  <2>1. ASSUME NEW i \in DOMAIN O
        PROVE  i > 0 /\ ~(i < 0) /\ i # 0 /\ G[i] = <<>> /\ \A j \in DOMAIN G[i] : FALSE
    BY ONLY <1>10, <1>12, <2>0, <2>1
  <2>2. c.got = FlattenSeq(G)
    BY <1>11
  <2> QED
    BY <2>1, <2>2 DEF Delivered
<1>14. Delivered(c, O, q, rest, G)
  <2>0. /\ Unsure(c) \subseteq Unsure(c) /\ SameRequest(c, c) /\ c.got = c.got
        /\ G \in Groups(O) /\ 0 \in Nat /\ 0 <= q
    BY <1>1, <1>10 DEF SameRequest, Groups
  <2>1. CASE m # 0
    <3>1. q = 0
      BY <1>1, <1>7, <2>1
    <3>2. rest = <<>> \/ rest # <<>>
      OBVIOUS
    <3>3. \A i \in DOMAIN O : ~(i = q /\ O[i] \notin Unsure(c)) /\ ~(i = 0)
      BY ONLY <1>1, <3>1
    <3> HIDE DEF O, q, rest
    <3> QED
      BY ONLY <1>13, <3>1, <3>3 DEF Delivered
  <2>2. CASE m = 0
    <3>1. q = cell.at /\ 0 < q
      BY <1>6, <2>2 DEF Pos
    <3>2. ASSUME NEW i \in DOMAIN O, O[i] \notin Unsure(c)
          PROVE  Of(c, O[i]) = IF i \in Wanted(c, S, cell, 0)
                               THEN Shown(c, O[i], Yield(S, cell, 0, O[i])) ELSE <<>>
      BY <2>2, <3>2, OfWanted
    <3>3. \A i \in DOMAIN O : 0 < i /\ i < q /\ O[i] \notin Unsure(c) => Of(c, O[i]) = <<>>
      <4> SUFFICES ASSUME NEW i \in DOMAIN O, i < q, O[i] \notin Unsure(c)
                   PROVE  i \notin Wanted(c, S, cell, 0)
        BY <3>2
      <4>1. i \in Nat /\ i # cell.at /\ i <= cell.at
        BY <1>1, <3>1
      <4> QED
        BY <1>5, <4>1
    <3>4. ASSUME NEW i \in DOMAIN O, 0 < i, i = q, O[i] \notin Unsure(c)
          PROVE  Shown(c, O[i], rest) = Of(c, O[i]) /\ Shown(c, O[i], rest) \in Seq(E)
      <4>1. i = cell.at /\ i <= cell.at /\ O[i] \in Name
        BY <1>1, <3>1, <3>4
      <4>2. /\ i \in Wanted(c, S, cell, 0) => rest = Yield(S, cell, 0, O[i])
            /\ i \notin Wanted(c, S, cell, 0) => rest = <<>>
        BY <1>5, <2>2, <3>4, <4>1
      <4>3. Shown(c, O[i], rest) \in Seq(E)
        BY <1>1, <4>1, ShownIs
      <4> QED
        BY <3>2, <3>4, <4>2, <4>3, NoEntries
    <3> DEFINE none0 == <<>>
    <3>5. Delivered(c, O, 0, none0, G) /\ 0 # q
      BY <1>13, <3>1
    <3>6. none0 = <<>>
      OBVIOUS
    <3> HIDE DEF O, q, rest, none0
    <3> QED
      BY <1>1, <2>0, <3>3, <3>4, <3>5, <3>6, DeliveredMoves
  <2> QED
    BY <2>1, <2>2
<1> QED
  BY <1>2, <1>8, <1>9, <1>10, <1>14 DEF Exact, Groups

----------------------------------------------------------------------------
(* The steps of a client.                                                  *)

LEMMA ServesSame ==
  ASSUME NEW c, NEW d, NEW S \in Seq(Stage), NEW T \in Seq(Stage), NEW cell, NEW to,
         Serves(c, S, cell), SameRequest(c, d), SameStages(S, T), Alike(cell, to)
  PROVE  Serves(d, T, to)
<1>1. KindOf(d) = KindOf(c) /\ First(d) = First(c)
  BY SameRequestIs
<1>2. DOMAIN S = 1..Len(S) /\ DOMAIN T = 1..Len(S) /\ Len(T) = Len(S)
  BY DEF SameStages
<1> QED
  BY <1>1, <1>2 DEF Serves, SameRequest, SameStages, Alike

\* What is true of an open iterator.
Sound(c, it, cell) ==
  /\ it.styled = c.styled
  /\ Serves(c, it.stages, cell)
  /\ Filled(it.stages)
  /\ Present(c, cell)
  /\ Answered(c, it.stages, cell)
  /\ ~c.moved => Exact(c, it.stages, cell)

LEMMA HandleNext ==
  ASSUME NEW h \in Handle, client'[h].kept,
         status'[h] # "open" => client'[h].said = "nothing",
         status'[h] = "open" =>
           /\ status'[iter'[h].cell] # "unused"
           /\ InTouch(client[h])'
           /\ Sound(client'[h], iter'[h], cells'[iter'[h].cell])
  PROVE  HandleInv(h)'
BY DEF HandleInv, Sound

LEMMA HandleIs ==
  ASSUME ClientInv, NEW h \in Handle
  PROVE  /\ client[h] \in Knowledge /\ client[h].kept
         /\ iter[h] \in Iterator /\ iter[h].stages \in Seq(Stage) /\ iter[h].cell \in Handle
         /\ cells[iter[h].cell] \in Cell /\ InRange(cells[iter[h].cell])
         /\ status[h] # "open" => client[h].said = "nothing"
         /\ status[h] = "open" =>
              /\ status[iter[h].cell] # "unused"
              /\ InTouch(client[h])
              /\ Sound(client[h], iter[h], cells[iter[h].cell])
<1>1. client[h] \in Knowledge /\ iter[h] \in Iterator
  BY DEF ClientInv, TypeOK
<1>2. iter[h].stages \in Seq(Stage) /\ iter[h].cell \in Handle
  BY <1>1 DEF Iterator
<1>3. cells[iter[h].cell] \in Cell /\ InRange(cells[iter[h].cell])
  BY <1>2 DEF ClientInv, TypeOK
<1> QED
  BY <1>1, <1>2, <1>3 DEF ClientInv, HandleInv, Sound

\* A handle a step leaves alone.
LEMMA HandleFrame ==
  ASSUME ClientInv, NEW h \in Handle, UNCHANGED <<db, disk>>,
         client'[h] = client[h], iter'[h] = iter[h], status'[h] = status[h],
         status[h] = "open" =>
           /\ cells'[iter[h].cell] = cells[iter[h].cell]
           /\ status'[iter[h].cell] # "unused"
  PROVE  HandleInv(h)'
<1>1. /\ client[h].kept
      /\ status[h] # "open" => client[h].said = "nothing"
      /\ status[h] = "open" =>
           InTouch(client[h]) /\ Sound(client[h], iter[h], cells[iter[h].cell])
  BY HandleIs
<1>2. status[h] = "open" => InTouch(client[h])'
  BY <1>1 DEF InTouch
<1>3. status[h] = "open" => Sound(client'[h], iter'[h], cells'[iter'[h].cell])
  BY <1>1
<1> QED
  BY <1>1, <1>2, <1>3, HandleNext

LEMMA MovedKeeps ==
  ASSUME ClientInv, NEW h \in Handle, status[h] = "open",
         NEW T \in Seq(Stage), NEW to \in Cell, NEW d \in Knowledge, Moved(h, T, to, d),
         InRange(to), Alike(cells[iter[h].cell], to),
         \A g \in Handle : status[g] = "open" /\ iter[g].cell = iter[h].cell =>
           Present(client[g], to),
         SameRequest(client[h], d), d.changed = client[h].changed, d.kept,
         SameStages(iter[h].stages, T), Filled(T), Answered(d, T, to),
         ~d.moved => Exact(d, T, to)
  PROVE  ClientInv'
<1> DEFINE cell == cells[iter[h].cell]
           S == iter[h].stages
           Else(g) == [client[g] EXCEPT !.moved = TRUE, !.said = "nothing"]
<1>1. /\ iter' = [iter EXCEPT ![h].stages = T]
      /\ cells' = [cells EXCEPT ![iter[h].cell] = to]
      /\ client' = [g \in Handle |->
           CASE g = h -> d
             [] g \in SameCell(h) /\ to # cell -> Else(g)
             [] OTHER -> client[g]]
      /\ UNCHANGED <<db, disk, live, status, size, counted, changes>>
  BY DEF Moved
<1>2. /\ S \in Seq(Stage) /\ iter[h] \in Iterator /\ iter[h].cell \in Handle
      /\ InTouch(client[h]) /\ Sound(client[h], iter[h], cell)
      /\ status[iter[h].cell] # "unused"
  BY HandleIs
<1>3. TypeOK /\ iter \in [Handle -> Iterator] /\ cells \in [Handle -> Cell]
      /\ client \in [Handle -> Knowledge]
  BY DEF ClientInv, TypeOK
<1>4. /\ iter' \in [Handle -> Iterator]
      /\ iter'[h].cell = iter[h].cell /\ iter'[h].stages = T /\ iter'[h].styled = iter[h].styled
      /\ \A g \in Handle : g # h => iter'[g] = iter[g]
  <2> DEFINE x == [iter[h] EXCEPT !.stages = T]
  <2>1. x \in Iterator /\ x.cell = iter[h].cell /\ x.stages = T /\ x.styled = iter[h].styled
    BY <1>2 DEF Iterator
  <2>2. iter' = [iter EXCEPT ![h] = x]
    BY <1>1, <1>3
  <2> HIDE DEF x
  <2> QED
    BY <1>3, <2>1, <2>2
<1>5. /\ cells' \in [Handle -> Cell] /\ cells'[iter[h].cell] = to
      /\ \A k \in Handle : k # iter[h].cell => cells'[k] = cells[k]
  BY <1>1, <1>2, <1>3
<1>6. ASSUME NEW g \in Handle
      PROVE  /\ Else(g) \in Knowledge /\ Else(g).moved = TRUE /\ Else(g).said = "nothing"
             /\ Else(g).kept = client[g].kept /\ SameRequest(client[g], Else(g))
             /\ Else(g).changed = client[g].changed
  <2>1. client[g] \in Knowledge
    BY <1>3
  <2> QED
    BY <2>1 DEF Knowledge, SameRequest
<1>7. /\ client'[h] = d
      /\ \A g \in Handle : g # h =>
           client'[g] = IF g \in SameCell(h) /\ to # cell THEN Else(g) ELSE client[g]
  <2> DEFINE F(g) == CASE g = h -> d
                       [] g \in SameCell(h) /\ to # cell -> Else(g)
                       [] OTHER -> client[g]
  <2>1. client' = [g \in Handle |-> F(g)]
    BY <1>1
  <2> HIDE DEF Else, cell
  <2>2. F(h) = d
    BY DEF SameCell
  <2>3. ASSUME NEW g \in Handle, g # h
        PROVE  F(g) = IF g \in SameCell(h) /\ to # cell THEN Else(g) ELSE client[g]
    BY <2>3
  <2> HIDE DEF F
  <2> QED
    BY <2>1, <2>2, <2>3
<1>8. client' \in [Handle -> Knowledge]
  <2> DEFINE F(g) == CASE g = h -> d
                       [] g \in SameCell(h) /\ to # cell -> Else(g)
                       [] OTHER -> client[g]
  <2>1. client' = [g \in Handle |-> F(g)]
    BY <1>1
  <2>2. \A g \in Handle : client'[g] \in Knowledge
    BY <1>3, <1>6, <1>7
  <2> HIDE DEF F
  <2> QED
    BY <2>1, <2>2
<1> HIDE DEF Else
<1>9. TypeOK'
  BY <1>1, <1>3, <1>4, <1>5, <1>8 DEF TypeOK
<1>10. ASSUME NEW k \in Handle PROVE InRange(cells[k])'
  <2>1. InRange(cells[k]) /\ InRange(to)
    BY DEF ClientInv
  <2>2. cells'[k] = to \/ cells'[k] = cells[k]
    BY <1>5
  <2>3. InRange(cells'[k])
    BY <2>1, <2>2
  <2> QED
    BY <2>3
<1>11. HandleInv(h)'
  <2>1. InTouch(d)
    BY <1>2 DEF InTouch, SameRequest
  <2>2. InTouch(client[h])'
    BY <1>1, <1>7, <2>1 DEF InTouch
  <2>3. Serves(d, T, to)
    BY <1>2, ServesSame DEF Sound
  <2>4. Present(d, to)
    <3>1. Present(client[h], to)
      OBVIOUS
    <3> QED
      BY <3>1 DEF Present, SameRequest
  <2>5. iter'[h].styled = d.styled
    BY <1>2, <1>4 DEF Sound, SameRequest
  <2>6. Sound(client'[h], iter'[h], cells'[iter'[h].cell])
    BY <1>4, <1>5, <1>7, <2>3, <2>4, <2>5 DEF Sound
  <2>7. status'[h] = "open" /\ status'[iter'[h].cell] # "unused" /\ client'[h].kept
    BY <1>1, <1>2, <1>4, <1>7
  <2> QED
    BY <2>2, <2>6, <2>7, HandleNext
<1>12. ASSUME NEW g \in Handle, g # h PROVE HandleInv(g)'
  <2>1. iter'[g] = iter[g] /\ status' = status
    BY <1>1, <1>4, <1>12
  <2>2. CASE g \in SameCell(h) /\ to # cell
    <3>1. client'[g] = Else(g) /\ iter[g].cell = iter[h].cell /\ status[g] = "open"
      BY <1>7, <1>12, <2>2 DEF SameCell
    <3>2. /\ InTouch(client[g]) /\ Sound(client[g], iter[g], cell) /\ client[g].kept
          /\ iter[g].stages \in Seq(Stage)
      BY <3>1, HandleIs
    <3>3. InTouch(client[g])'
      <4>1. /\ client'[g].db = client[g].db /\ client'[g].names = client[g].names
            /\ client'[g].changed = client[g].changed
        BY <1>6, <3>1 DEF SameRequest
      <4>2. db' = db /\ disk' = disk
        BY <1>1
      <4> QED
        BY ONLY <3>2, <4>1, <4>2 DEF InTouch
    <3>4. SameStages(iter[g].stages, iter[g].stages)
      BY DEF SameStages
    <3>5. Serves(Else(g), iter[g].stages, to)
      <4>1. Serves(client[g], iter[g].stages, cell) /\ SameRequest(client[g], Else(g))
        BY <1>6, <3>2 DEF Sound
      <4> QED
        BY ONLY <3>2, <3>4, <4>1, Alike(cell, to), ServesSame
    <3>6. Present(Else(g), to)
      <4>1. Present(client[g], to)
        BY <3>1
      <4> QED
        BY <1>6, <4>1 DEF Present, SameRequest
    <3>7. Answered(Else(g), iter[g].stages, to)
      BY <1>6 DEF Answered
    <3>8. Sound(Else(g), iter[g], to)
      BY <1>6, <3>2, <3>5, <3>6, <3>7 DEF Sound, SameRequest
    <3>9. cells'[iter'[g].cell] = to
      BY <1>5, <2>1, <3>1
    <3>10. Sound(client'[g], iter'[g], cells'[iter'[g].cell])
      BY <2>1, <3>1, <3>8, <3>9
    <3> QED
      BY <1>2, <1>6, <2>1, <3>1, <3>2, <3>3, <3>10, HandleNext
  <2>3. CASE ~(g \in SameCell(h) /\ to # cell)
    <3>1. client'[g] = client[g]
      BY <1>7, <1>12, <2>3
    <3>2. status[g] = "open" => cells'[iter[g].cell] = cells[iter[g].cell]
      <4>1. iter[g].cell \in Handle
        BY HandleIs
      <4>2. CASE iter[g].cell = iter[h].cell
        BY <1>5, <1>12, <2>3, <4>2 DEF SameCell
      <4>3. CASE iter[g].cell # iter[h].cell
        BY <1>5, <4>1, <4>3
      <4> QED
        BY <4>2, <4>3
    <3>3. status[g] = "open" => status'[iter[g].cell] # "unused"
      BY <2>1, HandleIs
    <3> QED
      BY <1>1, <2>1, <3>1, <3>2, <3>3, HandleFrame
  <2> QED
    BY <2>2, <2>3
<1>13. SizeInv'
  BY <1>1 DEF ClientInv, SizeInv
<1> QED
  BY <1>9, <1>10, <1>11, <1>12, <1>13 DEF ClientInv

LEMMA PresentToAll ==
  ASSUME ClientInv, NEW h \in Handle, status[h] = "open",
         NEW g \in Handle, status[g] = "open", iter[g].cell = iter[h].cell
  PROVE  LET cell == cells[iter[h].cell]
         IN  /\ client[g] \in Knowledge /\ cell.names = client[g].names /\ InTouch(client[g])
             /\ cell.kind = KindOf(client[g]) /\ Present(client[g], cell)
<1>1. Sound(client[g], iter[g], cells[iter[g].cell]) /\ InTouch(client[g]) /\ client[g] \in Knowledge
  BY HandleIs
<1> QED
  BY <1>1 DEF Sound, Serves

LEMMA AskedIsOpen ==
  ASSUME ClientInv, NEW h \in Handle, client[h].said # "nothing"
  PROVE  status[h] = "open"
BY HandleIs

LEMMA PassOverKeeps ==
  ASSUME ClientInv, NEW h \in Handle, PassOver(h)
  PROVE  ClientInv'
<1> DEFINE cell == cells[iter[h].cell]
           S == iter[h].stages
           c == client[h]
           to == Advance(cell)
<1>1. c.said = "asked" /\ Reached(S, 0) /\ ~isValid(cell) /\ Moved(h, S, to, c)
  BY DEF PassOver
<1>2. status[h] = "open"
  BY <1>1, AskedIsOpen
<1>3. /\ c \in Knowledge /\ c.kept /\ S \in Seq(Stage) /\ cell \in Cell /\ InRange(cell)
      /\ InTouch(c) /\ Sound(c, iter[h], cell)
  BY <1>2, HandleIs
<1>4. ~AtEnd(cell)
  BY <1>1 DEF isValid
<1>5. ASSUME NEW g \in Handle, status[g] = "open", iter[g].cell = iter[h].cell
      PROVE  /\ to \in Cell /\ InRange(to) /\ Alike(cell, to)
             /\ Onward(client[g], S, cell, S, to) /\ Present(client[g], to)
             /\ cell.at \notin Wanted(client[g], S, cell, 0)
  <2>1. /\ client[g] \in Knowledge /\ cell.names = client[g].names /\ InTouch(client[g])
        /\ cell.kind = KindOf(client[g])
    BY <1>2, <1>5, PresentToAll
  <2> HIDE DEF cell, S
  <2> QED
    BY <1>1, <1>3, <1>4, <2>1, SourcePasses
<1>6. /\ to \in Cell /\ InRange(to) /\ Alike(cell, to)
      /\ Onward(c, S, cell, S, to) /\ cell.at \notin Wanted(c, S, cell, 0)
  BY <1>2, <1>5
<1>7. ASSUME NEW k \in 0..Len(S) PROVE Left(S, cell, k) = <<>>
  <2>1. CASE k = 0
    BY <1>1, <2>1 DEF Left
  <2>2. CASE k # 0
    <3>1. k \in DOMAIN S /\ k > 0
      BY <1>3, <2>2
    <3> QED
      BY <1>1, <3>1 DEF Left, Reached
  <2> QED
    BY <2>1, <2>2
<1> HIDE DEF to
<1>8. ~c.moved => Exact(c, S, to)
  BY <1>3, <1>6, <1>7, ExactPasses DEF Sound
<1>9. Answered(c, S, to)
  BY <1>1 DEF Answered
<1>10. SameRequest(c, c) /\ SameStages(S, S) /\ Filled(S)
  BY <1>3 DEF SameRequest, SameStages, Sound
<1> QED
  BY <1>1, <1>2, <1>3, <1>5, <1>6, <1>8, <1>9, <1>10, MovedKeeps

LEMMA TakeKeeps ==
  ASSUME ClientInv, NEW h \in Handle, NEW k \in DOMAIN iter[h].stages, Take(h, k)
  PROVE  ClientInv'
<1> DEFINE cell == cells[iter[h].cell]
           S == iter[h].stages
           c == client[h]
           name == EntryAt(S, cell, k - 1)[1]
           T == next(S, cell, k - 1).stages
           to == next(S, cell, k - 1).cell
           throws == name # S[k].file /\ ~Readable(name)
           d == IF throws THEN [c EXCEPT !.said = "error", !.missed = @ \cup {name}] ELSE c
           U == Parses(T, k, name)
<1>1. /\ c.said = "asked" /\ Reached(S, k - 1) /\ HasEntry(S, cell, k - 1)
      /\ k = 1 => isValid(cell)
      /\ Moved(h, U, to, d)
  BY DEF Take, Parses
<1>2. status[h] = "open"
  BY <1>1, AskedIsOpen
<1>3. /\ c \in Knowledge /\ c.kept /\ S \in Seq(Stage) /\ cell \in Cell /\ InRange(cell)
      /\ InTouch(c) /\ Sound(c, iter[h], cell)
  BY <1>2, HandleIs
<1>4. k \in 1..Len(S) /\ k - 1 \in 0..Len(S) /\ (k - 1 = 0 <=> k = 1) /\ k > k - 1
  BY <1>3
<1>5. Serves(c, S, cell) /\ Filled(S) /\ Present(c, cell) /\ cell.names = c.names
  BY <1>3 DEF Sound, Serves
<1>6. Left(S, cell, k - 1) # <<>>
  BY <1>1, <1>3, <1>4, LeftIs
<1>7. S[k].buffer = <<>>
  BY <1>1, <1>4 DEF Reached
<1> DEFINE b == Pos(S, cell, k - 1)
<1> HIDE DEF cell, S, c
<1>8. ASSUME NEW x \in Knowledge, cell.names = x.names, InTouch(x), Present(x, cell)
      PROVE  /\ T \in Seq(Stage) /\ to \in Cell /\ InRange(to)
             /\ Filled(T) /\ Present(x, to) /\ Popped(x, S, cell, T, to, k - 1)
             /\ b \in DOMAIN Order(cell) /\ name = Order(cell)[b]
  BY <1>3, <1>4, <1>5, <1>6, <1>8, NextIs
<1>9. /\ T \in Seq(Stage) /\ to \in Cell /\ InRange(to)
      /\ Filled(T) /\ Present(c, to) /\ Popped(c, S, cell, T, to, k - 1)
      /\ b \in DOMAIN Order(cell) /\ name = Order(cell)[b]
  BY <1>3, <1>5, <1>8
<1>10. \A g \in Handle : status[g] = "open" /\ iter[g].cell = iter[h].cell => Present(client[g], to)
  BY <1>2, <1>8, PresentToAll DEF cell
<1>11. name \in Name
  BY <1>9, Orders
<1> HIDE DEF T, to, name, b
<1>12. /\ d \in Knowledge /\ SameRequest(c, d) /\ d.changed = c.changed /\ d.got = c.got
       /\ d.kept = c.kept /\ d.moved = c.moved /\ d.said \in {"asked", "error"}
       /\ c.missed \subseteq d.missed /\ (throws => name \in d.missed)
  <2> HIDE DEF throws
  <2>1. CASE throws
    BY <1>1, <1>3, <1>11, <2>1 DEF Knowledge, SameRequest, c
  <2>2. CASE ~throws
    BY <1>1, <1>3, <2>2 DEF SameRequest, c
  <2> QED
    BY <2>1, <2>2
<1> HIDE DEF d
<1>13. Unsure(c) \subseteq Unsure(d) /\ (throws => name \in Unsure(d))
  BY <1>12 DEF Unsure
<1>14. U \in Seq(Stage) /\ SameStages(S, U) /\ Alike(cell, to) /\ Filled(U)
  <2>1. SameStages(S, T) /\ Alike(cell, to)
    BY <1>9 DEF Popped
  <2> QED
    BY ONLY <1>3, <1>4, <1>9, <1>11, <2>1, ParsesKeeps DEF U
<1>15. ~d.moved => Exact(d, U, to)
  <2>1. ~d.moved => Exact(c, S, cell)
    BY <1>3, <1>12 DEF Sound, S
  <2> QED
    BY <1>3, <1>4, <1>5, <1>6, <1>7, <1>9, <1>12, <1>13, <2>1, ExactTakes DEF b
<1>16. Answered(d, U, to)
  BY <1>12 DEF Answered
<1> HIDE DEF U
<1> QED
  BY <1>1, <1>2, <1>3, <1>9, <1>10, <1>12, <1>14, <1>15, <1>16, MovedKeeps DEF cell, S, c

LEMMA NextEntryKeeps ==
  ASSUME ClientInv, NEW h \in Handle, NextEntry(h)
  PROVE  ClientInv'
<1> DEFINE cell == cells[iter[h].cell]
           S == iter[h].stages
           c == client[h]
           m == Len(S)
           T == next(S, cell, m).stages
           to == next(S, cell, m).cell
           entry == EntryAt(S, cell, m)
           given == IF iter[h].styled THEN Transformed(entry[1]) ELSE <<entry>>
           d == [c EXCEPT !.said = "nothing", !.got = @ \o given,
                          !.missed = IF given = <<>> THEN @ \cup {entry[1]} ELSE @]
           p == Pos(S, cell, m)
           n == Order(cell)[p]
           left == Left(S, cell, m)
<1>1. /\ status[h] = "open" /\ c.said = "more"
      /\ HasEntry(S, cell, m) => Moved(h, T, to, d)
  BY DEF NextEntry
<1>2. /\ c \in Knowledge /\ c.kept /\ S \in Seq(Stage) /\ cell \in Cell /\ InRange(cell)
      /\ InTouch(c) /\ Sound(c, iter[h], cell)
  BY <1>1, HandleIs
<1>3. /\ Serves(c, S, cell) /\ Filled(S) /\ Present(c, cell) /\ cell.names = c.names
      /\ Answered(c, S, cell) /\ iter[h].styled = c.styled
  BY <1>2 DEF Sound, Serves
<1>4. m \in Nat /\ m \in 0..m /\ (m = 0 <=> S = <<>>)
  BY <1>2
<1>5. HasEntry(S, cell, m) /\ left # <<>> /\ left \in Seq(Content)
  BY <1>1, <1>2, <1>3, <1>4, LeftIs DEF Answered
<1> HIDE DEF cell, S, c
<1>6. ASSUME NEW x \in Knowledge, cell.names = x.names, InTouch(x), Present(x, cell)
      PROVE  /\ T \in Seq(Stage) /\ to \in Cell /\ InRange(to)
             /\ Filled(T) /\ Present(x, to) /\ Popped(x, S, cell, T, to, m)
             /\ p \in DOMAIN Order(cell) /\ entry = <<n, Head(left)>>
  BY <1>2, <1>3, <1>4, <1>5, <1>6, NextIs
<1>7. /\ T \in Seq(Stage) /\ to \in Cell /\ InRange(to)
      /\ Filled(T) /\ Present(c, to) /\ Popped(c, S, cell, T, to, m)
      /\ p \in DOMAIN Order(cell) /\ entry = <<n, Head(left)>>
  BY <1>2, <1>3, <1>6
<1>8. \A g \in Handle : status[g] = "open" /\ iter[g].cell = iter[h].cell => Present(client[g], to)
  BY <1>1, <1>6, PresentToAll DEF cell
<1>9. n \in Name /\ entry[1] = n /\ Head(left) \in Content
  BY <1>5, <1>7, Orders
<1> HIDE DEF T, to, p, n, left
<1>10. \/ given = Shown(c, n, <<Head(left)>>) /\ given # <<>> /\ given \in Seq(E)
       \/ given = <<>>
  <2> DEFINE e == Head(left)
             X == <<n, IF c.styled THEN Styled ELSE e>>
  <2>1. given = <<X>> \/ given = <<>>
    <3>1. CASE iter[h].styled
      BY <1>3, <1>9, <3>1 DEF Transformed
    <3>2. CASE ~iter[h].styled
      BY <1>3, <1>7, <3>2
    <3> QED
      BY <3>1, <3>2
  <2>2. Shown(c, n, <<e>>) = <<X>>
    <3>1. <<e>> \in Seq(Content) /\ Len(<<e>>) = 1 /\ <<e>>[1] = e /\ DOMAIN <<e>> = 1..1
      BY <1>9
    <3> DEFINE w == Shown(c, n, <<e>>)
               v == <<X>>
    <3>2. X \in E
      BY <1>9 DEF E, Content
    <3>3. w \in Seq(E) /\ Len(w) = 1
      <4> DEFINE x == <<e>>
      <4>1. x \in Seq(Content) /\ Len(x) = 1 /\ n \in Name
        BY <1>9, <3>1
      <4>2. w = Shown(c, n, x)
        OBVIOUS
      <4> HIDE DEF x, w
      <4> QED
        BY ONLY <4>1, <4>2, ShownIs
    <3>4. w[1] = X
      BY <3>1 DEF Shown
    <3> HIDE DEF w, X
    <3>5. v \in Seq(E) /\ Len(v) = 1 /\ v[1] = X
      BY <3>2
    <3>6. \A j \in 1..Len(v) : v[j] = w[j]
      <4>1. \A j \in 1..Len(v) : j = 1
        BY <3>5
      <4> QED
        BY <3>4, <3>5, <4>1
    <3> HIDE DEF v
    <3> QED
      BY <3>3, <3>5, <3>6, SeqEqual DEF v, w
  <2>3. <<X>> \in Seq(E) /\ <<X>> # <<>>
    <3>1. X \in E
      BY <1>9 DEF E, Content
    <3> QED
      BY <3>1
  <2> QED
    BY <2>1, <2>2, <2>3
<1> HIDE DEF given, entry
<1>11. /\ d \in Knowledge /\ SameRequest(c, d) /\ d.changed = c.changed
       /\ d.kept = c.kept /\ d.moved = c.moved /\ d.said = "nothing"
       /\ c.missed \subseteq d.missed /\ (given = <<>> => n \in d.missed)
       /\ d.got = c.got \o given
  <2> DEFINE more == c.got \o given
             lost == IF given = <<>> THEN c.missed \cup {n} ELSE c.missed
  <2>1. c.got \in Seq(E) /\ given \in Seq(E) /\ c.missed \subseteq Name
    <3>1. c.got \in Seq(E) /\ c.missed \subseteq Name
      BY <1>2 DEF Knowledge
    <3>2. <<>> \in Seq(E)
      OBVIOUS
    <3>3. given \in Seq(E)
      BY <1>10, <3>2
    <3> QED
      BY <3>1, <3>3
  <2>2. more \in Seq(E)
    BY <2>1
  <2>3. lost \in SUBSET Name /\ c.missed \subseteq lost /\ (given = <<>> => n \in lost)
    BY <1>9, <2>1
  <2>4. d = [c EXCEPT !.said = "nothing", !.got = more, !.missed = lost]
    BY <1>9
  <2> HIDE DEF more, lost, d
  <2>5. /\ d \in Knowledge /\ SameRequest(c, d) /\ d.changed = c.changed
        /\ d.kept = c.kept /\ d.moved = c.moved /\ d.said = "nothing"
        /\ d.missed = lost /\ d.got = more
    BY <1>2, <2>2, <2>3, <2>4 DEF Knowledge, SameRequest
  <2> QED
    BY <2>3, <2>5 DEF more
<1> HIDE DEF d
<1>12. Unsure(c) \subseteq Unsure(d) /\ (given = <<>> => n \in Unsure(d))
  BY <1>11 DEF Unsure
<1>13. d.got = c.got \o Shown(c, n, <<Head(left)>>) \/ (d.got = c.got /\ n \in Unsure(d))
  <2>1. given = <<>> => d.got = c.got
    <3>1. c.got \in Seq(E)
      BY <1>2 DEF Knowledge
    <3> QED
      BY <1>11, <3>1
  <2> QED
    BY <1>10, <1>11, <1>12, <2>1
<1>14. ~d.moved => Exact(d, T, to)
  <2>1. ~d.moved => Exact(c, S, cell)
    BY <1>2, <1>11 DEF Sound, S
  <2> QED
    BY <1>2, <1>3, <1>5, <1>7, <1>11, <1>12, <1>13, <2>1, ExactNext DEF p, n, left
<1>15. Answered(d, T, to)
  BY <1>11 DEF Answered
<1>16. SameStages(S, T) /\ Alike(cell, to)
  BY <1>7 DEF Popped
<1> QED
  BY <1>1, <1>2, <1>5, <1>7, <1>8, <1>11, <1>14, <1>15, <1>16, MovedKeeps DEF cell, S, c

\* What an iterator knows besides its place may grow.
LEMMA SoundGrows ==
  ASSUME NEW c \in Knowledge, NEW d \in Knowledge, NEW it \in Iterator, NEW cell \in Cell,
         InRange(cell), Sound(c, it, cell), SameRequest(c, d), c.changed \subseteq d.changed,
         c.missed \subseteq d.missed, d.got = c.got, d.moved = c.moved,
         Answered(d, it.stages, cell)
  PROVE  Sound(d, it, cell)
<1> DEFINE S == it.stages
<1>1. S \in Seq(Stage)
  BY DEF Iterator
<1>2. it.styled = d.styled
  BY DEF Sound, SameRequest
<1>3. Serves(d, S, cell)
  <2>1. SameStages(S, S) /\ Alike(cell, cell)
    BY DEF SameStages, Alike
  <2> QED
    BY <1>1, <2>1, ServesSame DEF Sound
<1>4. Filled(S)
  BY DEF Sound
<1>5. Present(d, cell)
  <2>1. Present(c, cell)
    BY DEF Sound
  <2> QED
    BY <2>1 DEF Present, SameRequest
<1>6. Unsure(c) \subseteq Unsure(d)
  BY DEF Unsure
<1>7. ~d.moved => Exact(d, S, cell)
  <2>1. ~d.moved => Exact(c, S, cell)
    BY DEF Sound
  <2> QED
    BY <1>1, <1>6, <2>1, ExactGrows
<1> QED
  BY <1>2, <1>3, <1>4, <1>5, <1>7 DEF Sound

\* Steps that only add to what clients know.
LEMMA KnowledgeKeeps ==
  ASSUME ClientInv, disk' \in SUBSET Name, changes' \in Nat,
         UNCHANGED <<db, live, cells, iter, status, size, counted>>,
         client' \in [Handle -> Knowledge],
         \A g \in Handle :
           /\ SameRequest(client[g], client'[g])
           /\ client[g].changed \subseteq client'[g].changed
           /\ client[g].missed \subseteq client'[g].missed
           /\ client'[g].got = client[g].got
           /\ client'[g].moved = client[g].moved
           /\ client'[g].kept = client[g].kept
           /\ status[g] # "open" => client'[g].said = "nothing"
           /\ status[g] = "open" =>
                /\ InTouch(client[g])'
                /\ Answered(client'[g], iter[g].stages, cells[iter[g].cell])
  PROVE  ClientInv'
<1>1. TypeOK'
  BY DEF ClientInv, TypeOK
<1>2. ASSUME NEW k \in Handle PROVE InRange(cells[k])'
  <2>1. InRange(cells[k]) /\ cells'[k] = cells[k]
    BY DEF ClientInv
  <2>2. InRange(cells'[k])
    BY <2>1
  <2> QED
    BY <2>2
<1>3. ASSUME NEW g \in Handle PROVE HandleInv(g)'
  <2>1. /\ client[g] \in Knowledge /\ client[g].kept /\ iter[g] \in Iterator
        /\ cells[iter[g].cell] \in Cell /\ InRange(cells[iter[g].cell])
        /\ client'[g] \in Knowledge
    BY HandleIs
  <2>2. /\ iter'[g] = iter[g] /\ cells'[iter'[g].cell] = cells[iter[g].cell]
        /\ status' = status
    OBVIOUS
  <2>3. ASSUME status[g] = "open"
        PROVE  /\ status[iter[g].cell] # "unused"
               /\ Sound(client'[g], iter[g], cells[iter[g].cell])
    <3>1. status[iter[g].cell] # "unused" /\ Sound(client[g], iter[g], cells[iter[g].cell])
      BY <2>3, HandleIs
    <3> QED
      BY <2>1, <2>3, <3>1, SoundGrows
  <2>4. status'[g] = "open" =>
          /\ status'[iter'[g].cell] # "unused"
          /\ InTouch(client[g])'
          /\ Sound(client'[g], iter'[g], cells'[iter'[g].cell])
    BY <2>2, <2>3
  <2>5. client'[g].kept /\ (status'[g] # "open" => client'[g].said = "nothing")
    BY <2>1, <2>2
  <2> QED
    BY <2>4, <2>5, HandleNext
<1>4. SizeInv'
  BY DEF ClientInv, SizeInv
<1> QED
  BY <1>1, <1>2, <1>3, <1>4 DEF ClientInv

LEMMA HasNextKeeps ==
  ASSUME ClientInv, NEW h \in Handle, HasNext(h)
  PROVE  ClientInv'
<1> DEFINE d == [client[h] EXCEPT !.said = "asked"]
<1>1. /\ status[h] = "open" /\ client' = [client EXCEPT ![h] = d]
      /\ UNCHANGED <<db, disk, live, cells, iter, status, size, counted, changes>>
  BY DEF HasNext
<1>2. TypeOK /\ client \in [Handle -> Knowledge] /\ client[h] \in Knowledge
  BY DEF ClientInv, TypeOK
<1>3. /\ d \in Knowledge /\ SameRequest(client[h], d) /\ d.changed = client[h].changed
      /\ d.missed = client[h].missed /\ d.got = client[h].got /\ d.moved = client[h].moved
      /\ d.kept = client[h].kept /\ d.said = "asked"
  BY <1>2 DEF Knowledge, SameRequest
<1> HIDE DEF d
<1>4. client' \in [Handle -> Knowledge]
  BY <1>1, <1>2, <1>3
<1>5. ASSUME NEW g \in Handle
      PROVE  /\ SameRequest(client[g], client'[g])
             /\ client[g].changed \subseteq client'[g].changed
             /\ client[g].missed \subseteq client'[g].missed
             /\ client'[g].got = client[g].got
             /\ client'[g].moved = client[g].moved
             /\ client'[g].kept = client[g].kept
             /\ status[g] # "open" => client'[g].said = "nothing"
             /\ status[g] = "open" =>
                  /\ InTouch(client[g])'
                  /\ Answered(client'[g], iter[g].stages, cells[iter[g].cell])
  <2>1. CASE g = h
    <3>1. client'[g] = d /\ InTouch(client[h])
      BY <1>1, <1>2, <2>1, HandleIs
    <3>2. InTouch(client[g])'
      BY <1>1, <1>3, <2>1, <3>1 DEF InTouch, SameRequest
    <3>3. Answered(client'[g], iter[g].stages, cells[iter[g].cell])
      BY <1>3, <3>1 DEF Answered
    <3> QED
      BY <1>1, <1>3, <2>1, <3>1, <3>2, <3>3
  <2>2. CASE g # h
    <3>1. client'[g] = client[g]
      BY <1>1, <1>2, <2>2
    <3>2. /\ status[g] # "open" => client[g].said = "nothing"
          /\ status[g] = "open" =>
               InTouch(client[g]) /\ Answered(client[g], iter[g].stages, cells[iter[g].cell])
      BY HandleIs DEF Sound
    <3>3. status[g] = "open" => InTouch(client[g])'
      BY <1>1, <3>1, <3>2 DEF InTouch
    <3> QED
      BY <3>1, <3>2, <3>3 DEF SameRequest
  <2> QED
    BY <2>1, <2>2
<1>6. disk' \in SUBSET Name /\ changes' \in Nat
  BY <1>1, <1>2 DEF TypeOK
<1> QED
  BY <1>1, <1>4, <1>5, <1>6, KnowledgeKeeps

LEMMA AnswerKeeps ==
  ASSUME ClientInv, NEW h \in Handle, Answer(h)
  PROVE  ClientInv'
<1> DEFINE S == iter[h].stages
           cell == cells[iter[h].cell]
           more == HasEntry(S, cell, Len(S)) /\ (S = <<>> => isValid(cell))
           end == Reached(S, 0) /\ AtEnd(cell)
           d == [client[h] EXCEPT !.said = IF more THEN "more" ELSE "end"]
<1>1. /\ client[h].said = "asked" /\ (more \/ end) /\ client' = [client EXCEPT ![h] = d]
      /\ UNCHANGED <<db, disk, live, cells, iter, status, size, counted, changes>>
  BY DEF Answer
<1>2. /\ TypeOK /\ client \in [Handle -> Knowledge] /\ client[h] \in Knowledge
      /\ status[h] = "open"
  BY <1>1, AskedIsOpen DEF ClientInv, TypeOK
<1>3. /\ d \in Knowledge /\ SameRequest(client[h], d) /\ d.changed = client[h].changed
      /\ d.missed = client[h].missed /\ d.got = client[h].got /\ d.moved = client[h].moved
      /\ d.kept = client[h].kept /\ d.said = IF more THEN "more" ELSE "end"
  <2> HIDE DEF more
  <2> QED
    BY <1>2 DEF Knowledge, SameRequest
<1>4. Answered(d, S, cell)
  BY <1>1, <1>3 DEF Answered
<1> HIDE DEF d
<1>5. client' \in [Handle -> Knowledge]
  BY <1>1, <1>2, <1>3
<1>6. ASSUME NEW g \in Handle
      PROVE  /\ SameRequest(client[g], client'[g])
             /\ client[g].changed \subseteq client'[g].changed
             /\ client[g].missed \subseteq client'[g].missed
             /\ client'[g].got = client[g].got
             /\ client'[g].moved = client[g].moved
             /\ client'[g].kept = client[g].kept
             /\ status[g] # "open" => client'[g].said = "nothing"
             /\ status[g] = "open" =>
                  /\ InTouch(client[g])'
                  /\ Answered(client'[g], iter[g].stages, cells[iter[g].cell])
  <2>1. CASE g = h
    <3>1. client'[g] = d /\ InTouch(client[h])
      BY <1>1, <1>2, <2>1, HandleIs
    <3>2. InTouch(client[g])'
      BY <1>1, <1>3, <2>1, <3>1 DEF InTouch, SameRequest
    <3> QED
      BY <1>2, <1>3, <1>4, <2>1, <3>1, <3>2
  <2>2. CASE g # h
    <3>1. client'[g] = client[g]
      BY <1>1, <1>2, <2>2
    <3>2. /\ status[g] # "open" => client[g].said = "nothing"
          /\ status[g] = "open" =>
               InTouch(client[g]) /\ Answered(client[g], iter[g].stages, cells[iter[g].cell])
      BY HandleIs DEF Sound
    <3>3. status[g] = "open" => InTouch(client[g])'
      BY <1>1, <3>1, <3>2 DEF InTouch
    <3> QED
      BY <3>1, <3>2, <3>3 DEF SameRequest
  <2> QED
    BY <2>1, <2>2
<1>7. disk' \in SUBSET Name /\ changes' \in Nat
  BY <1>1, <1>2 DEF TypeOK
<1> QED
  BY <1>1, <1>5, <1>6, <1>7, KnowledgeKeeps

LEMMA ChangeKeeps ==
  ASSUME ClientInv, NEW n \in Name, Change(n)
  PROVE  ClientInv'
<1> DEFINE D(g) == [client[g] EXCEPT !.changed = @ \cup {n}]
<1>1. /\ client' = [g \in Handle |-> D(g)] /\ changes' = changes + 1
      /\ disk' = IF n \in disk THEN disk \ {n} ELSE disk \cup {n}
      /\ UNCHANGED <<db, live, cells, iter, status, size, counted>>
  BY DEF Change
<1>2. TypeOK
  BY DEF ClientInv
<1>3. ASSUME NEW g \in Handle
      PROVE  /\ D(g) \in Knowledge /\ SameRequest(client[g], D(g))
             /\ D(g).changed = client[g].changed \cup {n}
             /\ D(g).missed = client[g].missed /\ D(g).got = client[g].got
             /\ D(g).moved = client[g].moved
             /\ D(g).kept = client[g].kept /\ D(g).said = client[g].said
  <2>1. client[g] \in Knowledge
    BY <1>2 DEF TypeOK
  <2> DEFINE x == client[g].changed \cup {n}
  <2>2. x \in SUBSET Name
    BY <2>1 DEF Knowledge
  <2>3. D(g) = [client[g] EXCEPT !.changed = x]
    OBVIOUS
  <2> HIDE DEF x, D
  <2>4. /\ D(g) \in Knowledge /\ SameRequest(client[g], D(g)) /\ D(g).changed = x
        /\ D(g).missed = client[g].missed /\ D(g).got = client[g].got
        /\ D(g).moved = client[g].moved
        /\ D(g).kept = client[g].kept /\ D(g).said = client[g].said
    BY <2>1, <2>2, <2>3 DEF Knowledge, SameRequest
  <2> QED
    BY <2>4 DEF x
<1> HIDE DEF D
<1>4. client' \in [Handle -> Knowledge] /\ \A g \in Handle : client'[g] = D(g)
  BY <1>1, <1>3
<1>5. disk' \in SUBSET Name /\ changes' \in Nat
  BY <1>1, <1>2 DEF TypeOK
<1>6. ASSUME NEW g \in Handle, status[g] = "open"
      PROVE  /\ InTouch(client[g])'
             /\ Answered(client'[g], iter[g].stages, cells[iter[g].cell])
  <2>1. InTouch(client[g]) /\ Answered(client[g], iter[g].stages, cells[iter[g].cell])
    BY <1>6, HandleIs DEF Sound
  <2>2. \A k \in Name : k # n => (k \in disk' <=> k \in disk)
    BY <1>1
  <2>3. InTouch(client[g])'
    BY <1>1, <1>3, <1>4, <2>1, <2>2 DEF InTouch, SameRequest
  <2>4. Answered(client'[g], iter[g].stages, cells[iter[g].cell])
    BY <1>3, <1>4, <2>1 DEF Answered
  <2> QED
    BY <2>3, <2>4
<1>7. ASSUME NEW g \in Handle
      PROVE  /\ SameRequest(client[g], client'[g])
             /\ client[g].changed \subseteq client'[g].changed
             /\ client[g].missed \subseteq client'[g].missed
             /\ client'[g].got = client[g].got
             /\ client'[g].moved = client[g].moved
             /\ client'[g].kept = client[g].kept
             /\ status[g] # "open" => client'[g].said = "nothing"
             /\ status[g] = "open" =>
                  /\ InTouch(client[g])'
                  /\ Answered(client'[g], iter[g].stages, cells[iter[g].cell])
  <2>1. status[g] # "open" => client[g].said = "nothing"
    BY HandleIs
  <2> QED
    BY <1>3, <1>4, <1>6, <2>1
<1> QED
  BY <1>1, <1>4, <1>5, <1>7, KnowledgeKeeps

\* A query of the readers, asked of a directory or of a container.
LEMMA QueryIs ==
  ASSUME TypeOK, NEW r \in Request
  PROVE  LET q == query(r.parts, r.order)
             c == Asked(r)
         IN  /\ c \in Knowledge /\ c.kept /\ c.said = "nothing" /\ c.got = <<>> /\ InTouch(c)
             /\ c.styled = r.styled
             /\ q.stages \in Seq(Stage) /\ Filled(q.stages)
             /\ \A k \in 1..Len(q.stages) : q.stages[k].file = NoName
             /\ Serves(c, q.stages, q.cell)
             /\ \E kind \in Kind, x \in Query \cup {NoName} :
                  (kind = "results" => x \in Query) /\ q.cell = Source(kind, x)
<1> DEFINE q == query(r.parts, r.order)
           c == Asked(r)
           parts == r.parts
           New(k) == [query |-> parts[k], file |-> NoName, buffer |-> <<>>]
           all == [k \in DOMAIN parts |-> New(k)]
<1>1. parts \in Seq(Query) /\ r.order \in {"natural", "numerical"} /\ r.styled \in BOOLEAN
  BY RequestAssumption
<1>2. /\ c \in Knowledge /\ c.kept /\ c.said = "nothing" /\ c.got = <<>>
      /\ c.db = db /\ c.names = disk /\ c.parts = parts /\ c.order = r.order
      /\ c.styled = r.styled
  <2>1. <<>> \in Seq(E)
    OBVIOUS
  <2> QED
    BY <1>1, <2>1 DEF Asked, Knowledge, TypeOK
<1>3. InTouch(c)
  BY <1>2 DEF InTouch
<1>4. DOMAIN parts = 1..Len(parts) /\ Len(parts) \in Nat
  BY <1>1
<1>5. ASSUME NEW k \in 1..Len(parts)
      PROVE  /\ New(k) \in Stage /\ New(k).query = parts[k] /\ New(k).file = NoName
             /\ New(k).buffer = <<>>
  <2>1. <<>> \in Seq(Result) /\ parts[k] \in Query
    BY <1>1, <1>5
  <2> QED
    BY <2>1 DEF Stage
<1>6. all \in Seq(Stage) /\ Len(all) = Len(parts) /\ \A k \in 1..Len(parts) : all[k] = New(k)
  <2> HIDE DEF New
  <2> QED
    BY <1>4, <1>5
<1> HIDE DEF New, all
<1>7. CASE db /\ parts # <<>>
  <2> DEFINE S == Tail(all)
  <2>1. q = [cell |-> Source("results", parts[1]), stages |-> S]
    BY <1>7 DEF query, all, New
  <2>2. q.cell = Source("results", parts[1]) /\ q.stages = S
    BY <2>1
  <2> HIDE DEF q
  <2>3. /\ S \in Seq(Stage) /\ Len(S) = Len(parts) - 1 /\ DOMAIN S = 1..(Len(parts) - 1)
        /\ \A k \in 1..(Len(parts) - 1) : S[k] = New(k + 1)
    <3>1. all # <<>> /\ Len(all) >= 1
      BY <1>1, <1>4, <1>6, <1>7
    <3>2. /\ S \in Seq(Stage) /\ Len(S) = Len(all) - 1
          /\ \A k \in 1..(Len(all) - 1) : S[k] = all[k + 1]
      BY <1>6, <3>1
    <3>3. \A k \in 1..(Len(parts) - 1) : k + 1 \in 1..Len(parts)
      BY <1>4
    <3> QED
      BY <1>4, <1>6, <3>2, <3>3
  <2>4. \A k \in 1..(Len(parts) - 1) :
          S[k].query = parts[k + 1] /\ S[k].file = NoName /\ S[k].buffer = <<>>
    <3>1. \A k \in 1..(Len(parts) - 1) : k + 1 \in 1..Len(parts)
      BY <1>4
    <3> QED
      BY <1>5, <2>3, <3>1
  <2> HIDE DEF S
  <2>5. parts[1] \in Query
    BY <1>1, <1>7
  <2>6. /\ q.cell.kind = "results" /\ q.cell.query = parts[1] /\ q.cell.names = disk
    <3> DEFINE y == parts[1]
               k == "results"
    <3>1. k \in Kind /\ y \in Query \cup {NoName} /\ y \in Query
      BY <2>5 DEF Kind
    <3> HIDE DEF y, k
    <3>2. Source(k, y).kind = k /\ Source(k, y).query = y /\ Source(k, y).names = disk
      BY <3>1, SourceIs
    <3> QED
      BY <2>2, <3>2 DEF y, k
  <2>7. KindOf(c) = "results" /\ First(c) = 1
    BY <1>2, <1>7 DEF KindOf, First
  <2>8. Serves(c, q.stages, q.cell)
    BY <1>2, <1>4, <2>2, <2>3, <2>4, <2>6, <2>7 DEF Serves
  <2>9. Filled(q.stages) /\ \A k \in 1..Len(q.stages) : q.stages[k].file = NoName
    BY <2>2, <2>3, <2>4 DEF Filled
  <2>10. \E kind \in Kind, x \in Query \cup {NoName} :
           (kind = "results" => x \in Query) /\ q.cell = Source(kind, x)
    BY <2>2, <2>5 DEF Kind
  <2> QED
    BY <1>2, <1>3, <2>2, <2>3, <2>8, <2>9, <2>10 DEF q
<1>8. CASE ~(db /\ parts # <<>>)
  <2> DEFINE kind == IF db THEN "container" ELSE IF r.order = "numerical" THEN "list" ELSE "walk"
  <2>1. q = [cell |-> getEntries(r.order), stages |-> all]
    BY <1>8 DEF query, all, New
  <2>2. getEntries(r.order) = Source(kind, NoName)
    BY <1>1 DEF getEntries, TypeOK
  <2>3. q.cell = Source(kind, NoName) /\ q.stages = all
    BY <2>1, <2>2
  <2>4. kind \in Kind /\ kind # "results"
    BY DEF Kind
  <2>5. kind = KindOf(c) /\ First(c) = 0
    BY <1>2, <1>8 DEF KindOf, First
  <2> HIDE DEF q, kind
  <2>6. q.cell.kind = kind /\ q.cell.names = disk
    <3> DEFINE y == NoName
    <3>1. y \in Query \cup {NoName}
      OBVIOUS
    <3>2. q.cell = Source(kind, y)
      BY <2>3
    <3> HIDE DEF y
    <3>3. Source(kind, y).kind = kind /\ Source(kind, y).names = disk
      BY <2>4, <3>1, SourceIs
    <3> QED
      BY <3>2, <3>3
  <2>7. DOMAIN all = 1..Len(parts)
    BY <1>6
  <2>8. Serves(c, q.stages, q.cell)
    BY <1>2, <1>4, <1>5, <1>6, <2>3, <2>4, <2>5, <2>6, <2>7 DEF Serves
  <2>9. Filled(q.stages) /\ \A k \in 1..Len(q.stages) : q.stages[k].file = NoName
    BY <1>5, <1>6, <2>3, <2>7 DEF Filled
  <2>10. \E y \in Kind, x \in Query \cup {NoName} :
           (y = "results" => x \in Query) /\ q.cell = Source(y, x)
    BY <2>3, <2>4
  <2> QED
    BY <1>2, <1>3, <1>6, <2>3, <2>8, <2>9, <2>10 DEF q
<1> QED
  BY <1>7, <1>8

LEMMA OpenKeeps ==
  ASSUME ClientInv, NEW h \in Handle, NEW r \in Request, Open(h, r)
  PROVE  ClientInv'
<1> DEFINE q == query(r.parts, r.order)
           d == Asked(r)
           it == [cell |-> h, stages |-> q.stages, styled |-> r.styled]
           S == q.stages
           cell == q.cell
<1>1. /\ status[h] = "unused"
      /\ status' = [status EXCEPT ![h] = "open"]
      /\ cells' = [cells EXCEPT ![h] = cell]
      /\ iter' = [iter EXCEPT ![h] = it]
      /\ client' = [client EXCEPT ![h] = d]
      /\ UNCHANGED <<db, disk, live, size, counted, changes>>
  BY DEF Open
<1>2. TypeOK
  BY DEF ClientInv
<1>3. /\ d \in Knowledge /\ d.kept /\ d.said = "nothing" /\ d.got = <<>> /\ InTouch(d)
      /\ d.styled = r.styled
      /\ S \in Seq(Stage) /\ Filled(S)
      /\ \A k \in 1..Len(S) : S[k].file = NoName
      /\ Serves(d, S, cell)
  BY <1>2, QueryIs
<1>4. PICK kind \in Kind, x \in Query \cup {NoName} :
        (kind = "results" => x \in Query) /\ cell = Source(kind, x)
  BY <1>2, QueryIs
<1> DEFINE none == [kind |-> kind, query |-> x, names |-> disk, at |-> 0, nth |-> 1]
<1>5. /\ none \in Cell /\ cell \in Cell /\ InRange(cell)
      /\ Alike(none, cell) /\ Jumps(none, cell) /\ none.at = 0
  BY <1>2, <1>4, SourceIs
<1>6. it.cell = h /\ it.stages = S /\ it.styled = r.styled
  OBVIOUS
<1> HIDE DEF none, cell, S, d, q, it
<1>7. Exact(d, S, cell) /\ Present(d, cell)
  BY <1>3, <1>5, ExactOpens
<1>8. Sound(d, it, cell)
  <2>1. Answered(d, S, cell)
    BY <1>3 DEF Answered
  <2> QED
    BY <1>3, <1>6, <1>7, <2>1 DEF Sound
<1>9. it \in Iterator
  BY <1>3, RequestAssumption DEF Iterator, it, S
<1>10. TypeOK'
  BY <1>1, <1>2, <1>3, <1>5, <1>9 DEF TypeOK
<1>11. /\ status'[h] = "open" /\ cells'[h] = cell /\ iter'[h] = it /\ client'[h] = d
       /\ \A g \in Handle : g # h =>
            status'[g] = status[g] /\ cells'[g] = cells[g] /\ iter'[g] = iter[g]
              /\ client'[g] = client[g]
  BY <1>1, <1>2 DEF TypeOK
<1>12. ASSUME NEW k \in Handle PROVE InRange(cells[k])'
  <2>1. InRange(cells[k]) /\ (cells'[k] = cells[k] \/ cells'[k] = cell)
    BY <1>11 DEF ClientInv
  <2>2. InRange(cells'[k])
    BY <1>5, <2>1
  <2> QED
    BY <2>2
<1>13. HandleInv(h)'
  <2>1. InTouch(client[h])'
    BY <1>1, <1>3, <1>11 DEF InTouch
  <2>2. Sound(client'[h], iter'[h], cells'[iter'[h].cell])
    BY <1>6, <1>8, <1>11
  <2>3. status'[iter'[h].cell] # "unused" /\ client'[h].kept /\ status'[h] = "open"
    BY <1>3, <1>6, <1>11
  <2> QED
    BY <2>1, <2>2, <2>3, HandleNext
<1>14. ASSUME NEW g \in Handle, g # h PROVE HandleInv(g)'
  <2>1. status[g] = "open" =>
          cells'[iter[g].cell] = cells[iter[g].cell] /\ status'[iter[g].cell] # "unused"
    <3>1. status[g] = "open" => status[iter[g].cell] # "unused" /\ iter[g].cell \in Handle
      BY HandleIs
    <3> QED
      BY <1>1, <1>11, <3>1
  <2> QED
    BY <1>1, <1>11, <1>14, <2>1, HandleFrame
<1>15. SizeInv'
  BY <1>1 DEF ClientInv, SizeInv
<1> QED
  BY <1>10, <1>12, <1>13, <1>14, <1>15 DEF ClientInv

LEMMA CopyIterKeeps ==
  ASSUME ClientInv, NEW h \in Handle, NEW g \in Handle, CopyIter(h, g)
  PROVE  ClientInv'
<1> DEFINE cell == cells[iter[h].cell]
           d == [client[h] EXCEPT !.before = Len(client[h].got)]
           own == [iter[h] EXCEPT !.cell = g]
           it == IF Shared(cell) THEN iter[h] ELSE own
<1>1. /\ status[h] = "open" /\ status[g] = "unused"
      /\ status' = [status EXCEPT ![g] = "open"]
      /\ cells' = IF Shared(cell) THEN cells ELSE [cells EXCEPT ![g] = cell]
      /\ iter' = [iter EXCEPT ![g] = it]
      /\ client' = [client EXCEPT ![g] = d, ![h] = d]
      /\ UNCHANGED <<db, disk, live, size, counted, changes>>
  BY DEF CopyIter
<1>2. /\ TypeOK /\ g # h
  BY <1>1 DEF ClientInv
<1>3. /\ client[h] \in Knowledge /\ client[h].kept /\ iter[h] \in Iterator
      /\ cell \in Cell /\ InRange(cell) /\ iter[h].cell \in Handle
      /\ status[iter[h].cell] # "unused" /\ InTouch(client[h]) /\ Sound(client[h], iter[h], cell)
  BY <1>1, HandleIs
<1>4. /\ d \in Knowledge /\ SameRequest(client[h], d) /\ d.changed = client[h].changed
      /\ d.missed = client[h].missed /\ d.got = client[h].got /\ d.moved = client[h].moved
      /\ d.kept = client[h].kept /\ d.said = client[h].said
  <2> DEFINE x == Len(client[h].got)
  <2>1. x \in Nat
    <3>1. client[h].got \in Seq(E)
      BY <1>3 DEF Knowledge
    <3> QED
      BY <3>1
  <2>2. d = [client[h] EXCEPT !.before = x]
    OBVIOUS
  <2> HIDE DEF x, d
  <2> QED
    BY <1>3, <2>1, <2>2 DEF Knowledge, SameRequest
<1>5. /\ own \in Iterator /\ own.cell = g /\ own.stages = iter[h].stages
      /\ own.styled = iter[h].styled
  BY <1>3 DEF Iterator
<1> HIDE DEF d, own
<1>6. /\ it \in Iterator /\ it.stages = iter[h].stages /\ it.styled = iter[h].styled
      /\ it.cell = IF Shared(cell) THEN iter[h].cell ELSE g
  BY <1>3, <1>5
<1> HIDE DEF it
<1>7. /\ status'[g] = "open" /\ iter'[g] = it /\ client'[g] = d
      /\ status'[h] = "open" /\ iter'[h] = iter[h] /\ client'[h] = d
      /\ \A k \in Handle : k # g =>
           status'[k] = status[k] /\ cells'[k] = cells[k] /\ iter'[k] = iter[k]
      /\ \A k \in Handle : k \notin {g, h} => client'[k] = client[k]
      /\ cells'[it.cell] = cell /\ cells'[iter[h].cell] = cell
      /\ cells'[g] \in {cell, cells[g]}
  <2>1. /\ status'[g] = "open" /\ iter'[g] = it /\ client'[g] = d
        /\ status'[h] = "open" /\ iter'[h] = iter[h] /\ client'[h] = d
        /\ \A k \in Handle : k # g => status'[k] = status[k] /\ iter'[k] = iter[k]
        /\ \A k \in Handle : k \notin {g, h} => client'[k] = client[k]
    BY <1>1, <1>2 DEF TypeOK
  <2>2. g # iter[h].cell
    BY <1>1, <1>3
  <2>3. CASE Shared(cell)
    BY <1>1, <1>6, <2>1, <2>3
  <2>4. CASE ~Shared(cell)
    <3>1. cells'[g] = cell /\ \A k \in Handle : k # g => cells'[k] = cells[k]
      BY <1>1, <1>2, <2>4 DEF TypeOK
    <3> QED
      BY <1>3, <1>6, <2>1, <2>2, <2>4, <3>1
  <2> QED
    BY <2>3, <2>4
<1>8. ASSUME NEW k \in Handle PROVE cells'[k] \in Cell /\ InRange(cells[k])'
  <2>1. InRange(cells[k]) /\ cells[k] \in Cell /\ (cells'[k] = cells[k] \/ cells'[k] = cell)
    BY <1>7 DEF ClientInv, TypeOK
  <2>2. InRange(cells'[k])
    BY <1>3, <2>1
  <2> QED
    BY <1>3, <2>1, <2>2
<1>9. cells' \in [Handle -> Cell]
  <2>1. cells' = [k \in Handle |-> cells'[k]]
    <3>1. cells \in [Handle -> Cell]
      BY <1>2 DEF TypeOK
    <3> HIDE DEF cell
    <3>2. [cells EXCEPT ![g] = cell] \in [Handle -> Cell]
      BY <1>3, <3>1
    <3> QED
      BY <1>1, <3>1, <3>2
  <2> QED
    BY <1>8, <2>1
<1>10. TypeOK'
  BY <1>1, <1>2, <1>4, <1>6, <1>9 DEF TypeOK
<1>11. Answered(d, iter[h].stages, cell)
  BY <1>3, <1>4 DEF Answered, Sound
<1> HIDE DEF cell
<1>12. Sound(d, iter[h], cell)
  BY <1>3, <1>4, <1>11, SoundGrows
<1>13. Sound(d, it, cell)
  BY <1>6, <1>12 DEF Sound
<1>14. InTouch(d)
  BY <1>3, <1>4 DEF InTouch, SameRequest
<1>15. ASSUME NEW k \in {g, h} PROVE HandleInv(k)'
  <2>1. InTouch(client[k])'
    BY <1>1, <1>7, <1>14 DEF InTouch
  <2>2. Sound(client'[k], iter'[k], cells'[iter'[k].cell])
    BY <1>7, <1>12, <1>13
  <2>3. status'[iter'[k].cell] # "unused"
    <3>1. iter'[k].cell \in {iter[h].cell, g}
      BY <1>6, <1>7
    <3> QED
      BY <1>1, <1>3, <1>7, <3>1
  <2>4. client'[k].kept /\ status'[k] = "open" /\ k \in Handle
    BY <1>3, <1>4, <1>7
  <2> QED
    BY <2>1, <2>2, <2>3, <2>4, HandleNext
<1>16. ASSUME NEW k \in Handle, k \notin {g, h} PROVE HandleInv(k)'
  <2>1. status[k] = "open" =>
          cells'[iter[k].cell] = cells[iter[k].cell] /\ status'[iter[k].cell] # "unused"
    <3>1. status[k] = "open" => status[iter[k].cell] # "unused" /\ iter[k].cell \in Handle
      BY HandleIs
    <3> QED
      BY <1>1, <1>7, <3>1
  <2> QED
    BY <1>1, <1>7, <1>16, <2>1, HandleFrame
<1>17. SizeInv'
  BY <1>1 DEF ClientInv, SizeInv
<1> QED
  BY <1>8, <1>10, <1>15, <1>16, <1>17 DEF ClientInv

LEMMA ClosedIs ==
  Closed \in Cell /\ InRange(Closed)
<1> DEFINE O == Order(Closed)
<1>1. Len(O) \in Nat
  BY Orders
<1>2. O = Numerical
  BY DEF Order, Closed
<1> HIDE DEF O
<1>3. Closed \in Cell
  BY <1>1, <1>2 DEF Closed, Cell, Kind
<1>4. Closed.kind # "results" /\ Closed.at = Len(O) + 1
  BY <1>2 DEF Closed
<1> QED
  BY <1>1, <1>3, <1>4 DEF InRange, O

LEMMA NothingIs ==
  ASSUME db \in BOOLEAN, disk \in SUBSET Name
  PROVE  /\ Asked(Nothing) \in Knowledge /\ Asked(Nothing).said = "nothing"
         /\ Asked(Nothing).kept
<1>1. <<>> \in Seq(E) /\ <<>> \in Seq(Query)
  OBVIOUS
<1> QED
  BY <1>1 DEF Asked, Nothing, Knowledge

LEMMA DestroyKeeps ==
  ASSUME ClientInv, NEW h \in Handle, Destroy(h)
  PROVE  ClientInv'
<1> DEFINE none == Asked(Nothing)
           names == NamesOf(client[h])
           D(g) == [client[g] EXCEPT !.gone = @ \cup names]
           F(g) == CASE g = h -> none
                     [] g \in SameCell(h) -> D(g)
                     [] OTHER -> client[g]
<1>1. /\ status[h] = "open"
      /\ status' = [status EXCEPT ![h] = "destroyed"]
      /\ iter' = [iter EXCEPT ![h] = Unopened(h)]
      /\ client' = [g \in Handle |-> F(g)]
      /\ cells' = IF SameCell(h) = {} THEN [cells EXCEPT ![iter[h].cell] = Closed] ELSE cells
      /\ UNCHANGED <<db, disk, live, size, counted, changes>>
  BY DEF Destroy
<1>2. TypeOK
  BY DEF ClientInv
<1>3. client[h] \in Knowledge /\ iter[h].cell \in Handle
  BY HandleIs
<1>4. names \subseteq Name
  <2> DEFINE s == client[h].got
  <2>1. s \in Seq(E) /\ client[h].missed \subseteq Name
    BY <1>3 DEF Knowledge
  <2>2. \A i \in DOMAIN s : s[i][1] \in Name
    <3>1. \A i \in DOMAIN s : s[i] \in E
      BY <2>1
    <3>2. \A e \in E : e[1] \in Name
      BY DEF E
    <3> QED
      BY <3>1, <3>2
  <2> QED
    BY <2>1, <2>2 DEF NamesOf, ToSet
<1>5. /\ none \in Knowledge /\ none.said = "nothing" /\ none.kept
  BY <1>2, NothingIs DEF TypeOK
<1>6. ASSUME NEW g \in Handle
      PROVE  /\ D(g) \in Knowledge /\ SameRequest(client[g], D(g))
             /\ D(g).changed = client[g].changed /\ D(g).missed = client[g].missed
             /\ D(g).got = client[g].got /\ D(g).moved = client[g].moved
             /\ D(g).kept = client[g].kept /\ D(g).said = client[g].said
  <2>1. client[g] \in Knowledge
    BY <1>2 DEF TypeOK
  <2> DEFINE x == client[g].gone \cup names
  <2>2. x \in SUBSET Name
    BY <1>4, <2>1 DEF Knowledge
  <2>3. D(g) = [client[g] EXCEPT !.gone = x]
    OBVIOUS
  <2> HIDE DEF x, D, names
  <2> QED
    BY <2>1, <2>2, <2>3 DEF Knowledge, SameRequest
<1> HIDE DEF none, names, D
<1>7. /\ F(h) = none
      /\ \A g \in Handle : g # h => F(g) = IF g \in SameCell(h) THEN D(g) ELSE client[g]
  <2>1. F(h) = none
    BY DEF SameCell
  <2>2. ASSUME NEW g \in Handle, g # h
        PROVE  F(g) = IF g \in SameCell(h) THEN D(g) ELSE client[g]
    BY <2>2
  <2> QED
    BY <2>1, <2>2
<1> HIDE DEF F
<1>8. /\ client'[h] = none
      /\ \A g \in Handle : g # h =>
           client'[g] = IF g \in SameCell(h) THEN D(g) ELSE client[g]
  BY <1>1, <1>7
<1>9. client' \in [Handle -> Knowledge]
  <2>1. \A g \in Handle : F(g) \in Knowledge
    BY <1>2, <1>5, <1>6, <1>7 DEF TypeOK
  <2> QED
    BY <1>1, <2>1
<1>10. Closed \in Cell /\ InRange(Closed)
  BY ClosedIs
<1>11. /\ cells' \in [Handle -> Cell]
       /\ \A k \in Handle : cells'[k] = cells[k] \/ cells'[k] = Closed
       /\ \A k \in Handle : SameCell(h) # {} \/ k # iter[h].cell => cells'[k] = cells[k]
  <2>1. cells \in [Handle -> Cell]
    BY <1>2 DEF TypeOK
  <2> QED
    BY <1>1, <1>10, <2>1
<1>12. Unopened(h) \in Iterator
  <2>1. <<>> \in Seq(Stage)
    OBVIOUS
  <2> QED
    BY <2>1 DEF Unopened, Iterator
<1>13. /\ iter' \in [Handle -> Iterator]
       /\ \A g \in Handle : g # h => iter'[g] = iter[g] /\ status'[g] = status[g]
       /\ status'[h] = "destroyed" /\ status' \in [Handle -> {"unused", "open", "destroyed"}]
  BY <1>1, <1>2, <1>12 DEF TypeOK
<1>14. TypeOK'
  BY <1>1, <1>2, <1>9, <1>11, <1>13 DEF TypeOK
<1>15. ASSUME NEW k \in Handle PROVE InRange(cells[k])'
  <2>1. InRange(cells[k]) /\ (cells'[k] = cells[k] \/ cells'[k] = Closed)
    BY <1>11 DEF ClientInv
  <2>2. InRange(cells'[k])
    BY <1>10, <2>1
  <2> QED
    BY <2>2
<1>16. HandleInv(h)'
  BY <1>5, <1>8, <1>13, HandleNext
<1>17. ASSUME NEW g \in Handle, g # h PROVE HandleInv(g)'
  <2>1. ASSUME status[g] = "open"
        PROVE  cells'[iter[g].cell] = cells[iter[g].cell] /\ status'[iter[g].cell] # "unused"
    <3>1. status[iter[g].cell] # "unused" /\ iter[g].cell \in Handle
      BY <2>1, HandleIs
    <3>2. iter[g].cell = iter[h].cell => SameCell(h) # {}
      BY <1>17, <2>1 DEF SameCell
    <3> QED
      BY <1>11, <1>13, <3>1, <3>2
  <2>2. CASE g \in SameCell(h)
    <3>1. status[g] = "open" /\ client'[g] = D(g)
      BY <1>8, <1>17, <2>2 DEF SameCell
    <3>2. /\ client[g] \in Knowledge /\ client[g].kept /\ iter[g] \in Iterator
          /\ cells[iter[g].cell] \in Cell /\ InRange(cells[iter[g].cell])
          /\ InTouch(client[g]) /\ Sound(client[g], iter[g], cells[iter[g].cell])
      BY <3>1, HandleIs
    <3>3. Answered(D(g), iter[g].stages, cells[iter[g].cell])
      BY <1>6, <3>2 DEF Answered, Sound
    <3>4. Sound(D(g), iter[g], cells[iter[g].cell])
      BY <1>6, <3>2, <3>3, SoundGrows
    <3>5. InTouch(client[g])'
      BY <1>1, <1>6, <3>1, <3>2 DEF InTouch, SameRequest
    <3>6. Sound(client'[g], iter'[g], cells'[iter'[g].cell])
      BY <1>13, <1>17, <2>1, <3>1, <3>4
    <3> QED
      BY <1>6, <1>13, <1>17, <2>1, <3>1, <3>2, <3>5, <3>6, HandleNext
  <2>3. CASE g \notin SameCell(h)
    <3>1. client'[g] = client[g]
      BY <1>8, <1>17, <2>3
    <3> QED
      BY <1>1, <1>13, <1>17, <2>1, <3>1, HandleFrame
  <2> QED
    BY <2>2, <2>3
<1>18. SizeInv'
  BY <1>1 DEF ClientInv, SizeInv
<1> QED
  BY <1>14, <1>15, <1>16, <1>17, <1>18 DEF ClientInv

\* The names of a list that holds each once are as many as it is long.
LEMMA NamesAreFinite ==
  IsFiniteSet(Name) /\ \A T \in SUBSET Name : IsFiniteSet(T) /\ Cardinality(T) \in Nat
<1> DEFINE S == DOMAIN Natural
<1>1. Natural \in Seq(Name) /\ ToSet(Natural) = Name
  BY IteratorAssumption DEF Lists
<1>2. S = 1..Len(Natural) /\ Len(Natural) \in Nat
  BY <1>1
<1>3. IsFiniteSet(S)
  BY <1>2, FS_Interval
<1>4. Natural \in Surjection(S, Name)
  <2>1. Natural \in [S -> Name]
    BY <1>1
  <2>2. \A n \in Name : \E i \in S : Natural[i] = n
    BY <1>1 DEF ToSet
  <2> QED
    BY <2>1, <2>2 DEF Surjection
<1>5. IsFiniteSet(Name)
  BY <1>3, <1>4, FS_Surjection
<1> QED
  BY <1>5, FS_Subset, FS_CardinalityType

LEMMA SizeKeeps ==
  ASSUME ClientInv, Size
  PROVE  ClientInv'
<1> DEFINE names == IF db THEN disk ELSE disk \cap Xml
<1>1. /\ size' = Cardinality(names) /\ counted' = disk
      /\ UNCHANGED <<db, disk, live, cells, iter, status, client, changes>>
  BY DEF Size
<1>2. TypeOK
  BY DEF ClientInv
<1>3. names \in SUBSET Name
  BY <1>2 DEF TypeOK
<1>4. Cardinality(names) \in Nat
  BY <1>3, NamesAreFinite
<1>5. TypeOK'
  <2> HIDE DEF names
  <2> QED
    BY <1>1, <1>2, <1>4 DEF TypeOK
<1>6. SizeInv'
  BY <1>1 DEF SizeInv
<1>7. ASSUME NEW k \in Handle PROVE InRange(cells[k])'
  <2>1. InRange(cells[k]) /\ cells'[k] = cells[k]
    BY <1>1 DEF ClientInv
  <2>2. InRange(cells'[k])
    BY <2>1
  <2> QED
    BY <2>2
<1>8. ASSUME NEW g \in Handle PROVE HandleInv(g)'
  <2>1. status[g] = "open" => status'[iter[g].cell] # "unused"
    BY <1>1, HandleIs
  <2> QED
    BY <1>1, <2>1, HandleFrame
<1> QED
  BY <1>5, <1>6, <1>7, <1>8 DEF ClientInv

----------------------------------------------------------------------------
(* The invariant.                                                          *)

LEMMA ClientInit ==
  ASSUME InitClient
  PROVE  ClientInv
<1>1. /\ db \in BOOLEAN /\ live \in BOOLEAN /\ disk \in SUBSET Name
      /\ cells = [h \in Handle |-> Closed] /\ iter = [h \in Handle |-> Unopened(h)]
      /\ status = [h \in Handle |-> "unused"]
      /\ client = [h \in Handle |-> Asked(Nothing)]
      /\ size = NotCounted /\ counted = {} /\ changes = 0
  BY IteratorAssumption DEF InitClient
<1>2. /\ Asked(Nothing) \in Knowledge /\ Asked(Nothing).said = "nothing"
      /\ Asked(Nothing).kept
  BY <1>1, NothingIs
<1>3. Closed \in Cell /\ InRange(Closed)
  BY ClosedIs
<1>4. ASSUME NEW h \in Handle PROVE Unopened(h) \in Iterator
  <2>1. <<>> \in Seq(Stage)
    OBVIOUS
  <2> QED
    BY <2>1 DEF Unopened, Iterator
<1>5. TypeOK
  BY <1>1, <1>2, <1>3, <1>4 DEF TypeOK
<1>6. ASSUME NEW h \in Handle PROVE InRange(cells[h]) /\ HandleInv(h)
  <2>1. cells[h] = Closed /\ status[h] = "unused" /\ client[h] = Asked(Nothing)
    BY <1>1
  <2> QED
    BY <1>2, <1>3, <2>1 DEF HandleInv
<1>7. SizeInv
  BY <1>1 DEF SizeInv
<1> QED
  BY <1>5, <1>6, <1>7 DEF ClientInv

LEMMA ClientStutters ==
  ASSUME ClientInv, UNCHANGED clientVars
  PROVE  ClientInv'
<1>1. UNCHANGED <<db, disk, live, cells, iter, status, client, size, counted, changes>>
  BY DEF clientVars
<1>2. TypeOK' /\ SizeInv'
  BY <1>1 DEF ClientInv, TypeOK, SizeInv
<1>3. ASSUME NEW k \in Handle PROVE InRange(cells[k])'
  <2>1. InRange(cells[k]) /\ cells'[k] = cells[k]
    BY <1>1 DEF ClientInv
  <2>2. InRange(cells'[k])
    BY <2>1
  <2> QED
    BY <2>2
<1>4. ASSUME NEW g \in Handle PROVE HandleInv(g)'
  <2>1. status[g] = "open" => status'[iter[g].cell] # "unused"
    BY <1>1, HandleIs
  <2> QED
    BY <1>1, <2>1, HandleFrame
<1> QED
  BY <1>2, <1>3, <1>4 DEF ClientInv

LEMMA ClientNext ==
  ASSUME ClientInv, [ClientStep]_clientVars
  PROVE  ClientInv'
<1>1. ASSUME NEW h \in Handle, NEW r \in Request, Open(h, r) PROVE ClientInv'
  BY <1>1, OpenKeeps
<1>2. ASSUME NEW h \in Handle, HasNext(h) PROVE ClientInv'
  BY <1>2, HasNextKeeps
<1>3. ASSUME NEW h \in Handle, NextEntry(h) PROVE ClientInv'
  BY <1>3, NextEntryKeeps
<1>4. ASSUME NEW h \in Handle, Destroy(h) PROVE ClientInv'
  BY <1>4, DestroyKeeps
<1>5. ASSUME NEW h \in Handle, NEW g \in Handle, CopyIter(h, g) PROVE ClientInv'
  BY <1>5, CopyIterKeeps
<1>6. ASSUME Size PROVE ClientInv'
  BY <1>6, SizeKeeps
<1>7. ASSUME NEW h \in Handle, PassOver(h) PROVE ClientInv'
  BY <1>7, PassOverKeeps
<1>8. ASSUME NEW h \in Handle, Answer(h) PROVE ClientInv'
  BY <1>8, AnswerKeeps
<1>9. ASSUME NEW h \in Handle, NEW k \in DOMAIN iter[h].stages, Take(h, k) PROVE ClientInv'
  BY <1>9, TakeKeeps
<1>10. ASSUME NEW n \in Name, Change(n) PROVE ClientInv'
  BY <1>10, ChangeKeeps
<1>11. CASE ClientStep
  BY <1>1, <1>2, <1>3, <1>4, <1>5, <1>6, <1>7, <1>8, <1>9, <1>10, <1>11 DEF ClientStep
<1>12. CASE UNCHANGED clientVars
  BY <1>12, ClientStutters
<1> QED
  BY <1>11, <1>12

\* The types, and what is true of each iterator: its source and stages are those
\* of what was asked, what it answered last holds, and unless a copy of it moved
\* its source, what the client got is all there is before the place it came to.
THEOREM ClientInvariant == ClientSpec => []ClientInv
<1>1. InitClient => ClientInv
  BY ClientInit
<1>2. ClientInv /\ [ClientStep]_clientVars => ClientInv'
  BY ClientNext
<1> QED
  BY <1>1, <1>2, PTL DEF ClientSpec

\* The types of what iterators, their sources and their clients hold.
THEOREM ClientTypes == ClientSpec => []TypeOK
<1>1. ClientInv => TypeOK
  BY DEF ClientInv
<1> QED
  BY <1>1, ClientInvariant, PTL

----------------------------------------------------------------------------
(* What a client gets.                                                     *)

LEMMA OrderIs ==
  ASSUME NEW c \in Knowledge, NEW S, NEW cell, Serves(c, S, cell)
  PROVE  Order(cell) = OrderOf(c)
BY DEF Serves, KindOf, Order, OrderOf, Knowledge

\* At the end no level has passed by anything wanted.
LEMMA NothingLeft ==
  ASSUME NEW c \in Knowledge, NEW S \in Seq(Stage), NEW cell \in Cell, InRange(cell),
         Serves(c, S, cell), Exact(c, S, cell), Reached(S, 0), AtEnd(cell)
  PROVE  /\ Left(S, cell, Len(S)) = <<>>
         /\ \A i \in DOMAIN Order(cell) :
              i > Pos(S, cell, Len(S)) /\ Order(cell)[i] \notin Unsure(c) =>
                Of(c, Order(cell)[i]) = <<>>
<1> DEFINE O == Order(cell)
           m == Len(S)
<1>1. m \in Nat /\ DOMAIN S = 1..m
  OBVIOUS
<1>2. DOMAIN O = 1..Len(O) /\ Len(O) \in Nat
  BY Orders
<1>3. ASSUME NEW k \in 0..m PROVE Left(S, cell, k) = <<>>
  <2>1. CASE k = 0
    BY <2>1 DEF Left
  <2>2. CASE k > 0
    BY <1>1, <2>2 DEF Left, Reached
  <2> QED
    BY <2>1, <2>2
<1> DEFINE Past(k) == \A i \in Wanted(c, S, cell, k) : i <= Pos(S, cell, k)
           K == {k \in Nat : k <= m => Past(k)}
<1>4. 0 \in K
  <2>1. cell.at > Len(O) /\ cell.at \in Nat
    BY DEF AtEnd, Cell
  <2>2. Past(0)
    <3>1. Pos(S, cell, 0) = cell.at
      BY DEF Pos
    <3>2. Wanted(c, S, cell, 0) \subseteq DOMAIN O
      BY WantedIs
    <3> QED
      BY <1>2, <2>1, <3>1, <3>2
  <2> QED
    BY <2>2
<1>5. ASSUME NEW k \in Nat, k \in K PROVE k + 1 \in K
  <2> SUFFICES ASSUME k + 1 <= m PROVE Past(k + 1)
    OBVIOUS
  <2>1. k \in 0..m /\ k \in 0..(m - 1) /\ Past(k) /\ k + 1 \in 0..m
    BY <1>1, <1>5
  <2>2. Between(c, S, cell, k)
    BY <2>1 DEF Exact
  <2>3. Left(S, cell, k) = <<>>
    BY <1>3, <2>1
  <2>4. Pos(S, cell, k) \in Nat /\ Pos(S, cell, k + 1) \in Nat
    BY <2>1, LeftIs
  <2>5. ASSUME NEW i \in Wanted(c, S, cell, k + 1) PROVE i <= Pos(S, cell, k + 1)
    <3>1. Wanted(c, S, cell, k + 1) \subseteq Wanted(c, S, cell, k)
      <4>1. k + 1 \in Nat /\ k + 1 > 0 /\ (k + 1) - 1 = k
        OBVIOUS
      <4> QED
        BY <4>1, WantedIs
    <3>2. i \in Wanted(c, S, cell, k) /\ i <= Pos(S, cell, k)
      BY <2>1, <3>1
    <3>3. Yield(S, cell, k, O[i]) # <<>> /\ i \in DOMAIN O
      BY <3>2, WantedIs
    <3>4. ~(Pos(S, cell, k + 1) < i)
      BY <2>2, <2>3, <3>2, <3>3 DEF Between
    <3> QED
      BY <1>2, <2>4, <3>3, <3>4
  <2> QED
    BY <2>5
<1>6. Past(m)
  <2> HIDE DEF K
  <2>1. Nat \subseteq K
    BY <1>4, <1>5, Induction
  <2>2. m \in K
    BY <1>1, <2>1
  <2> QED
    BY <1>1, <2>2 DEF K
<1>7. Pos(S, cell, m) \in Nat
  BY <1>1, LeftIs
<1>8. ASSUME NEW i \in DOMAIN O, i > Pos(S, cell, m), O[i] \notin Unsure(c)
      PROVE  Of(c, O[i]) = <<>>
  <2>1. i \notin Wanted(c, S, cell, m)
    BY <1>2, <1>6, <1>7, <1>8
  <2> QED
    BY <1>8, <2>1, OfWanted
<1> QED
  BY <1>1, <1>3, <1>8

LEMMA GotIsPromised ==
  ASSUME ClientInv, NEW h \in Handle, status[h] = "open", ~client[h].moved
  PROVE  LET c == client[h]
         IN  /\ IsPrefix(Certain(c, c.got), Certain(c, Promised(c)))
             /\ c.said = "end" => Certain(c, c.got) = Certain(c, Promised(c))
<1> DEFINE c == client[h]
           S == iter[h].stages
           cell == cells[iter[h].cell]
           O == Order(cell)
           p == Pos(S, cell, Len(S))
           left == Left(S, cell, Len(S))
<1>1. /\ c \in Knowledge /\ S \in Seq(Stage) /\ cell \in Cell /\ InRange(cell)
      /\ Sound(c, iter[h], cell)
  BY HandleIs
<1>2. Serves(c, S, cell) /\ Answered(c, S, cell) /\ Exact(c, S, cell)
  BY <1>1 DEF Sound
<1>3. c.said = "end" => Reached(S, 0) /\ AtEnd(cell)
  BY <1>2 DEF Answered
<1>4. O = OrderOf(c)
  BY <1>1, <1>2, OrderIs
<1>5. PICK G \in Groups(O) : Delivered(c, O, p, left, G)
  BY <1>2 DEF Exact
<1> HIDE DEF c, S, cell
<1>6. Len(S) \in 0..Len(S)
  BY <1>1
<1>7. p \in Nat /\ left \in Seq(Content)
  BY <1>1, <1>6, LeftIs
<1>8. c.said = "end" =>
        /\ left = <<>>
        /\ \A i \in DOMAIN O : i > p /\ O[i] \notin Unsure(c) => Of(c, O[i]) = <<>>
  BY <1>1, <1>2, <1>3, NothingLeft
<1> HIDE DEF O, p, left
<1>9. /\ IsPrefix(Certain(c, c.got), Certain(c, Promised(c)))
      /\ (/\ left = <<>>
          /\ \A i \in DOMAIN OrderOf(c) :
               i > p /\ OrderOf(c)[i] \notin Unsure(c) => Of(c, OrderOf(c)[i]) = <<>>)
           => Certain(c, c.got) = Certain(c, Promised(c))
  BY <1>1, <1>4, <1>5, <1>7, DeliveredIs
<1> QED
  BY <1>4, <1>8, <1>9 DEF c

\* What has_next said is there can be taken, and an iterator no copy of which moved
\* its source gives exactly what was promised, name by name and in order, whatever
\* the directory does meanwhile and whichever documents cannot be read.
THEOREM ResultsAreExact == ClientSpec => []ResultsExact
<1>1. ASSUME ClientInv PROVE ResultsExact
  <2>1. \A h \in Handle : client[h].kept
    BY <1>1, HandleIs
  <2> QED
    BY <1>1, <2>1, GotIsPromised DEF ResultsExact
<1> QED
  BY <1>1, ClientInvariant, PTL

----------------------------------------------------------------------------
(* The size and the entries.                                               *)

\* Of names that each come once, those in T give one entry and the others none.
LEMMA CountedOnce ==
  ASSUME NEW O \in Seq(Name), \A i, j \in DOMAIN O : O[i] = O[j] => i = j,
         NEW T \in SUBSET Name, NEW seqs \in Seq(Seq(E)), Len(seqs) = Len(O),
         \A i \in 1..Len(O) : Len(seqs[i]) = IF O[i] \in T THEN 1 ELSE 0,
         \A n \in Name : \E i \in DOMAIN O : O[i] = n
  PROVE  Len(FlattenSeq(seqs)) = Cardinality(T)
<1> DEFINE upTo == UpTo(seqs, E)
           So(n) == {O[i] : i \in 1..n} \cap T
           K == {n \in Nat : n <= Len(O) => Len(upTo[n]) = Cardinality(So(n))}
<1>1. DOMAIN O = 1..Len(O) /\ Len(O) \in Nat
  OBVIOUS
<1>2. /\ upTo \in [0..Len(seqs) -> Seq(E)] /\ upTo[0] = <<>>
      /\ \A i \in 1..Len(seqs) : upTo[i] = upTo[i - 1] \o seqs[i]
  <2>1. seqs \in Seq(Seq(E))
    OBVIOUS
  <2> QED
    BY ONLY <2>1, Joining
<1>3. FlattenSeq(seqs) = upTo[Len(seqs)]
  BY FlatIsJoined
<1>4. \A i \in 1..Len(O) : seqs[i] \in Seq(E)
  OBVIOUS
<1> HIDE DEF upTo
<1>5. 0 \in K
  <2>1. So(0) = {}
    OBVIOUS
  <2>2. Cardinality(So(0)) = 0
    BY <2>1, FS_EmptySet
  <2>3. Len(upTo[0]) = 0
    BY <1>2
  <2> QED
    BY <2>2, <2>3
<1>6. ASSUME NEW n \in Nat, n \in K PROVE n + 1 \in K
  <2> SUFFICES ASSUME n + 1 <= Len(O) PROVE Len(upTo[n + 1]) = Cardinality(So(n + 1))
    OBVIOUS
  <2> DEFINE x == O[n + 1]
             s == upTo[n]
             t == seqs[n + 1]
  <2>1. n \in 0..Len(seqs) /\ n + 1 \in 1..Len(seqs) /\ (n + 1) - 1 = n /\ n + 1 \in DOMAIN O
    BY <1>1
  <2>2. s \in Seq(E) /\ t \in Seq(E) /\ upTo[n + 1] = s \o t
    BY <1>2, <1>4, <2>1
  <2>3. Len(s) = Cardinality(So(n)) /\ Len(t) = IF x \in T THEN 1 ELSE 0
    BY <1>1, <1>6, <2>1
  <2>4. So(n) \in SUBSET Name
    OBVIOUS
  <2>5. IsFiniteSet(So(n)) /\ Cardinality(So(n)) \in Nat
    <3> HIDE DEF So
    <3> QED
      BY <2>4, NamesAreFinite
  <2>6. So(n + 1) = IF x \in T THEN So(n) \cup {x} ELSE So(n)
    <3>1. \A i \in 1..(n + 1) : i \in 1..n \/ i = n + 1
      BY <2>1
    <3>2. \A i \in 1..n : i \in 1..(n + 1)
      BY <2>1
    <3>3. n + 1 \in 1..(n + 1)
      BY <2>1
    <3> DEFINE R(k) == {O[i] : i \in 1..k}
    <3>4. ASSUME NEW y PROVE y \in R(n + 1) <=> y \in R(n) \/ y = x
      BY ONLY <3>1, <3>2, <3>3
    <3>5. So(n + 1) = R(n + 1) \cap T /\ So(n) = R(n) \cap T
      OBVIOUS
    <3> HIDE DEF R, So, x
    <3> QED
      BY ONLY <3>4, <3>5
  <2>7. x \notin So(n)
    <3>1. \A i \in 1..n : i \in DOMAIN O /\ i # n + 1
      BY <1>1, <2>1
    <3>2. \A i, j \in DOMAIN O : O[i] = O[j] => i = j
      OBVIOUS
    <3>3. \A i \in 1..n : O[i] # x
      BY ONLY <2>1, <3>1, <3>2
    <3> QED
      BY <3>3
  <2>8. Len(upTo[n + 1]) = Len(s) + Len(t)
    <3> HIDE DEF s, t
    <3> QED
      BY <2>2
  <2> HIDE DEF So, s, t, x
  <2>9. CASE x \in T
    <3>1. Cardinality(So(n) \cup {x}) = Cardinality(So(n)) + 1
      BY <2>5, <2>7, FS_AddElement
    <3> QED
      BY <2>3, <2>6, <2>8, <2>9, <3>1
  <2>10. CASE x \notin T
    BY <2>3, <2>5, <2>6, <2>8, <2>10
  <2> QED
    BY <2>9, <2>10
<1>7. Len(upTo[Len(O)]) = Cardinality(So(Len(O)))
  <2> HIDE DEF K
  <2>1. Nat \subseteq K
    BY <1>5, <1>6, Induction
  <2>2. Len(O) \in K
    BY <1>1, <2>1
  <2> QED
    BY <1>1, <2>2 DEF K
<1>8. So(Len(O)) = T
  BY <1>1
<1> QED
  BY <1>3, <1>7, <1>8

LEMMA SizeIsPromised ==
  ASSUME ClientInv, NEW h \in Handle, status[h] = "open", ~client[h].moved,
         client[h].parts = <<>>, client[h].said = "end",
         client[h].changed = {}, client[h].missed = {},
         size # NotCounted, counted = client[h].names
  PROVE  Len(client[h].got) = size
<1> DEFINE c == client[h]
           O == OrderOf(c)
           T == IF c.db THEN c.names ELSE c.names \cap Xml
           seqs == [i \in DOMAIN O |-> Of(c, O[i])]
<1>1. c \in Knowledge /\ InTouch(c)
  BY HandleIs
<1>2. c.got \in Seq(E) /\ T \in SUBSET Name
  BY <1>1 DEF Knowledge
<1>3. \E cell : O = Order(cell)
  <2>1. Serves(c, iter[h].stages, cells[iter[h].cell])
    BY HandleIs DEF Sound
  <2> QED
    BY <1>1, <2>1, OrderIs
<1>4. /\ O \in Seq(Name) /\ Len(O) \in Nat
      /\ DOMAIN O = 1..Len(O)
      /\ \A i \in DOMAIN O : O[i] \in Name
      /\ \A i, j \in DOMAIN O : O[i] = O[j] => i = j
      /\ \A n \in Name : \E i \in DOMAIN O : O[i] = n
  BY <1>3, Orders
<1>5. ASSUME NEW n \in Name
      PROVE  Of(c, n) \in Seq(E) /\ Len(Of(c, n)) = IF n \in T THEN 1 ELSE 0
  <2>1. Of(c, n) \in Seq(E)
    BY <1>1, OfType
  <2>2. Found(c, n) <=> n \in T
    <3>1. Len(c.parts) = 0
      OBVIOUS
    <3>2. 1..(Len(c.parts) - 1) = {}
      BY <3>1
    <3> QED
      BY <3>2 DEF Found
  <2>3. CASE n \in T
    <3> DEFINE one == <<Plain>>
               shown == [k \in DOMAIN one |-> <<n, IF c.styled THEN Styled ELSE one[k]>>]
    <3>1. Of(c, n) = shown
      BY <2>2, <2>3 DEF Of
    <3>2. DOMAIN one = 1..1
      OBVIOUS
    <3>3. DOMAIN shown = 1..1
      BY <3>2
    <3> HIDE DEF shown
    <3>4. Len(Of(c, n)) \in Nat /\ DOMAIN Of(c, n) = 1..Len(Of(c, n))
      BY <2>1
    <3>5. 1..Len(Of(c, n)) = 1..1
      BY <3>1, <3>3, <3>4
    <3> DEFINE l == Len(Of(c, n))
    <3> HIDE DEF l
    <3>6. l \in Nat /\ 1..l = 1..1
      BY <3>4, <3>5 DEF l
    <3>7. 1 \in 1..l /\ (l \in 1..l => l \in 1..1)
      BY <3>6
    <3>8. l = 1
      BY <3>6, <3>7
    <3> QED
      BY <2>1, <2>3, <3>8 DEF l
  <2>4. CASE n \notin T
    <3>1. Of(c, n) = <<>>
      BY <2>2, <2>4 DEF Of
    <3> QED
      BY <2>1, <2>4, <3>1
  <2> QED
    BY <2>3, <2>4
<1> HIDE DEF T
<1>6. /\ seqs \in Seq(Seq(E)) /\ Len(seqs) = Len(O)
      /\ \A i \in 1..Len(O) : seqs[i] = Of(c, O[i])
  <2> HIDE DEF O
  <2> QED
    BY <1>4, <1>5
<1>7. \A i \in 1..Len(O) : Len(seqs[i]) = IF O[i] \in T THEN 1 ELSE 0
  BY <1>4, <1>5, <1>6
<1>8. Promised(c) = FlattenSeq(seqs)
  BY DEF Promised
<1> HIDE DEF O, seqs
<1>9. Len(Promised(c)) = Cardinality(T)
  <2>1. O \in Seq(Name) /\ seqs \in Seq(Seq(E)) /\ Len(seqs) = Len(O) /\ T \in SUBSET Name
    BY <1>2, <1>4, <1>6
  <2>2. \A i, j \in DOMAIN O : O[i] = O[j] => i = j
    BY <1>4
  <2>3. \A n \in Name : \E i \in DOMAIN O : O[i] = n
    BY <1>4
  <2>4. Len(FlattenSeq(seqs)) = Cardinality(T)
    BY ONLY <2>1, <2>2, <2>3, <1>7, CountedOnce
  <2> QED
    BY <1>8, <2>4
<1>10. Promised(c) \in Seq(E)
  BY <1>6, <1>8, FlatFromParts
<1>11. Certain(c, c.got) = Certain(c, Promised(c))
  BY GotIsPromised
<1>12. Unsure(c) = {}
  BY DEF Unsure
<1> HIDE DEF c
<1>13. c.got = Promised(c)
  <2>1. Certain(c, c.got) = c.got
    BY <1>2, <1>12, CertainSame
  <2>2. Certain(c, Promised(c)) = Promised(c)
    BY <1>10, <1>12, CertainSame
  <2> QED
    BY <1>11, <2>1, <2>2
<1>14. size = Cardinality(T)
  <2>1. size = Cardinality(IF db THEN counted ELSE counted \cap Xml)
    BY DEF ClientInv, SizeInv
  <2>2. c.db = db /\ counted = c.names
    BY <1>1 DEF InTouch, c
  <2> QED
    BY <2>1, <2>2 DEF T
<1> QED
  BY <1>9, <1>13, <1>14 DEF c

\* An iterator over the entries delivers as many as alpinocorpus_size counts, as
\* long as no file came or went and no exception hid one.
THEOREM SizeIsDelivered == ClientSpec => []SizeAgrees
<1>1. ASSUME ClientInv PROVE SizeAgrees
  BY <1>1, SizeIsPromised DEF SizeAgrees
<1> QED
  BY <1>1, ClientInvariant, PTL

----------------------------------------------------------------------------
(* Copies that share a source.                                             *)

Sharing(h) == {g \in Handle : status[g] = "open" /\ iter[g].cell = iter[h].cell}

Agree(c, d) == d.parts = c.parts /\ d.styled = c.styled /\ d.changed = c.changed

\* What two of them got since they were copied.
Separate(c, d) ==
  \A i \in DOMAIN c.got, j \in DOMAIN d.got :
    i > c.before /\ j > d.before => c.got[i] # d.got[j]

\* Entries that were asked for, of names before the place of the source.
Listed(c, cell) ==
  \A i \in DOMAIN c.got :
    LET e == c.got[i]
    IN  /\ Place(cell, e[1]) < cell.at
        /\ e[1] \notin c.changed => e \in ToSet(Of(c, e[1]))

Due(c, n) == n \in c.names \ c.changed /\ (c.db \/ n \in Xml)

\* A name an iterator or one that shares its source has had.
Went(h, n) == n \in client[h].gone \/ \E g \in Sharing(h) : n \in NamesOf(client[g])

Parted(h) ==
  LET c == client[h]
      cell == cells[iter[h].cell]
  IN  /\ Listed(c, cell)
      /\ \A g \in Sharing(h) : g # h => Separate(c, client[g])
      /\ \A i \in DOMAIN Order(cell) :
           i < cell.at /\ Due(c, Order(cell)[i]) => Went(h, Order(cell)[i])

SplitInv(h) ==
  /\ ~Shared(cells[iter[h].cell]) => iter[h].cell = h
  /\ client[h].before <= Len(client[h].got)
  /\ \A g \in Sharing(h) : Agree(client[h], client[g])
  /\ client[h].parts = <<>> => Parted(h)

SharedInv == \A h \in Handle : status[h] = "open" => SplitInv(h)

LEMMA SharersAre ==
  ASSUME ClientInv, SharedInv, NEW h \in Handle, status[h] = "open", NEW g \in Sharing(h)
  PROVE  /\ g \in Handle /\ status[g] = "open" /\ iter[g].cell = iter[h].cell
         /\ client[g].parts = client[h].parts /\ client[g].changed = client[h].changed
         /\ \A n : Of(client[g], n) = Of(client[h], n)
         /\ \A n : Due(client[g], n) <=> Due(client[h], n)
<1> DEFINE c == client[h]
           d == client[g]
<1>1. g \in Handle /\ status[g] = "open" /\ iter[g].cell = iter[h].cell
  BY DEF Sharing
<1>2. d.parts = c.parts /\ d.styled = c.styled /\ d.changed = c.changed
  BY DEF SharedInv, SplitInv, Agree
<1>3. d.db = c.db /\ d.names = c.names
  <2>1. InTouch(c) /\ InTouch(d) /\ c.names = cells[iter[h].cell].names
    BY <1>1, HandleIs DEF Sound, Serves
  <2>2. d.names = cells[iter[g].cell].names
    BY <1>1, HandleIs DEF Sound, Serves
  <2> QED
    BY <1>1, <2>1, <2>2 DEF InTouch
<1>4. ASSUME NEW n PROVE Of(d, n) = Of(c, n)
  <2>1. Found(d, n) = Found(c, n)
    BY <1>2, <1>3 DEF Found
  <2> QED
    BY <1>2, <2>1 DEF Of
<1>5. \A n : Due(d, n) <=> Due(c, n)
  BY <1>2, <1>3 DEF Due
<1> QED
  BY <1>1, <1>2, <1>4, <1>5

\* What comes from a source that goes on to a place, to one who knows d then: what
\* was at its place, and the names it leaves behind are not due or were had.
Gives(c, cell, to, given, d) ==
  c.parts = <<>> =>
    /\ \A i \in DOMAIN given :
         /\ Place(cell, given[i][1]) = cell.at /\ cell.at < to.at
         /\ given[i][1] \notin c.changed => given[i] \in ToSet(Of(c, given[i][1]))
    /\ \A i \in DOMAIN Order(cell) :
         cell.at <= i /\ i < to.at /\ Due(c, Order(cell)[i]) => Order(cell)[i] \in NamesOf(d)

\* Nobody but h got anything; the names in D changed.
Gained(h, D) ==
  \A g \in Handle :
    /\ SameRequest(client[g], client'[g])
    /\ client'[g].changed = client[g].changed \cup D
    /\ client[g].missed \subseteq client'[g].missed
    /\ client'[g].before = client[g].before /\ client'[g].gone = client[g].gone
    /\ g # h => client'[g].got = client[g].got

\* The source of h goes on and h gets what was there; the names in D change.
LEMMA SplitMoves ==
  ASSUME ClientInv, SharedInv, NEW h \in Handle, status[h] = "open", status' = status,
         \A g \in Handle : iter'[g].cell = iter[g].cell,
         NEW to \in Cell, cells'[iter[h].cell] = to,
         \A k \in Handle : k # iter[h].cell => cells'[k] = cells[k],
         Alike(cells[iter[h].cell], to), cells[iter[h].cell].at <= to.at,
         NEW D,
         Gained(h, D), NEW given \in Seq(E), client'[h].got = client[h].got \o given,
         Gives(client[h], cells[iter[h].cell], to, given, client'[h])
  PROVE  SharedInv'
<1> USE DEF Gained, Gives
<1> DEFINE cell == cells[iter[h].cell]
           c(g) == client[g]
           d(g) == client'[g]
           old(g) == cells[iter[g].cell]
           new(g) == cells'[iter[g].cell]
<1>1. cell \in Cell /\ to.at \in Nat /\ cell.at \in Nat /\ Order(to) = Order(cell)
      /\ h \in Sharing(h)
  BY HandleIs, AlikeIs DEF Cell, Sharing
<1>2. \A g \in Handle : Sharing(g)' = Sharing(g)
  BY DEF Sharing
<1>3. ASSUME NEW g \in Handle
      PROVE  /\ old(g) \in Cell /\ new(g) \in Cell /\ Alike(old(g), new(g))
             /\ old(g).at <= new(g).at /\ Order(new(g)) = Order(old(g))
             /\ c(g).got \in Seq(E) /\ c(g).before \in Nat
             /\ iter[g].cell # iter[h].cell => new(g) = old(g)
             /\ iter[g].cell = iter[h].cell => old(g) = cell /\ new(g) = to
  <2>1. iter[g].cell \in Handle /\ old(g) \in Cell /\ c(g) \in Knowledge
    BY HandleIs
  <2>2. old(g).at \in Nat
    BY <2>1 DEF Cell
  <2>3. CASE iter[g].cell = iter[h].cell
    <3>1. old(g) = cell /\ new(g) = to
      BY <2>3
    <3> QED
      BY <1>1, <2>1, <2>3, <3>1 DEF Knowledge
  <2>4. CASE iter[g].cell # iter[h].cell
    <3>1. new(g) = old(g)
      BY <2>1, <2>4
    <3> QED
      BY <2>1, <2>2, <2>4, <3>1 DEF Alike, Knowledge
  <2> QED
    BY <2>3, <2>4
<1>4. ASSUME NEW g \in Handle
      PROVE  /\ Len(d(g).got) >= Len(c(g).got) /\ Len(d(g).got) \in Nat /\ Len(c(g).got) \in Nat
             /\ d(g).got \in Seq(E)
             /\ \A i \in DOMAIN c(g).got : i \in DOMAIN d(g).got /\ d(g).got[i] = c(g).got[i]
             /\ \A i \in DOMAIN d(g).got : i \notin DOMAIN c(g).got =>
                  g = h /\ \E j \in DOMAIN given : d(g).got[i] = given[j]
             /\ \A n : n \in NamesOf(c(g)) => n \in NamesOf(d(g))
  <2>1. c(g).got \in Seq(E)
    BY <1>3
  <2>2. /\ Len(d(g).got) >= Len(c(g).got) /\ Len(d(g).got) \in Nat /\ Len(c(g).got) \in Nat
        /\ d(g).got \in Seq(E)
        /\ \A i \in DOMAIN c(g).got : i \in DOMAIN d(g).got /\ d(g).got[i] = c(g).got[i]
        /\ \A i \in DOMAIN d(g).got : i \notin DOMAIN c(g).got =>
             g = h /\ \E j \in DOMAIN given : d(g).got[i] = given[j]
    <3>1. CASE g # h
      <4>1. d(g).got = c(g).got
        BY <3>1
      <4> HIDE DEF c, d
      <4> QED
        BY <2>1, <4>1
    <3>2. CASE g = h
      <4> DEFINE s == c(h).got
                 t == given
                 u == s \o t
      <4>1. d(g).got = u
        BY <3>2
      <4>2. s \in Seq(E) /\ t \in Seq(E)
        BY <2>1, <3>2
      <4>3. /\ u \in Seq(E) /\ Len(u) = Len(s) + Len(t)
            /\ \A i \in 1..Len(s) : u[i] = s[i]
            /\ \A i \in 1..Len(t) : u[Len(s) + i] = t[i]
        <5> HIDE DEF s, t, c
        <5> QED
          BY ONLY <4>2, Joint
      <4> HIDE DEF u, s, t
      <4>4. \A i \in 1..Len(u) : i \notin 1..Len(s) => i - Len(s) \in 1..Len(t)
              /\ u[i] = t[i - Len(s)]
        <5>1. Len(u) \in Nat /\ Len(s) \in Nat /\ Len(t) \in Nat
          BY <4>2, <4>3
        <5>2. ASSUME NEW i \in 1..Len(u), i \notin 1..Len(s)
              PROVE  i - Len(s) \in 1..Len(t) /\ u[i] = t[i - Len(s)]
          <6>1. i - Len(s) \in 1..Len(t) /\ Len(s) + (i - Len(s)) = i
            BY <4>3, <5>1, <5>2
          <6> QED
            BY <4>3, <6>1
        <5> QED
          BY <5>2
      <4>5. DOMAIN u = 1..Len(u) /\ DOMAIN s = 1..Len(s) /\ DOMAIN t = 1..Len(t)
            /\ Len(u) \in Nat /\ Len(s) \in Nat /\ Len(t) \in Nat
        BY <4>2, <4>3
      <4>6. /\ Len(u) >= Len(s)
            /\ \A i \in DOMAIN s : i \in DOMAIN u /\ u[i] = s[i]
            /\ \A i \in DOMAIN u : i \notin DOMAIN s => \E j \in DOMAIN t : u[i] = t[j]
        <5>1. Len(u) >= Len(s)
          BY <4>3, <4>5
        <5>2. \A i \in DOMAIN s : i \in DOMAIN u /\ u[i] = s[i]
          BY <4>3, <4>5, <5>1
        <5>3. ASSUME NEW i \in DOMAIN u, i \notin DOMAIN s
              PROVE  \E j \in DOMAIN t : u[i] = t[j]
          BY <4>4, <4>5, <5>3
        <5> QED
          BY <5>1, <5>2, <5>3
      <4>7. c(g).got = s /\ given = t
        BY <3>2 DEF s, t
      <4> HIDE DEF c, d
      <4> QED
        BY <3>2, <4>1, <4>3, <4>5, <4>6, <4>7
    <3> QED
      BY <3>1, <3>2
  <2>3. ASSUME NEW n, n \in NamesOf(c(g)) PROVE n \in NamesOf(d(g))
    <3>1. CASE n \in c(g).missed
      BY <3>1 DEF NamesOf
    <3>2. CASE n \notin c(g).missed
      <4>1. PICK e \in ToSet(c(g).got) : n = e[1]
        BY <2>3, <3>2 DEF NamesOf
      <4>2. PICK i \in DOMAIN c(g).got : e = c(g).got[i]
        BY <4>1 DEF ToSet
      <4>3. e \in ToSet(d(g).got)
        BY <2>2, <4>2 DEF ToSet
      <4> QED
        BY <4>1, <4>3 DEF NamesOf
    <3> QED
      BY <3>1, <3>2
  <2> QED
    BY <2>2, <2>3
<1>5. ASSUME NEW g \in Handle, status[g] = "open"
      PROVE  /\ ~Shared(new(g)) => iter[g].cell = g
             /\ d(g).before <= Len(d(g).got)
             /\ \A f \in Sharing(g) : Agree(d(g), d(f))
  <2>1. SplitInv(g)
    BY <1>5 DEF SharedInv
  <2>2. ~Shared(new(g)) => iter[g].cell = g
    <3>1. Alike(old(g), new(g))
      BY <1>3
    <3> QED
      BY <2>1, <3>1 DEF SplitInv, Shared, Alike
  <2>3. d(g).before <= Len(d(g).got)
    <3>1. c(g).before <= Len(c(g).got) /\ d(g).before = c(g).before /\ c(g).before \in Nat
      BY <1>3, <2>1 DEF SplitInv
    <3>2. Len(d(g).got) >= Len(c(g).got) /\ Len(d(g).got) \in Nat /\ Len(c(g).got) \in Nat
      BY <1>4
    <3> HIDE DEF c, d
    <3> QED
      BY <3>1, <3>2
  <2>4. ASSUME NEW f \in Sharing(g) PROVE Agree(d(g), d(f))
    <3>1. Agree(c(g), c(f)) /\ f \in Handle
      BY <2>1, <2>4 DEF SplitInv, Sharing
    <3> QED
      BY <3>1 DEF Agree, SameRequest
  <2> QED
    BY <2>2, <2>3, <2>4
<1>6. ASSUME NEW g \in Handle, status[g] = "open", c(g).parts = <<>>
      PROVE  Parted(g)
  BY <1>6 DEF SharedInv, SplitInv
<1>7. \A g \in Handle : /\ \A n : Of(d(g), n) = Of(c(g), n)
                        /\ \A n : Due(d(g), n) => Due(c(g), n)
  <2>1. ASSUME NEW g \in Handle, NEW n PROVE Of(d(g), n) = Of(c(g), n)
    <3>1. SameRequest(c(g), d(g))
      OBVIOUS
    <3> HIDE DEF c, d
    <3> QED
      BY <3>1, SameRequestIs
  <2>2. ASSUME NEW g \in Handle, NEW n, Due(d(g), n) PROVE Due(c(g), n)
    BY <2>2 DEF Due, SameRequest
  <2> QED
    BY <2>1, <2>2
<1>8. \A f \in Handle : \A n : Place(old(f), n) = Place(new(f), n)
  <2>1. ASSUME NEW f \in Handle, NEW n PROVE Place(old(f), n) = Place(new(f), n)
    <3>1. Order(new(f)) = Order(old(f))
      BY <1>3, <2>1
    <3> HIDE DEF old, new
    <3> QED
      BY <3>1 DEF Place
  <2> QED
    BY <2>1
<1>9. ASSUME NEW g \in Handle, status[g] = "open", c(g).parts = <<>>
      PROVE  Listed(d(g), new(g))
  <2> SUFFICES ASSUME NEW i \in DOMAIN d(g).got
               PROVE  LET e == d(g).got[i]
                      IN  /\ Place(new(g), e[1]) < new(g).at
                          /\ e[1] \notin d(g).changed => e \in ToSet(Of(d(g), e[1]))
    BY DEF Listed
  <2> DEFINE e == d(g).got[i]
  <2>1. CASE i \in DOMAIN c(g).got
    <3>1. /\ e = c(g).got[i] /\ Place(old(g), e[1]) < old(g).at
          /\ e[1] \notin c(g).changed => e \in ToSet(Of(c(g), e[1]))
      BY <1>4, <1>6, <1>9, <2>1 DEF Parted, Listed
    <3>2. e[1] \in Name
      <4>1. e \in E
        BY <1>3, <2>1, <3>1
      <4> QED
        BY <4>1 DEF E
    <3>3. Place(old(g), e[1]) \in Nat
      <4>1. Place(old(g), e[1]) \in DOMAIN Order(old(g))
        BY <3>2, Places
      <4>2. DOMAIN Order(old(g)) = 1..Len(Order(old(g))) /\ Len(Order(old(g))) \in Nat
        BY Orders
      <4> HIDE DEF old
      <4> QED
        BY <4>1, <4>2
    <3>4. old(g).at <= new(g).at /\ old(g).at \in Nat /\ new(g).at \in Nat
      BY <1>3 DEF Cell
    <3>5. Place(new(g), e[1]) = Place(old(g), e[1])
      BY <1>8
    <3>6. Place(new(g), e[1]) < new(g).at
      <4> HIDE DEF e, old, new
      <4> QED
        BY <3>1, <3>3, <3>4, <3>5
    <3>7. e[1] \notin d(g).changed => e \in ToSet(Of(d(g), e[1]))
      <4>1. e[1] \notin d(g).changed => e[1] \notin c(g).changed
        OBVIOUS
      <4>2. Of(d(g), e[1]) = Of(c(g), e[1])
        BY <1>7
      <4> QED
        BY <3>1, <4>1, <4>2
    <3> QED
      BY <3>6, <3>7
  <2>2. CASE i \notin DOMAIN c(g).got
    <3>1. PICK j \in DOMAIN given : g = h /\ e = given[j]
      BY <1>4, <2>2
    <3>2. /\ Place(cell, e[1]) = cell.at /\ cell.at < to.at
          /\ e[1] \notin c(g).changed => e \in ToSet(Of(c(g), e[1]))
      BY <1>9, <3>1
    <3>3. new(g) = to /\ old(g) = cell
      BY <1>3, <3>1
    <3>4. Place(new(g), e[1]) = cell.at
      BY <1>8, <3>2, <3>3
    <3>5. Of(d(g), e[1]) = Of(c(g), e[1])
      BY <1>7
    <3>6. e[1] \notin d(g).changed => e[1] \notin c(g).changed
      OBVIOUS
    <3> QED
      BY <3>2, <3>3, <3>4, <3>5, <3>6
  <2> QED
    BY <2>1, <2>2
<1>10. ASSUME NEW g \in Handle, status[g] = "open", c(g).parts = <<>>,
              NEW f \in Sharing(g), f # g
       PROVE  Separate(d(g), d(f))
  <2>1. /\ f \in Handle /\ status[f] = "open" /\ iter[f].cell = iter[g].cell
        /\ c(f).parts = <<>>
    BY <1>10, SharersAre
  <2>2. Separate(c(g), c(f)) /\ Listed(c(g), old(g)) /\ Listed(c(f), old(f)) /\ old(f) = old(g)
    BY <1>6, <1>10, <2>1 DEF Parted
  <2>3. d(g).before = c(g).before /\ d(f).before = c(f).before
    BY <2>1
  <2> SUFFICES ASSUME NEW i \in DOMAIN d(g).got, NEW j \in DOMAIN d(f).got,
                      i > d(g).before, j > d(f).before
               PROVE  d(g).got[i] # d(f).got[j]
    BY DEF Separate
  <2>4. CASE i \in DOMAIN c(g).got /\ j \in DOMAIN c(f).got
    BY <1>4, <2>1, <2>2, <2>3, <2>4 DEF Separate
  <2>5. CASE i \notin DOMAIN c(g).got
    <3>1. PICK k \in DOMAIN given : g = h /\ d(g).got[i] = given[k]
      BY <1>4, <2>5
    <3>2. j \in DOMAIN c(f).got /\ d(f).got[j] = c(f).got[j]
      BY <1>4, <1>10, <2>1, <3>1
    <3>3. Place(cell, given[k][1]) = cell.at /\ Place(cell, c(f).got[j][1]) < cell.at
      BY <1>10, <2>2, <3>1, <3>2 DEF Listed
    <3> QED
      BY <1>1, <3>1, <3>2, <3>3
  <2>6. CASE j \notin DOMAIN c(f).got
    <3>1. PICK k \in DOMAIN given : f = h /\ d(f).got[j] = given[k]
      BY <1>4, <2>1, <2>6
    <3>2. i \in DOMAIN c(g).got /\ d(g).got[i] = c(g).got[i]
      BY <1>4, <1>10, <3>1
    <3>3. Place(cell, given[k][1]) = cell.at /\ Place(cell, c(g).got[i][1]) < cell.at
      BY <2>1, <2>2, <3>1, <3>2 DEF Listed
    <3> QED
      BY <1>1, <3>1, <3>2, <3>3
  <2> QED
    BY <2>4, <2>5, <2>6
<1>11. ASSUME NEW g \in Handle, status[g] = "open", c(g).parts = <<>>,
              NEW i \in DOMAIN Order(new(g)), i < new(g).at, Due(d(g), Order(new(g))[i])
       PROVE  \/ Order(new(g))[i] \in d(g).gone
              \/ \E f \in Sharing(g) : Order(new(g))[i] \in NamesOf(d(f))
  <2> DEFINE n == Order(new(g))[i]
  <2>1. n = Order(old(g))[i] /\ i \in DOMAIN Order(old(g)) /\ Due(c(g), n)
    BY <1>3, <1>7, <1>11
  <2>2. n \in d(g).gone \/ \E f \in Sharing(g) : n \in NamesOf(d(f))
    <3>1. CASE i < old(g).at
      <4>1. Went(g, n)
        BY <1>6, <1>11, <2>1, <3>1 DEF Parted
      <4> QED
        BY <1>4, <4>1 DEF Went, Sharing
    <3>2. CASE ~(i < old(g).at)
      <4>1. iter[g].cell = iter[h].cell /\ old(g) = cell /\ new(g) = to
        BY <1>3, <1>11, <3>2
      <4>2. g \in Sharing(h) /\ h \in Sharing(g)
        BY <1>11, <4>1 DEF Sharing
      <4>3. c(h).parts = <<>> /\ Due(c(h), n)
        <5>1. client[g].parts = client[h].parts /\ \A x : Due(client[g], x) <=> Due(client[h], x)
          BY <4>2, SharersAre
        <5> QED
          BY <1>11, <2>1, <5>1
      <4>4. i \in Nat /\ cell.at \in Nat /\ DOMAIN Order(cell) = 1..Len(Order(cell))
        <5>1. DOMAIN Order(cell) = 1..Len(Order(cell)) /\ Len(Order(cell)) \in Nat
          BY Orders
        <5>2. i \in DOMAIN Order(cell)
          BY <2>1, <4>1
        <5> HIDE DEF cell
        <5> QED
          BY <1>1, <5>1, <5>2
      <4>5. i \in DOMAIN Order(cell) /\ n = Order(cell)[i] /\ cell.at <= i /\ i < to.at
        BY <1>11, <2>1, <3>2, <4>1, <4>4
      <4>6. n \in NamesOf(d(h))
        BY <4>3, <4>5
      <4> QED
        BY <4>2, <4>6
    <3> QED
      BY <3>1, <3>2
  <2> QED
    BY <2>2
<1>12. ASSUME NEW g \in Handle, status'[g] = "open" PROVE SplitInv(g)'
  <2>1. iter'[g].cell = iter[g].cell /\ status[g] = "open" /\ Sharing(g)' = Sharing(g)
    BY <1>2, <1>12
  <2>2. (client[g].parts)' = c(g).parts
    BY DEF SameRequest
  <2>3. c(g).parts = <<>> => Parted(g)'
    <3> SUFFICES ASSUME c(g).parts = <<>> PROVE Parted(g)'
      OBVIOUS
    <3>1. Listed(d(g), cells'[iter'[g].cell])
      BY <1>9, <2>1
    <3>2. \A f \in Sharing(g)' : f # g => Separate(d(g), d(f))
      BY <1>10, <2>1
    <3>3. \A i \in DOMAIN Order(cells'[iter'[g].cell]) :
            LET n == Order(cells'[iter'[g].cell])[i]
            IN  i < cells'[iter'[g].cell].at /\ Due(d(g), n) =>
                  n \in d(g).gone \/ \E f \in Sharing(g)' : n \in NamesOf(d(f))
      BY <1>11, <2>1
    <3> QED
      BY <3>1, <3>2, <3>3 DEF Parted, Went
  <2> QED
    BY <1>5, <2>1, <2>2, <2>3 DEF SplitInv
<1> QED
  BY <1>12 DEF SharedInv

\* Steps that move no source.
LEMMA SplitStays ==
  ASSUME ClientInv, SharedInv, UNCHANGED <<cells, iter, status>>, NEW D,
         \A g \in Handle :
           /\ SameRequest(client[g], client'[g])
           /\ client'[g].changed = client[g].changed \cup D
           /\ client'[g].missed = client[g].missed /\ client'[g].got = client[g].got
           /\ client'[g].before = client[g].before /\ client'[g].gone = client[g].gone
  PROVE  SharedInv'
<1>1. CASE \A h \in Handle : status[h] # "open"
  BY <1>1 DEF SharedInv
<1>2. ASSUME NEW h \in Handle, status[h] = "open" PROVE SharedInv'
  <2> DEFINE cell == cells[iter[h].cell]
             none == <<>>
  <2>1. cell \in Cell /\ client[h] \in Knowledge /\ cell.at \in Nat
    BY <1>2, HandleIs DEF Cell
  <2>2. PICK to \in Cell : to = cell
    BY <2>1
  <2>3. to \in Cell /\ Alike(cell, to) /\ cells'[iter[h].cell] = to /\ cell.at <= to.at
    BY <2>1, <2>2 DEF Alike
  <2>4. none \in Seq(E) /\ DOMAIN none = {} /\ client'[h].got = client[h].got \o none
    BY <2>1 DEF Knowledge
  <2>5. \A i \in DOMAIN Order(cell) : ~(cell.at <= i /\ i < to.at)
    <3>1. DOMAIN Order(cell) = 1..Len(Order(cell)) /\ Len(Order(cell)) \in Nat
      BY Orders
    <3> HIDE DEF cell
    <3> QED
      BY <2>1, <2>2, <3>1
  <2> HIDE DEF none
  <2>6. \A g \in Handle : iter'[g].cell = iter[g].cell
    OBVIOUS
  <2>7. \A k \in Handle : k # iter[h].cell => cells'[k] = cells[k]
    OBVIOUS
  <2>8. Gained(h, D)
    BY DEF Gained
  <2>9. Gives(client[h], cell, to, none, client'[h])
    BY <2>4, <2>5 DEF Gives
  <2>10. status' = status
    OBVIOUS
  <2> QED
    BY ONLY ClientInv, SharedInv, <1>2, <2>3, <2>4, <2>6, <2>7, <2>8, <2>9, <2>10, SplitMoves
<1> QED
  BY <1>1, <1>2

\* A call that moves the source of an iterator, and what it gave.
LEMMA MovedSplits ==
  ASSUME ClientInv, SharedInv, NEW h \in Handle, status[h] = "open",
         NEW T, NEW to \in Cell, NEW d, Moved(h, T, to, d),
         Alike(cells[iter[h].cell], to), cells[iter[h].cell].at <= to.at,
         SameRequest(client[h], d), d.changed = client[h].changed,
         client[h].missed \subseteq d.missed,
         d.before = client[h].before, d.gone = client[h].gone,
         NEW given \in Seq(E), d.got = client[h].got \o given,
         Gives(client[h], cells[iter[h].cell], to, given, d)
  PROVE  SharedInv'
<1> DEFINE Else(g) == [client[g] EXCEPT !.moved = TRUE, !.said = "nothing"]
           other == to # cells[iter[h].cell]
           F(g) == CASE g = h -> d
                     [] g \in SameCell(h) /\ other -> Else(g)
                     [] OTHER -> client[g]
<1>1. /\ iter' = [iter EXCEPT ![h].stages = T]
      /\ cells' = [cells EXCEPT ![iter[h].cell] = to]
      /\ client' = [g \in Handle |-> F(g)]
      /\ status' = status
  BY DEF Moved
<1>2. /\ iter[h] \in Iterator /\ iter[h].cell \in Handle
      /\ iter \in [Handle -> Iterator] /\ cells \in [Handle -> Cell]
      /\ client \in [Handle -> Knowledge]
  BY HandleIs DEF ClientInv, TypeOK
<1>3. \A g \in Handle : iter'[g].cell = iter[g].cell
  <2> DEFINE x == [iter[h] EXCEPT !.stages = T]
  <2>1. x.cell = iter[h].cell
    BY <1>2 DEF Iterator
  <2>2. iter' = [iter EXCEPT ![h] = x]
    BY <1>1, <1>2
  <2> HIDE DEF x
  <2> QED
    BY <1>2, <2>1, <2>2
<1>4. /\ cells'[iter[h].cell] = to
      /\ \A k \in Handle : k # iter[h].cell => cells'[k] = cells[k]
  BY <1>1, <1>2
<1>5. F(h) = d /\ \A g \in Handle : g # h => F(g) \in {Else(g), client[g]}
  <2> HIDE DEF Else, other
  <2>1. F(h) = d
    BY DEF SameCell
  <2>2. ASSUME NEW g \in Handle, g # h PROVE F(g) \in {Else(g), client[g]}
    BY <2>2
  <2> QED
    BY <2>1, <2>2
<1>6. ASSUME NEW g \in Handle
      PROVE  /\ SameRequest(client[g], Else(g)) /\ Else(g).changed = client[g].changed
             /\ Else(g).missed = client[g].missed /\ Else(g).got = client[g].got
             /\ Else(g).before = client[g].before /\ Else(g).gone = client[g].gone
  <2>1. client[g] \in Knowledge
    BY <1>2
  <2> QED
    BY <2>1 DEF Knowledge, SameRequest
<1>7. client'[h] = d /\ \A g \in Handle : g # h => client'[g] \in {Else(g), client[g]}
  <2> HIDE DEF F, Else
  <2> QED
    BY <1>1, <1>5
<1> DEFINE D == {}
<1> HIDE DEF F, Else
<1>8. ASSUME NEW g \in Handle
      PROVE  /\ SameRequest(client[g], client'[g])
             /\ client'[g].changed = client[g].changed \cup D
             /\ client[g].missed \subseteq client'[g].missed
             /\ client'[g].before = client[g].before /\ client'[g].gone = client[g].gone
             /\ g # h => client'[g].got = client[g].got
  <2>1. CASE g = h
    BY <1>7, <2>1
  <2>2. CASE g # h /\ client'[g] = client[g]
    BY <2>2 DEF SameRequest
  <2>3. CASE g # h /\ client'[g] = Else(g)
    BY <1>6, <2>3
  <2> QED
    BY <1>7, <2>1, <2>2, <2>3
<1> HIDE DEF D
<1>9. client'[h].got = client[h].got \o given
  BY <1>7
<1>10. status' = status
  BY <1>1
<1>11. Gives(client[h], cells[iter[h].cell], to, given, client'[h])
  BY <1>7
<1>12. Gained(h, D)
  BY <1>8 DEF Gained
<1> QED
  BY <1>3, <1>4, <1>9, <1>10, <1>11, <1>12, SplitMoves

\* What a source passes by is not due to an iterator over the entries.
LEMMA SkippedIsNotDue ==
  ASSUME NEW c \in Knowledge, InTouch(c), NEW cell \in Cell, cell.names = c.names,
         cell.kind = KindOf(c), c.parts = <<>>, NEW to, Jumps(cell, to),
         NEW i \in DOMAIN Order(cell), cell.at < i, i < to.at
  PROVE  ~Due(c, Order(cell)[i])
<1> DEFINE n == Order(cell)[i]
<1>1. ~Sees(cell, n)
  BY DEF Jumps
<1>2. n \in Name
  BY Orders
<1>3. cell.kind # "results"
  BY DEF KindOf
<1>4. Contents(cell, n) # <<>>
  BY <1>3 DEF Contents
<1>5. n \in c.names /\ n \notin c.changed => n \in disk /\ n \in cell.names
  BY <1>2 DEF InTouch
<1> QED
  BY <1>1, <1>4, <1>5 DEF Sees, Due

LEMMA NoPartsNoStages ==
  ASSUME NEW c \in Knowledge, NEW S \in Seq(Stage), NEW cell, Serves(c, S, cell), c.parts = <<>>
  PROVE  S = <<>>
<1>1. Len(c.parts) = 0 /\ First(c) = 0
  BY DEF First
<1>2. Len(S) = 0
  BY <1>1 DEF Serves
<1> QED
  BY <1>2

LEMMA PassOverSplits ==
  ASSUME ClientInv, SharedInv, NEW h \in Handle, PassOver(h)
  PROVE  SharedInv'
<1> DEFINE cell == cells[iter[h].cell]
           S == iter[h].stages
           c == client[h]
           to == Advance(cell)
           none == <<>>
<1>1. c.said = "asked" /\ ~isValid(cell) /\ Moved(h, S, to, c)
  BY DEF PassOver
<1>2. status[h] = "open"
  BY <1>1, AskedIsOpen
<1>3. /\ c \in Knowledge /\ cell \in Cell /\ InRange(cell) /\ InTouch(c)
      /\ cell.names = c.names /\ cell.kind = KindOf(c) /\ cell.at \in Nat
  BY <1>2, HandleIs DEF Sound, Serves, Cell
<1>4. ~AtEnd(cell) /\ Order(cell)[cell.at] \notin Xml /\ cell.kind \notin {"container", "results"}
  BY <1>1 DEF isValid
<1>5. to \in Cell /\ Alike(cell, to) /\ (Stays(cell, to) \/ Goes(cell, to))
  BY <1>3, <1>4, AdvanceIs
<1>6. ~c.db
  BY <1>3, <1>4 DEF KindOf
<1> HIDE DEF to, cell, c, S
<1>7. ASSUME c.parts = <<>>, NEW i \in DOMAIN Order(cell), cell.at <= i, i < to.at
      PROVE  ~Due(c, Order(cell)[i])
  <2>1. i \in Nat
    BY Orders
  <2>2. CASE i = cell.at
    BY <1>4, <1>6, <2>2 DEF Due
  <2>3. CASE cell.at < i
    <3>1. Jumps(cell, to)
      BY <1>3, <1>5, <1>7, <2>1, <2>3 DEF Stays, Goes
    <3> QED
      BY <1>3, <1>7, <2>3, <3>1, SkippedIsNotDue
  <2> QED
    BY <1>3, <1>7, <2>1, <2>2, <2>3
<1>8. cell.at <= to.at /\ to.at \in Nat
  BY <1>3, <1>5 DEF Stays, Goes, Jumps, Cell
<1>9. none \in Seq(E) /\ DOMAIN none = {} /\ c.got = c.got \o none
  BY <1>3 DEF Knowledge
<1>10. SameRequest(c, c) /\ c.missed \subseteq c.missed
  BY DEF SameRequest
<1> HIDE DEF none
<1>11. Gives(c, cell, to, none, c)
  BY <1>7, <1>9 DEF Gives
<1> QED
  BY <1>1, <1>2, <1>5, <1>8, <1>9, <1>10, <1>11, MovedSplits DEF cell, c

\* What a call answers.
LEMMA AnswerSplits ==
  ASSUME ClientInv, SharedInv, NEW h \in Handle, NEW s,
         client' = [client EXCEPT ![h].said = s], UNCHANGED <<cells, iter, status>>
  PROVE  SharedInv'
<1> DEFINE x == [client[h] EXCEPT !.said = s]
           D == {}
<1>1. client \in [Handle -> Knowledge]
  BY DEF ClientInv, TypeOK
<1>2. /\ x.db = client[h].db /\ x.parts = client[h].parts /\ x.order = client[h].order
      /\ x.styled = client[h].styled /\ x.names = client[h].names
      /\ x.changed = client[h].changed /\ x.missed = client[h].missed
      /\ x.got = client[h].got /\ x.before = client[h].before /\ x.gone = client[h].gone
  <2>1. client[h] \in Knowledge
    BY <1>1
  <2> QED
    BY <2>1 DEF Knowledge
<1>3. client' = [client EXCEPT ![h] = x]
  OBVIOUS
<1> HIDE DEF x
<1>4. client'[h] = x /\ \A g \in Handle : g # h => client'[g] = client[g]
  BY <1>1, <1>3
<1>5. ASSUME NEW g \in Handle
      PROVE  /\ SameRequest(client[g], client'[g])
             /\ client'[g].changed = client[g].changed \cup D
             /\ client'[g].missed = client[g].missed /\ client'[g].got = client[g].got
             /\ client'[g].before = client[g].before /\ client'[g].gone = client[g].gone
  <2>1. CASE g = h
    BY <1>2, <1>4, <2>1 DEF SameRequest
  <2>2. CASE g # h
    BY <1>4, <2>2 DEF SameRequest
  <2> QED
    BY <2>1, <2>2
<1> HIDE DEF D
<1> QED
  BY <1>5, SplitStays

LEMMA ChangeSplits ==
  ASSUME ClientInv, SharedInv, NEW n \in Name, Change(n)
  PROVE  SharedInv'
<1> DEFINE x(g) == [client[g] EXCEPT !.changed = @ \cup {n}]
           D == {n}
<1>1. client' = [g \in Handle |-> x(g)] /\ UNCHANGED <<cells, iter, status>>
  BY DEF Change
<1>2. ASSUME NEW g \in Handle
      PROVE  /\ SameRequest(client[g], x(g)) /\ x(g).changed = client[g].changed \cup D
             /\ x(g).missed = client[g].missed /\ x(g).got = client[g].got
             /\ x(g).before = client[g].before /\ x(g).gone = client[g].gone
  <2>1. client[g] \in Knowledge
    BY HandleIs
  <2> QED
    BY <2>1 DEF Knowledge, SameRequest
<1> HIDE DEF x, D
<1>3. \A g \in Handle : client'[g] = x(g)
  BY <1>1
<1>4. \A g \in Handle :
        /\ SameRequest(client[g], client'[g])
        /\ client'[g].changed = client[g].changed \cup D
        /\ client'[g].missed = client[g].missed /\ client'[g].got = client[g].got
        /\ client'[g].before = client[g].before /\ client'[g].gone = client[g].gone
  BY <1>2, <1>3
<1> QED
  BY <1>1, <1>4, SplitStays

\* Of a query there are no entries to split.
LEMMA TakeSplits ==
  ASSUME ClientInv, SharedInv, NEW h \in Handle, NEW k \in DOMAIN iter[h].stages, Take(h, k)
  PROVE  SharedInv'
<1> DEFINE cell == cells[iter[h].cell]
           S == iter[h].stages
           c == client[h]
           name == EntryAt(S, cell, k - 1)[1]
           T == next(S, cell, k - 1).stages
           to == next(S, cell, k - 1).cell
           U == [T EXCEPT ![k] = Parsed(@, name)]
           throws == name # S[k].file /\ ~Readable(name)
           d == IF throws THEN [c EXCEPT !.said = "error", !.missed = @ \cup {name}] ELSE c
           none == <<>>
<1>1. c.said = "asked" /\ HasEntry(S, cell, k - 1) /\ Moved(h, U, to, d)
  BY DEF Take
<1>2. status[h] = "open"
  BY <1>1, AskedIsOpen
<1>3. /\ c \in Knowledge /\ S \in Seq(Stage) /\ cell \in Cell /\ InRange(cell)
      /\ Serves(c, S, cell) /\ cell.at \in Nat
  BY <1>2, HandleIs DEF Sound, Cell
<1>4. k \in 1..Len(S) /\ k - 1 \in 0..Len(S) /\ (k - 1 = 0 \/ k - 1 > 0)
  BY <1>3
<1>5. c.parts # <<>>
  <2>1. c.parts = <<>> => S = <<>>
    BY <1>3, NoPartsNoStages
  <2> QED
    BY <1>3, <1>4, <2>1
<1>6. to \in Cell /\ Alike(cell, to) /\ cell.at <= to.at
  <2>1. CASE k - 1 = 0
    <3>1. ~AtEnd(cell) /\ to = Advance(cell)
      BY <1>1, <2>1 DEF HasEntry, next
    <3> HIDE DEF to, cell
    <3>2. to \in Cell /\ Alike(cell, to) /\ (Stays(cell, to) \/ Goes(cell, to))
      BY <1>3, <3>1, AdvanceIs
    <3> QED
      BY <1>3, <3>2 DEF Stays, Goes, Jumps, Cell
  <2>2. CASE k - 1 > 0
    <3>1. to = cell
      BY <1>4, <2>2 DEF next
    <3> HIDE DEF to, cell
    <3> QED
      BY <1>3, <3>1 DEF Alike
  <2> QED
    BY <1>4, <2>1, <2>2
<1> HIDE DEF name, T, to, U, throws
<1>7. /\ SameRequest(c, d) /\ d.changed = c.changed /\ c.missed \subseteq d.missed
      /\ d.before = c.before /\ d.gone = c.gone /\ d.got = c.got
  BY <1>3 DEF Knowledge, SameRequest
<1> HIDE DEF d, c, cell
<1>8. none \in Seq(E) /\ d.got = c.got \o none
  BY <1>3, <1>7 DEF Knowledge
<1> HIDE DEF none
<1>9. Gives(c, cell, to, none, d)
  BY <1>5 DEF Gives
<1> QED
  BY <1>1, <1>2, <1>6, <1>7, <1>8, <1>9, MovedSplits DEF c, cell

\* An entry of a corpus goes to the iterator that was asked for it.
LEMMA EntryIs ==
  ASSUME NEW c \in Knowledge, InTouch(c), NEW cell \in Cell, InRange(cell), c.parts = <<>>,
         cell.names = c.names, cell.kind = KindOf(c), Present(c, cell),
         ~AtEnd(cell), isValid(cell)
  PROVE  LET n == Order(cell)[cell.at]
         IN  /\ n \in Name /\ Place(cell, n) = cell.at
             /\ Current(cell) = <<n, Plain>> /\ cell.nth = Len(Contents(cell, n))
             /\ n \notin c.changed =>
                  Of(c, n) = <<<<n, IF c.styled THEN Styled ELSE Plain>>>>
<1> DEFINE O == Order(cell)
           n == O[cell.at]
<1>1. cell.at \in DOMAIN O /\ cell.at <= Len(O)
  <2>1. DOMAIN O = 1..Len(O) /\ Len(O) \in Nat /\ cell.at \in Nat
    BY Orders DEF Cell
  <2> QED
    BY <2>1 DEF AtEnd, InRange
<1>2. n \in Name /\ Place(cell, n) = cell.at
  BY <1>1, Orders, Places
<1>3. cell.kind # "results"
  BY DEF KindOf
<1>4. Contents(cell, n) = <<Plain>> /\ Len(<<Plain>>) = 1 /\ <<Plain>>[1] = Plain
  BY <1>3 DEF Contents
<1>5. cell.nth = 1
  <2>1. cell.nth \in 1..1
    BY <1>1, <1>4 DEF InRange
  <2> QED
    BY <2>1
<1>6. Current(cell) = <<n, Plain>>
  BY <1>4, <1>5 DEF Current
<1>7. ASSUME n \notin c.changed
      PROVE  Of(c, n) = <<<<n, IF c.styled THEN Styled ELSE Plain>>>>
  <2>1. n \in c.names
    BY <1>1, <1>7 DEF Present
  <2>2. c.db \/ n \in Xml
    BY DEF isValid, KindOf
  <2>3. Len(c.parts) = 0
    OBVIOUS
  <2>4. 1..(Len(c.parts) - 1) = {}
    BY <2>3
  <2>5. Found(c, n)
    BY <2>1, <2>2, <2>4 DEF Found
  <2> DEFINE one == <<Plain>>
             X == <<n, IF c.styled THEN Styled ELSE Plain>>
             F == [k \in DOMAIN one |-> <<n, IF c.styled THEN Styled ELSE one[k]>>]
  <2>6. Of(c, n) = F
    BY <2>5 DEF Of
  <2>7. DOMAIN one = 1..1 /\ one[1] = Plain
    OBVIOUS
  <2>8. F = [k \in 1..1 |-> X]
    <3>1. \A k \in 1..1 : k = 1
      OBVIOUS
    <3>2. \A k \in 1..1 : one[k] = Plain
      BY <2>7, <3>1
    <3> HIDE DEF one
    <3> QED
      BY <2>7, <3>2
  <2>9. <<X>> = [k \in 1..1 |-> X]
    <3> HIDE DEF X
    <3> DEFINE s == <<X>>
               f == [k \in 1..1 |-> X]
    <3>1. s \in Seq({X}) /\ Len(s) = 1 /\ s[1] = X
      OBVIOUS
    <3>2. f \in Seq({X}) /\ Len(f) = 1 /\ f[1] = X
      OBVIOUS
    <3>3. \A i \in 1..1 : i = 1
      OBVIOUS
    <3> HIDE DEF s, f
    <3>4. s = f
      BY <3>1, <3>2, <3>3, SeqEqual
    <3> QED
      BY <3>4 DEF s, f
  <2> QED
    BY <2>6, <2>8, <2>9
<1> QED
  BY <1>2, <1>4, <1>5, <1>6, <1>7

LEMMA NextSplits ==
  ASSUME ClientInv, SharedInv, NEW h \in Handle, NextEntry(h)
  PROVE  SharedInv'
<1> DEFINE cell == cells[iter[h].cell]
           S == iter[h].stages
           c == client[h]
           m == Len(S)
           T == next(S, cell, m).stages
           to == next(S, cell, m).cell
           entry == EntryAt(S, cell, m)
           given == IF iter[h].styled THEN Transformed(entry[1]) ELSE <<entry>>
           d == [c EXCEPT !.said = "nothing", !.got = @ \o given,
                          !.missed = IF given = <<>> THEN @ \cup {entry[1]} ELSE @]
           n == Order(cell)[cell.at]
           X == <<n, IF c.styled THEN Styled ELSE Plain>>
<1>1. /\ status[h] = "open" /\ c.said = "more"
      /\ HasEntry(S, cell, m) => Moved(h, T, to, d)
  BY DEF NextEntry
<1>2. /\ c \in Knowledge /\ S \in Seq(Stage) /\ cell \in Cell /\ InRange(cell)
      /\ InTouch(c) /\ Serves(c, S, cell) /\ Filled(S) /\ Present(c, cell)
      /\ Answered(c, S, cell) /\ iter[h].styled = c.styled
  BY <1>1, HandleIs DEF Sound
<1>3. cell.names = c.names /\ cell.kind = KindOf(c) /\ cell.at \in Nat
  BY <1>2 DEF Serves, Cell
<1>4. m \in Nat /\ m \in 0..m /\ (m = 0 <=> S = <<>>)
  BY <1>2
<1>5. HasEntry(S, cell, m) /\ (S = <<>> => isValid(cell)) /\ Left(S, cell, m) # <<>>
      /\ Left(S, cell, m) \in Seq(Content)
  BY <1>1, <1>2, <1>4, LeftIs DEF Answered
<1> HIDE DEF cell, S, c
<1>6. /\ Pos(S, cell, m) \in DOMAIN Order(cell)
      /\ entry = <<Order(cell)[Pos(S, cell, m)], Head(Left(S, cell, m))>>
  BY <1>2, <1>3, <1>4, <1>5, NextIs
<1>7. entry[1] \in Name /\ entry \in E
  <2>1. Head(Left(S, cell, m)) \in Content
    BY <1>5
  <2>2. Order(cell)[Pos(S, cell, m)] \in Name
    BY <1>6, Orders
  <2> HIDE DEF entry
  <2> QED
    BY <1>6, <2>1, <2>2 DEF E
<1>8. given \in Seq(E)
  <2>1. \A y \in E : <<y>> \in Seq(E)
    OBVIOUS
  <2>2. <<entry[1], Styled>> \in E /\ <<>> \in Seq(E)
    BY <1>7 DEF E, Content
  <2> HIDE DEF entry
  <2> QED
    BY <1>7, <2>1, <2>2 DEF Transformed
<1>9. /\ SameRequest(c, d) /\ d.changed = c.changed /\ c.missed \subseteq d.missed
      /\ d.before = c.before /\ d.gone = c.gone /\ d.got = c.got \o given
      /\ given = <<>> => entry[1] \in d.missed
  <2> DEFINE x == c.got \o given
             y == IF given = <<>> THEN c.missed \cup {entry[1]} ELSE c.missed
  <2>1. d = [c EXCEPT !.said = "nothing", !.got = x, !.missed = y]
    OBVIOUS
  <2>2. c.missed \subseteq y /\ (given = <<>> => entry[1] \in y)
    OBVIOUS
  <2> HIDE DEF x, y, d, given, entry
  <2>3. /\ SameRequest(c, d) /\ d.changed = c.changed /\ d.missed = y
        /\ d.before = c.before /\ d.gone = c.gone /\ d.got = x
    BY <1>2, <2>1 DEF Knowledge, SameRequest
  <2> QED
    BY <2>2, <2>3 DEF x
<1>10. m = 0 => ~AtEnd(cell) /\ to = Advance(cell) /\ entry = Current(cell)
  BY <1>5 DEF HasEntry, next, EntryAt
<1>11. m # 0 => to = cell
  BY DEF next
<1> HIDE DEF to, T, d
<1>12. m = 0 => to \in Cell /\ Alike(cell, to) /\ (Stays(cell, to) \/ Goes(cell, to))
  BY <1>2, <1>10, AdvanceIs
<1>13. to \in Cell /\ Alike(cell, to) /\ cell.at <= to.at
  <2>1. CASE m = 0
    BY <1>3, <1>12, <2>1 DEF Stays, Goes, Jumps, Cell
  <2>2. CASE m # 0
    BY <1>2, <1>3, <1>11, <2>2 DEF Alike
  <2> QED
    BY <2>1, <2>2
<1>14. ASSUME c.parts = <<>>
       PROVE  /\ n \in Name /\ Place(cell, n) = cell.at /\ Jumps(cell, to)
              /\ given = <<X>> \/ (given = <<>> /\ n \in d.missed)
              /\ n \notin c.changed => Of(c, n) = <<X>>
  <2>1. m = 0 /\ isValid(cell) /\ ~AtEnd(cell)
    BY <1>2, <1>4, <1>5, <1>10, <1>14, NoPartsNoStages
  <2>2. /\ n \in Name /\ Place(cell, n) = cell.at
        /\ Current(cell) = <<n, Plain>> /\ cell.nth = Len(Contents(cell, n))
        /\ n \notin c.changed => Of(c, n) = <<X>>
    BY <1>2, <1>3, <1>14, <2>1, EntryIs
  <2>3. Jumps(cell, to)
    <3>1. ~(cell.nth < Len(Contents(cell, n)))
      <4>1. cell.nth \in Nat
        BY <1>2 DEF Cell
      <4> HIDE DEF n
      <4> QED
        BY <2>2, <4>1
    <3> QED
      BY <1>12, <2>1, <3>1 DEF Stays, Goes
  <2>4. entry = <<n, Plain>> /\ entry[1] = n
    BY <1>10, <2>1, <2>2
  <2>5. given = <<X>> \/ given = <<>>
    <3> HIDE DEF n, entry
    <3>1. CASE iter[h].styled
      BY <1>2, <2>4, <3>1 DEF Transformed
    <3>2. CASE ~iter[h].styled
      BY <1>2, <2>4, <3>2
    <3> QED
      BY <3>1, <3>2
  <2>6. given = <<>> => n \in d.missed
    BY <1>9, <2>4
  <2> QED
    BY <2>2, <2>3, <2>5, <2>6
<1> HIDE DEF n, given, entry
<1>15. ASSUME c.parts = <<>>
       PROVE  /\ \A i \in DOMAIN given :
                   /\ Place(cell, given[i][1]) = cell.at /\ cell.at < to.at
                   /\ given[i][1] \notin c.changed => given[i] \in ToSet(Of(c, given[i][1]))
              /\ n \in NamesOf(d)
  <2>1. X[1] = n
    OBVIOUS
  <2>2. cell.at < to.at
    BY <1>3, <1>13, <1>14, <1>15 DEF Jumps, Cell
  <2> HIDE DEF X
  <2>3. CASE given = <<X>>
    <3>1. DOMAIN given = 1..1 /\ given[1] = X /\ \A i \in 1..1 : i = 1
      BY <2>3
    <3>2. X \in ToSet(<<X>>)
      <4> DEFINE s == <<X>>
      <4>1. 1 \in DOMAIN s /\ s[1] = X
        OBVIOUS
      <4> HIDE DEF s
      <4>2. X \in ToSet(s)
        BY <4>1 DEF ToSet
      <4> QED
        BY <4>2 DEF s
    <3>3. X \in ToSet(d.got)
      <4> DEFINE s == c.got
                 u == s \o given
      <4>1. s \in Seq(E) /\ given \in Seq(E) /\ 1 \in 1..Len(given) /\ Len(given) = 1
        BY <1>2, <1>8, <2>3 DEF Knowledge
      <4>2. /\ u \in Seq(E) /\ Len(u) = Len(s) + Len(given)
            /\ \A i \in 1..Len(given) : u[Len(s) + i] = given[i]
        <5>1. s \in Seq(E) /\ given \in Seq(E)
          BY <4>1
        <5> HIDE DEF s
        <5> QED
          BY ONLY <5>1, Joint
      <4>3. d.got = u
        BY <1>9
      <4> HIDE DEF s, u
      <4>4. Len(s) + 1 \in DOMAIN u /\ u[Len(s) + 1] = X
        <5>1. Len(s) \in Nat
          BY <4>1
        <5>2. DOMAIN u = 1..Len(u)
          BY <4>2
        <5> QED
          BY <3>1, <4>1, <4>2, <5>1, <5>2
      <4> QED
        BY <4>3, <4>4 DEF ToSet
    <3>4. n \in NamesOf(d)
      BY <2>1, <3>3 DEF NamesOf
    <3> QED
      BY <1>14, <1>15, <2>1, <2>2, <3>1, <3>2, <3>4
  <2>4. CASE given = <<>> /\ n \in d.missed
    <3>1. DOMAIN given = {}
      BY <2>4
    <3> QED
      BY <2>4, <3>1 DEF NamesOf
  <2> QED
    BY <1>14, <1>15, <2>3, <2>4
<1>16. ASSUME c.parts = <<>>, NEW i \in DOMAIN Order(cell), cell.at <= i, i < to.at,
              Due(c, Order(cell)[i])
       PROVE  Order(cell)[i] \in NamesOf(d)
  <2>1. i \in Nat
    BY Orders
  <2>2. CASE i = cell.at
    BY <1>15, <1>16, <2>2 DEF n
  <2>3. CASE cell.at < i
    <3>1. ~Due(c, Order(cell)[i])
      BY <1>2, <1>3, <1>14, <1>16, <2>3, SkippedIsNotDue
    <3> QED
      BY <1>16, <3>1
  <2> QED
    BY <1>3, <1>16, <2>1, <2>2, <2>3
<1>17. Moved(h, T, to, d)
  BY <1>1, <1>5 DEF T, to, d, given, entry
<1>18. Gives(c, cell, to, given, d)
  BY <1>15, <1>16 DEF Gives
<1> HIDE DEF m, X
<1> QED
  BY <1>1, <1>8, <1>9, <1>13, <1>17, <1>18, MovedSplits DEF cell, c

\* A step that moves no source and gives nothing: each iterator is after it what
\* another was before, but for the handle it has.
LEMMA SplitCarries ==
  ASSUME ClientInv, SharedInv, NEW rep,
         \A x \in Handle : status'[x] = "open" =>
           \/ SplitInv(x)'
           \/ /\ rep[x] \in Handle /\ status[rep[x]] = "open"
              /\ cells'[iter'[x].cell] = cells[iter[rep[x]].cell]
              /\ ~Shared(cells'[iter'[x].cell]) => iter'[x].cell = x
              /\ SameRequest(client[rep[x]], client'[x])
              /\ client'[x].changed = client[rep[x]].changed
              /\ client'[x].got = client[rep[x]].got
              /\ \A f \in Sharing(x)' :
                   /\ rep[f] \in Sharing(rep[x])
                   /\ SameRequest(client[rep[f]], client'[f])
                   /\ client'[f].changed = client[rep[f]].changed
                   /\ client'[f].got = client[rep[f]].got
                   /\ \/ client'[f].before = Len(client'[f].got)
                      \/ rep[f] = f /\ client'[f].before = client[f].before
              /\ x \in Sharing(x)'
              /\ \A n : Went(rep[x], n) => Went(x, n)'
  PROVE  SharedInv'
<1> SUFFICES ASSUME NEW x \in Handle, status'[x] = "open", ~(SplitInv(x)') PROVE SplitInv(x)'
  BY DEF SharedInv
<1> DEFINE h == rep[x]
           c == client[h]
           d == client'[x]
           cell == cells[iter[h].cell]
           new == cells'[iter'[x].cell]
<1>1. /\ h \in Handle /\ status[h] = "open" /\ new = cell
      /\ ~Shared(new) => iter'[x].cell = x
      /\ SameRequest(c, d) /\ d.changed = c.changed /\ d.got = c.got
      /\ x \in Sharing(x)'
      /\ \A n : Went(h, n) => Went(x, n)'
  OBVIOUS
<1>2. ASSUME NEW f \in Sharing(x)'
      PROVE  /\ rep[f] \in Sharing(h) /\ rep[f] \in Handle
             /\ SameRequest(client[rep[f]], client'[f])
             /\ client'[f].changed = client[rep[f]].changed
             /\ client'[f].got = client[rep[f]].got
             /\ \/ client'[f].before = Len(client'[f].got)
                \/ rep[f] = f /\ client'[f].before = client[f].before
  BY <1>2 DEF Sharing
<1> HIDE DEF new
<1>3. SplitInv(h) /\ c \in Knowledge
  BY <1>1, HandleIs DEF SharedInv
<1>4. c.got \in Seq(E) /\ Len(c.got) \in Nat
  BY <1>3 DEF Knowledge
<1>5. d.before <= Len(d.got)
  <2>1. c.before <= Len(c.got)
    BY <1>3 DEF SplitInv
  <2>2. d.before = Len(d.got) \/ (h = x /\ d.before = client[x].before)
    BY <1>1, <1>2
  <2> HIDE DEF d
  <2>3. CASE d.before = Len(d.got)
    BY <1>1, <1>4, <2>3
  <2>4. CASE h = x /\ d.before = client[x].before
    BY <1>1, <2>1, <2>4
  <2> QED
    BY <2>2, <2>3, <2>4
<1>6. ASSUME NEW f \in Sharing(x)' PROVE Agree(d, client'[f])
  <2>1. Agree(c, client[rep[f]])
    BY <1>2, <1>3, <1>6 DEF SplitInv
  <2>2. /\ SameRequest(client[rep[f]], client'[f])
        /\ client'[f].changed = client[rep[f]].changed
    BY <1>2, <1>6
  <2> HIDE DEF c, d
  <2> QED
    BY <1>1, <2>1, <2>2 DEF Agree, SameRequest
<1>7. d.parts = c.parts
  BY <1>1 DEF SameRequest
<1>8. ASSUME d.parts = <<>> PROVE Parted(x)'
  <2>1. Parted(h)
    BY <1>3, <1>7, <1>8 DEF SplitInv
  <2>2. \A n : Of(d, n) = Of(c, n) /\ (Due(d, n) => Due(c, n))
    <3>1. SameRequest(c, d) /\ d.changed = c.changed
      BY <1>1
    <3> HIDE DEF c, d
    <3> QED
      BY <3>1, SameRequestIs DEF Due, SameRequest
  <2>3. Listed(d, new)
    <3>1. Listed(c, cell)
      BY <2>1 DEF Parted
    <3> HIDE DEF c, d, cell
    <3> QED
      BY <1>1, <2>2, <3>1 DEF Listed
  <2>4. ASSUME NEW f \in Sharing(x)', f # x PROVE Separate(d, client'[f])
    <3> DEFINE e == client'[f]
    <3> SUFFICES ASSUME NEW i \in DOMAIN d.got, NEW j \in DOMAIN e.got,
                        i > d.before, j > e.before
                 PROVE  d.got[i] # e.got[j]
      BY DEF Separate
    <3>1. /\ rep[f] \in Sharing(h) /\ e.got = client[rep[f]].got /\ rep[f] \in Handle
          /\ e.before = Len(e.got) \/ (rep[f] = f /\ e.before = client[f].before)
      BY <1>2, <2>4
    <3>2. d.before = Len(d.got) \/ (h = x /\ d.before = client[x].before)
      BY <1>1, <1>2
    <3>3. client[rep[f]].got \in Seq(E)
      BY <3>1, HandleIs DEF Knowledge
    <3>4. i \in 1..Len(d.got) /\ Len(d.got) \in Nat /\ j \in 1..Len(e.got) /\ Len(e.got) \in Nat
      <4>1. d.got \in Seq(E) /\ e.got \in Seq(E)
        BY <1>1, <1>4, <3>1, <3>3
      <4> HIDE DEF d, e
      <4> QED
        BY <4>1
    <3>5. d.before # Len(d.got) /\ e.before # Len(e.got)
      <4> HIDE DEF d, e
      <4> QED
        BY <3>4
    <3>6. h = x /\ d.before = c.before /\ rep[f] = f /\ e.before = client[f].before
      BY <3>1, <3>2, <3>5
    <3>7. Separate(c, client[f]) /\ d.got = c.got /\ e.got = client[f].got
      BY <1>1, <2>1, <2>4, <3>1, <3>6 DEF Parted
    <3> HIDE DEF d, e, c
    <3> QED
      BY <3>6, <3>7 DEF Separate
  <2>5. ASSUME NEW i \in DOMAIN Order(new), i < new.at, Due(d, Order(new)[i])
        PROVE  \/ Order(new)[i] \in d.gone
               \/ \E f \in Sharing(x)' : Order(new)[i] \in NamesOf(client'[f])
    <3>1. Went(h, Order(cell)[i])
      BY <1>1, <2>1, <2>2, <2>5 DEF Parted
    <3>2. Order(new)[i] = Order(cell)[i]
      BY <1>1
    <3>3. \A n : Went(h, n) => n \in d.gone \/ \E f \in Sharing(x)' : n \in NamesOf(client'[f])
      <4>1. \A n : Went(h, n) => Went(x, n)'
        BY <1>1
      <4> HIDE DEF h
      <4> QED
        BY <4>1 DEF Went
    <3> QED
      BY <3>1, <3>2, <3>3
  <2>6. \A f \in Sharing(x)' : f # x => Separate(d, client'[f])
    BY <2>4
  <2> QED
    BY <2>3, <2>5, <2>6 DEF Parted, Went, new
<1> QED
  BY <1>1, <1>5, <1>6, <1>8 DEF SplitInv, new

\* Who has the source of a list for itself.
LEMMA ListHasOne ==
  ASSUME SharedInv, NEW h \in Handle, status[h] = "open", ~Shared(cells[iter[h].cell]),
         NEW g \in Sharing(h)
  PROVE  g = h /\ iter[h].cell = h
<1>1. g \in Handle /\ status[g] = "open" /\ iter[g].cell = iter[h].cell
  BY DEF Sharing
<1> QED
  BY <1>1 DEF SharedInv, SplitInv

\* No iterator has the cell of an unused handle.
LEMMA UnusedCell ==
  ASSUME ClientInv, NEW h \in Handle, status[h] = "open", NEW g \in Handle, status[g] = "unused"
  PROVE  iter[h].cell # g /\ h # g
BY HandleIs

LEMMA CopySplits ==
  ASSUME ClientInv, SharedInv, NEW h \in Handle, NEW g \in Handle, CopyIter(h, g)
  PROVE  SharedInv'
<1> DEFINE cell == cells[iter[h].cell]
           copied == [client[h] EXCEPT !.before = Len(client[h].got)]
           own == [iter[h] EXCEPT !.cell = g]
           rep == [x \in Handle |-> IF x = g THEN h ELSE x]
<1>1. /\ status[h] = "open" /\ status[g] = "unused" /\ g # h
      /\ status' = [status EXCEPT ![g] = "open"]
      /\ cells' = IF Shared(cell) THEN cells ELSE [cells EXCEPT ![g] = cell]
      /\ iter' = [iter EXCEPT ![g] = IF Shared(cell) THEN iter[h] ELSE own]
      /\ client' = [client EXCEPT ![g] = copied, ![h] = copied]
  BY DEF CopyIter
<1>2. /\ status \in [Handle -> {"unused", "open", "destroyed"}] /\ cells \in [Handle -> Cell]
      /\ iter \in [Handle -> Iterator] /\ client \in [Handle -> Knowledge]
  BY DEF ClientInv, TypeOK
<1>3. /\ copied.db = client[h].db /\ copied.parts = client[h].parts
      /\ copied.order = client[h].order /\ copied.styled = client[h].styled
      /\ copied.names = client[h].names /\ copied.changed = client[h].changed
      /\ copied.missed = client[h].missed /\ copied.got = client[h].got
      /\ copied.gone = client[h].gone /\ copied.before = Len(copied.got)
  <2> DEFINE y == Len(client[h].got)
  <2>1. client[h] \in Knowledge /\ copied = [client[h] EXCEPT !.before = y]
    BY <1>2
  <2>2. client[h].got = client[h].got
    OBVIOUS
  <2> HIDE DEF y, copied
  <2>3. /\ copied.db = client[h].db /\ copied.parts = client[h].parts
        /\ copied.order = client[h].order /\ copied.styled = client[h].styled
        /\ copied.names = client[h].names /\ copied.changed = client[h].changed
        /\ copied.missed = client[h].missed /\ copied.got = client[h].got
        /\ copied.gone = client[h].gone /\ copied.before = y
    BY <2>1 DEF Knowledge
  <2> QED
    BY <2>3 DEF y
<1>4. own.cell = g
  BY <1>2 DEF Iterator
<1> HIDE DEF copied, own
<1>5. /\ client'[g] = copied /\ client'[h] = copied
      /\ \A x \in Handle : x # g /\ x # h => client'[x] = client[x]
      /\ \A x \in Handle : x # g => iter'[x] = iter[x] /\ status'[x] = status[x]
      /\ status'[g] = "open"
      /\ iter'[g].cell = IF Shared(cell) THEN iter[h].cell ELSE g
  BY <1>1, <1>2, <1>4
<1>6. ASSUME NEW x \in Handle, status'[x] = "open"
      PROVE  /\ rep[x] \in Handle /\ status[rep[x]] = "open"
             /\ SameRequest(client[rep[x]], client'[x])
             /\ client'[x].changed = client[rep[x]].changed
             /\ client'[x].got = client[rep[x]].got
             /\ client'[x].missed = client[rep[x]].missed
             /\ client'[x].gone = client[rep[x]].gone
             /\ \/ client'[x].before = Len(client'[x].got)
                \/ rep[x] = x /\ client'[x].before = client[x].before
  <2>1. CASE x = g
    <3>1. rep[x] = h /\ client'[x] = copied
      BY <1>5, <2>1
    <3> QED
      BY <1>1, <1>3, <3>1 DEF SameRequest
  <2>2. CASE x = h
    <3>1. rep[x] = h /\ client'[x] = copied
      BY <1>1, <1>5, <2>2
    <3> QED
      BY <1>1, <1>3, <3>1 DEF SameRequest
  <2>3. CASE x # g /\ x # h
    <3>1. rep[x] = x /\ client'[x] = client[x] /\ status[x] = "open"
      BY <1>5, <1>6, <2>3
    <3> QED
      BY <3>1 DEF SameRequest
  <2> QED
    BY <2>1, <2>2, <2>3
<1>7. /\ rep[g] = h /\ \A x \in Handle : x # g => rep[x] = x
  OBVIOUS
<1>8. ASSUME NEW x \in Handle, x # g, status'[x] = "open"
      PROVE  cells'[iter[x].cell] = cells[iter[x].cell] /\ iter[x].cell # g
  <2>1. status[x] = "open" /\ iter[x].cell \in Handle
    BY <1>5, <1>8, HandleIs
  <2>2. iter[x].cell # g
    BY <1>1, <2>1, UnusedCell
  <2> QED
    BY <1>1, <1>2, <2>1, <2>2
<1>9. ASSUME NEW x \in Handle, status'[x] = "open"
      PROVE  /\ cells'[iter'[x].cell] = cells[iter[rep[x]].cell]
             /\ ~Shared(cells'[iter'[x].cell]) => iter'[x].cell = x
             /\ \A f \in Sharing(x)' : rep[f] \in Sharing(rep[x])
             /\ \A n : Went(rep[x], n) => Went(x, n)'
  <2>0. \A f \in Sharing(x)' : f \in Handle /\ status'[f] = "open" /\ iter'[f].cell = iter'[x].cell
    BY DEF Sharing
  <2>00. \A f \in Handle : status'[f] = "open" /\ iter'[f].cell = iter'[x].cell => f \in Sharing(x)'
    BY DEF Sharing
  <2>1. CASE Shared(cell)
    <3>1. \A f \in Handle : status'[f] = "open" => iter'[f].cell = iter[rep[f]].cell
      BY <1>5, <1>7, <2>1
    <3>2. cells'[iter'[x].cell] = cells[iter[rep[x]].cell]
      BY <1>1, <1>9, <2>1, <3>1
    <3>3. ~Shared(cells'[iter'[x].cell]) => iter'[x].cell = x
      <4>1. CASE x = g
        BY <1>7, <2>1, <3>2, <4>1
      <4>2. CASE x # g
        <5>1. status[x] = "open" /\ rep[x] = x
          BY <1>5, <1>7, <1>9, <4>2
        <5> QED
          BY <1>9, <3>1, <3>2, <5>1 DEF SharedInv, SplitInv
      <4> QED
        BY <4>1, <4>2
    <3>4. ASSUME NEW f \in Sharing(x)' PROVE rep[f] \in Sharing(rep[x])
      BY <1>6, <1>9, <2>0, <3>1, <3>4 DEF Sharing
    <3>5. ASSUME NEW n, Went(rep[x], n) PROVE Went(x, n)'
      <4>1. CASE n \in client[rep[x]].gone
        BY <1>6, <1>9, <4>1 DEF Went
      <4>2. CASE \E f \in Sharing(rep[x]) : n \in NamesOf(client[f])
        <5>1. PICK f \in Sharing(rep[x]) : n \in NamesOf(client[f])
          BY <4>2
        <5>2. f \in Handle /\ status[f] = "open" /\ f # g /\ iter[f].cell = iter[rep[x]].cell
          BY <1>1 DEF Sharing
        <5>3. status'[f] = "open" /\ rep[f] = f
          BY <1>5, <1>7, <5>2
        <5>4. f \in Sharing(x)'
          BY <1>9, <2>00, <3>1, <5>2, <5>3
        <5>5. n \in NamesOf(client'[f])
          BY <1>6, <5>1, <5>2, <5>3 DEF NamesOf
        <5> QED
          BY <5>4, <5>5 DEF Went
      <4> QED
        BY <3>5, <4>1, <4>2 DEF Went
    <3> QED
      BY <3>2, <3>3, <3>4, <3>5
  <2>2. CASE ~Shared(cell)
    <3>1. iter'[g].cell = g /\ cells'[g] = cell /\ iter[h].cell = h
      BY <1>1, <1>2, <1>5, <2>2 DEF SharedInv, SplitInv
    <3>2. CASE x = g
      <4>1. ASSUME NEW f \in Sharing(x)' PROVE f = g
        BY <1>8, <1>5, <2>0, <3>1, <3>2, <4>1
      <4>2. h \in Sharing(h) /\ rep[x] = h
        BY <1>1, <1>7, <3>2 DEF Sharing
      <4>3. ASSUME NEW n, Went(h, n) PROVE Went(x, n)'
        <5>1. CASE n \in client[h].gone
          BY <1>6, <1>9, <4>2, <5>1 DEF Went
        <5>2. CASE \E f \in Sharing(h) : n \in NamesOf(client[f])
          <6>1. n \in NamesOf(client[h])
            BY <1>1, <2>2, <5>2, ListHasOne
          <6>2. x \in Sharing(x)' /\ n \in NamesOf(client'[x])
            BY <1>6, <1>9, <2>00, <4>2, <6>1 DEF NamesOf
          <6> QED
            BY <6>2 DEF Went
        <5> QED
          BY <4>3, <5>1, <5>2 DEF Went
      <4>4. cells'[iter'[x].cell] = cells[iter[rep[x]].cell] /\ iter'[x].cell = x
        BY <3>1, <3>2, <4>2
      <4> QED
        BY <1>7, <3>2, <4>1, <4>2, <4>3, <4>4
    <3>3. CASE x # g
      <4>1. /\ rep[x] = x /\ iter'[x] = iter[x] /\ status[x] = "open"
            /\ cells'[iter[x].cell] = cells[iter[x].cell] /\ iter[x].cell # g
        BY <1>5, <1>7, <1>8, <1>9, <3>3
      <4>2. ~Shared(cells'[iter'[x].cell]) => iter'[x].cell = x
        BY <4>1 DEF SharedInv, SplitInv
      <4>3. ASSUME NEW f \in Sharing(x)' PROVE rep[f] \in Sharing(rep[x])
        <5>1. f \in Handle /\ f # g /\ status'[f] = "open" /\ iter'[f].cell = iter[x].cell
          BY <2>0, <3>1, <4>1, <4>3
        <5>2. rep[f] = f /\ status[f] = "open" /\ iter[f].cell = iter[x].cell
          BY <1>5, <1>7, <5>1
        <5> QED
          BY <4>1, <5>1, <5>2 DEF Sharing
      <4>4. ASSUME NEW n, Went(rep[x], n) PROVE Went(x, n)'
        <5>1. CASE n \in client[x].gone
          BY <1>6, <1>9, <4>1, <5>1 DEF Went
        <5>2. CASE \E f \in Sharing(x) : n \in NamesOf(client[f])
          <6>1. PICK f \in Sharing(x) : n \in NamesOf(client[f])
            BY <5>2
          <6>2. f \in Handle /\ status[f] = "open" /\ f # g /\ iter[f].cell = iter[x].cell
            BY <1>1 DEF Sharing
          <6>3. status'[f] = "open" /\ rep[f] = f /\ iter'[f] = iter[f]
            BY <1>5, <1>7, <6>2
          <6>4. f \in Sharing(x)'
            BY <2>00, <4>1, <6>2, <6>3
          <6>5. n \in NamesOf(client'[f])
            BY <1>6, <6>1, <6>2, <6>3 DEF NamesOf
          <6> QED
            BY <6>4, <6>5 DEF Went
        <5> QED
          BY <4>1, <4>4, <5>1, <5>2 DEF Went
      <4> QED
        BY <4>1, <4>2, <4>3, <4>4
    <3> QED
      BY <3>2, <3>3
  <2> QED
    BY <2>1, <2>2
<1>10. \A x \in Handle : status'[x] = "open" =>
         x \in Sharing(x)' /\ \A f \in Sharing(x)' : f \in Handle /\ status'[f] = "open"
  BY DEF Sharing
<1> HIDE DEF rep
<1> QED
  BY <1>6, <1>9, <1>10, SplitCarries

LEMMA DestroySplits ==
  ASSUME ClientInv, SharedInv, NEW h \in Handle, Destroy(h)
  PROVE  SharedInv'
<1> DEFINE none == Asked(Nothing)
           names == NamesOf(client[h])
           D(g) == [client[g] EXCEPT !.gone = @ \cup names]
           F(g) == CASE g = h -> none
                     [] g \in SameCell(h) -> D(g)
                     [] OTHER -> client[g]
           rep == [x \in Handle |-> x]
<1>1. /\ status[h] = "open"
      /\ status' = [status EXCEPT ![h] = "destroyed"]
      /\ iter' = [iter EXCEPT ![h] = Unopened(h)]
      /\ client' = [g \in Handle |-> F(g)]
      /\ cells' = IF SameCell(h) = {} THEN [cells EXCEPT ![iter[h].cell] = Closed] ELSE cells
  BY DEF Destroy
<1>2. /\ status \in [Handle -> {"unused", "open", "destroyed"}] /\ cells \in [Handle -> Cell]
      /\ iter \in [Handle -> Iterator] /\ client \in [Handle -> Knowledge]
  BY DEF ClientInv, TypeOK
<1>3. ASSUME NEW g \in Handle
      PROVE  /\ SameRequest(client[g], D(g)) /\ D(g).changed = client[g].changed
             /\ D(g).missed = client[g].missed /\ D(g).got = client[g].got
             /\ D(g).before = client[g].before /\ D(g).gone = client[g].gone \cup names
  <2>1. client[g] \in Knowledge
    BY <1>2
  <2> HIDE DEF names
  <2> QED
    BY <2>1 DEF Knowledge, SameRequest
<1> HIDE DEF D, names, none
<1>4. \A g \in Handle : g # h => F(g) = IF g \in SameCell(h) THEN D(g) ELSE client[g]
  <2>1. ASSUME NEW g \in Handle, g # h
        PROVE  F(g) = IF g \in SameCell(h) THEN D(g) ELSE client[g]
    BY <2>1
  <2> QED
    BY <2>1
<1> HIDE DEF F
<1>5. ASSUME NEW x \in Handle, status'[x] = "open"
      PROVE  /\ x # h /\ status[x] = "open" /\ iter'[x] = iter[x]
             /\ client'[x] = IF x \in SameCell(h) THEN D(x) ELSE client[x]
  BY <1>1, <1>2, <1>4, <1>5
<1>6. ASSUME NEW x \in Handle, status'[x] = "open"
      PROVE  /\ SameRequest(client[x], client'[x])
             /\ client'[x].changed = client[x].changed
             /\ client'[x].missed = client[x].missed /\ client'[x].got = client[x].got
             /\ client'[x].before = client[x].before
             /\ client[x].gone \subseteq client'[x].gone
             /\ x \in SameCell(h) => names \subseteq client'[x].gone
  <2>1. CASE x \in SameCell(h)
    <3>1. client'[x] = D(x)
      BY <1>5, <1>6, <2>1
    <3> QED
      BY <1>3, <3>1
  <2>2. CASE x \notin SameCell(h)
    <3>1. client'[x] = client[x]
      BY <1>5, <1>6, <2>2
    <3> QED
      BY <2>2, <3>1 DEF SameRequest
  <2> QED
    BY <2>1, <2>2
<1>7. ASSUME NEW x \in Handle, status'[x] = "open"
      PROVE  /\ cells'[iter'[x].cell] = cells[iter[x].cell]
             /\ ~Shared(cells'[iter'[x].cell]) => iter'[x].cell = x
  <2>1. iter[x].cell \in Handle /\ status[x] = "open" /\ iter'[x] = iter[x] /\ x # h
    BY <1>5, <1>7, HandleIs
  <2>2. iter[x].cell = iter[h].cell => SameCell(h) # {}
    BY <2>1 DEF SameCell
  <2>3. cells'[iter[x].cell] = cells[iter[x].cell]
    BY <1>1, <1>2, <2>1, <2>2
  <2> QED
    BY <2>1, <2>3 DEF SharedInv, SplitInv
<1>8. ASSUME NEW x \in Handle, status'[x] = "open"
      PROVE  /\ x \in Sharing(x)'
             /\ \A f \in Sharing(x)' : f \in Handle /\ status'[f] = "open" /\ f \in Sharing(x)
             /\ \A f \in Sharing(x) : f # h => f \in Sharing(x)'
  <2>1. x \in Sharing(x)'
    BY <1>8 DEF Sharing
  <2>2. ASSUME NEW f \in Sharing(x)'
        PROVE  f \in Handle /\ status'[f] = "open" /\ f \in Sharing(x)
    <3>1. f \in Handle /\ status'[f] = "open" /\ iter'[f].cell = iter'[x].cell
      BY <2>2 DEF Sharing
    <3>2. status[f] = "open" /\ iter'[f] = iter[f] /\ iter'[x] = iter[x]
      BY <1>5, <1>8, <3>1
    <3> QED
      BY <3>1, <3>2 DEF Sharing
  <2>3. ASSUME NEW f \in Sharing(x), f # h PROVE f \in Sharing(x)'
    <3>1. f \in Handle /\ status[f] = "open" /\ iter[f].cell = iter[x].cell
      BY <2>3 DEF Sharing
    <3>2. status'[f] = "open" /\ iter'[f] = iter[f] /\ iter'[x] = iter[x]
      BY <1>1, <1>2, <1>5, <1>8, <2>3, <3>1
    <3> QED
      BY <3>1, <3>2 DEF Sharing
  <2> QED
    BY <2>1, <2>2, <2>3
<1>9. ASSUME NEW x \in Handle, status'[x] = "open", NEW n, Went(x, n)
      PROVE  Went(x, n)'
  <2>1. CASE n \in client[x].gone
    BY <1>6, <1>9, <2>1 DEF Went
  <2>2. CASE \E f \in Sharing(x) : n \in NamesOf(client[f])
    <3>1. PICK f \in Sharing(x) : n \in NamesOf(client[f])
      BY <2>2
    <3>2. CASE f = h
      <4>1. x \in SameCell(h) /\ n \in names
        BY <1>5, <1>9, <3>1, <3>2 DEF SameCell, Sharing, names
      <4> QED
        BY <1>6, <1>9, <4>1 DEF Went
    <3>3. CASE f # h
      <4>1. f \in Sharing(x)' /\ f \in Handle /\ status'[f] = "open"
        BY <1>8, <1>9, <3>3
      <4>2. n \in NamesOf(client'[f])
        BY <1>6, <3>1, <4>1 DEF NamesOf
      <4> QED
        BY <4>1, <4>2 DEF Went
    <3> QED
      BY <3>2, <3>3
  <2> QED
    BY <1>9, <2>1, <2>2 DEF Went
<1>10. \A x \in Handle : rep[x] = x
  OBVIOUS
<1> HIDE DEF rep
<1>11. ASSUME NEW x \in Handle, status'[x] = "open"
       PROVE  /\ rep[x] \in Handle /\ status[rep[x]] = "open"
              /\ cells'[iter'[x].cell] = cells[iter[rep[x]].cell]
              /\ ~Shared(cells'[iter'[x].cell]) => iter'[x].cell = x
              /\ SameRequest(client[rep[x]], client'[x])
              /\ client'[x].changed = client[rep[x]].changed
              /\ client'[x].got = client[rep[x]].got
              /\ \A f \in Sharing(x)' :
                   /\ rep[f] \in Sharing(rep[x])
                   /\ SameRequest(client[rep[f]], client'[f])
                   /\ client'[f].changed = client[rep[f]].changed
                   /\ client'[f].got = client[rep[f]].got
                   /\ \/ client'[f].before = Len(client'[f].got)
                      \/ rep[f] = f /\ client'[f].before = client[f].before
              /\ x \in Sharing(x)'
              /\ \A n : Went(rep[x], n) => Went(x, n)'
  <2>1. rep[x] = x /\ status[x] = "open"
    BY <1>5, <1>10, <1>11
  <2>2. ASSUME NEW f \in Sharing(x)'
        PROVE  /\ rep[f] = f /\ f \in Sharing(x)
               /\ SameRequest(client[f], client'[f])
               /\ client'[f].changed = client[f].changed
               /\ client'[f].got = client[f].got
               /\ client'[f].before = client[f].before
    BY <1>6, <1>8, <1>10, <1>11, <2>2
  <2> QED
    BY <1>6, <1>7, <1>8, <1>9, <1>11, <2>1, <2>2
<1> QED
  BY <1>11, SplitCarries

LEMMA OpenSplits ==
  ASSUME ClientInv, SharedInv, NEW h \in Handle, NEW r \in Request, Open(h, r)
  PROVE  SharedInv'
<1> DEFINE q == query(r.parts, r.order)
           d == Asked(r)
           it == [cell |-> h, stages |-> q.stages, styled |-> r.styled]
           S == q.stages
           cell == q.cell
           rep == [x \in Handle |-> x]
<1>1. /\ status[h] = "unused"
      /\ status' = [status EXCEPT ![h] = "open"]
      /\ cells' = [cells EXCEPT ![h] = cell]
      /\ iter' = [iter EXCEPT ![h] = it]
      /\ client' = [client EXCEPT ![h] = d]
  BY DEF Open
<1>2. TypeOK
  BY DEF ClientInv
<1>3. d \in Knowledge /\ d.got = <<>> /\ d.before = 0 /\ InTouch(d) /\ Serves(d, S, cell)
  BY <1>2, QueryIs DEF Asked
<1>4. PICK kind \in Kind, x \in Query \cup {NoName} :
        (kind = "results" => x \in Query) /\ cell = Source(kind, x)
  BY <1>2, QueryIs
<1> DEFINE none == [kind |-> kind, query |-> x, names |-> disk, at |-> 0, nth |-> 1]
<1>5. /\ none \in Cell /\ cell \in Cell /\ InRange(cell)
      /\ Alike(none, cell) /\ Jumps(none, cell) /\ none.at = 0
  BY <1>2, <1>4, SourceIs
<1>6. it.cell = h
  OBVIOUS
<1> HIDE DEF none, cell, S, d, q, it
<1>7. /\ status'[h] = "open" /\ cells'[h] = cell /\ iter'[h] = it /\ client'[h] = d
      /\ \A g \in Handle : g # h =>
           status'[g] = status[g] /\ cells'[g] = cells[g] /\ iter'[g] = iter[g]
             /\ client'[g] = client[g]
  BY <1>1, <1>2 DEF TypeOK
<1>8. ASSUME NEW g \in Handle, g # h, status[g] = "open"
      PROVE  iter[g].cell # h /\ iter[g].cell \in Handle
  BY <1>1, <1>8, UnusedCell, HandleIs
<1>9. \A g \in Sharing(h)' : g = h
  <2>1. ASSUME NEW g \in Sharing(h)' PROVE g = h
    <3>1. g \in Handle /\ status'[g] = "open" /\ iter'[g].cell = h
      BY <1>6, <1>7, <2>1 DEF Sharing
    <3> QED
      BY <1>7, <1>8, <3>1
  <2> QED
    BY <2>1
<1>10. SplitInv(h)'
  <2>1. DOMAIN d.got = {} /\ Len(d.got) = 0
    BY <1>3
  <2>2. Listed(d, cell)
    BY <2>1 DEF Listed
  <2>3. ASSUME d.parts = <<>>, NEW i \in DOMAIN Order(cell), i < cell.at
        PROVE  ~Due(d, Order(cell)[i])
    <3>1. Order(none) = Order(cell) /\ none.names = d.names /\ none.kind = KindOf(d)
      <4>1. Order(cell) = Order(none)
        BY <1>5, AlikeIs
      <4> QED
        BY <1>3, <1>5, <4>1 DEF Alike, Serves
    <3>2. i \in DOMAIN Order(none) /\ none.at < i
      <4>1. DOMAIN Order(cell) = 1..Len(Order(cell)) /\ Len(Order(cell)) \in Nat
        BY Orders
      <4> QED
        BY <1>5, <3>1, <4>1
    <3>3. ~Due(d, Order(none)[i])
      BY <1>3, <1>5, <2>3, <3>1, <3>2, SkippedIsNotDue
    <3> QED
      BY <3>1, <3>3
  <2>4. cells'[iter'[h].cell] = cell /\ iter'[h].cell = h /\ client'[h] = d
    BY <1>6, <1>7
  <2>5. d.before <= Len(d.got)
    BY <1>3, <2>1
  <2>6. \A g \in Sharing(h)' : Agree(client'[h], client'[g])
    BY <1>9 DEF Agree
  <2>7. d.parts = <<>> => Parted(h)'
    BY <1>9, <2>2, <2>3, <2>4 DEF Parted
  <2> QED
    BY <2>4, <2>5, <2>6, <2>7 DEF SplitInv
<1>11. \A y \in Handle : rep[y] = y
  OBVIOUS
<1> HIDE DEF rep
<1>12. ASSUME NEW y \in Handle, y # h, status'[y] = "open"
       PROVE  /\ rep[y] \in Handle /\ status[rep[y]] = "open"
              /\ cells'[iter'[y].cell] = cells[iter[rep[y]].cell]
              /\ ~Shared(cells'[iter'[y].cell]) => iter'[y].cell = y
              /\ SameRequest(client[rep[y]], client'[y])
              /\ client'[y].changed = client[rep[y]].changed
              /\ client'[y].got = client[rep[y]].got
              /\ \A f \in Sharing(y)' :
                   /\ rep[f] \in Sharing(rep[y])
                   /\ SameRequest(client[rep[f]], client'[f])
                   /\ client'[f].changed = client[rep[f]].changed
                   /\ client'[f].got = client[rep[f]].got
                   /\ \/ client'[f].before = Len(client'[f].got)
                      \/ rep[f] = f /\ client'[f].before = client[f].before
              /\ y \in Sharing(y)'
              /\ \A n : Went(rep[y], n) => Went(y, n)'
  <2>1. /\ rep[y] = y /\ status[y] = "open" /\ iter'[y] = iter[y] /\ client'[y] = client[y]
        /\ iter[y].cell # h /\ iter[y].cell \in Handle
        /\ cells'[iter[y].cell] = cells[iter[y].cell]
    BY <1>7, <1>8, <1>11, <1>12
  <2>2. ASSUME NEW f \in Sharing(y)'
        PROVE  rep[f] = f /\ f \in Sharing(y) /\ client'[f] = client[f]
    <3>1. f \in Handle /\ status'[f] = "open" /\ iter'[f].cell = iter[y].cell
      BY <2>1, <2>2 DEF Sharing
    <3>2. f # h
      BY <1>6, <1>7, <2>1, <3>1
    <3> QED
      BY <1>7, <1>11, <3>1, <3>2 DEF Sharing
  <2>3. ASSUME NEW f \in Sharing(y) PROVE f \in Sharing(y)' /\ client'[f] = client[f]
    <3>1. f \in Handle /\ status[f] = "open" /\ iter[f].cell = iter[y].cell /\ f # h
      BY <1>1, <2>3 DEF Sharing
    <3> QED
      BY <1>7, <2>1, <3>1 DEF Sharing
  <2>4. ASSUME NEW n, Went(y, n) PROVE Went(y, n)'
    BY <2>1, <2>3, <2>4 DEF Went
  <2>5. ~Shared(cells'[iter'[y].cell]) => iter'[y].cell = y
    BY <2>1 DEF SharedInv, SplitInv
  <2>6. y \in Sharing(y)'
    BY <1>12 DEF Sharing
  <2> QED
    BY <2>1, <2>2, <2>4, <2>5, <2>6 DEF SameRequest
<1> QED
  BY <1>10, <1>12, SplitCarries

----------------------------------------------------------------------------
\* What the names of the corpus give, one after the other.
LEMMA PromisedIs ==
  ASSUME NEW c \in Knowledge, NEW cell, Order(cell) = OrderOf(c), NEW e
  PROVE  e \in ToSet(Promised(c)) <=>
           \E i \in DOMAIN Order(cell) : e \in ToSet(Of(c, Order(cell)[i]))
<1> DEFINE O == Order(cell)
           seqs == [i \in DOMAIN O |-> Of(c, O[i])]
<1>1. /\ O \in Seq(Name) /\ Len(O) \in Nat /\ DOMAIN O = 1..Len(O)
      /\ \A i \in DOMAIN O : O[i] \in Name
  BY Orders
<1>2. \A n \in Name : Of(c, n) \in Seq(E)
  BY OfType
<1>3. Promised(c) = FlattenSeq(seqs)
  BY DEF Promised
<1>4. /\ seqs \in Seq(Seq(E)) /\ Len(seqs) = Len(O)
      /\ \A i \in 1..Len(O) : seqs[i] = Of(c, O[i])
  <2> HIDE DEF O
  <2> QED
    BY <1>1, <1>2
<1> HIDE DEF O, seqs
<1>5. /\ FlattenSeq(seqs) \in Seq(E)
      /\ \A i \in 1..Len(FlattenSeq(seqs)) :
           \E j \in 1..Len(seqs) : \E k \in 1..Len(seqs[j]) : FlattenSeq(seqs)[i] = seqs[j][k]
  BY <1>4, FlatFromParts
<1>6. ASSUME e \in ToSet(Promised(c))
      PROVE  \E i \in DOMAIN O : e \in ToSet(Of(c, O[i]))
  <2>1. PICK i \in 1..Len(FlattenSeq(seqs)) : e = FlattenSeq(seqs)[i]
    BY <1>3, <1>5, <1>6 DEF ToSet
  <2>2. PICK j \in 1..Len(seqs) : \E k \in 1..Len(seqs[j]) : e = seqs[j][k]
    BY <1>5, <2>1
  <2>3. j \in DOMAIN O /\ seqs[j] = Of(c, O[j]) /\ seqs[j] \in Seq(E)
    BY <1>1, <1>4
  <2>4. e \in ToSet(seqs[j])
    BY <2>2, <2>3 DEF ToSet
  <2> QED
    BY <2>3, <2>4
<1>7. ASSUME NEW i \in DOMAIN O, e \in ToSet(Of(c, O[i])) PROVE e \in ToSet(Promised(c))
  <2>1. i \in 1..Len(seqs) /\ seqs[i] = Of(c, O[i]) /\ seqs[i] \in Seq(E)
    BY <1>1, <1>4
  <2>2. PICK k \in 1..Len(seqs[i]) : e = seqs[i][k]
    BY <1>7, <2>1 DEF ToSet
  <2>3. PICK j \in 1..Len(FlattenSeq(seqs)) : FlattenSeq(seqs)[j] = seqs[i][k]
    BY <1>4, <2>1, PartsInFlat
  <2> QED
    BY <1>3, <1>5, <2>2, <2>3 DEF ToSet
<1> QED
  BY <1>6, <1>7 DEF O

LEMMA EntriesAreSplit ==
  ASSUME ClientInv, SharedInv, NEW h \in Handle, status[h] = "open", client[h].parts = <<>>
  PROVE  LET c == client[h]
             sharers == SameCell(h) \cup {h}
             Since(d) == {d.got[i] : i \in (d.before + 1)..Len(d.got)}
             unsure == c.changed \cup c.gone \cup UNION {client[g].missed : g \in sharers}
             Sure(entries) == {e \in entries : e[1] \notin unsure}
         IN  /\ \A g \in SameCell(h) : Since(c) \cap Since(client[g]) = {}
             /\ c.said = "end" =>
                  Sure(UNION {ToSet(client[g].got) : g \in sharers}) = Sure(ToSet(Promised(c)))
<1> DEFINE c == client[h]
           cell == cells[iter[h].cell]
           O == Order(cell)
           sharers == SameCell(h) \cup {h}
           Since(d) == {d.got[i] : i \in (d.before + 1)..Len(d.got)}
           unsure == c.changed \cup c.gone \cup UNION {client[g].missed : g \in sharers}
           all == UNION {ToSet(client[g].got) : g \in sharers}
<1>1. /\ c \in Knowledge /\ cell \in Cell /\ Serves(c, iter[h].stages, cell)
      /\ Answered(c, iter[h].stages, cell) /\ Parted(h)
  BY HandleIs DEF Sound, SharedInv, SplitInv
<1>2. sharers = Sharing(h) /\ \A g \in SameCell(h) : g \in Sharing(h) /\ g # h
  BY DEF SameCell, Sharing
<1>3. ASSUME NEW g \in Sharing(h)
      PROVE  /\ client[g].got \in Seq(E) /\ client[g].before \in Nat
             /\ \A e \in ToSet(client[g].got) :
                  e[1] \in Name /\ (e[1] \notin c.changed => e \in ToSet(Of(c, e[1])))
  <2>1. /\ g \in Handle /\ status[g] = "open" /\ iter[g].cell = iter[h].cell
        /\ client[g].parts = <<>> /\ client[g].changed = c.changed
        /\ \A n : Of(client[g], n) = Of(c, n)
    BY <1>3, SharersAre
  <2>2. client[g].got \in Seq(E) /\ client[g].before \in Nat
    BY <2>1, HandleIs DEF Knowledge
  <2>3. Listed(client[g], cell)
    BY <2>1 DEF SharedInv, SplitInv, Parted
  <2>4. ASSUME NEW e \in ToSet(client[g].got)
        PROVE  e[1] \in Name /\ (e[1] \notin c.changed => e \in ToSet(Of(c, e[1])))
    <3>1. PICK i \in DOMAIN client[g].got : e = client[g].got[i]
      BY <2>4 DEF ToSet
    <3>2. e \in E
      BY <2>2, <3>1
    <3>3. e[1] \in Name
      BY <3>2 DEF E
    <3> QED
      BY <2>1, <2>3, <3>1, <3>3 DEF Listed
  <2> QED
    BY <2>2, <2>4
<1>4. ASSUME NEW g \in SameCell(h) PROVE Since(c) \cap Since(client[g]) = {}
  <2> DEFINE d == client[g]
  <2>1. Separate(c, d)
    BY <1>1, <1>2 DEF Parted
  <2>2. /\ c.got \in Seq(E) /\ c.before \in Nat /\ d.got \in Seq(E) /\ d.before \in Nat
    BY <1>2, <1>3
  <2>3. SUFFICES ASSUME NEW e \in Since(c), e \in Since(d) PROVE FALSE
    OBVIOUS
  <2>4. PICK i \in (c.before + 1)..Len(c.got) : e = c.got[i]
    BY <2>3
  <2>5. PICK j \in (d.before + 1)..Len(d.got) : e = d.got[j]
    BY <2>3
  <2> HIDE DEF c, d
  <2>6. i \in DOMAIN c.got /\ i > c.before /\ j \in DOMAIN d.got /\ j > d.before
    BY <2>2
  <2> QED
    BY <2>1, <2>4, <2>5, <2>6 DEF Separate
<1>5. ASSUME c.said = "end", NEW e, e[1] \notin unsure
      PROVE  e \in all <=> e \in ToSet(Promised(c))
  <2>1. O = OrderOf(c) /\ AtEnd(cell)
    BY <1>1, <1>5, OrderIs DEF Answered
  <2>2. e \in ToSet(Promised(c)) <=> \E i \in DOMAIN O : e \in ToSet(Of(c, O[i]))
    BY <1>1, <2>1, PromisedIs
  <2>3. ASSUME e \in all PROVE e \in ToSet(Promised(c))
    <3>1. PICK g \in Sharing(h) : e \in ToSet(client[g].got)
      BY <1>2, <2>3
    <3>2. e[1] \in Name /\ e \in ToSet(Of(c, e[1]))
      BY <1>3, <1>5, <3>1
    <3>3. PICK i \in DOMAIN O : O[i] = e[1]
      <4>1. \A n \in Name : \E i \in DOMAIN O : O[i] = n
        BY Orders
      <4> HIDE DEF O
      <4> QED
        BY <3>2, <4>1
    <3> QED
      BY <2>2, <3>2, <3>3
  <2>4. ASSUME e \in ToSet(Promised(c)) PROVE e \in all
    <3>1. PICK i \in DOMAIN O : e \in ToSet(Of(c, O[i]))
      BY <2>2, <2>4
    <3> DEFINE n == O[i]
               X == <<n, IF c.styled THEN Styled ELSE Plain>>
    <3>2. n \in Name
      BY Orders
    <3>3. Found(c, n) /\ \A y \in ToSet(Of(c, n)) : y = X
      <4> DEFINE one == <<Plain>>
      <4>1. Found(c, n)
        <5>1. ToSet(<<>>) = {}
          BY DEF ToSet
        <5> QED
          BY <3>1, <5>1 DEF Of
      <4>2. Of(c, n) = [k \in DOMAIN one |-> <<n, IF c.styled THEN Styled ELSE one[k]>>]
        BY <4>1 DEF Of
      <4>3. \A k \in DOMAIN one : one[k] = Plain
        OBVIOUS
      <4> HIDE DEF one
      <4>4. \A k \in DOMAIN Of(c, n) : Of(c, n)[k] = X
        BY <4>2, <4>3
      <4> QED
        BY <4>1, <4>4 DEF ToSet
    <3>4. e = X /\ e[1] = n
      BY <3>1, <3>3
    <3>5. Due(c, n)
      BY <1>5, <3>2, <3>3, <3>4 DEF Found, Due
    <3>6. i < cell.at
      <4>1. DOMAIN O = 1..Len(O) /\ Len(O) \in Nat /\ cell.at \in Nat
        BY <1>1, Orders DEF Cell
      <4>2. cell.at > Len(O)
        BY <2>1 DEF AtEnd
      <4> HIDE DEF O
      <4> QED
        BY <4>1, <4>2
    <3>7. Went(h, n)
      BY <1>1, <3>5, <3>6 DEF Parted
    <3>8. PICK g \in Sharing(h) : n \in NamesOf(client[g])
      BY <1>5, <3>4, <3>7 DEF Went
    <3>9. n \notin client[g].missed
      BY <1>2, <1>5, <3>4
    <3>10. PICK y \in ToSet(client[g].got) : y[1] = n
      BY <3>8, <3>9 DEF NamesOf
    <3>11. y = X
      <4>1. n \notin c.changed
        BY <1>5, <3>4
      <4> QED
        BY <1>3, <3>3, <3>10, <4>1
    <3> QED
      BY <1>2, <3>4, <3>10, <3>11
  <2> QED
    BY <2>3, <2>4
<1> QED
  BY <1>4, <1>5

LEMMA SharedInit ==
  ASSUME InitClient
  PROVE  SharedInv
BY DEF InitClient, SharedInv

LEMMA SharedNext ==
  ASSUME ClientInv, SharedInv, [ClientStep]_clientVars
  PROVE  SharedInv'
<1>1. ASSUME NEW h \in Handle, NEW r \in Request, Open(h, r) PROVE SharedInv'
  BY <1>1, OpenSplits
<1>2. ASSUME NEW h \in Handle, HasNext(h) PROVE SharedInv'
  <2>1. client' = [client EXCEPT ![h].said = "asked"] /\ UNCHANGED <<cells, iter, status>>
    BY <1>2 DEF HasNext
  <2> QED
    BY <2>1, AnswerSplits
<1>3. ASSUME NEW h \in Handle, NextEntry(h) PROVE SharedInv'
  BY <1>3, NextSplits
<1>4. ASSUME NEW h \in Handle, Destroy(h) PROVE SharedInv'
  BY <1>4, DestroySplits
<1>5. ASSUME NEW h \in Handle, NEW g \in Handle, CopyIter(h, g) PROVE SharedInv'
  BY <1>5, CopySplits
<1>6. ASSUME NEW h \in Handle, PassOver(h) PROVE SharedInv'
  BY <1>6, PassOverSplits
<1>7. ASSUME NEW h \in Handle, Answer(h) PROVE SharedInv'
  <2> DEFINE more == /\ HasEntry(iter[h].stages, cells[iter[h].cell], Len(iter[h].stages))
                     /\ (iter[h].stages = <<>> => isValid(cells[iter[h].cell]))
             s == IF more THEN "more" ELSE "end"
  <2>1. client' = [client EXCEPT ![h].said = s] /\ UNCHANGED <<cells, iter, status>>
    BY <1>7 DEF Answer
  <2> HIDE DEF s
  <2> QED
    BY <2>1, AnswerSplits
<1>8. ASSUME NEW h \in Handle, NEW k \in DOMAIN iter[h].stages, Take(h, k) PROVE SharedInv'
  BY <1>8, TakeSplits
<1>9. ASSUME NEW n \in Name, Change(n) PROVE SharedInv'
  BY <1>9, ChangeSplits
<1>10. ASSUME UNCHANGED <<cells, iter, status, client>> PROVE SharedInv'
  <2> DEFINE D == {}
  <2>1. UNCHANGED <<cells, iter, status>>
    BY <1>10
  <2>2. \A g \in Handle :
          /\ SameRequest(client[g], client'[g])
          /\ client'[g].changed = client[g].changed \cup D
          /\ client'[g].missed = client[g].missed /\ client'[g].got = client[g].got
          /\ client'[g].before = client[g].before /\ client'[g].gone = client[g].gone
    BY <1>10 DEF SameRequest
  <2> HIDE DEF D
  <2> QED
    BY <2>1, <2>2, SplitStays
<1>11. ASSUME Size PROVE SharedInv'
  BY <1>10, <1>11 DEF Size
<1>12. CASE ClientStep
  BY <1>1, <1>2, <1>3, <1>4, <1>5, <1>6, <1>7, <1>8, <1>9, <1>11, <1>12 DEF ClientStep
<1>13. CASE UNCHANGED clientVars
  BY <1>10, <1>13 DEF clientVars
<1> QED
  BY <1>12, <1>13

\* Copies of an iterator that share its source split what was left of it: no entry
\* goes to two of them, and at the end each went to one, those hidden by an exception
\* or of names that came or went apart, whoever asks, whoever is destroyed, and
\* whatever the directory does meanwhile.
THEOREM CopiesSplit == ClientSpec => []SharedIsSplit
<1>1. InitClient => SharedInv
  BY SharedInit
<1>2. ClientInv /\ SharedInv /\ [ClientStep]_clientVars => SharedInv'
  BY SharedNext
<1>3. ASSUME ClientInv, SharedInv PROVE SharedIsSplit
  BY <1>3, EntriesAreSplit DEF SharedIsSplit
<1> QED
  BY <1>1, <1>2, <1>3, ClientInvariant, PTL DEF ClientSpec
=============================================================================
