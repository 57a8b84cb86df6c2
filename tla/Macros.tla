------------------------------- MODULE Macros -------------------------------
(***************************************************************************)
(* Query macros: the file they are read from, parseMacros, and their       *)
(* replacement in a query, expandMacros.  The parser is the table driven   *)
(* automaton that Ragel generated: Transition has its tables, the embedded *)
(* actions are taken by the transitions that carry them.                   *)
(*                                                                         *)
(* Characters are their codes.  The macros are a function from the names   *)
(* to the queries.                                                         *)
(***************************************************************************)
EXTENDS NameOrder, TLC

VARIABLES
  data,   \* the file
  p,      \* the character read next
  st      \* the automaton: its state and what its actions keep

Percent == 37
Quote   == 34
Space   == {9, 10, 13, 32}
KeyChar == (48..57) \union (65..90) \union (97..122) \union {95}
Char    == 0..255

\* The states, the characters and the state they lead to.
Transition == <<
  <<{1, 16},                   Space,          1>>,
  <<{1, 16, 17, 18, 19, 20},   {35},           2>>,
  <<{1, 3, 16, 17, 18, 19, 20}, KeyChar,       3>>,
  <<{2},                       {10},           1>>,
  <<{2},                       Char \ {10},    2>>,
  <<{3, 4},                    Space,          4>>,
  <<{3, 4},                    {61},           5>>,
  <<{5},                       Space,          5>>,
  <<{5},                       {Quote},        6>>,
  <<{6},                       {Quote},        7>>,
  <<{7},                       {Quote},        8>>,
  <<{8, 9},                    {Quote},       10>>,
  <<{10},                      {Quote},       11>>,
  <<{11},                      {Quote},       17>>,
  <<8..11,                     {Percent},     12>>,
  <<8..11,                     Char \ {Quote, Percent}, 9>>,
  <<{12, 13},                  {Quote},       14>>,
  <<{14},                      {Quote},       15>>,
  <<12..15,                    Char \ {Quote, Percent}, 13>>,
  <<13..15,                    {Percent},      9>>,
  <<17..20,                    Space,         18>>,
  <<{17},                      {Quote},       19>>,
  <<{19},                      {Quote},       20>> >>

Rows(q, c) ==
  {i \in DOMAIN Transition : q \in Transition[i][1] /\ c \in Transition[i][2]}

\* Variant: two quotes close a query.
TargetTwoQuotes(q, c) ==
  CASE Rows(q, c) = {} -> 0
    [] q = 10 /\ c = Quote -> 17
    [] OTHER -> Transition[CHOOSE i \in Rows(q, c) : TRUE][3]

\* State 0, the error, when no row has the character.
Target(q, c) ==
  IF Rows(q, c) = {} THEN 0 ELSE Transition[CHOOSE i \in Rows(q, c) : TRUE][3]

macros_start == 16
macros_first_final == 16

Closing == {17, 19, 20}   \* three quotes or more were read

\* A reference of a query, replaced if its macro is defined.
replace(macros, query, s) ==
  IF s.macro \notin DOMAIN macros THEN query
  ELSE SubSeq(query, 1, s.begin) \o macros[s.macro]
         \o SubSeq(query, s.begin + s.n + 1, Len(query))

\* Variant: the references are replaced from the first to the last.
queryEndForward(s, end) ==
  LET query == SubSeq(data, s.strStart, end - 4)
      Apply(q, r) == replace(s.macros, q, r)
  IN  [s EXCEPT !.macros = (s.key :> FoldLeft(Apply, query, s.substitutions)) @@ @,
                 !.substitutions = <<>>]

\* The last reference is replaced first: the places of the others still hold.
\* The query ends before the last three quotes.
queryEnd(s, end) ==
  LET query == SubSeq(data, s.strStart, end - 4)
      Apply(r, q) == replace(s.macros, q, r)
  IN  [s EXCEPT !.macros = (s.key :> FoldRight(Apply, s.substitutions, query)) @@ @,
                 !.substitutions = <<>>]

lastKey(s) == [s EXCEPT !.key = s.buf, !.buf = <<>>]

substEnd(s) ==
  [s EXCEPT !.substitutions =
     Append(@, [begin |-> s.substStart - s.strStart - 1, n |-> p - s.substStart + 2,
                macro |-> SubSeq(data, s.substStart, p - 1)])]

\* The automaton after the next character.
step(s) ==
  LET c == data[p]
      q == s.cs
      r == Target(q, c)
      ended == IF q \in Closing /\ r \notin {0} \union Closing
               THEN queryEnd(s, p) ELSE s
      acted == CASE r = 3 -> [ended EXCEPT !.buf = Append(@, c)]
                 [] q = 3 /\ r \in {4, 5} -> lastKey(ended)
                 [] q = 8 -> [ended EXCEPT !.strStart = p]
                 [] q = 12 /\ r # 0 -> [ended EXCEPT !.substStart = p]
                 [] q \in 13..15 /\ c = Percent -> substEnd(ended)
                 [] OTHER -> ended
  IN  [acted EXCEPT !.cs = r]

StartState ==
  [cs |-> macros_start, buf |-> <<>>, key |-> <<>>, strStart |-> 1,
   substStart |-> 0, substitutions |-> <<>>, macros |-> <<>>]

InitMacros(text) == data = text /\ p = 1 /\ st = StartState

\* A round of the loop; the error stops it.
ReadCharacter ==
  /\ st.cs # 0
  /\ p <= Len(data)
  /\ st' = step(st)
  /\ p' = p + 1
  /\ UNCHANGED data

\* A file that ends before the next character is accepted, and its macros.
accepted == st.cs >= macros_first_final

parsed == IF st.cs \in Closing THEN queryEnd(st, p).macros ELSE st.macros

\* boost::replace_all: from left to right, what was put in is not read again.
replace_all(s, old, new) ==
  LET At(acc, i) ==
        CASE acc.skip > 0 -> [acc EXCEPT !.skip = @ - 1]
          [] acc.skip = 0 /\ i + Len(old) - 1 <= Len(s)
               /\ SubSeq(s, i, i + Len(old) - 1) = old ->
               [out |-> acc.out \o new, skip |-> Len(old) - 1]
          [] OTHER -> [acc EXCEPT !.out = Append(@, s[i])]
  IN  FoldLeft(At, [out |-> <<>>, skip |-> 0], [i \in 1..Len(s) |-> i]).out

Marked(name) == <<Percent>> \o name \o <<Percent>>

\* Variant: the name is replaced with the marker before it only.
expandHalf(macros, query) ==
  FoldLeft(LAMBDA q, k : replace_all(q, <<Percent>> \o k, macros[k]), query,
           SetToSortSeq(DOMAIN macros, LessString))

\* The names are gone through in the order of the map.
expandMacros(macros, query) ==
  FoldLeft(LAMBDA q, k : replace_all(q, Marked(k), macros[k]), query,
           SetToSortSeq(DOMAIN macros, LessString))
=============================================================================
