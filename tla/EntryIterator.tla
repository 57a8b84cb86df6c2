--------------------------- MODULE EntryIterator ---------------------------
(***************************************************************************)
(* The iterators a corpus reader hands out, for a directory of files and   *)
(* for a DB XML container: the sources, the queries run over them one      *)
(* after the other (FilterIter, here on one thread; FilterIter.tla has its *)
(* interrupts), and the stylesheet on top (StylesheetIter).                *)
(*                                                                         *)
(* A source goes through the names there were when it was opened, in its   *)
(* order.  Copies of some share their position, so that sources are in     *)
(* `cells', and an iterator has the number of its cell.  The kinds:        *)
(*   walk       DirIter: of a directory, which is read on the way          *)
(*   list       SortedDirIter: of a directory, in the iterator's memory    *)
(*   container  DbIter                                                     *)
(*   results    QueryIter: what a query finds in a container               *)
(*                                                                         *)
(* Over it are the stages, one for a query: the name of the last file it   *)
(* parsed, and the results it has left.  An entry is a pair of name and    *)
(* contents.  Level 0 is the source, level k stage k.                      *)
(***************************************************************************)
EXTENDS Integers, Sequences, FiniteSets, SequencesExt, TLC

CONSTANTS
  Name,       \* of what a directory may hold, or a container
  Natural,    \* all of them, in the order the directory lists them
  Numerical,  \* the same in the order of NameCompare
  Xml,        \* those that end in .xml
  Regular,    \* those that are regular files
  Query,
  Result,     \* what a query may find
  Hits,       \* the results of a query in a document, in order
  NoName,     \* no entry, no query; the empty d_file
  Plain,      \* the contents of an entry of no query
  Styled      \* the contents a stylesheet made

Lists(names) == names \in Seq(Name) /\ ToSet(names) = Name /\ IsInjective(names)

ASSUME IteratorAssumption ==
  /\ Xml \subseteq Name /\ Regular \subseteq Name /\ NoName \notin Name
  /\ Lists(Natural) /\ Lists(Numerical)
  /\ Hits \in [Query -> [Name -> Seq(Result)]]

VARIABLES
  db,    \* the corpus is a container, not a directory
  disk,  \* the names in it now
  live   \* a walk sees files come and go; else what there was when it began

\* readEntry, and readFile of a directory: whether it throws.
Readable(n) == db \/ n \in disk \cap Regular

Order(c) == IF c.kind = "list" THEN Numerical ELSE Natural

\* The contents of the entries a source has for a name.
Contents(c, n) == IF c.kind = "results" THEN Hits[c.query][n] ELSE <<Plain>>

Sees(c, n) ==
  /\ n \in IF c.kind = "walk" /\ live THEN disk ELSE c.names
  /\ Contents(c, n) # <<>>

\* What a source finds after place i: the least place it can see.
Beyond(c, i) ==
  Min({j \in DOMAIN Order(c) : j > i /\ Sees(c, Order(c)[j])} \cup {Len(Order(c)) + 1})

Source(kind, q) ==
  LET c == [kind |-> kind, query |-> q, names |-> disk, at |-> 0, nth |-> 1]
  IN  [c EXCEPT !.at = Beyond(c, 0)]

Shared(c) == c.kind # "list"

AtEnd(c) == c.at > Len(Order(c))

\* The entry next() returns, and where it leaves the source.
Current(c) == LET n == Order(c)[c.at] IN <<n, Contents(c, n)[c.nth]>>

Advance(c) ==
  IF c.nth < Len(Contents(c, Order(c)[c.at])) THEN [c EXCEPT !.nth = @ + 1]
  ELSE [c EXCEPT !.at = Beyond(c, @), !.nth = 1]

\* Directories hold names of other kinds as well; results of DB XML do not.
isValid(c) == c.kind \in {"container", "results"} \/ AtEnd(c) \/ Order(c)[c.at] \in Xml

\* getEntries.  A container has an order of its own and no other.
getEntries(order) ==
  CASE db -> Source("container", NoName)
    [] ~db /\ order = "numerical" -> Source("list", NoName)
    [] ~db /\ order = "natural" -> Source("walk", NoName)

\* The cell and the stages of an iterator over the entries, or of a query.  A
\* container runs the first part of a query itself.
query(parts, order) ==
  LET stages == [k \in DOMAIN parts |-> [query |-> parts[k], file |-> NoName, buffer |-> <<>>]]
  IN  IF db /\ parts # <<>>
      THEN [cell |-> Source("results", parts[1]), stages |-> Tail(stages)]
      ELSE [cell |-> getEntries(order), stages |-> stages]

HasEntry(stages, cell, k) == IF k = 0 THEN ~AtEnd(cell) ELSE stages[k].buffer # <<>>

\* The loop of FilterIter::hasNext asks the iterator below it as long as its own
\* buffer is empty: so the call has come down to level k.
Reached(stages, k) == \A j \in DOMAIN stages : j > k => stages[j].buffer = <<>>

EntryAt(stages, cell, k) ==
  IF k = 0 THEN Current(cell) ELSE <<stages[k].file, Head(stages[k].buffer)>>

\* next() of the iterator at level k.
next(stages, cell, k) ==
  IF k = 0 THEN [stages |-> stages, cell |-> Advance(cell)]
  ELSE [stages |-> [stages EXCEPT ![k].buffer = Tail(@)], cell |-> cell]

\* Variant: a document that comes twice in a row is searched twice.
ParsedAgain(stage, name) ==
  [stage EXCEPT !.file = name,
                !.buffer = IF Readable(name) THEN Hits[stage.query][name] ELSE <<>>]

\* One turn of that loop, given the name from below: a document that comes twice
\* in a row is searched once, and one that cannot be read will not be tried again.
Parsed(stage, name) ==
  IF name = stage.file THEN stage
  ELSE [stage EXCEPT !.file = name,
                     !.buffer = IF Readable(name) THEN Hits[stage.query][name] ELSE <<>>]

\* StylesheetIter::next: the document is read once more; none when that fails.
Transformed(name) == IF Readable(name) THEN <<<<name, Styled>>>> ELSE <<>>
=============================================================================
