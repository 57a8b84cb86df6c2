------------------------------ MODULE Sentence ------------------------------
(***************************************************************************)
(* The sentence of an entry with the matches of a query, as                *)
(* CorpusReader::sentence returns it and `alpinocorpus-xpath -s' prints    *)
(* it.                                                                     *)
(*                                                                         *)
(* The elements of a document are the numbers 1..n in document order; the  *)
(* root element, whose name is in no CorpusInfo, is 0.  A document has the *)
(* parent of each, its kind (node, word, which stands for ne as well, or   *)
(* other), whether it has the token attribute, and its begin (0 where that *)
(* is missing or no number).  Each has a word of its own, in this order.   *)
(* What the parts of a query select is a sequence of sets of elements.     *)
(***************************************************************************)
EXTENDS Integers, Sequences, FiniteSets, SequencesExt

CONSTANT LexicalElement   \* of the corpus: "node" for Alpino, "word" for the others

Elements(doc) == DOMAIN doc.parent

Children(doc, e) == {c \in Elements(doc) : doc.parent[c] = e}

\* Variant: the first part of a query marks.
ActiveOfFirst(parts) == Head(parts)

\* readEntryMarkQueries: the last part of the query marks, the others filtered.
Active(parts) == Last(parts)

\* The number of a match: its place among the marked elements.
MatchId(active, m) == Cardinality({a \in active : a < m})

\* Variant: elements of other names are gone through as well.
HandledAny(doc, e) == TRUE

Handled(doc, e) == doc.kind[e] \in {"node", "word"}

\* Where the recursion from a match arrives.
markLexicals(doc, match) ==
  LET reached[e \in Elements(doc)] ==
        CASE ~Handled(doc, e) -> {}
          [] Handled(doc, e) /\ doc.token[e] -> {e}
          [] OTHER -> UNION {reached[c] : c \in Children(doc, e)}
  IN  reached[match]

\* The lexical elements, sorted, with their matches.
collectLexicals(doc, active) ==
  LET lexical == {e \in Elements(doc) : doc.kind[e] = LexicalElement /\ doc.token[e]}
      Before(d, e) == \/ doc.begin[d] < doc.begin[e]
                      \/ doc.begin[d] = doc.begin[e] /\ d < e
      At(k) == CHOOSE e \in lexical : Cardinality({d \in lexical : Before(d, e)}) = k - 1
      reached == [m \in active |-> markLexicals(doc, m)]
      matches(e) == {MatchId(active, m) : m \in {a \in active : e \in reached[a]}}
  IN  [k \in 1..Cardinality(lexical) |-> [word |-> At(k), matches |-> matches(At(k))]]

getSentence(doc, parts) == collectLexicals(doc, Active(parts))

InOrder(ids) ==
  LET At(k) == CHOOSE i \in ids : Cardinality({j \in ids : j < i}) = k - 1
  IN  [k \in 1..Cardinality(ids) |-> At(k)]

Printed(kind, number) == [kind |-> kind, number |-> number]

\* Variant: of two items, what the first has and the next one too is closed.
endAtShared(items, k) ==
  IF k = Len(items) THEN items[k].matches
                    ELSE items[k].matches \cap items[k + 1].matches

endAtCurrent(items, k) ==
  IF k = Len(items) THEN items[k].matches
                    ELSE items[k].matches \ items[k + 1].matches

startAtCurrent(items, k) ==
  IF k = 1 THEN items[k].matches ELSE items[k].matches \ items[k - 1].matches

\* What is printed: the brackets that open have a number, those that close none.
listCorpus(items) ==
  FlattenSeq([k \in 1..Len(items) |->
     LET starts == InOrder(startAtCurrent(items, k))
     IN  [i \in 1..Len(starts) |-> Printed("[", starts[i])]
           \o <<Printed("word", items[k].word)>>
           \o [i \in 1..Cardinality(endAtCurrent(items, k)) |-> Printed("]", 0)]])
=============================================================================
