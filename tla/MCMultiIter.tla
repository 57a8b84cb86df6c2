---------------------------- MODULE MCMultiIter ----------------------------
(***************************************************************************)
(* Three corpora in every combination of how opening them goes, with       *)
(* documents that have no result, one or two, that come twice in a row,    *)
(* and that cannot be read; two interrupters.                              *)
(***************************************************************************)
EXTENDS MultiIter

CONSTANTS f1, f2, f3, a, b, c

MCFile == {f1, f2, f3}
MCCorpusName == {a, b, c}

Hits(f, n) == [file |-> f, hits |-> n]
Named(n, o, docs) == [name |-> n, opening |-> o, docs |-> docs]

DocsA == <<Hits(f1, 1), Hits(f1, 1), Hits(f2, 0), Hits(f3, 2)>>
DocsB == <<Hits(f1, 0), Hits(f2, 0)>>
DocsC == <<Hits(f2, 1), Hits(f3, Unreadable), Hits(f1, 1)>>

MCCorpusLists ==
  {<<>>} \cup
  {<<Named(a, oa, DocsA), Named(b, ob, DocsB), Named(c, oc, DocsC)>> :
     oa \in Opening, ob \in Opening, oc \in Opening}

\* Long enough a search for the second call of hasNext to go on without end.
Barren == {<<Named(a, "good", <<Hits(f1, 0), Hits(f2, 0), Hits(f3, 0)>>)>>}
=============================================================================
