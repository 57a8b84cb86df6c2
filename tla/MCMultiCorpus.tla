--------------------------- MODULE MCMultiCorpus ---------------------------
(***************************************************************************)
(* A directory with one treebank in two formats, and another whose name    *)
(* differs in a zero; names that a caller may give, two of them alike to   *)
(* the map and each the beginning of the next.                             *)
(***************************************************************************)
EXTENDS MultiCorpus

CONSTANTS f1, f2, f3, dir

A == 97       \* the letter a
Zero == 48

MCFile == {f1, f2, f3, dir}
MCWalkOrder == <<f1, f2, f3>>

MCName == {<<A>>, <<A, Zero>>, <<A, Zero, Zero>>}

MCStem ==
  (f1 :> <<A, Slash, Zero>>) @@ (f2 :> <<A, Slash, Zero>>) @@
  (f3 :> <<A, Slash, Zero, Zero>>) @@ (dir :> <<>>)

MCExtension == (f1 :> "dact") @@ (f2 :> "index") @@ (f3 :> "dact") @@ (dir :> "none")

MCEntriesOf ==
  (f1 :> <<<<Zero, Zero>>, <<A>>>>) @@ (f2 :> <<<<A>>>>) @@
  (f3 :> <<<<A, Slash, A>>>>) @@ (dir :> <<<<A>>, <<Zero>>>>)

MCDisks ==
  {(f1 :> "container") @@ (f2 :> "container") @@ (f3 :> k) @@ (dir :> "directory")
     : k \in {"container", "absent"}}

\* "other" is no corpus at all.
MCKind == {"absent", "container", "damaged", "other"}
=============================================================================
