----------------------------- MODULE MCClients -----------------------------
(***************************************************************************)
(* The clients of the library: a program that uses the C interface, or one *)
(* of the command line tools; they have nothing to do with each other.     *)
(*                                                                         *)
(* The program has a corpus of four names: two documents, a text file and  *)
(* a directory with the name of a document.  The first query has two       *)
(* results in one document, so that the second, run over it, is given that *)
(* document twice in a row, and finds nothing in the other.                *)
(*                                                                         *)
(* The tool has up to three corpora of two names, in every state.  One has *)
(* a name twice and a document of two results, two have a document that    *)
(* cannot be read, first or last.                                          *)
(***************************************************************************)
EXTENDS CApi, Tools

CONSTANTS a, b, folder, note, q1, q2, x, y

MCName == {a, b, folder, note}
MCNatural == <<b, note, folder, a>>
MCNumerical == <<a, b, folder, note>>
MCXml == {a, b, folder}
MCRegular == {a, b, note}

Asks(parts, order, styled) == [parts |-> parts, order |-> order, styled |-> styled]

MCRequest ==
  {Asks(<<>>, "natural", FALSE), Asks(<<>>, "numerical", TRUE),
   Asks(<<q1>>, "natural", TRUE), Asks(<<q1, q2>>, "natural", FALSE),
   Asks(<<q1, q2>>, "numerical", FALSE)}

MCSymmetry == Permutations(Handle)

MCHits ==
  [q \in {q1, q2} |->
     (a :> IF q = q1 THEN <<x>> ELSE <<>>)
     @@ (b :> IF q = q1 THEN <<x, y>> ELSE <<y>>)
     @@ (folder :> <<>>) @@ (note :> <<>>)]

Doc(name, hits, readable) == [name |-> name, hits |-> hits, readable |-> readable]

Corpus(name, state, documents) == [name |-> name, state |-> state, docs |-> documents]

MCCorpora ==
  {Corpus(1, "good", <<Doc(1, 1, TRUE), Doc(2, 2, TRUE), Doc(1, 1, TRUE)>>),
   Corpus(2, "good", <<Doc(2, 0, TRUE), Doc(1, 1, FALSE)>>),
   Corpus(2, "good", <<Doc(3, 1, FALSE), Doc(1, 2, TRUE)>>),
   Corpus(1, "good", <<>>),
   Corpus(2, "refuses", <<Doc(2, 1, TRUE)>>)}
  \union {Corpus(n, s, <<>>) : n \in {1, 2}, s \in {"missing", "unopenable", "damaged"}}

NoTool ==
  /\ tool = extract
  /\ args = <<>>
  /\ option = "none"
  /\ target = 0
  /\ phase = "exited"
  /\ left = <<>>
  /\ docs = <<>>
  /\ seen = {}
  /\ out = <<>>
  /\ exit = "none"

Program == exit = "none"

ClientsInit ==
  \/ InitClient /\ NoTool
  \/ InitTool /\ InitClient /\ db /\ ~live

ClientsNext ==
  \/ Program /\ ClientStep /\ UNCHANGED toolVars
  \/ ToolStep /\ UNCHANGED clientVars

Spec == ClientsInit /\ [][ClientsNext]_<<clientVars, toolVars>>
=============================================================================
