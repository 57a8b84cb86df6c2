------------------------------- MODULE Tools -------------------------------
(***************************************************************************)
(* The command line tools (src/util): what each does from its arguments to *)
(* its exit, by the calls it makes to the library.  A tool is a process    *)
(* that is alone with its corpora.                                         *)
(*                                                                         *)
(* A corpus is an argument: the name a MultiCorpusReader gives it (two may *)
(* have one name, the names are ordered numbers), how it answers, and its  *)
(* documents.  A document is its name, the number of results of the query  *)
(* in it, and whether reading it succeeds.                                 *)
(*                                                                         *)
(*   missing     there is no such file                                     *)
(*   unopenable  OpenError                                                 *)
(*   damaged     another runtime_error when it is opened                   *)
(*   refuses     the reader of this corpus has no queries of this kind     *)
(*   good                                                                  *)
(***************************************************************************)
EXTENDS Integers, Sequences, FiniteSets, SequencesExt

CONSTANTS
  Corpora,   \* the arguments there may be
  MaxArgs,   \* bound: the corpora on the command line
  Wanted     \* the entry `get' is asked for

\* What sets the tools apart: how many corpora they take, whether they need or
\* have a query, and of which kind, whether they ask for the type, what they show
\* (a name once, each result, each entry, or one), whether they read the documents
\* by themselves, write a corpus, and handle exceptions of the corpora.
xpath == [corpora |-> "many", query |-> "optional", dialect |-> "xpath", type |-> TRUE,
          shows |-> "names", reads |-> FALSE, writes |-> FALSE, guarded |-> TRUE]

create == [corpora |-> "any", query |-> "optional", dialect |-> "xpath", type |-> FALSE,
           shows |-> "names", reads |-> TRUE, writes |-> TRUE, guarded |-> TRUE]

xquery == [corpora |-> "any", query |-> "needed", dialect |-> "xquery", type |-> FALSE,
           shows |-> "results", reads |-> FALSE, writes |-> FALSE, guarded |-> TRUE]

stats == [corpora |-> "many", query |-> "needed", dialect |-> "xpath", type |-> FALSE,
          shows |-> "results", reads |-> FALSE, writes |-> FALSE, guarded |-> FALSE]

xslt == [corpora |-> "any", query |-> "optional", dialect |-> "xpath", type |-> FALSE,
         shows |-> "names", reads |-> TRUE, writes |-> FALSE, guarded |-> TRUE]

get == [corpora |-> "one", query |-> "optional", dialect |-> "xpath", type |-> FALSE,
        shows |-> "one", reads |-> TRUE, writes |-> FALSE, guarded |-> FALSE]

extract == [corpora |-> "one", query |-> "none", dialect |-> "xpath", type |-> FALSE,
            shows |-> "entries", reads |-> TRUE, writes |-> FALSE, guarded |-> FALSE]

Tool == {xpath, create, xquery, stats, xslt, get, extract}

State == {"missing", "unopenable", "damaged", "refuses", "good"}

ASSUME ToolsAssumption ==
  /\ Corpora \subseteq
       [name : Int, state : State,
        docs : Seq([name : Int, hits : Nat, readable : BOOLEAN])]
  /\ MaxArgs \in Nat
  /\ Wanted \in Int

\* No macro file or query; a query that is valid; one that is not; a macro file
\* that cannot be read or parsed.
Option == {"none", "valid", "invalid", "nomacros"}

VARIABLES
  tool,    \* which of them runs
  args,    \* its corpora
  option,   \* what -m, -q and -f give
  target,  \* what create writes to: an argument, or 0 for another file
  phase,   \* where main is
  left,    \* the corpora the reader has still to open, the first one open
  docs,    \* what the iterator has still to give of the first
  seen,    \* the names written to the set
  out,     \* what was printed or written, or counted
  exit     \* the status, "running" or "abort" for an exception nobody catches

toolVars == <<tool, args, option, target, phase, left, docs, seen, out, exit>>

\* openCorpora, or openCorpus.
Multi == tool.corpora = "many" \/ Len(args) > 1

HasQuery == option # "none"

\* MultiCorpusReader: the map of names; of two corpora of a name the last.
CorporaMap ==
  LET names == {args[i].name : i \in DOMAIN args}
      At(n) == args[CHOOSE i \in DOMAIN args :
                      /\ args[i].name = n
                      /\ \A j \in DOMAIN args : args[j].name = n => j <= i]
      Nth(k) == CHOOSE n \in names : Cardinality({m \in names : m < n}) = k - 1
  IN  [k \in 1..Cardinality(names) |-> At(Nth(k))]

InitTool ==
  /\ tool \in Tool
  /\ \E n \in 1..MaxArgs : args \in [1..n -> Corpora]
  /\ tool.corpora = "one" => Len(args) = 1
  /\ option \in Option
  /\ tool.query = "needed" => option # "none"
  /\ tool.query = "none" => option = "none"
  /\ target \in (IF tool.writes THEN 0..Len(args) ELSE {0})
  /\ phase = "open"
  /\ left = <<>>
  /\ docs = <<>>
  /\ seen = {}
  /\ out = <<>>
  /\ exit = "running"

Exit(status) ==
  /\ exit' = status
  /\ phase' = "exited"
  /\ UNCHANGED <<tool, args, option, target, left, docs, seen, out>>

Go(to) ==
  /\ phase' = to
  /\ UNCHANGED <<tool, args, option, target, left, docs, seen, out, exit>>

\* A runtime_error while the corpus is gone through: the tools without a handler
\* there end in terminate.
Thrown == Exit(IF tool.guarded THEN "1" ELSE "abort")

\* Corpora are opened one by one when the iterator gets there, but for one alone;
\* push_back only wants them to exist.
OpenReader ==
  /\ phase = "open"
  /\ LET fails == IF Multi THEN {"missing"} ELSE {"missing", "unopenable", "damaged"}
     IN  IF \E i \in DOMAIN args : args[i].state \in fails THEN Exit("1")
         ELSE Go(IF tool.type THEN "type" ELSE "macros")

\* The entries a MultiIter gives first: those of the first corpus that can be
\* opened and is not empty, or an exception before that.
FirstOpened ==
  LET found == {k \in DOMAIN CorporaMap :
                  \/ CorporaMap[k].state = "damaged"
                  \/ CorporaMap[k].state \in {"good", "refuses"} /\ CorporaMap[k].docs # <<>>}
  IN  IF found = {} THEN 0 ELSE CHOOSE k \in found : \A l \in found : k <= l

\* xpath asks for the type of the corpus, outside of its handlers: it reads the
\* first entry.
Type ==
  /\ phase = "type"
  /\ LET k == FirstOpened
     IN  IF k # 0 /\ (CorporaMap[k].state = "damaged" \/ ~Head(CorporaMap[k].docs).readable)
         THEN Exit("abort") ELSE Go("macros")

Macros ==
  /\ phase = "macros"
  /\ IF option = "nomacros" THEN Exit("1") ELSE Go(IF HasQuery THEN "check" ELSE "start")

Refuses(c) == tool.dialect = "xquery" /\ c.state = "refuses"

\* isValidQuery: a MultiCorpusReader asks the first corpus of its map, and lets
\* the query pass when that one cannot be opened.
Check ==
  /\ phase = "check"
  /\ LET c == IF Multi THEN CorporaMap[1] ELSE args[1]
     IN  CASE c.state = "unopenable" -> Go("start")
           [] c.state = "damaged" -> Exit("abort")
           [] OTHER -> IF option = "invalid" \/ Refuses(c) THEN Exit("1") ELSE Go("start")

\* Variant: the target is not compared with the corpora.
StartUnchecked ==
  /\ phase = "start"
  /\ left' = IF Multi THEN CorporaMap ELSE args
  /\ docs' = IF Multi THEN <<>> ELSE args[1].docs
  /\ phase' = IF tool.shows = "one" THEN "get" ELSE IF Multi THEN "next" ELSE "loop"
  /\ UNCHANGED <<tool, args, option, target, seen, out, exit>>

\* create compares its target with each of the corpora, then opens the writer,
\* which empties the target.
Start ==
  /\ phase = "start"
  /\ IF target # 0 THEN Exit("1")
     ELSE /\ left' = IF Multi THEN CorporaMap ELSE args
          /\ docs' = IF Multi THEN <<>> ELSE args[1].docs
          /\ phase' = IF tool.shows = "one" THEN "get" ELSE IF Multi THEN "next" ELSE "loop"
          /\ UNCHANGED <<tool, args, option, target, seen, out, exit>>

Accepts(c) == c.state \in {"good", "refuses"} /\ option # "invalid" /\ ~Refuses(c)

\* openTip: a corpus that cannot be opened, or does not take the query, is passed
\* over; another exception gets out.
NextCorpus ==
  /\ phase = "next"
  /\ left # <<>>
  /\ IF Head(left).state = "damaged" THEN Thrown
     ELSE /\ docs' = IF Accepts(Head(left)) THEN Head(left).docs ELSE <<>>
          /\ phase' = "loop"
          /\ UNCHANGED <<tool, args, option, target, left, seen, out, exit>>

EndOfCorpus ==
  /\ phase = "loop"
  /\ docs = <<>>
  /\ left' = Tail(left)
  /\ phase' = IF Multi THEN "next" ELSE "end"
  /\ UNCHANGED <<tool, args, option, target, docs, seen, out, exit>>

Shown(n) == <<Head(left).name, n>>

ResultsOf(d) == IF HasQuery THEN d.hits ELSE 1

\* The tools that need the text, for a query or for themselves.
Reads == HasQuery \/ tool.reads

\* Variant: the set of names is never filled.
DocumentUnseen ==
  LET d == Head(docs)
      n == Shown(d.name)
  IN  /\ phase = "loop"
      /\ docs # <<>>
      /\ IF ~d.readable /\ Reads THEN Thrown
         ELSE /\ docs' = Tail(docs)
              /\ out' = out \o [i \in 1..ResultsOf(d) |-> n]
              /\ UNCHANGED <<tool, args, option, target, phase, left, seen, exit>>

\* A document and its results.  xpath, create and xslt take a name once, the
\* results of one document being one after the other or not.
Document ==
  LET d == Head(docs)
      n == Shown(d.name)
      takes == IF tool.shows = "names" THEN (IF ResultsOf(d) > 0 /\ n \notin seen THEN 1 ELSE 0)
                                       ELSE ResultsOf(d)
  IN  /\ phase = "loop"
      /\ docs # <<>>
      /\ IF ~d.readable /\ Reads THEN Thrown
         ELSE /\ docs' = Tail(docs)
              /\ out' = out \o [i \in 1..takes |-> n]
              /\ seen' = IF takes > 0 /\ tool.shows = "names" THEN seen \union {n} ELSE seen
              /\ UNCHANGED <<tool, args, option, target, phase, left, exit>>

\* Of a name that comes twice, the last entry is the one that is read.
Get ==
  /\ phase = "get"
  /\ LET of == {i \in DOMAIN docs : docs[i].name = Wanted}
         last == CHOOSE i \in of : \A j \in of : j <= i
     IN  IF of = {} \/ ~docs[last].readable THEN Thrown
         ELSE /\ out' = <<Shown(Wanted)>>
              /\ phase' = "end"
              /\ UNCHANGED <<tool, args, option, target, left, docs, seen, exit>>

End ==
  \/ phase = "end" /\ Exit("0")
  \/ phase = "next" /\ left = <<>> /\ Exit("0")

ToolStep ==
  \/ OpenReader \/ Type \/ Macros \/ Check \/ Start
  \/ NextCorpus \/ EndOfCorpus \/ Document \/ Get \/ End

ToolSpec == InitTool /\ [][ToolStep]_toolVars

----------------------------------------------------------------------------
\* The corpora a run goes through, in order.
Given == IF Multi THEN CorporaMap ELSE args

\* What is to come of a corpus: nothing if it cannot be opened or does not take
\* the query.
DocsOf(c) == IF Accepts(c) THEN c.docs ELSE <<>>

Repeated(c, d) == [k \in 1..ResultsOf(d) |-> <<c.name, d.name>>]

ResultsByDoc(c) == [i \in 1..Len(DocsOf(c)) |-> Repeated(c, DocsOf(c)[i])]

ResultsByCorpus == [i \in 1..Len(Given) |-> FlattenSeq(ResultsByDoc(Given[i]))]

All == FlattenSeq(ResultsByCorpus)

\* Each element at its first place only.
Once(s) ==
  LET upTo[i \in 0..Len(s)] ==
        IF i = 0 THEN <<>>
        ELSE IF \E j \in 1..(i - 1) : s[j] = s[i] THEN upTo[i - 1]
        ELSE Append(upTo[i - 1], s[i])
  IN  upTo[Len(s)]

Expected ==
  CASE tool.shows = "one" -> <<<<args[1].name, Wanted>>>>
    [] tool.shows = "names" -> Once(All)
    [] OTHER -> All

\* Whatever a tool printed or wrote before it ended is right, and status 0 says it
\* is all there is: every result of every corpus that can be opened and takes the
\* query, in order, a document once where documents are asked for, though it comes
\* twice in a corpus or has several results; and that no corpus was damaged.  It
\* says nothing of corpora that were passed over, nor of one whose name another
\* argument has.
ExitZeroIsComplete ==
  /\ IsPrefix(out, Expected)
  /\ exit = "0" =>
       /\ out = Expected
       /\ Multi => \A k \in DOMAIN CorporaMap : CorporaMap[k].state # "damaged"

\* create has emptied its target only after all that could have stopped it: the
\* target is none of the corpora it is about to read, the last ones included that
\* are opened when the others were written; these are there; the macros could be
\* read and the query was not refused by a corpus that could be asked.
SourceSurvives ==
  (tool.writes /\ phase \in {"next", "loop", "end"})
  => /\ target = 0
     /\ \A i \in DOMAIN args : args[i].state # "missing"
     /\ option # "nomacros"
     /\ option = "invalid" => Multi /\ CorporaMap[1].state = "unopenable"
=============================================================================
