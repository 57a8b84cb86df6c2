----------------------------- MODULE FilterIter -----------------------------
(***************************************************************************)
(* FilterIter (src/src/FilterIter.cpp): runs a query over the documents    *)
(* another iterator names and hands out its results one by one.  hasNext   *)
(* is the call that works and blocks: it parses documents until one has a  *)
(* result.  Another thread may interrupt it meanwhile.                     *)
(*                                                                         *)
(* A document is its file name and the number of its results, or           *)
(* Unreadable when reading it throws.  (A document the parser rejects has  *)
(* no results.)  The module has no behaviour of its own, see MultiIter.    *)
(***************************************************************************)
EXTENDS Naturals, Sequences

CONSTANTS
  File,        \* document names
  NoFile,      \* d_file before the first document
  Unreadable

ASSUME FilterAssumption == NoFile \notin File

VARIABLES
  f_todo,         \* what d_itr has still to name
  f_entry,        \* e, the document hasNext is at
  d_file,         \* the last document parsed
  f_buffer,       \* d_buffer: results not handed out yet
  f_interrupted,  \* d_interrupted
  fpc,            \* where the iterating thread is in hasNext
  f_result        \* how hasNext ended

filterVars == <<f_todo, f_entry, d_file, f_buffer, f_interrupted, fpc, f_result>>

Document == [file : File, hits : Nat \cup {Unreadable}]
NoDocument == [file |-> NoFile, hits |-> 0]

\* The constructor; also the state that stands for no iterator at all.
FilterOver(docs) ==
  /\ f_todo' = docs
  /\ f_entry' = NoDocument
  /\ d_file' = NoFile
  /\ f_buffer' = <<>>
  /\ f_interrupted' = FALSE
  /\ fpc' = "out"
  /\ f_result' = "none"

FilterInit ==
  /\ f_todo = <<>>
  /\ f_entry = NoDocument
  /\ d_file = NoFile
  /\ f_buffer = <<>>
  /\ f_interrupted = FALSE
  /\ fpc = "out"
  /\ f_result = "none"

CallHasNext ==
  /\ fpc = "out"
  /\ fpc' = "reset"
  /\ f_result' = "none"
  /\ UNCHANGED <<f_todo, f_entry, d_file, f_buffer, f_interrupted>>

\* hasNext forgets an interrupt that came before it.
ResetInterrupted ==
  /\ fpc = "reset"
  /\ f_interrupted' = FALSE
  /\ fpc' = "loop"
  /\ UNCHANGED <<f_todo, f_entry, d_file, f_buffer, f_result>>

Searching == f_buffer = <<>> /\ f_todo # <<>>

\* Variant: a file named twice is parsed twice.
TakeEveryDocument ==
  /\ fpc = "loop"
  /\ Searching
  /\ f_entry' = Head(f_todo)
  /\ f_todo' = Tail(f_todo)
  /\ fpc' = "flag"
  /\ UNCHANGED <<d_file, f_buffer, f_interrupted, f_result>>

\* A file named twice in a row (a pipeline of queries does that) is parsed once.
TakeDocument ==
  /\ fpc = "loop"
  /\ Searching
  /\ f_entry' = Head(f_todo)
  /\ f_todo' = Tail(f_todo)
  /\ fpc' = IF Head(f_todo).file = d_file THEN "loop" ELSE "flag"
  /\ UNCHANGED <<d_file, f_buffer, f_interrupted, f_result>>

TestInterrupted ==
  /\ fpc = "flag"
  /\ IF f_interrupted
       THEN /\ fpc' = "out"
            /\ f_result' = "interrupted"
            /\ d_file' = d_file
       ELSE /\ fpc' = "parse"
            /\ d_file' = f_entry.file
            /\ f_result' = f_result
  /\ UNCHANGED <<f_todo, f_entry, f_buffer, f_interrupted>>

ParseFile ==
  /\ fpc = "parse"
  /\ IF f_entry.hits = Unreadable
       THEN /\ fpc' = "out"
            /\ f_result' = "error"
            /\ f_buffer' = f_buffer
       ELSE /\ fpc' = "loop"
            /\ f_buffer' = [k \in 1..f_entry.hits |-> d_file]
            /\ f_result' = f_result
  /\ UNCHANGED <<f_todo, f_entry, d_file, f_interrupted>>

ReturnHasNext ==
  /\ fpc = "loop"
  /\ ~Searching
  /\ fpc' = "out"
  /\ f_result' = IF f_buffer = <<>> THEN "empty" ELSE "more"
  /\ UNCHANGED <<f_todo, f_entry, d_file, f_buffer, f_interrupted>>

HasNextStep ==
  ResetInterrupted \/ TakeDocument \/ TestInterrupted \/ ParseFile \/ ReturnHasNext

\* next, of an iterator that has results.
PopResult ==
  /\ f_buffer # <<>>
  /\ f_buffer' = Tail(f_buffer)
  /\ UNCHANGED <<f_todo, f_entry, d_file, f_interrupted, fpc, f_result>>

InterruptFilter ==
  /\ f_interrupted' = TRUE
  /\ UNCHANGED <<f_todo, f_entry, d_file, f_buffer, fpc, f_result>>

----------------------------------------------------------------------------
FilterTypeOK ==
  /\ f_todo \in Seq(Document)
  /\ f_entry \in Document \cup {NoDocument}
  /\ d_file \in File \cup {NoFile}
  /\ f_buffer \in Seq(File)
  /\ f_interrupted \in BOOLEAN
  /\ fpc \in {"out", "reset", "loop", "flag", "parse"}
  /\ f_result \in {"none", "more", "empty", "interrupted", "error"}
=============================================================================
