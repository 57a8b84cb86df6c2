----------------------------- MODULE BatchCopy -----------------------------
(***************************************************************************)
(* Copying a whole corpus into a writer: CorpusWriter::write of a reader   *)
(* (the library, with its flag) and writeCorpus of the tool that creates   *)
(* treebanks, which keeps a set of the names it has written.               *)
(*                                                                         *)
(* Several jobs write to one writer.  The writer of a compact corpus locks *)
(* each entry by itself, so that entries of different jobs mix; a DB XML   *)
(* container is written by one job at a time.  The tool is a process with  *)
(* a writer of its own that starts from nothing.                           *)
(***************************************************************************)
EXTENDS Naturals, Sequences, FiniteSets

CONSTANTS
  Job,      \* the copies made
  NoJob,    \* who wrote what was in the container before
  Name,     \* entry names
  Sources   \* the corpora copied from

\* What goes wrong with an entry: reading it is an alpinocorpus::Error, or any
\* other exception (readFile has only those); its text is no XML, which only a
\* container minds; the iterator cannot get to it.
Fault == {"none", "error", "exception", "malformed", "iterator"}

Item == [name : Name, fault : Fault]

ASSUME BatchAssumption ==
  /\ NoJob \notin Job
  /\ Sources \subseteq Seq(Item)

VARIABLES
  container,  \* whether the destination is a container or a compact corpus
  source,     \* the corpus each job copies, in the order of its iterator
  store,      \* what the destination holds, in the order it was written
  jpc,        \* where each job is
  mode,       \* the loop it runs
  failsafe,   \* the argument it was called with
  pos,        \* the entry it is at, 0 before the first
  err,        \* the entries whose Error is in the BatchError
  seen,       \* the names the tool has written
  outcome     \* how it ended

vars ==
  <<container, source, store, jpc, mode, failsafe, pos, err, seen, outcome>>

Stored(j, p, n) == [job |-> j, pos |-> p, name |-> n]

StoredNames == {store[i].name : i \in 1..Len(store)}

Init ==
  /\ container \in BOOLEAN
  /\ source \in [Job -> Sources]
  /\ \/ store = <<>>
     \/ container /\ \E n \in Name : store = <<Stored(NoJob, 0, n)>>
  /\ jpc = [j \in Job |-> "idle"]
  /\ mode = [j \in Job |-> "none"]
  /\ failsafe = [j \in Job |-> FALSE]
  /\ pos = [j \in Job |-> 0]
  /\ err = [j \in Job |-> {}]
  /\ seen = [j \in Job |-> {}]
  /\ outcome = [j \in Job |-> "none"]

----------------------------------------------------------------------------
Begin(j, m) ==
  /\ jpc[j] = "idle"
  /\ mode' = [mode EXCEPT ![j] = m]
  /\ jpc' = [jpc EXCEPT ![j] = "hasNext"]
  /\ UNCHANGED <<container, source, store, pos, err, seen, outcome>>

\* The writers take the flag for one called fail_first.
FailFirst(flag) == flag

WriteCorpus(j, flag) ==
  /\ \A k \in Job : mode[k] # "tool"
  /\ container => \A k \in Job : jpc[k] \in {"idle", "ended"}
  /\ Begin(j, IF FailFirst(flag) THEN "failfirst" ELSE "failsafe")
  /\ failsafe' = [failsafe EXCEPT ![j] = flag]

RunTool(j) ==
  /\ \A k \in Job : jpc[k] = "idle"
  /\ store = <<>>
  /\ Begin(j, "tool")
  /\ UNCHANGED failsafe

End(j, o) ==
  /\ outcome' = [outcome EXCEPT ![j] = o]
  /\ jpc' = [jpc EXCEPT ![j] = "ended"]

----------------------------------------------------------------------------
(* hasNext and next; the tool passes over names it has written.            *)

\* Variant: the collected errors are forgotten.
EndQuietly(j) ==
  /\ jpc[j] = "hasNext"
  /\ pos[j] = Len(source[j])
  /\ End(j, "done")
  /\ UNCHANGED <<container, source, store, mode, failsafe, pos, err, seen>>

EndOfCorpus(j) ==
  /\ jpc[j] = "hasNext"
  /\ pos[j] = Len(source[j])
  /\ End(j, IF err[j] = {} THEN "done" ELSE "batch")
  /\ UNCHANGED <<container, source, store, mode, failsafe, pos, err, seen>>

\* Variant: the exception is swallowed and hasNext called once more.
IteratorRetried(j) ==
  /\ jpc[j] = "hasNext"
  /\ pos[j] < Len(source[j])
  /\ source[j][pos[j] + 1].fault = "iterator"
  /\ UNCHANGED vars

IteratorThrows(j) ==
  /\ jpc[j] = "hasNext"
  /\ pos[j] < Len(source[j])
  /\ source[j][pos[j] + 1].fault = "iterator"
  /\ End(j, "exception")
  /\ UNCHANGED <<container, source, store, mode, failsafe, pos, err, seen>>

Next(j) ==
  /\ jpc[j] = "hasNext"
  /\ pos[j] < Len(source[j])
  /\ LET e == source[j][pos[j] + 1]
     IN  /\ e.fault # "iterator"
         /\ jpc' = [jpc EXCEPT ![j] =
              IF mode[j] = "tool" /\ e.name \in seen[j] THEN "hasNext" ELSE "read"]
  /\ pos' = [pos EXCEPT ![j] = @ + 1]
  /\ UNCHANGED <<container, source, store, mode, failsafe, err, seen, outcome>>

\* Variant: the loop goes on and never reports.
CatchQuietly(j) ==
  /\ mode[j] = "failsafe"
  /\ jpc' = [jpc EXCEPT ![j] = "hasNext"]
  /\ UNCHANGED <<err, outcome>>

\* What becomes of an alpinocorpus::Error, from the reader or from the writer.
Catch(j) ==
  /\ mode[j] = "failsafe"
  /\ err' = [err EXCEPT ![j] = @ \cup {pos[j]}]
  /\ jpc' = [jpc EXCEPT ![j] = "hasNext"]
  /\ UNCHANGED outcome

Raise(j) ==
  \/ Catch(j)
  \/ mode[j] # "failsafe" /\ End(j, "error") /\ UNCHANGED err

Entry(j) == source[j][pos[j]]

ReadEntry(j) ==
  /\ jpc[j] = "read"
  /\ \/ Entry(j).fault = "error" /\ Raise(j)
     \/ Entry(j).fault = "exception" /\ End(j, "exception") /\ UNCHANGED err
     \/ /\ Entry(j).fault \in {"none", "malformed"}
        /\ jpc' = [jpc EXCEPT ![j] = "write"]
        /\ UNCHANGED <<err, outcome>>
  /\ UNCHANGED <<container, source, store, mode, failsafe, pos, seen>>

\* putDocument: a name is unique, and the text is well-formed.
Refused(j) ==
  container /\ (Entry(j).fault = "malformed" \/ Entry(j).name \in StoredNames)

\* Variant: the tool's set is never filled.
WriteUnseen(j) ==
  /\ jpc[j] = "write"
  /\ \/ Refused(j) /\ Raise(j) /\ UNCHANGED store
     \/ /\ ~Refused(j)
        /\ store' = Append(store, Stored(j, pos[j], Entry(j).name))
        /\ jpc' = [jpc EXCEPT ![j] = "hasNext"]
        /\ UNCHANGED <<err, outcome>>
  /\ UNCHANGED <<container, source, mode, failsafe, pos, seen>>

Write(j) ==
  /\ jpc[j] = "write"
  /\ \/ Refused(j) /\ Raise(j) /\ UNCHANGED <<store, seen>>
     \/ /\ ~Refused(j)
        /\ store' = Append(store, Stored(j, pos[j], Entry(j).name))
        /\ seen' = [seen EXCEPT ![j] =
             IF mode[j] = "tool" THEN @ \cup {Entry(j).name} ELSE @]
        /\ jpc' = [jpc EXCEPT ![j] = "hasNext"]
        /\ UNCHANGED <<err, outcome>>
  /\ UNCHANGED <<container, source, mode, failsafe, pos>>

Copy(j) ==
  EndOfCorpus(j) \/ IteratorThrows(j) \/ Next(j) \/ ReadEntry(j) \/ Write(j)

Step ==
  \E j \in Job : \/ \E flag \in BOOLEAN : WriteCorpus(j, flag)
                 \/ RunTool(j)
                 \/ Copy(j)

Fairness == \A j \in Job : WF_vars(Copy(j))

Spec == Init /\ [][Step]_vars /\ Fairness

----------------------------------------------------------------------------
\* The places in the store a job has written, and the entries they hold.
Places(j)  == {i \in 1..Len(store) : store[i].job = j}
Written(j) == {store[i].pos : i \in Places(j)}

\* What the tool passes over.
Repeated(j) ==
  {p \in 1..pos[j] : /\ mode[j] = "tool"
                     /\ \E q \in 1..(p - 1) : source[j][q].name = source[j][p].name}

\* The entry a job is at, or that ended it, is not done with.  (One that the tool
\* passes over is never read.)
AtWork(j) ==
  \/ jpc[j] \in {"read", "write"}
  \/ outcome[j] = "error"
  \/ /\ outcome[j] = "exception"
     /\ pos[j] > 0 /\ Entry(j).fault = "exception"
     /\ pos[j] \notin Repeated(j)

Passed(j) == {p \in 1..pos[j] : p = pos[j] => ~AtWork(j)}

Accounted(j) ==
  /\ Written(j) \cup err[j] \cup Repeated(j) = Passed(j)
  /\ Written(j) \cap err[j] = {}
  /\ Repeated(j) \cap (Written(j) \cup err[j]) = {}
  /\ \A i, k \in Places(j) : i < k => store[i].pos < store[k].pos
  /\ \A i \in Places(j) : source[j][store[i].pos].name = store[i].name

\* However the jobs mix, each entry a job has passed is accounted for in one
\* way: written, in the order of the corpus and under its own name; or in the
\* BatchError; or a repetition.
EachEntryOnce == \A j \in Job : Accounted(j)

\* A copy that ends without an exception has copied everything: each entry of
\* the corpus is in the destination, written by this job.
DoneMeansCopied ==
  \A j \in Job :
    outcome[j] = "done" =>
      \A p \in 1..Len(source[j]) :
        \E i \in Places(j) : store[i].name = source[j][p].name

\* The tool gives no name a second entry, whatever comes between the two, though
\* a compact corpus would take it and the reader answer with the last.
ToolWritesNoNameTwice ==
  \A j \in Job :
    mode[j] = "tool" =>
      \A i, k \in Places(j) : store[i].name = store[k].name => i = k

\* A copy that was begun comes to an end, with all entries or an exception.
CopyEnds == \A j \in Job : jpc[j] = "hasNext" ~> jpc[j] = "ended"

\* CorpusWriter.hh: if the second argument is not false, the copy "keeps writing
\* till completion but may throw an alpinocorpus::BatchError".
FailsafeKeepsWriting ==
  \A j \in Job : failsafe[j] => outcome[j] \in {"none", "done", "batch"}
=============================================================================
