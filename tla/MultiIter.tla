----------------------------- MODULE MultiIter -----------------------------
(***************************************************************************)
(* MultiCorpusReaderPrivate::MultiIter with a query                        *)
(* (src/src/MultiCorpusReaderPrivate.cpp): one thread iterates over the    *)
(* results in several corpora, which are opened one after the other, while *)
(* other threads may interrupt it.  d_currentIter is replaced by the one   *)
(* and called by the others; d_currentIterMutex is between them.           *)
(*                                                                         *)
(* The iterators of the corpora are FilterIters, as those of compact       *)
(* corpora and of directories are.  A corpus is known by its name, how     *)
(* opening it and starting the query goes, and its documents.              *)
(***************************************************************************)
EXTENDS FilterIter

CONSTANTS
  CorpusName,
  CorpusLists,    \* the sequences of corpora a MultiIter is built from
  Interrupter,    \* the threads that interrupt
  Free,           \* d_currentIterMutex is free
  Iterating,      \* the thread that iterates holds it
  MaxInterrupts   \* bound: calls of interrupt

\* "refused": OpenError.  "badquery": the query throws a runtime_error.
\* "broken": opening throws anything else, which nothing here catches.
Opening == {"good", "refused", "badquery", "broken"}
Corpus == [name : CorpusName, opening : Opening, docs : Seq(Document)]

ASSUME MultiAssumption ==
  /\ CorpusLists \subseteq Seq(Corpus)
  /\ Free \notin Interrupter \cup {Iterating}
  /\ Iterating \notin Interrupter
  /\ MaxInterrupts \in Nat

VARIABLES
  corpora,              \* the map the iterator was built from, in its order
  d_iters,              \* the corpora not opened yet
  currentIter,          \* which corpus d_currentIter belongs to, 0 for null
  d_interrupted,
  d_currentIterMutex,
  ipc,                  \* where the iterating thread is
  outcome,              \* how its last call ended
  delivered,            \* ghost: what next returned so far
  upc,                  \* where each interrupter is
  target,               \* ghost: the iterator it found at the null check
  interrupts,           \* calls so far (for the bound)
  stopped,              \* ghost: some call of interrupt has returned
  late                  \* ghost: the documents parsed after that

callVars == <<ipc, outcome, delivered>>
interruptVars == <<upc, target, interrupts, stopped>>
vars == <<filterVars, corpora, d_iters, currentIter, d_interrupted,
          d_currentIterMutex, callVars, interruptVars, late>>

Init ==
  /\ FilterInit
  /\ corpora \in CorpusLists
  /\ d_iters = corpora
  /\ currentIter = 0
  /\ d_interrupted = FALSE
  /\ d_currentIterMutex = Free
  /\ ipc = "outside"
  /\ outcome = "none"
  /\ delivered = <<>>
  /\ upc = [u \in Interrupter |-> "idle"]
  /\ target = [u \in Interrupter |-> 0]
  /\ interrupts = 0
  /\ stopped = FALSE
  /\ late = 0

(***************************************************************************)
(* hasNext.  The user calls it once before every next, and gives up at the *)
(* end or at an exception.                                                 *)
(***************************************************************************)
CallMulti ==
  /\ ipc = "outside"
  /\ outcome = "none"
  /\ IF d_interrupted
       THEN outcome' = "interrupted" /\ ipc' = ipc
       ELSE outcome' = outcome /\ ipc' = "while"
  /\ UNCHANGED <<filterVars, corpora, d_iters, currentIter, d_interrupted>>
  /\ UNCHANGED <<d_currentIterMutex, delivered, interruptVars, late>>

\* The loop condition of nextIterator, up to the call of d_currentIter.
WhileTest ==
  /\ ipc = "while"
  /\ \/ /\ d_iters = <<>> \/ d_interrupted
        /\ ipc' = "return"
        /\ UNCHANGED filterVars
     \/ /\ d_iters # <<>> /\ ~d_interrupted
        /\ IF currentIter = 0
             THEN ipc' = "lock" /\ UNCHANGED filterVars
             ELSE ipc' = "asking" /\ CallHasNext
  /\ UNCHANGED <<corpora, d_iters, currentIter, d_interrupted, d_currentIterMutex>>
  /\ UNCHANGED <<outcome, delivered, interruptVars, late>>

\* The search in the current corpus; see ghost late.
Search ==
  /\ ipc \in {"asking", "answering"}
  /\ HasNextStep
  /\ late' = IF stopped /\ fpc = "parse" THEN late + 1 ELSE late
  /\ UNCHANGED <<corpora, d_iters, currentIter, d_interrupted, d_currentIterMutex>>
  /\ UNCHANGED <<callVars, interruptVars>>

Searched(site, result) == ipc = site /\ fpc = "out" /\ f_result = result

LoopAnswered ==
  /\ \/ Searched("asking", "more")  /\ ipc' = "return"
     \/ Searched("asking", "empty") /\ ipc' = "lock"
  /\ UNCHANGED <<filterVars, corpora, d_iters, currentIter, d_interrupted>>
  /\ UNCHANGED <<d_currentIterMutex, outcome, delivered, interruptVars, late>>

\* An exception of the search leaves hasNext, whichever call it was.
SearchThrows ==
  /\ \E site \in {"asking", "answering"}, r \in {"interrupted", "error"} :
       Searched(site, r) /\ outcome' = r
  /\ ipc' = "outside"
  /\ UNCHANGED <<filterVars, corpora, d_iters, currentIter, d_interrupted>>
  /\ UNCHANGED <<d_currentIterMutex, delivered, interruptVars, late>>

\* Variant: the current iterator is replaced without the lock.
LockNothing ==
  /\ ipc = "lock"
  /\ ipc' = "reset"
  /\ UNCHANGED <<filterVars, corpora, d_iters, currentIter, d_interrupted>>
  /\ UNCHANGED <<d_currentIterMutex, outcome, delivered, interruptVars, late>>

LockCurrent ==
  /\ ipc = "lock"
  /\ d_currentIterMutex = Free
  /\ d_currentIterMutex' = Iterating
  /\ ipc' = "reset"
  /\ UNCHANGED <<filterVars, corpora, d_iters, currentIter, d_interrupted>>
  /\ UNCHANGED <<outcome, delivered, interruptVars, late>>

ResetCurrent ==
  /\ ipc = "reset"
  /\ currentIter' = 0
  /\ FilterOver(<<>>)
  /\ ipc' = "open"
  /\ UNCHANGED <<corpora, d_iters, d_interrupted, d_currentIterMutex>>
  /\ UNCHANGED <<outcome, delivered, interruptVars, late>>

\* Variant: the name of the current corpus is read after the pop.
OpenTipNext ==
  /\ ipc = "open"
  /\ Head(d_iters).opening # "broken"
  /\ IF Head(d_iters).opening = "good"
       THEN /\ currentIter' = Len(corpora) - Len(d_iters) + 2
            /\ FilterOver(Head(d_iters).docs)
       ELSE UNCHANGED <<currentIter, filterVars>>
  /\ ipc' = "pop"
  /\ UNCHANGED <<corpora, d_iters, d_interrupted, d_currentIterMutex>>
  /\ UNCHANGED <<outcome, delivered, interruptVars, late>>

\* openTip, when it returns.
OpenTip ==
  /\ ipc = "open"
  /\ Head(d_iters).opening # "broken"
  /\ IF Head(d_iters).opening = "good"
       THEN /\ currentIter' = Len(corpora) - Len(d_iters) + 1
            /\ FilterOver(Head(d_iters).docs)
       ELSE UNCHANGED <<currentIter, filterVars>>
  /\ ipc' = "pop"
  /\ UNCHANGED <<corpora, d_iters, d_interrupted, d_currentIterMutex>>
  /\ UNCHANGED <<outcome, delivered, interruptVars, late>>

\* Variant: the lock outlives the exception.
OpenTipThrowsLocked ==
  /\ ipc = "open"
  /\ Head(d_iters).opening = "broken"
  /\ ipc' = "outside"
  /\ outcome' = "error"
  /\ UNCHANGED <<filterVars, corpora, d_iters, currentIter, d_interrupted>>
  /\ UNCHANGED <<d_currentIterMutex, delivered, interruptVars, late>>

\* openTip, when it throws: the lock goes, the corpus stays at the front.
OpenTipThrows ==
  /\ ipc = "open"
  /\ Head(d_iters).opening = "broken"
  /\ d_currentIterMutex' = Free
  /\ ipc' = "outside"
  /\ outcome' = "error"
  /\ UNCHANGED <<filterVars, corpora, d_iters, currentIter, d_interrupted>>
  /\ UNCHANGED <<delivered, interruptVars, late>>

\* Variant: a corpus that could not be opened is tried again.
PopOpened ==
  /\ ipc = "pop"
  /\ d_iters' = IF currentIter = 0 THEN d_iters ELSE Tail(d_iters)
  /\ d_currentIterMutex' = Free
  /\ ipc' = "while"
  /\ UNCHANGED <<filterVars, corpora, currentIter, d_interrupted>>
  /\ UNCHANGED <<outcome, delivered, interruptVars, late>>

\* Variant: a corpus that could not be opened ends the iteration.
PopOrReturn ==
  /\ ipc = "pop"
  /\ d_iters' = Tail(d_iters)
  /\ d_currentIterMutex' = Free
  /\ ipc' = IF currentIter = 0 THEN "return" ELSE "while"
  /\ UNCHANGED <<filterVars, corpora, currentIter, d_interrupted>>
  /\ UNCHANGED <<outcome, delivered, interruptVars, late>>

PopFront ==
  /\ ipc = "pop"
  /\ d_iters' = Tail(d_iters)
  /\ d_currentIterMutex' = Free
  /\ ipc' = "while"
  /\ UNCHANGED <<filterVars, corpora, currentIter, d_interrupted>>
  /\ UNCHANGED <<outcome, delivered, interruptVars, late>>

\* return d_currentIter && d_currentIter->hasNext()
ReturnTest ==
  /\ ipc = "return"
  /\ IF currentIter = 0
       THEN ipc' = "outside" /\ outcome' = "done" /\ UNCHANGED filterVars
       ELSE ipc' = "answering" /\ outcome' = outcome /\ CallHasNext
  /\ UNCHANGED <<corpora, d_iters, currentIter, d_interrupted, d_currentIterMutex>>
  /\ UNCHANGED <<delivered, interruptVars, late>>

ReturnAnswered ==
  /\ \/ Searched("answering", "more")  /\ outcome' = "more"
     \/ Searched("answering", "empty") /\ outcome' = "done"
  /\ ipc' = "outside"
  /\ UNCHANGED <<filterVars, corpora, d_iters, currentIter, d_interrupted>>
  /\ UNCHANGED <<d_currentIterMutex, delivered, interruptVars, late>>

(***************************************************************************)
(* next, after a hasNext that said so.                                     *)
(***************************************************************************)
NextEntry ==
  /\ ipc = "outside"
  /\ outcome = "more"
  /\ IF d_interrupted
       THEN /\ outcome' = "interrupted"
            /\ UNCHANGED <<filterVars, delivered>>
       ELSE /\ PopResult
            /\ delivered' = Append(delivered, <<corpora[currentIter].name, d_file>>)
            /\ outcome' = "none"
  /\ UNCHANGED <<corpora, d_iters, currentIter, d_interrupted, d_currentIterMutex>>
  /\ UNCHANGED <<ipc, interruptVars, late>>

Iterate ==
  \/ CallMulti \/ WhileTest \/ Search \/ LoopAnswered \/ SearchThrows
  \/ LockCurrent \/ ResetCurrent \/ OpenTip \/ OpenTipThrows \/ PopFront
  \/ ReturnTest \/ ReturnAnswered \/ NextEntry

(***************************************************************************)
(* interrupt: the flag first, then the current iterator under the lock.    *)
(***************************************************************************)
SetInterrupted(u) ==
  /\ upc[u] = "idle"
  /\ interrupts < MaxInterrupts
  /\ interrupts' = interrupts + 1
  /\ d_interrupted' = TRUE
  /\ upc' = [upc EXCEPT ![u] = "lock"]
  /\ UNCHANGED <<filterVars, corpora, d_iters, currentIter, d_currentIterMutex>>
  /\ UNCHANGED <<callVars, target, stopped, late>>

LockInterrupt(u) ==
  /\ upc[u] = "lock"
  /\ d_currentIterMutex = Free
  /\ d_currentIterMutex' = u
  /\ upc' = [upc EXCEPT ![u] = "check"]
  /\ UNCHANGED <<filterVars, corpora, d_iters, currentIter, d_interrupted>>
  /\ UNCHANGED <<callVars, target, interrupts, stopped, late>>

CheckCurrent(u) ==
  /\ upc[u] = "check"
  /\ target' = [target EXCEPT ![u] = currentIter]
  /\ upc' = [upc EXCEPT ![u] = IF currentIter = 0 THEN "unlock" ELSE "call"]
  /\ UNCHANGED <<filterVars, corpora, d_iters, currentIter, d_interrupted>>
  /\ UNCHANGED <<d_currentIterMutex, callVars, interrupts, stopped, late>>

InterruptCurrent(u) ==
  /\ upc[u] = "call"
  /\ InterruptFilter
  /\ upc' = [upc EXCEPT ![u] = "unlock"]
  /\ UNCHANGED <<corpora, d_iters, currentIter, d_interrupted, d_currentIterMutex>>
  /\ UNCHANGED <<callVars, target, interrupts, stopped, late>>

UnlockInterrupt(u) ==
  /\ upc[u] = "unlock"
  /\ d_currentIterMutex' = Free
  /\ upc' = [upc EXCEPT ![u] = "idle"]
  /\ stopped' = TRUE
  /\ UNCHANGED <<filterVars, corpora, d_iters, currentIter, d_interrupted>>
  /\ UNCHANGED <<callVars, target, interrupts, late>>

FinishInterrupt(u) ==
  LockInterrupt(u) \/ CheckCurrent(u) \/ InterruptCurrent(u) \/ UnlockInterrupt(u)

Next ==
  \/ Iterate
  \/ \E u \in Interrupter : SetInterrupted(u) \/ FinishInterrupt(u)

\* Threads that can run do.  Nobody has to interrupt.
Fairness ==
  /\ WF_vars(Iterate)
  /\ \A u \in Interrupter : WF_vars(FinishInterrupt(u))

Spec == Init /\ [][Next]_vars /\ Fairness

----------------------------------------------------------------------------
TypeOK ==
  /\ FilterTypeOK
  /\ corpora \in CorpusLists
  /\ d_iters \in Seq(Corpus)
  /\ Len(d_iters) <= Len(corpora)
  /\ currentIter \in 0..Len(corpora)
  /\ d_interrupted \in BOOLEAN
  /\ d_currentIterMutex \in Interrupter \cup {Free, Iterating}
  /\ ipc \in {"outside", "while", "asking", "lock", "reset", "open", "pop",
              "return", "answering"}
  /\ outcome \in {"none", "more", "done", "interrupted", "error"}
  /\ delivered \in Seq(CorpusName \X File)
  /\ upc \in [Interrupter -> {"idle", "lock", "check", "call", "unlock"}]
  /\ target \in [Interrupter -> Nat]
  /\ interrupts \in 0..MaxInterrupts
  /\ stopped \in BOOLEAN
  /\ late \in Nat

\* The comment in interrupt(): the iterating thread could reset d_currentIter
\* after the null-pointer check.  It never does: the iterator an interrupter
\* found there is the current one, and alive, when it is called.
InterruptTargetAlive ==
  \A u \in Interrupter :
    upc[u] = "call" => currentIter # 0 /\ currentIter = target[u]

\* Sequences one after the other: the first i of them, for each i.
Joined(seqs) ==
  LET upTo[i \in 0..Len(seqs)] == IF i = 0 THEN <<>> ELSE upTo[i - 1] \o seqs[i]
  IN  upTo

\* What the query has to deliver, by document and by corpus: a document of a
\* corpus that opens, once for each of its results.
Repeated(docs, i) == i > 1 /\ docs[i].file = docs[i - 1].file

ResultsOf(docs) ==
  [i \in 1..Len(docs) |->
     LET hits == IF Repeated(docs, i) \/ docs[i].hits = Unreadable THEN 0 ELSE docs[i].hits
     IN  [k \in 1..hits |-> docs[i].file]]

Results(docs) == Joined(ResultsOf(docs))[Len(docs)]

Under(name, results) == [k \in 1..Len(results) |-> <<name, results[k]>>]

ExpectedOf ==
  [i \in 1..Len(corpora) |->
     IF corpora[i].opening = "good" THEN Under(corpora[i].name, Results(corpora[i].docs))
                                    ELSE <<>>]

Expected == Joined(ExpectedOf)[Len(corpora)]

\* Whatever the interrupts and the corpora that fail, the user sees the results
\* in order, each under the name of its own corpus, none twice and none left
\* out before another.
DeliveredInOrder ==
  /\ Len(delivered) <= Len(Expected)
  /\ delivered = SubSeq(Expected, 1, Len(delivered))

\* An iteration nobody interrupts ends with hasNext false only when every
\* result of every corpus that opens was delivered: a corpus that is refused or
\* refuses the query costs its own results and no others.
UninterruptedIsComplete ==
  outcome = "done" /\ ~d_interrupted => delivered = Expected

\* An interrupt stops an iterator that is blocked in its search: once interrupt
\* has returned, at most the document that search had begun is still parsed.
InterruptStopsSearch == late <= 1

\* Every call of interrupt returns, though it waits for the corpus being opened.
InterruptReturns ==
  \A u \in Interrupter : upc[u] = "lock" ~> upc[u] = "idle"

\* An iteration comes to an end, interrupted or not.
IterationEnds == <>(outcome \in {"done", "interrupted", "error"})
=============================================================================
