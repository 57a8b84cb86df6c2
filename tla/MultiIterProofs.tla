-------------------------- MODULE MultiIterProofs --------------------------
(***************************************************************************)
(* The theorems of MultiIter, for every list of corpora and every set of   *)
(* interrupting threads: the iterator that an interrupter found under      *)
(* d_currentIterMutex is the one it calls; the user sees the results in    *)
(* order, each under its corpus; without an interrupt, all of them.        *)
(***************************************************************************)
EXTENDS MultiIter, RecursionProofs

\* d_currentIterMutex is held by the thread that its value names.
Exclusive ==
  /\ ipc \in {"reset", "open", "pop"} <=> d_currentIterMutex = Iterating
  /\ \A u \in Interrupter :
       upc[u] \in {"check", "call", "unlock"} <=> d_currentIterMutex = u

\* Where the search in a corpus stands.
SearchState ==
  /\ fpc \in {"flag", "parse"} => f_entry \in Document
  /\ fpc = "parse" => d_file \in File
  /\ f_buffer # <<>> => d_file \in File
  /\ f_result = "more" /\ fpc = "out" /\ ipc \in {"asking", "answering"} => f_buffer # <<>>

\* What the iterating thread knows at each place.
CallState ==
  /\ ipc \in {"asking", "lock", "reset", "open", "pop"} => d_iters # <<>>
  /\ ipc = "answering" => currentIter # 0
  /\ outcome = "more" => ipc = "outside" /\ f_buffer # <<>> /\ currentIter # 0

MultiInv == TypeOK /\ Exclusive /\ SearchState /\ CallState /\ InterruptTargetAlive

----------------------------------------------------------------------------
\* A constant list is a sequence.
LEMMA ConstantSeq ==
  ASSUME NEW S, NEW x \in S, NEW n \in Nat
  PROVE  [k \in 1..n |-> x] \in Seq(S)
OBVIOUS

\* The steps of a search keep its types and do not lose track of the document.
LEMMA HasNextStepKeeps ==
  ASSUME FilterTypeOK, HasNextStep,
         fpc \in {"flag", "parse"} => f_entry \in Document,
         fpc = "parse" => d_file \in File,
         f_buffer # <<>> => d_file \in File
  PROVE  /\ FilterTypeOK'
         /\ fpc' \in {"flag", "parse"} => f_entry' \in Document
         /\ fpc' = "parse" => d_file' \in File
         /\ f_buffer' # <<>> => d_file' \in File
         /\ f_result' = "more" /\ fpc' = "out" => f_buffer' # <<>>
<1>1. CASE ResetInterrupted
  BY <1>1 DEF ResetInterrupted, FilterTypeOK
<1>2. CASE TakeDocument
  <2>1. f_todo \in Seq(Document) /\ f_todo # <<>> /\ f_buffer = <<>>
    BY <1>2 DEF TakeDocument, Searching, FilterTypeOK
  <2>2. Head(f_todo) \in Document /\ Tail(f_todo) \in Seq(Document)
    BY <2>1
  <2> QED
    BY <1>2, <2>1, <2>2 DEF TakeDocument, FilterTypeOK
<1>3. CASE TestInterrupted
  <2>1. f_entry \in Document /\ f_entry.file \in File
    BY <1>3 DEF TestInterrupted, Document
  <2> QED
    BY <1>3, <2>1 DEF TestInterrupted, FilterTypeOK
<1>4. CASE ParseFile
  <2>1. f_entry \in Document /\ d_file \in File
    BY <1>4 DEF ParseFile
  <2>2. f_entry.hits # Unreadable => f_entry.hits \in Nat
    BY <2>1 DEF Document
  <2>3. f_entry.hits # Unreadable => [k \in 1..f_entry.hits |-> d_file] \in Seq(File)
    BY <2>1, <2>2, ConstantSeq
  <2>4. f_buffer' \in Seq(File)
    BY <1>4, <2>3 DEF ParseFile, FilterTypeOK
  <2> QED
    BY <1>4, <2>1, <2>4 DEF ParseFile, FilterTypeOK
<1>5. CASE ReturnHasNext
  BY <1>5 DEF ReturnHasNext, FilterTypeOK
<1> QED
  BY <1>1, <1>2, <1>3, <1>4, <1>5 DEF HasNextStep

\* A new search, or none, has the types of one.
LEMMA FilterOverTypes ==
  ASSUME NEW docs \in Seq(Document), FilterOver(docs)
  PROVE  /\ FilterTypeOK'
         /\ fpc' = "out" /\ f_buffer' = <<>> /\ f_result' = "none"
<1>1. f_interrupted' \in BOOLEAN
  BY Zenon DEF FilterOver
<1>2. /\ f_todo' = docs /\ f_entry' = NoDocument /\ d_file' = NoFile
      /\ f_buffer' = <<>> /\ fpc' = "out" /\ f_result' = "none"
  BY DEF FilterOver
<1> QED
  BY <1>1, <1>2 DEF FilterTypeOK

\* The iteration starts in a state of the invariant.
LEMMA InitHolds ==
  ASSUME Init
  PROVE  MultiInv
<1>1. corpora \in Seq(Corpus) /\ Len(corpora) \in Nat /\ d_iters = corpora
  BY MultiAssumption DEF Init
<1>2. FilterTypeOK
  <2>1. f_interrupted \in BOOLEAN
    BY Zenon DEF Init, FilterInit
  <2>2. /\ f_todo = <<>> /\ f_entry = NoDocument /\ d_file = NoFile
        /\ f_buffer = <<>> /\ fpc = "out" /\ f_result = "none"
    BY DEF Init, FilterInit
  <2> QED
    BY <2>1, <2>2 DEF FilterTypeOK
<1>3. TypeOK
  <2>1. d_interrupted \in BOOLEAN /\ stopped \in BOOLEAN
    BY Zenon DEF Init
  <2>2. /\ corpora \in CorpusLists /\ currentIter = 0 /\ d_currentIterMutex = Free
        /\ ipc = "outside" /\ outcome = "none" /\ delivered = <<>>
        /\ upc = [u \in Interrupter |-> "idle"] /\ target = [u \in Interrupter |-> 0]
        /\ interrupts = 0 /\ late = 0
    BY DEF Init
  <2> QED
    BY <1>1, <1>2, <2>1, <2>2, MultiAssumption DEF TypeOK
<1>4. Exclusive
  BY MultiAssumption DEF Init, Exclusive
<1>5. SearchState /\ CallState /\ InterruptTargetAlive
  BY DEF Init, FilterInit, SearchState, CallState, InterruptTargetAlive
<1> QED
  BY <1>3, <1>4, <1>5 DEF MultiInv

\* Steps of the iterating thread that neither take nor hold the mutex and leave
\* the current iterator in place.
LEMMA OutsideKeeps ==
  ASSUME MultiInv,
         \/ CallMulti \/ WhileTest \/ Search \/ LoopAnswered \/ SearchThrows
         \/ ReturnTest \/ ReturnAnswered \/ NextEntry
  PROVE  Exclusive' /\ InterruptTargetAlive'
<1>1. /\ UNCHANGED <<currentIter, d_currentIterMutex, upc, target>>
      /\ ipc \notin {"reset", "open", "pop"} /\ ipc' \notin {"reset", "open", "pop"}
  BY DEF CallMulti, WhileTest, Search, LoopAnswered, SearchThrows, ReturnTest,
     ReturnAnswered, NextEntry, callVars, interruptVars, Searched
<1>2. Exclusive'
  BY <1>1 DEF MultiInv, Exclusive
<1>3. InterruptTargetAlive'
  BY <1>1 DEF MultiInv, InterruptTargetAlive
<1> QED
  BY <1>2, <1>3

\* hasNext begins; it may find that it was interrupted.
LEMMA CallMultiKeeps ==
  ASSUME MultiInv, CallMulti
  PROVE  MultiInv'
<1>1. TypeOK'
  BY DEF MultiInv, TypeOK, FilterTypeOK, filterVars, interruptVars, CallMulti
<1>2. SearchState' /\ CallState'
  BY DEF MultiInv, SearchState, CallState, filterVars, CallMulti
<1> QED
  BY <1>1, <1>2, OutsideKeeps DEF MultiInv

\* Asking the current iterator starts a search of the same types.
LEMMA CallHasNextTypes ==
  ASSUME FilterTypeOK, CallHasNext
  PROVE  FilterTypeOK' /\ fpc' = "reset" /\ UNCHANGED <<f_entry, d_file, f_buffer>>
BY DEF FilterTypeOK, CallHasNext

\* The loop of nextIterator goes on, stops or asks the current iterator.
LEMMA WhileTestKeeps ==
  ASSUME MultiInv, WhileTest
  PROVE  MultiInv'
<1>1. TypeOK /\ SearchState /\ CallState /\ FilterTypeOK
  BY DEF MultiInv, TypeOK
<1>2. UNCHANGED filterVars \/ CallHasNext
  BY DEF WhileTest
<1>3. FilterTypeOK'
  BY <1>1, <1>2, CallHasNextTypes DEF FilterTypeOK, filterVars
<1>4. TypeOK'
  BY <1>1, <1>3 DEF TypeOK, WhileTest, interruptVars
<1>5. SearchState'
  BY <1>1 DEF SearchState, WhileTest, CallHasNext, filterVars
<1>6. CallState'
  BY <1>1 DEF CallState, WhileTest, CallHasNext, filterVars
<1> QED
  BY <1>4, <1>5, <1>6, OutsideKeeps DEF MultiInv

\* The current iterator is asked a last time.
LEMMA ReturnTestKeeps ==
  ASSUME MultiInv, ReturnTest
  PROVE  MultiInv'
<1>1. TypeOK /\ SearchState /\ CallState /\ FilterTypeOK
  BY DEF MultiInv, TypeOK
<1>2. UNCHANGED filterVars \/ CallHasNext
  BY DEF ReturnTest
<1>3. FilterTypeOK'
  BY <1>1, <1>2, CallHasNextTypes DEF FilterTypeOK, filterVars
<1>4. TypeOK'
  BY <1>1, <1>3 DEF TypeOK, ReturnTest, interruptVars
<1>5. SearchState'
  BY <1>1 DEF SearchState, ReturnTest, CallHasNext, filterVars
<1>6. CallState'
  BY <1>1 DEF CallState, ReturnTest, CallHasNext, filterVars
<1> QED
  BY <1>4, <1>5, <1>6, OutsideKeeps DEF MultiInv

\* A step of the search.
LEMMA SearchKeeps ==
  ASSUME MultiInv, Search
  PROVE  MultiInv'
<1>1. TypeOK /\ SearchState /\ CallState /\ FilterTypeOK
  BY DEF MultiInv, TypeOK
<1>2. /\ FilterTypeOK'
      /\ fpc' \in {"flag", "parse"} => f_entry' \in Document
      /\ fpc' = "parse" => d_file' \in File
      /\ f_buffer' # <<>> => d_file' \in File
      /\ f_result' = "more" /\ fpc' = "out" => f_buffer' # <<>>
  BY <1>1, HasNextStepKeeps DEF SearchState, Search
<1>3. late' \in Nat
  BY <1>1 DEF TypeOK, Search
<1>4. TypeOK'
  BY <1>1, <1>2, <1>3 DEF TypeOK, Search, callVars, interruptVars
<1>5. SearchState'
  BY <1>2 DEF SearchState
<1>6. CallState'
  BY <1>1 DEF CallState, Search, callVars
<1> QED
  BY <1>4, <1>5, <1>6, OutsideKeeps DEF MultiInv

\* The answer or the exception of a search is passed on.
LEMMA AnswerKeeps ==
  ASSUME MultiInv, LoopAnswered \/ SearchThrows \/ ReturnAnswered
  PROVE  MultiInv'
<1>1. TypeOK /\ SearchState /\ CallState
  BY DEF MultiInv
<1>2. UNCHANGED <<filterVars, corpora, d_iters, currentIter>>
  BY DEF LoopAnswered, SearchThrows, ReturnAnswered
<1>3. TypeOK'
  BY <1>1 DEF TypeOK, FilterTypeOK, LoopAnswered, SearchThrows, ReturnAnswered,
     filterVars, interruptVars
<1>4. SearchState'
  BY <1>1 DEF SearchState, LoopAnswered, SearchThrows, ReturnAnswered, Searched, filterVars
<1>5. CallState'
  <2>1. CASE LoopAnswered
    BY <1>1, <2>1 DEF CallState, LoopAnswered, Searched, filterVars
  <2>2. CASE SearchThrows
    <3>1. outcome' \in {"interrupted", "error"} /\ ipc' = "outside"
      BY <2>2 DEF SearchThrows
    <3> QED
      BY <3>1 DEF CallState
  <2>3. CASE ReturnAnswered
    BY <1>1, <2>3 DEF CallState, SearchState, ReturnAnswered, Searched, filterVars
  <2> QED
    BY <2>1, <2>2, <2>3
<1> QED
  BY <1>3, <1>4, <1>5, OutsideKeeps DEF MultiInv

\* next hands out a result of the current corpus.
LEMMA NextEntryKeeps ==
  ASSUME MultiInv, NextEntry
  PROVE  MultiInv'
<1>1. TypeOK /\ SearchState /\ CallState /\ FilterTypeOK
  BY DEF MultiInv, TypeOK
<1>2. /\ f_buffer # <<>> /\ currentIter # 0 /\ d_file \in File /\ f_buffer \in Seq(File)
  BY <1>1 DEF NextEntry, CallState, SearchState, FilterTypeOK
<1>3. corpora \in Seq(Corpus) /\ currentIter \in 1..Len(corpora)
  BY <1>1, <1>2, MultiAssumption DEF TypeOK
<1>4. corpora[currentIter].name \in CorpusName
  <2>1. corpora[currentIter] \in Corpus
    BY <1>3
  <2> QED
    BY <2>1 DEF Corpus
<1>5. Tail(f_buffer) \in Seq(File)
  BY <1>2
<1>6. FilterTypeOK'
  BY <1>1, <1>5 DEF NextEntry, PopResult, FilterTypeOK, filterVars
<1>7. delivered' \in Seq(CorpusName \X File)
  <2> DEFINE result == <<corpora[currentIter].name, d_file>>
  <2>1. delivered' = delivered \/ delivered' = Append(delivered, result)
    BY DEF NextEntry
  <2>2. delivered \in Seq(CorpusName \X File)
    BY <1>1 DEF TypeOK
  <2>3. result \in CorpusName \X File
    BY <1>2, <1>4
  <2> HIDE DEF result
  <2>4. Append(delivered, result) \in Seq(CorpusName \X File)
    BY <2>2, <2>3
  <2> QED
    BY <2>1, <2>2, <2>4
<1>8. TypeOK'
  BY <1>1, <1>6, <1>7 DEF NextEntry, TypeOK, interruptVars
<1>9. SearchState'
  BY <1>1, <1>2 DEF NextEntry, PopResult, SearchState, filterVars
<1>10. CallState'
  BY <1>1 DEF NextEntry, CallState
<1> QED
  BY <1>8, <1>9, <1>10, OutsideKeeps DEF MultiInv

----------------------------------------------------------------------------
\* The iterating thread takes the mutex.
LEMMA LockCurrentKeeps ==
  ASSUME MultiInv, LockCurrent
  PROVE  MultiInv'
<1>1. TypeOK'
  BY DEF MultiInv, TypeOK, FilterTypeOK, LockCurrent, filterVars, interruptVars
<1>2. Exclusive'
  BY MultiAssumption DEF MultiInv, Exclusive, LockCurrent, interruptVars
<1>3. SearchState' /\ CallState'
  BY DEF MultiInv, SearchState, CallState, LockCurrent, filterVars
<1>4. InterruptTargetAlive'
  BY DEF MultiInv, InterruptTargetAlive, LockCurrent, interruptVars
<1> QED
  BY <1>1, <1>2, <1>3, <1>4 DEF MultiInv

\* While the iterating thread holds the mutex no interrupter is past its lock.
LEMMA NobodyCalls ==
  ASSUME MultiInv, ipc \in {"reset", "open", "pop"}
  PROVE  \A u \in Interrupter : upc[u] \notin {"check", "call", "unlock"}
BY MultiAssumption DEF MultiInv, Exclusive

\* The old iterator goes, under the mutex.
LEMMA ResetCurrentKeeps ==
  ASSUME MultiInv, ResetCurrent
  PROVE  MultiInv'
<1>1. ipc = "reset" /\ ipc' = "open" /\ currentIter' = 0 /\ FilterOver(<<>>)
      /\ UNCHANGED <<corpora, d_iters, d_interrupted, d_currentIterMutex>>
      /\ UNCHANGED <<outcome, delivered, interruptVars, late>>
  BY DEF ResetCurrent
<1>2. FilterTypeOK' /\ fpc' = "out" /\ f_buffer' = <<>> /\ f_result' = "none"
  <2>1. <<>> \in Seq(Document)
    OBVIOUS
  <2> QED
    BY <1>1, <2>1, FilterOverTypes
<1>3. \A u \in Interrupter : upc'[u] # "call"
  BY <1>1, NobodyCalls DEF interruptVars
<1>4. TypeOK'
  <2>1. Len(corpora) \in Nat
    BY MultiAssumption DEF MultiInv, TypeOK
  <2> QED
    BY <1>1, <1>2, <2>1 DEF MultiInv, TypeOK, interruptVars
<1>5. Exclusive'
  BY <1>1 DEF MultiInv, Exclusive, interruptVars
<1>6. SearchState'
  BY <1>2 DEF SearchState
<1>7. CallState'
  BY <1>1 DEF MultiInv, CallState
<1>8. InterruptTargetAlive'
  BY <1>3 DEF InterruptTargetAlive
<1> QED
  BY <1>4, <1>5, <1>6, <1>7, <1>8 DEF MultiInv

\* The next corpus is opened, or refused, under the mutex.
LEMMA OpenTipKeeps ==
  ASSUME MultiInv, OpenTip
  PROVE  MultiInv'
<1>1. /\ ipc = "open" /\ ipc' = "pop"
      /\ UNCHANGED <<corpora, d_iters, d_interrupted, d_currentIterMutex>>
      /\ UNCHANGED <<outcome, delivered, interruptVars, late>>
      /\ \/ /\ currentIter' = Len(corpora) - Len(d_iters) + 1
            /\ FilterOver(Head(d_iters).docs)
         \/ UNCHANGED <<currentIter, filterVars>>
  BY DEF OpenTip
<1>2. /\ TypeOK /\ corpora \in Seq(Corpus) /\ d_iters \in Seq(Corpus) /\ d_iters # <<>>
      /\ Len(d_iters) <= Len(corpora)
  BY <1>1, MultiAssumption DEF MultiInv, TypeOK, CallState
<1>3. Head(d_iters).docs \in Seq(Document)
  <2>1. Head(d_iters) \in Corpus
    BY <1>2
  <2> QED
    BY <2>1 DEF Corpus
<1>4. Len(corpora) - Len(d_iters) + 1 \in 0..Len(corpora)
  BY <1>2
<1>5. \A u \in Interrupter : upc'[u] # "call"
  BY <1>1, NobodyCalls DEF interruptVars
<1>6. FilterTypeOK' /\ currentIter' \in 0..Len(corpora')
  BY <1>1, <1>2, <1>3, <1>4, FilterOverTypes DEF TypeOK, FilterTypeOK, filterVars
<1>7. TypeOK'
  BY <1>1, <1>2, <1>6 DEF TypeOK, interruptVars
<1>8. Exclusive'
  BY <1>1 DEF MultiInv, Exclusive, interruptVars
<1>9. SearchState'
  BY <1>1, <1>3, FilterOverTypes DEF MultiInv, SearchState, filterVars
<1>10. CallState'
  BY <1>1, <1>2 DEF MultiInv, CallState
<1>11. InterruptTargetAlive'
  BY <1>5 DEF InterruptTargetAlive
<1> QED
  BY <1>7, <1>8, <1>9, <1>10, <1>11 DEF MultiInv

\* An exception of openTip releases the mutex on its way out.
LEMMA OpenTipThrowsKeeps ==
  ASSUME MultiInv, OpenTipThrows
  PROVE  MultiInv'
<1>1. TypeOK'
  BY DEF MultiInv, TypeOK, FilterTypeOK, OpenTipThrows, filterVars, interruptVars
<1>2. Exclusive'
  BY NobodyCalls, MultiAssumption DEF MultiInv, Exclusive, OpenTipThrows, interruptVars
<1>3. SearchState' /\ CallState'
  BY DEF MultiInv, SearchState, CallState, OpenTipThrows, filterVars
<1>4. InterruptTargetAlive'
  BY DEF MultiInv, InterruptTargetAlive, OpenTipThrows, interruptVars
<1> QED
  BY <1>1, <1>2, <1>3, <1>4 DEF MultiInv

\* The corpus that was opened leaves the list and the mutex is released.
LEMMA PopFrontKeeps ==
  ASSUME MultiInv, PopFront
  PROVE  MultiInv'
<1>1. d_iters \in Seq(Corpus) /\ d_iters # <<>> /\ corpora \in Seq(Corpus)
      /\ Len(d_iters) <= Len(corpora)
  BY MultiAssumption DEF MultiInv, TypeOK, CallState, PopFront
<1>2. d_iters' \in Seq(Corpus) /\ Len(d_iters') <= Len(corpora)
  <2>1. Tail(d_iters) \in Seq(Corpus) /\ Len(Tail(d_iters)) <= Len(corpora)
    BY <1>1
  <2> QED
    BY <2>1 DEF PopFront
<1>3. TypeOK'
  BY <1>2 DEF MultiInv, TypeOK, FilterTypeOK, PopFront, filterVars, interruptVars
<1>4. Exclusive'
  BY NobodyCalls, MultiAssumption DEF MultiInv, Exclusive, PopFront, interruptVars
<1>5. SearchState' /\ CallState'
  BY DEF MultiInv, SearchState, CallState, PopFront, filterVars
<1>6. InterruptTargetAlive'
  BY DEF MultiInv, InterruptTargetAlive, PopFront, interruptVars
<1> QED
  BY <1>3, <1>4, <1>5, <1>6 DEF MultiInv

----------------------------------------------------------------------------
\* What the interrupters do not touch keeps its part of the invariant.
LEMMA InterrupterLeaves ==
  ASSUME MultiInv, NEW u \in Interrupter, SetInterrupted(u) \/ FinishInterrupt(u)
  PROVE  FilterTypeOK' /\ SearchState' /\ CallState'
<1>1. /\ UNCHANGED <<f_todo, f_entry, d_file, f_buffer, fpc, f_result>>
      /\ f_interrupted' \in BOOLEAN
  <2>1. CASE InterruptCurrent(u)
    <3>1. f_interrupted' \in BOOLEAN
      BY <2>1, Zenon DEF InterruptCurrent, InterruptFilter
    <3> QED
      BY <2>1, <3>1 DEF InterruptCurrent, InterruptFilter
  <2>2. CASE SetInterrupted(u) \/ LockInterrupt(u) \/ CheckCurrent(u) \/ UnlockInterrupt(u)
    BY <2>2 DEF MultiInv, TypeOK, FilterTypeOK, SetInterrupted, LockInterrupt, CheckCurrent,
       UnlockInterrupt, filterVars
  <2> QED
    BY <2>1, <2>2 DEF FinishInterrupt
<1>2. UNCHANGED <<ipc, outcome, d_iters, currentIter>>
  BY DEF SetInterrupted, FinishInterrupt, LockInterrupt, CheckCurrent, InterruptCurrent,
     UnlockInterrupt, callVars
<1>3. FilterTypeOK'
  BY <1>1 DEF MultiInv, TypeOK, FilterTypeOK
<1>4. SearchState'
  BY <1>1, <1>2 DEF MultiInv, SearchState
<1>5. CallState'
  BY <1>1, <1>2 DEF MultiInv, CallState
<1> QED
  BY <1>3, <1>4, <1>5

\* An interrupt begins with the flag.
LEMMA SetInterruptedKeeps ==
  ASSUME MultiInv, NEW u \in Interrupter, SetInterrupted(u)
  PROVE  MultiInv'
<1>1. FilterTypeOK' /\ SearchState' /\ CallState'
  BY InterrupterLeaves
<1>2. d_interrupted' \in BOOLEAN
  BY Zenon DEF SetInterrupted
<1>3. interrupts' \in 0..MaxInterrupts
  BY MultiAssumption DEF MultiInv, TypeOK, SetInterrupted
<1>4. TypeOK'
  BY <1>1, <1>2, <1>3 DEF MultiInv, TypeOK, SetInterrupted, callVars
<1>5. upc[u] = "idle" /\ upc'[u] = "lock" /\ \A x \in Interrupter : x # u => upc'[x] = upc[x]
  BY DEF MultiInv, TypeOK, SetInterrupted
<1>6. Exclusive'
  BY <1>5 DEF MultiInv, Exclusive, SetInterrupted, callVars
<1>7. InterruptTargetAlive'
  BY <1>5 DEF MultiInv, InterruptTargetAlive, SetInterrupted
<1> QED
  BY <1>1, <1>4, <1>6, <1>7 DEF MultiInv

\* The interrupter takes the mutex, so the iterating thread does not have it.
LEMMA LockInterruptKeeps ==
  ASSUME MultiInv, NEW u \in Interrupter, LockInterrupt(u)
  PROVE  MultiInv'
<1>1. FilterTypeOK' /\ SearchState' /\ CallState'
  BY InterrupterLeaves DEF FinishInterrupt
<1>2. TypeOK'
  BY <1>1 DEF MultiInv, TypeOK, LockInterrupt, callVars
<1>3. upc[u] = "lock" /\ upc'[u] = "check" /\ \A x \in Interrupter : x # u => upc'[x] = upc[x]
  BY DEF MultiInv, TypeOK, LockInterrupt
<1>4. Exclusive'
  BY <1>3, MultiAssumption DEF MultiInv, Exclusive, LockInterrupt, callVars
<1>5. InterruptTargetAlive'
  BY <1>3 DEF MultiInv, InterruptTargetAlive, LockInterrupt
<1> QED
  BY <1>1, <1>2, <1>4, <1>5 DEF MultiInv

\* The interrupter looks for an iterator to call.
LEMMA CheckCurrentKeeps ==
  ASSUME MultiInv, NEW u \in Interrupter, CheckCurrent(u)
  PROVE  MultiInv'
<1>1. FilterTypeOK' /\ SearchState' /\ CallState'
  BY InterrupterLeaves DEF FinishInterrupt
<1>2. currentIter \in Nat
  <2>1. Len(corpora) \in Nat /\ currentIter \in 0..Len(corpora)
    BY MultiAssumption DEF MultiInv, TypeOK
  <2> QED
    BY <2>1
<1>3. TypeOK'
  BY <1>1, <1>2 DEF MultiInv, TypeOK, CheckCurrent, callVars
<1>4. /\ upc[u] = "check" /\ upc'[u] \in {"unlock", "call"}
      /\ upc'[u] = "call" => currentIter # 0
      /\ target'[u] = currentIter
      /\ \A x \in Interrupter : x # u => upc'[x] = upc[x] /\ target'[x] = target[x]
  BY DEF MultiInv, TypeOK, CheckCurrent
<1>5. Exclusive'
  BY <1>4 DEF MultiInv, Exclusive, CheckCurrent, callVars
<1>6. InterruptTargetAlive'
  BY <1>4 DEF MultiInv, InterruptTargetAlive, CheckCurrent
<1> QED
  BY <1>1, <1>3, <1>5, <1>6 DEF MultiInv

\* It calls the iterator, or leaves.
LEMMA InterruptEndsKeeps ==
  ASSUME MultiInv, NEW u \in Interrupter, InterruptCurrent(u) \/ UnlockInterrupt(u)
  PROVE  MultiInv'
<1>1. FilterTypeOK' /\ SearchState' /\ CallState'
  BY InterrupterLeaves DEF FinishInterrupt
<1>2. stopped' \in BOOLEAN
  <2>1. CASE InterruptCurrent(u)
    BY <2>1 DEF MultiInv, TypeOK, InterruptCurrent
  <2>2. CASE UnlockInterrupt(u)
    BY <2>2, Zenon DEF UnlockInterrupt
  <2> QED
    BY <2>1, <2>2
<1>3. TypeOK'
  BY <1>1, <1>2 DEF MultiInv, TypeOK, InterruptCurrent, UnlockInterrupt, callVars
<1>4. \A x \in Interrupter : x # u => upc'[x] = upc[x]
  BY DEF MultiInv, TypeOK, InterruptCurrent, UnlockInterrupt
<1>5. Exclusive'
  <2>1. CASE InterruptCurrent(u)
    <3>1. upc[u] = "call" /\ upc'[u] = "unlock"
      BY <2>1 DEF MultiInv, TypeOK, InterruptCurrent
    <3> QED
      BY <1>4, <2>1, <3>1 DEF MultiInv, Exclusive, InterruptCurrent, callVars
  <2>2. CASE UnlockInterrupt(u)
    <3>1. upc[u] = "unlock" /\ upc'[u] = "idle"
      BY <2>2 DEF MultiInv, TypeOK, UnlockInterrupt
    <3> QED
      BY <1>4, <2>2, <3>1, MultiAssumption DEF MultiInv, Exclusive, UnlockInterrupt, callVars
  <2> QED
    BY <2>1, <2>2
<1>6. InterruptTargetAlive'
  <2>1. upc'[u] # "call" /\ UNCHANGED <<currentIter, target>>
    BY DEF MultiInv, TypeOK, InterruptCurrent, UnlockInterrupt
  <2> QED
    BY <1>4, <2>1 DEF MultiInv, InterruptTargetAlive
<1> QED
  BY <1>1, <1>3, <1>5, <1>6 DEF MultiInv

\* Every step keeps the invariant.
LEMMA NextKeeps ==
  ASSUME MultiInv, [Next]_vars
  PROVE  MultiInv'
<1>1. CASE Iterate
  BY <1>1, CallMultiKeeps, WhileTestKeeps, SearchKeeps, AnswerKeeps, LockCurrentKeeps,
     ResetCurrentKeeps, OpenTipKeeps, OpenTipThrowsKeeps, PopFrontKeeps, ReturnTestKeeps,
     NextEntryKeeps DEF Iterate
<1>2. CASE \E u \in Interrupter : SetInterrupted(u) \/ FinishInterrupt(u)
  BY <1>2, SetInterruptedKeeps, LockInterruptKeeps, CheckCurrentKeeps, InterruptEndsKeeps
     DEF FinishInterrupt
<1>3. CASE UNCHANGED vars
  <2>1. TypeOK'
    BY <1>3 DEF MultiInv, TypeOK, FilterTypeOK, vars, filterVars, callVars, interruptVars
  <2>2. Exclusive'
    BY <1>3 DEF MultiInv, Exclusive, vars, callVars, interruptVars
  <2>3. SearchState' /\ CallState'
    BY <1>3 DEF MultiInv, SearchState, CallState, vars, filterVars, callVars
  <2>4. InterruptTargetAlive'
    BY <1>3 DEF MultiInv, InterruptTargetAlive, vars, interruptVars
  <2> QED
    BY <2>1, <2>2, <2>3, <2>4 DEF MultiInv
<1> QED
  BY <1>1, <1>2, <1>3 DEF Next

----------------------------------------------------------------------------
\* The inductive invariant holds in every state of every behaviour.
THEOREM Invariance == Spec => []MultiInv
<1>1. Init => MultiInv
  BY InitHolds
<1>2. MultiInv /\ [Next]_vars => MultiInv'
  BY NextKeeps
<1> QED
  BY <1>1, <1>2, PTL DEF Spec

\* The variables of the iterator and its interrupters keep their types.
THEOREM TypeCorrect == Spec => []TypeOK
<1>1. MultiInv => TypeOK
  BY DEF MultiInv
<1> QED
  BY <1>1, Invariance, PTL

\* The iterator an interrupter calls is the one it found, still in place.
THEOREM TargetAlive == Spec => []InterruptTargetAlive
<1>1. MultiInv => InterruptTargetAlive
  BY DEF MultiInv
<1> QED
  BY <1>1, Invariance, PTL

----------------------------------------------------------------------------
(* The results come in order, and all of them.                             *)

\* How many corpora have left the list, and where the search in the current one
\* stands: its documents, how many of them are dealt with, and what they yield.
Popped == Len(corpora) - Len(d_iters)
Docs == corpora[currentIter].docs
Taken == IF fpc \in {"flag", "parse"} THEN 1 ELSE 0
Handled == Len(Docs) - Len(f_todo) - Taken
Before(i) == Joined(ExpectedOf)[i]
FoundIn(i) == Joined(ResultsOf(Docs))[i]

\* The list has the corpora that were not popped.
ListFollows ==
  \A k \in 1..Len(d_iters) : d_iters[k] = corpora[Popped + k]

\* The search has the documents it has not taken, the last one it parsed, and of
\* that one the results not yet handed out; those handed out and these together
\* are what the documents it has dealt with yield.
InCorpus ==
  /\ corpora[currentIter].opening = "good"
  /\ Handled \in 0..Len(Docs)
  /\ \A k \in 1..Len(f_todo) : f_todo[k] = Docs[Len(Docs) - Len(f_todo) + k]
  /\ \A k \in 1..Len(f_buffer) : f_buffer[k] = d_file
  /\ fpc # "parse" => d_file = IF Handled = 0 THEN NoFile ELSE Docs[Handled].file
  /\ fpc \in {"flag", "parse"} =>
       /\ f_buffer = <<>>
       /\ Handled + 1 \in 1..Len(Docs)
       /\ f_entry = Docs[Handled + 1]
       /\ ~Repeated(Docs, Handled + 1)
  /\ fpc = "parse" => d_file = f_entry.file
  /\ delivered \o Under(corpora[currentIter].name, f_buffer)
       = Before(currentIter - 1) \o Under(corpora[currentIter].name, FoundIn(Handled))

\* Between two corpora, and where there is none, all before is delivered.
Between ==
  currentIter = 0 \/ ipc \in {"lock", "reset"} =>
    delivered = Before(Popped) /\ f_buffer = <<>>

\* The current corpus is the last one that was popped, or is about to be popped.
CurrentFollows ==
  /\ ipc \notin {"reset", "open", "pop"} => currentIter \in {0, Popped}
  /\ ipc = "open" => currentIter = 0
  /\ ipc = "pop" => currentIter \in {0, Popped + 1}
  /\ ipc = "pop" /\ currentIter = 0 => corpora[Popped + 1].opening # "good"

Alive ==
  outcome \in {"none", "more"} /\ f_result \notin {"interrupted", "error"}

\* How the calls and the search are ordered.
Course ==
  /\ ipc # "outside" => outcome = "none"
  /\ f_result \in {"interrupted", "error"} =>
       ipc \in {"asking", "answering"} \/ outcome \in {"interrupted", "error"}
  /\ f_result = "empty" /\ fpc = "out" /\ ipc \in {"asking", "answering"} =>
       f_buffer = <<>> /\ f_todo = <<>>
  /\ ipc = "asking" => currentIter # 0
  /\ fpc # "out" => ipc \in {"asking", "answering"} /\ f_result = "none"

\* No corpus is left, or the current one has a result: why the loop is over.
LoopOver ==
  ipc \in {"return", "answering"} /\ ~d_interrupted => d_iters = <<>> \/ f_buffer # <<>>

Progress ==
  Alive => (currentIter # 0 => InCorpus) /\ Between /\ CurrentFollows /\ LoopOver

Ordered ==
  ListFollows /\ Course /\ Progress /\ DeliveredInOrder /\ UninterruptedIsComplete

OrderInv == MultiInv /\ Ordered

----------------------------------------------------------------------------
(* Sequences of results.                                                   *)

LEMMA JoinedIs ==
  ASSUME NEW S, NEW seqs \in Seq(Seq(S))
  PROVE  /\ Joined(seqs) \in [0..Len(seqs) -> Seq(S)]
         /\ Joined(seqs)[0] = <<>>
         /\ \A i \in 1..Len(seqs) : Joined(seqs)[i] = Joined(seqs)[i - 1] \o seqs[i]
<1> DEFINE n == Len(seqs)
           T == Seq(S)
           none == <<>>
           g == [m \in Nat |-> [s \in T |-> IF m + 1 <= n THEN s \o seqs[m + 1] ELSE s]]
           step(f) == [i \in 0..n |-> IF i = 0 THEN <<>> ELSE f[i - 1] \o seqs[i]]
           upTo == CHOOSE f : f = step(f)
<1>1. n \in Nat /\ \A i \in 1..n : seqs[i] \in T
  OBVIOUS
<1>2. none \in T /\ g \in [Nat -> [T -> T]]
  <2>1. ASSUME NEW m \in Nat, NEW s \in T
        PROVE  (IF m + 1 <= n THEN s \o seqs[m + 1] ELSE s) \in T
    <3>1. m + 1 <= n => m + 1 \in 1..n
      BY <1>1
    <3>2. m + 1 <= n => seqs[m + 1] \in T
      BY <1>1, <3>1
    <3> QED
      BY <3>2
  <2>2. none \in T
    OBVIOUS
  <2> HIDE DEF T, n, none
  <2> QED
    BY <2>1, <2>2
<1>3. PICK f : Iterates(f, T, none, g)
  <2> HIDE DEF T, none, g
  <2> QED
    BY <1>2, Recursion
<1> DEFINE h == [i \in 0..n |-> f[i]]
<1>4. ASSUME NEW i \in 1..n PROVE f[i] = f[i - 1] \o seqs[i]
  <2>1. i - 1 \in Nat /\ (i - 1) + 1 = i /\ i <= n
    BY <1>1
  <2>2. f[(i - 1) + 1] = g[i - 1][f[i - 1]] /\ f[i - 1] \in T
    BY <1>3, <2>1 DEF Iterates
  <2> HIDE DEF T, n
  <2> QED
    BY <2>1, <2>2
<1>5. h = step(h)
  <2>1. h[0] = <<>>
    BY <1>1, <1>3 DEF Iterates
  <2>2. ASSUME NEW i \in 1..n PROVE h[i] = h[i - 1] \o seqs[i]
    <3>1. i \in 0..n /\ i - 1 \in 0..n
      BY <1>1
    <3> QED
      BY <1>4, <3>1
  <2>3. \A i \in 0..n : h[i] = IF i = 0 THEN <<>> ELSE h[i - 1] \o seqs[i]
    <3>1. \A i \in 0..n : i # 0 => i \in 1..n
      BY <1>1
    <3> HIDE DEF h
    <3> QED
      BY <2>1, <2>2, <3>1
  <2>4. h = [i \in 0..n |-> h[i]]
    OBVIOUS
  <2> HIDE DEF h
  <2> QED
    BY <2>3, <2>4
<1>6. upTo = step(upTo)
  <2> HIDE DEF step
  <2> QED
    BY <1>5
<1>7. Joined(seqs) = upTo
  BY DEF Joined
<1> HIDE DEF upTo
<1>8. upTo[0] = <<>> /\ \A i \in 1..n : upTo[i] = upTo[i - 1] \o seqs[i]
  <2>1. 0 \in 0..n /\ \A i \in 1..n : i \in 0..n /\ i # 0
    BY <1>1
  <2> QED
    BY <1>6, <2>1
<1>9. \A i \in 0..n : upTo[i] \in T
  <2> DEFINE Q == {i \in Nat : i <= n => upTo[i] \in T}
  <2>1. 0 \in Q
    <3>1. upTo[0] \in T
      BY <1>2, <1>8
    <3> HIDE DEF T
    <3> QED
      BY <3>1
  <2>2. ASSUME NEW i \in Nat, i \in Q PROVE i + 1 \in Q
    <3> SUFFICES ASSUME i + 1 <= n PROVE upTo[i + 1] \in T
      OBVIOUS
    <3>1. i + 1 \in 1..n /\ (i + 1) - 1 = i /\ i <= n
      BY <1>1
    <3>2. upTo[i + 1] = upTo[i] \o seqs[i + 1] /\ upTo[i] \in T /\ seqs[i + 1] \in T
      BY <1>1, <1>8, <2>2, <3>1
    <3> QED
      BY <3>2
  <2>3. Nat \subseteq Q
    <3> HIDE DEF Q
    <3> QED
      BY <2>1, <2>2, Induction
  <2> QED
    BY <1>1, <2>3
<1>10. upTo = [i \in 0..n |-> upTo[i]]
  BY <1>6
<1> QED
  BY <1>7, <1>8, <1>9, <1>10

\* s begins t.
Begins(s, t) == Len(s) <= Len(t) /\ \A k \in 1..Len(s) : t[k] = s[k]

LEMMA BeginsItself ==
  ASSUME NEW S, NEW s \in Seq(S), NEW t \in Seq(S)
  PROVE  Begins(s, s) /\ Begins(s, s \o t)
<1>1. Len(s) \in Nat /\ Len(t) \in Nat /\ Len(s \o t) = Len(s) + Len(t)
  OBVIOUS
<1>2. \A k \in 1..Len(s) : (s \o t)[k] = s[k]
  OBVIOUS
<1> QED
  BY <1>1, <1>2 DEF Begins

LEMMA BeginsOn ==
  ASSUME NEW S, NEW s \in Seq(S), NEW t \in Seq(S), NEW u \in Seq(S), Begins(s, t), Begins(t, u)
  PROVE  Begins(s, u)
BY DEF Begins

LEMMA BeginsAfter ==
  ASSUME NEW S, NEW s \in Seq(S), NEW t \in Seq(S), NEW u \in Seq(S), Begins(t, u)
  PROVE  Begins(s \o t, s \o u)
<1>1. /\ Len(s) \in Nat /\ Len(t) \in Nat /\ Len(u) \in Nat
      /\ Len(s \o t) = Len(s) + Len(t) /\ Len(s \o u) = Len(s) + Len(u)
  OBVIOUS
<1>2. ASSUME NEW k \in 1..Len(s \o t) PROVE (s \o u)[k] = (s \o t)[k]
  <2>1. CASE k <= Len(s)
    BY <1>1, <2>1
  <2>2. CASE k > Len(s)
    <3>1. k - Len(s) \in 1..Len(t) /\ k - Len(s) \in 1..Len(u)
      BY <1>1, <2>2 DEF Begins
    <3>2. (s \o t)[k] = t[k - Len(s)] /\ (s \o u)[k] = u[k - Len(s)]
      BY <1>1, <2>2, <3>1
    <3> QED
      BY <3>1, <3>2 DEF Begins
  <2>3. k <= Len(s) \/ k > Len(s)
    BY <1>1
  <2> QED
    BY <2>1, <2>2, <2>3
<1> QED
  BY <1>1, <1>2 DEF Begins

LEMMA BeginsJoined ==
  ASSUME NEW S, NEW seqs \in Seq(Seq(S)), NEW i \in 0..Len(seqs)
  PROVE  \A j \in i..Len(seqs) : Begins(Joined(seqs)[i], Joined(seqs)[j])
<1> DEFINE n == Len(seqs)
           J == Joined(seqs)
           Q == {d \in Nat : i + d <= n => Begins(J[i], J[i + d])}
<1>1. /\ n \in Nat /\ i \in Nat /\ i <= n
      /\ \A k \in 0..n : J[k] \in Seq(S)
      /\ \A k \in 1..n : J[k] = J[k - 1] \o seqs[k] /\ seqs[k] \in Seq(S)
  <2>1. /\ J \in [0..n -> Seq(S)]
        /\ \A k \in 1..n : J[k] = J[k - 1] \o seqs[k]
    BY JoinedIs
  <2>2. n \in Nat /\ i \in Nat /\ i <= n /\ \A k \in 1..n : seqs[k] \in Seq(S)
    OBVIOUS
  <2> HIDE DEF J, n
  <2> QED
    BY <2>1, <2>2
<1> HIDE DEF J, n
<1>2. 0 \in Q
  <2>1. J[i] \in Seq(S) /\ i + 0 = i
    BY <1>1
  <2>2. Begins(J[i], J[i])
    BY <2>1, BeginsItself
  <2> QED
    BY <2>1, <2>2
<1>3. ASSUME NEW d \in Nat, d \in Q PROVE d + 1 \in Q
  <2> SUFFICES ASSUME i + (d + 1) <= n PROVE Begins(J[i], J[i + (d + 1)])
    OBVIOUS
  <2> DEFINE k == i + (d + 1)
  <2>1. k \in 1..n /\ k \in 0..n /\ k - 1 \in 0..n /\ i \in 0..n /\ k - 1 = i + d /\ i + d <= n
    BY <1>1
  <2>2. Begins(J[i], J[k - 1])
    BY <1>3, <2>1
  <2> HIDE DEF k
  <2>3. Begins(J[k - 1], J[k])
    BY <1>1, <2>1, BeginsItself
  <2>4. Begins(J[i], J[k])
    BY <1>1, <2>1, <2>2, <2>3, BeginsOn
  <2> QED
    BY <2>4 DEF k
<1>4. Nat \subseteq Q
  <2> HIDE DEF Q
  <2> QED
    BY <1>2, <1>3, Induction
<1>5. ASSUME NEW j \in i..n PROVE Begins(J[i], J[j])
  <2>1. j - i \in Nat /\ i + (j - i) = j /\ j <= n
    BY <1>1
  <2>2. i + (j - i) <= n => Begins(J[i], J[i + (j - i)])
    BY <1>4, <2>1
  <2> QED
    BY <2>1, <2>2
<1> QED
  BY <1>5 DEF J, n

----------------------------------------------------------------------------
(* Results under the name of their corpus.                                 *)

LEMMA UnderType ==
  ASSUME NEW name \in CorpusName, NEW s \in Seq(File)
  PROVE  /\ Under(name, s) \in Seq(CorpusName \X File)
         /\ Len(Under(name, s)) = Len(s)
         /\ \A k \in 1..Len(s) : Under(name, s)[k] = <<name, s[k]>>
<1>1. Len(s) \in Nat /\ \A k \in 1..Len(s) : <<name, s[k]>> \in CorpusName \X File
  OBVIOUS
<1> QED
  BY <1>1 DEF Under

LEMMA UnderNone ==
  ASSUME NEW name
  PROVE  Under(name, <<>>) = <<>>
BY DEF Under

LEMMA SameSequence ==
  ASSUME NEW S, NEW s \in Seq(S), NEW t \in Seq(S), Len(s) = Len(t),
         \A k \in 1..Len(s) : s[k] = t[k]
  PROVE  s = t
OBVIOUS

LEMMA Joined3 ==
  ASSUME NEW S, NEW s \in Seq(S), NEW t \in Seq(S)
  PROVE  /\ s \o t \in Seq(S) /\ Len(s \o t) = Len(s) + Len(t)
         /\ \A k \in 1..Len(s) : (s \o t)[k] = s[k]
         /\ \A k \in 1..Len(t) : (s \o t)[Len(s) + k] = t[k]
OBVIOUS

LEMMA UnderJoins ==
  ASSUME NEW name \in CorpusName, NEW s \in Seq(File), NEW t \in Seq(File)
  PROVE  Under(name, s \o t) = Under(name, s) \o Under(name, t)
<1> DEFINE a == Under(name, s)
           b == Under(name, t)
           c == Under(name, s \o t)
           T == CorpusName \X File
<1>1. /\ s \o t \in Seq(File) /\ Len(s \o t) = Len(s) + Len(t)
      /\ \A k \in 1..Len(s) : (s \o t)[k] = s[k]
      /\ \A k \in 1..Len(t) : (s \o t)[Len(s) + k] = t[k]
  BY Joined3
<1>2. /\ a \in Seq(T) /\ Len(a) = Len(s) /\ \A k \in 1..Len(s) : a[k] = <<name, s[k]>>
      /\ b \in Seq(T) /\ Len(b) = Len(t) /\ \A k \in 1..Len(t) : b[k] = <<name, t[k]>>
      /\ c \in Seq(T) /\ Len(c) = Len(s \o t)
      /\ \A k \in 1..Len(s \o t) : c[k] = <<name, (s \o t)[k]>>
  BY <1>1, UnderType
<1> HIDE DEF a, b, c, T
<1>3. /\ a \o b \in Seq(T) /\ Len(a \o b) = Len(a) + Len(b)
      /\ \A k \in 1..Len(a) : (a \o b)[k] = a[k]
      /\ \A k \in 1..Len(b) : (a \o b)[Len(a) + k] = b[k]
  <2>1. a \in Seq(T) /\ b \in Seq(T)
    BY <1>2
  <2> QED
    BY <2>1, Joined3
<1>4. Len(s) \in Nat /\ Len(t) \in Nat
  OBVIOUS
<1>5. ASSUME NEW k \in 1..Len(c) PROVE c[k] = (a \o b)[k]
  <2>1. k \in Nat /\ k <= Len(s) + Len(t) /\ k \in 1..Len(s \o t) /\ c[k] = <<name, (s \o t)[k]>>
    BY <1>1, <1>2, <1>4
  <2>2. CASE k \in 1..Len(s)
    BY <1>1, <1>2, <1>3, <2>1, <2>2
  <2>3. CASE k \notin 1..Len(s)
    <3>1. k - Len(s) \in 1..Len(t) /\ Len(s) + (k - Len(s)) = k
      BY <1>2, <1>4, <2>1, <2>3
    <3>2. (s \o t)[k] = t[k - Len(s)] /\ (a \o b)[k] = b[k - Len(s)]
      BY <1>1, <1>2, <1>3, <3>1
    <3> QED
      BY <1>2, <2>1, <3>1, <3>2
  <2> QED
    BY <2>2, <2>3
<1>6. c = a \o b
  <2>1. Len(c) = Len(a \o b)
    BY <1>1, <1>2, <1>3
  <2> QED
    BY <1>2, <1>3, <1>5, <2>1, SameSequence
<1> QED
  BY <1>6 DEF a, b, c

LEMMA Associative ==
  ASSUME NEW S, NEW s \in Seq(S), NEW t \in Seq(S), NEW u \in Seq(S)
  PROVE  (s \o t) \o u = s \o (t \o u)
OBVIOUS

LEMMA JoinsNone ==
  ASSUME NEW S, NEW s \in Seq(S)
  PROVE  s \o <<>> = s /\ <<>> \o s = s
OBVIOUS

\* The first of t moves to the end of s.
LEMMA Moving ==
  ASSUME NEW S, NEW s \in Seq(S), NEW t \in Seq(S), t # <<>>
  PROVE  Append(s, t[1]) \o Tail(t) = s \o t
<1> DEFINE a == Append(s, t[1])
           b == Tail(t)
<1>1. /\ Len(s) \in Nat /\ Len(t) \in Nat /\ Len(t) >= 1 /\ t[1] \in S
      /\ a \in Seq(S) /\ Len(a) = Len(s) + 1
      /\ b \in Seq(S) /\ Len(b) = Len(t) - 1
  OBVIOUS
<1>2. /\ \A k \in 1..Len(s) : a[k] = s[k]
      /\ a[Len(s) + 1] = t[1]
      /\ \A k \in 1..(Len(t) - 1) : b[k] = t[k + 1]
  OBVIOUS
<1> HIDE DEF a, b
<1>3. /\ a \o b \in Seq(S) /\ Len(a \o b) = Len(a) + Len(b)
      /\ \A k \in 1..Len(a) : (a \o b)[k] = a[k]
      /\ \A k \in 1..Len(b) : (a \o b)[Len(a) + k] = b[k]
  <2>1. a \in Seq(S) /\ b \in Seq(S)
    BY <1>1
  <2> QED
    BY <2>1, Joined3
<1>4. /\ s \o t \in Seq(S) /\ Len(s \o t) = Len(s) + Len(t)
      /\ \A k \in 1..Len(s) : (s \o t)[k] = s[k]
      /\ \A k \in 1..Len(t) : (s \o t)[Len(s) + k] = t[k]
  BY Joined3
<1>5. ASSUME NEW k \in 1..Len(a \o b) PROVE (a \o b)[k] = (s \o t)[k]
  <2>1. k \in Nat /\ 1 <= k /\ k <= Len(s) + Len(t)
    BY <1>1, <1>3
  <2>2. CASE k \in 1..Len(s)
    <3>1. k \in 1..Len(a)
      BY <1>1, <2>2
    <3> QED
      BY <1>2, <1>3, <1>4, <2>2, <3>1
  <2>3. CASE k = Len(s) + 1
    <3>1. k \in 1..Len(a) /\ 1 \in 1..Len(t)
      BY <1>1, <2>3
    <3> QED
      BY <1>2, <1>3, <1>4, <2>3, <3>1
  <2>4. CASE k \notin 1..Len(s) /\ k # Len(s) + 1
    <3> DEFINE m == k - Len(a)
    <3>1. /\ m \in 1..Len(b) /\ Len(a) + m = k /\ m \in 1..(Len(t) - 1)
          /\ m + 1 \in 1..Len(t) /\ Len(s) + (m + 1) = k
      BY <1>1, <2>1, <2>4
    <3> HIDE DEF m
    <3>2. (a \o b)[k] = b[m] /\ (s \o t)[k] = t[m + 1] /\ b[m] = t[m + 1]
      BY <1>2, <1>3, <1>4, <3>1
    <3> QED
      BY <3>2
  <2> QED
    BY <2>2, <2>3, <2>4
<1>6. Len(a \o b) = Len(s \o t)
  BY <1>1, <1>3, <1>4
<1>7. a \o b = s \o t
  BY <1>3, <1>4, <1>5, <1>6, SameSequence
<1> QED
  BY <1>7 DEF a, b

----------------------------------------------------------------------------
(* What the query has to deliver.                                          *)

LEMMA ResultsTypes ==
  ASSUME NEW docs \in Seq(Document)
  PROVE  /\ ResultsOf(docs) \in Seq(Seq(File)) /\ Len(ResultsOf(docs)) = Len(docs)
         /\ \A i \in 1..Len(docs) : ResultsOf(docs)[i] \in Seq(File)
         /\ \A i \in 1..Len(docs) :
              Repeated(docs, i) \/ docs[i].hits = Unreadable => ResultsOf(docs)[i] = <<>>
         /\ \A i \in 1..Len(docs) :
              ~Repeated(docs, i) /\ docs[i].hits # Unreadable =>
                ResultsOf(docs)[i] = [k \in 1..docs[i].hits |-> docs[i].file]
<1> DEFINE hits(i) == IF Repeated(docs, i) \/ docs[i].hits = Unreadable THEN 0 ELSE docs[i].hits
           of(i) == [k \in 1..hits(i) |-> docs[i].file]
<1>1. ASSUME NEW i \in 1..Len(docs) PROVE docs[i].file \in File /\ hits(i) \in Nat
  <2>1. docs[i] \in Document
    OBVIOUS
  <2>2. docs[i].file \in File /\ docs[i].hits \in Nat \cup {Unreadable}
    BY <2>1 DEF Document
  <2> QED
    BY <2>2
<1>2. ASSUME NEW i \in 1..Len(docs) PROVE of(i) \in Seq(File)
  <2> HIDE DEF hits
  <2> QED
    BY <1>1, ConstantSeq
<1>3. ResultsOf(docs) = [i \in 1..Len(docs) |-> of(i)]
  BY DEF ResultsOf
<1>4. Len(docs) \in Nat
  OBVIOUS
<1>5. ResultsOf(docs) \in Seq(Seq(File)) /\ Len(ResultsOf(docs)) = Len(docs)
  <2> HIDE DEF of
  <2> QED
    BY <1>2, <1>3, <1>4
<1>6. \A i \in 1..Len(docs) : ResultsOf(docs)[i] = of(i)
  <2> HIDE DEF of
  <2> QED
    BY <1>3
<1>7. ASSUME NEW i \in 1..Len(docs), Repeated(docs, i) \/ docs[i].hits = Unreadable
      PROVE  of(i) = <<>>
  <2>1. hits(i) = 0
    BY <1>7
  <2> QED
    BY <2>1
<1>8. ASSUME NEW i \in 1..Len(docs), ~Repeated(docs, i), docs[i].hits # Unreadable
      PROVE  of(i) = [k \in 1..docs[i].hits |-> docs[i].file]
  <2>1. hits(i) = docs[i].hits
    BY <1>8
  <2> QED
    BY <2>1
<1> HIDE DEF of
<1> QED
  BY <1>2, <1>5, <1>6, <1>7, <1>8

LEMMA FoundFacts ==
  ASSUME NEW docs \in Seq(Document)
  PROVE  /\ \A i \in 0..Len(docs) : Joined(ResultsOf(docs))[i] \in Seq(File)
         /\ Joined(ResultsOf(docs))[0] = <<>>
         /\ \A i \in 1..Len(docs) :
              Joined(ResultsOf(docs))[i] = Joined(ResultsOf(docs))[i - 1] \o ResultsOf(docs)[i]
         /\ \A i \in 0..Len(docs) : Begins(Joined(ResultsOf(docs))[i], Results(docs))
<1>1. ResultsOf(docs) \in Seq(Seq(File)) /\ Len(ResultsOf(docs)) = Len(docs) /\ Len(docs) \in Nat
  BY ResultsTypes
<1> DEFINE r == ResultsOf(docs)
<1> HIDE DEF r
<1>2. r \in Seq(Seq(File)) /\ Len(r) = Len(docs)
  BY <1>1 DEF r
<1>3. /\ Joined(r) \in [0..Len(r) -> Seq(File)]
      /\ Joined(r)[0] = <<>>
      /\ \A i \in 1..Len(r) : Joined(r)[i] = Joined(r)[i - 1] \o r[i]
  BY <1>2, JoinedIs
<1>4. ASSUME NEW i \in 0..Len(r) PROVE Begins(Joined(r)[i], Joined(r)[Len(r)])
  <2>1. \A j \in i..Len(r) : Begins(Joined(r)[i], Joined(r)[j])
    BY <1>2, BeginsJoined
  <2>2. Len(r) \in i..Len(r)
    BY <1>1, <1>2
  <2> QED
    BY <2>1, <2>2
<1> QED
  BY <1>2, <1>3, <1>4 DEF Results, r

LEMMA CorpusTypes ==
  ASSUME MultiInv
  PROVE  /\ corpora \in Seq(Corpus) /\ Len(corpora) \in Nat
         /\ \A i \in 1..Len(corpora) :
              /\ corpora[i] \in Corpus /\ corpora[i].name \in CorpusName
              /\ corpora[i].docs \in Seq(Document) /\ corpora[i].opening \in Opening
<1>1. corpora \in Seq(Corpus)
  BY MultiAssumption DEF MultiInv, TypeOK
<1>2. ASSUME NEW i \in 1..Len(corpora)
      PROVE  /\ corpora[i] \in Corpus /\ corpora[i].name \in CorpusName
             /\ corpora[i].docs \in Seq(Document) /\ corpora[i].opening \in Opening
  <2>1. corpora[i] \in Corpus
    BY <1>1
  <2> QED
    BY <2>1 DEF Corpus
<1> QED
  BY <1>1, <1>2

LEMMA ExpectedTypes ==
  ASSUME MultiInv
  PROVE  /\ ExpectedOf \in Seq(Seq(CorpusName \X File)) /\ Len(ExpectedOf) = Len(corpora)
         /\ \A i \in 1..Len(corpora) :
              /\ ExpectedOf[i] \in Seq(CorpusName \X File)
              /\ corpora[i].opening = "good" =>
                   ExpectedOf[i] = Under(corpora[i].name, Results(corpora[i].docs))
              /\ corpora[i].opening # "good" => ExpectedOf[i] = <<>>
<1> DEFINE T == CorpusName \X File
           of(i) == IF corpora[i].opening = "good"
                      THEN Under(corpora[i].name, Results(corpora[i].docs)) ELSE <<>>
<1>1. /\ Len(corpora) \in Nat
      /\ \A i \in 1..Len(corpora) :
           corpora[i].name \in CorpusName /\ corpora[i].docs \in Seq(Document)
  BY CorpusTypes
<1>2. ASSUME NEW i \in 1..Len(corpora) PROVE of(i) \in Seq(T)
  <2> DEFINE docs == corpora[i].docs
             name == corpora[i].name
  <2>1. docs \in Seq(Document) /\ name \in CorpusName
    BY <1>1
  <2> HIDE DEF docs, name
  <2>2. Len(docs) \in 0..Len(docs) /\ Len(docs) = Len(ResultsOf(docs))
    BY <2>1, ResultsTypes
  <2>3. \A k \in 0..Len(docs) : Joined(ResultsOf(docs))[k] \in Seq(File)
    BY <2>1, FoundFacts
  <2>4. Results(docs) \in Seq(File)
    BY <2>2, <2>3 DEF Results
  <2>5. Under(name, Results(docs)) \in Seq(T)
    BY <2>1, <2>4, UnderType
  <2>6. <<>> \in Seq(T)
    OBVIOUS
  <2> HIDE DEF T
  <2> QED
    BY <2>5, <2>6 DEF docs, name
<1>3. ExpectedOf = [i \in 1..Len(corpora) |-> of(i)]
  BY DEF ExpectedOf
<1>4. \A i \in 1..Len(corpora) : ExpectedOf[i] = of(i)
  <2> HIDE DEF of
  <2> QED
    BY <1>3
<1>5. ExpectedOf \in Seq(Seq(T)) /\ Len(ExpectedOf) = Len(corpora)
  <2> HIDE DEF of, T
  <2> QED
    BY <1>1, <1>2, <1>3
<1>6. ASSUME NEW i \in 1..Len(corpora)
      PROVE  /\ corpora[i].opening = "good" =>
                  ExpectedOf[i] = Under(corpora[i].name, Results(corpora[i].docs))
             /\ corpora[i].opening # "good" => ExpectedOf[i] = <<>>
  BY <1>4
<1> HIDE DEF of
<1> QED
  BY <1>2, <1>4, <1>5, <1>6

LEMMA BeforeFacts ==
  ASSUME MultiInv
  PROVE  /\ \A i \in 0..Len(corpora) : Before(i) \in Seq(CorpusName \X File)
         /\ Before(0) = <<>>
         /\ \A i \in 1..Len(corpora) : Before(i) = Before(i - 1) \o ExpectedOf[i]
         /\ \A i \in 0..Len(corpora) : Begins(Before(i), Expected)
         /\ Before(Len(corpora)) = Expected
         /\ Expected \in Seq(CorpusName \X File)
<1> DEFINE T == CorpusName \X File
           e == ExpectedOf
           n == Len(corpora)
<1>1. e \in Seq(Seq(T)) /\ Len(e) = n /\ n \in Nat
  BY ExpectedTypes, CorpusTypes
<1> HIDE DEF T, e, n
<1>3. /\ Joined(e) \in [0..Len(e) -> Seq(T)]
      /\ Joined(e)[0] = <<>>
      /\ \A i \in 1..Len(e) : Joined(e)[i] = Joined(e)[i - 1] \o e[i]
  BY <1>1, JoinedIs
<1>4. ASSUME NEW i \in 0..n PROVE Begins(Joined(e)[i], Joined(e)[n])
  <2>1. \A j \in i..n : Begins(Joined(e)[i], Joined(e)[j])
    BY <1>1, BeginsJoined
  <2>2. n \in i..n
    BY <1>1
  <2> QED
    BY <2>1, <2>2
<1>5. Joined(e)[n] \in Seq(T)
  BY <1>1, <1>3
<1> QED
  BY <1>1, <1>3, <1>4, <1>5 DEF Before, Expected, T, e, n

\* They do not change while it iterates.
LEMMA ExpectedStays ==
  ASSUME corpora' = corpora
  PROVE  ExpectedOf' = ExpectedOf /\ Expected' = Expected /\ \A i : Before(i)' = Before(i)
<1>1. ExpectedOf' = ExpectedOf
  BY DEF ExpectedOf
<1> QED
  BY <1>1 DEF Expected, Before

----------------------------------------------------------------------------
(* What does not change.                                                   *)

LEMMA ListStays ==
  ASSUME ListFollows, UNCHANGED <<corpora, d_iters>>
  PROVE  ListFollows' /\ Popped' = Popped
BY DEF ListFollows, Popped

\* Where the search goes on with the document it is at, if any.
SamePlace == fpc' = fpc \/ (fpc \notin {"flag", "parse"} /\ fpc' \notin {"flag", "parse"})

LEMMA CorpusStays ==
  ASSUME InCorpus, SamePlace,
         UNCHANGED <<corpora, currentIter, f_todo, f_entry, d_file, f_buffer, delivered>>
  PROVE  InCorpus'
<1>1. Docs' = Docs /\ Taken' = Taken /\ f_todo' = f_todo
  BY DEF Docs, Taken, SamePlace
<1>2. Handled' = Handled
  BY <1>1 DEF Handled
<1>3. FoundIn(Handled)' = FoundIn(Handled)
  BY <1>1, <1>2 DEF FoundIn
<1>4. Before(currentIter - 1)' = Before(currentIter - 1)
  <2>1. \A i : Joined(ExpectedOf')[i] = Joined(ExpectedOf)[i]
    BY ExpectedStays
  <2> QED
    BY <2>1 DEF Before
<1>5. /\ corpora' = corpora /\ currentIter' = currentIter /\ f_entry' = f_entry
      /\ d_file' = d_file /\ f_buffer' = f_buffer /\ delivered' = delivered
  OBVIOUS
<1>6. fpc' = "parse" => fpc = "parse"
  BY DEF SamePlace
<1>7. fpc' # "parse" => fpc # "parse"
  BY DEF SamePlace
<1>8. fpc' \in {"flag", "parse"} => fpc \in {"flag", "parse"}
  BY DEF SamePlace
<1>9. /\ corpora[currentIter].opening = "good"
      /\ Handled \in 0..Len(Docs)
      /\ \A k \in 1..Len(f_todo) : f_todo[k] = Docs[Len(Docs) - Len(f_todo) + k]
      /\ \A k \in 1..Len(f_buffer) : f_buffer[k] = d_file
      /\ delivered \o Under(corpora[currentIter].name, f_buffer)
           = Before(currentIter - 1) \o Under(corpora[currentIter].name, FoundIn(Handled))
  BY DEF InCorpus
<1>10. fpc' # "parse" => d_file = IF Handled = 0 THEN NoFile ELSE Docs[Handled].file
  BY <1>7 DEF InCorpus
<1>11. fpc' \in {"flag", "parse"} =>
        /\ f_buffer = <<>>
        /\ Handled + 1 \in 1..Len(Docs)
        /\ f_entry = Docs[Handled + 1]
        /\ ~Repeated(Docs, Handled + 1)
  BY <1>8 DEF InCorpus
<1>12. fpc' = "parse" => d_file = f_entry.file
  BY <1>6 DEF InCorpus
<1>13. Repeated(Docs, Handled + 1)' <=> Repeated(Docs, Handled + 1)
  BY <1>1, <1>2 DEF Repeated
<1> QED
  BY <1>1, <1>2, <1>3, <1>4, <1>5, <1>9, <1>10, <1>11, <1>12, <1>13 DEF InCorpus

LEMMA BetweenStays ==
  ASSUME Between, UNCHANGED <<corpora, d_iters, delivered, f_buffer>>,
         (currentIter' = 0 \/ ipc' \in {"lock", "reset"}) =>
           (currentIter = 0 \/ ipc \in {"lock", "reset"})
  PROVE  Between'
<1>1. Before(Popped)' = Before(Popped)
  <2>1. \A i : Joined(ExpectedOf')[i] = Joined(ExpectedOf)[i]
    BY ExpectedStays
  <2> QED
    BY <2>1 DEF Before, Popped
<1> QED
  BY <1>1 DEF Between

\* What is delivered stays right where nothing more is.
LEMMA OrderStays ==
  ASSUME DeliveredInOrder, UNCHANGED <<corpora, delivered>>
  PROVE  DeliveredInOrder'
<1>1. Expected' = Expected
  BY ExpectedStays
<1> QED
  BY <1>1 DEF DeliveredInOrder

LEMMA CompletenessStays ==
  ASSUME UninterruptedIsComplete, UNCHANGED <<corpora, delivered>>,
         outcome' = "done" => outcome = "done" /\ (d_interrupted => d_interrupted')
  PROVE  UninterruptedIsComplete'
<1>1. Expected' = Expected
  BY ExpectedStays
<1> QED
  BY <1>1 DEF UninterruptedIsComplete

\* The iteration starts where it should.
LEMMA InitOrder ==
  ASSUME Init
  PROVE  OrderInv
<1>1. MultiInv
  BY InitHolds
<1>2. /\ d_iters = corpora /\ currentIter = 0 /\ ipc = "outside" /\ outcome = "none"
      /\ delivered = <<>> /\ f_buffer = <<>> /\ fpc = "out" /\ f_result = "none"
  BY DEF Init, FilterInit
<1>3. Popped = 0
  BY <1>1, <1>2, CorpusTypes DEF Popped
<1>4. Before(0) = <<>> /\ Expected \in Seq(CorpusName \X File)
  BY <1>1, BeforeFacts
<1>5. ListFollows
  BY <1>2, <1>3 DEF ListFollows
<1>6. Between /\ CurrentFollows /\ LoopOver
  BY <1>2, <1>3, <1>4 DEF Between, CurrentFollows, LoopOver
<1>7. Course /\ Progress
  BY <1>2, <1>6 DEF Course, Progress
<1>8. DeliveredInOrder
  BY <1>2, <1>4 DEF DeliveredInOrder
<1>9. UninterruptedIsComplete
  BY <1>2 DEF UninterruptedIsComplete
<1> QED
  BY <1>1, <1>5, <1>7, <1>8, <1>9 DEF OrderInv, Ordered

----------------------------------------------------------------------------
(* The steps that deliver nothing.                                         *)

\* hasNext begins; it may find that it was interrupted.
LEMMA CallMultiOrder ==
  ASSUME OrderInv, CallMulti
  PROVE  Ordered'
<1>1. /\ UNCHANGED <<filterVars, corpora, d_iters, currentIter, d_interrupted, delivered>>
      /\ ipc = "outside" /\ outcome = "none"
      /\ \/ outcome' = "interrupted" /\ ipc' = "outside"
         \/ outcome' = "none" /\ ipc' = "while"
  BY DEF CallMulti
<1>2. UNCHANGED <<f_todo, f_entry, d_file, f_buffer, f_interrupted, fpc, f_result>>
  BY <1>1 DEF filterVars
<1>3. ListFollows' /\ Popped' = Popped /\ DeliveredInOrder' /\ UninterruptedIsComplete'
  BY <1>1, ListStays, OrderStays, CompletenessStays DEF OrderInv, Ordered
<1>4. Course'
  BY <1>1, <1>2 DEF OrderInv, Ordered, Course
<1>5. Progress'
  <2> SUFFICES ASSUME Alive' PROVE /\ currentIter' # 0 => InCorpus'
                                   /\ Between' /\ CurrentFollows' /\ LoopOver'
    BY DEF Progress
  <2>1. Alive /\ outcome' = "none" /\ ipc' = "while"
    BY <1>1, <1>2 DEF Alive
  <2>2. (currentIter # 0 => InCorpus) /\ Between /\ CurrentFollows
    BY <2>1 DEF OrderInv, Ordered, Progress
  <2>3. currentIter' # 0 => InCorpus'
    BY <1>1, <1>2, <2>2, CorpusStays DEF SamePlace
  <2>4. Between'
    BY <1>1, <1>2, <2>1, <2>2, BetweenStays
  <2>5. CurrentFollows' /\ LoopOver'
    BY <1>1, <1>3, <2>1, <2>2 DEF CurrentFollows, LoopOver
  <2> QED
    BY <2>3, <2>4, <2>5
<1> QED
  BY <1>3, <1>4, <1>5 DEF Ordered

\* The loop ends, asks the current iterator, or goes to the next corpus.
LEMMA WhileTestOrder ==
  ASSUME OrderInv, WhileTest
  PROVE  Ordered'
<1>1. /\ UNCHANGED <<corpora, d_iters, currentIter, d_interrupted, outcome, delivered>>
      /\ ipc = "while"
      /\ UNCHANGED <<f_todo, f_entry, d_file, f_buffer, f_interrupted>>
      /\ \/ /\ d_iters = <<>> \/ d_interrupted
            /\ ipc' = "return" /\ UNCHANGED <<fpc, f_result>>
         \/ /\ currentIter = 0
            /\ ipc' = "lock" /\ UNCHANGED <<fpc, f_result>>
         \/ /\ currentIter # 0
            /\ ipc' = "asking" /\ fpc = "out" /\ fpc' = "reset" /\ f_result' = "none"
  BY DEF WhileTest, CallHasNext, filterVars
<1>2. outcome = "none" /\ fpc = "out" /\ f_result \notin {"interrupted", "error"} /\ Alive
  BY <1>1 DEF OrderInv, Ordered, Course, MultiInv, TypeOK, FilterTypeOK, Alive
<1>3. ListFollows' /\ Popped' = Popped /\ DeliveredInOrder' /\ UninterruptedIsComplete'
  BY <1>1, ListStays, OrderStays, CompletenessStays DEF OrderInv, Ordered
<1>4. Course'
  BY <1>1, <1>2 DEF OrderInv, Ordered, Course
<1>5. Progress'
  <2>1. (currentIter # 0 => InCorpus) /\ Between /\ CurrentFollows
    BY <1>2 DEF OrderInv, Ordered, Progress
  <2>2. currentIter' # 0 => InCorpus'
    BY <1>1, <1>2, <2>1, CorpusStays DEF SamePlace
  <2>3. Between'
    BY <1>1, <2>1, BetweenStays
  <2>4. CurrentFollows' /\ LoopOver'
    BY <1>1, <1>3, <2>1 DEF CurrentFollows, LoopOver
  <2> QED
    BY <2>2, <2>3, <2>4 DEF Progress
<1> QED
  BY <1>3, <1>4, <1>5 DEF Ordered

\* An exception ends the iteration.
LEMMA ThrowsOrder ==
  ASSUME OrderInv, SearchThrows \/ OpenTipThrows
  PROVE  Ordered'
<1>1. /\ UNCHANGED <<filterVars, corpora, d_iters, currentIter, d_interrupted, delivered>>
      /\ ipc \in {"asking", "answering", "open"} /\ ipc' = "outside"
      /\ outcome' \in {"interrupted", "error"}
      /\ ipc # "open" => fpc = "out"
  BY DEF SearchThrows, OpenTipThrows, Searched
<1>2. UNCHANGED <<f_todo, f_entry, d_file, f_buffer, f_interrupted, fpc, f_result>>
  BY <1>1 DEF filterVars
<1>3. ListFollows' /\ DeliveredInOrder' /\ UninterruptedIsComplete'
  BY <1>1, ListStays, OrderStays, CompletenessStays DEF OrderInv, Ordered
<1>4. Course'
  BY <1>1, <1>2 DEF OrderInv, Ordered, Course
<1>5. Progress'
  BY <1>1 DEF Progress, Alive
<1> QED
  BY <1>3, <1>4, <1>5 DEF Ordered

\* The mutex is taken to replace the current iterator.
LEMMA LockCurrentOrder ==
  ASSUME OrderInv, LockCurrent
  PROVE  Ordered'
<1>1. /\ UNCHANGED <<filterVars, corpora, d_iters, currentIter, d_interrupted, outcome, delivered>>
      /\ ipc = "lock" /\ ipc' = "reset"
  BY DEF LockCurrent
<1>2. UNCHANGED <<f_todo, f_entry, d_file, f_buffer, f_interrupted, fpc, f_result>>
  BY <1>1 DEF filterVars
<1>3. ListFollows' /\ Popped' = Popped /\ DeliveredInOrder' /\ UninterruptedIsComplete'
  BY <1>1, ListStays, OrderStays, CompletenessStays DEF OrderInv, Ordered
<1>4. Course'
  BY <1>1, <1>2 DEF OrderInv, Ordered, Course
<1>5. Progress'
  <2> SUFFICES ASSUME Alive' PROVE /\ currentIter' # 0 => InCorpus'
                                   /\ Between' /\ CurrentFollows' /\ LoopOver'
    BY DEF Progress
  <2>1. Alive
    BY <1>1, <1>2 DEF Alive
  <2>2. (currentIter # 0 => InCorpus) /\ Between /\ CurrentFollows
    BY <2>1 DEF OrderInv, Ordered, Progress
  <2>3. currentIter' # 0 => InCorpus'
    BY <1>1, <1>2, <2>2, CorpusStays DEF SamePlace
  <2>4. Between'
    BY <1>1, <1>2, <2>2, BetweenStays
  <2>5. CurrentFollows' /\ LoopOver'
    BY <1>1, <1>3, <2>2 DEF CurrentFollows, LoopOver
  <2> QED
    BY <2>3, <2>4, <2>5
<1> QED
  BY <1>3, <1>4, <1>5 DEF Ordered

\* The iterator that was at its end goes.
LEMMA ResetCurrentOrder ==
  ASSUME OrderInv, ResetCurrent
  PROVE  Ordered'
<1>1. /\ UNCHANGED <<corpora, d_iters, d_interrupted, outcome, delivered>>
      /\ ipc = "reset" /\ ipc' = "open" /\ currentIter' = 0
      /\ f_buffer' = <<>> /\ fpc' = "out" /\ f_result' = "none"
  BY DEF ResetCurrent, FilterOver
<1>2. outcome = "none" /\ Alive
  BY <1>1 DEF OrderInv, Ordered, Course, Alive, MultiInv, TypeOK, FilterTypeOK
<1>3. ListFollows' /\ Popped' = Popped /\ DeliveredInOrder' /\ UninterruptedIsComplete'
  BY <1>1, ListStays, OrderStays, CompletenessStays DEF OrderInv, Ordered
<1>4. Course'
  BY <1>1, <1>2 DEF Course
<1>5. Progress'
  <2>1. delivered = Before(Popped) /\ f_buffer = <<>>
    BY <1>1, <1>2 DEF OrderInv, Ordered, Progress, Between
  <2>2. Between /\ f_buffer' = f_buffer
    BY <1>1, <1>2, <2>1 DEF OrderInv, Ordered, Progress
  <2>3. Between'
    BY <1>1, <2>2, BetweenStays
  <2>4. CurrentFollows' /\ LoopOver'
    BY <1>1 DEF CurrentFollows, LoopOver
  <2> QED
    BY <1>1, <2>3, <2>4 DEF Progress
<1> QED
  BY <1>3, <1>4, <1>5 DEF Ordered

\* The interrupters do not touch what is delivered or what is still to come.
LEMMA InterruptersOrder ==
  ASSUME OrderInv, NEW u \in Interrupter, SetInterrupted(u) \/ FinishInterrupt(u)
  PROVE  Ordered'
<1>1. /\ UNCHANGED <<corpora, d_iters, currentIter, ipc, outcome, delivered>>
      /\ UNCHANGED <<f_todo, f_entry, d_file, f_buffer, fpc, f_result>>
      /\ d_interrupted => d_interrupted'
  BY DEF SetInterrupted, FinishInterrupt, LockInterrupt, CheckCurrent, InterruptCurrent,
     UnlockInterrupt, InterruptFilter, filterVars, callVars
<1>2. ListFollows' /\ Popped' = Popped /\ DeliveredInOrder' /\ UninterruptedIsComplete'
  BY <1>1, ListStays, OrderStays, CompletenessStays DEF OrderInv, Ordered
<1>3. Course'
  BY <1>1 DEF OrderInv, Ordered, Course
<1>4. Progress'
  <2> SUFFICES ASSUME Alive' PROVE /\ currentIter' # 0 => InCorpus'
                                   /\ Between' /\ CurrentFollows' /\ LoopOver'
    BY DEF Progress
  <2>1. Alive
    BY <1>1 DEF Alive
  <2>2. (currentIter # 0 => InCorpus) /\ Between /\ CurrentFollows /\ LoopOver
    BY <2>1 DEF OrderInv, Ordered, Progress
  <2>3. currentIter' # 0 => InCorpus'
    BY <1>1, <2>2, CorpusStays DEF SamePlace
  <2>4. Between'
    BY <1>1, <2>2, BetweenStays
  <2>5. CurrentFollows' /\ LoopOver'
    BY <1>1, <1>2, <2>2 DEF CurrentFollows, LoopOver
  <2> QED
    BY <2>3, <2>4, <2>5
<1> QED
  BY <1>2, <1>3, <1>4 DEF Ordered

\* A corpus whose search is at its end is delivered.
LEMMA CorpusDone ==
  ASSUME MultiInv, InCorpus, currentIter # 0, fpc = "out", f_buffer = <<>>, f_todo = <<>>
  PROVE  delivered = Before(currentIter)
<1> DEFINE T == CorpusName \X File
           name == corpora[currentIter].name
<1>1. currentIter \in 1..Len(corpora)
  BY CorpusTypes DEF MultiInv, TypeOK
<1>2. Docs \in Seq(Document) /\ Len(Docs) \in Nat /\ corpora[currentIter].opening = "good"
  BY <1>1, CorpusTypes DEF Docs, InCorpus
<1>3. Handled = Len(Docs)
  BY <1>2 DEF Handled, Taken
<1>4. FoundIn(Handled) = Results(Docs)
  BY <1>3 DEF FoundIn, Results
<1>5. delivered \o Under(name, <<>>) = Before(currentIter - 1) \o Under(name, Results(Docs))
  BY <1>4 DEF InCorpus
<1>6. delivered \in Seq(T) /\ Under(name, <<>>) = <<>>
  BY UnderNone DEF MultiInv, TypeOK
<1>7. delivered \o <<>> = delivered
  BY <1>6, JoinsNone
<1>8. ExpectedOf[currentIter] = Under(name, Results(Docs))
  BY <1>1, <1>2, ExpectedTypes DEF Docs
<1>9. Before(currentIter) = Before(currentIter - 1) \o ExpectedOf[currentIter]
  BY <1>1, BeforeFacts
<1> QED
  BY <1>5, <1>6, <1>7, <1>8, <1>9

\* The loop asked the current iterator.
LEMMA LoopAnsweredOrder ==
  ASSUME OrderInv, LoopAnswered
  PROVE  Ordered'
<1>1. /\ UNCHANGED <<filterVars, corpora, d_iters, currentIter, d_interrupted, outcome, delivered>>
      /\ ipc = "asking" /\ fpc = "out"
      /\ \/ f_result = "more" /\ ipc' = "return"
         \/ f_result = "empty" /\ ipc' = "lock"
  BY DEF LoopAnswered, Searched
<1>2. UNCHANGED <<f_todo, f_entry, d_file, f_buffer, f_interrupted, fpc, f_result>>
  BY <1>1 DEF filterVars
<1>3. ListFollows' /\ Popped' = Popped /\ DeliveredInOrder' /\ UninterruptedIsComplete'
  BY <1>1, ListStays, OrderStays, CompletenessStays DEF OrderInv, Ordered
<1>4. Course'
  BY <1>1, <1>2 DEF OrderInv, Ordered, Course
<1>5. Progress'
  <2> SUFFICES ASSUME Alive' PROVE /\ currentIter' # 0 => InCorpus'
                                   /\ Between' /\ CurrentFollows' /\ LoopOver'
    BY DEF Progress
  <2>1. Alive
    BY <1>1, <1>2 DEF Alive
  <2>2. /\ (currentIter # 0 => InCorpus) /\ Between /\ CurrentFollows
        /\ currentIter # 0 /\ currentIter = Popped
    BY <1>1, <2>1 DEF OrderInv, Ordered, Progress, Course, CurrentFollows
  <2>3. currentIter' # 0 => InCorpus'
    BY <1>1, <1>2, <2>2, CorpusStays DEF SamePlace
  <2>4. Between'
    <3>1. CASE ipc' = "return"
      BY <1>1, <1>2, <2>2, <3>1, BetweenStays
    <3>2. CASE ipc' = "lock"
      <4>1. f_result = "empty"
        BY <1>1, <3>2
      <4>2. f_buffer = <<>> /\ f_todo = <<>>
        BY <1>1, <4>1 DEF OrderInv, Ordered, Course
      <4>3. delivered = Before(Popped)
        BY <1>1, <2>2, <4>2, CorpusDone DEF OrderInv
      <4>4. Before(Popped)' = Before(Popped)
        <5>1. \A i : Joined(ExpectedOf')[i] = Joined(ExpectedOf)[i]
          BY <1>1, ExpectedStays
        <5> QED
          BY <1>3, <5>1 DEF Before
      <4> QED
        BY <1>1, <1>2, <4>2, <4>3, <4>4 DEF Between
    <3> QED
      BY <1>1, <3>1, <3>2
  <2>5. CurrentFollows'
    BY <1>1, <1>3, <2>2 DEF CurrentFollows
  <2>6. LoopOver'
    BY <1>1, <1>2 DEF LoopOver, OrderInv, MultiInv, SearchState
  <2> QED
    BY <2>3, <2>4, <2>5, <2>6
<1> QED
  BY <1>3, <1>4, <1>5 DEF Ordered

\* Where the list is used up and nothing is buffered, all is delivered.
LEMMA AllDelivered ==
  ASSUME MultiInv, d_iters = <<>>, delivered = Before(Popped)
  PROVE  delivered = Expected
<1>1. Popped = Len(corpora)
  BY CorpusTypes DEF Popped
<1> QED
  BY <1>1, BeforeFacts

\* The value of hasNext: no current iterator, or what that one says.
LEMMA ReturnTestOrder ==
  ASSUME OrderInv, ReturnTest
  PROVE  Ordered'
<1>1. /\ UNCHANGED <<corpora, d_iters, currentIter, d_interrupted, delivered>>
      /\ ipc = "return"
      /\ UNCHANGED <<f_todo, f_entry, d_file, f_buffer, f_interrupted>>
      /\ \/ /\ currentIter = 0
            /\ ipc' = "outside" /\ outcome' = "done" /\ UNCHANGED <<fpc, f_result>>
         \/ /\ currentIter # 0
            /\ ipc' = "answering" /\ outcome' = outcome
            /\ fpc = "out" /\ fpc' = "reset" /\ f_result' = "none"
  BY DEF ReturnTest, CallHasNext, filterVars
<1>2. outcome = "none" /\ fpc = "out" /\ f_result \notin {"interrupted", "error"} /\ Alive
  BY <1>1 DEF OrderInv, Ordered, Course, MultiInv, TypeOK, FilterTypeOK, Alive
<1>3. ListFollows' /\ Popped' = Popped /\ DeliveredInOrder'
  BY <1>1, ListStays, OrderStays DEF OrderInv, Ordered
<1>4. Course'
  BY <1>1, <1>2 DEF Course
<1>5. (currentIter # 0 => InCorpus) /\ Between /\ CurrentFollows /\ LoopOver
  BY <1>2 DEF OrderInv, Ordered, Progress
<1>6. Progress'
  <2>1. CASE outcome' = "done"
    BY <2>1 DEF Progress, Alive
  <2>2. CASE outcome' # "done"
    <3>1. ipc' = "answering" /\ currentIter # 0
      BY <1>1, <2>2
    <3>2. currentIter' # 0 => InCorpus'
      BY <1>1, <1>2, <1>5, CorpusStays DEF SamePlace
    <3>3. Between'
      BY <1>1, <1>5, <3>1, BetweenStays
    <3>4. CurrentFollows' /\ LoopOver'
      BY <1>1, <1>3, <1>5, <3>1 DEF CurrentFollows, LoopOver
    <3> QED
      BY <3>2, <3>3, <3>4 DEF Progress
  <2> QED
    BY <2>1, <2>2
<1>7. UninterruptedIsComplete'
  <2>1. CASE outcome' = "done" /\ ~d_interrupted'
    <3>1. currentIter = 0 /\ ~d_interrupted
      BY <1>1, <1>2, <2>1
    <3>2. delivered = Before(Popped) /\ d_iters = <<>>
      BY <1>1, <1>5, <3>1 DEF Between, LoopOver
    <3>3. delivered = Expected
      BY <3>2, AllDelivered DEF OrderInv
    <3>4. Expected' = Expected
      BY <1>1, ExpectedStays
    <3> QED
      BY <1>1, <3>3, <3>4 DEF UninterruptedIsComplete
  <2> QED
    BY <2>1 DEF UninterruptedIsComplete
<1> QED
  BY <1>3, <1>4, <1>6, <1>7 DEF Ordered

LEMMA ReturnAnsweredOrder ==
  ASSUME OrderInv, ReturnAnswered
  PROVE  Ordered'
<1>1. /\ UNCHANGED <<filterVars, corpora, d_iters, currentIter, d_interrupted, delivered>>
      /\ ipc = "answering" /\ fpc = "out" /\ ipc' = "outside"
      /\ \/ f_result = "more" /\ outcome' = "more"
         \/ f_result = "empty" /\ outcome' = "done"
  BY DEF ReturnAnswered, Searched
<1>2. UNCHANGED <<f_todo, f_entry, d_file, f_buffer, f_interrupted, fpc, f_result>>
  BY <1>1 DEF filterVars
<1>3. outcome = "none" /\ Alive
  BY <1>1 DEF OrderInv, Ordered, Course, Alive
<1>4. ListFollows' /\ Popped' = Popped /\ DeliveredInOrder'
  BY <1>1, ListStays, OrderStays DEF OrderInv, Ordered
<1>5. Course'
  BY <1>1, <1>2 DEF OrderInv, Ordered, Course
<1>6. /\ (currentIter # 0 => InCorpus) /\ Between /\ CurrentFollows /\ LoopOver
      /\ currentIter # 0 /\ currentIter = Popped
  BY <1>1, <1>3 DEF OrderInv, Ordered, Progress, MultiInv, CallState, CurrentFollows
<1>7. Progress'
  <2>1. currentIter' # 0 => InCorpus'
    BY <1>1, <1>2, <1>6, CorpusStays DEF SamePlace
  <2>2. Between'
    BY <1>1, <1>6 DEF Between
  <2>3. CurrentFollows' /\ LoopOver'
    BY <1>1, <1>4, <1>6 DEF CurrentFollows, LoopOver
  <2> QED
    BY <2>1, <2>2, <2>3 DEF Progress
<1>8. UninterruptedIsComplete'
  <2>1. CASE outcome' = "done" /\ ~d_interrupted'
    <3>1. f_buffer = <<>> /\ f_todo = <<>> /\ ~d_interrupted
      BY <1>1, <2>1 DEF OrderInv, Ordered, Course
    <3>2. delivered = Before(Popped) /\ d_iters = <<>>
      BY <1>1, <1>6, <3>1, CorpusDone DEF LoopOver, OrderInv
    <3>3. delivered = Expected
      BY <3>2, AllDelivered DEF OrderInv
    <3>4. Expected' = Expected
      BY <1>1, ExpectedStays
    <3> QED
      BY <1>1, <3>3, <3>4 DEF UninterruptedIsComplete
  <2> QED
    BY <2>1 DEF UninterruptedIsComplete
<1> QED
  BY <1>4, <1>5, <1>7, <1>8 DEF Ordered

\* The corpus at the front is opened, or refuses.
LEMMA OpenTipOrder ==
  ASSUME OrderInv, OpenTip
  PROVE  Ordered'
<1> DEFINE c == Popped + 1
           T == CorpusName \X File
<1>1. /\ UNCHANGED <<corpora, d_iters, d_interrupted, outcome, delivered>>
      /\ ipc = "open" /\ ipc' = "pop"
      /\ \/ /\ Head(d_iters).opening = "good" /\ currentIter' = c
            /\ FilterOver(Head(d_iters).docs)
         \/ /\ Head(d_iters).opening # "good" /\ currentIter' = currentIter
            /\ UNCHANGED <<f_todo, f_entry, d_file, f_buffer, fpc, f_result>>
  BY DEF OpenTip, Popped, filterVars
<1>2. /\ d_iters \in Seq(Corpus) /\ d_iters # <<>> /\ Len(d_iters) <= Len(corpora)
      /\ outcome = "none" /\ fpc = "out" /\ f_result \notin {"interrupted", "error"} /\ Alive
  BY <1>1 DEF OrderInv, Ordered, Course, MultiInv, TypeOK, FilterTypeOK, Alive, CallState
<1>3. /\ ListFollows' /\ Popped' = Popped /\ DeliveredInOrder' /\ UninterruptedIsComplete'
  BY <1>1, ListStays, OrderStays, CompletenessStays DEF OrderInv, Ordered
<1>4. /\ Len(corpora) \in Nat /\ Len(d_iters) \in Nat /\ Len(d_iters) >= 1
      /\ Popped \in 0..Len(corpora) /\ c \in 1..Len(corpora) /\ c - 1 = Popped
  BY <1>2, CorpusTypes DEF Popped
<1>5. Head(d_iters) = corpora[c]
  <2>1. 1 \in 1..Len(d_iters)
    BY <1>4
  <2>2. d_iters[1] = corpora[Popped + 1]
    BY <2>1 DEF OrderInv, Ordered, ListFollows
  <2> QED
    BY <1>2, <2>2
<1>6. currentIter = 0 /\ delivered = Before(Popped) /\ f_buffer = <<>>
  BY <1>1, <1>2 DEF OrderInv, Ordered, Progress, CurrentFollows, Between
<1>7. Before(Popped)' = Before(Popped) /\ \A i : Joined(ExpectedOf')[i] = Joined(ExpectedOf)[i]
  <2>1. \A i : Joined(ExpectedOf')[i] = Joined(ExpectedOf)[i]
    BY <1>1, ExpectedStays
  <2> QED
    BY <1>3, <2>1 DEF Before
<1> HIDE DEF c
<1>8. CASE Head(d_iters).opening # "good"
  <2>1. /\ currentIter' = 0 /\ f_buffer' = <<>> /\ fpc' = fpc /\ f_result' = f_result
    BY <1>1, <1>6, <1>8
  <2>2. Course'
    BY <1>1, <1>2, <2>1 DEF Course
  <2>3. Between' /\ LoopOver'
    BY <1>1, <1>6, <1>7, <2>1 DEF Between, LoopOver
  <2>4. CurrentFollows'
    BY <1>1, <1>3, <1>5, <1>8, <2>1 DEF CurrentFollows, c
  <2>5. Progress'
    BY <2>1, <2>3, <2>4 DEF Progress
  <2> QED
    BY <1>3, <2>2, <2>5 DEF Ordered
<1>9. CASE Head(d_iters).opening = "good"
  <2> DEFINE docs == corpora[c].docs
             name == corpora[c].name
  <2>1. /\ docs \in Seq(Document) /\ name \in CorpusName /\ Len(docs) \in Nat
        /\ corpora[c].opening = "good"
    BY <1>4, <1>5, <1>9, CorpusTypes DEF OrderInv
  <2>2. currentIter' = c /\ FilterOver(docs)
    BY <1>1, <1>5, <1>9
  <2> HIDE DEF docs
  <2>3. /\ f_todo' = docs /\ d_file' = NoFile /\ f_buffer' = <<>>
        /\ fpc' = "out" /\ f_result' = "none"
    BY <2>2 DEF FilterOver
  <2>4. Docs' = docs /\ Handled' = 0
    <3>1. Docs' = docs
      BY <1>1, <2>2 DEF Docs, docs
    <3>2. Taken' = 0
      BY <2>3 DEF Taken
    <3> QED
      BY <2>1, <2>3, <3>1, <3>2 DEF Handled
  <2>5. FoundIn(Handled)' = <<>>
    <3>1. Joined(ResultsOf(docs))[0] = <<>>
      BY <2>1, FoundFacts
    <3> QED
      BY <2>4, <3>1 DEF FoundIn
  <2>6. Before(currentIter - 1)' = Before(Popped)
    BY <1>4, <1>7, <2>2 DEF Before
  <2>7. delivered' \o <<>> = Before(Popped) \o <<>> /\ Under(name, <<>>) = <<>>
    <3>1. delivered' = Before(Popped)
      BY <1>1, <1>6
    <3> QED
      BY <3>1, UnderNone
  <2>8. InCorpus'
    <3>1. corpora'[currentIter'] = corpora[c] /\ corpora'[currentIter'].name = name
      BY <1>1, <2>2
    <3>2. \A k \in 1..Len(f_todo') : f_todo'[k] = Docs'[Len(Docs') - Len(f_todo') + k]
      BY <2>1, <2>3, <2>4
    <3>3. delivered' \o Under(name, f_buffer')
            = Before(currentIter - 1)' \o Under(name, FoundIn(Handled)')
      BY <2>3, <2>5, <2>6, <2>7
    <3> HIDE DEF name
    <3> QED
      BY <2>1, <2>3, <2>4, <3>1, <3>2, <3>3 DEF InCorpus
  <2>9. Course'
    BY <1>1, <1>2, <2>3 DEF Course
  <2>10. Between' /\ CurrentFollows' /\ LoopOver'
    <3>1. currentIter' # 0 /\ currentIter' = Popped' + 1
      BY <1>3, <1>4, <2>2 DEF c
    <3> QED
      BY <1>1, <3>1 DEF Between, CurrentFollows, LoopOver
  <2> QED
    BY <1>3, <2>8, <2>9, <2>10 DEF Ordered, Progress
<1> QED
  BY <1>8, <1>9

\* The corpus at the front is popped: one that would not open yields nothing.
LEMMA PopFrontOrder ==
  ASSUME OrderInv, PopFront
  PROVE  Ordered'
<1> DEFINE c == Popped + 1
           T == CorpusName \X File
<1>1. /\ UNCHANGED <<corpora, currentIter, d_interrupted, outcome, delivered>>
      /\ UNCHANGED <<f_todo, f_entry, d_file, f_buffer, fpc, f_result>>
      /\ ipc = "pop" /\ ipc' = "while" /\ d_iters' = Tail(d_iters)
  BY DEF PopFront, filterVars
<1>2. /\ d_iters \in Seq(Corpus) /\ d_iters # <<>> /\ Len(d_iters) <= Len(corpora)
      /\ outcome = "none" /\ fpc = "out" /\ f_result \notin {"interrupted", "error"} /\ Alive
  BY <1>1 DEF OrderInv, Ordered, Course, MultiInv, TypeOK, FilterTypeOK, Alive, CallState
<1>3. /\ Len(corpora) \in Nat /\ Len(d_iters) \in Nat /\ Len(d_iters) >= 1
      /\ Len(d_iters') = Len(d_iters) - 1
      /\ \A k \in 1..Len(d_iters') : d_iters'[k] = d_iters[k + 1] /\ k + 1 \in 1..Len(d_iters)
  BY <1>1, <1>2, CorpusTypes
<1>4. /\ Popped' = c /\ Popped \in 0..Len(corpora) /\ c \in 1..Len(corpora) /\ c - 1 = Popped
  BY <1>1, <1>2, <1>3 DEF Popped
<1>5. DeliveredInOrder' /\ UninterruptedIsComplete'
  BY <1>1, OrderStays, CompletenessStays DEF OrderInv, Ordered
<1>6. ListFollows'
  <2> SUFFICES ASSUME NEW k \in 1..Len(d_iters') PROVE d_iters'[k] = corpora'[Popped' + k]
    BY DEF ListFollows
  <2>1. d_iters'[k] = d_iters[k + 1] /\ k + 1 \in 1..Len(d_iters) /\ k \in Nat
    BY <1>3
  <2>2. d_iters[k + 1] = corpora[Popped + (k + 1)]
    BY <2>1 DEF OrderInv, Ordered, ListFollows
  <2>3. Popped + (k + 1) = Popped' + k
    BY <1>4, <2>1
  <2> QED
    BY <1>1, <2>1, <2>2, <2>3
<1>7. (currentIter # 0 => InCorpus) /\ Between /\ CurrentFollows
  BY <1>2 DEF OrderInv, Ordered, Progress
<1>8. Course'
  BY <1>1, <1>2 DEF Course
<1>9. currentIter' # 0 => InCorpus'
  BY <1>1, <1>7, CorpusStays DEF SamePlace
<1>10. CurrentFollows' /\ LoopOver'
  BY <1>1, <1>4, <1>7 DEF CurrentFollows, LoopOver
<1>11. Between'
  <2> SUFFICES ASSUME currentIter = 0 PROVE delivered' = Before(Popped)' /\ f_buffer' = <<>>
    BY <1>1 DEF Between
  <2>1. delivered = Before(Popped) /\ f_buffer = <<>>
    BY <1>7 DEF Between
  <2>2. corpora[c].opening # "good"
    BY <1>1, <1>7 DEF CurrentFollows
  <2> HIDE DEF c
  <2>3. ExpectedOf[c] = <<>> /\ Before(c) = Before(c - 1) \o ExpectedOf[c]
    BY <1>4, <2>2, ExpectedTypes, BeforeFacts DEF OrderInv
  <2>4. Before(Popped) \in Seq(T)
    BY <1>4, BeforeFacts DEF OrderInv
  <2>5. Before(Popped) \o <<>> = Before(Popped)
    BY <2>4, JoinsNone
  <2>6. Before(c) = Before(Popped)
    BY <1>4, <2>3, <2>5
  <2>7. Before(Popped)' = Before(c)
    <3>1. \A i : Joined(ExpectedOf')[i] = Joined(ExpectedOf)[i]
      BY <1>1, ExpectedStays
    <3> QED
      BY <1>4, <3>1 DEF Before
  <2> QED
    BY <1>1, <2>1, <2>6, <2>7
<1> QED
  BY <1>5, <1>6, <1>8, <1>9, <1>10, <1>11 DEF Ordered, Progress

----------------------------------------------------------------------------
(* The search in a corpus.                                                 *)

LEMMA CurrentTypes ==
  ASSUME MultiInv, currentIter # 0
  PROVE  /\ currentIter \in 1..Len(corpora) /\ corpora[currentIter].name \in CorpusName
         /\ Docs \in Seq(Document) /\ Len(Docs) \in Nat
         /\ \A i \in 1..Len(Docs) :
              /\ Docs[i] \in Document /\ Docs[i].file \in File
              /\ Docs[i].hits \in Nat \cup {Unreadable} /\ Docs[i].file # NoFile
         /\ f_todo \in Seq(Document) /\ Len(f_todo) \in Nat
         /\ Before(currentIter - 1) \in Seq(CorpusName \X File)
<1>1. currentIter \in 1..Len(corpora) /\ f_todo \in Seq(Document) /\ Len(f_todo) \in Nat
  BY CorpusTypes DEF MultiInv, TypeOK, FilterTypeOK
<1>2. /\ corpora[currentIter].name \in CorpusName /\ Docs \in Seq(Document) /\ Len(Docs) \in Nat
  BY <1>1, CorpusTypes DEF Docs
<1>3. ASSUME NEW i \in 1..Len(Docs)
      PROVE  /\ Docs[i] \in Document /\ Docs[i].file \in File
             /\ Docs[i].hits \in Nat \cup {Unreadable} /\ Docs[i].file # NoFile
  <2>1. Docs[i] \in Document
    BY <1>2
  <2> QED
    BY <2>1, FilterAssumption DEF Document
<1>4. Before(currentIter - 1) \in Seq(CorpusName \X File)
  <2>1. currentIter - 1 \in 0..Len(corpora)
    BY <1>1, CorpusTypes
  <2> QED
    BY <2>1, BeforeFacts
<1> QED
  BY <1>1, <1>2, <1>3, <1>4

\* What the documents yield does not change either.
LEMMA FoundStays ==
  ASSUME UNCHANGED <<corpora, currentIter>>
  PROVE  /\ Docs' = Docs /\ Before(currentIter - 1)' = Before(currentIter - 1)
         /\ FoundIn(Handled)' = FoundIn(Handled')
<1>1. Docs' = Docs
  BY DEF Docs
<1>2. \A i : Joined(ExpectedOf')[i] = Joined(ExpectedOf)[i]
  BY ExpectedStays
<1> QED
  BY <1>1, <1>2 DEF Before, FoundIn

\* A document more: one named again yields nothing, one that can be read its results.
LEMMA FoundNext ==
  ASSUME MultiInv, currentIter # 0, NEW i \in 1..Len(Docs)
  PROVE  /\ FoundIn(i - 1) \in Seq(File) /\ FoundIn(i) \in Seq(File)
         /\ Repeated(Docs, i) \/ Docs[i].hits = Unreadable => FoundIn(i) = FoundIn(i - 1)
         /\ ~Repeated(Docs, i) /\ Docs[i].hits # Unreadable =>
              FoundIn(i) = FoundIn(i - 1) \o [k \in 1..Docs[i].hits |-> Docs[i].file]
<1>1. Docs \in Seq(Document) /\ Len(Docs) \in Nat
  BY CurrentTypes
<1> DEFINE docs == Docs
<1> HIDE DEF docs
<1>2. docs \in Seq(Document) /\ i \in 1..Len(docs)
  BY <1>1 DEF docs
<1>3. i - 1 \in 0..Len(docs) /\ i \in 0..Len(docs)
  BY <1>1 DEF docs
<1>4. /\ Joined(ResultsOf(docs))[i - 1] \in Seq(File) /\ Joined(ResultsOf(docs))[i] \in Seq(File)
      /\ Joined(ResultsOf(docs))[i] = Joined(ResultsOf(docs))[i - 1] \o ResultsOf(docs)[i]
  BY <1>2, <1>3, FoundFacts
<1>5. /\ Repeated(docs, i) \/ docs[i].hits = Unreadable => ResultsOf(docs)[i] = <<>>
      /\ ~Repeated(docs, i) /\ docs[i].hits # Unreadable =>
           ResultsOf(docs)[i] = [k \in 1..docs[i].hits |-> docs[i].file]
  BY <1>2, ResultsTypes
<1>6. Joined(ResultsOf(docs))[i - 1] \o <<>> = Joined(ResultsOf(docs))[i - 1]
  BY <1>4, JoinsNone
<1> QED
  BY <1>4, <1>5, <1>6 DEF FoundIn, docs

\* TakeDocument takes the first document that is not dealt with, and is done
\* with one that the search is at already.
LEMMA TakeDocumentFollows ==
  ASSUME MultiInv, currentIter # 0, InCorpus, TakeDocument,
         UNCHANGED <<corpora, currentIter, delivered>>
  PROVE  InCorpus'
<1> DEFINE n == Len(Docs)
           i == Handled + 1
<1>1. /\ f_todo # <<>> /\ f_buffer = <<>> /\ fpc = "loop"
      /\ f_todo' = Tail(f_todo) /\ f_entry' = Head(f_todo)
      /\ d_file' = d_file /\ f_buffer' = f_buffer
      /\ fpc' = IF Head(f_todo).file = d_file THEN "loop" ELSE "flag"
  BY DEF TakeDocument, Searching
<1>2. Docs \in Seq(Document) /\ n \in Nat /\ f_todo \in Seq(Document) /\ Len(f_todo) \in Nat
  BY CurrentTypes
<1>3. /\ Len(f_todo) >= 1 /\ Len(f_todo') = Len(f_todo) - 1 /\ Head(f_todo) = f_todo[1]
      /\ \A k \in 1..Len(f_todo') : f_todo'[k] = f_todo[k + 1] /\ k + 1 \in 1..Len(f_todo)
  BY <1>1, <1>2
<1>4. Handled = n - Len(f_todo) /\ Handled \in 0..n /\ i \in 1..n /\ i - 1 = Handled
  BY <1>1, <1>2, <1>3 DEF Handled, Taken, InCorpus
<1>5. Head(f_todo) = Docs[i]
  <2>1. 1 \in 1..Len(f_todo)
    BY <1>3
  <2>2. f_todo[1] = Docs[n - Len(f_todo) + 1]
    BY <2>1 DEF InCorpus
  <2> QED
    BY <1>3, <1>4, <2>2
<1>6. /\ Docs' = Docs /\ Before(currentIter - 1)' = Before(currentIter - 1)
      /\ FoundIn(Handled)' = FoundIn(Handled')
  BY FoundStays
<1>7. Taken' = IF fpc' = "flag" THEN 1 ELSE 0
  BY <1>1 DEF Taken
<1>8. Handled' = n - Len(f_todo') - Taken'
  BY <1>6 DEF Handled
<1>9. d_file = IF Handled = 0 THEN NoFile ELSE Docs[Handled].file
  BY <1>1 DEF InCorpus
<1>10. /\ corpora'[currentIter'] = corpora[currentIter]
       /\ corpora[currentIter].opening = "good" /\ delivered' = delivered
       /\ delivered \o Under(corpora[currentIter].name, f_buffer)
            = Before(currentIter - 1) \o Under(corpora[currentIter].name, FoundIn(Handled))
  BY DEF InCorpus
<1> HIDE DEF n, i
<1>11. \A k \in 1..Len(f_todo') : f_todo'[k] = Docs[n - Len(f_todo') + k]
  <2> SUFFICES ASSUME NEW k \in 1..Len(f_todo') PROVE f_todo'[k] = Docs[n - Len(f_todo') + k]
    OBVIOUS
  <2>1. f_todo'[k] = f_todo[k + 1] /\ k + 1 \in 1..Len(f_todo) /\ k \in Nat
    BY <1>3
  <2>2. f_todo[k + 1] = Docs[n - Len(f_todo) + (k + 1)]
    BY <2>1 DEF InCorpus, n
  <2>3. n - Len(f_todo) + (k + 1) = n - Len(f_todo') + k
    BY <1>2, <1>3, <2>1
  <2> QED
    BY <2>1, <2>2, <2>3
<1>12. CASE Head(f_todo).file = d_file
  <2>1. fpc' = "loop" /\ Handled' = i
    BY <1>1, <1>2, <1>3, <1>4, <1>7, <1>8, <1>12
  <2>2. Docs[i].file \in File /\ Docs[i].file # NoFile
    BY <1>4, CurrentTypes DEF n
  <2>3. Handled # 0 /\ Docs[i].file = Docs[Handled].file
    BY <1>5, <1>9, <1>12, <2>2
  <2>4. Repeated(Docs, i)
    BY <1>4, <2>3 DEF Repeated
  <2>5. FoundIn(i) = FoundIn(Handled)
    BY <1>4, <2>4, FoundNext DEF n
  <2>6. d_file' = IF Handled' = 0 THEN NoFile ELSE Docs[Handled'].file
    BY <1>1, <1>4, <1>5, <1>12, <2>1
  <2>7. /\ \A k \in 1..Len(f_buffer') : f_buffer'[k] = d_file'
        /\ Handled' \in 0..n
    BY <1>1, <1>2, <1>4, <2>1
  <2>8. delivered' \o Under(corpora[currentIter].name, f_buffer')
          = Before(currentIter - 1)' \o Under(corpora[currentIter].name, FoundIn(Handled)')
    BY <1>1, <1>6, <1>10, <2>1, <2>5
  <2> QED
    BY <1>6, <1>10, <1>11, <2>1, <2>6, <2>7, <2>8 DEF InCorpus, n
<1>13. CASE Head(f_todo).file # d_file
  <2>1. fpc' = "flag" /\ Handled' = Handled
    BY <1>1, <1>2, <1>3, <1>4, <1>7, <1>8, <1>13
  <2>2. ~Repeated(Docs, i)
    BY <1>4, <1>5, <1>9, <1>13 DEF Repeated
  <2>3. f_entry' = Docs'[Handled' + 1] /\ ~Repeated(Docs, Handled + 1)' /\ Handled' + 1 \in 1..Len(Docs')
    BY <1>1, <1>4, <1>5, <1>6, <2>1, <2>2 DEF Repeated, i, n
  <2>4. d_file' = IF Handled' = 0 THEN NoFile ELSE Docs[Handled'].file
    BY <1>1, <1>9, <2>1
  <2>5. /\ \A k \in 1..Len(f_buffer') : f_buffer'[k] = d_file'
        /\ Handled' \in 0..n
    BY <1>1, <1>4, <2>1
  <2>6. delivered' \o Under(corpora[currentIter].name, f_buffer')
          = Before(currentIter - 1)' \o Under(corpora[currentIter].name, FoundIn(Handled)')
    BY <1>1, <1>6, <1>10, <2>1
  <2>7. f_buffer' = <<>>
    BY <1>1
  <2> QED
    BY <1>6, <1>10, <1>11, <2>1, <2>3, <2>4, <2>5, <2>6, <2>7 DEF InCorpus, n
<1> QED
  BY <1>12, <1>13

\* A search that is not interrupted goes on to parse the document.
LEMMA TestInterruptedFollows ==
  ASSUME MultiInv, currentIter # 0, InCorpus, TestInterrupted, fpc' = "parse",
         UNCHANGED <<corpora, currentIter, delivered>>
  PROVE  InCorpus'
<1>1. /\ fpc = "flag" /\ d_file' = f_entry.file
      /\ f_todo' = f_todo /\ f_entry' = f_entry /\ f_buffer' = f_buffer
  BY DEF TestInterrupted
<1>2. /\ Docs' = Docs /\ Before(currentIter - 1)' = Before(currentIter - 1)
      /\ FoundIn(Handled)' = FoundIn(Handled')
  BY FoundStays
<1>3. Taken' = Taken
  BY <1>1 DEF Taken
<1>4. Handled' = Handled
  BY <1>1, <1>2, <1>3 DEF Handled
<1>5. /\ corpora[currentIter].opening = "good"
      /\ Handled \in 0..Len(Docs)
      /\ \A k \in 1..Len(f_todo) : f_todo[k] = Docs[Len(Docs) - Len(f_todo) + k]
      /\ delivered \o Under(corpora[currentIter].name, f_buffer)
           = Before(currentIter - 1) \o Under(corpora[currentIter].name, FoundIn(Handled))
      /\ f_buffer = <<>> /\ Handled + 1 \in 1..Len(Docs)
      /\ f_entry = Docs[Handled + 1] /\ ~Repeated(Docs, Handled + 1)
  BY <1>1 DEF InCorpus
<1>6. \A k \in 1..Len(f_buffer') : f_buffer'[k] = d_file'
  BY <1>1, <1>5
<1>7. ~Repeated(Docs, Handled + 1)'
  BY <1>2, <1>4, <1>5 DEF Repeated
<1>8. /\ corpora' = corpora /\ currentIter' = currentIter /\ delivered' = delivered
      /\ fpc' = "parse"
  OBVIOUS
<1> QED
  BY <1>1, <1>2, <1>4, <1>5, <1>6, <1>7, <1>8 DEF InCorpus

\* The results of the document are added to the buffer.
LEMMA ParseFileFollows ==
  ASSUME MultiInv, currentIter # 0, InCorpus, ParseFile, fpc' = "loop",
         UNCHANGED <<corpora, currentIter, delivered>>
  PROVE  InCorpus'
<1> DEFINE T == CorpusName \X File
           name == corpora[currentIter].name
           i == Handled + 1
           base == Before(currentIter - 1)
           hits == [k \in 1..f_entry.hits |-> d_file]
<1>1. /\ fpc = "parse" /\ f_entry.hits # Unreadable /\ f_buffer' = hits
      /\ f_todo' = f_todo /\ d_file' = d_file
  BY DEF ParseFile
<1>2. /\ Docs' = Docs /\ base' = base /\ FoundIn(Handled)' = FoundIn(Handled')
  BY FoundStays
<1>3. /\ corpora[currentIter].opening = "good"
      /\ Handled \in 0..Len(Docs)
      /\ \A k \in 1..Len(f_todo) : f_todo[k] = Docs[Len(Docs) - Len(f_todo) + k]
      /\ delivered \o Under(name, f_buffer) = base \o Under(name, FoundIn(Handled))
      /\ f_buffer = <<>> /\ i \in 1..Len(Docs)
      /\ f_entry = Docs[i] /\ ~Repeated(Docs, i) /\ d_file = f_entry.file
  BY <1>1 DEF InCorpus
<1>4. /\ name \in CorpusName /\ Len(Docs) \in Nat /\ Len(f_todo) \in Nat /\ base \in Seq(T)
      /\ delivered \in Seq(T)
      /\ Docs[i].file \in File /\ Docs[i].hits \in Nat \cup {Unreadable}
  BY <1>3, CurrentTypes DEF MultiInv, TypeOK
<1>5. Handled' = i /\ i - 1 = Handled
  <2>1. Taken = 1 /\ Taken' = 0
    BY <1>1 DEF Taken
  <2>2. Handled = Len(Docs) - Len(f_todo) - 1 /\ Handled' = Len(Docs) - Len(f_todo) - 0
    BY <1>1, <1>2, <2>1 DEF Handled
  <2> QED
    BY <1>4, <2>2
<1>6. hits \in Seq(File) /\ \A k \in 1..Len(hits) : hits[k] = d_file
  <2>1. f_entry.hits \in Nat /\ d_file \in File
    BY <1>1, <1>3, <1>4
  <2> QED
    BY <2>1, ConstantSeq
<1>7. /\ FoundIn(Handled) \in Seq(File)
      /\ FoundIn(i) = FoundIn(Handled) \o hits
  <2>1. /\ FoundIn(i - 1) \in Seq(File)
        /\ FoundIn(i) = FoundIn(i - 1) \o [k \in 1..Docs[i].hits |-> Docs[i].file]
    <3> HIDE DEF i
    <3> QED
      BY <1>1, <1>3, FoundNext
  <2> QED
    BY <1>3, <1>5, <2>1
<1> HIDE DEF i, name, base, hits, T
<1>8. delivered \o Under(name, hits) = base \o Under(name, FoundIn(i))
  <2> DEFINE a == Under(name, FoundIn(Handled))
             b == Under(name, hits)
  <2>1. a \in Seq(T) /\ b \in Seq(T)
    BY <1>4, <1>6, <1>7, UnderType DEF T
  <2>2. Under(name, FoundIn(i)) = a \o b
    BY <1>4, <1>6, <1>7, UnderJoins
  <2>3. delivered \o <<>> = base \o a
    BY <1>3, UnderNone
  <2> HIDE DEF a, b
  <2>4. delivered = base \o a
    BY <1>4, <2>3, JoinsNone
  <2>5. (base \o a) \o b = base \o (a \o b)
    <3>1. base \in Seq(T)
      BY <1>4
    <3> QED
      BY <2>1, <3>1, Associative
  <2> QED
    BY <2>2, <2>4, <2>5 DEF b
<1>9. /\ corpora' = corpora /\ currentIter' = currentIter /\ delivered' = delivered
      /\ fpc' = "loop"
  OBVIOUS
<1>10. \A k \in 1..Len(f_buffer') : f_buffer'[k] = d_file'
  BY <1>1, <1>6
<1>11. d_file' = IF Handled' = 0 THEN NoFile ELSE Docs'[Handled'].file
  <2>1. Handled' # 0
    BY <1>3, <1>4, <1>5
  <2> QED
    BY <1>1, <1>2, <1>3, <1>5, <2>1
<1>12. Handled' \in 0..Len(Docs')
  BY <1>2, <1>3, <1>4, <1>5
<1>13. delivered' \o Under(corpora'[currentIter'].name, f_buffer')
         = Before(currentIter - 1)' \o Under(corpora'[currentIter'].name, FoundIn(Handled)')
  BY <1>1, <1>2, <1>5, <1>8, <1>9 DEF base, name
<1>14. \A k \in 1..Len(f_todo') : f_todo'[k] = Docs'[Len(Docs') - Len(f_todo') + k]
  BY <1>1, <1>2, <1>3
<1> QED
  BY <1>3, <1>9, <1>10, <1>11, <1>12, <1>13, <1>14 DEF InCorpus

LEMMA SearchOrder ==
  ASSUME OrderInv, Search
  PROVE  Ordered'
<1>1. /\ UNCHANGED <<corpora, d_iters, currentIter, d_interrupted, ipc, outcome, delivered>>
      /\ ipc \in {"asking", "answering"} /\ HasNextStep
  BY DEF Search, callVars
<1>2. /\ currentIter # 0 /\ outcome = "none"
      /\ fpc # "out" /\ f_result = "none" /\ Alive
  <2>1. fpc # "out"
    BY <1>1 DEF HasNextStep, ResetInterrupted, TakeDocument, TestInterrupted, ParseFile,
       ReturnHasNext
  <2> QED
    BY <1>1, <2>1 DEF OrderInv, Ordered, Course, MultiInv, CallState, Alive
<1>3. InCorpus /\ Between /\ CurrentFollows /\ LoopOver
  BY <1>2 DEF OrderInv, Ordered, Progress
<1>4. ListFollows' /\ Popped' = Popped /\ DeliveredInOrder' /\ UninterruptedIsComplete'
  BY <1>1, ListStays, OrderStays, CompletenessStays DEF OrderInv, Ordered
<1>5. /\ Between' /\ CurrentFollows'
  BY <1>1, <1>2, <1>3, <1>4 DEF Between, CurrentFollows
<1>6. CASE ResetInterrupted \/ ReturnHasNext
  <2>1. /\ UNCHANGED <<f_todo, f_entry, d_file, f_buffer>> /\ SamePlace
        /\ \/ fpc' = "loop" /\ f_result' = "none"
           \/ fpc' = "out" /\ f_result' = "more"
           \/ fpc' = "out" /\ f_result' = "empty" /\ f_buffer = <<>> /\ f_todo = <<>>
    BY <1>2, <1>6 DEF ResetInterrupted, ReturnHasNext, SamePlace, Searching
  <2>2. InCorpus'
    BY <1>1, <1>3, <2>1, CorpusStays
  <2>3. Course' /\ LoopOver'
    BY <1>1, <1>2, <1>3, <2>1 DEF Course, LoopOver
  <2> QED
    BY <1>4, <1>5, <2>2, <2>3 DEF Ordered, Progress
<1>7. CASE TakeDocument
  <2>1. f_buffer' = f_buffer /\ fpc' # "out" /\ f_result' = f_result
    BY <1>7 DEF TakeDocument
  <2>2. InCorpus'
    BY <1>1, <1>2, <1>3, <1>7, TakeDocumentFollows DEF OrderInv
  <2>3. Course' /\ LoopOver'
    BY <1>1, <1>2, <1>3, <2>1 DEF Course, LoopOver
  <2> QED
    BY <1>4, <1>5, <2>2, <2>3 DEF Ordered, Progress
<1>8. CASE TestInterrupted
  <2>1. /\ f_buffer' = f_buffer
        /\ \/ fpc' = "parse" /\ f_result' = f_result
           \/ fpc' = "out" /\ f_result' = "interrupted"
    BY <1>8 DEF TestInterrupted
  <2>2. Alive' => InCorpus'
    <3>1. Alive' => fpc' = "parse"
      BY <2>1 DEF Alive
    <3> QED
      BY <1>1, <1>2, <1>3, <1>8, <3>1, TestInterruptedFollows DEF OrderInv
  <2>3. Course' /\ LoopOver'
    BY <1>1, <1>2, <1>3, <2>1 DEF Course, LoopOver
  <2> QED
    BY <1>4, <1>5, <2>2, <2>3 DEF Ordered, Progress
<1>9. CASE ParseFile
  <2>1. /\ fpc = "parse"
        /\ \/ fpc' = "loop" /\ f_result' = f_result
           \/ fpc' = "out" /\ f_result' = "error"
    BY <1>9 DEF ParseFile
  <2>2. f_buffer = <<>>
    BY <1>3, <2>1 DEF InCorpus
  <2>3. Alive' => InCorpus'
    <3>1. Alive' => fpc' = "loop"
      BY <2>1 DEF Alive
    <3> QED
      BY <1>1, <1>2, <1>3, <1>9, <3>1, ParseFileFollows DEF OrderInv
  <2>4. Course' /\ LoopOver'
    BY <1>1, <1>2, <1>3, <2>1, <2>2 DEF Course, LoopOver
  <2> QED
    BY <1>4, <1>5, <2>3, <2>4 DEF Ordered, Progress
<1> QED
  BY <1>1, <1>6, <1>7, <1>8, <1>9 DEF HasNextStep

----------------------------------------------------------------------------
(* next.                                                                   *)

LEMMA UnderBegins ==
  ASSUME NEW name \in CorpusName, NEW s \in Seq(File), NEW t \in Seq(File), Begins(s, t)
  PROVE  Begins(Under(name, s), Under(name, t))
<1>1. /\ Len(Under(name, s)) = Len(s) /\ Len(Under(name, t)) = Len(t)
      /\ \A k \in 1..Len(s) : Under(name, s)[k] = <<name, s[k]>>
      /\ \A k \in 1..Len(t) : Under(name, t)[k] = <<name, t[k]>>
  BY UnderType
<1>2. Len(s) \in Nat /\ Len(t) \in Nat /\ Len(s) <= Len(t) /\ \A k \in 1..Len(s) : t[k] = s[k]
  BY DEF Begins
<1>3. ASSUME NEW k \in 1..Len(s) PROVE Under(name, t)[k] = Under(name, s)[k]
  <2>1. k \in 1..Len(t)
    BY <1>2
  <2> QED
    BY <1>1, <1>2, <2>1
<1> QED
  BY <1>1, <1>2, <1>3 DEF Begins

\* A sequence that begins the expected one is delivered in order.
LEMMA BeginsExpected ==
  ASSUME NEW S, NEW s \in Seq(S), NEW t \in Seq(S), Begins(s, t)
  PROVE  Len(s) <= Len(t) /\ s = SubSeq(t, 1, Len(s))
<1>1. Len(s) \in Nat /\ Len(t) \in Nat /\ Len(s) <= Len(t) /\ \A k \in 1..Len(s) : t[k] = s[k]
  BY DEF Begins
<1>2. /\ SubSeq(t, 1, Len(s)) \in Seq(S) /\ Len(SubSeq(t, 1, Len(s))) = Len(s)
      /\ \A k \in 1..Len(s) : SubSeq(t, 1, Len(s))[k] = t[k]
  BY <1>1
<1>3. \A k \in 1..Len(s) : s[k] = SubSeq(t, 1, Len(s))[k]
  BY <1>1, <1>2
<1>4. s = SubSeq(t, 1, Len(s))
  BY <1>2, <1>3, SameSequence
<1> QED
  BY <1>1, <1>4

\* What the current corpus has yielded so far begins what is expected.
LEMMA CurrentBegins ==
  ASSUME MultiInv, currentIter # 0, InCorpus
  PROVE  Begins(Before(currentIter - 1) \o Under(corpora[currentIter].name, FoundIn(Handled)),
                Expected)
<1> DEFINE T == CorpusName \X File
           name == corpora[currentIter].name
           base == Before(currentIter - 1)
           docs == Docs
           found == FoundIn(Handled)
           all == Results(Docs)
<1>1. /\ currentIter \in 1..Len(corpora) /\ name \in CorpusName /\ docs \in Seq(Document)
      /\ Len(docs) \in Nat /\ base \in Seq(T) /\ Handled \in 0..Len(docs)
  BY CurrentTypes DEF InCorpus
<1>2. found \in Seq(File) /\ all \in Seq(File) /\ Begins(found, all)
  <2>1. docs \in Seq(Document) /\ Handled \in 0..Len(docs) /\ Len(docs) \in 0..Len(docs)
    BY <1>1
  <2> HIDE DEF docs
  <2>2. /\ Joined(ResultsOf(docs))[Handled] \in Seq(File)
        /\ Joined(ResultsOf(docs))[Len(docs)] \in Seq(File)
        /\ Begins(Joined(ResultsOf(docs))[Handled], Results(docs))
    BY <2>1, FoundFacts
  <2> QED
    BY <2>2 DEF FoundIn, Results, docs
<1>3. ExpectedOf[currentIter] = Under(name, all)
  BY <1>1, ExpectedTypes DEF Docs, InCorpus
<1>4. Before(currentIter) = base \o Under(name, all)
  BY <1>1, <1>3, BeforeFacts
<1>5. /\ Expected \in Seq(T) /\ Begins(Before(currentIter), Expected)
      /\ Before(currentIter) \in Seq(T)
  <2>1. currentIter \in 0..Len(corpora)
    BY <1>1, CorpusTypes
  <2> QED
    BY <2>1, BeforeFacts
<1> HIDE DEF name, base, docs, found, all, T
<1>6. Under(name, found) \in Seq(T) /\ Under(name, all) \in Seq(T)
  BY <1>1, <1>2, UnderType DEF T
<1>7. Begins(Under(name, found), Under(name, all))
  BY <1>1, <1>2, UnderBegins
<1>8. base \in Seq(T)
  BY <1>1
<1>9. Begins(base \o Under(name, found), base \o Under(name, all))
  BY <1>6, <1>7, <1>8, BeginsAfter
<1>10. base \o Under(name, found) \in Seq(T)
  BY <1>6, <1>8, Joined3
<1>11. Begins(base \o Under(name, found), Before(currentIter))
  BY <1>4, <1>9
<1>12. Begins(base \o Under(name, found), Expected)
  BY <1>5, <1>10, <1>11, BeginsOn
<1> QED
  BY <1>12 DEF name, base, found

\* A result leaves the buffer for the user.
LEMMA NextEntryOrder ==
  ASSUME OrderInv, NextEntry
  PROVE  Ordered'
<1> DEFINE T == CorpusName \X File
           name == corpora[currentIter].name
<1>1. /\ UNCHANGED <<corpora, d_iters, currentIter, d_interrupted, ipc>>
      /\ ipc = "outside" /\ outcome = "more"
  BY DEF NextEntry
<1>2. ListFollows' /\ Popped' = Popped
  BY <1>1, ListStays DEF OrderInv, Ordered
<1>3. CASE d_interrupted
  <2>1. /\ outcome' = "interrupted" /\ UNCHANGED delivered
        /\ UNCHANGED <<f_todo, f_entry, d_file, f_buffer, f_interrupted, fpc, f_result>>
    BY <1>3 DEF NextEntry, filterVars
  <2>2. DeliveredInOrder' /\ UninterruptedIsComplete'
    BY <1>1, <2>1, OrderStays, CompletenessStays DEF OrderInv, Ordered
  <2>3. Course'
    BY <1>1, <2>1 DEF OrderInv, Ordered, Course
  <2>4. Progress'
    BY <2>1 DEF Progress, Alive
  <2> QED
    BY <1>2, <2>2, <2>3, <2>4 DEF Ordered
<1>4. CASE ~d_interrupted
  <2>1. /\ f_buffer # <<>> /\ f_buffer' = Tail(f_buffer)
        /\ UNCHANGED <<f_todo, f_entry, d_file, f_interrupted, fpc, f_result>>
        /\ delivered' = Append(delivered, <<name, d_file>>) /\ outcome' = "none"
    BY <1>4 DEF NextEntry, PopResult
  <2>2. /\ currentIter # 0 /\ fpc = "out" /\ Alive
        /\ f_buffer \in Seq(File) /\ delivered \in Seq(T) /\ d_file \in File
    BY <1>1, <2>1 DEF OrderInv, Ordered, Course, MultiInv, TypeOK, FilterTypeOK, CallState,
       SearchState, Alive
  <2>3. InCorpus /\ CurrentFollows
    BY <2>2 DEF OrderInv, Ordered, Progress
  <2>4. name \in CorpusName /\ Before(currentIter - 1) \in Seq(T)
    BY <2>2, CurrentTypes DEF OrderInv
  <2> DEFINE u == Under(name, f_buffer)
             v == Under(name, Tail(f_buffer))
  <2>5. /\ Tail(f_buffer) \in Seq(File) /\ Len(Tail(f_buffer)) = Len(f_buffer) - 1
        /\ Len(f_buffer) \in Nat /\ Len(f_buffer) >= 1
        /\ \A k \in 1..Len(Tail(f_buffer)) :
             Tail(f_buffer)[k] = f_buffer[k + 1] /\ k + 1 \in 1..Len(f_buffer)
    BY <2>1, <2>2
  <2>6. /\ u \in Seq(T) /\ Len(u) = Len(f_buffer)
        /\ \A k \in 1..Len(f_buffer) : u[k] = <<name, f_buffer[k]>>
        /\ v \in Seq(T) /\ Len(v) = Len(Tail(f_buffer))
        /\ \A k \in 1..Len(Tail(f_buffer)) : v[k] = <<name, Tail(f_buffer)[k]>>
    BY <2>2, <2>4, <2>5, UnderType
  <2> HIDE DEF u, v, T, name
  <2>7. u # <<>> /\ u[1] = <<name, d_file>>
    <3>1. 1 \in 1..Len(f_buffer)
      BY <2>5
    <3>2. f_buffer[1] = d_file
      BY <2>3, <3>1 DEF InCorpus
    <3> QED
      BY <2>5, <2>6, <3>1, <3>2
  <2>8. v = Tail(u)
    <3>1. /\ Tail(u) \in Seq(T) /\ Len(Tail(u)) = Len(u) - 1
          /\ \A k \in 1..(Len(u) - 1) : Tail(u)[k] = u[k + 1]
      BY <2>6, <2>7
    <3>2. \A k \in 1..Len(v) : v[k] = Tail(u)[k]
      <4> SUFFICES ASSUME NEW k \in 1..Len(v) PROVE v[k] = Tail(u)[k]
        OBVIOUS
      <4>1. /\ v[k] = <<name, Tail(f_buffer)[k]>> /\ Tail(f_buffer)[k] = f_buffer[k + 1]
            /\ k + 1 \in 1..Len(f_buffer) /\ k \in 1..(Len(u) - 1)
        BY <2>5, <2>6
      <4>2. u[k + 1] = <<name, f_buffer[k + 1]>> /\ Tail(u)[k] = u[k + 1]
        BY <2>6, <3>1, <4>1
      <4> QED
        BY <4>1, <4>2
    <3>3. Len(v) = Len(Tail(u))
      BY <2>5, <2>6, <3>1
    <3>4. v \in Seq(T) /\ Tail(u) \in Seq(T)
      BY <2>6, <3>1
    <3> QED
      BY <3>2, <3>3, <3>4, SameSequence
  <2>9. delivered' \o v = delivered \o u
    <3>1. u \in Seq(T) /\ delivered \in Seq(T) /\ u # <<>>
      BY <2>2, <2>6, <2>7
    <3>2. Append(delivered, u[1]) \o Tail(u) = delivered \o u
      BY <3>1, Moving
    <3> QED
      BY <2>1, <2>7, <2>8, <3>2
  <2>10. delivered \o u = Before(currentIter - 1) \o Under(name, FoundIn(Handled))
    BY <2>3 DEF InCorpus, u, name
  <2>11. InCorpus'
    <3>1. /\ Docs' = Docs /\ Before(currentIter - 1)' = Before(currentIter - 1)
          /\ FoundIn(Handled)' = FoundIn(Handled')
      BY <1>1, FoundStays
    <3>2. Taken' = Taken
      BY <2>1 DEF Taken
    <3>3. Handled' = Handled
      BY <2>1, <3>1, <3>2 DEF Handled
    <3>4. /\ corpora[currentIter].opening = "good" /\ Handled \in 0..Len(Docs)
          /\ \A k \in 1..Len(f_todo) : f_todo[k] = Docs[Len(Docs) - Len(f_todo) + k]
          /\ \A k \in 1..Len(f_buffer) : f_buffer[k] = d_file
          /\ d_file = IF Handled = 0 THEN NoFile ELSE Docs[Handled].file
      BY <2>2, <2>3 DEF InCorpus
    <3>5. \A k \in 1..Len(f_buffer') : f_buffer'[k] = d_file'
      BY <2>1, <2>5, <3>4
    <3>6. fpc' = "out" /\ f_todo' = f_todo /\ d_file' = d_file
      BY <2>1, <2>2
    <3>7. delivered' \o Under(name, f_buffer')
            = Before(currentIter - 1)' \o Under(name, FoundIn(Handled)')
      BY <2>1, <2>9, <2>10, <3>1, <3>3 DEF v
    <3>8. corpora'[currentIter'] = corpora[currentIter]
      BY <1>1
    <3> QED
      BY <3>1, <3>3, <3>4, <3>5, <3>6, <3>7, <3>8 DEF InCorpus, name
  <2>12. Course'
    BY <1>1, <2>1, <2>2 DEF OrderInv, Ordered, Course
  <2>13. Between' /\ CurrentFollows' /\ LoopOver'
    BY <1>1, <1>2, <2>2, <2>3 DEF Between, CurrentFollows, LoopOver
  <2>14. DeliveredInOrder'
    <3>1. Begins(delivered \o u, Expected)
      BY <2>2, <2>3, <2>10, CurrentBegins DEF OrderInv, name
    <3>2. delivered' \in Seq(T) /\ v \in Seq(T)
      <4>1. <<name, d_file>> \in T
        BY <2>2, <2>4 DEF T
      <4>2. Append(delivered, <<name, d_file>>) \in Seq(T)
        BY <2>2, <4>1
      <4> QED
        BY <2>1, <2>6, <4>2
    <3>3. Begins(delivered', delivered' \o v) /\ delivered' \o v \in Seq(T)
      BY <3>2, BeginsItself, Joined3
    <3>4. Expected \in Seq(T)
      BY BeforeFacts DEF OrderInv, T
    <3>5. Begins(delivered' \o v, Expected)
      BY <2>9, <3>1
    <3>6. Begins(delivered', Expected)
      BY <3>2, <3>3, <3>4, <3>5, BeginsOn
    <3>7. Len(delivered') <= Len(Expected) /\ delivered' = SubSeq(Expected, 1, Len(delivered'))
      BY <3>2, <3>4, <3>6, BeginsExpected
    <3>8. Expected' = Expected
      BY <1>1, ExpectedStays
    <3> QED
      BY <3>7, <3>8 DEF DeliveredInOrder
  <2>15. UninterruptedIsComplete'
    BY <2>1 DEF UninterruptedIsComplete
  <2> QED
    BY <1>2, <2>11, <2>12, <2>13, <2>14, <2>15 DEF Ordered, Progress
<1> QED
  BY <1>3, <1>4

----------------------------------------------------------------------------
LEMMA NextOrder ==
  ASSUME OrderInv, [Next]_vars
  PROVE  OrderInv'
<1>1. MultiInv'
  BY NextKeeps DEF OrderInv
<1> SUFFICES Ordered'
  BY <1>1 DEF OrderInv
<1>2. CASE Iterate
  BY <1>2, CallMultiOrder, WhileTestOrder, SearchOrder, LoopAnsweredOrder, ThrowsOrder,
     LockCurrentOrder, ResetCurrentOrder, OpenTipOrder, PopFrontOrder, ReturnTestOrder,
     ReturnAnsweredOrder, NextEntryOrder DEF Iterate
<1>3. CASE \E u \in Interrupter : SetInterrupted(u) \/ FinishInterrupt(u)
  BY <1>3, InterruptersOrder
<1>4. CASE UNCHANGED vars
  <2>1. /\ UNCHANGED <<corpora, d_iters, currentIter, d_interrupted, ipc, outcome, delivered>>
        /\ UNCHANGED <<f_todo, f_entry, d_file, f_buffer, fpc, f_result>>
    BY <1>4 DEF vars, filterVars, callVars
  <2>2. ListFollows' /\ Popped' = Popped /\ DeliveredInOrder' /\ UninterruptedIsComplete'
    BY <2>1, ListStays, OrderStays, CompletenessStays DEF OrderInv, Ordered
  <2>3. Course' /\ (Alive' => Alive)
    BY <2>1 DEF OrderInv, Ordered, Course, Alive
  <2>4. Progress'
    <3> SUFFICES ASSUME Alive' PROVE /\ currentIter' # 0 => InCorpus'
                                     /\ Between' /\ CurrentFollows' /\ LoopOver'
      BY DEF Progress
    <3>1. (currentIter # 0 => InCorpus) /\ Between /\ CurrentFollows /\ LoopOver
      BY <2>3 DEF OrderInv, Ordered, Progress
    <3>2. currentIter' # 0 => InCorpus'
      BY <2>1, <3>1, CorpusStays DEF SamePlace
    <3>3. Between'
      BY <2>1, <3>1, BetweenStays
    <3>4. CurrentFollows' /\ LoopOver'
      BY <2>1, <2>2, <3>1 DEF CurrentFollows, LoopOver
    <3> QED
      BY <3>2, <3>3, <3>4
  <2> QED
    BY <2>2, <2>3, <2>4 DEF Ordered
<1> QED
  BY <1>2, <1>3, <1>4 DEF Next

\* The iteration and what it has delivered keep to the list and the documents.
THEOREM OrderInvariance == Spec => []OrderInv
<1>1. Init => OrderInv
  BY InitOrder
<1>2. OrderInv /\ [Next]_vars => OrderInv'
  BY NextOrder
<1> QED
  BY <1>1, <1>2, PTL DEF Spec

\* Whatever the interrupts and the corpora that fail, the user has a prefix of
\* the results, in order and under the names of their corpora.
THEOREM Delivered == Spec => []DeliveredInOrder
<1>1. OrderInv => DeliveredInOrder
  BY DEF OrderInv, Ordered
<1> QED
  BY <1>1, OrderInvariance, PTL

\* Without an interrupt, hasNext is false only when every result was delivered.
THEOREM Completeness == Spec => []UninterruptedIsComplete
<1>1. OrderInv => UninterruptedIsComplete
  BY DEF OrderInv, Ordered
<1> QED
  BY <1>1, OrderInvariance, PTL
=============================================================================
