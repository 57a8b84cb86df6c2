# Alpinocorpus: a TLA+ model of the treebank library

Alpinocorpus (`src/src`, `src/include/AlpinoCorpus`) reads and writes treebanks:
collections of named XML documents. It keeps them as *compact corpora* (a
dictzip archive and an index of offsets), as directories, or in Berkeley DB XML
containers, and it joins several of them into one. The library is called from
programs with a user interface: one thread iterates over the results of a query
while another one stops it, and several threads read entries of one corpus.

This directory holds TLA+ modules that model the parts of the library with
state of their own, TLC configurations that check them on small instances, and
proofs for every instance that TLAPS checks. `PROJECT.json` says for every
definition which lines of the source it models.

    tlc -config MCCompactCorpus.cfg MCCompactCorpus     # one run
    tlapm CompactCorpusProofs.tla                 # one module of proofs

Contents: 1 inventory, 2 modules and the code they model, 3 runs, 4 bounds,
5 fairness, 6 proofs, 7 where code and documentation disagree, 8 what is
abstracted and left out, 9 plan.

## 1. Inventory

| Component | State | Operations | Hard part | What makes it correct |
|---|---|---|---|---|
| `DzOstreamBuf`, `DzOstream` | put area, chunk table, temporary file, archive, byte count | `xsputn`, `overflow`, `flushBuffer`, the destructor in six steps | chunk boundaries, incompressible chunks, fields of 16 bits, the process ending before or in the destructor with the archive still in a buffer of stdio, `fopen` failing | every byte accepted is in chunk *p* div *length* at place *p* mod *length*; the finished archive has them all; nothing in it is rewritten |
| `DzIstreamBuf`, `DzIstream` | chunk table, get area, current chunk, stream state | constructor, `seekoff`, `xsgetn`, `underflow`, `readChunk` | seeks to the end and beyond, offsets too large for the `int` of a chunk number, a chunk that is missing or does not inflate, a stream that stays failed | a read after a seek returns the bytes at that position, or is seen to be short |
| `util/base64` | none | `b64_encode`, `b64_decode` | width of the type | decode inverts encode, and refuses what does not fit |
| `CompactCorpusWriterPrivate` | data stream, index file, `d_offset`, `d_writeMutex` | constructor, `writeEntry`, destructor | several threads, either file not open, the process ending between index and archive | entries are whole, tile the stream, and are where their index lines say |
| `CompactCorpusReaderPrivate` | index (list and map), stream, `d_readMutex` | `open`, `readEntry`, iterators | one stream shared by all threads, damaged archives, names that occur twice | a read returns the entry it was asked for; a sound corpus stays readable |
| the two together | index file and archive | write, destroy or die, open, read | everything above, across two processes | readers get the entries that were written, the last one under a name, and after a writer that was killed at least nothing else |
| `FilterIter` | documents left, results in the buffer, `d_interrupted` | `hasNext`, `next`, `interrupt` | a flag that one thread sets and another clears | results of each document, in order, once |
| `MultiCorpusReaderPrivate::MultiIter` | corpora left, current iterator and name, `d_currentIterMutex`, `d_interrupted` | `hasNext`, `next`, `interrupt`, `nextIterator`, `openTip` | the iterator replaced while it is being interrupted, corpora that do not open, exceptions under the lock | no call through a dead iterator; results in order under the right name; nothing lost unless interrupted |
| `MultiCorpusReaderPrivate`, `RecursiveCorpusReader`, `CorpusReaderFactory` | list and map of corpora | `push_back`, `open`, `readEntry`, `getSize` | duplicate names, partial failure of a directory walk | size and entries agree; an error is not taken for another format |
| batch copy (`writeEntry` of a reader) | failures so far | copy, fail first or go on | the meaning of the flag, the interrupt of the source's iterator | the good entries are all copied, or the first error is reported |
| `EntryIterator`, `IterImpl`, pipelines, `type()` | shared implementation, cached type | copy, `hasNext`, `next`, queries in stages, stylesheets | what copies of a handle share; a document that comes twice; exceptions half way | an iterator nobody else moves gives what was asked for, each result once; copies that share lose nothing between them |
| `DirectoryCorpusReaderPrivate` | directory iterators, cached size | iterate in either order, read, size | files that come and go, names that are not entries | entries that stayed are all there, in order; size and entries agree |
| `NameCompare`, `InfInt` | none | order of names | numbers of any length in names, leading zeros | a strict weak order, by value |
| `parseMacros`, `macros` | state of the automaton, macros so far | read a macro file; expand a query | references in queries, quotes in queries, files cut off | a file means what is written in it or is refused |
| sentences, marking (`CorpusReader.cpp`, `xpath`) | none | matches of words, brackets | overlapping matches, matches with gaps | the matches of a word are those it is in; the brackets can be read back |
| C interface (`capi.cpp`) | handles | one library call each | exceptions turned into `NULL` or 0 | an exception costs the result it is about and no other |
| tools (`src/util`) | arguments, the reader, names seen | `main`, seven times | which exception ends where; a target that is a source; corpora that fail late | status 0 means complete output; no source is emptied |
| DB XML, stylesheets | the library's | one library call each | inside the library | |

Interactions. A writer owns a `DzOstream`, the stream owns its `DzOstreamBuf`;
both live until the writer is destroyed. A reader owns a `DzIstream` in the same
way, in another process or later. Writer and reader share two files and nothing
else. A `FilterIter` calls its reader's `readEntry` for each document. A
`MultiIter` owns one corpus and its `FilterIter` at a time and shares it with
the threads that interrupt, under `d_currentIterMutex`; the `d_interrupted`
flags are plain `bool`s outside of any lock. An `EntryIterator` owns a chain of
iterators, a `StylesheetIter` on a `FilterIter` on a directory iterator say; copying it
copies the chain, whose last link is a handle of Boost or DB XML that both copies then
share. The C interface holds a reader and such iterators for its client; a tool opens a
reader of all its arguments, goes over one iterator, and exits.

The hazards of this code are listed in `PROJECT.json`, each at its line and with
the properties that watch it.

## 2. Modules and the code they model

    Base64            util/base64.hh                   (operators)
    DzOstreamBuf      DzOstreamBuf.cpp                 the stream buffer's steps
    DzOstream         DzOstream.hh, ostream            the buffer and its caller
    CompactCorpusWriter                                extends DzOstreamBuf, Base64
    DzIstreamBuf      DzIstreamBuf.cpp                 the reading side's steps
    CompactCorpusReader                                extends DzIstreamBuf, Base64
    CompactCorpus     writer and reader process        composes the two over their files
    Treebank          abstract: what a corpus promises
    FilterIter        FilterIter.cpp                   one query over one corpus
    MultiIter         MultiCorpusReaderPrivate.cpp     extends FilterIter; interrupters
    BatchCopy         writeEntry of a reader, writeCorpus of the tool
    InfInt            util/InfInt.h                    (operators)
    NameOrder         util/NameCompare.cpp             extends InfInt (operators)
    MultiCorpus       MultiCorpusReaderPrivate.cpp, RecursiveCorpusReader.cpp,
                      CorpusReaderFactory.cpp          extends NameOrder
    Macros            parseMacros.cpp, macros.cpp      extends NameOrder
    Sentence          CorpusReader.cpp, xpath/main.cpp (operators)
    EntryIterator     directory and DB XML iterators, FilterIter, StylesheetIter
                      (what is kept of them, and operators)
    CApi              capi.cpp, EntryIterator's copies extends EntryIterator; the client
    Tools             util/*/main.cpp                  from the arguments to the exit
    *Proofs           theorems of the module they are named after; those of
                      CompactCorpusProofs are also about CompactCorpusWriter, of
                      CompactCorpusReaderProofs about Base64, of MultiCorpusProofs
                      about Tools, NameOrder and InfInt; ClientProofs has those of
                      CApi and EntryIterator, RecursionProofs what several need
    MC*               instances for TLC

**DzOstreamBuf.** `d_buffer` is the put area up to `pptr`, `d_chunks` the
compressed chunks of the temporary file together with the table, `d_size` the
number of bytes flushed. `d_dzStream` is what was written to the archive, which is a
stream of stdio, and `dzFile` what of it is on disk. `src` is what `xsputn` has
still to copy and `sent` every byte accepted so far (the one history variable).
`XsputnStep` is a round of the loop of `xsputn`: it copies as much as fits, or
flushes a full put area. `overflow` is `Overflow(c)`. The destructor is six steps, `CloseFlush`,
`WriteHeader`, `WriteChunkInfo`, `WriteZData` (a chunk at a time), `WriteTrailer` and
`Fclose`, with `dz` the next one; the process may end between any two
(`CrashStream`). Until `Fclose` nothing says how much of the archive is on disk: stdio
passes on what does not fit its buffer and keeps the rest, whose size is the
system's matter. So the end of the process leaves any beginning of
what was written (`Begun`): a file that stops in the header, in the chunk table, in a
chunk or in the trailer, or all of it. How much there was on disk earlier makes no
difference, since nobody opens the archive before the writing process is gone; so the
choice is made once, at the end. The index needs none of this: `endl` passes
on each of its lines. A chunk whose output does not fit deflate's buffer of the same
size is `cut`: the code passes `Z_FULL_FLUSH` and never looks whether output
was left behind. The chunks this can happen to are those made of bytes in
`Dense`.

**CompactCorpusWriter.** `wpc[c]` is where a thread is in `writeEntry`: waiting
for the lock, putting the data (one step per round of `xsputn`), writing the
index line, advancing `d_offset`. Both files may fail to open. `written` records
the calls in the order they got the lock. Destruction begins only when no call
is running: it is the owner's duty, as for any C++ object.

**DzIstreamBuf, CompactCorpusReader.** `r_table` is the chunk table readExtra
found, `getArea` and `gptr` the get area, `r_good` the stream's state. Seeks and
reads follow the code step by step, including a seek that leaves the get area
and a read past it, where the outcome is undefined and the model takes any. `Target` is
the chunk of an offset as the `int` of `seekoff` holds it (`Narrowed`, with `IntMod` for
2^32), so that a very large offset leads to another chunk or to a number below zero; at
-1, the chunk that is current at first, it finds the buffer of zeros that `ReadExtra` made. An
offset that is negative as a `streampos` (`PosMod` for 2^64) is refused. A
read is `Lock`, `SeekEntry`, `StartRead`, `Copy` (a round of `xsgetn` or an
`underflow` each) and `Return`. Opening decodes every line of the index, and
refuses the corpus with an exception when a number is malformed, or when the chunk
table ends before its length field says (`TableCut`). The list and
the map of the code are `Items` and `Item(n)`: a name that occurs twice is in
the map with its last line.

**CompactCorpus** lets the writer's process end, well or badly, and then a
reader's process open the same two files. `Treebank` is what the two promise:
entries are added one after the other, then the collection is sealed; a question
for a name is answered, or not yet, and the answer is the content of the last
entry of that name. The refinement mapping (`Abstract`) takes the entries that
can be recovered from the files for the collection, and for its answers those from a corpus
whose writer `Finished` (`Counted`). What holds of the others is in `AnswersAreEntries`.

**FilterIter, MultiIter.** Steps are cut at every access to what another thread
can reach: the flags, the lock, `d_currentIter`. A corpus is a name, how opening
it goes (`"good"`, an `OpenError`, a bad query, any other exception) and its
documents, each with the number of its results or `Unreadable`. A user of the
iterator calls `hasNext` before each `next`, as the code's loops do, and stops at
the end or at an exception.

**BatchCopy.** A job copies the corpus `source[j]` into the one destination: a
compact corpus, which locks each entry by itself, so that entries of different jobs
mix, or a DB XML container, which one job writes at a time and which refuses a
name it has. `WriteCorpus(j, flag)` is the call, whose loop is `failfirst` or
`failsafe`; `RunTool` is `alpinocorpus-create`, a process with a writer of its own
that starts from nothing and passes over names in its set `seen`. `EndOfCorpus`,
`IteratorThrows`, `Next`, `ReadEntry` and `Write` are the parts of the loop; `Catch` is
its `catch`, which takes an `alpinocorpus::Error` and nothing else.

**InfInt, NameOrder.** A number is the sequence of its elements, lowest first, read by
`fromString` and compared by `LessInt` as in the vendored class. `nameIndex` cuts a name into tokens, `LessToken` compares two of them
and `Less` is `NameCompare`. Two names of which neither is less are one key to the map
(`Equivalent`), as `a0` and `a00` are.

**MultiCorpus.** `d_corpora` and `d_corporaMap` are the list and the map. A program fills
a reader by `PushBack`; the constructor of a recursive reader does it in steps, `Walk` to
the next file the directory iterator yields, and `WalkPush`, which asks again whether the
file is there. `getSize` goes over the list and an iteration over the map, each opening one
corpus a step (`SizeNext`, `ListNext`) while files are replaced, damaged or removed
(`Change`). A corpus may be a directory that is read recursively: its own list and map are
`NestedFiles` and `NestedMap`. `open` says what the factory makes of a file: a reader, an
`OpenError`, or another exception, which nobody here catches. `readEntry` finds the corpus
by the longest name that the path begins with, and drops that name and one character more.

**Macros.** `Transition` is the generated automaton's five tables as rows of states,
characters and target; `step` is a round of the loop with the actions Ragel embedded. A
state of the model in which `p` is past *n* characters stands for a file that ends there
as well: `accepted` and `parsed` are what `parseMacros` does at the end of the input.
`expandMacros` replaces name after name, in the order of the map.

**Sentence.** The elements of a document are numbered in document order. `markLexicals`
recurses from a match, `collectLexicals` sorts the words, `listCorpus` prints
them with brackets, as `alpinocorpus-xpath -s` does.

**EntryIterator, CApi.** The position of an iterator is in a *cell* of its own or one it
shares: the copy of a `DirIter` or a `DbIter` has the cell of the original, that of a
`SortedDirIter` a new one. Above the cell are the `FilterIter`s of the query's parts, each
with its buffer and the last document it parsed, and perhaps a `StylesheetIter`. `CApi`
has an action for each call of the C interface that concerns iterators (`Open`,
`HasNext`, `NextEntry`, `Destroy`, `Size`) and `CopyIter` for a client of the classes.
A call of `has_next` is cut into steps, for a file may come or go in the middle of it
(`Change`): `HasNext` begins it, `PassOver` is a turn of the source's loop over names of
another kind, `Take` a turn of the loop of a `FilterIter`, which takes a document from below and
parses it, and `Answer` ends the call; the client is in one call at a time (`Idle`).
`client` is what such a client knows: what it asked, what it got, what it was told last, which
documents an exception hid. It is what the properties compare with the corpus.

**Tools.** The seven programs are one sequence of steps: open, ask for the type
(`xpath`), read the macros, check the query, start (`create` compares its target with
the sources and empties it), then corpus by corpus and document by document. What sets
them apart is a record for each (`xpath`, `create`, ...): whether one corpus or many are
read, how often a name is shown, and whether exceptions are handled, which decides
between status 1 and `terminate`.

Operators marked *Variant* in a comment are not part of the model. Each is a
plausible wrong form of the definition after it (a guard dropped, a bound one
off, a reset missing) and serves to show that a property can fail: put in the
place of that definition it makes the property that is named for it in
`PROJECT.json` fail.

## 3. Runs

Passing runs, and what each one shows:

| Run | Properties | Shows |
|---|---|---|
| `MCDzOstream` | `DzTypeOK`, `ChunkAddressing`, `ArchiveComplete`, `FinalFlushHasInput`, `ArchiveGrowsOnly` | Blocks of any length mixed with single characters, closed or ended anywhere: the chunk boundaries are where a reader expects them, no flush is early, late or empty, and the archive has every byte. Incompressible chunks included: they are *addressed* right. |
| `MCAlgorithms` | `RoundTrip`, `ExactOrRefused`, `OrderedByKey`, `MacrosAsWritten`, `CutFileRefused`, `ExpandedAsWritten`, `MatchesDominated`, `BracketsNest` | Each algorithm against a reference definition. The reader gets the writer's numbers back, and a number too large is refused instead of losing its leading bits. Names are in the order of integer sequences read off them, so the comparison is a strict weak order. A macro file means what is written in it, and one that is cut off is refused or has whole definitions. The words of a sentence have the matches that dominate them, and the printed brackets can be read back. |
| `MCCompactCorpusWriter` | `TypeOK`, `EntriesStored`, `EntriesTile`, `IndexIsLog` | Two threads, either file perhaps not open, the process ending anywhere: an entry the stream took is whole at the offset of its index line, and entries neither overlap nor leave gaps. |
| `MCCompactCorpusReader` | `SoundCorpusRead`, `ForeignBytesNeverReturned`, `EveryReadReturns` | Two threads on a corpus that is sound, or cut short, without its table, with a cut chunk, or with the index of another corpus. Sound: every read is the entry. Otherwise: of an entry whose chunk an `int` can number, every byte returned is its own at its place or a zero of the fresh buffer, never one of another entry or chunk. Every call returns or the process ends. |
| `MCCompactCorpus` | `AnswersAreEntries`, `ImplementsTreebank` | A writer that finishes or is killed anywhere, so that any beginning of the archive may be on disk, and two threads that read what it left. If it finished, they get exactly the entries that were written, the last one under each name, and writer and reader together implement `Treebank`. If it was killed, whoever can open the corpus gets, for each byte of an entry, that byte or a zero, and never anything of another entry. That entries are whole then too is false (section 7). |
| `MCMultiIter` | `TypeOK`, `InterruptTargetAlive`, `DeliveredInOrder`, `UninterruptedIsComplete`, `InterruptReturns`, `IterationEnds` | Three corpora in all 64 combinations of how they open, two interrupting threads: `interrupt` never calls through an iterator that was replaced, results come in order under the right corpus name, nothing is lost without an interrupt or an exception, and both the iteration and every `interrupt` come to an end. |
| `MCBatchCopy` | `EachEntryOnce`, `DoneMeansCopied`, `ToolWritesNoNameTwice`, `CopyEnds` | Two jobs at once on overlapping corpora, into either destination, or the tool, with every kind of failure: each entry a job has passed is written once and in order, or in the `BatchError`, or a repetition the tool passes over; a copy that ends well has copied all; every copy ends. |
| `MCMultiCorpus` | `MapOfList`, `ReadBack`, `SizeIsEntries` | A reader filled by hand or by a walk, of directories and files that change, do not open or are damaged: every entry an iteration names is found again by its path, through nested readers too, and the size is the number of those entries, as long as no name is given twice. |
| `MCClients` | `ResultsExact`, `SharedIsSplit`, `SizeAgrees`, `ExitZeroIsComplete`, `SourceSurvives` | A program with two iterators, over entries or the results of one query or two in stages, with a stylesheet or without, copied, while a file comes or goes: it gets exactly what it asked for, an exception costs one document, and copies that share a position lose nothing between them. And each tool on one to three corpora in every state: what it prints is right, status 0 says that it is complete, and `create` empties nothing it is about to read. |

Runs that end in a violation show where the code does not do what the
documentation says; they are told in section 7:
`MCCompactCorpusWriterUnopened`, `MCCompactCorpusReaderSticky`,
`MCBatchCopyFlag`.

`CHECK_DEADLOCK` is off in every run: the callers are bounded and the system
really comes to rest when they are done. Where rest is not what is expected, a
liveness property says so.

`MCAlgorithms` and `MCClients` each check several things that do not touch each
other: the initial states choose one, so that a run explores their sum and not their
product. The type invariants of the modules with theorems are checked and proved,
but for that of `CApi`, which is only proved (`ClientTypes`); the properties of the
other modules compare values of different types (a read with an entry, output with
what was expected), and an ill-typed value fails them, so these have no invariant
that says only that.

## 4. Bounds

The constants that bound a run are `MaxSent`, `MaxEntries`, `MaxReads`,
`MaxInterrupts`, `MaxVersion`, `MaxLen`, `MaxName`, `MaxPieces`, `MaxElements`,
`MaxChanges` and `MaxArgs`; each is a guard of the caller only, never of the
code. Everything else is finite because the constants are.

* `ChunkLen` is 2 or 3 where the code has 58315. Writes are shorter than a
  chunk, as long as one, and span three; entries begin at the start, in the
  middle and at the end of a chunk. The theorems of section 6 hold for any
  length.
* `FieldMod`, 2^16 in the code, is 65536 or, where writer and reader are composed, 64: in
  none of the runs does a table have so many chunks that it wraps. Section 7 tells what
  happens where it does.
* `IntMod` and `PosMod` are 2^32 and 2^64 in the code. In `MCCompactCorpusReader` they are 16
  and 256, and an index has offsets on both sides of each boundary: one that wraps to
  chunk 0, one whose chunk is -1, one that is negative itself. In `MCCompactCorpus` they are
  128 and 256, as `CorpusAssumption` wants them (a field of the table fits in an `int`), and
  nothing wraps.
* Two threads are enough for the locks: a third would wait in the same queue.
  The proofs do not bound their number. `MCCompactCorpus` takes its two threads, and its two
  names, as symmetric: nothing in model or properties orders or singles out any of them, and
  what is checked is safety.
* Three entries by two callers give every order of two, and one after them
  that starts where they end.
* `Bits` = 3, `Width` = 8 keep what 6 and 64 have: the width is no multiple of the
  digit, so the largest values have a digit that does not fit. `MaxLen` is one more
  than the longest encoding.
* Three corpora: one before, one that fails in any way, one after. Two
  interrupters: one can arrive while another holds the lock.
* Two jobs, corpora of up to three entries, one name twice with another between: the
  tool's set is needed and not only the last name. Every fault is in the middle, so
  that something good is on either side of it, and an error at the end too. The
  container is empty or holds one entry already.
* Names of up to `MaxName` = 3 characters hold a number between two others, numbers with
  leading zeros, and one name that begins another. `DIGIT_COUNT` = 2 where the code has 9: a number
  of three digits has a full element and one that is not.
* Macro files have two definitions, of one name or two, with queries of up to `MaxPieces` =
  2 pieces: two references of which the second moves when the first is replaced, a
  reference to a macro that is defined, is not yet, or is the one being defined, and quotes
  at either end. Every prefix of each file is tried as the whole file.
* Documents of `MaxElements` = 4 elements below the root: matches in one another, matches
  side by side, and one with a gap in the sentence, since words may be in any order.
* A directory with one treebank in two formats and another whose name differs in a zero, and
  three names of a caller's, each the beginning of the next and two of them one to the
  map. `MaxVersion` = 2 changes of disk or reader: two corpora of one reader, or a
  change before and after a walk or in the middle of a call.
* Four names for the program: two documents, of which one has two results, a text file, and a
  directory that is called like a document, so that reading it fails. Two iterators, which
  is an original and a copy or two that are independent. `MaxChanges` = 1 file comes or
  goes, between any two calls or in the middle of one.
* `MaxArgs` = 3 corpora for a tool: one that fails between two others, or twice one name
  and another. Their documents have one result, two or none, come twice, or cannot be read,
  first or last.

## 5. Fairness

Safety is checked without fairness. Liveness assumes:

* `CompactCorpusReader`: weak fairness of each thread's `ReadEntry`. A thread in
  a call runs on; the mutex is held for a bounded number of steps and the
  bounded callers cannot keep a waiting thread out for ever, so weak fairness is
  enough also for the lock.
* `MultiIter`: weak fairness of `Iterate`, the iterating thread in a call, and of
  `FinishInterrupt(u)`, the rest of an `interrupt` that has begun. Nobody has to
  begin one.
* `BatchCopy`: weak fairness of each `Copy(j)`, the loop of a copy that was begun.
  It is one thread that waits for nothing but the writer's lock, held for one entry.

The writer and the composition need none: their properties are safety, and the
refinement is checked without fairness.

## 6. Proofs

| Theorem | Module | States |
|---|---|---|
| `Addressing` | `DzOstreamProofs` | `StreamSpec => []ChunkAddressing` |
| `Completeness` | | `StreamSpec => []ArchiveComplete` |
| `FlushHasInput` | | `StreamSpec => []FinalFlushHasInput` |
| `GrowsOnly` | | `StreamSpec => ArchiveGrowsOnly` |
| `StreamTypes` | | `StreamSpec => []DzTypeOK` |
| `Storage` | `CompactCorpusProofs` | `Spec => []EntriesStored` |
| `Tiling` | | `Spec => []EntriesTile` |
| `IndexLog` | | `Spec => [](Addressable => IndexIsLog)` |
| `Exclusion` | | one writing thread at most between lock and unlock |
| `TypeCorrect` | | `Spec => []TypeOK` |
| `ReadersGetEntries` | | `CorpusSpec => [](Healthy /\ FewChunks => AnswersAreEntries)` |
| `WholeSurvives` | | `CorpusSpec => [](rd = "open" => Finished)`, if `EndsWhole` |
| `Refinement` | | `CorpusSpec /\ []Healthy => ImplementsTreebank` |
| `DecodeInverts` | `CompactCorpusReaderProofs` | decoding what was encoded gives back every number of the type |
| `DecodeIsExact` | | a string no longer than the longest number is decoded to what it writes, or refused if that does not fit; one with another character is refused |
| `NoForeignBytes` | | `ReaderSpec => []ForeignBytesNeverReturned` |
| `SoundReads` | | `ReaderSpec => [](NoEofHead /\ EmptyEntriesInside => SoundCorpusRead)` |
| `Exclusion` | | one reading thread at most between lock and unlock |
| `Delivered` | `MultiIterProofs` | `Spec => []DeliveredInOrder` |
| `Completeness` | | `Spec => []UninterruptedIsComplete` |
| `TargetAlive` | | `Spec => []InterruptTargetAlive` |
| `TypeCorrect` | | `Spec => []TypeOK` |
| `Accounting` | `BatchCopyProofs` | `Spec => []EachEntryOnce` |
| `DoneIsComplete` | | `Spec => []DoneMeansCopied` |
| `NoNameTwice` | | `Spec => []ToolWritesNoNameTwice` |
| `PathFindsEntry` | `MultiCorpusProofs` | a path joined of a name and an entry is taken apart into that corpus and that entry |
| `MapAndList` | | `Spec => []MapOfList` |
| `NamesLeadBack` | | `Spec => []ReadBack` |
| `SizeIsCount` | | `Spec => []SizeIsEntries` |
| `NumbersByValue` | | two numbers in names, of any length, are compared by their values |
| `StrictWeakOrder` | | `Less` is irreflexive and transitive, and `Equivalent` is transitive, on all sequences of characters |
| `Survival` | | `ToolSpec => []SourceSurvives` |
| `ExitStatus` | | `ToolSpec => []ExitZeroIsComplete` |
| `ResultsAreExact` | `ClientProofs` | `ClientSpec => []ResultsExact` |
| `SizeIsDelivered` | | `ClientSpec => []SizeAgrees` |
| `CopiesSplit` | | `ClientSpec => []SharedIsSplit` |
| `ClientInvariant` | | `ClientSpec => []ClientInv`, what these three rest on |
| `ClientTypes` | | `ClientSpec => []TypeOK` |

They hold for every value of the constants that satisfies the assumptions of the modules,
`DzAssumption`, `DzIstreamAssumption`, `BlockAssumption`, `WriterAssumption`,
`ReaderAssumption`, `CorpusAssumption`, `Base64Assumption`, `FilterAssumption`,
`MultiAssumption`, `BatchAssumption`, `InfIntAssumption`, `MultiCorpusAssumption`,
`ToolsAssumption`, `IteratorAssumption` and `RequestAssumption`: a chunk has at least one
byte, the modulus is positive, data are sequences of bytes, the bounds are naturals, the
"nobody" values are no threads, and the byte taken for the end of a file is not the zero of
a fresh buffer; names and paths are sequences of characters, a directory is a file and none
of those found in it; the orders of a directory list each name once, and what a client may
ask for is a query in any number of parts, an order, and a stylesheet or none. TLC evaluates
each of them in the runs.

*The stream.* `ChunkAddressing` is not inductive: the next flush puts a chunk at
position `d_size`, which is where the addressing wants it only if `d_size` is a
multiple of the chunk length, and so only if every chunk so far is full.
`DzInv` adds that (`PutArea`), together with the types, `FinalFlushHasInput`
and `ArchiveFollows`, which relates each phase of the destructor to how much of the
archive was written (`FileFollows`), and what is on disk to that: nothing before the process
ends or `fclose` returns, a beginning of it or all of it then. The first part of `DzOstreamProofs` proves one lemma per step of the
buffer, not of a specification, so that both `DzOstream` and the writer use them.

*The numbers.* The theorems are about every digit size and width, so they need
induction over the naturals and functions defined by recursion over them. Both come from
one fact, that a set of naturals which is not empty has a least element
(`LeastElement`, in `RecursionProofs`): `Induction` is about a set, and `Recursion` says that a function with
a given first value and a given next value for each exists. The model's powers of two
are such a function (`TwoTo`), because the provers know nothing of `2^n`. Then the bits
of a number make that number (`BitsMakeNumber`), a string *writes* a number when its
characters are the digits of it and there are enough of them (`Writes`), and of such a
string the bits that decoding sets are those of the number (`DigitsSetBits`). What was
encoded writes its number, and any string of digits writes its value; when that is too
large, the first digit is the one that loses bits (`FirstDigitLosesBits`).

*The writer.* `WriterInv` conjoins `DzInv` with `MutualExclusion` (whoever is past
the lock holds it), `SourceOwned` (only the holder has bytes under way),
`OffsetFollows` (between calls `d_offset` is the end of the last entry),
`EntriesTile`, `StreamFollows` (while the stream is good, `sent` is `d_offset`
bytes plus what the holder has put) and `WrittenWasSent`. Then `EntriesStored`
follows from `WrittenWasSent` and `ChunkAddressing`. `StreamFollows` is what
makes it inductive: the write of the data and the advance of the offset are
different steps, and in between the two disagree by exactly the entry under way.
`LinesLogged`, that the lines are those of `written` one by one, is inductive beside it,
and with `DecodeInverts` gives `IndexLog`, where the entries end within what an offset can
count (`Addressable`; the code computes offsets in the same type and never looks).

*The reader.* Its theorems start from any two files (`AnyFiles`): an archive whose chunks
are full but for the last, cut anywhere or with a table of any length, and an index of any
lines. `ReaderInv` has, besides types and exclusion: a name is asked for only when the
index has it (`AskedIsKnown`), the get area is what was inflated of the current chunk
(`GetAreaFollows`), and whoever reads has in `dest` a beginning of the entry and stands,
while the stream is good, at the place after it (`ReadInPlace`, of entries whose chunk an `int`
can number, `ChunkNumberFits`; of the others the rest of the invariant holds just the same, so that
reading one spoils nothing for those that follow). That gives `NoForeignBytes`: the position is only lost when the stream fails, and then nothing is read
any more. `SoundInv` adds that the stream of a sound corpus stays good. The two hypotheses of
`SoundReads` are the two ways a file with nothing missing is read wrong (section 7):
a chunk that begins with the byte 0xff (`NoEofHead`), and an empty entry at the end of a
full last chunk (`EmptyEntriesInside`).

*Writer and reader together.* `CorpusInv` conjoins the writer's invariant, `LinesLogged`,
`FileInv` (how much of the archive was written in each phase, and that what is on disk when
the writer is gone is a beginning of it) and, once somebody has opened the corpus, the reader's
facts. `Healthy` says two things. `Addressable`, the entries end within what an offset can
count. And `Faithful`, if a finished corpus is read: the table fits in its
16-bit field, no chunk is cut, none begins with 0xff, no empty entry is at the end of the
data. None of these four can be left out: for each, section 7 names a change of
a run with which TLC finds a wrong answer.

`ReadersGetEntries` is in two parts. Wherever the writing process ended, the chunks on disk are
the first of those that were written, and the last of them may be short; so the
entry's own byte in them is the one that was written (`NoForeignBytes` on this archive), and what they
lack is answered with zeros (`AnswerOwnOrNul`). `FewChunks` is what this needs of the
chunks: that an `int` can number them. If the writer finished, `fclose` has returned and all is on disk
(`FinishedIsOnDisk`); the corpus is sound, and the answer is the entry (`AnswerIsWhole`).
`WholeSurvives` says when only the second part matters: if the process never ends between
the header and the return of `fclose` (`EndsWhole`), nobody ever opens a corpus whose writer did not
finish, for without a header it does not open. The code does not guarantee `EndsWhole`,
and neither does the run.

In `Refinement` the abstract answers are those from a corpus whose writer finished
(`Counted`): of what a killed writer left, the code promises no whole entries. It goes step by step: what can be recovered of
the files is what was written (`RecoveredIsWritten`), so that the line in the
index is `Add`; opening is `Seal`; a call is `Ask`, which answers at once for a name that the index has
not; the return from it is `Answer`; every other step, the death of the writer among
them, changes nothing the treebank knows.

*The iterator.* `MultiInv` is types, `Exclusive` (each step between lock and unlock
is taken by the one who has it), `SearchState` and `CallState` (what the steps of
`FilterIter` may assume of the `MultiIter` around them) and
`InterruptTargetAlive`. The iterating thread resets `d_currentIter` only with
the lock in hand, which is where `Exclusive` is needed.

*Its results.* `OrderInv` adds what the iteration has done so far. While nothing has gone
wrong, the results delivered and those in the buffer are all results of the corpora passed
plus those of the documents of this one that have been dealt with (`InCorpus`), and between two corpora
they are all results of those passed (`Between`). `CurrentFollows` and `ListFollows` say which
corpus and which document that is; `LoopOver` says why a search ended, with a result or
with no corpus left, unless an interrupt was seen; and `Course`, which of the ways to
stop are still open at each place of the code. `DeliveredInOrder` must be part of the invariant because it says more than
this after an exception, when nothing relates the buffer to the corpora any more. The sequences of results
are joined by a recursive function, whose properties (`Joining`, in `RecursionProofs`) come from
`Recursion` again.

*Copies.* `CopyInv` says of each job where its loop is (`LoopState`), that the tool's set
has the names of the entries it passed and each of them is written (`SeenIsWritten`), that no entry
which threw anything but an `Error` is counted (`NoneThrew`), and `EachEntryOnce` itself
(`Accounted`). A step of one job leaves what the others have written where it is
(`PlacesOfOthers`), so any number of jobs reduces to one and its neighbours. The
accounting leaves out the entry a job is at work on, from reading its name until it is written, reported or
passed over, and the one at which an exception ended it (`AtWork`).

*Corpora joined.* `PathFindsEntry` is about sequences: a name as long as the one the path
was joined from, and a prefix of the path, is that name or continues it with a slash
(`LongerPrefix`), which `Unambiguous` excludes. `MapOfList`, which relates
list and map, needs only that a push happens while there is a file to push (`FillState`);
`AssignKeepsApart` does the rest, for any order of names.

`ReadBack` is inductive with `ListState`: as long as nothing has changed since the iteration began,
what it has still to open is in the map under its name (`InMap`), and each item it has named
(`MapItem`) is an entry of a corpus of the map, directly or through the map of a nested reader.
`ItemIsFound` uses `PathFindsEntry` once or twice then. A change of disk or reader makes `version`
pass `listing.at`, and what was found before is out of account.

`SizeIsEntries` compares two sums over different things, the list and the map. `Placed` says that
the keys of the map have places in the list, of which no two are one, each holding the corpus of its key;
an assignment to an equivalent key gives that key the place of the new corpus (`AssignKeepsPlaces`).
`CountState` adds how far `getSize` and the iteration have come (`Come`) and what they have found when
they end (`Ended`). A sum is the number of cells in rows of that length (`SumCounts`), so the places
map the cells of the one into those of the other one to one, and the sums compare as cardinalities
do (`SumsCompare`); with as many keys as corpora they are equal. The same holds one level down, for the list
and the map of a nested reader (`NestedCounts`), so of each corpus an iteration yields no more than
the size counts (`CorpusCounts`), and no file it opens is one the size does not
(`MapInList`).

*The order of names.* `std::map` and `std::sort` promise nothing for an order that is not a strict
weak one, and here numbers are compared as numbers, other characters as strings, and the end of a name
is compared with neither. `Less` is the lexicographic order (`NamesAreLex`) of an order of tokens
that is a strict weak one (`TokensOrdered`); that such an order of sequences inherits this is
`LexNegative`, of any such order. Among the tokens the numbers are together (`NumbersTogether`), which is why two ways
to compare do not get in each other's way. `NumbersByValue` is why numbers are in order: what `fromString`
makes of digits says their value in elements (`ElementsSay`), `removeLeadingZeros` leaves no
zero on top (`Stripped`), and of two such numbers the one with more elements is larger
(`ShorterIsLess`), or the highest element that differs decides (`HigherDecides`). `KeysAreKeys` is where the model of
the map rests on the theorem: keys that are never equivalent have each rank once in a strict weak order
(`Numbered`).

*The tools.* Their proofs are in `MultiCorpusProofs` because they go through the map of a
multi-corpus reader. `Passed` says of each part of `main` what it has ruled out for those after it
(`PastOpen`, `PastMacros`, `PastCheck`, `PastStart`); that is all `Survival` needs, for neither the
arguments nor the target ever change. `Progress` says for each phase what was printed: in the loop,
the results of `k` corpora and of `m` documents of the next one (`Done`), each of them if it is
results that are shown, each name once (`Show`) with `seen` the set of them otherwise, and no
corpus damaged so far. What makes it inductive is that joining and leaving out what was there
before both only ever add to the end (`Growing`, `OnceOfBeginning`, `OnceOfRepeated`). That
the map is a sequence of arguments is a fact about numbers: the elements of a finite set have each
rank once (`Ranks`). A single corpus has no `openTip` to pass over it; that it takes the query
when the loop starts follows from `Passed` (`SingleIsAccepted`).

*The clients.* An iterator is a source with any number of stages above it. Each of these levels
has come to a place in the order of the names (`Pos`) and has something left of that document
(`Left`). `ClientInv` says of an iterator nobody else moved that its levels are in line
(`Between`): none is past the one below, and of the names in between nothing that is wanted
has been dropped, that of the lower level's own place being still whole. A name is wanted when it
is a document, every stage up to there finds something in it, and it neither changed nor was
hidden by an exception (`Wanted`); `Genuine` says that what a stage has parsed got through those below it.
Then what the client has is, group by group, all there is of each name before the place of the topmost
level, and but for what is left there, of the name at it (`Delivered`). A step takes one level
to the place of the one below (`StageTakes`, `SourceGoesOn`), so that one lemma serves however
many stages there are; a document that comes twice in a row is at the place the stage is at
already, and costs it nothing that it does not parse it again. At the end of the source nothing wanted is
left on any level, and that is `ResultsAreExact`. What `has_next` said goes stale only when
somebody else moves the source (`Answered`). Files that come or go only make
fewer names wanted (`SoundGrows`), whatever step of a call they fall into.

`SizeIsDelivered` compares two walks: that of `getSize` counts the names at once (`SizeInv`), an
iteration delivers one entry for each (`CountedOnce`), so that what was promised is as long as
the size (`SizeIsPromised`).

Of an iterator that others moved this says nothing, and nothing like it holds of one alone.
`SharedInv` is about those that share a source together: what each got is of names before the source's
place, and is what was asked for (`Listed`); what two got since one was copied from the
other is different (`Separate`); and every name before that place went to one of them, or to one
that is destroyed (`Went`). The next entry is at the source's place, where none of them has
been (`SplitMoves`). A copy takes over what the original has had, which is what `before` is for, and a
destroyed one leaves its names behind in `gone` (`SplitCarries`). `SharedInv` needs the types and
places of `ClientInv` and is inductive beside it.

Only model-checked, and why:

* Liveness (`EveryReadReturns`, `InterruptReturns`, `IterationEnds`, `CopyEnds`): the
  provers have no rule for fairness and `ENABLED` here.
* `MacrosAsWritten`, `CutFileRefused`, `ExpandedAsWritten`, `MatchesDominated`
  and `BracketsNest` compare recursive definitions over data; `RoundTrip` and
  `ExactOrRefused`, of the same run, are `DecodeInverts` and `DecodeIsExact`. `OrderedByKey`
  compares the order with another definition of it; what the code relies on of it is
  `StrictWeakOrder` and `NumbersByValue`.

## 7. Where the code and its documentation disagree

With a run that shows it (details and quotations under `findings` in
`PROJECT.json`):

1. `MCCompactCorpusWriterUnopened`. The constructor of the writer tests two
   shared pointers it has just set instead of the streams, so it never reports
   that a file could not be opened. Entries written then go nowhere, silently.
2. `MCCompactCorpusReaderSticky`. One read of a damaged chunk sets `badbit`; it is
   never cleared, and no later read looks at it. From then on intact entries
   are answered with zeros, in every thread.
3. `MCBatchCopyFlag`. The header calls the second argument of `write` `failsafe`: if
   true, the copy keeps writing and reports at the end. Both writers call it
   `fail_first` and do the opposite, so the default stops nowhere and `true` stops at
   the first error.

Without a run of their own; each can be reproduced by the change named:

* A writer that ends between the header and the return of `fclose` leaves an archive
  of which only a beginning may be on disk, whatever the code had written: the table may be
  missing, or the last chunks. Such an archive opens, and the reader returns zeros for what it
  lacks, or the process ends (`AnswersAreEntries` without `Finished` fails, also with only one of
  `"table"`, `"zdata"`, `"trailer"` or `"fclose"` in `CrashIn`). It is never worse than
  that, which is what `AnswersAreEntries` says. A writer that ends before the header leaves a file
  that does not open, and after `fclose` all of it.
* The number of a chunk goes into an `int` in `seekoff` (`DzIstreamBuf.cpp:202`). A damaged
  or foreign index may have an offset of the chunk length times 2^32, which is taken for chunk
  0: the bytes of another entry are returned, with no error. (`ForeignBytesNeverReturned`
  without `ChunkNumberFits` fails in `MCCompactCorpusReader.cfg`.) In an archive of
  the writer's no offset is so large: its chunks are counted in 16 bits.
* Count and length of the chunk table are 16-bit fields and nothing checks that they fit.
  From 65536 chunks on (3.8 GB of text) an archive is finished without an error and read
  back wrong; at exactly 32763 chunks the length reads 0 and the table is not read at all
  (`FieldMod = 16`, `ChunkLen = 2`, `Bits = 2`, `Data <- ManyChunks`, `MaxEntries = 1`,
  `CrashIn = {}` in `MCCompactCorpus.cfg`: `AnswersAreEntries` fails).
* An incompressible chunk is cut, and what is over of it lands in front of
  the next chunk (`Dense = {1, 2}`, `Data <- LongData`: `AnswersAreEntries`
  fails).
* `underflow` returns a `char`: a byte 0xff at the start of a chunk reads as the
  end of the file (`Archives <- FFArchive`: `SoundCorpusRead` fails). UTF-8
  text has no such byte, ISO-8859-1 text may.
* An empty last entry whose offset is the end of a full last chunk makes the
  seek run past the table, and the stream fails for all later reads
  (`Archives <- EmptyLast`).
* `b64_decode` refuses lost bits, except of strings so long that the shift itself
  reaches the width of the type (11 digits hold 64 bits; from 12 on the shift is
  undefined and, where it wraps, passes unnoticed). `ExactOrRefused` leaves
  those out; without that condition it fails.
* After an interrupt `hasNext` answers `false` with results left, and
  `capi.h:125` tells of no difference between that and the end; `capi.cpp:197-204`
  turns exceptions into the same 0. (`UninterruptedIsComplete` without
  `~d_interrupted` fails.)
* The loop that goes on after errors catches only `alpinocorpus::Error`. `readFile`
  throws `std::runtime_error`, and the iterator may throw anything; these end the copy
  with no `BatchError`, and the errors collected until then are lost
  (`EachEntryOnce` counts them as long as the copy runs).
* `push_back` does not look whether a name is taken (the code asks itself: "exists
  check?"), and names that differ in leading zeros are one to the map. Then the list holds
  both corpora and the map the last: the size counts entries that no iteration yields.
  That happens without a caller's doing where `foo.dact` lies beside `foo.index`
  (`SizeIsEntries` without `single` fails).
* A name is taken for the beginning of a path without the slash after it. With corpora
  `foo` and `foo/b`, the entry `bar.xml` of `foo` is looked for as `ar.xml` in `foo/b`; with
  an empty name nothing is found (`ReadBack` without `Unambiguous` fails).
* `getSize` and the iteration pass over corpora that do not open, but one index with a
  malformed number throws `std::runtime_error` and ends both for all the corpora.
* `CorpusReader.hh:65` says of `interrupt`: "Interrupt an iterator that is blocking".
  `MultiIter::hasNext` asks the current iterator twice, in `nextIterator` and for its
  result, and `FilterIter::hasNext` begins by clearing its flag. So `interrupt` may have set
  both flags and returned, and the search goes on document after document (with
  `PROPERTY InterruptStopsSearch` in `MCMultiIter.cfg`: it fails).
* `DirIter::copy` and `DbIter::copy` say "No pointer members". The members are handles, so a
  copy moves the original: after `j = i`, `j.next()` takes an entry from `i`, and an
  answer `i.hasNext()` gave before may no longer hold. `SortedDirIter` copies its
  position. `SharedIsSplit` says what holds all the same.
* Assigning an empty `EntryIterator` to another leaves that one as it was
  (`CorpusReader.cpp:183-187`).
* `capi.cpp` catches exceptions in `query_iter`, `has_next`, `next` and the reads;
  `entry_iter`, `name`, `size`, `is_valid_query` and the parsing of the stylesheet in
  `query_stylesheet_iter` are outside of any `try`, so an exception there goes into a C
  client. `has_next` answers 0 for an exception and the end alike; who asks on gets the
  rest (`ResultsExact`).
* A macro file that ends in a comment, or that has only white space or comments, is refused:
  the states in and after a comment and before a name are not final.
  The empty file is accepted.
* A query in a macro file that ends in a quote is also closed by one quote less
  (`CutFileRefused` without its condition fails).
* Of a corpus `alpinocorpus-create` writes, only the arguments are compared with the target: one
  found under a directory with `-r` is not (the code says so: "needs a more sophisticated
  check now"). `SourceSurvives` is about the arguments.
* Tools end with status 0 though a corpus could not be opened or refused the query, and of
  two corpora with one name read only the last: `ExitZeroIsComplete` is about those that
  are opened. With more than one corpus an invalid query passes the check when the first
  corpus cannot be opened, and then selects nothing, with status 0.
* A damaged corpus ends `alpinocorpus-stats`, `-get` and `-extract` by an exception nobody
  catches, and `-xpath` before it starts, because it asks for the type outside of its
  handlers; so does a damaged first corpus while a query is checked.
* A recursive corpus in a multi-corpus reader is opened without the compact corpora under
  its directory, because that is the default of `openRecursive`; the tools open
  the same directory with them.

## 8. Abstracted and left out

* Compression: a chunk is its bytes and whether its output was cut. Of a cut chunk
  one byte is lost; the chunk after it, and every chunk of an archive whose table is
  misread, is one inflate rejects. That it might decode to something by chance is left
  out.
* Checksums, time stamps and file names in the gzip header: the reader ignores
  them. A full disk (`fwrite` is never checked). Entries of 2 GiB and more, which the `int`s
  that count bytes in `xsputn` and `xsgetn` cannot hold, and the 32 bits of the trailer,
  which no reader looks at.
* A damaged index may claim an entry of any size. The model reads it to the end of the archive
  and fills up with zeros; where there is not memory enough the code throws `bad_alloc`.
* The process ends, not the machine: what the system was given is on disk, in the order in
  which it was given.
* `tellg` and seeks from the current position, which nothing in the library
  uses; optional gzip fields, which the writer never writes.
* An index line is written at once; a name has no tab in it.
* Where the code has undefined behaviour (uninitialised `d_chunkLen`, an index
  outside the table, a negative count) the step is a choice between the end of
  the process and any result.
* The two `d_interrupted` flags are unsynchronised `bool`s; reads and writes of them
  are taken as atomic and seen in order.
* XQilla, Xerces, libxslt and DB XML. A query's result on a document is a number
  of results or an exception; an `XQException` after some results of a document,
  which `parseFile` leaves in its buffer, is not modelled.
* A nested recursive reader is filled in one step, in `MultiCorpus`; a reader at the top is
  filled a file at a time. Queries over several corpora are in `MultiIter` only. `validQuery` is in `Tools` (`Check`);
  the container it falls back on is left out, as is `push_back` during an iteration.
  Names with bytes above 127, for which `isdigit` of a `char` is undefined.
* Progress notifications, copies of a `MultiIter`, and a caller of one that goes on after an
  exception (in `CApi`, a client of one corpus does).
* `CApi`: one thread; a directory has no subdirectories but one that is named like a
  document; a walk sees what changes under it always or never (`live`), where POSIX leaves
  it open entry by entry. A container never changes. No file is named just `.xml`, which the sorted
  iterator takes for an entry and the other one does not.
* `Tools`: a process alone with its corpora. The target of `create` is an argument or
  another file, which can be written. Options are read before anything happens, unknown
  ones end the program. `xslt -g`, colours and what `extract` cannot write are left out.
* `Sentence`: what a query selects is any set of elements. The marked document goes through
  Xerces as text and comes back through libxml2 in the model as itself.
* `Macros`: characters above 127 are `char`s of either sign in the tables of the automaton.
  The files that are checked have none.
* The race of two threads in `type()`, which assign one `shared_ptr` without a lock: its
  outcome is undefined, and a model would only repeat that.
* The writer's part of the C interface, single reads and marked reads through it: one call of
  a modelled component each.

## 9. Plan

Done, in this order because the data path is what every corpus rests on:
`DzOstreamBuf`, `Base64`, `CompactCorpusWriter`, `DzIstreamBuf`,
`CompactCorpusReader`, `Treebank` with `CompactCorpus`, `FilterIter`,
`MultiIter`, `BatchCopy`, `NameOrder`, `MultiCorpus`, and the proofs of section 6; then the
algorithms (`InfInt`, `Macros`, `Sentence`) and the clients (`EntryIterator`, `CApi`,
`Tools`), and the proofs about these.

Next:

1. *Iterators*: progress, and a caller of a `MultiIter` that goes on after an exception.
