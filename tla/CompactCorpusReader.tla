------------------------ MODULE CompactCorpusReader ------------------------
(***************************************************************************)
(* CompactCorpusReaderPrivate (src/src/CompactCorpusReaderPrivate.cpp):    *)
(* threads read entries of one open compact corpus.  The index is decoded  *)
(* when the corpus is opened; a read looks its entry up, then seeks and    *)
(* reads the shared dictzip stream under d_readMutex, and answers with the *)
(* buffer it had zeroed before, whatever became of the read.               *)
(***************************************************************************)
EXTENDS DzIstreamBuf, Base64

CONSTANTS
  Thread,    \* the threads that read
  NoThread,  \* d_readMutex is free
  Name,      \* the names they ask for
  NoAnswer,  \* no call of this thread has returned
  Unknown,   \* the Error thrown for a name that is not in the index
  MaxReads   \* bound: calls of readEntry

\* A std::streampos has the width of a size_t.
ASSUME ReaderAssumption ==
  /\ NoThread \notin Thread
  /\ PosMod = Modulus
  /\ MaxReads \in Nat

VARIABLES
  indexExists,  \* whether there is an index file
  indexFile,    \* its lines, as CompactCorpusWriter writes them
  d_indices,    \* the index items, in file order
  d_readMutex,  \* the thread that holds it
  rpc,          \* where each thread is in readEntry
  rname,        \* the name it asked for
  answer,       \* what its last call returned
  reads         \* calls so far (for the bound)

threadVars == <<d_readMutex, rpc, rname, answer, reads>>
fileVars   == <<dzFile, indexExists, indexFile>>
vars       == <<fileVars, rd, streamVars, d_indices, threadVars>>

\* The files are chosen by the module that uses this one.
ReaderInit ==
  /\ rd = "new"
  /\ StreamInit
  /\ d_indices = <<>>
  /\ d_readMutex = NoThread
  /\ rpc = [t \in Thread |-> "idle"]
  /\ rname \in [Thread -> Name]
  /\ answer = [t \in Thread |-> NoAnswer]
  /\ reads = 0

(***************************************************************************)
(* Construction: the archive's header and table first, then every line of  *)
(* the index.                                                              *)
(***************************************************************************)
Items == [i \in 1..Len(indexFile) |->
            [name   |-> indexFile[i].name,
             offset |-> Decode(indexFile[i].offset),
             size   |-> Decode(indexFile[i].size)]]

Malformed(items) ==
  \E i \in 1..Len(items) : BadBase64 \in {items[i].offset, items[i].size}

Refused == ~dzFile.exists \/ ~indexExists

\* The ways a constructor may end without a reader.
OpenFails(outcomes) ==
  /\ rd' \in outcomes
  /\ UNCHANGED <<r_table, getArea, gptr, d_indices>>

\* A table that is cut is an exception, or takes all the memory there is.
Open ==
  /\ rd = "new"
  /\ IF Refused THEN OpenFails({"refused"})
     ELSE IF ~HeaderReadable THEN OpenFails({"failed"})
     ELSE IF TableCut THEN OpenFails({"failed", "dead"})
     ELSE IF Malformed(Items) THEN OpenFails({"failed"})
     ELSE rd' = "open" /\ ReadExtra /\ d_indices' = Items
  /\ UNCHANGED <<fileVars, d_curChunk, r_good, left, dest, threadVars>>

Known(n) == \E i \in 1..Len(d_indices) : d_indices[i].name = n

\* Variant: the first line with a name stays.
FirstItem(n) ==
  d_indices[CHOOSE i \in 1..Len(d_indices) :
              /\ d_indices[i].name = n
              /\ \A j \in 1..(i - 1) : d_indices[j].name # n]

\* d_namedIndices[n]: the last line with a name replaces the ones before it.
Item(n) ==
  d_indices[CHOOSE i \in 1..Len(d_indices) :
              /\ d_indices[i].name = n
              /\ \A j \in (i + 1)..Len(d_indices) : d_indices[j].name # n]

(***************************************************************************)
(* readEntry.                                                              *)
(***************************************************************************)
Call(t, n) ==
  /\ rd = "open"
  /\ rpc[t] = "idle"
  /\ reads < MaxReads
  /\ reads' = reads + 1
  /\ rname' = [rname EXCEPT ![t] = n]
  /\ IF Known(n)
       THEN /\ rpc' = [rpc EXCEPT ![t] = "lock"]
            /\ answer' = [answer EXCEPT ![t] = NoAnswer]
       ELSE /\ answer' = [answer EXCEPT ![t] = Unknown]
            /\ rpc' = rpc
  /\ UNCHANGED <<fileVars, rd, streamVars, d_indices, d_readMutex>>

\* Variant: the mutex is taken from whoever has it.
LockAnyway(t) ==
  /\ rd = "open"
  /\ rpc[t] = "lock"
  /\ d_readMutex' = t
  /\ rpc' = [rpc EXCEPT ![t] = "seek"]
  /\ UNCHANGED <<fileVars, rd, streamVars, d_indices, rname, answer, reads>>

Lock(t) ==
  /\ rd = "open"
  /\ rpc[t] = "lock"
  /\ d_readMutex = NoThread
  /\ d_readMutex' = t
  /\ rpc' = [rpc EXCEPT ![t] = "seek"]
  /\ UNCHANGED <<fileVars, rd, streamVars, d_indices, rname, answer, reads>>

SeekEntry(t) ==
  /\ rd = "open"
  /\ rpc[t] = "seek"
  /\ Seek(Item(rname[t]).offset)
  /\ rpc' = [rpc EXCEPT ![t] = "read"]
  /\ UNCHANGED <<fileVars, d_indices, d_readMutex, rname, answer, reads>>

StartRead(t) ==
  /\ rd = "open"
  /\ rpc[t] = "read"
  /\ left' = Item(rname[t]).size
  /\ dest' = <<>>
  /\ rpc' = [rpc EXCEPT ![t] = "copy"]
  /\ UNCHANGED <<fileVars, rd, r_table, d_curChunk, getArea, gptr, r_good>>
  /\ UNCHANGED <<d_indices, d_readMutex, rname, answer, reads>>

Copy(t) ==
  /\ rd = "open"
  /\ rpc[t] = "copy"
  /\ XsgetnStep
  /\ UNCHANGED <<fileVars, d_indices, threadVars>>

\* Variant: a short read leaves without the unlock.
ReturnLocked(t) ==
  LET size == Item(rname[t]).size
  IN  /\ rd = "open"
      /\ rpc[t] = "copy"
      /\ ~Reading
      /\ answer' = [answer EXCEPT ![t] =
                      [k \in 1..size |-> IF k <= Len(dest) THEN dest[k] ELSE Nul]]
      /\ d_readMutex' = IF left > 0 THEN d_readMutex ELSE NoThread
      /\ rpc' = [rpc EXCEPT ![t] = "idle"]
      /\ left' = 0
      /\ dest' = <<>>
      /\ UNCHANGED <<fileVars, rd, r_table, d_curChunk, getArea, gptr, r_good>>
      /\ UNCHANGED <<d_indices, rname, reads>>

\* Nobody looks at the stream's state or at gcount().
Return(t) ==
  LET size == Item(rname[t]).size
  IN  /\ rd = "open"
      /\ rpc[t] = "copy"
      /\ ~Reading
      /\ answer' = [answer EXCEPT ![t] =
                      [k \in 1..size |-> IF k <= Len(dest) THEN dest[k] ELSE Nul]]
      /\ d_readMutex' = NoThread
      /\ rpc' = [rpc EXCEPT ![t] = "idle"]
      /\ left' = 0
      /\ dest' = <<>>
      /\ UNCHANGED <<fileVars, rd, r_table, d_curChunk, getArea, gptr, r_good>>
      /\ UNCHANGED <<d_indices, rname, reads>>

ReadEntry(t) == Lock(t) \/ SeekEntry(t) \/ StartRead(t) \/ Copy(t) \/ Return(t)

ReaderNext ==
  \/ Open
  \/ \E t \in Thread, n \in Name : Call(t, n)
  \/ \E t \in Thread : ReadEntry(t)

\* The files may be any: complete, cut off, damaged, or not of the same corpus.
\* Only the last chunk of an archive is ever shorter than ChunkLen; the table is
\* all there is in the extra field; and its count, of two bytes, is no more than
\* an int can hold.
ArchiveFile ==
  {f \in [exists : BOOLEAN, header : BOOLEAN, xlen : Nat, count : Nat,
          table : Nat \cup {NoTable},
          blocks : Seq([bytes : Seq(Byte), cut : BOOLEAN]), isize : Nat] :
     /\ f.xlen <= 10 + 2 * f.count
     /\ 2 * f.count <= IntMod
     /\ \A i \in 1..Len(f.blocks) :
          /\ Len(f.blocks[i].bytes) <= ChunkLen
          /\ i < Len(f.blocks) => Len(f.blocks[i].bytes) = ChunkLen}

AnyFiles ==
  /\ dzFile \in ArchiveFile
  /\ indexExists \in BOOLEAN
  /\ indexFile \in Seq([name : Name, offset : Seq(Int), size : Seq(Int)])

ReaderSpec == ReaderInit /\ AnyFiles /\ [][ReaderNext]_vars

\* A thread that can run does, and d_readMutex goes to one of those waiting.
Fairness == \A t \in Thread : WF_vars(ReadEntry(t))

----------------------------------------------------------------------------
Answered(t) == rd = "open" /\ rpc[t] = "idle" /\ answer[t] \notin {NoAnswer, Unknown}

\* The bytes of an entry as the index and the archive define them.
HasByte(p) ==
  /\ p \div ChunkLen < Len(dzFile.blocks)
  /\ p % ChunkLen < Len(dzFile.blocks[(p \div ChunkLen) + 1].bytes)

EntryByte(p) == dzFile.blocks[(p \div ChunkLen) + 1].bytes[(p % ChunkLen) + 1]

\* The number of the chunk with this byte is one that an int can hold.
ChunkNumberFits(offset) == 2 * (offset \div ChunkLen) < IntMod

\* On an archive that is damaged or does not fit its index, a read still never
\* hands out a byte that is not the entry's: neither what a failed inflate left
\* in the buffer nor the bytes of the chunk that was there before.  Each byte
\* is the entry's own or zero.  (The exception are offsets so large that seekoff
\* looks in the wrong chunk for them: no archive has that many chunks.)
ForeignBytesNeverReturned ==
  \A t \in Thread :
    Answered(t) =>
      LET item == Item(rname[t])
      IN  ChunkNumberFits(item.offset) =>
            \A k \in 1..item.size :
              \/ answer[t][k] = Nul
              \/ /\ HasByte(item.offset + k - 1)
                 /\ answer[t][k] = EntryByte(item.offset + k - 1)

\* The chunks that an entry lies in are there and can be inflated.
Intact(item) ==
  \A k \in 1..item.size :
    LET n == (item.offset + k - 1) \div ChunkLen
    IN  /\ n < r_table
        /\ HasByte(item.offset + k - 1)
        /\ Decodes(n)
        /\ ~dzFile.blocks[n + 1].cut

Returned(t) ==
  LET item == Item(rname[t])
  IN  answer[t] = [k \in 1..item.size |-> EntryByte(item.offset + k - 1)]

\* From a corpus with nothing wrong, every read returns its entry: the bytes at
\* its offset, all of them and no others, whatever was read before, whichever
\* chunk the stream was left at and whoever else is reading.  (Two sorts of sound
\* archives are not among those of the run: FFArchive and EmptyLast.)
SoundCorpusRead ==
  (\A i \in 1..Len(d_indices) : Intact(d_indices[i])) =>
    \A t \in Thread : Answered(t) => Returned(t)

\* A read returns the content of the entry it asks for whenever the archive has
\* it, whatever is wrong with other entries.
IntactEntryReturned ==
  \A t \in Thread : Answered(t) /\ Intact(Item(rname[t])) => Returned(t)

\* Every call of readEntry returns, unless the process ends.
EveryReadReturns ==
  \A t \in Thread : rpc[t] = "lock" ~> rpc[t] = "idle" \/ rd = "dead"
=============================================================================
