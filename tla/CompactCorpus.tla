--------------------------- MODULE CompactCorpus ---------------------------
(***************************************************************************)
(* A compact corpus from its first entry to its last read: one process     *)
(* writes it (CompactCorpusWriter), and when that process is through, or   *)
(* has ended in the middle, another opens the two files it left behind     *)
(* (CompactCorpusReader).  Nothing but the files connects the two.         *)
(***************************************************************************)
EXTENDS CompactCorpusWriter

CONSTANTS
  Nul, EofByte, Junk, IntMod, PosMod,              \* see DzIstreamBuf
  Thread, NoThread, NoAnswer, Unknown, MaxReads,   \* see CompactCorpusReader
  CrashIn    \* the phases in which the writing process may end too early

\* A field of the chunk table is narrower than an int, a streampos as wide as a
\* size_t.
ASSUME CorpusAssumption ==
  /\ Nul \in Byte /\ Junk \notin Byte
  /\ EofByte \notin {Nul, Junk}
  /\ IntMod \in Nat /\ 2 * FieldMod <= IntMod
  /\ PosMod \in Nat /\ PosMod = Modulus /\ ChunkLen * IntMod <= PosMod
  /\ NoThread \notin Thread
  /\ MaxReads \in Nat

VARIABLES
  rd, r_table, d_curChunk, getArea, gptr, r_good, left, dest,
  d_indices, d_readMutex, rpc, rname, answer, reads

Reader == INSTANCE CompactCorpusReader

readerOnly == <<rd, r_table, d_curChunk, getArea, gptr, r_good, left, dest,
                d_indices, d_readMutex, rpc, rname, answer, reads>>
writerOnly == <<dz, o_good, src, d_buffer, d_chunks, d_size, d_dzStream, sent,
                d_writeMutex, wpc, warg, d_offset, written>>
corpusVars == <<vars, readerOnly>>

\* Both files could be opened for writing; CompactCorpusWriter has the cases
\* where they could not.
CorpusInit ==
  /\ Init
  /\ dz = "open"
  /\ indexExists
  /\ Reader!ReaderInit

Write ==
  /\ \/ \E c \in Caller, n \in Name, d \in Data : Call(c, n, d)
     \/ \E c \in Caller : WriteEntry(c)
     \/ CopyData
     \/ Destroy
     \/ FinishDestroy
  /\ UNCHANGED readerOnly

WriterEnds == dz \in CrashIn /\ Crash /\ UNCHANGED readerOnly

OpenCorpus ==
  /\ dz \in {"closed", "dead"}
  /\ Reader!Open
  /\ UNCHANGED writerOnly

Read ==
  /\ \/ \E t \in Thread, n \in Name : Reader!Call(t, n)
     \/ \E t \in Thread : Reader!ReadEntry(t)
  /\ UNCHANGED writerOnly

CorpusNext == Write \/ WriterEnds \/ OpenCorpus \/ Read

CorpusSpec == CorpusInit /\ [][CorpusNext]_corpusVars

----------------------------------------------------------------------------
\* The byte at position p of the archive, finished or not.
ByteAt(p) ==
  IF p < d_size THEN d_chunks[(p \div ChunkLen) + 1].bytes[(p % ChunkLen) + 1]
                ELSE d_buffer[p - d_size + 1]

\* The entries as they can be recovered from the index and those bytes.
Recovered ==
  [i \in 1..Len(indexFile) |->
     [name |-> indexFile[i].name,
      data |-> [k \in 1..Decode(indexFile[i].size) |->
                  ByteAt(Decode(indexFile[i].offset) + k - 1)]]]

\* The writer's process did not end before its destructor was through.
Finished == dz = "closed"

\* The answers that count: from what a killed writer left there are none.
Counted == IF Finished THEN answer ELSE [t \in Thread |-> NoAnswer]

Abstract == INSTANCE Treebank WITH
  entries <- Recovered, sealed <- rd # "new", asked <- rname, reply <- Counted

\* The corpus is a treebank: an entry is added in one step, when its line gets
\* into the index, and never changes after that; every read is answered with
\* the entry last added under its name, if the writer finished.
ImplementsTreebank == Abstract!Spec

\* The entry last written under a name.
IsLatest(i, name) ==
  /\ written[i].name = name
  /\ \A j \in (i + 1)..Len(written) : written[j].name # name

\* Wherever the writing process ended, a reader that can open what it left gets
\* nothing but the entry it asks for: the length is right, and each byte is the
\* entry's own, or zero because the archive on disk does not have it.  If it
\* ended only after the destructor, the answer is the whole entry.  (A corpus that
\* cannot be opened any more answers nothing.)
AnswersAreEntries ==
  \A t \in Thread :
    Reader!Answered(t) =>
      \E i \in 1..Len(written) :
        /\ IsLatest(i, rname[t])
        /\ Len(answer[t]) = Len(written[i].data)
        /\ \A k \in 1..Len(answer[t]) : answer[t][k] \in {Nul, written[i].data[k]}
        /\ Finished => answer[t] = written[i].data
=============================================================================
