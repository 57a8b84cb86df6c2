------------------------ MODULE CompactCorpusWriter ------------------------
(***************************************************************************)
(* CompactCorpusWriterPrivate (src/src/CompactCorpusWriterPrivate.cpp):    *)
(* threads add entries to a compact corpus through one writer.  An entry's *)
(* bytes go to the dictzip stream, then its name, offset and size to the   *)
(* index, then the offset for the next entry is advanced, all under        *)
(* d_writeMutex.  The index is flushed line by line, while the archive     *)
(* appears only when the writer is destroyed.                              *)
(*                                                                         *)
(* A call is a step per access to state that outlives it, so that calls    *)
(* of other threads and the end of the process can fall between any two.   *)
(***************************************************************************)
EXTENDS DzOstreamBuf, Base64

CONSTANTS
  Caller,      \* the threads that write
  NoCaller,    \* d_writeMutex is free
  Name,        \* entry names
  NoName,      \* the name argument of a thread outside writeEntry
  Data,        \* entry contents
  MaxEntries   \* bound: calls of writeEntry

ASSUME WriterAssumption ==
  /\ NoCaller \notin Caller
  /\ NoName \notin Name
  /\ Data \subseteq Seq(Byte)
  /\ MaxEntries \in Nat

VARIABLES
  d_writeMutex,  \* the thread that holds it
  wpc,           \* where each thread is in writeEntry
  warg,          \* its arguments
  d_offset,      \* where the next entry starts
  indexExists,     \* whether the index file could be opened
  indexFile,     \* its lines
  written        \* ghost: the entries in the order of their index lines

writerVars == <<d_writeMutex, wpc, warg, d_offset, indexExists, indexFile, written>>
vars == <<dzVars, writerVars>>

Outside == [name |-> NoName, data |-> <<>>]

\* The constructor tests its two shared pointers, never the streams behind
\* them: a writer comes into being whichever of the files fopen refused.
Init ==
  /\ DzInit
  /\ d_writeMutex = NoCaller
  /\ wpc = [c \in Caller |-> "idle"]
  /\ warg = [c \in Caller |-> Outside]
  /\ d_offset = 0
  /\ indexExists \in BOOLEAN
  /\ indexFile = <<>>
  /\ written = <<>>

NoCalls == \A c \in Caller : wpc[c] = "idle"

(***************************************************************************)
(* writeEntry.                                                             *)
(***************************************************************************)
Call(c, n, d) ==
  /\ dz \in {"unopened", "open"}
  /\ wpc[c] = "idle"
  /\ Len(written) < MaxEntries
  /\ wpc' = [wpc EXCEPT ![c] = "lock"]
  /\ warg' = [warg EXCEPT ![c] = [name |-> n, data |-> d]]
  /\ UNCHANGED <<dzVars, d_writeMutex, d_offset, indexExists, indexFile, written>>

\* Variant: the mutex is taken from whoever has it.
LockAnyway(c) ==
  /\ dz \in {"unopened", "open"}
  /\ wpc[c] = "lock"
  /\ d_writeMutex' = c
  /\ wpc' = [wpc EXCEPT ![c] = "data"]
  /\ UNCHANGED <<dzVars, warg, d_offset, indexExists, indexFile, written>>

Lock(c) ==
  /\ dz \in {"unopened", "open"}
  /\ wpc[c] = "lock"
  /\ d_writeMutex = NoCaller
  /\ d_writeMutex' = c
  /\ wpc' = [wpc EXCEPT ![c] = "data"]
  /\ UNCHANGED <<dzVars, warg, d_offset, indexExists, indexFile, written>>

\* *d_dataStream << data: a stream that is not good drops the data, and
\* nobody looks.
PutData(c) ==
  /\ dz \in {"unopened", "open"}
  /\ wpc[c] = "data"
  /\ src' = IF o_good THEN warg[c].data ELSE <<>>
  /\ wpc' = [wpc EXCEPT ![c] = "index"]
  /\ UNCHANGED <<dz, o_good, d_buffer, d_chunks, d_size, d_dzStream, dzFile, sent>>
  /\ UNCHANGED <<d_writeMutex, warg, d_offset, indexExists, indexFile, written>>

CopyData == XsputnStep /\ UNCHANGED writerVars

\* Variant: the line says where the entry ends.
WriteIndexEnd(c) ==
  /\ dz \in {"unopened", "open"}
  /\ wpc[c] = "index"
  /\ src = <<>>
  /\ LET size == Len(warg[c].data)
         line == [name   |-> warg[c].name,
                  offset |-> Encode(d_offset + size),
                  size   |-> Encode(size)]
         entry == [name |-> warg[c].name, data |-> warg[c].data,
                   offset |-> d_offset, accepted |-> o_good]
     IN  /\ indexFile' = IF indexExists THEN Append(indexFile, line) ELSE indexFile
         /\ written' = Append(written, entry)
  /\ wpc' = [wpc EXCEPT ![c] = "offset"]
  /\ UNCHANGED <<dzVars, d_writeMutex, warg, d_offset, indexExists>>

\* The line ends in endl, so it is in the file before the next step.
WriteIndex(c) ==
  /\ dz \in {"unopened", "open"}
  /\ wpc[c] = "index"
  /\ src = <<>>
  /\ LET line == [name   |-> warg[c].name,
                  offset |-> Encode(d_offset),
                  size   |-> Encode(Len(warg[c].data))]
         entry == [name |-> warg[c].name, data |-> warg[c].data,
                   offset |-> d_offset, accepted |-> o_good]
     IN  /\ indexFile' = IF indexExists THEN Append(indexFile, line) ELSE indexFile
         /\ written' = Append(written, entry)
  /\ wpc' = [wpc EXCEPT ![c] = "offset"]
  /\ UNCHANGED <<dzVars, d_writeMutex, warg, d_offset, indexExists>>

\* Variant: the offset counts a line end that the stream does not get.
AddOffsetLine(c) ==
  /\ dz \in {"unopened", "open"}
  /\ wpc[c] = "offset"
  /\ d_offset' = d_offset + Len(warg[c].data) + 1
  /\ d_writeMutex' = NoCaller
  /\ wpc' = [wpc EXCEPT ![c] = "idle"]
  /\ warg' = [warg EXCEPT ![c] = Outside]
  /\ UNCHANGED <<dzVars, indexExists, indexFile, written>>

AddOffset(c) ==
  /\ dz \in {"unopened", "open"}
  /\ wpc[c] = "offset"
  /\ d_offset' = d_offset + Len(warg[c].data)
  /\ d_writeMutex' = NoCaller
  /\ wpc' = [wpc EXCEPT ![c] = "idle"]
  /\ warg' = [warg EXCEPT ![c] = Outside]
  /\ UNCHANGED <<dzVars, indexExists, indexFile, written>>

WriteEntry(c) == Lock(c) \/ PutData(c) \/ WriteIndex(c) \/ AddOffset(c)

(***************************************************************************)
(* The owner destroys the writer when no call is in progress.              *)
(***************************************************************************)
Destroy == NoCalls /\ BeginClose /\ UNCHANGED writerVars

FinishDestroy == CloseStep /\ UNCHANGED writerVars

Crash == CrashStream /\ UNCHANGED writerVars

Next ==
  \/ \E c \in Caller, n \in Name, d \in Data : Call(c, n, d)
  \/ \E c \in Caller : WriteEntry(c)
  \/ CopyData
  \/ Destroy
  \/ FinishDestroy
  \/ Crash

Spec == Init /\ [][Next]_vars

----------------------------------------------------------------------------
Entry == [name : Name, data : Data, offset : Nat, accepted : BOOLEAN]

TypeOK ==
  /\ DzTypeOK
  /\ d_writeMutex \in Caller \cup {NoCaller}
  /\ wpc \in [Caller -> {"idle", "lock", "data", "index", "offset"}]
  /\ warg \in [Caller -> [name : Name, data : Data] \cup {Outside}]
  /\ d_offset \in Nat
  /\ indexExists \in BOOLEAN
  /\ \A i \in DOMAIN indexFile : indexFile[i].name \in Name
  /\ written \in Seq(Entry)

\* The byte at position p is b: in its chunk, or in the put area that becomes
\* the next one.
InStream(p, b) ==
  IF p < d_size THEN StoredAt(d_chunks, p, b)
  ELSE p - d_size < Len(d_buffer) /\ d_buffer[p - d_size + 1] = b

\* Whatever the threads write and however their calls interleave, an entry
\* the data stream accepted is found, whole, at the offset its index line was
\* given, from the moment that line exists and ever after.
EntriesStored ==
  \A i \in 1..Len(written) :
    LET w == written[i]
    IN  w.accepted =>
          \A k \in 1..Len(w.data) : InStream(w.offset + k - 1, w.data[k])

\* The entries tile the stream: the offset of a line is the sum of the sizes
\* before it, so no two entries share a byte and none is skipped.
EntriesTile ==
  \A i \in 1..Len(written) :
    written[i].offset =
      IF i = 1 THEN 0 ELSE written[i - 1].offset + Len(written[i - 1].data)

\* The index file is the log of the writes, a line to an entry in their order,
\* and its lines decode to the offset and size of that entry.
IndexIsLog ==
  indexExists =>
    /\ Len(indexFile) = Len(written)
    /\ \A i \in 1..Len(written) :
         /\ indexFile[i].name = written[i].name
         /\ Decode(indexFile[i].offset) = written[i].offset
         /\ Decode(indexFile[i].size) = Len(written[i].data)

\* A caller that has a writer has one on two open files: opening reports a
\* target that cannot be opened, so what is written goes into the archive and
\* gets its line in the index.
WrittenIsKept ==
  \A i \in 1..Len(written) : written[i].accepted /\ Len(indexFile) >= i
=============================================================================
