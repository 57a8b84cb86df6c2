---------------------------- MODULE DzOstreamBuf ----------------------------
(***************************************************************************)
(* The output side of a dictzip archive: the streambuf DzOstreamBuf of     *)
(* src/src/DzOstreamBuf.cpp with the file it writes.  Bytes collect in a   *)
(* put area as long as one chunk; a full put area is deflated with a full  *)
(* flush and appended to a temporary file, so that each chunk can be       *)
(* inflated on its own.  Only the destructor writes the archive itself:    *)
(* header, chunk table, compressed chunks, trailer.  It does so through a  *)
(* stdio stream, and what of it is on disk is certain only after fclose.   *)
(*                                                                         *)
(* The module has no behaviour of its own: modules that use the stream     *)
(* (DzOstream, CompactCorpusWriter) build their steps from its actions.    *)
(*                                                                         *)
(* A compressed chunk is kept as the bytes that went in and whether        *)
(* deflate's output fitted the output buffer.  The buffer is as large as   *)
(* the chunk, so a chunk of Dense (incompressible) bytes is cut: the rest  *)
(* of its output is delivered at the head of the next chunk's.             *)
(***************************************************************************)
EXTENDS Integers, Sequences

CONSTANTS
  Byte,      \* the byte values in use
  Dense,     \* the bytes deflate cannot make shorter
  ChunkLen,  \* DZ_PREF_UNCOMPRESSED_SIZE
  FieldMod   \* 2^16: what the two fputc calls of a table field can hold

ASSUME DzAssumption ==
  /\ ChunkLen \in Nat \ {0}
  /\ FieldMod \in Nat \ {0}
  /\ Dense \subseteq Byte

VARIABLES
  dz,        \* where the stream is in its life, see Phase
  o_good,    \* the ostream around the buffer has no badbit
  src,       \* what a running xsputn has still to copy
  d_buffer,  \* the bytes between pbase() and pptr()
  d_chunks,  \* the chunks in the temporary file; the chunk table is in step
  d_size,    \* the number of bytes flushed
  d_dzStream,  \* what was written to the archive, through the buffer of stdio
  dzFile,    \* the archive on disk
  sent       \* ghost: every byte the stream accepted

dzVars == <<dz, o_good, src, d_buffer, d_chunks, d_size, d_dzStream, dzFile, sent>>

Phase == {"unopened", "open", "header", "table", "zdata", "trailer",
          "fclose", "closed", "dead"}

Chunk == [bytes : Seq(Byte), cut : BOOLEAN]

\* The chunk table: how long its fields xlen and count say it is, and how many
\* sizes there are, NoSizes if it ends before the first.  xlen = 0 stands also
\* for a table that is not there.
NoSizes == -1

DzFileType == [exists : BOOLEAN, header : BOOLEAN, xlen : Nat, count : Nat,
               table : Nat \cup {NoSizes}, blocks : Seq(Chunk), isize : Nat]

Truncated(opened) == [exists |-> opened, header |-> FALSE, xlen |-> 0,
                      count |-> 0, table |-> NoSizes, blocks |-> <<>>, isize |-> 0]

\* fopen may fail; the constructor then returns a stream with no put area.
DzInit ==
  /\ dz \in {"unopened", "open"}
  /\ o_good = TRUE
  /\ src = <<>>
  /\ d_buffer = <<>>
  /\ d_chunks = <<>>
  /\ d_size = 0
  /\ d_dzStream = Truncated(dz = "open")
  /\ dzFile = d_dzStream
  /\ sent = <<>>

Deflated(bytes) ==
  [bytes |-> bytes,
   cut   |-> Len(bytes) = ChunkLen /\ \A i \in 1..Len(bytes) : bytes[i] \in Dense]

AddChunk == d_chunks' = Append(d_chunks, Deflated(d_buffer))

(***************************************************************************)
(* Writing.  One round of the loop in xsputn either copies what fits, or   *)
(* finds the put area full and flushes it first: a flush is never done     *)
(* before the next byte has arrived.                                       *)
(***************************************************************************)
\* Variant: copy all there is, whatever the room.
WithoutRoom(a, b) == b

SmallerOf(a, b) == IF a < b THEN a ELSE b

\* Variant: flush as soon as the put area is full.
EagerCopy ==
  LET avail == SmallerOf(ChunkLen - Len(d_buffer), Len(src))
      grown == d_buffer \o SubSeq(src, 1, avail)
      full  == Len(grown) = ChunkLen
  IN  /\ dz = "open"
      /\ src # <<>>
      /\ Len(d_buffer) < ChunkLen
      /\ d_buffer' = IF full THEN <<>> ELSE grown
      /\ d_chunks' = IF full THEN Append(d_chunks, Deflated(grown)) ELSE d_chunks
      /\ d_size' = IF full THEN d_size + ChunkLen ELSE d_size
      /\ sent' = sent \o SubSeq(src, 1, avail)
      /\ src' = SubSeq(src, avail + 1, Len(src))
      /\ UNCHANGED <<dz, o_good, d_dzStream, dzFile>>

XsputnCopy ==
  LET avail == SmallerOf(ChunkLen - Len(d_buffer), Len(src))
      piece == SubSeq(src, 1, avail)
  IN  /\ dz = "open"
      /\ src # <<>>
      /\ Len(d_buffer) < ChunkLen
      /\ d_buffer' = d_buffer \o piece
      /\ sent' = sent \o piece
      /\ src' = SubSeq(src, avail + 1, Len(src))
      /\ UNCHANGED <<dz, o_good, d_chunks, d_size, d_dzStream, dzFile>>

\* Variant: pptr() and pbase() the wrong way round in the difference.
FlushBackwards ==
  /\ AddChunk
  /\ d_size' = d_size - Len(d_buffer)

FlushBuffer ==
  /\ AddChunk
  /\ d_size' = d_size + Len(d_buffer)

XsputnFlush ==
  /\ dz = "open"
  /\ src # <<>>
  /\ Len(d_buffer) = ChunkLen
  /\ FlushBuffer
  /\ d_buffer' = <<>>
  /\ UNCHANGED <<dz, o_good, src, d_dzStream, dzFile, sent>>

\* A stream that was never opened has an empty put area and a z_stream that
\* was never set up.  deflate refuses it, and the ostream turns the exception
\* into badbit; the other outcome, the end of the process, is Crash.
XsputnUnopened ==
  /\ dz = "unopened"
  /\ src # <<>>
  /\ o_good' = FALSE
  /\ src' = <<>>
  /\ UNCHANGED <<dz, d_buffer, d_chunks, d_size, d_dzStream, dzFile, sent>>

XsputnStep == XsputnCopy \/ XsputnFlush \/ XsputnUnopened

\* The byte of a single-character put when the put area is full.
Overflow(c) ==
  /\ dz = "open"
  /\ Len(d_buffer) = ChunkLen
  /\ FlushBuffer
  /\ d_buffer' = <<c>>
  /\ sent' = Append(sent, c)
  /\ UNCHANGED <<dz, o_good, src, d_dzStream, dzFile>>

(***************************************************************************)
(* The destructor, a step per piece of the file, so that a crash can fall  *)
(* between any two.  A flush with nothing to compress is an error of       *)
(* deflate, except for the first: the exception is caught and no chunk is  *)
(* added.                                                                  *)
(***************************************************************************)
CloseFlush ==
  /\ dz = "open"
  /\ src = <<>>
  /\ IF d_buffer = <<>> /\ d_chunks # <<>>
       THEN UNCHANGED <<d_chunks, d_size>>
       ELSE FlushBuffer
  /\ d_buffer' = <<>>
  /\ dz' = "header"
  /\ UNCHANGED <<o_good, src, d_dzStream, dzFile, sent>>

WriteHeader ==
  /\ dz = "header"
  /\ d_dzStream' = [d_dzStream EXCEPT !.header = TRUE]
  /\ dz' = "table"
  /\ UNCHANGED <<o_good, src, d_buffer, d_chunks, d_size, dzFile, sent>>

WriteChunkInfo ==
  /\ dz = "table"
  /\ d_dzStream' = [d_dzStream EXCEPT !.xlen  = (10 + 2 * Len(d_chunks)) % FieldMod,
                              !.count = Len(d_chunks) % FieldMod,
                              !.table = Len(d_chunks)]
  /\ dz' = "zdata"
  /\ UNCHANGED <<o_good, src, d_buffer, d_chunks, d_size, dzFile, sent>>

\* Variant: the last chunk is forgotten.
WriteZDataShort ==
  /\ dz = "zdata"
  /\ LET n == Len(d_dzStream.blocks)
     IN IF n + 1 < Len(d_chunks)
          THEN /\ d_dzStream' = [d_dzStream EXCEPT !.blocks = Append(@, d_chunks[n + 1])]
               /\ dz' = dz
          ELSE /\ dz' = "trailer"
               /\ d_dzStream' = d_dzStream
  /\ UNCHANGED <<o_good, src, d_buffer, d_chunks, d_size, dzFile, sent>>

WriteZData ==
  /\ dz = "zdata"
  /\ LET n == Len(d_dzStream.blocks)
     IN IF n < Len(d_chunks)
          THEN /\ d_dzStream' = [d_dzStream EXCEPT !.blocks = Append(@, d_chunks[n + 1])]
               /\ dz' = dz
          ELSE /\ dz' = "trailer"
               /\ d_dzStream' = d_dzStream
  /\ UNCHANGED <<o_good, src, d_buffer, d_chunks, d_size, dzFile, sent>>

\* Variant: the archive is opened for writing once more.
WriteTrailerAnew ==
  /\ dz = "trailer"
  /\ d_dzStream' = [Truncated(TRUE) EXCEPT !.isize = d_size]
  /\ dz' = "fclose"
  /\ UNCHANGED <<o_good, src, d_buffer, d_chunks, d_size, dzFile, sent>>

WriteTrailer ==
  /\ dz = "trailer"
  /\ d_dzStream' = [d_dzStream EXCEPT !.isize = d_size]
  /\ dz' = "fclose"
  /\ UNCHANGED <<o_good, src, d_buffer, d_chunks, d_size, dzFile, sent>>

\* fclose(d_dzStream): all of it is handed to the system.
Fclose ==
  /\ dz = "fclose"
  /\ dzFile' = d_dzStream
  /\ dz' = "closed"
  /\ UNCHANGED <<o_good, src, d_buffer, d_chunks, d_size, d_dzStream, sent>>

CloseUnopened ==
  /\ dz = "unopened"
  /\ src = <<>>
  /\ dz' = "closed"
  /\ UNCHANGED <<o_good, src, d_buffer, d_chunks, d_size, d_dzStream, dzFile, sent>>

BeginClose == CloseFlush \/ CloseUnopened
CloseStep  == WriteHeader \/ WriteChunkInfo \/ WriteZData \/ WriteTrailer \/ Fclose

\* What the first bytes of an archive amount to, however many: it may end in the
\* header or right after it, in the chunk table, in a chunk (which is then as
\* good as not there, like those after it) or in the trailer.
Begun(f) ==
  {[Truncated(f.exists) EXCEPT !.header = h] : h \in {FALSE, f.header}}
  \cup {[f EXCEPT !.table = t, !.blocks = <<>>, !.isize = 0] : t \in NoSizes..f.table}
  \cup {[f EXCEPT !.blocks = SubSeq(f.blocks, 1, k), !.isize = 0] : k \in 0..Len(f.blocks)}
  \cup {f}

\* The process ends.  stdio has passed on what did not fit its buffer, which may
\* be any part of the beginning; since no one reads the archive before, how much
\* it was is settled only here.
CrashStream ==
  /\ dz \notin {"closed", "dead"}
  /\ dz' = "dead"
  /\ dzFile' \in Begun(d_dzStream)
  /\ UNCHANGED <<o_good, src, d_buffer, d_chunks, d_size, d_dzStream, sent>>

----------------------------------------------------------------------------
DzTypeOK ==
  /\ dz \in Phase
  /\ o_good \in BOOLEAN
  /\ src \in Seq(Byte)
  /\ d_buffer \in Seq(Byte)
  /\ d_chunks \in Seq(Chunk)
  /\ d_size \in Nat
  /\ d_dzStream \in DzFileType
  /\ dzFile \in DzFileType
  /\ sent \in Seq(Byte)

\* Byte r of chunk c, both counted from 0, is there and is b.
Stored(chunks, c, r, b) ==
  /\ c < Len(chunks)
  /\ r < Len(chunks[c + 1].bytes)
  /\ chunks[c + 1].bytes[r + 1] = b

\* Where DzIstreamBuf::seekoff looks for the byte at position p.
StoredAt(chunks, p, b) == Stored(chunks, p \div ChunkLen, p % ChunkLen, b)

\* Every byte flushed stands in the chunk, and at the place in that chunk,
\* where a reader looks for it; the others are in the put area, in order.
\* (A chunk is flushed only when full, except for the last, in the destructor.)
ChunkAddressing ==
  /\ Len(sent) = d_size + Len(d_buffer)
  /\ \A p \in 0..(d_size - 1) : StoredAt(d_chunks, p, sent[p + 1])
  /\ \A q \in 1..Len(d_buffer) : d_buffer[q] = sent[d_size + q]

\* When the destructor is through, the file itself has every byte ever
\* accepted at its address, and header, table and trailer agree with it.
ArchiveComplete ==
  dz = "closed" /\ dzFile.exists =>
    /\ dzFile.header
    /\ dzFile.table = Len(dzFile.blocks)
    /\ dzFile.count = dzFile.table % FieldMod
    /\ dzFile.isize = Len(sent)
    /\ \A p \in 0..(Len(sent) - 1) : StoredAt(dzFile.blocks, p, sent[p + 1])

\* The flush in the destructor always has bytes to compress, so deflate never
\* answers Z_BUF_ERROR there and the table never lists an empty chunk; the
\* archive of a stream that was never written to is the one exception.
FinalFlushHasInput ==
  /\ \A i \in 1..Len(d_chunks) : d_chunks[i].bytes = <<>> => sent = <<>>
  /\ dz = "open" /\ d_buffer = <<>> => d_chunks = <<>> \/ src # <<>>

\* g is f, or f with something written after it.
Extends(f, g) ==
  /\ Len(f.blocks) <= Len(g.blocks)
  /\ SubSeq(g.blocks, 1, Len(f.blocks)) = f.blocks
  /\ f.header => g.header
  /\ f.blocks # <<>> => g.xlen = f.xlen /\ g.count = f.count /\ g.table = f.table

\* What was written to the archive, and what of it is on disk, is never taken
\* back or rewritten: its blocks only grow, and header and table, once there, do
\* not change while they do.
ArchiveGrowsOnly ==
  [][Extends(d_dzStream, d_dzStream') /\ Extends(dzFile, dzFile')]_dzVars
=============================================================================
