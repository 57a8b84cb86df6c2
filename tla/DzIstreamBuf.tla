---------------------------- MODULE DzIstreamBuf ----------------------------
(***************************************************************************)
(* The input side of a dictzip archive: the streambuf DzIstreamBuf of      *)
(* src/src/DzIstreamBuf.cpp inside its std::istream.  The chunk table is   *)
(* read once; afterwards a seek inflates the chunk of the target position  *)
(* into the get area, and a read copies from there and moves on to the     *)
(* next chunks.  Positions and chunk numbers count from 0, as in the code; *)
(* the get area is a sequence, with gptr bytes of it consumed.             *)
(*                                                                         *)
(* The users lock: one read at a time, so that the read in progress (left, *)
(* dest) is part of the stream's state.  The module has no behaviour of    *)
(* its own, see CompactCorpusReader.                                       *)
(***************************************************************************)
EXTENDS Integers, Sequences

CONSTANTS
  Byte,      \* the byte values in use
  ChunkLen,  \* d_chunkLen, as every archive of DzOstreamBuf records it
  Nul,       \* the zero byte
  EofByte,   \* 0xff: as a char of the get area it is equal to EOF
  Junk,      \* what a failed inflate leaves in the buffer
  IntMod,    \* 2^32: the values of an int
  PosMod     \* 2^64: the values of a std::streampos

ASSUME DzIstreamAssumption ==
  /\ ChunkLen \in Nat \ {0}
  /\ IntMod \in Nat \ {0}
  /\ PosMod \in Nat /\ ChunkLen * IntMod <= PosMod
  /\ Nul \in Byte
  /\ EofByte \notin {Nul, Junk}
  /\ Junk \notin Byte

VARIABLES
  dzFile,      \* the archive on disk, as DzOstreamBuf lays it out
  rd,          \* the reader: see ReaderPhase
  r_table,     \* how many chunks readExtra found, NoTable if no table at all
  d_curChunk,  \* the chunk in the get area, -1 for none
  getArea,     \* the bytes from eback() to egptr()
  gptr,        \* gptr() - eback(), beyond the get area after some seeks
  r_good,      \* the istream's state: no failbit, no badbit
  left,        \* how much xsgetn has still to copy
  dest         \* what it has copied

streamVars == <<r_table, d_curChunk, getArea, gptr, r_good, left, dest>>

\* "refused" is an OpenError, "failed" any other exception of the constructor,
\* "dead" the end of the process.
ReaderPhase == {"new", "open", "refused", "failed", "dead"}

NoTable == -1

StreamInit ==
  /\ r_table = NoTable
  /\ d_curChunk = -1
  /\ getArea = <<>>
  /\ gptr = 0
  /\ r_good = TRUE
  /\ left = 0
  /\ dest = <<>>

(***************************************************************************)
(* The constructor.  A header that is not there is an exception.  A table  *)
(* that is not there (the file ends, or its length field reads 0) is not:  *)
(* the loop of readExtra does not run and d_chunkLen stays uninitialized.  *)
(* One that ends early is read for as long as xlen says; then either a     *)
(* field cannot be read, or the count is EOF, which is a very large one.   *)
(***************************************************************************)
HeaderReadable == dzFile.exists /\ dzFile.header

TableCut ==
  /\ dzFile.xlen # 0
  /\ dzFile.table = NoTable \/ 10 + 2 * dzFile.table < dzFile.xlen

\* With a table comes a buffer: d_chunkLen zeros, all of them consumed.
ReadExtra ==
  IF dzFile.xlen = 0
    THEN r_table' = NoTable /\ UNCHANGED <<getArea, gptr>>
    ELSE /\ r_table' = dzFile.count
         /\ getArea' = [i \in 1..ChunkLen |-> Nul]
         /\ gptr' = ChunkLen

(***************************************************************************)
(* Inflating chunk n.                                                      *)
(***************************************************************************)
InTable(n)  == 0 <= n /\ n < r_table
OnDisk(n)   == n < Len(dzFile.blocks)
\* The chunks are taken to start where the sizes read from the table end, and a
\* chunk after a cut one starts with the rest of that one's output.
Decodes(n)  == dzFile.count = dzFile.table /\ (n > 0 => ~dzFile.blocks[n].cut)

\* Of a cut chunk the last bytes are missing; one byte stands for them.
Inflated(n) ==
  LET block == dzFile.blocks[n + 1]
  IN  IF block.cut THEN SubSeq(block.bytes, 1, Len(block.bytes) - 1)
                   ELSE block.bytes

\* Variant: the exception does not reach the stream's state.
ReadChunkUnnoticed(n) ==
  /\ InTable(n)
  /\ ~(OnDisk(n) /\ Decodes(n))
  /\ getArea' = IF OnDisk(n) THEN [i \in 1..Len(getArea) |-> Junk] ELSE getArea
  /\ UNCHANGED <<rd, r_table, d_curChunk, gptr, r_good, left, dest>>

\* The exception becomes badbit.  A short fread leaves the buffer alone; a
\* failed inflate has overwritten it while the get area still spans it and
\* d_curChunk still names the chunk that was there.
ReadChunkThrows(n) ==
  /\ InTable(n)
  /\ ~(OnDisk(n) /\ Decodes(n))
  /\ getArea' = IF OnDisk(n) THEN [i \in 1..Len(getArea) |-> Junk] ELSE getArea
  /\ r_good' = FALSE
  /\ UNCHANGED <<rd, r_table, d_curChunk, gptr, left, dest>>

\* d_chunks[n] outside the table (every n if there is none), or a position
\* divided by an uninitialized d_chunkLen: an exception on the way, or the end
\* of the process.
ReadChunkUndefined(n) ==
  /\ ~InTable(n)
  /\ \/ rd' = "dead" /\ r_good' = r_good
     \/ rd' = rd /\ r_good' = FALSE
  /\ UNCHANGED <<r_table, d_curChunk, getArea, gptr, left, dest>>

(***************************************************************************)
(* seekg(offset, beg) for a read of size bytes to follow.  The number of   *)
(* the chunk is put into an int: those of very large offsets wrap.         *)
(***************************************************************************)
Narrowed(q) ==
  LET w == q % IntMod
  IN  IF 2 * w < IntMod THEN w ELSE w - IntMod

Target(offset) == Narrowed(offset \div ChunkLen)

\* As a streampos the offset is below zero.
Negative(offset) == 2 * offset >= PosMod

\* d_curChunk is -1 at first, and so is the target of some offsets: they find
\* the buffer as readExtra made it.
SeekFound(offset) ==
  LET n == Target(offset)
  IN  /\ r_table # NoTable
      /\ ~Negative(offset)
      /\ IF n = d_curChunk
           THEN UNCHANGED <<getArea, d_curChunk>>
           ELSE /\ InTable(n) /\ OnDisk(n) /\ Decodes(n)
                /\ getArea' = Inflated(n)
                /\ d_curChunk' = n
      /\ gptr' = offset % ChunkLen
      /\ UNCHANGED <<rd, r_table, r_good, left, dest>>

SeekNotFound(offset) ==
  LET n == Target(offset)
  IN  /\ \/ r_table = NoTable
         \/ ~Negative(offset) /\ n # d_curChunk
      /\ ReadChunkThrows(n) \/ ReadChunkUndefined(n)

\* seekoff answers -1, which for seekg is a failure.
SeekRefused(offset) ==
  /\ r_table # NoTable
  /\ Negative(offset)
  /\ r_good' = FALSE
  /\ UNCHANGED <<rd, r_table, d_curChunk, getArea, gptr, left, dest>>

\* A stream that is not good stays where it is.
Seek(offset) ==
  \/ r_good /\ (SeekFound(offset) \/ SeekNotFound(offset) \/ SeekRefused(offset))
  \/ ~r_good /\ UNCHANGED <<rd, streamVars>>

(***************************************************************************)
(* xsgetn, a step per round of its loop.                                   *)
(***************************************************************************)
SmallerOf(a, b) == IF a < b THEN a ELSE b

Reading == r_good /\ left > 0

XsgetnCopy ==
  LET avail == SmallerOf(Len(getArea) - gptr, left)
  IN  /\ Reading
      /\ gptr < Len(getArea)
      /\ dest' = dest \o SubSeq(getArea, gptr + 1, gptr + avail)
      /\ gptr' = gptr + avail
      /\ left' = left - avail
      /\ UNCHANGED <<rd, r_table, d_curChunk, getArea, r_good>>

\* in_avail() is negative, and memcpy takes it for a very large size.
XsgetnOverrun ==
  /\ Reading
  /\ gptr > Len(getArea)
  /\ rd' = "dead"
  /\ UNCHANGED streamVars

\* underflow() at the last chunk: a short read.
UnderflowEnd ==
  /\ d_curChunk + 1 >= r_table
  /\ r_good' = FALSE
  /\ UNCHANGED <<rd, r_table, d_curChunk, getArea, gptr, left, dest>>

\* underflow() answers with the first char of the new chunk; 0xff is EOF.
UnderflowNext ==
  LET n == d_curChunk + 1
  IN  /\ InTable(n) /\ OnDisk(n) /\ Decodes(n)
      /\ getArea' = Inflated(n)
      /\ gptr' = 0
      /\ d_curChunk' = n
      /\ r_good' = (getArea' = <<>> \/ getArea'[1] # EofByte)
      /\ UNCHANGED <<rd, r_table, left, dest>>

XsgetnUnderflow ==
  /\ Reading
  /\ gptr = Len(getArea)
  /\ UnderflowEnd \/ UnderflowNext \/ ReadChunkThrows(d_curChunk + 1)

XsgetnStep == XsgetnCopy \/ XsgetnOverrun \/ XsgetnUnderflow
=============================================================================
