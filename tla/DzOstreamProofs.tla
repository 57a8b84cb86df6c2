-------------------------- MODULE DzOstreamProofs --------------------------
(***************************************************************************)
(* The theorems of DzOstream, for every ChunkLen, every set of bytes and   *)
(* every set of byte strings a user may write.  First the invariant of the *)
(* output stream and, action by action, that it is kept, whoever uses the  *)
(* stream: CompactCorpusProofs builds on these lemmas as well.             *)
(***************************************************************************)
EXTENDS DzOstream, Integers, TLAPS

\* While the stream is open each chunk flushed was a full one, so the next
\* chunk starts at a multiple of ChunkLen: what makes ChunkAddressing inductive.
PutArea ==
  /\ Len(d_buffer) <= ChunkLen
  /\ dz \in {"unopened", "open"} => d_size = ChunkLen * Len(d_chunks)
  /\ dz = "open" => \A i \in 1..Len(d_chunks) : Len(d_chunks[i].bytes) = ChunkLen
  /\ dz \in {"header", "table", "zdata", "trailer", "fclose"} => d_buffer = <<>>
  /\ dz = "closed" /\ dzFile.exists => d_buffer = <<>>

\* What was written to the archive agrees with the chunks in the temporary file,
\* and is written only when the put area is empty.
Agrees(f) ==
  /\ Len(f.blocks) <= Len(d_chunks)
  /\ \A i \in 1..Len(f.blocks) : f.blocks[i] = d_chunks[i]
  /\ f.header => d_buffer = <<>>
  /\ IF f.table = NoSizes
       THEN f.xlen = 0 /\ f.count = 0 /\ f.blocks = <<>>
       ELSE /\ f.header
            /\ f.xlen = (10 + 2 * Len(d_chunks)) % FieldMod
            /\ f.count = Len(d_chunks) % FieldMod
            /\ f.table = Len(d_chunks)

\* Nothing of it is missing.
Whole(f) ==
  f.table # NoSizes /\ Len(f.blocks) = Len(d_chunks) /\ f.isize = d_size

\* How far the archive has followed the chunks.
ArchiveFollows ==
  /\ Agrees(d_dzStream)
  /\ dz = "unopened" => d_dzStream = Truncated(FALSE)
  /\ dz \in {"open", "header"} => ~d_dzStream.header /\ d_dzStream.table = NoSizes
  /\ dz = "table" => d_dzStream.header /\ d_dzStream.table = NoSizes
  /\ dz \in {"zdata", "trailer"} => d_dzStream.table # NoSizes
  /\ dz = "trailer" => Len(d_dzStream.blocks) = Len(d_chunks)
  /\ dz = "fclose" => Whole(d_dzStream)
  /\ dz = "closed" /\ d_dzStream.exists => Whole(d_dzStream)

\* And how far the archive on disk has followed that.
FileFollows ==
  /\ dz \notin {"closed", "dead"} => dzFile = Truncated(dz # "unopened")
  /\ dz = "closed" => dzFile = d_dzStream
  /\ dz = "dead" => dzFile \in Begun(d_dzStream)

DzInv ==
  /\ DzTypeOK /\ ChunkAddressing /\ PutArea /\ FinalFlushHasInput
  /\ ArchiveFollows /\ FileFollows

----------------------------------------------------------------------------
\* Division by the chunk length, for positions written as full chunks and a rest.
LEMMA DivMod ==
  ASSUME NEW n \in Nat, NEW r \in Nat, r < ChunkLen
  PROVE  (ChunkLen * n + r) \div ChunkLen = n /\ (ChunkLen * n + r) % ChunkLen = r
<1>0. ChunkLen \in Nat \ {0}
  BY DzAssumption
<1>1. (ChunkLen * n + r) \div ChunkLen = n
  BY <1>0, Z3
<1>2. (ChunkLen * n + r) % ChunkLen = r
  BY <1>0, <1>1, Z3
<1> QED
  BY <1>1, <1>2

\* Chunk number and place in the chunk are natural numbers.
LEMMA DivModType ==
  ASSUME NEW p \in Nat
  PROVE  p \div ChunkLen \in Nat /\ p % ChunkLen \in Nat
BY DzAssumption

\* What deflate makes of a buffer is a chunk with the bytes of that buffer.
LEMMA DeflatedType ==
  ASSUME NEW s \in Seq(Byte)
  PROVE  Deflated(s) \in Chunk /\ Deflated(s).bytes = s
<1>1. (Len(s) = ChunkLen /\ \A i \in 1..Len(s) : s[i] \in Dense) \in BOOLEAN
  OBVIOUS
<1> QED
  BY <1>1 DEF Deflated, Chunk

\* A chunk added at the end disturbs no byte of the chunks before it ...
LEMMA StoredStays ==
  ASSUME NEW chunks \in Seq(Chunk), NEW chunk \in Chunk,
         NEW c \in Nat, NEW r \in Nat, NEW b, Stored(chunks, c, r, b)
  PROVE  Stored(Append(chunks, chunk), c, r, b)
<1>1. c + 1 \in 1..Len(chunks) /\ Len(Append(chunks, chunk)) = Len(chunks) + 1
  BY DEF Stored
<1>2. Append(chunks, chunk)[c + 1] = chunks[c + 1]
  BY <1>1
<1> QED
  BY <1>1, <1>2 DEF Stored

\* ... and its own bytes are found under the number of chunks before it.
LEMMA StoredLast ==
  ASSUME NEW chunks \in Seq(Chunk), NEW chunk \in Chunk,
         NEW r \in Nat, r < Len(chunk.bytes)
  PROVE  Stored(Append(chunks, chunk), Len(chunks), r, chunk.bytes[r + 1])
<1>1. /\ Len(chunks) \in Nat
      /\ Len(Append(chunks, chunk)) = Len(chunks) + 1
      /\ Append(chunks, chunk)[Len(chunks) + 1] = chunk
  OBVIOUS
<1> QED
  BY <1>1 DEF Stored

\* A flush of an open stream puts the bytes of the put area at their address.
LEMMA FlushAddresses ==
  ASSUME DzTypeOK, ChunkAddressing, PutArea, dz = "open", FlushBuffer
  PROVE  /\ d_chunks' \in Seq(Chunk)
         /\ Len(d_chunks') = Len(d_chunks) + 1
         /\ d_size' \in Nat
         /\ d_size' = d_size + Len(d_buffer)
         /\ d_size' = Len(sent)
         /\ \A p \in 0..(d_size' - 1) : StoredAt(d_chunks', p, sent[p + 1])
<1>1. /\ ChunkLen \in Nat \ {0}
      /\ d_chunks \in Seq(Chunk)
      /\ d_buffer \in Seq(Byte)
      /\ d_size \in Nat
  BY DzAssumption DEF DzTypeOK
<1>2. Len(d_chunks) \in Nat /\ Len(d_buffer) \in Nat
  BY <1>1
<1>3. Len(d_buffer) <= ChunkLen /\ d_size = ChunkLen * Len(d_chunks)
  BY DEF PutArea
<1>4. /\ Len(sent) = d_size + Len(d_buffer)
      /\ \A p \in 0..(d_size - 1) : StoredAt(d_chunks, p, sent[p + 1])
      /\ \A q \in 1..Len(d_buffer) : d_buffer[q] = sent[d_size + q]
  BY DEF ChunkAddressing
<1>5. /\ d_chunks' = Append(d_chunks, Deflated(d_buffer))
      /\ d_size' = d_size + Len(d_buffer)
  BY DEF FlushBuffer, AddChunk
<1>6. Deflated(d_buffer) \in Chunk /\ Deflated(d_buffer).bytes = d_buffer
  BY <1>1, DeflatedType
<1>7. d_chunks' \in Seq(Chunk) /\ Len(d_chunks') = Len(d_chunks) + 1
  BY <1>1, <1>5, <1>6
<1>8. ASSUME NEW p \in 0..(d_size' - 1)
      PROVE  StoredAt(d_chunks', p, sent[p + 1])
  <2>1. CASE p < d_size
    <3>1. p \in Nat /\ StoredAt(d_chunks, p, sent[p + 1])
      BY <1>1, <1>4, <2>1
    <3> QED
      BY <1>1, <1>5, <1>6, <3>1, DivModType, StoredStays DEF StoredAt
  <2>2. CASE p >= d_size
    <3>1. PICK r \in Nat : p = d_size + r /\ r < Len(d_buffer)
      <4>1. p - d_size \in Nat /\ p - d_size < Len(d_buffer) /\ p = d_size + (p - d_size)
        BY <1>1, <1>2, <1>5, <2>2
      <4> QED
        BY <4>1
    <3>2. r < ChunkLen /\ p = ChunkLen * Len(d_chunks) + r
      BY <1>1, <1>2, <1>3, <3>1
    <3>3. p \div ChunkLen = Len(d_chunks) /\ p % ChunkLen = r
      BY <1>2, <3>1, <3>2, DivMod
    <3>4. r + 1 \in 1..Len(d_buffer) /\ d_size + (r + 1) = p + 1
      BY <1>1, <1>2, <3>1
    <3>5. d_buffer[r + 1] = sent[p + 1]
      BY <1>4, <3>4
    <3>6. Stored(d_chunks', Len(d_chunks), r, sent[p + 1])
      BY <1>1, <1>5, <1>6, <3>1, <3>5, StoredLast
    <3> QED
      BY <3>3, <3>6 DEF StoredAt
  <2>3. p \in Int
    OBVIOUS
  <2> QED
    BY <1>1, <2>1, <2>2, <2>3
<1> QED
  BY <1>1, <1>2, <1>4, <1>5, <1>7, <1>8

\* Bytes that go into the put area are in order after the ones flushed.
LEMMA AcceptAddresses ==
  ASSUME DzTypeOK, ChunkAddressing, NEW piece \in Seq(Byte),
         d_buffer' = d_buffer \o piece, sent' = sent \o piece,
         UNCHANGED <<d_chunks, d_size>>
  PROVE  ChunkAddressing'
<1>1. /\ d_buffer \in Seq(Byte) /\ sent \in Seq(Byte) /\ d_size \in Nat
      /\ Len(d_buffer) \in Nat /\ Len(sent) \in Nat /\ Len(piece) \in Nat
  BY DEF DzTypeOK
<1>2. /\ Len(sent) = d_size + Len(d_buffer)
      /\ \A p \in 0..(d_size - 1) : StoredAt(d_chunks, p, sent[p + 1])
      /\ \A q \in 1..Len(d_buffer) : d_buffer[q] = sent[d_size + q]
  BY DEF ChunkAddressing
<1>3. /\ Len(d_buffer') = Len(d_buffer) + Len(piece)
      /\ Len(sent') = Len(sent) + Len(piece)
      /\ \A i \in 1..Len(sent) : sent'[i] = sent[i]
      /\ \A i \in 1..Len(piece) : sent'[Len(sent) + i] = piece[i]
      /\ \A i \in 1..Len(d_buffer) : d_buffer'[i] = d_buffer[i]
      /\ \A i \in 1..Len(piece) : d_buffer'[Len(d_buffer) + i] = piece[i]
  BY <1>1
<1>4. Len(sent') = d_size' + Len(d_buffer')
  BY <1>1, <1>2, <1>3
<1>5. ASSUME NEW p \in 0..(d_size' - 1)
      PROVE  StoredAt(d_chunks', p, sent'[p + 1])
  <2>1. p \in 0..(d_size - 1) /\ p + 1 \in 1..Len(sent)
    BY <1>1, <1>2
  <2> QED
    BY <1>2, <1>3, <2>1
<1>6. ASSUME NEW q \in 1..Len(d_buffer')
      PROVE  d_buffer'[q] = sent'[d_size' + q]
  <2>1. CASE q <= Len(d_buffer)
    <3>1. q \in 1..Len(d_buffer) /\ d_size + q \in 1..Len(sent)
      BY <1>1, <1>2, <2>1
    <3> QED
      BY <1>2, <1>3, <3>1
  <2>2. CASE q > Len(d_buffer)
    <3>1. PICK i \in 1..Len(piece) : q = Len(d_buffer) + i
      <4>1. q - Len(d_buffer) \in 1..Len(piece) /\ q = Len(d_buffer) + (q - Len(d_buffer))
        BY <1>1, <1>3, <2>2
      <4> QED
        BY <4>1
    <3>2. d_size' + q = Len(sent) + i
      BY <1>1, <1>2, <3>1
    <3> QED
      BY <1>3, <3>1, <3>2
  <2>3. q \in Int /\ Len(d_buffer) \in Int
    BY <1>1
  <2>4. q <= Len(d_buffer) \/ q > Len(d_buffer)
    BY <2>3
  <2> QED
    BY <2>1, <2>2, <2>4
<1> QED
  BY <1>4, <1>5, <1>6 DEF ChunkAddressing

----------------------------------------------------------------------------
\* The stream starts in a state of the invariant, opened or not.
LEMMA DzInitHolds ==
  ASSUME DzInit
  PROVE  DzInv
<1>1. ChunkLen \in Nat \ {0}
  BY DzAssumption
<1>2. DzTypeOK
  BY DEF DzInit, DzTypeOK, Phase, DzFileType, Truncated
<1>3. d_size = ChunkLen * Len(d_chunks)
  BY <1>1 DEF DzInit
<1>4. ChunkAddressing
  BY DEF DzInit, ChunkAddressing
<1>5. PutArea
  BY <1>1, <1>3 DEF DzInit, PutArea
<1>6. FinalFlushHasInput
  BY DEF DzInit, FinalFlushHasInput
<1>7. ArchiveFollows
  <2>1. /\ ~d_dzStream.header /\ d_dzStream.table = NoSizes /\ Len(d_dzStream.blocks) = 0
        /\ d_dzStream.xlen = 0 /\ d_dzStream.count = 0 /\ d_dzStream.blocks = <<>>
        /\ Len(d_chunks) = 0 /\ dz \in {"unopened", "open"}
    BY DEF DzInit, Truncated
  <2>2. dz = "unopened" => d_dzStream = Truncated(FALSE)
    BY DEF DzInit, Truncated
  <2>3. Agrees(d_dzStream)
    BY <2>1 DEF Agrees
  <2> QED
    BY <2>1, <2>2, <2>3 DEF ArchiveFollows
<1>8. FileFollows
  BY DEF DzInit, FileFollows, Truncated
<1> QED
  BY <1>2, <1>4, <1>5, <1>6, <1>7, <1>8 DEF DzInv

\* The archive is empty as long as the stream takes bytes.
LEMMA OpenFollows ==
  ASSUME DzInv, dz = "open", dz' \in {"open", "header"}, d_chunks' \in Seq(Chunk),
         UNCHANGED <<d_dzStream, dzFile>>
  PROVE  ArchiveFollows' /\ FileFollows'
<1>1. /\ ~d_dzStream.header /\ d_dzStream.table = NoSizes
      /\ d_dzStream.blocks = <<>> /\ d_dzStream.xlen = 0 /\ d_dzStream.count = 0
  BY DEF DzInv, ArchiveFollows, Agrees
<1>2. dzFile = Truncated(TRUE)
  BY DEF DzInv, FileFollows
<1>3. Len(d_chunks') >= 0 /\ Len(<<>>) = 0
  OBVIOUS
<1>4. ArchiveFollows'
  <2>1. Agrees(d_dzStream)'
    BY <1>1, <1>3 DEF Agrees
  <2> QED
    BY <1>1, <2>1 DEF ArchiveFollows
<1>5. FileFollows'
  BY <1>2 DEF FileFollows, Truncated
<1> QED
  BY <1>4, <1>5

\* Nothing the invariant speaks of but src changes when a write begins.
LEMMA NewSourceKeeps ==
  ASSUME DzInv, src' \in Seq(Byte), src = <<>> \/ dz # "open",
         UNCHANGED <<dz, o_good, d_buffer, d_chunks, d_size, d_dzStream, dzFile, sent>>
  PROVE  DzInv'
<1>1. DzTypeOK' /\ ChunkAddressing' /\ PutArea'
  BY DEF DzInv, DzTypeOK, ChunkAddressing, StoredAt, PutArea
<1>2. FinalFlushHasInput'
  BY DEF DzInv, FinalFlushHasInput
<1>3. ArchiveFollows' /\ FileFollows'
  BY DEF DzInv, ArchiveFollows, FileFollows, Agrees, Whole, Truncated, Begun
<1> QED
  BY <1>1, <1>2, <1>3 DEF DzInv

\* A piece of one byte or more that fits goes into the put area.
LEMMA AcceptKeeps ==
  ASSUME DzInv, dz = "open", NEW piece \in Seq(Byte), piece # <<>>,
         Len(d_buffer) + Len(piece) <= ChunkLen,
         d_buffer' = d_buffer \o piece, sent' = sent \o piece,
         src' \in Seq(Byte), UNCHANGED <<dz, o_good, d_chunks, d_size, d_dzStream, dzFile>>
  PROVE  DzInv'
<1>1. /\ DzTypeOK /\ ChunkAddressing /\ PutArea /\ FinalFlushHasInput
      /\ ArchiveFollows /\ FileFollows
  BY DEF DzInv
<1>2. ChunkAddressing'
  BY <1>1, AcceptAddresses
<1>3. /\ d_buffer' \in Seq(Byte) /\ sent' \in Seq(Byte)
      /\ Len(d_buffer') = Len(d_buffer) + Len(piece)
      /\ Len(piece) \in Nat /\ Len(piece) > 0 /\ Len(d_buffer) \in Nat
  BY <1>1 DEF DzTypeOK
<1>4. DzTypeOK'
  BY <1>1, <1>3 DEF DzTypeOK
<1>5. PutArea'
  BY <1>1, <1>3 DEF PutArea
<1>6. FinalFlushHasInput'
  <2>1. d_buffer' # <<>>
    BY <1>3
  <2>2. \A i \in 1..Len(d_chunks) : d_chunks[i].bytes # <<>>
    <3>1. \A i \in 1..Len(d_chunks) : Len(d_chunks[i].bytes) = ChunkLen
      BY <1>1 DEF PutArea
    <3> QED
      BY <3>1, DzAssumption
  <2> QED
    BY <2>1, <2>2 DEF FinalFlushHasInput
<1>7. ArchiveFollows' /\ FileFollows'
  BY <1>1, OpenFollows DEF DzTypeOK
<1> QED
  BY <1>2, <1>4, <1>5, <1>6, <1>7 DEF DzInv

\* One copying round of xsputn keeps the invariant.
LEMMA CopyKeeps ==
  ASSUME DzInv, XsputnCopy
  PROVE  DzInv'
<1> DEFINE avail == SmallerOf(ChunkLen - Len(d_buffer), Len(src))
<1> DEFINE piece == SubSeq(src, 1, avail)
<1>1. /\ src \in Seq(Byte) /\ src # <<>> /\ Len(src) \in Nat /\ Len(src) > 0
      /\ d_buffer \in Seq(Byte) /\ Len(d_buffer) \in Nat /\ Len(d_buffer) < ChunkLen
      /\ ChunkLen \in Nat
  BY DzAssumption DEF DzInv, DzTypeOK, XsputnCopy
<1>2. avail \in 1..Len(src) /\ avail <= ChunkLen - Len(d_buffer)
  BY <1>1 DEF SmallerOf
<1>3. piece \in Seq(Byte) /\ Len(piece) = avail
  BY <1>1, <1>2
<1>4. SubSeq(src, avail + 1, Len(src)) \in Seq(Byte)
  BY <1>1, <1>2
<1>5. /\ dz = "open" /\ d_buffer' = d_buffer \o piece /\ sent' = sent \o piece
      /\ src' = SubSeq(src, avail + 1, Len(src))
      /\ UNCHANGED <<dz, o_good, d_chunks, d_size, d_dzStream, dzFile>>
  BY DEF XsputnCopy
<1>6. piece # <<>> /\ Len(d_buffer) + Len(piece) <= ChunkLen
  BY <1>1, <1>2, <1>3
<1> HIDE DEF piece, avail
<1> QED
  BY <1>3, <1>4, <1>5, <1>6, AcceptKeeps

\* A flush of a full put area, with what comes after it (nothing, or the byte
\* that made it overflow) as the new put area.
LEMMA FullFlushKeeps ==
  ASSUME DzInv, dz = "open", Len(d_buffer) = ChunkLen, FlushBuffer,
         NEW rest \in Seq(Byte), Len(rest) <= 1,
         d_buffer' = rest, sent' = sent \o rest, rest = <<>> => src # <<>>,
         UNCHANGED <<dz, o_good, src, d_dzStream, dzFile>>
  PROVE  DzInv'
<1>1. /\ DzTypeOK /\ ChunkAddressing /\ PutArea /\ FinalFlushHasInput
      /\ ArchiveFollows /\ FileFollows
  BY DEF DzInv
<1>2. /\ ChunkLen \in Nat \ {0} /\ d_buffer \in Seq(Byte) /\ sent \in Seq(Byte)
      /\ d_chunks \in Seq(Chunk) /\ Len(d_chunks) \in Nat /\ d_size \in Nat
      /\ Len(sent) \in Nat /\ Len(rest) \in Nat
  BY <1>1, DzAssumption DEF DzTypeOK
<1>3. /\ d_chunks' \in Seq(Chunk)
      /\ Len(d_chunks') = Len(d_chunks) + 1
      /\ d_size' \in Nat
      /\ d_size' = d_size + Len(d_buffer)
      /\ d_size' = Len(sent)
      /\ \A p \in 0..(d_size' - 1) : StoredAt(d_chunks', p, sent[p + 1])
  BY <1>1, FlushAddresses
<1>4. /\ sent' \in Seq(Byte)
      /\ Len(sent') = Len(sent) + Len(rest)
      /\ \A i \in 1..Len(sent) : sent'[i] = sent[i]
      /\ \A i \in 1..Len(rest) : sent'[Len(sent) + i] = rest[i]
  BY <1>2
<1>5. DzTypeOK'
  BY <1>1, <1>3, <1>4 DEF DzTypeOK
<1>6. ChunkAddressing'
  <2>1. Len(sent') = d_size' + Len(d_buffer')
    BY <1>2, <1>3, <1>4
  <2>2. ASSUME NEW p \in 0..(d_size' - 1)
        PROVE  StoredAt(d_chunks', p, sent'[p + 1])
    <3>1. p + 1 \in 1..Len(sent)
      BY <1>2, <1>3
    <3> QED
      BY <1>3, <1>4, <3>1
  <2>3. \A q \in 1..Len(d_buffer') : d_buffer'[q] = sent'[d_size' + q]
    BY <1>3, <1>4
  <2> QED
    BY <2>1, <2>2, <2>3 DEF ChunkAddressing
<1>7. /\ d_chunks' = Append(d_chunks, Deflated(d_buffer))
      /\ Deflated(d_buffer) \in Chunk /\ Deflated(d_buffer).bytes = d_buffer
  BY <1>2, DeflatedType DEF FlushBuffer, AddChunk
<1>8. \A i \in 1..Len(d_chunks') : Len(d_chunks'[i].bytes) = ChunkLen
  <2>1. ASSUME NEW i \in 1..Len(d_chunks')
        PROVE  Len(d_chunks'[i].bytes) = ChunkLen
    <3>1. CASE i \in 1..Len(d_chunks)
      <4>1. d_chunks'[i] = d_chunks[i]
        BY <1>2, <1>7, <3>1
      <4> QED
        BY <1>1, <3>1, <4>1 DEF PutArea
    <3>2. CASE i = Len(d_chunks) + 1
      <4>1. d_chunks'[i] = Deflated(d_buffer)
        BY <1>2, <1>7, <3>2
      <4> QED
        BY <1>7, <4>1
    <3> QED
      BY <1>2, <1>3, <3>1, <3>2
  <2> QED
    BY <2>1
<1>9. PutArea'
  <2>1. Len(d_buffer') <= ChunkLen
    BY <1>2
  <2>2. d_size' = ChunkLen * Len(d_chunks')
    <3>1. d_size = ChunkLen * Len(d_chunks)
      BY <1>1 DEF PutArea
    <3> QED
      BY <1>2, <1>3, <3>1
  <2> QED
    BY <1>8, <2>1, <2>2 DEF PutArea
<1>10. FinalFlushHasInput'
  <2>1. \A i \in 1..Len(d_chunks') : d_chunks'[i].bytes # <<>>
    BY <1>2, <1>8
  <2> QED
    BY <2>1 DEF FinalFlushHasInput
<1>11. ArchiveFollows' /\ FileFollows'
  BY <1>3, OpenFollows
<1> QED
  BY <1>5, <1>6, <1>9, <1>10, <1>11 DEF DzInv

\* A flushing round of xsputn, with bytes still to copy, keeps the invariant.
LEMMA XsputnFlushKeeps ==
  ASSUME DzInv, XsputnFlush
  PROVE  DzInv'
<1>1. sent \in Seq(Byte) /\ sent = sent \o <<>>
  BY DEF DzInv, DzTypeOK
<1>2. /\ dz = "open" /\ Len(d_buffer) = ChunkLen /\ FlushBuffer /\ d_buffer' = <<>>
      /\ src # <<>> /\ sent' = sent \o <<>>
      /\ UNCHANGED <<dz, o_good, src, d_dzStream, dzFile>>
  BY <1>1 DEF XsputnFlush
<1>3. <<>> \in Seq(Byte) /\ Len(<<>>) <= 1
  OBVIOUS
<1> QED
  BY <1>2, <1>3, FullFlushKeeps

\* So does the single byte that finds the put area full.
LEMMA OverflowKeeps ==
  ASSUME DzInv, NEW c \in Byte, Overflow(c)
  PROVE  DzInv'
<1>1. sent \in Seq(Byte) /\ Append(sent, c) = sent \o <<c>>
  BY DEF DzInv, DzTypeOK
<1>2. /\ dz = "open" /\ Len(d_buffer) = ChunkLen /\ FlushBuffer /\ d_buffer' = <<c>>
      /\ sent' = sent \o <<c>>
      /\ UNCHANGED <<dz, o_good, src, d_dzStream, dzFile>>
  BY <1>1 DEF Overflow
<1>3. <<c>> \in Seq(Byte) /\ Len(<<c>>) <= 1 /\ <<c>> # <<>>
  OBVIOUS
<1> QED
  BY <1>2, <1>3, FullFlushKeeps

\* An unopened stream takes nothing.
LEMMA UnopenedKeeps ==
  ASSUME DzInv, XsputnUnopened
  PROVE  DzInv'
<1>1. DzTypeOK'
  <2>1. o_good' \in BOOLEAN
    BY Zenon DEF XsputnUnopened
  <2>2. src' \in Seq(Byte) /\ UNCHANGED <<dz, d_buffer, d_chunks, d_size, d_dzStream, dzFile, sent>>
    BY DEF XsputnUnopened
  <2> QED
    BY <2>1, <2>2 DEF DzInv, DzTypeOK
<1>2. ChunkAddressing'
  BY DEF XsputnUnopened, DzInv, ChunkAddressing, StoredAt
<1>3. PutArea'
  BY DEF XsputnUnopened, DzInv, PutArea
<1>4. FinalFlushHasInput'
  BY DEF XsputnUnopened, DzInv, FinalFlushHasInput
<1>5. ArchiveFollows' /\ FileFollows'
  BY DEF XsputnUnopened, DzInv, ArchiveFollows, FileFollows, Agrees, Whole, Truncated, Begun
<1> QED
  BY <1>1, <1>2, <1>3, <1>4, <1>5 DEF DzInv

\* Every round of xsputn keeps the invariant.
LEMMA XsputnStepKeeps ==
  ASSUME DzInv, XsputnStep
  PROVE  DzInv'
BY CopyKeeps, XsputnFlushKeeps, UnopenedKeeps DEF XsputnStep

----------------------------------------------------------------------------
\* The flush of the destructor, which may be short: no chunk comes after it.
LEMMA CloseFlushKeeps ==
  ASSUME DzInv, CloseFlush
  PROVE  DzInv'
<1>1. /\ DzTypeOK /\ ChunkAddressing /\ PutArea /\ FinalFlushHasInput
      /\ ArchiveFollows /\ FileFollows
  BY DEF DzInv
<1>2. /\ ChunkLen \in Nat \ {0} /\ d_buffer \in Seq(Byte) /\ sent \in Seq(Byte)
      /\ d_chunks \in Seq(Chunk) /\ Len(d_chunks) \in Nat /\ d_size \in Nat
      /\ Len(sent) \in Nat /\ Len(d_buffer) \in Nat
  BY <1>1, DzAssumption DEF DzTypeOK
<1>3. /\ dz = "open" /\ dz' = "header" /\ src = <<>> /\ d_buffer' = <<>>
      /\ UNCHANGED <<o_good, src, d_dzStream, dzFile, sent>>
  BY DEF CloseFlush
<1>4. FlushBuffer
  <2>1. d_buffer = <<>> => d_chunks = <<>>
    BY <1>1, <1>3 DEF FinalFlushHasInput
  <2> QED
    BY <2>1 DEF CloseFlush
<1>5. /\ d_chunks' \in Seq(Chunk)
      /\ Len(d_chunks') = Len(d_chunks) + 1
      /\ d_size' \in Nat
      /\ d_size' = Len(sent)
      /\ \A p \in 0..(d_size' - 1) : StoredAt(d_chunks', p, sent[p + 1])
  BY <1>1, <1>3, <1>4, FlushAddresses
<1>6. DzTypeOK'
  <2>1. <<>> \in Seq(Byte) /\ "header" \in Phase
    BY DEF Phase
  <2> QED
    BY <1>1, <1>3, <1>5, <2>1 DEF DzTypeOK
<1>7. ChunkAddressing'
  <2>1. Len(sent') = d_size' + Len(d_buffer')
    BY <1>2, <1>3, <1>5
  <2>2. \A p \in 0..(d_size' - 1) : StoredAt(d_chunks', p, sent'[p + 1])
    BY <1>3, <1>5
  <2>3. \A q \in 1..Len(d_buffer') : d_buffer'[q] = sent'[d_size' + q]
    BY <1>3
  <2> QED
    BY <2>1, <2>2, <2>3 DEF ChunkAddressing
<1>8. PutArea'
  BY <1>2, <1>3 DEF PutArea
<1>9. FinalFlushHasInput'
  <2>1. /\ d_chunks' = Append(d_chunks, Deflated(d_buffer))
        /\ Deflated(d_buffer) \in Chunk /\ Deflated(d_buffer).bytes = d_buffer
    BY <1>2, <1>4, DeflatedType DEF FlushBuffer, AddChunk
  <2>2. ASSUME NEW i \in 1..Len(d_chunks'), d_chunks'[i].bytes = <<>>
        PROVE  sent' = <<>>
    <3>1. CASE i \in 1..Len(d_chunks)
      <4>1. d_chunks'[i] = d_chunks[i]
        BY <1>2, <2>1, <3>1
      <4> QED
        BY <1>1, <1>3, <2>2, <3>1, <4>1 DEF FinalFlushHasInput
    <3>2. CASE i = Len(d_chunks) + 1
      <4>1. d_buffer = <<>>
        BY <1>2, <2>1, <2>2, <3>2
      <4>2. d_chunks = <<>>
        BY <1>1, <1>3, <4>1 DEF FinalFlushHasInput
      <4>3. d_size = 0
        <5>1. d_size = ChunkLen * Len(d_chunks)
          BY <1>1, <1>3 DEF PutArea
        <5>2. Len(d_chunks) = 0
          BY <4>2
        <5> QED
          BY <1>2, <5>1, <5>2
      <4>4. Len(sent) = 0
        BY <1>1, <4>1, <4>3 DEF ChunkAddressing
      <4> QED
        BY <1>2, <1>3, <4>4
    <3> QED
      BY <1>2, <1>5, <3>1, <3>2
  <2> QED
    BY <1>3, <2>2 DEF FinalFlushHasInput
<1>10. ArchiveFollows' /\ FileFollows'
  BY <1>3, <1>5, OpenFollows
<1> QED
  BY <1>6, <1>7, <1>8, <1>9, <1>10 DEF DzInv

\* A step that only moves the destructor on or writes to the archive: what is
\* left to show is where it gets to and what it makes of the files.
LEMMA FileStepKeeps ==
  ASSUME DzInv, dz' \in Phase, d_dzStream' \in DzFileType, dzFile' \in DzFileType,
         dz' # "open", dz' # "unopened", dz' = "closed" /\ dzFile'.exists => d_buffer = <<>>,
         dz' \in {"header", "table", "zdata", "trailer", "fclose"} => d_buffer = <<>>,
         UNCHANGED <<o_good, src, d_buffer, d_chunks, d_size, sent>>,
         ArchiveFollows', FileFollows'
  PROVE  DzInv'
<1>1. DzTypeOK'
  BY DEF DzInv, DzTypeOK
<1>2. ChunkAddressing'
  BY DEF DzInv, ChunkAddressing, StoredAt
<1>3. PutArea'
  BY DEF DzInv, PutArea
<1>4. FinalFlushHasInput'
  BY DEF DzInv, FinalFlushHasInput
<1> QED
  BY <1>1, <1>2, <1>3, <1>4 DEF DzInv

\* As long as stdio has the archive, it is empty on disk.
LEMMA DiskWaits ==
  ASSUME DzInv, dz \notin {"unopened", "closed", "dead"},
         dz' \notin {"unopened", "closed", "dead"}, dzFile' = dzFile
  PROVE  dzFile' \in DzFileType /\ FileFollows'
<1>1. dzFile = Truncated(TRUE) /\ dzFile \in DzFileType
  BY DEF DzInv, DzTypeOK, FileFollows
<1> QED
  BY <1>1 DEF FileFollows, Truncated

\* The header goes into an archive that has nothing else yet.
LEMMA WriteHeaderKeeps ==
  ASSUME DzInv, WriteHeader
  PROVE  DzInv'
<1>1. /\ d_dzStream \in DzFileType /\ d_chunks \in Seq(Chunk)
      /\ d_buffer = <<>> /\ dz = "header"
  BY DEF DzInv, DzTypeOK, PutArea, WriteHeader
<1>2. /\ d_dzStream.table = NoSizes /\ d_dzStream.blocks = <<>>
      /\ d_dzStream.xlen = 0 /\ d_dzStream.count = 0
  BY <1>1 DEF DzInv, ArchiveFollows, Agrees
<1>3. /\ dz' = "table" /\ d_dzStream' = [d_dzStream EXCEPT !.header = TRUE]
      /\ UNCHANGED <<o_good, src, d_buffer, d_chunks, d_size, dzFile, sent>>
  BY DEF WriteHeader
<1>4. /\ d_dzStream' \in DzFileType /\ d_dzStream'.header
      /\ d_dzStream'.table = NoSizes /\ d_dzStream'.blocks = <<>>
      /\ d_dzStream'.xlen = 0 /\ d_dzStream'.count = 0
  BY <1>1, <1>2, <1>3 DEF DzFileType
<1>5. ArchiveFollows'
  BY <1>1, <1>3, <1>4 DEF ArchiveFollows, Agrees
<1>6. dzFile' \in DzFileType /\ FileFollows'
  BY <1>1, <1>3, DiskWaits
<1> QED
  BY <1>1, <1>3, <1>4, <1>5, <1>6, FileStepKeeps DEF Phase

\* The table counts the chunks that WriteZData is about to copy.
LEMMA WriteChunkInfoKeeps ==
  ASSUME DzInv, WriteChunkInfo
  PROVE  DzInv'
<1> DEFINE xlen  == (10 + 2 * Len(d_chunks)) % FieldMod
<1> DEFINE count == Len(d_chunks) % FieldMod
<1>1. /\ d_dzStream \in DzFileType /\ d_chunks \in Seq(Chunk) /\ Len(d_chunks) \in Nat
      /\ d_buffer = <<>> /\ dz = "table"
  BY DEF DzInv, DzTypeOK, PutArea, WriteChunkInfo
<1>2. d_dzStream.header /\ d_dzStream.blocks = <<>>
  BY <1>1 DEF DzInv, ArchiveFollows, Agrees
<1>3. xlen \in Nat /\ count \in Nat
  BY <1>1, DzAssumption
<1>4. /\ dz' = "zdata" /\ d_dzStream' = [d_dzStream EXCEPT !.xlen = xlen, !.count = count,
                                         !.table = Len(d_chunks)]
      /\ UNCHANGED <<o_good, src, d_buffer, d_chunks, d_size, dzFile, sent>>
  BY DEF WriteChunkInfo
<1>5. xlen = (10 + 2 * Len(d_chunks)) % FieldMod /\ count = Len(d_chunks) % FieldMod
  OBVIOUS
<1> HIDE DEF xlen, count
<1>6. /\ d_dzStream' \in DzFileType /\ d_dzStream'.header
      /\ d_dzStream'.xlen = xlen /\ d_dzStream'.count = count
      /\ d_dzStream'.table = Len(d_chunks)
      /\ d_dzStream'.blocks = <<>>
  BY <1>1, <1>2, <1>3, <1>4 DEF DzFileType
<1>7. ArchiveFollows'
  <2>1. d_dzStream'.table # NoSizes
    BY <1>1, <1>6 DEF NoSizes
  <2>2. /\ d_dzStream'.xlen = (10 + 2 * Len(d_chunks')) % FieldMod
        /\ d_dzStream'.count = Len(d_chunks') % FieldMod
        /\ d_dzStream'.table = Len(d_chunks')
    BY <1>4, <1>5, <1>6
  <2>3. Agrees(d_dzStream)'
    BY <1>1, <1>4, <1>6, <2>1, <2>2 DEF Agrees
  <2> QED
    BY <1>4, <2>1, <2>3 DEF ArchiveFollows
<1>8. dzFile' \in DzFileType /\ FileFollows'
  BY <1>1, <1>4, DiskWaits
<1> QED
  BY <1>1, <1>4, <1>6, <1>7, <1>8, FileStepKeeps DEF Phase

\* The compressed chunks are copied in their order, each once.
LEMMA WriteZDataKeeps ==
  ASSUME DzInv, WriteZData
  PROVE  DzInv'
<1> DEFINE n == Len(d_dzStream.blocks)
<1>1. /\ d_dzStream \in DzFileType /\ d_dzStream.blocks \in Seq(Chunk)
      /\ d_chunks \in Seq(Chunk) /\ n \in Nat /\ Len(d_chunks) \in Nat
      /\ d_buffer = <<>> /\ dz = "zdata"
  BY DEF DzInv, DzTypeOK, DzFileType, PutArea, WriteZData
<1>2. /\ Agrees(d_dzStream) /\ d_dzStream.table # NoSizes
      /\ n <= Len(d_chunks) /\ \A i \in 1..n : d_dzStream.blocks[i] = d_chunks[i]
  BY <1>1 DEF DzInv, ArchiveFollows, Agrees
<1>3. UNCHANGED <<o_good, src, d_buffer, d_chunks, d_size, dzFile, sent>>
  BY DEF WriteZData
<1>4. CASE n < Len(d_chunks)
  <2> DEFINE grown == Append(d_dzStream.blocks, d_chunks[n + 1])
  <2>1. dz' = "zdata" /\ d_dzStream' = [d_dzStream EXCEPT !.blocks = grown]
    BY <1>1, <1>4 DEF WriteZData
  <2>2. d_chunks[n + 1] \in Chunk
    BY <1>1, <1>4
  <2>3. /\ grown \in Seq(Chunk) /\ Len(grown) = n + 1
        /\ \A i \in 1..n : grown[i] = d_dzStream.blocks[i]
        /\ grown[n + 1] = d_chunks[n + 1]
    BY <1>1, <2>2
  <2> HIDE DEF grown
  <2>4. /\ d_dzStream' \in DzFileType /\ d_dzStream'.blocks = grown
        /\ d_dzStream'.header = d_dzStream.header /\ d_dzStream'.count = d_dzStream.count
        /\ d_dzStream'.table = d_dzStream.table /\ d_dzStream'.xlen = d_dzStream.xlen
    BY <1>1, <2>1, <2>3 DEF DzFileType
  <2>5. \A i \in 1..Len(grown) : grown[i] = d_chunks[i]
    BY <1>1, <1>2, <2>3
  <2>6. ArchiveFollows'
    <3> HIDE DEF n
    <3>1. Len(d_dzStream'.blocks) <= Len(d_chunks)
      BY <1>1, <1>4, <2>3, <2>4
    <3>2. Agrees(d_dzStream)'
      BY <1>2, <1>3, <2>4, <2>5, <3>1 DEF Agrees
    <3> QED
      BY <1>2, <2>1, <2>4, <3>2 DEF ArchiveFollows
  <2>7. dzFile' \in DzFileType /\ FileFollows'
    BY <1>1, <1>3, <2>1, DiskWaits
  <2> QED
    BY <1>1, <1>3, <2>1, <2>4, <2>6, <2>7, FileStepKeeps DEF Phase
<1>5. CASE ~(n < Len(d_chunks))
  <2>1. dz' = "trailer" /\ d_dzStream' = d_dzStream
    BY <1>1, <1>5 DEF WriteZData
  <2>2. n = Len(d_chunks)
    BY <1>1, <1>2, <1>5
  <2>3. ArchiveFollows'
    BY <1>2, <1>3, <2>1, <2>2 DEF ArchiveFollows, Agrees
  <2>4. dzFile' \in DzFileType /\ FileFollows'
    BY <1>1, <1>3, <2>1, DiskWaits
  <2> QED
    BY <1>1, <1>3, <2>1, <2>3, <2>4, FileStepKeeps DEF Phase
<1> QED
  BY <1>4, <1>5

\* The trailer holds the number of bytes flushed.
LEMMA WriteTrailerKeeps ==
  ASSUME DzInv, WriteTrailer
  PROVE  DzInv'
<1>1. d_dzStream \in DzFileType /\ d_buffer = <<>> /\ d_size \in Nat /\ dz = "trailer"
  BY DEF DzInv, DzTypeOK, PutArea, WriteTrailer
<1>2. /\ dz' = "fclose" /\ d_dzStream' = [d_dzStream EXCEPT !.isize = d_size]
      /\ UNCHANGED <<o_good, src, d_buffer, d_chunks, d_size, dzFile, sent>>
  BY DEF WriteTrailer
<1>3. /\ d_dzStream' \in DzFileType /\ d_dzStream'.isize = d_size
      /\ d_dzStream'.blocks = d_dzStream.blocks /\ d_dzStream'.header = d_dzStream.header
      /\ d_dzStream'.count = d_dzStream.count /\ d_dzStream'.xlen = d_dzStream.xlen
      /\ d_dzStream'.table = d_dzStream.table
  BY <1>1, <1>2 DEF DzFileType
<1>4. /\ Agrees(d_dzStream) /\ d_dzStream.table # NoSizes
      /\ Len(d_dzStream.blocks) = Len(d_chunks)
  BY <1>1 DEF DzInv, ArchiveFollows
<1>5. ArchiveFollows'
  <2>1. Agrees(d_dzStream)' /\ Whole(d_dzStream)'
    BY <1>2, <1>3, <1>4 DEF Agrees, Whole
  <2> QED
    BY <1>2, <2>1 DEF ArchiveFollows
<1>6. dzFile' \in DzFileType /\ FileFollows'
  BY <1>1, <1>2, DiskWaits
<1> QED
  BY <1>1, <1>2, <1>3, <1>5, <1>6, FileStepKeeps DEF Phase

\* With fclose everything gets to the disk.
LEMMA FcloseKeeps ==
  ASSUME DzInv, Fclose
  PROVE  DzInv'
<1>1. d_dzStream \in DzFileType /\ d_buffer = <<>> /\ dz = "fclose"
  BY DEF DzInv, DzTypeOK, PutArea, Fclose
<1>2. /\ dz' = "closed" /\ dzFile' = d_dzStream
      /\ UNCHANGED <<o_good, src, d_buffer, d_chunks, d_size, d_dzStream, sent>>
  BY DEF Fclose
<1>3. Agrees(d_dzStream) /\ Whole(d_dzStream)
  BY <1>1 DEF DzInv, ArchiveFollows
<1>4. ArchiveFollows'
  BY <1>2, <1>3 DEF ArchiveFollows, Agrees, Whole
<1>5. FileFollows'
  BY <1>2 DEF FileFollows
<1> QED
  BY <1>1, <1>2, <1>4, <1>5, FileStepKeeps DEF Phase

\* There is nothing to close of a stream that was never opened.
LEMMA CloseUnopenedKeeps ==
  ASSUME DzInv, CloseUnopened
  PROVE  DzInv'
<1>1. /\ d_dzStream \in DzFileType /\ Agrees(d_dzStream)
      /\ d_dzStream = Truncated(FALSE) /\ dzFile = d_dzStream
  BY DEF DzInv, DzTypeOK, ArchiveFollows, FileFollows, CloseUnopened
<1>2. /\ dz' = "closed"
      /\ UNCHANGED <<o_good, src, d_buffer, d_chunks, d_size, d_dzStream, dzFile, sent>>
  BY DEF CloseUnopened
<1>3. ArchiveFollows'
  BY <1>1, <1>2 DEF ArchiveFollows, Agrees, Truncated
<1>4. FileFollows'
  BY <1>1, <1>2 DEF FileFollows
<1> QED
  BY <1>1, <1>2, <1>3, <1>4, FileStepKeeps DEF Phase, Truncated

\* What is on disk of an archive that was not closed.
LEMMA BegunParts ==
  ASSUME NEW f \in DzFileType, NEW g \in Begun(f)
  PROVE  /\ g \in DzFileType /\ g.exists = f.exists /\ (g.header => f.header)
         /\ \/ g.table = NoSizes /\ g.xlen = 0 /\ g.count = 0 /\ g.blocks = <<>>
            \/ /\ g.xlen = f.xlen /\ g.count = f.count /\ g.table <= f.table
               /\ g.blocks = <<>>
            \/ /\ g.xlen = f.xlen /\ g.count = f.count /\ g.table = f.table
               /\ Len(g.blocks) <= Len(f.blocks)
               /\ \A i \in 1..Len(g.blocks) : g.blocks[i] = f.blocks[i]
<1>1. /\ f.exists \in BOOLEAN /\ f.header \in BOOLEAN /\ f.table \in Nat \cup {NoSizes}
      /\ f.blocks \in Seq(Chunk) /\ Len(f.blocks) \in Nat
  BY DEF DzFileType
<1>2. CASE \E h \in {FALSE, f.header} : g = [Truncated(f.exists) EXCEPT !.header = h]
  <2>1. PICK h \in {FALSE, f.header} : g = [Truncated(f.exists) EXCEPT !.header = h]
    BY <1>2
  <2>2. h \in BOOLEAN /\ (h => f.header)
    BY <1>1, <2>1
  <2>3. g = [exists |-> f.exists, header |-> h, xlen |-> 0, count |-> 0,
             table |-> NoSizes, blocks |-> <<>>, isize |-> 0]
    BY <2>1 DEF Truncated
  <2> QED
    BY <1>1, <2>2, <2>3 DEF DzFileType
<1>3. CASE \E t \in NoSizes..f.table :
             g = [f EXCEPT !.table = t, !.blocks = <<>>, !.isize = 0]
  <2>1. PICK t \in NoSizes..f.table :
          g = [f EXCEPT !.table = t, !.blocks = <<>>, !.isize = 0]
    BY <1>3
  <2>2. t \in Nat \cup {NoSizes} /\ t <= f.table
    BY <1>1, <2>1 DEF NoSizes
  <2>3. <<>> \in Seq(Chunk)
    OBVIOUS
  <2> QED
    BY <2>1, <2>2, <2>3 DEF DzFileType
<1>4. CASE \E k \in 0..Len(f.blocks) :
             g = [f EXCEPT !.blocks = SubSeq(f.blocks, 1, k), !.isize = 0]
  <2>1. PICK k \in 0..Len(f.blocks) :
          g = [f EXCEPT !.blocks = SubSeq(f.blocks, 1, k), !.isize = 0]
    BY <1>4
  <2> DEFINE part == SubSeq(f.blocks, 1, k)
  <2>2. /\ part \in Seq(Chunk) /\ Len(part) <= Len(f.blocks)
        /\ \A i \in 1..Len(part) : part[i] = f.blocks[i]
    BY <1>1, <2>1
  <2>3. g = [f EXCEPT !.blocks = part, !.isize = 0]
    BY <2>1
  <2> HIDE DEF part
  <2> QED
    BY <2>2, <2>3 DEF DzFileType
<1>5. CASE g = f
  BY <1>1, <1>5
<1> QED
  BY <1>2, <1>3, <1>4, <1>5 DEF Begun

\* A crash leaves everything as it was, and nobody to go on with it; of the
\* archive there is the beginning.
LEMMA CrashKeeps ==
  ASSUME DzInv, CrashStream
  PROVE  DzInv'
<1>1. /\ dz' = "dead" /\ dzFile' \in Begun(d_dzStream)
      /\ UNCHANGED <<o_good, src, d_buffer, d_chunks, d_size, d_dzStream, sent>>
  BY DEF CrashStream
<1>2. d_dzStream \in DzFileType /\ dzFile' \in DzFileType
  BY <1>1, BegunParts DEF DzInv, DzTypeOK
<1>3. Agrees(d_dzStream)
  BY DEF DzInv, ArchiveFollows
<1>4. ArchiveFollows'
  BY <1>1, <1>3 DEF ArchiveFollows, Agrees
<1>5. FileFollows'
  BY <1>1 DEF FileFollows, Begun, Truncated
<1> QED
  BY <1>1, <1>2, <1>4, <1>5, FileStepKeeps DEF Phase

\* The destructor keeps the invariant from its first step to its last.
LEMMA CloseKeeps ==
  ASSUME DzInv, BeginClose \/ CloseStep
  PROVE  DzInv'
BY CloseFlushKeeps, CloseUnopenedKeeps, WriteHeaderKeeps, WriteChunkInfoKeeps,
   WriteZDataKeeps, WriteTrailerKeeps, FcloseKeeps DEF BeginClose, CloseStep

\* A step that leaves the stream alone keeps it too.
LEMMA StreamStutterKeeps ==
  ASSUME DzInv, UNCHANGED dzVars
  PROVE  DzInv'
<1>1. DzTypeOK'
  BY DEF DzInv, DzTypeOK, dzVars
<1>2. ChunkAddressing'
  BY DEF DzInv, ChunkAddressing, StoredAt, dzVars
<1>3. PutArea'
  BY DEF DzInv, PutArea, dzVars
<1>4. FinalFlushHasInput'
  BY DEF DzInv, FinalFlushHasInput, dzVars
<1>5. ArchiveFollows' /\ FileFollows'
  BY DEF DzInv, ArchiveFollows, FileFollows, Agrees, Whole, Truncated, Begun, dzVars
<1> QED
  BY <1>1, <1>2, <1>3, <1>4, <1>5 DEF DzInv

----------------------------------------------------------------------------
\* A closed archive is complete: its blocks are the chunks, and no byte is left
\* in the put area.
LEMMA ClosedIsComplete ==
  ASSUME DzInv
  PROVE  ArchiveComplete
<1> SUFFICES ASSUME dz = "closed", dzFile.exists
             PROVE  /\ dzFile.header
                    /\ dzFile.table = Len(dzFile.blocks)
                    /\ dzFile.count = dzFile.table % FieldMod
                    /\ dzFile.isize = Len(sent)
                    /\ \A p \in 0..(Len(sent) - 1) : StoredAt(dzFile.blocks, p, sent[p + 1])
  BY DEF ArchiveComplete
<1>1. /\ dzFile.blocks \in Seq(Chunk) /\ d_chunks \in Seq(Chunk)
      /\ d_size \in Nat
  BY DEF DzInv, DzTypeOK, DzFileType
<1>2. /\ dzFile.header
      /\ dzFile.count = Len(d_chunks) % FieldMod
      /\ dzFile.table = Len(d_chunks)
      /\ \A i \in 1..Len(dzFile.blocks) : dzFile.blocks[i] = d_chunks[i]
      /\ Len(dzFile.blocks) = Len(d_chunks)
      /\ dzFile.isize = d_size
  BY DEF DzInv, ArchiveFollows, FileFollows, Agrees, Whole
<1>3. dzFile.blocks = d_chunks
  BY <1>1, <1>2
<1>4. d_buffer = <<>>
  BY DEF DzInv, PutArea
<1>5. Len(sent) = d_size
  BY <1>1, <1>4 DEF DzInv, ChunkAddressing
<1>6. \A p \in 0..(d_size - 1) : StoredAt(d_chunks, p, sent[p + 1])
  BY DEF DzInv, ChunkAddressing
<1> QED
  BY <1>2, <1>3, <1>5, <1>6

----------------------------------------------------------------------------
(* The user of the stream, and the theorems.                               *)

\* The user's side of the stream keeps the invariant.
LEMMA UserKeeps ==
  ASSUME DzInv,
         (\E s \in Block : WriteBlock(s)) \/ (\E c \in Byte : Put(c))
  PROVE  DzInv'
<1>1. ASSUME NEW s \in Block, WriteBlock(s) PROVE DzInv'
  <2>1. s \in Seq(Byte)
    BY BlockAssumption
  <2> QED
    BY <1>1, <2>1, NewSourceKeeps DEF WriteBlock
<1>2. ASSUME NEW c \in Byte, Put(c) PROVE DzInv'
  <2>1. CASE PutBuffered(c)
    <3>1. /\ d_buffer \in Seq(Byte) /\ sent \in Seq(Byte) /\ src \in Seq(Byte)
          /\ ChunkLen \in Nat
      BY DzAssumption DEF DzInv, DzTypeOK
    <3>2. /\ <<c>> \in Seq(Byte) /\ <<c>> # <<>> /\ Len(<<c>>) = 1
          /\ Append(d_buffer, c) = d_buffer \o <<c>>
          /\ Append(sent, c) = sent \o <<c>>
      <4>1. <<c>> \in Seq(Byte) /\ <<c>> # <<>> /\ Len(<<c>>) = 1
        OBVIOUS
      <4>2. Append(d_buffer, c) = d_buffer \o <<c>>
        BY <3>1
      <4>3. Append(sent, c) = sent \o <<c>>
        BY <3>1
      <4> QED
        BY <4>1, <4>2, <4>3
    <3>3. /\ dz = "open" /\ d_buffer' = d_buffer \o <<c>> /\ sent' = sent \o <<c>>
          /\ src' \in Seq(Byte) /\ UNCHANGED <<dz, o_good, d_chunks, d_size, d_dzStream, dzFile>>
      BY <2>1, <3>1, <3>2 DEF PutBuffered
    <3>4. Len(d_buffer) + Len(<<c>>) <= ChunkLen
      BY <2>1, <3>1, <3>2 DEF PutBuffered
    <3> QED
      BY <3>2, <3>3, <3>4, AcceptKeeps
  <2>2. CASE Overflow(c)
    BY <2>2, OverflowKeeps
  <2>3. CASE PutUnopened
    <3>1. o_good' \in BOOLEAN
      BY <2>3, Zenon DEF PutUnopened
    <3>2. UNCHANGED <<dz, src, d_buffer, d_chunks, d_size, d_dzStream, dzFile, sent>>
      BY <2>3 DEF PutUnopened
    <3>3. DzTypeOK'
      BY <3>1, <3>2 DEF DzInv, DzTypeOK
    <3>4. ChunkAddressing'
      BY <3>2 DEF DzInv, ChunkAddressing, StoredAt
    <3>5. PutArea'
      BY <3>2 DEF DzInv, PutArea
    <3>6. FinalFlushHasInput'
      BY <3>2 DEF DzInv, FinalFlushHasInput
    <3>7. ArchiveFollows' /\ FileFollows'
      BY <3>2 DEF DzInv, ArchiveFollows, FileFollows, Agrees, Whole, Truncated, Begun
    <3> QED
      BY <3>3, <3>4, <3>5, <3>6, <3>7 DEF DzInv
  <2> QED
    BY <1>2, <2>1, <2>2, <2>3 DEF Put
<1> QED
  BY <1>1, <1>2

\* Every step of the stream and its user keeps the invariant.
LEMMA StreamKeeps ==
  ASSUME DzInv, [StreamNext]_dzVars
  PROVE  DzInv'
<1>1. CASE \E s \in Block : WriteBlock(s)
  BY <1>1, UserKeeps
<1>2. CASE \E c \in Byte : Put(c)
  BY <1>2, UserKeeps
<1>3. CASE XsputnStep
  BY <1>3, XsputnStepKeeps
<1>4. CASE BeginClose
  BY <1>4, CloseKeeps
<1>5. CASE CloseStep
  BY <1>5, CloseKeeps
<1>6. CASE CrashStream
  BY <1>6, CrashKeeps
<1>7. CASE UNCHANGED dzVars
  BY <1>7, StreamStutterKeeps
<1> QED
  BY <1>1, <1>2, <1>3, <1>4, <1>5, <1>6, <1>7 DEF StreamNext

\* The inductive invariant holds in every state of every behaviour.
THEOREM StreamInvariance == StreamSpec => []DzInv
<1>1. DzInit => DzInv
  BY DzInitHolds
<1>2. DzInv /\ [StreamNext]_dzVars => DzInv'
  BY StreamKeeps
<1> QED
  BY <1>1, <1>2, PTL DEF StreamSpec

\* The variables of the stream keep their types.
THEOREM StreamTypes == StreamSpec => []DzTypeOK
<1>1. DzInv => DzTypeOK
  BY DEF DzInv
<1> QED
  BY <1>1, StreamInvariance, PTL

\* However writes and puts are cut up and wherever they end in a chunk, every
\* byte flushed is where DzIstreamBuf::seekoff will look for it.
THEOREM Addressing == StreamSpec => []ChunkAddressing
<1>1. DzInv => ChunkAddressing
  BY DEF DzInv
<1> QED
  BY <1>1, StreamInvariance, PTL

\* An archive whose stream was closed has all the bytes it was given.
THEOREM Completeness == StreamSpec => []ArchiveComplete
<1>1. DzInv => ArchiveComplete
  BY ClosedIsComplete
<1> QED
  BY <1>1, StreamInvariance, PTL

\* The destructor never asks deflate for a chunk of nothing, save for an
\* archive of nothing.
THEOREM FlushHasInput == StreamSpec => []FinalFlushHasInput
<1>1. DzInv => FinalFlushHasInput
  BY DEF DzInv
<1> QED
  BY <1>1, StreamInvariance, PTL

\* An archive is an extension of itself, and of the empty one.
LEMMA ExtendsItself ==
  ASSUME NEW f \in DzFileType
  PROVE  Extends(f, f) /\ (~f.header /\ f.blocks = <<>> => \A g \in DzFileType : Extends(f, g))
<1>1. f.blocks \in Seq(Chunk) /\ SubSeq(f.blocks, 1, Len(f.blocks)) = f.blocks
  BY DEF DzFileType
<1>2. \A g \in DzFileType : SubSeq(g.blocks, 1, 0) = <<>> /\ Len(g.blocks) >= 0
  BY DEF DzFileType
<1> QED
  BY <1>1, <1>2 DEF Extends

\* What is written to the archive is added at its end.
LEMMA StreamExtends ==
  ASSUME DzInv, CloseStep
  PROVE  Extends(d_dzStream, d_dzStream')
<1>1. /\ d_dzStream \in DzFileType /\ d_dzStream.blocks \in Seq(Chunk)
      /\ d_chunks \in Seq(Chunk)
  BY DEF DzInv, DzTypeOK, DzFileType
<1>2. /\ SubSeq(d_dzStream.blocks, 1, Len(d_dzStream.blocks)) = d_dzStream.blocks
      /\ Len(d_dzStream.blocks) <= Len(d_dzStream.blocks)
  BY <1>1
<1>3. CASE d_dzStream' = d_dzStream
  BY <1>1, <1>3, ExtendsItself
<1>4. CASE WriteHeader
  <2>1. /\ d_dzStream'.blocks = d_dzStream.blocks /\ d_dzStream'.xlen = d_dzStream.xlen
        /\ d_dzStream'.count = d_dzStream.count
        /\ d_dzStream'.table = d_dzStream.table /\ d_dzStream'.header = TRUE
    BY <1>1, <1>4 DEF WriteHeader, DzFileType
  <2> QED
    BY <1>2, <2>1 DEF Extends
<1>5. CASE WriteChunkInfo
  <2>1. d_dzStream'.blocks = d_dzStream.blocks /\ d_dzStream'.header = d_dzStream.header
    BY <1>1, <1>5 DEF WriteChunkInfo, DzFileType
  <2>2. d_dzStream.blocks = <<>>
    BY <1>5 DEF DzInv, ArchiveFollows, Agrees, WriteChunkInfo
  <2> QED
    BY <1>2, <2>1, <2>2 DEF Extends
<1>6. CASE WriteZData /\ d_dzStream' # d_dzStream
  <2> DEFINE n == Len(d_dzStream.blocks)
  <2> DEFINE grown == Append(d_dzStream.blocks, d_chunks[n + 1])
  <2>1. n \in Nat /\ n < Len(d_chunks) /\ d_dzStream' = [d_dzStream EXCEPT !.blocks = grown]
    BY <1>1, <1>6 DEF WriteZData
  <2>2. d_chunks[n + 1] \in Chunk
    BY <1>1, <2>1
  <2>3. SubSeq(grown, 1, n) = d_dzStream.blocks /\ n <= Len(grown)
    BY <1>1, <2>1, <2>2
  <2> HIDE DEF grown
  <2>4. /\ d_dzStream'.blocks = grown /\ d_dzStream'.header = d_dzStream.header
        /\ d_dzStream'.xlen = d_dzStream.xlen /\ d_dzStream'.count = d_dzStream.count
        /\ d_dzStream'.table = d_dzStream.table
    BY <1>1, <2>1 DEF DzFileType
  <2> QED
    BY <2>3, <2>4 DEF Extends
<1>7. CASE WriteTrailer
  <2>1. /\ d_dzStream'.blocks = d_dzStream.blocks /\ d_dzStream'.xlen = d_dzStream.xlen
        /\ d_dzStream'.count = d_dzStream.count
        /\ d_dzStream'.table = d_dzStream.table /\ d_dzStream'.header = d_dzStream.header
    BY <1>1, <1>7 DEF WriteTrailer, DzFileType
  <2> QED
    BY <1>2, <2>1 DEF Extends
<1> QED
  BY <1>3, <1>4, <1>5, <1>6, <1>7 DEF CloseStep, Fclose

\* The archive is only added to: no step takes back or rewrites what was written
\* to it, or what of it is on disk.
THEOREM GrowsOnly == StreamSpec => ArchiveGrowsOnly
<1> DEFINE Grows == Extends(d_dzStream, d_dzStream') /\ Extends(dzFile, dzFile')
<1>1. ASSUME DzInv, [StreamNext]_dzVars PROVE Grows
  <2>1. d_dzStream \in DzFileType /\ dzFile \in DzFileType /\ dzFile' \in DzFileType
    BY <1>1, StreamKeeps DEF DzInv, DzTypeOK
  <2>2. Extends(d_dzStream, d_dzStream')
    <3>1. d_dzStream' = d_dzStream \/ CloseStep
      BY <1>1 DEF StreamNext, WriteBlock, Put, PutBuffered, PutUnopened, Overflow, XsputnStep,
         XsputnCopy, XsputnFlush, XsputnUnopened, BeginClose, CloseFlush, CloseUnopened,
         CrashStream, dzVars
    <3> QED
      BY <1>1, <2>1, <3>1, ExtendsItself, StreamExtends
  <2>3. Extends(dzFile, dzFile')
    <3>1. dzFile' = dzFile \/ Fclose \/ CrashStream
      BY <1>1 DEF StreamNext, WriteBlock, Put, PutBuffered, PutUnopened, Overflow, XsputnStep,
         XsputnCopy, XsputnFlush, XsputnUnopened, BeginClose, CloseFlush, CloseUnopened,
         CloseStep, WriteHeader, WriteChunkInfo, WriteZData, WriteTrailer, dzVars
    <3>2. ASSUME Fclose \/ CrashStream PROVE ~dzFile.header /\ dzFile.blocks = <<>>
      BY <1>1, <3>2 DEF Fclose, CrashStream, DzInv, FileFollows, Truncated
    <3> QED
      BY <2>1, <3>1, <3>2, ExtendsItself
  <2> QED
    BY <2>2, <2>3
<1>2. DzInv /\ [StreamNext]_dzVars => [Grows]_dzVars
  BY <1>1
<1>3. ArchiveGrowsOnly <=> [][Grows]_dzVars
  BY DEF ArchiveGrowsOnly
<1> HIDE DEF Grows
<1> QED
  BY <1>2, <1>3, StreamInvariance, PTL DEF StreamSpec
=============================================================================
