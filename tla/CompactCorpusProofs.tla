------------------------- MODULE CompactCorpusProofs -------------------------
(***************************************************************************)
(* The theorems of CompactCorpusWriter, and of CompactCorpus: for every    *)
(* set of threads and every interleaving of their calls, entries tile the  *)
(* stream and are found at the offset that their index line was given, and *)
(* who opens the corpus reads them, as from the abstract treebank.         *)
(***************************************************************************)
EXTENDS CompactCorpus, DzOstreamProofs, RecursionProofs

IndexLine ==
  {[name |-> n, offset |-> Encode(o), size |-> Encode(z)] :
     n \in Name, o \in Nat, z \in Nat}

Argument == [name : Name, data : Data]

WriterTypes ==
  /\ d_writeMutex \in Caller \cup {NoCaller}
  /\ wpc \in [Caller -> {"idle", "lock", "data", "index", "offset"}]
  /\ warg \in [Caller -> Argument \cup {Outside}]
  /\ \A c \in Caller : wpc[c] # "idle" => warg[c] \in Argument
  /\ d_offset \in Nat
  /\ indexExists \in BOOLEAN
  /\ indexFile \in Seq(IndexLine)
  /\ written \in Seq(Entry)

\* The thread that holds d_writeMutex is the one between Lock and AddOffset.
MutualExclusion ==
  \A c \in Caller : wpc[c] \in {"data", "index", "offset"} <=> d_writeMutex = c

\* Bytes still to copy belong to the call that is about to write its line.
SourceOwned ==
  src # <<>> => \E c \in Caller : wpc[c] = "index"

\* Between WriteIndex and AddOffset the last entry starts at d_offset, at any
\* other time it ends there.
OffsetFollows ==
  /\ \A c \in Caller : wpc[c] = "offset" =>
       /\ written # <<>>
       /\ written[Len(written)].offset = d_offset
       /\ written[Len(written)].data = warg[c].data
  /\ (\A c \in Caller : wpc[c] # "offset") =>
       d_offset = IF written = <<>> THEN 0
                  ELSE written[Len(written)].offset + Len(written[Len(written)].data)

\* Of data, what is not in rest any more stands in stream, from offset on.
Sent(data, rest, stream, offset) ==
  /\ Len(rest) <= Len(data)
  /\ Len(stream) = offset + (Len(data) - Len(rest))
  /\ \A k \in 1..(Len(data) - Len(rest)) : stream[offset + k] = data[k]
  /\ \A j \in 1..Len(rest) : rest[j] = data[(Len(data) - Len(rest)) + j]

Sending(data) == Sent(data, src, sent, d_offset)

StreamFollows ==
  /\ dz = "open" => o_good
  /\ \A c \in Caller : wpc[c] = "index" =>
       /\ dz = "open" => Sending(warg[c].data)
       /\ dz = "unopened" /\ o_good => src = warg[c].data
  /\ \A c \in Caller : wpc[c] = "offset" /\ dz = "open" =>
       Len(sent) = d_offset + Len(warg[c].data)
  /\ dz = "open" /\ (\A c \in Caller : wpc[c] \notin {"index", "offset"}) =>
       Len(sent) = d_offset

\* The bytes of an accepted entry are in the stream, at its offset.
WasSent(w, stream) ==
  w.accepted => \A k \in 1..Len(w.data) :
    w.offset + k \in 1..Len(stream) /\ stream[w.offset + k] = w.data[k]

WrittenWasSent == \A i \in 1..Len(written) : WasSent(written[i], sent)

WriterInv ==
  /\ DzInv
  /\ WriterTypes
  /\ MutualExclusion
  /\ SourceOwned
  /\ OffsetFollows
  /\ EntriesTile
  /\ StreamFollows
  /\ WrittenWasSent

----------------------------------------------------------------------------
\* The bytes of an entry that was sent are in the stream, in a chunk or in the
\* put area, where InStream looks for them.
LEMMA SentIsInStream ==
  ASSUME DzInv, NEW p \in Nat, p < Len(sent)
  PROVE  InStream(p, sent[p + 1])
<1>1. /\ d_size \in Nat /\ d_buffer \in Seq(Byte) /\ Len(d_buffer) \in Nat
      /\ Len(sent) \in Nat
  BY DEF DzInv, DzTypeOK
<1>2. /\ Len(sent) = d_size + Len(d_buffer)
      /\ \A i \in 0..(d_size - 1) : StoredAt(d_chunks, i, sent[i + 1])
      /\ \A q \in 1..Len(d_buffer) : d_buffer[q] = sent[d_size + q]
  BY DEF DzInv, ChunkAddressing
<1>3. CASE p < d_size
  <2>1. p \in 0..(d_size - 1)
    BY <1>1, <1>3
  <2> QED
    BY <1>2, <1>3, <2>1 DEF InStream
<1>4. CASE ~(p < d_size)
  <2>1. /\ p - d_size + 1 \in 1..Len(d_buffer) /\ p - d_size < Len(d_buffer)
        /\ d_size + (p - d_size + 1) = p + 1
    BY <1>1, <1>2, <1>4
  <2>2. d_buffer[p - d_size + 1] = sent[p + 1]
    BY <1>2, <2>1
  <2> QED
    BY <1>4, <2>1, <2>2 DEF InStream
<1> QED
  BY <1>3, <1>4

\* The invariant gives the property: a line's offset is where the entry is.
LEMMA InvStored ==
  ASSUME WriterInv
  PROVE  EntriesStored
<1> SUFFICES ASSUME NEW i \in 1..Len(written), written[i].accepted,
                    NEW k \in 1..Len(written[i].data)
             PROVE  InStream(written[i].offset + k - 1, written[i].data[k])
  BY DEF EntriesStored
<1> DEFINE p == written[i].offset + k - 1
<1>1. written[i] \in Entry
  BY DEF WriterInv, WriterTypes
<1>2. written[i].offset \in Nat /\ Len(written[i].data) \in Nat /\ k \in Nat /\ k >= 1
  BY <1>1, WriterAssumption DEF Entry
<1>3. /\ written[i].offset + k \in 1..Len(sent)
      /\ sent[written[i].offset + k] = written[i].data[k]
  BY DEF WriterInv, WrittenWasSent, WasSent
<1>4. Len(sent) \in Nat
  BY DEF WriterInv, DzInv, DzTypeOK
<1>5. p \in Nat /\ p < Len(sent) /\ p + 1 = written[i].offset + k
  <2>1. ASSUME NEW o \in Nat, NEW n \in Nat, k \in Nat, k >= 1, o + k \in 1..n
        PROVE  o + k - 1 \in Nat /\ o + k - 1 < n /\ (o + k - 1) + 1 = o + k
    BY <2>1
  <2> QED
    BY <1>2, <1>3, <1>4, <2>1
<1>6. InStream(p, sent[p + 1])
  BY <1>5, SentIsInStream DEF WriterInv
<1> QED
  BY <1>3, <1>5, <1>6

\* What a step that only appends to the stream leaves of the entries sent.
LEMMA SentStays ==
  ASSUME WriterInv, Len(sent') \in Nat, Len(sent') >= Len(sent),
         \A i \in 1..Len(sent) : sent'[i] = sent[i],
         UNCHANGED written
  PROVE  WrittenWasSent'
<1>1. \A i \in 1..Len(written) : WasSent(written[i], sent)
  BY DEF WriterInv, WrittenWasSent
<1>2. Len(sent) \in Nat
  BY DEF WriterInv, DzInv, DzTypeOK
<1>3. ASSUME NEW i \in 1..Len(written), written[i].accepted,
             NEW k \in 1..Len(written[i].data)
      PROVE  /\ written[i].offset + k \in 1..Len(sent')
             /\ sent'[written[i].offset + k] = written[i].data[k]
  <2>1. /\ written[i].offset + k \in 1..Len(sent)
        /\ sent[written[i].offset + k] = written[i].data[k]
    BY <1>1, <1>3 DEF WasSent
  <2> QED
    BY <1>2, <2>1
<1> QED
  BY <1>3 DEF WrittenWasSent, WasSent

----------------------------------------------------------------------------
\* Nothing of the data is sent while all of it is still to be copied.
LEMMA NothingSent ==
  ASSUME NEW data \in Seq(Byte), NEW stream, NEW offset \in Nat, Len(stream) = offset
  PROVE  Sent(data, data, stream, offset)
<1>1. Len(data) \in Nat /\ Len(data) - Len(data) = 0
  OBVIOUS
<1>2. \A j \in 1..Len(data) : data[j] = data[0 + j]
  OBVIOUS
<1> QED
  BY <1>1, <1>2 DEF Sent

\* With no rest, all of the data is sent.
LEMMA AllSent ==
  ASSUME NEW data \in Seq(Byte), NEW stream, NEW offset \in Nat,
         Sent(data, <<>>, stream, offset)
  PROVE  /\ Len(stream) = offset + Len(data)
         /\ \A k \in 1..Len(data) :
              offset + k \in 1..Len(stream) /\ stream[offset + k] = data[k]
<1>1. Len(data) \in Nat /\ Len(<<>>) = 0 /\ Len(data) - Len(<<>>) = Len(data)
  OBVIOUS
<1>2. /\ Len(stream) = offset + Len(data)
      /\ \A k \in 1..Len(data) : stream[offset + k] = data[k]
  BY <1>1 DEF Sent
<1>3. \A k \in 1..Len(data) : offset + k \in 1..Len(stream)
  BY <1>1, <1>2
<1> QED
  BY <1>2, <1>3

\* Moving a piece from the head of the rest to the end of the stream.
LEMMA PieceSent ==
  ASSUME NEW data \in Seq(Byte), NEW rest \in Seq(Byte), NEW stream \in Seq(Byte),
         NEW offset \in Nat, Sent(data, rest, stream, offset),
         NEW a \in 1..Len(rest)
  PROVE  Sent(data, SubSeq(rest, a + 1, Len(rest)), stream \o SubSeq(rest, 1, a), offset)
<1> DEFINE rest2 == SubSeq(rest, a + 1, Len(rest))
<1> DEFINE piece == SubSeq(rest, 1, a)
<1> DEFINE stream2 == stream \o piece
<1> DEFINE done == Len(data) - Len(rest)
<1>1. /\ Len(data) \in Nat /\ Len(rest) \in Nat /\ Len(stream) \in Nat
      /\ a \in Nat /\ a <= Len(rest)
  OBVIOUS
<1>2. /\ Len(rest) <= Len(data)
      /\ Len(stream) = offset + done
      /\ \A k \in 1..done : stream[offset + k] = data[k]
      /\ \A j \in 1..Len(rest) : rest[j] = data[done + j]
  BY DEF Sent
<1>3. /\ Len(rest2) = Len(rest) - a
      /\ \A j \in 1..(Len(rest) - a) : rest2[j] = rest[a + j]
  BY <1>1
<1>4. /\ piece \in Seq(Byte) /\ Len(piece) = a
      /\ \A j \in 1..a : piece[j] = rest[j]
  BY <1>1
<1>5. /\ Len(stream2) = Len(stream) + a
      /\ \A i \in 1..Len(stream) : stream2[i] = stream[i]
      /\ \A j \in 1..a : stream2[Len(stream) + j] = piece[j]
  BY <1>1, <1>4
<1>6. done \in Nat /\ Len(data) - Len(rest2) = done + a
  <2>1. Len(rest) <= Len(data) /\ Len(rest2) = Len(rest) - a
    BY <1>2, <1>3
  <2> HIDE DEF rest2
  <2> QED
    BY <1>1, <2>1
<1>7. Len(rest2) <= Len(data) /\ Len(stream2) = offset + (done + a)
  BY <1>1, <1>2, <1>3, <1>5, <1>6
<1> HIDE DEF rest2, piece, stream2, done
<1>8. ASSUME NEW k \in 1..(done + a)
      PROVE  stream2[offset + k] = data[k]
  <2>1. CASE k <= done
    <3>1. k \in 1..done /\ offset + k \in 1..Len(stream)
      BY <1>1, <1>2, <1>6, <2>1
    <3> QED
      BY <1>2, <1>5, <3>1
  <2>2. CASE k > done
    <3>1. k - done \in 1..a /\ k = done + (k - done)
      BY <1>1, <1>6, <2>2
    <3>2. PICK j \in 1..a : k = done + j
      BY <3>1
    <3>3. offset + k = Len(stream) + j /\ j \in 1..Len(rest)
      BY <1>1, <1>2, <1>6, <3>2
    <3> QED
      BY <1>2, <1>4, <1>5, <3>2, <3>3
  <2>3. k <= done \/ k > done
    BY <1>1, <1>6
  <2> QED
    BY <2>1, <2>2, <2>3
<1>9. ASSUME NEW j \in 1..Len(rest2)
      PROVE  rest2[j] = data[(done + a) + j]
  <2>1. /\ j \in 1..(Len(rest) - a) /\ a + j \in 1..Len(rest)
        /\ done + (a + j) = (done + a) + j
    BY <1>1, <1>3, <1>6
  <2> QED
    BY <1>2, <1>3, <2>1
<1>10. Sent(data, rest2, stream2, offset)
  BY <1>6, <1>7, <1>8, <1>9 DEF Sent
<1> QED
  BY <1>10 DEF rest2, stream2, piece

----------------------------------------------------------------------------
\* The writer starts in a state of the invariant.
LEMMA WriterInitHolds ==
  ASSUME Init
  PROVE  WriterInv
<1>1. DzInv
  BY DzInitHolds DEF Init
<1>2. WriterTypes
  BY DEF Init, WriterTypes
<1>3. MutualExclusion
  BY WriterAssumption DEF Init, MutualExclusion
<1>4. SourceOwned /\ OffsetFollows /\ EntriesTile
  BY DEF Init, DzInit, SourceOwned, OffsetFollows, EntriesTile
<1>5. StreamFollows
  BY DEF Init, DzInit, StreamFollows
<1>6. WrittenWasSent
  BY DEF Init, WrittenWasSent
<1> QED
  BY <1>1, <1>2, <1>3, <1>4, <1>5, <1>6 DEF WriterInv

\* A thread that enters writeEntry disturbs nobody.
LEMMA CallKeeps ==
  ASSUME WriterInv, NEW c \in Caller, NEW n \in Name, NEW d \in Data, Call(c, n, d)
  PROVE  WriterInv'
<1>1. /\ wpc[c] = "idle" /\ wpc' = [wpc EXCEPT ![c] = "lock"]
      /\ warg' = [warg EXCEPT ![c] = [name |-> n, data |-> d]]
      /\ UNCHANGED <<dzVars, d_writeMutex, d_offset, indexExists, indexFile, written>>
  BY DEF Call
<1>2. /\ WriterTypes /\ wpc \in [Caller -> {"idle", "lock", "data", "index", "offset"}]
      /\ warg \in [Caller -> Argument \cup {Outside}]
  BY DEF WriterInv, WriterTypes
<1>3. \A x \in Caller : x # c => wpc'[x] = wpc[x] /\ warg'[x] = warg[x]
  BY <1>1, <1>2
<1>4. wpc'[c] = "lock" /\ warg'[c] \in Argument
  BY <1>1, <1>2 DEF Argument
<1>5. DzInv'
  BY <1>1, StreamStutterKeeps DEF WriterInv
<1>6. WriterTypes'
  BY <1>1, <1>2, <1>3, <1>4 DEF WriterTypes
<1>7. MutualExclusion'
  BY <1>1, <1>3, <1>4 DEF WriterInv, MutualExclusion
<1>8. SourceOwned'
  BY <1>1, <1>3 DEF WriterInv, SourceOwned, dzVars
<1>9. OffsetFollows'
  BY <1>1, <1>3, <1>4 DEF WriterInv, OffsetFollows
<1>10. EntriesTile'
  BY <1>1 DEF WriterInv, EntriesTile
<1>11. StreamFollows'
  BY <1>1, <1>3, <1>4 DEF WriterInv, StreamFollows, Sending, Sent, dzVars
<1>12. WrittenWasSent'
  BY <1>1 DEF WriterInv, WrittenWasSent, WasSent, dzVars
<1> QED
  BY <1>5, <1>6, <1>7, <1>8, <1>9, <1>10, <1>11, <1>12 DEF WriterInv

\* A thread that takes the mutex finds nobody between Lock and AddOffset.
LEMMA LockKeeps ==
  ASSUME WriterInv, NEW c \in Caller, Lock(c)
  PROVE  WriterInv'
<1>1. /\ wpc[c] = "lock" /\ wpc' = [wpc EXCEPT ![c] = "data"]
      /\ d_writeMutex = NoCaller /\ d_writeMutex' = c
      /\ UNCHANGED <<dzVars, warg, d_offset, indexExists, indexFile, written>>
  BY DEF Lock
<1>2. /\ WriterTypes /\ wpc \in [Caller -> {"idle", "lock", "data", "index", "offset"}]
  BY DEF WriterInv, WriterTypes
<1>3. \A x \in Caller : x # c => wpc'[x] = wpc[x]
  BY <1>1, <1>2
<1>4. wpc'[c] = "data"
  BY <1>1, <1>2
<1>5. DzInv'
  BY <1>1, StreamStutterKeeps DEF WriterInv
<1>6. WriterTypes'
  BY <1>1, <1>2, <1>3 DEF WriterTypes
<1>7. MutualExclusion'
  BY <1>1, <1>3, <1>4, WriterAssumption DEF WriterInv, MutualExclusion
<1>8. SourceOwned'
  BY <1>1, <1>3 DEF WriterInv, SourceOwned, dzVars
<1>9. OffsetFollows'
  BY <1>1, <1>3, <1>4 DEF WriterInv, OffsetFollows
<1>10. EntriesTile'
  BY <1>1 DEF WriterInv, EntriesTile
<1>11. StreamFollows'
  BY <1>1, <1>3, <1>4 DEF WriterInv, StreamFollows, Sending, Sent, dzVars
<1>12. WrittenWasSent'
  BY <1>1 DEF WriterInv, WrittenWasSent, WasSent, dzVars
<1> QED
  BY <1>5, <1>6, <1>7, <1>8, <1>9, <1>10, <1>11, <1>12 DEF WriterInv

\* The holder of the mutex hands its bytes to a stream that has nothing to copy.
LEMMA PutDataKeeps ==
  ASSUME WriterInv, NEW c \in Caller, PutData(c)
  PROVE  WriterInv'
<1>1. /\ dz \in {"unopened", "open"}
      /\ wpc[c] = "data" /\ wpc' = [wpc EXCEPT ![c] = "index"]
      /\ src' = IF o_good THEN warg[c].data ELSE <<>>
      /\ UNCHANGED <<dz, o_good, d_buffer, d_chunks, d_size, d_dzStream, dzFile, sent>>
      /\ UNCHANGED <<d_writeMutex, warg, d_offset, indexExists, indexFile, written>>
  BY DEF PutData
<1>2. /\ WriterTypes /\ wpc \in [Caller -> {"idle", "lock", "data", "index", "offset"}]
  BY DEF WriterInv, WriterTypes
<1>3. \A x \in Caller : x # c => wpc'[x] = wpc[x]
  BY <1>1, <1>2
<1>4. wpc'[c] = "index"
  BY <1>1, <1>2
<1>5. d_writeMutex = c /\ \A x \in Caller : x # c => wpc[x] \notin {"data", "index", "offset"}
  BY <1>1 DEF WriterInv, MutualExclusion
<1>6. warg[c] \in Argument /\ warg[c].data \in Seq(Byte)
  <2>1. warg[c] \in Argument
    BY <1>1, <1>2 DEF WriterTypes
  <2> QED
    BY <2>1, WriterAssumption DEF Argument
<1>7. src = <<>>
  BY <1>1, <1>5 DEF WriterInv, SourceOwned
<1>8. src' \in Seq(Byte)
  BY <1>1, <1>6
<1>9. DzInv'
  BY <1>1, <1>7, <1>8, NewSourceKeeps DEF WriterInv
<1>10. WriterTypes'
  BY <1>1, <1>2, <1>3 DEF WriterTypes
<1>11. MutualExclusion'
  BY <1>1, <1>3, <1>4 DEF WriterInv, MutualExclusion
<1>12. SourceOwned'
  BY <1>4 DEF SourceOwned
<1>13. OffsetFollows'
  BY <1>1, <1>3, <1>4 DEF WriterInv, OffsetFollows
<1>14. EntriesTile'
  BY <1>1 DEF WriterInv, EntriesTile
<1>15. StreamFollows'
  <2>1. dz' = "open" => o_good'
    BY <1>1 DEF WriterInv, StreamFollows
  <2>2. dz' = "open" => Sending(warg[c].data)'
    <3>1. SUFFICES ASSUME dz = "open" PROVE Sending(warg[c].data)'
      BY <1>1
    <3>2. src' = warg'[c].data
      BY <1>1, <3>1 DEF WriterInv, StreamFollows
    <3>3. Len(sent') = d_offset'
      <4>1. \A x \in Caller : wpc[x] \notin {"index", "offset"}
        BY <1>1, <1>5
      <4> QED
        BY <1>1, <3>1, <4>1 DEF WriterInv, StreamFollows
    <3>4. src' \in Seq(Byte) /\ d_offset' \in Nat
      BY <1>1, <1>2, <1>8 DEF WriterTypes
    <3> QED
      BY <3>2, <3>3, <3>4, NothingSent DEF Sending
  <2>3. dz' = "unopened" /\ o_good' => src' = warg'[c].data
    BY <1>1
  <2>4. \A x \in Caller : wpc'[x] = "index" => x = c
    BY <1>3, <1>5
  <2>5. \A x \in Caller : wpc'[x] # "offset"
    BY <1>3, <1>4, <1>5
  <2> QED
    BY <1>4, <2>1, <2>2, <2>3, <2>4, <2>5 DEF StreamFollows
<1>16. WrittenWasSent'
  BY <1>1 DEF WriterInv, WrittenWasSent, WasSent
<1> QED
  BY <1>9, <1>10, <1>11, <1>12, <1>13, <1>14, <1>15, <1>16 DEF WriterInv

\* What one copying round does: it moves a piece of a byte or more.
LEMMA CopyMoves ==
  ASSUME DzInv, XsputnCopy
  PROVE  \E a \in 1..Len(src) : /\ src' = SubSeq(src, a + 1, Len(src))
                                /\ sent' = sent \o SubSeq(src, 1, a)
<1> DEFINE a == SmallerOf(ChunkLen - Len(d_buffer), Len(src))
<1>1. /\ Len(src) \in Nat /\ Len(src) > 0
      /\ Len(d_buffer) \in Nat /\ Len(d_buffer) < ChunkLen /\ ChunkLen \in Nat
  BY DzAssumption DEF DzInv, DzTypeOK, XsputnCopy
<1>2. a \in 1..Len(src)
  BY <1>1 DEF SmallerOf
<1>3. src' = SubSeq(src, a + 1, Len(src)) /\ sent' = sent \o SubSeq(src, 1, a)
  BY DEF XsputnCopy
<1> HIDE DEF a
<1> QED
  BY <1>2, <1>3

\* A sequence stays what it was when another is put after it.
LEMMA PrefixStays ==
  ASSUME NEW s \in Seq(Byte), NEW t \in Seq(Byte)
  PROVE  /\ Len(s \o t) \in Nat /\ Len(s \o t) >= Len(s)
         /\ \A i \in 1..Len(s) : (s \o t)[i] = s[i]
OBVIOUS

\* A round of xsputn on behalf of the thread at "index".
LEMMA CopyDataKeeps ==
  ASSUME WriterInv, CopyData
  PROVE  WriterInv'
<1>1. UNCHANGED writerVars
  BY DEF CopyData
<1>2. /\ WriterTypes /\ DzInv /\ src # <<>>
      /\ sent \in Seq(Byte) /\ src \in Seq(Byte) /\ d_offset \in Nat
  BY DEF WriterInv, WriterTypes, DzInv, DzTypeOK, CopyData, XsputnStep, XsputnCopy,
     XsputnFlush, XsputnUnopened
<1>3. DzInv'
  BY XsputnStepKeeps DEF WriterInv, CopyData
<1>4. WriterTypes' /\ MutualExclusion' /\ OffsetFollows' /\ EntriesTile'
  <2>1. WriterTypes'
    BY <1>1 DEF WriterInv, WriterTypes, writerVars
  <2>2. MutualExclusion'
    BY <1>1 DEF WriterInv, MutualExclusion, writerVars
  <2>3. OffsetFollows'
    BY <1>1 DEF WriterInv, OffsetFollows, writerVars
  <2>4. EntriesTile'
    BY <1>1 DEF WriterInv, EntriesTile, writerVars
  <2> QED
    BY <2>1, <2>2, <2>3, <2>4
<1>5. PICK c \in Caller : wpc[c] = "index"
  BY <1>2 DEF WriterInv, SourceOwned
<1>6. /\ d_writeMutex = c /\ wpc' = wpc /\ warg' = warg /\ d_offset' = d_offset
      /\ \A x \in Caller : x # c => wpc[x] \notin {"data", "index", "offset"}
  BY <1>1, <1>5 DEF WriterInv, MutualExclusion, writerVars
<1>7. SourceOwned'
  BY <1>5, <1>6 DEF SourceOwned
<1>8. warg[c].data \in Seq(Byte)
  <2>1. warg[c] \in Argument
    BY <1>2, <1>5 DEF WriterTypes
  <2> QED
    BY <2>1, WriterAssumption DEF Argument
<1>9. CASE XsputnCopy
  <2>1. PICK a \in 1..Len(src) : /\ src' = SubSeq(src, a + 1, Len(src))
                                 /\ sent' = sent \o SubSeq(src, 1, a)
    BY <1>2, <1>9, CopyMoves
  <2>2. dz = "open" /\ dz' = "open" /\ o_good' = o_good /\ o_good
    BY <1>9 DEF XsputnCopy, WriterInv, StreamFollows
  <2>3. Sending(warg[c].data)
    BY <1>5, <2>2 DEF WriterInv, StreamFollows
  <2>4. Sending(warg[c].data)'
    <3>1. Sent(warg[c].data, src, sent, d_offset)
      BY <2>3 DEF Sending
    <3>2. Sent(warg[c].data, src', sent', d_offset)
      BY <1>2, <1>8, <2>1, <3>1, PieceSent
    <3> QED
      BY <1>6, <3>2 DEF Sending
  <2>5. StreamFollows'
    BY <1>5, <1>6, <2>2, <2>4 DEF StreamFollows
  <2>6. WrittenWasSent'
    <3>1. SubSeq(src, 1, a) \in Seq(Byte)
      BY <1>2
    <3>2. /\ Len(sent') \in Nat /\ Len(sent') >= Len(sent)
          /\ \A i \in 1..Len(sent) : sent'[i] = sent[i]
      BY <1>2, <2>1, <3>1, PrefixStays
    <3> QED
      BY <1>1, <3>2, SentStays DEF writerVars
  <2> QED
    BY <1>3, <1>4, <1>7, <2>5, <2>6 DEF WriterInv
<1>10. CASE XsputnFlush
  <2>1. UNCHANGED <<dz, o_good, src, sent>>
    BY <1>10 DEF XsputnFlush
  <2>2. StreamFollows'
    BY <1>1, <2>1 DEF WriterInv, StreamFollows, Sending, Sent, writerVars
  <2>3. WrittenWasSent'
    BY <1>1, <2>1 DEF WriterInv, WrittenWasSent, WasSent, writerVars
  <2> QED
    BY <1>3, <1>4, <1>7, <2>2, <2>3 DEF WriterInv
<1>11. CASE XsputnUnopened
  <2>1. dz' = "unopened" /\ ~o_good' /\ UNCHANGED sent
    BY <1>11 DEF XsputnUnopened
  <2>2. StreamFollows'
    BY <2>1 DEF StreamFollows
  <2>3. WrittenWasSent'
    BY <1>1, <2>1 DEF WriterInv, WrittenWasSent, WasSent, writerVars
  <2> QED
    BY <1>3, <1>4, <1>7, <2>2, <2>3 DEF WriterInv
<1> QED
  BY <1>9, <1>10, <1>11 DEF CopyData, XsputnStep

\* The line of the entry just sent: the entry starts where the last one ended.
LEMMA WriteIndexKeeps ==
  ASSUME WriterInv, NEW c \in Caller, WriteIndex(c)
  PROVE  WriterInv'
<1> DEFINE entry == [name |-> warg[c].name, data |-> warg[c].data,
                     offset |-> d_offset, accepted |-> o_good]
<1> DEFINE line == [name   |-> warg[c].name,
                    offset |-> Encode(d_offset),
                    size   |-> Encode(Len(warg[c].data))]
<1>1. /\ dz \in {"unopened", "open"} /\ src = <<>>
      /\ wpc[c] = "index" /\ wpc' = [wpc EXCEPT ![c] = "offset"]
      /\ indexFile' = IF indexExists THEN Append(indexFile, line) ELSE indexFile
      /\ written' = Append(written, entry)
      /\ UNCHANGED <<dzVars, d_writeMutex, warg, d_offset, indexExists>>
  BY DEF WriteIndex
<1>2. /\ WriterTypes /\ wpc \in [Caller -> {"idle", "lock", "data", "index", "offset"}]
      /\ written \in Seq(Entry) /\ Len(written) \in Nat /\ indexFile \in Seq(IndexLine)
      /\ d_offset \in Nat
  BY DEF WriterInv, WriterTypes
<1>3. \A x \in Caller : x # c => wpc'[x] = wpc[x]
  BY <1>1, <1>2
<1>4. wpc'[c] = "offset"
  BY <1>1, <1>2
<1>5. d_writeMutex = c /\ \A x \in Caller : x # c => wpc[x] \notin {"data", "index", "offset"}
  BY <1>1 DEF WriterInv, MutualExclusion
<1>6. /\ warg[c] \in Argument /\ warg[c].data \in Seq(Byte)
      /\ warg[c].name \in Name /\ warg[c].data \in Data /\ Len(warg[c].data) \in Nat
  <2>1. warg[c] \in Argument
    BY <1>1, <1>2 DEF WriterTypes
  <2>2. warg[c].name \in Name /\ warg[c].data \in Data
    BY <2>1 DEF Argument
  <2>3. warg[c].data \in Seq(Byte)
    BY <2>2, WriterAssumption
  <2> QED
    BY <2>1, <2>2, <2>3
<1>7. entry \in Entry
  <2>1. o_good \in BOOLEAN
    BY DEF WriterInv, DzInv, DzTypeOK
  <2> QED
    BY <1>2, <1>6, <2>1 DEF Entry
<1>8. line \in IndexLine
  BY <1>2, <1>6 DEF IndexLine
<1>9. /\ entry.offset = d_offset /\ entry.data = warg[c].data /\ entry.accepted = o_good
  OBVIOUS
<1> HIDE DEF entry, line
<1>10. /\ Len(written') = Len(written) + 1 /\ written' # <<>>
       /\ written'[Len(written) + 1] = entry
       /\ \A i \in 1..Len(written) : written'[i] = written[i]
       /\ written' \in Seq(Entry)
  BY <1>1, <1>2, <1>7
<1>11. DzInv'
  BY <1>1, StreamStutterKeeps DEF WriterInv
<1>12. WriterTypes'
  <2>1. indexFile' \in Seq(IndexLine)
    BY <1>1, <1>2, <1>8
  <2> QED
    BY <1>1, <1>2, <1>3, <1>6, <1>10, <2>1 DEF WriterTypes
<1>13. MutualExclusion'
  BY <1>1, <1>3, <1>4 DEF WriterInv, MutualExclusion
<1>14. SourceOwned'
  BY <1>1 DEF SourceOwned, dzVars
<1>15. d_offset = IF written = <<>> THEN 0
                  ELSE written[Len(written)].offset + Len(written[Len(written)].data)
  BY <1>1, <1>5 DEF WriterInv, OffsetFollows
<1>16. OffsetFollows'
  <2>1. \A x \in Caller : wpc'[x] = "offset" => x = c
    BY <1>3, <1>5
  <2>2. written'[Len(written')].offset = d_offset' /\ written'[Len(written')].data = warg'[c].data
    BY <1>1, <1>9, <1>10
  <2> QED
    BY <1>4, <1>10, <2>1, <2>2 DEF OffsetFollows
<1>17. EntriesTile'
  <2>1. \A i \in 1..Len(written) :
          written[i].offset = IF i = 1 THEN 0 ELSE written[i - 1].offset + Len(written[i - 1].data)
    BY DEF WriterInv, EntriesTile
  <2>2. ASSUME NEW i \in 1..Len(written')
        PROVE  written'[i].offset =
                 IF i = 1 THEN 0 ELSE written'[i - 1].offset + Len(written'[i - 1].data)
    <3>1. CASE i \in 1..Len(written)
      <4>1. i = 1 \/ i - 1 \in 1..Len(written)
        BY <1>2, <3>1
      <4> QED
        BY <1>10, <2>1, <3>1, <4>1
    <3>2. CASE i = Len(written) + 1
      <4>1. written'[i].offset = d_offset
        BY <1>9, <1>10, <3>2
      <4>2. CASE written = <<>>
        BY <1>15, <3>2, <4>1, <4>2
      <4>3. CASE written # <<>>
        <5>1. Len(written) \in 1..Len(written) /\ i - 1 = Len(written) /\ i # 1
          BY <1>2, <3>2, <4>3
        <5> QED
          BY <1>10, <1>15, <4>1, <4>3, <5>1
      <4> QED
        BY <4>2, <4>3
    <3>3. i \in 1..(Len(written) + 1)
      BY <1>10
    <3> QED
      BY <1>2, <3>1, <3>2, <3>3
  <2> QED
    BY <2>2 DEF EntriesTile
<1>18. \/ Sending(warg[c].data) /\ dz = "open" /\ o_good
       \/ dz = "unopened" /\ (o_good => warg[c].data = <<>>)
  BY <1>1 DEF WriterInv, StreamFollows
<1>19. /\ sent \in Seq(Byte) /\ Len(sent) \in Nat
  BY DEF WriterInv, DzInv, DzTypeOK
<1>20. Sending(warg[c].data) =>
         /\ Len(sent) = d_offset + Len(warg[c].data)
         /\ \A k \in 1..Len(warg[c].data) :
              d_offset + k \in 1..Len(sent) /\ sent[d_offset + k] = warg[c].data[k]
  <2> DEFINE data == warg[c].data
  <2>1. data \in Seq(Byte) /\ d_offset \in Nat /\ src = <<>>
    BY <1>1, <1>2, <1>6
  <2> SUFFICES ASSUME Sending(data)
               PROVE  /\ Len(sent) = d_offset + Len(data)
                      /\ \A k \in 1..Len(data) :
                           d_offset + k \in 1..Len(sent) /\ sent[d_offset + k] = data[k]
    OBVIOUS
  <2>2. Sent(data, <<>>, sent, d_offset)
    BY <2>1 DEF Sending
  <2> HIDE DEF data
  <2> QED
    BY ONLY <2>1, <2>2, AllSent
<1>21. StreamFollows'
  <2>1. dz' = "open" => o_good'
    BY <1>1 DEF WriterInv, StreamFollows, dzVars
  <2>2. \A x \in Caller : wpc'[x] # "index" /\ (wpc'[x] = "offset" => x = c)
    BY <1>3, <1>4, <1>5
  <2>3. dz = "open" => Len(sent) = d_offset + Len(warg[c].data)
    BY <1>18, <1>20
  <2> QED
    BY <1>1, <1>4, <2>1, <2>2, <2>3 DEF StreamFollows, dzVars
<1>22. WrittenWasSent'
  <2>1. \A i \in 1..Len(written) : WasSent(written[i], sent)
    BY DEF WriterInv, WrittenWasSent
  <2>2. sent' = sent
    BY <1>1 DEF dzVars
  <2>3. WasSent(entry, sent)
    <3>1. SUFFICES ASSUME o_good
                   PROVE  \A k \in 1..Len(warg[c].data) :
                            /\ d_offset + k \in 1..Len(sent)
                            /\ sent[d_offset + k] = warg[c].data[k]
      BY <1>9 DEF WasSent
    <3> QED
      BY <1>18, <1>20, <3>1
  <2>4. ASSUME NEW i \in 1..Len(written')
        PROVE  WasSent(written'[i], sent')
    <3>1. i \in 1..Len(written) \/ i = Len(written) + 1
      BY <1>2, <1>10
    <3> QED
      BY <1>10, <2>1, <2>2, <2>3, <3>1
  <2> QED
    BY <2>4 DEF WrittenWasSent
<1> QED
  BY <1>11, <1>12, <1>13, <1>14, <1>16, <1>17, <1>21, <1>22 DEF WriterInv

\* The call ends; the next entry will start where this one ended.
LEMMA AddOffsetKeeps ==
  ASSUME WriterInv, NEW c \in Caller, AddOffset(c)
  PROVE  WriterInv'
<1>1. /\ dz \in {"unopened", "open"}
      /\ wpc[c] = "offset" /\ wpc' = [wpc EXCEPT ![c] = "idle"]
      /\ warg' = [warg EXCEPT ![c] = Outside]
      /\ d_offset' = d_offset + Len(warg[c].data) /\ d_writeMutex' = NoCaller
      /\ UNCHANGED <<dzVars, indexExists, indexFile, written>>
  BY DEF AddOffset
<1>2. /\ WriterTypes /\ wpc \in [Caller -> {"idle", "lock", "data", "index", "offset"}]
      /\ warg \in [Caller -> Argument \cup {Outside}] /\ d_offset \in Nat
  BY DEF WriterInv, WriterTypes
<1>3. \A x \in Caller : x # c => wpc'[x] = wpc[x] /\ warg'[x] = warg[x]
  BY <1>1, <1>2
<1>4. wpc'[c] = "idle" /\ warg'[c] = Outside
  BY <1>1, <1>2
<1>5. d_writeMutex = c /\ \A x \in Caller : x # c => wpc[x] \notin {"data", "index", "offset"}
  BY <1>1 DEF WriterInv, MutualExclusion
<1>6. Len(warg[c].data) \in Nat
  <2>1. warg[c] \in Argument
    BY <1>1, <1>2 DEF WriterTypes
  <2>2. warg[c].data \in Seq(Byte)
    BY <2>1, WriterAssumption DEF Argument
  <2> QED
    BY <2>2
<1>7. d_offset' \in Nat
  BY <1>1, <1>2, <1>6
<1>8. DzInv'
  BY <1>1, StreamStutterKeeps DEF WriterInv
<1>9. WriterTypes'
  BY <1>1, <1>2, <1>3, <1>4, <1>7 DEF WriterTypes
<1>10. MutualExclusion'
  BY <1>1, <1>3, <1>4, <1>5, WriterAssumption DEF WriterInv, MutualExclusion
<1>11. SourceOwned'
  <2>1. src = <<>>
    BY <1>1, <1>5 DEF WriterInv, SourceOwned
  <2> QED
    BY <1>1, <2>1 DEF SourceOwned, dzVars
<1>12. OffsetFollows'
  <2>1. \A x \in Caller : wpc'[x] # "offset"
    BY <1>3, <1>4, <1>5
  <2>2. /\ written # <<>>
        /\ written[Len(written)].offset = d_offset
        /\ written[Len(written)].data = warg[c].data
    BY <1>1 DEF WriterInv, OffsetFollows
  <2>3. d_offset' = written[Len(written)].offset + Len(written[Len(written)].data)
    BY <1>1, <2>2
  <2> QED
    BY <1>1, <2>1, <2>2, <2>3 DEF OffsetFollows
<1>13. EntriesTile'
  BY <1>1 DEF WriterInv, EntriesTile
<1>14. StreamFollows'
  <2>1. dz' = "open" => o_good' /\ Len(sent') = d_offset'
    BY <1>1 DEF WriterInv, StreamFollows, dzVars
  <2>2. \A x \in Caller : wpc'[x] \notin {"index", "offset"}
    BY <1>3, <1>4, <1>5
  <2> QED
    BY <2>1, <2>2 DEF StreamFollows
<1>15. WrittenWasSent'
  BY <1>1 DEF WriterInv, WrittenWasSent, WasSent, dzVars
<1> QED
  BY <1>8, <1>9, <1>10, <1>11, <1>12, <1>13, <1>14, <1>15 DEF WriterInv

\* Once the stream is being closed, or the process is gone, the writer changes
\* no more.
LEMMA EndKeeps ==
  ASSUME WriterInv, Destroy \/ FinishDestroy \/ Crash
  PROVE  WriterInv'
<1>1. UNCHANGED writerVars
  BY DEF Destroy, FinishDestroy, Crash
<1>2. /\ dz' \notin {"unopened", "open"}
      /\ UNCHANGED <<src, sent>>
  BY DEF Destroy, FinishDestroy, Crash, BeginClose, CloseFlush, CloseUnopened, CloseStep,
     WriteHeader, WriteChunkInfo, WriteZData, WriteTrailer, Fclose, CrashStream
<1>3. DzInv'
  BY CloseKeeps, CrashKeeps DEF WriterInv, Destroy, FinishDestroy, Crash
<1>4. WriterTypes'
  BY <1>1 DEF WriterInv, WriterTypes, writerVars
<1>5. MutualExclusion'
  BY <1>1 DEF WriterInv, MutualExclusion, writerVars
<1>6. SourceOwned'
  BY <1>1, <1>2 DEF WriterInv, SourceOwned, writerVars
<1>7. OffsetFollows'
  BY <1>1 DEF WriterInv, OffsetFollows, writerVars
<1>8. EntriesTile'
  BY <1>1 DEF WriterInv, EntriesTile, writerVars
<1>9. StreamFollows'
  BY <1>2 DEF StreamFollows
<1>10. WrittenWasSent'
  BY <1>1, <1>2 DEF WriterInv, WrittenWasSent, WasSent, writerVars
<1> QED
  BY <1>3, <1>4, <1>5, <1>6, <1>7, <1>8, <1>9, <1>10 DEF WriterInv

\* A step in which nothing happens.
LEMMA WriterStutterKeeps ==
  ASSUME WriterInv, UNCHANGED vars
  PROVE  WriterInv'
<1>1. UNCHANGED writerVars /\ UNCHANGED dzVars
  BY DEF vars
<1>2. DzInv'
  BY <1>1, StreamStutterKeeps DEF WriterInv
<1>3. WriterTypes'
  BY <1>1 DEF WriterInv, WriterTypes, writerVars
<1>4. MutualExclusion'
  BY <1>1 DEF WriterInv, MutualExclusion, writerVars
<1>5. SourceOwned'
  BY <1>1 DEF WriterInv, SourceOwned, writerVars, dzVars
<1>6. OffsetFollows'
  BY <1>1 DEF WriterInv, OffsetFollows, writerVars
<1>7. EntriesTile'
  BY <1>1 DEF WriterInv, EntriesTile, writerVars
<1>8. StreamFollows'
  BY <1>1 DEF WriterInv, StreamFollows, Sending, Sent, writerVars, dzVars
<1>9. WrittenWasSent'
  BY <1>1 DEF WriterInv, WrittenWasSent, WasSent, writerVars, dzVars
<1> QED
  BY <1>2, <1>3, <1>4, <1>5, <1>6, <1>7, <1>8, <1>9 DEF WriterInv

\* Every step of the writer and its threads keeps the invariant.
LEMMA WriterNextKeeps ==
  ASSUME WriterInv, [Next]_vars
  PROVE  WriterInv'
<1>1. CASE \E c \in Caller, n \in Name, d \in Data : Call(c, n, d)
  BY <1>1, CallKeeps
<1>2. CASE \E c \in Caller : WriteEntry(c)
  BY <1>2, LockKeeps, PutDataKeeps, WriteIndexKeeps, AddOffsetKeeps DEF WriteEntry
<1>3. CASE CopyData
  BY <1>3, CopyDataKeeps
<1>4. CASE Destroy \/ FinishDestroy \/ Crash
  BY <1>4, EndKeeps
<1>5. CASE UNCHANGED vars
  BY <1>5, WriterStutterKeeps
<1> QED
  BY <1>1, <1>2, <1>3, <1>4, <1>5 DEF Next

----------------------------------------------------------------------------
\* The inductive invariant holds in every state of every behaviour.
THEOREM Invariance == Spec => []WriterInv
<1>1. Init => WriterInv
  BY WriterInitHolds
<1>2. WriterInv /\ [Next]_vars => WriterInv'
  BY WriterNextKeeps
<1> QED
  BY <1>1, <1>2, PTL DEF Spec

\* The variables of the writer keep their types.
THEOREM TypeCorrect == Spec => []TypeOK
<1>1. ASSUME WriterInv PROVE TypeOK
  <2>1. DzTypeOK /\ WriterTypes
    BY <1>1 DEF WriterInv, DzInv
  <2>2. \A i \in DOMAIN indexFile : indexFile[i].name \in Name
    <3>1. \A i \in DOMAIN indexFile : indexFile[i] \in IndexLine
      BY <2>1 DEF WriterTypes
    <3> QED
      BY <3>1 DEF IndexLine
  <2> QED
    BY <2>1, <2>2 DEF TypeOK, WriterTypes, Argument
<1> QED
  BY <1>1, Invariance, PTL

\* At most one thread is between taking d_writeMutex and releasing it, and it
\* is the one the mutex names.
THEOREM Exclusion == Spec => []MutualExclusion
<1>1. WriterInv => MutualExclusion
  BY DEF WriterInv
<1> QED
  BY <1>1, Invariance, PTL

\* Entries tile the stream, whatever threads wrote them.
THEOREM Tiling == Spec => []EntriesTile
<1>1. WriterInv => EntriesTile
  BY DEF WriterInv
<1> QED
  BY <1>1, Invariance, PTL

\* An accepted entry is found whole at the offset its index line was given.
THEOREM Storage == Spec => []EntriesStored
<1>1. WriterInv => EntriesStored
  BY InvStored
<1> QED
  BY <1>1, Invariance, PTL

----------------------------------------------------------------------------
\* The index line of an entry.
LineOf(w) == [name |-> w.name, offset |-> Encode(w.offset), size |-> Encode(Len(w.data))]

\* The lines are those of the entries, one by one; without an index file there
\* are none.
LinesLogged ==
  IF indexExists
    THEN /\ Len(indexFile) = Len(written)
         /\ \A i \in 1..Len(written) : indexFile[i] = LineOf(written[i])
    ELSE indexFile = <<>>

\* Every entry ends before the integer type of the offsets does.
Addressable ==
  \A i \in 1..Len(written) : written[i].offset + Len(written[i].data) < Modulus

LEMMA WriteIndexLogs ==
  ASSUME WriterTypes, LinesLogged, NEW c \in Caller, WriteIndex(c)
  PROVE  LinesLogged'
<1> DEFINE entry == [name |-> warg[c].name, data |-> warg[c].data,
                     offset |-> d_offset, accepted |-> o_good]
           line == [name   |-> warg[c].name,
                    offset |-> Encode(d_offset),
                    size   |-> Encode(Len(warg[c].data))]
<1>1. /\ indexFile' = IF indexExists THEN Append(indexFile, line) ELSE indexFile
      /\ written' = Append(written, entry)
      /\ indexExists' = indexExists
  BY DEF WriteIndex
<1>2. indexFile \in Seq(IndexLine) /\ written \in Seq(Entry) /\ indexExists \in BOOLEAN
  BY DEF WriterTypes
<1>3. line = LineOf(entry)
  BY DEF LineOf
<1> HIDE DEF entry, line
<1>4. CASE indexExists
  <2>1. Len(indexFile) = Len(written) /\ \A i \in 1..Len(written) : indexFile[i] = LineOf(written[i])
    BY <1>4 DEF LinesLogged
  <2>2. Len(indexFile') = Len(indexFile) + 1 /\ Len(written') = Len(written) + 1
    BY <1>1, <1>2, <1>4
  <2>3. ASSUME NEW i \in 1..Len(written') PROVE indexFile'[i] = LineOf(written'[i])
    <3>1. CASE i = Len(written) + 1
      BY <1>1, <1>2, <1>3, <1>4, <2>1, <3>1
    <3>2. CASE i \in 1..Len(written)
      <4>1. indexFile'[i] = indexFile[i] /\ written'[i] = written[i]
        BY <1>1, <1>2, <1>4, <2>1, <3>2
      <4> QED
        BY <2>1, <3>2, <4>1
    <3> QED
      BY <1>2, <2>2, <3>1, <3>2
  <2> QED
    BY <1>1, <1>4, <2>1, <2>2, <2>3 DEF LinesLogged
<1>5. CASE ~indexExists
  BY <1>1, <1>2, <1>5 DEF LinesLogged
<1> QED
  BY <1>4, <1>5

LEMMA LogKept ==
  ASSUME WriterInv, LinesLogged, [Next]_vars
  PROVE  LinesLogged'
<1>1. CASE \E c \in Caller : WriteIndex(c)
  BY <1>1, WriteIndexLogs DEF WriterInv
<1>2. CASE UNCHANGED <<indexExists, indexFile, written>>
  BY <1>2 DEF LinesLogged
<1>3. (\E c \in Caller : WriteIndex(c)) \/ UNCHANGED <<indexExists, indexFile, written>>
  <2>1. CASE \E c \in Caller, n \in Name, d \in Data : Call(c, n, d)
    BY <2>1 DEF Call
  <2>2. CASE \E c \in Caller : WriteEntry(c)
    BY <2>2 DEF WriteEntry, Lock, PutData, AddOffset
  <2>3. CASE CopyData \/ Destroy \/ FinishDestroy \/ Crash
    BY <2>3 DEF CopyData, Destroy, FinishDestroy, Crash, writerVars
  <2>4. CASE UNCHANGED vars
    BY <2>4 DEF vars, writerVars
  <2> QED
    BY <2>1, <2>2, <2>3, <2>4 DEF Next
<1> QED
  BY <1>1, <1>2, <1>3

LEMMA LogAlways == Spec => [](WriterInv /\ LinesLogged)
<1>1. Init => WriterInv /\ LinesLogged
  BY WriterInitHolds DEF Init, LinesLogged
<1>2. WriterInv /\ LinesLogged /\ [Next]_vars => WriterInv' /\ LinesLogged'
  BY WriterNextKeeps, LogKept
<1> QED
  BY <1>1, <1>2, PTL DEF Spec

----------------------------------------------------------------------------
(* Numbers.  R is the reader with its proofs; Reader is the same module as *)
(* CompactCorpus has it.                                                   *)

R == INSTANCE CompactCorpusReaderProofs

\* Both decode as the writer's side does.
LEMMA SameNumbers ==
  /\ \A s : Reader!Decode(s) = Decode(s)
  /\ \A s : R!Decode(s) = Decode(s)
  /\ \A v : R!Encode(v) = Encode(v)
  /\ R!Modulus = Modulus
<1>1. \A s : Reader!Decode(s) = Decode(s)
  BY DEF Reader!Decode, Decode, Reader!BadBase64, BadBase64, Reader!Digit,
         Digit, Reader!Base, Base, Reader!TwoTo, TwoTo, Reader!LosesBits,
         LosesBits, Reader!Shifted, Shifted, Reader!Shift, Shift,
         Reader!Modulus, Modulus, Reader!NumberOf, NumberOf, Reader!SetBits,
         SetBits
<1>2. \A s : R!Decode(s) = Decode(s)
  BY DEF R!Decode, Decode, R!BadBase64, BadBase64, R!Digit, Digit, R!Base,
         Base, R!TwoTo, TwoTo, R!LosesBits, LosesBits, R!Shifted, Shifted,
         R!Shift, Shift, R!Modulus, Modulus, R!NumberOf, NumberOf,
         R!SetBits, SetBits
<1>3. \A v : R!Encode(v) = Encode(v)
  BY DEF R!Encode, Encode, R!NumDigits, NumDigits, R!TwoTo, TwoTo, R!Base, Base
<1>4. R!Modulus = Modulus
  BY DEF R!Modulus, Modulus, R!TwoTo, TwoTo
<1> QED
  BY <1>1, <1>2, <1>3, <1>4

LEMMA ReaderConstants ==
  /\ /\ ChunkLen \in Nat \ {0}
     /\ IntMod \in Nat \ {0}
     /\ PosMod \in Nat /\ ChunkLen * IntMod <= PosMod
     /\ Nul \in Byte
     /\ EofByte \notin {Nul, Junk}
     /\ Junk \notin Byte
  /\ Bits \in Nat \ {0} /\ Width \in Nat \ {0}
  /\ NoThread \notin Thread
  /\ PosMod = R!Modulus
  /\ MaxReads \in Nat
<1>1. IntMod \in Nat \ {0}
  BY DzAssumption, CorpusAssumption
<1>2. PosMod = R!Modulus
  BY SameNumbers, CorpusAssumption
<1> QED
  BY <1>1, <1>2, DzAssumption, Base64Assumption, CorpusAssumption

LEMMA NumbersWritten ==
  /\ Modulus \in Nat
  /\ \A v \in Nat : v < Modulus => Decode(Encode(v)) = v /\ Encode(v) \in Seq(Int)
<1>1. R!Modulus \in Nat
  BY ReaderConstants, R!TwoToType DEF R!Modulus
<1>2. ASSUME NEW v \in Nat, v < R!Modulus
      PROVE  R!Decode(R!Encode(v)) = v /\ R!Encode(v) \in Seq(Int)
  BY <1>2, ReaderConstants, R!DecodeInverts, R!EncodeType
<1> QED
  BY <1>1, <1>2, SameNumbers

\* As long as the archive is no longer than its offsets can count, a line decodes
\* to the name, offset and size of its entry.
LEMMA LogDecodes ==
  ASSUME WriterInv, LinesLogged, Addressable, indexExists, NEW i \in 1..Len(written)
  PROVE  /\ indexFile[i].name = written[i].name
         /\ Decode(indexFile[i].offset) = written[i].offset
         /\ Decode(indexFile[i].size) = Len(written[i].data)
         /\ indexFile[i] \in [name : Name, offset : Seq(Int), size : Seq(Int)]
<1> DEFINE w == written[i]
<1>1. indexFile[i] = LineOf(w)
  BY DEF LinesLogged
<1>2. w \in Entry
  BY DEF WriterInv, WriterTypes
<1>3. w.name \in Name /\ w.offset \in Nat /\ Len(w.data) \in Nat
  <2>1. w.name \in Name /\ w.offset \in Nat /\ w.data \in Seq(Byte)
    BY <1>2, WriterAssumption DEF Entry
  <2> QED
    BY <2>1
<1>4. w.offset + Len(w.data) < Modulus /\ Modulus \in Nat
  BY NumbersWritten DEF Addressable
<1> HIDE DEF w
<1>5. w.offset < Modulus /\ Len(w.data) < Modulus
  BY <1>3, <1>4
<1>6. Decode(Encode(w.offset)) = w.offset /\ Decode(Encode(Len(w.data))) = Len(w.data)
  BY <1>3, <1>5, NumbersWritten
<1>7. Encode(w.offset) \in Seq(Int) /\ Encode(Len(w.data)) \in Seq(Int)
  BY <1>3, <1>5, NumbersWritten
<1>8. /\ indexFile[i].name = w.name
      /\ indexFile[i].offset = Encode(w.offset)
      /\ indexFile[i].size = Encode(Len(w.data))
      /\ indexFile[i] = [name |-> w.name, offset |-> Encode(w.offset),
                         size |-> Encode(Len(w.data))]
  BY <1>1 DEF LineOf
<1> QED
  BY <1>3, <1>6, <1>7, <1>8 DEF w

\* As long as the archive is no longer than its offsets can count, the index is
\* the log of the writes: it decodes to their names, offsets and sizes.
THEOREM IndexLog == Spec => [](Addressable => IndexIsLog)
<1>1. WriterInv /\ LinesLogged => (Addressable => IndexIsLog)
  BY LogDecodes DEF IndexIsLog, LinesLogged
<1> QED
  BY <1>1, LogAlways, PTL

----------------------------------------------------------------------------
(* Writer and reader together.                                             *)

LEMMA SameReader ==
  /\ Reader!ReaderInit <=> R!ReaderInit
  /\ Reader!Open <=> R!Open
  /\ \A t, n : Reader!Call(t, n) <=> R!Call(t, n)
  /\ \A t : Reader!ReadEntry(t) <=> R!ReadEntry(t)
  /\ \A t : Reader!Answered(t) <=> R!Answered(t)
<1>1. Reader!ReaderInit <=> R!ReaderInit
  BY DEF Reader!ReaderInit, R!ReaderInit, Reader!StreamInit, R!StreamInit,
         Reader!NoTable, R!NoTable
<1>2. Reader!Items = R!Items
  BY SameNumbers DEF Reader!Items, R!Items
<1>3. Reader!Open <=> R!Open
  BY <1>2 DEF Reader!Open, R!Open, Reader!Refused, R!Refused,
         Reader!HeaderReadable, R!HeaderReadable, Reader!TableCut,
         R!TableCut, Reader!OpenFails, R!OpenFails, Reader!Malformed,
         R!Malformed, Reader!ReadExtra, R!ReadExtra,
         Reader!NoTable, R!NoTable, Reader!fileVars, R!fileVars,
         Reader!threadVars, R!threadVars, Reader!Decode, R!Decode,
         Reader!BadBase64, R!BadBase64
<1>4. \A t, n : Reader!Call(t, n) <=> R!Call(t, n)
  BY DEF Reader!Call, R!Call, Reader!Known, R!Known, Reader!fileVars,
         R!fileVars, Reader!streamVars, R!streamVars
<1>5. \A t : Reader!ReadEntry(t) <=> R!ReadEntry(t)
  BY DEF Reader!ReadEntry, R!ReadEntry, Reader!Lock, R!Lock,
         Reader!SeekEntry, R!SeekEntry, Reader!StartRead, R!StartRead,
         Reader!Copy, R!Copy, Reader!Return, R!Return, Reader!Item, R!Item,
         Reader!Seek, R!Seek, Reader!SeekFound, R!SeekFound,
         Reader!SeekNotFound, R!SeekNotFound, Reader!SeekRefused,
         R!SeekRefused, Reader!Target, R!Target, Reader!Narrowed,
         R!Narrowed, Reader!Negative, R!Negative, Reader!NoTable,
         R!NoTable, Reader!ReadChunkThrows,
         R!ReadChunkThrows, Reader!ReadChunkUndefined, R!ReadChunkUndefined,
         Reader!InTable, R!InTable, Reader!OnDisk, R!OnDisk, Reader!Decodes,
         R!Decodes, Reader!Inflated, R!Inflated, Reader!Reading, R!Reading,
         Reader!XsgetnStep, R!XsgetnStep, Reader!XsgetnCopy, R!XsgetnCopy,
         Reader!XsgetnOverrun, R!XsgetnOverrun, Reader!XsgetnUnderflow,
         R!XsgetnUnderflow, Reader!UnderflowEnd, R!UnderflowEnd,
         Reader!UnderflowNext, R!UnderflowNext, Reader!SmallerOf,
         R!SmallerOf, Reader!fileVars, R!fileVars, Reader!streamVars,
         R!streamVars, Reader!threadVars, R!threadVars
<1>6. \A t : Reader!Answered(t) <=> R!Answered(t)
  BY DEF Reader!Answered, R!Answered
<1> QED
  BY <1>1, <1>3, <1>4, <1>5, <1>6

----------------------------------------------------------------------------
\* Chunks are full, except perhaps for the last.
ChunksFull ==
  \A i \in 1..Len(d_chunks) :
    /\ Len(d_chunks[i].bytes) <= ChunkLen
    /\ i < Len(d_chunks) => Len(d_chunks[i].bytes) = ChunkLen

TableLength == (10 + 2 * Len(d_chunks)) % FieldMod

\* Both files are there, and so is every entry in the index.
FileInv ==
  /\ dzFile.exists /\ d_dzStream.exists /\ indexExists
  /\ dz # "unopened" /\ o_good
  /\ \A i \in 1..Len(written) : written[i].accepted
  /\ ChunksFull

\* The reader's own invariant is about numbers that the index can hold.
CorpusInv ==
  /\ WriterInv /\ LinesLogged /\ FileInv
  /\ rd = "new" => R!ReaderInit
  /\ rd # "new" => dz \in {"closed", "dead"}
  /\ rd # "new" /\ Addressable => R!ReaderFacts

\* What a reader may find of the archive, wherever the writing process ended: no
\* table or the one of all the chunks, and the first of the chunks.
LEMMA FileParts ==
  ASSUME WriterInv, FileInv, dz \in {"closed", "dead"}
  PROVE  /\ dzFile \in DzFileType
         /\ dzFile.header => d_buffer = <<>>
         /\ \/ dzFile.table = NoSizes /\ dzFile.xlen = 0 /\ dzFile.count = 0
            \/ /\ dzFile.table <= Len(d_chunks)
               /\ dzFile.xlen = TableLength
               /\ dzFile.count = Len(d_chunks) % FieldMod
         /\ Len(dzFile.blocks) <= Len(d_chunks)
         /\ \A i \in 1..Len(dzFile.blocks) : dzFile.blocks[i] = d_chunks[i]
<1> DEFINE f == d_dzStream
           g == dzFile
<1>1. f \in DzFileType /\ g \in DzFileType /\ Len(d_chunks) \in Nat
  BY DEF WriterInv, DzInv, DzTypeOK
<1>2. /\ Len(f.blocks) <= Len(d_chunks)
      /\ \A i \in 1..Len(f.blocks) : f.blocks[i] = d_chunks[i]
      /\ f.header => d_buffer = <<>>
      /\ \/ f.table = NoSizes /\ f.xlen = 0 /\ f.count = 0 /\ f.blocks = <<>>
         \/ /\ f.table = Len(d_chunks) /\ f.xlen = TableLength
            /\ f.count = Len(d_chunks) % FieldMod
  BY DEF WriterInv, DzInv, ArchiveFollows, Agrees, TableLength
<1>3. g = f \/ g \in Begun(f)
  BY DEF WriterInv, DzInv, FileFollows
<1>4. CASE g = f
  BY <1>1, <1>2, <1>4 DEF NoSizes
<1>5. CASE g \in Begun(f)
  <2>1. /\ g.header => f.header
        /\ \/ g.table = NoSizes /\ g.xlen = 0 /\ g.count = 0 /\ g.blocks = <<>>
           \/ /\ g.xlen = f.xlen /\ g.count = f.count /\ g.table <= f.table
              /\ g.blocks = <<>>
           \/ /\ g.xlen = f.xlen /\ g.count = f.count /\ g.table = f.table
              /\ Len(g.blocks) <= Len(f.blocks)
              /\ \A i \in 1..Len(g.blocks) : g.blocks[i] = f.blocks[i]
    BY <1>1, <1>5, BegunParts
  <2>2. /\ f.table \in Nat \cup {NoSizes} /\ g.table \in Nat \cup {NoSizes}
        /\ Len(f.blocks) \in Nat /\ Len(g.blocks) \in Nat
    BY <1>1 DEF DzFileType
  <2> HIDE DEF f, g
  <2>3. CASE g.table = NoSizes /\ g.xlen = 0 /\ g.count = 0 /\ g.blocks = <<>>
    BY <1>1, <1>2, <2>1, <2>3 DEF f, g
  <2>4. CASE /\ g.xlen = f.xlen /\ g.count = f.count /\ g.table <= f.table
             /\ g.blocks = <<>>
    <3>1. \/ g.table = NoSizes /\ g.xlen = 0 /\ g.count = 0
          \/ /\ g.table <= Len(d_chunks) /\ g.xlen = TableLength
             /\ g.count = Len(d_chunks) % FieldMod
      BY <1>2, <2>2, <2>4 DEF NoSizes
    <3> QED
      BY <1>1, <1>2, <2>1, <2>4, <3>1 DEF f, g
  <2>5. CASE /\ g.xlen = f.xlen /\ g.count = f.count /\ g.table = f.table
             /\ Len(g.blocks) <= Len(f.blocks)
             /\ \A i \in 1..Len(g.blocks) : g.blocks[i] = f.blocks[i]
    <3>1. \/ g.table = NoSizes /\ g.xlen = 0 /\ g.count = 0
          \/ /\ g.table <= Len(d_chunks) /\ g.xlen = TableLength
             /\ g.count = Len(d_chunks) % FieldMod
      BY <1>1, <1>2, <2>2, <2>5
    <3>2. /\ Len(g.blocks) <= Len(d_chunks)
          /\ \A i \in 1..Len(g.blocks) : g.blocks[i] = d_chunks[i]
      BY <1>1, <1>2, <2>2, <2>5
    <3> QED
      BY <1>1, <1>2, <2>1, <3>1, <3>2 DEF f, g
  <2> QED
    BY <2>1, <2>3, <2>4, <2>5
<1> QED
  BY <1>3, <1>4, <1>5

LEMMA ChunksStayFull ==
  ASSUME WriterInv, ChunksFull, dz = "open", AddChunk
  PROVE  ChunksFull'
<1>1. /\ d_chunks \in Seq(Chunk) /\ Deflated(d_buffer) \in Chunk
      /\ Deflated(d_buffer).bytes = d_buffer
      /\ d_chunks' = Append(d_chunks, Deflated(d_buffer))
  BY DeflatedType DEF WriterInv, DzInv, DzTypeOK, AddChunk
<1>2. /\ Len(d_buffer) <= ChunkLen
      /\ \A i \in 1..Len(d_chunks) : Len(d_chunks[i].bytes) = ChunkLen
  BY DEF WriterInv, DzInv, PutArea
<1> DEFINE chunk == Deflated(d_buffer)
<1> HIDE DEF chunk
<1>3. Len(d_chunks') = Len(d_chunks) + 1 /\ Len(d_chunks) \in Nat
  BY <1>1 DEF chunk
<1>4. \A i \in 1..Len(d_chunks) : d_chunks'[i] = d_chunks[i]
  BY <1>1 DEF chunk
<1>5. d_chunks'[Len(d_chunks) + 1].bytes = d_buffer
  BY <1>1 DEF chunk
<1>6. ChunkLen \in Nat
  BY DzAssumption
<1> QED
  BY <1>2, <1>3, <1>4, <1>5, <1>6 DEF ChunksFull

\* Steps of the writer that leave the archive alone.
LEMMA FileUntouched ==
  ASSUME FileInv, UNCHANGED <<dz, o_good, d_chunks, d_dzStream, dzFile, indexExists>>,
         written' = written
  PROVE  FileInv'
BY DEF FileInv, ChunksFull

LEMMA WriteKeepsFile ==
  ASSUME WriterInv, FileInv, Next, WriterInv'
  PROVE  FileInv'
<1>1. CASE \E c \in Caller, n \in Name, d \in Data : Call(c, n, d)
  BY <1>1, FileUntouched DEF Call, dzVars
<1>2. ASSUME NEW c \in Caller, Lock(c) \/ PutData(c) \/ AddOffset(c) PROVE FileInv'
  BY <1>2, FileUntouched DEF Lock, PutData, AddOffset, dzVars
<1>3. ASSUME NEW c \in Caller, WriteIndex(c) PROVE FileInv'
  <2>1. /\ UNCHANGED <<dz, o_good, d_chunks, d_dzStream, dzFile, indexExists>>
        /\ \E e \in Entry : e.accepted = o_good /\ written' = Append(written, e)
    <3> DEFINE e == [name |-> warg[c].name, data |-> warg[c].data,
                     offset |-> d_offset, accepted |-> o_good]
    <3>1. warg[c] \in Argument /\ d_offset \in Nat /\ o_good \in BOOLEAN
      BY <1>3 DEF WriteIndex, WriterInv, WriterTypes, DzInv, DzTypeOK
    <3>2. e \in Entry /\ e.accepted = o_good
      BY <3>1 DEF Argument, Entry
    <3> QED
      BY <1>3, <3>2 DEF WriteIndex, dzVars
  <2>2. \A i \in 1..Len(written') : written'[i].accepted
    <3>1. PICK e \in Entry : e.accepted = o_good /\ written' = Append(written, e)
      BY <2>1
    <3>2. written \in Seq(Entry) /\ o_good /\ \A i \in 1..Len(written) : written[i].accepted
      BY DEF WriterInv, WriterTypes, FileInv
    <3>3. /\ Len(written') = Len(written) + 1 /\ Len(written) \in Nat
          /\ written'[Len(written) + 1] = e
          /\ \A i \in 1..Len(written) : written'[i] = written[i]
      BY <3>1, <3>2
    <3>4. e.accepted
      BY <3>1, <3>2
    <3> QED
      BY <3>2, <3>3, <3>4
  <2>3. ChunksFull'
    BY <2>1 DEF FileInv, ChunksFull
  <2> QED
    BY <2>1, <2>2, <2>3 DEF FileInv
<1>4. CASE CopyData
  <2>1. /\ dz = "open" /\ UNCHANGED <<dz, o_good, d_dzStream, dzFile, indexExists, written>>
        /\ (d_chunks' = d_chunks \/ AddChunk)
    BY <1>4 DEF CopyData, XsputnStep, XsputnCopy, XsputnFlush, XsputnUnopened, FlushBuffer,
                writerVars, FileInv
  <2>2. ChunksFull'
    BY <2>1, ChunksStayFull DEF FileInv, ChunksFull
  <2> QED
    BY <2>1, <2>2 DEF FileInv
<1>5. CASE Destroy
  <2>1. CloseFlush /\ UNCHANGED writerVars
    BY <1>5 DEF Destroy, BeginClose, CloseUnopened, FileInv
  <2>2. /\ dz = "open" /\ dz' = "header"
        /\ UNCHANGED <<o_good, d_dzStream, dzFile, indexExists, written>>
        /\ (d_chunks' = d_chunks \/ AddChunk)
    BY <2>1 DEF CloseFlush, FlushBuffer, writerVars
  <2>3. ChunksFull'
    BY <2>2, ChunksStayFull DEF FileInv, ChunksFull
  <2> QED
    BY <2>2, <2>3 DEF FileInv
<1>6. CASE FinishDestroy
  <2>1. /\ UNCHANGED <<o_good, d_chunks, indexExists, written>>
        /\ d_dzStream \in DzFileType
    BY <1>6 DEF FinishDestroy, CloseStep, WriteHeader, WriteChunkInfo, WriteZData,
                WriteTrailer, Fclose, writerVars, WriterInv, DzInv, DzTypeOK
  <2>2. /\ d_dzStream'.exists = d_dzStream.exists
        /\ dzFile' \in {dzFile, d_dzStream}
        /\ dz' \in {"table", "zdata", "trailer", "fclose", "closed"}
    BY <1>6, <2>1 DEF FinishDestroy, CloseStep, WriteHeader, WriteChunkInfo, WriteZData,
                WriteTrailer, Fclose, DzFileType
  <2> QED
    BY <2>1, <2>2 DEF FileInv, ChunksFull
<1>7. CASE Crash
  <2>1. /\ dz' = "dead" /\ dzFile' \in Begun(d_dzStream)
        /\ UNCHANGED <<o_good, d_chunks, d_dzStream, indexExists, written>>
    BY <1>7 DEF Crash, CrashStream, writerVars
  <2>2. dzFile'.exists = d_dzStream.exists
    BY <2>1, BegunParts DEF WriterInv, DzInv, DzTypeOK
  <2> QED
    BY <2>1, <2>2 DEF FileInv, ChunksFull
<1> QED
  BY <1>1, <1>2, <1>3, <1>4, <1>5, <1>6, <1>7 DEF Next, WriteEntry

LEMMA SequenceOf ==
  ASSUME NEW S, NEW T, NEW s \in Seq(S), \A i \in 1..Len(s) : s[i] \in T
  PROVE  s \in Seq(T)
OBVIOUS

\* As the table is written its length goes with its count, even where both wrap.
LEMMA TableFields ==
  ASSUME NEW n \in Nat
  PROVE  /\ n % FieldMod \in Nat /\ (10 + 2 * n) % FieldMod \in Nat
         /\ (10 + 2 * n) % FieldMod <= 10 + 2 * (n % FieldMod)
         /\ 2 * (n % FieldMod) <= IntMod
<1> DEFINE q == n \div FieldMod
           r == n % FieldMod
           b == 10 + 2 * r
           u == b \div FieldMod
           v == b % FieldMod
<1>1. FieldMod \in Nat \ {0} /\ IntMod \in Nat /\ 2 * FieldMod <= IntMod
  BY DzAssumption, CorpusAssumption
<1>2. q \in Nat /\ r \in Nat /\ n = FieldMod * q + r /\ r < FieldMod
  BY <1>1, Division
<1> HIDE DEF q, r
<1>3. u \in Nat /\ v \in Nat /\ b = FieldMod * u + v /\ v < FieldMod
  <2>1. b \in Nat
    BY <1>2
  <2> HIDE DEF b
  <2> QED
    BY <1>1, <2>1, Division
<1>4. v <= b
  <2>1. FieldMod * u \in Nat
    BY <1>1, <1>3
  <2> HIDE DEF b, u, v
  <2> QED
    BY <1>3, <2>1
<1>5. 10 + 2 * n = FieldMod * (2 * q + u) + v
  <2>1. \A x, y, z \in Nat : 2 * (x * y) + x * z = x * (2 * y + z)
    OBVIOUS
  <2>2. 2 * (FieldMod * q) + FieldMod * u = FieldMod * (2 * q + u)
    BY <1>1, <1>2, <1>3, <2>1
  <2>3. FieldMod * q \in Nat /\ FieldMod * u \in Nat
    BY <1>1, <1>2, <1>3
  <2> DEFINE x == FieldMod * q
             y == FieldMod * u
  <2>4. 10 + 2 * r = y + v
    BY <1>3
  <2>5. n = x + r
    BY <1>2
  <2>6. x \in Nat /\ y \in Nat /\ r \in Nat /\ v \in Nat /\ n \in Nat
    BY <1>2, <1>3, <2>3
  <2>7. 10 + 2 * n = (2 * x + y) + v
    <3> HIDE DEF x, y, v
    <3> QED
      BY <2>4, <2>5, <2>6
  <2> QED
    BY <2>2, <2>7
<1>6. 2 * q + u \in Nat
  BY <1>2, <1>3
<1>7. (10 + 2 * n) % FieldMod = v
  <2> DEFINE k == 2 * q + u
  <2>1. k \in Nat /\ 10 + 2 * n = FieldMod * k + v
    BY <1>5, <1>6
  <2> HIDE DEF k, v
  <2> QED
    BY <1>1, <1>3, <2>1, Quotient
<1>8. 2 * r <= IntMod
  BY <1>1, <1>2
<1> HIDE DEF b, v
<1> QED
  BY <1>2, <1>3, <1>4, <1>7, <1>8 DEF b, r

\* The two files a writer leaves behind are files that the reader's theorems are
\* about.
LEMMA FilesThere ==
  ASSUME WriterInv, LinesLogged, FileInv, dz \in {"closed", "dead"}, Addressable
  PROVE  R!AnyFiles
<1>1. dzFile \in DzFileType /\ indexExists /\ Len(d_chunks) \in Nat
  BY DEF WriterInv, DzInv, DzTypeOK, FileInv
<1>2. /\ Len(dzFile.blocks) <= Len(d_chunks)
      /\ \A i \in 1..Len(dzFile.blocks) : dzFile.blocks[i] = d_chunks[i]
  BY FileParts
<1>3. \A i \in 1..Len(dzFile.blocks) :
        /\ Len(dzFile.blocks[i].bytes) <= ChunkLen
        /\ i < Len(dzFile.blocks) => Len(dzFile.blocks[i].bytes) = ChunkLen
  <2>1. Len(dzFile.blocks) \in Nat
    BY <1>1 DEF DzFileType
  <2> QED
    BY <1>1, <1>2, <2>1 DEF FileInv, ChunksFull
<1>4. dzFile \in R!ArchiveFile
  <2>1. dzFile.xlen <= 10 + 2 * dzFile.count /\ 2 * dzFile.count <= IntMod
    <3>1. CASE dzFile.xlen = 0 /\ dzFile.count = 0
      BY <3>1, CorpusAssumption, DzAssumption
    <3>2. CASE dzFile.xlen = TableLength /\ dzFile.count = Len(d_chunks) % FieldMod
      BY <1>1, <3>2, TableFields DEF TableLength
    <3> QED
      BY <3>1, <3>2, FileParts
  <2> QED
    BY <1>1, <1>3, <2>1 DEF R!ArchiveFile, R!NoTable, NoSizes, DzFileType, Chunk
<1>5. indexFile \in Seq([name : Name, offset : Seq(Int), size : Seq(Int)])
  <2>1. indexFile \in Seq(IndexLine) /\ Len(indexFile) = Len(written)
    BY <1>1 DEF WriterInv, WriterTypes, LinesLogged
  <2>2. \A i \in 1..Len(indexFile) :
          indexFile[i] \in [name : Name, offset : Seq(Int), size : Seq(Int)]
    BY <1>1, <2>1, LogDecodes
  <2> QED
    BY <2>1, <2>2, SequenceOf
<1> QED
  BY <1>1, <1>4, <1>5 DEF R!AnyFiles

----------------------------------------------------------------------------
LEMMA CorpusInitHolds ==
  ASSUME CorpusInit
  PROVE  CorpusInv
<1>1. /\ Init /\ dz = "open" /\ indexExists /\ R!ReaderInit
  BY SameReader DEF CorpusInit
<1>2. WriterInv /\ LinesLogged
  BY <1>1, WriterInitHolds DEF Init, LinesLogged
<1>3. FileInv
  <2>1. /\ d_chunks = <<>> /\ written = <<>> /\ o_good = TRUE
        /\ dzFile.exists = TRUE /\ d_dzStream.exists = TRUE
    BY <1>1 DEF Init, DzInit, Truncated
  <2> QED
    BY <1>1, <2>1 DEF FileInv, ChunksFull
<1>4. rd = "new"
  BY <1>1 DEF R!ReaderInit
<1> QED
  BY <1>1, <1>2, <1>3, <1>4 DEF CorpusInv

LEMMA WriterActs ==
  ASSUME Write \/ WriterEnds
  PROVE  dz \notin {"closed", "dead"}
BY DEF WriterEnds, Crash, CrashStream, Write, Call, WriteEntry, Lock, PutData, WriteIndex,
       AddOffset, CopyData, XsputnStep, XsputnCopy, XsputnFlush, XsputnUnopened, Destroy,
       BeginClose, CloseFlush, CloseUnopened, FinishDestroy, CloseStep, WriteHeader,
       WriteChunkInfo, WriteZData, WriteTrailer, Fclose

\* The writer is at work only as long as nobody has opened the corpus.
LEMMA WriterFirst ==
  ASSUME CorpusInv, Write \/ WriterEnds
  PROVE  /\ rd = "new" /\ Next /\ UNCHANGED readerOnly
         /\ dz' = "dead" => dz \in CrashIn /\ dzFile' \in Begun(d_dzStream)
<1>1. CASE WriterEnds
  BY <1>1 DEF WriterEnds, Crash, CrashStream, CorpusInv, Next
<1>2. CASE Write
  <2>1. dz \notin {"closed", "dead"}
    BY <1>2, WriterActs
  <2>2. dz' # "dead"
    BY <1>2, <2>1 DEF Write, Call, WriteEntry, Lock, PutData, WriteIndex, AddOffset, CopyData,
                XsputnStep, XsputnCopy, XsputnFlush, XsputnUnopened, Destroy, BeginClose,
                CloseFlush, CloseUnopened, FinishDestroy, CloseStep, WriteHeader,
                WriteChunkInfo, WriteZData, WriteTrailer, Fclose, dzVars
  <2> QED
    BY <1>2, <2>1, <2>2 DEF Write, CorpusInv, Next
<1> QED
  BY <1>1, <1>2

LEMMA WriteKeepsCorpus ==
  ASSUME CorpusInv, Write \/ WriterEnds
  PROVE  CorpusInv'
<1>1. rd = "new" /\ Next /\ UNCHANGED readerOnly
  BY WriterFirst
<1>2. WriterInv' /\ LinesLogged'
  BY <1>1, WriterNextKeeps, LogKept DEF CorpusInv
<1>3. FileInv'
  BY <1>1, <1>2, WriteKeepsFile DEF CorpusInv
<1>4. rd' = "new" /\ R!ReaderInit'
  BY <1>1 DEF CorpusInv, readerOnly, R!ReaderInit, R!StreamInit
<1> QED
  BY <1>2, <1>3, <1>4 DEF CorpusInv

\* What the reader does leaves the writer and the files as they are.
LEMMA WriterOver ==
  ASSUME CorpusInv, UNCHANGED writerOnly, UNCHANGED <<dzFile, indexExists, indexFile>>
  PROVE  /\ WriterInv' /\ LinesLogged' /\ FileInv' /\ (Addressable' <=> Addressable)
         /\ dz' = dz
<1>1. UNCHANGED vars
  BY DEF writerOnly, vars, dzVars, writerVars
<1>2. WriterInv' /\ LinesLogged'
  BY <1>1, WriterNextKeeps, LogKept DEF CorpusInv
<1>3. FileInv'
  BY FileUntouched DEF CorpusInv, writerOnly
<1>4. Addressable' <=> Addressable
  BY DEF Addressable, writerOnly
<1> QED
  BY <1>2, <1>3, <1>4 DEF writerOnly

LEMMA OpenKeepsCorpus ==
  ASSUME CorpusInv, OpenCorpus
  PROVE  CorpusInv' /\ rd = "new" /\ rd' # "new"
<1>1. /\ dz \in {"closed", "dead"} /\ R!Open /\ UNCHANGED writerOnly
  BY SameReader DEF OpenCorpus
<1>2. rd = "new" /\ rd' # "new" /\ UNCHANGED <<dzFile, indexExists, indexFile>>
  BY <1>1 DEF R!Open, R!OpenFails, R!fileVars
<1>3. WriterInv' /\ LinesLogged' /\ FileInv' /\ (Addressable' <=> Addressable) /\ dz' = dz
  BY <1>1, <1>2, WriterOver
<1>4. ASSUME Addressable PROVE R!ReaderFacts'
  <2>1. R!ReaderInit /\ R!AnyFiles
    BY <1>1, <1>2, <1>4, FilesThere DEF CorpusInv
  <2>2. R!ReaderFacts
    BY <2>1, ReaderConstants, R!FactsAtInit
  <2>3. R!ReaderNext
    BY <1>1 DEF R!ReaderNext
  <2> QED
    BY <2>2, <2>3, ReaderConstants, R!FactsKept
<1> QED
  BY <1>1, <1>2, <1>3, <1>4 DEF CorpusInv

LEMMA ReadLeavesFiles ==
  ASSUME Read
  PROVE  /\ rd = "open" /\ rd' # "new"
         /\ UNCHANGED <<dzFile, indexExists, indexFile>>
<1>1. \A t \in Thread, n \in Name : R!Call(t, n) =>
        rd = "open" /\ rd' = "open" /\ UNCHANGED <<dzFile, indexExists, indexFile>>
  BY DEF R!Call, R!fileVars
<1>2. ASSUME NEW t \in Thread, R!ReadEntry(t)
      PROVE  rd = "open" /\ rd' # "new" /\ UNCHANGED <<dzFile, indexExists, indexFile>>
  BY <1>2, R!StreamSteps, ReaderConstants
     DEF R!ReadEntry, R!Lock, R!StartRead, R!Return, R!fileVars
<1> QED
  BY <1>1, <1>2, SameReader DEF Read

LEMMA ReadKeepsCorpus ==
  ASSUME CorpusInv, Read
  PROVE  CorpusInv' /\ rd # "new" /\ rd' # "new" /\ R!ReaderNext
<1>1. R!ReaderNext /\ UNCHANGED writerOnly
  BY SameReader DEF Read, R!ReaderNext
<1>2. /\ rd = "open" /\ rd' # "new" /\ UNCHANGED <<dzFile, indexExists, indexFile>>
  BY ReadLeavesFiles
<1>3. WriterInv' /\ LinesLogged' /\ FileInv' /\ (Addressable' <=> Addressable) /\ dz' = dz
  BY <1>1, <1>2, WriterOver
<1>4. ASSUME Addressable PROVE R!ReaderFacts'
  BY <1>1, <1>2, <1>4, ReaderConstants, R!FactsKept DEF CorpusInv
<1> QED
  BY <1>1, <1>2, <1>3, <1>4 DEF CorpusInv

LEMMA CorpusKept ==
  ASSUME CorpusInv, [CorpusNext]_corpusVars
  PROVE  CorpusInv'
<1>1. CASE Write \/ WriterEnds
  BY <1>1, WriteKeepsCorpus
<1>2. CASE OpenCorpus
  BY <1>2, OpenKeepsCorpus
<1>3. CASE Read
  BY <1>3, ReadKeepsCorpus
<1>4. CASE UNCHANGED corpusVars
  <2>1. UNCHANGED writerOnly /\ UNCHANGED <<dzFile, indexExists, indexFile>> /\ UNCHANGED readerOnly
    BY <1>4 DEF corpusVars, vars, dzVars, writerVars, writerOnly
  <2>2. WriterInv' /\ LinesLogged' /\ FileInv' /\ (Addressable' <=> Addressable) /\ dz' = dz
    BY <2>1, WriterOver
  <2>3. UNCHANGED R!vars
    BY <2>1 DEF readerOnly, R!vars, R!fileVars, R!streamVars, R!threadVars
  <2>4. rd' = rd /\ (R!ReaderInit => R!ReaderInit')
    BY <2>1 DEF readerOnly, R!ReaderInit, R!StreamInit
  <2>5. R!ReaderFacts => R!ReaderFacts'
    BY <2>3, ReaderConstants, R!FactsKept
  <2> QED
    BY <2>2, <2>4, <2>5 DEF CorpusInv
<1> QED
  BY <1>1, <1>2, <1>3, <1>4 DEF CorpusNext

----------------------------------------------------------------------------
(* What a reader gets.                                                     *)

\* The archives that the code reads back as they were written: the fields of the
\* table hold its numbers, each chunk could be compressed and begins with another
\* byte than the one taken for the end of the file, and no empty entry lies
\* behind the last chunk.
Faithful ==
  /\ 10 + 2 * Len(d_chunks) < FieldMod
  /\ \A i \in 1..Len(d_chunks) :
       /\ ~d_chunks[i].cut
       /\ d_chunks[i].bytes # <<>> => d_chunks[i].bytes[1] # EofByte
  /\ \A i \in 1..Len(written) :
       written[i].data = <<>> => written[i].offset \div ChunkLen < Len(d_chunks)

\* The table and the chunks got to the disk, all of them.
AllOnDisk == dzFile.table = Len(d_chunks) /\ dzFile.blocks = d_chunks

\* What the reader of a finished archive relies on.
Healthy == Addressable /\ (rd = "open" /\ Finished => Faithful)

LEMMA WrittenTypes ==
  ASSUME WriterInv
  PROVE  /\ Len(written) \in Nat
         /\ \A i \in 1..Len(written) :
              /\ written[i].name \in Name /\ written[i].offset \in Nat
              /\ written[i].data \in Seq(Byte) /\ Len(written[i].data) \in Nat
<1>1. written \in Seq(Entry)
  BY DEF WriterInv, WriterTypes
<1>2. \A e \in Entry : e.name \in Name /\ e.offset \in Nat /\ e.data \in Data
  BY DEF Entry
<1>3. \A i \in 1..Len(written) : written[i] \in Entry
  BY <1>1
<1> QED
  BY <1>1, <1>2, <1>3, WriterAssumption

\* The bytes of every entry are at its offset, in a chunk or in the put area.
LEMMA EntryBytes ==
  ASSUME WriterInv, FileInv, NEW i \in 1..Len(written), NEW k \in 1..Len(written[i].data)
  PROVE  /\ written[i].offset + k - 1 \in Nat
         /\ InStream(written[i].offset + k - 1, written[i].data[k])
<1>1. written[i] \in Entry /\ written[i].accepted
  BY DEF WriterInv, WriterTypes, FileInv
<1>2. written[i].offset \in Nat
  BY <1>1 DEF Entry
<1>3. EntriesStored
  BY InvStored
<1> QED
  BY <1>1, <1>2, <1>3 DEF EntriesStored

\* Who could open the archive found it closed or cut off, but with a header.
LEMMA OpenedArchive ==
  ASSUME CorpusInv, rd = "open", Addressable
  PROVE  /\ dz \in {"closed", "dead"} /\ R!ReaderFacts
         /\ d_buffer = <<>>
         /\ r_table = IF dzFile.xlen = 0 THEN R!NoTable ELSE dzFile.count
<1>1. dz \in {"closed", "dead"} /\ R!ReaderFacts
  BY DEF CorpusInv
<1>2. /\ dzFile.header
      /\ r_table = IF dzFile.xlen = 0 THEN R!NoTable ELSE dzFile.count
  BY <1>1 DEF R!ReaderFacts, R!Opened
<1>3. d_buffer = <<>>
  BY <1>1, <1>2, FileParts DEF CorpusInv
<1> QED
  BY <1>1, <1>2, <1>3

\* Of a writer that finished, all of the archive is on disk.
LEMMA FinishedIsOnDisk ==
  ASSUME CorpusInv, Finished
  PROVE  AllOnDisk
<1>1. dz = "closed" /\ dzFile = d_dzStream /\ dzFile.exists
  BY DEF Finished, CorpusInv, FileInv, WriterInv, DzInv, FileFollows, ArchiveFollows
<1>2. /\ dzFile.table # NoSizes /\ Len(dzFile.blocks) = Len(d_chunks)
      /\ dzFile.table = Len(d_chunks)
      /\ \A i \in 1..Len(dzFile.blocks) : dzFile.blocks[i] = d_chunks[i]
  BY <1>1 DEF CorpusInv, WriterInv, DzInv, ArchiveFollows, Whole, Agrees
<1>3. dzFile.blocks \in Seq(Chunk) /\ d_chunks \in Seq(Chunk)
  BY DEF CorpusInv, WriterInv, DzInv, DzTypeOK, DzFileType
<1> QED
  BY <1>2, <1>3 DEF AllOnDisk

LEMMA ArchiveThere ==
  ASSUME CorpusInv, rd = "open", Healthy, Finished
  PROVE  /\ AllOnDisk /\ d_buffer = <<>> /\ R!ReaderFacts
         /\ r_table = Len(d_chunks) /\ dzFile.count = dzFile.table
<1>1. /\ dz \in {"closed", "dead"} /\ R!ReaderFacts /\ d_buffer = <<>>
      /\ r_table = IF dzFile.xlen = 0 THEN R!NoTable ELSE dzFile.count
  BY OpenedArchive DEF Healthy
<1>2. AllOnDisk
  BY FinishedIsOnDisk
<1>3. dzFile.xlen = TableLength /\ dzFile.count = Len(d_chunks) % FieldMod
  <2>1. dzFile.table # NoSizes
    BY <1>2 DEF AllOnDisk, NoSizes, CorpusInv, WriterInv, DzInv, DzTypeOK
  <2> QED
    BY <1>1, <2>1, FileParts DEF CorpusInv
<1>4. Len(d_chunks) \in Nat /\ 10 + 2 * Len(d_chunks) < FieldMod /\ FieldMod \in Nat \ {0}
  BY DzAssumption DEF CorpusInv, WriterInv, DzInv, DzTypeOK, Healthy, Faithful
<1>5. /\ (10 + 2 * Len(d_chunks)) % FieldMod = 10 + 2 * Len(d_chunks)
      /\ Len(d_chunks) % FieldMod = Len(d_chunks)
  <2>1. ASSUME NEW n \in Nat, 10 + 2 * n < FieldMod
        PROVE  /\ (10 + 2 * n) % FieldMod = 10 + 2 * n
               /\ n % FieldMod = n
    <3>1. \A x \in Nat : x < FieldMod => x % FieldMod = x
      BY <1>4, QuotientOfLess
    <3>2. n < FieldMod /\ 10 + 2 * n \in Nat
      BY <1>4, <2>1
    <3> QED
      BY <2>1, <3>1, <3>2
  <2> QED
    BY <1>4, <2>1
<1>6. dzFile.xlen # 0 /\ dzFile.count = Len(d_chunks)
  BY <1>3, <1>4, <1>5 DEF TableLength
<1> QED
  BY <1>1, <1>2, <1>6 DEF AllOnDisk

\* The items of the open corpus are the entries that were written.
LEMMA IndexThere ==
  ASSUME CorpusInv, rd = "open", Addressable
  PROVE  /\ d_indices \in Seq(R!IndexItem) /\ Len(d_indices) = Len(written)
         /\ \A i \in 1..Len(written) :
              /\ d_indices[i].name = written[i].name
              /\ d_indices[i].offset = written[i].offset
              /\ d_indices[i].size = Len(written[i].data)
<1>1. R!ReaderFacts /\ indexExists /\ WriterInv /\ LinesLogged /\ Addressable
  BY OpenedArchive DEF CorpusInv, FileInv
<1>2. d_indices = R!Items /\ d_indices \in Seq(R!IndexItem)
  BY <1>1 DEF R!ReaderFacts, R!Opened, R!ReaderInv, R!ReaderTypes
<1>3. indexFile \in Seq(IndexLine) /\ Len(indexFile) = Len(written)
  BY <1>1 DEF LinesLogged, WriterInv, WriterTypes
<1>4. \A i \in 1..Len(written) :
        /\ indexFile[i].name = written[i].name
        /\ R!Decode(indexFile[i].offset) = written[i].offset
        /\ R!Decode(indexFile[i].size) = Len(written[i].data)
  BY <1>1, LogDecodes, SameNumbers
<1>5. d_indices = [i \in 1..Len(written) |->
                     [name   |-> indexFile[i].name,
                      offset |-> R!Decode(indexFile[i].offset),
                      size   |-> R!Decode(indexFile[i].size)]]
  BY <1>2, <1>3 DEF R!Items
<1>6. Len(d_indices) = Len(written)
  <2>1. Len(written) \in Nat
    BY <1>1 DEF WriterInv, WriterTypes
  <2> QED
    BY <1>5, <2>1
<1> QED
  BY <1>2, <1>4, <1>5, <1>6

\* Where the reader looks for a byte of an entry, that byte was written.
LEMMA ByteWritten ==
  ASSUME CorpusInv, rd = "open", Addressable,
         NEW i \in 1..Len(written), NEW k \in 1..Len(written[i].data)
  PROVE  LET p == written[i].offset + k - 1
         IN  /\ StoredAt(d_chunks, p, written[i].data[k])
             /\ p \div ChunkLen \in Nat /\ p \div ChunkLen < Len(d_chunks)
<1> DEFINE p == written[i].offset + k - 1
<1>1. p \in Nat /\ InStream(p, written[i].data[k])
  BY EntryBytes DEF CorpusInv
<1>2. d_buffer = <<>> /\ d_size \in Nat
  BY OpenedArchive DEF CorpusInv, WriterInv, DzInv, DzTypeOK
<1>3. p \div ChunkLen \in Nat
  BY <1>1, DivModType
<1> HIDE DEF p
<1>4. StoredAt(d_chunks, p, written[i].data[k])
  BY <1>1, <1>2 DEF InStream
<1>5. p \div ChunkLen < Len(d_chunks)
  BY <1>4 DEF StoredAt, Stored
<1> QED
  BY <1>3, <1>4, <1>5 DEF p

\* And there it is, if all is on disk.
LEMMA ByteThere ==
  ASSUME CorpusInv, rd = "open", Healthy, Finished,
         NEW i \in 1..Len(written), NEW k \in 1..Len(written[i].data)
  PROVE  LET p == written[i].offset + k - 1
         IN  /\ R!HasByte(p) /\ R!EntryByte(p) = written[i].data[k]
             /\ p \div ChunkLen \in Nat /\ p \div ChunkLen < Len(d_chunks)
<1> DEFINE p == written[i].offset + k - 1
<1>1. /\ StoredAt(d_chunks, p, written[i].data[k])
      /\ p \div ChunkLen \in Nat /\ p \div ChunkLen < Len(d_chunks)
  BY ByteWritten DEF Healthy
<1>2. AllOnDisk
  BY FinishedIsOnDisk
<1> HIDE DEF p
<1>3. R!HasByte(p) /\ R!EntryByte(p) = written[i].data[k]
  BY <1>1, <1>2 DEF StoredAt, Stored, R!HasByte, R!EntryByte, AllOnDisk
<1> QED
  BY <1>1, <1>3 DEF p

LEMMA CorpusSound ==
  ASSUME CorpusInv, rd = "open", Healthy, Finished
  PROVE  R!Sound
<1>1. /\ dzFile.blocks = d_chunks /\ r_table = Len(d_chunks) /\ dzFile.count = dzFile.table
  BY ArchiveThere DEF AllOnDisk
<1>2. d_chunks \in Seq(Chunk) /\ \A i \in 1..Len(d_chunks) : ~d_chunks[i].cut
  BY DEF CorpusInv, WriterInv, DzInv, DzTypeOK, Healthy, Faithful
<1>3. ASSUME NEW n \in Nat, n < Len(d_chunks)
      PROVE  R!Readable(n) /\ ~dzFile.blocks[n + 1].cut
  <2>1. n + 1 \in 1..Len(d_chunks) /\ (n > 0 => n \in 1..Len(d_chunks))
    BY <1>2, <1>3
  <2> QED
    BY <1>1, <1>2, <1>3, <2>1 DEF R!Readable, R!InTable, R!OnDisk, R!Decodes
<1>4. ASSUME NEW i \in 1..Len(d_indices)
      PROVE  /\ R!Intact(d_indices[i])
             /\ d_indices[i].size = 0 => R!Readable(d_indices[i].offset \div ChunkLen)
  <2> DEFINE w == written[i]
  <2>0. /\ Len(d_indices) = Len(written)
        /\ \A j \in 1..Len(written) :
             /\ d_indices[j].name = written[j].name
             /\ d_indices[j].offset = written[j].offset
             /\ d_indices[j].size = Len(written[j].data)
    BY IndexThere DEF Healthy
  <2>1. i \in 1..Len(written) /\ d_indices[i].offset = w.offset /\ d_indices[i].size = Len(w.data)
    BY <2>0
  <2>2. w.offset \in Nat /\ w.data \in Seq(Byte)
    BY <2>1, WrittenTypes DEF CorpusInv
  <2>3. ASSUME NEW k \in 1..Len(w.data)
        PROVE  LET n == (w.offset + k - 1) \div ChunkLen
               IN  /\ n < r_table /\ R!HasByte(w.offset + k - 1) /\ R!Decodes(n)
                   /\ ~dzFile.blocks[n + 1].cut
    <3> DEFINE p == w.offset + k - 1
    <3>1. R!HasByte(p) /\ p \div ChunkLen \in Nat /\ p \div ChunkLen < Len(d_chunks)
      BY <2>1, <2>3, ByteThere
    <3> HIDE DEF p
    <3>2. R!Readable(p \div ChunkLen) /\ ~dzFile.blocks[(p \div ChunkLen) + 1].cut
      BY <1>3, <3>1
    <3> QED
      BY <1>1, <3>1, <3>2 DEF R!Readable, p
  <2>4. w.data = <<>> => R!Readable(w.offset \div ChunkLen)
    <3>1. w.offset \div ChunkLen \in Nat
      BY <2>2, DivModType
    <3>2. w.data = <<>> => w.offset \div ChunkLen < Len(d_chunks)
      BY <2>1 DEF Healthy, Faithful
    <3> QED
      BY <1>3, <3>1, <3>2
  <2>5. Len(w.data) = 0 => w.data = <<>>
    BY <2>2
  <2> HIDE DEF w
  <2> QED
    BY <2>1, <2>3, <2>4, <2>5 DEF R!Intact
<1>5. R!NoEofHead
  BY <1>1 DEF R!NoEofHead, Healthy, Faithful
<1> QED
  BY <1>4, <1>5 DEF R!Sound, R!EmptyEntriesInside

\* The item of a name is that of the last entry with the name.
LEMMA ItemIsLatest ==
  ASSUME CorpusInv, rd = "open", Addressable, NEW n, R!Known(n)
  PROVE  \E i \in 1..Len(written) :
           /\ IsLatest(i, n)
           /\ R!Item(n).offset = written[i].offset
           /\ R!Item(n).size = Len(written[i].data)
<1>1. /\ d_indices \in Seq(R!IndexItem) /\ Len(d_indices) = Len(written)
      /\ \A i \in 1..Len(written) :
           /\ d_indices[i].name = written[i].name
           /\ d_indices[i].offset = written[i].offset
           /\ d_indices[i].size = Len(written[i].data)
  BY IndexThere
<1>2. PICK i \in 1..Len(d_indices) :
        /\ R!Item(n) = d_indices[i] /\ d_indices[i].name = n
        /\ \A j \in (i + 1)..Len(d_indices) : d_indices[j].name # n
  BY <1>1, ReaderConstants, R!ItemOfName
<1>3. i \in 1..Len(written) /\ i \in Nat /\ Len(written) \in Nat
  BY <1>1, <1>2, WrittenTypes DEF CorpusInv
<1>4. \A j \in 1..Len(written) : d_indices[j].name = written[j].name
  BY <1>1
<1>5. IsLatest(i, n)
  BY <1>1, <1>2, <1>3, <1>4 DEF IsLatest
<1> QED
  BY <1>1, <1>2, <1>3, <1>5

\* The last entry of a name is the answer to it.
LEMMA AnswerIsEntry ==
  ASSUME CorpusInv, rd = "open", Healthy, Finished, NEW t \in Thread,
         R!Known(rname[t]), R!Returned(t)
  PROVE  \E i \in 1..Len(written) :
           IsLatest(i, rname[t]) /\ answer[t] = written[i].data
<1>1. PICK i \in 1..Len(written) :
        /\ IsLatest(i, rname[t])
        /\ R!Item(rname[t]).offset = written[i].offset
        /\ R!Item(rname[t]).size = Len(written[i].data)
  BY ItemIsLatest DEF Healthy
<1> DEFINE w == written[i]
<1>2. w.data \in Seq(Byte)
  BY <1>1, WrittenTypes DEF CorpusInv
<1>3. answer[t] = [k \in 1..Len(w.data) |-> R!EntryByte(w.offset + k - 1)]
  BY <1>1 DEF R!Returned
<1>4. \A k \in 1..Len(w.data) : R!EntryByte(w.offset + k - 1) = w.data[k]
  BY <1>1, ByteThere
<1>5. answer[t] = w.data
  <2> HIDE DEF w
  <2> QED
    BY <1>2, <1>3, <1>4
<1> QED
  BY <1>1, <1>5

LEMMA CorpusAlways == CorpusSpec => []CorpusInv
<1>1. CorpusInit => CorpusInv
  BY CorpusInitHolds
<1>2. CorpusInv /\ [CorpusNext]_corpusVars => CorpusInv'
  BY CorpusKept
<1> QED
  BY <1>1, <1>2, PTL DEF CorpusSpec

\* The destructor goes from the header to the return of fclose without the end of
\* the process.
EndsWhole == CrashIn \cap {"table", "zdata", "trailer", "fclose"} = {}

\* What is on disk then: an archive without a header, or all of it.
WholeInv ==
  /\ CorpusInv
  /\ dz = "dead" => ~dzFile.header
  /\ rd = "open" => dzFile.header

LEMMA WholeKept ==
  ASSUME EndsWhole, WholeInv, [CorpusNext]_corpusVars
  PROVE  WholeInv'
<1>1. CorpusInv /\ CorpusInv'
  BY CorpusKept DEF WholeInv
<1>2. CASE Write \/ WriterEnds
  <2>1. /\ rd = "new" /\ rd' = rd
        /\ dz' = "dead" => dz \in CrashIn /\ dzFile' \in Begun(d_dzStream)
        /\ dz \notin {"closed", "dead"}
    BY <1>1, <1>2, WriterFirst, WriterActs DEF readerOnly
  <2>2. dz' = "dead" => ~d_dzStream.header
    BY <1>1, <2>1 DEF EndsWhole, CorpusInv, FileInv, WriterInv, DzInv, DzTypeOK, Phase,
                      ArchiveFollows
  <2>3. dz' = "dead" => ~dzFile'.header
    BY <1>1, <2>1, <2>2, BegunParts DEF CorpusInv, WriterInv, DzInv, DzTypeOK
  <2> QED
    BY <1>1, <2>1, <2>3 DEF WholeInv
<1>3. CASE OpenCorpus
  <2>1. R!Open /\ UNCHANGED writerOnly
    BY <1>3, SameReader DEF OpenCorpus
  <2>2. /\ UNCHANGED <<dz, dzFile>> /\ rd = "new"
        /\ rd' = "open" => dzFile.header
    BY <2>1 DEF R!Open, R!OpenFails, R!HeaderReadable, R!fileVars, writerOnly
  <2> QED
    BY <1>1, <2>2 DEF WholeInv
<1>4. CASE Read
  <2>1. rd = "open" /\ UNCHANGED <<dzFile, dz>>
    BY <1>1, <1>4, ReadLeavesFiles DEF Read, writerOnly
  <2> QED
    BY <1>1, <2>1 DEF WholeInv
<1>5. CASE UNCHANGED corpusVars
  BY <1>1, <1>5 DEF WholeInv, corpusVars, vars, dzVars, readerOnly
<1> QED
  BY <1>2, <1>3, <1>4, <1>5 DEF CorpusNext

\* An archive that was closed has everything, and one whose writing was cut off
\* before fclose cannot be opened if nothing of it had been written yet: so the
\* end of the writing process costs a reader something only where it falls
\* between the header and the return of fclose.
THEOREM WholeSurvives ==
  ASSUME EndsWhole
  PROVE  CorpusSpec => [](rd = "open" => Finished)
<1>1. CorpusInit => WholeInv
  BY CorpusInitHolds, SameReader DEF CorpusInit, WholeInv, R!ReaderInit
<1>2. WholeInv /\ [CorpusNext]_corpusVars => WholeInv'
  BY WholeKept
<1>3. WholeInv => (rd = "open" => Finished)
  BY DEF Finished, WholeInv, CorpusInv
<1> QED
  BY <1>1, <1>2, <1>3, PTL DEF CorpusSpec

\* The chunks are few enough for an int to number them.
FewChunks == 2 * Len(d_chunks) <= IntMod

\* Whatever of the archive is there, an answer is made of the entry's own bytes
\* and zeros.
LEMMA AnswerOwnOrNul ==
  ASSUME CorpusInv, Addressable, FewChunks, NEW t \in Thread, Reader!Answered(t)
  PROVE  \E i \in 1..Len(written) :
           /\ IsLatest(i, rname[t])
           /\ Len(answer[t]) = Len(written[i].data)
           /\ \A k \in 1..Len(answer[t]) : answer[t][k] \in {Nul, written[i].data[k]}
<1> DEFINE item == R!Item(rname[t])
<1>1. rd = "open" /\ answer[t] \notin {NoAnswer, Unknown}
  BY DEF Reader!Answered
<1>2. R!ReaderFacts /\ dz \in {"closed", "dead"}
  BY <1>1, OpenedArchive
<1>3. /\ R!Known(rname[t])
      /\ Len(answer[t]) = item.size
      /\ R!ChunkNumberFits(item.offset) =>
           \A k \in 1..item.size :
             \/ answer[t][k] = Nul
             \/ /\ R!HasByte(item.offset + k - 1)
                /\ answer[t][k] = R!EntryByte(item.offset + k - 1)
  BY <1>1, <1>2 DEF R!ReaderFacts, R!ReaderInv, R!AskedIsKnown, R!OwnOrNul
<1>4. PICK i \in 1..Len(written) :
        /\ IsLatest(i, rname[t])
        /\ item.offset = written[i].offset
        /\ item.size = Len(written[i].data)
  BY <1>1, <1>3, ItemIsLatest
<1> DEFINE w == written[i]
<1> HIDE DEF item
<1>5. w.offset \in Nat /\ Len(w.data) \in Nat /\ Len(d_chunks) \in Nat /\ IntMod \in Nat
  BY <1>4, WrittenTypes, CorpusAssumption DEF CorpusInv, WriterInv, DzInv, DzTypeOK
<1>6. ASSUME NEW k \in 1..Len(w.data)
      PROVE  answer[t][k] \in {Nul, w.data[k]}
  <2> DEFINE p == w.offset + k - 1
  <2>1. /\ StoredAt(d_chunks, p, w.data[k])
        /\ p \div ChunkLen \in Nat /\ p \div ChunkLen < Len(d_chunks)
    BY <1>1, <1>4, ByteWritten
  <2>2. R!ChunkNumberFits(w.offset)
    <3>1. 1 \in 1..Len(w.data) /\ w.offset + 1 - 1 = w.offset
      BY <1>5
    <3>2. /\ (w.offset + 1 - 1) \div ChunkLen \in Nat
          /\ (w.offset + 1 - 1) \div ChunkLen < Len(d_chunks)
      BY <1>1, <1>4, <3>1, ByteWritten
    <3>3. w.offset \div ChunkLen \in Nat /\ w.offset \div ChunkLen < Len(d_chunks)
      BY <3>1, <3>2
    <3> DEFINE c == w.offset \div ChunkLen
    <3>4. 2 * c < IntMod
      <4>1. c \in Nat /\ c < Len(d_chunks) /\ 2 * Len(d_chunks) <= IntMod
        BY <3>3 DEF FewChunks
      <4> HIDE DEF c
      <4> QED
        BY <1>5, <4>1
    <3> QED
      BY <3>4 DEF R!ChunkNumberFits
  <2>3. \/ answer[t][k] = Nul
        \/ R!HasByte(p) /\ answer[t][k] = R!EntryByte(p)
    BY <1>3, <1>4, <2>2
  <2>4. R!HasByte(p) => R!EntryByte(p) = w.data[k]
    <3>1. \A j \in 1..Len(dzFile.blocks) : dzFile.blocks[j] = d_chunks[j]
      BY <1>2, FileParts DEF CorpusInv
    <3>2. Len(dzFile.blocks) \in Nat
      BY DEF CorpusInv, WriterInv, DzInv, DzTypeOK, DzFileType
    <3> DEFINE c == p \div ChunkLen
    <3>3. R!HasByte(p) => c + 1 \in 1..Len(dzFile.blocks)
      <4>1. R!HasByte(p) => c < Len(dzFile.blocks)
        BY DEF R!HasByte
      <4>2. c \in Nat
        BY <2>1
      <4> HIDE DEF c, p
      <4> QED
        BY <3>2, <4>1, <4>2
    <3>4. R!EntryByte(p) = dzFile.blocks[c + 1].bytes[(p % ChunkLen) + 1]
      BY DEF R!EntryByte
    <3>5. d_chunks[c + 1].bytes[(p % ChunkLen) + 1] = w.data[k]
      BY <2>1 DEF StoredAt, Stored
    <3> HIDE DEF c, p
    <3> QED
      BY <3>1, <3>3, <3>4, <3>5
  <2> QED
    BY <2>3, <2>4
<1> QED
  BY <1>3, <1>4, <1>6

\* When all of the archive is there, it is the entry.
LEMMA AnswerIsWhole ==
  ASSUME CorpusInv, Healthy, Finished, NEW t \in Thread, Reader!Answered(t)
  PROVE  \E i \in 1..Len(written) :
           IsLatest(i, rname[t]) /\ answer[t] = written[i].data
<1>1. rd = "open" /\ answer[t] \notin {NoAnswer, Unknown}
  BY DEF Reader!Answered
<1>2. R!ReaderFacts /\ R!Sound
  BY <1>1, ArchiveThere, CorpusSound
<1>3. R!Known(rname[t]) /\ R!Returned(t)
  BY <1>1, <1>2 DEF R!ReaderFacts, R!ReaderInv, R!AskedIsKnown, R!SoundInv
<1> QED
  BY <1>1, <1>3, AnswerIsEntry

\* Whoever wrote and reads, wherever the writing process ended and whatever of the
\* archive it left: a reader gets nothing but the entry it asks for, bytes of its
\* own or zeros, and from the archive of a writer that finished the whole entry.
THEOREM ReadersGetEntries ==
  CorpusSpec => [](Healthy /\ FewChunks => AnswersAreEntries)
<1>1. ASSUME CorpusInv, Healthy, FewChunks, NEW t \in Thread, Reader!Answered(t)
      PROVE  \E i \in 1..Len(written) :
               /\ IsLatest(i, rname[t])
               /\ Len(answer[t]) = Len(written[i].data)
               /\ \A k \in 1..Len(answer[t]) : answer[t][k] \in {Nul, written[i].data[k]}
               /\ Finished => answer[t] = written[i].data
  <2>1. CASE Finished
    BY <1>1, <2>1, AnswerIsWhole
  <2>2. CASE ~Finished
    BY <1>1, <2>2, AnswerOwnOrNul DEF Healthy
  <2> QED
    BY <2>1, <2>2
<1>2. CorpusInv => (Healthy /\ FewChunks => AnswersAreEntries)
  BY <1>1 DEF AnswersAreEntries
<1> QED
  BY <1>2, CorpusAlways, PTL

----------------------------------------------------------------------------
(* The corpus implements the treebank.                                     *)

\* The entries of the abstract treebank, which are those that were written.
Contents ==
  [i \in 1..Len(written) |-> [name |-> written[i].name, data |-> written[i].data]]

\* The bytes of an entry are those at its offset, in the archive as far as it goes.
LEMMA BytesRecovered ==
  ASSUME WriterInv, FileInv, NEW i \in 1..Len(written), NEW k \in 1..Len(written[i].data)
  PROVE  ByteAt(written[i].offset + k - 1) = written[i].data[k]
<1> DEFINE p == written[i].offset + k - 1
           b == written[i].data[k]
<1>1. InStream(p, b)
  BY EntryBytes
<1> HIDE DEF p, b
<1>2. ByteAt(p) = b
  BY <1>1 DEF InStream, StoredAt, Stored, ByteAt
<1> QED
  BY <1>2 DEF p, b

LEMMA RecoveredIsWritten ==
  WriterInv /\ LinesLogged /\ FileInv /\ Addressable => Recovered = Contents
<1> SUFFICES ASSUME WriterInv, LinesLogged, FileInv, Addressable
             PROVE  Recovered = Contents
  OBVIOUS
<1>1. /\ Len(indexFile) = Len(written)
      /\ \A i \in 1..Len(written) :
           /\ indexFile[i].name = written[i].name
           /\ Decode(indexFile[i].offset) = written[i].offset
           /\ Decode(indexFile[i].size) = Len(written[i].data)
  BY LogDecodes DEF FileInv, LinesLogged
<1>2. ASSUME NEW i \in 1..Len(written)
      PROVE  /\ indexFile[i].name = written[i].name
             /\ [k \in 1..Decode(indexFile[i].size) |->
                   ByteAt(Decode(indexFile[i].offset) + k - 1)] = written[i].data
  <2> DEFINE data == written[i].data
             start == written[i].offset
  <2>1. /\ indexFile[i].name = written[i].name
        /\ Decode(indexFile[i].offset) = start /\ Decode(indexFile[i].size) = Len(data)
    BY <1>1
  <2>2. data \in Seq(Byte)
    BY WrittenTypes
  <2>3. \A k \in 1..Len(data) : ByteAt(start + k - 1) = data[k]
    BY BytesRecovered
  <2> HIDE DEF data, start
  <2>4. [k \in 1..Len(data) |-> ByteAt(start + k - 1)] = data
    BY <2>2, <2>3
  <2> QED
    BY <2>1, <2>4 DEF data
<1> QED
  BY <1>1, <1>2 DEF Recovered, Contents

LEMMA RecoveredThen ==
  WriterInv' /\ LinesLogged' /\ FileInv' /\ Addressable' => Recovered' = Contents'
<1>1. WriterInv /\ LinesLogged /\ FileInv /\ Addressable => Recovered = Contents
  BY RecoveredIsWritten
<1> DEFINE Unmoved == Recovered = Contents
<1>2. WriterInv /\ LinesLogged /\ FileInv /\ Addressable => Unmoved
  BY <1>1
<1> HIDE DEF Unmoved
<1>3. WriterInv' /\ LinesLogged' /\ FileInv' /\ Addressable' => Unmoved'
  BY <1>2, PTL
<1> QED
  BY <1>3 DEF Unmoved

\* What the treebank has under a name.
LEMMA ContentIsLast ==
  ASSUME WriterInv, Recovered = Contents, NEW n
  PROVE  /\ (\A i \in 1..Len(written) : written[i].name # n) => Abstract!Content(n) = Unknown
         /\ \A i \in 1..Len(written) :
              /\ written[i].name = n
              /\ \A j \in (i + 1)..Len(written) : written[j].name # n
              => Abstract!Content(n) = written[i].data
<1> DEFINE named == {i \in 1..Len(Recovered) : Recovered[i].name = n}
           last == CHOOSE i \in named : \A j \in named : j <= i
<1>1. /\ Len(Recovered) = Len(written) /\ Len(written) \in Nat
      /\ \A i \in 1..Len(written) : /\ Recovered[i].name = written[i].name
                                    /\ Recovered[i].data = written[i].data
  BY WrittenTypes DEF Contents
<1>2. \A i : i \in named <=> i \in 1..Len(written) /\ written[i].name = n
  BY <1>1
<1>3. Abstract!Content(n) = IF named = {} THEN Unknown ELSE Recovered[last].data
  BY DEF Abstract!Content
<1> HIDE DEF named
<1>4. ASSUME NEW i \in 1..Len(written), written[i].name = n,
             \A j \in (i + 1)..Len(written) : written[j].name # n
      PROVE  Abstract!Content(n) = written[i].data
  <2>1. i \in named /\ \A j \in named : j <= i
    BY <1>1, <1>2, <1>4
  <2>2. last \in named /\ \A j \in named : j <= last
    BY <2>1
  <2>3. last = i
    <3> HIDE DEF last
    <3>1. last <= i /\ i <= last /\ last \in Nat /\ i \in Nat
      BY <1>2, <2>1, <2>2
    <3> QED
      BY <3>1
  <2> QED
    BY <1>1, <1>3, <2>1, <2>3
<1>5. (\A i \in 1..Len(written) : written[i].name # n) => Abstract!Content(n) = Unknown
  BY <1>2, <1>3
<1> QED
  BY <1>4, <1>5

\* The answers that a reader of a healthy corpus may give.
Content(n) == Abstract!Content(n)

AnswersRight ==
  \A t \in Thread : R!Known(rname[t]) /\ R!Returned(t) => answer[t] = Content(rname[t])

LEMMA RightAnswers ==
  CorpusInv /\ rd = "open" /\ Healthy /\ Finished => AnswersRight
<1> SUFFICES ASSUME CorpusInv, rd = "open", Healthy, Finished, NEW t \in Thread,
                    R!Known(rname[t]), R!Returned(t)
             PROVE  answer[t] = Content(rname[t])
  BY DEF AnswersRight
<1>1. Recovered = Contents /\ WriterInv
  BY RecoveredIsWritten DEF CorpusInv, Healthy
<1>2. PICK i \in 1..Len(written) :
        IsLatest(i, rname[t]) /\ answer[t] = written[i].data
  BY AnswerIsEntry
<1>3. Abstract!Content(rname[t]) = written[i].data
  BY <1>1, <1>2, ContentIsLast DEF IsLatest
<1> QED
  BY <1>2, <1>3 DEF Content

LEMMA RightAnswersThen ==
  CorpusInv' /\ rd' = "open" /\ Healthy' /\ Finished' => AnswersRight'
<1> DEFINE Reading == rd = "open"
<1>1. CorpusInv /\ Reading /\ Healthy /\ Finished => AnswersRight
  BY RightAnswers
<1> HIDE DEF Reading
<1>2. CorpusInv' /\ Reading' /\ Healthy' /\ Finished' => AnswersRight'
  BY <1>1, PTL
<1> QED
  BY <1>2 DEF Reading

\* A name that the reader does not know was never written.
LEMMA UnknownName ==
  ASSUME CorpusInv, rd = "open", Healthy, NEW n, ~R!Known(n)
  PROVE  Content(n) = Unknown
<1>1. Recovered = Contents /\ WriterInv
  BY RecoveredIsWritten DEF CorpusInv, Healthy
<1>2. /\ Len(d_indices) = Len(written)
      /\ \A i \in 1..Len(written) : d_indices[i].name = written[i].name
  BY IndexThere DEF Healthy
<1>3. \A i \in 1..Len(written) : written[i].name # n
  BY <1>2 DEF R!Known
<1> QED
  BY <1>1, <1>3, ContentIsLast DEF Content

\* Before the corpus is opened there are no answers, whether they count or not.
LEMMA NoneCounted == R!ReaderInit => Counted = [t \in Thread |-> NoAnswer]
BY DEF R!ReaderInit, Counted

LEMMA NoneCountedThen == R!ReaderInit' => Counted' = [t \in Thread |-> NoAnswer]
<1> DEFINE None == Counted = [t \in Thread |-> NoAnswer]
<1>1. R!ReaderInit => None
  BY NoneCounted
<1> HIDE DEF None
<1>2. R!ReaderInit' => None'
  BY <1>1, PTL
<1> QED
  BY <1>2 DEF None

\* The treebank is empty at first, and nobody has asked.
LEMMA TreebankInit == CorpusInit => Abstract!Init
<1> SUFFICES ASSUME CorpusInit PROVE Abstract!Init
  OBVIOUS
<1>1. indexFile = <<>> /\ R!ReaderInit
  BY SameReader DEF CorpusInit, Init
<1>2. Recovered = <<>>
  BY <1>1 DEF Recovered
<1> QED
  BY <1>1, <1>2, NoneCounted DEF Abstract!Init, R!ReaderInit

LEMMA Appended ==
  ASSUME NEW S, NEW s \in Seq(S), NEW e \in S, NEW t,
         t = [i \in 1..(Len(s) + 1) |-> t[i]],
         t[Len(s) + 1] = e, \A i \in 1..Len(s) : t[i] = s[i]
  PROVE  t = Append(s, e)
<1>1. Append(s, e) = [i \in 1..(Len(s) + 1) |-> Append(s, e)[i]]
  <2> DEFINE a == Append(s, e)
  <2>1. a \in Seq(S) /\ Len(a) = Len(s) + 1
    OBVIOUS
  <2> HIDE DEF a
  <2>2. a = [i \in 1..Len(a) |-> a[i]]
    BY <2>1
  <2> QED
    BY <2>1, <2>2 DEF a
<1>2. \A i \in 1..(Len(s) + 1) : t[i] = Append(s, e)[i]
  OBVIOUS
<1> QED
  BY <1>1, <1>2

\* An entry is added when its line gets into the index; no other step of the
\* writer changes what is in the treebank.
LEMMA WriteIsAdd ==
  ASSUME CorpusInv, CorpusInv', Addressable, Addressable', Write \/ WriterEnds
  PROVE  [Abstract!Next]_Abstract!treebankVars
<1>1. rd = "new" /\ Next /\ UNCHANGED readerOnly
  BY WriterFirst
<1>2. Recovered = Contents /\ Recovered' = Contents'
  BY RecoveredIsWritten, RecoveredThen DEF CorpusInv
<1>3. UNCHANGED <<rd, rname, Counted>>
  <2>1. rd' = rd /\ rname' = rname
    BY <1>1 DEF readerOnly
  <2>2. R!ReaderInit /\ R!ReaderInit'
    BY <1>1, <2>1 DEF CorpusInv
  <2> QED
    BY <2>1, <2>2, NoneCounted, NoneCountedThen
<1>4. CASE written' = written
  <2>1. Contents' = Contents
    BY <1>4 DEF Contents
  <2> QED
    BY <1>2, <1>3, <2>1 DEF Abstract!treebankVars
<1>5. ASSUME NEW c \in Caller, WriteIndex(c)
      PROVE  \E n \in Name, d \in Data : Abstract!Add(n, d)
  <2> DEFINE n == warg[c].name
             d == warg[c].data
             entry == [name |-> n, data |-> d, offset |-> d_offset, accepted |-> o_good]
  <2>1. warg[c] \in Argument /\ d_offset \in Nat /\ o_good \in BOOLEAN
    BY <1>5 DEF WriteIndex, CorpusInv, WriterInv, WriterTypes, DzInv, DzTypeOK
  <2>2. n \in Name /\ d \in Data
    BY <2>1 DEF Argument
  <2>3. entry \in Entry /\ entry.name = n /\ entry.data = d
    BY <2>1, <2>2 DEF Entry
  <2>4. written \in Seq(Entry) /\ written' = Append(written, entry)
    BY <1>5 DEF WriteIndex, CorpusInv, WriterInv, WriterTypes
  <2> HIDE DEF n, d, entry
  <2>5. /\ Len(written) \in Nat /\ Len(written') = Len(written) + 1
        /\ written'[Len(written) + 1] = entry
        /\ \A i \in 1..Len(written) : written'[i] = written[i]
    BY <2>3, <2>4
  <2>6. Contents' = Append(Contents, [name |-> n, data |-> d])
    <3>1. Contents \in Seq([name : Name, data : Data]) /\ Len(Contents) = Len(written)
      <4>1. \A i \in 1..Len(written) :
              [name |-> written[i].name, data |-> written[i].data] \in [name : Name, data : Data]
        <5>1. \A w \in Entry : w.name \in Name /\ w.data \in Data
          BY DEF Entry
        <5>2. \A i \in 1..Len(written) : written[i] \in Entry
          BY <2>4
        <5> QED
          BY <5>1, <5>2
      <4> QED
        BY <2>5, <4>1 DEF Contents
    <3>2. Contents' = [i \in 1..(Len(written) + 1) |->
                         [name |-> written'[i].name, data |-> written'[i].data]]
      BY <2>5 DEF Contents
    <3>3. Contents'[Len(written) + 1] = [name |-> n, data |-> d]
      BY <2>3, <2>5, <3>2
    <3>4. \A i \in 1..Len(written) : Contents'[i] = Contents[i]
      BY <2>5, <3>2 DEF Contents
    <3>5. [name |-> n, data |-> d] \in [name : Name, data : Data]
      BY <2>2
    <3>6. Contents' = [i \in 1..(Len(Contents) + 1) |-> Contents'[i]]
      BY <3>1, <3>2
    <3> QED
      BY <3>1, <3>3, <3>4, <3>5, <3>6, Appended
  <2>7. Abstract!Add(n, d)
    BY <1>1, <1>2, <1>3, <2>6 DEF Abstract!Add
  <2> QED
    BY <2>2, <2>7
<1>6. CASE \A c \in Caller : ~WriteIndex(c)
  <2>1. written' = written
    BY <1>1, <1>6 DEF Next, Call, WriteEntry, Lock, PutData, AddOffset, CopyData, Destroy,
                      FinishDestroy, Crash, writerVars
  <2> QED
    BY <1>4, <2>1
<1> QED
  BY <1>5, <1>6 DEF Abstract!Next

\* What the reader does leaves the treebank, and what of it is on disk, as it is.
LEMMA EntriesStay ==
  ASSUME UNCHANGED writerOnly, UNCHANGED <<dzFile, indexExists, indexFile>>
  PROVE  Recovered' = Recovered /\ Finished' = Finished
BY DEF writerOnly, Recovered, ByteAt, Finished

LEMMA OpenIsSeal ==
  ASSUME CorpusInv, OpenCorpus
  PROVE  Abstract!Seal
<1>1. R!Open /\ UNCHANGED writerOnly /\ rd = "new" /\ rd' # "new"
  BY OpenKeepsCorpus, SameReader DEF OpenCorpus
<1>2. UNCHANGED <<dzFile, indexExists, indexFile, rname, answer>>
  BY <1>1 DEF R!Open, R!fileVars, R!threadVars
<1>3. Recovered' = Recovered /\ Counted' = Counted
  BY <1>1, <1>2, EntriesStay DEF Counted
<1> QED
  BY <1>1, <1>2, <1>3 DEF Abstract!Seal

\* A call is a question, its return the answer.
LEMMA ReadIsAsk ==
  ASSUME CorpusInv, CorpusInv', Healthy, Healthy', Read
  PROVE  [Abstract!Next]_Abstract!treebankVars
<1>1. /\ R!ReaderNext /\ UNCHANGED writerOnly /\ rd # "new" /\ rd' # "new"
  BY ReadKeepsCorpus DEF Read
<1>2. UNCHANGED <<dzFile, indexExists, indexFile>>
  BY ReadLeavesFiles
<1>3. Recovered' = Recovered /\ Finished' = Finished
  BY <1>1, <1>2, EntriesStay
<1>4. \/ UNCHANGED <<rname, answer>>
      \/ \E t \in Thread, n \in Name : R!Asks(t, n)
      \/ \E t \in Thread : R!Returns(t)
  BY <1>1, R!StepsSeen, ReaderConstants DEF CorpusInv, Healthy
<1>5. CASE UNCHANGED <<rname, answer>>
  BY <1>1, <1>3, <1>5 DEF Abstract!treebankVars, Counted
<1>6. ASSUME NEW t \in Thread, NEW n \in Name, R!Asks(t, n)
      PROVE  Abstract!Ask(t, n)
  <2>1. CASE Finished
    <3>1. rd = "open"
      BY <1>6 DEF R!Asks
    <3>2. (IF R!Known(n) THEN NoAnswer ELSE Unknown) \in {NoAnswer, Abstract!Content(n)}
      BY <3>1, UnknownName DEF Content
    <3>3. Counted = answer /\ Counted' = answer'
      BY <1>3, <2>1 DEF Counted
    <3> QED
      BY <1>1, <1>3, <1>6, <3>2, <3>3 DEF R!Asks, Abstract!Ask
  <2>2. CASE ~Finished
    <3>1. /\ Counted = [u \in Thread |-> NoAnswer]
          /\ Counted' = [Counted EXCEPT ![t] = NoAnswer]
      BY <1>3, <2>2 DEF Counted
    <3> QED
      BY <1>1, <1>3, <1>6, <3>1 DEF R!Asks, Abstract!Ask
  <2> QED
    BY <2>1, <2>2
<1>7. ASSUME NEW t \in Thread, R!Returns(t), Finished
      PROVE  Abstract!Answer(t)
  <2>1. /\ rd = "open" /\ rd' = "open" /\ answer[t] = NoAnswer /\ rname' = rname
        /\ answer' = [answer EXCEPT ![t] = answer'[t]]
        /\ R!Known(rname[t])' /\ R!Returned(t)'
    BY <1>7, CorpusSound DEF R!Returns
  <2>2. answer'[t] = Content(rname[t])'
    BY <1>3, <1>7, <2>1, RightAnswersThen DEF AnswersRight
  <2>3. Content(rname[t])' = Content(rname[t])
    BY <1>3, <2>1 DEF Content, Abstract!Content
  <2>4. Counted = answer /\ Counted' = answer'
    BY <1>3, <1>7 DEF Counted
  <2> QED
    BY <1>1, <1>3, <2>1, <2>2, <2>3, <2>4 DEF Abstract!Answer, Content
<1>8. ASSUME NEW t \in Thread, R!Returns(t), ~Finished
      PROVE  UNCHANGED Abstract!treebankVars
  <2>1. rname' = rname
    BY <1>8 DEF R!Returns
  <2> QED
    BY <1>1, <1>3, <1>8, <2>1 DEF Abstract!treebankVars, Counted
<1> QED
  BY <1>4, <1>5, <1>6, <1>7, <1>8 DEF Abstract!Next

\* The corpus is a treebank, in every behaviour in which it stays healthy: each
\* step of the writer and of the readers is one of the treebank's, or none.  Of
\* what a killed writer left, no answer counts.
THEOREM Refinement == CorpusSpec /\ []Healthy => ImplementsTreebank
<1>1. CorpusInit => Abstract!Init
  BY TreebankInit
<1>2. ASSUME CorpusInv, CorpusInv', Healthy, Healthy', [CorpusNext]_corpusVars
      PROVE  [Abstract!Next]_Abstract!treebankVars
  <2>1. CASE Write \/ WriterEnds
    BY <1>2, <2>1, WriteIsAdd DEF Healthy
  <2>2. CASE OpenCorpus
    BY <1>2, <2>2, OpenIsSeal DEF Abstract!Next
  <2>3. CASE Read
    BY <1>2, <2>3, ReadIsAsk
  <2>4. CASE UNCHANGED corpusVars
    BY <2>4 DEF corpusVars, vars, dzVars, writerVars, readerOnly, Abstract!treebankVars,
                Recovered, ByteAt, Counted, Finished
  <2> QED
    BY <1>2, <2>1, <2>2, <2>3, <2>4 DEF CorpusNext
<1>3. CorpusSpec => []CorpusInv
  BY CorpusAlways
<1> QED
  BY <1>1, <1>2, <1>3, PTL DEF CorpusSpec, ImplementsTreebank, Abstract!Spec
=============================================================================
