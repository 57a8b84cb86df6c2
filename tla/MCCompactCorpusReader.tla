----------------------- MODULE MCCompactCorpusReader -----------------------
(***************************************************************************)
(* CompactCorpusReader on archives given by the cfg.  Sound archives are   *)
(* laid out the way DzOstreamBuf and CompactCorpusWriter lay them out; the *)
(* others are sound ones with one thing wrong.  Data bytes are all         *)
(* different, so that a byte tells where it came from.                     *)
(***************************************************************************)
EXTENDS CompactCorpusReader, SequencesExt

CONSTANTS Archives, n1, n2, n3

MCByte == (0..9) \cup {255}
MCName == {n1, n2, n3}

Doc(n, d) == [name |-> n, data |-> d]

StreamOf(docs) == FlattenSeq([i \in 1..Len(docs) |-> docs[i].data])
OffsetOf(docs, i) == Len(StreamOf(SubSeq(docs, 1, i - 1)))

BlocksOf(stream) ==
  [i \in 1..((Len(stream) + ChunkLen - 1) \div ChunkLen) |->
     [bytes |-> SubSeq(stream, (i - 1) * ChunkLen + 1, Min({i * ChunkLen, Len(stream)})),
      cut   |-> FALSE]]

DzOf(stream) ==
  LET blocks == BlocksOf(stream)
  IN  [exists |-> TRUE, header |-> TRUE, xlen |-> 10 + 2 * Len(blocks),
       count |-> Len(blocks), table |-> Len(blocks), blocks |-> blocks, isize |-> Len(stream)]

IndexOf(docs) ==
  [i \in 1..Len(docs) |-> [name   |-> docs[i].name,
                           offset |-> Encode(OffsetOf(docs, i)),
                           size   |-> Encode(Len(docs[i].data))]]

Archive(docs) == [dz |-> DzOf(StreamOf(docs)), index |-> IndexOf(docs)]

----------------------------------------------------------------------------
(* Entries that share a chunk, span several, end with one; a name twice;   *)
(* an empty entry with data after it.                                      *)
Aligned   == <<Doc(n1, <<1, 2>>), Doc(n2, <<3, 4, 5>>), Doc(n3, <<6>>)>>
NameTwice == <<Doc(n1, <<1, 2, 3, 4, 5>>), Doc(n2, <<6, 7>>), Doc(n1, <<8>>)>>
EmptyDoc  == <<Doc(n2, <<1>>), Doc(n1, <<>>), Doc(n3, <<2, 3, 4>>)>>

SoundArchives == {Archive(docs) : docs \in {Aligned, NameTwice, EmptyDoc}}

(* The file ends too early, before the table or in it; deflate's output    *)
(* for a chunk did not fit; the index is that of a longer archive, or has  *)
(* an offset outside the archive: too large, wrapping to chunk 0 or to     *)
(* chunk -1 as an int, or negative as a streampos.                         *)
ShortOf(a, k)  == [a EXCEPT !.dz.blocks = SubSeq(@, 1, k)]
NoTableOf(a)   == [a EXCEPT !.dz.xlen = 0, !.dz.count = 0, !.dz.table = NoTable,
                            !.dz.blocks = <<>>]
TableCutOf(a, k) == [a EXCEPT !.dz.table = k, !.dz.blocks = <<>>]
CutOf(a, k)    == [a EXCEPT !.dz.blocks[k].cut = TRUE]
OtherIndex     == [dz |-> DzOf(StreamOf(SubSeq(Aligned, 1, 2))),
                   index |-> IndexOf(NameTwice)]
FarOf(a, p)    == [a EXCEPT !.index[1].offset = Encode(p)]

Chunk(n) == n * ChunkLen
FarOffsets == {Chunk(IntMod \div 2) - 1, Chunk(IntMod), Chunk(IntMod - 1), PosMod \div 2}

DamagedArchives ==
  LET docs == {Aligned, NameTwice}
  IN  {ShortOf(Archive(d), 1) : d \in docs} \cup {ShortOf(Archive(d), 2) : d \in docs}
      \cup {NoTableOf(Archive(d)) : d \in docs}
      \cup {TableCutOf(Archive(d), k) : d \in docs, k \in {NoTable, 2}}
      \cup {CutOf(Archive(d), k) : d \in docs, k \in 1..3}
      \cup {FarOf(Archive(Aligned), p) : p \in FarOffsets}
      \cup {OtherIndex}

AllArchives == SoundArchives \cup DamagedArchives

(* Archives for the deviations the README describes.  In the first, one of *)
(* the three entries is intact.                                            *)
ShortArchive == {ShortOf(Archive(Aligned), 2)}

\* ISO-8859-1 text may hold a 0xff.
FFArchive == {Archive(<<Doc(n1, <<1, 255>>), Doc(n2, <<3, 255, 255, 4>>)>>)}

\* The last entry is empty and the ones before it end with a chunk.
EmptyLast == {Archive(<<Doc(n1, <<1, 2>>), Doc(n2, <<3, 4>>), Doc(n3, <<>>)>>)}

----------------------------------------------------------------------------
Init ==
  /\ ReaderInit
  /\ \E a \in Archives : dzFile = a.dz /\ indexFile = a.index
  /\ indexExists \in BOOLEAN

Spec == Init /\ [][ReaderNext]_vars /\ Fairness
=============================================================================
