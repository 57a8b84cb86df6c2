-------------------------- MODULE MCCompactCorpus --------------------------
(***************************************************************************)
(* Up to two entries under two names, of one and three bytes, so that a    *)
(* name is used once, twice or not at all and an entry starts in the       *)
(* middle of a chunk of two bytes and spans two; then two threads read.    *)
(***************************************************************************)
EXTENDS CompactCorpus, TLC

MCByte == 0..3
MCData == {<<1>>, <<2, 3, 1>>}

\* Threads are all alike, and so are names.
MCSymmetry == Permutations(Thread) \cup Permutations(Name)

\* Three chunks; and one chunk more than a field of four bits can count.
LongData == {<<1, 2, 3, 1, 2>>}
ManyChunks == {[i \in 1..34 |-> (i % 3) + 1]}
=============================================================================
