----------------------- MODULE MCCompactCorpusWriter -----------------------
(***************************************************************************)
(* Two threads write up to three entries and one that is already under way *)
(* into chunks of two bytes: entries that end a chunk, that start in its   *)
(* middle and that span three of them.                                     *)
(***************************************************************************)
EXTENDS CompactCorpusWriter

MCByte == {0, 1}
MCData == {<<>>, <<0, 1, 1>>, <<1, 0>>}
=============================================================================
