---------------------------- MODULE MCDzOstream ----------------------------
(***************************************************************************)
(* DzOstream on chunks of three bytes: writes shorter than a chunk, as     *)
(* long as one, and longer than two, in any order with single puts.        *)
(***************************************************************************)
EXTENDS DzOstream

MCByte == {0, 1}
MCBlock == {<<>>, <<1>>, <<0, 1, 1>>, <<1, 0, 0, 1>>, <<0, 1, 0, 0, 1, 0, 1>>}
=============================================================================
