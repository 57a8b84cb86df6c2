---------------------------- MODULE MCBatchCopy ----------------------------
(***************************************************************************)
(* Two jobs on corpora that overlap, with a name that comes twice, not in  *)
(* a row, and with every way an entry can fail, in the middle and at the   *)
(* end.                                                                    *)
(***************************************************************************)
EXTENDS BatchCopy

CONSTANTS n1, n2, n3

MCName == {n1, n2, n3}

Good(n) == [name |-> n, fault |-> "none"]
Bad(n, f) == [name |-> n, fault |-> f]

MCSources ==
  {<<>>, <<Good(n1), Good(n2), Good(n1)>>}
  \cup {<<Good(n1), Bad(n2, f), Good(n3)>> : f \in Fault}
  \cup {<<Good(n3), Bad(n1, "error")>>}
  \cup {<<Good(n2), Bad(n2, "exception"), Bad(n1, "iterator")>>}

\* One unreadable entry in front of a good one.
OneBad == {<<Bad(n1, "error"), Good(n2)>>}
=============================================================================
