------------------------------ MODULE Treebank ------------------------------
(***************************************************************************)
(* What a corpus promises its users, with no files, chunks or locks: a     *)
(* treebank is filled entry by entry, then only read, and a read is        *)
(* answered with the content of the entry.  A name that was given twice    *)
(* stands for the entry added last.                                        *)
(***************************************************************************)
EXTENDS Naturals, Sequences

CONSTANTS Thread, Name, Data, NoAnswer, Unknown

VARIABLES
  entries,  \* what was added, in order
  sealed,   \* reading has begun
  asked,    \* the name each thread asked for last
  reply     \* and what it got

treebankVars == <<entries, sealed, asked, reply>>

Content(n) ==
  LET named == {i \in 1..Len(entries) : entries[i].name = n}
  IN  IF named = {} THEN Unknown
      ELSE entries[CHOOSE i \in named : \A j \in named : j <= i].data

Init ==
  /\ entries = <<>>
  /\ sealed = FALSE
  /\ asked \in [Thread -> Name]
  /\ reply = [t \in Thread |-> NoAnswer]

Add(n, d) ==
  /\ ~sealed
  /\ entries' = Append(entries, [name |-> n, data |-> d])
  /\ UNCHANGED <<sealed, asked, reply>>

Seal ==
  /\ ~sealed
  /\ sealed' = TRUE
  /\ UNCHANGED <<entries, asked, reply>>

\* A question may be answered at once.
Ask(t, n) ==
  /\ sealed
  /\ asked' = [asked EXCEPT ![t] = n]
  /\ \E r \in {NoAnswer, Content(n)} : reply' = [reply EXCEPT ![t] = r]
  /\ UNCHANGED <<entries, sealed>>

Answer(t) ==
  /\ sealed
  /\ reply[t] = NoAnswer
  /\ reply' = [reply EXCEPT ![t] = Content(asked[t])]
  /\ UNCHANGED <<entries, sealed, asked>>

Next ==
  \/ \E n \in Name, d \in Data : Add(n, d)
  \/ Seal
  \/ \E t \in Thread, n \in Name : Ask(t, n)
  \/ \E t \in Thread : Answer(t)

Spec == Init /\ [][Next]_treebankVars
=============================================================================
