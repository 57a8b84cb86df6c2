---------------------------- MODULE MCAlgorithms ----------------------------
(***************************************************************************)
(* The algorithms without state, each against a reference definition on    *)
(* all inputs up to a bound.                                               *)
(*                                                                         *)
(* Base64: every value of an 8-bit type and every string of up to MaxLen   *)
(* characters, legal or not.  Digits of three bits do not divide the width *)
(* evenly, as six bits do not divide 64: the leading digit of the largest  *)
(* values has bits the type cannot hold.  Three characters are as many as  *)
(* any value takes, as eleven are for 64 bits; strings of one more are     *)
(* tried as well.                                                          *)
(*                                                                         *)
(* The order of names: every two names of up to MaxName characters, from   *)
(* the slash, the letter a and three digits.                               *)
(*                                                                         *)
(* Macros: every file of at most two definitions of a and b, each query of *)
(* at most MaxPieces pieces, with and without comment and white space; and *)
(* the file cut off after each of its characters.                          *)
(*                                                                         *)
(* Sentences: every forest of MaxElements elements below the root, every   *)
(* set of matches, every order of the words.                               *)
(***************************************************************************)
EXTENDS Base64, Macros, Sentence

CONSTANTS
  MaxLen,   \* bound: the longest string decoded
  MaxName,  \* bound: the longest name compared
  MaxPieces,  \* bound: the pieces of a query in a macro file
  MaxElements \* bound: the elements of a document below its root

VARIABLES value, str, names, defs, doc, parts, items, printed

Character == 0..2^Bits     \* one more than the legal ones

Strings == UNION {[1..n -> Character] : n \in 0..MaxLen}

Names == UNION {[1..n -> {47, 48, 49, 50, 97}] : n \in 0..MaxName}

Piece == {<<47>>, <<Quote>>, Marked(<<97>>), Marked(<<98>>)}

Definition ==
  [name : {<<97>>, <<98>>}, query : UNION {[1..n -> Piece] : n \in 0..MaxPieces}]

\* A comment, white space; then nothing of the kind.
Layout == {[before |-> <<35, Quote, Percent, 10>>, within |-> <<32>>, after |-> <<10>>],
           [before |-> <<>>, within |-> <<>>, after |-> <<>>]}

Quotes == <<Quote, Quote, Quote>>

Written(d, l) ==
  l.before \o d.name \o l.within \o <<61>> \o l.within \o
    Quotes \o FlattenSeq(d.query) \o Quotes \o l.after

NoDoc == [parent |-> <<>>, kind |-> <<>>, token |-> <<>>, begin |-> <<>>]

\* Elements are numbered in document order: the parent of one is the one before
\* it, or an ancestor of that one.
Forest ==
  {f \in [1..MaxElements -> 0..(MaxElements - 1)] :
     \A e \in 1..MaxElements :
       LET ancestors[k \in 0..e] == IF k = 0 THEN {0} ELSE {k} \union ancestors[f[k]]
       IN  f[e] < e /\ (e > 1 => f[e] \in ancestors[e - 1])}

Leaf(f, e) == \A d \in 1..MaxElements : f[d] # e

\* Leaves have a token.  Of the other elements, some have a name that is not
\* gone through, and some have a token they should not have.
Look(f, e) ==
  IF Leaf(f, e) THEN {<<"node", TRUE>>, <<"word", TRUE>>}
                ELSE {<<"node", FALSE>>, <<"node", TRUE>>, <<"other", FALSE>>}

InitDocument ==
  \E f \in Forest :
    \E look \in [1..MaxElements -> UNION {Look(f, e) : e \in 1..MaxElements}] :
      /\ \A e \in 1..MaxElements : look[e] \in Look(f, e)
      /\ doc = [parent |-> f, kind |-> [e \in 1..MaxElements |-> look[e][1]],
                token |-> [e \in 1..MaxElements |-> look[e][2]],
                begin |-> [e \in 1..MaxElements |-> 0]]

InitAlgorithm ==
  \/ value \in 0..(2^Width - 1) /\ names = <<<<>>, <<>>>>
  \/ value = 0 /\ names \in Names \X Names

Init ==
  /\ \/ InitAlgorithm /\ defs = <<>> /\ InitMacros(<<>>) /\ doc = NoDoc
     \/ /\ value = 0
        /\ names = <<<<>>, <<>>>>
        /\ \/ /\ \E d, e \in Definition, l \in Layout :
                   defs = <<d, e>> /\ InitMacros(Written(d, l) \o Written(e, l))
              /\ doc = NoDoc
           \/ defs = <<>> /\ InitMacros(<<>>) /\ InitDocument
  /\ str = Encode(value)
  /\ parts = <<>>
  /\ items = <<>>
  /\ printed = <<>>

\* An index line may hold any string in place of the one that was encoded.
ReadIndexLine ==
  /\ value = 0
  /\ str = Encode(value)
  /\ names = <<<<>>, <<>>>>
  /\ defs = <<>>
  /\ doc = NoDoc
  /\ str' \in Strings
  /\ UNCHANGED <<data, p, st, doc, parts, items, printed>>

\* The words have an order, a query selects elements.
MarkMatches ==
  /\ doc # NoDoc
  /\ parts = <<>>
  /\ \E begin \in [1..MaxElements -> 0..2] :
       /\ \A e \in 1..MaxElements :
            begin[e] = 0 \/ (doc.kind[e] = LexicalElement /\ doc.token[e])
       /\ doc' = [doc EXCEPT !.begin = begin]
  /\ \E matches \in SUBSET (1..MaxElements) : parts' = <<1..MaxElements, matches>>
  /\ items' = getSentence(doc', parts')
  /\ printed' = listCorpus(items')
  /\ UNCHANGED <<str, data, p, st>>

Next ==
  /\ \/ ReadIndexLine
     \/ ReadCharacter /\ UNCHANGED <<str, doc, parts, items, printed>>
     \/ MarkMatches
  /\ UNCHANGED <<value, names, defs>>

Spec == Init /\ [][Next]_<<value, str, names, defs, data, p, st, doc, parts, items, printed>>

\* The offset and the size the reader decodes are the ones the writer encoded,
\* for every value of the type, its largest included.
RoundTrip == Decode(Encode(value)) = value

\* Any string that may stand in an index line, encoded by the writer or not, is
\* read as the number it says or is refused.
ExactOrRefused == DecodesExactly(str)

\* The reference for names: a key of integers, read off one character after the
\* other.  A number has its value, between the codes of the characters that
\* come before and after the digits; a first key tells names that begin with a
\* digit, which come last.
Key(s) ==
  LET Scale == 10^MaxName
      InNumber(i) == i > 1 /\ s[i] \in Digits /\ s[i - 1] \in Digits
      key[i \in 0..Len(s)] ==
        CASE i = 0 -> IF s = <<>> THEN <<>> ELSE <<IF s[1] \in Digits THEN 1 ELSE 0>>
          [] i > 0 /\ InNumber(i) ->
               LET k == key[i - 1]
                   v == k[Len(k)] - 48 * Scale
               IN  [k EXCEPT ![Len(k)] = 48 * Scale + 10 * v + s[i] - 48]
          [] i > 0 /\ ~InNumber(i) ->
               Append(key[i - 1], IF s[i] \in Digits THEN 48 * Scale + s[i] - 48
                                                     ELSE s[i] * Scale)
  IN  key[Len(s)]

\* Names are ordered as their keys are, and have one key when they differ in
\* leading zeros only.  So the order is a strict weak one, which std::sort and
\* std::map require: it is the order of sequences of integers.
OrderedByKey ==
  Less(names[1], names[2]) <=> LessString(Key(names[1]), Key(names[2]))

\* What a piece of a query stands for.
Meaning(macros, piece) ==
  IF \E n \in DOMAIN macros : piece = Marked(n)
  THEN macros[CHOOSE n \in DOMAIN macros : piece = Marked(n)] ELSE piece

Meanings(macros, query) ==
  FlattenSeq([i \in DOMAIN query |-> Meaning(macros, query[i])])

\* The reference for macros: the definitions one after the other, a reference
\* stands for the query its macro has by then.
Defined(ds) ==
  FoldLeft(LAMBDA m, d : (d.name :> Meanings(m, d.query)) @@ m, <<>>, ds)

Complete == defs # <<>> /\ p = Len(data) + 1

\* A macro file means what is written in it, wherever its quotes, references,
\* comments and white space stand: of several references in a query each is
\* replaced, though the ones before it change the places of the ones after it.
MacrosAsWritten == Complete => accepted /\ parsed = Defined(defs)

\* A file that was cut off is refused, or has the definitions that were not cut,
\* complete.  But for a query that ends in a quote: a quote less closes it too.
CutFileRefused ==
  (defs # <<>> /\ \A i \in DOMAIN defs :
      defs[i].query = <<>> \/ Last(defs[i].query) # <<Quote>>)
  => (accepted => \E k \in 0..Len(defs) : parsed = Defined(SubSeq(defs, 1, k)))

\* In a query each marked name of a macro is replaced, nothing else is, and the
\* order of the names does not matter; as long as no macro brings in a marker.
ExpandedAsWritten ==
  LET query == defs[Len(defs)].query
  IN  (Complete /\ \A n \in DOMAIN parsed : Percent \notin Range(parsed[n]))
      => expandMacros(parsed, FlattenSeq(query)) = Meanings(parsed, query)

\* The elements a word is in, itself included, as far as a match reaches: only
\* through nodes that have no token of their own.
ReachedFrom(e) ==
  LET up[a \in Elements(doc)] ==
        {a} \union IF /\ doc.parent[a] # 0
                      /\ doc.kind[doc.parent[a]] # "other"
                      /\ ~doc.token[doc.parent[a]]
                   THEN up[doc.parent[a]] ELSE {}
  IN  up[e]

\* Every lexical element is in the sentence once, in the order of the words, with
\* the matches that dominate it: the recursion down from each match and the walk
\* up from each word agree.
MatchesDominated ==
  parts # <<>> =>
  LET words == {items[k].word : k \in DOMAIN items}
  IN  /\ words = {e \in Elements(doc) : doc.kind[e] = LexicalElement /\ doc.token[e]}
      /\ Len(items) = Cardinality(words)
      /\ \A j, k \in DOMAIN items : j < k => doc.begin[items[j].word] <= doc.begin[items[k].word]
      /\ \A k \in DOMAIN items :
           items[k].matches = {MatchId(Last(parts), m) : m \in Last(parts) \cap ReachedFrom(items[k].word)}

\* The printed brackets can be read back, though the closing ones do not say
\* what they close and the words of a match need not be next to one another: who
\* takes each for the last one opened finds every word in its matches, and
\* nothing open at the end.
BracketsNest ==
  parts # <<>> =>
  LET MatchesOf(w) == items[CHOOSE k \in DOMAIN items : items[k].word = w].matches
      Read(acc, t) ==
        CASE t.kind = "[" -> [acc EXCEPT !.stack = Append(@, t.number)]
          [] t.kind = "]" -> IF acc.stack = <<>> THEN [acc EXCEPT !.sound = FALSE]
                                                 ELSE [acc EXCEPT !.stack = Front(@)]
          [] OTHER -> [acc EXCEPT !.sound = @ /\ ToSet(acc.stack) = MatchesOf(t.number)]
      read[i \in 0..Len(printed)] ==
        IF i = 0 THEN [stack |-> <<>>, sound |-> TRUE] ELSE Read(read[i - 1], printed[i])
      end == read[Len(printed)]
  IN  end.sound /\ end.stack = <<>>
=============================================================================
