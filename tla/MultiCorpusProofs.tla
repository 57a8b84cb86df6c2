------------------------- MODULE MultiCorpusProofs -------------------------
(***************************************************************************)
(* A reader of several corpora, for every map of them, any names, files    *)
(* and entries, whoever fills it and whatever happens to the files: that a *)
(* path leads back to the corpus and the entry it was made of, that the    *)
(* map and the list agree, that what an iteration names is read again, and *)
(* that the size is what an iteration comes to.  The order of the names,   *)
(* which the map relies on, is shown to be one.                            *)
(*                                                                         *)
(* And the tools, which read through such a map: that create empties no    *)
(* corpus it has yet to read, and that a tool that exits with 0 has given  *)
(* all there was to give, for any corpora and any number of them.          *)
(***************************************************************************)
EXTENDS MultiCorpus, Tools, RecursionProofs, FiniteSetTheorems

\* The path an iteration makes of a name and an entry.
Joined(n, e) == n \o <<Slash>> \o e

\* What is where in a joined path.
LEMMA JoinedParts ==
  ASSUME NEW n \in Seq(Nat), NEW e \in Seq(Nat)
  PROVE  /\ Joined(n, e) \in Seq(Nat)
         /\ Len(Joined(n, e)) = Len(n) + 1 + Len(e)
         /\ \A i \in 1..Len(n) : Joined(n, e)[i] = n[i]
         /\ Joined(n, e)[Len(n) + 1] = Slash
         /\ \A i \in 1..Len(e) : Joined(n, e)[Len(n) + 1 + i] = e[i]
<1> DEFINE s == n \o <<Slash>>
<1>1. s \in Seq(Nat) /\ Len(s) = Len(n) + 1
  BY DEF Slash
<1>2. /\ \A i \in 1..Len(n) : s[i] = n[i]
      /\ s[Len(n) + 1] = Slash
  BY DEF Slash
<1> HIDE DEF s
<1>3. QED
  BY <1>1, <1>2 DEF Joined, s

\* Sequences are equal when their elements are.
LEMMA SameElements ==
  ASSUME NEW s \in Seq(Nat), NEW t \in Seq(Nat), Len(s) = Len(t),
         \A i \in 1..Len(s) : s[i] = t[i]
  PROVE  s = t
OBVIOUS

\* What SubSeq makes of the end of a sequence.
LEMMA RestOfSequence ==
  ASSUME NEW s \in Seq(Nat), NEW k \in Nat, 1 <= k, k <= Len(s) + 1
  PROVE  /\ SubSeq(s, k, Len(s)) \in Seq(Nat)
         /\ Len(SubSeq(s, k, Len(s))) = Len(s) - k + 1
         /\ \A i \in 1..(Len(s) - k + 1) : SubSeq(s, k, Len(s))[i] = s[k + i - 1]
<1>1. \A i \in k..Len(s) : s[i] \in Nat
  OBVIOUS
<1>2. k \in Int /\ Len(s) \in Int
  OBVIOUS
<1>3. QED
  BY <1>1, <1>2, SubSeqProperties

\* A sequence is a prefix of another when it agrees with it as far as it goes.
LEMMA PrefixPointwise ==
  ASSUME NEW s \in Seq(Nat), NEW t \in Seq(Nat)
  PROVE  IsPrefix(s, t) <=> Len(s) <= Len(t) /\ \A i \in 1..Len(s) : s[i] = t[i]
<1>1. ASSUME Len(s) <= Len(t)
      PROVE  /\ SubSeq(s, 1, Len(s)) = [i \in 1..Len(s) |-> s[i]]
             /\ SubSeq(t, 1, Len(s)) = [i \in 1..Len(s) |-> t[i]]
  BY <1>1
<1>2. QED
  BY <1>1, Zenon DEF IsPrefix

\* A name is a prefix of the paths joined from it.
LEMMA OwnNamePrefix ==
  ASSUME NEW n \in Seq(Nat), NEW e \in Seq(Nat)
  PROVE  IsPrefix(n, Joined(n, e))
<1> DEFINE path == Joined(n, e)
<1>1. path \in Seq(Nat) /\ Len(n) <= Len(path) /\ \A i \in 1..Len(n) : n[i] = path[i]
  <2>1. /\ path \in Seq(Nat)
        /\ Len(path) = Len(n) + 1 + Len(e)
        /\ \A i \in 1..Len(n) : path[i] = n[i]
    BY JoinedParts
  <2>2. Len(n) \in Nat /\ Len(e) \in Nat
    OBVIOUS
  <2> HIDE DEF path
  <2>3. QED
    BY <2>1, <2>2
<1> HIDE DEF path
<1>2. IsPrefix(n, path)
  BY <1>1, PrefixPointwise
<1>3. QED
  BY <1>2 DEF path

\* Another that is a prefix of them, and is as long, continues it with a slash.
LEMMA LongerPrefix ==
  ASSUME NEW n \in Seq(Nat), NEW e \in Seq(Nat), NEW m \in Seq(Nat),
         IsPrefix(m, Joined(n, e)), Len(m) >= Len(n)
  PROVE  m = n \/ IsPrefix(n \o <<Slash>>, m)
<1> DEFINE path == Joined(n, e)
           s == n \o <<Slash>>
<1>1. /\ path \in Seq(Nat)
      /\ \A i \in 1..Len(n) : path[i] = n[i]
      /\ path[Len(n) + 1] = Slash
  BY JoinedParts
<1>2. /\ s \in Seq(Nat) /\ Len(s) = Len(n) + 1
      /\ \A i \in 1..Len(n) : s[i] = n[i]
      /\ s[Len(n) + 1] = Slash
  BY DEF Slash
<1>3. IsPrefix(m, path)
  OBVIOUS
<1> HIDE DEF path, s
<1>4. \A i \in 1..Len(m) : m[i] = path[i]
  BY <1>1, <1>3, PrefixPointwise
<1>5. CASE Len(m) = Len(n)
  <2>1. \A i \in 1..Len(n) : m[i] = n[i]
    BY <1>1, <1>4, <1>5
  <2>2. QED
    BY <1>5, <2>1, SameElements
<1>6. CASE Len(m) > Len(n)
  <2>1. Len(s) <= Len(m)
    BY <1>2, <1>6
  <2>2. ASSUME NEW i \in 1..Len(s)
        PROVE  s[i] = m[i]
    <3>1. i \in 1..Len(m) /\ m[i] = path[i]
      <4>1. i \in Nat /\ i >= 1 /\ i <= Len(n) + 1 /\ Len(m) \in Nat
        BY <1>2
      <4>2. i \in 1..Len(m)
        BY <1>6, <4>1
      <4>3. QED
        BY <1>4, <4>2
    <3>2. CASE i \in 1..Len(n)
      BY <1>1, <1>2, <3>1, <3>2
    <3>3. CASE i = Len(n) + 1
      BY <1>1, <1>2, <3>1, <3>3
    <3>4. QED
      BY <1>2, <3>2, <3>3
  <2>3. IsPrefix(s, m)
    BY <1>2, <2>1, <2>2, PrefixPointwise
  <2>4. QED
    BY <2>3 DEF s
<1>7. QED
  BY <1>5, <1>6

\* The corpus of a path is the one whose name it was joined from: no other name
\* that is a prefix of the path is as long.
LEMMA OwnNameLongest ==
  ASSUME NEW map, DOMAIN map \subseteq Seq(Nat), Unambiguous(DOMAIN map),
         NEW n \in DOMAIN map, NEW e \in Seq(Nat)
  PROVE  Longest(Named(map, Joined(n, e))) = n
<1> DEFINE named == Named(map, Joined(n, e))
<1>1. n \in Seq(Nat) /\ n \in named
  BY OwnNamePrefix DEF Named
<1>2. ASSUME NEW m \in named, Len(m) >= Len(n)
      PROVE  m = n
  <2>1. m \in Seq(Nat) /\ m \in DOMAIN map /\ IsPrefix(m, Joined(n, e))
    BY DEF Named
  <2>2. m = n \/ IsPrefix(n \o <<Slash>>, m)
    BY <1>1, <1>2, <2>1, LongerPrefix
  <2>3. QED
    BY <2>1, <2>2 DEF Unambiguous
<1>3. \A m \in named : Len(m) \in Nat
  BY DEF Named
<1> HIDE DEF named
<1>4. \A m \in named : Len(m) <= Len(n)
  BY <1>1, <1>2, <1>3
<1>5. /\ Longest(named) \in named
      /\ Len(n) <= Len(Longest(named))
  BY <1>1, <1>4 DEF Longest
<1>6. Longest(named) = n
  BY <1>2, <1>5
<1>7. QED
  BY <1>6 DEF named

\* readEntry takes a path apart where the iteration put it together, for every
\* map with names that do not continue each other, and for every entry.
THEOREM PathFindsEntry ==
  ASSUME NEW map, DOMAIN map \subseteq Seq(Nat), Unambiguous(DOMAIN map),
         NEW n \in DOMAIN map, NEW e \in Seq(Nat)
  PROVE  /\ Known(map, Joined(n, e))
         /\ corpusFromPath(map, Joined(n, e)) = map[n]
         /\ entryFromPath(map, Joined(n, e)) = e
<1> DEFINE path == Joined(n, e)
<1>1. n \in Seq(Nat) /\ n # <<>>
  BY DEF Unambiguous
<1>2. /\ path \in Seq(Nat)
      /\ Len(path) = Len(n) + 1 + Len(e)
      /\ \A i \in 1..Len(e) : path[Len(n) + 1 + i] = e[i]
  BY <1>1, JoinedParts
<1>3. n \in Named(map, path)
  BY <1>1, OwnNamePrefix DEF Named
<1>4. Longest(Named(map, path)) = n
  BY OwnNameLongest
<1> HIDE DEF path
<1>5. SubSeq(path, Len(n) + 2, Len(path)) = e
  <2> DEFINE rest == SubSeq(path, Len(n) + 2, Len(path))
  <2>1. /\ rest \in Seq(Nat)
        /\ Len(rest) = Len(e)
        /\ \A i \in 1..Len(e) : rest[i] = path[Len(n) + 1 + i]
    <3>1. Len(n) + 2 \in Nat /\ 1 <= Len(n) + 2 /\ Len(n) + 2 <= Len(path) + 1
      BY <1>1, <1>2
    <3> DEFINE k == Len(n) + 2
    <3> HIDE DEF k
    <3>2. /\ SubSeq(path, k, Len(path)) \in Seq(Nat)
          /\ Len(SubSeq(path, k, Len(path))) = Len(path) - k + 1
          /\ \A i \in 1..(Len(path) - k + 1) :
               SubSeq(path, k, Len(path))[i] = path[k + i - 1]
      BY <1>2, <3>1, RestOfSequence DEF k
    <3>3. Len(path) - k + 1 = Len(e) /\ \A i \in 1..Len(e) : k + i - 1 = Len(n) + 1 + i
      BY <1>1, <1>2 DEF k
    <3>4. QED
      BY <3>2, <3>3 DEF k
  <2> HIDE DEF rest
  <2>2. \A i \in 1..Len(rest) : rest[i] = e[i]
    BY <1>2, <2>1
  <2>3. QED
    BY <2>1, <2>2, SameElements DEF rest
<1>6. Len(path) > Len(n)
  BY <1>1, <1>2
<1>7. /\ Known(map, path)
      /\ corpusFromPath(map, path) = map[n]
      /\ entryFromPath(map, path) = e
  BY <1>1, <1>3, <1>4, <1>5, <1>6 DEF Known, corpusFromPath, entryFromPath
<1>8. QED
  BY <1>7 DEF path
----------------------------------------------------------------------------
\* What MapOfList needs of the rest of the state to be inductive.
FillState ==
  /\ d_corpora \in Seq([file : File, recursive : BOOLEAN])
  /\ walk \in Seq(File)
  /\ pc = "push" => walk # <<>>

\* What a new key or a new value does to the map.
LEMMA AssignKeepsApart ==
  ASSUME NEW map, NEW n, NEW c,
         \A k, l \in DOMAIN map : k # l => ~Equivalent(k, l)
  PROVE  /\ \A k, l \in DOMAIN Assign(map, n, c) : k # l => ~Equivalent(k, l)
         /\ \A k \in DOMAIN Assign(map, n, c) :
              Assign(map, n, c)[k] = c \/ (k \in DOMAIN map /\ Assign(map, n, c)[k] = map[k])
<1> DEFINE same == {k \in DOMAIN map : Equivalent(k, n)}
           key == IF same = {} THEN n ELSE CHOOSE k \in same : TRUE
           new == Assign(map, n, c)
<1>1. new = Put(map, key, c)
  BY DEF Assign
<1>2. same # {} => key \in DOMAIN map
  OBVIOUS
<1>3. same = {} => key = n /\ \A k \in DOMAIN map : ~Equivalent(k, n) /\ ~Equivalent(n, k)
  BY DEF Equivalent
<1> HIDE DEF same, key, new
<1>4. /\ DOMAIN new = DOMAIN map \cup {key}
      /\ \A k \in DOMAIN new : new[k] = IF k = key THEN c ELSE map[k]
  BY <1>1 DEF Put
<1>5. \A k \in DOMAIN new : new[k] = c \/ (k \in DOMAIN map /\ new[k] = map[k])
  BY <1>4
<1>6. ASSUME NEW k \in DOMAIN new, NEW l \in DOMAIN new, k # l
      PROVE  ~Equivalent(k, l)
  <2>1. CASE same = {}
    BY <1>3, <1>4, <1>6, <2>1
  <2>2. CASE same # {}
    BY <1>2, <1>4, <1>6, <2>2
  <2>3. QED
    BY <2>1, <2>2
<1>7. QED
  BY <1>5, <1>6 DEF new

\* Appending loses no element.
LEMMA AppendKeepsElements ==
  ASSUME NEW S, NEW s \in Seq(S), NEW x \in S
  PROVE  /\ Append(s, x) \in Seq(S)
         /\ x \in ToSet(Append(s, x))
         /\ ToSet(s) \subseteq ToSet(Append(s, x))
<1>1. Append(s, x) \in Seq(S) /\ Len(Append(s, x)) = Len(s) + 1
  OBVIOUS
<1>2. /\ \A i \in 1..Len(s) : Append(s, x)[i] = s[i]
      /\ Append(s, x)[Len(s) + 1] = x
  OBVIOUS
<1>3. /\ Len(s) + 1 \in DOMAIN Append(s, x)
      /\ DOMAIN s \subseteq DOMAIN Append(s, x)
      /\ DOMAIN s = 1..Len(s)
  BY <1>1
<1>4. QED
  BY <1>1, <1>2, <1>3 DEF ToSet

\* Both ways of filling a reader go through push_back.
LEMMA PushKeepsMap ==
  ASSUME d_corpora \in Seq([file : File, recursive : BOOLEAN]), MapOfList,
         NEW n, NEW f \in File, NEW rec \in BOOLEAN, push_back(n, f, rec)
  PROVE  MapOfList' /\ d_corpora' \in Seq([file : File, recursive : BOOLEAN])
<1> DEFINE c == Corpus(f, rec)
<1>1. c \in [file : File, recursive : BOOLEAN]
  BY DEF Corpus
<1>2. d_corpora' = Append(d_corpora, c) /\ d_corporaMap' = Assign(d_corporaMap, n, c)
  BY DEF push_back
<1> HIDE DEF c
<1>3. /\ d_corpora' \in Seq([file : File, recursive : BOOLEAN])
      /\ c \in ToSet(d_corpora')
      /\ ToSet(d_corpora) \subseteq ToSet(d_corpora')
  BY <1>1, <1>2, AppendKeepsElements
<1>4. MapOfList'
  BY <1>2, <1>3, AssignKeepsApart DEF MapOfList
<1>5. QED
  BY <1>3, <1>4

\* No two keys of the map are one to it, and each has a corpus that getSize
\* counts, whatever the names and the files and in whatever order they come.
THEOREM MapAndList == Spec => []MapOfList
<1> DEFINE Inv == FillState /\ MapOfList
<1>1. Init => Inv
  <2> SUFFICES ASSUME Init
               PROVE  Inv
    OBVIOUS
  <2>1. d_corpora = <<>> /\ DOMAIN d_corporaMap = {}
    BY DEF Init, NoMap
  <2>2. walk = <<>> \/ walk = WalkOrder
    BY DEF Init
  <2>3. WalkOrder \in Seq(File)
    BY MultiCorpusAssumption
  <2>4. pc # "push"
    BY DEF Init
  <2>5. d_corpora \in Seq([file : File, recursive : BOOLEAN])
    BY <2>1
  <2>6. walk \in Seq(File)
    <3>1. <<>> \in Seq(File)
      OBVIOUS
    <3>2. QED
      BY <2>2, <2>3, <3>1, Zenon
  <2>7. MapOfList
    BY <2>1, Zenon DEF MapOfList
  <2>8. QED
    BY <2>4, <2>5, <2>6, <2>7 DEF FillState
<1>2. Inv /\ [Next]_vars => Inv'
  <2> SUFFICES ASSUME FillState, MapOfList, [Next]_vars
               PROVE  FillState' /\ MapOfList'
    OBVIOUS
  <2>1. ASSUME UNCHANGED reader, pc' = "push" => pc = "push"
        PROVE  FillState' /\ MapOfList'
    BY <2>1 DEF reader, FillState, MapOfList
  <2>2. ASSUME NEW n \in Name, NEW f \in File, NEW rec \in BOOLEAN, PushBack(n, f, rec)
        PROVE  FillState' /\ MapOfList'
    BY <2>2, PushKeepsMap DEF PushBack, FillState
  <2>3. CASE Walk
    <3>1. UNCHANGED <<d_corpora, d_corporaMap>>
      BY <2>3 DEF Walk
    <3>2. walk # <<>> /\ walk \in Seq(File) /\ Tail(walk) \in Seq(File)
      BY <2>3 DEF Walk, FillState
    <3>3. walk' = walk \/ (walk' = Tail(walk) /\ pc' = "walk")
      BY <2>3 DEF Walk
    <3>4. walk' \in Seq(File) /\ (pc' = "push" => walk' # <<>>)
      BY <3>2, <3>3
    <3> QED
      BY <3>1, <3>4 DEF FillState, MapOfList
  <2>4. CASE WalkPush
    <3>1. CASE disk[Head(walk)] # "absent"
      <4>1. walk \in Seq(File) /\ walk # <<>>
        BY <2>4 DEF WalkPush, FillState
      <4>2. Head(walk) \in File /\ Tail(walk) \in Seq(File)
        BY <4>1
      <4>3. walk' = Tail(walk) /\ pc' = "walk"
        BY <2>4, <3>1 DEF WalkPush
      <4>4. push_back(Stem[Head(walk)], Head(walk), FALSE)
        BY <2>4, <3>1 DEF WalkPush
      <4>5. QED
        BY <4>2, <4>3, <4>4, PushKeepsMap DEF FillState
    <3>2. CASE disk[Head(walk)] = "absent"
      BY <2>4, <3>2 DEF WalkPush, FillState, MapOfList
    <3>3. QED
      BY <3>1, <3>2
  <2>5. ASSUME WalkEnd \/ getSize \/ SizeNext \/ getEntries \/ ListNext \/ Return
        PROVE  UNCHANGED reader /\ (pc' = "push" => pc = "push")
    BY <2>5 DEF WalkEnd, getSize, SizeNext, getEntries, ListNext, Return, Begin
  <2>6. ASSUME NEW f \in File, NEW kind \in Kind, Change(f, kind)
        PROVE  UNCHANGED reader /\ (pc' = "push" => pc = "push")
    BY <2>6 DEF Change
  <2>7. CASE UNCHANGED vars
    BY <2>1, <2>7 DEF vars
  <2>8. QED
    BY <2>1, <2>2, <2>3, <2>4, <2>5, <2>6, <2>7 DEF Next
<1>3. QED
  BY <1>1, <1>2, PTL DEF Spec
----------------------------------------------------------------------------
(* The tools, whose reader has such a map: from the arguments to the loop. *)

Phase ==
  {"open", "type", "macros", "check", "start", "next", "loop", "get", "end", "exited"}

Doc == [name : Int, hits : Nat, readable : BOOLEAN]

Line == Int \X Int

\* The corpus that is asked whether it takes the query.
Asked == IF Multi THEN CorporaMap[1] ELSE args[1]

\* What each part of main has left behind it when it goes on.
PastOpen ==
  phase \notin {"open", "exited"} =>
    \A i \in DOMAIN args :
      args[i].state \notin IF Multi THEN {"missing"} ELSE {"missing", "unopenable", "damaged"}

PastMacros ==
  phase \notin {"open", "type", "macros", "exited"} => option # "nomacros"

PastCheck ==
  phase \notin {"open", "type", "macros", "check", "exited"} /\ HasQuery =>
    Asked.state = "unopenable" \/ (option # "invalid" /\ ~Refuses(Asked))

PastStart ==
  phase \in {"next", "loop", "get", "end"} => target = 0

Arguments ==
  /\ tool \in Tool /\ args \in Seq(Corpora) /\ args # <<>> /\ option \in Option
  /\ tool.corpora = "one" => Len(args) = 1
  /\ tool.query = "needed" => option # "none"

Passed == Arguments /\ phase \in Phase /\ PastOpen /\ PastMacros /\ PastCheck /\ PastStart

LEMMA PassedAtStart == InitTool => Passed
<1> SUFFICES ASSUME InitTool PROVE Passed
  OBVIOUS
<1>1. Arguments
  <2>1. PICK n \in 1..MaxArgs : args \in [1..n -> Corpora]
    BY DEF InitTool
  <2>2. n \in Nat \ {0}
    BY <2>1, ToolsAssumption
  <2>3. args \in Seq(Corpora) /\ Len(args) = n
    BY <2>1, <2>2
  <2> QED
    BY <2>2, <2>3 DEF InitTool, Arguments
<1> QED
  BY <1>1 DEF InitTool, Passed, PastOpen, PastMacros, PastCheck, PastStart, Phase

\* What was asked and given stays.
LEMMA ArgumentsStay ==
  ASSUME [ToolStep]_toolVars
  PROVE  UNCHANGED <<tool, args, option, target>>
BY DEF ToolStep, OpenReader, Type, Macros, Check, Start, NextCorpus, EndOfCorpus, Document,
       Get, End, Thrown, Exit, Go, toolVars

LEMMA PassedKept ==
  ASSUME Passed, [ToolStep]_toolVars
  PROVE  Passed'
<1>1. UNCHANGED <<tool, args, option, target>>
  BY ArgumentsStay
<1>2. /\ Multi' = Multi /\ HasQuery' = HasQuery /\ CorporaMap' = CorporaMap
      /\ \A c : Refuses(c)' <=> Refuses(c)
  BY <1>1 DEF Multi, HasQuery, CorporaMap, Refuses
<1>3. Asked' = Asked
  BY <1>1, <1>2 DEF Asked
<1>4. Arguments'
  BY <1>1 DEF Passed, Arguments
<1>5. CASE phase' = phase
  BY <1>1, <1>2, <1>3, <1>4, <1>5 DEF Passed, PastOpen, PastMacros, PastCheck, PastStart
<1>6. CASE phase' = "exited"
  BY <1>4, <1>6 DEF Passed, PastOpen, PastMacros, PastCheck, PastStart, Phase
<1>7. CASE OpenReader /\ phase' \in {"type", "macros"}
  <2>1. PastOpen'
    BY <1>1, <1>2, <1>7 DEF OpenReader, Exit, PastOpen
  <2> QED
    BY <1>4, <1>7, <2>1 DEF Passed, PastMacros, PastCheck, PastStart, Phase
<1>8. CASE Type /\ phase' = "macros"
  BY <1>1, <1>2, <1>4, <1>8 DEF Type, Passed, PastOpen, PastMacros, PastCheck, PastStart, Phase
<1>9. CASE Macros /\ phase' \in {"check", "start"}
  <2>1. phase = "macros" /\ option # "nomacros" /\ (phase' = "start" => ~HasQuery)
    BY <1>9 DEF Macros, Exit, Go
  <2> QED
    BY <1>1, <1>2, <1>4, <1>9, <2>1 DEF Passed, PastOpen, PastMacros, PastCheck, PastStart, Phase
<1>10. CASE Check /\ phase' = "start"
  <2>1. phase = "check" /\ (Asked.state = "unopenable" \/ (option # "invalid" /\ ~Refuses(Asked)))
    BY <1>10 DEF Check, Exit, Asked
  <2> QED
    BY <1>1, <1>2, <1>3, <1>4, <1>10, <2>1 DEF Passed, PastOpen, PastMacros, PastCheck, PastStart, Phase
<1>11. CASE Start /\ phase' \in {"get", "next", "loop"}
  <2>1. phase = "start" /\ target = 0
    BY <1>11 DEF Start, Exit
  <2> QED
    BY <1>1, <1>2, <1>3, <1>4, <1>11, <2>1 DEF Passed, PastOpen, PastMacros, PastCheck, PastStart, Phase
<1>12. CASE /\ phase \in {"next", "loop", "get", "end"}
            /\ phase' \in {"next", "loop", "get", "end"}
  BY <1>1, <1>2, <1>3, <1>4, <1>12 DEF Passed, PastOpen, PastMacros, PastCheck, PastStart, Phase
<1>13. \/ phase' = phase \/ phase' = "exited"
       \/ OpenReader /\ phase' \in {"type", "macros"}
       \/ Type /\ phase' = "macros"
       \/ Macros /\ phase' \in {"check", "start"}
       \/ Check /\ phase' = "start"
       \/ Start /\ phase' \in {"get", "next", "loop"}
       \/ /\ phase \in {"next", "loop", "get", "end"}
          /\ phase' \in {"next", "loop", "get", "end"}
  BY DEF ToolStep, OpenReader, Type, Macros, Check, Start, NextCorpus, EndOfCorpus, Document,
         Get, End, Thrown, Exit, Go, toolVars
<1> QED
  BY <1>5, <1>6, <1>7, <1>8, <1>9, <1>10, <1>11, <1>12, <1>13

\* When create opens its writer, which empties the file it is given, that file is
\* none of its corpora, these exist, its macros were read and its query was let
\* through: the comparison and the checks of main all come before.
THEOREM Survival == ToolSpec => []SourceSurvives
<1>1. Passed => SourceSurvives
  <2> SUFFICES ASSUME Passed, phase \in {"next", "loop", "end"}
               PROVE  /\ target = 0
                      /\ \A i \in DOMAIN args : args[i].state # "missing"
                      /\ option # "nomacros"
                      /\ option = "invalid" => Multi /\ CorporaMap[1].state = "unopenable"
    BY DEF SourceSurvives
  <2>1. 1 \in DOMAIN args
    BY DEF Passed, Arguments
  <2>2. target = 0 /\ option # "nomacros"
    BY DEF Passed, PastMacros, PastStart
  <2>3. \A i \in DOMAIN args : args[i].state # "missing" /\ (~Multi => args[i].state # "unopenable")
    BY DEF Passed, PastOpen
  <2>4. option = "invalid" => Asked.state = "unopenable"
    BY DEF Passed, PastCheck, HasQuery
  <2> QED
    BY <2>1, <2>2, <2>3, <2>4 DEF Asked
<1> QED
  BY <1>1, PassedAtStart, PassedKept, PTL DEF ToolSpec

----------------------------------------------------------------------------
(* Each element at its first place only.                                   *)

Before(s, i) == \E j \in 1..(i - 1) : s[j] = s[i]

Adds(s, S) ==
  [i \in 1..Len(s) |-> [q \in Seq(S) |-> IF Before(s, i) THEN q ELSE Append(q, s[i])]]

OnceTo(s, S) == CHOOSE f : Builds(f, Seq(S), <<>>, Len(s), Adds(s, S))

LEMMA Adding ==
  ASSUME NEW S, NEW s \in Seq(S)
  PROVE  /\ Builds(OnceTo(s, S), Seq(S), <<>>, Len(s), Adds(s, S))
         /\ OnceTo(s, S) \in [0..Len(s) -> Seq(S)]
         /\ OnceTo(s, S)[0] = <<>>
         /\ \A i \in 1..Len(s) : OnceTo(s, S)[i] = IF Before(s, i) THEN OnceTo(s, S)[i - 1]
                                                   ELSE Append(OnceTo(s, S)[i - 1], s[i])
<1> DEFINE n == Len(s)
           T == Seq(S)
           h == Adds(s, S)
           none == <<>>
           f == OnceTo(s, S)
<1>1. n \in Nat /\ \A i \in 1..n : s[i] \in S
  OBVIOUS
<1>2. h \in [1..n -> [T -> T]]
  BY <1>1 DEF Adds
<1>3. none \in T
  OBVIOUS
<1>4. Builds(f, T, none, n, h)
  <2>1. \E g : Builds(g, T, none, n, h)
    <3> HIDE DEF T, h, none, n
    <3> QED
      BY <1>1, <1>2, <1>3, Building
  <2> QED
    BY <2>1 DEF OnceTo
<1>5. f \in [0..n -> T] /\ f[0] = <<>> /\ \A i \in 1..n : f[i] = h[i][f[i - 1]]
  BY <1>4 DEF Builds
<1>6. ASSUME NEW i \in 1..n
      PROVE  f[i] = IF Before(s, i) THEN f[i - 1] ELSE Append(f[i - 1], s[i])
  <2>1. i - 1 \in 0..n
    BY <1>1
  <2> HIDE DEF f
  <2>2. f[i - 1] \in Seq(S)
    BY <1>5, <2>1
  <2>3. h[i][f[i - 1]] = IF Before(s, i) THEN f[i - 1] ELSE Append(f[i - 1], s[i])
    BY <2>2 DEF Adds
  <2> QED
    BY <1>5, <2>3
<1> QED
  BY <1>4, <1>5, <1>6

\* The recursion of Once is the only one.
LEMMA OnceIsAdded ==
  ASSUME NEW S, NEW s \in Seq(S)
  PROVE  Once(s) = OnceTo(s, S)[Len(s)]
<1> DEFINE n == Len(s)
           f == OnceTo(s, S)
           step(g) == [i \in 0..n |-> IF i = 0 THEN <<>>
                                      ELSE IF \E j \in 1..(i - 1) : s[j] = s[i] THEN g[i - 1]
                                      ELSE Append(g[i - 1], s[i])]
           upTo == CHOOSE g : g = step(g)
<1>1. Once(s) = upTo[n]
  BY DEF Once
<1>2. n \in Nat /\ f \in [0..n -> Seq(S)] /\ f[0] = <<>>
  BY Adding
<1>3. upTo = step(upTo)
  <2>1. \A i \in 0..n : f[i] = IF i = 0 THEN <<>>
                               ELSE IF \E j \in 1..(i - 1) : s[j] = s[i] THEN f[i - 1]
                               ELSE Append(f[i - 1], s[i])
    <3>1. \A i \in 1..n : f[i] = IF Before(s, i) THEN f[i - 1] ELSE Append(f[i - 1], s[i])
      BY Adding
    <3> HIDE DEF f
    <3>2. \A i \in 0..n : i # 0 => i \in 1..n
      BY <1>2
    <3> QED
      BY <1>2, <3>1, <3>2 DEF Before
  <2>2. f = [i \in 0..n |-> f[i]]
    <3> HIDE DEF f
    <3> QED
      BY <1>2
  <2> HIDE DEF f
  <2>3. f = step(f)
    BY <2>1, <2>2
  <2> HIDE DEF step
  <2> QED
    BY <2>3
<1> HIDE DEF upTo
<1>4. ASSUME NEW i \in 1..n, upTo[i - 1] \in Seq(S)
      PROVE  upTo[i] = Adds(s, S)[i][upTo[i - 1]]
  <2>1. i \in 0..n /\ i # 0
    BY <1>2
  <2>2. upTo[i] = IF i = 0 THEN <<>>
                  ELSE IF \E j \in 1..(i - 1) : s[j] = s[i] THEN upTo[i - 1]
                  ELSE Append(upTo[i - 1], s[i])
    BY <1>3, <2>1
  <2>3. upTo[i] = IF Before(s, i) THEN upTo[i - 1] ELSE Append(upTo[i - 1], s[i])
    BY <2>1, <2>2 DEF Before
  <2> QED
    BY <1>4, <2>3 DEF Adds
<1>5. upTo[0] = <<>>
  BY <1>2, <1>3
<1>6. Same(f, upTo, n)
  <2> DEFINE T == Seq(S)
             none == <<>>
             h == Adds(s, S)
  <2>1. n \in Nat /\ Builds(f, T, none, n, h) /\ Follows(upTo, T, none, n, h)
    BY <1>2, <1>4, <1>5, Adding DEF Follows
  <2> HIDE DEF n, T, none, h, f
  <2> QED
    BY <2>1, BuildingIsUnique
<1> QED
  BY <1>1, <1>2, <1>6 DEF Same

LEMMA OnceOfBeginning ==
  ASSUME NEW S, NEW s \in Seq(S), NEW t \in Seq(S)
  PROVE  OnceTo(s \o t, S)[Len(s)] = Once(s)
<1> DEFINE u == s \o t
           n == Len(s)
           T == Seq(S)
           none == <<>>
           h == Adds(s, S)
           f == OnceTo(s, S)
           g == OnceTo(u, S)
<1>1. /\ n \in Nat /\ u \in Seq(S) /\ n <= Len(u) /\ Len(u) \in Nat
      /\ \A i \in 1..n : u[i] = s[i]
  OBVIOUS
<1>2. /\ g \in [0..Len(u) -> T] /\ g[0] = none
      /\ \A i \in 1..Len(u) : g[i] = IF Before(u, i) THEN g[i - 1] ELSE Append(g[i - 1], u[i])
  <2> HIDE DEF u
  <2> QED
    BY <1>1, Adding
<1>3. Builds(f, T, none, n, h)
  BY Adding
<1> HIDE DEF g, f, u, n
<1>4. ASSUME NEW i \in 1..n, g[i - 1] \in T PROVE g[i] = h[i][g[i - 1]]
  <2>1. i \in 1..Len(u) /\ u[i] = s[i] /\ \A j \in 1..(i - 1) : j \in 1..n /\ u[j] = s[j]
    BY <1>1
  <2>2. Before(u, i) <=> Before(s, i)
    BY <2>1 DEF Before
  <2>3. h[i][g[i - 1]] = IF Before(s, i) THEN g[i - 1] ELSE Append(g[i - 1], s[i])
    BY <1>4 DEF Adds, n
  <2> QED
    BY <1>2, <2>1, <2>2, <2>3
<1>5. Follows(g, T, none, n, h)
  BY <1>2, <1>4 DEF Follows
<1>6. Same(f, g, n)
  <2> HIDE DEF T, none, h
  <2> QED
    BY <1>1, <1>3, <1>5, BuildingIsUnique
<1>7. g[n] = f[n]
  BY <1>1, <1>6 DEF Same
<1>8. Once(s) = f[n]
  BY OnceIsAdded DEF f, n
<1> QED
  BY <1>7, <1>8 DEF g, u, n

LEMMA OnceGrows ==
  ASSUME NEW S, NEW s \in Seq(S), NEW t \in Seq(S)
  PROVE  IsPrefix(Once(s), Once(s \o t))
<1> DEFINE u == s \o t
           n == Len(u)
           none == <<>>
           h == Adds(u, S)
           g == OnceTo(u, S)
<1>1. n \in Nat /\ u \in Seq(S) /\ Len(s) \in 0..n /\ \A i \in 1..n : u[i] \in S
  OBVIOUS
<1> HIDE DEF u
<1>2. Builds(g, Seq(S), none, n, h)
  BY <1>1, Adding
<1>3. ASSUME NEW k \in 1..n, NEW q \in Seq(S) PROVE IsPrefix(q, h[k][q])
  <2>1. h[k][q] = IF Before(u, k) THEN q ELSE Append(q, u[k])
    BY DEF Adds
  <2>2. IsPrefix(q, q)
    BY PrefixOfItself
  <2>3. IsPrefix(q, Append(q, u[k]))
    <3>1. <<u[k]>> \in Seq(S) /\ Append(q, u[k]) = q \o <<u[k]>>
      BY <1>1
    <3>2. IsPrefix(q, q \o <<u[k]>>)
      BY <3>1, PrefixOfLonger
    <3> QED
      BY <3>1, <3>2
  <2> QED
    BY <2>1, <2>2, <2>3
<1>4. IsPrefix(g[Len(s)], g[n])
  <2> HIDE DEF g, n, h, none
  <2> QED
    BY <1>1, <1>2, <1>3, Growing
<1>5. g[n] = Once(u)
  BY <1>1, OnceIsAdded
<1>6. g[Len(s)] = Once(s)
  BY OnceOfBeginning DEF u
<1> QED
  BY <1>4, <1>5, <1>6 DEF u

Elements(s) == {s[i] : i \in 1..Len(s)}

Times(x, m) == [k \in 1..m |-> x]

LEMMA ElementsOfRepeated ==
  ASSUME NEW S, NEW s \in Seq(S), NEW x \in S, NEW m \in Nat
  PROVE  Elements(s \o Times(x, m)) = IF m = 0 THEN Elements(s) ELSE Elements(s) \union {x}
<1> DEFINE t == Times(x, m)
           u == s \o t
<1>1. t \in Seq(S) /\ Len(t) = m /\ \A k \in 1..m : t[k] = x
  BY DEF Times
<1> HIDE DEF t
<1>2. /\ u \in Seq(S) /\ Len(u) = Len(s) + m /\ Len(s) \in Nat
      /\ \A i \in 1..Len(s) : u[i] = s[i]
      /\ \A k \in 1..m : u[Len(s) + k] = t[k]
  BY <1>1
<1> HIDE DEF u
<1>3. \A i \in 1..Len(u) : i \in 1..Len(s) \/ (i - Len(s) \in 1..m /\ Len(s) + (i - Len(s)) = i)
  BY <1>2
<1>4. Elements(u) \subseteq IF m = 0 THEN Elements(s) ELSE Elements(s) \union {x}
  <2>1. ASSUME NEW i \in 1..Len(u)
        PROVE  u[i] \in Elements(s) \/ (m # 0 /\ u[i] = x)
    <3>1. CASE i \in 1..Len(s)
      BY <1>2, <3>1 DEF Elements
    <3>2. CASE i - Len(s) \in 1..m /\ Len(s) + (i - Len(s)) = i
      BY <1>1, <1>2, <3>2
    <3> QED
      BY <1>3, <3>1, <3>2
  <2> QED
    BY <2>1 DEF Elements
<1>5. Elements(s) \subseteq Elements(u)
  <2>1. \A i \in 1..Len(s) : i \in 1..Len(u)
    BY <1>2
  <2> QED
    BY <1>2, <2>1 DEF Elements
<1>6. m # 0 => x \in Elements(u)
  <2> SUFFICES ASSUME m # 0 PROVE x \in Elements(u)
    OBVIOUS
  <2>1. 1 \in 1..m /\ Len(s) + 1 \in 1..Len(u)
    BY <1>2
  <2>2. u[Len(s) + 1] = x
    BY <1>1, <1>2, <2>1
  <2> QED
    BY <2>1, <2>2 DEF Elements
<1> QED
  BY <1>1, <1>4, <1>5, <1>6 DEF t, u

LEMMA OnceOfRepeated ==
  ASSUME NEW S, NEW s \in Seq(S), NEW x \in S, NEW m \in Nat
  PROVE  Once(s \o Times(x, m))
           = IF m = 0 \/ x \in Elements(s) THEN Once(s) ELSE Append(Once(s), x)
<1> DEFINE t == Times(x, m)
           u == s \o t
           n == Len(s)
           g == OnceTo(u, S)
           once == IF x \in Elements(s) THEN Once(s) ELSE Append(Once(s), x)
<1>1. t \in Seq(S) /\ Len(t) = m /\ \A k \in 1..m : t[k] = x
  BY DEF Times
<1>2. g[n] = Once(s)
  BY <1>1, OnceOfBeginning
<1> HIDE DEF t
<1>3. /\ u \in Seq(S) /\ Len(u) = n + m /\ n \in Nat
      /\ \A i \in 1..n : u[i] = s[i]
      /\ \A k \in 1..m : u[n + k] = x
  BY <1>1
<1> HIDE DEF u
<1>4. /\ g \in [0..Len(u) -> Seq(S)]
      /\ \A i \in 1..Len(u) : g[i] = IF Before(u, i) THEN g[i - 1] ELSE Append(g[i - 1], u[i])
  BY <1>3, Adding
<1>5. Once(u) = g[n + m]
  BY <1>3, OnceIsAdded
<1> HIDE DEF g, n
<1> DEFINE Q == {k \in Nat : k + 1 <= m => g[n + (k + 1)] = once}
<1>6. 0 \in Q
  <2> SUFFICES ASSUME 1 <= m PROVE g[n + 1] = once
    OBVIOUS
  <2>1. 1 \in 1..m /\ n + 1 \in 1..Len(u) /\ (n + 1) - 1 = n
    BY <1>3
  <2>2. u[n + 1] = x
    BY <1>3, <2>1
  <2>3. Before(u, n + 1) <=> x \in Elements(s)
    BY <1>3, <2>1, <2>2 DEF Before, Elements, n
  <2> QED
    BY <1>2, <1>4, <2>1, <2>2, <2>3
<1>7. ASSUME NEW k \in Nat, k \in Q PROVE k + 1 \in Q
  <2> SUFFICES ASSUME (k + 1) + 1 <= m PROVE g[n + ((k + 1) + 1)] = once
    OBVIOUS
  <2> DEFINE i == n + ((k + 1) + 1)
  <2>1. /\ i \in 1..Len(u) /\ i - 1 = n + (k + 1) /\ n + (k + 1) \in 1..(i - 1)
        /\ (k + 1) + 1 \in 1..m /\ k + 1 \in 1..m
    BY <1>3
  <2>2. u[i] = x /\ u[n + (k + 1)] = x
    BY <1>3, <2>1
  <2>3. g[n + (k + 1)] = once
    BY <1>7, <2>1
  <2> HIDE DEF i, once
  <2>4. Before(u, i)
    BY <2>1, <2>2 DEF Before
  <2>5. g[i] = once
    BY <1>4, <2>1, <2>3, <2>4
  <2> QED
    BY <2>5 DEF i
<1>8. Nat \subseteq Q
  <2> HIDE DEF Q
  <2> QED
    BY <1>6, <1>7, Induction
<1>9. CASE m = 0
  BY <1>2, <1>3, <1>5, <1>9 DEF u, t
<1>10. CASE m # 0
  <2>1. m - 1 \in Nat /\ (m - 1) + 1 = m
    BY <1>10
  <2>2. g[n + m] = once
    BY <1>8, <2>1
  <2> QED
    BY <1>5, <1>10, <2>2 DEF u, t
<1> QED
  BY <1>9, <1>10

----------------------------------------------------------------------------
(* The map of names of a MultiCorpusReader is a sequence of arguments.     *)

Rank(S, x) == {y \in S : y < x}

\* The elements of a finite set of numbers can be numbered in order; the last is
\* the greatest.
LEMMA Ranks ==
  \A n \in Nat : \A S \in SUBSET Int :
    IsFiniteSet(S) /\ Cardinality(S) = n
    => /\ n # 0 => \E x \in S : \A y \in S : y <= x
       /\ \A k \in 1..n : \E x \in S : Cardinality(Rank(S, x)) = k - 1
<1> DEFINE Greatest(S) == \E x \in S : \A y \in S : y <= x
           Ranked(S, n) == \A k \in 1..n : \E x \in S : Cardinality(Rank(S, x)) = k - 1
           Q == {n \in Nat : \A S \in SUBSET Int :
                   IsFiniteSet(S) /\ Cardinality(S) = n => (n # 0 => Greatest(S)) /\ Ranked(S, n)}
<1>1. 0 \in Q
  OBVIOUS
<1>2. ASSUME NEW n \in Nat, n \in Q PROVE n + 1 \in Q
  <2> SUFFICES ASSUME NEW S \in SUBSET Int, IsFiniteSet(S), Cardinality(S) = n + 1
               PROVE  Greatest(S) /\ Ranked(S, n + 1)
    OBVIOUS
  <2>1. PICK z : z \in S
    <3>1. S # {}
      BY FS_EmptySet
    <3> QED
      BY <3>1
  <2> DEFINE R == S \ {z}
  <2>2. R \in SUBSET Int /\ IsFiniteSet(R) /\ Cardinality(R) = n
    BY <2>1, FS_RemoveElement
  <2>3. Greatest(S)
    <3>1. CASE n = 0
      <4>1. R = {}
        BY <2>2, <3>1, FS_EmptySet
      <4> QED
        BY <2>1, <4>1
    <3>2. CASE n # 0
      <4>1. PICK x \in R : \A y \in R : y <= x
        BY <1>2, <2>2, <3>2
      <4>2. x \in S /\ x \in Int /\ z \in Int /\ S = R \union {z}
        BY <2>1, <2>2
      <4> HIDE DEF R
      <4>3. CASE z <= x
        BY <4>1, <4>2, <4>3
      <4>4. CASE ~(z <= x)
        <5>1. \A y \in S : y <= z
          BY <2>2, <4>1, <4>2, <4>4
        <5> QED
          BY <2>1, <5>1
      <4> QED
        BY <4>3, <4>4
    <3> QED
      BY <3>1, <3>2
  <2>4. PICK top \in S : \A y \in S : y <= top
    BY <2>3
  <2> DEFINE B == S \ {top}
  <2>5. B \in SUBSET Int /\ IsFiniteSet(B) /\ Cardinality(B) = n
    BY <2>4, FS_RemoveElement
  <2>6. Ranked(B, n)
    BY <1>2, <2>5
  <2>7. ASSUME NEW k \in 1..(n + 1)
        PROVE  \E x \in S : Cardinality(Rank(S, x)) = k - 1
    <3>1. CASE k = n + 1
      <4>1. Rank(S, top) = B
        <5>1. \A y \in S : y < top <=> y # top
          BY <2>4
        <5> QED
          BY <5>1 DEF Rank
      <4>2. Cardinality(Rank(S, top)) = k - 1
        BY <2>5, <3>1, <4>1
      <4> QED
        BY <4>2
    <3>2. CASE k \in 1..n
      <4>1. PICK x \in B : Cardinality(Rank(B, x)) = k - 1
        BY <2>6, <3>2
      <4>2. Rank(S, x) = Rank(B, x)
        BY <2>4 DEF Rank
      <4> QED
        BY <4>1, <4>2
    <3> QED
      BY <3>1, <3>2
  <2> QED
    BY <2>3, <2>7
<1>3. Nat \subseteq Q
  <2> HIDE DEF Q
  <2> QED
    BY <1>1, <1>2, Induction
<1> QED
  BY <1>3

LEMMA GivenIsSequence ==
  ASSUME Arguments
  PROVE  Given \in Seq(Corpora)
<1> DEFINE n == Len(args)
           names == {args[i].name : i \in DOMAIN args}
           Of(m) == {i \in DOMAIN args : args[i].name = m}
           At(m) == args[CHOOSE i \in DOMAIN args :
                           /\ args[i].name = m
                           /\ \A j \in DOMAIN args : args[j].name = m => j <= i]
           Nth(k) == CHOOSE m \in names : Cardinality({l \in names : l < m}) = k - 1
<1>1. args \in Seq(Corpora) /\ n \in Nat /\ DOMAIN args = 1..n
  BY DEF Arguments
<1>2. \A i \in 1..n : args[i] \in Corpora /\ args[i].name \in Int
  BY <1>1, ToolsAssumption
<1>3. names \in SUBSET Int
  BY <1>1, <1>2
<1>4. IsFiniteSet(names)
  <2> DEFINE f == [i \in 1..n |-> args[i].name]
  <2>1. f \in Surjection(1..n, names)
    BY <1>1 DEF Surjection
  <2>2. IsFiniteSet(1..n)
    BY <1>1, FS_Interval
  <2> QED
    BY <2>1, <2>2, FS_Surjection
<1>5. ASSUME NEW k \in 1..Cardinality(names) PROVE At(Nth(k)) \in Corpora
  <2>1. Cardinality(names) \in Nat
    BY <1>4, FS_CardinalityType
  <2>2. \E m \in names : Cardinality(Rank(names, m)) = k - 1
    <3> HIDE DEF names
    <3> QED
      BY <1>3, <1>4, <2>1, Ranks
  <2>3. Nth(k) \in names
    BY <2>2 DEF Rank
  <2> DEFINE m == Nth(k)
             S == Of(m)
  <2>4. S # {} /\ S \in SUBSET Int /\ S \in SUBSET (1..n)
    <3>1. m \in names
      BY <2>3
    <3> HIDE DEF m
    <3> QED
      BY <1>1, <3>1
  <2>5. IsFiniteSet(S) /\ Cardinality(S) \in Nat /\ Cardinality(S) # 0
    <3> HIDE DEF S
    <3>1. IsFiniteSet(1..n)
      BY <1>1, FS_Interval
    <3>2. IsFiniteSet(S)
      BY <2>4, <3>1, FS_Subset
    <3> QED
      BY <2>4, <3>2, FS_CardinalityType, FS_EmptySet
  <2>6. \E i \in S : \A j \in S : j <= i
    <3> HIDE DEF S
    <3> QED
      BY <2>4, <2>5, Ranks
  <2>7. \E i \in DOMAIN args : /\ args[i].name = m
                               /\ \A j \in DOMAIN args : args[j].name = m => j <= i
    <3> HIDE DEF m
    <3> QED
      BY <2>6
  <2> HIDE DEF m
  <2>8. At(m) \in Corpora
    BY <1>1, <1>2, <2>7
  <2> QED
    BY <2>8 DEF m
<1>6. CorporaMap = [k \in 1..Cardinality(names) |-> At(Nth(k))]
  BY DEF CorporaMap
<1>7. Cardinality(names) \in Nat
  BY <1>4, FS_CardinalityType
<1>8. CorporaMap \in Seq(Corpora)
  <2> HIDE DEF names, At, Nth
  <2> QED
    BY <1>5, <1>6, <1>7
<1> QED
  BY <1>1, <1>8 DEF Given

----------------------------------------------------------------------------
(* How far a tool has come.                                                *)

From(s, k) == SubSeq(s, k + 1, Len(s))

LEMMA Rest ==
  ASSUME NEW S, NEW s \in Seq(S), NEW k \in 0..Len(s)
  PROVE  /\ From(s, k) \in Seq(S)
         /\ From(s, 0) = s
         /\ From(s, k) = <<>> <=> k = Len(s)
         /\ k < Len(s) => Head(From(s, k)) = s[k + 1] /\ Tail(From(s, k)) = From(s, k + 1)
<1> DEFINE r == From(s, k)
           n == Len(s)
<1>1. /\ n \in Nat /\ r \in Seq(S) /\ Len(r) = n - k
      /\ \A i \in 1..(n - k) : r[i] = s[k + i]
  BY DEF From
<1>2. From(s, 0) = s
  BY DEF From
<1>3. r = <<>> <=> k = n
  <2> HIDE DEF r
  <2> QED
    BY <1>1
<1>4. ASSUME k < n PROVE Head(r) = s[k + 1] /\ Tail(r) = From(s, k + 1)
  <2> DEFINE u == From(s, k + 1)
  <2>1. /\ u \in Seq(S) /\ Len(u) = n - (k + 1)
        /\ \A i \in 1..(n - (k + 1)) : u[i] = s[(k + 1) + i]
    BY <1>4 DEF From
  <2> HIDE DEF r, u
  <2>2. r # <<>> /\ Head(r) = r[1] /\ 1 \in 1..(n - k)
    BY <1>1, <1>4
  <2>3. Tail(r) \in Seq(S) /\ Len(Tail(r)) = n - (k + 1)
    BY <1>1, <2>2
  <2>4. ASSUME NEW i \in 1..(n - (k + 1)) PROVE Tail(r)[i] = u[i]
    <3>1. i + 1 \in 1..(n - k) /\ k + (i + 1) = (k + 1) + i
      BY <1>1
    <3>2. Tail(r)[i] = r[i + 1]
      BY <1>1, <2>2
    <3> QED
      BY <1>1, <2>1, <3>1, <3>2
  <2>5. Tail(r) = u
    BY <2>1, <2>3, <2>4, SeqEqual
  <2> QED
    BY <1>1, <2>2, <2>5 DEF u
<1> QED
  BY <1>1, <1>2, <1>3, <1>4

LEMMA PrefixAfter ==
  ASSUME NEW S, NEW a \in Seq(S), NEW s \in Seq(S), NEW t \in Seq(S), IsPrefix(s, t)
  PROVE  IsPrefix(a \o s, a \o t)
<1> DEFINE u == a \o s
           v == a \o t
           n == Len(a)
<1>1. Len(s) <= Len(t) /\ \A i \in 1..Len(s) : s[i] = t[i]
  BY PrefixIsBeginning
<1>2. /\ u \in Seq(S) /\ v \in Seq(S) /\ Len(u) = n + Len(s) /\ Len(v) = n + Len(t)
      /\ n \in Nat /\ Len(s) \in Nat /\ Len(t) \in Nat
      /\ \A i \in 1..n : u[i] = v[i]
      /\ \A i \in 1..Len(s) : u[n + i] = s[i]
      /\ \A i \in 1..Len(t) : v[n + i] = t[i]
  OBVIOUS
<1> HIDE DEF u, v, n
<1>3. ASSUME NEW i \in 1..Len(u) PROVE u[i] = v[i]
  <2>1. CASE i \in 1..n
    BY <1>2, <2>1
  <2>2. CASE i \notin 1..n
    <3>1. i - n \in 1..Len(s) /\ i - n \in 1..Len(t) /\ n + (i - n) = i
      BY <1>1, <1>2, <2>2
    <3>2. u[n + (i - n)] = s[i - n] /\ v[n + (i - n)] = t[i - n]
      BY <1>2, <3>1
    <3> QED
      BY <1>1, <3>1, <3>2
  <2> QED
    BY <2>1, <2>2
<1>4. Len(u) <= Len(v)
  BY <1>1, <1>2
<1>5. IsPrefix(u, v)
  BY <1>2, <1>3, <1>4, PrefixIsBeginning
<1> QED
  BY <1>5 DEF u, v

\* A list of so many elements.
LEMMA Listed ==
  ASSUME NEW S, NEW n \in Nat, NEW f \in [1..n -> S]
  PROVE  f \in Seq(S) /\ Len(f) = n
OBVIOUS

LEMMA PrefixIsPart ==
  ASSUME NEW S, NEW s \in Seq(S), NEW t \in Seq(S), IsPrefix(s, t)
  PROVE  \E r \in Seq(S) : t = s \o r
<1> DEFINE n == Len(s)
           r == From(t, n)
           u == s \o r
<1>1. n \in Nat /\ Len(t) \in Nat /\ n <= Len(t) /\ \A i \in 1..n : s[i] = t[i]
  BY PrefixIsBeginning
<1>2. r \in Seq(S) /\ Len(r) = Len(t) - n /\ \A i \in 1..(Len(t) - n) : r[i] = t[n + i]
  BY <1>1 DEF From
<1> HIDE DEF r
<1>3. /\ u \in Seq(S) /\ Len(u) = Len(t)
      /\ \A i \in 1..n : u[i] = s[i]
      /\ \A i \in 1..(Len(t) - n) : u[n + i] = r[i]
  BY <1>1, <1>2
<1> HIDE DEF u, n
<1>4. ASSUME NEW i \in 1..Len(t) PROVE u[i] = t[i]
  <2>1. CASE i \in 1..n
    BY <1>1, <1>3, <2>1
  <2>2. CASE i \notin 1..n
    <3>1. i - n \in 1..(Len(t) - n) /\ n + (i - n) = i
      BY <1>1, <2>2
    <3> QED
      BY <1>2, <1>3, <3>1
  <2> QED
    BY <2>1, <2>2
<1>5. u = t
  BY <1>3, <1>4, SeqEqual
<1> QED
  BY <1>2, <1>5 DEF u

DocResults(c) == UpTo(ResultsByDoc(c), Line)

CorpusResults == UpTo(ResultsByCorpus, Line)

\* The results of k corpora and of m documents of the next one.
Done(k, m) == CorpusResults[k] \o DocResults(Given[k + 1])[m]

Show(s) == IF tool.shows = "names" THEN Once(s) ELSE s

LEMMA ResultsOfDocs ==
  ASSUME Arguments, NEW c \in Corpora
  PROVE  /\ DocsOf(c) \in Seq(Doc)
         /\ \A i \in 1..Len(DocsOf(c)) :
              /\ <<c.name, DocsOf(c)[i].name>> \in Line
              /\ ResultsOf(DocsOf(c)[i]) \in Nat
              /\ Repeated(c, DocsOf(c)[i]) \in Seq(Line)
         /\ ResultsByDoc(c) \in Seq(Seq(Line))
         /\ Len(ResultsByDoc(c)) = Len(DocsOf(c))
<1>1. c.name \in Int /\ c.docs \in Seq(Doc)
  BY ToolsAssumption DEF Doc
<1>2. DocsOf(c) \in Seq(Doc)
  BY <1>1 DEF DocsOf
<1>3. ASSUME NEW i \in 1..Len(DocsOf(c))
      PROVE  /\ <<c.name, DocsOf(c)[i].name>> \in Line
             /\ ResultsOf(DocsOf(c)[i]) \in Nat
             /\ Repeated(c, DocsOf(c)[i]) \in Seq(Line)
  <2>1. DocsOf(c)[i] \in Doc
    BY <1>2
  <2>2. <<c.name, DocsOf(c)[i].name>> \in Line
    BY <1>1, <2>1 DEF Doc, Line
  <2>3. ResultsOf(DocsOf(c)[i]) \in Nat
    BY <2>1 DEF Doc, ResultsOf
  <2>4. Repeated(c, DocsOf(c)[i]) \in [1..ResultsOf(DocsOf(c)[i]) -> Line]
    BY <2>2 DEF Repeated
  <2>5. Repeated(c, DocsOf(c)[i]) \in Seq(Line)
    BY <2>3, <2>4, Listed
  <2> QED
    BY <2>2, <2>3, <2>5
<1>4. Len(DocsOf(c)) \in Nat
  BY <1>2
<1>5. ResultsByDoc(c) \in [1..Len(DocsOf(c)) -> Seq(Line)]
  BY <1>3 DEF ResultsByDoc
<1>6. ResultsByDoc(c) \in Seq(Seq(Line)) /\ Len(ResultsByDoc(c)) = Len(DocsOf(c))
  BY <1>4, <1>5, Listed
<1> QED
  BY <1>2, <1>3, <1>6

LEMMA ResultsOfCorpora ==
  ASSUME Arguments
  PROVE  /\ Given \in Seq(Corpora)
         /\ ResultsByCorpus \in Seq(Seq(Line)) /\ Len(ResultsByCorpus) = Len(Given)
         /\ \A k \in 1..Len(Given) :
              ResultsByCorpus[k] = DocResults(Given[k])[Len(DocsOf(Given[k]))]
         /\ CorpusResults \in [0..Len(Given) -> Seq(Line)]
         /\ CorpusResults[0] = <<>>
         /\ CorpusResults[Len(Given)] = All
         /\ \A k \in 1..Len(Given) : CorpusResults[k] = CorpusResults[k - 1] \o ResultsByCorpus[k]
         /\ \A k \in 0..Len(Given) : IsPrefix(CorpusResults[k], All)
<1>1. Given \in Seq(Corpora) /\ Len(Given) \in Nat
  BY GivenIsSequence
<1>2. ASSUME NEW k \in 1..Len(Given)
      PROVE  /\ FlattenSeq(ResultsByDoc(Given[k])) \in Seq(Line)
             /\ FlattenSeq(ResultsByDoc(Given[k])) = DocResults(Given[k])[Len(DocsOf(Given[k]))]
  <2> DEFINE seqs == ResultsByDoc(Given[k])
  <2>1. Given[k] \in Corpora
    BY <1>1
  <2>2. seqs \in Seq(Seq(Line)) /\ Len(seqs) = Len(DocsOf(Given[k])) /\ Len(seqs) \in Nat
    BY <2>1, ResultsOfDocs
  <2> HIDE DEF seqs
  <2>3. FlattenSeq(seqs) = UpTo(seqs, Line)[Len(seqs)]
    BY <2>2, FlatIsJoined
  <2>4. UpTo(seqs, Line) \in [0..Len(seqs) -> Seq(Line)]
    BY <2>2, Joining
  <2> QED
    BY <2>2, <2>3, <2>4 DEF seqs, DocResults
<1>3. ResultsByCorpus \in Seq(Seq(Line)) /\ Len(ResultsByCorpus) = Len(Given)
  BY <1>1, <1>2 DEF ResultsByCorpus
<1>4. \A k \in 1..Len(Given) :
        ResultsByCorpus[k] = DocResults(Given[k])[Len(DocsOf(Given[k]))]
  BY <1>2 DEF ResultsByCorpus
<1> DEFINE seqs == ResultsByCorpus
<1> HIDE DEF seqs
<1>5. seqs \in Seq(Seq(Line)) /\ Len(seqs) = Len(Given)
  BY <1>3 DEF seqs
<1>6. /\ UpTo(seqs, Line) \in [0..Len(seqs) -> Seq(Line)]
      /\ UpTo(seqs, Line)[0] = <<>>
      /\ \A k \in 1..Len(seqs) : UpTo(seqs, Line)[k] = UpTo(seqs, Line)[k - 1] \o seqs[k]
  BY <1>5, Joining
<1>7. UpTo(seqs, Line)[Len(seqs)] = FlattenSeq(seqs)
  BY <1>5, FlatIsJoined
<1>8. \A k \in 0..Len(seqs) : IsPrefix(UpTo(seqs, Line)[k], FlattenSeq(seqs))
  BY <1>5, JoinedGrow
<1> QED
  BY <1>1, <1>3, <1>4, <1>5, <1>6, <1>7, <1>8 DEF seqs, CorpusResults, All

LEMMA AllIsSequence ==
  ASSUME Arguments
  PROVE  All \in Seq(Line)
<1>1. Len(Given) \in 0..Len(Given)
  BY ResultsOfCorpora
<1>2. CorpusResults \in [0..Len(Given) -> Seq(Line)] /\ CorpusResults[Len(Given)] = All
  BY ResultsOfCorpora
<1> QED
  BY <1>1, <1>2

LEMMA DoneSoFar ==
  ASSUME Arguments, NEW k \in 0..(Len(Given) - 1)
  PROVE  LET c == Given[k + 1] IN
         /\ c \in Corpora
         /\ DocsOf(c) \in Seq(Doc)
         /\ Done(k, 0) = CorpusResults[k]
         /\ Done(k, Len(DocsOf(c))) = CorpusResults[k + 1]
         /\ \A m \in 0..Len(DocsOf(c)) : Done(k, m) \in Seq(Line) /\ IsPrefix(Done(k, m), All)
         /\ \A m \in 0..(Len(DocsOf(c)) - 1) :
              Done(k, m + 1) = Done(k, m) \o Repeated(c, DocsOf(c)[m + 1])
<1> DEFINE c == Given[k + 1]
           seqs == ResultsByDoc(c)
           n == Len(DocsOf(c))
           b == CorpusResults[k]
           f == DocResults(c)
<1>1. k + 1 \in 1..Len(Given) /\ k \in 0..Len(Given) /\ k + 1 \in 0..Len(Given) /\ (k + 1) - 1 = k
  BY ResultsOfCorpora
<1>2. c \in Corpora /\ b \in Seq(Line) /\ All \in Seq(Line) /\ CorpusResults[k + 1] \in Seq(Line)
  <2>1. Given \in Seq(Corpora) /\ CorpusResults \in [0..Len(Given) -> Seq(Line)]
    BY ResultsOfCorpora
  <2>2. c \in Corpora
    BY <1>1, <2>1
  <2>3. b \in Seq(Line) /\ CorpusResults[k + 1] \in Seq(Line)
    BY <1>1, <2>1
  <2> QED
    BY <2>2, <2>3, AllIsSequence
<1>3. DocsOf(c) \in Seq(Doc) /\ n \in Nat /\ seqs \in Seq(Seq(Line)) /\ Len(seqs) = n
  BY <1>2, ResultsOfDocs
<1>4. CorpusResults[k + 1] = b \o f[n]
  BY <1>1, ResultsOfCorpora
<1>5. IsPrefix(CorpusResults[k + 1], All)
  BY <1>1, ResultsOfCorpora
<1>6. \A i \in 1..n : seqs[i] = Repeated(c, DocsOf(c)[i])
  BY <1>3 DEF ResultsByDoc
<1> HIDE DEF seqs
<1>7. /\ f \in [0..n -> Seq(Line)] /\ f[0] = <<>>
      /\ \A i \in 1..n : f[i] = f[i - 1] \o seqs[i]
  BY <1>3, Joining DEF DocResults, seqs
<1>8. f[n] = FlattenSeq(seqs)
  BY <1>3, FlatIsJoined DEF DocResults, seqs
<1>9. \A m \in 0..n : IsPrefix(f[m], f[n])
  BY <1>3, <1>8, JoinedGrow DEF DocResults, seqs
<1>10. \A m : Done(k, m) = b \o f[m]
  BY DEF Done
<1> HIDE DEF c, n, b, f
<1>11. ASSUME NEW m \in 0..n PROVE Done(k, m) \in Seq(Line) /\ IsPrefix(Done(k, m), All)
  <2>1. f[m] \in Seq(Line) /\ f[n] \in Seq(Line)
    BY <1>3, <1>7
  <2>2. IsPrefix(b \o f[m], b \o f[n])
    BY <1>2, <1>9, <2>1, PrefixAfter
  <2>3. b \o f[m] \in Seq(Line)
    BY <1>2, <2>1
  <2>4. IsPrefix(b \o f[m], All)
    BY <1>2, <1>4, <1>5, <2>2, <2>3, PrefixOfPrefix
  <2> QED
    BY <1>10, <2>3, <2>4
<1>12. ASSUME NEW m \in 0..(n - 1)
       PROVE  Done(k, m + 1) = Done(k, m) \o Repeated(c, DocsOf(c)[m + 1])
  <2>1. m + 1 \in 1..n /\ (m + 1) - 1 = m /\ m \in 0..n
    BY <1>3
  <2> DEFINE p == f[m]
             q == seqs[m + 1]
  <2>2. p \in Seq(Line) /\ q \in Seq(Line)
    <3>1. p \in Seq(Line)
      BY <1>7, <2>1
    <3>2. q \in Seq(Line)
      BY <1>3, <2>1
    <3> QED
      BY <3>1, <3>2
  <2>3. f[m + 1] = p \o q /\ q = Repeated(c, DocsOf(c)[m + 1])
    BY <1>6, <1>7, <2>1
  <2>4. Done(k, m + 1) = b \o f[m + 1] /\ Done(k, m) = b \o p
    BY <1>10
  <2> HIDE DEF p, q
  <2>5. b \o (p \o q) = (b \o p) \o q
    <3>1. b \in Seq(Line)
      BY <1>2
    <3> QED
      BY <2>2, <3>1
  <2> QED
    BY <2>3, <2>4, <2>5
<1>13. Done(k, 0) = b
  <2>1. b \o <<>> = b
    BY <1>2
  <2> QED
    BY <1>7, <1>10, <2>1
<1>14. Done(k, n) = CorpusResults[k + 1]
  BY <1>4, <1>10
<1> QED
  BY <1>2, <1>3, <1>11, <1>12, <1>13, <1>14 DEF c, n, b

LEMMA OnceIsSequence ==
  ASSUME NEW S, NEW s \in Seq(S)
  PROVE  Once(s) \in Seq(S)
<1>1. OnceTo(s, S) \in [0..Len(s) -> Seq(S)] /\ Len(s) \in 0..Len(s)
  BY Adding
<1> QED
  BY <1>1, OnceIsAdded

LEMMA ShownGrows ==
  ASSUME NEW s \in Seq(Line), NEW t \in Seq(Line), IsPrefix(s, t)
  PROVE  /\ Show(s) \in Seq(Line) /\ Show(t) \in Seq(Line)
         /\ IsPrefix(Show(s), Show(t))
<1>1. PICK r \in Seq(Line) : t = s \o r
  BY PrefixIsPart
<1>2. IsPrefix(Once(s), Once(t))
  BY <1>1, OnceGrows
<1>3. Once(s) \in Seq(Line) /\ Once(t) \in Seq(Line)
  BY OnceIsSequence
<1> QED
  BY <1>2, <1>3 DEF Show

\* What was printed, and what is held of it, after these results.
Kept(s) ==
  /\ out = Show(s)
  /\ seen = IF tool.shows = "names" THEN Elements(s) ELSE {}

Undamaged(k) == Multi => \A i \in 1..k : Given[i].state # "damaged"

AtCorpus(k) ==
  /\ left = From(Given, k)
  /\ Kept(CorpusResults[k])
  /\ Undamaged(k)

AtDoc(k, m) ==
  /\ left = From(Given, k)
  /\ docs = From(DocsOf(Given[k + 1]), m)
  /\ Kept(Done(k, m))
  /\ Undamaged(k + 1)

\* Where main is and what it has printed there.
Progress ==
  /\ phase \in {"open", "type", "macros", "check", "start"} => out = <<>> /\ seen = {}
  /\ phase = "next" => /\ tool.shows # "one" /\ Multi
                       /\ \E k \in 0..Len(Given) : AtCorpus(k)
  /\ phase = "loop" => /\ tool.shows # "one"
                       /\ \E k \in 0..(Len(Given) - 1) :
                            \E m \in 0..Len(DocsOf(Given[k + 1])) : AtDoc(k, m)
  /\ phase = "get" => tool.shows = "one" /\ ~Multi /\ left = args /\ out = <<>>
  /\ phase = "end" => ~Multi /\ out = Expected
  /\ phase = "exited" => /\ IsPrefix(out, Expected)
                         /\ exit = "0" => out = Expected /\ Undamaged(Len(Given))
  /\ phase # "exited" => exit = "running"

LEMMA ExpectedIsSequence ==
  ASSUME Arguments
  PROVE  /\ Expected \in Seq(Line)
         /\ tool.shows # "one" => Expected = Show(All)
<1>1. All \in Seq(Line)
  BY AllIsSequence
<1>2. Show(All) \in Seq(Line)
  BY <1>1, OnceIsSequence DEF Show
<1>3. <<args[1].name, Wanted>> \in Line
  <2>1. args[1] \in Corpora
    BY DEF Arguments
  <2> QED
    BY <2>1, ToolsAssumption DEF Line
<1>4. tool.shows # "one" => Expected = Show(All)
  BY DEF Expected, Show
<1>5. tool.shows = "one" => Expected = <<<<args[1].name, Wanted>>>>
  BY DEF Expected
<1> QED
  BY <1>2, <1>3, <1>4, <1>5

\* What was printed is right, wherever main is.
LEMMA PrintedIsRight ==
  ASSUME Arguments, phase \in Phase, Progress
  PROVE  IsPrefix(out, Expected)
<1>1. Expected \in Seq(Line) /\ (tool.shows # "one" => Expected = Show(All))
  BY ExpectedIsSequence
<1>2. CASE out = <<>>
  <2>1. out \in Seq(Line) /\ Expected = out \o Expected
    BY <1>1, <1>2
  <2>2. IsPrefix(out, out \o Expected)
    BY <1>1, <2>1, PrefixOfLonger
  <2> QED
    BY <2>1, <2>2
<1>3. CASE out = Expected
  BY <1>1, <1>3, PrefixOfItself
<1>4. ASSUME NEW s \in Seq(Line), IsPrefix(s, All), out = Show(s), tool.shows # "one"
      PROVE  IsPrefix(out, Expected)
  <2>1. All \in Seq(Line)
    BY AllIsSequence
  <2> QED
    BY <1>1, <1>4, <2>1, ShownGrows
<1>5. CASE phase = "next"
  <2>1. PICK k \in 0..Len(Given) : AtCorpus(k)
    BY <1>5 DEF Progress
  <2>2. CorpusResults[k] \in Seq(Line) /\ IsPrefix(CorpusResults[k], All)
    BY ResultsOfCorpora
  <2>3. out = Show(CorpusResults[k]) /\ tool.shows # "one"
    BY <1>5, <2>1 DEF AtCorpus, Kept, Progress
  <2> QED
    BY <1>4, <2>2, <2>3
<1>6. CASE phase = "loop"
  <2>1. PICK k \in 0..(Len(Given) - 1) : \E m \in 0..Len(DocsOf(Given[k + 1])) : AtDoc(k, m)
    BY <1>6 DEF Progress
  <2>2. PICK m \in 0..Len(DocsOf(Given[k + 1])) : AtDoc(k, m)
    BY <2>1
  <2>3. Done(k, m) \in Seq(Line) /\ IsPrefix(Done(k, m), All)
    BY DoneSoFar
  <2>4. out = Show(Done(k, m)) /\ tool.shows # "one"
    BY <1>6, <2>2 DEF AtDoc, Kept, Progress
  <2> QED
    BY <1>4, <2>3, <2>4
<1>7. CASE phase = "exited"
  BY <1>7 DEF Progress
<1>8. CASE phase \in {"open", "type", "macros", "check", "start", "get"}
  BY <1>2, <1>8 DEF Progress
<1>9. CASE phase = "end"
  BY <1>3, <1>9 DEF Progress
<1> QED
  BY <1>5, <1>6, <1>7, <1>8, <1>9 DEF Phase

LEMMA ProgressAtStart == InitTool => Progress
BY DEF InitTool, Progress

\* What a run is to give stays, too.
LEMMA ExpectedStays ==
  ASSUME UNCHANGED <<tool, args, option, target>>
  PROVE  /\ Multi' = Multi /\ Given' = Given /\ Expected' = Expected
         /\ CorpusResults' = CorpusResults
         /\ \A c : DocsOf(c)' = DocsOf(c)
         /\ \A k, m : Done(k, m)' = Done(k, m)
         /\ \A s : Show(s)' = Show(s)
         /\ \A k : Undamaged(k)' <=> Undamaged(k)
<1>1. Multi' = Multi /\ HasQuery' = HasQuery /\ CorporaMap' = CorporaMap
  BY DEF Multi, HasQuery, CorporaMap
<1>2. Given' = Given
  BY <1>1 DEF Given
<1>3. \A c : DocsOf(c)' = DocsOf(c)
  BY DEF DocsOf, Accepts, Refuses
<1>4. \A c, d : Repeated(c, d)' = Repeated(c, d)
  BY <1>1 DEF Repeated, ResultsOf
<1>5. \A c : ResultsByDoc(c)' = ResultsByDoc(c)
  BY <1>3, <1>4 DEF ResultsByDoc
<1>6. ResultsByCorpus' = ResultsByCorpus
  BY <1>2, <1>5 DEF ResultsByCorpus
<1>7. All' = All /\ CorpusResults' = CorpusResults
  BY <1>6 DEF All, CorpusResults
<1>8. \A c : DocResults(c)' = DocResults(c)
  BY <1>5 DEF DocResults
<1>9. \A k, m : Done(k, m)' = Done(k, m)
  BY <1>2, <1>7, <1>8 DEF Done
<1>10. Expected' = Expected
  BY <1>7 DEF Expected
<1>11. \A s : Show(s)' = Show(s)
  BY DEF Show
<1>12. \A k : Undamaged(k)' <=> Undamaged(k)
  BY <1>1, <1>2 DEF Undamaged
<1> QED
  BY <1>1, <1>2, <1>3, <1>7, <1>9, <1>10, <1>11, <1>12

\* A single corpus that has come through the checks takes the query.
LEMMA SingleIsAccepted ==
  ASSUME Passed, phase = "start", ~Multi
  PROVE  /\ Given = args /\ Len(args) = 1 /\ args[1] \in Corpora
         /\ DocsOf(args[1]) = args[1].docs
<1>1. args \in Seq(Corpora) /\ args # <<>> /\ Len(args) = 1
  <2>1. args \in Seq(Corpora) /\ args # <<>> /\ ~(Len(args) > 1)
    BY DEF Passed, Arguments, Multi
  <2>2. Len(args) \in Nat /\ Len(args) # 0
    BY <2>1, EmptySeq
  <2>3. \A n \in Nat : n # 0 /\ ~(n > 1) => n = 1
    OBVIOUS
  <2> QED
    BY <2>1, <2>2, <2>3
<1>2. args[1] \in Corpora /\ args[1].state \in State
  BY <1>1, ToolsAssumption
<1>3. args[1].state \in {"good", "refuses"}
  BY <1>1, <1>2 DEF Passed, PastOpen, State
<1>4. option # "invalid" /\ ~Refuses(args[1])
  <2>1. CASE HasQuery
    <3>1. args[1].state # "unopenable"
      BY <1>3
    <3> QED
      BY <2>1, <3>1 DEF Passed, PastCheck, Asked
  <2>2. CASE ~HasQuery
    <3>1. tool.query # "needed"
      BY <2>2 DEF Passed, Arguments, HasQuery
    <3>2. tool.dialect # "xquery"
      BY <3>1 DEF Passed, Arguments, Tool, xpath, create, xquery, stats, xslt, get, extract
    <3> QED
      BY <2>2, <3>2 DEF HasQuery, Refuses
  <2> QED
    BY <2>1, <2>2
<1> QED
  BY <1>1, <1>2, <1>3, <1>4 DEF Given, DocsOf, Accepts

LEMMA StartKeepsProgress ==
  ASSUME Passed, Progress, Start, phase' # "exited"
  PROVE  Progress'
<1> USE DEF Passed
<1>1. UNCHANGED <<tool, args, option, target, seen, out, exit>> /\ phase = "start"
  BY DEF Start, Exit
<1>2. left' = Given /\ docs' = (IF Multi THEN <<>> ELSE args[1].docs)
  BY DEF Start, Exit, Given
<1>3. phase' = IF tool.shows = "one" THEN "get" ELSE IF Multi THEN "next" ELSE "loop"
  BY DEF Start, Exit
<1>4. out = <<>> /\ seen = {} /\ exit = "running"
  BY <1>1 DEF Progress
<1>5. /\ Multi' = Multi /\ Given' = Given /\ CorpusResults' = CorpusResults
      /\ \A c : DocsOf(c)' = DocsOf(c)
      /\ \A k, m : Done(k, m)' = Done(k, m)
      /\ \A s : Show(s)' = Show(s)
      /\ \A k : Undamaged(k)' <=> Undamaged(k)
  BY <1>1, ExpectedStays
<1>6. Given \in Seq(Corpora) /\ Len(Given) \in Nat /\ 0 \in 0..Len(Given) /\ From(Given, 0) = Given
  <2>1. Given \in Seq(Corpora)
    BY GivenIsSequence
  <2>2. 0 \in 0..Len(Given)
    BY <2>1
  <2> QED
    BY <2>1, <2>2, Rest
<1>7. Show(<<>>) = <<>> /\ Elements(<<>>) = {}
  <2> DEFINE none == <<>>
  <2>1. none \in Seq(Line) /\ Len(none) = 0
    OBVIOUS
  <2>2. Elements(none) = {}
    BY <2>1 DEF Elements
  <2> HIDE DEF none
  <2>3. Once(none) = OnceTo(none, Line)[0]
    BY <2>1, OnceIsAdded
  <2>4. OnceTo(none, Line)[0] = <<>>
    BY <2>1, Adding
  <2> QED
    BY <2>2, <2>3, <2>4 DEF Show, none
<1>8. CorpusResults[0] = <<>>
  BY ResultsOfCorpora
<1>9. CASE phase' = "next"
  <2>1. AtCorpus(0)'
    <3>1. Undamaged(0)
      BY DEF Undamaged
    <3> QED
      BY <1>1, <1>2, <1>4, <1>5, <1>6, <1>7, <1>8, <3>1 DEF AtCorpus, Kept
  <2>2. \E k \in 0..Len(Given') : AtCorpus(k)'
    BY <1>5, <1>6, <2>1
  <2>3. tool'.shows # "one" /\ Multi'
    BY <1>1, <1>3, <1>5, <1>9
  <2> QED
    BY <1>1, <1>4, <1>9, <2>2, <2>3 DEF Progress
<1>10. CASE phase' = "loop"
  <2>1. ~Multi /\ tool.shows # "one"
    BY <1>3, <1>10
  <2>2. Given = args /\ Len(Given) = 1 /\ Given[1] \in Corpora /\ DocsOf(Given[1]) = args[1].docs
    BY <1>1, <2>1, SingleIsAccepted
  <2>3. DocsOf(Given[1]) \in Seq(Doc) /\ 0 \in 0..Len(DocsOf(Given[1]))
    <3>1. DocsOf(Given[1]) \in Seq(Doc)
      BY <2>2, ResultsOfDocs
    <3> QED
      BY <3>1
  <2>4. From(DocsOf(Given[1]), 0) = docs'
    BY <1>2, <2>1, <2>2, <2>3, Rest
  <2>5. 0 \in 0..(Len(Given) - 1) /\ 0 + 1 = 1
    BY <2>2
  <2>6. Done(0, 0) = <<>>
    BY <1>8, <2>5, DoneSoFar
  <2>7. AtDoc(0, 0)'
    <3>1. Undamaged(0 + 1)
      BY <2>1 DEF Undamaged
    <3>2. left' = From(Given, 0)' /\ docs' = From(DocsOf(Given[0 + 1]), 0)'
      BY <1>2, <1>5, <1>6, <2>4, <2>5
    <3>3. Kept(Done(0, 0))'
      BY <1>1, <1>4, <1>5, <1>7, <2>6 DEF Kept
    <3> QED
      BY <1>5, <3>1, <3>2, <3>3 DEF AtDoc
  <2>8. \E k \in 0..(Len(Given') - 1) : \E m \in 0..Len(DocsOf(Given[k + 1])') : AtDoc(k, m)'
    BY <1>5, <2>3, <2>5, <2>7
  <2> QED
    BY <1>1, <1>4, <1>10, <2>1, <2>8 DEF Progress
<1>11. CASE phase' = "get"
  <2>1. tool.shows = "one"
    BY <1>3, <1>11
  <2>2. ~Multi
    <3>1. tool.corpora = "one"
      BY <2>1 DEF Arguments, Tool, xpath, create, xquery, stats, xslt, get, extract
    <3>2. Len(args) = 1
      BY <3>1 DEF Arguments
    <3> QED
      BY <3>1, <3>2 DEF Multi
  <2> QED
    BY <1>1, <1>2, <1>4, <1>5, <1>11, <2>1, <2>2 DEF Progress, Given
<1> QED
  BY <1>3, <1>9, <1>10, <1>11

LEMMA NextCorpusKeepsProgress ==
  ASSUME Passed, Progress, NextCorpus, phase' # "exited"
  PROVE  Progress'
<1>1. Arguments
  BY DEF Passed
<1>2. /\ UNCHANGED <<tool, args, option, target, left, seen, out, exit>>
      /\ phase = "next" /\ phase' = "loop"
      /\ left # <<>> /\ Head(left).state # "damaged"
      /\ docs' = DocsOf(Head(left))
  BY DEF NextCorpus, Thrown, Exit, DocsOf
<1>3. PICK k \in 0..Len(Given) : AtCorpus(k)
  BY <1>2 DEF Progress
<1>4. tool.shows # "one" /\ Multi /\ exit = "running"
  BY <1>2 DEF Progress
<1>5. /\ Multi' = Multi /\ Given' = Given
      /\ \A c : DocsOf(c)' = DocsOf(c)
      /\ \A l, m : Done(l, m)' = Done(l, m)
      /\ \A s : Show(s)' = Show(s)
      /\ \A l : Undamaged(l)' <=> Undamaged(l)
  BY <1>2, ExpectedStays
<1>6. Given \in Seq(Corpora) /\ Len(Given) \in Nat /\ left = From(Given, k)
  <2>1. Given \in Seq(Corpora)
    BY <1>1, GivenIsSequence
  <2> QED
    BY <1>3, <2>1 DEF AtCorpus
<1>7. k \in 0..(Len(Given) - 1) /\ Head(left) = Given[k + 1]
  <2>1. k # Len(Given) /\ (k < Len(Given) => Head(left) = Given[k + 1])
    BY <1>2, <1>6, Rest
  <2> QED
    BY <1>6, <2>1
<1> DEFINE c == Given[k + 1]
<1>8. DocsOf(c) \in Seq(Doc) /\ Done(k, 0) = CorpusResults[k]
  BY <1>1, <1>7, DoneSoFar
<1>9. 0 \in 0..Len(DocsOf(c)) /\ From(DocsOf(c), 0) = DocsOf(c)
  <2>1. 0 \in 0..Len(DocsOf(c))
    BY <1>8
  <2> QED
    BY <1>8, <2>1, Rest
<1>10. Undamaged(k + 1)
  <2>1. \A i \in 1..(k + 1) : i \in 1..k \/ i = k + 1
    BY <1>7
  <2> QED
    BY <1>2, <1>3, <1>7, <2>1 DEF AtCorpus, Undamaged
<1>11. AtDoc(k, 0)'
  <2>1. Kept(Done(k, 0))'
    BY <1>2, <1>3, <1>5, <1>8 DEF AtCorpus, Kept
  <2>2. left' = From(Given, k)' /\ docs' = From(DocsOf(Given[k + 1]), 0)'
    BY <1>2, <1>5, <1>6, <1>7, <1>9
  <2> QED
    BY <1>5, <1>10, <2>1, <2>2 DEF AtDoc
<1>12. \E l \in 0..(Len(Given') - 1) : \E m \in 0..Len(DocsOf(Given[l + 1])') : AtDoc(l, m)'
  BY <1>5, <1>7, <1>9, <1>11
<1> QED
  BY <1>2, <1>4, <1>12 DEF Progress

LEMMA EndOfCorpusKeepsProgress ==
  ASSUME Passed, Progress, EndOfCorpus
  PROVE  Progress'
<1>1. Arguments
  BY DEF Passed
<1>2. /\ UNCHANGED <<tool, args, option, target, docs, seen, out, exit>>
      /\ phase = "loop" /\ docs = <<>> /\ left' = Tail(left)
      /\ phase' = IF Multi THEN "next" ELSE "end"
  BY DEF EndOfCorpus
<1>3. PICK k \in 0..(Len(Given) - 1) : \E m \in 0..Len(DocsOf(Given[k + 1])) : AtDoc(k, m)
  BY <1>2 DEF Progress
<1>4. PICK m \in 0..Len(DocsOf(Given[k + 1])) : AtDoc(k, m)
  BY <1>3
<1>5. tool.shows # "one" /\ exit = "running"
  BY <1>2 DEF Progress
<1>6. /\ Multi' = Multi /\ Given' = Given /\ Expected' = Expected
      /\ CorpusResults' = CorpusResults
      /\ \A s : Show(s)' = Show(s)
      /\ \A l : Undamaged(l)' <=> Undamaged(l)
  BY <1>2, ExpectedStays
<1>7. Given \in Seq(Corpora) /\ Len(Given) \in Nat /\ k + 1 \in 0..Len(Given)
  <2>1. Given \in Seq(Corpora)
    BY <1>1, GivenIsSequence
  <2> QED
    BY <2>1
<1>8. Tail(left) = From(Given, k + 1)
  <2>1. left = From(Given, k) /\ k \in 0..Len(Given) /\ k < Len(Given)
    BY <1>4, <1>7 DEF AtDoc
  <2> QED
    BY <1>7, <2>1, Rest
<1>9. Done(k, m) = CorpusResults[k + 1]
  <2>1. DocsOf(Given[k + 1]) \in Seq(Doc) /\ From(DocsOf(Given[k + 1]), m) = <<>>
    BY <1>1, <1>2, <1>4, DoneSoFar DEF AtDoc
  <2>2. m = Len(DocsOf(Given[k + 1]))
    BY <2>1, Rest
  <2> QED
    BY <1>1, <2>2, DoneSoFar
<1>10. Kept(CorpusResults[k + 1]) /\ Undamaged(k + 1)
  BY <1>4, <1>9 DEF AtDoc
<1>11. CASE Multi
  <2>1. AtCorpus(k + 1)'
    <3>1. Kept(CorpusResults[k + 1])'
      BY <1>2, <1>6, <1>10 DEF Kept
    <3> QED
      BY <1>2, <1>6, <1>8, <1>10, <3>1 DEF AtCorpus
  <2>2. \E l \in 0..Len(Given') : AtCorpus(l)'
    BY <1>6, <1>7, <2>1
  <2> QED
    BY <1>2, <1>5, <1>6, <1>11, <2>2 DEF Progress
<1>12. CASE ~Multi
  <2>1. Given = args /\ ~(Len(args) > 1)
    BY <1>12 DEF Multi, Given
  <2>2. k + 1 = Len(Given)
    BY <1>7, <2>1
  <2>3. CorpusResults[k + 1] = All
    BY <1>1, <2>2, ResultsOfCorpora
  <2>4. out = Expected
    BY <1>1, <1>5, <1>10, <2>3, ExpectedIsSequence DEF Kept
  <2> QED
    BY <1>2, <1>5, <1>6, <1>12, <2>4 DEF Progress
<1> QED
  BY <1>11, <1>12

LEMMA DocumentKeepsProgress ==
  ASSUME Passed, Progress, Document, phase' # "exited"
  PROVE  Progress'
<1> DEFINE d == Head(docs)
           n == Shown(d.name)
           takes == IF tool.shows = "names"
                    THEN (IF ResultsOf(d) > 0 /\ n \notin seen THEN 1 ELSE 0)
                    ELSE ResultsOf(d)
<1>1. Arguments
  BY DEF Passed
<1>2. /\ UNCHANGED <<tool, args, option, target, phase, left, exit>>
      /\ phase = "loop" /\ docs # <<>>
      /\ docs' = Tail(docs)
      /\ out' = out \o [i \in 1..takes |-> n]
      /\ seen' = IF takes > 0 /\ tool.shows = "names" THEN seen \union {n} ELSE seen
  BY DEF Document, Thrown, Exit
<1>3. PICK k \in 0..(Len(Given) - 1) : \E m \in 0..Len(DocsOf(Given[k + 1])) : AtDoc(k, m)
  BY <1>2 DEF Progress
<1>4. PICK m \in 0..Len(DocsOf(Given[k + 1])) : AtDoc(k, m)
  BY <1>3
<1>5. tool.shows # "one" /\ exit = "running"
  BY <1>2 DEF Progress
<1>6. /\ Multi' = Multi /\ Given' = Given
      /\ \A a : DocsOf(a)' = DocsOf(a)
      /\ \A l, i : Done(l, i)' = Done(l, i)
      /\ \A s : Show(s)' = Show(s)
      /\ \A l : Undamaged(l)' <=> Undamaged(l)
  BY <1>2, ExpectedStays
<1> DEFINE c == Given[k + 1]
           ds == DocsOf(c)
           s == Done(k, m)
           r == ResultsOf(d)
<1>7. c \in Corpora /\ ds \in Seq(Doc)
  BY <1>1, DoneSoFar
<1>8. s \in Seq(Line)
  BY <1>1, DoneSoFar
<1>9. Head(left) = c
  <2>1. Given \in Seq(Corpora)
    BY <1>1, GivenIsSequence
  <2>2. k \in 0..Len(Given) /\ k < Len(Given) /\ left = From(Given, k)
    BY <1>4, <2>1 DEF AtDoc
  <2> QED
    BY <2>1, <2>2, Rest
<1>10. m + 1 \in 1..Len(ds) /\ m \in 0..(Len(ds) - 1) /\ d = ds[m + 1] /\ Tail(docs) = From(ds, m + 1)
  <2>1. docs = From(ds, m)
    BY <1>4 DEF AtDoc
  <2>2. m # Len(ds) /\ (m < Len(ds) => Head(docs) = ds[m + 1] /\ Tail(docs) = From(ds, m + 1))
    <3>1. From(ds, m) # <<>> /\ m \in 0..Len(ds)
      BY <1>2, <2>1
    <3>2. ds \in Seq(Doc)
      BY <1>7
    <3> HIDE DEF ds
    <3>3. /\ From(ds, m) = <<>> <=> m = Len(ds)
          /\ m < Len(ds) => Head(From(ds, m)) = ds[m + 1] /\ Tail(From(ds, m)) = From(ds, m + 1)
      BY <3>1, <3>2, Rest
    <3> QED
      BY <2>1, <3>1, <3>3
  <2>3. m < Len(ds) /\ m + 1 \in 1..Len(ds) /\ m \in 0..(Len(ds) - 1)
    BY <1>7, <2>2
  <2> QED
    BY <2>2, <2>3
<1>11. n = <<c.name, ds[m + 1].name>>
  BY <1>9, <1>10 DEF Shown
<1>12. n \in Line /\ r \in Nat
  BY <1>1, <1>7, <1>10, <1>11, ResultsOfDocs
<1>13. Done(k, m + 1) = s \o Times(n, r)
  <2>1. Done(k, m + 1) = s \o Repeated(c, ds[m + 1])
    BY <1>1, <1>10, DoneSoFar
  <2> QED
    BY <1>10, <1>11, <2>1 DEF Repeated, Times
<1>14. Kept(s) /\ Undamaged(k + 1)
  BY <1>4 DEF AtDoc
<1> HIDE DEF c, ds, s, r, n, d
<1>15. out' = Show(Done(k, m + 1))
       /\ seen' = IF tool.shows = "names" THEN Elements(Done(k, m + 1)) ELSE {}
  <2>1. CASE tool.shows # "names"
    BY <1>2, <1>13, <1>14, <2>1 DEF Kept, Show, Times, r
  <2>2. CASE tool.shows = "names"
    <3>1. out = Once(s) /\ seen = Elements(s)
      BY <1>14, <2>2 DEF Kept, Show
    <3>2. Once(Done(k, m + 1)) = IF r = 0 \/ n \in seen THEN out ELSE Append(out, n)
      <4>1. Once(s \o Times(n, r))
              = IF r = 0 \/ n \in Elements(s) THEN Once(s) ELSE Append(Once(s), n)
        BY <1>8, <1>12, OnceOfRepeated
      <4> QED
        BY <1>13, <3>1, <4>1, Zenon
    <3>3. Elements(Done(k, m + 1)) = IF r = 0 THEN seen ELSE seen \union {n}
      <4>1. Elements(s \o Times(n, r)) = IF r = 0 THEN Elements(s) ELSE Elements(s) \union {n}
        BY <1>8, <1>12, ElementsOfRepeated
      <4> QED
        BY <1>13, <3>1, <4>1, Zenon
    <3>4. out \in Seq(Line)
      BY <1>8, <3>1, OnceIsSequence
    <3>5. takes = IF r > 0 /\ n \notin seen THEN 1 ELSE 0
      BY <2>2 DEF r
    <3>6. CASE r = 0 \/ n \in seen
      <4>1. takes = 0
        BY <1>12, <3>5, <3>6
      <4>2. [i \in 1..0 |-> n] = <<>> /\ out \o <<>> = out
        BY <3>4
      <4>3. out' = out
        BY <1>2, <4>1, <4>2
      <4>4. seen' = seen
        BY <1>2, <4>1
      <4> QED
        BY <2>2, <3>2, <3>3, <3>6, <4>3, <4>4 DEF Show
    <3>7. CASE r # 0 /\ n \notin seen
      <4>1. takes = 1
        BY <1>12, <3>5, <3>7
      <4>2. [i \in 1..1 |-> n] = <<n>> /\ out \o <<n>> = Append(out, n)
        BY <1>12, <3>4
      <4>3. out' = Append(out, n)
        BY <1>2, <4>1, <4>2
      <4>4. seen' = seen \union {n}
        BY <1>2, <2>2, <4>1
      <4> QED
        BY <2>2, <3>2, <3>3, <3>7, <4>3, <4>4 DEF Show
    <3> QED
      BY <3>6, <3>7
  <2> QED
    BY <2>1, <2>2
<1>16. AtDoc(k, m + 1)'
  <2>1. Kept(Done(k, m + 1))'
    BY <1>2, <1>6, <1>15 DEF Kept
  <2>2. left' = From(Given, k)'
    BY <1>2, <1>4, <1>6 DEF AtDoc
  <2>3. docs' = From(DocsOf(Given[k + 1]), m + 1)'
    BY <1>2, <1>6, <1>10 DEF c, ds
  <2> QED
    BY <1>6, <1>14, <2>1, <2>2, <2>3 DEF AtDoc
<1>17. \E l \in 0..(Len(Given') - 1) : \E i \in 0..Len(DocsOf(Given[l + 1])') : AtDoc(l, i)'
  <2>1. m + 1 \in 0..Len(DocsOf(Given[k + 1]))
    BY <1>7, <1>10 DEF c, ds
  <2> QED
    BY <1>6, <1>16, <2>1
<1> QED
  BY <1>2, <1>5, <1>17 DEF Progress

LEMMA GetKeepsProgress ==
  ASSUME Passed, Progress, Get, phase' # "exited"
  PROVE  Progress'
<1>1. /\ UNCHANGED <<tool, args, option, target, left, docs, seen, exit>>
      /\ phase = "get" /\ phase' = "end"
      /\ out' = <<Shown(Wanted)>>
  BY DEF Get, Thrown, Exit
<1>2. tool.shows = "one" /\ ~Multi /\ left = args /\ exit = "running"
  BY <1>1 DEF Progress
<1>3. Multi' = Multi /\ Expected' = Expected
  BY <1>1, ExpectedStays
<1>4. Head(left) = args[1]
  BY <1>2 DEF Passed, Arguments
<1>5. out' = Expected
  BY <1>1, <1>2, <1>4 DEF Shown, Expected
<1> QED
  BY <1>1, <1>2, <1>3, <1>5 DEF Progress

\* Whoever leaves has printed what is right, and all of it if it says so.
LEMMA ExitKeepsProgress ==
  ASSUME Passed, Progress, ToolStep, phase' = "exited"
  PROVE  Progress'
<1>1. UNCHANGED <<tool, args, option, target, out>>
  BY DEF ToolStep, OpenReader, Type, Macros, Check, Start, NextCorpus, EndOfCorpus, Document,
         Get, End, Thrown, Exit, Go
<1>2. Arguments /\ phase \in Phase
  BY DEF Passed
<1>3. Expected' = Expected /\ Given' = Given /\ \A k : Undamaged(k)' <=> Undamaged(k)
  BY <1>1, ExpectedStays
<1>4. IsPrefix(out, Expected)'
  BY <1>1, <1>2, <1>3, PrintedIsRight
<1>5. ASSUME exit' = "0" PROVE out = Expected /\ Undamaged(Len(Given))
  <2>1. phase # "exited"
    BY DEF ToolStep, OpenReader, Type, Macros, Check, Start, NextCorpus, EndOfCorpus, Document,
           Get, End
  <2>2. exit = "running"
    BY <2>1 DEF Progress
  <2>3. End
    BY <1>5, <2>2 DEF ToolStep, OpenReader, Type, Macros, Check, Start, NextCorpus, EndOfCorpus,
                      Document, Get, Thrown, Exit, Go
  <2>4. CASE phase = "end"
    BY <2>4 DEF Progress, Undamaged
  <2>5. CASE phase = "next" /\ left = <<>>
    <3>1. PICK k \in 0..Len(Given) : AtCorpus(k)
      BY <2>5 DEF Progress
    <3>2. Given \in Seq(Corpora) /\ CorpusResults[Len(Given)] = All
      BY <1>2, ResultsOfCorpora
    <3>3. k = Len(Given)
      BY <2>5, <3>1, <3>2, Rest DEF AtCorpus
    <3>4. out = Show(All) /\ Undamaged(Len(Given))
      BY <3>1, <3>2, <3>3 DEF AtCorpus, Kept
    <3>5. tool.shows # "one"
      BY <2>5 DEF Progress
    <3> QED
      BY <1>2, <3>4, <3>5, ExpectedIsSequence
  <2> QED
    BY <2>3, <2>4, <2>5 DEF End
<1>6. exit' = "0" => out' = Expected' /\ Undamaged(Len(Given))'
  BY <1>1, <1>3, <1>5
<1> QED
  BY <1>4, <1>6 DEF Progress

LEMMA ProgressKept ==
  ASSUME Passed, Progress, [ToolStep]_toolVars
  PROVE  Progress'
<1>1. CASE UNCHANGED toolVars
  <2>1. UNCHANGED <<tool, args, option, target, phase, left, docs, seen, out, exit>>
    BY <1>1 DEF toolVars
  <2>2. /\ Multi' = Multi /\ Given' = Given /\ Expected' = Expected
        /\ CorpusResults' = CorpusResults
        /\ \A c : DocsOf(c)' = DocsOf(c)
        /\ \A k, m : Done(k, m)' = Done(k, m)
        /\ \A s : Show(s)' = Show(s)
        /\ \A k : Undamaged(k)' <=> Undamaged(k)
    BY <2>1, ExpectedStays
  <2>3. \A s : Kept(s)' <=> Kept(s)
    BY <2>1, <2>2 DEF Kept
  <2>4. \A k : AtCorpus(k)' <=> AtCorpus(k)
    BY <2>1, <2>2, <2>3 DEF AtCorpus
  <2>5. \A k, m : AtDoc(k, m)' <=> AtDoc(k, m)
    BY <2>1, <2>2, <2>3 DEF AtDoc
  <2> QED
    BY <2>1, <2>2, <2>4, <2>5 DEF Progress
<1>2. CASE ToolStep /\ phase' = "exited"
  BY <1>2, ExitKeepsProgress
<1>3. CASE (OpenReader \/ Type \/ Macros \/ Check) /\ phase' # "exited"
  <2>1. /\ phase \in {"open", "type", "macros", "check"}
        /\ phase' \in {"type", "macros", "check", "start"}
        /\ UNCHANGED <<out, seen, exit>>
    BY <1>3 DEF OpenReader, Type, Macros, Check, Go, Exit
  <2>2. out' = <<>> /\ seen' = {} /\ exit' = "running"
    BY <2>1 DEF Progress
  <2> QED
    BY <2>1, <2>2 DEF Progress
<1>4. CASE End
  BY <1>2, <1>4 DEF End, Exit, ToolStep
<1>5. CASE Start /\ phase' # "exited"
  BY <1>5, StartKeepsProgress
<1>6. CASE NextCorpus /\ phase' # "exited"
  BY <1>6, NextCorpusKeepsProgress
<1>7. CASE EndOfCorpus
  BY <1>7, EndOfCorpusKeepsProgress
<1>8. CASE Document /\ phase' # "exited"
  BY <1>8, DocumentKeepsProgress
<1>9. CASE Get /\ phase' # "exited"
  BY <1>9, GetKeepsProgress
<1> QED
  BY <1>1, <1>2, <1>3, <1>4, <1>5, <1>6, <1>7, <1>8, <1>9 DEF ToolStep

\* A tool whose main returns 0 gave every result of every corpus that can be
\* opened and takes the query, in their order, a name once where it keeps a set of
\* them, and came across no damaged corpus; one that ended otherwise gave a
\* beginning of that.  So openTip passes over nothing but what it is to pass over.
THEOREM ExitStatus == ToolSpec => []ExitZeroIsComplete
<1>1. Passed /\ Progress => ExitZeroIsComplete
  <2> SUFFICES ASSUME Passed, Progress PROVE ExitZeroIsComplete
    OBVIOUS
  <2>1. Arguments /\ phase \in Phase
    BY DEF Passed
  <2>2. IsPrefix(out, Expected)
    BY <2>1, PrintedIsRight
  <2>3. ASSUME exit = "0"
        PROVE  /\ out = Expected
               /\ Multi => \A k \in DOMAIN CorporaMap : CorporaMap[k].state # "damaged"
    <3>1. out = Expected /\ Undamaged(Len(Given))
      BY <2>3 DEF Progress
    <3>2. Given \in Seq(Corpora)
      BY <2>1, GivenIsSequence
    <3>3. DOMAIN Given = 1..Len(Given)
      BY <3>2
    <3> QED
      BY <3>1, <3>3 DEF Undamaged, Given
  <2> QED
    BY <2>2, <2>3 DEF ExitZeroIsComplete
<1>2. InitTool => Passed /\ Progress
  BY PassedAtStart, ProgressAtStart
<1>3. Passed /\ Progress /\ [ToolStep]_toolVars => (Passed /\ Progress)'
  BY PassedKept, ProgressKept
<1> QED
  BY <1>1, <1>2, <1>3, PTL DEF ToolSpec
----------------------------------------------------------------------------
(* Numbers in names.                                                       *)

TenTo[n \in Nat] == IF n = 0 THEN 1 ELSE 10 * TenTo[n - 1]

LEMMA TenToUnfolds ==
  TenTo = [n \in Nat |-> IF n = 0 THEN 1 ELSE 10 * TenTo[n - 1]]
<1> DEFINE S == Nat
           one == 1
           g == [n \in Nat |-> [x \in S |-> 10 * x]]
<1>1. one \in S /\ g \in [Nat -> [S -> S]]
  OBVIOUS
<1>2. PICK f : Iterates(f, S, one, g)
  <2> HIDE DEF S, one, g
  <2> QED
    BY <1>1, Recursion
<1>3. ASSUME NEW n \in Nat, n # 0 PROVE f[n] = 10 * f[n - 1]
  <2>1. n - 1 \in Nat /\ (n - 1) + 1 = n
    BY <1>3
  <2>2. f[(n - 1) + 1] = g[n - 1][f[n - 1]]
    BY <1>2, <2>1 DEF Iterates
  <2>3. g[n - 1][f[n - 1]] = 10 * f[n - 1]
    BY <1>2, <2>1 DEF Iterates
  <2> QED
    BY <2>1, <2>2, <2>3
<1>4. f = [n \in Nat |-> IF n = 0 THEN 1 ELSE 10 * f[n - 1]]
  BY <1>2, <1>3 DEF Iterates
<1> QED
  BY <1>4 DEF TenTo

LEMMA PowersOfTen ==
  /\ TenTo[0] = 1
  /\ \A n \in Nat : TenTo[n + 1] = 10 * TenTo[n]
  /\ \A n \in Nat : TenTo[n] \in Nat \ {0}
  /\ \A n \in Nat : \A m \in 0..n : TenTo[m] <= TenTo[n]
<1>1. TenTo[0] = 1
  BY TenToUnfolds
<1>2. ASSUME NEW n \in Nat PROVE TenTo[n + 1] = 10 * TenTo[n]
  <2>1. n + 1 \in Nat /\ n + 1 # 0 /\ (n + 1) - 1 = n
    OBVIOUS
  <2> QED
    BY <2>1, TenToUnfolds
<1> DEFINE S == {n \in Nat : /\ TenTo[n] \in Nat \ {0}
                           /\ \A m \in 0..n : TenTo[m] \in Nat /\ TenTo[m] <= TenTo[n]}
<1>3. 0 \in S
  BY <1>1
<1>4. ASSUME NEW n \in Nat, n \in S PROVE n + 1 \in S
  <2>1. TenTo[n + 1] \in Nat \ {0} /\ TenTo[n] <= TenTo[n + 1]
    BY <1>2, <1>4
  <2>2. ASSUME NEW m \in 0..(n + 1) PROVE TenTo[m] \in Nat /\ TenTo[m] <= TenTo[n + 1]
    <3>1. CASE m = n + 1
      BY <2>1, <3>1
    <3>2. CASE m \in 0..n
      <4>1. TenTo[m] <= TenTo[n] /\ TenTo[m] \in Nat
        BY <1>4, <3>2
      <4> QED
        BY <1>4, <2>1, <4>1
    <3> QED
      BY <3>1, <3>2
  <2> QED
    BY <2>1, <2>2
<1>5. Nat \subseteq S
  <2> HIDE DEF S
  <2> QED
    BY <1>3, <1>4, Induction
<1> QED
  BY <1>1, <1>2, <1>5

\* The value of each beginning of a sequence of digits.
DigitSteps(s) == [i \in 1..Len(s) |-> [v \in Int |-> 10 * v + s[i] - 48]]

ValueTo(s) == CHOOSE f : Builds(f, Int, 0, Len(s), DigitSteps(s))

LEMMA Values ==
  ASSUME NEW s \in Seq(Nat)
  PROVE  /\ Builds(ValueTo(s), Int, 0, Len(s), DigitSteps(s))
         /\ ValueTo(s) \in [0..Len(s) -> Int]
         /\ ValueTo(s)[0] = 0
         /\ \A i \in 1..Len(s) : ValueTo(s)[i] = 10 * ValueTo(s)[i - 1] + s[i] - 48
<1> DEFINE n == Len(s)
           T == Int
           h == DigitSteps(s)
           zero == 0
           f == ValueTo(s)
<1>1. n \in Nat /\ \A i \in 1..n : s[i] \in Nat
  OBVIOUS
<1>2. h \in [1..n -> [T -> T]]
  BY <1>1 DEF DigitSteps
<1>3. zero \in T
  OBVIOUS
<1>4. Builds(f, T, zero, n, h)
  <2>1. \E g : Builds(g, T, zero, n, h)
    <3> HIDE DEF T, h, zero, n
    <3> QED
      BY <1>1, <1>2, <1>3, Building
  <2> QED
    BY <2>1 DEF ValueTo
<1>5. f \in [0..n -> T] /\ f[0] = 0 /\ \A i \in 1..n : f[i] = h[i][f[i - 1]]
  BY <1>4 DEF Builds
<1>6. ASSUME NEW i \in 1..n PROVE f[i] = 10 * f[i - 1] + s[i] - 48
  <2>1. i - 1 \in 0..n
    BY <1>1
  <2> HIDE DEF f
  <2>2. f[i - 1] \in Int
    BY <1>5, <2>1
  <2>3. h[i][f[i - 1]] = 10 * f[i - 1] + s[i] - 48
    BY <2>2 DEF DigitSteps
  <2> QED
    BY <1>5, <2>3
<1> QED
  BY <1>4, <1>5, <1>6

\* The recursion of atoi is the only one.
LEMMA AtoiIsValue ==
  ASSUME NEW s \in Seq(Nat)
  PROVE  atoi(s) = ValueTo(s)[Len(s)] /\ atoi(s) \in Int
<1> DEFINE n == Len(s)
           f == ValueTo(s)
           step(g) == [i \in 0..n |-> IF i = 0 THEN 0 ELSE 10 * g[i - 1] + s[i] - 48]
           value == CHOOSE g : g = step(g)
<1>1. atoi(s) = value[n]
  BY DEF atoi
<1>2. n \in Nat /\ f \in [0..n -> Int] /\ f[0] = 0
  BY Values
<1>3. value = step(value)
  <2>1. \A i \in 0..n : f[i] = IF i = 0 THEN 0 ELSE 10 * f[i - 1] + s[i] - 48
    <3>1. \A i \in 1..n : f[i] = 10 * f[i - 1] + s[i] - 48
      BY Values
    <3> HIDE DEF f
    <3>2. \A i \in 0..n : i # 0 => i \in 1..n
      BY <1>2
    <3> QED
      BY <1>2, <3>1, <3>2
  <2>2. f = [i \in 0..n |-> f[i]]
    <3> HIDE DEF f
    <3> QED
      BY <1>2
  <2> HIDE DEF f
  <2>3. f = step(f)
    BY <2>1, <2>2
  <2> HIDE DEF step
  <2> QED
    BY <2>3
<1> HIDE DEF value
<1>4. ASSUME NEW i \in 1..n, value[i - 1] \in Int
      PROVE  value[i] = DigitSteps(s)[i][value[i - 1]]
  <2>1. i \in 0..n /\ i # 0
    BY <1>2
  <2>2. value[i] = 10 * value[i - 1] + s[i] - 48
    BY <1>3, <2>1
  <2> QED
    BY <1>4, <2>2 DEF DigitSteps
<1>5. value[0] = 0
  BY <1>2, <1>3
<1>6. Same(f, value, n)
  <2> DEFINE T == Int
             zero == 0
             h == DigitSteps(s)
  <2>1. n \in Nat /\ Builds(f, T, zero, n, h) /\ Follows(value, T, zero, n, h)
    BY <1>2, <1>4, <1>5, Values DEF Follows
  <2> HIDE DEF n, T, zero, h, f
  <2> QED
    BY <2>1, BuildingIsUnique
<1> QED
  BY <1>1, <1>2, <1>6 DEF Same

\* What is read after the first m characters: their value moves up.
LEMMA ValueOfPart ==
  ASSUME NEW s \in Seq(Nat), NEW m \in Nat, NEW j \in Nat, m + j <= Len(s)
  PROVE  /\ SubSeq(s, m + 1, m + j) \in Seq(Nat)
         /\ Len(SubSeq(s, m + 1, m + j)) = j
         /\ ValueTo(s)[m + j] = ValueTo(s)[m] * TenTo[j] + atoi(SubSeq(s, m + 1, m + j))
<1> DEFINE b == SubSeq(s, m + 1, m + j)
           V == ValueTo(s)
           W == ValueTo(b)
           x == V[m]
<1>1. b \in Seq(Nat) /\ Len(b) = j /\ \A i \in 1..j : b[i] = s[m + i]
  <2>1. /\ m + 1 \in Int /\ m + j \in Int
        /\ \A i \in (m + 1)..(m + j) : s[i] \in Nat
    OBVIOUS
  <2>2. b \in Seq(Nat) /\ Len(b) = j
    BY <2>1, SubSeqProperties
  <2>3. \A i \in 1..((m + j) - (m + 1) + 1) : b[i] = s[(m + 1) + i - 1]
    BY <2>1, SubSeqProperties
  <2>4. (m + j) - (m + 1) + 1 = j /\ \A i \in 1..j : (m + 1) + i - 1 = m + i
    OBVIOUS
  <2> HIDE DEF b
  <2> QED
    BY <2>2, <2>3, <2>4
<1> HIDE DEF b
<1>2. /\ V \in [0..Len(s) -> Int]
      /\ \A i \in 1..Len(s) : V[i] = 10 * V[i - 1] + s[i] - 48
  BY Values
<1>3. /\ W \in [0..j -> Int] /\ W[0] = 0
      /\ \A i \in 1..j : W[i] = 10 * W[i - 1] + b[i] - 48
  BY <1>1, Values
<1> HIDE DEF V, W
<1>4. x \in Int /\ x = V[m]
  <2>1. m \in 0..Len(s)
    OBVIOUS
  <2> QED
    BY <1>2, <2>1
<1> HIDE DEF x
<1> DEFINE Q == {i \in Nat : i <= j => V[m + i] = x * TenTo[i] + W[i]}
<1>5. 0 \in Q
  <2>1. TenTo[0] = 1
    BY PowersOfTen
  <2>2. V[m + 0] = x
    BY <1>4
  <2>3. x * 1 + 0 = x
    BY <1>4
  <2> QED
    BY <1>3, <2>1, <2>2, <2>3
<1>6. ASSUME NEW i \in Nat, i \in Q PROVE i + 1 \in Q
  <2> SUFFICES ASSUME i + 1 <= j PROVE V[m + (i + 1)] = x * TenTo[i + 1] + W[i + 1]
    OBVIOUS
  <2>1. /\ m + (i + 1) \in 1..Len(s) /\ (m + (i + 1)) - 1 = m + i
        /\ i + 1 \in 1..j /\ (i + 1) - 1 = i /\ i \in 0..j
    OBVIOUS
  <2>2. V[m + (i + 1)] = 10 * V[m + i] + s[m + (i + 1)] - 48
    BY <1>2, <2>1
  <2>3. W[i + 1] = 10 * W[i] + s[m + (i + 1)] - 48
    <3>1. W[i + 1] = 10 * W[(i + 1) - 1] + b[i + 1] - 48
      BY <1>3, <2>1
    <3>2. b[i + 1] = s[m + (i + 1)]
      BY <1>1, <2>1
    <3> QED
      BY <2>1, <3>1, <3>2
  <2>4. V[m + i] = x * TenTo[i] + W[i]
    BY <1>6
  <2>5. TenTo[i + 1] = 10 * TenTo[i] /\ TenTo[i] \in Nat
    BY PowersOfTen
  <2>6. x * TenTo[i + 1] = 10 * (x * TenTo[i])
    BY <1>4, <2>5
  <2>7. W[i] \in Int /\ s[m + (i + 1)] \in Int /\ x * TenTo[i] \in Int
    <3>1. W[i] \in Int
      BY <1>3, <2>1
    <3>2. s[m + (i + 1)] \in Int
      BY <2>1
    <3>3. x * TenTo[i] \in Int
      BY <1>4, <2>5
    <3> QED
      BY <3>1, <3>2, <3>3
  <2> DEFINE v == V[m + i]
             w == W[i]
             d == s[m + (i + 1)]
             u == x * TenTo[i]
             vv == V[m + (i + 1)]
             ww == W[i + 1]
             uu == x * TenTo[i + 1]
  <2>8. /\ w \in Int /\ d \in Int /\ u \in Int
        /\ vv = 10 * v + d - 48 /\ ww = 10 * w + d - 48 /\ v = u + w /\ uu = 10 * u
    BY <2>2, <2>3, <2>4, <2>6, <2>7
  <2> HIDE DEF v, w, d, u, vv, ww, uu
  <2>9. vv = uu + ww
    BY <2>8
  <2> QED
    BY <2>9 DEF vv, uu, ww
<1>7. Nat \subseteq Q
  <2> HIDE DEF Q
  <2> QED
    BY <1>5, <1>6, Induction
<1>8. V[m + j] = x * TenTo[j] + W[j]
  BY <1>7
<1>9. atoi(b) = W[j]
  BY <1>1, AtoiIsValue DEF W
<1> QED
  BY <1>1, <1>8, <1>9 DEF b, V, x

\* Digits have a value of no more digits.
LEMMA ValueOfDigits ==
  ASSUME NEW s \in Seq(Nat), \A i \in 1..Len(s) : s[i] \in Digits
  PROVE  atoi(s) \in 0..(TenTo[Len(s)] - 1)
<1> DEFINE V == ValueTo(s)
           n == Len(s)
           Q == {i \in Nat : i <= n => V[i] \in Nat /\ V[i] < TenTo[i]}
<1>1. /\ V \in [0..n -> Int] /\ V[0] = 0 /\ n \in Nat
      /\ \A i \in 1..n : V[i] = 10 * V[i - 1] + s[i] - 48
  BY Values
<1> HIDE DEF V
<1>2. 0 \in Q
  <2>1. TenTo[0] = 1
    BY PowersOfTen
  <2> QED
    BY <1>1, <2>1
<1>3. ASSUME NEW i \in Nat, i \in Q PROVE i + 1 \in Q
  <2> SUFFICES ASSUME i + 1 <= n PROVE V[i + 1] \in Nat /\ V[i + 1] < TenTo[i + 1]
    OBVIOUS
  <2>1. i + 1 \in 1..n /\ (i + 1) - 1 = i
    BY <1>1
  <2>2. V[i + 1] = 10 * V[i] + s[i + 1] - 48
    BY <1>1, <2>1
  <2>3. s[i + 1] \in Nat /\ 48 <= s[i + 1] /\ s[i + 1] <= 57
    <3>1. s[i + 1] \in Digits
      BY <2>1
    <3> QED
      BY <3>1, SMTT(30) DEF Digits
  <2>4. V[i] \in Nat /\ V[i] < TenTo[i]
    BY <1>1, <1>3
  <2>5. TenTo[i + 1] = 10 * TenTo[i] /\ TenTo[i] \in Nat
    BY PowersOfTen
  <2> DEFINE v == V[i]
             t == TenTo[i]
             d == s[i + 1]
             w == V[i + 1]
             u == TenTo[i + 1]
  <2>6. /\ v \in Nat /\ t \in Nat /\ d \in Nat /\ v < t /\ 48 <= d /\ d <= 57
        /\ w = 10 * v + d - 48 /\ u = 10 * t
    BY <2>2, <2>3, <2>4, <2>5
  <2> HIDE DEF v, t, d, w, u
  <2>7. w \in Nat /\ w < u
    BY <2>6
  <2> QED
    BY <2>7 DEF w, u
<1>4. Nat \subseteq Q
  <2> HIDE DEF Q
  <2> QED
    BY <1>2, <1>3, Induction
<1>5. V[n] \in Nat /\ V[n] < TenTo[n] /\ TenTo[n] \in Nat
  <2>1. n \in Q /\ TenTo[n] \in Nat
    BY <1>1, <1>4, PowersOfTen
  <2> QED
    BY <2>1
<1>6. atoi(s) = V[n]
  BY AtoiIsValue DEF V
<1> QED
  BY <1>5, <1>6

\* An element is less than this.
Radix == TenTo[DIGIT_COUNT]

\* val is a number of value v: P[k] is what its elements above the k-th say.
Numeral(val, P, v) ==
  /\ val \in Seq(Nat) /\ P \in [0..Len(val) -> Nat]
  /\ P[0] = v /\ P[Len(val)] = 0
  /\ \A k \in 1..Len(val) : val[k] < Radix /\ P[k - 1] = P[k] * Radix + val[k]

Says(val, v) == Len(val) >= 1 /\ \E P : Numeral(val, P, v)

AllDigits(s) == \A i \in 1..Len(s) : s[i] \in Digits

LEMMA RadixType == Radix \in Nat \ {0} /\ DIGIT_COUNT \in Nat \ {0}
BY InfIntAssumption, PowersOfTen DEF Radix

\* A part of the digits, read as one element.
LEMMA ElementOfPart ==
  ASSUME NEW s \in Seq(Nat), AllDigits(s),
         NEW m \in Nat, NEW j \in 0..DIGIT_COUNT, m + j <= Len(s)
  PROVE  /\ atoi(SubSeq(s, m + 1, m + j)) \in 0..(Radix - 1)
         /\ ValueTo(s)[m + j] = ValueTo(s)[m] * TenTo[j] + atoi(SubSeq(s, m + 1, m + j))
<1> DEFINE b == SubSeq(s, m + 1, m + j)
<1>1. j \in Nat /\ DIGIT_COUNT \in Nat
  BY RadixType
<1>2. /\ b \in Seq(Nat) /\ Len(b) = j
      /\ ValueTo(s)[m + j] = ValueTo(s)[m] * TenTo[j] + atoi(b)
  BY <1>1, ValueOfPart
<1>3. \A i \in 1..j : b[i] \in Digits
  <2>1. m + 1 \in Int /\ m + j \in Int /\ \A i \in (m + 1)..(m + j) : s[i] \in Digits
    BY <1>1 DEF AllDigits
  <2>2. b \in Seq(Digits)
    BY <2>1, SubSeqProperties
  <2> HIDE DEF b
  <2> QED
    BY <1>2, <2>2
<1> HIDE DEF b
<1>4. atoi(b) \in 0..(TenTo[j] - 1)
  BY <1>2, <1>3, ValueOfDigits
<1>5. TenTo[j] <= Radix /\ TenTo[j] \in Nat /\ Radix \in Nat
  BY <1>1, PowersOfTen, RadixType DEF Radix
<1>6. atoi(b) \in 0..(Radix - 1)
  BY <1>4, <1>5
<1> QED
  BY <1>2, <1>6 DEF b

\* Each beginning of the digits has a value.
LEMMA ValuesOfDigits ==
  ASSUME NEW s \in Seq(Nat), AllDigits(s), NEW m \in 0..Len(s)
  PROVE  ValueTo(s)[m] \in Nat
<1> DEFINE b == SubSeq(s, 1, m)
<1>1. m \in Nat /\ 0 \in Nat /\ 0 + m <= Len(s) /\ 0 + 1 = 1 /\ 0 + m = m
  OBVIOUS
<1>2. /\ b \in Seq(Nat) /\ Len(b) = m
      /\ ValueTo(s)[m] = ValueTo(s)[0] * TenTo[m] + atoi(b)
  <2>1. /\ SubSeq(s, 0 + 1, 0 + m) \in Seq(Nat) /\ Len(SubSeq(s, 0 + 1, 0 + m)) = m
        /\ ValueTo(s)[0 + m] = ValueTo(s)[0] * TenTo[m] + atoi(SubSeq(s, 0 + 1, 0 + m))
    BY <1>1, ValueOfPart
  <2> QED
    BY <1>1, <2>1
<1>3. \A i \in 1..m : b[i] \in Digits
  <2>1. 1 \in Int /\ m \in Int /\ \A i \in 1..m : s[i] \in Digits
    BY <1>1 DEF AllDigits
  <2>2. b \in Seq(Digits)
    BY <2>1, SubSeqProperties
  <2> HIDE DEF b
  <2> QED
    BY <1>2, <2>2
<1> HIDE DEF b
<1>4. atoi(b) \in 0..(TenTo[m] - 1)
  BY <1>2, <1>3, ValueOfDigits
<1>5. ValueTo(s)[0] = 0 /\ TenTo[m] \in Nat
  BY <1>1, Values, PowersOfTen
<1> DEFINE x == ValueTo(s)[m]
           y == ValueTo(s)[0] * TenTo[m]
<1>6. y = 0 /\ x = y + atoi(b)
  BY <1>2, <1>5
<1> HIDE DEF x, y
<1>7. x \in Nat
  BY <1>4, <1>5, <1>6
<1> QED
  BY <1>7 DEF x

\* The elements of a number before its leading zeros are removed.
Full(s) == Len(s) \div DIGIT_COUNT

Over(s) == Len(s) % DIGIT_COUNT

\* How many digits are above k elements.
Above(s, k) == Len(s) - k * DIGIT_COUNT

Whole(s) ==
  [k \in 1..Full(s) |->
     atoi(SubSeq(s, Len(s) - (k - 1) * DIGIT_COUNT - DIGIT_COUNT + 1,
                    Len(s) - (k - 1) * DIGIT_COUNT))]

Elems(s) == IF Over(s) = 0 THEN Whole(s) ELSE Append(Whole(s), atoi(SubSeq(s, 1, Over(s))))

LEMMA Cutting ==
  ASSUME NEW s \in Seq(Nat)
  PROVE  /\ Full(s) \in Nat /\ Over(s) \in 0..(DIGIT_COUNT - 1)
         /\ Above(s, 0) = Len(s)
         /\ Above(s, Full(s)) = Over(s)
         /\ \A k \in 0..Full(s) : Above(s, k) \in 0..Len(s)
         /\ \A k \in 1..Full(s) : /\ Above(s, k) + DIGIT_COUNT = Above(s, k - 1)
                                  /\ Len(s) - (k - 1) * DIGIT_COUNT = Above(s, k - 1)
<1> DEFINE n == Len(s)
           D == DIGIT_COUNT
           q == Full(s)
           r == Over(s)
<1>1. n \in Nat /\ D \in Nat \ {0}
  BY RadixType
<1>2. q \in Nat /\ r \in Nat /\ n = D * q + r /\ r < D
  BY <1>1, Division DEF Full, Over
<1> HIDE DEF n, D, q, r
<1>3. r \in 0..(D - 1)
  BY <1>1, <1>2
<1>4. ASSUME NEW k \in 0..q PROVE n - k * D \in 0..n
  <2>1. k \in Nat /\ q - k \in Nat /\ q = k + (q - k)
    BY <1>2
  <2>2. D * q = k * D + D * (q - k)
    BY <1>1, <2>1
  <2>3. k * D \in Nat /\ D * (q - k) \in Nat
    BY <1>1, <2>1
  <2> QED
    BY <1>1, <1>2, <2>2, <2>3
<1>5. ASSUME NEW k \in 1..q
      PROVE  (n - k * D) + D = n - (k - 1) * D
  <2>1. k \in Nat /\ (k - 1) * D = k * D - D /\ k * D \in Int
    BY <1>1, <1>2
  <2> QED
    BY <1>1, <2>1
<1>6. n - 0 * D = n /\ n - q * D = r
  <2>1. D * q = q * D /\ q * D \in Int /\ 0 * D = 0
    BY <1>1, <1>2
  <2> QED
    BY <1>1, <1>2, <2>1
<1> QED
  BY <1>2, <1>3, <1>4, <1>5, <1>6 DEF Above, n, D, q, r

LEMMA WholeElements ==
  ASSUME NEW s \in Seq(Nat), AllDigits(s), NEW k \in 1..Full(s)
  PROVE  /\ Whole(s)[k] \in 0..(Radix - 1)
         /\ ValueTo(s)[Above(s, k - 1)] = ValueTo(s)[Above(s, k)] * Radix + Whole(s)[k]
<1> DEFINE m == Above(s, k)
           D == DIGIT_COUNT
           e == Len(s) - (k - 1) * DIGIT_COUNT
<1>1. /\ Full(s) \in Nat /\ k \in 0..Full(s) /\ k - 1 \in 0..Full(s)
      /\ m \in 0..Len(s) /\ Above(s, k - 1) \in 0..Len(s)
      /\ m + D = Above(s, k - 1) /\ e = Above(s, k - 1)
  <2>1. Full(s) \in Nat /\ k \in 0..Full(s) /\ k - 1 \in 0..Full(s)
    BY Cutting
  <2> QED
    BY <2>1, Cutting
<1>2. D \in 0..D /\ D \in Nat
  BY RadixType
<1>3. Whole(s)[k] = atoi(SubSeq(s, e - D + 1, e))
  BY DEF Whole
<1> DEFINE a == Above(s, k - 1)
<1>4. m \in Nat /\ e - D + 1 = m + 1 /\ e = m + D /\ m + D <= Len(s)
  <2>1. e = a /\ a \in 0..Len(s) /\ m + D = a /\ m \in 0..Len(s) /\ Len(s) \in Nat
    BY <1>1
  <2> HIDE DEF e, a, m, D
  <2> QED
    BY <1>2, <2>1
<1>5. Whole(s)[k] = atoi(SubSeq(s, m + 1, m + D)) /\ m + D = a
  BY <1>1, <1>3, <1>4
<1> HIDE DEF m, e, a
<1>6. /\ atoi(SubSeq(s, m + 1, m + D)) \in 0..(Radix - 1)
      /\ ValueTo(s)[m + D] = ValueTo(s)[m] * TenTo[D] + atoi(SubSeq(s, m + 1, m + D))
  BY <1>2, <1>4, ElementOfPart
<1>7. TenTo[D] = Radix
  BY DEF Radix
<1>8. /\ Whole(s)[k] \in 0..(Radix - 1)
      /\ ValueTo(s)[a] = ValueTo(s)[m] * Radix + Whole(s)[k]
  BY <1>5, <1>6, <1>7
<1> QED
  BY <1>8 DEF m, a

LEMMA ElementsSay ==
  ASSUME NEW s \in Seq(Nat), AllDigits(s), s # <<>>
  PROVE  Says(Elems(s), atoi(s))
<1> DEFINE V == ValueTo(s)
           q == Full(s)
           r == Over(s)
           w == Whole(s)
           A(k) == Above(s, k)
<1>1. /\ q \in Nat /\ r \in Nat /\ r < DIGIT_COUNT /\ DIGIT_COUNT \in Nat
      /\ A(0) = Len(s) /\ A(q) = r
      /\ \A k \in 0..q : A(k) \in 0..Len(s)
  BY Cutting, RadixType
<1>2. Radix \in Nat \ {0}
  BY RadixType
<1>3. \A k \in 0..q : V[A(k)] \in Nat
  BY <1>1, ValuesOfDigits
<1>4. \A k \in 1..q : w[k] \in 0..(Radix - 1) /\ V[A(k - 1)] = V[A(k)] * Radix + w[k]
  BY WholeElements
<1>5. w \in Seq(Nat) /\ Len(w) = q
  <2>1. w = [k \in 1..q |-> w[k]]
    BY DEF Whole
  <2>2. \A k \in 1..q : w[k] \in Nat
    BY <1>2, <1>4
  <2> HIDE DEF w, q
  <2> QED
    BY <1>1, <2>1, <2>2
<1>6. Len(s) \in Nat /\ Len(s) >= 1
  OBVIOUS
<1>7. V[0] = 0 /\ V[Len(s)] = atoi(s)
  BY Values, AtoiIsValue
<1> DEFINE first == atoi(SubSeq(s, 1, r))
<1>8. r <= Len(s) /\ first \in 0..(Radix - 1) /\ V[r] = first
  <2>1. r \in 0..Len(s)
    <3>1. q \in 0..q
      BY <1>1
    <3> QED
      BY <1>1, <3>1
  <2>2. 0 \in Nat /\ r \in 0..DIGIT_COUNT /\ 0 + r <= Len(s) /\ 0 + 1 = 1 /\ 0 + r = r
    <3> HIDE DEF r
    <3> QED
      BY <1>1, <1>6, <2>1
  <2>3. /\ atoi(SubSeq(s, 0 + 1, 0 + r)) \in 0..(Radix - 1)
        /\ V[0 + r] = V[0] * TenTo[r] + atoi(SubSeq(s, 0 + 1, 0 + r))
    <3> HIDE DEF r
    <3> QED
      BY <2>2, ElementOfPart
  <2>4. first \in 0..(Radix - 1) /\ V[r] = V[0] * TenTo[r] + first
    <3> HIDE DEF r
    <3> QED
      BY <2>2, <2>3
  <2>5. TenTo[r] \in Nat
    BY <1>1, PowersOfTen
  <2> DEFINE x == V[r]
             y == V[0] * TenTo[r]
  <2>6. y = 0 /\ x = y + first
    BY <1>7, <2>4, <2>5
  <2> HIDE DEF first, x, y
  <2>7. x = first
    BY <1>2, <2>4, <2>6
  <2> QED
    BY <1>6, <2>1, <2>4, <2>7 DEF x
<1> HIDE DEF V, q, r, w, first, A
<1>9. CASE r = 0
  <2> DEFINE P == [k \in 0..q |-> V[A(k)]]
  <2>1. Elems(s) = w
    BY <1>9 DEF Elems, w, r
  <2>2. q # 0
    BY <1>1, <1>6, <1>9
  <2>3. P \in [0..q -> Nat] /\ P[0] = atoi(s) /\ P[q] = 0
    BY <1>1, <1>3, <1>7, <1>9
  <2>4. ASSUME NEW k \in 1..q PROVE w[k] < Radix /\ P[k - 1] = P[k] * Radix + w[k]
    <3>1. k \in 0..q /\ k - 1 \in 0..q
      BY <1>1
    <3> QED
      BY <1>2, <1>4, <3>1
  <2> HIDE DEF P
  <2>5. Numeral(w, P, atoi(s))
    BY <1>5, <2>3, <2>4 DEF Numeral
  <2> QED
    BY <1>1, <1>5, <2>1, <2>2, <2>5 DEF Says
<1>10. CASE r # 0
  <2> DEFINE P == [k \in 0..(q + 1) |-> IF k = q + 1 THEN 0 ELSE V[A(k)]]
             e == Append(w, first)
  <2>1. Elems(s) = e
    BY <1>10 DEF Elems, w, r, first
  <2>2. e \in Seq(Nat) /\ Len(e) = q + 1 /\ e[q + 1] = first /\ \A k \in 1..q : e[k] = w[k]
    BY <1>1, <1>2, <1>5, <1>8
  <2>3. P \in [0..(q + 1) -> Nat] /\ P[q + 1] = 0
    <3>1. \A k \in 0..(q + 1) : k # q + 1 => k \in 0..q
      BY <1>1
    <3> QED
      BY <1>1, <1>3, <3>1
  <2>4. P[0] = atoi(s)
    <3>1. 0 \in 0..(q + 1) /\ 0 # q + 1
      BY <1>1
    <3> QED
      BY <1>1, <1>7, <3>1
  <2>5. ASSUME NEW k \in 1..(q + 1) PROVE e[k] < Radix /\ P[k - 1] = P[k] * Radix + e[k]
    <3>1. CASE k \in 1..q
      <4>1. k \in 0..(q + 1) /\ k - 1 \in 0..(q + 1) /\ k # q + 1 /\ k - 1 # q + 1
        BY <1>1, <3>1
      <4>2. P[k] = V[A(k)] /\ P[k - 1] = V[A(k - 1)] /\ e[k] = w[k]
        BY <2>2, <3>1, <4>1
      <4> HIDE DEF P, e
      <4> QED
        BY <1>2, <1>4, <3>1, <4>2
    <3>2. CASE k = q + 1
      <4>1. q \in 0..(q + 1) /\ q # q + 1 /\ k - 1 = q
        BY <1>1, <3>2
      <4>2. P[k - 1] = first /\ P[k] = 0 /\ e[k] = first
        BY <1>1, <1>8, <2>2, <2>3, <3>2, <4>1
      <4>3. 0 * Radix + first = first
        BY <1>2, <1>8
      <4> HIDE DEF P, e
      <4> QED
        BY <1>2, <1>8, <4>2, <4>3
    <3>3. k \in 1..q \/ k = q + 1
      BY <1>1
    <3> QED
      BY <3>1, <3>2, <3>3
  <2> HIDE DEF P, e
  <2>6. Numeral(e, P, atoi(s))
    BY <2>2, <2>3, <2>4, <2>5 DEF Numeral
  <2> QED
    BY <1>1, <2>1, <2>2, <2>6 DEF Says
<1> QED
  BY <1>9, <1>10

\* The last of the elements that have a property.
LEMMA LastOf ==
  ASSUME NEW n \in Nat, NEW S \in SUBSET (1..n), S # {}
  PROVE  \E i \in S : \A k \in S : k <= i
<1> DEFINE T == {n - i : i \in S}
<1>1. T \in SUBSET Nat /\ T # {}
  <2>1. \A i \in S : n - i \in Nat
    OBVIOUS
  <2>2. PICK i \in S : TRUE
    OBVIOUS
  <2>3. n - i \in T
    BY <2>2
  <2> QED
    BY <2>1, <2>3
<1>2. PICK m \in T : \A j \in T : m <= j
  <2> HIDE DEF T
  <2> QED
    BY <1>1, LeastElement
<1>3. PICK i \in S : m = n - i
  BY <1>2
<1>4. ASSUME NEW k \in S PROVE k <= i
  <2>1. m <= n - k /\ k \in Int /\ i \in Int
    BY <1>2
  <2> QED
    BY <1>3, <2>1
<1> QED
  BY <1>4

\* No zero in the highest place, unless it is the only one.
Normal(val) == Len(val) >= 1 /\ (Len(val) = 1 \/ val[Len(val)] # 0)

IsTop(val, i) == /\ i = 1 \/ val[i] # 0
                 /\ \A k \in (i + 1)..Len(val) : val[k] = 0

LEMMA TopElement ==
  ASSUME NEW val \in Seq(Nat), Len(val) >= 1
  PROVE  \E i \in 1..Len(val) : IsTop(val, i)
<1> DEFINE n == Len(val)
           S == {i \in 1..n : val[i] # 0}
<1>1. n \in Nat /\ n >= 1 /\ S \in SUBSET (1..n)
  OBVIOUS
<1>2. CASE S = {}
  <2>1. IsTop(val, 1)
    BY <1>1, <1>2 DEF IsTop
  <2> QED
    BY <1>1, <2>1
<1>3. CASE S # {}
  <2>1. PICK i \in S : \A k \in S : k <= i
    <3> HIDE DEF S, n
    <3> QED
      BY <1>1, <1>3, LastOf
  <2>2. i \in 1..n /\ val[i] # 0
    BY <2>1
  <2>3. \A k \in (i + 1)..n : k \in 1..n /\ ~(k <= i)
    BY <1>1, <2>2
  <2>4. \A k \in (i + 1)..n : val[k] = 0
    BY <2>1, <2>3
  <2> QED
    BY <2>2, <2>4 DEF IsTop
<1> QED
  BY <1>2, <1>3

\* Leading zeros say nothing.
LEMMA Stripped ==
  ASSUME NEW val, NEW v, Says(val, v)
  PROVE  Says(removeLeadingZeros(val), v) /\ Normal(removeLeadingZeros(val))
<1> DEFINE n == Len(val)
           top == CHOOSE i \in 1..n : IsTop(val, i)
           r == SubSeq(val, 1, top)
<1>1. PICK P : Numeral(val, P, v)
  BY DEF Says
<1>2. /\ val \in Seq(Nat) /\ n \in Nat /\ n >= 1
      /\ P \in [0..n -> Nat] /\ P[0] = v /\ P[n] = 0
      /\ \A k \in 1..n : val[k] < Radix /\ P[k - 1] = P[k] * Radix + val[k]
  BY <1>1 DEF Numeral, Says
<1>3. removeLeadingZeros(val) = r
  BY DEF removeLeadingZeros, IsTop
<1>4. top \in 1..n /\ IsTop(val, top)
  BY <1>2, TopElement
<1> HIDE DEF top
<1>5. r \in Seq(Nat) /\ Len(r) = top /\ \A k \in 1..top : r[k] = val[k]
  BY <1>2, <1>4
<1>6. P[top] = 0
  <2> DEFINE Q == {j \in Nat : j <= n - top => P[n - j] = 0}
  <2>1. 0 \in Q
    BY <1>2
  <2>2. ASSUME NEW j \in Nat, j \in Q PROVE j + 1 \in Q
    <3> SUFFICES ASSUME j + 1 <= n - top PROVE P[n - (j + 1)] = 0
      OBVIOUS
    <3>1. n - j \in (top + 1)..n /\ n - j \in 1..n /\ n - (j + 1) = (n - j) - 1
      BY <1>2, <1>4
    <3>2. val[n - j] = 0 /\ P[n - j] = 0
      BY <1>2, <1>4, <2>2, <3>1 DEF IsTop
    <3>3. P[(n - j) - 1] = P[n - j] * Radix + val[n - j]
      BY <1>2, <3>1
    <3>4. 0 * Radix + 0 = 0
      BY RadixType
    <3> QED
      BY <3>1, <3>2, <3>3, <3>4
  <2>3. Nat \subseteq Q
    <3> HIDE DEF Q
    <3> QED
      BY <2>1, <2>2, Induction
  <2>4. n - top \in Nat /\ n - (n - top) = top
    BY <1>2, <1>4
  <2> QED
    BY <2>3, <2>4
<1> HIDE DEF r
<1>7. Says(r, v)
  <2> DEFINE p == [k \in 0..top |-> P[k]]
  <2>1. \A k \in 0..top : k \in 0..n
    BY <1>2, <1>4
  <2>2. p \in [0..top -> Nat] /\ p[0] = v /\ p[top] = 0
    BY <1>2, <1>4, <1>6, <2>1
  <2>3. ASSUME NEW k \in 1..top PROVE r[k] < Radix /\ p[k - 1] = p[k] * Radix + r[k]
    <3>1. k \in 0..top /\ k - 1 \in 0..top /\ k \in 1..n
      BY <1>2, <1>4
    <3>2. p[k] = P[k] /\ p[k - 1] = P[k - 1] /\ r[k] = val[k]
      BY <1>5, <3>1
    <3> HIDE DEF p
    <3> QED
      BY <1>2, <3>1, <3>2
  <2> HIDE DEF p
  <2>4. Numeral(r, p, v)
    BY <1>5, <2>2, <2>3 DEF Numeral
  <2> QED
    BY <1>4, <1>5, <2>4 DEF Says
<1>8. Normal(r)
  BY <1>4, <1>5 DEF Normal, IsTop
<1> QED
  BY <1>3, <1>7, <1>8

\* Of two numbers that have elements above, the highest decides.
LEMMA HigherDecides ==
  ASSUME NEW a \in Nat, NEW b \in Nat, NEW c \in Nat, NEW d \in Nat,
         b < Radix, d < Radix, a < c
  PROVE  a * Radix + b < c * Radix + d
<1> DEFINE R == Radix
<1>1. R \in Nat
  BY RadixType
<1> HIDE DEF R
<1>2. c - a - 1 \in Nat /\ c = a + 1 + (c - a - 1)
  OBVIOUS
<1>3. c * R = a * R + R + (c - a - 1) * R
  BY <1>1, <1>2
<1>4. a * R \in Nat /\ (c - a - 1) * R \in Nat /\ c * R \in Nat
  BY <1>1, <1>2
<1>5. b < R
  BY DEF R
<1> DEFINE x == a * R
           y == c * R
           z == (c - a - 1) * R
<1>6. x \in Nat /\ y \in Nat /\ z \in Nat /\ y = x + R + z
  BY <1>3, <1>4
<1> HIDE DEF x, y, z
<1>7. x + b < y + d
  BY <1>1, <1>5, <1>6
<1> QED
  BY <1>7 DEF x, y, R

\* What is less above the k-th elements is less in the end.
LEMMA LessAbove ==
  ASSUME NEW m, NEW n, NEW P, NEW Q, NEW v, NEW w, Numeral(m, P, v), Numeral(n, Q, w),
         NEW k \in Nat, k <= Len(m), k <= Len(n), P[k] < Q[k]
  PROVE  v < w
<1>1. /\ m \in Seq(Nat) /\ Len(m) \in Nat
      /\ P \in [0..Len(m) -> Nat] /\ P[0] = v
      /\ \A i \in 1..Len(m) : m[i] < Radix /\ P[i - 1] = P[i] * Radix + m[i]
  BY DEF Numeral
<1>2. /\ n \in Seq(Nat) /\ Len(n) \in Nat
      /\ Q \in [0..Len(n) -> Nat] /\ Q[0] = w
      /\ \A i \in 1..Len(n) : n[i] < Radix /\ Q[i - 1] = Q[i] * Radix + n[i]
  BY DEF Numeral
<1> DEFINE S == {j \in Nat : j <= k => P[k - j] < Q[k - j]}
<1>3. 0 \in S
  OBVIOUS
<1>4. ASSUME NEW j \in Nat, j \in S PROVE j + 1 \in S
  <2> SUFFICES ASSUME j + 1 <= k PROVE P[k - (j + 1)] < Q[k - (j + 1)]
    OBVIOUS
  <2>1. /\ k - j \in 1..Len(m) /\ k - j \in 1..Len(n) /\ k - (j + 1) = (k - j) - 1
        /\ k - j \in 0..Len(m) /\ k - j \in 0..Len(n)
    BY <1>1, <1>2
  <2> DEFINE i == k - j
  <2>2. P[i] < Q[i]
    BY <1>4
  <2>3. i \in 1..Len(m) /\ i \in 1..Len(n) /\ i \in 0..Len(m) /\ i \in 0..Len(n)
    BY <2>1
  <2> HIDE DEF i
  <2>4. P[i] \in Nat /\ Q[i] \in Nat /\ m[i] \in Nat /\ n[i] \in Nat
    <3>1. P[i] \in Nat /\ Q[i] \in Nat
      BY <1>1, <1>2, <2>3
    <3>2. m \in Seq(Nat) /\ n \in Seq(Nat)
      BY <1>1, <1>2
    <3>3. m[i] \in Nat /\ n[i] \in Nat
      BY <2>3, <3>2
    <3> QED
      BY <3>1, <3>3
  <2>5. P[i] * Radix + m[i] < Q[i] * Radix + n[i]
    <3>1. m[i] < Radix /\ n[i] < Radix
      BY <1>1, <1>2, <2>3
    <3> QED
      BY <2>2, <2>4, <3>1, HigherDecides
  <2>6. P[i - 1] < Q[i - 1]
    BY <1>1, <1>2, <2>3, <2>5
  <2> QED
    BY <2>1, <2>6 DEF i
<1>5. Nat \subseteq S
  <2> HIDE DEF S
  <2> QED
    BY <1>3, <1>4, Induction
<1>6. k \in S
  BY <1>5
<1> QED
  BY <1>1, <1>2, <1>6

\* What has the same elements above the i-th has the same value there.
LEMMA SameAbove ==
  ASSUME NEW m, NEW n, NEW P, NEW Q, NEW v, NEW w, Numeral(m, P, v), Numeral(n, Q, w),
         Len(m) = Len(n), NEW i \in 0..Len(m), \A k \in (i + 1)..Len(m) : m[k] = n[k]
  PROVE  P[i] = Q[i]
<1>1. /\ Len(m) \in Nat /\ P[Len(m)] = 0
      /\ \A k \in 1..Len(m) : P[k - 1] = P[k] * Radix + m[k]
  BY DEF Numeral
<1>2. /\ Q[Len(m)] = 0
      /\ \A k \in 1..Len(m) : Q[k - 1] = Q[k] * Radix + n[k]
  BY DEF Numeral
<1> DEFINE l == Len(m)
           S == {j \in Nat : j <= l - i => P[l - j] = Q[l - j]}
<1>3. 0 \in S
  BY <1>1, <1>2
<1>4. ASSUME NEW j \in Nat, j \in S PROVE j + 1 \in S
  <2> SUFFICES ASSUME j + 1 <= l - i PROVE P[l - (j + 1)] = Q[l - (j + 1)]
    OBVIOUS
  <2>1. l - j \in (i + 1)..l /\ l - j \in 1..l /\ l - (j + 1) = (l - j) - 1
    BY <1>1
  <2>2. P[l - j] = Q[l - j] /\ m[l - j] = n[l - j]
    BY <1>1, <1>4, <2>1
  <2>3. /\ P[(l - j) - 1] = P[l - j] * Radix + m[l - j]
        /\ Q[(l - j) - 1] = Q[l - j] * Radix + n[l - j]
    BY <1>1, <1>2, <2>1
  <2> QED
    BY <2>1, <2>2, <2>3
<1>5. Nat \subseteq S
  <2> HIDE DEF S
  <2> QED
    BY <1>3, <1>4, Induction
<1>6. l - i \in Nat /\ l - (l - i) = i
  BY <1>1
<1>7. l - i \in S
  BY <1>5, <1>6
<1> QED
  BY <1>6, <1>7

LEMMA ShorterIsLess ==
  ASSUME NEW m, NEW n, NEW P, NEW Q, NEW v, NEW w, Numeral(m, P, v), Numeral(n, Q, w),
         Normal(n), Len(m) >= 1, Len(m) < Len(n)
  PROVE  v < w
<1>1. /\ n \in Seq(Nat) /\ Len(n) \in Nat
      /\ Q \in [0..Len(n) -> Nat] /\ Q[Len(n)] = 0
      /\ \A k \in 1..Len(n) : Q[k - 1] = Q[k] * Radix + n[k]
  BY DEF Numeral
<1>2. Len(m) \in Nat /\ P[Len(m)] = 0
  BY DEF Numeral
<1> DEFINE l == Len(n)
           S == {j \in Nat : j <= l - 1 => Q[l - 1 - j] >= 1}
<1>3. n[l] \in Nat /\ n[l] # 0 /\ l \in 1..l
  BY <1>1, <1>2 DEF Normal
<1>4. Q[l - 1] >= 1
  <2>1. Q[l - 1] = Q[l] * Radix + n[l]
    BY <1>1, <1>3
  <2>2. 0 * Radix = 0
    BY RadixType
  <2> QED
    BY <1>1, <1>3, <2>1, <2>2
<1>5. 0 \in S
  BY <1>1, <1>4
<1>6. ASSUME NEW j \in Nat, j \in S PROVE j + 1 \in S
  <2> SUFFICES ASSUME j + 1 <= l - 1 PROVE Q[l - 1 - (j + 1)] >= 1
    OBVIOUS
  <2> DEFINE i == l - 1 - j
  <2>1. i \in 1..l /\ i \in 0..l /\ l - 1 - (j + 1) = i - 1
    BY <1>1
  <2>2. Q[i] >= 1
    BY <1>6
  <2> HIDE DEF i
  <2>3. Q[i - 1] = Q[i] * Radix + n[i] /\ Q[i] \in Nat /\ n[i] \in Nat
    <3>1. n \in Seq(Nat)
      BY <1>1
    <3>2. n[i] \in Nat
      BY <2>1, <3>1
    <3> QED
      BY <1>1, <2>1, <3>2
  <2>4. \A x, y \in Nat : x >= 1 => x * Radix + y >= 1
    <3>1. \A x \in Nat : x >= 1 => x * Radix \in Nat /\ x * Radix >= 1
      BY RadixType
    <3> QED
      BY <3>1
  <2> QED
    BY <2>1, <2>2, <2>3, <2>4
<1>7. Nat \subseteq S
  <2> HIDE DEF S
  <2> QED
    BY <1>5, <1>6, Induction
<1> DEFINE k == Len(m)
<1>8. l - 1 - k \in Nat /\ l - 1 - k <= l - 1 /\ l - 1 - (l - 1 - k) = k
  BY <1>1, <1>2
<1>9. Q[k] >= 1
  <2>1. l - 1 - k \in S
    BY <1>7, <1>8
  <2> QED
    BY <1>8, <2>1
<1>10. P[k] < Q[k] /\ k \in Nat /\ k <= Len(m) /\ k <= Len(n)
  <2>1. k \in 0..l
    BY <1>1, <1>2
  <2>2. Q[k] \in Nat
    BY <1>1, <2>1
  <2> QED
    BY <1>1, <1>2, <1>9, <2>2
<1> HIDE DEF k
<1> QED
  BY <1>10, LessAbove

LEMMA LessMeansLess ==
  ASSUME NEW m, NEW n, NEW v, NEW w, Says(m, v), Normal(m), Says(n, w), Normal(n), LessInt(m, n)
  PROVE  v < w
<1>1. PICK P : Numeral(m, P, v)
  BY DEF Says
<1>2. PICK Q : Numeral(n, Q, w)
  BY DEF Says
<1>3. CASE Len(m) < Len(n)
  BY <1>1, <1>2, <1>3, ShorterIsLess DEF Normal
<1>4. CASE ~(Len(m) < Len(n))
  <2>1. Len(m) = Len(n)
    BY <1>4 DEF LessInt
  <2>2. PICK i \in 1..Len(m) : m[i] < n[i] /\ \A k \in (i + 1)..Len(m) : m[k] = n[k]
    BY <1>4 DEF LessInt
  <2>3. /\ m \in Seq(Nat) /\ n \in Seq(Nat) /\ Len(m) \in Nat
        /\ P \in [0..Len(m) -> Nat]
        /\ P[i - 1] = P[i] * Radix + m[i] /\ Q[i - 1] = Q[i] * Radix + n[i]
    BY <1>1, <1>2, <2>1 DEF Numeral
  <2>4. i \in 0..Len(m) /\ i - 1 \in Nat /\ i - 1 <= Len(m) /\ i - 1 <= Len(n)
    BY <2>1, <2>3
  <2>5. P[i] = Q[i]
    BY <1>1, <1>2, <2>1, <2>2, <2>4, SameAbove
  <2>6. P[i - 1] < Q[i - 1]
    <3> DEFINE x == P[i] * Radix
               a == m[i]
               b == n[i]
    <3>1. x \in Nat
      <4>1. P[i] \in Nat
        BY <2>3, <2>4
      <4> QED
        BY <4>1, RadixType
    <3>2. a \in Nat /\ b \in Nat /\ a < b
      BY <2>1, <2>2, <2>3
    <3>3. P[i - 1] = x + a /\ Q[i - 1] = x + b
      BY <2>3, <2>5
    <3> HIDE DEF x, a, b
    <3> QED
      BY <3>1, <3>2, <3>3
  <2> DEFINE k == i - 1
  <2>7. k \in Nat /\ k <= Len(m) /\ k <= Len(n) /\ P[k] < Q[k]
    BY <2>4, <2>6
  <2> HIDE DEF k
  <2> QED
    BY <1>1, <1>2, <2>7, LessAbove
<1> QED
  BY <1>3, <1>4

LEMMA LessOrSame ==
  ASSUME NEW m, NEW n, NEW v, NEW w, Says(m, v), Says(n, w), ~LessInt(m, n), ~LessInt(n, m)
  PROVE  v = w
<1>1. PICK P : Numeral(m, P, v)
  BY DEF Says
<1>2. PICK Q : Numeral(n, Q, w)
  BY DEF Says
<1>3. m \in Seq(Nat) /\ n \in Seq(Nat) /\ P[0] = v /\ Q[0] = w
  BY <1>1, <1>2 DEF Numeral
<1> DEFINE l == Len(m)
           S == {i \in 1..l : m[i] # n[i]}
<1>4. l \in Nat /\ Len(n) = l
  <2>1. Len(m) \in Nat /\ Len(n) \in Nat
    BY <1>3
  <2> QED
    BY <2>1 DEF LessInt
<1>5. S = {}
  <2> SUFFICES ASSUME S # {} PROVE FALSE
    OBVIOUS
  <2>1. PICK i \in S : \A k \in S : k <= i
    <3>1. S \in SUBSET (1..l)
      OBVIOUS
    <3> HIDE DEF S, l
    <3> QED
      BY <1>4, <3>1, LastOf
  <2>2. i \in 1..l /\ m[i] # n[i] /\ m[i] \in Nat /\ n[i] \in Nat
    BY <1>3, <1>4
  <2>3. \A k \in (i + 1)..l : m[k] = n[k]
    <3>1. \A k \in (i + 1)..l : k \in 1..l /\ ~(k <= i)
      BY <1>4, <2>2
    <3> QED
      BY <2>1, <3>1
  <2>4. m[i] < n[i] \/ n[i] < m[i]
    BY <2>2
  <2> QED
    BY <1>4, <2>2, <2>3, <2>4 DEF LessInt
<1>6. 0 \in 0..l /\ \A k \in (0 + 1)..l : m[k] = n[k]
  BY <1>4, <1>5
<1>7. P[0] = Q[0]
  BY <1>1, <1>2, <1>4, <1>6, SameAbove
<1> QED
  BY <1>3, <1>7

\* Two numbers in names are compared by their values, however long they are and
\* whatever zeros they begin with: InfInt reads elements of DIGIT_COUNT digits from
\* the end, drops the highest ones that are zero and compares what is left.
THEOREM NumbersByValue ==
  ASSUME NEW t \in Seq(Digits), t # <<>>, NEW u \in Seq(Digits), u # <<>>
  PROVE  LessInt(fromString(t), fromString(u)) <=> atoi(t) < atoi(u)
<1> DEFINE m == fromString(t)
           n == fromString(u)
           v == atoi(t)
           w == atoi(u)
<1>1. /\ t \in Seq(Nat) /\ AllDigits(t)
      /\ u \in Seq(Nat) /\ AllDigits(u)
  <2>1. \A d \in Digits : d \in Nat
    BY DEF Digits
  <2> QED
    BY <2>1 DEF AllDigits
<1>2. Says(m, v) /\ Normal(m) /\ v \in Int
  <2>1. m = removeLeadingZeros(Elems(t))
    BY DEF fromString, Elems, Whole, Full, Over
  <2>2. Says(Elems(t), v)
    BY <1>1, ElementsSay
  <2> QED
    BY <1>1, <2>1, <2>2, Stripped, AtoiIsValue
<1>3. Says(n, w) /\ Normal(n) /\ w \in Int
  <2>1. n = removeLeadingZeros(Elems(u))
    BY DEF fromString, Elems, Whole, Full, Over
  <2>2. Says(Elems(u), w)
    BY <1>1, ElementsSay
  <2> QED
    BY <1>1, <2>1, <2>2, Stripped, AtoiIsValue
<1> HIDE DEF m, n, v, w
<1>4. LessInt(m, n) => v < w
  BY <1>2, <1>3, LessMeansLess
<1>5. LessInt(n, m) => w < v
  BY <1>2, <1>3, LessMeansLess
<1>6. ~LessInt(m, n) /\ ~LessInt(n, m) => v = w
  BY <1>2, <1>3, LessOrSame
<1>7. LessInt(m, n) <=> v < w
  BY <1>2, <1>3, <1>4, <1>5, <1>6
<1> QED
  BY <1>7 DEF m, n, v, w

----------------------------------------------------------------------------
(* The order of names.  A relation is a set of pairs.                      *)

\* What std::sort and std::map ask of an order: what comes before something comes
\* before whatever is as good as that.
StrictWeak(R, T) ==
  /\ \A x, y \in T : ~(<<x, y>> \in R /\ <<y, x>> \in R)
  /\ \A x, y, z \in T : <<x, z>> \in R => <<x, y>> \in R \/ <<y, z>> \in R

Tied(R, x, y) == <<x, y>> \notin R /\ <<y, x>> \notin R

LEMMA StrictWeakFacts ==
  ASSUME NEW T, NEW R, StrictWeak(R, T), NEW x \in T, NEW y \in T, NEW z \in T
  PROVE  /\ <<x, x>> \notin R
         /\ Tied(R, x, y) => Tied(R, y, x)
         /\ Tied(R, x, y) /\ Tied(R, y, z) => Tied(R, x, z)
         /\ <<x, y>> \in R /\ <<y, z>> \in R => <<x, z>> \in R
         /\ <<x, y>> \in R /\ Tied(R, y, z) => <<x, z>> \in R
         /\ Tied(R, x, y) /\ <<y, z>> \in R => <<x, z>> \in R
BY DEF StrictWeak, Tied

\* The first place at which two sequences differ.
FirstAt(R, a, b, i) ==
  /\ i \in 1..Len(a) /\ i \in 1..Len(b)
  /\ ~Tied(R, a[i], b[i])
  /\ \A k \in 1..(i - 1) : Tied(R, a[k], b[k])

TiedAlong(R, a, b) == \A k \in 1..Len(a) : k <= Len(b) => Tied(R, a[k], b[k])

\* The lexicographic order.
Lex(R, a, b) ==
  \/ \E i \in 1..Len(a) : FirstAt(R, a, b, i) /\ <<a[i], b[i]>> \in R
  \/ TiedAlong(R, a, b) /\ Len(a) < Len(b)

LEMMA FirstOrNone ==
  ASSUME NEW T, NEW R, NEW a \in Seq(T), NEW b \in Seq(T)
  PROVE  TiedAlong(R, a, b) \/ \E i \in 1..Len(a) : FirstAt(R, a, b, i)
<1> DEFINE S == {i \in 1..Len(a) : i <= Len(b) /\ ~Tied(R, a[i], b[i])}
<1>1. Len(a) \in Nat /\ Len(b) \in Nat /\ S \in SUBSET Nat
  OBVIOUS
<1>2. CASE S = {}
  BY <1>2 DEF TiedAlong
<1>3. CASE S # {}
  <2>1. PICK i \in S : \A k \in S : i <= k
    <3> HIDE DEF S
    <3> QED
      BY <1>1, <1>3, LeastElement
  <2>2. i \in 1..Len(a) /\ i \in 1..Len(b) /\ ~Tied(R, a[i], b[i])
    BY <1>1
  <2>3. \A k \in 1..(i - 1) : k \in 1..Len(a) /\ k <= Len(b) /\ ~(i <= k)
    BY <1>1, <2>2
  <2>4. \A k \in 1..(i - 1) : Tied(R, a[k], b[k])
    BY <2>1, <2>3
  <2> QED
    BY <2>2, <2>4 DEF FirstAt
<1> QED
  BY <1>2, <1>3

LEMMA LexAsymmetric ==
  ASSUME NEW T, NEW R, StrictWeak(R, T), NEW a \in Seq(T), NEW b \in Seq(T),
         Lex(R, a, b), Lex(R, b, a)
  PROVE  FALSE
<1>1. Len(a) \in Nat /\ Len(b) \in Nat
  OBVIOUS
<1>2. CASE TiedAlong(R, a, b)
  <2>1. \A k \in 1..Len(b) : ~FirstAt(R, b, a, k)
    BY <1>1, <1>2 DEF TiedAlong, FirstAt, Tied
  <2>2. \A k \in 1..Len(a) : ~FirstAt(R, a, b, k)
    BY <1>1, <1>2 DEF TiedAlong, FirstAt, Tied
  <2>3. Len(a) < Len(b)
    BY <2>2 DEF Lex
  <2>4. Len(b) < Len(a)
    BY <2>1 DEF Lex
  <2> QED
    BY <1>1, <2>3, <2>4
<1>3. CASE ~TiedAlong(R, a, b)
  <2>1. PICK i \in 1..Len(a) : FirstAt(R, a, b, i) /\ <<a[i], b[i]>> \in R
    BY <1>3 DEF Lex
  <2>2. ~TiedAlong(R, b, a)
    BY <1>1, <2>1 DEF TiedAlong, FirstAt, Tied
  <2>3. PICK j \in 1..Len(b) : FirstAt(R, b, a, j) /\ <<b[j], a[j]>> \in R
    BY <2>2 DEF Lex
  <2>4. i = j
    <3>1. ~(i < j)
      BY <1>1, <2>1, <2>3 DEF FirstAt, Tied
    <3>2. ~(j < i)
      BY <1>1, <2>1, <2>3 DEF FirstAt, Tied
    <3> QED
      BY <1>1, <3>1, <3>2
  <2>5. a[i] \in T /\ b[i] \in T
    <3>1. i \in 1..Len(b)
      BY <2>4
    <3> QED
      BY <3>1
  <2> QED
    BY <2>1, <2>3, <2>4, <2>5 DEF StrictWeak
<1> QED
  BY <1>2, <1>3

LEMMA LexNegative ==
  ASSUME NEW T, NEW R, StrictWeak(R, T), NEW a \in Seq(T), NEW b \in Seq(T), NEW c \in Seq(T),
         Lex(R, a, c)
  PROVE  Lex(R, a, b) \/ Lex(R, b, c)
<1>1. Len(a) \in Nat /\ Len(b) \in Nat /\ Len(c) \in Nat
  OBVIOUS
<1>2. /\ \A k \in 1..Len(a) : a[k] \in T
      /\ \A k \in 1..Len(b) : b[k] \in T
      /\ \A k \in 1..Len(c) : c[k] \in T
  OBVIOUS
<1> SUFFICES ASSUME ~Lex(R, a, b) PROVE Lex(R, b, c)
  OBVIOUS
\* a and c agree below j, at which a comes first, and b agrees with a below j.
<1>3. ASSUME NEW j \in Nat, j \in 1..Len(b), j \in 1..Len(c), <<b[j], c[j]>> \in R,
             \A k \in 1..(j - 1) : k \in 1..Len(a) /\ Tied(R, a[k], b[k]) /\ Tied(R, a[k], c[k])
      PROVE  Lex(R, b, c)
  <2>1. \A k \in 1..(j - 1) : Tied(R, b[k], c[k])
    <3> TAKE k \in 1..(j - 1)
    <3>1. k \in 1..Len(a) /\ k \in 1..Len(b) /\ k \in 1..Len(c)
      BY <1>1, <1>3
    <3>2. a[k] \in T /\ b[k] \in T /\ c[k] \in T
      BY <1>2, <3>1
    <3>3. Tied(R, b[k], a[k]) /\ Tied(R, a[k], c[k])
      BY <1>3 DEF Tied
    <3> QED
      BY <3>2, <3>3, StrictWeakFacts
  <2>2. ~Tied(R, b[j], c[j])
    BY <1>3 DEF Tied
  <2>3. FirstAt(R, b, c, j)
    BY <1>3, <2>1, <2>2 DEF FirstAt
  <2> QED
    BY <1>3, <2>3 DEF Lex
<1>4. ASSUME NEW i \in 1..Len(a), FirstAt(R, a, b, i),
             i <= Len(c), \A k \in 1..i : Tied(R, a[k], c[k])
      PROVE  Lex(R, b, c)
  <2>1. i \in Nat /\ i \in 1..Len(b) /\ i \in 1..Len(c)
    BY <1>1, <1>4 DEF FirstAt
  <2>2. a[i] \in T /\ b[i] \in T /\ c[i] \in T
    BY <1>2, <2>1
  <2>3. <<b[i], a[i]>> \in R /\ Tied(R, a[i], c[i])
    <3>1. <<a[i], b[i]>> \notin R
      BY <1>4 DEF Lex
    <3>2. ~Tied(R, a[i], b[i])
      BY <1>4 DEF FirstAt
    <3>3. i \in 1..i
      BY <2>1
    <3> QED
      BY <1>4, <3>1, <3>2, <3>3 DEF Tied
  <2>4. <<b[i], c[i]>> \in R
    BY <2>2, <2>3, StrictWeakFacts
  <2>5. \A k \in 1..(i - 1) : k \in 1..Len(a) /\ Tied(R, a[k], b[k]) /\ Tied(R, a[k], c[k])
    BY <1>1, <1>4 DEF FirstAt
  <2> QED
    BY <1>3, <2>1, <2>4, <2>5
<1>5. CASE \E j \in 1..Len(a) : FirstAt(R, a, c, j) /\ <<a[j], c[j]>> \in R
  <2>1. PICK j \in 1..Len(a) : FirstAt(R, a, c, j) /\ <<a[j], c[j]>> \in R
    BY <1>5
  <2>2. /\ j \in Nat /\ j \in 1..Len(c)
        /\ \A k \in 1..(j - 1) : k \in 1..Len(a) /\ Tied(R, a[k], c[k])
    BY <1>1, <2>1 DEF FirstAt
  <2>3. ASSUME j \in 1..Len(b), Tied(R, a[j], b[j]) \/ <<b[j], a[j]>> \in R,
               \A k \in 1..(j - 1) : Tied(R, a[k], b[k])
        PROVE  Lex(R, b, c)
    <3>1. a[j] \in T /\ b[j] \in T /\ c[j] \in T
      BY <1>2, <2>2, <2>3
    <3>2. <<b[j], c[j]>> \in R
      BY <2>1, <2>3, <3>1, StrictWeakFacts
    <3> QED
      BY <1>3, <2>2, <2>3, <3>2
  <2>4. CASE \E i \in 1..Len(a) : FirstAt(R, a, b, i)
    <3>1. PICK i \in 1..Len(a) : FirstAt(R, a, b, i)
      BY <2>4
    <3>2. /\ i \in 1..Len(b) /\ <<b[i], a[i]>> \in R
          /\ \A k \in 1..(i - 1) : Tied(R, a[k], b[k])
      BY <3>1 DEF FirstAt, Tied, Lex
    <3>3. CASE i < j
      <4>1. i <= Len(c) /\ \A k \in 1..i : k \in 1..(j - 1)
        BY <1>1, <2>2, <3>3
      <4> QED
        BY <1>4, <2>2, <3>1, <4>1
    <3>4. CASE i = j
      BY <2>3, <3>2, <3>4
    <3>5. CASE j < i
      <4>1. j \in 1..Len(b) /\ j \in 1..(i - 1) /\ \A k \in 1..(j - 1) : k \in 1..(i - 1)
        BY <1>1, <3>2, <3>5
      <4> QED
        BY <2>3, <3>2, <4>1
    <3>6. i < j \/ i = j \/ j < i
      BY <1>1
    <3> QED
      BY <3>3, <3>4, <3>5, <3>6
  <2>5. CASE TiedAlong(R, a, b)
    <3>1. CASE j <= Len(b)
      <4>1. j \in 1..Len(b) /\ \A k \in 1..j : k \in 1..Len(a) /\ k <= Len(b)
        BY <1>1, <3>1
      <4>2. \A k \in 1..j : Tied(R, a[k], b[k])
        BY <2>5, <4>1 DEF TiedAlong
      <4>3. j \in 1..j /\ \A k \in 1..(j - 1) : k \in 1..j
        BY <1>1
      <4> QED
        BY <2>3, <4>1, <4>2, <4>3
    <3>2. CASE Len(b) < j
      <4>1. ASSUME NEW k \in 1..Len(b) PROVE Tied(R, b[k], c[k])
        <5>1. k \in 1..(j - 1) /\ k \in 1..Len(a) /\ k \in 1..Len(c) /\ k <= Len(b)
          BY <1>1, <2>2, <3>2
        <5>2. Tied(R, b[k], a[k]) /\ Tied(R, a[k], c[k])
          BY <2>2, <2>5, <5>1 DEF TiedAlong, Tied
        <5>3. a[k] \in T /\ b[k] \in T /\ c[k] \in T
          BY <1>2, <5>1
        <5> QED
          BY <5>2, <5>3, StrictWeakFacts
      <4>2. Len(b) < Len(c)
        BY <1>1, <2>2, <3>2
      <4> QED
        BY <4>1, <4>2 DEF Lex, TiedAlong
    <3> QED
      BY <1>1, <3>1, <3>2
  <2> QED
    BY <2>4, <2>5, FirstOrNone
<1>6. CASE TiedAlong(R, a, c) /\ Len(a) < Len(c)
  <2>1. \A k \in 1..Len(a) : Tied(R, a[k], c[k]) /\ k \in 1..Len(c)
    BY <1>1, <1>6 DEF TiedAlong
  <2>2. CASE \E i \in 1..Len(a) : FirstAt(R, a, b, i)
    <3>1. PICK i \in 1..Len(a) : FirstAt(R, a, b, i)
      BY <2>2
    <3>2. i <= Len(c) /\ \A k \in 1..i : k \in 1..Len(a)
      BY <1>1, <1>6
    <3> QED
      BY <1>4, <2>1, <3>1, <3>2
  <2>3. CASE TiedAlong(R, a, b)
    <3>1. Len(b) <= Len(a)
      BY <1>1, <2>3 DEF Lex
    <3>2. ASSUME NEW k \in 1..Len(b) PROVE Tied(R, b[k], c[k])
      <4>1. k \in 1..Len(a) /\ k \in 1..Len(c) /\ k <= Len(b)
        BY <1>1, <1>6, <3>1
      <4>2. Tied(R, b[k], a[k]) /\ Tied(R, a[k], c[k])
        BY <2>1, <2>3, <4>1 DEF TiedAlong, Tied
      <4>3. a[k] \in T /\ b[k] \in T /\ c[k] \in T
        BY <1>2, <4>1
      <4> QED
        BY <4>2, <4>3, StrictWeakFacts
    <3>3. Len(b) < Len(c)
      BY <1>1, <1>6, <3>1
    <3> QED
      BY <3>2, <3>3 DEF Lex, TiedAlong
  <2> QED
    BY <2>2, <2>3, FirstOrNone
<1> QED
  BY <1>5, <1>6 DEF Lex

\* The order of numbers, and that of std::string.
LessNumbers == {p \in Nat \X Nat : p[1] < p[2]}

LEMMA NumbersOrdered ==
  /\ StrictWeak(LessNumbers, Nat)
  /\ \A x, y \in Nat : /\ <<x, y>> \in LessNumbers <=> x < y
                       /\ Tied(LessNumbers, x, y) <=> x = y
<1>1. \A x, y \in Nat : <<x, y>> \in LessNumbers <=> x < y
  BY DEF LessNumbers
<1> QED
  BY <1>1 DEF StrictWeak, Tied

LEMMA StringsAreLex ==
  ASSUME NEW t \in Seq(Nat), NEW u \in Seq(Nat)
  PROVE  LessString(t, u) <=> Lex(LessNumbers, t, u)
<1>1. Len(t) \in Nat /\ Len(u) \in Nat
  OBVIOUS
<1>2. \A k \in 1..Len(t) : k <= Len(u) =>
         /\ <<t[k], u[k]>> \in LessNumbers <=> t[k] < u[k]
         /\ Tied(LessNumbers, t[k], u[k]) <=> t[k] = u[k]
  <2> TAKE k \in 1..Len(t)
  <2> HAVE k <= Len(u)
  <2>1. t[k] \in Nat /\ u[k] \in Nat
    OBVIOUS
  <2> QED
    BY <2>1, NumbersOrdered
<1>3. ASSUME LessString(t, u) PROVE Lex(LessNumbers, t, u)
  <2>1. PICK i \in 1..Len(u) : /\ i - 1 <= Len(t)
                               /\ \A k \in 1..(i - 1) : t[k] = u[k]
                               /\ i > Len(t) \/ t[i] < u[i]
    BY <1>3 DEF LessString
  <2>2. \A k \in 1..(i - 1) : k \in 1..Len(t) /\ k <= Len(u)
    BY <1>1, <2>1
  <2>3. \A k \in 1..(i - 1) : Tied(LessNumbers, t[k], u[k])
    BY <1>2, <2>1, <2>2
  <2>4. CASE i > Len(t)
    <3>1. Len(t) < Len(u) /\ \A k \in 1..Len(t) : k \in 1..(i - 1)
      BY <1>1, <2>1, <2>4
    <3> QED
      BY <2>3, <3>1 DEF Lex, TiedAlong
  <2>5. CASE ~(i > Len(t))
    <3>1. i \in 1..Len(t) /\ i <= Len(u)
      BY <1>1, <2>5
    <3>2. t[i] < u[i] /\ t[i] \in Nat /\ u[i] \in Nat
      BY <2>1, <2>5, <3>1
    <3>3. <<t[i], u[i]>> \in LessNumbers /\ ~Tied(LessNumbers, t[i], u[i])
      BY <3>2, NumbersOrdered
    <3> QED
      BY <2>3, <3>1, <3>3 DEF Lex, FirstAt
  <2> QED
    BY <2>4, <2>5
<1>4. ASSUME Lex(LessNumbers, t, u) PROVE LessString(t, u)
  <2>1. CASE \E i \in 1..Len(t) : FirstAt(LessNumbers, t, u, i) /\ <<t[i], u[i]>> \in LessNumbers
    <3>1. PICK i \in 1..Len(t) :
                 FirstAt(LessNumbers, t, u, i) /\ <<t[i], u[i]>> \in LessNumbers
      BY <2>1
    <3>2. /\ i \in 1..Len(u) /\ i - 1 <= Len(t)
          /\ \A k \in 1..(i - 1) : k \in 1..Len(t) /\ k <= Len(u)
      BY <1>1, <3>1 DEF FirstAt
    <3>3. \A k \in 1..(i - 1) : t[k] = u[k]
      BY <1>2, <3>1, <3>2 DEF FirstAt
    <3>4. t[i] < u[i]
      <4>1. i <= Len(u)
        BY <3>2
      <4> QED
        BY <1>2, <3>1, <4>1
    <3> QED
      BY <3>2, <3>3, <3>4 DEF LessString
  <2>2. CASE TiedAlong(LessNumbers, t, u) /\ Len(t) < Len(u)
    <3> DEFINE i == Len(t) + 1
    <3>1. i \in 1..Len(u) /\ i - 1 <= Len(t) /\ i > Len(t) /\ i - 1 = Len(t)
      BY <1>1, <2>2
    <3>2. \A k \in 1..Len(t) : t[k] = u[k]
      <4>1. \A k \in 1..Len(t) : k <= Len(u)
        BY <1>1, <2>2
      <4>2. \A k \in 1..Len(t) : Tied(LessNumbers, t[k], u[k])
        BY <2>2, <4>1 DEF TiedAlong
      <4> QED
        BY <1>2, <4>1, <4>2
    <3> HIDE DEF i
    <3> QED
      BY <3>1, <3>2 DEF LessString
  <2> QED
    BY <1>4, <2>1, <2>2 DEF Lex
<1> QED
  BY <1>3, <1>4

LEMMA StringsOrdered ==
  ASSUME NEW t \in Seq(Nat), NEW u \in Seq(Nat), NEW x \in Seq(Nat)
  PROVE  /\ ~(LessString(t, u) /\ LessString(u, t))
         /\ LessString(t, x) => LessString(t, u) \/ LessString(u, x)
<1> DEFINE R == LessNumbers
<1>1. StrictWeak(R, Nat)
  BY NumbersOrdered
<1> HIDE DEF R
<1>2. ~(Lex(R, t, u) /\ Lex(R, u, t))
  BY <1>1, LexAsymmetric
<1>3. Lex(R, t, x) => Lex(R, t, u) \/ Lex(R, u, x)
  BY <1>1, LexNegative
<1> QED
  BY <1>2, <1>3, StringsAreLex DEF R

\* What a name is cut into: numbers are digits throughout.
Token == {t \in Seq(Nat) : IsNumber(t) => t \in Seq(Digits)}

\* What is not a number comes before all numbers or after all of them.
LEMMA NumbersTogether ==
  ASSUME NEW t \in Token, ~IsNumber(t)
  PROVE  \/ \A u \in Token : IsNumber(u) => LessString(t, u)
         \/ \A u \in Token : IsNumber(u) => LessString(u, t)
<1>1. \A u \in Token : u \in Seq(Nat)
  BY DEF Token
<1>2. \A u \in Token : IsNumber(u) => /\ Len(u) \in Nat /\ 1 \in 1..Len(u)
                                      /\ u[1] \in Nat /\ 48 <= u[1] /\ u[1] <= 57
  <2> TAKE u \in Token
  <2> HAVE IsNumber(u)
  <2>1. u \in Seq(Nat) /\ u # <<>> /\ u[1] \in 48..57
    BY <1>1 DEF IsNumber, Digits
  <2> QED
    BY <2>1
<1>3. CASE t = <<>>
  <2>1. ASSUME NEW u \in Token, IsNumber(u) PROVE LessString(t, u)
    <3>1. 1 \in 1..Len(u) /\ Len(t) = 0
      BY <1>2, <1>3, <2>1
    <3> QED
      BY <3>1 DEF LessString
  <2> QED
    BY <2>1
<1>4. CASE t # <<>>
  <2>1. t \in Seq(Nat)
    BY <1>1
  <2>2. Len(t) \in Nat /\ 1 \in 1..Len(t) /\ t[1] \in Nat
    BY <1>4, <2>1
  <2>3. t[1] < 48 \/ t[1] > 57
    BY <1>4, <2>2 DEF IsNumber, Digits
  <2>4. CASE t[1] < 48
    <3>1. ASSUME NEW u \in Token, IsNumber(u) PROVE LessString(t, u)
      <4>1. 1 \in 1..Len(u) /\ u[1] \in Nat /\ 48 <= u[1]
        BY <1>2, <3>1
      <4>2. t[1] < u[1] /\ 1 - 1 <= Len(t) /\ \A k \in 1..(1 - 1) : t[k] = u[k]
        BY <2>2, <2>4, <4>1
      <4> QED
        BY <4>1, <4>2 DEF LessString
    <3> QED
      BY <3>1
  <2>5. CASE t[1] > 57
    <3>1. ASSUME NEW u \in Token, IsNumber(u) PROVE LessString(u, t)
      <4>1. Len(u) \in Nat /\ u[1] \in Nat /\ u[1] <= 57
        BY <1>2, <3>1
      <4>2. u[1] < t[1] /\ 1 - 1 <= Len(u) /\ \A k \in 1..(1 - 1) : u[k] = t[k]
        BY <2>2, <2>5, <4>1
      <4> QED
        BY <2>2, <4>2 DEF LessString
    <3> QED
      BY <3>1
  <2> QED
    BY <2>3, <2>4, <2>5
<1> QED
  BY <1>3, <1>4

LessTokens == {p \in Token \X Token : LessToken(p[1], p[2])}

LEMMA TokensOrdered == StrictWeak(LessTokens, Token)
<1>1. \A t, u \in Token : <<t, u>> \in LessTokens <=> LessToken(t, u)
  BY DEF LessTokens
<1>2. ASSUME NEW t \in Token, NEW u \in Token, IsNumber(t), IsNumber(u)
      PROVE  (LessToken(t, u) <=> atoi(t) < atoi(u)) /\ atoi(t) \in Int /\ atoi(u) \in Int
  <2>1. /\ t \in Seq(Digits) /\ t # <<>> /\ u \in Seq(Digits) /\ u # <<>>
        /\ t \in Seq(Nat) /\ u \in Seq(Nat)
    BY <1>2 DEF Token, IsNumber
  <2>2. LessToken(t, u) <=> LessInt(fromString(t), fromString(u))
    BY <1>2 DEF LessToken
  <2>3. LessInt(fromString(t), fromString(u)) <=> atoi(t) < atoi(u)
    BY <2>1, NumbersByValue
  <2> QED
    BY <2>1, <2>2, <2>3, AtoiIsValue
<1>3. ASSUME NEW t \in Token, NEW u \in Token, ~IsNumber(t) \/ ~IsNumber(u)
      PROVE  LessToken(t, u) <=> LessString(t, u)
  BY <1>3 DEF LessToken
<1>4. ASSUME NEW t \in Token, NEW u \in Token, NEW x \in Token
      PROVE  /\ ~(LessString(t, u) /\ LessString(u, t))
             /\ LessString(t, x) => LessString(t, u) \/ LessString(u, x)
  <2>1. t \in Seq(Nat) /\ u \in Seq(Nat) /\ x \in Seq(Nat)
    BY DEF Token
  <2> QED
    BY <2>1, StringsOrdered
<1>5. ASSUME NEW t \in Token, NEW u \in Token
      PROVE  ~(LessToken(t, u) /\ LessToken(u, t))
  <2>1. CASE IsNumber(t) /\ IsNumber(u)
    BY <1>2, <2>1
  <2>2. CASE ~(IsNumber(t) /\ IsNumber(u))
    BY <1>3, <1>4, <2>2
  <2> QED
    BY <2>1, <2>2
<1>6. ASSUME NEW t \in Token, NEW u \in Token, NEW x \in Token, LessToken(t, x)
      PROVE  LessToken(t, u) \/ LessToken(u, x)
  <2>1. CASE IsNumber(t) /\ IsNumber(x) /\ IsNumber(u)
    BY <1>2, <1>6, <2>1
  <2>2. CASE IsNumber(t) /\ IsNumber(x) /\ ~IsNumber(u)
    <3>1. LessString(u, x) \/ LessString(t, u)
      BY <2>2, NumbersTogether
    <3> QED
      BY <1>3, <2>2, <3>1
  <2>3. CASE ~IsNumber(t) /\ IsNumber(x) /\ IsNumber(u)
    <3>1. LessString(t, x)
      BY <1>3, <1>6, <2>3
    <3>2. LessString(t, u)
      BY <1>4, <2>3, <3>1, NumbersTogether
    <3> QED
      BY <1>3, <2>3, <3>2
  <2>4. CASE IsNumber(t) /\ ~IsNumber(x) /\ IsNumber(u)
    <3>1. LessString(t, x)
      BY <1>3, <1>6, <2>4
    <3>2. LessString(u, x)
      BY <1>4, <2>4, <3>1, NumbersTogether
    <3> QED
      BY <1>3, <2>4, <3>2
  <2>5. CASE ~IsNumber(u) /\ ~(IsNumber(t) /\ IsNumber(x))
    <3>1. LessString(t, u) \/ LessString(u, x)
      BY <1>3, <1>4, <1>6, <2>5
    <3> QED
      BY <1>3, <2>5, <3>1
  <2>6. CASE ~IsNumber(t) /\ ~IsNumber(x)
    <3>1. LessString(t, u) \/ LessString(u, x)
      BY <1>3, <1>4, <1>6, <2>6
    <3> QED
      BY <1>3, <2>6, <3>1
  <2> QED
    BY <2>1, <2>2, <2>3, <2>4, <2>5, <2>6
<1> QED
  BY <1>1, <1>5, <1>6 DEF StrictWeak

\* What nameIndex makes of each beginning of a name: never nothing.
Indices == Seq(Seq(Nat)) \ {<<>>}

TokenStep(s, i, tokens) ==
  IF Continues(s, i) THEN [tokens EXCEPT ![Len(tokens)] = Append(@, s[i])]
                     ELSE Append(tokens, <<s[i]>>)

TokenSteps(s) == [i \in 1..Len(s) |-> [tokens \in Indices |-> TokenStep(s, i, tokens)]]

IndexTo(s) == CHOOSE f : Builds(f, Indices, <<<<>>>>, Len(s), TokenSteps(s))

\* The last token grows, or there is one more.
LEMMA OneMoreCharacter ==
  ASSUME NEW s \in Seq(Nat), NEW i \in 1..Len(s), NEW tokens \in Indices
  PROVE  /\ TokenStep(s, i, tokens) \in Indices
         /\ Len(tokens) \in Nat /\ Len(tokens) >= 1
         /\ Continues(s, i) =>
              /\ Len(TokenStep(s, i, tokens)) = Len(tokens)
              /\ \A j \in 1..Len(tokens) :
                   TokenStep(s, i, tokens)[j] =
                     IF j = Len(tokens) THEN Append(tokens[j], s[i]) ELSE tokens[j]
         /\ ~Continues(s, i) =>
              /\ Len(TokenStep(s, i, tokens)) = Len(tokens) + 1
              /\ \A j \in 1..Len(tokens) : TokenStep(s, i, tokens)[j] = tokens[j]
              /\ TokenStep(s, i, tokens)[Len(tokens) + 1] = <<s[i]>>
<1> DEFINE n == Len(tokens)
           S == Seq(Nat)
           r == TokenStep(s, i, tokens)
<1>1. tokens \in Seq(S) /\ n \in Nat /\ n >= 1 /\ n \in 1..n
  <2>1. tokens \in Seq(S) /\ tokens # <<>>
    BY DEF Indices
  <2> QED
    BY <2>1
<1>2. s[i] \in Nat
  OBVIOUS
<1>3. tokens[n] \in Seq(Nat)
  <2> HIDE DEF n, S
  <2>1. tokens[n] \in S
    BY <1>1, ElementOfSeq DEF n
  <2> QED
    BY <2>1 DEF S
<1> DEFINE e == Append(tokens[n], s[i])
           one == <<s[i]>>
<1>4. e \in S /\ one \in S
  BY <1>2, <1>3
<1>5. CASE Continues(s, i)
  <2>1. r = [tokens EXCEPT ![n] = e]
    BY <1>5 DEF TokenStep
  <2> HIDE DEF r, e, S
  <2>2. /\ r \in Seq(S) /\ Len(r) = n
        /\ \A j \in 1..n : r[j] = IF j = n THEN e ELSE tokens[j]
    BY <1>1, <1>4, <2>1, ExceptSeq
  <2>3. r # <<>>
    BY <1>1, <2>2
  <2> QED
    BY <1>1, <1>5, <2>2, <2>3 DEF r, e, S, Indices
<1>6. CASE ~Continues(s, i)
  <2>1. r = Append(tokens, one)
    BY <1>6 DEF TokenStep
  <2> HIDE DEF r, one, S
  <2>2. /\ r \in Seq(S) /\ Len(r) = n + 1
        /\ \A j \in 1..n : r[j] = tokens[j]
        /\ r[n + 1] = one
    BY <1>1, <1>4, <2>1
  <2>3. r # <<>>
    BY <1>1, <2>2
  <2> QED
    BY <1>1, <1>6, <2>2, <2>3 DEF r, one, S, Indices
<1> QED
  BY <1>5, <1>6

LEMMA Indexing ==
  ASSUME NEW s \in Seq(Nat)
  PROVE  /\ Builds(IndexTo(s), Indices, <<<<>>>>, Len(s), TokenSteps(s))
         /\ IndexTo(s) \in [0..Len(s) -> Indices]
         /\ IndexTo(s)[0] = <<<<>>>>
         /\ \A i \in 1..Len(s) : IndexTo(s)[i] = TokenStep(s, i, IndexTo(s)[i - 1])
<1> DEFINE n == Len(s)
           T == Indices
           h == TokenSteps(s)
           none == <<<<>>>>
           f == IndexTo(s)
<1>1. n \in Nat
  OBVIOUS
<1>2. h \in [1..n -> [T -> T]]
  <2>1. \A i \in 1..n : \A tokens \in T : TokenStep(s, i, tokens) \in T
    BY OneMoreCharacter
  <2> QED
    BY <2>1 DEF TokenSteps
<1>3. none \in T
  BY DEF Indices
<1>4. Builds(f, T, none, n, h)
  <2>1. \E g : Builds(g, T, none, n, h)
    <3> HIDE DEF T, h, none, n
    <3> QED
      BY <1>1, <1>2, <1>3, Building
  <2> QED
    BY <2>1 DEF IndexTo
<1>5. f \in [0..n -> T] /\ f[0] = none /\ \A i \in 1..n : f[i] = h[i][f[i - 1]]
  BY <1>4 DEF Builds
<1>6. ASSUME NEW i \in 1..n PROVE f[i] = TokenStep(s, i, f[i - 1])
  <2>1. i - 1 \in 0..n
    BY <1>1
  <2> HIDE DEF f
  <2>2. f[i - 1] \in T
    BY <1>5, <2>1
  <2>3. h[i][f[i - 1]] = TokenStep(s, i, f[i - 1])
    BY <2>2 DEF TokenSteps
  <2> QED
    BY <1>5, <2>3
<1> QED
  BY <1>4, <1>5, <1>6

\* The recursion of nameIndex is the only one.
LEMMA NameIndexIsBuilt ==
  ASSUME NEW s \in Seq(Nat), s # <<>>
  PROVE  nameIndex(s) = IndexTo(s)[Len(s)]
<1> DEFINE n == Len(s)
           f == IndexTo(s)
           none == <<<<>>>>
           step(g) == [i \in 0..n |-> IF i = 0 THEN none ELSE TokenStep(s, i, g[i - 1])]
           index == CHOOSE g : g = step(g)
<1>1. nameIndex(s) = index[n]
  BY DEF nameIndex, TokenStep
<1>2. n \in Nat /\ f \in [0..n -> Indices] /\ f[0] = none
  BY Indexing
<1>3. index = step(index)
  <2>1. \A i \in 0..n : f[i] = IF i = 0 THEN none ELSE TokenStep(s, i, f[i - 1])
    <3>1. \A i \in 1..n : f[i] = TokenStep(s, i, f[i - 1])
      BY Indexing
    <3> HIDE DEF f
    <3>2. \A i \in 0..n : i # 0 => i \in 1..n
      BY <1>2
    <3> QED
      BY <1>2, <3>1, <3>2
  <2>2. f = [i \in 0..n |-> f[i]]
    <3> HIDE DEF f
    <3> QED
      BY <1>2
  <2> HIDE DEF f
  <2>3. f = step(f)
    BY <2>1, <2>2
  <2> HIDE DEF step
  <2> QED
    BY <2>3
<1> HIDE DEF index
<1>4. ASSUME NEW i \in 1..n, index[i - 1] \in Indices
      PROVE  index[i] = TokenSteps(s)[i][index[i - 1]]
  <2>1. i \in 0..n /\ i # 0
    BY <1>2
  <2>2. index[i] = TokenStep(s, i, index[i - 1])
    BY <1>3, <2>1
  <2> QED
    BY <1>4, <2>2 DEF TokenSteps
<1>5. index[0] = none
  BY <1>2, <1>3
<1>6. Same(f, index, n)
  <2> DEFINE T == Indices
             h == TokenSteps(s)
  <2>1. n \in Nat /\ Builds(f, T, none, n, h) /\ Follows(index, T, none, n, h)
    BY <1>2, <1>4, <1>5, Indexing DEF Follows
  <2> HIDE DEF n, T, none, h, f
  <2> QED
    BY <2>1, BuildingIsUnique
<1> QED
  BY <1>1, <1>2, <1>6 DEF Same

\* The tokens after i characters; the last one is a number as long as it may grow.
TokensAt(s, i, tokens) ==
  /\ tokens \in Indices
  /\ \A j \in 1..Len(tokens) : tokens[j] \in Token
  /\ i = 0 => tokens[Len(tokens)] = <<>>
  /\ i # 0 /\ s[i] \in Digits => IsNumber(tokens[Len(tokens)])

LEMMA CharacterIsToken ==
  ASSUME NEW c \in Nat
  PROVE  <<c>> \in Token /\ (c \in Digits => IsNumber(<<c>>))
BY DEF Token, IsNumber

LEMMA NumberGrows ==
  ASSUME NEW t \in Token, t = <<>> \/ IsNumber(t), NEW c \in Nat, c \in Digits
  PROVE  Append(t, c) \in Token /\ IsNumber(Append(t, c))
<1>1. t \in Seq(Digits) /\ t \in Seq(Nat)
  BY DEF Token
<1>2. Append(t, c) \in Seq(Digits) /\ Append(t, c) \in Seq(Nat) /\ Append(t, c) # <<>>
  BY <1>1
<1>3. Append(t, c)[1] \in Digits
  <2> DEFINE u == Append(t, c)
  <2>1. u \in Seq(Digits) /\ u # <<>>
    BY <1>2
  <2> HIDE DEF u
  <2>2. u[1] \in Digits
    BY <2>1
  <2> QED
    BY <2>2 DEF u
<1> QED
  BY <1>2, <1>3 DEF Token, IsNumber

LEMMA TokensGrow ==
  ASSUME NEW s \in Seq(Nat), NEW i \in 1..Len(s), NEW tokens, TokensAt(s, i - 1, tokens)
  PROVE  TokensAt(s, i, TokenStep(s, i, tokens))
<1> DEFINE n == Len(tokens)
           r == TokenStep(s, i, tokens)
<1>1. tokens \in Indices /\ s[i] \in Nat /\ i \in Nat /\ i # 0
  BY DEF TokensAt
<1>2. r \in Indices /\ n \in Nat /\ n >= 1
  BY <1>1, OneMoreCharacter
<1>3. CASE Continues(s, i)
  <2>1. /\ Len(r) = n
        /\ \A j \in 1..n : r[j] = IF j = n THEN Append(tokens[j], s[i]) ELSE tokens[j]
    BY <1>1, <1>3, OneMoreCharacter
  <2>2. s[i] \in Digits /\ (i = 1 \/ s[i - 1] \in Digits)
    BY <1>3 DEF Continues
  <2>3. tokens[n] \in Token /\ (tokens[n] = <<>> \/ IsNumber(tokens[n]))
    <3>1. n \in 1..n
      BY <1>2
    <3>2. i - 1 = 0 \/ (i - 1 # 0 /\ s[i - 1] \in Digits)
      BY <1>1, <2>2
    <3> HIDE DEF n
    <3> QED
      BY <3>1, <3>2 DEF TokensAt, n
  <2>4. Append(tokens[n], s[i]) \in Token /\ IsNumber(Append(tokens[n], s[i]))
    BY <1>1, <2>2, <2>3, NumberGrows
  <2>5. r[n] = Append(tokens[n], s[i])
    <3>1. n \in 1..n
      BY <1>2
    <3> HIDE DEF r, n
    <3> QED
      BY <2>1, <3>1
  <2>6. \A j \in 1..n : r[j] \in Token
    BY <2>1, <2>4 DEF TokensAt
  <2> HIDE DEF r, n
  <2>7. (\A j \in 1..Len(r) : r[j] \in Token) /\ IsNumber(r[Len(r)])
    BY <2>1, <2>4, <2>5, <2>6
  <2>8. TokensAt(s, i, r)
    BY <1>1, <1>2, <2>7 DEF TokensAt
  <2> QED
    BY <2>8 DEF r
<1>4. CASE ~Continues(s, i)
  <2>1. Len(r) = n + 1 /\ (\A j \in 1..n : r[j] = tokens[j]) /\ r[n + 1] = <<s[i]>>
    BY <1>1, <1>4, OneMoreCharacter
  <2>2. <<s[i]>> \in Token /\ (s[i] \in Digits => IsNumber(<<s[i]>>))
    BY <1>1, CharacterIsToken
  <2>3. \A j \in 1..(n + 1) : r[j] \in Token
    <3> TAKE j \in 1..(n + 1)
    <3>1. CASE j = n + 1
      BY <2>1, <2>2, <3>1
    <3>2. CASE j \in 1..n
      BY <2>1, <3>2 DEF TokensAt
    <3> QED
      BY <1>2, <3>1, <3>2
  <2> HIDE DEF r, n
  <2>4. (\A j \in 1..Len(r) : r[j] \in Token) /\ (s[i] \in Digits => IsNumber(r[Len(r)]))
    BY <2>1, <2>2, <2>3
  <2>5. TokensAt(s, i, r)
    BY <1>1, <1>2, <2>4 DEF TokensAt
  <2> QED
    BY <2>5 DEF r
<1> QED
  BY <1>3, <1>4

LEMMA NamesAreTokens ==
  ASSUME NEW s \in Seq(Nat)
  PROVE  nameIndex(s) \in Seq(Token)
<1>1. CASE s = <<>>
  BY <1>1 DEF nameIndex
<1>2. CASE s # <<>>
  <2> DEFINE n == Len(s)
             f == IndexTo(s)
             Q == {i \in Nat : i <= n => TokensAt(s, i, f[i])}
  <2>1. /\ n \in Nat /\ f[0] = <<<<>>>>
        /\ \A i \in 1..n : f[i] = TokenStep(s, i, f[i - 1])
    BY Indexing
  <2> HIDE DEF f
  <2>2. 0 \in Q
    <3>1. <<>> \in Token
      BY DEF Token, IsNumber
    <3> DEFINE one == <<<<>>>>
    <3>2. one \in Indices /\ Len(one) = 1 /\ one[1] = <<>>
      BY DEF Indices
    <3> HIDE DEF one
    <3>3. TokensAt(s, 0, one)
      BY <3>1, <3>2 DEF TokensAt
    <3> QED
      BY <2>1, <3>3 DEF one
  <2>3. ASSUME NEW i \in Nat, i \in Q PROVE i + 1 \in Q
    <3> SUFFICES ASSUME i + 1 <= n PROVE TokensAt(s, i + 1, f[i + 1])
      OBVIOUS
    <3>1. i + 1 \in 1..n /\ (i + 1) - 1 = i
      BY <2>1
    <3>2. TokensAt(s, (i + 1) - 1, f[i]) /\ f[i + 1] = TokenStep(s, i + 1, f[i])
      BY <2>1, <2>3, <3>1
    <3> DEFINE k == i + 1
    <3>3. k \in 1..Len(s) /\ TokensAt(s, k - 1, f[i]) /\ f[k] = TokenStep(s, k, f[i])
      BY <3>1, <3>2
    <3> HIDE DEF k
    <3>4. TokensAt(s, k, f[k])
      BY <3>3, TokensGrow
    <3> QED
      BY <3>4 DEF k
  <2>4. Nat \subseteq Q
    <3> HIDE DEF Q
    <3> QED
      BY <2>2, <2>3, Induction
  <2>5. TokensAt(s, n, f[n])
    BY <2>1, <2>4
  <2>6. nameIndex(s) = f[n]
    BY <1>2, NameIndexIsBuilt DEF f
  <2> DEFINE r == f[n]
  <2>7. r \in Seq(Seq(Nat)) /\ \A j \in 1..Len(r) : r[j] \in Token
    BY <2>5 DEF TokensAt, Indices
  <2> HIDE DEF r
  <2>8. r \in Seq(Token)
    <3> DEFINE m == Len(r)
    <3>1. r = [j \in 1..m |-> r[j]] /\ m \in Nat /\ \A j \in 1..m : r[j] \in Token
      BY <2>7
    <3> HIDE DEF m
    <3> QED
      BY <3>1
  <2> QED
    BY <2>6, <2>8 DEF r
<1> QED
  BY <1>1, <1>2

LEMMA NamesAreLex ==
  ASSUME NEW s1 \in Seq(Nat), NEW s2 \in Seq(Nat)
  PROVE  Less(s1, s2) <=> Lex(LessTokens, nameIndex(s1), nameIndex(s2))
<1> DEFINE a == nameIndex(s1)
           b == nameIndex(s2)
           both == DOMAIN a \cap DOMAIN b
           parts == {i \in both : Differ(a[i], b[i])}
<1>1. Less(s1, s2) <=> \/ \E i \in parts : LessToken(a[i], b[i]) /\ \A k \in parts : i <= k
                       \/ parts = {} /\ Len(a) < Len(b)
  BY DEF Less
<1>2. a \in Seq(Token) /\ b \in Seq(Token)
  BY NamesAreTokens
<1> HIDE DEF a, b
<1>3. /\ Len(a) \in Nat /\ Len(b) \in Nat
      /\ DOMAIN a = 1..Len(a) /\ DOMAIN b = 1..Len(b)
  BY <1>2
<1>4. \A i \in 1..Len(a) : i <= Len(b) =>
         /\ i \in both
         /\ <<a[i], b[i]>> \in LessTokens <=> LessToken(a[i], b[i])
         /\ Tied(LessTokens, a[i], b[i]) <=> i \notin parts
  <2> TAKE i \in 1..Len(a)
  <2> HAVE i <= Len(b)
  <2>1. i \in 1..Len(b) /\ i \in both
    BY <1>3
  <2>2. a[i] \in Token /\ b[i] \in Token
    BY <1>2, <2>1
  <2>3. /\ <<a[i], b[i]>> \in LessTokens <=> LessToken(a[i], b[i])
        /\ <<b[i], a[i]>> \in LessTokens <=> LessToken(b[i], a[i])
    BY <2>2 DEF LessTokens
  <2> QED
    BY <2>1, <2>3 DEF Tied, Differ
<1>5. \A i \in parts : i \in 1..Len(a) /\ i \in 1..Len(b) /\ i <= Len(b) /\ i \in Nat
  BY <1>3
<1> HIDE DEF parts, both
<1>6. TiedAlong(LessTokens, a, b) <=> parts = {}
  BY <1>4, <1>5 DEF TiedAlong
<1>7. ASSUME NEW i \in 1..Len(a)
      PROVE  FirstAt(LessTokens, a, b, i) <=> i \in parts /\ \A k \in parts : i <= k
  <2>1. ASSUME FirstAt(LessTokens, a, b, i) PROVE i \in parts /\ \A k \in parts : i <= k
    <3>1. i \in 1..Len(b) /\ i <= Len(b) /\ i \in Nat
      BY <1>3, <2>1 DEF FirstAt
    <3>2. i \in parts
      BY <1>4, <2>1, <3>1 DEF FirstAt
    <3>3. ASSUME NEW k \in parts, ~(i <= k) PROVE FALSE
      <4>1. k \in 1..(i - 1) /\ k \in 1..Len(a) /\ k <= Len(b)
        BY <1>3, <1>5, <3>1, <3>3
      <4> QED
        BY <1>4, <2>1, <3>3, <4>1 DEF FirstAt
    <3> QED
      BY <3>2, <3>3
  <2>2. ASSUME i \in parts, \A k \in parts : i <= k PROVE FirstAt(LessTokens, a, b, i)
    <3>1. i \in 1..Len(b) /\ i <= Len(b) /\ ~Tied(LessTokens, a[i], b[i])
      BY <1>4, <1>5, <2>2
    <3>2. ASSUME NEW k \in 1..(i - 1) PROVE Tied(LessTokens, a[k], b[k])
      <4>1. k \in 1..Len(a) /\ k <= Len(b) /\ ~(i <= k)
        BY <1>3, <3>1
      <4> QED
        BY <1>4, <2>2, <4>1
    <3> QED
      BY <3>1, <3>2 DEF FirstAt
  <2> QED
    BY <2>1, <2>2
<1>8. Less(s1, s2) <=> Lex(LessTokens, a, b)
  <2>1. (\E i \in 1..Len(a) : FirstAt(LessTokens, a, b, i) /\ <<a[i], b[i]>> \in LessTokens)
          <=> \E i \in parts : LessToken(a[i], b[i]) /\ \A k \in parts : i <= k
    BY <1>4, <1>5, <1>7
  <2> QED
    BY <1>1, <1>6, <2>1 DEF Lex, parts, both
<1> QED
  BY <1>8 DEF a, b

\* NameCompare is the strict weak order that std::sort and std::map need: no two
\* names come before one another, what comes before something comes before
\* whatever is one key with that, and what is one key with something that is one
\* key with a third is one key with the third.  For names of any characters and
\* any length, though numbers, other characters and the lack of a token are
\* compared in three ways.
THEOREM StrictWeakOrder ==
  ASSUME NEW r \in Seq(Nat), NEW s \in Seq(Nat), NEW t \in Seq(Nat)
  PROVE  /\ ~Less(r, r)
         /\ Less(r, s) /\ Less(s, t) => Less(r, t)
         /\ Equivalent(r, s) /\ Equivalent(s, t) => Equivalent(r, t)
<1> DEFINE R == LessTokens
           L(x, y) == Lex(R, nameIndex(x), nameIndex(y))
<1>1. StrictWeak(R, Token)
  BY TokensOrdered
<1>2. nameIndex(r) \in Seq(Token) /\ nameIndex(s) \in Seq(Token) /\ nameIndex(t) \in Seq(Token)
  BY NamesAreTokens
<1> HIDE DEF R
<1>3. ~L(r, r) /\ ~(L(s, t) /\ L(t, s))
  BY <1>1, <1>2, LexAsymmetric
<1>4. /\ L(r, s) => L(r, t) \/ L(t, s)
      /\ L(r, t) => L(r, s) \/ L(s, t)
      /\ L(t, r) => L(t, s) \/ L(s, r)
  BY <1>1, <1>2, LexNegative
<1>5. \A x, y \in {r, s, t} : Less(x, y) <=> L(x, y)
  BY NamesAreLex DEF R
<1> HIDE DEF L
<1> QED
  BY <1>3, <1>4, <1>5 DEF Equivalent

----------------------------------------------------------------------------
(* The keys of a map in their order.                                       *)

LinearOrder(R, T) ==
  /\ \A x, y \in T : ~(<<x, y>> \in R /\ <<y, x>> \in R)
  /\ \A x, y, z \in T : <<x, y>> \in R /\ <<y, z>> \in R => <<x, z>> \in R
  /\ \A x, y \in T : x # y => <<x, y>> \in R \/ <<y, x>> \in R

Lower(S, R, x) == {y \in S : <<y, x>> \in R}

\* The elements of a finite set can be numbered in any linear order; the last is
\* the greatest.
LEMMA Numbered ==
  ASSUME NEW T, NEW R, LinearOrder(R, T)
  PROVE  \A n \in Nat : \A S \in SUBSET T :
           IsFiniteSet(S) /\ Cardinality(S) = n
           => /\ n # 0 => \E x \in S : \A y \in S : y = x \/ <<y, x>> \in R
              /\ \A k \in 1..n : \E x \in S : Cardinality(Lower(S, R, x)) = k - 1
<1> DEFINE Greatest(S) == \E x \in S : \A y \in S : y = x \/ <<y, x>> \in R
           Ranked(S, n) == \A k \in 1..n : \E x \in S : Cardinality(Lower(S, R, x)) = k - 1
           Q == {n \in Nat : \A S \in SUBSET T :
                   IsFiniteSet(S) /\ Cardinality(S) = n => (n # 0 => Greatest(S)) /\ Ranked(S, n)}
<1>1. 0 \in Q
  OBVIOUS
<1>2. ASSUME NEW n \in Nat, n \in Q PROVE n + 1 \in Q
  <2> SUFFICES ASSUME NEW S \in SUBSET T, IsFiniteSet(S), Cardinality(S) = n + 1
               PROVE  Greatest(S) /\ Ranked(S, n + 1)
    OBVIOUS
  <2>1. PICK z : z \in S
    <3>1. S # {}
      BY FS_EmptySet
    <3> QED
      BY <3>1
  <2> DEFINE B == S \ {z}
  <2>2. B \in SUBSET T /\ IsFiniteSet(B) /\ Cardinality(B) = n
    BY <2>1, FS_RemoveElement
  <2>3. Greatest(S)
    <3>1. CASE n = 0
      <4>1. B = {}
        BY <2>2, <3>1, FS_EmptySet
      <4> QED
        BY <2>1, <4>1
    <3>2. CASE n # 0
      <4>1. PICK x \in B : \A y \in B : y = x \/ <<y, x>> \in R
        BY <1>2, <2>2, <3>2
      <4>2. x \in S /\ x \in T /\ z \in T /\ x # z /\ S = B \union {z}
        BY <2>1, <2>2
      <4>3. \A y \in B : y \in T
        BY <2>2
      <4> HIDE DEF B
      <4>4. CASE <<z, x>> \in R
        BY <4>1, <4>2, <4>4
      <4>5. CASE <<x, z>> \in R
        <5>1. \A y \in B : <<y, z>> \in R
          BY <4>1, <4>2, <4>3, <4>5 DEF LinearOrder
        <5> QED
          BY <2>1, <4>2, <5>1
      <4> QED
        BY <4>2, <4>4, <4>5 DEF LinearOrder
    <3> QED
      BY <3>1, <3>2
  <2>4. PICK top \in S : \A y \in S : y = top \/ <<y, top>> \in R
    BY <2>3
  <2> DEFINE C == S \ {top}
  <2>5. C \in SUBSET T /\ IsFiniteSet(C) /\ Cardinality(C) = n
    BY <2>4, FS_RemoveElement
  <2>6. Ranked(C, n)
    BY <1>2, <2>5
  <2>7. \A y \in S : y \in T
    OBVIOUS
  <2>8. ASSUME NEW k \in 1..(n + 1)
        PROVE  \E x \in S : Cardinality(Lower(S, R, x)) = k - 1
    <3>1. CASE k = n + 1
      <4>1. Lower(S, R, top) = C
        BY <2>4, <2>7 DEF LinearOrder, Lower
      <4>2. Cardinality(Lower(S, R, top)) = k - 1
        BY <2>5, <3>1, <4>1
      <4> QED
        BY <4>2
    <3>2. CASE k \in 1..n
      <4>1. PICK x \in C : Cardinality(Lower(C, R, x)) = k - 1
        BY <2>6, <3>2
      <4>2. Lower(S, R, x) = Lower(C, R, x)
        <5>1. <<top, x>> \notin R
          BY <2>4, <2>7 DEF LinearOrder
        <5> QED
          BY <5>1 DEF Lower
      <4> QED
        BY <4>1, <4>2
    <3> QED
      BY <3>1, <3>2
  <2> QED
    BY <2>3, <2>8
<1>3. Nat \subseteq Q
  <2> HIDE DEF Q
  <2> QED
    BY <1>1, <1>2, Induction
<1> QED
  BY <1>3

\* A map that std::map can hold.
MapOf(D, V, map) ==
  /\ IsFiniteSet(DOMAIN map) /\ DOMAIN map \subseteq D
  /\ \A k \in DOMAIN map : map[k] \in V
  /\ \A k, l \in DOMAIN map : k # l => ~Equivalent(k, l)

LEMMA KeysAreKeys ==
  ASSUME NEW V, NEW map, MapOf(Seq(Nat), V, map)
  PROVE  /\ Keys(map) \in Seq(Seq(Nat))
         /\ Len(Keys(map)) = Cardinality(DOMAIN map) /\ Len(Keys(map)) \in Nat
         /\ \A i \in 1..Len(Keys(map)) : Keys(map)[i] \in DOMAIN map
         /\ \A i, j \in 1..Len(Keys(map)) : Keys(map)[i] = Keys(map)[j] => i = j
<1> DEFINE D == DOMAIN map
           n == Cardinality(D)
           R == {p \in D \X D : Less(p[1], p[2])}
           keys == Keys(map)
<1>1. D \subseteq Seq(Nat) /\ IsFiniteSet(D) /\ \A k, l \in D : k # l => ~Equivalent(k, l)
  BY DEF MapOf
<1>2. n \in Nat
  BY <1>1, FS_CardinalityType
<1> HIDE DEF n, D
<1>3. \A x, y \in D : <<x, y>> \in R <=> Less(x, y)
  OBVIOUS
<1>4. LinearOrder(R, D)
  <2>1. \A x, y, z \in D : /\ ~Less(x, x)
                           /\ Less(x, y) /\ Less(y, z) => Less(x, z)
    BY <1>1, StrictWeakOrder
  <2>2. \A x, y \in D : x # y => Less(x, y) \/ Less(y, x)
    BY <1>1 DEF Equivalent
  <2> HIDE DEF R
  <2> QED
    BY <1>3, <2>1, <2>2 DEF LinearOrder
<1>5. ASSUME NEW k \in 1..n
      PROVE  \E x \in D : Cardinality({m \in D : Less(m, x)}) = k - 1
  <2>1. PICK x \in D : Cardinality(Lower(D, R, x)) = k - 1
    <3> HIDE DEF R
    <3> QED
      BY <1>1, <1>2, <1>4, Numbered DEF n
  <2>2. Lower(D, R, x) = {m \in D : Less(m, x)}
    <3> HIDE DEF R
    <3> QED
      BY <1>3 DEF Lower
  <2> QED
    BY <2>1, <2>2
<1>6. keys = [k \in 1..n |-> CHOOSE x \in D : Cardinality({m \in D : Less(m, x)}) = k - 1]
  BY Zenon DEF Keys, n, D
<1>7. ASSUME NEW k \in 1..n
      PROVE  keys[k] \in D /\ Cardinality({m \in D : Less(m, keys[k])}) = k - 1
  <2>1. keys[k] = CHOOSE x \in D : Cardinality({m \in D : Less(m, x)}) = k - 1
    BY <1>6
  <2> QED
    BY <1>5, <2>1
<1>8. keys \in [1..n -> Seq(Nat)]
  <2> DEFINE pick(k) == CHOOSE x \in D : Cardinality({m \in D : Less(m, x)}) = k - 1
  <2> HIDE DEF pick
  <2>1. keys = [k \in 1..n |-> pick(k)]
    BY <1>6 DEF pick
  <2> HIDE DEF keys
  <2>2. \A k \in 1..n : pick(k) \in Seq(Nat)
    BY <1>1, <1>7, <2>1
  <2> QED
    BY <2>1, <2>2
<1>9. keys \in Seq(Seq(Nat)) /\ Len(keys) = n
  <2> HIDE DEF keys
  <2> QED
    BY <1>2, <1>8, Listed
<1>10. ASSUME NEW i \in 1..n, NEW j \in 1..n, keys[i] = keys[j] PROVE i = j
  <2> DEFINE rank(k) == Cardinality({m \in D : Less(m, keys[k])})
  <2>1. rank(i) = i - 1 /\ rank(j) = j - 1 /\ rank(i) = rank(j)
    BY <1>7, <1>10
  <2> HIDE DEF rank
  <2> QED
    BY <1>2, <2>1
<1> QED
  BY <1>2, <1>7, <1>9, <1>10 DEF D, n

Maps(V) ==
  {map \in UNION {[D -> V] : D \in SUBSET Seq(Nat)} : MapOf(Seq(Nat), V, map)}

LEMMA AssignKeepsMap ==
  ASSUME NEW V, NEW map, MapOf(Seq(Nat), V, map), NEW n \in Seq(Nat), NEW c \in V
  PROVE  /\ MapOf(Seq(Nat), V, Assign(map, n, c))
         /\ Assign(map, n, c) \in Maps(V)
<1> DEFINE same == {k \in DOMAIN map : Equivalent(k, n)}
           key == IF same = {} THEN n ELSE CHOOSE k \in same : TRUE
           new == Assign(map, n, c)
           D == DOMAIN map \cup {key}
<1>1. /\ IsFiniteSet(DOMAIN map) /\ DOMAIN map \subseteq Seq(Nat)
      /\ \A k \in DOMAIN map : map[k] \in V
      /\ \A k, l \in DOMAIN map : k # l => ~Equivalent(k, l)
  BY DEF MapOf
<1>2. key \in Seq(Nat)
  BY <1>1
<1>3. new = [k \in D |-> IF k = key THEN c ELSE map[k]]
  BY DEF Assign, Put
<1>4. \A k, l \in DOMAIN new : k # l => ~Equivalent(k, l)
  BY <1>1, AssignKeepsApart
<1> HIDE DEF key, new
<1>5. IsFiniteSet(D) /\ D \in SUBSET Seq(Nat)
  BY <1>1, <1>2, FS_AddElement
<1>6. new \in [D -> V] /\ DOMAIN new = D
  BY <1>1, <1>3
<1>7. \A k \in DOMAIN new : new[k] \in V
  BY <1>6
<1>8. MapOf(Seq(Nat), V, new)
  BY <1>4, <1>5, <1>6, <1>7 DEF MapOf
<1>9. new \in UNION {[E -> V] : E \in SUBSET Seq(Nat)}
  BY <1>5, <1>6
<1> QED
  BY <1>8, <1>9 DEF Maps, new

LEMMA EmptyMap ==
  ASSUME NEW V
  PROVE  MapOf(Seq(Nat), V, NoMap) /\ NoMap \in Maps(V)
<1>1. DOMAIN NoMap = {} /\ NoMap \in [{} -> V]
  BY DEF NoMap
<1> HIDE DEF NoMap
<1>2. MapOf(Seq(Nat), V, NoMap)
  BY <1>1, FS_EmptySet DEF MapOf
<1>3. NoMap \in UNION {[D -> V] : D \in SUBSET Seq(Nat)}
  BY <1>1
<1> QED
  BY <1>2, <1>3 DEF Maps

----------------------------------------------------------------------------
(* What an iteration yields.                                               *)

Record == [file : File, recursive : BOOLEAN]

LEMMA NestedFilesAreFiles == NestedFiles \in Seq(File)
<1> DEFINE part(i) == IF Nested(WalkOrder[i]) THEN <<WalkOrder[i]>> ELSE <<>>
           parts == [i \in 1..Len(WalkOrder) |-> part(i)]
<1>1. WalkOrder \in Seq(File)
  BY MultiCorpusAssumption
<1>2. Len(WalkOrder) \in Nat /\ \A i \in 1..Len(WalkOrder) : WalkOrder[i] \in File
  BY <1>1
<1>3. \A i \in 1..Len(WalkOrder) : part(i) \in Seq(File)
  BY <1>2
<1> HIDE DEF part
<1>4. parts \in [1..Len(WalkOrder) -> Seq(File)]
  BY <1>3
<1> HIDE DEF parts
<1>5. parts \in Seq(Seq(File))
  BY <1>2, <1>4, Listed
<1>6. FlattenSeq(parts) \in Seq(File)
  BY <1>5, FlatFromParts
<1> QED
  BY <1>6 DEF NestedFiles, parts, part

NestStep(files, i, map) == Assign(map, Stem[files[i]], Corpus(files[i], FALSE))

NestSteps(files) ==
  [i \in 1..Len(files) |-> [map \in Maps(Record) |-> NestStep(files, i, map)]]

LEMMA NestStepKeepsMap ==
  ASSUME NEW files \in Seq(File), NEW i \in 1..Len(files), NEW map \in Maps(Record)
  PROVE  NestStep(files, i, map) \in Maps(Record)
<1>1. MapOf(Seq(Nat), Record, map) /\ files[i] \in File
  BY DEF Maps
<1>2. Stem[files[i]] \in Seq(Nat) /\ Corpus(files[i], FALSE) \in Record
  BY <1>1, MultiCorpusAssumption DEF Corpus, Record
<1> QED
  BY <1>1, <1>2, AssignKeepsMap DEF NestStep

\* How the map of a nested reader comes about.
LEMMA Nesting ==
  \E f : /\ f \in [0..Len(NestedFiles) -> Maps(Record)]
         /\ f[0] = NoMap
         /\ \A i \in 1..Len(NestedFiles) : f[i] = NestStep(NestedFiles, i, f[i - 1])
         /\ NestedMap = f[Len(NestedFiles)]
<1> DEFINE files == NestedFiles
           n == Len(files)
           T == Maps(Record)
           h == NestSteps(files)
           step(g) == [i \in 0..n |-> IF i = 0 THEN NoMap ELSE NestStep(files, i, g[i - 1])]
           map == CHOOSE g : g = step(g)
<1>1. NestedMap = map[n]
  BY DEF NestedMap, NestStep
<1>2. files \in Seq(File) /\ n \in Nat
  BY NestedFilesAreFiles
<1> HIDE DEF files
<1>3. \A i \in 1..n : \A m \in T : NestStep(files, i, m) \in T
  BY <1>2, NestStepKeepsMap
<1>4. h \in [1..n -> [T -> T]]
  BY <1>3 DEF NestSteps
<1>5. NoMap \in T
  BY EmptyMap
<1>6. PICK f : Builds(f, T, NoMap, n, h)
  <2> HIDE DEF T, h, n
  <2> QED
    BY <1>2, <1>4, <1>5, Building DEF n
<1>7. /\ f \in [0..n -> T] /\ f[0] = NoMap
      /\ \A i \in 1..n : f[i] = h[i][f[i - 1]]
  BY <1>6 DEF Builds
<1>8. ASSUME NEW i \in 1..n PROVE f[i] = NestStep(files, i, f[i - 1])
  <2>1. i - 1 \in 0..n
    BY <1>2
  <2>2. f[i - 1] \in T
    BY <1>7, <2>1
  <2> QED
    BY <1>7, <2>2 DEF NestSteps
<1> HIDE DEF T, h
<1>9. map = step(map)
  <2>1. \A i \in 0..n : f[i] = IF i = 0 THEN NoMap ELSE NestStep(files, i, f[i - 1])
    <3>1. \A i \in 0..n : i # 0 => i \in 1..n
      BY <1>2
    <3> QED
      BY <1>7, <1>8, <3>1
  <2>2. f = [i \in 0..n |-> f[i]]
    BY <1>7
  <2>3. f = step(f)
    BY <2>1, <2>2
  <2> HIDE DEF step
  <2> QED
    BY <2>3
<1> HIDE DEF map
<1>10. Follows(map, T, NoMap, n, h)
  <2>1. map[0] = NoMap
    BY <1>2, <1>9
  <2>2. ASSUME NEW i \in 1..n, map[i - 1] \in T PROVE map[i] = h[i][map[i - 1]]
    <3>1. i \in 0..n /\ i # 0
      BY <1>2
    <3>2. map[i] = IF i = 0 THEN NoMap ELSE NestStep(files, i, map[i - 1])
      BY <1>9, <3>1
    <3> QED
      BY <2>2, <3>1, <3>2 DEF NestSteps, h, T
  <2> QED
    BY <2>1, <2>2 DEF Follows
<1>11. map[n] = f[n]
  <2>1. Same(f, map, n)
    <3> HIDE DEF n
    <3> QED
      BY <1>2, <1>6, <1>10, BuildingIsUnique
  <2>2. n \in 0..n
    BY <1>2
  <2> QED
    BY <2>1, <2>2 DEF Same
<1> QED
  BY <1>1, <1>7, <1>8, <1>11 DEF T, files

\* It is one, whatever is on the disk.
LEMMA NestedMapIsMap == MapOf(Seq(Nat), Record, NestedMap)
<1>1. Len(NestedFiles) \in 0..Len(NestedFiles)
  BY NestedFilesAreFiles
<1>2. NestedMap \in Maps(Record)
  BY <1>1, Nesting
<1> QED
  BY <1>2 DEF Maps

Item == [path : Seq(Nat), file : File, entry : Seq(Nat)]

\* An entry of a file, found below a prefix.
ItemOf(item, f, prefix) ==
  /\ item.file = f /\ Good(f)
  /\ item.entry \in Seq(Nat) /\ item.entry \in ToSet(EntriesOf[f])
  /\ item.path = prefix \o item.entry

LEMMA ItemsOfFile ==
  ASSUME NEW f \in File, NEW prefix \in Seq(Nat)
  PROVE  /\ FileItems(f, prefix) \in Seq(Item)
         /\ \A i \in 1..Len(FileItems(f, prefix)) : ItemOf(FileItems(f, prefix)[i], f, prefix)
<1> DEFINE es == EntriesOf[f]
           item(i) == [path |-> prefix \o es[i], file |-> f, entry |-> es[i]]
           items == Items(f, prefix)
<1>1. es \in Seq(Seq(Nat))
  BY MultiCorpusAssumption
<1>2. Len(es) \in Nat /\ DOMAIN es = 1..Len(es) /\ \A i \in 1..Len(es) : es[i] \in Seq(Nat)
  BY <1>1
<1>3. items = [i \in 1..Len(es) |-> item(i)]
  BY DEF Items
<1> HIDE DEF es
<1>4. ASSUME NEW i \in 1..Len(es) PROVE item(i) \in Item
  BY <1>2 DEF Item
<1>5. \A i \in 1..Len(es) :
        /\ item(i).file = f /\ item(i).entry = es[i] /\ item(i).path = prefix \o es[i]
        /\ es[i] \in ToSet(es)
  BY <1>2 DEF ToSet
<1> HIDE DEF item, items
<1>6. items \in [1..Len(es) -> Item] /\ \A i \in 1..Len(es) : items[i] = item(i)
  BY <1>3, <1>4
<1>7. items \in Seq(Item) /\ Len(items) = Len(es)
  BY <1>2, <1>6, Listed
<1>8. CASE Good(f)
  <2>1. FileItems(f, prefix) = items
    BY <1>8 DEF FileItems, items
  <2>2. \A i \in 1..Len(items) : ItemOf(items[i], f, prefix)
    BY <1>2, <1>5, <1>6, <1>7, <1>8 DEF ItemOf, es
  <2> QED
    BY <1>7, <2>1, <2>2
<1>9. CASE ~Good(f)
  BY <1>9 DEF FileItems
<1> QED
  BY <1>8, <1>9

\* An entry in a corpus of a map.
NestedItem(item, map, prefix) ==
  \E m \in DOMAIN map : ItemOf(item, map[m].file, prefix \o m \o <<Slash>>)

LEMMA ItemsOfMap ==
  ASSUME NEW map, MapOf(Seq(Nat), Record, map), NEW prefix \in Seq(Nat)
  PROVE  /\ NestedItems(map, prefix) \in Seq(Item)
         /\ \A i \in 1..Len(NestedItems(map, prefix)) :
              NestedItem(NestedItems(map, prefix)[i], map, prefix)
<1> DEFINE names == Keys(map)
           n == Len(names)
           below(i) == prefix \o names[i] \o <<Slash>>
           part(i) == FileItems(map[names[i]].file, below(i))
           parts == [i \in 1..n |-> part(i)]
           items == NestedItems(map, prefix)
<1>1. items = FlattenSeq(parts)
  BY DEF NestedItems
<1>2. names \in Seq(Seq(Nat)) /\ \A i \in 1..n : names[i] \in DOMAIN map
  BY KeysAreKeys
<1>3. n \in Nat /\ \A i \in 1..n : names[i] \in Seq(Nat)
  <2> HIDE DEF names
  <2> QED
    BY <1>2
<1>4. \A m \in DOMAIN map : map[m].file \in File
  BY DEF MapOf, Record
<1>5. \A i \in 1..n : below(i) \in Seq(Nat)
  <2> TAKE i \in 1..n
  <2>1. names[i] \in Seq(Nat) /\ <<Slash>> \in Seq(Nat)
    BY <1>3 DEF Slash
  <2> HIDE DEF names
  <2>2. prefix \o names[i] \in Seq(Nat)
    BY <2>1
  <2> QED
    BY <2>1, <2>2
<1> HIDE DEF names, below
<1>6. ASSUME NEW i \in 1..n
      PROVE  /\ part(i) \in Seq(Item)
             /\ \A k \in 1..Len(part(i)) : ItemOf(part(i)[k], map[names[i]].file, below(i))
  BY <1>2, <1>4, <1>5, ItemsOfFile
<1> HIDE DEF part, n
<1>7. parts \in [1..n -> Seq(Item)] /\ \A i \in 1..n : parts[i] = part(i)
  BY <1>6
<1> HIDE DEF parts
<1>8. parts \in Seq(Seq(Item)) /\ Len(parts) = n
  BY <1>3, <1>7, Listed
<1>9. /\ FlattenSeq(parts) \in Seq(Item)
      /\ \A i \in 1..Len(FlattenSeq(parts)) :
           \E j \in 1..Len(parts) : \E k \in 1..Len(parts[j]) : FlattenSeq(parts)[i] = parts[j][k]
  BY <1>8, FlatFromParts
<1> HIDE DEF items
<1>10. ASSUME NEW i \in 1..Len(items) PROVE NestedItem(items[i], map, prefix)
  <2>1. PICK j \in 1..n : \E k \in 1..Len(parts[j]) : items[i] = parts[j][k]
    BY <1>1, <1>8, <1>9
  <2>2. PICK k \in 1..Len(part(j)) : items[i] = part(j)[k]
    BY <1>7, <2>1
  <2>3. ItemOf(items[i], map[names[j]].file, below(j)) /\ names[j] \in DOMAIN map
    BY <1>2, <1>6, <2>2 DEF n
  <2> QED
    BY <2>3 DEF NestedItem, below
<1>11. items \in Seq(Item)
  BY <1>1, <1>9
<1> QED
  BY <1>10, <1>11 DEF items

\* An entry in one corpus, be it a file or a directory of them.
CorpusItem(item, c, prefix) ==
  \/ ~c.recursive /\ ItemOf(item, c.file, prefix)
  \/ c.recursive /\ Opens(c) = "ok" /\ NestedItem(item, NestedMap, prefix)

LEMMA ItemsOfCorpus ==
  ASSUME NEW c \in Record, NEW prefix \in Seq(Nat)
  PROVE  /\ ItemsOf(c, prefix) \in Seq(Item)
         /\ \A i \in 1..Len(ItemsOf(c, prefix)) : CorpusItem(ItemsOf(c, prefix)[i], c, prefix)
<1>1. c.file \in File /\ c.recursive \in BOOLEAN
  BY DEF Record
<1>2. CASE ~c.recursive
  <2>1. ItemsOf(c, prefix) = FileItems(c.file, prefix)
    BY <1>2 DEF ItemsOf
  <2> QED
    BY <1>1, <1>2, <2>1, ItemsOfFile DEF CorpusItem
<1>3. CASE c.recursive /\ Opens(c) = "ok"
  <2>1. ItemsOf(c, prefix) = NestedItems(NestedMap, prefix)
    BY <1>3, Zenon DEF ItemsOf
  <2> QED
    BY <1>3, <2>1, NestedMapIsMap, ItemsOfMap DEF CorpusItem
<1>4. CASE c.recursive /\ Opens(c) # "ok"
  <2>1. ItemsOf(c, prefix) = <<>>
    BY <1>4, Zenon DEF ItemsOf
  <2> QED
    BY <2>1
<1> QED
  BY <1>1, <1>2, <1>3, <1>4

\* An item that is found again.
MapItem(item) ==
  \E n \in DOMAIN d_corporaMap : CorpusItem(item, d_corporaMap[n], n \o <<Slash>>)

LEMMA ItemIsFound ==
  ASSUME MapOf(Seq(Nat), Record, d_corporaMap), Unambiguous(DOMAIN d_corporaMap),
         Unambiguous(DOMAIN NestedMap), NEW item, MapItem(item)
  PROVE  readEntry(item.path) = [file |-> item.file, entry |-> item.entry]
<1>1. PICK n \in DOMAIN d_corporaMap : CorpusItem(item, d_corporaMap[n], n \o <<Slash>>)
  BY DEF MapItem
<1> DEFINE c == d_corporaMap[n]
           map == NestedMap
<1>2. n \in Seq(Nat) /\ DOMAIN d_corporaMap \subseteq Seq(Nat)
  BY DEF MapOf
<1>3. MapOf(Seq(Nat), Record, map)
  BY NestedMapIsMap
<1>4. ASSUME NEW e \in Seq(Nat), item.path = Joined(n, e)
      PROVE  readEntry(item.path) = ReadCorpus(c, e)
  <2>1. /\ Known(d_corporaMap, Joined(n, e))
        /\ corpusFromPath(d_corporaMap, Joined(n, e)) = d_corporaMap[n]
        /\ entryFromPath(d_corporaMap, Joined(n, e)) = e
    BY <1>2, PathFindsEntry
  <2> QED
    BY <1>4, <2>1 DEF readEntry
<1> HIDE DEF c
<1>5. CASE ~c.recursive
  <2>1. ItemOf(item, c.file, n \o <<Slash>>)
    BY <1>1, <1>5 DEF CorpusItem, c
  <2>2. readEntry(item.path) = ReadCorpus(c, item.entry)
    BY <1>4, <2>1 DEF ItemOf, Joined
  <2>3. ReadCorpus(c, item.entry) = ReadFile(c, item.entry)
    BY <1>5 DEF ReadCorpus
  <2> QED
    BY <2>1, <2>2, <2>3 DEF ItemOf, ReadFile
<1>6. CASE c.recursive
  <2>1. Opens(c) = "ok" /\ NestedItem(item, map, n \o <<Slash>>)
    BY <1>1, <1>6 DEF CorpusItem, c
  <2> HIDE DEF map
  <2>2. PICK m \in DOMAIN map : ItemOf(item, map[m].file, (n \o <<Slash>>) \o m \o <<Slash>>)
    BY <2>1 DEF NestedItem
  <2> DEFINE e == item.entry
             f == map[m].file
  <2>3. m \in Seq(Nat) /\ e \in Seq(Nat) /\ DOMAIN map \subseteq Seq(Nat)
    BY <1>3, <2>2 DEF MapOf, ItemOf
  <2>4. /\ item.file = f /\ Good(f) /\ e \in ToSet(EntriesOf[f])
        /\ item.path = ((n \o <<Slash>>) \o m \o <<Slash>>) \o e
    BY <2>2 DEF ItemOf
  <2>5. item.path = Joined(n, Joined(m, e)) /\ Joined(m, e) \in Seq(Nat)
    <3> DEFINE p == n \o <<Slash>>
    <3>1. p \in Seq(Nat) /\ <<Slash>> \in Seq(Nat)
      BY <1>2 DEF Slash
    <3> HIDE DEF p, e
    <3>2. ((p \o m) \o <<Slash>>) \o e = p \o ((m \o <<Slash>>) \o e)
      <4> DEFINE l == <<Slash>>
                 J(s, t) == s \o t
      <4>1. l \in Seq(Nat)
        BY <3>1
      <4>2. J(m, l) \in Seq(Nat)
        BY <2>3, <4>1
      <4>3. \A s, t, u \in Seq(Nat) : J(J(s, t), u) = J(s, J(t, u))
        <5> DEFINE S == Nat
        <5> HIDE DEF S
        <5>1. \A s, t, u \in Seq(S) : J(J(s, t), u) = J(s, J(t, u))
          BY ONLY Regrouped
        <5> QED
          BY <5>1 DEF S
      <4> HIDE DEF l, J
      <4>4. J(J(J(p, m), l), e) = J(p, J(J(m, l), e))
        BY <2>3, <3>1, <4>1, <4>2, <4>3
      <4> QED
        BY <4>4 DEF l, J
    <3>3. Joined(m, e) \in Seq(Nat)
      BY <2>3, JoinedParts
    <3> QED
      BY <2>4, <3>2, <3>3 DEF Joined, p, e
  <2> HIDE DEF e
  <2>6. readEntry(item.path) = ReadCorpus(c, Joined(m, e))
    BY <1>4, <2>5
  <2>7. /\ Known(map, Joined(m, e))
        /\ corpusFromPath(map, Joined(m, e)) = map[m]
        /\ entryFromPath(map, Joined(m, e)) = e
    <3>1. Unambiguous(DOMAIN map)
      BY DEF map
    <3> QED
      BY <2>3, <3>1, PathFindsEntry
  <2>8. ReadCorpus(c, Joined(m, e)) = ReadFile(map[m], e)
    BY <1>6, <2>1, <2>7, Zenon DEF ReadCorpus, map
  <2> QED
    BY <2>4, <2>6, <2>8 DEF ReadFile, e
<1> QED
  BY <1>3, <1>5, <1>6 DEF MapOf

----------------------------------------------------------------------------
(* An iteration in the reader, whose corpora and files change at any time. *)

Pending == Seq(Nat) \X Record

InMap(x) == x[1] \in DOMAIN d_corporaMap /\ x[2] = d_corporaMap[x[1]]

Listing == [outcome : {"none", "begun", "ok", "exception"}, result : Seq(Item), at : Nat]

\* What ReadBack needs to be inductive: what is to be opened is in the map, and
\* what was found is of corpora in it, as long as nothing has changed since.
ListState ==
  /\ version \in Nat /\ walk \in Seq(File)
  /\ MapOf(Seq(Nat), Record, d_corporaMap)
  /\ listing \in Listing /\ listing.at <= version
  /\ pc = "push" => walk # <<>>
  /\ pc \in {"walk", "push", "failed"} => listing.result = <<>>
  /\ pc = "list" => todo \in Seq(Pending) /\ \A i \in 1..Len(todo) : InMap(todo[i])
  /\ listing.at = version => \A i \in 1..Len(listing.result) : MapItem(listing.result[i])

LEMMA ItemsStay ==
  ASSUME UNCHANGED <<disk, d_corporaMap>>
  PROVE  /\ \A item : MapItem(item)' <=> MapItem(item)
         /\ \A x : InMap(x)' <=> InMap(x)
         /\ MapOf(Seq(Nat), Record, d_corporaMap)' <=> MapOf(Seq(Nat), Record, d_corporaMap)
<1>1. \A f : Good(f)' <=> Good(f)
  BY DEF Good, open
<1>2. NestedMap' = NestedMap
  <2>1. \A f : Nested(f)' <=> Nested(f)
    BY DEF Nested
  <2>2. NestedFiles' = NestedFiles
    BY <2>1 DEF NestedFiles
  <2> QED
    BY <2>2 DEF NestedMap
<1>3. \A c : Opens(c)' = Opens(c)
  BY DEF Opens, open
<1>4. \A item, f, prefix : ItemOf(item, f, prefix)' <=> ItemOf(item, f, prefix)
  BY <1>1 DEF ItemOf
<1>5. \A item, c, prefix : CorpusItem(item, c, prefix)' <=> CorpusItem(item, c, prefix)
  BY <1>2, <1>3, <1>4 DEF CorpusItem, NestedItem
<1>6. \A item : MapItem(item)' <=> MapItem(item)
  BY <1>5 DEF MapItem
<1>7. \A x : InMap(x)' <=> InMap(x)
  BY DEF InMap
<1> QED
  BY <1>6, <1>7 DEF MapOf

LEMMA ListStateAtStart == Init => ListState
<1> SUFFICES ASSUME Init PROVE ListState
  OBVIOUS
<1>1. version = 0 /\ d_corporaMap = NoMap /\ pc \in {"ready", "walk"}
  BY DEF Init
<1>2. walk \in Seq(File)
  <2>1. walk = <<>> \/ walk = WalkOrder
    BY DEF Init
  <2>2. WalkOrder \in Seq(File) /\ <<>> \in Seq(File)
    BY MultiCorpusAssumption
  <2> QED
    BY <2>1, <2>2, Zenon
<1>3. listing = [outcome |-> "none", result |-> <<>>, at |-> 0]
  BY DEF Init, Call
<1>4. listing \in Listing /\ listing.at = 0 /\ listing.result = <<>>
  BY <1>3 DEF Listing
<1>5. MapOf(Seq(Nat), Record, d_corporaMap)
  BY <1>1, EmptyMap, Zenon
<1> QED
  BY <1>1, <1>2, <1>4, <1>5 DEF ListState

\* Only the map changes, and an iteration before has no say in it any more.
LEMMA PushKeepsState ==
  ASSUME ListState, NEW n \in Seq(Nat), NEW f \in File, NEW rec \in BOOLEAN,
         push_back(n, f, rec), UNCHANGED <<listing>>,
         version' \in Nat, version' >= version, pc' # "push", pc' # "list", walk' \in Seq(File),
         pc' \in {"walk", "push", "failed"} => listing.result = <<>>,
         version' = version => listing.result = <<>>
  PROVE  ListState'
<1>1. Corpus(f, rec) \in Record
  BY DEF Corpus, Record
<1>2. d_corporaMap' = Assign(d_corporaMap, n, Corpus(f, rec))
  BY DEF push_back
<1>3. MapOf(Seq(Nat), Record, d_corporaMap')
  <2>1. MapOf(Seq(Nat), Record, d_corporaMap)
    BY DEF ListState
  <2>2. MapOf(Seq(Nat), Record, Assign(d_corporaMap, n, Corpus(f, rec)))
    BY <1>1, <2>1, AssignKeepsMap
  <2> QED
    BY <1>2, <2>2, Zenon
<1>4. MapOf(Seq(Nat), Record, d_corporaMap)'
  BY <1>3 DEF MapOf
<1>5. version \in Nat /\ listing \in Listing /\ listing.at <= version /\ listing.at \in Nat
  BY DEF ListState, Listing
<1>6. listing.at = version' => listing.result = <<>>
  BY <1>5
<1>7. listing' = listing
  OBVIOUS
<1> QED
  BY <1>4, <1>5, <1>6, <1>7 DEF ListState

\* What leaves the reader and the disk as they are leaves what was found in it.
LEMMA OthersKeepState ==
  ASSUME ListState, UNCHANGED <<disk, version, d_corporaMap, walk>>,
         listing' \in Listing, listing'.at <= version,
         pc' = "push" => walk # <<>>,
         pc' \in {"walk", "push", "failed"} => listing'.result = <<>>,
         pc' = "list" => todo' \in Seq(Pending) /\ \A i \in 1..Len(todo') : InMap(todo'[i]),
         listing'.at = version =>
           \A i \in 1..Len(listing'.result) : MapItem(listing'.result[i])
  PROVE  ListState'
<1>1. /\ \A item : MapItem(item)' <=> MapItem(item)
      /\ \A x : InMap(x)' <=> InMap(x)
      /\ MapOf(Seq(Nat), Record, d_corporaMap)' <=> MapOf(Seq(Nat), Record, d_corporaMap)
  BY ItemsStay
<1>2. version \in Nat /\ walk \in Seq(File) /\ MapOf(Seq(Nat), Record, d_corporaMap)
  BY DEF ListState
<1> QED
  BY <1>1, <1>2 DEF ListState

LEMMA WalkKeepsState ==
  ASSUME ListState, Walk \/ WalkPush \/ WalkEnd
  PROVE  ListState'
<1>1. /\ version \in Nat /\ walk \in Seq(File) /\ listing \in Listing
      /\ listing.at <= version /\ listing.result = <<>>
  BY DEF ListState, Walk, WalkPush, WalkEnd
<1>2. UNCHANGED <<disk, version, listing, todo>> /\ pc' # "list"
  BY DEF Walk, WalkPush, WalkEnd, Idle
<1>3. CASE Walk
  <2>1. UNCHANGED d_corporaMap /\ walk # <<>>
    BY <1>3 DEF Walk
  <2>2. Tail(walk) \in Seq(File)
    BY <1>1, <2>1
  <2>3. walk' \in Seq(File) /\ (pc' = "push" => walk' # <<>>)
    BY <1>1, <1>3, <2>1, <2>2 DEF Walk
  <2>4. /\ \A item : MapItem(item)' <=> MapItem(item)
        /\ MapOf(Seq(Nat), Record, d_corporaMap)' <=> MapOf(Seq(Nat), Record, d_corporaMap)
    BY <1>2, <2>1, ItemsStay
  <2> QED
    BY <1>1, <1>2, <2>3, <2>4 DEF ListState
<1>4. CASE WalkPush
  <2>1. walk # <<>> /\ Head(walk) \in File /\ Tail(walk) \in Seq(File)
    <3>1. walk # <<>>
      BY <1>4 DEF WalkPush, ListState
    <3> QED
      BY <1>1, <3>1
  <2>2. CASE disk[Head(walk)] # "absent"
    <3>1. /\ push_back(Stem[Head(walk)], Head(walk), FALSE)
          /\ pc' = "walk" /\ walk' = Tail(walk)
      BY <1>4, <2>2 DEF WalkPush
    <3>2. Stem[Head(walk)] \in Seq(Nat)
      BY <2>1, MultiCorpusAssumption
    <3>3. version' \in Nat /\ version' >= version
      BY <1>1, <1>2
    <3> QED
      BY <1>1, <1>2, <2>1, <3>1, <3>2, <3>3, PushKeepsState
  <2>3. CASE disk[Head(walk)] = "absent"
    <3>1. pc' = "failed" /\ UNCHANGED <<d_corporaMap, walk>>
      BY <1>4, <2>3 DEF WalkPush
    <3> QED
      BY <1>1, <1>2, <3>1, OthersKeepState
  <2> QED
    BY <2>2, <2>3
<1>5. CASE WalkEnd
  <2>1. pc' = "ready" /\ UNCHANGED <<d_corporaMap, walk>>
    BY <1>5 DEF WalkEnd, reader
  <2> QED
    BY <1>1, <1>2, <2>1, OthersKeepState
<1> QED
  BY <1>3, <1>4, <1>5

LEMMA getEntriesKeepsState ==
  ASSUME ListState, getEntries
  PROVE  ListState'
<1> DEFINE keys == Keys(d_corporaMap)
<1>1. /\ UNCHANGED <<disk, version, d_corporaMap, walk>>
      /\ pc' = "list"
      /\ todo' = [i \in 1..Len(keys) |-> <<keys[i], d_corporaMap[keys[i]]>>]
      /\ listing' = [outcome |-> "begun", result |-> <<>>, at |-> version]
  BY DEF getEntries, Begin, reader, Call
<1>2. version \in Nat /\ MapOf(Seq(Nat), Record, d_corporaMap)
  BY DEF ListState
<1>3. keys \in Seq(Seq(Nat)) /\ \A i \in 1..Len(keys) : keys[i] \in DOMAIN d_corporaMap
  BY <1>2, KeysAreKeys
<1> HIDE DEF keys
<1>4. Len(keys) \in Nat /\ \A i \in 1..Len(keys) : keys[i] \in Seq(Nat)
  BY <1>3
<1>5. \A i \in 1..Len(keys) : d_corporaMap[keys[i]] \in Record
  BY <1>2, <1>3 DEF MapOf
<1>6. todo' \in [1..Len(keys) -> Pending]
  BY <1>1, <1>4, <1>5 DEF Pending
<1>7. todo' \in Seq(Pending) /\ Len(todo') = Len(keys)
  BY <1>4, <1>6, Listed
<1>8. \A i \in 1..Len(todo') : InMap(todo'[i])
  <2>1. \A i \in 1..Len(keys) : todo'[i] = <<keys[i], d_corporaMap[keys[i]]>>
    BY <1>1
  <2> QED
    BY <1>3, <1>7, <2>1 DEF InMap
<1>9. listing' \in Listing /\ listing'.at <= version /\ listing'.result = <<>>
  BY <1>1, <1>2 DEF Listing
<1>10. \A i \in 1..Len(listing'.result) : MapItem(listing'.result[i])
  <2>1. Len(listing'.result) = 0
    BY <1>9
  <2> QED
    BY <2>1
<1>11. pc' # "push" /\ pc' \notin {"walk", "push", "failed"}
  BY <1>1
<1>12. UNCHANGED <<disk, version, d_corporaMap, walk>>
  BY <1>1
<1> QED
  BY <1>7, <1>8, <1>9, <1>10, <1>11, <1>12, OthersKeepState

LEMMA ListNextKeepsState ==
  ASSUME ListState, ListNext
  PROVE  ListState'
<1> DEFINE n == Head(todo)[1]
           c == Head(todo)[2]
           more == ItemsOf(c, n \o <<Slash>>)
<1>1. pc = "list" /\ todo # <<>> /\ UNCHANGED <<disk, version, d_corporaMap, walk>>
  BY DEF ListNext, reader
<1>2. /\ todo \in Seq(Pending) /\ \A i \in 1..Len(todo) : InMap(todo[i])
      /\ listing \in Listing /\ listing.at <= version
      /\ listing.at = version => \A i \in 1..Len(listing.result) : MapItem(listing.result[i])
  BY <1>1 DEF ListState
<1>3. /\ n \in Seq(Nat) /\ c \in Record
      /\ n \in DOMAIN d_corporaMap /\ c = d_corporaMap[n]
  <2>1. Head(todo) \in Pending /\ InMap(Head(todo))
    BY <1>1, <1>2
  <2> QED
    BY <2>1 DEF Pending, InMap
<1> HIDE DEF n, c
<1>4. CASE pc' = "ready" /\ todo' = <<>> /\ listing' = [listing EXCEPT !.outcome = "exception"]
  <2>1. /\ listing' \in Listing /\ listing'.at = listing.at
        /\ listing'.result = listing.result
    BY <1>2, <1>4 DEF Listing
  <2> QED
    BY <1>1, <1>2, <1>4, <2>1, OthersKeepState
<1>5. CASE pc' = pc /\ todo' = Tail(todo) /\ listing' = [listing EXCEPT !.result = @ \o more]
  <2>1. n \o <<Slash>> \in Seq(Nat)
    BY <1>3 DEF Slash
  <2>2. more \in Seq(Item) /\ \A i \in 1..Len(more) : MapItem(more[i])
    <3>1. /\ more \in Seq(Item)
          /\ \A i \in 1..Len(more) : CorpusItem(more[i], c, n \o <<Slash>>)
      BY <1>3, <2>1, ItemsOfCorpus
    <3> HIDE DEF more
    <3> QED
      BY <1>3, <3>1 DEF MapItem
  <2> HIDE DEF more
  <2> DEFINE s == listing.result
             t == s \o more
  <2>3. s \in Seq(Item) /\ t \in Seq(Item)
    BY <1>2, <2>2 DEF Listing
  <2>4. listing' \in Listing /\ listing'.at = listing.at /\ listing'.result = t
    BY <1>2, <1>5, <2>3 DEF Listing
  <2>5. ASSUME listing.at = version, NEW i \in 1..Len(t) PROVE MapItem(t[i])
    <3>1. \A k \in 1..Len(s) : MapItem(s[k])
      BY <1>2, <2>5
    <3> HIDE DEF s
    <3>2. CASE i <= Len(s)
      <4>1. t[i] = s[i] /\ i \in 1..Len(s)
        BY <2>2, <2>3, <3>2
      <4> QED
        BY <3>1, <4>1
    <3>3. CASE ~(i <= Len(s))
      <4>1. t[i] = more[i - Len(s)] /\ i - Len(s) \in 1..Len(more)
        BY <2>2, <2>3, <3>3
      <4> QED
        BY <2>2, <4>1
    <3> QED
      BY <3>2, <3>3
  <2>6. todo' \in Seq(Pending) /\ \A i \in 1..Len(todo') : InMap(todo'[i])
    <3>1. Tail(todo) \in Seq(Pending) /\ Len(Tail(todo)) = Len(todo) - 1 /\ Len(todo) \in Nat
      BY <1>1, <1>2
    <3>2. \A i \in 1..Len(Tail(todo)) : Tail(todo)[i] = todo[i + 1] /\ i + 1 \in 1..Len(todo)
      BY <1>1, <1>2, <3>1
    <3> QED
      BY <1>2, <1>5, <3>1, <3>2
  <2> HIDE DEF t
  <2> QED
    BY <1>1, <1>2, <1>5, <2>4, <2>5, <2>6, OthersKeepState
<1> QED
  BY <1>4, <1>5 DEF ListNext, n, c

LEMMA ListStateKept == ListState /\ [Next]_vars => ListState'
<1> SUFFICES ASSUME ListState, [Next]_vars PROVE ListState'
  OBVIOUS
<1>1. version \in Nat /\ walk \in Seq(File) /\ listing \in Listing /\ listing.at <= version
  BY DEF ListState
<1>2. ASSUME NEW n \in Name, NEW f \in File, NEW rec \in BOOLEAN, PushBack(n, f, rec)
      PROVE  ListState'
  <2>1. /\ push_back(n, f, rec) /\ version' = version + 1 /\ pc = "ready"
        /\ UNCHANGED <<pc, walk, listing>>
    BY <1>2 DEF PushBack, Idle
  <2>2. n \in Seq(Nat)
    BY MultiCorpusAssumption
  <2>3. version' \in Nat /\ version' >= version /\ version' # version
    BY <1>1, <2>1
  <2> QED
    BY <1>1, <2>1, <2>2, <2>3, PushKeepsState
<1>3. CASE Walk \/ WalkPush \/ WalkEnd
  BY <1>3, WalkKeepsState
<1>4. CASE getEntries
  BY <1>4, getEntriesKeepsState
<1>5. CASE ListNext
  BY <1>5, ListNextKeepsState
<1>6. CASE getSize \/ SizeNext
  <2>1. /\ UNCHANGED <<disk, version, d_corporaMap, walk, listing>>
        /\ pc' \in {"ready", "size"}
    BY <1>6 DEF getSize, SizeNext, Begin, reader
  <2> QED
    BY <1>1, <2>1, OthersKeepState DEF ListState
<1>7. CASE Return
  <2>1. /\ UNCHANGED <<disk, version, d_corporaMap, walk>> /\ pc' = "ready"
        /\ listing' = listing \/ listing' = [listing EXCEPT !.outcome = "ok"]
    BY <1>7 DEF Return, reader
  <2>2. /\ listing' \in Listing /\ listing'.at = listing.at
        /\ listing'.result = listing.result
    BY <1>1, <2>1 DEF Listing
  <2> QED
    BY <1>1, <2>1, <2>2, OthersKeepState DEF ListState
<1>8. ASSUME NEW f \in File, NEW kind \in Kind, Change(f, kind) PROVE ListState'
  <2>1. version' = version + 1 /\ UNCHANGED <<pc, walk, d_corporaMap, todo, listing>>
    BY <1>8 DEF Change, reader, Idle
  <2>2. version' \in Nat /\ listing.at \in Nat /\ listing.at <= version' /\ listing.at # version'
    BY <1>1, <2>1 DEF Listing
  <2>3. \A x : InMap(x)' <=> InMap(x)
    BY <2>1 DEF InMap
  <2>4. MapOf(Seq(Nat), Record, d_corporaMap)'
    BY <2>1 DEF ListState, MapOf
  <2> QED
    BY <2>1, <2>2, <2>3, <2>4 DEF ListState
<1>9. CASE UNCHANGED vars
  <2>1. UNCHANGED <<disk, version, d_corporaMap, walk, pc, todo, listing>>
    BY <1>9 DEF vars, reader
  <2> QED
    BY <1>1, <2>1, OthersKeepState DEF ListState
<1> QED
  BY <1>2, <1>3, <1>4, <1>5, <1>6, <1>7, <1>8, <1>9 DEF Next

\* Whatever an iteration has named is read again by its path, in the corpus it
\* came from, as long as nothing has changed since it began: for any names, files
\* and entries, any number of corpora, and directories of them among them, where
\* no name is empty or continues another with a slash.
THEOREM NamesLeadBack == Spec => []ReadBack
<1>1. ListState => ReadBack
  BY ItemIsFound DEF ListState, ReadBack
<1> QED
  BY <1>1, ListStateAtStart, ListStateKept, PTL DEF Spec

----------------------------------------------------------------------------
(* Sums.                                                                   *)

AddingUp(w) == [i \in 1..Len(w) |-> [x \in Nat |-> x + w[i]]]

SumTo(w) == CHOOSE f : Builds(f, Nat, 0, Len(w), AddingUp(w))

Total(w) == SumTo(w)[Len(w)]

LEMMA Summing ==
  ASSUME NEW w \in Seq(Nat)
  PROVE  /\ Builds(SumTo(w), Nat, 0, Len(w), AddingUp(w))
         /\ SumTo(w) \in [0..Len(w) -> Nat]
         /\ SumTo(w)[0] = 0
         /\ \A i \in 1..Len(w) : SumTo(w)[i] = SumTo(w)[i - 1] + w[i]
         /\ Total(w) \in Nat
<1> DEFINE n == Len(w)
           f == SumTo(w)
           h == AddingUp(w)
<1>1. n \in Nat /\ \A i \in 1..n : w[i] \in Nat
  OBVIOUS
<1>2. h \in [1..n -> [Nat -> Nat]]
  BY <1>1 DEF AddingUp
<1>3. Builds(f, Nat, 0, n, h)
  <2>1. \E g : Builds(g, Nat, 0, n, h)
    <3> HIDE DEF h, n
    <3> QED
      BY <1>1, <1>2, Building
  <2> QED
    BY <2>1 DEF SumTo
<1>4. f \in [0..n -> Nat] /\ f[0] = 0 /\ \A i \in 1..n : f[i] = h[i][f[i - 1]]
  BY <1>3 DEF Builds
<1>5. ASSUME NEW i \in 1..n PROVE f[i] = f[i - 1] + w[i]
  <2>1. i - 1 \in 0..n
    BY <1>1
  <2> HIDE DEF f
  <2>2. f[i - 1] \in Nat
    BY <1>4, <2>1
  <2> QED
    BY <1>4, <2>2 DEF AddingUp
<1>6. n \in 0..n
  BY <1>1
<1>7. f[n] \in Nat
  BY <1>4, <1>6
<1> QED
  BY <1>3, <1>4, <1>5, <1>7 DEF Total

\* What adds up like it is the same.
LEMMA SummedAlike ==
  ASSUME NEW w \in Seq(Nat), NEW g, g[0] = 0, \A i \in 1..Len(w) : g[i] = g[i - 1] + w[i]
  PROVE  \A i \in 0..Len(w) : g[i] = SumTo(w)[i]
<1> DEFINE n == Len(w)
           f == SumTo(w)
           h == AddingUp(w)
<1>1. n \in Nat /\ Builds(f, Nat, 0, n, h)
  BY Summing
<1>2. ASSUME NEW i \in 1..n, g[i - 1] \in Nat PROVE g[i] = h[i][g[i - 1]]
  BY <1>2 DEF AddingUp
<1>3. Follows(g, Nat, 0, n, h)
  BY <1>2 DEF Follows
<1>4. Same(f, g, n)
  <2> HIDE DEF f, n, h
  <2> QED
    BY <1>1, <1>3, BuildingIsUnique
<1> QED
  BY <1>4 DEF Same

\* A sum counts cells, a row for each number.
Cells(w, n) == {p \in (1..n) \X Nat : p[2] \in 1..w[p[1]]}

LEMMA SumCounts ==
  ASSUME NEW w \in Seq(Nat)
  PROVE  /\ IsFiniteSet(Cells(w, Len(w)))
         /\ Cardinality(Cells(w, Len(w))) = Total(w)
<1> DEFINE n == Len(w)
           f == SumTo(w)
           Q == {i \in Nat : i <= n => /\ IsFiniteSet(Cells(w, i))
                                       /\ Cardinality(Cells(w, i)) = f[i]}
<1>1. /\ n \in Nat /\ f \in [0..n -> Nat] /\ f[0] = 0
      /\ \A i \in 1..n : f[i] = f[i - 1] + w[i] /\ w[i] \in Nat
  BY Summing
<1> HIDE DEF f, n
<1>2. 0 \in Q
  <2>1. Cells(w, 0) = {}
    BY DEF Cells
  <2> QED
    BY <1>1, <2>1, FS_EmptySet
<1>3. ASSUME NEW i \in Nat, i \in Q PROVE i + 1 \in Q
  <2> SUFFICES ASSUME i + 1 <= n
               PROVE  /\ IsFiniteSet(Cells(w, i + 1))
                      /\ Cardinality(Cells(w, i + 1)) = f[i + 1]
    OBVIOUS
  <2> DEFINE k == i + 1
             row == {k} \X (1..w[k])
  <2>1. k \in 1..n /\ k - 1 = i /\ i \in 0..n
    BY <1>1
  <2>2. w[k] \in Nat /\ f[k] = f[i] + w[k] /\ f[i] \in Nat
    BY <1>1, <2>1
  <2>3. IsFiniteSet(Cells(w, i)) /\ Cardinality(Cells(w, i)) = f[i]
    BY <1>3, <2>1
  <2>4. IsFiniteSet(row) /\ Cardinality(row) = w[k]
    <3> DEFINE m == w[k]
    <3>1. m \in Nat
      BY <2>2
    <3> HIDE DEF m, k
    <3>2. IsFiniteSet(1..m) /\ Cardinality(1..m) = m
      <4>1. 1 \in Int /\ m \in Int
        BY <3>1
      <4> QED
        BY <3>1, <4>1, FS_Interval
    <3>3. IsFiniteSet({k}) /\ Cardinality({k}) = 1
      BY FS_Singleton
    <3>4. IsFiniteSet({k} \X (1..m)) /\ Cardinality({k} \X (1..m)) = 1 * m
      <4> DEFINE a == {k}
                 b == 1..m
      <4>1. IsFiniteSet(a) /\ IsFiniteSet(b) /\ Cardinality(a) = 1 /\ Cardinality(b) = m
        BY <3>2, <3>3
      <4> HIDE DEF a, b
      <4>2. IsFiniteSet(a \X b) /\ Cardinality(a \X b) = Cardinality(a) * Cardinality(b)
        BY <4>1, FS_Product, Zenon
      <4> QED
        BY <4>1, <4>2 DEF a, b
    <3> QED
      BY <3>1, <3>4 DEF m
  <2>5. Cells(w, k) = Cells(w, i) \cup row /\ Cells(w, i) \cap row = {}
    <3>1. \A j : j \in 1..k <=> j \in 1..i \/ j = k
      BY <2>1
    <3>2. k \notin 1..i /\ \A j \in 1..w[k] : j \in Nat
      BY <2>2
    <3> HIDE DEF k
    <3> QED
      BY <3>1, <3>2 DEF Cells
  <2> HIDE DEF k, row
  <2>6. IsFiniteSet(Cells(w, k)) /\ Cardinality(Cells(w, k)) = f[i] + w[k]
    <3> DEFINE a == Cells(w, i)
    <3>1. IsFiniteSet(a) /\ Cardinality(a) = f[i] /\ Cells(w, k) = a \cup row /\ a \cap row = {}
      BY <2>3, <2>5
    <3> HIDE DEF a
    <3>2. /\ IsFiniteSet(a \cup row)
          /\ Cardinality(a \cup row) = Cardinality(a) + Cardinality(row) - Cardinality(a \cap row)
      BY <2>4, <3>1, FS_Union
    <3>3. Cardinality(a \cap row) = 0
      BY <3>1, FS_EmptySet
    <3> QED
      BY <2>2, <2>4, <3>1, <3>2, <3>3
  <2> QED
    BY <2>2, <2>6 DEF k
<1>4. Nat \subseteq Q
  <2> HIDE DEF Q
  <2> QED
    BY <1>2, <1>3, Induction
<1> QED
  BY <1>1, <1>4 DEF Total, f, n

OneToOne(phi, m, n) ==
  /\ phi \in [1..m -> 1..n]
  /\ \A i, j \in 1..m : phi[i] = phi[j] => i = j

\* A sum of which each term is at most a term of another, and not two the same.
LEMMA SumsCompare ==
  ASSUME NEW v \in Seq(Nat), NEW w \in Seq(Nat), NEW phi, OneToOne(phi, Len(v), Len(w)),
         \A i \in 1..Len(v) : v[i] <= w[phi[i]]
  PROVE  /\ Total(v) <= Total(w)
         /\ Len(v) = Len(w) /\ (\A i \in 1..Len(v) : v[i] = w[phi[i]]) => Total(v) = Total(w)
<1> DEFINE m == Len(v)
           n == Len(w)
           A == Cells(v, m)
           B == Cells(w, n)
           psi == [p \in A |-> <<phi[p[1]], p[2]>>]
<1>1. /\ m \in Nat /\ n \in Nat
      /\ \A i \in 1..m : v[i] \in Nat
      /\ \A i \in 1..n : w[i] \in Nat
  OBVIOUS
<1>2. /\ phi \in [1..m -> 1..n]
      /\ \A i, j \in 1..m : phi[i] = phi[j] => i = j
  BY DEF OneToOne
<1>3. /\ IsFiniteSet(A) /\ Cardinality(A) = Total(v)
      /\ IsFiniteSet(B) /\ Cardinality(B) = Total(w)
  BY SumCounts
<1>4. Total(v) \in Nat /\ Total(w) \in Nat
  BY Summing
<1>5. /\ \A i, j : <<i, j>> \in A <=> i \in 1..m /\ j \in 1..v[i] /\ j \in Nat
      /\ \A i, j : <<i, j>> \in B <=> i \in 1..n /\ j \in 1..w[i] /\ j \in Nat
      /\ \A p \in A : p = <<p[1], p[2]>>
      /\ \A p \in B : p = <<p[1], p[2]>>
  <2> HIDE DEF m, n
  <2> QED
    BY DEF Cells
<1> HIDE DEF m, n, A, B
<1>6. ASSUME NEW i, NEW j, <<i, j>> \in A
      PROVE  <<phi[i], j>> \in B
  <2>1. i \in 1..m /\ j \in 1..v[i] /\ j \in Nat
    BY <1>5, <1>6
  <2>2. phi[i] \in 1..n /\ v[i] <= w[phi[i]] /\ v[i] \in Nat /\ w[phi[i]] \in Nat
    BY <1>1, <1>2, <2>1 DEF m
  <2>3. j \in 1..w[phi[i]]
    BY <2>1, <2>2
  <2> QED
    BY <1>5, <2>1, <2>2, <2>3
<1>7. psi \in [A -> B]
  <2>1. ASSUME NEW p \in A PROVE <<phi[p[1]], p[2]>> \in B
    <3>1. <<p[1], p[2]>> \in A
      BY <1>5
    <3> QED
      BY <1>6, <3>1
  <2> QED
    BY <2>1
<1>8. ASSUME NEW p \in A, NEW q \in A, psi[p] = psi[q] PROVE p = q
  <2>1. p = <<p[1], p[2]>> /\ q = <<q[1], q[2]>>
    BY <1>5
  <2>2. p[1] \in 1..m /\ q[1] \in 1..m
    BY <1>5, <2>1
  <2>3. phi[p[1]] = phi[q[1]] /\ p[2] = q[2]
    BY <1>8
  <2>4. p[1] = q[1]
    BY <1>2, <2>2, <2>3
  <2> QED
    BY <2>1, <2>3, <2>4
<1>9. psi \in Injection(A, B)
  <2> HIDE DEF psi
  <2> QED
    BY <1>7, <1>8 DEF Injection, IsInjective
<1>10. /\ Cardinality(A) <= Cardinality(B)
       /\ Cardinality(A) = Cardinality(B) <=> psi \in Surjection(A, B)
  <2> HIDE DEF psi
  <2> QED
    BY <1>3, <1>9, FS_Injection
<1>11. ASSUME m = n, \A i \in 1..m : v[i] = w[phi[i]] PROVE psi \in Surjection(A, B)
  <2>1. \A k \in 1..n : \E i \in 1..m : phi[i] = k
    <3>1. IsFiniteSet(1..n) /\ Cardinality(1..m) = Cardinality(1..n)
      BY <1>1, <1>11, FS_Interval
    <3>2. phi \in Injection(1..m, 1..n)
      BY <1>2 DEF Injection, IsInjective
    <3>3. phi \in Surjection(1..m, 1..n)
      BY <3>1, <3>2, FS_Injection
    <3> QED
      BY <3>3 DEF Surjection
  <2>2. ASSUME NEW q \in B PROVE \E p \in A : psi[p] = q
    <3>1. q = <<q[1], q[2]>> /\ q[1] \in 1..n /\ q[2] \in 1..w[q[1]] /\ q[2] \in Nat
      BY <1>5
    <3>2. PICK i \in 1..m : phi[i] = q[1]
      BY <2>1, <3>1
    <3>3. <<i, q[2]>> \in A
      BY <1>5, <1>11, <3>1, <3>2
    <3>4. psi[<<i, q[2]>>] = q
      BY <3>1, <3>2, <3>3
    <3> QED
      BY <3>3, <3>4
  <2> HIDE DEF psi
  <2> QED
    BY <1>7, <2>2 DEF Surjection
<1> QED
  BY <1>3, <1>4, <1>10, <1>11 DEF m, n

\* Where in a list the values of a map are, each in a place of its own.
Places(p, s, i, map) ==
  /\ p \in [DOMAIN map -> 1..i]
  /\ \A k, l \in DOMAIN map : p[k] = p[l] => k = l
  /\ \A k \in DOMAIN map : s[p[k]] = map[k]

Placed(s, i, map) == \E p : Places(p, s, i, map)

LEMMA AssignKeepsPlaces ==
  ASSUME NEW i \in Nat, NEW s, NEW map, Placed(s, i, map), NEW t, NEW n, NEW c,
         \A j \in 1..i : t[j] = s[j], t[i + 1] = c
  PROVE  Placed(t, i + 1, Assign(map, n, c))
<1> DEFINE same == {k \in DOMAIN map : Equivalent(k, n)}
           key == IF same = {} THEN n ELSE CHOOSE k \in same : TRUE
           new == Assign(map, n, c)
<1>1. new = [k \in DOMAIN map \cup {key} |-> IF k = key THEN c ELSE map[k]]
  BY DEF Assign, Put
<1> HIDE DEF key, new
<1>2. PICK p : Places(p, s, i, map)
  BY DEF Placed
<1> DEFINE q == [k \in DOMAIN new |-> IF k = key THEN i + 1 ELSE p[k]]
<1>3. /\ DOMAIN new = DOMAIN map \cup {key}
      /\ \A k \in DOMAIN new : new[k] = IF k = key THEN c ELSE map[k]
  BY <1>1
<1>4. \A k \in DOMAIN new : k # key => /\ k \in DOMAIN map /\ new[k] = map[k]
                                       /\ p[k] \in 1..i /\ q[k] = p[k] /\ s[p[k]] = map[k]
  BY <1>2, <1>3 DEF Places
<1>5. key \in DOMAIN new /\ new[key] = c /\ q[key] = i + 1
  BY <1>3
<1>6. \A k, l \in DOMAIN map : p[k] = p[l] => k = l
  BY <1>2 DEF Places
<1>7. i + 1 \in 1..(i + 1) /\ i + 1 \notin 1..i /\ \A j \in 1..i : j \in 1..(i + 1)
  OBVIOUS
<1>8. DOMAIN q = DOMAIN new /\ q = [k \in DOMAIN new |-> q[k]]
  OBVIOUS
<1> HIDE DEF q
<1>9. \A k \in DOMAIN new : q[k] \in 1..(i + 1)
  BY <1>4, <1>5, <1>7
<1>10. q \in [DOMAIN new -> 1..(i + 1)]
  BY <1>8, <1>9
<1>11. \A k, l \in DOMAIN new : q[k] = q[l] => k = l
  BY <1>4, <1>5, <1>6, <1>7
<1>12. \A k \in DOMAIN new : t[q[k]] = new[k]
  BY <1>4, <1>5
<1>13. Places(q, t, i + 1, new)
  BY <1>10, <1>11, <1>12 DEF Places
<1> QED
  BY <1>13 DEF Placed, new

\* The keys, one after the other, have places of their own as well.
LEMMA KeyPlaces ==
  ASSUME NEW V, NEW map, MapOf(Seq(Nat), V, map), NEW s, NEW n \in Nat, Placed(s, n, map)
  PROVE  \E phi : /\ OneToOne(phi, Len(Keys(map)), n)
                  /\ \A i \in 1..Len(Keys(map)) : s[phi[i]] = map[Keys(map)[i]]
<1> DEFINE keys == Keys(map)
           m == Len(keys)
<1>1. /\ \A i \in 1..m : keys[i] \in DOMAIN map
      /\ \A i, j \in 1..m : keys[i] = keys[j] => i = j
  BY KeysAreKeys
<1> HIDE DEF keys, m
<1>2. PICK p : Places(p, s, n, map)
  BY DEF Placed
<1> DEFINE phi == [i \in 1..m |-> p[keys[i]]]
<1>3. \A i \in 1..m : p[keys[i]] \in 1..n /\ s[p[keys[i]]] = map[keys[i]]
  BY <1>1, <1>2 DEF Places
<1>4. \A i, j \in 1..m : p[keys[i]] = p[keys[j]] => i = j
  BY <1>1, <1>2 DEF Places
<1>5. OneToOne(phi, m, n) /\ \A i \in 1..m : s[phi[i]] = map[keys[i]]
  BY <1>3, <1>4 DEF OneToOne
<1> QED
  BY <1>5 DEF m, keys

----------------------------------------------------------------------------
(* How much there is in a corpus: by its list and by its map.              *)

Weight(f) == IF Good(f) THEN Len(EntriesOf[f]) ELSE 0

Weights(files) == [i \in 1..Len(files) |-> Weight(files[i])]

Lengths(seqs) == [i \in 1..Len(seqs) |-> Len(seqs[i])]

LEMMA WeightsType ==
  ASSUME NEW files \in Seq(File)
  PROVE  /\ Weights(files) \in Seq(Nat) /\ Len(Weights(files)) = Len(files)
         /\ \A i \in 1..Len(files) : Weights(files)[i] = Weight(files[i])
         /\ \A f \in File : Weight(f) \in Nat
<1>1. \A f \in File : Weight(f) \in Nat
  <2>1. \A f \in File : EntriesOf[f] \in Seq(Seq(Nat))
    BY MultiCorpusAssumption
  <2> QED
    BY <2>1 DEF Weight
<1>2. Len(files) \in Nat /\ \A i \in 1..Len(files) : files[i] \in File
  OBVIOUS
<1>3. Weights(files) \in [1..Len(files) -> Nat]
  BY <1>1, <1>2 DEF Weights
<1>4. Weights(files) \in Seq(Nat) /\ Len(Weights(files)) = Len(files)
  BY <1>2, <1>3, Listed
<1> QED
  BY <1>1, <1>4 DEF Weights

LEMMA LengthsType ==
  ASSUME NEW S, NEW seqs \in Seq(Seq(S))
  PROVE  /\ Lengths(seqs) \in Seq(Nat) /\ Len(Lengths(seqs)) = Len(seqs)
         /\ \A i \in 1..Len(seqs) : Lengths(seqs)[i] = Len(seqs[i])
<1>1. Len(seqs) \in Nat /\ \A i \in 1..Len(seqs) : seqs[i] \in Seq(S)
  OBVIOUS
<1>2. \A i \in 1..Len(seqs) : Len(seqs[i]) \in Nat
  BY <1>1
<1>3. Lengths(seqs) \in [1..Len(seqs) -> Nat]
  BY <1>2 DEF Lengths
<1>4. Lengths(seqs) \in Seq(Nat) /\ Len(Lengths(seqs)) = Len(seqs)
  BY <1>1, <1>3, Listed
<1> QED
  BY <1>4 DEF Lengths

\* The whole is as long as its parts together.
LEMMA FlatLength ==
  ASSUME NEW S, NEW seqs \in Seq(Seq(S))
  PROVE  Len(FlattenSeq(seqs)) = Total(Lengths(seqs))
<1> DEFINE n == Len(seqs)
           f == UpTo(seqs, S)
           w == Lengths(seqs)
           g == [i \in 0..n |-> Len(f[i])]
<1>1. n \in Nat /\ \A i \in 1..n : seqs[i] \in Seq(S)
  OBVIOUS
<1>2. f \in [0..n -> Seq(S)] /\ f[0] = <<>> /\ \A i \in 1..n : f[i] = f[i - 1] \o seqs[i]
  BY Joining
<1>3. w \in Seq(Nat) /\ Len(w) = n /\ \A i \in 1..n : w[i] = Len(seqs[i])
  BY LengthsType
<1> HIDE DEF f, w
<1>4. g[0] = 0
  BY <1>1, <1>2
<1>5. ASSUME NEW i \in 1..n PROVE g[i] = g[i - 1] + w[i]
  <2>1. i \in 0..n /\ i - 1 \in 0..n
    BY <1>1
  <2>2. f[i - 1] \in Seq(S) /\ seqs[i] \in Seq(S) /\ f[i] = f[i - 1] \o seqs[i]
    BY <1>1, <1>2, <2>1
  <2>3. Len(f[i]) = Len(f[i - 1]) + Len(seqs[i])
    BY <2>2
  <2> QED
    BY <1>3, <2>1, <2>3
<1> HIDE DEF g
<1>6. \A i \in 0..n : g[i] = SumTo(w)[i]
  BY <1>3, <1>4, <1>5, SummedAlike
<1>7. n \in 0..n /\ FlattenSeq(seqs) = f[n]
  BY <1>1, FlatIsJoined DEF f, n
<1> QED
  BY <1>3, <1>6, <1>7 DEF g, w, Total

LEMMA PartsAreFiles ==
  ASSUME NEW c \in Record
  PROVE  Parts(c) \in Seq(File)
<1>1. c.file \in File /\ NestedFiles \in Seq(File)
  BY NestedFilesAreFiles DEF Record
<1>2. <<c.file>> \in Seq(File) /\ <<>> \in Seq(File)
  BY <1>1
<1> QED
  BY <1>1, <1>2, Zenon DEF Parts

LEMMA SizeIsTotal ==
  ASSUME NEW c \in Record
  PROVE  SizeOf(c) = Total(Weights(Parts(c)))
<1> DEFINE files == Parts(c)
           n == Len(files)
           w == Weights(files)
           step(g) == [i \in 0..n |-> IF i = 0 THEN 0 ELSE g[i - 1] + Weight(files[i])]
           sum == CHOOSE g : g = step(g)
<1>1. SizeOf(c) = sum[n]
  BY Zenon DEF SizeOf, Weight
<1>2. files \in Seq(File) /\ n \in Nat
  BY PartsAreFiles
<1>3. w \in Seq(Nat) /\ Len(w) = n /\ \A i \in 1..n : w[i] = Weight(files[i])
  BY <1>2, WeightsType
<1> HIDE DEF files, w
<1> DEFINE f == SumTo(w)
<1>4. f \in [0..n -> Nat] /\ f[0] = 0 /\ \A i \in 1..n : f[i] = f[i - 1] + w[i]
  BY <1>3, Summing
<1> HIDE DEF f
<1>5. sum = step(sum)
  <2>1. \A i \in 0..n : i # 0 => i \in 1..n
    BY <1>2
  <2>2. \A i \in 0..n : f[i] = IF i = 0 THEN 0 ELSE f[i - 1] + Weight(files[i])
    BY <1>3, <1>4, <2>1
  <2>3. f = [i \in 0..n |-> f[i]]
    BY <1>4
  <2>4. f = step(f)
    BY <2>2, <2>3
  <2> HIDE DEF step
  <2> QED
    BY <2>4
<1> HIDE DEF sum
<1>6. sum[0] = 0
  BY <1>2, <1>5
<1>7. \A i \in 1..n : sum[i] = sum[i - 1] + w[i]
  <2> TAKE i \in 1..n
  <2>1. i \in 0..n /\ i # 0
    BY <1>2
  <2>2. sum[i] = IF i = 0 THEN 0 ELSE sum[i - 1] + Weight(files[i])
    BY <1>5, <2>1
  <2> QED
    BY <1>3, <2>1, <2>2
<1>8. \A i \in 0..n : sum[i] = SumTo(w)[i]
  BY <1>3, <1>6, <1>7, SummedAlike
<1>9. n \in 0..n
  BY <1>2
<1> QED
  BY <1>1, <1>3, <1>8, <1>9 DEF Total, w, files

NestedCorpora == [i \in 1..Len(NestedFiles) |-> Corpus(NestedFiles[i], FALSE)]

LEMMA NestedPlaces == Placed(NestedCorpora, Len(NestedFiles), NestedMap)
<1> DEFINE files == NestedFiles
           n == Len(files)
           s == NestedCorpora
<1>1. n \in Nat
  BY NestedFilesAreFiles
<1>2. PICK f : /\ f \in [0..n -> Maps(Record)]
               /\ f[0] = NoMap
               /\ \A i \in 1..n : f[i] = NestStep(files, i, f[i - 1])
               /\ NestedMap = f[n]
  BY Nesting
<1>3. \A i \in 1..n : s[i] = Corpus(files[i], FALSE)
  BY DEF NestedCorpora
<1> HIDE DEF n, s, files
<1> DEFINE Q == {i \in Nat : i <= n => Placed(s, i, f[i])}
<1>4. 0 \in Q
  <2>1. DOMAIN NoMap = {}
    BY DEF NoMap
  <2>2. Places(NoMap, s, 0, NoMap)
    <3>1. NoMap \in [{} -> 1..0]
      BY DEF NoMap
    <3> QED
      BY <2>1, <3>1 DEF Places
  <2> QED
    BY <1>2, <2>2 DEF Placed
<1>5. ASSUME NEW i \in Nat, i \in Q PROVE i + 1 \in Q
  <2> SUFFICES ASSUME i + 1 <= n PROVE Placed(s, i + 1, f[i + 1])
    OBVIOUS
  <2>1. i + 1 \in 1..n /\ (i + 1) - 1 = i /\ i <= n
    BY <1>1
  <2>2. f[i + 1] = Assign(f[i], Stem[files[i + 1]], Corpus(files[i + 1], FALSE))
    BY <1>2, <2>1 DEF NestStep
  <2>3. Placed(s, i, f[i]) /\ s[i + 1] = Corpus(files[i + 1], FALSE)
    BY <1>3, <1>5, <2>1
  <2>4. \A j \in 1..i : s[j] = s[j]
    OBVIOUS
  <2>5. Placed(s, i + 1, Assign(f[i], Stem[files[i + 1]], Corpus(files[i + 1], FALSE)))
    BY <2>3, <2>4, AssignKeepsPlaces
  <2> QED
    BY <2>2, <2>5
<1>6. Nat \subseteq Q
  <2> HIDE DEF Q
  <2> QED
    BY <1>4, <1>5, Induction
<1> QED
  BY <1>1, <1>2, <1>6 DEF s, n, files

LEMMA LengthOfFile ==
  ASSUME NEW f \in File, NEW prefix
  PROVE  Len(FileItems(f, prefix)) = Weight(f)
<1>1. EntriesOf[f] \in Seq(Seq(Nat)) /\ Len(EntriesOf[f]) \in Nat
  BY MultiCorpusAssumption
<1> DEFINE n == Len(EntriesOf[f])
           item(i) == [path |-> prefix \o EntriesOf[f][i], file |-> f, entry |-> EntriesOf[f][i]]
<1>2. Items(f, prefix) = [i \in 1..n |-> item(i)]
  BY DEF Items
<1> HIDE DEF item, n
<1>3. n \in Nat
  BY <1>1 DEF n
<1>4. Len(Items(f, prefix)) = n
  BY <1>2, <1>3
<1> QED
  BY <1>4 DEF FileItems, Weight, n

LEMMA SmallTotals ==
  ASSUME NEW x \in Nat
  PROVE  Total(<<>>) = 0 /\ Total(<<x>>) = x
<1>1. <<>> \in Seq(Nat) /\ Len(<<>>) = 0 /\ <<x>> \in Seq(Nat) /\ Len(<<x>>) = 1 /\ <<x>>[1] = x
  OBVIOUS
<1>2. SumTo(<<>>)[0] = 0
  BY <1>1, Summing
<1> DEFINE w == <<x>>
<1>3. SumTo(w)[0] = 0 /\ \A i \in 1..Len(w) : SumTo(w)[i] = SumTo(w)[i - 1] + w[i]
  BY <1>1, Summing
<1>4. w[1] = x /\ Len(w) = 1
  BY <1>1
<1> HIDE DEF w
<1>5. SumTo(w)[1] = SumTo(w)[1 - 1] + w[1] /\ 1 - 1 = 0
  BY <1>3, <1>4
<1>6. SumTo(w)[1] = x
  BY <1>3, <1>4, <1>5
<1> QED
  BY <1>1, <1>2, <1>4, <1>6 DEF Total, w

Single == NoNameTwice(NestedFiles, NestedMap)

\* What the map of a nested reader leaves out is what shares its name with
\* another, and nothing else.
LEMMA NestedCounts ==
  ASSUME NEW prefix \in Seq(Nat)
  PROVE  /\ Len(NestedItems(NestedMap, prefix)) <= Total(Weights(NestedFiles))
         /\ Single => Len(NestedItems(NestedMap, prefix)) = Total(Weights(NestedFiles))
<1> DEFINE map == NestedMap
           files == NestedFiles
           keys == Keys(map)
           n == Len(keys)
           below(i) == prefix \o keys[i] \o <<Slash>>
           part(i) == FileItems(map[keys[i]].file, below(i))
           parts == [i \in 1..n |-> part(i)]
           s == NestedCorpora
           w == Weights(files)
           v == Lengths(parts)
<1>1. NestedItems(map, prefix) = FlattenSeq(parts)
  BY DEF NestedItems
<1>2. MapOf(Seq(Nat), Record, map) /\ files \in Seq(File) /\ Len(files) \in Nat
  BY NestedMapIsMap, NestedFilesAreFiles
<1>3. Placed(s, Len(files), map) /\ \A i \in 1..Len(files) : s[i] = Corpus(files[i], FALSE)
  BY NestedPlaces DEF NestedCorpora
<1>4. w \in Seq(Nat) /\ Len(w) = Len(files) /\ \A i \in 1..Len(files) : w[i] = Weight(files[i])
  BY <1>2, WeightsType
<1> HIDE DEF map, files, s, w
<1>5. /\ keys \in Seq(Seq(Nat)) /\ n \in Nat /\ n = Cardinality(DOMAIN map)
      /\ \A i \in 1..n : keys[i] \in DOMAIN map
  BY <1>2, KeysAreKeys
<1>6. PICK phi : /\ OneToOne(phi, n, Len(files))
                 /\ \A i \in 1..n : s[phi[i]] = map[keys[i]]
  BY <1>2, <1>3, KeyPlaces
<1> HIDE DEF keys, n
<1>7. \A i \in 1..n : below(i) \in Seq(Nat)
  <2> TAKE i \in 1..n
  <2>1. keys[i] \in Seq(Nat) /\ <<Slash>> \in Seq(Nat)
    BY <1>5 DEF n, Slash
  <2>2. prefix \o keys[i] \in Seq(Nat)
    BY <2>1
  <2> QED
    BY <2>1, <2>2
<1> HIDE DEF below
<1>8. \A i \in 1..n : map[keys[i]].file \in File
  BY <1>2, <1>5 DEF MapOf, Record
<1>9. \A i \in 1..n : part(i) \in Seq(Item) /\ Len(part(i)) = Weight(map[keys[i]].file)
  BY <1>7, <1>8, ItemsOfFile, LengthOfFile
<1> HIDE DEF part
<1>10. parts \in [1..n -> Seq(Item)] /\ \A i \in 1..n : parts[i] = part(i)
  BY <1>9
<1> HIDE DEF parts
<1>11. parts \in Seq(Seq(Item)) /\ Len(parts) = n
  BY <1>5, <1>10, Listed
<1>12. v \in Seq(Nat) /\ Len(v) = n /\ \A i \in 1..n : v[i] = Len(parts[i])
  BY <1>11, LengthsType
<1>13. Len(FlattenSeq(parts)) = Total(v)
  BY <1>11, FlatLength
<1> HIDE DEF v
<1>14. \A i \in 1..n : v[i] = w[phi[i]]
  <2> TAKE i \in 1..n
  <2>1. phi[i] \in 1..Len(files)
    BY <1>6 DEF OneToOne
  <2>2. map[keys[i]] = Corpus(files[phi[i]], FALSE)
    BY <1>3, <1>6, <2>1
  <2>3. map[keys[i]].file = files[phi[i]]
    BY <2>2 DEF Corpus
  <2> QED
    BY <1>4, <1>9, <1>10, <1>12, <2>1, <2>3
<1>15. \A i \in 1..Len(v) : v[i] <= w[phi[i]]
  <2> TAKE i \in 1..Len(v)
  <2>1. v[i] \in Nat /\ v[i] = w[phi[i]]
    BY <1>12, <1>14
  <2> QED
    BY <2>1
<1>16. OneToOne(phi, Len(v), Len(w))
  BY <1>4, <1>6, <1>12
<1>17. /\ Total(v) <= Total(w)
       /\ Len(v) = Len(w) => Total(v) = Total(w)
  <2>1. v \in Seq(Nat) /\ w \in Seq(Nat) /\ \A i \in 1..Len(v) : v[i] = w[phi[i]]
    BY <1>4, <1>12, <1>14
  <2> QED
    BY <1>15, <1>16, <2>1, SumsCompare
<1>18. Single => Len(v) = Len(w)
  BY <1>4, <1>5, <1>12 DEF Single, NoNameTwice, map, files
<1> QED
  BY <1>1, <1>13, <1>17, <1>18 DEF map, w, files

\* What it opens is what the list has, each of it when no name came twice.
LEMMA NestedMapParts ==
  /\ {NestedMap[n].file : n \in DOMAIN NestedMap} \subseteq ToSet(NestedFiles)
  /\ Single => {NestedMap[n].file : n \in DOMAIN NestedMap} = ToSet(NestedFiles)
<1> DEFINE map == NestedMap
           files == NestedFiles
           s == NestedCorpora
           m == Len(files)
<1>1. Placed(s, m, map) /\ \A i \in 1..m : s[i].file = files[i]
  BY NestedPlaces DEF NestedCorpora, Corpus
<1>2. m \in Nat /\ files \in Seq(File) /\ DOMAIN files = 1..m /\ IsFiniteSet(DOMAIN map)
  BY NestedFilesAreFiles, NestedMapIsMap DEF MapOf
<1> HIDE DEF map, files, s, m
<1>3. PICK p : Places(p, s, m, map)
  BY <1>1 DEF Placed
<1>4. /\ p \in [DOMAIN map -> 1..m]
      /\ \A k, l \in DOMAIN map : p[k] = p[l] => k = l
      /\ \A k \in DOMAIN map : map[k].file = files[p[k]]
  BY <1>1, <1>3 DEF Places
<1>5. \A k \in DOMAIN map : map[k].file \in ToSet(files)
  BY <1>2, <1>4 DEF ToSet
<1>6. ASSUME Single, NEW f \in ToSet(files) PROVE \E k \in DOMAIN map : map[k].file = f
  <2>1. PICK i \in 1..m : f = files[i]
    BY <1>2 DEF ToSet
  <2>2. p \in Injection(DOMAIN map, 1..m)
    BY <1>4 DEF Injection, IsInjective
  <2>3. IsFiniteSet(1..m) /\ Cardinality(1..m) = m
    BY <1>2, FS_Interval
  <2>4. Cardinality(DOMAIN map) = m
    BY <1>6 DEF Single, NoNameTwice, map, files, m
  <2>5. p \in Surjection(DOMAIN map, 1..m)
    BY <2>2, <2>3, <2>4, FS_Injection
  <2>6. PICK k \in DOMAIN map : p[k] = i
    BY <2>5 DEF Surjection
  <2> QED
    BY <1>4, <2>1, <2>6
<1> QED
  BY <1>5, <1>6 DEF map, files

LEMMA CorpusCounts ==
  ASSUME NEW c \in Record, NEW prefix \in Seq(Nat)
  PROVE  /\ Len(ItemsOf(c, prefix)) \in Nat /\ SizeOf(c) \in Nat
         /\ Len(ItemsOf(c, prefix)) <= SizeOf(c)
         /\ MapParts(c) \subseteq ToSet(Parts(c))
         /\ Single => Len(ItemsOf(c, prefix)) = SizeOf(c) /\ MapParts(c) = ToSet(Parts(c))
<1>1. c.file \in File /\ c.recursive \in BOOLEAN
  BY DEF Record
<1>2. SizeOf(c) = Total(Weights(Parts(c))) /\ Parts(c) \in Seq(File)
  BY SizeIsTotal, PartsAreFiles
<1>3. Weights(Parts(c)) \in Seq(Nat)
  BY <1>2, WeightsType
<1>4. SizeOf(c) \in Nat
  BY <1>2, <1>3, Summing
<1>5. ItemsOf(c, prefix) \in Seq(Item)
  BY ItemsOfCorpus
<1>6. Len(ItemsOf(c, prefix)) \in Nat
  BY <1>5
<1>7. CASE ~c.recursive
  <2>1. /\ ItemsOf(c, prefix) = FileItems(c.file, prefix)
        /\ Parts(c) = <<c.file>> /\ MapParts(c) = {c.file}
    BY <1>7 DEF ItemsOf, Parts, MapParts
  <2>2. Weights(<<c.file>>) = <<Weight(c.file)>>
    BY DEF Weights
  <2>3. Weight(c.file) \in Nat
    BY <1>1, <1>2, WeightsType
  <2>4. SizeOf(c) = Weight(c.file)
    BY <1>2, <2>1, <2>2, <2>3, SmallTotals
  <2>5. Len(ItemsOf(c, prefix)) = Weight(c.file)
    BY <1>1, <2>1, LengthOfFile
  <2>6. ToSet(<<c.file>>) = {c.file}
    BY DEF ToSet
  <2> QED
    BY <1>4, <1>6, <2>1, <2>4, <2>5, <2>6
<1>8. CASE c.recursive /\ Opens(c) = "ok"
  <2>1. /\ ItemsOf(c, prefix) = NestedItems(NestedMap, prefix)
        /\ Parts(c) = NestedFiles
        /\ MapParts(c) = {NestedMap[n].file : n \in DOMAIN NestedMap}
    BY <1>8, Zenon DEF ItemsOf, Parts, MapParts
  <2> QED
    BY <1>2, <1>4, <1>6, <2>1, NestedCounts, NestedMapParts
<1>9. CASE c.recursive /\ Opens(c) # "ok"
  <2>1. ItemsOf(c, prefix) = <<>> /\ Parts(c) = <<>> /\ MapParts(c) = {}
    BY <1>9, Zenon DEF ItemsOf, Parts, MapParts
  <2>2. Weights(<<>>) = <<>> /\ ToSet(<<>>) = {} /\ Len(<<>>) = 0
    BY DEF Weights, ToSet
  <2>3. SizeOf(c) = 0
    BY <1>2, <2>1, <2>2, SmallTotals
  <2> QED
    BY <1>4, <1>6, <2>1, <2>2, <2>3
<1> QED
  BY <1>1, <1>7, <1>8, <1>9

----------------------------------------------------------------------------
(* A size and an iteration, each with as much done as it has come through. *)

ListKeys == Keys(d_corporaMap)

SizePending == [i \in 1..Len(d_corpora) |-> <<<<>>, d_corpora[i]>>]

SizeWeights == [i \in 1..Len(d_corpora) |-> SizeOf(d_corpora[i])]

BadInList == {i \in 1..Len(d_corpora) : Throws(ToSet(Parts(d_corpora[i])))}

MapPending == [i \in 1..Len(ListKeys) |-> <<ListKeys[i], d_corporaMap[ListKeys[i]]>>]

LengthAt(i) == Len(ItemsOf(d_corporaMap[ListKeys[i]], ListKeys[i] \o <<Slash>>))

MapWeights == [i \in 1..Len(ListKeys) |-> LengthAt(i)]

BadInMap == {i \in 1..Len(ListKeys) : Throws(MapParts(d_corporaMap[ListKeys[i]]))}

\* i corpora are behind the call, and none of them was bad.
Come(pending, weights, bad, found, i) ==
  /\ todo = From(pending, i)
  /\ found = SumTo(weights)[i]
  /\ \A j \in 1..i : j \notin bad

Ended(outcome, weights, bad, found) ==
  /\ outcome = "ok" => found = Total(weights) /\ bad = {}
  /\ outcome = "exception" => bad # {}

Filling == {"walk", "push", "failed"}

SizeState == [outcome : {"none", "begun", "ok", "exception"}, result : Nat, at : Nat]

\* What SizeIsEntries needs, beside ListState, to be inductive.
CountState ==
  /\ d_corpora \in Seq(Record)
  /\ Placed(d_corpora, Len(d_corpora), d_corporaMap)
  /\ size \in SizeState
  /\ size.at <= version
  /\ pc \in Filling => size.outcome = "none" /\ listing.outcome = "none"
  /\ pc = "size" =>
       /\ todo \in Seq(Pending) /\ size.outcome = "begun"
       /\ size.at = version =>
            \E i \in 0..Len(d_corpora) :
              Come(SizePending, SizeWeights, BadInList, size.result, i)
  /\ pc = "list" =>
       /\ listing.outcome = "begun"
       /\ listing.at = version =>
            \E i \in 0..Len(ListKeys) :
              Come(MapPending, MapWeights, BadInMap, Len(listing.result), i)
  /\ size.at = version => Ended(size.outcome, SizeWeights, BadInList, size.result)
  /\ listing.at = version => Ended(listing.outcome, MapWeights, BadInMap, Len(listing.result))

\* The corpora, one after the other.
LEMMA SizeLists ==
  ASSUME d_corpora \in Seq(Record)
  PROVE  /\ Len(d_corpora) \in Nat
         /\ \A i \in 1..Len(d_corpora) : d_corpora[i] \in Record
         /\ SizePending \in Seq(Pending) /\ Len(SizePending) = Len(d_corpora)
         /\ \A i \in 1..Len(d_corpora) : SizePending[i] = <<<<>>, d_corpora[i]>>
         /\ SizeWeights \in Seq(Nat) /\ Len(SizeWeights) = Len(d_corpora)
         /\ \A i \in 1..Len(d_corpora) : SizeWeights[i] = SizeOf(d_corpora[i])
<1> DEFINE n == Len(d_corpora)
<1>1. n \in Nat /\ \A i \in 1..n : d_corpora[i] \in Record
  OBVIOUS
<1>2. \A c \in Record : SizeOf(c) \in Nat
  <2>1. <<>> \in Seq(Nat)
    OBVIOUS
  <2> QED
    BY <2>1, CorpusCounts
<1> HIDE DEF n
<1>3. <<>> \in Seq(Nat)
  OBVIOUS
<1>4. SizePending \in [1..n -> Pending] /\ \A i \in 1..n : SizePending[i] = <<<<>>, d_corpora[i]>>
  BY <1>1, <1>3 DEF SizePending, Pending, n
<1>5. SizeWeights \in [1..n -> Nat] /\ \A i \in 1..n : SizeWeights[i] = SizeOf(d_corpora[i])
  BY <1>1, <1>2 DEF SizeWeights, n
<1>6. /\ SizePending \in Seq(Pending) /\ Len(SizePending) = n
      /\ SizeWeights \in Seq(Nat) /\ Len(SizeWeights) = n
  BY <1>1, <1>4, <1>5, Listed
<1> QED
  BY <1>1, <1>4, <1>5, <1>6 DEF n

LEMMA MapLists ==
  ASSUME MapOf(Seq(Nat), Record, d_corporaMap)
  PROVE  /\ Len(ListKeys) \in Nat /\ Len(ListKeys) = Cardinality(DOMAIN d_corporaMap)
         /\ \A i \in 1..Len(ListKeys) :
              /\ ListKeys[i] \in DOMAIN d_corporaMap /\ d_corporaMap[ListKeys[i]] \in Record
              /\ ListKeys[i] \in Seq(Nat) /\ ListKeys[i] \o <<Slash>> \in Seq(Nat)
         /\ MapPending \in Seq(Pending) /\ Len(MapPending) = Len(ListKeys)
         /\ \A i \in 1..Len(ListKeys) :
              MapPending[i] = <<ListKeys[i], d_corporaMap[ListKeys[i]]>>
         /\ MapWeights \in Seq(Nat) /\ Len(MapWeights) = Len(ListKeys)
         /\ \A i \in 1..Len(ListKeys) : MapWeights[i] = LengthAt(i)
<1> DEFINE keys == ListKeys
           n == Len(keys)
<1>1. /\ n \in Nat /\ n = Cardinality(DOMAIN d_corporaMap)
      /\ \A i \in 1..n : keys[i] \in DOMAIN d_corporaMap
  BY KeysAreKeys DEF ListKeys
<1> HIDE DEF keys, n
<1>2. \A i \in 1..n : d_corporaMap[keys[i]] \in Record /\ keys[i] \in Seq(Nat)
  BY <1>1 DEF MapOf
<1>3. \A i \in 1..n : keys[i] \o <<Slash>> \in Seq(Nat)
  BY <1>2 DEF Slash
<1>4. \A i \in 1..n : LengthAt(i) \in Nat
  <2> TAKE i \in 1..n
  <2>1. ItemsOf(d_corporaMap[keys[i]], keys[i] \o <<Slash>>) \in Seq(Item)
    BY <1>2, <1>3, ItemsOfCorpus
  <2> DEFINE s == ItemsOf(d_corporaMap[keys[i]], keys[i] \o <<Slash>>)
  <2>2. LengthAt(i) = Len(s)
    BY DEF LengthAt, keys
  <2> HIDE DEF s
  <2>3. s \in Seq(Item)
    BY <2>1 DEF s
  <2> QED
    BY <2>2, <2>3
<1>5. /\ MapPending \in [1..n -> Pending]
      /\ \A i \in 1..n : MapPending[i] = <<keys[i], d_corporaMap[keys[i]]>>
  <2>1. MapPending = [i \in 1..n |-> <<keys[i], d_corporaMap[keys[i]]>>]
    BY DEF MapPending, keys, n
  <2> QED
    BY <1>2, <2>1 DEF Pending
<1>6. MapWeights \in [1..n -> Nat] /\ \A i \in 1..n : MapWeights[i] = LengthAt(i)
  <2>1. MapWeights = [i \in 1..n |-> LengthAt(i)]
    BY DEF MapWeights, keys, n
  <2> QED
    BY <1>4, <2>1
<1>7. /\ MapPending \in Seq(Pending) /\ Len(MapPending) = n
      /\ MapWeights \in Seq(Nat) /\ Len(MapWeights) = n
  BY <1>1, <1>5, <1>6, Listed
<1> QED
  BY <1>1, <1>2, <1>3, <1>5, <1>6, <1>7 DEF keys, n

LEMMA CountsStay ==
  ASSUME UNCHANGED <<disk, d_corpora, d_corporaMap>>
  PROVE  /\ SizePending' = SizePending /\ SizeWeights' = SizeWeights /\ BadInList' = BadInList
         /\ ListKeys' = ListKeys
         /\ MapPending' = MapPending /\ MapWeights' = MapWeights /\ BadInMap' = BadInMap
         /\ Placed(d_corpora, Len(d_corpora), d_corporaMap)'
              <=> Placed(d_corpora, Len(d_corpora), d_corporaMap)
<1>1. \A f : Good(f)' <=> Good(f)
  BY DEF Good, open
<1>2. NestedFiles' = NestedFiles /\ NestedMap' = NestedMap
  <2>1. \A f : Nested(f)' <=> Nested(f)
    BY DEF Nested
  <2>2. NestedFiles' = NestedFiles
    BY <2>1 DEF NestedFiles
  <2> QED
    BY <2>2 DEF NestedMap
<1>3. \A c : Opens(c)' = Opens(c)
  BY DEF Opens, open
<1>4. \A c : Parts(c)' = Parts(c) /\ MapParts(c)' = MapParts(c)
  BY <1>2, <1>3 DEF Parts, MapParts
<1>5. \A files : Throws(files)' <=> Throws(files)
  BY DEF Throws, open
<1>6. \A c : SizeOf(c)' = SizeOf(c)
  BY <1>1, <1>4 DEF SizeOf
<1>7. \A f, prefix : FileItems(f, prefix)' = FileItems(f, prefix)
  BY <1>1 DEF FileItems
<1>8. \A map, prefix : NestedItems(map, prefix)' = NestedItems(map, prefix)
  BY <1>7 DEF NestedItems
<1>9. \A c, prefix : ItemsOf(c, prefix)' = ItemsOf(c, prefix)
  BY <1>2, <1>3, <1>7, <1>8 DEF ItemsOf
<1>10. ListKeys' = ListKeys
  BY DEF ListKeys
<1>11. \A i : LengthAt(i)' = LengthAt(i)
  BY <1>9, <1>10 DEF LengthAt
<1>12. SizePending' = SizePending /\ SizeWeights' = SizeWeights
  BY <1>6 DEF SizePending, SizeWeights
<1>13. MapPending' = MapPending /\ MapWeights' = MapWeights
  BY <1>10, <1>11 DEF MapPending, MapWeights
<1>14. BadInList' = BadInList
  BY <1>4, <1>5 DEF BadInList
<1>15. BadInMap' = BadInMap
  BY <1>4, <1>5, <1>10 DEF BadInMap
<1> QED
  BY <1>10, <1>12, <1>13, <1>14, <1>15 DEF Placed, Places

\* Each key has a corpus of the list, and no two keys the same one.
LEMMA MapInList ==
  ASSUME ListState, CountState
  PROVE  \E phi :
           /\ OneToOne(phi, Len(ListKeys), Len(d_corpora))
           /\ \A i \in 1..Len(ListKeys) :
                /\ phi[i] \in 1..Len(d_corpora)
                /\ d_corpora[phi[i]] = d_corporaMap[ListKeys[i]]
                /\ MapWeights[i] \in Nat /\ MapWeights[i] <= SizeWeights[phi[i]]
                /\ i \in BadInMap => phi[i] \in BadInList
                /\ Single => /\ MapWeights[i] = SizeWeights[phi[i]]
                             /\ phi[i] \in BadInList => i \in BadInMap
<1> DEFINE m == Len(ListKeys)
           n == Len(d_corpora)
<1>1. MapOf(Seq(Nat), Record, d_corporaMap) /\ d_corpora \in Seq(Record) /\ n \in Nat
      /\ Placed(d_corpora, n, d_corporaMap)
  BY DEF ListState, CountState
<1>2. PICK phi : /\ OneToOne(phi, m, n)
                 /\ \A i \in 1..m : d_corpora[phi[i]] = d_corporaMap[ListKeys[i]]
  <2> HIDE DEF n
  <2> QED
    BY <1>1, KeyPlaces DEF ListKeys
<1>3. ASSUME NEW i \in 1..m
      PROVE  /\ phi[i] \in 1..n
             /\ MapWeights[i] \in Nat /\ MapWeights[i] <= SizeWeights[phi[i]]
             /\ i \in BadInMap => phi[i] \in BadInList
             /\ Single => /\ MapWeights[i] = SizeWeights[phi[i]]
                          /\ phi[i] \in BadInList => i \in BadInMap
  <2> DEFINE c == d_corporaMap[ListKeys[i]]
             prefix == ListKeys[i] \o <<Slash>>
             j == phi[i]
  <2>1. j \in 1..n /\ d_corpora[j] = c
    BY <1>2 DEF OneToOne
  <2>2. c \in Record /\ prefix \in Seq(Nat) /\ MapWeights[i] = Len(ItemsOf(c, prefix))
    BY <1>1, MapLists DEF LengthAt
  <2>3. SizeWeights[j] = SizeOf(c)
    BY <1>1, <2>1, SizeLists
  <2>4. i \in BadInMap <=> Throws(MapParts(c))
    BY DEF BadInMap
  <2>5. j \in BadInList <=> Throws(ToSet(Parts(c)))
    BY <2>1 DEF BadInList
  <2> HIDE DEF c, prefix, j
  <2>6. /\ Len(ItemsOf(c, prefix)) \in Nat /\ Len(ItemsOf(c, prefix)) <= SizeOf(c)
        /\ MapParts(c) \subseteq ToSet(Parts(c))
        /\ Single => Len(ItemsOf(c, prefix)) = SizeOf(c) /\ MapParts(c) = ToSet(Parts(c))
    BY <2>2, CorpusCounts
  <2>7. /\ Throws(MapParts(c)) => Throws(ToSet(Parts(c)))
        /\ Single => (Throws(ToSet(Parts(c))) => Throws(MapParts(c)))
    BY <2>6 DEF Throws
  <2> QED
    BY <2>1, <2>2, <2>3, <2>4, <2>5, <2>6, <2>7 DEF j
<1> QED
  BY <1>2, <1>3

LEMMA CountsAreSize ==
  ASSUME ListState, CountState
  PROVE  SizeIsEntries
<1> SUFFICES ASSUME {size.outcome, listing.outcome} \subseteq {"ok", "exception"},
                    size.at = version, listing.at = version
             PROVE  LET total == size.result
                        found == Len(listing.result)
                        single == /\ NoNameTwice(d_corpora, d_corporaMap)
                                  /\ NoNameTwice(NestedFiles, NestedMap)
                    IN  /\ listing.outcome = "exception" => size.outcome = "exception"
                        /\ size.outcome = "ok" => total >= found
                        /\ single => size.outcome = listing.outcome
                        /\ single /\ size.outcome = "ok" => total = found
  BY DEF SizeIsEntries
<1> DEFINE total == size.result
           found == Len(listing.result)
           once == NoNameTwice(d_corpora, d_corporaMap)
           v == MapWeights
           w == SizeWeights
           m == Len(ListKeys)
           n == Len(d_corpora)
<1>1. /\ size.outcome \in {"ok", "exception"} /\ listing.outcome \in {"ok", "exception"}
      /\ size.outcome = "ok" => total = Total(w) /\ BadInList = {}
      /\ size.outcome = "exception" => BadInList # {}
      /\ listing.outcome = "ok" => found = Total(v) /\ BadInMap = {}
      /\ listing.outcome = "exception" => BadInMap # {}
  BY DEF CountState, Ended
<1>2. /\ v \in Seq(Nat) /\ Len(v) = m /\ m \in Nat /\ m = Cardinality(DOMAIN d_corporaMap)
      /\ w \in Seq(Nat) /\ Len(w) = n /\ n \in Nat
  BY MapLists, SizeLists DEF ListState, CountState
<1>3. PICK phi :
        /\ OneToOne(phi, m, n)
        /\ \A i \in 1..m :
             /\ phi[i] \in 1..n
             /\ v[i] \in Nat /\ v[i] <= w[phi[i]]
             /\ i \in BadInMap => phi[i] \in BadInList
             /\ Single => v[i] = w[phi[i]] /\ (phi[i] \in BadInList => i \in BadInMap)
  BY MapInList
<1>4. BadInMap \subseteq 1..m /\ BadInList \subseteq 1..n
  BY DEF BadInMap, BadInList
<1>5. once => m = n
  BY <1>2 DEF NoNameTwice
<1> HIDE DEF v, w, m, n, once, total, found
<1>6. Total(v) <= Total(w) /\ Total(v) \in Nat /\ Total(w) \in Nat
  <2>1. \A i \in 1..Len(v) : v[i] <= w[phi[i]]
    BY <1>2, <1>3
  <2>2. OneToOne(phi, Len(v), Len(w))
    BY <1>2, <1>3
  <2> QED
    BY <1>2, <2>1, <2>2, SumsCompare, Summing
<1>7. ASSUME once, Single PROVE Total(v) = Total(w)
  <2>1. \A i \in 1..Len(v) : v[i] <= w[phi[i]] /\ v[i] = w[phi[i]]
    BY <1>2, <1>3, <1>7
  <2>2. OneToOne(phi, Len(v), Len(w)) /\ Len(v) = Len(w)
    BY <1>2, <1>3, <1>5, <1>7
  <2> QED
    BY <1>2, <2>1, <2>2, SumsCompare
<1>8. listing.outcome = "exception" => size.outcome = "exception"
  BY <1>1, <1>3, <1>4
<1>9. ASSUME once, Single, BadInList # {} PROVE BadInMap # {}
  <2>1. PICK j \in 1..n : j \in BadInList
    BY <1>4, <1>9
  <2>2. phi \in Injection(1..m, 1..n)
    BY <1>3 DEF OneToOne, Injection, IsInjective
  <2>3. IsFiniteSet(1..n) /\ Cardinality(1..m) = Cardinality(1..n)
    BY <1>2, <1>5, <1>9, FS_Interval
  <2>4. phi \in Surjection(1..m, 1..n)
    BY <2>2, <2>3, FS_Injection
  <2>5. PICK i \in 1..m : phi[i] = j
    BY <2>4 DEF Surjection
  <2> QED
    BY <1>3, <1>9, <2>1, <2>5
<1>10. once /\ Single => size.outcome = listing.outcome
  BY <1>1, <1>8, <1>9
<1>11. size.outcome = "ok" => found <= total
  BY <1>1, <1>6, <1>8
<1>12. once /\ Single /\ size.outcome = "ok" => total = found
  BY <1>1, <1>7, <1>8
<1>13. size.outcome = "ok" => total >= found
  <2>1. size.outcome = "ok" => total \in Nat /\ found \in Nat
    BY <1>1, <1>6, <1>8
  <2> QED
    BY <1>11, <2>1
<1> QED
  BY <1>8, <1>10, <1>12, <1>13 DEF once, total, found, Single

LEMMA CountStateAtStart == Init => CountState
<1> SUFFICES ASSUME Init PROVE CountState
  OBVIOUS
<1>1. /\ version = 0 /\ d_corpora = <<>> /\ d_corporaMap = NoMap /\ pc \in {"ready", "walk"}
      /\ size = [outcome |-> "none", result |-> 0, at |-> 0]
      /\ listing = [outcome |-> "none", result |-> <<>>, at |-> 0]
  BY DEF Init, Call
<1>2. d_corpora \in Seq(Record) /\ Len(d_corpora) = 0
  BY <1>1
<1>3. Places(NoMap, d_corpora, 0, NoMap)
  <2>1. DOMAIN NoMap = {} /\ NoMap \in [{} -> 1..0]
    BY DEF NoMap
  <2> QED
    BY <2>1 DEF Places
<1>4. Placed(d_corpora, Len(d_corpora), d_corporaMap)
  BY <1>1, <1>2, <1>3 DEF Placed
<1>5. size \in SizeState
  BY <1>1 DEF SizeState
<1>6. /\ Ended(size.outcome, SizeWeights, BadInList, size.result)
      /\ Ended(listing.outcome, MapWeights, BadInMap, Len(listing.result))
  BY <1>1 DEF Ended
<1>7. pc # "size" /\ pc # "list" /\ size.at <= version
  BY <1>1
<1>8. size.outcome = "none" /\ listing.outcome = "none"
  BY <1>1
<1> QED
  BY <1>2, <1>4, <1>5, <1>6, <1>7, <1>8 DEF CountState

\* A new corpus: a call that has ended tells nothing of it.
LEMMA PushKeepsCounts ==
  ASSUME ListState, CountState, NEW n, NEW f \in File, NEW rec \in BOOLEAN, push_back(n, f, rec),
         UNCHANGED <<size, listing>>, version' \in Nat, pc' \notin {"size", "list"},
         version' >= version,
         version' = version => pc \in Filling,
         pc' \in Filling => pc \in Filling
  PROVE  CountState'
<1> DEFINE c == Corpus(f, rec)
           s == d_corpora
           n1 == Len(s)
<1>1. c \in Record
  BY DEF Corpus, Record
<1>2. d_corpora' = Append(s, c) /\ d_corporaMap' = Assign(d_corporaMap, n, c)
  BY DEF push_back
<1>3. s \in Seq(Record) /\ Placed(s, n1, d_corporaMap)
  BY DEF CountState
<1> HIDE DEF c, s
<1>4. /\ Append(s, c) \in Seq(Record) /\ n1 \in Nat /\ Len(Append(s, c)) = n1 + 1
      /\ \A j \in 1..n1 : Append(s, c)[j] = s[j]
      /\ Append(s, c)[n1 + 1] = c
  BY <1>1, <1>3
<1> HIDE DEF n1
<1>5. Placed(Append(s, c), n1 + 1, Assign(d_corporaMap, n, c))
  BY <1>3, <1>4, AssignKeepsPlaces
<1>6. d_corpora' \in Seq(Record) /\ Placed(d_corpora', Len(d_corpora'), d_corporaMap')
  BY <1>2, <1>4, <1>5
<1>7. Placed(d_corpora, Len(d_corpora), d_corporaMap)'
  BY <1>6 DEF Placed, Places
<1>8. /\ version \in Nat /\ size \in SizeState /\ size.at <= version /\ size.at \in Nat
      /\ listing.at <= version /\ listing.at \in Nat
  BY DEF ListState, CountState, SizeState, Listing
<1>9. size.at <= version'
  BY <1>8
<1>10. size.at = version' \/ listing.at = version' => pc \in Filling
  BY <1>8
<1>11. pc \in Filling => size.outcome = "none" /\ listing.outcome = "none"
  BY DEF CountState
<1>12. /\ size.at = version' => Ended(size.outcome, SizeWeights, BadInList, size.result)'
       /\ listing.at = version' => Ended(listing.outcome, MapWeights, BadInMap, Len(listing.result))'
  BY <1>10, <1>11 DEF Ended
<1> QED
  BY <1>6, <1>7, <1>8, <1>9, <1>11, <1>12 DEF CountState, SizeState

\* What changes neither the reader nor the disk.
LEMMA OthersKeepCounts ==
  ASSUME ListState, CountState, UNCHANGED <<disk, version, d_corpora, d_corporaMap>>,
         size' \in SizeState, size'.at <= version,
         pc' \in Filling => size'.outcome = "none" /\ listing'.outcome = "none",
         pc' = "size" =>
           /\ todo' \in Seq(Pending) /\ size'.outcome = "begun"
           /\ size'.at = version =>
                \E i \in 0..Len(d_corpora) :
                  /\ todo' = From(SizePending, i)
                  /\ size'.result = SumTo(SizeWeights)[i]
                  /\ \A j \in 1..i : j \notin BadInList,
         pc' = "list" =>
           /\ listing'.outcome = "begun"
           /\ listing'.at = version =>
                \E i \in 0..Len(ListKeys) :
                  /\ todo' = From(MapPending, i)
                  /\ Len(listing'.result) = SumTo(MapWeights)[i]
                  /\ \A j \in 1..i : j \notin BadInMap,
         size'.at = version => Ended(size'.outcome, SizeWeights, BadInList, size'.result),
         listing'.at = version =>
           Ended(listing'.outcome, MapWeights, BadInMap, Len(listing'.result))
  PROVE  CountState'
<1>1. /\ SizePending' = SizePending /\ SizeWeights' = SizeWeights /\ BadInList' = BadInList
      /\ ListKeys' = ListKeys
      /\ MapPending' = MapPending /\ MapWeights' = MapWeights /\ BadInMap' = BadInMap
      /\ Placed(d_corpora, Len(d_corpora), d_corporaMap)'
           <=> Placed(d_corpora, Len(d_corpora), d_corporaMap)
  BY CountsStay
<1>2. d_corpora \in Seq(Record) /\ Placed(d_corpora, Len(d_corpora), d_corporaMap)
  BY DEF CountState
<1>3. size'.at = version => Ended(size.outcome, SizeWeights, BadInList, size.result)'
  BY <1>1 DEF Ended
<1>4. listing'.at = version =>
        Ended(listing.outcome, MapWeights, BadInMap, Len(listing.result))'
  BY <1>1 DEF Ended
<1>5. pc' = "size" /\ size'.at = version =>
        (\E i \in 0..Len(d_corpora) :
           Come(SizePending, SizeWeights, BadInList, size.result, i))'
  BY <1>1 DEF Come
<1>6. pc' = "list" /\ listing'.at = version =>
        (\E i \in 0..Len(ListKeys) :
           Come(MapPending, MapWeights, BadInMap, Len(listing.result), i))'
  BY <1>1 DEF Come
<1> QED
  BY <1>1, <1>2, <1>3, <1>4, <1>5, <1>6 DEF CountState, SizeState

LEMMA WalkKeepsCounts ==
  ASSUME ListState, CountState, Walk \/ WalkPush \/ WalkEnd
  PROVE  CountState'
<1>1. /\ version \in Nat /\ walk \in Seq(File)
      /\ size \in SizeState /\ size.at <= version
      /\ size.outcome = "none" /\ listing.outcome = "none"
  BY DEF ListState, CountState, SizeState, Filling, Walk, WalkPush, WalkEnd
<1>2. /\ UNCHANGED <<disk, version, size, listing, todo>>
      /\ pc' \notin {"size", "list"} /\ pc \in Filling
  BY DEF Walk, WalkPush, WalkEnd, Idle, Filling
<1>3. /\ Ended(size'.outcome, SizeWeights, BadInList, size'.result)
      /\ Ended(listing'.outcome, MapWeights, BadInMap, Len(listing'.result))
  BY <1>1, <1>2 DEF Ended
<1>4. ASSUME UNCHANGED <<d_corpora, d_corporaMap>> PROVE CountState'
  BY <1>1, <1>2, <1>3, <1>4, OthersKeepCounts
<1>5. CASE Walk
  BY <1>4, <1>5 DEF Walk
<1>6. CASE WalkPush
  <2>1. CASE disk[Head(walk)] # "absent"
    <3>1. push_back(Stem[Head(walk)], Head(walk), FALSE)
      BY <1>6, <2>1 DEF WalkPush
    <3>2. Head(walk) \in File
      <4>1. walk # <<>>
        BY <1>6 DEF WalkPush, ListState
      <4> QED
        BY <1>1, <4>1
    <3>3. version' \in Nat /\ version' >= version
      BY <1>1, <1>2
    <3> QED
      BY <1>2, <3>1, <3>2, <3>3, PushKeepsCounts
  <2>2. CASE disk[Head(walk)] = "absent"
    BY <1>4, <1>6, <2>2 DEF WalkPush
  <2> QED
    BY <2>1, <2>2
<1>7. CASE WalkEnd
  BY <1>4, <1>7 DEF WalkEnd, reader
<1> QED
  BY <1>5, <1>6, <1>7

LEMMA BeginKeepsCounts ==
  ASSUME ListState, CountState, getSize \/ getEntries
  PROVE  CountState'
<1>1. /\ version \in Nat /\ MapOf(Seq(Nat), Record, d_corporaMap) /\ d_corpora \in Seq(Record)
      /\ size \in SizeState /\ size.at <= version
      /\ size.at = version => Ended(size.outcome, SizeWeights, BadInList, size.result)
      /\ listing.at = version => Ended(listing.outcome, MapWeights, BadInMap, Len(listing.result))
  BY DEF ListState, CountState, SizeState
<1>2. UNCHANGED <<disk, version, d_corpora, d_corporaMap>>
  BY DEF getSize, getEntries, Begin, reader
<1>3. CASE getSize
  <2>1. /\ pc' = "size" /\ todo' = SizePending /\ UNCHANGED listing
        /\ size' = [outcome |-> "begun", result |-> 0, at |-> version]
    BY <1>3 DEF getSize, Begin, Call, SizePending
  <2>2. size' \in SizeState /\ size'.at <= version /\ size'.outcome = "begun" /\ size'.result = 0
    BY <1>1, <2>1 DEF SizeState
  <2>3. /\ todo' \in Seq(Pending) /\ todo' = From(SizePending, 0)
        /\ size'.result = SumTo(SizeWeights)[0]
        /\ 0 \in 0..Len(d_corpora)
    <3>1. SizePending \in Seq(Pending) /\ SizeWeights \in Seq(Nat) /\ Len(d_corpora) \in Nat
      BY <1>1, SizeLists
    <3>2. 0 \in 0..Len(SizePending)
      BY <3>1
    <3>3. From(SizePending, 0) = SizePending
      BY <3>1, <3>2, Rest
    <3>4. SumTo(SizeWeights)[0] = 0
      BY <3>1, Summing
    <3> QED
      BY <2>1, <2>2, <3>1, <3>3, <3>4
  <2>4. \E i \in 0..Len(d_corpora) :
          /\ todo' = From(SizePending, i)
          /\ size'.result = SumTo(SizeWeights)[i]
          /\ \A j \in 1..i : j \notin BadInList
    <3>1. \A j \in 1..0 : j \notin BadInList
      OBVIOUS
    <3> QED
      BY <2>3, <3>1
  <2>5. Ended(size'.outcome, SizeWeights, BadInList, size'.result)
    BY <2>2 DEF Ended
  <2>6. /\ listing' = listing /\ pc' # "list" /\ pc' \notin Filling
        /\ listing'.at = version =>
             Ended(listing'.outcome, MapWeights, BadInMap, Len(listing'.result))
    BY <1>1, <2>1 DEF Filling
  <2> QED
    BY <1>2, <2>2, <2>3, <2>4, <2>5, <2>6, OthersKeepCounts
<1>4. CASE getEntries
  <2>1. /\ pc' = "list" /\ todo' = MapPending /\ UNCHANGED size
        /\ listing' = [outcome |-> "begun", result |-> <<>>, at |-> version]
    BY <1>4 DEF getEntries, Begin, Call, MapPending, ListKeys
  <2>2. listing'.outcome = "begun" /\ listing'.result = <<>> /\ Len(listing'.result) = 0
    BY <2>1
  <2>3. /\ todo' = From(MapPending, 0)
        /\ Len(listing'.result) = SumTo(MapWeights)[0]
        /\ 0 \in 0..Len(ListKeys)
    <3>1. MapPending \in Seq(Pending) /\ MapWeights \in Seq(Nat) /\ Len(ListKeys) \in Nat
      BY <1>1, MapLists
    <3>2. 0 \in 0..Len(MapPending)
      BY <3>1
    <3>3. From(MapPending, 0) = MapPending
      BY <3>1, <3>2, Rest
    <3>4. SumTo(MapWeights)[0] = 0
      BY <3>1, Summing
    <3> QED
      BY <2>1, <2>2, <3>1, <3>3, <3>4
  <2>4. \E i \in 0..Len(ListKeys) :
          /\ todo' = From(MapPending, i)
          /\ Len(listing'.result) = SumTo(MapWeights)[i]
          /\ \A j \in 1..i : j \notin BadInMap
    <3>1. \A j \in 1..0 : j \notin BadInMap
      OBVIOUS
    <3> QED
      BY <2>3, <3>1
  <2>5. Ended(listing'.outcome, MapWeights, BadInMap, Len(listing'.result))
    BY <2>2 DEF Ended
  <2>6. /\ size' = size /\ pc' # "size" /\ pc' \notin Filling
        /\ size' \in SizeState /\ size'.at <= version
        /\ size'.at = version => Ended(size'.outcome, SizeWeights, BadInList, size'.result)
    BY <1>1, <2>1 DEF Filling
  <2> QED
    BY <1>2, <2>2, <2>4, <2>5, <2>6, OthersKeepCounts
<1> QED
  BY <1>3, <1>4

\* One more of a list is behind the call.
LEMMA OneMore ==
  ASSUME NEW S, NEW pending \in Seq(S), NEW weights \in Seq(Nat), Len(weights) = Len(pending),
         NEW i \in 0..Len(pending), todo = From(pending, i), todo # <<>>
  PROVE  /\ i + 1 \in 1..Len(pending) /\ i + 1 \in 0..Len(pending)
         /\ Head(todo) = pending[i + 1] /\ Tail(todo) = From(pending, i + 1)
         /\ SumTo(weights)[i + 1] = SumTo(weights)[i] + weights[i + 1]
<1>1. Len(pending) \in Nat /\ i # Len(pending)
  BY Rest
<1>2. i < Len(pending) /\ i + 1 \in 1..Len(pending) /\ i + 1 \in 0..Len(pending) /\ (i + 1) - 1 = i
  BY <1>1
<1>3. Head(todo) = pending[i + 1] /\ Tail(todo) = From(pending, i + 1)
  <2> DEFINE AtK(k) == k < Len(pending) => /\ Head(From(pending, k)) = pending[k + 1]
                                           /\ Tail(From(pending, k)) = From(pending, k + 1)
  <2>1. \A k \in 0..Len(pending) : AtK(k)
    BY Rest, ZenonT(60)
  <2> HIDE DEF AtK
  <2>2. AtK(i)
    BY <2>1
  <2> QED
    BY <1>2, <2>2 DEF AtK
<1>4. SumTo(weights)[i + 1] = SumTo(weights)[(i + 1) - 1] + weights[i + 1]
  BY <1>2, Summing
<1> QED
  BY <1>2, <1>3, <1>4

LEMMA SizeNextKeepsCounts ==
  ASSUME ListState, CountState, SizeNext
  PROVE  CountState'
<1> DEFINE c == Head(todo)[2]
           n == Len(d_corpora)
<1>1. /\ pc = "size" /\ todo # <<>> /\ UNCHANGED <<disk, version, d_corpora, d_corporaMap, listing>>
  BY DEF SizeNext, reader
<1>2. /\ d_corpora \in Seq(Record) /\ size \in SizeState /\ size.at <= version
      /\ size.outcome = "begun"
      /\ listing.at = version => Ended(listing.outcome, MapWeights, BadInMap, Len(listing.result))
  BY <1>1 DEF CountState, SizeState
<1>3. /\ n \in Nat /\ SizePending \in Seq(Pending) /\ Len(SizePending) = n
      /\ SizeWeights \in Seq(Nat) /\ Len(SizeWeights) = n
  BY <1>2, SizeLists
<1>4. ASSUME size.at = version
      PROVE  \E i \in 0..n :
               /\ size.result = SumTo(SizeWeights)[i]
               /\ \A j \in 1..i : j \notin BadInList
               /\ i + 1 \in 1..n /\ i + 1 \in 0..n
               /\ c = d_corpora[i + 1] /\ Tail(todo) = From(SizePending, i + 1)
               /\ SumTo(SizeWeights)[i + 1] = SumTo(SizeWeights)[i] + SizeOf(c)
  <2>1. PICK i \in 0..n : Come(SizePending, SizeWeights, BadInList, size.result, i)
    BY <1>1, <1>4 DEF CountState
  <2>2. todo = From(SizePending, i) /\ i \in 0..Len(SizePending)
    BY <1>3, <2>1 DEF Come
  <2>3. /\ i + 1 \in 1..n /\ i + 1 \in 0..n
        /\ Head(todo) = SizePending[i + 1] /\ Tail(todo) = From(SizePending, i + 1)
        /\ SumTo(SizeWeights)[i + 1] = SumTo(SizeWeights)[i] + SizeWeights[i + 1]
    <3> HIDE DEF n
    <3> QED
      BY <1>1, <1>3, <2>1, <2>2, OneMore, SMTT(30)
  <2>4. SizePending[i + 1] = <<<<>>, d_corpora[i + 1]>> /\ SizeWeights[i + 1] = SizeOf(d_corpora[i + 1])
    BY <1>2, <2>3, SizeLists
  <2>5. c = d_corpora[i + 1]
    BY <2>3, <2>4
  <2> HIDE DEF c, n
  <2> QED
    BY <2>1, <2>3, <2>4, <2>5 DEF Come
<1> HIDE DEF n
<1>5. CASE Throws(ToSet(Parts(c)))
  <2>1. /\ pc' = "ready" /\ size' = [size EXCEPT !.outcome = "exception"]
    BY <1>5 DEF SizeNext
  <2>2. /\ size' \in SizeState /\ size'.at = size.at /\ size'.outcome = "exception"
        /\ pc' # "size" /\ pc' # "list" /\ pc' \notin Filling
    BY <1>2, <2>1 DEF SizeState, Filling
  <2>3. size.at = version => BadInList # {}
    <3> SUFFICES ASSUME size.at = version PROVE BadInList # {}
      OBVIOUS
    <3>1. PICK i \in 0..n : i + 1 \in 1..n /\ c = d_corpora[i + 1]
      BY <1>4
    <3> HIDE DEF c
    <3>2. i + 1 \in BadInList
      BY <1>5, <3>1 DEF BadInList, n
    <3> QED
      BY <3>2
  <2>4. size'.at = version => Ended(size'.outcome, SizeWeights, BadInList, size'.result)
    BY <2>2, <2>3 DEF Ended
  <2> QED
    BY <1>1, <1>2, <2>2, <2>4, OthersKeepCounts
<1>6. CASE ~Throws(ToSet(Parts(c)))
  <2>1. /\ pc' = "size" /\ size' = [size EXCEPT !.result = @ + SizeOf(c)] /\ todo' = Tail(todo)
    BY <1>1, <1>6 DEF SizeNext
  <2>2. Tail(todo) \in Seq(Pending) /\ SizeOf(c) \in Nat
    <3>1. Head(todo) \in Pending /\ Tail(todo) \in Seq(Pending)
      <4>1. todo \in Seq(Pending)
        BY <1>1 DEF CountState
      <4> QED
        BY <1>1, <4>1
    <3>2. c \in Record /\ <<>> \in Seq(Nat)
      BY <3>1 DEF Pending
    <3> QED
      BY <3>1, <3>2, CorpusCounts
  <2> HIDE DEF c
  <2>3. /\ size' \in SizeState /\ size'.at = size.at /\ size'.outcome = "begun"
        /\ size'.result = size.result + SizeOf(c)
    BY <1>2, <2>1, <2>2 DEF SizeState
  <2>4. ASSUME size.at = version
        PROVE  \E i \in 0..n :
                 /\ todo' = From(SizePending, i)
                 /\ size'.result = SumTo(SizeWeights)[i]
                 /\ \A j \in 1..i : j \notin BadInList
    <3>1. PICK i \in 0..n :
            /\ size.result = SumTo(SizeWeights)[i]
            /\ \A j \in 1..i : j \notin BadInList
            /\ i + 1 \in 1..n /\ i + 1 \in 0..n
            /\ c = d_corpora[i + 1] /\ Tail(todo) = From(SizePending, i + 1)
            /\ SumTo(SizeWeights)[i + 1] = SumTo(SizeWeights)[i] + SizeOf(c)
      BY <1>4, <2>4
    <3>2. i + 1 \notin BadInList
      BY <1>6, <3>1 DEF BadInList
    <3>3. \A j \in 1..(i + 1) : j \in 1..i \/ j = i + 1
      BY <1>3
    <3>4. todo' = From(SizePending, i + 1) /\ size'.result = SumTo(SizeWeights)[i + 1]
      BY <2>1, <2>3, <3>1
    <3>5. \A j \in 1..(i + 1) : j \notin BadInList
      BY <3>1, <3>2, <3>3
    <3> QED
      BY <3>1, <3>4, <3>5
  <2>5. Ended(size'.outcome, SizeWeights, BadInList, size'.result)
    BY <2>3 DEF Ended
  <2>6. pc' \notin Filling /\ pc' # "list" /\ todo' \in Seq(Pending) /\ size'.at <= version
    BY <1>2, <2>1, <2>2, <2>3 DEF Filling
  <2>7. size'.at = version =>
          \E i \in 0..Len(d_corpora) :
            /\ todo' = From(SizePending, i)
            /\ size'.result = SumTo(SizeWeights)[i]
            /\ \A j \in 1..i : j \notin BadInList
    BY <2>3, <2>4 DEF n
  <2> QED
    BY <1>1, <1>2, <2>3, <2>5, <2>6, <2>7, OthersKeepCounts
<1> QED
  BY <1>5, <1>6

LEMMA ListNextKeepsCounts ==
  ASSUME ListState, CountState, ListNext
  PROVE  CountState'
<1> DEFINE k == Head(todo)[1]
           c == Head(todo)[2]
           more == ItemsOf(c, k \o <<Slash>>)
           n == Len(ListKeys)
<1>1. /\ pc = "list" /\ todo # <<>> /\ UNCHANGED <<disk, version, d_corpora, d_corporaMap, size>>
  BY DEF ListNext, reader
<1>2. /\ MapOf(Seq(Nat), Record, d_corporaMap)
      /\ listing \in Listing /\ listing.at <= version /\ listing.outcome = "begun"
      /\ todo \in Seq(Pending)
  BY <1>1 DEF ListState, CountState
<1>3. /\ size \in SizeState /\ size.at <= version
      /\ size.at = version => Ended(size.outcome, SizeWeights, BadInList, size.result)
  BY DEF CountState
<1>4. /\ n \in Nat /\ MapPending \in Seq(Pending) /\ Len(MapPending) = n
      /\ MapWeights \in Seq(Nat) /\ Len(MapWeights) = n
  BY <1>2, MapLists
<1>5. ASSUME listing.at = version
      PROVE  \E i \in 0..n :
               /\ Len(listing.result) = SumTo(MapWeights)[i]
               /\ \A j \in 1..i : j \notin BadInMap
               /\ i + 1 \in 1..n /\ i + 1 \in 0..n
               /\ c = d_corporaMap[ListKeys[i + 1]] /\ Tail(todo) = From(MapPending, i + 1)
               /\ SumTo(MapWeights)[i + 1] = SumTo(MapWeights)[i] + Len(more)
  <2>1. PICK i \in 0..n : Come(MapPending, MapWeights, BadInMap, Len(listing.result), i)
    BY <1>1, <1>5 DEF CountState
  <2>2. todo = From(MapPending, i) /\ i \in 0..Len(MapPending)
    BY <1>4, <2>1 DEF Come
  <2>3. /\ i + 1 \in 1..n /\ i + 1 \in 0..n
        /\ Head(todo) = MapPending[i + 1] /\ Tail(todo) = From(MapPending, i + 1)
        /\ SumTo(MapWeights)[i + 1] = SumTo(MapWeights)[i] + MapWeights[i + 1]
    <3> HIDE DEF n
    <3> QED
      BY <1>1, <1>4, <2>1, <2>2, OneMore
  <2>4. /\ MapPending[i + 1] = <<ListKeys[i + 1], d_corporaMap[ListKeys[i + 1]]>>
        /\ MapWeights[i + 1] = LengthAt(i + 1)
    BY <1>2, <2>3, MapLists
  <2>5. k = ListKeys[i + 1] /\ c = d_corporaMap[ListKeys[i + 1]]
    BY <2>3, <2>4
  <2>6. LengthAt(i + 1) = Len(more)
    <3> HIDE DEF k, c
    <3> QED
      BY <2>5 DEF LengthAt
  <2> HIDE DEF k, c, n, more
  <2> QED
    BY <2>1, <2>3, <2>4, <2>5, <2>6 DEF Come
<1> HIDE DEF n
<1>6. CASE Throws(MapParts(c))
  <2>1. pc' = "ready" /\ listing' = [listing EXCEPT !.outcome = "exception"]
    BY <1>6 DEF ListNext
  <2>2. /\ listing'.at = listing.at /\ listing'.outcome = "exception"
        /\ pc' # "size" /\ pc' # "list" /\ pc' \notin Filling
    BY <1>2, <2>1 DEF Listing, Filling
  <2>3. listing.at = version => BadInMap # {}
    <3> SUFFICES ASSUME listing.at = version PROVE BadInMap # {}
      OBVIOUS
    <3>1. PICK i \in 0..n : i + 1 \in 1..n /\ c = d_corporaMap[ListKeys[i + 1]]
      BY <1>5
    <3> HIDE DEF c
    <3>2. i + 1 \in BadInMap
      BY <1>6, <3>1 DEF BadInMap, n
    <3> QED
      BY <3>2
  <2>4. listing'.at = version =>
          Ended(listing'.outcome, MapWeights, BadInMap, Len(listing'.result))
    BY <2>2, <2>3 DEF Ended
  <2>5. size' \in SizeState /\ size'.at <= version /\ UNCHANGED size
    BY <1>1, <1>3
  <2> QED
    BY <1>1, <1>3, <2>2, <2>4, <2>5, OthersKeepCounts
<1>7. CASE ~Throws(MapParts(c))
  <2>1. /\ pc' = "list" /\ todo' = Tail(todo)
        /\ listing' = [listing EXCEPT !.result = @ \o more]
    BY <1>1, <1>7 DEF ListNext
  <2>2. more \in Seq(Item)
    <3>1. Head(todo) \in Pending
      BY <1>1, <1>2
    <3>2. c \in Record /\ k \o <<Slash>> \in Seq(Nat)
      BY <3>1 DEF Pending, Slash
    <3> QED
      BY <3>2, ItemsOfCorpus
  <2> HIDE DEF c, k, more
  <2>3. /\ listing'.at = listing.at /\ listing'.outcome = "begun"
        /\ Len(listing'.result) = Len(listing.result) + Len(more)
    <3>1. listing.result \in Seq(Item)
      BY <1>2 DEF Listing
    <3>2. Len(listing.result \o more) = Len(listing.result) + Len(more)
      BY <2>2, <3>1
    <3> QED
      BY <1>2, <2>1, <3>2 DEF Listing
  <2>4. ASSUME listing.at = version
        PROVE  \E i \in 0..n :
                 /\ todo' = From(MapPending, i)
                 /\ Len(listing'.result) = SumTo(MapWeights)[i]
                 /\ \A j \in 1..i : j \notin BadInMap
    <3>1. PICK i \in 0..n :
            /\ Len(listing.result) = SumTo(MapWeights)[i]
            /\ \A j \in 1..i : j \notin BadInMap
            /\ i + 1 \in 1..n /\ i + 1 \in 0..n
            /\ c = d_corporaMap[ListKeys[i + 1]] /\ Tail(todo) = From(MapPending, i + 1)
            /\ SumTo(MapWeights)[i + 1] = SumTo(MapWeights)[i] + Len(more)
      BY <1>5, <2>4
    <3>2. i + 1 \notin BadInMap
      BY <1>7, <3>1 DEF BadInMap
    <3>3. \A j \in 1..(i + 1) : j \in 1..i \/ j = i + 1
      BY <1>4
    <3>4. /\ todo' = From(MapPending, i + 1)
          /\ Len(listing'.result) = SumTo(MapWeights)[i + 1]
      BY <2>1, <2>3, <3>1
    <3>5. \A j \in 1..(i + 1) : j \notin BadInMap
      BY <3>1, <3>2, <3>3
    <3> QED
      BY <3>1, <3>4, <3>5
  <2>5. Ended(listing'.outcome, MapWeights, BadInMap, Len(listing'.result))
    BY <2>3 DEF Ended
  <2>6. pc' \notin Filling /\ pc' # "size"
    BY <2>1 DEF Filling
  <2>7. listing'.at = version =>
          \E i \in 0..Len(ListKeys) :
            /\ todo' = From(MapPending, i)
            /\ Len(listing'.result) = SumTo(MapWeights)[i]
            /\ \A j \in 1..i : j \notin BadInMap
    BY <2>3, <2>4 DEF n
  <2>8. size' \in SizeState /\ size'.at <= version /\ UNCHANGED size
    BY <1>1, <1>3
  <2> QED
    BY <1>1, <1>3, <2>3, <2>5, <2>6, <2>7, <2>8, OthersKeepCounts
<1> QED
  BY <1>6, <1>7

\* A call that has come to the end has come through the whole list.
LEMMA ReturnKeepsCounts ==
  ASSUME ListState, CountState, Return
  PROVE  CountState'
<1>1. /\ todo = <<>> /\ pc' = "ready" /\ pc \in {"size", "list"}
      /\ UNCHANGED <<disk, version, d_corpora, d_corporaMap>>
  BY DEF Return, reader
<1>2. /\ pc' # "size" /\ pc' # "list" /\ pc' \notin Filling
  BY <1>1 DEF Filling
<1>3. /\ size \in SizeState /\ size.at <= version /\ listing \in Listing
      /\ d_corpora \in Seq(Record) /\ MapOf(Seq(Nat), Record, d_corporaMap)
      /\ size.at = version => Ended(size.outcome, SizeWeights, BadInList, size.result)
      /\ listing.at = version => Ended(listing.outcome, MapWeights, BadInMap, Len(listing.result))
  BY DEF ListState, CountState
<1>4. CASE pc = "size"
  <2>1. size' = [size EXCEPT !.outcome = "ok"] /\ UNCHANGED listing
    BY <1>4 DEF Return
  <2>2. /\ size' \in SizeState /\ size'.at = size.at /\ size'.outcome = "ok"
        /\ size'.result = size.result
    BY <1>3, <2>1 DEF SizeState
  <2>3. ASSUME size.at = version PROVE size.result = Total(SizeWeights) /\ BadInList = {}
    <3> DEFINE n == Len(d_corpora)
    <3>1. PICK i \in 0..n : Come(SizePending, SizeWeights, BadInList, size.result, i)
      BY <1>4, <2>3 DEF CountState
    <3>2. /\ SizePending \in Seq(Pending) /\ Len(SizePending) = n /\ n \in Nat
          /\ Len(SizeWeights) = n
      BY <1>3, SizeLists
    <3>3. BadInList \subseteq 1..n
      BY DEF BadInList
    <3> HIDE DEF n
    <3>4. i = n
      <4>1. From(SizePending, i) = <<>> /\ i \in 0..Len(SizePending)
        BY <1>1, <3>1, <3>2 DEF Come
      <4> QED
        BY <3>2, <4>1, Rest
    <3> QED
      BY <3>1, <3>2, <3>3, <3>4 DEF Come, Total
  <2>4. size'.at = version => Ended(size'.outcome, SizeWeights, BadInList, size'.result)
    BY <2>2, <2>3 DEF Ended
  <2> QED
    BY <1>1, <1>2, <1>3, <2>1, <2>2, <2>4, OthersKeepCounts
<1>5. CASE pc = "list"
  <2>1. listing' = [listing EXCEPT !.outcome = "ok"] /\ UNCHANGED size
    BY <1>5 DEF Return
  <2>2. /\ listing'.at = listing.at /\ listing'.outcome = "ok"
        /\ listing'.result = listing.result
    BY <1>3, <2>1 DEF Listing
  <2>3. ASSUME listing.at = version
        PROVE  Len(listing.result) = Total(MapWeights) /\ BadInMap = {}
    <3> DEFINE n == Len(ListKeys)
    <3>1. PICK i \in 0..n : Come(MapPending, MapWeights, BadInMap, Len(listing.result), i)
      BY <1>5, <2>3 DEF CountState
    <3>2. /\ MapPending \in Seq(Pending) /\ Len(MapPending) = n /\ n \in Nat
          /\ Len(MapWeights) = n
      BY <1>3, MapLists
    <3>3. BadInMap \subseteq 1..n
      BY DEF BadInMap
    <3> HIDE DEF n
    <3>4. i = n
      <4>1. From(MapPending, i) = <<>> /\ i \in 0..Len(MapPending)
        BY <1>1, <3>1, <3>2 DEF Come
      <4> QED
        BY <3>2, <4>1, Rest
    <3> QED
      BY <3>1, <3>2, <3>3, <3>4 DEF Come, Total
  <2>4. listing'.at = version =>
          Ended(listing'.outcome, MapWeights, BadInMap, Len(listing'.result))
    BY <2>2, <2>3 DEF Ended
  <2>5. size' \in SizeState /\ size'.at <= version
    BY <1>3, <2>1
  <2> QED
    BY <1>1, <1>2, <1>3, <2>1, <2>4, <2>5, OthersKeepCounts
<1> QED
  BY <1>1, <1>4, <1>5

LEMMA CountStateKept == ListState /\ CountState /\ [Next]_vars => CountState'
<1> SUFFICES ASSUME ListState, CountState, [Next]_vars PROVE CountState'
  OBVIOUS
<1>1. /\ version \in Nat /\ size \in SizeState /\ size.at <= version
      /\ listing \in Listing /\ listing.at <= version
      /\ MapOf(Seq(Nat), Record, d_corporaMap)
  BY DEF ListState, CountState
<1>2. ASSUME NEW n \in Name, NEW f \in File, NEW rec \in BOOLEAN, PushBack(n, f, rec)
      PROVE  CountState'
  <2>1. /\ push_back(n, f, rec) /\ version' = version + 1 /\ pc = "ready"
        /\ UNCHANGED <<pc, size, listing>>
    BY <1>2 DEF PushBack, Idle
  <2>2. version' \in Nat /\ version' >= version /\ version' # version
    BY <1>1, <2>1
  <2>3. pc' \notin {"size", "list"} /\ pc' \notin Filling
    BY <2>1 DEF Filling
  <2> QED
    BY <2>1, <2>2, <2>3, PushKeepsCounts
<1>3. CASE Walk \/ WalkPush \/ WalkEnd
  BY <1>3, WalkKeepsCounts
<1>4. CASE getSize \/ getEntries
  BY <1>4, BeginKeepsCounts
<1>5. CASE SizeNext
  BY <1>5, SizeNextKeepsCounts
<1>6. CASE ListNext
  BY <1>6, ListNextKeepsCounts
<1>7. CASE Return
  BY <1>7, ReturnKeepsCounts
<1>8. ASSUME NEW f \in File, NEW kind \in Kind, Change(f, kind) PROVE CountState'
  <2>1. /\ version' = version + 1
        /\ UNCHANGED <<pc, d_corpora, d_corporaMap, todo, size, listing>>
    BY <1>8 DEF Change, reader, Idle
  <2>2. /\ size.at \in Nat /\ size.at <= version' /\ size.at # version'
        /\ listing.at # version'
    BY <1>1, <2>1 DEF Listing, SizeState
  <2>3. Placed(d_corpora, Len(d_corpora), d_corporaMap)'
    BY <2>1 DEF CountState, Placed, Places
  <2>4. /\ d_corpora \in Seq(Record)
        /\ pc \in Filling => size.outcome = "none" /\ listing.outcome = "none"
        /\ pc = "size" => todo \in Seq(Pending) /\ size.outcome = "begun"
        /\ pc = "list" => listing.outcome = "begun"
    BY DEF CountState
  <2> QED
    BY <1>1, <2>1, <2>2, <2>3, <2>4 DEF CountState, SizeState
<1>9. CASE UNCHANGED vars
  <2>1. UNCHANGED <<disk, version, d_corpora, d_corporaMap, pc, todo, size, listing>>
    BY <1>9 DEF vars, reader
  <2>2. /\ pc' \in Filling => size'.outcome = "none" /\ listing'.outcome = "none"
        /\ pc' = "size" => todo' \in Seq(Pending) /\ size'.outcome = "begun"
        /\ pc' = "list" => listing'.outcome = "begun"
        /\ size'.at = version => Ended(size'.outcome, SizeWeights, BadInList, size'.result)
        /\ listing'.at = version =>
             Ended(listing'.outcome, MapWeights, BadInMap, Len(listing'.result))
    BY <2>1 DEF CountState
  <2>3. pc' = "size" /\ size'.at = version =>
          \E i \in 0..Len(d_corpora) :
            /\ todo' = From(SizePending, i)
            /\ size'.result = SumTo(SizeWeights)[i]
            /\ \A j \in 1..i : j \notin BadInList
    BY <2>1 DEF CountState, Come
  <2>4. pc' = "list" /\ listing'.at = version =>
          \E i \in 0..Len(ListKeys) :
            /\ todo' = From(MapPending, i)
            /\ Len(listing'.result) = SumTo(MapWeights)[i]
            /\ \A j \in 1..i : j \notin BadInMap
    BY <2>1 DEF CountState, Come
  <2> QED
    BY <1>1, <2>1, <2>2, <2>3, <2>4, OthersKeepCounts
<1> QED
  BY <1>2, <1>3, <1>4, <1>5, <1>6, <1>7, <1>8, <1>9 DEF Next

\* A size and an iteration that have both ended, with nothing changed since they
\* began, agree: the size is never less than what the iteration named, it is just
\* that where no name was given twice, and where the iteration threw the size
\* threw as well; for any names, files and entries, any number of corpora, and
\* directories of them among them.
THEOREM SizeIsCount == Spec => []SizeIsEntries
<1>1. Init => ListState /\ CountState
  BY ListStateAtStart, CountStateAtStart
<1>2. ListState /\ CountState /\ [Next]_vars => ListState' /\ CountState'
  BY ListStateKept, CountStateKept
<1>3. ListState /\ CountState => SizeIsEntries
  BY CountsAreSize
<1> QED
  BY <1>1, <1>2, <1>3, PTL DEF Spec
=============================================================================
