---------------------------- MODULE MultiCorpus ----------------------------
(***************************************************************************)
(* Several corpora as one: MultiCorpusReader, which a caller fills, and    *)
(* RecursiveCorpusReader, whose constructor fills one with the corpora     *)
(* under a directory.  A corpus is opened anew by every call that needs    *)
(* it, while files come, go and are damaged.                               *)
(*                                                                         *)
(* Names and paths are sequences of character codes (NameOrder).  A file   *)
(* is a corpus or nothing of the kind, by its state on disk; one of them   *)
(* is the directory that recursive readers walk.                           *)
(***************************************************************************)
EXTENDS NameOrder, FiniteSets, TLC

CONSTANTS
  Name,         \* the names a caller gives corpora
  File,         \* files
  Directory,    \* the one that is a directory
  WalkOrder,    \* the files under it, in the order the system lists them
  Stem,         \* the path of each, from the directory on, without extension
  Extension,    \* its extension
  EntriesOf,    \* the names of the entries of each corpus, in its order
  Disks,        \* the states the disk begins in
  Kind,         \* the states a file may change to
  MaxVersion    \* bound: changes of the disk and of the reader

ASSUME MultiCorpusAssumption ==
  /\ Name \subseteq Seq(Nat)
  /\ Stem \in [File -> Seq(Nat)]
  /\ EntriesOf \in [File -> Seq(Seq(Nat))]
  /\ Directory \in File
  /\ WalkOrder \in Seq(File \ {Directory})
  /\ Disks \subseteq [File -> Kind \cup {"directory"}]

Slash == 47

VARIABLES
  disk,          \* what each file is
  version,       \* how often the disk or the reader has changed
  d_corpora,     \* the list
  d_corporaMap,  \* the map
  pc,            \* what is going on: one call at a time
  walk,          \* what the directory iterator has still to come to
  dactOnly,      \* the argument of the recursive reader's constructor
  todo,          \* what the call has still to open
  size, listing  \* how getSize and an iteration went

reader == <<d_corpora, d_corporaMap, walk, dactOnly>>
vars == <<disk, version, pc, todo, size, listing, reader>>

NoMap == [n \in {} |-> Directory]

\* A call: how it ended, what it has found, and the version it began at.
Call(o, r) == [outcome |-> o, result |-> r, at |-> version]

Init ==
  /\ disk \in Disks
  /\ version = 0
  /\ d_corpora = <<>> /\ d_corporaMap = NoMap
  /\ \/ pc = "ready" /\ walk = <<>> /\ dactOnly = TRUE
     \/ pc = "walk" /\ walk = WalkOrder /\ dactOnly \in BOOLEAN
  /\ todo = <<>>
  /\ size = Call("none", 0) /\ listing = Call("none", <<>>)

----------------------------------------------------------------------------
(* Opening: the factory tries each format.                                 *)

\* The formats, in the order they are tried.  A compact corpus whose index has
\* a malformed number is "damaged": that exception is not an OpenError.
open(f) ==
  CASE disk[f] \in {"directory", "compact", "container"} -> "ok"
    [] disk[f] = "damaged" -> "exception"
    [] OTHER -> "OpenError"

Corpus(f, rec) == [file |-> f, recursive |-> rec]

Put(map, n, c) == [k \in DOMAIN map \cup {n} |-> IF k = n THEN c ELSE map[k]]

\* Variant: each name has a corpus of its own.
AssignExactly(map, n, c) == Put(map, n, c)

\* d_corporaMap[name] = ...: an equivalent key that is there keeps its place.
Assign(map, n, c) ==
  LET same == {k \in DOMAIN map : Equivalent(k, n)}
  IN  Put(map, IF same = {} THEN n ELSE CHOOSE k \in same : TRUE, c)

\* The k-th key is the one before which k - 1 others come.
Keys(map) ==
  [k \in 1..Cardinality(DOMAIN map) |->
     CHOOSE n \in DOMAIN map : Cardinality({m \in DOMAIN map : Less(m, n)}) = k - 1]

HasExtension(f, dact) == Extension[f] = "dact" \/ (~dact /\ Extension[f] = "index")

\* What openRecursive finds inside a reader: only .dact files, as by default.
Nested(f) == disk[f] # "absent" /\ HasExtension(f, TRUE)

NestedFiles ==
  FlattenSeq([i \in 1..Len(WalkOrder) |-> IF Nested(WalkOrder[i]) THEN <<WalkOrder[i]>> ELSE <<>>])

NestedMap ==
  LET files == NestedFiles
      map[i \in 0..Len(files)] ==
        IF i = 0 THEN NoMap ELSE Assign(map[i - 1], Stem[files[i]], Corpus(files[i], FALSE))
  IN  map[Len(files)]

Opens(c) ==
  IF ~c.recursive THEN open(c.file)
  ELSE IF c.file = Directory THEN "ok" ELSE "OpenError"

Good(f) == open(f) = "ok"

\* The files in one corpus: a size goes over its list, an iterator over its map.
Parts(c) ==
  IF ~c.recursive THEN <<c.file>>
  ELSE IF Opens(c) = "ok" THEN NestedFiles ELSE <<>>

MapParts(c) ==
  IF ~c.recursive THEN {c.file}
  ELSE IF Opens(c) = "ok" THEN {NestedMap[n].file : n \in DOMAIN NestedMap} ELSE {}

\* Of the exceptions an OpenError alone is caught.
Throws(files) == \E f \in files : open(f) = "exception"

SizeOf(c) ==
  LET files == Parts(c)
      sum[i \in 0..Len(files)] ==
        IF i = 0 THEN 0
        ELSE sum[i - 1] + IF Good(files[i]) THEN Len(EntriesOf[files[i]]) ELSE 0
  IN  sum[Len(files)]

Items(f, prefix) ==
  [i \in 1..Len(EntriesOf[f]) |->
     [path |-> prefix \o EntriesOf[f][i], file |-> f, entry |-> EntriesOf[f][i]]]

FileItems(f, prefix) == IF Good(f) THEN Items(f, prefix) ELSE <<>>

NestedItems(map, prefix) ==
  LET names == Keys(map)
  IN  FlattenSeq([i \in 1..Len(names) |->
                    FileItems(map[names[i]].file, prefix \o names[i] \o <<Slash>>)])

ItemsOf(c, prefix) ==
  CASE ~c.recursive -> FileItems(c.file, prefix)
    [] c.recursive /\ Opens(c) = "ok" -> NestedItems(NestedMap, prefix)
    [] OTHER -> <<>>

----------------------------------------------------------------------------
(* Filling the reader.                                                     *)

Idle == UNCHANGED <<todo, size, listing>>

push_back(n, f, rec) ==
  /\ d_corpora' = Append(d_corpora, Corpus(f, rec))
  /\ d_corporaMap' = Assign(d_corporaMap, n, Corpus(f, rec))

\* The call of the program: a file that is not there is an OpenError.
PushBack(n, f, rec) ==
  /\ pc = "ready" /\ version < MaxVersion
  /\ disk[f] # "absent"
  /\ push_back(n, f, rec)
  /\ version' = version + 1
  /\ UNCHANGED <<disk, pc, walk, dactOnly>> /\ Idle

\* The constructor's loop: the iterator comes to a file that is there.
Walk ==
  /\ pc = "walk" /\ walk # <<>>
  /\ IF disk[Head(walk)] # "absent" /\ HasExtension(Head(walk), dactOnly)
       THEN pc' = "push" /\ UNCHANGED walk
       ELSE walk' = Tail(walk) /\ UNCHANGED pc
  /\ UNCHANGED <<disk, version, d_corpora, d_corporaMap, dactOnly>> /\ Idle

\* push_back asks again whether it exists; the OpenError ends the constructor.
WalkPush ==
  /\ pc = "push"
  /\ LET f == Head(walk)
     IN  IF disk[f] # "absent"
           THEN push_back(Stem[f], f, FALSE) /\ pc' = "walk" /\ walk' = Tail(walk)
           ELSE pc' = "failed" /\ UNCHANGED <<d_corpora, d_corporaMap, walk>>
  /\ UNCHANGED <<disk, version, dactOnly>> /\ Idle

WalkEnd ==
  /\ pc = "walk" /\ walk = <<>>
  /\ pc' = "ready"
  /\ UNCHANGED <<disk, version, reader>> /\ Idle

----------------------------------------------------------------------------
(* getSize goes over the list, an iterator over the map.                   *)

Begin(call, corpora) ==
  /\ pc = "ready"
  /\ pc' = call
  /\ todo' = corpora
  /\ UNCHANGED <<disk, version, reader>>

getSize ==
  /\ size.outcome = "none"
  /\ Begin("size", [i \in 1..Len(d_corpora) |-> <<<<>>, d_corpora[i]>>])
  /\ size' = Call("begun", 0)
  /\ UNCHANGED listing

getEntries ==
  /\ listing.outcome = "none"
  /\ LET keys == Keys(d_corporaMap)
     IN  Begin("list", [i \in 1..Len(keys) |-> <<keys[i], d_corporaMap[keys[i]]>>])
  /\ listing' = Call("begun", <<>>)
  /\ UNCHANGED size

\* One corpus: it is passed over, or ends the call, or adds to the result.
SizeNext ==
  /\ pc = "size" /\ todo # <<>>
  /\ LET c == Head(todo)[2]
     IN  IF Throws(ToSet(Parts(c)))
           THEN size' = [size EXCEPT !.outcome = "exception"] /\ pc' = "ready" /\ todo' = <<>>
           ELSE /\ size' = [size EXCEPT !.result = @ + SizeOf(c)]
                /\ todo' = Tail(todo)
                /\ UNCHANGED pc
  /\ UNCHANGED <<disk, version, listing, reader>>

\* Variant: the first corpus that cannot be opened ends the iteration.
ListUntilBad ==
  /\ pc = "list" /\ todo # <<>>
  /\ LET c == Head(todo)[2]
         n == Head(todo)[1]
     IN  IF Throws(MapParts(c))
           THEN listing' = [listing EXCEPT !.outcome = "exception"] /\ pc' = "ready" /\ todo' = <<>>
           ELSE /\ listing' = [listing EXCEPT !.result = @ \o ItemsOf(c, n \o <<Slash>>)]
                /\ todo' = IF Opens(c) = "ok" THEN Tail(todo) ELSE <<>>
                /\ UNCHANGED pc
  /\ UNCHANGED <<disk, version, size, reader>>

ListNext ==
  /\ pc = "list" /\ todo # <<>>
  /\ LET c == Head(todo)[2]
         n == Head(todo)[1]
     IN  IF Throws(MapParts(c))
           THEN listing' = [listing EXCEPT !.outcome = "exception"] /\ pc' = "ready" /\ todo' = <<>>
           ELSE /\ listing' = [listing EXCEPT !.result = @ \o ItemsOf(c, n \o <<Slash>>)]
                /\ todo' = Tail(todo)
                /\ UNCHANGED pc
  /\ UNCHANGED <<disk, version, size, reader>>

Return ==
  /\ pc \in {"size", "list"} /\ todo = <<>>
  /\ pc' = "ready"
  /\ size' = IF pc = "size" THEN [size EXCEPT !.outcome = "ok"] ELSE size
  /\ listing' = IF pc = "list" THEN [listing EXCEPT !.outcome = "ok"] ELSE listing
  /\ UNCHANGED <<disk, version, todo, reader>>

\* Somebody else's doing.
Change(f, kind) ==
  /\ version < MaxVersion
  /\ f # Directory /\ kind # disk[f]
  /\ disk' = [disk EXCEPT ![f] = kind]
  /\ version' = version + 1
  /\ UNCHANGED <<pc, reader>> /\ Idle

Next ==
  \/ \E n \in Name, f \in File, rec \in BOOLEAN : PushBack(n, f, rec)
  \/ Walk \/ WalkPush \/ WalkEnd
  \/ getSize \/ SizeNext \/ getEntries \/ ListNext \/ Return
  \/ \E f \in File, kind \in Kind : Change(f, kind)

Spec == Init /\ [][Next]_vars

----------------------------------------------------------------------------
(* readEntry: it finds the corpus and the entry by the path alone.         *)

Unread == [path |-> <<>>, file |-> Directory, entry |-> <<>>]

\* Variant: the first name that fits, not the longest.
Shortest(named) == CHOOSE n \in named : \A m \in named : Len(n) <= Len(m)

Longest(named) == CHOOSE n \in named : \A m \in named : Len(m) <= Len(n)

Named(map, path) == {n \in DOMAIN map : IsPrefix(n, path)}

\* Without a name that is a prefix an exception is thrown; with only the empty
\* one no corpus is chosen; and substr throws where the path is just the name.
Known(map, path) ==
  /\ Named(map, path) # {}
  /\ Longest(Named(map, path)) # <<>>
  /\ Len(path) > Len(Longest(Named(map, path)))

corpusFromPath(map, path) == map[Longest(Named(map, path))]

\* What is after the name, and after whatever character follows it.
entryFromPath(map, path) ==
  SubSeq(path, Len(Longest(Named(map, path))) + 2, Len(path))

ReadFile(c, e) ==
  IF Good(c.file) /\ e \in ToSet(EntriesOf[c.file])
    THEN [file |-> c.file, entry |-> e]
    ELSE Unread

ReadCorpus(c, e) ==
  CASE ~c.recursive -> ReadFile(c, e)
    [] c.recursive /\ Opens(c) = "ok" /\ Known(NestedMap, e) ->
         ReadFile(corpusFromPath(NestedMap, e), entryFromPath(NestedMap, e))
    [] OTHER -> Unread

readEntry(path) ==
  IF Known(d_corporaMap, path)
    THEN ReadCorpus(corpusFromPath(d_corporaMap, path), entryFromPath(d_corporaMap, path))
    ELSE Unread

----------------------------------------------------------------------------
\* The keys of the map are never equivalent, and each has a corpus of the list.
MapOfList ==
  /\ \A m, n \in DOMAIN d_corporaMap : m # n => ~Equivalent(m, n)
  /\ \A n \in DOMAIN d_corporaMap : d_corporaMap[n] \in ToSet(d_corpora)

\* No name is empty, and none continues another with a slash.
Unambiguous(names) ==
  \A m, n \in names : m # <<>> /\ (m # n => ~IsPrefix(m \o <<Slash>>, n))

NoNameTwice(corpora, map) == Len(corpora) = Cardinality(DOMAIN map)

\* Each entry an iteration names is found again by its path alone, in the
\* corpus it came from, while nothing has changed: iteration, which joins names,
\* and readEntry, which takes paths apart, agree, through nested readers too.
ReadBack ==
  /\ listing.at = version
  /\ Unambiguous(DOMAIN d_corporaMap) /\ Unambiguous(DOMAIN NestedMap)
  => \A i \in 1..Len(listing.result) :
       LET item == listing.result[i]
       IN  readEntry(item.path) = [file |-> item.file, entry |-> item.entry]

\* The size is the number of entries an iteration yields, whatever corpora do
\* not open, as long as no name was given twice; then it may be larger, never
\* smaller.  Where the iteration throws the size throws as well.
SizeIsEntries ==
  /\ {size.outcome, listing.outcome} \subseteq {"ok", "exception"}
  /\ size.at = version /\ listing.at = version
  => LET total == size.result
         found == Len(listing.result)
         single == /\ NoNameTwice(d_corpora, d_corporaMap)
                   /\ NoNameTwice(NestedFiles, NestedMap)
     IN  /\ listing.outcome = "exception" => size.outcome = "exception"
         /\ size.outcome = "ok" => total >= found
         /\ single => size.outcome = listing.outcome
         /\ single /\ size.outcome = "ok" => total = found
=============================================================================
