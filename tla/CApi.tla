-------------------------------- MODULE CApi --------------------------------
(***************************************************************************)
(* A client of the C interface (src/src/capi.cpp) and of the classes below *)
(* it: it opens iterators over the entries or over the results of a query, *)
(* asks them, takes entries, destroys them, has the size counted; a C++    *)
(* client also copies them.  It has one thread.  Meanwhile files come and  *)
(* go in a directory, also in the middle of a call of has_next.            *)
(*                                                                         *)
(* The client takes an entry only after that iterator said it had one and  *)
(* nothing moved it since, as capi.h asks.  Exceptions end at the          *)
(* interface: has_next answers 0 and next NULL.                            *)
(***************************************************************************)
EXTENDS EntryIterator

CONSTANTS
  Handle,      \* iterators; each is opened once
  Request,     \* what is asked for: the queries, none for the entries, the order, a stylesheet
  MaxChanges   \* bound: files created or removed

ASSUME RequestAssumption ==
  Request \subseteq [parts : Seq(Query), order : {"natural", "numerical"}, styled : BOOLEAN]

VARIABLES
  cells,    \* the sources, each under the handle it was made for
  iter,     \* the iterators: cell, stages, styled
  status,   \* of an iterator: "unused", "open", "destroyed"
  client,   \* what the client knows of each
  size,     \* d_nEntries: the size once it was counted, or NotCounted
  counted,  \* the names there were then
  changes   \* files created or removed

clientVars == <<db, disk, live, cells, iter, status, client, size, counted, changes>>

NotCounted == -1

\* What a client did and saw: the corpus and the query, the names there were when it asked and
\* those that came or went since; what it got, and how much of it when it was
\* copied; what has_next answered last, "asked" before it has; which names an
\* exception hid; whether another moved the cell it shares; whether it got what
\* it was told to be there; the names that went to others, destroyed since.
Asked(r) ==
  [db |-> db, parts |-> r.parts, order |-> r.order, styled |-> r.styled, names |-> disk,
   changed |-> {}, got |-> <<>>, before |-> 0, said |-> "nothing", missed |-> {},
   moved |-> FALSE, kept |-> TRUE, gone |-> {}]

Nothing == [parts |-> <<>>, order |-> "natural", styled |-> FALSE]

Unopened(h) == [cell |-> h, stages |-> <<>>, styled |-> FALSE]

Closed ==
  [kind |-> "list", query |-> NoName, names |-> {}, at |-> Len(Numerical) + 1, nth |-> 1]

InitClient ==
  /\ db \in BOOLEAN
  /\ live \in {FALSE, ~db}
  /\ disk = IF db THEN Regular \cap Xml ELSE Name
  /\ cells = [h \in Handle |-> Closed]
  /\ iter = [h \in Handle |-> Unopened(h)]
  /\ status = [h \in Handle |-> "unused"]
  /\ client = [h \in Handle |-> Asked(Nothing)]
  /\ size = NotCounted
  /\ counted = {}
  /\ changes = 0

\* The client is in no call.
Idle == \A h \in Handle : client[h].said # "asked"

\* entry_iter, query_iter, query_stylesheet_iter.
Open(h, r) ==
  LET q == query(r.parts, r.order)
  IN  /\ status[h] = "unused"
      /\ status' = [status EXCEPT ![h] = "open"]
      /\ cells' = [cells EXCEPT ![h] = q.cell]
      /\ iter' = [iter EXCEPT ![h] = [cell |-> h, stages |-> q.stages, styled |-> r.styled]]
      /\ client' = [client EXCEPT ![h] = Asked(r)]
      /\ UNCHANGED <<db, disk, live, size, counted, changes>>

SameCell(h) == {g \in Handle \ {h} : status[g] = "open" /\ iter[g].cell = iter[h].cell}

\* Where an iterator has come; those that share its cell were moved by that.
Moved(h, stages, cell, record) ==
  /\ iter' = [iter EXCEPT ![h].stages = stages]
  /\ cells' = [cells EXCEPT ![iter[h].cell] = cell]
  /\ client' = [g \in Handle |->
       CASE g = h -> record
         [] g \in SameCell(h) /\ cell # cells[iter[h].cell] ->
              [client[g] EXCEPT !.moved = TRUE, !.said = "nothing"]
         [] OTHER -> client[g]]
  /\ UNCHANGED <<db, disk, live, status, size, counted, changes>>

----------------------------------------------------------------------------
(* has_next                                                                *)

HasNext(h) ==
  /\ status[h] = "open"
  /\ client' = [client EXCEPT ![h].said = "asked"]
  /\ UNCHANGED <<db, disk, live, cells, iter, status, size, counted, changes>>

\* hasNext of the source, at a name of another kind.
PassOver(h) ==
  LET cell == cells[iter[h].cell]
  IN  /\ client[h].said = "asked"
      /\ Reached(iter[h].stages, 0)
      /\ ~isValid(cell)
      /\ Moved(h, iter[h].stages, Advance(cell), client[h])

\* Variant: a document that was found has results.
TakeFound(h, k) ==
  LET stages == iter[h].stages
      cell == cells[iter[h].cell]
      name == EntryAt(stages, cell, k - 1)[1]
      taken == next(stages, cell, k - 1)
  IN  /\ client[h].said = "asked"
      /\ k \in DOMAIN stages
      /\ Reached(stages, k - 1)
      /\ HasEntry(stages, cell, k - 1)
      /\ k = 1 => isValid(cell)
      /\ Moved(h, [taken.stages EXCEPT ![k] = Parsed(@, name)], taken.cell,
               [client[h] EXCEPT !.said = IF k = Len(stages) THEN "more" ELSE @])

\* A stage takes an entry from below.  When that document cannot be read the
\* exception goes up to the client.
Take(h, k) ==
  LET stages == iter[h].stages
      cell == cells[iter[h].cell]
      name == EntryAt(stages, cell, k - 1)[1]
      taken == next(stages, cell, k - 1)
      throws == name # stages[k].file /\ ~Readable(name)
  IN  /\ client[h].said = "asked"
      /\ k \in DOMAIN stages
      /\ Reached(stages, k - 1)
      /\ HasEntry(stages, cell, k - 1)
      /\ k = 1 => isValid(cell)
      /\ Moved(h, [taken.stages EXCEPT ![k] = Parsed(@, name)], taken.cell,
               IF throws THEN [client[h] EXCEPT !.said = "error", !.missed = @ \cup {name}]
                         ELSE client[h])

Answer(h) ==
  LET stages == iter[h].stages
      cell == cells[iter[h].cell]
      more == HasEntry(stages, cell, Len(stages)) /\ (stages = <<>> => isValid(cell))
      end == Reached(stages, 0) /\ AtEnd(cell)
  IN  /\ client[h].said = "asked"
      /\ more \/ end
      /\ client' = [client EXCEPT ![h].said = IF more THEN "more" ELSE "end"]
      /\ UNCHANGED <<db, disk, live, cells, iter, status, size, counted, changes>>

----------------------------------------------------------------------------
\* An entry whose document cannot be transformed is lost.
NextEntry(h) ==
  LET stages == iter[h].stages
      cell == cells[iter[h].cell]
      m == Len(stages)
      r == next(stages, cell, m)
      entry == EntryAt(stages, cell, m)
      given == IF iter[h].styled THEN Transformed(entry[1]) ELSE <<entry>>
      taken == [client[h] EXCEPT !.said = "nothing", !.got = @ \o given,
                                 !.missed = IF given = <<>> THEN @ \cup {entry[1]} ELSE @]
  IN  /\ status[h] = "open"
      /\ client[h].said = "more"
      /\ IF HasEntry(stages, cell, m) THEN Moved(h, r.stages, r.cell, taken)
         ELSE Moved(h, stages, cell, [client[h] EXCEPT !.said = "nothing", !.kept = FALSE])

\* EntryIterator's copy constructor: the copy of a list has a position of its own.
CopyIter(h, g) ==
  LET c == cells[iter[h].cell]
      copied == [client[h] EXCEPT !.before = Len(client[h].got)]
  IN  /\ status[h] = "open"
      /\ status[g] = "unused"
      /\ status' = [status EXCEPT ![g] = "open"]
      /\ cells' = IF Shared(c) THEN cells ELSE [cells EXCEPT ![g] = c]
      /\ iter' = [iter EXCEPT ![g] =
                    IF Shared(c) THEN iter[h] ELSE [iter[h] EXCEPT !.cell = g]]
      /\ client' = [client EXCEPT ![g] = copied, ![h] = copied]
      /\ UNCHANGED <<db, disk, live, size, counted, changes>>

NamesOf(c) == {e[1] : e \in ToSet(c.got)} \cup c.missed

\* Variant: a source ends with the first of those that share it.
DestroySource(h) ==
  /\ status[h] = "open"
  /\ status' = [status EXCEPT ![h] = "destroyed"]
  /\ cells' = [cells EXCEPT ![iter[h].cell] = Closed]
  /\ iter' = [iter EXCEPT ![h] = Unopened(h)]
  /\ client' = [g \in Handle |->
       CASE g = h -> Asked(Nothing)
         [] g \in SameCell(h) -> [client[g] EXCEPT !.gone = @ \cup NamesOf(client[h])]
         [] OTHER -> client[g]]
  /\ UNCHANGED <<db, disk, live, size, counted, changes>>

\* The last of those that share a source ends it.
Destroy(h) ==
  /\ status[h] = "open"
  /\ status' = [status EXCEPT ![h] = "destroyed"]
  /\ iter' = [iter EXCEPT ![h] = Unopened(h)]
  /\ client' = [g \in Handle |->
       CASE g = h -> Asked(Nothing)
         [] g \in SameCell(h) -> [client[g] EXCEPT !.gone = @ \cup NamesOf(client[h])]
         [] OTHER -> client[g]]
  /\ cells' = IF SameCell(h) = {} THEN [cells EXCEPT ![iter[h].cell] = Closed] ELSE cells
  /\ UNCHANGED <<db, disk, live, size, counted, changes>>

\* Variant: of a directory, all the names in it.
SizeOfAll ==
  /\ size = NotCounted
  /\ size' = Cardinality(disk)
  /\ counted' = disk
  /\ UNCHANGED <<db, disk, live, cells, iter, status, client, changes>>

\* alpinocorpus_size: of a directory, the entries of a walk, counted once.
Size ==
  /\ size = NotCounted
  /\ size' = Cardinality(IF db THEN disk ELSE disk \cap Xml)
  /\ counted' = disk
  /\ UNCHANGED <<db, disk, live, cells, iter, status, client, changes>>

\* Somebody creates a file or removes one.
Change(n) ==
  /\ ~db
  /\ changes < MaxChanges
  /\ changes' = changes + 1
  /\ disk' = IF n \in disk THEN disk \ {n} ELSE disk \cup {n}
  /\ client' = [h \in Handle |-> [client[h] EXCEPT !.changed = @ \cup {n}]]
  /\ UNCHANGED <<db, live, cells, iter, status, size, counted>>

ClientStep ==
  \/ /\ Idle
     /\ \/ \E h \in Handle :
             \/ \E r \in Request : Open(h, r)
             \/ HasNext(h) \/ NextEntry(h) \/ Destroy(h)
             \/ \E g \in Handle : CopyIter(h, g)
        \/ Size
  \/ \E h \in Handle :
       \/ PassOver(h) \/ Answer(h)
       \/ \E k \in DOMAIN iter[h].stages : Take(h, k)
  \/ \E n \in Name : Change(n)

ClientSpec == InitClient /\ [][ClientStep]_clientVars

----------------------------------------------------------------------------
\* What was asked for, name by name: the documents each part but the last finds
\* something in, and the results of the last part.
OrderOf(c) == IF c.db \/ c.order = "natural" THEN Natural ELSE Numerical

Found(c, n) ==
  /\ n \in c.names
  /\ c.db \/ n \in Xml
  /\ \A k \in 1..(Len(c.parts) - 1) : Hits[c.parts[k]][n] # <<>>

Of(c, n) ==
  LET contents == IF c.parts = <<>> THEN <<Plain>> ELSE Hits[Last(c.parts)][n]
  IN  IF Found(c, n)
      THEN [k \in DOMAIN contents |-> <<n, IF c.styled THEN Styled ELSE contents[k]>>]
      ELSE <<>>

Promised(c) == FlattenSeq([i \in DOMAIN OrderOf(c) |-> Of(c, OrderOf(c)[i])])

\* Of names that did not come or go meanwhile and that no exception hid.
Unsure(c) == c.changed \cup c.missed

Certain(c, entries) ==
  FlattenSeq([i \in DOMAIN entries |->
    IF entries[i][1] \in Unsure(c) THEN <<>> ELSE <<entries[i]>>])

\* An iterator that nobody else moves gives exactly what was promised, in order,
\* each entry once, whatever comes and goes in between, and however often it was
\* copied: when it says it is at the end nothing is left, though exceptions came
\* in between, each of which hides the document it is about and no other.  And
\* what it said was there can be taken.
ResultsExact ==
  \A h \in Handle :
    LET c == client[h]
    IN  /\ c.kept
        /\ (status[h] = "open" /\ ~c.moved) =>
             /\ IsPrefix(Certain(c, c.got), Certain(c, Promised(c)))
             /\ c.said = "end" => Certain(c, c.got) = Certain(c, Promised(c))

\* Iterators that share a source, being copies of each other, split what was left
\* of it: no entry goes to two of them, and when one says it is at the end each
\* entry went to one, those apart that went to others, destroyed since.
SharedIsSplit ==
  \A h \in Handle :
    LET c == client[h]
        sharers == SameCell(h) \cup {h}
        Since(d) == {d.got[i] : i \in (d.before + 1)..Len(d.got)}
        unsure == c.changed \cup c.gone \cup UNION {client[g].missed : g \in sharers}
        Sure(entries) == {e \in entries : e[1] \notin unsure}
    IN  (status[h] = "open" /\ c.parts = <<>>) =>
          /\ \A g \in SameCell(h) : Since(c) \cap Since(client[g]) = {}
          /\ c.said = "end" =>
               Sure(UNION {ToSet(client[g].got) : g \in sharers}) = Sure(ToSet(Promised(c)))

\* The size and the entries agree, two walks that pass over other names apart:
\* when no name came or went since the size was counted, as many entries are
\* delivered.
SizeAgrees ==
  \A h \in Handle :
    LET c == client[h]
    IN  (/\ status[h] = "open" /\ ~c.moved /\ c.parts = <<>> /\ c.said = "end"
         /\ c.changed = {} /\ c.missed = {} /\ size # NotCounted /\ counted = c.names)
        => Len(c.got) = size
=============================================================================
