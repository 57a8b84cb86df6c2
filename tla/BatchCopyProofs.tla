-------------------------- MODULE BatchCopyProofs --------------------------
(***************************************************************************)
(* The theorems of BatchCopy: for any number of jobs that copy whatever    *)
(* corpora, each entry a job has passed is accounted for once, a copy that *)
(* ends well is complete, and the tool gives no name a second entry.       *)
(***************************************************************************)
EXTENDS BatchCopy, TLAPS

Place == [job : Job \cup {NoJob}, pos : Nat, name : Name]

CopyTypeOK ==
  /\ container \in BOOLEAN
  /\ source \in [Job -> Seq(Item)]
  /\ store \in Seq(Place)
  /\ jpc \in [Job -> {"idle", "hasNext", "read", "write", "ended"}]
  /\ mode \in [Job -> {"none", "tool", "failfirst", "failsafe"}]
  /\ failsafe \in [Job -> BOOLEAN]
  /\ pos \in [Job -> Nat]
  /\ err \in [Job -> SUBSET Nat]
  /\ seen \in [Job -> SUBSET Name]
  /\ outcome \in [Job -> {"none", "done", "batch", "error", "exception"}]

\* What the loop knows at each place.
LoopState(j) ==
  /\ pos[j] <= Len(source[j])
  /\ jpc[j] = "idle" => mode[j] = "none" /\ pos[j] = 0 /\ seen[j] = {}
  /\ jpc[j] # "ended" <=> outcome[j] = "none"
  /\ jpc[j] \in {"read", "write"} =>
       /\ pos[j] > 0
       /\ mode[j] = "tool" => Entry(j).name \notin seen[j]
  /\ jpc[j] = "write" => Entry(j).fault \in {"none", "malformed"}
  /\ outcome[j] = "error" => pos[j] > 0
  /\ outcome[j] = "done" => pos[j] = Len(source[j]) /\ err[j] = {}

\* The tool's set has the names of the entries it has passed, and of those alone
\* that it has written.
SeenIsWritten(j) ==
  mode[j] = "tool" =>
    /\ seen[j] = {source[j][p].name : p \in Passed(j)}
    /\ \A n \in seen[j] : \E i \in Places(j) : store[i].name = n

\* What is neither an Error nor readable ends the copy.
NoneThrew(j) ==
  \A p \in Written(j) \cup err[j] : source[j][p].fault # "exception"

JobInv(j) == LoopState(j) /\ SeenIsWritten(j) /\ NoneThrew(j) /\ Accounted(j)

CopyInv == CopyTypeOK /\ \A j \in Job : JobInv(j)

----------------------------------------------------------------------------
\* A step that leaves a job alone: others may write.
Untouched(j) ==
  /\ source' = source
  /\ jpc'[j] = jpc[j] /\ mode'[j] = mode[j] /\ pos'[j] = pos[j]
  /\ err'[j] = err[j] /\ seen'[j] = seen[j] /\ outcome'[j] = outcome[j]

WrittenBy(k) ==
  \/ store' = store
  \/ \E p \in Nat, n \in Name : store' = Append(store, Stored(k, p, n))

\* Nothing is taken from the store, and what another job adds is not of this one.
LEMMA PlacesOfOthers ==
  ASSUME CopyTypeOK, NEW j \in Job, NEW k \in Job, j # k, WrittenBy(k)
  PROVE  /\ Places(j)' = Places(j)
         /\ Written(j)' = Written(j)
         /\ \A i \in Places(j) : store'[i] = store[i]
<1>1. store \in Seq(Place)
  BY DEF CopyTypeOK
<1>2. CASE store' = store
  BY <1>2 DEF Places, Written
<1>3. CASE store' # store
  <2>1. PICK p \in Nat, n \in Name : store' = Append(store, Stored(k, p, n))
    BY <1>3 DEF WrittenBy
  <2>2. /\ Len(store') = Len(store) + 1
        /\ \A i \in 1..Len(store) : store'[i] = store[i]
        /\ store'[Len(store) + 1].job = k
    BY <1>1, <2>1 DEF Stored
  <2>3. Len(store) \in Nat
    BY <1>1
  <2>4. Places(j)' = Places(j) /\ \A i \in Places(j) : store'[i] = store[i]
    BY <2>2, <2>3 DEF Places
  <2> QED
    BY <2>4 DEF Written
<1> QED
  BY <1>2, <1>3

\* A job keeps its invariant when another takes a step.
LEMMA OthersKeep ==
  ASSUME CopyTypeOK, NEW j \in Job, NEW k \in Job, j # k, JobInv(j),
         Untouched(j), WrittenBy(k)
  PROVE  JobInv(j)'
<1>1. /\ Places(j)' = Places(j)
      /\ Written(j)' = Written(j)
      /\ \A i \in Places(j) : store'[i] = store[i]
  BY PlacesOfOthers
<1>2. Entry(j)' = Entry(j) /\ Repeated(j)' = Repeated(j)
  BY DEF Untouched, Entry, Repeated
<1>3. AtWork(j)' <=> AtWork(j)
  BY <1>2 DEF AtWork, Untouched
<1>4. Passed(j)' = Passed(j)
  BY <1>3 DEF Passed, Untouched
<1>5. LoopState(j)'
  BY <1>2 DEF LoopState, Untouched, JobInv
<1>6. SeenIsWritten(j)'
  BY <1>1, <1>4 DEF SeenIsWritten, Untouched, JobInv
<1>7. Accounted(j)'
  BY <1>1, <1>2, <1>4 DEF Accounted, Untouched, JobInv
<1>8. NoneThrew(j)'
  BY <1>1 DEF NoneThrew, Untouched, JobInv
<1> QED
  BY <1>5, <1>6, <1>7, <1>8 DEF JobInv

----------------------------------------------------------------------------
\* The parts of a job's books that a step without a write leaves alone.
LEMMA BooksKept ==
  ASSUME NEW j \in Job, UNCHANGED <<source, store>>,
         mode'[j] = mode[j], pos'[j] = pos[j]
  PROVE  /\ Places(j)' = Places(j)
         /\ Written(j)' = Written(j)
         /\ Repeated(j)' = Repeated(j)
         /\ Entry(j)' = Entry(j)
<1>1. Places(j)' = Places(j)
  BY DEF Places
<1> QED
  BY <1>1 DEF Written, Repeated, Entry

\* What a job has passed when it is at the head of its loop, or at an entry.
LEMMA PassedAt ==
  ASSUME CopyTypeOK, NEW j \in Job, LoopState(j)
  PROVE  /\ jpc[j] = "hasNext" => Passed(j) = 1..pos[j]
         /\ jpc[j] \in {"read", "write"} => Passed(j) = 1..(pos[j] - 1)
<1>1. pos[j] \in Nat
  BY DEF CopyTypeOK
<1>2. jpc[j] = "hasNext" => ~AtWork(j)
  BY DEF AtWork, LoopState
<1>3. jpc[j] \in {"read", "write"} => AtWork(j)
  BY DEF AtWork
<1> QED
  BY <1>1, <1>2, <1>3 DEF Passed

LEMMA BeginKeeps ==
  ASSUME CopyTypeOK, NEW j \in Job, JobInv(j),
         NEW m \in {"tool", "failfirst", "failsafe"}, Begin(j, m)
  PROVE  JobInv(j)'
<1>1. /\ jpc[j] = "idle" /\ jpc'[j] = "hasNext" /\ mode'[j] = m
      /\ pos[j] = 0 /\ mode[j] = "none" /\ seen[j] = {}
      /\ UNCHANGED <<source, store, pos, err, seen, outcome>>
  BY DEF Begin, CopyTypeOK, JobInv, LoopState
<1>2. Places(j)' = Places(j) /\ Written(j)' = Written(j) /\ Entry(j)' = Entry(j)
  BY <1>1 DEF Places, Written, Entry
<1>3. /\ Repeated(j) = {} /\ Repeated(j)' = {}
      /\ Passed(j) = {} /\ Passed(j)' = {}
  BY <1>1 DEF Repeated, Passed
<1>4. Written(j) = {} /\ err[j] = {}
  BY <1>3 DEF JobInv, Accounted
<1>5. LoopState(j)'
  BY <1>1 DEF LoopState, JobInv
<1>6. SeenIsWritten(j)'
  BY <1>1, <1>3 DEF SeenIsWritten
<1>7. NoneThrew(j)'
  BY <1>1, <1>2, <1>4 DEF NoneThrew
<1>8. Accounted(j)'
  BY <1>1, <1>2, <1>3, <1>4 DEF JobInv, Accounted
<1> QED
  BY <1>5, <1>6, <1>7, <1>8 DEF JobInv

LEMMA EndOfCorpusKeeps ==
  ASSUME CopyTypeOK, NEW j \in Job, JobInv(j), EndOfCorpus(j)
  PROVE  JobInv(j)'
<1>1. /\ jpc[j] = "hasNext" /\ pos[j] = Len(source[j]) /\ jpc'[j] = "ended"
      /\ outcome'[j] = IF err[j] = {} THEN "done" ELSE "batch"
      /\ UNCHANGED <<source, store, mode, pos, err, seen>>
  BY DEF EndOfCorpus, End, CopyTypeOK
<1>2. /\ Places(j)' = Places(j) /\ Written(j)' = Written(j)
      /\ Repeated(j)' = Repeated(j) /\ Entry(j)' = Entry(j)
  BY <1>1, BooksKept
<1>3. Passed(j) = 1..pos[j]
  BY <1>1, PassedAt DEF JobInv
<1>4. ~AtWork(j)'
  BY <1>1 DEF AtWork
<1>5. Passed(j)' = Passed(j)
  BY <1>1, <1>3, <1>4 DEF Passed
<1>6. LoopState(j)'
  BY <1>1, <1>2 DEF LoopState, JobInv, CopyTypeOK
<1> QED
  BY <1>1, <1>2, <1>5, <1>6 DEF JobInv, SeenIsWritten, NoneThrew, Accounted

\* The iterator is past the entry it is at: that one was read, or passed over.
LEMMA IteratorThrowsKeeps ==
  ASSUME CopyTypeOK, NEW j \in Job, JobInv(j), IteratorThrows(j)
  PROVE  JobInv(j)'
<1>1. /\ jpc[j] = "hasNext" /\ jpc'[j] = "ended" /\ outcome'[j] = "exception"
      /\ UNCHANGED <<source, store, mode, pos, err, seen>>
  BY DEF IteratorThrows, End, CopyTypeOK
<1>2. /\ Places(j)' = Places(j) /\ Written(j)' = Written(j)
      /\ Repeated(j)' = Repeated(j) /\ Entry(j)' = Entry(j)
  BY <1>1, BooksKept
<1>3. Passed(j) = 1..pos[j]
  BY <1>1, PassedAt DEF JobInv
<1>4. pos[j] > 0 /\ pos[j] \notin Repeated(j) => Entry(j).fault # "exception"
  <2> SUFFICES ASSUME pos[j] > 0, pos[j] \notin Repeated(j)
               PROVE  Entry(j).fault # "exception"
    OBVIOUS
  <2>1. pos[j] \in Passed(j)
    BY <1>3 DEF CopyTypeOK
  <2>2. pos[j] \in Written(j) \cup err[j]
    BY <2>1 DEF JobInv, Accounted
  <2> QED
    BY <2>2 DEF JobInv, NoneThrew, Entry
<1>5. ~AtWork(j)'
  BY <1>1, <1>2, <1>4 DEF AtWork
<1>6. Passed(j)' = Passed(j)
  BY <1>1, <1>3, <1>5 DEF Passed
<1>7. LoopState(j)'
  BY <1>1, <1>2 DEF LoopState, JobInv
<1> QED
  BY <1>1, <1>2, <1>6, <1>7 DEF JobInv, SeenIsWritten, NoneThrew, Accounted

\* The next entry is passed over, if its name is in the tool's set, or is now the
\* one the job is at.
LEMMA NextKeeps ==
  ASSUME CopyTypeOK, NEW j \in Job, JobInv(j), Next(j)
  PROVE  JobInv(j)'
<1> DEFINE p == pos[j] + 1
           skips == mode[j] = "tool" /\ source[j][p].name \in seen[j]
<1>1. /\ jpc[j] = "hasNext" /\ pos[j] \in Nat /\ pos[j] < Len(source[j])
      /\ pos'[j] = p /\ outcome[j] = "none"
      /\ jpc'[j] = IF skips THEN "hasNext" ELSE "read"
      /\ UNCHANGED <<source, store, mode, err, seen, outcome>>
  BY DEF Next, CopyTypeOK, JobInv, LoopState
<1>2. /\ p \in Nat /\ p > 0 /\ p <= Len(source[j])
      /\ 1..p = (1..pos[j]) \cup {p} /\ p \notin 1..pos[j]
  BY <1>1 DEF CopyTypeOK
<1>3. /\ Places(j)' = Places(j) /\ Written(j)' = Written(j)
      /\ Entry(j)' = source[j][p]
  BY <1>1 DEF Places, Written, Entry
<1>4. Passed(j) = 1..pos[j]
  BY <1>1, PassedAt DEF JobInv
<1>5. p \in Repeated(j)' <=> skips
  <2>1. mode[j] = "tool" => seen[j] = {source[j][q].name : q \in 1..pos[j]}
    BY <1>4 DEF JobInv, SeenIsWritten
  <2>2. p - 1 = pos[j]
    BY <1>1
  <2> QED
    BY <1>1, <1>2, <2>1, <2>2 DEF Repeated
<1>6. Repeated(j)' = Repeated(j) \cup (IF skips THEN {p} ELSE {})
  BY <1>1, <1>2, <1>5 DEF Repeated
<1>7. Passed(j)' = Passed(j) \cup (IF skips THEN {p} ELSE {})
  <2>1. CASE skips
    <3>1. ~AtWork(j)'
      BY <1>1, <2>1 DEF AtWork
    <3> QED
      BY <1>1, <1>2, <1>4, <2>1, <3>1 DEF Passed
  <2>2. CASE ~skips
    <3>1. AtWork(j)'
      BY <1>1, <2>2 DEF AtWork
    <3> QED
      BY <1>1, <1>2, <1>4, <2>2, <3>1 DEF Passed
  <2> QED
    BY <2>1, <2>2
<1>8. LoopState(j)'
  BY <1>1, <1>2, <1>3 DEF LoopState, JobInv
<1>9. SeenIsWritten(j)'
  BY <1>1, <1>3, <1>7 DEF SeenIsWritten, JobInv
<1>10. NoneThrew(j)'
  BY <1>1, <1>3 DEF NoneThrew, JobInv
<1>11. Accounted(j)'
  <2>1. p \notin Written(j) \cup err[j]
    BY <1>2, <1>4 DEF JobInv, Accounted
  <2> QED
    BY <1>1, <1>3, <1>6, <1>7, <2>1 DEF Accounted, JobInv
<1> QED
  BY <1>8, <1>9, <1>10, <1>11 DEF JobInv

\* At an entry, which the tool has not seen: it is in none of the job's books.
LEMMA AtEntry ==
  ASSUME CopyTypeOK, NEW j \in Job, JobInv(j), jpc[j] \in {"read", "write"}
  PROVE  /\ pos[j] \in 1..Len(source[j])
         /\ 1..pos[j] = (1..(pos[j] - 1)) \cup {pos[j]}
         /\ Passed(j) = 1..(pos[j] - 1)
         /\ pos[j] \notin Written(j) \cup err[j] \cup Repeated(j)
         /\ Entry(j) \in Item
<1>1. pos[j] \in Nat /\ pos[j] > 0 /\ pos[j] <= Len(source[j]) /\ source[j] \in Seq(Item)
  BY DEF CopyTypeOK, JobInv, LoopState
<1>2. Passed(j) = 1..(pos[j] - 1)
  BY PassedAt DEF JobInv
<1>3. pos[j] \notin Passed(j)
  BY <1>1, <1>2
<1> QED
  BY <1>1, <1>2, <1>3 DEF JobInv, Accounted, Entry

\* An Error at an entry: it is in the BatchError, or it ends the copy.
LEMMA RaiseKeeps ==
  ASSUME CopyTypeOK, NEW j \in Job, JobInv(j), jpc[j] \in {"read", "write"},
         Entry(j).fault # "exception",
         Raise(j), UNCHANGED <<source, store, mode, pos, seen>>
  PROVE  JobInv(j)'
<1> DEFINE p == pos[j]
<1>1. /\ p \in 1..Len(source[j]) /\ 1..p = (1..(p - 1)) \cup {p}
      /\ Passed(j) = 1..(p - 1)
      /\ p \notin Written(j) \cup err[j] \cup Repeated(j)
  BY AtEntry
<1>2. /\ Places(j)' = Places(j) /\ Written(j)' = Written(j)
      /\ Repeated(j)' = Repeated(j) /\ Entry(j)' = Entry(j)
  BY BooksKept
<1>3. CASE Catch(j)
  <2>1. /\ mode[j] = "failsafe" /\ err'[j] = err[j] \cup {p} /\ jpc'[j] = "hasNext"
        /\ outcome'[j] = outcome[j] /\ outcome[j] = "none"
    BY <1>3 DEF Catch, CopyTypeOK, JobInv, LoopState
  <2>2. ~AtWork(j)'
    BY <2>1 DEF AtWork
  <2>3. Passed(j)' = Passed(j) \cup {p}
    BY <1>1, <2>2 DEF Passed
  <2>4. LoopState(j)'
    BY <1>1, <2>1 DEF LoopState, JobInv
  <2>5. SeenIsWritten(j)'
    BY <2>1 DEF SeenIsWritten
  <2>6. NoneThrew(j)'
    BY <1>2, <2>1 DEF NoneThrew, JobInv, Entry
  <2>7. Accounted(j)'
    BY <1>1, <1>2, <2>1, <2>3 DEF Accounted, JobInv
  <2> QED
    BY <2>4, <2>5, <2>6, <2>7 DEF JobInv
<1>4. CASE mode[j] # "failsafe" /\ End(j, "error") /\ UNCHANGED err
  <2>1. jpc'[j] = "ended" /\ outcome'[j] = "error"
    BY <1>4 DEF End, CopyTypeOK
  <2>2. AtWork(j)'
    BY <2>1 DEF AtWork
  <2>3. Passed(j)' = Passed(j)
    BY <1>1, <2>2 DEF Passed
  <2>4. LoopState(j)'
    BY <1>1, <2>1 DEF LoopState, JobInv
  <2> QED
    BY <1>2, <1>4, <2>3, <2>4 DEF JobInv, SeenIsWritten, NoneThrew, Accounted
<1> QED
  BY <1>3, <1>4 DEF Raise

LEMMA ReadEntryKeeps ==
  ASSUME CopyTypeOK, NEW j \in Job, JobInv(j), ReadEntry(j)
  PROVE  JobInv(j)'
<1>1. /\ jpc[j] = "read" /\ outcome[j] = "none"
      /\ UNCHANGED <<source, store, mode, pos, seen>>
  BY DEF ReadEntry, JobInv, LoopState
<1>2. /\ pos[j] \in 1..Len(source[j]) /\ 1..pos[j] = (1..(pos[j] - 1)) \cup {pos[j]}
      /\ Passed(j) = 1..(pos[j] - 1)
      /\ pos[j] \notin Repeated(j)
  BY <1>1, AtEntry
<1>3. /\ Places(j)' = Places(j) /\ Written(j)' = Written(j)
      /\ Repeated(j)' = Repeated(j) /\ Entry(j)' = Entry(j)
  BY <1>1, BooksKept
<1>4. CASE Entry(j).fault = "error" /\ Raise(j)
  BY <1>1, <1>4, RaiseKeeps
<1>5. CASE Entry(j).fault = "exception" /\ End(j, "exception") /\ UNCHANGED err
  <2>1. jpc'[j] = "ended" /\ outcome'[j] = "exception"
    BY <1>5 DEF End, CopyTypeOK
  <2>2. AtWork(j)'
    BY <1>1, <1>2, <1>3, <1>5, <2>1 DEF AtWork
  <2>3. Passed(j)' = Passed(j)
    BY <1>1, <1>2, <2>2 DEF Passed
  <2>4. LoopState(j)'
    BY <1>1, <1>2, <1>5, <2>1 DEF LoopState, JobInv
  <2> QED
    BY <1>1, <1>3, <1>5, <2>3, <2>4 DEF JobInv, SeenIsWritten, NoneThrew, Accounted
<1>6. CASE /\ Entry(j).fault \in {"none", "malformed"}
           /\ jpc' = [jpc EXCEPT ![j] = "write"]
           /\ UNCHANGED <<err, outcome>>
  <2>1. jpc'[j] = "write"
    BY <1>6 DEF CopyTypeOK
  <2>2. AtWork(j)'
    BY <2>1 DEF AtWork
  <2>3. Passed(j)' = Passed(j)
    BY <1>1, <1>2, <2>2 DEF Passed
  <2>4. LoopState(j)'
    BY <1>1, <1>3, <1>6, <2>1 DEF LoopState, JobInv
  <2> QED
    BY <1>1, <1>3, <1>6, <2>3, <2>4 DEF JobInv, SeenIsWritten, NoneThrew, Accounted
<1> QED
  BY <1>4, <1>5, <1>6 DEF ReadEntry

\* A write puts the entry behind all the job has written.
LEMMA WriteKeeps ==
  ASSUME CopyTypeOK, NEW j \in Job, JobInv(j), Write(j)
  PROVE  JobInv(j)'
<1> DEFINE p == pos[j]
           n == Len(store) + 1
<1>1. /\ jpc[j] = "write" /\ outcome[j] = "none"
      /\ Entry(j).fault \in {"none", "malformed"}
      /\ UNCHANGED <<source, mode, pos>>
  BY DEF Write, JobInv, LoopState
<1>2. CASE Refused(j) /\ Raise(j) /\ UNCHANGED <<store, seen>>
  BY <1>1, <1>2, RaiseKeeps
<1>3. CASE /\ store' = Append(store, Stored(j, p, Entry(j).name))
           /\ seen' = [seen EXCEPT ![j] =
                IF mode[j] = "tool" THEN @ \cup {Entry(j).name} ELSE @]
           /\ jpc' = [jpc EXCEPT ![j] = "hasNext"]
           /\ UNCHANGED <<err, outcome>>
  <2>1. /\ p \in 1..Len(source[j]) /\ 1..p = (1..(p - 1)) \cup {p}
        /\ Passed(j) = 1..(p - 1)
        /\ p \notin Written(j) \cup err[j] \cup Repeated(j)
    BY <1>1, AtEntry
  <2>2. /\ jpc'[j] = "hasNext"
        /\ seen'[j] = IF mode[j] = "tool" THEN seen[j] \cup {Entry(j).name} ELSE seen[j]
    BY <1>3 DEF CopyTypeOK
  <2>3. /\ n \in Nat /\ Len(store') = n /\ 1..n = (1..Len(store)) \cup {n}
        /\ n \notin 1..Len(store)
        /\ \A i \in 1..Len(store) : store'[i] = store[i]
        /\ store'[n] = Stored(j, p, Entry(j).name)
    BY <1>3 DEF CopyTypeOK
  <2>4. /\ store'[n].job = j /\ store'[n].pos = p /\ store'[n].name = Entry(j).name
    BY <2>3 DEF Stored
  <2>5. Places(j)' = Places(j) \cup {n} /\ Places(j) \subseteq 1..Len(store)
    BY <2>3, <2>4 DEF Places
  <2>6. Written(j)' = Written(j) \cup {p}
    BY <2>3, <2>4, <2>5 DEF Written
  <2>7. Repeated(j)' = Repeated(j) /\ Entry(j)' = Entry(j)
    BY <1>1 DEF Repeated, Entry
  <2>8. ~AtWork(j)'
    BY <1>1, <1>3, <2>2 DEF AtWork
  <2>9. Passed(j)' = Passed(j) \cup {p}
    BY <1>1, <2>1, <2>8 DEF Passed
  <2>10. LoopState(j)'
    BY <1>1, <1>3, <2>1, <2>2 DEF LoopState, JobInv
  <2>11. SeenIsWritten(j)'
    <3> SUFFICES ASSUME mode[j] = "tool"
                 PROVE  /\ seen'[j] = {source[j][q].name : q \in Passed(j) \cup {p}}
                        /\ \A name \in seen'[j] : \E i \in Places(j)' : store'[i].name = name
      BY <1>1, <2>9 DEF SeenIsWritten
    <3>1. seen'[j] = {source[j][q].name : q \in Passed(j) \cup {p}}
      BY <2>2 DEF SeenIsWritten, JobInv, Entry
    <3>2. \A name \in seen[j] : \E i \in Places(j)' : store'[i].name = name
      BY <2>3, <2>5 DEF SeenIsWritten, JobInv
    <3>3. \E i \in Places(j)' : store'[i].name = Entry(j).name
      BY <2>4, <2>5
    <3> QED
      BY <2>2, <3>1, <3>2, <3>3
  <2>12. NoneThrew(j)'
    BY <1>1, <1>3, <2>6 DEF NoneThrew, JobInv, Entry
  <2>13. Accounted(j)'
    <3>1. /\ Written(j)' \cup err'[j] \cup Repeated(j)' = Passed(j)'
          /\ Written(j)' \cap err'[j] = {}
          /\ Repeated(j)' \cap (Written(j)' \cup err'[j]) = {}
      BY <1>3, <2>1, <2>6, <2>7, <2>9 DEF Accounted, JobInv
    <3>2. \A i \in Places(j) : store[i].pos < p
      <4>1. \A i \in Places(j) : store[i].pos \in Written(j)
        BY DEF Written
      <4> QED
        BY <2>1, <4>1 DEF Accounted, JobInv
    <3>3. \A i, k \in Places(j)' : i < k => store'[i].pos < store'[k].pos
      BY <2>3, <2>4, <2>5, <3>2 DEF Accounted, JobInv
    <3>4. \A i \in Places(j)' : source'[j][store'[i].pos].name = store'[i].name
      BY <1>1, <2>3, <2>4, <2>5 DEF Accounted, JobInv, Entry
    <3> QED
      BY <3>1, <3>3, <3>4 DEF Accounted
  <2> QED
    BY <2>10, <2>11, <2>12, <2>13 DEF JobInv
<1> QED
  BY <1>2, <1>3 DEF Write

----------------------------------------------------------------------------
LEMMA TypesKept ==
  ASSUME CopyTypeOK, \A j \in Job : LoopState(j), Step
  PROVE  CopyTypeOK'
<1>1. ASSUME NEW j \in Job, NEW flag \in BOOLEAN, WriteCorpus(j, flag)
      PROVE  CopyTypeOK'
  BY <1>1 DEF WriteCorpus, Begin, FailFirst, CopyTypeOK
<1>2. ASSUME NEW j \in Job, RunTool(j)
      PROVE  CopyTypeOK'
  BY <1>2 DEF RunTool, Begin, CopyTypeOK
<1>3. ASSUME NEW j \in Job, EndOfCorpus(j)
      PROVE  CopyTypeOK'
  BY <1>3 DEF EndOfCorpus, End, CopyTypeOK
<1>4. ASSUME NEW j \in Job, IteratorThrows(j)
      PROVE  CopyTypeOK'
  BY <1>4 DEF IteratorThrows, End, CopyTypeOK
<1>5. ASSUME NEW j \in Job, Next(j)
      PROVE  CopyTypeOK'
  BY <1>5 DEF Next, CopyTypeOK
<1>6. ASSUME NEW j \in Job, Raise(j),
             UNCHANGED <<container, source, store, mode, failsafe, pos, seen>>
      PROVE  CopyTypeOK'
  <2>1. err[j] \cup {pos[j]} \in SUBSET Nat
    BY DEF CopyTypeOK
  <2>2. err' \in [Job -> SUBSET Nat]
    BY <1>6, <2>1 DEF Raise, Catch, CopyTypeOK
  <2> QED
    BY <1>6, <2>2 DEF Raise, Catch, End, CopyTypeOK
<1>7. ASSUME NEW j \in Job, ReadEntry(j)
      PROVE  CopyTypeOK'
  BY <1>6, <1>7 DEF ReadEntry, End, CopyTypeOK
<1>8. ASSUME NEW j \in Job, Write(j)
      PROVE  CopyTypeOK'
  <2>1. CASE Raise(j) /\ UNCHANGED <<store, seen>>
    BY <1>6, <1>8, <2>1 DEF Write
  <2>2. CASE ~(Raise(j) /\ UNCHANGED <<store, seen>>)
    <3>1. pos[j] \in 1..Len(source[j]) /\ source[j] \in Seq(Item)
      BY <1>8 DEF Write, LoopState, CopyTypeOK
    <3>2. Entry(j) \in Item
      BY <3>1 DEF Entry
    <3>3. Stored(j, pos[j], Entry(j).name) \in Place /\ Entry(j).name \in Name
      BY <3>1, <3>2 DEF Stored, Place, Item
    <3>4. /\ store' = Append(store, Stored(j, pos[j], Entry(j).name))
          /\ seen' = [seen EXCEPT ![j] =
               IF mode[j] = "tool" THEN @ \cup {Entry(j).name} ELSE @]
          /\ jpc' = [jpc EXCEPT ![j] = "hasNext"]
          /\ UNCHANGED <<container, source, mode, failsafe, pos, err, outcome>>
      BY <1>8, <2>2 DEF Write
    <3>5. store' \in Seq(Place)
      BY <3>3, <3>4 DEF CopyTypeOK
    <3>6. seen[j] \cup {Entry(j).name} \in SUBSET Name
      BY <3>3 DEF CopyTypeOK
    <3>7. seen' \in [Job -> SUBSET Name]
      BY <3>4, <3>6 DEF CopyTypeOK
    <3> QED
      BY <3>4, <3>5, <3>7 DEF CopyTypeOK
  <2> QED
    BY <2>1, <2>2
<1> QED
  BY <1>1, <1>2, <1>3, <1>4, <1>5, <1>7, <1>8 DEF Step, Copy

\* A step is one job's, and leaves every other alone.
LEMMA StepOfOne ==
  ASSUME CopyTypeOK, \A j \in Job : LoopState(j), Step
  PROVE  \E k \in Job :
           /\ \/ \E m \in {"tool", "failfirst", "failsafe"} : Begin(k, m)
              \/ Copy(k)
           /\ WrittenBy(k)
           /\ \A j \in Job : j # k => Untouched(j)
<1>1. PICK k \in Job : (\E flag \in BOOLEAN : WriteCorpus(k, flag)) \/ RunTool(k) \/ Copy(k)
  BY DEF Step
<1>2. CASE \E flag \in BOOLEAN : WriteCorpus(k, flag)
  <2>1. \E m \in {"tool", "failfirst", "failsafe"} : Begin(k, m)
    BY <1>2 DEF WriteCorpus
  <2> QED
    BY <2>1 DEF Begin, WrittenBy, Untouched, CopyTypeOK
<1>3. CASE RunTool(k)
  BY <1>3 DEF RunTool, Begin, WrittenBy, Untouched, CopyTypeOK
<1>4. CASE EndOfCorpus(k)
  BY <1>4 DEF Copy, EndOfCorpus, End, WrittenBy, Untouched, CopyTypeOK
<1>5. CASE IteratorThrows(k)
  BY <1>5 DEF Copy, IteratorThrows, End, WrittenBy, Untouched, CopyTypeOK
<1>6. CASE Next(k)
  BY <1>6 DEF Copy, Next, WrittenBy, Untouched, CopyTypeOK
<1>7. CASE ReadEntry(k)
  BY <1>7 DEF Copy, ReadEntry, Raise, Catch, End, WrittenBy, Untouched, CopyTypeOK
<1>8. CASE Write(k)
  <2>1. \A j \in Job : j # k => Untouched(j)
    BY <1>8 DEF Write, Raise, Catch, End, Untouched, CopyTypeOK
  <2>2. pos[k] \in 1..Len(source[k]) /\ source[k] \in Seq(Item)
    BY <1>8 DEF Write, LoopState, CopyTypeOK
  <2>3. Entry(k) \in Item
    BY <2>2 DEF Entry
  <2>4. pos[k] \in Nat /\ Entry(k).name \in Name
    BY <2>2, <2>3 DEF Item
  <2>5. WrittenBy(k)
    BY <1>8, <2>4 DEF Write, WrittenBy
  <2> QED
    BY <1>8, <2>1, <2>5 DEF Copy
<1> QED
  BY <1>1, <1>2, <1>3, <1>4, <1>5, <1>6, <1>7, <1>8 DEF Copy

LEMMA CopyInvInit == Init => CopyInv
<1> SUFFICES ASSUME Init PROVE CopyInv
  OBVIOUS
<1>1. /\ jpc = [j \in Job |-> "idle"] /\ mode = [j \in Job |-> "none"]
      /\ pos = [j \in Job |-> 0] /\ err = [j \in Job |-> {}]
      /\ seen = [j \in Job |-> {}] /\ outcome = [j \in Job |-> "none"]
      /\ source \in [Job -> Seq(Item)]
  BY BatchAssumption DEF Init
<1>2. store \in Seq(Place) /\ \A i \in 1..Len(store) : store[i].job = NoJob
  <2>1. CASE store = <<>>
    BY <2>1
  <2>2. CASE \E n \in Name : store = <<Stored(NoJob, 0, n)>>
    <3>1. PICK n \in Name : store = <<Stored(NoJob, 0, n)>>
      BY <2>2
    <3>2. Stored(NoJob, 0, n) \in Place /\ Stored(NoJob, 0, n).job = NoJob
      BY DEF Stored, Place
    <3> QED
      BY <3>1, <3>2
  <2> QED
    BY <2>1, <2>2 DEF Init
<1>3. CopyTypeOK
  BY <1>1, <1>2 DEF Init, CopyTypeOK
<1>4. ASSUME NEW j \in Job PROVE JobInv(j)
  <2>1. Places(j) = {}
    BY <1>2, BatchAssumption DEF Places
  <2>2. Written(j) = {} /\ Repeated(j) = {} /\ Passed(j) = {}
    BY <1>1, <2>1 DEF Written, Repeated, Passed
  <2>3. LoopState(j)
    BY <1>1 DEF LoopState
  <2> QED
    BY <1>1, <2>1, <2>2, <2>3 DEF JobInv, SeenIsWritten, NoneThrew, Accounted
<1> QED
  BY <1>3, <1>4 DEF CopyInv

LEMMA CopyInvKept == CopyInv /\ [Step]_vars => CopyInv'
<1>1. ASSUME CopyInv, UNCHANGED vars PROVE CopyInv'
  <2>1. CopyTypeOK'
    BY <1>1 DEF CopyInv, vars, CopyTypeOK
  <2>2. ASSUME NEW j \in Job PROVE JobInv(j)'
    <3>1. /\ Places(j)' = Places(j) /\ Written(j)' = Written(j)
          /\ Repeated(j)' = Repeated(j) /\ Entry(j)' = Entry(j)
      BY <1>1, BooksKept DEF vars
    <3>2. Passed(j)' = Passed(j)
      BY <1>1, <3>1 DEF vars, Passed, AtWork
    <3>3. LoopState(j)'
      BY <1>1, <3>1 DEF vars, CopyInv, JobInv, LoopState
    <3> QED
      BY <1>1, <3>1, <3>2, <3>3
         DEF vars, CopyInv, JobInv, SeenIsWritten, NoneThrew, Accounted
  <2> QED
    BY <2>1, <2>2 DEF CopyInv
<1>2. ASSUME CopyInv, Step PROVE CopyInv'
  <2>1. CopyTypeOK /\ \A j \in Job : JobInv(j) /\ LoopState(j)
    BY <1>2 DEF CopyInv, JobInv
  <2>2. CopyTypeOK'
    BY <1>2, <2>1, TypesKept
  <2>3. PICK k \in Job :
          /\ \/ \E m \in {"tool", "failfirst", "failsafe"} : Begin(k, m)
             \/ Copy(k)
          /\ WrittenBy(k)
          /\ \A j \in Job : j # k => Untouched(j)
    BY <1>2, <2>1, StepOfOne
  <2>4. JobInv(k)'
    BY <2>1, <2>3, BeginKeeps, EndOfCorpusKeeps, IteratorThrowsKeeps, NextKeeps,
       ReadEntryKeeps, WriteKeeps DEF Copy
  <2>5. ASSUME NEW j \in Job, j # k PROVE JobInv(j)'
    BY <2>1, <2>3, <2>5, OthersKeep
  <2> QED
    BY <2>2, <2>4, <2>5 DEF CopyInv
<1> QED
  BY <1>1, <1>2

LEMMA CopyInvAlways == Spec => []CopyInv
<1>1. Init => CopyInv
  BY CopyInvInit
<1>2. CopyInv /\ [Step]_vars => CopyInv'
  BY CopyInvKept
<1> QED
  BY <1>1, <1>2, PTL DEF Spec

\* For any number of jobs on whatever corpora, in whatever order their steps
\* come: each entry a job has passed was written once, in order and under its
\* name, or is in its BatchError, or repeats a name the tool has written.
THEOREM Accounting == Spec => []EachEntryOnce
<1>1. CopyInv => EachEntryOnce
  BY DEF CopyInv, JobInv, EachEntryOnce
<1> QED
  BY <1>1, CopyInvAlways, PTL

\* A copy that ends without an exception has every name of the corpus in the
\* store, written by this very job.
THEOREM DoneIsComplete == Spec => []DoneMeansCopied
<1>1. CopyInv => DoneMeansCopied
  <2> SUFFICES ASSUME CopyInv, NEW j \in Job, outcome[j] = "done",
                      NEW p \in 1..Len(source[j])
               PROVE  \E i \in Places(j) : store[i].name = source[j][p].name
    BY DEF DoneMeansCopied
  <2>1. pos[j] = Len(source[j]) /\ err[j] = {} /\ JobInv(j)
    BY DEF CopyInv, JobInv, LoopState
  <2>2. jpc[j] = "ended"
    BY DEF CopyInv, JobInv, LoopState
  <2>3. ~AtWork(j)
    BY <2>2 DEF AtWork
  <2>4. p \in Passed(j)
    BY <2>1, <2>3 DEF Passed
  <2>5. CASE p \in Written(j)
    BY <2>1, <2>5 DEF JobInv, Accounted, Written
  <2>6. CASE p \in Repeated(j)
    <3>1. mode[j] = "tool"
      BY <2>6 DEF Repeated
    <3> QED
      BY <2>1, <2>4, <3>1 DEF JobInv, SeenIsWritten
  <2> QED
    BY <2>1, <2>4, <2>5, <2>6 DEF JobInv, Accounted
<1> QED
  BY <1>1, CopyInvAlways, PTL

\* The tool never writes a name twice: a second place would be that of a
\* repetition, and those are none of the entries it writes.
THEOREM NoNameTwice == Spec => []ToolWritesNoNameTwice
<1>1. CopyInv => ToolWritesNoNameTwice
  <2> SUFFICES ASSUME CopyInv, NEW j \in Job, mode[j] = "tool",
                      NEW i \in Places(j), NEW k \in Places(j),
                      store[i].name = store[k].name, i < k
               PROVE  FALSE
    BY DEF ToolWritesNoNameTwice, Places
  <2>1. Accounted(j)
    BY DEF CopyInv, JobInv
  <2>2. /\ store[i].pos \in Written(j) /\ store[k].pos \in Written(j)
        /\ store[i].pos < store[k].pos
        /\ source[j][store[i].pos].name = source[j][store[k].pos].name
    BY <2>1 DEF Accounted, Written
  <2>3. store[i].pos \in 1..pos[j] /\ store[k].pos \in 1..pos[j] /\ pos[j] \in Nat
    BY <2>1, <2>2 DEF Accounted, Passed, CopyInv, CopyTypeOK
  <2>4. store[k].pos \in Repeated(j)
    BY <2>2, <2>3 DEF Repeated
  <2> QED
    BY <2>1, <2>2, <2>4 DEF Accounted
<1> QED
  BY <1>1, CopyInvAlways, PTL
=============================================================================
