------------------------- MODULE OfflineStorageProofs -------------------------
(***************************************************************************)
(* OfflineStorage for every number of threads and files, every lifetime    *)
(* and every clock: the files and the table agree as far as they should,   *)
(* a wiped file is gone and a fresh one stays readable.                    *)
(***************************************************************************)
EXTENDS OfflineStorage, TLAPS

StorageTypeOK ==
    /\ content \in [Ids -> {None, "part", "whole", "damaged"}]
    /\ linked \subseteq Ids
    /\ meta \in [Ids -> Nat \cup {None}]
    /\ born \in [Ids -> Nat \cup {None}]
    /\ call \in [Procs -> Calls \cup {None}]
    /\ now \in Nat

Writing == {"write", "record"}
Knowing == {"read", "overwrite", "remove", "erase", "sweepRemove"}
Wiping  == {"overwrite", "remove", "erase"}

(* Only its writer knows an id until its Put returns; who fetches or wipes *)
(* a file comes after that; and a wipe forgets a file only when its path   *)
(* is gone or could not be removed.                                        *)
CallOK(p) ==
    call[p] # None =>
       /\ call[p].at <= now
       /\ call[p].step \in Writing =>
             call[p].id \in linked /\ born[call[p].id] = None
       /\ call[p].step \in Knowing =>
             call[p].id \in Ids /\ born[call[p].id] # None
       /\ call[p].step = "erase" => call[p].id \notin linked \ stuck

OneWriter ==
    \A p, q \in Procs :
        (/\ call[p] # None /\ call[q] # None
         /\ call[p].step \in Writing /\ call[q].step \in Writing
         /\ call[p].id = call[q].id) => p = q

(* An entry is never older or newer than its Put. *)
TableOK ==
    \A i \in Ids :
        /\ meta[i] # None => born[i] = meta[i]
        /\ born[i] # None => content[i] # None
        /\ i \in linked => content[i] # None
        /\ i \in wiped => born[i] # None

StorageInv ==
    /\ StorageTypeOK
    /\ TableOK
    /\ OneWriter
    /\ \A p \in Procs : CallOK(p)
    /\ MetaHasFile /\ NoOrphans /\ WipedIsGone /\ FreshStaysReadable

(* At first there are no files. *)
LEMMA StorageInit == Init => StorageInv
<1> SUFFICES ASSUME Init PROVE StorageInv
  OBVIOUS
<1>1. StorageTypeOK /\ TableOK
  BY DEF Init, StorageTypeOK, TableOK
<1>2. OneWriter /\ \A p \in Procs : CallOK(p)
  BY DEF Init, OneWriter, CallOK
<1>3. MetaHasFile /\ NoOrphans /\ WipedIsGone
  BY DEF Init, MetaHasFile, NoOrphans, WipedIsGone
<1>4. FreshStaysReadable
  BY StorageAssumption DEF Init, FreshStaysReadable
<1> QED
  BY <1>1, <1>2, <1>3, <1>4 DEF StorageInv

(* What a step of thread p that leaves it in call c may do.  First, what   *)
(* it does to its call: it only starts to write a file nobody has heard    *)
(* of, and leaves a file it writes or wipes when that is done.             *)
In(c, i, S) == c # None /\ c.id = i /\ c.step \in S

Moves(p, c) ==
    /\ call' = [call EXCEPT ![p] = c]
    /\ now' = now
    /\ \A i \in Ids :
          In(c, i, Writing) => content[i] = None \/ In(call[p], i, Writing)

(* Then to the files: only its own file is written, wiped or removed, and  *)
(* what the histories hold they keep.                                      *)
FilesKept(p, c) ==
    /\ stuck \subseteq stuck' /\ stranded \subseteq stranded'
    /\ wiped \subseteq wiped'
    /\ \A i \in Ids : born[i] # None => born'[i] = born[i]
    /\ \A i \in Ids : born[i] = None /\ born'[i] # None => In(call[p], i, Writing)
    /\ \A i \in linked : i \in linked' \/ born[i] # None
    /\ \A i \in linked' : i \in linked \/ (content[i] = None /\ In(c, i, Writing))

(* Last, to what the properties relate. *)
Related(p, c) ==
    /\ \A i \in Ids : meta'[i] # None =>
          /\ meta[i] # None \/ i \in linked'
          /\ i \in linked => i \in linked' \/ In(c, i, Wiping)
          /\ In(call[p], i, Wiping) => In(c, i, Wiping)
    /\ \A i \in linked' : meta[i] # None => meta'[i] # None \/ i \in stuck'
    /\ \A i \in linked' :
          In(call[p], i, Writing) => meta'[i] # None \/ In(c, i, Writing)
    /\ \A i \in wiped' : i \in wiped \/ i \notin linked' \ stuck'
    /\ \A i \in Ids : content'[i] = "damaged" =>
          \/ content[i] = "damaged"
          \/ In(c, i, {"remove", "erase"})
          \/ born'[i] # None /\ now' - born'[i] > Ttl
    /\ \A i \in Ids : In(call[p], i, {"remove", "erase"}) =>
          In(c, i, {"remove", "erase"}) \/ i \in wiped'

(* What the calls of the other threads need of a step. *)
LEMMA CallsKept ==
    ASSUME StorageInv, NEW p \in Procs, NEW c, Moves(p, c), FilesKept(p, c),
           CallOK(p)'
    PROVE  \A q \in Procs : CallOK(q)'
<1> USE DEF Moves, FilesKept, In
<1> SUFFICES ASSUME NEW q \in Procs, q # p, call[q] # None
             PROVE  CallOK(q)'
  BY DEF StorageInv, StorageTypeOK, CallOK
<1> DEFINE i == call[q].id
<1>1. call'[q] = call[q] /\ CallOK(q)
  BY DEF StorageInv, StorageTypeOK
<1>2. call[q].step \in Writing => i \in linked' /\ born'[i] = None
  <2> SUFFICES ASSUME call[q].step \in Writing
               PROVE  i \in linked' /\ born'[i] = None
    OBVIOUS
  <2>1. i \in linked /\ born[i] = None /\ i \in Ids
    BY <1>1 DEF CallOK, StorageInv, StorageTypeOK
  <2>2. ~(call[p] # None /\ call[p].step \in Writing /\ call[p].id = i)
    BY DEF StorageInv, OneWriter
  <2> QED
    BY <2>1, <2>2
<1>3. call[q].step \in Knowing => i \in Ids /\ born'[i] # None
  BY <1>1 DEF CallOK
<1>4. call[q].step = "erase" => i \notin linked' \ stuck'
  BY <1>1 DEF CallOK, Knowing, StorageInv, TableOK
<1> HIDE DEF i
<1>5. call[q].at <= now'
  BY <1>1 DEF CallOK
<1> QED
  BY <1>1, <1>2, <1>3, <1>4, <1>5 DEF CallOK, i

(* Nobody starts to write a file that another thread is writing. *)
LEMMA WriterKept ==
    ASSUME StorageInv, NEW p \in Procs, NEW c, Moves(p, c)
    PROVE  OneWriter'
<1> SUFFICES ASSUME NEW q \in Procs, NEW r \in Procs, q # r,
                    call'[q] # None, call'[r] # None,
                    call'[q].step \in Writing, call'[r].step \in Writing,
                    call'[q].id = call'[r].id
             PROVE  FALSE
  BY DEF OneWriter
<1> USE DEF Moves, In
<1>1. ASSUME NEW s \in Procs, s # p, call[s] # None, call[s].step \in Writing
      PROVE  call[s].id \in Ids /\ content[call[s].id] # None
  BY <1>1 DEF StorageInv, StorageTypeOK, CallOK, TableOK
<1>2. \A s \in Procs : call'[s] = IF s = p THEN c ELSE call[s]
  BY DEF StorageInv, StorageTypeOK
<1>3. CASE q # p /\ r # p
  BY <1>2, <1>3 DEF StorageInv, OneWriter
<1>4. ASSUME NEW s \in Procs, s # p, call[s] # None, call[s].step \in Writing,
             c # None, c.step \in Writing, c.id = call[s].id
      PROVE  FALSE
  BY <1>1, <1>4 DEF StorageInv, OneWriter
<1>5. CASE q = p
  BY <1>2, <1>4, <1>5
<1>6. CASE r = p
  BY <1>2, <1>4, <1>6
<1> QED
  BY <1>3, <1>5, <1>6

(* Who is inside a call stays there until it moves. *)
LEMMA InFetchKept ==
    ASSUME StorageTypeOK, NEW p \in Procs, NEW c, call' = [call EXCEPT ![p] = c],
           NEW i, NEW S, InFetchOf(i, S),
           In(call[p], i, S) => In(c, i, S)
    PROVE  InFetchOf(i, S)'
<1>1. PICK q \in Procs : call[q] # None /\ call[q].id = i /\ call[q].step \in S
  BY DEF InFetchOf
<1>2. CASE q = p
  BY <1>1, <1>2 DEF In, InFetchOf, StorageTypeOK
<1>3. CASE q # p
  BY <1>1, <1>3 DEF InFetchOf, StorageTypeOK
<1> QED
  BY <1>2, <1>3

(* Who moves into a call is inside of it. *)
LEMMA InFetchNew ==
    ASSUME StorageTypeOK, NEW p \in Procs, NEW c, NEW i, NEW S, In(c, i, S),
           call' = [call EXCEPT ![p] = c]
    PROVE  InFetchOf(i, S)'
BY DEF In, InFetchOf, StorageTypeOK

(* Such a step keeps the invariant. *)
LEMMA SmallStep ==
    ASSUME StorageInv, NEW p \in Procs, NEW c,
           Moves(p, c), FilesKept(p, c), Related(p, c),
           StorageTypeOK', TableOK', CallOK(p)'
    PROVE  StorageInv'
<1>1. (\A q \in Procs : CallOK(q)') /\ OneWriter'
  BY CallsKept, WriterKept
<1>2. StorageTypeOK /\ call' = [call EXCEPT ![p] = c] /\ now' = now
  BY DEF StorageInv, Moves
<1>3. ASSUME NEW i, NEW S, InFetchOf(i, S), In(call[p], i, S) => In(c, i, S)
      PROVE  InFetchOf(i, S)'
  BY <1>2, <1>3, InFetchKept
<1>4. ASSUME NEW i, NEW S, In(c, i, S)
      PROVE  InFetchOf(i, S)'
  BY <1>2, <1>4, InFetchNew
<1>5. MetaHasFile'
  <2> SUFFICES ASSUME NEW i \in Ids, meta'[i] # None, i \notin linked'
               PROVE  InFetchOf(i, Wiping)'
    BY DEF MetaHasFile, Wiping
  <2>1. /\ meta[i] # None
        /\ i \in linked => In(c, i, Wiping)
        /\ In(call[p], i, Wiping) => In(c, i, Wiping)
    BY DEF Related
  <2>2. i \in linked \/ InFetchOf(i, Wiping)
    BY <2>1 DEF StorageInv, MetaHasFile, Wiping
  <2> QED
    BY <1>3, <1>4, <2>1, <2>2
<1>6. NoOrphans'
  <2> SUFFICES ASSUME NEW i \in linked', meta'[i] = None,
                      i \notin stuck' \cup stranded'
               PROVE  InFetchOf(i, Writing)'
    BY DEF NoOrphans, Writing
  <2>1. /\ i \in linked \/ In(c, i, Writing)
        /\ meta[i] = None /\ i \notin stuck \cup stranded
        /\ In(call[p], i, Writing) => In(c, i, Writing)
    BY DEF FilesKept, Related
  <2>2. i \in linked => InFetchOf(i, Writing)
    BY <2>1 DEF StorageInv, NoOrphans, Writing
  <2> QED
    BY <1>3, <1>4, <2>1, <2>2
<1>7. WipedIsGone'
  <2> SUFFICES ASSUME NEW i \in wiped', i \notin stuck', i \in linked'
               PROVE  FALSE
    BY DEF WipedIsGone
  <2>1. i \in wiped /\ i \notin stuck
    BY DEF Related, FilesKept
  <2>2. i \in linked \/ content[i] = None
    BY DEF FilesKept
  <2>3. i \notin linked
    BY <2>1 DEF StorageInv, WipedIsGone
  <2>4. i \in Ids /\ content[i] # None
    BY <2>1 DEF StorageInv, StorageTypeOK, TableOK
  <2> QED
    BY <2>2, <2>3, <2>4
<1>8. FreshStaysReadable'
  <2> DEFINE S == {"remove", "erase"}
  <2> SUFFICES ASSUME NEW i \in Ids, content'[i] = "damaged",
                      ~(born'[i] # None /\ now' - born'[i] > Ttl),
                      i \notin wiped' \cup stranded'
               PROVE  InFetchOf(i, S)'
    BY DEF FreshStaysReadable
  <2>1. /\ content[i] = "damaged" \/ In(c, i, S)
        /\ In(call[p], i, S) => In(c, i, S)
    BY DEF Related
  <2>2. i \notin wiped \cup stranded
    BY DEF FilesKept
  <2>3. ~(born[i] # None /\ now - born[i] > Ttl)
    BY <1>2 DEF FilesKept
  <2>4. content[i] = "damaged" => InFetchOf(i, S)
    BY <2>2, <2>3 DEF StorageInv, FreshStaysReadable
  <2> HIDE DEF S
  <2> QED
    BY <1>3, <1>4, <2>1, <2>4
<1> QED
  BY <1>1, <1>5, <1>6, <1>7, <1>8 DEF StorageInv
-----------------------------------------------------------------------------
(* The steps, one after the other.  A step that only moves its call and is *)
(* not in the middle of a file: *)
LEMMA QuietKeeps ==
    ASSUME StorageInv, NEW p \in Procs, NEW c \in Calls \cup {None},
           call' = [call EXCEPT ![p] = c],
           UNCHANGED <<linked, content, meta, now, history>>,
           call[p] # None => call[p].step \notin Writing \cup Wiping,
           c # None => c.step \notin Writing,
           CallOK(p)'
    PROVE  StorageInv'
<1>1. StorageTypeOK' /\ TableOK'
  BY DEF StorageInv, StorageTypeOK, TableOK, history
<1>2. Moves(p, c)
  BY DEF Moves, In
<1>3. FilesKept(p, c)
  BY DEF FilesKept, history
<1>4. Related(p, c)
  BY DEF Related, In, Wiping, Writing, history
<1> QED
  BY <1>1, <1>2, <1>3, <1>4, SmallStep

(* The fields of a call in progress. *)
LEMMA CallFields ==
    ASSUME StorageInv, NEW p \in Procs, call[p] # None
    PROVE  /\ call[p] \in Calls /\ CallOK(p)
           /\ call[p].at \in Nat /\ call[p].at <= now /\ now \in Nat
BY DEF StorageInv, StorageTypeOK, CallOK, Calls

(* Opening and reading a file, and the ends of a sweep. *)
LEMMA QuietSteps ==
    ASSUME StorageInv, NEW p \in Procs,
           \/ \E i \in Ids, wipe \in BOOLEAN : Fetch(p, i, wipe)
           \/ Read(p) \/ StartSweep(p) \/ LockSweep(p) \/ EndSweep(p)
    PROVE  StorageInv'
<1> USE DEF Writing, Wiping, Knowing
<1>1. ASSUME NEW i \in Ids, NEW wipe \in BOOLEAN, Fetch(p, i, wipe)
      PROVE  StorageInv'
  <2> DEFINE c == [step |-> "read", id |-> i, wipe |-> wipe, at |-> now]
  <2>1. c \in Calls /\ call' = [call EXCEPT ![p] = c] /\ call[p] = None
    BY <1>1 DEF Fetch, Begin, Calls, Steps, StorageInv, StorageTypeOK
  <2>2. CallOK(p)'
    BY <1>1, <2>1 DEF Fetch, CallOK, history, StorageInv, StorageTypeOK
  <2> QED
    BY <1>1, <2>1, <2>2, QuietKeeps DEF Fetch
<1>2. CASE StartSweep(p)
  <2> DEFINE c == [step |-> "lock", id |-> None, wipe |-> FALSE, at |-> now]
  <2>1. c \in Calls /\ call' = [call EXCEPT ![p] = c] /\ call[p] = None
    BY <1>2 DEF StartSweep, Begin, Calls, Steps, StorageInv, StorageTypeOK
  <2>2. CallOK(p)'
    BY <1>2, <2>1 DEF StartSweep, CallOK, history, StorageInv, StorageTypeOK
  <2> QED
    BY <1>2, <2>1, <2>2, QuietKeeps DEF StartSweep
<1>3. ASSUME NEW c \in Calls \cup {None}, call[p] # None,
             call' = [call EXCEPT ![p] = c],
             UNCHANGED <<linked, content, meta, now, history>>,
             call[p].step \notin Writing \cup Wiping,
             c # None => /\ c.at = call[p].at /\ c.id = call[p].id
                         /\ \/ c.step = "sweep"
                            \/ c.step = "overwrite" /\ call[p].step \in Knowing
      PROVE  StorageInv'
  <2>1. CallOK(p)'
    BY <1>3, CallFields DEF CallOK, history, StorageInv, StorageTypeOK
  <2> QED
    BY <1>3, <2>1, QuietKeeps
<1>4. CASE Read(p)
  <2>1. call[p] # None /\ call[p].step = "read" /\ call[p] \in Calls
    BY <1>4, CallFields DEF Read, At
  <2>2. CASE Return(p)
    BY <1>3, <1>4, <2>1, <2>2 DEF Return, Read
  <2>3. CASE Goto(p, "overwrite")
    <3> DEFINE c == [call[p] EXCEPT !.step = "overwrite"]
    <3>1. /\ c \in Calls /\ c.step = "overwrite"
          /\ c.at = call[p].at /\ c.id = call[p].id
      BY <2>1 DEF Calls, Steps
    <3>2. call' = [call EXCEPT ![p] = c]
      BY <2>3 DEF Goto
    <3> HIDE DEF c
    <3> QED
      BY <1>3, <1>4, <2>1, <3>1, <3>2 DEF Read
  <2> QED
    BY <1>4, <2>2, <2>3 DEF Read, AfterRead
<1>5. CASE LockSweep(p)
  <2> DEFINE c == [call[p] EXCEPT !.step = "sweep"]
  <2>1. call[p] # None /\ call[p].step = "lock" /\ call[p] \in Calls
    BY <1>5, CallFields DEF LockSweep, At
  <2>2. c \in Calls /\ c.step = "sweep" /\ c.at = call[p].at /\ c.id = call[p].id
    BY <2>1 DEF Calls, Steps
  <2>3. call' = [call EXCEPT ![p] = c]
    BY <1>5 DEF LockSweep, Goto
  <2> HIDE DEF c
  <2> QED
    BY <1>3, <1>5, <2>1, <2>2, <2>3 DEF LockSweep
<1>6. CASE EndSweep(p)
  <2>1. call[p] # None /\ call[p].step = "sweep"
    BY <1>6 DEF EndSweep, At
  <2> QED
    BY <1>3, <1>6, <2>1 DEF EndSweep, Return
<1> QED
  BY <1>1, <1>2, <1>4, <1>5, <1>6

(* Put: the three steps of a writer. *)
LEMMA PutKeeps ==
    ASSUME StorageInv, NEW p \in Procs, NEW i \in Ids, Put(p, i)
    PROVE  StorageInv'
<1> DEFINE c == [step |-> "write", id |-> i, wipe |-> FALSE, at |-> now]
<1> USE StorageAssumption DEF Writing, Wiping, Knowing, history
<1>1. /\ c \in Calls /\ c # None /\ c.step = "write" /\ c.id = i /\ c.at = now
      /\ call' = [call EXCEPT ![p] = c] /\ call[p] = None
  <2>1. c \in Calls
    BY DEF Calls, Steps, StorageInv, StorageTypeOK
  <2>2. c # None
    BY <2>1, NoneIsNoCall
  <2> QED
    BY <2>1, <2>2 DEF Put, Begin
<1>2. /\ content[i] = None
      /\ linked' = linked \cup {i}
      /\ content' = [content EXCEPT ![i] = "part"]
      /\ UNCHANGED <<meta, holder, now, history>>
  BY DEF Put, Created
<1>3. born[i] = None /\ meta[i] = None
  BY <1>2 DEF StorageInv, TableOK
<1> HIDE DEF c
<1>4. StorageTypeOK' /\ TableOK'
  BY <1>1, <1>2 DEF StorageInv, StorageTypeOK, TableOK
<1>5. CallOK(p)'
  BY <1>1, <1>2, <1>3 DEF CallOK, StorageInv, StorageTypeOK
<1>6. Moves(p, c)
  BY <1>1, <1>2 DEF Moves, In
<1>7. FilesKept(p, c)
  BY <1>1, <1>2 DEF FilesKept, In
<1>8. Related(p, c)
  BY <1>1, <1>2, <1>3 DEF Related, In, StorageInv, StorageTypeOK
<1> QED
  BY <1>4, <1>5, <1>6, <1>7, <1>8, SmallStep

(* The writes, by the one thread that knows the file. *)
LEMMA WriteKeeps ==
    ASSUME StorageInv, NEW p \in Procs, Write(p)
    PROVE  StorageInv'
<1> DEFINE i == call[p].id
           c == [call[p] EXCEPT !.step = "record", !.at = now]
<1> USE StorageAssumption DEF Writing, Wiping, Knowing, history
<1>1. /\ call[p] # None /\ call[p].step = "write"
      /\ call[p] \in Calls /\ now \in Nat
      /\ i \in Ids /\ i \in linked /\ born[i] = None
  BY CallFields DEF Write, At, CallOK, StorageInv, StorageTypeOK
<1>2. PICK d \in {"part", "whole"} : content' = [content EXCEPT ![i] = d]
  BY DEF Write
<1>3. /\ c \in Calls /\ c.step = "record" /\ c.id = i /\ c.at = now
      /\ c # None /\ call' = [call EXCEPT ![p] = c]
      /\ UNCHANGED <<linked, meta, holder, now, history>>
  <2>1. c \in Calls /\ c.step = "record" /\ c.id = i /\ c.at = now
    BY <1>1 DEF Calls, Steps
  <2>2. call' = [call EXCEPT ![p] = c]
    BY DEF Write
  <2>3. c # None
    BY <2>1, NoneIsNoCall
  <2> QED
    BY <2>1, <2>2, <2>3 DEF Write
<1> HIDE DEF c, i
<1>4. StorageTypeOK'
  BY <1>1, <1>2, <1>3 DEF StorageInv, StorageTypeOK
<1>5. TableOK'
  BY <1>1, <1>2, <1>3 DEF StorageInv, StorageTypeOK, TableOK
<1>6. CallOK(p)'
  BY <1>1, <1>3 DEF CallOK, StorageInv, StorageTypeOK
<1>7. Moves(p, c)
  BY <1>1, <1>3 DEF Moves, In, i
<1>8. FilesKept(p, c)
  BY <1>3 DEF FilesKept
<1>9. Related(p, c)
  BY <1>1, <1>2, <1>3 DEF Related, In, i, StorageInv, StorageTypeOK
<1> QED
  BY <1>4, <1>5, <1>6, <1>7, <1>8, <1>9, SmallStep

(* The entry, made for a file that nobody could remove meanwhile. *)
LEMMA RecordKeeps ==
    ASSUME StorageInv, NEW p \in Procs, Record(p)
    PROVE  StorageInv'
<1> DEFINE i == call[p].id
           a == call[p].at
<1> USE StorageAssumption DEF Writing, Wiping, Knowing, history
<1>1. /\ call[p] # None /\ call[p].step = "record" /\ a \in Nat
      /\ i \in Ids /\ i \in linked /\ born[i] = None
  BY CallFields DEF Record, At, CallOK, StorageInv, StorageTypeOK
<1>2. /\ call' = [call EXCEPT ![p] = None]
      /\ meta' = [meta EXCEPT ![i] = a]
      /\ born' = [born EXCEPT ![i] = a]
      /\ UNCHANGED <<linked, content, holder, now, wiped, stuck, stranded>>
  BY DEF Record, Return
<1>3. content[i] # None /\ meta[i] = None
  BY <1>1 DEF StorageInv, TableOK
<1> HIDE DEF i, a
<1>4. StorageTypeOK'
  BY <1>1, <1>2 DEF StorageInv, StorageTypeOK
<1>5. TableOK'
  BY <1>1, <1>2, <1>3 DEF StorageInv, StorageTypeOK, TableOK
<1>6. CallOK(p)'
  BY <1>2 DEF CallOK, StorageInv, StorageTypeOK
<1>7. Moves(p, None)
  BY <1>2 DEF Moves, In
<1>8. FilesKept(p, None)
  BY <1>1, <1>2 DEF FilesKept, In, i, StorageInv, StorageTypeOK
<1>9. Related(p, None)
  BY <1>1, <1>2 DEF Related, In, i, StorageInv, StorageTypeOK
<1> QED
  BY <1>4, <1>5, <1>6, <1>7, <1>8, <1>9, SmallStep

(* A wiping Fetch.  WipeFile is the same for both who use it: *)
LEMMA OverwriteIs ==
    ASSUME StorageInv, NEW i \in Ids, Overwrite(i)
    PROVE  /\ content' \in [Ids -> {None, "part", "whole", "damaged"}]
           /\ \A j \in Ids : \/ content'[j] = content[j]
                             \/ j = i /\ content'[j] = "damaged"
BY DEF Overwrite, StorageInv, StorageTypeOK

(* A removal that fails is written down. *)
LEMMA RemoveIs ==
    ASSUME StorageInv, NEW p \in Procs, NEW i \in Ids, Remove(p, i)
    PROVE  /\ stuck \subseteq stuck' /\ linked' \subseteq linked
           /\ i \notin linked' \ stuck'
           /\ \A j \in linked : j \in linked' \/ j = i
BY DEF Remove

(* WipeFile overwrites, if there is something to open. *)
LEMMA FetchOverwriteKeeps ==
    ASSUME StorageInv, NEW p \in Procs, FetchOverwrite(p)
    PROVE  StorageInv'
<1> DEFINE i == call[p].id
<1> USE StorageAssumption DEF Writing, Wiping, Knowing, history
<1>1. /\ call[p] # None /\ call[p].step = "overwrite" /\ call[p] \in Calls
      /\ call[p].at <= now
      /\ i \in Ids /\ born[i] # None
      /\ UNCHANGED <<linked, meta, holder, now, history>>
  BY CallFields DEF FetchOverwrite, At, CallOK
<1>2. PICK s \in {"remove", "erase"} :
         /\ Goto(p, s)
         /\ i \in linked => s = "remove" /\ Overwrite(i)
         /\ i \notin linked => s = "erase" /\ UNCHANGED content
  BY DEF FetchOverwrite
<1> DEFINE c == [call[p] EXCEPT !.step = s]
<1>3. /\ c \in Calls /\ c.step = s /\ c.id = i /\ c.at = call[p].at
      /\ call' = [call EXCEPT ![p] = c]
  BY <1>1, <1>2 DEF Goto, Calls, Steps
<1>4. c # None
  BY <1>3, NoneIsNoCall
<1>5. /\ content' \in [Ids -> {None, "part", "whole", "damaged"}]
      /\ \A j \in Ids : \/ content'[j] = content[j]
                        \/ j = i /\ content'[j] = "damaged"
  BY <1>1, <1>2, OverwriteIs DEF StorageInv, StorageTypeOK
<1> HIDE DEF c, i
<1>6. StorageTypeOK'
  BY <1>1, <1>3, <1>5 DEF StorageInv, StorageTypeOK
<1>7. TableOK'
  BY <1>1, <1>5 DEF StorageInv, StorageTypeOK, TableOK
<1>8. CallOK(p)'
  BY <1>1, <1>2, <1>3 DEF CallOK, StorageInv, StorageTypeOK
<1>9. Moves(p, c)
  BY <1>1, <1>2, <1>3 DEF Moves, In
<1>10. FilesKept(p, c)
  BY <1>1 DEF FilesKept
<1>11. Related(p, c)
  BY <1>1, <1>2, <1>3, <1>4, <1>5 DEF Related, In, i
<1> QED
  BY <1>6, <1>7, <1>8, <1>9, <1>10, <1>11, SmallStep

(* It removes the path. *)
LEMMA FetchRemoveKeeps ==
    ASSUME StorageInv, NEW p \in Procs, FetchRemove(p)
    PROVE  StorageInv'
<1> DEFINE i == call[p].id
           c == [call[p] EXCEPT !.step = "erase"]
<1> USE StorageAssumption DEF Writing, Wiping, Knowing, history
<1>1. /\ call[p] # None /\ call[p].step = "remove" /\ call[p] \in Calls
      /\ call[p].at <= now
      /\ i \in Ids /\ born[i] # None
      /\ UNCHANGED <<content, meta, holder, now, born, wiped, stranded>>
  BY CallFields DEF FetchRemove, At, CallOK
<1>2. /\ c \in Calls /\ c.step = "erase" /\ c.id = i /\ c.at = call[p].at
      /\ call' = [call EXCEPT ![p] = c]
  BY <1>1 DEF FetchRemove, Goto, Calls, Steps
<1>3. c # None
  BY <1>2, NoneIsNoCall
<1>4. /\ stuck \subseteq stuck' /\ linked' \subseteq linked
      /\ i \notin linked' \ stuck'
      /\ \A j \in linked : j \in linked' \/ j = i
  BY <1>1, RemoveIs DEF FetchRemove
<1> HIDE DEF c, i
<1>5. StorageTypeOK'
  BY <1>1, <1>2, <1>4 DEF StorageInv, StorageTypeOK
<1>6. TableOK'
  BY <1>1, <1>4 DEF StorageInv, StorageTypeOK, TableOK
<1>7. CallOK(p)'
  BY <1>1, <1>2, <1>4 DEF CallOK, StorageInv, StorageTypeOK
<1>8. Moves(p, c)
  BY <1>1, <1>2 DEF Moves, In
<1>9. FilesKept(p, c)
  BY <1>1, <1>4 DEF FilesKept
<1>10. Related(p, c)
  BY <1>1, <1>2, <1>3, <1>4 DEF Related, In, i
<1> QED
  BY <1>5, <1>6, <1>7, <1>8, <1>9, <1>10, SmallStep

(* Fetch erases the entry. *)
LEMMA FetchEraseKeeps ==
    ASSUME StorageInv, NEW p \in Procs, FetchErase(p)
    PROVE  StorageInv'
<1> DEFINE i == call[p].id
<1> USE StorageAssumption DEF Writing, Wiping, Knowing, history
<1>1. /\ call[p] # None /\ call[p].step = "erase"
      /\ i \in Ids /\ born[i] # None /\ i \notin linked \ stuck
  BY CallFields DEF FetchErase, At, CallOK
<1>2. /\ meta' = [meta EXCEPT ![i] = None]
      /\ wiped' = wiped \cup {i}
      /\ call' = [call EXCEPT ![p] = None]
      /\ UNCHANGED <<linked, content, holder, now, born, stuck, stranded>>
  BY DEF FetchErase, Forget, Return
<1> HIDE DEF i
<1>3. StorageTypeOK'
  BY <1>1, <1>2 DEF StorageInv, StorageTypeOK
<1>4. TableOK'
  BY <1>1, <1>2 DEF StorageInv, StorageTypeOK, TableOK
<1>5. CallOK(p)'
  BY <1>2 DEF CallOK, StorageInv, StorageTypeOK
<1>6. Moves(p, None)
  BY <1>2 DEF Moves, In
<1>7. FilesKept(p, None)
  BY <1>2 DEF FilesKept
<1>8. Related(p, None)
  BY <1>1, <1>2 DEF Related, In, i, StorageInv, StorageTypeOK
<1> QED
  BY <1>3, <1>4, <1>5, <1>6, <1>7, <1>8, SmallStep

(* A sweep of CleanupExpired, whose reading of the clock may be old. *)
LEMMA ExpiredIs ==
    ASSUME StorageInv, NEW p \in Procs, call[p] # None,
           NEW i \in Expired(call[p].at)
    PROVE  i \in Ids /\ meta[i] # None /\ born[i] # None /\ now - born[i] > Ttl
<1>1. i \in Ids /\ meta[i] # None /\ call[p].at - meta[i] > Ttl
  BY DEF Expired
<1>2. born[i] = meta[i]
  BY <1>1 DEF StorageInv, TableOK
<1>3. meta[i] \in Nat /\ call[p].at \in Nat /\ now \in Nat /\ call[p].at <= now
  BY <1>1, CallFields DEF StorageInv, StorageTypeOK
<1> QED
  BY <1>1, <1>2, <1>3, StorageAssumption

(* The sweep overwrites an expired file, or forgets an entry without one. *)
LEMMA SweepOverwriteKeeps ==
    ASSUME StorageInv, NEW p \in Procs, NEW i \in Ids, SweepOverwrite(p, i)
    PROVE  StorageInv'
<1> USE StorageAssumption DEF Writing, Wiping, Knowing, history
<1>1. /\ call[p] # None /\ call[p].step = "sweep" /\ call[p] \in Calls
      /\ call[p].at <= now /\ CallOK(p)
      /\ UNCHANGED <<linked, holder, now, history>>
  BY CallFields DEF SweepOverwrite, At
<1>2. meta[i] # None /\ born[i] # None /\ now - born[i] > Ttl
  BY <1>1, ExpiredIs DEF SweepOverwrite
<1>3. CASE i \in linked
  <2> DEFINE c == [call[p] EXCEPT !.step = "sweepRemove", !.id = i]
  <2>1. Overwrite(i) /\ UNCHANGED meta
    BY <1>3 DEF SweepOverwrite
  <2>2. /\ c \in Calls /\ c.step = "sweepRemove" /\ c.id = i /\ c.at = call[p].at
        /\ call' = [call EXCEPT ![p] = c]
    BY <1>1, <1>3 DEF SweepOverwrite, Calls, Steps
  <2>3. /\ content' \in [Ids -> {None, "part", "whole", "damaged"}]
        /\ \A j \in Ids : \/ content'[j] = content[j]
                          \/ j = i /\ content'[j] = "damaged"
    BY <2>1, OverwriteIs
  <2> HIDE DEF c
  <2>4. StorageTypeOK'
    BY <1>1, <2>1, <2>2, <2>3 DEF StorageInv, StorageTypeOK
  <2>5. TableOK'
    BY <1>1, <2>1, <2>3 DEF StorageInv, StorageTypeOK, TableOK
  <2>6. CallOK(p)'
    BY <1>1, <1>2, <2>2 DEF CallOK, StorageInv, StorageTypeOK
  <2>7. Moves(p, c)
    BY <1>1, <2>2 DEF Moves, In
  <2>8. FilesKept(p, c)
    BY <1>1 DEF FilesKept
  <2>9. Related(p, c)
    BY <1>1, <1>2, <2>1, <2>2, <2>3 DEF Related, In
  <2> QED
    BY <2>4, <2>5, <2>6, <2>7, <2>8, <2>9, SmallStep
<1>4. CASE i \notin linked
  <2>1. meta' = [meta EXCEPT ![i] = None] /\ UNCHANGED <<content, call>>
    BY <1>4 DEF SweepOverwrite, Forget
  <2>2. StorageTypeOK'
    BY <1>1, <2>1 DEF StorageInv, StorageTypeOK
  <2>3. TableOK'
    BY <1>1, <2>1 DEF StorageInv, StorageTypeOK, TableOK
  <2>4. CallOK(p)'
    BY <1>1, <2>1 DEF CallOK
  <2>5. Moves(p, call[p])
    BY <1>1, <2>1 DEF Moves, In, StorageInv, StorageTypeOK
  <2>6. FilesKept(p, call[p])
    BY <1>1 DEF FilesKept
  <2>7. Related(p, call[p])
    BY <1>1, <1>4, <2>1 DEF Related, In, StorageInv, StorageTypeOK
  <2> QED
    BY <2>2, <2>3, <2>4, <2>5, <2>6, <2>7, SmallStep
<1> QED
  BY <1>3, <1>4

(* It removes the path and the entry. *)
LEMMA SweepRemoveKeeps ==
    ASSUME StorageInv, NEW p \in Procs, SweepRemove(p)
    PROVE  StorageInv'
<1> DEFINE i == call[p].id
           c == [call[p] EXCEPT !.step = "sweep"]
<1> USE StorageAssumption DEF Writing, Wiping, Knowing, history
<1>1. /\ call[p] # None /\ call[p].step = "sweepRemove" /\ call[p] \in Calls
      /\ call[p].at <= now
      /\ i \in Ids /\ born[i] # None
      /\ UNCHANGED <<content, holder, now, born, wiped, stranded>>
      /\ meta' = [meta EXCEPT ![i] = None]
  BY CallFields DEF SweepRemove, At, CallOK, Forget
<1>2. /\ c \in Calls /\ c.step = "sweep" /\ c.at = call[p].at
      /\ call' = [call EXCEPT ![p] = c]
  BY <1>1 DEF SweepRemove, Goto, Calls, Steps
<1>3. /\ stuck \subseteq stuck' /\ linked' \subseteq linked
      /\ i \notin linked' \ stuck'
      /\ \A j \in linked : j \in linked' \/ j = i
  BY <1>1, RemoveIs DEF SweepRemove
<1> HIDE DEF c, i
<1>4. StorageTypeOK'
  BY <1>1, <1>2, <1>3 DEF StorageInv, StorageTypeOK
<1>5. TableOK'
  BY <1>1, <1>3 DEF StorageInv, StorageTypeOK, TableOK
<1>6. CallOK(p)'
  BY <1>1, <1>2 DEF CallOK, StorageInv, StorageTypeOK
<1>7. Moves(p, c)
  BY <1>1, <1>2 DEF Moves, In
<1>8. FilesKept(p, c)
  BY <1>1, <1>3 DEF FilesKept
<1>9. Related(p, c)
  BY <1>1, <1>2, <1>3 DEF Related, In, StorageInv, StorageTypeOK
<1> QED
  BY <1>4, <1>5, <1>6, <1>7, <1>8, <1>9, SmallStep

(* A stop forgets the table and every call: what is there is stranded. *)
LEMMA RestartKeeps ==
    ASSUME StorageInv, Restart
    PROVE  StorageInv'
<1>1. /\ meta' = [i \in Ids |-> None] /\ call' = [p \in Procs |-> None]
      /\ UNCHANGED <<linked, content, now, born, wiped, stuck>>
      /\ linked \cup stranded \subseteq stranded'
      /\ \A p \in Procs : call[p] # None /\ call[p].id # None
                             => call[p].id \in stranded'
  BY DEF Restart, InCall
<1>2. StorageTypeOK' /\ TableOK'
  BY <1>1 DEF StorageInv, StorageTypeOK, TableOK
<1>3. OneWriter' /\ \A p \in Procs : CallOK(p)'
  BY <1>1 DEF OneWriter, CallOK
<1>4. MetaHasFile' /\ NoOrphans' /\ WipedIsGone'
  BY <1>1 DEF StorageInv, MetaHasFile, NoOrphans, WipedIsGone
<1>5. FreshStaysReadable'
  <2> SUFFICES ASSUME NEW i \in Ids, content[i] = "damaged",
                      InFetchOf(i, {"remove", "erase"})
               PROVE  i \in stranded'
    BY <1>1 DEF StorageInv, FreshStaysReadable
  <2>1. PICK p \in Procs : /\ call[p] # None /\ call[p].id = i
                           /\ call[p].step \in {"remove", "erase"}
    BY DEF InFetchOf
  <2>2. i \in stranded' \/ i = None
    BY <1>1, <2>1
  <2> QED
    BY <2>2, StorageAssumption
<1> QED
  BY <1>2, <1>3, <1>4, <1>5 DEF StorageInv

(* Time only makes files older. *)
LEMMA TickKeeps ==
    ASSUME StorageInv, Tick
    PROVE  StorageInv'
<1>1. /\ now' = now + 1 /\ now \in Nat
      /\ UNCHANGED <<linked, content, meta, holder, call, history>>
  BY DEF Tick, StorageInv, StorageTypeOK
<1>2. StorageTypeOK' /\ TableOK' /\ OneWriter'
  BY <1>1 DEF StorageInv, StorageTypeOK, TableOK, OneWriter, history
<1>3. ASSUME NEW p \in Procs
      PROVE  CallOK(p)'
  <2>1. call[p] # None => call[p].at \in Nat
    BY CallFields
  <2> QED
    BY <1>1, <2>1 DEF StorageInv, CallOK, history
<1>4. MetaHasFile' /\ NoOrphans' /\ WipedIsGone'
  BY <1>1 DEF StorageInv, MetaHasFile, NoOrphans, WipedIsGone, InFetchOf, history
<1>5. FreshStaysReadable'
  <2>1. \A i \in Ids : born[i] # None /\ now - born[i] > Ttl => now' - born[i] > Ttl
    BY <1>1, StorageAssumption DEF StorageInv, StorageTypeOK
  <2> QED
    BY <1>1, <2>1 DEF StorageInv, FreshStaysReadable, InFetchOf, history
<1> QED
  BY <1>2, <1>3, <1>4, <1>5 DEF StorageInv

(* The invariant, for every interleaving, every stop and every clock. *)
THEOREM StorageSafe == Spec => []StorageInv
<1>1. StorageInv /\ [Next]_vars => StorageInv'
  <2> SUFFICES ASSUME StorageInv, [Next]_vars PROVE StorageInv'
    OBVIOUS
  <2>1. ASSUME NEW p \in Procs, ProcNext(p)
        PROVE  StorageInv'
    BY <2>1, PutKeeps, WriteKeeps, RecordKeeps, QuietSteps, FetchOverwriteKeeps,
       FetchRemoveKeeps, FetchEraseKeeps, SweepOverwriteKeeps, SweepRemoveKeeps
    DEF ProcNext
  <2>2. CASE UNCHANGED vars
    BY <2>2
    DEF vars, history, StorageInv, StorageTypeOK, TableOK, OneWriter, CallOK,
        MetaHasFile, NoOrphans, WipedIsGone, FreshStaysReadable, InFetchOf
  <2> QED
    BY <2>1, <2>2, RestartKeeps, TickKeeps DEF Next
<1> QED
  BY StorageInit, <1>1, PTL DEF Spec

(* The table stands for files that are there, or that a wiping Fetch is    *)
(* just removing.                                                          *)
THEOREM MetaSafe == Spec => []MetaHasFile
<1>1. StorageInv => MetaHasFile
  BY DEF StorageInv
<1> QED
  BY <1>1, StorageSafe, PTL

(* No file is forgotten but by a failed removal or a stop of the server. *)
THEOREM OrphansSafe == Spec => []NoOrphans
<1>1. StorageInv => NoOrphans
  BY DEF StorageInv
<1> QED
  BY <1>1, StorageSafe, PTL

(* A Fetch that returned with wipe_after_read left no file. *)
THEOREM WipedSafe == Spec => []WipedIsGone
<1>1. StorageInv => WipedIsGone
  BY DEF StorageInv
<1> QED
  BY <1>1, StorageSafe, PTL

(* No sweep spoils a file within its lifetime. *)
THEOREM FreshSafe == Spec => []FreshStaysReadable
<1>1. StorageInv => FreshStaysReadable
  BY DEF StorageInv
<1> QED
  BY <1>1, StorageSafe, PTL
=============================================================================
