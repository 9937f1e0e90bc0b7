--------------------------- MODULE OfflineStorage ---------------------------
(***************************************************************************)
(* OfflineStorage: one encrypted file per stored payload, and a table of   *)
(* metadata in memory.  Only the table has a mutex; Put and Fetch touch    *)
(* the file outside it, CleanupExpired inside it, and a stop of the server *)
(* keeps the files and forgets the table.                                  *)
(*                                                                         *)
(* A file is its path (linked) and its content: part while it is written,  *)
(* whole, or damaged by WipeFile's overwriting.  Decrypt accepts a whole   *)
(* content only.  Ids and keys are drawn at random: no id names two files, *)
(* and a caller knows the key of a file only once its Put has returned.    *)
(***************************************************************************)
EXTENDS Integers

CONSTANTS
    Procs,      \* threads that use the storage
    Ids,        \* file ids; none is drawn twice
    Ttl,        \* ttl_, in ticks
    MaxNow,     \* bound: ticks of the clock
    None

ASSUME StorageAssumption ==
    /\ Ttl \in Nat
    /\ MaxNow \in Nat
    /\ None \notin Nat
    /\ None \notin Procs \cup Ids \cup {"part", "whole", "damaged"}

VARIABLES
    linked,     \* ids whose file has its path
    content,    \* content of each file, None before it is created
    meta,       \* metadata_: created_at of each id, None without an entry
    holder,     \* the thread that holds mutex_ for longer than one step
    call,       \* the call each thread is inside of
    now,        \* steady_clock
    born,       \* history: created_at of each id whose Put has returned
    wiped,      \* history: ids a Fetch with wipe_after_read returned
    stuck,      \* history: files a removal failed on
    stranded    \* history: files there, or being wiped, when the server stopped

vars == <<linked, content, meta, holder, call, now, born, wiped, stuck,
          stranded>>
history == <<born, wiped, stuck, stranded>>

Created == {i \in Ids : content[i] # None}

Steps == {"write", "record", "read", "overwrite", "remove", "erase", "lock",
          "sweep", "sweepRemove"}
Calls == [step : Steps, id : Ids \cup {None}, wipe : BOOLEAN, at : Nat]

ASSUME NoneIsNoCall == None \notin Calls

At(p, step) == call[p] # None /\ call[p].step = step
Sweeping(p) == At(p, "sweep") \/ At(p, "sweepRemove")

TypeOK ==
    /\ content \in [Ids -> {None, "part", "whole", "damaged"}]
    /\ linked \subseteq Created
    /\ meta \in [Ids -> Nat \cup {None}]
    /\ call \in [Procs -> Calls \cup {None}]
    /\ \A p \in Procs : call[p] # None /\ call[p].id = None
                        => At(p, "lock") \/ At(p, "sweep")
    /\ holder \in Procs \cup {None}
    /\ \A p \in Procs : Sweeping(p) <=> holder = p
    /\ now \in Nat
    /\ born \in [Ids -> Nat \cup {None}]
    /\ wiped \subseteq Created /\ stuck \subseteq Created
    /\ stranded \subseteq Created

Init ==
    /\ linked = {}
    /\ content = [i \in Ids |-> None]
    /\ meta = [i \in Ids |-> None]
    /\ holder = None
    /\ call = [p \in Procs |-> None]
    /\ now = 0
    /\ born = [i \in Ids |-> None]
    /\ wiped = {} /\ stuck = {} /\ stranded = {}
-----------------------------------------------------------------------------
Begin(p, step, i, wipe) ==
    /\ call[p] = None
    /\ call' = [call EXCEPT ![p] = [step |-> step, id |-> i, wipe |-> wipe,
                                    at |-> now]]
Goto(p, step) == call' = [call EXCEPT ![p].step = step]
Return(p) == call' = [call EXCEPT ![p] = None]
Unlocked == holder = None
InCall == {p \in Procs : call[p] # None}

(* Put creates the file of a fresh id. *)
Put(p, i) ==
    /\ i \notin Created
    /\ Begin(p, "write", i, FALSE)
    /\ linked' = linked \cup {i}
    /\ content' = [content EXCEPT ![i] = "part"]
    /\ UNCHANGED <<meta, holder, now, history>>

(* The three writes and the close, whose failure nobody notices; then the  *)
(* stamp, before the mutex.                                                *)
Write(p) ==
    /\ At(p, "write")
    /\ \E c \in {"part", "whole"} : content' = [content EXCEPT ![call[p].id] = c]
    /\ call' = [call EXCEPT ![p].step = "record", ![p].at = now]
    /\ UNCHANGED <<linked, meta, holder, now, history>>

Record(p) ==
    /\ At(p, "record") /\ Unlocked
    /\ meta' = [meta EXCEPT ![call[p].id] = call[p].at]
    /\ born' = [born EXCEPT ![call[p].id] = call[p].at]
    /\ Return(p)
    /\ UNCHANGED <<linked, content, holder, now, wiped, stuck, stranded>>
-----------------------------------------------------------------------------
(* Fetch opens the file, if there is one. *)
Fetch(p, i, wipe) ==
    /\ born[i] # None
    /\ i \in linked
    /\ Begin(p, "read", i, wipe)
    /\ UNCHANGED <<linked, content, meta, holder, now, history>>

(* It reads, closes and decrypts; a failure returns at once. *)
Verified(p) == content[call[p].id] = "whole"

AfterRead_ForgetsBad(p) ==  \* mutant: the entry of an unreadable file is erased
    IF call[p].wipe THEN Goto(p, IF Verified(p) THEN "overwrite" ELSE "erase")
    ELSE Return(p)

AfterRead(p) == IF Verified(p) /\ call[p].wipe THEN Goto(p, "overwrite")
                ELSE Return(p)

Read(p) ==
    /\ At(p, "read")
    /\ AfterRead(p)
    /\ UNCHANGED <<linked, content, meta, holder, now, history>>

(* WipeFile as far as the flush: it overwrites what it can open. *)
Overwrite(i) ==
    \/ content' = [content EXCEPT ![i] = "damaged"]
    \/ UNCHANGED content

(* On Windows a file some other thread has open cannot be removed. *)
OpenElsewhere(p, i) ==
    \E q \in Procs \ {p} : call[q] # None /\ call[q].id = i
                           /\ call[q].step \in {"read", "remove", "sweepRemove"}

Remove_Damaged(p, i) ==  \* mutant: what could not be overwritten is kept
    /\ linked' = IF content[i] = "damaged" THEN linked \ {i} ELSE linked
    /\ UNCHANGED stuck

(* remove(path, ec), tried in any case; nobody looks at the result. *)
Remove(p, i) ==
    \/ linked' = linked \ {i} /\ UNCHANGED stuck
    \/ /\ i \in linked /\ OpenElsewhere(p, i)
       /\ stuck' = stuck \cup {i} /\ UNCHANGED linked

(* WipeFile finds nothing to do when the file is gone. *)
FetchOverwrite(p) ==
    /\ At(p, "overwrite")
    /\ IF call[p].id \in linked THEN Overwrite(call[p].id) /\ Goto(p, "remove")
       ELSE UNCHANGED content /\ Goto(p, "erase")
    /\ UNCHANGED <<linked, meta, holder, now, history>>

FetchRemove(p) ==
    /\ At(p, "remove")
    /\ Remove(p, call[p].id)
    /\ Goto(p, "erase")
    /\ UNCHANGED <<content, meta, holder, now, born, wiped, stranded>>

Forget_Expired(i) ==  \* mutant: expired entries are left to CleanupExpired
    meta' = IF meta[i] # None /\ now - meta[i] > Ttl THEN meta
            ELSE [meta EXCEPT ![i] = None]

Forget(i) == meta' = [meta EXCEPT ![i] = None]

FetchErase(p) ==
    /\ At(p, "erase") /\ Unlocked
    /\ Forget(call[p].id)
    /\ wiped' = wiped \cup {call[p].id}
    /\ Return(p)
    /\ UNCHANGED <<linked, content, holder, now, born, stuck, stranded>>
-----------------------------------------------------------------------------
(* CleanupExpired reads the clock, then takes the mutex for the whole sweep. *)
StartSweep(p) ==
    /\ Begin(p, "lock", None, FALSE)
    /\ UNCHANGED <<linked, content, meta, holder, now, history>>

LockSweep(p) ==
    /\ At(p, "lock") /\ Unlocked
    /\ holder' = p
    /\ Goto(p, "sweep")
    /\ UNCHANGED <<linked, content, meta, now, history>>

Expired_Unsigned(at) ==  \* mutant: an age below zero wraps around
    {i \in Ids : meta[i] # None /\ (at - meta[i]) % (MaxNow + 2) > Ttl}

Expired(at) == {i \in Ids : meta[i] # None /\ at - meta[i] > Ttl}

SweepOverwrite(p, i) ==
    /\ At(p, "sweep")
    /\ i \in Expired(call[p].at)
    /\ IF i \in linked
       THEN /\ Overwrite(i)
            /\ call' = [call EXCEPT ![p].step = "sweepRemove", ![p].id = i]
            /\ UNCHANGED meta
       ELSE Forget(i) /\ UNCHANGED <<content, call>>
    /\ UNCHANGED <<linked, holder, now, history>>

(* Nobody sees the table between the removal and the erase. *)
SweepRemove(p) ==
    /\ At(p, "sweepRemove")
    /\ Remove(p, call[p].id)
    /\ Forget(call[p].id)
    /\ Goto(p, "sweep")
    /\ UNCHANGED <<content, holder, now, born, wiped, stranded>>

Release == holder' = None

EndSweep(p) ==
    /\ At(p, "sweep")
    /\ Expired(call[p].at) = {}
    /\ Release
    /\ Return(p)
    /\ UNCHANGED <<linked, content, meta, now, history>>
-----------------------------------------------------------------------------
(* The server stops at any point and is started over the same directory. *)
Restart ==
    /\ meta' = [i \in Ids |-> None]
    /\ holder' = None
    /\ call' = [p \in Procs |-> None]
    /\ stranded' = stranded \cup linked
                            \cup ({call[p].id : p \in InCall} \ {None})
    /\ UNCHANGED <<linked, content, now, born, wiped, stuck>>

Tick ==
    /\ now < MaxNow
    /\ now' = now + 1
    /\ UNCHANGED <<linked, content, meta, holder, call, history>>

ProcNext(p) ==
    \/ \E i \in Ids : Put(p, i)
    \/ Write(p)
    \/ Record(p)
    \/ \E i \in Ids, wipe \in BOOLEAN : Fetch(p, i, wipe)
    \/ Read(p)
    \/ FetchOverwrite(p)
    \/ FetchRemove(p)
    \/ FetchErase(p)
    \/ StartSweep(p)
    \/ LockSweep(p)
    \/ \E i \in Ids : SweepOverwrite(p, i)
    \/ SweepRemove(p)
    \/ EndSweep(p)

Next ==
    \/ \E p \in Procs : ProcNext(p)
    \/ Restart
    \/ Tick

Spec == Init /\ [][Next]_vars
-----------------------------------------------------------------------------
InFetchOf(i, steps) ==
    \E p \in Procs : call[p] # None /\ call[p].id = i /\ call[p].step \in steps

(* Metadata stands for a file: an entry whose file is gone is one that a   *)
(* wiping fetch is just about to erase.                                    *)
MetaHasFile ==
    \A i \in Ids : meta[i] # None => \/ i \in linked
                                     \/ InFetchOf(i, {"overwrite", "remove", "erase"})

(* A file CleanupExpired will never find is one whose Put has not finished, *)
(* whose removal failed, or which an earlier run of the server left behind: *)
(* in particular no fetch forgets a file it did not remove.                 *)
NoOrphans ==
    \A i \in linked : \/ meta[i] # None
                      \/ InFetchOf(i, {"write", "record"})
                      \/ i \in stuck \cup stranded

(* A file that was fetched with wipe_after_read is gone, whoever else was  *)
(* reading, wiping or sweeping it meanwhile, unless a removal failed.      *)
WipedIsGone == \A i \in wiped \ stuck : i \notin linked

(* CleanupExpired, whose clock reading may be older than a stamp in the    *)
(* table, spoils no file within its lifetime; only a wiping fetch may, and *)
(* one that a stop of the server interrupted.                              *)
FreshStaysReadable ==
    \A i \in Ids : content[i] = "damaged" =>
        \/ born[i] # None /\ now - born[i] > Ttl
        \/ i \in wiped \cup stranded
        \/ InFetchOf(i, {"remove", "erase"})
=============================================================================
