------------------------------ MODULE AuditLog ------------------------------
(***************************************************************************)
(* AuditLog of audit.py, for one host: record() stamps its line on the     *)
(* event loop, waits for the lock of the host, and lets a worker thread    *)
(* roll the daily file over, write and flush.  close() runs on the event   *)
(* loop at shutdown; a new process sweeps old files before it takes calls. *)
(*                                                                         *)
(* The lock is held by the coroutine, not by its thread: a coroutine that  *)
(* is cancelled gives the lock back while its thread writes on.            *)
(***************************************************************************)
EXTENDS Naturals, Sequences, SequencesExt

CONSTANTS
    Calls,       \* the records that tool calls write
    Background,  \* the records that maintenance tasks write
    None,        \* absent entry
    Faults,      \* the faults that may strike, a subset of FaultKinds
    MaxFaults,   \* bound: how many of them strike in a behaviour
    Retention,   \* retention_days
    LastDay      \* bound: the last day of the clock

\* A call is cancelled, the process dies, a file cannot be opened, the disk
\* is full.
FaultKinds == {"cancel", "crash", "open", "full"}

ASSUME RecordsAssumption ==
    Calls \cap Background = {} /\ None \notin Calls \cup Background
ASSUME FaultsAssumption == Faults \subseteq FaultKinds
ASSUME NumbersAssumption ==
    MaxFaults \in Nat /\ Retention \in Nat /\ LastDay \in Nat

Records == Calls \cup Background
Days == 0..LastDay

VARIABLES
    today,    \* the UTC date
    serving,  \* whether the server still takes calls
    faults,   \* how many faults struck so far
    lock,     \* _HostState.lock: the record that holds it
    queue,    \* the records that wait for it, first come first served
    file,     \* _HostState.file: the record that opened it
    handle,   \* handle[r]: the file that the thread of r opened
    buffer,   \* buffer[r]: the lines written to it and not flushed
    pc,       \* pc[r]: where the coroutine of record r is suspended
    thread,   \* thread[r]: what its worker thread does next
    stamp,    \* stamp[r]: the day in its ts field
    target,   \* target[r]: the day for which its thread opens a file
    lines,    \* lines[d]: what was flushed to the file of day d
    swept,    \* the files of the days before this one are deleted
    begun     \* history: the records in the order record() was called

envVars  == <<today, serving, faults>>
lockVars == <<lock, queue>>
fileVars == <<file, handle, buffer>>
taskVars == <<pc, thread, stamp, target>>
diskVars == <<lines, swept>>
vars == <<envVars, lockVars, fileVars, taskVars, diskVars, begun>>

\* failed: the operating system refused; broken: the thread found no file,
\* or a closed one.
Ended == {"done", "failed", "broken", "cancelled", "crashed"}
PCs == {"new", "lock", "thread"} \cup Ended
Running == {"queued", "close", "open", "write", "flush"}
Threads == {"none", "end", "refused", "error"} \cup Running

TypeOK ==
    /\ today \in Days /\ serving \in BOOLEAN /\ faults \in 0..MaxFaults
    /\ lock \in Records \cup {None} /\ queue \in Seq(Records)
    /\ file \in Records \cup {None}
    /\ handle \in [Records -> [day : Days, open : BOOLEAN]]
    /\ buffer \in [Records -> Seq(Records)]
    /\ pc \in [Records -> PCs] /\ thread \in [Records -> Threads]
    /\ stamp \in [Records -> Days] /\ target \in [Records -> Days]
    /\ lines \in [Days -> Seq(Records)] /\ swept \in Days
    /\ begun \in Seq(Records)
    /\ \A r \in Records : (lock = r) <=> (pc[r] = "thread")
    /\ \A r \in Records : (pc[r] = "lock") <=> \E i \in DOMAIN queue : queue[i] = r

Init ==
    /\ today = 0 /\ serving = TRUE /\ faults = 0
    /\ lock = None /\ queue = <<>>
    /\ file = None
    /\ handle = [r \in Records |-> [day |-> 0, open |-> FALSE]]
    /\ buffer = [r \in Records |-> <<>>]
    /\ pc = [r \in Records |-> "new"]
    /\ thread = [r \in Records |-> "none"]
    /\ stamp = [r \in Records |-> 0] /\ target = stamp
    /\ lines = [d \in Days |-> <<>>] /\ swept = 0
    /\ begun = <<>>

Strikes(f) ==
    /\ f \in Faults
    /\ faults < MaxFaults
    /\ faults' = faults + 1

At(r, p)   == pc' = [pc EXCEPT ![r] = p]
Does(r, s) == thread' = [thread EXCEPT ![r] = s]

-----------------------------------------------------------------------------
(* The coroutine.                                                          *)

\* Every call of record() is stamped before it waits.
Stamp(r) ==
    /\ pc[r] = "new"
    /\ r \in Calls => serving
    /\ stamp' = [stamp EXCEPT ![r] = today]
    /\ begun' = Append(begun, r)
    /\ UNCHANGED <<envVars, fileVars, diskVars, target>>

\* A free lock is taken at once unless someone waits for it.
RecordEnters(r) ==
    /\ Stamp(r)
    /\ lock = None /\ queue = <<>>
    /\ lock' = r /\ UNCHANGED queue
    /\ At(r, "thread") /\ Does(r, "queued")

\* Mutant of RecordWaits: the lock is not waited for.
RecordWaitsNot(r) ==
    /\ Stamp(r)
    /\ lock # None \/ queue # <<>>
    /\ At(r, "thread") /\ Does(r, "queued")
    /\ UNCHANGED lockVars

RecordWaits(r) ==
    /\ Stamp(r)
    /\ lock # None \/ queue # <<>>
    /\ queue' = Append(queue, r)
    /\ At(r, "lock")
    /\ UNCHANGED <<lock, thread>>

RecordLocked(r) ==
    /\ pc[r] = "lock" /\ lock = None /\ Head(queue) = r
    /\ lock' = r /\ queue' = Tail(queue)
    /\ At(r, "thread") /\ Does(r, "queued")
    /\ UNCHANGED <<envVars, fileVars, diskVars, stamp, target, begun>>

Result(r) == CASE thread[r] = "end"     -> "done"
               [] thread[r] = "refused" -> "failed"
               [] thread[r] = "error"   -> "broken"

\* Mutant of RecordEnds: a thread that raised leaves the lock taken.
RecordEndsLocked(r) ==
    /\ pc[r] = "thread" /\ thread[r] \notin Running
    /\ lock' = IF thread[r] = "end" THEN None ELSE lock
    /\ At(r, Result(r)) /\ Does(r, "none")
    /\ UNCHANGED <<envVars, queue, fileVars, diskVars, stamp, target, begun>>

RecordEnds(r) ==
    /\ pc[r] = "thread" /\ thread[r] \notin Running
    /\ lock' = None
    /\ At(r, Result(r)) /\ Does(r, "none")
    /\ UNCHANGED <<envVars, queue, fileVars, diskVars, stamp, target, begun>>

\* Mutant of Cancelled: a waiter keeps its place in the queue.
CancelledInQueue(r) ==
    /\ At(r, "cancelled")
    /\ lock' = IF lock = r THEN None ELSE lock
    /\ UNCHANGED <<queue, thread>>

\* A waiter leaves the queue, a holder gives the lock back.  A thread that
\* began goes on without its coroutine; one that did not is withdrawn.
Cancelled(r) ==
    /\ At(r, "cancelled")
    /\ \/ /\ lock = r /\ lock' = None /\ UNCHANGED queue
       \/ \E i \in DOMAIN queue :
            queue[i] = r /\ queue' = RemoveAt(queue, i) /\ UNCHANGED lock
    /\ \/ thread[r] = "queued" /\ Does(r, "none")
       \/ UNCHANGED thread

\* The client cancels a call; asyncio.run cancels what outlives the server.
Cancel(r) ==
    /\ pc[r] \in {"lock", "thread"}
    /\ \/ r \in Calls /\ Strikes("cancel")
       \/ r \in Background /\ ~serving /\ UNCHANGED faults
    /\ Cancelled(r)
    /\ UNCHANGED <<today, serving, fileVars, diskVars, stamp, target, begun>>

-----------------------------------------------------------------------------
(* The thread, _write_locked.                                              *)

Usable == file # None /\ handle[file].open

\* The lines that wait for handle h reach the disk.
Flushes(h) ==
    /\ lines' = [lines EXCEPT ![handle[h].day] = @ \o buffer[h]]
    /\ buffer' = [buffer EXCEPT ![h] = <<>>]
    /\ UNCHANGED swept

\* handle.close() flushes; when that fails the handle is closed all the same.
Closes(h) ==
    /\ handle' = [handle EXCEPT ![h].open = FALSE]
    /\ Flushes(h)
ClosesDirty(h) ==
    /\ buffer[h] # <<>>
    /\ handle' = [handle EXCEPT ![h].open = FALSE]
    /\ buffer' = [buffer EXCEPT ![h] = <<>>]
    /\ UNCHANGED diskVars

\* Mutant of ThreadChecks: the date is looked at when there is no file only.
ThreadChecksFile(r) ==
    /\ thread[r] = "queued"
    /\ target' = [target EXCEPT ![r] = today]
    /\ Does(r, IF file = None THEN "open" ELSE "write")
    /\ UNCHANGED <<envVars, lockVars, fileVars, diskVars, pc, stamp, begun>>

ThreadChecks(r) ==
    /\ thread[r] = "queued"
    /\ \/ /\ file = None
          /\ target' = [target EXCEPT ![r] = today] /\ Does(r, "open")
       \/ /\ file # None /\ handle[file].day # today
          /\ target' = [target EXCEPT ![r] = today] /\ Does(r, "close")
       \/ /\ file # None /\ handle[file].day = today
          /\ Does(r, "write") /\ UNCHANGED target
    /\ UNCHANGED <<envVars, lockVars, fileVars, diskVars, pc, stamp, begun>>

\* Roll over: close the file of another day, if it is still there and open.
ThreadCloses(r) ==
    /\ thread[r] = "close"
    /\ \/ /\ Usable /\ Closes(file)
          /\ Does(r, "open") /\ UNCHANGED faults
       \/ /\ Usable /\ ClosesDirty(file)
          /\ Does(r, "refused") /\ Strikes("full")
       \/ /\ ~Usable /\ Does(r, "open")
          /\ UNCHANGED <<faults, handle, buffer, diskVars>>
    /\ UNCHANGED <<today, serving, lockVars, file, pc, stamp, target, begun>>

\* The file of the day is opened for appending and replaces _HostState.file:
\* a file that another thread opened meanwhile loses its last reference and
\* is closed with it.
ThreadOpens(r) ==
    LET opened == [day |-> target[r], open |-> TRUE] IN
    /\ thread[r] = "open"
    /\ file' = r
    /\ IF Usable
       THEN /\ handle' = [handle EXCEPT ![file].open = FALSE, ![r] = opened]
            /\ Flushes(file)
       ELSE /\ handle' = [handle EXCEPT ![r] = opened]
            /\ UNCHANGED <<buffer, diskVars>>
    /\ Does(r, "write")
    /\ target' = [target EXCEPT ![r] = 0]
    /\ UNCHANGED <<envVars, lockVars, pc, stamp, begun>>

ThreadOpenFails(r) ==
    /\ thread[r] = "open"
    /\ Strikes("open")
    /\ Does(r, "refused")
    /\ UNCHANGED <<today, serving, lockVars, fileVars, diskVars, pc, stamp,
                   target, begun>>

ThreadWrites(r) ==
    /\ thread[r] = "write" /\ Usable
    /\ buffer' = [buffer EXCEPT ![file] = Append(@, r)]
    /\ Does(r, "flush")
    /\ UNCHANGED <<envVars, lockVars, file, handle, diskVars, pc, stamp,
                   target, begun>>

\* Mutant of ThreadFlushes: the line stays in the buffer.
ThreadFlushesNot(r) ==
    /\ thread[r] = "flush" /\ Usable
    /\ Does(r, "end")
    /\ UNCHANGED <<envVars, lockVars, fileVars, diskVars, pc, stamp, target,
                   begun>>

ThreadFlushes(r) ==
    /\ thread[r] = "flush" /\ Usable
    /\ Flushes(file)
    /\ Does(r, "end")
    /\ UNCHANGED <<envVars, lockVars, file, handle, pc, stamp, target, begun>>

\* A flush that fails keeps the line: a later flush may still write it.
ThreadFlushFails(r) ==
    /\ thread[r] = "flush" /\ Usable
    /\ Strikes("full")
    /\ Does(r, "refused")
    /\ UNCHANGED <<today, serving, lockVars, fileVars, diskVars, pc, stamp,
                   target, begun>>

\* AttributeError on None, or ValueError on a closed file.
ThreadFindsNoFile(r) ==
    /\ thread[r] \in {"write", "flush"} /\ ~Usable
    /\ Does(r, "error")
    /\ UNCHANGED <<envVars, lockVars, fileVars, diskVars, pc, stamp, target,
                   begun>>

-----------------------------------------------------------------------------
(* The process.                                                            *)

\* close(), after the last call: tasks and cancelled threads may be left.
CloseLog ==
    /\ serving
    /\ \A c \in Calls : pc[c] \in Ended \cup {"new"}
    /\ serving' = FALSE
    /\ file' = None
    /\ IF Usable THEN Closes(file)
       ELSE UNCHANGED <<handle, buffer, diskVars>>
    /\ UNCHANGED <<today, faults, lockVars, taskVars, begun>>

\* sweep_retention deletes the files of the days before the cutoff.
Sweep ==
    swept' = IF today > Retention + swept THEN today - Retention ELSE swept

\* A new process: coroutines, threads and buffers of the old one are gone.
NewProcess ==
    /\ serving' = TRUE
    /\ lock' = None /\ queue' = <<>>
    /\ file' = None
    /\ handle' = [r \in Records |-> [handle[r] EXCEPT !.open = FALSE]]
    /\ buffer' = [r \in Records |-> <<>>]
    /\ pc' = [r \in Records |->
            IF pc[r] \in {"lock", "thread"} THEN "crashed" ELSE pc[r]]
    /\ thread' = [r \in Records |-> "none"]
    /\ Sweep
    /\ UNCHANGED <<today, stamp, target, lines, begun>>

Crash ==
    /\ Strikes("crash")
    /\ NewProcess

\* asyncio.run waits for the cancelled tasks and for the threads.
Restart ==
    /\ ~serving
    /\ \A r \in Records :
        pc[r] \in Ended \cup {"new"} /\ thread[r] \notin Running
    /\ NewProcess
    /\ UNCHANGED faults

Midnight ==
    /\ today < LastDay
    /\ today' = today + 1
    /\ UNCHANGED <<serving, faults, lockVars, fileVars, taskVars, diskVars,
                   begun>>

Step(r) ==
    \/ RecordLocked(r) \/ RecordEnds(r)
    \/ ThreadChecks(r) \/ ThreadCloses(r) \/ ThreadOpens(r)
    \/ ThreadOpenFails(r) \/ ThreadWrites(r) \/ ThreadFlushes(r)
    \/ ThreadFlushFails(r) \/ ThreadFindsNoFile(r)

Next ==
    \/ \E r \in Records :
        RecordEnters(r) \/ RecordWaits(r) \/ Step(r) \/ Cancel(r)
    \/ CloseLog \/ Crash \/ Restart \/ Midnight

Spec == Init /\ [][Next]_vars

\* The event loop and the worker threads are scheduled; nothing else is owed.
LiveSpec == Spec /\ \A r \in Records : WF_vars(Step(r))

-----------------------------------------------------------------------------
(* Properties.                                                             *)

Calm == \A r \in Records : pc[r] # "cancelled"

\* Where the line of record r stands in the files: its day, its place.
Copies(r) ==
    UNION {{d} \X {i \in DOMAIN lines[d] : lines[d][i] = r} : d \in Days}

\* A record is never in the files twice, whatever was cancelled, crashed or
\* rolled over.  Once record() returned it is there, unless someone cancelled
\* and a disk was full: then the close of another thread may take its line
\* along.  The sweep spares it for retention_days.
Durable ==
    \A r \in Records :
        /\ \A p, q \in Copies(r) : p = q
        /\ pc[r] = "done" /\ (Calm \/ "full" \notin Faults) => Copies(r) # {}
        /\ Calm /\ stamp[r] + Retention >= today =>
            \A p \in Copies(r) : p[1] >= swept

Before(p, q) == p[1] < q[1] \/ (p[1] = q[1] /\ p[2] < q[2])

\* The lines of a host stand, within a file and across midnight, in the order
\* in which record() was called, also those of calls that failed.  A record may
\* be in the file of a later day than its ts, never of an earlier one: who
\* looks for a day from its file on misses nothing.
LinesInOrder ==
    Calm => \A i \in DOMAIN begun : \A p \in Copies(begun[i]) :
        /\ stamp[begun[i]] <= p[1]
        /\ \A j \in DOMAIN begun : i < j =>
            \A q \in Copies(begun[j]) : Before(p, q)

\* While nobody cancels, no tool call finds its file closed or missing, not
\* even next to maintenance tasks and the shutdown.
NoCallFindsItsFileClosed ==
    Calm => \A c \in Calls : pc[c] # "broken"

\* Every call of record() ends: no way out of a write keeps the host lock.
RecordsEnd == <>[](\A r \in Records : pc[r] \in Ended \cup {"new"})
=============================================================================
