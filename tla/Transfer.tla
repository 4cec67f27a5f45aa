------------------------------ MODULE Transfer ------------------------------
(***************************************************************************)
(* put and get of transfer.py, with the failure audit of server.py: any    *)
(* number of calls copy one local file to one remote file or back, chunk   *)
(* by chunk, while other programs rewrite either.                          *)
(*                                                                         *)
(* A step is what a call does between two awaits.  The source is read, or  *)
(* the destination written, on the local side without an await.  Opening   *)
(* the SFTP channel and the remote file are one await, and so is closing   *)
(* them.  A write to the remote file takes effect when it is answered.     *)
(***************************************************************************)
EXTENDS Naturals, Sequences

CONSTANTS
    Calls,      \* the calls of put and get
    MaxLen,     \* bound: chunks in a file
    MaxEdits,   \* bound: how often other programs rewrite a file
    Faults,     \* the faults that may strike, a subset of FaultKinds
    MaxFaults   \* bound: how many of them strike in a behaviour

FaultKinds == {"break", "connect", "sftp", "denied", "local", "audit", "cancel"}

ASSUME FaultsAssumption == Faults \subseteq FaultKinds
ASSUME BoundsAssumption == MaxLen \in Nat /\ MaxEdits \in Nat /\ MaxFaults \in Nat

VARIABLES
    file,     \* the contents of the two files
    edits,    \* how often they were rewritten by others
    gen,      \* number of the transport that the pool caches
    up,       \* whether it still works
    marked,   \* mark_dead was called on its Connection
    faults,   \* how many faults struck so far
    pc,       \* pc[c]: where call c is suspended
    kind,     \* kind[c]: "put" or "get"
    over,     \* over[c]: the transport that c uses, 0 if none
    at,       \* at[c]: chunks that c has read from its source
    held,     \* held[c]: the chunk that c is writing to the remote file
    digest,   \* digest[c]: what went into its sha256
    size,     \* size[c]: the bytes it reports, in chunks
    result,   \* result[c]: how it ended, or will
    audits,   \* audits[c]: the lines about it in the audit file, or in its
              \* buffer, which the next record of the host flushes
    sole,     \* history: since it opened its destination no other wrote it
    steady,   \* history: nobody wrote its source since it started
    reported  \* history: the transports over which others were answered
              \* `unreachable' before it took its own

fileVars == <<file, edits>>
netVars  == <<gen, up, marked, faults>>
workVars == <<at, held, digest, size>>
histVars == <<sole, steady, reported>>
vars == <<fileVars, netVars, pc, kind, over, workVars, result, audits, histVars>>

Sides == {"local", "remote"}
\* Chunk i of the version v of a file; a hole has version 0.
Chunk == Nat \X Nat
Copying == {"open", "write", "read", "close"}
\* unsaved: the record of the manager raised.
Results == {"none", "done", "rejected", "unreachable", "error", "unsaved"}
\* A call ends with its record ("end"), or is cut off without ("cut").
Over == {"end", "cut"}

TypeOK ==
    /\ file \in [Sides -> Seq(Chunk)] /\ edits \in Nat
    /\ gen \in Nat /\ up \in BOOLEAN /\ marked \in BOOLEAN /\ faults \in Nat
    /\ pc \in [Calls -> {"new", "connect", "record", "fail"} \cup Copying \cup Over]
    /\ kind \in [Calls -> {"none", "put", "get"}]
    /\ over \in [Calls -> Nat] /\ at \in [Calls -> Nat]
    /\ held \in [Calls -> Chunk] /\ digest \in [Calls -> Seq(Chunk)]
    /\ size \in [Calls -> Nat] /\ result \in [Calls -> Results]
    /\ audits \in [Calls -> Nat]
    /\ \A c \in Calls : pc[c] = "record" => result[c] \in {"done", "rejected"}

Version(v, n) == [i \in 1 .. n |-> <<v, i>>]

Init ==
    /\ file = [s \in Sides |-> Version(IF s = "local" THEN 1 ELSE 2, MaxLen)]
    /\ edits = 0
    /\ gen = 1 /\ up = TRUE /\ marked = FALSE /\ faults = 0
    /\ pc = [c \in Calls |-> "new"]
    /\ kind = [c \in Calls |-> "none"]
    /\ over = [c \in Calls |-> 0]
    /\ at = [c \in Calls |-> 0]
    /\ held = [c \in Calls |-> <<0, 0>>]
    /\ digest = [c \in Calls |-> <<>>]
    /\ size = [c \in Calls |-> 0]
    /\ result = [c \in Calls |-> "none"]
    /\ audits = [c \in Calls |-> 0]
    /\ sole = [c \in Calls |-> FALSE]
    /\ steady = [c \in Calls |-> FALSE]
    /\ reported = [c \in Calls |-> {}]

-----------------------------------------------------------------------------
Src(c) == IF kind[c] = "put" THEN "local" ELSE "remote"
Dst(c) == IF kind[c] = "put" THEN "remote" ELSE "local"

Strikes(f) ==
    /\ f \in Faults
    /\ faults < MaxFaults
    /\ faults' = faults + 1

At(c, p) == pc' = [pc EXCEPT ![c] = p]
Ends(c, p, r) == At(c, p) /\ result' = [result EXCEPT ![c] = r]

\* The file s becomes f by the hand of c, or of another program.
Rewrite(c, s, f) ==
    /\ file' = [file EXCEPT ![s] = f]
    /\ sole' = [d \in Calls |->
            IF Dst(d) = s THEN d = c /\ (pc[c] = "open" \/ sole[c]) ELSE sole[d]]
    /\ steady' = [d \in Calls |-> steady[d] /\ Src(d) # s]
    /\ UNCHANGED <<edits, reported>>

\* Chunk x is written at position i of f; what was skipped is a hole.
Put(f, i, x) ==
    [j \in 1 .. (IF i > Len(f) THEN i ELSE Len(f)) |->
        IF j = i THEN x ELSE IF j <= Len(f) THEN f[j] ELSE <<0, 0>>]

\* A new call of put or get; a put takes the size of the file now.  A get to
\* a place outside the downloads directory is rejected here.
Start(c) ==
    /\ pc[c] = "new"
    /\ \E k \in {"put", "get"} :
        /\ kind' = [kind EXCEPT ![c] = k]
        /\ size' = [size EXCEPT ![c] = IF k = "put" THEN Len(file["local"]) ELSE 0]
        /\ \/ At(c, "connect") /\ UNCHANGED result
           \/ k = "get" /\ Ends(c, "record", "rejected")
    /\ steady' = [steady EXCEPT ![c] = TRUE]
    /\ UNCHANGED <<fileVars, netVars, over, at, held, digest, audits, sole,
                   reported>>

\* A source that is no file, or a destination that cannot have a directory.
StartFails(c) ==
    /\ pc[c] = "new"
    /\ Strikes("local")
    /\ \E k \in {"put", "get"} : kind' = [kind EXCEPT ![c] = k]
    /\ Ends(c, "fail", "error")
    /\ UNCHANGED <<fileVars, gen, up, marked, over, workVars, audits, histVars>>

\* pool.get: a connection marked dead is closed and replaced.
Connect(c) ==
    /\ pc[c] = "connect"
    /\ gen' = IF marked THEN gen + 1 ELSE gen
    /\ up' = (up \/ marked)
    /\ marked' = FALSE
    /\ over' = [over EXCEPT ![c] = gen']
    /\ reported' = [reported EXCEPT ![c] =
            {over[d] : d \in {e \in Calls : result[e] = "unreachable"}}]
    /\ At(c, "open")
    /\ UNCHANGED <<fileVars, faults, kind, workVars, result, audits, sole,
                   steady>>

\* pool.get rejects the alias or cannot connect; the server will record it.
ConnectFails(c) ==
    /\ pc[c] = "connect"
    /\ Strikes("connect")
    /\ Ends(c, "fail", "rejected")
    /\ UNCHANGED <<fileVars, gen, up, marked, kind, over, workVars, audits,
                   histVars>>

Carried(c) == up /\ over[c] = gen

\* The next chunk of the local source, or its end.
ReadOn(c, f, i) ==
    IF i < Len(f)
    THEN /\ at' = [at EXCEPT ![c] = i + 1]
         /\ held' = [held EXCEPT ![c] = f[i + 1]]
         /\ digest' = [digest EXCEPT ![c] = Append(@, f[i + 1])]
         /\ At(c, "write")
    ELSE At(c, "close") /\ UNCHANGED <<at, held, digest>>

\* The remote file is opened and truncated; the local one is opened, read.
PutOpen(c) ==
    /\ pc[c] = "open" /\ kind[c] = "put" /\ Carried(c)
    /\ Rewrite(c, "remote", <<>>)
    /\ ReadOn(c, file["local"], 0)
    /\ UNCHANGED <<netVars, kind, over, size, result, audits>>

PutWrite(c) ==
    /\ pc[c] = "write" /\ Carried(c)
    /\ Rewrite(c, "remote", Put(file["remote"], at[c], held[c]))
    /\ ReadOn(c, file["local"], at[c])
    /\ UNCHANGED <<netVars, kind, over, size, result, audits>>

\* Mutant of GetOpen: the destination is not truncated.
GetOpenKeeps(c) ==
    /\ pc[c] = "open" /\ kind[c] = "get" /\ Carried(c)
    /\ Rewrite(c, "local", file["local"])
    /\ At(c, "read")
    /\ UNCHANGED <<netVars, kind, over, workVars, result, audits>>

\* The remote file is open, then the local one is opened and truncated.
GetOpen(c) ==
    /\ pc[c] = "open" /\ kind[c] = "get" /\ Carried(c)
    /\ Rewrite(c, "local", <<>>)
    /\ At(c, "read")
    /\ UNCHANGED <<netVars, kind, over, workVars, result, audits>>

\* Mutant of GetRead: the size is that of the last chunk.
GetReadLastSize(c) ==
    LET f == file["remote"]
        i == at[c] + 1
    IN
    /\ pc[c] = "read" /\ Carried(c)
    /\ IF i <= Len(f)
       THEN /\ Rewrite(c, "local", Put(file["local"], i, f[i]))
            /\ at' = [at EXCEPT ![c] = i]
            /\ digest' = [digest EXCEPT ![c] = Append(@, f[i])]
            /\ size' = [size EXCEPT ![c] = 1]
            /\ UNCHANGED pc
       ELSE At(c, "close") /\ UNCHANGED <<fileVars, at, digest, size, histVars>>
    /\ UNCHANGED <<netVars, kind, over, held, result, audits>>

\* The answer to a read: a chunk, or the end.
GetRead(c) ==
    LET f == file["remote"]
        i == at[c] + 1
    IN
    /\ pc[c] = "read" /\ Carried(c)
    /\ IF i <= Len(f)
       THEN /\ Rewrite(c, "local", Put(file["local"], i, f[i]))
            /\ at' = [at EXCEPT ![c] = i]
            /\ digest' = [digest EXCEPT ![c] = Append(@, f[i])]
            /\ size' = [size EXCEPT ![c] = @ + 1]
            /\ UNCHANGED pc
       ELSE At(c, "close") /\ UNCHANGED <<fileVars, at, digest, size, histVars>>
    /\ UNCHANGED <<netVars, kind, over, held, result, audits>>

Close(c) ==
    /\ pc[c] = "close" /\ Carried(c)
    /\ Ends(c, "record", "done")
    /\ UNCHANGED <<fileVars, netVars, kind, over, workVars, audits, histVars>>

-----------------------------------------------------------------------------
(* What goes wrong between open and close.                                 *)

\* The remote side may have done what c was waiting for.
Arrived(c) ==
    \/ UNCHANGED <<fileVars, histVars>>
    \/ pc[c] = "open" /\ kind[c] = "put" /\ Rewrite(c, "remote", <<>>)
    \/ pc[c] = "write" /\ Rewrite(c, "remote", Put(file["remote"], at[c], held[c]))

\* Mutant of MarkDead: the pool does not learn of it.
MarkDeadNot(c) == Ends(c, "fail", "unreachable") /\ UNCHANGED marked

\* except DEAD_CONN_ERRORS
MarkDead(c) ==
    /\ Ends(c, "fail", "unreachable")
    /\ marked' = (marked \/ over[c] = gen)

\* Mutant of Lost: a call that only reads does not notice it.
LostUnnoticed(c) ==
    /\ pc[c] \in Copying \ {"read"} /\ ~Carried(c)
    /\ Arrived(c)
    /\ \/ MarkDead(c)
       \/ Ends(c, "fail", "error") /\ UNCHANGED marked
    /\ UNCHANGED <<gen, up, faults, kind, over, workVars, audits>>

\* The transport is gone: asyncssh raises one of DEAD_CONN_ERRORS, or an
\* SFTPError of its own.
Lost(c) ==
    /\ pc[c] \in Copying /\ ~Carried(c)
    /\ Arrived(c)
    /\ \/ MarkDead(c)
       \/ Ends(c, "fail", "error") /\ UNCHANGED marked
    /\ UNCHANGED <<gen, up, faults, kind, over, workVars, audits>>

\* The local file cannot be opened, read or written: an OSError, which is one
\* of DEAD_CONN_ERRORS.
LocalFails(c) ==
    /\ pc[c] \in {"open", "write", "read"} /\ Carried(c)
    /\ Strikes("local")
    /\ Arrived(c)
    /\ MarkDead(c)
    /\ UNCHANGED <<gen, up, kind, over, workVars, audits>>

\* SFTP permission denied, which any await of the block may raise: after the
\* first, the destination stays as it is, truncated or copied in part.
Denied(c) ==
    /\ pc[c] \in Copying /\ Carried(c)
    /\ Strikes("denied")
    /\ Ends(c, "record", "rejected")
    /\ UNCHANGED <<fileVars, gen, up, marked, kind, over, workVars, audits,
                   histVars>>

\* Any other SFTPError, of a missing file or a full disk.
SftpFails(c) ==
    /\ pc[c] \in Copying /\ Carried(c)
    /\ Strikes("sftp")
    /\ Ends(c, "fail", "error")
    /\ UNCHANGED <<fileVars, gen, up, marked, kind, over, workVars, audits,
                   histVars>>

-----------------------------------------------------------------------------
(* The record of the manager, or else that of the server.                  *)

Audits(c) == audits' = [audits EXCEPT ![c] = @ + 1]

\* Mutant of Recorded: TransferDenied is raised without `audited'.
RecordedUnflagged(c) ==
    /\ pc[c] = "record"
    /\ Audits(c)
    /\ IF result[c] = "rejected" THEN Ends(c, "fail", "error")
                                  ELSE Ends(c, "end", result[c])
    /\ UNCHANGED <<fileVars, netVars, kind, over, workVars, histVars>>

\* The manager's record, after which the call returns or raises.
Recorded(c) ==
    /\ pc[c] = "record"
    /\ Audits(c)
    /\ At(c, "end")
    /\ UNCHANGED <<fileVars, netVars, kind, over, workVars, result, histVars>>

\* _dispatch_and_audit
ServerRecords(c) ==
    /\ pc[c] = "fail"
    /\ Audits(c)
    /\ At(c, "end")
    /\ UNCHANGED <<fileVars, netVars, kind, over, workVars, result, histVars>>

\* Mutant of RecordFails: the error of the record is dropped.
RecordFailsSilently(c) ==
    /\ Strikes("audit")
    /\ pc[c] \in {"record", "fail"} /\ At(c, "end")
    /\ UNCHANGED <<fileVars, gen, up, marked, kind, over, workVars, result,
                   audits, histVars>>

\* A record raises: the file could not be opened, or not flushed, and then the
\* line stays in its buffer.  The server records that, if it can.
RecordFails(c) ==
    /\ Strikes("audit")
    /\ \/ pc[c] = "record" /\ Ends(c, "fail", "unsaved")
       \/ pc[c] = "fail" /\ At(c, "cut") /\ UNCHANGED result
    /\ \/ UNCHANGED audits
       \/ Audits(c)
    /\ UNCHANGED <<fileVars, gen, up, marked, kind, over, workVars, histVars>>

\* The client cancels the call; its record in flight is written or not.
Cancel(c) ==
    /\ pc[c] \notin {"new"} \cup Over
    /\ Strikes("cancel")
    /\ Arrived(c)
    /\ At(c, "cut")
    /\ \/ UNCHANGED audits
       \/ pc[c] \in {"record", "fail"} /\ Audits(c)
    /\ UNCHANGED <<gen, up, marked, kind, over, workVars, result>>

-----------------------------------------------------------------------------
\* Another program rewrites a file.
Edit(s) ==
    /\ edits < MaxEdits
    /\ edits' = edits + 1
    /\ \E n \in 0 .. MaxLen : file' = [file EXCEPT ![s] = Version(edits + 3, n)]
    /\ sole' = [d \in Calls |-> sole[d] /\ Dst(d) # s]
    /\ steady' = [d \in Calls |-> steady[d] /\ Src(d) # s]
    /\ UNCHANGED <<netVars, pc, kind, over, workVars, result, audits, reported>>

Break ==
    /\ up /\ Strikes("break")
    /\ up' = FALSE
    /\ UNCHANGED <<fileVars, gen, marked, pc, kind, over, workVars, result,
                   audits, sole, steady, reported>>

Resume(c) ==
    \/ Connect(c) \/ ConnectFails(c)
    \/ PutOpen(c) \/ PutWrite(c) \/ GetOpen(c) \/ GetRead(c) \/ Close(c)
    \/ Lost(c) \/ LocalFails(c) \/ Denied(c) \/ SftpFails(c)
    \/ Recorded(c) \/ ServerRecords(c) \/ RecordFails(c)

Next ==
    \/ \E c \in Calls : Start(c) \/ StartFails(c) \/ Resume(c) \/ Cancel(c)
    \/ \E s \in Sides : Edit(s)
    \/ Break

Spec == Init /\ [][Next]_vars

\* The event loop resumes every call; a dead transport is noticed by its
\* keepalive, and a file that is copied ends.
Fairness == \A c \in Calls : WF_vars(Resume(c))
LiveSpec == Spec /\ Fairness

-----------------------------------------------------------------------------
\* When a copy is complete, the destination holds what went into the digest,
\* unless another writer touched it after it was opened; and that is the
\* source, unless the source was written meanwhile (transfer.py:79-89,
\* 183-196).
CopyIsWhole ==
    \A c \in Calls :
        pc[c] = "record" /\ result[c] = "done" =>
            /\ sole[c] => file[Dst(c)] = digest[c]
            /\ steady[c] => digest[c] = file[Src(c)]

\* The size that a transfer reports is that of the digested bytes: always for
\* a get, for a put while nobody writes its source (transfer.py:75, 196).
SizeIsOfDigest ==
    \A c \in Calls :
        result[c] = "done" /\ (kind[c] = "put" => steady[c])
            => size[c] = Len(digest[c])

\* No record is forgotten or doubled: a transfer that ends, however, has its
\* line in the file, and one.  Only a transfer whose record raised may have two,
\* its own from the buffer and that of the failure (audit.py:158-159;
\* server.py:359-401).
AuditOnce ==
    \A c \in Calls :
        /\ audits[c] <= IF result[c] = "unsaved" THEN 2 ELSE 1
        /\ pc[c] = "end" => audits[c] >= 1

\* No later transfer is given the transport over which one was answered
\* `unreachable' (transfer.py:112, 219).  Nothing is said of a transport that
\* was lost with an SFTPError: the code marks none (transfer.py:90-94), and the
\* next transfer gets it.
ReportedNotServed == \A c \in Calls : over[c] \notin reported[c]

\* Every transfer ends.
TransfersEnd == <>[](\A c \in Calls : pc[c] \in {"new"} \cup Over)
=============================================================================
