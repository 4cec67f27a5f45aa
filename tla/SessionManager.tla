--------------------------- MODULE SessionManager ---------------------------
(***************************************************************************)
(* SessionManager of sessions.py: the tools session_run, session_wait,     *)
(* session_kill and session_reset on the sessions of one host.             *)
(*                                                                         *)
(* Every tool call is an asyncio task.  A step of a call is what it does   *)
(* from one suspension to the next (a contended lock, pool.get, a remote   *)
(* command, an audit record, a sleep), so calls interleave only where the  *)
(* code awaits.  A remote command takes effect when its answer arrives,    *)
(* except in `kill', where other calls can act between the two.            *)
(***************************************************************************)
EXTENDS RemoteHost

CONSTANTS
    Ops,          \* the tools the client uses
    Overlapping   \* those it has outstanding together on one session

ASSUME OpsAssumption == Ops \subseteq {"run", "wait", "kill", "reset"}
ASSUME OverlappingAssumption == Overlapping \subseteq Ops

VARIABLES
    registry,  \* self._sessions: session -> state object
    obj,       \* obj[o]: the _SessionState that call o created
    lock,      \* self._locks: session -> the call that holds it
    op, sess,  \* op[c], sess[c]: the tool and the session of call c
    pc,        \* pc[c]: where call c is suspended; it ends with its record
               \* or its answer ("end"), or is cut off ("cut")
    frame,     \* frame[c]: the local variables of its coroutine
    result,    \* result[c]: what it returns or raises, if it is not cut off
    audits     \* audits[c]: the lines about it that are in the audit file, or
               \* in its buffer, which the next record of the host flushes

stateVars == <<registry, obj, lock>>
callVars  == <<op, sess, pc, frame, result, audits>>
vars      == <<hostVars, stateVars, callVars>>

Polling == {"reading", "sleep", "record"}
Sending == {"ensure", "type", "enter"}
PCs == {"new", "get", "lock", "kill", "forget", "create", "audit", "fail",
        "end", "cut"} \cup Polling \cup Sending

\* log is _SessionState.log_id (and log_path); off, text and scan are
\* log_offset, log_text and scan_pos, counted in tokens.
State == [log : Calls \cup {None}, off : Nat, text : Seq(Token), scan : Nat]
Idle == [log |-> None, off |-> 0, text |-> <<>>, scan |-> 0]

\* ref, conn: `state' and `conn'; watch: `log_id' of _poll; path, from: the
\* file and the offset of the read in flight; created: what _send_command
\* returns; expired: elapsed >= timeout.
Frame ==
    [ref : Calls \cup {None}, conn : Nat, watch : Calls \cup {None},
     path : Calls \cup {None}, from : Nat, created : BOOLEAN,
     expired : BOOLEAN]
NoFrame ==
    [ref |-> None, conn |-> 0, watch |-> None, path |-> None, from |-> 0,
     created |-> FALSE, expired |-> FALSE]

Prompts  == {"needs_password", "needs_input"}
\* What a call raises; unsaved: its own record did.
Failures == {"rejected", "unreachable", "error", "assert"}
Raised == Failures \cup {"unsaved"}
Statuses == {"none", "done", "idle", "still_running", "busy", "killed",
             "not_killed", "reset", "noop"} \cup Prompts \cup Raised
Result == [status : Statuses, log : Calls \cup {None},
           exit : Calls \cup {None}]
Only(status) == [status |-> status, log |-> None, exit |-> None]

StateTypeOK ==
    /\ registry \in [Sessions -> Calls \cup {None}]
    /\ obj \in [Calls -> State]
    /\ lock \in [Sessions -> Calls \cup {None}]

CallTypeOK ==
    /\ op \in [Calls -> Ops \cup {"none"}]
    /\ sess \in [Calls -> Sessions \cup {None}]
    /\ pc \in [Calls -> PCs]
    /\ frame \in [Calls -> Frame]
    /\ result \in [Calls -> Result]
    /\ audits \in [Calls -> Nat]

\* A call has a session, and the state object and the file it works on.
CallHas(c) ==
    /\ pc[c] # "new" => sess[c] \in Sessions
    /\ pc[c] \in Sending \cup {"create", "audit", "reading", "sleep"}
            => frame[c].ref \in Calls
    /\ pc[c] = "record" /\ op[c] # "kill" => frame[c].ref \in Calls
    /\ pc[c] = "reading" => frame[c].path \in Calls
    /\ pc[c] \in {"kill", "forget"} => op[c] = "kill"

\* The types, and what must be there when a call is resumed.
TypeOK ==
    /\ HostTypeOK
    /\ StateTypeOK
    /\ CallTypeOK
    /\ \A c \in Calls : CallHas(c)

Init ==
    /\ HostInit
    /\ registry = [s \in Sessions |-> None]
    /\ obj = [c \in Calls |-> Idle]
    /\ lock = [s \in Sessions |-> None]
    /\ op = [c \in Calls |-> "none"]
    /\ sess = [c \in Calls |-> None]
    /\ pc = [c \in Calls |-> "new"]
    /\ frame = [c \in Calls |-> NoFrame]
    /\ result = [c \in Calls |-> Only("none")]
    /\ audits = [c \in Calls |-> 0]

-----------------------------------------------------------------------------
\* The state object that self._sessions.get(session_id) finds has a command.
Tracked(s) == registry[s] # None /\ obj[registry[s]].log # None

\* Call c suspends at p, or ends with result r, or raises.
At(c, p) == pc' = [pc EXCEPT ![c] = p]
Suspend(c, p, f) ==
    /\ At(c, p)
    /\ frame' = [frame EXCEPT ![c] = f]
    /\ UNCHANGED <<op, sess, result, audits>>
Settle(c, p, r) ==
    /\ At(c, p)
    /\ frame' = [frame EXCEPT ![c] = NoFrame]
    /\ result' = [result EXCEPT ![c] = r]
    /\ UNCHANGED <<op, sess, audits>>
Return(c, r) == Settle(c, "end", r)
Raise(c, e)  == Settle(c, "fail", Only(e))

Release(s) == lock' = [lock EXCEPT ![s] = None]
Forget(s) == registry' = [registry EXCEPT ![s] = None]

\* Mutant of Clear: the offset of the old command survives.
ClearKeepsOffset(o) ==
    obj' = [obj EXCEPT ![o] = [Idle EXCEPT !.off = obj[o].off]]

Clear(o) == obj' = [obj EXCEPT ![o] = Idle]

\* _poll up to the first read of the log, on state object o.
BeginPoll(c, o, conn) ==
    IF obj[o].log = None
    THEN Raise(c, "assert")
    ELSE Suspend(c, "reading",
                 [NoFrame EXCEPT !.ref = o, !.conn = conn,
                                 !.watch = obj[o].log, !.path = obj[o].log,
                                 !.from = obj[o].off])

-----------------------------------------------------------------------------
(* The client calls a tool; run, wait and kill then need a connection.     *)

Over == {"end", "cut"}
Outstanding(c) == pc[c] \notin Over \cup {"new"}

MayStart(o, s) ==
    \A d \in Calls :
        Outstanding(d) /\ sess[d] = s => {o, op[d]} \subseteq Overlapping

Start(c) ==
    /\ pc[c] = "new"
    /\ \E o \in Ops, s \in Sessions :
        /\ MayStart(o, s)
        /\ op' = [op EXCEPT ![c] = o]
        /\ sess' = [sess EXCEPT ![c] = s]
        /\ At(c, IF o = "reset" THEN "lock" ELSE "get")
    /\ UNCHANGED <<hostVars, stateVars, frame, result, audits>>

RunGet(c) ==
    /\ pc[c] = "get" /\ op[c] = "run"
    /\ Get
    /\ Suspend(c, "lock", [NoFrame EXCEPT !.conn = Conn])
    /\ UNCHANGED <<pane, log, stateVars>>

WaitGet(c) ==
    LET s == sess[c] IN
    /\ pc[c] = "get" /\ op[c] = "wait"
    /\ Get
    /\ IF Tracked(s) THEN BeginPoll(c, registry[s], Conn)
                     ELSE Return(c, Only("idle"))
    /\ UNCHANGED <<pane, log, stateVars>>

KillGet(c) ==
    /\ pc[c] = "get" /\ op[c] = "kill"
    /\ Get
    /\ Suspend(c, "kill", [NoFrame EXCEPT !.conn = Conn])
    /\ UNCHANGED <<pane, log, stateVars>>

GetRejected(c) ==
    /\ pc[c] = "get" /\ ~listed
    /\ Raise(c, "rejected")
    /\ UNCHANGED <<hostVars, stateVars>>

GetUnreachable(c) ==
    /\ pc[c] = "get" /\ CannotOpen
    /\ Forget(sess[c])
    /\ IF op[c] = "kill" THEN Settle(c, "record", Only("not_killed"))
                         ELSE Raise(c, "unreachable")
    /\ UNCHANGED <<hostVars, obj, lock>>

-----------------------------------------------------------------------------
(* session_run: claim the session under its lock, then send the command.   *)

RunBusy(c) ==
    LET s == sess[c] IN
    /\ pc[c] = "lock" /\ op[c] = "run" /\ lock[s] = None
    /\ Tracked(s)
    /\ Return(c, [Only("busy") EXCEPT !.log = obj[registry[s]].log])
    /\ UNCHANGED <<hostVars, stateVars>>

\* What session_run does to claim session s.
Claim(c, s) ==
    LET o == IF registry[s] = None THEN c ELSE registry[s] IN
    /\ registry' = [registry EXCEPT ![s] = o]
    /\ obj' = [obj EXCEPT ![o].log = c]
    /\ lock' = [lock EXCEPT ![s] = c]
    /\ Suspend(c, "ensure", [frame[c] EXCEPT !.ref = o])
    /\ UNCHANGED hostVars

\* Mutants of RunClaim: it does not wait for the lock; it does not look
\* whether the session is busy.
RunClaimUnlocked(c) ==
    pc[c] = "lock" /\ op[c] = "run" /\ ~Tracked(sess[c]) /\ Claim(c, sess[c])
RunClaimIgnoresBusy(c) ==
    pc[c] = "lock" /\ op[c] = "run" /\ lock[sess[c]] = None
        /\ Claim(c, sess[c])

RunClaim(c) ==
    /\ pc[c] = "lock" /\ op[c] = "run" /\ lock[sess[c]] = None
    /\ ~Tracked(sess[c])
    /\ Claim(c, sess[c])

RunEnsure(c) ==
    LET s == sess[c] IN
    /\ pc[c] = "ensure" /\ Alive(frame[c].conn)
    /\ EnsurePane(s, c)
    /\ Suspend(c, "type", [frame[c] EXCEPT !.created = ~pane[s].alive])
    /\ UNCHANGED <<netVars, log, stateVars>>

RunType(c) ==
    LET s == sess[c] IN
    /\ pc[c] = "type" /\ Alive(frame[c].conn) /\ pane[s].alive
    /\ TypeInto(s, c)
    /\ Suspend(c, "enter", frame[c])
    /\ UNCHANGED <<netVars, log, stateVars>>

\* Enter, then the record of a created session or the first read.
RunEnter(c) ==
    LET s == sess[c] IN
    /\ pc[c] = "enter" /\ Alive(frame[c].conn) /\ pane[s].alive
    /\ PressEnter(s)
    /\ IF frame[c].created
       THEN Suspend(c, "create", frame[c]) /\ UNCHANGED lock
       ELSE BeginPoll(c, frame[c].ref, frame[c].conn) /\ Release(s)
    /\ UNCHANGED <<netVars, registry, obj>>

RunCreated(c) ==
    /\ pc[c] = "create"
    /\ Release(sess[c])
    /\ BeginPoll(c, frame[c].ref, frame[c].conn)
    /\ UNCHANGED <<hostVars, registry, obj>>

\* Mutant of SendError: no rollback.
SendErrorKeepsState(c) ==
    /\ pc[c] \in {"type", "enter"} /\ Alive(frame[c].conn)
    /\ ~pane[sess[c]].alive
    /\ Release(sess[c])
    /\ Raise(c, "error")
    /\ UNCHANGED <<hostVars, registry, obj>>

\* tmux send-keys finds no pane: roll back and raise.
SendError(c) ==
    /\ pc[c] \in {"type", "enter"} /\ Alive(frame[c].conn)
    /\ ~pane[sess[c]].alive
    /\ Clear(frame[c].ref)
    /\ Release(sess[c])
    /\ Raise(c, "error")
    /\ UNCHANGED <<hostVars, registry>>

\* The transport dies under the send: roll back, forget the session, raise.
SendUnreachable(c) ==
    /\ pc[c] \in Sending /\ ~Alive(frame[c].conn)
    /\ MarkDead(frame[c].conn)
    /\ Clear(frame[c].ref)
    /\ Release(sess[c])
    /\ Forget(sess[c])
    /\ Raise(c, "unreachable")
    /\ UNCHANGED <<pane, log>>

-----------------------------------------------------------------------------
(* _poll, without the lock: read what the log gained, look at the buffer,  *)
(* then finish, or sleep and read again.                                   *)

\* The answer to a read in flight, and the buffer it is appended to.
Chunk(c) ==
    LET l == log[frame[c].path] IN SubSeq(l, frame[c].from + 1, Len(l))
Text(c) == obj[frame[c].ref].text \o Chunk(c)

\* Mutants of Matches: any sentinel will do; the search starts one too far.
MatchesAnyId(c, behind) ==
    {i \in 1 .. Len(Text(c)) :
        i + behind > obj[frame[c].ref].scan /\ Text(c)[i].kind = "done"}
MatchesLate(c, behind) ==
    {i \in 1 .. Len(Text(c)) :
        /\ i + behind > obj[frame[c].ref].scan + 1
        /\ Text(c)[i] = Done(frame[c].watch)}

\* The search starts a few bytes behind scan_pos: a token already scanned is
\* seen again (behind = 1) when it is shorter than that overlap.
Matches(c, behind) ==
    {i \in 1 .. Len(Text(c)) :
        /\ i + behind > obj[frame[c].ref].scan
        /\ Text(c)[i] = Done(frame[c].watch)}

FindsPrompt(c) ==
    Text(c) # <<>> /\ Text(c)[Len(Text(c))].kind = "ask"

\* _read_log and the search: the cursor moves on the object c refers to.
Pull(c) ==
    LET f == frame[c]
        o == obj[f.ref]
    IN
    /\ pc[c] = "reading" /\ Alive(f.conn)
    /\ obj' = [obj EXCEPT ![f.ref] =
                [o EXCEPT !.off = o.off + Len(Chunk(c)), !.text = Text(c),
                          !.scan = Len(Text(c))]]
    /\ UNCHANGED <<hostVars, registry, lock>>

\* _build_result, then the audit record in flight.
Report(c, status, exit) ==
    LET f == frame[c] IN
    IF obj[f.ref].log = None
    THEN Raise(c, "assert")
    ELSE /\ At(c, "record")
         /\ result' = [result EXCEPT ![c] =
                [status |-> status, log |-> obj[f.ref].log, exit |-> exit]]
         /\ UNCHANGED <<op, sess, frame, audits>>

PollDone(c) ==
    \E behind \in {0, 1} :
        /\ Pull(c)
        /\ \E i \in Matches(c, behind) :
            /\ \A j \in Matches(c, behind) : i <= j
            /\ Report(c, "done", Text(c)[i].cmd)

PollPrompt(c) ==
    \E behind \in {0, 1}, status \in Prompts :
        /\ Pull(c)
        /\ Matches(c, behind) = {}
        /\ FindsPrompt(c)
        /\ Report(c, status, None)

PollTimeout(c) ==
    \E behind \in {0, 1} :
        /\ Pull(c)
        /\ Matches(c, behind) = {}
        /\ ~FindsPrompt(c)
        /\ frame[c].expired
        /\ Report(c, "still_running", None)

PollSleep(c) ==
    \E behind \in {0, 1} :
        /\ Pull(c)
        /\ Matches(c, behind) = {}
        /\ ~FindsPrompt(c)
        /\ ~frame[c].expired
        /\ Suspend(c, "sleep", frame[c])

PollWake(c) ==
    LET o == frame[c].ref IN
    /\ pc[c] = "sleep"
    /\ IF obj[o].log = None
       THEN Raise(c, "assert")
       ELSE Suspend(c, "reading", [frame[c] EXCEPT !.path = obj[o].log,
                                                   !.from = obj[o].off])
    /\ UNCHANGED <<hostVars, stateVars>>

PollUnreachable(c) ==
    /\ pc[c] = "reading" /\ ~Alive(frame[c].conn)
    /\ MarkDead(frame[c].conn)
    /\ Forget(sess[c])
    /\ Raise(c, "unreachable")
    /\ UNCHANGED <<pane, log, obj, lock>>

\* The record is written and flushed: count it and end.
Recorded(c) ==
    /\ At(c, "end")
    /\ audits' = [audits EXCEPT ![c] = @ + 1]
    /\ frame' = [frame EXCEPT ![c] = NoFrame]
    /\ UNCHANGED <<op, sess, result>>

\* Mutant of PollRecorded: every result returns the session to idle.
PollRecordedAlwaysClears(c) ==
    /\ pc[c] = "record" /\ op[c] # "kill"
    /\ Clear(frame[c].ref)
    /\ Recorded(c)
    /\ UNCHANGED <<hostVars, registry, lock>>

PollRecorded(c) ==
    /\ pc[c] = "record" /\ op[c] # "kill"
    /\ IF result[c].status = "done" THEN Clear(frame[c].ref)
                                    ELSE UNCHANGED obj
    /\ Recorded(c)
    /\ UNCHANGED <<hostVars, registry, lock>>

\* The clock passes call_start + timeout.
Expire(c) ==
    /\ pc[c] \in {"reading", "sleep"} /\ ~frame[c].expired
    /\ Suspend(c, pc[c], [frame[c] EXCEPT !.expired = TRUE])
    /\ UNCHANGED <<hostVars, stateVars>>

-----------------------------------------------------------------------------
(* session_kill takes no lock.                                             *)

KillRemote(c) ==
    LET s == sess[c] IN
    /\ pc[c] = "kill" /\ Alive(frame[c].conn)
    /\ ClosePane(s)
    /\ At(c, "forget")
    /\ result' = [result EXCEPT ![c] =
            Only(IF pane[s].alive THEN "killed" ELSE "not_killed")]
    /\ UNCHANGED <<netVars, log, stateVars, op, sess, frame, audits>>

\* Mutant of KillForget: a kill that cannot reach the host writes no record.
KillForgetUnaudited(c) ==
    LET k == frame[c].conn IN
    /\ \/ pc[c] = "kill" /\ ~Alive(k)
       \/ pc[c] = "forget"
    /\ Forget(sess[c])
    /\ IF Alive(k) THEN Settle(c, "record", result[c]) /\ UNCHANGED netVars
                   ELSE Return(c, Only("not_killed")) /\ MarkDead(k)
    /\ UNCHANGED <<pane, log, obj, lock>>

\* The answer arrives, or is lost with the transport.
KillForget(c) ==
    LET k == frame[c].conn IN
    /\ \/ pc[c] = "kill" /\ ~Alive(k)
       \/ pc[c] = "forget"
    /\ Forget(sess[c])
    /\ IF Alive(k) THEN Settle(c, "record", result[c]) /\ UNCHANGED netVars
                   ELSE Settle(c, "record", Only("not_killed")) /\ MarkDead(k)
    /\ UNCHANGED <<pane, log, obj, lock>>

KillRecorded(c) ==
    /\ pc[c] = "record" /\ op[c] = "kill"
    /\ Recorded(c)
    /\ UNCHANGED <<hostVars, stateVars>>

-----------------------------------------------------------------------------
(* session_reset: audit what it clears under the lock, then clear it.      *)

ResetNoop(c) ==
    /\ pc[c] = "lock" /\ op[c] = "reset" /\ lock[sess[c]] = None
    /\ ~Tracked(sess[c])
    /\ Return(c, Only("noop"))
    /\ UNCHANGED <<hostVars, stateVars>>

\* Mutant of ResetClaim: the lock is given back before the record.
ResetClaimUnlocked(c) ==
    LET s == sess[c] IN
    /\ pc[c] = "lock" /\ op[c] = "reset" /\ lock[s] = None
    /\ Tracked(s)
    /\ Suspend(c, "audit", [NoFrame EXCEPT !.ref = registry[s],
                                           !.watch = obj[registry[s]].log])
    /\ UNCHANGED <<hostVars, stateVars>>

ResetClaim(c) ==
    LET s == sess[c] IN
    /\ pc[c] = "lock" /\ op[c] = "reset" /\ lock[s] = None
    /\ Tracked(s)
    /\ lock' = [lock EXCEPT ![s] = c]
    /\ Suspend(c, "audit", [NoFrame EXCEPT !.ref = registry[s],
                                           !.watch = obj[registry[s]].log])
    /\ UNCHANGED <<hostVars, registry, obj>>

ResetDone(c) ==
    /\ pc[c] = "audit"
    /\ Clear(frame[c].ref)
    /\ Release(sess[c])
    /\ At(c, "end")
    /\ audits' = [audits EXCEPT ![c] = @ + 1]
    /\ frame' = [frame EXCEPT ![c] = NoFrame]
    /\ result' = [result EXCEPT ![c] =
            [Only("reset") EXCEPT !.log = frame[c].watch]]
    /\ UNCHANGED <<hostVars, registry, op, sess>>

-----------------------------------------------------------------------------
(* The record of a failure, and what may go wrong with a record.           *)

\* _dispatch_and_audit records the failure of a call and re-raises.
ServerRecords(c) ==
    /\ pc[c] = "fail"
    /\ Recorded(c)
    /\ UNCHANGED <<hostVars, stateVars>>

\* Mutant of Unlocks: the lock is given back at the end of the block only.
UnlocksNot(c) == UNCHANGED lock

\* `async with lock' is left, if c is inside.
Unlocks(c) ==
    IF pc[c] \in Sending \cup {"create", "audit"} THEN Release(sess[c])
                                                 ELSE UNCHANGED lock

\* A record raises, and the call before what follows it: a state is not
\* cleared.  The file could not be opened, or not flushed, and then the line
\* stays in its buffer; that of `create' is about the pane, not about the call.
\* The server records that, if it can.
RecordFails(c) ==
    /\ Strikes("disk")
    /\ \/ /\ pc[c] \in {"create", "audit", "record"}
          /\ At(c, "fail")
          /\ result' = [result EXCEPT ![c] = Only("unsaved")]
       \/ pc[c] = "fail" /\ At(c, "cut") /\ UNCHANGED result
    /\ \/ UNCHANGED audits
       \/ pc[c] # "create" /\ audits' = [audits EXCEPT ![c] = @ + 1]
    /\ frame' = [frame EXCEPT ![c] = NoFrame]
    /\ Unlocks(c)
    /\ UNCHANGED <<net, gen, pooled, listed, pane, log, registry, obj, op, sess>>

\* What the command in flight of a cancelled call still does, or does not.
Arrived(c) ==
    LET s == sess[c] IN
    \/ UNCHANGED <<pane, log>>
    \/ /\ Alive(frame[c].conn)
       /\ \/ pc[c] = "ensure" /\ EnsurePane(s, c) /\ UNCHANGED log
          \/ pc[c] = "type" /\ pane[s].alive /\ TypeInto(s, c) /\ UNCHANGED log
          \/ pc[c] = "enter" /\ pane[s].alive /\ PressEnter(s)
          \/ pc[c] = "kill" /\ ClosePane(s) /\ UNCHANGED log

\* The client cancels c.  CancelledError is no Exception: nothing is rolled
\* back, forgotten or recorded but the record in flight.
Cancel(c) ==
    /\ Outstanding(c)
    /\ Strikes("cancel")
    /\ Arrived(c)
    /\ Unlocks(c)
    /\ At(c, "cut")
    /\ frame' = [frame EXCEPT ![c] = NoFrame]
    /\ \/ UNCHANGED audits
       \/ /\ pc[c] \in {"audit", "record", "fail"}
          /\ audits' = [audits EXCEPT ![c] = @ + 1]
    /\ UNCHANGED <<net, gen, pooled, listed, registry, obj, op, sess, result>>

\* The step call c takes when the event loop resumes it.
Resume(c) ==
    \/ RunGet(c) \/ WaitGet(c) \/ KillGet(c)
    \/ GetRejected(c) \/ GetUnreachable(c)
    \/ RunBusy(c) \/ RunClaim(c) \/ RunEnsure(c) \/ RunType(c) \/ RunEnter(c)
    \/ RunCreated(c) \/ SendError(c) \/ SendUnreachable(c)
    \/ PollDone(c) \/ PollPrompt(c) \/ PollTimeout(c) \/ PollSleep(c)
    \/ PollWake(c) \/ PollUnreachable(c) \/ PollRecorded(c)
    \/ KillRemote(c) \/ KillForget(c) \/ KillRecorded(c)
    \/ ResetNoop(c) \/ ResetClaim(c) \/ ResetDone(c)
    \/ ServerRecords(c) \/ RecordFails(c)

Next ==
    \/ \E c \in Calls : Start(c) \/ Resume(c) \/ Expire(c) \/ Cancel(c)
    \/ HostNext /\ UNCHANGED <<stateVars, callVars>>

Spec == Init /\ [][Next]_vars

\* The event loop resumes every ready task, and the clock advances.  The
\* keepalive of asyncssh ends a round trip over a dead transport.
Fairness == \A c \in Calls : WF_vars(Resume(c)) /\ WF_vars(Expire(c))
LiveSpec == Spec /\ Fairness

-----------------------------------------------------------------------------
(* Properties that hold whatever the client and the network do.            *)

\* The line that a call's Enter submits ends with the command the call typed,
\* unless a prompt flushed it: no other call typed or pressed Enter between
\* the two send-keys of sessions.py:358-362.
OwnKeystrokes ==
    \A c \in Calls :
        LET t == pane[sess[c]].typed IN
        pc[c] = "enter" /\ pane[sess[c]].alive => t = <<>> \/ t[Len(t)] = c

\* While session_reset writes its record, the command it names stays the one
\* it will clear, or is gone (sessions.py:256-266): a reset never discards a
\* command that started after the one it audited.
ResetClearsWhatItAudited ==
    \A c \in Calls :
        pc[c] = "audit" => obj[frame[c].ref].log \in {None, frame[c].watch}

\* A session_run that raised but whose command its session still tracks raised
\* for its record (sessions.py:198, 395), which leaves the session busy.  After
\* any other failure, of the alias, a send, the transport or an assertion, the
\* registered state does not name that run's command (sessions.py:188-204).
NoGhostBusy ==
    \A c \in Calls, s \in Sessions :
        /\ op[c] = "run" /\ result[c].status \in Raised
        /\ registry[s] # None /\ obj[registry[s]].log = c
        => result[c].status = "unsaved"

\* The exit code of a session_run that returns `done' is that of the command
\* it typed, never of the one before it or after it in the pane, whoever else
\* polls, kills or resets the session (sessions.py:375-376, 388-397).
RunExitIsOwn ==
    \A c \in Calls :
        op[c] = "run" /\ result[c].status = "done" => result[c].exit = c

\* No record is forgotten or doubled: when a call ends that acted, was rejected
\* or failed, its line is in the file, and there is one.  Only a call whose
\* record raised may have two, its own from the buffer and that of the failure
\* (openspec/specs/audit-log/spec.md:52; audit.py:158-159; server.py:359-401).
\* Nothing is said of a call that found nothing to do, or a busy session.
AuditOnce ==
    \A c \in Calls :
        LET status == result[c].status IN
        /\ audits[c] <= IF status = "unsaved" THEN 2 ELSE 1
        /\ pc[c] = "end" /\ status \notin {"busy", "idle", "noop"}
            => audits[c] >= 1

\* Every call that the client makes ends (the timeout of _poll, the lock of
\* the session, the keepalive of the transport); the calls are finitely many.
CallsReturn == <>[](\A c \in Calls : ~Outstanding(c))

-----------------------------------------------------------------------------
(* Properties that need a client that has at most one poller on a session. *)

\* None of the assertions of sessions.py:373-374, 432 and 465-466 fails.
AssertionsHold == \A c \in Calls : result[c].status # "assert"

\* A `done' result reports the sentinel of the command it names, and that of
\* a session_run the command it typed (sessions.py:391-397).
OwnSentinel ==
    \A c \in Calls :
        result[c].status = "done" =>
            /\ result[c].exit = result[c].log
            /\ op[c] = "run" => result[c].log = c

\* log_offset is the number of bytes already pulled, and what was pulled is
\* the log up to there, each byte once (sessions.py:98-104).
CursorExact ==
    \A o \in Calls :
        obj[o].log # None =>
            /\ obj[o].off <= Len(log[obj[o].log])
            /\ obj[o].text = SubSeq(log[obj[o].log], 1, obj[o].off)

\* A poll does not report a command as unfinished once it pulled the sentinel:
\* the scan position never passes an unmatched one (sessions.py:385-390).
NoMissedSentinel ==
    \A c \in Calls :
        /\ pc[c] = "record" /\ op[c] # "kill"
        /\ result[c].status # "done"
        => \A i \in 1 .. Len(obj[frame[c].ref].text) :
                obj[frame[c].ref].text[i] # Done(frame[c].watch)

-----------------------------------------------------------------------------
(* Properties that need a transport that survives.                         *)

\* "Within a single session, the MCP SHALL serialize commands"
\* (openspec/specs/remote-sessions/spec.md:93): at most one command runs or
\* waits its turn in a pane.
PaneSerial == \A s \in Sessions : Len(pane[s].line) <= 1

\* The reason: a pane that runs a command is tracked as busy with it, so the
\* check of sessions.py:170 turns the next session_run away.
BusyPaneIsTracked ==
    \A s \in Sessions :
        pane[s].line # <<>> =>
            /\ Tracked(s)
            /\ pane[s].line = <<obj[registry[s]].log>>

-----------------------------------------------------------------------------
(* SessionManager implements SessionSlot.                                  *)

\* The command of the registered state object, if there is one.
Slots ==
    [s \in Sessions |-> IF registry[s] = None THEN None ELSE obj[registry[s]].log]

Unacted == {c \in Calls : pc[c] \in {"new", "get", "lock"}}

\* What a session_run returns or raises; a result is one when its record is
\* written, and none if the call is cut off before.
Answered(c) ==
    LET s == result[c].status IN
    IF op[c] # "run" THEN "none"
    ELSE IF s \in Failures THEN "failed"
    ELSE IF s = "unsaved" THEN "unrecorded"
    ELSE IF pc[c] # "end" THEN "none"
    ELSE IF s = "busy" THEN "busy" ELSE "result"
AnswerOf == [c \in Calls |-> Answered(c)]

Slot == INSTANCE SessionSlot
            WITH slot <- Slots, waiting <- Unacted, answer <- AnswerOf

\* A session tracks one command at a time, from an empty slot on; a command
\* that was given up is not tracked again; and a session_run is told `busy'
\* only by a session that is, gets a result or a failed record of its own once
\* it was accepted, fails for anything else only when it is not tracked, and is
\* answered once (sessions.py:165-204, 269-273, 391-420, 508-518).
ImplementsSlot == Slot!Spec
=============================================================================
