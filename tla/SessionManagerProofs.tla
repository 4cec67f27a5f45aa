------------------------ MODULE SessionManagerProofs ------------------------
(***************************************************************************)
(* Theorems about SessionManager, for every set of calls and sessions and  *)
(* every bound: the client overlaps its calls as it likes and every fault  *)
(* may strike.  First the typing, then the safety of any overlap (the lock *)
(* of a session, the ownership of its state objects, the five properties   *)
(* that rest on them), then the refinement of SessionSlot.                 *)
(***************************************************************************)
EXTENDS SessionManager, SequenceTheorems, TLAPS

USE NoneAssumption

-----------------------------------------------------------------------------
(* Types.                                                                  *)

LEMMA RecordsTyped ==
    /\ NoPane \in PaneType
    /\ Idle \in State
    /\ NoFrame \in Frame
    /\ \A e \in Statuses : Only(e) \in Result
BY DEF NoPane, PaneType, Idle, State, NoFrame, Frame, Only, Result

LEMMA ExpectedResults ==
    \A e \in Failures \cup {"done", "idle", "not_killed", "noop"} :
        Only(e) \in Result
BY RecordsTyped DEF Statuses, Raised

\* A call that suspends with what its next step needs, that ends, or whose
\* record is written, keeps the types of all calls.
LEMMA Suspends ==
    ASSUME TypeOK, NEW c \in Calls, pc[c] # "new",
           NEW p \in PCs \ {"record"}, NEW f \in Frame, Suspend(c, p, f),
           \/ f.ref \in Calls /\ p \notin {"kill", "forget"}
           \/ p = "lock"
           \/ p = "kill" /\ op[c] = "kill",
           p = "reading" => f.path \in Calls
    PROVE  CallTypeOK' /\ \A d \in Calls : CallHas(d)'
<1>1. CallTypeOK'
  BY DEF TypeOK, CallTypeOK, Suspend, At
<1>2. \A d \in Calls : CallHas(d)'
  BY DEF TypeOK, CallTypeOK, CallHas, Suspend, At, Sending
<1> QED  BY <1>1, <1>2

LEMMA Settles ==
    ASSUME TypeOK, NEW c \in Calls, pc[c] # "new", NEW r \in Result,
           \/ Return(c, r)
           \/ Settle(c, "fail", r)
           \/ Settle(c, "record", r) /\ op[c] = "kill"
    PROVE  CallTypeOK' /\ \A d \in Calls : CallHas(d)'
<1>1. CallTypeOK'
  BY RecordsTyped DEF TypeOK, CallTypeOK, Return, Settle, At, PCs, Polling
<1>2. \A d \in Calls : CallHas(d)'
  BY DEF TypeOK, CallTypeOK, CallHas, Return, Settle, At, Sending
<1> QED  BY <1>1, <1>2

LEMMA Raises ==
    ASSUME TypeOK, NEW c \in Calls, pc[c] # "new", NEW e \in Failures,
           Raise(c, e)
    PROVE  CallTypeOK' /\ \A d \in Calls : CallHas(d)'
BY Settles, ExpectedResults DEF Raise

LEMMA Records ==
    ASSUME TypeOK, NEW c \in Calls, pc[c] # "new", Recorded(c)
    PROVE  CallTypeOK' /\ \A d \in Calls : CallHas(d)'
<1>1. CallTypeOK'
  BY RecordsTyped DEF TypeOK, CallTypeOK, Recorded, At, PCs
<1>2. \A d \in Calls : CallHas(d)'
  BY DEF TypeOK, CallTypeOK, CallHas, Recorded, At, Sending
<1> QED  BY <1>1, <1>2

\* A pane stays one when a part of it is replaced.
LEMMA PaneUpdated ==
    ASSUME NEW p \in PaneType, NEW t \in Seq(Calls), NEW l \in Seq(Calls),
           NEW a \in BOOLEAN, NEW k \in Calls
    PROVE  /\ [p EXCEPT !.pipe = k] \in PaneType
           /\ [p EXCEPT !.typed = t] \in PaneType
           /\ [p EXCEPT !.line = l] \in PaneType
           /\ [p EXCEPT !.asking = a] \in PaneType
           /\ [p EXCEPT !.typed = t, !.asking = a] \in PaneType
           /\ [p EXCEPT !.typed = t, !.line = l] \in PaneType
           /\ [p EXCEPT !.typed = t, !.asking = a, !.line = l] \in PaneType
BY DEF PaneType

\* A program that got its answer asks no more.
LEMMA PaneAnswered ==
    ASSUME NEW p \in PaneType
    PROVE  /\ [p EXCEPT !.asking = FALSE] \in PaneType
           /\ ~[p EXCEPT !.asking = FALSE].asking
           /\ [p EXCEPT !.typed = <<>>, !.asking = FALSE] \in PaneType
           /\ ~[p EXCEPT !.typed = <<>>, !.asking = FALSE].asking
<1>1. <<>> \in Seq(Calls)
  OBVIOUS
<1> QED  BY <1>1 DEF PaneType

LEMMA NewPaneTyped ==
    /\ NoPane \in PaneType
    /\ \A c \in Calls :
        [NoPane EXCEPT !.alive = TRUE, !.pipe = c] \in PaneType
<1>1. <<>> \in Seq(Calls)
  OBVIOUS
<1> QED  BY <1>1 DEF NoPane, PaneType

\* What a program writes goes to a log as a token.
LEMMA WriteTyped ==
    ASSUME HostTypeOK, NEW s \in Sessions, NEW kind \in {"out", "ask", "done"},
           pane[s].line # <<>>, Write(s, kind)
    PROVE  log' \in [Calls -> Seq(Token)]
<1>1. pane[s] \in PaneType
  BY DEF HostTypeOK
<1>2. [kind |-> kind, cmd |-> Head(pane[s].line)] \in Token
  BY <1>1 DEF PaneType, Token
<1>3. \A c \in Calls :
        Append(log[c], [kind |-> kind, cmd |-> Head(pane[s].line)])
            \in Seq(Token)
  BY <1>2 DEF HostTypeOK
<1> QED  BY <1>3 DEF Write, HostTypeOK

\* Types of a host whose pane s becomes p.
LEMMA PaneReplaced ==
    ASSUME HostTypeOK, NEW s \in Sessions, NEW p \in PaneType,
           p.asking => p.line # <<>>, pane' = [pane EXCEPT ![s] = p]
    PROVE  /\ pane' \in [Sessions -> PaneType]
           /\ \A r \in Sessions : pane'[r].asking => pane'[r].line # <<>>
BY DEF HostTypeOK

\* The tmux commands keep the host's types.
LEMMA PaneCommandsTyped ==
    ASSUME HostTypeOK, NEW s \in Sessions, NEW c \in Calls,
           \/ EnsurePane(s, c) /\ UNCHANGED log
           \/ TypeInto(s, c) /\ UNCHANGED log
           \/ ClosePane(s) /\ UNCHANGED log
           \/ PressEnter(s)
    PROVE  /\ pane' \in [Sessions -> PaneType]
           /\ \A r \in Sessions : pane'[r].asking => pane'[r].line # <<>>
           /\ log' \in [Calls -> Seq(Token)]
<1> DEFINE p == pane[s]
<1>0. /\ p \in PaneType
      /\ p.asking => p.line # <<>>
      /\ p.typed \in Seq(Calls) /\ p.line \in Seq(Calls)
      /\ <<>> \in Seq(Calls)
  BY DEF HostTypeOK, PaneType
<1>1. CASE EnsurePane(s, c) /\ UNCHANGED log
  <2>1. CASE p.alive
    <3> DEFINE q == [p EXCEPT !.pipe = c]
    <3>1. q \in PaneType /\ (q.asking => q.line # <<>>)
      BY <1>0, PaneUpdated, ZenonT(30) DEF PaneType
    <3>2. pane' = [pane EXCEPT ![s] = q]
      BY <1>1, <2>1, Zenon DEF EnsurePane
    <3> QED  BY <1>1, <3>1, <3>2, PaneReplaced DEF HostTypeOK
  <2>2. CASE ~p.alive
    <3> DEFINE q == [NoPane EXCEPT !.alive = TRUE, !.pipe = c]
    <3>1. q \in PaneType /\ ~q.asking
      BY NewPaneTyped DEF NoPane
    <3>2. pane' = [pane EXCEPT ![s] = q]
      BY <1>1, <2>2 DEF EnsurePane, HostTypeOK
    <3> QED  BY <1>1, <3>1, <3>2, PaneReplaced DEF HostTypeOK
  <2> QED  BY <2>1, <2>2
<1>2. CASE TypeInto(s, c) /\ UNCHANGED log
  <2> DEFINE q == [p EXCEPT !.typed = Append(p.typed, c)]
  <2>1. Append(p.typed, c) \in Seq(Calls)
    BY <1>0
  <2>2. q \in PaneType /\ (q.asking => q.line # <<>>)
    BY <1>0, <2>1, PaneUpdated, ZenonT(30) DEF PaneType
  <2>3. pane' = [pane EXCEPT ![s] = q]
    BY <1>2 DEF TypeInto, HostTypeOK
  <2> QED  BY <1>2, <2>2, <2>3, PaneReplaced DEF HostTypeOK
<1>3. CASE ClosePane(s) /\ UNCHANGED log
  <2>1. NoPane \in PaneType /\ ~NoPane.asking
    BY NewPaneTyped DEF NoPane
  <2>2. pane' = [pane EXCEPT ![s] = NoPane]
    BY <1>3 DEF ClosePane
  <2>3. /\ pane' \in [Sessions -> PaneType]
        /\ \A r \in Sessions : pane'[r].asking => pane'[r].line # <<>>
    BY <2>1, <2>2, PaneReplaced
  <2> QED  BY <1>3, <2>3 DEF HostTypeOK
<1>4. CASE PressEnter(s)
  <2>1. CASE p.asking
    <3> DEFINE q == [p EXCEPT !.typed = <<>>, !.asking = FALSE]
    <3>1. q \in PaneType /\ ~q.asking
      BY <1>0, PaneAnswered
    <3>2. pane' = [pane EXCEPT ![s] = q] /\ Write(s, "out")
      BY <1>4, <2>1 DEF PressEnter
    <3> QED  BY <1>0, <2>1, <3>1, <3>2, PaneReplaced, WriteTyped
             DEF HostTypeOK
  <2>2. CASE ~p.asking
    <3> DEFINE q == [p EXCEPT !.typed = <<>>, !.line = p.line \o p.typed]
    <3>1. p.line \o p.typed \in Seq(Calls)
      BY <1>0
    <3>2. q \in PaneType /\ ~q.asking
      BY <1>0, <2>2, <3>1, PaneUpdated, ZenonT(30) DEF PaneType
    <3>3. pane' = [pane EXCEPT ![s] = q] /\ UNCHANGED log
      BY <1>4, <2>2 DEF PressEnter
    <3> QED  BY <3>2, <3>3, PaneReplaced DEF HostTypeOK
  <2> QED  BY <2>1, <2>2
<1> QED  BY <1>1, <1>2, <1>3, <1>4

LEMMA CommandsTyped ==
    ASSUME HostTypeOK, UNCHANGED netVars, NEW s \in Sessions, NEW c \in Calls,
           \/ EnsurePane(s, c) /\ UNCHANGED log
           \/ TypeInto(s, c) /\ UNCHANGED log
           \/ ClosePane(s) /\ UNCHANGED log
           \/ PressEnter(s)
    PROVE  HostTypeOK'
BY PaneCommandsTyped DEF HostTypeOK, netVars

\* So does what the pane's programs, the network and the faults do.
LEMMA HostTyped ==
    ASSUME HostTypeOK, HostNext
    PROVE  HostTypeOK'
<1>1. ASSUME NEW s \in Sessions,
             \/ Output(s) \/ Prompt(s) \/ Answer(s) \/ Finish(s)
             \/ ExecShell(s) \/ OutsideKill(s)
      PROVE  HostTypeOK'
  <2> DEFINE p == pane[s]
  <2>0. /\ p \in PaneType
        /\ p.asking => p.line # <<>>
        /\ p.typed \in Seq(Calls) /\ p.line \in Seq(Calls)
        /\ <<>> \in Seq(Calls)
    BY DEF HostTypeOK, PaneType
  <2>1. CASE Output(s)
    BY <2>1, WriteTyped DEF Output, Prints, HostTypeOK, netVars
  <2>2. CASE Prompt(s)
    <3> DEFINE q == [p EXCEPT !.typed = <<>>, !.asking = TRUE,
                              !.line = <<Head(p.line)>>]
    <3>1. <<Head(p.line)>> \in Seq(Calls) /\ <<Head(p.line)>> # <<>>
      BY <2>0, <2>2 DEF Prompt, Prints
    <3>2. q \in PaneType /\ q.line # <<>>
      BY <2>0, <3>1, PaneUpdated, ZenonT(30) DEF PaneType
    <3>3. pane' = [pane EXCEPT ![s] = q]
      BY <2>2 DEF Prompt, HostTypeOK
    <3>4. /\ pane' \in [Sessions -> PaneType]
          /\ \A r \in Sessions : pane'[r].asking => pane'[r].line # <<>>
      BY <3>2, <3>3, PaneReplaced
    <3>5. log' \in [Calls -> Seq(Token)]
      BY <2>2, WriteTyped DEF Prompt, Prints
    <3>6. UNCHANGED netVars
      BY <2>2 DEF Prompt
    <3> QED  BY <3>4, <3>5, <3>6 DEF HostTypeOK, netVars
  <2>3. CASE Answer(s)
    <3> DEFINE q == [p EXCEPT !.asking = FALSE]
    <3>1. q \in PaneType /\ ~q.asking
      BY <2>0, PaneAnswered
    <3>2. pane' = [pane EXCEPT ![s] = q]
      BY <2>3 DEF Answer, HostTypeOK
    <3> QED  BY <2>0, <2>3, <3>1, <3>2, PaneReplaced, WriteTyped
             DEF Answer, HostTypeOK, netVars
  <2>4. CASE Finish(s) \/ ExecShell(s)
    <3> DEFINE q == [p EXCEPT !.line = Tail(p.line)]
    <3>1. ~p.asking /\ p.line # <<>>
      BY <2>4 DEF Finish, ExecShell, Prints
    <3>2. Tail(p.line) \in Seq(Calls)
      BY <2>0, <3>1
    <3>3. q \in PaneType /\ ~q.asking
      BY <2>0, <3>1, <3>2, PaneUpdated, ZenonT(30) DEF PaneType
    <3>4. pane' = [pane EXCEPT ![s] = q]
      BY <2>4 DEF Finish, ExecShell, HostTypeOK
    <3>5. log' \in [Calls -> Seq(Token)]
      BY <2>4, WriteTyped DEF Finish, ExecShell, Prints, HostTypeOK
    <3> QED  BY <2>4, <3>3, <3>4, <3>5, PaneReplaced
             DEF Finish, ExecShell, Strikes, HostTypeOK, netVars
  <2>5. CASE OutsideKill(s)
    <3>1. NoPane \in PaneType /\ ~NoPane.asking
      BY NewPaneTyped DEF NoPane
    <3>2. pane' = [pane EXCEPT ![s] = NoPane]
      BY <2>5 DEF OutsideKill, ClosePane
    <3>3. /\ pane' \in [Sessions -> PaneType]
          /\ \A r \in Sessions : pane'[r].asking => pane'[r].line # <<>>
      BY <3>1, <3>2, PaneReplaced
    <3> QED  BY <2>5, <3>3 DEF OutsideKill, Strikes, HostTypeOK
  <2> QED  BY <1>1, <2>1, <2>2, <2>3, <2>4, <2>5
<1>2. CASE Drop \/ Recover
  BY <1>2 DEF Drop, Recover, Strikes, HostTypeOK
<1>3. CASE Delist \/ Relist
  <2>1. listed' \in BOOLEAN
    BY <1>3, Zenon DEF Delist, Relist
  <2>2. /\ UNCHANGED <<net, pane, log>>
        /\ gen' \in Nat /\ pooled' \in Nat /\ faults' \in Nat
    BY <1>3 DEF Delist, Relist, Strikes, HostTypeOK
  <2> QED  BY <2>1, <2>2 DEF HostTypeOK
<1>4. CASE Reboot
  <2>1. NoPane \in PaneType /\ ~NoPane.asking
    BY NewPaneTyped DEF NoPane
  <2>2. \A r \in Sessions : pane'[r] = NoPane
    BY <1>4 DEF Reboot
  <2>3. pane' \in [Sessions -> PaneType]
    BY <1>4, <2>1 DEF Reboot
  <2> QED  BY <1>4, <2>1, <2>2, <2>3 DEF Reboot, Strikes, HostTypeOK
<1> QED  BY <1>1, <1>2, <1>3, <1>4 DEF HostNext

\* pool.get and mark_dead change the pool's cache only.
LEMMA PoolTyped ==
    ASSUME HostTypeOK, UNCHANGED <<pane, log>>,
           Get \/ UNCHANGED netVars \/ \E k \in Nat : MarkDead(k)
    PROVE  HostTypeOK'
BY DEF HostTypeOK, Get, Conn, MarkDead, netVars

LEMMA FrameUpdated ==
    ASSUME NEW f \in Frame, NEW o \in Calls \cup {None}, NEW k \in Nat,
           NEW b \in BOOLEAN, NEW w \in Calls \cup {None}, NEW n \in Nat
    PROVE  /\ [f EXCEPT !.ref = o] \in Frame
           /\ [f EXCEPT !.conn = k] \in Frame
           /\ [f EXCEPT !.created = b] \in Frame
           /\ [f EXCEPT !.expired = b] \in Frame
           /\ [f EXCEPT !.path = w, !.from = n] \in Frame
           /\ [f EXCEPT !.ref = o, !.watch = w] \in Frame
           /\ [f EXCEPT !.ref = o, !.conn = k, !.watch = w, !.path = w,
                        !.from = n] \in Frame
BY DEF Frame

\* The three steps on self._sessions, its objects and the locks.
LEMMA StateTyped ==
    ASSUME StateTypeOK, NEW s \in Sessions, NEW o \in Calls,
           UNCHANGED registry \/ Forget(s),
           UNCHANGED obj \/ Clear(o),
           UNCHANGED lock \/ Release(s)
    PROVE  StateTypeOK'
BY RecordsTyped DEF StateTypeOK, Forget, Clear, Release

LEMMA BeginPollTyped ==
    ASSUME TypeOK, NEW c \in Calls, NEW o \in Calls, NEW k \in Nat,
           pc[c] # "new", BeginPoll(c, o, k)
    PROVE  CallTypeOK' /\ \A d \in Calls : CallHas(d)'
<1>1. CASE obj[o].log = None
  BY <1>1, Raises DEF BeginPoll, Failures
<1>2. CASE obj[o].log # None
  <2> DEFINE f == [NoFrame EXCEPT !.ref = o, !.conn = k, !.watch = obj[o].log,
                                  !.path = obj[o].log, !.from = obj[o].off]
  <2>1. obj[o].log \in Calls /\ obj[o].off \in Nat
    BY <1>2 DEF TypeOK, StateTypeOK, State
  <2>2. f \in Frame /\ f.ref = o /\ f.path = obj[o].log
    BY <2>1 DEF NoFrame, Frame
  <2>3. Suspend(c, "reading", f)
    BY <1>2 DEF BeginPoll
  <2> QED  BY <2>1, <2>2, <2>3, Suspends DEF PCs, Polling
<1> QED  BY <1>1, <1>2

LEMMA ReportTyped ==
    ASSUME TypeOK, NEW c \in Calls, pc[c] = "reading",
           NEW status \in Statuses, NEW exit \in Calls \cup {None},
           Report(c, status, exit)
    PROVE  CallTypeOK' /\ \A d \in Calls : CallHas(d)'
<1> DEFINE o == frame[c].ref
<1>0. o \in Calls
  BY DEF TypeOK, CallHas
<1>1. CASE obj[o].log = None
  BY <1>1, Raises DEF Report, Failures
<1>2. CASE obj[o].log # None
  <2> DEFINE r == [status |-> status, log |-> obj[o].log, exit |-> exit]
  <2>1. r \in Result
    BY <1>0 DEF TypeOK, StateTypeOK, State, Result
  <2>2. /\ pc' = [pc EXCEPT ![c] = "record"]
        /\ result' = [result EXCEPT ![c] = r]
        /\ UNCHANGED <<op, sess, frame, audits>>
    BY <1>2 DEF Report, At
  <2>3. CallTypeOK'
    BY <2>1, <2>2 DEF TypeOK, CallTypeOK, PCs, Polling
  <2>4. \A d \in Calls : CallHas(d)'
    BY <1>0, <2>2 DEF TypeOK, CallTypeOK, CallHas, Sending
  <2> QED  BY <2>3, <2>4
<1> QED  BY <1>1, <1>2

LEMMA StateUpdated ==
    ASSUME NEW x \in State, NEW n \in Nat, NEW t \in Seq(Token), NEW m \in Nat
    PROVE  [x EXCEPT !.off = n, !.text = t, !.scan = m] \in State
BY DEF State

\* What a read returns, and the buffer it leaves behind.
LEMMA PullTyped ==
    ASSUME TypeOK, NEW c \in Calls, Pull(c)
    PROVE  /\ Text(c) \in Seq(Token)
           /\ HostTypeOK' /\ StateTypeOK'
<1> DEFINE f == frame[c]  o == obj[f.ref]
<1>1. f.ref \in Calls /\ f.path \in Calls /\ f.from \in Nat
  BY DEF Pull, TypeOK, CallHas, CallTypeOK, Frame
<1>2. log[f.path] \in Seq(Token) /\ o \in State
  BY <1>1 DEF TypeOK, HostTypeOK, StateTypeOK
<1>3. Chunk(c) \in Seq(Token)
  <2> DEFINE l == log[f.path]
  <2>1. \A i \in f.from + 1 .. Len(l) : l[i] \in Token
    BY <1>1, <1>2
  <2>2. f.from + 1 \in Int /\ Len(l) \in Int
    BY <1>1, <1>2
  <2> QED  BY <2>1, <2>2, SubSeqProperties DEF Chunk
<1>4. Text(c) \in Seq(Token) /\ Len(Text(c)) \in Nat
  BY <1>2, <1>3 DEF Text, State
<1> DEFINE x == [o EXCEPT !.off = o.off + Len(Chunk(c)), !.text = Text(c),
                          !.scan = Len(Text(c))]
<1>5. x \in State
  <2>1. o.off + Len(Chunk(c)) \in Nat
    BY <1>2, <1>3 DEF State
  <2> QED  BY <1>2, <1>4, <2>1, StateUpdated
<1>6. StateTypeOK'
  <2>1. obj' = [obj EXCEPT ![f.ref] = x] /\ UNCHANGED <<registry, lock>>
    BY DEF Pull
  <2> HIDE DEF x
  <2> QED  BY <1>5, <2>1 DEF TypeOK, StateTypeOK
<1>7. HostTypeOK'
  BY DEF Pull, TypeOK, HostTypeOK, hostVars, netVars
<1> QED  BY <1>4, <1>6, <1>7

LEMMA InitTyped == Init => TypeOK
<1> SUFFICES ASSUME Init PROVE TypeOK
  OBVIOUS
<1>1. HostTypeOK
  <2>1. pane \in [Sessions -> PaneType] /\ \A s \in Sessions : ~pane[s].asking
    BY NewPaneTyped DEF Init, HostInit, NoPane
  <2>2. log \in [Calls -> Seq(Token)]
    <3>1. <<>> \in Seq(Token)
      OBVIOUS
    <3> QED  BY <3>1 DEF Init, HostInit
  <2> QED  BY <2>1, <2>2 DEF Init, HostInit, HostTypeOK
<1>2. StateTypeOK
  BY RecordsTyped DEF Init, StateTypeOK
<1>3. CallTypeOK
  BY RecordsTyped DEF Init, CallTypeOK, PCs, Statuses
<1>4. \A c \in Calls : CallHas(c)
  BY DEF Init, CallHas, Sending
<1> QED  BY <1>1, <1>2, <1>3, <1>4 DEF TypeOK

\* What a call does when it is resumed or cancelled, and the part of it that
\* cuts it off or fails its record.
Step(c) == Resume(c) \/ Cancel(c)
Cuts(c) == RecordFails(c) \/ Cancel(c)

\* A call that makes a step was started, on a session.
LEMMA Started ==
    ASSUME TypeOK, NEW c \in Calls, Step(c)
    PROVE  pc[c] \notin {"new", "end", "cut"} /\ sess[c] \in Sessions
BY DEF TypeOK, Over, Polling, CallHas, Step, Resume, Cancel, RecordFails, Outstanding, RunGet, WaitGet, KillGet, GetRejected,
       GetUnreachable, RunBusy, RunClaim, RunEnsure, RunType, RunEnter,
       RunCreated, SendError, SendUnreachable, PollDone, PollPrompt,
       PollTimeout, PollSleep, Pull, PollWake, PollUnreachable,
       PollRecorded, KillRemote, KillForget, KillRecorded, ResetNoop,
       ResetClaim, ResetDone, ServerRecords, Sending

\* A call whose record fails, or that is cancelled: what it leaves behind.
LEMMA CutParts ==
    ASSUME TypeOK, NEW c \in Calls, Cuts(c)
    PROVE  /\ UNCHANGED <<registry, obj, op, sess>>
           /\ pc[c] \notin {"new", "end", "cut"}
           /\ frame' = [frame EXCEPT ![c] = NoFrame]
           /\ Unlocks(c)
           /\ \/ /\ pc' = [pc EXCEPT ![c] = "cut"]
                 /\ UNCHANGED result
                 /\ audits' \in {audits, [audits EXCEPT ![c] = @ + 1]}
              \/ /\ pc' = [pc EXCEPT ![c] = "fail"]
                 /\ pc[c] \in {"create", "audit", "record"}
                 /\ result' = [result EXCEPT ![c] = Only("unsaved")]
                 /\ audits' \in {audits, [audits EXCEPT ![c] = @ + 1]}
<1>1. CASE Cancel(c)
  BY <1>1 DEF Cancel, At, Outstanding, Over
<1>2. CASE RecordFails(c)
  BY <1>2 DEF RecordFails, At
<1> QED  BY <1>1, <1>2 DEF Cuts

\* What a fault and a command still in flight do to the host.
LEMMA CutHostTyped ==
    ASSUME TypeOK, NEW c \in Calls, Cuts(c)
    PROVE  HostTypeOK'
<1>1. /\ UNCHANGED <<net, gen, pooled, listed>> /\ faults' \in Nat
      /\ sess[c] \in Sessions
  BY Started DEF Cuts, Step, Resume, Cancel, RecordFails, Strikes, TypeOK,
                 HostTypeOK
<1>2. /\ pane' \in [Sessions -> PaneType]
      /\ \A s \in Sessions : pane'[s].asking => pane'[s].line # <<>>
      /\ log' \in [Calls -> Seq(Token)]
  <2>1. CASE UNCHANGED <<pane, log>>
    BY <2>1 DEF TypeOK, HostTypeOK
  <2>2. CASE \/ EnsurePane(sess[c], c) /\ UNCHANGED log
             \/ TypeInto(sess[c], c) /\ UNCHANGED log
             \/ ClosePane(sess[c]) /\ UNCHANGED log
             \/ PressEnter(sess[c])
    BY <1>1, <2>2, PaneCommandsTyped DEF TypeOK
  <2> QED  BY <2>1, <2>2 DEF Cuts, RecordFails, Cancel, Arrived
<1> QED  BY <1>1, <1>2 DEF TypeOK, HostTypeOK

LEMMA CutTyped ==
    ASSUME TypeOK, NEW c \in Calls, Cuts(c)
    PROVE  TypeOK'
<1>1. HostTypeOK'
  BY CutHostTyped
<1>2. StateTypeOK'
  <2>1. lock' = lock \/ lock' = [lock EXCEPT ![sess[c]] = None]
    BY CutParts DEF Unlocks, Release
  <2> QED  BY <2>1, CutParts DEF TypeOK, StateTypeOK
<1>3. CallTypeOK'
  <2>1. Only("unsaved") \in Result
    BY RecordsTyped DEF Statuses, Raised
  <2> QED  BY <2>1, CutParts, RecordsTyped DEF TypeOK, CallTypeOK, PCs
<1>4. \A d \in Calls : CallHas(d)'
  BY CutParts DEF TypeOK, CallTypeOK, CallHas, Sending
<1> QED  BY <1>1, <1>2, <1>3, <1>4 DEF TypeOK

\* Every step of a call keeps the types.
LEMMA ResumeTyped ==
    ASSUME TypeOK, NEW c \in Calls, Step(c)
    PROVE  TypeOK'
<1> DEFINE s == sess[c]  f == frame[c]
<1> DEFINE CallsOK == CallTypeOK' /\ \A d \in Calls : CallHas(d)'
<1>0. pc[c] # "new" /\ s \in Sessions
  BY Started
<1>t. f \in Frame /\ result[c] \in Result /\ NoFrame \in Frame
  BY RecordsTyped DEF TypeOK, CallTypeOK
<1>k. f.conn \in Nat /\ Conn \in Nat
  BY <1>t DEF Frame, Conn, TypeOK, HostTypeOK
<1>u. UNCHANGED hostVars => HostTypeOK'
  BY DEF TypeOK, HostTypeOK, hostVars, netVars
<1>v. UNCHANGED stateVars => StateTypeOK'
  BY DEF TypeOK, StateTypeOK, stateVars
<1>1. CASE RunGet(c)
  <2>1. [NoFrame EXCEPT !.conn = Conn] \in Frame
    BY <1>t, <1>k, FrameUpdated
  <2>2. CallsOK
    BY <1>0, <1>1, <2>1, Suspends DEF RunGet, PCs
  <2> QED  BY <1>1, <1>v, <2>2, PoolTyped DEF RunGet, TypeOK
<1>2. CASE WaitGet(c)
  <2>1. CASE Tracked(s)
    <3>1. registry[s] \in Calls
      BY <1>0, <2>1 DEF Tracked, TypeOK, StateTypeOK
    <3>2. CallsOK
      BY <1>0, <1>2, <1>k, <2>1, <3>1, BeginPollTyped DEF WaitGet
    <3> QED  BY <1>2, <1>v, <3>2, PoolTyped DEF WaitGet, TypeOK
  <2>2. CASE ~Tracked(s)
    <3>1. CallsOK
      BY <1>0, <1>2, <2>2, ExpectedResults, Settles DEF WaitGet
    <3> QED  BY <1>2, <1>v, <3>1, PoolTyped DEF WaitGet, TypeOK
  <2> QED  BY <2>1, <2>2
<1>3. CASE KillGet(c)
  <2>1. [NoFrame EXCEPT !.conn = Conn] \in Frame
    BY <1>t, <1>k, FrameUpdated
  <2>2. CallsOK
    BY <1>0, <1>3, <2>1, Suspends DEF KillGet, PCs
  <2> QED  BY <1>3, <1>v, <2>2, PoolTyped DEF KillGet, TypeOK
<1>4. CASE GetRejected(c)
  BY <1>0, <1>4, <1>u, <1>v, Raises DEF GetRejected, Failures, TypeOK
<1>5. CASE GetUnreachable(c)
  <2>1. CallsOK
    BY <1>0, <1>5, ExpectedResults, Settles, Raises
    DEF GetUnreachable, Failures
  <2>2. StateTypeOK'
    BY <1>0, <1>5, StateTyped DEF GetUnreachable, TypeOK
  <2> QED  BY <1>5, <1>u, <2>1, <2>2 DEF GetUnreachable, TypeOK
<1>6. CASE RunBusy(c)
  <2> DEFINE r == [Only("busy") EXCEPT !.log = obj[registry[s]].log]
  <2>1. r \in Result
    BY <1>0, <1>6 DEF RunBusy, Tracked, TypeOK, StateTypeOK, State, Result,
                      Statuses, Only
  <2>2. CallsOK
    BY <1>0, <1>6, <2>1, Settles DEF RunBusy
  <2> QED  BY <1>6, <1>u, <1>v, <2>2 DEF RunBusy, TypeOK
<1>7. CASE RunClaim(c)
  <2> DEFINE o == IF registry[s] = None THEN c ELSE registry[s]
  <2>1. o \in Calls
    BY <1>0 DEF TypeOK, StateTypeOK
  <2> DEFINE g == [f EXCEPT !.ref = o]
  <2>2. g \in Frame /\ g.ref \in Calls
    <3>1. g \in Frame
      BY <1>t, <2>1, FrameUpdated
    <3>2. g.ref = o
      BY <1>t DEF Frame
    <3> QED  BY <2>1, <3>1, <3>2
  <2>3. CallsOK
    BY <1>0, <1>7, <2>2, Suspends
    DEF RunClaim, Claim, PCs, Sending
  <2>4. [obj[o] EXCEPT !.log = c] \in State
    BY <2>1 DEF TypeOK, StateTypeOK, State
  <2>5. StateTypeOK'
    BY <1>0, <1>7, <2>1, <2>4 DEF RunClaim, Claim, TypeOK, StateTypeOK
  <2> QED  BY <1>7, <1>u, <2>3, <2>5 DEF RunClaim, Claim, TypeOK
<1>8. CASE RunEnsure(c)
  <2> DEFINE g == [f EXCEPT !.created = ~pane[s].alive]
  <2>1. g \in Frame /\ g.ref \in Calls
    <3>1. (~pane[s].alive) \in BOOLEAN
      OBVIOUS
    <3>2. g \in Frame
      BY <1>t, <3>1, FrameUpdated
    <3>3. g.ref = f.ref /\ f.ref \in Calls
      BY <1>t, <1>8 DEF Frame, RunEnsure, TypeOK, CallHas, Sending
    <3> QED  BY <3>2, <3>3
  <2>2. CallsOK
    BY <1>0, <1>8, <2>1, Suspends DEF RunEnsure, PCs, Sending
  <2>3. HostTypeOK'
    BY <1>0, <1>8, CommandsTyped DEF RunEnsure, TypeOK
  <2> QED  BY <1>8, <1>v, <2>2, <2>3 DEF RunEnsure, TypeOK
<1>9. CASE RunType(c)
  <2>1. f.ref \in Calls
    BY <1>9 DEF RunType, TypeOK, CallHas, Sending
  <2>2. CallsOK
    BY <1>0, <1>9, <1>t, <2>1, Suspends DEF RunType, PCs, Sending
  <2>3. HostTypeOK'
    BY <1>0, <1>9, CommandsTyped DEF RunType, TypeOK
  <2> QED  BY <1>9, <1>v, <2>2, <2>3 DEF RunType, TypeOK
<1>10. CASE RunEnter(c)
  <2>1. f.ref \in Calls
    BY <1>10 DEF RunEnter, TypeOK, CallHas, Sending
  <2>2. HostTypeOK'
    BY <1>0, <1>10, CommandsTyped DEF RunEnter, TypeOK
  <2>3. CallsOK
    <3>1. CASE f.created
      BY <1>0, <1>10, <1>t, <2>1, <3>1, Suspends DEF RunEnter, PCs
    <3>2. CASE ~f.created
      BY <1>0, <1>10, <1>k, <2>1, <3>2, BeginPollTyped DEF RunEnter
    <3> QED  BY <3>1, <3>2
  <2>4. StateTypeOK'
    BY <1>0, <1>10, <2>1, StateTyped DEF RunEnter, TypeOK
  <2> QED  BY <2>2, <2>3, <2>4 DEF TypeOK
<1>11. CASE RunCreated(c)
  <2>1. f.ref \in Calls
    BY <1>11 DEF RunCreated, TypeOK, CallHas
  <2>2. CallsOK
    BY <1>0, <1>11, <1>k, <2>1, BeginPollTyped DEF RunCreated
  <2>3. StateTypeOK'
    BY <1>0, <1>11, <2>1, StateTyped DEF RunCreated, TypeOK
  <2> QED  BY <1>11, <1>u, <2>2, <2>3 DEF RunCreated, TypeOK
<1>12. CASE SendError(c)
  <2>1. f.ref \in Calls
    BY <1>12 DEF SendError, TypeOK, CallHas, Sending
  <2>2. CallsOK
    BY <1>0, <1>12, Raises DEF SendError, Failures
  <2>3. StateTypeOK'
    BY <1>0, <1>12, <2>1, StateTyped DEF SendError, TypeOK
  <2> QED  BY <1>12, <1>u, <2>2, <2>3 DEF SendError, TypeOK
<1>13. CASE SendUnreachable(c)
  <2>1. f.ref \in Calls
    BY <1>13 DEF SendUnreachable, TypeOK, CallHas
  <2>2. CallsOK
    BY <1>0, <1>13, Raises DEF SendUnreachable, Failures
  <2>3. StateTypeOK'
    BY <1>0, <1>13, <2>1, StateTyped DEF SendUnreachable, TypeOK
  <2>4. HostTypeOK'
    BY <1>13, <1>k, PoolTyped DEF SendUnreachable, TypeOK
  <2> QED  BY <2>2, <2>3, <2>4 DEF TypeOK
<1>14. CASE PollDone(c)
  <2>1. PICK behind \in {0, 1} :
          /\ Pull(c)
          /\ \E i \in Matches(c, behind) : Report(c, "done", Text(c)[i].cmd)
    BY <1>14 DEF PollDone
  <2>2. PICK i \in Matches(c, behind) : Report(c, "done", Text(c)[i].cmd)
    BY <2>1
  <2>3. Text(c)[i].cmd \in Calls
    <3>1. i \in 1 .. Len(Text(c)) /\ Text(c) \in Seq(Token)
      BY <2>1, <2>2, PullTyped DEF Matches
    <3>2. Text(c)[i] \in Token
      BY <3>1
    <3> QED  BY <3>2 DEF Token
  <2>4. CallsOK
    BY <2>1, <2>2, <2>3, ReportTyped DEF Pull, Statuses
  <2> QED  BY <2>1, <2>4, PullTyped DEF TypeOK
<1>15. CASE PollPrompt(c)
  <2>1. PICK status \in Prompts : Pull(c) /\ Report(c, status, None)
    BY <1>15 DEF PollPrompt
  <2>2. CallsOK
    BY <2>1, ReportTyped DEF Pull, Statuses
  <2> QED  BY <2>1, <2>2, PullTyped DEF TypeOK
<1>16. CASE PollTimeout(c)
  <2>1. Pull(c) /\ Report(c, "still_running", None)
    BY <1>16 DEF PollTimeout
  <2>2. CallsOK
    BY <2>1, ReportTyped DEF Pull, Statuses
  <2> QED  BY <2>1, <2>2, PullTyped DEF TypeOK
<1>17. CASE PollSleep(c)
  <2>1. Pull(c) /\ Suspend(c, "sleep", f)
    BY <1>17 DEF PollSleep
  <2>2. f.ref \in Calls
    BY <2>1 DEF Pull, TypeOK, CallHas
  <2>3. CallsOK
    BY <1>0, <1>t, <2>1, <2>2, Suspends DEF PCs, Polling
  <2> QED  BY <2>1, <2>3, PullTyped DEF TypeOK
<1>18. CASE PollWake(c)
  <2> DEFINE o == f.ref
             g == [f EXCEPT !.path = obj[o].log, !.from = obj[o].off]
  <2>1. o \in Calls
    BY <1>18 DEF PollWake, TypeOK, CallHas
  <2>2. obj[o].log \in Calls \cup {None} /\ obj[o].off \in Nat
    BY <2>1 DEF TypeOK, StateTypeOK, State
  <2>3. CASE obj[o].log = None
    <3>1. CallsOK
      BY <1>0, <1>18, <2>3, Raises DEF PollWake, Failures
    <3> QED  BY <1>18, <1>u, <1>v, <3>1 DEF PollWake, TypeOK
  <2>4. CASE obj[o].log # None
    <3>1. g \in Frame
      BY <1>t, <2>2, FrameUpdated
    <3>2. g.ref = o /\ g.path = obj[o].log
      BY <1>t DEF Frame
    <3>3. CallsOK
      BY <1>0, <1>18, <2>1, <2>2, <2>4, <3>1, <3>2, Suspends
      DEF PollWake, PCs, Polling
    <3> QED  BY <1>18, <1>u, <1>v, <3>3 DEF PollWake, TypeOK
  <2> QED  BY <2>3, <2>4
<1>19. CASE PollUnreachable(c)
  <2>1. CallsOK
    BY <1>0, <1>19, Raises DEF PollUnreachable, Failures
  <2>2. StateTypeOK'
    BY <1>0, <1>19, StateTyped DEF PollUnreachable, TypeOK
  <2>3. HostTypeOK'
    BY <1>19, <1>k, PoolTyped DEF PollUnreachable, TypeOK
  <2> QED  BY <2>1, <2>2, <2>3 DEF TypeOK
<1>20. CASE PollRecorded(c)
  <2>1. f.ref \in Calls
    BY <1>20 DEF PollRecorded, TypeOK, CallHas
  <2>2. CallsOK
    BY <1>0, <1>20, Records DEF PollRecorded
  <2>3. StateTypeOK'
    BY <1>0, <1>20, <2>1, StateTyped DEF PollRecorded, TypeOK
  <2> QED  BY <1>20, <1>u, <2>2, <2>3 DEF PollRecorded, TypeOK
<1>21. CASE KillRemote(c)
  <2> DEFINE r == Only(IF pane[s].alive THEN "killed" ELSE "not_killed")
  <2>1. r \in Result
    BY RecordsTyped DEF Statuses
  <2>2. CallTypeOK' /\ \A d \in Calls : CallHas(d)'
    <3>1. /\ pc' = [pc EXCEPT ![c] = "forget"]
          /\ result' = [result EXCEPT ![c] = r]
          /\ UNCHANGED <<op, sess, frame, audits>>
      BY <1>21 DEF KillRemote, At
    <3>2. CallTypeOK'
      BY <2>1, <3>1 DEF TypeOK, CallTypeOK, PCs
    <3>3. \A d \in Calls : CallHas(d)'
      BY <1>0, <1>21, <3>1
      DEF KillRemote, TypeOK, CallTypeOK, CallHas, Sending
    <3> QED  BY <3>2, <3>3
  <2>3. HostTypeOK'
    BY <1>0, <1>21, CommandsTyped DEF KillRemote, TypeOK
  <2> QED  BY <1>21, <1>v, <2>2, <2>3 DEF KillRemote, TypeOK
<1>22. CASE KillForget(c)
  <2>0. op[c] = "kill"
    BY <1>22 DEF KillForget, TypeOK, CallHas
  <2>1. CallsOK
    BY <1>0, <1>22, <1>t, <2>0, ExpectedResults, Settles DEF KillForget
  <2>2. StateTypeOK'
    BY <1>0, <1>22, StateTyped DEF KillForget, TypeOK
  <2>3. HostTypeOK'
    BY <1>22, <1>k, PoolTyped DEF KillForget, TypeOK
  <2> QED  BY <2>1, <2>2, <2>3 DEF TypeOK
<1>23. CASE KillRecorded(c)
  <2>1. CallsOK
    BY <1>0, <1>23, Records DEF KillRecorded
  <2> QED  BY <1>23, <1>u, <1>v, <2>1 DEF KillRecorded, TypeOK
<1>24. CASE ResetNoop(c)
  <2>1. CallsOK
    BY <1>0, <1>24, ExpectedResults, Settles DEF ResetNoop
  <2> QED  BY <1>24, <1>u, <1>v, <2>1 DEF ResetNoop, TypeOK
<1>25. CASE ResetClaim(c)
  <2> DEFINE o == registry[s]
             g == [NoFrame EXCEPT !.ref = o, !.watch = obj[o].log]
  <2>1. o \in Calls /\ obj[o].log \in Calls
    BY <1>0, <1>25
    DEF ResetClaim, Tracked, TypeOK, StateTypeOK, State
  <2>2. g \in Frame
    BY <1>t, <2>1, FrameUpdated
  <2>3. g.ref = o
    BY DEF NoFrame
  <2>4. CallsOK
    BY <1>0, <1>25, <2>1, <2>2, <2>3, Suspends DEF ResetClaim, PCs
  <2>5. StateTypeOK'
    BY <1>0, <1>25 DEF ResetClaim, TypeOK, StateTypeOK
  <2> QED  BY <1>25, <1>u, <2>4, <2>5 DEF ResetClaim, TypeOK
<1>26. CASE ResetDone(c)
  <2> DEFINE r == [Only("reset") EXCEPT !.log = f.watch]
  <2>1. r \in Result
    BY <1>t DEF Only, Result, Frame, Statuses
  <2>2. f.ref \in Calls
    BY <1>26 DEF ResetDone, TypeOK, CallHas
  <2>3. /\ pc' = [pc EXCEPT ![c] = "end"]
        /\ audits' = [audits EXCEPT ![c] = @ + 1]
        /\ frame' = [frame EXCEPT ![c] = NoFrame]
        /\ result' = [result EXCEPT ![c] = r]
        /\ UNCHANGED <<op, sess>>
    BY <1>26 DEF ResetDone, At
  <2>4. CallTypeOK'
    BY <1>t, <2>1, <2>3 DEF TypeOK, CallTypeOK, PCs
  <2>5. \A d \in Calls : CallHas(d)'
    BY <1>0, <2>3 DEF TypeOK, CallTypeOK, CallHas, Sending
  <2>6. StateTypeOK'
    BY <1>0, <1>26, <2>2, StateTyped DEF ResetDone, TypeOK
  <2> QED  BY <1>26, <1>u, <2>4, <2>5, <2>6 DEF ResetDone, TypeOK
<1>27. CASE ServerRecords(c)
  <2>1. CallsOK
    BY <1>0, <1>27, Records DEF ServerRecords
  <2> QED  BY <1>27, <1>u, <1>v, <2>1 DEF ServerRecords, TypeOK
<1>28. CASE Cuts(c)
  BY <1>28, CutTyped
<1> QED  BY <1>1, <1>2, <1>3, <1>4, <1>5, <1>6, <1>7, <1>8, <1>9, <1>10,
            <1>11, <1>12, <1>13, <1>14, <1>15, <1>16, <1>17, <1>18, <1>19,
            <1>20, <1>21, <1>22, <1>23, <1>24, <1>25, <1>26, <1>27, <1>28
         DEF Step, Resume, Cuts

\* So does every other step.
LEMMA NextTyped ==
    ASSUME TypeOK, [Next]_vars
    PROVE  TypeOK'
<1>1. ASSUME NEW c \in Calls, Start(c)
      PROVE  TypeOK'
  <2>1. PICK o \in Ops, s \in Sessions :
          /\ op' = [op EXCEPT ![c] = o]
          /\ sess' = [sess EXCEPT ![c] = s]
          /\ At(c, IF o = "reset" THEN "lock" ELSE "get")
    BY <1>1 DEF Start
  <2>2. CallTypeOK' /\ UNCHANGED <<hostVars, stateVars, frame>>
    BY <1>1, <2>1 DEF Start, At, TypeOK, CallTypeOK, PCs
  <2>3. \A d \in Calls : CallHas(d)'
    BY <1>1, <2>1, <2>2
    DEF Start, At, TypeOK, CallTypeOK, CallHas, Sending
  <2> QED  BY <2>2, <2>3 DEF TypeOK, HostTypeOK, StateTypeOK, hostVars,
                             netVars, stateVars
<1>2. ASSUME NEW c \in Calls, Step(c)
      PROVE  TypeOK'
  BY <1>2, ResumeTyped
<1>3. ASSUME NEW c \in Calls, Expire(c)
      PROVE  TypeOK'
  <2> DEFINE f == frame[c]  g == [f EXCEPT !.expired = TRUE]
  <2>1. f \in Frame /\ f.ref \in Calls /\ pc[c] \in PCs
    BY <1>3 DEF Expire, TypeOK, CallTypeOK, CallHas
  <2>2. g \in Frame
    BY <2>1, FrameUpdated
  <2>3. g.ref = f.ref /\ g.path = f.path
    BY <2>1 DEF Frame
  <2>4. Suspend(c, pc[c], g) /\ UNCHANGED <<hostVars, stateVars>>
    BY <1>3 DEF Expire
  <2>5. CallTypeOK' /\ \A d \in Calls : CallHas(d)'
    <3>1. pc[c] \in {"reading", "sleep"}
      BY <1>3 DEF Expire
    <3>2. pc[c] = "reading" => f.path \in Calls
      BY DEF TypeOK, CallHas
    <3> HIDE DEF g
    <3> QED  BY <2>1, <2>2, <2>3, <2>4, <3>1, <3>2, Suspends
  <2> QED  BY <2>4, <2>5 DEF TypeOK, HostTypeOK, StateTypeOK, hostVars,
                             netVars, stateVars
<1>4. ASSUME HostNext, UNCHANGED <<stateVars, callVars>>
      PROVE  TypeOK'
  <2>1. HostTypeOK'
    BY <1>4, HostTyped DEF TypeOK
  <2> QED  BY <1>4, <2>1 DEF TypeOK, StateTypeOK, CallTypeOK, CallHas,
                             stateVars, callVars
<1>5. ASSUME UNCHANGED vars
      PROVE  TypeOK'
  BY <1>5 DEF TypeOK, HostTypeOK, StateTypeOK, CallTypeOK, CallHas, vars,
              hostVars, netVars, stateVars, callVars
<1> QED  BY <1>1, <1>2, <1>3, <1>4, <1>5 DEF Next, Step

\* Types are kept, and every call has the session, the state object and the
\* log file that its next step uses (sessions.py:155-422).
THEOREM TypeCorrect == Spec => []TypeOK
BY InitTyped, NextTyped, PTL DEF Spec

-----------------------------------------------------------------------------
(* The inductive invariant.                                                *)

\* Call c is inside `async with lock' and suspended.
HoldsLock(c) == pc[c] \in Sending \cup {"create", "audit"}
LockOwned == \A c \in Calls : HoldsLock(c) => lock[sess[c]] = c

\* What a call that has not started, or not reached its state object, has,
\* and which tool suspends where.
Fresh(c) ==
    /\ pc[c] \in {"new", "get", "lock"} =>
        frame[c].ref = None /\ result[c].status = "none"
    /\ pc[c] \in Sending \cup {"create"} => op[c] = "run"
    /\ pc[c] = "audit" => op[c] = "reset"
AllFresh == \A c \in Calls : Fresh(c)

\* A state object belongs to one session: the registry and the calls that
\* refer to it agree on which.
ObjectsAtHome ==
    /\ \A s \in Sessions :
        registry[s] # None => sess[registry[s]] = s /\ pc[registry[s]] # "new"
    /\ \A c \in Calls :
        frame[c].ref # None =>
            sess[frame[c].ref] = sess[c] /\ pc[frame[c].ref] # "new"

\* A command is tracked by one object only, the one its session_run claimed.
TracksOnce ==
    \A o, c \in Calls :
        obj[o].log = c =>
            /\ op[c] = "run" /\ pc[c] \notin {"new", "get", "lock"}
            /\ pc[o] # "new" /\ sess[o] = sess[c]
            /\ frame[c].ref # None => frame[c].ref = o

\* The claimed object keeps the command of its claimant, or is idle.
ClaimKept ==
    \A c \in Calls :
        op[c] = "run" /\ HoldsLock(c) => obj[frame[c].ref].log \in {None, c}

\* A session_run watches for its own sentinel.
WatchOwn ==
    \A c \in Calls :
        op[c] = "run" /\ pc[c] \in {"reading", "sleep"}
            => frame[c].watch = c

\* A call that raised is over, or about to be recorded.
RaisedEnds ==
    \A c \in Calls :
        result[c].status \in Failures => pc[c] \in {"fail"} \cup Over

\* How many lines there are about a call, and what its result may be, where
\* it is: one in the buffer when its record failed, one more for that failure.
Quiet == {"busy", "idle", "noop"}
Buffered(c) == IF result[c].status = "unsaved" THEN {0, 1} ELSE {0}
Counted(c) ==
    /\ pc[c] \notin Over => audits[c] \in Buffered(c)
    /\ pc[c] \notin Over \cup {"fail"} => result[c].status # "unsaved"
    /\ pc[c] = "cut" => audits[c] \in Buffered(c) \cup {n + 1 : n \in Buffered(c)}
    /\ pc[c] = "end" =>
        \/ audits[c] = 0 /\ result[c].status \in Quiet
        \/ /\ audits[c] \in {n + 1 : n \in Buffered(c)}
           /\ result[c].status \notin Quiet
    /\ pc[c] \in {"fail", "record", "forget"} =>
        result[c].status \notin Quiet
Accounted == \A c \in Calls : Counted(c)

Inv ==
    /\ TypeOK
    /\ LockOwned /\ AllFresh /\ ObjectsAtHome /\ TracksOnce
    /\ ClaimKept /\ ResetClearsWhatItAudited
    /\ WatchOwn /\ RunExitIsOwn
    /\ OwnKeystrokes
    /\ RaisedEnds /\ NoGhostBusy
    /\ Accounted

-----------------------------------------------------------------------------
(* What a step of call c leaves alone.                                     *)

OthersKept(c) ==
    /\ UNCHANGED <<op, sess>>
    /\ \A d \in Calls \ {c} :
        /\ pc'[d] = pc[d] /\ frame'[d] = frame[d]
        /\ result'[d] = result[d] /\ audits'[d] = audits[d]

LEMMA ResumeKeepsOthers ==
    ASSUME TypeOK, NEW c \in Calls, Step(c)
    PROVE  OthersKept(c)
<1> USE DEF TypeOK, CallTypeOK, OthersKept, At, Suspend, Settle
<1>1. CASE RunClaim(c) \/ ResetClaim(c) \/ ResetDone(c)
  BY <1>1 DEF RunClaim, Claim, ResetClaim, ResetDone
<1>2. CASE SendError(c) \/ SendUnreachable(c)
  BY <1>2 DEF SendError, SendUnreachable, Raise
<1>3. CASE RunCreated(c) \/ RunEnter(c) \/ RunEnsure(c) \/ RunType(c)
  BY <1>3 DEF RunCreated, RunEnter, Raise, BeginPoll, RunEnsure, RunType
<1>4. CASE \/ PollDone(c) \/ PollPrompt(c) \/ PollTimeout(c)
           \/ PollSleep(c) \/ PollWake(c) \/ PollUnreachable(c)
  BY <1>4 DEF PollDone, PollPrompt, PollTimeout, PollSleep, PollWake,
              PollUnreachable, Pull, Report, Raise
<1>5. CASE \/ RunGet(c) \/ WaitGet(c) \/ KillGet(c)
           \/ GetRejected(c) \/ GetUnreachable(c)
  BY <1>5 DEF RunGet, WaitGet, KillGet, GetRejected, GetUnreachable, Raise,
              Return, BeginPoll
<1>6. CASE \/ RunBusy(c) \/ ResetNoop(c) \/ PollRecorded(c)
           \/ KillRecorded(c) \/ ServerRecords(c)
  BY <1>6 DEF RunBusy, ResetNoop, Return, PollRecorded, KillRecorded,
              ServerRecords, Recorded
<1>7. CASE KillRemote(c) \/ KillForget(c)
  BY <1>7 DEF KillRemote, KillForget
<1>c. CASE Cuts(c)
  BY <1>c, CutParts DEF OthersKept
<1> QED  BY <1>1, <1>2, <1>3, <1>4, <1>5, <1>6, <1>7, <1>c
         DEF Step, Resume, Cuts

\* The lock changes hands in three ways: c takes it free, c gives it back,
\* or nothing happens to it.
LockStep(c) ==
    LET s == sess[c] IN
    \/ /\ lock[s] = None /\ lock' = [lock EXCEPT ![s] = c]
       /\ RunClaim(c) \/ ResetClaim(c)
       /\ ~HoldsLock(c) /\ HoldsLock(c)'
    \/ lock' = [lock EXCEPT ![s] = None] /\ HoldsLock(c) /\ ~HoldsLock(c)'
    \/ UNCHANGED lock /\ (HoldsLock(c)' <=> HoldsLock(c))

LEMMA ResumeLockStep ==
    ASSUME TypeOK, NEW c \in Calls, Step(c)
    PROVE  LockStep(c)
<1> USE DEF TypeOK, CallTypeOK, LockStep, HoldsLock, Sending, At, Suspend,
            Settle, stateVars
<1>1. CASE RunClaim(c)
  BY <1>1 DEF RunClaim, Claim
<1>2. CASE ResetClaim(c)
  BY <1>2 DEF ResetClaim
<1>3. CASE SendError(c) \/ SendUnreachable(c) \/ ResetDone(c)
  BY <1>3 DEF SendError, SendUnreachable, ResetDone, Release, Raise
<1>4. CASE RunCreated(c) \/ RunEnter(c)
  BY <1>4 DEF RunCreated, RunEnter, Release, Raise, BeginPoll
<1>5. CASE RunEnsure(c) \/ RunType(c)
  BY <1>5 DEF RunEnsure, RunType
<1>6. CASE \/ PollDone(c) \/ PollPrompt(c) \/ PollTimeout(c)
           \/ PollSleep(c) \/ PollWake(c) \/ PollUnreachable(c)
  BY <1>6 DEF PollDone, PollPrompt, PollTimeout, PollSleep, PollWake,
              PollUnreachable, Pull, Report, Raise
<1>7. CASE \/ RunGet(c) \/ WaitGet(c) \/ KillGet(c)
           \/ GetRejected(c) \/ GetUnreachable(c)
  BY <1>7 DEF RunGet, WaitGet, KillGet, GetRejected, GetUnreachable, Raise,
              Return, BeginPoll
<1>8. CASE \/ RunBusy(c) \/ ResetNoop(c) \/ PollRecorded(c)
           \/ KillRecorded(c) \/ ServerRecords(c)
  BY <1>8 DEF RunBusy, ResetNoop, Return, PollRecorded, KillRecorded,
              ServerRecords, Recorded
<1>9. CASE KillRemote(c) \/ KillForget(c)
  BY <1>9 DEF KillRemote, KillForget
<1>c. CASE Cuts(c)
  BY <1>c, CutParts DEF Unlocks, Release
<1> QED  BY <1>1, <1>2, <1>3, <1>4, <1>5, <1>6, <1>7, <1>8, <1>9, <1>c
         DEF Step, Resume, Cuts

LEMMA ResumeLockOwned ==
    ASSUME TypeOK, LockOwned, NEW c \in Calls, Step(c)
    PROVE  LockOwned'
<1> SUFFICES ASSUME NEW d \in Calls, HoldsLock(d)'
             PROVE  lock'[sess'[d]] = d
  BY DEF LockOwned
<1>1. OthersKept(c) /\ LockStep(c)
  BY ResumeKeepsOthers, ResumeLockStep
<1>2. lock \in [Sessions -> Calls \cup {None}] /\ sess[c] \in Sessions
  BY Started DEF TypeOK, StateTypeOK
<1>3. CASE d = c
  BY <1>1, <1>2, <1>3 DEF OthersKept, LockStep, LockOwned
<1>4. CASE d # c
  <2>1. HoldsLock(d)
    BY <1>1, <1>4 DEF OthersKept, HoldsLock
  <2>2. lock[sess[d]] = d /\ sess'[d] = sess[d]
    BY <1>1, <2>1 DEF LockOwned, OthersKept
  <2>3. sess[d] = sess[c] => lock[sess[c]] # None /\ ~HoldsLock(c)
    BY <1>4, <2>2 DEF LockOwned
  <2>4. UNCHANGED lock \/ sess[d] # sess[c]
    BY <1>1, <2>3 DEF LockStep
  <2>5. sess[d] \in Sessions
    BY <2>1 DEF HoldsLock, Sending, TypeOK, CallHas
  <2>6. lock'[sess[d]] = lock[sess[d]]
    BY <1>1, <1>2, <2>4, <2>5 DEF LockStep
  <2> QED  BY <2>2, <2>6
<1> QED  BY <1>3, <1>4

-----------------------------------------------------------------------------
(* Fresh and ObjectsAtHome.                                                *)

LEMMA ResumeFresh ==
    ASSUME TypeOK, AllFresh, NEW c \in Calls, Step(c)
    PROVE  AllFresh'
<1>1. OthersKept(c)
  BY ResumeKeepsOthers
<1>2. ASSUME NEW d \in Calls, d # c
      PROVE  Fresh(d)'
  BY <1>1, <1>2 DEF OthersKept, AllFresh, Fresh
<1>3. Fresh(c)'
  <2> USE DEF TypeOK, CallTypeOK, AllFresh, Fresh, At, Suspend, Settle,
              Sending
  <2>1. CASE RunClaim(c) \/ ResetClaim(c) \/ ResetDone(c)
    BY <2>1 DEF RunClaim, Claim, ResetClaim, ResetDone
  <2>2. CASE SendError(c) \/ SendUnreachable(c)
    BY <2>2 DEF SendError, SendUnreachable, Raise
  <2>3. CASE RunCreated(c) \/ RunEnter(c) \/ RunEnsure(c) \/ RunType(c)
    BY <2>3 DEF RunCreated, RunEnter, Raise, BeginPoll, RunEnsure, RunType
  <2>4. CASE \/ PollDone(c) \/ PollPrompt(c) \/ PollTimeout(c)
             \/ PollSleep(c) \/ PollWake(c) \/ PollUnreachable(c)
    BY <2>4 DEF PollDone, PollPrompt, PollTimeout, PollSleep, PollWake,
                PollUnreachable, Pull, Report, Raise
  <2>5. CASE RunGet(c)
    BY <2>5 DEF RunGet, NoFrame
  <2>6. CASE \/ WaitGet(c) \/ KillGet(c)
             \/ GetRejected(c) \/ GetUnreachable(c)
    BY <2>6 DEF WaitGet, KillGet, GetRejected, GetUnreachable, Raise,
                Return, BeginPoll
  <2>7. CASE \/ RunBusy(c) \/ ResetNoop(c) \/ PollRecorded(c)
             \/ KillRecorded(c) \/ ServerRecords(c)
    BY <2>7 DEF RunBusy, ResetNoop, Return, PollRecorded, KillRecorded,
                ServerRecords, Recorded
  <2>8. CASE KillRemote(c) \/ KillForget(c)
    BY <2>8 DEF KillRemote, KillForget
  <2>c. CASE Cuts(c)
    BY <2>c, CutParts
  <2> QED  BY <2>1, <2>2, <2>3, <2>4, <2>5, <2>6, <2>7, <2>8, <2>c
           DEF Step, Resume, Cuts
<1> QED  BY <1>2, <1>3 DEF AllFresh

\* Which object c refers to after its step, and what the registry holds: c
\* keeps its object, drops it, or takes the one that is registered, which
\* only RunClaim registers.
ObjectStep(c) ==
    LET s == sess[c] IN
    /\ \/ RunClaim(c)
       \/ UNCHANGED registry
       \/ registry' = [registry EXCEPT ![s] = None]
    /\ \/ RunClaim(c)
       \/ frame'[c].ref \in {None, frame[c].ref}
       \/ /\ op[c] # "run" /\ registry[s] # None
          /\ frame'[c].ref = registry[s]
    /\ pc'[c] # "new"

\* What a new frame refers to and watches.
LEMMA FrameParts ==
    /\ NoFrame.ref = None
    /\ \A o, w :
        /\ [NoFrame EXCEPT !.ref = o, !.watch = w].ref = o
        /\ [NoFrame EXCEPT !.ref = o, !.watch = w].watch = w
    /\ \A o, k, w, p, n :
        LET f == [NoFrame EXCEPT !.ref = o, !.conn = k, !.watch = w,
                                 !.path = p, !.from = n]
        IN  f.ref = o /\ f.watch = w
    /\ \A f \in Frame : \A p, n :
        /\ [f EXCEPT !.path = p, !.from = n].ref = f.ref
        /\ [f EXCEPT !.path = p, !.from = n].watch = f.watch
BY DEF NoFrame, Frame

\* _poll begins on object o, or its first assertion fails.
LEMMA BeginPollParts ==
    ASSUME TypeOK, NEW c \in Calls, NEW o, NEW k, BeginPoll(c, o, k)
    PROVE  \/ /\ obj[o].log # None /\ pc'[c] = "reading"
              /\ frame'[c].ref = o /\ frame'[c].watch = obj[o].log
              /\ UNCHANGED <<op, sess, result, audits>>
           \/ obj[o].log = None /\ Raise(c, "assert")
<1>1. CASE obj[o].log = None
  BY <1>1 DEF BeginPoll
<1>2. CASE obj[o].log # None
  <2> DEFINE w == obj[o].log
             f == [NoFrame EXCEPT !.ref = o, !.conn = k, !.watch = w,
                                  !.path = w, !.from = obj[o].off]
  <2>1. Suspend(c, "reading", f)
    BY <1>2 DEF BeginPoll
  <2>2. f.ref = o /\ f.watch = w
    BY FrameParts
  <2> HIDE DEF f
  <2>3. frame'[c] = f /\ pc'[c] = "reading"
    BY <2>1 DEF Suspend, At, TypeOK, CallTypeOK
  <2> QED  BY <1>2, <2>1, <2>2, <2>3 DEF Suspend
<1> QED  BY <1>1, <1>2

LEMMA ResumeObjectStep ==
    ASSUME TypeOK, NEW c \in Calls, Step(c)
    PROVE  ObjectStep(c)
<1> USE DEF TypeOK, CallTypeOK, ObjectStep, At, Suspend, Settle, stateVars,
            NoFrame
<1>0. frame[c] \in Frame
  OBVIOUS
<1>1. CASE RunClaim(c)
  BY <1>1 DEF RunClaim, Claim
<1>2. CASE ResetClaim(c)
  <2> DEFINE r == registry[sess[c]]
             f == [NoFrame EXCEPT !.ref = r, !.watch = obj[r].log]
  <2>1. f.ref = r
    BY FrameParts
  <2>2. Suspend(c, "audit", f)
    BY <1>2 DEF ResetClaim
  <2> HIDE DEF f
  <2>3. frame'[c] = f
    BY <2>2
  <2> QED  BY <1>2, <2>1, <2>2, <2>3 DEF ResetClaim, Tracked
<1>3. CASE SendError(c) \/ SendUnreachable(c)
  BY <1>3 DEF SendError, SendUnreachable, Raise, Forget
<1>4. CASE RunCreated(c) \/ RunEnter(c)
  <2>1. \/ BeginPoll(c, frame[c].ref, frame[c].conn)
        \/ Suspend(c, "create", frame[c])
    BY <1>4 DEF RunCreated, RunEnter
  <2>2. UNCHANGED registry
    BY <1>4 DEF RunCreated, RunEnter
  <2> QED  BY <2>1, <2>2, BeginPollParts DEF Raise
<1>5. CASE RunEnsure(c)
  BY <1>0, <1>5 DEF RunEnsure, Frame
<1>6. CASE RunType(c)
  BY <1>6 DEF RunType
<1>7. CASE PollDone(c) \/ PollPrompt(c) \/ PollTimeout(c) \/ PollSleep(c)
  BY <1>7 DEF PollDone, PollPrompt, PollTimeout, PollSleep, Pull, Report,
              Raise
<1>8. CASE PollWake(c)
  <2> DEFINE o == obj[frame[c].ref]
             f == [frame[c] EXCEPT !.path = o.log, !.from = o.off]
  <2>1. f.ref = frame[c].ref
    BY <1>0, FrameParts
  <2>2. Suspend(c, "reading", f) \/ Raise(c, "assert")
    BY <1>8 DEF PollWake
  <2> HIDE DEF f
  <2>3. frame'[c] = f \/ frame'[c] = NoFrame
    BY <2>2 DEF Raise
  <2> QED  BY <1>8, <2>1, <2>2, <2>3 DEF PollWake, Raise
<1>9. CASE PollUnreachable(c)
  BY <1>9 DEF PollUnreachable, Raise, Forget
<1>10. CASE RunGet(c) \/ KillGet(c) \/ GetRejected(c) \/ GetUnreachable(c)
  BY <1>10 DEF RunGet, KillGet, GetRejected, GetUnreachable, Raise, Forget
<1>11. CASE WaitGet(c)
  BY <1>11, BeginPollParts DEF WaitGet, Raise, Return, Tracked
<1>12. CASE \/ RunBusy(c) \/ ResetNoop(c) \/ PollRecorded(c)
            \/ KillRecorded(c) \/ ServerRecords(c) \/ ResetDone(c)
  BY <1>12 DEF RunBusy, ResetNoop, Return, PollRecorded, KillRecorded,
               ServerRecords, ResetDone, Recorded
<1>13. CASE KillRemote(c) \/ KillForget(c)
  BY <1>13 DEF KillRemote, KillForget, Forget
<1>c. CASE Cuts(c)
  BY <1>c, CutParts
<1> QED  BY <1>1, <1>2, <1>3, <1>4, <1>5, <1>6, <1>7, <1>8, <1>9, <1>10,
            <1>11, <1>12, <1>13, <1>c
         DEF Step, Resume, Cuts

\* The object that session_run claims, and what a step does to the commands
\* that the objects track: only RunClaim sets one, on that object.
Claimed(c) == IF registry[sess[c]] = None THEN c ELSE registry[sess[c]]
LogStep(c) ==
    \A o \in Calls :
        \/ obj'[o].log \in {obj[o].log, None}
        \/ RunClaim(c) /\ o = Claimed(c) /\ obj'[o].log = c

LEMMA ResumeLogStep ==
    ASSUME TypeOK, NEW c \in Calls, Step(c)
    PROVE  LogStep(c)
<1> SUFFICES ASSUME NEW o \in Calls
             PROVE  \/ obj'[o].log \in {obj[o].log, None}
                    \/ RunClaim(c) /\ o = Claimed(c) /\ obj'[o].log = c
  BY DEF LogStep
<1>1. obj \in [Calls -> State]
  BY DEF TypeOK, StateTypeOK
<1>2. ASSUME NEW r, Clear(r)
      PROVE  obj'[o].log \in {obj[o].log, None}
  BY <1>1, <1>2 DEF Clear, Idle
<1>3. CASE RunClaim(c)
  <2> DEFINE r == Claimed(c)
  <2>1. obj' = [obj EXCEPT ![r].log = c]
    BY <1>3 DEF RunClaim, Claim, Claimed
  <2>2. o # r => obj'[o] = obj[o]
    BY <1>1, <2>1
  <2>3. o = r => obj'[o].log = c
    BY <1>1, <2>1 DEF State
  <2> QED  BY <1>3, <2>2, <2>3
<1>4. CASE SendError(c) \/ SendUnreachable(c) \/ ResetDone(c)
  BY <1>2, <1>4 DEF SendError, SendUnreachable, ResetDone
<1>5. CASE PollRecorded(c)
  BY <1>2, <1>5 DEF PollRecorded
<1>6. CASE Pull(c)
  <2> DEFINE r == frame[c].ref
             n == [obj[r] EXCEPT !.off = obj[r].off + Len(Chunk(c)),
                                 !.text = Text(c), !.scan = Len(Text(c))]
  <2>1. obj' = [obj EXCEPT ![r] = n]
    BY <1>6 DEF Pull
  <2>2. o = r => n.log = obj[o].log
    BY <1>1 DEF State
  <2> HIDE DEF n
  <2>3. o # r => obj'[o] = obj[o]
    BY <1>1, <2>1
  <2>4. o = r => obj'[o] = n
    BY <1>1, <2>1
  <2> QED  BY <2>2, <2>3, <2>4
<1>7. CASE PollDone(c) \/ PollPrompt(c) \/ PollTimeout(c) \/ PollSleep(c)
  BY <1>6, <1>7 DEF PollDone, PollPrompt, PollTimeout, PollSleep
<1>8. CASE UNCHANGED obj
  BY <1>8
<1>9. CASE \/ RunGet(c) \/ WaitGet(c) \/ KillGet(c)
           \/ GetRejected(c) \/ GetUnreachable(c)
           \/ RunBusy(c) \/ RunEnsure(c) \/ RunType(c) \/ RunEnter(c)
           \/ RunCreated(c) \/ PollWake(c) \/ PollUnreachable(c)
           \/ KillRemote(c) \/ KillForget(c) \/ KillRecorded(c)
           \/ ResetNoop(c) \/ ResetClaim(c) \/ ServerRecords(c)
  BY <1>8, <1>9 DEF RunGet, WaitGet, KillGet, GetRejected, GetUnreachable,
       RunBusy, RunEnsure, RunType, RunEnter, RunCreated, PollWake,
       PollUnreachable, KillRemote, KillForget, KillRecorded, ResetNoop,
       ResetClaim, ServerRecords, stateVars
<1>c. CASE Cuts(c)
  BY <1>c, CutParts
<1> QED  BY <1>3, <1>4, <1>5, <1>7, <1>9, <1>c
         DEF Step, Resume, Cuts

\* A call does not return to where it has no object yet.
Forward(c) ==
    pc'[c] \in {"new", "get", "lock"} => pc[c] \in {"new", "get"}

LEMMA ResumeForward ==
    ASSUME TypeOK, NEW c \in Calls, Step(c)
    PROVE  Forward(c)
<1> USE DEF TypeOK, CallTypeOK, Forward, At, Suspend, Settle
<1>1. CASE RunClaim(c) \/ ResetClaim(c) \/ ResetDone(c)
  BY <1>1 DEF RunClaim, Claim, ResetClaim, ResetDone
<1>2. CASE SendError(c) \/ SendUnreachable(c)
  BY <1>2 DEF SendError, SendUnreachable, Raise
<1>3. CASE RunCreated(c) \/ RunEnter(c) \/ RunEnsure(c) \/ RunType(c)
  BY <1>3 DEF RunCreated, RunEnter, Raise, BeginPoll, RunEnsure, RunType
<1>4. CASE \/ PollDone(c) \/ PollPrompt(c) \/ PollTimeout(c)
           \/ PollSleep(c) \/ PollWake(c) \/ PollUnreachable(c)
  BY <1>4 DEF PollDone, PollPrompt, PollTimeout, PollSleep, PollWake,
              PollUnreachable, Pull, Report, Raise
<1>5. CASE \/ RunGet(c) \/ WaitGet(c) \/ KillGet(c)
           \/ GetRejected(c) \/ GetUnreachable(c)
  BY <1>5 DEF RunGet, WaitGet, KillGet, GetRejected, GetUnreachable, Raise,
              Return, BeginPoll
<1>6. CASE \/ RunBusy(c) \/ ResetNoop(c) \/ PollRecorded(c)
           \/ KillRecorded(c) \/ ServerRecords(c)
  BY <1>6 DEF RunBusy, ResetNoop, Return, PollRecorded, KillRecorded,
              ServerRecords, Recorded
<1>7. CASE KillRemote(c) \/ KillForget(c)
  BY <1>7 DEF KillRemote, KillForget
<1>c. CASE Cuts(c)
  BY <1>c, CutParts
<1> QED  BY <1>1, <1>2, <1>3, <1>4, <1>5, <1>6, <1>7, <1>c
         DEF Step, Resume, Cuts

\* The claim itself.
LEMMA ClaimParts ==
    ASSUME TypeOK, NEW c \in Calls, RunClaim(c)
    PROVE  /\ op[c] = "run" /\ pc[c] = "lock" /\ lock[sess[c]] = None
           /\ pc'[c] = "ensure" /\ frame'[c].ref = Claimed(c)
           /\ registry' = [registry EXCEPT ![sess[c]] = Claimed(c)]
           /\ Claimed(c) \in Calls
<1> DEFINE f == [frame[c] EXCEPT !.ref = Claimed(c)]
<1>1. frame[c] \in Frame /\ sess[c] \in Sessions
  BY DEF RunClaim, TypeOK, CallTypeOK, CallHas
<1>2. f.ref = Claimed(c)
  BY <1>1 DEF Frame
<1>3. Suspend(c, "ensure", f)
  BY DEF RunClaim, Claim, Claimed
<1> HIDE DEF f
<1>4. frame'[c] = f /\ pc'[c] = "ensure"
  BY <1>3 DEF Suspend, At, TypeOK, CallTypeOK
<1>5. Claimed(c) \in Calls
  BY <1>1 DEF Claimed, TypeOK, StateTypeOK
<1> QED  BY <1>2, <1>4, <1>5 DEF RunClaim, Claim, Claimed

LEMMA ResumeAtHome ==
    ASSUME TypeOK, AllFresh, ObjectsAtHome, NEW c \in Calls, Step(c)
    PROVE  ObjectsAtHome'
<1>1. OthersKept(c) /\ ObjectStep(c) /\ pc'[c] # "new"
  BY ResumeKeepsOthers, ResumeObjectStep DEF ObjectStep
<1>2. sess[c] \in Sessions /\ pc[c] # "new"
  BY Started
<1>3. registry \in [Sessions -> Calls \cup {None}]
  BY DEF TypeOK, StateTypeOK
<1>4. \A d \in Calls : pc[d] # "new" => pc'[d] # "new"
  BY <1>1 DEF OthersKept
<1>5. RunClaim(c) =>
        /\ registry' = [registry EXCEPT ![sess[c]] = Claimed(c)]
        /\ frame'[c].ref = Claimed(c)
  BY ClaimParts
<1>6. RunClaim(c) => /\ Claimed(c) \in Calls
                     /\ sess[Claimed(c)] = sess[c] /\ pc[Claimed(c)] # "new"
  BY <1>2, <1>3 DEF Claimed, ObjectsAtHome
<1>7. ASSUME NEW s \in Sessions, registry'[s] # None
      PROVE  sess[registry'[s]] = s /\ pc'[registry'[s]] # "new"
  <2>1. CASE RunClaim(c)
    BY <1>2, <1>3, <1>4, <1>5, <1>6, <1>7, <2>1 DEF ObjectsAtHome
  <2>2. CASE ~RunClaim(c)
    <3>1. registry'[s] = registry[s]
      BY <1>1, <1>2, <1>3, <1>7, <2>2 DEF ObjectStep
    <3> QED  BY <1>3, <1>4, <1>7, <3>1 DEF ObjectsAtHome
  <2> QED  BY <2>1, <2>2
<1>8. ASSUME NEW d \in Calls, frame'[d].ref # None
      PROVE  sess[frame'[d].ref] = sess[d] /\ pc'[frame'[d].ref] # "new"
  <2>1. ASSUME frame'[d].ref = frame[d].ref
        PROVE  sess[frame'[d].ref] = sess[d] /\ pc'[frame'[d].ref] # "new"
    <3>1. frame[d].ref \in Calls
      BY <1>8, <2>1 DEF TypeOK, CallTypeOK, Frame
    <3> QED  BY <1>4, <1>8, <2>1, <3>1 DEF ObjectsAtHome
  <2>2. d # c => frame'[d].ref = frame[d].ref
    BY <1>1 DEF OthersKept
  <2>3. CASE d = c /\ RunClaim(c)
    BY <1>4, <1>5, <1>6, <2>3
  <2>4. CASE d = c /\ frame'[c].ref = registry[sess[c]]
    <3>1. registry[sess[c]] \in Calls
      BY <1>2, <1>3, <1>8, <2>4
    <3> QED  BY <1>2, <1>4, <2>4, <3>1 DEF ObjectsAtHome
  <2> QED  BY <1>1, <1>8, <2>1, <2>2, <2>3, <2>4 DEF ObjectStep
<1> QED  BY <1>1, <1>7, <1>8 DEF OthersKept, ObjectsAtHome

LEMMA ResumeTracksOnce ==
    ASSUME TypeOK, AllFresh, ObjectsAtHome, TracksOnce,
           NEW c \in Calls, Step(c)
    PROVE  TracksOnce'
<1>1. OthersKept(c) /\ ObjectStep(c) /\ LogStep(c) /\ Forward(c)
  BY ResumeKeepsOthers, ResumeObjectStep, ResumeLogStep, ResumeForward
<1>2. sess[c] \in Sessions /\ pc[c] # "new" /\ pc'[c] # "new"
  BY <1>1, Started DEF ObjectStep
<1>3. SUFFICES ASSUME NEW o \in Calls, NEW d \in Calls, obj'[o].log = d
               PROVE  /\ op[d] = "run" /\ pc'[d] \notin {"new", "get", "lock"}
                      /\ pc'[o] # "new" /\ sess[o] = sess[d]
                      /\ frame'[d].ref # None => frame'[d].ref = o
  BY <1>1 DEF TracksOnce, OthersKept
<1>4. d # None
  OBVIOUS
<1>5. CASE RunClaim(c) /\ o = Claimed(c) /\ obj'[o].log = c
  <2>1. /\ op[c] = "run" /\ pc'[c] = "ensure"
        /\ frame'[c].ref = Claimed(c)
    BY <1>5, ClaimParts
  <2>2. sess[o] = sess[c] /\ pc[o] # "new"
    BY <1>2, <1>5 DEF Claimed, ObjectsAtHome
  <2>3. pc'[o] # "new"
    BY <1>1, <1>2, <2>2 DEF OthersKept
  <2> QED  BY <1>3, <1>5, <2>1, <2>2, <2>3
<1>6. CASE obj'[o].log = obj[o].log
  <2>1. /\ op[d] = "run" /\ pc[d] \notin {"new", "get", "lock"}
        /\ pc[o] # "new" /\ sess[o] = sess[d]
        /\ frame[d].ref # None => frame[d].ref = o
    BY <1>3, <1>6 DEF TracksOnce
  <2>2. pc'[d] \notin {"new", "get", "lock"} /\ pc'[o] # "new"
    BY <1>1, <1>2, <2>1 DEF Forward, OthersKept
  <2>3. d = c => frame'[d].ref \in {None, frame[d].ref}
    <3>1. d = c => ~RunClaim(c)
      BY <2>1, ClaimParts
    <3> QED  BY <1>1, <2>1, <3>1 DEF ObjectStep
  <2>4. d # c => frame'[d].ref = frame[d].ref
    BY <1>1 DEF OthersKept
  <2> QED  BY <2>1, <2>2, <2>3, <2>4
<1> QED  BY <1>1, <1>3, <1>4, <1>5, <1>6 DEF LogStep

\* While d holds the lock of its session, no other call claims its object.
LEMMA LockKeepsObject ==
    ASSUME TypeOK, LockOwned, ObjectsAtHome, NEW c \in Calls, Step(c),
           NEW d \in Calls, d # c, HoldsLock(d)
    PROVE  obj'[frame[d].ref].log \in {obj[frame[d].ref].log, None}
<1>1. frame[d].ref \in Calls
  BY DEF TypeOK, CallHas, HoldsLock
<1>2. LogStep(c) /\ sess[c] \in Sessions
  BY ResumeLogStep, Started
<1>3. ASSUME RunClaim(c), frame[d].ref = Claimed(c)
      PROVE  FALSE
  <2>1. sess[frame[d].ref] = sess[d] /\ frame[d].ref # None
    BY <1>1 DEF ObjectsAtHome
  <2>2. sess[Claimed(c)] = sess[c]
    BY <1>2 DEF Claimed, ObjectsAtHome
  <2>3. lock[sess[c]] = None /\ lock[sess[d]] = d
    BY <1>3, ClaimParts DEF LockOwned
  <2> QED  BY <1>3, <2>1, <2>2, <2>3
<1> QED  BY <1>1, <1>2, <1>3 DEF LogStep

LEMMA ResumeClaimKept ==
    ASSUME TypeOK, LockOwned, ObjectsAtHome, ClaimKept,
           NEW c \in Calls, Step(c)
    PROVE  ClaimKept'
<1>1. OthersKept(c) /\ ObjectStep(c) /\ LogStep(c) /\ LockStep(c) /\ TypeOK'
  BY ResumeKeepsOthers, ResumeObjectStep, ResumeLogStep, ResumeLockStep,
     ResumeTyped
<1>2. SUFFICES ASSUME NEW d \in Calls, op[d] = "run", HoldsLock(d)'
               PROVE  obj'[frame'[d].ref].log \in {None, d}
  BY <1>1 DEF ClaimKept, OthersKept
<1>3. CASE d # c
  <2>1. HoldsLock(d) /\ frame'[d].ref = frame[d].ref
    BY <1>1, <1>2, <1>3 DEF OthersKept, HoldsLock
  <2> QED  BY <1>2, <1>3, <2>1, LockKeepsObject DEF ClaimKept
<1>4. CASE d = c /\ RunClaim(c)
  <2>1. obj' = [obj EXCEPT ![Claimed(c)].log = c]
    BY <1>4 DEF RunClaim, Claim, Claimed
  <2>2. Claimed(c) \in Calls /\ frame'[c].ref = Claimed(c)
    BY <1>4, ClaimParts
  <2>3. obj'[Claimed(c)].log = c
    BY <2>1, <2>2 DEF TypeOK, StateTypeOK, State
  <2> QED  BY <1>4, <2>2, <2>3
<1>5. CASE d = c /\ ~RunClaim(c)
  <2>1. HoldsLock(c)
    BY <1>1, <1>2, <1>5 DEF LockStep, ResetClaim
  <2>2. frame'[c].ref \in Calls
    BY <1>1, <1>2, <1>5 DEF TypeOK, CallHas, HoldsLock
  <2>3. frame'[c].ref = frame[c].ref
    BY <1>1, <1>2, <1>5, <2>2 DEF ObjectStep
  <2> QED  BY <1>1, <1>2, <1>5, <2>1, <2>2, <2>3 DEF LogStep, ClaimKept
<1> QED  BY <1>3, <1>4, <1>5

LEMMA ResumeResetClears ==
    ASSUME TypeOK, LockOwned, AllFresh, ObjectsAtHome,
           ResetClearsWhatItAudited, NEW c \in Calls, Step(c)
    PROVE  ResetClearsWhatItAudited'
<1>1. OthersKept(c)
  BY ResumeKeepsOthers
<1>2. SUFFICES ASSUME NEW d \in Calls, pc'[d] = "audit"
               PROVE  obj'[frame'[d].ref].log \in {None, frame'[d].watch}
  BY DEF ResetClearsWhatItAudited
<1>3. CASE d # c
  <2>1. HoldsLock(d) /\ frame'[d] = frame[d] /\ pc[d] = "audit"
    BY <1>1, <1>2, <1>3 DEF OthersKept, HoldsLock
  <2> QED  BY <1>3, <2>1, LockKeepsObject DEF ResetClearsWhatItAudited
<1>4. CASE d = c
  <2>1. ResetClaim(c)
    <3> USE DEF TypeOK, CallTypeOK, At, Suspend, Settle
    <3>1. ~(RunClaim(c) \/ ResetDone(c) \/ SendError(c) \/ SendUnreachable(c))
      BY <1>2, <1>4 DEF RunClaim, Claim, ResetDone, SendError,
                        SendUnreachable, Raise
    <3>2. ~(RunCreated(c) \/ RunEnter(c) \/ RunEnsure(c) \/ RunType(c))
      BY <1>2, <1>4 DEF RunCreated, RunEnter, Raise, BeginPoll, RunEnsure,
                        RunType
    <3>3. ~(\/ PollDone(c) \/ PollPrompt(c) \/ PollTimeout(c)
            \/ PollSleep(c) \/ PollWake(c) \/ PollUnreachable(c))
      BY <1>2, <1>4 DEF PollDone, PollPrompt, PollTimeout, PollSleep,
                        PollWake, PollUnreachable, Pull, Report, Raise
    <3>4. ~(\/ RunGet(c) \/ WaitGet(c) \/ KillGet(c)
            \/ GetRejected(c) \/ GetUnreachable(c))
      BY <1>2, <1>4 DEF RunGet, WaitGet, KillGet, GetRejected,
                        GetUnreachable, Raise, Return, BeginPoll
    <3>5. ~(\/ RunBusy(c) \/ ResetNoop(c) \/ PollRecorded(c)
            \/ KillRecorded(c) \/ ServerRecords(c))
      BY <1>2, <1>4 DEF RunBusy, ResetNoop, Return, PollRecorded,
                        KillRecorded, ServerRecords, Recorded
    <3>6. ~(KillRemote(c) \/ KillForget(c))
      BY <1>2, <1>4 DEF KillRemote, KillForget
    <3>c. ~Cuts(c)
      BY <1>2, <1>4, CutParts
    <3> QED  BY <3>1, <3>2, <3>3, <3>4, <3>5, <3>6, <3>c
             DEF Step, Resume, Cuts
  <2> DEFINE r == registry[sess[c]]
             f == [NoFrame EXCEPT !.ref = r, !.watch = obj[r].log]
  <2>2. f.ref = r /\ f.watch = obj[r].log
    BY FrameParts
  <2>3. Suspend(c, "audit", f) /\ UNCHANGED obj
    BY <2>1 DEF ResetClaim
  <2> HIDE DEF f
  <2>4. frame'[c] = f
    BY <2>3 DEF Suspend, TypeOK, CallTypeOK
  <2> QED  BY <1>4, <2>2, <2>3, <2>4
<1> QED  BY <1>3, <1>4

-----------------------------------------------------------------------------
(* The sentinel that a session_run looks for, and its exit code.           *)

WatchStep(c) ==
    pc'[c] \in {"reading", "sleep"} =>
        \/ op[c] # "run"
        \/ /\ HoldsLock(c) /\ obj[frame[c].ref].log # None
           /\ frame'[c].watch = obj[frame[c].ref].log
        \/ pc[c] \in {"reading", "sleep"} /\ frame'[c].watch = frame[c].watch

LEMMA ResumeWatchStep ==
    ASSUME TypeOK, NEW c \in Calls, Step(c)
    PROVE  WatchStep(c)
<1> USE DEF TypeOK, CallTypeOK, WatchStep, At, Suspend, Settle
<1>1. CASE RunClaim(c) \/ ResetDone(c) \/ SendError(c) \/ SendUnreachable(c)
  BY <1>1 DEF RunClaim, Claim, ResetDone, SendError, SendUnreachable, Raise
<1>2. CASE RunCreated(c) \/ RunEnter(c)
  <2>1. \/ BeginPoll(c, frame[c].ref, frame[c].conn)
        \/ Suspend(c, "create", frame[c])
    BY <1>2 DEF RunCreated, RunEnter
  <2>2. HoldsLock(c)
    BY <1>2 DEF RunCreated, RunEnter, HoldsLock, Sending
  <2> QED  BY <2>1, <2>2, BeginPollParts DEF Raise
<1>3. CASE RunEnsure(c) \/ RunType(c) \/ ResetClaim(c)
  BY <1>3 DEF RunEnsure, RunType, ResetClaim
<1>4. CASE PollDone(c) \/ PollPrompt(c) \/ PollTimeout(c) \/ PollUnreachable(c)
  BY <1>4 DEF PollDone, PollPrompt, PollTimeout, PollUnreachable, Report,
              Raise
<1>5. CASE PollSleep(c)
  BY <1>5 DEF PollSleep, Pull
<1>6. CASE PollWake(c)
  <2> DEFINE o == obj[frame[c].ref]
             f == [frame[c] EXCEPT !.path = o.log, !.from = o.off]
  <2>1. f.watch = frame[c].watch
    BY FrameParts
  <2>2. pc[c] = "sleep" /\ (Suspend(c, "reading", f) \/ Raise(c, "assert"))
    BY <1>6 DEF PollWake
  <2> HIDE DEF f
  <2> QED  BY <2>1, <2>2 DEF Raise
<1>7. CASE RunGet(c) \/ KillGet(c) \/ GetRejected(c) \/ GetUnreachable(c)
  BY <1>7 DEF RunGet, KillGet, GetRejected, GetUnreachable, Raise
<1>8. CASE WaitGet(c)
  BY <1>8 DEF WaitGet
<1>9. CASE \/ RunBusy(c) \/ ResetNoop(c) \/ PollRecorded(c)
           \/ KillRecorded(c) \/ ServerRecords(c)
  BY <1>9 DEF RunBusy, ResetNoop, Return, PollRecorded, KillRecorded,
              ServerRecords, Recorded
<1>10. CASE KillRemote(c) \/ KillForget(c)
  BY <1>10 DEF KillRemote, KillForget
<1>c. CASE Cuts(c)
  BY <1>c, CutParts
<1> QED  BY <1>1, <1>2, <1>3, <1>4, <1>5, <1>6, <1>7, <1>8, <1>9, <1>10, <1>c
         DEF Step, Resume, Cuts

LEMMA ResumeWatchOwn ==
    ASSUME TypeOK, ClaimKept, WatchOwn, NEW c \in Calls, Step(c)
    PROVE  WatchOwn'
BY ResumeKeepsOthers, ResumeWatchStep
   DEF OthersKept, WatchStep, WatchOwn, ClaimKept

ExitStep(c) ==
    result'[c].status = "done" /\ op[c] = "run" =>
        \/ result'[c] = result[c]
        \/ pc[c] = "reading" /\ result'[c].exit = frame[c].watch

LEMMA ResumeExitStep ==
    ASSUME TypeOK, NEW c \in Calls, Step(c)
    PROVE  ExitStep(c)
<1> USE DEF TypeOK, CallTypeOK, ExitStep, Suspend, Settle, Only
<1>1. CASE PollDone(c)
  <2>1. PICK behind \in {0, 1}, i \in 1 .. Len(Text(c)) :
          /\ i \in Matches(c, behind)
          /\ Report(c, "done", Text(c)[i].cmd)
    BY <1>1 DEF PollDone, Matches
  <2>2. Text(c)[i].cmd = frame[c].watch /\ pc[c] = "reading"
    BY <1>1, <2>1 DEF Matches, Done, PollDone, Pull
  <2> QED  BY <2>1, <2>2 DEF Report, Raise
<1>2. CASE PollPrompt(c) \/ PollTimeout(c)
  BY <1>2 DEF PollPrompt, PollTimeout, Report, Raise, Prompts
<1>3. CASE PollSleep(c) \/ PollWake(c) \/ PollUnreachable(c)
  BY <1>3 DEF PollSleep, PollWake, PollUnreachable, Raise
<1>4. CASE SendError(c) \/ SendUnreachable(c) \/ RunCreated(c) \/ RunEnter(c)
  BY <1>4 DEF SendError, SendUnreachable, RunCreated, RunEnter, BeginPoll,
              Raise
<1>5. CASE RunClaim(c) \/ ResetClaim(c) \/ RunEnsure(c) \/ RunType(c)
  BY <1>5 DEF RunClaim, Claim, ResetClaim, RunEnsure, RunType
<1>6. CASE \/ RunGet(c) \/ KillGet(c) \/ GetRejected(c) \/ GetUnreachable(c)
           \/ WaitGet(c)
  BY <1>6 DEF RunGet, KillGet, GetRejected, GetUnreachable, WaitGet, Raise,
              Return, BeginPoll
<1>7. CASE RunBusy(c)
  BY <1>7 DEF RunBusy, Return
<1>8. CASE \/ ResetNoop(c) \/ PollRecorded(c) \/ KillRecorded(c)
           \/ ServerRecords(c)
  BY <1>8 DEF ResetNoop, Return, PollRecorded, KillRecorded, ServerRecords,
              Recorded
<1>9. CASE KillRemote(c) \/ KillForget(c)
  BY <1>9 DEF KillRemote, KillForget
<1>10. CASE ResetDone(c)
  BY <1>10 DEF ResetDone
<1>c. CASE Cuts(c)
  BY <1>c, CutParts
<1> QED  BY <1>1, <1>2, <1>3, <1>4, <1>5, <1>6, <1>7, <1>8, <1>9, <1>10, <1>c
         DEF Step, Resume, Cuts

LEMMA ResumeRunExit ==
    ASSUME TypeOK, WatchOwn, RunExitIsOwn, NEW c \in Calls, Step(c)
    PROVE  RunExitIsOwn'
BY ResumeKeepsOthers, ResumeExitStep
   DEF OthersKept, ExitStep, WatchOwn, RunExitIsOwn

-----------------------------------------------------------------------------
(* Calls that raised, and the records of calls that end.                   *)

LEMMA ResumeRaisedEnds ==
    ASSUME TypeOK, AllFresh, RaisedEnds, NEW c \in Calls, Step(c)
    PROVE  RaisedEnds'
<1>1. OthersKept(c)
  BY ResumeKeepsOthers
<1>2. result'[c].status \in Failures => pc'[c] \in {"fail"} \cup Over
  <2> USE DEF Over, TypeOK, CallTypeOK, RaisedEnds, Failures, Prompts, At, Suspend,
              Settle, Only, Sending
  <2>1. CASE RunClaim(c) \/ ResetClaim(c) \/ RunEnsure(c) \/ RunType(c)
    BY <2>1 DEF RunClaim, Claim, ResetClaim, RunEnsure, RunType
  <2>2. CASE SendError(c) \/ SendUnreachable(c)
    BY <2>2 DEF SendError, SendUnreachable, Raise
  <2>3. CASE RunCreated(c) \/ RunEnter(c)
    BY <2>3, SMTT(30) DEF RunCreated, RunEnter, Raise, BeginPoll
  <2>4. CASE \/ PollDone(c) \/ PollPrompt(c) \/ PollTimeout(c)
             \/ PollSleep(c) \/ PollWake(c) \/ PollUnreachable(c)
    BY <2>4 DEF PollDone, PollPrompt, PollTimeout, PollSleep, PollWake,
                PollUnreachable, Pull, Report, Raise
  <2>5. CASE \/ RunGet(c) \/ WaitGet(c) \/ KillGet(c)
             \/ GetRejected(c) \/ GetUnreachable(c)
    BY <2>5 DEF RunGet, WaitGet, KillGet, GetRejected, GetUnreachable, Raise,
                Return, BeginPoll
  <2>6. CASE RunBusy(c)
    BY <2>6 DEF RunBusy, Return
  <2>7. CASE \/ ResetNoop(c) \/ PollRecorded(c) \/ KillRecorded(c)
             \/ ServerRecords(c)
    BY <2>7 DEF ResetNoop, Return, PollRecorded, KillRecorded,
                ServerRecords, Recorded
  <2>8. CASE KillRemote(c) \/ KillForget(c)
    BY <2>8 DEF KillRemote, KillForget
  <2>9. CASE ResetDone(c)
    BY <2>9 DEF ResetDone
  <2>c. CASE Cuts(c)
    BY <2>c, CutParts
  <2> QED  BY <2>1, <2>2, <2>3, <2>4, <2>5, <2>6, <2>7, <2>8, <2>9, <2>c
           DEF Step, Resume, Cuts
<1> QED  BY <1>1, <1>2 DEF OthersKept, RaisedEnds

LEMMA ResumeAccounted ==
    ASSUME TypeOK, AllFresh, Accounted, NEW c \in Calls, Step(c)
    PROVE  Accounted'
<1>1. OthersKept(c)
  BY ResumeKeepsOthers
<1>2. Counted(c)'
  <2> USE DEF Over, TypeOK, CallTypeOK, Accounted, Counted, Buffered, Quiet,
              Failures, Prompts, At, Suspend, Settle, Only, Sending
  <2>1. CASE RunClaim(c) \/ ResetClaim(c) \/ RunEnsure(c) \/ RunType(c)
    BY <2>1 DEF RunClaim, Claim, ResetClaim, RunEnsure, RunType
  <2>2. CASE SendError(c) \/ SendUnreachable(c)
    BY <2>2 DEF SendError, SendUnreachable, Raise
  <2>3. CASE RunCreated(c) \/ RunEnter(c)
    BY <2>3, SMTT(30) DEF RunCreated, RunEnter, Raise, BeginPoll
  <2>4. CASE \/ PollDone(c) \/ PollPrompt(c) \/ PollTimeout(c)
             \/ PollSleep(c) \/ PollWake(c) \/ PollUnreachable(c)
    BY <2>4 DEF PollDone, PollPrompt, PollTimeout, PollSleep, PollWake,
                PollUnreachable, Pull, Report, Raise
  <2>5. CASE \/ RunGet(c) \/ WaitGet(c) \/ KillGet(c)
             \/ GetRejected(c) \/ GetUnreachable(c)
    <3>1. CASE RunGet(c) \/ KillGet(c)
      <4>1. /\ pc[c] = "get" /\ UNCHANGED <<audits, result>>
            /\ \/ pc' = [pc EXCEPT ![c] = "lock"]
               \/ pc' = [pc EXCEPT ![c] = "kill"]
        BY <3>1 DEF RunGet, KillGet
      <4> QED  BY <4>1
    <3>2. CASE WaitGet(c)
      BY <3>2 DEF WaitGet, Return, Raise, BeginPoll
    <3>3. CASE GetRejected(c) \/ GetUnreachable(c)
      BY <3>3 DEF GetRejected, GetUnreachable, Raise
    <3> QED  BY <2>5, <3>1, <3>2, <3>3
  <2>6. CASE RunBusy(c)
    BY <2>6 DEF RunBusy, Return
  <2>7. CASE ResetNoop(c)
    BY <2>7 DEF ResetNoop, Return
  <2>8. CASE PollRecorded(c) \/ KillRecorded(c) \/ ServerRecords(c)
    BY <2>8 DEF PollRecorded, KillRecorded, ServerRecords, Recorded
  <2>9. CASE KillRemote(c)
    BY <2>9 DEF KillRemote
  <2>10. CASE KillForget(c)
    BY <2>10 DEF KillForget
  <2>11. CASE ResetDone(c)
    BY <2>11 DEF ResetDone
  <2>c. CASE Cuts(c)
    BY <2>c, CutParts
  <2> QED  BY <2>1, <2>2, <2>3, <2>4, <2>5, <2>6, <2>7, <2>8, <2>9, <2>10,
              <2>11, <2>c
           DEF Step, Resume, Cuts
<1> QED  BY <1>1, <1>2 DEF OthersKept, Accounted, Counted, Buffered

-----------------------------------------------------------------------------
(* The keystrokes of a session_run, and the session of one that raised.    *)

\* Only the call that holds the lock of a session types in its pane; a kill
\* closes it.
PaneStep(c) ==
    \A s \in Sessions :
        \/ pane'[s] = pane[s]
        \/ ~pane'[s].alive
        \/ s = sess[c] /\ HoldsLock(c)

LEMMA ResumePaneStep ==
    ASSUME TypeOK, NEW c \in Calls, Step(c)
    PROVE  PaneStep(c)
<1> SUFFICES ASSUME NEW s \in Sessions
             PROVE  \/ pane'[s] = pane[s]
                    \/ ~pane'[s].alive
                    \/ s = sess[c] /\ HoldsLock(c)
  BY DEF PaneStep
<1>1. pane \in [Sessions -> PaneType]
  BY DEF TypeOK, HostTypeOK
<1>2. CASE RunEnsure(c) \/ RunType(c)
  BY <1>1, <1>2 DEF RunEnsure, RunType, EnsurePane, TypeInto, HoldsLock,
                    Sending
<1>3. CASE RunEnter(c)
  <2>1. HoldsLock(c) /\ PressEnter(sess[c])
    BY <1>3 DEF RunEnter, HoldsLock, Sending
  <2>2. \E p : pane' = [pane EXCEPT ![sess[c]] = p]
    BY <2>1 DEF PressEnter
  <2> QED  BY <1>1, <2>1, <2>2
<1>4. CASE KillRemote(c)
  BY <1>1, <1>4 DEF KillRemote, ClosePane, NoPane
<1>5. CASE UNCHANGED pane
  BY <1>5
<1>6. CASE \/ RunGet(c) \/ WaitGet(c) \/ KillGet(c)
           \/ GetRejected(c) \/ GetUnreachable(c)
           \/ RunBusy(c) \/ RunClaim(c)
           \/ RunCreated(c) \/ SendError(c) \/ SendUnreachable(c)
           \/ PollDone(c) \/ PollPrompt(c) \/ PollTimeout(c) \/ PollSleep(c)
  BY <1>5, <1>6 DEF RunGet, WaitGet, KillGet, GetRejected, GetUnreachable,
       RunBusy, RunClaim, Claim, RunCreated, SendError, SendUnreachable,
       PollDone, PollPrompt, PollTimeout, PollSleep, Pull, hostVars
<1>7. CASE \/ PollWake(c) \/ PollUnreachable(c) \/ PollRecorded(c)
           \/ KillForget(c) \/ KillRecorded(c)
           \/ ResetNoop(c) \/ ResetClaim(c) \/ ResetDone(c)
           \/ ServerRecords(c)
  BY <1>5, <1>7 DEF PollWake, PollUnreachable, PollRecorded, KillForget,
       KillRecorded, ResetNoop, ResetClaim, ResetDone, ServerRecords,
       hostVars
<1>c. CASE Cuts(c)
  <2>1. CASE UNCHANGED pane
    BY <2>1
  <2>2. CASE pc[c] \in Sending /\ \E p : pane' = [pane EXCEPT ![sess[c]] = p]
    BY <1>1, <2>2 DEF HoldsLock
  <2>3. CASE ClosePane(sess[c])
    BY <1>1, <2>3 DEF ClosePane, NoPane
  <2> QED  BY <1>c, <2>1, <2>2, <2>3
           DEF Cuts, RecordFails, Cancel, Arrived, EnsurePane, TypeInto,
               PressEnter, Sending
<1> QED  BY <1>2, <1>3, <1>4, <1>6, <1>7, <1>c
         DEF Step, Resume, Cuts

LEMMA ResumeKeystrokes ==
    ASSUME TypeOK, LockOwned, OwnKeystrokes, NEW c \in Calls, Step(c)
    PROVE  OwnKeystrokes'
<1> DEFINE Own(d) ==
      LET t == pane[sess[d]].typed IN
      pc[d] = "enter" /\ pane[sess[d]].alive => t = <<>> \/ t[Len(t)] = d
<1>1. OthersKept(c) /\ PaneStep(c)
  BY ResumeKeepsOthers, ResumePaneStep
<1>2. ASSUME NEW d \in Calls, d # c, pc'[d] = "enter"
      PROVE  Own(d)'
  <2>1. pc[d] = "enter" /\ sess'[d] = sess[d] /\ sess[d] \in Sessions
    BY <1>1, <1>2 DEF OthersKept, TypeOK, CallHas
  <2>2. ~(sess[d] = sess[c] /\ HoldsLock(c))
    BY <1>2, <2>1 DEF LockOwned, HoldsLock, Sending
  <2> QED  BY <1>1, <2>1, <2>2 DEF PaneStep, OwnKeystrokes
<1>3. ASSUME pc'[c] = "enter"
      PROVE  Own(c)'
  <2>1. RunType(c)
    <3> USE DEF TypeOK, CallTypeOK, At, Suspend, Settle
    <3>1. ~(\/ RunClaim(c) \/ ResetClaim(c) \/ ResetDone(c) \/ SendError(c)
            \/ SendUnreachable(c))
      BY <1>3 DEF RunClaim, Claim, ResetClaim, ResetDone, SendError,
                  SendUnreachable, Raise
    <3>2. ~(RunCreated(c) \/ RunEnter(c) \/ RunEnsure(c))
      BY <1>3 DEF RunCreated, RunEnter, Raise, BeginPoll, RunEnsure
    <3>3. ~(\/ PollDone(c) \/ PollPrompt(c) \/ PollTimeout(c)
            \/ PollSleep(c) \/ PollWake(c) \/ PollUnreachable(c))
      BY <1>3 DEF PollDone, PollPrompt, PollTimeout, PollSleep,
                  PollWake, PollUnreachable, Pull, Report, Raise
    <3>4. ~(\/ RunGet(c) \/ WaitGet(c) \/ KillGet(c)
            \/ GetRejected(c) \/ GetUnreachable(c))
      BY <1>3 DEF RunGet, WaitGet, KillGet, GetRejected,
                  GetUnreachable, Raise, Return, BeginPoll
    <3>5. ~(\/ RunBusy(c) \/ ResetNoop(c) \/ PollRecorded(c)
            \/ KillRecorded(c) \/ ServerRecords(c))
      BY <1>3 DEF RunBusy, ResetNoop, Return, PollRecorded,
                  KillRecorded, ServerRecords, Recorded
    <3>6. ~(KillRemote(c) \/ KillForget(c))
      BY <1>3 DEF KillRemote, KillForget
    <3>c. ~Cuts(c)
      BY <1>3, CutParts
    <3> QED  BY <3>1, <3>2, <3>3, <3>4, <3>5, <3>6, <3>c
             DEF Step, Resume, Cuts
  <2> DEFINE s == sess[c]  t == pane[s].typed
  <2>2. sess[c] \in Sessions /\ sess' = sess
    BY <1>1, Started DEF OthersKept
  <2>3. pane[s] \in PaneType
    BY <2>2 DEF TypeOK, HostTypeOK
  <2>4. t \in Seq(Calls)
    BY <2>3 DEF PaneType
  <2>5. pane'[s].typed = Append(t, c)
    BY <2>1, <2>2, <2>3 DEF RunType, TypeInto, TypeOK, HostTypeOK, PaneType
  <2>6. Append(t, c)[Len(Append(t, c))] = c
    BY <2>4
  <2> QED  BY <2>2, <2>5, <2>6
<1> QED  BY <1>2, <1>3 DEF OwnKeystrokes

\* How a session_run comes to raise: before it claimed anything, rolling
\* back, on an idle object, or with its session forgotten.
FailStep(c) ==
    op[c] = "run" /\ result'[c].status \in Failures =>
        \/ pc[c] \in {"get", "fail"}
        \/ frame[c].ref \in Calls /\ Clear(frame[c].ref)
        \/ frame[c].ref \in Calls /\ obj[frame[c].ref].log = None
        \/ registry'[sess[c]] = None

LEMMA ResumeFailStep ==
    ASSUME TypeOK, AllFresh, RaisedEnds, NEW c \in Calls, Step(c)
    PROVE  FailStep(c)
<1>1. CASE SendError(c) \/ SendUnreachable(c)
  BY <1>1 DEF SendError, SendUnreachable, FailStep, TypeOK, CallHas, Sending
<1>2. CASE RunCreated(c) \/ RunEnter(c)
  <2>1. frame[c].ref \in Calls /\ result[c].status \notin Failures
    BY <1>2 DEF RunCreated, RunEnter, TypeOK, CallHas, RaisedEnds, Sending,
                Over
  <2>2. \/ BeginPoll(c, frame[c].ref, frame[c].conn)
        \/ Suspend(c, "create", frame[c])
    BY <1>2 DEF RunCreated, RunEnter
  <2> QED  BY <2>1, <2>2, BeginPollParts DEF Suspend, FailStep
<1>3. CASE PollDone(c) \/ PollPrompt(c) \/ PollTimeout(c)
  <2>1. frame[c].ref \in Calls
    BY <1>3 DEF PollDone, PollPrompt, PollTimeout, Pull, TypeOK, CallHas
  <2>2. \E e \in {"done", "still_running"} \cup Prompts : \E x :
            Report(c, e, x)
    <3>1. CASE PollDone(c)
      BY <3>1 DEF PollDone
    <3>2. CASE PollPrompt(c)
      BY <3>2 DEF PollPrompt
    <3>3. CASE PollTimeout(c)
      BY <3>3 DEF PollTimeout
    <3> QED  BY <1>3, <3>1, <3>2, <3>3
  <2>3. CASE obj[frame[c].ref].log = None
    BY <2>1, <2>3 DEF FailStep
  <2>4. CASE obj[frame[c].ref].log # None
    <3>1. PICK e \in {"done", "still_running"} \cup Prompts :
            \E x : Report(c, e, x)
      BY <2>2
    <3>2. result'[c].status = e
      BY <3>1, <2>4 DEF Report, TypeOK, CallTypeOK
    <3> QED  BY <3>2 DEF FailStep, Failures, Prompts
  <2> QED  BY <2>3, <2>4
<1>4. CASE PollWake(c)
  <2>1. frame[c].ref \in Calls /\ result[c].status \notin Failures
    BY <1>4 DEF PollWake, TypeOK, CallHas, RaisedEnds, Over
  <2>2. \/ obj[frame[c].ref].log = None
        \/ UNCHANGED result
    BY <1>4 DEF PollWake, Suspend
  <2> QED  BY <2>1, <2>2 DEF FailStep
<1>5. CASE PollUnreachable(c)
  BY <1>5, Started DEF PollUnreachable, Forget, FailStep, TypeOK, StateTypeOK
<1>6. CASE \/ RunGet(c) \/ WaitGet(c) \/ KillGet(c) \/ GetRejected(c)
           \/ GetUnreachable(c) \/ ServerRecords(c)
  BY <1>6 DEF RunGet, WaitGet, KillGet, GetRejected, GetUnreachable,
              ServerRecords, FailStep
<1>7. CASE RunBusy(c)
  BY <1>7 DEF RunBusy, Return, Settle, Only, Failures, FailStep, TypeOK,
              CallTypeOK
<1>8. CASE \/ RunClaim(c) \/ RunEnsure(c) \/ RunType(c) \/ PollSleep(c)
           \/ PollRecorded(c)
  <2>1. UNCHANGED result /\ pc[c] \notin {"fail"} \cup Over
    BY <1>8 DEF RunClaim, Claim, RunEnsure, RunType, PollSleep, Pull,
                PollRecorded, Recorded, Suspend, Over
  <2> QED  BY <2>1 DEF FailStep, RaisedEnds
<1>9. CASE \/ KillRemote(c) \/ KillForget(c) \/ KillRecorded(c)
           \/ ResetNoop(c) \/ ResetClaim(c) \/ ResetDone(c)
  <2>1. op[c] # "run"
    BY <1>9 DEF KillRemote, KillForget, KillRecorded, ResetNoop, ResetClaim,
                ResetDone, TypeOK, CallHas, AllFresh, Fresh
  <2> QED  BY <2>1 DEF FailStep
<1>c. CASE Cuts(c)
  <2>1. result'[c].status \in Failures =>
            result[c].status \in Failures /\ pc[c] \notin {"end", "cut"}
    BY <1>c, CutParts DEF Only, Failures, TypeOK, CallTypeOK
  <2> QED  BY <2>1 DEF FailStep, RaisedEnds, Over
<1> QED  BY <1>1, <1>2, <1>3, <1>4, <1>5, <1>6, <1>7, <1>8, <1>9, <1>c
         DEF Step, Resume, Cuts

LEMMA ResumeNoGhostBusy ==
    ASSUME TypeOK, LockOwned, AllFresh, ObjectsAtHome, TracksOnce, RaisedEnds,
           NoGhostBusy, NEW c \in Calls, Step(c)
    PROVE  NoGhostBusy'
<1>1. OthersKept(c) /\ ObjectStep(c) /\ LogStep(c) /\ FailStep(c)
  BY ResumeKeepsOthers, ResumeObjectStep, ResumeLogStep, ResumeFailStep
<1>2. TypeOK' /\ ObjectsAtHome' /\ TracksOnce'
  BY ResumeTyped, ResumeAtHome, ResumeTracksOnce
<1>3. SUFFICES ASSUME NEW d \in Calls, NEW s \in Sessions, op[d] = "run",
                      result'[d].status \in Failures, registry'[s] # None,
                      obj'[registry'[s]].log = d
               PROVE  FALSE
  BY <1>1 DEF NoGhostBusy, OthersKept, Raised
<1> DEFINE o == registry'[s]
<1>4. o \in Calls /\ registry \in [Sessions -> Calls \cup {None}]
  BY <1>2, <1>3 DEF TypeOK, StateTypeOK
<1>5. sess[o] = s /\ sess[d] = s
  <2>1. sess'[o] = s
    BY <1>2, <1>3 DEF ObjectsAtHome
  <2>2. sess'[o] = sess'[d]
    BY <1>2, <1>3, <1>4 DEF TracksOnce
  <2> QED  BY <1>1, <2>1, <2>2 DEF OthersKept
<1>6. ~RunClaim(c) => registry[s] = o /\ obj[o].log = d
  <2>1. sess[c] \in Sessions
    BY Started
  <2>2. ~RunClaim(c) => registry[s] = o
    BY <1>1, <1>3, <1>4, <2>1 DEF ObjectStep
  <2>3. d # None
    OBVIOUS
  <2> QED  BY <1>1, <1>3, <1>4, <2>2, <2>3 DEF LogStep
<1>7. CASE d # c
  <2>1. result[d].status \in Failures
    BY <1>1, <1>3, <1>7 DEF OthersKept
  <2>2. CASE RunClaim(c)
    <3>1. registry' = [registry EXCEPT ![sess[c]] = Claimed(c)]
      BY <2>2, ClaimParts
    <3>2. o = registry[s] /\ registry[s] # None
      <4>1. obj' = [obj EXCEPT ![Claimed(c)].log = c]
        BY <2>2 DEF RunClaim, Claim, Claimed
      <4>2. o # Claimed(c)
        BY <1>3, <1>4, <1>7, <4>1 DEF TypeOK, StateTypeOK, State
      <4>3. s = sess[c] => o = Claimed(c)
        BY <1>4, <3>1
      <4>4. s # sess[c] => o = registry[s]
        BY <1>4, <3>1
      <4> QED  BY <1>3, <4>2, <4>3, <4>4 DEF Claimed
    <3>3. obj[o].log = d
      BY <1>1, <1>3, <1>4, <1>7 DEF LogStep
    <3> QED  BY <1>3, <2>1, <3>2, <3>3 DEF NoGhostBusy, Raised, Failures
  <2>3. CASE ~RunClaim(c)
    BY <1>3, <1>6, <2>1, <2>3 DEF NoGhostBusy, Raised, Failures
  <2> QED  BY <2>2, <2>3
<1>8. CASE d = c
  <2>1. ~RunClaim(c)
    <3>1. RunClaim(c) => UNCHANGED result /\ pc[c] = "lock"
      BY DEF RunClaim, Claim, Suspend
    <3> QED  BY <1>3, <1>8, <3>1 DEF RaisedEnds, Over
  <2>2. registry[s] = o /\ obj[o].log = c
    BY <1>6, <1>8, <2>1
  <2>3. /\ pc[c] \notin {"new", "get", "lock"}
        /\ frame[c].ref # None => frame[c].ref = o
    BY <1>4, <2>2 DEF TracksOnce
  <2>4. CASE pc[c] = "fail"
    <3>1. ServerRecords(c) \/ Cuts(c)
      BY <2>4, <1>3, <1>8 DEF Step, Cuts, Resume, RunGet, WaitGet, KillGet, GetRejected,
         GetUnreachable, RunBusy, RunClaim, RunEnsure, RunType, RunEnter,
         RunCreated, SendError, SendUnreachable, PollDone, PollPrompt,
         PollTimeout, PollSleep, Pull, PollWake, PollUnreachable,
         PollRecorded, KillRemote, KillForget, KillRecorded, ResetNoop,
         ResetClaim, ResetDone, Sending
    <3>2. result[c] = result'[c]
      BY <2>4, <3>1, CutParts DEF ServerRecords, Recorded
    <3> QED  BY <1>3, <1>8, <2>2, <3>2 DEF NoGhostBusy, Raised, Failures
  <2>5. CASE frame[c].ref \in Calls /\ Clear(frame[c].ref)
    <3>1. obj'[o] = Idle
      BY <1>4, <2>3, <2>5 DEF Clear, TypeOK, StateTypeOK
    <3> QED  BY <1>3, <1>8, <3>1 DEF Idle
  <2>6. CASE frame[c].ref \in Calls /\ obj[frame[c].ref].log = None
    BY <2>2, <2>3, <2>6
  <2>7. CASE registry'[sess[c]] = None
    BY <1>3, <1>5, <1>8, <2>7
  <2> QED  BY <1>1, <1>3, <1>8, <2>3, <2>4, <2>5, <2>6, <2>7 DEF FailStep
<1> QED  BY <1>7, <1>8

-----------------------------------------------------------------------------
(* The other steps: a call starts, its time expires, the host moves.       *)

LEMMA StartKeepsInv ==
    ASSUME Inv, NEW c \in Calls, Start(c)
    PROVE  Inv'
<1>1. PICK t \in Ops, s \in Sessions :
        /\ op' = [op EXCEPT ![c] = t]
        /\ sess' = [sess EXCEPT ![c] = s]
        /\ At(c, IF t = "reset" THEN "lock" ELSE "get")
  BY DEF Start
<1>2. /\ pc[c] = "new" /\ pc'[c] \in {"lock", "get"}
      /\ UNCHANGED <<pane, log, registry, obj, lock, frame, result, audits>>
      /\ \A d \in Calls \ {c} :
          op'[d] = op[d] /\ sess'[d] = sess[d] /\ pc'[d] = pc[d]
  BY <1>1 DEF Start, At, stateVars, hostVars, Inv, TypeOK, CallTypeOK
<1>3. TypeOK'
  BY NextTyped DEF Inv, Next
<1>4. LockOwned' /\ AllFresh'
  BY <1>2 DEF Inv, LockOwned, HoldsLock, Sending, AllFresh, Fresh
<1>5. ObjectsAtHome'
  <2>1. \A d \in Calls : frame[d].ref \in Calls \cup {None}
    BY DEF Inv, TypeOK, CallTypeOK, Frame
  <2>2. \A q \in Sessions : registry[q] \in Calls \cup {None}
    BY DEF Inv, TypeOK, StateTypeOK
  <2>3. frame[c].ref = None
    BY <1>2 DEF Inv, AllFresh, Fresh
  <2> QED  BY <1>2, <2>1, <2>2, <2>3 DEF Inv, ObjectsAtHome
<1>6. TracksOnce'
  BY <1>2 DEF Inv, TracksOnce
<1>7. ClaimKept' /\ ResetClearsWhatItAudited' /\ WatchOwn'
  BY <1>2 DEF Inv, ClaimKept, HoldsLock, Sending, ResetClearsWhatItAudited,
              WatchOwn
<1>8. result[c].status = "none"
  BY <1>2 DEF Inv, AllFresh, Fresh
<1>9. RunExitIsOwn' /\ RaisedEnds' /\ NoGhostBusy'
  BY <1>2, <1>8 DEF Inv, RunExitIsOwn, RaisedEnds, NoGhostBusy, Failures, Raised
<1>10. OwnKeystrokes'
  BY <1>2 DEF Inv, OwnKeystrokes
<1>11. Accounted'
  BY <1>2 DEF Inv, Accounted, Counted, Buffered, Over
<1> QED  BY <1>3, <1>4, <1>5, <1>6, <1>7, <1>9, <1>10, <1>11 DEF Inv

LEMMA ExpireKeepsInv ==
    ASSUME Inv, NEW c \in Calls, Expire(c)
    PROVE  Inv'
<1> DEFINE f == [frame[c] EXCEPT !.expired = TRUE]
<1>1. f.ref = frame[c].ref /\ f.watch = frame[c].watch
  BY DEF Inv, TypeOK, CallTypeOK, Frame
<1>2. Suspend(c, pc[c], f) /\ UNCHANGED <<hostVars, stateVars>>
  BY DEF Expire
<1> HIDE DEF f
<1>3. /\ UNCHANGED <<pane, log, registry, obj, lock, op, sess, result, audits>>
      /\ pc' = pc
      /\ \A d \in Calls : frame'[d].ref = frame[d].ref
                         /\ frame'[d].watch = frame[d].watch
  BY <1>1, <1>2 DEF Suspend, At, Inv, TypeOK, CallTypeOK, hostVars, stateVars
<1>4. TypeOK'
  BY NextTyped DEF Inv, Next
<1>5. LockOwned' /\ AllFresh' /\ ObjectsAtHome' /\ TracksOnce'
  BY <1>3 DEF Inv, LockOwned, HoldsLock, AllFresh, Fresh, ObjectsAtHome,
              TracksOnce
<1>6. ClaimKept' /\ ResetClearsWhatItAudited' /\ WatchOwn' /\ RunExitIsOwn'
  BY <1>3 DEF Inv, ClaimKept, HoldsLock, ResetClearsWhatItAudited, WatchOwn,
              RunExitIsOwn
<1>7. OwnKeystrokes' /\ RaisedEnds' /\ NoGhostBusy' /\ Accounted'
  BY <1>3 DEF Inv, OwnKeystrokes, RaisedEnds, NoGhostBusy, Accounted,
              Counted, Buffered
<1> QED  BY <1>4, <1>5, <1>6, <1>7 DEF Inv

\* The host never adds to what is typed in a pane.
LEMMA HostTypesNothing ==
    ASSUME HostTypeOK, HostNext, NEW s \in Sessions
    PROVE  \/ ~pane'[s].alive
           \/ pane'[s].typed \in {pane[s].typed, <<>>}
                /\ (pane'[s].alive <=> pane[s].alive)
<1> USE DEF HostTypeOK
<1>1. CASE Drop \/ Recover \/ Delist \/ Relist
  BY <1>1 DEF Drop, Recover, Delist, Relist
<1>2. CASE Reboot
  BY <1>2 DEF Reboot, NoPane
<1>3. ASSUME NEW r \in Sessions, Output(r)
      PROVE  UNCHANGED pane
  BY <1>3 DEF Output
<1>4. ASSUME NEW r \in Sessions, OutsideKill(r)
      PROVE  pane'[s] = pane[s] \/ ~pane'[s].alive
  BY <1>4 DEF OutsideKill, ClosePane, NoPane
<1>5. ASSUME NEW r \in Sessions, Answer(r) \/ Finish(r) \/ ExecShell(r)
      PROVE  /\ pane'[s].typed = pane[s].typed
             /\ pane'[s].alive <=> pane[s].alive
  <2>1. CASE r # s
    BY <1>5, <2>1 DEF Answer, Finish, ExecShell
  <2>2. CASE r = s /\ Answer(s)
    BY <2>2 DEF Answer, PaneType
  <2>3. CASE r = s /\ (Finish(s) \/ ExecShell(s))
    <3>1. pane' = [pane EXCEPT ![s].line = Tail(pane[s].line)]
      BY <2>3 DEF Finish, ExecShell
    <3> QED  BY <3>1 DEF PaneType
  <2> QED  BY <1>5, <2>1, <2>2, <2>3
<1>6. ASSUME NEW r \in Sessions, Prompt(r)
      PROVE  /\ pane'[s].typed \in {pane[s].typed, <<>>}
             /\ pane'[s].alive <=> pane[s].alive
  <2> DEFINE p == pane[r]
             n == [p EXCEPT !.typed = <<>>, !.asking = TRUE,
                            !.line = <<Head(p.line)>>]
  <2>1. pane' = [pane EXCEPT ![r] = n]
    BY <1>6 DEF Prompt
  <2>2. n.typed = <<>> /\ (n.alive <=> p.alive)
    BY DEF PaneType
  <2> HIDE DEF n
  <2>3. pane'[s] = IF r = s THEN n ELSE pane[s]
    BY <2>1
  <2> QED  BY <2>2, <2>3
<1> QED  BY <1>1, <1>2, <1>3, <1>4, <1>5, <1>6 DEF HostNext

LEMMA HostKeepsInv ==
    ASSUME Inv, HostNext, UNCHANGED <<stateVars, callVars>>
    PROVE  Inv'
<1>1. UNCHANGED <<registry, obj, lock, op, sess, pc, frame, result, audits>>
  BY DEF stateVars, callVars
<1>2. TypeOK'
  BY NextTyped DEF Inv, Next
<1>3. LockOwned' /\ AllFresh' /\ ObjectsAtHome' /\ TracksOnce'
  BY <1>1 DEF Inv, LockOwned, HoldsLock, AllFresh, Fresh, ObjectsAtHome,
              TracksOnce
<1>4. ClaimKept' /\ ResetClearsWhatItAudited' /\ WatchOwn' /\ RunExitIsOwn'
  BY <1>1 DEF Inv, ClaimKept, HoldsLock, ResetClearsWhatItAudited, WatchOwn,
              RunExitIsOwn
<1>5. RaisedEnds' /\ NoGhostBusy' /\ Accounted'
  BY <1>1 DEF Inv, RaisedEnds, NoGhostBusy, Accounted, Counted, Buffered
<1>6. OwnKeystrokes'
  <2>1. \A c \in Calls : pc[c] = "enter" => sess[c] \in Sessions
    BY DEF Inv, TypeOK, CallHas
  <2>2. HostTypeOK
    BY DEF Inv, TypeOK
  <2> QED  BY <1>1, <2>1, <2>2, HostTypesNothing DEF Inv, OwnKeystrokes
<1> QED  BY <1>2, <1>3, <1>4, <1>5, <1>6 DEF Inv

LEMMA InitInv == Init => Inv
<1> SUFFICES ASSUME Init PROVE Inv
  OBVIOUS
<1>1. TypeOK
  BY InitTyped
<1>2. /\ \A c \in Calls : /\ pc[c] = "new" /\ frame[c].ref = None
                          /\ result[c].status = "none" /\ audits[c] = 0
                          /\ obj[c].log = None
      /\ \A s \in Sessions : registry[s] = None
  BY DEF Init, NoFrame, Only, Idle
<1>3. LockOwned /\ AllFresh /\ ObjectsAtHome /\ TracksOnce
  BY <1>2 DEF LockOwned, HoldsLock, Sending, AllFresh, Fresh, ObjectsAtHome,
              TracksOnce
<1>4. ClaimKept /\ ResetClearsWhatItAudited /\ WatchOwn /\ RunExitIsOwn
  BY <1>2 DEF ClaimKept, HoldsLock, Sending, ResetClearsWhatItAudited,
              WatchOwn, RunExitIsOwn
<1>5. OwnKeystrokes /\ RaisedEnds /\ NoGhostBusy /\ Accounted
  BY <1>2 DEF OwnKeystrokes, RaisedEnds, NoGhostBusy, Failures, Raised,
              Accounted, Counted, Buffered, Over
<1> QED  BY <1>1, <1>3, <1>4, <1>5 DEF Inv

LEMMA NextInv ==
    ASSUME Inv, [Next]_vars
    PROVE  Inv'
<1>1. ASSUME NEW c \in Calls, Step(c)
      PROVE  Inv'
  <2> USE <1>1 DEF Inv
  <2>1. TypeOK'
    BY ResumeTyped
  <2>2. LockOwned' /\ AllFresh' /\ ObjectsAtHome' /\ TracksOnce'
    BY ResumeLockOwned, ResumeFresh, ResumeAtHome, ResumeTracksOnce
  <2>3. ClaimKept' /\ ResetClearsWhatItAudited'
    BY ResumeClaimKept, ResumeResetClears
  <2>4. WatchOwn' /\ RunExitIsOwn'
    BY ResumeWatchOwn, ResumeRunExit
  <2>5. OwnKeystrokes'
    BY ResumeKeystrokes
  <2>6. RaisedEnds' /\ NoGhostBusy' /\ Accounted'
    BY ResumeRaisedEnds, ResumeNoGhostBusy, ResumeAccounted
  <2> QED  BY <2>1, <2>2, <2>3, <2>4, <2>5, <2>6
<1>2. ASSUME UNCHANGED vars
      PROVE  Inv'
  <2>1. TypeOK'
    BY NextTyped DEF Inv
  <2>2. UNCHANGED <<pane, registry, obj, lock, op, sess, pc, frame, result,
                    audits>>
    BY <1>2 DEF vars, hostVars, stateVars, callVars
  <2> QED  BY <2>1, <2>2 DEF Inv, LockOwned, HoldsLock, AllFresh, Fresh,
              ObjectsAtHome, TracksOnce, ClaimKept, ResetClearsWhatItAudited,
              WatchOwn, RunExitIsOwn, OwnKeystrokes, RaisedEnds, NoGhostBusy,
              Accounted, Counted, Buffered
<1> QED  BY <1>1, <1>2, StartKeepsInv, ExpireKeepsInv, HostKeepsInv
         DEF Next, Step

LEMMA SpecInv == Spec => []Inv
BY InitInv, NextInv, PTL DEF Spec

-----------------------------------------------------------------------------
\* No other call types or presses Enter in a pane between the two send-keys
\* of a session_run (sessions.py:165-204, 356-363).
THEOREM KeystrokesOwned == Spec => []OwnKeystrokes
<1>1. Inv => OwnKeystrokes
  BY DEF Inv
<1> QED  BY <1>1, SpecInv, PTL

\* session_reset clears the command that its audit record names, or nothing
\* (sessions.py:253-267).
THEOREM ResetExact == Spec => []ResetClearsWhatItAudited
<1>1. Inv => ResetClearsWhatItAudited
  BY DEF Inv
<1> QED  BY <1>1, SpecInv, PTL

\* The exit code of a session_run is that of the command it typed
\* (sessions.py:375-376, 388-397).
THEOREM RunExitOwned == Spec => []RunExitIsOwn
<1>1. Inv => RunExitIsOwn
  BY DEF Inv
<1> QED  BY <1>1, SpecInv, PTL

\* The registered state of a session names no session_run that raised, unless
\* what raised was the write of its record (sessions.py:188-204, 198, 395).
THEOREM FailedRunLeavesIdle == Spec => []NoGhostBusy
<1>1. Inv => NoGhostBusy
  BY DEF Inv
<1> QED  BY <1>1, SpecInv, PTL

\* A call that ends and acted, was rejected or failed has its line in the audit
\* log, and one only, or two when the write of the first raised
\* (server.py:359-401, sessions.py:237, 266, 480, audit.py:158-159).
THEOREM RecordsCounted == Spec => []AuditOnce
<1>1. ASSUME Inv PROVE AuditOnce
  <2>1. SUFFICES ASSUME NEW c \in Calls
                 PROVE  /\ audits[c] <= IF result[c].status = "unsaved" THEN 2
                                                                       ELSE 1
                        /\ pc[c] = "end" /\ result[c].status \notin Quiet
                            => audits[c] >= 1
    BY DEF AuditOnce, Quiet
  <2>2. Counted(c)
    BY <1>1 DEF Inv, Accounted
  <2>3. CASE result[c].status = "unsaved"
    BY <2>2, <2>3 DEF Counted, Buffered, Over, Quiet
  <2>4. CASE result[c].status # "unsaved"
    BY <2>2, <2>4 DEF Counted, Buffered, Over, Quiet
  <2> QED  BY <2>3, <2>4
<1> QED  BY <1>1, SpecInv, PTL

-----------------------------------------------------------------------------
(* SessionManager implements SessionSlot: every step of a call is a step of *)
(* the slot of its session, or none.                                        *)

\* A session_run has no result before it is over or about to be recorded, and
\* then that of its poll.
Ending == {"record", "fail"} \cup Over
Polled == {"done", "still_running"} \cup Prompts
Unanswered ==
    \A c \in Calls :
        op[c] = "run" =>
            /\ pc[c] \notin Ending => result[c].status = "none"
            /\ pc[c] = "record" => result[c].status \in Polled
            /\ pc[c] = "fail" => result[c].status \in Raised
            /\ pc[c] = "end" => result[c].status \in Polled \cup Raised \cup {"busy"}

\* How a step of session_run c answers it: `busy' at the lock, a failure, or
\* what its poll found.
AnswerStep(c) ==
    op[c] = "run" =>
        \/ /\ result'[c] = result[c] /\ pc'[c] \notin {"record", "fail"}
           /\ pc'[c] = "end" => pc[c] \in {"record", "fail"}
        \/ /\ Cuts(c)
           /\ pc[c] \in {"create", "record"} /\ pc'[c] = "fail"
           /\ result'[c].status = "unsaved"
        \/ /\ pc[c] \notin Ending
           /\ \/ RunBusy(c) /\ pc'[c] = "end" /\ result'[c].status = "busy"
              \/ pc'[c] = "fail" /\ result'[c].status \in Failures
              \/ /\ pc[c] = "reading" /\ pc'[c] = "record"
                 /\ result'[c].status \in Polled

LEMMA ResumeAnswerStep ==
    ASSUME TypeOK, AllFresh, NEW c \in Calls, Step(c)
    PROVE  AnswerStep(c)
<1> USE DEF TypeOK, CallTypeOK, AnswerStep, At, Suspend, Settle, Ending, Over
<1>1. CASE SendError(c) \/ SendUnreachable(c)
  BY <1>1 DEF SendError, SendUnreachable, Raise, Only, Failures, Sending
<1>2. CASE RunCreated(c) \/ RunEnter(c)
  <2>1. \/ BeginPoll(c, frame[c].ref, frame[c].conn)
        \/ Suspend(c, "create", frame[c])
    BY <1>2 DEF RunCreated, RunEnter
  <2>2. pc[c] \in {"create", "enter"}
    BY <1>2 DEF RunCreated, RunEnter
  <2> QED  BY <2>1, <2>2, BeginPollParts DEF Raise, Only, Failures
<1>3. CASE PollDone(c) \/ PollPrompt(c) \/ PollTimeout(c)
  <2>1. pc[c] = "reading"
    BY <1>3 DEF PollDone, PollPrompt, PollTimeout, Pull
  <2>2. \E e \in Polled : \E x :
            Report(c, e, x)
    <3>1. CASE PollDone(c)
      BY <3>1 DEF PollDone, Polled
    <3>2. CASE PollPrompt(c)
      BY <3>2 DEF PollPrompt, Polled
    <3>3. CASE PollTimeout(c)
      BY <3>3 DEF PollTimeout, Polled
    <3> QED  BY <1>3, <3>1, <3>2, <3>3
  <2>3. PICK e \in Polled :
          \E x : Report(c, e, x)
    BY <2>2
  <2>4. CASE obj[frame[c].ref].log = None
    BY <2>1, <2>3, <2>4 DEF Report, Raise, Only, Failures
  <2>5. CASE obj[frame[c].ref].log # None
    <3>1. result'[c].status = e /\ pc'[c] = "record"
      BY <2>3, <2>5 DEF Report
    <3> QED  BY <2>1, <3>1
  <2> QED  BY <2>4, <2>5
<1>4. CASE PollWake(c) \/ PollSleep(c)
  BY <1>4 DEF PollWake, PollSleep, Raise, Only, Failures
<1>5. CASE PollUnreachable(c)
  BY <1>5 DEF PollUnreachable, Raise, Only, Failures
<1>6. CASE RunGet(c) \/ WaitGet(c) \/ KillGet(c)
  BY <1>6 DEF RunGet, WaitGet, KillGet
<1>7. CASE GetRejected(c) \/ GetUnreachable(c)
  BY <1>7 DEF GetRejected, GetUnreachable, Raise, Only, Failures
<1>8. CASE RunBusy(c)
  BY <1>8 DEF RunBusy, Return, Only
<1>9. CASE \/ RunClaim(c) \/ RunEnsure(c) \/ RunType(c)
           \/ PollRecorded(c) \/ KillRecorded(c) \/ ServerRecords(c)
  BY <1>9 DEF RunClaim, Claim, RunEnsure, RunType, PollRecorded, KillRecorded,
              ServerRecords, Recorded
<1>10. CASE \/ KillRemote(c) \/ KillForget(c)
            \/ ResetNoop(c) \/ ResetClaim(c) \/ ResetDone(c)
  <2>1. op[c] # "run"
    BY <1>10 DEF KillRemote, KillForget, ResetNoop, ResetClaim, ResetDone,
                 CallHas, AllFresh, Fresh
  <2> QED  BY <2>1
<1>11. CASE Cuts(c)
  BY <1>11, CutParts DEF Only, AllFresh, Fresh
<1> QED  BY <1>1, <1>2, <1>3, <1>4, <1>5, <1>6, <1>7, <1>8, <1>9, <1>10,
            <1>11 DEF Step, Resume, Cuts

\* A call that is over stays so.
LEMMA OverStays ==
    ASSUME TypeOK, AllFresh, NEW c \in Calls, Step(c), op[c] = "run",
           pc[c] \in Ending
    PROVE  pc'[c] \in Ending
<1>1. CASE Cuts(c)
  BY <1>1, CutParts DEF Ending, Over, TypeOK, CallTypeOK
<1>2. CASE ~Cuts(c)
  BY <1>2 DEF Step, Cuts, Ending, Over, Resume, RunGet, WaitGet, KillGet,
       GetRejected, GetUnreachable, RunBusy, RunClaim, RunEnsure, RunType,
       RunEnter, RunCreated, SendError, SendUnreachable, PollDone, PollPrompt,
       PollTimeout, PollSleep, PollWake, PollUnreachable, PollRecorded,
       KillRemote, KillForget, KillRecorded, ResetNoop, ResetClaim, ResetDone,
       ServerRecords, Recorded, Pull, At, Sending, TypeOK, CallTypeOK
<1> QED  BY <1>1, <1>2

LEMMA ResumeUnanswered ==
    ASSUME TypeOK, AllFresh, Unanswered, NEW c \in Calls, Step(c)
    PROVE  Unanswered'
<1>1. OthersKept(c) /\ AnswerStep(c)
  BY ResumeKeepsOthers, ResumeAnswerStep
<1>2. op[c] = "run" /\ pc[c] \in Ending => pc'[c] \in Ending
  BY OverStays
<1>3. op[c] = "run" =>
        /\ pc'[c] \notin Ending => result'[c].status = "none"
        /\ pc'[c] = "record" => result'[c].status \in Polled
        /\ pc'[c] = "fail" => result'[c].status \in Raised
        /\ pc'[c] = "end" =>
            result'[c].status \in Polled \cup Raised \cup {"busy"}
  BY <1>1, <1>2 DEF Unanswered, AnswerStep, Ending, Over, Raised
<1> QED  BY <1>1, <1>3 DEF Unanswered, OthersKept

-----------------------------------------------------------------------------
\* A step changes no other state object than its own.
OwnObject(c) ==
    \A o \in Calls : o # frame[c].ref => RunClaim(c) \/ obj'[o] = obj[o]

LEMMA ResumeOwnObject ==
    ASSUME TypeOK, NEW c \in Calls, Step(c)
    PROVE  OwnObject(c)
<1> USE DEF OwnObject, TypeOK, StateTypeOK
<1>1. CASE RunClaim(c)
  BY <1>1
<1>2. CASE SendError(c) \/ SendUnreachable(c) \/ ResetDone(c)
  BY <1>2 DEF SendError, SendUnreachable, ResetDone, Clear
<1>3. CASE PollRecorded(c)
  BY <1>3 DEF PollRecorded, Clear
<1>4. CASE PollDone(c) \/ PollPrompt(c) \/ PollTimeout(c) \/ PollSleep(c)
  BY <1>4 DEF PollDone, PollPrompt, PollTimeout, PollSleep, Pull
<1>5. CASE \/ RunGet(c) \/ WaitGet(c) \/ KillGet(c)
           \/ GetRejected(c) \/ GetUnreachable(c)
           \/ RunBusy(c) \/ RunEnsure(c) \/ RunType(c) \/ RunEnter(c)
           \/ RunCreated(c) \/ PollWake(c) \/ PollUnreachable(c)
           \/ KillRemote(c) \/ KillForget(c) \/ KillRecorded(c)
           \/ ResetNoop(c) \/ ResetClaim(c) \/ ServerRecords(c)
  BY <1>5 DEF RunGet, WaitGet, KillGet, GetRejected, GetUnreachable,
       RunBusy, RunEnsure, RunType, RunEnter, RunCreated, PollWake,
       PollUnreachable, KillRemote, KillForget, KillRecorded, ResetNoop,
       ResetClaim, ServerRecords, stateVars
<1>6. CASE Cuts(c)
  BY <1>6, CutParts
<1> QED  BY <1>1, <1>2, <1>3, <1>4, <1>5, <1>6 DEF Step, Resume, Cuts

\* What a step does to the slots: the claim fills that of its session, any
\* other step may empty it.
LEMMA ResumeSlots ==
    ASSUME Inv, NEW c \in Calls, Step(c)
    PROVE  /\ sess[c] \in Sessions
           /\ RunClaim(c) => /\ Slots[sess[c]] = None
                             /\ Slots' = [Slots EXCEPT ![sess[c]] = c]
           /\ ~RunClaim(c) => Slots' \in {Slots, [Slots EXCEPT ![sess[c]] = None]}
<1> DEFINE s == sess[c]
<1>1. ObjectStep(c) /\ LogStep(c) /\ OwnObject(c)
  BY ResumeObjectStep, ResumeLogStep, ResumeOwnObject DEF Inv
<1>2. s \in Sessions
  BY Started DEF Inv, TypeOK
<1>3. registry \in [Sessions -> Calls \cup {None}] /\ obj \in [Calls -> State]
  BY DEF Inv, TypeOK, StateTypeOK
<1>4. ObjectsAtHome
  BY DEF Inv
<1>5. ASSUME RunClaim(c)
      PROVE  Slots[s] = None /\ Slots' = [Slots EXCEPT ![s] = c]
  <2> DEFINE o == Claimed(c)
  <2>1. /\ registry' = [registry EXCEPT ![s] = o] /\ o \in Calls
        /\ pc[c] = "lock"
    BY <1>5, ClaimParts DEF Inv
  <2>2. obj' = [obj EXCEPT ![o].log = c] /\ ~Tracked(s)
    BY <1>5 DEF RunClaim, Claim, Claimed
  <2>3. Slots[s] = None
    BY <1>2, <2>2 DEF Slots, Tracked
  <2>4. registry'[s] = o /\ obj'[o].log = c
    BY <1>2, <1>3, <2>1, <2>2 DEF State
  <2>5. sess[o] = s
    BY <1>2, <1>4 DEF Claimed, ObjectsAtHome
  <2>6. ASSUME NEW t \in Sessions, t # s
        PROVE  Slots'[t] = Slots[t]
    <3>1. registry'[t] = registry[t]
      BY <1>3, <2>1, <2>6
    <3>2. registry[t] # None => registry[t] # o /\ registry[t] \in Calls
      BY <1>3, <1>4, <2>5, <2>6 DEF ObjectsAtHome
    <3>3. registry[t] # None => obj'[registry[t]] = obj[registry[t]]
      BY <1>3, <2>2, <3>2
    <3> QED  BY <3>1, <3>3 DEF Slots
  <2>7. Slots'[s] = c
    BY <1>2, <2>1, <2>4, NoneAssumption DEF Slots
  <2>8. Slots' = [t \in Sessions |-> Slots'[t]]
    BY DEF Slots
  <2>9. Slots = [t \in Sessions |-> Slots[t]]
    BY DEF Slots
  <2> HIDE DEF o
  <2> QED  BY <1>2, <2>3, <2>6, <2>7, <2>8, <2>9
<1>6. ASSUME ~RunClaim(c)
      PROVE  Slots' \in {Slots, [Slots EXCEPT ![s] = None]}
  <2>1. \/ UNCHANGED registry
        \/ registry' = [registry EXCEPT ![s] = None]
    BY <1>1, <1>6 DEF ObjectStep
  <2>2. \A o \in Calls : o # frame[c].ref => obj'[o] = obj[o]
    BY <1>1, <1>6 DEF OwnObject
  <2>3. \A o \in Calls : obj'[o].log \in {obj[o].log, None}
    BY <1>1, <1>6 DEF LogStep
  <2>4. ASSUME NEW t \in Sessions, t # s
        PROVE  Slots'[t] = Slots[t]
    <3>1. registry'[t] = registry[t]
      BY <1>3, <2>1, <2>4
    <3>2. registry[t] # None => registry[t] # frame[c].ref /\ registry[t] \in Calls
      BY <1>3, <1>4, <2>4 DEF ObjectsAtHome
    <3>3. registry[t] # None => obj'[registry[t]] = obj[registry[t]]
      BY <2>2, <3>2
    <3> QED  BY <3>1, <3>3 DEF Slots
  <2>5. Slots'[s] \in {Slots[s], None}
    <3>1. registry'[s] \in {registry[s], None}
      BY <1>2, <1>3, <2>1
    <3>2. registry[s] # None =>
            obj'[registry[s]].log \in {obj[registry[s]].log, None}
      BY <1>2, <1>3, <2>3
    <3> QED  BY <1>2, <3>1, <3>2 DEF Slots
  <2>6. Slots' = [t \in Sessions |-> Slots'[t]]
    BY DEF Slots
  <2>7. Slots = [t \in Sessions |-> Slots[t]]
    BY DEF Slots
  <2> QED  BY <1>2, <2>4, <2>5, <2>6, <2>7
<1> QED  BY <1>2, <1>5, <1>6

-----------------------------------------------------------------------------
\* Every step of a call is one of the slot of its session.
LEMMA ResumeRefines ==
    ASSUME Inv, Inv', Unanswered, NEW c \in Calls, Step(c)
    PROVE  Slot!Next
<1> DEFINE s == sess[c]
           W == {"new", "get", "lock"}
<1>1. /\ OthersKept(c) /\ Forward(c) /\ AnswerStep(c)
  BY ResumeKeepsOthers, ResumeForward, ResumeAnswerStep DEF Inv
<1>2. /\ s \in Sessions
      /\ RunClaim(c) => Slots[s] = None /\ Slots' = [Slots EXCEPT ![s] = c]
      /\ ~RunClaim(c) => Slots' \in {Slots, [Slots EXCEPT ![s] = None]}
  BY ResumeSlots
<1>3. Unacted' = IF pc'[c] \in W THEN Unacted ELSE Unacted \ {c}
  BY <1>1 DEF Unacted, OthersKept, Forward
<1>4. c \in Unacted <=> pc[c] \in W
  BY DEF Unacted
<1>5. /\ AnswerOf = [d \in Calls |-> Answered(d)]
      /\ AnswerOf' = [d \in Calls |-> Answered(d)']
      /\ \A d \in Calls \ {c} : Answered(d)' = Answered(d)
  BY <1>1 DEF AnswerOf, Answered, OthersKept
<1>6. AnswerOf' = [AnswerOf EXCEPT ![c] = Answered(c)']
  BY <1>5
<1>7. AnswerOf[c] = Answered(c)
  BY <1>5
<1> HIDE DEF W
<1>8. CASE RunClaim(c)
  <2>1. pc[c] = "lock" /\ pc'[c] = "ensure"
    BY <1>8, ClaimParts DEF Inv
  <2>2. UNCHANGED <<op, result>>
    BY <1>8 DEF RunClaim, Claim, Suspend
  <2>3. UNCHANGED AnswerOf
    BY <1>5, <2>1, <2>2 DEF AnswerOf, Answered
  <2>4. Slot!Accept(c, s)
    BY <1>2, <1>3, <1>4, <1>8, <2>1, <2>3 DEF Slot!Accept, W
  <2> QED  BY <1>2, <2>4 DEF Slot!Next
<1>9. CASE ~RunClaim(c) /\ Answered(c)' = Answered(c)
  <2>1. UNCHANGED AnswerOf
    BY <1>5, <1>9
  <2>2. Slot!Act(c, s)
    BY <1>2, <1>3, <1>9, <2>1 DEF Slot!Act, Slot!Drops
  <2> QED  BY <1>2, <2>2 DEF Slot!Next
<1>10. CASE ~RunClaim(c) /\ Answered(c)' # Answered(c)
  <2>1. op[c] = "run" /\ op'[c] = "run"
    BY <1>1, <1>10 DEF Answered, OthersKept
  <2>2. CASE /\ result'[c] = result[c] /\ pc'[c] \notin {"record", "fail"}
             /\ pc'[c] = "end" => pc[c] \in {"record", "fail"}
    <3>1. pc'[c] = "end" /\ pc[c] \in {"record", "fail"}
      BY <1>1, <1>10, <2>1, <2>2, Started DEF Answered, Inv
    <3>2. /\ Answered(c) = "none" /\ AnswerOf[c] = "none"
          /\ Answered(c)' = "result"
      BY <1>7, <1>10, <2>1, <2>2, <3>1
         DEF Answered, Unanswered, Polled, Raised, Failures, Prompts
    <3>3. c \notin Unacted /\ UNCHANGED Unacted
      BY <1>3, <1>4, <3>1 DEF W
    <3>4. Slot!Tell(c, s)
      BY <1>2, <1>6, <1>10, <3>2, <3>3
         DEF Slot!Tell, Slot!Answers, Slot!Drops
    <3> QED  BY <1>2, <3>4 DEF Slot!Next
  <2>3. CASE /\ Cuts(c)
             /\ pc[c] \in {"create", "record"} /\ pc'[c] = "fail"
             /\ result'[c].status = "unsaved"
    <3>1. Answered(c) = "none" /\ AnswerOf[c] = "none"
      BY <1>7, <2>1, <2>3
         DEF Answered, Unanswered, Ending, Over, Polled, Failures, Prompts
    <3>2. Answered(c)' = "unrecorded"
      BY <2>1, <2>3 DEF Answered, Failures
    <3>3. c \notin Unacted /\ UNCHANGED Unacted
      BY <1>3, <1>4, <2>3 DEF W
    <3>4. UNCHANGED Slots
      BY <2>3, CutParts DEF Slots, Inv
    <3>5. Slot!TellUnrecorded(c)
      BY <1>6, <3>1, <3>2, <3>3, <3>4 DEF Slot!TellUnrecorded, Slot!Answers
    <3> QED  BY <1>2, <3>5 DEF Slot!Next
  <2>4. ASSUME pc[c] \notin Ending
        PROVE  Answered(c) = "none" /\ AnswerOf[c] = "none"
    BY <1>7, <2>1, <2>4 DEF Unanswered, Answered, Failures, Ending, Over
  <2>5. CASE /\ pc[c] \notin Ending
             /\ RunBusy(c) /\ pc'[c] = "end" /\ result'[c].status = "busy"
    <3>1. Answered(c)' = "busy"
      BY <2>1, <2>5 DEF Answered, Failures
    <3>2. pc[c] = "lock" /\ Tracked(s) /\ UNCHANGED Slots
      BY <2>5 DEF RunBusy, stateVars, Slots
    <3>3. Slots[s] # None
      BY <1>2, <3>2 DEF Slots, Tracked
    <3>4. Unacted' = Unacted \ {c}
      BY <1>3, <2>5 DEF W
    <3>5. Slot!Refuse(c, s)
      BY <1>4, <1>6, <2>4, <2>5, <3>1, <3>2, <3>3, <3>4
         DEF Slot!Refuse, Slot!Answers, W
    <3> QED  BY <1>2, <3>5 DEF Slot!Next
  <2>6. CASE /\ pc[c] \notin Ending
             /\ pc'[c] = "fail" /\ result'[c].status \in Failures
    <3>1. Answered(c)' = "failed"
      BY <2>1, <2>6 DEF Answered
    <3>2. \A t \in Sessions : Slots'[t] # c
      <4>1. NoGhostBusy'
        BY DEF Inv
      <4>2. \A t \in Sessions :
              registry'[t] # None => obj'[registry'[t]].log # c
        BY <2>1, <2>6, <4>1 DEF NoGhostBusy, Raised, Failures
      <4> QED  BY <4>2, NoneAssumption DEF Slots
    <3>3. Unacted' = Unacted \ {c}
      BY <1>3, <2>6 DEF W
    <3>4. Slot!Fail(c, s)
      BY <1>2, <1>6, <1>10, <2>4, <2>6, <3>1, <3>2, <3>3
         DEF Slot!Fail, Slot!Answers, Slot!Drops
    <3> QED  BY <1>2, <3>4 DEF Slot!Next
  <2>7. CASE /\ pc[c] = "reading" /\ pc'[c] = "record"
             /\ result'[c].status \in Polled
    BY <1>10, <2>1, <2>4, <2>7
       DEF Answered, Ending, Over, Polled, Failures, Prompts
  <2> QED  BY <1>1, <2>1, <2>2, <2>3, <2>5, <2>6, <2>7 DEF AnswerStep
<1> QED  BY <1>8, <1>9, <1>10

\* The other steps change no slot.
LEMMA OthersStutter ==
    ASSUME Inv, Unanswered, [Next]_vars,
           \A c \in Calls : ~Step(c)
    PROVE  UNCHANGED Slot!vars /\ Unanswered'
<1> USE DEF Slot!vars
<1>1. CASE \E c \in Calls : Start(c)
  <2>1. PICK c \in Calls : Start(c)
    BY <1>1
  <2>2. /\ UNCHANGED <<registry, obj, result>>
        /\ pc[c] = "new" /\ pc'[c] \in {"lock", "get"}
        /\ \A d \in Calls \ {c} : op'[d] = op[d] /\ pc'[d] = pc[d]
    BY <2>1 DEF Start, At, stateVars, Inv, TypeOK, CallTypeOK
  <2>3. result[c].status = "none"
    BY <2>2 DEF Inv, AllFresh, Fresh
  <2>4. UNCHANGED Slots /\ UNCHANGED Unacted
    BY <2>2 DEF Slots, Unacted
  <2>5. UNCHANGED AnswerOf
    <3>1. \A d \in Calls : Answered(d)' = Answered(d)
      BY <2>2, <2>3 DEF Answered, Failures
    <3> QED  BY <3>1 DEF AnswerOf
  <2>6. Unanswered'
    BY <2>2, <2>3 DEF Unanswered
  <2> QED  BY <2>4, <2>5, <2>6
<1>2. CASE \E c \in Calls : Expire(c)
  <2>1. PICK c \in Calls : Expire(c)
    BY <1>2
  <2>2. UNCHANGED <<registry, obj, op, result>> /\ pc' = pc
    BY <2>1 DEF Expire, Suspend, At, stateVars, Inv, TypeOK, CallTypeOK
  <2> QED  BY <2>2 DEF Slots, Unacted, AnswerOf, Answered, Unanswered
<1>3. CASE UNCHANGED <<stateVars, callVars>>
  BY <1>3 DEF stateVars, callVars, Slots, Unacted, AnswerOf, Answered,
              Unanswered
<1>4. CASE UNCHANGED vars
  BY <1>3, <1>4 DEF vars
<1> QED  BY <1>1, <1>2, <1>3, <1>4 DEF Next, Step

LEMMA InitRefines ==
    ASSUME Init
    PROVE  Slot!Init /\ Unanswered
BY DEF Init, Slot!Init, Slots, Unacted, AnswerOf, Answered, Unanswered, Only

\* The tracking of commands in sessions.py is that of SessionSlot, whatever
\* calls overlap and whatever fails (sessions.py:165-204, 269-273, 508-518).
THEOREM SlotImplemented == Spec => ImplementsSlot
<1>1. Init => Slot!Init /\ Unanswered
  BY InitRefines
<1>2. Inv /\ Inv' /\ Unanswered /\ [Next]_vars
        => [Slot!Next]_(Slot!vars) /\ Unanswered'
  <2> SUFFICES ASSUME Inv, Inv', Unanswered, [Next]_vars
               PROVE  [Slot!Next]_(Slot!vars) /\ Unanswered'
    OBVIOUS
  <2>1. CASE \E c \in Calls : Step(c)
    BY <2>1, ResumeRefines, ResumeUnanswered DEF Inv
  <2>2. CASE \A c \in Calls : ~Step(c)
    BY <2>2, OthersStutter
  <2> QED  BY <2>1, <2>2
<1> QED  BY <1>1, <1>2, SpecInv, PTL DEF Spec, ImplementsSlot, Slot!Spec
=============================================================================
