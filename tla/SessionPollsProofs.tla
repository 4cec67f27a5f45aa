------------------------- MODULE SessionPollsProofs -------------------------
(***************************************************************************)
(* Theorems about the polls of SessionManager, for every set of calls and  *)
(* sessions and every bound.  They hold for a client that has at most one  *)
(* poller on a session, and the last two also need a transport that        *)
(* survives and a client that resets nothing.  A theorem names what it     *)
(* assumes of the constants: without any of it the property fails.         *)
(***************************************************************************)
EXTENDS SessionManagerProofs

USE NoneAssumption

\* The client awaits each session_wait and session_reset before its next call
\* on the session: what session_run and session_kill overlap is at most one
\* poller, the session_run that owns the session.
OnePoller == Overlapping \cap {"wait", "reset"} = {}

-----------------------------------------------------------------------------
(* The inductive invariant.                                                *)

\* Call c polls, or works on the state object it refers to.
Polls(c) == \/ pc[c] \in {"reading", "sleep"}
            \/ pc[c] = "record" /\ op[c] # "kill"
Works(c) == pc[c] \in Sending \cup {"create"} \/ Polls(c)

\* Two calls are outstanding together on a session if both tools may overlap.
Apart ==
    \A c, d \in Calls :
        /\ c # d /\ sess[c] = sess[d]
        /\ Outstanding(c) /\ Outstanding(d)
        => op[c] \in Overlapping

\* No session knows the object of a call that has not claimed it.
Unclaimed ==
    \A o \in Unacted :
        obj[o].log = None /\ \A s \in Sessions : registry[s] # o

\* The object that a call works on tracks the command it works for.
Tracks(c) ==
    LET f == frame[c] IN
    /\ pc[c] \in Sending \cup {"create"} => obj[f.ref].log = c
    /\ Polls(c) =>
        /\ f.watch # None /\ obj[f.ref].log = f.watch
        /\ op[c] # "kill"
        /\ op[c] = "run" => f.watch = c
AllTrack == \A c \in Calls : Tracks(c)

\* A read in flight asks for what follows the text pulled so far.
ReadExact ==
    \A c \in Calls :
        pc[c] = "reading" =>
            /\ frame[c].path = frame[c].watch
            /\ frame[c].from = obj[frame[c].ref].off

\* An object without a command is as new; all that one has is scanned.
IdleClean == \A o \in Calls : obj[o].log = None => obj[o] = Idle
AllScanned == \A o \in Calls : obj[o].scan = Len(obj[o].text)

PollInv ==
    /\ Inv
    /\ Apart /\ Unclaimed /\ AllTrack
    /\ ReadExact /\ IdleClean /\ AllScanned
    /\ AssertionsHold /\ OwnSentinel /\ CursorExact

-----------------------------------------------------------------------------
(* The seven ways a step of a call bears on polls and state objects; the   *)
(* eighth is RunClaim.                                                     *)

Objects == <<registry, obj>>

\* It leaves its object, or has none; it may roll back or forget.
Leaves(c) ==
    /\ ~Works(c)'
    /\ UNCHANGED registry \/ Forget(sess[c])
    /\ \/ UNCHANGED obj
       \/ Clear(frame[c].ref) /\ (Works(c) \/ pc[c] = "audit")
    /\ \/ result'[c] = result[c]
       \/ result'[c].status \notin {"assert", "done"}

\* It goes on sending its command.
Sends(c) ==
    /\ pc[c] \in Sending /\ pc'[c] \in Sending \cup {"create"}
    /\ frame'[c].ref = frame[c].ref
    /\ UNCHANGED <<Objects, result>>

\* It begins to poll the object it has claimed or found.
Begins(c) ==
    LET f == frame'[c] IN
    /\ pc'[c] = "reading"
    /\ \/ pc[c] \in Sending \cup {"create"} /\ f.ref = frame[c].ref
       \/ op[c] = "wait" /\ Tracked(sess[c]) /\ f.ref = registry[sess[c]]
    /\ f.watch = obj[f.ref].log /\ f.path = f.watch
    /\ f.from = obj[f.ref].off
    /\ UNCHANGED <<Objects, result>>

\* It reads again what follows in the log.
Wakes(c) ==
    LET f == frame'[c] IN
    /\ pc[c] = "sleep" /\ pc'[c] = "reading"
    /\ f.ref = frame[c].ref /\ f.watch = frame[c].watch
    /\ f.path = obj[f.ref].log /\ f.from = obj[f.ref].off
    /\ UNCHANGED <<Objects, result>>

\* It takes in the answer and sleeps, or reports what it found.
Keeps(c) ==
    /\ frame'[c].ref = frame[c].ref /\ frame'[c].watch = frame[c].watch
Missed(c) == \E behind \in {0, 1} : Matches(c, behind) = {}
Reports(c) ==
    /\ pc'[c] = "record"
    /\ \/ /\ result'[c].status = "done" /\ result'[c].log = frame[c].watch
          /\ result'[c].exit = frame[c].watch
          /\ \E i \in 1 .. Len(Text(c)) : Text(c)[i] = Done(frame[c].watch)
       \/ Missed(c) /\ result'[c].status \in {"still_running"} \cup Prompts
Pulls(c) ==
    /\ Pull(c) /\ Keeps(c)
    /\ \/ Missed(c) /\ pc'[c] = "sleep" /\ UNCHANGED result
       \/ Reports(c)

PollStep(c) ==
    \/ Leaves(c) \/ Sends(c) \/ Begins(c) \/ Wakes(c) \/ Pulls(c)
    \/ RunClaim(c) /\ UNCHANGED result

\* The first read of a poll asks for the log of its object, from its offset.
LEMMA BeginPollReads ==
    ASSUME TypeOK, NEW c \in Calls, NEW o, NEW k, BeginPoll(c, o, k),
           obj[o].log # None
    PROVE  LET f == frame'[c] IN
           /\ pc'[c] = "reading" /\ UNCHANGED result
           /\ f.ref = o /\ f.watch = obj[o].log
           /\ f.path = f.watch /\ f.from = obj[o].off
<1> DEFINE w == obj[o].log
           f == [NoFrame EXCEPT !.ref = o, !.conn = k, !.watch = w,
                                !.path = w, !.from = obj[o].off]
<1>1. Suspend(c, "reading", f)
  BY DEF BeginPoll
<1>2. f.ref = o /\ f.watch = w /\ f.path = w /\ f.from = obj[o].off
  BY DEF NoFrame
<1> HIDE DEF f
<1>3. frame'[c] = f /\ pc'[c] = "reading" /\ UNCHANGED result
  BY <1>1 DEF Suspend, At, TypeOK, CallTypeOK
<1> QED  BY <1>2, <1>3

LEMMA ResumePollStep ==
    ASSUME TypeOK, AllFresh, AllTrack, NEW c \in Calls, Step(c)
    PROVE  PollStep(c)
<1> USE DEF TypeOK, CallTypeOK, At, Suspend, Settle, stateVars
<1>o. op' = op
  BY ResumeKeepsOthers DEF OthersKept
<1>1. CASE RunClaim(c)
  BY <1>1 DEF RunClaim, Claim, PollStep
<1>2. CASE SendError(c) \/ SendUnreachable(c)
  <2>1. /\ Works(c) /\ pc'[c] = "fail"
        /\ \/ UNCHANGED registry \/ Forget(sess[c])
        /\ Clear(frame[c].ref)
    BY <1>2 DEF SendError, SendUnreachable, Raise, Works, Sending
  <2>2. result'[c].status \notin {"assert", "done"}
    BY <1>2 DEF SendError, SendUnreachable, Raise, Only
  <2> QED  BY <2>1, <2>2 DEF PollStep, Leaves, Works, Polls, Sending
<1>3. CASE RunCreated(c) \/ (RunEnter(c) /\ ~frame[c].created)
  <2>1. /\ BeginPoll(c, frame[c].ref, frame[c].conn)
        /\ UNCHANGED Objects
        /\ pc[c] \in Sending \cup {"create"}
    BY <1>3 DEF RunCreated, RunEnter, Objects, Sending
  <2>2. obj[frame[c].ref].log # None
    BY <2>1 DEF AllTrack, Tracks
  <2> QED  BY <2>1, <2>2, BeginPollReads DEF PollStep, Begins
<1>4. CASE \/ RunEnsure(c) \/ RunType(c)
           \/ (RunEnter(c) /\ frame[c].created)
  <2>1. /\ pc[c] \in Sending /\ pc'[c] \in Sending \cup {"create"}
        /\ UNCHANGED <<Objects, result>>
    BY <1>4 DEF RunEnsure, RunType, RunEnter, Objects, Sending
  <2>2. frame'[c] = frame[c]
        \/ \E b : frame'[c] = [frame[c] EXCEPT !.created = b]
    BY <1>4 DEF RunEnsure, RunType, RunEnter
  <2>3. frame'[c].ref = frame[c].ref
    BY <2>2 DEF Frame
  <2> QED  BY <2>1, <2>3 DEF PollStep, Sends
<1>5. CASE PollWake(c)
  <2> DEFINE o == obj[frame[c].ref]
             f == [frame[c] EXCEPT !.path = o.log, !.from = o.off]
  <2>1. pc[c] = "sleep" /\ o.log # None
    BY <1>5 DEF PollWake, AllTrack, Tracks, Polls
  <2>2. Suspend(c, "reading", f) /\ UNCHANGED Objects
    BY <1>5, <2>1 DEF PollWake, Objects
  <2>3. /\ f.ref = frame[c].ref /\ f.watch = frame[c].watch
        /\ f.path = o.log /\ f.from = o.off
    BY DEF Frame
  <2> HIDE DEF f
  <2>4. frame'[c] = f /\ pc'[c] = "reading" /\ UNCHANGED result
    BY <2>2
  <2> QED  BY <2>1, <2>2, <2>3, <2>4 DEF PollStep, Wakes
<1>6. CASE PollSleep(c)
  BY <1>6 DEF PollSleep, PollStep, Pulls, Keeps, Missed
<1>7. CASE PollDone(c) \/ PollPrompt(c) \/ PollTimeout(c)
  <2>1. Pull(c) /\ pc[c] = "reading" /\ obj[frame[c].ref].log = frame[c].watch
        /\ frame[c].watch # None
    BY <1>7 DEF PollDone, PollPrompt, PollTimeout, Pull, AllTrack, Tracks,
                Polls
  <2>2. ASSUME NEW e, NEW x, Report(c, e, x)
        PROVE  /\ pc'[c] = "record" /\ UNCHANGED frame
               /\ result'[c].status = e /\ result'[c].log = frame[c].watch
               /\ result'[c].exit = x
    BY <2>1, <2>2 DEF Report
  <2>3. CASE PollDone(c)
    <3>1. PICK i : /\ \E behind \in {0, 1} : i \in Matches(c, behind)
                   /\ Report(c, "done", Text(c)[i].cmd)
      BY <2>3 DEF PollDone
    <3>2. /\ i \in 1 .. Len(Text(c)) /\ Text(c)[i] = Done(frame[c].watch)
          /\ Text(c)[i].cmd = frame[c].watch
      BY <3>1 DEF Matches, Done
    <3> QED  BY <2>1, <2>2, <3>1, <3>2 DEF PollStep, Pulls, Keeps, Reports
  <2>4. CASE PollPrompt(c)
    <3>1. PICK status \in Prompts : Missed(c) /\ Report(c, status, None)
      BY <2>4 DEF PollPrompt, Missed
    <3> QED  BY <2>1, <2>2, <3>1 DEF PollStep, Pulls, Keeps, Reports
  <2>5. CASE PollTimeout(c)
    <3>1. Missed(c) /\ Report(c, "still_running", None)
      BY <2>5 DEF PollTimeout, Missed
    <3> QED  BY <2>1, <2>2, <3>1 DEF PollStep, Pulls, Keeps, Reports
  <2> QED  BY <1>7, <2>3, <2>4, <2>5
<1>8. CASE PollUnreachable(c)
  BY <1>8 DEF PollUnreachable, Raise, Only, PollStep, Leaves, Works, Polls,
              Sending
<1>9. CASE WaitGet(c)
  <2>1. UNCHANGED Objects /\ op[c] = "wait"
    BY <1>9 DEF WaitGet, Objects
  <2>2. CASE Tracked(sess[c])
    <3>1. BeginPoll(c, registry[sess[c]], Conn)
      BY <1>9, <2>2 DEF WaitGet
    <3> QED  BY <2>1, <2>2, <3>1, BeginPollReads
             DEF Tracked, PollStep, Begins
  <2>3. CASE ~Tracked(sess[c])
    <3>1. Return(c, Only("idle"))
      BY <1>9, <2>3 DEF WaitGet
    <3> QED  BY <2>1, <3>1 DEF Return, Only, PollStep, Leaves, Works, Polls,
                               Sending, Objects
  <2> QED  BY <2>2, <2>3
<1>10. CASE \/ RunGet(c) \/ KillGet(c) \/ GetRejected(c)
  BY <1>10 DEF RunGet, KillGet, GetRejected, Raise, Only, PollStep, Leaves,
               Works, Polls, Sending
<1>11. CASE GetUnreachable(c)
  BY <1>o, <1>11 DEF GetUnreachable, Raise, Only, PollStep, Leaves, Works,
                     Polls, Sending
<1>12. CASE RunBusy(c) \/ ResetNoop(c)
  BY <1>12 DEF RunBusy, ResetNoop, Return, Only, PollStep, Leaves, Works,
               Polls, Sending
<1>13. CASE KillRecorded(c) \/ ServerRecords(c)
  BY <1>13 DEF KillRecorded, ServerRecords, Recorded, PollStep, Leaves, Works,
               Polls, Sending
<1>14. CASE PollRecorded(c) \/ ResetDone(c)
  BY <1>14 DEF PollRecorded, ResetDone, Recorded, Only, PollStep, Leaves,
               Works, Polls, Sending
<1>15. CASE ResetClaim(c)
  BY <1>15 DEF ResetClaim, PollStep, Leaves, Works, Polls, Sending
<1>16. CASE KillRemote(c)
  BY <1>16 DEF KillRemote, Only, PollStep, Leaves, Works, Polls, Sending
<1>17. CASE KillForget(c)
  <2>1. op[c] = "kill" /\ pc'[c] = "record" /\ Forget(sess[c])
        /\ UNCHANGED obj
    BY <1>17 DEF KillForget, CallHas
  <2>2. result'[c] \in {result[c], Only("not_killed")}
    BY <1>17 DEF KillForget
  <2> QED  BY <1>o, <2>1, <2>2 DEF Only, PollStep, Leaves, Works, Polls,
                                   Sending
<1>c. CASE Cuts(c)
  <2>1. /\ UNCHANGED <<registry, obj>> /\ pc'[c] \in {"cut", "fail"}
        /\ result'[c] \in {result[c], Only("unsaved")}
    BY <1>c, CutParts
  <2> QED  BY <2>1 DEF Only, PollStep, Leaves, Works, Polls, Sending
<1> QED  BY <1>1, <1>2, <1>3, <1>4, <1>5, <1>6, <1>7, <1>8, <1>9, <1>10,
            <1>11, <1>12, <1>13, <1>14, <1>15, <1>16, <1>17, <1>c
         DEF Step, Resume, Cuts

-----------------------------------------------------------------------------
(* Who works on an object.                                                 *)

LEMMA WorkersOutstanding ==
    ASSUME TypeOK, NEW c \in Calls, Works(c) \/ pc[c] = "audit"
    PROVE  Outstanding(c) /\ frame[c].ref \in Calls /\ sess[c] \in Sessions
BY DEF Works, Polls, Outstanding, Over, Sending, TypeOK, CallHas

\* With one poller on a session, an object has one worker.
LEMMA SoleWorker ==
    ASSUME OnePoller, TypeOK, AllFresh, ObjectsAtHome, Apart, AllTrack,
           NEW c \in Calls, NEW d \in Calls, Works(c), Works(d),
           frame[c].ref = frame[d].ref
    PROVE  c = d
<1> SUFFICES ASSUME c # d PROVE FALSE
  OBVIOUS
<1>1. /\ Outstanding(c) /\ Outstanding(d)
      /\ frame[c].ref \in Calls /\ frame[d].ref \in Calls
  BY WorkersOutstanding
<1>2. sess[c] = sess[d]
  BY <1>1 DEF ObjectsAtHome
<1>3. op[c] \in {"run", "kill"} /\ op[d] \in {"run", "kill"}
  BY <1>1, <1>2, OpsAssumption, OverlappingAssumption DEF Apart, OnePoller
<1>4. ASSUME NEW e \in Calls, Works(e), op[e] \in {"run", "kill"}
      PROVE  obj[frame[e].ref].log = e
  BY <1>4 DEF AllTrack, Tracks, Works
<1>5. obj[frame[c].ref].log = c /\ obj[frame[d].ref].log = d
  BY <1>3, <1>4
<1> QED  BY <1>5

\* No call works on the object that a reset audits.
LEMMA ResetAlone ==
    ASSUME OnePoller, TypeOK, AllFresh, ObjectsAtHome, Apart,
           NEW c \in Calls, NEW d \in Calls, pc[c] = "audit", Works(d)
    PROVE  frame[c].ref # frame[d].ref
<1>1. /\ Outstanding(c) /\ Outstanding(d)
      /\ frame[c].ref \in Calls /\ frame[d].ref \in Calls
  BY WorkersOutstanding
<1>2. c # d /\ op[c] = "reset"
  BY DEF Works, Polls, Sending, AllFresh, Fresh
<1> QED  BY <1>1, <1>2 DEF ObjectsAtHome, Apart, OnePoller

\* What a session_run claims is idle, and becomes the object of its command.
LEMMA ClaimsIdle ==
    ASSUME TypeOK, Unclaimed, IdleClean, NEW c \in Calls, RunClaim(c)
    PROVE  /\ Claimed(c) \in Calls /\ obj[Claimed(c)] = Idle
           /\ obj' = [obj EXCEPT ![Claimed(c)] = [Idle EXCEPT !.log = c]]
<1>1. Claimed(c) \in Calls /\ pc[c] = "lock" /\ sess[c] \in Sessions
  BY ClaimParts, Started DEF Step, Resume
<1>2. obj[Claimed(c)].log = None
  BY <1>1 DEF RunClaim, Tracked, Claimed, Unclaimed, Unacted
<1>3. obj[Claimed(c)] = Idle
  BY <1>1, <1>2 DEF IdleClean
<1>4. obj' = [obj EXCEPT ![Claimed(c)].log = c]
  BY DEF RunClaim, Claim, Claimed
<1>5. obj \in [Calls -> State]
  BY DEF TypeOK, StateTypeOK
<1> QED  BY <1>1, <1>3, <1>4, <1>5

\* What a read does to the object it is for, and to no other.
LEMMA PullParts ==
    ASSUME TypeOK, NEW c \in Calls, Pull(c)
    PROVE  LET r == frame[c].ref IN
           /\ r \in Calls /\ pc[c] = "reading" /\ Works(c)
           /\ \A o \in Calls : o # r => obj'[o] = obj[o]
           /\ obj'[r].log = obj[r].log
           /\ obj'[r].off = obj[r].off + Len(Chunk(c))
           /\ obj'[r].text = Text(c) /\ obj'[r].scan = Len(Text(c))
           /\ UNCHANGED <<log, registry>>
<1> DEFINE r == frame[c].ref
           n == [obj[r] EXCEPT !.off = obj[r].off + Len(Chunk(c)),
                               !.text = Text(c), !.scan = Len(Text(c))]
<1>1. r \in Calls /\ pc[c] = "reading" /\ Works(c)
  BY DEF Pull, TypeOK, CallHas, Works, Polls
<1>2. obj \in [Calls -> State]
  BY DEF TypeOK, StateTypeOK
<1>3. /\ n.log = obj[r].log /\ n.off = obj[r].off + Len(Chunk(c))
      /\ n.text = Text(c) /\ n.scan = Len(Text(c))
  BY <1>1, <1>2 DEF State
<1>4. obj' = [obj EXCEPT ![r] = n]
  BY DEF Pull
<1>5. UNCHANGED <<log, registry>>
  BY DEF Pull, hostVars
<1> HIDE DEF n
<1>6. obj'[r] = n /\ \A o \in Calls : o # r => obj'[o] = obj[o]
  BY <1>1, <1>2, <1>4
<1> QED  BY <1>1, <1>3, <1>5, <1>6

\* So a step of a call leaves the objects of the others' work alone.
LEMMA OthersWorkKept ==
    ASSUME OnePoller, PollInv, NEW c \in Calls, Step(c), PollStep(c),
           NEW d \in Calls \ {c}, Works(d)
    PROVE  obj'[frame[d].ref] = obj[frame[d].ref]
<1> DEFINE r == frame[d].ref
<1>0. /\ TypeOK /\ AllFresh /\ ObjectsAtHome /\ Apart /\ AllTrack
      /\ Unclaimed /\ IdleClean
  BY DEF PollInv, Inv
<1>1. r \in Calls
  BY <1>0, WorkersOutstanding
<1>2. Works(c) => frame[c].ref # r
  BY <1>0, SoleWorker
<1>3. pc[c] = "audit" => frame[c].ref # r
  BY <1>0, ResetAlone
<1>4. obj \in [Calls -> State]
  BY <1>0 DEF TypeOK, StateTypeOK
<1>5. CASE Leaves(c)
  BY <1>1, <1>2, <1>3, <1>4, <1>5 DEF Leaves, Clear
<1>6. CASE Pulls(c)
  BY <1>0, <1>1, <1>2, <1>6, PullParts DEF Pulls
<1>7. CASE RunClaim(c)
  <2>1. obj[r].log # None
    BY <1>0 DEF Works, AllTrack, Tracks
  <2>2. Claimed(c) # r /\ obj' = [obj EXCEPT ![Claimed(c)] = [Idle EXCEPT !.log = c]]
    BY <1>0, <1>7, <2>1, ClaimsIdle DEF Idle
  <2> QED  BY <1>1, <1>4, <2>2
<1>8. CASE Sends(c) \/ Begins(c) \/ Wakes(c)
  BY <1>8 DEF Sends, Begins, Wakes, Objects
<1> QED  BY <1>5, <1>6, <1>7, <1>8 DEF PollStep

-----------------------------------------------------------------------------
(* What a step of a call preserves.                                        *)

\* A call that makes a step is outstanding.
LEMMA StepsOutstanding ==
    ASSUME TypeOK, NEW c \in Calls, Step(c)
    PROVE  Outstanding(c)
BY DEF Step, Resume, Cancel, RecordFails, Outstanding, Over, RunGet, WaitGet,
       KillGet, GetRejected, GetUnreachable, RunBusy, RunClaim, RunEnsure,
       RunType, RunEnter, RunCreated, SendError, SendUnreachable, PollDone,
       PollPrompt, PollTimeout, PollSleep, Pull, PollWake, PollUnreachable,
       PollRecorded, KillRemote, KillForget, KillRecorded, ResetNoop,
       ResetClaim, ResetDone, ServerRecords, Sending

LEMMA ResumeApart ==
    ASSUME TypeOK, Apart, NEW c \in Calls, Step(c)
    PROVE  Apart'
<1>1. OthersKept(c)
  BY ResumeKeepsOthers
<1>2. Outstanding(c)
  BY StepsOutstanding
<1> QED  BY <1>1, <1>2 DEF OthersKept, Apart, Outstanding

LEMMA ResumeUnclaimed ==
    ASSUME PollInv, NEW c \in Calls, Step(c), PollStep(c)
    PROVE  Unclaimed'
<1>0. /\ TypeOK /\ AllFresh /\ Unclaimed /\ IdleClean
  BY DEF PollInv, Inv
<1>1. OthersKept(c) /\ Forward(c) /\ LogStep(c)
  BY <1>0, ResumeKeepsOthers, ResumeForward, ResumeLogStep
<1> SUFFICES ASSUME NEW o \in Unacted'
             PROVE  /\ obj'[o].log = None
                    /\ \A s \in Sessions : registry'[s] # o
  BY DEF Unclaimed
<1>2. o \in Unacted /\ obj[o].log = None
  BY <1>0, <1>1 DEF Unacted, OthersKept, Forward, Unclaimed
<1>3. o # None /\ o \in Calls
  BY DEF Unacted
<1>4. registry \in [Sessions -> Calls \cup {None}]
  BY <1>0 DEF TypeOK, StateTypeOK
<1>5. CASE RunClaim(c)
  <2>1. /\ registry' = [registry EXCEPT ![sess[c]] = Claimed(c)]
        /\ pc[c] = "lock" /\ pc'[c] = "ensure"
    BY <1>0, <1>5, ClaimParts
  <2>2. o # c
    BY <2>1 DEF Unacted
  <2>3. Claimed(c) # o
    BY <1>0, <1>2, <2>2, Started DEF Claimed, Unclaimed
  <2>4. obj'[o].log = None
    BY <1>1, <1>2, <1>3, <2>3 DEF LogStep
  <2>5. \A s \in Sessions : registry'[s] \in {registry[s], Claimed(c)}
    BY <1>4, <2>1
  <2> QED  BY <1>0, <1>2, <2>3, <2>4, <2>5 DEF Unclaimed
<1>6. CASE ~RunClaim(c)
  <2>1. registry' = registry \/ Forget(sess[c])
    BY <1>0, <1>6, PullParts DEF PollStep, Leaves, Sends, Begins, Wakes, Pulls, Objects
  <2>2. \A s \in Sessions : registry'[s] \in {registry[s], None}
    BY <1>4, <2>1 DEF Forget
  <2>3. obj'[o].log = None
    BY <1>1, <1>2, <1>3, <1>6 DEF LogStep
  <2> QED  BY <1>0, <1>2, <1>3, <2>2, <2>3 DEF Unclaimed
<1> QED  BY <1>5, <1>6

LEMMA ResumeAllTrack ==
    ASSUME OnePoller, PollInv, NEW c \in Calls, Step(c), PollStep(c)
    PROVE  AllTrack'
<1>0. /\ TypeOK /\ AllFresh /\ AllTrack /\ Unclaimed /\ IdleClean
  BY DEF PollInv, Inv
<1>1. OthersKept(c)
  BY <1>0, ResumeKeepsOthers
<1>2. ASSUME NEW d \in Calls \ {c}
      PROVE  Tracks(d)'
  <2>1. Works(d) => obj'[frame[d].ref] = obj[frame[d].ref]
    BY OthersWorkKept
  <2> QED  BY <1>0, <1>1, <2>1
           DEF AllTrack, Tracks, Works, Polls, OthersKept
<1>3. Tracks(c)'
  <2>0. op' = op /\ Tracks(c)
    BY <1>0, <1>1 DEF OthersKept, AllTrack
  <2>1. CASE Leaves(c)
    BY <2>1 DEF Leaves, Tracks, Works
  <2>2. CASE Sends(c)
    BY <2>0, <2>2 DEF Sends, Tracks, Polls, Objects, Sending
  <2>3. CASE Begins(c)
    <3>1. pc[c] \in Sending \cup {"create"} => op[c] = "run"
      BY <1>0 DEF AllFresh, Fresh
    <3>2. pc'[c] \notin Sending \cup {"create"}
      BY <2>3 DEF Begins, Sending
    <3> QED  BY <2>0, <2>3, <3>1, <3>2 DEF Begins, Tracks, Tracked, Objects
  <2>4. CASE Wakes(c)
    <3>1. pc'[c] \notin Sending \cup {"create"} /\ Polls(c)
      BY <2>4 DEF Wakes, Sending, Polls
    <3> QED  BY <2>0, <2>4, <3>1 DEF Wakes, Tracks, Objects
  <2>5. CASE Pulls(c)
    <3>1. pc'[c] \notin Sending \cup {"create"} /\ Polls(c)
      BY <1>0, <2>5, PullParts DEF Pulls, Reports, Sending, Polls
    <3> QED  BY <1>0, <2>0, <2>5, <3>1, PullParts DEF Pulls, Keeps, Tracks
  <2>6. CASE RunClaim(c)
    <3>1. frame'[c].ref = Claimed(c) /\ pc'[c] = "ensure"
      BY <1>0, <2>6, ClaimParts
    <3>2. obj'[Claimed(c)].log = c
      BY <1>0, <2>6, ClaimsIdle DEF Idle, TypeOK, StateTypeOK
    <3> QED  BY <3>1, <3>2 DEF Tracks, Polls
  <2> QED  BY <2>1, <2>2, <2>3, <2>4, <2>5, <2>6 DEF PollStep
<1> QED  BY <1>2, <1>3 DEF AllTrack

LEMMA ResumeReadExact ==
    ASSUME OnePoller, PollInv, NEW c \in Calls, Step(c), PollStep(c)
    PROVE  ReadExact'
<1> DEFINE Exact(d) == pc[d] = "reading" =>
                            /\ frame[d].path = frame[d].watch
                            /\ frame[d].from = obj[frame[d].ref].off
<1>0. TypeOK /\ AllTrack /\ ReadExact
  BY DEF PollInv, Inv
<1>1. OthersKept(c)
  BY <1>0, ResumeKeepsOthers
<1>2. ASSUME NEW d \in Calls \ {c}
      PROVE  Exact(d)'
  <2>1. pc[d] = "reading" => obj'[frame[d].ref] = obj[frame[d].ref]
    BY OthersWorkKept DEF Works, Polls
  <2> QED  BY <1>0, <1>1, <2>1 DEF ReadExact, OthersKept
<1>3. Exact(c)'
  <2>1. CASE Leaves(c) \/ Sends(c)
    BY <2>1 DEF Leaves, Works, Polls, Sends, Sending
  <2>2. CASE Begins(c)
    BY <2>2 DEF Begins, Objects
  <2>3. CASE Wakes(c)
    BY <1>0, <2>3 DEF Wakes, Objects, AllTrack, Tracks, Polls
  <2>4. CASE Pulls(c)
    BY <2>4 DEF Pulls, Reports
  <2>5. CASE RunClaim(c)
    BY <1>0, <2>5, ClaimParts
  <2> QED  BY <2>1, <2>2, <2>3, <2>4, <2>5 DEF PollStep
<1> QED  BY <1>2, <1>3 DEF ReadExact

\* How a step changes a state object, in full.
ObjectChange(c, o) ==
    \/ obj'[o] = obj[o]
    \/ obj'[o] = Idle
    \/ Pulls(c) /\ o = frame[c].ref
    \/ obj'[o] = [Idle EXCEPT !.log = c]

LEMMA ResumeObjectChange ==
    ASSUME PollInv, NEW c \in Calls, PollStep(c), NEW o \in Calls
    PROVE  ObjectChange(c, o)
<1>0. TypeOK /\ Unclaimed /\ IdleClean
  BY DEF PollInv, Inv
<1>1. obj \in [Calls -> State]
  BY <1>0 DEF TypeOK, StateTypeOK
<1>2. CASE Leaves(c)
  BY <1>1, <1>2 DEF Leaves, Clear, ObjectChange
<1>3. CASE Sends(c) \/ Begins(c) \/ Wakes(c)
  BY <1>3 DEF Sends, Begins, Wakes, Objects, ObjectChange
<1>4. CASE Pulls(c)
  BY <1>0, <1>4, PullParts DEF Pulls, ObjectChange
<1>5. CASE RunClaim(c)
  BY <1>0, <1>1, <1>5, ClaimsIdle DEF ObjectChange
<1> QED  BY <1>2, <1>3, <1>4, <1>5 DEF PollStep

LEMMA ResumeIdleClean ==
    ASSUME PollInv, NEW c \in Calls, PollStep(c)
    PROVE  IdleClean' /\ AllScanned'
<1>0. TypeOK /\ AllTrack /\ IdleClean /\ AllScanned
  BY DEF PollInv, Inv
<1> SUFFICES ASSUME NEW o \in Calls
             PROVE  /\ obj'[o].log = None => obj'[o] = Idle
                    /\ obj'[o].scan = Len(obj'[o].text)
  BY DEF IdleClean, AllScanned
<1>1. CASE obj'[o] = obj[o]
  BY <1>0, <1>1 DEF IdleClean, AllScanned
<1>2. CASE obj'[o] \in {Idle, [Idle EXCEPT !.log = c]}
  BY <1>2 DEF Idle
<1>3. CASE Pulls(c) /\ o = frame[c].ref
  <2>1. Pull(c) /\ obj[o].log # None
    BY <1>0, <1>3, PullParts DEF Pulls, AllTrack, Tracks, Polls
  <2> QED  BY <1>0, <1>3, <2>1, PullParts
<1> QED  BY <1>1, <1>2, <1>3, ResumeObjectChange DEF ObjectChange

\* The two assertions of a result and the sentinel it reports.
LEMMA ResumeResults ==
    ASSUME PollInv, NEW c \in Calls, Step(c), PollStep(c)
    PROVE  AssertionsHold' /\ OwnSentinel'
<1>0. TypeOK /\ AllTrack /\ AssertionsHold /\ OwnSentinel
  BY DEF PollInv, Inv
<1>1. OthersKept(c)
  BY <1>0, ResumeKeepsOthers
<1>2. CASE result'[c] = result[c]
  BY <1>0, <1>1, <1>2 DEF OthersKept, AssertionsHold, OwnSentinel
<1>3. CASE result'[c].status \notin {"assert", "done"}
  BY <1>0, <1>1, <1>3 DEF OthersKept, AssertionsHold, OwnSentinel
<1>4. CASE Pulls(c) /\ result'[c].status = "done"
                /\ result'[c].log = frame[c].watch
                /\ result'[c].exit = frame[c].watch
  <2>1. op[c] = "run" => frame[c].watch = c
    BY <1>0, <1>4, PullParts DEF Pulls, AllTrack, Tracks, Polls
  <2> QED  BY <1>0, <1>1, <1>4, <2>1
           DEF OthersKept, AssertionsHold, OwnSentinel
<1> QED  BY <1>2, <1>3, <1>4
         DEF PollStep, Leaves, Sends, Begins, Wakes, Pulls, Reports, Prompts

-----------------------------------------------------------------------------
(* Logs only grow.                                                         *)

LogGrows ==
    \A l \in Calls :
        log'[l] = log[l] \/ \E t \in Token : log'[l] = Append(log[l], t)

LEMMA WriteGrows ==
    ASSUME HostTypeOK, NEW s \in Sessions, NEW kind \in {"out", "ask", "done"},
           pane[s].line # <<>>, Write(s, kind)
    PROVE  LogGrows
<1>1. pane[s].line \in Seq(Calls)
  BY DEF HostTypeOK, PaneType
<1>2. [kind |-> kind, cmd |-> Head(pane[s].line)] \in Token
  BY <1>1 DEF Token
<1> QED  BY <1>2 DEF Write, LogGrows, HostTypeOK

LEMMA EnterGrows ==
    ASSUME HostTypeOK, NEW s \in Sessions, PressEnter(s)
    PROVE  LogGrows
<1>1. CASE pane[s].asking
  <2>1. pane[s].line # <<>> /\ Write(s, "out")
    BY <1>1 DEF PressEnter, HostTypeOK
  <2> QED  BY <2>1, WriteGrows
<1>2. CASE ~pane[s].asking
  BY <1>2 DEF PressEnter, LogGrows
<1> QED  BY <1>1, <1>2

LEMMA HostGrows ==
    ASSUME HostTypeOK, HostNext
    PROVE  LogGrows
<1>1. ASSUME NEW s \in Sessions, Output(s) \/ Prompt(s) \/ Answer(s) \/ Finish(s)
      PROVE  LogGrows
  <2>1. pane[s].line # <<>>
    BY <1>1 DEF Output, Prompt, Answer, Finish, Prints, HostTypeOK
  <2>2. \E kind \in {"out", "ask", "done"} : Write(s, kind)
    BY <1>1 DEF Output, Prompt, Answer, Finish, Prints
  <2> QED  BY <2>1, <2>2, WriteGrows
<1>2. ASSUME NEW s \in Sessions, ExecShell(s) \/ OutsideKill(s)
      PROVE  LogGrows
  BY <1>2 DEF ExecShell, OutsideKill, LogGrows
<1>3. CASE Drop \/ Reboot \/ Recover \/ Delist \/ Relist
  BY <1>3 DEF Drop, Reboot, Recover, Delist, Relist, LogGrows
<1> QED  BY <1>1, <1>2, <1>3 DEF HostNext

LEMMA ResumeGrows ==
    ASSUME TypeOK, NEW c \in Calls, Step(c)
    PROVE  LogGrows
<1>1. HostTypeOK /\ sess[c] \in Sessions
  BY Started DEF TypeOK
<1>2. CASE UNCHANGED log
  BY <1>2 DEF LogGrows
<1>3. CASE PressEnter(sess[c])
  BY <1>1, <1>3, EnterGrows
<1>4. CASE Cancel(c)
  BY <1>2, <1>3, <1>4 DEF Cancel, Arrived
<1>5. UNCHANGED log \/ PressEnter(sess[c]) \/ Cancel(c)
  BY DEF Step, Resume, RunGet, WaitGet, KillGet, GetRejected, GetUnreachable,
       RunBusy, RunClaim, Claim, RunEnsure, RunType, RunEnter, RunCreated,
       SendError, SendUnreachable, PollDone, PollPrompt, PollTimeout,
       PollSleep, Pull, PollWake, PollUnreachable, PollRecorded, KillRemote,
       KillForget, KillRecorded, ResetNoop, ResetClaim, ResetDone,
       ServerRecords, RecordFails, hostVars
<1> QED  BY <1>2, <1>3, <1>4, <1>5

\* What was pulled of a log is a part of it that stays.
LEMMA PrefixKept ==
    ASSUME NEW l \in Seq(Token), NEW n \in Nat, n <= Len(l),
           NEW m, m = l \/ \E t \in Token : m = Append(l, t)
    PROVE  n <= Len(m) /\ SubSeq(m, 1, n) = SubSeq(l, 1, n)
<1>1. CASE m = l
  BY <1>1
<1>2. ASSUME NEW t \in Token, m = Append(l, t)
      PROVE  n <= Len(m) /\ SubSeq(m, 1, n) = SubSeq(l, 1, n)
  <2>1. /\ m \in Seq(Token) /\ Len(m) = Len(l) + 1
        /\ \A i \in 1 .. Len(l) : m[i] = l[i]
    BY <1>2
  <2> QED  BY <2>1
<1> QED  BY <1>1, <1>2

\* A read of the rest of a log leaves all of it.
LEMMA ReadJoins ==
    ASSUME NEW l \in Seq(Token), NEW n \in Nat, n <= Len(l)
    PROVE  /\ SubSeq(l, 1, n) \o SubSeq(l, n + 1, Len(l)) = l
           /\ n + Len(SubSeq(l, n + 1, Len(l))) = Len(l)
           /\ SubSeq(l, 1, Len(l)) = l
<1> DEFINE a == SubSeq(l, 1, n)  b == SubSeq(l, n + 1, Len(l))
<1>1. /\ a \in Seq(Token) /\ Len(a) = n
      /\ \A i \in 1 .. n : a[i] = l[i]
  OBVIOUS
<1>2. /\ b \in Seq(Token) /\ Len(b) = Len(l) - n
      /\ \A i \in 1 .. Len(l) - n : b[i] = l[n + i]
  OBVIOUS
<1>3. SubSeq(l, 1, Len(l)) = l
  OBVIOUS
<1> HIDE DEF a, b
<1>4. /\ a \o b \in Seq(Token) /\ Len(a \o b) = Len(l)
      /\ \A i \in 1 .. Len(l) :
            (a \o b)[i] = IF i <= n THEN a[i] ELSE b[i - n]
  BY <1>1, <1>2
<1>5. \A i \in 1 .. Len(l) : (a \o b)[i] = l[i]
  BY <1>1, <1>2, <1>4
<1>6. a \o b = l
  BY <1>4, <1>5, SeqEqual
<1>7. n + Len(b) = Len(l)
  BY <1>2
<1> QED  BY <1>3, <1>6, <1>7 DEF a, b

LEMMA CursorKept ==
    ASSUME TypeOK, CursorExact, LogGrows, NEW o \in Calls, obj[o].log # None,
           obj'[o] = obj[o]
    PROVE  /\ obj'[o].off <= Len(log'[obj'[o].log])
           /\ obj'[o].text = SubSeq(log'[obj'[o].log], 1, obj'[o].off)
<1> DEFINE l == obj[o].log  n == obj[o].off
<1>1. l \in Calls /\ n \in Nat /\ log[l] \in Seq(Token)
  BY DEF TypeOK, StateTypeOK, State, HostTypeOK
<1>2. n <= Len(log[l]) /\ obj[o].text = SubSeq(log[l], 1, n)
  BY DEF CursorExact
<1>3. log'[l] = log[l] \/ \E t \in Token : log'[l] = Append(log[l], t)
  BY <1>1 DEF LogGrows
<1>4. n <= Len(log'[l]) /\ SubSeq(log'[l], 1, n) = SubSeq(log[l], 1, n)
  BY <1>1, <1>2, <1>3, PrefixKept
<1> QED  BY <1>2, <1>4

\* The text of an object after a read is its log.
LEMMA PullTakesAll ==
    ASSUME PollInv, NEW c \in Calls, Pull(c)
    PROVE  LET r == frame[c].ref
               l == log[obj[r].log] IN
           /\ obj[r].log \in Calls /\ l \in Seq(Token)
           /\ Text(c) = l /\ obj[r].off + Len(Chunk(c)) = Len(l)
<1> DEFINE r == frame[c].ref  w == obj[r].log  l == log[w]  n == obj[r].off
<1>0. TypeOK /\ AllTrack /\ ReadExact /\ CursorExact
  BY DEF PollInv, Inv
<1>1. r \in Calls /\ pc[c] = "reading"
  BY <1>0, PullParts
<1>2. w # None /\ frame[c].path = w /\ frame[c].from = n
  BY <1>0, <1>1 DEF AllTrack, Tracks, Polls, ReadExact
<1>3. w \in Calls /\ n \in Nat /\ l \in Seq(Token)
  BY <1>0, <1>1, <1>2 DEF TypeOK, StateTypeOK, State, HostTypeOK
<1>4. n <= Len(l) /\ obj[r].text = SubSeq(l, 1, n)
  BY <1>0, <1>1, <1>2 DEF CursorExact
<1>5. Chunk(c) = SubSeq(l, n + 1, Len(l)) /\ Text(c) = obj[r].text \o Chunk(c)
  BY <1>2 DEF Chunk, Text
<1>6. Text(c) = l /\ n + Len(Chunk(c)) = Len(l)
  <2> HIDE DEF l, n
  <2> QED  BY <1>3, <1>4, <1>5, ReadJoins
<1> QED  BY <1>3, <1>6

LEMMA ResumeCursor ==
    ASSUME PollInv, NEW c \in Calls, Step(c), PollStep(c)
    PROVE  CursorExact'
<1>0. TypeOK /\ CursorExact /\ LogGrows
  BY ResumeGrows DEF PollInv, Inv
<1> SUFFICES ASSUME NEW o \in Calls, obj'[o].log # None
             PROVE  /\ obj'[o].off <= Len(log'[obj'[o].log])
                    /\ obj'[o].text = SubSeq(log'[obj'[o].log], 1, obj'[o].off)
  BY DEF CursorExact
<1>1. CASE obj'[o] = obj[o]
  BY <1>0, <1>1, CursorKept
<1>2. CASE obj'[o] = Idle
  BY <1>2 DEF Idle
<1>3. CASE obj'[o] = [Idle EXCEPT !.log = c]
  <2>1. obj'[o].log = c /\ obj'[o].off = 0 /\ obj'[o].text = <<>>
    BY <1>3 DEF Idle
  <2>2. log'[c] \in Seq(Token)
    BY <1>0, ResumeTyped DEF TypeOK, HostTypeOK
  <2> QED  BY <2>1, <2>2
<1>4. CASE Pulls(c) /\ o = frame[c].ref
  <2> DEFINE l == log[obj[o].log]
  <2>1. l \in Seq(Token) /\ Text(c) = l /\ obj[o].off + Len(Chunk(c)) = Len(l)
    BY <1>4, PullTakesAll DEF Pulls
  <2>2. /\ obj'[o].log = obj[o].log /\ UNCHANGED log
        /\ obj'[o].off = Len(l) /\ obj'[o].text = l
    BY <1>0, <1>4, <2>1, PullParts DEF Pulls
  <2> QED  BY <2>1, <2>2, ReadJoins
<1> QED  BY <1>1, <1>2, <1>3, <1>4, ResumeObjectChange DEF ObjectChange

-----------------------------------------------------------------------------
(* The other steps, and the theorems.                                      *)

LEMMA StartKeepsPolls ==
    ASSUME PollInv, NEW c \in Calls, Start(c)
    PROVE  PollInv'
<1>0. /\ TypeOK /\ AllFresh /\ Apart /\ Unclaimed /\ AllTrack /\ ReadExact
      /\ IdleClean /\ AllScanned /\ AssertionsHold /\ OwnSentinel
      /\ CursorExact
  BY DEF PollInv, Inv
<1>1. Inv'
  BY StartKeepsInv DEF PollInv
<1>2. PICK o \in Ops, s \in Sessions :
        /\ pc[c] = "new" /\ MayStart(o, s)
        /\ op' = [op EXCEPT ![c] = o] /\ sess' = [sess EXCEPT ![c] = s]
        /\ pc' = [pc EXCEPT ![c] = IF o = "reset" THEN "lock" ELSE "get"]
  BY DEF Start, At
<1>3. UNCHANGED <<log, registry, obj, frame, result>>
  BY DEF Start, hostVars, stateVars
<1>4. /\ op'[c] = o /\ sess'[c] = s /\ pc'[c] \in {"get", "lock"}
      /\ \A d \in Calls \ {c} :
            op'[d] = op[d] /\ sess'[d] = sess[d] /\ pc'[d] = pc[d]
  BY <1>0, <1>2 DEF TypeOK, CallTypeOK
<1>5. Apart'
  BY <1>0, <1>4, <1>2 DEF Apart, MayStart, Outstanding
<1>6. Unclaimed'
  BY <1>0, <1>2, <1>3, <1>4 DEF Unclaimed, Unacted
<1>7. AllTrack' /\ ReadExact'
  BY <1>0, <1>3, <1>4 DEF AllTrack, Tracks, Polls, ReadExact, Sending
<1>8. IdleClean' /\ AllScanned' /\ AssertionsHold' /\ CursorExact'
  BY <1>0, <1>3 DEF IdleClean, AllScanned, AssertionsHold, CursorExact
<1>9. OwnSentinel'
  <2>1. result[c].status = "none"
    BY <1>0, <1>2 DEF AllFresh, Fresh
  <2> QED  BY <1>0, <1>3, <1>4, <2>1 DEF OwnSentinel
<1> QED  BY <1>1, <1>5, <1>6, <1>7, <1>8, <1>9 DEF PollInv

LEMMA ExpireKeepsPolls ==
    ASSUME PollInv, NEW c \in Calls, Expire(c)
    PROVE  PollInv'
<1>0. /\ TypeOK /\ Apart /\ Unclaimed /\ AllTrack /\ ReadExact
      /\ IdleClean /\ AllScanned /\ AssertionsHold /\ OwnSentinel
      /\ CursorExact
  BY DEF PollInv, Inv
<1>1. Inv'
  BY ExpireKeepsInv DEF PollInv
<1>2. /\ UNCHANGED <<log, registry, obj, op, sess, pc, result>>
      /\ frame' = [frame EXCEPT ![c] = [frame[c] EXCEPT !.expired = TRUE]]
  BY <1>0 DEF Expire, Suspend, At, hostVars, stateVars, TypeOK, CallTypeOK
<1>3. \A d \in Calls :
        /\ frame'[d].ref = frame[d].ref /\ frame'[d].watch = frame[d].watch
        /\ frame'[d].path = frame[d].path /\ frame'[d].from = frame[d].from
  BY <1>0, <1>2 DEF TypeOK, CallTypeOK, Frame
<1>4. Apart' /\ Unclaimed' /\ AllTrack' /\ ReadExact'
  BY <1>0, <1>2, <1>3 DEF Apart, Outstanding, Unclaimed, Unacted, AllTrack,
                          Tracks, Polls, ReadExact
<1>5. /\ IdleClean' /\ AllScanned' /\ AssertionsHold' /\ OwnSentinel'
      /\ CursorExact'
  BY <1>0, <1>2 DEF IdleClean, AllScanned, AssertionsHold, OwnSentinel,
                    CursorExact
<1> QED  BY <1>1, <1>4, <1>5 DEF PollInv

LEMMA OthersKeepPolls ==
    ASSUME PollInv, Inv', LogGrows, UNCHANGED <<stateVars, callVars>>
    PROVE  PollInv'
<1>0. /\ TypeOK /\ Apart /\ Unclaimed /\ AllTrack /\ ReadExact
      /\ IdleClean /\ AllScanned /\ AssertionsHold /\ OwnSentinel
      /\ CursorExact
  BY DEF PollInv, Inv
<1>1. UNCHANGED <<registry, obj, op, sess, pc, frame, result>>
  BY DEF stateVars, callVars
<1>2. Apart' /\ Unclaimed' /\ AllTrack' /\ ReadExact'
  BY <1>0, <1>1 DEF Apart, Outstanding, Unclaimed, Unacted, AllTrack,
                    Tracks, Polls, ReadExact
<1>3. IdleClean' /\ AllScanned' /\ AssertionsHold' /\ OwnSentinel'
  BY <1>0, <1>1 DEF IdleClean, AllScanned, AssertionsHold, OwnSentinel
<1>4. CursorExact'
  BY <1>0, <1>1, CursorKept DEF CursorExact
<1> QED  BY <1>2, <1>3, <1>4 DEF PollInv

LEMMA InitPolls == Init => PollInv
<1> SUFFICES ASSUME Init PROVE PollInv
  OBVIOUS
<1>1. Inv
  BY InitInv
<1>2. /\ \A c \in Calls : /\ pc[c] = "new" /\ result[c].status = "none"
                          /\ obj[c] = Idle
      /\ \A s \in Sessions : registry[s] = None
  BY DEF Init, Only
<1>3. Idle.log = None /\ Idle.scan = Len(Idle.text)
  BY DEF Idle
<1>4. Apart /\ Unclaimed /\ AllTrack /\ ReadExact
  BY <1>2, <1>3 DEF Apart, Outstanding, Unclaimed, Unacted, AllTrack, Tracks,
                    Polls, Sending, ReadExact
<1>5. IdleClean /\ AllScanned /\ AssertionsHold /\ OwnSentinel /\ CursorExact
  BY <1>2, <1>3 DEF IdleClean, AllScanned, AssertionsHold, OwnSentinel,
                    CursorExact
<1> QED  BY <1>1, <1>4, <1>5 DEF PollInv

LEMMA NextPolls ==
    ASSUME OnePoller, PollInv, [Next]_vars
    PROVE  PollInv'
<1>0. Inv' /\ Inv
  BY NextInv DEF PollInv
<1>1. ASSUME NEW c \in Calls, Step(c)
      PROVE  PollInv'
  <2>1. PollStep(c)
    BY <1>0, <1>1, ResumePollStep DEF PollInv, Inv
  <2>2. Apart'
    BY <1>0, <1>1, ResumeApart DEF PollInv, Inv
  <2>3. Unclaimed' /\ AllTrack' /\ ReadExact'
    BY <1>1, <2>1, ResumeUnclaimed, ResumeAllTrack, ResumeReadExact
  <2>4. IdleClean' /\ AllScanned' /\ AssertionsHold' /\ OwnSentinel'
    BY <1>1, <2>1, ResumeIdleClean, ResumeResults
  <2>5. CursorExact'
    BY <1>1, <2>1, ResumeCursor
  <2> QED  BY <1>0, <2>2, <2>3, <2>4, <2>5 DEF PollInv
<1>2. CASE HostNext /\ UNCHANGED <<stateVars, callVars>>
  BY <1>0, <1>2, HostGrows, OthersKeepPolls DEF Inv, TypeOK
<1>3. CASE UNCHANGED vars
  BY <1>0, <1>3, OthersKeepPolls DEF vars, hostVars, LogGrows
<1> QED  BY <1>1, <1>2, <1>3, StartKeepsPolls, ExpireKeepsPolls
         DEF Next, Step

LEMMA SpecPolls == ASSUME OnePoller PROVE Spec => []PollInv
BY InitPolls, NextPolls, PTL DEF Spec

-----------------------------------------------------------------------------
\* With one poller on a session, no assertion of the poll or of its result
\* fails (sessions.py:373-374, 432, 465-466), whatever is killed, cancelled or
\* cut off.
THEOREM NoAssertionFails == ASSUME OnePoller PROVE Spec => []AssertionsHold
<1>1. PollInv => AssertionsHold
  BY DEF PollInv
<1> QED  BY <1>1, SpecPolls, PTL

\* A `done' result reports the sentinel of the command it names, and that of
\* a session_run its own (sessions.py:391-397).
THEOREM SentinelsOwned == ASSUME OnePoller PROVE Spec => []OwnSentinel
<1>1. PollInv => OwnSentinel
  BY DEF PollInv
<1> QED  BY <1>1, SpecPolls, PTL

\* What a state object has pulled is its log up to its offset, each byte
\* once (sessions.py:98-104).
THEOREM CursorsExact == ASSUME OnePoller PROVE Spec => []CursorExact
<1>1. PollInv => CursorExact
  BY DEF PollInv
<1> QED  BY <1>1, SpecPolls, PTL

-----------------------------------------------------------------------------
(* No poll misses its sentinel, when records are written: a call that is   *)
(* cut off before it clears its state leaves a sentinel behind.            *)

RecordsWritten == Faults \cap {"cancel", "disk"} = {}

\* The sentinel of the tracked command is in the text, and call c reports it.
Sighted(o) ==
    /\ obj[o].log # None
    /\ \E i \in 1 .. Len(obj[o].text) : obj[o].text[i] = Done(obj[o].log)
Announces(c, o) ==
    /\ pc[c] = "record" /\ op[c] # "kill"
    /\ frame[c].ref = o /\ result[c].status = "done"
Announced == \A o \in Calls : Sighted(o) => \E c \in Calls : Announces(c, o)

\* One worker on an object: a call that does not announce the sentinel of its
\* object shows that none was sighted.
LEMMA SightedByWorker ==
    ASSUME OnePoller, PollInv, Announced, NEW c \in Calls, Works(c),
           Sighted(frame[c].ref)
    PROVE  Announces(c, frame[c].ref)
<1>0. TypeOK /\ AllFresh /\ ObjectsAtHome /\ Apart /\ AllTrack
  BY DEF PollInv, Inv
<1>1. PICK d \in Calls : Announces(d, frame[c].ref)
  BY <1>0, WorkersOutstanding DEF Announced
<1>2. d = c
  BY <1>0, <1>1, SoleWorker DEF Announces, Works, Polls
<1> QED  BY <1>1, <1>2

\* A call that is about to be recorded has one step left.
LEMMA RecordLeft ==
    ASSUME TypeOK, RecordsWritten, NEW c \in Calls, Step(c),
           pc[c] = "record", op[c] # "kill"
    PROVE  PollRecorded(c)
BY DEF Step, Resume, Cancel, RecordFails, Strikes, RecordsWritten, RunGet,
       WaitGet, KillGet, GetRejected, GetUnreachable, RunBusy, RunClaim,
       RunEnsure, RunType, RunEnter, RunCreated, SendError, SendUnreachable,
       PollDone, PollPrompt, PollTimeout, PollSleep, Pull, PollWake,
       PollUnreachable, KillRemote, KillForget, KillRecorded, ResetNoop,
       ResetClaim, ResetDone, ServerRecords, Sending

\* A poll that found nothing pulled no sentinel.
LEMMA MissedNothing ==
    ASSUME OnePoller, PollInv, Announced, NEW c \in Calls, Pull(c), Missed(c),
           NEW i \in 1 .. Len(Text(c))
    PROVE  Text(c)[i] # Done(frame[c].watch)
<1> DEFINE r == frame[c].ref  t == obj[r].text
<1>0. TypeOK /\ AllTrack /\ AllScanned
  BY DEF PollInv, Inv
<1>1. r \in Calls /\ pc[c] = "reading" /\ Works(c)
  BY <1>0, PullParts
<1>2. /\ obj[r].log = frame[c].watch /\ obj[r].log # None
      /\ obj[r].scan = Len(t)
  BY <1>0, <1>1 DEF AllTrack, Tracks, Polls, AllScanned
<1>3. t \in Seq(Token) /\ Text(c) \in Seq(Token)
  BY <1>0, <1>1, PullTyped DEF TypeOK, StateTypeOK, State
<1>4. Chunk(c) \in Seq(Token)
  <2>1. log[frame[c].path] \in Seq(Token) /\ frame[c].from \in Nat
    BY <1>0, <1>1 DEF TypeOK, CallHas, HostTypeOK, CallTypeOK, Frame
  <2> QED  BY <2>1 DEF Chunk
<1>5. SUFFICES ASSUME Text(c)[i] = Done(frame[c].watch)
               PROVE  FALSE
  OBVIOUS
<1>6. PICK behind \in {0, 1} : Matches(c, behind) = {}
  BY DEF Missed
<1>7. ~(i + behind > Len(t))
  BY <1>2, <1>5, <1>6 DEF Matches
<1>8. i <= Len(t)
  BY <1>3, <1>7
<1>9. t[i] = Text(c)[i]
  BY <1>3, <1>4, <1>8 DEF Text
<1>10. Sighted(r)
  BY <1>2, <1>3, <1>5, <1>8, <1>9 DEF Sighted
<1> QED  BY <1>1, <1>10, SightedByWorker DEF Announces

LEMMA ResumeAnnounced ==
    ASSUME OnePoller, RecordsWritten, PollInv, Announced,
           NEW c \in Calls, Step(c), PollStep(c)
    PROVE  Announced'
<1>0. TypeOK /\ AllTrack
  BY DEF PollInv, Inv
<1>1. OthersKept(c)
  BY <1>0, ResumeKeepsOthers
<1> SUFFICES ASSUME NEW o \in Calls, Sighted(o)'
             PROVE  \E d \in Calls : Announces(d, o)'
  BY DEF Announced
<1>2. CASE obj'[o] = obj[o]
  <2>1. Sighted(o)
    BY <1>2 DEF Sighted
  <2>2. PICK d \in Calls : Announces(d, o)
    BY <2>1 DEF Announced
  <2>3. CASE d = c
    <3>1. Clear(o)
      BY <1>0, <2>2, <2>3, RecordLeft DEF PollRecorded, Announces
    <3>2. obj'[o] = Idle
      BY <1>0, <3>1 DEF Clear, TypeOK, StateTypeOK
    <3> QED  BY <3>2 DEF Sighted, Idle
  <2>4. CASE d # c
    BY <1>1, <2>2, <2>4 DEF Announces, OthersKept
  <2> QED  BY <2>3, <2>4
<1>3. CASE obj'[o] \in {Idle, [Idle EXCEPT !.log = c]}
  BY <1>3 DEF Sighted, Idle
<1>4. CASE Pulls(c) /\ o = frame[c].ref
  <2>1. /\ obj'[o].log = frame[c].watch /\ obj'[o].text = Text(c)
        /\ op'[c] = op[c] /\ op[c] # "kill"
    BY <1>0, <1>1, <1>4, PullParts
       DEF Pulls, AllTrack, Tracks, Polls, OthersKept
  <2>2. ~Missed(c)
    BY <1>4, <2>1, MissedNothing DEF Sighted, Pulls
  <2> QED  BY <1>4, <2>1, <2>2 DEF Announces, Pulls, Reports, Keeps
<1> QED  BY <1>2, <1>3, <1>4, <1>0, ResumeObjectChange DEF ObjectChange

LEMMA NextAnnounced ==
    ASSUME OnePoller, RecordsWritten, PollInv, Announced, [Next]_vars
    PROVE  Announced'
<1>0. TypeOK /\ AllFresh /\ AllTrack
  BY DEF PollInv, Inv
<1>1. ASSUME NEW c \in Calls, Step(c)
      PROVE  Announced'
  BY <1>0, <1>1, ResumePollStep, ResumeAnnounced
<1>2. ASSUME NEW c \in Calls, Start(c)
      PROVE  Announced'
  <2>1. /\ UNCHANGED <<obj, frame, result>> /\ pc[c] = "new"
        /\ \A d \in Calls \ {c} : op'[d] = op[d] /\ pc'[d] = pc[d]
    BY <1>0, <1>2 DEF Start, At, stateVars, TypeOK, CallTypeOK
  <2> QED  BY <2>1 DEF Announced, Sighted, Announces
<1>3. ASSUME NEW c \in Calls, Expire(c)
      PROVE  Announced'
  <2>1. /\ UNCHANGED <<obj, op, pc, result>>
        /\ frame' = [frame EXCEPT ![c] = [frame[c] EXCEPT !.expired = TRUE]]
    BY <1>0, <1>3 DEF Expire, Suspend, At, stateVars, TypeOK, CallTypeOK
  <2>2. \A d \in Calls : frame'[d].ref = frame[d].ref
    BY <1>0, <2>1 DEF TypeOK, CallTypeOK, Frame
  <2> QED  BY <2>1, <2>2 DEF Announced, Sighted, Announces
<1>4. ASSUME UNCHANGED <<stateVars, callVars>>
      PROVE  Announced'
  BY <1>4 DEF stateVars, callVars, Announced, Sighted, Announces
<1> QED  BY <1>1, <1>2, <1>3, <1>4 DEF Next, Step, vars

\* With one poller on a session and records that are written, a poll does not
\* report a command as unfinished once it pulled the sentinel: the scan
\* position never passes an unmatched one (sessions.py:385-390).
THEOREM SentinelsSeen ==
    ASSUME OnePoller, RecordsWritten
    PROVE  Spec => []NoMissedSentinel
<1>1. Init => Announced
  BY DEF Init, Announced, Sighted, Idle
<1>2. PollInv /\ Announced /\ [Next]_vars => Announced'
  BY NextAnnounced
<1>3. PollInv /\ Announced => NoMissedSentinel
  <2> SUFFICES ASSUME PollInv, Announced, NEW c \in Calls, pc[c] = "record",
                      op[c] # "kill", result[c].status # "done",
                      NEW i \in 1 .. Len(obj[frame[c].ref].text),
                      obj[frame[c].ref].text[i] = Done(frame[c].watch)
               PROVE  FALSE
    BY DEF NoMissedSentinel
  <2>1. Works(c) /\ Tracks(c)
    BY DEF Works, Polls, PollInv, AllTrack
  <2>2. Sighted(frame[c].ref)
    BY <2>1 DEF Tracks, Polls, Sighted
  <2> QED  BY <2>1, <2>2, SightedByWorker DEF Announces
<1> QED  BY <1>1, <1>2, <1>3, SpecPolls, PTL DEF Spec

-----------------------------------------------------------------------------
(* A pane that runs a command is tracked, when only session_run overlaps,  *)
(* nothing is reset and the transport lives: what is rolled back, cleared  *)
(* or forgotten has then left its pane.                                    *)

RunsOverlap == Overlapping \subseteq {"run"}
NothingReset == "reset" \notin Ops
TransportLives == Faults \cap {"drop", "reboot", "delist"} = {}

\* A pane has no command, one that was typed, or one that was entered.
EmptyPane(s) == pane[s].line = <<>> /\ pane[s].typed = <<>>
TypedIn(s, x) == pane[s].line = <<>> /\ pane[s].typed = <<x>>
EnteredIn(s, x) == pane[s].line = <<x>> /\ pane[s].typed = <<>>
Holds(s, x) == TypedIn(s, x) \/ EnteredIn(s, x)

\* The one command in a pane is the one its session tracks.
OneCommand ==
    \A s \in Sessions :
        EmptyPane(s) \/ (Tracked(s) /\ Holds(s, obj[registry[s]].log))
DeadEmpty == \A s \in Sessions : ~pane[s].alive => EmptyPane(s)

\* The sentinel of x was written.
Logged(x) == \E l \in Calls : \E i \in 1 .. Len(log[l]) : log[l][i] = Done(x)

\* A call has not yet typed, or entered, its command; and a command that
\* wrote its sentinel has left its pane.
Early == {"new", "get", "lock", "ensure", "type"}
InTurn(x) ==
    /\ pc[x] \in Early => ~Logged(x) /\ \A s \in Sessions : ~Holds(s, x)
    /\ pc[x] = "enter" => ~Logged(x) /\ \A s \in Sessions : ~EnteredIn(s, x)
    /\ Logged(x) => \A s \in Sessions : ~Holds(s, x)
AllInTurn == \A x \in Calls : InTurn(x)

\* A session keeps the object of a call that sends its command.
SendsTracked ==
    \A c \in Calls :
        pc[c] \in Sending \cup {"create"} => registry[sess[c]] = frame[c].ref

\* What is about to be cleared or forgotten has left its pane.
DoneLogged ==
    \A c \in Calls :
        /\ pc[c] = "record" /\ op[c] # "kill" /\ result[c].status = "done"
        => Logged(frame[c].watch)
ForgetDead == \A c \in Calls : pc[c] = "forget" => ~pane[sess[c]].alive

\* The one transport lives, and every call has it.
Connected == Sending \cup {"lock", "kill", "forget", "create", "reading", "sleep"}
NetUp ==
    /\ net = "up" /\ gen = 1 /\ pooled \in {0, 1}
    /\ \A c \in Calls : pc[c] \in Connected => frame[c].conn = 1

BusyInv ==
    /\ PollInv
    /\ NetUp /\ OneCommand /\ DeadEmpty /\ AllInTurn /\ SendsTracked
    /\ DoneLogged /\ ForgetDead

\* What a step of a call does to the panes.
PaneWork(c) ==
    LET s == sess[c] IN
    \/ UNCHANGED pane
    \/ pc[c] = "ensure" /\ EnsurePane(s, c) /\ UNCHANGED Objects
    \/ /\ pc[c] = "type" /\ pane[s].alive /\ TypeInto(s, c)
       /\ pc'[c] \in {"enter", "cut"} /\ UNCHANGED Objects
    \/ /\ pc[c] = "enter" /\ pane[s].alive /\ PressEnter(s)
       /\ pc'[c] \in {"create", "reading", "fail", "cut"} /\ UNCHANGED Objects
    \/ pc[c] = "kill" /\ ClosePane(s) /\ UNCHANGED Objects

LEMMA ResumePaneWork ==
    ASSUME TypeOK, NEW c \in Calls, Step(c)
    PROVE  PaneWork(c)
<1> USE DEF TypeOK, CallTypeOK, At, Suspend, Settle, stateVars, Objects,
            PaneWork
<1>1. CASE RunEnsure(c) \/ RunType(c) \/ KillRemote(c)
  BY <1>1 DEF RunEnsure, RunType, KillRemote
<1>2. CASE RunEnter(c)
  BY <1>2 DEF RunEnter, BeginPoll, Raise
<1>3. CASE Cancel(c)
  BY <1>3 DEF Cancel, Arrived
<1>4. \/ UNCHANGED pane \/ RunEnsure(c) \/ RunType(c) \/ KillRemote(c)
      \/ RunEnter(c) \/ Cancel(c)
  BY DEF Step, Resume, RunGet, WaitGet, KillGet, GetRejected, GetUnreachable,
       RunBusy, RunClaim, Claim, RunCreated,
       SendError, SendUnreachable, PollDone, PollPrompt, PollTimeout,
       PollSleep, Pull, PollWake, PollUnreachable, PollRecorded,
       KillForget, KillRecorded, ResetNoop, ResetClaim, ResetDone,
       ServerRecords, RecordFails, hostVars
<1> QED  BY <1>1, <1>2, <1>3, <1>4

\* How the registry and the objects lose a command, on a living transport.
LosesObject(c) ==
    \/ UNCHANGED registry \/ RunClaim(c)
    \/ pc[c] = "forget" /\ Forget(sess[c])
LosesCommand(c) ==
    \A o \in Calls :
        \/ obj'[o].log = obj[o].log
        \/ RunClaim(c) /\ o = Claimed(c)
        \/ /\ o = frame[c].ref
           /\ \/ pc[c] \in {"type", "enter"} /\ ~pane[sess[c]].alive
              \/ pc[c] = "record" /\ op[c] # "kill" /\ result[c].status = "done"
              \/ pc[c] = "audit"

LEMMA ResumeLoses ==
    ASSUME TypeOK, NetUp, NEW c \in Calls, Step(c)
    PROVE  LosesObject(c) /\ LosesCommand(c)
<1>1. ~(SendUnreachable(c) \/ PollUnreachable(c) \/ GetUnreachable(c))
  BY DEF NetUp, Connected, SendUnreachable, PollUnreachable, GetUnreachable,
         CannotOpen, Alive
<1>2. KillForget(c) => pc[c] = "forget" /\ Forget(sess[c]) /\ UNCHANGED obj
  BY DEF NetUp, Connected, KillForget, Alive
<1>3. ASSUME NEW r, Clear(r)
      PROVE  \A o \in Calls : o # r => obj'[o] = obj[o]
  BY <1>3 DEF Clear, TypeOK, StateTypeOK
<1>4. CASE SendError(c)
  BY <1>3, <1>4 DEF SendError, LosesObject, LosesCommand
<1>5. CASE PollRecorded(c)
  BY <1>3, <1>5 DEF PollRecorded, LosesObject, LosesCommand
<1>6. CASE ResetDone(c)
  BY <1>3, <1>6 DEF ResetDone, LosesObject, LosesCommand
<1>7. CASE PollDone(c) \/ PollPrompt(c) \/ PollTimeout(c) \/ PollSleep(c)
  <2>1. Pull(c)
    BY <1>7 DEF PollDone, PollPrompt, PollTimeout, PollSleep
  <2> QED  BY <2>1, PullParts DEF LosesObject, LosesCommand
<1>8. CASE RunClaim(c)
  <2>1. obj' = [obj EXCEPT ![Claimed(c)].log = c]
    BY <1>8 DEF RunClaim, Claim, Claimed
  <2> QED  BY <1>8, <2>1 DEF LosesObject, LosesCommand, TypeOK, StateTypeOK
<1>9. \/ UNCHANGED <<registry, obj>> \/ KillForget(c) \/ SendError(c)
      \/ PollRecorded(c) \/ ResetDone(c) \/ PollDone(c) \/ PollPrompt(c)
      \/ PollTimeout(c) \/ PollSleep(c) \/ RunClaim(c)
  BY <1>1 DEF Step, Resume, RunGet, WaitGet, KillGet, GetRejected,
       RunBusy, RunEnsure, RunType, RunEnter, RunCreated, PollWake,
       KillRemote, KillRecorded, ResetNoop, ResetClaim,
       ServerRecords, RecordFails, Cancel, stateVars
<1> QED  BY <1>2, <1>4, <1>5, <1>6, <1>7, <1>8, <1>9
         DEF LosesObject, LosesCommand

\* A call types once, then enters once; a kill forgets what it closed.
InOrder(c) ==
    /\ pc'[c] \in Early => pc[c] \in Early
    /\ pc'[c] = "enter" => pc[c] = "type"
    /\ pc'[c] = "forget" => pc[c] = "kill" /\ ClosePane(sess[c])

LEMMA ResumeInOrder ==
    ASSUME TypeOK, NEW c \in Calls, Step(c)
    PROVE  InOrder(c)
<1> USE DEF TypeOK, CallTypeOK, At, Suspend, Settle, InOrder, Early
<1>1. CASE RunClaim(c) \/ ResetClaim(c) \/ ResetDone(c)
  BY <1>1 DEF RunClaim, Claim, ResetClaim, ResetDone
<1>2. CASE SendError(c) \/ SendUnreachable(c)
  BY <1>2 DEF SendError, SendUnreachable, Raise
<1>3. CASE RunCreated(c) \/ RunEnter(c) \/ RunEnsure(c) \/ RunType(c)
  BY <1>3 DEF RunCreated, RunEnter, Raise, BeginPoll, RunEnsure, RunType
<1>4. CASE \/ PollDone(c) \/ PollPrompt(c) \/ PollTimeout(c)
           \/ PollSleep(c) \/ PollWake(c) \/ PollUnreachable(c)
  BY <1>4 DEF PollDone, PollPrompt, PollTimeout, PollSleep, PollWake,
              PollUnreachable, Pull, Report, Raise
<1>5. CASE \/ RunGet(c) \/ WaitGet(c) \/ KillGet(c)
           \/ GetRejected(c) \/ GetUnreachable(c)
  BY <1>5 DEF RunGet, WaitGet, KillGet, GetRejected, GetUnreachable, Raise,
              Return, BeginPoll
<1>6. CASE \/ RunBusy(c) \/ ResetNoop(c) \/ PollRecorded(c)
           \/ KillRecorded(c) \/ ServerRecords(c)
  BY <1>6 DEF RunBusy, ResetNoop, Return, PollRecorded, KillRecorded,
              ServerRecords, Recorded
<1>7. CASE KillRemote(c) \/ KillForget(c)
  BY <1>7 DEF KillRemote, KillForget
<1>c. CASE Cuts(c)
  BY <1>c, CutParts
<1> QED  BY <1>1, <1>2, <1>3, <1>4, <1>5, <1>6, <1>7, <1>c
         DEF Step, Resume, Cuts

\* The transport of the others is that of the call that makes a step.
LEMMA ResumeNetUp ==
    ASSUME TypeOK, NetUp, NEW c \in Calls, Step(c)
    PROVE  NetUp'
<1>1. OthersKept(c)
  BY ResumeKeepsOthers
<1>2. net' = "up" /\ gen' = 1 /\ pooled' \in {0, 1}
  <2>1. ASSUME UNCHANGED <<net, gen, pooled>>
        PROVE  net' = "up" /\ gen' = 1 /\ pooled' \in {0, 1}
    BY <2>1 DEF NetUp
  <2>2. ASSUME Get \/ \E k : MarkDead(k)
        PROVE  net' = "up" /\ gen' = 1 /\ pooled' \in {0, 1}
    BY <2>2 DEF NetUp, Get, Conn, MarkDead
  <2>3. \/ UNCHANGED <<net, gen, pooled>>
        \/ Get \/ \E k : MarkDead(k)
    BY DEF Step, Resume, RunGet, WaitGet, KillGet, GetRejected,
       GetUnreachable, RunBusy, RunClaim, Claim, RunEnsure, RunType, RunEnter,
       RunCreated, SendError, SendUnreachable, PollDone, PollPrompt,
       PollTimeout, PollSleep, Pull, PollWake, PollUnreachable, PollRecorded,
       KillRemote, KillForget, KillRecorded, ResetNoop, ResetClaim,
       ResetDone, ServerRecords, RecordFails, Cancel, hostVars, netVars
  <2> QED  BY <2>1, <2>2, <2>3
<1>3. pc'[c] \in Connected => frame'[c].conn = 1
  <2> USE DEF TypeOK, CallTypeOK, At, Suspend, Settle, Connected, Sending
  <2>f. frame[c] \in Frame /\ Conn = 1
    BY DEF NetUp, Conn
  <2>b. ASSUME NEW o, NEW k, k = 1, BeginPoll(c, o, k)
        PROVE  pc'[c] \in Connected => frame'[c].conn = 1
    <3>1. [NoFrame EXCEPT !.ref = o, !.conn = k, !.watch = obj[o].log,
                          !.path = obj[o].log, !.from = obj[o].off].conn = 1
      BY <2>b DEF NoFrame
    <3> QED  BY <2>b, <3>1 DEF BeginPoll, Raise
  <2>1. CASE RunClaim(c)
    <3>1. pc[c] = "lock" /\ frame' = [frame EXCEPT ![c] =
                                        [frame[c] EXCEPT !.ref = Claimed(c)]]
      BY <2>1 DEF RunClaim, Claim, Claimed
    <3> QED  BY <2>f, <3>1 DEF NetUp, Frame
  <2>2. CASE ResetClaim(c) \/ ResetDone(c)
    BY <2>2 DEF ResetClaim, ResetDone
  <2>3. CASE SendError(c) \/ SendUnreachable(c)
    BY <2>3 DEF SendError, SendUnreachable, Raise
  <2>4. CASE RunCreated(c) \/ (RunEnter(c) /\ ~frame[c].created)
    BY <2>b, <2>4 DEF RunCreated, RunEnter, NetUp
  <2>5. CASE RunEnsure(c)
    BY <2>f, <2>5 DEF RunEnsure, NetUp, Frame
  <2>6. CASE RunType(c) \/ (RunEnter(c) /\ frame[c].created)
    BY <2>6 DEF RunType, RunEnter, NetUp
  <2>7. CASE PollDone(c) \/ PollPrompt(c) \/ PollTimeout(c) \/ PollSleep(c)
    BY <2>7 DEF PollDone, PollPrompt, PollTimeout, PollSleep, Pull, Report,
                Raise, NetUp
  <2>8. CASE PollWake(c)
    <3> DEFINE o == obj[frame[c].ref]
               f == [frame[c] EXCEPT !.path = o.log, !.from = o.off]
    <3>1. f.conn = frame[c].conn
      BY <2>f DEF Frame
    <3>2. pc[c] = "sleep" /\ (Suspend(c, "reading", f) \/ Raise(c, "assert"))
      BY <2>8 DEF PollWake
    <3> HIDE DEF f
    <3> QED  BY <3>1, <3>2 DEF NetUp, Raise
  <2>9. CASE PollUnreachable(c)
    BY <2>9 DEF PollUnreachable, Raise
  <2>10. CASE RunGet(c) \/ KillGet(c)
    BY <2>f, <2>10 DEF RunGet, KillGet, NoFrame
  <2>11. CASE WaitGet(c)
    BY <2>b, <2>f, <2>11 DEF WaitGet, Return
  <2>12. CASE GetRejected(c) \/ GetUnreachable(c)
    BY <2>12 DEF GetRejected, GetUnreachable, Raise
  <2>13. CASE \/ RunBusy(c) \/ ResetNoop(c) \/ PollRecorded(c)
              \/ KillRecorded(c) \/ ServerRecords(c)
    BY <2>13 DEF RunBusy, ResetNoop, Return, PollRecorded, KillRecorded,
                 ServerRecords, Recorded
  <2>14. CASE KillRemote(c)
    BY <2>14 DEF KillRemote, NetUp
  <2>15. CASE KillForget(c)
    BY <2>15 DEF KillForget, Return
  <2>c. CASE Cuts(c)
    BY <2>c, CutParts
  <2> QED  BY <2>1, <2>2, <2>3, <2>4, <2>5, <2>6, <2>7, <2>8, <2>9, <2>10,
              <2>11, <2>12, <2>13, <2>14, <2>15, <2>c
           DEF Step, Resume, Cuts
<1> QED  BY <1>1, <1>2, <1>3 DEF NetUp, OthersKept

\* A step of a call writes no sentinel.
LEMMA ResumeWritesNoDone ==
    ASSUME TypeOK, NEW c \in Calls, Step(c), NEW x \in Calls
    PROVE  Logged(x)' <=> Logged(x)
<1>1. CASE UNCHANGED log
  BY <1>1 DEF Logged
<1>2. CASE Write(sess[c], "out")
  <2> DEFINE p == pane[sess[c]].pipe
             t == [kind |-> "out", cmd |-> Head(pane[sess[c]].line)]
  <2>1. log \in [Calls -> Seq(Token)] /\ log' \in [Calls -> Seq(Token)]
    BY ResumeTyped DEF TypeOK, HostTypeOK
  <2>2. log' = [log EXCEPT ![p] = Append(log[p], t)] /\ t # Done(x)
    BY <1>2 DEF Write, Done
  <2> HIDE DEF t
  <2>3. ASSUME NEW l \in Calls
        PROVE  (\E i \in 1 .. Len(log'[l]) : log'[l][i] = Done(x))
                <=> (\E i \in 1 .. Len(log[l]) : log[l][i] = Done(x))
    <3>1. CASE l # p
      BY <2>1, <2>2, <3>1
    <3>2. CASE l = p
      <4>1. log'[l] = Append(log[l], t) /\ log[l] \in Seq(Token)
        BY <2>1, <2>2, <3>2
      <4>2. /\ Len(log'[l]) = Len(log[l]) + 1
            /\ log'[l][Len(log[l]) + 1] = t
            /\ \A i \in 1 .. Len(log[l]) : log'[l][i] = log[l][i]
        BY <4>1
      <4>3. Len(log[l]) \in Nat
        BY <4>1
      <4> QED  BY <2>2, <4>2, <4>3
    <3> QED  BY <3>1, <3>2
  <2> QED  BY <2>3 DEF Logged
<1>3. UNCHANGED log \/ PressEnter(sess[c])
  <2>1. UNCHANGED log \/ PressEnter(sess[c]) \/ Cancel(c)
    BY DEF Step, Resume, RunGet, WaitGet, KillGet, GetRejected,
       GetUnreachable, RunBusy, RunClaim, Claim, RunEnsure, RunType, RunEnter,
       RunCreated, SendError, SendUnreachable, PollDone, PollPrompt,
       PollTimeout, PollSleep, Pull, PollWake, PollUnreachable, PollRecorded,
       KillRemote, KillForget, KillRecorded, ResetNoop, ResetClaim,
       ResetDone, ServerRecords, RecordFails, hostVars
  <2> QED  BY <2>1 DEF Cancel, Arrived
<1> QED  BY <1>1, <1>2, <1>3 DEF PressEnter

\* What a step of call c leaves in a pane, if it touches it.
Same(s) == pane'[s].line = pane[s].line /\ pane'[s].typed = pane[s].typed
PaneLeft(c) ==
    LET s == sess[c] IN
    /\ \A r \in Sessions : r # s => pane'[r] = pane[r]
    /\ \/ Same(s) /\ (pane'[s].alive <=> pane[s].alive)
       \/ Same(s) /\ EmptyPane(s) /\ pane'[s].alive /\ pc[c] = "ensure"
       \/ EmptyPane(s)' /\ pc[c] = "kill" /\ UNCHANGED Objects
       \/ /\ pc[c] = "type" /\ pc'[c] \in {"enter", "cut"}
          /\ EmptyPane(s) /\ TypedIn(s, c)' /\ pane'[s].alive
          /\ UNCHANGED Objects
       \/ /\ pc[c] = "enter" /\ pc'[c] \in {"create", "reading", "fail", "cut"}
          /\ TypedIn(s, c) /\ EnteredIn(s, c)' /\ pane'[s].alive
          /\ UNCHANGED Objects

\* The pane of a call that sends its command holds that command or none.
LEMMA SenderPane ==
    ASSUME BusyInv, NEW c \in Calls, pc[c] \in Sending \cup {"create"}
    PROVE  LET s == sess[c] IN
           /\ s \in Sessions /\ Tracked(s) /\ obj[registry[s]].log = c
           /\ EmptyPane(s) \/ Holds(s, c)
           /\ pc[c] \in {"ensure", "type"} => EmptyPane(s)
<1>0. /\ TypeOK /\ AllTrack /\ SendsTracked /\ OneCommand /\ AllInTurn
  BY DEF BusyInv, PollInv, Inv
<1>1. sess[c] \in Sessions /\ frame[c].ref \in Calls
  BY <1>0, WorkersOutstanding DEF Works
<1>2. registry[sess[c]] = frame[c].ref /\ obj[frame[c].ref].log = c
  BY <1>0 DEF SendsTracked, AllTrack, Tracks
<1>3. EmptyPane(sess[c]) \/ Holds(sess[c], c)
  BY <1>0, <1>1, <1>2 DEF OneCommand
<1>4. pc[c] \in {"ensure", "type"} => ~Holds(sess[c], c)
  BY <1>0, <1>1 DEF AllInTurn, InTurn, Early
<1> QED  BY <1>1, <1>2, <1>3, <1>4 DEF Tracked

\* Enter gives the line that was typed to the shell, or what is typed is none.
LEMMA EnterMoves ==
    ASSUME HostTypeOK, NEW s \in Sessions, NEW x \in Calls, PressEnter(s),
           EmptyPane(s) \/ Holds(s, x)
    PROVE  /\ \A r \in Sessions : r # s => pane'[r] = pane[r]
           /\ pane'[s].alive <=> pane[s].alive
           /\ \/ Same(s)
              \/ TypedIn(s, x) /\ EnteredIn(s, x)'
<1> DEFINE p == pane[s]
<1>0. p \in PaneType /\ pane \in [Sessions -> PaneType]
  BY DEF HostTypeOK
<1>1. CASE p.asking
  <2> DEFINE n == [p EXCEPT !.typed = <<>>, !.asking = FALSE]
  <2>1. pane' = [pane EXCEPT ![s] = n]
    BY <1>1 DEF PressEnter
  <2>2. n.typed = <<>> /\ n.line = p.line /\ n.alive = p.alive
    BY <1>0 DEF PaneType
  <2>3. p.typed = <<>>
    BY <1>1 DEF HostTypeOK, EmptyPane, Holds, TypedIn, EnteredIn
  <2> HIDE DEF n
  <2> QED  BY <1>0, <2>1, <2>2, <2>3 DEF Same
<1>2. CASE ~p.asking
  <2> DEFINE n == [p EXCEPT !.typed = <<>>, !.line = p.line \o p.typed]
  <2>1. pane' = [pane EXCEPT ![s] = n]
    BY <1>2 DEF PressEnter
  <2>2. n.typed = <<>> /\ n.line = p.line \o p.typed /\ n.alive = p.alive
    BY <1>0 DEF PaneType
  <2> HIDE DEF n
  <2>3. pane'[s] = n /\ \A r \in Sessions : r # s => pane'[r] = pane[r]
    BY <1>0, <2>1
  <2>4. /\ <<x>> \in Seq(Calls) /\ <<>> \in Seq(Calls)
        /\ <<>> \o <<x>> = <<x>> /\ <<x>> \o <<>> = <<x>>
        /\ <<>> \o <<>> = <<>>
    OBVIOUS
  <2>5. CASE TypedIn(s, x)
    BY <2>2, <2>3, <2>4, <2>5 DEF TypedIn, EnteredIn
  <2>6. CASE EmptyPane(s) \/ EnteredIn(s, x)
    BY <2>2, <2>3, <2>4, <2>6 DEF EmptyPane, EnteredIn, Same
  <2> QED  BY <2>2, <2>3, <2>5, <2>6 DEF Holds
<1> QED  BY <1>1, <1>2

LEMMA ResumePaneLeft ==
    ASSUME BusyInv, NEW c \in Calls, Step(c)
    PROVE  PaneLeft(c)
<1> DEFINE s == sess[c]
<1>0. TypeOK /\ HostTypeOK /\ DeadEmpty
  BY DEF BusyInv, PollInv, Inv, TypeOK
<1>1. s \in Sessions /\ pane \in [Sessions -> PaneType]
  BY <1>0, Started DEF HostTypeOK
<1>o. sess' = sess
  BY <1>0, ResumeKeepsOthers DEF OthersKept
<1>2. CASE UNCHANGED pane
  BY <1>2 DEF PaneLeft, Same
<1>3. CASE pc[c] = "ensure" /\ EnsurePane(s, c)
  <2>1. EmptyPane(s)
    BY <1>3, SenderPane DEF Sending
  <2> DEFINE n == IF pane[s].alive
                  THEN [pane[s] EXCEPT !.pipe = c]
                  ELSE [NoPane EXCEPT !.alive = TRUE, !.pipe = c]
  <2>2. pane' = [pane EXCEPT ![s] = n]
    BY <1>3 DEF EnsurePane
  <2>3. n.line = <<>> /\ n.typed = <<>> /\ n.alive
    BY <1>1, <2>1 DEF EmptyPane, PaneType, NoPane
  <2> HIDE DEF n
  <2>4. pane'[s] = n /\ \A r \in Sessions : r # s => pane'[r] = pane[r]
    BY <1>1, <2>2
  <2> QED  BY <1>3, <2>1, <2>3, <2>4 DEF PaneLeft, Same, EmptyPane
<1>4. CASE /\ pc[c] = "type" /\ pane[s].alive /\ TypeInto(s, c)
           /\ pc'[c] \in {"enter", "cut"} /\ UNCHANGED Objects
  <2>1. EmptyPane(s)
    BY <1>4, SenderPane DEF Sending
  <2> DEFINE n == [pane[s] EXCEPT !.typed = Append(pane[s].typed, c)]
  <2>2. pane' = [pane EXCEPT ![s] = n]
    BY <1>4 DEF TypeInto
  <2>3. n.line = <<>> /\ n.typed = <<c>> /\ n.alive
    BY <1>1, <1>4, <2>1 DEF EmptyPane, PaneType
  <2> HIDE DEF n
  <2>4. pane'[s] = n /\ \A r \in Sessions : r # s => pane'[r] = pane[r]
    BY <1>1, <2>2
  <2> QED  BY <1>o, <1>4, <2>1, <2>3, <2>4 DEF PaneLeft, TypedIn
<1>5. CASE /\ pc[c] = "enter" /\ pane[s].alive /\ PressEnter(s)
           /\ pc'[c] \in {"create", "reading", "fail", "cut"}
           /\ UNCHANGED Objects
  <2>1. EmptyPane(s) \/ Holds(s, c)
    BY <1>5, SenderPane DEF Sending
  <2> QED  BY <1>0, <1>o, <1>1, <1>5, <2>1, EnterMoves DEF PaneLeft
<1>6. CASE pc[c] = "kill" /\ ClosePane(s) /\ UNCHANGED Objects
  BY <1>o, <1>1, <1>6 DEF ClosePane, NoPane, PaneLeft, EmptyPane
<1> QED  BY <1>0, <1>2, <1>3, <1>4, <1>5, <1>6, ResumePaneWork DEF PaneWork

-----------------------------------------------------------------------------
(* What a step of a call preserves.                                        *)

\* A call that kills a session is alone on it.
LEMMA KillAlone ==
    ASSUME RunsOverlap, TypeOK, Apart, NEW c \in Calls, NEW d \in Calls,
           c # d, Outstanding(c), Outstanding(d), op[d] = "kill"
    PROVE  sess[c] # sess[d]
BY DEF Apart, RunsOverlap

\* A step of a call does nothing to the other sessions.
LEMMA OtherSessions ==
    ASSUME TypeOK, NetUp, ObjectsAtHome, NEW c \in Calls, Step(c),
           NEW s \in Sessions, s # sess[c]
    PROVE  /\ registry'[s] = registry[s]
           /\ registry[s] # None =>
                obj'[registry[s]].log = obj[registry[s]].log
<1>1. LosesObject(c) /\ LosesCommand(c)
  BY ResumeLoses
<1>2. registry \in [Sessions -> Calls \cup {None}]
  BY DEF TypeOK, StateTypeOK
<1>3. RunClaim(c) => registry' = [registry EXCEPT ![sess[c]] = Claimed(c)]
  BY ClaimParts
<1>4. registry'[s] = registry[s]
  BY <1>1, <1>2, <1>3 DEF LosesObject, Forget
<1>5. ASSUME registry[s] # None
      PROVE  obj'[registry[s]].log = obj[registry[s]].log
  <2>1. registry[s] \in Calls /\ sess[registry[s]] = s
    BY <1>2, <1>5 DEF ObjectsAtHome
  <2>2. registry[s] # Claimed(c)
    BY <2>1, Started DEF Claimed, ObjectsAtHome
  <2>3. registry[s] # frame[c].ref
    BY <2>1 DEF ObjectsAtHome
  <2> QED  BY <1>1, <2>1, <2>2, <2>3 DEF LosesCommand
<1> QED  BY <1>4, <1>5

\* Its own session goes on tracking the command that its pane holds.
LEMMA OwnSession ==
    ASSUME NothingReset, BusyInv, NEW c \in Calls, Step(c),
           ~EmptyPane(sess[c])
    PROVE  LET s == sess[c] IN
           /\ registry'[s] = registry[s]
           /\ obj'[registry[s]].log = obj[registry[s]].log
<1> DEFINE s == sess[c]  o == registry[s]
<1>0. /\ TypeOK /\ AllFresh /\ NetUp /\ AllTrack /\ OneCommand /\ DeadEmpty
      /\ AllInTurn /\ DoneLogged /\ ForgetDead
  BY DEF BusyInv, PollInv, Inv
<1>1. s \in Sessions /\ Tracked(s) /\ Holds(s, obj[o].log) /\ pane[s].alive
  BY <1>0, Started DEF OneCommand, DeadEmpty
<1>2. LosesObject(c) /\ LosesCommand(c)
  BY <1>0, ResumeLoses
<1>3. ~RunClaim(c)
  BY <1>1 DEF RunClaim
<1>4. pc[c] # "forget"
  BY <1>0, <1>1 DEF ForgetDead
<1>5. pc[c] # "audit"
  BY <1>0 DEF AllFresh, Fresh, NothingReset, TypeOK, CallTypeOK
<1>6. ASSUME pc[c] = "record", op[c] # "kill", result[c].status = "done",
             o = frame[c].ref
      PROVE  FALSE
  <2>1. Logged(frame[c].watch) /\ obj[o].log = frame[c].watch
        /\ frame[c].watch # None
    BY <1>0, <1>6 DEF DoneLogged, AllTrack, Tracks, Polls
  <2>2. frame[c].watch \in Calls
    BY <1>0, <2>1 DEF TypeOK, CallTypeOK, Frame
  <2> QED  BY <1>0, <1>1, <2>1, <2>2 DEF AllInTurn, InTurn
<1>7. o \in Calls
  BY <1>0, <1>1 DEF Tracked, TypeOK, StateTypeOK
<1> QED  BY <1>1, <1>2, <1>3, <1>4, <1>5, <1>6, <1>7
         DEF LosesObject, LosesCommand

LEMMA ResumeOneCommand ==
    ASSUME NothingReset, BusyInv, NEW c \in Calls, Step(c)
    PROVE  OneCommand'
<1> SUFFICES ASSUME NEW s \in Sessions
             PROVE  \/ EmptyPane(s)'
                    \/ /\ Tracked(s)'
                       /\ Holds(s, obj[registry[s]].log)'
  BY DEF OneCommand
<1>0. TypeOK /\ NetUp /\ ObjectsAtHome /\ OneCommand
  BY DEF BusyInv, PollInv, Inv
<1>1. PaneLeft(c) /\ OthersKept(c)
  BY <1>0, ResumePaneLeft, ResumeKeepsOthers
<1>2. ASSUME Same(s), ~EmptyPane(s),
             registry'[s] = registry[s],
             obj'[registry[s]].log = obj[registry[s]].log
      PROVE  Tracked(s)' /\ Holds(s, obj[registry[s]].log)'
  BY <1>0, <1>2
     DEF OneCommand, Same, Tracked, Holds, TypedIn, EnteredIn
<1>3. CASE Same(s) /\ EmptyPane(s)
  BY <1>3 DEF Same, EmptyPane
<1>4. CASE s # sess[c]
  <2>1. Same(s)
    BY <1>1, <1>4 DEF PaneLeft, Same
  <2>2. CASE ~EmptyPane(s)
    <3>1. registry[s] # None
      BY <1>0, <2>2 DEF OneCommand, Tracked
    <3> QED  BY <1>0, <1>2, <1>4, <2>1, <2>2, <3>1, OtherSessions
  <2> QED  BY <1>3, <2>1, <2>2
<1>5. CASE s = sess[c]
  <2>1. CASE Same(s)
    BY <1>2, <1>3, <1>5, <2>1, OwnSession
  <2>2. CASE EmptyPane(s)'
    BY <2>2
  <2>3. CASE /\ pc[c] \in {"type", "enter"} /\ UNCHANGED Objects
             /\ TypedIn(s, c)' \/ EnteredIn(s, c)'
    <3>1. Tracked(s) /\ obj[registry[s]].log = c
      BY <1>5, <2>3, SenderPane DEF Sending
    <3> QED  BY <2>3, <3>1 DEF Objects, Tracked, Holds, TypedIn, EnteredIn
  <2>4. sess' = sess
    BY <1>1 DEF OthersKept
  <2> QED  BY <1>1, <1>5, <2>1, <2>2, <2>3, <2>4 DEF PaneLeft
<1> QED  BY <1>4, <1>5

LEMMA ResumeDeadEmpty ==
    ASSUME BusyInv, NEW c \in Calls, Step(c)
    PROVE  DeadEmpty'
<1> SUFFICES ASSUME NEW s \in Sessions, ~pane'[s].alive
             PROVE  EmptyPane(s)'
  BY DEF DeadEmpty
<1>0. TypeOK /\ DeadEmpty
  BY DEF BusyInv, PollInv, Inv
<1>1. PaneLeft(c) /\ sess' = sess
  BY <1>0, ResumePaneLeft, ResumeKeepsOthers DEF OthersKept
<1> QED  BY <1>0, <1>1 DEF PaneLeft, DeadEmpty, EmptyPane, Same

LEMMA ResumeInTurn ==
    ASSUME BusyInv, NEW c \in Calls, Step(c)
    PROVE  AllInTurn'
<1> SUFFICES ASSUME NEW x \in Calls
             PROVE  InTurn(x)'
  BY DEF AllInTurn
<1>0. TypeOK /\ AllInTurn
  BY DEF BusyInv, PollInv, Inv
<1>1. PaneLeft(c) /\ OthersKept(c) /\ InOrder(c) /\ sess' = sess
  BY <1>0, ResumePaneLeft, ResumeKeepsOthers, ResumeInOrder DEF OthersKept
<1>2. Logged(x)' <=> Logged(x)
  BY <1>0, ResumeWritesNoDone
<1>3. ASSUME NEW s \in Sessions, Holds(s, x)'
      PROVE  \/ Holds(s, x)
             \/ x = c /\ pc[c] = "type" /\ pc'[c] \in {"enter", "cut"}
                /\ ~EnteredIn(s, x)'
  BY <1>1, <1>3 DEF PaneLeft, Same, Holds, TypedIn, EnteredIn, EmptyPane
<1>4. ASSUME NEW s \in Sessions, EnteredIn(s, x)'
      PROVE  \/ EnteredIn(s, x)
             \/ x = c /\ pc[c] = "enter" /\ pc'[c] # "enter"
  <2>1. CASE s # sess[c] \/ Same(sess[c])
    BY <1>1, <1>4, <2>1 DEF PaneLeft, Same, EnteredIn
  <2>2. CASE s = sess[c] /\ ~Same(sess[c])
    BY <1>1, <1>4, <2>2 DEF PaneLeft, TypedIn, EnteredIn, EmptyPane
  <2> QED  BY <2>1, <2>2
<1>5. InTurn(x)
  BY <1>0 DEF AllInTurn
<1>6. CASE x # c
  <2>1. pc'[x] = pc[x]
    BY <1>1, <1>6 DEF OthersKept
  <2> QED  BY <1>2, <1>3, <1>4, <1>5, <1>6, <2>1 DEF InTurn
<1>7. CASE x = c
  <2>1. pc'[c] \in Early => ~Logged(c)' /\ \A s \in Sessions : ~Holds(s, c)'
    BY <1>1, <1>2, <1>3, <1>5, <1>7 DEF InTurn, InOrder, Early
  <2>2. pc'[c] = "enter" =>
            ~Logged(c)' /\ \A s \in Sessions : ~EnteredIn(s, c)'
    <3>1. SUFFICES ASSUME pc'[c] = "enter"
                   PROVE  ~Logged(c)' /\ \A s \in Sessions : ~EnteredIn(s, c)'
      OBVIOUS
    <3>2. pc[c] = "type"
      BY <1>1, <3>1 DEF InOrder
    <3>3. ~Logged(c) /\ \A s \in Sessions : ~EnteredIn(s, c)
      BY <1>5, <1>7, <3>2 DEF InTurn, Early, Holds
    <3> QED  BY <1>2, <1>4, <1>7, <3>2, <3>3
  <2>3. Logged(c)' => \A s \in Sessions : ~Holds(s, c)'
    BY <1>2, <1>3, <1>5, <1>7 DEF InTurn, Early
  <2> QED  BY <1>7, <2>1, <2>2, <2>3 DEF InTurn
<1> QED  BY <1>6, <1>7

LEMMA ResumeSendsTracked ==
    ASSUME RunsOverlap, BusyInv, NEW c \in Calls, Step(c), PollStep(c)
    PROVE  SendsTracked'
<1>0. /\ TypeOK /\ AllFresh /\ LockOwned /\ NetUp /\ ObjectsAtHome /\ Apart
      /\ SendsTracked
  BY DEF BusyInv, PollInv, Inv
<1>1. OthersKept(c) /\ LosesObject(c)
  BY <1>0, ResumeKeepsOthers, ResumeLoses
<1>2. registry \in [Sessions -> Calls \cup {None}] /\ sess[c] \in Sessions
  BY <1>0, Started DEF TypeOK, StateTypeOK
<1> SUFFICES ASSUME NEW d \in Calls, pc'[d] \in Sending \cup {"create"}
             PROVE  registry'[sess[d]] = frame'[d].ref
  BY <1>1 DEF SendsTracked, OthersKept
<1>3. CASE d # c
  <2>1. /\ pc[d] \in Sending \cup {"create"} /\ frame'[d] = frame[d]
        /\ registry[sess[d]] = frame[d].ref
    BY <1>0, <1>1, <1>3 DEF OthersKept, SendsTracked
  <2>2. Outstanding(d) /\ sess[d] \in Sessions
    BY <1>0, <2>1, WorkersOutstanding DEF Works
  <2>3. CASE sess[d] # sess[c]
    BY <1>0, <2>1, <2>2, <2>3, OtherSessions
  <2>4. CASE sess[d] = sess[c]
    <3>1. ~RunClaim(c)
      <4>1. lock[sess[c]] = d
        BY <1>0, <2>1, <2>4 DEF LockOwned, HoldsLock
      <4> QED  BY <1>0, <4>1, ClaimParts
    <3>2. pc[c] # "forget"
      <4>1. Outstanding(c)
        BY <1>0, StepsOutstanding
      <4>2. pc[c] = "forget" => op[c] = "kill"
        BY <1>0 DEF TypeOK, CallHas
      <4> QED  BY <1>0, <1>3, <2>2, <2>4, <4>1, <4>2, KillAlone
    <3> QED  BY <1>1, <2>1, <3>1, <3>2 DEF LosesObject
  <2> QED  BY <2>3, <2>4
<1>4. CASE d = c
  <2>1. ~(Leaves(c) \/ Begins(c) \/ Wakes(c) \/ Pulls(c))
    BY <1>4 DEF Leaves, Works, Begins, Wakes, Pulls, Reports, Sending
  <2>2. CASE Sends(c)
    BY <1>0, <1>4, <2>2 DEF Sends, SendsTracked, Objects
  <2>3. CASE RunClaim(c)
    BY <1>0, <1>2, <1>4, <2>3, ClaimParts
  <2> QED  BY <2>1, <2>2, <2>3 DEF PollStep
<1> QED  BY <1>3, <1>4

LEMMA ResumeDoneLogged ==
    ASSUME BusyInv, NEW c \in Calls, Step(c), PollStep(c)
    PROVE  DoneLogged'
<1>0. PollInv /\ TypeOK /\ DoneLogged
  BY DEF BusyInv, PollInv, Inv
<1>1. OthersKept(c)
  BY <1>0, ResumeKeepsOthers
<1>2. \A x \in Calls : Logged(x) => Logged(x)'
  BY <1>0, ResumeWritesNoDone
<1> SUFFICES ASSUME NEW d \in Calls, pc'[d] = "record", op[d] # "kill",
                    result'[d].status = "done"
             PROVE  Logged(frame[d].watch)'
  BY <1>1 DEF DoneLogged, OthersKept
<1>3. CASE d # c
  <2>1. /\ pc[d] = "record" /\ result[d].status = "done"
        /\ frame'[d] = frame[d]
    BY <1>1, <1>3 DEF OthersKept
  <2>2. Logged(frame[d].watch) /\ frame[d].watch \in Calls
    BY <1>0, <2>1 DEF DoneLogged, PollInv, AllTrack, Tracks, Polls, TypeOK,
                      CallTypeOK, Frame
  <2> QED  BY <1>2, <2>1, <2>2
<1>4. CASE d = c
  <2>1. ~(Leaves(c) \/ Sends(c) \/ Begins(c) \/ Wakes(c) \/ RunClaim(c))
    BY <1>0, <1>1, <1>4, ClaimParts
       DEF Leaves, Works, Polls, Sends, Begins, Wakes, Sending, OthersKept
  <2>2. Pull(c) /\ Keeps(c) /\ Reports(c)
    BY <1>4, <2>1 DEF PollStep, Pulls
  <2>3. PICK i \in 1 .. Len(Text(c)) : Text(c)[i] = Done(frame[c].watch)
    BY <1>4, <2>2 DEF Reports, Prompts
  <2> DEFINE w == obj[frame[c].ref].log
  <2>4. w \in Calls /\ Text(c) = log[w]
    BY <1>0, <2>2, PullTakesAll
  <2>5. Logged(frame[c].watch)
    BY <2>3, <2>4 DEF Logged
  <2>6. frame[c].watch \in Calls
    BY <1>0, <2>2, PullParts, <2>4
       DEF PollInv, AllTrack, Tracks, Polls
  <2> QED  BY <1>2, <1>4, <2>2, <2>5, <2>6 DEF Keeps
<1> QED  BY <1>3, <1>4

LEMMA ResumeForgetDead ==
    ASSUME RunsOverlap, BusyInv, NEW c \in Calls, Step(c)
    PROVE  ForgetDead'
<1>0. TypeOK /\ Apart /\ ForgetDead
  BY DEF BusyInv, PollInv, Inv
<1>1. OthersKept(c) /\ InOrder(c) /\ PaneLeft(c)
  BY <1>0, ResumeKeepsOthers, ResumeInOrder, ResumePaneLeft
<1> SUFFICES ASSUME NEW d \in Calls, pc'[d] = "forget"
             PROVE  ~pane'[sess[d]].alive
  BY <1>1 DEF ForgetDead, OthersKept
<1>2. CASE d = c
  BY <1>0, <1>1, <1>2, Started
     DEF InOrder, ClosePane, NoPane, TypeOK, HostTypeOK
<1>3. CASE d # c
  <2>1. pc[d] = "forget"
    BY <1>1, <1>3 DEF OthersKept
  <2>2. op[d] = "kill" /\ Outstanding(d) /\ sess[d] \in Sessions
    BY <1>0, <2>1 DEF TypeOK, CallHas, Outstanding, Over
  <2>3. sess[d] # sess[c]
    BY <1>0, <1>3, <2>2, StepsOutstanding, KillAlone
  <2> QED  BY <1>0, <1>1, <2>1, <2>2, <2>3 DEF PaneLeft, ForgetDead
<1> QED  BY <1>2, <1>3

-----------------------------------------------------------------------------
(* What the host, the client and the clock preserve.                       *)

\* What a living host leaves in a pane, and the sentinel it may write.
HostLeaves(s) ==
    \/ Same(s) /\ (pane'[s].alive <=> pane[s].alive)
    \/ EmptyPane(s)'
Sentinel(s, x) == EnteredIn(s, x) /\ EmptyPane(s)'

LEMMA HostPanes ==
    ASSUME BusyInv, HostNext, TransportLives, NEW s \in Sessions
    PROVE  HostLeaves(s)
<1>0. HostTypeOK /\ OneCommand /\ pane[s] \in PaneType
  BY DEF BusyInv, PollInv, Inv, TypeOK, HostTypeOK
<1> USE DEF HostLeaves
<1>1. CASE Drop \/ Recover \/ Delist \/ Relist \/ Reboot
  BY <1>1 DEF Drop, Recover, Delist, Relist, Reboot, NoPane, EmptyPane, Same
<1>2. ASSUME NEW r \in Sessions, r # s,
             \/ Output(r) \/ Prompt(r) \/ Answer(r) \/ Finish(r)
             \/ ExecShell(r) \/ OutsideKill(r)
      PROVE  Same(s) /\ (pane'[s].alive <=> pane[s].alive)
  BY <1>0, <1>2 DEF Output, Prompt, Answer, Finish, ExecShell, OutsideKill,
                    ClosePane, Same, HostTypeOK
<1>3. ASSUME pane[s].line # <<>>
      PROVE  \E x : EnteredIn(s, x)
  BY <1>0, <1>3 DEF OneCommand, EmptyPane, Holds, TypedIn
<1>4. CASE Output(s)
  BY <1>4 DEF Output, Same
<1>5. CASE Prompt(s)
  <2> DEFINE p == pane[s]
             n == [p EXCEPT !.typed = <<>>, !.asking = TRUE,
                            !.line = <<Head(p.line)>>]
  <2>1. pane' = [pane EXCEPT ![s] = n]
    BY <1>5 DEF Prompt
  <2>2. PICK x : p.line = <<x>> /\ p.typed = <<>>
    BY <1>3, <1>5 DEF Prompt, Prints, EnteredIn
  <2>3. n.line = <<x>> /\ n.typed = <<>> /\ n.alive = p.alive
    BY <1>0, <2>2 DEF PaneType
  <2> HIDE DEF n
  <2>4. pane'[s] = n
    BY <1>0, <2>1 DEF HostTypeOK
  <2> QED  BY <2>2, <2>3, <2>4 DEF Same
<1>6. CASE Answer(s)
  BY <1>0, <1>6 DEF Answer, Same, PaneType, HostTypeOK
<1>7. CASE Finish(s) \/ ExecShell(s)
  <2>1. PICK x : pane[s].line = <<x>> /\ pane[s].typed = <<>>
    BY <1>3, <1>7 DEF Finish, Prints, ExecShell, EnteredIn
  <2>2. pane'[s].line = Tail(pane[s].line) /\ pane'[s].typed = pane[s].typed
    BY <1>0, <1>7 DEF Finish, ExecShell, PaneType, HostTypeOK
  <2> QED  BY <2>1, <2>2 DEF EmptyPane
<1>8. CASE OutsideKill(s)
  BY <1>0, <1>8 DEF OutsideKill, ClosePane, NoPane, EmptyPane, HostTypeOK
<1> QED  BY <1>1, <1>2, <1>4, <1>5, <1>6, <1>7, <1>8 DEF HostNext

LEMMA HostSentinel ==
    ASSUME BusyInv, HostNext, NEW x \in Calls, Logged(x)', ~Logged(x)
    PROVE  \E s \in Sessions : Sentinel(s, x)
<1>0. HostTypeOK /\ OneCommand /\ HostTypeOK'
  BY HostTyped DEF BusyInv, PollInv, Inv, TypeOK
<1>l. PICK l \in Calls : \E i \in 1 .. Len(log'[l]) : log'[l][i] = Done(x)
  BY DEF Logged
<1>1. PICK i \in 1 .. Len(log'[l]) : log'[l][i] = Done(x)
  BY <1>l
<1>2. log'[l] # log[l]
  BY <1>1 DEF Logged
<1>3. ASSUME NEW s \in Sessions, NEW kind \in {"out", "ask", "done"},
             Write(s, kind)
      PROVE  kind = "done" /\ Head(pane[s].line) = x
  <2> DEFINE t == [kind |-> kind, cmd |-> Head(pane[s].line)]
  <2>1. log \in [Calls -> Seq(Token)]
    BY <1>0 DEF HostTypeOK
  <2>2. log' = [log EXCEPT ![pane[s].pipe] = Append(log[pane[s].pipe], t)]
    BY <1>3 DEF Write
  <2> HIDE DEF t
  <2>3. log'[l] = Append(log[l], t) /\ log[l] \in Seq(Token)
    BY <1>2, <2>1, <2>2
  <2>4. /\ Len(log'[l]) = Len(log[l]) + 1 /\ Len(log[l]) \in Nat
        /\ log'[l][Len(log[l]) + 1] = t
        /\ \A j \in 1 .. Len(log[l]) : log'[l][j] = log[l][j]
    BY <2>3
  <2>5. i \notin 1 .. Len(log[l])
    BY <1>1, <2>4 DEF Logged
  <2>6. t = Done(x)
    BY <1>1, <2>4, <2>5
  <2> QED  BY <2>6 DEF t, Done
<1>4. PICK s \in Sessions : Finish(s)
  BY <1>2, <1>3 DEF HostNext, Output, Prompt, Answer, Prints, ExecShell,
                    OutsideKill, Drop, Reboot, Recover, Delist, Relist
<1>5. pane[s].line # <<>> /\ Head(pane[s].line) = x
  BY <1>3, <1>4 DEF Finish, Prints
<1>6. PICK y : pane[s].line = <<y>> /\ pane[s].typed = <<>>
  BY <1>0, <1>5 DEF OneCommand, EmptyPane, Holds, TypedIn, EnteredIn
<1>7. y = x
  BY <1>5, <1>6
<1>8. pane'[s].line = Tail(pane[s].line) /\ pane'[s].typed = pane[s].typed
  BY <1>0, <1>4 DEF Finish, HostTypeOK, PaneType
<1>9. Sentinel(s, x)
  BY <1>6, <1>7, <1>8 DEF Sentinel, EnteredIn, EmptyPane
<1> QED  BY <1>9

\* So the host and its programs keep what the calls rely on.
LEMMA HostKeepsBusy ==
    ASSUME TransportLives, BusyInv, PollInv', HostNext,
           UNCHANGED <<stateVars, callVars>>
    PROVE  BusyInv'
<1>0. /\ PollInv /\ TypeOK /\ ObjectsAtHome /\ NetUp /\ OneCommand /\ DeadEmpty
      /\ AllInTurn /\ SendsTracked /\ DoneLogged /\ ForgetDead /\ TracksOnce
      /\ HostTypeOK
  BY DEF BusyInv, PollInv, Inv, TypeOK
<1>1. UNCHANGED <<registry, obj, op, sess, pc, frame, result>>
  BY DEF stateVars, callVars
<1>2. \A s \in Sessions : HostLeaves(s)
  BY HostPanes
<1>3. \A x \in Calls :
        Logged(x)' => Logged(x) \/ \E s \in Sessions : Sentinel(s, x)
  BY HostSentinel
<1>4. NetUp'
  <2>1. ~(Drop \/ Reboot \/ Delist)
    BY DEF TransportLives, Drop, Reboot, Delist, Strikes
  <2>2. UNCHANGED <<net, gen, pooled>>
    BY <1>0, <2>1 DEF HostNext, Output, Prompt, Answer, Finish, ExecShell,
       OutsideKill, Recover, Relist, NetUp, netVars
  <2> QED  BY <1>0, <1>1, <2>2 DEF NetUp
<1>5. OneCommand'
  <2> SUFFICES ASSUME NEW s \in Sessions, ~EmptyPane(s)'
               PROVE  Tracked(s)' /\ Holds(s, obj[registry[s]].log)'
    BY DEF OneCommand
  <2>1. Same(s) /\ ~EmptyPane(s)
    BY <1>2 DEF HostLeaves, Same, EmptyPane
  <2> QED  BY <1>0, <1>1, <2>1
           DEF OneCommand, Same, Tracked, Holds, TypedIn, EnteredIn
<1>6. DeadEmpty' /\ ForgetDead'
  <2>1. DeadEmpty'
    BY <1>0, <1>2 DEF DeadEmpty, HostLeaves, Same, EmptyPane
  <2>2. ASSUME NEW s \in Sessions, ~pane[s].alive
        PROVE  ~pane'[s].alive
    <3>1. EmptyPane(s)
      BY <1>0, <2>2 DEF DeadEmpty
    <3>2. pane[s].line = <<>> /\ ~pane[s].asking
      BY <1>0, <3>1 DEF EmptyPane, HostTypeOK
    <3> QED  BY <1>0, <2>2, HostTypesNothing
  <2>3. \A c \in Calls : pc[c] = "forget" => sess[c] \in Sessions
    BY <1>0 DEF TypeOK, CallHas
  <2> QED  BY <1>0, <1>1, <2>1, <2>2, <2>3 DEF ForgetDead
<1>7. AllInTurn'
  <2> SUFFICES ASSUME NEW x \in Calls
               PROVE  InTurn(x)'
    BY DEF AllInTurn
  <2>1. InTurn(x)
    BY <1>0 DEF AllInTurn
  <2>2. \A s \in Sessions : /\ Holds(s, x)' => Holds(s, x)
                            /\ EnteredIn(s, x)' => EnteredIn(s, x)
    BY <1>2 DEF HostLeaves, Same, Holds, TypedIn, EnteredIn, EmptyPane
  <2>3. CASE Logged(x)' => Logged(x)
    BY <1>1, <2>1, <2>2, <2>3 DEF InTurn
  <2>4. ASSUME NEW s \in Sessions, Sentinel(s, x)
        PROVE  InTurn(x)'
    <3>1. EnteredIn(s, x) /\ Holds(s, x) /\ EmptyPane(s)'
      BY <2>4 DEF Sentinel, Holds
    <3>2. pc[x] \notin Early \cup {"enter"}
      BY <2>1, <3>1 DEF InTurn
    <3>3. ASSUME NEW r \in Sessions, Holds(r, x)'
          PROVE  FALSE
      <4>1. Holds(r, x)
        BY <2>2, <3>3
      <4>2. ASSUME NEW q \in Sessions, Holds(q, x)
            PROVE  q = sess[x]
        <5>0. ~EmptyPane(q)
          <6>1. <<x>> # <<>>
            OBVIOUS
          <6> QED  BY <4>2, <6>1 DEF EmptyPane, Holds, TypedIn, EnteredIn
        <5>s. Tracked(q) /\ Holds(q, obj[registry[q]].log)
          BY <1>0, <5>0 DEF OneCommand
        <5>1. registry[q] # None /\ obj[registry[q]].log = x
          BY <4>2, <5>s DEF Tracked, Holds, TypedIn, EnteredIn
        <5>2. registry[q] \in Calls /\ sess[registry[q]] = q
          BY <1>0, <5>1 DEF TypeOK, StateTypeOK, ObjectsAtHome
        <5> QED  BY <1>0, <5>1, <5>2 DEF TracksOnce
      <4>3. r = s
        BY <3>1, <4>1, <4>2
      <4>4. pane'[r].line = <<>> /\ pane'[r].typed = <<>>
        BY <3>1, <4>3 DEF EmptyPane
      <4> QED  BY <3>3, <4>4 DEF Holds, TypedIn, EnteredIn
    <3> QED  BY <1>1, <3>2, <3>3 DEF InTurn
  <2> QED  BY <1>3, <2>3, <2>4
<1>8. SendsTracked'
  BY <1>0, <1>1 DEF SendsTracked
<1>9. DoneLogged'
  <2>1. \A l \in Calls : log'[l] = log[l]
                         \/ \E t \in Token : log'[l] = Append(log[l], t)
    BY <1>0, HostGrows DEF LogGrows
  <2>2. ASSUME NEW x, Logged(x)
        PROVE  Logged(x)'
    <3>1. PICK l \in Calls : \E i \in 1 .. Len(log[l]) : log[l][i] = Done(x)
      BY <2>2 DEF Logged
    <3>2. PICK i \in 1 .. Len(log[l]) : log[l][i] = Done(x)
      BY <3>1
    <3>3. log[l] \in Seq(Token)
      BY <1>0 DEF HostTypeOK
    <3>4. i \in 1 .. Len(log'[l]) /\ log'[l][i] = Done(x)
      <4>1. ASSUME NEW t \in Token, log'[l] = Append(log[l], t)
            PROVE  i \in 1 .. Len(log'[l]) /\ log'[l][i] = Done(x)
        BY <3>2, <3>3, <4>1
      <4> QED  BY <2>1, <3>2, <4>1
    <3> QED  BY <3>4 DEF Logged
  <2> QED  BY <1>0, <1>1, <2>2 DEF DoneLogged
<1> QED  BY <1>4, <1>5, <1>6, <1>7, <1>8, <1>9 DEF BusyInv

LEMMA StartKeepsBusy ==
    ASSUME NothingReset, BusyInv, PollInv', NEW c \in Calls, Start(c)
    PROVE  BusyInv'
<1>0. /\ TypeOK /\ NetUp /\ OneCommand /\ DeadEmpty /\ AllInTurn
      /\ SendsTracked /\ DoneLogged /\ ForgetDead
  BY DEF BusyInv, PollInv, Inv
<1>1. /\ pc[c] = "new" /\ pc'[c] = "get"
      /\ UNCHANGED <<net, gen, pooled, pane, log, registry, obj, frame, result>>
      /\ \A d \in Calls \ {c} :
            op'[d] = op[d] /\ sess'[d] = sess[d] /\ pc'[d] = pc[d]
  <2>1. PICK o \in Ops, s \in Sessions :
            /\ op' = [op EXCEPT ![c] = o] /\ sess' = [sess EXCEPT ![c] = s]
            /\ pc' = [pc EXCEPT ![c] = IF o = "reset" THEN "lock" ELSE "get"]
    BY DEF Start, At
  <2>2. o # "reset"
    BY DEF NothingReset
  <2> QED  BY <1>0, <2>1, <2>2 DEF Start, TypeOK, CallTypeOK, hostVars,
                                   netVars, stateVars
<1>2. NetUp' /\ OneCommand' /\ DeadEmpty'
  BY <1>0, <1>1 DEF NetUp, Connected, Sending, OneCommand, EmptyPane, Tracked,
                    Holds, TypedIn, EnteredIn, DeadEmpty
<1>3. AllInTurn'
  <2> SUFFICES ASSUME NEW x \in Calls
               PROVE  InTurn(x)'
    BY DEF AllInTurn
  <2>1. /\ InTurn(x)
        /\ pc'[x] = pc[x] \/ (pc[x] \in Early /\ pc'[x] \in Early)
    BY <1>0, <1>1 DEF AllInTurn, Early
  <2>2. /\ Logged(x)' <=> Logged(x)
        /\ \A s \in Sessions : /\ Holds(s, x)' <=> Holds(s, x)
                               /\ EnteredIn(s, x)' <=> EnteredIn(s, x)
    BY <1>1 DEF Logged, Holds, TypedIn, EnteredIn
  <2> QED  BY <2>1, <2>2 DEF InTurn, Early
<1>4. SendsTracked' /\ DoneLogged' /\ ForgetDead'
  BY <1>0, <1>1 DEF SendsTracked, Sending, DoneLogged, Logged, ForgetDead
<1> QED  BY <1>2, <1>3, <1>4 DEF BusyInv

\* Nothing that BusyInv adds to PollInv is about the clock.
LEMMA FramesKeepBusy ==
    ASSUME BusyInv, PollInv',
           UNCHANGED <<hostVars, stateVars, op, sess, pc, result>>,
           \A d \in Calls : /\ frame'[d].ref = frame[d].ref
                            /\ frame'[d].watch = frame[d].watch
                            /\ frame'[d].conn = frame[d].conn
    PROVE  BusyInv'
<1>0. /\ NetUp /\ OneCommand /\ DeadEmpty /\ AllInTurn
      /\ SendsTracked /\ DoneLogged /\ ForgetDead
  BY DEF BusyInv
<1>1. UNCHANGED <<net, gen, pooled, pane, log, registry, obj, op, sess, pc,
                  result>>
  BY DEF hostVars, netVars, stateVars
<1>2. NetUp' /\ OneCommand' /\ DeadEmpty'
  BY <1>0, <1>1 DEF NetUp, OneCommand, EmptyPane, Tracked, Holds, TypedIn,
                    EnteredIn, DeadEmpty
<1>3. AllInTurn' /\ ForgetDead'
  BY <1>0, <1>1 DEF AllInTurn, InTurn, Logged, Holds, TypedIn, EnteredIn,
                    ForgetDead
<1>4. SendsTracked' /\ DoneLogged'
  BY <1>0, <1>1 DEF SendsTracked, DoneLogged, Logged
<1> QED  BY <1>2, <1>3, <1>4 DEF BusyInv

LEMMA InitBusy == Init => BusyInv
<1> SUFFICES ASSUME Init PROVE BusyInv
  OBVIOUS
<1>1. PollInv
  BY InitPolls
<1>2. /\ net = "up" /\ gen = 1 /\ pooled = 0
      /\ \A s \in Sessions : pane[s] = NoPane
      /\ \A c \in Calls : pc[c] = "new" /\ log[c] = <<>>
  BY DEF Init, HostInit
<1>3. NetUp /\ OneCommand /\ DeadEmpty /\ SendsTracked /\ DoneLogged
      /\ ForgetDead
  BY <1>2 DEF NetUp, Connected, Sending, OneCommand, DeadEmpty, EmptyPane,
              NoPane, SendsTracked, DoneLogged, ForgetDead
<1>4. AllInTurn
  <2>1. \A x \in Calls : ~Logged(x)
    BY <1>2 DEF Logged
  <2>2. \A s \in Sessions, x \in Calls : ~Holds(s, x)
    BY <1>2 DEF Holds, TypedIn, EnteredIn, NoPane
  <2> QED  BY <1>2, <2>1, <2>2 DEF AllInTurn, InTurn
<1> QED  BY <1>1, <1>3, <1>4 DEF BusyInv

LEMMA NextBusy ==
    ASSUME RunsOverlap, NothingReset, TransportLives, BusyInv, [Next]_vars
    PROVE  BusyInv'
<1>0. OnePoller /\ PollInv
  BY DEF RunsOverlap, OnePoller, BusyInv
<1>1. PollInv'
  BY <1>0, NextPolls
<1>2. ASSUME NEW c \in Calls, Step(c)
      PROVE  BusyInv'
  <2>1. PollStep(c)
    BY <1>0, <1>2, ResumePollStep DEF PollInv, Inv
  <2>2. NetUp'
    BY <1>0, <1>2, ResumeNetUp DEF BusyInv, PollInv, Inv
  <2>3. OneCommand' /\ DeadEmpty' /\ AllInTurn'
    BY <1>2, ResumeOneCommand, ResumeDeadEmpty, ResumeInTurn
  <2>4. SendsTracked' /\ DoneLogged' /\ ForgetDead'
    BY <1>2, <2>1, ResumeSendsTracked, ResumeDoneLogged, ResumeForgetDead
  <2> QED  BY <1>1, <2>2, <2>3, <2>4 DEF BusyInv
<1>3. ASSUME NEW c \in Calls, Expire(c)
      PROVE  BusyInv'
  <2>1. /\ UNCHANGED <<hostVars, stateVars, op, sess, pc, result>>
        /\ frame' = [frame EXCEPT ![c] = [frame[c] EXCEPT !.expired = TRUE]]
    BY <1>0, <1>3
       DEF Expire, Suspend, At, PollInv, Inv, TypeOK, CallTypeOK
  <2>2. \A d \in Calls : /\ frame'[d].ref = frame[d].ref
                         /\ frame'[d].watch = frame[d].watch
                         /\ frame'[d].conn = frame[d].conn
    BY <1>0, <2>1 DEF PollInv, Inv, TypeOK, CallTypeOK, Frame
  <2> QED  BY <1>1, <2>1, <2>2, FramesKeepBusy
<1>4. CASE UNCHANGED vars
  BY <1>1, <1>4, FramesKeepBusy DEF vars, callVars
<1> QED  BY <1>1, <1>2, <1>3, <1>4, StartKeepsBusy, HostKeepsBusy
         DEF Next, Step

\* A pane that runs a command is tracked as busy with that command, so that
\* session_run turns the next one away (sessions.py:170), when only
\* session_run overlaps, nothing is reset and the transport lives; commands
\* may be cancelled, killed from outside, replace their shell, or lose their
\* records.
THEOREM BusyTracked ==
    ASSUME RunsOverlap, NothingReset, TransportLives
    PROVE  Spec => []BusyPaneIsTracked
<1>1. BusyInv => BusyPaneIsTracked
  BY DEF BusyInv, OneCommand, EmptyPane, Holds, TypedIn, EnteredIn,
         BusyPaneIsTracked
<1> QED  BY <1>1, InitBusy, NextBusy, PTL DEF Spec

\* So at most one command runs or waits in a pane
\* (openspec/specs/remote-sessions/spec.md:93).
THEOREM PanesSerial ==
    ASSUME RunsOverlap, NothingReset, TransportLives
    PROVE  Spec => []PaneSerial
<1>1. BusyPaneIsTracked => PaneSerial
  <2>1. Len(<<>>) <= 1 /\ \A x : Len(<<x>>) <= 1
    OBVIOUS
  <2> QED  BY <2>1 DEF BusyPaneIsTracked, PaneSerial
<1> QED  BY <1>1, BusyTracked, PTL
=============================================================================
