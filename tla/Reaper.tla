------------------------------- MODULE Reaper -------------------------------
(***************************************************************************)
(* One maintenance run of ssh.py on one host (_maintain): the sweep of old *)
(* logs, then the reaping of idle tmux sessions, next to the shells,       *)
(* humans and session_runs that use the panes meanwhile.                   *)
(*                                                                         *)
(* The reaper lists the panes in one round trip and judges the rows; the   *)
(* kill command of the second one runs on the host by itself: a pgrep per  *)
(* listed pane, then kill-session, candidate by candidate.  It may go on   *)
(* after the transport is gone.  Which log files a sweep deletes is not    *)
(* modelled, only that it answers or fails.                                *)
(***************************************************************************)
EXTENDS Naturals, FiniteSets

CONSTANTS
    Names,      \* the tmux sessions whose name _REAP_NAME_RE matches
    None,       \* no session
    Timeouts,   \* the values of idle_timeout_hours, in ticks of the clock
    Faults,     \* the faults that may strike, a subset of FaultKinds
    MaxFaults,  \* bound: how many of them strike in a behaviour
    MaxMoves,   \* bound: how many steps the shells, humans and edits take
    MaxTime     \* bound: the last moment of the clock of the host

FaultKinds == {"drop", "tmux", "pgrep", "audit", "exit"}

ASSUME NamesAssumption == IsFiniteSet(Names) /\ None \notin Names \cup Nat
ASSUME FaultsAssumption == Faults \subseteq FaultKinds
ASSUME NumbersAssumption ==
    /\ Timeouts \subseteq Nat
    /\ MaxFaults \in Nat /\ MaxMoves \in Nat /\ MaxTime \in Nat

VARIABLES
    panes,     \* the panes of the host; a session lives while it has one
    attached,  \* the sessions that a client is attached to
    activity,  \* activity[s]: session_activity
    minted,    \* how many pids were given to pane shells
    moves,     \* how many steps the others took
    now,       \* date +%s
    timeout,   \* self._idle_timeout_hours
    alive,     \* whether the transport of the Connection works
    faults,    \* how many faults struck so far
    pc,        \* where the maintenance task is suspended
    ending,    \* how it ended
    limit,     \* the idle_timeout_hours that it was called with
    rows,      \* what list-panes answered
    remote,    \* the kill command on the host
    record,    \* the audit records
    held,      \* history: pids with a child since before the kill command
    watched,   \* history: sessions attached since the panes were listed
    calm,      \* history: candidates that nobody touched since then
    victims    \* history: the panes that the reaper killed

hostVars == <<panes, attached, activity, minted, moves, now, timeout>>
netVars  == <<alive, faults>>
taskVars == <<pc, ending, limit, rows, record>>
histVars == <<held, watched, calm, victims>>
vars     == <<hostVars, netVars, taskVars, remote, histVars>>

\* program: a child runs in the foreground; job: one runs in the background.
Pane == [name : Names, pid : Nat, program : BOOLEAN, job : BOOLEAN]
Row  == [name : Names, pid : Nat, prompt : BOOLEAN, attached : BOOLEAN,
         age : Nat]

\* todo: candidates not looked at yet; at: the one being checked; left: its
\* pids that pgrep has still to clear; out: the names printed.
Remote == [started : BOOLEAN, todo : SUBSET Names, at : Names \cup {None},
           left : SUBSET Nat, out : SUBSET Names]
NoRemote == [started |-> FALSE, todo |-> {}, at |-> None, left |-> {},
             out |-> {}]

Statuses == {"none", "ok", "error"}

TypeOK ==
    /\ panes \subseteq Pane
    /\ \A p \in panes : p.pid <= minted
    /\ \A p, q \in panes : p.pid = q.pid => p = q
    /\ attached \subseteq Names
    /\ activity \in [Names -> Nat] /\ \A s \in Names : activity[s] <= now
    /\ minted \in Nat /\ moves \in Nat /\ now \in Nat /\ timeout \in Timeouts
    /\ alive \in BOOLEAN /\ faults \in Nat
    /\ pc \in {"new", "sweep", "swept", "sweep error", "list", "kill",
               "reaped", "reap error", "end"}
    /\ ending \in {"none", "returned", "raised", "cancelled"}
    /\ limit \in Timeouts \cup {None} /\ rows \subseteq Row
    /\ remote \in Remote /\ (remote.at = None => remote.left = {})
    /\ record \in [sweep : Statuses, reap : Statuses, killed : SUBSET Names]
    /\ held \subseteq Nat
    /\ watched \subseteq Names /\ calm \subseteq Names
    /\ victims \subseteq
            [name : Names, pid : Nat, held : BOOLEAN, watched : BOOLEAN]

Lives(s)  == \E p \in panes : p.name = s
Parent(p) == p.program \/ p.job

FirstPid ==
    CHOOSE pid \in [Names -> 1 .. Cardinality(Names)] :
        \A s, t \in Names : pid[s] = pid[t] => s = t

\* Every session has been left at its prompt at moment 0.
Init ==
    /\ panes = {[name |-> s, pid |-> FirstPid[s], program |-> FALSE,
                 job |-> FALSE] : s \in Names}
    /\ attached = {}
    /\ activity = [s \in Names |-> 0]
    /\ minted = Cardinality(Names)
    /\ moves = 0
    /\ now = 0
    /\ timeout \in Timeouts
    /\ alive = TRUE
    /\ faults = 0
    /\ pc = "new"
    /\ ending = "none"
    /\ limit = None
    /\ rows = {}
    /\ remote = NoRemote
    /\ record = [sweep |-> "none", reap |-> "none", killed |-> {}]
    /\ held = {} /\ watched = {} /\ calm = {} /\ victims = {}

Strikes(f) ==
    /\ f \in Faults
    /\ faults < MaxFaults
    /\ faults' = faults + 1

-----------------------------------------------------------------------------
(* The panes: what session_run, the shells and humans do with them.        *)

Move == moves < MaxMoves /\ moves' = moves + 1

\* A key or a child changes the pane p to q: its session is not as it was.
Becomes(p, q) ==
    /\ Move
    /\ panes' = (panes \ {p}) \cup {q}
    /\ calm' = calm \ {p.name}
    /\ held' = IF Parent(q)
               THEN IF remote.started THEN held ELSE held \cup {q.pid}
               ELSE held \ {q.pid}
    /\ UNCHANGED <<attached, minted, now, timeout, netVars, taskVars, remote,
                   watched, victims>>

\* The shell starts a program; tmux may count the keystrokes as activity.
Launch(p) ==
    /\ \/ ~p.program /\ Becomes(p, [p EXCEPT !.program = TRUE])
       \/ ~p.program /\ ~p.job /\ Becomes(p, [p EXCEPT !.job = TRUE])
    /\ \E t \in {activity[p.name], now} :
        activity' = [activity EXCEPT ![p.name] = t]

Exit(p) ==
    /\ \/ p.program /\ Becomes(p, [p EXCEPT !.program = FALSE])
       \/ p.job /\ Becomes(p, [p EXCEPT !.job = FALSE])
    /\ UNCHANGED activity

\* new-session of a session_run, or a human splits a window.
Create(s) ==
    /\ Move
    /\ minted' = minted + 1
    /\ panes' = panes \cup {[name |-> s, pid |-> minted', program |-> FALSE,
                             job |-> FALSE]}
    /\ activity' = [activity EXCEPT ![s] = now]
    /\ calm' = calm \ {s}
    /\ UNCHANGED <<attached, now, timeout, netVars, taskVars, remote, held,
                   watched, victims>>

\* A human attaches to a session, or detaches.
Attach(s) ==
    /\ Lives(s) /\ Move
    /\ attached' = (attached \cup {s}) \ (attached \cap {s})
    /\ watched' = watched \cap attached'
    /\ activity' = [activity EXCEPT ![s] = now]
    /\ calm' = calm \ {s}
    /\ UNCHANGED <<panes, minted, now, timeout, netVars, taskVars, remote,
                   held, victims>>

\* kill-session; the pids of its panes are not used again.
Gone(s) ==
    /\ panes' = {p \in panes : p.name # s}
    /\ attached' = attached \ {s}
    /\ watched' = watched \ {s}
    /\ held' = held \ {p.pid : p \in {q \in panes : q.name = s}}
    /\ calm' = calm \ {s}
    /\ UNCHANGED <<activity, minted, now, timeout>>

\* session_kill, or a human, kills a session.
Close(s) ==
    /\ Lives(s) /\ Move
    /\ Gone(s)
    /\ UNCHANGED <<netVars, taskVars, remote, victims>>

Tick ==
    /\ now < MaxTime
    /\ now' = now + 1
    /\ UNCHANGED <<panes, attached, activity, minted, moves, timeout, netVars,
                   taskVars, remote, histVars>>

\* hosts() reloads another idle_timeout_hours.
Retime ==
    /\ Move
    /\ timeout' \in Timeouts \ {timeout}
    /\ UNCHANGED <<panes, attached, activity, minted, now, netVars, taskVars,
                   remote, histVars>>

Drop ==
    /\ alive /\ Strikes("drop")
    /\ alive' = FALSE
    /\ UNCHANGED <<hostVars, taskVars, remote, histVars>>

-----------------------------------------------------------------------------
(* The maintenance task, from one await to the next.                       *)

At(p) == pc' = p

\* _reap_idle_sessions is called: 0 hours disable it.
Reap ==
    /\ limit' = timeout
    /\ IF timeout = 0 THEN At("end") /\ ending' = "returned"
                      ELSE At("list") /\ UNCHANGED ending

Begin ==
    /\ pc = "new"
    /\ At("sweep")
    /\ UNCHANGED <<hostVars, netVars, ending, limit, rows, record, remote,
                   histVars>>

\* find answers, with any exit status, or the transport is gone.
Sweep ==
    /\ pc = "sweep"
    /\ At(IF alive THEN "swept" ELSE "sweep error")
    /\ UNCHANGED <<hostVars, netVars, ending, limit, rows, record, remote,
                   histVars>>

SweepRecorded ==
    /\ pc \in {"swept", "sweep error"}
    /\ record' = [record EXCEPT !.sweep = IF pc = "swept" THEN "ok" ELSE "error"]
    /\ Reap
    /\ UNCHANGED <<hostVars, netVars, rows, remote, histVars>>

\* A row is idle: no client, a prompt, the last activity before the cutoff.
Idle(r) == ~r.attached /\ r.age > limit /\ r.prompt

\* select_idle_sessions
Candidates(listing) ==
    {s \in Names :
        /\ \E r \in listing : r.name = s
        /\ \A r \in listing : r.name = s => Idle(r)}

\* list-panes answers, and the candidates are chosen.
List ==
    LET listing == {[name |-> p.name, pid |-> p.pid, prompt |-> ~p.program,
                     attached |-> p.name \in attached,
                     age |-> now - activity[p.name]] : p \in panes}
    IN
    /\ pc = "list" /\ alive
    /\ rows' = listing
    /\ IF Candidates(listing) = {} THEN At("reaped") /\ UNCHANGED remote
       ELSE At("kill") /\ remote' = [NoRemote EXCEPT !.todo = Candidates(listing)]
    /\ watched' = attached
    /\ calm' = {s \in Names :
            /\ Lives(s) /\ s \notin attached /\ now - activity[s] > limit
            /\ \A p \in panes : p.name = s => ~Parent(p)}
    /\ UNCHANGED <<hostVars, netVars, ending, limit, record, held, victims>>

\* The transport is gone, or tmux fails other than by having no server.
ListFails ==
    /\ pc = "list"
    /\ \/ ~alive /\ UNCHANGED faults
       \/ alive /\ Strikes("tmux")
    /\ At("reap error")
    /\ UNCHANGED <<hostVars, alive, ending, limit, rows, record, remote, histVars>>

Done == remote.todo = {} /\ remote.at = None

\* Mutant of Killed: nobody notices that the transport died.
KilledNeverLost ==
    /\ pc = "kill" /\ alive /\ Done /\ At("reaped")
    /\ UNCHANGED <<hostVars, netVars, ending, limit, rows, record, remote,
                   histVars>>

\* The kill command is answered, or the transport dies under it.
Killed ==
    /\ pc = "kill"
    /\ \/ alive /\ Done /\ At("reaped")
       \/ ~alive /\ At("reap error")
    /\ UNCHANGED <<hostVars, netVars, ending, limit, rows, record, remote,
                   histVars>>

ReapRecorded ==
    /\ pc \in {"reaped", "reap error"}
    /\ record' = IF pc = "reaped"
                 THEN [record EXCEPT !.reap = "ok", !.killed = remote.out]
                 ELSE [record EXCEPT !.reap = "error"]
    /\ At("end")
    /\ ending' = "returned"
    /\ UNCHANGED <<hostVars, netVars, limit, rows, remote, histVars>>

\* The record cannot be written: `except Exception' writes another one, and
\* when that fails too the exception leaves _maintain.
RecordFails ==
    /\ pc \in {"swept", "sweep error", "reaped", "reap error"}
    /\ Strikes("audit")
    /\ IF pc \in {"swept", "reaped"}
       THEN /\ At(IF pc = "swept" THEN "sweep error" ELSE "reap error")
            /\ UNCHANGED ending
       ELSE At("end") /\ ending' = "raised"
    /\ UNCHANGED <<hostVars, alive, limit, rows, record, remote, histVars>>

\* The server exits: asyncio.run cancels the task.
Cancelled ==
    /\ pc \notin {"new", "end"}
    /\ Strikes("exit")
    /\ alive' = FALSE
    /\ At("end")
    /\ ending' = "cancelled"
    /\ UNCHANGED <<hostVars, limit, rows, record, remote, histVars>>

-----------------------------------------------------------------------------
(* The kill command on the host.                                           *)

\* The shell comes to the next candidate.
NextCandidate(s) ==
    /\ remote.at = None /\ s \in remote.todo
    /\ remote' = [remote EXCEPT !.started = TRUE, !.todo = @ \ {s}, !.at = s,
            !.left = {r.pid : r \in {q \in rows : q.name = s}}]
    /\ UNCHANGED <<hostVars, netVars, taskVars, histVars>>

Children(pid) == \E p \in panes : p.pid = pid /\ Parent(p)

\* Mutant of Skip: no other candidate is looked at.
SkipStopsAll == remote' = [remote EXCEPT !.at = None, !.left = {}, !.todo = {}]

Skip == remote' = [remote EXCEPT !.at = None, !.left = {}]

\* pgrep -P exits 1 for no children, also of a pid that is gone; with any
\* other status the session is left alone.
Pgrep(pid) ==
    /\ pid \in remote.left
    /\ \/ /\ ~Children(pid)
          /\ remote' = [remote EXCEPT !.left = @ \ {pid}]
          /\ UNCHANGED <<faults, calm>>
       \/ Children(pid) /\ Skip /\ UNCHANGED <<faults, calm>>
       \/ Strikes("pgrep") /\ Skip /\ calm' = calm \ {remote.at}
    /\ UNCHANGED <<hostVars, alive, taskVars, held, watched, victims>>

\* kill-session by name takes the panes that s has now; what is printed.
Kills(s, printed) ==
    /\ Gone(s)
    /\ remote' = [remote EXCEPT !.at = None, !.left = {},
                                !.out = @ \cup printed]
    /\ victims' = victims \cup
            {[name |-> s, pid |-> p.pid, held |-> p.pid \in held,
              watched |-> s \in watched] : p \in {q \in panes : q.name = s}}
    /\ UNCHANGED <<moves, netVars, taskVars>>

\* Mutants of KillSession: the name is printed whether or not it was there;
\* pgrep is not waited for.
KillSessionPrintsAlways ==
    remote.at # None /\ remote.left = {} /\ Kills(remote.at, {remote.at})
KillSessionUnchecked ==
    remote.at # None /\ Kills(remote.at, {remote.at} \cap {p.name : p \in panes})

KillSession ==
    LET s == remote.at IN
    /\ s # None /\ remote.left = {}
    /\ Kills(s, IF Lives(s) THEN {s} ELSE {})

Task ==
    \/ Sweep \/ SweepRecorded \/ List \/ ListFails \/ Killed
    \/ ReapRecorded \/ RecordFails

Kill ==
    \/ \E s \in Names : NextCandidate(s)
    \/ \E pid \in remote.left : Pgrep(pid)
    \/ KillSession

Next ==
    \/ \E p \in panes : Launch(p) \/ Exit(p)
    \/ \E s \in Names : Create(s) \/ Attach(s) \/ Close(s)
    \/ Tick \/ Retime \/ Drop
    \/ Begin \/ Task \/ Cancelled
    \/ Kill

Spec == Init /\ [][Next]_vars

\* The event loop resumes the task; a host that can be reached runs the shell.
Fairness == WF_vars(Task) /\ WF_vars(alive /\ Kill)
LiveSpec == Spec /\ Fairness

-----------------------------------------------------------------------------
\* No listed pane that the reaper kills has a child that runs since before the
\* kill command reached the host, in the foreground or as a background job,
\* and none is of a session that a client was attached to when the panes were
\* listed and ever since; none was active within the timeout when listed
\* (ssh.py:419-423, docs/configuration.md:66-71).
OnlyIdleIsReaped ==
    \A v \in victims, r \in rows :
        v.name = r.name /\ v.pid = r.pid
            => ~v.held /\ ~v.watched /\ r.age > limit /\ limit > 0

\* An `ok' record names exactly the sessions that this run killed, also when
\* humans kill and session_runs recreate them meanwhile (ssh.py:437-448).
RecordTellsKills ==
    record.reap = "ok" => record.killed = {v.name : v \in victims}

\* A session that could be reaped when the panes were listed, and that nobody
\* touched since, is gone when the run is recorded `ok'
\* (openspec/specs/remote-sessions/spec.md:137-140).
IdleIsReaped == record.reap = "ok" => calm = {}

\* The maintenance ends.
MaintenanceEnds == <>[](pc \in {"new", "end"})
=============================================================================
