----------------------------- MODULE RemoteHost -----------------------------
(***************************************************************************)
(* What sessions.py relies on outside src/: one managed host with its      *)
(* tmux panes, the shell in each pane, the per-command log files, and the  *)
(* SSH transport to it.                                                    *)
(*                                                                         *)
(* A call of the MCP server mints at most one ULID (sessions.py:179), so   *)
(* a call also names the command it types and the log file of that         *)
(* command: `log[c]' is ~/.tai-ssh/logs/<ULID minted by c>.log.  The bytes *)
(* of a log are tokens: a chunk of output, a prompt that waits for an      *)
(* answer, or the DONE sentinel of a command.                              *)
(***************************************************************************)
EXTENDS Naturals, Sequences

CONSTANTS
    Calls,      \* the tool calls of a behaviour, and what they mint
    Sessions,   \* the session ids <host>/<name> on this host
    None,       \* absent entry
    Faults,     \* the faults that may strike, a subset of FaultKinds
    MaxFaults,  \* bound: how many of them strike in a behaviour
    MaxLog      \* bound: tokens in a log after which no more is printed

FaultKinds ==
    {"drop", "reboot", "delist", "kill", "exec", "cancel", "disk"}

ASSUME NoneAssumption == None \notin Calls
ASSUME FaultsAssumption == Faults \subseteq FaultKinds
ASSUME BoundsAssumption == MaxFaults \in Nat /\ MaxLog \in Nat

VARIABLES
    net,     \* whether the host answers
    gen,     \* number of the transport that can carry commands now
    pooled,  \* transport in ConnectionPool's cache, 0 if none or marked dead
    listed,  \* whether the host's alias is in the allowlist
    faults,  \* how many faults struck so far
    pane,    \* pane[s]: the pane of tmux session tai/<name>
    log      \* log[c]: the contents of a log file

netVars  == <<net, gen, pooled, listed, faults>>
hostVars == <<netVars, pane, log>>

Token == [kind : {"out", "ask", "done"}, cmd : Calls]
Done(c) == [kind |-> "done", cmd |-> c]

\* pipe is the log that `tmux pipe-pane' appends to; typed the keystrokes
\* waiting for Enter; line the commands entered and not finished, of which
\* the first runs and the others are typed-ahead; asking says that the
\* running program reads the terminal.
PaneType ==
    [alive : BOOLEAN, pipe : Calls \cup {None}, typed : Seq(Calls),
     line : Seq(Calls), asking : BOOLEAN]

NoPane ==
    [alive |-> FALSE, pipe |-> None, typed |-> <<>>, line |-> <<>>,
     asking |-> FALSE]

HostTypeOK ==
    /\ net \in {"up", "down"}
    /\ gen \in Nat
    /\ pooled \in Nat
    /\ listed \in BOOLEAN
    /\ faults \in Nat
    /\ pane \in [Sessions -> PaneType]
    /\ \A s \in Sessions : pane[s].asking => pane[s].line # <<>>
    /\ log \in [Calls -> Seq(Token)]

HostInit ==
    /\ net = "up"
    /\ gen = 1
    /\ pooled = 0
    /\ listed = TRUE
    /\ faults = 0
    /\ pane = [s \in Sessions |-> NoPane]
    /\ log = [c \in Calls |-> <<>>]

-----------------------------------------------------------------------------
(* The transport, as the callers of ConnectionPool.get see it.             *)

\* A command sent over transport k reaches the host and is answered.
Alive(k) == net = "up" /\ k = gen

\* What pool.get() returns: the cached transport unless it is marked dead,
\* else one it opens now.
Conn == IF pooled # 0 THEN pooled ELSE gen

Get ==
    /\ listed
    /\ pooled # 0 \/ net = "up"
    /\ pooled' = Conn
    /\ UNCHANGED <<net, gen, listed, faults>>

\* pool.get() has to open a transport and cannot.
CannotOpen == listed /\ pooled = 0 /\ net = "down"

\* Connection.run over the dead transport k marks that Connection dead.
MarkDead(k) ==
    /\ pooled' = IF pooled = k THEN 0 ELSE pooled
    /\ UNCHANGED <<net, gen, listed, faults>>

-----------------------------------------------------------------------------
(* The tmux commands that sessions.py sends.                               *)

\* has-session || new-session; pipe-pane; pipe-pane 'cat >> <log of c>'
EnsurePane(s, c) ==
    pane' = [pane EXCEPT ![s] =
        IF @.alive THEN [@ EXCEPT !.pipe = c]
                   ELSE [NoPane EXCEPT !.alive = TRUE, !.pipe = c]]

\* send-keys -l <wrapped command of c>
TypeInto(s, c) == pane' = [pane EXCEPT ![s].typed = Append(@, c)]

\* The running command writes a token through the pipe of its pane.
Write(s, kind) ==
    log' = [log EXCEPT ![pane[s].pipe] =
                Append(@, [kind |-> kind, cmd |-> Head(pane[s].line)])]

\* send-keys Enter: a program that reads the terminal takes the typed line as
\* its answer; otherwise the line is for the shell, now or when it is free.
PressEnter(s) ==
    LET p == pane[s] IN
    IF p.asking
    THEN /\ pane' = [pane EXCEPT ![s] = [p EXCEPT !.typed = <<>>,
                                                  !.asking = FALSE]]
         /\ Write(s, "out")
    ELSE /\ pane' = [pane EXCEPT ![s] = [p EXCEPT !.typed = <<>>,
                                                  !.line = p.line \o p.typed]]
         /\ UNCHANGED log

\* kill-session: the shell and what runs in it die with the pane.
ClosePane(s) == pane' = [pane EXCEPT ![s] = NoPane]

-----------------------------------------------------------------------------
(* What the pane's programs, the human at the host and the network do.     *)

Prints(s, kind) ==
    /\ pane[s].line # <<>>
    /\ ~pane[s].asking
    /\ Write(s, kind)

Output(s) ==
    /\ Prints(s, "out")
    /\ Len(log[pane[s].pipe]) < MaxLog
    /\ UNCHANGED <<netVars, pane>>

\* The program prompts (sudo, ssh, apt) and flushes what was typed ahead.
Prompt(s) ==
    /\ Prints(s, "ask")
    /\ Len(log[pane[s].pipe]) < MaxLog
    /\ pane' = [pane EXCEPT ![s] = [@ EXCEPT !.typed = <<>>, !.asking = TRUE,
                                             !.line = <<Head(pane[s].line)>>]]
    /\ UNCHANGED netVars

\* A human attached to the pane answers the prompt.
Answer(s) ==
    /\ pane[s].asking
    /\ pane' = [pane EXCEPT ![s].asking = FALSE]
    /\ Write(s, "out")
    /\ UNCHANGED netVars

\* The running command ends, and printf writes its sentinel.
Finish(s) ==
    /\ Prints(s, "done")
    /\ pane' = [pane EXCEPT ![s].line = Tail(@)]
    /\ UNCHANGED netVars

Strikes(f) ==
    /\ f \in Faults
    /\ faults < MaxFaults
    /\ faults' = faults + 1

\* The running command replaces the shell (`exec sh'): no sentinel, ever.
ExecShell(s) ==
    /\ Strikes("exec")
    /\ pane[s].line # <<>>
    /\ ~pane[s].asking
    /\ pane' = [pane EXCEPT ![s].line = Tail(@)]
    /\ UNCHANGED <<net, gen, pooled, listed, log>>

\* An operator, or the idle reaper, kills the tmux session.
OutsideKill(s) ==
    /\ Strikes("kill")
    /\ pane[s].alive
    /\ ClosePane(s)
    /\ UNCHANGED <<net, gen, pooled, listed, log>>

\* The transport breaks; tmux and its panes live on.
Drop ==
    /\ Strikes("drop")
    /\ net = "up"
    /\ net' = "down"
    /\ gen' = gen + 1
    /\ UNCHANGED <<pooled, listed, pane, log>>

\* The host restarts: transport and panes are gone, log files are not.
Reboot ==
    /\ Strikes("reboot")
    /\ net = "up"
    /\ net' = "down"
    /\ gen' = gen + 1
    /\ pane' = [s \in Sessions |-> NoPane]
    /\ UNCHANGED <<pooled, listed, log>>

Recover ==
    /\ net = "down"
    /\ net' = "up"
    /\ UNCHANGED <<gen, pooled, listed, faults, pane, log>>

\* hosts.toml is edited and reloaded: the alias leaves the allowlist and its
\* transport is closed, or it comes back.
Delist ==
    /\ Strikes("delist")
    /\ listed
    /\ listed' = FALSE
    /\ pooled' = 0
    /\ gen' = gen + 1
    /\ UNCHANGED <<net, pane, log>>

Relist ==
    /\ ~listed
    /\ listed' = TRUE
    /\ UNCHANGED <<net, gen, pooled, faults, pane, log>>

HostNext ==
    \/ \E s \in Sessions :
        \/ Output(s) \/ Prompt(s) \/ Answer(s) \/ Finish(s)
        \/ ExecShell(s) \/ OutsideKill(s)
    \/ Drop \/ Reboot \/ Recover \/ Delist \/ Relist
=============================================================================
