--------------------------- MODULE ConnectionPool ---------------------------
(***************************************************************************)
(* ConnectionPool of ssh.py, and the reload of hosts.toml that server.py   *)
(* makes it apply: get(alias) opens, checks and caches one connection per  *)
(* alias, update_hosts swaps the allowlist and evicts what changed.        *)
(*                                                                         *)
(* A step is what a task does between two suspensions.  A free lock is     *)
(* taken without suspending; an eviction suspends while the transport      *)
(* closes.  The three round trips of the bootstrap are one suspension, and *)
(* a reload may be suspended between two aliases it evicts.                *)
(***************************************************************************)
EXTENDS Naturals, Sequences

CONSTANTS
    Gets,        \* the tool calls that need a connection; each opens at most
                 \* one, so a call also names the Connection it opened
    Reloads,     \* the calls of hosts()
    Aliases,     \* the aliases that hosts.toml may list
    None,        \* absent entry
    Faults,      \* the faults that may strike, a subset of FaultKinds
    MaxFaults,   \* bound: how many of them strike in a behaviour
    MaxEdits,    \* bound: how often hosts.toml is edited
    Interval,    \* _MAINTENANCE_INTERVAL_S
    MaxTime      \* bound: the last moment of the clock

FaultKinds == {"connect", "tmux", "break", "cancel", "toml"}

ASSUME TasksAssumption == None \notin Gets \cup Reloads \cup Aliases
ASSUME DisjointAssumption == Gets \cap Reloads = {}
ASSUME FaultsAssumption == Faults \subseteq FaultKinds
ASSUME NumbersAssumption ==
    MaxFaults \in Nat /\ MaxEdits \in Nat /\ MaxTime \in Nat
        /\ Interval \in Nat \ {0}

Tasks == Gets \cup Reloads

VARIABLES
    disk,     \* disk[a]: the entry of a in hosts.toml
    hosts,    \* hosts[a]: its entry in the allowlist in memory
    cached,   \* self._connections: alias -> Connection
    ready,    \* self._ready
    lock,     \* self._locks: alias -> the task that holds it
    last,     \* self._last_maintenance, 0 if the alias has none
    conn,     \* conn[c]: the Connection that call c opened
    serving,  \* whether the server still takes calls
    now,      \* the monotonic clock
    faults,   \* how many faults struck so far
    pc,       \* pc[t]: where task t is suspended
    alias,    \* alias[t]: the alias it works on
    todo,     \* todo[r]: the aliases reload r has still to evict
    served,   \* served[c]: the Connection that get returned to c
    outcome,  \* outcome[c]: how call c ended
    runs,     \* history: when maintenance was started, per alias
    applied,  \* history: the edition of an alias that a finished reload read
    atStart   \* atStart[t]: history, what was so when task t started

fileVars == <<disk, serving, now, faults>>
poolVars == <<cached, ready, lock, conn>>
mainVars == <<last, runs>>
taskVars == <<pc, alias, todo, served, outcome>>
histVars == <<applied, atStart>>
vars == <<fileVars, hosts, poolVars, mainVars, taskVars, histVars>>

\* Every edit of an entry gives it parameters it never had.
Entry == [edition : Nat, listed : BOOLEAN]

\* host is the edition of the Host it was opened with; home says that
\* _ensure_ready ran, dead is the flag of Connection.
Connection ==
    [state : {"none", "open", "broken", "closed"}, host : Nat,
     home : BOOLEAN, dead : BOOLEAN]
NoConnection == [state |-> "none", host |-> 0, home |-> FALSE, dead |-> FALSE]

Holding == {"evict", "open", "ready", "abort", "close"}
PCs == {"new", "lock", "using", "next", "end"} \cup Holding
Outcomes == {"none", "ok", "rejected", "keyerror", "unreachable", "tmux",
             "cancelled"}

\* floor: the edition of its alias that finished reloads put in force; base:
\* that of the allowlist; calm: no reload had its alias to evict, or, of a
\* reload, it met no other and was not cancelled; goal: what a reload read.
History == [floor : Nat, base : Nat, calm : BOOLEAN, goal : [Aliases -> Nat]]
NoHistory == [floor |-> 0, base |-> 0, calm |-> TRUE,
              goal |-> [a \in Aliases |-> 0]]

FileTypeOK ==
    /\ disk \in [Aliases -> Entry] /\ hosts \in [Aliases -> Entry]
    /\ serving \in BOOLEAN /\ now \in Nat /\ faults \in Nat
PoolTypeOK ==
    /\ cached \in [Aliases -> Gets \cup {None}]
    /\ ready \subseteq Aliases
    /\ lock \in [Aliases -> Tasks \cup {None}]
    /\ conn \in [Gets -> Connection]
    /\ last \in [Aliases -> Nat] /\ runs \in [Aliases -> Seq(Nat)]
TaskTypeOK ==
    /\ pc \in [Tasks -> PCs]
    /\ alias \in [Tasks -> Aliases \cup {None}]
    /\ todo \in [Reloads -> SUBSET Aliases]
    /\ served \in [Gets -> Gets \cup {None}]
    /\ outcome \in [Gets -> Outcomes]
    /\ applied \in [Aliases -> Nat] /\ atStart \in [Tasks -> History]

\* What a task needs when it is resumed.
TaskHas(t) ==
    /\ pc[t] \in Holding \cup {"lock", "using"} => alias[t] \in Aliases
    /\ pc[t] = "using" => t \in Gets /\ served[t] \in Gets
    /\ pc[t] = "ready" => t \in Gets /\ cached[alias[t]] \in Gets

TypeOK ==
    /\ FileTypeOK /\ PoolTypeOK /\ TaskTypeOK
    /\ \A t \in Tasks : TaskHas(t)

Init ==
    /\ disk = [a \in Aliases |-> [edition |-> 1, listed |-> TRUE]]
    /\ hosts = disk
    /\ cached = [a \in Aliases |-> None]
    /\ ready = {}
    /\ lock = [a \in Aliases |-> None]
    /\ last = [a \in Aliases |-> 0]
    /\ conn = [c \in Gets |-> NoConnection]
    /\ serving = TRUE
    /\ now = 1
    /\ faults = 0
    /\ pc = [t \in Tasks |-> "new"]
    /\ alias = [t \in Tasks |-> None]
    /\ todo = [r \in Reloads |-> {}]
    /\ served = [c \in Gets |-> None]
    /\ outcome = [c \in Gets |-> "none"]
    /\ runs = [a \in Aliases |-> <<>>]
    /\ applied = [a \in Aliases |-> 1]
    /\ atStart = [t \in Tasks |-> NoHistory]

-----------------------------------------------------------------------------
\* asyncio.Lock: a free lock is taken at once unless someone waits for it.
Free(a) == lock[a] = None
Contended(a) ==
    ~Free(a) \/ \E t \in Tasks : pc[t] = "lock" /\ alias[t] = a

Take(a, t) == lock' = [lock EXCEPT ![a] = t]
Leave(a)   == lock' = [lock EXCEPT ![a] = None]
At(t, p)   == pc' = [pc EXCEPT ![t] = p]

\* Call c ends with outcome o.
Ends(c, o) ==
    /\ At(c, "end")
    /\ outcome' = [outcome EXCEPT ![c] = o]
    /\ UNCHANGED served

\* Mutants of Evict: the alias stays ready; the transport stays open.
EvictKeepsReady(a) ==
    /\ cached' = [cached EXCEPT ![a] = None]
    /\ conn' = [c \in Gets |->
            IF c = cached[a] THEN [conn[c] EXCEPT !.state = "closed"]
                             ELSE conn[c]]
    /\ UNCHANGED ready
EvictLeavesOpen(a) ==
    /\ cached' = [cached EXCEPT ![a] = None]
    /\ ready' = ready \ {a}
    /\ UNCHANGED conn

\* _evict up to the point where it waits for the transport to close.
Evict(a) ==
    /\ cached' = [cached EXCEPT ![a] = None]
    /\ ready' = ready \ {a}
    /\ conn' = [c \in Gets |->
            IF c = cached[a] THEN [conn[c] EXCEPT !.state = "closed"]
                             ELSE conn[c]]

\* Mutant of Schedule: every get starts a maintenance run.
ScheduleAlways(a) ==
    /\ last' = [last EXCEPT ![a] = now]
    /\ runs' = [runs EXCEPT ![a] = Append(@, now)]

\* _schedule_maintenance
Schedule(a) ==
    IF last[a] # 0 /\ now - last[a] < Interval
    THEN UNCHANGED mainVars
    ELSE /\ last' = [last EXCEPT ![a] = now]
         /\ runs' = [runs EXCEPT ![a] = Append(@, now)]

\* get returns Connection k to call c, and gives the lock back.
Serve(c, a, k) ==
    /\ Schedule(a)
    /\ Leave(a)
    /\ At(c, "using")
    /\ served' = [served EXCEPT ![c] = k]
    /\ UNCHANGED outcome

\* _open up to the connect, or the KeyError of an alias that is gone.
Open(c, a) ==
    IF hosts[a].listed
    THEN /\ Take(a, c)
         /\ At(c, "open")
         /\ conn' = [conn EXCEPT ![c].host = hosts[a].edition]
         /\ UNCHANGED <<served, outcome>>
    ELSE /\ Leave(a)
         /\ Ends(c, "keyerror")
         /\ UNCHANGED conn

\* What get does once it has the lock, up to its next suspension.
EnterEvict(c, a) ==
    /\ cached[a] # None /\ conn[cached[a]].dead
    /\ Evict(a) /\ Take(a, c) /\ At(c, "evict")
    /\ UNCHANGED <<mainVars, served, outcome>>
EnterOpen(c, a) ==
    /\ cached[a] = None
    /\ Open(c, a)
    /\ UNCHANGED <<cached, ready, mainVars>>
EnterCheck(c, a) ==
    /\ cached[a] # None /\ ~conn[cached[a]].dead /\ a \notin ready
    /\ Take(a, c) /\ At(c, "ready")
    /\ UNCHANGED <<cached, ready, conn, mainVars, served, outcome>>
EnterServe(c, a) ==
    /\ cached[a] # None /\ ~conn[cached[a]].dead /\ a \in ready
    /\ Serve(c, a, cached[a])
    /\ UNCHANGED <<cached, ready, conn>>
Enter(c, a) ==
    EnterEvict(c, a) \/ EnterOpen(c, a) \/ EnterCheck(c, a) \/ EnterServe(c, a)

-----------------------------------------------------------------------------
(* A tool call gets a connection and uses it.                              *)

Begin(c, a) ==
    /\ pc[c] = "new" /\ serving
    /\ alias' = [alias EXCEPT ![c] = a]
    /\ atStart' = [atStart EXCEPT ![c] =
            [NoHistory EXCEPT !.floor = applied[a], !.base = hosts[a].edition,
                              !.calm = \A r \in Reloads : a \notin todo[r]]]
    /\ UNCHANGED <<fileVars, hosts, todo, applied>>

GetRejected(c) ==
    \E a \in Aliases :
        /\ Begin(c, a)
        /\ ~hosts[a].listed
        /\ Ends(c, "rejected")
        /\ UNCHANGED <<poolVars, mainVars>>

GetWaits(c) ==
    \E a \in Aliases :
        /\ Begin(c, a)
        /\ hosts[a].listed /\ Contended(a)
        /\ At(c, "lock")
        /\ UNCHANGED <<poolVars, mainVars, served, outcome>>

GetEnters(c) ==
    \E a \in Aliases :
        /\ Begin(c, a)
        /\ hosts[a].listed /\ ~Contended(a)
        /\ Enter(c, a)

\* Mutant of GetLocked: it does not wait for the lock.
GetLockedUnlocked(c) ==
    /\ pc[c] = "lock" /\ c \in Gets
    /\ Enter(c, alias[c])
    /\ UNCHANGED <<fileVars, hosts, alias, todo, histVars>>

GetLocked(c) ==
    /\ pc[c] = "lock" /\ Free(alias[c])
    /\ Enter(c, alias[c])
    /\ UNCHANGED <<fileVars, hosts, alias, todo, histVars>>

GetEvicted(c) ==
    /\ pc[c] = "evict"
    /\ Open(c, alias[c])
    /\ UNCHANGED <<fileVars, hosts, cached, ready, mainVars, alias, todo,
                   histVars>>

\* Cache the new connection; serve it if the alias is ready already.
GetOpened(c) ==
    LET a == alias[c] IN
    /\ pc[c] = "open"
    /\ conn' = [conn EXCEPT ![c].state = "open"]
    /\ cached' = [cached EXCEPT ![a] = c]
    /\ IF a \in ready
       THEN Serve(c, a, c)
       ELSE At(c, "ready") /\ UNCHANGED <<lock, mainVars, served, outcome>>
    /\ UNCHANGED <<fileVars, hosts, ready, alias, todo, histVars>>

GetChecked(c) ==
    LET a == alias[c]
        k == cached[a]
    IN
    /\ pc[c] = "ready" /\ conn[k].state = "open"
    /\ conn' = [conn EXCEPT ![k].home = TRUE]
    /\ ready' = ready \cup {a}
    /\ Serve(c, a, k)
    /\ UNCHANGED <<fileVars, hosts, cached, alias, todo, histVars>>

Strikes(f) ==
    /\ f \in Faults
    /\ faults < MaxFaults
    /\ faults' = faults + 1

\* The connect fails, or the password is not in the keychain.
GetOpenFails(c) ==
    /\ pc[c] = "open"
    /\ Strikes("connect")
    /\ Leave(alias[c])
    /\ Ends(c, "unreachable")
    /\ UNCHANGED <<disk, serving, now, hosts, cached, ready, conn, mainVars,
                   alias, todo, histVars>>

\* The transport breaks in the bootstrap, or tmux is missing: evict, raise.
GetCheckFails(c) ==
    LET a == alias[c] IN
    /\ pc[c] = "ready"
    /\ \/ conn[cached[a]].state # "open" /\ UNCHANGED faults
       \/ conn[cached[a]].state = "open" /\ Strikes("tmux")
    /\ Evict(a)
    /\ At(c, "abort")
    /\ UNCHANGED <<disk, serving, now, hosts, lock, mainVars, alias, todo,
                   served, outcome, histVars>>

\* Mutant of GetAborted: the lock is not given back.
GetAbortedKeepsLock(c) ==
    /\ pc[c] = "abort"
    /\ Ends(c, "tmux")
    /\ UNCHANGED <<fileVars, hosts, poolVars, mainVars, alias, todo, histVars>>

GetAborted(c) ==
    /\ pc[c] = "abort"
    /\ Leave(alias[c])
    /\ \E o \in {"unreachable", "tmux"} : Ends(c, o)
    /\ UNCHANGED <<fileVars, hosts, cached, ready, conn, mainVars, alias, todo,
                   histVars>>

\* The call runs its remote commands over the connection.
UseDone(c) ==
    /\ pc[c] = "using" /\ conn[served[c]].state = "open"
    /\ Ends(c, "ok")
    /\ UNCHANGED <<fileVars, hosts, poolVars, mainVars, alias, todo, histVars>>

\* Connection.run finds the transport gone and marks the connection dead.
UseFails(c) ==
    /\ pc[c] = "using" /\ conn[served[c]].state # "open"
    /\ conn' = [conn EXCEPT ![served[c]].dead = TRUE]
    /\ Ends(c, "unreachable")
    /\ UNCHANGED <<fileVars, hosts, cached, ready, lock, mainVars, alias, todo,
                   histVars>>

-----------------------------------------------------------------------------
(* hosts() re-reads hosts.toml and applies what changed.                   *)

\* Mutant of Changed: only what was removed is evicted.
ChangedMeansRemoved == {a \in Aliases : hosts[a].listed /\ ~disk[a].listed}
\* Mutant of Changed: everything that was listed is evicted.
ChangedMeansListed == {a \in Aliases : hosts[a].listed}

\* removed | changed
Changed == {a \in Aliases : hosts[a].listed /\ disk[a] # hosts[a]}

\* update_hosts comes to alias a, with `left' still to evict.
Visit(r, a, left) ==
    \/ /\ Contended(a)
       /\ At(r, "lock")
       /\ todo' = [todo EXCEPT ![r] = left]
       /\ UNCHANGED poolVars
    \/ /\ ~Contended(a) /\ cached[a] # None
       /\ Evict(a) /\ Take(a, r) /\ At(r, "close")
       /\ todo' = [todo EXCEPT ![r] = left]
    \/ /\ ~Contended(a) /\ cached[a] = None
       /\ Evict(a) /\ At(r, "next")
       /\ todo' = [todo EXCEPT ![r] = left \ {a}]
       /\ UNCHANGED lock

Larger(m, n) == IF m > n THEN m ELSE n

ReloadEnds(r, goal) ==
    /\ At(r, "end")
    /\ applied' = [a \in Aliases |-> Larger(applied[a], goal[a])]
    /\ UNCHANGED <<poolVars, alias, todo>>

ReloadStart(r) ==
    LET goal == [a \in Aliases |-> disk[a].edition] IN
    /\ pc[r] = "new" /\ serving
    /\ hosts' = disk
    /\ atStart' = [atStart EXCEPT ![r] = [NoHistory EXCEPT !.goal = goal,
            !.calm = \A q \in Reloads : pc[q] \in {"new", "end"}]]
    /\ \/ Changed = {} /\ ReloadEnds(r, goal)
       \/ \E a \in Changed :
            /\ alias' = [alias EXCEPT ![r] = a]
            /\ Visit(r, a, Changed)
            /\ UNCHANGED applied
    /\ UNCHANGED <<fileVars, mainVars, served, outcome>>

\* hosts.toml is malformed: the allowlist stays as it was.
ReloadMalformed(r) ==
    /\ pc[r] = "new" /\ serving
    /\ Strikes("toml")
    /\ At(r, "end")
    /\ UNCHANGED <<disk, serving, now, hosts, poolVars, mainVars, alias, todo,
                   served, outcome, histVars>>

ReloadNext(r) ==
    /\ pc[r] = "next"
    /\ \/ todo[r] = {} /\ ReloadEnds(r, atStart[r].goal)
       \/ \E a \in todo[r] :
            /\ alias' = [alias EXCEPT ![r] = a]
            /\ Visit(r, a, todo[r])
            /\ UNCHANGED applied
    /\ UNCHANGED <<fileVars, hosts, mainVars, served, outcome, atStart>>

ReloadLocked(r) ==
    LET a == alias[r] IN
    /\ pc[r] = "lock" /\ Free(a)
    /\ Evict(a)
    /\ IF cached[a] = None
       THEN /\ At(r, "next")
            /\ todo' = [todo EXCEPT ![r] = @ \ {a}]
            /\ UNCHANGED lock
       ELSE /\ At(r, "close")
            /\ Take(a, r)
            /\ UNCHANGED todo
    /\ UNCHANGED <<fileVars, hosts, mainVars, alias, served, outcome, histVars>>

ReloadClosed(r) ==
    /\ pc[r] = "close"
    /\ Leave(alias[r])
    /\ At(r, "next")
    /\ todo' = [todo EXCEPT ![r] = @ \ {alias[r]}]
    /\ UNCHANGED <<fileVars, hosts, cached, ready, conn, mainVars, alias,
                   served, outcome, histVars>>

-----------------------------------------------------------------------------
(* The client, the operator, the network and the clock.                    *)

\* The client cancels a call: CancelledError where the task is suspended.
Cancel(t) ==
    /\ pc[t] \notin {"new", "next", "end"}
    /\ Strikes("cancel")
    /\ IF pc[t] \in Holding THEN Leave(alias[t]) ELSE UNCHANGED lock
    /\ At(t, "end")
    /\ outcome' = [c \in Gets |-> IF c = t THEN "cancelled" ELSE outcome[c]]
    /\ todo' = [r \in Reloads |-> IF r = t THEN {} ELSE todo[r]]
    /\ atStart' = [atStart EXCEPT ![t].calm = @ /\ t \in Gets]
    /\ UNCHANGED <<disk, serving, now, hosts, cached, ready, conn, mainVars,
                   alias, served, applied>>

Edit(a) ==
    /\ disk[a].edition <= MaxEdits
    /\ \E listed \in BOOLEAN :
        disk' = [disk EXCEPT ![a] =
                    [edition |-> disk[a].edition + 1, listed |-> listed]]
    /\ UNCHANGED <<serving, now, faults, hosts, poolVars, mainVars, taskVars,
                   histVars>>

Break(k) ==
    /\ conn[k].state = "open"
    /\ Strikes("break")
    /\ conn' = [conn EXCEPT ![k].state = "broken"]
    /\ UNCHANGED <<disk, serving, now, hosts, cached, ready, lock, mainVars,
                   taskVars, histVars>>

Tick ==
    /\ now < MaxTime
    /\ now' = now + 1
    /\ UNCHANGED <<disk, serving, faults, hosts, poolVars, mainVars, taskVars,
                   histVars>>

\* The server is done with its calls; Services.close closes the pool.
CloseAll ==
    /\ serving
    /\ \A t \in Tasks : pc[t] \in {"new", "end"}
    /\ serving' = FALSE
    /\ cached' = [a \in Aliases |-> None]
    /\ ready' = {}
    /\ conn' = [c \in Gets |->
            IF \E a \in Aliases : c = cached[a]
            THEN [conn[c] EXCEPT !.state = "closed"] ELSE conn[c]]
    /\ UNCHANGED <<disk, now, faults, hosts, lock, mainVars, taskVars,
                   histVars>>

Resume(t) ==
    \/ /\ t \in Gets
       /\ \/ GetLocked(t) \/ GetEvicted(t) \/ GetOpened(t) \/ GetChecked(t)
          \/ GetOpenFails(t) \/ GetCheckFails(t) \/ GetAborted(t)
          \/ UseDone(t) \/ UseFails(t)
    \/ /\ t \in Reloads
       /\ ReloadNext(t) \/ ReloadLocked(t) \/ ReloadClosed(t)

Next ==
    \/ \E c \in Gets : GetRejected(c) \/ GetWaits(c) \/ GetEnters(c)
    \/ \E r \in Reloads : ReloadStart(r) \/ ReloadMalformed(r)
    \/ \E t \in Tasks : Resume(t) \/ Cancel(t)
    \/ \E a \in Aliases : Edit(a)
    \/ \E k \in Gets : Break(k)
    \/ Tick \/ CloseAll

Spec == Init /\ [][Next]_vars

\* The event loop resumes every ready task; connects, closes and commands
\* end (asyncssh bounds them with its login timeout and keepalive).
Fairness == \A t \in Tasks : WF_vars(Resume(t))
LiveSpec == Spec /\ Fairness

-----------------------------------------------------------------------------
\* A transport that was opened and not closed is the one the pool caches for
\* its alias: two gets never hold two open transports to one host, and none
\* is lost to an eviction, a failed bootstrap, a cancelled call or the
\* shutdown (ssh.py:164-171, 209-224, 230-237).
OpenIsCached ==
    \A c \in Gets :
        conn[c].state \in {"open", "broken"} => cached[alias[c]] = c

\* No call is given a connection whose bootstrap did not run on it, however
\* the connections of its alias were evicted and reopened: home_dir is set
\* (ssh.py:127-132, 218-226, 264-270).
ServedIsReady == \A c \in Gets : served[c] # None => conn[served[c]].home

\* No two reloads overlapped and none was cancelled.
Orderly == \A r \in Reloads : atStart[r].calm

\* While reloads are orderly, and but for the aliases that one has still to
\* evict, the cached connection has the parameters of the allowlist, also when
\* it was being opened as the allowlist was swapped (ssh.py:246-260, 272-282).
CachedIsCurrent ==
    Orderly => \A a \in Aliases :
        cached[a] # None /\ conn[cached[a]].host # hosts[a].edition
            => \E r \in Reloads : a \in todo[r]

\* "the next tool call against that alias SHALL open a fresh connection using
\* the new parameters" (openspec/specs/host-inventory/spec.md:82-86): a call
\* that starts after hosts() returned never gets an older connection than
\* the hosts.toml which that hosts() read, if reloads are orderly.
ReloadTakesEffect ==
    Orderly => \A c \in Gets :
        served[c] # None => conn[served[c]].host >= atStart[c].floor

\* A reload does not disturb a call on an alias that stays as it was since
\* the call began (openspec/specs/host-inventory/spec.md:88-93).
UnchangedUndisturbed ==
    \A c \in Gets :
        /\ pc[c] = "using" /\ conn[served[c]].state = "closed"
        /\ ~conn[served[c]].dead
        => ~atStart[c].calm \/ hosts[alias[c]].edition # atStart[c].base

\* Two maintenance runs of an alias start an interval apart, whatever the
\* overlap of calls and however often it was evicted (ssh.py:192-194).
MaintenanceThrottled ==
    \A a \in Aliases :
        \A i, j \in 1 .. Len(runs[a]) :
            i < j => runs[a][j] >= runs[a][i] + Interval

\* Every call gets its connection or an error, and every reload ends: no lock
\* is kept by a task that failed or was cancelled.  There are finitely many
\* tasks and none starts twice, so at some moment the last one has ended.
TasksEnd == <>[](\A t \in Tasks : pc[t] \in {"new", "end"})
=============================================================================
