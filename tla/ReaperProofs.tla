----------------------------- MODULE ReaperProofs -----------------------------
(***************************************************************************)
(* Theorems about Reaper, for any number of sessions, panes and steps of   *)
(* the others: type correctness, and what the reaper kills, spares and     *)
(* records.                                                                *)
(***************************************************************************)
EXTENDS Reaper, FiniteSetTheorems, FunctionTheorems, TLAPS

USE DEF hostVars, netVars, taskVars, histVars

\* The pcs from which the panes have still to be listed.
Before == {"new", "sweep", "swept", "sweep error", "list"}

-----------------------------------------------------------------------------
(* Type correctness.                                                       *)

LEMMA FirstPidInjective ==
    /\ FirstPid \in [Names -> 1 .. Cardinality(Names)]
    /\ \A s, t \in Names : FirstPid[s] = FirstPid[t] => s = t
    /\ Cardinality(Names) \in Nat
<1>1. /\ Cardinality(Names) \in Nat
      /\ ExistsBijection(1 .. Cardinality(Names), Names)
  BY NamesAssumption, FS_CardinalityType
<1>2. ExistsBijection(Names, 1 .. Cardinality(Names))
  BY <1>1, Fun_ExistsBijSymmetric
<1>3. PICK f \in Bijection(Names, 1 .. Cardinality(Names)) : TRUE
  BY <1>2 DEF ExistsBijection
<1>4. /\ f \in [Names -> 1 .. Cardinality(Names)]
      /\ \A s, t \in Names : f[s] = f[t] => s = t
  BY <1>3 DEF Bijection, Injection, IsInjective
<1> QED BY <1>1, <1>4 DEF FirstPid

LEMMA InitTyped == Init => TypeOK
<1> SUFFICES ASSUME Init PROVE TypeOK
  OBVIOUS
<1>1. /\ panes \subseteq Pane /\ \A p \in panes : p.pid <= minted
      /\ \A p, q \in panes : p.pid = q.pid => p = q
  <2> DEFINE first(s) == [name |-> s, pid |-> FirstPid[s], program |-> FALSE,
                          job |-> FALSE]
  <2>1. \A s \in Names : first(s) \in Pane
    BY FirstPidInjective DEF Pane
  <2>2. panes = {first(s) : s \in Names}
    BY DEF Init
  <2>3. \A s, t \in Names : first(s).pid = first(t).pid => s = t
    BY FirstPidInjective
  <2>4. \A s \in Names : first(s).pid <= minted
    BY FirstPidInjective DEF Init
  <2> HIDE DEF first
  <2> QED BY <2>1, <2>2, <2>3, <2>4
<1>2. remote \in Remote /\ (remote.at = None => remote.left = {})
  BY DEF Init, NoRemote, Remote
<1>3. record \in [sweep : Statuses, reap : Statuses, killed : SUBSET Names]
  BY DEF Init, Statuses
<1>4. /\ attached \subseteq Names /\ activity \in [Names -> Nat]
      /\ minted \in Nat /\ timeout \in Timeouts /\ limit \in Timeouts \cup {None}
  BY FirstPidInjective DEF Init
<1> QED BY <1>1, <1>2, <1>3, <1>4 DEF Init, TypeOK

LEMMA Numbers ==
    ASSUME TypeOK
    PROVE  /\ moves \in Nat /\ minted \in Nat /\ now \in Nat /\ faults \in Nat
           /\ \A p \in panes : p \in Pane /\ p.pid \in Nat /\ p.name \in Names
           /\ \A p \in panes : p.pid <= minted
           /\ \A p, q \in panes : p.pid = q.pid => p = q
           /\ \A s \in Names : activity[s] \in Nat /\ activity[s] <= now
<1>1. \A p \in Pane : p.pid \in Nat /\ p.name \in Names
  BY DEF Pane
<1> QED BY <1>1 DEF TypeOK

LEMMA MoveTyped == TypeOK /\ Move => moves' \in Nat
  BY Numbers DEF Move

\* The panes after a step of their shells.
LEMMA BecomesTyped ==
    ASSUME TypeOK, NEW p \in panes, NEW q \in Pane, q.name = p.name, q.pid = p.pid,
           Becomes(p, q), activity' \in [Names -> Nat],
           \A s \in Names : activity'[s] <= now
    PROVE  TypeOK'
<1>1. /\ panes' = (panes \ {p}) \cup {q} /\ moves' = moves + 1
      /\ calm' = calm \ {p.name}
      /\ UNCHANGED <<attached, minted, now, timeout, netVars, taskVars, remote,
                     watched, victims>>
  BY DEF Becomes, Move
<1>2. panes' \subseteq Pane
  BY <1>1 DEF TypeOK
<1>3. /\ \A a \in panes' : a.pid <= minted'
      /\ \A a, b \in panes' : a.pid = b.pid => a = b
  BY <1>1 DEF TypeOK
<1>4. held' \subseteq held \cup {q.pid}
  BY DEF Becomes
<1>5. held' \subseteq Nat
  <2>1. q.pid \in Nat
    BY DEF Pane
  <2> QED BY <1>4, <2>1 DEF TypeOK
<1>6. moves' \in Nat
  BY MoveTyped DEF Becomes
<1> QED BY <1>1, <1>2, <1>3, <1>5, <1>6 DEF TypeOK

LEMMA ShellTyped ==
    ASSUME TypeOK, NEW p \in panes, Launch(p) \/ Exit(p)
    PROVE  TypeOK'
<1>1. p \in Pane
  BY DEF TypeOK
<1>2. \A b \in BOOLEAN :
        /\ [p EXCEPT !.program = b] \in Pane /\ [p EXCEPT !.job = b] \in Pane
        /\ [p EXCEPT !.program = b].name = p.name /\ [p EXCEPT !.program = b].pid = p.pid
        /\ [p EXCEPT !.job = b].name = p.name /\ [p EXCEPT !.job = b].pid = p.pid
  BY <1>1 DEF Pane
<1>3. activity' \in [Names -> Nat] /\ \A s \in Names : activity'[s] <= now
  <2>1. p.name \in Names
    BY <1>1 DEF Pane
  <2>2. PICK t \in {activity[p.name], now} :
            activity' = activity \/ activity' = [activity EXCEPT ![p.name] = t]
    BY DEF Launch, Exit
  <2>3. t \in Nat /\ t <= now
    BY <2>1, Numbers
  <2>4. activity' \in [Names -> Nat]
    BY <2>1, <2>2, <2>3 DEF TypeOK
  <2>5. \A s \in Names : activity'[s] \in {activity[s], t}
    BY <2>1, <2>2 DEF TypeOK
  <2> QED BY <2>3, <2>4, <2>5, Numbers
<1>4. PICK q \in {[p EXCEPT !.program = b] : b \in BOOLEAN}
                    \cup {[p EXCEPT !.job = b] : b \in BOOLEAN} : Becomes(p, q)
  BY DEF Launch, Exit
<1> QED BY <1>2, <1>3, <1>4, BecomesTyped

LEMMA GoneTyped ==
    ASSUME TypeOK, NEW s \in Names, Gone(s)
    PROVE  /\ panes' \subseteq Pane /\ \A p \in panes' : p.pid <= minted'
           /\ \A p, q \in panes' : p.pid = q.pid => p = q
           /\ attached' \subseteq Names /\ held' \subseteq Nat
           /\ watched' \subseteq Names /\ calm' \subseteq Names
  BY DEF TypeOK, Gone

LEMMA OthersTyped ==
    ASSUME TypeOK,
           \/ \E s \in Names : Create(s) \/ Attach(s) \/ Close(s)
           \/ Tick \/ Retime \/ Drop
    PROVE  TypeOK'
<1>1. ASSUME NEW s \in Names, Create(s) PROVE TypeOK'
  <2> DEFINE p == [name |-> s, pid |-> minted', program |-> FALSE, job |-> FALSE]
  <2>1. minted' = minted + 1 /\ minted' \in Nat
    BY <1>1, Numbers DEF Create
  <2>2. p \in Pane /\ panes' = panes \cup {p} /\ p.pid = minted'
    BY <1>1, <2>1 DEF Create, Pane
  <2> HIDE DEF p
  <2>3. moves' \in Nat
    BY <1>1, MoveTyped DEF Create
  <2>4. /\ activity' \in [Names -> Nat] /\ calm' \subseteq Names
        /\ \A t \in Names : activity'[t] \in {activity[t], now}
    BY <1>1 DEF TypeOK, Create
  <2>8. \A t \in Names : activity'[t] <= now
    BY <2>4, Numbers
  <2>5. UNCHANGED <<attached, now, timeout, netVars, taskVars, remote, held,
                    watched, victims>>
    BY <1>1 DEF Create
  <2>6. panes' \subseteq Pane
    BY <2>2 DEF TypeOK
  <2>7. /\ \A a \in panes' : a.pid <= minted'
        /\ \A a, b \in panes' : a.pid = b.pid => a = b
    BY <2>1, <2>2, Numbers
  <2> QED BY <2>1, <2>3, <2>4, <2>5, <2>6, <2>7, <2>8 DEF TypeOK
<1>2. ASSUME NEW s \in Names, Attach(s) PROVE TypeOK'
  <2>1. moves' \in Nat
    BY <1>2, MoveTyped DEF Attach
  <2>2. /\ activity' \in [Names -> Nat]
        /\ \A t \in Names : activity'[t] \in {activity[t], now}
    BY <1>2 DEF TypeOK, Attach
  <2>3. attached' \subseteq Names /\ calm' \subseteq Names /\ watched' \subseteq Names
    BY <1>2 DEF TypeOK, Attach
  <2>4. UNCHANGED <<panes, minted, now, timeout, netVars, taskVars, remote, held,
                    victims>>
    BY <1>2 DEF Attach
  <2>5. \A t \in Names : activity'[t] <= now
    BY <2>2, Numbers
  <2> QED BY <2>1, <2>2, <2>3, <2>4, <2>5 DEF TypeOK
<1>3. ASSUME NEW s \in Names, Close(s) PROVE TypeOK'
  <2>1. moves' \in Nat
    BY <1>3, MoveTyped DEF Close
  <2>2. Gone(s) /\ UNCHANGED <<netVars, taskVars, remote, victims>>
    BY <1>3 DEF Close
  <2>3. UNCHANGED <<activity, minted, now, timeout>>
    BY <2>2 DEF Gone
  <2> QED BY <2>1, <2>2, <2>3, GoneTyped DEF TypeOK
<1>4. CASE Tick
  <2>1. now' \in Nat /\ \A t \in Names : activity[t] <= now'
    BY <1>4, Numbers DEF Tick
  <2> QED BY <1>4, <2>1 DEF TypeOK, Tick
<1>5. CASE Retime
  <2>1. moves' \in Nat
    BY <1>5, MoveTyped DEF Retime
  <2> QED BY <1>5, <2>1 DEF TypeOK, Retime
<1>6. CASE Drop
  <2>1. faults' \in Nat /\ alive' = FALSE
    BY <1>6, Numbers DEF Drop, Strikes
  <2> QED BY <1>6, <2>1 DEF TypeOK, Drop
<1> QED BY <1>1, <1>2, <1>3, <1>4, <1>5, <1>6

\* The fields of the record of the kill command.
LEMMA RemoteFields ==
    ASSUME TypeOK
    PROVE  /\ remote \in Remote /\ remote.todo \subseteq Names
           /\ remote.at \in Names \cup {None} /\ remote.left \subseteq Nat
           /\ remote.out \subseteq Names /\ remote.started \in BOOLEAN
           /\ remote.at = None => remote.left = {}
  BY DEF TypeOK, Remote

LEMMA StrikesTyped == ASSUME TypeOK, NEW f, Strikes(f) PROVE faults' \in Nat
  BY Numbers DEF Strikes

\* The row that list-panes prints of the pane p.
RowOf(p) == [name |-> p.name, pid |-> p.pid, prompt |-> ~p.program,
             attached |-> p.name \in attached, age |-> now - activity[p.name]]

LEMMA ListTyped ==
    ASSUME TypeOK, List
    PROVE  TypeOK'
<1>1. rows' = {RowOf(p) : p \in panes}
  BY DEF List, RowOf
<1>2. \A p \in panes : RowOf(p) \in Row
  <2> SUFFICES ASSUME NEW p \in panes PROVE RowOf(p) \in Row
    OBVIOUS
  <2>1. now - activity[p.name] \in Nat
    BY Numbers
  <2> QED BY <2>1, Numbers DEF RowOf, Row
<1>3. rows' \subseteq Row
  BY <1>1, <1>2
<1>4. pc' \in {"reaped", "kill"}
  BY DEF List, At
<1>5. remote' \in Remote /\ (remote'.at = None => remote'.left = {})
  <2>1. Candidates(rows') \subseteq Names
    BY DEF Candidates
  <2>2. \/ UNCHANGED remote
        \/ remote' = [NoRemote EXCEPT !.todo = Candidates(rows')]
    BY DEF List
  <2>3. NoRemote \in Remote
    BY DEF NoRemote, Remote
  <2>4. CASE UNCHANGED remote
    BY <2>4, RemoteFields
  <2>5. CASE remote' = [NoRemote EXCEPT !.todo = Candidates(rows')]
    <3>1. remote' \in Remote
      BY <2>1, <2>3, <2>5 DEF Remote
    <3>2. remote'.left = NoRemote.left
      BY <2>3, <2>5 DEF Remote
    <3> QED BY <3>1, <3>2 DEF NoRemote
  <2> QED BY <2>2, <2>4, <2>5
<1>6. watched' \subseteq Names /\ calm' \subseteq Names
  BY DEF List, TypeOK
<1>7. UNCHANGED <<hostVars, netVars, ending, limit, record, held, victims>>
  BY DEF List
<1> QED BY <1>3, <1>4, <1>5, <1>6, <1>7 DEF TypeOK

LEMMA TaskTyped ==
    ASSUME TypeOK,
           \/ Begin \/ Sweep \/ SweepRecorded \/ ListFails \/ Killed
           \/ ReapRecorded \/ RecordFails \/ Cancelled
    PROVE  TypeOK'
<1>1. UNCHANGED <<hostVars, rows, remote, histVars>>
  BY DEF Begin, Sweep, SweepRecorded, ListFails, Killed, ReapRecorded, RecordFails,
         Cancelled
<1>2. pc' \in {"new", "sweep", "swept", "sweep error", "list", "kill", "reaped",
                "reap error", "end"}
  BY DEF TypeOK, Begin, Sweep, SweepRecorded, ListFails, Killed, ReapRecorded,
         RecordFails, Cancelled, Reap, At
<1>3. ending' \in {"none", "returned", "raised", "cancelled"}
  BY DEF TypeOK, Begin, Sweep, SweepRecorded, ListFails, Killed, ReapRecorded,
         RecordFails, Cancelled, Reap, At
<1>4. limit' \in Timeouts \cup {None}
  BY DEF TypeOK, Begin, Sweep, SweepRecorded, ListFails, Killed, ReapRecorded,
         RecordFails, Cancelled, Reap, At
<1>5. alive' \in BOOLEAN
  BY DEF TypeOK, Begin, Sweep, SweepRecorded, ListFails, Killed, ReapRecorded,
         RecordFails, Cancelled
<1>6. faults' \in Nat
  BY Numbers, StrikesTyped DEF Begin, Sweep, SweepRecorded, ListFails, Killed,
     ReapRecorded, RecordFails, Cancelled
<1>7. record' \in [sweep : Statuses, reap : Statuses, killed : SUBSET Names]
  <2>1. /\ record \in [sweep : Statuses, reap : Statuses, killed : SUBSET Names]
        /\ remote.out \subseteq Names
    BY RemoteFields DEF TypeOK
  <2>2. CASE SweepRecorded
    BY <2>1, <2>2 DEF SweepRecorded, Statuses
  <2>3. CASE ReapRecorded
    BY <2>1, <2>3 DEF ReapRecorded, Statuses
  <2>4. CASE UNCHANGED record
    BY <2>1, <2>4
  <2> QED BY <2>2, <2>3, <2>4 DEF Begin, Sweep, ListFails, Killed, RecordFails, Cancelled
<1> QED BY <1>1, <1>2, <1>3, <1>4, <1>5, <1>6, <1>7 DEF TypeOK

\* What the kill command does to its record.
LEMMA NextCandidateRemote ==
    ASSUME TypeOK, NEW s \in Names, NextCandidate(s)
    PROVE  /\ remote' \in Remote
           /\ remote'.started = TRUE /\ remote'.todo = remote.todo \ {s}
           /\ remote'.at = s /\ remote'.out = remote.out
           /\ remote'.left = {r.pid : r \in {q \in rows : q.name = s}}
<1>1. {r.pid : r \in {q \in rows : q.name = s}} \subseteq Nat
  BY DEF TypeOK, Row
<1> QED BY <1>1, RemoteFields DEF NextCandidate, Remote

LEMMA SkipRemote ==
    ASSUME TypeOK, Skip
    PROVE  /\ remote' \in Remote
           /\ remote'.started = remote.started /\ remote'.todo = remote.todo
           /\ remote'.at = None /\ remote'.out = remote.out /\ remote'.left = {}
  BY RemoteFields DEF Skip, Remote

LEMMA ClearRemote ==
    ASSUME TypeOK, NEW pid, remote' = [remote EXCEPT !.left = @ \ {pid}]
    PROVE  /\ remote' \in Remote
           /\ remote'.started = remote.started /\ remote'.todo = remote.todo
           /\ remote'.at = remote.at /\ remote'.out = remote.out
           /\ remote'.left = remote.left \ {pid}
  BY RemoteFields DEF Remote

LEMMA KillRemote ==
    ASSUME TypeOK, KillSession
    PROVE  /\ remote' \in Remote
           /\ remote'.started = remote.started /\ remote'.todo = remote.todo
           /\ remote'.at = None /\ remote'.left = {}
           /\ remote'.out = remote.out \cup (IF Lives(remote.at) THEN {remote.at} ELSE {})
  BY RemoteFields DEF KillSession, Kills, Remote

LEMMA KillTyped == ASSUME TypeOK, Kill PROVE TypeOK'
<1>1. ASSUME NEW s \in Names, NextCandidate(s) PROVE TypeOK'
  <2>1. remote' \in Remote /\ remote'.at # None
    BY <1>1, NextCandidateRemote, NamesAssumption
  <2> QED BY <1>1, <2>1 DEF TypeOK, NextCandidate
<1>2. ASSUME NEW pid \in remote.left, Pgrep(pid) PROVE TypeOK'
  <2>1. remote' \in Remote /\ (remote'.at = None => remote'.left = {})
    BY <1>2, ClearRemote, SkipRemote, RemoteFields DEF Pgrep
  <2>2. faults' \in Nat
    BY <1>2, Numbers, StrikesTyped DEF Pgrep
  <2>3. calm' \subseteq Names
    BY <1>2 DEF Pgrep, TypeOK
  <2> QED BY <1>2, <2>1, <2>2, <2>3 DEF TypeOK, Pgrep
<1>3. CASE KillSession
  <2> DEFINE s == remote.at
             victim(p) == [name |-> s, pid |-> p.pid, held |-> p.pid \in held,
                           watched |-> s \in watched]
  <2>1. remote' \in Remote /\ (remote'.at = None => remote'.left = {})
    BY <1>3, KillRemote
  <2>2. s \in Names /\ Gone(s) /\ UNCHANGED <<moves, netVars, taskVars>>
        /\ victims' = victims \cup {victim(p) : p \in {q \in panes : q.name = s}}
    BY <1>3, RemoteFields DEF KillSession, Kills
  <2> DEFINE Victims ==
                [name : Names, pid : Nat, held : BOOLEAN, watched : BOOLEAN]
  <2>3. \A p \in panes : victim(p) \in Victims
    BY <2>2, Numbers
  <2>6. victims \subseteq Victims
    BY DEF TypeOK
  <2>4. victims' \subseteq Victims
    <3> HIDE DEF victim, Victims
    <3> QED BY <2>2, <2>3, <2>6
  <2>5. UNCHANGED <<activity, minted, now, timeout>>
    BY <2>2 DEF Gone
  <2> QED BY <2>1, <2>2, <2>4, <2>5, GoneTyped DEF TypeOK
<1> QED BY <1>1, <1>2, <1>3 DEF Kill

LEMMA StutterTyped == ASSUME TypeOK, UNCHANGED vars PROVE TypeOK'
  BY DEF TypeOK, vars

LEMMA NextTyped == TypeOK /\ [Next]_vars => TypeOK'
  BY ShellTyped, OthersTyped, TaskTyped, ListTyped, KillTyped, StutterTyped
     DEF Next, Task

\* Type correctness, for any number of sessions, panes and faults.
THEOREM TypeCorrect == Spec => []TypeOK
  BY InitTyped, NextTyped, PTL DEF Spec

-----------------------------------------------------------------------------
(* The inductive invariant.                                                *)

\* Until the panes are listed there is nothing to kill.
Unlisted ==
    /\ pc \in Before => /\ remote.todo = {} /\ remote.at = None /\ remote.out = {}
                       /\ ~remote.started
                       /\ rows = {} /\ victims = {} /\ calm = {} /\ watched = {}
    /\ pc = "list" => limit \in Nat /\ limit > 0
    /\ pc # "end" => record.reap = "none"

\* A pid stays with one session.
PidsTell ==
    \A r \in rows :
        /\ r.pid <= minted
        /\ \A p \in panes : p.pid = r.pid => p.name = r.name

\* A session that may still be killed was idle when listed.
Judged ==
    \A s \in Names : s \in remote.todo \/ s = remote.at =>
        /\ s \notin watched
        /\ limit \in Nat /\ limit > 0
        /\ \A r \in rows : r.name = s => r.age > limit

\* A held pid has a child, so pgrep does not clear it; and what pgrep is asked
\* of is of the candidate.
HeldHasChild == \A i \in held : Children(i)

Cleared ==
    remote.at # None =>
        /\ remote.started
        /\ \A i \in remote.left : \E r \in rows : r.name = remote.at /\ r.pid = i
        /\ \A r \in rows : r.name = remote.at /\ r.pid \notin remote.left
                            => r.pid \notin held

\* The names printed are those of the victims, and no more will be killed
\* when the answer has come.
Printed ==
    /\ remote.out = {v.name : v \in victims}
    /\ pc = "reaped" \/ record.reap = "ok" => Done
    /\ record.reap = "ok" => record.killed = remote.out

\* A session that stayed idle is still to be killed.
CalmIsTodo ==
    \A s \in calm :
        /\ s \in remote.todo \/ s = remote.at
        /\ \A p \in panes : p.name = s => ~Parent(p)

Inv ==
    /\ TypeOK
    /\ Unlisted /\ PidsTell /\ Judged /\ HeldHasChild /\ Cleared /\ Printed
    /\ CalmIsTodo /\ OnlyIdleIsReaped

LEMMA InitInv == Init => Inv
<1> SUFFICES ASSUME Init PROVE Inv
  OBVIOUS
<1>1. /\ remote.todo = {} /\ remote.at = None /\ remote.out = {} /\ ~remote.started
      /\ rows = {} /\ victims = {} /\ calm = {} /\ watched = {} /\ held = {}
      /\ pc = "new" /\ record.reap = "none"
  BY DEF Init, NoRemote
<1>2. Judged
  BY <1>1, NamesAssumption DEF Judged
<1> QED BY <1>1, <1>2, InitTyped DEF Inv, Unlisted, PidsTell, HeldHasChild, Cleared,
            Printed, CalmIsTodo, OnlyIdleIsReaped

\* A shell starts or ends a child.
LEMMA BecomesInv ==
    ASSUME Inv, NEW p \in panes, NEW q \in Pane, q.name = p.name, q.pid = p.pid,
           Becomes(p, q)
    PROVE  /\ Unlisted' /\ PidsTell' /\ Judged' /\ HeldHasChild' /\ Cleared'
           /\ Printed' /\ CalmIsTodo' /\ OnlyIdleIsReaped'
<1>1. /\ panes' = (panes \ {p}) \cup {q}
      /\ calm' = calm \ {p.name}
      /\ held' = IF Parent(q)
                 THEN IF remote.started THEN held ELSE held \cup {q.pid}
                 ELSE held \ {q.pid}
      /\ UNCHANGED <<minted, taskVars, remote, watched, victims>>
  BY DEF Becomes
<1> USE DEF Inv
<1>2. Unlisted'
  BY <1>1 DEF Unlisted
<1>3. PidsTell'
  BY <1>1 DEF PidsTell
<1>4. Judged'
  BY <1>1 DEF Judged
<1>5. HeldHasChild'
  BY <1>1, Numbers DEF HeldHasChild, Children
<1>6. Cleared'
  BY <1>1 DEF Cleared
<1>7. Printed'
  BY <1>1 DEF Printed, Done
<1>8. CalmIsTodo'
  BY <1>1 DEF CalmIsTodo
<1>9. OnlyIdleIsReaped'
  BY <1>1 DEF OnlyIdleIsReaped
<1> QED BY <1>2, <1>3, <1>4, <1>5, <1>6, <1>7, <1>8, <1>9

\* What the proofs of the steps below have to show.
Kept ==
    /\ Unlisted /\ PidsTell /\ Judged /\ HeldHasChild /\ Cleared /\ Printed
    /\ CalmIsTodo /\ OnlyIdleIsReaped

LEMMA ShellInv ==
    ASSUME Inv, NEW p \in panes, Launch(p) \/ Exit(p)
    PROVE  Kept'
<1>1. p \in Pane
  BY Numbers DEF Inv
<1>2. \A b \in BOOLEAN :
        /\ [p EXCEPT !.program = b] \in Pane /\ [p EXCEPT !.job = b] \in Pane
        /\ [p EXCEPT !.program = b].name = p.name /\ [p EXCEPT !.program = b].pid = p.pid
        /\ [p EXCEPT !.job = b].name = p.name /\ [p EXCEPT !.job = b].pid = p.pid
  BY <1>1 DEF Pane
<1>3. PICK q \in {[p EXCEPT !.program = b] : b \in BOOLEAN}
                    \cup {[p EXCEPT !.job = b] : b \in BOOLEAN} : Becomes(p, q)
  BY DEF Launch, Exit
<1> QED BY <1>2, <1>3, BecomesInv DEF Kept

LEMMA CreateInv == ASSUME Inv, NEW s \in Names, Create(s) PROVE Kept'
<1> DEFINE p == [name |-> s, pid |-> minted', program |-> FALSE, job |-> FALSE]
<1>1. /\ panes' = panes \cup {p} /\ p.name = s /\ p.pid = minted + 1
      /\ ~Parent(p)
      /\ minted' = minted + 1 /\ calm' = calm \ {s}
      /\ UNCHANGED <<taskVars, remote, held, watched, victims>>
  BY DEF Create, Parent
<1> HIDE DEF p
<1> USE DEF Inv
<1>2. minted \in Nat /\ \A r \in rows : r.pid \in Nat
  BY Numbers DEF TypeOK, Row
<1>3. PidsTell'
  BY <1>1, <1>2 DEF PidsTell
<1>4. HeldHasChild'
  BY <1>1 DEF HeldHasChild, Children
<1>5. CalmIsTodo'
  BY <1>1 DEF CalmIsTodo
<1>6. Unlisted' /\ Judged' /\ Cleared'
  BY <1>1 DEF Unlisted, Judged, Cleared
<1>7. Printed' /\ OnlyIdleIsReaped'
  BY <1>1 DEF Printed, Done, OnlyIdleIsReaped
<1> QED BY <1>3, <1>4, <1>5, <1>6, <1>7 DEF Kept

\* The panes of a session go, by the reaper's hand or by another.
LEMMA GoneInv ==
    ASSUME Inv, NEW s \in Names, Gone(s)
    PROVE  /\ HeldHasChild'
           /\ held' \subseteq held /\ watched' \subseteq watched /\ calm' = calm \ {s}
           /\ panes' \subseteq panes
           /\ UNCHANGED minted
<1>1. /\ panes' = {p \in panes : p.name # s} /\ watched' = watched \ {s}
      /\ held' = held \ {p.pid : p \in {q \in panes : q.name = s}}
      /\ calm' = calm \ {s} /\ UNCHANGED minted
  BY DEF Gone
<1>2. HeldHasChild'
  BY <1>1 DEF Inv, HeldHasChild, Children
<1> QED BY <1>1, <1>2

\* A step that takes nothing from the task or the kill command.
LEMMA AsideInv ==
    ASSUME Inv, UNCHANGED <<taskVars, remote, victims, minted>>,
           panes' \subseteq panes, held' \subseteq held, watched' \subseteq watched,
           calm' \subseteq calm, HeldHasChild'
    PROVE  Kept'
<1> USE DEF Inv
<1>1. PidsTell' /\ CalmIsTodo'
  BY DEF PidsTell, CalmIsTodo
<1>2. Unlisted' /\ Judged' /\ Cleared'
  BY DEF Unlisted, Judged, Cleared
<1>3. Printed' /\ OnlyIdleIsReaped'
  BY DEF Printed, Done, OnlyIdleIsReaped
<1> QED BY <1>1, <1>2, <1>3 DEF Kept

LEMMA OthersInv ==
    ASSUME Inv,
           \/ \E s \in Names : Attach(s) \/ Close(s)
           \/ Tick \/ Retime \/ Drop \/ UNCHANGED vars
    PROVE  Kept'
<1>1. UNCHANGED <<panes, held>> => HeldHasChild'
  BY DEF Inv, HeldHasChild, Children
<1>2. ASSUME NEW s \in Names, Attach(s) PROVE Kept'
  BY <1>1, <1>2, AsideInv DEF Attach
<1>3. ASSUME NEW s \in Names, Close(s) PROVE Kept'
  BY <1>3, GoneInv, AsideInv DEF Close
<1>4. CASE Tick \/ Retime \/ Drop \/ UNCHANGED vars
  BY <1>1, <1>4, AsideInv DEF Tick, Retime, Drop, vars
<1> QED BY <1>2, <1>3, <1>4

LEMMA TaskInv ==
    ASSUME Inv,
           \/ Begin \/ Sweep \/ SweepRecorded \/ ListFails \/ Killed
           \/ ReapRecorded \/ RecordFails \/ Cancelled
    PROVE  Kept'
<1> USE DEF At
<1>1. UNCHANGED <<panes, minted, rows, remote, histVars>>
  BY DEF Begin, Sweep, SweepRecorded, ListFails, Killed, ReapRecorded, RecordFails,
         Cancelled
<1>2. PidsTell' /\ HeldHasChild' /\ Cleared' /\ CalmIsTodo'
  BY <1>1 DEF Inv, PidsTell, HeldHasChild, Children, Cleared, CalmIsTodo
<1>3. pc' \in Before => pc \in Before
  BY DEF Before, Begin, Sweep, SweepRecorded, ListFails, Killed, ReapRecorded,
         RecordFails, Cancelled
<1>4. limit' # limit => pc \in Before
  BY DEF Before, Reap, Begin, Sweep, SweepRecorded, ListFails, Killed, ReapRecorded,
         RecordFails, Cancelled
<1>5. pc' = "list" => limit' \in Nat /\ limit' > 0
  <2>1. pc' = "list" => SweepRecorded
    BY DEF Begin, Sweep, ListFails, Killed, ReapRecorded, RecordFails, Cancelled
  <2>2. timeout \in Nat
    BY NumbersAssumption DEF Inv, TypeOK
  <2>3. pc' = "list" => limit' = timeout /\ timeout # 0
    BY <2>1 DEF SweepRecorded, Reap
  <2> QED BY <2>2, <2>3
<1>6. /\ record'.reap = record.reap \/ pc' = "end"
      /\ record'.reap = "ok" =>
            \/ record.reap = "ok" /\ record'.killed = record.killed
            \/ pc = "reaped" /\ record'.killed = remote.out
  <2>1. record \in [sweep : Statuses, reap : Statuses, killed : SUBSET Names]
    BY DEF Inv, TypeOK
  <2>2. CASE SweepRecorded
    BY <2>1, <2>2 DEF SweepRecorded
  <2>3. CASE ReapRecorded
    BY <2>1, <2>3 DEF ReapRecorded
  <2>4. CASE UNCHANGED record
    BY <2>4
  <2> QED BY <2>2, <2>3, <2>4 DEF Begin, Sweep, ListFails, Killed, RecordFails, Cancelled
<1>7. pc' = "reaped" => Done
  BY DEF Inv, Printed, Begin, Sweep, SweepRecorded, Reap, ListFails, Killed,
     ReapRecorded, RecordFails, Cancelled
<1>8. pc' # "end" => pc # "end"
  BY DEF Begin, Sweep, SweepRecorded, Reap, ListFails, Killed, ReapRecorded,
     RecordFails, Cancelled
<1>9. Unlisted'
  BY <1>1, <1>3, <1>5, <1>6, <1>8 DEF Inv, Unlisted
<1>10. Judged'
  BY <1>1, <1>4, NamesAssumption DEF Inv, Unlisted, Judged
<1>11. Printed'
  BY <1>1, <1>6, <1>7 DEF Inv, Printed, Done
<1>12. OnlyIdleIsReaped'
  BY <1>1, <1>4 DEF Inv, Unlisted, OnlyIdleIsReaped
<1> QED BY <1>2, <1>9, <1>10, <1>11, <1>12 DEF Kept

LEMMA ListInv == ASSUME Inv, List PROVE Kept'
<1>1. /\ pc = "list" /\ pc' \in {"reaped", "kill"}
      /\ UNCHANGED <<panes, minted, limit, record, held, victims>>
      /\ watched' = attached
  BY DEF List, At
<1>2. rows' = {RowOf(p) : p \in panes}
  BY DEF List, RowOf
<1>3. /\ remote.todo = {} /\ remote.at = None /\ remote.out = {} /\ ~remote.started
      /\ victims = {} /\ record.reap = "none"
      /\ limit \in Nat /\ limit > 0
  BY <1>1 DEF Inv, Unlisted, Before
<1>4. /\ remote'.todo = Candidates(rows') /\ remote'.at = None
      /\ remote'.out = {} /\ ~remote'.started
      /\ pc' = "reaped" => remote'.todo = {}
  <2>1. CASE Candidates(rows') = {}
    BY <1>3, <2>1 DEF List
  <2>2. CASE Candidates(rows') # {}
    BY <2>2 DEF List, At, NoRemote
  <2> QED BY <2>1, <2>2
<1>5. \A p \in panes :
        /\ RowOf(p).name = p.name /\ RowOf(p).pid = p.pid
        /\ RowOf(p).prompt = ~p.program
        /\ RowOf(p).attached = (p.name \in attached)
        /\ RowOf(p).age = now - activity[p.name]
  BY DEF RowOf
<1>6. Unlisted'
  BY <1>1, <1>3 DEF Unlisted, Before
<1>7. PidsTell'
  BY <1>1, <1>2, <1>5, Numbers DEF Inv, PidsTell
<1>8. Judged'
  <2> SUFFICES ASSUME NEW s \in Names, s \in Candidates(rows')
               PROVE  s \notin attached /\ \A r \in rows' : r.name = s => r.age > limit
    BY <1>1, <1>3, <1>4, NamesAssumption DEF Judged
  <2>1. /\ \E r \in rows' : r.name = s
        /\ \A r \in rows' : r.name = s => ~r.attached /\ r.age > limit
    BY DEF Candidates, Idle
  <2>2. PICK p \in panes : RowOf(p).name = s /\ ~RowOf(p).attached
    BY <1>2, <2>1
  <2>3. s \notin attached
    BY <1>5, <2>2
  <2> QED BY <2>1, <2>3
<1>9. HeldHasChild' /\ Cleared'
  BY <1>1, <1>4 DEF Inv, HeldHasChild, Children, Cleared
<1>10. Printed'
  BY <1>1, <1>3, <1>4 DEF Printed, Done
<1>11. CalmIsTodo'
  <2>1. calm' = {s \in Names :
            /\ Lives(s) /\ s \notin attached /\ now - activity[s] > limit
            /\ \A p \in panes : p.name = s => ~Parent(p)}
    BY DEF List
  <2> SUFFICES ASSUME NEW s \in calm'
               PROVE  s \in Candidates(rows') /\ \A p \in panes : p.name = s => ~Parent(p)
    BY <1>1, <1>4 DEF CalmIsTodo, Parent
  <2>2. PICK p \in panes : p.name = s
    BY <2>1 DEF Lives
  <2>3. RowOf(p) \in rows' /\ RowOf(p).name = s
    BY <1>2, <1>5, <2>2
  <2>4. ASSUME NEW q \in panes, q.name = s
        PROVE  ~RowOf(q).attached /\ RowOf(q).age > limit /\ RowOf(q).prompt
    BY <1>5, <2>1, <2>4 DEF Parent
  <2>5. \A r \in rows' : r.name = s => Idle(r)'
    BY <1>1, <1>2, <1>5, <2>4 DEF Idle
  <2> QED BY <1>1, <2>1, <2>3, <2>5 DEF Candidates, Idle
<1>12. OnlyIdleIsReaped'
  BY <1>1, <1>3 DEF OnlyIdleIsReaped
<1> QED BY <1>6, <1>7, <1>8, <1>9, <1>10, <1>11, <1>12 DEF Kept

\* Nothing but the kill command, and what it kills, changes.
LEMMA NextCandidateInv == ASSUME Inv, NEW s \in Names, NextCandidate(s) PROVE Kept'
<1>1. /\ remote'.started /\ remote'.todo = remote.todo \ {s} /\ s \in remote.todo
      /\ remote.at = None /\ remote'.at = s /\ remote'.out = remote.out
      /\ remote'.left = {r.pid : r \in {q \in rows : q.name = s}}
      /\ UNCHANGED <<hostVars, netVars, taskVars, histVars>>
  BY NextCandidateRemote DEF Inv, NextCandidate
<1> USE DEF Inv
<1>2. PidsTell' /\ HeldHasChild' /\ OnlyIdleIsReaped'
  BY <1>1 DEF PidsTell, HeldHasChild, Children, OnlyIdleIsReaped
<1>3. Unlisted'
  BY <1>1 DEF Unlisted
<1>4. Judged'
  BY <1>1 DEF Judged
<1>5. CalmIsTodo'
  <2>1. calm \subseteq Names
    BY DEF TypeOK
  <2>2. \A t \in calm : t \in remote.todo
    BY <1>1, <2>1, NamesAssumption DEF CalmIsTodo
  <2> QED BY <1>1, <2>2 DEF CalmIsTodo
<1>6. Cleared'
  BY <1>1 DEF Cleared
<1>7. Printed'
  BY <1>1 DEF Printed, Done
<1> QED BY <1>2, <1>3, <1>4, <1>5, <1>6, <1>7 DEF Kept

LEMMA PgrepInv == ASSUME Inv, NEW pid \in remote.left, Pgrep(pid) PROVE Kept'
<1>1. /\ remote'.started = remote.started /\ remote'.todo = remote.todo
      /\ remote'.out = remote.out
      /\ UNCHANGED <<hostVars, alive, taskVars, held, watched, victims>>
  BY ClearRemote, SkipRemote DEF Inv, Pgrep
<1>2. remote.at # None
  BY RemoteFields DEF Inv
<1>3. \/ /\ ~Children(pid) /\ UNCHANGED calm
         /\ remote'.at = remote.at /\ remote'.left = remote.left \ {pid}
      \/ Children(pid) /\ remote'.at = None /\ UNCHANGED calm
      \/ remote'.at = None /\ calm' = calm \ {remote.at}
  BY ClearRemote, SkipRemote DEF Inv, Pgrep
<1> USE DEF Inv
<1>4. PidsTell' /\ HeldHasChild' /\ OnlyIdleIsReaped'
  BY <1>1 DEF PidsTell, HeldHasChild, Children, OnlyIdleIsReaped
<1>5. Unlisted'
  BY <1>1, <1>2 DEF Unlisted
<1>6. Judged'
  BY <1>1, <1>3, NamesAssumption DEF Judged
<1>7. Cleared'
  BY <1>1, <1>3 DEF Cleared, HeldHasChild
<1>8. Printed'
  BY <1>1, <1>2 DEF Printed, Done
<1>9. CalmIsTodo'
  <2>1. Children(pid) => remote.at \notin calm
    BY <1>2 DEF CalmIsTodo, Cleared, PidsTell, Children
  <2> QED BY <1>1, <1>3, <2>1 DEF CalmIsTodo
<1> QED BY <1>4, <1>5, <1>6, <1>7, <1>8, <1>9 DEF Kept

LEMMA KillSessionInv == ASSUME Inv, KillSession PROVE Kept'
<1> DEFINE s == remote.at
           victim(p) == [name |-> s, pid |-> p.pid, held |-> p.pid \in held,
                         watched |-> s \in watched]
           mine == {q \in panes : q.name = s}
<1>1. /\ s \in Names /\ s # None /\ remote.left = {}
      /\ Gone(s) /\ UNCHANGED taskVars
      /\ victims' = victims \cup {victim(p) : p \in mine}
  BY RemoteFields, NamesAssumption DEF Inv, KillSession, Kills
<1>2. /\ remote'.started = remote.started /\ remote'.todo = remote.todo
      /\ remote'.at = None
      /\ remote'.out = remote.out \cup (IF Lives(s) THEN {s} ELSE {})
  BY KillRemote DEF Inv
<1>3. /\ HeldHasChild' /\ held' \subseteq held /\ watched' \subseteq watched
      /\ calm' = calm \ {s} /\ panes' \subseteq panes /\ UNCHANGED minted
  BY <1>1, GoneInv
<1>4. \A p \in panes :
        /\ victim(p).name = s /\ victim(p).pid = p.pid
        /\ victim(p).held => p.pid \in held
        /\ victim(p).watched => s \in watched
  OBVIOUS
<1> HIDE DEF victim, s
<1> USE DEF Inv
<1>5. PidsTell'
  BY <1>1, <1>3 DEF PidsTell
<1>6. Unlisted'
  BY <1>1, <1>2 DEF Unlisted, s
<1>7. Judged'
  BY <1>1, <1>2, <1>3, NamesAssumption DEF Judged
<1>8. Cleared'
  BY <1>2 DEF Cleared
<1>9. CalmIsTodo'
  BY <1>1, <1>2, <1>3 DEF CalmIsTodo, s
<1>10. Printed'
  <2>1. {v.name : v \in victims'} = {v.name : v \in victims} \cup {victim(p).name : p \in mine}
    BY <1>1
  <2>2. {victim(p).name : p \in mine} = IF Lives(s) THEN {s} ELSE {}
    BY <1>4 DEF Lives
  <2>3. remote'.out = {v.name : v \in victims'}
    BY <1>2, <2>1, <2>2 DEF Printed
  <2>4. pc # "reaped" /\ record.reap # "ok"
    BY <1>1 DEF Printed, Done, s
  <2> QED BY <1>1, <2>3, <2>4 DEF Printed
<1>11. OnlyIdleIsReaped'
  <2> SUFFICES ASSUME NEW p \in mine, NEW r \in rows, r.name = s, r.pid = p.pid
               PROVE  ~victim(p).held /\ ~victim(p).watched /\ r.age > limit /\ limit > 0
    BY <1>1, <1>4 DEF OnlyIdleIsReaped
  <2>1. r.pid \notin held
    BY <1>1 DEF Cleared, s
  <2>2. s \notin watched /\ limit > 0 /\ r.age > limit
    BY <1>1 DEF Judged, s
  <2> QED BY <1>4, <2>1, <2>2
<1> QED BY <1>3, <1>5, <1>6, <1>7, <1>8, <1>9, <1>10, <1>11 DEF Kept

LEMMA NextInv == Inv /\ [Next]_vars => Inv'
<1> SUFFICES ASSUME Inv, [Next]_vars PROVE Kept'
  BY NextTyped DEF Inv, Kept
<1>1. CASE Kill
  BY <1>1, NextCandidateInv, PgrepInv, KillSessionInv DEF Kill
<1>2. CASE Task \/ Begin \/ Cancelled
  BY <1>2, TaskInv, ListInv DEF Task
<1>3. CASE \E p \in panes : Launch(p) \/ Exit(p)
  BY <1>3, ShellInv
<1>4. CASE \E s \in Names : Create(s) \/ Attach(s) \/ Close(s)
  BY <1>4, CreateInv, OthersInv
<1>5. CASE Tick \/ Retime \/ Drop \/ UNCHANGED vars
  BY <1>5, OthersInv
<1> QED BY <1>1, <1>2, <1>3, <1>4, <1>5 DEF Next

THEOREM Invariance == Spec => []Inv
  BY InitInv, NextInv, PTL DEF Spec

-----------------------------------------------------------------------------
(* What the invariant implies.                                             *)

\* The reaper kills no listed pane with a child that was there before the kill
\* command, none of an attached session, none that was active within the
\* timeout (ssh.py:419-448).
THEOREM OnlyIdleReaped == Spec => []OnlyIdleIsReaped
<1>1. Inv => OnlyIdleIsReaped
  BY DEF Inv
<1> QED BY <1>1, Invariance, PTL

\* The record of a successful run names the killed sessions (ssh.py:437-448).
THEOREM KillsRecorded == Spec => []RecordTellsKills
<1>1. Inv => RecordTellsKills
  BY DEF Inv, Printed, RecordTellsKills
<1> QED BY <1>1, Invariance, PTL

\* A session that stays idle and untouched does not survive a run that is
\* recorded `ok' (ssh.py:419-448).
THEOREM IdleReaped == Spec => []IdleIsReaped
<1>1. Inv => IdleIsReaped
  <2> SUFFICES ASSUME Inv, record.reap = "ok", NEW s \in calm PROVE FALSE
    BY DEF IdleIsReaped
  <2>1. remote.todo = {} /\ remote.at = None
    BY DEF Inv, Printed, Done
  <2>2. s \in Names
    BY DEF Inv, TypeOK
  <2> QED BY <2>1, <2>2, NamesAssumption DEF Inv, CalmIsTodo
<1> QED BY <1>1, Invariance, PTL

=============================================================================
