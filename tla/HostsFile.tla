------------------------------ MODULE HostsFile ------------------------------
(***************************************************************************)
(* hosts.toml and the keychain, under the commands `hosts add' and `hosts  *)
(* remove' of cli.py: processes of their own, any number at a time, that   *)
(* read the file, change their copy and write it back without a lock.      *)
(*                                                                         *)
(* A step is one access to the file or to the keychain.  write_text        *)
(* truncates the file when it opens it and writes it later.  Of an entry   *)
(* only the auth method is kept; an empty or missing file lists no host.   *)
(***************************************************************************)
EXTENDS Naturals, FiniteSets

CONSTANTS
    Procs,     \* the commands that are run, each by a process of its own
    Aliases,   \* the aliases they are about
    Faults,    \* the faults that may strike, a subset of FaultKinds
    MaxFaults  \* bound: how many of them strike in a behaviour

FaultKinds == {"crash", "keychain", "disk"}

ASSUME FaultsAssumption == Faults \subseteq FaultKinds /\ MaxFaults \in Nat

VARIABLES
    hosts,      \* hosts[a]: what the file says of a
    parses,     \* FALSE when the file is not TOML, hosts is empty then
    secrets,    \* the aliases that have a password in the keychain
    pc,         \* pc[p]: the next access of process p
    job,        \* job[p]: the command
    view,       \* view[p]: the hosts that p has in memory
    faults,     \* how many faults struck so far
    mixed,      \* history: processes that truncated the file and have not
                \* written it, when another did
    raced,      \* history: one read the file while another was to write it
    contended,  \* history: aliases that two commands were about at a time
    wiped,      \* history: a process died, or the disk was full, in a write
    intended,   \* history: hosts as changed by each write so far
    gone,       \* history: aliases a remove took out of the file, or found
                \* out of it, and no add began since
    left        \* history: those whose password it could not wipe, or died
                \* before it did

fileVars == <<hosts, parses>>
histVars == <<mixed, raced, contended, wiped, intended, gone, left>>
vars == <<fileVars, secrets, pc, job, view, faults, histVars>>

Auths == {"key", "password"}
Table == [Aliases -> Auths \cup {"none"}]
Empty == [a \in Aliases |-> "none"]

Jobs == [op : {"add"}, alias : Aliases, auth : Auths]
        \cup [op : {"remove"}, alias : Aliases, auth : {"none"}]

\* read, delete: save_host and delete_host are to read the file.
Pcs == {"new", "store", "read", "check", "delete", "truncate", "write", "wipe",
        "end"}
Writing == {"truncate", "write"}

TypeOK ==
    /\ hosts \in Table /\ parses \in BOOLEAN
    /\ secrets \subseteq Aliases
    /\ pc \in [Procs -> Pcs] /\ job \in [Procs -> Jobs]
    /\ view \in [Procs -> Table]
    /\ faults \in Nat
    /\ mixed \subseteq Procs /\ raced \in BOOLEAN
    /\ contended \subseteq Aliases /\ wiped \in BOOLEAN
    /\ intended \in Table /\ gone \subseteq Aliases /\ left \subseteq Aliases
    /\ ~parses => hosts = Empty
    /\ \A p \in Procs :
        /\ pc[p] = "store" => job[p].auth = "password"
        /\ pc[p] = "read" => job[p].op = "add"
        /\ pc[p] \in {"check", "delete", "wipe"} => job[p].op = "remove"

\* Earlier commands, one at a time, have left any hosts.
Init ==
    /\ hosts \in Table /\ parses = TRUE
    /\ secrets = {a \in Aliases : hosts[a] = "password"}
    /\ pc = [p \in Procs |-> "new"]
    /\ job \in [Procs -> Jobs]
    /\ view = [p \in Procs |-> Empty]
    /\ faults = 0
    /\ mixed = {} /\ raced = FALSE
    /\ contended = {} /\ wiped = FALSE
    /\ intended = hosts /\ gone = {} /\ left = {}

-----------------------------------------------------------------------------
Active(p) == pc[p] \notin {"new", "end"}
At(p, l) == pc' = [pc EXCEPT ![p] = l]

Strikes(f) ==
    /\ f \in Faults
    /\ faults < MaxFaults
    /\ faults' = faults + 1

\* What hosts_add and hosts_remove do first.
FirstAccess(j) ==
    IF j.op = "remove" THEN "check"
    ELSE IF j.auth = "password" THEN "store" ELSE "read"

\* A command is entered and its prompts are answered.
Begin(p) ==
    /\ pc[p] = "new"
    /\ At(p, FirstAccess(job[p]))
    /\ contended' = contended \cup
            {job[q].alias : q \in {r \in Procs \ {p} :
                                   Active(r) /\ job[r].alias = job[p].alias}}
    /\ LET added == IF job[p].op = "add" THEN {job[p].alias} ELSE {} IN
        gone' = gone \ added /\ left' = left \ added
    /\ UNCHANGED <<fileVars, secrets, job, view, faults, mixed, raced, wiped,
                   intended>>

\* keyring.set_password
Store(p) ==
    /\ pc[p] = "store"
    /\ secrets' = secrets \cup {job[p].alias}
    /\ At(p, "read")
    /\ UNCHANGED <<fileVars, job, view, faults, histVars>>

\* The keychain is locked: the command ends.
StoreFails(p) ==
    /\ pc[p] = "store"
    /\ Strikes("keychain")
    /\ At(p, "end")
    /\ UNCHANGED <<fileVars, secrets, job, view, histVars>>

\* tomllib.loads raises, and the command ends.
ReadFails(p) ==
    /\ pc[p] \in {"read", "check", "delete"} /\ ~parses
    /\ At(p, "end")
    /\ UNCHANGED <<fileVars, secrets, job, view, faults, histVars>>

\* p reads the file to write it back.
Reads(p) ==
    raced' = (raced \/ \E q \in Procs \ {p} : pc[q] \in Writing)

SaveRead(p) ==
    /\ pc[p] = "read" /\ parses
    /\ view' = [view EXCEPT ![p] = [hosts EXCEPT ![job[p].alias] = job[p].auth]]
    /\ At(p, "truncate")
    /\ Reads(p)
    /\ UNCHANGED <<fileVars, secrets, job, faults, mixed, contended, wiped,
                   intended, gone, left>>

\* Mutant of Check: the keychain entry is wiped before delete_host.
CheckWipesFirst(p) ==
    /\ pc[p] = "check" /\ parses
    /\ At(p, IF hosts[job[p].alias] = "none" THEN "end" ELSE "delete")
    /\ secrets' = secrets \ {job[p].alias}
    /\ view' = [view EXCEPT ![p] = hosts]
    /\ UNCHANGED <<fileVars, job, faults, histVars>>

\* hosts_remove knows the alias, and the operator confirms or not.
Check(p) ==
    /\ pc[p] = "check" /\ parses
    /\ \/ At(p, "end")
       \/ hosts[job[p].alias] # "none" /\ At(p, "delete")
    /\ view' = [view EXCEPT ![p] = hosts]
    /\ UNCHANGED <<fileVars, secrets, job, faults, histVars>>

\* Mutant of DeleteRead: the hosts that were read before the prompt are used.
DeleteReadEarlier(p) ==
    /\ pc[p] = "delete" /\ parses
    /\ view' = [view EXCEPT ![p][job[p].alias] = "none"]
    /\ At(p, "truncate")
    /\ Reads(p)
    /\ UNCHANGED <<fileVars, secrets, job, faults, mixed, contended, wiped,
                   intended, gone, left>>

\* delete_host reads the file again; an alias that is gone needs no write.
DeleteRead(p) ==
    LET a == job[p].alias IN
    /\ pc[p] = "delete" /\ parses
    /\ view' = [view EXCEPT ![p] = [hosts EXCEPT ![a] = "none"]]
    /\ IF hosts[a] = "none" THEN At(p, "wipe") /\ gone' = gone \cup {a}
                            ELSE At(p, "truncate") /\ UNCHANGED gone
    /\ Reads(p)
    /\ UNCHANGED <<fileVars, secrets, job, faults, mixed, contended, wiped,
                   intended, left>>

\* write_text opens the file.
Truncate(p) ==
    /\ pc[p] = "truncate"
    /\ hosts' = Empty /\ parses' = TRUE
    /\ At(p, "write")
    /\ mixed' = mixed \ {p}
    /\ UNCHANGED <<secrets, job, view, faults, raced, contended, wiped,
                   intended, gone, left>>

\* write_text writes and closes it; the tail of what another process wrote
\* since the file was opened may remain behind.
Write(p) ==
    /\ pc[p] = "write"
    /\ \/ hosts' = view[p] /\ parses' = TRUE
       \/ p \in mixed /\ hosts' = Empty /\ parses' = FALSE
    /\ IF job[p].op = "remove"
       THEN At(p, "wipe") /\ gone' = gone \cup {job[p].alias}
       ELSE At(p, "end") /\ UNCHANGED gone
    /\ mixed' = mixed \cup {q \in Procs : pc[q] = "write"}
    /\ intended' = [intended EXCEPT ![job[p].alias] = job[p].auth]
    /\ UNCHANGED <<secrets, job, view, faults, raced, contended, wiped, left>>

\* The disk is full: only the first tables are in the file, or a torn one.
WriteFails(p) ==
    /\ pc[p] = "write"
    /\ Strikes("disk")
    /\ \/ parses' = FALSE /\ hosts' = Empty
       \/ /\ parses' = TRUE
          /\ \E part \in SUBSET Aliases :
                hosts' = [a \in Aliases |-> IF a \in part THEN view[p][a]
                                            ELSE "none"]
    /\ At(p, "end")
    /\ mixed' = mixed \cup {q \in Procs : pc[q] = "write"}
    /\ wiped' = TRUE
    /\ UNCHANGED <<secrets, job, view, raced, contended, intended, gone,
                   left>>

\* Mutant of Wipe: the password stays.
WipeNot(p) ==
    /\ pc[p] = "wipe"
    /\ At(p, "end")
    /\ UNCHANGED <<fileVars, secrets, job, view, faults, histVars>>

\* keyring.delete_password, of an entry that is there or not
Wipe(p) ==
    /\ pc[p] = "wipe"
    /\ secrets' = secrets \ {job[p].alias}
    /\ At(p, "end")
    /\ UNCHANGED <<fileVars, job, view, faults, histVars>>

\* The keychain is locked: a warning, the password stays, and `Removed' is
\* printed all the same.
WipeFails(p) ==
    /\ pc[p] = "wipe"
    /\ Strikes("keychain")
    /\ At(p, "end")
    /\ left' = left \cup {job[p].alias}
    /\ UNCHANGED <<fileVars, secrets, job, view, mixed, raced, contended, wiped,
                   intended, gone>>

\* The process dies.
Crash(p) ==
    /\ Active(p)
    /\ Strikes("crash")
    /\ At(p, "end")
    /\ wiped' = (wiped \/ pc[p] = "write")
    /\ left' = IF pc[p] = "wipe" THEN left \cup {job[p].alias} ELSE left
    /\ UNCHANGED <<fileVars, secrets, job, view, mixed, raced, contended,
                   intended, gone>>

Step(p) ==
    \/ Begin(p) \/ Store(p) \/ StoreFails(p)
    \/ ReadFails(p) \/ SaveRead(p) \/ Check(p) \/ DeleteRead(p)
    \/ Truncate(p) \/ Write(p) \/ WriteFails(p)
    \/ Wipe(p) \/ WipeFails(p) \/ Crash(p)

Next == \E p \in Procs : Step(p)

Spec == Init /\ [][Next]_vars

-----------------------------------------------------------------------------
\* No update is lost: while no command reads the file between the read and the
\* write of another (config.py:113-137), and no write was interrupted, the
\* file holds every add and every remove so far and nothing else.
UpdatesKept ==
    ~raced /\ ~wiped /\ (\A p \in Procs : pc[p] # "write")
        => hosts = intended /\ parses

\* Every host that is listed with auth = "password" has its password in the
\* keychain, whatever crashes or fails between the two stores: the commands
\* set it before they list the host and wipe it after (cli.py:125-143,
\* 183-190).  Two commands about one alias, or racing for the file, can
\* break that.
ListedHasSecret ==
    ~raced => \A a \in Aliases \ contended : hosts[a] = "password" => a \in secrets

\* Once `hosts remove' has the host out of the file, the host is listed no more
\* until it is added again; and its password is gone, or about to be wiped by
\* that command, unless the keychain refused or the process died just then
\* (cli.py:183-191).
RemovedIsGone ==
    \A a \in gone \ contended :
        /\ a \in secrets =>
            \/ a \in left
            \/ \E p \in Procs : pc[p] = "wipe" /\ job[p].alias = a
        /\ ~raced => hosts[a] = "none"

\* Without a fault no password is left behind for which `hosts remove' finds
\* no host any more (cli.py:177-179).
SecretIsRemovable ==
    ~raced /\ faults = 0 /\ (\A p \in Procs : pc[p] # "write") =>
        \A a \in secrets \ contended :
            \/ hosts[a] # "none"
            \/ \E p \in Procs : Active(p) /\ job[p].alias = a
=============================================================================
