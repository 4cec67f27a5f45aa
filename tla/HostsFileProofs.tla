-------------------------- MODULE HostsFileProofs --------------------------
(***************************************************************************)
(* What HostsFile promises holds for any number of commands, aliases and   *)
(* faults.  The inductive invariant adds, of the hosts that a process has  *)
(* in memory, what the properties say of the file.                         *)
(***************************************************************************)
EXTENDS HostsFile, TLAPS

\* While there was no race, one process at a time is to write.
Alone ==
    ~raced => \A p, q \in Procs : pc[p] \in Writing /\ pc[q] \in Writing => p = q

\* Two commands about one alias have been noted.
Noted ==
    \A p, q \in Procs :
        Active(p) /\ Active(q) /\ p # q /\ job[p].alias = job[q].alias
            => job[p].alias \in contended

\* What a process is to write has its own change.
OwnChange ==
    \A p \in Procs : pc[p] \in Writing => view[p][job[p].alias] = job[p].auth

\* hosts add has stored the password that it is to list.
Stored ==
    \A p \in Procs :
        pc[p] = "read" /\ job[p].auth = "password"
            => job[p].alias \in secrets \cup contended

\* What is listed, or is to be written, has its password.
Backed ==
    ~raced => \A a \in Aliases \ contended :
        /\ hosts[a] = "password" => a \in secrets
        /\ \A p \in Procs :
            pc[p] \in Writing /\ view[p][a] = "password" => a \in secrets

\* When the password is to be wiped, the host is listed nowhere.
Unlisted ==
    ~raced => \A p \in Procs :
        pc[p] = "wipe" /\ job[p].alias \notin contended =>
            /\ hosts[job[p].alias] = "none"
            /\ \A q \in Procs :
                pc[q] \in Writing => view[q][job[p].alias] = "none"

\* A removed host is listed nowhere and not being added, and its password is
\* gone, about to be wiped or left behind.
Removed ==
    \A a \in gone \ contended :
        /\ a \in secrets =>
            \/ a \in left
            \/ \E p \in Procs : pc[p] = "wipe" /\ job[p].alias = a
        /\ \A p \in Procs : Active(p) /\ job[p].alias = a => job[p].op = "remove"
        /\ ~raced =>
            /\ hosts[a] = "none"
            /\ \A q \in Procs : pc[q] \in Writing => view[q][a] = "none"

\* Every write changes the hosts as they were meant to be.
Kept ==
    ~raced /\ ~wiped =>
        /\ parses
        /\ (\A p \in Procs : pc[p] # "write") => hosts = intended
        /\ \A p \in Procs : pc[p] \in Writing =>
            view[p] = [intended EXCEPT ![job[p].alias] = job[p].auth]

\* Only a race mixes two writes.
Unmixed == ~raced => \A p \in Procs : pc[p] = "write" => p \notin mixed

WipedByFault == wiped => faults > 0

\* Without a fault a password has its host, or a command that will list it.
Owned ==
    ~raced /\ faults = 0 => \A a \in secrets \ contended :
        \/ \E p \in Procs :
            /\ Active(p) /\ job[p].alias = a
            /\ job[p].op = "add" \/ pc[p] = "wipe"
        \/ /\ (\A p \in Procs : pc[p] # "write") => hosts[a] # "none"
           /\ \A q \in Procs :
                pc[q] \in Writing /\ job[q].alias # a => view[q][a] # "none"

Inv ==
    /\ TypeOK /\ Alone /\ Noted /\ OwnChange /\ Stored /\ Backed /\ Unlisted
    /\ Removed /\ Kept /\ Unmixed /\ WipedByFault /\ Owned

-----------------------------------------------------------------------------
\* A reader that makes no race finds nobody who is to write.
LEMMA ReadsTell ==
    ASSUME TypeOK, NEW p \in Procs, Reads(p)
    PROVE  /\ raced' \in BOOLEAN
           /\ ~raced' => ~raced /\ \A q \in Procs : q # p => pc[q] \notin Writing
  BY Zenon DEF TypeOK, Reads

\* Every step keeps the types.
LEMMA TypeOKStep ==
    ASSUME Inv, NEW p \in Procs, Step(p)
    PROVE  TypeOK'
PROOF
  <1> USE DEF Inv, TypeOK, At, Writing, Table, Jobs, Auths, fileVars, histVars,
      Pcs, Empty
  <1>1. CASE Begin(p)
    BY <1>1, SMTT(30) DEF Begin, FirstAccess, Active
  <1>2. CASE Store(p)
    BY <1>2, SMTT(30) DEF Store
  <1>3. CASE StoreFails(p)
    BY <1>3, SMTT(30) DEF StoreFails, Strikes
  <1>4. CASE ReadFails(p)
    BY <1>4, SMTT(30) DEF ReadFails
  <1>5. CASE SaveRead(p)
    BY <1>5, ReadsTell, SMTT(30) DEF SaveRead
  <1>6. CASE Check(p)
    BY <1>6, SMTT(30) DEF Check
  <1>7. CASE DeleteRead(p)
    BY <1>7, ReadsTell, SMTT(30) DEF DeleteRead
  <1>8. CASE Truncate(p)
    BY <1>8, SMTT(30) DEF Truncate
  <1>9. CASE Write(p)
    <2>1. mixed' \subseteq Procs
      BY <1>9, Zenon DEF Write
    <2>2. hosts' \in Table /\ parses' \in BOOLEAN /\ (~parses' => hosts' = Empty)
      <3>1. view[p] \in Table
        BY SMTT(30)
      <3>2. hosts' \in Table
        BY <1>9, <3>1, SMTT(30) DEF Write
      <3>3. parses' \in BOOLEAN /\ (~parses' => hosts' = Empty)
        BY <1>9, Zenon DEF Write
      <3>4. QED
        BY <3>2, <3>3
    <2>3. pc' \in [Procs -> Pcs] /\ wiped' \in BOOLEAN /\ intended' \in Table
      BY <1>9, SMTT(30) DEF Write
    <2>4. faults' \in Nat
      BY <1>9, SMTT(30) DEF Write
    <2>5. /\ UNCHANGED <<secrets, job, view, contended, left>>
          /\ raced' \in BOOLEAN /\ gone' \subseteq Aliases
      BY <1>9, SMTT(30) DEF Write
    <2>6. \A q \in Procs : pc'[q] = pc[q]
            \/ (q = p /\ (pc'[q] = "wipe" => job[q].op = "remove")
                /\ pc'[q] \in {"wipe", "end"})
      BY <1>9, SMTT(30) DEF Write
    <2>7. QED
      BY <2>1, <2>2, <2>3, <2>4, <2>5, <2>6, SMTT(30)
  <1>10. CASE WriteFails(p)
    <2>1. mixed' \subseteq Procs
      BY <1>10, Zenon DEF WriteFails
    <2>2. hosts' \in Table /\ parses' \in BOOLEAN /\ (~parses' => hosts' = Empty)
      <3>1. view[p] \in Table
        BY SMTT(30)
      <3>2. hosts' \in Table
        BY <1>10, <3>1, SMTT(30) DEF WriteFails
      <3>3. parses' \in BOOLEAN /\ (~parses' => hosts' = Empty)
        BY <1>10, Zenon DEF WriteFails
      <3>4. QED
        BY <3>2, <3>3
    <2>3. pc' \in [Procs -> Pcs] /\ wiped' \in BOOLEAN /\ intended' \in Table
      BY <1>10, SMTT(30) DEF WriteFails
    <2>4. faults' \in Nat
      BY <1>10, SMTT(30) DEF WriteFails, Strikes
    <2>5. /\ UNCHANGED <<secrets, job, view, contended, gone, left>>
          /\ raced' \in BOOLEAN
      BY <1>10, SMTT(30) DEF WriteFails
    <2>6. \A q \in Procs : pc'[q] = pc[q]
            \/ (q = p /\ (pc'[q] = "wipe" => job[q].op = "remove")
                /\ pc'[q] \in {"wipe", "end"})
      BY <1>10, SMTT(30) DEF WriteFails
    <2>7. QED
      BY <2>1, <2>2, <2>3, <2>4, <2>5, <2>6, SMTT(30)
  <1>11. CASE Wipe(p)
    BY <1>11, SMTT(30) DEF Wipe
  <1>12. CASE WipeFails(p)
    BY <1>12, SMTT(30) DEF WipeFails, Strikes
  <1>13. CASE Crash(p)
    BY <1>13, SMTT(30) DEF Crash, Active, Strikes
  <1>14. QED
    BY <1>1, <1>2, <1>3, <1>4, <1>5, <1>6, <1>7, <1>8, <1>9, <1>10, <1>11,
        <1>12, <1>13 DEF Step

\* A second process that is to write makes a race.
LEMMA AloneStep ==
    ASSUME Inv, NEW p \in Procs, Step(p)
    PROVE  Alone'
PROOF
  <1> USE DEF Inv, TypeOK, Alone, At, Writing, Table, Jobs, Auths, fileVars,
      histVars, Empty
  <1>1. CASE Begin(p)
    BY <1>1, SMTT(30) DEF Begin, FirstAccess, Active
  <1>2. CASE Store(p)
    BY <1>2, SMTT(30) DEF Store
  <1>3. CASE StoreFails(p)
    BY <1>3, SMTT(30) DEF StoreFails, Strikes
  <1>4. CASE ReadFails(p)
    BY <1>4, SMTT(30) DEF ReadFails
  <1>5. CASE SaveRead(p)
    BY <1>5, ReadsTell, SMTT(30) DEF SaveRead
  <1>6. CASE Check(p)
    BY <1>6, SMTT(30) DEF Check
  <1>7. CASE DeleteRead(p)
    BY <1>7, ReadsTell, SMTT(30) DEF DeleteRead
  <1>8. CASE Truncate(p)
    BY <1>8, SMTT(30) DEF Truncate
  <1>9. CASE Write(p)
    BY <1>9, SMTT(30) DEF Write
  <1>10. CASE WriteFails(p)
    BY <1>10, SMTT(30) DEF WriteFails, Strikes
  <1>11. CASE Wipe(p)
    BY <1>11, SMTT(30) DEF Wipe
  <1>12. CASE WipeFails(p)
    BY <1>12, SMTT(30) DEF WipeFails, Strikes
  <1>13. CASE Crash(p)
    BY <1>13, SMTT(30) DEF Crash, Active, Strikes
  <1>14. QED
    BY <1>1, <1>2, <1>3, <1>4, <1>5, <1>6, <1>7, <1>8, <1>9, <1>10, <1>11,
        <1>12, <1>13 DEF Step

\* A command that begins notes the others about its alias.
LEMMA NotedStep ==
    ASSUME Inv, NEW p \in Procs, Step(p)
    PROVE  Noted'
PROOF
  <1> USE DEF Inv, TypeOK, Noted, At, Writing, Table, Jobs, Auths, fileVars,
      histVars, Empty, Active
  <1>1. CASE Begin(p)
    BY <1>1, SMTT(30) DEF Begin, FirstAccess
  <1>2. CASE Store(p)
    BY <1>2, SMTT(30) DEF Store
  <1>3. CASE StoreFails(p)
    BY <1>3, SMTT(30) DEF StoreFails, Strikes
  <1>4. CASE ReadFails(p)
    BY <1>4, SMTT(30) DEF ReadFails
  <1>5. CASE SaveRead(p)
    BY <1>5, ReadsTell, SMTT(30) DEF SaveRead
  <1>6. CASE Check(p)
    BY <1>6, SMTT(30) DEF Check
  <1>7. CASE DeleteRead(p)
    BY <1>7, ReadsTell, SMTT(30) DEF DeleteRead
  <1>8. CASE Truncate(p)
    BY <1>8, SMTT(30) DEF Truncate
  <1>9. CASE Write(p)
    BY <1>9, SMTT(30) DEF Write
  <1>10. CASE WriteFails(p)
    BY <1>10, SMTT(30) DEF WriteFails, Strikes
  <1>11. CASE Wipe(p)
    BY <1>11, SMTT(30) DEF Wipe
  <1>12. CASE WipeFails(p)
    BY <1>12, SMTT(30) DEF WipeFails, Strikes
  <1>13. CASE Crash(p)
    BY <1>13, SMTT(30) DEF Crash, Strikes
  <1>14. QED
    BY <1>1, <1>2, <1>3, <1>4, <1>5, <1>6, <1>7, <1>8, <1>9, <1>10, <1>11,
        <1>12, <1>13 DEF Step

\* Only the process itself changes what it is to write.
LEMMA OwnChangeStep ==
    ASSUME Inv, NEW p \in Procs, Step(p)
    PROVE  OwnChange'
PROOF
  <1> USE DEF Inv, TypeOK, OwnChange, At, Writing, Table, Jobs, Auths,
      fileVars, histVars, Empty
  <1>1. CASE Begin(p)
    BY <1>1, SMTT(30) DEF Begin, FirstAccess, Active
  <1>2. CASE Store(p)
    BY <1>2, SMTT(30) DEF Store
  <1>3. CASE StoreFails(p)
    BY <1>3, SMTT(30) DEF StoreFails, Strikes
  <1>4. CASE ReadFails(p)
    BY <1>4, SMTT(30) DEF ReadFails
  <1>5. CASE SaveRead(p)
    BY <1>5, ReadsTell, SMTT(30) DEF SaveRead
  <1>6. CASE Check(p)
    BY <1>6, SMTT(30) DEF Check
  <1>7. CASE DeleteRead(p)
    BY <1>7, ReadsTell, SMTT(30) DEF DeleteRead
  <1>8. CASE Truncate(p)
    BY <1>8, SMTT(30) DEF Truncate
  <1>9. CASE Write(p)
    BY <1>9, SMTT(30) DEF Write
  <1>10. CASE WriteFails(p)
    BY <1>10, SMTT(30) DEF WriteFails, Strikes
  <1>11. CASE Wipe(p)
    BY <1>11, SMTT(30) DEF Wipe
  <1>12. CASE WipeFails(p)
    BY <1>12, SMTT(30) DEF WipeFails, Strikes
  <1>13. CASE Crash(p)
    BY <1>13, SMTT(30) DEF Crash, Active, Strikes
  <1>14. QED
    BY <1>1, <1>2, <1>3, <1>4, <1>5, <1>6, <1>7, <1>8, <1>9, <1>10, <1>11,
        <1>12, <1>13 DEF Step

\* A password that was set is wiped only by a command about its alias.
LEMMA StoredStep ==
    ASSUME Inv, NEW p \in Procs, Step(p)
    PROVE  Stored'
PROOF
  <1> USE DEF Inv, TypeOK, Stored, Noted, At, Writing, Table, Jobs, Auths,
      fileVars, histVars, Empty, Active
  <1>1. CASE Begin(p)
    BY <1>1, SMTT(30) DEF Begin, FirstAccess
  <1>2. CASE Store(p)
    BY <1>2, SMTT(30) DEF Store
  <1>3. CASE StoreFails(p)
    BY <1>3, SMTT(30) DEF StoreFails, Strikes
  <1>4. CASE ReadFails(p)
    BY <1>4, SMTT(30) DEF ReadFails
  <1>5. CASE SaveRead(p)
    BY <1>5, ReadsTell, SMTT(30) DEF SaveRead
  <1>6. CASE Check(p)
    BY <1>6, SMTT(30) DEF Check
  <1>7. CASE DeleteRead(p)
    BY <1>7, ReadsTell, SMTT(30) DEF DeleteRead
  <1>8. CASE Truncate(p)
    BY <1>8, SMTT(30) DEF Truncate
  <1>9. CASE Write(p)
    BY <1>9, SMTT(30) DEF Write
  <1>10. CASE WriteFails(p)
    BY <1>10, SMTT(30) DEF WriteFails, Strikes
  <1>11. CASE Wipe(p)
    BY <1>11, SMTT(30) DEF Wipe
  <1>12. CASE WipeFails(p)
    BY <1>12, SMTT(30) DEF WipeFails, Strikes
  <1>13. CASE Crash(p)
    BY <1>13, SMTT(30) DEF Crash, Strikes
  <1>14. QED
    BY <1>1, <1>2, <1>3, <1>4, <1>5, <1>6, <1>7, <1>8, <1>9, <1>10, <1>11,
        <1>12, <1>13 DEF Step

\* No step lists a host without its password or wipes that of a listed one.
LEMMA BackedStep ==
    ASSUME Inv, NEW p \in Procs, Step(p)
    PROVE  Backed'
PROOF
  <1> USE DEF Inv, TypeOK, Backed, Stored, Alone, Noted, Unlisted, At, Writing,
      Table, Jobs, Auths, fileVars, histVars, Empty, Active
  <1>1. CASE Begin(p)
    BY <1>1, SMTT(30) DEF Begin, FirstAccess
  <1>2. CASE Store(p)
    BY <1>2, SMTT(30) DEF Store
  <1>3. CASE StoreFails(p)
    BY <1>3, SMTT(30) DEF StoreFails, Strikes
  <1>4. CASE ReadFails(p)
    BY <1>4, SMTT(30) DEF ReadFails
  <1>5. CASE SaveRead(p)
    BY <1>5, ReadsTell, SMTT(30) DEF SaveRead
  <1>6. CASE Check(p)
    BY <1>6, SMTT(30) DEF Check
  <1>7. CASE DeleteRead(p)
    BY <1>7, ReadsTell, SMTT(30) DEF DeleteRead
  <1>8. CASE Truncate(p)
    BY <1>8, SMTT(30) DEF Truncate
  <1>9. CASE Write(p)
    BY <1>9, SMTT(30) DEF Write
  <1>10. CASE WriteFails(p)
    BY <1>10, SMTT(30) DEF WriteFails, Strikes
  <1>11. CASE Wipe(p)
    BY <1>11, SMTT(30) DEF Wipe
  <1>12. CASE WipeFails(p)
    BY <1>12, SMTT(30) DEF WipeFails, Strikes
  <1>13. CASE Crash(p)
    BY <1>13, SMTT(30) DEF Crash, Strikes
  <1>14. QED
    BY <1>1, <1>2, <1>3, <1>4, <1>5, <1>6, <1>7, <1>8, <1>9, <1>10, <1>11,
        <1>12, <1>13 DEF Step

\* A host is listed again only by a command about it.
LEMMA UnlistedStep ==
    ASSUME Inv, NEW p \in Procs, Step(p)
    PROVE  Unlisted'
PROOF
  <1> USE DEF Inv, TypeOK, Unlisted, OwnChange, Noted, Alone, At, Writing,
      Table, Jobs, Auths, fileVars, histVars, Empty, Active
  <1>1. CASE Begin(p)
    BY <1>1, SMTT(30) DEF Begin, FirstAccess
  <1>2. CASE Store(p)
    BY <1>2, SMTT(30) DEF Store
  <1>3. CASE StoreFails(p)
    BY <1>3, SMTT(30) DEF StoreFails, Strikes
  <1>4. CASE ReadFails(p)
    BY <1>4, SMTT(30) DEF ReadFails
  <1>5. CASE SaveRead(p)
    BY <1>5, ReadsTell, SMTT(30) DEF SaveRead
  <1>6. CASE Check(p)
    BY <1>6, SMTT(30) DEF Check
  <1>7. CASE DeleteRead(p)
    BY <1>7, ReadsTell, SMTT(30) DEF DeleteRead
  <1>8. CASE Truncate(p)
    BY <1>8, SMTT(30) DEF Truncate
  <1>9. CASE Write(p)
    BY <1>9, SMTT(30) DEF Write
  <1>10. CASE WriteFails(p)
    BY <1>10, SMTT(30) DEF WriteFails, Strikes
  <1>11. CASE Wipe(p)
    BY <1>11, SMTT(30) DEF Wipe
  <1>12. CASE WipeFails(p)
    BY <1>12, SMTT(30) DEF WipeFails, Strikes
  <1>13. CASE Crash(p)
    BY <1>13, SMTT(30) DEF Crash, Strikes
  <1>14. QED
    BY <1>1, <1>2, <1>3, <1>4, <1>5, <1>6, <1>7, <1>8, <1>9, <1>10, <1>11,
        <1>12, <1>13 DEF Step

\* A removed host comes back only by a command that adds it.
LEMMA RemovedStep ==
    ASSUME Inv, NEW p \in Procs, Step(p)
    PROVE  Removed'
PROOF
  <1> USE DEF Inv, TypeOK, Removed, OwnChange, Noted, Alone, At, Writing, Table,
      Jobs, Auths, fileVars, histVars, Empty, Active
  <1>1. CASE Begin(p)
    BY <1>1, SMTT(30) DEF Begin, FirstAccess
  <1>2. CASE Store(p)
    BY <1>2, SMTT(30) DEF Store
  <1>3. CASE StoreFails(p)
    BY <1>3, SMTT(30) DEF StoreFails, Strikes
  <1>4. CASE ReadFails(p)
    BY <1>4, SMTT(30) DEF ReadFails
  <1>5. CASE SaveRead(p)
    BY <1>5, ReadsTell, SMTT(30) DEF SaveRead
  <1>6. CASE Check(p)
    BY <1>6, SMTT(30) DEF Check
  <1>7. CASE DeleteRead(p)
    <2> DEFINE b == job[p].alias
    <2>1. /\ UNCHANGED <<hosts, secrets, job, contended, left>>
          /\ view' = [view EXCEPT ![p] = [hosts EXCEPT ![b] = "none"]]
          /\ pc[p] = "delete" /\ job[p].op = "remove" /\ Active(p)
      BY <1>7 DEF DeleteRead
    <2>2. \/ /\ hosts[b] = "none" /\ gone' = gone \cup {b}
             /\ pc' = [pc EXCEPT ![p] = "wipe"]
          \/ gone' = gone /\ pc' = [pc EXCEPT ![p] = "truncate"]
      BY <1>7 DEF DeleteRead
    <2>3. ~raced' => ~raced /\ \A q \in Procs : q # p => pc[q] \notin Writing
      BY <1>7, ReadsTell DEF DeleteRead
    <2>4. \A a \in gone' : (a \in gone) \/ (a = b /\ pc'[p] = "wipe")
      <3>1. CASE gone' = gone \cup {b} /\ pc' = [pc EXCEPT ![p] = "wipe"]
        <4>1. DOMAIN pc = Procs /\ p \in Procs
          BY DEF TypeOK
        <4>2. pc'[p] = "wipe"
          BY <3>1, <4>1, Zenon
        <4> QED
          BY <3>1, <4>2, SMT
      <3>2. CASE gone' = gone
        BY <3>2, SMT
      <3> QED
        BY <2>2, <3>1, <3>2
    <2>5. ASSUME NEW a \in gone' \ contended', a \in secrets'
          PROVE  a \in left' \/ \E q \in Procs : pc'[q] = "wipe" /\ job'[q].alias = a
      <3>1. CASE a = b /\ pc'[p] = "wipe"
        BY <2>1, <3>1
      <3>2. CASE a \in gone
        <4>1. \A q \in Procs : pc[q] = "wipe" => pc'[q] = "wipe"
          BY <2>1, <2>2
        <4>2. a \in left \/ \E q \in Procs : pc[q] = "wipe" /\ job[q].alias = a
          BY <2>1, <2>5, <3>2
        <4> QED
          BY <2>1, <4>1, <4>2
      <3>3. QED
        BY <2>1, <2>4, <2>5, <3>1, <3>2
    <2>6. ASSUME NEW a \in gone' \ contended', NEW q \in Procs, Active(q)',
                 job'[q].alias = a
          PROVE  job'[q].op = "remove"
      BY <2>1, <2>2, <2>4, <2>6, SMTT(30)
    <2>7. ASSUME NEW a \in gone' \ contended', ~raced'
          PROVE  /\ hosts'[a] = "none"
                 /\ \A q \in Procs : pc'[q] \in Writing => view'[q][a] = "none"
      <3>1. hosts[a] = "none"
        BY <2>1, <2>2, <2>3, <2>7, SMTT(30)
      <3>2. \A q \in Procs : pc'[q] \in Writing => q = p
        BY <2>2, <2>3, <2>7, SMTT(30)
      <3>3. view'[p][a] = "none"
        BY <2>1, <2>7, <3>1, SMTT(30)
      <3>4. QED
        BY <2>1, <3>1, <3>2, <3>3
    <2>8. QED
      BY <2>5, <2>6, <2>7
  <1>8. CASE Truncate(p)
    BY <1>8, SMTT(30) DEF Truncate
  <1>9. CASE Write(p)
    BY <1>9, SMTT(30) DEF Write
  <1>10. CASE WriteFails(p)
    BY <1>10, SMTT(30) DEF WriteFails, Strikes
  <1>11. CASE Wipe(p)
    BY <1>11, SMTT(30) DEF Wipe
  <1>12. CASE WipeFails(p)
    BY <1>12, SMTT(30) DEF WipeFails, Strikes
  <1>13. CASE Crash(p)
    BY <1>13, SMTT(30) DEF Crash, Strikes
  <1>14. QED
    BY <1>1, <1>2, <1>3, <1>4, <1>5, <1>6, <1>7, <1>8, <1>9, <1>10, <1>11,
        <1>12, <1>13 DEF Step

\* A write makes the file what it is meant to be.
LEMMA KeptStep ==
    ASSUME Inv, NEW p \in Procs, Step(p)
    PROVE  Kept'
PROOF
  <1> USE DEF Inv, TypeOK, Kept, Alone, Unmixed, At, Writing, Table, Jobs,
      Auths, fileVars, histVars, Empty
  <1>1. CASE Begin(p)
    BY <1>1, SMTT(30) DEF Begin, FirstAccess, Active
  <1>2. CASE Store(p)
    BY <1>2, SMTT(30) DEF Store
  <1>3. CASE StoreFails(p)
    BY <1>3, SMTT(30) DEF StoreFails, Strikes
  <1>4. CASE ReadFails(p)
    BY <1>4, SMTT(30) DEF ReadFails
  <1>5. CASE SaveRead(p)
    <2>1. SUFFICES ASSUME ~raced', ~wiped' PROVE Kept'
      OBVIOUS
    <2>2. ~raced /\ ~wiped /\ \A q \in Procs : q # p => pc[q] \notin Writing
      BY <1>5, <2>1, ReadsTell, SMTT(30) DEF SaveRead
    <2>3. hosts = intended /\ parses
      BY <1>5, <2>2, SMTT(30) DEF SaveRead
    <2>4. \A q \in Procs : pc'[q] \in Writing => q = p
      BY <1>5, <2>2, SMTT(30) DEF SaveRead
    <2>5. pc'[p] \in Writing =>
            view'[p] = [intended' EXCEPT ![job'[p].alias] = job'[p].auth]
      <3>1. view'[p] = [hosts EXCEPT ![job[p].alias] = job[p].auth]
        BY <1>5, SMTT(30) DEF SaveRead
      <3>2. intended' = intended /\ job' = job
        BY <1>5 DEF SaveRead
      <3>3. QED
        BY <2>3, <3>1, <3>2, Zenon
    <2>6. hosts' = intended' /\ parses'
      BY <1>5, <2>3, SMTT(30) DEF SaveRead
    <2>7. QED
      BY <2>4, <2>5, <2>6, Zenon
  <1>6. CASE Check(p)
    BY <1>6, SMTT(30) DEF Check
  <1>7. CASE DeleteRead(p)
    <2>1. SUFFICES ASSUME ~raced', ~wiped' PROVE Kept'
      OBVIOUS
    <2>2. ~raced /\ ~wiped /\ \A q \in Procs : q # p => pc[q] \notin Writing
      BY <1>7, <2>1, ReadsTell, SMTT(30) DEF DeleteRead
    <2>3. hosts = intended /\ parses
      BY <1>7, <2>2, SMTT(30) DEF DeleteRead
    <2>4. \A q \in Procs : pc'[q] \in Writing => q = p
      BY <1>7, <2>2, SMTT(30) DEF DeleteRead
    <2>5. pc'[p] \in Writing =>
            view'[p] = [intended' EXCEPT ![job'[p].alias] = job'[p].auth]
      <3>1. view'[p] = [hosts EXCEPT ![job[p].alias] = "none"]
        BY <1>7, SMTT(30) DEF DeleteRead
      <3>2. job[p].auth = "none"
        BY <1>7, SMTT(30) DEF DeleteRead
      <3>3. intended' = intended /\ job' = job
        BY <1>7 DEF DeleteRead
      <3>4. QED
        BY <2>3, <3>1, <3>2, <3>3, Zenon
    <2>6. hosts' = intended' /\ parses'
      BY <1>7, <2>3, SMTT(30) DEF DeleteRead
    <2>7. QED
      BY <2>4, <2>5, <2>6, Zenon
  <1>8. CASE Truncate(p)
    BY <1>8, SMTT(30) DEF Truncate
  <1>9. CASE Write(p)
    BY <1>9, SMTT(30) DEF Write
  <1>10. CASE WriteFails(p)
    BY <1>10, SMTT(30) DEF WriteFails, Strikes
  <1>11. CASE Wipe(p)
    BY <1>11, SMTT(30) DEF Wipe
  <1>12. CASE WipeFails(p)
    BY <1>12, SMTT(30) DEF WipeFails, Strikes
  <1>13. CASE Crash(p)
    BY <1>13, SMTT(30) DEF Crash, Active, Strikes
  <1>14. QED
    BY <1>1, <1>2, <1>3, <1>4, <1>5, <1>6, <1>7, <1>8, <1>9, <1>10, <1>11,
        <1>12, <1>13 DEF Step

\* Two writes at a time are a race.
LEMMA UnmixedStep ==
    ASSUME Inv, NEW p \in Procs, Step(p)
    PROVE  Unmixed'
PROOF
  <1> USE DEF Inv, TypeOK, Unmixed, Alone, At, Writing, Table, Jobs, Auths,
      fileVars, histVars, Empty
  <1>1. CASE Begin(p)
    BY <1>1, SMTT(30) DEF Begin, FirstAccess, Active
  <1>2. CASE Store(p)
    BY <1>2, SMTT(30) DEF Store
  <1>3. CASE StoreFails(p)
    BY <1>3, SMTT(30) DEF StoreFails, Strikes
  <1>4. CASE ReadFails(p)
    BY <1>4, SMTT(30) DEF ReadFails
  <1>5. CASE SaveRead(p)
    BY <1>5, ReadsTell, SMTT(30) DEF SaveRead
  <1>6. CASE Check(p)
    BY <1>6, SMTT(30) DEF Check
  <1>7. CASE DeleteRead(p)
    BY <1>7, ReadsTell, SMTT(30) DEF DeleteRead
  <1>8. CASE Truncate(p)
    BY <1>8, SMTT(30) DEF Truncate
  <1>9. CASE Write(p)
    BY <1>9, SMTT(30) DEF Write
  <1>10. CASE WriteFails(p)
    BY <1>10, SMTT(30) DEF WriteFails, Strikes
  <1>11. CASE Wipe(p)
    BY <1>11, SMTT(30) DEF Wipe
  <1>12. CASE WipeFails(p)
    BY <1>12, SMTT(30) DEF WipeFails, Strikes
  <1>13. CASE Crash(p)
    BY <1>13, SMTT(30) DEF Crash, Active, Strikes
  <1>14. QED
    BY <1>1, <1>2, <1>3, <1>4, <1>5, <1>6, <1>7, <1>8, <1>9, <1>10, <1>11,
        <1>12, <1>13 DEF Step

\* Interrupted writes are faults.
LEMMA WipedByFaultStep ==
    ASSUME Inv, NEW p \in Procs, Step(p)
    PROVE  WipedByFault'
PROOF
  <1> USE DEF Inv, TypeOK, WipedByFault, At, Writing, Table, Jobs, Auths,
      fileVars, histVars, Empty
  <1>1. CASE Begin(p)
    BY <1>1, SMTT(30) DEF Begin, FirstAccess, Active
  <1>2. CASE Store(p)
    BY <1>2, SMTT(30) DEF Store
  <1>3. CASE StoreFails(p)
    BY <1>3, SMTT(30) DEF StoreFails, Strikes
  <1>4. CASE ReadFails(p)
    BY <1>4, SMTT(30) DEF ReadFails
  <1>5. CASE SaveRead(p)
    BY <1>5, ReadsTell, SMTT(30) DEF SaveRead
  <1>6. CASE Check(p)
    BY <1>6, SMTT(30) DEF Check
  <1>7. CASE DeleteRead(p)
    BY <1>7, ReadsTell, SMTT(30) DEF DeleteRead
  <1>8. CASE Truncate(p)
    BY <1>8, SMTT(30) DEF Truncate
  <1>9. CASE Write(p)
    BY <1>9, SMTT(30) DEF Write
  <1>10. CASE WriteFails(p)
    BY <1>10, SMTT(30) DEF WriteFails, Strikes
  <1>11. CASE Wipe(p)
    BY <1>11, SMTT(30) DEF Wipe
  <1>12. CASE WipeFails(p)
    BY <1>12, SMTT(30) DEF WipeFails, Strikes
  <1>13. CASE Crash(p)
    BY <1>13, SMTT(30) DEF Crash, Active, Strikes
  <1>14. QED
    BY <1>1, <1>2, <1>3, <1>4, <1>5, <1>6, <1>7, <1>8, <1>9, <1>10, <1>11,
        <1>12, <1>13 DEF Step

\* A password loses its host only to the command that wipes it.
LEMMA OwnedStep ==
    ASSUME Inv, NEW p \in Procs, Step(p)
    PROVE  Owned'
PROOF
  <1> USE DEF Inv, TypeOK, Owned, OwnChange, Kept, WipedByFault, Noted, Alone,
      Unmixed, At, Writing, Table, Jobs, Auths, fileVars, histVars, Empty,
      Active
  <1>1. CASE Begin(p)
    BY <1>1, SMTT(30) DEF Begin, FirstAccess
  <1>2. CASE Store(p)
    BY <1>2, SMTT(30) DEF Store
  <1>3. CASE StoreFails(p)
    BY <1>3, SMTT(30) DEF StoreFails, Strikes
  <1>4. CASE ReadFails(p)
    BY <1>4, SMTT(30) DEF ReadFails
  <1>5. CASE SaveRead(p)
    BY <1>5, ReadsTell, SMTT(30) DEF SaveRead
  <1>6. CASE Check(p)
    BY <1>6, SMTT(30) DEF Check
  <1>7. CASE DeleteRead(p)
    BY <1>7, ReadsTell, SMTT(30) DEF DeleteRead
  <1>8. CASE Truncate(p)
    BY <1>8, SMTT(30) DEF Truncate
  <1>9. CASE Write(p)
    BY <1>9, SMTT(30) DEF Write
  <1>10. CASE WriteFails(p)
    BY <1>10, SMTT(30) DEF WriteFails, Strikes
  <1>11. CASE Wipe(p)
    <2>1. /\ UNCHANGED <<hosts, job, view, faults, raced, contended>>
          /\ pc' = [pc EXCEPT ![p] = "end"] /\ pc[p] = "wipe"
          /\ secrets' = secrets \ {job[p].alias}
      BY <1>11 DEF Wipe
    <2>2. QED
      BY <2>1, SMTT(30)
  <1>12. CASE WipeFails(p)
    BY <1>12, SMTT(30) DEF WipeFails, Strikes
  <1>13. CASE Crash(p)
    BY <1>13, SMTT(30) DEF Crash, Strikes
  <1>14. QED
    BY <1>1, <1>2, <1>3, <1>4, <1>5, <1>6, <1>7, <1>8, <1>9, <1>10, <1>11,
        <1>12, <1>13 DEF Step

\* Init establishes the invariant.
LEMMA InitInv == Init => Inv
PROOF
  <1> SUFFICES ASSUME Init PROVE Inv
    OBVIOUS
  <1>1. TypeOK
    <2>1. raced \in BOOLEAN /\ wiped \in BOOLEAN /\ parses \in BOOLEAN
      BY Zenon DEF Init
    <2>2. /\ hosts \in Table /\ job \in [Procs -> Jobs] /\ intended \in Table
          /\ secrets \subseteq Aliases /\ contended \subseteq Aliases
          /\ gone \subseteq Aliases /\ left \subseteq Aliases /\ mixed \subseteq Procs /\ faults \in Nat
      BY SMTT(30) DEF Init
    <2>3. pc \in [Procs -> Pcs] /\ view \in [Procs -> Table]
      BY SMTT(30) DEF Init, Pcs, Table, Empty
    <2>4. ~parses => hosts = Empty
      BY Zenon DEF Init
    <2>5. \A p \in Procs : pc[p] = "new"
      BY SMTT(30) DEF Init
    <2>6. QED
      BY <2>1, <2>2, <2>3, <2>4, <2>5, SMTT(30) DEF TypeOK
  <1>2. Alone /\ Noted /\ OwnChange /\ Stored /\ Unlisted /\ Removed
    BY SMTT(30) DEF Init, Alone, Noted, OwnChange, Stored, Unlisted, Removed,
       Active, Writing
  <1>3. Backed /\ Kept /\ Unmixed /\ WipedByFault
    BY SMTT(30) DEF Init, Backed, Kept, Unmixed, WipedByFault, Writing
  <1>4. Owned
    BY SMTT(30) DEF Init, Owned, Active, Writing
  <1>5. QED
    BY <1>1, <1>2, <1>3, <1>4 DEF Inv

\* The invariant is inductive.
LEMMA InvStep == Inv /\ [Next]_vars => Inv'
PROOF
  <1> SUFFICES ASSUME Inv, [Next]_vars PROVE Inv'
    OBVIOUS
  <1>1. ASSUME NEW p \in Procs, Step(p) PROVE Inv'
    BY <1>1, TypeOKStep, AloneStep, NotedStep, OwnChangeStep, StoredStep,
       BackedStep, UnlistedStep, RemovedStep, KeptStep, UnmixedStep,
       WipedByFaultStep, OwnedStep DEF Inv
  <1>2. CASE UNCHANGED vars
    BY <1>2 DEF Inv, vars, fileVars, histVars, TypeOK, Alone, Noted,
       OwnChange, Stored, Backed, Unlisted, Removed, Kept, Unmixed,
       WipedByFault, Owned, Active
  <1>3. QED
    BY <1>1, <1>2 DEF Next

\* Every reachable state satisfies the invariant.
THEOREM Invariance == Spec => []Inv
  BY InitInv, InvStep, PTL DEF Spec

\* The variables of HostsFile keep their types (config.py:68-137).
THEOREM TypeCorrect == Spec => []TypeOK
PROOF
  <1>1. Inv => TypeOK
    BY DEF Inv
  <1>2. QED
    BY <1>1, Invariance, PTL

\* No update of hosts.toml is lost while no two commands race for the file
\* and no write is interrupted (config.py:121-137).
THEOREM NoLostUpdate == Spec => []UpdatesKept
PROOF
  <1>1. Inv => UpdatesKept
    BY DEF Inv, Kept, UpdatesKept
  <1>2. QED
    BY <1>1, Invariance, PTL

\* A listed password host has its password, whatever crashes or fails between
\* the keychain and the file (cli.py:125-143, 182-184).
THEOREM SecretsBacked == Spec => []ListedHasSecret
PROOF
  <1>1. Inv => ListedHasSecret
    BY DEF Inv, Backed, ListedHasSecret
  <1>2. QED
    BY <1>1, Invariance, PTL

\* A removed host is gone from the file, and from the keychain but for a wipe
\* that failed or never came (cli.py:183-191).
THEOREM RemovalComplete == Spec => []RemovedIsGone
PROOF
  <1>1. Inv => RemovedIsGone
    BY DEF Inv, Removed, RemovedIsGone
  <1>2. QED
    BY <1>1, Invariance, PTL

\* Without a fault every password can still be removed (cli.py:176-177).
THEOREM NoOrphanSecret == Spec => []SecretIsRemovable
PROOF
  <1>1. Inv => SecretIsRemovable
    BY DEF Inv, Owned, SecretIsRemovable
  <1>2. QED
    BY <1>1, Invariance, PTL
=============================================================================
