------------------------ MODULE ConnectionPoolProofs ------------------------
(***************************************************************************)
(* Proofs about ConnectionPool: the types, that no transport is leaked or  *)
(* served before its bootstrap, that maintenance is throttled, and what a  *)
(* reload of hosts.toml promises.                                          *)
(***************************************************************************)
EXTENDS ConnectionPool, TLAPS

\* Who is suspended inside `async with lock' is the one the lock names.
LockOwned == \A t \in Tasks : pc[t] \in Holding => lock[alias[t]] = t

\* What is cached was opened for its alias and is not closed.
CachedIsOpen ==
    \A a \in Aliases :
        cached[a] # None =>
            /\ alias[cached[a]] = a
            /\ conn[cached[a]].state \in {"open", "broken"}

\* A call has no transport before its connect is answered.
Unopened ==
    \A c \in Gets :
        pc[c] \in {"new", "lock", "evict", "open"} \/ alias[c] = None
            => conn[c].state = "none"

\* Who evicts or opens finds nothing cached for its alias until it is resumed.
Emptied ==
    \A t \in Tasks :
        pc[t] \in {"evict", "open", "abort", "close"} => cached[alias[t]] = None

\* The ready flag of an alias vouches for the connection that is cached now.
ReadyHasHome == \A a \in ready : cached[a] # None /\ conn[cached[a]].home

\* What is known of the last start of maintenance.
LastIsLatest ==
    /\ now > 0
    /\ \A a \in Aliases :
        /\ last[a] <= now
        /\ last[a] = 0 => Len(runs[a]) = 0
        /\ \A i \in 1 .. Len(runs[a]) : runs[a][i] <= last[a]

Cache == LockOwned /\ CachedIsOpen /\ OpenIsCached /\ Unopened /\ Emptied
             /\ ReadyHasHome /\ ServedIsReady
Clock == LastIsLatest /\ MaintenanceThrottled
Inv   == TypeOK /\ Cache

-----------------------------------------------------------------------------
(* What the parts of the actions do.                                       *)

\* _evict closes the cached transport of its alias and touches no other.
LEMMA EvictEffect ==
    ASSUME TypeOK, NEW a \in Aliases, Evict(a)
    PROVE  /\ conn' \in [Gets -> Connection]
           /\ \A c \in Gets : conn'[c].home = conn[c].home
           /\ \A c \in Gets : c # cached[a] => conn'[c].state = conn[c].state
           /\ cached' \in [Aliases -> Gets \cup {None}] /\ ready' \subseteq Aliases
  <1>1. \A c \in Gets : [conn[c] EXCEPT !.state = "closed"] \in Connection
    BY DEF TypeOK, PoolTypeOK, Connection
  <1> QED BY <1>1 DEF TypeOK, PoolTypeOK, Connection, Evict

\* _open gives the connection parameters, and neither a transport nor a home.
LEMMA OpenEffect ==
    ASSUME TypeOK, NEW c \in Gets, NEW a \in Aliases, Open(c, a)
    PROVE  /\ conn' \in [Gets -> Connection]
           /\ \A k \in Gets : conn'[k].home = conn[k].home
           /\ \A k \in Gets : conn'[k].state = conn[k].state
  <1>1. hosts[a].edition \in Nat
    BY DEF TypeOK, FileTypeOK, Entry
  <1>2. CASE hosts[a].listed
    <2>1. conn' = [conn EXCEPT ![c].host = hosts[a].edition]
      BY <1>2 DEF Open
    <2> QED BY <1>1, <2>1 DEF TypeOK, PoolTypeOK, Connection
  <1>3. CASE ~hosts[a].listed
    BY <1>3 DEF TypeOK, PoolTypeOK, Open
  <1> QED BY <1>2, <1>3

\* A flag that is set and a close leave a Connection.
LEMMA FlagsTyped ==
    ASSUME NEW x \in Connection
    PROVE  /\ [x EXCEPT !.state = "closed"] \in Connection
           /\ [x EXCEPT !.state = "broken"] \in Connection
           /\ [x EXCEPT !.home = TRUE] \in Connection
           /\ [x EXCEPT !.dead = TRUE] \in Connection
  BY DEF Connection

LEMMA ScheduleTyped ==
    ASSUME TypeOK, NEW a \in Aliases, Schedule(a)
    PROVE  last' \in [Aliases -> Nat] /\ runs' \in [Aliases -> Seq(Nat)]
  <1>1. Append(runs[a], now) \in Seq(Nat)
    BY DEF TypeOK, FileTypeOK, PoolTypeOK
  <1> QED BY <1>1 DEF TypeOK, FileTypeOK, PoolTypeOK, Schedule, mainVars

LEMMA HistoryTyped ==
    ASSUME NEW f \in Nat, NEW b \in Nat, NEW x \in BOOLEAN,
           NEW g \in [Aliases -> Nat]
    PROVE  /\ [NoHistory EXCEPT !.floor = f, !.base = b, !.calm = x] \in History
           /\ [NoHistory EXCEPT !.goal = g, !.calm = x] \in History
  BY DEF NoHistory, History

LEMMA BeginTyped ==
    ASSUME TypeOK, NEW c \in Gets, NEW a \in Aliases, Begin(c, a)
    PROVE  atStart' \in [Tasks -> History]
  <1> DEFINE x == \A r \in Reloads : a \notin todo[r]
  <1>1. x \in BOOLEAN
    OBVIOUS
  <1>2. applied[a] \in Nat /\ hosts[a].edition \in Nat
    BY DEF TypeOK, TaskTypeOK, FileTypeOK, Entry
  <1>3. [a1 \in Aliases |-> 0] \in [Aliases -> Nat]
    OBVIOUS
  <1>4. [NoHistory EXCEPT !.floor = applied[a], !.base = hosts[a].edition,
                          !.calm = x] \in History
    BY <1>1, <1>2, <1>3, HistoryTyped
  <1> QED BY <1>4 DEF Begin, TypeOK, TaskTypeOK, Tasks

-----------------------------------------------------------------------------
(* Each action keeps the invariant.                                        *)

LEMMA GetRejectedInv ==
    ASSUME Inv, NEW c \in Gets, GetRejected(c)
    PROVE  Inv'
  <1> USE TasksAssumption, DisjointAssumption DEF Tasks, Holding, Inv
  <1>a. atStart' \in [Tasks -> History]
    BY BeginTyped DEF GetRejected
  <1>1. TypeOK'
    <2>1. FileTypeOK'
      BY DEF TypeOK, FileTypeOK, GetRejected, Begin, At, Ends, vars, fileVars,
           poolVars, mainVars, taskVars, histVars
    <2>2. PoolTypeOK'
      BY DEF TypeOK, FileTypeOK, PoolTypeOK, TaskHas, TaskTypeOK, GetRejected,
           Begin, At, Ends, vars, fileVars, poolVars, mainVars, taskVars,
           histVars
    <2>3. TaskTypeOK'
      BY <1>a DEF TypeOK, PoolTypeOK, TaskTypeOK, TaskHas, PCs, Outcomes,
           GetRejected, Begin, At, Ends, vars, fileVars, poolVars, mainVars,
           taskVars, histVars
    <2>4. \A u \in Tasks : TaskHas(u)'
      BY DEF TypeOK, PoolTypeOK, TaskTypeOK, TaskHas, Cache, LockOwned, PCs,
           GetRejected, Begin, At, Ends, vars, fileVars, poolVars, mainVars,
           taskVars, histVars
    <2> QED BY <2>1, <2>2, <2>3, <2>4 DEF TypeOK
  <1>2. LockOwned'
    BY DEF TypeOK, PoolTypeOK, TaskTypeOK, TaskHas, PCs, Cache, LockOwned,
         CachedIsOpen, OpenIsCached, Unopened, Emptied, ReadyHasHome,
         ServedIsReady, GetRejected, Begin, At, Ends, vars, fileVars,
         poolVars, mainVars, taskVars, histVars
  <1>3. CachedIsOpen'
    BY DEF TypeOK, PoolTypeOK, TaskTypeOK, TaskHas, PCs, Cache, LockOwned,
         CachedIsOpen, OpenIsCached, Unopened, Emptied, ReadyHasHome,
         ServedIsReady, GetRejected, Begin, At, Ends, vars, fileVars,
         poolVars, mainVars, taskVars, histVars
  <1>4. OpenIsCached'
    BY DEF TypeOK, PoolTypeOK, TaskTypeOK, TaskHas, PCs, Cache, LockOwned,
         CachedIsOpen, OpenIsCached, Unopened, Emptied, ReadyHasHome,
         ServedIsReady, GetRejected, Begin, At, Ends, vars, fileVars,
         poolVars, mainVars, taskVars, histVars
  <1>5. Unopened'
    BY DEF TypeOK, PoolTypeOK, TaskTypeOK, TaskHas, PCs, Cache, LockOwned,
         CachedIsOpen, OpenIsCached, Unopened, Emptied, ReadyHasHome,
         ServedIsReady, GetRejected, Begin, At, Ends, vars, fileVars,
         poolVars, mainVars, taskVars, histVars
  <1>6. Emptied'
    BY DEF TypeOK, PoolTypeOK, TaskTypeOK, TaskHas, PCs, Cache, LockOwned,
         CachedIsOpen, OpenIsCached, Unopened, Emptied, ReadyHasHome,
         ServedIsReady, GetRejected, Begin, At, Ends, vars, fileVars,
         poolVars, mainVars, taskVars, histVars
  <1>7. ReadyHasHome'
    BY DEF TypeOK, PoolTypeOK, TaskTypeOK, TaskHas, PCs, Cache, LockOwned,
         CachedIsOpen, OpenIsCached, Unopened, Emptied, ReadyHasHome,
         ServedIsReady, GetRejected, Begin, At, Ends, vars, fileVars,
         poolVars, mainVars, taskVars, histVars
  <1>8. ServedIsReady'
    BY DEF TypeOK, PoolTypeOK, TaskTypeOK, TaskHas, PCs, Cache, LockOwned,
         CachedIsOpen, OpenIsCached, Unopened, Emptied, ReadyHasHome,
         ServedIsReady, GetRejected, Begin, At, Ends, vars, fileVars,
         poolVars, mainVars, taskVars, histVars
  <1> QED BY <1>1, <1>2, <1>3, <1>4, <1>5, <1>6, <1>7, <1>8 DEF Cache

LEMMA GetWaitsInv ==
    ASSUME Inv, NEW c \in Gets, GetWaits(c)
    PROVE  Inv'
  <1> USE TasksAssumption, DisjointAssumption DEF Tasks, Holding, Inv
  <1>a. atStart' \in [Tasks -> History]
    BY BeginTyped DEF GetWaits
  <1>1. TypeOK'
    <2>1. FileTypeOK'
      BY DEF TypeOK, FileTypeOK, GetWaits, Begin, At, vars, fileVars,
           poolVars, mainVars, taskVars, histVars
    <2>2. PoolTypeOK'
      BY DEF TypeOK, FileTypeOK, PoolTypeOK, TaskHas, TaskTypeOK, GetWaits,
           Begin, At, vars, fileVars, poolVars, mainVars, taskVars, histVars
    <2>3. TaskTypeOK'
      BY <1>a DEF TypeOK, PoolTypeOK, TaskTypeOK, TaskHas, PCs, Outcomes,
           GetWaits, Begin, At, vars, fileVars, poolVars, mainVars, taskVars,
           histVars
    <2>4. \A u \in Tasks : TaskHas(u)'
      BY DEF TypeOK, PoolTypeOK, TaskTypeOK, TaskHas, Cache, LockOwned, PCs,
           GetWaits, Begin, At, vars, fileVars, poolVars, mainVars, taskVars,
           histVars
    <2> QED BY <2>1, <2>2, <2>3, <2>4 DEF TypeOK
  <1>2. LockOwned'
    BY DEF TypeOK, PoolTypeOK, TaskTypeOK, TaskHas, PCs, Cache, LockOwned,
         CachedIsOpen, OpenIsCached, Unopened, Emptied, ReadyHasHome,
         ServedIsReady, GetWaits, Begin, At, vars, fileVars, poolVars,
         mainVars, taskVars, histVars
  <1>3. CachedIsOpen'
    BY DEF TypeOK, PoolTypeOK, TaskTypeOK, TaskHas, PCs, Cache, LockOwned,
         CachedIsOpen, OpenIsCached, Unopened, Emptied, ReadyHasHome,
         ServedIsReady, GetWaits, Begin, At, vars, fileVars, poolVars,
         mainVars, taskVars, histVars
  <1>4. OpenIsCached'
    BY DEF TypeOK, PoolTypeOK, TaskTypeOK, TaskHas, PCs, Cache, LockOwned,
         CachedIsOpen, OpenIsCached, Unopened, Emptied, ReadyHasHome,
         ServedIsReady, GetWaits, Begin, At, vars, fileVars, poolVars,
         mainVars, taskVars, histVars
  <1>5. Unopened'
    BY DEF TypeOK, PoolTypeOK, TaskTypeOK, TaskHas, PCs, Cache, LockOwned,
         CachedIsOpen, OpenIsCached, Unopened, Emptied, ReadyHasHome,
         ServedIsReady, GetWaits, Begin, At, vars, fileVars, poolVars,
         mainVars, taskVars, histVars
  <1>6. Emptied'
    BY DEF TypeOK, PoolTypeOK, TaskTypeOK, TaskHas, PCs, Cache, LockOwned,
         CachedIsOpen, OpenIsCached, Unopened, Emptied, ReadyHasHome,
         ServedIsReady, GetWaits, Begin, At, vars, fileVars, poolVars,
         mainVars, taskVars, histVars
  <1>7. ReadyHasHome'
    BY DEF TypeOK, PoolTypeOK, TaskTypeOK, TaskHas, PCs, Cache, LockOwned,
         CachedIsOpen, OpenIsCached, Unopened, Emptied, ReadyHasHome,
         ServedIsReady, GetWaits, Begin, At, vars, fileVars, poolVars,
         mainVars, taskVars, histVars
  <1>8. ServedIsReady'
    BY DEF TypeOK, PoolTypeOK, TaskTypeOK, TaskHas, PCs, Cache, LockOwned,
         CachedIsOpen, OpenIsCached, Unopened, Emptied, ReadyHasHome,
         ServedIsReady, GetWaits, Begin, At, vars, fileVars, poolVars,
         mainVars, taskVars, histVars
  <1> QED BY <1>1, <1>2, <1>3, <1>4, <1>5, <1>6, <1>7, <1>8 DEF Cache

LEMMA EnterEvictInv ==
    ASSUME Inv, NEW c \in Gets, NEW a \in Aliases,
           pc[c] \in {"new", "lock"}, lock[a] = None,
           alias' = [alias EXCEPT ![c] = a],
           atStart' \in [Tasks -> History],
           UNCHANGED <<fileVars, hosts, todo, applied>>,
           EnterEvict(c, a)
    PROVE  Inv'
  <1> USE TasksAssumption, DisjointAssumption DEF Tasks, Holding, Inv
  <1>a. /\ conn' \in [Gets -> Connection]
        /\ \A k \in Gets : conn'[k].home = conn[k].home
        /\ \A k \in Gets : k # cached[a] => conn'[k].state = conn[k].state
        /\ cached' \in [Aliases -> Gets \cup {None}] /\ ready' \subseteq Aliases
    BY EvictEffect DEF EnterEvict
  <1>t. cached[a] \in Gets \cup {None}
    BY <1>a DEF TypeOK, PoolTypeOK
  <1>u. cached[a] # None =>
            cached[a] \in Gets /\ conn[cached[a]].state # "none"
    BY <1>a, <1>t DEF Cache, CachedIsOpen
  <1>1. TypeOK'
    <2>1. FileTypeOK'
      BY <1>a DEF TypeOK, FileTypeOK, EnterEvict, Evict, Take, At, vars,
           fileVars, poolVars, mainVars, taskVars, histVars
    <2>2. PoolTypeOK'
      BY <1>a DEF TypeOK, FileTypeOK, PoolTypeOK, TaskHas, TaskTypeOK,
           EnterEvict, Evict, Take, At, vars, fileVars, poolVars, mainVars,
           taskVars, histVars
    <2>3. TaskTypeOK'
      BY <1>a DEF TypeOK, PoolTypeOK, TaskTypeOK, TaskHas, PCs, Outcomes,
           EnterEvict, Evict, Take, At, vars, fileVars, poolVars, mainVars,
           taskVars, histVars
    <2>4. \A u \in Tasks : TaskHas(u)'
      BY <1>a DEF TypeOK, PoolTypeOK, TaskTypeOK, TaskHas, Cache, LockOwned,
           PCs, EnterEvict, Evict, Take, At, vars, fileVars, poolVars,
           mainVars, taskVars, histVars
    <2> QED BY <2>1, <2>2, <2>3, <2>4 DEF TypeOK
  <1>2. LockOwned'
    BY <1>a DEF TypeOK, PoolTypeOK, TaskTypeOK, TaskHas, PCs, Cache,
         LockOwned, CachedIsOpen, OpenIsCached, Unopened, Emptied,
         ReadyHasHome, ServedIsReady, EnterEvict, Evict, Take, At, vars,
         fileVars, poolVars, mainVars, taskVars, histVars
  <1>3. CachedIsOpen'
    BY <1>a DEF TypeOK, PoolTypeOK, TaskTypeOK, TaskHas, PCs, Cache,
         LockOwned, CachedIsOpen, OpenIsCached, Unopened, Emptied,
         ReadyHasHome, ServedIsReady, EnterEvict, Evict, Take, At, vars,
         fileVars, poolVars, mainVars, taskVars, histVars
  <1>4. OpenIsCached'
    BY <1>a DEF TypeOK, PoolTypeOK, TaskTypeOK, TaskHas, PCs, Cache,
         LockOwned, CachedIsOpen, OpenIsCached, Unopened, Emptied,
         ReadyHasHome, ServedIsReady, EnterEvict, Evict, Take, At, vars,
         fileVars, poolVars, mainVars, taskVars, histVars
  <1>5. Unopened'
    BY <1>a, <1>u DEF TypeOK, TaskTypeOK, Cache, Unopened, At, EnterEvict
  <1>6. Emptied'
    BY <1>a DEF TypeOK, PoolTypeOK, TaskTypeOK, TaskHas, PCs, Cache,
         LockOwned, CachedIsOpen, OpenIsCached, Unopened, Emptied,
         ReadyHasHome, ServedIsReady, EnterEvict, Evict, Take, At, vars,
         fileVars, poolVars, mainVars, taskVars, histVars
  <1>7. ReadyHasHome'
    BY <1>a DEF TypeOK, PoolTypeOK, TaskTypeOK, TaskHas, PCs, Cache,
         LockOwned, CachedIsOpen, OpenIsCached, Unopened, Emptied,
         ReadyHasHome, ServedIsReady, EnterEvict, Evict, Take, At, vars,
         fileVars, poolVars, mainVars, taskVars, histVars
  <1>8. ServedIsReady'
    BY <1>a DEF TypeOK, PoolTypeOK, TaskTypeOK, TaskHas, PCs, Cache,
         LockOwned, CachedIsOpen, OpenIsCached, Unopened, Emptied,
         ReadyHasHome, ServedIsReady, EnterEvict, Evict, Take, At, vars,
         fileVars, poolVars, mainVars, taskVars, histVars
  <1> QED BY <1>1, <1>2, <1>3, <1>4, <1>5, <1>6, <1>7, <1>8 DEF Cache

LEMMA EnterOpenInv ==
    ASSUME Inv, NEW c \in Gets, NEW a \in Aliases,
           pc[c] \in {"new", "lock"}, lock[a] = None,
           alias' = [alias EXCEPT ![c] = a],
           atStart' \in [Tasks -> History],
           UNCHANGED <<fileVars, hosts, todo, applied>>,
           EnterOpen(c, a)
    PROVE  Inv'
  <1> USE TasksAssumption, DisjointAssumption DEF Tasks, Holding, Inv
  <1>a. /\ conn' \in [Gets -> Connection]
        /\ \A k \in Gets : conn'[k].home = conn[k].home
        /\ \A k \in Gets : conn'[k].state = conn[k].state
    BY OpenEffect DEF EnterOpen
  <1>c. \/ Take(a, c) /\ At(c, "open") /\ UNCHANGED <<served, outcome>>
        \/ Leave(a) /\ Ends(c, "keyerror")
    BY DEF EnterOpen, Open
  <1>d. UNCHANGED <<cached, ready, last, runs, served>>
    BY <1>c DEF Ends, mainVars, EnterOpen
  <1>e. lock' \in [Aliases -> Tasks \cup {None}]
    BY <1>c DEF TypeOK, PoolTypeOK, Take, Leave
  <1>1. TypeOK'
    <2>1. FileTypeOK'
      BY <1>a, <1>c DEF TypeOK, FileTypeOK, EnterOpen, Take, Leave, At, Ends,
           vars, fileVars, poolVars, mainVars, taskVars, histVars
    <2>2. PoolTypeOK'
      BY <1>a, <1>d, <1>e DEF TypeOK, PoolTypeOK
    <2>3. TaskTypeOK'
      BY <1>a, <1>c DEF TypeOK, TaskTypeOK, PCs, Outcomes, At, Ends,
           EnterOpen, histVars
    <2>4. \A u \in Tasks : TaskHas(u)'
      BY <1>a, <1>c DEF TypeOK, PoolTypeOK, TaskTypeOK, TaskHas, Cache,
           LockOwned, PCs, EnterOpen, Take, Leave, At, Ends, vars, fileVars,
           poolVars, mainVars, taskVars, histVars
    <2> QED BY <2>1, <2>2, <2>3, <2>4 DEF TypeOK
  <1>2. LockOwned'
    BY <1>a, <1>c DEF TypeOK, PoolTypeOK, TaskTypeOK, TaskHas, PCs, Cache,
         LockOwned, CachedIsOpen, OpenIsCached, Unopened, Emptied,
         ReadyHasHome, ServedIsReady, EnterOpen, Take, Leave, At, Ends, vars,
         fileVars, poolVars, mainVars, taskVars, histVars
  <1>3. CachedIsOpen'
    <2> SUFFICES ASSUME NEW b \in Aliases, cached[b] # None
                 PROVE  /\ alias'[cached[b]] = b
                        /\ conn'[cached[b]].state \in {"open", "broken"}
      BY <1>d DEF CachedIsOpen
    <2>1. /\ cached[b] \in Gets /\ alias[cached[b]] = b
          /\ conn[cached[b]].state \in {"open", "broken"}
      BY DEF TypeOK, PoolTypeOK, Cache, CachedIsOpen
    <2>2. conn[c].state = "none"
      BY DEF Cache, Unopened, EnterOpen
    <2> QED BY <1>a, <2>1, <2>2 DEF TypeOK, TaskTypeOK, EnterOpen
  <1>4. OpenIsCached'
    BY <1>a, <1>d DEF TypeOK, TaskTypeOK, Cache, OpenIsCached, Unopened,
         EnterOpen
  <1>5. Unopened'
    BY <1>a, <1>c DEF TypeOK, PoolTypeOK, TaskTypeOK, Cache, Unopened, At,
         Ends, EnterOpen
  <1>6. Emptied'
    BY <1>a, <1>c DEF TypeOK, PoolTypeOK, TaskTypeOK, TaskHas, PCs, Cache,
         LockOwned, CachedIsOpen, OpenIsCached, Unopened, Emptied,
         ReadyHasHome, ServedIsReady, EnterOpen, Take, Leave, At, Ends, vars,
         fileVars, poolVars, mainVars, taskVars, histVars
  <1>7. ReadyHasHome'
    BY <1>a, <1>d DEF TypeOK, PoolTypeOK, Cache, ReadyHasHome
  <1>8. ServedIsReady'
    BY <1>a, <1>d DEF TypeOK, TaskTypeOK, Cache, ServedIsReady
  <1> QED BY <1>1, <1>2, <1>3, <1>4, <1>5, <1>6, <1>7, <1>8 DEF Cache

LEMMA EnterCheckInv ==
    ASSUME Inv, NEW c \in Gets, NEW a \in Aliases,
           pc[c] \in {"new", "lock"}, lock[a] = None,
           alias' = [alias EXCEPT ![c] = a],
           atStart' \in [Tasks -> History],
           UNCHANGED <<fileVars, hosts, todo, applied>>,
           EnterCheck(c, a)
    PROVE  Inv'
  <1> USE TasksAssumption, DisjointAssumption DEF Tasks, Holding, Inv
  <1>1. TypeOK'
    <2>1. FileTypeOK'
      BY DEF TypeOK, FileTypeOK, EnterCheck, Take, At, vars, fileVars,
           poolVars, mainVars, taskVars, histVars
    <2>2. PoolTypeOK'
      BY DEF TypeOK, FileTypeOK, PoolTypeOK, TaskHas, TaskTypeOK, EnterCheck,
           Take, At, vars, fileVars, poolVars, mainVars, taskVars, histVars
    <2>3. TaskTypeOK'
      BY DEF TypeOK, PoolTypeOK, TaskTypeOK, TaskHas, PCs, Outcomes,
           EnterCheck, Take, At, vars, fileVars, poolVars, mainVars, taskVars,
           histVars
    <2>4. \A u \in Tasks : TaskHas(u)'
      BY DEF TypeOK, PoolTypeOK, TaskTypeOK, TaskHas, Cache, LockOwned, PCs,
           EnterCheck, Take, At, vars, fileVars, poolVars, mainVars, taskVars,
           histVars
    <2> QED BY <2>1, <2>2, <2>3, <2>4 DEF TypeOK
  <1>2. LockOwned'
    BY DEF TypeOK, PoolTypeOK, TaskTypeOK, TaskHas, PCs, Cache, LockOwned,
         CachedIsOpen, OpenIsCached, Unopened, Emptied, ReadyHasHome,
         ServedIsReady, EnterCheck, Take, At, vars, fileVars, poolVars,
         mainVars, taskVars, histVars
  <1>3. CachedIsOpen'
    BY DEF TypeOK, PoolTypeOK, TaskTypeOK, TaskHas, PCs, Cache, LockOwned,
         CachedIsOpen, OpenIsCached, Unopened, Emptied, ReadyHasHome,
         ServedIsReady, EnterCheck, Take, At, vars, fileVars, poolVars,
         mainVars, taskVars, histVars
  <1>4. OpenIsCached'
    BY DEF TypeOK, PoolTypeOK, TaskTypeOK, TaskHas, PCs, Cache, LockOwned,
         CachedIsOpen, OpenIsCached, Unopened, Emptied, ReadyHasHome,
         ServedIsReady, EnterCheck, Take, At, vars, fileVars, poolVars,
         mainVars, taskVars, histVars
  <1>5. Unopened'
    BY DEF TypeOK, PoolTypeOK, TaskTypeOK, TaskHas, PCs, Cache, LockOwned,
         CachedIsOpen, OpenIsCached, Unopened, Emptied, ReadyHasHome,
         ServedIsReady, EnterCheck, Take, At, vars, fileVars, poolVars,
         mainVars, taskVars, histVars
  <1>6. Emptied'
    BY DEF TypeOK, PoolTypeOK, TaskTypeOK, TaskHas, PCs, Cache, LockOwned,
         CachedIsOpen, OpenIsCached, Unopened, Emptied, ReadyHasHome,
         ServedIsReady, EnterCheck, Take, At, vars, fileVars, poolVars,
         mainVars, taskVars, histVars
  <1>7. ReadyHasHome'
    BY DEF TypeOK, PoolTypeOK, TaskTypeOK, TaskHas, PCs, Cache, LockOwned,
         CachedIsOpen, OpenIsCached, Unopened, Emptied, ReadyHasHome,
         ServedIsReady, EnterCheck, Take, At, vars, fileVars, poolVars,
         mainVars, taskVars, histVars
  <1>8. ServedIsReady'
    BY DEF TypeOK, PoolTypeOK, TaskTypeOK, TaskHas, PCs, Cache, LockOwned,
         CachedIsOpen, OpenIsCached, Unopened, Emptied, ReadyHasHome,
         ServedIsReady, EnterCheck, Take, At, vars, fileVars, poolVars,
         mainVars, taskVars, histVars
  <1> QED BY <1>1, <1>2, <1>3, <1>4, <1>5, <1>6, <1>7, <1>8 DEF Cache

LEMMA EnterServeInv ==
    ASSUME Inv, NEW c \in Gets, NEW a \in Aliases,
           pc[c] \in {"new", "lock"}, lock[a] = None,
           alias' = [alias EXCEPT ![c] = a],
           atStart' \in [Tasks -> History],
           UNCHANGED <<fileVars, hosts, todo, applied>>,
           EnterServe(c, a)
    PROVE  Inv'
  <1> USE TasksAssumption, DisjointAssumption DEF Tasks, Holding, Inv
  <1>1. TypeOK'
    <2>1. FileTypeOK'
      BY DEF TypeOK, FileTypeOK, EnterServe, Serve, Leave, At, vars, fileVars,
           poolVars, mainVars, taskVars, histVars
    <2>2. PoolTypeOK'
      BY ScheduleTyped DEF TypeOK, FileTypeOK, PoolTypeOK, TaskHas,
           TaskTypeOK, EnterServe, Serve, Leave, At, vars, fileVars, poolVars,
           mainVars, taskVars, histVars
    <2>3. TaskTypeOK'
      BY DEF TypeOK, PoolTypeOK, TaskTypeOK, TaskHas, PCs, Outcomes,
           EnterServe, Serve, Leave, At, vars, fileVars, poolVars, mainVars,
           taskVars, histVars
    <2>4. \A u \in Tasks : TaskHas(u)'
      BY DEF TypeOK, PoolTypeOK, TaskTypeOK, TaskHas, Cache, LockOwned, PCs,
           EnterServe, Serve, Leave, At, vars, fileVars, poolVars, mainVars,
           taskVars, histVars
    <2> QED BY <2>1, <2>2, <2>3, <2>4 DEF TypeOK
  <1>2. LockOwned'
    BY DEF TypeOK, PoolTypeOK, TaskTypeOK, TaskHas, PCs, Cache, LockOwned,
         CachedIsOpen, OpenIsCached, Unopened, Emptied, ReadyHasHome,
         ServedIsReady, EnterServe, Serve, Leave, At, vars, fileVars,
         poolVars, mainVars, taskVars, histVars
  <1>3. CachedIsOpen'
    BY DEF TypeOK, PoolTypeOK, TaskTypeOK, TaskHas, PCs, Cache, LockOwned,
         CachedIsOpen, OpenIsCached, Unopened, Emptied, ReadyHasHome,
         ServedIsReady, EnterServe, Serve, Leave, At, vars, fileVars,
         poolVars, mainVars, taskVars, histVars
  <1>4. OpenIsCached'
    BY DEF TypeOK, PoolTypeOK, TaskTypeOK, TaskHas, PCs, Cache, LockOwned,
         CachedIsOpen, OpenIsCached, Unopened, Emptied, ReadyHasHome,
         ServedIsReady, EnterServe, Serve, Leave, At, vars, fileVars,
         poolVars, mainVars, taskVars, histVars
  <1>5. Unopened'
    BY DEF TypeOK, PoolTypeOK, TaskTypeOK, TaskHas, PCs, Cache, LockOwned,
         CachedIsOpen, OpenIsCached, Unopened, Emptied, ReadyHasHome,
         ServedIsReady, EnterServe, Serve, Leave, At, vars, fileVars,
         poolVars, mainVars, taskVars, histVars
  <1>6. Emptied'
    BY DEF TypeOK, PoolTypeOK, TaskTypeOK, TaskHas, PCs, Cache, LockOwned,
         CachedIsOpen, OpenIsCached, Unopened, Emptied, ReadyHasHome,
         ServedIsReady, EnterServe, Serve, Leave, At, vars, fileVars,
         poolVars, mainVars, taskVars, histVars
  <1>7. ReadyHasHome'
    BY DEF TypeOK, PoolTypeOK, TaskTypeOK, TaskHas, PCs, Cache, LockOwned,
         CachedIsOpen, OpenIsCached, Unopened, Emptied, ReadyHasHome,
         ServedIsReady, EnterServe, Serve, Leave, At, vars, fileVars,
         poolVars, mainVars, taskVars, histVars
  <1>8. ServedIsReady'
    BY DEF TypeOK, PoolTypeOK, TaskTypeOK, TaskHas, PCs, Cache, LockOwned,
         CachedIsOpen, OpenIsCached, Unopened, Emptied, ReadyHasHome,
         ServedIsReady, EnterServe, Serve, Leave, At, vars, fileVars,
         poolVars, mainVars, taskVars, histVars
  <1> QED BY <1>1, <1>2, <1>3, <1>4, <1>5, <1>6, <1>7, <1>8 DEF Cache

LEMMA GetEntersInv ==
    ASSUME Inv, NEW c \in Gets, GetEnters(c)
    PROVE  Inv'
  <1>1. PICK a \in Aliases : Begin(c, a) /\ ~Contended(a) /\ Enter(c, a)
    BY DEF GetEnters
  <1>2. /\ pc[c] \in {"new", "lock"} /\ lock[a] = None
        /\ alias' = [alias EXCEPT ![c] = a]
        /\ UNCHANGED <<fileVars, hosts, todo, applied>>
    BY <1>1 DEF Begin, Contended, Free
  <1>3. atStart' \in [Tasks -> History]
    BY <1>1, BeginTyped DEF Inv
  <1> QED BY <1>1, <1>2, <1>3, EnterEvictInv, EnterOpenInv, EnterCheckInv,
             EnterServeInv DEF Enter

LEMMA GetLockedInv ==
    ASSUME Inv, NEW c \in Gets, GetLocked(c)
    PROVE  Inv'
  <1> DEFINE a == alias[c]
  <1>1. a \in Aliases
    BY DEF GetLocked, Inv, TypeOK, TaskHas, Tasks
  <1>2. /\ pc[c] \in {"new", "lock"} /\ lock[a] = None
        /\ UNCHANGED <<fileVars, hosts, todo, applied>>
        /\ Enter(c, a)
    BY DEF GetLocked, Free, histVars
  <1>3. alias' = [alias EXCEPT ![c] = a]
    BY DEF GetLocked, Inv, TypeOK, TaskTypeOK, Tasks
  <1>4. atStart' \in [Tasks -> History]
    BY DEF GetLocked, histVars, Inv, TypeOK, TaskTypeOK
  <1> HIDE DEF a
  <1> QED BY <1>1, <1>2, <1>3, <1>4, EnterEvictInv, EnterOpenInv,
             EnterCheckInv, EnterServeInv DEF Enter

LEMMA GetEvictedInv ==
    ASSUME Inv, NEW c \in Gets, GetEvicted(c)
    PROVE  Inv'
  <1> USE TasksAssumption, DisjointAssumption DEF Tasks, Holding, Inv
  <1>a. alias[c] \in Aliases
    BY DEF TypeOK, TaskHas, GetEvicted
  <1>b. /\ conn' \in [Gets -> Connection]
        /\ \A k \in Gets : conn'[k].home = conn[k].home
        /\ \A k \in Gets : conn'[k].state = conn[k].state
    BY <1>a, OpenEffect DEF GetEvicted
  <1>c. \/ Take(alias[c], c) /\ At(c, "open") /\ UNCHANGED <<served, outcome>>
        \/ Leave(alias[c]) /\ Ends(c, "keyerror")
    BY DEF GetEvicted, Open
  <1>d. UNCHANGED <<cached, ready, last, runs, served>>
    BY <1>c DEF Ends, mainVars, GetEvicted
  <1>e. lock' \in [Aliases -> Tasks \cup {None}]
    BY <1>c DEF TypeOK, PoolTypeOK, Take, Leave
  <1>1. TypeOK'
    <2>1. FileTypeOK'
      BY <1>a, <1>b, <1>c DEF TypeOK, FileTypeOK, GetEvicted, Take, Leave, At,
           Ends, vars, fileVars, poolVars, mainVars, taskVars, histVars
    <2>2. PoolTypeOK'
      BY <1>a, <1>b, <1>d, <1>e DEF TypeOK, PoolTypeOK
    <2>3. TaskTypeOK'
      BY <1>a, <1>b, <1>c DEF TypeOK, TaskTypeOK, PCs, Outcomes, At, Ends,
           GetEvicted, histVars
    <2>4. \A u \in Tasks : TaskHas(u)'
      BY <1>a, <1>b, <1>c DEF TypeOK, PoolTypeOK, TaskTypeOK, TaskHas, Cache,
           LockOwned, PCs, GetEvicted, Take, Leave, At, Ends, vars, fileVars,
           poolVars, mainVars, taskVars, histVars
    <2> QED BY <2>1, <2>2, <2>3, <2>4 DEF TypeOK
  <1>2. LockOwned'
    BY <1>a, <1>b, <1>c DEF TypeOK, PoolTypeOK, TaskTypeOK, TaskHas, PCs,
         Cache, LockOwned, CachedIsOpen, OpenIsCached, Unopened, Emptied,
         ReadyHasHome, ServedIsReady, GetEvicted, Take, Leave, At, Ends, vars,
         fileVars, poolVars, mainVars, taskVars, histVars
  <1>3. CachedIsOpen'
    <2> SUFFICES ASSUME NEW b \in Aliases, cached[b] # None
                 PROVE  /\ alias'[cached[b]] = b
                        /\ conn'[cached[b]].state \in {"open", "broken"}
      BY <1>d DEF CachedIsOpen
    <2>1. /\ cached[b] \in Gets /\ alias[cached[b]] = b
          /\ conn[cached[b]].state \in {"open", "broken"}
      BY DEF TypeOK, PoolTypeOK, Cache, CachedIsOpen
    <2>2. conn[c].state = "none"
      BY DEF Cache, Unopened, GetEvicted
    <2> QED BY <1>a, <1>b, <2>1, <2>2 DEF TypeOK, TaskTypeOK, GetEvicted
  <1>4. OpenIsCached'
    BY <1>a, <1>b, <1>d DEF TypeOK, TaskTypeOK, Cache, OpenIsCached, Unopened,
         GetEvicted
  <1>5. Unopened'
    BY <1>a, <1>b, <1>c DEF TypeOK, PoolTypeOK, TaskTypeOK, Cache, Unopened,
         At, Ends, GetEvicted
  <1>6. Emptied'
    BY <1>a, <1>b, <1>c DEF TypeOK, PoolTypeOK, TaskTypeOK, TaskHas, PCs,
         Cache, LockOwned, CachedIsOpen, OpenIsCached, Unopened, Emptied,
         ReadyHasHome, ServedIsReady, GetEvicted, Take, Leave, At, Ends, vars,
         fileVars, poolVars, mainVars, taskVars, histVars
  <1>7. ReadyHasHome'
    BY <1>a, <1>b, <1>d DEF TypeOK, PoolTypeOK, Cache, ReadyHasHome
  <1>8. ServedIsReady'
    BY <1>a, <1>b, <1>d DEF TypeOK, TaskTypeOK, Cache, ServedIsReady
  <1> QED BY <1>1, <1>2, <1>3, <1>4, <1>5, <1>6, <1>7, <1>8 DEF Cache

LEMMA GetOpenedInv ==
    ASSUME Inv, NEW c \in Gets, GetOpened(c)
    PROVE  Inv'
  <1> USE TasksAssumption, DisjointAssumption DEF Tasks, Holding, Inv
  <1>a. alias[c] \in Aliases /\ lock[alias[c]] = c
    BY DEF TypeOK, TaskHas, GetOpened, Cache, LockOwned
  <1>b. cached[alias[c]] = None /\ conn[c].state = "none"
    BY DEF GetOpened, Cache, Emptied, Unopened
  <1>c. /\ At(c, "ready")
        /\ UNCHANGED <<lock, mainVars, served, outcome>>
    BY <1>a, <1>b DEF GetOpened, Cache, ReadyHasHome
  <1>z. conn' \in [Gets -> Connection]
    BY DEF TypeOK, PoolTypeOK, TaskHas, Connection, GetOpened
  <1>1. TypeOK'
    <2>1. FileTypeOK'
      BY <1>a, <1>b, <1>c DEF TypeOK, FileTypeOK, GetOpened, At, vars,
           fileVars, poolVars, mainVars, taskVars, histVars
    <2>2. PoolTypeOK'
      BY <1>a, <1>b, <1>c, <1>z DEF TypeOK, FileTypeOK, PoolTypeOK, TaskHas,
           TaskTypeOK, GetOpened, At, vars, fileVars, poolVars, mainVars,
           taskVars, histVars
    <2>3. TaskTypeOK'
      BY <1>a, <1>b, <1>c DEF TypeOK, PoolTypeOK, TaskTypeOK, TaskHas, PCs,
           Outcomes, GetOpened, At, vars, fileVars, poolVars, mainVars,
           taskVars, histVars
    <2>4. \A u \in Tasks : TaskHas(u)'
      BY <1>a, <1>b, <1>c DEF TypeOK, PoolTypeOK, TaskTypeOK, TaskHas, Cache,
           LockOwned, PCs, GetOpened, At, vars, fileVars, poolVars, mainVars,
           taskVars, histVars
    <2> QED BY <2>1, <2>2, <2>3, <2>4 DEF TypeOK
  <1>2. LockOwned'
    BY <1>a, <1>b, <1>c DEF TypeOK, PoolTypeOK, TaskTypeOK, TaskHas, PCs,
         Cache, LockOwned, CachedIsOpen, OpenIsCached, Unopened, Emptied,
         ReadyHasHome, ServedIsReady, GetOpened, At, vars, fileVars, poolVars,
         mainVars, taskVars, histVars
  <1>3. CachedIsOpen'
    BY <1>a, <1>b, <1>c DEF TypeOK, PoolTypeOK, TaskTypeOK, TaskHas, PCs,
         Cache, LockOwned, CachedIsOpen, OpenIsCached, Unopened, Emptied,
         ReadyHasHome, ServedIsReady, GetOpened, At, vars, fileVars, poolVars,
         mainVars, taskVars, histVars
  <1>4. OpenIsCached'
    BY <1>a, <1>b, <1>c DEF TypeOK, PoolTypeOK, TaskTypeOK, TaskHas, PCs,
         Cache, LockOwned, CachedIsOpen, OpenIsCached, Unopened, Emptied,
         ReadyHasHome, ServedIsReady, GetOpened, At, vars, fileVars, poolVars,
         mainVars, taskVars, histVars
  <1>5. Unopened'
    BY <1>a, <1>b, <1>c DEF TypeOK, PoolTypeOK, TaskTypeOK, TaskHas, PCs,
         Cache, LockOwned, CachedIsOpen, OpenIsCached, Unopened, Emptied,
         ReadyHasHome, ServedIsReady, GetOpened, At, vars, fileVars, poolVars,
         mainVars, taskVars, histVars
  <1>6. Emptied'
    BY <1>a, <1>b, <1>c DEF TypeOK, PoolTypeOK, TaskTypeOK, TaskHas, PCs,
         Cache, LockOwned, CachedIsOpen, OpenIsCached, Unopened, Emptied,
         ReadyHasHome, ServedIsReady, GetOpened, At, vars, fileVars, poolVars,
         mainVars, taskVars, histVars
  <1>7. ReadyHasHome'
    BY <1>a, <1>b, <1>c DEF TypeOK, PoolTypeOK, TaskTypeOK, TaskHas, PCs,
         Cache, LockOwned, CachedIsOpen, OpenIsCached, Unopened, Emptied,
         ReadyHasHome, ServedIsReady, GetOpened, At, vars, fileVars, poolVars,
         mainVars, taskVars, histVars
  <1>8. ServedIsReady'
    BY <1>a, <1>b, <1>c DEF TypeOK, PoolTypeOK, TaskTypeOK, TaskHas, PCs,
         Cache, LockOwned, CachedIsOpen, OpenIsCached, Unopened, Emptied,
         ReadyHasHome, ServedIsReady, GetOpened, At, vars, fileVars, poolVars,
         mainVars, taskVars, histVars
  <1> QED BY <1>1, <1>2, <1>3, <1>4, <1>5, <1>6, <1>7, <1>8 DEF Cache

LEMMA GetCheckedInv ==
    ASSUME Inv, NEW c \in Gets, GetChecked(c)
    PROVE  Inv'
  <1> USE TasksAssumption, DisjointAssumption DEF Tasks, Holding, Inv
  <1>a. /\ alias[c] \in Aliases /\ lock[alias[c]] = c
        /\ cached[alias[c]] \in Gets
    BY DEF TypeOK, TaskHas, GetChecked, Cache, LockOwned
  <1>z. conn' \in [Gets -> Connection]
    <2> DEFINE k == cached[alias[c]]
    <2>1. conn \in [Gets -> Connection] /\ k \in Gets
      BY <1>a DEF TypeOK, PoolTypeOK
    <2>2. [conn[k] EXCEPT !.home = TRUE] \in Connection
      BY <2>1, FlagsTyped
    <2>3. conn' = [conn EXCEPT ![k] = [conn[k] EXCEPT !.home = TRUE]]
      BY <2>1 DEF GetChecked
    <2> HIDE DEF k
    <2> QED BY <2>1, <2>2, <2>3
  <1>1. TypeOK'
    <2>1. FileTypeOK'
      BY <1>a DEF TypeOK, FileTypeOK, GetChecked, Serve, Leave, At, vars,
           fileVars, poolVars, mainVars, taskVars, histVars
    <2>2. PoolTypeOK'
      BY <1>a, <1>z, ScheduleTyped DEF TypeOK, FileTypeOK, PoolTypeOK,
           TaskHas, TaskTypeOK, GetChecked, Serve, Leave, At, vars, fileVars,
           poolVars, mainVars, taskVars, histVars
    <2>3. TaskTypeOK'
      BY <1>a DEF TypeOK, PoolTypeOK, TaskTypeOK, TaskHas, PCs, Outcomes,
           GetChecked, Serve, Leave, At, vars, fileVars, poolVars, mainVars,
           taskVars, histVars
    <2>4. \A u \in Tasks : TaskHas(u)'
      BY <1>a DEF TypeOK, PoolTypeOK, TaskTypeOK, TaskHas, Cache, LockOwned,
           PCs, GetChecked, Serve, Leave, At, vars, fileVars, poolVars,
           mainVars, taskVars, histVars
    <2> QED BY <2>1, <2>2, <2>3, <2>4 DEF TypeOK
  <1>2. LockOwned'
    BY <1>a DEF TypeOK, PoolTypeOK, TaskTypeOK, TaskHas, PCs, Cache,
         LockOwned, CachedIsOpen, OpenIsCached, Unopened, Emptied,
         ReadyHasHome, ServedIsReady, GetChecked, Serve, Leave, At, vars,
         fileVars, poolVars, mainVars, taskVars, histVars
  <1>3. CachedIsOpen'
    BY <1>a DEF TypeOK, PoolTypeOK, TaskTypeOK, TaskHas, PCs, Cache,
         LockOwned, CachedIsOpen, OpenIsCached, Unopened, Emptied,
         ReadyHasHome, ServedIsReady, GetChecked, Serve, Leave, At, vars,
         fileVars, poolVars, mainVars, taskVars, histVars
  <1>4. OpenIsCached'
    BY <1>a DEF TypeOK, PoolTypeOK, TaskTypeOK, TaskHas, PCs, Cache,
         LockOwned, CachedIsOpen, OpenIsCached, Unopened, Emptied,
         ReadyHasHome, ServedIsReady, GetChecked, Serve, Leave, At, vars,
         fileVars, poolVars, mainVars, taskVars, histVars
  <1>5. Unopened'
    BY <1>a DEF TypeOK, PoolTypeOK, TaskTypeOK, TaskHas, PCs, Cache,
         LockOwned, CachedIsOpen, OpenIsCached, Unopened, Emptied,
         ReadyHasHome, ServedIsReady, GetChecked, Serve, Leave, At, vars,
         fileVars, poolVars, mainVars, taskVars, histVars
  <1>6. Emptied'
    BY <1>a DEF TypeOK, PoolTypeOK, TaskTypeOK, TaskHas, PCs, Cache,
         LockOwned, CachedIsOpen, OpenIsCached, Unopened, Emptied,
         ReadyHasHome, ServedIsReady, GetChecked, Serve, Leave, At, vars,
         fileVars, poolVars, mainVars, taskVars, histVars
  <1>7. ReadyHasHome'
    BY <1>a DEF TypeOK, PoolTypeOK, TaskTypeOK, TaskHas, PCs, Cache,
         LockOwned, CachedIsOpen, OpenIsCached, Unopened, Emptied,
         ReadyHasHome, ServedIsReady, GetChecked, Serve, Leave, At, vars,
         fileVars, poolVars, mainVars, taskVars, histVars
  <1>8. ServedIsReady'
    BY <1>a DEF TypeOK, PoolTypeOK, TaskTypeOK, TaskHas, PCs, Cache,
         LockOwned, CachedIsOpen, OpenIsCached, Unopened, Emptied,
         ReadyHasHome, ServedIsReady, GetChecked, Serve, Leave, At, vars,
         fileVars, poolVars, mainVars, taskVars, histVars
  <1> QED BY <1>1, <1>2, <1>3, <1>4, <1>5, <1>6, <1>7, <1>8 DEF Cache

LEMMA GetOpenFailsInv ==
    ASSUME Inv, NEW c \in Gets, GetOpenFails(c)
    PROVE  Inv'
  <1> USE TasksAssumption, DisjointAssumption DEF Tasks, Holding, Inv
  <1>1. TypeOK'
    <2>1. FileTypeOK'
      BY DEF TypeOK, FileTypeOK, GetOpenFails, Strikes, Leave, At, Ends, vars,
           fileVars, poolVars, mainVars, taskVars, histVars
    <2>2. PoolTypeOK'
      BY DEF TypeOK, FileTypeOK, PoolTypeOK, TaskHas, TaskTypeOK,
           GetOpenFails, Strikes, Leave, At, Ends, vars, fileVars, poolVars,
           mainVars, taskVars, histVars
    <2>3. TaskTypeOK'
      BY DEF TypeOK, PoolTypeOK, TaskTypeOK, TaskHas, PCs, Outcomes,
           GetOpenFails, Strikes, Leave, At, Ends, vars, fileVars, poolVars,
           mainVars, taskVars, histVars
    <2>4. \A u \in Tasks : TaskHas(u)'
      BY DEF TypeOK, PoolTypeOK, TaskTypeOK, TaskHas, Cache, LockOwned, PCs,
           GetOpenFails, Strikes, Leave, At, Ends, vars, fileVars, poolVars,
           mainVars, taskVars, histVars
    <2> QED BY <2>1, <2>2, <2>3, <2>4 DEF TypeOK
  <1>2. LockOwned'
    BY DEF TypeOK, PoolTypeOK, TaskTypeOK, TaskHas, PCs, Cache, LockOwned,
         CachedIsOpen, OpenIsCached, Unopened, Emptied, ReadyHasHome,
         ServedIsReady, GetOpenFails, Strikes, Leave, At, Ends, vars,
         fileVars, poolVars, mainVars, taskVars, histVars
  <1>3. CachedIsOpen'
    BY DEF TypeOK, PoolTypeOK, TaskTypeOK, TaskHas, PCs, Cache, LockOwned,
         CachedIsOpen, OpenIsCached, Unopened, Emptied, ReadyHasHome,
         ServedIsReady, GetOpenFails, Strikes, Leave, At, Ends, vars,
         fileVars, poolVars, mainVars, taskVars, histVars
  <1>4. OpenIsCached'
    BY DEF TypeOK, PoolTypeOK, TaskTypeOK, TaskHas, PCs, Cache, LockOwned,
         CachedIsOpen, OpenIsCached, Unopened, Emptied, ReadyHasHome,
         ServedIsReady, GetOpenFails, Strikes, Leave, At, Ends, vars,
         fileVars, poolVars, mainVars, taskVars, histVars
  <1>5. Unopened'
    BY DEF TypeOK, PoolTypeOK, TaskTypeOK, TaskHas, PCs, Cache, LockOwned,
         CachedIsOpen, OpenIsCached, Unopened, Emptied, ReadyHasHome,
         ServedIsReady, GetOpenFails, Strikes, Leave, At, Ends, vars,
         fileVars, poolVars, mainVars, taskVars, histVars
  <1>6. Emptied'
    BY DEF TypeOK, PoolTypeOK, TaskTypeOK, TaskHas, PCs, Cache, LockOwned,
         CachedIsOpen, OpenIsCached, Unopened, Emptied, ReadyHasHome,
         ServedIsReady, GetOpenFails, Strikes, Leave, At, Ends, vars,
         fileVars, poolVars, mainVars, taskVars, histVars
  <1>7. ReadyHasHome'
    BY DEF TypeOK, PoolTypeOK, TaskTypeOK, TaskHas, PCs, Cache, LockOwned,
         CachedIsOpen, OpenIsCached, Unopened, Emptied, ReadyHasHome,
         ServedIsReady, GetOpenFails, Strikes, Leave, At, Ends, vars,
         fileVars, poolVars, mainVars, taskVars, histVars
  <1>8. ServedIsReady'
    BY DEF TypeOK, PoolTypeOK, TaskTypeOK, TaskHas, PCs, Cache, LockOwned,
         CachedIsOpen, OpenIsCached, Unopened, Emptied, ReadyHasHome,
         ServedIsReady, GetOpenFails, Strikes, Leave, At, Ends, vars,
         fileVars, poolVars, mainVars, taskVars, histVars
  <1> QED BY <1>1, <1>2, <1>3, <1>4, <1>5, <1>6, <1>7, <1>8 DEF Cache

LEMMA GetCheckFailsInv ==
    ASSUME Inv, NEW c \in Gets, GetCheckFails(c)
    PROVE  Inv'
  <1> USE TasksAssumption, DisjointAssumption DEF Tasks, Holding, Inv
  <1>a. alias[c] \in Aliases
    BY DEF TypeOK, TaskHas, GetCheckFails
  <1>b. /\ conn' \in [Gets -> Connection]
        /\ \A k \in Gets : conn'[k].home = conn[k].home
        /\ \A k \in Gets : k # cached[alias[c]] => conn'[k].state = conn[k].state
        /\ cached' \in [Aliases -> Gets \cup {None}] /\ ready' \subseteq Aliases
    BY <1>a, EvictEffect DEF GetCheckFails
  <1>t. cached[alias[c]] \in Gets \cup {None}
    BY <1>a, <1>b DEF TypeOK, PoolTypeOK
  <1>u. cached[alias[c]] # None =>
            cached[alias[c]] \in Gets /\ conn[cached[alias[c]]].state # "none"
    BY <1>a, <1>b, <1>t DEF Cache, CachedIsOpen
  <1>1. TypeOK'
    <2>1. FileTypeOK'
      BY <1>a, <1>b DEF TypeOK, FileTypeOK, GetCheckFails, Evict, Strikes, At,
           vars, fileVars, poolVars, mainVars, taskVars, histVars
    <2>2. PoolTypeOK'
      BY <1>a, <1>b DEF TypeOK, FileTypeOK, PoolTypeOK, TaskHas, TaskTypeOK,
           GetCheckFails, Evict, Strikes, At, vars, fileVars, poolVars,
           mainVars, taskVars, histVars
    <2>3. TaskTypeOK'
      BY <1>a, <1>b DEF TypeOK, PoolTypeOK, TaskTypeOK, TaskHas, PCs,
           Outcomes, GetCheckFails, Evict, Strikes, At, vars, fileVars,
           poolVars, mainVars, taskVars, histVars
    <2>4. \A u \in Tasks : TaskHas(u)'
      BY <1>a, <1>b DEF TypeOK, PoolTypeOK, TaskTypeOK, TaskHas, Cache,
           LockOwned, PCs, GetCheckFails, Evict, Strikes, At, vars, fileVars,
           poolVars, mainVars, taskVars, histVars
    <2> QED BY <2>1, <2>2, <2>3, <2>4 DEF TypeOK
  <1>2. LockOwned'
    BY <1>a, <1>b DEF TypeOK, PoolTypeOK, TaskTypeOK, TaskHas, PCs, Cache,
         LockOwned, CachedIsOpen, OpenIsCached, Unopened, Emptied,
         ReadyHasHome, ServedIsReady, GetCheckFails, Evict, Strikes, At, vars,
         fileVars, poolVars, mainVars, taskVars, histVars
  <1>3. CachedIsOpen'
    BY <1>a, <1>b DEF TypeOK, PoolTypeOK, TaskTypeOK, TaskHas, PCs, Cache,
         LockOwned, CachedIsOpen, OpenIsCached, Unopened, Emptied,
         ReadyHasHome, ServedIsReady, GetCheckFails, Evict, Strikes, At, vars,
         fileVars, poolVars, mainVars, taskVars, histVars
  <1>4. OpenIsCached'
    BY <1>a, <1>b DEF TypeOK, PoolTypeOK, TaskTypeOK, TaskHas, PCs, Cache,
         LockOwned, CachedIsOpen, OpenIsCached, Unopened, Emptied,
         ReadyHasHome, ServedIsReady, GetCheckFails, Evict, Strikes, At, vars,
         fileVars, poolVars, mainVars, taskVars, histVars
  <1>5. Unopened'
    BY <1>a, <1>b, <1>u DEF TypeOK, TaskTypeOK, Cache, Unopened, At,
         GetCheckFails
  <1>6. Emptied'
    BY <1>a, <1>b DEF TypeOK, PoolTypeOK, TaskTypeOK, TaskHas, PCs, Cache,
         LockOwned, CachedIsOpen, OpenIsCached, Unopened, Emptied,
         ReadyHasHome, ServedIsReady, GetCheckFails, Evict, Strikes, At, vars,
         fileVars, poolVars, mainVars, taskVars, histVars
  <1>7. ReadyHasHome'
    BY <1>a, <1>b DEF TypeOK, PoolTypeOK, TaskTypeOK, TaskHas, PCs, Cache,
         LockOwned, CachedIsOpen, OpenIsCached, Unopened, Emptied,
         ReadyHasHome, ServedIsReady, GetCheckFails, Evict, Strikes, At, vars,
         fileVars, poolVars, mainVars, taskVars, histVars
  <1>8. ServedIsReady'
    BY <1>a, <1>b DEF TypeOK, PoolTypeOK, TaskTypeOK, TaskHas, PCs, Cache,
         LockOwned, CachedIsOpen, OpenIsCached, Unopened, Emptied,
         ReadyHasHome, ServedIsReady, GetCheckFails, Evict, Strikes, At, vars,
         fileVars, poolVars, mainVars, taskVars, histVars
  <1> QED BY <1>1, <1>2, <1>3, <1>4, <1>5, <1>6, <1>7, <1>8 DEF Cache

LEMMA GetAbortedInv ==
    ASSUME Inv, NEW c \in Gets, GetAborted(c)
    PROVE  Inv'
  <1> USE TasksAssumption, DisjointAssumption DEF Tasks, Holding, Inv
  <1>1. TypeOK'
    <2>1. FileTypeOK'
      BY DEF TypeOK, FileTypeOK, GetAborted, Leave, At, Ends, vars, fileVars,
           poolVars, mainVars, taskVars, histVars
    <2>2. PoolTypeOK'
      BY DEF TypeOK, FileTypeOK, PoolTypeOK, TaskHas, TaskTypeOK, GetAborted,
           Leave, At, Ends, vars, fileVars, poolVars, mainVars, taskVars,
           histVars
    <2>3. TaskTypeOK'
      BY DEF TypeOK, PoolTypeOK, TaskTypeOK, TaskHas, PCs, Outcomes,
           GetAborted, Leave, At, Ends, vars, fileVars, poolVars, mainVars,
           taskVars, histVars
    <2>4. \A u \in Tasks : TaskHas(u)'
      BY DEF TypeOK, PoolTypeOK, TaskTypeOK, TaskHas, Cache, LockOwned, PCs,
           GetAborted, Leave, At, Ends, vars, fileVars, poolVars, mainVars,
           taskVars, histVars
    <2> QED BY <2>1, <2>2, <2>3, <2>4 DEF TypeOK
  <1>2. LockOwned'
    BY DEF TypeOK, PoolTypeOK, TaskTypeOK, TaskHas, PCs, Cache, LockOwned,
         CachedIsOpen, OpenIsCached, Unopened, Emptied, ReadyHasHome,
         ServedIsReady, GetAborted, Leave, At, Ends, vars, fileVars, poolVars,
         mainVars, taskVars, histVars
  <1>3. CachedIsOpen'
    BY DEF TypeOK, PoolTypeOK, TaskTypeOK, TaskHas, PCs, Cache, LockOwned,
         CachedIsOpen, OpenIsCached, Unopened, Emptied, ReadyHasHome,
         ServedIsReady, GetAborted, Leave, At, Ends, vars, fileVars, poolVars,
         mainVars, taskVars, histVars
  <1>4. OpenIsCached'
    BY DEF TypeOK, PoolTypeOK, TaskTypeOK, TaskHas, PCs, Cache, LockOwned,
         CachedIsOpen, OpenIsCached, Unopened, Emptied, ReadyHasHome,
         ServedIsReady, GetAborted, Leave, At, Ends, vars, fileVars, poolVars,
         mainVars, taskVars, histVars
  <1>5. Unopened'
    BY DEF TypeOK, PoolTypeOK, TaskTypeOK, TaskHas, PCs, Cache, LockOwned,
         CachedIsOpen, OpenIsCached, Unopened, Emptied, ReadyHasHome,
         ServedIsReady, GetAborted, Leave, At, Ends, vars, fileVars, poolVars,
         mainVars, taskVars, histVars
  <1>6. Emptied'
    BY DEF TypeOK, PoolTypeOK, TaskTypeOK, TaskHas, PCs, Cache, LockOwned,
         CachedIsOpen, OpenIsCached, Unopened, Emptied, ReadyHasHome,
         ServedIsReady, GetAborted, Leave, At, Ends, vars, fileVars, poolVars,
         mainVars, taskVars, histVars
  <1>7. ReadyHasHome'
    BY DEF TypeOK, PoolTypeOK, TaskTypeOK, TaskHas, PCs, Cache, LockOwned,
         CachedIsOpen, OpenIsCached, Unopened, Emptied, ReadyHasHome,
         ServedIsReady, GetAborted, Leave, At, Ends, vars, fileVars, poolVars,
         mainVars, taskVars, histVars
  <1>8. ServedIsReady'
    BY DEF TypeOK, PoolTypeOK, TaskTypeOK, TaskHas, PCs, Cache, LockOwned,
         CachedIsOpen, OpenIsCached, Unopened, Emptied, ReadyHasHome,
         ServedIsReady, GetAborted, Leave, At, Ends, vars, fileVars, poolVars,
         mainVars, taskVars, histVars
  <1> QED BY <1>1, <1>2, <1>3, <1>4, <1>5, <1>6, <1>7, <1>8 DEF Cache

LEMMA UseDoneInv ==
    ASSUME Inv, NEW c \in Gets, UseDone(c)
    PROVE  Inv'
  <1> USE TasksAssumption, DisjointAssumption DEF Tasks, Holding, Inv
  <1>1. TypeOK'
    <2>1. FileTypeOK'
      BY DEF TypeOK, FileTypeOK, UseDone, At, Ends, vars, fileVars, poolVars,
           mainVars, taskVars, histVars
    <2>2. PoolTypeOK'
      BY DEF TypeOK, FileTypeOK, PoolTypeOK, TaskHas, TaskTypeOK, UseDone, At,
           Ends, vars, fileVars, poolVars, mainVars, taskVars, histVars
    <2>3. TaskTypeOK'
      BY DEF TypeOK, PoolTypeOK, TaskTypeOK, TaskHas, PCs, Outcomes, UseDone,
           At, Ends, vars, fileVars, poolVars, mainVars, taskVars, histVars
    <2>4. \A u \in Tasks : TaskHas(u)'
      BY DEF TypeOK, PoolTypeOK, TaskTypeOK, TaskHas, Cache, LockOwned, PCs,
           UseDone, At, Ends, vars, fileVars, poolVars, mainVars, taskVars,
           histVars
    <2> QED BY <2>1, <2>2, <2>3, <2>4 DEF TypeOK
  <1>2. LockOwned'
    BY DEF TypeOK, PoolTypeOK, TaskTypeOK, TaskHas, PCs, Cache, LockOwned,
         CachedIsOpen, OpenIsCached, Unopened, Emptied, ReadyHasHome,
         ServedIsReady, UseDone, At, Ends, vars, fileVars, poolVars, mainVars,
         taskVars, histVars
  <1>3. CachedIsOpen'
    BY DEF TypeOK, PoolTypeOK, TaskTypeOK, TaskHas, PCs, Cache, LockOwned,
         CachedIsOpen, OpenIsCached, Unopened, Emptied, ReadyHasHome,
         ServedIsReady, UseDone, At, Ends, vars, fileVars, poolVars, mainVars,
         taskVars, histVars
  <1>4. OpenIsCached'
    BY DEF TypeOK, PoolTypeOK, TaskTypeOK, TaskHas, PCs, Cache, LockOwned,
         CachedIsOpen, OpenIsCached, Unopened, Emptied, ReadyHasHome,
         ServedIsReady, UseDone, At, Ends, vars, fileVars, poolVars, mainVars,
         taskVars, histVars
  <1>5. Unopened'
    BY DEF TypeOK, PoolTypeOK, TaskTypeOK, TaskHas, PCs, Cache, LockOwned,
         CachedIsOpen, OpenIsCached, Unopened, Emptied, ReadyHasHome,
         ServedIsReady, UseDone, At, Ends, vars, fileVars, poolVars, mainVars,
         taskVars, histVars
  <1>6. Emptied'
    BY DEF TypeOK, PoolTypeOK, TaskTypeOK, TaskHas, PCs, Cache, LockOwned,
         CachedIsOpen, OpenIsCached, Unopened, Emptied, ReadyHasHome,
         ServedIsReady, UseDone, At, Ends, vars, fileVars, poolVars, mainVars,
         taskVars, histVars
  <1>7. ReadyHasHome'
    BY DEF TypeOK, PoolTypeOK, TaskTypeOK, TaskHas, PCs, Cache, LockOwned,
         CachedIsOpen, OpenIsCached, Unopened, Emptied, ReadyHasHome,
         ServedIsReady, UseDone, At, Ends, vars, fileVars, poolVars, mainVars,
         taskVars, histVars
  <1>8. ServedIsReady'
    BY DEF TypeOK, PoolTypeOK, TaskTypeOK, TaskHas, PCs, Cache, LockOwned,
         CachedIsOpen, OpenIsCached, Unopened, Emptied, ReadyHasHome,
         ServedIsReady, UseDone, At, Ends, vars, fileVars, poolVars, mainVars,
         taskVars, histVars
  <1> QED BY <1>1, <1>2, <1>3, <1>4, <1>5, <1>6, <1>7, <1>8 DEF Cache

LEMMA UseFailsInv ==
    ASSUME Inv, NEW c \in Gets, UseFails(c)
    PROVE  Inv'
  <1> USE TasksAssumption, DisjointAssumption DEF Tasks, Holding, Inv
  <1>z. conn' \in [Gets -> Connection]
    <2>1. conn \in [Gets -> Connection] /\ served[c] \in Gets
      BY DEF TypeOK, PoolTypeOK, TaskHas, UseFails
    <2>2. [conn[served[c]] EXCEPT !.dead = TRUE] \in Connection
      BY <2>1, FlagsTyped
    <2>3. conn' = [conn EXCEPT ![served[c]] = [conn[served[c]] EXCEPT !.dead = TRUE]]
      BY <2>1 DEF UseFails
    <2> QED BY <2>1, <2>2, <2>3
  <1>1. TypeOK'
    <2>1. FileTypeOK'
      BY DEF TypeOK, FileTypeOK, UseFails, At, Ends, vars, fileVars, poolVars,
           mainVars, taskVars, histVars
    <2>2. PoolTypeOK'
      BY <1>z DEF TypeOK, FileTypeOK, PoolTypeOK, TaskHas, TaskTypeOK,
           UseFails, At, Ends, vars, fileVars, poolVars, mainVars, taskVars,
           histVars
    <2>3. TaskTypeOK'
      BY DEF TypeOK, PoolTypeOK, TaskTypeOK, TaskHas, PCs, Outcomes, UseFails,
           At, Ends, vars, fileVars, poolVars, mainVars, taskVars, histVars
    <2>4. \A u \in Tasks : TaskHas(u)'
      BY DEF TypeOK, PoolTypeOK, TaskTypeOK, TaskHas, Cache, LockOwned, PCs,
           UseFails, At, Ends, vars, fileVars, poolVars, mainVars, taskVars,
           histVars
    <2> QED BY <2>1, <2>2, <2>3, <2>4 DEF TypeOK
  <1>2. LockOwned'
    BY DEF TypeOK, PoolTypeOK, TaskTypeOK, TaskHas, PCs, Cache, LockOwned,
         CachedIsOpen, OpenIsCached, Unopened, Emptied, ReadyHasHome,
         ServedIsReady, UseFails, At, Ends, vars, fileVars, poolVars,
         mainVars, taskVars, histVars
  <1>3. CachedIsOpen'
    BY DEF TypeOK, PoolTypeOK, TaskTypeOK, TaskHas, PCs, Cache, LockOwned,
         CachedIsOpen, OpenIsCached, Unopened, Emptied, ReadyHasHome,
         ServedIsReady, UseFails, At, Ends, vars, fileVars, poolVars,
         mainVars, taskVars, histVars
  <1>4. OpenIsCached'
    BY DEF TypeOK, PoolTypeOK, TaskTypeOK, TaskHas, PCs, Cache, LockOwned,
         CachedIsOpen, OpenIsCached, Unopened, Emptied, ReadyHasHome,
         ServedIsReady, UseFails, At, Ends, vars, fileVars, poolVars,
         mainVars, taskVars, histVars
  <1>5. Unopened'
    BY DEF TypeOK, PoolTypeOK, TaskTypeOK, TaskHas, PCs, Cache, LockOwned,
         CachedIsOpen, OpenIsCached, Unopened, Emptied, ReadyHasHome,
         ServedIsReady, UseFails, At, Ends, vars, fileVars, poolVars,
         mainVars, taskVars, histVars
  <1>6. Emptied'
    BY DEF TypeOK, PoolTypeOK, TaskTypeOK, TaskHas, PCs, Cache, LockOwned,
         CachedIsOpen, OpenIsCached, Unopened, Emptied, ReadyHasHome,
         ServedIsReady, UseFails, At, Ends, vars, fileVars, poolVars,
         mainVars, taskVars, histVars
  <1>7. ReadyHasHome'
    BY DEF TypeOK, PoolTypeOK, TaskTypeOK, TaskHas, PCs, Cache, LockOwned,
         CachedIsOpen, OpenIsCached, Unopened, Emptied, ReadyHasHome,
         ServedIsReady, UseFails, At, Ends, vars, fileVars, poolVars,
         mainVars, taskVars, histVars
  <1>8. ServedIsReady'
    BY DEF TypeOK, PoolTypeOK, TaskTypeOK, TaskHas, PCs, Cache, LockOwned,
         CachedIsOpen, OpenIsCached, Unopened, Emptied, ReadyHasHome,
         ServedIsReady, UseFails, At, Ends, vars, fileVars, poolVars,
         mainVars, taskVars, histVars
  <1> QED BY <1>1, <1>2, <1>3, <1>4, <1>5, <1>6, <1>7, <1>8 DEF Cache

LEMMA VisitWaits ==
    ASSUME Inv, NEW r \in Reloads, NEW a \in Aliases,
           pc[r] \in {"new", "next"}, hosts' \in [Aliases -> Entry],
           alias' = [alias EXCEPT ![r] = a],
           atStart' \in [Tasks -> History],
           UNCHANGED <<fileVars, mainVars, served, outcome, applied>>,
           UNCHANGED poolVars, At(r, "lock"),
           todo' \in [Reloads -> SUBSET Aliases]
    PROVE  Inv'
  <1> USE TasksAssumption, DisjointAssumption DEF Tasks, Holding, Inv
  <1>1. TypeOK'
    <2>1. FileTypeOK'
      BY DEF TypeOK, FileTypeOK, At, vars, fileVars, poolVars, mainVars,
           taskVars, histVars
    <2>2. PoolTypeOK'
      BY DEF TypeOK, FileTypeOK, PoolTypeOK, TaskHas, TaskTypeOK, At, vars,
           fileVars, poolVars, mainVars, taskVars, histVars
    <2>3. TaskTypeOK'
      BY DEF TypeOK, PoolTypeOK, TaskTypeOK, TaskHas, PCs, Outcomes, At, vars,
           fileVars, poolVars, mainVars, taskVars, histVars
    <2>4. \A u \in Tasks : TaskHas(u)'
      BY DEF TypeOK, PoolTypeOK, TaskTypeOK, TaskHas, Cache, LockOwned, PCs,
           At, vars, fileVars, poolVars, mainVars, taskVars, histVars
    <2> QED BY <2>1, <2>2, <2>3, <2>4 DEF TypeOK
  <1>2. LockOwned'
    BY DEF TypeOK, PoolTypeOK, TaskTypeOK, TaskHas, PCs, Cache, LockOwned,
         CachedIsOpen, OpenIsCached, Unopened, Emptied, ReadyHasHome,
         ServedIsReady, At, vars, fileVars, poolVars, mainVars, taskVars,
         histVars
  <1>3. CachedIsOpen'
    BY DEF TypeOK, PoolTypeOK, TaskTypeOK, TaskHas, PCs, Cache, LockOwned,
         CachedIsOpen, OpenIsCached, Unopened, Emptied, ReadyHasHome,
         ServedIsReady, At, vars, fileVars, poolVars, mainVars, taskVars,
         histVars
  <1>4. OpenIsCached'
    BY DEF TypeOK, PoolTypeOK, TaskTypeOK, TaskHas, PCs, Cache, LockOwned,
         CachedIsOpen, OpenIsCached, Unopened, Emptied, ReadyHasHome,
         ServedIsReady, At, vars, fileVars, poolVars, mainVars, taskVars,
         histVars
  <1>5. Unopened'
    BY DEF TypeOK, PoolTypeOK, TaskTypeOK, TaskHas, PCs, Cache, LockOwned,
         CachedIsOpen, OpenIsCached, Unopened, Emptied, ReadyHasHome,
         ServedIsReady, At, vars, fileVars, poolVars, mainVars, taskVars,
         histVars
  <1>6. Emptied'
    BY DEF TypeOK, PoolTypeOK, TaskTypeOK, TaskHas, PCs, Cache, LockOwned,
         CachedIsOpen, OpenIsCached, Unopened, Emptied, ReadyHasHome,
         ServedIsReady, At, vars, fileVars, poolVars, mainVars, taskVars,
         histVars
  <1>7. ReadyHasHome'
    BY DEF TypeOK, PoolTypeOK, TaskTypeOK, TaskHas, PCs, Cache, LockOwned,
         CachedIsOpen, OpenIsCached, Unopened, Emptied, ReadyHasHome,
         ServedIsReady, At, vars, fileVars, poolVars, mainVars, taskVars,
         histVars
  <1>8. ServedIsReady'
    BY DEF TypeOK, PoolTypeOK, TaskTypeOK, TaskHas, PCs, Cache, LockOwned,
         CachedIsOpen, OpenIsCached, Unopened, Emptied, ReadyHasHome,
         ServedIsReady, At, vars, fileVars, poolVars, mainVars, taskVars,
         histVars
  <1> QED BY <1>1, <1>2, <1>3, <1>4, <1>5, <1>6, <1>7, <1>8 DEF Cache

\* update_hosts evicts a, with the lock of a or in one step.
LEMMA VisitEvicts ==
    ASSUME Inv, NEW r \in Reloads, NEW a \in Aliases,
           pc[r] \in {"new", "next", "lock"}, lock[a] = None,
           hosts' \in [Aliases -> Entry],
           alias' = [alias EXCEPT ![r] = a],
           atStart' \in [Tasks -> History],
           UNCHANGED <<fileVars, mainVars, served, outcome, applied>>,
           Evict(a), todo' \in [Reloads -> SUBSET Aliases],
           \/ Take(a, r) /\ At(r, "close")
           \/ UNCHANGED lock /\ At(r, "next")
    PROVE  Inv'
  <1> USE TasksAssumption, DisjointAssumption DEF Tasks, Holding, Inv
  <1>a. /\ conn' \in [Gets -> Connection]
        /\ \A k \in Gets : conn'[k].home = conn[k].home
        /\ \A k \in Gets : k # cached[a] => conn'[k].state = conn[k].state
        /\ cached' \in [Aliases -> Gets \cup {None}] /\ ready' \subseteq Aliases
    BY EvictEffect
  <1>t. cached[a] \in Gets \cup {None}
    BY <1>a DEF TypeOK, PoolTypeOK
  <1>u. cached[a] # None =>
            cached[a] \in Gets /\ conn[cached[a]].state # "none"
    BY <1>a, <1>t DEF Cache, CachedIsOpen
  <1>1. TypeOK'
    <2>1. FileTypeOK'
      BY <1>a DEF TypeOK, FileTypeOK, Evict, Take, At, vars, fileVars,
           poolVars, mainVars, taskVars, histVars
    <2>2. PoolTypeOK'
      BY <1>a DEF TypeOK, PoolTypeOK, Take, vars, fileVars, poolVars,
           mainVars, taskVars, histVars
    <2>3. TaskTypeOK'
      BY DEF TypeOK, TaskTypeOK, Take, At, PCs, Outcomes, vars, fileVars,
           poolVars, mainVars, taskVars, histVars
    <2>4. \A u \in Tasks : TaskHas(u)'
      BY <1>a DEF TypeOK, PoolTypeOK, TaskTypeOK, TaskHas, Cache, LockOwned,
           PCs, Evict, Take, At, vars, fileVars, poolVars, mainVars, taskVars,
           histVars
    <2> QED BY <2>1, <2>2, <2>3, <2>4 DEF TypeOK
  <1>2. LockOwned'
    BY <1>a DEF TypeOK, PoolTypeOK, TaskTypeOK, TaskHas, PCs, Cache,
         LockOwned, CachedIsOpen, OpenIsCached, Unopened, Emptied,
         ReadyHasHome, ServedIsReady, Evict, Take, At, vars, fileVars,
         poolVars, mainVars, taskVars, histVars
  <1>3. CachedIsOpen'
    BY <1>a DEF TypeOK, PoolTypeOK, TaskTypeOK, TaskHas, PCs, Cache,
         LockOwned, CachedIsOpen, OpenIsCached, Unopened, Emptied,
         ReadyHasHome, ServedIsReady, Evict, Take, At, vars, fileVars,
         poolVars, mainVars, taskVars, histVars
  <1>4. OpenIsCached'
    BY <1>a DEF TypeOK, PoolTypeOK, TaskTypeOK, TaskHas, PCs, Cache,
         LockOwned, CachedIsOpen, OpenIsCached, Unopened, Emptied,
         ReadyHasHome, ServedIsReady, Evict, Take, At, vars, fileVars,
         poolVars, mainVars, taskVars, histVars
  <1>5. Unopened'
    BY <1>a, <1>u DEF TypeOK, TaskTypeOK, Cache, Unopened, At
  <1>6. Emptied'
    BY <1>a DEF TypeOK, PoolTypeOK, TaskTypeOK, TaskHas, PCs, Cache,
         LockOwned, CachedIsOpen, OpenIsCached, Unopened, Emptied,
         ReadyHasHome, ServedIsReady, Evict, Take, At, vars, fileVars,
         poolVars, mainVars, taskVars, histVars
  <1>7. ReadyHasHome'
    BY <1>a DEF TypeOK, PoolTypeOK, TaskTypeOK, TaskHas, PCs, Cache,
         LockOwned, CachedIsOpen, OpenIsCached, Unopened, Emptied,
         ReadyHasHome, ServedIsReady, Evict, Take, At, vars, fileVars,
         poolVars, mainVars, taskVars, histVars
  <1>8. ServedIsReady'
    BY <1>a DEF TypeOK, PoolTypeOK, TaskTypeOK, TaskHas, PCs, Cache,
         LockOwned, CachedIsOpen, OpenIsCached, Unopened, Emptied,
         ReadyHasHome, ServedIsReady, Evict, Take, At, vars, fileVars,
         poolVars, mainVars, taskVars, histVars
  <1> QED BY <1>1, <1>2, <1>3, <1>4, <1>5, <1>6, <1>7, <1>8 DEF Cache

LEMMA VisitInv ==
    ASSUME Inv, NEW r \in Reloads, NEW a \in Aliases,
           NEW left \in SUBSET Aliases,
           pc[r] \in {"new", "next"}, hosts' \in [Aliases -> Entry],
           alias' = [alias EXCEPT ![r] = a], Visit(r, a, left),
           atStart' \in [Tasks -> History],
           UNCHANGED <<fileVars, mainVars, served, outcome, applied>>
    PROVE  Inv'
  <1>0. CASE UNCHANGED poolVars /\ At(r, "lock")
             /\ todo' \in [Reloads -> SUBSET Aliases]
    BY <1>0, VisitWaits
  <1>1. CASE ~Contended(a) /\ Evict(a) /\ todo' \in [Reloads -> SUBSET Aliases]
             /\ (\/ Take(a, r) /\ At(r, "close")
                 \/ UNCHANGED lock /\ At(r, "next"))
    BY <1>1, VisitEvicts DEF Contended, Free
  <1>2. todo \in [Reloads -> SUBSET Aliases]
    BY DEF Inv, TypeOK, TaskTypeOK
  <1> QED BY <1>0, <1>1, <1>2 DEF Visit

LEMMA EndsInv ==
    ASSUME Inv, NEW r \in Reloads, NEW goal \in [Aliases -> Nat],
           ReloadEnds(r, goal), hosts' \in [Aliases -> Entry],
           atStart' \in [Tasks -> History],
           UNCHANGED <<fileVars, mainVars, served, outcome>>,
           pc[r] \in {"new", "next"}
    PROVE  Inv'
  <1> USE TasksAssumption, DisjointAssumption DEF Tasks, Holding, Inv
  <1>1. TypeOK'
    <2>1. FileTypeOK'
      BY DEF TypeOK, FileTypeOK, ReloadEnds, Larger, At, vars, fileVars,
           poolVars, mainVars, taskVars, histVars
    <2>2. PoolTypeOK'
      BY DEF TypeOK, FileTypeOK, PoolTypeOK, TaskHas, TaskTypeOK, ReloadEnds,
           Larger, At, vars, fileVars, poolVars, mainVars, taskVars, histVars
    <2>3. TaskTypeOK'
      BY DEF TypeOK, PoolTypeOK, TaskTypeOK, TaskHas, PCs, Outcomes,
           ReloadEnds, Larger, At, vars, fileVars, poolVars, mainVars,
           taskVars, histVars
    <2>4. \A u \in Tasks : TaskHas(u)'
      BY DEF TypeOK, PoolTypeOK, TaskTypeOK, TaskHas, Cache, LockOwned, PCs,
           ReloadEnds, Larger, At, vars, fileVars, poolVars, mainVars,
           taskVars, histVars
    <2> QED BY <2>1, <2>2, <2>3, <2>4 DEF TypeOK
  <1>2. LockOwned'
    BY DEF TypeOK, PoolTypeOK, TaskTypeOK, TaskHas, PCs, Cache, LockOwned,
         CachedIsOpen, OpenIsCached, Unopened, Emptied, ReadyHasHome,
         ServedIsReady, ReloadEnds, Larger, At, vars, fileVars, poolVars,
         mainVars, taskVars, histVars
  <1>3. CachedIsOpen'
    BY DEF TypeOK, PoolTypeOK, TaskTypeOK, TaskHas, PCs, Cache, LockOwned,
         CachedIsOpen, OpenIsCached, Unopened, Emptied, ReadyHasHome,
         ServedIsReady, ReloadEnds, Larger, At, vars, fileVars, poolVars,
         mainVars, taskVars, histVars
  <1>4. OpenIsCached'
    BY DEF TypeOK, PoolTypeOK, TaskTypeOK, TaskHas, PCs, Cache, LockOwned,
         CachedIsOpen, OpenIsCached, Unopened, Emptied, ReadyHasHome,
         ServedIsReady, ReloadEnds, Larger, At, vars, fileVars, poolVars,
         mainVars, taskVars, histVars
  <1>5. Unopened'
    BY DEF TypeOK, PoolTypeOK, TaskTypeOK, TaskHas, PCs, Cache, LockOwned,
         CachedIsOpen, OpenIsCached, Unopened, Emptied, ReadyHasHome,
         ServedIsReady, ReloadEnds, Larger, At, vars, fileVars, poolVars,
         mainVars, taskVars, histVars
  <1>6. Emptied'
    BY DEF TypeOK, PoolTypeOK, TaskTypeOK, TaskHas, PCs, Cache, LockOwned,
         CachedIsOpen, OpenIsCached, Unopened, Emptied, ReadyHasHome,
         ServedIsReady, ReloadEnds, Larger, At, vars, fileVars, poolVars,
         mainVars, taskVars, histVars
  <1>7. ReadyHasHome'
    BY DEF TypeOK, PoolTypeOK, TaskTypeOK, TaskHas, PCs, Cache, LockOwned,
         CachedIsOpen, OpenIsCached, Unopened, Emptied, ReadyHasHome,
         ServedIsReady, ReloadEnds, Larger, At, vars, fileVars, poolVars,
         mainVars, taskVars, histVars
  <1>8. ServedIsReady'
    BY DEF TypeOK, PoolTypeOK, TaskTypeOK, TaskHas, PCs, Cache, LockOwned,
         CachedIsOpen, OpenIsCached, Unopened, Emptied, ReadyHasHome,
         ServedIsReady, ReloadEnds, Larger, At, vars, fileVars, poolVars,
         mainVars, taskVars, histVars
  <1> QED BY <1>1, <1>2, <1>3, <1>4, <1>5, <1>6, <1>7, <1>8 DEF Cache

LEMMA ReloadStartInv ==
    ASSUME Inv, NEW r \in Reloads, ReloadStart(r)
    PROVE  Inv'
  <1> DEFINE goal == [a \in Aliases |-> disk[a].edition]
             x == \A q \in Reloads : pc[q] \in {"new", "end"}
  <1>1. goal \in [Aliases -> Nat] /\ hosts' \in [Aliases -> Entry]
    BY DEF ReloadStart, Inv, TypeOK, FileTypeOK, Entry
  <1>2. [NoHistory EXCEPT !.goal = goal, !.calm = x] \in History
    <2>1. x \in BOOLEAN
      OBVIOUS
    <2> HIDE DEF goal, x
    <2> QED BY <1>1, <2>1, HistoryTyped, 0 \in Nat
  <1>3. atStart' \in [Tasks -> History]
    BY <1>2 DEF ReloadStart, Inv, TypeOK, TaskTypeOK, Tasks
  <1>4. /\ pc[r] \in {"new", "next"} /\ Changed \in SUBSET Aliases
        /\ UNCHANGED <<fileVars, mainVars, served, outcome>>
    BY DEF ReloadStart, Changed
  <1>5. CASE ReloadEnds(r, goal)
    <2> HIDE DEF goal
    <2> QED BY <1>1, <1>3, <1>4, <1>5, EndsInv
  <1>6. ASSUME NEW a \in Changed, alias' = [alias EXCEPT ![r] = a],
               Visit(r, a, Changed), UNCHANGED applied
        PROVE  Inv'
    <2>1. a \in Aliases
      BY <1>4, <1>6
    <2> QED BY <1>1, <1>3, <1>4, <1>6, <2>1, VisitInv
  <1> QED BY <1>5, <1>6 DEF ReloadStart

LEMMA ReloadNextInv ==
    ASSUME Inv, NEW r \in Reloads, ReloadNext(r)
    PROVE  Inv'
  <1>1. /\ hosts' \in [Aliases -> Entry] /\ todo[r] \in SUBSET Aliases
        /\ atStart' \in [Tasks -> History]
        /\ atStart[r].goal \in [Aliases -> Nat]
    BY DEF ReloadNext, Inv, TypeOK, FileTypeOK, TaskTypeOK, History, Tasks
  <1>2. /\ pc[r] \in {"new", "next"}
        /\ UNCHANGED <<fileVars, mainVars, served, outcome>>
    BY DEF ReloadNext
  <1>3. CASE ReloadEnds(r, atStart[r].goal)
    BY <1>1, <1>2, <1>3, EndsInv
  <1>4. ASSUME NEW a \in todo[r], alias' = [alias EXCEPT ![r] = a],
               Visit(r, a, todo[r]), UNCHANGED applied
        PROVE  Inv'
    <2>1. a \in Aliases
      BY <1>1, <1>4
    <2> QED BY <1>1, <1>2, <1>4, <2>1, VisitInv
  <1> QED BY <1>3, <1>4 DEF ReloadNext

LEMMA ReloadLockedInv ==
    ASSUME Inv, NEW r \in Reloads, ReloadLocked(r)
    PROVE  Inv'
  <1> DEFINE a == alias[r]
  <1>1. a \in Aliases /\ lock[a] = None
    BY DEF ReloadLocked, Free, Inv, TypeOK, TaskHas, Tasks
  <1>2. todo' \in [Reloads -> SUBSET Aliases]
    BY <1>1 DEF ReloadLocked, Inv, TypeOK, TaskTypeOK
  <1>3. alias' = [alias EXCEPT ![r] = a]
    BY DEF ReloadLocked, Inv, TypeOK, TaskTypeOK, Tasks
  <1>4. hosts' \in [Aliases -> Entry] /\ atStart' \in [Tasks -> History]
    BY DEF ReloadLocked, histVars, Inv, TypeOK, FileTypeOK, TaskTypeOK
  <1>5. /\ pc[r] = "lock" /\ Evict(a)
        /\ UNCHANGED <<fileVars, mainVars, served, outcome, applied>>
        /\ \/ Take(a, r) /\ At(r, "close")
           \/ UNCHANGED lock /\ At(r, "next")
    BY DEF ReloadLocked, histVars
  <1> HIDE DEF a
  <1> QED BY <1>1, <1>2, <1>3, <1>4, <1>5, VisitEvicts

LEMMA ReloadMalformedInv ==
    ASSUME Inv, NEW r \in Reloads, ReloadMalformed(r)
    PROVE  Inv'
  <1> USE TasksAssumption, DisjointAssumption DEF Tasks, Holding, Inv
  <1>1. TypeOK'
    <2>1. FileTypeOK'
      BY DEF TypeOK, FileTypeOK, ReloadMalformed, Strikes, At, vars, fileVars,
           poolVars, mainVars, taskVars, histVars
    <2>2. PoolTypeOK'
      BY DEF TypeOK, FileTypeOK, PoolTypeOK, TaskHas, TaskTypeOK,
           ReloadMalformed, Strikes, At, vars, fileVars, poolVars, mainVars,
           taskVars, histVars
    <2>3. TaskTypeOK'
      BY DEF TypeOK, PoolTypeOK, TaskTypeOK, TaskHas, PCs, Outcomes,
           ReloadMalformed, Strikes, At, vars, fileVars, poolVars, mainVars,
           taskVars, histVars
    <2>4. \A u \in Tasks : TaskHas(u)'
      BY DEF TypeOK, PoolTypeOK, TaskTypeOK, TaskHas, Cache, LockOwned, PCs,
           ReloadMalformed, Strikes, At, vars, fileVars, poolVars, mainVars,
           taskVars, histVars
    <2> QED BY <2>1, <2>2, <2>3, <2>4 DEF TypeOK
  <1>2. LockOwned'
    BY DEF TypeOK, PoolTypeOK, TaskTypeOK, TaskHas, PCs, Cache, LockOwned,
         CachedIsOpen, OpenIsCached, Unopened, Emptied, ReadyHasHome,
         ServedIsReady, ReloadMalformed, Strikes, At, vars, fileVars,
         poolVars, mainVars, taskVars, histVars
  <1>3. CachedIsOpen'
    BY DEF TypeOK, PoolTypeOK, TaskTypeOK, TaskHas, PCs, Cache, LockOwned,
         CachedIsOpen, OpenIsCached, Unopened, Emptied, ReadyHasHome,
         ServedIsReady, ReloadMalformed, Strikes, At, vars, fileVars,
         poolVars, mainVars, taskVars, histVars
  <1>4. OpenIsCached'
    BY DEF TypeOK, PoolTypeOK, TaskTypeOK, TaskHas, PCs, Cache, LockOwned,
         CachedIsOpen, OpenIsCached, Unopened, Emptied, ReadyHasHome,
         ServedIsReady, ReloadMalformed, Strikes, At, vars, fileVars,
         poolVars, mainVars, taskVars, histVars
  <1>5. Unopened'
    BY DEF TypeOK, PoolTypeOK, TaskTypeOK, TaskHas, PCs, Cache, LockOwned,
         CachedIsOpen, OpenIsCached, Unopened, Emptied, ReadyHasHome,
         ServedIsReady, ReloadMalformed, Strikes, At, vars, fileVars,
         poolVars, mainVars, taskVars, histVars
  <1>6. Emptied'
    BY DEF TypeOK, PoolTypeOK, TaskTypeOK, TaskHas, PCs, Cache, LockOwned,
         CachedIsOpen, OpenIsCached, Unopened, Emptied, ReadyHasHome,
         ServedIsReady, ReloadMalformed, Strikes, At, vars, fileVars,
         poolVars, mainVars, taskVars, histVars
  <1>7. ReadyHasHome'
    BY DEF TypeOK, PoolTypeOK, TaskTypeOK, TaskHas, PCs, Cache, LockOwned,
         CachedIsOpen, OpenIsCached, Unopened, Emptied, ReadyHasHome,
         ServedIsReady, ReloadMalformed, Strikes, At, vars, fileVars,
         poolVars, mainVars, taskVars, histVars
  <1>8. ServedIsReady'
    BY DEF TypeOK, PoolTypeOK, TaskTypeOK, TaskHas, PCs, Cache, LockOwned,
         CachedIsOpen, OpenIsCached, Unopened, Emptied, ReadyHasHome,
         ServedIsReady, ReloadMalformed, Strikes, At, vars, fileVars,
         poolVars, mainVars, taskVars, histVars
  <1> QED BY <1>1, <1>2, <1>3, <1>4, <1>5, <1>6, <1>7, <1>8 DEF Cache

LEMMA ReloadClosedInv ==
    ASSUME Inv, NEW r \in Reloads, ReloadClosed(r)
    PROVE  Inv'
  <1> USE TasksAssumption, DisjointAssumption DEF Tasks, Holding, Inv
  <1>1. TypeOK'
    <2>1. FileTypeOK'
      BY DEF TypeOK, FileTypeOK, ReloadClosed, Leave, At, vars, fileVars,
           poolVars, mainVars, taskVars, histVars
    <2>2. PoolTypeOK'
      BY DEF TypeOK, FileTypeOK, PoolTypeOK, TaskHas, TaskTypeOK,
           ReloadClosed, Leave, At, vars, fileVars, poolVars, mainVars,
           taskVars, histVars
    <2>3. TaskTypeOK'
      BY DEF TypeOK, PoolTypeOK, TaskTypeOK, TaskHas, PCs, Outcomes,
           ReloadClosed, Leave, At, vars, fileVars, poolVars, mainVars,
           taskVars, histVars
    <2>4. \A u \in Tasks : TaskHas(u)'
      BY DEF TypeOK, PoolTypeOK, TaskTypeOK, TaskHas, Cache, LockOwned, PCs,
           ReloadClosed, Leave, At, vars, fileVars, poolVars, mainVars,
           taskVars, histVars
    <2> QED BY <2>1, <2>2, <2>3, <2>4 DEF TypeOK
  <1>2. LockOwned'
    BY DEF TypeOK, PoolTypeOK, TaskTypeOK, TaskHas, PCs, Cache, LockOwned,
         CachedIsOpen, OpenIsCached, Unopened, Emptied, ReadyHasHome,
         ServedIsReady, ReloadClosed, Leave, At, vars, fileVars, poolVars,
         mainVars, taskVars, histVars
  <1>3. CachedIsOpen'
    BY DEF TypeOK, PoolTypeOK, TaskTypeOK, TaskHas, PCs, Cache, LockOwned,
         CachedIsOpen, OpenIsCached, Unopened, Emptied, ReadyHasHome,
         ServedIsReady, ReloadClosed, Leave, At, vars, fileVars, poolVars,
         mainVars, taskVars, histVars
  <1>4. OpenIsCached'
    BY DEF TypeOK, PoolTypeOK, TaskTypeOK, TaskHas, PCs, Cache, LockOwned,
         CachedIsOpen, OpenIsCached, Unopened, Emptied, ReadyHasHome,
         ServedIsReady, ReloadClosed, Leave, At, vars, fileVars, poolVars,
         mainVars, taskVars, histVars
  <1>5. Unopened'
    BY DEF TypeOK, PoolTypeOK, TaskTypeOK, TaskHas, PCs, Cache, LockOwned,
         CachedIsOpen, OpenIsCached, Unopened, Emptied, ReadyHasHome,
         ServedIsReady, ReloadClosed, Leave, At, vars, fileVars, poolVars,
         mainVars, taskVars, histVars
  <1>6. Emptied'
    BY DEF TypeOK, PoolTypeOK, TaskTypeOK, TaskHas, PCs, Cache, LockOwned,
         CachedIsOpen, OpenIsCached, Unopened, Emptied, ReadyHasHome,
         ServedIsReady, ReloadClosed, Leave, At, vars, fileVars, poolVars,
         mainVars, taskVars, histVars
  <1>7. ReadyHasHome'
    BY DEF TypeOK, PoolTypeOK, TaskTypeOK, TaskHas, PCs, Cache, LockOwned,
         CachedIsOpen, OpenIsCached, Unopened, Emptied, ReadyHasHome,
         ServedIsReady, ReloadClosed, Leave, At, vars, fileVars, poolVars,
         mainVars, taskVars, histVars
  <1>8. ServedIsReady'
    BY DEF TypeOK, PoolTypeOK, TaskTypeOK, TaskHas, PCs, Cache, LockOwned,
         CachedIsOpen, OpenIsCached, Unopened, Emptied, ReadyHasHome,
         ServedIsReady, ReloadClosed, Leave, At, vars, fileVars, poolVars,
         mainVars, taskVars, histVars
  <1> QED BY <1>1, <1>2, <1>3, <1>4, <1>5, <1>6, <1>7, <1>8 DEF Cache

LEMMA CancelInv ==
    ASSUME Inv, NEW t \in Tasks, Cancel(t)
    PROVE  Inv'
  <1> USE TasksAssumption, DisjointAssumption DEF Tasks, Holding, Inv
  <1>a. atStart' \in [Tasks -> History]
    <2> DEFINE x == atStart[t].calm /\ t \in Gets
    <2>1. x \in BOOLEAN /\ atStart[t] \in History
      BY DEF TypeOK, TaskTypeOK
    <2>2. [atStart[t] EXCEPT !.calm = x] \in History
      BY <2>1 DEF History
    <2>3. atStart' = [atStart EXCEPT ![t] = [atStart[t] EXCEPT !.calm = x]]
      BY DEF Cancel, TypeOK, TaskTypeOK
    <2> QED BY <2>2, <2>3 DEF TypeOK, TaskTypeOK
  <1>1. TypeOK'
    <2>1. FileTypeOK'
      BY DEF TypeOK, FileTypeOK, Cancel, Strikes, Leave, At, vars, fileVars,
           poolVars, mainVars, taskVars, histVars
    <2>2. PoolTypeOK'
      <3>1. UNCHANGED <<cached, ready, conn, last, runs>>
        BY DEF Cancel, mainVars
      <3>2. lock' \in [Aliases -> Tasks \cup {None}]
        <4>1. lock \in [Aliases -> Tasks \cup {None}]
          BY DEF TypeOK, PoolTypeOK
        <4>2. lock' = lock \/ lock' = [lock EXCEPT ![alias[t]] = None]
          BY DEF Cancel, Leave
        <4> QED BY <4>1, <4>2
      <3> QED BY <3>1, <3>2 DEF TypeOK, PoolTypeOK
    <2>3. TaskTypeOK'
      BY <1>a DEF TypeOK, PoolTypeOK, TaskTypeOK, TaskHas, PCs, Outcomes,
           Cancel, Strikes, Leave, At, vars, fileVars, poolVars, mainVars,
           taskVars, histVars
    <2>4. \A u \in Tasks : TaskHas(u)'
      BY DEF TypeOK, PoolTypeOK, TaskTypeOK, TaskHas, Cache, LockOwned, PCs,
           Cancel, Strikes, Leave, At, vars, fileVars, poolVars, mainVars,
           taskVars, histVars
    <2> QED BY <2>1, <2>2, <2>3, <2>4 DEF TypeOK
  <1>2. LockOwned'
    BY DEF TypeOK, PoolTypeOK, TaskTypeOK, TaskHas, PCs, Cache, LockOwned,
         CachedIsOpen, OpenIsCached, Unopened, Emptied, ReadyHasHome,
         ServedIsReady, Cancel, Strikes, Leave, At, vars, fileVars, poolVars,
         mainVars, taskVars, histVars
  <1>3. CachedIsOpen'
    BY DEF TypeOK, PoolTypeOK, TaskTypeOK, TaskHas, PCs, Cache, LockOwned,
         CachedIsOpen, OpenIsCached, Unopened, Emptied, ReadyHasHome,
         ServedIsReady, Cancel, Strikes, Leave, At, vars, fileVars, poolVars,
         mainVars, taskVars, histVars
  <1>4. OpenIsCached'
    BY DEF TypeOK, PoolTypeOK, TaskTypeOK, TaskHas, PCs, Cache, LockOwned,
         CachedIsOpen, OpenIsCached, Unopened, Emptied, ReadyHasHome,
         ServedIsReady, Cancel, Strikes, Leave, At, vars, fileVars, poolVars,
         mainVars, taskVars, histVars
  <1>5. Unopened'
    BY DEF TypeOK, PoolTypeOK, TaskTypeOK, TaskHas, PCs, Cache, LockOwned,
         CachedIsOpen, OpenIsCached, Unopened, Emptied, ReadyHasHome,
         ServedIsReady, Cancel, Strikes, Leave, At, vars, fileVars, poolVars,
         mainVars, taskVars, histVars
  <1>6. Emptied'
    BY DEF TypeOK, PoolTypeOK, TaskTypeOK, TaskHas, PCs, Cache, LockOwned,
         CachedIsOpen, OpenIsCached, Unopened, Emptied, ReadyHasHome,
         ServedIsReady, Cancel, Strikes, Leave, At, vars, fileVars, poolVars,
         mainVars, taskVars, histVars
  <1>7. ReadyHasHome'
    BY DEF TypeOK, PoolTypeOK, TaskTypeOK, TaskHas, PCs, Cache, LockOwned,
         CachedIsOpen, OpenIsCached, Unopened, Emptied, ReadyHasHome,
         ServedIsReady, Cancel, Strikes, Leave, At, vars, fileVars, poolVars,
         mainVars, taskVars, histVars
  <1>8. ServedIsReady'
    BY DEF TypeOK, PoolTypeOK, TaskTypeOK, TaskHas, PCs, Cache, LockOwned,
         CachedIsOpen, OpenIsCached, Unopened, Emptied, ReadyHasHome,
         ServedIsReady, Cancel, Strikes, Leave, At, vars, fileVars, poolVars,
         mainVars, taskVars, histVars
  <1> QED BY <1>1, <1>2, <1>3, <1>4, <1>5, <1>6, <1>7, <1>8 DEF Cache

LEMMA EditInv ==
    ASSUME Inv, NEW a \in Aliases, Edit(a)
    PROVE  Inv'
  <1> USE TasksAssumption, DisjointAssumption DEF Tasks, Holding, Inv
  <1>1. TypeOK'
    <2>1. FileTypeOK'
      BY DEF TypeOK, FileTypeOK, Edit, Entry, vars, fileVars, poolVars,
           mainVars, taskVars, histVars
    <2>2. PoolTypeOK'
      BY DEF TypeOK, FileTypeOK, PoolTypeOK, TaskHas, TaskTypeOK, Edit, Entry,
           vars, fileVars, poolVars, mainVars, taskVars, histVars
    <2>3. TaskTypeOK'
      BY DEF TypeOK, PoolTypeOK, TaskTypeOK, TaskHas, PCs, Outcomes, Edit,
           Entry, vars, fileVars, poolVars, mainVars, taskVars, histVars
    <2>4. \A u \in Tasks : TaskHas(u)'
      BY DEF TypeOK, PoolTypeOK, TaskTypeOK, TaskHas, Cache, LockOwned, PCs,
           Edit, Entry, vars, fileVars, poolVars, mainVars, taskVars, histVars
    <2> QED BY <2>1, <2>2, <2>3, <2>4 DEF TypeOK
  <1>2. LockOwned'
    BY DEF TypeOK, PoolTypeOK, TaskTypeOK, TaskHas, PCs, Cache, LockOwned,
         CachedIsOpen, OpenIsCached, Unopened, Emptied, ReadyHasHome,
         ServedIsReady, Edit, Entry, vars, fileVars, poolVars, mainVars,
         taskVars, histVars
  <1>3. CachedIsOpen'
    BY DEF TypeOK, PoolTypeOK, TaskTypeOK, TaskHas, PCs, Cache, LockOwned,
         CachedIsOpen, OpenIsCached, Unopened, Emptied, ReadyHasHome,
         ServedIsReady, Edit, Entry, vars, fileVars, poolVars, mainVars,
         taskVars, histVars
  <1>4. OpenIsCached'
    BY DEF TypeOK, PoolTypeOK, TaskTypeOK, TaskHas, PCs, Cache, LockOwned,
         CachedIsOpen, OpenIsCached, Unopened, Emptied, ReadyHasHome,
         ServedIsReady, Edit, Entry, vars, fileVars, poolVars, mainVars,
         taskVars, histVars
  <1>5. Unopened'
    BY DEF TypeOK, PoolTypeOK, TaskTypeOK, TaskHas, PCs, Cache, LockOwned,
         CachedIsOpen, OpenIsCached, Unopened, Emptied, ReadyHasHome,
         ServedIsReady, Edit, Entry, vars, fileVars, poolVars, mainVars,
         taskVars, histVars
  <1>6. Emptied'
    BY DEF TypeOK, PoolTypeOK, TaskTypeOK, TaskHas, PCs, Cache, LockOwned,
         CachedIsOpen, OpenIsCached, Unopened, Emptied, ReadyHasHome,
         ServedIsReady, Edit, Entry, vars, fileVars, poolVars, mainVars,
         taskVars, histVars
  <1>7. ReadyHasHome'
    BY DEF TypeOK, PoolTypeOK, TaskTypeOK, TaskHas, PCs, Cache, LockOwned,
         CachedIsOpen, OpenIsCached, Unopened, Emptied, ReadyHasHome,
         ServedIsReady, Edit, Entry, vars, fileVars, poolVars, mainVars,
         taskVars, histVars
  <1>8. ServedIsReady'
    BY DEF TypeOK, PoolTypeOK, TaskTypeOK, TaskHas, PCs, Cache, LockOwned,
         CachedIsOpen, OpenIsCached, Unopened, Emptied, ReadyHasHome,
         ServedIsReady, Edit, Entry, vars, fileVars, poolVars, mainVars,
         taskVars, histVars
  <1> QED BY <1>1, <1>2, <1>3, <1>4, <1>5, <1>6, <1>7, <1>8 DEF Cache

LEMMA BreakInv ==
    ASSUME Inv, NEW k \in Gets, Break(k)
    PROVE  Inv'
  <1> USE TasksAssumption, DisjointAssumption DEF Tasks, Holding, Inv
  <1>z. conn' \in [Gets -> Connection]
    <2>1. conn \in [Gets -> Connection] /\ k \in Gets
      BY DEF TypeOK, PoolTypeOK, TaskHas, Break
    <2>2. [conn[k] EXCEPT !.state = "broken"] \in Connection
      BY <2>1, FlagsTyped
    <2>3. conn' = [conn EXCEPT ![k] = [conn[k] EXCEPT !.state = "broken"]]
      BY <2>1 DEF Break
    <2> QED BY <2>1, <2>2, <2>3
  <1>1. TypeOK'
    <2>1. FileTypeOK'
      BY DEF TypeOK, FileTypeOK, Break, Strikes, vars, fileVars, poolVars,
           mainVars, taskVars, histVars
    <2>2. PoolTypeOK'
      BY <1>z DEF TypeOK, FileTypeOK, PoolTypeOK, TaskHas, TaskTypeOK, Break,
           Strikes, vars, fileVars, poolVars, mainVars, taskVars, histVars
    <2>3. TaskTypeOK'
      BY DEF TypeOK, PoolTypeOK, TaskTypeOK, TaskHas, PCs, Outcomes, Break,
           Strikes, vars, fileVars, poolVars, mainVars, taskVars, histVars
    <2>4. \A u \in Tasks : TaskHas(u)'
      BY DEF TypeOK, PoolTypeOK, TaskTypeOK, TaskHas, Cache, LockOwned, PCs,
           Break, Strikes, vars, fileVars, poolVars, mainVars, taskVars,
           histVars
    <2> QED BY <2>1, <2>2, <2>3, <2>4 DEF TypeOK
  <1>2. LockOwned'
    BY DEF TypeOK, PoolTypeOK, TaskTypeOK, TaskHas, PCs, Cache, LockOwned,
         CachedIsOpen, OpenIsCached, Unopened, Emptied, ReadyHasHome,
         ServedIsReady, Break, Strikes, vars, fileVars, poolVars, mainVars,
         taskVars, histVars
  <1>3. CachedIsOpen'
    BY DEF TypeOK, PoolTypeOK, TaskTypeOK, TaskHas, PCs, Cache, LockOwned,
         CachedIsOpen, OpenIsCached, Unopened, Emptied, ReadyHasHome,
         ServedIsReady, Break, Strikes, vars, fileVars, poolVars, mainVars,
         taskVars, histVars
  <1>4. OpenIsCached'
    BY DEF TypeOK, PoolTypeOK, TaskTypeOK, TaskHas, PCs, Cache, LockOwned,
         CachedIsOpen, OpenIsCached, Unopened, Emptied, ReadyHasHome,
         ServedIsReady, Break, Strikes, vars, fileVars, poolVars, mainVars,
         taskVars, histVars
  <1>5. Unopened'
    BY DEF TypeOK, PoolTypeOK, TaskTypeOK, TaskHas, PCs, Cache, LockOwned,
         CachedIsOpen, OpenIsCached, Unopened, Emptied, ReadyHasHome,
         ServedIsReady, Break, Strikes, vars, fileVars, poolVars, mainVars,
         taskVars, histVars
  <1>6. Emptied'
    BY DEF TypeOK, PoolTypeOK, TaskTypeOK, TaskHas, PCs, Cache, LockOwned,
         CachedIsOpen, OpenIsCached, Unopened, Emptied, ReadyHasHome,
         ServedIsReady, Break, Strikes, vars, fileVars, poolVars, mainVars,
         taskVars, histVars
  <1>7. ReadyHasHome'
    BY DEF TypeOK, PoolTypeOK, TaskTypeOK, TaskHas, PCs, Cache, LockOwned,
         CachedIsOpen, OpenIsCached, Unopened, Emptied, ReadyHasHome,
         ServedIsReady, Break, Strikes, vars, fileVars, poolVars, mainVars,
         taskVars, histVars
  <1>8. ServedIsReady'
    BY DEF TypeOK, PoolTypeOK, TaskTypeOK, TaskHas, PCs, Cache, LockOwned,
         CachedIsOpen, OpenIsCached, Unopened, Emptied, ReadyHasHome,
         ServedIsReady, Break, Strikes, vars, fileVars, poolVars, mainVars,
         taskVars, histVars
  <1> QED BY <1>1, <1>2, <1>3, <1>4, <1>5, <1>6, <1>7, <1>8 DEF Cache

LEMMA TickInv ==
    ASSUME Inv, Tick
    PROVE  Inv'
  <1> USE TasksAssumption, DisjointAssumption DEF Tasks, Holding, Inv
  <1>1. TypeOK'
    <2>1. FileTypeOK'
      BY DEF TypeOK, FileTypeOK, Tick, vars, fileVars, poolVars, mainVars,
           taskVars, histVars
    <2>2. PoolTypeOK'
      BY DEF TypeOK, FileTypeOK, PoolTypeOK, TaskHas, TaskTypeOK, Tick, vars,
           fileVars, poolVars, mainVars, taskVars, histVars
    <2>3. TaskTypeOK'
      BY DEF TypeOK, PoolTypeOK, TaskTypeOK, TaskHas, PCs, Outcomes, Tick,
           vars, fileVars, poolVars, mainVars, taskVars, histVars
    <2>4. \A u \in Tasks : TaskHas(u)'
      BY DEF TypeOK, PoolTypeOK, TaskTypeOK, TaskHas, Cache, LockOwned, PCs,
           Tick, vars, fileVars, poolVars, mainVars, taskVars, histVars
    <2> QED BY <2>1, <2>2, <2>3, <2>4 DEF TypeOK
  <1>2. LockOwned'
    BY DEF TypeOK, PoolTypeOK, TaskTypeOK, TaskHas, PCs, Cache, LockOwned,
         CachedIsOpen, OpenIsCached, Unopened, Emptied, ReadyHasHome,
         ServedIsReady, Tick, vars, fileVars, poolVars, mainVars, taskVars,
         histVars
  <1>3. CachedIsOpen'
    BY DEF TypeOK, PoolTypeOK, TaskTypeOK, TaskHas, PCs, Cache, LockOwned,
         CachedIsOpen, OpenIsCached, Unopened, Emptied, ReadyHasHome,
         ServedIsReady, Tick, vars, fileVars, poolVars, mainVars, taskVars,
         histVars
  <1>4. OpenIsCached'
    BY DEF TypeOK, PoolTypeOK, TaskTypeOK, TaskHas, PCs, Cache, LockOwned,
         CachedIsOpen, OpenIsCached, Unopened, Emptied, ReadyHasHome,
         ServedIsReady, Tick, vars, fileVars, poolVars, mainVars, taskVars,
         histVars
  <1>5. Unopened'
    BY DEF TypeOK, PoolTypeOK, TaskTypeOK, TaskHas, PCs, Cache, LockOwned,
         CachedIsOpen, OpenIsCached, Unopened, Emptied, ReadyHasHome,
         ServedIsReady, Tick, vars, fileVars, poolVars, mainVars, taskVars,
         histVars
  <1>6. Emptied'
    BY DEF TypeOK, PoolTypeOK, TaskTypeOK, TaskHas, PCs, Cache, LockOwned,
         CachedIsOpen, OpenIsCached, Unopened, Emptied, ReadyHasHome,
         ServedIsReady, Tick, vars, fileVars, poolVars, mainVars, taskVars,
         histVars
  <1>7. ReadyHasHome'
    BY DEF TypeOK, PoolTypeOK, TaskTypeOK, TaskHas, PCs, Cache, LockOwned,
         CachedIsOpen, OpenIsCached, Unopened, Emptied, ReadyHasHome,
         ServedIsReady, Tick, vars, fileVars, poolVars, mainVars, taskVars,
         histVars
  <1>8. ServedIsReady'
    BY DEF TypeOK, PoolTypeOK, TaskTypeOK, TaskHas, PCs, Cache, LockOwned,
         CachedIsOpen, OpenIsCached, Unopened, Emptied, ReadyHasHome,
         ServedIsReady, Tick, vars, fileVars, poolVars, mainVars, taskVars,
         histVars
  <1> QED BY <1>1, <1>2, <1>3, <1>4, <1>5, <1>6, <1>7, <1>8 DEF Cache

LEMMA CloseAllInv ==
    ASSUME Inv, CloseAll
    PROVE  Inv'
  <1> USE TasksAssumption, DisjointAssumption DEF Tasks, Holding, Inv
  <1>z. conn' \in [Gets -> Connection]
    <2>1. conn \in [Gets -> Connection]
      BY DEF TypeOK, PoolTypeOK
    <2>2. \A c \in Gets : [conn[c] EXCEPT !.state = "closed"] \in Connection
      BY <2>1, FlagsTyped
    <2> QED BY <2>1, <2>2 DEF CloseAll
  <1>1. TypeOK'
    <2>1. FileTypeOK'
      BY DEF TypeOK, FileTypeOK, CloseAll, vars, fileVars, poolVars, mainVars,
           taskVars, histVars
    <2>2. PoolTypeOK'
      BY <1>z DEF TypeOK, FileTypeOK, PoolTypeOK, TaskHas, TaskTypeOK,
           CloseAll, vars, fileVars, poolVars, mainVars, taskVars, histVars
    <2>3. TaskTypeOK'
      BY DEF TypeOK, PoolTypeOK, TaskTypeOK, TaskHas, PCs, Outcomes, CloseAll,
           vars, fileVars, poolVars, mainVars, taskVars, histVars
    <2>4. \A u \in Tasks : TaskHas(u)'
      BY DEF TypeOK, PoolTypeOK, TaskTypeOK, TaskHas, Cache, LockOwned, PCs,
           CloseAll, vars, fileVars, poolVars, mainVars, taskVars, histVars
    <2> QED BY <2>1, <2>2, <2>3, <2>4 DEF TypeOK
  <1>2. LockOwned'
    BY DEF TypeOK, PoolTypeOK, TaskTypeOK, TaskHas, PCs, Cache, LockOwned,
         CachedIsOpen, OpenIsCached, Unopened, Emptied, ReadyHasHome,
         ServedIsReady, CloseAll, vars, fileVars, poolVars, mainVars,
         taskVars, histVars
  <1>3. CachedIsOpen'
    BY DEF TypeOK, PoolTypeOK, TaskTypeOK, TaskHas, PCs, Cache, LockOwned,
         CachedIsOpen, OpenIsCached, Unopened, Emptied, ReadyHasHome,
         ServedIsReady, CloseAll, vars, fileVars, poolVars, mainVars,
         taskVars, histVars
  <1>4. OpenIsCached'
    BY DEF TypeOK, PoolTypeOK, TaskTypeOK, TaskHas, PCs, Cache, LockOwned,
         CachedIsOpen, OpenIsCached, Unopened, Emptied, ReadyHasHome,
         ServedIsReady, CloseAll, vars, fileVars, poolVars, mainVars,
         taskVars, histVars
  <1>5. Unopened'
    BY DEF TypeOK, PoolTypeOK, TaskTypeOK, TaskHas, PCs, Cache, LockOwned,
         CachedIsOpen, OpenIsCached, Unopened, Emptied, ReadyHasHome,
         ServedIsReady, CloseAll, vars, fileVars, poolVars, mainVars,
         taskVars, histVars
  <1>6. Emptied'
    BY DEF TypeOK, PoolTypeOK, TaskTypeOK, TaskHas, PCs, Cache, LockOwned,
         CachedIsOpen, OpenIsCached, Unopened, Emptied, ReadyHasHome,
         ServedIsReady, CloseAll, vars, fileVars, poolVars, mainVars,
         taskVars, histVars
  <1>7. ReadyHasHome'
    BY DEF TypeOK, PoolTypeOK, TaskTypeOK, TaskHas, PCs, Cache, LockOwned,
         CachedIsOpen, OpenIsCached, Unopened, Emptied, ReadyHasHome,
         ServedIsReady, CloseAll, vars, fileVars, poolVars, mainVars,
         taskVars, histVars
  <1>8. ServedIsReady'
    BY DEF TypeOK, PoolTypeOK, TaskTypeOK, TaskHas, PCs, Cache, LockOwned,
         CachedIsOpen, OpenIsCached, Unopened, Emptied, ReadyHasHome,
         ServedIsReady, CloseAll, vars, fileVars, poolVars, mainVars,
         taskVars, histVars
  <1> QED BY <1>1, <1>2, <1>3, <1>4, <1>5, <1>6, <1>7, <1>8 DEF Cache

-----------------------------------------------------------------------------
(* The theorems.                                                           *)

LEMMA InitInv == Init => Inv
  <1> SUFFICES ASSUME Init PROVE Inv
    OBVIOUS
  <1> USE TasksAssumption
  <1>1. TypeOK
    <2>1. disk \in [Aliases -> Entry]
      BY DEF Init, Entry
    <2>2. FileTypeOK
      BY <2>1 DEF Init, FileTypeOK
    <2>3. NoHistory \in History
      BY DEF NoHistory, History
    <2>4. NoConnection \in Connection
      BY DEF NoConnection, Connection
    <2>5. PoolTypeOK
      BY <2>4 DEF Init, PoolTypeOK
    <2>6. TaskTypeOK
      BY <2>3 DEF Init, TaskTypeOK, Tasks, PCs, Outcomes
    <2>7. \A t \in Tasks : TaskHas(t)
      BY DEF Init, TaskHas, Holding
    <2> QED BY <2>2, <2>5, <2>6, <2>7 DEF TypeOK
  <1>2. LockOwned /\ Emptied
    BY DEF Init, LockOwned, Emptied, Holding
  <1>3. CachedIsOpen /\ ReadyHasHome /\ ServedIsReady
    BY DEF Init, CachedIsOpen, ReadyHasHome, ServedIsReady
  <1>4. OpenIsCached /\ Unopened
    BY DEF Init, OpenIsCached, Unopened, NoConnection
  <1> QED BY <1>1, <1>2, <1>3, <1>4 DEF Inv, Cache

LEMMA GetInv ==
    ASSUME Inv, NEW c \in Gets,
           GetRejected(c) \/ GetWaits(c) \/ GetEnters(c)
    PROVE  Inv'
  BY GetRejectedInv, GetWaitsInv, GetEntersInv

LEMMA ResumeInv ==
    ASSUME Inv, NEW t \in Tasks, Resume(t)
    PROVE  Inv'
  <1>1. CASE t \in Gets /\ ( \/ GetLocked(t) \/ GetEvicted(t) \/ GetOpened(t)
                             \/ GetChecked(t) \/ GetOpenFails(t)
                             \/ GetCheckFails(t) \/ GetAborted(t)
                             \/ UseDone(t) \/ UseFails(t) )
    BY <1>1, GetLockedInv, GetEvictedInv, GetOpenedInv, GetCheckedInv,
       GetOpenFailsInv, GetCheckFailsInv, GetAbortedInv, UseDoneInv,
       UseFailsInv
  <1>2. CASE t \in Reloads
               /\ (ReloadNext(t) \/ ReloadLocked(t) \/ ReloadClosed(t))
    BY <1>2, ReloadNextInv, ReloadLockedInv, ReloadClosedInv
  <1> QED BY <1>1, <1>2 DEF Resume

LEMMA StutterInv == ASSUME Inv, UNCHANGED vars PROVE Inv'
  <1> USE DEF vars, fileVars, poolVars, mainVars, taskVars, histVars
  <1>1. TypeOK'
    <2>1. FileTypeOK' /\ PoolTypeOK' /\ TaskTypeOK'
      BY DEF Inv, TypeOK, FileTypeOK, PoolTypeOK, TaskTypeOK
    <2>2. \A t \in Tasks : TaskHas(t)'
      BY DEF Inv, TypeOK, TaskHas
    <2> QED BY <2>1, <2>2 DEF TypeOK
  <1>2. (LockOwned /\ CachedIsOpen /\ OpenIsCached /\ Unopened)'
    BY DEF Inv, Cache, LockOwned, CachedIsOpen, OpenIsCached, Unopened
  <1>3. (Emptied /\ ReadyHasHome /\ ServedIsReady)'
    BY DEF Inv, Cache, Emptied, ReadyHasHome, ServedIsReady
  <1> QED BY <1>1, <1>2, <1>3 DEF Inv, Cache

LEMMA InvNext == Inv /\ [Next]_vars => Inv'
  <1> SUFFICES ASSUME Inv, [Next]_vars PROVE Inv'
    OBVIOUS
  <1>1. ASSUME NEW c \in Gets, GetRejected(c) \/ GetWaits(c) \/ GetEnters(c)
        PROVE  Inv'
    BY <1>1, GetInv
  <1>2. ASSUME NEW r \in Reloads, ReloadStart(r) \/ ReloadMalformed(r)
        PROVE  Inv'
    BY <1>2, ReloadStartInv, ReloadMalformedInv
  <1>3. ASSUME NEW t \in Tasks, Resume(t) \/ Cancel(t)
        PROVE  Inv'
    BY <1>3, ResumeInv, CancelInv
  <1>4. ASSUME NEW a \in Aliases, Edit(a)
        PROVE  Inv'
    BY <1>4, EditInv
  <1>5. ASSUME NEW k \in Gets, Break(k)
        PROVE  Inv'
    BY <1>5, BreakInv
  <1>6. CASE Tick
    BY <1>6, TickInv
  <1>7. CASE CloseAll
    BY <1>7, CloseAllInv
  <1>8. CASE UNCHANGED vars
    BY <1>8, StutterInv
  <1> QED BY <1>1, <1>2, <1>3, <1>4, <1>5, <1>6, <1>7, <1>8 DEF Next

\* get starts maintenance of one alias at most, and only the clock moves else.
LEMMA MaintenanceSteps ==
    ASSUME Inv, [Next]_vars
    PROVE  \/ UNCHANGED mainVars /\ (now' = now \/ now' = now + 1)
           \/ now' = now /\ \E a \in Aliases : Schedule(a)
  <1> DEFINE Quiet == UNCHANGED mainVars /\ (now' = now \/ now' = now + 1)
             Starts == now' = now /\ \E a \in Aliases : Schedule(a)
  <1>0. ASSUME NEW c \in Gets, NEW a \in Aliases, Enter(c, a), now' = now
        PROVE  Quiet \/ Starts
    BY <1>0 DEF Enter, EnterEvict, EnterOpen, EnterCheck, EnterServe, Serve,
                Quiet, Starts, mainVars
  <1>1. ASSUME NEW c \in Gets, GetRejected(c) \/ GetWaits(c)
        PROVE  Quiet
    BY <1>1 DEF GetRejected, GetWaits, Begin, fileVars, mainVars
  <1>2. ASSUME NEW c \in Gets, GetEnters(c)
        PROVE  Quiet \/ Starts
    BY <1>2, <1>0 DEF GetEnters, Begin, fileVars
  <1>3. ASSUME NEW r \in Reloads, ReloadStart(r) \/ ReloadMalformed(r)
        PROVE  Quiet
    BY <1>3 DEF ReloadStart, ReloadMalformed, fileVars, mainVars
  <1>4. ASSUME NEW c \in Gets,
               GetLocked(c) \/ GetOpened(c) \/ GetChecked(c)
        PROVE  Quiet \/ Starts
    <2>1. alias[c] \in Aliases
      BY <1>4 DEF GetLocked, GetOpened, GetChecked, Inv, TypeOK, TaskHas,
                  Tasks, Holding
    <2>2. now' = now
      BY <1>4 DEF GetLocked, GetOpened, GetChecked, fileVars
    <2>3. CASE GetLocked(c)
      BY <2>1, <2>2, <2>3, <1>0 DEF GetLocked
    <2>4. CASE GetOpened(c) \/ GetChecked(c)
      BY <2>1, <2>2, <2>4 DEF GetOpened, GetChecked, Serve, mainVars
    <2> QED BY <1>4, <2>3, <2>4
  <1>5. ASSUME NEW c \in Gets,
               GetEvicted(c) \/ GetOpenFails(c) \/ GetCheckFails(c)
                 \/ GetAborted(c) \/ UseDone(c) \/ UseFails(c)
        PROVE  Quiet
    BY <1>5 DEF GetEvicted, GetOpenFails, GetCheckFails, GetAborted, UseDone,
                UseFails, fileVars, mainVars
  <1>6. ASSUME NEW r \in Reloads,
               ReloadNext(r) \/ ReloadLocked(r) \/ ReloadClosed(r)
        PROVE  Quiet
    BY <1>6 DEF ReloadNext, ReloadLocked, ReloadClosed, fileVars, mainVars
  <1>7. ASSUME NEW t \in Tasks, Cancel(t)
        PROVE  Quiet
    BY <1>7 DEF Cancel, mainVars
  <1>8. ASSUME NEW a \in Aliases, Edit(a)
        PROVE  Quiet
    BY <1>8 DEF Edit, mainVars
  <1>9. ASSUME NEW k \in Gets, Break(k)
        PROVE  Quiet
    BY <1>9 DEF Break, mainVars
  <1>10. Tick \/ CloseAll => Quiet
    BY DEF Tick, CloseAll, mainVars
  <1>11. UNCHANGED vars => Quiet
    BY DEF vars, fileVars, mainVars
  <1> HIDE DEF Quiet, Starts
  <1>12. ASSUME NEW t \in Tasks, Resume(t)
         PROVE  Quiet \/ Starts
    BY <1>12, <1>4, <1>5, <1>6 DEF Resume
  <1>13. Quiet \/ Starts
    BY <1>1, <1>2, <1>3, <1>12, <1>7, <1>8, <1>9, <1>10, <1>11 DEF Next
  <1> QED BY <1>13 DEF Quiet, Starts

LEMMA InitClock == Init => Clock
  BY DEF Init, Clock, LastIsLatest, MaintenanceThrottled

\* A start of maintenance comes an interval after the last one, which is the
\* latest of all before it.
LEMMA ClockNext == Inv /\ Clock /\ [Next]_vars => Clock'
  <1> SUFFICES ASSUME Inv, Clock, [Next]_vars PROVE Clock'
    OBVIOUS
  <1> USE NumbersAssumption
  <1>1. /\ now \in Nat /\ last \in [Aliases -> Nat]
        /\ runs \in [Aliases -> Seq(Nat)]
    BY DEF Inv, TypeOK, FileTypeOK, PoolTypeOK
  <1>2. CASE UNCHANGED mainVars /\ (now' = now \/ now' = now + 1)
    <2>1. LastIsLatest'
      BY <1>1, <1>2 DEF Clock, LastIsLatest, mainVars
    <2>2. MaintenanceThrottled'
      BY <1>2 DEF Clock, MaintenanceThrottled, mainVars
    <2> QED BY <2>1, <2>2 DEF Clock
  <1>3. ASSUME now' = now, NEW a \in Aliases, Schedule(a)
        PROVE  Clock'
    <2>1. CASE last[a] # 0 /\ now - last[a] < Interval
      BY <1>2, <1>3, <2>1 DEF Schedule
    <2>2. CASE ~(last[a] # 0 /\ now - last[a] < Interval)
      <3>1. /\ last' = [last EXCEPT ![a] = now]
            /\ runs' = [runs EXCEPT ![a] = Append(runs[a], now)]
        BY <1>3, <2>2 DEF Schedule
      <3>2. /\ Len(runs[a]) \in Nat
            /\ \A i \in 1 .. Len(runs[a]) : runs[a][i] \in Nat
            /\ Len(runs'[a]) = Len(runs[a]) + 1
            /\ runs'[a][Len(runs[a]) + 1] = now
            /\ \A i \in 1 .. Len(runs[a]) : runs'[a][i] = runs[a][i]
        BY <1>1, <3>1
      <3>3. \A i \in 1 .. Len(runs[a]) : runs[a][i] + Interval <= now
        BY <1>1, <2>2, <3>2 DEF Clock, LastIsLatest
      <3>4. \A b \in Aliases :
                b # a => runs'[b] = runs[b] /\ last'[b] = last[b]
        BY <1>1, <3>1
      <3>5. last'[a] = now
        BY <1>1, <3>1
      <3>6. LastIsLatest'
        <4>1. ASSUME NEW i \in 1 .. Len(runs'[a])
              PROVE  runs'[a][i] <= now
          <5>1. CASE i = Len(runs[a]) + 1
            BY <1>1, <3>2, <5>1
          <5>2. CASE i \in 1 .. Len(runs[a])
            <6>1. runs'[a][i] = runs[a][i] /\ runs[a][i] + Interval <= now
              BY <3>2, <3>3, <5>2
            <6>2. runs[a][i] \in Nat
              BY <3>2, <5>2
            <6> QED BY <1>1, <6>1, <6>2
          <5>3. i = Len(runs[a]) + 1 \/ i \in 1 .. Len(runs[a])
            <6>1. Len(runs'[a]) = Len(runs[a]) + 1 /\ Len(runs[a]) \in Nat
              BY <3>2
            <6> QED BY <6>1
          <5> QED BY <5>1, <5>2, <5>3
        <4>2. now > 0 /\ now' = now /\ now <= now
          BY <1>1, <1>3 DEF Clock, LastIsLatest
        <4>3. ASSUME NEW b \in Aliases, b # a
              PROVE  /\ last'[b] <= now
                     /\ last'[b] = 0 => Len(runs'[b]) = 0
                     /\ \A i \in 1 .. Len(runs'[b]) : runs'[b][i] <= last'[b]
          BY <3>4, <4>3 DEF Clock, LastIsLatest
        <4>4. now # 0
          BY <1>1, <4>2
        <4> QED BY <3>5, <4>1, <4>2, <4>3, <4>4 DEF LastIsLatest
      <3>7. MaintenanceThrottled'
        <4>1. ASSUME NEW i \in 1 .. Len(runs'[a]),
                     NEW j \in 1 .. Len(runs'[a]), i < j
              PROVE  runs'[a][j] >= runs'[a][i] + Interval
          <5>1. i \in 1 .. Len(runs[a])
            BY <3>2, <4>1
          <5>2. CASE j = Len(runs[a]) + 1
            <6>1. runs'[a][j] = now /\ runs'[a][i] = runs[a][i]
              BY <3>2, <5>1, <5>2
            <6>2. /\ runs[a][i] \in Nat /\ now \in Nat
                  /\ runs[a][i] + Interval <= now
              BY <1>1, <3>2, <3>3, <5>1
            <6> QED BY <6>1, <6>2
          <5>3. CASE j \in 1 .. Len(runs[a])
            BY <3>2, <4>1, <5>1, <5>3 DEF Clock, MaintenanceThrottled
          <5>4. j = Len(runs[a]) + 1 \/ j \in 1 .. Len(runs[a])
            <6>1. Len(runs'[a]) = Len(runs[a]) + 1 /\ Len(runs[a]) \in Nat
              BY <3>2
            <6> QED BY <6>1
          <5> QED BY <5>2, <5>3, <5>4
        <4> QED BY <3>4, <4>1 DEF Clock, MaintenanceThrottled
      <3> QED BY <3>6, <3>7 DEF Clock
    <2> QED BY <2>1, <2>2
  <1> QED BY <1>2, <1>3, MaintenanceSteps

\* Every reachable state of the pool is of its type: who is resumed finds the
\* alias, the connection and the lock that its code relies on.
THEOREM TypeCorrect == Spec => []TypeOK
  <1>1. Inv => TypeOK
    BY DEF Inv
  <1> QED BY <1>1, InitInv, InvNext, PTL DEF Spec

\* For every number of calls, reloads, aliases and faults, a transport that is
\* open is the one cached for its alias: none is lost, none is doubled
\* (ssh.py:164-171, 209-224, 230-237).
THEOREM NoTransportLost == Spec => []OpenIsCached
  <1>1. Inv => OpenIsCached
    BY DEF Inv, Cache
  <1> QED BY <1>1, InitInv, InvNext, PTL DEF Spec

\* However connections are evicted and reopened, no call is given one whose
\* bootstrap did not run on it (ssh.py:127-132, 218-226, 264-270).
THEOREM ServedReady == Spec => []ServedIsReady
  <1>1. Inv => ServedIsReady
    BY DEF Inv, Cache
  <1> QED BY <1>1, InitInv, InvNext, PTL DEF Spec

\* Two maintenance runs of an alias are an interval apart, whatever the
\* overlap of the calls that could start them (ssh.py:192-194).
THEOREM Throttled == Spec => []MaintenanceThrottled
  <1>1. Clock => MaintenanceThrottled
    BY DEF Clock
  <1>2. Inv /\ Clock /\ [Next]_vars => Inv' /\ Clock'
    BY InvNext, ClockNext
  <1>3. Init => Inv /\ Clock
    BY InitInv, InitClock
  <1> QED BY <1>1, <1>2, <1>3, PTL DEF Spec

-----------------------------------------------------------------------------
(* What a reload promises.                                                 *)

\* Some reload has alias a still to evict.
Pending(a) == \E r \in Reloads : a \in todo[r]

\* Call k connected with what the allowlist now says of alias a.
Current(k, a) == hosts[a].listed /\ conn[k].host = hosts[a].edition

\* Who has not begun has no past, who is not at work has nothing to do, and
\* who bootstraps does so because the alias is not ready.
Blank ==
    /\ \A c \in Gets : pc[c] = "new" => alias[c] = None
    /\ \A c \in Gets : pc[c] \notin {"using", "end"} => served[c] = None
    /\ \A c \in Gets : pc[c] = "ready" => alias[c] \notin ready
    /\ \A r \in Reloads :
        /\ pc[r] = "new" => atStart[r].calm
        /\ pc[r] \in {"new", "end"} => todo[r] = {}
        /\ pc[r] \in {"lock", "close"} => alias[r] \in todo[r]

\* Orderly reloads are at work one at a time.
OneReload ==
    Orderly => \A r, q \in Reloads :
        pc[r] \notin {"new", "end"} /\ pc[q] \notin {"new", "end"} => r = q

\* The allowlist is a past or the present hosts.toml, and no older than what
\* reloads read.
Editions ==
    \A a \in Aliases :
        /\ hosts[a].edition <= disk[a].edition
        /\ hosts[a].edition = disk[a].edition => hosts[a] = disk[a]
        /\ applied[a] <= hosts[a].edition
        /\ \A r \in Reloads : atStart[r].goal[a] <= hosts[a].edition

\* A connection is what the allowlist says, or waits to be evicted; in no case
\* is it older than what finished reloads read.
Settled ==
    Orderly =>
        \A a \in Aliases, k \in Gets :
            cached[a] = k \/ (pc[k] = "open" /\ alias[k] = a) =>
                /\ Current(k, a) \/ Pending(a)
                /\ conn[k].host >= applied[a]

\* What a call noted as it began lies in the past.
Noted ==
    \A c \in Gets :
        alias[c] # None =>
            /\ atStart[c].floor <= applied[alias[c]]
            /\ atStart[c].base <= hosts[alias[c]].edition
            /\ atStart[c].calm /\ Pending(alias[c])
                => hosts[alias[c]].edition # atStart[c].base

\* A call was given a connection to its alias, ready while it is cached.
ServedHome ==
    \A c \in Gets :
        served[c] # None =>
            /\ alias[c] \in Aliases /\ alias[served[c]] = alias[c]
            /\ conn[served[c]].state # "none"
            /\ cached[alias[c]] = served[c] => alias[c] \in ready

Order == Blank /\ OneReload /\ Editions /\ Settled /\ Noted /\ ServedHome
             /\ ReloadTakesEffect /\ UnchangedUndisturbed

\* The shape of the state, as far as the steps below need it.
TypeFacts ==
    /\ \A a \in Aliases :
        /\ disk[a].edition \in Nat /\ hosts[a].edition \in Nat
        /\ disk[a] \in Entry /\ hosts[a] \in Entry
        /\ applied[a] \in Nat /\ cached[a] \in Gets \cup {None}
    /\ \A c \in Gets :
        /\ conn[c].host \in Nat /\ conn[c] \in Connection
        /\ served[c] \in Gets \cup {None}
        /\ atStart[c].floor \in Nat /\ atStart[c].base \in Nat
    /\ \A r \in Reloads : \A a \in Aliases : atStart[r].goal[a] \in Nat
    /\ \A t \in Tasks : alias[t] \in Aliases \cup {None}
    /\ \A r \in Reloads : todo[r] \subseteq Aliases
Functions ==
    /\ pc = [t \in Tasks |-> pc[t]] /\ alias = [t \in Tasks |-> alias[t]]
    /\ atStart = [t \in Tasks |-> atStart[t]]
    /\ conn = [c \in Gets |-> conn[c]] /\ served = [c \in Gets |-> served[c]]
    /\ todo = [r \in Reloads |-> todo[r]]
    /\ cached = [a \in Aliases |-> cached[a]]
    /\ disk = [a \in Aliases |-> disk[a]]

LEMMA TypesGive == ASSUME Inv PROVE TypeFacts
  <1> USE DEF Inv, TypeOK, TypeFacts, Tasks
  <1>1. \A a \in Aliases :
           /\ disk[a].edition \in Nat /\ hosts[a].edition \in Nat
           /\ disk[a] \in Entry /\ hosts[a] \in Entry
           /\ applied[a] \in Nat /\ cached[a] \in Gets \cup {None}
    BY DEF FileTypeOK, PoolTypeOK, TaskTypeOK, Entry
  <1>2. \A c \in Gets :
           /\ conn[c].host \in Nat /\ conn[c] \in Connection
           /\ served[c] \in Gets \cup {None}
           /\ atStart[c].floor \in Nat /\ atStart[c].base \in Nat
    BY DEF PoolTypeOK, TaskTypeOK, Connection, History
  <1>3. \A r \in Reloads : \A a \in Aliases : atStart[r].goal[a] \in Nat
    BY DEF TaskTypeOK, History
  <1>4. /\ \A t \in Tasks : alias[t] \in Aliases \cup {None}
        /\ \A r \in Reloads : todo[r] \subseteq Aliases
    BY DEF TaskTypeOK
  <1> QED BY <1>1, <1>2, <1>3, <1>4

LEMMA FunctionsGive == ASSUME Inv PROVE Functions
  BY DEF Inv, TypeOK, FileTypeOK, PoolTypeOK, TaskTypeOK, Functions, Tasks

\* A call that begins notes what is so for its alias.
BeginsWith(c, a) ==
    /\ pc[c] = "new"
    /\ alias' = [alias EXCEPT ![c] = a]
    /\ \A t \in Tasks \ {c} : atStart'[t] = atStart[t]
    /\ atStart'[c].floor = applied[a]
    /\ atStart'[c].base = hosts[a].edition
    /\ atStart'[c].calm => ~Pending(a)
    /\ UNCHANGED <<disk, hosts, todo, applied>>

LEMMA BeginEffect ==
    ASSUME Inv, NEW c \in Gets, NEW a \in Aliases, Begin(c, a)
    PROVE  BeginsWith(c, a)
  <1> DEFINE x == \A r \in Reloads : a \notin todo[r]
             h == [NoHistory EXCEPT !.floor = applied[a],
                                    !.base = hosts[a].edition, !.calm = x]
  <1>1. atStart' = [atStart EXCEPT ![c] = h]
    BY DEF Begin
  <1>2. h.floor = applied[a] /\ h.base = hosts[a].edition /\ h.calm = x
    BY DEF NoHistory
  <1>3. x <=> ~Pending(a)
    BY DEF Pending
  <1>4. atStart \in [Tasks -> History] /\ c \in Tasks
    BY DEF Inv, TypeOK, TaskTypeOK, Tasks
  <1> HIDE DEF x, h
  <1> QED BY <1>1, <1>2, <1>3, <1>4 DEF BeginsWith, Begin, fileVars

LEMMA GetOpenFailsOrder ==
    ASSUME Inv, Order, NEW c \in Gets, GetOpenFails(c)
    PROVE  Order'
  <1> USE TasksAssumption, DisjointAssumption DEF Tasks, Holding, Order
  <1>0. TypeFacts /\ Functions
    BY TypesGive, FunctionsGive
  <1>1. Blank'
    BY <1>0 DEF TypeFacts, Functions, Blank, GetOpenFails, Strikes, Leave, At,
         Ends, vars, fileVars, poolVars, mainVars, taskVars, histVars
  <1>2. OneReload'
    BY <1>0 DEF TypeFacts, Functions, OneReload, Orderly, Blank, GetOpenFails,
         Strikes, Leave, At, Ends, vars, fileVars, poolVars, mainVars,
         taskVars, histVars
  <1>3. Editions'
    BY <1>0 DEF TypeFacts, Functions, Editions, GetOpenFails, Strikes, Leave,
         At, Ends, vars, fileVars, poolVars, mainVars, taskVars, histVars
  <1>4. Settled'
    BY <1>0 DEF TypeFacts, Functions, Settled, Orderly, Blank, Current,
         Pending, GetOpenFails, Strikes, Leave, At, Ends, vars, fileVars,
         poolVars, mainVars, taskVars, histVars
  <1>5. Noted'
    BY <1>0 DEF TypeFacts, Functions, Noted, Blank, Pending, GetOpenFails,
         Strikes, Leave, At, Ends, vars, fileVars, poolVars, mainVars,
         taskVars, histVars
  <1>6. ServedHome'
    BY <1>0 DEF TypeFacts, Functions, ServedHome, Blank, GetOpenFails,
         Strikes, Leave, At, Ends, vars, fileVars, poolVars, mainVars,
         taskVars, histVars
  <1>7. ReloadTakesEffect'
    BY <1>0 DEF TypeFacts, Functions, ReloadTakesEffect, Orderly, Blank,
         ServedHome, GetOpenFails, Strikes, Leave, At, Ends, vars, fileVars,
         poolVars, mainVars, taskVars, histVars
  <1>8. UnchangedUndisturbed'
    BY <1>0 DEF TypeFacts, Functions, UnchangedUndisturbed, Blank, ServedHome,
         Noted, GetOpenFails, Strikes, Leave, At, Ends, vars, fileVars,
         poolVars, mainVars, taskVars, histVars
  <1> QED BY <1>1, <1>2, <1>3, <1>4, <1>5, <1>6, <1>7, <1>8

LEMMA GetAbortedOrder ==
    ASSUME Inv, Order, NEW c \in Gets, GetAborted(c)
    PROVE  Order'
  <1> USE TasksAssumption, DisjointAssumption DEF Tasks, Holding, Order
  <1>0. TypeFacts /\ Functions
    BY TypesGive, FunctionsGive
  <1>a. /\ \A k \in Gets : pc'[k] = "using" => pc[k] = "using"
        /\ UNCHANGED <<served, conn, alias, hosts, atStart>>
    BY <1>0 DEF TypeFacts, Functions, GetAborted, Ends, At, histVars
  <1>1. Blank'
    BY <1>0 DEF TypeFacts, Functions, Blank, GetAborted, Leave, At, Ends,
         vars, fileVars, poolVars, mainVars, taskVars, histVars
  <1>2. OneReload'
    BY <1>0 DEF TypeFacts, Functions, OneReload, Orderly, Blank, GetAborted,
         Leave, At, Ends, vars, fileVars, poolVars, mainVars, taskVars,
         histVars
  <1>3. Editions'
    BY <1>0 DEF TypeFacts, Functions, Editions, GetAborted, Leave, At, Ends,
         vars, fileVars, poolVars, mainVars, taskVars, histVars
  <1>4. Settled'
    BY <1>0 DEF TypeFacts, Functions, Settled, Orderly, Blank, Current,
         Pending, GetAborted, Leave, At, Ends, vars, fileVars, poolVars,
         mainVars, taskVars, histVars
  <1>5. Noted'
    BY <1>0 DEF TypeFacts, Functions, Noted, Blank, Pending, GetAborted,
         Leave, At, Ends, vars, fileVars, poolVars, mainVars, taskVars,
         histVars
  <1>6. ServedHome'
    BY <1>0 DEF TypeFacts, Functions, ServedHome, Blank, GetAborted, Leave,
         At, Ends, vars, fileVars, poolVars, mainVars, taskVars, histVars
  <1>7. ReloadTakesEffect'
    BY <1>0 DEF TypeFacts, Functions, ReloadTakesEffect, Orderly, Blank,
         ServedHome, GetAborted, Leave, At, Ends, vars, fileVars, poolVars,
         mainVars, taskVars, histVars
  <1>8. UnchangedUndisturbed'
    BY <1>0, <1>a DEF TypeFacts, UnchangedUndisturbed
  <1> QED BY <1>1, <1>2, <1>3, <1>4, <1>5, <1>6, <1>7, <1>8

LEMMA UseDoneOrder ==
    ASSUME Inv, Order, NEW c \in Gets, UseDone(c)
    PROVE  Order'
  <1> USE TasksAssumption, DisjointAssumption DEF Tasks, Holding, Order
  <1>0. TypeFacts /\ Functions
    BY TypesGive, FunctionsGive
  <1>1. Blank'
    BY <1>0 DEF TypeFacts, Functions, Blank, UseDone, At, Ends, vars,
         fileVars, poolVars, mainVars, taskVars, histVars
  <1>2. OneReload'
    BY <1>0 DEF TypeFacts, Functions, OneReload, Orderly, Blank, UseDone, At,
         Ends, vars, fileVars, poolVars, mainVars, taskVars, histVars
  <1>3. Editions'
    BY <1>0 DEF TypeFacts, Functions, Editions, UseDone, At, Ends, vars,
         fileVars, poolVars, mainVars, taskVars, histVars
  <1>4. Settled'
    BY <1>0 DEF TypeFacts, Functions, Settled, Orderly, Blank, Current,
         Pending, UseDone, At, Ends, vars, fileVars, poolVars, mainVars,
         taskVars, histVars
  <1>5. Noted'
    BY <1>0 DEF TypeFacts, Functions, Noted, Blank, Pending, UseDone, At,
         Ends, vars, fileVars, poolVars, mainVars, taskVars, histVars
  <1>6. ServedHome'
    BY <1>0 DEF TypeFacts, Functions, ServedHome, Blank, UseDone, At, Ends,
         vars, fileVars, poolVars, mainVars, taskVars, histVars
  <1>7. ReloadTakesEffect'
    BY <1>0 DEF TypeFacts, Functions, ReloadTakesEffect, Orderly, Blank,
         ServedHome, UseDone, At, Ends, vars, fileVars, poolVars, mainVars,
         taskVars, histVars
  <1>8. UnchangedUndisturbed'
    BY <1>0 DEF TypeFacts, Functions, UnchangedUndisturbed, Blank, ServedHome,
         Noted, UseDone, At, Ends, vars, fileVars, poolVars, mainVars,
         taskVars, histVars
  <1> QED BY <1>1, <1>2, <1>3, <1>4, <1>5, <1>6, <1>7, <1>8

LEMMA UseFailsOrder ==
    ASSUME Inv, Order, NEW c \in Gets, UseFails(c)
    PROVE  Order'
  <1> USE TasksAssumption, DisjointAssumption DEF Tasks, Holding, Order
  <1>0. TypeFacts /\ Functions
    BY TypesGive, FunctionsGive
  <1>a. \A k \in Gets : /\ conn'[k].host = conn[k].host
                        /\ conn'[k].state = "none" => conn[k].state = "none"
                        /\ conn[k].dead => conn'[k].dead
                        /\ conn'[k].state = "closed" => conn[k].state = "closed"
    BY <1>0 DEF TypeFacts, Functions, Connection, UseFails
  <1>b. /\ \A k \in Gets : pc'[k] = "using" => pc[k] = "using"
        /\ UNCHANGED <<served, alias, hosts, atStart, applied>>
        /\ \A b \in Aliases :
              cached'[b] # None => cached'[b] = cached[b] /\ ready' = ready
    BY <1>0 DEF TypeFacts, Functions, UseFails, Ends, At, poolVars,
       taskVars, histVars
  <1>1. Blank'
    BY <1>0, <1>a DEF TypeFacts, Functions, Blank, UseFails, At, Ends, vars,
         fileVars, poolVars, mainVars, taskVars, histVars
  <1>2. OneReload'
    BY <1>0, <1>a DEF TypeFacts, Functions, OneReload, Orderly, Blank,
         UseFails, At, Ends, vars, fileVars, poolVars, mainVars, taskVars,
         histVars
  <1>3. Editions'
    BY <1>0, <1>a DEF TypeFacts, Functions, Editions, UseFails, At, Ends,
         vars, fileVars, poolVars, mainVars, taskVars, histVars
  <1>4. Settled'
    BY <1>0, <1>a DEF TypeFacts, Functions, Settled, Orderly, Blank, Current,
         Pending, UseFails, At, Ends, vars, fileVars, poolVars, mainVars,
         taskVars, histVars
  <1>5. Noted'
    BY <1>0, <1>a DEF TypeFacts, Functions, Noted, Blank, Pending, UseFails,
         At, Ends, vars, fileVars, poolVars, mainVars, taskVars, histVars
  <1>6. ServedHome'
    BY <1>0, <1>a, <1>b DEF TypeFacts, ServedHome
  <1>7. ReloadTakesEffect'
    BY <1>0, <1>a, <1>b DEF TypeFacts, ReloadTakesEffect, Orderly
  <1>8. UnchangedUndisturbed'
    <2> SUFFICES ASSUME NEW k \in Gets, pc[k] = "using", served[k] \in Gets,
                        conn'[served[k]].state = "closed",
                        ~conn'[served[k]].dead
                 PROVE  ~atStart[k].calm
                          \/ hosts[alias[k]].edition # atStart[k].base
      <3>1. \A b \in Gets : pc[b] = "using" => served[b] \in Gets
        BY DEF Inv, TypeOK, TaskHas
      <3> QED BY <3>1, <1>b DEF UnchangedUndisturbed
    <2>1. conn[served[k]].state = "closed" /\ ~conn[served[k]].dead
      BY <1>a
    <2> QED BY <2>1 DEF UnchangedUndisturbed
  <1> QED BY <1>1, <1>2, <1>3, <1>4, <1>5, <1>6, <1>7, <1>8

LEMMA ReloadMalformedOrder ==
    ASSUME Inv, Order, NEW r \in Reloads, ReloadMalformed(r)
    PROVE  Order'
  <1> USE TasksAssumption, DisjointAssumption DEF Tasks, Holding, Order
  <1>0. TypeFacts /\ Functions
    BY TypesGive, FunctionsGive
  <1>1. Blank'
    BY <1>0 DEF TypeFacts, Functions, Blank, ReloadMalformed, Strikes, At,
         vars, fileVars, poolVars, mainVars, taskVars, histVars
  <1>2. OneReload'
    BY <1>0 DEF TypeFacts, Functions, OneReload, Orderly, Blank,
         ReloadMalformed, Strikes, At, vars, fileVars, poolVars, mainVars,
         taskVars, histVars
  <1>3. Editions'
    BY <1>0 DEF TypeFacts, Functions, Editions, ReloadMalformed, Strikes, At,
         vars, fileVars, poolVars, mainVars, taskVars, histVars
  <1>4. Settled'
    BY <1>0 DEF TypeFacts, Functions, Settled, Orderly, Blank, Current,
         Pending, ReloadMalformed, Strikes, At, vars, fileVars, poolVars,
         mainVars, taskVars, histVars
  <1>5. Noted'
    BY <1>0 DEF TypeFacts, Functions, Noted, Blank, Pending, ReloadMalformed,
         Strikes, At, vars, fileVars, poolVars, mainVars, taskVars, histVars
  <1>6. ServedHome'
    BY <1>0 DEF TypeFacts, Functions, ServedHome, Blank, ReloadMalformed,
         Strikes, At, vars, fileVars, poolVars, mainVars, taskVars, histVars
  <1>7. ReloadTakesEffect'
    BY <1>0 DEF TypeFacts, Functions, ReloadTakesEffect, Orderly, Blank,
         ServedHome, ReloadMalformed, Strikes, At, vars, fileVars, poolVars,
         mainVars, taskVars, histVars
  <1>8. UnchangedUndisturbed'
    BY <1>0 DEF TypeFacts, Functions, UnchangedUndisturbed, Blank, ServedHome,
         Noted, ReloadMalformed, Strikes, At, vars, fileVars, poolVars,
         mainVars, taskVars, histVars
  <1> QED BY <1>1, <1>2, <1>3, <1>4, <1>5, <1>6, <1>7, <1>8

LEMMA ReloadClosedOrder ==
    ASSUME Inv, Order, NEW r \in Reloads, ReloadClosed(r)
    PROVE  Order'
  <1> USE TasksAssumption, DisjointAssumption DEF Tasks, Holding, Order
  <1>0. TypeFacts /\ Functions
    BY TypesGive, FunctionsGive
  <1>a. /\ cached[alias[r]] = None /\ alias[r] \in Aliases
        /\ \A k \in Gets : pc[k] = "open" => alias[k] # alias[r]
    <2>1. alias[r] \in Aliases /\ cached[alias[r]] = None
      BY DEF ReloadClosed, Inv, TypeOK, TaskHas, Cache, Emptied
    <2>2. lock[alias[r]] = r /\ r \notin Gets
      BY DEF ReloadClosed, Inv, Cache, LockOwned
    <2>3. \A k \in Gets : pc[k] = "open" => lock[alias[k]] = k
      BY DEF Inv, Cache, LockOwned
    <2> QED BY <2>1, <2>2, <2>3
  <1>b. /\ \A q \in Reloads : todo'[q] =
              IF q = r THEN todo[r] \ {alias[r]} ELSE todo[q]
        /\ \A k \in Gets : pc'[k] = pc[k]
        /\ UNCHANGED <<alias, conn, cached, hosts, applied, atStart>>
    BY <1>0 DEF TypeFacts, Functions, ReloadClosed, At, histVars
  <1>1. Blank'
    BY <1>0 DEF TypeFacts, Functions, Blank, ReloadClosed, Leave, At, vars,
         fileVars, poolVars, mainVars, taskVars, histVars
  <1>2. OneReload'
    BY <1>0 DEF TypeFacts, Functions, OneReload, Orderly, Blank, ReloadClosed,
         Leave, At, vars, fileVars, poolVars, mainVars, taskVars, histVars
  <1>3. Editions'
    BY <1>0 DEF TypeFacts, Functions, Editions, ReloadClosed, Leave, At, vars,
         fileVars, poolVars, mainVars, taskVars, histVars
  <1>4. Settled'
    BY <1>0, <1>a, <1>b DEF TypeFacts, Settled, Orderly, Current, Pending
  <1>5. Noted'
    BY <1>0 DEF TypeFacts, Functions, Noted, Blank, Pending, ReloadClosed,
         Leave, At, vars, fileVars, poolVars, mainVars, taskVars, histVars
  <1>6. ServedHome'
    BY <1>0 DEF TypeFacts, Functions, ServedHome, Blank, ReloadClosed, Leave,
         At, vars, fileVars, poolVars, mainVars, taskVars, histVars
  <1>7. ReloadTakesEffect'
    BY <1>0 DEF TypeFacts, Functions, ReloadTakesEffect, Orderly, Blank,
         ServedHome, ReloadClosed, Leave, At, vars, fileVars, poolVars,
         mainVars, taskVars, histVars
  <1>8. UnchangedUndisturbed'
    BY <1>0 DEF TypeFacts, Functions, UnchangedUndisturbed, Blank, ServedHome,
         Noted, ReloadClosed, Leave, At, vars, fileVars, poolVars, mainVars,
         taskVars, histVars
  <1> QED BY <1>1, <1>2, <1>3, <1>4, <1>5, <1>6, <1>7, <1>8

LEMMA CancelOrder ==
    ASSUME Inv, Order, NEW t \in Tasks, Cancel(t)
    PROVE  Order'
  <1> USE TasksAssumption, DisjointAssumption DEF Tasks, Holding, Order
  <1>0. TypeFacts /\ Functions
    BY TypesGive, FunctionsGive
  <1>a. \A u \in Tasks : /\ atStart'[u].floor = atStart[u].floor
                         /\ atStart'[u].base = atStart[u].base
                         /\ atStart'[u].goal = atStart[u].goal
    BY DEF Cancel, Inv, TypeOK, TaskTypeOK, History
  <1>b. atStart[t].calm \in BOOLEAN
    BY DEF Inv, TypeOK, TaskTypeOK, History
  <1>c. /\ \A u \in Tasks : atStart'[u].calm => atStart[u].calm
        /\ t \in Reloads => ~atStart'[t].calm
    BY <1>b DEF Cancel, Inv, TypeOK, TaskTypeOK, History
  <1>d. \A c \in Gets : ~atStart[c].calm => ~atStart'[c].calm
    BY <1>c
  <1>e. /\ \A u \in Tasks \ {t} : pc'[u] = pc[u] /\ atStart'[u] = atStart[u]
        /\ pc'[t] = "end" /\ pc[t] # "new"
        /\ \A r \in Reloads : todo'[r] = IF r = t THEN {} ELSE todo[r]
        /\ UNCHANGED <<alias, served, conn, cached, ready, hosts, disk,
                       applied>>
    BY <1>0 DEF TypeFacts, Functions, Cancel, At
  <1>o. Orderly' => Orderly /\ t \in Gets
    <2>1. Orderly' => \A r \in Reloads : atStart[r].calm
      BY <1>c DEF Orderly
    <2>2. Orderly' => t \notin Reloads
      BY <1>c DEF Orderly
    <2> QED BY <2>1, <2>2 DEF Orderly
  <1>1. Blank'
    BY <1>0, <1>e DEF TypeFacts, Blank
  <1>2. OneReload'
    BY <1>0, <1>e, <1>o DEF TypeFacts, OneReload
  <1>3. Editions'
    BY <1>0, <1>a, <1>e DEF TypeFacts, Editions
  <1>4. Settled'
    BY <1>0, <1>e, <1>o DEF TypeFacts, Settled, Current, Pending
  <1>5. Noted'
    BY <1>0, <1>a, <1>c, <1>e DEF TypeFacts, Noted, Pending
  <1>6. ServedHome'
    BY <1>0, <1>e DEF TypeFacts, ServedHome
  <1>7. ReloadTakesEffect'
    BY <1>0, <1>a, <1>e, <1>o DEF TypeFacts, ReloadTakesEffect
  <1>8. UnchangedUndisturbed'
    BY <1>0, <1>a, <1>d, <1>e DEF TypeFacts, UnchangedUndisturbed
  <1> QED BY <1>1, <1>2, <1>3, <1>4, <1>5, <1>6, <1>7, <1>8

LEMMA EditOrder ==
    ASSUME Inv, Order, NEW a \in Aliases, Edit(a)
    PROVE  Order'
  <1> USE TasksAssumption, DisjointAssumption DEF Tasks, Holding, Order
  <1>0. TypeFacts /\ Functions
    BY TypesGive, FunctionsGive
  <1>1. Blank'
    BY <1>0 DEF TypeFacts, Functions, Blank, Edit, Entry, vars, fileVars,
         poolVars, mainVars, taskVars, histVars
  <1>2. OneReload'
    BY <1>0 DEF TypeFacts, Functions, OneReload, Orderly, Blank, Edit, Entry,
         vars, fileVars, poolVars, mainVars, taskVars, histVars
  <1>3. Editions'
    BY <1>0 DEF TypeFacts, Functions, Editions, Edit, Entry, vars, fileVars,
         poolVars, mainVars, taskVars, histVars
  <1>4. Settled'
    BY <1>0 DEF TypeFacts, Functions, Settled, Orderly, Blank, Current,
         Pending, Edit, Entry, vars, fileVars, poolVars, mainVars, taskVars,
         histVars
  <1>5. Noted'
    BY <1>0 DEF TypeFacts, Functions, Noted, Blank, Pending, Edit, Entry,
         vars, fileVars, poolVars, mainVars, taskVars, histVars
  <1>6. ServedHome'
    BY <1>0 DEF TypeFacts, Functions, ServedHome, Blank, Edit, Entry, vars,
         fileVars, poolVars, mainVars, taskVars, histVars
  <1>7. ReloadTakesEffect'
    BY <1>0 DEF TypeFacts, Functions, ReloadTakesEffect, Orderly, Blank,
         ServedHome, Edit, Entry, vars, fileVars, poolVars, mainVars,
         taskVars, histVars
  <1>8. UnchangedUndisturbed'
    BY <1>0 DEF TypeFacts, Functions, UnchangedUndisturbed, Blank, ServedHome,
         Noted, Edit, Entry, vars, fileVars, poolVars, mainVars, taskVars,
         histVars
  <1> QED BY <1>1, <1>2, <1>3, <1>4, <1>5, <1>6, <1>7, <1>8

LEMMA BreakOrder ==
    ASSUME Inv, Order, NEW x \in Gets, Break(x)
    PROVE  Order'
  <1> USE TasksAssumption, DisjointAssumption DEF Tasks, Holding, Order
  <1>0. TypeFacts /\ Functions
    BY TypesGive, FunctionsGive
  <1>a. \A k \in Gets : /\ conn'[k].host = conn[k].host
                        /\ conn'[k].state = "none" => conn[k].state = "none"
                        /\ conn[k].dead => conn'[k].dead
                        /\ conn'[k].state = "closed" => conn[k].state = "closed"
    BY <1>0 DEF TypeFacts, Functions, Connection, Break
  <1>b. /\ \A k \in Gets : pc'[k] = "using" => pc[k] = "using"
        /\ UNCHANGED <<served, alias, hosts, atStart, applied>>
        /\ \A b \in Aliases :
              cached'[b] # None => cached'[b] = cached[b] /\ ready' = ready
    BY <1>0 DEF TypeFacts, Functions, Break, Ends, At, poolVars,
       taskVars, histVars
  <1>1. Blank'
    BY <1>0, <1>a DEF TypeFacts, Functions, Blank, Break, Strikes, vars,
         fileVars, poolVars, mainVars, taskVars, histVars
  <1>2. OneReload'
    BY <1>0, <1>a DEF TypeFacts, Functions, OneReload, Orderly, Blank, Break,
         Strikes, vars, fileVars, poolVars, mainVars, taskVars, histVars
  <1>3. Editions'
    BY <1>0, <1>a DEF TypeFacts, Functions, Editions, Break, Strikes, vars,
         fileVars, poolVars, mainVars, taskVars, histVars
  <1>4. Settled'
    BY <1>0, <1>a DEF TypeFacts, Functions, Settled, Orderly, Blank, Current,
         Pending, Break, Strikes, vars, fileVars, poolVars, mainVars,
         taskVars, histVars
  <1>5. Noted'
    BY <1>0, <1>a DEF TypeFacts, Functions, Noted, Blank, Pending, Break,
         Strikes, vars, fileVars, poolVars, mainVars, taskVars, histVars
  <1>6. ServedHome'
    BY <1>0, <1>a, <1>b DEF TypeFacts, ServedHome
  <1>7. ReloadTakesEffect'
    BY <1>0, <1>a, <1>b DEF TypeFacts, ReloadTakesEffect, Orderly
  <1>8. UnchangedUndisturbed'
    <2> SUFFICES ASSUME NEW k \in Gets, pc[k] = "using", served[k] \in Gets,
                        conn'[served[k]].state = "closed",
                        ~conn'[served[k]].dead
                 PROVE  ~atStart[k].calm
                          \/ hosts[alias[k]].edition # atStart[k].base
      <3>1. \A b \in Gets : pc[b] = "using" => served[b] \in Gets
        BY DEF Inv, TypeOK, TaskHas
      <3> QED BY <3>1, <1>b DEF UnchangedUndisturbed
    <2>1. conn[served[k]].state = "closed" /\ ~conn[served[k]].dead
      BY <1>a
    <2> QED BY <2>1 DEF UnchangedUndisturbed
  <1> QED BY <1>1, <1>2, <1>3, <1>4, <1>5, <1>6, <1>7, <1>8

LEMMA TickOrder ==
    ASSUME Inv, Order, Tick
    PROVE  Order'
  <1> USE TasksAssumption, DisjointAssumption DEF Tasks, Holding, Order
  <1>0. TypeFacts /\ Functions
    BY TypesGive, FunctionsGive
  <1>1. Blank'
    BY <1>0 DEF TypeFacts, Functions, Blank, Tick, vars, fileVars, poolVars,
         mainVars, taskVars, histVars
  <1>2. OneReload'
    BY <1>0 DEF TypeFacts, Functions, OneReload, Orderly, Blank, Tick, vars,
         fileVars, poolVars, mainVars, taskVars, histVars
  <1>3. Editions'
    BY <1>0 DEF TypeFacts, Functions, Editions, Tick, vars, fileVars,
         poolVars, mainVars, taskVars, histVars
  <1>4. Settled'
    BY <1>0 DEF TypeFacts, Functions, Settled, Orderly, Blank, Current,
         Pending, Tick, vars, fileVars, poolVars, mainVars, taskVars, histVars
  <1>5. Noted'
    BY <1>0 DEF TypeFacts, Functions, Noted, Blank, Pending, Tick, vars,
         fileVars, poolVars, mainVars, taskVars, histVars
  <1>6. ServedHome'
    BY <1>0 DEF TypeFacts, Functions, ServedHome, Blank, Tick, vars, fileVars,
         poolVars, mainVars, taskVars, histVars
  <1>7. ReloadTakesEffect'
    BY <1>0 DEF TypeFacts, Functions, ReloadTakesEffect, Orderly, Blank,
         ServedHome, Tick, vars, fileVars, poolVars, mainVars, taskVars,
         histVars
  <1>8. UnchangedUndisturbed'
    BY <1>0 DEF TypeFacts, Functions, UnchangedUndisturbed, Blank, ServedHome,
         Noted, Tick, vars, fileVars, poolVars, mainVars, taskVars, histVars
  <1> QED BY <1>1, <1>2, <1>3, <1>4, <1>5, <1>6, <1>7, <1>8

LEMMA CloseAllOrder ==
    ASSUME Inv, Order, CloseAll
    PROVE  Order'
  <1> USE TasksAssumption, DisjointAssumption DEF Tasks, Holding, Order
  <1>0. TypeFacts /\ Functions
    BY TypesGive, FunctionsGive
  <1>a. \A k \in Gets : /\ conn'[k].host = conn[k].host
                        /\ conn'[k].state = "none" => conn[k].state = "none"
                        /\ conn[k].dead => conn'[k].dead
                        /\ conn'[k].state = "closed" => TRUE
    BY <1>0 DEF TypeFacts, Functions, Connection, CloseAll
  <1>b. /\ \A k \in Gets : pc'[k] = "using" => pc[k] = "using"
        /\ UNCHANGED <<served, alias, hosts, atStart, applied>>
        /\ \A b \in Aliases :
              cached'[b] # None => cached'[b] = cached[b] /\ ready' = ready
    BY <1>0 DEF TypeFacts, Functions, CloseAll, Ends, At, poolVars,
       taskVars, histVars
  <1>1. Blank'
    BY <1>0, <1>a DEF TypeFacts, Functions, Blank, CloseAll, vars, fileVars,
         poolVars, mainVars, taskVars, histVars
  <1>2. OneReload'
    BY <1>0, <1>a DEF TypeFacts, Functions, OneReload, Orderly, Blank,
         CloseAll, vars, fileVars, poolVars, mainVars, taskVars, histVars
  <1>3. Editions'
    BY <1>0, <1>a DEF TypeFacts, Functions, Editions, CloseAll, vars,
         fileVars, poolVars, mainVars, taskVars, histVars
  <1>4. Settled'
    BY <1>0, <1>a DEF TypeFacts, Functions, Settled, Orderly, Blank, Current,
         Pending, CloseAll, vars, fileVars, poolVars, mainVars, taskVars,
         histVars
  <1>5. Noted'
    BY <1>0, <1>a DEF TypeFacts, Functions, Noted, Blank, Pending, CloseAll,
         vars, fileVars, poolVars, mainVars, taskVars, histVars
  <1>6. ServedHome'
    BY <1>0, <1>a, <1>b DEF TypeFacts, ServedHome
  <1>7. ReloadTakesEffect'
    BY <1>0, <1>a, <1>b DEF TypeFacts, ReloadTakesEffect, Orderly
  <1>8. UnchangedUndisturbed'
    BY <1>0, <1>b DEF TypeFacts, UnchangedUndisturbed, CloseAll
  <1> QED BY <1>1, <1>2, <1>3, <1>4, <1>5, <1>6, <1>7, <1>8

LEMMA GetRejectedOrder ==
    ASSUME Inv, Order, NEW c \in Gets, GetRejected(c)
    PROVE  Order'
  <1> USE TasksAssumption, DisjointAssumption DEF Tasks, Holding, Order
  <1>0. TypeFacts /\ Functions
    BY TypesGive, FunctionsGive
  <1>a. PICK a \in Aliases : BeginsWith(c, a)
    BY BeginEffect DEF GetRejected
  <1>b. /\ At(c, "end") /\ UNCHANGED <<cached, ready, conn, served>>
    BY DEF GetRejected, Begin, Ends, poolVars
  <1>c. conn[c].state = "none" /\ served[c] = None
    BY <1>a DEF BeginsWith, Blank, Inv, Cache, Unopened
  <1>d. \A b \in Aliases : cached[b] # None => cached[b] # c
    BY <1>c DEF Inv, Cache, CachedIsOpen
  <1>e. \A k \in Gets : served[k] # c
    BY <1>c, None \notin Gets DEF ServedHome
  <1>o. Orderly' = Orderly
    BY <1>0, <1>a DEF TypeFacts, BeginsWith, Orderly
  <1>p. /\ \A t \in Tasks \ {c} : pc'[t] = pc[t] /\ alias'[t] = alias[t]
        /\ pc[c] = "new" /\ pc'[c] = "end" /\ alias'[c] = a
    BY <1>0, <1>a, <1>b DEF TypeFacts, Functions, BeginsWith, At
  <1>1. Blank'
    BY <1>0, <1>a, <1>b, <1>c, <1>d, <1>e, <1>o, <1>p DEF TypeFacts,
         BeginsWith, Blank
  <1>2. OneReload'
    BY <1>0, <1>a, <1>b, <1>c, <1>d, <1>e, <1>o, <1>p DEF TypeFacts,
         BeginsWith, OneReload, Blank
  <1>3. Editions'
    BY <1>0, <1>a, <1>b, <1>c, <1>d, <1>e, <1>o, <1>p DEF TypeFacts,
         BeginsWith, Editions
  <1>4. Settled'
    BY <1>0, <1>a, <1>b, <1>c, <1>d, <1>e, <1>o, <1>p DEF TypeFacts,
         BeginsWith, Settled, Blank, Current, Pending
  <1>5. Noted'
    BY <1>0, <1>a, <1>b, <1>c, <1>d, <1>e, <1>o, <1>p DEF TypeFacts,
         BeginsWith, Noted, Blank, Pending
  <1>6. ServedHome'
    BY <1>0, <1>a, <1>b, <1>c, <1>d, <1>e, <1>o, <1>p DEF TypeFacts,
         BeginsWith, ServedHome, Blank
  <1>7. ReloadTakesEffect'
    BY <1>0, <1>a, <1>b, <1>c, <1>d, <1>e, <1>o, <1>p DEF TypeFacts,
         BeginsWith, ReloadTakesEffect, Blank, ServedHome
  <1>8. UnchangedUndisturbed'
    BY <1>0, <1>a, <1>b, <1>c, <1>d, <1>e, <1>o, <1>p DEF TypeFacts,
         BeginsWith, UnchangedUndisturbed, Blank, ServedHome, Noted
  <1> QED BY <1>1, <1>2, <1>3, <1>4, <1>5, <1>6, <1>7, <1>8

LEMMA GetWaitsOrder ==
    ASSUME Inv, Order, NEW c \in Gets, GetWaits(c)
    PROVE  Order'
  <1> USE TasksAssumption, DisjointAssumption DEF Tasks, Holding, Order
  <1>0. TypeFacts /\ Functions
    BY TypesGive, FunctionsGive
  <1>a. PICK a \in Aliases : BeginsWith(c, a)
    BY BeginEffect DEF GetWaits
  <1>b. /\ At(c, "lock") /\ UNCHANGED <<cached, ready, conn, served>>
    BY DEF GetWaits, Begin, Ends, poolVars
  <1>c. conn[c].state = "none" /\ served[c] = None
    BY <1>a DEF BeginsWith, Blank, Inv, Cache, Unopened
  <1>d. \A b \in Aliases : cached[b] # None => cached[b] # c
    BY <1>c DEF Inv, Cache, CachedIsOpen
  <1>e. \A k \in Gets : served[k] # c
    BY <1>c, None \notin Gets DEF ServedHome
  <1>o. Orderly' = Orderly
    BY <1>0, <1>a DEF TypeFacts, BeginsWith, Orderly
  <1>p. /\ \A t \in Tasks \ {c} : pc'[t] = pc[t] /\ alias'[t] = alias[t]
        /\ pc[c] = "new" /\ pc'[c] = "lock" /\ alias'[c] = a
    BY <1>0, <1>a, <1>b DEF TypeFacts, Functions, BeginsWith, At
  <1>1. Blank'
    BY <1>0, <1>a, <1>b, <1>c, <1>d, <1>e, <1>o, <1>p DEF TypeFacts,
         BeginsWith, Blank
  <1>2. OneReload'
    BY <1>0, <1>a, <1>b, <1>c, <1>d, <1>e, <1>o, <1>p DEF TypeFacts,
         BeginsWith, OneReload, Blank
  <1>3. Editions'
    BY <1>0, <1>a, <1>b, <1>c, <1>d, <1>e, <1>o, <1>p DEF TypeFacts,
         BeginsWith, Editions
  <1>4. Settled'
    BY <1>0, <1>a, <1>b, <1>c, <1>d, <1>e, <1>o, <1>p DEF TypeFacts,
         BeginsWith, Settled, Blank, Current, Pending
  <1>5. Noted'
    BY <1>0, <1>a, <1>b, <1>c, <1>d, <1>e, <1>o, <1>p DEF TypeFacts,
         BeginsWith, Noted, Blank, Pending
  <1>6. ServedHome'
    BY <1>0, <1>a, <1>b, <1>c, <1>d, <1>e, <1>o, <1>p DEF TypeFacts,
         BeginsWith, ServedHome, Blank
  <1>7. ReloadTakesEffect'
    BY <1>0, <1>a, <1>b, <1>c, <1>d, <1>e, <1>o, <1>p DEF TypeFacts,
         BeginsWith, ReloadTakesEffect, Blank, ServedHome
  <1>8. UnchangedUndisturbed'
    BY <1>0, <1>a, <1>b, <1>c, <1>d, <1>e, <1>o, <1>p DEF TypeFacts,
         BeginsWith, UnchangedUndisturbed, Blank, ServedHome, Noted
  <1> QED BY <1>1, <1>2, <1>3, <1>4, <1>5, <1>6, <1>7, <1>8

-----------------------------------------------------------------------------
(* A call that gets its connection.                                        *)

\* Call c is about to open, or to take, the connection of alias a.
Arrives(c, a) ==
    /\ pc[c] \in {"new", "lock", "evict"}
    /\ alias' = [alias EXCEPT ![c] = a]
    /\ \A t \in Tasks \ {c} : atStart'[t] = atStart[t]
    /\ UNCHANGED <<disk, hosts, todo, applied>>
    /\ atStart'[c].floor \in Nat /\ atStart'[c].base \in Nat
    /\ atStart'[c].floor <= applied[a]
    /\ atStart'[c].base <= hosts[a].edition
    /\ atStart'[c].calm /\ Pending(a) => hosts[a].edition # atStart'[c].base

LEMMA BeginArrives ==
    ASSUME Inv, NEW c \in Gets, NEW a \in Aliases, Begin(c, a)
    PROVE  Arrives(c, a)
  <1>1. BeginsWith(c, a)
    BY BeginEffect
  <1>2. applied[a] \in Nat /\ hosts[a].edition \in Nat
    BY TypesGive DEF TypeFacts
  <1> QED BY <1>1, <1>2 DEF Arrives, BeginsWith

LEMMA ResumedArrives ==
    ASSUME Inv, Order, NEW c \in Gets, pc[c] \in {"lock", "evict"},
           UNCHANGED <<fileVars, hosts, alias, todo, histVars>>
    PROVE  alias[c] \in Aliases /\ Arrives(c, alias[c])
  <1>1. alias[c] \in Aliases /\ alias[c] # None
    BY TasksAssumption DEF Inv, TypeOK, TaskHas, Holding, Tasks
  <1>2. alias' = [alias EXCEPT ![c] = alias[c]]
    BY FunctionsGive DEF Functions
  <1>3. /\ atStart[c].floor \in Nat /\ atStart[c].base \in Nat
        /\ atStart[c].floor <= applied[alias[c]]
        /\ atStart[c].base <= hosts[alias[c]].edition
        /\ atStart[c].calm /\ Pending(alias[c])
             => hosts[alias[c]].edition # atStart[c].base
    BY <1>1, TypesGive DEF TypeFacts, Order, Noted
  <1> QED BY <1>1, <1>2, <1>3 DEF Arrives, fileVars, histVars

\* What an eviction does to the pool.
Evicts(a) ==
    /\ cached'[a] = None
    /\ \A b \in Aliases \ {a} : cached'[b] = cached[b]
    /\ ready' = ready \ {a}
    /\ \A k \in Gets :
        /\ conn'[k].host = conn[k].host
        /\ conn'[k].dead = conn[k].dead
        /\ conn'[k].state = "none" => conn[k].state = "none"
        /\ k # cached[a] => conn'[k].state = conn[k].state

LEMMA EvictEvicts ==
    ASSUME Inv, NEW a \in Aliases, Evict(a)
    PROVE  Evicts(a)
  <1>1. cached \in [Aliases -> Gets \cup {None}]
    BY DEF Inv, TypeOK, PoolTypeOK
  <1>2. \A k \in Gets :
           /\ [conn[k] EXCEPT !.state = "closed"].host = conn[k].host
           /\ [conn[k] EXCEPT !.state = "closed"].dead = conn[k].dead
           /\ [conn[k] EXCEPT !.state = "closed"].state = "closed"
    BY TypesGive DEF TypeFacts, Connection
  <1> QED BY <1>1, <1>2 DEF Evict, Evicts

LEMMA EnterEvictOrder ==
    ASSUME Inv, Order, NEW c \in Gets, NEW a \in Aliases,
           Arrives(c, a), EnterEvict(c, a)
    PROVE  Order'
  <1> USE TasksAssumption, DisjointAssumption DEF Tasks, Holding, Order
  <1>0. TypeFacts /\ Functions
    BY TypesGive, FunctionsGive
  <1>c. conn[c].state = "none" /\ served[c] = None
    BY DEF Arrives, Blank, Inv, Cache, Unopened
  <1>d. \A b \in Aliases : cached[b] # None => cached[b] # c
    BY <1>c DEF Inv, Cache, CachedIsOpen
  <1>e. \A k \in Gets : served[k] # c
    BY <1>c, None \notin Gets DEF ServedHome
  <1>o. Orderly' = Orderly
    BY DEF Arrives, Orderly
  <1>p. /\ \A t \in Tasks \ {c} : alias'[t] = alias[t]
        /\ alias'[c] = a /\ pc[c] \notin {"using", "end", "open", "ready"}
    BY <1>0 DEF Functions, Arrives
  <1>q. pc'[c] = "evict" /\ \A t \in Tasks \ {c} : pc'[t] = pc[t]
    BY <1>0 DEF Functions, EnterEvict, At
  <1>r. Evicts(a) /\ conn[cached[a]].dead /\ UNCHANGED served
    BY EvictEvicts DEF EnterEvict
  <1>1. Blank'
    BY <1>0, <1>c, <1>d, <1>e, <1>o, <1>p, <1>q, <1>r DEF TypeFacts, Arrives,
         Evicts, Blank
  <1>2. OneReload'
    BY <1>0, <1>c, <1>d, <1>e, <1>o, <1>p, <1>q, <1>r DEF TypeFacts, Arrives,
         Evicts, OneReload, Blank
  <1>3. Editions'
    BY <1>0, <1>c, <1>d, <1>e, <1>o, <1>p, <1>q, <1>r DEF TypeFacts, Arrives,
         Evicts, Editions
  <1>4. Settled'
    BY <1>0, <1>c, <1>d, <1>e, <1>o, <1>p, <1>q, <1>r DEF TypeFacts, Arrives,
         Evicts, Settled, Blank, Current, Pending
  <1>5. Noted'
    BY <1>0, <1>c, <1>d, <1>e, <1>o, <1>p, <1>q, <1>r DEF TypeFacts, Arrives,
         Evicts, Noted, Blank, Pending
  <1>6. ServedHome'
    BY <1>0, <1>c, <1>d, <1>e, <1>o, <1>p, <1>q, <1>r DEF TypeFacts, Arrives,
         Evicts, ServedHome, Blank
  <1>7. ReloadTakesEffect'
    BY <1>0, <1>c, <1>d, <1>e, <1>o, <1>p, <1>q, <1>r DEF TypeFacts, Arrives,
         Evicts, ReloadTakesEffect, Blank, ServedHome
  <1>8. UnchangedUndisturbed'
    <2> SUFFICES ASSUME NEW k \in Gets, pc'[k] = "using",
                        conn'[served[k]].state = "closed",
                        ~conn'[served[k]].dead
                 PROVE  ~atStart'[k].calm
                          \/ hosts[alias'[k]].edition # atStart'[k].base
      BY <1>r DEF UnchangedUndisturbed, Arrives
    <2>1. k # c /\ pc[k] = "using"
      BY <1>q
    <2>2. served[k] \in Gets
      BY <2>1 DEF Inv, TypeOK, TaskHas
    <2>3. conn[served[k]].state = "closed" /\ ~conn[served[k]].dead
      BY <1>r, <2>2 DEF Evicts
    <2>4. atStart'[k] = atStart[k] /\ alias'[k] = alias[k]
      BY <1>p, <2>1 DEF Arrives
    <2> QED BY <2>1, <2>3, <2>4 DEF UnchangedUndisturbed
  <1> QED BY <1>1, <1>2, <1>3, <1>4, <1>5, <1>6, <1>7, <1>8

LEMMA EnterCheckOrder ==
    ASSUME Inv, Order, NEW c \in Gets, NEW a \in Aliases,
           Arrives(c, a), EnterCheck(c, a)
    PROVE  Order'
  <1> USE TasksAssumption, DisjointAssumption DEF Tasks, Holding, Order
  <1>0. TypeFacts /\ Functions
    BY TypesGive, FunctionsGive
  <1>c. conn[c].state = "none" /\ served[c] = None
    BY DEF Arrives, Blank, Inv, Cache, Unopened
  <1>d. \A b \in Aliases : cached[b] # None => cached[b] # c
    BY <1>c DEF Inv, Cache, CachedIsOpen
  <1>e. \A k \in Gets : served[k] # c
    BY <1>c, None \notin Gets DEF ServedHome
  <1>o. Orderly' = Orderly
    BY DEF Arrives, Orderly
  <1>p. /\ \A t \in Tasks \ {c} : alias'[t] = alias[t]
        /\ alias'[c] = a /\ pc[c] \notin {"using", "end", "open", "ready"}
    BY <1>0 DEF Functions, Arrives
  <1>q. pc'[c] = "ready" /\ \A t \in Tasks \ {c} : pc'[t] = pc[t]
    BY <1>0 DEF Functions, EnterCheck, At
  <1>r. a \notin ready /\ UNCHANGED <<cached, ready, conn, served>>
    BY DEF EnterCheck
  <1>1. Blank'
    BY <1>0, <1>c, <1>d, <1>e, <1>o, <1>p, <1>q, <1>r DEF TypeFacts, Arrives,
         Blank
  <1>2. OneReload'
    BY <1>0, <1>c, <1>d, <1>e, <1>o, <1>p, <1>q, <1>r DEF TypeFacts, Arrives,
         OneReload, Blank
  <1>3. Editions'
    BY <1>0, <1>c, <1>d, <1>e, <1>o, <1>p, <1>q, <1>r DEF TypeFacts, Arrives,
         Editions
  <1>4. Settled'
    BY <1>0, <1>c, <1>d, <1>e, <1>o, <1>p, <1>q, <1>r DEF TypeFacts, Arrives,
         Settled, Blank, Current, Pending
  <1>5. Noted'
    BY <1>0, <1>c, <1>d, <1>e, <1>o, <1>p, <1>q, <1>r DEF TypeFacts, Arrives,
         Noted, Blank, Pending
  <1>6. ServedHome'
    BY <1>0, <1>c, <1>d, <1>e, <1>o, <1>p, <1>q, <1>r DEF TypeFacts, Arrives,
         ServedHome, Blank
  <1>7. ReloadTakesEffect'
    BY <1>0, <1>c, <1>d, <1>e, <1>o, <1>p, <1>q, <1>r DEF TypeFacts, Arrives,
         ReloadTakesEffect, Blank, ServedHome
  <1>8. UnchangedUndisturbed'
    BY <1>0, <1>c, <1>d, <1>e, <1>o, <1>p, <1>q, <1>r DEF TypeFacts, Arrives,
         UnchangedUndisturbed, Blank, ServedHome, Noted
  <1> QED BY <1>1, <1>2, <1>3, <1>4, <1>5, <1>6, <1>7, <1>8

LEMMA EnterServeOrder ==
    ASSUME Inv, Order, NEW c \in Gets, NEW a \in Aliases,
           Arrives(c, a), EnterServe(c, a)
    PROVE  Order'
  <1> USE TasksAssumption, DisjointAssumption DEF Tasks, Holding, Order
  <1>0. TypeFacts /\ Functions
    BY TypesGive, FunctionsGive
  <1>c. conn[c].state = "none" /\ served[c] = None
    BY DEF Arrives, Blank, Inv, Cache, Unopened
  <1>d. \A b \in Aliases : cached[b] # None => cached[b] # c
    BY <1>c DEF Inv, Cache, CachedIsOpen
  <1>e. \A k \in Gets : served[k] # c
    BY <1>c, None \notin Gets DEF ServedHome
  <1>o. Orderly' = Orderly
    BY DEF Arrives, Orderly
  <1>p. /\ \A t \in Tasks \ {c} : alias'[t] = alias[t]
        /\ alias'[c] = a /\ pc[c] \notin {"using", "end", "open", "ready"}
    BY <1>0 DEF Functions, Arrives
  <1>q. pc'[c] = "using" /\ \A t \in Tasks \ {c} : pc'[t] = pc[t]
    BY <1>0 DEF Functions, EnterServe, Serve, At
  <1>r. /\ cached[a] \in Gets /\ alias[cached[a]] = a /\ a \in ready
        /\ conn[cached[a]].state \in {"open", "broken"}
    BY <1>0 DEF TypeFacts, EnterServe, Inv, Cache, CachedIsOpen
  <1>s. /\ served'[c] = cached[a] /\ UNCHANGED <<cached, ready, conn>>
        /\ \A k \in Gets \ {c} : served'[k] = served[k]
    BY <1>0 DEF Functions, EnterServe, Serve
  <1>1. Blank'
    BY <1>0, <1>c, <1>d, <1>e, <1>o, <1>p, <1>q, <1>r, <1>s DEF TypeFacts,
         Arrives, Blank
  <1>2. OneReload'
    BY <1>0, <1>c, <1>d, <1>e, <1>o, <1>p, <1>q, <1>r, <1>s DEF TypeFacts,
         Arrives, OneReload, Blank
  <1>3. Editions'
    BY <1>0, <1>c, <1>d, <1>e, <1>o, <1>p, <1>q, <1>r, <1>s DEF TypeFacts,
         Arrives, Editions
  <1>4. Settled'
    BY <1>0, <1>c, <1>d, <1>e, <1>o, <1>p, <1>q, <1>r, <1>s DEF TypeFacts,
         Arrives, Settled, Blank, Current, Pending
  <1>5. Noted'
    BY <1>0, <1>c, <1>d, <1>e, <1>o, <1>p, <1>q, <1>r, <1>s DEF TypeFacts,
         Arrives, Noted, Blank, Pending
  <1>6. ServedHome'
    BY <1>0, <1>c, <1>d, <1>e, <1>o, <1>p, <1>q, <1>r, <1>s DEF TypeFacts,
         Arrives, ServedHome, Blank
  <1>7. ReloadTakesEffect'
    <2>1. Orderly => conn[cached[a]].host >= applied[a]
      BY <1>r DEF Settled
    <2>2. \A k \in Gets \ {c} : served[k] # None /\ Orderly =>
              conn[served[k]].host >= atStart[k].floor
      BY DEF ReloadTakesEffect
    <2>3. \A k \in Gets \ {c} : atStart'[k] = atStart[k]
      BY DEF Arrives
    <2>4. Orderly => conn[cached[a]].host >= atStart'[c].floor
      <3>1. conn[cached[a]].host \in Nat /\ applied[a] \in Nat
        BY <1>0, <1>r DEF TypeFacts
      <3>2. atStart'[c].floor <= applied[a]
        BY DEF Arrives
      <3>3. atStart'[c].floor \in Nat
        BY DEF Arrives
      <3> QED BY <2>1, <3>1, <3>2, <3>3
    <2> QED BY <1>o, <1>s, <2>2, <2>3, <2>4 DEF ReloadTakesEffect
  <1>8. UnchangedUndisturbed'
    BY <1>0, <1>c, <1>d, <1>e, <1>o, <1>p, <1>q, <1>r, <1>s DEF TypeFacts,
         Arrives, UnchangedUndisturbed, Blank, ServedHome, Noted
  <1> QED BY <1>1, <1>2, <1>3, <1>4, <1>5, <1>6, <1>7, <1>8

LEMMA OpenOrder ==
    ASSUME Inv, Order, NEW c \in Gets, NEW a \in Aliases,
           Arrives(c, a), cached[a] = None, Open(c, a),
           UNCHANGED <<cached, ready>>
    PROVE  Order'
  <1> USE TasksAssumption, DisjointAssumption DEF Tasks, Holding, Order
  <1>0. TypeFacts /\ Functions
    BY TypesGive, FunctionsGive
  <1>c. conn[c].state = "none" /\ served[c] = None
    BY DEF Arrives, Blank, Inv, Cache, Unopened
  <1>d. \A b \in Aliases : cached[b] # None => cached[b] # c
    BY <1>c DEF Inv, Cache, CachedIsOpen
  <1>e. \A k \in Gets : served[k] # c
    BY <1>c, None \notin Gets DEF ServedHome
  <1>o. Orderly' = Orderly
    BY DEF Arrives, Orderly
  <1>p. /\ \A t \in Tasks \ {c} : alias'[t] = alias[t]
        /\ alias'[c] = a /\ pc[c] \notin {"using", "end", "open", "ready"}
    BY <1>0 DEF Functions, Arrives
  <1>q. /\ pc'[c] \in {"open", "end"}
        /\ pc'[c] = "open" => /\ hosts[a].listed
                              /\ conn'[c].host = hosts[a].edition
        /\ \A t \in Tasks \ {c} : pc'[t] = pc[t]
    <2>1. CASE hosts[a].listed
      <3>1. /\ pc' = [pc EXCEPT ![c] = "open"]
            /\ conn' = [conn EXCEPT ![c].host = hosts[a].edition]
        BY <2>1 DEF Open, At
      <3>2. conn'[c].host = hosts[a].edition
        BY <1>0, <3>1 DEF Functions, TypeFacts, Connection
      <3>3. pc'[c] = "open" /\ \A t \in Tasks \ {c} : pc'[t] = pc[t]
        BY <1>0, <3>1 DEF Functions
      <3> QED BY <2>1, <3>2, <3>3
    <2>2. CASE ~hosts[a].listed
      BY <1>0, <2>2 DEF Functions, Open, Ends, At
    <2> QED BY <2>1, <2>2
  <1>r. cached[a] = None /\ UNCHANGED <<cached, ready, served>>
    BY DEF Open, Ends
  <1>s. /\ conn'[c].state = conn[c].state
        /\ \A k \in Gets \ {c} : conn'[k] = conn[k]
    BY <1>0 DEF Functions, TypeFacts, Connection, Open
  <1>t. \A b \in Aliases : applied[b] <= hosts[b].edition
    BY DEF Editions
  <1>1. Blank'
    BY <1>0, <1>c, <1>d, <1>e, <1>o, <1>p, <1>q, <1>r, <1>s, <1>t DEF
         TypeFacts, Arrives, Blank
  <1>2. OneReload'
    BY <1>0, <1>c, <1>d, <1>e, <1>o, <1>p, <1>q, <1>r, <1>s, <1>t DEF
         TypeFacts, Arrives, OneReload, Blank
  <1>3. Editions'
    BY <1>0, <1>c, <1>d, <1>e, <1>o, <1>p, <1>q, <1>r, <1>s, <1>t DEF
         TypeFacts, Arrives, Editions
  <1>4. Settled'
    BY <1>0, <1>c, <1>d, <1>e, <1>o, <1>p, <1>q, <1>r, <1>s, <1>t DEF
         TypeFacts, Arrives, Settled, Blank, Current, Pending
  <1>5. Noted'
    BY <1>0, <1>c, <1>d, <1>e, <1>o, <1>p, <1>q, <1>r, <1>s, <1>t DEF
         TypeFacts, Arrives, Noted, Blank, Pending
  <1>6. ServedHome'
    BY <1>0, <1>c, <1>d, <1>e, <1>o, <1>p, <1>q, <1>r, <1>s, <1>t DEF
         TypeFacts, Arrives, ServedHome, Blank
  <1>7. ReloadTakesEffect'
    BY <1>0, <1>c, <1>d, <1>e, <1>o, <1>p, <1>q, <1>r, <1>s, <1>t DEF
         TypeFacts, Arrives, ReloadTakesEffect, Blank, ServedHome
  <1>8. UnchangedUndisturbed'
    <2> SUFFICES ASSUME NEW k \in Gets, pc'[k] = "using",
                        conn'[served'[k]].state = "closed",
                        ~conn'[served'[k]].dead
                 PROVE  ~atStart'[k].calm
                          \/ hosts[alias'[k]].edition # atStart'[k].base
      BY <1>r DEF UnchangedUndisturbed, Arrives
    <2>1. k # c /\ pc[k] = "using"
      BY <1>q
    <2>2. served[k] \in Gets /\ served[k] # c /\ served'[k] = served[k]
      BY <2>1, <1>e, <1>r DEF Inv, TypeOK, TaskHas
    <2>3. conn[served[k]].state = "closed" /\ ~conn[served[k]].dead
      BY <1>s, <2>2
    <2>4. atStart'[k] = atStart[k] /\ alias'[k] = alias[k]
      BY <1>p, <2>1 DEF Arrives
    <2> QED BY <2>1, <2>3, <2>4 DEF UnchangedUndisturbed
  <1> QED BY <1>1, <1>2, <1>3, <1>4, <1>5, <1>6, <1>7, <1>8

LEMMA EnterOrder ==
    ASSUME Inv, Order, NEW c \in Gets, NEW a \in Aliases,
           Arrives(c, a), Enter(c, a)
    PROVE  Order'
  <1>1. CASE EnterEvict(c, a)
    BY <1>1, EnterEvictOrder
  <1>2. CASE EnterOpen(c, a)
    BY <1>2, OpenOrder DEF EnterOpen
  <1>3. CASE EnterCheck(c, a)
    BY <1>3, EnterCheckOrder
  <1>4. CASE EnterServe(c, a)
    BY <1>4, EnterServeOrder
  <1> QED BY <1>1, <1>2, <1>3, <1>4 DEF Enter

LEMMA GetEntersOrder ==
    ASSUME Inv, Order, NEW c \in Gets, GetEnters(c)
    PROVE  Order'
  BY BeginArrives, EnterOrder DEF GetEnters

LEMMA GetLockedOrder ==
    ASSUME Inv, Order, NEW c \in Gets, GetLocked(c)
    PROVE  Order'
  BY ResumedArrives, EnterOrder DEF GetLocked

LEMMA GetEvictedOrder ==
    ASSUME Inv, Order, NEW c \in Gets, GetEvicted(c)
    PROVE  Order'
  <1>1. alias[c] \in Aliases /\ Arrives(c, alias[c])
    BY ResumedArrives DEF GetEvicted
  <1>2. cached[alias[c]] = None
    BY DEF GetEvicted, Inv, Cache, Emptied, Tasks
  <1> QED BY <1>1, <1>2, OpenOrder DEF GetEvicted

LEMMA GetOpenedOrder ==
    ASSUME Inv, Order, NEW c \in Gets, GetOpened(c)
    PROVE  Order'
  <1> USE TasksAssumption, DisjointAssumption DEF Tasks, Holding, Order
  <1>0. TypeFacts /\ Functions
    BY TypesGive, FunctionsGive
  <1>f. UNCHANGED <<disk, hosts, alias, todo, applied, atStart>>
    BY DEF GetOpened, fileVars, histVars
  <1>a. alias[c] \in Aliases /\ cached[alias[c]] = None
    BY DEF GetOpened, Inv, TypeOK, TaskHas, Cache, Emptied
  <1>b. alias[c] \notin ready /\ conn[c].state = "none"
    BY <1>a DEF GetOpened, Inv, Cache, ReadyHasHome, Unopened
  <1>c. /\ cached'[alias[c]] = c /\ UNCHANGED <<ready, served>>
        /\ \A b \in Aliases \ {alias[c]} : cached'[b] = cached[b]
    BY <1>0, <1>a, <1>b DEF Functions, GetOpened
  <1>d. /\ pc[c] = "open" /\ pc'[c] = "ready"
        /\ \A t \in Tasks \ {c} : pc'[t] = pc[t]
    BY <1>0, <1>b DEF Functions, GetOpened, At
  <1>e. /\ conn'[c].state = "open" /\ conn'[c].host = conn[c].host
        /\ \A k \in Gets \ {c} : conn'[k] = conn[k]
    BY <1>0 DEF Functions, TypeFacts, Connection, GetOpened
  <1>g. \A k \in Gets : served[k] # c
    BY <1>b, None \notin Gets DEF ServedHome
  <1>1. Blank'
    BY <1>0, <1>a, <1>b, <1>c, <1>d, <1>e, <1>f, <1>g DEF TypeFacts, Blank
  <1>2. OneReload'
    BY <1>0, <1>a, <1>b, <1>c, <1>d, <1>e, <1>f, <1>g DEF TypeFacts,
         OneReload, Orderly, Blank
  <1>3. Editions'
    BY <1>0, <1>a, <1>b, <1>c, <1>d, <1>e, <1>f, <1>g DEF TypeFacts, Editions
  <1>4. Settled'
    BY <1>0, <1>a, <1>b, <1>c, <1>d, <1>e, <1>f, <1>g DEF TypeFacts, Settled,
         Orderly, Blank, Current, Pending
  <1>5. Noted'
    BY <1>0, <1>a, <1>b, <1>c, <1>d, <1>e, <1>f, <1>g DEF TypeFacts, Noted,
         Blank, Pending
  <1>6. ServedHome'
    BY <1>0, <1>a, <1>b, <1>c, <1>d, <1>e, <1>f, <1>g DEF TypeFacts,
         ServedHome, Blank
  <1>7. ReloadTakesEffect'
    BY <1>0, <1>a, <1>b, <1>c, <1>d, <1>e, <1>f, <1>g DEF TypeFacts,
         ReloadTakesEffect, Orderly, Blank, ServedHome
  <1>8. UnchangedUndisturbed'
    <2> SUFFICES ASSUME NEW k \in Gets, pc'[k] = "using",
                        conn'[served'[k]].state = "closed",
                        ~conn'[served'[k]].dead
                 PROVE  ~atStart[k].calm
                          \/ hosts[alias[k]].edition # atStart[k].base
      BY <1>f DEF UnchangedUndisturbed
    <2>1. k # c /\ pc[k] = "using"
      BY <1>d
    <2>2. served[k] \in Gets /\ served[k] # c /\ served'[k] = served[k]
      BY <2>1, <1>c, <1>g DEF Inv, TypeOK, TaskHas
    <2>3. conn[served[k]].state = "closed" /\ ~conn[served[k]].dead
      BY <1>e, <2>2
    <2> QED BY <2>1, <2>3 DEF UnchangedUndisturbed
  <1> QED BY <1>1, <1>2, <1>3, <1>4, <1>5, <1>6, <1>7, <1>8

LEMMA GetCheckedOrder ==
    ASSUME Inv, Order, NEW c \in Gets, GetChecked(c)
    PROVE  Order'
  <1> USE TasksAssumption, DisjointAssumption DEF Tasks, Holding, Order
  <1>0. TypeFacts /\ Functions
    BY TypesGive, FunctionsGive
  <1>f. UNCHANGED <<disk, hosts, alias, todo, applied, atStart>>
    BY DEF GetChecked, fileVars, histVars
  <1>a. /\ alias[c] \in Aliases /\ cached[alias[c]] \in Gets
        /\ alias[cached[alias[c]]] = alias[c]
        /\ conn[cached[alias[c]]].state = "open"
    BY DEF GetChecked, Inv, TypeOK, TaskHas, Cache, CachedIsOpen
  <1>b. /\ ready' = ready \cup {alias[c]} /\ UNCHANGED cached
        /\ served'[c] = cached[alias[c]]
        /\ \A k \in Gets \ {c} : served'[k] = served[k]
    BY <1>0 DEF Functions, GetChecked, Serve
  <1>c. /\ pc[c] = "ready" /\ pc'[c] = "using"
        /\ \A t \in Tasks \ {c} : pc'[t] = pc[t]
    BY <1>0 DEF Functions, GetChecked, Serve, At
  <1>d. \A k \in Gets : /\ conn'[k].host = conn[k].host
                        /\ conn'[k].state = conn[k].state
                        /\ conn'[k].dead = conn[k].dead
    BY <1>0 DEF Functions, TypeFacts, Connection, GetChecked
  <1>e. /\ lock[alias[c]] = c
        /\ \A k \in Gets \ {c} : pc[k] = "ready" => alias[k] # alias[c]
    BY <1>c DEF Inv, Cache, LockOwned
  <1>1. Blank'
    BY <1>0, <1>a, <1>b, <1>c, <1>d, <1>e, <1>f DEF TypeFacts, Blank
  <1>2. OneReload'
    BY <1>0, <1>a, <1>b, <1>c, <1>d, <1>e, <1>f DEF TypeFacts, OneReload,
         Orderly, Blank
  <1>3. Editions'
    BY <1>0, <1>a, <1>b, <1>c, <1>d, <1>e, <1>f DEF TypeFacts, Editions
  <1>4. Settled'
    BY <1>0, <1>a, <1>b, <1>c, <1>d, <1>e, <1>f DEF TypeFacts, Settled,
         Orderly, Blank, Current, Pending
  <1>5. Noted'
    BY <1>0, <1>a, <1>b, <1>c, <1>d, <1>e, <1>f DEF TypeFacts, Noted, Blank,
         Pending
  <1>6. ServedHome'
    BY <1>0, <1>a, <1>b, <1>c, <1>d, <1>e, <1>f DEF TypeFacts, ServedHome,
         Blank
  <1>7. ReloadTakesEffect'
    BY <1>0, <1>a, <1>b, <1>c, <1>d, <1>e, <1>f DEF TypeFacts,
         ReloadTakesEffect, Orderly, Blank, ServedHome, Settled, Noted
  <1>8. UnchangedUndisturbed'
    <2> SUFFICES ASSUME NEW k \in Gets, pc'[k] = "using",
                        conn'[served'[k]].state = "closed",
                        ~conn'[served'[k]].dead
                 PROVE  ~atStart[k].calm
                          \/ hosts[alias[k]].edition # atStart[k].base
      BY <1>f DEF UnchangedUndisturbed
    <2>1. k # c
      BY <1>a, <1>b, <1>d
    <2>2. pc[k] = "using" /\ served'[k] = served[k]
      BY <1>b, <1>c, <2>1
    <2>3. conn[served[k]].state = "closed" /\ ~conn[served[k]].dead
      <3>1. served[k] \in Gets
        BY <2>2 DEF Inv, TypeOK, TaskHas
      <3> QED BY <1>d, <2>2, <3>1
    <2> QED BY <2>2, <2>3 DEF UnchangedUndisturbed
  <1> QED BY <1>1, <1>2, <1>3, <1>4, <1>5, <1>6, <1>7, <1>8

LEMMA GetCheckFailsOrder ==
    ASSUME Inv, Order, NEW c \in Gets, GetCheckFails(c)
    PROVE  Order'
  <1> USE TasksAssumption, DisjointAssumption DEF Tasks, Holding, Order
  <1>0. TypeFacts /\ Functions
    BY TypesGive, FunctionsGive
  <1>f. UNCHANGED <<disk, hosts, alias, todo, applied, atStart, served>>
    BY DEF GetCheckFails, histVars
  <1>a. alias[c] \in Aliases /\ Evicts(alias[c]) /\ alias[c] \notin ready
    BY EvictEvicts DEF GetCheckFails, Inv, TypeOK, TaskHas, Blank
  <1>b. /\ pc[c] = "ready" /\ pc'[c] = "abort"
        /\ \A t \in Tasks \ {c} : pc'[t] = pc[t]
    BY <1>0 DEF Functions, GetCheckFails, At
  <1>c. \A k \in Gets : pc[k] = "using" => served[k] # cached[alias[c]]
    <2> SUFFICES ASSUME NEW k \in Gets, pc[k] = "using",
                        served[k] = cached[alias[c]]
                 PROVE  FALSE
      OBVIOUS
    <2>1. served[k] \in Gets /\ served[k] # None
      BY DEF Inv, TypeOK, TaskHas
    <2>2. alias[k] = alias[c]
      BY <1>a, <2>1 DEF ServedHome, Inv, Cache, CachedIsOpen
    <2> QED BY <1>a, <2>1, <2>2 DEF ServedHome
  <1>1. Blank'
    <2>1. ready' \subseteq ready
      BY <1>a DEF Evicts
    <2> QED BY <1>0, <1>b, <1>f, <2>1 DEF TypeFacts, Blank
  <1>2. OneReload'
    BY <1>0, <1>a, <1>b, <1>c, <1>f DEF TypeFacts, Evicts, OneReload, Orderly,
         Blank
  <1>3. Editions'
    BY <1>0, <1>a, <1>b, <1>c, <1>f DEF TypeFacts, Evicts, Editions
  <1>4. Settled'
    BY <1>0, <1>a, <1>b, <1>c, <1>f DEF TypeFacts, Evicts, Settled, Orderly,
         Blank, Current, Pending
  <1>5. Noted'
    BY <1>0, <1>a, <1>b, <1>c, <1>f DEF TypeFacts, Evicts, Noted, Blank,
         Pending
  <1>6. ServedHome'
    BY <1>0, <1>a, <1>b, <1>c, <1>f DEF TypeFacts, Evicts, ServedHome, Blank
  <1>7. ReloadTakesEffect'
    BY <1>0, <1>a, <1>b, <1>c, <1>f DEF TypeFacts, Evicts, ReloadTakesEffect,
         Orderly, Blank, ServedHome
  <1>8. UnchangedUndisturbed'
    <2> SUFFICES ASSUME NEW k \in Gets, pc'[k] = "using",
                        conn'[served[k]].state = "closed",
                        ~conn'[served[k]].dead
                 PROVE  ~atStart[k].calm
                          \/ hosts[alias[k]].edition # atStart[k].base
      BY <1>f DEF UnchangedUndisturbed
    <2>1. pc[k] = "using"
      BY <1>b
    <2>2. served[k] \in Gets
      BY <2>1 DEF Inv, TypeOK, TaskHas
    <2>3. conn[served[k]].state = "closed" /\ ~conn[served[k]].dead
      BY <1>a, <1>c, <2>1, <2>2 DEF Evicts
    <2> QED BY <2>1, <2>3 DEF UnchangedUndisturbed
  <1> QED BY <1>1, <1>2, <1>3, <1>4, <1>5, <1>6, <1>7, <1>8

-----------------------------------------------------------------------------
(* A reload.                                                               *)

\* What is so once reload r has put the allowlist in force that it holds (at
\* its start) or put in force before, with the aliases in `left' to evict.
LeftBy(r, left, a) == a \in left \/ \E q \in Reloads \ {r} : a \in todo[q]
Revised(r, left) ==
    /\ left \subseteq Aliases
    /\ UNCHANGED <<disk, served>>
    /\ \A c \in Gets : atStart'[c] = atStart[c]
    /\ \A q \in Reloads \ {r} : pc[q] = "new" => atStart'[q].calm
    /\ Orderly' =>
        /\ Orderly
        /\ \A q \in Reloads \ {r} : pc[q] \in {"new", "end"}
        /\ \A a \in Aliases, k \in Gets :
            cached[a] = k \/ (pc[k] = "open" /\ alias[k] = a) =>
                \/ hosts'[a].listed /\ conn[k].host = hosts'[a].edition
                \/ LeftBy(r, left, a)
    /\ \A a \in Aliases :
        /\ hosts'[a].edition \in Nat
        /\ hosts'[a].edition <= disk[a].edition
        /\ hosts'[a].edition = disk[a].edition => hosts'[a] = disk[a]
        /\ applied[a] <= hosts'[a].edition
        /\ \A q \in Reloads : atStart'[q].goal[a] <= hosts'[a].edition
    /\ \A c \in Gets :
        alias[c] # None =>
            /\ atStart[c].base <= hosts'[alias[c]].edition
            /\ atStart[c].calm /\ LeftBy(r, left, alias[c])
                => hosts'[alias[c]].edition # atStart[c].base
            /\ hosts[alias[c]].edition # atStart[c].base
                => hosts'[alias[c]].edition # atStart[c].base

LEMMA VisitWaitsOrder ==
    ASSUME Inv, Order, NEW r \in Reloads, NEW a \in Aliases,
           NEW left, Revised(r, left), a \in left,
           pc[r] \in {"new", "next"},
           alias' = [alias EXCEPT ![r] = a],
           UNCHANGED <<poolVars, applied>>, At(r, "lock"),
           todo' = [todo EXCEPT ![r] = left]
    PROVE  Order'
  <1> USE TasksAssumption, DisjointAssumption DEF Tasks, Holding, Order
  <1>0. TypeFacts /\ Functions
    BY TypesGive, FunctionsGive
  <1>a. /\ alias'[r] = a /\ \A c \in Gets : alias'[c] = alias[c]
        /\ \A q \in Reloads \ {r} : alias'[q] = alias[q]
    BY <1>0 DEF Functions
  <1>b. /\ pc'[r] = "lock" /\ \A t \in Tasks \ {r} : pc'[t] = pc[t]
        /\ todo'[r] = left /\ \A q \in Reloads \ {r} : todo'[q] = todo[q]
        /\ UNCHANGED <<cached, ready, conn>>
    BY <1>0 DEF Functions, At, poolVars
  <1>1. Blank'
    BY <1>0, <1>a, <1>b DEF TypeFacts, Blank, Revised
  <1>2. OneReload'
    BY <1>0, <1>a, <1>b DEF TypeFacts, OneReload, Revised
  <1>3. Editions'
    BY <1>0 DEF TypeFacts, Editions, Revised
  <1>4. Settled'
    BY <1>0, <1>a, <1>b DEF TypeFacts, Settled, Current, Pending, Revised,
         LeftBy
  <1>5. Noted'
    BY <1>0, <1>a, <1>b DEF TypeFacts, Noted, Pending, Revised, LeftBy
  <1>6. ServedHome'
    BY <1>0, <1>a, <1>b DEF TypeFacts, ServedHome, Revised
  <1>7. ReloadTakesEffect'
    BY <1>0, <1>a, <1>b DEF TypeFacts, ReloadTakesEffect, Revised
  <1>8. UnchangedUndisturbed'
    <2> SUFFICES ASSUME NEW k \in Gets, pc'[k] = "using",
                        conn'[served[k]].state = "closed",
                        ~conn'[served[k]].dead
                 PROVE  ~atStart[k].calm
                          \/ hosts'[alias[k]].edition # atStart[k].base
      BY <1>a DEF UnchangedUndisturbed, Revised
    <2>1. pc[k] = "using"
      BY <1>b
    <2>2. served[k] \in Gets /\ alias[k] \in Aliases /\ alias[k] # None
      BY <2>1, TasksAssumption DEF Inv, TypeOK, TaskHas
    <2>3. conn[served[k]].state = "closed" /\ ~conn[served[k]].dead
      BY <1>b
    <2>4. ~atStart[k].calm \/ hosts[alias[k]].edition # atStart[k].base
      BY <2>1, <2>3 DEF UnchangedUndisturbed
    <2> QED BY <2>2, <2>4 DEF Revised
  <1> QED BY <1>1, <1>2, <1>3, <1>4, <1>5, <1>6, <1>7, <1>8

LEMMA VisitEvictsOrder ==
    ASSUME Inv, Order, NEW r \in Reloads, NEW a \in Aliases,
           NEW left, Revised(r, left), a \in left,
           pc[r] \in {"new", "next", "lock"}, Free(a),
           alias' = [alias EXCEPT ![r] = a],
           UNCHANGED applied, Evict(a),
           \/ At(r, "close") /\ todo' = [todo EXCEPT ![r] = left]
           \/ At(r, "next") /\ todo' = [todo EXCEPT ![r] = left \ {a}]
    PROVE  Order'
  <1> USE TasksAssumption, DisjointAssumption DEF Tasks, Holding, Order
  <1>0. TypeFacts /\ Functions
    BY TypesGive, FunctionsGive
  <1>a. /\ alias'[r] = a /\ \A c \in Gets : alias'[c] = alias[c]
        /\ \A q \in Reloads \ {r} : alias'[q] = alias[q]
    BY <1>0 DEF Functions
  <1>b. /\ pc'[r] \in {"close", "next"}
        /\ \A t \in Tasks \ {r} : pc'[t] = pc[t]
        /\ \A q \in Reloads \ {r} : todo'[q] = todo[q]
        /\ pc'[r] = "close" => a \in todo'[r]
        /\ todo'[r] \subseteq left /\ left \ {a} \subseteq todo'[r]
    BY <1>0 DEF Functions, At
  <1>c. Evicts(a)
    BY EvictEvicts
  <1>d. \A k \in Gets : pc[k] = "open" => alias[k] # a
    BY TasksAssumption DEF Free, Inv, Cache, LockOwned
  <1>1. Blank'
    BY <1>0, <1>a, <1>b, <1>c DEF TypeFacts, Blank, Revised, Evicts
  <1>2. OneReload'
    BY <1>0, <1>a, <1>b, <1>c, <1>d DEF TypeFacts, OneReload, Revised
  <1>3. Editions'
    BY <1>0 DEF TypeFacts, Editions, Revised
  <1>4. Settled'
    BY <1>0, <1>a, <1>b, <1>c, <1>d DEF TypeFacts, Settled, Current, Pending,
         Revised, LeftBy, Evicts
  <1>5. Noted'
    BY <1>0, <1>a, <1>b, <1>c, <1>d DEF TypeFacts, Noted, Pending, Revised,
         LeftBy
  <1>6. ServedHome'
    BY <1>0, <1>a, <1>b, <1>c DEF TypeFacts, ServedHome, Revised, Evicts
  <1>7. ReloadTakesEffect'
    BY <1>0, <1>a, <1>b, <1>c DEF TypeFacts, ReloadTakesEffect, Revised,
         Evicts
  <1>8. UnchangedUndisturbed'
    <2> SUFFICES ASSUME NEW k \in Gets, pc'[k] = "using",
                        conn'[served[k]].state = "closed",
                        ~conn'[served[k]].dead
                 PROVE  ~atStart[k].calm
                          \/ hosts'[alias[k]].edition # atStart[k].base
      BY <1>a DEF UnchangedUndisturbed, Revised
    <2>1. pc[k] = "using"
      BY <1>b
    <2>2. served[k] \in Gets /\ alias[k] \in Aliases /\ alias[k] # None
      BY <2>1, TasksAssumption DEF Inv, TypeOK, TaskHas
    <2>3. CASE served[k] = cached[a]
      <3>1. alias[k] = a
        BY <2>2, <2>3, TasksAssumption DEF ServedHome, Inv, Cache, CachedIsOpen
      <3> QED BY <2>2, <3>1 DEF Revised, LeftBy
    <2>4. CASE served[k] # cached[a]
      <3>1. conn[served[k]].state = "closed" /\ ~conn[served[k]].dead
        BY <1>c, <2>2, <2>4 DEF Evicts
      <3>2. ~atStart[k].calm \/ hosts[alias[k]].edition # atStart[k].base
        BY <2>1, <3>1 DEF UnchangedUndisturbed
      <3> QED BY <2>2, <3>2 DEF Revised
    <2> QED BY <2>3, <2>4
  <1> QED BY <1>1, <1>2, <1>3, <1>4, <1>5, <1>6, <1>7, <1>8

LEMMA EndsOrder ==
    ASSUME Inv, Order, NEW r \in Reloads, NEW goal \in [Aliases -> Nat],
           Revised(r, {}), ReloadEnds(r, goal), todo[r] = {},
           \A a \in Aliases : goal[a] <= hosts'[a].edition
    PROVE  Order'
  <1> USE TasksAssumption, DisjointAssumption DEF Tasks, Holding, Order
  <1>0. TypeFacts /\ Functions
    BY TypesGive, FunctionsGive
  <1>b. /\ pc'[r] = "end" /\ \A t \in Tasks \ {r} : pc'[t] = pc[t]
        /\ UNCHANGED <<cached, ready, conn, alias, todo>>
    BY <1>0 DEF Functions, ReloadEnds, At, poolVars
  <1>c. \A a \in Aliases : /\ applied'[a] \in {applied[a], goal[a]}
                           /\ applied[a] <= applied'[a] /\ applied'[a] \in Nat
    BY <1>0 DEF TypeFacts, ReloadEnds, Larger
  <1>d. Orderly' => \A a \in Aliases : ~LeftBy(r, {}, a)
    BY DEF Blank, Revised, LeftBy
  <1>1. Blank'
    BY <1>0, <1>b, <1>c DEF TypeFacts, Blank, Revised
  <1>2. OneReload'
    BY <1>0, <1>b, <1>c DEF TypeFacts, OneReload, Revised
  <1>3. Editions'
    BY <1>0, <1>b, <1>c DEF TypeFacts, Editions, Revised
  <1>4. Settled'
    <2> SUFFICES ASSUME Orderly', NEW a \in Aliases, NEW k \in Gets,
                        cached[a] = k \/ (pc[k] = "open" /\ alias[k] = a)
                 PROVE  /\ (Current(k, a) \/ Pending(a))'
                        /\ conn[k].host >= applied'[a]
      BY <1>b DEF Settled
    <2>1. hosts'[a].listed /\ conn[k].host = hosts'[a].edition
      BY <1>d DEF Revised
    <2>2. applied'[a] <= hosts'[a].edition
      BY <1>c DEF Revised
    <2>3. conn[k].host \in Nat /\ applied'[a] \in Nat
      BY <1>0, <1>c DEF TypeFacts
    <2> QED BY <1>b, <2>1, <2>2, <2>3 DEF Current
  <1>5. Noted'
    BY <1>0, <1>b, <1>c DEF TypeFacts, Noted, Pending, Revised, LeftBy
  <1>6. ServedHome'
    BY <1>0, <1>b, <1>c DEF TypeFacts, ServedHome, Revised
  <1>7. ReloadTakesEffect'
    BY <1>0, <1>b, <1>c DEF TypeFacts, ReloadTakesEffect, Revised
  <1>8. UnchangedUndisturbed'
    <2> SUFFICES ASSUME NEW k \in Gets, pc'[k] = "using",
                        conn'[served[k]].state = "closed",
                        ~conn'[served[k]].dead
                 PROVE  ~atStart[k].calm
                          \/ hosts'[alias[k]].edition # atStart[k].base
      BY <1>b DEF UnchangedUndisturbed, Revised
    <2>1. pc[k] = "using"
      BY <1>b
    <2>2. served[k] \in Gets /\ alias[k] \in Aliases /\ alias[k] # None
      BY <2>1, TasksAssumption DEF Inv, TypeOK, TaskHas
    <2>3. conn[served[k]].state = "closed" /\ ~conn[served[k]].dead
      BY <1>b
    <2>4. ~atStart[k].calm \/ hosts[alias[k]].edition # atStart[k].base
      BY <2>1, <2>3 DEF UnchangedUndisturbed
    <2> QED BY <2>2, <2>4 DEF Revised
  <1> QED BY <1>1, <1>2, <1>3, <1>4, <1>5, <1>6, <1>7, <1>8

\* Reload r goes on under the allowlist that it found.
LEMMA GoesOn ==
    ASSUME Inv, Order, NEW r \in Reloads, pc[r] \notin {"new", "end"},
           UNCHANGED <<disk, hosts, served, atStart>>
    PROVE  Revised(r, todo[r])
  <1> USE DisjointAssumption DEF Tasks, Order
  <1>0. TypeFacts
    BY TypesGive
  <1>1. \A a \in Aliases : LeftBy(r, todo[r], a) <=> Pending(a)
    BY DEF LeftBy, Pending
  <1>2. Orderly' => /\ Orderly
                    /\ \A q \in Reloads \ {r} : pc[q] \in {"new", "end"}
    BY DEF Orderly, OneReload
  <1>3. Orderly =>
          \A a \in Aliases, k \in Gets :
            cached[a] = k \/ (pc[k] = "open" /\ alias[k] = a) =>
                \/ hosts[a].listed /\ conn[k].host = hosts[a].edition
                \/ LeftBy(r, todo[r], a)
    BY <1>1 DEF Settled, Current
  <1>4. \A a \in Aliases :
          /\ hosts[a].edition <= disk[a].edition
          /\ hosts[a].edition = disk[a].edition => hosts[a] = disk[a]
          /\ applied[a] <= hosts[a].edition
          /\ \A q \in Reloads : atStart[q].goal[a] <= hosts[a].edition
    BY DEF Editions
  <1>5. \A c \in Gets :
          alias[c] # None =>
            /\ atStart[c].base <= hosts[alias[c]].edition
            /\ atStart[c].calm /\ LeftBy(r, todo[r], alias[c])
                => hosts[alias[c]].edition # atStart[c].base
    BY <1>0, <1>1 DEF TypeFacts, Noted
  <1>6. \A q \in Reloads : pc[q] = "new" => atStart[q].calm
    BY DEF Blank
  <1> QED BY <1>0, <1>2, <1>3, <1>4, <1>5, <1>6 DEF TypeFacts, Revised

\* Reload r starts: what changed is what it has to evict.
LEMMA SwapRevises ==
    ASSUME Inv, Order, NEW r \in Reloads, ReloadStart(r)
    PROVE  Revised(r, Changed)
  <1> USE DisjointAssumption DEF Tasks, Order
  <1>0. TypeFacts /\ Functions
    BY TypesGive, FunctionsGive
  <1> DEFINE goal == [a \in Aliases |-> disk[a].edition]
             x == \A q \in Reloads : pc[q] \in {"new", "end"}
             h == [NoHistory EXCEPT !.goal = goal, !.calm = x]
  <1>1. /\ atStart' = [atStart EXCEPT ![r] = h] /\ pc[r] = "new"
        /\ hosts' = disk /\ UNCHANGED <<disk, served>>
    BY DEF ReloadStart, fileVars
  <1>2. h.goal = goal /\ h.calm = x
    BY DEF NoHistory
  <1>3. \A a \in Aliases : goal[a] = disk[a].edition
    OBVIOUS
  <1>4. /\ \A t \in Tasks \ {r} : atStart'[t] = atStart[t]
        /\ atStart'[r].goal = goal /\ atStart'[r].calm = x
    <2> HIDE DEF goal, x, h
    <2> QED BY <1>0, <1>1, <1>2 DEF Functions
  <1>5. Orderly' => Orderly /\ \A q \in Reloads : pc[q] \in {"new", "end"}
    <2>1. Orderly' => x
      BY <1>4 DEF Orderly
    <2>2. Orderly' => \A q \in Reloads \ {r} : atStart[q].calm
      BY <1>4 DEF Orderly
    <2>3. atStart[r].calm
      BY <1>1 DEF Blank
    <2> QED BY <2>1, <2>2, <2>3 DEF Orderly
  <1>6. \A a \in Aliases : disk[a].edition # hosts[a].edition => disk[a] # hosts[a]
    OBVIOUS
  <1>7. \A a \in Aliases :
          a \notin Changed /\ hosts[a].listed => disk[a] = hosts[a]
    BY DEF Changed
  <1>8. \A a \in Aliases : LeftBy(r, Changed, a) => a \in Changed \/ Pending(a)
    BY DEF LeftBy, Pending
  <1> HIDE DEF goal, x, h
  <1>9. ASSUME Orderly', NEW a \in Aliases, NEW k \in Gets,
               cached[a] = k \/ (pc[k] = "open" /\ alias[k] = a)
        PROVE  \/ disk[a].listed /\ conn[k].host = disk[a].edition
               \/ LeftBy(r, Changed, a)
    <2>1. ~Pending(a)
      BY <1>5, <1>9 DEF Blank, Pending
    <2>2. hosts[a].listed /\ conn[k].host = hosts[a].edition
      BY <1>5, <1>9, <2>1 DEF Settled, Current
    <2> QED BY <1>7, <2>2 DEF LeftBy
  <1>10. \A a \in Aliases :
          /\ applied[a] <= disk[a].edition
          /\ \A q \in Reloads : atStart'[q].goal[a] <= disk[a].edition
    <2>1. \A a \in Aliases : applied[a] <= disk[a].edition
      BY <1>0 DEF TypeFacts, Editions
    <2>2. ASSUME NEW a \in Aliases, NEW q \in Reloads
          PROVE  atStart'[q].goal[a] <= disk[a].edition
      <3>1. CASE q = r
        BY <1>0, <1>3, <1>4, <3>1 DEF TypeFacts
      <3>2. CASE q # r
        BY <1>0, <1>4, <3>2 DEF TypeFacts, Editions
      <3> QED BY <3>1, <3>2
    <2> QED BY <2>1, <2>2
  <1>11. ASSUME NEW c \in Gets, alias[c] # None
         PROVE  /\ atStart[c].base <= disk[alias[c]].edition
                /\ atStart[c].calm /\ LeftBy(r, Changed, alias[c])
                    => disk[alias[c]].edition # atStart[c].base
                /\ hosts[alias[c]].edition # atStart[c].base
                    => disk[alias[c]].edition # atStart[c].base
    <2> DEFINE a == alias[c]
    <2>1. /\ a \in Aliases /\ atStart[c].base \in Nat
          /\ hosts[a].edition \in Nat /\ disk[a].edition \in Nat
      BY <1>0, <1>11 DEF TypeFacts
    <2>2. /\ atStart[c].base <= hosts[a].edition
          /\ atStart[c].calm /\ Pending(a) => hosts[a].edition # atStart[c].base
      BY <1>11 DEF Noted
    <2>3. hosts[a].edition <= disk[a].edition
      BY <2>1 DEF Editions
    <2>4. a \in Changed => hosts[a].edition # disk[a].edition
      BY <2>1 DEF Changed, Editions
    <2> HIDE DEF a
    <2>5. atStart[c].calm /\ LeftBy(r, Changed, a)
            => disk[a].edition # atStart[c].base
      BY <1>8, <2>1, <2>2, <2>3, <2>4
    <2>6. /\ atStart[c].base <= disk[a].edition
          /\ hosts[a].edition # atStart[c].base
               => disk[a].edition # atStart[c].base
      BY <2>1, <2>2, <2>3
    <2> QED BY <2>5, <2>6 DEF a
  <1>12. /\ Changed \subseteq Aliases
         /\ \A c \in Gets : atStart'[c] = atStart[c]
         /\ \A q \in Reloads \ {r} : pc[q] = "new" => atStart'[q].calm
    BY <1>4 DEF Changed, Blank
  <1> QED BY <1>0, <1>1, <1>5, <1>9, <1>10, <1>11, <1>12 DEF TypeFacts, Revised

LEMMA VisitOrder ==
    ASSUME Inv, Order, NEW r \in Reloads, NEW a \in Aliases, NEW left,
           Revised(r, left), a \in left, pc[r] \in {"new", "next"},
           alias' = [alias EXCEPT ![r] = a], UNCHANGED applied,
           Visit(r, a, left)
    PROVE  Order'
  <1>1. CASE /\ UNCHANGED poolVars /\ At(r, "lock")
             /\ todo' = [todo EXCEPT ![r] = left]
    BY <1>1, VisitWaitsOrder
  <1>2. CASE /\ ~Contended(a) /\ Evict(a)
             /\ \/ At(r, "close") /\ todo' = [todo EXCEPT ![r] = left]
                \/ At(r, "next") /\ todo' = [todo EXCEPT ![r] = left \ {a}]
    BY <1>2, VisitEvictsOrder DEF Contended
  <1> QED BY <1>1, <1>2 DEF Visit

LEMMA ReloadStartOrder ==
    ASSUME Inv, Order, NEW r \in Reloads, ReloadStart(r)
    PROVE  Order'
  <1>0. TypeFacts /\ Revised(r, Changed)
    BY TypesGive, SwapRevises
  <1>1. CASE Changed = {} /\ ReloadEnds(r, [a \in Aliases |-> disk[a].edition])
    <2> DEFINE goal == [a \in Aliases |-> disk[a].edition]
    <2>1. /\ goal \in [Aliases -> Nat]
          /\ \A a \in Aliases : goal[a] <= hosts'[a].edition
      BY <1>0 DEF TypeFacts, ReloadStart
    <2>2. todo[r] = {}
      BY DEF ReloadStart, Order, Blank
    <2> HIDE DEF goal
    <2> QED BY <1>0, <1>1, <2>1, <2>2, EndsOrder DEF goal
  <1>2. ASSUME NEW a \in Changed, alias' = [alias EXCEPT ![r] = a],
               Visit(r, a, Changed), UNCHANGED applied
        PROVE  Order'
    BY <1>0, <1>2, VisitOrder DEF ReloadStart, Changed
  <1> QED BY <1>1, <1>2 DEF ReloadStart

LEMMA ReloadNextOrder ==
    ASSUME Inv, Order, NEW r \in Reloads, ReloadNext(r)
    PROVE  Order'
  <1>0. TypeFacts /\ Revised(r, todo[r])
    BY TypesGive, GoesOn DEF ReloadNext, fileVars
  <1>1. CASE todo[r] = {} /\ ReloadEnds(r, atStart[r].goal)
    <2>1. atStart[r].goal \in [Aliases -> Nat]
      BY DEF Inv, TypeOK, TaskTypeOK, History, Tasks
    <2>2. \A a \in Aliases : atStart[r].goal[a] <= hosts'[a].edition
      BY DEF ReloadNext, Order, Editions
    <2> QED BY <1>0, <1>1, <2>1, <2>2, EndsOrder
  <1>2. ASSUME NEW a \in todo[r], alias' = [alias EXCEPT ![r] = a],
               Visit(r, a, todo[r]), UNCHANGED applied
        PROVE  Order'
    BY <1>0, <1>2, VisitOrder DEF TypeFacts, ReloadNext
  <1> QED BY <1>1, <1>2 DEF ReloadNext

LEMMA ReloadLockedOrder ==
    ASSUME Inv, Order, NEW r \in Reloads, ReloadLocked(r)
    PROVE  Order'
  <1>0. Functions /\ Revised(r, todo[r])
    BY FunctionsGive, GoesOn DEF ReloadLocked, fileVars, histVars
  <1>1. alias[r] \in Aliases /\ alias[r] \in todo[r]
    BY DEF ReloadLocked, Inv, TypeOK, TaskHas, Tasks, Order, Blank
  <1>2. /\ alias' = [alias EXCEPT ![r] = alias[r]]
        /\ todo = [todo EXCEPT ![r] = todo[r]]
    BY <1>0 DEF Functions, ReloadLocked
  <1>3. \/ At(r, "close") /\ todo' = [todo EXCEPT ![r] = todo[r]]
        \/ At(r, "next") /\ todo' = [todo EXCEPT ![r] = todo[r] \ {alias[r]}]
    BY <1>2 DEF ReloadLocked
  <1> QED BY <1>0, <1>1, <1>2, <1>3, VisitEvictsOrder DEF ReloadLocked, histVars

-----------------------------------------------------------------------------
(* The theorems about reloads.                                             *)

LEMMA InitOrder == Init => Order
  <1> SUFFICES ASSUME Init PROVE Order
    OBVIOUS
  <1>1. Blank /\ OneReload
    BY DEF Init, Blank, OneReload, NoHistory, Tasks
  <1>2. Editions
    BY DEF Init, Editions, NoHistory, Tasks
  <1>3. Settled /\ Noted /\ ServedHome
    BY TasksAssumption DEF Init, Settled, Noted, ServedHome, Tasks
  <1>4. ReloadTakesEffect /\ UnchangedUndisturbed
    BY DEF Init, ReloadTakesEffect, UnchangedUndisturbed, Tasks
  <1> QED BY <1>1, <1>2, <1>3, <1>4 DEF Order

LEMMA ResumeOrder ==
    ASSUME Inv, Order, NEW t \in Tasks, Resume(t)
    PROVE  Order'
  <1>1. CASE t \in Gets /\ ( \/ GetLocked(t) \/ GetEvicted(t) \/ GetOpened(t)
                             \/ GetChecked(t) \/ GetOpenFails(t)
                             \/ GetCheckFails(t) \/ GetAborted(t)
                             \/ UseDone(t) \/ UseFails(t) )
    BY <1>1, GetLockedOrder, GetEvictedOrder, GetOpenedOrder, GetCheckedOrder,
       GetOpenFailsOrder, GetCheckFailsOrder, GetAbortedOrder, UseDoneOrder,
       UseFailsOrder
  <1>2. CASE t \in Reloads
               /\ (ReloadNext(t) \/ ReloadLocked(t) \/ ReloadClosed(t))
    BY <1>2, ReloadNextOrder, ReloadLockedOrder, ReloadClosedOrder
  <1> QED BY <1>1, <1>2 DEF Resume

LEMMA StutterOrder == ASSUME Order, UNCHANGED vars PROVE Order'
  <1> USE DEF vars, fileVars, poolVars, mainVars, taskVars, histVars
  <1>1. (Blank /\ OneReload /\ Editions)'
    BY DEF Order, Blank, OneReload, Orderly, Editions
  <1>2. (Settled /\ Noted /\ ServedHome)'
    BY DEF Order, Settled, Orderly, Current, Pending, Noted, ServedHome
  <1>3. (ReloadTakesEffect /\ UnchangedUndisturbed)'
    BY DEF Order, ReloadTakesEffect, Orderly, UnchangedUndisturbed
  <1> QED BY <1>1, <1>2, <1>3 DEF Order

LEMMA OrderNext == Inv /\ Order /\ [Next]_vars => Order'
  <1> SUFFICES ASSUME Inv, Order, [Next]_vars PROVE Order'
    OBVIOUS
  <1>1. ASSUME NEW c \in Gets, GetRejected(c) \/ GetWaits(c) \/ GetEnters(c)
        PROVE  Order'
    BY <1>1, GetRejectedOrder, GetWaitsOrder, GetEntersOrder
  <1>2. ASSUME NEW r \in Reloads, ReloadStart(r) \/ ReloadMalformed(r)
        PROVE  Order'
    BY <1>2, ReloadStartOrder, ReloadMalformedOrder
  <1>3. ASSUME NEW t \in Tasks, Resume(t) \/ Cancel(t)
        PROVE  Order'
    BY <1>3, ResumeOrder, CancelOrder
  <1>4. ASSUME NEW a \in Aliases, Edit(a)
        PROVE  Order'
    BY <1>4, EditOrder
  <1>5. ASSUME NEW k \in Gets, Break(k)
        PROVE  Order'
    BY <1>5, BreakOrder
  <1>6. CASE Tick
    BY <1>6, TickOrder
  <1>7. CASE CloseAll
    BY <1>7, CloseAllOrder
  <1>8. CASE UNCHANGED vars
    BY <1>8, StutterOrder
  <1> QED BY <1>1, <1>2, <1>3, <1>4, <1>5, <1>6, <1>7, <1>8 DEF Next

LEMMA OrderHolds == Spec => [](Inv /\ Order)
  <1>1. Inv /\ Order /\ [Next]_vars => Inv' /\ Order'
    BY InvNext, OrderNext
  <1>2. Init => Inv /\ Order
    BY InitInv, InitOrder
  <1> QED BY <1>1, <1>2, PTL DEF Spec

\* While reloads are orderly, a cached connection has the parameters of the
\* allowlist or waits to be evicted, also when it was being opened as the
\* allowlist was swapped (ssh.py:246-260, 272-282).
THEOREM CacheFollows == Spec => []CachedIsCurrent
  <1>1. Inv /\ Order => CachedIsCurrent
    BY TypesGive DEF TypeFacts, Order, Settled, Current, Pending, CachedIsCurrent
  <1> QED BY <1>1, OrderHolds, PTL

\* A call that starts after an orderly hosts() returned never gets a connection
\* older than the hosts.toml which that hosts() read (ssh.py:239-260).
THEOREM ReloadSeen == Spec => []ReloadTakesEffect
  <1>1. Inv /\ Order => ReloadTakesEffect
    BY DEF Order
  <1> QED BY <1>1, OrderHolds, PTL

\* However reloads overlap or are cancelled, none closes the connection of a
\* call whose alias stays as it was since the call began (ssh.py:246-260).
THEOREM OthersUndisturbed == Spec => []UnchangedUndisturbed
  <1>1. Inv /\ Order => UnchangedUndisturbed
    BY DEF Order
  <1> QED BY <1>1, OrderHolds, PTL
=============================================================================
