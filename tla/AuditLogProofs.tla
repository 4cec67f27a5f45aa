---------------------------- MODULE AuditLogProofs ----------------------------
(***************************************************************************)
(* Theorems about AuditLog, for every set of records, every bound and      *)
(* every choice of faults: nothing is written twice, what was recorded is  *)
(* there, and without a cancellation the lines stand in the order of the   *)
(* calls.                                                                  *)
(***************************************************************************)
EXTENDS AuditLog, SequenceTheorems, TLAPS

-----------------------------------------------------------------------------
(* Sequences.                                                              *)

\* The queue without its i-th waiter.
LEMMA Removed ==
    ASSUME NEW S, NEW s \in Seq(S), NEW i \in DOMAIN s
    PROVE  /\ RemoveAt(s, i) \in Seq(S)
           /\ Len(RemoveAt(s, i)) = Len(s) - 1
           /\ \A j \in DOMAIN RemoveAt(s, i) :
                RemoveAt(s, i)[j] = IF j < i THEN s[j] ELSE s[j + 1]
<1> DEFINE a == SubSeq(s, 1, i - 1)
           b == SubSeq(s, i + 1, Len(s))
<1>0. /\ i \in 1..Len(s) /\ Len(s) \in Nat
      /\ \A j \in 1..Len(s) : s[j] \in S
  OBVIOUS
<1>1. /\ a \in Seq(S) /\ Len(a) = i - 1
      /\ \A j \in 1..(i - 1) : a[j] = s[j]
  <2>1. \A j \in 1..(i - 1) : s[j] \in S
    BY <1>0
  <2> HIDE DEF a
  <2>2. /\ a \in Seq(S)
        /\ Len(a) = IF 1 <= i - 1 THEN (i - 1) - 1 + 1 ELSE 0
        /\ \A j \in 1..((i - 1) - 1 + 1) : a[j] = s[1 + j - 1]
    BY <1>0, <2>1, SubSeqProperties DEF a
  <2> QED  BY <1>0, <2>2
<1>2. /\ b \in Seq(S) /\ Len(b) = Len(s) - i
      /\ \A j \in 1..(Len(s) - i) : b[j] = s[i + j]
  <2>1. \A j \in (i + 1)..Len(s) : s[j] \in S
    BY <1>0
  <2> HIDE DEF b
  <2>2. /\ b \in Seq(S)
        /\ Len(b) = IF i + 1 <= Len(s) THEN Len(s) - (i + 1) + 1 ELSE 0
        /\ \A j \in 1..(Len(s) - (i + 1) + 1) : b[j] = s[i + 1 + j - 1]
    BY <1>0, <2>1, SubSeqProperties DEF b
  <2> QED  BY <1>0, <2>2
<1>3. RemoveAt(s, i) = a \o b
  BY DEF RemoveAt
<1> HIDE DEF a, b
<1>4. /\ a \o b \in Seq(S)
      /\ Len(a \o b) = Len(a) + Len(b)
      /\ \A j \in 1..Len(a) + Len(b) :
            (a \o b)[j] = IF j <= Len(a) THEN a[j] ELSE b[j - Len(a)]
  BY <1>1, <1>2, ConcatProperties
<1>5. Len(a \o b) = Len(s) - 1
  BY <1>0, <1>1, <1>2, <1>4
<1>6. ASSUME NEW j \in 1..(Len(s) - 1)
      PROVE  (a \o b)[j] = IF j < i THEN s[j] ELSE s[j + 1]
  <2>0. /\ j \in Nat /\ i \in Nat /\ 1 <= j /\ 1 <= i /\ j <= Len(s) - 1
        /\ Len(a) = i - 1 /\ Len(b) = Len(s) - i /\ Len(s) \in Nat
    BY <1>0, <1>1, <1>2
  <2>1. CASE j < i
    <3>1. j \in 1..(Len(a) + Len(b)) /\ j <= Len(a) /\ j \in 1..(i - 1)
      BY <2>0, <2>1
    <3> QED  BY <1>1, <1>4, <2>1, <3>1
  <2>2. CASE ~(j < i)
    <3>1. j >= i
      BY <2>0, <2>2
    <3>2. j - (i - 1) \in 1..(Len(s) - i) /\ i + (j - (i - 1)) = j + 1
      BY <2>0, <3>1
    <3>3. ~(j <= Len(a)) /\ j \in 1..(Len(a) + Len(b))
      BY <2>0, <3>1
    <3>4. (a \o b)[j] = b[j - (i - 1)]
      BY <1>1, <1>4, <3>3
    <3> QED  BY <1>2, <2>2, <3>2, <3>4
  <2> QED  BY <2>1, <2>2
<1>7. DOMAIN RemoveAt(s, i) = 1..(Len(s) - 1)
  BY <1>3, <1>4, <1>5
<1> QED  BY <1>3, <1>4, <1>5, <1>6, <1>7

-----------------------------------------------------------------------------
(* The lock, its queue and the threads.                                    *)

\* What TypeOK says of the data.
DataTyped ==
    /\ today \in Days /\ serving \in BOOLEAN /\ faults \in 0..MaxFaults
    /\ file \in Records \cup {None}
    /\ handle \in [Records -> [day : Days, open : BOOLEAN]]
    /\ buffer \in [Records -> Seq(Records)]
    /\ stamp \in [Records -> Days] /\ target \in [Records -> Days]
    /\ lines \in [Days -> Seq(Records)] /\ swept \in Days
    /\ begun \in Seq(Records)

\* What it says of who waits for the lock and who holds it.
LockTyped ==
    /\ lock \in Records \cup {None} /\ queue \in Seq(Records)
    /\ pc \in [Records -> PCs] /\ thread \in [Records -> Threads]
    /\ \A r \in Records : (lock = r) <=> (pc[r] = "thread")
    /\ \A r \in Records : (pc[r] = "lock") <=> \E i \in DOMAIN queue : queue[i] = r

\* A waiter is in the queue once.
QueueOnce == \A i, j \in DOMAIN queue : queue[i] = queue[j] => i = j

\* A thread is that of a coroutine that holds the lock or was cancelled.
ThreadHasCoroutine ==
    \A r \in Records :
        /\ pc[r] = "thread" => thread[r] # "none"
        /\ thread[r] # "none" => pc[r] \in {"thread", "cancelled"}

Typing == DataTyped /\ LockTyped /\ QueueOnce /\ ThreadHasCoroutine

LEMMA TypingIsTypeOK == Typing => TypeOK
BY DEF Typing, DataTyped, LockTyped, TypeOK

LEMMA InitTyping == Init => Typing
<1> SUFFICES ASSUME Init PROVE Typing
  OBVIOUS
<1>1. 0 \in Days /\ <<>> \in Seq(Records) /\ DOMAIN <<>> = {}
  BY NumbersAssumption DEF Days
<1>2. DataTyped
  BY NumbersAssumption, <1>1 DEF Init, DataTyped
<1>3. LockTyped /\ QueueOnce /\ ThreadHasCoroutine
  BY RecordsAssumption, <1>1
     DEF Init, LockTyped, QueueOnce, ThreadHasCoroutine, PCs, Threads, Running,
         Records
<1> QED  BY <1>2, <1>3 DEF Typing

LEMMA FlushesTyped ==
    ASSUME Typing, NEW h \in Records, Flushes(h)
    PROVE  /\ lines' \in [Days -> Seq(Records)]
           /\ buffer' \in [Records -> Seq(Records)]
           /\ swept' = swept
<1>1. \A d \in Days : lines[d] \o buffer[h] \in Seq(Records)
  BY DEF Typing, DataTyped
<1>2. <<>> \in Seq(Records)
  OBVIOUS
<1> QED  BY <1>1, <1>2 DEF Typing, DataTyped, Flushes

\* Every step keeps the data typed.
LEMMA DataStep ==
    ASSUME Typing, Next
    PROVE  DataTyped'
<1> USE DEF Typing, DataTyped, envVars, lockVars, fileVars, taskVars, diskVars
<1>1. ASSUME NEW r \in Records,
             RecordEnters(r) \/ RecordWaits(r)
      PROVE  DataTyped'
  <2>1. stamp' = [stamp EXCEPT ![r] = today] /\ begun' = Append(begun, r)
    BY <1>1 DEF RecordEnters, RecordWaits, Stamp
  <2>2. begun' \in Seq(Records)
    BY <2>1
  <2> QED  BY <1>1, <2>1, <2>2 DEF RecordEnters, RecordWaits, Stamp
<1>2. ASSUME NEW r \in Records,
             RecordLocked(r) \/ RecordEnds(r) \/ ThreadFindsNoFile(r)
      PROVE  DataTyped'
  BY <1>2 DEF RecordLocked, RecordEnds, ThreadFindsNoFile
<1>3. ASSUME NEW f, Strikes(f)
      PROVE  faults' \in 0..MaxFaults
  BY NumbersAssumption, <1>3 DEF Strikes
<1>4. ASSUME NEW r \in Records,
             Cancel(r) \/ ThreadOpenFails(r) \/ ThreadFlushFails(r)
      PROVE  DataTyped'
  BY <1>3, <1>4 DEF Cancel, Cancelled, ThreadOpenFails, ThreadFlushFails
<1>5. ASSUME NEW r \in Records, ThreadChecks(r)
      PROVE  DataTyped'
  BY <1>5 DEF ThreadChecks
<1>6. ASSUME NEW r \in Records, ThreadCloses(r)
      PROVE  DataTyped'
  <2>1. CASE Usable /\ Closes(file) /\ UNCHANGED faults
    BY <1>6, <2>1, FlushesTyped DEF ThreadCloses, Usable, Closes
  <2>2. CASE Usable /\ ClosesDirty(file) /\ Strikes("full")
    <3>1. <<>> \in Seq(Records)
      OBVIOUS
    <3> QED  BY <1>3, <1>6, <2>2, <3>1 DEF ThreadCloses, Usable, ClosesDirty
  <2>3. CASE UNCHANGED <<faults, handle, buffer, diskVars>>
    BY <1>6, <2>3 DEF ThreadCloses
  <2> QED  BY <1>6, <2>1, <2>2, <2>3 DEF ThreadCloses
<1>7. ASSUME NEW r \in Records, ThreadOpens(r)
      PROVE  DataTyped'
  <2> DEFINE opened == [day |-> target[r], open |-> TRUE]
  <2>0. opened \in [day : Days, open : BOOLEAN]
    OBVIOUS
  <2>1. target' \in [Records -> Days]
    <3>1. 0 \in Days
      BY NumbersAssumption DEF Days
    <3> QED  BY <1>7, <3>1 DEF ThreadOpens
  <2>2. CASE Usable
    <3>1. /\ handle' = [handle EXCEPT ![file].open = FALSE, ![r] = opened]
          /\ Flushes(file) /\ file \in Records
      BY <1>7, <2>2 DEF ThreadOpens, Usable
    <3>2. handle' \in [Records -> [day : Days, open : BOOLEAN]]
      BY <2>0, <3>1
    <3> QED  BY <1>7, <2>1, <3>1, <3>2, FlushesTyped DEF ThreadOpens
  <2>3. CASE ~Usable
    <3>1. handle' = [handle EXCEPT ![r] = opened]
      BY <1>7, <2>3 DEF ThreadOpens
    <3>2. handle' \in [Records -> [day : Days, open : BOOLEAN]]
      BY <2>0, <3>1
    <3> QED  BY <1>7, <2>1, <2>3, <3>2 DEF ThreadOpens
  <2> QED  BY <2>2, <2>3
<1>8. ASSUME NEW r \in Records, ThreadWrites(r)
      PROVE  DataTyped'
  <2>1. Append(buffer[file], r) \in Seq(Records) /\ file \in Records
    BY <1>8 DEF ThreadWrites, Usable
  <2> QED  BY <1>8, <2>1 DEF ThreadWrites
<1>9. ASSUME NEW r \in Records, ThreadFlushes(r)
      PROVE  DataTyped'
  BY <1>9, FlushesTyped DEF ThreadFlushes, Usable
<1>10. CASE CloseLog
  <2>1. CASE Usable
    <3>1. /\ file \in Records /\ Flushes(file)
          /\ handle' = [handle EXCEPT ![file].open = FALSE]
      BY <1>10, <2>1 DEF CloseLog, Usable, Closes
    <3>2. handle' \in [Records -> [day : Days, open : BOOLEAN]]
      BY <3>1
    <3> QED  BY <1>10, <3>1, <3>2, FlushesTyped DEF CloseLog
  <2>2. CASE ~Usable
    BY <1>10, <2>2 DEF CloseLog
  <2> QED  BY <2>1, <2>2
<1>11. ASSUME NewProcess
       PROVE  /\ serving' \in BOOLEAN /\ file' \in Records \cup {None}
              /\ handle' \in [Records -> [day : Days, open : BOOLEAN]]
              /\ buffer' \in [Records -> Seq(Records)]
              /\ swept' \in Days
              /\ UNCHANGED <<today, stamp, target, lines, begun>>
  <2>1. <<>> \in Seq(Records)
    OBVIOUS
  <2>2. swept' \in Days
    BY NumbersAssumption, <1>11 DEF NewProcess, Sweep, Days
  <2> QED  BY <1>11, <2>1, <2>2 DEF NewProcess
<1>12. CASE Crash \/ Restart
  BY <1>3, <1>11, <1>12 DEF Crash, Restart
<1>13. CASE Midnight
  BY NumbersAssumption, <1>13 DEF Midnight, Days
<1> QED  BY <1>1, <1>2, <1>4, <1>5, <1>6, <1>7, <1>8, <1>9, <1>10, <1>12,
            <1>13 DEF Next, Step

\* A thread that goes on leaves the lock and the coroutines as they are.
LEMMA ThreadMoves ==
    ASSUME Typing, NEW r \in Records, NEW s \in Threads \ {"none"},
           thread[r] \in Running, Does(r, s), UNCHANGED <<lock, queue, pc>>
    PROVE  LockTyped' /\ QueueOnce' /\ ThreadHasCoroutine'
BY DEF Typing, LockTyped, QueueOnce, ThreadHasCoroutine, Does, Running, Threads

\* A thread that is over has a result.
LEMMA ResultTyped ==
    ASSUME Typing, NEW r \in Records, pc[r] = "thread", thread[r] \notin Running
    PROVE  Result(r) \in {"done", "failed", "broken"}
BY DEF Typing, LockTyped, ThreadHasCoroutine, Result, Threads

\* Every step keeps the queue, its lock and their threads in agreement.
LEMMA LockStep ==
    ASSUME Typing, Next
    PROVE  LockTyped' /\ QueueOnce' /\ ThreadHasCoroutine'
<1> USE DEF Typing, LockTyped, QueueOnce, ThreadHasCoroutine, envVars,
            lockVars, fileVars, taskVars, diskVars
<1>0. \A r \in Records : r # None
  BY RecordsAssumption DEF Records
<1>1. ASSUME NEW r \in Records, RecordEnters(r)
      PROVE  LockTyped' /\ QueueOnce' /\ ThreadHasCoroutine'
  BY <1>0, <1>1
     DEF RecordEnters, Stamp, At, Does, PCs, Threads, Running
<1>2. ASSUME NEW r \in Records, RecordWaits(r)
      PROVE  LockTyped' /\ QueueOnce' /\ ThreadHasCoroutine'
  <2>1. /\ queue' \in Seq(Records) /\ Len(queue') = Len(queue) + 1
        /\ \A i \in 1..Len(queue) : queue'[i] = queue[i]
        /\ queue'[Len(queue) + 1] = r
    BY <1>2 DEF RecordWaits
  <2>2. /\ pc[r] = "new" /\ pc' = [pc EXCEPT ![r] = "lock"]
        /\ UNCHANGED <<lock, thread>>
    BY <1>2 DEF RecordWaits, Stamp, At
  <2>3. DOMAIN queue = 1..Len(queue) /\ DOMAIN queue' = 1..Len(queue) + 1
    BY <2>1
  <2>4. \A i \in 1..Len(queue) : queue[i] # r
    BY <2>2, <2>3
  <2>5. QueueOnce'
    BY <2>1, <2>3, <2>4
  <2>6. \A q \in Records :
            (pc'[q] = "lock") <=> \E i \in DOMAIN queue' : queue'[i] = q
    <3> TAKE q \in Records
    <3>1. Len(queue) + 1 \in DOMAIN queue'
      BY <2>3
    <3>2. CASE q = r
      BY <2>1, <2>2, <3>1, <3>2
    <3>3. CASE q # r
      BY <2>1, <2>2, <2>3, <3>3
    <3> QED  BY <3>2, <3>3
  <2> QED  BY <1>0, <2>1, <2>2, <2>5, <2>6 DEF PCs
<1>3. ASSUME NEW r \in Records, RecordLocked(r)
      PROVE  LockTyped' /\ QueueOnce' /\ ThreadHasCoroutine'
  <2>1. /\ pc[r] = "lock" /\ lock = None /\ Head(queue) = r /\ lock' = r
        /\ queue' = Tail(queue) /\ pc' = [pc EXCEPT ![r] = "thread"]
        /\ thread' = [thread EXCEPT ![r] = "queued"]
    BY <1>3 DEF RecordLocked, At, Does
  <2>2. queue # <<>>
    BY <2>1
  <2>3. /\ queue' \in Seq(Records) /\ Len(queue') = Len(queue) - 1
        /\ \A i \in 1..Len(queue') : queue'[i] = queue[i + 1]
        /\ DOMAIN queue = 1..Len(queue) /\ DOMAIN queue' = 1..Len(queue) - 1
        /\ Len(queue) >= 1 /\ queue[1] = r
    BY <2>1, <2>2
  <2>Shift. \A i \in DOMAIN queue' :
            /\ i + 1 \in DOMAIN queue /\ i + 1 # 1 /\ queue'[i] = queue[i + 1]
    BY <2>3
  <2>4. QueueOnce'
    BY <2>3, <2>Shift
  <2>5. ASSUME NEW q \in Records
        PROVE  (pc'[q] = "lock") <=> \E i \in DOMAIN queue' : queue'[i] = q
    <3>1. CASE q = r
      <4>0. 1 \in DOMAIN queue
        BY <2>3
      <4>1. \A i \in DOMAIN queue' : queue'[i] # r
        BY <2>3, <2>Shift, <4>0
      <4> QED  BY <2>1, <3>1, <4>1
    <3>2. CASE q # r
      <4>1. ASSUME NEW i \in DOMAIN queue, queue[i] = q
            PROVE  \E j \in DOMAIN queue' : queue'[j] = q
        <5>1. i - 1 \in DOMAIN queue' /\ queue'[i - 1] = q
          BY <2>3, <3>2, <4>1
        <5> QED  BY <5>1
      <4>2. ASSUME NEW j \in DOMAIN queue', queue'[j] = q
            PROVE  \E i \in DOMAIN queue : queue[i] = q
        <5>1. j + 1 \in DOMAIN queue /\ queue[j + 1] = q
          BY <2>3, <4>2
        <5> QED  BY <5>1
      <4> QED  BY <2>1, <3>2, <4>1, <4>2
    <3> QED  BY <3>1, <3>2
  <2> QED  BY <1>0, <2>1, <2>3, <2>4, <2>5 DEF PCs, Threads, Running
<1>4. ASSUME NEW r \in Records, RecordEnds(r)
      PROVE  LockTyped' /\ QueueOnce' /\ ThreadHasCoroutine'
  <2>1. Result(r) \in {"done", "failed", "broken"}
    BY <1>4, ResultTyped DEF RecordEnds
  <2> QED  BY <1>0, <1>4, <2>1 DEF RecordEnds, At, Does, PCs, Ended, Threads
<1>5. ASSUME NEW r \in Records, Cancel(r)
      PROVE  LockTyped' /\ QueueOnce' /\ ThreadHasCoroutine'
  <2>0. /\ pc' = [pc EXCEPT ![r] = "cancelled"]
        /\ pc[r] \in {"lock", "thread"}
        /\ \/ thread' = [thread EXCEPT ![r] = "none"]
           \/ UNCHANGED thread
    BY <1>5 DEF Cancel, Cancelled, At, Does
  <2>1. CASE lock = r /\ lock' = None /\ UNCHANGED queue
    BY <1>0, <2>0, <2>1 DEF PCs, Ended, Threads
  <2>2. ASSUME NEW i \in DOMAIN queue, queue[i] = r,
               queue' = RemoveAt(queue, i), UNCHANGED lock
        PROVE  LockTyped' /\ QueueOnce' /\ ThreadHasCoroutine'
    <3>1. /\ queue' \in Seq(Records) /\ Len(queue') = Len(queue) - 1
          /\ \A j \in DOMAIN queue' :
                queue'[j] = IF j < i THEN queue[j] ELSE queue[j + 1]
          /\ DOMAIN queue = 1..Len(queue)
          /\ DOMAIN queue' = 1..Len(queue) - 1
      BY <2>2, Removed
    <3>2. pc[r] = "lock"
      BY <2>2
    <3>3. QueueOnce'
      <4> SUFFICES ASSUME NEW j \in DOMAIN queue', NEW k \in DOMAIN queue',
                          queue'[j] = queue'[k]
                   PROVE  j = k
        OBVIOUS
      <4>1. PICK m \in DOMAIN queue : /\ queue'[j] = queue[m]
                                      /\ m = IF j < i THEN j ELSE j + 1
        BY <3>1
      <4>2. PICK n \in DOMAIN queue : /\ queue'[k] = queue[n]
                                      /\ n = IF k < i THEN k ELSE k + 1
        BY <3>1
      <4>3. queue[m] = queue[n]
        BY <4>1, <4>2
      <4>4. m = n
        BY <4>3
      <4> QED  BY <3>1, <4>1, <4>2, <4>4
    <3>4. ASSUME NEW q \in Records
          PROVE  (pc'[q] = "lock") <=> \E j \in DOMAIN queue' : queue'[j] = q
      <4>1. ASSUME NEW j \in DOMAIN queue', queue'[j] = q
            PROVE  q # r /\ \E k \in DOMAIN queue : queue[k] = q
        <5>1. PICK m \in DOMAIN queue : queue[m] = q /\ m # i
          BY <3>1, <4>1
        <5> QED  BY <2>2, <5>1
      <4>2. ASSUME NEW k \in DOMAIN queue, queue[k] = q, q # r
            PROVE  \E j \in DOMAIN queue' : queue'[j] = q
        <5> DEFINE j == IF k < i THEN k ELSE k - 1
        <5>1. k # i
          BY <2>2, <4>2
        <5>2. j \in DOMAIN queue'
          BY <3>1, <4>2, <5>1
        <5>3. (IF j < i THEN j ELSE j + 1) = k
          BY <3>1, <4>2, <5>1
        <5>4. queue'[j] = q
          BY <3>1, <4>2, <5>2, <5>3
        <5> QED  BY <5>2, <5>4
      <4> QED  BY <2>0, <3>2, <4>1, <4>2
    <3>5. /\ lock' \in Records \cup {None} /\ pc' \in [Records -> PCs]
          /\ thread' \in [Records -> Threads]
      BY <2>0, <2>2 DEF PCs, Ended, Threads
    <3>6. \A q \in Records : (lock' = q) <=> (pc'[q] = "thread")
      BY <2>0, <2>2, <3>2
    <3>7. ThreadHasCoroutine'
      BY <2>0, <3>2
    <3> QED  BY <3>1, <3>3, <3>4, <3>5, <3>6, <3>7
  <2> QED  BY <1>5, <2>1, <2>2 DEF Cancel, Cancelled
<1>6. ASSUME NEW r \in Records,
             \/ ThreadChecks(r) \/ ThreadCloses(r) \/ ThreadOpens(r)
             \/ ThreadOpenFails(r) \/ ThreadWrites(r) \/ ThreadFlushes(r)
             \/ ThreadFlushFails(r) \/ ThreadFindsNoFile(r)
      PROVE  LockTyped' /\ QueueOnce' /\ ThreadHasCoroutine'
  <2>1. /\ thread[r] \in Running /\ UNCHANGED <<lock, queue, pc>>
        /\ \E s \in Threads \ {"none"} : Does(r, s)
    BY <1>6 DEF ThreadChecks, ThreadCloses, ThreadOpens, ThreadOpenFails,
                ThreadWrites, ThreadFlushes, ThreadFlushFails,
                ThreadFindsNoFile, Running, Threads
  <2> QED  BY <2>1, ThreadMoves
<1>7. CASE CloseLog \/ Midnight
  BY <1>7 DEF CloseLog, Midnight
<1>8. CASE Crash \/ Restart
  <2>1. NewProcess
    BY <1>8 DEF Crash, Restart
  <2>2. /\ lock' = None /\ queue' = <<>>
        /\ pc' = [r \in Records |->
                IF pc[r] \in {"lock", "thread"} THEN "crashed" ELSE pc[r]]
        /\ thread' = [r \in Records |-> "none"]
    BY <2>1 DEF NewProcess
  <2>3. <<>> \in Seq(Records) /\ DOMAIN <<>> = {}
    OBVIOUS
  <2> QED  BY <1>0, <2>2, <2>3 DEF PCs, Ended, Threads
<1> QED  BY <1>1, <1>2, <1>3, <1>4, <1>5, <1>6, <1>7, <1>8 DEF Next, Step

LEMMA TypingStep ==
    ASSUME Typing, [Next]_vars
    PROVE  Typing'
<1>1. CASE Next
  BY <1>1, DataStep, LockStep DEF Typing
<1>2. CASE UNCHANGED vars
  BY <1>2 DEF vars, Typing, DataTyped, LockTyped, QueueOnce,
              ThreadHasCoroutine, envVars, lockVars, fileVars, taskVars,
              diskVars
<1> QED  BY <1>1, <1>2

\* What the later proofs take from the typing.
LEMMA LockTypes ==
    ASSUME Typing
    PROVE  /\ lock \in Records \cup {None} /\ None \notin Records
           /\ queue \in Seq(Records) /\ begun \in Seq(Records)
           /\ pc \in [Records -> PCs] /\ thread \in [Records -> Threads]
           /\ \A r \in Records : (lock = r) <=> (pc[r] = "thread")
           /\ \A r \in Records :
                (pc[r] = "lock") <=> \E i \in DOMAIN queue : queue[i] = r
BY RecordsAssumption DEF Typing, DataTyped, LockTyped, Records

LEMMA FileTypes ==
    ASSUME Typing
    PROVE  /\ file \in Records \cup {None} /\ None \notin Records
           /\ handle \in [Records -> [day : Days, open : BOOLEAN]]
           /\ buffer \in [Records -> Seq(Records)]
           /\ lines \in [Days -> Seq(Records)]
           /\ thread \in [Records -> Threads] /\ pc \in [Records -> PCs]
BY RecordsAssumption DEF Typing, DataTyped, LockTyped, Records

LEMMA DayTypes ==
    ASSUME Typing
    PROVE  /\ stamp \in [Records -> Days] /\ target \in [Records -> Days]
           /\ today \in Days /\ swept \in Days /\ Days \subseteq Nat
BY NumbersAssumption DEF Typing, DataTyped, Days

-----------------------------------------------------------------------------
(* The order of the calls.                                                 *)

\* record() was called for q before it was called for r.
Began(q, r) ==
    \E i, j \in DOMAIN begun : i < j /\ begun[i] = q /\ begun[j] = r

BegunOnce ==
    /\ \A i, j \in DOMAIN begun : begun[i] = begun[j] => i = j
    /\ \A r \in Records :
        (pc[r] # "new") <=> \E i \in DOMAIN begun : begun[i] = r

\* Who returned was called before who holds the lock, and both before who
\* waits; the queue has the order of the calls.
Ahead(q, r) ==
    \E i, j \in DOMAIN queue : i < j /\ queue[i] = q /\ queue[j] = r

FirstCome ==
    \A q, r \in Records :
        /\ Ahead(q, r) => Began(q, r)
        /\ pc[q] \in Ended \ {"cancelled"} /\ pc[r] \in {"thread", "lock"} =>
            Began(q, r)
        /\ pc[q] = "thread" /\ pc[r] = "lock" => Began(q, r)

\* In a sequence without repetitions, of two elements one is first.
LEMMA OneOrder ==
    ASSUME NEW s \in Seq(Records),
           \A i, j \in DOMAIN s : s[i] = s[j] => i = j,
           NEW q, NEW r,
           \E i, j \in DOMAIN s : i < j /\ s[i] = q /\ s[j] = r
    PROVE  /\ q # r
           /\ ~\E i, j \in DOMAIN s : i < j /\ s[i] = r /\ s[j] = q
<1>1. PICK i \in DOMAIN s, j \in DOMAIN s : i < j /\ s[i] = q /\ s[j] = r
  OBVIOUS
<1>2. DOMAIN s = 1..Len(s) /\ Len(s) \in Nat
  OBVIOUS
<1>3. q # r
  BY <1>1, <1>2
<1>4. ASSUME NEW k \in DOMAIN s, NEW l \in DOMAIN s,
             k < l, s[k] = r, s[l] = q
      PROVE  FALSE
  <2>1. k = j /\ l = i
    BY <1>1, <1>4
  <2> QED  BY <1>1, <1>2, <1>4, <2>1
<1> QED  BY <1>3, <1>4

LEMMA BeganOnce ==
    ASSUME Typing, BegunOnce, NEW q, NEW r, Began(q, r)
    PROVE  q # r /\ ~Began(r, q)
BY LockTypes, OneOrder DEF Began, BegunOnce

\* A new record is called after all that were called before.
LEMMA BeganAppended ==
    ASSUME Typing, BegunOnce, NEW r \in Records, pc[r] = "new",
           begun' = Append(begun, r), pc' \in [Records -> PCs],
           pc'[r] # "new", \A q \in Records \ {r} : pc'[q] = pc[q]
    PROVE  /\ BegunOnce'
           /\ \A q, s : Began(q, s) => Began(q, s)'
           /\ \A q \in Records : pc[q] # "new" => Began(q, r)'
<1>1. /\ begun' \in Seq(Records) /\ Len(begun') = Len(begun) + 1
      /\ DOMAIN begun = 1..Len(begun) /\ DOMAIN begun' = 1..Len(begun) + 1
      /\ \A i \in 1..Len(begun) : begun'[i] = begun[i]
      /\ begun'[Len(begun) + 1] = r /\ Len(begun) \in Nat
  BY LockTypes
<1>2. \A i \in DOMAIN begun : begun[i] # r
  BY DEF BegunOnce
<1>3. \A i, j \in DOMAIN begun' : begun'[i] = begun'[j] => i = j
  BY <1>1, <1>2 DEF BegunOnce
<1>4. ASSUME NEW q \in Records
      PROVE  (pc'[q] # "new") <=> \E i \in DOMAIN begun' : begun'[i] = q
  <2>1. CASE q = r
    BY <1>1, <2>1
  <2>2. CASE q # r
    BY <1>1, <2>2 DEF BegunOnce
  <2> QED  BY <2>1, <2>2
<1>5. ASSUME NEW q, NEW s, Began(q, s)
      PROVE  Began(q, s)'
  BY <1>1, <1>5 DEF Began
<1>6. ASSUME NEW q \in Records, pc[q] # "new"
      PROVE  Began(q, r)'
  <2>1. PICK i \in DOMAIN begun : begun[i] = q
    BY <1>6 DEF BegunOnce
  <2>2. /\ i \in DOMAIN begun' /\ Len(begun) + 1 \in DOMAIN begun'
        /\ i < Len(begun) + 1 /\ begun'[i] = q /\ begun'[Len(begun) + 1] = r
    BY <1>1, <2>1
  <2> QED  BY <2>2 DEF Began
<1> QED  BY <1>3, <1>4, <1>5, <1>6 DEF BegunOnce

\* Every step keeps the order of the calls, and who takes the lock is the
\* first that waits.
LEMMA OrderStep ==
    ASSUME Typing, BegunOnce, FirstCome, Next
    PROVE  /\ BegunOnce' /\ FirstCome'
           /\ \A q, r : Began(q, r) => Began(q, r)'
<1> USE DEF envVars, lockVars, fileVars, taskVars, diskVars
<1>0. /\ lock \in Records \cup {None} /\ None \notin Records
      /\ queue \in Seq(Records) /\ pc \in [Records -> PCs]
      /\ \A r \in Records : (lock = r) <=> (pc[r] = "thread")
      /\ \A r \in Records :
            (pc[r] = "lock") <=> \E i \in DOMAIN queue : queue[i] = r
  BY LockTypes
<1>1. ASSUME UNCHANGED <<begun, queue, pc>>
      PROVE  /\ BegunOnce' /\ FirstCome'
             /\ \A q, r : Began(q, r) => Began(q, r)'
  BY <1>1 DEF BegunOnce, FirstCome, Began, Ahead
<1>2. ASSUME UNCHANGED begun
      PROVE  \A q, r : Began(q, r)' <=> Began(q, r)
  BY <1>2 DEF Began
<1>3. ASSUME UNCHANGED begun, \A r \in Records : (pc[r] = "new") <=> (pc'[r] = "new")
      PROVE  BegunOnce'
  BY <1>3 DEF BegunOnce
<1>4. ASSUME NEW r \in Records, RecordEnters(r)
      PROVE  /\ BegunOnce' /\ FirstCome'
             /\ \A q, s : Began(q, s) => Began(q, s)'
  <2>1. /\ pc[r] = "new" /\ begun' = Append(begun, r) /\ queue' = queue
        /\ queue = <<>> /\ pc' = [pc EXCEPT ![r] = "thread"]
        /\ pc' \in [Records -> PCs] /\ pc'[r] = "thread"
        /\ \A q \in Records \ {r} : pc'[q] = pc[q]
    BY <1>0, <1>4 DEF RecordEnters, Stamp, At, PCs
  <2>2. /\ BegunOnce' /\ \A q, s : Began(q, s) => Began(q, s)'
        /\ \A q \in Records : pc[q] # "new" => Began(q, r)'
    BY <2>1, BeganAppended
  <2>3. DOMAIN queue = {} /\ \A q \in Records : pc[q] # "lock"
    BY <1>0, <2>1
  <2>4. FirstCome'
    BY <2>1, <2>2, <2>3 DEF FirstCome, Ended, Ahead
  <2> QED  BY <2>2, <2>4
<1>5. ASSUME NEW r \in Records, RecordWaits(r)
      PROVE  /\ BegunOnce' /\ FirstCome'
             /\ \A q, s : Began(q, s) => Began(q, s)'
  <2>1. /\ pc[r] = "new" /\ begun' = Append(begun, r)
        /\ queue' = Append(queue, r) /\ pc' = [pc EXCEPT ![r] = "lock"]
        /\ pc' \in [Records -> PCs] /\ pc'[r] = "lock"
        /\ \A q \in Records \ {r} : pc'[q] = pc[q]
    BY <1>0, <1>5 DEF RecordWaits, Stamp, At, PCs
  <2>2. /\ BegunOnce' /\ \A q, s : Began(q, s) => Began(q, s)'
        /\ \A q \in Records : pc[q] # "new" => Began(q, r)'
    BY <2>1, BeganAppended
  <2>3. /\ DOMAIN queue = 1..Len(queue) /\ DOMAIN queue' = 1..Len(queue) + 1
        /\ \A i \in 1..Len(queue) : queue'[i] = queue[i] /\ queue[i] \in Records
        /\ queue'[Len(queue) + 1] = r /\ Len(queue) \in Nat
    BY <1>0, <2>1
  <2>4. ASSUME NEW q \in Records, NEW s \in Records, Ahead(q, s)'
        PROVE  Began(q, s)'
    <3>1. PICK i \in DOMAIN queue', j \in DOMAIN queue' :
            i < j /\ queue'[i] = q /\ queue'[j] = s
      BY <2>4 DEF Ahead
    <3>2. i \in DOMAIN queue /\ queue[i] = q
      BY <2>3, <3>1
    <3>3. CASE j = Len(queue) + 1
      <4>1. pc[q] = "lock" /\ s = r
        BY <1>0, <2>3, <3>1, <3>2, <3>3
      <4> QED  BY <2>2, <4>1
    <3>4. CASE j # Len(queue) + 1
      <4>1. j \in DOMAIN queue /\ queue[j] = s
        BY <2>3, <3>1, <3>4
      <4> QED  BY <2>2, <3>1, <3>2, <4>1 DEF FirstCome, Ahead
    <3> QED  BY <3>3, <3>4
  <2>5. FirstCome'
    BY <2>1, <2>2, <2>4 DEF FirstCome, Ended
  <2> QED  BY <2>2, <2>5
<1>6. ASSUME NEW r \in Records, RecordLocked(r)
      PROVE  /\ BegunOnce' /\ FirstCome'
             /\ \A q, s : Began(q, s) => Began(q, s)'
  <2>1. /\ pc[r] = "lock" /\ lock = None /\ Head(queue) = r /\ UNCHANGED begun
        /\ queue' = Tail(queue) /\ pc' = [pc EXCEPT ![r] = "thread"]
    BY <1>6 DEF RecordLocked, At
  <2>2. queue # <<>>
    BY <1>0, <2>1
  <2>3. /\ 1 \in DOMAIN queue /\ queue[1] = r
        /\ \A i \in DOMAIN queue' : /\ i \in Nat /\ i + 1 \in DOMAIN queue
                                    /\ i + 1 > 1 /\ queue'[i] = queue[i + 1]
        /\ \A i \in DOMAIN queue : i = 1 \/ i > 1
    BY <2>1, <2>2
  <2>4. \A q, s \in Records : Ahead(q, s)' => Began(q, s)
    <3>1. ASSUME NEW q \in Records, NEW s \in Records, Ahead(q, s)'
          PROVE  Ahead(q, s)
      <4>1. PICK i \in DOMAIN queue', j \in DOMAIN queue' :
                i < j /\ queue'[i] = q /\ queue'[j] = s
        BY <3>1 DEF Ahead
      <4>2. /\ i + 1 \in DOMAIN queue /\ j + 1 \in DOMAIN queue
            /\ i + 1 < j + 1 /\ queue[i + 1] = q /\ queue[j + 1] = s
        BY <2>3, <4>1
      <4> QED  BY <4>2 DEF Ahead
    <3> QED  BY <3>1 DEF FirstCome
  <2>5. \A q \in Records : pc[q] # "thread"
    BY <1>0, <2>1
  <2>6. ASSUME NEW s \in Records, pc[s] = "lock", s # r
        PROVE  Began(r, s)
    <3>1. PICK i \in DOMAIN queue : queue[i] = s
      BY <1>0, <2>6
    <3>2. i > 1
      BY <2>3, <2>6, <3>1
    <3> QED  BY <2>3, <3>1, <3>2 DEF FirstCome, Ahead
  <2>7. FirstCome'
    BY <1>2, <2>1, <2>4, <2>5, <2>6 DEF FirstCome, Ended
  <2> QED  BY <1>2, <1>3, <2>1, <2>7
<1>7. ASSUME NEW r \in Records, RecordEnds(r)
      PROVE  /\ BegunOnce' /\ FirstCome'
             /\ \A q, s : Began(q, s) => Began(q, s)'
  <2>1. Result(r) \in {"done", "failed", "broken"}
    BY <1>7, ResultTyped DEF RecordEnds
  <2>2. /\ pc[r] = "thread" /\ UNCHANGED <<begun, queue>>
        /\ pc' = [pc EXCEPT ![r] = Result(r)]
        /\ \A q \in Records : pc[q] = "thread" => q = r
    BY <1>0, <1>7 DEF RecordEnds, At
  <2>3. FirstCome'
    BY <1>2, <2>1, <2>2 DEF FirstCome, Ended, Ahead
  <2> QED  BY <1>2, <1>3, <2>1, <2>2, <2>3
<1>8. ASSUME NEW r \in Records, Cancel(r)
      PROVE  /\ BegunOnce' /\ FirstCome'
             /\ \A q, s : Began(q, s) => Began(q, s)'
  <2>1. /\ pc[r] \in {"lock", "thread"} /\ UNCHANGED begun
        /\ pc' = [pc EXCEPT ![r] = "cancelled"]
        /\ \/ UNCHANGED queue
           \/ \E i \in DOMAIN queue : queue' = RemoveAt(queue, i)
    BY <1>8 DEF Cancel, Cancelled, At
  <2>2. ASSUME NEW i \in DOMAIN queue, queue' = RemoveAt(queue, i)
        PROVE  \A q, s \in Records : Ahead(q, s)' => Ahead(q, s)
    <3>1. /\ Len(queue') = Len(queue) - 1 /\ queue' \in Seq(Records)
          /\ \A j \in DOMAIN queue' :
                queue'[j] = IF j < i THEN queue[j] ELSE queue[j + 1]
      BY <1>0, <2>2, Removed
    <3>2. SUFFICES ASSUME NEW q \in Records, NEW s \in Records, Ahead(q, s)'
                   PROVE  Ahead(q, s)
      OBVIOUS
    <3>3. PICK j \in DOMAIN queue', k \in DOMAIN queue' :
            j < k /\ queue'[j] = q /\ queue'[k] = s
      BY <3>2 DEF Ahead
    <3>4. PICK m \in DOMAIN queue : /\ queue'[j] = queue[m]
                                    /\ m = IF j < i THEN j ELSE j + 1
      BY <2>2, <3>1
    <3>5. PICK n \in DOMAIN queue : /\ queue'[k] = queue[n]
                                    /\ n = IF k < i THEN k ELSE k + 1
      BY <2>2, <3>1
    <3>6. m < n
      BY <2>2, <3>1, <3>3, <3>4, <3>5
    <3> QED  BY <3>3, <3>4, <3>5, <3>6 DEF Ahead
  <2>3. \A q, s \in Records : Ahead(q, s)' => Ahead(q, s)
    BY <2>1, <2>2 DEF Ahead
  <2>4. FirstCome'
    BY <1>2, <2>1, <2>3 DEF FirstCome, Ended
  <2> QED  BY <1>2, <1>3, <2>1, <2>4
<1>9. CASE Crash \/ Restart
  <2>1. /\ queue' = <<>> /\ UNCHANGED begun
        /\ pc' = [r \in Records |->
                IF pc[r] \in {"lock", "thread"} THEN "crashed" ELSE pc[r]]
    BY <1>9 DEF Crash, Restart, NewProcess
  <2>2. FirstCome'
    <3>1. DOMAIN <<>> = {}
      OBVIOUS
    <3> QED  BY <2>1, <3>1 DEF FirstCome, Ahead
  <2> QED  BY <1>2, <1>3, <2>1, <2>2
<1>10. ASSUME NEW r \in Records,
             \/ ThreadChecks(r) \/ ThreadCloses(r) \/ ThreadOpens(r)
             \/ ThreadOpenFails(r) \/ ThreadWrites(r) \/ ThreadFlushes(r)
             \/ ThreadFlushFails(r) \/ ThreadFindsNoFile(r)
      PROVE  UNCHANGED <<begun, queue, pc>>
  BY <1>10 DEF ThreadChecks, ThreadCloses, ThreadOpens, ThreadOpenFails,
               ThreadWrites, ThreadFlushes, ThreadFlushFails, ThreadFindsNoFile
<1>11. CASE CloseLog \/ Midnight
  BY <1>1, <1>11 DEF CloseLog, Midnight
<1> QED  BY <1>1, <1>4, <1>5, <1>6, <1>7, <1>8, <1>9, <1>10, <1>11
         DEF Next, Step

-----------------------------------------------------------------------------
(* Where lines are.                                                        *)

\* The i-th line of the file of day d is that of r; the i-th line that waits
\* for handle h is.
Stands(r, d, i) == d \in Days /\ i \in DOMAIN lines[d] /\ lines[d][i] = r
Waits(r, h, i) == h \in Records /\ i \in DOMAIN buffer[h] /\ buffer[h][i] = r

LEMMA CopiesStand ==
    ASSUME NEW r
    PROVE  /\ \A d, i : Stands(r, d, i) => <<d, i>> \in Copies(r)
           /\ \A p \in Copies(r) : /\ p = <<p[1], p[2]>>
                                   /\ Stands(r, p[1], p[2])
BY DEF Copies, Stands

LEMMA PlacesTyped ==
    ASSUME Typing
    PROVE  /\ \A r, d, i : Stands(r, d, i) =>
                /\ r \in Records /\ d \in Days /\ lines[d] # <<>>
                /\ i \in Nat /\ 1 <= i /\ i <= Len(lines[d])
           /\ \A r, h, i : Waits(r, h, i) =>
                /\ r \in Records /\ h \in Records /\ buffer[h] # <<>>
                /\ i \in Nat /\ 1 <= i /\ i <= Len(buffer[h])
<1>1. ASSUME NEW r, NEW d, NEW i, Stands(r, d, i)
      PROVE  /\ r \in Records /\ d \in Days /\ lines[d] # <<>>
             /\ i \in Nat /\ 1 <= i /\ i <= Len(lines[d])
  <2>1. lines[d] \in Seq(Records)
    BY <1>1, FileTypes DEF Stands
  <2> QED  BY <1>1, <2>1 DEF Stands
<1>2. ASSUME NEW r, NEW h, NEW i, Waits(r, h, i)
      PROVE  /\ r \in Records /\ h \in Records /\ buffer[h] # <<>>
             /\ i \in Nat /\ 1 <= i /\ i <= Len(buffer[h])
  <2>1. buffer[h] \in Seq(Records)
    BY <1>2, FileTypes DEF Waits
  <2> QED  BY <1>2, <2>1 DEF Waits
<1> QED  BY <1>1, <1>2

\* A flush moves what waits for the file behind what stands in it.
LEMMA FlushMoves ==
    ASSUME Typing, NEW h \in Records, Flushes(h)
    PROVE  /\ \A r, d, i : Stands(r, d, i)' <=>
                \/ Stands(r, d, i)
                \/ /\ d = handle[h].day
                   /\ \E j : Waits(r, h, j) /\ i = Len(lines[d]) + j
           /\ \A r, g, i : Waits(r, g, i)' <=> Waits(r, g, i) /\ g # h
<1> DEFINE D == handle[h].day
           m == lines[D]
           b == buffer[h]
<1>1. /\ D \in Days /\ m \in Seq(Records) /\ b \in Seq(Records)
      /\ lines' = [lines EXCEPT ![D] = m \o b]
      /\ buffer' = [buffer EXCEPT ![h] = <<>>]
      /\ lines \in [Days -> Seq(Records)]
      /\ buffer \in [Records -> Seq(Records)]
  BY FileTypes DEF Flushes
<1>2. /\ m \o b \in Seq(Records)
      /\ Len(m \o b) = Len(m) + Len(b)
      /\ \A i \in 1..Len(m) + Len(b) :
            (m \o b)[i] = IF i <= Len(m) THEN m[i] ELSE b[i - Len(m)]
  BY <1>1, ConcatProperties
<1>3. /\ lines'[D] = m \o b /\ \A d \in Days \ {D} : lines'[d] = lines[d]
      /\ buffer'[h] = <<>>
      /\ \A g \in Records \ {h} : buffer'[g] = buffer[g]
  BY <1>1
<1>4. /\ DOMAIN m = 1..Len(m) /\ Len(m) \in Nat
      /\ DOMAIN b = 1..Len(b) /\ Len(b) \in Nat
      /\ DOMAIN (m \o b) = 1..Len(m) + Len(b)
      /\ DOMAIN <<>> = {}
  BY <1>1, <1>2
<1> HIDE DEF D, m, b
<1>5. ASSUME NEW r, NEW d, NEW i
      PROVE  Stands(r, d, i)' <=>
                \/ Stands(r, d, i)
                \/ d = D /\ \E j : Waits(r, h, j) /\ i = Len(lines[d]) + j
  <2>1. CASE d # D
    BY <1>3, <2>1 DEF Stands
  <2>2. CASE d = D
    <3>1. Stands(r, d, i)' <=> i \in DOMAIN (m \o b) /\ (m \o b)[i] = r
      BY <1>1, <1>3, <2>2 DEF Stands
    <3>2. Stands(r, d, i) <=> i \in DOMAIN m /\ m[i] = r
      BY <1>1, <2>2 DEF Stands, m
    <3>3. \A j : Waits(r, h, j) <=> j \in DOMAIN b /\ b[j] = r
      BY DEF Waits, b
    <3>4. i \in DOMAIN (m \o b) /\ (m \o b)[i] = r <=>
            \/ i \in DOMAIN m /\ m[i] = r
            \/ \E j : j \in DOMAIN b /\ b[j] = r /\ i = Len(m) + j
      <4>1. ASSUME i \in DOMAIN (m \o b), (m \o b)[i] = r
            PROVE  \/ i \in DOMAIN m /\ m[i] = r
                   \/ \E j : j \in DOMAIN b /\ b[j] = r /\ i = Len(m) + j
        <5>1. CASE i <= Len(m)
          BY <1>2, <1>4, <4>1, <5>1
        <5>2. CASE ~(i <= Len(m))
          <6>1. /\ i - Len(m) \in DOMAIN b /\ b[i - Len(m)] = r
                /\ i = Len(m) + (i - Len(m))
            BY <1>2, <1>4, <4>1, <5>2
          <6> QED  BY <6>1
        <5> QED  BY <5>1, <5>2
      <4>2. ASSUME i \in DOMAIN m, m[i] = r
            PROVE  i \in DOMAIN (m \o b) /\ (m \o b)[i] = r
        BY <1>2, <1>4, <4>2
      <4>3. ASSUME NEW j \in DOMAIN b, b[j] = r, i = Len(m) + j
            PROVE  i \in DOMAIN (m \o b) /\ (m \o b)[i] = r
        <5>1. i \in 1..Len(m) + Len(b) /\ ~(i <= Len(m)) /\ i - Len(m) = j
          BY <1>4, <4>3
        <5> QED  BY <1>2, <1>4, <4>3, <5>1
      <4> QED  BY <4>1, <4>2, <4>3
    <3>5. Len(lines[d]) = Len(m)
      BY <2>2 DEF m
    <3> QED  BY <2>2, <3>1, <3>2, <3>3, <3>4, <3>5
  <2> QED  BY <2>1, <2>2
<1>6. ASSUME NEW r, NEW g, NEW i
      PROVE  Waits(r, g, i)' <=> Waits(r, g, i) /\ g # h
  BY <1>3, <1>4 DEF Waits
<1> QED  BY <1>5, <1>6 DEF D

\* A write puts a line behind what waits for the file.
LEMMA WriteAdds ==
    ASSUME Typing, NEW q \in Records, ThreadWrites(q)
    PROVE  /\ \A r, d, i : Stands(r, d, i)' <=> Stands(r, d, i)
           /\ \A r, g, i : Waits(r, g, i)' <=>
                \/ Waits(r, g, i)
                \/ r = q /\ g = file /\ i = Len(buffer[file]) + 1
<1>1. /\ lines' = lines /\ file \in Records
      /\ buffer' = [buffer EXCEPT ![file] = Append(@, q)]
      /\ buffer \in [Records -> Seq(Records)]
  BY FileTypes DEF ThreadWrites, Usable, diskVars
<1>2. ASSUME NEW r, NEW g, NEW i
      PROVE  Waits(r, g, i)' <=>
                \/ Waits(r, g, i)
                \/ r = q /\ g = file /\ i = Len(buffer[file]) + 1
  <2>1. CASE g # file
    BY <1>1, <2>1 DEF Waits
  <2>2. CASE g = file
    <3> DEFINE b == buffer[file]
    <3>1. b \in Seq(Records) /\ buffer'[g] = Append(b, q)
      BY <1>1, <2>2
    <3> HIDE DEF b
    <3>2. /\ DOMAIN b = 1..Len(b) /\ Len(b) \in Nat
          /\ DOMAIN Append(b, q) = 1..Len(b) + 1
          /\ \A k \in 1..Len(b) : Append(b, q)[k] = b[k]
          /\ Append(b, q)[Len(b) + 1] = q
      BY <3>1
    <3>3. Waits(r, g, i)' <=> i \in DOMAIN Append(b, q) /\ Append(b, q)[i] = r
      BY <1>1, <2>2, <3>1 DEF Waits
    <3>4. Waits(r, g, i) <=> i \in DOMAIN b /\ b[i] = r
      BY <1>1, <2>2 DEF Waits, b
    <3>5. i \in DOMAIN Append(b, q) <=> i \in DOMAIN b \/ i = Len(b) + 1
      BY <3>2
    <3> QED  BY <2>2, <3>2, <3>3, <3>4, <3>5 DEF b
  <2> QED  BY <2>1, <2>2
<1> QED  BY <1>1, <1>2 DEF Stands

\* The close of a file that cannot be flushed drops what waits for it; a new
\* process starts with nothing that waits.
LEMMA DirtyDrops ==
    ASSUME Typing, NEW h \in Records, lines' = lines,
           buffer' = [buffer EXCEPT ![h] = <<>>]
    PROVE  /\ \A r, d, i : Stands(r, d, i)' <=> Stands(r, d, i)
           /\ \A r, g, i : Waits(r, g, i)' <=> Waits(r, g, i) /\ g # h
<1>1. buffer \in [Records -> Seq(Records)] /\ DOMAIN <<>> = {}
  BY FileTypes
<1> QED  BY <1>1 DEF Stands, Waits

LEMMA NewProcessDrops ==
    ASSUME NewProcess
    PROVE  /\ \A r, d, i : Stands(r, d, i)' <=> Stands(r, d, i)
           /\ \A r, g, i : ~Waits(r, g, i)'
<1>1. DOMAIN <<>> = {}
  OBVIOUS
<1> QED  BY <1>1 DEF NewProcess, Stands, Waits

\* What a step may do to the lines.
Drops(h) ==
    /\ "full" \in Faults /\ \E q \in Records : thread[q] = "close"
    /\ lines' = lines /\ buffer' = [buffer EXCEPT ![h] = <<>>]

LEMMA DiskStep ==
    ASSUME Typing, Next
    PROVE  \/ UNCHANGED <<lines, buffer>>
           \/ Usable /\ file \in Records /\ Flushes(file)
           \/ Usable /\ file \in Records /\ Drops(file)
           \/ \E q \in Records : ThreadWrites(q)
           \/ NewProcess
<1> USE DEF envVars, lockVars, fileVars, taskVars, diskVars
<1>0. Usable => file \in Records
  BY FileTypes DEF Usable
<1>1. ASSUME NEW r \in Records,
             \/ RecordEnters(r) \/ RecordWaits(r) \/ RecordLocked(r)
             \/ RecordEnds(r) \/ Cancel(r) \/ ThreadChecks(r)
             \/ ThreadOpenFails(r) \/ ThreadFlushFails(r) \/ ThreadFindsNoFile(r)
      PROVE  UNCHANGED <<lines, buffer>>
  BY <1>1 DEF RecordEnters, RecordWaits, Stamp, RecordLocked, RecordEnds,
              Cancel, ThreadChecks, ThreadOpenFails, ThreadFlushFails,
              ThreadFindsNoFile
<1>2. ASSUME NEW r \in Records, ThreadCloses(r)
      PROVE  \/ UNCHANGED <<lines, buffer>>
             \/ Usable /\ file \in Records /\ Flushes(file)
             \/ Usable /\ file \in Records /\ Drops(file)
  <2>1. CASE Usable /\ Closes(file)
    BY <1>0, <2>1 DEF Closes
  <2>2. CASE Usable /\ ClosesDirty(file) /\ Strikes("full")
    BY <1>0, <1>2, <2>2 DEF ClosesDirty, Drops, Strikes, ThreadCloses
  <2>3. CASE UNCHANGED <<handle, buffer, diskVars>>
    BY <2>3
  <2> QED  BY <1>2, <2>1, <2>2, <2>3 DEF ThreadCloses
<1>3. ASSUME NEW r \in Records, ThreadOpens(r) \/ ThreadFlushes(r)
      PROVE  \/ UNCHANGED <<lines, buffer>>
             \/ Usable /\ file \in Records /\ Flushes(file)
  BY <1>0, <1>3 DEF ThreadOpens, ThreadFlushes
<1>4. CASE CloseLog
  BY <1>0, <1>4 DEF CloseLog, Closes
<1>5. CASE Crash \/ Restart \/ Midnight
  BY <1>5 DEF Crash, Restart, Midnight
<1> QED  BY <1>1, <1>2, <1>3, <1>4, <1>5 DEF Next, Step

-----------------------------------------------------------------------------
(* One file is open, and a line is in one place.                           *)

OnlyFileOpen ==
    \A h \in Records :
        /\ handle[h].open => h = file
        /\ buffer[h] # <<>> => handle[h].open

\* The thread of r opened no file yet, or wrote no line yet.
BeforeOpen(r) ==
    pc[r] \in {"new", "lock"} \/ thread[r] \in {"queued", "close", "open"}
BeforeWrite(r) == BeforeOpen(r) \/ thread[r] = "write"

Unopened == \A r \in Records : BeforeOpen(r) => file # r

Unwritten ==
    \A r \in Records : BeforeWrite(r) =>
        (\A d, i : ~Stands(r, d, i)) /\ (\A h, i : ~Waits(r, h, i))

OnePlace ==
    \A r \in Records :
        /\ \A d, e, i, j : Stands(r, d, i) /\ Stands(r, e, j) => d = e /\ i = j
        /\ \A h, g, i, j : Waits(r, h, i) /\ Waits(r, g, j) => h = g /\ i = j
        /\ \A d, i, h, j : ~(Stands(r, d, i) /\ Waits(r, h, j))

\* A step brings no record back before its write, and takes the one that
\* writes past it.
LEMMA StagesPass ==
    ASSUME Typing, Next
    PROVE  /\ \A r \in Records : BeforeOpen(r)' => BeforeOpen(r)
           /\ \A r \in Records : BeforeWrite(r)' => BeforeWrite(r)
           /\ \A r \in Records : ThreadWrites(r) => ~BeforeWrite(r)'
           /\ \A r \in Records : ThreadOpens(r) => ~BeforeOpen(r)'
<1> USE DEF envVars, lockVars, fileVars, taskVars, diskVars, BeforeOpen,
            BeforeWrite
<1>0. /\ thread \in [Records -> Threads] /\ pc \in [Records -> PCs]
      /\ \A r \in Records : thread[r] # "none" => pc[r] \in {"thread", "cancelled"}
  BY FileTypes DEF Typing, ThreadHasCoroutine
<1>1. ASSUME NEW r \in Records,
             RecordEnters(r) \/ RecordWaits(r) \/ RecordLocked(r)
      PROVE  \A q \in Records : /\ BeforeOpen(q)' => BeforeOpen(q)
                                /\ BeforeWrite(q)' => BeforeWrite(q)
  BY <1>0, <1>1
     DEF RecordEnters, RecordWaits, Stamp, RecordLocked, At, Does
<1>2. ASSUME NEW r \in Records, RecordEnds(r)
      PROVE  \A q \in Records : /\ BeforeOpen(q)' => BeforeOpen(q)
                                /\ BeforeWrite(q)' => BeforeWrite(q)
  <2>1. Result(r) \in {"done", "failed", "broken"}
    BY <1>2, ResultTyped DEF RecordEnds
  <2> QED  BY <1>0, <1>2, <2>1 DEF RecordEnds, At, Does
<1>3. ASSUME NEW r \in Records, Cancel(r)
      PROVE  \A q \in Records : /\ BeforeOpen(q)' => BeforeOpen(q)
                                /\ BeforeWrite(q)' => BeforeWrite(q)
  BY <1>0, <1>3 DEF Cancel, Cancelled, At, Does
<1>4. ASSUME NEW r \in Records, NEW s,
             pc' = pc, Does(r, s), thread[r] \in {"queued", "close", "open"},
             s \in {"close", "open", "write", "refused"}
      PROVE  \A q \in Records : /\ BeforeOpen(q)' => BeforeOpen(q)
                                /\ BeforeWrite(q)' => BeforeWrite(q)
  BY <1>0, <1>4 DEF Does
<1>5. ASSUME NEW r \in Records,
             \/ ThreadChecks(r) \/ ThreadCloses(r)
             \/ ThreadOpens(r) \/ ThreadOpenFails(r)
      PROVE  \A q \in Records : /\ BeforeOpen(q)' => BeforeOpen(q)
                                /\ BeforeWrite(q)' => BeforeWrite(q)
  <2>1. /\ pc' = pc /\ thread[r] \in {"queued", "close", "open"}
        /\ \E s \in {"close", "open", "write", "refused"} : Does(r, s)
    BY <1>5 DEF ThreadChecks, ThreadCloses, ThreadOpens, ThreadOpenFails
  <2> QED  BY <1>4, <2>1
<1>6. ASSUME NEW r \in Records,
             \/ ThreadWrites(r) \/ ThreadFlushes(r)
             \/ ThreadFlushFails(r) \/ ThreadFindsNoFile(r)
      PROVE  \A q \in Records : /\ BeforeOpen(q)' => BeforeOpen(q)
                                /\ BeforeWrite(q)' => BeforeWrite(q)
  <2>1. /\ pc' = pc /\ thread[r] \in {"write", "flush"}
        /\ \E s \in {"flush", "end", "refused", "error"} : Does(r, s)
    BY <1>6 DEF ThreadWrites, ThreadFlushes, ThreadFlushFails,
                ThreadFindsNoFile
  <2> QED  BY <1>0, <2>1 DEF Does
<1>7. ASSUME CloseLog \/ Midnight
      PROVE  \A q \in Records : /\ BeforeOpen(q)' => BeforeOpen(q)
                                /\ BeforeWrite(q)' => BeforeWrite(q)
  BY <1>7 DEF CloseLog, Midnight
<1>8. ASSUME Crash \/ Restart
      PROVE  \A q \in Records : /\ BeforeOpen(q)' => BeforeOpen(q)
                                /\ BeforeWrite(q)' => BeforeWrite(q)
  BY <1>0, <1>8 DEF Crash, Restart, NewProcess
<1>9. ASSUME NEW r \in Records
      PROVE  /\ ThreadWrites(r) => ~BeforeWrite(r)'
             /\ ThreadOpens(r) => ~BeforeOpen(r)'
  BY <1>0 DEF ThreadWrites, ThreadOpens, Does
<1> QED  BY <1>1, <1>2, <1>3, <1>5, <1>6, <1>7, <1>8, <1>9 DEF Next, Step

\* Every step keeps the one open file, unless it is closed.
LEMMA FileStep ==
    ASSUME Typing, OnlyFileOpen, Unopened, Next
    PROVE  OnlyFileOpen' /\ Unopened'
<1> USE DEF envVars, lockVars, fileVars, taskVars, diskVars
<1>0. /\ file \in Records \cup {None} /\ None \notin Records
      /\ handle \in [Records -> [day : Days, open : BOOLEAN]]
      /\ buffer \in [Records -> Seq(Records)]
      /\ Usable => file \in Records
  BY FileTypes DEF Usable
<1>1. ASSUME UNCHANGED <<file, handle, buffer>>
      PROVE  OnlyFileOpen' /\ Unopened'
  BY <1>1, StagesPass DEF OnlyFileOpen, Unopened
<1>2. ASSUME NEW r \in Records,
             \/ RecordEnters(r) \/ RecordWaits(r) \/ RecordLocked(r)
             \/ RecordEnds(r) \/ Cancel(r) \/ ThreadChecks(r)
             \/ ThreadOpenFails(r) \/ ThreadFlushFails(r) \/ ThreadFindsNoFile(r)
      PROVE  UNCHANGED <<file, handle, buffer>>
  BY <1>2 DEF RecordEnters, RecordWaits, Stamp, RecordLocked, RecordEnds,
              Cancel, ThreadChecks, ThreadOpenFails, ThreadFlushFails,
              ThreadFindsNoFile
<1>3. ASSUME file' = file PROVE Unopened'
  BY <1>3, StagesPass DEF Unopened
<1>4. ASSUME NEW h \in Records, handle' = [handle EXCEPT ![h].open = FALSE],
             buffer' = [buffer EXCEPT ![h] = <<>>], file' \in {file, None}, h = file
      PROVE  OnlyFileOpen' /\ Unopened'
  BY <1>0, <1>4, StagesPass DEF OnlyFileOpen, Unopened
<1>5. ASSUME NEW r \in Records, ThreadCloses(r)
      PROVE  OnlyFileOpen' /\ Unopened'
  <2>1. CASE Usable /\ (Closes(file) \/ ClosesDirty(file))
    BY <1>0, <1>4, <1>5, <2>1
       DEF ThreadCloses, Closes, ClosesDirty, Flushes
  <2>2. CASE UNCHANGED <<handle, buffer, diskVars>>
    BY <1>1, <1>5, <2>2 DEF ThreadCloses
  <2> QED  BY <1>5, <2>1, <2>2 DEF ThreadCloses
<1>6. ASSUME NEW r \in Records, ThreadOpens(r)
      PROVE  OnlyFileOpen' /\ Unopened'
  <2> DEFINE opened == [day |-> target[r], open |-> TRUE]
  <2>1. file' = r /\ file # r /\ thread[r] = "open"
    BY <1>6 DEF ThreadOpens, Unopened, BeforeOpen
  <2>2. \A q \in Records : ~handle'[q].open \/ q = r
    <3>1. CASE Usable
      <4>1. handle' = [handle EXCEPT ![file].open = FALSE, ![r] = opened]
        BY <1>6, <3>1 DEF ThreadOpens
      <4> QED  BY <1>0, <2>1, <3>1, <4>1 DEF OnlyFileOpen
    <3>2. CASE ~Usable
      <4>1. handle' = [handle EXCEPT ![r] = opened]
        BY <1>6, <3>2 DEF ThreadOpens
      <4> QED  BY <1>0, <2>1, <3>2, <4>1 DEF OnlyFileOpen, Usable
    <3> QED  BY <3>1, <3>2
  <2>3. \A q \in Records : buffer'[q] = <<>>
    <3>1. CASE Usable
      <4>1. buffer' = [buffer EXCEPT ![file] = <<>>]
        BY <1>6, <3>1 DEF ThreadOpens, Flushes
      <4> QED  BY <1>0, <3>1, <4>1 DEF OnlyFileOpen
    <3>2. CASE ~Usable
      <4>1. buffer' = buffer
        BY <1>6, <3>2 DEF ThreadOpens
      <4> QED  BY <1>0, <2>1, <3>2, <4>1 DEF OnlyFileOpen, Usable
    <3> QED  BY <3>1, <3>2
  <2>4. \A q \in Records : BeforeOpen(q)' => q # r
    BY <1>6, StagesPass
  <2> QED  BY <2>1, <2>2, <2>3, <2>4 DEF OnlyFileOpen, Unopened
<1>7. ASSUME NEW r \in Records, ThreadWrites(r)
      PROVE  OnlyFileOpen' /\ Unopened'
  <2>1. UNCHANGED <<file, handle>> /\ Usable
        /\ \A h \in Records \ {file} : buffer'[h] = buffer[h]
    BY <1>0, <1>7 DEF ThreadWrites
  <2> QED  BY <1>0, <1>3, <2>1 DEF OnlyFileOpen, Usable
<1>8. ASSUME NEW r \in Records, ThreadFlushes(r)
      PROVE  OnlyFileOpen' /\ Unopened'
  <2>1. UNCHANGED <<file, handle>> /\ buffer' = [buffer EXCEPT ![file] = <<>>]
    BY <1>8 DEF ThreadFlushes, Flushes
  <2> QED  BY <1>0, <1>3, <2>1 DEF OnlyFileOpen
<1>9. CASE CloseLog
  <2>1. CASE Usable
    BY <1>0, <1>4, <1>9, <2>1 DEF CloseLog, Closes, Flushes
  <2>2. CASE ~Usable
    <3>1. file' = None /\ UNCHANGED <<handle, buffer>>
      BY <1>9, <2>2 DEF CloseLog
    <3> QED  BY <1>0, <2>2, <3>1, StagesPass
             DEF OnlyFileOpen, Unopened, Usable
  <2> QED  BY <2>1, <2>2
<1>10. CASE Crash \/ Restart
  <2>1. /\ file' = None /\ buffer' = [r \in Records |-> <<>>]
        /\ handle' = [r \in Records |-> [handle[r] EXCEPT !.open = FALSE]]
    BY <1>10 DEF Crash, Restart, NewProcess
  <2> QED  BY <1>0, <2>1 DEF OnlyFileOpen, Unopened
<1>11. CASE Midnight
  BY <1>1, <1>11 DEF Midnight
<1> QED  BY <1>1, <1>2, <1>5, <1>6, <1>7, <1>8, <1>9, <1>10, <1>11
         DEF Next, Step

\* Every step keeps a line in one place, and moves it only to the disk.
LEMMA PlaceStep ==
    ASSUME Typing, OnlyFileOpen, Unwritten, OnePlace, Next
    PROVE  Unwritten' /\ OnePlace'
<1>1. CASE UNCHANGED <<lines, buffer>>
  BY <1>1, StagesPass DEF Unwritten, OnePlace, Stands, Waits
<1>2. CASE Usable /\ file \in Records /\ Flushes(file)
  <2>1. /\ \A r, d, i : Stands(r, d, i)' <=>
            \/ Stands(r, d, i)
            \/ /\ d = handle[file].day
               /\ \E j : Waits(r, file, j) /\ i = Len(lines[d]) + j
        /\ \A r, g, i : Waits(r, g, i)' <=> Waits(r, g, i) /\ g # file
    BY <1>2, FlushMoves
  <2>2. \A r, g, i : ~Waits(r, g, i)'
    <3>1. \A r, g, i : Waits(r, g, i) => g = file
      BY PlacesTyped DEF OnlyFileOpen
    <3> QED  BY <2>1, <3>1
  <2>3. Unwritten'
    BY <2>1, <2>2, StagesPass DEF Unwritten
  <2>4. ASSUME NEW r \in Records
        PROVE  \A d, e, i, j : Stands(r, d, i)' /\ Stands(r, e, j)' =>
                    d = e /\ i = j
    BY <2>1 DEF OnePlace
  <2> QED  BY <2>2, <2>3, <2>4 DEF OnePlace
<1>3. CASE Usable /\ file \in Records /\ Drops(file)
  <2>1. /\ \A r, d, i : Stands(r, d, i)' <=> Stands(r, d, i)
        /\ \A r, g, i : Waits(r, g, i)' => Waits(r, g, i)
    BY <1>3, DirtyDrops DEF Drops
  <2> QED  BY <2>1, StagesPass DEF Unwritten, OnePlace
<1>4. ASSUME NEW q \in Records, ThreadWrites(q)
      PROVE  Unwritten' /\ OnePlace'
  <2>1. /\ \A r, d, i : Stands(r, d, i)' <=> Stands(r, d, i)
        /\ \A r, g, i : Waits(r, g, i)' <=>
            \/ Waits(r, g, i)
            \/ r = q /\ g = file /\ i = Len(buffer[file]) + 1
    BY <1>4, WriteAdds
  <2>2. /\ \A d, i : ~Stands(q, d, i)
        /\ \A h, i : ~Waits(q, h, i)
    BY <1>4 DEF ThreadWrites, Unwritten, BeforeWrite
  <2>3. ~BeforeWrite(q)'
    BY <1>4, StagesPass
  <2> QED  BY <2>1, <2>2, <2>3, StagesPass DEF Unwritten, OnePlace
<1>5. CASE NewProcess
  <2>1. /\ \A r, d, i : Stands(r, d, i)' <=> Stands(r, d, i)
        /\ \A r, g, i : ~Waits(r, g, i)'
    BY <1>5, NewProcessDrops
  <2> QED  BY <2>1, StagesPass DEF Unwritten, OnePlace
<1> QED  BY <1>1, <1>2, <1>3, <1>4, <1>5, DiskStep

-----------------------------------------------------------------------------
(* What was recorded is there.                                             *)

\* Who is cancelled stays so.
LEMMA CalmBefore ==
    ASSUME Typing, Next, Calm'
    PROVE  Calm
<1> USE DEF lockVars, taskVars
<1>0. pc \in [Records -> PCs]
  BY FileTypes
<1>1. ASSUME NEW r \in Records, NEW p, pc[r] # "cancelled", At(r, p)
      PROVE  Calm
  BY <1>0, <1>1 DEF At, Calm
<1>2. ASSUME NEW r \in Records,
             RecordEnters(r) \/ RecordWaits(r) \/ RecordLocked(r) \/ RecordEnds(r)
      PROVE  Calm
  <2>1. pc[r] # "cancelled" /\ \E p : At(r, p)
    BY <1>2 DEF RecordEnters, RecordWaits, Stamp, RecordLocked, RecordEnds
  <2> QED  BY <1>1, <2>1
<1>3. ASSUME NEW r \in Records, Cancel(r)
      PROVE  Calm
  BY <1>0, <1>3 DEF Cancel, Cancelled, At, Calm
<1>4. ASSUME pc' = pc PROVE Calm
  BY <1>4 DEF Calm
<1>5. ASSUME NEW r \in Records,
             \/ ThreadChecks(r) \/ ThreadCloses(r) \/ ThreadOpens(r)
             \/ ThreadOpenFails(r) \/ ThreadWrites(r) \/ ThreadFlushes(r)
             \/ ThreadFlushFails(r) \/ ThreadFindsNoFile(r)
      PROVE  pc' = pc
  BY <1>5 DEF ThreadChecks, ThreadCloses, ThreadOpens, ThreadOpenFails,
              ThreadWrites, ThreadFlushes, ThreadFlushFails, ThreadFindsNoFile
<1>6. ASSUME CloseLog \/ Midnight PROVE pc' = pc
  BY <1>6 DEF CloseLog, Midnight
<1>7. ASSUME Crash \/ Restart PROVE Calm
  BY <1>0, <1>7 DEF Crash, Restart, NewProcess, Calm
<1> QED  BY <1>2, <1>3, <1>4, <1>5, <1>6, <1>7 DEF Next, Step

\* While nobody is cancelled, the only thread is that of the holder.
LEMMA OneThread ==
    ASSUME Typing, Calm
    PROVE  \A r \in Records :
            thread[r] # "none" => lock = r /\ pc[r] = "thread"
BY LockTypes DEF Typing, ThreadHasCoroutine, Calm

\* Who is past its write wrote, who is past its flush flushed.
LEMMA StagesFrom ==
    ASSUME Typing, Next, NEW r \in Records
    PROVE  /\ thread'[r] = "flush" => thread[r] = "flush" \/ ThreadWrites(r)
           /\ thread'[r] = "end" => thread[r] = "end" \/ ThreadFlushes(r)
           /\ pc'[r] = "done" => pc[r] = "done" \/ thread[r] = "end"
<1> DEFINE Goal == /\ thread'[r] = "flush" => thread[r] = "flush" \/ ThreadWrites(r)
                   /\ thread'[r] = "end" => thread[r] = "end" \/ ThreadFlushes(r)
                   /\ pc'[r] = "done" => pc[r] = "done" \/ thread[r] = "end"
<1> USE DEF lockVars, taskVars
<1>0. /\ thread \in [Records -> Threads] /\ pc \in [Records -> PCs]
      /\ \A q \in Records : pc[q] = "thread" => thread[q] # "none"
  BY FileTypes DEF Typing, ThreadHasCoroutine
<1>1. ASSUME NEW q \in Records,
             RecordEnters(q) \/ RecordWaits(q) \/ RecordLocked(q) \/ Cancel(q)
      PROVE  Goal
  BY <1>0, <1>1 DEF RecordEnters, RecordWaits, Stamp, RecordLocked, Cancel,
                    Cancelled, At, Does
<1>2. ASSUME NEW q \in Records, RecordEnds(q)
      PROVE  Goal
  <2>1. thread[q] \in {"end", "refused", "error"}
    BY <1>0, <1>2 DEF RecordEnds, Threads
  <2>2. Result(q) = "done" => thread[q] = "end"
    BY <2>1 DEF Result
  <2> QED  BY <1>0, <1>2, <2>2 DEF RecordEnds, At, Does
<1>3. ASSUME NEW q \in Records, NEW s, Does(q, s), UNCHANGED pc,
             /\ s = "flush" => ThreadWrites(q)
             /\ s = "end" => ThreadFlushes(q)
      PROVE  Goal
  BY <1>0, <1>3 DEF Does
<1>4. ASSUME NEW q \in Records,
             \/ ThreadChecks(q) \/ ThreadCloses(q) \/ ThreadOpens(q)
             \/ ThreadOpenFails(q) \/ ThreadFlushFails(q) \/ ThreadFindsNoFile(q)
      PROVE  Goal
  <2>1. /\ UNCHANGED pc
        /\ \E s \in {"open", "close", "write", "refused", "error"} : Does(q, s)
    BY <1>4 DEF ThreadChecks, ThreadCloses, ThreadOpens, ThreadOpenFails,
                ThreadFlushFails, ThreadFindsNoFile
  <2> QED  BY <1>3, <2>1
<1>5. ASSUME NEW q \in Records, ThreadWrites(q) \/ ThreadFlushes(q)
      PROVE  Goal
  <2>1. CASE ThreadWrites(q)
    BY <1>3, <2>1 DEF ThreadWrites
  <2>2. CASE ThreadFlushes(q)
    BY <1>3, <2>2 DEF ThreadFlushes
  <2> QED  BY <1>5, <2>1, <2>2
<1>6. ASSUME CloseLog \/ Midnight PROVE Goal
  BY <1>6 DEF CloseLog, Midnight
<1>7. ASSUME Crash \/ Restart PROVE Goal
  BY <1>0, <1>7 DEF Crash, Restart, NewProcess
<1> QED  BY <1>1, <1>2, <1>4, <1>5, <1>6, <1>7 DEF Next, Step

Stood(r) == \E d, i : Stands(r, d, i)
Waited(r) == \E h, i : Waits(r, h, i)

LEMMA FlushedStands ==
    ASSUME Typing, NEW h \in Records, Flushes(h), NEW r, NEW i, Waits(r, h, i)
    PROVE  Stood(r)'
<1>1. PICK d, j : d = handle[h].day /\ j = Len(lines[d]) + i
  OBVIOUS
<1>2. Stands(r, d, j)'
  BY <1>1, FlushMoves
<1> QED  BY <1>2 DEF Stood

\* A thread that wrote left its line in the buffer of the open file, or
\* another took it to the disk; a thread that flushed left it on the disk.
Kept ==
    Calm \/ "full" \notin Faults => \A r \in Records :
        /\ thread[r] = "flush" => Stood(r) \/ Waited(r)
        /\ thread[r] = "end" \/ pc[r] = "done" => Stood(r)

LEMMA KeptStep ==
    ASSUME Typing, OnlyFileOpen, Kept, Next
    PROVE  Kept'
<1> SUFFICES ASSUME Calm' \/ "full" \notin Faults, NEW r \in Records
             PROVE  /\ thread'[r] = "flush" => Stood(r)' \/ Waited(r)'
                    /\ thread'[r] = "end" \/ pc'[r] = "done" => Stood(r)'
  BY DEF Kept
<1>0. /\ thread[r] = "flush" => Stood(r) \/ Waited(r)
      /\ thread[r] = "end" \/ pc[r] = "done" => Stood(r)
  BY CalmBefore DEF Kept
<1>1. Stood(r) => Stood(r)'
  <2>1. CASE UNCHANGED <<lines, buffer>>
    BY <2>1 DEF Stood, Stands
  <2>2. CASE Usable /\ file \in Records /\ Flushes(file)
    BY <2>2, FlushMoves DEF Stood
  <2>3. CASE Usable /\ file \in Records /\ Drops(file)
    BY <2>3, DirtyDrops DEF Stood, Drops
  <2>4. ASSUME NEW q \in Records, ThreadWrites(q) PROVE Stood(r) => Stood(r)'
    BY <2>4, WriteAdds DEF Stood
  <2>5. CASE NewProcess
    BY <2>5, NewProcessDrops DEF Stood
  <2> QED  BY <2>1, <2>2, <2>3, <2>4, <2>5, DiskStep
<1>2. ASSUME thread'[r] = "flush", thread[r] = "flush" PROVE Stood(r)' \/ Waited(r)'
  <2>1. CASE UNCHANGED <<lines, buffer>>
    BY <1>0, <1>2, <2>1 DEF Stood, Stands, Waited, Waits
  <2>2. CASE Usable /\ file \in Records /\ Flushes(file)
    <3>1. ASSUME Waited(r) PROVE Stood(r)' \/ Waited(r)'
      <4>1. PICK h, i : Waits(r, h, i)
        BY <3>1 DEF Waited
      <4>2. CASE h = file
        BY <2>2, <4>1, <4>2, FlushedStands
      <4>3. CASE h # file
        BY <2>2, <4>1, <4>3, FlushMoves DEF Waited
      <4> QED  BY <4>2, <4>3
    <3> QED  BY <1>0, <1>1, <1>2, <3>1
  <2>3. CASE Usable /\ file \in Records /\ Drops(file)
    <3>1. Calm /\ \E q \in Records : thread[q] = "close"
      BY <2>3, CalmBefore DEF Drops
    <3> QED  BY <1>2, <3>1, OneThread
  <2>4. ASSUME NEW q \in Records, ThreadWrites(q) PROVE Stood(r)' \/ Waited(r)'
    BY <1>0, <1>1, <1>2, <2>4, WriteAdds DEF Waited
  <2>5. CASE NewProcess
    BY <1>2, <2>5 DEF NewProcess
  <2> QED  BY <2>1, <2>2, <2>3, <2>4, <2>5, DiskStep
<1>3. ASSUME ThreadWrites(r) PROVE Waited(r)'
  <2>1. PICK h, i : h = file /\ i = Len(buffer[file]) + 1
    OBVIOUS
  <2>2. Waits(r, h, i)'
    BY <1>3, <2>1, WriteAdds
  <2> QED  BY <2>2 DEF Waited
<1>4. ASSUME ThreadFlushes(r) PROVE Stood(r)'
  <2>1. /\ thread[r] = "flush" /\ file \in Records /\ Flushes(file)
    BY <1>4, FileTypes DEF ThreadFlushes, Usable
  <2>2. ASSUME Waited(r) PROVE Stood(r)'
    <3>1. PICK h, i : Waits(r, h, i)
      BY <2>2 DEF Waited
    <3>2. h = file
      BY <3>1, PlacesTyped DEF OnlyFileOpen
    <3> QED  BY <2>1, <3>1, <3>2, FlushedStands
  <2> QED  BY <1>0, <1>1, <2>1, <2>2
<1>5. /\ thread'[r] = "flush" => thread[r] = "flush" \/ ThreadWrites(r)
      /\ thread'[r] = "end" => thread[r] = "end" \/ ThreadFlushes(r)
      /\ pc'[r] = "done" => pc[r] = "done" \/ thread[r] = "end"
  BY StagesFrom
<1> QED  BY <1>0, <1>1, <1>2, <1>3, <1>4, <1>5

-----------------------------------------------------------------------------
(* The days of the files.                                                  *)

\* Nothing is of a day to come, and the sweep spares the retention days.
Past ==
    /\ \A r \in Records :
        stamp[r] <= today /\ target[r] <= today /\ handle[r].day <= today
    /\ \A d \in Days : lines[d] # <<>> => d <= today
    /\ swept = 0 \/ swept + Retention <= today

\* Lines appear in the file that is open and in no other.
LEMMA FilledDays ==
    ASSUME Typing, Next, NEW d \in Days, lines'[d] # <<>>
    PROVE  lines[d] # <<>> \/ (Usable /\ d = handle[file].day)
<1>1. CASE UNCHANGED lines
  BY <1>1
<1>2. CASE Usable /\ file \in Records /\ Flushes(file)
  BY <1>2, FileTypes DEF Flushes
<1>3. (\E q \in Records : ThreadWrites(q)) \/ NewProcess => UNCHANGED lines
  BY DEF ThreadWrites, NewProcess, diskVars
<1> QED  BY <1>1, <1>2, <1>3, DiskStep DEF Drops

\* Days come from the clock, and the clock does not go back.
LEMMA DaysStep ==
    ASSUME Typing, Next
    PROVE  /\ today' = today \/ today' = today + 1
           /\ \/ swept' = swept
              \/ today > Retention + swept /\ swept' = today - Retention
           /\ \A r \in Records :
                /\ stamp'[r] = stamp[r] \/ (pc[r] = "new" /\ stamp'[r] = today)
                /\ target'[r] \in {target[r], today, 0}
                /\ \/ handle'[r].day = handle[r].day
                   \/ ThreadOpens(r) /\ handle'[r].day = target[r]
<1> DEFINE Clock == /\ today' = today \/ today' = today + 1
                    /\ \/ swept' = swept
                       \/ today > Retention + swept /\ swept' = today - Retention
           Day(r) == /\ \/ stamp'[r] = stamp[r]
                        \/ pc[r] = "new" /\ stamp'[r] = today
                     /\ target'[r] \in {target[r], today, 0}
                     /\ \/ handle'[r].day = handle[r].day
                        \/ ThreadOpens(r) /\ handle'[r].day = target[r]
           Goal == Clock /\ \A r \in Records : Day(r)
<1> USE DEF envVars, fileVars, taskVars, diskVars
<1>0. /\ stamp \in [Records -> Days] /\ target \in [Records -> Days]
      /\ handle \in [Records -> [day : Days, open : BOOLEAN]]
      /\ Usable => file \in Records
  BY FileTypes, DayTypes DEF Usable
<1>1. ASSUME NEW q \in Records,
             \/ RecordEnters(q) \/ RecordWaits(q) \/ RecordLocked(q)
             \/ RecordEnds(q) \/ Cancel(q) \/ ThreadChecks(q)
             \/ ThreadOpenFails(q) \/ ThreadWrites(q)
             \/ ThreadFlushFails(q) \/ ThreadFindsNoFile(q)
      PROVE  Goal
  <2>1. /\ UNCHANGED <<today, handle, swept>>
        /\ \/ UNCHANGED stamp
           \/ pc[q] = "new" /\ stamp' = [stamp EXCEPT ![q] = today]
        /\ \/ UNCHANGED target
           \/ target' = [target EXCEPT ![q] = today]
    BY <1>1 DEF RecordEnters, RecordWaits, Stamp, RecordLocked, RecordEnds,
                Cancel, Strikes, ThreadChecks, ThreadOpenFails, ThreadWrites,
                ThreadFlushFails, ThreadFindsNoFile
  <2> QED  BY <1>0, <2>1
<1>2. ASSUME NEW q \in Records, ThreadCloses(q)
      PROVE  Goal
  <2>1. /\ UNCHANGED <<today, stamp, target>>
        /\ UNCHANGED swept
        /\ \/ UNCHANGED handle
           \/ Usable /\ handle' = [handle EXCEPT ![file].open = FALSE]
    BY <1>2 DEF ThreadCloses, Closes, ClosesDirty, Flushes
  <2> QED  BY <1>0, <2>1
<1>3. ASSUME NEW q \in Records, ThreadFlushes(q)
      PROVE  Goal
  BY <1>3 DEF ThreadFlushes, Flushes
<1>4. ASSUME NEW q \in Records, ThreadOpens(q)
      PROVE  Goal
  <2> DEFINE opened == [day |-> target[q], open |-> TRUE]
  <2>1. /\ UNCHANGED <<today, stamp, swept>>
        /\ target' = [target EXCEPT ![q] = 0]
        /\ \/ handle' = [handle EXCEPT ![q] = opened]
           \/ /\ Usable
              /\ handle' = [handle EXCEPT ![file].open = FALSE, ![q] = opened]
    BY <1>4 DEF ThreadOpens, Flushes
  <2>2. Day(q)
    BY <1>0, <1>4, <2>1
  <2>3. ASSUME NEW r \in Records, q # r PROVE Day(r)
    BY <1>0, <2>1, <2>3
  <2> QED  BY <2>1, <2>2, <2>3
<1>5. CASE CloseLog
  <2>1. /\ UNCHANGED <<today, stamp, target>>
        /\ UNCHANGED swept
        /\ \/ UNCHANGED handle
           \/ Usable /\ handle' = [handle EXCEPT ![file].open = FALSE]
    BY <1>5 DEF CloseLog, Closes, Flushes
  <2> QED  BY <1>0, <2>1
<1>6. CASE Crash \/ Restart
  <2>1. NewProcess
    BY <1>6 DEF Crash, Restart
  <2> QED  BY <1>0, <2>1 DEF NewProcess, Sweep
<1>7. CASE Midnight
  BY <1>7 DEF Midnight
<1> QED  BY <1>1, <1>2, <1>3, <1>4, <1>5, <1>6, <1>7 DEF Next, Step

LEMMA PastStep ==
    ASSUME Typing, Past, Next
    PROVE  Past'
<1>0. /\ stamp \in [Records -> Days] /\ target \in [Records -> Days]
      /\ today \in Days /\ swept \in Days /\ Days \subseteq Nat
      /\ handle \in [Records -> [day : Days, open : BOOLEAN]]
      /\ Retention \in Nat
  BY FileTypes, DayTypes, NumbersAssumption
<1>1. today' = today \/ today' = today + 1
  BY DaysStep
<1>2. ASSUME NEW r \in Records
      PROVE  /\ stamp'[r] <= today' /\ target'[r] <= today'
             /\ handle'[r].day <= today'
  <2>1. /\ stamp'[r] = stamp[r] \/ stamp'[r] = today
        /\ target'[r] = target[r] \/ target'[r] = today \/ target'[r] = 0
        /\ handle'[r].day = handle[r].day \/ handle'[r].day = target[r]
    BY DaysStep
  <2>2. /\ stamp[r] \in Nat /\ target[r] \in Nat /\ handle[r].day \in Nat
        /\ stamp[r] <= today /\ target[r] <= today /\ handle[r].day <= today
    BY <1>0 DEF Past
  <2>3. today \in Nat /\ today <= today' /\ 0 <= today
    BY <1>0, <1>1
  <2> QED  BY <1>1, <2>1, <2>2, <2>3
<1>3. ASSUME NEW d \in Days, lines'[d] # <<>>
      PROVE  d <= today'
  <2>1. d <= today
    BY <1>3, FilledDays, FileTypes DEF Past, Usable
  <2> QED  BY <1>0, <1>1, <2>1
<1>4. swept' = 0 \/ swept' + Retention <= today'
  <2>1. \/ swept' = swept
        \/ today > Retention + swept /\ swept' = today - Retention
    BY DaysStep
  <2> QED  BY <1>0, <1>1, <2>1 DEF Past
<1> QED  BY <1>2, <1>3, <1>4 DEF Past

\* While nobody is cancelled: no file has lines of a later day than the file
\* that is open; one that was closed is not of today; the thread that rolls
\* over goes on to a later day than that of the file, not before its ts.
NewestFile ==
    /\ Usable => \A d \in Days : lines[d] # <<>> => d <= handle[file].day
    /\ file # None /\ ~Usable => handle[file].day < today
    /\ \A r \in Records :
        /\ thread[r] \in {"close", "open"} =>
            /\ stamp[r] <= target[r]
            /\ file # None => handle[file].day < target[r]
            /\ \A d \in Days : lines[d] # <<>> => d <= target[r]
        /\ thread[r] \in {"write", "flush"} /\ file # None =>
            stamp[r] <= handle[file].day

\* The thread of a tool call finds its file.
CallsServed ==
    \A c \in Calls :
        /\ thread[c] \in {"write", "flush"} => Usable
        /\ thread[c] # "error" /\ pc[c] # "broken"

\* A step that leaves the threads, the files and the clock alone.
LEMMA FilesStand ==
    ASSUME Typing, NewestFile, NEW r \in Records,
           UNCHANGED <<file, handle, lines, today, target>>,
           \A q \in Records \ {r} : stamp'[q] = stamp[q] /\ thread'[q] = thread[q],
           thread'[r] \notin {"close", "open"},
           thread'[r] \in {"write", "flush"} =>
              thread[r] \in {"write", "flush"} /\ stamp'[r] = stamp[r]
    PROVE  NewestFile'
BY DEF NewestFile, Usable

\* What a step adds to the files is of no later day than the day for which
\* the thread rolls over.
LEMMA FilledBefore ==
    ASSUME Typing, Next, NEW r \in Records,
           file # None => handle[file].day < target[r],
           \A d \in Days : lines[d] # <<>> => d <= target[r]
    PROVE  \A d \in Days : lines'[d] # <<>> => d <= target[r]
<1>1. target[r] \in Nat
  BY DayTypes
<1>2. Usable => handle[file].day \in Nat /\ handle[file].day < target[r]
  BY FileTypes, DayTypes DEF Usable
<1>3. SUFFICES ASSUME NEW d \in Days, lines'[d] # <<>>, d = handle[file].day, Usable
               PROVE  d <= target[r]
  BY FilledDays
<1> QED  BY <1>1, <1>2, <1>3

LEMMA NewestStep ==
    ASSUME Typing, OnlyFileOpen, Unopened, Past, NewestFile, Next, Calm'
    PROVE  NewestFile'
<1> USE DEF envVars, lockVars, fileVars, taskVars, diskVars
<1>0. /\ file \in Records \cup {None} /\ None \notin Records
      /\ handle \in [Records -> [day : Days, open : BOOLEAN]]
      /\ thread \in [Records -> Threads] /\ pc \in [Records -> PCs]
      /\ stamp \in [Records -> Days] /\ target \in [Records -> Days]
      /\ today \in Days /\ Days \subseteq Nat
      /\ Usable => file \in Records
  BY FileTypes, DayTypes DEF Usable
<1>1. /\ Calm
      /\ \A r \in Records : thread[r] # "none" => lock = r /\ pc[r] = "thread"
  BY CalmBefore, OneThread
<1>2. \A d \in Days : lines'[d] # <<>> =>
        lines[d] # <<>> \/ (Usable /\ d = handle[file].day)
  BY FilledDays
<1>3. ASSUME NEW r \in Records,
             \/ RecordEnters(r) \/ RecordWaits(r) \/ RecordLocked(r)
             \/ RecordEnds(r) \/ ThreadOpenFails(r) \/ ThreadWrites(r)
             \/ ThreadFlushFails(r) \/ ThreadFindsNoFile(r)
      PROVE  NewestFile'
  <2>1. /\ UNCHANGED <<file, handle, lines, today, target>>
        /\ \A q \in Records \ {r} :
            stamp'[q] = stamp[q] /\ thread'[q] = thread[q]
        /\ thread'[r] \notin {"close", "open"}
        /\ thread'[r] \in {"write", "flush"} =>
            thread[r] \in {"write", "flush"} /\ stamp'[r] = stamp[r]
    BY <1>0, <1>1, <1>3
       DEF RecordEnters, RecordWaits, Stamp, RecordLocked, RecordEnds,
           ThreadOpenFails, ThreadWrites, ThreadFlushFails, ThreadFindsNoFile,
           Strikes, Does
  <2> QED  BY <2>1, FilesStand
<1>4. ASSUME NEW r \in Records, Cancel(r)
      PROVE  FALSE
  BY <1>0, <1>4 DEF Cancel, Cancelled, At, Calm
<1>5. ASSUME NEW r \in Records, ThreadChecks(r)
      PROVE  NewestFile'
  <2>1. /\ UNCHANGED <<file, handle, lines, today, stamp>>
        /\ \A q \in Records \ {r} :
            thread'[q] = thread[q] /\ target'[q] = target[q]
    BY <1>0, <1>5 DEF ThreadChecks, Does
  <2>2. /\ stamp[r] <= today
        /\ file # None => handle[file].day <= today
        /\ \A d \in Days : lines[d] # <<>> => d <= today
    BY <1>0 DEF Past
  <2>3. \/ /\ file = None \/ handle[file].day < today
           /\ target'[r] = today /\ thread'[r] \in {"open", "close"}
        \/ file # None /\ handle[file].day = today /\ thread'[r] = "write"
    BY <1>0, <1>5, <2>2 DEF ThreadChecks, Does
  <2> QED  BY <1>0, <2>1, <2>2, <2>3 DEF NewestFile, Usable
<1>6. ASSUME NEW r \in Records, ThreadCloses(r)
      PROVE  NewestFile'
  <2>1. /\ UNCHANGED <<file, today, stamp, target>>
        /\ thread[r] = "close" /\ thread'[r] \in {"open", "refused"}
        /\ \A q \in Records \ {r} : thread'[q] = "none"
        /\ \A h \in Records : handle'[h].day = handle[h].day
        /\ ~Usable'
    <3>1. CASE Usable /\ handle' = [handle EXCEPT ![file].open = FALSE]
      BY <1>0, <1>1, <1>6, <3>1 DEF ThreadCloses, Does, Usable
    <3>2. CASE ~Usable /\ UNCHANGED handle
      BY <1>0, <1>1, <1>6, <3>2 DEF ThreadCloses, Does, Usable
    <3> QED  BY <1>6, <3>1, <3>2 DEF ThreadCloses, Closes, ClosesDirty
  <2>2. /\ stamp[r] <= target[r] /\ target[r] <= today
        /\ file # None => handle[file].day < target[r]
        /\ \A d \in Days : lines[d] # <<>> => d <= target[r]
    BY <2>1 DEF NewestFile, Past
  <2>3. \A d \in Days : lines'[d] # <<>> => d <= target[r]
    BY <2>2, FilledBefore
  <2>4. file # None => handle[file].day < today
    <3>1. file # None => handle[file].day \in Nat
      BY <1>0
    <3>2. target[r] \in Nat /\ today \in Nat
      BY <1>0
    <3> QED  BY <2>2, <3>1, <3>2
  <2> QED  BY <1>0, <2>1, <2>2, <2>3, <2>4 DEF NewestFile
<1>7. ASSUME NEW r \in Records, ThreadOpens(r)
      PROVE  NewestFile'
  <2>1. /\ file' = r /\ thread[r] = "open" /\ thread'[r] = "write"
        /\ UNCHANGED <<today, stamp>>
        /\ \A q \in Records \ {r} : thread'[q] = "none"
    BY <1>0, <1>1, <1>7 DEF ThreadOpens, Does, Flushes
  <2>2. handle'[r].day = target[r] /\ handle'[r].open
    <3>1. \/ handle' = [handle EXCEPT ![r] = [day |-> target[r], open |-> TRUE]]
          \/ handle' = [handle EXCEPT ![file].open = FALSE,
                                      ![r] = [day |-> target[r], open |-> TRUE]]
      BY <1>7 DEF ThreadOpens
    <3> QED  BY <1>0, <3>1
  <2>3. /\ stamp[r] <= target[r]
        /\ file # None => handle[file].day < target[r]
        /\ \A d \in Days : lines[d] # <<>> => d <= target[r]
    BY <2>1 DEF NewestFile
  <2>4. \A d \in Days : lines'[d] # <<>> => d <= target[r]
    BY <2>3, FilledBefore
  <2> QED  BY <1>0, <2>1, <2>2, <2>3, <2>4 DEF NewestFile, Usable
<1>8. ASSUME NEW r \in Records, ThreadFlushes(r)
      PROVE  NewestFile'
  <2>1. /\ UNCHANGED <<file, handle, today, stamp, target>> /\ Usable
        /\ thread'[r] = "end"
        /\ \A q \in Records \ {r} : thread'[q] = "none"
    BY <1>0, <1>1, <1>8 DEF ThreadFlushes, Does
  <2>2. \A d \in Days : lines'[d] # <<>> => d <= handle[file].day
    <3>1. handle[file].day \in Nat
      BY <1>0, <2>1
    <3> QED  BY <1>2, <2>1, <3>1 DEF NewestFile
  <2> QED  BY <2>1, <2>2 DEF NewestFile, Usable
<1>9. CASE CloseLog
  <2>1. file' = None /\ UNCHANGED <<today, stamp, target, thread>>
    BY <1>9 DEF CloseLog
  <2>2. ASSUME NEW r \in Records, thread[r] \in {"close", "open"}
        PROVE  \A d \in Days : lines'[d] # <<>> => d <= target[r]
    BY <2>2, FilledBefore DEF NewestFile
  <2> QED  BY <1>0, <2>1, <2>2 DEF NewestFile, Usable
<1>10. CASE Crash \/ Restart
  <2>1. file' = None /\ thread' = [r \in Records |-> "none"]
    BY <1>10 DEF Crash, Restart, NewProcess
  <2> QED  BY <2>1 DEF NewestFile, Usable
<1>11. CASE Midnight
  <2>1. /\ UNCHANGED <<file, handle, lines, stamp, target, thread>>
        /\ today' = today + 1
    BY <1>11 DEF Midnight
  <2>2. ASSUME file # None, ~Usable PROVE handle[file].day < today'
    <3>1. handle[file].day \in Nat /\ handle[file].day < today /\ today \in Nat
      BY <1>0, <2>2 DEF NewestFile
    <3> QED  BY <2>1, <3>1
  <2> QED  BY <2>1, <2>2 DEF NewestFile, Usable
<1> QED  BY <1>3, <1>4, <1>5, <1>6, <1>7, <1>8, <1>9, <1>10, <1>11
         DEF Next, Step

LEMMA ServedStep ==
    ASSUME Typing, NewestFile, CallsServed, Next, Calm'
    PROVE  CallsServed'
<1> USE DEF envVars, lockVars, fileVars, taskVars, diskVars
<1>0. /\ file \in Records \cup {None} /\ None \notin Records
      /\ handle \in [Records -> [day : Days, open : BOOLEAN]]
      /\ thread \in [Records -> Threads] /\ pc \in [Records -> PCs]
      /\ today \in Days /\ Days \subseteq Nat /\ Calls \subseteq Records
  BY FileTypes, DayTypes DEF Records
<1>1. /\ Calm
      /\ \A r \in Records : thread[r] # "none" => lock = r /\ pc[r] = "thread"
  BY CalmBefore, OneThread
<1>2. ASSUME NEW r \in Records,
             \/ RecordEnters(r) \/ RecordWaits(r) \/ RecordLocked(r)
             \/ ThreadOpenFails(r) \/ ThreadFlushFails(r)
      PROVE  CallsServed'
  <2>1. /\ UNCHANGED <<file, handle>>
        /\ \A q \in Records \ {r} : thread'[q] = thread[q] /\ pc'[q] = pc[q]
        /\ thread'[r] \in {thread[r], "queued", "refused"}
        /\ pc'[r] \in {pc[r], "lock", "thread"}
    BY <1>0, <1>2
       DEF RecordEnters, RecordWaits, Stamp, RecordLocked,
           ThreadOpenFails, ThreadFlushFails, At, Does
  <2> QED  BY <1>0, <2>1 DEF CallsServed, Usable
<1>3. ASSUME NEW r \in Records, RecordEnds(r)
      PROVE  CallsServed'
  <2>1. thread[r] \in {"end", "refused", "error"}
    BY <1>0, <1>3 DEF RecordEnds, Threads, Typing, ThreadHasCoroutine
  <2>2. Result(r) = "broken" => thread[r] = "error"
    BY <2>1 DEF Result
  <2>3. /\ UNCHANGED <<file, handle>> /\ thread'[r] = "none"
        /\ \A q \in Records \ {r} : thread'[q] = thread[q] /\ pc'[q] = pc[q]
        /\ pc'[r] = Result(r)
    BY <1>0, <1>3 DEF RecordEnds, At, Does
  <2> QED  BY <1>0, <2>2, <2>3 DEF CallsServed, Usable
<1>4. ASSUME NEW r \in Records, Cancel(r)
      PROVE  FALSE
  BY <1>0, <1>4 DEF Cancel, Cancelled, At, Calm
<1>5. ASSUME NEW r \in Records, ThreadChecks(r)
      PROVE  CallsServed'
  <2>1. /\ UNCHANGED <<file, handle, pc>>
        /\ \A q \in Records \ {r} : thread'[q] = "none"
        /\ thread'[r] \in {"open", "close", "write"}
        /\ thread'[r] = "write" => file # None /\ handle[file].day = today
    BY <1>0, <1>1, <1>5 DEF ThreadChecks, Does
  <2>2. thread'[r] = "write" => Usable
    BY <1>0, <2>1 DEF NewestFile
  <2> QED  BY <1>0, <2>1, <2>2 DEF CallsServed, Usable
<1>6. ASSUME NEW r \in Records, ThreadCloses(r)
      PROVE  CallsServed'
  <2>1. /\ UNCHANGED pc
        /\ \A q \in Records \ {r} : thread'[q] = "none"
        /\ thread'[r] \in {"open", "refused"}
    BY <1>0, <1>1, <1>6 DEF ThreadCloses, Does
  <2> QED  BY <1>0, <2>1 DEF CallsServed
<1>7. ASSUME NEW r \in Records, ThreadOpens(r)
      PROVE  CallsServed'
  <2>1. /\ file' = r /\ thread'[r] = "write" /\ UNCHANGED pc
        /\ \A q \in Records \ {r} : thread'[q] = "none"
    BY <1>0, <1>1, <1>7 DEF ThreadOpens, Does
  <2>2. handle'[r].open
    <3>1. \/ handle' = [handle EXCEPT ![r] = [day |-> target[r], open |-> TRUE]]
          \/ handle' = [handle EXCEPT ![file].open = FALSE,
                                      ![r] = [day |-> target[r], open |-> TRUE]]
      BY <1>7 DEF ThreadOpens
    <3> QED  BY <1>0, <3>1
  <2> QED  BY <1>0, <2>1, <2>2 DEF CallsServed, Usable
<1>8. ASSUME NEW r \in Records, ThreadWrites(r) \/ ThreadFlushes(r)
      PROVE  CallsServed'
  <2>1. /\ UNCHANGED <<file, handle, pc>> /\ Usable
        /\ thread'[r] \in {"flush", "end"}
        /\ \A q \in Records \ {r} : thread'[q] = "none"
    BY <1>0, <1>1, <1>8 DEF ThreadWrites, ThreadFlushes, Does
  <2> QED  BY <1>0, <2>1 DEF CallsServed, Usable
<1>9. ASSUME NEW r \in Records, ThreadFindsNoFile(r)
      PROVE  CallsServed'
  <2>1. r \notin Calls
    BY <1>9 DEF ThreadFindsNoFile, CallsServed
  <2>2. /\ UNCHANGED <<file, handle, pc>>
        /\ \A q \in Records \ {r} : thread'[q] = "none"
    BY <1>0, <1>1, <1>9 DEF ThreadFindsNoFile, Does
  <2> QED  BY <1>0, <2>1, <2>2 DEF CallsServed
<1>10. CASE CloseLog
  <2>1. /\ UNCHANGED <<pc, thread>>
        /\ \A c \in Calls : thread[c] = "none"
    BY <1>0, <1>1, <1>10 DEF CloseLog, Ended
  <2> QED  BY <2>1 DEF CallsServed
<1>11. CASE Crash \/ Restart
  <2>1. /\ thread' = [r \in Records |-> "none"]
        /\ pc' = [r \in Records |->
                IF pc[r] \in {"lock", "thread"} THEN "crashed" ELSE pc[r]]
    BY <1>11 DEF Crash, Restart, NewProcess
  <2> QED  BY <1>0, <2>1 DEF CallsServed
<1>12. CASE Midnight
  BY <1>12 DEF Midnight, CallsServed, Usable
<1> QED  BY <1>2, <1>3, <1>4, <1>5, <1>6, <1>7, <1>8, <1>9, <1>10, <1>11,
            <1>12 DEF Next, Step

\* A line waits or stands in no file of a day before its ts.
StampsPast ==
    \A r \in Records :
        /\ \A h, i : Waits(r, h, i) => stamp[r] <= handle[h].day
        /\ \A d, i : Stands(r, d, i) => stamp[r] <= d

LEMMA StampsStep ==
    ASSUME Typing, OnlyFileOpen, Unopened, Unwritten, NewestFile, StampsPast,
           Next, Calm
    PROVE  StampsPast'
<1>1. ASSUME NEW r \in Records, NEW d, NEW i, Stands(r, d, i)
      PROVE  stamp'[r] = stamp[r] /\ stamp[r] <= d
  BY <1>1, DaysStep DEF Unwritten, BeforeWrite, BeforeOpen, StampsPast
<1>2. ASSUME NEW r \in Records, NEW h, NEW i, Waits(r, h, i), buffer'[h] # <<>>
      PROVE  /\ stamp'[r] = stamp[r] /\ handle'[h].day = handle[h].day
             /\ stamp[r] <= handle[h].day
  <2>1. h = file /\ h \in Records
    BY <1>2, PlacesTyped DEF OnlyFileOpen
  <2>2. ~ThreadOpens(h)
    BY <2>1 DEF ThreadOpens, Unopened, BeforeOpen
  <2> QED  BY <1>2, <2>1, <2>2, DaysStep
           DEF Unwritten, BeforeWrite, BeforeOpen, StampsPast
<1>3. CASE UNCHANGED <<lines, buffer>>
  <2>1. \A r, h, i : Waits(r, h, i)' => Waits(r, h, i) /\ buffer'[h] # <<>>
    BY <1>3, PlacesTyped DEF Waits
  <2>2. \A r, d, i : Stands(r, d, i)' => Stands(r, d, i)
    BY <1>3 DEF Stands
  <2> QED  BY <1>1, <1>2, <2>1, <2>2 DEF StampsPast
<1>4. CASE Usable /\ file \in Records /\ Flushes(file)
  <2>1. \A r, h, i : ~Waits(r, h, i)'
    BY <1>4, FlushMoves, PlacesTyped DEF OnlyFileOpen
  <2>2. ASSUME NEW r \in Records, NEW d, NEW i, Stands(r, d, i)'
        PROVE  stamp'[r] <= d
    <3>1. CASE Stands(r, d, i)
      BY <1>1, <3>1
    <3>2. ASSUME NEW j, d = handle[file].day, Waits(r, file, j)
          PROVE  stamp'[r] <= d
      BY <3>2, DaysStep DEF Unwritten, BeforeWrite, BeforeOpen, StampsPast
    <3> QED  BY <1>4, <2>2, <3>1, <3>2, FlushMoves
  <2> QED  BY <2>1, <2>2 DEF StampsPast
<1>5. CASE (Usable /\ file \in Records /\ Drops(file)) \/ NewProcess
  <2>1. /\ \A r, h, i : ~Waits(r, h, i)'
        /\ \A r, d, i : Stands(r, d, i)' => Stands(r, d, i)
    BY <1>5, DirtyDrops, NewProcessDrops, PlacesTyped DEF Drops, OnlyFileOpen
  <2> QED  BY <1>1, <2>1 DEF StampsPast
<1>6. ASSUME NEW q \in Records, ThreadWrites(q)
      PROVE  StampsPast'
  <2>1. /\ \A r, d, i : Stands(r, d, i)' <=> Stands(r, d, i)
        /\ \A r, h, i : Waits(r, h, i)' <=>
            \/ Waits(r, h, i)
            \/ r = q /\ h = file /\ i = Len(buffer[file]) + 1
    BY <1>6, WriteAdds
  <2>2. /\ UNCHANGED <<stamp, handle>> /\ file # None
        /\ stamp[q] <= handle[file].day
    BY <1>6 DEF ThreadWrites, Usable, fileVars, NewestFile
  <2> QED  BY <2>1, <2>2 DEF StampsPast
<1> QED  BY <1>3, <1>4, <1>5, <1>6, DiskStep

-----------------------------------------------------------------------------
(* The order of the lines.                                                 *)

\* The lines stand, and wait behind them, in the order of the calls.
Sorted ==
    \A q, r \in Records :
        /\ Began(q, r) => \A d, e, i, j :
            Stands(q, d, i) /\ Stands(r, e, j) => Before(<<d, i>>, <<e, j>>)
        /\ Began(q, r) => \A h, g, i, j :
            Waits(q, h, i) /\ Waits(r, g, j) => i < j
        /\ \A d, i, h, j : Stands(q, d, i) /\ Waits(r, h, j) => Began(q, r)

LEMMA BeganTotal ==
    ASSUME Typing, BegunOnce, NEW q \in Records, NEW r \in Records,
           q # r, pc[q] # "new", pc[r] # "new"
    PROVE  Began(q, r) \/ Began(r, q)
<1>1. PICK i \in DOMAIN begun : begun[i] = q
  BY DEF BegunOnce
<1>2. PICK j \in DOMAIN begun : begun[j] = r
  BY DEF BegunOnce
<1>3. i \in Nat /\ j \in Nat /\ i # j
  BY <1>1, <1>2, LockTypes
<1>4. i < j \/ j < i
  BY <1>3
<1> QED  BY <1>1, <1>2, <1>4 DEF Began

\* Whose line is somewhere was called before the one that writes now.
LEMMA WritesLast ==
    ASSUME Typing, FirstCome, Unwritten, Calm,
           NEW w \in Records, thread[w] = "write", NEW r \in Records,
           Stood(r) \/ Waited(r)
    PROVE  Began(r, w)
<1>1. lock = w /\ pc[w] = "thread"
  BY OneThread
<1>2. ~BeforeWrite(r)
  BY DEF Unwritten, Stood, Waited
<1>3. r # w
  BY <1>2 DEF BeforeWrite
<1>4. pc[r] \in Ended \ {"cancelled"}
  BY <1>1, <1>2, <1>3, LockTypes
     DEF BeforeWrite, BeforeOpen, PCs, Calm
<1> QED  BY <1>1, <1>4 DEF FirstCome

LEMMA SortedStep ==
    ASSUME Typing, BegunOnce, FirstCome, OnlyFileOpen, Unwritten, NewestFile,
           Sorted, Next, Calm
    PROVE  Sorted'
<1>0. /\ \A q, r : Began(q, r) => Began(q, r)'
      /\ \A q, r : Began(q, r)' => q # r /\ ~Began(r, q)'
  <2>1. /\ begun' \in Seq(Records) /\ BegunOnce'
        /\ \A q, r : Began(q, r) => Began(q, r)'
    BY TypingStep, OrderStep DEF Typing, DataTyped
  <2>2. ASSUME NEW q, NEW r, Began(q, r)'
        PROVE  q # r /\ ~Began(r, q)'
    BY <2>1, <2>2, OneOrder DEF Began, BegunOnce
  <2> QED  BY <2>1, <2>2
<1>1. ASSUME NEW q \in Records, NEW r \in Records, Began(q, r)',
             Stood(q) \/ Waited(q), Stood(r) \/ Waited(r)
      PROVE  Began(q, r)
  <2>1. q # r /\ ~Began(r, q)'
    BY <1>0, <1>1
  <2>2. pc[q] # "new" /\ pc[r] # "new"
    BY <1>1 DEF Unwritten, BeforeWrite, BeforeOpen, Stood, Waited
  <2> QED  BY <1>0, <2>1, <2>2, BeganTotal
<1>2. ASSUME \A r, d, i : Stands(r, d, i)' => Stands(r, d, i),
             \A r, h, i : Waits(r, h, i)' => Waits(r, h, i)
      PROVE  Sorted'
  <2>1. ASSUME NEW q \in Records, NEW r \in Records, Began(q, r)',
               NEW d, NEW e, NEW i, NEW j, Stands(q, d, i)', Stands(r, e, j)'
        PROVE  Before(<<d, i>>, <<e, j>>)
    BY <1>1, <1>2, <2>1 DEF Sorted, Stood
  <2>2. ASSUME NEW q \in Records, NEW r \in Records, Began(q, r)',
               NEW h, NEW g, NEW i, NEW j, Waits(q, h, i)', Waits(r, g, j)'
        PROVE  i < j
    BY <1>1, <1>2, <2>2 DEF Sorted, Waited
  <2>3. ASSUME NEW q \in Records, NEW r \in Records,
               NEW d, NEW i, NEW h, NEW j, Stands(q, d, i)', Waits(r, h, j)'
        PROVE  Began(q, r)'
    BY <1>0, <1>2, <2>3 DEF Sorted
  <2> QED  BY <2>1, <2>2, <2>3 DEF Sorted, Before
<1>3. CASE UNCHANGED <<lines, buffer>>
  BY <1>2, <1>3 DEF Stands, Waits
<1>4. CASE (Usable /\ file \in Records /\ Drops(file)) \/ NewProcess
  <2>1. CASE Usable /\ file \in Records /\ Drops(file)
    BY <1>2, <2>1, DirtyDrops DEF Drops
  <2>2. CASE NewProcess
    BY <1>2, <2>2, NewProcessDrops
  <2> QED  BY <1>4, <2>1, <2>2
<1>5. CASE Usable /\ file \in Records /\ Flushes(file)
  <2>1. /\ \A r, d, i : Stands(r, d, i)' <=>
            \/ Stands(r, d, i)
            \/ /\ d = handle[file].day
               /\ \E k : Waits(r, file, k) /\ i = Len(lines[d]) + k
        /\ \A r, h, i : ~Waits(r, h, i)'
    BY <1>5, FlushMoves, PlacesTyped DEF OnlyFileOpen
  <2>2. ASSUME NEW q \in Records, NEW r \in Records, Began(q, r)',
               NEW d, NEW e, NEW i, NEW j, Stands(q, d, i)', Stands(r, e, j)'
        PROVE  Before(<<d, i>>, <<e, j>>)
    <3>0. Began(q, r) /\ ~Began(r, q)
      <4>1. (Stood(q) \/ Waited(q)) /\ (Stood(r) \/ Waited(r))
        BY <2>1, <2>2 DEF Stood, Waited
      <4>2. Began(q, r)
        BY <1>1, <2>2, <4>1
      <4> QED  BY <4>2, BeganOnce
    <3>1. CASE Stands(q, d, i) /\ Stands(r, e, j)
      BY <3>0, <3>1 DEF Sorted
    <3>2. ASSUME NEW k, Stands(q, d, i), e = handle[file].day,
                 Waits(r, file, k), j = Len(lines[e]) + k
          PROVE  Before(<<d, i>>, <<e, j>>)
      <4>1. /\ i \in Nat /\ i <= Len(lines[d]) /\ lines[d] # <<>> /\ d \in Days
            /\ k \in Nat /\ 1 <= k
        BY <3>2, PlacesTyped
      <4>2. d <= e /\ d \in Nat /\ e \in Nat /\ Len(lines[e]) \in Nat
        BY <1>5, <3>2, <4>1, FileTypes, DayTypes DEF NewestFile
      <4>3. d < e \/ d = e
        BY <4>2
      <4>4. d = e => i < j
        BY <3>2, <4>1, <4>2
      <4> QED  BY <4>3, <4>4 DEF Before
    <3>3. ASSUME NEW k, Stands(r, e, j), Waits(q, file, k)
          PROVE  FALSE
      BY <3>0, <3>3 DEF Sorted
    <3>4. ASSUME NEW k, NEW l, d = handle[file].day, e = handle[file].day,
                 Waits(q, file, k), i = Len(lines[d]) + k,
                 Waits(r, file, l), j = Len(lines[e]) + l
          PROVE  Before(<<d, i>>, <<e, j>>)
      <4>1. k < l
        BY <3>0, <3>4 DEF Sorted
      <4>2. k \in Nat /\ l \in Nat /\ Len(lines[d]) \in Nat
        BY <1>5, <3>4, PlacesTyped, FileTypes
      <4>3. d = e /\ i < j
        BY <3>4, <4>1, <4>2
      <4> QED  BY <4>3 DEF Before
    <3> QED  BY <2>1, <2>2, <3>1, <3>2, <3>3, <3>4
  <2> QED  BY <2>1, <2>2 DEF Sorted, Before
<1>6. ASSUME NEW w \in Records, ThreadWrites(w)
      PROVE  Sorted'
  <2>1. /\ \A r, d, i : Stands(r, d, i)' <=> Stands(r, d, i)
        /\ \A r, h, i : Waits(r, h, i)' <=>
            \/ Waits(r, h, i)
            \/ r = w /\ h = file /\ i = Len(buffer[file]) + 1
    BY <1>6, WriteAdds
  <2>2. \A r \in Records : Stood(r) \/ Waited(r) => Began(r, w)
    BY <1>6, WritesLast DEF ThreadWrites
  <2>3. ASSUME NEW q \in Records, NEW r \in Records, Began(q, r)',
               NEW d, NEW e, NEW i, NEW j, Stands(q, d, i)', Stands(r, e, j)'
        PROVE  Before(<<d, i>>, <<e, j>>)
    BY <1>1, <2>1, <2>3 DEF Sorted, Stood
  <2>4. ASSUME NEW q \in Records, NEW r \in Records, Began(q, r)',
               NEW h, NEW g, NEW i, NEW j, Waits(q, h, i)', Waits(r, g, j)'
        PROVE  i < j
    <3>1. q # r /\ ~Began(r, q)'
      BY <1>0, <2>4
    <3>2. CASE Waits(q, h, i) /\ Waits(r, g, j)
      BY <1>1, <2>4, <3>2 DEF Sorted, Waited
    <3>3. CASE Waits(q, h, i) /\ r = w /\ j = Len(buffer[file]) + 1
      <4>1. h = file /\ i \in Nat /\ i <= Len(buffer[h])
        BY <3>3, PlacesTyped DEF OnlyFileOpen
      <4>2. Len(buffer[h]) \in Nat
        BY <3>3, FileTypes DEF Waits
      <4> QED  BY <3>3, <4>1, <4>2
    <3>4. CASE q = w /\ Waits(r, g, j)
      BY <1>0, <2>2, <3>1, <3>4 DEF Waited
    <3> QED  BY <2>1, <2>4, <3>1, <3>2, <3>3, <3>4
  <2>5. ASSUME NEW q \in Records, NEW r \in Records,
               NEW d, NEW i, NEW h, NEW j, Stands(q, d, i)', Waits(r, h, j)'
        PROVE  Began(q, r)'
    <3>1. Stands(q, d, i)
      BY <2>1, <2>5
    <3>2. Waits(r, h, j) \/ r = w
      BY <2>1, <2>5
    <3>3. Began(q, r)
      BY <2>2, <3>1, <3>2 DEF Sorted, Stood
    <3> QED  BY <1>0, <3>3
  <2> QED  BY <2>3, <2>4, <2>5 DEF Sorted, Before
<1> QED  BY <1>3, <1>4, <1>5, <1>6, DiskStep

-----------------------------------------------------------------------------
(* The theorems.                                                           *)

Inv ==
    /\ Typing
    /\ BegunOnce /\ FirstCome
    /\ OnlyFileOpen /\ Unopened /\ Unwritten /\ OnePlace
    /\ Kept /\ Past
    /\ Calm => NewestFile /\ StampsPast /\ CallsServed /\ Sorted

LEMMA InitInv == Init => Inv
<1> SUFFICES ASSUME Init PROVE Inv
  OBVIOUS
<1>1. Typing
  BY InitTyping
<1>2. DOMAIN <<>> = {} /\ 0 \in Days
  BY NumbersAssumption DEF Days
<1>3. /\ \A r, d, i : ~Stands(r, d, i)
      /\ \A r, h, i : ~Waits(r, h, i)
  BY <1>2 DEF Init, Stands, Waits
<1>4. BegunOnce /\ FirstCome
  BY <1>2 DEF Init, BegunOnce, FirstCome, Ahead, Ended
<1>5. OnlyFileOpen /\ Unopened /\ Unwritten /\ OnePlace
  <2>1. OnlyFileOpen
    BY DEF Init, OnlyFileOpen
  <2>2. Unopened
    BY FileTypes, <1>1 DEF Init, Unopened
  <2> QED  BY <1>3, <2>1, <2>2 DEF Unwritten, OnePlace
<1>6. Kept /\ Past
  <2>1. Kept
    BY DEF Init, Kept
  <2>2. Past
    BY DEF Init, Past
  <2> QED  BY <2>1, <2>2
<1>7. NewestFile /\ StampsPast /\ CallsServed /\ Sorted
  <2>1. NewestFile
    BY DEF Init, NewestFile, Usable
  <2>2. CallsServed
    BY DEF Init, CallsServed, Records
  <2> QED  BY <1>3, <2>1, <2>2 DEF StampsPast, Sorted
<1> QED  BY <1>1, <1>4, <1>5, <1>6, <1>7 DEF Inv

LEMMA NextInv ==
    ASSUME Inv, [Next]_vars
    PROVE  Inv'
<1>1. CASE Next
  <2>1. Typing'
    BY <1>1, TypingStep DEF Inv
  <2>2. BegunOnce' /\ FirstCome'
    BY <1>1, OrderStep DEF Inv
  <2>3. OnlyFileOpen' /\ Unopened' /\ Unwritten' /\ OnePlace'
    BY <1>1, FileStep, PlaceStep DEF Inv
  <2>4. Kept' /\ Past'
    BY <1>1, KeptStep, PastStep DEF Inv
  <2>5. ASSUME Calm'
        PROVE  NewestFile' /\ StampsPast' /\ CallsServed' /\ Sorted'
    <3>1. Calm
      BY <1>1, <2>5, CalmBefore DEF Inv
    <3> QED  BY <1>1, <2>5, <3>1, NewestStep, StampsStep, ServedStep,
                SortedStep DEF Inv
  <2> QED  BY <2>1, <2>2, <2>3, <2>4, <2>5 DEF Inv
<1>2. CASE UNCHANGED vars
  <2>1. Typing'
    BY <1>2, TypingStep DEF Inv
  <2> USE <1>2 DEF Inv, vars, envVars, lockVars, fileVars, taskVars, diskVars
  <2>2. /\ \A r, d, i : Stands(r, d, i)' <=> Stands(r, d, i)
        /\ \A r, h, i : Waits(r, h, i)' <=> Waits(r, h, i)
        /\ \A q, r : Began(q, r)' <=> Began(q, r)
        /\ \A q, r : Ahead(q, r)' <=> Ahead(q, r)
        /\ \A r : BeforeOpen(r)' <=> BeforeOpen(r)
        /\ \A r : BeforeWrite(r)' <=> BeforeWrite(r)
        /\ Usable' <=> Usable
        /\ Calm' <=> Calm
    BY DEF Stands, Waits, Began, Ahead, BeforeOpen, BeforeWrite, Usable, Calm
  <2>3. BegunOnce' /\ FirstCome'
    BY <2>2 DEF BegunOnce, FirstCome
  <2>4. OnlyFileOpen' /\ Unopened' /\ Unwritten' /\ OnePlace'
    BY <2>2 DEF OnlyFileOpen, Unopened, Unwritten, OnePlace
  <2>5. Kept' /\ Past'
    BY <2>2 DEF Kept, Past, Stood, Waited
  <2>6. (NewestFile /\ CallsServed)' <=> NewestFile /\ CallsServed
    BY <2>2 DEF NewestFile, CallsServed
  <2>7. (StampsPast /\ Sorted)' <=> StampsPast /\ Sorted
    BY <2>2 DEF StampsPast, Sorted
  <2> QED  BY <2>1, <2>2, <2>3, <2>4, <2>5, <2>6, <2>7
<1> QED  BY <1>1, <1>2

LEMMA Invariant == Spec => []Inv
<1>1. Inv /\ [Next]_vars => Inv'
  BY NextInv
<1> QED  BY InitInv, <1>1, PTL DEF Spec

\* The lock, its queue, the files and the threads are what they should be: the
\* lock belongs to the one coroutine that waits for a thread of its own, and the
\* queue holds those that wait for the lock (audit.py:100-106, 147-159).
THEOREM TypeCorrect == Spec => []TypeOK
<1>1. Inv => TypeOK
  BY TypingIsTypeOK DEF Inv
<1> QED  BY Invariant, <1>1, PTL

\* No record is in the files twice; one whose call returned is there, unless a
\* call was cancelled and a disk full; while nobody cancels, the sweep spares
\* it for retention_days (audit.py:100-106, 147-192).
THEOREM RecordsDurable == Spec => []Durable
<1>1. Inv => Durable
  <2> SUFFICES ASSUME Inv, NEW r \in Records
               PROVE  /\ \A p, q \in Copies(r) : p = q
                      /\ pc[r] = "done" /\ (Calm \/ "full" \notin Faults) =>
                            Copies(r) # {}
                      /\ Calm /\ stamp[r] + Retention >= today =>
                            \A p \in Copies(r) : p[1] >= swept
    BY DEF Durable
  <2>1. \A p, q \in Copies(r) : p = q
    BY CopiesStand DEF Inv, OnePlace
  <2>2. ASSUME pc[r] = "done", Calm \/ "full" \notin Faults
        PROVE  Copies(r) # {}
    BY <2>2, CopiesStand DEF Inv, Kept, Stood
  <2>3. ASSUME Calm, stamp[r] + Retention >= today, NEW p \in Copies(r)
        PROVE  p[1] >= swept
    <3>1. Stands(r, p[1], p[2])
      BY CopiesStand
    <3>2. stamp[r] <= p[1] /\ p[1] \in Days
      BY <2>3, <3>1 DEF Inv, StampsPast, Stands
    <3>3. swept = 0 \/ swept + Retention <= today
      BY DEF Inv, Past
    <3>4. /\ stamp[r] \in Nat /\ p[1] \in Nat /\ swept \in Nat
          /\ today \in Nat /\ Retention \in Nat
      BY <3>2, DayTypes, NumbersAssumption DEF Inv
    <3> QED  BY <2>3, <3>2, <3>3, <3>4
  <2> QED  BY <2>1, <2>2, <2>3
<1> QED  BY Invariant, <1>1, PTL

\* While nobody cancels, the lines stand in the order in which record() was
\* called, across midnight too, and none in the file of a day before its ts
\* (audit.py:100-106, 133-159).
THEOREM LinesOrdered == Spec => []LinesInOrder
<1>1. Inv => LinesInOrder
  <2> SUFFICES ASSUME Inv, Calm, NEW i \in DOMAIN begun,
                      NEW p \in Copies(begun[i])
               PROVE  /\ stamp[begun[i]] <= p[1]
                      /\ \A j \in DOMAIN begun : i < j =>
                            \A q \in Copies(begun[j]) : Before(p, q)
    BY DEF LinesInOrder
  <2>1. Stands(begun[i], p[1], p[2]) /\ p = <<p[1], p[2]>>
    BY CopiesStand
  <2>2. begun[i] \in Records
    BY LockTypes DEF Inv
  <2>3. stamp[begun[i]] <= p[1]
    BY <2>1, <2>2 DEF Inv, StampsPast
  <2>4. ASSUME NEW j \in DOMAIN begun, i < j, NEW q \in Copies(begun[j])
        PROVE  Before(p, q)
    <3>1. Stands(begun[j], q[1], q[2]) /\ q = <<q[1], q[2]>>
      BY CopiesStand
    <3>2. begun[j] \in Records /\ Began(begun[i], begun[j])
      BY <2>4, LockTypes DEF Inv, Began
    <3>3. Before(<<p[1], p[2]>>, <<q[1], q[2]>>)
      BY <2>1, <2>2, <3>1, <3>2 DEF Inv, Sorted
    <3> QED  BY <2>1, <3>1, <3>3
  <2> QED  BY <2>3, <2>4
<1> QED  BY Invariant, <1>1, PTL

\* While nobody cancels, no tool call finds its file closed or missing, next to
\* maintenance tasks and the shutdown (audit.py:105-106, 124-129, 147-159).
THEOREM CallsFindFile == Spec => []NoCallFindsItsFileClosed
<1>1. Inv => NoCallFindsItsFileClosed
  BY DEF Inv, CallsServed, NoCallFindsItsFileClosed
<1> QED  BY Invariant, <1>1, PTL

=============================================================================
