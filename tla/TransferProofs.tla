---------------------------- MODULE TransferProofs ----------------------------
(***************************************************************************)
(* Theorems about Transfer, for any number of calls, chunks, edits and     *)
(* faults: type correctness, the integrity of a copy and of what is        *)
(* reported of it, the audit lines of a call, no transport served again    *)
(* that was reported dead.                                                 *)
(***************************************************************************)
EXTENDS Transfer, SequenceTheorems, TLAPS

\* A step of call c.
Step(c) == Start(c) \/ StartFails(c) \/ Resume(c) \/ Cancel(c)

USE DEF Sides

-----------------------------------------------------------------------------
(* Files as sequences of chunks.                                           *)

LEMMA VersionTyped ==
    ASSUME NEW v \in Nat, NEW n \in Nat PROVE Version(v, n) \in Seq(Chunk)
  BY DEF Version, Chunk

LEMMA PutTyped ==
    ASSUME NEW f \in Seq(Chunk), NEW i \in Nat, NEW x \in Chunk
    PROVE  Put(f, i, x) \in Seq(Chunk)
<1> DEFINE n == IF i > Len(f) THEN i ELSE Len(f)
           val(j) == IF j = i THEN x ELSE IF j <= Len(f) THEN f[j] ELSE <<0, 0>>
<1>1. n \in Nat
  OBVIOUS
<1>2. \A j \in 1 .. n : val(j) \in Chunk
  <2>1. <<0, 0>> \in Chunk
    BY DEF Chunk
  <2>2. \A j \in 1 .. Len(f) : f[j] \in Chunk
    BY ElementOfSeq
  <2> QED BY <2>1, <2>2
<1>3. [j \in 1 .. n |-> val(j)] \in Seq(Chunk)
  <2> HIDE DEF n, val
  <2> QED BY <1>1, <1>2, IsASeq
<1> QED BY <1>3 DEF Put

\* Written behind its end, a chunk is appended.
LEMMA PutAppends ==
    ASSUME NEW f \in Seq(Chunk), NEW x \in Chunk
    PROVE  Put(f, Len(f) + 1, x) = Append(f, x)
<1> DEFINE g == Put(f, Len(f) + 1, x)
<1>1. g \in Seq(Chunk)
  BY PutTyped
<1>2. Len(g) = Len(f) + 1 /\ \A j \in 1 .. Len(g) :
        g[j] = IF j = Len(f) + 1 THEN x ELSE f[j]
  BY DEF Put
<1>3. /\ Append(f, x) \in Seq(Chunk) /\ Len(Append(f, x)) = Len(f) + 1
      /\ \A j \in 1 .. Len(f) + 1 :
            Append(f, x)[j] = IF j = Len(f) + 1 THEN x ELSE f[j]
  BY AppendProperties
<1> HIDE DEF g
<1>4. Len(g) = Len(Append(f, x)) /\ \A j \in 1 .. Len(g) : g[j] = Append(f, x)[j]
  BY <1>2, <1>3
<1>5. g = Append(f, x)
  BY <1>1, <1>3, <1>4, SeqEqual
<1> QED BY <1>5 DEF g

-----------------------------------------------------------------------------
(* Type correctness.                                                       *)

LEMMA RewriteTyped ==
    ASSUME TypeOK, NEW c \in Calls, NEW s \in Sides, NEW f \in Seq(Chunk),
           Rewrite(c, s, f)
    PROVE  file' \in [Sides -> Seq(Chunk)] /\ edits' \in Nat
  BY DEF TypeOK, Rewrite

LEMMA ReadOnTyped ==
    ASSUME TypeOK, NEW c \in Calls, NEW f \in Seq(Chunk), NEW i \in Nat,
           ReadOn(c, f, i)
    PROVE  /\ pc' \in [Calls -> {"new", "connect", "record", "fail"}
                                    \cup Copying \cup Over]
           /\ at' \in [Calls -> Nat] /\ held' \in [Calls -> Chunk]
           /\ digest' \in [Calls -> Seq(Chunk)]
           /\ \A d \in Calls : pc'[d] = "record" => pc[d] = "record"
<1>1. CASE i < Len(f)
  <2> DEFINE x == f[i + 1]
             longer == Append(digest[c], x)
  <2>1. x \in Chunk
    BY <1>1, ElementOfSeq
  <2>2. longer \in Seq(Chunk)
    BY <2>1, AppendProperties DEF TypeOK
  <2>3. /\ at' = [at EXCEPT ![c] = i + 1]
        /\ held' = [held EXCEPT ![c] = x]
        /\ digest' = [digest EXCEPT ![c] = longer]
        /\ pc' = [pc EXCEPT ![c] = "write"]
    BY <1>1 DEF ReadOn, At
  <2> HIDE DEF x, longer
  <2>4. at' \in [Calls -> Nat] /\ held' \in [Calls -> Chunk]
        /\ digest' \in [Calls -> Seq(Chunk)]
    BY <2>1, <2>2, <2>3 DEF TypeOK
  <2> QED BY <2>3, <2>4 DEF TypeOK, Copying, Over
<1>2. CASE ~(i < Len(f))
  BY <1>2 DEF TypeOK, ReadOn, At, Copying
<1> QED BY <1>1, <1>2

LEMMA ArrivedTyped ==
    ASSUME TypeOK, NEW c \in Calls, Arrived(c)
    PROVE  file' \in [Sides -> Seq(Chunk)] /\ edits' \in Nat
<1>1. <<>> \in Seq(Chunk) /\ Put(file["remote"], at[c], held[c]) \in Seq(Chunk)
  BY PutTyped DEF TypeOK
<1> QED BY <1>1, RewriteTyped DEF TypeOK, Arrived, fileVars

LEMMA InitTyped == Init => TypeOK
<1> SUFFICES ASSUME Init PROVE TypeOK
  OBVIOUS
<1>1. Version(1, MaxLen) \in Seq(Chunk) /\ Version(2, MaxLen) \in Seq(Chunk)
  BY VersionTyped, BoundsAssumption
<1>2. file \in [Sides -> Seq(Chunk)]
  BY <1>1 DEF Init
<1> QED BY <1>2, EmptySeq DEF Init, TypeOK, Results, Chunk

USE DEF At, Ends, Strikes, Audits, MarkDead, fileVars, netVars, workVars, histVars

\* Steps that neither read nor write a file.
LEMMA ControlTyped ==
    ASSUME TypeOK, NEW c \in Calls,
           \/ Start(c) \/ StartFails(c) \/ Connect(c) \/ ConnectFails(c)
           \/ Close(c) \/ Denied(c) \/ SftpFails(c)
           \/ Recorded(c) \/ ServerRecords(c) \/ RecordFails(c)
    PROVE  TypeOK'
<1> USE DEF TypeOK, Copying, Results, Over
<1>1. CASE Start(c)
  <2>1. Len(file["local"]) \in Nat
    BY LenProperties
  <2>2. PICK k \in {"put", "get"} :
            /\ kind' = [kind EXCEPT ![c] = k]
            /\ size' = [size EXCEPT ![c] = IF k = "put" THEN Len(file["local"]) ELSE 0]
            /\ \/ At(c, "connect") /\ UNCHANGED result
               \/ Ends(c, "record", "rejected")
    BY <1>1 DEF Start
  <2>3. size' \in [Calls -> Nat]
    BY <2>1, <2>2
  <2>4. UNCHANGED <<fileVars, netVars, over, at, held, digest, audits>>
    BY <1>1 DEF Start
  <2> QED BY <2>2, <2>3, <2>4
<1>2. CASE StartFails(c)
  BY <1>2 DEF StartFails
<1>3. CASE Connect(c)
  <2>1. gen' \in Nat /\ up' \in BOOLEAN
    BY <1>3 DEF Connect
  <2>2. /\ marked' = FALSE /\ over' = [over EXCEPT ![c] = gen']
        /\ At(c, "open")
        /\ UNCHANGED <<fileVars, faults, kind, workVars, result, audits>>
    BY <1>3 DEF Connect
  <2> QED BY <2>1, <2>2
<1>4. CASE ConnectFails(c)
  BY <1>4 DEF ConnectFails
<1>5. CASE Close(c)
  BY <1>5 DEF Close
<1>6. CASE Denied(c)
  BY <1>6 DEF Denied
<1>7. CASE SftpFails(c)
  <2>1. /\ Ends(c, "fail", "error") /\ faults' = faults + 1
        /\ UNCHANGED <<fileVars, gen, up, marked, kind, over, workVars, audits>>
    BY <1>7 DEF SftpFails
  <2> QED BY <2>1
<1>8. CASE Recorded(c)
  BY <1>8 DEF Recorded
<1>9. CASE ServerRecords(c)
  BY <1>9 DEF ServerRecords
<1>10. CASE RecordFails(c)
  <2>1. PICK p \in {"fail", "cut"}, r \in {"unsaved", result[c]} :
            pc' = [pc EXCEPT ![c] = p] /\ result' = [result EXCEPT ![c] = r]
    BY <1>10 DEF RecordFails
  <2>2. /\ faults' = faults + 1
        /\ audits' = audits \/ Audits(c)
        /\ UNCHANGED <<fileVars, gen, up, marked, kind, over, workVars>>
    BY <1>10 DEF RecordFails
  <2>3. audits' \in [Calls -> Nat]
    <3>1. CASE audits' = audits
      BY <3>1
    <3>2. CASE Audits(c)
      BY <3>2
    <3> QED BY <2>2, <3>1, <3>2
  <2>4. r \in Results
    OBVIOUS
  <2>5. result' \in [Calls -> Results]
    BY <2>1, <2>4
  <2>6. pc' \in [Calls -> {"new", "connect", "record", "fail"} \cup Copying \cup Over]
    BY <2>1
  <2>7. \A d \in Calls : pc'[d] = "record" => result'[d] \in {"done", "rejected"}
    BY <2>1
  <2>8. faults' \in Nat
    BY <2>2
  <2> QED BY <2>2, <2>3, <2>5, <2>6, <2>7, <2>8
<1> QED BY <1>1, <1>2, <1>3, <1>4, <1>5, <1>6, <1>7, <1>8, <1>9, <1>10

LEMMA FaultTyped ==
    ASSUME TypeOK, NEW c \in Calls, Lost(c) \/ LocalFails(c) \/ Cancel(c)
    PROVE  TypeOK'
<1>1. file' \in [Sides -> Seq(Chunk)] /\ edits' \in Nat
  BY ArrivedTyped DEF Lost, LocalFails, Cancel
<1> USE DEF TypeOK, Copying, Results, Over
<1>2. CASE Lost(c)
  <2>1. /\ \/ MarkDead(c)
           \/ Ends(c, "fail", "error") /\ UNCHANGED marked
        /\ UNCHANGED <<gen, up, faults, kind, over, workVars, audits>>
    BY <1>2 DEF Lost
  <2> QED BY <1>1, <2>1
<1>3. CASE LocalFails(c)
  <2>1. /\ MarkDead(c) /\ faults' = faults + 1
        /\ UNCHANGED <<gen, up, kind, over, workVars, audits>>
    BY <1>3 DEF LocalFails
  <2>2. faults' \in Nat /\ marked' \in BOOLEAN
    BY <2>1
  <2> QED BY <1>1, <2>1, <2>2
<1>4. CASE Cancel(c)
  <2>1. /\ pc' = [pc EXCEPT ![c] = "cut"]
        /\ faults' = faults + 1
        /\ UNCHANGED <<gen, up, marked, kind, over, workVars, result>>
    BY <1>4 DEF Cancel
  <2>2. audits' = audits \/ Audits(c)
    BY <1>4 DEF Cancel
  <2>3. audits' \in [Calls -> Nat]
    BY <2>2
  <2>4. /\ pc' \in [Calls -> {"new", "connect", "record", "fail"} \cup Copying \cup Over]
        /\ result' \in [Calls -> Results]
        /\ \A d \in Calls : pc'[d] = "record" => result'[d] \in {"done", "rejected"}
    BY <2>1
  <2> QED BY <1>1, <2>1, <2>3, <2>4
<1> QED BY <1>2, <1>3, <1>4

LEMMA CopyTyped ==
    ASSUME TypeOK, NEW c \in Calls,
           PutOpen(c) \/ PutWrite(c) \/ GetOpen(c) \/ GetRead(c)
    PROVE  TypeOK'
<1>1. <<>> \in Seq(Chunk) /\ Put(file["remote"], at[c], held[c]) \in Seq(Chunk)
  BY PutTyped DEF TypeOK
<1>2. file["local"] \in Seq(Chunk) /\ file["remote"] \in Seq(Chunk) /\ at[c] \in Nat
  BY DEF TypeOK
<1>3. CASE PutOpen(c)
  <2>1. file' \in [Sides -> Seq(Chunk)] /\ edits' \in Nat
    BY <1>1, <1>3, RewriteTyped DEF PutOpen
  <2>2. ReadOn(c, file["local"], 0) /\ UNCHANGED result
    BY <1>3 DEF PutOpen
  <2> QED BY <1>2, <1>3, <2>1, <2>2, ReadOnTyped DEF TypeOK, PutOpen
<1>4. CASE PutWrite(c)
  <2>1. file' \in [Sides -> Seq(Chunk)] /\ edits' \in Nat
    BY <1>1, <1>4, RewriteTyped DEF PutWrite
  <2>2. ReadOn(c, file["local"], at[c]) /\ UNCHANGED result
    BY <1>4 DEF PutWrite
  <2> QED BY <1>2, <1>4, <2>1, <2>2, ReadOnTyped DEF TypeOK, PutWrite
<1>5. CASE GetOpen(c)
  <2>1. file' \in [Sides -> Seq(Chunk)] /\ edits' \in Nat
    BY <1>1, <1>5, RewriteTyped DEF GetOpen
  <2> QED BY <1>5, <2>1 DEF TypeOK, GetOpen, Copying
<1>6. CASE GetRead(c)
  <2> DEFINE x == file["remote"][at[c] + 1]
             written == Put(file["local"], at[c] + 1, x)
             longer == Append(digest[c], x)
  <2>1. CASE at[c] + 1 <= Len(file["remote"])
    <3>1. x \in Chunk
      BY <1>2, <2>1, ElementOfSeq
    <3>2. written \in Seq(Chunk) /\ longer \in Seq(Chunk)
      <4>1. at[c] + 1 \in Nat /\ digest[c] \in Seq(Chunk)
        BY <1>2 DEF TypeOK
      <4> QED BY <1>2, <3>1, <4>1, PutTyped, AppendProperties
    <3>3. /\ Rewrite(c, "local", written)
          /\ at' = [at EXCEPT ![c] = at[c] + 1]
          /\ digest' = [digest EXCEPT ![c] = longer]
          /\ size' = [size EXCEPT ![c] = size[c] + 1]
          /\ UNCHANGED pc
          /\ UNCHANGED <<netVars, kind, over, held, result, audits>>
      BY <1>6, <2>1 DEF GetRead
    <3> HIDE DEF x, written, longer
    <3>4. file' \in [Sides -> Seq(Chunk)] /\ edits' \in Nat
      BY <3>2, <3>3, RewriteTyped
    <3>5. /\ digest' \in [Calls -> Seq(Chunk)]
          /\ at' \in [Calls -> Nat] /\ size' \in [Calls -> Nat]
      BY <3>2, <3>3 DEF TypeOK
    <3> QED BY <3>3, <3>4, <3>5 DEF TypeOK
  <2>2. CASE ~(at[c] + 1 <= Len(file["remote"]))
    BY <1>6, <2>2 DEF TypeOK, GetRead, Copying
  <2> QED BY <2>1, <2>2
<1> QED BY <1>3, <1>4, <1>5, <1>6

LEMMA OthersTyped ==
    ASSUME TypeOK, (\E s \in Sides : Edit(s)) \/ Break \/ UNCHANGED vars
    PROVE  TypeOK'
<1>1. ASSUME NEW s \in Sides, Edit(s) PROVE TypeOK'
  <2>1. \A n \in 0 .. MaxLen : Version(edits + 3, n) \in Seq(Chunk)
    BY VersionTyped, BoundsAssumption DEF TypeOK
  <2> QED BY <1>1, <2>1 DEF TypeOK, Edit
<1>2. CASE Break
  <2>1. /\ up' = FALSE /\ faults' = faults + 1
        /\ UNCHANGED <<fileVars, gen, marked, pc, kind, over, workVars, result,
                       audits>>
    BY <1>2 DEF Break
  <2>2. faults' \in Nat
    BY <2>1 DEF TypeOK
  <2>3. up' \in BOOLEAN
    BY <2>1
  <2> QED BY <2>1, <2>2, <2>3 DEF TypeOK
<1>3. CASE UNCHANGED vars
  BY <1>3 DEF TypeOK, vars
<1> QED BY <1>1, <1>2, <1>3

\* Type correctness, for any number of calls, chunks and faults.
THEOREM TypeCorrect == Spec => []TypeOK
<1>1. TypeOK /\ [Next]_vars => TypeOK'
  BY ControlTyped, FaultTyped, CopyTyped, OthersTyped DEF Next, Resume
<1> QED BY <1>1, InitTyped, PTL DEF Spec

-----------------------------------------------------------------------------
(* The inductive invariant.                                                *)

\* Where the results and the records of a call are: a line in the buffer when
\* its record failed, one more for that failure.
Buffered(c) == IF result[c] = "unsaved" THEN {0, 1} ELSE {0}
Ended(c) ==
    /\ pc[c] \in {"new", "connect"} \cup Copying => result[c] = "none"
    /\ pc[c] \notin Over \cup {"fail"} => result[c] # "unsaved"
    /\ pc[c] \notin Over => audits[c] \in Buffered(c)
    /\ pc[c] = "cut" => audits[c] \in Buffered(c) \cup {n + 1 : n \in Buffered(c)}
    /\ pc[c] = "end" => audits[c] \in {n + 1 : n \in Buffered(c)}

\* What c has read is the beginning of its source.
ReadSoFar(c) ==
    /\ at[c] = Len(digest[c])
    /\ steady[c] =>
        /\ at[c] <= Len(file[Src(c)])
        /\ \A i \in 1 .. at[c] : digest[c][i] = file[Src(c)][i]

\* How far the copy of c is.
Progress(c) ==
    /\ pc[c] = "new" =>
        digest[c] = <<>> /\ at[c] = 0 /\ size[c] = 0 /\ ~steady[c]
    /\ pc[c] \in {"connect", "open"} => digest[c] = <<>> /\ at[c] = 0
    /\ pc[c] \in {"connect"} \cup Copying => kind[c] \in {"put", "get"}
    /\ pc[c] = "write" =>
        /\ kind[c] = "put" /\ ReadSoFar(c)
        /\ sole[c] => digest[c] = Append(file["remote"], held[c])
    /\ pc[c] = "read" =>
        /\ kind[c] = "get" /\ ReadSoFar(c)
        /\ sole[c] => digest[c] = file["local"]
    /\ pc[c] = "close" \/ result[c] = "done" =>
        /\ sole[c] => file[Dst(c)] = digest[c]
        /\ steady[c] => digest[c] = file[Src(c)]
    /\ kind[c] # "put" => size[c] = Len(digest[c])
    /\ kind[c] = "put" /\ steady[c] => size[c] = Len(file["local"])

\* The transports that were found dead are replaced, or will be.
DeadAreMarked ==
    \A c \in Calls :
        /\ over[c] <= gen
        /\ result[c] = "unreachable" => over[c] < gen \/ marked
        /\ over[c] \notin reported[c]

Inv ==
    /\ TypeOK
    /\ DOMAIN steady = Calls /\ DOMAIN reported = Calls
    /\ \A c \in Calls : Ended(c) /\ Progress(c)
    /\ DeadAreMarked

\* What a step of another call leaves of d.
Aside(d) ==
    /\ pc'[d] = pc[d] /\ kind'[d] = kind[d] /\ over'[d] = over[d]
    /\ at'[d] = at[d] /\ held'[d] = held[d] /\ digest'[d] = digest[d]
    /\ size'[d] = size[d] /\ result'[d] = result[d]
    /\ audits'[d] = audits[d] /\ reported'[d] = reported[d]
    /\ sole'[d] => sole[d] /\ file'[Dst(d)] = file[Dst(d)]
    /\ steady'[d] => steady[d] /\ file'[Src(d)] = file[Src(d)]

LEMMA AsideKept ==
    ASSUME NEW d \in Calls, Ended(d), Progress(d), Aside(d)
    PROVE  Ended(d)' /\ Progress(d)'
<1> USE DEF Aside
<1>1. Ended(d)'
  BY DEF Ended, Buffered
<1>2. ReadSoFar(d) => ReadSoFar(d)'
  BY DEF ReadSoFar, Src
<1>3. Progress(d)'
  BY <1>2 DEF Progress, Src, Dst
<1> QED BY <1>1, <1>3

\* What writing the file s does to another call.
LEMMA RewriteAside ==
    ASSUME TypeOK, NEW c \in Calls, NEW d \in Calls, d # c,
           NEW s \in Sides, NEW f, Rewrite(c, s, f)
    PROVE  /\ sole'[d] => sole[d] /\ file'[Dst(d)] = file[Dst(d)]
           /\ steady'[d] => steady[d] /\ file'[Src(d)] = file[Src(d)]
           /\ reported' = reported
  BY DEF TypeOK, Rewrite, Src, Dst

LEMMA ArrivedAside ==
    ASSUME TypeOK, NEW c \in Calls, NEW d \in Calls, d # c, Arrived(c)
    PROVE  /\ sole'[d] => sole[d] /\ file'[Dst(d)] = file[Dst(d)]
           /\ steady'[d] => steady[d] /\ file'[Src(d)] = file[Src(d)]
           /\ reported' = reported
  BY RewriteAside DEF Arrived

LEMMA StepAside ==
    ASSUME TypeOK, DOMAIN steady = Calls, DOMAIN reported = Calls,
           NEW c \in Calls, NEW d \in Calls, d # c, Step(c)
    PROVE  Aside(d)
<1> USE DEF Aside
<1>1. CASE Start(c)
  BY <1>1 DEF TypeOK, Start
<1>2. CASE StartFails(c)
  BY <1>2 DEF TypeOK, StartFails
<1>3. CASE Connect(c)
  BY <1>3 DEF TypeOK, Connect
<1>4. CASE ConnectFails(c) \/ Denied(c) \/ SftpFails(c) \/ Close(c)
  BY <1>4 DEF TypeOK, ConnectFails, Denied, SftpFails, Close
<1>5. CASE PutOpen(c)
  <2>1. Rewrite(c, "remote", <<>>) /\ ReadOn(c, file["local"], 0)
    BY <1>5 DEF PutOpen
  <2> QED BY <1>5, <2>1, RewriteAside DEF TypeOK, PutOpen, ReadOn
<1>6. CASE PutWrite(c)
  <2>1. PICK f : Rewrite(c, "remote", f)
    BY <1>6 DEF PutWrite
  <2>2. /\ ReadOn(c, file["local"], at[c])
        /\ UNCHANGED <<netVars, kind, over, size, result, audits>>
    BY <1>6 DEF PutWrite
  <2>3. /\ sole'[d] => sole[d] /\ file'[Dst(d)] = file[Dst(d)]
        /\ steady'[d] => steady[d] /\ file'[Src(d)] = file[Src(d)]
        /\ reported' = reported
    BY <2>1, RewriteAside DEF Sides
  <2> QED BY <2>2, <2>3 DEF TypeOK, ReadOn
<1>7. CASE GetOpen(c)
  <2>1. Rewrite(c, "local", <<>>)
    BY <1>7 DEF GetOpen
  <2> QED BY <1>7, <2>1, RewriteAside DEF TypeOK, GetOpen
<1>8. CASE GetRead(c)
  <2>1. CASE at[c] + 1 <= Len(file["remote"])
    <3>1. Rewrite(c, "local", Put(file["local"], at[c] + 1, file["remote"][at[c] + 1]))
      BY <1>8, <2>1 DEF GetRead
    <3> QED BY <1>8, <2>1, <3>1, RewriteAside DEF TypeOK, GetRead
  <2>2. CASE ~(at[c] + 1 <= Len(file["remote"]))
    BY <1>8, <2>2 DEF TypeOK, GetRead
  <2> QED BY <2>1, <2>2
<1>9. CASE Lost(c) \/ LocalFails(c)
  BY <1>9, ArrivedAside DEF TypeOK, Lost, LocalFails
<1>10. CASE Recorded(c) \/ ServerRecords(c) \/ RecordFails(c)
  BY <1>10 DEF TypeOK, Recorded, ServerRecords, RecordFails
<1>11. CASE Cancel(c)
  BY <1>11, ArrivedAside DEF TypeOK, Cancel
<1> QED BY <1>1, <1>2, <1>3, <1>4, <1>5, <1>6, <1>7, <1>8, <1>9, <1>10, <1>11
        DEF Step, Resume

LEMMA StepEnded ==
    ASSUME TypeOK, NEW c \in Calls, Ended(c), Step(c)
    PROVE  Ended(c)'
<1> USE DEF TypeOK, Ended, Buffered, Copying, Over
<1>1. CASE Start(c)
  BY <1>1 DEF Start
<1>2. CASE StartFails(c)
  BY <1>2 DEF StartFails
<1>3. CASE Connect(c)
  BY <1>3 DEF Connect
<1>4. CASE ConnectFails(c) \/ Denied(c)
  BY <1>4 DEF ConnectFails, Denied
<1>5. CASE SftpFails(c) \/ Close(c)
  BY <1>5 DEF SftpFails, Close
<1>6. CASE PutOpen(c) \/ PutWrite(c)
  BY <1>6 DEF PutOpen, PutWrite, ReadOn
<1>7. CASE GetOpen(c)
  BY <1>7 DEF GetOpen
<1>8. CASE GetRead(c)
  BY <1>8 DEF GetRead
<1>9. CASE Lost(c) \/ LocalFails(c)
  BY <1>9 DEF Lost, LocalFails
<1>10. CASE Recorded(c) \/ ServerRecords(c)
  BY <1>10 DEF Recorded, ServerRecords
<1>11. CASE RecordFails(c)
  BY <1>11 DEF RecordFails
<1>12. CASE Cancel(c)
  BY <1>12 DEF Cancel
<1> QED BY <1>1, <1>2, <1>3, <1>4, <1>5, <1>6, <1>7, <1>8, <1>9, <1>10, <1>11,
           <1>12 DEF Step, Resume

\* A chunk more of the source has been read, or all of it has.
LEMMA ReadMore ==
    ASSUME NEW d \in Seq(Chunk), NEW f \in Seq(Chunk),
           Len(d) <= Len(f), \A i \in 1 .. Len(d) : d[i] = f[i]
    PROVE  /\ Len(d) < Len(f) =>
                LET e == Append(d, f[Len(d) + 1]) IN
                /\ Len(e) = Len(d) + 1
                /\ \A i \in 1 .. Len(d) + 1 : e[i] = f[i]
           /\ ~(Len(d) < Len(f)) => d = f
<1>1. CASE Len(d) < Len(f)
  <2>1. f[Len(d) + 1] \in Chunk
    BY <1>1, ElementOfSeq
  <2> QED BY <1>1, <2>1, AppendProperties
<1>2. CASE ~(Len(d) < Len(f))
  <2>1. Len(d) = Len(f)
    BY <1>2
  <2>2. d = f
    BY <2>1, SeqEqual
  <2> QED BY <1>2, <2>2
<1> QED BY <1>1, <1>2

\* What writing its destination does to the call that does it.
LEMMA RewriteOwn ==
    ASSUME TypeOK, NEW c \in Calls, NEW f, kind[c] \in {"put", "get"},
           Rewrite(c, Dst(c), f)
    PROVE  /\ file'[Dst(c)] = f /\ file'[Src(c)] = file[Src(c)]
           /\ sole'[c] => pc[c] = "open" \/ sole[c]
           /\ steady'[c] => steady[c]
  BY DEF TypeOK, Rewrite, Src, Dst

LEMMA ArrivedOwn ==
    ASSUME TypeOK, NEW c \in Calls, Progress(c), Arrived(c)
    PROVE  /\ kind[c] = "put" => file'["local"] = file["local"]
           /\ steady'[c] => steady[c]
<1>1. CASE UNCHANGED <<fileVars, histVars>>
  BY <1>1
<1>2. CASE /\ pc[c] \in {"open", "write"} /\ kind[c] = "put"
           /\ \E f \in {<<>>, Put(file["remote"], at[c], held[c])} :
                    Rewrite(c, "remote", f)
  <2>1. PICK f : Rewrite(c, "remote", f)
    BY <1>2
  <2>2. Dst(c) = "remote" /\ Src(c) = "local"
    BY <1>2 DEF Src, Dst
  <2> QED BY <1>2, <2>1, <2>2, RewriteOwn
<1> QED BY <1>1, <1>2 DEF Arrived, Progress, Copying

\* put reads on, after the remote file has got what was read before.
LEMMA ReadOnProgress ==
    ASSUME TypeOK, NEW c \in Calls, Progress(c), kind[c] = "put",
           result[c] = "none", ReadSoFar(c),
           ReadOn(c, file["local"], at[c]), UNCHANGED <<kind, size, result>>,
           file'["local"] = file["local"], steady'[c] => steady[c],
           sole'[c] => file'["remote"] = digest[c]
    PROVE  Progress(c)'
<1> DEFINE f == file["local"]
           d == digest[c]
<1>1. f \in Seq(Chunk) /\ d \in Seq(Chunk) /\ at[c] = Len(d) /\ Len(d) \in Nat
  BY DEF TypeOK, ReadSoFar
<1>2. steady[c] => Len(d) <= Len(f) /\ \A i \in 1 .. Len(d) : d[i] = f[i]
  BY <1>1 DEF ReadSoFar, Src
<1>3. steady'[c] => size'[c] = Len(file'["local"])
  BY DEF Progress
<1>4. CASE at[c] < Len(f)
  <2> DEFINE x == f[at[c] + 1]
             e == Append(d, x)
  <2>1. /\ at'[c] = at[c] + 1 /\ held'[c] = x /\ digest'[c] = e /\ pc'[c] = "write"
    BY <1>4 DEF TypeOK, ReadOn
  <2>2. x \in Chunk
    BY <1>1, <1>4, ElementOfSeq
  <2>3. Len(e) = Len(d) + 1
    BY <1>1, <2>2, AppendProperties
  <2>4. steady[c] => at'[c] <= Len(f) /\ \A i \in 1 .. at'[c] : e[i] = f[i]
    BY <1>1, <1>2, <1>4, <2>1, ReadMore
  <2>5. ReadSoFar(c)'
    BY <1>1, <2>1, <2>3, <2>4 DEF ReadSoFar, Src
  <2>6. sole'[c] => digest'[c] = Append(file'["remote"], held'[c])
    BY <2>1
  <2> QED BY <1>3, <2>1, <2>5, <2>6 DEF Progress, Src, Dst, Copying
<1>5. CASE ~(at[c] < Len(f))
  <2>1. pc'[c] = "close" /\ digest'[c] = d
    BY <1>5 DEF TypeOK, ReadOn
  <2>2. steady[c] => d = f
    BY <1>1, <1>2, <1>5, ReadMore
  <2> QED BY <1>3, <2>1, <2>2 DEF Progress, Src, Dst, Copying
<1> QED BY <1>4, <1>5

LEMMA PutProgress ==
    ASSUME TypeOK, NEW c \in Calls, Ended(c), Progress(c), PutOpen(c) \/ PutWrite(c)
    PROVE  Progress(c)'
<1>1. CASE PutOpen(c)
  <2>1. /\ kind[c] = "put" /\ result[c] = "none" /\ at[c] = 0 /\ digest[c] = <<>>
        /\ Rewrite(c, "remote", <<>>) /\ ReadOn(c, file["local"], 0)
        /\ UNCHANGED <<kind, size, result>>
    BY <1>1 DEF PutOpen, Ended, Progress, Copying
  <2>2. Dst(c) = "remote" /\ Src(c) = "local"
    BY <2>1 DEF Src, Dst
  <2>3. /\ file'["remote"] = <<>> /\ file'["local"] = file["local"]
        /\ steady'[c] => steady[c]
    BY <2>1, <2>2, RewriteOwn
  <2>4. ReadSoFar(c)
    BY <2>1, <2>2, LenProperties DEF TypeOK, ReadSoFar
  <2> QED BY <2>1, <2>3, <2>4, ReadOnProgress
<1>2. CASE PutWrite(c)
  <2> DEFINE r == file["remote"]
  <2>1. /\ kind[c] = "put" /\ result[c] = "none" /\ ReadSoFar(c) /\ pc[c] = "write"
        /\ sole[c] => digest[c] = Append(r, held[c])
        /\ Rewrite(c, "remote", Put(r, at[c], held[c]))
        /\ ReadOn(c, file["local"], at[c])
        /\ UNCHANGED <<kind, size, result>>
    BY <1>2 DEF PutWrite, Ended, Progress, Copying
  <2>2. Dst(c) = "remote" /\ Src(c) = "local"
    BY <2>1 DEF Src, Dst
  <2>3. /\ file'["remote"] = Put(r, at[c], held[c])
        /\ file'["local"] = file["local"]
        /\ steady'[c] => steady[c]
        /\ sole'[c] => sole[c]
    BY <2>1, <2>2, RewriteOwn
  <2>4. sole[c] => at[c] = Len(r) + 1
    BY <2>1, AppendProperties DEF TypeOK, ReadSoFar
  <2>5. sole'[c] => file'["remote"] = digest[c]
    BY <2>1, <2>3, <2>4, PutAppends DEF TypeOK
  <2> QED BY <2>1, <2>3, <2>5, ReadOnProgress
<1> QED BY <1>1, <1>2

LEMMA GetProgress ==
    ASSUME TypeOK, NEW c \in Calls, Ended(c), Progress(c), GetOpen(c) \/ GetRead(c)
    PROVE  Progress(c)'
<1>1. CASE GetOpen(c)
  <2>1. /\ kind[c] = "get" /\ result[c] = "none" /\ at[c] = 0 /\ digest[c] = <<>>
        /\ size[c] = 0
        /\ Rewrite(c, "local", <<>>)
        /\ pc'[c] = "read" /\ UNCHANGED <<kind, at, digest, size, result>>
    BY <1>1 DEF TypeOK, GetOpen, Ended, Progress, Copying
  <2>2. Dst(c) = "local" /\ Src(c) = "remote"
    BY <2>1 DEF Src, Dst
  <2>3. file'["local"] = <<>> /\ file'["remote"] = file["remote"]
    BY <2>1, <2>2, RewriteOwn
  <2>4. ReadSoFar(c)'
    BY <2>1, <2>3, LenProperties DEF TypeOK, ReadSoFar, Src
  <2> QED BY <2>1, <2>3, <2>4 DEF Progress, Src, Dst, Copying
<1>2. CASE GetRead(c)
  <2> DEFINE f == file["remote"]
             d == digest[c]
  <2>1. /\ kind[c] = "get" /\ result[c] = "none" /\ pc[c] = "read"
        /\ sole[c] => d = file["local"]
        /\ size[c] = Len(d)
        /\ UNCHANGED <<kind, result>>
    BY <1>2 DEF GetRead, Ended, Progress, Copying
  <2>2. Dst(c) = "local" /\ Src(c) = "remote"
    BY <2>1 DEF Src, Dst
  <2>3. /\ f \in Seq(Chunk) /\ d \in Seq(Chunk) /\ file["local"] \in Seq(Chunk)
        /\ at[c] = Len(d) /\ Len(d) \in Nat /\ Len(f) \in Nat
    BY <2>1, LenProperties DEF TypeOK, ReadSoFar, Progress
  <2>4. steady[c] => Len(d) <= Len(f) /\ \A i \in 1 .. Len(d) : d[i] = f[i]
    BY <2>1, <2>2, <2>3 DEF ReadSoFar, Progress
  <2>5. CASE at[c] + 1 <= Len(f)
    <3> DEFINE x == f[at[c] + 1]
               e == Append(d, x)
    <3>1. /\ Rewrite(c, "local", Put(file["local"], at[c] + 1, x))
          /\ at'[c] = at[c] + 1 /\ digest'[c] = e /\ size'[c] = size[c] + 1
          /\ pc'[c] = "read"
      BY <1>2, <2>1, <2>5 DEF TypeOK, GetRead
    <3>2. x \in Chunk
      BY <2>3, <2>5, ElementOfSeq
    <3>3. Len(e) = Len(d) + 1
      BY <2>3, <3>2, AppendProperties
    <3>4. /\ file'["local"] = Put(file["local"], at[c] + 1, x)
          /\ file'["remote"] = f
          /\ sole'[c] => sole[c]
          /\ steady'[c] => steady[c]
      BY <2>1, <2>2, <3>1, RewriteOwn
    <3>5. sole'[c] => digest'[c] = file'["local"]
      BY <2>1, <2>3, <3>1, <3>2, <3>4, PutAppends
    <3>6. steady[c] => at'[c] <= Len(f) /\ \A i \in 1 .. at'[c] : e[i] = f[i]
      BY <2>3, <2>4, <2>5, <3>1, ReadMore
    <3>7. ReadSoFar(c)'
      BY <2>1, <2>3, <3>1, <3>3, <3>4, <3>6 DEF ReadSoFar, Src
    <3> QED BY <2>1, <3>1, <3>3, <3>5, <3>7 DEF Progress, Src, Dst, Copying
  <2>6. CASE ~(at[c] + 1 <= Len(f))
    <3>1. pc'[c] = "close" /\ UNCHANGED <<fileVars, at, digest, size, histVars>>
      BY <1>2, <2>6 DEF TypeOK, GetRead
    <3>2. ~(Len(d) < Len(f))
      BY <2>3, <2>6
    <3>3. steady[c] => d = f
      BY <2>3, <2>4, <3>2, ReadMore
    <3> QED BY <2>1, <3>1, <3>3 DEF Progress, Src, Dst, Copying
  <2> QED BY <2>5, <2>6
<1> QED BY <1>1, <1>2

\* A call that fails leaves behind what it will.
LEMMA FailProgress ==
    ASSUME TypeOK, NEW c \in Calls, Progress(c),
           pc'[c] \in {"fail", "record"} \cup Over, result'[c] # "done",
           UNCHANGED <<kind, digest, size>>,
           steady'[c] => steady[c],
           kind[c] = "put" => file'["local"] = file["local"]
    PROVE  Progress(c)'
  BY DEF Progress, Copying, Over

\* So does one that is cut off with its result.
LEMMA CutProgress ==
    ASSUME TypeOK, NEW c \in Calls, Progress(c), pc'[c] = "cut",
           UNCHANGED <<fileVars, kind, digest, size, steady, sole, result>>
    PROVE  Progress(c)'
  BY DEF Progress, Copying, Src, Dst

LEMMA StepProgress ==
    ASSUME TypeOK, DOMAIN steady = Calls,
           NEW c \in Calls, Ended(c), Progress(c), Step(c)
    PROVE  Progress(c)'
<1>1. CASE Start(c)
  <2>1. PICK k \in {"put", "get"} :
            /\ kind' = [kind EXCEPT ![c] = k]
            /\ size' = [size EXCEPT ![c] = IF k = "put" THEN Len(file["local"]) ELSE 0]
            /\ \/ At(c, "connect") /\ UNCHANGED result
               \/ k = "get" /\ Ends(c, "record", "rejected")
    BY <1>1 DEF Start
  <2>2. /\ pc[c] = "new" /\ result[c] = "none" /\ digest[c] = <<>> /\ at[c] = 0
        /\ UNCHANGED <<fileVars, at, digest>>
    BY <1>1 DEF Start, Progress, Ended
  <2>3. kind'[c] = k /\ size'[c] = IF k = "put" THEN Len(file["local"]) ELSE 0
    BY <2>1 DEF TypeOK
  <2>4. \/ pc'[c] = "connect" /\ result'[c] = "none"
        \/ pc'[c] = "record" /\ result'[c] = "rejected"
    BY <2>1, <2>2 DEF TypeOK
  <2>5. Len(digest'[c]) = 0
    BY <2>2
  <2> QED BY <2>2, <2>3, <2>4, <2>5 DEF Progress, Copying
<1>2. CASE StartFails(c)
  BY <1>2, EmptySeq DEF TypeOK, StartFails, Progress, Ended, Copying
<1>3. CASE Connect(c)
  BY <1>3 DEF TypeOK, Connect, Progress, Ended, Copying
<1>4. CASE ConnectFails(c) \/ Denied(c) \/ SftpFails(c)
  <2>1. /\ pc'[c] \in {"fail", "record"} /\ result'[c] \in {"rejected", "error"}
        /\ UNCHANGED <<fileVars, kind, digest, size, steady>>
    BY <1>4 DEF TypeOK, ConnectFails, Denied, SftpFails
  <2> QED BY <2>1, FailProgress
<1>5. CASE Close(c)
  BY <1>5 DEF TypeOK, Close, Progress, Copying, Src, Dst
<1>6. CASE PutOpen(c) \/ PutWrite(c)
  BY <1>6, PutProgress
<1>7. CASE GetOpen(c) \/ GetRead(c)
  BY <1>7, GetProgress
<1>8. CASE Lost(c) \/ LocalFails(c)
  <2>1. /\ Arrived(c) /\ pc'[c] = "fail" /\ result'[c] # "done"
        /\ UNCHANGED <<kind, digest, size>>
    BY <1>8 DEF TypeOK, Lost, LocalFails
  <2> QED BY <2>1, ArrivedOwn, FailProgress
<1>9. CASE Recorded(c) \/ ServerRecords(c)
  BY <1>9 DEF TypeOK, Recorded, ServerRecords, Progress, Copying, Src, Dst
<1>10. CASE RecordFails(c)
  <2>1. UNCHANGED <<fileVars, kind, digest, size, steady, sole>>
    BY <1>10 DEF RecordFails
  <2>2. \/ pc'[c] = "fail" /\ result'[c] = "unsaved"
        \/ pc'[c] = "cut" /\ UNCHANGED result
    BY <1>10 DEF TypeOK, RecordFails
  <2> QED BY <2>1, <2>2, FailProgress, CutProgress
<1>11. CASE Cancel(c)
  <2>1. /\ Arrived(c) /\ pc'[c] = "cut"
        /\ UNCHANGED <<kind, digest, size, result>>
    BY <1>11 DEF TypeOK, Cancel
  <2>2. CASE result[c] = "done"
    <3>1. UNCHANGED <<fileVars, histVars>>
      BY <2>1, <2>2 DEF Arrived, Ended, Copying
    <3> QED BY <2>1, <3>1, CutProgress
  <2>3. CASE result[c] # "done"
    BY <2>1, <2>3, ArrivedOwn, FailProgress DEF Over
  <2> QED BY <2>2, <2>3
<1> QED BY <1>1, <1>2, <1>3, <1>4, <1>5, <1>6, <1>7, <1>8, <1>9, <1>10, <1>11
        DEF Step, Resume

LEMMA StepDead ==
    ASSUME Inv, NEW c \in Calls, Step(c)
    PROVE  DeadAreMarked'
<1> USE DEF Inv, TypeOK, DeadAreMarked
<1>1. CASE Connect(c)
  <2>1. /\ gen' = (IF marked THEN gen + 1 ELSE gen) /\ marked' = FALSE
        /\ over' = [over EXCEPT ![c] = gen'] /\ UNCHANGED result
        /\ reported' = [reported EXCEPT ![c] =
                {over[d] : d \in {e \in Calls : result[e] = "unreachable"}}]
    BY <1>1 DEF Connect
  <2>2. result[c] = "none"
    BY <1>1 DEF Connect, Ended
  <2>3. \A d \in Calls : result[d] = "unreachable" => over[d] < gen'
    BY <2>1
  <2>4. gen' \notin reported'[c]
    BY <2>1, <2>3
  <2> QED BY <2>1, <2>2, <2>3, <2>4
<1>2. CASE /\ UNCHANGED <<gen, marked, over, reported>>
           /\ \A d \in Calls : result'[d] = "unreachable" => result[d] = "unreachable"
  BY <1>2
<1>3. CASE /\ UNCHANGED <<gen, over, reported>>
           /\ MarkDead(c)
  <2>1. marked \/ over[c] = gen => marked'
    BY <1>3
  <2>2. \A d \in Calls :
            result'[d] = "unreachable" => result[d] = "unreachable" \/ d = c
    BY <1>3
  <2>3. \A d \in Calls : over[d] \in Nat /\ gen \in Nat /\ over[d] <= gen
    OBVIOUS
  <2>4. \A d \in Calls : result'[d] = "unreachable" => over[d] < gen \/ marked'
    BY <2>1, <2>2, <2>3
  <2> QED BY <1>3, <2>4
<1>4. Arrived(c) => UNCHANGED reported
  BY DEF Arrived, Rewrite
<1>5. Lost(c) \/ LocalFails(c) => /\ UNCHANGED <<gen, over, reported>>
                                 /\ \/ MarkDead(c)
                                    \/ Ends(c, "fail", "error") /\ UNCHANGED marked
  BY <1>4 DEF Lost, LocalFails
<1>6. CASE Start(c) \/ StartFails(c)
  <2>1. UNCHANGED <<gen, marked, over, reported>>
    BY <1>6 DEF Start, StartFails
  <2>2. \A d \in Calls : result'[d] = "unreachable" => result[d] = "unreachable"
    BY <1>6 DEF Start, StartFails
  <2> QED BY <1>2, <2>1, <2>2
<1>7. CASE PutOpen(c) \/ PutWrite(c) \/ GetOpen(c) \/ GetRead(c)
  <2>1. UNCHANGED <<netVars, over, result>>
    BY <1>7 DEF PutOpen, PutWrite, GetOpen, GetRead
  <2>2. UNCHANGED reported
    BY <1>7 DEF PutOpen, PutWrite, GetOpen, GetRead, Rewrite
  <2> QED BY <1>2, <2>1, <2>2
<1>8. CASE ConnectFails(c) \/ Denied(c) \/ SftpFails(c) \/ Close(c)
  BY <1>2, <1>8 DEF ConnectFails, Denied, SftpFails, Close
<1>9. CASE Recorded(c) \/ ServerRecords(c) \/ RecordFails(c)
  BY <1>2, <1>9 DEF Recorded, ServerRecords, RecordFails
<1>10. CASE Cancel(c)
  BY <1>2, <1>4, <1>10 DEF Cancel
<1>11. CASE Lost(c) \/ LocalFails(c)
  BY <1>2, <1>3, <1>5, <1>11
<1> QED BY <1>1, <1>6, <1>7, <1>8, <1>9, <1>10, <1>11 DEF Step, Resume

LEMMA StepDomains ==
    ASSUME DOMAIN steady = Calls, DOMAIN reported = Calls, NEW c \in Calls, Step(c)
    PROVE  DOMAIN steady' = Calls /\ DOMAIN reported' = Calls
<1>1. Arrived(c) => DOMAIN steady' = Calls /\ DOMAIN reported' = Calls
  BY DEF Arrived, Rewrite
<1> QED BY <1>1 DEF Step, Start, StartFails, Resume, Connect, ConnectFails, PutOpen,
        PutWrite, GetOpen, GetRead, Close, Lost, LocalFails, Denied, SftpFails,
        Recorded, ServerRecords, RecordFails, Cancel, Rewrite

\* Other programs and the network leave every call aside.
LEMMA OthersAside ==
    ASSUME TypeOK, NEW d \in Calls, (\E s \in Sides : Edit(s)) \/ Break \/ UNCHANGED vars
    PROVE  Aside(d) /\ UNCHANGED <<gen, marked, over, reported, result>>
<1>1. ASSUME NEW s \in Sides, Edit(s)
      PROVE  Aside(d) /\ UNCHANGED <<gen, marked, over, reported, result>>
  BY <1>1 DEF TypeOK, Edit, Aside, Src, Dst
<1>2. CASE Break
  BY <1>2 DEF Break, Aside, Src, Dst
<1>3. CASE UNCHANGED vars
  BY <1>3 DEF vars, Aside, Src, Dst
<1> QED BY <1>1, <1>2, <1>3

LEMMA InitInv == Init => Inv
<1> SUFFICES ASSUME Init PROVE Inv
  OBVIOUS
<1>1. \A c \in Calls : Ended(c)
  BY DEF Init, Ended, Buffered, Over
<1>2. \A c \in Calls : Progress(c)
  BY EmptySeq DEF Init, Progress, Copying
<1>3. DeadAreMarked
  <2> SUFFICES ASSUME NEW c \in Calls
               PROVE  /\ over[c] <= gen /\ result[c] # "unreachable"
                      /\ over[c] \notin reported[c]
    BY DEF DeadAreMarked
  <2>1. over[c] = 0 /\ gen = 1 /\ result[c] = "none" /\ reported[c] = {}
    BY DEF Init
  <2> QED BY <2>1
<1> QED BY <1>1, <1>2, <1>3, InitTyped DEF Inv, Init

LEMMA NextInv == Inv /\ [Next]_vars => Inv'
<1> SUFFICES ASSUME Inv, [Next]_vars PROVE Inv'
  OBVIOUS
<1>1. TypeOK'
  BY ControlTyped, FaultTyped, CopyTyped, OthersTyped DEF Inv, Next, Resume
<1>2. ASSUME NEW c \in Calls, Step(c) PROVE Inv'
  <2>1. \A d \in Calls : Ended(d)' /\ Progress(d)'
    BY <1>2, StepAside, AsideKept, StepEnded, StepProgress DEF Inv
  <2> QED BY <1>1, <1>2, <2>1, StepDead, StepDomains DEF Inv
<1>3. CASE (\E s \in Sides : Edit(s)) \/ Break \/ UNCHANGED vars
  <2>1. \A d \in Calls : Aside(d) /\ UNCHANGED <<gen, marked, over, reported, result>>
    BY <1>3, OthersAside DEF Inv
  <2>2. \A d \in Calls : Ended(d)' /\ Progress(d)'
    BY <2>1, AsideKept DEF Inv
  <2>3. DOMAIN steady' = Calls /\ DOMAIN reported' = Calls
    BY <1>3 DEF Inv, Edit, Break, vars
  <2>4. DeadAreMarked'
    BY <2>1 DEF Inv, DeadAreMarked
  <2> QED BY <1>1, <2>2, <2>3, <2>4 DEF Inv
<1> QED BY <1>2, <1>3 DEF Next, Step

THEOREM Invariance == Spec => []Inv
  BY InitInv, NextInv, PTL DEF Spec

-----------------------------------------------------------------------------
(* What the invariant implies.                                             *)

\* A finished copy has the bytes that were digested, and those are the source,
\* unless somebody else wrote one of the files (transfer.py:79-89, 183-196).
THEOREM CopyWhole == Spec => []CopyIsWhole
<1>1. Inv => CopyIsWhole
  BY DEF Inv, CopyIsWhole, Progress
<1> QED BY <1>1, Invariance, PTL

\* The size in the result and in the record is that of the digested bytes
\* (transfer.py:75, 196).
THEOREM SizeReported == Spec => []SizeIsOfDigest
<1>1. Inv => SizeIsOfDigest
  BY DEF Inv, SizeIsOfDigest, Progress, Src
<1> QED BY <1>1, Invariance, PTL

\* A transfer that ends has its line in the audit log, and one only, or two
\* when the write of the first raised (server.py:359-401, audit.py:158-159).
THEOREM RecordsCounted == Spec => []AuditOnce
<1>1. ASSUME Inv PROVE AuditOnce
  <2>1. SUFFICES ASSUME NEW c \in Calls
                 PROVE  /\ audits[c] <= IF result[c] = "unsaved" THEN 2 ELSE 1
                        /\ pc[c] = "end" => audits[c] >= 1
    BY DEF AuditOnce
  <2>2. Ended(c)
    BY <1>1 DEF Inv
  <2>3. CASE result[c] = "unsaved"
    BY <2>2, <2>3 DEF Ended, Buffered, Over
  <2>4. CASE result[c] # "unsaved"
    BY <2>2, <2>4 DEF Ended, Buffered, Over
  <2> QED BY <2>3, <2>4
<1> QED BY <1>1, Invariance, PTL

\* The transport over which a transfer was answered `unreachable' is given to
\* no later one (transfer.py:112, 219).
THEOREM DeadNotServed == Spec => []ReportedNotServed
<1>1. Inv => ReportedNotServed
  BY DEF Inv, ReportedNotServed, DeadAreMarked
<1> QED BY <1>1, Invariance, PTL

=============================================================================
