---------------------------- MODULE LogScanProofs ----------------------------
(***************************************************************************)
(* Theorems about LogScan, for any log, any chunks and any sizes that keep *)
(* the assumptions: type correctness, that reading and searching chunk by  *)
(* chunk is as good as reading and searching the whole, and that an answer *)
(* shows what the command printed.  What Newlines computes is proved by    *)
(* induction, from the well-foundedness of the natural numbers.            *)
(***************************************************************************)
EXTENDS LogScan, SequenceTheorems, FiniteSetTheorems, WellFoundedInduction, TLAPS

USE DEF LF, CR, Sep, Char, Lead, Cont, Ask, StartMark

-----------------------------------------------------------------------------
(* The log.                                                                *)

LEMMA WholeTyped ==
    ASSUME output \in Seq(Printable) PROVE Whole \in Seq(Units)
<1>1. Marker \in Seq(Units)
  <2>1. \A i \in 1 .. MarkerLen : i \in Units
    BY MarkerAssumption DEF Units, Printable
  <2> QED BY <2>1, MarkerAssumption, IsASeq DEF Marker
<1>2. output \in Seq(Units)
  BY SeqMonotonic DEF Units
<1>3. Echo \in Seq(Units)
  BY DEF Echo, Units, Printable
<1>4. <<StartMark, CR, LF>> \in Seq(Units) /\ <<CR, LF>> \in Seq(Units)
        /\ <<CR, LF, Char>> \in Seq(Units)
  BY DEF Units, Printable
<1>5. ((Echo \o <<StartMark, CR, LF>>) \o output) \o <<CR, LF>> \in Seq(Units)
  BY <1>2, <1>3, <1>4, ConcatProperties
<1> QED BY <1>1, <1>4, <1>5, ConcatProperties DEF Whole

\* What a read gains continues what was read.
LEMMA RawContinues ==
    ASSUME TypeOK
    PROVE  /\ Raw \in Seq(Units)
           /\ offset + Len(Raw) \in 0 .. printed
           /\ SubSeq(Whole, 1, offset) \o Raw = SubSeq(Whole, 1, offset + Len(Raw))
<1>1. Whole \in Seq(Units) /\ printed \in 0 .. Len(Whole) /\ offset \in 0 .. printed
  BY WholeTyped DEF TypeOK
<1>2. \A i \in 1 .. Len(Whole) : Whole[i] \in Units
  BY <1>1, ElementOfSeq
<1>3. Len(Whole) \in Nat
  BY <1>1
<1>4. /\ Log \in Seq(Units) /\ Len(Log) = printed
      /\ \A i \in 1 .. printed : Log[i] = Whole[i]
  BY <1>1, <1>2, <1>3, SubSeqProperties DEF Log
<1>5. SubSeq(Whole, 1, offset) \in Seq(Units)
  BY <1>1, <1>2, <1>3, SubSeqProperties
<1>6. CASE swept \/ offset = printed
  <2>1. Raw = <<>>
    BY <1>1, <1>3, <1>4, <1>6, SubSeqEmpty DEF Raw
  <2> QED BY <1>1, <1>5, <2>1, ConcatEmptySeq
<1>7. CASE ~swept /\ offset < printed
  <2>1. /\ Raw \in Seq(Units) /\ Len(Raw) = printed - offset
        /\ \A i \in 1 .. printed - offset : Raw[i] = Log[offset + i]
    BY <1>1, <1>3, <1>4, <1>7, SubSeqProperties, ElementOfSeq DEF Raw
  <2>2. /\ SubSeq(Whole, offset + 1, printed) \in Seq(Units)
        /\ Len(SubSeq(Whole, offset + 1, printed)) = printed - offset
        /\ \A i \in 1 .. printed - offset :
                SubSeq(Whole, offset + 1, printed)[i] = Whole[offset + i]
    BY <1>1, <1>2, <1>3, <1>7, SubSeqProperties
  <2>3. Raw = SubSeq(Whole, offset + 1, printed)
    BY <1>1, <1>3, <1>4, <2>1, <2>2, SeqEqual
  <2>4. SubSeq(Whole, 1, offset) \o SubSeq(Whole, offset + 1, printed)
            = SubSeq(Whole, 1, printed)
    BY <1>1, <1>3, <1>7, ConcatAdjacentSubSeq
  <2> QED BY <1>1, <2>1, <2>3, <2>4
<1> QED BY <1>1, <1>6, <1>7 DEF TypeOK

\* The decoder loses nothing: what it emits and what it keeps is what it had.
LEMMA DecoderKeepsAll ==
    ASSUME TypeOK
    PROVE  /\ Kept \in {<<>>, <<Lead>>} /\ Content \in Seq(Units)
           /\ Len(Content) >= Len(text)
           /\ \A i \in 1 .. Len(text) : Content[i] = text[i]
           /\ Content \o Kept = (text \o held) \o Raw
<1>1. held \in Seq(Units) /\ text \in Seq(Units) /\ <<Lead>> \in Seq(Units)
  <2>1. Lead \in Units
    BY DEF Units, Printable
  <2>2. <<Lead>> \in Seq(Units) /\ <<>> \in Seq(Units)
    BY <2>1
  <2> QED BY <2>2 DEF TypeOK
<1>2. Raw \in Seq(Units)
  BY RawContinues
<1>3. Fed \in Seq(Units) /\ Len(Fed) \in Nat
  BY <1>1, <1>2, ConcatProperties DEF Fed
<1>4. Kept \in {<<>>, <<Lead>>} /\ Kept \in Seq(Units)
  BY <1>1 DEF Kept
<1> DEFINE emits == SubSeq(Fed, 1, Len(Fed) - Len(Kept))
<1>5. emits \in Seq(Units) /\ emits \o Kept = Fed
  <2>1. CASE Fed # <<>> /\ Fed[Len(Fed)] = Lead
    <3>1. Kept = <<Lead>> /\ Len(Kept) = 1
      BY <2>1 DEF Kept
    <3>2. Len(Fed) \in 1 .. Len(Fed) /\ 1 \in 1 .. Len(Fed)
      BY <1>3, <2>1, EmptySeq
    <3>3. SubSeq(Fed, 1, Len(Fed)) = emits \o <<Fed[Len(Fed)]>>
      BY <1>3, <3>1, <3>2, SubSeqRecursiveSecond
    <3>4. emits \in Seq(Units)
      BY <1>3, <3>1, <3>2, SubSeqProperties, ElementOfSeq
    <3> QED BY <1>3, <2>1, <3>1, <3>3, <3>4, SubSeqFull
  <2>2. CASE ~(Fed # <<>> /\ Fed[Len(Fed)] = Lead)
    <3>1. Kept = <<>> /\ Len(Kept) = 0
      BY <2>2 DEF Kept
    <3>2. emits = Fed
      BY <1>3, <3>1, SubSeqFull
    <3> QED BY <1>3, <3>1, <3>2, ConcatEmptySeq
  <2> QED BY <2>1, <2>2
<1> HIDE DEF emits
<1>6. Content = text \o emits
  BY DEF Content, emits
<1>7. /\ Content \in Seq(Units) /\ Len(Content) = Len(text) + Len(emits)
      /\ \A i \in 1 .. Len(text) : Content[i] = text[i]
  <2>1. Len(text) \in Nat /\ Len(emits) \in Nat
    BY <1>1, <1>5
  <2> QED BY <1>1, <1>5, <1>6, <2>1, ConcatProperties
<1>8. Content \o Kept = (text \o held) \o Raw
  <2>1. (text \o emits) \o Kept = text \o (emits \o Kept)
    <3>1. text \in Seq(Units) /\ emits \in Seq(Units) /\ Kept \in Seq(Units)
      BY <1>1, <1>4, <1>5
    <3> QED BY <3>1, ConcatAssociative
  <2>2. Content \o Kept = text \o (held \o Raw)
    <3>1. Content \o Kept = text \o (emits \o Kept)
      BY <1>6, <2>1
    <3>2. emits \o Kept = held \o Raw
      BY <1>5 DEF Fed
    <3> QED BY <3>1, <3>2
  <2>3. (text \o held) \o Raw = text \o (held \o Raw)
    BY <1>1, <1>2, ConcatAssociative
  <2> QED BY <2>2, <2>3
<1>9. Len(text) \in Nat /\ Len(emits) \in Nat
  BY <1>1, <1>5
<1> QED BY <1>4, <1>7, <1>8, <1>9

-----------------------------------------------------------------------------
(* The search.                                                             *)

\* A sentinel that a text gains when it grows ends behind the old text, so it
\* begins behind the place where the next search starts.
LEMMA SearchFromOverlap ==
    ASSUME NEW t \in Seq(Units), NEW u \in Seq(Units), Len(u) >= Len(t),
           \A i \in 1 .. Len(t) : u[i] = t[i],
           ~\E p \in DOMAIN t : SentinelAt(t, p),
           NEW p \in DOMAIN u, SentinelAt(u, p)
    PROVE  p > Len(t) - Overlap
<1>1. Len(t) \in Nat /\ Len(u) \in Nat /\ DOMAIN t = 1 .. Len(t)
        /\ DOMAIN u = 1 .. Len(u)
  OBVIOUS
<1>2. p \in Nat /\ p >= 1
  BY <1>1
<1> DEFINE e == p + MarkerLen - 1
<1>3. e \in Nat /\ e >= p
  BY <1>2, MarkerAssumption
<1> SUFFICES ASSUME p <= Len(t) - Overlap PROVE FALSE
  BY <1>1, <1>2, MarkerAssumption
<1>4. e <= Len(t)
  BY <1>1, <1>2, MarkerAssumption, OverlapAssumption
<1>5. p \in DOMAIN t
  BY <1>1, <1>2, <1>3, <1>4
<1>6. LineStart(t, p)
  <2>1. p > 1 => p - 1 \in 1 .. Len(t)
    BY <1>1, <1>2, <1>3, <1>4
  <2> QED BY <2>1 DEF SentinelAt, LineStart
<1>7. \A i \in 1 .. MarkerLen : t[p + i - 1] = i
  <2>1. \A i \in 1 .. MarkerLen : p + i - 1 \in 1 .. Len(t)
    BY <1>1, <1>2, <1>4, MarkerAssumption
  <2> QED BY <2>1 DEF SentinelAt
<1>8. PICK q \in e .. Len(u) :
        /\ \A j \in p + MarkerLen .. q : u[j] \in Blank
        /\ LineEnd(u, q)
  BY DEF SentinelAt
<1> HIDE DEF e
<1>9. p + MarkerLen \in Nat /\ p + MarkerLen >= 1
  BY <1>2, MarkerAssumption
<1>10. CASE q >= Len(t)
  <2>1. \A j \in p + MarkerLen .. Len(t) : t[j] \in Blank
    <3> TAKE j \in p + MarkerLen .. Len(t)
    <3>1. j \in 1 .. Len(t) /\ j \in p + MarkerLen .. q
      BY <1>1, <1>3, <1>8, <1>9, <1>10
    <3> QED BY <3>1, <1>8
  <2>2. LineEnd(t, Len(t)) /\ Len(t) \in e .. Len(t)
    BY <1>1, <1>3, <1>4 DEF LineEnd
  <2> QED BY <1>4, <1>5, <1>6, <1>7, <2>1, <2>2 DEF SentinelAt, e
<1>11. CASE q < Len(t)
  <2>1. q \in e .. Len(t) /\ q + 1 \in 1 .. Len(t) /\ q < Len(u)
    BY <1>1, <1>3, <1>8, <1>11
  <2>2. \A j \in p + MarkerLen .. q : t[j] \in Blank
    <3> TAKE j \in p + MarkerLen .. q
    <3>1. j \in 1 .. Len(t)
      BY <1>1, <1>3, <1>8, <1>9, <1>11
    <3> QED BY <3>1, <1>8
  <2>3. LineEnd(t, q)
    BY <1>8, <2>1 DEF LineEnd
  <2> QED BY <1>4, <1>5, <1>6, <1>7, <2>1, <2>2, <2>3 DEF SentinelAt, e
<1> QED BY <1>1, <1>3, <1>8, <1>10, <1>11
-----------------------------------------------------------------------------
(* The invariant.                                                          *)

\* The next search starts behind the text that was searched.
ScanIsText == scan = Len(text)

Inv == TypeOK /\ ScanIsText /\ ScanIsExact

LEMMA InvInit == Init => Inv
<1> SUFFICES ASSUME Init PROVE Inv
  OBVIOUS
<1>1. output \in Seq(Printable)
  <2>1. PICK n \in 0 .. MaxOut : output \in [1 .. n -> Printable]
    BY DEF Init
  <2>2. n \in Nat
    BY <2>1, SliceAssumption
  <2>3. output = [i \in 1 .. n |-> output[i]] /\ \A i \in 1 .. n : output[i] \in Printable
    BY <2>1
  <2>4. [i \in 1 .. n |-> output[i]] \in Seq(Printable)
    BY <2>2, <2>3, IsASeq
  <2> QED BY <2>3, <2>4
<1>2. Whole \in Seq(Units) /\ Len(Whole) \in Nat
  BY <1>1, WholeTyped
<1>3. TypeOK
  <2>1. printed = 0 /\ offset = 0 /\ scan = 0 /\ swept = FALSE
    BY DEF Init
  <2>2. printed \in 0 .. Len(Whole) /\ offset \in 0 .. printed /\ scan \in Nat
    BY <1>2, <2>1
  <2>3. held = <<>> /\ text \in Seq(Units)
    BY DEF Init
  <2>4. answer.status \in Statuses
    BY DEF Init, Nothing, Statuses
  <2> QED BY <1>1, <2>1, <2>2, <2>3, <2>4 DEF TypeOK
<1>4. text \o held = SubSeq(Whole, 1, offset)
  <2>1. text \o held = <<>>
    BY ConcatEmptySeq DEF Init
  <2>2. SubSeq(Whole, 1, 0) = <<>>
    BY SubSeqEmpty
  <2> QED BY <2>1, <2>2 DEF Init
<1>5. DOMAIN text = {} /\ Len(text) = 0
  BY DEF Init
<1>6. answer.status # "done"
  BY DEF Init, Nothing
<1>7. ScanIsText /\ ScanIsExact
  BY <1>4, <1>5, <1>6 DEF Init, ScanIsText, ScanIsExact
<1> QED BY <1>3, <1>7 DEF Inv

\* A poll reads on from where the last one stopped.
LEMMA PullExact ==
    ASSUME Inv, Pull, answer'.status \in Statuses
    PROVE  /\ TypeOK' /\ ScanIsText'
           /\ text' \o held' = SubSeq(Whole', 1, offset')
<1>1. /\ Raw \in Seq(Units)
      /\ offset + Len(Raw) \in 0 .. printed
      /\ SubSeq(Whole, 1, offset) \o Raw = SubSeq(Whole, 1, offset + Len(Raw))
  BY RawContinues DEF Inv
<1>2. /\ Kept \in {<<>>, <<Lead>>} /\ Content \in Seq(Units)
      /\ Content \o Kept = (text \o held) \o Raw
  BY DecoderKeepsAll DEF Inv
<1> USE DEF Pull
<1>3. Whole' = Whole
  BY DEF Whole, logVars
<1>4. text' \o held' = SubSeq(Whole', 1, offset')
  BY <1>1, <1>2, <1>3 DEF Inv, ScanIsExact
<1>5. Len(Content) \in Nat
  BY <1>2
<1>6. TypeOK'
  BY <1>1, <1>2, <1>3, <1>5 DEF TypeOK, Inv, logVars
<1> QED BY <1>4, <1>6 DEF ScanIsText

\* The search of a poll finds what a search of the whole text would find.
LEMMA SearchExact ==
    ASSUME Inv, answer.status # "done"
    PROVE  Finds(Content) <=> \E p \in DOMAIN Content : SentinelAt(Content, p)
<1>1. /\ Content \in Seq(Units) /\ Len(Content) >= Len(text)
      /\ \A i \in 1 .. Len(text) : Content[i] = text[i]
  BY DecoderKeepsAll DEF Inv
<1>2. text \in Seq(Units) /\ scan = Len(text)
        /\ ~\E p \in DOMAIN text : SentinelAt(text, p)
  BY DEF Inv, TypeOK, ScanIsText, ScanIsExact
<1>3. DOMAIN Content = 1 .. Len(Content) /\ Len(Content) \in Nat /\ Len(text) \in Nat
  BY <1>1, <1>2
<1>4. ScanFrom \in Nat /\ \A p \in Nat : p > Len(text) - Overlap /\ p >= 1 => p > ScanFrom
  BY <1>2, <1>3, MarkerAssumption DEF ScanFrom
<1>5. ASSUME NEW p \in DOMAIN Content, SentinelAt(Content, p)
      PROVE  Finds(Content)
  <2>1. p > Len(text) - Overlap
    BY <1>1, <1>2, <1>5, SearchFromOverlap
  <2>2. p \in ScanFrom + 1 .. Len(Content)
    BY <1>3, <1>4, <2>1
  <2> QED BY <1>5, <2>2 DEF Finds
<1>6. ASSUME Finds(Content)
      PROVE  \E p \in DOMAIN Content : SentinelAt(Content, p)
  BY <1>3, <1>4, <1>6 DEF Finds
<1> QED BY <1>5, <1>6

LEMMA InvNext == Inv /\ [Next]_vars => Inv'
<1> SUFFICES ASSUME Inv, [Next]_vars PROVE Inv'
  OBVIOUS
<1>1. CASE Emit
  <2>1. Whole' = Whole
    BY <1>1 DEF Emit, Whole
  <2>2. Whole \in Seq(Units) /\ Len(Whole) \in Nat
    BY WholeTyped DEF Inv, TypeOK
  <2>3. TypeOK'
    BY <1>1, <2>1, <2>2 DEF Emit, Inv, TypeOK
  <2> QED BY <1>1, <2>1, <2>3 DEF Emit, Inv, ScanIsText, ScanIsExact, SentinelAt,
             LineStart, LineEnd
<1>2. CASE Sweep
  <2>1. Whole' = Whole
    BY <1>2 DEF Sweep, Whole
  <2>2. TypeOK'
    BY <1>2, <2>1 DEF Sweep, Inv, TypeOK
  <2> QED BY <1>2, <2>1, <2>2 DEF Sweep, Inv, ScanIsText, ScanIsExact, SentinelAt,
             LineStart, LineEnd
<1>3. ASSUME NEW status \in Statuses, Pull, answer'.status = status,
             status = "done" <=> Finds(Content)
      PROVE  Inv'
  <2>1. TypeOK' /\ ScanIsText' /\ text' \o held' = SubSeq(Whole', 1, offset')
    BY <1>3, PullExact
  <2>2. text' = Content /\ answer.status # "done"
    BY <1>3 DEF Pull
  <2>3. status = "done" <=> \E p \in DOMAIN Content : SentinelAt(Content, p)
    BY <1>3, <2>2, SearchExact
  <2>4. answer'.status = "done" <=> \E p \in DOMAIN text' : SentinelAt(text', p)
    BY <1>3, <2>2, <2>3
  <2>5. ScanIsExact'
    BY <2>1, <2>4 DEF ScanIsExact, SentinelAt, LineStart, LineEnd
  <2> QED BY <2>1, <2>5 DEF Inv
<1>4. CASE PollDone
  <2>1. answer'.status = "done" /\ Pull /\ Finds(Content)
    BY <1>4 DEF PollDone, Answer
  <2> QED BY <1>3, <2>1 DEF Statuses
<1>5. CASE PollPrompt
  <2>1. answer'.status = "needs_input" /\ Pull /\ ~Finds(Content)
    BY <1>5 DEF PollPrompt, Answer
  <2> QED BY <1>3, <2>1 DEF Statuses
<1>6. CASE PollTimeout
  <2>1. answer'.status = "still_running" /\ Pull /\ ~Finds(Content)
    BY <1>6 DEF PollTimeout, Answer
  <2> QED BY <1>3, <2>1 DEF Statuses
<1>7. CASE PollSleep
  <2>1. answer'.status = "none" /\ Pull /\ ~Finds(Content)
    BY <1>7 DEF PollSleep, Nothing
  <2> QED BY <1>3, <2>1 DEF Statuses
<1>8. CASE UNCHANGED vars
  <2>1. Whole' = Whole
    BY <1>8 DEF vars, logVars, Whole
  <2>2. TypeOK'
    BY <1>8, <2>1 DEF vars, logVars, Inv, TypeOK
  <2> QED BY <1>8, <2>1, <2>2 DEF vars, logVars, Inv, ScanIsText, ScanIsExact,
             SentinelAt, LineStart, LineEnd
<1> QED BY <1>1, <1>2, <1>4, <1>5, <1>6, <1>7, <1>8 DEF Next

-----------------------------------------------------------------------------
(* Induction over the natural numbers, from the well-foundedness of their  *)
(* order.                                                                  *)

LEMMA OrderWellFounded ==
    \E R : /\ IsWellFoundedOn(R, Nat)
           /\ \A m, n \in Nat : n < m => <<n, m>> \in R
<1>1. IsWellFoundedOn(OpToRel(<, Nat), Nat)
  BY NatLessThanWellFounded
<1>2. \A m, n \in Nat : n < m => <<n, m>> \in OpToRel(<, Nat)
  BY DEF OpToRel
<1> QED  BY <1>1, <1>2, Zenon

LEMMA LeastNumber ==
    ASSUME NEW S, S \subseteq Nat, S # {}
    PROVE  \E m \in S : \A n \in S : m <= n
<1>1. PICK R : /\ IsWellFoundedOn(R, Nat)
               /\ \A m, n \in Nat : n < m => <<n, m>> \in R
  BY OrderWellFounded
<1>2. PICK m \in S : \A n \in S : <<n, m>> \notin R
  BY <1>1, WFMin
<1>3. ASSUME NEW n \in S PROVE m <= n
  <2>1. <<n, m>> \notin R /\ m \in Nat /\ n \in Nat
    BY <1>2
  <2>2. ~(n < m)
    BY <1>1, <2>1
  <2> QED  BY <2>1, <2>2
<1> QED  BY <1>3

LEMMA Induction ==
    ASSUME NEW m \in Nat, NEW S, 0 \in S,
           \A n \in 1 .. m : n - 1 \in S => n \in S
    PROVE  0 .. m \subseteq S
<1> DEFINE B == {n \in 0 .. m : n \notin S}
<1> SUFFICES ASSUME B # {} PROVE FALSE
  OBVIOUS
<1>1. PICK k \in B : \A n \in B : k <= n
  <2>1. B \subseteq Nat
    OBVIOUS
  <2> HIDE DEF B
  <2> QED  BY <2>1, LeastNumber
<1>2. k \in 1 .. m /\ k - 1 \notin B
  BY <1>1
<1> QED  BY <1>1, <1>2

-----------------------------------------------------------------------------
(* What Newlines computes.                                                 *)

\* What the n-th unit of t makes of s, which came of those before it.
Grown(t, s, n) ==
    IF n > 1 /\ t[n] = LF /\ t[n - 1] = CR THEN s
    ELSE Append(s, IF t[n] \in {CR, Sep} THEN LF ELSE t[n])
Unfolds(t, g, m) ==
    g = [n \in 0 .. m |-> IF n = 0 THEN <<>> ELSE Grown(t, g[n - 1], n)]

LEMMA GrownStays ==
    ASSUME NEW t, NEW s, NEW n, n > 1, t[n] = LF, t[n - 1] = CR
    PROVE  Grown(t, s, n) = s
BY DEF Grown

LEMMA GrownGrows ==
    ASSUME NEW t, NEW s, NEW n, ~(n > 1 /\ t[n] = LF /\ t[n - 1] = CR)
    PROVE  Grown(t, s, n) = Append(s, IF t[n] \in {CR, Sep} THEN LF ELSE t[n])
BY DEF Grown

\* The recursion has a solution.
LEMMA NewlinesUnfold ==
    ASSUME NEW t, Len(t) \in Nat
    PROVE  Unfolds(t, Newlines(t), Len(t))
<1> DEFINE S == {m \in Nat : \E g : Unfolds(t, g, m)}
<1>1. 0 \in S
  <2>1. Unfolds(t, [n \in 0 .. 0 |-> <<>>], 0)
    BY DEF Unfolds
  <2> QED  BY <2>1
<1>2. ASSUME NEW m \in 1 .. Len(t), m - 1 \in S
      PROVE  m \in S
  <2>1. PICK g : Unfolds(t, g, m - 1)
    BY <1>2
  <2> DEFINE h == [n \in 0 .. m |-> IF n < m THEN g[n] ELSE Grown(t, g[m - 1], m)]
  <2>2. \A n \in 1 .. m : h[n - 1] = g[n - 1]
    OBVIOUS
  <2>3. \A n \in 0 .. m : h[n] = IF n = 0 THEN <<>> ELSE Grown(t, h[n - 1], n)
    <3> TAKE n \in 0 .. m
    <3>1. CASE n = m
      BY <2>2, <3>1
    <3>2. CASE n < m
      <4>1. g[n] = IF n = 0 THEN <<>> ELSE Grown(t, g[n - 1], n)
        BY <2>1, <3>2 DEF Unfolds
      <4> QED  BY <2>2, <3>2, <4>1
    <3> QED  BY <3>1, <3>2
  <2>4. h = [n \in 0 .. m |-> h[n]]
    OBVIOUS
  <2> HIDE DEF h
  <2>5. Unfolds(t, h, m)
    BY <2>3, <2>4 DEF Unfolds
  <2> QED  BY <2>5
<1> HIDE DEF S
<1>3. Len(t) \in S
  <2>1. \A m \in 1 .. Len(t) : m - 1 \in S => m \in S
    BY <1>2
  <2>2. 0 .. Len(t) \subseteq S
    BY <1>1, <2>1, Induction
  <2> QED  BY <2>2
<1>4. \E g : Unfolds(t, g, Len(t))
  BY <1>3 DEF S
<1>5. Newlines(t) = CHOOSE g : Unfolds(t, g, Len(t))
  BY DEF Newlines, Unfolds, Grown
<1> QED  BY <1>4, <1>5, Zenon

LEMMA NewlinesStep ==
    ASSUME NEW t, Len(t) \in Nat
    PROVE  /\ Newlines(t)[0] = <<>>
           /\ \A n \in 1 .. Len(t) :
                Newlines(t)[n] = Grown(t, Newlines(t)[n - 1], n)
<1> DEFINE g == Newlines(t)
<1>1. Unfolds(t, g, Len(t))
  BY NewlinesUnfold
<1> HIDE DEF g
<1>2. /\ g[0] = <<>>
      /\ \A n \in 1 .. Len(t) : g[n] = Grown(t, g[n - 1], n)
  BY <1>1 DEF Unfolds
<1> QED  BY <1>2 DEF g

\* The units that come of t are those of t, but LF for CR and Sep.
LEMMA NewlinesTyped ==
    ASSUME NEW T, NEW t \in Seq(T)
    PROVE  \A n \in 0 .. Len(t) : Newlines(t)[n] \in Seq((T \ {CR}) \cup {LF})
<1> DEFINE U == (T \ {CR}) \cup {LF}
           g == Newlines(t)
           S == {n \in Nat : g[n] \in Seq(U)}
<1>0. Len(t) \in Nat /\ \A n \in 1 .. Len(t) : t[n] \in T
  OBVIOUS
<1>1. g[0] = <<>> /\ \A n \in 1 .. Len(t) : g[n] = Grown(t, g[n - 1], n)
  BY <1>0, NewlinesStep
<1> HIDE DEF g
<1>2. 0 \in S
  <2>1. <<>> \in Seq(U)
    BY EmptySeq
  <2> QED  BY <1>1, <2>1
<1>3. ASSUME NEW n \in 1 .. Len(t), n - 1 \in S
      PROVE  n \in S
  <2>1. g[n - 1] \in Seq(U) /\ t[n] \in T
    BY <1>0, <1>3
  <2>2. PICK e : e = IF t[n] \in {CR, Sep} THEN LF ELSE t[n]
    OBVIOUS
  <2>3. e \in U
    BY <2>1, <2>2
  <2> HIDE DEF U
  <2>4. Append(g[n - 1], e) \in Seq(U)
    BY <2>1, <2>3, AppendProperties
  <2>5. g[n] \in {g[n - 1], Append(g[n - 1], e)}
    BY <1>1, <2>2 DEF Grown
  <2>6. g[n] \in Seq(U)
    BY <2>1, <2>4, <2>5
  <2> QED  BY <2>6
<1> HIDE DEF S
<1>4. \A n \in 1 .. Len(t) : n - 1 \in S => n \in S
  BY <1>3
<1>5. 0 .. Len(t) \subseteq S
  BY <1>0, <1>2, <1>4, Induction
<1> QED  BY <1>5 DEF S, g

\* What comes of a text begins with what comes of its beginning.
LEMMA NewlinesOfPrefix ==
    ASSUME NEW T, NEW a \in Seq(T), NEW b \in Seq(T), Len(a) <= Len(b),
           \A i \in 1 .. Len(a) : a[i] = b[i]
    PROVE  \A n \in 0 .. Len(a) : Newlines(b)[n] = Newlines(a)[n]
<1> DEFINE f == Newlines(a)  g == Newlines(b)  S == {n \in Nat : g[n] = f[n]}
<1>0. Len(a) \in Nat /\ Len(b) \in Nat
  OBVIOUS
<1>1. /\ f[0] = <<>> /\ \A n \in 1 .. Len(a) : f[n] = Grown(a, f[n - 1], n)
      /\ g[0] = <<>> /\ \A n \in 1 .. Len(b) : g[n] = Grown(b, g[n - 1], n)
  BY <1>0, NewlinesStep
<1> HIDE DEF f, g
<1>2. 0 \in S
  BY <1>1
<1>3. ASSUME NEW n \in 1 .. Len(a), n - 1 \in S
      PROVE  n \in S
  <2>1. a[n] = b[n] /\ (n > 1 => a[n - 1] = b[n - 1]) /\ n \in 1 .. Len(b)
    BY <1>0
  <2>2. g[n - 1] = f[n - 1]
    BY <1>3
  <2>3. g[n] = f[n]
    BY <1>1, <2>1, <2>2 DEF Grown
  <2> QED  BY <2>3
<1> HIDE DEF S
<1>4. \A n \in 1 .. Len(a) : n - 1 \in S => n \in S
  BY <1>3
<1>5. 0 .. Len(a) \subseteq S
  BY <1>0, <1>2, <1>4, Induction
<1> QED  BY <1>5 DEF S, f, g

\* Two texts are put together line by line, unless a CR LF is cut.
LEMMA LinesJoin ==
    ASSUME NEW T, NEW a \in Seq(T), NEW b \in Seq(T),
           a # <<>> /\ b # <<>> => ~(a[Len(a)] = CR /\ b[1] = LF)
    PROVE  Lines(a \o b) = Lines(a) \o Lines(b)
<1>1. PICK c : c = a \o b
  OBVIOUS
<1>2. PICK l, m : l = Len(a) /\ m = Len(b)
  OBVIOUS
<1>3. PICK f, g, s : f = Newlines(c) /\ g = Newlines(b) /\ s = Lines(a)
  OBVIOUS
<1>4. PICK U : U = (T \ {CR}) \cup {LF}
  OBVIOUS
<1>5. /\ l \in Nat /\ m \in Nat /\ c \in Seq(T) /\ Len(c) = l + m
      /\ \A i \in 1 .. l : c[i] = a[i]
      /\ \A i \in 1 .. m : c[l + i] = b[i] /\ b[i] \in T
  BY <1>1, <1>2
<1>6. /\ \A n \in 1 .. l + m : f[n] = Grown(c, f[n - 1], n)
      /\ g[0] = <<>> /\ \A n \in 1 .. m : g[n] = Grown(b, g[n - 1], n)
  <2>1. Len(c) \in Nat /\ Len(b) \in Nat
    BY <1>2, <1>5
  <2> QED  BY <1>2, <1>3, <1>5, <2>1, NewlinesStep
<1>7. f[l] = s
  <2>1. Len(a) <= Len(c) /\ Len(a) \in 0 .. Len(a)
    BY <1>2, <1>5
  <2>2. \A n \in 0 .. Len(a) : Newlines(c)[n] = Newlines(a)[n]
    BY <1>2, <1>5, <2>1, NewlinesOfPrefix
  <2> QED  BY <1>2, <1>3, <2>1, <2>2 DEF Lines
<1>8. s \in Seq(U) /\ \A n \in 0 .. m : g[n] \in Seq(U)
  <2>1. Len(a) \in 0 .. Len(a)
    BY <1>2, <1>5
  <2> QED  BY <1>2, <1>3, <1>4, <2>1, NewlinesTyped DEF Lines
<1> DEFINE S == {n \in Nat : f[l + n] = s \o g[n]}
<1>9. 0 \in S
  <2>1. f[l + 0] = s /\ s \o g[0] = s
    BY <1>5, <1>6, <1>7, <1>8, ConcatEmptySeq
  <2> QED  BY <2>1
<1>10. ASSUME NEW n \in 1 .. m, n - 1 \in S
       PROVE  f[l + n] = s \o g[n]
  <2>1. PICK k, x, y : k = l + n /\ x = f[k - 1] /\ y = g[n - 1]
    OBVIOUS
  <2>2. /\ n \in Nat /\ k \in 1 .. l + m /\ k - 1 = l + (n - 1)
        /\ x = s \o y /\ y \in Seq(U) /\ s \in Seq(U)
    <3>1. k \in 1 .. l + m /\ k - 1 = l + (n - 1) /\ n - 1 \in 0 .. m
      BY <1>5, <2>1
    <3> QED  BY <1>8, <1>10, <2>1, <3>1
  <2> HIDE DEF S
  <2>3. f[k] = Grown(c, x, k) /\ g[n] = Grown(b, y, n)
    BY <1>6, <2>1, <2>2
  <2>4. c[k] = b[n] /\ (n > 1 => c[k - 1] = b[n - 1])
    <3>1. n > 1 => n - 1 \in 1 .. m
      BY <1>5
    <3> QED  BY <1>5, <2>1, <2>2, <3>1
  <2>5. n = 1 => ~(k > 1 /\ c[k] = LF /\ c[k - 1] = CR)
    <3> SUFFICES ASSUME n = 1, k > 1 PROVE ~(b[1] = LF /\ c[k - 1] = CR)
      BY <2>4
    <3>1. a # <<>> /\ b # <<>> /\ k - 1 = l /\ l \in 1 .. l
      BY <1>2, <1>5, <2>1
    <3> QED  BY <1>2, <1>5, <3>1
  <2>6. CASE n > 1 /\ b[n] = LF /\ b[n - 1] = CR
    <3>1. k > 1 /\ c[k] = LF /\ c[k - 1] = CR
      BY <1>5, <2>1, <2>4, <2>6
    <3>2. f[k] = x /\ g[n] = y
      BY <2>3, <2>6, <3>1, GrownStays
    <3> QED  BY <2>1, <2>2, <3>2
  <2>7. CASE ~(n > 1 /\ b[n] = LF /\ b[n - 1] = CR)
    <3>1. PICK e : e = IF b[n] \in {CR, Sep} THEN LF ELSE b[n]
      OBVIOUS
    <3>2. ~(k > 1 /\ c[k] = LF /\ c[k - 1] = CR)
      BY <2>2, <2>4, <2>5, <2>7
    <3>3. g[n] = Append(y, e) /\ f[k] = Append(x, e)
      <4>1. g[n] = Append(y, e)
        BY <2>3, <2>7, <3>1, GrownGrows
      <4>2. f[k] = Append(x, IF c[k] \in {CR, Sep} THEN LF ELSE c[k])
        BY <2>3, <3>2, GrownGrows
      <4> QED  BY <2>4, <3>1, <4>1, <4>2
    <3>4. e \in U
      <4>1. b[n] \in T
        BY <1>5
      <4> QED  BY <1>4, <3>1, <4>1
    <3>5. Append(s \o y, e) = s \o Append(y, e)
      <4>1. s \in Seq(U) /\ y \in Seq(U) /\ e \in U
        BY <2>2, <3>4
      <4>2. s \o y \in Seq(U) /\ <<e>> \in Seq(U)
        BY <4>1, ConcatProperties
      <4>3. Append(s \o y, e) = (s \o y) \o <<e>> /\ Append(y, e) = y \o <<e>>
        BY <4>1, <4>2, AppendIsConcat
      <4>4. (s \o y) \o <<e>> = s \o (y \o <<e>>)
        <5>1. s \in Seq(U) /\ y \in Seq(U) /\ <<e>> \in Seq(U)
          BY <4>1, <4>2
        <5> QED  BY <5>1, ConcatAssociative
      <4> QED  BY <4>3, <4>4
    <3> QED  BY <2>1, <2>2, <3>3, <3>5
  <2> QED  BY <2>6, <2>7
<1>11. \A n \in 1 .. m : n - 1 \in S => n \in S
  <2>1. ASSUME NEW n \in 1 .. m, n - 1 \in S PROVE n \in S
    <3>1. f[l + n] = s \o g[n]
      BY <1>10, <2>1
    <3> QED  BY <3>1
  <2> QED  BY <2>1
<1> HIDE DEF S
<1>12. 0 .. m \subseteq S
  BY <1>5, <1>9, <1>11, Induction
<1>13. f[l + m] = s \o g[m]
  <2>1. m \in S
    BY <1>5, <1>12
  <2> QED  BY <2>1 DEF S
<1> QED  BY <1>1, <1>2, <1>3, <1>5, <1>13 DEF Lines

\* Lines have no CR.
LEMMA LinesTyped ==
    ASSUME NEW T, NEW t \in Seq(T)
    PROVE  Lines(t) \in Seq((T \ {CR}) \cup {LF})
<1>1. Len(t) \in 0 .. Len(t)
  OBVIOUS
<1> QED  BY <1>1, NewlinesTyped DEF Lines

\* A text without separators but LF is left as it is.
LEMMA LinesOfPlain ==
    ASSUME NEW T, NEW t \in Seq(T), CR \notin T, Sep \notin T
    PROVE  Lines(t) = t
<1> DEFINE f == Newlines(t)  S == {n \in Nat : f[n] = SubSeq(t, 1, n)}
<1>0. Len(t) \in Nat /\ \A n \in 1 .. Len(t) : t[n] \in T
  OBVIOUS
<1>1. f[0] = <<>> /\ \A n \in 1 .. Len(t) : f[n] = Grown(t, f[n - 1], n)
  BY <1>0, NewlinesStep
<1> HIDE DEF f
<1>2. 0 \in S
  <2>1. SubSeq(t, 1, 0) = <<>>
    BY SubSeqEmpty
  <2> QED  BY <1>1, <2>1
<1>3. ASSUME NEW n \in 1 .. Len(t), n - 1 \in S
      PROVE  n \in S
  <2>1. f[n - 1] = SubSeq(t, 1, n - 1)
    BY <1>3
  <2>2. t[n] \notin {CR, Sep} /\ (n > 1 => t[n - 1] # CR)
    BY <1>0
  <2>3. f[n] = Append(f[n - 1], t[n])
    BY <1>1, <2>2 DEF Grown
  <2>4. SubSeq(t, 1, n - 1) \in Seq(T) /\ t[n] \in T
    <3>1. \A i \in 1 .. n - 1 : t[i] \in T
      BY <1>0
    <3> QED  BY <1>0, <3>1, SubSeqProperties
  <2>5. Append(SubSeq(t, 1, n - 1), t[n]) = SubSeq(t, 1, n - 1) \o <<t[n]>>
    BY <2>4, AppendIsConcat
  <2>6. SubSeq(t, 1, n) = SubSeq(t, 1, n - 1) \o <<t[n]>>
    <3>1. 1 \in 1 .. Len(t) /\ n \in 1 .. Len(t)
      BY <1>0
    <3> QED  BY <3>1, SubSeqRecursiveSecond
  <2>7. f[n] = SubSeq(t, 1, n)
    BY <2>1, <2>3, <2>5, <2>6
  <2> QED  BY <2>7
<1> HIDE DEF S
<1>4. \A n \in 1 .. Len(t) : n - 1 \in S => n \in S
  BY <1>3
<1>5. 0 .. Len(t) \subseteq S
  BY <1>0, <1>2, <1>4, Induction
<1>6. f[Len(t)] = SubSeq(t, 1, Len(t))
  BY <1>0, <1>5 DEF S
<1> QED  BY <1>6, SubSeqFull DEF Lines, f

-----------------------------------------------------------------------------
(* What a slice shows.                                                     *)

LEMMA LeastIsMin ==
    ASSUME NEW S, S \subseteq Nat, S # {}
    PROVE  Min(S) \in S /\ \A n \in S : Min(S) <= n
<1>1. \E m \in S : \A n \in S : m <= n
  BY LeastNumber
<1> QED  BY <1>1 DEF Min

LEMMA LeastOfOne ==
    ASSUME NEW n \in Nat PROVE Min({n}) = n
BY DEF Min

LEMMA GreatestIsMax ==
    ASSUME NEW m \in Nat, NEW S, S \subseteq 0 .. m, S # {}
    PROVE  Max(S) \in S
<1> DEFINE R == {n \in 0 .. m : m - n \in S}
<1>1. R # {}
  <2>1. PICK k \in S : TRUE
    OBVIOUS
  <2>2. m - k \in 0 .. m /\ m - (m - k) = k
    OBVIOUS
  <2> QED  BY <2>1, <2>2
<1>2. PICK k \in R : \A n \in R : k <= n
  <2>1. R \subseteq Nat
    OBVIOUS
  <2> HIDE DEF R
  <2> QED  BY <1>1, <2>1, LeastNumber
<1>3. ASSUME NEW n \in S PROVE m - k >= n
  <2>1. m - n \in 0 .. m /\ m - (m - n) = n
    BY <1>3
  <2>2. m - n \in R
    BY <1>3, <2>1
  <2>3. k <= m - n
    BY <1>2, <2>2
  <2> QED  BY <1>2, <1>3, <2>3
<1>4. m - k \in S /\ \A n \in S : m - k >= n
  BY <1>2, <1>3
<1>5. \E x \in S : \A y \in S : x >= y
  BY <1>4
<1> QED  BY <1>5 DEF Max

\* What a slice is cut from begins and ends with what it shows.
LEMMA BeginningIsPrefix ==
    ASSUME NEW T, NEW t \in Seq(T), NEW n \in 0 .. Len(t)
    PROVE  IsPrefix(SubSeq(t, 1, n), t)
<1>1. Len(t) \in Nat /\ \A i \in 1 .. n : t[i] \in T
  OBVIOUS
<1>2. PICK h : h = SubSeq(t, 1, n)
  OBVIOUS
<1>3. h \in Seq(T) /\ Len(h) = n
  BY <1>1, <1>2, SubSeqProperties
<1>4. SubSeq(h, 1, Len(h)) = h
  BY <1>3, SubSeqFull
<1> QED  BY <1>1, <1>2, <1>3, <1>4 DEF IsPrefix

LEMMA EndIsSuffix ==
    ASSUME NEW T, NEW t \in Seq(T), NEW n \in 0 .. Len(t)
    PROVE  IsSuffix(SubSeq(t, n + 1, Len(t)), t)
<1>1. Len(t) \in Nat /\ \A i \in 1 .. Len(t) : t[i] \in T
  OBVIOUS
<1>2. PICK h, k : h = SubSeq(t, n + 1, Len(t)) /\ k = Len(t) - n
  OBVIOUS
<1>3. /\ k \in Nat /\ h \in Seq(T) /\ Len(h) = k
      /\ \A i \in 1 .. k : h[i] = t[n + i]
  <2>1. \A i \in n + 1 .. Len(t) : t[i] \in T
    BY <1>1
  <2> QED  BY <1>1, <1>2, <2>1, SubSeqProperties
<1>4. PICK g, u : g = Reverse(h) /\ u = Reverse(t)
  OBVIOUS
<1>5. /\ g \in Seq(T) /\ Len(g) = k
      /\ \A i \in 1 .. k : g[i] = h[(k - i) + 1]
  <2>1. \A i \in 1 .. k : h[(k - i) + 1] \in T
    BY <1>3
  <2>2. g = [i \in 1 .. k |-> h[(k - i) + 1]]
    BY <1>3, <1>4 DEF Reverse
  <2>3. g \in Seq(T)
    BY <1>3, <2>1, <2>2, IsASeq
  <2> QED  BY <1>3, <2>2, <2>3
<1>6. /\ u \in Seq(T) /\ Len(u) = Len(t)
      /\ \A i \in 1 .. Len(t) : u[i] = t[(Len(t) - i) + 1]
  <2>1. \A i \in 1 .. Len(t) : t[(Len(t) - i) + 1] \in T
    BY <1>1
  <2>2. u = [i \in 1 .. Len(t) |-> t[(Len(t) - i) + 1]]
    BY <1>4 DEF Reverse
  <2>3. u \in Seq(T)
    BY <1>1, <2>1, <2>2, IsASeq
  <2> QED  BY <1>1, <2>2, <2>3
<1>7. PICK v : v = SubSeq(u, 1, k)
  OBVIOUS
<1>8. k <= Len(t)
  BY <1>1, <1>2
<1>9. v \in Seq(T) /\ Len(v) = k /\ \A i \in 1 .. k : v[i] = u[i]
  <2>1. \A i \in 1 .. k : u[i] \in T
    BY <1>1, <1>3, <1>6, <1>8
  <2> QED  BY <1>3, <1>7, <2>1, SubSeqProperties
<1>10. v = g
  <2>1. ASSUME NEW i \in 1 .. k PROVE v[i] = g[i]
    <3>1. g[i] = t[n + ((k - i) + 1)]
      BY <1>3, <1>5
    <3>2. v[i] = t[(Len(t) - i) + 1]
      <4>1. i \in 1 .. Len(t)
        BY <1>1, <1>3, <1>8
      <4> QED  BY <1>6, <1>9, <4>1
    <3>3. n + ((k - i) + 1) = (Len(t) - i) + 1
      BY <1>1, <1>2
    <3> QED  BY <3>1, <3>2, <3>3
  <2> QED  BY <1>5, <1>9, <2>1, SeqEqual
<1>11. SubSeq(g, 1, Len(g)) = g
  BY <1>5, SubSeqFull
<1>12. Len(g) <= Len(u) /\ SubSeq(g, 1, Len(g)) = SubSeq(u, 1, Len(g))
  BY <1>1, <1>3, <1>5, <1>6, <1>7, <1>8, <1>10, <1>11
<1> QED  BY <1>2, <1>4, <1>12 DEF IsSuffix, IsPrefix

LEMMA NothingFits == SideFits(<<>>)
<1>1. {i \in DOMAIN <<>> : <<>>[i] = LF \/ i = Len(<<>>)} = {}
  OBVIOUS
<1>2. {i \in DOMAIN <<>> : ~InLetter(<<>>, i)} = {}
  OBVIOUS
<1>3. LinesOf(<<>>) = 0 /\ CharsOf(<<>>) = 0
  BY <1>1, <1>2, FS_EmptySet DEF LinesOf, CharsOf
<1> QED  BY <1>3, SliceAssumption DEF SideFits

\* What an answer shows of a text.
Shows(a, t) ==
    /\ IsPrefix(a.head, t)
    /\ IsSuffix(IF a.truncated THEN a.tail ELSE a.head, t)
    /\ ~a.truncated => a.head = t
    /\ a.truncated <=> LinesOf(t) > FullLines \/ CharsOf(t) > FullChars
    /\ a.truncated => SideFits(a.head) /\ SideFits(a.tail)

\* Nothing at all is a cut that fits, so the longest one exists.
LEMMA SliceShows ==
    ASSUME NEW T, NEW t \in Seq(T), LinesOf(t) \in Nat, CharsOf(t) \in Nat
    PROVE  Shows(Slice(t), t)
<1>1. Len(t) \in Nat /\ SubSeq(t, 1, Len(t)) = t
  BY SubSeqFull
<1> DEFINE cuts == {n \in 0 .. Len(t) : ~InLetter(t, n + 1)}
           heads == {n \in cuts : SideFits(SubSeq(t, 1, n))}
           tails == {n \in cuts : SideFits(SubSeq(t, n + 1, Len(t)))}
<1>2. 0 \in cuts /\ Len(t) \in cuts
  BY <1>1 DEF InLetter
<1>3. Max(heads) \in heads
  <2>1. SubSeq(t, 1, 0) = <<>>
    BY SubSeqEmpty
  <2>2. 0 \in heads
    BY <1>2, <2>1, NothingFits
  <2>3. heads \subseteq 0 .. Len(t) /\ heads # {}
    BY <2>2
  <2> HIDE DEF heads
  <2> QED  BY <1>1, <2>3, GreatestIsMax
<1>4. Min(tails) \in tails
  <2>1. SubSeq(t, Len(t) + 1, Len(t)) = <<>>
    BY <1>1, SubSeqEmpty
  <2>2. Len(t) \in tails
    BY <1>2, <2>1, NothingFits
  <2>3. tails \subseteq Nat /\ tails # {}
    BY <2>2, <1>1
  <2> HIDE DEF tails
  <2> QED  BY <2>3, LeastIsMin
<1>5. CASE LinesOf(t) <= FullLines /\ CharsOf(t) <= FullChars
  <2>1. Slice(t) = [head |-> t, tail |-> <<>>, truncated |-> FALSE]
    BY <1>5 DEF Slice
  <2>2. IsPrefix(t, t) /\ IsSuffix(t, t)
    <3>1. PICK n \in 0 .. Len(t) : n + 1 = 1
      BY <1>1
    <3>2. IsPrefix(SubSeq(t, 1, Len(t)), t) /\ IsSuffix(SubSeq(t, n + 1, Len(t)), t)
      BY <1>1, BeginningIsPrefix, EndIsSuffix
    <3> QED  BY <1>1, <3>1, <3>2
  <2>3. ~(LinesOf(t) > FullLines \/ CharsOf(t) > FullChars)
    BY <1>5, SliceAssumption
  <2> QED  BY <2>1, <2>2, <2>3 DEF Shows
<1>6. CASE ~(LinesOf(t) <= FullLines /\ CharsOf(t) <= FullChars)
  <2>1. PICK m, n : m = Max(heads) /\ n = Min(tails)
    OBVIOUS
  <2>2. Slice(t) = [head |-> SubSeq(t, 1, m), tail |-> SubSeq(t, n + 1, Len(t)),
                    truncated |-> TRUE]
    BY <1>6, <2>1 DEF Slice
  <2>3. /\ m \in 0 .. Len(t) /\ SideFits(SubSeq(t, 1, m))
        /\ n \in 0 .. Len(t) /\ SideFits(SubSeq(t, n + 1, Len(t)))
    BY <1>3, <1>4, <2>1
  <2>4. IsPrefix(SubSeq(t, 1, m), t) /\ IsSuffix(SubSeq(t, n + 1, Len(t)), t)
    BY <2>3, BeginningIsPrefix, EndIsSuffix
  <2>5. LinesOf(t) > FullLines \/ CharsOf(t) > FullChars
    BY <1>6, SliceAssumption
  <2> HIDE DEF cuts, heads, tails
  <2> QED  BY <2>2, <2>3, <2>4, <2>5 DEF Shows
<1> QED  BY <1>5, <1>6

LEMMA SizesTyped ==
    ASSUME NEW T, NEW t \in Seq(T)
    PROVE  LinesOf(t) \in Nat /\ CharsOf(t) \in Nat
<1>1. IsFiniteSet(DOMAIN t)
  BY FS_Interval
<1>2. /\ IsFiniteSet({i \in DOMAIN t : t[i] = LF \/ i = Len(t)})
      /\ IsFiniteSet({i \in DOMAIN t : ~InLetter(t, i)})
  BY <1>1, FS_Subset
<1> QED  BY <1>2, FS_CardinalityType DEF LinesOf, CharsOf

-----------------------------------------------------------------------------
(* What comes before the output.                                           *)

Header == Echo \o <<StartMark, CR, LF>>
HeaderLines == <<Char, StartMark, Char, LF, Char, LF, StartMark, LF>>

LEMMA HeaderIs ==
    /\ Header \in Seq(Units) /\ Len(Header) = 10
    /\ Header[1] = Char /\ Header[2] = StartMark /\ Header[3] = Char
    /\ Header[4] = CR /\ Header[5] = LF /\ Header[6] = Char /\ Header[7] = CR
    /\ Header[8] = StartMark /\ Header[9] = CR /\ Header[10] = LF
<1>1. PICK a, b : a = Echo /\ b = <<StartMark, CR, LF>>
  OBVIOUS
<1>2. /\ a \in Seq(Units) /\ Len(a) = 7
      /\ a[1] = Char /\ a[2] = StartMark /\ a[3] = Char
      /\ a[4] = CR /\ a[5] = LF /\ a[6] = Char /\ a[7] = CR
  BY <1>1 DEF Echo, Units, Printable
<1>3. /\ b \in Seq(Units) /\ Len(b) = 3
      /\ b[1] = StartMark /\ b[2] = CR /\ b[3] = LF
  BY <1>1 DEF Units, Printable
<1>4. PICK h : h = a \o b
  OBVIOUS
<1>5. /\ h \in Seq(Units) /\ Len(h) = 10
      /\ \A i \in 1 .. 10 : h[i] = IF i <= 7 THEN a[i] ELSE b[i - 7]
  <2>1. a \in Seq(Units) /\ Len(a) = 7 /\ b \in Seq(Units) /\ Len(b) = 3
    BY <1>2, <1>3
  <2>2. /\ a \o b \in Seq(Units) /\ Len(a \o b) = Len(a) + Len(b)
        /\ \A i \in 1 .. Len(a) + Len(b) :
            (a \o b)[i] = IF i <= Len(a) THEN a[i] ELSE b[i - Len(a)]
    BY <2>1, ConcatProperties
  <2>3. Len(a) + Len(b) = 10
    BY <2>1
  <2> QED  BY <1>4, <2>1, <2>2, <2>3
<1> HIDE <1>1
<1>6. h = Header
  BY <1>1, <1>4 DEF Header
<1> QED  BY <1>2, <1>3, <1>5, <1>6

LEMMA HeaderLinesIs ==
    /\ HeaderLines \in Seq(Units \ {CR}) /\ Len(HeaderLines) = 8
    /\ HeaderLines[1] = Char /\ HeaderLines[2] = StartMark /\ HeaderLines[3] = Char
    /\ HeaderLines[4] = LF /\ HeaderLines[5] = Char /\ HeaderLines[6] = LF
    /\ HeaderLines[7] = StartMark /\ HeaderLines[8] = LF
BY DEF HeaderLines, Units, Printable

\* s is the beginning of the header's lines, k units of it.
StartOfLines(s, k) ==
    /\ s \in Seq(Int) /\ Len(s) = k
    /\ \A i \in 1 .. k : s[i] = HeaderLines[i]

LEMMA StartGrows ==
    ASSUME NEW s, NEW k \in 0 .. 7, StartOfLines(s, k)
    PROVE  \A e \in Int : e = HeaderLines[k + 1]
                => StartOfLines(Append(s, e), k + 1)
<1> SUFFICES ASSUME NEW e \in Int, e = HeaderLines[k + 1]
             PROVE  StartOfLines(Append(s, e), k + 1)
  OBVIOUS
<1>1. s \in Seq(Int) /\ Len(s) = k /\ \A i \in 1 .. k : s[i] = HeaderLines[i]
  BY DEF StartOfLines
<1>2. PICK t : t = Append(s, e)
  OBVIOUS
<1>3. /\ t \in Seq(Int) /\ Len(t) = k + 1 /\ t[k + 1] = e
      /\ \A i \in 1 .. k : t[i] = s[i]
  BY <1>1, <1>2, AppendProperties
<1>4. \A i \in 1 .. k + 1 : t[i] = HeaderLines[i]
  BY <1>1, <1>3
<1> QED  BY <1>2, <1>3, <1>4 DEF StartOfLines

LEMMA LinesOfHeader ==
    /\ Lines(Header) = HeaderLines
    /\ \A n \in 0 .. 10 :
        \E k \in 0 .. 8 : StartOfLines(Newlines(Header)[n], k)
<1>1. PICK h, f : h = Header /\ f = Newlines(h)
  OBVIOUS
<1>2. /\ Len(h) = 10
      /\ h[1] = Char /\ h[2] = StartMark /\ h[3] = Char
      /\ h[4] = CR /\ h[5] = LF /\ h[6] = Char /\ h[7] = CR
      /\ h[8] = StartMark /\ h[9] = CR /\ h[10] = LF
  BY <1>1, HeaderIs
<1>3. f[0] = <<>> /\ \A n \in 1 .. 10 : f[n] = Grown(h, f[n - 1], n)
  <2>1. Len(h) = 10 /\ Len(h) \in Nat
    BY <1>2
  <2> QED  BY <1>1, <2>1, NewlinesStep
<1> HIDE <1>1
<1>4. /\ f[1] = Append(f[0], Char) /\ f[2] = Append(f[1], StartMark)
      /\ f[3] = Append(f[2], Char) /\ f[4] = Append(f[3], LF)
      /\ f[5] = f[4] /\ f[6] = Append(f[5], Char)
      /\ f[7] = Append(f[6], LF) /\ f[8] = Append(f[7], StartMark)
      /\ f[9] = Append(f[8], LF) /\ f[10] = f[9]
  <2>1. \A n \in 1 .. 10 :
            /\ n > 1 /\ h[n] = LF /\ h[n - 1] = CR => f[n] = f[n - 1]
            /\ ~(n > 1 /\ h[n] = LF /\ h[n - 1] = CR)
                => f[n] = Append(f[n - 1], IF h[n] \in {CR, Sep} THEN LF ELSE h[n])
    BY <1>3 DEF Grown
  <2>2. \A n \in 1 .. 10 : h[n] # LF =>
            f[n] = Append(f[n - 1], IF h[n] \in {CR, Sep} THEN LF ELSE h[n])
    BY <2>1
  <2>3. ~(h[1] = LF) /\ ~(h[2] = LF) /\ ~(h[3] = LF) /\ ~(h[4] = LF)
        /\ h[5] = LF /\ h[5 - 1] = CR /\ ~(h[6] = LF) /\ ~(h[7] = LF)
        /\ ~(h[8] = LF) /\ ~(h[9] = LF) /\ h[10] = LF /\ h[10 - 1] = CR
    BY <1>2
  <2>4. f[1] = Append(f[0], Char)
    <3>1. f[1] = Append(f[1 - 1], IF h[1] \in {CR, Sep} THEN LF ELSE h[1])
      <4>1. h[1] # LF /\ 1 \in 1 .. 10
        BY <2>3
      <4> QED  BY <2>2, <4>1
    <3> QED  BY <1>2, <3>1
  <2>5. f[2] = Append(f[1], StartMark)
    <3>1. f[2] = Append(f[2 - 1], IF h[2] \in {CR, Sep} THEN LF ELSE h[2])
      <4>1. h[2] # LF /\ 2 \in 1 .. 10
        BY <2>3
      <4> QED  BY <2>2, <4>1
    <3> QED  BY <1>2, <3>1
  <2>6. f[3] = Append(f[2], Char)
    <3>1. f[3] = Append(f[3 - 1], IF h[3] \in {CR, Sep} THEN LF ELSE h[3])
      <4>1. h[3] # LF /\ 3 \in 1 .. 10
        BY <2>3
      <4> QED  BY <2>2, <4>1
    <3> QED  BY <1>2, <3>1
  <2>7. f[4] = Append(f[3], LF)
    <3>1. f[4] = Append(f[4 - 1], IF h[4] \in {CR, Sep} THEN LF ELSE h[4])
      <4>1. h[4] # LF /\ 4 \in 1 .. 10
        BY <2>3
      <4> QED  BY <2>2, <4>1
    <3> QED  BY <1>2, <3>1
  <2>8. f[5] = f[4] /\ f[10] = f[9]
    BY <2>1, <2>3
  <2>9. f[6] = Append(f[5], Char)
    <3>1. f[6] = Append(f[6 - 1], IF h[6] \in {CR, Sep} THEN LF ELSE h[6])
      <4>1. h[6] # LF /\ 6 \in 1 .. 10
        BY <2>3
      <4> QED  BY <2>2, <4>1
    <3> QED  BY <1>2, <3>1
  <2>10. f[7] = Append(f[6], LF)
    <3>1. f[7] = Append(f[7 - 1], IF h[7] \in {CR, Sep} THEN LF ELSE h[7])
      <4>1. h[7] # LF /\ 7 \in 1 .. 10
        BY <2>3
      <4> QED  BY <2>2, <4>1
    <3> QED  BY <1>2, <3>1
  <2>11. f[8] = Append(f[7], StartMark)
    <3>1. f[8] = Append(f[8 - 1], IF h[8] \in {CR, Sep} THEN LF ELSE h[8])
      <4>1. h[8] # LF /\ 8 \in 1 .. 10
        BY <2>3
      <4> QED  BY <2>2, <4>1
    <3> QED  BY <1>2, <3>1
  <2>12. f[9] = Append(f[8], LF)
    <3>1. f[9] = Append(f[9 - 1], IF h[9] \in {CR, Sep} THEN LF ELSE h[9])
      <4>1. h[9] # LF /\ 9 \in 1 .. 10
        BY <2>3
      <4> QED  BY <2>2, <4>1
    <3> QED  BY <1>2, <3>1
  <2> QED  BY <2>5, <2>4, <2>7, <2>6, <2>8, <2>10, <2>9, <2>12, <2>11
<1>5. StartOfLines(f[0], 0)
  BY <1>3 DEF StartOfLines
<1>6. StartOfLines(f[1], 1)
  BY <1>4, <1>5, StartGrows, HeaderLinesIs
<1>7. StartOfLines(f[2], 2)
  BY <1>4, <1>6, StartGrows, HeaderLinesIs
<1>8. StartOfLines(f[3], 3)
  BY <1>4, <1>7, StartGrows, HeaderLinesIs
<1>9. StartOfLines(f[4], 4) /\ StartOfLines(f[5], 4)
  BY <1>4, <1>8, StartGrows, HeaderLinesIs
<1>10. StartOfLines(f[6], 5)
  BY <1>4, <1>9, StartGrows, HeaderLinesIs
<1>11. StartOfLines(f[7], 6)
  BY <1>4, <1>10, StartGrows, HeaderLinesIs
<1>12. StartOfLines(f[8], 7)
  BY <1>4, <1>11, StartGrows, HeaderLinesIs
<1>13. StartOfLines(f[9], 8) /\ StartOfLines(f[10], 8)
  BY <1>4, <1>12, StartGrows, HeaderLinesIs
<1>14. ASSUME NEW n \in 0 .. 10 PROVE \E k \in 0 .. 8 : StartOfLines(f[n], k)
  <2>1. n \in {0, 1, 2, 3, 4, 5, 6, 7, 8, 9, 10}
    BY <1>14
  <2> QED  BY <2>1, <1>5, <1>6, <1>7, <1>8, <1>9, <1>10, <1>11, <1>12, <1>13
<1>15. f[10] = HeaderLines
  <2>1. HeaderLines \in Seq(Int) /\ Len(HeaderLines) = 8
    BY DEF HeaderLines
  <2>2. f[10] \in Seq(Int) /\ Len(f[10]) = 8
        /\ \A i \in 1 .. 8 : f[10][i] = HeaderLines[i]
    BY <1>13 DEF StartOfLines
  <2> QED  BY <2>1, <2>2, SeqEqual
<1> QED  BY <1>1, <1>2, <1>14, <1>15 DEF Lines

\* A text that begins with the start of the header shows nothing yet.
LEMMA NothingShownYet ==
    ASSUME NEW t, NEW k \in 0 .. 8, StartOfLines(Lines(t), k)
    PROVE  ExtractPartial(t) = <<>>
<1>1. PICK l : l = Lines(t)
  OBVIOUS
<1>0. l \in Seq(Int) /\ Len(l) = k /\ \A i \in 1 .. k : l[i] = HeaderLines[i]
  BY <1>1 DEF StartOfLines
<1>2. CASE StartLines(l) = {}
  BY <1>1, <1>2 DEF ExtractPartial
<1>3. CASE StartLines(l) # {}
  <2>1. DOMAIN l = 1 .. k
    BY <1>0
  <2>2. ASSUME NEW p \in StartLines(l) PROVE p = 7
    <3>1. p \in 1 .. k /\ l[p] = StartMark /\ (p > 1 => l[p - 1] = LF)
      BY <2>1 DEF StartLines, LineStart
    <3>2. p \in {1, 2, 3, 4, 5, 6, 7, 8}
      BY <3>1
    <3>3. HeaderLines[p] = StartMark /\ (p > 1 => HeaderLines[p - 1] = LF)
      <4>1. p > 1 => p - 1 \in 1 .. k
        BY <3>1
      <4> QED  BY <1>0, <3>1, <4>1
    <3> QED  BY <3>2, <3>3, HeaderLinesIs
  <2>3. StartLines(l) = {7}
    BY <1>3, <2>2
  <2>4. Min(StartLines(l)) = 7
    BY <2>3, LeastOfOne
  <2>5. SubSeq(l, Min(StartLines(l)) + 2, Len(l)) = <<>>
    BY <1>0, <2>4, SubSeqEmpty
  <2> QED  BY <1>1, <1>3, <2>5 DEF ExtractPartial, Chomp
<1> QED  BY <1>2, <1>3

\* The start marker is found right before the output.
LEMMA StartFound ==
    ASSUME NEW T, NEW l \in Seq(T), Len(l) >= 8,
           \A i \in 1 .. 8 : l[i] = HeaderLines[i],
           \A i \in 9 .. Len(l) : l[i] # StartMark
    PROVE  StartLines(l) = {7} /\ Min(StartLines(l)) = 7
<1>1. DOMAIN l = 1 .. Len(l) /\ Len(l) \in Nat
  OBVIOUS
<1>2. 7 \in StartLines(l)
  BY <1>1, HeaderLinesIs DEF StartLines, LineStart, LineEnd
<1>3. ASSUME NEW p \in StartLines(l) PROVE p = 7
  <2>1. p \in 1 .. Len(l) /\ l[p] = StartMark /\ (p > 1 => l[p - 1] = LF)
    BY <1>1 DEF StartLines, LineStart
  <2>2. p \in {1, 2, 3, 4, 5, 6, 7, 8}
    BY <1>1, <2>1
  <2> QED  BY <2>1, <2>2, HeaderLinesIs
<1>4. StartLines(l) = {7}
  BY <1>2, <1>3
<1> QED  BY <1>4, LeastOfOne

Plain == Units \ {StartMark}

\* What comes after the header, and the parts of it.
LEMMA WholeParts ==
    ASSUME NEW out \in Seq(Printable), output = out
    PROVE  /\ Whole = (((Header \o out) \o <<CR, LF>>) \o Marker) \o <<CR, LF, Char>>
           /\ out \in Seq(Plain) /\ <<CR, LF>> \in Seq(Plain)
           /\ Marker \in Seq(Plain) /\ Len(Marker) = MarkerLen
           /\ <<CR, LF, Char>> \in Seq(Plain)
<1>1. Printable \subseteq Plain /\ MarkerLen \in Plain
  BY MarkerAssumption DEF Plain, Units, Printable
<1>2. Marker \in Seq(Plain) /\ Len(Marker) = MarkerLen
  <2>1. \A i \in 1 .. MarkerLen : i \in Plain
    BY MarkerAssumption DEF Plain, Units, Printable
  <2>2. Marker \in Seq(Plain)
    BY <2>1, MarkerAssumption, IsASeq DEF Marker
  <2> QED  BY <2>2, MarkerAssumption DEF Marker
<1>3. out \in Seq(Plain)
  BY <1>1, SeqMonotonic
<1>4. <<CR, LF>> \in Seq(Plain) /\ <<CR, LF, Char>> \in Seq(Plain)
  BY DEF Plain, Units, Printable
<1>5. Whole = (((Header \o out) \o <<CR, LF>>) \o Marker) \o <<CR, LF, Char>>
  BY DEF Whole, Header
<1> QED  BY <1>2, <1>3, <1>4, <1>5

\* What each position of the log holds.
LEMMA WholePositions ==
    ASSUME NEW out \in Seq(Printable), output = out, NEW n, n = Len(out)
    PROVE  /\ Whole \in Seq(Units) /\ Len(Whole) = n + MarkerLen + 15
           /\ \A i \in 1 .. 10 : Whole[i] = Header[i]
           /\ \A i \in 11 .. Len(Whole) : Whole[i] \in Plain
           /\ \A i \in 11 .. Len(Whole) : Whole[i] = MarkerLen => i = n + MarkerLen + 12
<1>0. n \in Nat /\ MarkerLen \in Nat /\ MarkerLen > 0
  BY MarkerAssumption
<1>1. PICK a, b, c, d, e : /\ a = out /\ b = <<CR, LF>> /\ c = Marker
                           /\ d = <<CR, LF, Char>> /\ e = Header
  OBVIOUS
<1>2. Whole = (((e \o a) \o b) \o c) \o d
  BY <1>1, WholeParts
<1>3. Plain \subseteq Units /\ StartMark \notin Plain
  BY DEF Plain
<1>4. /\ a \in Seq(Plain) /\ b \in Seq(Plain) /\ c \in Seq(Plain) /\ d \in Seq(Plain)
      /\ Len(a) = n /\ Len(b) = 2 /\ Len(c) = MarkerLen /\ Len(d) = 3
      /\ e \in Seq(Units) /\ Len(e) = 10
  BY <1>1, WholeParts, HeaderIs
<1>5. /\ a \in Seq(Units) /\ b \in Seq(Units) /\ c \in Seq(Units) /\ d \in Seq(Units)
  BY <1>3, <1>4, SeqMonotonic
<1>6. PICK x : x = e \o a
  OBVIOUS
<1>7. /\ x \in Seq(Units) /\ Len(x) = 10 + n
      /\ \A i \in 1 .. 10 + n : x[i] = IF i <= 10 THEN e[i] ELSE a[i - 10]
  <2>1. e \in Seq(Units) /\ a \in Seq(Units)
    BY <1>4, <1>5
  <2>3. Len(e) = 10 /\ Len(a) = n
    BY <1>4, <1>5
  <2>2. /\ e \o a \in Seq(Units) /\ Len(e \o a) = Len(e) + Len(a)
        /\ \A i \in 1 .. Len(e) + Len(a) :
            (e \o a)[i] = IF i <= Len(e) THEN e[i] ELSE a[i - Len(e)]
    BY <2>1, ConcatProperties
  <2> QED  BY <1>4, <1>5, <1>6, <2>1, <2>2, <2>3
<1>8. PICK y : y = x \o b
  OBVIOUS
<1>9. /\ y \in Seq(Units) /\ Len(y) = 12 + n
      /\ \A i \in 1 .. 12 + n : y[i] = IF i <= 10 + n THEN x[i] ELSE b[i - (10 + n)]
  <2>1. x \in Seq(Units) /\ b \in Seq(Units)
    BY <1>4, <1>5, <1>7
  <2>3. Len(x) = 10 + n /\ Len(b) = 2
    BY <1>4, <1>5, <1>7
  <2>2. /\ x \o b \in Seq(Units) /\ Len(x \o b) = Len(x) + Len(b)
        /\ \A i \in 1 .. Len(x) + Len(b) :
            (x \o b)[i] = IF i <= Len(x) THEN x[i] ELSE b[i - Len(x)]
    BY <2>1, ConcatProperties
  <2> QED  BY <1>0, <1>4, <1>5, <1>7, <1>8, <2>1, <2>2, <2>3
<1>10. PICK z : z = y \o c
  OBVIOUS
<1>11. /\ z \in Seq(Units) /\ Len(z) = 12 + n + MarkerLen
       /\ \A i \in 1 .. 12 + n + MarkerLen :
            z[i] = IF i <= 12 + n THEN y[i] ELSE c[i - (12 + n)]
  <2>1. y \in Seq(Units) /\ c \in Seq(Units)
    BY <1>4, <1>5, <1>9
  <2>3. Len(y) = 12 + n /\ Len(c) = MarkerLen
    BY <1>4, <1>5, <1>9
  <2>2. /\ y \o c \in Seq(Units) /\ Len(y \o c) = Len(y) + Len(c)
        /\ \A i \in 1 .. Len(y) + Len(c) :
            (y \o c)[i] = IF i <= Len(y) THEN y[i] ELSE c[i - Len(y)]
    BY <2>1, ConcatProperties
  <2> QED  BY <1>0, <1>4, <1>5, <1>9, <1>10, <2>1, <2>2, <2>3
<1>12. PICK w : w = z \o d
  OBVIOUS
<1>13. /\ w \in Seq(Units) /\ Len(w) = 15 + n + MarkerLen
       /\ \A i \in 1 .. 15 + n + MarkerLen :
            w[i] = IF i <= 12 + n + MarkerLen THEN z[i]
                   ELSE d[i - (12 + n + MarkerLen)]
  <2>1. z \in Seq(Units) /\ d \in Seq(Units)
    BY <1>4, <1>5, <1>11
  <2>3. Len(z) = 12 + n + MarkerLen /\ Len(d) = 3
    BY <1>4, <1>5, <1>11
  <2>2. /\ z \o d \in Seq(Units) /\ Len(z \o d) = Len(z) + Len(d)
        /\ \A i \in 1 .. Len(z) + Len(d) :
            (z \o d)[i] = IF i <= Len(z) THEN z[i] ELSE d[i - Len(z)]
    BY <2>1, ConcatProperties
  <2> QED  BY <1>0, <1>4, <1>5, <1>11, <1>12, <2>1, <2>2, <2>3
<1>14. w = Whole
  BY <1>2, <1>6, <1>8, <1>10, <1>12
<1>15. \A i \in 1 .. 10 : w[i] = e[i]
  <2> SUFFICES ASSUME NEW i \in 1 .. 10 PROVE w[i] = e[i]
    OBVIOUS
  <2>1. i \in 1 .. 10 + n /\ i <= 10 + n /\ i <= 12 + n /\ i \in 1 .. 12 + n
    BY <1>0
  <2>2. i <= 12 + n + MarkerLen /\ i \in 1 .. 12 + n + MarkerLen
        /\ i \in 1 .. 15 + n + MarkerLen
    BY <1>0
  <2>3. w[i] = z[i] /\ z[i] = y[i]
    BY <1>11, <1>13, <2>1, <2>2
  <2>4. y[i] = x[i] /\ x[i] = e[i]
    BY <1>7, <1>9, <2>1
  <2> QED  BY <2>3, <2>4
<1>16. ASSUME NEW i \in 11 .. 15 + n + MarkerLen
       PROVE  w[i] \in Plain /\ (w[i] = MarkerLen => i = n + MarkerLen + 12)
  <2>1. CASE i <= 10 + n
    <3>1. i - 10 \in 1 .. n
      BY <1>0, <2>1
    <3>2. w[i] = a[i - 10]
      <4>1. /\ i \in 1 .. 10 + n /\ ~(i <= 10) /\ i <= 12 + n /\ i \in 1 .. 12 + n
            /\ i <= 12 + n + MarkerLen /\ i \in 1 .. 12 + n + MarkerLen
            /\ i \in 1 .. 15 + n + MarkerLen
        BY <1>0, <2>1
      <4>2. w[i] = z[i]
        BY <1>13, <4>1
      <4>3. z[i] = y[i]
        BY <1>11, <4>1
      <4>4. y[i] = x[i]
        BY <1>9, <2>1, <4>1
      <4>5. x[i] = a[i - 10]
        BY <1>7, <4>1
      <4> QED  BY <4>2, <4>3, <4>4, <4>5
    <3>3. a[i - 10] \in Printable
      BY <1>1, <1>4, <3>1
    <3> QED  BY <1>0, <3>2, <3>3 DEF Plain, Units, Printable
  <2>2. CASE i > 10 + n /\ i <= 12 + n
    <3>1. i - (10 + n) \in {1, 2}
      BY <1>0, <2>2
    <3>2. w[i] = b[i - (10 + n)]
      <4>1. i \in 1 .. 12 + n /\ ~(i <= 10 + n) /\ i <= 12 + n + MarkerLen
            /\ i \in 1 .. 12 + n + MarkerLen /\ i \in 1 .. 15 + n + MarkerLen
        BY <1>0, <2>2
      <4>2. w[i] = z[i] /\ z[i] = y[i]
        BY <1>11, <1>13, <2>2, <4>1
      <4>3. y[i] = b[i - (10 + n)]
        BY <1>9, <4>1
      <4> QED  BY <4>2, <4>3
    <3>3. b[1] = CR /\ b[2] = LF
      BY <1>1
    <3>4. w[i] \in {CR, LF}
      BY <3>1, <3>2, <3>3
    <3> QED  BY <1>0, <3>4 DEF Plain, Units, Printable
  <2>3. CASE i > 12 + n /\ i <= 12 + n + MarkerLen
    <3>1. PICK j : j = i - (12 + n)
      OBVIOUS
    <3>2. j \in 1 .. MarkerLen
      BY <1>0, <2>3, <3>1
    <3>3. w[i] = c[j]
      <4>1. i \in 1 .. 12 + n + MarkerLen /\ ~(i <= 12 + n)
            /\ i \in 1 .. 15 + n + MarkerLen
        BY <1>0, <2>3
      <4>2. w[i] = z[i]
        BY <1>13, <2>3, <4>1
      <4>3. z[i] = c[i - (12 + n)]
        BY <1>11, <4>1
      <4> QED  BY <3>1, <4>2, <4>3
    <3>4. c[j] = j
      BY <1>1, <3>2 DEF Marker
    <3> QED  BY <1>0, <1>4, <3>1, <3>2, <3>3, <3>4
  <2>4. CASE i > 12 + n + MarkerLen
    <3>1. i - (12 + n + MarkerLen) \in {1, 2, 3}
      BY <1>0, <2>4
    <3>2. w[i] = d[i - (12 + n + MarkerLen)]
      BY <1>0, <1>13, <2>4
    <3>3. d[1] = CR /\ d[2] = LF /\ d[3] = Char
      BY <1>1
    <3>4. w[i] \in {CR, LF, Char}
      BY <3>1, <3>2, <3>3
    <3> QED  BY <1>0, <3>4 DEF Plain, Units, Printable
  <2> QED  BY <1>0, <2>1, <2>2, <2>3, <2>4
<1>17. Len(w) = n + MarkerLen + 15
  BY <1>0, <1>13
<1> QED  BY <1>0, <1>1, <1>13, <1>14, <1>15, <1>16, <1>17

-----------------------------------------------------------------------------
(* A command that is not done.                                             *)

\* The header ends in a newline, so no CR LF is cut behind it.
LEMMA HeaderJoins ==
    ASSUME NEW v \in Seq(Plain)
    PROVE  /\ Lines(Header \o v) = HeaderLines \o Lines(v)
           /\ Lines(v) \in Seq(Plain \ {CR})
<1>1. v \in Seq(Units)
  BY SeqMonotonic DEF Plain
<1>2. Header \in Seq(Units) /\ ~(Header[Len(Header)] = CR)
  BY HeaderIs
<1>3. Lines(Header \o v) = Lines(Header) \o Lines(v)
  BY <1>1, <1>2, LinesJoin
<1>4. Lines(v) \in Seq((Plain \ {CR}) \cup {LF})
  BY LinesTyped
<1>5. (Plain \ {CR}) \cup {LF} = Plain \ {CR}
  BY DEF Plain, Units, Printable
<1> QED  BY <1>3, <1>4, <1>5, LinesOfHeader

\* What follows the header is shown.
LEMMA PartialShown ==
    ASSUME NEW v \in Seq(Plain)
    PROVE  ExtractPartial(Header \o v) = Chomp(Lines(v))
<1>1. PICK l, h, u : l = Lines(Header \o v) /\ h = HeaderLines /\ u = Lines(v)
  OBVIOUS
<1>2. l = h \o u /\ h \in Seq(Units) /\ u \in Seq(Units) /\ Len(h) = 8
      /\ u \in Seq(Plain)
  <2>1. l = h \o u /\ u \in Seq(Plain \ {CR})
    BY <1>1, HeaderJoins
  <2>2. u \in Seq(Plain) /\ u \in Seq(Units)
    BY <2>1, SeqMonotonic DEF Plain
  <2>3. h \in Seq(Units \ {CR}) /\ Len(h) = 8
    BY <1>1, HeaderLinesIs
  <2>4. h \in Seq(Units)
    BY <2>3, SeqMonotonic
  <2> QED  BY <2>1, <2>2, <2>3, <2>4
<1>3. PICK k : k = Len(u)
  OBVIOUS
<1>4. /\ k \in Nat /\ l \in Seq(Units) /\ Len(l) = 8 + k
      /\ \A i \in 1 .. 8 + k : l[i] = IF i <= 8 THEN h[i] ELSE u[i - 8]
  <2>1. /\ h \o u \in Seq(Units) /\ Len(h \o u) = Len(h) + Len(u)
        /\ \A i \in 1 .. Len(h) + Len(u) :
            (h \o u)[i] = IF i <= Len(h) THEN h[i] ELSE u[i - Len(h)]
    BY <1>2, ConcatProperties
  <2>2. k \in Nat
    BY <1>2, <1>3
  <2> QED  BY <1>2, <1>3, <2>1, <2>2
<1>5. \A i \in 9 .. Len(l) : l[i] # StartMark
  <2> SUFFICES ASSUME NEW i \in 9 .. Len(l) PROVE l[i] # StartMark
    OBVIOUS
  <2>1. i - 8 \in 1 .. k /\ l[i] = u[i - 8]
    BY <1>4
  <2>2. u[i - 8] \in Plain
    BY <1>2, <1>3, <2>1
  <2> QED  BY <2>1, <2>2 DEF Plain
<1>6. StartLines(l) = {7} /\ Min(StartLines(l)) = 7
  <2>1. Len(l) >= 8 /\ \A i \in 1 .. 8 : l[i] = HeaderLines[i]
    BY <1>1, <1>4
  <2> QED  BY <1>4, <1>5, <2>1, StartFound
<1>7. SubSeq(l, 9, 8 + k) = u
  <2>1. PICK s : s = SubSeq(l, 9, 8 + k)
    OBVIOUS
  <2>2. \A i \in 9 .. 8 + k : l[i] \in Units
    BY <1>4
  <2>3. /\ s \in Seq(Units) /\ Len(s) = k
        /\ \A i \in 1 .. k : s[i] = l[9 + i - 1]
    BY <1>4, <2>1, <2>2, SubSeqProperties
  <2>4. \A i \in 1 .. k : s[i] = u[i]
    BY <1>4, <2>3
  <2> QED  BY <1>2, <1>3, <2>1, <2>3, <2>4, SeqEqual
<1>8. ExtractPartial(Header \o v) = Chomp(SubSeq(l, 9, 8 + k))
  <2>1. Min(StartLines(l)) + 2 = 9 /\ StartLines(l) # {}
    BY <1>6
  <2> QED  BY <1>1, <1>4, <2>1 DEF ExtractPartial
<1> QED  BY <1>1, <1>7, <1>8

\* What is shown of a command that is not done.
LEMMA UnfinishedShown ==
    ASSUME NEW p \in 0 .. Len(Whole), output \in Seq(Printable)
    PROVE  /\ ExtractPartial(SubSeq(Whole, 1, p)) = Chomp(Lines(SubSeq(Whole, 11, p)))
           /\ Lines(SubSeq(Whole, 11, p)) \in Seq(Units)
<1>1. PICK w, n : w = Whole /\ n = Len(w)
  OBVIOUS
<1>2. /\ w \in Seq(Units) /\ n \in Nat /\ n >= 15 /\ p \in 0 .. n
      /\ \A i \in 1 .. 10 : w[i] = Header[i]
      /\ \A i \in 11 .. n : w[i] \in Plain
  <2>1. PICK k : k = Len(output)
    OBVIOUS
  <2>2. k \in Nat /\ MarkerLen \in Nat
    BY <2>1, MarkerAssumption
  <2>3. /\ w \in Seq(Units) /\ Len(w) = k + MarkerLen + 15
        /\ \A i \in 1 .. 10 : w[i] = Header[i]
        /\ \A i \in 11 .. Len(w) : w[i] \in Plain
    BY <1>1, <2>1, WholePositions
  <2>4. n = k + MarkerLen + 15
    BY <1>1, <2>3
  <2>5. n \in Nat /\ n >= 15 /\ p \in 0 .. n
    BY <1>1, <2>2, <2>4
  <2> QED  BY <1>1, <2>3, <2>5
<1>3. \A i \in 1 .. n : w[i] \in Units
  BY <1>1, <1>2
<1>4. PICK v, t : v = SubSeq(w, 11, p) /\ t = SubSeq(w, 1, p)
  OBVIOUS
<1>5. v \in Seq(Plain)
  BY <1>2, <1>4, SubSeqProperties
<1>6. Lines(v) \in Seq(Units)
  <2>1. Lines(v) \in Seq(Plain \ {CR})
    BY <1>5, HeaderJoins
  <2> QED  BY <2>1, SeqMonotonic DEF Plain
<1>7. CASE p >= 10
  <2>1. SubSeq(w, 1, 10) \o v = t
    BY <1>1, <1>2, <1>4, <1>7, ConcatAdjacentSubSeq
  <2>2. SubSeq(w, 1, 10) = Header
    <3>1. PICK h : h = SubSeq(w, 1, 10)
      OBVIOUS
    <3>2. \A i \in 1 .. 10 : w[i] \in Units
      <4>1. n \in Nat /\ n >= 15
        BY <1>2
      <4> QED  BY <1>3, <4>1
    <3>3. h \in Seq(Units) /\ Len(h) = 10 /\ \A i \in 1 .. 10 : h[i] = w[i]
      BY <3>1, <3>2, SubSeqProperties
    <3>4. \A i \in 1 .. 10 : h[i] = Header[i]
      BY <1>2, <3>3
    <3> QED  BY <3>1, <3>3, <3>4, SeqEqual, HeaderIs
  <2>3. ExtractPartial(t) = Chomp(Lines(v))
    BY <1>5, <2>1, <2>2, PartialShown
  <2> QED  BY <1>1, <1>4, <1>6, <2>3
<1>8. CASE p < 10
  <2>1. v = <<>>
    BY <1>2, <1>4, <1>8, SubSeqEmpty
  <2>2. Lines(v) = <<>>
    <3>1. <<>> \in Seq({}) /\ CR \notin {} /\ Sep \notin {}
      BY EmptySeq
    <3> QED  BY <2>1, <3>1, LinesOfPlain
  <2>3. Chomp(Lines(v)) = <<>>
    BY <2>2 DEF Chomp
  <2>4. t \in Seq(Units) /\ Len(t) = p /\ \A i \in 1 .. p : t[i] = w[i]
    <3>1. \A i \in 1 .. p : w[i] \in Units
      BY <1>2, <1>3
    <3> QED  BY <1>2, <1>4, <3>1, SubSeqProperties
  <2>5. Lines(t) = Newlines(Header)[p]
    <3>0. Header \in Seq(Units) /\ Len(Header) = 10
      BY HeaderIs
    <3>1. Header \in Seq(Units) /\ Len(t) <= Len(Header) /\ Len(t) \in 0 .. Len(t)
          /\ \A i \in 1 .. Len(t) : t[i] = Header[i]
      <4>1. p \in 0 .. p /\ p <= 10 /\ \A i \in 1 .. p : i \in 1 .. 10
        <5>1. p \in Nat /\ p < 10
          BY <1>2, <1>8
        <5> QED  BY <5>1
      <4> QED  BY <1>2, <2>4, <3>0, <4>1
    <3>2. Newlines(Header)[Len(t)] = Newlines(t)[Len(t)]
      BY <2>4, <3>1, NewlinesOfPrefix
    <3> QED  BY <2>4, <3>2 DEF Lines
  <2>6. PICK k \in 0 .. 8 : StartOfLines(Lines(t), k)
    <3>1. p \in 0 .. 10
      <4>1. p \in Nat /\ p < 10
        BY <1>2, <1>8
      <4> QED  BY <4>1
    <3> QED  BY <2>5, <3>1, LinesOfHeader
  <2>7. ExtractPartial(t) = <<>>
    BY <2>6, NothingShownYet
  <2> QED  BY <1>1, <1>4, <1>6, <2>3, <2>7
<1> QED  BY <1>2, <1>7, <1>8

-----------------------------------------------------------------------------
(* A command that is done.                                                 *)

\* What is left of the log behind the marker.
LEMMA LinesOfRest ==
    ASSUME NEW r \in Seq(Units), Len(r) <= 3,
           \A i \in 1 .. Len(r) : r[i] = <<CR, LF, Char>>[i]
    PROVE  /\ Lines(r) \in Seq({LF, Char})
           /\ Lines(r) # <<>> => Lines(r)[1] = LF
<1>1. PICK f, m : f = Newlines(r) /\ m = Len(r)
  OBVIOUS
<1>2. m \in 0 .. 3 /\ m \in Nat
  BY <1>1
<1>3. f[0] = <<>> /\ \A n \in 1 .. m : f[n] = Grown(r, f[n - 1], n)
  BY <1>1, <1>2, NewlinesStep
<1>4. (m >= 1 => r[1] = CR) /\ (m >= 2 => r[2] = LF) /\ (m = 3 => r[3] = Char)
  BY <1>1, <1>2
<1>5. m >= 1 => f[1] = <<LF>>
  <2> SUFFICES ASSUME m >= 1 PROVE f[1] = <<LF>>
    OBVIOUS
  <2>1. f[1] = Grown(r, f[1 - 1], 1)
    BY <1>2, <1>3
  <2>2. f[1] = Append(<<>>, LF)
    BY <1>3, <1>4, <2>1 DEF Grown
  <2> QED  BY <2>2
<1>6. m >= 2 => f[2] = <<LF>>
  <2> SUFFICES ASSUME m >= 2 PROVE f[2] = <<LF>>
    OBVIOUS
  <2>1. f[2] = Grown(r, f[2 - 1], 2)
    BY <1>2, <1>3
  <2>2. f[2] = f[1]
    BY <1>2, <1>4, <2>1 DEF Grown
  <2> QED  BY <1>2, <1>5, <2>2
<1>7. m = 3 => f[3] = Append(<<LF>>, Char)
  <2> SUFFICES ASSUME m = 3 PROVE f[3] = Append(<<LF>>, Char)
    OBVIOUS
  <2>1. f[3] = Grown(r, f[3 - 1], 3)
    BY <1>2, <1>3
  <2>2. f[3] = Append(f[2], Char)
    BY <1>2, <1>4, <2>1 DEF Grown
  <2>3. f[2] = <<LF>>
    BY <1>6
  <2> QED  BY <2>2, <2>3
<1>8. m \in {0, 1, 2, 3}
  BY <1>2
<1>9. PICK s, e : s = <<LF>> /\ e = Char
  OBVIOUS
<1>10. Lines(r) = <<>> \/ Lines(r) = s \/ Lines(r) = Append(s, e)
  BY <1>1, <1>3, <1>5, <1>6, <1>7, <1>8, <1>9 DEF Lines
<1>11. s \in Seq({LF, Char}) /\ Len(s) = 1 /\ s[1] = LF /\ e \in {LF, Char}
  BY <1>9
<1>12. Append(s, e) \in Seq({LF, Char}) /\ Append(s, e)[1] = LF
  <2>1. /\ Append(s, e) \in Seq({LF, Char})
        /\ \A i \in 1 .. Len(s) : Append(s, e)[i] = s[i]
    <3>1. s \in Seq({LF, Char}) /\ e \in {LF, Char}
      BY <1>11
    <3> QED  BY <3>1, AppendProperties
  <2> QED  BY <1>11, <2>1
<1>13. PICK l : l = Lines(r)
  OBVIOUS
<1>14. CASE l = <<>>
  BY <1>13, <1>14, EmptySeq
<1>15. CASE l = s
  BY <1>11, <1>13, <1>15, Zenon
<1>16. CASE l = Append(s, e)
  BY <1>12, <1>13, <1>16, Zenon
<1> QED  BY <1>10, <1>13, <1>14, <1>15, <1>16

\* The lines of a log that holds the whole marker.
LEMMA LinesWhenDone ==
    ASSUME NEW out \in Seq(Printable), NEW r \in Seq(Units), Len(r) <= 3,
           \A i \in 1 .. Len(r) : r[i] = <<CR, LF, Char>>[i]
    PROVE  /\ Lines((((Header \o out) \o <<CR, LF>>) \o Marker) \o r)
                = (((HeaderLines \o Lines(out)) \o <<LF>>) \o Marker) \o Lines(r)
           /\ Lines(out) \in Seq(Printable \ {CR})
<1>1. PICK b : b = <<CR, LF>>
  OBVIOUS
<1>2. /\ out \in Seq(Plain) /\ b \in Seq(Plain) /\ Marker \in Seq(Plain)
      /\ b \in Seq(Units) /\ Marker \in Seq(Units) /\ out \in Seq(Units)
  <2>1. Printable \subseteq Plain /\ Plain \subseteq Units
    BY MarkerAssumption DEF Plain, Units, Printable
  <2>2. out \in Seq(Plain)
    BY <2>1, SeqMonotonic
  <2>3. \A i \in 1 .. MarkerLen : i \in Plain
    BY MarkerAssumption DEF Plain, Units, Printable
  <2>4. Marker \in Seq(Plain)
    BY <2>3, MarkerAssumption, IsASeq DEF Marker
  <2>5. b \in Seq(Plain)
    BY <1>1 DEF Plain, Units, Printable
  <2> QED  BY <2>1, <2>2, <2>4, <2>5, SeqMonotonic
<1>3. b # <<>> /\ b[1] = CR /\ Len(b) = 2 /\ b[2] = LF
  BY <1>1
<1>4. Len(Marker) = MarkerLen /\ Marker[MarkerLen] = MarkerLen /\ Marker[1] = 1
      /\ MarkerLen \in Nat /\ MarkerLen >= 1
  BY MarkerAssumption DEF Marker
<1>5. PICK x, y, z : x = Header \o out /\ y = x \o b /\ z = y \o Marker
  OBVIOUS
<1>6. x \in Seq(Units) /\ Lines(x) = HeaderLines \o Lines(out)
  BY <1>2, <1>5, HeaderIs, HeaderJoins, ConcatProperties
<1>7. y \in Seq(Units) /\ Lines(y) = Lines(x) \o Lines(b)
  <2>1. x \in Seq(Units) /\ b \in Seq(Units)
    BY <1>2, <1>6
  <2>2. x \o b \in Seq(Units)
    BY <2>1, ConcatProperties
  <2>3. ~(x[Len(x)] = CR /\ b[1] = LF)
    BY <1>3
  <2>4. Lines(x \o b) = Lines(x) \o Lines(b)
    BY <2>1, <2>3, LinesJoin
  <2> QED  BY <1>5, <2>2, <2>4
<1>8. y[Len(y)] = LF
  <2>1. Len(y) = Len(x) + 2 /\ Len(x) \in Nat
        /\ \A i \in 1 .. Len(x) + 2 : y[i] = IF i <= Len(x) THEN x[i] ELSE b[i - Len(x)]
    <3>1. x \in Seq(Units) /\ b \in Seq(Units)
      BY <1>2, <1>6
    <3>2. /\ Len(x \o b) = Len(x) + Len(b)
          /\ \A i \in 1 .. Len(x) + Len(b) :
                (x \o b)[i] = IF i <= Len(x) THEN x[i] ELSE b[i - Len(x)]
      BY <3>1, ConcatProperties
    <3>3. Len(x) \in Nat
      BY <3>1
    <3> QED  BY <1>3, <1>5, <3>2, <3>3
  <2>2. Len(x) + 2 \in 1 .. Len(x) + 2 /\ ~(Len(x) + 2 <= Len(x))
        /\ (Len(x) + 2) - Len(x) = 2
    BY <2>1
  <2> QED  BY <1>3, <2>1, <2>2
<1>9. z \in Seq(Units) /\ Lines(z) = Lines(y) \o Lines(Marker)
  <2>1. ~(y[Len(y)] = CR)
    BY <1>8
  <2> QED  BY <1>2, <1>5, <1>7, <2>1, LinesJoin, ConcatProperties
<1>10. z[Len(z)] = MarkerLen
  <2>1. Len(z) = Len(y) + MarkerLen /\ Len(y) \in Nat
        /\ \A i \in 1 .. Len(y) + MarkerLen :
            z[i] = IF i <= Len(y) THEN y[i] ELSE Marker[i - Len(y)]
    <3>1. y \in Seq(Units) /\ Marker \in Seq(Units)
      BY <1>2, <1>7
    <3>2. /\ Len(y \o Marker) = Len(y) + Len(Marker)
          /\ \A i \in 1 .. Len(y) + Len(Marker) :
                (y \o Marker)[i] = IF i <= Len(y) THEN y[i] ELSE Marker[i - Len(y)]
      BY <3>1, ConcatProperties
    <3>3. Len(y) \in Nat
      BY <3>1
    <3> QED  BY <1>4, <1>5, <3>2, <3>3
  <2>2. /\ Len(y) + MarkerLen \in 1 .. Len(y) + MarkerLen
        /\ ~(Len(y) + MarkerLen <= Len(y))
        /\ (Len(y) + MarkerLen) - Len(y) = MarkerLen
    BY <1>4, <2>1
  <2> QED  BY <1>4, <2>1, <2>2
<1>11. Lines(z \o r) = Lines(z) \o Lines(r)
  <2>1. ~(z[Len(z)] = CR)
    BY <1>4, <1>10
  <2> QED  BY <1>9, <2>1, LinesJoin
<1>12. Lines(b) = <<LF>>
  <2>1. PICK f : f = Newlines(b)
    OBVIOUS
  <2>2. f[0] = <<>> /\ \A n \in 1 .. 2 : f[n] = Grown(b, f[n - 1], n)
    <3>1. Len(b) \in Nat
      BY <1>3
    <3> QED  BY <1>3, <2>1, <3>1, NewlinesStep
  <2>3. f[1] = Append(<<>>, LF)
    <3>1. f[1] = Grown(b, f[1 - 1], 1)
      BY <2>2
    <3>2. f[1 - 1] = <<>> /\ b[1] = CR
      BY <1>3, <2>2
    <3>3. Grown(b, <<>>, 1) = Append(<<>>, LF)
      BY <3>2 DEF Grown
    <3> QED  BY <3>1, <3>2, <3>3
  <2>4. f[2] = f[1]
    <3>1. f[2] = Grown(b, f[2 - 1], 2)
      BY <2>2
    <3> QED  BY <1>3, <3>1 DEF Grown
  <2> QED  BY <1>3, <2>1, <2>3, <2>4 DEF Lines
<1>13. Lines(Marker) = Marker
  <2>1. /\ Marker \in Seq(1 .. MarkerLen)
        /\ CR \notin 1 .. MarkerLen /\ Sep \notin 1 .. MarkerLen
    <3>1. \A i \in 1 .. MarkerLen : i \in 1 .. MarkerLen
      OBVIOUS
    <3> QED  BY <3>1, <1>4, IsASeq DEF Marker
  <2> QED  BY <2>1, LinesOfPlain
<1>14. Lines(out) \in Seq(Printable \ {CR})
  <2>1. (Printable \ {CR}) \cup {LF} = Printable \ {CR}
    BY DEF Printable
  <2> QED  BY <2>1, LinesTyped
<1> QED  BY <1>1, <1>5, <1>6, <1>7, <1>9, <1>11, <1>12, <1>13, <1>14

\* The lines of a finished log, whose output has the lines o.
DoneLog(o, s) == (((HeaderLines \o o) \o <<LF>>) \o Marker) \o s

\* Where they hold what.
DoneShape(l, o) ==
    LET n == Len(o) IN
    /\ l \in Seq(Units) /\ Len(l) >= n + MarkerLen + 9
    /\ \A i \in 1 .. 8 : l[i] = HeaderLines[i]
    /\ \A i \in 1 .. n : l[8 + i] = o[i]
    /\ l[n + 9] = LF
    /\ \A i \in 1 .. MarkerLen : l[n + 9 + i] = i
    /\ Len(l) > n + MarkerLen + 9 => l[n + MarkerLen + 10] = LF
    /\ \A i \in 9 .. Len(l) :
            l[i] # StartMark /\ (l[i] = MarkerLen => i = n + MarkerLen + 9)

LEMMA DonePositions ==
    ASSUME NEW o \in Seq(Printable \ {CR}), NEW s \in Seq({LF, Char}),
           s # <<>> => s[1] = LF
    PROVE  DoneShape(DoneLog(o, s), o)
<1> SUFFICES ASSUME NEW n, n = Len(o), NEW l, l = DoneLog(o, s)
             PROVE  DoneShape(l, o)
  OBVIOUS
<1>0. n \in Nat /\ MarkerLen \in Nat /\ MarkerLen > 0
  BY MarkerAssumption
<1>1. PICK e, b, c : e = HeaderLines /\ b = <<LF>> /\ c = Marker
  OBVIOUS
<1>2. Printable \subseteq Units /\ MarkerLen \in Units /\ LF \in Units
        /\ Char \in Units
  BY DEF Units, Printable
<1>3. o \in Seq(Units) /\ Len(o) = n
  BY <1>2, SeqMonotonic
<1>4. e \in Seq(Units) /\ Len(e) = 8
  <2>1. e \in Seq(Units \ {CR}) /\ Len(e) = 8
    BY <1>1, HeaderLinesIs
  <2> QED  BY <2>1, SeqMonotonic
<1>5. b \in Seq(Units) /\ Len(b) = 1 /\ b[1] = LF
  BY <1>1, <1>2
<1>6. c \in Seq(Units) /\ Len(c) = MarkerLen /\ \A i \in 1 .. MarkerLen : c[i] = i
  <2>1. \A i \in 1 .. MarkerLen : i \in Units
    BY <1>0 DEF Units, Printable
  <2>2. Marker \in Seq(Units)
    BY <1>0, <2>1, IsASeq DEF Marker
  <2> QED  BY <1>0, <1>1, <2>2 DEF Marker
<1>7. PICK m : m = Len(s)
  OBVIOUS
<1>8. s \in Seq(Units) /\ Len(s) = m /\ m \in Nat /\ (m > 0 => s[1] = LF)
  <2>1. s \in Seq(Units)
    BY <1>2, SeqMonotonic
  <2>2. m \in Nat /\ (m > 0 => s # <<>>)
    BY <1>7
  <2> QED  BY <1>7, <2>1, <2>2
<1>9. PICK x : x = e \o o
  OBVIOUS
<1>10. /\ x \in Seq(Units) /\ Len(x) = 8 + n
       /\ \A i \in 1 .. 8 + n : x[i] = IF i <= 8 THEN e[i] ELSE o[i - 8]
  <2>1. e \in Seq(Units) /\ o \in Seq(Units)
    BY <1>3, <1>4
  <2>2. /\ e \o o \in Seq(Units) /\ Len(e \o o) = Len(e) + Len(o)
        /\ \A i \in 1 .. Len(e) + Len(o) :
            (e \o o)[i] = IF i <= Len(e) THEN e[i] ELSE o[i - Len(e)]
    BY <2>1, ConcatProperties
  <2> QED  BY <1>0, <1>3, <1>4, <1>9, <2>2
<1>11. PICK y : y = x \o b
  OBVIOUS
<1>12. /\ y \in Seq(Units) /\ Len(y) = 9 + n
       /\ \A i \in 1 .. 9 + n : y[i] = IF i <= 8 + n THEN x[i] ELSE b[i - (8 + n)]
  <2>1. x \in Seq(Units) /\ b \in Seq(Units)
    BY <1>5, <1>10
  <2>2. /\ x \o b \in Seq(Units) /\ Len(x \o b) = Len(x) + Len(b)
        /\ \A i \in 1 .. Len(x) + Len(b) :
            (x \o b)[i] = IF i <= Len(x) THEN x[i] ELSE b[i - Len(x)]
    BY <2>1, ConcatProperties
  <2>3. Len(x) + Len(b) = 9 + n
    BY <1>0, <1>5, <1>10
  <2> QED  BY <1>0, <1>5, <1>10, <1>11, <2>2, <2>3
<1>13. PICK z : z = y \o c
  OBVIOUS
<1>14. /\ z \in Seq(Units) /\ Len(z) = 9 + n + MarkerLen
       /\ \A i \in 1 .. 9 + n + MarkerLen :
            z[i] = IF i <= 9 + n THEN y[i] ELSE c[i - (9 + n)]
  <2>1. y \in Seq(Units) /\ c \in Seq(Units)
    BY <1>6, <1>12
  <2>2. /\ y \o c \in Seq(Units) /\ Len(y \o c) = Len(y) + Len(c)
        /\ \A i \in 1 .. Len(y) + Len(c) :
            (y \o c)[i] = IF i <= Len(y) THEN y[i] ELSE c[i - Len(y)]
    BY <2>1, ConcatProperties
  <2>3. Len(y) + Len(c) = 9 + n + MarkerLen
    BY <1>0, <1>6, <1>12
  <2> QED  BY <1>0, <1>6, <1>12, <1>13, <2>2, <2>3
<1>15. /\ l \in Seq(Units) /\ Len(l) = 9 + n + MarkerLen + m
       /\ \A i \in 1 .. 9 + n + MarkerLen + m :
            l[i] = IF i <= 9 + n + MarkerLen THEN z[i]
                   ELSE s[i - (9 + n + MarkerLen)]
  <2>1. z \in Seq(Units) /\ s \in Seq(Units)
    BY <1>8, <1>14
  <2>2. /\ z \o s \in Seq(Units) /\ Len(z \o s) = Len(z) + Len(s)
        /\ \A i \in 1 .. Len(z) + Len(s) :
            (z \o s)[i] = IF i <= Len(z) THEN z[i] ELSE s[i - Len(z)]
    BY <2>1, ConcatProperties
  <2>3. Len(z) + Len(s) = 9 + n + MarkerLen + m
    BY <1>0, <1>8, <1>14
  <2>4. l = z \o s
    BY <1>1, <1>9, <1>11, <1>13 DEF DoneLog
  <2> QED  BY <1>0, <1>8, <1>14, <2>2, <2>3, <2>4
<1> HIDE <1>1, <1>7, <1>9, <1>11, <1>13
<1>16. \A i \in 1 .. 8 : l[i] = HeaderLines[i]
  <2> SUFFICES ASSUME NEW i \in 1 .. 8 PROVE l[i] = e[i]
    BY <1>1
  <2>1. i \in 1 .. 8 + n /\ i <= 8 + n /\ i <= 9 + n /\ i \in 1 .. 9 + n
        /\ i <= 9 + n + MarkerLen /\ i \in 1 .. 9 + n + MarkerLen
    BY <1>0
  <2>2. i \in 1 .. 9 + n + MarkerLen + m
    BY <1>0, <1>8
  <2>3. l[i] = z[i] /\ z[i] = y[i]
    BY <1>14, <1>15, <2>1, <2>2
  <2>4. y[i] = x[i]
    BY <1>12, <2>1
  <2>5. x[i] = e[i]
    BY <1>10, <2>1
  <2> QED  BY <2>3, <2>4, <2>5
<1>17. ASSUME NEW i \in 1 .. n
       PROVE  l[8 + i] = o[i]
  <2>1. PICK k : k = 8 + i
    OBVIOUS
  <2>2. k \in 1 .. 8 + n /\ ~(k <= 8) /\ k <= 8 + n /\ k <= 9 + n
        /\ k \in 1 .. 9 + n /\ k - 8 = i
    BY <1>0, <2>1
  <2>3. k <= 9 + n + MarkerLen /\ k \in 1 .. 9 + n + MarkerLen
        /\ k \in 1 .. 9 + n + MarkerLen + m
    BY <1>0, <1>8, <2>1
  <2>4. l[k] = z[k] /\ z[k] = y[k]
    BY <1>14, <1>15, <2>2, <2>3
  <2>5. y[k] = x[k] /\ x[k] = o[k - 8]
    BY <1>10, <1>12, <2>2
  <2> QED  BY <2>1, <2>2, <2>4, <2>5
<1>18. l[n + 9] = LF
  <2>1. n + 9 \in 1 .. 9 + n /\ n + 9 <= 9 + n /\ ~(n + 9 <= 8 + n)
        /\ n + 9 - (8 + n) = 1
    BY <1>0
  <2>2. n + 9 <= 9 + n + MarkerLen /\ n + 9 \in 1 .. 9 + n + MarkerLen
        /\ n + 9 \in 1 .. 9 + n + MarkerLen + m
    BY <1>0, <1>8
  <2>3. l[n + 9] = z[n + 9] /\ z[n + 9] = y[n + 9]
    BY <1>14, <1>15, <2>1, <2>2
  <2>4. y[n + 9] = b[1]
    BY <1>12, <2>1
  <2> QED  BY <1>5, <2>3, <2>4
<1>19. ASSUME NEW i \in 1 .. MarkerLen
       PROVE  l[n + 9 + i] = i
  <2>1. PICK k : k = n + 9 + i
    OBVIOUS
  <2>2. k \in 1 .. 9 + n + MarkerLen /\ k <= 9 + n + MarkerLen /\ ~(k <= 9 + n)
        /\ k - (9 + n) = i /\ k \in 1 .. 9 + n + MarkerLen + m
    BY <1>0, <1>8, <2>1
  <2>3. l[k] = z[k] /\ z[k] = c[i]
    BY <1>14, <1>15, <2>2
  <2> QED  BY <1>6, <2>1, <2>3
<1>20. ASSUME NEW i \in 1 .. m
       PROVE  l[9 + n + MarkerLen + i] = s[i]
  <2>1. PICK k : k = 9 + n + MarkerLen + i
    OBVIOUS
  <2>2. k \in 1 .. 9 + n + MarkerLen + m /\ ~(k <= 9 + n + MarkerLen)
        /\ k - (9 + n + MarkerLen) = i
    BY <1>0, <1>8, <2>1
  <2> QED  BY <1>15, <2>1, <2>2
<1>21. Len(l) > n + MarkerLen + 9 => l[n + MarkerLen + 10] = LF
  <2> SUFFICES ASSUME Len(l) > n + MarkerLen + 9 PROVE l[n + MarkerLen + 10] = LF
    OBVIOUS
  <2>1. m > 0 /\ 1 \in 1 .. m /\ n + MarkerLen + 10 = 9 + n + MarkerLen + 1
    BY <1>0, <1>8, <1>15
  <2> QED  BY <1>8, <1>20, <2>1
<1>22. ASSUME NEW i \in 9 .. Len(l)
       PROVE  l[i] # StartMark /\ (l[i] = MarkerLen => i = n + MarkerLen + 9)
  <2>0. i \in 9 .. 9 + n + MarkerLen + m
    BY <1>15
  <2>1. CASE i <= 8 + n
    <3>1. i - 8 \in 1 .. n /\ 8 + (i - 8) = i
      BY <1>0, <2>0, <2>1
    <3>2. l[i] = o[i - 8] /\ o[i - 8] \in Printable
      BY <1>3, <1>17, <3>1
    <3>3. \A u \in Printable : u # StartMark /\ u # MarkerLen
      BY <1>0 DEF Printable
    <3> QED  BY <3>2, <3>3
  <2>2. CASE i = 9 + n
    BY <1>0, <1>18, <2>2
  <2>3. CASE i > 9 + n /\ i <= 9 + n + MarkerLen
    <3>1. PICK j : j = i - (9 + n)
      OBVIOUS
    <3>2. j \in 1 .. MarkerLen /\ n + 9 + j = i
      BY <1>0, <2>0, <2>3, <3>1
    <3>3. l[i] = j
      BY <1>19, <3>2
    <3>4. j # StartMark
      BY <1>0, <3>2
    <3>5. j = MarkerLen => i = n + MarkerLen + 9
      <4> SUFFICES ASSUME j = MarkerLen PROVE i = n + MarkerLen + 9
        OBVIOUS
      <4>1. n + 9 + MarkerLen = n + MarkerLen + 9
        BY <1>0
      <4> QED  BY <3>2, <4>1
    <3> QED  BY <3>3, <3>4, <3>5
  <2>4. CASE i > 9 + n + MarkerLen
    <3>1. PICK j : j = i - (9 + n + MarkerLen)
      OBVIOUS
    <3>2. j \in 1 .. m /\ 9 + n + MarkerLen + j = i
      BY <1>0, <1>8, <2>0, <2>4, <3>1
    <3>3. l[i] = s[j]
      BY <1>20, <3>2
    <3>4. s[j] \in {LF, Char}
      BY <1>8, <3>2
    <3>5. s[j] # StartMark /\ s[j] # MarkerLen
      BY <1>0, <3>4
    <3> QED  BY <3>3, <3>5
  <2> QED  BY <1>0, <2>0, <2>1, <2>2, <2>3, <2>4
<1>23. Len(l) >= n + MarkerLen + 9
  BY <1>0, <1>8, <1>15
<1> QED  BY <1>15, <1>16, <1>17, <1>18, <1>19, <1>21, <1>22, <1>23 DEF DoneShape

\* Between the markers is the output.
LEMMA ExtractBetween ==
    ASSUME NEW o \in Seq(Printable \ {CR}), NEW s \in Seq({LF, Char}),
           s # <<>> => s[1] = LF,
           NEW t, Lines(t) = DoneLog(o, s)
    PROVE  Extract(t) = o
<1>1. PICK l, n, d : l = Lines(t) /\ n = Len(o) /\ d = n + 10
  OBVIOUS
<1>2. n \in Nat /\ MarkerLen \in Nat /\ MarkerLen > 0
  BY <1>1, MarkerAssumption
<1>3. /\ l \in Seq(Units) /\ Len(l) >= n + MarkerLen + 9
      /\ \A i \in 1 .. 8 : l[i] = HeaderLines[i]
      /\ \A i \in 1 .. n : l[8 + i] = o[i]
      /\ l[n + 9] = LF
      /\ \A i \in 1 .. MarkerLen : l[n + 9 + i] = i
      /\ Len(l) > n + MarkerLen + 9 => l[n + MarkerLen + 10] = LF
      /\ \A i \in 9 .. Len(l) :
            l[i] # StartMark /\ (l[i] = MarkerLen => i = n + MarkerLen + 9)
  <2>1. DoneShape(l, o)
    BY <1>1, DonePositions
  <2> QED  BY <1>1, <2>1 DEF DoneShape
<1>4. Len(l) \in Nat /\ Len(l) >= n + MarkerLen + 9
      /\ \A i \in 1 .. Len(l) : l[i] \in Units
  BY <1>3
<1>5. Marker \in Seq(Units) /\ Len(Marker) = MarkerLen
      /\ \A i \in 1 .. MarkerLen : Marker[i] = i
  <2>1. \A i \in 1 .. MarkerLen : i \in Units
    BY <1>2 DEF Units, Printable
  <2>2. Marker \in Seq(Units)
    BY <1>2, <2>1, IsASeq DEF Marker
  <2> QED  BY <1>2, <2>2 DEF Marker
<1>6. StartLines(l) = {7} /\ Min(StartLines(l)) = 7
  <2>1. Len(l) >= 8
    BY <1>2, <1>4
  <2>2. \A i \in 9 .. Len(l) : l[i] # StartMark
    BY <1>3
  <2> QED  BY <1>3, <2>1, <2>2, StartFound
<1>7. d \in DoneLines(l)
  <2>1. d \in 1 .. Len(l) - MarkerLen + 1
    BY <1>1, <1>2, <1>4
  <2>2. SubSeq(l, d, d + MarkerLen - 1) = Marker
    <3>1. PICK k, w : k = d + MarkerLen - 1 /\ w = SubSeq(l, d, k)
      OBVIOUS
    <3>2. d \in 1 .. Len(l) /\ k \in 1 .. Len(l) /\ k - d + 1 = MarkerLen /\ d <= k
      BY <1>1, <1>2, <1>4, <3>1
    <3>3. \A i \in d .. k : l[i] \in Units
      BY <1>4, <3>2
    <3>4. /\ w \in Seq(Units) /\ Len(w) = MarkerLen
          /\ \A i \in 1 .. MarkerLen : w[i] = l[d + i - 1]
      BY <3>1, <3>2, <3>3, SubSeqProperties
    <3>5. ASSUME NEW i \in 1 .. MarkerLen PROVE w[i] = Marker[i]
      <4>1. d + i - 1 = n + 9 + i
        BY <1>1, <1>2
      <4> QED  BY <1>3, <1>5, <3>4, <4>1
    <3> QED  BY <1>5, <3>1, <3>4, <3>5, SeqEqual
  <2>3. LineStart(l, d)
    <3>1. d - 1 = n + 9
      BY <1>1, <1>2
    <3> QED  BY <1>3, <3>1 DEF LineStart
  <2>4. LineEnd(l, d + MarkerLen - 1)
    <3>1. PICK k : k = d + MarkerLen - 1
      OBVIOUS
    <3>2. k = n + MarkerLen + 9 /\ k + 1 = n + MarkerLen + 10
      BY <1>1, <1>2, <3>1
    <3>3. k < Len(l) => l[k + 1] = LF
      BY <1>2, <1>3, <1>4, <3>2
    <3> QED  BY <3>1, <3>3 DEF LineEnd
  <2> QED  BY <2>1, <2>2, <2>3, <2>4 DEF DoneLines
<1>8. ASSUME NEW q \in DoneLines(l), 7 < q PROVE q = d
  <2>1. /\ q \in 1 .. Len(l) - MarkerLen + 1
        /\ SubSeq(l, q, q + MarkerLen - 1) = Marker
    BY DEF DoneLines
  <2>2. PICK k : k = q + MarkerLen - 1
    OBVIOUS
  <2>3. q \in Nat /\ q >= 1 /\ k \in 8 .. Len(l) /\ q <= k /\ k - q + 1 = MarkerLen /\ k \in Int
    BY <1>2, <1>4, <1>8, <2>1, <2>2
  <2>4. l[k] = MarkerLen
    <3>1. \A i \in q .. k : l[i] \in Units
      BY <1>4, <2>3
    <3>2. \A i \in 1 .. k - q + 1 : SubSeq(l, q, k)[i] = l[q + i - 1]
      BY <2>3, <3>1, SubSeqProperties
    <3>3. SubSeq(l, q, k)[MarkerLen] = l[q + MarkerLen - 1]
      BY <1>2, <2>3, <3>2
    <3> QED  BY <1>2, <1>5, <2>1, <2>2, <3>3
  <2>5. k # 8
    BY <1>2, <1>3, <2>4, HeaderLinesIs
  <2>6. k = n + MarkerLen + 9
    <3>1. k \in 9 .. Len(l)
      BY <1>4, <2>3, <2>5
    <3> QED  BY <1>3, <2>4, <3>1
  <2> QED  BY <1>1, <1>2, <2>2, <2>3, <2>6
<1> DEFINE ends == {q \in DoneLines(l) : \E p \in StartLines(l) : p < q}
<1>9. ends = {d}
  <2>1. 7 < d
    BY <1>1, <1>2
  <2>2. \A q \in ends : q \in DoneLines(l) /\ 7 < q
    BY <1>6
  <2>3. d \in ends
    BY <1>6, <1>7, <2>1
  <2> QED  BY <1>8, <2>2, <2>3
<1>10. Min(ends) = d /\ ends # {}
  <2>1. d \in Nat
    BY <1>1, <1>2
  <2> QED  BY <1>9, <2>1, LeastOfOne
<1>11. Extract(t) = SubSeq(l, Min(StartLines(l)) + 2, Min(ends) - 2)
  BY <1>1, <1>10 DEF Extract
<1> HIDE DEF ends
<1>12. PICK k, w : k = n + 8 /\ w = SubSeq(l, 9, k)
  OBVIOUS
<1>13. Extract(t) = w
  <2>1. Min(StartLines(l)) + 2 = 9 /\ Min(ends) - 2 = k
    BY <1>1, <1>2, <1>6, <1>10, <1>12
  <2> QED  BY <1>11, <1>12, <2>1
<1>14. /\ w \in Seq(Units) /\ Len(w) = n
       /\ \A i \in 1 .. n : w[i] = l[9 + i - 1]
  <2>1. k \in Int /\ k - 9 + 1 = n /\ (9 <= k \/ n = 0) /\ (9 <= k => k \in 1 .. Len(l))
    BY <1>2, <1>4, <1>12
  <2>2. \A i \in 9 .. k : l[i] \in Units
    BY <1>4, <2>1
  <2> QED  BY <1>2, <1>12, <2>1, <2>2, SubSeqProperties
<1>15. \A i \in 1 .. n : w[i] = o[i]
  <2> SUFFICES ASSUME NEW i \in 1 .. n PROVE w[i] = o[i]
    OBVIOUS
  <2>1. 9 + i - 1 = 8 + i
    OBVIOUS
  <2> QED  BY <1>3, <1>14, <2>1
<1>16. o \in Seq(Units)
  BY SeqMonotonic DEF Units
<1> QED  BY <1>1, <1>13, <1>14, <1>15, <1>16, SeqEqual

\* What is shown of a command that is done.
LEMMA FinishedShown ==
    ASSUME NEW p \in 0 .. Len(Whole), NEW out \in Seq(Printable), output = out,
           NEW q \in 1 .. p, SentinelAt(SubSeq(Whole, 1, p), q)
    PROVE  Extract(SubSeq(Whole, 1, p)) = Lines(out) /\ Lines(out) \in Seq(Units)
<1>1. PICK w, n, t : w = Whole /\ n = Len(out) /\ t = SubSeq(w, 1, p)
  OBVIOUS
<1>2. n \in Nat /\ MarkerLen \in Nat /\ MarkerLen > 0
  BY <1>1, MarkerAssumption
<1>3. /\ w \in Seq(Units) /\ Len(w) = n + MarkerLen + 15
      /\ \A i \in 1 .. 10 : w[i] = Header[i]
      /\ \A i \in 11 .. Len(w) : w[i] = MarkerLen => i = n + MarkerLen + 12
  BY <1>1, WholePositions
<1>4. p \in 0 .. n + MarkerLen + 15
  BY <1>1, <1>3
<1>5. \A i \in 1 .. n + MarkerLen + 15 : w[i] \in Units
  BY <1>3
<1>6. t \in Seq(Units) /\ Len(t) = p /\ \A i \in 1 .. p : t[i] = w[i]
  <2>1. \A i \in 1 .. p : w[i] \in Units
    BY <1>2, <1>4, <1>5
  <2> QED  BY <1>1, <1>2, <1>4, <2>1, SubSeqProperties
<1>7. PICK m : m = n + MarkerLen + 12
  OBVIOUS
<1>8. m <= p /\ m \in Nat
  <2>1. PICK k : k = q + MarkerLen - 1
    OBVIOUS
  <2>2. k <= p /\ t[k] = MarkerLen
    BY <1>1, <1>2, <1>6, <2>1 DEF SentinelAt
  <2>3. k \in 1 .. p /\ k \in 1 .. Len(w)
    BY <1>2, <1>3, <1>4, <2>1, <2>2
  <2>4. w[k] = MarkerLen
    BY <1>6, <2>2, <2>3
  <2>5. k \notin 1 .. 10
    <3>1. \A i \in 1 .. 10 : Header[i] # MarkerLen
      <4> SUFFICES ASSUME NEW i \in 1 .. 10 PROVE Header[i] # MarkerLen
        OBVIOUS
      <4>1. i \in {1, 2, 3, 4, 5, 6, 7, 8, 9, 10}
        OBVIOUS
      <4>2. Header[i] \in {Char, StartMark, CR, LF}
        BY <4>1, HeaderIs
      <4> QED  BY <1>2, <4>2
    <3> QED  BY <1>3, <2>4, <3>1
  <2>6. k = n + MarkerLen + 12
    <3>1. k \in 11 .. Len(w)
      BY <1>2, <1>3, <2>3, <2>5
    <3> QED  BY <1>3, <2>4, <3>1
  <2> QED  BY <1>2, <1>7, <2>2, <2>6
<1>9. PICK r, z, e : /\ r = SubSeq(w, m + 1, p) /\ e = <<CR, LF, Char>>
                     /\ z = ((Header \o out) \o <<CR, LF>>) \o Marker
  OBVIOUS
<1>10. w = z \o e /\ e \in Seq(Units) /\ Len(e) = 3
  <2>1. w = z \o e
    BY <1>1, <1>9, WholeParts
  <2>2. e \in Seq(Units) /\ Len(e) = 3
    BY <1>9 DEF Units, Printable
  <2> QED  BY <2>1, <2>2
<1>11. z \in Seq(Units) /\ Len(z) = m
  <2>1. out \in Seq(Units) /\ <<CR, LF>> \in Seq(Units) /\ Marker \in Seq(Units)
    BY WholeParts, SeqMonotonic DEF Plain
  <2>2. z \in Seq(Units)
    BY <1>9, <2>1, HeaderIs, ConcatProperties
  <2>3. Len(w) = Len(z) + 3 /\ Len(z) \in Nat
    <3>1. Len(z \o e) = Len(z) + Len(e)
      BY <1>10, <2>2, ConcatProperties
    <3>2. Len(z) \in Nat
      BY <2>2
    <3> QED  BY <1>10, <3>1, <3>2
  <2>4. Len(w) = n + MarkerLen + 15
    BY <1>3
  <2> QED  BY <1>2, <1>7, <2>2, <2>3, <2>4
<1>12. \A i \in 1 .. m + 3 : w[i] = IF i <= m THEN z[i] ELSE e[i - m]
  <2>1. \A i \in 1 .. Len(z) + Len(e) : (z \o e)[i] = IF i <= Len(z) THEN z[i] ELSE e[i - Len(z)]
    BY <1>10, <1>11, ConcatProperties
  <2> QED  BY <1>10, <1>11, <2>1
<1>13. SubSeq(w, 1, m) = z
  <2>1. PICK v : v = SubSeq(w, 1, m)
    OBVIOUS
  <2>2. \A i \in 1 .. m : w[i] \in Units
    BY <1>2, <1>4, <1>5, <1>8
  <2>3. v \in Seq(Units) /\ Len(v) = m /\ \A i \in 1 .. m : v[i] = w[i]
    BY <1>8, <2>1, <2>2, SubSeqProperties
  <2>4. \A i \in 1 .. m : v[i] = z[i]
    BY <1>8, <1>12, <2>3
  <2> QED  BY <1>11, <2>1, <2>3, <2>4, SeqEqual
<1>14. t = z \o r
  <2>1. 1 \in 1 .. Len(w) + 1 /\ m \in 1 - 1 .. Len(w) /\ p \in m .. Len(w)
    BY <1>2, <1>3, <1>4, <1>7, <1>8
  <2>2. SubSeq(w, 1, m) \o SubSeq(w, m + 1, p) = SubSeq(w, 1, p)
    BY <1>3, <2>1, ConcatAdjacentSubSeq
  <2> QED  BY <1>1, <1>9, <1>13, <2>2
<1>15. r \in Seq(Units) /\ Len(r) <= 3 /\ \A i \in 1 .. Len(r) : r[i] = e[i]
  <2>1. m + 1 \in Int /\ p \in Int /\ p - m \in 0 .. 3 /\ p - (m + 1) + 1 = p - m
    BY <1>2, <1>4, <1>7, <1>8
  <2>2. \A i \in m + 1 .. p : w[i] \in Units
    BY <1>2, <1>4, <1>5, <1>8
  <2>3. /\ r \in Seq(Units)
        /\ Len(r) = IF m + 1 <= p THEN p - (m + 1) + 1 ELSE 0
        /\ \A i \in 1 .. p - (m + 1) + 1 : r[i] = w[(m + 1) + i - 1]
    <3>1. PICK k : k = m + 1
      OBVIOUS
    <3>2. k \in Int /\ p \in Int /\ \A i \in k .. p : w[i] \in Units
      BY <2>1, <2>2, <3>1
    <3>3. /\ SubSeq(w, k, p) \in Seq(Units)
          /\ Len(SubSeq(w, k, p)) = IF k <= p THEN p - k + 1 ELSE 0
          /\ \A i \in 1 .. p - k + 1 : SubSeq(w, k, p)[i] = w[k + i - 1]
      BY <3>2, SubSeqProperties
    <3> QED  BY <1>9, <3>1, <3>3
  <2>4. Len(r) = p - m
    BY <1>8, <2>1, <2>3
  <2>5. ASSUME NEW i \in 1 .. p - m PROVE r[i] = e[i]
    <3>1. i \in 1 .. 3 /\ m + i \in 1 .. m + 3 /\ ~(m + i <= m) /\ (m + i) - m = i
          /\ (m + 1) + i - 1 = m + i
      BY <1>8, <2>1
    <3>2. r[i] = w[m + i]
      BY <2>1, <2>3, <3>1
    <3>3. w[m + i] = e[(m + i) - m]
      BY <1>12, <3>1
    <3> QED  BY <3>1, <3>2, <3>3
  <2>6. r \in Seq(Units)
    BY <2>3
  <2>7. Len(r) <= 3
    BY <2>1, <2>4
  <2>8. \A i \in 1 .. Len(r) : r[i] = e[i]
    BY <2>4, <2>5
  <2> QED  BY <2>6, <2>7, <2>8
<1>16. /\ Lines(t) = DoneLog(Lines(out), Lines(r))
       /\ Lines(out) \in Seq(Printable \ {CR})
  BY <1>9, <1>14, <1>15, LinesWhenDone DEF DoneLog
<1>17. /\ Lines(r) \in Seq({LF, Char})
       /\ Lines(r) # <<>> => Lines(r)[1] = LF
  BY <1>9, <1>15, LinesOfRest
<1>18. Extract(t) = Lines(out)
  BY <1>16, <1>17, ExtractBetween
<1>19. Lines(out) \in Seq(Units)
  BY <1>16, SeqMonotonic DEF Units
<1> QED  BY <1>1, <1>18, <1>19

-----------------------------------------------------------------------------
(* Every answer.                                                           *)

LEMMA AnswerShows ==
    ASSUME NEW status, NEW t \in Seq(Units)
    PROVE  Shows(Answer(status, t), t)
<1>1. Shows(Slice(t), t)
  BY SizesTyped, SliceShows
<1> QED  BY <1>1 DEF Shows, Answer

\* The text is what was read but for what is held back.
LEMMA HeldBack ==
    ASSUME NEW w \in Seq(Units), NEW k \in 0 .. Len(w), NEW t \in Seq(Units),
           NEW h \in {<<>>, <<Lead>>}, t \o h = SubSeq(w, 1, k)
    PROVE  k - Len(h) \in 0 .. Len(w) /\ t = SubSeq(w, 1, k - Len(h))
<1>1. PICK m, n, p : m = Len(t) /\ n = Len(h) /\ p = k - n
  OBVIOUS
<1>2. n \in {0, 1} /\ h \in Seq(Units) /\ m \in Nat /\ Len(w) \in Nat
  <2>1. <<>> \in Seq(Units) /\ <<Lead>> \in Seq(Units)
    BY DEF Units, Printable
  <2>2. h \in Seq(Units)
    BY <2>1
  <2>3. Len(<<>>) = 0 /\ Len(<<Lead>>) = 1
    OBVIOUS
  <2>4. n \in {0, 1}
    BY <1>1, <2>3
  <2> QED  BY <1>1, <2>2, <2>4
<1>3. /\ Len(t \o h) = m + n
      /\ \A i \in 1 .. m + n : (t \o h)[i] = IF i <= m THEN t[i] ELSE h[i - m]
  <2>1. t \in Seq(Units) /\ h \in Seq(Units)
    BY <1>2
  <2>2. /\ Len(t \o h) = Len(t) + Len(h)
        /\ \A i \in 1 .. Len(t) + Len(h) :
            (t \o h)[i] = IF i <= Len(t) THEN t[i] ELSE h[i - Len(t)]
    BY <2>1, ConcatProperties
  <2> QED  BY <1>1, <2>2
<1>4. \A i \in 1 .. k : w[i] \in Units
  OBVIOUS
<1>5. Len(SubSeq(w, 1, k)) = k /\ \A i \in 1 .. k : SubSeq(w, 1, k)[i] = w[i]
  BY <1>2, <1>4, SubSeqProperties
<1>6. m + n = k /\ p = m /\ p \in 0 .. Len(w)
  BY <1>1, <1>2, <1>3, <1>5
<1>7. PICK u : u = SubSeq(w, 1, p)
  OBVIOUS
<1>8. u \in Seq(Units) /\ Len(u) = p /\ \A i \in 1 .. p : u[i] = w[i]
  <2>1. \A i \in 1 .. p : w[i] \in Units
    BY <1>2, <1>4, <1>6
  <2> QED  BY <1>6, <1>7, <2>1, SubSeqProperties
<1>9. ASSUME NEW i \in 1 .. m PROVE t[i] = u[i]
  <2>1. i \in 1 .. m + n /\ i <= m /\ i \in 1 .. k /\ i \in 1 .. p
    BY <1>2, <1>6
  <2> QED  BY <1>3, <1>5, <1>8, <2>1
<1>10. t = u
  BY <1>1, <1>6, <1>8, <1>9, SeqEqual
<1> QED  BY <1>1, <1>6, <1>7, <1>10

\* ShownIsOutput of the next state, from the answer of the poll.
LEMMA ShownByAnswer ==
    ASSUME output' = output, Whole' = Whole,
           Shows(answer', IF answer'.status = "done" THEN Lines(output)
                          ELSE Chomp(Lines(SubSeq(Whole, 11, offset' - Len(held')))))
    PROVE  ShownIsOutput'
<1>1. Len(Echo) + 4 = 11
  BY DEF Echo
<1> QED  BY <1>1 DEF ShownIsOutput, Shows

LEMMA ChompTyped ==
    ASSUME NEW T, NEW t \in Seq(T) PROVE Chomp(t) \in Seq(T)
<1>1. \A i \in 1 .. Len(t) - 1 : t[i] \in T
  OBVIOUS
<1>2. SubSeq(t, 1, Len(t) - 1) \in Seq(T)
  <2>1. Len(t) \in Nat
    OBVIOUS
  <2> QED  BY <1>1, <2>1, SubSeqProperties
<1> QED  BY <1>2 DEF Chomp

\* A poll answers with what is to be shown.
LEMMA PollShows ==
    ASSUME Inv, Inv', Pull, NEW status \in Statuses,
           status = "done" <=> Finds(Content),
           answer' = Answer(status, IF status = "done" THEN Extract(Content)
                                    ELSE ExtractPartial(Content))
    PROVE  ShownIsOutput'
<1>1. output \in Seq(Printable) /\ answer.status # "done"
  BY DEF Inv, TypeOK, Pull
<1>2. Whole \in Seq(Units)
  BY <1>1, WholeTyped
<1>3. output' = output /\ text' = Content /\ Whole' = Whole /\ printed' = printed
  BY DEF Pull, logVars, Whole
<1>4. /\ Content \in Seq(Units) /\ held' \in {<<>>, <<Lead>>}
      /\ offset' \in 0 .. Len(Whole)
      /\ Content \o held' = SubSeq(Whole, 1, offset')
  <2>1. Len(Whole) \in Nat /\ printed \in 0 .. Len(Whole) /\ offset' \in 0 .. printed
    BY <1>2, <1>3 DEF Inv, TypeOK
  <2>2. offset' \in 0 .. Len(Whole)
    BY <2>1
  <2> QED  BY <1>3, <2>2 DEF Inv, TypeOK, ScanIsExact
<1>5. PICK p : p = offset' - Len(held')
  OBVIOUS
<1>6. p \in 0 .. Len(Whole) /\ Content = SubSeq(Whole, 1, p)
  BY <1>2, <1>4, <1>5, HeldBack
<1>7. CASE status = "done"
  <2>1. PICK q \in DOMAIN Content : SentinelAt(Content, q)
    BY <1>1, <1>7, SearchExact
  <2>2. q \in 1 .. p
    <3>1. Len(Content) = p
      <4>1. \A i \in 1 .. p : Whole[i] \in Units
        BY <1>2, <1>6
      <4>2. p \in Nat /\ 1 \in Int
        BY <1>2, <1>6
      <4>3. Len(SubSeq(Whole, 1, p)) = p
        BY <4>1, <4>2, SubSeqProperties
      <4> QED  BY <1>6, <4>3
    <3> QED  BY <1>4, <2>1, <3>1
  <2>3. Extract(Content) = Lines(output) /\ Lines(output) \in Seq(Units)
    BY <1>1, <1>6, <2>1, <2>2, FinishedShown
  <2>4. Shows(answer', Lines(output))
    BY <1>7, <2>3, AnswerShows
  <2>5. answer'.status = "done"
    BY <1>7 DEF Answer
  <2> QED  BY <1>3, <2>4, <2>5, ShownByAnswer
<1>8. CASE status # "done"
  <2>1. /\ ExtractPartial(Content) = Chomp(Lines(SubSeq(Whole, 11, p)))
        /\ Lines(SubSeq(Whole, 11, p)) \in Seq(Units)
    BY <1>1, <1>6, UnfinishedShown
  <2>2. Chomp(Lines(SubSeq(Whole, 11, p))) \in Seq(Units)
    BY <2>1, ChompTyped
  <2>3. Shows(answer', Chomp(Lines(SubSeq(Whole, 11, p))))
    BY <1>8, <2>1, <2>2, AnswerShows
  <2>4. answer'.status # "done"
    BY <1>8 DEF Answer
  <2> QED  BY <1>3, <1>5, <2>3, <2>4, ShownByAnswer
<1> QED  BY <1>7, <1>8

LEMMA ShownInit == Init => ShownIsOutput
BY DEF Init, Nothing, ShownIsOutput

LEMMA ShownNext == Inv /\ Inv' /\ ShownIsOutput /\ [Next]_vars => ShownIsOutput'
<1> SUFFICES ASSUME Inv, Inv', ShownIsOutput, [Next]_vars PROVE ShownIsOutput'
  OBVIOUS
<1>1. CASE UNCHANGED <<output, offset, held, answer>>
  <2>1. Whole' = Whole
    BY <1>1 DEF Whole
  <2> QED  BY <1>1, <2>1 DEF ShownIsOutput
<1>2. CASE Emit
  BY <1>1, <1>2 DEF Emit
<1>3. CASE Sweep
  BY <1>1, <1>3 DEF Sweep
<1>4. CASE PollDone
  <2>1. Pull /\ Finds(Content) /\ answer' = Answer("done", Extract(Content))
    BY <1>4 DEF PollDone
  <2> QED  BY <2>1, PollShows DEF Statuses
<1>5. CASE PollPrompt
  <2>1. /\ Pull /\ ~Finds(Content)
        /\ answer' = Answer("needs_input", ExtractPartial(Content))
    BY <1>5 DEF PollPrompt
  <2> QED  BY <2>1, PollShows DEF Statuses
<1>6. CASE PollTimeout
  <2>1. /\ Pull /\ ~Finds(Content)
        /\ answer' = Answer("still_running", ExtractPartial(Content))
    BY <1>6 DEF PollTimeout
  <2> QED  BY <2>1, PollShows DEF Statuses
<1>7. CASE PollSleep
  BY <1>7 DEF PollSleep, Nothing, ShownIsOutput
<1>8. CASE UNCHANGED vars
  BY <1>1, <1>8 DEF vars, logVars
<1> QED  BY <1>2, <1>3, <1>4, <1>5, <1>6, <1>7, <1>8 DEF Next

\* Every reachable state has its types: the log cursor stays within the log,
\* and the decoder holds back at most half a letter (sessions.py:98-104).
THEOREM TypeCorrect == Spec => []TypeOK
<1>1. Inv => TypeOK
  BY DEF Inv
<1> QED BY <1>1, InvInit, InvNext, PTL DEF Spec

\* However the log is cut into reads, no byte is lost or doubled, and a search
\* that starts _OVERLAP characters behind the last one misses no sentinel, as
\* long as the marker is at most one character longer (sessions.py:378-390).
THEOREM ScanExact == Spec => []ScanIsExact
<1>1. Inv => ScanIsExact
  BY DEF Inv
<1> QED BY <1>1, InvInit, InvNext, PTL DEF Spec

\* Whatever a command prints and however its log is cut into reads, an answer
\* shows what it printed: all of it when it is done and what was read of it
\* otherwise, whole, or cut to a beginning and an end that keep to the sizes,
\* counted in lines and characters as the code does (sessions.py:573-618).
THEOREM OutputShown == Spec => []ShownIsOutput
<1>1. Inv /\ ShownIsOutput /\ [Next]_vars => (Inv /\ ShownIsOutput)'
  BY InvNext, ShownNext
<1>2. Init => Inv /\ ShownIsOutput
  BY InvInit, ShownInit
<1> QED  BY <1>1, <1>2, PTL DEF Spec
=============================================================================
