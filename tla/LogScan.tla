------------------------------- MODULE LogScan -------------------------------
(***************************************************************************)
(* How sessions.py reads the log of one command: byte by byte on the host, *)
(* in chunks cut anywhere by the polls, decoded, searched for the sentinel *)
(* behind where the last search stopped, and cut to a head and a tail.     *)
(*                                                                         *)
(* A log is a sequence of units.  A unit is a byte; the two bytes of an    *)
(* accented letter are Lead and Cont.  The sentinel is cut anywhere, so it *)
(* is spelled out: its characters are 1 .. MarkerLen.  The start marker    *)
(* and a prompt, which no search can miss in part, are one unit each.      *)
(* Decoded text keeps Lead and Cont next to each other for the letter, and *)
(* any other Lead or Cont for the U+FFFD that replaces it.  Sep is any     *)
(* other separator of str.splitlines: \v, \f, \x1c to \x1e, \x85, U+2028   *)
(* and U+2029; those of more than one byte are read in one piece here.     *)
(***************************************************************************)
EXTENDS Integers, Sequences, FiniteSets, FiniteSetsExt, SequencesExt

CONSTANTS
    MarkerLen,   \* characters of __TAI_DONE__<exit>__<log_id>__, at most 45
    Overlap,     \* _OVERLAP, 64
    \* The code's names say _BYTES, but what it compares is len() of a str and
    \* what it cuts are slices of one: characters.
    FullLines, FullChars,   \* _FULL_THRESHOLD_LINES and _BYTES, 50 and 4096
    SideLines, SideChars,   \* _HEAD_MAX_ and _TAIL_MAX_, 50 and 2048
    MaxOut       \* bound: units that the command prints

ASSUME MarkerAssumption == MarkerLen \in Nat \ {0} /\ Overlap \in Nat
\* ~30 characters, says sessions.py:379; 45 with an exit code of three digits.
ASSUME OverlapAssumption == MarkerLen <= Overlap + 1
ASSUME SliceAssumption ==
    /\ {FullLines, FullChars, SideLines, SideChars, MaxOut} \subseteq Nat
    /\ SideLines <= FullLines /\ SideChars < FullChars

LF == -1
CR == -2
Char == -3
Lead == -4
Cont == -5
Ask == -6
StartMark == -7
Sep == -8
Blank == {LF, CR, Sep}

\* What a command can print: no exit and no log_id, so never the whole marker.
Printable == {LF, CR, Sep, Char, Lead, Cont, Ask} \cup (1 .. MarkerLen - 1)
Units == Printable \cup {MarkerLen, StartMark}

VARIABLES
    output,   \* what the command will have printed
    printed,  \* how many units are in the log
    swept,    \* the log sweep has removed the file
    offset,   \* state.log_offset
    held,     \* what state.log_decoder holds back
    text,     \* state.log_text
    scan,     \* state.scan_pos
    answer    \* what the last poll returned

logVars == <<output, printed, swept>>
vars == <<logVars, offset, held, text, scan, answer>>

\* The line that was typed, as the shell echoes it, with what the shell sends
\* before it runs the line.
Echo == <<Char, StartMark, Char, CR, LF, Char, CR>>
Marker == [i \in 1 .. MarkerLen |-> i]

\* All that comes into the log: the terminal turns a newline into CR LF.
Whole ==
    Echo \o <<StartMark, CR, LF>> \o output
         \o <<CR, LF>> \o Marker \o <<CR, LF, Char>>

Log == SubSeq(Whole, 1, printed)

Statuses == {"none", "done", "needs_input", "still_running"}

TypeOK ==
    /\ output \in Seq(Printable)
    /\ printed \in 0 .. Len(Whole) /\ swept \in BOOLEAN
    /\ offset \in 0 .. printed
    /\ held \in {<<>>, <<Lead>>}
    /\ text \in Seq(Units) /\ scan \in Nat
    /\ answer.status \in Statuses

Nothing == [status |-> "none", head |-> <<>>, tail |-> <<>>, truncated |-> FALSE]

Init ==
    /\ output \in UNION {[1 .. n -> Printable] : n \in 0 .. MaxOut}
    /\ printed = 0
    /\ swept = FALSE
    /\ offset = 0 /\ held = <<>> /\ text = <<>> /\ scan = 0
    /\ answer = Nothing

-----------------------------------------------------------------------------
(* The sentinel: ^marker\s*$ with re.MULTILINE.                            *)

LineStart(t, p) == p > 1 => t[p - 1] = LF
LineEnd(t, p)   == p < Len(t) => t[p + 1] = LF

SentinelAt(t, p) ==
    /\ p + MarkerLen - 1 <= Len(t)
    /\ LineStart(t, p)
    /\ \A i \in 1 .. MarkerLen : t[p + i - 1] = i
    /\ \E q \in p + MarkerLen - 1 .. Len(t) :
        /\ \A j \in p + MarkerLen .. q : t[j] \in Blank
        /\ LineEnd(t, q)

\* Mutant of ScanFrom: no overlap.
ScanFromLast == scan
ScanFrom == IF scan > Overlap THEN scan - Overlap ELSE 0

\* done_re.search(content, scan_from)
Finds(t) == \E p \in ScanFrom + 1 .. Len(t) : SentinelAt(t, p)

FindsPrompt(t) == t # <<>> /\ t[Len(t)] = Ask

-----------------------------------------------------------------------------
(* What is shown of it.                                                    *)

\* "\n".join(t.splitlines()), but for a newline at the end: a CR LF is a
\* newline, and so is any other CR and each of the other separators at which
\* splitlines cuts.  f[n] is what comes of the first n units.
Newlines(t) ==
    LET f[n \in 0 .. Len(t)] ==
            IF n = 0 THEN <<>>
            ELSE IF n > 1 /\ t[n] = LF /\ t[n - 1] = CR THEN f[n - 1]
            ELSE Append(f[n - 1], IF t[n] \in {CR, Sep} THEN LF ELSE t[n])
    IN f
Lines(t) == Newlines(t)[Len(t)]

Chomp(t) == IF t # <<>> /\ t[Len(t)] = LF THEN SubSeq(t, 1, Len(t) - 1) ELSE t

StartLines(t) ==
    {p \in DOMAIN t : t[p] = StartMark /\ LineStart(t, p) /\ LineEnd(t, p)}
DoneLines(t) ==
    {p \in 1 .. Len(t) - MarkerLen + 1 :
        /\ SubSeq(t, p, p + MarkerLen - 1) = Marker
        /\ LineStart(t, p) /\ LineEnd(t, p + MarkerLen - 1)}

\* Between the markers: lines[start_idx:end_idx], joined.
Extract(t) ==
    LET l == Lines(t)
        ends == {q \in DoneLines(l) : \E p \in StartLines(l) : p < q}
    IN IF ends = {} THEN <<>> ELSE SubSeq(l, Min(StartLines(l)) + 2, Min(ends) - 2)

ExtractPartial(t) ==
    LET l == Lines(t) IN
    IF StartLines(l) = {} THEN <<>>
    ELSE Chomp(SubSeq(l, Min(StartLines(l)) + 2, Len(l)))

\* Characters and lines of a text; a letter of two bytes is one character.
InLetter(t, i) == i > 1 /\ i <= Len(t) /\ t[i] = Cont /\ t[i - 1] = Lead
CharsOf(t) == Cardinality({i \in DOMAIN t : ~InLetter(t, i)})
LinesOf(t) ==
    Cardinality({i \in DOMAIN t : t[i] = LF \/ i = Len(t)})

SideFits(t) == LinesOf(t) <= SideLines /\ CharsOf(t) <= SideChars

\* _slice_output: all of it, or its longest beginning and end within the sizes.
Slice(t) ==
    IF LinesOf(t) <= FullLines /\ CharsOf(t) <= FullChars
    THEN [head |-> t, tail |-> <<>>, truncated |-> FALSE]
    ELSE LET cuts == {n \in 0 .. Len(t) : ~InLetter(t, n + 1)}
             last == Max({n \in cuts : SideFits(SubSeq(t, 1, n))})
             from == Min({n \in cuts : SideFits(SubSeq(t, n + 1, Len(t)))})
         IN [head |-> SubSeq(t, 1, last), tail |-> SubSeq(t, from + 1, Len(t)),
             truncated |-> TRUE]

Answer(status, shown) ==
    LET s == Slice(shown) IN
    [status |-> status, head |-> s.head, tail |-> s.tail,
     truncated |-> s.truncated]

-----------------------------------------------------------------------------
\* The pane writes one more byte.
Emit ==
    /\ printed < Len(Whole)
    /\ printed' = printed + 1
    /\ UNCHANGED <<output, swept, offset, held, text, scan, answer>>

\* _sweep_remote_logs finds a file that is old enough.
Sweep ==
    /\ printed > 0 /\ ~swept
    /\ swept' = TRUE
    /\ UNCHANGED <<output, printed, offset, held, text, scan, answer>>

\* What tail -c answers; it fails when there is no file.
Raw == IF swept THEN <<>> ELSE SubSeq(Log, offset + 1, Len(Log))

Fed == held \o Raw

\* The decoder keeps the first byte of a letter until the second one comes.
Kept == IF Fed # <<>> /\ Fed[Len(Fed)] = Lead THEN <<Lead>> ELSE <<>>

\* log_text with what is decoded now.
Content == text \o SubSeq(Fed, 1, Len(Fed) - Len(Kept))

\* Mutant of Pull: the offset counts what was decoded.
PullCountsDecoded ==
    /\ answer.status # "done"
    /\ offset' = Len(Content)
    /\ held' = Kept
    /\ text' = Content
    /\ scan' = Len(Content)
    /\ UNCHANGED logVars

\* _read_log, and the position up to which was searched.
Pull ==
    /\ answer.status # "done"
    /\ offset' = offset + Len(Raw)
    /\ held' = Kept
    /\ text' = Content
    /\ scan' = Len(Content)
    /\ UNCHANGED logVars

PollDone ==
    /\ Pull
    /\ Finds(Content)
    /\ answer' = Answer("done", Extract(Content))

PollPrompt ==
    /\ Pull
    /\ ~Finds(Content) /\ FindsPrompt(Content)
    /\ answer' = Answer("needs_input", ExtractPartial(Content))

PollTimeout ==
    /\ Pull
    /\ ~Finds(Content) /\ ~FindsPrompt(Content)
    /\ answer' = Answer("still_running", ExtractPartial(Content))

PollSleep ==
    /\ Pull
    /\ ~Finds(Content) /\ ~FindsPrompt(Content)
    /\ answer' = Nothing

Next == Emit \/ Sweep \/ PollDone \/ PollPrompt \/ PollTimeout \/ PollSleep

Spec == Init /\ [][Next]_vars

-----------------------------------------------------------------------------
\* Wherever the polls cut the log, a sentinel or a letter: the bytes read are
\* in the text or held back, each once; and the command is reported done if
\* and only if a search of the whole text would find its sentinel
\* (sessions.py:378-390, 443-449).
ScanIsExact ==
    /\ text \o held = SubSeq(Whole, 1, offset)
    /\ answer.status = "done" <=> \E p \in DOMAIN text : SentinelAt(text, p)

\* A finished command is shown by all that it printed, an unfinished one by
\* what was read of that so far, the sentinel's beginning included: either the
\* whole, or, if and only if it is longer than the threshold, a beginning and
\* an end that keep to the sizes (sessions.py:581-618).  The sizes are in
\* lines and in characters, the code's measure: of a text in letters of
\* several bytes as many times the bytes that output-capture/spec.md:21 and
\* 30-32 allow are returned whole, or kept on each side.
ShownIsOutput ==
    LET a == answer
        first == Len(Echo) + 4
        out == IF a.status = "done" THEN Lines(output)
               ELSE Chomp(Lines(SubSeq(Whole, first, offset - Len(held))))
    IN a.status # "none" =>
        /\ IsPrefix(a.head, out)
        /\ IsSuffix(IF a.truncated THEN a.tail ELSE a.head, out)
        /\ ~a.truncated => a.head = out
        /\ a.truncated <=> LinesOf(out) > FullLines \/ CharsOf(out) > FullChars
        /\ a.truncated => SideFits(a.head) /\ SideFits(a.tail)
=============================================================================
