----------------------------- MODULE SessionSlot -----------------------------
(***************************************************************************)
(* What sessions.py promises of the tracking of commands, without locks,   *)
(* state objects, logs and panes: a session is a slot for one command.  A  *)
(* session_run is accepted into an empty slot or told that it is busy; the *)
(* slot is emptied when the command is over or given up.  Who is told that *)
(* a session_run failed can rely on its slot, unless what failed is the    *)
(* record of it: that says nothing of the command.                         *)
(***************************************************************************)
CONSTANTS Calls, Sessions, None

VARIABLES
    slot,     \* slot[s]: the session_run whose command s tracks, or None
    waiting,  \* the calls that have not acted on their session yet
    answer    \* answer[c]: what session_run c was told, "none" so far

vars == <<slot, waiting, answer>>

Init ==
    /\ slot = [s \in Sessions |-> None]
    /\ waiting = Calls
    /\ answer = [c \in Calls |-> "none"]

\* The session s may give its command up; no other session does.
Drops(s) == slot' \in {slot, [slot EXCEPT ![s] = None]}

Answers(c, a) == answer[c] = "none" /\ answer' = [answer EXCEPT ![c] = a]

Accept(c, s) ==
    /\ c \in waiting /\ slot[s] = None
    /\ slot' = [slot EXCEPT ![s] = c]
    /\ waiting' = waiting \ {c}
    /\ UNCHANGED answer

Refuse(c, s) ==
    /\ c \in waiting /\ slot[s] # None
    /\ Answers(c, "busy")
    /\ waiting' = waiting \ {c}
    /\ UNCHANGED slot

\* A wait, a kill or a reset acts, or a session_run that has its answer.
Act(c, s) ==
    /\ Drops(s)
    /\ waiting' \in {waiting, waiting \ {c}}
    /\ UNCHANGED answer

\* Done, waiting for input, or still running.
Tell(c, s) ==
    /\ c \notin waiting
    /\ Answers(c, "result")
    /\ Drops(s)
    /\ UNCHANGED waiting

\* The record of an accepted command fails: the caller is told no result, and
\* the session tracks it on, if it still does.
TellUnrecorded(c) ==
    /\ c \notin waiting
    /\ Answers(c, "unrecorded")
    /\ UNCHANGED <<slot, waiting>>

\* A session_run that fails is not what its session, or another, tracks.
Fail(c, s) ==
    /\ Answers(c, "failed")
    /\ Drops(s)
    /\ \A t \in Sessions : slot'[t] # c
    /\ waiting' = waiting \ {c}

Next ==
    \E c \in Calls, s \in Sessions :
        \/ Accept(c, s) \/ Refuse(c, s) \/ Act(c, s)
        \/ Tell(c, s) \/ TellUnrecorded(c) \/ Fail(c, s)

Spec == Init /\ [][Next]_vars
=============================================================================
