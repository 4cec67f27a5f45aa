# Verification of tai-mcp-ssh

TLA+ specifications of `src/src/tai_mcp_ssh`, the TLC configurations that check
them on small instances, and theorems that TLAPS proves for every instance.
File names below are relative to that package; documents are under
`src/openspec/specs`.

## The system

tai-mcp-ssh is one asyncio process that serves MCP tools over stdio. A client (an
LLM) calls `hosts`, `session_run`, `session_wait`, `session_kill`,
`session_reset`, `session_list`, `put` and `get`; the MCP SDK runs each call as
a task of its own and may cancel it. Nothing is parallel but the threads of the
audit writer and the keychain; everything is concurrent, because a call gives
way at each `await`. The state between two awaits is therefore what one call
can find changed by another. The CLI is a second program: it shares
`hosts.toml` and the keychain with the server and with other copies of itself.

| Component | State | Operations | Uses | What makes it correct |
|---|---|---|---|---|
| SessionManager (`sessions.py`) | `_sessions`: session id -> state object (command in flight, log offset, buffer, scan position); `_locks` | run, wait, kill, reset, list | pool, audit, remote tmux | one command per session; a result is of the command it names; a failed call leaves no ghost; every byte is read once |
| Output capture (`sessions.py:365-618`) | offset, decoder, text and scan position of a state object | read, find the sentinel, detect prompts, extract, slice | connection | the sentinel is found in any chunking; what is shown is what was printed; head and tail bound the answer |
| ConnectionPool (`ssh.py:159-363`) | `_connections`, `_ready`, `_locks`, the allowlist, `_last_maintenance` | get, update_hosts, close_all | asyncssh, keyring | one open transport per alias, none leaked, none served before its bootstrap, none with old parameters after a reload |
| Maintenance (`ssh.py:365-514`) | tasks in flight | log sweep, reap idle sessions | connection, tmux | at most hourly; kills only idle sessions; records what it killed |
| TransferManager (`transfer.py`) | none between calls | put, get | pool, SFTP, local files | size and digest are of what was transferred; a transport that was reported dead is not used again |
| AuditLog (`audit.py`) | per-host lock and open file | record, sweep, close | threads, files | a returned record is in the files once, in the order of the calls, and not in the file of an earlier day |
| Configuration (`config.py`) | `hosts.toml` | load, save_host, delete_host | files shared with the CLI processes | no update lost |
| CLI (`cli.py`) | none | hosts add/remove/list/test, audit tail | config, keychain | keychain and file agree |
| Server (`server.py`) | `Services` | dispatch, audit of failures, reload, close | all of the above | no record forgotten, none doubled |

How they interact: every session call and transfer starts with
`ConnectionPool.get`; a transport error marks the `Connection` dead, and the next
`get` evicts it. `hosts` swaps the allowlist and evicts what changed. A command
is typed into a tmux pane whose output `pipe-pane` appends to a file per command
on the remote host; polls read that file until the sentinel of the command
shows up. A `get` of the pool may start a maintenance task, which sweeps these
files and kills idle panes by name. Managers write the audit record of what they
did, and the server that of a call that raised.

What is hard: two polls of one session; a poll without the lock next to a reset
or a new command; the failure of an old call that cleans up after a newer one; a
network drop, after which the remote command lives on; a call cancelled between
two sends; a record that fails after the act it records; a bootstrap that fails
half way; a reload that waits for locks while calls go on; a pane that was idle
when listed and is in use when killed; a read that ends inside the sentinel or
inside a letter; two programs that rewrite one file. `PROJECT.json` lists each
hazard at its line with the properties that watch it.

## Modules

| Module | Models |
|---|---|
| `RemoteHost` | external: one host with tmux panes, the shell in each, log files and the transport, as `sessions.py` uses them |
| `SessionManager` | run, wait, kill and reset of `sessions.py`, with the failure audit of `server.py`, on `RemoteHost` |
| `SessionSlot` | abstract: what the tracking of commands promises |
| `LogScan` | one log, read in chunks: decoding, sentinel search, extraction, slicing |
| `ConnectionPool` | `ConnectionPool` of `ssh.py`, the reload of `server.py`, the clients' cancellations, network faults |
| `Reaper` | one maintenance run of `ssh.py` on one host, with the panes and who uses them |
| `Transfer` | `transfer.py` with the failure audit of `server.py` |
| `AuditLog` | `audit.py` for one host: coroutines, worker threads, daily files, the process |
| `HostsFile` | `hosts add` and `hosts remove` of `cli.py`, the file access of `config.py`, the keychain |
| `SessionManagerProofs`, `ConnectionPoolProofs`, `LogScanProofs`, `ReaperProofs`, `TransferProofs`, `AuditLogProofs`, `HostsFileProofs` | theorems and proofs about the module they are named after |
| `SessionPollsProofs` | on top of `SessionManagerProofs`, what needs a client that restrains itself: the polls, and the panes |
| `MCSessionManager`, `MCConnectionPool` | symmetry for TLC |

### SessionManager and RemoteHost

`Calls` is both the set of tool calls and the set of what they mint: a
`session_run` creates one ULID, hence one command, one log file and at most one
state object, all named by the call. `registry`, `obj` and `lock` are
`_sessions`, the `_SessionState` objects and `_locks`. State objects are kept
apart from the registry because the coroutines hold references to them: a call
whose session was forgotten still reads and clears its old object. `frame` holds
the local variables that survive an await (`state`, `conn`, `log_id`, the
file and offset of the read in flight), `pc` the await at which a call is
suspended.

An action is what a call does from one suspension to the next. The three sends of
`_send_command` are three actions, a poll is the read (`reading`), the sleep and
the record. A remote command takes effect when its answer arrives, except
`kill`, where the two are apart (`KillRemote`, `KillForget`) because `kill` has
no lock. A run that finds the state it polls cleared raises, as the assertions
of `sessions.py` do.

A cancelled call (`Cancel`) stops at its await. `CancelledError` is no
`Exception`, so nothing is rolled back, forgotten or recorded; only `async with`
gives the lock back. The remote command in flight takes effect at that moment or
never (`Arrived`), a record in flight is written or not. Such a call is at `cut`. When a
record raises (`RecordFails`, the fault `disk`), the call raises before what
follows the record, and the server records the failure if it can: its result is
`unsaved`. If it was the flush that raised, the line of the record stays in the
buffer of the file (`audit.py:158-159`), and the next record of the host takes it
along; `audits` counts it from then on, so such a call may have two.

Abstractions: a log is a sequence of tokens (output, prompt, sentinel of a
command), and a token is never cut in two (`LogScan` cuts them); the 64
characters by which a search starts behind `scan_pos` are the choice
`behind \in {0, 1}`, since a short token may be seen again and a long one not.
The running program may print, prompt, end, be answered by a human, or replace
the shell (`exec`). A prompt flushes what was typed ahead, as `sudo` and `ssh`
do. Lock waiters are served in any order, and a call may be interrupted between
`pool.get` and the lock even where the code does not suspend: both only add
behaviours. `Get` of `RemoteHost` is what callers see of the pool: the cached
transport, or a new one.

### SessionSlot

The promise behind `_sessions`, without locks, objects or panes: a session is a slot
for one command. `Accept` puts a run into an empty slot, `Refuse` answers `busy`
from a full one, `Act` and `Tell` may empty the slot of their session, `Fail`
leaves no slot with the command that failed. `TellUnrecorded` is a run that was
accepted and raised because its record did: it says nothing of the command, and the
slot stays as it is. `SessionManager` defines the mapping
(`Slots`, `Unacted`, `AnswerOf`) and `ImplementsSlot`; TLC checks it, TLAPS
proves it.

### LogScan

One command and one reader. A log is a sequence of units: bytes, of which
`Lead` and `Cont` make up one letter, and the sentinel spelled out character by
character, so that a poll can cut either anywhere. `Whole` is all that comes into the log: the
echo of the typed line, the start marker, the output with CR LF for newlines,
the sentinel, the next shell prompt. `offset`, `held`, `text` and `scan` are `log_offset`, what `log_decoder`
holds back, `log_text` and `scan_pos`. `Pull` is `_read_log`; the four `Poll`
actions are the ways out of the loop of `_poll`. The sentinel is found by the
regular expression's meaning (`SentinelAt`: at the start of a line, followed by
blanks up to the end of one), from `ScanFrom` on. `Sep` is any other character at which
`str.splitlines` ends a line (`\v`, `\f`, `\x1c` to `\x1e`, `\x85`, U+2028, U+2029): it
begins no line for the regular expression but does for the extraction. The sizes are
in characters, which is what the code counts under the names `_BYTES`. `Extract`, `ExtractPartial` and
`Slice` are the functions of the same names. The output ranges over all
sequences of `Printable` units up to a length: newlines, carriage returns, whole and broken
letters, a prompt, and parts of the sentinel, which a command can print by accident. It
cannot print the whole, whose `log_id` it does not know. The start marker and
a prompt are one unit each: they are looked for in the whole text each time.
The code strips no ANSI sequences, so there is nothing to model there.

### ConnectionPool

A get names the `Connection` it opens. `conn[c]` records the edition of the
`Host` it was opened with (each edit of an entry gives it parameters it never
had), whether the bootstrap ran on it, and its `_dead` flag. A free lock that
nobody waits for is taken without a suspension, as asyncio does: `Enter` is the
whole of `get` up to its next await, in whichever of the four ways it goes. The
awaits are the close of a transport (`evict`, `abort`, `close`), the keychain and
connect (`open`), and the bootstrap, whose three round trips are one suspension
(`ready`). A reload swaps the allowlist in the step that reads the file and then
visits the aliases in any order, since `evict` is a set. Reloads overlap and are
cancelled like gets. A cancelled call gives its lock back where it stands.
`close_all` runs when no call is left. `runs` records when maintenance was
started; what it does is `Reaper`.

### Reaper

A pane has a pid, a program in the foreground or not, a background job or not;
a session lives while it has panes. The maintenance task (`pc`) sweeps, records,
lists the panes (`rows`, what `list-panes` answered, with ages by the clock of
the host), judges them (`Candidates` is `select_idle_sessions`) and sends one
command. That command (`remote`) is a process of its own on the host: for each
candidate one `pgrep` per listed pid, then `kill-session` by name. It runs on when
the transport, or the server, is gone. Between any two of these steps shells
start and end programs, sessions are created, attached, killed, and `hosts`
reloads the timeout. `held`, `watched`, `calm` and `victims` are history: what a
killed pane was doing. Every session starts at its prompt at moment 0; the moves lead to all
other states. Pids are not used again.

### Transfer

Two files, one on each side; a call copies one to the other chunk by chunk. A
chunk is the version of the file it comes from and its place in it, so a mixture
is told from a copy. `pc` is the await: `connect`, `open` (the SFTP channel and the
remote file), `write`, `read`, `close`, `record` (the manager's record), `fail` (the
server's). `gen`, `up` and `marked` are the transport of the pool, whether it works, and
whether `mark_dead` was called on it. A lost transport is noticed as one of
`DEAD_CONN_ERRORS`, which marks it, or as an `SFTPError` of asyncssh's own, which does
not: the next transfer gets it. A permission error (`Denied`) may come from any
await, after the destination was truncated or written in part. A record that raises
leaves its line in the buffer as in `SessionManager`. A transfer that was cancelled, or
whose failure could not be recorded, is at `cut`. A local error is
an `OSError`, which is one of `DEAD_CONN_ERRORS` (`LocalFails`). The
confinement of the destination is one choice in `Start`.

### AuditLog

A record is named after the call that writes it, and a file handle after the
record whose thread opened it. The coroutine (`pc`) and its worker thread
(`thread`) are two processes: the lock belongs to the coroutine, so a cancelled
record gives it back while its thread goes on. A thread looks at `state.file`
anew at each step, as the code does, and finds `None`, a closed file or the file
of another thread there when its coroutine was cancelled or `close` ran. A
replaced file loses its last reference, and the interpreter flushes and closes
it. The clock counts UTC days; `begun` remembers the order in which `record` was
called. A flush that fails leaves its line in the buffer. Lock waiters are served
first come first served, as `asyncio.Lock` does. The files of one host are
written by one process here; redaction and the JSON text are left out, and so is
a line cut in two by a full disk. `sweep_retention` runs before any call, so it
is part of the start of a process; its own record goes to `_system`.

### HostsFile

A process is one `hosts add` or `hosts remove`. A step is one access to the file or
the keychain: `add` stores the password, reads the file, truncates it, writes
it; `remove` reads it, asks, reads it again, truncates, writes, and wipes the password.
`view` is the copy of the hosts that the process has in memory. Of an entry only the
auth method is kept. `parses` is FALSE when two writers left a torn file. A
command may die anywhere, find the keychain locked, or write to a full disk. The history
variables tell what was asked for (`intended`), which hosts a remove took out of the
file (`gone`, from the write on), whose wipe the keychain refused or a death
prevented (`left`), and who was in each other's way (`raced`, `mixed`,
`contended`, `wiped`).

## Runs

Deadlock is not checked: every set of calls is finite, so the system stops when
they are done.

| Run | Bounds | Question |
|---|---|---|
| `sessions_any` | 3 calls of any tool, 1 session, 2 faults of drop, reboot, delist, cancellation, failed record; programs print their sentinel only | what holds whatever overlaps; is every step one of the slot |
| `sessions_polls` | 3 calls, waits and resets not overlapping others, 1 fault of drop, reboot, delist, outside kill, exec; 1 token besides the sentinel | are cursor, sentinel and assertions right with one poller |
| `sessions_serial` | 3 calls, 2 sessions, only runs overlap, no resets, 1 fault of outside kill, exec, cancellation, failed record | is a busy pane always tracked |
| `sessions_live` | 2 calls of any tool, 1 fault of drop, reboot, cancellation, failed record; fairness | does every call end |
| `log_scan` | every output of up to 3 units; a sentinel of 3 characters, an overlap of 2; at most 2 lines and 2 characters shown whole, else 1 and 1 at each end | is the sentinel found exactly when it is there, and is what is shown what was printed |
| `pool_faults` | 3 gets, 1 reload, 2 faults of any kind, 1 edit, 4 moments with an interval of 2 | no leak, no unready connection, no disturbance, throttled maintenance |
| `pool_reload` | 2 gets, 2 reloads that may overlap, 2 aliases, 1 fault of any kind, 1 edit; fairness | do allowlist and connections agree, and does every call and reload end |
| `reaper` | 2 sessions, 3 moves of shells and humans, timeouts 0 and 1, 3 moments, 2 faults of drop, tmux, pgrep, audit, exit; fairness | is only the idle reaped, all of it, and recorded |
| `transfer` | 2 calls in any directions, files of 2 chunks, 1 rewrite, 2 faults of 7 kinds; fairness | are copy, size, records and transport right, and does every transfer end |
| `audit_log` | 2 calls and 1 maintenance record, 2 days, 2 faults of cancellation, crash, failed open, full disk; fairness | is each record kept, once, in order, in the right file, and does it end |
| `hosts_file` | 3 commands, 2 aliases, 1 fault of crash, keychain, disk | is no update lost, and do file and keychain agree |
| `doc_drop` | 3 runs, 1 drop | a statement of the documents that the code does not keep (below) |

Why these bounds are enough to meet the hazards: the races are between two calls
and the third that finds what they left (a stale object, a busy pane, a cached
connection, a listed host); one fault is enough to leave something behind, and
where recovery is a case of its own there is a second. `MaxLog` bounds what a
program prints besides its sentinel; one token is enough for a poll to find
something other than the end. A sentinel of three characters has a beginning, a middle and
an end to be cut at, and an overlap of two is the least that may work. Two chunks are a first and a
last one. Two days are one rollover and, with a retention of 0 days, one file to
sweep. Three moves let a session be killed, recreated and used. Every property is
paired in `PROJECT.json` with a plausible bug of the code (a lock given back
early, a rollback left out, an eviction that keeps the ready flag, an offset
that counts characters) that makes TLC refute it.

Fairness (`LiveSpec`) is weak fairness of each call's next step (in `AuditLog`, of
the coroutine and the thread of each record; in `Reaper`, of the task, and of the kill
command while the host can be reached) and of the expiry of a poll's timeout.
The event loop resumes every task whose awaitable is done; a round trip over a
dead transport ends by the keepalive of `ssh.py:290-293`; the clock advances.
Nothing is assumed of the remote program, the human, the network or the client.
Locks are given to a waiter that can take them, and every holder gives them
back, which is the content of `CallsReturn`, `TasksEnd` and `RecordsEnd`. These
properties are `<>[]`: the calls are finitely many, and at some moment the last
one has ended.

## What holds

Sessions, for any overlap of calls: no call types or presses Enter between the
two `send-keys` of another (`OwnKeystrokes`); a reset discards only the command its
record names (`ResetClearsWhatItAudited`); a run that raised is not what makes its
session busy, unless what raised was its record (`NoGhostBusy`); a `done` of
`session_run` carries the exit of its own command (`RunExitIsOwn`); a call that
ended after it acted, was rejected or failed has a record, and a second one only if a
record of it raised (`AuditOnce`); the tracking of commands is that of the slot
(`ImplementsSlot`).

With one poller per session: the assertions hold, a `done` is of the command it
names (`OwnSentinel`), the buffer is the log up to the offset (`CursorExact`),
and, unless a call is cancelled or a record fails, no sentinel is passed over
(`NoMissedSentinel`). While the transport lives and nothing is killed or reset
under a run, a pane that runs a command is tracked as busy with it
(`BusyPaneIsTracked`), so commands are serialised. These are properties of that
client; what breaks them for another is under Proofs and below.

Log: however the reads cut it, every byte is in the text or held back, once, and a
command is reported done if and only if the text read so far holds its sentinel (`ScanIsExact`); what
is shown is the whole output, or a beginning and an end of it within the sizes,
exactly when it is longer than the threshold (`ShownIsOutput`), all sizes in lines and
characters.

Pool: every open transport is the cached one of its alias (`OpenIsCached`);
served connections are bootstrapped (`ServedIsReady`); maintenance starts at most
once an interval (`MaintenanceThrottled`); a reload leaves calls on unchanged
aliases alone (`UnchangedUndisturbed`). While reloads neither overlap nor are
cancelled, the cache follows the allowlist (`CachedIsCurrent`) and calls made
after `hosts` get the new parameters (`ReloadTakesEffect`).

Maintenance: no listed pane is killed that had a child since before the kill
command, a client since the listing, or activity within the timeout
(`OnlyIdleIsReaped`); an `ok` record names what was killed (`RecordTellsKills`)
and leaves no idle session that nobody touched (`IdleIsReaped`).

Transfers: a finished copy is what was digested, and that is the source, unless
someone else wrote one of the files meanwhile (`CopyIsWhole`); the reported size is that of the digested bytes, for a put only while nobody writes its
source (`SizeIsOfDigest`); a transfer that ended has a record, and a second one only
if its record raised (`AuditOnce`); a transport over which a transfer was answered
`unreachable` is given to no later one (`ReportedNotServed`), one that was lost with an
`SFTPError` is (below).

Audit: no record is in the files twice, and a returned one is there, whatever
was cancelled, crashed or rolled over, but for a full disk next to a
cancellation (below); while nothing is cancelled the sweep spares it (`Durable`).
Every `record` ends (`RecordsEnd`). While nothing is cancelled, the lines of a host stand in the
order of the calls although the stamp is taken before the lock, none in the file
of a day before its stamp (`LinesInOrder`), and no tool call finds its file
closed by maintenance or shutdown (`NoCallFindsItsFileClosed`).

Configuration: while no command reads the file under the write of another and no
write is interrupted, no add or remove is lost (`UpdatesKept`); a listed password
host has its password whatever crashes (`ListedHasSecret`); a host that a remove took
out of the file stays out until it is added again, and its password is gone, or
about to be wiped, unless the keychain refused or the process died just then
(`RemovedIsGone`); and without a fault no password is left that cannot be
removed (`SecretIsRemovable`). The last three are about aliases for which no two
commands overlapped.

## Where documents and code disagree

Shown by a run, `doc_drop`: a dropped network is taken for a dead tmux server
(`sessions.py:201-203`); the forgotten command still runs, and the next one is
typed into its pane. The document wants commands serialised.

Seen while modelling, not given a run.

Sessions and their logs:

- `session_reset` during a poll makes an assertion of `_poll` or `_read_log`
  fail, since polls take no lock (`sessions.py:373-374`, `432`).
- A poll that is overtaken by another poll and a new command reports the exit of
  the old command under the `log_id` of the new one; two polls of one session
  break the cursor (`CursorExact` fails when waits overlap).
- A late `HostUnreachable` forgets a newer command (`sessions.py:217`). After a
  reboot this takes four calls on two sessions: a poll that has not noticed, a
  run elsewhere that marks the transport dead, one that forgets the session, and
  one that uses it anew; then the poll fails and forgets that one.
- A `session_run` cancelled during its sends leaves the session busy with a
  command that may never have been entered; a half-typed line is joined with what
  the next command types (`sessions.py:190`).
- When the record at `sessions.py:395` fails, the scan position is past the
  sentinel and the state is not cleared: later waits say `still_running` for ever.
- `session_kill` of a delisted alias raises `HostNotAllowed` before the cleanup
  that its comment calls unconditional (`sessions.py:223-230`).
- A busy `session_run` is not audited (`sessions.py:173`), against
  `remote-sessions/spec.md:98`: "the rejection SHALL be audited". `AuditOnce` says
  nothing of such a call.
- A record whose flush raised stays in the buffer, and the record of that failure
  takes it along: two records of one call, against `audit-log/spec.md:52`
  (`audit.py:158-159`, `server.py:388-400`).
- A call on an alias that is not in the allowlist is recorded under that alias
  (`server.py:383`), not under `_system` as `audit-log/spec.md:56` wants.
- `session_wait` on an idle session returns an empty result
  (`sessions.py:496-506`, `remote-sessions/spec.md:90`).
- A log swept while its command still runs quietly never shows the sentinel.
- A start marker that does not begin a line (a background job printed before it
  without a newline) is not found, and the output is reported as empty.
- `_extract_partial_output` shows the beginning of a sentinel that was cut.
- The sizes of `_slice_output` are called bytes, and `output-capture/spec.md:21` and
  `31-32` give them in KB, but the code counts characters (`sessions.py:613-617`): of
  letters of several bytes as many times that is shown. Head and tail overlap when the
  output is just over the threshold.
- The sentinel has up to 45 characters, not the ~30 of the comment at
  `sessions.py:379`; the overlap of 64 is enough for it.

Pool and maintenance:

- A second `hosts` during the first one's evictions returns at once, and the next
  call gets a connection with the old parameters; a cancelled `hosts` leaves
  connections that no later reload evicts; a reload may close a connection opened
  after its swap (`ssh.py:257-260`).
- A get whose alias is removed while it waits for the lock fails with `KeyError`
  (`ssh.py:273`).
- The kill is by name: a session that was killed and created again since the
  listing is reaped while it runs a command, for the listed pids have no
  children. A shell busy with a builtin looks idle, and a client that attaches
  after the listing saves nothing. A malformed row leaves its pane unchecked.
- When the `ok` record of the reaper cannot be written, the error record names no
  killed session although there were some; when both records of the sweep
  fail, nothing is reaped.

Transfers:

- A full local disk or an unreadable file raises `OSError`, one of
  `DEAD_CONN_ERRORS` (`ssh.py:60`, `transfer.py:107`): a working connection is
    marked dead, and the caller is told that the host is unreachable.
- A transport that dies under a transfer as an `SFTPError` (`SFTPConnectionLost`) is
  taken by the first handler, which raises it without `mark_dead` (`transfer.py:90-94`,
  `197-199`): the next call is handed the corpse that the comment at
  `transfer.py:108-111` says it is not.
- A permission error is a rejection whichever await raises it: a `rejected` transfer
  may have truncated its destination or written a part of it.

Audit:

- A cancelled `record` gives the host lock back while its thread writes
  (`audit.py:105`), so that, against `audit.py:8` and `:85`, two writes to a host
  overlap: at midnight one may close the other's file, or a line of the new day
  land in the file of the old one.
- When a thread rolls the file over between the write and the flush of another,
  and its close fails on a full disk, the buffered line is lost; a third thread
  may open a file in time for the flush, which then finds nothing to do, and the
  call returns without its record. This takes two cancellations and a full disk.

Configuration:

- A reload that reads `hosts.toml` between the truncation and the write sees an
  empty allowlist and evicts everything; a crash or a full disk there loses all
  hosts; commands that race lose updates or leave a torn file.
- A crash or a locked keychain leaves a password that `hosts remove` refuses to
  remove, as the host is not listed any more; `hosts add` with a key over a password
  host leaves its password.

## Proofs

Every proof uses the named assumptions of its module (`NoneAssumption`,
`TasksAssumption`, `DisjointAssumption`, `NumbersAssumption`, `FaultsAssumption`, `NamesAssumption`, `OverlapAssumption`, the typing of the
constants) and no bound: the theorems hold for any number of calls, sessions,
faults, chunks and commands.

`SessionManagerProofs` proves `TypeCorrect`: `Spec => []TypeOK`, by one lemma for
the steps of the remote host and one for each group of steps of a call.
`TypeOK` contains what a call needs when it is resumed (`CallHas`): a session, a
state object, a file to read.

It proves `KeystrokesOwned`, `ResetExact`, `RunExitOwned`,
`FailedRunLeavesIdle` and `RecordsCounted`. None of the five properties is
inductive; `Inv` adds:

- `LockOwned`: a call inside `async with lock` is the one the lock names. Hence
  two calls are never both between claiming and entering, which keeps the
  keystrokes together;
- `AllFresh`, `ObjectsAtHome`, `TracksOnce`: a state object stays with one session,
  and a command is tracked by one object, the one its run claimed. The registry
  may forget the object, but no other call can bring the command back;
- `ClaimKept`: a claimed object names its claimant or was cleared;
- `WatchOwn`: a run looks for its own sentinel;
- `RaisedEnds`: where a call that raised is;
- `Accounted`: how many lines a call has at each await. A call whose record raised
  has at most its own (`Buffered`) until the server writes, any other none (`Counted`).

Each invariant is preserved by the steps of one call (`Resume`), shown after a
lemma on what such a step leaves alone (`ResumeKeepsOthers`) and how the lock
changes hands, and by the steps of the host and the client.

The last theorem is `SlotImplemented`, `Spec => ImplementsSlot`: with that invariant
and `Unanswered` (a run has no result before it is over or about to be recorded), each step of `SessionManager` is a step of the slot under the mapping or leaves it alone.

`SessionPollsProofs` proves what the client must help with, each theorem under
assumptions on the constants `Overlapping`, `Ops` and `Faults` that its statement
names. `NoAssertionFails`, `SentinelsOwned` and `CursorsExact` need `OnePoller`:
the client awaits a wait or a reset before its next call on that session; runs and
kills may overlap as they like, and every fault may strike. The three properties are proved
together, as parts of `PollInv`, which adds to `Inv`

- `Apart`: of two calls that are outstanding on a session, both are runs or
  kills;
- `AllTrack`: the object on which a call sends or polls tracks the command it
  works for. With `Apart` and `ClaimKept` this makes a worker the only one on its
  object (`SoleWorker`), the lemma that every other step rests on: what a
  suspended poll knows of its object is still true when it is resumed;
- `ReadExact`: a read in flight asks for what follows the text pulled so far,
  hence `CursorExact` after it;
- `IdleClean`, `AllScanned`, `Unclaimed`: an object without a command is as new,
  no text waits to be scanned, and no one refers to an object before it is claimed.

A step of a call bears on polls in one of six ways (`PollStep`: it leaves, sends,
begins to poll, wakes, takes an answer in, or claims), and each invariant is proved
from these rather than from the two dozen actions.

`SentinelsSeen` (`NoMissedSentinel`) also needs `RecordsWritten`, no cancelled call and no
failed record. Its invariant `Announced`: when the text of an object holds the sentinel of its command, a
call is about to record just that. A call cut off there leaves the text
scanned, the state uncleared, and no one to tell.

`BusyTracked` (`BusyPaneIsTracked`), with the corollary `PanesSerial` that a pane has one
command at most, needs `RunsOverlap`, `NothingReset` and
`TransportLives`. Outside kills, `exec`, cancellation and failed records are allowed.
`BusyInv` adds to `PollInv`

- `OneCommand`: what is typed or runs in a pane is the one command its session
  tracks; `DeadEmpty`: there is nothing in a dead pane;
- `AllInTurn`: a command is in no pane before its call typed it, nor after its
  sentinel was written, so that a cleared state leaves an empty pane;
- `SendsTracked`: the session keeps the object of a run between its sends, for
  nobody else can forget it;
- `DoneLogged`, `ForgetDead`: what is about to be cleared has printed its
  sentinel, and what is about to be forgotten has no pane;
- `NetUp`: every call has the one transport, and it lives.

TLC violates the properties without these assumptions: `OnePoller` with a wait or
with a reset that overlaps, `RecordsWritten` with either fault, `RunsOverlap`
with a kill or a wait, `NothingReset`, and `TransportLives` with each of its
faults (a reboot needs four calls on two sessions).

`ConnectionPoolProofs` proves `TypeCorrect`, `NoTransportLost`, `ServedReady`,
`Throttled`, `CacheFollows`, `ReloadSeen` and `OthersUndisturbed`. That an open transport is the cached one is not inductive: a call
that opens must know that nothing was cached while it waited. `Inv` adds

- `LockOwned`: a task suspended inside `async with lock` is the one the lock names,
  so at most one task per alias is there;
- `Emptied`: a task that evicts, opens or gives up finds nothing cached for its
  alias until it is resumed, as no other may store there without the lock;
- `CachedIsOpen` and `Unopened`: what is cached was opened for that alias and not
  closed, and a call has no transport before its connect is answered;
- `ReadyHasHome`: the ready flag of an alias vouches for the connection cached
  now. With `Emptied` it follows that a newly opened connection never meets a
  ready alias: the branch of `get` that would serve it at once is dead.

`Throttled` adds that what was recorded as the last start is the latest one
(`LastIsLatest`); only `Serve` starts maintenance (`MaintenanceSteps`).

For the reloads a second invariant, `Order`, adds

- `Settled`: while reloads are orderly, a connection that is cached or being
  opened has the parameters of the allowlist or waits for an eviction, and is in
  no case older than what finished reloads read. A connect that was under way when
  the allowlist was swapped is the hard case: its alias is in what the reload has to
  evict, and the reload cannot pass it before the lock is given back;
- `OneReload`: an orderly reload is alone, so at its end nothing waits any more;
- `Editions`, `Noted`: the allowlist is the present or a past `hosts.toml`, and what
  a call noted as it began lies in the past;
- `ServedHome`: who was given a connection that is cached still finds its alias
  ready, hence a bootstrap that fails closes nobody else's connection.

A reload goes on from what it has put in force (`Revised`): the swap establishes
that (`SwapRevises`), the end of each eviction keeps it (`GoesOn`), and both the
visit of an alias and the end of the reload use nothing else.

`LogScanProofs` proves `TypeCorrect`, `ScanExact` and `OutputShown`. `Inv` is `TypeOK`,
`ScanIsText` (the scan position is the length of the text) and `ScanIsExact`.
The step is in `SearchFromOverlap`: when no sentinel was in the text before, one in
the longer text ends behind the old length, so it starts behind `ScanFrom`; that needs the marker to be at
most one longer than the overlap, `OverlapAssumption`. The rest is that the decoder
loses nothing (`DecoderKeepsAll`) and that a read continues where the last one
ended (`RawContinues`).

`OutputShown` needs no invariant of its own besides: the poll that answers establishes
`ShownIsOutput`, no other step touches what it is about. The
text of a poll is a beginning of `Whole` (`HeldBack`). What `Newlines` makes of a text
is proved by induction on its length, by way of a smallest counterexample, which exists
because the natural numbers are well founded (`LeastNumber`, `Induction`). So lines are put together as their texts are, unless a cut falls
between CR and LF (`LinesJoin`), and no cut between header, output, newline, sentinel and
what follows does. Of a command that is not done, what follows the header is
shown (`UnfinishedShown`); of one that is, the start marker stands only at its
place (`StartFound`), the last character of the sentinel only in the sentinel
(`WholePositions`, `DoneShape`), so what is between them is the output's lines
(`FinishedShown`). `SliceShows` adds that the cut is a beginning and an end that fit; nothing at
all is one, so the longest exists.

`ReaperProofs` proves `TypeCorrect`, `OnlyIdleReaped`, `KillsRecorded` and
`IdleReaped`. `Inv` adds that a listed pid still means the listed pane
(`PidsTell`), that every candidate was judged idle (`Judged`), that a held pane
still has its child (`HeldHasChild`), so that `pgrep` finds it and a cleared pid is not held (`Cleared`), that
what is printed was killed (`Printed`), and that a session nobody touched is
still to be looked at (`CalmIsTodo`).

`TransferProofs` proves `TypeCorrect`, `CopyWhole`, `SizeReported`,
`RecordsCounted` and `DeadNotServed`. The invariant says how far a
transfer is (`Progress`: what was read is in the digest, and at the destination
unless someone else wrote it), where a call that ended stands (`Ended`), and that
a transport over which `unreachable` was answered is not, or no longer, the one that is handed out (`DeadAreMarked`). A frame lemma (`Aside`)
says what the step of one call leaves of another.

`AuditLogProofs` proves `TypeCorrect`, `RecordsDurable`, `LinesOrdered` and
`CallsFindFile`. `Typing` completes `TypeOK`: who waits is in the queue once, and a
thread is that of a coroutine that holds the lock or was cancelled. Whatever is
cancelled, `Inv` says

- `OnlyFileOpen`: the only open handle is that of `state.file`, and only its
  buffer holds lines;
- `Unopened`, `Unwritten`, `OnePlace`: a record is nowhere before its thread
  writes, and after that in one place of one buffer or one file: no flush, failed
  flush or close doubles it;
- `Kept`: between its write and its flush the line is in the buffer or on the
  disk, after it on the disk (here the full disk next to a cancellation must
  be excluded);
- `BegunOnce`, `FirstCome`: who waits, holds the lock or has ended stands in the order in
  which `record` was called;
- `Past`: no day is one to come, and the sweep spares the retention days.

While nobody was cancelled (`Calm`, which once false stays so) also

- `NewestFile`: no file is younger than the one that is open, and a thread that
  rolls over goes on to a later day than any file has, not before its stamp;
- `StampsPast`: a line waits or stands in no file older than its stamp;
- `CallsServed`: the thread of a tool call finds its file open; `close` can only
  take it from maintenance;
- `Sorted`: the lines on the disk, then those in the buffer, have the order of
  the calls. As the lock is first come first served, who writes last was called
  last; that is where `FirstCome` is used.

`HostsFileProofs` proves `TypeCorrect`, `NoLostUpdate`, `SecretsBacked`,
`RemovalComplete` and `NoOrphanSecret`. Its invariant: without a race at most
one process writes (`Alone`), what it is to write is what the file said with its own
change (`OwnChange`, `Stored`), passwords are there before they are listed (`Backed`) and
listed until they are wiped (`Unlisted`, `Removed`, `Kept`, `Owned`), and the torn and empty files have
the causes that the history names (`Unmixed`, `WipedByFault`, `Noted`).

Model-checked only: the liveness properties (`CallsReturn`, `TasksEnd`,
`RecordsEnd`, `MaintenanceEnds`, `TransfersEnd`), because fairness and ENABLED are out of
the prover's reach. Every other property of a passing run is a theorem. Conversely the type invariants of all modules
but the pool and the audit log are proved and no run repeats them. The inductive invariants were found with TLC on the
instances of the runs before they were proved.

## Not modelled, and the plan

Not modelled, for good: path names and exception classes (`paths.py`,
`errors.py`), JSON schemas and the conversion of results, the formatting of
listings, the redaction of audited text, the resolution of paths in a transfer,
the keychain's own behaviour beyond being locked, the encryption and framing of
the libraries. They keep no state and decide no order. In `ConnectionPool` the
keychain is no step of its own, editions do not come back, and `mark_dead` comes only
with a transport that broke (the local error of a transfer, which marks a working
one, is in `Transfer`). The ways in which `pool.get` fails are two in `SessionManager`,
rejected and unreachable; the step that ensures the pane fails there with its
transport only. In `AuditLog` a close at shutdown does not meet a full disk. `session_list`,
`hosts list`, `hosts test` and `audit tail` only read.

Done: `RemoteHost`, `SessionManager` with cancellation and failed records,
`SessionSlot` and its refinement, `ConnectionPool`, `Reaper`, `AuditLog`,
`HostsFile`, `Transfer`, `LogScan`, and the proofs above.

Left: the reaper composed with `SessionManager` on one `RemoteHost`, in place of its
outside kill.
