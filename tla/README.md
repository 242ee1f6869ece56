# The fuzzing tools of this repository in TLA+

This directory specifies the programs of the repository that have a core logic of
their own, checks the specifications with TLC and proves the most important
properties with TLAPS: Fusil (`src/fusil/fusil/`), python-ptrace
(`src/fusil/ptrace/`), autodafe (`src/autodafe/`), and two libraries of Hachoir
(`src/hachoir/hachoir-core`, `src/hachoir/hachoir-regex`).

`PROJECT.json` is the index: which module stands for which component, which run
checks which property, which lines of the source a definition was translated
from, a mutant of the code for every property, and the hazards of the code with
the properties that guard against them.

    cd tla
    tlc -workers 2 -config Process.cfg MCProcess.tla
    tlapm ProcessProofs.tla

Paths below are relative to `src/fusil/fusil/` unless they start with `src/`.

## 1. The repository and its components

`src/` is a collection of fuzzing tools of several authors.  The largest part by
far are the file formats of hachoir-parser, which are data: each is a generator of
fields.  The other large parts are generators of random inputs without state.

### Fusil

A *project* runs *sessions* one after the other.  In a session a target program
is started, watched, scored and stopped.  Everything is an *agent*; agents share
almost nothing and send each other *events*.  There is one thread: `Univers`
calls the agents of the project in turn, for ever.

| component | state | operations | hard because |
|---|---|---|---|
| message system: `mas/mta.py`, `mas/mailbox.py`, `mas/agent.py`, `mas/univers.py` | the queue of the MTA, a mailbox per agent, which agents are active | `send`, `MTA.live`, `Mailbox.deliver`, `popMessages`, `clear`, `activate`, `deactivate`, `executeAgent` | agents come and go while messages are queued, in mailboxes, or popped and not yet handled |
| application: `application.py` | exit code, interrupted | `runProject`, `executeProject`, `on_application_*`, `main` | Ctrl-C and exceptions between any two calls |
| project: `project.py`, `project_directory.py`, `system_calm.py` | session, its index, statistics, timer, directory | `createSession`, `destroySession`, `destroy`, `live`, five handlers | a session is closed and the next one opened inside one handler; limits; failures half-way |
| session: `session.py`, `session_directory.py`, `score.py` | score, stopped, directory | `computeScore`, `live`, `on_session_stop`, `keepDirectory` | several agents ask for its end at the same time |
| aggressivity: `aggressivity.py` | state, age, extreme scores | `on_session_start`, `on_session_done`, `update`, `updateState` | a state machine of seven states with ages |
| process agents: `process/create.py`, `process/watch.py`, `process/debugger.py` | the `Popen` object, the traced process, flags, pid, score, table of traced processes | `createProcess`, `poll`, `live`, `terminate`, `waitExit`, `deinit`; `on_process_create`, `live`, `computeScore`; `attachPID`, `detach`, `pollPID`, `processExit`, `processSignal`, `quit` | three agents and the kernel each know a part of the truth about one process; timeout against exit; exceptions in `deinit` |
| file and time probes: `file_watch.py`, `time_watch.py`, `process/stdout.py`, `process/cpu_probe.py`, `linux/syslog.py` | position in the file, buffer, line counters, score | `readlines`, `splitlines`, `processLine`, `on_session_stop` | a file that grows while it is read, and lives longer than a session |
| network agents: `network/*.py` | sockets, clients | `bind`, `acceptClient`, `live`, `recvBytes`, `sendBytes` | a server outlives the sessions of its clients |
| mutation: `mangle.py`, `auto_mangle.py`, `incr_mangle.py` and others | operations applied so far | `mangle`, `on_session_done` | the incremental mangle builds on the results of earlier sessions |
| helpers: directories, logging, X11, environment, replay scripts | files | `uniqueFilename`, `rmtree`, `ignore` | nothing but I/O |

How they interact: an agent calls `send`; the MTA delivers the message to every
active agent with a method `on_<event>` at the beginning of the next turn of
the loop, and the agent handles it when its own turn comes.  The messages that
carry the run are

    session_start -> (target runs) -> session_stop -> session_done
      -> project_session_destroy -> (next session, or univers_stop)

and `application_interrupt`, `application_error` or `project_stop`, which any
agent may send at any time, lead to `univers_stop`.  Direct calls, not
messages, are `Project.createSession` and `destroySession` (which activate and
deactivate all other agents: `init()` and `deinit()`), `agent.getScore()`, and
the calls among the process agents.

What makes each part correct:

- *message system*: a message is handled once, in the step after it was sent, in
  the order of sending, and never by an agent that was restarted since;
- *run*: no message of one session is handled in another one; each session is
  judged once and counted once; the limits `--sessions` and `--success` hold;
  every stopped or timed-out session is closed; what is kept on the disk is what
  was announced as a success; no target outlives its session;
- *aggressivity*: it stays in its range, reacts to a calm target, backs off from
  a failing one, stays after a success and does not stick at an end;
- *process agents*: no process is lost, none is reported twice, the score tells
  how it ended, a timeout always kills, a stopped process is continued.

### python-ptrace

The debugger under Fusil.  `PtraceDebugger` keeps a list and a dictionary of
`PtraceProcess`es, each with a `SyscallState`; the kernel keeps the truth.
Operations: `addProcess`, `waitProcessEvent`, `_wait_event`, `processStatus` and the
events it makes, `syscall`, `cont`, `terminate`, `detach`, `quit`, and the loop of
`strace.py`.  Hard because stops of several processes are reported in any order and a
process may be killed between its stop and the request that answers it.  Correct if
the enters and exits of system calls stay paired, no process is left behind, and a
stopped process is resumed.

### hachoir-core

A *field set* parses a stream lazily: `createFields()` is a generator that is fed when
somebody asks for a field.  State: the fields, the size (which may be unknown), the
generator, and the same for the sets inside.  Operations: `_addField`, `_feedUntil`,
`_feedAll`, `readMoreFields`, `__iter__`, `_truncate`, `_fixLastField`, `_fixFeedError`,
`writeFieldsIn`.  Hard because calls interleave with suspended iterations, generators
fail, sizes are wrong, and the size of a pipe becomes known late.  Correct if the fields
are contiguous and do not depend on who asked for what.

### hachoir-regex

An algebra of regular expressions: `&`, `|` and `RegexRepeat` simplify while they build
objects that share their parts.  Correct if a simplified expression matches what its
operands match, and if no object of another expression is changed.

### autodafe

A fuzzer in C that runs a compiled script once for every case of every fuzz, computes
lengths and hashes of nested blocks, sends them over TCP, as a client or as a server, or
writes them to files, and talks to a debugger that weighs strings.  State: the buffer, the lists of blocks,
lengths, hashes, sends and fuzzes, the place in the script, the connection.  Hard because
the progress of a run is kept in three places, fields are inside the blocks they
describe, the debugger writes when the target likes, and some calls wait without a timeout.

### The rest

hachoir-editor, the front ends of Hachoir, froxy (a mutating proxy), the kernel,
language and file system fuzzers and pycapreplay are not modelled; `PROJECT.json` says
why for each.

## 2. Modules

| module | kind | stands for |
|---|---|---|
| `Mailboxes` | operators | the state of the message system and its five operations, shared by the two modules below |
| `Mas` | a specification | the loop of `Univers` over *arbitrary* agents, which may send, activate, deactivate and clear whatever they like |
| `FuzzLoop` | abstract | the run a user was promised: sessions one after the other, each concluded once, none beyond a limit |
| `Fusil` | a specification | application, project, session, timer, directories, and probes that stand for the other agents; implements `FuzzLoop` |
| `Aggressivity` | a specification | the state machine of `aggressivity.py` |
| `Probe` | abstract | what `Fusil` assumes about an agent that runs a target |
| `Process` | a specification | `CreateProcess`, `WatchProcess`, `Debugger` and the kernel; implements `Probe` |
| `FileWatch` | a specification | `FileWatch` and `WatchStdout` on a file that grows |
| `NetServer` | a specification | `NetworkServer`, `HttpServer`, `ServerClient` and the programs that connect |
| `Ptrace` | a specification | `PtraceDebugger`, `PtraceProcess`, `SyscallState`, the loop of `strace.py`, and the kernel |
| `FieldSet` | a specification | a parser of hachoir-core, a set in it, an iteration, and the calls of a program |
| `Regex` | a specification | the operators of hachoir-regex over a heap of objects |
| `Autodafe` | a specification | the fuzzer of autodafe, its debugger and the target |
| `MC*` | instances | values of the constants for TLC |
| `*Proofs` | theorems | about the specification of that name |
| `AgentProofs` | theorems | about `Aggressivity` and `NetServer` |

Composition: `Fusil` takes the message system from `Mailboxes` (`INSTANCE`), with
the listeners of the real classes as mailing lists.  `Probe` is the seam between
`Fusil` and `Process`: the actions `ProbeOnSessionStart`, `ProbeTargetDone` and
`TargetsStopped` of `Fusil` are its `Start`, `Done` and `Close`, so `Fusil` does
not need to know of ptrace and `Process` need not know of scores of sessions.
`FileWatch` and `NetServer` are probes of the same loop, with the part of `Univers`
that they depend on in their own `turn` or `living`.

### `Mas`

`turn` is the agent being executed (0 is the MTA), `popped` says that it has
read its mailbox, `inbox` holds the messages it has popped and not handled.
`MtaDeliver` and `MtaDone` are one iteration and the end of `MTA.live`;
`ReadMailbox`, `HandleNext`, `Act`, `EndTurn` are `Univers.executeAgent`.
`step` and the `id` of a message are history.  The mailing lists are constant.

### `Fusil`

One action is one message handler, one `live()` or one turn of a loop; a handler
that calls `createSession` or `destroySession` does everything they do, including
`deinit()` of every agent, the clearing of mailboxes and of the queue, and the
fate of the session directory.  `phase` is the place in `Application.runProject`.
A *probe* starts a target on `session_start`, gives a score that is any of
`ProbeScores`, and may send any of `ProbeEvents`.  `Interrupt` is Ctrl-C.  Two
exceptions are modelled wherever they can occur: `SystemCalm.wait` in
`createSession`, and `deinit()` of a probe in `destroySession` and `destroy`.

Left out: `keep_generated_files` (as if off), `score_weight` (1.0), Ctrl-C within
a handler or outside `phase = "run"`, the duration statistics, logging, and the
bare `except: run = 1` of `application.py:408`, which is only reached by
exceptions that are not instances of `Exception`.

### `Aggressivity`

Scores and aggressivity are percents, as the code rounds them.  `SessionDone` is
`on_session_done` with `update` and `updateState` in the order of their tests.

### `Process`

`turn` is the call the loop makes next.  An event is handled one step after it
was sent, so `sent` and `inbox` are sets of events that concern the target.
`target` and `report` belong to the kernel: a process runs, is stopped by
ptrace, is a zombie with a status, or has been reaped.  `TargetMoves` may happen
between any two calls.  Calls that block are one action with every outcome they
may have: `terminate()` and `waitExit()` block the only thread, so only the end
of the target can happen meanwhile, and the status is therefore any status (the
target may end by itself just before the SIGKILL).  `TerminateRaises` lists
when they raise instead: the target survives SIGKILL for 60 seconds, somebody
else has reaped it, or it died before the debugger could attach it.

`enabled` (is there a debugger) is chosen in `Init`.  `LostStatus` is what
`Popen.poll` returns for a child that was reaped elsewhere: None before Python
2.7.4, 0 since; both are checked and the proofs hold for both.

Left out: forked children (`debugger_trace_forks`), `tracePID`, the messages
`session_rename`, `process_pid` and `process_stdout`, the replay script, the
streams, the CPU probe.

### `FileWatch`

The file is a sequence of symbols: words, which have a score, and the two characters
that end lines.  A turn of `Univers` is the messages of the watch, its `live()`, the
session (the last agent) and the other agents.  `ReadData` reads `read_size` symbols,
`Yield` is one turn of the suspended generators `readlines` and `splitlines` with
`processLine`, `KeepTail` puts what is not a line into the buffer, `Break`, `TooSlow` and
`ReadFails` are the three ways of giving up the rest.  Three kinds of watch: a log from
its beginning, the tail of a log, and the output of a process, whose file lives only
for its session and is read once more when the process ends.

Left out: the patterns (a word either matches or not), `log_not_matching`,
`show_matching`, `TimeWatch` and `CpuProbe`.

### `NetServer`

A peer connects, sends pieces of good or bad requests, and leaves with FIN or RST between
any two steps; also one that has sent FIN may still reset the connection.  `Select` takes
the readable sockets, `Accept`, `ReadNothing`, `ReadBadRequest` and `ReadGoodRequest`
handle them one by one, `Answer` is `send()` and `Close` is `shutdown()` and what follows
it: three calls of the server with the peers between them.  Pieces that arrive before
they are read run into each other (`Join`), and what is read of them may then be
taken for a good or a bad request (`Parses`).  `NewSession` is `destroySession` and
`createSession`: the agents of the session go, `clients` stays.

### `Ptrace`

`state`, `report`, `at`, `call`, `pending`, `newborn` belong to the kernel, `list`,
`parent`, `isStopped`, `next`, `name` to the objects; `pc` is where the one thread waits
or works.  A program calls the system, forks, executes another program, exits, gets
signals, is killed.  `fault` names the first thing that the code has no answer for (a
child that reports before its parent's fork event, a child that dies before its first
stop, a failed `execve` that waits for a trap, a signal sent to another process):
afterwards the model does what the code does, but the code promises nothing any more.

Left out: breakpoints, registers and memory, single steps, the commands of `gdb.py`.

### `FieldSet`

`tree` holds for the parser and for the set in it the fields, the size, the current
size and the place of the generator; a field is its name (the number of its item, or
the raw field), its kind, address and size.  `goal` is what a set is being fed for,
`adding` that the parser is in `_addField` with the set, `iter` is a suspended
`__iter__`.  The generators are scripts: data of some size, the set, or an error.
`Discover` is the end of a pipe.  `WriteFieldsIn` replaces a part of a field.  A parser
has at most one set, and that has none: two levels are what `_addField`, `_truncate` and
the repairs tell apart, and `FieldSetAssumption` says so.

### `Regex`

Objects live in `heap`, an expression is its place there; an operator gives the new
heap and the result, because `a & b` changes lists in place.  `made` is what the
program holds.  `Spans` is the reference: the places of a word between which an
expression matches.  The module is for TLC only (it is recursive over expressions).

### `Autodafe`

A pass fetches the instructions of `Script` one by one (`Data`, `TryCase`,
`NextFuzz`, `OutOfTurn`, `BlockBegin`, ...), writes lengths (`UpdateLength`) and hashes
(`UpdateHash`), and plays the sends.  A byte is a number below `Base`.  `request` and
`channel` are the two directions of the connection to adbg; a message is written in
two parts.  `conf.mode` is what is fuzzed: a server that the fuzzer connects to
(`Connect`), a client that it waits for in each pass (`Listen`, `Accept`; the default
mode of the program), or a program that reads files (`WriteFuzz`).  Connections, sends,
receives and files may fail; the debugger may be interrupted.  `EndPass` frees the buffer
and keeps its size, as the code does: each pass writes behind the earlier ones, whose
cells belong to no instruction any more.  A `read()` that fails, once after a reset, is
taken for data, and what is then in memory may be the last opcode (`ReadFails`).

Left out: UDP, and memory that runs out because the buffer never gets smaller.

## 3. What TLC checks

All runs are exhaustive.  `expect: violation` marks a run whose property is a
sentence of the documentation that the code does not fulfil.

| run | instance | shows |
|---|---|---|
| `mas` | 3 agents, 2 events, 3 messages, 3 steps | `HandledFresh`, `HandledInOrder`: messages are handled in the next step and in order, whoever is restarted or cleared |
| `fusil` | 2 probes, 2 sessions, session timeout, one event and one failing `deinit()` | `NoStaleMessage`, `OneVerdict`, `NoOrphan`, `StopClosesSession` |
| `fusil_limits` | 1 probe, every score, both limits, session timeout, interrupt, `application_error` | `KeptMatchesSuccess` (also of sessions closed after an `application_error`), `ProjectDirKept`, the refinement of `FuzzLoop`, and the liveness `StoppedSessionEnds`, `TimeoutEnds`, `RunEnds` |
| `fusil_stop` | violation | `destroySession` drops the `univers_stop` that answers an interrupt, and the run goes on to other sessions |
| `aggressivity` | the ranges and ages of the code, five scores | `SuccessKept`, and the liveness `FollowsScores`: a calm target is pushed to the maximum, a failing one brought back to the minimum |
| `process` | 2 sessions, with and without debugger, timeout, unkillable targets, lost statuses | `NoProcessLeft`, `DebuggerAgrees`, `ReportedOnce`, `ScoreTells`, the refinement of `Probe`, and the liveness `TimeoutKills`, `DeathReported`, `TrapContinued` |
| `file_watch` | 3 kinds of watch, 2 sessions, files of 5 symbols, reads of 2 | `LinesScored`, `JudgedOnOutput`, and the liveness `ReadsAll` |
| `net_server` | 2 connections, 3 sessions | `ClientsAgree`, `AnsweredOnce`, and the liveness `RequestsRead` |
| `ptrace` | 2 processes, attached or created, with and without exec events, one kill | `SyscallsPaired`, `NobodyLeft`, and the liveness `Resumed` |
| `field_set` | 7 parsers, 8 sets, 4 sizes, a stream and a pipe of 4 units | `Contiguous`, `SameParse`, `YieldsInOrder` |
| `regex` | 11 expressions, any 2 calls, words of up to 4 letters | `Denotes`, `Undisturbed` |
| `autodafe` | a script with 3 fuzzes, 4 blocks, every type of length and hash, every mode | `EachCaseOnce`, `FieldsAgree`, `DebuggerUnderstood`, and the liveness `RunEnds`: the run ends, or the fuzzer waits for its target in `accept()` or `sendto()`, and nowhere else |

The type invariants of `Fusil`, `FileWatch`, `Ptrace`, `FieldSet` and `Autodafe` are
conjuncts of a property of their runs; those of the others are proved (section 4).

Why the bounds are enough:

- `Mas`: 3 steps and 3 messages are what it takes to send, restart the receiver
  and send again; nothing in the loop depends on more.
- `Fusil`: two sessions are needed for a message to reach the wrong one, a third
  (`SessionBound = 3` above the limit 2) shows that a limit is not passed.
  `SessionBound` is not an artificial stop: past it `SystemCalm.wait` raises, as
  it may in the code.  `SendBound` and `FaultBound` bound the events of probes
  and the failures; two probes give one that fails and one that must still be
  closed.  `ProbeScores` lie on both sides of, and on, both thresholds.
- `Aggressivity`: `AgeBound` is one above the greatest age the code compares
  with; the ranges are those of the code.
- `Process`: two sessions show what one leaves behind for the other.  The exit
  codes are those `computeScore` tells apart (0, 1, 127), the signals one fatal
  and one other; `SIGKILL` of somebody else is always possible.
- `FileWatch`: with reads of two symbols and files of five a line is cut in every
  way, also between `\r` and `\n`, and reaches over three reads; the limits of lines
  are 2 and 3.  `StopBound` bounds the `session_stop`s of a session, `SessionBound` the
  sessions; the text is written in pieces that do not end where lines end.
- `NetServer`: two connections are one that is served while the other one waits, fails
  or comes; a connection may outlive its session twice.  The safety properties are
  proved for any number of both, and were checked for three connections, too.
- `Ptrace`: a program and its child are what it takes for stops to come in another
  order than they are expected.  `KillBound` bounds kills from outside.
- `FieldSet`: sizes below, at and above the stream and the set, errors first, last and
  alone; one set in the parser is what lazy feeding needs to be nested.
- `Regex`: two calls nest simplifications of what a call has simplified; the pool holds
  what three calls would be needed for.  Words of four letters tell repetitions apart
  that differ in their second number.
- `Autodafe`: one fuzz has two cases (one shorter and one longer than the original), one
  has none, one is the last; blocks are nested, empty, and in a receive.  `WeightBound` lets
  the target use both strings, or one of them twice.

Fairness.  `Fusil`, `Process`, `FileWatch` and `NetServer` assume that the only thread
runs on (`WF` of the loop: `while True` in `Univers.execute`), `Fusil` and `Process` also
that time passes: a step of the loop is a step of time.  `Ptrace` assumes that the
debugger takes its steps and that the kernel goes on with a system call that has been
resumed; `Autodafe` that the fuzzer is not suspended for ever where it does not wait for
its target (`Runs`), and that the debugger answers what it has read and finishes what it
has begun to write.  `accept()` and `sendto()` have no timeout and get no fairness
(`Waits`).  Nothing is assumed about a target, a probe, a peer or a user.  `Aggressivity` assumes that sessions
follow one another.

Deadlock is checked in `fusil`, `fusil_limits`, `aggressivity`, `process` and
`file_watch`.  The others really stop: the bounds of the counters stop `mas` and
`regex`, the tracer leaves (`ptrace`), both parsers are complete (`field_set`), the run
is over (`autodafe`), the server has failed (`net_server`).

What the properties leave out, because the code does not do it; each of these was
seen in a counterexample of TLC before it was left out:

- `DeathReported`: before Python 2.7.4 a target that the debugger reaps at
  `project_stop` is never noticed by the watch.
- `LinesScored`: a `\r\n` that the reads cut in two counts as an extra, empty line;
  `max_nb_line` is never set again after its first hit; `min_nb_line` is added for each
  `session_stop`; what is read too late, or behind a score of 1, is lost.
- `SyscallsPaired`, `NobodyLeft`, `Resumed`: what follows a `fault` (see `Ptrace`).
- `ClientsAgree`: a reset connection (`shutdown()` raises `ENOTCONN`) or a request
  that cannot be parsed ends the run; connections of earlier sessions stay in `clients`.
- `AnsweredOnce`: a peer that resets the connection between `send()` and `shutdown()` has
  its answer, and its socket stays set and listed in the run that ends with it.
- `RequestsRead`: what a peer sends after its request was read may be thrown away with
  the socket; so may a request that is reset.
- `RunEnds` of `Autodafe`: in server mode the fuzzer waits in `accept()` in every pass
  (`network.c:211`), for ever if its target is gone; `sendto()` blocks when the target
  does not read (`transmit.c:56`).
- `YieldsInOrder`: the last set of a parser that is kept although its generator failed
  is never yielded (`generic_field_set.py:195`), and the truncation of a pipe makes
  `__iter__` turn for ever; `Contiguous`: a pipe that ends after the parser is complete
  gets a size without the raw field for the rest.
- `Denotes`: `a & b` changes `a` while it reads `b`, which goes wrong if they share the
  `RegexAnd` that is changed (`x & x`); a union of two excluded ranges excludes the letters
  of both (its doctest wants that); `(a{n,p}){x,y}` becomes `a{nx,py}` also when lengths
  are missing in between, and `(a{n,}|b)*` becomes `(a{n}|b)*` (both are in
  `regression.rst`).  `maxLength()` raises a `TypeError` for a repetition of something
  unlimited.
- `FieldsAgree`: `l16` writes the other half of the length; `s16` and `s10` are never
  written; a hash of a block that holds a later hash sees it as zero.
- `EachCaseOnce`: a string whose weight comes late is skipped, its weight then read
  (`transmit.c:77`); a case counts as tried although the pass fails before its block is sent.

Other observations:

- `Fusil`: several agents send `session_stop` in the same step (`session.py:108`),
  although `src/fusil/doc/events.rst:5` says that an event can only be sent once
  in a step; `OneVerdict` shows that the session is judged once all the same.
- `Fusil`: the call of `MTA.clear` in `destroySession` is not what keeps stale
  messages away; it is what loses `univers_stop` (`fusil_stop`).
- `Fusil`: `project_session_destroy` handled after `univers_stop` fails, and a clean
  stop ends with exit code 1; a crash scored just before `project_stop` loses its
  directory.  `StopClosesSession` and `KeptMatchesSuccess` say what holds.
- `Fusil`: `Application.fatalError` sets `exit_code` instead of `exitcode`
  (`application.py:381`), so the program exits with 0.
- `Aggressivity`: on a best new score the comment at `aggressivity.py:99` says
  "continue to augment", and the branch stops a growth under way; a session that
  fails may make the next one more aggressive.  The help text of
  `--aggressivity` gives the range -100 to 100, `setValue` clamps to 1 to 100.
- `Process`: `project_stop` makes the debugger reap the target without telling
  `CreateProcess`; before Python 2.7.4 the closing of the session then fails
  (`TerminateRaises("lost")`), and later a status of 0 is reported for it, so
  `ScoreTells` excludes runs in which the debugger was told to quit.  No
  `process_exit` is sent for a target killed at its timeout, and a timeout shorter
  than one step of the loop makes the watch fail.

## 4. What TLAPS proves

Each `*Proofs` module proves an inductive invariant `Inv` (three steps: `Init`,
one lemma per action, temporal logic) and derives the properties from it.  The
only assumptions are the named `ASSUME`s on the constants.

- `MasProofs`, for any number of agents, events and mailing lists: `TypeOK`,
  `HandledFresh`, `HandledInOrder`.  These say nothing about a message before it
  is popped; `QueueInv` dates the messages in the queue, `MailboxInv` says that a
  message waits in the mailbox of an *active* agent only from the turn of the MTA
  to that of the agent, so what an inactive agent still has is older and is
  cleared by `activate` before it can be popped.
- `FusilProofs`, for any probes, scores, limits and bounds: `LimitsRespected`,
  `SessionsCounted`, `ProjectDirKept`, and `Spec => ImplementsFuzzLoop`.  The
  invariant adds `ControlOK` (types of the variables concerned), `StartInv` (no
  session before the first), `ScoreInv` (the score of a session is only set by the
  handler that closes it) and `KeptInv` (a kept directory has left its trace in
  the statistics).  The message layer is quiet: it changes none of these.
  Then the messages: `NoStaleMessage`, `OneVerdict`, `NoOrphan`, `StopClosesSession`.
  These depend on what
  is in flight and on where the loop is, which `MsgInv` describes: `BoxesOK` (every
  message is an event, in a box of an agent that listens to it), `ActiveOK` (who is
  active in which phase; no agent of a session that is closed), `TargetsOK` (a target
  that runs belongs to an active probe), `JudgedOnce` (at most one verdict in the queue,
  the batch and the mailbox of the project together), `Fresh` (what is in flight speaks of
  the open session), `StopReaches` (`univers_stop` reaches Univers and the project in the
  same step, Univers first, so the loop cannot return in between) and `EndsWell` (who can
  have sent a request to stop).  Last the verdicts: `KeptMatchesSuccess` (with the
  `TypeOK` in it).  A directory is judged by the score of the session while the success
  is counted by a message, so `VerdictInv` follows the score on its way: `TrueInv` (a
  message tells the truth: the score of a verdict in flight is that of the session it
  closes, and an `application_error` that is reported has happened), `DataInv` (types, and
  a session is counted at most once) and `KeptOK` (the directory of a session that can
  still be closed is not kept; each kept one has its reason; as many as successes).  That
  `ComputeScore` is a number is an induction over the sets it sums.  TLC checked the
  parts on the instances first; it found that a session closed after an
  `application_error` keeps its directory without being a success, which the property says now.
- `AgentProofs`, of `Aggressivity`, for any range, ages and scores: `TypeOK`, `Envelope`,
  and the action properties `SuccessKept` and `LimitLeft`.  `RecordsOrdered`
  (min below max) and `GivenInv` (the value given to the agents is the current
  one while the session runs) make the invariant inductive.
- `ProcessProofs`, for any exit codes, signals and number of sessions: `TypeOK`,
  `NoProcessLeft`, `DebuggerAgrees`, `ReportedOnce`, `ScoreTells`, and
  `Spec => ImplementsProbe`.  `MessagesInv` says at which turns of the loop
  `session_start` and `process_create` may be in flight, `KnownInv` who knows of
  the target (the agent, the watch, or a message on its way, and nobody without the
  timeout being the reason), `EndInv` how a target ended.  TLC checked the
  invariant for both values of `LostStatus` first.
- `FileWatchProofs`, for any symbols, reads and limits: `JudgedOnOutput` and `LinesScored`
  (with the `TypeOK` in it).  `OutputInv`
  says what is on its way to the watch at each turn (`TurnOK`), that it never reads behind the
  end of the file (`SeedOK`), and of the output of a process that there is no open file
  without a process, no end announced before the end, and that a file closed without
  giving up anything was read to its end, or has not been opened yet (`OutputOK`).
  `LinesScored` speaks of all lines of the session, the code of the pieces of one read, so
  `LinesInv` speaks of the text from `origin` to `Place`, the end of what has been handed
  on: the pieces that are left are the text between this place and `file_seed`, each is
  without an end inside, all but the last have one (`PiecesOK`); the buffer is the last
  line of that text as long as it has no end, and the counters are what is counted of that
  text, with the penalties and at most one bonus (`CountOK`); `process_stdout`, which goes
  back to the beginning of the file, comes once, and before anything was read (`MailOK`).
  It rests on lemmas about texts: where `Split` cuts a text that goes on with a piece
  (`SplitGrows`), that a line and its beginning are stripped alike (`StripBehind`), and what
  the piece adds to the number of lines and to the sum of their scores (`PieceCounts`).
  The sum is a fold of the community modules, whose equations are proved by well-founded
  induction on the subsets of a finite set.
- `AgentProofs`, of `NetServer`, for any number of connections and sessions: `ServerTypeOK`,
  `ClientsAgree`, `AnsweredOnce`.  The strengthening `StagesOK` says how far each
  connection has got, `BusyOK` that live() answers or closes one client at most: it is
  connected, not among those to be read, and has not been answered before.

- `PtraceProofs`, for any processes and any number of kills: `SyscallsPaired` (with the
  `TypeOK` in it) and `NobodyLeft`.  The debugger only knows what `waitpid()` has returned, so
  `PtInv` relates what it believes to what the kernel did, up to `Pend`, the stop that
  is not answered yet: `Sync` (as long as no `fault` has happened, `next_event` and the
  place of the process agree for every order of the stops), `EventOK` and `KernelOK` (a
  stop that was read is still one, unless somebody killed the process since),
  `ChildrenOK` (a child that was born and not added has one parent and is unknown),
  `ParentWaits` (that parent stays stopped until its child is attached), `ListOK` (the
  program that was attached is detached last), `MetOK` (`quit` finds every process it
  owns, and one that is not stopped although it is believed to be is dead).  TLC checked
  the parts on two processes and, for a few minutes, on three before the proof.

- `AutodafeProofs`, for any script the compiler may write: `DebuggerUnderstood`,
  `EachCaseOnce` (with the `TypeOK` in it) and `FieldsAgree`.  `ProtoInv` says what may be in the connection
  to the debugger at each step of both sides: an id only after its weight (`HalfSaid` is
  the debugger between its two writes), one acknowledgement at most and only when the
  fuzzer waits for it, nothing before the target runs.  `TurnInv` ties the history of cases
  to the counters: all cases before the turn, those counted in the turn, none after it.
  `PhaseInv` says that a pass that ends has met every fuzz of the script, so `fuzz_finished`
  speaks of all of them.  `PassInv` says whose every byte of the buffer is, so that
  writing a length or a hash (whose entry is for bytes of its own instruction) does
  not touch the original of a fuzz, and only the fuzz in turn can be changed.
  `FieldsAgree` says nothing of a pass before it is sent, and it looks at the script
  where the code looks at offsets and sizes.  `BlockInv` ties the two together at every
  instruction: the entry of a block that was begun spans exactly the cells for what stands
  between its begin and its end, and an open one reaches to the end of the buffer; it
  stands on the nesting of the blocks in the script.  `PlaceInv` says that an entry of the
  lengths or hashes lies on the cells of its own instruction, that every such instruction
  met has an entry, and that the hashes are listed in the order of the script.  `FieldInv`
  follows the writes: no hash is written before all lengths are, and a hash that was
  written is that of what its block holds now (`Sealed`), which a later write keeps because
  it is outside of the block or, for a block that holds a later hash, is not promised.
  Last `CutValue`: what a receiver reads in a field is the value up to the width of the
  field.  `Digest` and `Value` are recursive functions with a bound; a recursive function is
  proved to exist by well-founded induction on its domain, with the least number at
  which it would fail (`LeastOf`).  TLC checked the three parts as invariants of the
  `autodafe` run before the proof.

- `FieldSetProofs`, for any scripts, sizes and stream: `Contiguous` (with the `TypeOK` in
  it), `YieldsInOrder` and `SameParse`.  `Contiguous` alone is not inductive: it says nothing of a set
  that is being added, and not enough of the names.  `FieldSetInv` says of *both* sets
  that their fields are a chain from 0 to `_current_size`; that an item has its number as
  name, below the place of the generator, and a raw field is the last one of a set that
  is complete (`NamesOK`), so no repair can give a name twice; and, while a set is added,
  that it is the item before the next one, that it is not a field yet and that no other
  set will follow (`AddingOK`).  The lemmas say what each repair makes of a chain:
  `_truncate` may cut the set at the end of the parser together with it (`TruncateOK`),
  `_fixLastField` fills what is left (`FixLastOK`), `writeFieldsIn` puts pieces in the
  place of a field (`RewrittenOK`).  That `lowerBound` finds the field is an induction over
  the length of the range it searches.  `YieldsInOrder` needs `IterInv` besides: what was
  yielded is how the fields begin, what the iteration took follows, and while it waits
  for a field it has seen all others.  Every step of feeding is one of the `Steps`: at
  most one field is added, at the end.  The case that took a strengthening is a set
  whose generator has failed at the end of the stream: it is kept (`kept`), and the
  iteration does not miss a raw field behind it, because a set is added where the parser
  ends (`AddsAtEnd`) and so has filled it.
  `SameParse` compares a complete parser with a reference that only looks at the items, so
  `SameInv` says of every moment before it what the fields have to do with the items: a
  set whose generator goes on has a field of each item that was yielded, a complete one
  has all that fit (`ParsedSoFar`).  The set in the parser is an item of a size that
  depends on its own items and on what is left of the stream where it begins; that size
  (`Span`) and whether its generator fails (`Fails`) are functions of the inputs, and while
  the set is fed, `SubSame` says that it gets there, whichever of its fields is too
  large or raises.  The set is added where the parser ends, which is the sum of the items
  before it, so `SameInv` stands on `AddsAtEnd`.  That the sum is the end of the last
  field (`ParsedSums`) is an induction over the fields, and `Lead` is the one number of items
  that fit and after which no more do (`LeadIs`).  TLC checked `SameInv` on the
  `field_set` run before the proof.

Only model-checked: everything about liveness and fairness.
`Regex` is out of reach: its operators are recursive over expressions.

## 5. Plan

Done, in the order of importance for a run: the message system, the run, the
aggressivity, the process agents, the file watch, the server, python-ptrace, field
sets, autodafe, the algebra of regular expressions.  What is left:

1. hachoir-editor: `EditableFieldSet` on top of `FieldSet` (inserts at the end, the order of
   edits against the original).
2. `InputPipe` of hachoir-core: the ring of buffers, a read behind the end of the pipe.
3. Breakpoints of python-ptrace; forked children in `Process`.
4. `IncrMangle`; `Directory.uniqueFilename`; registration of agents at run time,
   with weak references, as an extension of `Mas`.
5. That the message layer of `Fusil` implements `Mas` (so far both take their operators from
   `Mailboxes`).

Not modelled: the file formats of hachoir-parser (generators of fields, whose
scripts stand for them in `FieldSet`), the fuzzers under `src/fusil/fuzzers` (they
configure the agents modelled here), froxy, the kernel, language and file system fuzzers
and pycapreplay (loops of random inputs), user interfaces, and third-party code.
