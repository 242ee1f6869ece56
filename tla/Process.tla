------------------------------- MODULE Process -------------------------------
(***************************************************************************)
(* One target and the agents that care for it: ProjectProcess starts it    *)
(* and kills it at its timeout (fusil/process/create.py), WatchProcess     *)
(* polls and scores it (watch.py), Debugger traces it (debugger.py, over   *)
(* python-ptrace), and the kernel runs it.                                 *)
(*                                                                         *)
(* The loop of Univers runs project, debugger, process, watch, the other   *)
(* agents, and starts again with the MTA; a message sent in one step is    *)
(* handled in the next one (Mas).  The target moves between any two calls. *)
(* A status is what Popen.poll returns: an exit code, or -signal.          *)
(***************************************************************************)
EXTENDS Integers

CONSTANTS
    ExitCodes,      \* the codes the target may exit with
    FatalSignals,   \* -signal for those of debugger.py's FATAL_SIGNALS
    OtherSignals,   \* -signal for others that end a program
    HasTimeout,     \* whether CreateProcess.timeout is set
    Unkillable,     \* whether a target may survive SIGKILL for 60 seconds
    NoStatus,       \* Python's None
    LostStatus,     \* what Popen.poll returns for a child that another call
                    \* of waitpid has reaped: None, 0 since Python 2.7.4
    SessionBound    \* bound on the number of sessions

SigKill == -9

ASSUME StatusAssumption ==
    /\ ExitCodes \subseteq 0..255
    /\ FatalSignals \subseteq -64..-1
    /\ OtherSignals \subseteq -64..-1
    /\ FatalSignals \cap (OtherSignals \cup {SigKill}) = {}
    /\ NoStatus \notin Int
    /\ LostStatus \in {NoStatus, 0}

ASSUME ProcessOptionsAssumption ==
    HasTimeout \in BOOLEAN /\ Unkillable \in BOOLEAN /\ SessionBound \in Nat

\* How a target may end by itself.
OwnEnds == ExitCodes \cup FatalSignals \cup OtherSignals

VARIABLES
    target,         \* of the kernel: "none", "running", "trapped" (stopped
                    \* by ptrace), "zombie", "reaped"
    report,         \* what waitpid would tell of it
    phase,          \* "run", "stopping", "closing", "over"
    turn,           \* the call the loop makes next
    open,           \* a session is open
    nbSessions,
    active,         \* which of "create" and "watch" are active
    sent, inbox,    \* events sent in this step, and in the step before
    enabled,        \* Debugger.enabled
    registered,     \* Debugger.fusil_processes knows the target
    process, dbg_process, show_exit, timeout_reached, status,
    signal_score,   \* CreateProcess.score, set by Debugger.processSignal
    elapsed,        \* the timeout has elapsed since createProcess
    pid, score,     \* of WatchProcess
    own,            \* history: how the target ended, unless Fusil killed it
    exits, stops,   \* history: process_exit and session_stop sent for it
    mishaps         \* history: what made the run fail, and the debugger quit

targetVars == <<target, report, own>>
loopVars == <<phase, turn, open, nbSessions, active>>
createVars == <<process, dbg_process, show_exit, timeout_reached, status,
                signal_score, elapsed>>
debugVars == <<enabled, registered>>
watchVars == <<pid, score, stops>>
msgVars == <<sent, inbox>>
vars == <<targetVars, loopVars, createVars, debugVars, watchVars, msgVars,
          exits, mishaps>>

Init ==
    /\ target = "none" /\ report = NoStatus /\ own = NoStatus
    /\ phase = "run" /\ turn = "project" /\ open = FALSE /\ nbSessions = 0
    /\ active = {} /\ sent = {} /\ inbox = {}
    /\ enabled \in BOOLEAN
    /\ registered = FALSE
    /\ process = FALSE /\ dbg_process = FALSE /\ show_exit = TRUE
    /\ timeout_reached = FALSE /\ status = NoStatus
    /\ signal_score = FALSE /\ elapsed = FALSE
    /\ pid = FALSE /\ score = "none"
    /\ exits = 0 /\ stops = 0 /\ mishaps = {}

\* An exception leaves Univers.execute.
Raise(why) == phase' = "stopping" /\ mishaps' = mishaps \cup {why}

Turn(here, next) ==
    /\ phase = "run" /\ turn = here /\ turn' = next

-----------------------------------------------------------------------------
(* The target.                                                             *)

Traced == dbg_process /\ enabled

EndsWith(s) ==
    /\ target' = "zombie" /\ report' = s /\ own' = s

\* It exits or is sent a signal; a traced one is stopped before the signal is
\* delivered, unless it is the SIGKILL of somebody else.
TargetMoves ==
    /\ target = "running" /\ phase # "over"
    /\ \/ \E s \in ExitCodes \cup {SigKill} : EndsWith(s)
       \/ \E s \in FatalSignals \cup OtherSignals :
             IF Traced THEN target' = "trapped" /\ report' = s /\ UNCHANGED own
                       ELSE EndsWith(s)
    /\ UNCHANGED <<loopVars, createVars, debugVars, watchVars, msgVars, exits,
                   mishaps>>

\* The clock of CreateProcess.live.
Tick ==
    /\ phase = "run" /\ HasTimeout /\ process /\ ~elapsed
    /\ elapsed' = TRUE
    /\ UNCHANGED <<targetVars, loopVars, process, dbg_process, show_exit,
                   timeout_reached, status, signal_score, debugVars, watchVars,
                   msgVars, exits, mishaps>>

-----------------------------------------------------------------------------
(* What the calls on CreateProcess and Debugger do.                        *)

\* CreateProcess.processExited once the status is known: clearProcess and
\* detach.  (Mutant: only clearProcess.)
ClearedOnly(s) ==
    /\ status' = s /\ process' = FALSE
    /\ UNCHANGED <<dbg_process, registered>>
Exited(s) ==
    /\ status' = s /\ process' = FALSE
    /\ dbg_process' = FALSE
    /\ registered' = (registered /\ ~dbg_process)

\* process_exit is sent by Debugger.processExit or by processExited: poll()
\* clears show_exit between the two.  (Mutant: it does not.)
ExitMessagesTwice ==
    IF ~show_exit THEN 0 ELSE IF enabled THEN 2 ELSE 1
ExitMessages == IF show_exit THEN 1 ELSE 0

\* waitpid has the status s: it reaps the dead target, or says that another
\* call has done so before.
WaitsDead(s) ==
    /\ process
    /\ \/ target = "zombie" /\ s = report /\ target' = "reaped"
       \/ target = "reaped" /\ ~enabled /\ s = LostStatus /\ s # NoStatus
          /\ UNCHANGED target
    /\ UNCHANGED <<report, own>>

\* CreateProcess.poll of a dead target.
PollsDead(s) ==
    /\ WaitsDead(s)
    /\ Exited(s)
    /\ exits' = exits + ExitMessages
    /\ show_exit' = (show_exit /\ ~enabled)

\* Debugger.useProcessEvent of a signal: the score is noted while the exit is
\* to be shown, and the target goes on with its signal, which it survives or
\* not.  (Mutant: it is not continued.)
StaysTrapped == UNCHANGED targetVars
Continued ==
    \/ EndsWith(report)
    \/ target' = "running" /\ report' = NoStatus /\ UNCHANGED own

PollsTrapped ==
    /\ process /\ enabled /\ target = "trapped"
    /\ signal_score' = (signal_score \/ (show_exit /\ report \in FatalSignals))
    /\ Continued

\* _terminate and waitExit: the target is killed, unless it dies before the
\* signal arrives, and it is reaped.  (Mutant: nobody waits for it.)
KilledOnly(s) == target' = "zombie" /\ report' = s
Killed(s) == target' = "reaped" /\ report' = s

Alive == target \in {"running", "trapped"}

\* CreateProcess.terminate: show_exit is cleared first, so no process_exit is
\* sent for a target that is killed, nor for one that is found dead.
Terminates ==
    /\ show_exit' = FALSE
    /\ \/ \E s \in {report, LostStatus} : WaitsDead(s) /\ Exited(s)
       \/ /\ process /\ Alive
          /\ \E s \in OwnEnds \cup {SigKill} :
                /\ Killed(s)
                /\ own' = IF s = SigKill THEN NoStatus ELSE s
                /\ Exited(s)
    /\ UNCHANGED exits

\* It raises when the target survives for 60 seconds, when somebody else has
\* reaped it (os.kill: no such process) or when it died before it was attached
\* (poll attaches it).
TerminateRaises(why) ==
    /\ process
    /\ \/ why = "stuck" /\ Unkillable /\ Alive
          /\ target' = "running" /\ report' = NoStatus
       \/ why = "lost" /\ target = "reaped" /\ ~enabled /\ LostStatus = NoStatus
          /\ UNCHANGED <<target, report>>
       \/ why = "attach" /\ target = "reaped" /\ enabled
          /\ UNCHANGED <<target, report>>
    /\ show_exit' = FALSE
    /\ UNCHANGED <<own, status, process, dbg_process, registered, exits>>

Failures == {"stuck", "lost", "attach"}

\* Debugger.quit: PtraceDebugger.quit kills the target it traces and waits for
\* its end; CreateProcess is not told.
QuitsDebugger ==
    /\ enabled' = FALSE
    /\ IF enabled /\ dbg_process /\ target # "reaped"
       THEN /\ target' = "reaped"
            /\ UNCHANGED report
            /\ own' = IF target = "zombie" THEN own ELSE NoStatus
       ELSE UNCHANGED targetVars
    /\ mishaps' = mishaps \cup (IF enabled THEN {"quit"} ELSE {})

-----------------------------------------------------------------------------
(* The loop: the MTA and the project.                                      *)

MtaLive ==
    /\ Turn("mta", "project")
    /\ inbox' = sent /\ sent' = {}
    /\ UNCHANGED <<phase, open, nbSessions, active, targetVars, createVars,
                   debugVars, watchVars, exits, mishaps>>

\* Project.createSession: init() of the agents, and session_start.
OpenSession ==
    /\ Turn("project", "debugger")
    /\ ~open /\ nbSessions < SessionBound
    /\ open' = TRUE /\ nbSessions' = nbSessions + 1
    /\ active' = {"create", "watch"}
    /\ sent' = {"session_start"} /\ inbox' = {}
    /\ process' = FALSE /\ dbg_process' = FALSE /\ show_exit' = TRUE
    /\ timeout_reached' = FALSE /\ status' = NoStatus
    /\ signal_score' = FALSE /\ elapsed' = FALSE
    /\ pid' = FALSE /\ score' = "none"
    /\ exits' = 0 /\ stops' = 0
    /\ UNCHANGED <<phase, targetVars, debugVars, mishaps>>

\* The project handles nothing that concerns the session.
ProjectLive ==
    /\ Turn("project", "debugger")
    /\ open
    /\ UNCHANGED <<phase, open, nbSessions, active, targetVars, createVars,
                   debugVars, watchVars, msgVars, exits, mishaps>>

\* WatchProcess.deinit forgets the target (mutant: it does not).
PidKept == pid
PidForgotten == FALSE

\* CreateProcess.deinit.
Deinit ==
    IF process THEN Terminates
    ELSE UNCHANGED <<targetVars, status, process, dbg_process, registered,
                     show_exit, exits>>

\* Project.destroySession, whoever asked for it and whenever.
CloseSession ==
    /\ phase = "run" /\ turn = "project"
    /\ open /\ open' = FALSE
    /\ active' = {}
    /\ Deinit
    /\ pid' = PidForgotten
    /\ sent' = {} /\ inbox' = {}
    /\ UNCHANGED <<phase, turn, nbSessions, timeout_reached, signal_score,
                   elapsed, enabled, score, stops, mishaps>>

CloseSessionRaises ==
    /\ phase = "run" /\ turn = "project"
    /\ open
    /\ active' = {"watch"}
    /\ \E why \in Failures : TerminateRaises(why) /\ Raise(why)
    /\ UNCHANGED <<turn, open, nbSessions, timeout_reached, signal_score,
                   elapsed, enabled, watchVars, msgVars>>

\* No other session is wanted, or the run is interrupted at any point.
EndRun ==
    /\ phase = "run"
    /\ phase' = "stopping"
    /\ UNCHANGED <<turn, open, nbSessions, active, targetVars, createVars,
                   debugVars, watchVars, msgVars, exits, mishaps>>

-----------------------------------------------------------------------------
(* Debugger.                                                               *)

\* on_project_stop.
DebuggerTurn ==
    /\ Turn("debugger", "create")
    /\ IF "project_stop" \in inbox
       THEN QuitsDebugger
       ELSE UNCHANGED <<targetVars, enabled, mishaps>>
    /\ UNCHANGED <<phase, open, nbSessions, active, createVars, registered,
                   watchVars, msgVars, exits>>

-----------------------------------------------------------------------------
(* CreateProcess.                                                          *)

\* on_session_start, createProcess: the target is started and, if there is a
\* debugger, attached and continued.
CreateStarts ==
    /\ Turn("create", "create.live")
    /\ "session_start" \in inbox
    /\ target' = "running" /\ report' = NoStatus /\ own' = NoStatus
    /\ process' = TRUE /\ elapsed' = FALSE
    /\ dbg_process' = enabled /\ registered' = (registered \/ enabled)
    /\ sent' = sent \cup {"process_create"}
    /\ UNCHANGED <<phase, open, nbSessions, active, show_exit, timeout_reached,
                   status, signal_score, enabled, watchVars, inbox, exits,
                   mishaps>>

\* The program does not exist or may not be executed; or it dies before the
\* debugger could attach it, and Popen's object stays.
CreateFails ==
    /\ phase = "run" /\ turn = "create"
    /\ "session_start" \in inbox
    /\ \/ Raise("create") /\ UNCHANGED <<targetVars, process>>
       \/ /\ enabled
          /\ target' = "reaped" /\ report' = SigKill /\ own' = SigKill
          /\ process' = TRUE
          /\ Raise("attach")
    /\ UNCHANGED <<turn, open, nbSessions, active, dbg_process, show_exit,
                   timeout_reached, status, signal_score, elapsed, debugVars,
                   watchVars, msgVars, exits>>

CreateSkips ==
    /\ Turn("create", "create.live")
    /\ "session_start" \notin inbox
    /\ UNCHANGED <<phase, open, nbSessions, active, targetVars, createVars,
                   debugVars, watchVars, msgVars, exits, mishaps>>

\* live(): the target has run for its timeout (mutant: and is not watched).
TimeoutDueUnwatched == process /\ HasTimeout /\ elapsed /\ ~pid
TimeoutDue == process /\ HasTimeout /\ elapsed

CreateLive ==
    /\ Turn("create.live", "watch")
    /\ IF TimeoutDue
       THEN timeout_reached' = TRUE /\ Terminates
       ELSE UNCHANGED <<targetVars, timeout_reached, status, process,
                        dbg_process, registered, show_exit, exits>>
    /\ UNCHANGED <<phase, open, nbSessions, active, signal_score, elapsed,
                   enabled, watchVars, msgVars, mishaps>>

CreateLiveRaises ==
    /\ phase = "run" /\ turn = "create.live"
    /\ TimeoutDue
    /\ timeout_reached' = TRUE
    /\ \E why \in Failures : TerminateRaises(why) /\ Raise(why)
    /\ UNCHANGED <<turn, open, nbSessions, active, signal_score, elapsed,
                   enabled, watchVars, msgVars>>

-----------------------------------------------------------------------------
(* WatchProcess.                                                           *)

WatchLearns ==
    /\ Turn("watch", "watch.live")
    /\ IF "process_create" \in inbox
       THEN process /\ pid' = TRUE
       ELSE UNCHANGED pid
    /\ inbox' = inbox \ {"process_create"}
    /\ UNCHANGED <<phase, open, nbSessions, active, targetVars, createVars,
                   debugVars, score, stops, sent, exits, mishaps>>

\* on_process_create: "agent.process.pid" of a process that is gone already.
WatchTooLate ==
    /\ phase = "run" /\ turn = "watch"
    /\ "process_create" \in inbox /\ ~process
    /\ Raise("late")
    /\ inbox' = inbox \ {"process_create"}
    /\ UNCHANGED <<turn, open, nbSessions, active, targetVars, createVars,
                   debugVars, watchVars, sent, exits>>

\* computeScore (mutant: the timeout is not looked at).
ScoreOfStatus(s) ==
    CASE 0 < s /\ s # 127 -> "exitcode"
      [] s < 0 -> "signal"
      [] OTHER -> "default"
ScoreIgnoringTimeout(s) == ScoreOfStatus(s)
ComputeScore(s) == IF timeout_reached THEN "timeout" ELSE ScoreOfStatus(s)

\* processDone (mutant: session_stop is not sent).
DoneSilently(s) ==
    /\ score' = ComputeScore(s)
    /\ pid' = FALSE
    /\ UNCHANGED stops
Done(s) ==
    /\ score' = ComputeScore(s)
    /\ stops' = stops + 1
    /\ pid' = FALSE

\* live() polls the target.
WatchFindsDead ==
    /\ Turn("watch.live", "others")
    /\ pid
    /\ \/ \E s \in {report, LostStatus} : PollsDead(s) /\ Done(s)
       \/ /\ ~process /\ Done(status)
          /\ UNCHANGED <<targetVars, status, process, dbg_process, registered,
                         show_exit, exits>>
    /\ UNCHANGED <<phase, open, nbSessions, active, timeout_reached,
                   signal_score, elapsed, enabled, msgVars, mishaps>>

WatchFindsTrapped ==
    /\ Turn("watch.live", "others")
    /\ pid
    /\ PollsTrapped
    /\ UNCHANGED <<phase, open, nbSessions, active, process, dbg_process,
                   show_exit, timeout_reached, status, elapsed, debugVars,
                   watchVars, msgVars, exits, mishaps>>

\* No news, or no target to look at.
WatchFindsNothing ==
    /\ Turn("watch.live", "others")
    /\ pid => /\ process
              /\ \/ target = "running"
                 \/ target = "reaped" /\ LostStatus = NoStatus
    /\ UNCHANGED <<phase, open, nbSessions, active, targetVars, createVars,
                   debugVars, watchVars, msgVars, exits, mishaps>>

\* The agents behind these, one of which may ask for the end of the project.
OthersTurn ==
    /\ Turn("others", "mta")
    /\ sent' \in {sent, sent \cup {"project_stop"}}
    /\ UNCHANGED <<phase, open, nbSessions, active, targetVars, createVars,
                   debugVars, watchVars, inbox, exits, mishaps>>

-----------------------------------------------------------------------------
(* Project.destroy: AgentList.clear closes the active agents, the last one *)
(* first, and swallows what deinit() raises; then the debugger goes.       *)

DestroyAgents ==
    /\ phase = "stopping" /\ phase' = "closing"
    /\ open' = FALSE /\ active' = {}
    /\ pid' = PidForgotten
    /\ IF "create" \in active
       THEN \/ Deinit /\ UNCHANGED mishaps
            \/ \E why \in Failures :
                  /\ TerminateRaises(why)
                  /\ mishaps' = mishaps \cup ({why} \cap {"stuck"})
       ELSE UNCHANGED <<targetVars, status, process, dbg_process, registered,
                        show_exit, exits, mishaps>>
    /\ UNCHANGED <<turn, nbSessions, timeout_reached, signal_score, elapsed,
                   enabled, score, stops, msgVars>>

DestroyDebugger ==
    /\ phase = "closing" /\ phase' = "over"
    /\ QuitsDebugger
    /\ UNCHANGED <<turn, open, nbSessions, active, createVars, registered,
                   watchVars, msgVars, exits>>

Over == phase = "over" /\ UNCHANGED vars

-----------------------------------------------------------------------------
\* What the only thread of the program does next.
Run ==
    \/ MtaLive \/ ProjectLive \/ OpenSession \/ CloseSession
    \/ CloseSessionRaises
    \/ DebuggerTurn
    \/ CreateStarts \/ CreateFails \/ CreateSkips
    \/ CreateLive \/ CreateLiveRaises
    \/ WatchLearns \/ WatchTooLate
    \/ WatchFindsDead \/ WatchFindsTrapped \/ WatchFindsNothing
    \/ OthersTurn
    \/ DestroyAgents \/ DestroyDebugger

Next == Run \/ EndRun \/ TargetMoves \/ Tick \/ Over

Spec == Init /\ [][Next]_vars

\* The thread runs on; nothing is asked of the target, nor that its timeout ever
\* comes.
FairSpec == Spec /\ WF_vars(Run)

-----------------------------------------------------------------------------
(* Properties.                                                             *)

Statuses == Int \cup {NoStatus}

Places ==
    /\ target \in {"none", "running", "trapped", "zombie", "reaped"}
    /\ phase \in {"run", "stopping", "closing", "over"}
    /\ turn \in {"mta", "project", "debugger", "create", "create.live",
                 "watch", "watch.live", "others"}
    /\ score \in {"none", "default", "exitcode", "signal", "timeout"}

Numbers ==
    /\ report \in Statuses /\ own \in Statuses /\ status \in Statuses
    /\ nbSessions \in 0..SessionBound
    /\ exits \in Nat /\ stops \in Nat

Sets ==
    /\ active \subseteq {"create", "watch"}
    /\ sent \subseteq {"session_start", "process_create", "project_stop"}
    /\ inbox \subseteq {"session_start", "process_create", "project_stop"}
    /\ mishaps \subseteq Failures \cup {"create", "late", "quit"}

Flags ==
    /\ open \in BOOLEAN /\ enabled \in BOOLEAN /\ registered \in BOOLEAN
    /\ process \in BOOLEAN /\ dbg_process \in BOOLEAN
    /\ show_exit \in BOOLEAN /\ timeout_reached \in BOOLEAN
    /\ signal_score \in BOOLEAN /\ elapsed \in BOOLEAN /\ pid \in BOOLEAN

TypeOK == Places /\ Numbers /\ Sets /\ Flags

\* No target is lost: CreateProcess holds the object of every target that
\* runs or waits to be reaped, and no session is closed, and no run is over,
\* with such a target (unless it survived SIGKILL for a minute).
NoProcessLeft ==
    Alive \/ target = "zombie" =>
        /\ process
        /\ phase = "run" => open
        /\ phase = "over" => "stuck" \in mishaps

\* The debugger's table and the agent agree about who is traced, also after a
\* timeout, a failed start or the end of the debugger.
DebuggerAgrees ==
    /\ registered <=> dbg_process
    /\ dbg_process => process

\* Whoever sees the end of a target first, the debugger, the watch or the
\* timeout: process_exit and session_stop are sent at most once for it.
ReportedOnce == exits <= 1 /\ stops <= 1

\* The score tells how the target ended by itself: the SIGKILL of Fusil is
\* never taken for a crash, and a crash never for a normal exit, as long as
\* the debugger was not told to quit.
ScoreTells ==
    score # "none" /\ "quit" \notin mishaps =>
        IF timeout_reached THEN score = "timeout"
        ELSE own # NoStatus /\ score = ScoreOfStatus(own)

\* A target that has ended is noticed and the end of the session asked for, also
\* when no timeout does it; only a Python that loses the status of a child lets
\* the watch wait for one that the debugger has reaped when it was told to quit.
DeathReported ==
    target = "zombie" /\ phase = "run" ~>
        \/ stops = 1 \/ ~open \/ phase # "run"
        \/ "quit" \in mishaps /\ LostStatus = NoStatus

\* A target that the debugger has stopped is continued or killed.
TrapContinued == target = "trapped" ~> target # "trapped"

\* When its timeout is over no target runs for ever, whatever it does with its
\* signals and whoever is there to see it.
TimeoutKills == process /\ elapsed ~> ~process \/ phase = "over"

\* The agents implement what the project expects of them.  A target counts as
\* running until the watch has given its score.
Life ==
    CASE phase = "run" -> IF open THEN "open" ELSE "closed"
      [] phase = "over" -> "over"
      [] OTHER -> "broken"

Announced == "process_create" \in sent \/ "process_create" \in inbox
Running == IF process \/ pid \/ Announced THEN "running" ELSE "idle"

Expected == INSTANCE Probe WITH
    Score <- {"default", "exitcode", "signal", "timeout"}, None <- "none",
    life <- Life, target <- Running, asked <- (stops # 0)

ImplementsProbe == Expected!Spec

-----------------------------------------------------------------------------
(* The strengthening of these properties that every step preserves.        *)

\* Before createProcess is called in a session.
Fresh ==
    /\ ~process /\ ~pid /\ ~Announced
    /\ exits = 0 /\ stops = 0 /\ score = "none"

\* Where the messages about the target may be, by the turn of the loop.
MessagesInv ==
    phase = "run" =>
        /\ "session_start" \in sent => Fresh /\ "session_start" \notin inbox
        /\ "session_start" \in inbox /\ turn \in {"project", "debugger", "create"}
              => Fresh
        /\ "process_create" \in sent =>
              /\ turn \in {"create.live", "watch", "watch.live", "others", "mta"}
              /\ "process_create" \notin inbox
        /\ "process_create" \in inbox =>
              turn \in {"project", "debugger", "create", "create.live", "watch"}
        /\ "process_create" \in inbox => "session_start" \notin inbox

\* Who knows of the target while the loop runs.
KnownInv ==
    /\ Announced => ~pid /\ stops = 0
    /\ pid => stops = 0
    /\ process => exits = 0 /\ stops = 0
    /\ score # "none" => ~process /\ ~pid /\ ~Announced
    /\ phase = "run" =>
          /\ process => pid \/ Announced
          /\ (pid \/ Announced) /\ ~process => timeout_reached
          /\ ~open => turn = "project" /\ ~process /\ ~pid /\ ~Announced
                      /\ sent = {} /\ inbox = {}
          /\ open => active = {"create", "watch"}
          /\ process /\ target = "reaped" => "quit" \in mishaps

\* How the target ended.
EndInv ==
    /\ target = "zombie" => own = report
    /\ target \in {"trapped", "zombie"} => report \in Int
    /\ phase = "stopping" /\ "create" \notin active =>
          ~(Alive \/ target = "zombie") \/ "stuck" \in mishaps
    /\ phase \in {"closing", "over"} =>
          ~(Alive \/ target = "zombie") \/ "stuck" \in mishaps

Inv ==
    /\ TypeOK /\ MessagesInv /\ KnownInv /\ EndInv
    /\ NoProcessLeft /\ DebuggerAgrees /\ ReportedOnce /\ ScoreTells

=============================================================================
