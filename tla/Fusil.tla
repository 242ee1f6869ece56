-------------------------------- MODULE Fusil --------------------------------
(***************************************************************************)
(* The life of a Fusil run: Application.runProject, the loop of Univers,   *)
(* the project that opens and closes sessions (fusil/project.py), the      *)
(* session that is scored (fusil/session.py) and its directory             *)
(* (fusil/session_directory.py), over the message system of Mailboxes.     *)
(*                                                                         *)
(* A probe is an agent of the fuzzer: it starts a target on session_start, *)
(* gives a score, and may send the public events of doc/events.rst.        *)
(* Scores are percents.  Everything runs in one thread; one action is one  *)
(* message handler, one live() or one turn of a loop.                      *)
(***************************************************************************)
EXTENDS Integers, Sequences, FiniteSets

CONSTANTS
    Probes,             \* the project agents of the fuzzer
    ProbeOrder,         \* their order of registration, a sequence
    NoScore,            \* the score of an agent that has none (None)
    ProbeScores,        \* what getScore() of a probe may return, or NoScore
    ProbeEvents,        \* the events a probe may send
    SuccessScore,       \* config.fusil_success_score
    ErrorScore,         \* config.fusil_error_score
    MaxSession,         \* options.sessions, 0 is unlimited
    MaxSuccess,         \* options.success, 0 is unlimited
    KeepSessions,       \* options.keep_sessions
    SessionTimeout,     \* whether project.session_timeout is set
    SessionBound,       \* bound on session_index: past it the system never
                        \* calms down and createSession raises
    SendBound,          \* bound on the events sent by the probes
    FaultBound          \* bound on the deinit() calls that raise

NoSession == [score |-> NoScore, stopped |-> TRUE, open |-> FALSE]

AppAgents == {"univers", "application", "project"}
Agents == AppAgents \cup Probes \cup {"session"}

\* project.agents: the application agents and the project come first, the
\* session registers itself last and is the last to be executed.
Order == <<"univers", "application", "project">> \o ProbeOrder
         \o <<"session">>

StopEvents == {"application_interrupt", "application_error", "project_stop"}
Event == StopEvents \cup
    {"univers_stop", "project_start", "session_start", "session_stop",
     "session_success", "session_done", "project_session_destroy"}

\* Every probe is registered once, and none is one of the other agents.
ASSUME ProbesAssumption ==
    /\ ProbeOrder \in Seq(Probes)
    /\ Probes \cap (AppAgents \cup {"session"}) = {}
    /\ \A p \in Probes : \E i \in DOMAIN ProbeOrder : ProbeOrder[i] = p
    /\ \A i, j \in DOMAIN ProbeOrder : ProbeOrder[i] = ProbeOrder[j] => i = j

\* What config.py and the command line give; an agent without score has None.
ASSUME OptionsAssumption ==
    /\ MaxSession \in Nat /\ MaxSuccess \in Nat
    /\ SuccessScore \in Int /\ ErrorScore \in Int
    /\ KeepSessions \in BOOLEAN /\ SessionTimeout \in BOOLEAN
    /\ ProbeScores \subseteq Int \cup {NoScore}
    /\ ProbeEvents \subseteq StopEvents \cup {"session_stop"}

ASSUME BoundsAssumption ==
    SessionBound \in Nat \ {0} /\ SendBound \in Nat /\ FaultBound \in Nat

\* The events that speak of one session.
SessionEvents == {"session_start", "session_stop", "session_success",
                  "session_done", "project_session_destroy"}

\* The on_<event> methods of the classes modelled here.
Listeners ==
    [e \in Event |->
        CASE e \in {"application_interrupt", "application_error"}
                 -> {"application"}
          [] e \in {"project_stop", "session_done", "project_session_destroy"}
                 -> {"project"}
          [] e = "univers_stop"  -> {"univers", "project"}
          [] e = "session_start" -> Probes
          [] e = "session_stop"  -> {"session"}
          [] OTHER -> {}]

VARIABLES queue, mailbox, active, inbox     \* of the message system

INSTANCE Mailboxes WITH Subscribers <- Listeners

VARIABLES
    phase,            \* where Application.runProject is
    turn,             \* position in Order of the agent executed, 0: the MTA
    popped,           \* that agent has read its mailbox
    is_done,          \* Univers.is_done
    exitcode,         \* Application.exitcode
    session,          \* Project.session
    timer,            \* use_timeout, and whether the timeout has elapsed
    session_index, session_executed, nb_success,    \* of Project
    score,            \* what getScore() of each probe returns
    target,           \* the process each probe runs
    dirs,             \* the directory of each session
    projdir,          \* the directory of the project
    sends, faults,    \* what is left of SendBound and FaultBound
    final,            \* history: the score computed for each session
    stopIndex,        \* history: the session in which some agent asked for
                      \* the end of the run, 0 when none did
    faulty,           \* history: probes whose deinit() raised
    errors            \* history: the failures that happened to the run

msgVars == <<queue, mailbox, active, inbox>>
loopVars == <<turn, popped, is_done>>
projVars == <<session, timer, session_index, session_executed, nb_success>>
fileVars == <<dirs, projdir>>
boundVars == <<sends, faults>>
histVars == <<final, stopIndex, faulty, errors>>
worldVars == <<projVars, fileVars, boundVars, histVars, phase, exitcode, score,
               target>>
vars == <<msgVars, loopVars, worldVars>>

Sessions == 1..SessionBound

Msg(e) == [event |-> e, score |-> NoScore, sess |-> session_index]
ScoredMsg(e, s) == [event |-> e, score |-> s, sess |-> session_index]

Me == Order[turn]

-----------------------------------------------------------------------------
(* Scores (fusil/score.py, Session.computeScore).                          *)

\* Project.success_score <= score; an unscored session never succeeds.
IsSuccess(s) == s # NoScore /\ SuccessScore <= s

\* normalizeScore: restrict a score to [-100%, 100%].
NormalizeScore(s) == IF s < -100 THEN -100 ELSE IF s > 100 THEN 100 ELSE s

\* The sum of the scores of the active probes that have one; score_weight
\* is left at its default, 1.0.
ComputeScore ==
    LET Scored(p) == p \in active /\ score[p] # NoScore
        Sum[i \in 0..Len(ProbeOrder)] ==
            IF i = 0 THEN 0
            ELSE Sum[i - 1] + IF Scored(ProbeOrder[i])
                              THEN NormalizeScore(score[ProbeOrder[i]])
                              ELSE 0
    IN  Sum[Len(ProbeOrder)]

-----------------------------------------------------------------------------
(* Start of the project.                                                   *)

Init ==
    /\ queue = << >>
    /\ mailbox = [a \in Agents |-> << >>]
    /\ active = {"univers", "application"}
    /\ inbox = << >>
    /\ phase = "activate"
    /\ turn = 0
    /\ popped = FALSE
    /\ is_done = FALSE
    /\ exitcode = 0
    /\ session = NoSession
    /\ timer = "off"
    /\ session_index = 0
    /\ session_executed = 0
    /\ nb_success = 0
    /\ score = [p \in Probes |-> NoScore]
    /\ target = [p \in Probes |-> "idle"]
    /\ dirs = [k \in Sessions |-> "absent"]
    /\ projdir = "present"
    /\ sends = SendBound
    /\ faults = FaultBound
    /\ final = [k \in Sessions |-> NoScore]
    /\ stopIndex = 0
    /\ faulty = {}
    /\ errors = {}

\* The timeout is armed anew in every session (mutant: in the first only).
TimerArmedOnce == IF SessionTimeout /\ session_index = 0 THEN "armed" ELSE "off"
TimerArmed == IF SessionTimeout THEN "armed" ELSE "off"

\* Project.createSession once SystemCalm.wait returned: the inactive agents
\* of the project are activated (init() resets their score), the Session and
\* its directory are created, session_start is sent.  The caller says which
\* directories and which messages are left by the session before.
CreateSession(before, waiting) ==
    LET k == session_index + 1
        Started(e) == [event |-> e, score |-> NoScore, sess |-> k]
    IN  /\ session_index < SessionBound
        /\ session_index' = k
        /\ session' = [score |-> NoScore, stopped |-> FALSE, open |-> TRUE]
        /\ timer' = TimerArmed
        /\ active' = Agents
        /\ score' = [p \in Probes |-> NoScore]
        /\ queue' = waiting \o
                    (IF k = 1
                     THEN <<Started("project_start"), Started("session_start")>>
                     ELSE <<Started("session_start")>>)
        /\ dirs' = [before EXCEPT ![k] = "present"]

\* Project.activate in Application.executeProject: init() creates the first
\* session.
ActivateProject ==
    /\ phase = "activate"
    /\ CreateSession(dirs, queue)
    /\ mailbox' = Emptied(Agents \ active)
    /\ phase' = "run"
    /\ UNCHANGED <<inbox, loopVars, exitcode, session_executed, nb_success,
                   target, projdir, boundVars, histVars>>

\* SystemCalm.wait raises: runProject destroys the project, and only then
\* does Application.main set the exit code.
ActivateProjectFails ==
    /\ phase = "activate"
    /\ phase' = "abort"
    /\ active' = active \cup {"project"}
    /\ errors' = errors \cup {"calm"}
    /\ UNCHANGED <<queue, mailbox, inbox, loopVars, projVars, fileVars, final,
                   stopIndex, faulty, boundVars, exitcode, score, target>>

-----------------------------------------------------------------------------
(* Univers.execute: the MTA, then every agent in order, then again.        *)

MtaDeliver ==
    /\ phase = "run" /\ turn = 0
    /\ DeliverNext
    /\ UNCHANGED <<loopVars, worldVars>>

MtaDone ==
    /\ phase = "run" /\ turn = 0
    /\ queue = << >>
    /\ turn' = 1
    /\ popped' = FALSE
    /\ UNCHANGED <<msgVars, is_done, worldVars>>

AgentTurn == phase = "run" /\ turn \in 1..Len(Order)

\* Univers.executeAgent returns at once for an inactive agent; the session
\* that is closed is not in the list at all.
SkipAgent ==
    /\ AgentTurn /\ ~popped /\ Me \notin active
    /\ turn' = turn + 1
    /\ UNCHANGED <<msgVars, popped, is_done, worldVars>>

ReadMailbox ==
    /\ AgentTurn /\ ~popped /\ Me \in active
    /\ PopMessages(Me)
    /\ popped' = TRUE
    /\ UNCHANGED <<turn, is_done, worldVars>>

\* The end of a step: execute() returns when the univers was stopped.
EndStep ==
    /\ phase = "run" /\ turn = Len(Order) + 1
    /\ IF is_done THEN phase' = "deactivate" /\ UNCHANGED turn
                  ELSE turn' = 0 /\ UNCHANGED phase
    /\ UNCHANGED <<msgVars, popped, is_done, projVars, fileVars, boundVars,
                   histVars, exitcode, score, target>>

\* The agent a handles message m, the first one it popped.
Handling(a, e) ==
    /\ AgentTurn /\ popped /\ Me = a
    /\ inbox # << >>
    /\ Head(inbox).event = e

\* The agent a has handled its messages: its live() is called.
Living(a) == AgentTurn /\ popped /\ Me = a /\ inbox = << >>

EndTurn == turn' = turn + 1 /\ popped' = FALSE /\ UNCHANGED is_done

\* A handler returned.
NextMessage == inbox' = Tail(inbox)

\* An exception leaves Univers.execute: executeProject catches it, sets the
\* exit code and stops; what the agent had popped is lost.
Raise ==
    /\ phase' = "deactivate"
    /\ exitcode' = 1
    /\ inbox' = << >>

SendMsg(m) == queue' = Append(queue, m)

-----------------------------------------------------------------------------
(* Univers and Application.                                                *)

UniversOnUniversStop ==
    /\ Handling("univers", "univers_stop")
    /\ is_done' = TRUE
    /\ NextMessage
    /\ UNCHANGED <<queue, mailbox, active, turn, popped, worldVars>>

\* on_application_interrupt and on_application_error.
ApplicationOnStop ==
    /\ \/ Handling("application", "application_interrupt")
          /\ UNCHANGED exitcode
       \/ Handling("application", "application_error")
          /\ exitcode' = 1
    /\ SendMsg(Msg("univers_stop"))
    /\ NextMessage
    /\ UNCHANGED <<mailbox, active, loopVars, projVars, fileVars, boundVars,
                   histVars, phase, score, target>>

\* Neither Univers nor Application has a live() of its own.
AppLive ==
    /\ Living("univers") \/ Living("application")
    /\ EndTurn
    /\ UNCHANGED <<msgVars, worldVars>>

-----------------------------------------------------------------------------
(* Project.                                                                *)

\* SessionDirectory.checkKeepDirectory: the directory is never empty, it
\* holds session.log (options.keep_generated_files is left off).
\* (Mutant: a score equal to the limit is not enough.)
KeepDirectoryAbove(s) ==
    (s # NoScore /\ SuccessScore < s) \/ exitcode # 0 \/ KeepSessions
KeepDirectory(s) == IsSuccess(s) \/ exitcode # 0 \/ KeepSessions

DirsClosed(s) ==
    [dirs EXCEPT ![session_index] = IF KeepDirectory(s) THEN "kept"
                                                        ELSE "removed"]

\* destroySession counts the session unless the run already failed.
Executed == session_executed' = session_executed + IF exitcode = 0 THEN 1 ELSE 0

\* MTA.clear at the end of destroySession.
MtaCleared == << >>

\* CreateProcess.deinit of every active probe of S ends the target (mutant:
\* only while the loop runs).
TargetsStoppedInRun(S) ==
    [p \in Probes |-> IF p \in S /\ p \in active /\ phase = "run"
                      THEN "idle" ELSE target[p]]
TargetsStopped(S) ==
    [p \in Probes |-> IF p \in S /\ p \in active THEN "idle" ELSE target[p]]

\* Project.destroySession of a session whose score is s: the session and its
\* directory are closed, then the agents of the project are deactivated and
\* the waiting messages dropped.
DestroySession(s) ==
    /\ Executed
    /\ dirs' = DirsClosed(s)
    /\ active' = active \cap AppAgents
    /\ target' = TargetsStopped(Probes)
    /\ session' = NoSession
    /\ mailbox' = Emptied(AppAgents)
    /\ UNCHANGED <<session_index, timer, score>>

\* The deinit() of the i-th probe raises in the middle of destroySession:
\* the probes behind it stay active, nothing after the loop is done, and the
\* probe itself counts as inactive whatever became of its target.
DestroySessionRaises(s) ==
    /\ faults > 0
    /\ faults' = faults - 1
    /\ Executed
    /\ dirs' = DirsClosed(s)
    /\ \E i \in DOMAIN ProbeOrder :
          LET p == ProbeOrder[i]
              Down == {ProbeOrder[j] : j \in 1..i}
          IN  /\ p \in active
              /\ active' = active \ (Down \cup {"session"})
              /\ \E t \in {"idle", target[p]} :
                    target' = [TargetsStopped(Down) EXCEPT ![p] = t]
              /\ faulty' = faulty \cup {p}
    /\ session' = [session EXCEPT !.score = s]
    /\ errors' = errors \cup {"deinit"}
    /\ Raise
    /\ UNCHANGED <<queue, mailbox, loopVars, session_index, nb_success, timer,
                   score, projdir, sends, final, stopIndex>>

ProjectOnSessionDone ==
    /\ Handling("project", "session_done")
    /\ SendMsg([Head(inbox) EXCEPT !.event = "project_session_destroy"])
    /\ NextMessage
    /\ UNCHANGED <<mailbox, active, loopVars, worldVars>>

ProjectOnProjectStop ==
    /\ Handling("project", "project_stop")
    /\ SendMsg(Msg("univers_stop"))
    /\ NextMessage
    /\ UNCHANGED <<mailbox, active, loopVars, worldVars>>

\* on_univers_stop closes the session, unscored when it has no verdict yet
\* (mutant: it leaves that to a verdict which is under way).
ClosesUnjudged == session.open /\ ~session.stopped
ClosesOnStop == session.open

ProjectOnUniversStop ==
    /\ Handling("project", "univers_stop")
    /\ IF ClosesOnStop
       THEN DestroySession(session.score) /\ queue' = MtaCleared
       ELSE UNCHANGED <<queue, mailbox, active, session, timer, session_index,
                        session_executed, dirs, score, target>>
    /\ NextMessage
    /\ UNCHANGED <<loopVars, nb_success, projdir, boundVars, histVars, phase,
                   exitcode>>

ProjectOnUniversStopRaises ==
    /\ Handling("project", "univers_stop")
    /\ session.open
    /\ DestroySessionRaises(session.score)

\* on_project_session_destroy, after the session is destroyed.
SuccessLimit(s) == IsSuccess(s) /\ 0 < MaxSuccess /\ MaxSuccess <= nb_success + 1
\* (Mutant of SessionLimit: one session too many.)
SessionLimitLate == 0 < MaxSession /\ MaxSession < session_index
SessionLimit == 0 < MaxSession /\ MaxSession <= session_index
LimitReached(s) == SuccessLimit(s) \/ SessionLimit

Verdict == Head(inbox).score

DestroyingSession == Handling("project", "project_session_destroy")

CountSuccess == nb_success' = nb_success + IF IsSuccess(Verdict) THEN 1 ELSE 0

\* The univers is told to stop (mutant: it is not).
NotStopped == MtaCleared
UniversStopped == Append(MtaCleared, Msg("univers_stop"))

ProjectStopsAtLimit ==
    /\ DestroyingSession /\ session.open
    /\ LimitReached(Verdict)
    /\ DestroySession(Verdict)
    /\ queue' = UniversStopped
    /\ CountSuccess
    /\ NextMessage
    /\ UNCHANGED <<loopVars, projdir, boundVars, histVars, phase, exitcode>>

\* destroySession and createSession in one handler: all the mailboxes are
\* emptied, those of the application agents by the first, the others when
\* their agents are activated again by the second.  (Mutant: they are not.)
AppMailboxesEmptied == Emptied(AppAgents)
MailboxesEmptied == Emptied(Agents)

ProjectStartsNextSession ==
    /\ DestroyingSession /\ session.open
    /\ ~LimitReached(Verdict)
    /\ Executed
    /\ target' = TargetsStopped(Probes)
    /\ CreateSession(DirsClosed(Verdict), MtaCleared)
    /\ mailbox' = MailboxesEmptied
    /\ CountSuccess
    /\ NextMessage
    /\ UNCHANGED <<loopVars, projdir, boundVars, histVars, phase, exitcode>>

\* SystemCalm.wait raises between the two sessions.
ProjectNotCalm ==
    /\ DestroyingSession /\ session.open
    /\ ~LimitReached(Verdict)
    /\ DestroySession(Verdict)
    /\ queue' = MtaCleared
    /\ CountSuccess
    /\ errors' = errors \cup {"calm"}
    /\ Raise
    /\ UNCHANGED <<loopVars, projdir, boundVars, final, stopIndex, faulty>>

ProjectDestroyRaises ==
    /\ DestroyingSession /\ session.open
    /\ DestroySessionRaises(Verdict)

\* "self.session.score = ..." with no session: AttributeError.
ProjectNoSession ==
    /\ DestroyingSession /\ ~session.open
    /\ Raise
    /\ UNCHANGED <<queue, mailbox, active, loopVars, projVars, fileVars,
                   boundVars, histVars, score, target>>

ProjectOnSessionDestroy ==
    \/ ProjectStopsAtLimit
    \/ ProjectStartsNextSession
    \/ ProjectNotCalm
    \/ ProjectDestroyRaises
    \/ ProjectNoSession

\* Project.live: the session timeout is reported once.
ProjectLive ==
    /\ Living("project")
    /\ IF session.open /\ timer = "expired"
       THEN SendMsg(Msg("session_stop")) /\ timer' = "off"
       ELSE UNCHANGED <<queue, timer>>
    /\ EndTurn
    /\ UNCHANGED <<mailbox, active, inbox, session, session_index,
                   session_executed, nb_success, fileVars, boundVars,
                   histVars, phase, exitcode, score, target>>

\* The session has lasted for session_timeout seconds.
Tick ==
    /\ phase = "run" /\ timer = "armed"
    /\ timer' = "expired"
    /\ UNCHANGED <<msgVars, loopVars, session, session_index,
                   session_executed, nb_success, fileVars, boundVars,
                   histVars, phase, exitcode, score, target>>

-----------------------------------------------------------------------------
(* The agents of the fuzzer: CreateProcess starts a target and WatchProcess *)
(* looks at it (fusil/process/create.py, watch.py); other agents only score.*)

Probing(p) == p \in Probes /\ Living(p)

\* ProjectProcess.on_session_start.
ProbeOnSessionStart(p) ==
    /\ p \in Probes /\ Handling(p, "session_start")
    /\ target' = [target EXCEPT ![p] = "running"]
    /\ NextMessage
    /\ UNCHANGED <<queue, mailbox, active, loopVars, projVars, fileVars,
                   boundVars, histVars, phase, exitcode, score>>

\* live() sees nothing new, or gives a score without asking for anything
\* (FileWatch, Debugger.processSignal).
ProbeWatches(p) ==
    /\ Probing(p)
    /\ \/ UNCHANGED score
       \/ /\ score[p] = NoScore
          /\ \E s \in ProbeScores : score' = [score EXCEPT ![p] = s]
    /\ EndTurn
    /\ UNCHANGED <<msgVars, projVars, fileVars, boundVars, histVars, phase,
                   exitcode, target>>

\* WatchProcess.processDone: the target has ended by itself.
ProbeTargetDone(p) ==
    /\ Probing(p)
    /\ target[p] = "running"
    /\ target' = [target EXCEPT ![p] = "idle"]
    /\ \E s \in ProbeScores : score' = [score EXCEPT ![p] = s]
    /\ SendMsg(Msg("session_stop"))
    /\ EndTurn
    /\ UNCHANGED <<mailbox, active, inbox, projVars, fileVars, boundVars,
                   histVars, phase, exitcode>>

\* Any agent may send the public events of doc/events.rst.
ProbeSends(p) ==
    /\ Probing(p)
    /\ sends > 0
    /\ sends' = sends - 1
    /\ \E e \in ProbeEvents :
          /\ SendMsg(Msg(e))
          /\ stopIndex' = IF e \in StopEvents /\ stopIndex = 0
                          THEN session_index ELSE stopIndex
          /\ errors' = errors \cup (IF e = "application_error" THEN {e} ELSE {})
    /\ EndTurn
    /\ UNCHANGED <<mailbox, active, inbox, projVars, fileVars, faults, final,
                   faulty, phase, exitcode, score, target>>

-----------------------------------------------------------------------------
(* Session.                                                                *)

\* The session is scored once; what comes later is ignored (mutant: it is
\* not).
SessionIgnoresNothing == FALSE
SessionIgnoresStop == session.stopped

\* The messages that tell the verdict (mutant: of a success only).
SuccessesOnly(s) ==
    IF IsSuccess(s) THEN <<Msg("session_success"), ScoredMsg("session_done", s)>>
                    ELSE << >>
VerdictMessages(s) ==
    IF IsSuccess(s) THEN <<Msg("session_success"), ScoredMsg("session_done", s)>>
                    ELSE <<ScoredMsg("session_done", s)>>

SessionOnSessionStop ==
    /\ Handling("session", "session_stop")
    /\ IF SessionIgnoresStop
       THEN UNCHANGED <<queue, session, final>>
       ELSE LET s == ComputeScore
            IN  /\ session' = [session EXCEPT !.stopped = TRUE]
                /\ final' = [final EXCEPT ![session_index] = s]
                /\ queue' = queue \o VerdictMessages(s)
    /\ NextMessage
    /\ UNCHANGED <<mailbox, active, loopVars, timer, session_index,
                   session_executed, nb_success, fileVars, boundVars,
                   stopIndex, faulty, errors, phase, exitcode, score, target>>

Decisive(s) == SuccessScore <= s \/ s <= ErrorScore

SessionLive ==
    /\ Living("session")
    /\ IF ~session.stopped /\ Decisive(ComputeScore)
       THEN SendMsg(Msg("session_stop"))
       ELSE UNCHANGED queue
    /\ EndTurn
    /\ UNCHANGED <<mailbox, active, inbox, worldVars>>

-----------------------------------------------------------------------------
(* The end of the run.                                                     *)

\* KeyboardInterrupt between two calls of the loop: executeProject stops.
Interrupt ==
    /\ phase = "run"
    /\ phase' = "deactivate"
    /\ inbox' = << >>
    /\ UNCHANGED <<queue, mailbox, active, loopVars, projVars, fileVars,
                   boundVars, histVars, exitcode, score, target>>

DeactivateProject ==
    /\ phase = "deactivate"
    /\ phase' = "destroy"
    /\ active' = active \ {"project"}
    /\ UNCHANGED <<queue, mailbox, inbox, loopVars, projVars, fileVars,
                   boundVars, histVars, exitcode, score, target>>

\* ProjectDirectory.keepDirectory, given the directories of the sessions:
\* those that are kept are no longer files the project generated (ignore).
\* (Mutant: the session directories still count as generated files.)
KeepProjectDirectoryOnError(ds) == exitcode # 0
KeepProjectDirectory(ds) ==
    \/ exitcode # 0
    \/ /\ session_executed # 0 \/ KeepSessions
       /\ \E k \in Sessions : ds[k] = "kept"

\* Project.destroy: AgentList.clear closes what is still active, an open
\* session first, and swallows the exceptions of deinit(); then the project
\* decides about its own directory.
DestroyProject ==
    /\ phase \in {"destroy", "abort"}
    /\ phase' = "done"
    /\ dirs' = IF "session" \in active THEN DirsClosed(session.score) ELSE dirs
    /\ \E F \in SUBSET (Probes \cap active) :
          /\ Cardinality(F) <= faults
          /\ faults' = faults - Cardinality(F)
          /\ faulty' = faulty \cup F
          /\ target' = TargetsStopped(Probes \ F)
    /\ projdir' = IF KeepProjectDirectory(dirs') THEN "kept" ELSE "removed"
    /\ session' = NoSession
    /\ active' = active \cap {"univers", "application"}
    /\ exitcode' = IF phase = "abort" THEN 1 ELSE exitcode
    /\ UNCHANGED <<queue, mailbox, inbox, loopVars, timer, session_index,
                   session_executed, nb_success, sends, final, stopIndex,
                   errors, score>>

\* Application.exit destroys the agents of the application.
ApplicationExit ==
    /\ phase = "done"
    /\ phase' = "exited"
    /\ active' = {}
    /\ UNCHANGED <<queue, mailbox, inbox, loopVars, projVars, fileVars,
                   boundVars, histVars, exitcode, score, target>>

Exited == phase = "exited" /\ UNCHANGED vars

-----------------------------------------------------------------------------
ProbeStep(p) ==
    ProbeOnSessionStart(p) \/ ProbeWatches(p) \/ ProbeTargetDone(p) \/ ProbeSends(p)

ProjectStep ==
    \/ ProjectOnSessionDone
    \/ ProjectOnProjectStop
    \/ ProjectOnUniversStop
    \/ ProjectOnUniversStopRaises
    \/ ProjectOnSessionDestroy
    \/ ProjectLive

\* What the only thread of the program does next.
Run ==
    \/ ActivateProject \/ ActivateProjectFails
    \/ MtaDeliver \/ MtaDone \/ SkipAgent \/ ReadMailbox \/ EndStep
    \/ UniversOnUniversStop \/ ApplicationOnStop \/ AppLive
    \/ ProjectStep
    \/ \E p \in Probes : ProbeStep(p)
    \/ SessionOnSessionStop \/ SessionLive
    \/ DeactivateProject \/ DestroyProject \/ ApplicationExit

Next == Run \/ Tick \/ Interrupt \/ Exited

Spec == Init /\ [][Next]_vars

\* The thread runs on, and the clock of the session timeout does too.
FairSpec == Spec /\ WF_vars(Run) /\ WF_vars(Tick)

-----------------------------------------------------------------------------
(* Properties.                                                             *)

Scores == {NoScore} \cup Int
Message == [event : Event, score : Scores, sess : 0..SessionBound]
MsgSeq == Seq(Message)

TypeOK ==
    /\ queue \in MsgSeq
    /\ mailbox \in [Agents -> MsgSeq]
    /\ active \in SUBSET Agents
    /\ inbox \in MsgSeq
    /\ phase \in {"activate", "run", "deactivate", "destroy", "abort", "done",
                  "exited"}
    /\ turn \in 0..(Len(Order) + 1)
    /\ popped \in BOOLEAN
    /\ is_done \in BOOLEAN
    /\ exitcode \in {0, 1}
    /\ session \in [score : Scores, stopped : BOOLEAN, open : BOOLEAN]
    /\ timer \in {"off", "armed", "expired"}
    /\ session_index \in 0..SessionBound
    /\ session_executed \in 0..SessionBound
    /\ nb_success \in 0..SessionBound
    /\ score \in [Probes -> Scores]
    /\ target \in [Probes -> {"idle", "running"}]
    /\ dirs \in [Sessions -> {"absent", "present", "kept", "removed"}]
    /\ projdir \in {"present", "kept", "removed"}
    /\ sends \in 0..SendBound
    /\ faults \in 0..FaultBound
    /\ final \in [Sessions -> Scores]
    /\ stopIndex \in 0..SessionBound
    /\ faulty \in SUBSET Probes
    /\ errors \in SUBSET {"calm", "deinit", "application_error"}

\* The messages that are still to be handled, in no particular order.
Pending == queue \o inbox \o mailbox["project"] \o mailbox["session"]
PendingIndex(E) == {i \in DOMAIN Pending : Pending[i].event \in E}

\* No message about one session is ever handled in another one: the queue,
\* every mailbox and the batch the project is working on speak of the
\* session that is open, whatever was in flight when destroySession ran.
NoStaleMessage ==
    phase = "run" =>
        \A i \in PendingIndex(SessionEvents) : Pending[i].sess = session_index

\* A session is judged once: however many session_stop it is sent, by the
\* probes, by its own score and by the timeout, at most one session_done or
\* project_session_destroy is in flight, and none before the session has
\* been scored.
OneVerdict ==
    LET Verdicts == PendingIndex({"session_done", "project_session_destroy"})
    IN  /\ Cardinality(Verdicts) <= 1
        /\ session.open /\ ~session.stopped /\ phase = "run" => Verdicts = {}

\* The limits of --sessions and --success: never one session more, and when
\* the last wanted success is counted no session is open.
LimitsRespected ==
    /\ 0 < MaxSession => session_index <= MaxSession
    /\ 0 < MaxSuccess =>
          /\ nb_success <= MaxSuccess
          /\ nb_success = MaxSuccess => ~session.open

\* Every session that was opened and closed is in the statistics exactly
\* once as long as the run is free of errors.
SessionsCounted ==
    phase = "run" /\ exitcode = 0 =>
        session_executed = session_index - IF session.open THEN 1 ELSE 0

\* Without --keep-sessions the directories left on the disk are those of
\* sessions that were scored a success, or that were closed after a fatal
\* error was reported, and while the run does not fail they are as many as the
\* successes that were announced.  (It is stated of states of the right type.)
KeptMatchesSuccess ==
    /\ TypeOK
    /\ ~KeepSessions =>
          LET Kept == {k \in Sessions : dirs[k] = "kept"}
          IN  /\ \A k \in Kept :
                    \/ IsSuccess(final[k])
                    \/ "application_error" \in errors /\ stopIndex <= k
              /\ exitcode = 0 => Cardinality(Kept) = nb_success

\* The directory of the project is not removed with a session directory that
\* was kept in it.
ProjectDirKept ==
    projdir = "removed" => \A k \in Sessions : dirs[k] # "kept"

\* No target outlives its session, unless the deinit() of its own agent
\* raised: not when sessions follow one another, not after an interrupt and
\* not after the failure of another agent.
NoOrphan ==
    phase \in {"run", "done", "exited"} /\ ~session.open =>
        \A p \in Probes \ faulty : target[p] = "idle"

\* When the univers has been stopped and the project had its turn, the
\* session is closed: the loop never ends by itself with a session open, and
\* a run that nobody asked to stop and in which nothing failed ends well.
StopClosesSession ==
    /\ phase = "run" /\ is_done /\ turn > 3 => ~session.open
    /\ errors = {} /\ stopIndex = 0 => exitcode = 0

\* A session that was told to stop is closed, by the project or by the end
\* of the run.
StoppedSessionEnds ==
    \A k \in Sessions :
        session.stopped /\ session.open /\ session_index = k
            ~> session_index > k \/ ~session.open

\* With a session timeout no session lasts forever, even when its target
\* never ends.
TimeoutEnds ==
    SessionTimeout =>
        \A k \in Sessions :
            phase = "run" /\ session.open /\ session_index = k
                ~> session_index > k \/ ~session.open

\* With a session timeout and a limit on the sessions the whole run ends by
\* itself, and the program exits.
RunEnds ==
    0 < MaxSession /\ SessionTimeout => <>(phase = "exited")

\* The agents and their messages implement the run the user was promised.
Stage ==
    CASE phase = "activate" -> "starting"
      [] phase = "run" -> "fuzzing"
      [] phase \in {"deactivate", "destroy", "abort"} -> "stopping"
      [] OTHER -> "over"

Promise == INSTANCE FuzzLoop WITH run <- Stage, opened <- session_index,
                inSession <- session.open, successes <- nb_success

ImplementsFuzzLoop == Promise!Spec

-----------------------------------------------------------------------------
(* What the documentation says and the code does not do.                   *)

\* doc/events.rst: application_interrupt is "Ask Fusil application to stop",
\* application_error a "Fatal Fusil error": the project may be on its way to
\* the next session, but it does not go on to another one.
StopHonoured ==
    stopIndex # 0 => session_index <= stopIndex + 1

=============================================================================
