--------------------------- MODULE ProcessProofs ---------------------------
(***************************************************************************)
(* Proofs about Process, for any exit codes, signals, number of sessions,  *)
(* with or without a timeout: whoever sees the end of a target first, none *)
(* is lost, none is reported twice, the score tells how it ended, and the  *)
(* agents are the probe that the project expects.                          *)
(***************************************************************************)
EXTENDS Process, TLAPS

-----------------------------------------------------------------------------
(* What terminate() does, for every caller.                                *)

\* CreateProcess.terminate leaves a reaped target and nothing that refers to
\* it.
LEMMA TerminatesLeavesNothing ==
    ASSUME Flags, DebuggerAgrees, Terminates
    PROVE  /\ process /\ target' = "reaped"
           /\ process' = FALSE /\ dbg_process' = FALSE /\ registered' = FALSE
           /\ show_exit' = FALSE /\ exits' = exits
<1>1. process /\ target' = "reaped" /\ process' = FALSE /\ dbg_process' = FALSE
  BY DEF Terminates, WaitsDead, Exited, Killed
<1>2. registered' = (registered /\ ~dbg_process)
  BY DEF Terminates, WaitsDead, Exited, Killed
<1>3. registered' = FALSE
  BY <1>2, Zenon DEF DebuggerAgrees, Flags
<1> QED
  BY <1>1, <1>3 DEF Terminates

\* When it raises, CreateProcess keeps the target it could not get rid of.
LEMMA RaisesLeavesFlags ==
    ASSUME NEW why \in Failures, TerminateRaises(why)
    PROVE  /\ process
           /\ UNCHANGED <<own, status, process, dbg_process, registered, exits>>
           /\ show_exit' = FALSE
           /\ target' \in {"running", "reaped"}
           /\ target' = "running" => why = "stuck" /\ Alive
BY DEF TerminateRaises, Failures

\* After a timeout the debugger and the agent still agree.
LEMMA CreateLiveFlags ==
    ASSUME Inv, CreateLive PROVE (Flags /\ DebuggerAgrees)'
<1>1. CASE TimeoutDue
  BY <1>1, TerminatesLeavesNothing
     DEF Inv, TypeOK, Flags, DebuggerAgrees, CreateLive, watchVars
<1>2. CASE ~TimeoutDue
  BY <1>2 DEF Inv, TypeOK, Flags, DebuggerAgrees, CreateLive, watchVars
<1> QED
  BY <1>1, <1>2

\* So they do after a timeout that could not kill the target.
LEMMA CreateLiveRaisesFlags ==
    ASSUME Inv, CreateLiveRaises PROVE (Flags /\ DebuggerAgrees)'
<1>1. PICK why \in Failures : TerminateRaises(why)
  BY DEF CreateLiveRaises
<1>2. /\ UNCHANGED <<open, signal_score, elapsed, enabled, pid>>
      /\ timeout_reached' = TRUE
  BY DEF CreateLiveRaises, watchVars
<1> QED
  BY <1>1, <1>2, RaisesLeavesFlags DEF Inv, TypeOK, Flags, DebuggerAgrees

\* So they do when deinit() could not kill it.
LEMMA CloseRaisesFlags ==
    ASSUME Inv, CloseSessionRaises PROVE (Flags /\ DebuggerAgrees)'
<1>1. PICK why \in Failures : TerminateRaises(why)
  BY DEF CloseSessionRaises
<1>2. UNCHANGED <<open, signal_score, elapsed, enabled, pid, timeout_reached>>
  BY DEF CloseSessionRaises, watchVars
<1> QED
  BY <1>1, <1>2, RaisesLeavesFlags DEF Inv, TypeOK, Flags, DebuggerAgrees

\* So they do when the watch finds a dead target, and when it is told of one
\* that the timeout has killed.
LEMMA WatchFindsDeadFlags ==
    ASSUME Inv, WatchFindsDead PROVE (Flags /\ DebuggerAgrees)'
<1>1. /\ UNCHANGED <<open, timeout_reached, signal_score, elapsed, enabled>>
      /\ pid' = FALSE
  BY DEF WatchFindsDead, Done
<1>2. CASE process
  <2>1. /\ process' = FALSE /\ dbg_process' = FALSE
        /\ registered' = (registered /\ ~dbg_process)
        /\ show_exit' = (show_exit /\ ~enabled)
    BY <1>2 DEF WatchFindsDead, PollsDead, WaitsDead, Exited, Inv, TypeOK, Flags
  <2>2. registered' = FALSE /\ show_exit' \in BOOLEAN
    BY <2>1, Zenon DEF DebuggerAgrees, Inv
  <2> QED
    BY <1>1, <2>1, <2>2 DEF Inv, TypeOK, Flags, DebuggerAgrees
<1>3. CASE ~process
  <2>1. UNCHANGED <<process, dbg_process, registered, show_exit>>
    BY <1>3 DEF WatchFindsDead, PollsDead, WaitsDead
  <2> QED
    BY <1>1, <2>1 DEF Inv, TypeOK, Flags, DebuggerAgrees
<1> QED
  BY <1>2, <1>3

\* AgentList.clear kills the target, or swallows the reason why it did not.
LEMMA DestroyAgentsEnds ==
    ASSUME Inv, DestroyAgents PROVE (EndInv /\ NoProcessLeft /\ ScoreTells)'
<1>1. CASE "create" \in active /\ process /\ Terminates
  BY <1>1, TerminatesLeavesNothing
     DEF Inv, TypeOK, EndInv, NoProcessLeft, ScoreTells, KnownInv, Alive,
         DestroyAgents
<1>2. ASSUME NEW why \in Failures, TerminateRaises(why),
             mishaps' = mishaps \cup ({why} \cap {"stuck"})
      PROVE  (EndInv /\ NoProcessLeft /\ ScoreTells)'
  BY <1>2, RaisesLeavesFlags
     DEF Inv, TypeOK, EndInv, NoProcessLeft, ScoreTells, KnownInv, Alive,
         DestroyAgents
<1>3. CASE /\ UNCHANGED <<targetVars, process, mishaps>>
           /\ "create" \in active => ~process
  BY <1>3 DEF Inv, TypeOK, EndInv, NoProcessLeft, ScoreTells, KnownInv, Alive,
              DestroyAgents, targetVars, ScoreOfStatus
<1> QED
  BY <1>1, <1>2, <1>3 DEF DestroyAgents, Deinit

-----------------------------------------------------------------------------
(* Every step of the loop, of the target and of the clock preserves Inv.   *)

\* MTA.live delivers what was sent and forgets what was delivered before.
LEMMA MtaLiveStep ==
    ASSUME Inv, MtaLive PROVE Inv'
<1>1. (Places /\ Numbers)'
  BY DEF Inv, TypeOK, Places, Numbers, MtaLive, Turn, targetVars, createVars,
     watchVars
<1>2. Sets'
  BY DEF Inv, TypeOK, Sets, MtaLive
<1>3. (Flags /\ DebuggerAgrees)'
  BY DEF Inv, TypeOK, Flags, DebuggerAgrees, MtaLive, createVars, debugVars,
     watchVars
<1>4. (MessagesInv /\ KnownInv /\ ReportedOnce)'
  BY DEF Inv, MessagesInv, KnownInv, ReportedOnce, Fresh, Announced, MtaLive,
     Turn, targetVars, createVars, watchVars
<1>5. (EndInv /\ NoProcessLeft /\ ScoreTells)'
  BY DEF Inv, EndInv, NoProcessLeft, ScoreTells, Alive, MtaLive, targetVars,
     createVars, watchVars
<1> QED
  BY <1>1, <1>2, <1>3, <1>4, <1>5 DEF Inv, TypeOK

\* Project.live leaves the session as it is.
LEMMA ProjectLiveStep ==
    ASSUME Inv, ProjectLive PROVE Inv'
<1>1. (Places /\ Numbers)'
  BY DEF Inv, TypeOK, Places, Numbers, ProjectLive, Turn, targetVars,
     createVars, watchVars
<1>2. Sets'
  BY DEF Inv, TypeOK, Sets, ProjectLive, msgVars
<1>3. (Flags /\ DebuggerAgrees)'
  BY DEF Inv, TypeOK, Flags, DebuggerAgrees, ProjectLive, createVars,
     debugVars, watchVars
<1>4. (MessagesInv /\ KnownInv /\ ReportedOnce)'
  BY DEF Inv, MessagesInv, KnownInv, ReportedOnce, Fresh, Announced,
     ProjectLive, Turn, targetVars, createVars, watchVars, msgVars
<1>5. (EndInv /\ NoProcessLeft /\ ScoreTells)'
  BY DEF Inv, EndInv, NoProcessLeft, ScoreTells, Alive, ProjectLive,
     targetVars, createVars, watchVars
<1> QED
  BY <1>1, <1>2, <1>3, <1>4, <1>5 DEF Inv, TypeOK

\* Project.createSession starts from agents that have forgotten the target
\* before.
LEMMA OpenSessionStep ==
    ASSUME Inv, OpenSession PROVE Inv'
<1>1. (Places /\ Numbers)'
  BY ProcessOptionsAssumption DEF Inv, TypeOK, Places, Numbers, Statuses,
     OpenSession, Turn, targetVars
<1>2. Sets'
  BY DEF Inv, TypeOK, Sets, OpenSession
<1>3. (Flags /\ DebuggerAgrees)'
  BY DEF Inv, TypeOK, Flags, DebuggerAgrees, KnownInv, OpenSession, Turn,
     debugVars
<1>4. (MessagesInv /\ KnownInv /\ ReportedOnce)'
  BY DEF Inv, MessagesInv, KnownInv, ReportedOnce, Fresh, Announced,
     OpenSession
<1>5. (EndInv /\ NoProcessLeft /\ ScoreTells)'
  BY DEF Inv, EndInv, NoProcessLeft, ScoreTells, Alive, OpenSession, Turn,
     targetVars
<1> QED
  BY <1>1, <1>2, <1>3, <1>4, <1>5 DEF Inv, TypeOK

\* Project.destroySession leaves no target behind.
LEMMA CloseSessionStep ==
    ASSUME Inv, CloseSession PROVE Inv'
<1>1. (Places /\ Numbers)'
  BY StatusAssumption DEF Inv, TypeOK, Places, Numbers, OwnEnds, Statuses,
     CloseSession, Deinit, Terminates, WaitsDead, Exited, Killed, targetVars
<1>2. Sets'
  BY DEF Inv, TypeOK, Sets, CloseSession
<1>3. (Flags /\ DebuggerAgrees)'
  BY DEF Inv, TypeOK, Flags, DebuggerAgrees, CloseSession, Deinit,
     Terminates, Exited, PidForgotten
<1>4. (MessagesInv /\ KnownInv /\ ReportedOnce)'
  BY DEF Inv, MessagesInv, KnownInv, ReportedOnce, Announced, CloseSession,
     Deinit, Terminates, Exited, PidForgotten
<1>5. (EndInv /\ NoProcessLeft /\ ScoreTells)'
  BY DEF Inv, EndInv, NoProcessLeft, ScoreTells, Alive, KnownInv,
     CloseSession, Deinit, Terminates, WaitsDead, Killed, targetVars
<1> QED
  BY <1>1, <1>2, <1>3, <1>4, <1>5 DEF Inv, TypeOK

\* Project.destroySession may fail in CreateProcess.deinit, and only then
\* leaves a target.
LEMMA CloseSessionRaisesStep ==
    ASSUME Inv, CloseSessionRaises PROVE Inv'
<1>1. (Places /\ Numbers)'
  BY DEF Inv, TypeOK, Places, Numbers, Statuses, CloseSessionRaises,
     TerminateRaises, Raise, watchVars
<1>2. Sets'
  BY DEF Inv, TypeOK, Sets, CloseSessionRaises, Raise, msgVars
<1>3. (Flags /\ DebuggerAgrees)'
  BY CloseRaisesFlags
<1>4. (MessagesInv /\ KnownInv /\ ReportedOnce)'
  BY DEF Inv, MessagesInv, KnownInv, ReportedOnce, Announced,
     CloseSessionRaises, TerminateRaises, Raise, watchVars, msgVars
<1>5. (EndInv /\ NoProcessLeft /\ ScoreTells)'
  BY DEF Inv, EndInv, NoProcessLeft, ScoreTells, Alive, CloseSessionRaises,
     TerminateRaises, Raise, watchVars
<1> QED
  BY <1>1, <1>2, <1>3, <1>4, <1>5 DEF Inv, TypeOK

\* Univers.execute ends at any point of a turn.
LEMMA EndRunStep ==
    ASSUME Inv, EndRun PROVE Inv'
<1>1. (Places /\ Numbers)'
  BY DEF Inv, TypeOK, Places, Numbers, EndRun, targetVars, createVars,
     watchVars
<1>2. Sets'
  BY DEF Inv, TypeOK, Sets, EndRun, msgVars
<1>3. (Flags /\ DebuggerAgrees)'
  BY DEF Inv, TypeOK, Flags, DebuggerAgrees, EndRun, createVars, debugVars,
     watchVars
<1>4. (MessagesInv /\ KnownInv /\ ReportedOnce)'
  BY DEF Inv, MessagesInv, KnownInv, ReportedOnce, Announced, EndRun,
     createVars, watchVars, msgVars
<1>5. (EndInv /\ NoProcessLeft /\ ScoreTells)'
  BY DEF Inv, EndInv, NoProcessLeft, ScoreTells, Alive, KnownInv, EndRun,
     targetVars, createVars, watchVars
<1> QED
  BY <1>1, <1>2, <1>3, <1>4, <1>5 DEF Inv, TypeOK

\* Debugger.on_project_stop kills the target behind the back of
\* CreateProcess.
LEMMA DebuggerTurnStep ==
    ASSUME Inv, DebuggerTurn PROVE Inv'
<1>1. (Places /\ Numbers)'
  BY DEF Inv, TypeOK, Places, Numbers, Statuses, DebuggerTurn, Turn,
     QuitsDebugger, targetVars, createVars, watchVars
<1>2. Sets'
  BY DEF Inv, TypeOK, Sets, DebuggerTurn, QuitsDebugger, msgVars
<1>3. (Flags /\ DebuggerAgrees)'
  BY DEF Inv, TypeOK, Flags, DebuggerAgrees, DebuggerTurn, QuitsDebugger,
     createVars, watchVars
<1>4. (MessagesInv /\ KnownInv /\ ReportedOnce)'
  BY DEF Inv, MessagesInv, KnownInv, ReportedOnce, Fresh, Announced,
     DebuggerTurn, Turn, QuitsDebugger, targetVars, createVars, watchVars,
     msgVars
<1>5. (EndInv /\ NoProcessLeft /\ ScoreTells)'
  BY DEF Inv, EndInv, NoProcessLeft, ScoreTells, Alive, DebuggerTurn,
     QuitsDebugger, targetVars, createVars, watchVars
<1> QED
  BY <1>1, <1>2, <1>3, <1>4, <1>5 DEF Inv, TypeOK

\* CreateProcess.createProcess starts a target when there is none.
LEMMA CreateStartsStep ==
    ASSUME Inv, CreateStarts PROVE Inv'
<1>1. (Places /\ Numbers)'
  BY DEF Inv, TypeOK, Places, Numbers, Statuses, CreateStarts, Turn,
     watchVars
<1>2. Sets'
  BY DEF Inv, TypeOK, Sets, CreateStarts
<1>3. (Flags /\ DebuggerAgrees)'
  BY DEF Inv, TypeOK, Flags, DebuggerAgrees, MessagesInv, Fresh,
     CreateStarts, Turn, watchVars
<1>4. (MessagesInv /\ KnownInv /\ ReportedOnce)'
  BY DEF Inv, MessagesInv, KnownInv, ReportedOnce, Fresh, Announced,
     CreateStarts, Turn, watchVars
<1>5. (EndInv /\ NoProcessLeft /\ ScoreTells)'
  BY DEF Inv, EndInv, NoProcessLeft, ScoreTells, KnownInv, MessagesInv,
     Fresh, CreateStarts, Turn, watchVars
<1> QED
  BY <1>1, <1>2, <1>3, <1>4, <1>5 DEF Inv, TypeOK

\* CreateProcess.createProcess may fail before or after the fork.
LEMMA CreateFailsStep ==
    ASSUME Inv, CreateFails PROVE Inv'
<1>1. (Places /\ Numbers)'
  BY DEF Inv, TypeOK, Places, Numbers, SigKill, Statuses, CreateFails, Raise,
     targetVars, watchVars
<1>2. Sets'
  BY DEF Inv, TypeOK, Sets, Failures, CreateFails, Raise, msgVars
<1>3. (Flags /\ DebuggerAgrees)'
  BY DEF Inv, TypeOK, Flags, DebuggerAgrees, MessagesInv, Fresh, CreateFails,
     debugVars, watchVars
<1>4. (MessagesInv /\ KnownInv /\ ReportedOnce)'
  BY DEF Inv, MessagesInv, KnownInv, ReportedOnce, Fresh, CreateFails, Raise,
     watchVars
<1>5. (EndInv /\ NoProcessLeft /\ ScoreTells)'
  BY DEF Inv, EndInv, NoProcessLeft, ScoreTells, Alive, MessagesInv, Fresh,
     CreateFails, targetVars, watchVars
<1> QED
  BY <1>1, <1>2, <1>3, <1>4, <1>5 DEF Inv, TypeOK

\* CreateProcess has no message to handle.
LEMMA CreateSkipsStep ==
    ASSUME Inv, CreateSkips PROVE Inv'
<1>1. (Places /\ Numbers)'
  BY DEF Inv, TypeOK, Places, Numbers, CreateSkips, Turn, targetVars,
     createVars, watchVars
<1>2. Sets'
  BY DEF Inv, TypeOK, Sets, CreateSkips, msgVars
<1>3. (Flags /\ DebuggerAgrees)'
  BY DEF Inv, TypeOK, Flags, DebuggerAgrees, CreateSkips, createVars,
     debugVars, watchVars
<1>4. (MessagesInv /\ KnownInv /\ ReportedOnce)'
  BY DEF Inv, MessagesInv, KnownInv, ReportedOnce, Fresh, Announced,
     CreateSkips, Turn, targetVars, createVars, watchVars, msgVars
<1>5. (EndInv /\ NoProcessLeft /\ ScoreTells)'
  BY DEF Inv, EndInv, NoProcessLeft, ScoreTells, Alive, CreateSkips,
     targetVars, createVars, watchVars
<1> QED
  BY <1>1, <1>2, <1>3, <1>4, <1>5 DEF Inv, TypeOK

\* CreateProcess.live kills the target at its timeout.
LEMMA CreateLiveStep ==
    ASSUME Inv, CreateLive PROVE Inv'
<1>1. (Places /\ Numbers)'
  BY StatusAssumption DEF Inv, TypeOK, Places, Numbers, OwnEnds, Statuses,
     CreateLive, Turn, Terminates, WaitsDead, Exited, Killed, targetVars,
     watchVars
<1>2. Sets'
  BY DEF Inv, TypeOK, Sets, CreateLive, msgVars
<1>3. (Flags /\ DebuggerAgrees)'
  BY CreateLiveFlags
<1>4. (MessagesInv /\ KnownInv /\ ReportedOnce)'
  BY DEF Inv, MessagesInv, KnownInv, ReportedOnce, Fresh, Announced,
     CreateLive, Turn, Terminates, Exited, targetVars, watchVars, msgVars
<1>5. (EndInv /\ NoProcessLeft /\ ScoreTells)'
  BY DEF Inv, EndInv, NoProcessLeft, ScoreTells, Alive, KnownInv, CreateLive,
     Terminates, WaitsDead, Killed, targetVars, watchVars
<1> QED
  BY <1>1, <1>2, <1>3, <1>4, <1>5 DEF Inv, TypeOK

\* CreateProcess.live may fail to kill the target.
LEMMA CreateLiveRaisesStep ==
    ASSUME Inv, CreateLiveRaises PROVE Inv'
<1>1. (Places /\ Numbers)'
  BY DEF Inv, TypeOK, Places, Numbers, Statuses, CreateLiveRaises,
     TerminateRaises, Raise, watchVars
<1>2. Sets'
  BY DEF Inv, TypeOK, Sets, CreateLiveRaises, Raise, msgVars
<1>3. (Flags /\ DebuggerAgrees)'
  BY CreateLiveRaisesFlags
<1>4. (MessagesInv /\ KnownInv /\ ReportedOnce)'
  BY DEF Inv, MessagesInv, KnownInv, ReportedOnce, Announced,
     CreateLiveRaises, TerminateRaises, Raise, watchVars, msgVars
<1>5. (EndInv /\ NoProcessLeft /\ ScoreTells)'
  BY DEF Inv, EndInv, NoProcessLeft, ScoreTells, KnownInv, CreateLiveRaises,
     TerminateRaises, Raise, watchVars
<1> QED
  BY <1>1, <1>2, <1>3, <1>4, <1>5 DEF Inv, TypeOK

\* WatchProcess.on_process_create takes the pid of the target.
LEMMA WatchLearnsStep ==
    ASSUME Inv, WatchLearns PROVE Inv'
<1>1. (Places /\ Numbers)'
  BY DEF Inv, TypeOK, Places, Numbers, WatchLearns, Turn, targetVars,
     createVars
<1>2. Sets'
  BY DEF Inv, TypeOK, Sets, WatchLearns
<1>3. (Flags /\ DebuggerAgrees)'
  BY DEF Inv, TypeOK, Flags, DebuggerAgrees, WatchLearns, createVars,
     debugVars
<1>4. (MessagesInv /\ KnownInv /\ ReportedOnce)'
  BY DEF Inv, MessagesInv, KnownInv, ReportedOnce, Fresh, Announced,
     WatchLearns, Turn, targetVars, createVars
<1>5. (EndInv /\ NoProcessLeft /\ ScoreTells)'
  BY DEF Inv, EndInv, NoProcessLeft, ScoreTells, Alive, WatchLearns,
     targetVars, createVars
<1> QED
  BY <1>1, <1>2, <1>3, <1>4, <1>5 DEF Inv, TypeOK

\* WatchProcess.on_process_create fails when the target is gone already.
LEMMA WatchTooLateStep ==
    ASSUME Inv, WatchTooLate PROVE Inv'
<1>1. (Places /\ Numbers)'
  BY DEF Inv, TypeOK, Places, Numbers, WatchTooLate, Raise, targetVars,
     createVars, watchVars
<1>2. Sets'
  BY DEF Inv, TypeOK, Sets, WatchTooLate, Raise
<1>3. (Flags /\ DebuggerAgrees)'
  BY DEF Inv, TypeOK, Flags, DebuggerAgrees, WatchTooLate, createVars,
     debugVars, watchVars
<1>4. (MessagesInv /\ KnownInv /\ ReportedOnce)'
  BY DEF Inv, MessagesInv, KnownInv, ReportedOnce, Announced, WatchTooLate,
     Raise, createVars, watchVars
<1>5. (EndInv /\ NoProcessLeft /\ ScoreTells)'
  BY DEF Inv, EndInv, NoProcessLeft, ScoreTells, Alive, WatchTooLate, Raise,
     targetVars, createVars, watchVars
<1> QED
  BY <1>1, <1>2, <1>3, <1>4, <1>5 DEF Inv, TypeOK

\* WatchProcess.live scores a target that has ended, once.
LEMMA WatchFindsDeadStep ==
    ASSUME Inv, WatchFindsDead PROVE Inv'
<1>1. (Places /\ Numbers)'
  BY StatusAssumption DEF Inv, TypeOK, Places, Numbers, Statuses,
     WatchFindsDead, Turn, PollsDead, WaitsDead, Exited, ExitMessages, Done,
     ComputeScore, ScoreOfStatus, targetVars
<1>2. Sets'
  BY DEF Inv, TypeOK, Sets, WatchFindsDead, msgVars
<1>3. (Flags /\ DebuggerAgrees)'
  BY WatchFindsDeadFlags
<1>4. (MessagesInv /\ KnownInv /\ ReportedOnce)'
  BY DEF Inv, MessagesInv, KnownInv, ReportedOnce, Fresh, Announced,
     WatchFindsDead, Turn, PollsDead, WaitsDead, Exited, ExitMessages, Done,
     msgVars
<1>5. (EndInv /\ NoProcessLeft /\ ScoreTells)'
  BY StatusAssumption DEF Inv, EndInv, NoProcessLeft, ScoreTells, Alive,
     KnownInv, WatchFindsDead, Turn, PollsDead, WaitsDead, Done,
     ComputeScore, targetVars
<1> QED
  BY <1>1, <1>2, <1>3, <1>4, <1>5 DEF Inv, TypeOK

\* WatchProcess.live lets the debugger continue the target.
LEMMA WatchFindsTrappedStep ==
    ASSUME Inv, WatchFindsTrapped PROVE Inv'
<1>1. (Places /\ Numbers)'
  BY DEF Inv, TypeOK, Places, Numbers, Statuses, WatchFindsTrapped, Turn,
     PollsTrapped, Continued, EndsWith, watchVars
<1>2. Sets'
  BY DEF Inv, TypeOK, Sets, WatchFindsTrapped, msgVars
<1>3. (Flags /\ DebuggerAgrees)'
  BY DEF Inv, TypeOK, Flags, DebuggerAgrees, WatchFindsTrapped, PollsTrapped,
     debugVars, watchVars
<1>4. (MessagesInv /\ KnownInv /\ ReportedOnce)'
  BY DEF Inv, MessagesInv, KnownInv, ReportedOnce, Fresh, Announced,
     WatchFindsTrapped, Turn, PollsTrapped, Continued, EndsWith, watchVars,
     msgVars
<1>5. (EndInv /\ NoProcessLeft /\ ScoreTells)'
  BY DEF Inv, EndInv, NoProcessLeft, ScoreTells, KnownInv, WatchFindsTrapped,
     Turn, PollsTrapped, Continued, EndsWith, watchVars
<1> QED
  BY <1>1, <1>2, <1>3, <1>4, <1>5 DEF Inv, TypeOK

\* WatchProcess.live finds a target that runs, or has none.
LEMMA WatchFindsNothingStep ==
    ASSUME Inv, WatchFindsNothing PROVE Inv'
<1>1. (Places /\ Numbers)'
  BY DEF Inv, TypeOK, Places, Numbers, WatchFindsNothing, Turn, targetVars,
     createVars, watchVars
<1>2. Sets'
  BY DEF Inv, TypeOK, Sets, WatchFindsNothing, msgVars
<1>3. (Flags /\ DebuggerAgrees)'
  BY DEF Inv, TypeOK, Flags, DebuggerAgrees, WatchFindsNothing, createVars,
     debugVars, watchVars
<1>4. (MessagesInv /\ KnownInv /\ ReportedOnce)'
  BY DEF Inv, MessagesInv, KnownInv, ReportedOnce, Fresh, Announced,
     WatchFindsNothing, Turn, targetVars, createVars, watchVars, msgVars
<1>5. (EndInv /\ NoProcessLeft /\ ScoreTells)'
  BY DEF Inv, EndInv, NoProcessLeft, ScoreTells, Alive, WatchFindsNothing,
     targetVars, createVars, watchVars
<1> QED
  BY <1>1, <1>2, <1>3, <1>4, <1>5 DEF Inv, TypeOK

\* The other agents may ask for the end of the project.
LEMMA OthersTurnStep ==
    ASSUME Inv, OthersTurn PROVE Inv'
<1>1. (Places /\ Numbers)'
  BY DEF Inv, TypeOK, Places, Numbers, OthersTurn, Turn, targetVars,
     createVars, watchVars
<1>2. Sets'
  BY DEF Inv, TypeOK, Sets, OthersTurn
<1>3. (Flags /\ DebuggerAgrees)'
  BY DEF Inv, TypeOK, Flags, DebuggerAgrees, OthersTurn, createVars,
     debugVars, watchVars
<1>4. (MessagesInv /\ KnownInv /\ ReportedOnce)'
  BY DEF Inv, MessagesInv, KnownInv, ReportedOnce, Fresh, Announced,
     OthersTurn, Turn, targetVars, createVars, watchVars
<1>5. (EndInv /\ NoProcessLeft /\ ScoreTells)'
  BY DEF Inv, EndInv, NoProcessLeft, ScoreTells, Alive, OthersTurn,
     targetVars, createVars, watchVars
<1> QED
  BY <1>1, <1>2, <1>3, <1>4, <1>5 DEF Inv, TypeOK

\* AgentList.clear closes CreateProcess, which kills its target or fails.
LEMMA DestroyAgentsStep ==
    ASSUME Inv, DestroyAgents PROVE Inv'
<1>1. (Places /\ Numbers)'
  BY StatusAssumption DEF Inv, TypeOK, Places, Numbers, OwnEnds, Statuses,
     DestroyAgents, Deinit, Terminates, WaitsDead, Exited, Killed,
     TerminateRaises, targetVars
<1>2. Sets'
  BY DEF Inv, TypeOK, Sets, DestroyAgents, msgVars
<1>3. (Flags /\ DebuggerAgrees)'
  BY DEF Inv, TypeOK, Flags, DebuggerAgrees, DestroyAgents, Deinit,
     Terminates, Exited, PidForgotten, TerminateRaises
<1>4. (MessagesInv /\ KnownInv /\ ReportedOnce)'
  BY DEF Inv, MessagesInv, KnownInv, ReportedOnce, Announced, DestroyAgents,
     Deinit, Terminates, PidForgotten, TerminateRaises, msgVars
<1>5. (EndInv /\ NoProcessLeft /\ ScoreTells)'
  BY DestroyAgentsEnds
<1> QED
  BY <1>1, <1>2, <1>3, <1>4, <1>5 DEF Inv, TypeOK

\* Debugger.destroy kills what it still traces.
LEMMA DestroyDebuggerStep ==
    ASSUME Inv, DestroyDebugger PROVE Inv'
<1>1. (Places /\ Numbers)'
  BY DEF Inv, TypeOK, Places, Numbers, Statuses, DestroyDebugger,
     QuitsDebugger, targetVars, createVars, watchVars
<1>2. Sets'
  BY DEF Inv, TypeOK, Sets, DestroyDebugger, QuitsDebugger, msgVars
<1>3. (Flags /\ DebuggerAgrees)'
  BY DEF Inv, TypeOK, Flags, DebuggerAgrees, DestroyDebugger, QuitsDebugger,
     createVars, watchVars
<1>4. (MessagesInv /\ KnownInv /\ ReportedOnce)'
  BY DEF Inv, MessagesInv, KnownInv, ReportedOnce, Announced,
     DestroyDebugger, createVars, watchVars, msgVars
<1>5. (EndInv /\ NoProcessLeft /\ ScoreTells)'
  BY DEF Inv, EndInv, NoProcessLeft, ScoreTells, Alive, DestroyDebugger,
     QuitsDebugger, targetVars, createVars, watchVars
<1> QED
  BY <1>1, <1>2, <1>3, <1>4, <1>5 DEF Inv, TypeOK

\* The target ends or is stopped by the debugger between any two calls.
LEMMA TargetMovesStep ==
    ASSUME Inv, TargetMoves PROVE Inv'
<1>1. (Places /\ Numbers)'
  BY StatusAssumption DEF Inv, TypeOK, Places, Numbers, Statuses,
     TargetMoves, EndsWith, loopVars, createVars, watchVars
<1>2. Sets'
  BY DEF Inv, TypeOK, Sets, TargetMoves, loopVars, msgVars
<1>3. (Flags /\ DebuggerAgrees)'
  BY DEF Inv, TypeOK, Flags, DebuggerAgrees, TargetMoves, loopVars,
     createVars, debugVars, watchVars
<1>4. (MessagesInv /\ KnownInv /\ ReportedOnce)'
  BY DEF Inv, MessagesInv, KnownInv, ReportedOnce, Fresh, Announced,
     TargetMoves, EndsWith, loopVars, createVars, watchVars, msgVars
<1>5. (EndInv /\ NoProcessLeft /\ ScoreTells)'
  BY StatusAssumption DEF Inv, SigKill, EndInv, NoProcessLeft, ScoreTells,
     Alive, KnownInv, TargetMoves, EndsWith, loopVars, createVars, watchVars
<1> QED
  BY <1>1, <1>2, <1>3, <1>4, <1>5 DEF Inv, TypeOK

\* The clock changes nothing but the timeout.
LEMMA TickStep ==
    ASSUME Inv, Tick PROVE Inv'
<1>1. (Places /\ Numbers)'
  BY DEF Inv, TypeOK, Places, Numbers, Tick, targetVars, loopVars, watchVars
<1>2. Sets'
  BY DEF Inv, TypeOK, Sets, Tick, loopVars, msgVars
<1>3. (Flags /\ DebuggerAgrees)'
  BY DEF Inv, TypeOK, Flags, DebuggerAgrees, Tick, loopVars, debugVars,
     watchVars
<1>4. (MessagesInv /\ KnownInv /\ ReportedOnce)'
  BY DEF Inv, MessagesInv, KnownInv, ReportedOnce, Fresh, Announced, Tick,
     targetVars, loopVars, watchVars, msgVars
<1>5. (EndInv /\ NoProcessLeft /\ ScoreTells)'
  BY DEF Inv, EndInv, NoProcessLeft, ScoreTells, KnownInv, Tick, targetVars,
     loopVars, watchVars
<1> QED
  BY <1>1, <1>2, <1>3, <1>4, <1>5 DEF Inv, TypeOK

\* Nothing happens, for instance when the run is over.
LEMMA StutterStep ==
    ASSUME Inv, UNCHANGED vars PROVE Inv'
<1>1. (Places /\ Numbers)'
  BY DEF Inv, TypeOK, Places, Numbers, vars, targetVars, loopVars,
     createVars, watchVars
<1>2. Sets'
  BY DEF Inv, TypeOK, Sets, vars, loopVars, msgVars
<1>3. (Flags /\ DebuggerAgrees)'
  BY DEF Inv, TypeOK, Flags, DebuggerAgrees, vars, loopVars, createVars,
     debugVars, watchVars
<1>4. (MessagesInv /\ KnownInv /\ ReportedOnce)'
  BY DEF Inv, MessagesInv, KnownInv, ReportedOnce, Announced, vars, loopVars,
     createVars, watchVars, msgVars, Fresh, targetVars
<1>5. (EndInv /\ NoProcessLeft /\ ScoreTells)'
  BY DEF Inv, EndInv, NoProcessLeft, ScoreTells, Alive, vars, targetVars,
     loopVars, createVars, watchVars
<1> QED
  BY <1>1, <1>2, <1>3, <1>4, <1>5 DEF Inv, TypeOK

-----------------------------------------------------------------------------
(* The invariant and what follows from it.                                 *)

\* Before the first session there is no target.
LEMMA InitInv == Init => Inv
<1> SUFFICES ASSUME Init PROVE Inv
  OBVIOUS
<1>1. Places /\ Numbers
  BY ProcessOptionsAssumption DEF Init, Places, Numbers, Statuses
<1>2. Sets
  BY DEF Init, Sets
<1>3. Flags
  BY DEF Init, Flags
<1>4. MessagesInv /\ KnownInv /\ ReportedOnce
  BY DEF Init, MessagesInv, KnownInv, ReportedOnce, Announced
<1>5. EndInv /\ NoProcessLeft /\ ScoreTells /\ DebuggerAgrees
  BY DEF Init, EndInv, NoProcessLeft, ScoreTells, DebuggerAgrees, Alive
<1> QED
  BY <1>1, <1>2, <1>3, <1>4, <1>5 DEF Inv, TypeOK

\* The inductive invariant.
THEOREM Invariance == Spec => []Inv
<1>1. Inv /\ [Next]_vars => Inv'
  <2> SUFFICES ASSUME Inv, [Next]_vars PROVE Inv'
    OBVIOUS
  <2>1. CASE UNCHANGED vars
    BY <2>1, StutterStep
  <2>2. CASE Run
    BY <2>2, MtaLiveStep, ProjectLiveStep, OpenSessionStep, CloseSessionStep,
       CloseSessionRaisesStep, DebuggerTurnStep, CreateStartsStep,
       CreateFailsStep, CreateSkipsStep, CreateLiveStep,
       CreateLiveRaisesStep, WatchLearnsStep, WatchTooLateStep,
       WatchFindsDeadStep, WatchFindsTrappedStep,
       WatchFindsNothingStep, OthersTurnStep, DestroyAgentsStep,
       DestroyDebuggerStep
       DEF Run
  <2> QED
    BY <2>1, <2>2, EndRunStep, TargetMovesStep, TickStep, StutterStep
       DEF Next, Over
<1> QED
  BY <1>1, InitInv, PTL DEF Spec

\* The state of the target, its agents and the loop has its type.
THEOREM TypeCorrect == Spec => []TypeOK
<1>1. Inv => TypeOK
  BY DEF Inv
<1> QED
  BY <1>1, Invariance, PTL

\* No target is lost: neither when a session is closed nor when the run ends
\* (CreateProcess.terminate, waitExit and deinit).
THEOREM NoProcessIsLeft == Spec => []NoProcessLeft
<1>1. Inv => NoProcessLeft
  BY DEF Inv
<1> QED
  BY <1>1, Invariance, PTL

\* Debugger.fusil_processes holds the targets that CreateProcess has attached
\* and not detached.
THEOREM DebuggerStaysInStep == Spec => []DebuggerAgrees
<1>1. Inv => DebuggerAgrees
  BY DEF Inv
<1> QED
  BY <1>1, Invariance, PTL

\* The debugger, the watch and the timeout never report one end twice
\* (CreateProcess.show_exit, WatchProcess.pid).
THEOREM ReportedAtMostOnce == Spec => []ReportedOnce
<1>1. Inv => ReportedOnce
  BY DEF Inv
<1> QED
  BY <1>1, Invariance, PTL

\* WatchProcess.computeScore tells how the target ended by itself.
THEOREM ScoreIsTrue == Spec => []ScoreTells
<1>1. Inv => ScoreTells
  BY DEF Inv
<1> QED
  BY <1>1, Invariance, PTL

-----------------------------------------------------------------------------
(* Process implements Probe.                                               *)

\* Before the first session nothing is open, running or scored.
LEMMA InitPromise == Init => Expected!Init
BY DEF Init, Expected!Init, Life, Running, Announced

\* Most steps are stuttering steps of Probe: the loop goes on, the target moves,
\* the debugger continues it or kills it.
LEMMA QuietPromise ==
    ASSUME MtaLive \/ ProjectLive \/ DebuggerTurn \/ CreateSkips
             \/ WatchFindsTrapped \/ WatchFindsNothing \/ OthersTurn
             \/ TargetMoves \/ Tick \/ Over \/ UNCHANGED vars,
           Inv
    PROVE  UNCHANGED Expected!vars
<1>1. UNCHANGED <<phase, open, process, pid, score, stops>>
  BY DEF MtaLive, ProjectLive, DebuggerTurn, CreateSkips, WatchFindsTrapped,
         WatchFindsNothing, OthersTurn, TargetMoves, Tick, Over, Turn,
         vars, loopVars, createVars, watchVars
<1>2. CASE MtaLive
  <2>1. "process_create" \notin inbox
    BY <1>2 DEF Inv, MessagesInv, MtaLive, Turn
  <2> QED
    BY <1>1, <1>2, <2>1 DEF MtaLive, Announced, Expected!vars, Life, Running
<1>3. CASE ~MtaLive
  <2>1. UNCHANGED inbox /\ sent' \in {sent, sent \cup {"project_stop"}}
    BY <1>3 DEF ProjectLive, DebuggerTurn, CreateSkips, WatchFindsTrapped,
         WatchFindsNothing, OthersTurn, TargetMoves, Tick, Over, vars, msgVars
  <2> QED
    BY <1>1, <2>1 DEF Announced, Expected!vars, Life, Running
<1> QED
  BY <1>2, <1>3

\* Killing the target at its timeout is one as well: the watch, which knows of
\* it or is about to, has not given its score.
LEMMA TimeoutPromise ==
    ASSUME Inv, CreateLive PROVE UNCHANGED Expected!vars
<1>1. UNCHANGED <<phase, open, pid, score, stops, sent, inbox>>
  BY DEF CreateLive, Turn, watchVars, msgVars
<1>2. process' = process \/ (process /\ process' = FALSE)
  BY TerminatesLeavesNothing DEF CreateLive, Inv, TypeOK
<1>3. phase = "run" /\ (process => pid \/ Announced)
  BY DEF CreateLive, Turn, Inv, KnownInv
<1> QED
  BY <1>1, <1>2, <1>3 DEF Expected!vars, Life, Running, Announced

\* The watch learns of a target that was running before.
LEMMA LearnsPromise ==
    ASSUME Inv, WatchLearns PROVE UNCHANGED Expected!vars
<1>1. UNCHANGED <<phase, open, process, score, stops, sent>>
  BY DEF WatchLearns, Turn, createVars
<1>2. CASE "process_create" \in inbox
  BY <1>1, <1>2 DEF WatchLearns, Expected!vars, Life, Running
<1>3. CASE "process_create" \notin inbox
  BY <1>1, <1>3 DEF WatchLearns, Expected!vars, Life, Running, Announced
<1> QED
  BY <1>2, <1>3

\* Project.createSession opens a session without a target.
LEMMA OpenPromise ==
    ASSUME Inv, OpenSession PROVE Expected!Open
<1>1. ~process /\ ~pid /\ ~Announced /\ phase = "run"
  BY DEF OpenSession, Turn, Inv, KnownInv
<1>2. ~process' /\ ~pid' /\ ~Announced' /\ phase' = "run"
  BY <1>1 DEF OpenSession, Announced
<1> QED
  BY <1>1, <1>2 DEF OpenSession, Expected!Open, Life, Running

\* createProcess starts the target of the session.
LEMMA StartPromise ==
    ASSUME Inv, CreateStarts PROVE Expected!Start
<1>1. phase = "run" /\ ~process /\ ~pid /\ ~Announced /\ stops = 0
  BY DEF CreateStarts, Turn, Inv, MessagesInv, Fresh
<1>2. open
  BY <1>1 DEF CreateStarts, Turn, Inv, KnownInv
<1>3. phase' = phase /\ open' = open /\ process' /\ UNCHANGED <<score, stops>>
  BY DEF CreateStarts, watchVars
<1> QED
  BY <1>1, <1>2, <1>3 DEF Expected!Start, Life, Running

\* processDone gives the score and asks for the end of the session.
LEMMA DonePromise ==
    ASSUME Inv, WatchFindsDead PROVE Expected!Done
<1>1. phase = "run" /\ pid /\ open /\ ~Announced
  BY DEF WatchFindsDead, Turn, Inv, KnownInv
<1>2. UNCHANGED <<phase, open, sent, inbox>>
  BY DEF WatchFindsDead, msgVars
<1>3. PICK s : Done(s)
  BY DEF WatchFindsDead
<1>4. score' \in {"default", "exitcode", "signal", "timeout"}
  BY <1>3 DEF Done, ComputeScore, ScoreOfStatus
<1>5. ~pid' /\ (stops' # 0)
  BY <1>3 DEF Done, Inv, TypeOK, Numbers
<1>6. ~process'
  BY DEF WatchFindsDead, PollsDead, Exited
<1> QED
  BY <1>1, <1>2, <1>4, <1>5, <1>6 DEF Expected!Done, Life, Running, Announced

\* Project.destroySession closes the session, with or without a verdict.
LEMMA ClosePromise ==
    ASSUME Inv, CloseSession PROVE Expected!Close
<1>1. phase = "run" /\ open /\ phase' = phase /\ ~open'
  BY DEF CloseSession
<1>2. ~process'
  BY TerminatesLeavesNothing DEF CloseSession, Deinit, Inv, TypeOK
<1>3. ~pid' /\ ~Announced' /\ UNCHANGED <<score, stops>>
  BY DEF CloseSession, PidForgotten, Announced
<1> QED
  BY <1>1, <1>2, <1>3 DEF Expected!Close, Life, Running

\* An exception or an interrupt gives the run up.
LEMMA BreakPromise ==
    ASSUME CloseSessionRaises \/ EndRun \/ CreateFails \/ CreateLiveRaises
             \/ WatchTooLate
    PROVE  Expected!Break
<1>1. phase = "run" /\ phase' = "stopping" /\ UNCHANGED <<score, stops>>
  BY DEF CloseSessionRaises, EndRun, CreateFails, CreateLiveRaises,
         WatchTooLate, Raise, watchVars
<1>2. Running' \in {"idle", "running"}
  BY DEF Running
<1> QED
  BY <1>1, <1>2 DEF Expected!Break, Life

\* Project.destroy ends it.
LEMMA EndPromise ==
    ASSUME Inv, DestroyAgents \/ DestroyDebugger PROVE Expected!End
<1>1. CASE DestroyAgents
  <2>1. /\ phase = "stopping" /\ phase' = "closing" /\ ~pid'
        /\ UNCHANGED <<score, stops, sent, inbox>>
    BY <1>1 DEF DestroyAgents, PidForgotten, msgVars
  <2>2. process' => process
    BY <1>1, TerminatesLeavesNothing, RaisesLeavesFlags
       DEF DestroyAgents, Deinit, Inv, TypeOK
  <2>3. Running' \in {"idle", Running}
    BY <2>1, <2>2 DEF Running, Announced
  <2> QED
    BY <2>1, <2>3 DEF Expected!End, Life
<1>2. CASE DestroyDebugger
  <2>1. /\ phase = "closing" /\ phase' = "over"
        /\ UNCHANGED <<process, pid, score, stops, sent, inbox>>
    BY <1>2 DEF DestroyDebugger, createVars, watchVars, msgVars
  <2> QED
    BY <2>1 DEF Expected!End, Life, Running, Announced
<1> QED
  BY <1>1, <1>2

\* CreateProcess, WatchProcess and Debugger are together the probe that the
\* project expects, whatever the target and the timeout do.
THEOREM ProcessImplementsProbe == Spec => ImplementsProbe
<1>1. Inv /\ [Next]_vars => [Expected!Next]_(Expected!vars)
  <2> SUFFICES ASSUME Inv, [Next]_vars PROVE [Expected!Next]_(Expected!vars)
    OBVIOUS
  <2> QED
    BY QuietPromise, TimeoutPromise, LearnsPromise, OpenPromise, StartPromise,
       DonePromise, ClosePromise, BreakPromise, EndPromise
       DEF Next, Run, Expected!Next
<1> QED
  BY <1>1, InitPromise, Invariance, PTL
     DEF Spec, ImplementsProbe, Expected!Spec
=============================================================================
