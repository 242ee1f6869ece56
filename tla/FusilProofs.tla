----------------------------- MODULE FusilProofs -----------------------------
(***************************************************************************)
(* Proofs about Fusil, for any probes, scores, limits and bounds.          *)
(*                                                                         *)
(* 1. The run (Inv): it respects its limits, counts its sessions, keeps    *)
(*    the directory of the project when it must, and implements FuzzLoop.  *)
(* 2. Its messages (MsgInv): NoStaleMessage, OneVerdict, NoOrphan and      *)
(*    StopClosesSession.  None is inductive: each depends on what is in    *)
(*    the queue of the MTA, in the mailboxes and in the batch an agent has *)
(*    read, and on where the loop of Univers is.                           *)
(* 3. Its verdicts (VerdictInv): TypeOK and KeptMatchesSuccess.  The score *)
(*    of a session stays the one its verdict announced until the project   *)
(*    has counted it and the directory was judged.                         *)
(*                                                                         *)
(* Each part is one lemma for each action of Next, on the invariant of the *)
(* part before; a step that only sends, or only handles, one message is a  *)
(* MailStep, and the lemmas about MailStep serve most actions.             *)
(***************************************************************************)
EXTENDS Fusil, TLAPS, SequenceTheorems, FiniteSetTheorems, WellFoundedInduction

-----------------------------------------------------------------------------
(***************************************************************************)
(* 1. The run.                                                             *)
(***************************************************************************)

Phases == {"activate", "run", "deactivate", "destroy", "abort", "done", "exited"}

\* The variables the theorems are about.
ControlOK ==
    /\ phase \in Phases
    /\ exitcode \in {0, 1}
    /\ session_index \in 0..SessionBound
    /\ session_executed \in Nat
    /\ nb_success \in Nat
    /\ session = [score |-> session.score, stopped |-> session.stopped,
                  open |-> session.open]
    /\ session.open \in BOOLEAN
    /\ dirs \in [Sessions -> {"absent", "present", "kept", "removed"}]

\* Nothing happened before the first session; no session is open once the
\* project is destroyed or when it was never activated.
StartInv ==
    /\ phase \in {"activate", "abort"} =>
          /\ session_index = 0 /\ nb_success = 0 /\ session_executed = 0
          /\ exitcode = 0
    /\ phase \in {"activate", "abort", "done", "exited"} => ~session.open
    /\ session.open => session_index # 0

\* A session only gets its score from the handler that closes it.  When this
\* handler fails the score stays, but so does the exit code.
ScoreInv == exitcode = 0 => session.score = NoScore

\* A directory was only kept for a session in the statistics, for an error or
\* because the user asked for it.
KeptInv ==
    /\ \A k \in Sessions :
          dirs[k] = "kept" /\ exitcode = 0 /\ ~KeepSessions =>
              session_executed # 0
    /\ \A k \in Sessions : k > session_index => dirs[k] = "absent"
    /\ projdir = "removed" => phase \in {"done", "exited"}

Inv ==
    /\ ControlOK
    /\ StartInv
    /\ ScoreInv
    /\ KeptInv
    /\ LimitsRespected
    /\ SessionsCounted
    /\ ProjectDirKept

coreVars == <<phase, exitcode, session_index, session_executed, nb_success,
              session, dirs, projdir>>

-----------------------------------------------------------------------------
(* The steps that change none of these variables.                          *)

Quiet ==
    \/ MtaDeliver \/ MtaDone \/ SkipAgent \/ ReadMailbox
    \/ UniversOnUniversStop \/ AppLive
    \/ ProjectOnSessionDone \/ ProjectOnProjectStop \/ ProjectLive
    \/ (ProjectOnUniversStop /\ ~session.open)
    \/ \E p \in Probes : ProbeStep(p)
    \/ SessionLive \/ Tick \/ Exited

\* The quiet steps leave the variables of the invariant alone.
LEMMA QuietSteps == Quiet => UNCHANGED coreVars
<1> USE DEF coreVars, worldVars, projVars, fileVars
<1>1. ASSUME MtaDeliver \/ MtaDone \/ SkipAgent \/ ReadMailbox
      PROVE  UNCHANGED coreVars
  BY <1>1 DEF MtaDeliver, MtaDone, SkipAgent, ReadMailbox
<1>2. ASSUME UniversOnUniversStop \/ AppLive \/ SessionLive \/ Tick
      PROVE  UNCHANGED coreVars
  BY <1>2 DEF UniversOnUniversStop, AppLive, SessionLive, Tick
<1>3. ASSUME ProjectOnSessionDone \/ ProjectOnProjectStop \/ ProjectLive
      PROVE  UNCHANGED coreVars
  BY <1>3 DEF ProjectOnSessionDone, ProjectOnProjectStop, ProjectLive
<1>4. ASSUME ProjectOnUniversStop, ~session.open
      PROVE  UNCHANGED coreVars
  BY <1>4 DEF ProjectOnUniversStop, ClosesOnStop
<1>5. ASSUME NEW p \in Probes, ProbeStep(p)
      PROVE  UNCHANGED coreVars
  BY <1>5 DEF ProbeStep, ProbeOnSessionStart, ProbeWatches, ProbeTargetDone,
              ProbeSends
<1>6. ASSUME Exited PROVE UNCHANGED coreVars
  BY <1>6 DEF Exited, vars
<1> QED
  BY <1>1, <1>2, <1>3, <1>4, <1>5, <1>6 DEF Quiet

\* A step that leaves them alone preserves the invariant.
LEMMA QuietInv == Inv /\ UNCHANGED coreVars => Inv'
BY DEF coreVars, Inv, ControlOK, StartInv, ScoreInv, KeptInv, LimitsRespected,
       SessionsCounted, ProjectDirKept

\* Steps that only move the run from one phase to another.
Moves ==
    \/ ActivateProjectFails
    \/ EndStep
    \/ Interrupt
    \/ DeactivateProject
    \/ ApplicationExit

\* A move leaves the project, its session and the directories alone.
LEMMA MoveSteps ==
    ASSUME Inv, Moves
    PROVE  /\ UNCHANGED <<exitcode, session_index, session_executed,
                          nb_success, session, dirs, projdir>>
           /\ \/ phase = "activate" /\ phase' = "abort"
              \/ phase = "run" /\ phase' \in {"run", "deactivate"}
              \/ phase = "deactivate" /\ phase' = "destroy"
              \/ phase = "done" /\ phase' = "exited"
<1> USE DEF projVars, fileVars
<1>1. CASE ActivateProjectFails
  BY <1>1 DEF ActivateProjectFails
<1>2. CASE EndStep
  BY <1>2 DEF EndStep
<1>3. CASE Interrupt
  BY <1>3 DEF Interrupt
<1>4. CASE DeactivateProject
  BY <1>4 DEF DeactivateProject
<1>5. CASE ApplicationExit
  BY <1>5 DEF ApplicationExit
<1> QED
  BY <1>1, <1>2, <1>3, <1>4, <1>5 DEF Moves

\* The moves preserve the invariant.
LEMMA MovesInv == Inv /\ Moves => Inv'
BY MoveSteps DEF Inv, ControlOK, StartInv, ScoreInv, KeptInv, LimitsRespected,
       SessionsCounted, ProjectDirKept, Phases

\* An error message sets the exit code, a stopped session is remembered.
LEMMA ApplicationOnStopInv == Inv /\ ApplicationOnStop => Inv'
<1> SUFFICES ASSUME Inv, ApplicationOnStop PROVE Inv'
  OBVIOUS
<1>1. /\ exitcode' = exitcode \/ exitcode' = 1
      /\ phase = "run"
      /\ UNCHANGED <<phase, session_index, session_executed, nb_success,
                     session, dirs, projdir>>
  BY DEF ApplicationOnStop, Handling, AgentTurn, projVars, fileVars
<1> QED
  BY <1>1 DEF Inv, ControlOK, StartInv, ScoreInv, KeptInv, LimitsRespected,
              SessionsCounted, ProjectDirKept

\* Session.on_session_stop only marks the session as stopped.
LEMMA SessionOnSessionStopInv == Inv /\ SessionOnSessionStop => Inv'
<1> SUFFICES ASSUME Inv, SessionOnSessionStop PROVE Inv'
  OBVIOUS
<1>1. /\ \/ session' = session
         \/ session' = [session EXCEPT !.stopped = TRUE]
      /\ UNCHANGED <<phase, exitcode, session_index, session_executed,
                     nb_success, dirs, projdir>>
  BY DEF SessionOnSessionStop, fileVars
<1>2. session' = [score |-> session.score, stopped |-> session'.stopped,
                  open |-> session.open]
  BY <1>1 DEF Inv, ControlOK
<1> QED
  BY <1>1, <1>2 DEF Inv, ControlOK, StartInv, ScoreInv, KeptInv,
                    LimitsRespected, SessionsCounted, ProjectDirKept

-----------------------------------------------------------------------------
(* The steps that open and close sessions.                                 *)

\* Closing the directory of the open session changes that directory only.
LEMMA ClosedDirectory ==
    ASSUME Inv, NEW s
    PROVE  /\ DirsClosed(s) \in [Sessions -> {"absent", "present", "kept", "removed"}]
           /\ \A k \in Sessions :
                 k # session_index => DirsClosed(s)[k] = dirs[k]
           /\ \A k \in Sessions :
                 k = session_index =>
                     DirsClosed(s)[k] = IF KeepDirectory(s) THEN "kept" ELSE "removed"
BY DEF Inv, ControlOK, DirsClosed

\* The session that is opened next.
LEMMA OpenedSession ==
    ASSUME NEW before, NEW waiting, CreateSession(before, waiting)
    PROVE  /\ session_index < SessionBound
           /\ session_index' = session_index + 1
           /\ session' = [score |-> NoScore, stopped |-> FALSE, open |-> TRUE]
           /\ dirs' = [before EXCEPT ![session_index + 1] = "present"]
BY DEF CreateSession

\* Project.activate opens the first session in the first directory.
LEMMA ActivateProjectInv == Inv /\ ActivateProject => Inv'
<1> SUFFICES ASSUME Inv, ActivateProject PROVE Inv'
  OBVIOUS
<1>1. /\ phase = "activate" /\ phase' = "run"
      /\ session_index < SessionBound
      /\ session_index' = session_index + 1
      /\ session' = [score |-> NoScore, stopped |-> FALSE, open |-> TRUE]
      /\ dirs' = [dirs EXCEPT ![session_index + 1] = "present"]
      /\ UNCHANGED <<exitcode, session_executed, nb_success, projdir>>
  BY OpenedSession DEF ActivateProject
<1>2. /\ session_index = 0 /\ nb_success = 0 /\ session_executed = 0
      /\ exitcode = 0
  BY <1>1 DEF Inv, StartInv
<1>3. /\ session'.open /\ session'.score = NoScore
      /\ session' = [score |-> session'.score, stopped |-> session'.stopped,
                     open |-> session'.open]
  BY <1>1
<1>4. ControlOK'
  <2>1. session_index' \in 0..SessionBound
    BY <1>1, <1>2, BoundsAssumption
  <2>2. dirs' \in [Sessions -> {"absent", "present", "kept", "removed"}]
    BY <1>1 DEF Inv, ControlOK
  <2>3. session'.open \in BOOLEAN
    BY <1>3
  <2> QED
    BY <1>1, <1>3, <2>1, <2>2, <2>3 DEF Inv, ControlOK, Phases
<1>9. StartInv' /\ ScoreInv'
  BY <1>1, <1>2, <1>3 DEF StartInv, ScoreInv
<1>5. LimitsRespected' /\ SessionsCounted'
  BY <1>1, <1>2, <1>3, OptionsAssumption DEF LimitsRespected, SessionsCounted
<1>6. \A k \in Sessions : dirs'[k] = "kept" => dirs[k] = "kept"
  BY <1>1 DEF Inv, ControlOK
<1>7. \A k \in Sessions : k > session_index' => dirs'[k] = "absent"
  BY <1>1, <1>2 DEF Inv, ControlOK, KeptInv, Sessions
<1>8. KeptInv' /\ ProjectDirKept'
  BY <1>1, <1>2, <1>6, <1>7 DEF Inv, KeptInv, ProjectDirKept
<1> QED
  BY <1>4, <1>5, <1>8, <1>9 DEF Inv

\* destroySession of a session of score s, however it ends, and whether the
\* next session is opened or not.
LEMMA ClosingKeeps ==
    ASSUME Inv, NEW s, Executed, phase = "run", session.open,
           UNCHANGED projdir, phase' \in Phases,
           exitcode' = exitcode \/ exitcode' = 1,
           session_index' \in {session_index, session_index + 1},
           dirs' \in {DirsClosed(s),
                      [DirsClosed(s) EXCEPT ![session_index + 1] = "present"]},
           session_index' = session_index => dirs' = DirsClosed(s)
    PROVE  KeptInv' /\ ProjectDirKept' /\ session_executed' \in Nat
           /\ dirs' \in [Sessions -> {"absent", "present", "kept", "removed"}]
<1> USE DEF Inv
<1>1. /\ session_executed \in Nat /\ exitcode \in {0, 1}
      /\ session_index \in 0..SessionBound /\ SessionBound \in Nat
  BY BoundsAssumption DEF ControlOK
<1>2. /\ session_executed' \in Nat
      /\ exitcode = 0 => session_executed' # 0
      /\ exitcode # 0 => session_executed' = session_executed
  BY <1>1 DEF Executed
<1>3. dirs' \in [Sessions -> {"absent", "present", "kept", "removed"}]
  BY ClosedDirectory
<1>4. \A k \in Sessions : k > session_index' => dirs'[k] = "absent"
  <2>1. \A k \in Sessions : k > session_index' =>
            k > session_index /\ k # session_index
    BY <1>1 DEF Sessions
  <2>2. \A k \in Sessions : k > session_index' => DirsClosed(s)[k] = "absent"
    BY <2>1, ClosedDirectory DEF KeptInv
  <2>3. CASE session_index' = session_index
    BY <2>2, <2>3
  <2>4. CASE session_index' = session_index + 1
    BY <1>1, <2>2, <2>4, ClosedDirectory DEF Sessions
  <2> QED
    BY <2>3, <2>4
<1>5. projdir' # "removed"
  BY DEF KeptInv
<1>6. KeptInv'
  BY <1>1, <1>2, <1>4, <1>5 DEF KeptInv
<1>7. ProjectDirKept'
  BY <1>5 DEF ProjectDirKept
<1> QED
  BY <1>2, <1>3, <1>6, <1>7

\* The project handles a message: the loop is running.
LEMMA HandlingRuns == ASSUME NEW a, NEW e, Handling(a, e) PROVE phase = "run"
BY DEF Handling, AgentTurn

\* What each of the closing steps does to the variables of the theorems.
LEMMA UniversStopCloses ==
    ASSUME ProjectOnUniversStop, session.open
    PROVE  /\ phase = "run" /\ Executed /\ session' = NoSession
           /\ dirs' = DirsClosed(session.score)
           /\ UNCHANGED <<phase, exitcode, session_index, nb_success, projdir>>
BY HandlingRuns DEF ProjectOnUniversStop, ClosesOnStop, DestroySession

\* A deinit() that raises leaves the session open, with its score, and the
\* loop (Project.destroySession).
LEMMA RaisingCloses ==
    ASSUME ProjectOnUniversStopRaises \/ ProjectDestroyRaises
    PROVE  /\ phase = "run" /\ session.open /\ Executed
           /\ phase' = "deactivate" /\ exitcode' = 1
           /\ \E s : /\ dirs' = DirsClosed(s)
                     /\ session' = [session EXCEPT !.score = s]
           /\ UNCHANGED <<session_index, nb_success, projdir>>
<1>1. \E s : DestroySessionRaises(s)
  BY DEF ProjectOnUniversStopRaises, ProjectDestroyRaises
<1>2. phase = "run" /\ session.open
  BY HandlingRuns DEF ProjectOnUniversStopRaises, ProjectDestroyRaises,
                      DestroyingSession
<1> QED
  BY <1>1, <1>2 DEF DestroySessionRaises, Raise

\* Reaching a limit closes the session and counts its verdict.
LEMMA LimitCloses ==
    ASSUME ProjectStopsAtLimit
    PROVE  /\ phase = "run" /\ session.open /\ Executed /\ CountSuccess
           /\ session' = NoSession /\ dirs' = DirsClosed(Verdict)
           /\ UNCHANGED <<phase, exitcode, session_index, projdir>>
           /\ LimitReached(Verdict)
BY HandlingRuns DEF ProjectStopsAtLimit, DestroyingSession, DestroySession

\* A system that does not calm down does the same, and the run fails.
LEMMA NotCalmCloses ==
    ASSUME ProjectNotCalm
    PROVE  /\ phase = "run" /\ session.open /\ Executed /\ CountSuccess
           /\ session' = NoSession /\ dirs' = DirsClosed(Verdict)
           /\ phase' = "deactivate" /\ exitcode' = 1
           /\ UNCHANGED <<session_index, projdir>>
           /\ ~LimitReached(Verdict)
BY HandlingRuns DEF ProjectNotCalm, DestroyingSession, DestroySession, Raise

\* The next session is opened when no limit is reached.
LEMMA NextSessionOpens ==
    ASSUME ProjectStartsNextSession
    PROVE  /\ phase = "run" /\ session.open /\ Executed /\ CountSuccess
           /\ session_index < SessionBound
           /\ session_index' = session_index + 1
           /\ session' = [score |-> NoScore, stopped |-> FALSE, open |-> TRUE]
           /\ dirs' = [DirsClosed(Verdict) EXCEPT ![session_index + 1] = "present"]
           /\ UNCHANGED <<phase, exitcode, projdir>>
           /\ ~LimitReached(Verdict)
<1>1. CreateSession(DirsClosed(Verdict), MtaCleared)
  BY DEF ProjectStartsNextSession
<1> QED
  BY <1>1, OpenedSession, HandlingRuns
     DEF ProjectStartsNextSession, DestroyingSession

\* A verdict without a session makes the run fail and changes nothing else.
LEMMA NoSessionRaises ==
    ASSUME ProjectNoSession
    PROVE  /\ phase = "run" /\ ~session.open
           /\ phase' = "deactivate" /\ exitcode' = 1
           /\ UNCHANGED <<session_index, session_executed, nb_success, session,
                          dirs, projdir>>
BY HandlingRuns DEF ProjectNoSession, DestroyingSession, Raise, projVars, fileVars

\* The statistics follow a closed session.
LEMMA ExecutedCounts ==
    ASSUME Inv, Executed, phase = "run", session.open
    PROVE  exitcode = 0 => session_executed' = session_index
BY DEF Inv, ControlOK, SessionsCounted, Executed

\* A success is counted below the limit.
LEMMA SuccessCounts ==
    ASSUME Inv, CountSuccess, session.open
    PROVE  /\ nb_success' \in {nb_success, nb_success + 1}
           /\ nb_success \in Nat /\ nb_success' \in Nat
           /\ 0 < MaxSuccess => nb_success < MaxSuccess
           /\ ~LimitReached(Verdict) =>
                 /\ 0 < MaxSuccess => nb_success' < MaxSuccess
                 /\ 0 < MaxSession => session_index < MaxSession
<1>1. nb_success \in Nat /\ session_index \in Nat
  BY BoundsAssumption DEF Inv, ControlOK
<1>2. 0 < MaxSuccess => nb_success < MaxSuccess
  BY <1>1, OptionsAssumption DEF Inv, LimitsRespected
<1>3. nb_success' = nb_success + (IF IsSuccess(Verdict) THEN 1 ELSE 0)
  BY DEF CountSuccess
<1> QED
  BY <1>1, <1>2, <1>3, OptionsAssumption
     DEF LimitReached, SuccessLimit, SessionLimit

-----------------------------------------------------------------------------
(* The closing steps preserve the invariant.                               *)

\* The fields of NoSession.
LEMMA NoSessionOK ==
    ASSUME NEW r, r = NoSession
    PROVE  /\ r = [score |-> r.score, stopped |-> r.stopped, open |-> r.open]
           /\ r.open = FALSE /\ r.score = NoScore
BY DEF NoSession

\* A session is closed and no other one opened.
LEMMA ClosedInv ==
    ASSUME Inv, phase = "run", session.open, Executed, session' = NoSession,
           phase' \in {"run", "deactivate"},
           exitcode' = exitcode \/ exitcode' = 1,
           NEW s, dirs' = DirsClosed(s),
           nb_success' \in Nat, 0 < MaxSuccess => nb_success' <= MaxSuccess,
           UNCHANGED <<session_index, projdir>>
    PROVE  Inv'
<1>1. /\ session' = [score |-> session'.score, stopped |-> session'.stopped,
                     open |-> session'.open]
      /\ session'.open = FALSE /\ session'.score = NoScore
  BY NoSessionOK
<1>2. exitcode \in {0, 1} /\ session_index \in 0..SessionBound
  BY DEF Inv, ControlOK
<1>3. /\ KeptInv' /\ ProjectDirKept' /\ session_executed' \in Nat
      /\ dirs' \in [Sessions -> {"absent", "present", "kept", "removed"}]
  BY ClosingKeeps DEF Phases
<1>4. ControlOK'
  <2>1. session'.open \in BOOLEAN
    BY <1>1
  <2> QED
    BY <1>1, <1>2, <1>3, <2>1 DEF ControlOK, Phases
<1>5. StartInv' /\ ScoreInv'
  BY <1>1 DEF StartInv, ScoreInv
<1>6. LimitsRespected'
  BY <1>1 DEF Inv, LimitsRespected
<1>7. SessionsCounted'
  BY <1>1, <1>2, ExecutedCounts DEF SessionsCounted
<1> QED
  BY <1>3, <1>4, <1>5, <1>6, <1>7 DEF Inv

\* Project.on_univers_stop preserves the invariant.
LEMMA OnUniversStopInv == Inv /\ ProjectOnUniversStop /\ session.open => Inv'
<1> SUFFICES ASSUME Inv, ProjectOnUniversStop, session.open PROVE Inv'
  OBVIOUS
<1>1. nb_success \in Nat /\ (0 < MaxSuccess => nb_success <= MaxSuccess)
  BY DEF Inv, ControlOK, LimitsRespected
<1> QED
  BY <1>1, UniversStopCloses, ClosedInv

\* So does a limit that is reached,
LEMMA LimitInv == Inv /\ ProjectStopsAtLimit => Inv'
<1> SUFFICES ASSUME Inv, ProjectStopsAtLimit PROVE Inv'
  OBVIOUS
<1>1. nb_success' \in Nat /\ (0 < MaxSuccess => nb_success' <= MaxSuccess)
  BY LimitCloses, SuccessCounts, OptionsAssumption
<1> QED
  BY <1>1, LimitCloses, ClosedInv

\* a system that does not calm down,
LEMMA NotCalmInv == Inv /\ ProjectNotCalm => Inv'
<1> SUFFICES ASSUME Inv, ProjectNotCalm PROVE Inv'
  OBVIOUS
<1>1. nb_success' \in Nat /\ (0 < MaxSuccess => nb_success' <= MaxSuccess)
  BY NotCalmCloses, SuccessCounts, OptionsAssumption
<1> QED
  BY <1>1, NotCalmCloses, ClosedInv

\* the next session,
LEMMA NextSessionInv == Inv /\ ProjectStartsNextSession => Inv'
<1> SUFFICES ASSUME Inv, ProjectStartsNextSession PROVE Inv'
  OBVIOUS
<1>1. /\ session' = [score |-> session'.score, stopped |-> session'.stopped,
                     open |-> session'.open]
      /\ session'.open = TRUE /\ session'.score = NoScore
  BY NextSessionOpens
<1>2. /\ exitcode \in {0, 1} /\ session_index \in 0..SessionBound
      /\ SessionBound \in Nat
  BY BoundsAssumption DEF Inv, ControlOK
<1>3. /\ KeptInv' /\ ProjectDirKept' /\ session_executed' \in Nat
      /\ dirs' \in [Sessions -> {"absent", "present", "kept", "removed"}]
  <2>1. session_index' # session_index
    BY <1>2, NextSessionOpens
  <2> QED
    BY <2>1, NextSessionOpens, ClosingKeeps DEF Phases
<1>4. /\ nb_success' \in Nat
      /\ 0 < MaxSuccess => nb_success' < MaxSuccess
      /\ 0 < MaxSession => session_index < MaxSession
  BY NextSessionOpens, SuccessCounts
<1>5. ControlOK'
  <2>1. session'.open \in BOOLEAN
    BY <1>1
  <2>2. session_index' \in 0..SessionBound
    BY <1>2, NextSessionOpens
  <2>3. phase' \in Phases /\ exitcode' \in {0, 1}
    BY <1>2, NextSessionOpens DEF Phases
  <2> QED
    BY <1>1, <1>3, <1>4, <2>1, <2>2, <2>3 DEF ControlOK
<1>6. StartInv' /\ ScoreInv'
  BY <1>1, <1>2, NextSessionOpens DEF StartInv, ScoreInv
<1>7. LimitsRespected'
  BY <1>1, <1>2, <1>4, NextSessionOpens, OptionsAssumption DEF LimitsRespected
<1>8. SessionsCounted'
  BY <1>1, <1>2, ExecutedCounts, NextSessionOpens DEF SessionsCounted
<1> QED
  BY <1>3, <1>5, <1>6, <1>7, <1>8 DEF Inv

\* a deinit() that raises, in either handler,
LEMMA RaisingInv ==
    Inv /\ (ProjectOnUniversStopRaises \/ ProjectDestroyRaises) => Inv'
<1> SUFFICES ASSUME Inv, ProjectOnUniversStopRaises \/ ProjectDestroyRaises
             PROVE  Inv'
  OBVIOUS
<1>1. PICK s : dirs' = DirsClosed(s) /\ session' = [session EXCEPT !.score = s]
  BY RaisingCloses
<1>2. session' = [score |-> session'.score, stopped |-> session'.stopped,
                  open |-> session'.open] /\ session'.open = session.open
  BY <1>1 DEF Inv, ControlOK
<1>3. /\ KeptInv' /\ ProjectDirKept' /\ session_executed' \in Nat
      /\ dirs' \in [Sessions -> {"absent", "present", "kept", "removed"}]
  BY <1>1, RaisingCloses, ClosingKeeps DEF Phases
<1>4. ControlOK'
  BY <1>2, <1>3, RaisingCloses DEF Inv, ControlOK, Phases
<1>5. StartInv' /\ ScoreInv' /\ SessionsCounted'
  BY <1>2, RaisingCloses DEF Inv, StartInv, ScoreInv, SessionsCounted
<1>6. LimitsRespected'
  BY <1>2, RaisingCloses DEF Inv, LimitsRespected
<1> QED
  BY <1>3, <1>4, <1>5, <1>6 DEF Inv

\* and a verdict that comes without a session.
LEMMA NoSessionRaisesInv == Inv /\ ProjectNoSession => Inv'
BY NoSessionRaises DEF Inv, ControlOK, StartInv, ScoreInv, KeptInv,
       LimitsRespected, SessionsCounted, ProjectDirKept, Phases

-----------------------------------------------------------------------------
(* The end of the project.                                                 *)

\* What Project.destroy does to the variables of the theorems.
LEMMA DestroyFacts ==
    ASSUME DestroyProject
    PROVE  /\ phase \in {"destroy", "abort"} /\ phase' = "done"
           /\ dirs' \in {dirs, DirsClosed(session.score)}
           /\ projdir' = IF KeepProjectDirectory(dirs') THEN "kept" ELSE "removed"
           /\ session' = NoSession
           /\ exitcode' = IF phase = "abort" THEN 1 ELSE exitcode
           /\ UNCHANGED <<session_index, session_executed, nb_success>>
BY DEF DestroyProject

\* A session that is open when the project is destroyed has no score, unless
\* an error is being reported: its directory is not kept for a success.
LEMMA DestroyedDirectories ==
    ASSUME Inv, DestroyProject
    PROVE  /\ dirs' \in [Sessions -> {"absent", "present", "kept", "removed"}]
           /\ \A k \in Sessions : k > session_index => dirs'[k] = "absent"
           /\ \A k \in Sessions :
                 dirs'[k] = "kept" /\ exitcode = 0 /\ ~KeepSessions =>
                     session_executed # 0
<1> USE DEF Inv
<1>1. CASE dirs' = dirs
  BY <1>1 DEF ControlOK, KeptInv
<1>2. CASE dirs' = DirsClosed(session.score)
  <2>1. /\ dirs' \in [Sessions -> {"absent", "present", "kept", "removed"}]
        /\ \A k \in Sessions : k # session_index => dirs'[k] = dirs[k]
        /\ \A k \in Sessions : k = session_index =>
              dirs'[k] = IF KeepDirectory(session.score) THEN "kept" ELSE "removed"
    BY <1>2, ClosedDirectory
  <2>2. exitcode = 0 /\ ~KeepSessions => ~KeepDirectory(session.score)
    BY DEF ScoreInv, KeepDirectory, IsSuccess
  <2>3. \A k \in Sessions : k > session_index => k # session_index
    BY BoundsAssumption DEF ControlOK, Sessions
  <2> QED
    BY <2>1, <2>2, <2>3 DEF KeptInv
<1> QED
  BY <1>1, <1>2, DestroyFacts

\* Project.destroy preserves the invariant.
LEMMA DestroyProjectInv == Inv /\ DestroyProject => Inv'
<1> SUFFICES ASSUME Inv, DestroyProject PROVE Inv'
  OBVIOUS
<1>1. /\ session' = [score |-> session'.score, stopped |-> session'.stopped,
                     open |-> session'.open]
      /\ session'.open = FALSE /\ session'.score = NoScore
  BY NoSessionOK, DestroyFacts
<1>2. exitcode \in {0, 1} /\ (exitcode' = 0 => exitcode = 0)
  BY DestroyFacts DEF Inv, ControlOK
<1>3. ControlOK'
  <2>1. session'.open \in BOOLEAN
    BY <1>1
  <2> QED
    BY <1>1, <1>2, <2>1, DestroyFacts, DestroyedDirectories
       DEF Inv, ControlOK, Phases
<1>4. StartInv' /\ ScoreInv'
  BY <1>1, DestroyFacts DEF StartInv, ScoreInv
<1>5. LimitsRespected' /\ SessionsCounted'
  BY <1>1, DestroyFacts DEF Inv, LimitsRespected, SessionsCounted
<1>6. KeptInv'
  BY <1>2, DestroyFacts, DestroyedDirectories DEF KeptInv
<1>7. ProjectDirKept'
  <2> SUFFICES ASSUME projdir' = "removed", NEW k \in Sessions, dirs'[k] = "kept"
               PROVE  FALSE
    BY DEF ProjectDirKept
  <2>1. ~KeepProjectDirectory(dirs')
    BY DestroyFacts
  <2> QED
    BY <2>1, DestroyedDirectories DEF KeepProjectDirectory
<1> QED
  BY <1>3, <1>4, <1>5, <1>6, <1>7 DEF Inv

-----------------------------------------------------------------------------
(* The theorems.                                                           *)

\* The invariant holds before Project.activate.
LEMMA InitInv == Init => Inv
<1> SUFFICES ASSUME Init PROVE Inv
  OBVIOUS
<1>1. /\ session = [score |-> session.score, stopped |-> session.stopped,
                    open |-> session.open]
      /\ session.open = FALSE /\ session.score = NoScore
  BY NoSessionOK DEF Init
<1>2. session.open \in BOOLEAN
  BY <1>1
<1>3. ControlOK
  BY <1>1, <1>2, BoundsAssumption DEF Init, ControlOK, Phases
<1>4. StartInv /\ ScoreInv /\ SessionsCounted
  BY <1>1 DEF Init, StartInv, ScoreInv, SessionsCounted
<1>5. KeptInv /\ ProjectDirKept
  BY DEF Init, KeptInv, ProjectDirKept
<1>6. LimitsRespected
  BY <1>1, OptionsAssumption DEF Init, LimitsRespected
<1> QED
  BY <1>3, <1>4, <1>5, <1>6 DEF Inv

\* Every step is a quiet one, a move between phases, or one of the steps that
\* the lemmas above are about.
LEMMA StepCases ==
    ASSUME [Next]_vars
    PROVE  \/ Quiet \/ UNCHANGED vars
           \/ Moves
           \/ ActivateProject
           \/ ApplicationOnStop
           \/ SessionOnSessionStop
           \/ ProjectOnUniversStop /\ session.open
           \/ ProjectOnUniversStopRaises \/ ProjectDestroyRaises
           \/ ProjectStopsAtLimit
           \/ ProjectStartsNextSession
           \/ ProjectNotCalm
           \/ ProjectNoSession
           \/ DestroyProject
BY DEF Next, Run, ProjectStep, ProjectOnSessionDestroy, Quiet, Moves

\* Every step of a run preserves the invariant.
LEMMA StepInv == Inv /\ [Next]_vars => Inv'
<1> SUFFICES ASSUME Inv, [Next]_vars PROVE Inv'
  OBVIOUS
<1>1. CASE UNCHANGED vars
  BY <1>1, QuietInv DEF vars, worldVars, projVars, fileVars, coreVars
<1>2. CASE Quiet
  BY <1>2, QuietSteps, QuietInv
<1> QED
  BY <1>1, <1>2, StepCases, MovesInv, ActivateProjectInv, ApplicationOnStopInv,
     SessionOnSessionStopInv, OnUniversStopInv, RaisingInv, LimitInv,
     NextSessionInv, NotCalmInv, NoSessionRaisesInv, DestroyProjectInv

\* Inv is an invariant of every run of Fusil.
THEOREM Invariance == Spec => []Inv
BY InitInv, StepInv, PTL DEF Spec

\* A run opens no more sessions than wanted, and none once it has the wanted
\* number of successes (Project.on_project_session_destroy).
THEOREM LimitsHold == Spec => []LimitsRespected
<1>1. Inv => LimitsRespected
  BY DEF Inv
<1> QED
  BY <1>1, Invariance, PTL

\* Without an error every closed session is in the statistics once
\* (Project.destroySession).
THEOREM SessionsAreCounted == Spec => []SessionsCounted
<1>1. Inv => SessionsCounted
  BY DEF Inv
<1> QED
  BY <1>1, Invariance, PTL

\* A kept session directory is never removed with the directory of the
\* project (Project.destroy, ProjectDirectory.keepDirectory).
THEOREM ProjectDirIsKept == Spec => []ProjectDirKept
<1>1. Inv => ProjectDirKept
  BY DEF Inv
<1> QED
  BY <1>1, Invariance, PTL

-----------------------------------------------------------------------------
(* Fusil implements FuzzLoop.                                              *)

\* The run starts as FuzzLoop does.
LEMMA InitPromise == Init => Promise!Init
BY DEF Init, Promise!Init, Stage, NoSession

\* Quiet steps are stuttering steps of FuzzLoop.
LEMMA CorePromise == UNCHANGED coreVars => UNCHANGED Promise!vars
BY DEF coreVars, Promise!vars, Stage

\* A move between phases is a stop of FuzzLoop or a stuttering step.
LEMMA MovesPromise == Inv /\ Moves => [Promise!Next]_(Promise!vars)
<1> SUFFICES ASSUME Inv, Moves PROVE [Promise!Next]_(Promise!vars)
  OBVIOUS
<1>1. UNCHANGED <<session_index, session, nb_success>>
  BY MoveSteps
<1>2. Stage' = Stage \/ (Stage \in {"starting", "fuzzing"} /\ Stage' = "stopping")
  BY MoveSteps DEF Stage
<1> QED
  BY <1>1, <1>2 DEF Promise!Next, Promise!Stop, Promise!vars

\* Setting the exit code and scoring the session are stuttering steps.
LEMMA HandlersPromise ==
    ASSUME Inv, ApplicationOnStop \/ SessionOnSessionStop
    PROVE  UNCHANGED Promise!vars
<1>1. UNCHANGED <<phase, session_index, nb_success>>
  BY DEF ApplicationOnStop, SessionOnSessionStop, projVars
<1>2. session' = session \/ session' = [session EXCEPT !.stopped = TRUE]
  BY DEF ApplicationOnStop, SessionOnSessionStop, projVars
<1>3. session'.open = session.open
  BY <1>2 DEF Inv, ControlOK
<1> QED
  BY <1>1, <1>3 DEF Promise!vars, Stage

\* Project.activate begins the run of FuzzLoop.
LEMMA BeginPromise == Inv /\ ActivateProject => Promise!Begin
<1> SUFFICES ASSUME Inv, ActivateProject PROVE Promise!Begin
  OBVIOUS
<1>1. /\ phase = "activate" /\ phase' = "run" /\ session'.open = TRUE
      /\ session_index' = session_index + 1 /\ UNCHANGED nb_success
  BY OpenedSession DEF ActivateProject
<1>2. session_index = 0
  BY <1>1 DEF Inv, StartInv
<1> QED
  BY <1>1, <1>2 DEF Promise!Begin, Stage

\* A session that gets its verdict is concluded, with or without a next one.
LEMMA ConcludePromise ==
    ASSUME Inv,
           ProjectStopsAtLimit \/ ProjectNotCalm \/ ProjectStartsNextSession
    PROVE  Promise!Conclude
<1>1. /\ phase = "run" /\ session.open /\ CountSuccess
      /\ Stage = "fuzzing"
  BY LimitCloses, NotCalmCloses, NextSessionOpens DEF Stage
<1>2. /\ nb_success' \in {nb_success, nb_success + 1}
      /\ nb_success' \in Nat
      /\ ~LimitReached(Verdict) =>
            /\ 0 < MaxSuccess => nb_success' < MaxSuccess
            /\ 0 < MaxSession => session_index < MaxSession
  BY <1>1, SuccessCounts
<1>3. CASE ProjectStopsAtLimit \/ ProjectNotCalm
  <2>1. /\ session'.open = FALSE /\ session_index' = session_index
        /\ phase' \in {"run", "deactivate"}
    BY <1>3, LimitCloses, NotCalmCloses, NoSessionOK
  <2>2. Stage' \in {"fuzzing", "stopping"}
    BY <2>1 DEF Stage
  <2> QED
    BY <1>1, <1>2, <2>1, <2>2 DEF Promise!Conclude
<1>4. CASE ProjectStartsNextSession
  <2>1. /\ session'.open = TRUE /\ session_index' = session_index + 1
        /\ phase' = phase /\ ~LimitReached(Verdict)
    BY <1>4, NextSessionOpens
  <2>2. Stage' = Stage /\ session'.open = session.open
    BY <1>1, <2>1 DEF Stage, Inv, ControlOK
  <2>3. session_index \in Nat
    BY BoundsAssumption DEF Inv, ControlOK
  <2>4. ~Promise!Enough(session_index, nb_success')
    BY <1>2, <2>1, <2>3, OptionsAssumption DEF Promise!Enough
  <2> QED
    BY <1>1, <1>2, <2>1, <2>2, <2>4 DEF Promise!Conclude
<1> QED
  BY <1>3, <1>4

\* An open session that is closed by univers_stop is abandoned.
LEMMA AbandonPromise == ProjectOnUniversStop /\ session.open => Promise!Abandon
<1> SUFFICES ASSUME ProjectOnUniversStop, session.open PROVE Promise!Abandon
  OBVIOUS
<1>1. session'.open = FALSE
  BY UniversStopCloses, NoSessionOK
<1> QED
  BY <1>1, UniversStopCloses DEF Promise!Abandon, Stage

\* An exception in the project stops the run.
LEMMA RaisingPromise ==
    ASSUME Inv, ProjectOnUniversStopRaises \/ ProjectDestroyRaises \/ ProjectNoSession
    PROVE  Promise!Stop
<1>1. /\ phase = "run" /\ phase' = "deactivate"
      /\ UNCHANGED <<session_index, nb_success>>
  BY RaisingCloses, NoSessionRaises
<1>2. session' = session \/ \E s : session' = [session EXCEPT !.score = s]
  BY RaisingCloses, NoSessionRaises
<1>3. session'.open = session.open
  BY <1>2 DEF Inv, ControlOK
<1> QED
  BY <1>1, <1>3 DEF Promise!Stop, Stage

\* Project.destroy finishes the run.
LEMMA FinishPromise == DestroyProject => Promise!Finish
<1> SUFFICES ASSUME DestroyProject PROVE Promise!Finish
  OBVIOUS
<1>1. session'.open = FALSE
  BY DestroyFacts, NoSessionOK
<1> QED
  BY <1>1, DestroyFacts DEF Promise!Finish, Stage

\* The agents, their messages and their failures implement the run that the
\* user was promised: one session after the other, each concluded once, none
\* beyond a limit, and an end that is final.
THEOREM FusilImplementsFuzzLoop == Spec => ImplementsFuzzLoop
<1>1. Inv /\ [Next]_vars => [Promise!Next]_(Promise!vars)
  <2> SUFFICES ASSUME Inv, [Next]_vars PROVE [Promise!Next]_(Promise!vars)
    OBVIOUS
  <2>1. CASE UNCHANGED vars
    BY <2>1, CorePromise DEF vars, worldVars, projVars, fileVars, coreVars
  <2>2. CASE Quiet
    BY <2>2, QuietSteps, CorePromise
  <2> QED
    BY <2>1, <2>2, StepCases, MovesPromise, HandlersPromise, BeginPromise,
       ConcludePromise, AbandonPromise, RaisingPromise, FinishPromise
       DEF Promise!Next
<1> QED
  BY <1>1, InitPromise, Invariance, PTL DEF Spec, ImplementsFuzzLoop, Promise!Spec

-----------------------------------------------------------------------------
(***************************************************************************)
(* 2. The messages of a run.                                               *)
(***************************************************************************)

\* s is a sequence; its elements; the events that end a session; a message of
\* one of the events E; at most one message that ends a session.
IsSeq(s) == \E S : s \in Seq(S)
Elems(s) == {s[i] : i \in DOMAIN s}

Judging == {"session_done", "project_session_destroy"}
Has(s, E) == \E m \in Elems(s) : m.event \in E
Once(s) ==
    \A i, j \in DOMAIN s :
        s[i].event \in Judging /\ s[j].event \in Judging => i = j

-----------------------------------------------------------------------------
(* Sequences of messages.                                                  *)

\* The empty sequence holds nothing.
LEMMA EmptyFacts == /\ IsSeq(<< >>) /\ Elems(<< >>) = {} /\ Once(<< >>)
                    /\ \A E : ~Has(<< >>, E)
<1>1. << >> \in Seq({}) /\ DOMAIN << >> = {}
  OBVIOUS
<1> QED
  BY <1>1 DEF IsSeq, Elems, Once, Has

\* What Append adds.
LEMMA AppendFacts ==
    ASSUME NEW s, IsSeq(s), NEW m
    PROVE  /\ IsSeq(Append(s, m))
           /\ Elems(Append(s, m)) = Elems(s) \cup {m}
           /\ Once(s) /\ (m.event \in Judging => ~Has(s, Judging)) => Once(Append(s, m))
<1>1. PICK S : s \in Seq(S)
  BY DEF IsSeq
<1> DEFINE T == S \cup {m}
           t == Append(s, m)
<1>2. s \in Seq(T)
  BY <1>1, SeqMonotonic
<1>3. /\ t \in Seq(T) /\ Len(s) \in Nat
      /\ DOMAIN s = 1..Len(s) /\ DOMAIN t = 1..(Len(s) + 1)
      /\ \A i \in 1..Len(s) : t[i] = s[i]
      /\ t[Len(s) + 1] = m
  BY <1>2
<1>4. Elems(t) = Elems(s) \cup {m}
  BY <1>3 DEF Elems
<1>5. ASSUME Once(s), m.event \in Judging => ~Has(s, Judging) PROVE Once(t)
  <2> SUFFICES ASSUME NEW i \in 1..(Len(s) + 1), NEW j \in 1..(Len(s) + 1),
                      t[i].event \in Judging, t[j].event \in Judging, i # j
               PROVE  FALSE
    BY <1>3 DEF Once
  <2>1. CASE i \in 1..Len(s) /\ j \in 1..Len(s)
    BY <1>3, <1>5, <2>1 DEF Once
  <2>2. CASE i = Len(s) + 1
    <3>1. j \in 1..Len(s)
      BY <1>3, <2>2
    <3> QED
      BY <1>3, <1>5, <2>2, <3>1 DEF Has, Elems
  <2>3. CASE j = Len(s) + 1
    <3>1. i \in 1..Len(s)
      BY <1>3, <2>3
    <3> QED
      BY <1>3, <1>5, <2>3, <3>1 DEF Has, Elems
  <2> QED
    BY <1>3, <2>1, <2>2, <2>3
<1> QED
  BY <1>3, <1>4, <1>5 DEF IsSeq

\* What Tail leaves.
LEMMA TailFacts ==
    ASSUME NEW s, IsSeq(s), s # << >>
    PROVE  /\ IsSeq(Tail(s)) /\ Head(s) \in Elems(s)
           /\ Elems(s) = Elems(Tail(s)) \cup {Head(s)}
           /\ Once(s) => Once(Tail(s))
           /\ Once(s) /\ Head(s).event \in Judging => ~Has(Tail(s), Judging)
<1>1. PICK S : s \in Seq(S)
  BY DEF IsSeq
<1> DEFINE t == Tail(s)
<1>2. /\ t \in Seq(S) /\ Len(s) \in Nat \ {0}
      /\ DOMAIN s = 1..Len(s) /\ DOMAIN t = 1..(Len(s) - 1)
      /\ \A i \in 1..(Len(s) - 1) : t[i] = s[i + 1]
      /\ Head(s) = s[1]
  BY <1>1
<1>3. /\ \A i \in DOMAIN t : i + 1 \in DOMAIN s /\ t[i] = s[i + 1] /\ i + 1 # 1
      /\ \A i \in DOMAIN s : i = 1 \/ (i - 1 \in DOMAIN t /\ s[i] = t[i - 1])
      /\ 1 \in DOMAIN s
  BY <1>2
<1>4. Head(s) \in Elems(s) /\ Elems(s) = Elems(t) \cup {Head(s)}
  <2>1. Head(s) \in Elems(s)
    BY <1>2, <1>3 DEF Elems
  <2>2. ASSUME NEW m \in Elems(t) PROVE m \in Elems(s)
    <3>1. PICK i \in DOMAIN t : m = t[i]
      BY DEF Elems
    <3> QED
      BY <1>3, <3>1 DEF Elems
  <2>3. ASSUME NEW m \in Elems(s), m # Head(s) PROVE m \in Elems(t)
    <3>1. PICK i \in DOMAIN s : m = s[i]
      BY DEF Elems
    <3>2. i - 1 \in DOMAIN t /\ s[i] = t[i - 1]
      BY <1>2, <1>3, <2>3, <3>1
    <3> QED
      BY <3>1, <3>2 DEF Elems
  <2> QED
    BY <2>1, <2>2, <2>3
<1>5. ASSUME Once(s) PROVE Once(t)
  <2> SUFFICES ASSUME NEW i \in DOMAIN t, NEW j \in DOMAIN t,
                      t[i].event \in Judging, t[j].event \in Judging
               PROVE  i = j
    BY DEF Once
  <2>1. i + 1 = j + 1
    BY <1>3, <1>5 DEF Once
  <2> QED
    BY <1>2, <2>1
<1>6. ASSUME Once(s), Head(s).event \in Judging, Has(t, Judging) PROVE FALSE
  BY <1>2, <1>3, <1>6 DEF Once, Has, Elems
<1> QED
  BY <1>2, <1>4, <1>5, <1>6 DEF IsSeq

\* What follows s in s \o t.
LEMMA ConcatFacts ==
    ASSUME NEW s, IsSeq(s), NEW t, IsSeq(t)
    PROVE  /\ IsSeq(s \o t)
           /\ Elems(s \o t) = Elems(s) \cup Elems(t)
           /\ Once(s) /\ Once(t) /\ ~(Has(s, Judging) /\ Has(t, Judging)) => Once(s \o t)
<1>1. PICK S : s \in Seq(S)
  BY DEF IsSeq
<1>2. PICK T : t \in Seq(T)
  BY DEF IsSeq
<1> DEFINE U == S \cup T
           u == s \o t
<1>3. s \in Seq(U) /\ t \in Seq(U)
  BY <1>1, <1>2, SeqMonotonic
<1>4. /\ u \in Seq(U) /\ Len(s) \in Nat /\ Len(t) \in Nat
      /\ DOMAIN s = 1..Len(s) /\ DOMAIN t = 1..Len(t)
      /\ DOMAIN u = 1..(Len(s) + Len(t))
      /\ \A i \in 1..(Len(s) + Len(t)) : u[i] = IF i <= Len(s) THEN s[i] ELSE t[i - Len(s)]
  BY <1>3, ConcatProperties, LenProperties
<1>5. /\ \A i \in DOMAIN s : i \in DOMAIN u /\ u[i] = s[i]
      /\ \A i \in DOMAIN t : i + Len(s) \in DOMAIN u /\ u[i + Len(s)] = t[i]
      /\ \A i \in DOMAIN u : \/ i \in DOMAIN s /\ u[i] = s[i]
                             \/ i - Len(s) \in DOMAIN t /\ u[i] = t[i - Len(s)]
  BY <1>4
<1>6. Elems(u) = Elems(s) \cup Elems(t)
  <2>1. ASSUME NEW m \in Elems(s) PROVE m \in Elems(u)
    <3>1. PICK i \in DOMAIN s : m = s[i]
      BY DEF Elems
    <3> QED
      BY <1>5, <3>1 DEF Elems
  <2>2. ASSUME NEW m \in Elems(t) PROVE m \in Elems(u)
    <3>1. PICK i \in DOMAIN t : m = t[i]
      BY DEF Elems
    <3> QED
      BY <1>5, <3>1 DEF Elems
  <2>3. ASSUME NEW m \in Elems(u) PROVE m \in Elems(s) \/ m \in Elems(t)
    <3>1. PICK i \in DOMAIN u : m = u[i]
      BY DEF Elems
    <3> QED
      BY <1>5, <3>1 DEF Elems
  <2> QED
    BY <2>1, <2>2, <2>3
<1>7. ASSUME Once(s), Once(t), ~(Has(s, Judging) /\ Has(t, Judging)) PROVE Once(u)
  <2> SUFFICES ASSUME NEW i \in DOMAIN u, NEW j \in DOMAIN u,
                      u[i].event \in Judging, u[j].event \in Judging
               PROVE  i = j
    BY DEF Once
  <2>1. CASE i \in DOMAIN s /\ u[i] = s[i] /\ j \in DOMAIN s /\ u[j] = s[j]
    BY <1>7, <2>1 DEF Once
  <2>2. CASE /\ i - Len(s) \in DOMAIN t /\ u[i] = t[i - Len(s)]
             /\ j - Len(s) \in DOMAIN t /\ u[j] = t[j - Len(s)]
    <3>1. i - Len(s) = j - Len(s)
      BY <1>7, <2>2 DEF Once
    <3> QED
      BY <1>4, <3>1
  <2>3. ASSUME NEW k \in DOMAIN s, s[k].event \in Judging,
               NEW l \in DOMAIN t, t[l].event \in Judging
        PROVE  FALSE
    BY <1>7, <2>3 DEF Has, Elems
  <2> QED
    BY <1>5, <2>1, <2>2, <2>3
<1> QED
  BY <1>4, <1>6, <1>7 DEF IsSeq

\* One message, and two.
LEMMA ShortFacts ==
    ASSUME NEW m, NEW n
    PROVE  /\ IsSeq(<<m>>) /\ Elems(<<m>>) = {m} /\ Once(<<m>>)
           /\ IsSeq(<<m, n>>) /\ Elems(<<m, n>>) = {m, n}
           /\ m.event \notin Judging => Once(<<m, n>>)
           /\ Append(<< >>, m) = <<m>> /\ << >> \o <<m>> = <<m>> /\ << >> \o <<m, n>> = <<m, n>>
<1>1. /\ <<m>> \in Seq({m, n}) /\ <<m, n>> \in Seq({m, n}) /\ << >> \in Seq({m, n})
      /\ DOMAIN <<m>> = {1} /\ DOMAIN <<m, n>> = {1, 2}
      /\ <<m>>[1] = m /\ <<m, n>>[1] = m /\ <<m, n>>[2] = n
  OBVIOUS
<1>2. Append(<< >>, m) = <<m>>
  OBVIOUS
<1>3. << >> \o <<m>> = <<m>> /\ << >> \o <<m, n>> = <<m, n>>
  BY <1>1, ConcatEmptySeq
<1>4. Elems(<<m>>) = {m} /\ Elems(<<m, n>>) = {m, n}
  BY <1>1 DEF Elems
<1>5. Once(<<m>>) /\ (m.event \notin Judging => Once(<<m, n>>))
  BY <1>1 DEF Once
<1> QED
  BY <1>1, <1>2, <1>3, <1>4, <1>5 DEF IsSeq

\* Two messages behind the others.
LEMMA AppendTwo ==
    ASSUME NEW s, IsSeq(s), NEW m, NEW n
    PROVE  s \o <<m, n>> = Append(Append(s, m), n) /\ s \o <<m>> = Append(s, m)
<1>1. PICK S : s \in Seq(S)
  BY DEF IsSeq
<1> DEFINE T == S \cup {m, n}
<1>2. s \in Seq(T) /\ <<m>> \in Seq(T) /\ <<n>> \in Seq(T) /\ <<m, n>> \in Seq(T)
  BY <1>1, SeqMonotonic
<1> DEFINE a == Append(s, m)
           b == Append(a, n)
           c == s \o <<m, n>>
<1>3. s \o <<m>> = a /\ a \in Seq(T)
  BY <1>2, AppendIsConcat, AppendProperties
<1>4. /\ b \in Seq(T) /\ Len(b) = Len(s) + 2 /\ Len(s) \in Nat
      /\ \A i \in 1..Len(s) : b[i] = s[i]
      /\ b[Len(s) + 1] = m /\ b[Len(s) + 2] = n
  BY <1>2, <1>3
<1>5. /\ c \in Seq(T) /\ Len(c) = Len(s) + 2
      /\ \A i \in 1..Len(s) : c[i] = s[i]
      /\ c[Len(s) + 1] = m /\ c[Len(s) + 2] = n
  BY <1>2
<1>6. \A i \in 1..Len(c) : c[i] = b[i]
  <2> SUFFICES ASSUME NEW i \in 1..Len(c) PROVE c[i] = b[i]
    OBVIOUS
  <2>1. i \in 1..Len(s) \/ i = Len(s) + 1 \/ i = Len(s) + 2
    BY <1>4, <1>5
  <2> QED
    BY <1>4, <1>5, <2>1
<1>7. c = b
  <2> HIDE DEF b, c
  <2> QED
    BY <1>4, <1>5, <1>6, SeqEqual
<1> QED
  BY <1>3, <1>7

-----------------------------------------------------------------------------
(* The invariant.                                                          *)

\* Every message that is sent and not yet handled.
InFlight == Elems(queue) \cup Elems(inbox) \cup UNION {Elems(mailbox[a]) : a \in Agents}

IsMsg(m) == m.event \in Event /\ m = [event |-> m.event, score |-> m.score, sess |-> m.sess]
Addressed(s, a) == \A m \in Elems(s) : a \in Listeners[m.event]

\* Messages are events, in boxes of agents that listen to them.
BoxesOK ==
    /\ IsSeq(queue) /\ IsSeq(inbox)
    /\ mailbox = [a \in Agents |-> mailbox[a]]
    /\ \A a \in Agents : IsSeq(mailbox[a]) /\ Addressed(mailbox[a], a)
    /\ \A m \in InFlight : IsMsg(m)
    /\ inbox # << >> =>
          phase = "run" /\ popped /\ turn \in 1..Len(Order) /\ Addressed(inbox, Me)

\* Nothing is sent before the project is activated.  While the loop runs the
\* agents of the application are active, the agent that has read its mailbox is,
\* and the others are not once the session is closed.
ActiveOK ==
    /\ active \subseteq Agents
    /\ phase = "activate" => turn = 0 /\ ~is_done /\ InFlight = {}
    /\ phase \in {"activate", "run"} => {"univers", "application"} \subseteq active
    /\ phase = "run" => "project" \in active
    /\ phase = "run" /\ popped /\ turn \in 1..Len(Order) => Me \in active
    /\ phase = "run" /\ ~session.open => active \cap (Probes \cup {"session"}) = {}

\* A target that runs belongs to an active agent, or to one whose deinit() raised.
TargetsOK ==
    /\ target = [p \in Probes |-> target[p]]
    /\ \A p \in Probes \ faulty : target[p] # "idle" => p \in active
    /\ phase \in {"done", "exited"} => active \cap Probes = {}

\* At most one verdict is in flight, and none before the session has been scored.
Judged == Has(queue, Judging) \/ Has(inbox, Judging) \/ Has(mailbox["project"], Judging)
JudgedOnce ==
    /\ Once(queue) /\ Once(inbox) /\ Once(mailbox["project"])
    /\ Has(queue, Judging) => ~Has(inbox, Judging) /\ ~Has(mailbox["project"], Judging)
    /\ Has(inbox, Judging) => ~Has(mailbox["project"], Judging)
    /\ phase = "run" /\ session.open /\ ~session.stopped => ~Judged

\* What is in flight speaks of the session that is open.
Fresh ==
    phase = "run" => \A m \in InFlight : m.event \in SessionEvents => m.sess = session_index

\* univers_stop reaches Univers and the project in the same step, and Univers first.
UniversRead == turn # 0 /\ (turn = 1 => popped)
StopsFirst == Has(mailbox["univers"], {"univers_stop"}) \/
              (turn = 1 /\ Has(inbox, {"univers_stop"}))
StopWaits ==
    IF turn = 3 /\ popped THEN Has(inbox, {"univers_stop"})
                          ELSE turn < 4 /\ Has(mailbox["project"], {"univers_stop"})
StopReaches ==
    phase = "run" =>
        /\ turn \in Nat
        /\ UniversRead => mailbox["univers"] = << >>
        /\ StopsFirst => StopWaits
        /\ is_done /\ session.open => StopWaits /\ turn # 0

\* Without a failure and a request to stop, only a limit that is reached stops the
\* univers, and it closes the session first.
Unasked == errors = {} /\ stopIndex = 0
EndsWell ==
    /\ phase = "abort" => errors # {}
    /\ Unasked =>
          /\ exitcode = 0
          /\ phase = "run" =>
                \A m \in InFlight :
                    /\ m.event \notin StopEvents
                    /\ m.event = "univers_stop" => ~session.open
                    /\ m.event \in Judging => session.open

MsgInv ==
    Inv /\ BoxesOK /\ ActiveOK /\ TargetsOK /\ JudgedOnce /\ Fresh /\ StopReaches
        /\ EndsWell

-----------------------------------------------------------------------------
(* Agents and their turns.                                                 *)

\* Who is executed at which place of the list of the project.
LEMMA OrderFacts ==
    /\ Len(ProbeOrder) \in Nat /\ Len(Order) = Len(ProbeOrder) + 4
    /\ Order[1] = "univers" /\ Order[2] = "application" /\ Order[3] = "project"
    /\ \A i \in 4..(Len(Order) - 1) : Order[i] \in Probes
    /\ Order[Len(Order)] = "session"
    /\ \A i \in 1..Len(Order) : Order[i] \in Agents
<1> DEFINE a == <<"univers", "application", "project">>
           z == <<"session">>
<1>1. a \in Seq(Agents) /\ z \in Seq(Agents) /\ ProbeOrder \in Seq(Agents)
  <2>1. ProbeOrder \in Seq(Probes) /\ Probes \subseteq Agents
    BY ProbesAssumption DEF Agents
  <2>2. ProbeOrder \in Seq(Agents)
    BY <2>1, SeqMonotonic
  <2> QED
    BY <2>2 DEF Agents, AppAgents
<1>2. /\ a \o ProbeOrder \in Seq(Agents) /\ Len(a \o ProbeOrder) = Len(ProbeOrder) + 3
      /\ Len(ProbeOrder) \in Nat
      /\ \A i \in 1..(Len(ProbeOrder) + 3) :
            (a \o ProbeOrder)[i] = IF i <= 3 THEN a[i] ELSE ProbeOrder[i - 3]
  BY <1>1, ConcatProperties, LenProperties
<1>3. /\ Order \in Seq(Agents) /\ Len(Order) = Len(ProbeOrder) + 4
      /\ \A i \in 1..(Len(ProbeOrder) + 4) :
            Order[i] = IF i <= Len(ProbeOrder) + 3 THEN (a \o ProbeOrder)[i]
                                                   ELSE z[i - Len(ProbeOrder) - 3]
  BY <1>1, <1>2, ConcatProperties DEF Order
<1>4. \A i \in 1..Len(ProbeOrder) : ProbeOrder[i] \in Probes
  BY ProbesAssumption, ElementOfSeq
<1>5. \A i \in 4..(Len(Order) - 1) : Order[i] \in Probes
  <2> SUFFICES ASSUME NEW i \in 4..(Len(Order) - 1) PROVE Order[i] \in Probes
    OBVIOUS
  <2>1. i - 3 \in 1..Len(ProbeOrder) /\ Order[i] = ProbeOrder[i - 3]
    BY <1>2, <1>3
  <2> QED
    BY <1>4, <2>1
<1>6. Order[1] = "univers" /\ Order[2] = "application" /\ Order[3] = "project"
  BY <1>2, <1>3
<1>7. Order[Len(Order)] = "session"
  BY <1>2, <1>3
<1> QED
  BY <1>2, <1>3, <1>5, <1>6, <1>7, ElementOfSeq

\* Agents of different kinds are different.
LEMMA AgentFacts ==
    /\ "univers" \notin Probes /\ "application" \notin Probes /\ "project" \notin Probes
    /\ "session" \notin Probes /\ "session" \notin AppAgents
    /\ Agents = AppAgents \cup Probes \cup {"session"}
    /\ Probes \cap AppAgents = {}
BY ProbesAssumption DEF Agents, AppAgents

\* Each agent has its place.
LEMMA TurnFacts ==
    ASSUME turn \in 1..Len(Order)
    PROVE  /\ turn \in Nat /\ Me \in Agents
           /\ Me = "univers" <=> turn = 1
           /\ Me = "application" <=> turn = 2
           /\ Me = "project" <=> turn = 3
           /\ Me \in Probes \cup {"session"} <=> turn > 3
<1>1. turn \in Nat /\ (turn = 1 \/ turn = 2 \/ turn = 3 \/ turn \in 4..(Len(Order) - 1)
                       \/ turn = Len(Order))
  BY OrderFacts
<1> USE OrderFacts, AgentFacts DEF Me, AppAgents
<1>2. CASE turn = 1
  BY <1>2
<1>3. CASE turn = 2
  BY <1>3
<1>4. CASE turn = 3
  BY <1>4
<1>5. CASE turn \in 4..(Len(Order) - 1)
  BY <1>5
<1>6. CASE turn = Len(Order)
  BY <1>6
<1> QED
  BY <1>1, <1>2, <1>3, <1>4, <1>5, <1>6

\* Who listens to what.
LEMMA ListenersFacts ==
    ASSUME NEW e \in Event
    PROVE  /\ Listeners[e] \subseteq Agents
           /\ "univers" \in Listeners[e] <=> e = "univers_stop"
           /\ "application" \in Listeners[e] <=>
                 e \in {"application_interrupt", "application_error"}
           /\ "project" \in Listeners[e] <=>
                 e \in {"project_stop", "univers_stop"} \cup Judging
           /\ "session" \in Listeners[e] <=> e = "session_stop"
           /\ \A p \in Probes : p \in Listeners[e] <=> e = "session_start"
BY AgentFacts DEF Listeners, Judging, Event, StopEvents, Agents, AppAgents

\* An agent at work has messages that were sent to it.
LEMMA HandlingFacts ==
    ASSUME MsgInv, NEW a, NEW e, Handling(a, e)
    PROVE  /\ phase = "run" /\ popped /\ turn \in 1..Len(Order) /\ Me = a
           /\ inbox # << >> /\ Head(inbox).event = e /\ Head(inbox) \in Elems(inbox)
           /\ Head(inbox) \in InFlight /\ e \in Event /\ a \in Listeners[e]
           /\ IsSeq(inbox) /\ IsSeq(Tail(inbox))
           /\ Elems(inbox) = Elems(Tail(inbox)) \cup {Head(inbox)}
<1>1. /\ phase = "run" /\ popped /\ turn \in 1..Len(Order) /\ Me = a
      /\ inbox # << >> /\ Head(inbox).event = e
  BY DEF Handling, AgentTurn
<1>2. IsSeq(inbox) /\ Addressed(inbox, a)
  BY <1>1 DEF MsgInv, BoxesOK
<1>3. /\ IsSeq(Tail(inbox)) /\ Head(inbox) \in Elems(inbox)
      /\ Elems(inbox) = Elems(Tail(inbox)) \cup {Head(inbox)}
  BY <1>1, <1>2, TailFacts
<1>4. Head(inbox) \in InFlight
  BY <1>3 DEF InFlight
<1>5. e \in Event
  BY <1>1, <1>4 DEF MsgInv, BoxesOK, IsMsg
<1> QED
  BY <1>1, <1>2, <1>3, <1>4, <1>5 DEF Addressed

\* An agent that has handled its messages.
LEMMA LivingFacts ==
    ASSUME MsgInv, NEW a, Living(a)
    PROVE  phase = "run" /\ popped /\ turn \in 1..Len(Order) /\ Me = a /\ inbox = << >>
           /\ a \in active /\ (a \notin AppAgents => session.open)
<1>1. phase = "run" /\ popped /\ turn \in 1..Len(Order) /\ Me = a /\ inbox = << >>
  BY DEF Living, AgentTurn
<1>2. a \in active
  BY <1>1 DEF MsgInv, ActiveOK
<1>3. a \in Agents
  BY <1>2 DEF MsgInv, ActiveOK
<1> QED
  BY <1>1, <1>2, <1>3, AgentFacts DEF MsgInv, ActiveOK

-----------------------------------------------------------------------------
(* The handlers and the turns that send at most two messages.              *)

Sent(m) == IsMsg(m) /\ m.sess = session_index

\* The agent at work handles its first message or none, ends its turn or not, and
\* sends messages about the present session.
MailStep ==
    /\ UNCHANGED <<mailbox, session_index, phase>>
    /\ \/ inbox = << >> /\ inbox' = << >>
       \/ inbox # << >> /\ inbox' \in {inbox, Tail(inbox)} /\ UNCHANGED <<turn, popped>>
    /\ \/ queue' = queue
       \/ \E m : Sent(m) /\ queue' = Append(queue, m)
       \/ \E m, n : Sent(m) /\ Sent(n) /\ queue' = Append(Append(queue, m), n)

\* Such a step adds what it sends and nothing else.
LEMMA MailStepFacts ==
    ASSUME MsgInv, MailStep
    PROVE  /\ IsSeq(queue') /\ IsSeq(inbox')
           /\ Elems(inbox') \subseteq Elems(inbox)
           /\ \A m \in Elems(queue') : m \in Elems(queue) \/ Sent(m)
           /\ \A m \in InFlight' : m \in InFlight \/ Sent(m)
           /\ Once(inbox) => Once(inbox')
<1>1. IsSeq(queue) /\ IsSeq(inbox) /\ \A a \in Agents : IsSeq(mailbox[a])
  BY DEF MsgInv, BoxesOK
<1>2. IsSeq(inbox') /\ Elems(inbox') \subseteq Elems(inbox) /\ (Once(inbox) => Once(inbox'))
  BY <1>1, TailFacts DEF MailStep
<1>3. IsSeq(queue') /\ \A m \in Elems(queue') : m \in Elems(queue) \/ Sent(m)
  <2>1. CASE queue' = queue
    BY <1>1, <2>1
  <2>2. ASSUME NEW m, Sent(m), queue' = Append(queue, m)
        PROVE  IsSeq(queue') /\ Elems(queue') = Elems(queue) \cup {m}
    BY <1>1, <2>2, AppendFacts
  <2>3. ASSUME NEW m, NEW n, Sent(m), Sent(n), queue' = Append(Append(queue, m), n)
        PROVE  IsSeq(queue') /\ Elems(queue') = Elems(queue) \cup {m, n}
    <3>1. IsSeq(Append(queue, m)) /\ Elems(Append(queue, m)) = Elems(queue) \cup {m}
      BY <1>1, AppendFacts
    <3> QED
      BY <2>3, <3>1, AppendFacts
  <2> QED
    BY <2>1, <2>2, <2>3 DEF MailStep
<1>4. \A m \in InFlight' : m \in InFlight \/ Sent(m)
  BY <1>2, <1>3 DEF InFlight, MailStep
<1> QED
  BY <1>2, <1>3, <1>4

\* It leaves boxes in order and messages about the present session.
LEMMA MailStepInv == MsgInv /\ MailStep => BoxesOK' /\ Fresh'
<1> SUFFICES ASSUME MsgInv, MailStep PROVE BoxesOK' /\ Fresh'
  OBVIOUS
<1>1. BoxesOK'
  <2>1. /\ mailbox' = [a \in Agents |-> mailbox'[a]]
        /\ \A a \in Agents : IsSeq(mailbox'[a]) /\ Addressed(mailbox'[a], a)
    BY DEF MailStep, MsgInv, BoxesOK
  <2>2. \A m \in InFlight' : IsMsg(m)
    BY MailStepFacts DEF MsgInv, BoxesOK, Sent
  <2>3. inbox' # << >> =>
          phase' = "run" /\ popped' /\ turn' \in 1..Len(Order) /\ Addressed(inbox', Me')
    BY MailStepFacts DEF MailStep, MsgInv, BoxesOK, Addressed, Me
  <2> QED
    BY <2>1, <2>2, <2>3, MailStepFacts DEF BoxesOK, Addressed
<1>2. Fresh'
  BY MailStepFacts DEF Fresh, Sent, MailStep, MsgInv
<1> QED
  BY <1>1, <1>2

\* With no verdict among what is sent, and the session as it was, there is no new one.
LEMMA NoVerdictSent ==
    ASSUME MsgInv, MailStep,
           session'.open = session.open, session'.stopped = session.stopped,
           \/ queue' = queue
           \/ \E m : m.event \notin Judging /\ queue' = Append(queue, m)
    PROVE  JudgedOnce'
<1>1. IsSeq(queue) /\ IsSeq(inbox) /\ JudgedOnce
  BY DEF MsgInv, BoxesOK
<1>2. Once(queue') /\ (Has(queue', Judging) => Has(queue, Judging))
  <2>1. CASE queue' = queue
    BY <1>1, <2>1 DEF JudgedOnce
  <2>2. ASSUME NEW m, m.event \notin Judging, queue' = Append(queue, m)
        PROVE  Once(queue') /\ Elems(queue') = Elems(queue) \cup {m}
    BY <1>1, <2>2, AppendFacts DEF JudgedOnce
  <2> QED
    BY <1>1, <2>1, <2>2 DEF Has
<1>3. Once(inbox') /\ (Has(inbox', Judging) => Has(inbox, Judging))
  BY <1>1, MailStepFacts DEF JudgedOnce, Has
<1> QED
  BY <1>1, <1>2, <1>3 DEF JudgedOnce, Judged, MailStep

-----------------------------------------------------------------------------
(* What most of these steps have in common.                                *)

\* Agents are as active as before.
LEMMA ActiveKept ==
    ASSUME MsgInv, phase = "run", phase' = "run", active' = active,
           session'.open = session.open,
           UNCHANGED <<turn, popped>> \/ ~popped'
    PROVE  ActiveOK'
BY DEF MsgInv, ActiveOK, Me

\* Targets go on with their agents.
LEMMA TargetsKept ==
    ASSUME MsgInv, phase = "run", phase' = "run", UNCHANGED <<active, target, faulty>>
    PROVE  TargetsOK'
BY DEF MsgInv, TargetsOK

\* Messages that neither stop nor judge anything change nothing about the end.
LEMMA EndKept ==
    ASSUME MsgInv, MailStep, phase = "run", session'.open = session.open,
           UNCHANGED <<exitcode, errors, stopIndex>>,
           \/ queue' = queue
           \/ \E m : /\ m.event \notin StopEvents \cup Judging \cup {"univers_stop"}
                     /\ queue' = Append(queue, m)
    PROVE  EndsWell'
<1>1. IsSeq(queue)
  BY DEF MsgInv, BoxesOK
<1>2. \A m \in Elems(queue') :
         m \in Elems(queue) \/ m.event \notin StopEvents \cup Judging \cup {"univers_stop"}
  <2>1. CASE queue' = queue
    BY <2>1
  <2>2. ASSUME NEW m, queue' = Append(queue, m)
        PROVE  Elems(queue') = Elems(queue) \cup {m}
    BY <1>1, <2>2, AppendFacts
  <2> QED
    BY <2>1, <2>2
<1>3. \A m \in InFlight' :
         m \in InFlight \/ m.event \notin StopEvents \cup Judging \cup {"univers_stop"}
  BY <1>2, MailStepFacts DEF InFlight, MailStep
<1> QED
  BY <1>3 DEF MsgInv, EndsWell, Unasked, MailStep

\* A message that is handled is not the one that stops the loop.
LEMMA StopKept ==
    ASSUME MsgInv, MailStep, phase = "run", UNCHANGED <<turn, popped>>,
           is_done' = is_done, session'.open = session.open,
           \/ inbox' = inbox
           \/ inbox # << >> /\ inbox' = Tail(inbox) /\ Head(inbox).event # "univers_stop"
    PROVE  StopReaches'
<1>1. IsSeq(inbox)
  BY DEF MsgInv, BoxesOK
<1>2. Has(inbox', {"univers_stop"}) <=> Has(inbox, {"univers_stop"})
  BY <1>1, TailFacts DEF Has
<1> QED
  BY <1>2 DEF MsgInv, StopReaches, UniversRead, StopsFirst, StopWaits, MailStep

\* The next agent is executed.
LEMMA TurnEnds ==
    ASSUME MsgInv, phase = "run", phase' = "run", inbox = << >>, inbox' = << >>,
           mailbox' = mailbox, turn \in 1..Len(Order), turn' = turn + 1, ~popped',
           is_done' = is_done, session'.open = session.open, popped \/ turn \notin {1, 3}
    PROVE  StopReaches'
<1>1. turn \in Nat /\ turn' # 0 /\ turn' # 1
  BY OrderFacts
<1>2. ~Has(inbox, {"univers_stop"}) /\ ~Has(inbox', {"univers_stop"})
  BY EmptyFacts
<1>3. mailbox["univers"] = << >> /\ ~Has(mailbox["univers"], {"univers_stop"})
  BY <1>1, EmptyFacts DEF MsgInv, StopReaches, UniversRead
<1> QED
  BY <1>1, <1>2, <1>3 DEF MsgInv, StopReaches, UniversRead, StopsFirst, StopWaits

-----------------------------------------------------------------------------
(* The loop.                                                               *)

\* The loop goes on with the first agent.
LEMMA MtaDoneInv == MsgInv /\ MtaDone /\ Inv' => MsgInv'
<1> SUFFICES ASSUME MsgInv, MtaDone, Inv' PROVE MsgInv'
  OBVIOUS
<1>1. /\ phase = "run" /\ phase' = "run" /\ turn = 0 /\ turn' = 1 /\ popped' = FALSE
      /\ UNCHANGED <<queue, mailbox, active, inbox, session, session_index, exitcode,
                     errors, stopIndex, target, faulty, is_done>>
  BY DEF MtaDone, msgVars, worldVars, projVars, histVars
<1>2. inbox = << >> /\ MailStep
  BY <1>1, OrderFacts DEF MsgInv, BoxesOK, MailStep
<1>3. ActiveOK' /\ TargetsOK'
  BY <1>1, <1>2, ActiveKept, TargetsKept
<1>4. JudgedOnce' /\ EndsWell'
  BY <1>1, <1>2, NoVerdictSent, EndKept
<1>5. StopReaches'
  BY <1>1, <1>2, EmptyFacts, OrderFacts
     DEF MsgInv, StopReaches, UniversRead, StopsFirst, StopWaits, Has
<1> QED
  BY <1>2, <1>3, <1>4, <1>5, MailStepInv DEF MsgInv

\* A turn that ends with at most one message sent, which is neither a verdict nor a
\* request to stop.
LEMMA TurnInv ==
    ASSUME MsgInv, Inv', phase = "run", phase' = "run", inbox = << >>,
           turn \in 1..Len(Order), turn' = turn + 1, ~popped',
           popped \/ turn \notin {1, 3},
           session'.open = session.open, session'.stopped = session.stopped,
           UNCHANGED <<mailbox, active, inbox, session_index, exitcode, is_done,
                       errors, stopIndex>>,
           \/ queue' = queue
           \/ \E m : /\ Sent(m) /\ m.event \notin StopEvents \cup Judging \cup {"univers_stop"}
                     /\ queue' = Append(queue, m),
           TargetsOK'
    PROVE  MsgInv'
<1>1. MailStep
  BY DEF MailStep
<1>2. JudgedOnce'
  BY <1>1, NoVerdictSent
<1>3. EndsWell'
  BY <1>1, EndKept
<1> QED
  BY <1>1, <1>2, <1>3, MailStepInv, ActiveKept, TurnEnds DEF MsgInv

\* An inactive agent is left out; Univers and the project are never inactive.
LEMMA SkipAgentInv == MsgInv /\ SkipAgent /\ Inv' => MsgInv'
<1> SUFFICES ASSUME MsgInv, SkipAgent, Inv' PROVE MsgInv'
  OBVIOUS
<1>1. /\ phase = "run" /\ phase' = "run" /\ turn \in 1..Len(Order) /\ turn' = turn + 1
      /\ ~popped /\ popped' = popped /\ Me \notin active
      /\ UNCHANGED <<queue, mailbox, active, inbox, session, session_index, exitcode,
                     errors, stopIndex, target, faulty, is_done>>
  BY DEF SkipAgent, AgentTurn, msgVars, worldVars, projVars, histVars
<1>2. inbox = << >> /\ turn \notin {1, 3}
  BY <1>1, TurnFacts DEF MsgInv, BoxesOK, ActiveOK
<1>3. TargetsOK'
  BY <1>1, TargetsKept
<1> QED
  BY <1>1, <1>2, <1>3, TurnInv

\* The agents without a live() of their own only end their turn.
LEMMA AppLiveInv == MsgInv /\ AppLive /\ Inv' => MsgInv'
<1> SUFFICES ASSUME MsgInv, AppLive, Inv' PROVE MsgInv'
  OBVIOUS
<1>1. PICK a : Living(a)
  BY DEF AppLive
<1>2. phase = "run" /\ popped /\ turn \in 1..Len(Order) /\ inbox = << >>
  BY <1>1, LivingFacts
<1>3. /\ turn' = turn + 1 /\ popped' = FALSE
      /\ UNCHANGED <<queue, mailbox, active, inbox, session, session_index, exitcode,
                     errors, stopIndex, target, faulty, is_done, phase>>
  BY DEF AppLive, EndTurn, msgVars, worldVars, projVars, histVars
<1>4. TargetsOK'
  BY <1>2, <1>3, TargetsKept
<1> QED
  BY <1>2, <1>3, <1>4, TurnInv

\* Session.live may ask for its end.
LEMMA SessionLiveInv == MsgInv /\ SessionLive /\ Inv' => MsgInv'
<1> SUFFICES ASSUME MsgInv, SessionLive, Inv' PROVE MsgInv'
  OBVIOUS
<1>1. phase = "run" /\ popped /\ turn \in 1..Len(Order) /\ inbox = << >>
  BY LivingFacts DEF SessionLive
<1>2. /\ turn' = turn + 1 /\ popped' = FALSE
      /\ UNCHANGED <<mailbox, active, inbox, session, session_index, exitcode,
                     errors, stopIndex, target, faulty, is_done, phase>>
      /\ queue' = queue \/ queue' = Append(queue, Msg("session_stop"))
  BY DEF SessionLive, EndTurn, SendMsg, worldVars, projVars, histVars
<1>3. /\ Sent(Msg("session_stop"))
      /\ Msg("session_stop").event \notin StopEvents \cup Judging \cup {"univers_stop"}
  BY DEF Sent, IsMsg, Msg, Event, StopEvents, Judging
<1>4. TargetsOK'
  BY <1>1, <1>2, TargetsKept
<1> QED
  BY <1>1, <1>2, <1>3, <1>4, TurnInv

\* Project.live reports the timeout.
LEMMA ProjectLiveInv == MsgInv /\ ProjectLive /\ Inv' => MsgInv'
<1> SUFFICES ASSUME MsgInv, ProjectLive, Inv' PROVE MsgInv'
  OBVIOUS
<1>1. phase = "run" /\ popped /\ turn \in 1..Len(Order) /\ inbox = << >>
  BY LivingFacts DEF ProjectLive
<1>2. /\ turn' = turn + 1 /\ popped' = FALSE
      /\ UNCHANGED <<mailbox, active, inbox, session, session_index, exitcode,
                     errors, stopIndex, target, faulty, is_done, phase>>
      /\ queue' = queue \/ queue' = Append(queue, Msg("session_stop"))
  BY DEF ProjectLive, EndTurn, SendMsg, histVars
<1>3. /\ Sent(Msg("session_stop"))
      /\ Msg("session_stop").event \notin StopEvents \cup Judging \cup {"univers_stop"}
  BY DEF Sent, IsMsg, Msg, Event, StopEvents, Judging
<1>4. TargetsOK'
  BY <1>1, <1>2, TargetsKept
<1> QED
  BY <1>1, <1>2, <1>3, <1>4, TurnInv

\* The clock, and a program that has ended, leave messages alone.
LEMMA TickInv == MsgInv /\ Tick /\ Inv' => MsgInv'
<1> SUFFICES ASSUME MsgInv, Tick, Inv' PROVE MsgInv'
  OBVIOUS
<1>1. UNCHANGED <<queue, mailbox, active, inbox, session, session_index, exitcode,
                  errors, stopIndex, target, faulty, is_done, phase, turn, popped>>
  BY DEF Tick, msgVars, loopVars, histVars
<1> QED
  BY <1>1 DEF MsgInv, BoxesOK, ActiveOK, TargetsOK, JudgedOnce, Judged, Fresh, InFlight,
              StopReaches, UniversRead, StopsFirst, StopWaits, EndsWell, Unasked, Me

\* A step that changes nothing.
LEMMA StutterInv == MsgInv /\ UNCHANGED vars => MsgInv'
<1> SUFFICES ASSUME MsgInv, UNCHANGED vars PROVE MsgInv'
  OBVIOUS
<1>1. UNCHANGED <<queue, mailbox, active, inbox, session, session_index, exitcode,
                  errors, stopIndex, target, faulty, is_done, phase, turn, popped>>
  BY DEF vars, msgVars, loopVars, worldVars, projVars, histVars
<1>2. Inv'
  BY QuietInv DEF vars, worldVars, projVars, fileVars, coreVars, MsgInv
<1> QED
  BY <1>1, <1>2 DEF MsgInv, BoxesOK, ActiveOK, TargetsOK, JudgedOnce, Judged, Fresh, InFlight,
              StopReaches, UniversRead, StopsFirst, StopWaits, EndsWell, Unasked, Me

\* Probes at work.
LEMMA ProbeWatchesInv == \A p \in Probes : MsgInv /\ ProbeWatches(p) /\ Inv' => MsgInv'
<1> SUFFICES ASSUME NEW p \in Probes, MsgInv, ProbeWatches(p), Inv' PROVE MsgInv'
  OBVIOUS
<1>1. phase = "run" /\ popped /\ turn \in 1..Len(Order) /\ inbox = << >>
  BY LivingFacts DEF ProbeWatches, Probing
<1>2. /\ turn' = turn + 1 /\ ~popped'
      /\ UNCHANGED <<queue, mailbox, active, inbox, session, session_index, exitcode,
                     errors, stopIndex, target, faulty, is_done, phase>>
  BY DEF ProbeWatches, EndTurn, msgVars, projVars, histVars
<1>3. TargetsOK'
  BY <1>1, <1>2, TargetsKept
<1> QED
  BY <1>1, <1>2, <1>3, TurnInv

\* WatchProcess.processDone ends a target.
LEMMA ProbeTargetDoneInv == \A p \in Probes : MsgInv /\ ProbeTargetDone(p) /\ Inv' => MsgInv'
<1> SUFFICES ASSUME NEW p \in Probes, MsgInv, ProbeTargetDone(p), Inv' PROVE MsgInv'
  OBVIOUS
<1>1. phase = "run" /\ popped /\ turn \in 1..Len(Order) /\ inbox = << >>
  BY LivingFacts DEF ProbeTargetDone, Probing
<1>2. /\ turn' = turn + 1 /\ ~popped'
      /\ UNCHANGED <<mailbox, active, inbox, session, session_index, exitcode,
                     errors, stopIndex, faulty, is_done, phase>>
      /\ target' = [target EXCEPT ![p] = "idle"]
      /\ queue' = Append(queue, Msg("session_stop"))
  BY DEF ProbeTargetDone, EndTurn, SendMsg, projVars, histVars
<1>3. /\ Sent(Msg("session_stop"))
      /\ Msg("session_stop").event \notin StopEvents \cup Judging \cup {"univers_stop"}
  BY DEF Sent, IsMsg, Msg, Event, StopEvents, Judging
<1>4. TargetsOK'
  BY <1>1, <1>2 DEF MsgInv, TargetsOK
<1> QED
  BY <1>1, <1>2, <1>3, <1>4, TurnInv

\* The events a probe may send; one that asks for the end of the run is recorded.
LEMMA ProbeSendsInv == \A p \in Probes : MsgInv /\ ProbeSends(p) /\ Inv' => MsgInv'
<1> SUFFICES ASSUME NEW p \in Probes, MsgInv, ProbeSends(p), Inv' PROVE MsgInv'
  OBVIOUS
<1>1. phase = "run" /\ popped /\ turn \in 1..Len(Order) /\ inbox = << >> /\ session.open
  BY LivingFacts, AgentFacts DEF ProbeSends, Probing
<1>2. PICK e \in ProbeEvents :
         /\ queue' = Append(queue, Msg(e))
         /\ stopIndex' = IF e \in StopEvents /\ stopIndex = 0 THEN session_index ELSE stopIndex
         /\ errors' = errors \cup (IF e = "application_error" THEN {e} ELSE {})
  BY DEF ProbeSends, SendMsg
<1>3. /\ turn' = turn + 1 /\ ~popped'
      /\ UNCHANGED <<mailbox, active, inbox, session, session_index, exitcode,
                     faulty, is_done, phase, target>>
  BY DEF ProbeSends, EndTurn, projVars
<1>4. /\ e \in StopEvents \/ e = "session_stop"
      /\ Sent(Msg(e)) /\ Msg(e).event = e /\ e \notin Judging
  BY OptionsAssumption DEF Sent, IsMsg, Msg, Event, Judging, StopEvents
<1>5. TargetsOK'
  BY <1>1, <1>3, TargetsKept
<1>6. CASE e = "session_stop"
  <2>1. UNCHANGED <<stopIndex, errors>>
    BY <1>2, <1>6 DEF StopEvents
  <2>2. e \notin StopEvents \cup Judging \cup {"univers_stop"}
    BY <1>6 DEF StopEvents, Judging
  <2> QED
    BY <1>1, <1>2, <1>3, <1>4, <1>5, <2>1, <2>2, TurnInv
<1>7. CASE e \in StopEvents
  <2>1. ~Unasked'
    <3>1. session_index # 0
      BY <1>1 DEF MsgInv, Inv, StartInv
    <3> QED
      BY <1>2, <1>7, <3>1 DEF Unasked
  <2>2. EndsWell'
    BY <1>1, <1>3, <2>1 DEF EndsWell
  <2>3. MailStep
    BY <1>1, <1>2, <1>3, <1>4 DEF MailStep
  <2>4. JudgedOnce'
    BY <1>2, <1>3, <1>4, <2>3, NoVerdictSent
  <2> QED
    BY <1>1, <1>3, <1>5, <2>2, <2>3, <2>4, MailStepInv, ActiveKept, TurnEnds DEF MsgInv
<1> QED
  BY <1>4, <1>6, <1>7

\* The loop is left: what is in flight will not be handled.
LEMMA LeavesInv ==
    ASSUME MsgInv, Inv', phase' \notin {"activate", "run"}, inbox' = << >>,
           queue' = queue \/ queue' = << >>,
           mailbox' = mailbox \/ mailbox' = Emptied(AppAgents),
           active' \subseteq Agents, TargetsOK',
           phase' = "abort" => errors' # {},
           Unasked' => exitcode' = 0
    PROVE  MsgInv'
<1>1. /\ IsSeq(queue') /\ Elems(queue') \subseteq Elems(queue) /\ (Once(queue) => Once(queue'))
      /\ IsSeq(inbox') /\ Elems(inbox') = {} /\ Once(inbox')
  BY EmptyFacts DEF MsgInv, BoxesOK
<1>2. /\ mailbox' = [a \in Agents |-> mailbox'[a]]
      /\ \A a \in Agents : mailbox'[a] = mailbox[a] \/ mailbox'[a] = << >>
  BY DEF MsgInv, BoxesOK, Emptied
<1>3. \A a \in Agents : /\ IsSeq(mailbox'[a]) /\ Elems(mailbox'[a]) \subseteq Elems(mailbox[a])
                        /\ Once(mailbox[a]) => Once(mailbox'[a])
  BY <1>2, EmptyFacts DEF MsgInv, BoxesOK
<1>4. \A m \in InFlight' : m \in InFlight
  BY <1>1, <1>3 DEF InFlight
<1>5. BoxesOK'
  BY <1>1, <1>2, <1>3, <1>4 DEF MsgInv, BoxesOK, Addressed
<1>6. JudgedOnce'
  <2>1. "project" \in Agents
    BY DEF Agents, AppAgents
  <2> QED
    BY <1>1, <1>3, <2>1 DEF MsgInv, JudgedOnce, Judged, Has
<1>7. ActiveOK' /\ Fresh' /\ StopReaches' /\ EndsWell'
  BY DEF ActiveOK, Fresh, StopReaches, EndsWell
<1> QED
  BY <1>5, <1>6, <1>7 DEF MsgInv

\* Univers.execute returns when it was stopped, and else begins again with the MTA.
LEMMA EndStepInv == MsgInv /\ EndStep /\ Inv' => MsgInv'
<1> SUFFICES ASSUME MsgInv, EndStep, Inv' PROVE MsgInv'
  OBVIOUS
<1>1. /\ phase = "run" /\ turn = Len(Order) + 1
      /\ UNCHANGED <<queue, mailbox, active, inbox, session, session_index, exitcode,
                     errors, stopIndex, target, faulty, is_done, popped>>
      /\ \/ is_done /\ phase' = "deactivate" /\ turn' = turn
         \/ ~is_done /\ turn' = 0 /\ phase' = "run"
  BY DEF EndStep, msgVars, projVars, histVars
<1>2. inbox = << >> /\ Len(Order) \in Nat /\ Len(Order) > 3 /\ turn \notin 1..Len(Order)
  BY <1>1, OrderFacts DEF MsgInv, BoxesOK
<1>3. CASE phase' = "deactivate"
  <2>1. active' \subseteq Agents /\ TargetsOK'
    BY <1>1, <1>3 DEF MsgInv, ActiveOK, TargetsOK
  <2>2. Unasked' => exitcode' = 0
    BY <1>1 DEF MsgInv, EndsWell, Unasked
  <2> QED
    BY <1>1, <1>2, <1>3, <2>1, <2>2, LeavesInv
<1>4. CASE ~is_done /\ turn' = 0 /\ phase' = "run"
  <2>1. MailStep
    BY <1>1, <1>2, <1>4 DEF MailStep
  <2>2. JudgedOnce' /\ EndsWell' /\ TargetsOK'
    BY <1>1, <1>4, <2>1, NoVerdictSent, EndKept, TargetsKept
  <2>3. ActiveOK'
    BY <1>1, <1>4, OrderFacts DEF MsgInv, ActiveOK
  <2>4. StopReaches'
    <3>1. mailbox["univers"] = << >>
      BY <1>1, <1>2 DEF MsgInv, StopReaches, UniversRead
    <3>2. ~Has(mailbox'["univers"], {"univers_stop"})
      BY <1>1, <3>1, EmptyFacts
    <3> QED
      BY <1>1, <1>4, <3>2 DEF StopReaches, UniversRead, StopsFirst
  <2> QED
    BY <2>1, <2>2, <2>3, <2>4, MailStepInv DEF MsgInv
<1> QED
  BY <1>1, <1>3, <1>4

\* The other ways out of the loop and out of the run.
LEMMA InterruptInv == MsgInv /\ Interrupt /\ Inv' => MsgInv'
<1> SUFFICES ASSUME MsgInv, Interrupt, Inv' PROVE MsgInv'
  OBVIOUS
<1>1. /\ phase = "run" /\ phase' = "deactivate" /\ inbox' = << >>
      /\ UNCHANGED <<queue, mailbox, active, exitcode, errors, stopIndex, target, faulty>>
  BY DEF Interrupt, histVars
<1>2. active' \subseteq Agents /\ TargetsOK' /\ (Unasked' => exitcode' = 0)
  BY <1>1 DEF MsgInv, ActiveOK, TargetsOK, EndsWell, Unasked
<1> QED
  BY <1>1, <1>2, LeavesInv

\* Project.deactivate of a run that ends.
LEMMA DeactivateProjectInv == MsgInv /\ DeactivateProject /\ Inv' => MsgInv'
<1> SUFFICES ASSUME MsgInv, DeactivateProject, Inv' PROVE MsgInv'
  OBVIOUS
<1>1. /\ phase = "deactivate" /\ phase' = "destroy" /\ active' = active \ {"project"}
      /\ UNCHANGED <<queue, mailbox, inbox, exitcode, errors, stopIndex, target, faulty>>
  BY DEF DeactivateProject, histVars
<1>2. active' \subseteq Agents /\ TargetsOK' /\ (Unasked' => exitcode' = 0)
  BY <1>1, AgentFacts DEF MsgInv, ActiveOK, TargetsOK, EndsWell, Unasked
<1>3. inbox' = << >>
  BY <1>1 DEF MsgInv, BoxesOK
<1> QED
  BY <1>1, <1>2, <1>3, LeavesInv

\* Application.exit deactivates what is left.
LEMMA ApplicationExitInv == MsgInv /\ ApplicationExit /\ Inv' => MsgInv'
<1> SUFFICES ASSUME MsgInv, ApplicationExit, Inv' PROVE MsgInv'
  OBVIOUS
<1>1. /\ phase = "done" /\ phase' = "exited" /\ active' = {}
      /\ UNCHANGED <<queue, mailbox, inbox, exitcode, errors, stopIndex, target, faulty>>
  BY DEF ApplicationExit, histVars
<1>2. active' \subseteq Agents /\ TargetsOK' /\ (Unasked' => exitcode' = 0)
  BY <1>1 DEF MsgInv, ActiveOK, TargetsOK, EndsWell, Unasked
<1>3. inbox' = << >>
  BY <1>1 DEF MsgInv, BoxesOK
<1> QED
  BY <1>1, <1>2, <1>3, LeavesInv

\* A first session that cannot be created aborts the run.
LEMMA ActivateProjectFailsInv == MsgInv /\ ActivateProjectFails /\ Inv' => MsgInv'
<1> SUFFICES ASSUME MsgInv, ActivateProjectFails, Inv' PROVE MsgInv'
  OBVIOUS
<1>1. /\ phase = "activate" /\ phase' = "abort" /\ active' = active \cup {"project"}
      /\ errors' = errors \cup {"calm"}
      /\ UNCHANGED <<queue, mailbox, inbox, exitcode, stopIndex, target, faulty>>
  BY DEF ActivateProjectFails
<1>2. active' \subseteq Agents /\ TargetsOK'
  BY <1>1, AgentFacts DEF MsgInv, ActiveOK, TargetsOK, AppAgents
<1>3. errors' # {} /\ ~Unasked'
  BY <1>1 DEF Unasked
<1>4. inbox' = << >>
  BY <1>1 DEF MsgInv, BoxesOK
<1> QED
  BY <1>1, <1>2, <1>3, <1>4, LeavesInv

\* Project.destroy ends the targets of the agents whose deinit() does not raise.
LEMMA DestroyProjectMsgInv == MsgInv /\ DestroyProject /\ Inv' => MsgInv'
<1> SUFFICES ASSUME MsgInv, DestroyProject, Inv' PROVE MsgInv'
  OBVIOUS
<1>1. /\ phase \in {"destroy", "abort"} /\ phase' = "done"
      /\ active' = active \cap {"univers", "application"}
      /\ exitcode' = IF phase = "abort" THEN 1 ELSE exitcode
      /\ UNCHANGED <<queue, mailbox, inbox, errors, stopIndex>>
  BY DEF DestroyProject
<1>2. PICK F \in SUBSET (Probes \cap active) :
         faulty' = faulty \cup F /\ target' = TargetsStopped(Probes \ F)
  BY DEF DestroyProject
<1>3. TargetsOK'
  BY <1>1, <1>2, AgentFacts DEF MsgInv, TargetsOK, TargetsStopped, AppAgents
<1>4. inbox' = << >>
  BY <1>1 DEF MsgInv, BoxesOK
<1>5. active' \subseteq Agents /\ (Unasked' => exitcode' = 0)
  BY <1>1 DEF MsgInv, ActiveOK, EndsWell, Unasked
<1> QED
  BY <1>1, <1>3, <1>4, <1>5, LeavesInv

\* A handler of the project fails: the system is not calm,
LEMMA ProjectNotCalmInv == MsgInv /\ ProjectNotCalm /\ Inv' => MsgInv'
<1> SUFFICES ASSUME MsgInv, ProjectNotCalm, Inv' PROVE MsgInv'
  OBVIOUS
<1>1. /\ phase' = "deactivate" /\ inbox' = << >> /\ queue' = << >>
      /\ active' = active \cap AppAgents /\ target' = TargetsStopped(Probes)
      /\ mailbox' = Emptied(AppAgents)
      /\ errors' = errors \cup {"calm"} /\ UNCHANGED <<stopIndex, faulty>>
  BY DEF ProjectNotCalm, DestroySession, Raise, MtaCleared
<1>2. TargetsOK' /\ active' \subseteq Agents
  BY <1>1 DEF MsgInv, ActiveOK, TargetsOK, TargetsStopped
<1>3. ~Unasked'
  BY <1>1 DEF Unasked
<1> QED
  BY <1>1, <1>2, <1>3, LeavesInv

\* the deinit() of a probe raises,
LEMMA RaisesInv ==
    ASSUME MsgInv, Inv', NEW s, DestroySessionRaises(s)
    PROVE  MsgInv'
<1>1. /\ phase' = "deactivate" /\ inbox' = << >> /\ errors' = errors \cup {"deinit"}
      /\ UNCHANGED <<queue, mailbox>>
  BY DEF DestroySessionRaises, Raise
<1>2. PICK i \in DOMAIN ProbeOrder :
         LET p == ProbeOrder[i]
             Down == {ProbeOrder[j] : j \in 1..i}
         IN  /\ active' = active \ (Down \cup {"session"})
             /\ \E t \in {"idle", target[p]} : target' = [TargetsStopped(Down) EXCEPT ![p] = t]
             /\ faulty' = faulty \cup {p}
  BY DEF DestroySessionRaises
<1> DEFINE p == ProbeOrder[i]
           Down == {ProbeOrder[j] : j \in 1..i}
<1>3. PICK t : target' = [TargetsStopped(Down) EXCEPT ![p] = t]
  BY <1>2
<1>4. active' \subseteq Agents
  BY <1>2 DEF MsgInv, ActiveOK
<1>5. TargetsOK'
  <2>1. target' = [q \in Probes |-> target'[q]]
    BY <1>3 DEF TargetsStopped
  <2>2. ASSUME NEW q \in Probes \ faulty', target'[q] # "idle" PROVE q \in active'
    <3>1. q # p /\ q \notin faulty
      BY <1>2, <2>2
    <3>2. target[q] # "idle" /\ ~(q \in Down /\ q \in active)
      BY <1>3, <2>2, <3>1 DEF TargetsStopped
    <3>3. q \in active /\ q \notin Down /\ q # "session"
      BY <3>1, <3>2, AgentFacts DEF MsgInv, TargetsOK
    <3> QED
      BY <1>2, <3>3
  <2> QED
    BY <1>1, <2>1, <2>2 DEF TargetsOK
<1>6. ~Unasked'
  BY <1>1 DEF Unasked
<1> QED
  BY <1>1, <1>4, <1>5, <1>6, LeavesInv

\* or there is no session to close, which takes a request to stop or another failure.
LEMMA ProjectNoSessionInv == MsgInv /\ ProjectNoSession /\ Inv' => MsgInv'
<1> SUFFICES ASSUME MsgInv, ProjectNoSession, Inv' PROVE MsgInv'
  OBVIOUS
<1>1. /\ phase' = "deactivate" /\ inbox' = << >> /\ ~session.open
      /\ UNCHANGED <<queue, mailbox, active, target, faulty, errors, stopIndex>>
  BY DEF ProjectNoSession, Raise, histVars
<1>2. Handling("project", "project_session_destroy")
  BY DEF ProjectNoSession, DestroyingSession
<1>3. TargetsOK' /\ active' \subseteq Agents
  BY <1>1, <1>2, HandlingFacts DEF MsgInv, ActiveOK, TargetsOK
<1>4. ~Unasked'
  BY <1>1, <1>2, HandlingFacts DEF MsgInv, EndsWell, Unasked, Judging
<1> QED
  BY <1>1, <1>3, <1>4, LeavesInv

\* The MTA copies a message to the mailboxes of the active agents that listen to it.
LEMMA MtaDeliverInv == MsgInv /\ MtaDeliver /\ Inv' => MsgInv'
<1> SUFFICES ASSUME MsgInv, MtaDeliver, Inv' PROVE MsgInv'
  OBVIOUS
<1> DEFINE m == Head(queue)
<1>1. /\ phase = "run" /\ turn = 0 /\ queue # << >> /\ queue' = Tail(queue)
      /\ mailbox' = Delivered(m)
      /\ UNCHANGED <<active, inbox, session, session_index, exitcode, errors, stopIndex,
                     target, faulty, is_done, phase, turn, popped>>
  BY DEF MtaDeliver, DeliverNext, loopVars, worldVars, projVars, histVars
<1>2. inbox = << >> /\ IsSeq(queue)
  BY <1>1 DEF MsgInv, BoxesOK
<1>3. /\ IsSeq(Tail(queue)) /\ Elems(queue) = Elems(Tail(queue)) \cup {m} /\ m \in InFlight
      /\ Once(queue) => Once(Tail(queue))
      /\ Once(queue) /\ m.event \in Judging => ~Has(Tail(queue), Judging)
  BY <1>1, <1>2, TailFacts DEF InFlight
<1>4. m.event \in Event
  BY <1>3 DEF MsgInv, BoxesOK, IsMsg
<1>5. ASSUME NEW a \in Agents
      PROVE  /\ IsSeq(mailbox'[a])
             /\ \/ mailbox'[a] = mailbox[a]
                   /\ ~(a \in active /\ a \in Listeners[m.event])
                \/ /\ a \in active /\ a \in Listeners[m.event]
                   /\ Elems(mailbox'[a]) = Elems(mailbox[a]) \cup {m}
                   /\ Once(mailbox[a]) /\ (m.event \in Judging => ~Has(mailbox[a], Judging))
                         => Once(mailbox'[a])
  <2>1. mailbox'[a] = IF a \in active /\ a \in Listeners[m.event]
                      THEN Append(mailbox[a], m) ELSE mailbox[a]
    BY <1>1 DEF Delivered
  <2>2. IsSeq(mailbox[a])
    BY DEF MsgInv, BoxesOK
  <2> QED
    BY <2>1, <2>2, AppendFacts
<1>6. \A n \in InFlight' : n \in InFlight
  <2>1. \A a \in Agents : Elems(mailbox'[a]) \subseteq Elems(mailbox[a]) \cup {m}
    BY <1>5
  <2>2. m \in InFlight /\ Elems(queue') \subseteq Elems(queue) /\ inbox' = inbox
    BY <1>1, <1>3
  <2> QED
    BY <2>1, <2>2 DEF InFlight
<1>7. BoxesOK'
  <2>1. mailbox' = [a \in Agents |-> mailbox'[a]]
    BY <1>1 DEF Delivered
  <2>2. \A a \in Agents : Addressed(mailbox'[a], a)
    BY <1>5 DEF MsgInv, BoxesOK, Addressed
  <2>3. \A n \in InFlight' : IsMsg(n)
    BY <1>6 DEF MsgInv, BoxesOK
  <2>4. IsSeq(queue') /\ IsSeq(inbox') /\ inbox' = << >>
    BY <1>1, <1>2, <1>3, EmptyFacts
  <2>5. \A a \in Agents : IsSeq(mailbox'[a])
    BY <1>5
  <2> QED
    BY <2>1, <2>2, <2>3, <2>4, <2>5 DEF BoxesOK
<1>8. ActiveOK' /\ TargetsOK'
  BY <1>1, ActiveKept, TargetsKept
<1>9. JudgedOnce'
  <2>1. "project" \in Agents
    BY AgentFacts DEF AppAgents
  <2>2. CASE m.event \notin Judging
    <3>1. /\ Has(queue', Judging) => Has(queue, Judging)
          /\ Has(mailbox'["project"], Judging) => Has(mailbox["project"], Judging)
          /\ Once(queue') /\ Once(mailbox'["project"])
      BY <1>1, <1>3, <1>5, <2>1, <2>2 DEF Has, MsgInv, JudgedOnce
    <3> QED
      BY <1>1, <3>1 DEF MsgInv, JudgedOnce, Judged
  <2>3. CASE m.event \in Judging
    <3>1. Has(queue, Judging) /\ ~Has(queue', Judging)
      BY <1>1, <1>3, <2>3 DEF Has, MsgInv, JudgedOnce
    <3>2. ~Has(mailbox["project"], Judging) /\ ~Has(inbox, Judging)
      BY <3>1 DEF MsgInv, JudgedOnce
    <3>3. Once(mailbox'["project"]) /\ Once(queue')
      BY <1>1, <1>3, <1>5, <2>1, <3>2 DEF MsgInv, JudgedOnce
    <3>4. phase = "run" /\ session.open => session.stopped
      BY <3>1 DEF MsgInv, JudgedOnce, Judged
    <3> QED
      BY <1>1, <3>1, <3>2, <3>3, <3>4 DEF MsgInv, JudgedOnce
  <2> QED
    BY <2>2, <2>3
<1>10. Fresh' /\ EndsWell'
  BY <1>1, <1>6 DEF MsgInv, Fresh, EndsWell, Unasked
<1>11. StopReaches'
  <2>1. ~UniversRead' /\ ~(is_done' /\ session'.open) /\ turn' \in Nat
    BY <1>1 DEF MsgInv, StopReaches, UniversRead
  <2>2. ASSUME Has(mailbox'["univers"], {"univers_stop"})
        PROVE  Has(mailbox'["project"], {"univers_stop"})
    <3>1. {"univers", "project"} \subseteq Agents /\ "project" \in active
      BY <1>1, AgentFacts DEF AppAgents, MsgInv, ActiveOK
    <3>2. CASE Has(mailbox["univers"], {"univers_stop"})
      <4>1. Has(mailbox["project"], {"univers_stop"})
        BY <1>1, <3>2 DEF MsgInv, StopReaches, StopsFirst, StopWaits
      <4> QED
        BY <1>5, <3>1, <4>1 DEF Has
    <3>3. CASE m.event = "univers_stop"
      BY <1>4, <1>5, <3>1, <3>3, ListenersFacts DEF Has
    <3> QED
      BY <1>5, <2>2, <3>1, <3>2, <3>3 DEF Has
  <2> QED
    BY <1>1, <2>1, <2>2 DEF StopReaches, StopsFirst, StopWaits
<1> QED
  BY <1>7, <1>8, <1>9, <1>10, <1>11 DEF MsgInv

\* An agent takes its messages.
LEMMA ReadMailboxInv == MsgInv /\ ReadMailbox /\ Inv' => MsgInv'
<1> SUFFICES ASSUME MsgInv, ReadMailbox, Inv' PROVE MsgInv'
  OBVIOUS
<1>1. /\ phase = "run" /\ turn \in 1..Len(Order) /\ ~popped /\ Me \in active
      /\ inbox' = mailbox[Me] /\ mailbox' = [mailbox EXCEPT ![Me] = << >>] /\ popped'
      /\ UNCHANGED <<queue, active, session, session_index, exitcode, errors, stopIndex,
                     target, faulty, is_done, phase, turn>>
  BY DEF ReadMailbox, AgentTurn, PopMessages, worldVars, projVars, histVars
<1>2. inbox = << >> /\ Me \in Agents
  BY <1>1, TurnFacts DEF MsgInv, BoxesOK
<1>3. \A a \in Agents : mailbox'[a] = IF a = Me THEN << >> ELSE mailbox[a]
  BY <1>1 DEF MsgInv, BoxesOK
<1>4. \A m \in InFlight' : m \in InFlight
  <2>1. \A a \in Agents : Elems(mailbox'[a]) \subseteq Elems(mailbox[a])
    BY <1>3, EmptyFacts
  <2>2. Elems(inbox') = Elems(mailbox[Me])
    BY <1>1
  <2> QED
    BY <1>1, <1>2, <2>1, <2>2 DEF InFlight
<1>5. BoxesOK'
  <2>1. mailbox' = [a \in Agents |-> mailbox'[a]]
    BY <1>1 DEF MsgInv, BoxesOK
  <2>2. \A a \in Agents : IsSeq(mailbox'[a]) /\ Addressed(mailbox'[a], a)
    BY <1>3, EmptyFacts DEF MsgInv, BoxesOK, Addressed
  <2>3. \A m \in InFlight' : IsMsg(m)
    BY <1>4 DEF MsgInv, BoxesOK
  <2>4. IsSeq(inbox') /\ Addressed(inbox', Me')
    BY <1>1, <1>2 DEF MsgInv, BoxesOK, Me
  <2> QED
    BY <1>1, <2>1, <2>2, <2>3, <2>4 DEF MsgInv, BoxesOK
<1>6. ActiveOK' /\ TargetsOK'
  <2>1. Me' = Me
    BY <1>1 DEF Me
  <2> QED
    BY <1>1, <2>1, TargetsKept DEF MsgInv, ActiveOK
<1>7. JudgedOnce'
  <2>1. "project" \in Agents
    BY AgentFacts DEF AppAgents
  <2>2. CASE Me = "project"
    BY <1>1, <1>3, <2>1, <2>2, EmptyFacts DEF MsgInv, JudgedOnce, Judged
  <2>3. CASE Me # "project"
    <3>1. \A m \in Elems(mailbox[Me]) : m.event \notin Judging
      <4> SUFFICES ASSUME NEW m \in Elems(mailbox[Me]) PROVE m.event \notin Judging
        OBVIOUS
      <4>1. m.event \in Event /\ Me \in Listeners[m.event]
        BY <1>2 DEF MsgInv, BoxesOK, InFlight, Addressed, IsMsg
      <4> QED
        BY <2>3, <4>1 DEF Listeners, Judging, StopEvents
    <3>2. ~Has(inbox', Judging) /\ Once(inbox')
      BY <1>1, <3>1 DEF Has, Once, Elems
    <3> QED
      BY <1>1, <1>3, <2>1, <2>3, <3>2 DEF MsgInv, JudgedOnce, Judged
  <2> QED
    BY <2>2, <2>3
<1>8. Fresh' /\ EndsWell'
  BY <1>1, <1>4 DEF MsgInv, Fresh, EndsWell, Unasked
<1>9. StopReaches'
  <2>1. {"univers", "project"} \subseteq Agents
    BY AgentFacts DEF AppAgents
  <2>2. CASE turn = 1
    <3>1. Me = "univers" /\ mailbox'["univers"] = << >> /\ mailbox'["project"] = mailbox["project"]
      BY <1>1, <1>3, <2>1, <2>2, TurnFacts
    <3>2. ~Has(mailbox'["univers"], {"univers_stop"})
      BY <3>1, EmptyFacts
    <3> QED
      BY <1>1, <2>2, <3>1, <3>2 DEF MsgInv, StopReaches, UniversRead, StopsFirst, StopWaits
  <2>3. CASE turn = 3
    <3>1. Me = "project" /\ inbox' = mailbox["project"] /\ mailbox'["univers"] = mailbox["univers"]
      BY <1>1, <1>3, <2>1, <2>3, TurnFacts
    <3> QED
      BY <1>1, <2>3, <3>1 DEF MsgInv, StopReaches, UniversRead, StopsFirst, StopWaits
  <2>4. CASE turn \notin {1, 3}
    <3>1. /\ mailbox'["univers"] = mailbox["univers"]
          /\ mailbox'["project"] = mailbox["project"]
      BY <1>1, <1>3, <2>1, <2>4, TurnFacts
    <3> QED
      BY <1>1, <2>4, <3>1 DEF MsgInv, StopReaches, UniversRead, StopsFirst, StopWaits
  <2> QED
    BY <2>2, <2>3, <2>4
<1> QED
  BY <1>5, <1>6, <1>7, <1>8, <1>9 DEF MsgInv

-----------------------------------------------------------------------------
(* The handlers.                                                           *)

\* A handler that sends nothing, or a message that needs no care.
LEMMA HandlerInv ==
    ASSUME MsgInv, Inv', NEW a, NEW e, Handling(a, e), inbox' = Tail(inbox),
           UNCHANGED <<mailbox, active, turn, popped, phase, session, session_index,
                       exitcode, errors, stopIndex, faulty>>,
           \/ queue' = queue
           \/ \E m : /\ Sent(m) /\ m.event \notin Judging
                     /\ queue' = Append(queue, m),
           TargetsOK', StopReaches', EndsWell'
    PROVE  MsgInv'
<1>1. phase = "run" /\ MailStep
  BY HandlingFacts DEF MailStep
<1>2. JudgedOnce'
  BY <1>1, NoVerdictSent
<1> QED
  BY <1>1, <1>2, MailStepInv, ActiveKept DEF MsgInv

\* Univers.on_univers_stop: the project has the same message.
LEMMA UniversOnUniversStopInv == MsgInv /\ UniversOnUniversStop /\ Inv' => MsgInv'
<1> SUFFICES ASSUME MsgInv, UniversOnUniversStop, Inv' PROVE MsgInv'
  OBVIOUS
<1>1. /\ Handling("univers", "univers_stop") /\ is_done' = TRUE /\ inbox' = Tail(inbox)
      /\ UNCHANGED <<queue, mailbox, active, turn, popped, phase, session, session_index,
                     exitcode, errors, stopIndex, faulty, target>>
  BY DEF UniversOnUniversStop, NextMessage, worldVars, projVars, histVars
<1>2. phase = "run" /\ turn = 1 /\ popped /\ Has(inbox, {"univers_stop"})
  BY <1>1, HandlingFacts, TurnFacts DEF Has
<1>3. MailStep
  BY <1>1, HandlingFacts DEF MailStep
<1>4. StopReaches'
  BY <1>1, <1>2 DEF MsgInv, StopReaches, UniversRead, StopsFirst, StopWaits
<1>5. EndsWell' /\ TargetsOK'
  BY <1>1, <1>2, <1>3, EndKept, TargetsKept
<1> QED
  BY <1>1, <1>4, <1>5, HandlerInv

\* Application.on_application_interrupt and on_application_error: somebody asked.
LEMMA ApplicationOnStopMsgInv == MsgInv /\ ApplicationOnStop /\ Inv' => MsgInv'
<1> SUFFICES ASSUME MsgInv, ApplicationOnStop, Inv' PROVE MsgInv'
  OBVIOUS
<1>1. PICK e \in {"application_interrupt", "application_error"} : Handling("application", e)
  BY DEF ApplicationOnStop
<1>2. /\ inbox' = Tail(inbox) /\ queue' = Append(queue, Msg("univers_stop"))
      /\ UNCHANGED <<mailbox, active, turn, popped, is_done, phase, session, session_index,
                     errors, stopIndex, faulty, target>>
  BY DEF ApplicationOnStop, NextMessage, SendMsg, loopVars, projVars, histVars
<1>3. Sent(Msg("univers_stop")) /\ Msg("univers_stop").event \notin Judging
  BY DEF Sent, IsMsg, Msg, Event, Judging
<1>4. phase = "run" /\ inbox # << >> /\ Head(inbox).event = e /\ Head(inbox) \in InFlight
  BY <1>1, HandlingFacts
<1>5. MailStep
  BY <1>2, <1>3, <1>4 DEF MailStep
<1>6. StopReaches'
  BY <1>2, <1>4, <1>5, StopKept
<1>7. EndsWell'
  BY <1>2, <1>4 DEF MsgInv, EndsWell, Unasked, StopEvents
<1>8. TargetsOK'
  BY <1>2, <1>4, TargetsKept
<1>9. JudgedOnce'
  BY <1>2, <1>3, <1>5, NoVerdictSent
<1> QED
  BY <1>2, <1>4, <1>5, <1>6, <1>7, <1>8, <1>9, MailStepInv, ActiveKept DEF MsgInv

\* Project.on_project_stop likewise.
LEMMA ProjectOnProjectStopInv == MsgInv /\ ProjectOnProjectStop /\ Inv' => MsgInv'
<1> SUFFICES ASSUME MsgInv, ProjectOnProjectStop, Inv' PROVE MsgInv'
  OBVIOUS
<1>1. /\ Handling("project", "project_stop")
      /\ inbox' = Tail(inbox) /\ queue' = Append(queue, Msg("univers_stop"))
      /\ UNCHANGED <<mailbox, active, turn, popped, is_done, phase, session, session_index,
                     exitcode, errors, stopIndex, faulty, target>>
  BY DEF ProjectOnProjectStop, NextMessage, SendMsg, loopVars, worldVars, projVars, histVars
<1>2. Sent(Msg("univers_stop")) /\ Msg("univers_stop").event \notin Judging
  BY DEF Sent, IsMsg, Msg, Event, Judging
<1>3. phase = "run" /\ inbox # << >> /\ Head(inbox).event = "project_stop"
      /\ Head(inbox) \in InFlight
  BY <1>1, HandlingFacts
<1>4. MailStep
  BY <1>1, <1>2, <1>3 DEF MailStep
<1>5. StopReaches'
  BY <1>1, <1>3, <1>4, StopKept
<1>6. EndsWell'
  BY <1>1, <1>3 DEF MsgInv, EndsWell, Unasked, StopEvents
<1>7. TargetsOK'
  BY <1>1, <1>3, TargetsKept
<1> QED
  BY <1>1, <1>2, <1>5, <1>6, <1>7, HandlerInv

\* Project.on_univers_stop without a session.
LEMMA ProjectIgnoresStopInv == MsgInv /\ ProjectOnUniversStop /\ ~session.open /\ Inv' => MsgInv'
<1> SUFFICES ASSUME MsgInv, ProjectOnUniversStop, ~session.open, Inv' PROVE MsgInv'
  OBVIOUS
<1>1. /\ Handling("project", "univers_stop") /\ inbox' = Tail(inbox)
      /\ UNCHANGED <<queue, mailbox, active, turn, popped, is_done, phase, session,
                     session_index, exitcode, errors, stopIndex, faulty, target>>
  BY DEF ProjectOnUniversStop, ClosesOnStop, NextMessage, loopVars, histVars
<1>2. phase = "run" /\ turn = 3 /\ popped /\ inbox # << >>
  BY <1>1, HandlingFacts, TurnFacts
<1>3. MailStep
  BY <1>1, <1>2 DEF MailStep
<1>4. StopReaches'
  <2>1. mailbox["univers"] = << >>
    BY <1>2 DEF MsgInv, StopReaches, UniversRead
  <2>2. ~Has(mailbox'["univers"], {"univers_stop"})
    BY <1>1, <2>1, EmptyFacts
  <2> QED
    BY <1>1, <1>2, <2>1, <2>2 DEF StopReaches, StopsFirst, UniversRead
<1>5. EndsWell' /\ TargetsOK'
  BY <1>1, <1>2, <1>3, EndKept, TargetsKept
<1> QED
  BY <1>1, <1>4, <1>5, HandlerInv

\* ProjectProcess.on_session_start.
LEMMA ProbeOnSessionStartInv == \A p \in Probes : MsgInv /\ ProbeOnSessionStart(p) /\ Inv' => MsgInv'
<1> SUFFICES ASSUME NEW p \in Probes, MsgInv, ProbeOnSessionStart(p), Inv' PROVE MsgInv'
  OBVIOUS
<1>1. /\ Handling(p, "session_start") /\ inbox' = Tail(inbox)
      /\ target' = [target EXCEPT ![p] = "running"]
      /\ UNCHANGED <<queue, mailbox, active, turn, popped, is_done, phase, session,
                     session_index, exitcode, errors, stopIndex, faulty>>
  BY DEF ProbeOnSessionStart, NextMessage, loopVars, projVars, histVars
<1>2. phase = "run" /\ inbox # << >> /\ Head(inbox).event = "session_start"
      /\ popped /\ turn \in 1..Len(Order) /\ Me = p
  BY <1>1, HandlingFacts
<1>3. MailStep
  BY <1>1, <1>2 DEF MailStep
<1>4. StopReaches' /\ EndsWell'
  BY <1>1, <1>2, <1>3, StopKept, EndKept
<1>5. p \in active
  BY <1>2 DEF MsgInv, ActiveOK
<1>6. TargetsOK'
  BY <1>1, <1>2, <1>5 DEF MsgInv, TargetsOK
<1> QED
  BY <1>1, <1>4, <1>6, HandlerInv

\* Project.on_session_done passes the verdict on.
LEMMA ProjectOnSessionDoneInv == MsgInv /\ ProjectOnSessionDone /\ Inv' => MsgInv'
<1> SUFFICES ASSUME MsgInv, ProjectOnSessionDone, Inv' PROVE MsgInv'
  OBVIOUS
<1> DEFINE h == Head(inbox)
           m == [h EXCEPT !.event = "project_session_destroy"]
<1>1. /\ Handling("project", "session_done") /\ inbox' = Tail(inbox)
      /\ queue' = Append(queue, m)
      /\ UNCHANGED <<mailbox, active, turn, popped, is_done, phase, session, session_index,
                     exitcode, errors, stopIndex, faulty, target>>
  BY DEF ProjectOnSessionDone, NextMessage, SendMsg, loopVars, worldVars, projVars, histVars
<1>2. /\ phase = "run" /\ inbox # << >> /\ h.event = "session_done" /\ h \in InFlight
      /\ h \in Elems(inbox) /\ IsSeq(inbox) /\ IsSeq(queue)
  BY <1>1, HandlingFacts DEF MsgInv, BoxesOK
<1>3. IsMsg(h) /\ h.sess = session_index
  BY <1>2 DEF MsgInv, BoxesOK, Fresh, SessionEvents
<1>4. m = [event |-> "project_session_destroy", score |-> h.score, sess |-> h.sess]
  BY <1>3 DEF IsMsg
<1>5. Sent(m) /\ m.event = "project_session_destroy"
  <2> HIDE DEF m, h
  <2> QED
    BY <1>3, <1>4 DEF Sent, IsMsg, Event
<1>6. MailStep
  <2> HIDE DEF m
  <2> QED
    BY <1>1, <1>2, <1>5 DEF MailStep
<1>7. StopReaches' /\ TargetsOK'
  BY <1>1, <1>2, <1>6, StopKept, TargetsKept
<1>8. Has(inbox, Judging) /\ ~Has(queue, Judging) /\ ~Has(mailbox["project"], Judging)
      /\ ~Has(inbox', Judging) /\ Once(inbox')
  <2>1. Has(inbox, Judging)
    BY <1>2 DEF Has, Judging
  <2> QED
    BY <1>1, <1>2, <2>1, TailFacts DEF MsgInv, JudgedOnce, Judging
<1>9. Once(queue')
  <2> HIDE DEF m
  <2> QED
    BY <1>1, <1>2, <1>8, AppendFacts DEF MsgInv, JudgedOnce
<1>10. JudgedOnce'
  BY <1>1, <1>2, <1>8, <1>9 DEF MsgInv, JudgedOnce, Judged
<1>11. EndsWell'
  <2>1. Unasked => session.open
    BY <1>2 DEF MsgInv, EndsWell, Judging
  <2>2. \A n \in InFlight' : n \in InFlight \/ n.event = "project_session_destroy"
    <3>1. Elems(queue') = Elems(queue) \cup {m}
      BY <1>1, <1>2, AppendFacts
    <3>2. Elems(inbox') \subseteq Elems(inbox)
      BY <1>6, MailStepFacts
    <3> HIDE DEF m
    <3> QED
      BY <1>1, <1>5, <3>1, <3>2 DEF InFlight
  <2> QED
    BY <1>1, <1>2, <2>1, <2>2 DEF MsgInv, EndsWell, Unasked, StopEvents
<1> QED
  BY <1>1, <1>2, <1>6, <1>7, <1>10, <1>11, MailStepInv, ActiveKept DEF MsgInv

\* Session.on_session_stop gives the verdict, and only once.
LEMMA SessionOnSessionStopMsgInv == MsgInv /\ SessionOnSessionStop /\ Inv' => MsgInv'
<1> SUFFICES ASSUME MsgInv, SessionOnSessionStop, Inv' PROVE MsgInv'
  OBVIOUS
<1>1. /\ Handling("session", "session_stop") /\ inbox' = Tail(inbox)
      /\ UNCHANGED <<mailbox, active, turn, popped, is_done, phase, session_index,
                     exitcode, errors, stopIndex, faulty, target>>
  BY DEF SessionOnSessionStop, NextMessage, loopVars
<1>2. /\ phase = "run" /\ inbox # << >> /\ Head(inbox).event = "session_stop"
      /\ popped /\ turn \in 1..Len(Order) /\ Me = "session" /\ IsSeq(queue)
  BY <1>1, HandlingFacts DEF MsgInv, BoxesOK
<1>3. session.open
  BY <1>2 DEF MsgInv, ActiveOK
<1>4. CASE session.stopped
  <2>1. UNCHANGED <<queue, session>>
    BY <1>4 DEF SessionOnSessionStop, SessionIgnoresStop
  <2>2. MailStep
    BY <1>1, <1>2, <2>1 DEF MailStep
  <2>3. StopReaches' /\ TargetsOK' /\ EndsWell'
    BY <1>1, <1>2, <2>1, <2>2, StopKept, TargetsKept, EndKept
  <2> QED
    BY <1>1, <2>1, <2>3, HandlerInv
<1>5. CASE ~session.stopped
  <2>1. PICK s : /\ session' = [session EXCEPT !.stopped = TRUE]
                 /\ queue' = queue \o VerdictMessages(s)
    BY <1>5 DEF SessionOnSessionStop, SessionIgnoresStop
  <2>2. session'.open = session.open /\ session'.stopped = TRUE
    BY <2>1 DEF MsgInv, Inv, ControlOK
  <2> DEFINE m == Msg("session_success")
             n == ScoredMsg("session_done", s)
  <2>3. /\ Sent(m) /\ m.event = "session_success" /\ Sent(n) /\ n.event = "session_done"
    BY DEF Sent, IsMsg, Msg, ScoredMsg, Event
  <2>4. queue' = Append(queue, n) \/ queue' = Append(Append(queue, m), n)
    BY <1>2, <2>1, AppendTwo DEF VerdictMessages
  <2> HIDE DEF m, n
  <2>5. MailStep
    BY <1>1, <1>2, <2>3, <2>4 DEF MailStep
  <2>6. ~Judged /\ Once(queue)
    BY <1>2, <1>3, <1>5 DEF MsgInv, JudgedOnce
  <2>7. Once(queue') /\ Elems(queue') \subseteq Elems(queue) \cup {m, n}
    <3>1. /\ IsSeq(Append(queue, m)) /\ Elems(Append(queue, m)) = Elems(queue) \cup {m}
          /\ Once(Append(queue, m)) /\ ~Has(Append(queue, m), Judging)
      BY <1>2, <2>3, <2>6, AppendFacts DEF Judged, Has, Judging
    <3>2. CASE queue' = Append(queue, n)
      BY <1>2, <2>6, <3>2, AppendFacts DEF Judged
    <3>3. CASE queue' = Append(Append(queue, m), n)
      BY <3>1, <3>3, AppendFacts
    <3> QED
      BY <2>4, <3>2, <3>3
  <2>8. ~Has(inbox', Judging) /\ Once(inbox')
    BY <2>5, <2>6, MailStepFacts DEF Judged, Has, MsgInv, JudgedOnce
  <2>9. JudgedOnce'
    BY <1>1, <2>2, <2>6, <2>7, <2>8 DEF MsgInv, JudgedOnce, Judged
  <2>10. \A k \in InFlight' : k \in InFlight \/ k \in {m, n}
    BY <1>1, <2>5, <2>7, MailStepFacts DEF InFlight
  <2>11. EndsWell'
    BY <1>1, <1>2, <1>3, <2>2, <2>3, <2>10 DEF MsgInv, EndsWell, Unasked, StopEvents, Judging
  <2>12. StopReaches' /\ TargetsOK'
    BY <1>1, <1>2, <2>2, <2>5, StopKept, TargetsKept
  <2> QED
    BY <1>1, <1>2, <2>2, <2>5, <2>9, <2>11, <2>12, MailStepInv, ActiveKept DEF MsgInv
<1> QED
  BY <1>4, <1>5

-----------------------------------------------------------------------------
(* The end of a session and the start of the next.                         *)

\* What the project is left with when it closes the session: no verdict, and the
\* messages that do not speak of a session.
LEMMA RestOfInbox ==
    ASSUME MsgInv, NEW e, Handling("project", e), session.open
    PROVE  \A m \in Elems(Tail(inbox)) :
              /\ IsMsg(m) /\ "project" \in Listeners[m.event] /\ m \in InFlight
              /\ e = "project_session_destroy" => m.event \in {"project_stop", "univers_stop"}
<1> SUFFICES ASSUME NEW m \in Elems(Tail(inbox))
             PROVE  /\ IsMsg(m) /\ "project" \in Listeners[m.event] /\ m \in InFlight
                    /\ e = "project_session_destroy" =>
                          m.event \in {"project_stop", "univers_stop"}
  OBVIOUS
<1>1. /\ phase = "run" /\ Me = "project" /\ inbox # << >> /\ IsSeq(inbox)
      /\ Head(inbox).event = e /\ m \in Elems(inbox)
  BY HandlingFacts
<1>2. IsMsg(m) /\ "project" \in Listeners[m.event] /\ m \in InFlight
  BY <1>1 DEF MsgInv, BoxesOK, InFlight, Addressed
<1>3. m.event \in {"project_stop", "univers_stop"} \cup Judging
  BY <1>2, ListenersFacts DEF IsMsg
<1>4. e = "project_session_destroy" => m.event \notin Judging
  BY <1>1, TailFacts DEF MsgInv, JudgedOnce, Has, Judging
<1> QED
  BY <1>2, <1>3, <1>4

\* Project.destroySession, with the univers told to stop or not.
LEMMA ClosesInv ==
    ASSUME MsgInv, Inv', NEW e, Handling("project", e), session.open,
           e \in {"univers_stop", "project_session_destroy"},
           session'.open = FALSE, active' = active \cap AppAgents,
           target' = TargetsStopped(Probes), mailbox' = Emptied(AppAgents),
           inbox' = Tail(inbox),
           queue' = << >> \/ queue' = <<Msg("univers_stop")>>,
           UNCHANGED <<turn, popped, is_done, phase, session_index, exitcode, errors,
                       stopIndex, faulty>>
    PROVE  MsgInv'
<1>1. /\ phase = "run" /\ Me = "project" /\ turn \in 1..Len(Order) /\ turn = 3 /\ popped
      /\ inbox # << >> /\ IsSeq(inbox) /\ Head(inbox).event = e /\ Head(inbox) \in InFlight
      /\ IsSeq(inbox')
  BY HandlingFacts, TurnFacts
<1> DEFINE m == Msg("univers_stop")
<1>2. Sent(m) /\ m.event = "univers_stop" /\ m.event \notin Judging \cup StopEvents \cup SessionEvents
  BY DEF Sent, IsMsg, Msg, Event, Judging, StopEvents, SessionEvents
<1> HIDE DEF m
<1>3. IsSeq(queue') /\ Elems(queue') \subseteq {m} /\ Once(queue') /\ ~Has(queue', Judging)
  <2>1. queue' = << >> \/ queue' = <<m>>
    BY DEF m
  <2> QED
    BY <1>2, <2>1, EmptyFacts, ShortFacts DEF Has
<1>4. /\ mailbox' = [a \in Agents |-> mailbox'[a]]
      /\ \A a \in Agents : mailbox'[a] = IF a \in AppAgents THEN << >> ELSE mailbox[a]
  BY DEF Emptied
<1>5. \A a \in Agents : /\ IsSeq(mailbox'[a]) /\ Addressed(mailbox'[a], a)
                        /\ Elems(mailbox'[a]) \subseteq Elems(mailbox[a])
  BY <1>4, EmptyFacts DEF MsgInv, BoxesOK, Addressed
<1>6. \A n \in InFlight' : n \in InFlight \/ n = m
  BY <1>3, <1>5, RestOfInbox DEF InFlight
<1>7. BoxesOK'
  <2>1. \A n \in InFlight' : IsMsg(n)
    BY <1>2, <1>6 DEF MsgInv, BoxesOK, Sent
  <2>2. Addressed(inbox', Me') /\ Me' = Me
    BY <1>1, RestOfInbox DEF Addressed, Me
  <2> QED
    BY <1>1, <1>3, <1>4, <1>5, <2>1, <2>2 DEF BoxesOK
<1>8. ActiveOK'
  BY <1>1, AgentFacts DEF MsgInv, ActiveOK, Me, AppAgents
<1>9. TargetsOK'
  BY <1>1 DEF MsgInv, TargetsOK, TargetsStopped
<1>10. mailbox'["project"] = << >> /\ mailbox'["univers"] = << >>
  BY <1>4, AgentFacts DEF AppAgents
<1>11. JudgedOnce'
  <2>1. Once(inbox') /\ ~Has(mailbox'["project"], Judging) /\ Once(mailbox'["project"])
    BY <1>1, <1>10, TailFacts, EmptyFacts DEF MsgInv, JudgedOnce
  <2> QED
    BY <1>3, <2>1 DEF JudgedOnce
<1>12. Fresh'
  BY <1>2, <1>6 DEF MsgInv, Fresh
<1>13. StopReaches'
  <2>1. ~Has(mailbox'["univers"], {"univers_stop"})
    BY <1>10, EmptyFacts
  <2> QED
    BY <1>1, <1>10, <2>1 DEF StopReaches, StopsFirst, UniversRead
<1>14. EndsWell'
  <2> SUFFICES ASSUME Unasked
               PROVE  /\ exitcode = 0
                      /\ \A n \in InFlight' : n.event \notin StopEvents \cup Judging
    BY <1>1 DEF EndsWell, Unasked
  <2>1. e = "project_session_destroy"
    BY <1>1 DEF MsgInv, EndsWell
  <2>2. exitcode = 0 /\ \A n \in InFlight' : n.event \notin StopEvents
    BY <1>1, <1>2, <1>6 DEF MsgInv, EndsWell
  <2>3. \A n \in Elems(inbox') : n.event \notin Judging
    BY <2>1, RestOfInbox DEF Judging
  <2>4. ASSUME NEW a \in Agents, NEW n \in Elems(mailbox'[a]) PROVE n.event \notin Judging
    <3>1. a \notin AppAgents
      BY <1>4, <2>4, EmptyFacts
    <3>2. n.event \in Event /\ a \in Listeners[n.event]
      BY <1>5, <2>4 DEF MsgInv, BoxesOK, InFlight, Addressed, IsMsg
    <3> QED
      BY <3>1, <3>2 DEF Listeners, Judging, AppAgents, StopEvents
  <2> QED
    BY <1>2, <1>3, <2>2, <2>3, <2>4 DEF InFlight
<1> QED
  BY <1>7, <1>8, <1>9, <1>11, <1>12, <1>13, <1>14 DEF MsgInv

\* Project.on_univers_stop closes the session,
LEMMA ProjectStopsInv == MsgInv /\ ProjectOnUniversStop /\ session.open /\ Inv' => MsgInv'
<1> SUFFICES ASSUME MsgInv, ProjectOnUniversStop, session.open, Inv' PROVE MsgInv'
  OBVIOUS
<1>1. /\ Handling("project", "univers_stop")
      /\ session' = NoSession /\ active' = active \cap AppAgents
      /\ target' = TargetsStopped(Probes) /\ mailbox' = Emptied(AppAgents)
      /\ inbox' = Tail(inbox) /\ queue' = << >>
      /\ UNCHANGED <<turn, popped, is_done, phase, session_index, exitcode, errors,
                     stopIndex, faulty>>
  BY DEF ProjectOnUniversStop, ClosesOnStop, DestroySession, NextMessage, MtaCleared,
         loopVars, histVars
<1>2. session'.open = FALSE
  BY <1>1 DEF NoSession
<1> QED
  BY <1>1, <1>2, ClosesInv

\* and so does a limit that is reached.
LEMMA ProjectStopsAtLimitInv == MsgInv /\ ProjectStopsAtLimit /\ Inv' => MsgInv'
<1> SUFFICES ASSUME MsgInv, ProjectStopsAtLimit, Inv' PROVE MsgInv'
  OBVIOUS
<1>1. /\ Handling("project", "project_session_destroy") /\ session.open
      /\ session' = NoSession /\ active' = active \cap AppAgents
      /\ target' = TargetsStopped(Probes) /\ mailbox' = Emptied(AppAgents)
      /\ inbox' = Tail(inbox) /\ queue' = <<Msg("univers_stop")>>
      /\ UNCHANGED <<turn, popped, is_done, phase, session_index, exitcode, errors,
                     stopIndex, faulty>>
  BY ShortFacts DEF ProjectStopsAtLimit, DestroyingSession, DestroySession, NextMessage, UniversStopped,
         MtaCleared, loopVars, histVars
<1>2. session'.open = FALSE
  BY <1>1 DEF NoSession
<1> QED
  BY <1>1, <1>2, ClosesInv

\* What Project.createSession sends, and to whom it is.
LEMMA CreateSends ==
    ASSUME NEW before, CreateSession(before, << >>), session_index \in Nat
    PROVE  /\ session_index' = session_index + 1 /\ active' = Agents
           /\ session' = [score |-> NoScore, stopped |-> FALSE, open |-> TRUE]
           /\ IsSeq(queue') /\ Once(queue')
           /\ \A m \in Elems(queue') :
                 /\ IsMsg(m) /\ m.sess = session_index'
                 /\ m.event \in {"project_start", "session_start"}
<1> DEFINE k == session_index + 1
           Started(e) == [event |-> e, score |-> NoScore, sess |-> k]
           p == Started("project_start")
           s == Started("session_start")
<1>1. /\ session_index' = k /\ active' = Agents
      /\ session' = [score |-> NoScore, stopped |-> FALSE, open |-> TRUE]
      /\ queue' = << >> \o <<p, s>> \/ queue' = << >> \o <<s>>
  BY DEF CreateSession
<1>2. /\ p.event = "project_start" /\ s.event = "session_start" /\ p.sess = k /\ s.sess = k
      /\ IsMsg(p) /\ IsMsg(s)
  BY DEF IsMsg, Event
<1> HIDE DEF p, s
<1>3. queue' = <<p, s>> \/ queue' = <<s>>
  BY <1>1, ShortFacts
<1>4. IsSeq(queue') /\ Once(queue') /\ Elems(queue') \subseteq {p, s}
  <2>1. p.event \notin Judging
    BY <1>2 DEF Judging
  <2>2. /\ IsSeq(<<p, s>>) /\ Once(<<p, s>>) /\ Elems(<<p, s>>) = {p, s}
        /\ IsSeq(<<s>>) /\ Once(<<s>>) /\ Elems(<<s>>) = {s}
    BY <2>1, ShortFacts
  <2>3. CASE queue' = <<p, s>>
    BY <2>2, <2>3
  <2>4. CASE queue' = <<s>>
    BY <2>2, <2>4
  <2> QED
    BY <1>3, <2>3, <2>4
<1> QED
  BY <1>1, <1>2, <1>4

\* A session has been created: the mailboxes are empty and the queue holds its start.
LEMMA CreatedInv ==
    ASSUME MsgInv, Inv', phase' = "run", active' = Agents,
           session'.open = TRUE, session'.stopped = FALSE,
           IsSeq(queue'), Once(queue'), IsSeq(inbox'), Once(inbox'),
           \A m \in Elems(queue') : /\ IsMsg(m) /\ m.sess = session_index'
                                    /\ m.event \in {"project_start", "session_start"},
           \A m \in Elems(inbox') : /\ IsMsg(m) /\ "project" \in Listeners[m.event]
                                    /\ m.event \in {"project_stop", "univers_stop"}
                                    /\ Unasked' => FALSE,
           inbox' # << >> => popped' /\ turn' \in 1..Len(Order) /\ Me' = "project",
           mailbox' = [a \in Agents |-> << >>],
           TargetsOK', turn' \in Nat,
           is_done' => turn' = 3 /\ popped' /\ Has(inbox', {"univers_stop"}),
           Unasked' => exitcode' = 0
    PROVE  MsgInv'
<1>1. \A a \in Agents : mailbox'[a] = << >> /\ IsSeq(mailbox'[a]) /\ Elems(mailbox'[a]) = {}
                        /\ Once(mailbox'[a]) /\ \A E : ~Has(mailbox'[a], E)
  BY EmptyFacts
<1>2. InFlight' = Elems(queue') \cup Elems(inbox')
  BY <1>1 DEF InFlight
<1>3. BoxesOK'
  BY <1>1, <1>2 DEF BoxesOK, Addressed
<1>4. ActiveOK'
  BY AgentFacts, OrderFacts DEF ActiveOK, Me, AppAgents
<1>5. "project" \in Agents /\ "univers" \in Agents
  BY AgentFacts DEF AppAgents
<1>6. ~Has(queue', Judging) /\ ~Has(inbox', Judging)
  BY DEF Has, Judging
<1>7. JudgedOnce'
  BY <1>1, <1>5, <1>6 DEF JudgedOnce, Judged
<1>8. Fresh'
  BY <1>2 DEF Fresh, SessionEvents
<1>9. EndsWell'
  BY <1>2 DEF EndsWell, Unasked, StopEvents, Judging
<1>10. StopReaches'
  <2>1. turn' = 1 => ~Has(inbox', {"univers_stop"})
    <3>1. turn' = 1 => inbox' = << >>
      BY OrderFacts DEF Me
    <3> QED
      BY <3>1, EmptyFacts
  <2> QED
    BY <1>1, <1>5, <2>1 DEF StopReaches, StopsFirst, StopWaits, UniversRead
<1> QED
  BY <1>3, <1>4, <1>7, <1>8, <1>9, <1>10 DEF MsgInv

\* The next session follows in the same handler.
LEMMA ProjectStartsNextSessionInv == MsgInv /\ ProjectStartsNextSession /\ Inv' => MsgInv'
<1> SUFFICES ASSUME MsgInv, ProjectStartsNextSession, Inv' PROVE MsgInv'
  OBVIOUS
<1>1. /\ Handling("project", "project_session_destroy") /\ session.open
      /\ CreateSession(DirsClosed(Verdict), << >>)
      /\ target' = TargetsStopped(Probes) /\ mailbox' = Emptied(Agents)
      /\ inbox' = Tail(inbox)
      /\ UNCHANGED <<turn, popped, is_done, phase, exitcode, errors, stopIndex, faulty>>
  BY DEF ProjectStartsNextSession, DestroyingSession, NextMessage, MailboxesEmptied,
         MtaCleared, loopVars, histVars
<1>2. /\ phase = "run" /\ Me = "project" /\ turn \in 1..Len(Order) /\ turn = 3 /\ popped
      /\ inbox # << >> /\ IsSeq(inbox) /\ Head(inbox).event = "project_session_destroy"
      /\ IsSeq(inbox') /\ Me' = Me
      /\ Elems(inbox) = Elems(inbox') \cup {Head(inbox)}
  BY <1>1, HandlingFacts, TurnFacts DEF Me
<1>3. session_index \in Nat
  BY BoundsAssumption DEF MsgInv, Inv, ControlOK
<1>4. /\ active' = Agents /\ session'.open = TRUE /\ session'.stopped = FALSE
      /\ IsSeq(queue') /\ Once(queue')
      /\ \A m \in Elems(queue') : /\ IsMsg(m) /\ m.sess = session_index'
                                  /\ m.event \in {"project_start", "session_start"}
  BY <1>1, <1>3, CreateSends
<1>5. Once(inbox')
  BY <1>1, <1>2, TailFacts DEF MsgInv, JudgedOnce
<1>6. ASSUME NEW m \in Elems(inbox')
      PROVE  /\ IsMsg(m) /\ "project" \in Listeners[m.event]
             /\ m.event \in {"project_stop", "univers_stop"}
             /\ ~Unasked'
  <2>1. /\ IsMsg(m) /\ "project" \in Listeners[m.event] /\ m \in InFlight
        /\ m.event \in {"project_stop", "univers_stop"}
    BY <1>1, <1>6, RestOfInbox
  <2>2. ~Unasked
    BY <1>1, <1>2, <2>1 DEF MsgInv, EndsWell, StopEvents
  <2> QED
    BY <1>1, <2>1, <2>2 DEF Unasked
<1>7. mailbox' = [a \in Agents |-> << >>]
  BY <1>1 DEF Emptied
<1>8. TargetsOK'
  BY <1>1, <1>2, <1>4 DEF MsgInv, TargetsOK, TargetsStopped, Agents
<1>9. is_done' => turn' = 3 /\ popped' /\ Has(inbox', {"univers_stop"})
  BY <1>1, <1>2 DEF MsgInv, StopReaches, StopWaits, Has
<1>10. Unasked' => exitcode' = 0
  BY <1>1 DEF MsgInv, EndsWell, Unasked
<1>11. phase' = "run" /\ turn' \in Nat
       /\ (inbox' # << >> => popped' /\ turn' \in 1..Len(Order) /\ Me' = "project")
  BY <1>1, <1>2
<1> QED
  BY <1>2, <1>4, <1>5, <1>6, <1>7, <1>8, <1>9, <1>10, <1>11, CreatedInv

\* Project.activate creates the first session.
LEMMA ActivateProjectMsgInv == MsgInv /\ ActivateProject /\ Inv' => MsgInv'
<1> SUFFICES ASSUME MsgInv, ActivateProject, Inv' PROVE MsgInv'
  OBVIOUS
<1>1. /\ phase = "activate" /\ phase' = "run" /\ CreateSession(dirs, queue)
      /\ mailbox' = Emptied(Agents \ active)
      /\ UNCHANGED <<inbox, turn, popped, is_done, exitcode, target, errors, stopIndex, faulty>>
  BY DEF ActivateProject, loopVars, histVars
<1>2. InFlight = {} /\ turn = 0 /\ ~is_done
  BY <1>1 DEF MsgInv, ActiveOK
<1>3. queue = << >> /\ inbox = << >> /\ \A a \in Agents : mailbox[a] = << >>
  <2>1. IsSeq(queue) /\ \A a \in Agents : IsSeq(mailbox[a])
    BY DEF MsgInv, BoxesOK
  <2>2. Elems(queue) = {} /\ \A a \in Agents : Elems(mailbox[a]) = {}
    BY <1>2 DEF InFlight
  <2> QED
    BY <1>1, <2>1, <2>2, TailFacts DEF MsgInv, BoxesOK
<1>4. session_index \in Nat
  BY BoundsAssumption DEF MsgInv, Inv, ControlOK
<1>5. /\ active' = Agents /\ session'.open = TRUE /\ session'.stopped = FALSE
      /\ IsSeq(queue') /\ Once(queue')
      /\ \A m \in Elems(queue') : /\ IsMsg(m) /\ m.sess = session_index'
                                  /\ m.event \in {"project_start", "session_start"}
  BY <1>1, <1>3, <1>4, CreateSends
<1>6. inbox' = << >> /\ IsSeq(inbox') /\ Once(inbox') /\ Elems(inbox') = {}
  BY <1>1, <1>3, EmptyFacts
<1>7. mailbox' = [a \in Agents |-> << >>]
  BY <1>1, <1>3 DEF Emptied
<1>8. TargetsOK'
  BY <1>1, <1>5 DEF MsgInv, TargetsOK, Agents
<1>9. ~is_done' /\ turn' \in Nat /\ (Unasked' => exitcode' = 0)
  BY <1>1, <1>2 DEF MsgInv, EndsWell, Unasked
<1> QED
  BY <1>1, <1>5, <1>6, <1>7, <1>8, <1>9, CreatedInv

\* Nothing is in flight at first.
LEMMA InitMsgInv == Init => MsgInv
<1> SUFFICES ASSUME Init PROVE MsgInv
  OBVIOUS
<1>1. /\ queue = << >> /\ inbox = << >> /\ mailbox = [a \in Agents |-> << >>]
      /\ active = {"univers", "application"} /\ phase = "activate" /\ turn = 0
      /\ is_done = FALSE /\ exitcode = 0 /\ target = [p \in Probes |-> "idle"]
  BY DEF Init
<1>2. \A a \in Agents : mailbox[a] = << >> /\ IsSeq(mailbox[a]) /\ Elems(mailbox[a]) = {}
                        /\ Once(mailbox[a]) /\ \A E : ~Has(mailbox[a], E)
  BY <1>1, EmptyFacts
<1>3. InFlight = {} /\ IsSeq(queue) /\ IsSeq(inbox) /\ Once(queue) /\ Once(inbox)
      /\ ~Has(queue, Judging) /\ ~Has(inbox, Judging)
  BY <1>1, <1>2, EmptyFacts DEF InFlight
<1>4. "project" \in Agents /\ {"univers", "application"} \subseteq Agents
  BY AgentFacts DEF AppAgents
<1>5. BoxesOK
  BY <1>1, <1>2, <1>3 DEF BoxesOK, Addressed
<1>6. ActiveOK /\ TargetsOK
  BY <1>1, <1>3, <1>4 DEF ActiveOK, TargetsOK
<1>7. JudgedOnce /\ Fresh /\ StopReaches /\ EndsWell
  BY <1>1, <1>2, <1>3, <1>4 DEF JudgedOnce, Fresh, StopReaches, EndsWell
<1> QED
  BY <1>5, <1>6, <1>7, InitInv DEF MsgInv

\* Every step of a run preserves the invariant.
LEMMA StepMsgInv == MsgInv /\ [Next]_vars => MsgInv'
<1> SUFFICES ASSUME MsgInv, [Next]_vars PROVE MsgInv'
  OBVIOUS
<1>1. Inv'
  BY StepInv DEF MsgInv
<1>2. CASE UNCHANGED vars \/ Exited
  BY <1>2, StutterInv DEF Exited
<1>3. CASE ProjectStep
  <2>1. ASSUME NEW s, DestroySessionRaises(s) PROVE MsgInv'
    BY <1>1, <2>1, RaisesInv
  <2>2. CASE ProjectOnUniversStopRaises \/ ProjectDestroyRaises
    BY <2>1, <2>2 DEF ProjectOnUniversStopRaises, ProjectDestroyRaises
  <2>3. CASE ProjectOnSessionDone \/ ProjectOnProjectStop \/ ProjectOnUniversStop \/ ProjectLive
    BY <1>1, <2>3, ProjectOnSessionDoneInv, ProjectOnProjectStopInv, ProjectStopsInv,
       ProjectIgnoresStopInv, ProjectLiveInv
  <2>4. CASE ProjectStopsAtLimit \/ ProjectStartsNextSession \/ ProjectNotCalm \/ ProjectNoSession
    BY <1>1, <2>4, ProjectStopsAtLimitInv, ProjectStartsNextSessionInv, ProjectNotCalmInv,
       ProjectNoSessionInv
  <2> QED
    BY <1>3, <2>2, <2>3, <2>4 DEF ProjectStep, ProjectOnSessionDestroy
<1>4. CASE \E p \in Probes : ProbeStep(p)
  BY <1>1, <1>4, ProbeOnSessionStartInv, ProbeWatchesInv, ProbeTargetDoneInv, ProbeSendsInv
     DEF ProbeStep
<1>5. CASE MtaDeliver \/ MtaDone \/ SkipAgent \/ ReadMailbox \/ EndStep
  BY <1>1, <1>5, MtaDeliverInv, MtaDoneInv, SkipAgentInv, ReadMailboxInv, EndStepInv
<1>6. CASE UniversOnUniversStop \/ ApplicationOnStop \/ AppLive \/ SessionOnSessionStop
           \/ SessionLive \/ Tick
  BY <1>1, <1>6, UniversOnUniversStopInv, ApplicationOnStopMsgInv, AppLiveInv,
     SessionOnSessionStopMsgInv, SessionLiveInv, TickInv
<1>7. CASE ActivateProject \/ ActivateProjectFails \/ DeactivateProject \/ DestroyProject
           \/ ApplicationExit \/ Interrupt
  BY <1>1, <1>7, ActivateProjectMsgInv, ActivateProjectFailsInv, DeactivateProjectInv,
     DestroyProjectMsgInv, ApplicationExitInv, InterruptInv
<1> QED
  BY <1>2, <1>3, <1>4, <1>5, <1>6, <1>7 DEF Next, Run

\* MsgInv is an invariant of every run of Fusil.
THEOREM MessagesInvariance == Spec => []MsgInv
BY InitMsgInv, StepMsgInv, PTL DEF Spec

-----------------------------------------------------------------------------
(* What the invariant says to a reader.                                    *)

\* What Pending holds.
LEMMA PendingFacts ==
    ASSUME MsgInv
    PROVE  /\ IsSeq(Pending) /\ Elems(Pending) \subseteq InFlight /\ Once(Pending)
           /\ Has(Pending, Judging) => Judged
<1> DEFINE toProject == mailbox["project"]
           toSession == mailbox["session"]
           q == queue \o inbox
           r == q \o toProject
<1>1. "project" \in Agents /\ "session" \in Agents
  BY DEF Agents, AppAgents
<1>2. /\ IsSeq(queue) /\ IsSeq(inbox) /\ IsSeq(toProject) /\ IsSeq(toSession)
      /\ Once(queue) /\ Once(inbox) /\ Once(toProject)
  BY <1>1 DEF MsgInv, BoxesOK, JudgedOnce
<1>3. /\ Elems(queue) \subseteq InFlight /\ Elems(inbox) \subseteq InFlight
      /\ Elems(toProject) \subseteq InFlight /\ Elems(toSession) \subseteq InFlight
  BY <1>1 DEF InFlight
<1>4. ~Has(toSession, Judging)
  <2> SUFFICES ASSUME NEW m \in Elems(toSession), m.event \in Judging PROVE FALSE
    BY DEF Has
  <2>1. m.event \in Event
    BY <1>3 DEF MsgInv, BoxesOK, IsMsg
  <2>2. "session" \in Listeners[m.event]
    BY <1>1 DEF MsgInv, BoxesOK, Addressed
  <2> QED
    BY <2>1, <2>2, ListenersFacts DEF Judging
<1>5. Once(toSession)
  BY <1>4 DEF Has, Once, Elems
<1>6. IsSeq(q) /\ Elems(q) = Elems(queue) \cup Elems(inbox) /\ Once(q)
  BY <1>2, ConcatFacts DEF MsgInv, JudgedOnce
<1>7. IsSeq(r) /\ Elems(r) = Elems(q) \cup Elems(toProject) /\ Once(r)
  <2>1. Has(toProject, Judging) => ~Has(q, Judging)
    BY <1>6 DEF MsgInv, JudgedOnce, Has
  <2> HIDE DEF q
  <2> QED
    BY <1>2, <1>6, <2>1, ConcatFacts
<1>8. IsSeq(Pending) /\ Elems(Pending) = Elems(r) \cup Elems(toSession) /\ Once(Pending)
  <2>1. Pending = r \o toSession
    BY DEF Pending
  <2> HIDE DEF r
  <2> QED
    BY <1>2, <1>4, <1>5, <1>7, <2>1, ConcatFacts
<1>9. Has(Pending, Judging) => Judged
  <2> HIDE DEF q, r
  <2> QED
    BY <1>4, <1>6, <1>7, <1>8 DEF Has, Judged
<1> QED
  BY <1>3, <1>6, <1>7, <1>8, <1>9

\* Freshness is what NoStaleMessage says of the messages for the project and
\* the session.
LEMMA FreshPending == MsgInv => NoStaleMessage
<1> SUFFICES ASSUME MsgInv, phase = "run", NEW i \in PendingIndex(SessionEvents)
             PROVE  Pending[i].sess = session_index
  BY DEF NoStaleMessage
<1>1. Pending[i] \in InFlight /\ Pending[i].event \in SessionEvents
  BY PendingFacts DEF PendingIndex, Elems
<1> QED
  BY <1>1 DEF MsgInv, Fresh

\* Two verdicts in flight would be one verdict at two places.
LEMMA OnePending == MsgInv => OneVerdict
<1> SUFFICES ASSUME MsgInv PROVE OneVerdict
  OBVIOUS
<1> DEFINE V == PendingIndex(Judging)
<1>1. \A i, j \in V : i = j
  BY PendingFacts DEF PendingIndex, Once
<1>2. Cardinality(V) <= 1
  <2> HIDE DEF V
  <2>1. CASE V = {}
    BY <2>1, FS_EmptySet
  <2>2. CASE V # {}
    <3>1. PICK i : V = {i}
      BY <1>1, <2>2
    <3> QED
      BY <3>1, FS_Singleton
  <2> QED
    BY <2>1, <2>2
<1>3. phase = "run" /\ session.open /\ ~session.stopped => V = {}
  <2> SUFFICES ASSUME phase = "run", session.open, ~session.stopped, NEW i \in V PROVE FALSE
    OBVIOUS
  <2>1. Has(Pending, Judging)
    BY DEF PendingIndex, Has, Elems
  <2> QED
    BY <2>1, PendingFacts DEF MsgInv, JudgedOnce
<1> QED
  BY <1>2, <1>3 DEF OneVerdict, Judging

\* Project.destroySession deactivates the probes before it clears the session, and
\* deactivating one stops its target.
LEMMA TargetsEnd == MsgInv => NoOrphan
BY DEF MsgInv, TargetsOK, ActiveOK, NoOrphan

\* The turn of the project is the third of a step.
LEMMA StopEnds == MsgInv => StopClosesSession
<1> SUFFICES ASSUME MsgInv PROVE StopClosesSession
  OBVIOUS
<1>1. ASSUME phase = "run", is_done, turn > 3, session.open PROVE FALSE
  <2>1. StopWaits /\ turn \in Nat
    BY <1>1 DEF MsgInv, StopReaches
  <2> QED
    BY <1>1, <2>1 DEF StopWaits
<1>2. errors = {} /\ stopIndex = 0 => exitcode = 0
  BY DEF MsgInv, EndsWell, Unasked
<1> QED
  BY <1>1, <1>2 DEF StopClosesSession

\* No message that speaks of one session is handled in another one: Agent.activate
\* empties the mailbox of every agent of the project, and what the project had not yet
\* read when destroySession ran cannot speak of the session before.
THEOREM NoStale == Spec => []NoStaleMessage
BY MessagesInvariance, FreshPending, PTL

\* However many session_stop Session receives, only the first that it handles sends
\* session_done or project_session_destroy, and after that one Project.destroySession
\* runs before another session can be scored.
THEOREM OneVerdictHolds == Spec => []OneVerdict
BY MessagesInvariance, OnePending, PTL

\* No target outlives the session of its probe, unless its own deinit() raised:
\* destroySession, AgentList.clear and Application.exit deactivate every probe.
THEOREM NoOrphanHolds == Spec => []NoOrphan
BY MessagesInvariance, TargetsEnd, PTL

\* Univers.execute returns at the end of the step in which Univers read univers_stop;
\* the project reads it in the same step and closes its session, and a run that nobody
\* asked to stop and in which nothing failed exits with 0.
THEOREM StopClosesSessionHolds == Spec => []StopClosesSession
BY MessagesInvariance, StopEnds, PTL

-----------------------------------------------------------------------------
(***************************************************************************)
(* 3. The verdicts of a run.                                               *)
(***************************************************************************)

-----------------------------------------------------------------------------
(* Scores are numbers.                                                     *)

\* A set of numbers that is not empty has a least element.
LEMMA LeastNumber ==
    ASSUME NEW S \in SUBSET Nat, S # {}
    PROVE  \E m \in S : \A n \in S : m <= n
<1> DEFINE T == {0 .. n : n \in S}
           R == StrictSubsetOrdering(Nat)
<1>1. IsWellFoundedOn(R, FiniteSubsetsOf(Nat))
  BY ONLY FS_StrictSubsetOrderingWellFounded
<1>2. T \subseteq FiniteSubsetsOf(Nat)
  <2>1. ASSUME NEW n \in S PROVE 0 .. n \in SUBSET Nat /\ IsFiniteSet(0 .. n)
    <3>1. 0 \in Int /\ n \in Int
      OBVIOUS
    <3>2. IsFiniteSet(0 .. n)
      BY ONLY <3>1, FS_Interval
    <3> QED
      BY <3>2
  <2> QED
    BY <2>1 DEF FiniteSubsetsOf
<1>3. T # {}
  OBVIOUS
<1> HIDE DEF T, R
<1>4. \E x \in T : \A y \in T : ~ (<<y, x>> \in R)
  BY ONLY <1>1, <1>2, <1>3, WFMin
<1> USE DEF T, R
<1>5. PICK m \in S : \A n \in S : ~ (<<0 .. n, 0 .. m>> \in R)
  BY <1>4
<1>6. ASSUME NEW n \in S, n < m PROVE FALSE
  <2>1. 0 .. n \in SUBSET Nat /\ 0 .. m \in SUBSET Nat
    OBVIOUS
  <2>2. 0 .. n \subseteq 0 .. m /\ 0 .. n # 0 .. m
    BY <1>6
  <2>3. <<0 .. n, 0 .. m>> \in R
    BY <2>1, <2>2 DEF StrictSubsetOrdering
  <2> QED
    BY <2>3, <1>5
<1>7. \A n \in S : m <= n
  BY <1>6
<1> QED
  BY <1>7

\* Induction over the numbers up to N, for a set that is given.
LEMMA SetInduction ==
    ASSUME NEW N \in Nat, NEW S, 0 \in S, \A n \in 0..(N - 1) : n \in S => n + 1 \in S
    PROVE  0..N \subseteq S
<1> DEFINE T == (0..N) \ S
<1> SUFFICES ASSUME T # {} PROVE FALSE
  OBVIOUS
<1>1. PICK m \in T : \A n \in T : m <= n
  <2>1. T \in SUBSET Nat /\ T # {}
    OBVIOUS
  <2> HIDE DEF T
  <2> QED
    BY <2>1, LeastNumber
<1>2. m # 0 /\ m - 1 \in 0..(N - 1) /\ m - 1 \notin T /\ (m - 1) + 1 = m
  BY <1>1
<1> QED
  BY <1>2

\* The sums of the first numbers of a list of integers.
LEMMA PartialSums ==
    ASSUME NEW N \in Nat, NEW d \in [1..N -> Int]
    PROVE  /\ \E f : f = [i \in 0..N |-> IF i = 0 THEN 0 ELSE f[i - 1] + d[i]]
           /\ \A f : f = [i \in 0..N |-> IF i = 0 THEN 0 ELSE f[i - 1] + d[i]]
                        => f[N] \in Int
<1> DEFINE Sums(n) == {f \in [0..n -> Int] : f[0] = 0 /\ \A i \in 1..n : f[i] = f[i - 1] + d[i]}
           S == {n \in 0..N : Sums(n) # {}}
<1>1. 0 \in S
  <2>1. [i \in 0..0 |-> 0] \in Sums(0)
    OBVIOUS
  <2> QED
    BY <2>1
<1>2. ASSUME NEW n \in 0..(N - 1), n \in S PROVE n + 1 \in S
  <2>1. PICK f : f \in Sums(n)
    BY <1>2
  <2>2. f \in [0..n -> Int] /\ f[0] = 0 /\ \A i \in 1..n : f[i] = f[i - 1] + d[i]
    BY <2>1
  <2> DEFINE g == [i \in 0..(n + 1) |-> IF i = n + 1 THEN f[n] + d[n + 1] ELSE f[i]]
  <2>3. f[n] \in Int /\ d[n + 1] \in Int /\ n + 1 \in 0..N /\ n \in Nat
    BY <2>2
  <2>4. g \in [0..(n + 1) -> Int] /\ g[0] = 0
    BY <2>2, <2>3
  <2>5. ASSUME NEW i \in 1..(n + 1) PROVE g[i] = g[i - 1] + d[i]
    <3>1. CASE i = n + 1
      BY <2>3, <3>1
    <3>2. CASE i # n + 1
      <4>1. i \in 1..n /\ i - 1 \in 0..n /\ i \in 0..(n + 1) /\ i - 1 \in 0..(n + 1) /\ i - 1 # n + 1
        BY <2>3, <3>2
      <4> QED
        BY <2>2, <3>2, <4>1
    <3> QED
      BY <3>1, <3>2
  <2> HIDE DEF g
  <2>6. g \in Sums(n + 1)
    BY <2>4, <2>5
  <2> HIDE DEF Sums
  <2> QED
    BY <2>3, <2>6
<1>3. N \in S
  <2> HIDE DEF S
  <2>1. 0..N \subseteq S
    BY <1>1, <1>2, SetInduction
  <2> QED
    BY <2>1
<1>4. PICK f : f \in Sums(N)
  BY <1>3
<1>5. f \in [0..N -> Int] /\ f[0] = 0 /\ \A i \in 1..N : f[i] = f[i - 1] + d[i]
  BY <1>4
<1>6. f = [i \in 0..N |-> IF i = 0 THEN 0 ELSE f[i - 1] + d[i]]
  <2>1. \A i \in 0..N : i # 0 => i \in 1..N
    OBVIOUS
  <2> QED
    BY <1>5, <2>1
<1>7. ASSUME NEW h, h = [i \in 0..N |-> IF i = 0 THEN 0 ELSE h[i - 1] + d[i]]
      PROVE  h[N] \in Int
  <2> DEFINE I == {n \in 0..N : h[n] \in Int}
  <2>1. 0 \in I
    <3>1. h[0] = 0
      BY <1>7
    <3> QED
      BY <3>1
  <2>2. ASSUME NEW n \in 0..(N - 1), n \in I PROVE n + 1 \in I
    <3>1. n + 1 \in 0..N /\ n + 1 # 0 /\ (n + 1) - 1 = n /\ d[n + 1] \in Int
      OBVIOUS
    <3>2. h[n + 1] = h[n] + d[n + 1]
      BY <1>7, <3>1
    <3> QED
      BY <2>2, <3>1, <3>2
  <2>3. 0..N \subseteq I
    <3> HIDE DEF I
    <3> QED
      BY <2>1, <2>2, SetInduction
  <2> QED
    BY <2>3
<1> QED
  BY <1>6, <1>7

\* Session.computeScore adds up numbers.
LEMMA ScoreIsNumber == score \in [Probes -> Scores] => ComputeScore \in Int
<1> SUFFICES ASSUME score \in [Probes -> Scores] PROVE ComputeScore \in Int
  OBVIOUS
<1> DEFINE N == Len(ProbeOrder)
           Scored(p) == p \in active /\ score[p] # NoScore
           d == [i \in 1..N |-> IF Scored(ProbeOrder[i])
                                THEN NormalizeScore(score[ProbeOrder[i]]) ELSE 0]
           G(f) == [i \in 0..N |-> IF i = 0 THEN 0
                                   ELSE f[i - 1] + IF Scored(ProbeOrder[i])
                                                   THEN NormalizeScore(score[ProbeOrder[i]])
                                                   ELSE 0]
           Sum == CHOOSE f : f = G(f)
<1>1. N \in Nat /\ \A i \in 1..N : ProbeOrder[i] \in Probes
  BY ProbesAssumption, OrderFacts, ElementOfSeq
<1>2. d \in [1..N -> Int]
  BY <1>1 DEF Scores, NormalizeScore
<1>3. ComputeScore = Sum[N]
  BY DEF ComputeScore
<1>4. \A f : G(f) = [i \in 0..N |-> IF i = 0 THEN 0 ELSE f[i - 1] + d[i]]
  <2>1. \A i \in 0..N : i # 0 => i \in 1..N
    BY <1>1
  <2> QED
    BY <2>1
<1> QED
  <2> HIDE DEF d, N, G
  <2>1. (\E f : f = G(f)) /\ (\A f : f = G(f) => f[N] \in Int)
    BY <1>1, <1>2, <1>4, PartialSums
  <2> QED
    BY <1>3, <2>1

-----------------------------------------------------------------------------
(* What the messages and the other variables hold.                         *)

\* A message tells the truth: the score of a verdict is the one the session was
\* given, and a fatal error that is reported has happened.
ToldTrue(m) ==
    /\ m.score \in Scores /\ m.sess \in 0..SessionBound
    /\ m.event \in Judging => m.score = final[session_index]
    /\ m.event = "application_error" => m.event \in errors

TrueInv == \A m \in InFlight : ToldTrue(m)

\* The variables MsgInv says nothing of.  A session is counted at most once.
CountsOK ==
    /\ session.score \in Scores /\ session.stopped \in BOOLEAN
    /\ timer \in {"off", "armed", "expired"}
    /\ session_executed \in 0..SessionBound /\ nb_success \in 0..SessionBound
    /\ phase \in {"activate", "run"} =>
          nb_success <= session_index /\ (session.open => nb_success < session_index)
LoopOK == turn \in 0..(Len(Order) + 1) /\ popped \in BOOLEAN /\ is_done \in BOOLEAN
ProbesOK ==
    /\ score \in [Probes -> Scores] /\ target \in [Probes -> {"idle", "running"}]
    /\ sends \in 0..SendBound /\ faults \in 0..FaultBound /\ faulty \in SUBSET Probes
HistoryOK ==
    /\ final \in [Sessions -> Scores] /\ stopIndex \in 0..session_index
    /\ projdir \in {"present", "kept", "removed"}
    /\ errors \in SUBSET {"calm", "deinit", "application_error"}
DataInv == CountsOK /\ LoopOK /\ ProbesOK /\ HistoryOK

\* A sequence is one of what it holds.
LEMMA SeqOfElems == ASSUME NEW s, IsSeq(s), NEW M, Elems(s) \subseteq M PROVE s \in Seq(M)
<1>1. PICK S : s \in Seq(S)
  BY DEF IsSeq
<1>2. Len(s) \in Nat /\ DOMAIN s = 1..Len(s) /\ s = [i \in 1..Len(s) |-> s[i]]
  BY <1>1
<1>3. \A i \in 1..Len(s) : s[i] \in M
  BY <1>2 DEF Elems
<1> QED
  BY <1>2, <1>3

\* Together they say that every variable has its type.
LEMMA TypesHold == MsgInv /\ TrueInv /\ DataInv => TypeOK
<1> SUFFICES ASSUME MsgInv, TrueInv, DataInv PROVE TypeOK
  OBVIOUS
<1>1. InFlight \subseteq Message
  <2> SUFFICES ASSUME NEW m \in InFlight PROVE m \in Message
    OBVIOUS
  <2>1. m.event \in Event /\ m = [event |-> m.event, score |-> m.score, sess |-> m.sess]
    BY DEF MsgInv, BoxesOK, IsMsg
  <2>2. m.score \in Scores /\ m.sess \in 0..SessionBound
    BY DEF TrueInv, ToldTrue
  <2> QED
    BY ONLY <2>1, <2>2 DEF Message
<1>2. IsSeq(queue) /\ IsSeq(inbox) /\ mailbox = [a \in Agents |-> mailbox[a]]
      /\ \A a \in Agents : IsSeq(mailbox[a])
  BY DEF MsgInv, BoxesOK
<1>3. Elems(queue) \subseteq Message /\ Elems(inbox) \subseteq Message
      /\ \A a \in Agents : Elems(mailbox[a]) \subseteq Message
  BY <1>1 DEF InFlight
<1>4. queue \in MsgSeq /\ inbox \in MsgSeq /\ \A a \in Agents : mailbox[a] \in MsgSeq
  BY <1>2, <1>3, SeqOfElems DEF MsgSeq
<1>5. mailbox \in [Agents -> MsgSeq]
  BY <1>2, <1>4
<1>6. /\ phase \in Phases /\ exitcode \in {0, 1} /\ session_index \in 0..SessionBound
      /\ session = [score |-> session.score, stopped |-> session.stopped, open |-> session.open]
      /\ session.open \in BOOLEAN
      /\ dirs \in [Sessions -> {"absent", "present", "kept", "removed"}]
      /\ active \in SUBSET Agents
  BY DEF MsgInv, Inv, ControlOK, ActiveOK
<1>7. session \in [score : Scores, stopped : BOOLEAN, open : BOOLEAN]
  BY <1>6 DEF DataInv, CountsOK
<1>8. stopIndex \in 0..SessionBound
  BY <1>6, BoundsAssumption DEF DataInv, HistoryOK
<1> QED
  BY <1>4, <1>5, <1>6, <1>7, <1>8
     DEF TypeOK, DataInv, CountsOK, LoopOK, ProbesOK, HistoryOK, Phases

-----------------------------------------------------------------------------
(* The messages tell the truth.                                            *)

\* A handler or a turn that sends messages of T at most.
LEMMA WhatIsSent ==
    ASSUME MsgInv, mailbox' = mailbox, NEW T,
           inbox' \in {inbox, << >>} \/ (inbox # << >> /\ inbox' = Tail(inbox)),
           \/ queue' \in {queue, << >>}
           \/ \E m \in T : queue' \in {Append(queue, m), <<m>>}
    PROVE  InFlight' \subseteq InFlight \cup T
<1>1. IsSeq(queue) /\ IsSeq(inbox)
  BY DEF MsgInv, BoxesOK
<1>2. Elems(inbox') \subseteq Elems(inbox)
  BY <1>1, TailFacts, EmptyFacts
<1>3. Elems(queue') \subseteq Elems(queue) \cup T
  <2>1. CASE queue' \in {queue, << >>}
    BY <2>1, EmptyFacts
  <2>2. ASSUME NEW m \in T, queue' \in {Append(queue, m), <<m>>}
        PROVE  Elems(queue') \subseteq Elems(queue) \cup T
    <3>1. Elems(Append(queue, m)) = Elems(queue) \cup {m}
      BY <1>1, AppendFacts
    <3>2. Elems(<<m>>) = {m}
      BY ShortFacts
    <3> QED
      BY <2>2, <3>1, <3>2
  <2> QED
    BY <2>1, <2>2
<1> QED
  BY <1>2, <1>3 DEF InFlight

\* What was true stays true while the session and its score are the same.
LEMMA TruthStays ==
    ASSUME TrueInv, InFlight' \subseteq InFlight,
           UNCHANGED <<final, session_index>>, errors \subseteq errors'
    PROVE  TrueInv'
BY DEF TrueInv, ToldTrue

\* So it does when a true message is sent.
LEMMA TruthIsTold ==
    ASSUME TrueInv, NEW m, InFlight' \subseteq InFlight \cup {m}, ToldTrue(m)',
           UNCHANGED <<final, session_index>>, errors \subseteq errors'
    PROVE  TrueInv'
<1> SUFFICES ASSUME NEW n \in InFlight' PROVE ToldTrue(n)'
  BY DEF TrueInv
<1>1. CASE n \in InFlight
  BY <1>1 DEF TrueInv, ToldTrue
<1>2. CASE n = m
  BY <1>2
<1> QED
  BY <1>1, <1>2

\* A plain message says nothing but its event.
LEMMA PlainTruth ==
    ASSUME MsgInv, NEW e, e \notin Judging, e = "application_error" => e \in errors',
           session_index' = session_index, NEW m, m = Msg(e)
    PROVE  ToldTrue(m)'
BY BoundsAssumption DEF MsgInv, Inv, ControlOK, ToldTrue, Msg, Scores

\* The steps of the loop, which move messages from box to box.
LEMMA LoopTruth ==
    MsgInv /\ TrueInv /\ (MtaDeliver \/ MtaDone \/ SkipAgent \/ ReadMailbox \/ EndStep) => TrueInv'
<1> SUFFICES ASSUME MsgInv, TrueInv, MtaDeliver \/ MtaDone \/ SkipAgent \/ ReadMailbox \/ EndStep
             PROVE  TrueInv'
  OBVIOUS
<1>1. UNCHANGED <<final, session_index, errors>>
  BY DEF MtaDeliver, MtaDone, SkipAgent, ReadMailbox, EndStep, worldVars, projVars, histVars
<1>2. IsSeq(queue) /\ IsSeq(inbox) /\ \A a \in Agents : IsSeq(mailbox[a])
  BY DEF MsgInv, BoxesOK
<1>3. InFlight' \subseteq InFlight
  <2>1. CASE MtaDeliver
    <3>1. queue # << >> /\ mailbox' = Delivered(Head(queue)) /\ queue' = Tail(queue) /\ inbox' = inbox
      BY <2>1 DEF MtaDeliver, DeliverNext
    <3>2. Head(queue) \in Elems(queue) /\ Elems(queue') \subseteq Elems(queue)
      BY <1>2, <3>1, TailFacts
    <3> DEFINE m == Head(queue)
    <3>3. \A a \in Agents : mailbox'[a] \in {mailbox[a], Append(mailbox[a], m)}
      BY <3>1 DEF Delivered
    <3> HIDE DEF m
    <3>4. \A a \in Agents : Elems(mailbox'[a]) \subseteq Elems(mailbox[a]) \cup {m}
      <4> SUFFICES ASSUME NEW a \in Agents
                   PROVE  Elems(mailbox'[a]) \subseteq Elems(mailbox[a]) \cup {m}
        OBVIOUS
      <4>1. Elems(Append(mailbox[a], m)) = Elems(mailbox[a]) \cup {m}
        BY <1>2, AppendFacts
      <4> QED
        BY <3>3, <4>1
    <3>5. m \in InFlight
      BY <3>2 DEF InFlight, m
    <3> QED
      BY <3>1, <3>2, <3>4, <3>5 DEF InFlight
  <2>2. CASE ReadMailbox
    <3>1. /\ Me \in Agents /\ queue' = queue /\ inbox' = mailbox[Me]
          /\ \A a \in Agents : mailbox'[a] \in {mailbox[a], << >>}
      BY <2>2 DEF ReadMailbox, PopMessages, MsgInv, BoxesOK, ActiveOK
    <3>2. \A a \in Agents : Elems(mailbox'[a]) \subseteq Elems(mailbox[a])
      BY <3>1, EmptyFacts
    <3> QED
      BY <3>1, <3>2 DEF InFlight
  <2>3. CASE MtaDone \/ SkipAgent \/ EndStep
    BY <2>3 DEF MtaDone, SkipAgent, EndStep, msgVars, InFlight
  <2> QED
    BY <2>1, <2>2, <2>3
<1> QED
  BY <1>1, <1>3, TruthStays

\* The steps that end a phase, and the clock.
LEMMA EndTruth ==
    MsgInv /\ TrueInv
        /\ (Moves \/ DestroyProject \/ Tick \/ AppLive \/ UNCHANGED vars) => TrueInv'
<1> SUFFICES ASSUME MsgInv, TrueInv, Moves \/ DestroyProject \/ Tick \/ AppLive \/ UNCHANGED vars
             PROVE  TrueInv'
  OBVIOUS
<1>1. /\ mailbox' = mailbox /\ queue' = queue /\ inbox' \in {inbox, << >>}
      /\ UNCHANGED <<final, session_index>> /\ errors \subseteq errors'
  <2> USE DEF vars, msgVars, worldVars, projVars, histVars
  <2>1. CASE Moves
    BY <2>1 DEF Moves, ActivateProjectFails, EndStep, Interrupt, DeactivateProject, ApplicationExit
  <2>2. CASE DestroyProject
    BY <2>2 DEF DestroyProject
  <2>3. CASE Tick \/ AppLive \/ UNCHANGED vars
    BY <2>3 DEF Tick, AppLive
  <2> QED
    BY <2>1, <2>2, <2>3
<1>2. InFlight' \subseteq InFlight
  <2>1. InFlight' \subseteq InFlight \cup {}
    BY <1>1, WhatIsSent
  <2> QED
    BY <2>1
<1> QED
  BY <1>1, <1>2, TruthStays

\* Handlers and turns that send one plain message or none.
LEMMA PlainStep ==
    ASSUME MsgInv, TrueInv, mailbox' = mailbox,
           inbox' = inbox \/ (inbox # << >> /\ inbox' = Tail(inbox)),
           UNCHANGED <<final, session_index>>, errors \subseteq errors',
           \/ queue' = queue
           \/ \E e : /\ e \notin Judging /\ (e = "application_error" => e \in errors')
                     /\ queue' = Append(queue, Msg(e))
    PROVE  TrueInv'
<1>1. CASE queue' = queue
  <2>1. InFlight' \subseteq InFlight \cup {}
    BY <1>1, WhatIsSent
  <2>2. InFlight' \subseteq InFlight
    BY <2>1
  <2> QED
    BY <2>2, TruthStays
<1>2. ASSUME NEW e, e \notin Judging, e = "application_error" => e \in errors',
             queue' = Append(queue, Msg(e))
      PROVE  TrueInv'
  <2>1. PICK m : m = Msg(e)
    OBVIOUS
  <2>2. ToldTrue(m)'
    BY <1>2, <2>1, PlainTruth
  <2>3. \E n \in {m} : queue' \in {Append(queue, n), <<n>>}
    BY <1>2, <2>1
  <2>4. InFlight' \subseteq InFlight \cup {m}
    BY <2>3, WhatIsSent
  <2> QED
    BY <2>2, <2>4, TruthIsTold
<1> QED
  BY <1>1, <1>2

\* Handlers that send nothing, or one of the plain messages.
LEMMA HandlerTruth ==
    MsgInv /\ TrueInv
        /\ (UniversOnUniversStop \/ ApplicationOnStop \/ ProjectOnProjectStop \/ ProjectLive
            \/ SessionLive \/ \E p \in Probes : ProbeStep(p)) => TrueInv'
<1> SUFFICES ASSUME MsgInv, TrueInv PROVE
        (UniversOnUniversStop \/ ApplicationOnStop \/ ProjectOnProjectStop \/ ProjectLive
            \/ SessionLive \/ \E p \in Probes : ProbeStep(p)) => TrueInv'
  OBVIOUS
<1> DEFINE Plain ==
        /\ mailbox' = mailbox
        /\ inbox' = inbox \/ (inbox # << >> /\ inbox' = Tail(inbox))
        /\ UNCHANGED <<final, session_index>> /\ errors \subseteq errors'
        /\ \/ queue' = queue
           \/ \E e : /\ e \notin Judging /\ (e = "application_error" => e \in errors')
                     /\ queue' = Append(queue, Msg(e))
<1>1. Plain => TrueInv'
  BY PlainStep
<1> USE DEF Handling, NextMessage, SendMsg, worldVars, projVars, histVars, msgVars, Judging
<1>2. UniversOnUniversStop => Plain
  BY DEF UniversOnUniversStop
<1>3. ApplicationOnStop => Plain
  BY DEF ApplicationOnStop
<1>4. ProjectOnProjectStop => Plain
  BY DEF ProjectOnProjectStop
<1>5. ProjectLive => Plain
  BY DEF ProjectLive
<1>6. SessionLive => Plain
  BY DEF SessionLive
<1>7. ASSUME NEW p \in Probes PROVE ProbeStep(p) => Plain
  <2>1. ProbeOnSessionStart(p) => Plain
    BY DEF ProbeOnSessionStart
  <2>2. ProbeWatches(p) => Plain
    BY DEF ProbeWatches
  <2>3. ProbeTargetDone(p) => Plain
    BY DEF ProbeTargetDone
  <2>4. ProbeSends(p) => Plain
    <3> SUFFICES ASSUME ProbeSends(p) PROVE Plain
      OBVIOUS
    <3>1. PICK e \in ProbeEvents :
             /\ queue' = Append(queue, Msg(e))
             /\ errors' = errors \cup (IF e = "application_error" THEN {e} ELSE {})
      BY DEF ProbeSends
    <3>2. e \notin Judging /\ (e = "application_error" => e \in errors') /\ errors \subseteq errors'
      BY <3>1, OptionsAssumption DEF StopEvents
    <3> QED
      BY <3>1, <3>2 DEF ProbeSends
  <2> QED
    BY <2>1, <2>2, <2>3, <2>4 DEF ProbeStep
<1> QED
  <2> HIDE DEF Plain
  <2> QED
    BY <1>1, <1>2, <1>3, <1>4, <1>5, <1>6, <1>7

\* Project.on_session_done passes the score on.
LEMMA DoneTruth == MsgInv /\ TrueInv /\ ProjectOnSessionDone => TrueInv'
<1> SUFFICES ASSUME MsgInv, TrueInv, ProjectOnSessionDone PROVE TrueInv'
  OBVIOUS
<1>1. PICK m : m = [Head(inbox) EXCEPT !.event = "project_session_destroy"]
  OBVIOUS
<1>2. /\ Handling("project", "session_done")
      /\ queue' = Append(queue, m) /\ inbox' = Tail(inbox) /\ mailbox' = mailbox
      /\ UNCHANGED <<final, session_index, errors>>
  BY <1>1 DEF ProjectOnSessionDone, SendMsg, NextMessage, worldVars, projVars, histVars
<1>3. inbox # << >> /\ Head(inbox) \in InFlight /\ Head(inbox).event = "session_done"
  BY <1>2, HandlingFacts
<1>4. ToldTrue(Head(inbox)) /\ IsMsg(Head(inbox))
  BY <1>3 DEF TrueInv, MsgInv, BoxesOK
<1>5. m.event = "project_session_destroy" /\ m.score = Head(inbox).score /\ m.sess = Head(inbox).sess
  <2>1. PICK h : h = Head(inbox)
    OBVIOUS
  <2>2. h = [event |-> h.event, score |-> h.score, sess |-> h.sess]
    BY <1>4, <2>1 DEF IsMsg
  <2> QED
    BY <1>1, <2>1, <2>2
<1>6. ToldTrue(m)'
  BY <1>2, <1>3, <1>4, <1>5 DEF ToldTrue, Judging
<1>7. \E n \in {m} : queue' \in {Append(queue, n), <<n>>}
  BY <1>2
<1>8. InFlight' \subseteq InFlight \cup {m}
  BY <1>2, <1>3, <1>7, WhatIsSent
<1> QED
  BY <1>2, <1>6, <1>8, TruthIsTold

\* Session.on_session_stop tells the score it gives, and no other score was told before.
LEMMA VerdictTruth ==
    MsgInv /\ TrueInv /\ DataInv /\ SessionOnSessionStop => TrueInv'
<1> SUFFICES ASSUME MsgInv, TrueInv, DataInv, SessionOnSessionStop PROVE TrueInv'
  OBVIOUS
<1>1. /\ Handling("session", "session_stop") /\ inbox' = Tail(inbox) /\ mailbox' = mailbox
      /\ UNCHANGED <<session_index, errors>>
  BY DEF SessionOnSessionStop, NextMessage
<1>2. /\ phase = "run" /\ inbox # << >> /\ turn \in 1..Len(Order) /\ Me = "session" /\ popped
  BY <1>1, HandlingFacts
<1>3. CASE session.stopped
  <2>1. queue' = queue /\ final' = final
    BY <1>3 DEF SessionOnSessionStop, SessionIgnoresStop
  <2>2. InFlight' \subseteq InFlight \cup {}
    BY <1>1, <1>2, <2>1, WhatIsSent
  <2>3. InFlight' \subseteq InFlight
    BY <2>2
  <2> QED
    BY <1>1, <2>1, <2>3, TruthStays
<1>4. CASE ~session.stopped
  <2>1. PICK s : s = ComputeScore
    OBVIOUS
  <2>2. final' = [final EXCEPT ![session_index] = s] /\ queue' = queue \o VerdictMessages(s)
    BY <1>4, <2>1 DEF SessionOnSessionStop, SessionIgnoresStop
  <2>3. s \in Int
    BY <2>1, ScoreIsNumber DEF DataInv, ProbesOK
  <2>4. session.open
    BY <1>2, AgentFacts DEF MsgInv, ActiveOK
  <2>5. session_index \in Sessions
    BY <2>4, BoundsAssumption DEF MsgInv, Inv, StartInv, ControlOK, Sessions
  <2>6. final'[session_index] = s
    BY <2>2, <2>5 DEF DataInv, HistoryOK
  <2>7. ASSUME NEW m \in InFlight PROVE m.event \notin Judging
    <3>1. ~Judged
      BY <1>2, <1>4, <2>4 DEF MsgInv, JudgedOnce
    <3>2. m.event \in Event
      BY DEF MsgInv, BoxesOK, IsMsg
    <3>3. CASE m \in Elems(queue) \cup Elems(inbox)
      BY <3>1, <3>3 DEF Judged, Has
    <3>4. ASSUME NEW a \in Agents, m \in Elems(mailbox[a]) PROVE m.event \notin Judging
      <4>1. a \in Listeners[m.event]
        BY <3>4 DEF MsgInv, BoxesOK, Addressed
      <4>2. m.event \in Judging => a = "project"
        BY <3>2, <4>1 DEF Listeners, Judging, StopEvents
      <4> QED
        BY <3>1, <3>4, <4>2 DEF Judged, Has
    <3> QED
      BY <3>3, <3>4 DEF InFlight
  <2>8. PICK m, n : m = Msg("session_success") /\ n = ScoredMsg("session_done", s)
    OBVIOUS
  <2>9. ToldTrue(m)' /\ ToldTrue(n)'
    BY <1>1, <2>3, <2>6, <2>8, BoundsAssumption
       DEF MsgInv, Inv, ControlOK, ToldTrue, Msg, ScoredMsg, Scores, Judging
  <2>10. InFlight' \subseteq InFlight \cup {m, n}
    <3>1. IsSeq(queue) /\ IsSeq(inbox)
      BY DEF MsgInv, BoxesOK
    <3>2. Elems(VerdictMessages(s)) \subseteq {m, n} /\ IsSeq(VerdictMessages(s))
      <4>1. VerdictMessages(s) \in {<<m, n>>, <<n>>}
        BY <2>8 DEF VerdictMessages
      <4>2. /\ Elems(<<m, n>>) = {m, n} /\ Elems(<<n>>) = {n}
            /\ IsSeq(<<m, n>>) /\ IsSeq(<<n>>)
        BY ONLY ShortFacts
      <4> QED
        BY ONLY <4>1, <4>2
    <3>3. Elems(queue') \subseteq Elems(queue) \cup {m, n}
      BY <2>2, <3>1, <3>2, ConcatFacts
    <3>4. Elems(inbox') \subseteq Elems(inbox)
      BY <1>1, <1>2, <3>1, TailFacts
    <3> QED
      BY <1>1, <3>3, <3>4 DEF InFlight
  <2> SUFFICES ASSUME NEW k \in InFlight' PROVE ToldTrue(k)'
    BY DEF TrueInv
  <2>11. CASE k \in InFlight
    BY <1>1, <2>7, <2>11 DEF TrueInv, ToldTrue
  <2> QED
    BY <2>9, <2>10, <2>11
<1> QED
  BY <1>3, <1>4

\* Closing a session only drops messages, or adds one that stops the univers.
LEMMA ClosingTruth ==
    MsgInv /\ TrueInv
        /\ (ProjectOnUniversStop \/ ProjectStopsAtLimit \/ ProjectNotCalm \/ ProjectNoSession
            \/ ProjectOnUniversStopRaises \/ ProjectDestroyRaises) => TrueInv'
<1> SUFFICES ASSUME MsgInv, TrueInv,
                    ProjectOnUniversStop \/ ProjectStopsAtLimit \/ ProjectNotCalm
                        \/ ProjectNoSession \/ ProjectOnUniversStopRaises \/ ProjectDestroyRaises
             PROVE  TrueInv'
  OBVIOUS
<1>1. PICK m : m = Msg("univers_stop")
  OBVIOUS
<1>2. PICK e : Handling("project", e)
  BY DEF ProjectOnUniversStop, ProjectStopsAtLimit, ProjectNotCalm, ProjectNoSession,
         ProjectOnUniversStopRaises, ProjectDestroyRaises, DestroyingSession
<1>3. inbox # << >> /\ IsSeq(inbox) /\ IsSeq(queue)
  BY <1>2, HandlingFacts DEF MsgInv, BoxesOK
<1>4. /\ mailbox' \in {mailbox, Emptied(AppAgents)}
      /\ queue' \in {queue, << >>, Append(<< >>, m)} /\ inbox' \in {<< >>, Tail(inbox)}
      /\ UNCHANGED <<final, session_index>> /\ errors \subseteq errors'
  <2> USE DEF NextMessage, DestroySession, DestroySessionRaises, Raise, MtaCleared, projVars, histVars
  <2>1. CASE ProjectOnUniversStop
    BY <2>1 DEF ProjectOnUniversStop
  <2>2. CASE ProjectStopsAtLimit
    BY <1>1, <2>2 DEF ProjectStopsAtLimit, UniversStopped
  <2>3. CASE ProjectNotCalm \/ ProjectNoSession
    BY <2>3 DEF ProjectNotCalm, ProjectNoSession
  <2>4. ASSUME NEW s, DestroySessionRaises(s)
        PROVE  /\ mailbox' = mailbox /\ queue' = queue /\ inbox' = << >>
               /\ UNCHANGED <<final, session_index>> /\ errors \subseteq errors'
    BY <2>4
  <2>5. CASE ProjectOnUniversStopRaises \/ ProjectDestroyRaises
    BY <2>4, <2>5 DEF ProjectOnUniversStopRaises, ProjectDestroyRaises
  <2> QED
    BY <2>1, <2>2, <2>3, <2>5
<1>5. \A a \in Agents : Elems(mailbox'[a]) \subseteq Elems(mailbox[a])
  <2>1. \A a \in Agents : mailbox'[a] \in {mailbox[a], << >>}
    BY <1>4 DEF Emptied
  <2> QED
    BY <2>1, EmptyFacts
<1>6. Elems(inbox') \subseteq Elems(inbox)
  BY <1>3, <1>4, TailFacts, EmptyFacts
<1>7. Elems(queue') \subseteq Elems(queue) \cup {m}
  <2>1. Elems(Append(<< >>, m)) = {m}
    BY ShortFacts
  <2> QED
    BY <1>4, <2>1, EmptyFacts
<1>8. InFlight' \subseteq InFlight \cup {m}
  BY <1>5, <1>6, <1>7 DEF InFlight
<1>9. ToldTrue(m)'
  BY <1>1, <1>4, PlainTruth DEF Judging
<1> QED
  BY <1>4, <1>8, <1>9, TruthIsTold

\* What is sent when a session is created has no score.
LEMMA CreatedTruth ==
    ASSUME NEW before, CreateSession(before, << >>), session_index \in Nat
    PROVE  \A m \in Elems(queue') :
              m.score \in Scores /\ m.sess \in 0..SessionBound
                  /\ m.event \in {"project_start", "session_start"}
<1> DEFINE k == session_index + 1
           Started(e) == [event |-> e, score |-> NoScore, sess |-> k]
           p == Started("project_start")
           s == Started("session_start")
<1>1. session_index < SessionBound /\ (queue' = << >> \o <<p, s>> \/ queue' = << >> \o <<s>>)
  BY DEF CreateSession
<1>2. k \in 0..SessionBound
  BY <1>1, BoundsAssumption
<1>3. \A m \in {p, s} : /\ m.score \in Scores /\ m.sess \in 0..SessionBound
                        /\ m.event \in {"project_start", "session_start"}
  BY <1>2 DEF Scores
<1> HIDE DEF p, s
<1>4. Elems(queue') \subseteq {p, s}
  <2>1. queue' = <<p, s>> \/ queue' = <<s>>
    BY <1>1, ShortFacts
  <2>2. Elems(<<p, s>>) = {p, s} /\ Elems(<<s>>) = {s}
    BY ShortFacts
  <2> QED
    BY <2>1, <2>2
<1> QED
  BY <1>3, <1>4

\* A new session starts with true messages.
LEMMA OpeningTruth ==
    MsgInv /\ TrueInv /\ (ActivateProject \/ ProjectStartsNextSession) => TrueInv'
<1> SUFFICES ASSUME MsgInv, TrueInv, ActivateProject \/ ProjectStartsNextSession PROVE TrueInv'
  OBVIOUS
<1>1. session_index \in Nat /\ SessionBound \in Nat /\ session_index \in 0..SessionBound
  BY BoundsAssumption DEF MsgInv, Inv, ControlOK
<1>2. errors' = errors
  BY DEF ActivateProject, ProjectStartsNextSession, histVars
<1>3. ASSUME NEW before, CreateSession(before, << >>),
             \A a \in Agents : mailbox'[a] = << >>,
             \A m \in Elems(inbox') : m \in InFlight /\ m.event \notin Judging
      PROVE  TrueInv'
  <2>1. \A m \in Elems(queue') :
              m.score \in Scores /\ m.sess \in 0..SessionBound
                  /\ m.event \in {"project_start", "session_start"}
    BY <1>1, <1>3, CreatedTruth
  <2> SUFFICES ASSUME NEW m \in InFlight' PROVE ToldTrue(m)'
    BY DEF TrueInv
  <2>2. CASE m \in Elems(queue')
    BY <2>1, <2>2 DEF ToldTrue, Judging
  <2>3. CASE m \in Elems(inbox')
    BY <1>2, <1>3, <2>3 DEF TrueInv, ToldTrue
  <2>4. \A a \in Agents : Elems(mailbox'[a]) = {}
    BY <1>3, EmptyFacts
  <2> QED
    BY <2>2, <2>3, <2>4 DEF InFlight
<1>4. CASE ActivateProject
  <2>1. /\ phase = "activate" /\ CreateSession(dirs, queue)
        /\ mailbox' = Emptied(Agents \ active) /\ inbox' = inbox
    BY <1>4 DEF ActivateProject
  <2>2. InFlight = {} /\ IsSeq(queue) /\ \A a \in Agents : IsSeq(mailbox[a])
    BY <2>1 DEF MsgInv, ActiveOK, BoxesOK
  <2>3. queue = << >> /\ (\A a \in Agents : mailbox[a] = << >>)
        /\ \A m \in Elems(inbox) : m \in InFlight
    <3>1. Elems(queue) = {} /\ \A a \in Agents : Elems(mailbox[a]) = {}
      BY <2>2 DEF InFlight
    <3> QED
      BY <2>2, <3>1, TailFacts DEF InFlight
  <2>4. \A a \in Agents : mailbox'[a] = << >>
    BY <2>1, <2>3 DEF Emptied
  <2> QED
    BY <1>3, <2>1, <2>2, <2>3, <2>4
<1>5. CASE ProjectStartsNextSession
  <2>1. /\ Handling("project", "project_session_destroy") /\ session.open
        /\ CreateSession(DirsClosed(Verdict), << >>)
        /\ mailbox' = Emptied(Agents) /\ inbox' = Tail(inbox)
    BY <1>5 DEF ProjectStartsNextSession, DestroyingSession, NextMessage, MailboxesEmptied, MtaCleared
  <2>2. \A m \in Elems(inbox') : m \in InFlight /\ m.event \notin Judging
    BY <2>1, RestOfInbox DEF Judging
  <2>3. \A a \in Agents : mailbox'[a] = << >>
    BY <2>1 DEF Emptied
  <2> QED
    BY <1>3, <2>1, <2>2, <2>3
<1> QED
  BY <1>4, <1>5

\* Every step leaves true messages.
LEMMA StepTruth == MsgInv /\ TrueInv /\ DataInv /\ [Next]_vars => TrueInv'
<1> SUFFICES ASSUME MsgInv, TrueInv, DataInv, [Next]_vars PROVE TrueInv'
  OBVIOUS
<1>1. Quiet => TrueInv'
  BY LoopTruth, EndTruth, HandlerTruth, DoneTruth, ClosingTruth DEF Quiet, Exited
<1> QED
  BY <1>1, StepCases, EndTruth, OpeningTruth, HandlerTruth, VerdictTruth, ClosingTruth

-----------------------------------------------------------------------------
(* The other variables.                                                    *)

\* There are as many probes as places for them.
LEMMA ProbesFinite == ASSUME NEW F \in SUBSET Probes PROVE IsFiniteSet(F) /\ Cardinality(F) \in Nat
<1>1. Len(ProbeOrder) \in Nat /\ \A i \in 1..Len(ProbeOrder) : ProbeOrder[i] \in Probes
  BY ProbesAssumption, OrderFacts, ElementOfSeq
<1>2. ProbeOrder \in Seq(Probes) /\ DOMAIN ProbeOrder = 1..Len(ProbeOrder)
  BY ProbesAssumption
<1>3. Probes \subseteq {ProbeOrder[i] : i \in 1..Len(ProbeOrder)}
  BY <1>2, ProbesAssumption
<1>4. IsFiniteSet(1..Len(ProbeOrder))
  BY <1>1, FS_Interval
<1>5. IsFiniteSet({ProbeOrder[i] : i \in 1..Len(ProbeOrder)})
  <2> DEFINE f == [i \in 1..Len(ProbeOrder) |-> ProbeOrder[i]]
             T == {ProbeOrder[i] : i \in 1..Len(ProbeOrder)}
  <2>1. f \in Surjection(1..Len(ProbeOrder), T)
    BY DEF Surjection
  <2> HIDE DEF f, T
  <2> QED
    BY <1>4, <2>1, FS_Surjection DEF ExistsSurjection, T
<1> QED
  BY <1>3, <1>5, FS_Subset, FS_CardinalityType

\* The agents follow one another.
LEMMA StepLoop == MsgInv /\ DataInv /\ [Next]_vars => LoopOK'
<1> SUFFICES ASSUME MsgInv, LoopOK, [Next]_vars PROVE LoopOK'
  BY DEF DataInv
<1> USE DEF LoopOK, loopVars, EndTurn, Living, AgentTurn
<1>1. turn \in 1..Len(Order) => turn + 1 \in 0..(Len(Order) + 1)
  BY OrderFacts
<1>2. 0 \in 0..(Len(Order) + 1) /\ 1 \in 0..(Len(Order) + 1)
  BY OrderFacts
<1>3. CASE UNCHANGED loopVars
  BY <1>3
<1>4. CASE MtaDone \/ SkipAgent \/ ReadMailbox \/ EndStep
  BY <1>1, <1>2, <1>4 DEF MtaDone, SkipAgent, ReadMailbox, EndStep
<1>5. CASE UniversOnUniversStop \/ AppLive \/ SessionLive \/ ProjectLive
  BY <1>1, <1>5 DEF UniversOnUniversStop, AppLive, SessionLive, ProjectLive
<1>6. ASSUME NEW p \in Probes, ProbeStep(p) PROVE LoopOK'
  BY <1>1, <1>6 DEF ProbeStep, ProbeOnSessionStart, ProbeWatches, ProbeTargetDone, ProbeSends, Probing
<1>7. UNCHANGED vars \/ Exited \/ MtaDeliver \/ Tick => UNCHANGED loopVars
  BY DEF vars, Exited, MtaDeliver, Tick
<1>8. Moves => UNCHANGED loopVars \/ EndStep
  BY DEF Moves, ActivateProjectFails, Interrupt, DeactivateProject, ApplicationExit
<1>9. ProjectOnUniversStopRaises \/ ProjectDestroyRaises => UNCHANGED loopVars
  BY DEF ProjectOnUniversStopRaises, ProjectDestroyRaises, DestroySessionRaises
<1>10. ProjectOnSessionDone \/ ProjectOnProjectStop \/ ProjectOnUniversStop
          \/ ProjectStopsAtLimit \/ ProjectStartsNextSession \/ ProjectNotCalm \/ ProjectNoSession
          => UNCHANGED loopVars
  BY DEF ProjectOnSessionDone, ProjectOnProjectStop, ProjectOnUniversStop, ProjectStopsAtLimit,
         ProjectStartsNextSession, ProjectNotCalm, ProjectNoSession
<1>11. ActivateProject \/ ApplicationOnStop \/ SessionOnSessionStop \/ DestroyProject
          => UNCHANGED loopVars
  BY DEF ActivateProject, ApplicationOnStop, SessionOnSessionStop, DestroyProject
<1> QED
  <2> HIDE DEF LoopOK, loopVars
  <2> QED
    BY <1>3, <1>4, <1>5, <1>6, <1>7, <1>8, <1>9, <1>10, <1>11, StepCases DEF Quiet

\* The probes and what they run.
LEMMA StepProbes == MsgInv /\ DataInv /\ [Next]_vars => ProbesOK'
<1> SUFFICES ASSUME MsgInv, ProbesOK, [Next]_vars PROVE ProbesOK'
  BY DEF DataInv
<1> DEFINE probeVars == <<score, target, sends, faults, faulty>>
<1> USE DEF ProbesOK, worldVars, boundVars, histVars
<1>1. CASE UNCHANGED probeVars
  BY <1>1
<1>2. TargetsStopped(Probes) \in [Probes -> {"idle", "running"}]
  BY DEF TargetsStopped
<1>3. CASE MtaDeliver \/ MtaDone \/ SkipAgent \/ ReadMailbox \/ UniversOnUniversStop \/ AppLive
           \/ SessionLive \/ Tick \/ Exited \/ UNCHANGED vars
  BY <1>3 DEF MtaDeliver, MtaDone, SkipAgent, ReadMailbox, UniversOnUniversStop, AppLive,
              SessionLive, Tick, Exited, vars
<1>4. CASE ProjectOnSessionDone \/ ProjectOnProjectStop \/ ProjectLive \/ ProjectNoSession
           \/ ApplicationOnStop \/ SessionOnSessionStop
  BY <1>4 DEF ProjectOnSessionDone, ProjectOnProjectStop, ProjectLive, ProjectNoSession,
              ApplicationOnStop, SessionOnSessionStop
<1>5. CASE Moves
  BY <1>5 DEF Moves, ActivateProjectFails, EndStep, Interrupt, DeactivateProject, ApplicationExit
<1>6. CASE ActivateProject
  BY <1>6 DEF ActivateProject, CreateSession, Scores
<1>7. CASE ProjectStartsNextSession
  BY <1>2, <1>7 DEF ProjectStartsNextSession, CreateSession, Scores
<1>8. CASE ProjectOnUniversStop \/ ProjectStopsAtLimit \/ ProjectNotCalm
  BY <1>2, <1>8 DEF ProjectOnUniversStop, ProjectStopsAtLimit, ProjectNotCalm, DestroySession
<1>9. ASSUME NEW s, DestroySessionRaises(s) PROVE ProbesOK'
  <2>1. PICK i \in DOMAIN ProbeOrder :
           /\ \E t \in {"idle", target[ProbeOrder[i]]} :
                 target' = [TargetsStopped({ProbeOrder[j] : j \in 1..i})
                               EXCEPT ![ProbeOrder[i]] = t]
           /\ faulty' = faulty \cup {ProbeOrder[i]}
    BY <1>9 DEF DestroySessionRaises
  <2>2. ProbeOrder[i] \in Probes
    BY ProbesAssumption, ElementOfSeq
  <2>3. target' \in [Probes -> {"idle", "running"}]
    BY <2>1, <2>2 DEF TargetsStopped
  <2> QED
    BY <1>9, <2>1, <2>2, <2>3, BoundsAssumption DEF DestroySessionRaises
<1>10. CASE ProjectOnUniversStopRaises \/ ProjectDestroyRaises
  BY <1>9, <1>10 DEF ProjectOnUniversStopRaises, ProjectDestroyRaises
<1>11. CASE DestroyProject
  <2>1. PICK F \in SUBSET (Probes \cap active) :
           /\ Cardinality(F) <= faults /\ faults' = faults - Cardinality(F)
           /\ faulty' = faulty \cup F /\ target' = TargetsStopped(Probes \ F)
    BY <1>11 DEF DestroyProject
  <2>2. F \in SUBSET Probes /\ Cardinality(F) \in Nat
    BY ProbesFinite
  <2>3. target' \in [Probes -> {"idle", "running"}]
    BY <2>1 DEF TargetsStopped
  <2>4. faults' \in 0..FaultBound
    BY <2>1, <2>2, BoundsAssumption
  <2> QED
    BY <1>11, <2>1, <2>2, <2>3, <2>4 DEF DestroyProject
<1>12. ASSUME NEW p \in Probes, ProbeStep(p) PROVE ProbesOK'
  <2> USE OptionsAssumption, BoundsAssumption DEF Scores
  <2>1. CASE ProbeOnSessionStart(p)
    BY <2>1 DEF ProbeOnSessionStart
  <2>2. CASE ProbeWatches(p)
    BY <2>2 DEF ProbeWatches
  <2>3. CASE ProbeTargetDone(p)
    BY <2>3 DEF ProbeTargetDone
  <2>4. CASE ProbeSends(p)
    BY <2>4 DEF ProbeSends
  <2> QED
    BY <1>12, <2>1, <2>2, <2>3, <2>4 DEF ProbeStep
<1> QED
  <2> HIDE DEF ProbesOK
  <2> QED
    BY <1>3, <1>4, <1>5, <1>6, <1>7, <1>8, <1>10, <1>11, <1>12, StepCases DEF Quiet

\* What is remembered of the run.
LEMMA StepHistory == MsgInv /\ DataInv /\ [Next]_vars => HistoryOK'
<1> SUFFICES ASSUME MsgInv, DataInv, [Next]_vars PROVE HistoryOK'
  OBVIOUS
<1> USE DEF HistoryOK, worldVars, histVars, projVars, fileVars
<1>1. HistoryOK /\ session_index \in 0..SessionBound /\ SessionBound \in Nat
  BY BoundsAssumption DEF DataInv, MsgInv, Inv, ControlOK
<1>2. \A i \in 0..session_index : i \in 0..(session_index + 1)
  BY <1>1
<1>3. CASE MtaDeliver \/ MtaDone \/ SkipAgent \/ ReadMailbox \/ UniversOnUniversStop \/ AppLive
           \/ SessionLive \/ Tick \/ Exited \/ UNCHANGED vars
  BY <1>1, <1>3 DEF MtaDeliver, MtaDone, SkipAgent, ReadMailbox, UniversOnUniversStop, AppLive,
              SessionLive, Tick, Exited, vars
<1>4. CASE ProjectOnSessionDone \/ ProjectOnProjectStop \/ ProjectLive \/ ProjectNoSession
           \/ ApplicationOnStop
  BY <1>1, <1>4 DEF ProjectOnSessionDone, ProjectOnProjectStop, ProjectLive, ProjectNoSession,
              ApplicationOnStop
<1>5. CASE Moves
  BY <1>1, <1>5 DEF Moves, ActivateProjectFails, EndStep, Interrupt, DeactivateProject, ApplicationExit
<1>6. CASE ActivateProject
  BY <1>1, <1>2, <1>6 DEF ActivateProject, CreateSession
<1>7. CASE ProjectStartsNextSession
  BY <1>1, <1>2, <1>7 DEF ProjectStartsNextSession, CreateSession
<1>8. CASE ProjectOnUniversStop \/ ProjectStopsAtLimit \/ ProjectNotCalm
  BY <1>1, <1>8 DEF ProjectOnUniversStop, ProjectStopsAtLimit, ProjectNotCalm, DestroySession
<1>9. ASSUME NEW s, DestroySessionRaises(s) PROVE HistoryOK'
  BY <1>1, <1>9 DEF DestroySessionRaises
<1>10. CASE ProjectOnUniversStopRaises \/ ProjectDestroyRaises
  BY <1>9, <1>10 DEF ProjectOnUniversStopRaises, ProjectDestroyRaises
<1>11. CASE DestroyProject
  BY <1>1, <1>11 DEF DestroyProject
<1>12. ASSUME NEW p \in Probes, ProbeStep(p) PROVE HistoryOK'
  <2>1. CASE ProbeOnSessionStart(p) \/ ProbeWatches(p) \/ ProbeTargetDone(p)
    BY <1>1, <2>1 DEF ProbeOnSessionStart, ProbeWatches, ProbeTargetDone
  <2>2. CASE ProbeSends(p)
    <3>1. PICK e \in ProbeEvents :
             /\ stopIndex' = IF e \in StopEvents /\ stopIndex = 0 THEN session_index ELSE stopIndex
             /\ errors' = errors \cup (IF e = "application_error" THEN {e} ELSE {})
      BY <2>2 DEF ProbeSends
    <3>2. stopIndex' \in 0..session_index
      BY <1>1, <3>1
    <3>3. errors' \in SUBSET {"calm", "deinit", "application_error"}
      BY <1>1, <3>1
    <3> QED
      BY <1>1, <2>2, <3>2, <3>3 DEF ProbeSends
  <2> QED
    BY <1>12, <2>1, <2>2 DEF ProbeStep
<1>13. CASE SessionOnSessionStop
  <2>1. ComputeScore \in Scores
    BY ScoreIsNumber DEF DataInv, ProbesOK, Scores
  <2>2. final' \in [Sessions -> Scores]
    BY <1>1, <1>13, <2>1 DEF SessionOnSessionStop
  <2> QED
    BY <1>1, <1>13, <2>2 DEF SessionOnSessionStop
<1> QED
  <2> HIDE DEF HistoryOK
  <2> QED
    BY <1>3, <1>4, <1>5, <1>6, <1>7, <1>8, <1>10, <1>11, <1>12, <1>13, StepCases DEF Quiet

\* The session and the statistics of the project.
LEMMA StepCounts == MsgInv /\ TrueInv /\ DataInv /\ [Next]_vars => CountsOK'
<1> SUFFICES ASSUME MsgInv, TrueInv, DataInv, [Next]_vars PROVE CountsOK'
  OBVIOUS
<1> USE DEF CountsOK, worldVars, projVars
<1>1. /\ CountsOK /\ Inv /\ session_index \in 0..SessionBound /\ SessionBound \in Nat
      /\ session.open \in BOOLEAN
      /\ session = [score |-> session.score, stopped |-> session.stopped, open |-> session.open]
  BY BoundsAssumption DEF DataInv, MsgInv, Inv, ControlOK
<1>2. Executed /\ phase = "run" /\ session.open => session_executed' \in 0..SessionBound
  BY <1>1, ExecutedCounts DEF Executed
<1>3. CountSuccess /\ phase = "run" /\ session.open =>
         nb_success' \in 0..SessionBound /\ nb_success' <= session_index
  BY <1>1 DEF CountSuccess
<1>4. ASSUME NEW e, Handling("project", e) PROVE Verdict \in Scores
  BY <1>4, HandlingFacts DEF Verdict, TrueInv, ToldTrue
<1>5. CASE MtaDeliver \/ MtaDone \/ SkipAgent \/ ReadMailbox \/ UniversOnUniversStop \/ AppLive
           \/ SessionLive \/ Exited \/ UNCHANGED vars
  BY <1>1, <1>5 DEF MtaDeliver, MtaDone, SkipAgent, ReadMailbox, UniversOnUniversStop, AppLive,
              SessionLive, Exited, vars
<1>6. CASE ProjectOnSessionDone \/ ProjectOnProjectStop \/ ApplicationOnStop \/ Tick \/ ProjectLive
  BY <1>1, <1>6 DEF ProjectOnSessionDone, ProjectOnProjectStop, ApplicationOnStop, Tick, ProjectLive
<1>7. CASE Moves
  BY <1>1, <1>7, MoveSteps DEF Moves, ActivateProjectFails, EndStep, Interrupt, DeactivateProject,
              ApplicationExit
<1>8. NoSession.score \in Scores /\ NoSession.stopped = TRUE /\ NoSession.open = FALSE
  BY DEF NoSession, Scores
<1>23. ASSUME session' = NoSession, timer' = timer, session_index' = session_index,
              session_executed' \in 0..SessionBound, nb_success' \in 0..SessionBound,
              nb_success' <= session_index
       PROVE  CountsOK'
  <2>1. session'.score \in Scores /\ session'.stopped \in BOOLEAN /\ ~session'.open
    BY <1>8, <1>23
  <2> QED
    BY <1>1, <1>23, <2>1
<1>9. ASSUME session' = [score |-> NoScore, stopped |-> FALSE, open |-> TRUE],
             timer' = TimerArmed, session_index' = session_index + 1,
             session_executed' \in 0..SessionBound, nb_success' \in 0..SessionBound,
             nb_success' <= session_index
      PROVE  CountsOK'
  <2>1. session'.score \in Scores /\ session'.stopped \in BOOLEAN
    BY <1>9 DEF Scores
  <2>2. timer' \in {"off", "armed", "expired"}
    BY <1>9 DEF TimerArmed
  <2>3. nb_success' <= session_index' /\ nb_success' < session_index'
    BY <1>1, <1>9
  <2> QED
    BY <1>9, <2>1, <2>2, <2>3
<1>11. CASE ActivateProject
  <2>1. /\ phase = "activate" /\ session' = [score |-> NoScore, stopped |-> FALSE, open |-> TRUE]
        /\ session_index' = session_index + 1 /\ timer' = TimerArmed
        /\ UNCHANGED <<session_executed, nb_success>>
    BY <1>11 DEF ActivateProject, CreateSession
  <2>2. nb_success <= session_index
    BY <1>1, <2>1
  <2> QED
    BY <1>1, <1>9, <2>1, <2>2
<1>12. CASE ProjectStartsNextSession
  <2>1. /\ phase = "run" /\ session.open /\ Executed /\ CountSuccess
        /\ session_index' = session_index + 1
        /\ session' = [score |-> NoScore, stopped |-> FALSE, open |-> TRUE] /\ timer' = TimerArmed
    BY <1>12, NextSessionOpens DEF ProjectStartsNextSession, CreateSession
  <2> QED
    BY <1>2, <1>3, <1>9, <2>1
<1>13. CASE ProjectOnUniversStop /\ session.open
  <2>1. timer' = timer
    BY <1>13 DEF ProjectOnUniversStop, ClosesOnStop, DestroySession
  <2> QED
    BY <1>1, <1>2, <1>13, <1>23, <2>1, UniversStopCloses
<1>14. CASE ProjectOnUniversStop /\ ~session.open
  BY <1>1, <1>14 DEF ProjectOnUniversStop, ClosesOnStop
<1>15. CASE ProjectStopsAtLimit
  <2>1. timer' = timer
    BY <1>15 DEF ProjectStopsAtLimit, DestroySession
  <2> QED
    BY <1>2, <1>3, <1>15, <1>23, <2>1, LimitCloses
<1>16. CASE ProjectNotCalm
  <2>1. timer' = timer
    BY <1>16 DEF ProjectNotCalm, DestroySession
  <2> QED
    BY <1>2, <1>3, <1>16, <1>23, <2>1, NotCalmCloses
<1>17. ASSUME NEW s \in Scores, DestroySessionRaises(s), phase = "run", session.open PROVE CountsOK'
  <2>1. /\ Executed /\ session' = [session EXCEPT !.score = s] /\ phase' = "deactivate"
        /\ UNCHANGED <<timer, session_index, nb_success>>
    BY <1>17 DEF DestroySessionRaises, Raise
  <2>2. session'.score = s /\ session'.stopped = session.stopped
    BY <1>1, <2>1
  <2> QED
    BY <1>1, <1>2, <1>17, <2>1, <2>2
<1>18. CASE ProjectOnUniversStopRaises \/ ProjectDestroyRaises
  <2>1. phase = "run" /\ session.open
    BY <1>18, RaisingCloses
  <2>2. session.score \in Scores
    BY <1>1
  <2> QED
    BY <1>4, <1>17, <1>18, <2>1, <2>2
       DEF ProjectOnUniversStopRaises, ProjectDestroyRaises, DestroyingSession
<1>19. CASE ProjectNoSession
  BY <1>1, <1>19, NoSessionRaises DEF ProjectNoSession
<1>20. CASE DestroyProject
  BY <1>1, <1>8, <1>20, DestroyFacts DEF DestroyProject
<1>21. ASSUME NEW p \in Probes, ProbeStep(p) PROVE CountsOK'
  BY <1>1, <1>21 DEF ProbeStep, ProbeOnSessionStart, ProbeWatches, ProbeTargetDone, ProbeSends
<1>22. CASE SessionOnSessionStop
  <2>1. session' = session \/ session' = [session EXCEPT !.stopped = TRUE]
    BY <1>22 DEF SessionOnSessionStop
  <2>2. /\ session'.score = session.score /\ session'.stopped \in BOOLEAN
        /\ session'.open = session.open
    BY <1>1, <2>1
  <2> QED
    BY <1>1, <1>22, <2>2 DEF SessionOnSessionStop
<1> QED
  <2> HIDE DEF CountsOK
  <2> QED
    BY <1>5, <1>6, <1>7, <1>11, <1>12, <1>13, <1>14, <1>15, <1>16, <1>18, <1>19, <1>20, <1>21,
       <1>22, StepCases DEF Quiet

\* At first.
LEMMA InitData == Init => DataInv /\ TrueInv
<1> SUFFICES ASSUME Init PROVE DataInv /\ TrueInv
  OBVIOUS
<1>1. session.score = NoScore /\ session.stopped = TRUE /\ session.open = FALSE
  BY DEF Init, NoSession
<1>2. CountsOK
  <2>1. session.score \in Scores /\ session.stopped \in BOOLEAN /\ ~session.open
    BY <1>1 DEF Scores
  <2> QED
    BY <2>1, BoundsAssumption DEF Init, CountsOK
<1>4. HistoryOK
  BY BoundsAssumption DEF Init, HistoryOK, Scores
<1>5. ProbesOK
  BY BoundsAssumption DEF Init, ProbesOK, Scores
<1>6. LoopOK
  <2>1. Len(Order) \in Nat
    BY OrderFacts
  <2>2. 0 \in 0..(Len(Order) + 1)
    BY <2>1
  <2>3. turn = 0 /\ popped = FALSE /\ is_done = FALSE
    BY DEF Init
  <2> QED
    BY <2>2, <2>3 DEF LoopOK
<1>3. InFlight = {}
  BY InitMsgInv DEF MsgInv, ActiveOK, Init
<1> QED
  BY <1>2, <1>3, <1>4, <1>5, <1>6 DEF DataInv, TrueInv

-----------------------------------------------------------------------------
(* The directories of the sessions.                                        *)

Kept == {k \in Sessions : dirs[k] = "kept"}

\* A fatal error was reported, in session k or before.
Fatal(k) == "application_error" \in errors /\ stopIndex <= k

\* While a session can still be closed its directory is not kept, and the exit code
\* only says that a fatal error was reported.  Every directory that is kept has its
\* reason, and without an error there is one for each success.
SessionAlive == (phase = "run" /\ session.open) \/ "session" \in active
KeptOK ==
    /\ "application_error" \in errors => stopIndex # 0
    /\ exitcode # 0 /\ (phase = "run" \/ "session" \in active) => Fatal(session_index)
    /\ SessionAlive => session_index # 0 /\ dirs[session_index] # "kept"
    /\ ~KeepSessions =>
          /\ \A k \in Kept : IsSuccess(final[k]) \/ Fatal(k)
          /\ exitcode = 0 => Cardinality(Kept) = nb_success

VerdictInv == MsgInv /\ TrueInv /\ DataInv /\ KeptOK

\* Steps that leave directories, scores and statistics as they are.
LEMMA KeptStays ==
    ASSUME KeptOK, UNCHANGED <<exitcode, session_index, dirs, final, errors, stopIndex, nb_success>>,
           phase' = "run" /\ session'.open => phase = "run" /\ session.open,
           phase' = "run" => phase = "run",
           "session" \in active' => "session" \in active
    PROVE  KeptOK'
<1>1. Kept' = Kept
  BY DEF Kept
<1> QED
  BY <1>1 DEF KeptOK, SessionAlive, Fatal

\* The steps that only move messages and agents.
LEMMA QuietKept ==
    ASSUME VerdictInv, ~(\E p \in Probes : ProbeSends(p)),
           Quiet \/ UNCHANGED vars \/ EndStep \/ Interrupt \/ DeactivateProject \/ ApplicationExit
    PROVE  KeptOK'
<1> USE DEF worldVars, projVars, fileVars, histVars, msgVars
<1> DEFINE Same ==
       /\ UNCHANGED <<exitcode, session_index, dirs, final, errors, stopIndex, nb_success, session>>
       /\ phase' = "run" => phase = "run"
       /\ "session" \in active' => "session" \in active
<1>1. Same => KeptOK'
  BY KeptStays DEF VerdictInv
<1>2. MtaDeliver \/ MtaDone \/ SkipAgent \/ ReadMailbox \/ UniversOnUniversStop \/ AppLive => Same
  BY DEF MtaDeliver, DeliverNext, MtaDone, SkipAgent, ReadMailbox, PopMessages,
         UniversOnUniversStop, AppLive
<1>3. SessionLive \/ Tick \/ Exited \/ UNCHANGED vars => Same
  BY DEF SessionLive, Tick, Exited, vars
<1>4. ProjectOnSessionDone \/ ProjectOnProjectStop \/ ProjectLive => Same
  BY DEF ProjectOnSessionDone, ProjectOnProjectStop, ProjectLive
<1>5. ProjectOnUniversStop /\ ~session.open => Same
  BY DEF ProjectOnUniversStop, ClosesOnStop
<1>6. ASSUME NEW p \in Probes, ProbeStep(p) PROVE Same
  BY <1>6 DEF ProbeStep, ProbeOnSessionStart, ProbeWatches, ProbeTargetDone
<1>7. EndStep \/ Interrupt \/ DeactivateProject \/ ApplicationExit => Same
  BY DEF EndStep, Interrupt, DeactivateProject, ApplicationExit
<1> QED
  <2> HIDE DEF Same
  <2> QED
    BY <1>1, <1>2, <1>3, <1>4, <1>5, <1>6, <1>7 DEF Quiet

\* A probe that reports a fatal error does it in a session.
LEMMA ProbeSendsKept == ASSUME VerdictInv, NEW p \in Probes, ProbeSends(p) PROVE KeptOK'
<1>1. phase = "run" /\ session.open
  BY LivingFacts, AgentFacts DEF VerdictInv, ProbeSends, Probing
<1>2. PICK e : /\ stopIndex' = IF e \in StopEvents /\ stopIndex = 0 THEN session_index ELSE stopIndex
               /\ errors' = errors \cup (IF e = "application_error" THEN {e} ELSE {})
  BY DEF ProbeSends
<1>3. UNCHANGED <<phase, session, active, exitcode, session_index, dirs, final, nb_success>>
  BY DEF ProbeSends, projVars, fileVars
<1>4. session_index # 0 /\ stopIndex \in 0..session_index /\ session_index \in Nat
  BY <1>1, BoundsAssumption
     DEF VerdictInv, MsgInv, Inv, StartInv, ControlOK, DataInv, HistoryOK
<1>5. "application_error" \in errors' => stopIndex' # 0
  BY <1>2, <1>4 DEF VerdictInv, KeptOK, StopEvents
<1>6. \A k : Fatal(k) => Fatal(k)'
  BY <1>2 DEF Fatal, VerdictInv, KeptOK
<1>7. Kept' = Kept
  BY <1>3 DEF Kept
<1> QED
  BY <1>3, <1>5, <1>6, <1>7 DEF VerdictInv, KeptOK, SessionAlive

\* Application.on_application_error sets the exit code; the error has happened.
LEMMA ApplicationKept == ASSUME VerdictInv, ApplicationOnStop PROVE KeptOK'
<1>1. UNCHANGED <<phase, session, active, session_index, dirs, final, nb_success, errors, stopIndex>>
  BY DEF ApplicationOnStop, projVars, fileVars, histVars
<1>2. Kept' = Kept
  BY <1>1 DEF Kept
<1>3. CASE exitcode' = exitcode
  BY <1>1, <1>3, KeptStays DEF VerdictInv
<1>4. CASE exitcode' # exitcode
  <2>1. Handling("application", "application_error") /\ exitcode' = 1
    BY <1>4 DEF ApplicationOnStop
  <2>2. Head(inbox) \in InFlight /\ Head(inbox).event = "application_error"
    BY <2>1, HandlingFacts DEF VerdictInv
  <2>3. "application_error" \in errors
    BY <2>2 DEF VerdictInv, TrueInv, ToldTrue
  <2>4. Fatal(session_index)
    BY <2>3, BoundsAssumption DEF Fatal, VerdictInv, DataInv, HistoryOK, MsgInv, Inv, ControlOK
  <2> QED
    BY <1>1, <1>2, <2>1, <2>4 DEF VerdictInv, KeptOK, SessionAlive, Fatal
<1> QED
  BY <1>3, <1>4

\* The score of a session that is scored is not that of a directory that is kept.
LEMMA ScoringKept == ASSUME VerdictInv, SessionOnSessionStop PROVE KeptOK'
<1>1. /\ Handling("session", "session_stop")
      /\ final' = final \/ \E s : final' = [final EXCEPT ![session_index] = s]
      /\ session' = session \/ session' = [session EXCEPT !.stopped = TRUE]
      /\ UNCHANGED <<phase, active, exitcode, session_index, dirs, nb_success, errors, stopIndex>>
  BY DEF SessionOnSessionStop, fileVars
<1>2. phase = "run" /\ session.open
  BY <1>1, HandlingFacts, AgentFacts DEF VerdictInv, MsgInv, ActiveOK
<1>3. dirs[session_index] # "kept"
  BY <1>2 DEF VerdictInv, KeptOK, SessionAlive
<1>4. Kept' = Kept /\ \A k \in Kept : final'[k] = final[k]
  BY <1>1, <1>3 DEF Kept, VerdictInv, DataInv, HistoryOK
<1>5. session'.open => session.open
  BY <1>2
<1> QED
  BY <1>1, <1>2, <1>4 DEF VerdictInv, KeptOK, SessionAlive, Fatal

\* Closing the directory of the session: what is kept is what was kept, and this one
\* when its score or an error asks for it.
LEMMA ClosedKept ==
    ASSUME VerdictInv, session_index # 0, dirs[session_index] # "kept", NEW s, ~KeepSessions
    PROVE  /\ session_index \in Sessions
           /\ {k \in Sessions : DirsClosed(s)[k] = "kept"} =
                 IF IsSuccess(s) \/ exitcode # 0 THEN Kept \cup {session_index} ELSE Kept
           /\ session_index \notin Kept
<1>1. session_index \in Sessions
  BY BoundsAssumption DEF VerdictInv, MsgInv, Inv, ControlOK, Sessions
<1>2. \A k \in Sessions : k # session_index => DirsClosed(s)[k] = dirs[k]
  BY ClosedDirectory DEF VerdictInv, MsgInv
<1>3. DirsClosed(s)[session_index] = IF IsSuccess(s) \/ exitcode # 0 THEN "kept" ELSE "removed"
  BY <1>1, ClosedDirectory DEF VerdictInv, MsgInv, KeepDirectory
<1> QED
  BY <1>1, <1>2, <1>3 DEF Kept

\* Keeping one more directory.
LEMMA OneMoreKept ==
    ASSUME NEW k \in Sessions, k \notin Kept
    PROVE  /\ Cardinality(Kept) \in Nat
           /\ Cardinality(Kept \cup {k}) = Cardinality(Kept) + 1
<1>1. IsFiniteSet(Sessions)
  BY BoundsAssumption, FS_Interval DEF Sessions
<1>2. IsFiniteSet(Kept)
  BY <1>1, FS_Subset DEF Kept
<1> QED
  BY <1>2, FS_AddElement, FS_CardinalityType

\* The project closes its session with score s, and counts a success when it is one.
LEMMA ClosingKept ==
    ASSUME VerdictInv, phase = "run", session.open, NEW s,
           IsSuccess(s) => exitcode # 0 \/ s = final[session_index],
           exitcode = 0 /\ exitcode' = 0 => nb_success' = nb_success + IF IsSuccess(s) THEN 1 ELSE 0,
           exitcode' = 0 => exitcode = 0,
           UNCHANGED final,
           errors \subseteq errors', stopIndex' = stopIndex,
           "application_error" \in errors' => "application_error" \in errors,
           NEW K, K = {k \in Sessions : DirsClosed(s)[k] = "kept"}
    PROVE  ~KeepSessions => /\ \A k \in K : IsSuccess(final'[k]) \/ Fatal(k)'
                            /\ exitcode' = 0 => Cardinality(K) = nb_success'
<1> SUFFICES ASSUME ~KeepSessions
             PROVE  /\ \A k \in K : IsSuccess(final'[k]) \/ Fatal(k)'
                    /\ exitcode' = 0 => Cardinality(K) = nb_success'
  OBVIOUS
<1>1. /\ session_index # 0 /\ dirs[session_index] # "kept"
      /\ exitcode # 0 => Fatal(session_index)
      /\ \A k \in Kept : IsSuccess(final[k]) \/ Fatal(k)
      /\ exitcode = 0 => Cardinality(Kept) = nb_success
  BY DEF VerdictInv, KeptOK, SessionAlive
<1>2. /\ session_index \in Sessions /\ session_index \notin Kept
      /\ K = IF IsSuccess(s) \/ exitcode # 0 THEN Kept \cup {session_index} ELSE Kept
  BY <1>1, ClosedKept
<1>3. \A k : Fatal(k) => Fatal(k)'
  BY DEF Fatal
<1>4. \A k \in K : IsSuccess(final'[k]) \/ Fatal(k)'
  <2> SUFFICES ASSUME NEW k \in K PROVE IsSuccess(final'[k]) \/ Fatal(k)'
    OBVIOUS
  <2>1. CASE k \in Kept
    BY <1>1, <1>3, <2>1
  <2>2. CASE k \notin Kept
    <3>1. k = session_index /\ (IsSuccess(s) \/ exitcode # 0)
      BY <1>2, <2>2
    <3> QED
      BY <1>1, <1>3, <3>1
  <2> QED
    BY <2>1, <2>2
<1>5. ASSUME exitcode' = 0 PROVE Cardinality(K) = nb_success'
  <2>1. exitcode = 0 /\ nb_success' = nb_success + IF IsSuccess(s) THEN 1 ELSE 0
    BY <1>5
  <2>2. Cardinality(Kept) = nb_success /\ nb_success \in Nat
    BY <1>1, <2>1 DEF VerdictInv, MsgInv, Inv, ControlOK
  <2>3. CASE IsSuccess(s)
    <3>1. K = Kept \cup {session_index}
      BY <1>2, <2>3
    <3> QED
      BY <1>2, <2>1, <2>2, <2>3, <3>1, OneMoreKept
  <2>4. CASE ~IsSuccess(s)
    BY <1>2, <2>1, <2>2, <2>4
  <2> QED
    BY <2>3, <2>4
<1> QED
  BY <1>4, <1>5

\* The verdict is the score of the session.
LEMMA VerdictIsScore == ASSUME VerdictInv, DestroyingSession PROVE Verdict = final[session_index]
<1>1. Head(inbox) \in InFlight /\ Head(inbox).event \in Judging
  BY HandlingFacts DEF VerdictInv, DestroyingSession, Judging
<1> QED
  BY <1>1 DEF VerdictInv, TrueInv, ToldTrue, Verdict

\* A session that was not judged has no score while there is no error.
LEMMA UnjudgedIsNoSuccess ==
    ASSUME VerdictInv PROVE exitcode = 0 => ~IsSuccess(session.score)
BY DEF VerdictInv, MsgInv, Inv, ScoreInv, IsSuccess

\* The handlers that close the session and open no other.
LEMMA ClosesKept ==
    ASSUME VerdictInv,
           \/ ProjectOnUniversStop /\ session.open
           \/ ProjectStopsAtLimit
           \/ ProjectNotCalm
    PROVE  KeptOK'
<1>1. ~session'.open /\ "session" \notin active'
  <2>1. session' = NoSession /\ active' = active \cap AppAgents
    BY DEF ProjectOnUniversStop, ClosesOnStop, ProjectStopsAtLimit, ProjectNotCalm, DestroySession
  <2> QED
    BY <2>1, NoSessionOK, AgentFacts
<1>2. /\ phase = "run" /\ session.open /\ session_index' = session_index
      /\ UNCHANGED <<final, stopIndex>>
      /\ errors \subseteq errors' /\ ("application_error" \in errors' => "application_error" \in errors)
      /\ \/ phase' = "run" /\ exitcode' = exitcode
         \/ phase' = "deactivate" /\ exitcode' = 1
  BY UniversStopCloses, LimitCloses, NotCalmCloses
     DEF ProjectOnUniversStop, ProjectStopsAtLimit, ProjectNotCalm, histVars
<1>3. exitcode \in {0, 1}
  BY DEF VerdictInv, MsgInv, Inv, ControlOK
<1>4. PICK s : /\ dirs' = DirsClosed(s)
               /\ IsSuccess(s) => exitcode # 0 \/ s = final[session_index]
               /\ exitcode = 0 /\ exitcode' = 0
                     => nb_success' = nb_success + IF IsSuccess(s) THEN 1 ELSE 0
  <2>1. CASE ProjectOnUniversStop /\ session.open
    <3>1. dirs' = DirsClosed(session.score) /\ nb_success' = nb_success
      BY <2>1, UniversStopCloses
    <3>2. nb_success \in Nat
      BY DEF VerdictInv, MsgInv, Inv, ControlOK
    <3> QED
      BY <3>1, <3>2, UnjudgedIsNoSuccess
  <2>2. CASE ProjectStopsAtLimit
    BY <2>2, LimitCloses, VerdictIsScore DEF ProjectStopsAtLimit, CountSuccess
  <2>3. CASE ProjectNotCalm
    BY <2>3, NotCalmCloses, VerdictIsScore DEF ProjectNotCalm, CountSuccess
  <2> QED
    BY <2>1, <2>2, <2>3
<1>5. ~KeepSessions => /\ \A k \in Kept' : IsSuccess(final'[k]) \/ Fatal(k)'
                       /\ exitcode' = 0 => Cardinality(Kept') = nb_success'
  <2>1. PICK K : K = {k \in Sessions : DirsClosed(s)[k] = "kept"}
    OBVIOUS
  <2>2. Kept' = K
    BY <1>4, <2>1 DEF Kept
  <2>3. exitcode' = 0 => exitcode = 0
    BY <1>2
  <2>4. ~KeepSessions => /\ \A k \in K : IsSuccess(final'[k]) \/ Fatal(k)'
                         /\ exitcode' = 0 => Cardinality(K) = nb_success'
    BY <1>2, <1>4, <2>1, <2>3, ClosingKept
  <2> QED
    BY <2>2, <2>4
<1>6. exitcode' # 0 /\ phase' = "run" => Fatal(session_index)'
  BY <1>2 DEF Fatal, VerdictInv, KeptOK
<1> QED
  BY <1>1, <1>2, <1>5, <1>6 DEF KeptOK, SessionAlive, VerdictInv

\* The session that follows has a new directory.
LEMMA NextKept == ASSUME VerdictInv, ProjectStartsNextSession PROVE KeptOK'
<1>1. /\ phase = "run" /\ session.open /\ CountSuccess /\ session_index' = session_index + 1
      /\ session'.open
      /\ dirs' = [DirsClosed(Verdict) EXCEPT ![session_index + 1] = "present"]
      /\ UNCHANGED <<phase, exitcode>>
  BY NextSessionOpens
<1>2. UNCHANGED <<final, errors, stopIndex>>
  BY DEF ProjectStartsNextSession, histVars
<1>3. session_index \in Nat /\ session_index' \in Sessions /\ session_index' # 0
  BY <1>1, NextSessionOpens, BoundsAssumption DEF VerdictInv, MsgInv, Inv, ControlOK, Sessions
<1>4. DirsClosed(Verdict) \in [Sessions -> {"absent", "present", "kept", "removed"}]
  BY ClosedDirectory DEF VerdictInv, MsgInv
<1>5. dirs'[session_index'] = "present"
  BY <1>1, <1>3, <1>4
<1>6. DirsClosed(Verdict)[session_index'] # "kept"
  <2>1. session_index' # session_index /\ session_index' > session_index
    BY <1>1, <1>3
  <2>2. DirsClosed(Verdict)[session_index'] = dirs[session_index']
    BY <1>3, <2>1, ClosedDirectory DEF VerdictInv, MsgInv
  <2> QED
    BY <1>3, <2>1, <2>2 DEF VerdictInv, MsgInv, Inv, KeptInv
<1>7. PICK K : K = {k \in Sessions : DirsClosed(Verdict)[k] = "kept"}
  OBVIOUS
<1>8. Kept' = K
  BY <1>1, <1>4, <1>5, <1>6, <1>7 DEF Kept
<1>9. Verdict = final[session_index]
  BY VerdictIsScore DEF ProjectStartsNextSession
<1>10. PICK s : s = Verdict
  OBVIOUS
<1>11. ~KeepSessions => /\ \A k \in K : IsSuccess(final'[k]) \/ Fatal(k)'
                        /\ exitcode' = 0 => Cardinality(K) = nb_success'
  BY <1>1, <1>2, <1>7, <1>9, <1>10, ClosingKept DEF CountSuccess
<1>12. exitcode' # 0 => Fatal(session_index)'
  <2>1. exitcode # 0 => Fatal(session_index)
    BY <1>1 DEF VerdictInv, KeptOK
  <2>2. stopIndex \in Nat
    BY <1>3 DEF VerdictInv, DataInv, HistoryOK
  <2>3. stopIndex <= session_index => stopIndex <= session_index'
    BY <1>1, <1>3, <2>2
  <2> QED
    BY <1>1, <1>2, <2>1, <2>3 DEF Fatal
<1> QED
  BY <1>1, <1>2, <1>3, <1>5, <1>8, <1>11, <1>12 DEF KeptOK, SessionAlive, VerdictInv

\* A deinit() that raises leaves the session out of the active agents.
LEMMA RaisesKept ==
    ASSUME VerdictInv, ProjectOnUniversStopRaises \/ ProjectDestroyRaises
    PROVE  KeptOK'
<1>1. /\ phase = "run" /\ session.open /\ phase' = "deactivate" /\ exitcode' = 1
      /\ UNCHANGED <<session_index, nb_success>>
  BY RaisingCloses
<1>2. PICK s : DestroySessionRaises(s)
               /\ (IsSuccess(s) => exitcode # 0 \/ s = final[session_index])
  BY UnjudgedIsNoSuccess, VerdictIsScore
     DEF ProjectOnUniversStopRaises, ProjectDestroyRaises, VerdictInv, MsgInv, Inv, ControlOK
<1>3. /\ dirs' = DirsClosed(s) /\ "session" \notin active' /\ UNCHANGED <<final, stopIndex>>
      /\ errors' = errors \cup {"deinit"}
  BY <1>2 DEF DestroySessionRaises
<1>4. PICK K : K = {k \in Sessions : DirsClosed(s)[k] = "kept"}
  OBVIOUS
<1>5. Kept' = K
  BY <1>3, <1>4 DEF Kept
<1>6. ~KeepSessions => /\ \A k \in K : IsSuccess(final'[k]) \/ Fatal(k)'
                       /\ exitcode' = 0 => Cardinality(K) = nb_success'
  BY <1>1, <1>2, <1>3, <1>4, ClosingKept
<1> QED
  BY <1>1, <1>3, <1>5, <1>6 DEF KeptOK, SessionAlive, VerdictInv

\* Without a session a verdict closes nothing.
LEMMA NoSessionKept == ASSUME VerdictInv, ProjectNoSession PROVE KeptOK'
<1>1. /\ phase = "run" /\ ~session.open /\ phase' = "deactivate" /\ exitcode' = 1
      /\ UNCHANGED <<session_index, nb_success, dirs, active, final, stopIndex, errors>>
  BY NoSessionRaises DEF ProjectNoSession, histVars
<1>2. "session" \notin active'
  BY <1>1, AgentFacts DEF VerdictInv, MsgInv, ActiveOK
<1>3. Kept' = Kept
  BY <1>1 DEF Kept
<1> QED
  BY <1>1, <1>2, <1>3 DEF KeptOK, SessionAlive, Fatal, VerdictInv

\* The first session.
LEMMA FirstKept == ASSUME VerdictInv, ActivateProject PROVE KeptOK'
<1>1. /\ phase = "activate" /\ session_index < SessionBound /\ session_index' = session_index + 1
      /\ dirs' = [dirs EXCEPT ![session_index + 1] = "present"]
      /\ UNCHANGED <<exitcode, nb_success, final, errors, stopIndex>>
  BY OpenedSession DEF ActivateProject, histVars
<1>2. session_index = 0 /\ exitcode = 0 /\ dirs \in [Sessions -> {"absent", "present", "kept", "removed"}]
  BY <1>1 DEF VerdictInv, MsgInv, Inv, StartInv, ControlOK
<1>3. session_index' = 1 /\ 1 \in Sessions
  BY <1>1, <1>2, BoundsAssumption DEF Sessions
<1>4. dirs[1] = "absent"
  BY <1>2, <1>3 DEF VerdictInv, MsgInv, Inv, KeptInv
<1>5. dirs'[1] = "present" /\ Kept' = Kept
  BY <1>1, <1>2, <1>3, <1>4 DEF Kept
<1> QED
  BY <1>1, <1>2, <1>3, <1>5 DEF KeptOK, SessionAlive, Fatal, VerdictInv

\* A project that never had a session, and the project that is destroyed.
LEMMA FailsKept == ASSUME VerdictInv, ActivateProjectFails PROVE KeptOK'
<1>1. /\ phase = "activate" /\ phase' = "abort" /\ active' = active \cup {"project"}
      /\ errors' = errors \cup {"calm"}
      /\ UNCHANGED <<exitcode, nb_success, final, stopIndex, session_index, dirs>>
  BY DEF ActivateProjectFails, projVars, fileVars
<1>2. Kept' = Kept
  BY <1>1 DEF Kept
<1>3. exitcode = 0 /\ \A k : Fatal(k) => Fatal(k)'
  BY <1>1 DEF VerdictInv, MsgInv, Inv, StartInv, Fatal
<1> QED
  BY <1>1, <1>2, <1>3 DEF KeptOK, SessionAlive, VerdictInv

\* AgentList.clear closes a session that is still there.
LEMMA DestroyKept == ASSUME VerdictInv, DestroyProject PROVE KeptOK'
<1>1. /\ phase' = "done" /\ exitcode' = (IF phase = "abort" THEN 1 ELSE exitcode)
      /\ UNCHANGED <<session_index, nb_success, final, stopIndex, errors>>
      /\ "session" \notin active'
      /\ dirs' = IF "session" \in active THEN DirsClosed(session.score) ELSE dirs
  BY DestroyFacts DEF DestroyProject
<1>2. exitcode' = 0 => exitcode = 0
  BY <1>1
<1>3. ~KeepSessions => /\ \A k \in Kept' : IsSuccess(final'[k]) \/ Fatal(k)'
                       /\ exitcode' = 0 => Cardinality(Kept') = nb_success'
  <2>1. CASE "session" \notin active
    <3>1. Kept' = Kept
      BY <1>1, <2>1 DEF Kept
    <3> QED
      BY <1>1, <1>2, <3>1 DEF VerdictInv, KeptOK, Fatal
  <2>2. CASE "session" \in active
    <3> SUFFICES ASSUME ~KeepSessions
                 PROVE  /\ \A k \in Kept' : IsSuccess(final'[k]) \/ Fatal(k)'
                        /\ exitcode' = 0 => Cardinality(Kept') = nb_success'
      OBVIOUS
    <3>1. /\ session_index # 0 /\ dirs[session_index] # "kept"
          /\ exitcode # 0 => Fatal(session_index)
          /\ \A k \in Kept : IsSuccess(final[k]) \/ Fatal(k)
          /\ exitcode = 0 => Cardinality(Kept) = nb_success
      BY <2>2 DEF VerdictInv, KeptOK, SessionAlive
    <3>2. PICK s : s = session.score
      OBVIOUS
    <3>3. Kept' = IF IsSuccess(s) \/ exitcode # 0 THEN Kept \cup {session_index} ELSE Kept
      <4>1. {k \in Sessions : DirsClosed(s)[k] = "kept"} =
                 IF IsSuccess(s) \/ exitcode # 0 THEN Kept \cup {session_index} ELSE Kept
        BY <3>1, ClosedKept
      <4>2. Kept' = {k \in Sessions : DirsClosed(s)[k] = "kept"}
        BY <1>1, <2>2, <3>2 DEF Kept
      <4> QED
        BY <4>1, <4>2
    <3>4. exitcode = 0 => ~IsSuccess(s)
      BY <3>2, UnjudgedIsNoSuccess
    <3>5. CASE exitcode = 0
      <4>1. Kept' = Kept
        BY <3>3, <3>4, <3>5
      <4> QED
        BY <1>1, <3>1, <3>5, <4>1 DEF Fatal
    <3>6. CASE exitcode # 0
      <4>1. \A k \in Kept' : IsSuccess(final[k]) \/ Fatal(k)
        BY <3>1, <3>3, <3>6
      <4> QED
        BY <1>1, <1>2, <3>6, <4>1 DEF Fatal
    <3> QED
      BY <3>5, <3>6
  <2> QED
    BY <2>1, <2>2
<1> QED
  BY <1>1, <1>3 DEF KeptOK, SessionAlive, VerdictInv

\* Every step preserves the invariant.
LEMMA StepVerdict == VerdictInv /\ [Next]_vars => VerdictInv'
<1> SUFFICES ASSUME VerdictInv, [Next]_vars PROVE VerdictInv'
  OBVIOUS
<1>1. MsgInv' /\ TrueInv' /\ DataInv'
  BY StepMsgInv, StepTruth, StepLoop, StepProbes, StepHistory, StepCounts DEF VerdictInv, DataInv
<1>2. (\E p \in Probes : ProbeSends(p)) => KeptOK'
  BY ProbeSendsKept
<1>3. Quiet \/ UNCHANGED vars => KeptOK'
  BY <1>2, QuietKept
<1>4. Moves => KeptOK'
  BY <1>2, QuietKept, FailsKept DEF Moves
<1>5. KeptOK'
  BY <1>3, <1>4, StepCases, FirstKept, ApplicationKept, ScoringKept, ClosesKept, RaisesKept,
     NextKept, NoSessionKept, DestroyKept
<1> QED
  BY <1>1, <1>5 DEF VerdictInv

\* At first nothing was kept.
LEMMA InitVerdict == Init => VerdictInv
<1> SUFFICES ASSUME Init PROVE VerdictInv
  OBVIOUS
<1>1. Kept = {}
  BY DEF Init, Kept
<1>2. Cardinality(Kept) = 0
  BY <1>1, FS_EmptySet
<1>3. KeptOK
  BY <1>1, <1>2, AgentFacts DEF Init, KeptOK, SessionAlive
<1> QED
  BY <1>3, InitMsgInv, InitData DEF VerdictInv

\* VerdictInv is an invariant of every run of Fusil.
THEOREM VerdictInvariance == Spec => []VerdictInv
BY InitVerdict, StepVerdict, PTL DEF Spec

\* The invariant says what KeptMatchesSuccess says of the directories.
LEMMA KeptMatches == VerdictInv => KeptMatchesSuccess
<1> SUFFICES ASSUME VerdictInv PROVE KeptMatchesSuccess
  OBVIOUS
<1>1. TypeOK
  BY TypesHold DEF VerdictInv
<1> QED
  BY <1>1 DEF KeptMatchesSuccess, VerdictInv, KeptOK, Kept, Fatal

\* Without --keep-sessions the directories that SessionDirectory.checkKeepDirectory
\* leaves are those of the successes Session.computeScore announced, as many as
\* nb_success, until a fatal error is reported; and every variable has its type.
THEOREM KeptDirectoriesAreSuccesses == Spec => []KeptMatchesSuccess
BY VerdictInvariance, KeptMatches, PTL

=============================================================================
