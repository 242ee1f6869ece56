\* Two probes, two sessions, one event sent by a probe, one deinit() that raises.
CONSTANTS
    p1 = p1
    p2 = p2
    Probes = {p1, p2}
    ProbeOrder <- TwoProbes
    NoScore = NoScore
    ProbeScores <- CrashOrNot
    ProbeEvents = {"project_stop", "application_error"}
    SuccessScore = 50
    ErrorScore <- MCErrorScore
    MaxSession = 0
    MaxSuccess = 0
    KeepSessions = FALSE
    SessionTimeout = TRUE
    SessionBound = 2
    SendBound = 1
    FaultBound = 1
SPECIFICATION Spec
INVARIANTS NoStaleMessage OneVerdict NoOrphan StopClosesSession
