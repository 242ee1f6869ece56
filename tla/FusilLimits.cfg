\* Both limits: two sessions or one success; SessionBound is beyond them.
CONSTANTS
    p1 = p1
    p2 = p2
    Probes = {p1}
    ProbeOrder <- OneProbe
    NoScore = NoScore
    ProbeScores <- AllScores
    ProbeEvents = {"project_stop", "session_stop", "application_interrupt", "application_error"}
    SuccessScore = 50
    ErrorScore <- MCErrorScore
    MaxSession = 2
    MaxSuccess = 1
    KeepSessions = FALSE
    SessionTimeout = TRUE
    SessionBound = 3
    SendBound = 1
    FaultBound = 1
SPECIFICATION FairSpec
INVARIANTS KeptMatchesSuccess ProjectDirKept
PROPERTIES ImplementsFuzzLoop RunEnds StoppedSessionEnds TimeoutEnds
