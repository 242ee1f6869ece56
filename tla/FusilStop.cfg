\* One request to stop; three sessions would follow one another.
CONSTANTS
    p1 = p1
    p2 = p2
    Probes = {p1}
    ProbeOrder <- OneProbe
    NoScore = NoScore
    ProbeScores <- CrashOrNot
    ProbeEvents = {"application_interrupt", "application_error"}
    SuccessScore = 50
    ErrorScore <- MCErrorScore
    MaxSession = 0
    MaxSuccess = 0
    KeepSessions = FALSE
    SessionTimeout = FALSE
    SessionBound = 3
    SendBound = 1
    FaultBound = 0
SPECIFICATION Spec
INVARIANT StopHonoured
