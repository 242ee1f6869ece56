\* Two sessions, with and without the debugger, a Python that loses statuses.
CONSTANTS
    ExitCodes <- Codes
    FatalSignals <- Fatal
    OtherSignals <- Other
    HasTimeout = TRUE
    Unkillable = TRUE
    NoStatus = NoStatus
    LostStatus = NoStatus
    SessionBound = 2
SPECIFICATION FairSpec
INVARIANTS NoProcessLeft DebuggerAgrees ReportedOnce ScoreTells
PROPERTIES ImplementsProbe TimeoutKills DeathReported TrapContinued
