\* Two sessions of a log, the tail of a log and the output of a process.
CONSTANTS
    Kinds <- AllKinds
    Words <- SomeWords
    NewLine = "LF"
    Return = "CR"
    Weight <- WordWeight
    Ignored <- IgnoredWords
    Writes <- SomeWrites
    ReadSize = 2
    MinLines = 2
    MinScore <- Penalty
    MaxLines = 3
    MaxScore = 100
    NoScore = NoScore
    FileBound = 5
    StopBound = 2
    SessionBound = 2
SPECIFICATION FairSpec
INVARIANTS LinesScored
PROPERTIES JudgedOnOutput ReadsAll
