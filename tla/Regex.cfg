CONSTANTS
    Letters = {1, 2}
    MaxWord = 4
    Pool <- MCPool
    Repeats <- MCRepeats
    NoLimit = NoLimit
    CallBound = 2
SPECIFICATION Spec
PROPERTIES Denotes Undisturbed
CHECK_DEADLOCK FALSE
