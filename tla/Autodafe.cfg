CONSTANTS
    Script <- MCScript
    Base = 4
    WeightBound = 2
SPECIFICATION Spec
INVARIANTS EachCaseOnce FieldsAgree DebuggerUnderstood
PROPERTY RunEnds
CHECK_DEADLOCK FALSE
