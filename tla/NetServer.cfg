CONSTANTS
    Peers = {p1, p2}
    SessionBound = 3
SPECIFICATION FairServerSpec
INVARIANTS ClientsAgree AnsweredOnce
PROPERTY RequestsRead
CHECK_DEADLOCK FALSE
