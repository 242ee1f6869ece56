\* Three agents, two events, three steps: an agent can be deactivated in one
\* step, reactivated in the next and read in the third.
CONSTANTS
    N = 3
    Agents <- MCAgents
    Event = {"start", "stop"}
    Subscribers <- MCSubscribers
    MaxSent = 3
    MaxStep = 3
SPECIFICATION MCSpec
INVARIANTS HandledFresh HandledInOrder
CHECK_DEADLOCK FALSE
