\* An event and its replay, two overlapping requests, one fault, one reset.
\* Records that are never created, or all at rest, leave nothing to do.
CONSTANTS
    Event = {e1}
    Replay = {p1}
    Worker = {w1, w2}
    MaxAttempts = 2
    DefaultAttempts = 1
    MaxDisturbances = 1
    None = None
SPECIFICATION Spec
CHECK_DEADLOCK FALSE
INVARIANTS AttemptsWereMade EndedForCause FailureIsLettered
PROPERTIES DeliveredForGood Drains
