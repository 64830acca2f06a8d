\* Three overlapping requests, three timeouts, and time past the longest.
CONSTANTS
    Request = {r1, r2, r3}
    Bodies <- MCBodies
    Edits <- MCEdits
    StandardTimeout = 0
    PaycrestTimeout = 1
    BridgeTimeout = 2
    MaxTime = 3
    Nil = Nil
SPECIFICATION Spec
SYMMETRY MCSymmetry
INVARIANT RefundFollowsFailure
PROPERTIES FinalizedForGood RequeueFollowsTimeout CompletionUndoneByRaceOnly
