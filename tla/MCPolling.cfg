SPECIFICATION Spec
CONSTANTS
    Hook = {h1, h2}
    Call = {c1, c2}
    Id = {x}
    For <- MCFor
    MaxConsecutiveErrors = 2
    None = None
INVARIANTS OneLiveRequest NothingLeftBehind
PROPERTIES Settles StopSettles
CHECK_DEADLOCK FALSE
