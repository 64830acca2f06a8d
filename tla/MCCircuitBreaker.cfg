\* Three overlapping calls, three failures to open, two probes to close;
\* a call ends within the waiting time, as with 15 of 30 and 20 of 60 seconds.
CONSTANTS
    Caller = {c1, c2, c3}
    FailureThreshold = 3
    ResetTimeout = 3
    HalfOpenSuccessThreshold = 2
    Timeout = 1
    TimerLag = 1
    None = None
SPECIFICATION FairSpec
INVARIANT OpensAtThreshold
PROPERTIES OpensForCause Recovers
