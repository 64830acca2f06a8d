\* Every interleaving of four attempts with one key, whose processes live shorter
\* than the lock, over a time in which locks and answers expire.
CONSTANTS
    r1 = r1
    r2 = r2
    r3 = r3
    r4 = r4
    Request <- MCRequest
    HashOf <- MCHashOf
    LockTtl = 2
    Ttl = 3
    RequestLimit = 1
    LostAcks = FALSE
    MaxTime = 3
    Nil = Nil
SPECIFICATION Spec
SYMMETRY MCSymmetry
CHECK_DEADLOCK FALSE
INVARIANTS OneHandler AnswersOwnPayload
PROPERTY NoEffectBesideAnswer
