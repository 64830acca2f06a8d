\* Every interleaving of the entrypoints, one proposal id, three addresses
\* that come and go as signers, from a fresh and from every v1 instance.
CONSTANTS
    a = a
    b = b
    c = c
    Address = {a, b, c}
    SignerLists <- MCLists
    Thresholds <- MCThresholds
    Limits <- MCLimits
    Values <- MCValues
    ProposalId = {p}
    ProposalTtl = 1
    MaxSigners = 3
    U32Max = 3
    MinTtl = 1
    TtlThreshold = 1
    TtlExtendTo = 2
    Wasm = {current, other}
    ThisBuild = current
    Nil = Nil
SPECIFICATION Spec
CHECK_DEADLOCK FALSE
INVARIANTS QuorumIsReachable AuditTrailMatches ExecutedOnce
PROPERTIES WindowNeverReopens ImplementsQuorum
