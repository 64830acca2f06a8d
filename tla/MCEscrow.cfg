\* Every interleaving of the entrypoints by two addresses that may administer and deposit,
\* from a fresh instance and from every v1 instance, two deposit ids.
CONSTANTS
    Address = {authority, alice}
    Amounts <- MCAmounts
    FeeRates <- MCFeeRates
    Timeouts <- MCTimeouts
    DefaultTimeout = 2
    MinTimeout = 1
    MaxTimeout = 3
    MaxBasisPoints = 100
    U64Max = 2
    U32Max = 5
    MinTtl = 2
    TtlThreshold = 1
    TtlExtendTo = 3
    Wasm = {current, other}
    ThisBuild = current
    Nil = Nil
SPECIFICATION Spec
CHECK_DEADLOCK FALSE
INVARIANTS AtMostOneSettlement EventsMatchRecords
PROPERTIES TermsAreFixed RefundWaitsForDeadline ImplementsCustody
