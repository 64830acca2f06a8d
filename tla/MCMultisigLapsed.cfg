\* One proposal above the limit, two signatures needed, an admin that removes
\* a signer and adds the address back.
CONSTANTS
    a = a
    b = b
    c = c
    Address = {a, b, c}
    SignerLists <- MCOneList
    Thresholds <- MCOneThreshold
    Limits <- MCNoLimit
    Values <- MCOneValue
    ProposalId = {p}
    ProposalTtl = 1
    MaxSigners = 3
    U32Max = 3
    MinTtl = 3
    TtlThreshold = 1
    TtlExtendTo = 3
    Wasm = {current}
    ThisBuild = current
    Nil = Nil
SPECIFICATION Spec
CHECK_DEADLOCK FALSE
PROPERTY RemovedSignaturesStayDead
