\* Every interleaving of the entrypoints, from a fresh instance and from every
\* v1 and v2 instance with at most two tiers.
CONSTANTS
    Address = {admin1, admin2}
    Amounts <- MCAmounts
    Batches <- MCBatches
    Tiers <- MCTiers
    FeeRates <- MCFeeRates
    DefaultSchedule <- MCDefaultSchedule
    MaxSingleFee = 2
    MaxFeeTiers = 2
    MaxBasisPoints = 4
    I128Max = 9
    U64Size = 8
    Wasm = {current, other}
    ThisBuild = current
    Nil = Nil
SPECIFICATION Spec
SYMMETRY MCSymmetry
CHECK_DEADLOCK FALSE
INVARIANTS  TotalCountsEveryFee HighestTierApplies
PROPERTY MigrationKeepsRates
