\* Safety of the fee fixed-point loop of transaction::transfer().
CONSTANTS
    u1 = u1
    u2 = u2
    u3 = u3
    u4 = u4
    Utxos <- MCUtxos
    Value <- MCValue
    Amounts <- MCAmounts
    FeeRates <- MCFeeRates
    InitialPools <- MCInitialPools

SPECIFICATION Spec

INVARIANT TypeOK
INVARIANT PoolConservation
INVARIANT TxBalanced
PROPERTY ImplementsContract

\* A loop that returns, or fails short, stops: the model has no next step.
CHECK_DEADLOCK FALSE
