\* Termination of the fee fixed-point loop (spec 4.3 "convergence is guaranteed").
CONSTANTS
    u1 = u1
    u2 = u2
    u3 = u3
    u4 = u4
    Utxos <- MCUtxos
    Value <- MCValue
    Amounts <- MCAmounts
    FeeRates <- MCFeeRates
    InitialPools <- MCSingleOutputPools

SPECIFICATION Spec

PROPERTY FeeLoopTerminates

\* A loop that returns, or fails short, stops: the model has no next step.
CHECK_DEADLOCK FALSE
