\* Who pays the fee of withdraw_runestone_with_fee_paid_by_receiver?
CONSTANTS
    p1 = p1
    p2 = p2
    a1 = a1
    a2 = a2
    q1 = q1
    rA = rA
    r1 = r1
    r2 = r2
    S = S
    R = R
    Utxos <- MCUtxos
    Value <- MCValue
    Runes <- MCRunes
    RuneBal <- MCRuneBal
    RuneIdOf <- MCRuneIdOf
    WordBits = 24
    Owner <- MCOwner
    Sender <- S
    Receiver <- R
    Amounts <- MCAmounts
    FeeRates <- MCFeeRates
    BtcAmounts <- MCBtcAmounts
    MaxFeeRounds = 3
    InitialDeposits <- MCInitialDeposits
    Requests <- MCOneRequest
    Endpoints <- MCReceiverPays

SPECIFICATION Spec

INVARIANT FeePaidByReceiver

\* Every call ends in done or failed; then no step is enabled.
CHECK_DEADLOCK FALSE
