\* A runic output that carries two runes.
CONSTANTS
    p1 = p1
    p2 = p2
    a1 = a1
    a2 = a2
    b1 = b1
    m1 = m1
    a3 = a3
    rA = rA
    rB = rB
    Utxos <- MCUtxos
    Value <- MCValue
    Runes <- MCRunes
    RuneBal <- MCRuneBal
    RuneIdOf <- MCRuneIdOf
    WordBits = 24
    FeeRates <- MCFeeRates
    InitialDeposits <- MCMultiDeposits
    Amounts <- MCMultiAmounts

SPECIFICATION Spec

INVARIANT ReceiverGetsAmount

\* transfer() stops once it returns Ok or Err: no step follows.
CHECK_DEADLOCK FALSE
