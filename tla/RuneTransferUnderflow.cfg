\* A runic output that carries more sats than the postage it pays.
CONSTANTS
    p1 = p1
    p2 = p2
    a1 = a1
    a2 = a2
    b1 = b1
    m1 = m1
    a3 = a3
    rA = rA
    rB = rB
    Utxos <- MCUtxos
    Value <- MCValue
    Runes <- MCRunes
    RuneBal <- MCRuneBal
    RuneIdOf <- MCRuneIdOf
    WordBits = 24
    FeeRates <- MCFeeRates
    InitialDeposits <- MCRichDeposits
    Amounts <- MCRichAmounts

SPECIFICATION Spec

INVARIANT ShortOnlyWhenUnfunded

\* transfer() stops once it returns Ok or Err: no step follows.
CHECK_DEADLOCK FALSE
