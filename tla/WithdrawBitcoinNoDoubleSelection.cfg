\* Spec 3 invariant NoDoubleSelection, checked against the synchronizer re-recording outputs.
CONSTANTS
    u1 = u1
    u2 = u2
    u3 = u3
    v1 = v1
    v2 = v2
    A0 = A0
    A1 = A1
    Addrs <- MCAddrs
    Owner <- MCOwner
    Caller = A1
    r1 = r1
    r2 = r2
    NoReply = NoReply
    NoKey = NoKey
    Networks = {"regtest"}
    P0 = P0
    P1 = P1
    Anon = Anon
    Canister = Canister
    Unparsable = Unparsable
    Principals <- MCPrincipals
    CanisterId = Canister
    PrincipalBytes <- MCPrincipalBytes
    Nums <- MCNums
    Utxos <- MCUtxos
    Value <- MCValue
    Requests <- MCRequests
    Amounts <- MCAmounts
    FeeRates <- MCFeeRates
    MaxFeeRounds = 3
    MultiAmounts <- MCMultiAmounts
    Principal0s = {A0}
    Endpoints = {"single"}

SPECIFICATION Spec

INVARIANT NoDoubleSelection

\* Both calls end (returned or trapped) and the model stops.
CHECK_DEADLOCK FALSE
