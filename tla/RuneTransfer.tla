---------------------------- MODULE RuneTransfer ----------------------------
(***************************************************************************)
(* One call of runestone::transfer (src/wallet/src/bitcoin/runestone.rs    *)
(* 33-94), one loop iteration per step, against the sender's plain pool    *)
(* and its runic pools.  The call is synchronous, so nothing else runs     *)
(* while it loops.                                                         *)
(***************************************************************************)
EXTENDS Runestone

CONSTANTS
    Amounts,          \* rune amounts a caller may ask for
    FeeRates,         \* fee_per_vbytes values, in millisat per vbyte
    InitialDeposits   \* sets of utxos the synchronizer may have recorded

VARIABLES
    plain,          \* the sender's plain pool
    runic,          \* runic[x]: the sender's runic pool of rune x
    heldRunic,      \* runic utxos of the returned transaction
    heldPlain,      \* fee utxos of the returned transaction
    fee,            \* total_fee
    tx,             \* the last pass of build_transaction_with_fee
    phase,          \* "loop", "done" (Ok) or "short" (Err)
    rune,           \* runeid
    amount,         \* amount
    feePerVbytes,   \* fee_per_vbytes
    initPlain       \* the plain pool when the call began

vars == <<plain, runic, heldRunic, heldPlain, fee, tx, phase, rune, amount,
          feePerVbytes, initPlain>>

TypeOK ==
    /\ plain \subseteq PlainPool(Utxos)
    /\ runic \in [Runes -> SUBSET Utxos]
    /\ \A x \in Runes : runic[x] \subseteq RunicPool(Utxos, x)
    /\ heldRunic \subseteq Utxos /\ heldPlain \subseteq Utxos
    /\ fee \in Nat
    /\ phase \in {"loop", "done", "short"}
    /\ rune \in Runes /\ amount \in Amounts /\ feePerVbytes \in FeeRates

Init ==
    \E D \in InitialDeposits :
        /\ plain = PlainPool(D)
        /\ runic = [x \in Runes |-> RunicPool(D, x)]
        /\ initPlain = plain
        /\ heldRunic = {} /\ heldPlain = {}
        /\ fee = 0
        /\ tx = NoRuneTx
        /\ phase = "loop"
        /\ rune \in Runes
        /\ amount \in Amounts
        /\ feePerVbytes \in FeeRates

Passes == BuildRuneTransactionWithFee(runic[rune], plain, rune, amount, fee)

NewFee(t) == RuneFeeFor(t, rune, amount, feePerVbytes)

\* Err((amount, 0)): the runic loop fell short and gave its utxos back.
BuildRuneShort ==
    /\ phase = "loop"
    /\ \E t \in Passes :
         /\ t.short = "rune"
         /\ tx' = t
         /\ phase' = "short"
    /\ UNCHANGED <<plain, runic, heldRunic, heldPlain, fee, rune, amount,
                   feePerVbytes, initPlain>>

\* Err((0, fee)): the fee loop fell short; its utxos go back, the runic
\* utxos taken before it do not.
BuildBtcShort ==
    /\ phase = "loop"
    /\ \E t \in Passes :
         /\ t.short = "btc"
         /\ runic' = [runic EXCEPT ![rune] = @ \ t.runic]
         /\ tx' = t
         /\ phase' = "short"
    /\ UNCHANGED <<plain, heldRunic, heldPlain, fee, rune, amount,
                   feePerVbytes, initPlain>>

\* The measured fee equals total_fee: return Ok with the borrowed utxos.
BuildConverged ==
    /\ phase = "loop"
    /\ \E t \in Passes :
         /\ t.ok
         /\ NewFee(t) = fee
         /\ plain' = plain \ t.fee_utxos
         /\ runic' = [runic EXCEPT ![rune] = @ \ t.runic]
         /\ heldRunic' = t.runic
         /\ heldPlain' = t.fee_utxos
         /\ tx' = t
         /\ phase' = "done"
    /\ UNCHANGED <<fee, rune, amount, feePerVbytes, initPlain>>

\* Mutation of BuildRetry: the runic utxos are returned to the plain pool.
BuildRetryRunicToPlain ==
    /\ phase = "loop"
    /\ \E t \in Passes :
         /\ t.ok
         /\ NewFee(t) # fee
         /\ plain' = RecordBtcUtxos(plain \ t.fee_utxos, t.fee_utxos \cup t.runic)
         /\ runic' = [runic EXCEPT ![rune] = @ \ t.runic]
         /\ fee' = NewFee(t)
         /\ tx' = t
    /\ UNCHANGED <<phase, heldRunic, heldPlain, rune, amount, feePerVbytes,
                   initPlain>>

\* Otherwise return both sets of utxos and retry with the measured fee.
BuildRetry ==
    /\ phase = "loop"
    /\ \E t \in Passes :
         /\ t.ok
         /\ NewFee(t) # fee
         /\ plain' = RecordBtcUtxos(plain \ t.fee_utxos, t.fee_utxos)
         /\ runic' = [runic EXCEPT ![rune] = (@ \ t.runic) \cup t.runic]
         /\ fee' = NewFee(t)
         /\ tx' = t
    /\ UNCHANGED <<phase, heldRunic, heldPlain, rune, amount, feePerVbytes,
                   initPlain>>

Next == BuildRuneShort \/ BuildBtcShort \/ BuildConverged \/ BuildRetry

Spec == Init /\ [][Next]_vars

(***************************************************************************)
(* Properties                                                              *)
(***************************************************************************)

\* Conservation of BTC (spec 8.2) for the returned transaction: the inputs,
\* runic ones included, pay the outputs and the fee, plus at most a change
\* dropped as dust.  The postage already inside the runic utxos is netted
\* against the postage outputs with u64 arithmetic.
TxBalanced ==
    phase = "done" =>
        SumValue(heldRunic \cup heldPlain)
          - FoldLeft(LAMBDA acc, o : acc + o.value, 0, tx.outputs) - fee
          \in 0..DUST_THRESHOLD

\* The receiver's outputs carry exactly the requested amount of the
\* requested rune and no other rune; all other runes of the inputs stay
\* with the sender (spec 8.3, and the edict to output 2 of runestone.rs).
ReceiverGetsAmount ==
    phase = "done" =>
        ReceiverRunes(tx, rune, amount) = [y \in Runes |-> IF y = rune THEN amount ELSE 0]

\* The call fails with a BTC shortfall only if the sender's plain pool
\* cannot pay the fee and the postage the runic inputs do not already carry.
ShortOnlyWhenUnfunded ==
    (phase = "short" /\ tx.short = "btc") =>
        LET deficit == tx.required - SumValue(tx.runic) IN
        GetBitcoinBalance(initPlain) < fee + (IF deficit > 0 THEN deficit ELSE 0)

=============================================================================
