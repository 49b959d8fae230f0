----------------------------- MODULE Combined -----------------------------
(***************************************************************************)
(* The combined builder of src/wallet/src/bitcoin/combined_txn.rs (runes   *)
(* and bitcoin to one receiver, in one transaction) as pure operators, and *)
(* the Combined arm of build_and_submit (transaction_handler.rs 532-783)   *)
(* that re-assembles and signs it.                                         *)
(*                                                                         *)
(* The only caller, withdraw_combined, passes paid_by_sender = false and   *)
(* postage = None: the sender's plain pool pays btc_amount, the receiver's *)
(* plain pool pays the fee and whatever postage the runic inputs do not    *)
(* already carry.  The paid_by_sender = true branches are dead code and    *)
(* are not modelled.                                                       *)
(***************************************************************************)
EXTENDS Runestone, SequencesExt

\* Mutation of CombinedOutputs: the bitcoin output pushed before the rune
\* outputs.
CombinedOutputsBtcFirst(change, btcAmount, senderChange, remaining) ==
    << [to |-> "receiver", value |-> btcAmount] >>
    \o RuneOutputs(change)
    \o (IF senderChange > DUST_THRESHOLD
        THEN << [to |-> "sender", value |-> senderChange] >> ELSE << >>)
    \o (IF remaining > DUST_THRESHOLD
        THEN << [to |-> "receiver", value |-> remaining] >> ELSE << >>)

(***************************************************************************)
(* The outputs (combined_txn.rs 240-294): the rune outputs of the rune     *)
(* builder, btc_amount to the receiver, the sender's change, the           *)
(* receiver's change; a change at or below DUST_THRESHOLD is left out.     *)
(***************************************************************************)
CombinedOutputs(change, btcAmount, senderChange, remaining) ==
    RuneOutputs(change)
    \o << [to |-> "receiver", value |-> btcAmount] >>
    \o (IF senderChange > DUST_THRESHOLD
        THEN << [to |-> "sender", value |-> senderChange] >> ELSE << >>)
    \o (IF remaining > DUST_THRESHOLD
        THEN << [to |-> "receiver", value |-> remaining] >> ELSE << >>)

\* Mutation of BuildCombinedWithFee: the receiver's change leaves out the
\* postage deficit the receiver's inputs also pay.
BuildCombinedChangeIgnoresPostage(runicPool, senderPlain, receiverPlain, x, runeAmount, btcAmount, fee) ==
    LET R        == runicPool
        change   == RuneSum(R, x) > runeAmount \/ Cardinality(R) > 1
        required == IF change THEN 2 * DEFAULT_POSTAGE ELSE DEFAULT_POSTAGE
        actual   == U64Sub(required, SumValue(R))
        need     == U64Add(fee, actual)
    IN IF RuneSum(R, x) < runeAmount THEN {[NoRuneTx EXCEPT !.short = "rune"]}
       ELSE UNION
         { IF SumValue(B) < btcAmount THEN {[NoRuneTx EXCEPT !.short = "btc", !.runic = R]}
           ELSE { IF SumValue(F) < need
                  THEN [NoRuneTx EXCEPT !.short = "fee", !.required = required,
                                        !.runic = R, !.btc_utxos = B]
                  ELSE [ok |-> TRUE, short |-> "none", required |-> required,
                        runic |-> R, btc_utxos |-> B, fee_utxos |-> F,
                        outputs |-> CombinedOutputs(change, btcAmount, SumValue(B) - btcAmount,
                                                    U64Sub(SumValue(F), fee))]
                  : F \in TakeUntil(receiverPlain, need) }
           : B \in TakeUntil(senderPlain, btcAmount) }

(***************************************************************************)
(* build_transaction_with_fee(..., fee, false) (combined_txn.rs 97-239):   *)
(* the runic loop drains every runic utxo of the rune (no early break) and *)
(* gives them back if their balance is short; the sender's plain loop      *)
(* breaks once above btc_amount; the receiver's loop once above fee plus   *)
(* the postage deficit, computed in u64.  Each shortfall returns only the  *)
(* utxos of its own loop ("btc" drops the runic ones, "fee" the runic and  *)
(* the sender's); withdraw_combined then traps, which undoes all of it.    *)
(***************************************************************************)
BuildCombinedWithFee(runicPool, senderPlain, receiverPlain, x, runeAmount, btcAmount, fee) ==
    LET R        == runicPool
        change   == RuneSum(R, x) > runeAmount \/ Cardinality(R) > 1
        required == IF change THEN 2 * DEFAULT_POSTAGE ELSE DEFAULT_POSTAGE
        actual   == U64Sub(required, SumValue(R))
        need     == U64Add(fee, actual)
    IN IF RuneSum(R, x) < runeAmount THEN {[NoRuneTx EXCEPT !.short = "rune"]}
       ELSE UNION
         { IF SumValue(B) < btcAmount THEN {[NoRuneTx EXCEPT !.short = "btc", !.runic = R]}
           ELSE { IF SumValue(F) < need
                  THEN [NoRuneTx EXCEPT !.short = "fee", !.required = required,
                                        !.runic = R, !.btc_utxos = B]
                  ELSE [ok |-> TRUE, short |-> "none", required |-> required,
                        runic |-> R, btc_utxos |-> B, fee_utxos |-> F,
                        outputs |-> CombinedOutputs(change, btcAmount, SumValue(B) - btcAmount,
                                                    U64Sub(U64Sub(SumValue(F), fee), actual))]
                  : F \in TakeUntil(receiverPlain, need) }
           : B \in TakeUntil(senderPlain, btcAmount) }

\* The inputs in the order they are pushed (combined_txn.rs 184-225): the
\* runic utxos, the sender's bitcoin, the receiver's fee utxos.  Within a
\* set the manager's order is immaterial.
CombinedInputs(t) == SetToSeq(t.runic) \o SetToSeq(t.btc_utxos) \o SetToSeq(t.fee_utxos)

\* mock_signature(&txn).vsize() and (txn_vsize * fee_per_vbytes) / 1000.
CombinedFeeFor(t, x, runeAmount, feePerVbytes) ==
    ((10 + 148 * Len(CombinedInputs(t))
        + FoldLeft(LAMBDA acc, o : acc + OutputSize(o, x, runeAmount), 0, t.outputs))
     * feePerVbytes) \div 1000

(***************************************************************************)
(* transfer() (combined_txn.rs 33-95): the fee fixed point from total_fee  *)
(* = fee.  A retry records the three sets back into the pools they came   *)
(* from, so every pass sees the same pools; an Err leaves the loop with    *)
(* `?`; fuel bounds the passes before the instruction limit traps.         *)
(***************************************************************************)
CombinedOutcome(kind, f, t) == [kind |-> kind, fee |-> f, tx |-> t]

RECURSIVE CombinedTransferLoop(_, _, _, _, _, _, _, _, _)
CombinedTransferLoop(runicPool, senderPlain, receiverPlain, x, runeAmount, btcAmount, feePerVbytes, fee, fuel) ==
    IF fuel = 0 THEN {CombinedOutcome("trap", fee, NoRuneTx)}
    ELSE UNION
      { IF ~t.ok THEN {CombinedOutcome("err", fee, t)}
        ELSE IF CombinedFeeFor(t, x, runeAmount, feePerVbytes) = fee
        THEN {CombinedOutcome("ok", fee, t)}
        ELSE CombinedTransferLoop(runicPool, senderPlain, receiverPlain, x, runeAmount,
                                  btcAmount, feePerVbytes,
                                  CombinedFeeFor(t, x, runeAmount, feePerVbytes), fuel - 1)
        : t \in BuildCombinedWithFee(runicPool, senderPlain, receiverPlain, x,
                                     runeAmount, btcAmount, fee) }

(***************************************************************************)
(* The Combined arm of build_and_submit                                    *)
(***************************************************************************)

\* Mutation of CombinedReceiverIndices: the index is taken after the push.
CombinedReceiverIndicesAfterPush(t) ==
    {Cardinality(t.runic) + Cardinality(t.btc_utxos) + k + 1 :
        k \in 0 .. Cardinality(t.fee_utxos) - 1}

\* index_of_utxos_receiver (transaction_handler.rs 594-612): the 0-based
\* positions at which the fee utxos are pushed, which the receiver's key
\* signs; every other input is signed with the sender's key (724-772).
CombinedReceiverIndices(t) ==
    {Cardinality(t.runic) + Cardinality(t.btc_utxos) + k :
        k \in 0 .. Cardinality(t.fee_utxos) - 1}

\* The signing loop (transaction_handler.rs 714-772): the input at 0-based
\* position p is signed with the receiver's path and public key if p is in
\* index_of_utxos_receiver, and with the sender's otherwise.
CombinedSigner(sender, receiver, t, p) == IF p \in CombinedReceiverIndices(t) THEN receiver ELSE sender

\* The signer's own copy of the output code (transaction_handler.rs
\* 549-691), from the utxos, amounts and fee the builder returned.
ReassembleCombined(t, x, runeAmount, btcAmount, fee) ==
    LET change    == RuneSum(t.runic, x) > runeAmount \/ Cardinality(t.runic) > 1
        required  == IF change THEN 2 * DEFAULT_POSTAGE ELSE DEFAULT_POSTAGE
        actual    == U64Sub(required, SumValue(t.runic))
        senderBtc == U64Sub(SumValue(t.btc_utxos), btcAmount)
        remaining == U64Sub(U64Sub(SumValue(t.fee_utxos), fee), actual)
        postages  == IF change
                     THEN << [to |-> "opreturn", value |-> 0],
                             [to |-> "sender", value |-> DEFAULT_POSTAGE],
                             [to |-> "receiver", value |-> DEFAULT_POSTAGE] >>
                     ELSE << [to |-> "receiver", value |-> DEFAULT_POSTAGE] >>
    IN postages \o << [to |-> "receiver", value |-> btcAmount] >>
       \o (IF senderBtc > DUST_THRESHOLD
           THEN << [to |-> "sender", value |-> senderBtc] >> ELSE << >>)
       \o (IF remaining > DUST_THRESHOLD
           THEN << [to |-> "receiver", value |-> remaining] >> ELSE << >>)

=============================================================================
