---------------------------- MODULE MultiSender ----------------------------
(***************************************************************************)
(* The two-sender builder of src/wallet/src/bitcoin/multi_sender_txn.rs as *)
(* pure operators, and the re-assembly of its transaction at signing time  *)
(* (the LegoBitcoin arm of transaction_handler.rs).                       *)
(*                                                                         *)
(* The manager's pools are a function P from addresses to sets of utxos.  *)
(* The two senders a0 and a1 may be one address (a caller naming itself as *)
(* principal0); the second loop then draws from what the first left.     *)
(* An output is a record: the address it pays (or "receiver") and its     *)
(* value.  Every caller passes paid_by_sender = true.                     *)
(***************************************************************************)
EXTENDS Transaction

\* lib.rs 151-160: the extra satoshi of an odd amount goes to principal0.
SplitAmount(amount) ==
    IF amount % 2 = 0 THEN <<amount \div 2, amount \div 2>>
    ELSE <<(amount - 1) \div 2 + 1, (amount - 1) \div 2>>

\* The extra satoshi of an odd fee goes to the caller (addr1).
SplitFee(fee) ==
    IF fee % 2 = 0 THEN <<fee \div 2, fee \div 2>>
    ELSE <<(fee - 1) \div 2, (fee - 1) \div 2 + 1>>

\* The manager's pools after the two loops took S0 from a0 and S1 from a1,
\* and after record_btc_utxos gave them back.
Share(a, a0, a1, S0, S1) == (IF a = a0 THEN S0 ELSE {}) \cup (IF a = a1 THEN S1 ELSE {})
TakeBoth(P, a0, a1, S0, S1) == [a \in DOMAIN P |-> P[a] \ Share(a, a0, a1, S0, S1)]
ReturnBoth(P, a0, a1, S0, S1) ==
    [a \in DOMAIN P |-> RecordBtcUtxos(P[a], Share(a, a0, a1, S0, S1))]

\* The receiver's output and each sender's change above the dust limit.
MultiOutputs(a0, a1, amount0, amount1, remaining0, remaining1) ==
    << [to |-> "receiver", value |-> amount0 + amount1] >>
    \o (IF remaining0 > DUST_THRESHOLD THEN << [to |-> a0, value |-> remaining0] >> ELSE << >>)
    \o (IF remaining1 > DUST_THRESHOLD THEN << [to |-> a1, value |-> remaining1] >> ELSE << >>)

NoMultiTx == [ok |-> FALSE, required |-> <<0, 0>>, utxos0 |-> {}, utxos1 |-> {},
              outputs |-> << >>]

(***************************************************************************)
(* build_transaction_with_fee: the passes the manager's take orders allow. *)
(* If either sender falls short, both loops' utxos go back and the call    *)
(* fails with Err((total_amount0, total_amount1)).                         *)
(***************************************************************************)
\* Mutation of BuildMultiWithFee: each sender's change is computed from its
\* half of the amount alone, so the fee share stays in the change.
BuildMultiChangeIgnoresFee(P, a0, a1, amount0, amount1, fee) ==
    LET t0 == amount0 + SplitFee(fee)[1]
        t1 == amount1 + SplitFee(fee)[2]
    IN UNION
       { { IF SumValue(S0) < t0 \/ SumValue(S1) < t1
           THEN [NoMultiTx EXCEPT !.required = <<t0, t1>>]
           ELSE [ok |-> TRUE, required |-> <<t0, t1>>, utxos0 |-> S0, utxos1 |-> S1,
                 outputs |-> MultiOutputs(a0, a1, amount0, amount1,
                                          SumValue(S0) - amount0, SumValue(S1) - amount1)]
           : S1 \in TakeUntilAtLeast(TakeBoth(P, a0, a1, S0, {})[a1], t1) }
         : S0 \in TakeUntilAtLeast(P[a0], t0) }

BuildMultiWithFee(P, a0, a1, amount0, amount1, fee) ==
    LET t0 == amount0 + SplitFee(fee)[1]
        t1 == amount1 + SplitFee(fee)[2]
    IN UNION
       { { IF SumValue(S0) < t0 \/ SumValue(S1) < t1
           THEN [NoMultiTx EXCEPT !.required = <<t0, t1>>]
           ELSE [ok |-> TRUE, required |-> <<t0, t1>>, utxos0 |-> S0, utxos1 |-> S1,
                 outputs |-> MultiOutputs(a0, a1, amount0, amount1,
                                          SumValue(S0) - t0, SumValue(S1) - t1)]
           : S1 \in TakeUntilAtLeast(TakeBoth(P, a0, a1, S0, {})[a1], t1) }
         : S0 \in TakeUntilAtLeast(P[a0], t0) }

MultiFeeFor(tx, feePerVbytes) ==
    (MockVsize(Cardinality(tx.utxos0 \cup tx.utxos1), Len(tx.outputs)) * feePerVbytes)
        \div 1000

MultiOutcome(kind, f, t, P) == [kind |-> kind, fee |-> f, tx |-> t, pools |-> P]

(***************************************************************************)
(* transfer() (multi_sender_txn.rs 27-81): the fee fixed-point loop, with  *)
(* fuel standing for the instruction limit as in Transaction.             *)
(***************************************************************************)
RECURSIVE MultiTransferLoop(_, _, _, _, _, _, _, _)
MultiTransferLoop(P, a0, a1, amount0, amount1, feePerVbytes, fee, fuel) ==
    IF fuel = 0 THEN {MultiOutcome("trap", fee, NoMultiTx, P)}
    ELSE UNION
      { IF ~tx.ok THEN {MultiOutcome("err", fee, tx, P)}
        ELSE IF MultiFeeFor(tx, feePerVbytes) = fee
        THEN {MultiOutcome("ok", fee, tx, TakeBoth(P, a0, a1, tx.utxos0, tx.utxos1))}
        ELSE MultiTransferLoop(
                 ReturnBoth(TakeBoth(P, a0, a1, tx.utxos0, tx.utxos1),
                            a0, a1, tx.utxos0, tx.utxos1),
                 a0, a1, amount0, amount1, feePerVbytes,
                 MultiFeeFor(tx, feePerVbytes), fuel - 1)
        : tx \in BuildMultiWithFee(P, a0, a1, amount0, amount1, fee) }

(***************************************************************************)
(* transaction_handler.rs 153-234: at signing time the outputs are built   *)
(* again from the utxos, the amounts and the fee the builder returned.     *)
(***************************************************************************)
\* Mutation of LegoOutputs: the signer splits an odd fee the other way
\* round from the builder (the extra satoshi charged to principal0).
LegoOutputsFeeSplitSwapped(a0, a1, utxos0, utxos1, amount0, amount1, fee) ==
    LET half   == IF fee % 2 = 0 THEN fee \div 2 ELSE (fee - 1) \div 2
        fee0   == IF fee % 2 = 0 THEN half ELSE half + 1
        fee1   == IF fee % 2 = 0 THEN half ELSE half
        rem0   == SumValue(utxos0) - (amount0 + fee0)
        rem1   == SumValue(utxos1) - (amount1 + fee1)
    IN  << [to |-> "receiver", value |-> amount0 + amount1] >>
        \o (IF rem0 > DUST_THRESHOLD THEN << [to |-> a0, value |-> rem0] >> ELSE << >>)
        \o (IF rem1 > DUST_THRESHOLD THEN << [to |-> a1, value |-> rem1] >> ELSE << >>)

\* The LegoBitcoin arm's own outputs (194-234), with paid_by_sender = true:
\* the receiver gets amount0 + amount1; the fee is halved, the extra
\* satoshi of an odd fee going to address1 (fee1 = fee_in_half + 1); each
\* sender's remaining = total_spent - (amount + its fee share) is pushed
\* when above DUST_THRESHOLD, address0's first.
LegoOutputs(a0, a1, utxos0, utxos1, amount0, amount1, fee) ==
    LET half   == IF fee % 2 = 0 THEN fee \div 2 ELSE (fee - 1) \div 2
        fee0   == IF fee % 2 = 0 THEN half ELSE half
        fee1   == IF fee % 2 = 0 THEN half ELSE half + 1
        rem0   == SumValue(utxos0) - (amount0 + fee0)
        rem1   == SumValue(utxos1) - (amount1 + fee1)
    IN  << [to |-> "receiver", value |-> amount0 + amount1] >>
        \o (IF rem0 > DUST_THRESHOLD THEN << [to |-> a0, value |-> rem0] >> ELSE << >>)
        \o (IF rem1 > DUST_THRESHOLD THEN << [to |-> a1, value |-> rem1] >> ELSE << >>)

\* The inputs (transaction_handler.rs 153-191): principal0's utxos, then the
\* caller's; within a set the manager's order is immaterial.
LegoInputs(utxos0, utxos1) == SetToSeq(utxos0) \o SetToSeq(utxos1)

\* Mutation of LegoAddr0Indices: the index is taken after the insert.
LegoAddr0IndicesAfterInsert(utxos0) == 1 .. Cardinality(utxos0)

\* index_of_utxos_of_addr0 (159-174): input.len() before each of
\* principal0's utxos is inserted, so the 0-based positions 0 .. n0 - 1.
LegoAddr0Indices(utxos0) == 0 .. Cardinality(utxos0) - 1

\* The signing loop (244-306): the input at 0-based position p is signed
\* with address0's key (path0, pubkey0) if p is in
\* index_of_utxos_of_addr0, and with address1's otherwise.
LegoSigner(a0, a1, utxos0, p) == IF p \in LegoAddr0Indices(utxos0) THEN a0 ELSE a1

=============================================================================
