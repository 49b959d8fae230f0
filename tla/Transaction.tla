---------------------------- MODULE Transaction ----------------------------
(***************************************************************************)
(* The plain-bitcoin builder of src/wallet/src/bitcoin/transaction.rs as   *)
(* pure operators: one pass of build_transaction_with_fee, the virtual     *)
(* size of the mock-signed transaction, and the whole fee fixed-point loop *)
(* of transfer().  Callers in lib.rs always pass paid_by_sender = true.    *)
(*                                                                         *)
(* A built transaction is a record: ok (FALSE when the pool fell short),   *)
(* required (the total the builder asked for), inputs (the set of utxos    *)
(* borrowed) and outputs (the sequence of output values: receiver first,   *)
(* then the change back to the sender when it is above the dust limit).    *)
(***************************************************************************)
EXTENDS UtxoManager, Sequences, SequencesExt

DUST_THRESHOLD == 1000

\* Sum of a sequence of output values.
SumOutputs(outs) == FoldSeq(+, 0, outs)

(***************************************************************************)
(* mock_signature fills every scriptSig with a 72-byte signature and a     *)
(* 33-byte key, so a P2PKH input is 148 bytes and an output 34; version,   *)
(* the two counts and the lock time add 10.  A legacy transaction has no   *)
(* witness, so vsize() is its size.                                        *)
(***************************************************************************)
MockVsize(nIn, nOut) == 10 + 148 * nIn + 34 * nOut

\* (txn_vsize * fee_per_vbytes) / 1000, fee_per_vbytes in millisat/vbyte.
FeeFor(tx, feePerVbytes) ==
    (MockVsize(Cardinality(tx.inputs), Len(tx.outputs)) * feePerVbytes) \div 1000

NoTx == [ok |-> FALSE, required |-> 0, inputs |-> {}, outputs |-> <<>>]

\* Mutation of BuildTransactionWithFee: the change is computed from the
\* amount alone, forgetting that the fee is paid out of the same inputs.
BuildTransactionChangeIgnoresFee(pool, amount, fee) ==
    LET total == amount + fee IN
    { LET remaining == SumValue(S) - amount IN
      IF SumValue(S) < total
      THEN [NoTx EXCEPT !.required = total]
      ELSE [ok       |-> TRUE,
            required |-> total,
            inputs   |-> S,
            outputs  |-> <<amount>> \o
                         (IF remaining > DUST_THRESHOLD THEN <<remaining>> ELSE <<>>)]
      : S \in TakeUntil(pool, total) }

(***************************************************************************)
(* build_transaction_with_fee(addr, from, to, amount, fee, true): the set  *)
(* of transactions it can build from pool (one per order in which the      *)
(* manager hands out utxos).  A short pool is returned to the manager and  *)
(* reported as Err(total_amount).                                          *)
(***************************************************************************)
BuildTransactionWithFee(pool, amount, fee) ==
    LET total == amount + fee IN
    { LET remaining == SumValue(S) - total IN
      IF SumValue(S) < total
      THEN [NoTx EXCEPT !.required = total]
      ELSE [ok       |-> TRUE,
            required |-> total,
            inputs   |-> S,
            outputs  |-> <<amount>> \o
                         (IF remaining > DUST_THRESHOLD THEN <<remaining>> ELSE <<>>)]
      : S \in TakeUntil(pool, total) }

(***************************************************************************)
(* transfer(): start with fee 0; build; if the fee of the mock-signed      *)
(* transaction equals the fee it was built for, return it, else return the *)
(* borrowed utxos and rebuild with the new fee.  The loop has no await, so *)
(* it runs inside one message execution: if it never reaches a fixed      *)
(* point the canister exhausts its instruction limit and traps, which     *)
(* rolls back every take and return of the loop.  The fuel stands for that *)
(* limit.  An outcome is "ok" (tx, fee), "err" (tx.required) or "trap",    *)
(* with the manager's pool as transfer() leaves it.                       *)
(***************************************************************************)
Outcome(kind, f, t, p) == [kind |-> kind, fee |-> f, tx |-> t, pool |-> p]

\* Mutation of TransferLoop: a retry does not give the borrowed utxos back.
RECURSIVE TransferLoopNoReturn(_, _, _, _, _)
TransferLoopNoReturn(pool, amount, feePerVbytes, fee, fuel) ==
    IF fuel = 0 THEN {Outcome("trap", fee, NoTx, pool)}
    ELSE UNION
      { IF ~tx.ok THEN {Outcome("err", fee, tx, pool)}
        ELSE IF FeeFor(tx, feePerVbytes) = fee
             THEN {Outcome("ok", fee, tx, pool \ tx.inputs)}
             ELSE TransferLoopNoReturn(pool \ tx.inputs,
                               amount, feePerVbytes, FeeFor(tx, feePerVbytes), fuel - 1)
        : tx \in BuildTransactionWithFee(pool, amount, fee) }

RECURSIVE TransferLoop(_, _, _, _, _)
TransferLoop(pool, amount, feePerVbytes, fee, fuel) ==
    IF fuel = 0 THEN {Outcome("trap", fee, NoTx, pool)}
    ELSE UNION
      { IF ~tx.ok THEN {Outcome("err", fee, tx, pool)}
        ELSE IF FeeFor(tx, feePerVbytes) = fee
             THEN {Outcome("ok", fee, tx, pool \ tx.inputs)}
             ELSE TransferLoop(RecordBtcUtxos(pool \ tx.inputs, tx.inputs),
                               amount, feePerVbytes, FeeFor(tx, feePerVbytes), fuel - 1)
        : tx \in BuildTransactionWithFee(pool, amount, fee) }

=============================================================================
