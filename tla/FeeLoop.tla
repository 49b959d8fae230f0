------------------------------ MODULE FeeLoop ------------------------------
(***************************************************************************)
(* The fee fixed-point loop of transaction::transfer() (transaction.rs),   *)
(* one loop iteration per step, for one plain-bitcoin withdrawal from one  *)
(* address.  Each step is a whole iteration: build_transaction_with_fee    *)
(* (borrow utxos, assemble outputs), mock-sign and measure, then either    *)
(* return the transaction or give the utxos back and retry with the new    *)
(* fee.                                                                    *)
(***************************************************************************)
EXTENDS Transaction

CONSTANTS
    Amounts,        \* requested withdrawal amounts (sats)
    FeeRates,       \* fee_per_vbytes values (millisat per vbyte)
    InitialPools    \* the pools of the address the loop may start from

VARIABLES
    pool,           \* the address's plain pool in the manager
    held,           \* utxos borrowed by the returned transaction
    fee,            \* total_fee of the current iteration
    tx,             \* the transaction returned by transfer()
    phase,          \* "loop", "done" (Ok) or "short" (Err)
    amount,         \* the request's amount
    feePerVbytes,   \* the request's fee rate
    initialPool     \* ghost: the pool when transfer() was called

MaxOf(S) == CHOOSE m \in S : \A x \in S : x <= m

vars == <<pool, held, fee, tx, phase, amount, feePerVbytes, initialPool>>

\* The largest fee a transaction from these outputs can measure: every
\* output an input, a change output, the highest fee rate.
MaxFee == (MockVsize(Cardinality(Utxos), 2) * MaxOf(FeeRates)) \div 1000

TypeOK ==
    /\ pool \subseteq Utxos /\ held \subseteq Utxos
    /\ fee \in 0..MaxFee
    /\ phase \in {"loop", "done", "short"}
    /\ amount \in Amounts /\ feePerVbytes \in FeeRates
    /\ initialPool \in InitialPools

Init ==
    /\ amount \in Amounts
    /\ feePerVbytes \in FeeRates
    /\ pool \in InitialPools
    /\ initialPool = pool
    /\ held = {} /\ fee = 0 /\ tx = NoTx
    /\ phase = "loop"

\* The pool could not cover amount + fee: build_transaction_with_fee gives
\* the utxos it took back and transfer() returns Err(total_amount).
BuildShort ==
    /\ phase = "loop"
    /\ \E t \in BuildTransactionWithFee(pool, amount, fee) :
          ~t.ok /\ tx' = t
    /\ phase' = "short"
    /\ UNCHANGED <<pool, held, fee, amount, feePerVbytes, initialPool>>

\* Mutation of BuildConverged: the transaction is accepted once the fee it
\* was built with covers the measured one.
BuildConvergedFeeCovers ==
    /\ phase = "loop"
    /\ \E t \in BuildTransactionWithFee(pool, amount, fee) :
          /\ t.ok
          /\ FeeFor(t, feePerVbytes) <= fee
          /\ pool' = pool \ t.inputs
          /\ held' = t.inputs
          /\ tx' = t
    /\ phase' = "done"
    /\ UNCHANGED <<fee, amount, feePerVbytes, initialPool>>

\* The mock-signed size gives back the fee the transaction was built for:
\* transfer() returns Ok(TransactionType::Bitcoin) holding the inputs.
BuildConverged ==
    /\ phase = "loop"
    /\ \E t \in BuildTransactionWithFee(pool, amount, fee) :
          /\ t.ok
          /\ FeeFor(t, feePerVbytes) = fee
          /\ pool' = pool \ t.inputs
          /\ held' = t.inputs
          /\ tx' = t
    /\ phase' = "done"
    /\ UNCHANGED <<fee, amount, feePerVbytes, initialPool>>

\* Mutation of BuildRetry: the retry forgets to give the borrowed utxos back.
BuildRetryNoReturn ==
    /\ phase = "loop"
    /\ \E t \in BuildTransactionWithFee(pool, amount, fee) :
          /\ t.ok
          /\ FeeFor(t, feePerVbytes) # fee
          /\ pool' = pool \ t.inputs
          /\ fee' = FeeFor(t, feePerVbytes)
    /\ UNCHANGED <<held, tx, phase, amount, feePerVbytes, initialPool>>

\* Mutation of BuildRetry: the fee is accumulated ("total_fee +=") rather
\* than replaced by the measured fee.
BuildRetryAccumulates ==
    /\ phase = "loop"
    /\ \E t \in BuildTransactionWithFee(pool, amount, fee) :
          /\ t.ok
          /\ FeeFor(t, feePerVbytes) # fee
          /\ pool' = RecordBtcUtxos(pool \ t.inputs, t.inputs)
          /\ fee' = fee + FeeFor(t, feePerVbytes)
    /\ UNCHANGED <<held, tx, phase, amount, feePerVbytes, initialPool>>

\* The fee differs: write_utxo_manager(record_btc_utxos(addr, utxos)) gives
\* the borrowed utxos back and total_fee becomes the measured fee.
BuildRetry ==
    /\ phase = "loop"
    /\ \E t \in BuildTransactionWithFee(pool, amount, fee) :
          /\ t.ok
          /\ FeeFor(t, feePerVbytes) # fee
          /\ pool' = RecordBtcUtxos(pool \ t.inputs, t.inputs)
          /\ fee' = FeeFor(t, feePerVbytes)
    /\ UNCHANGED <<held, tx, phase, amount, feePerVbytes, initialPool>>

Next == BuildShort \/ BuildConverged \/ BuildRetry

\* transfer() runs without an await, so once called the canister keeps
\* executing it: every enabled iteration is eventually taken.
Spec == Init /\ [][Next]_vars /\ WF_vars(Next)

-----------------------------------------------------------------------------
(* Properties *)

\* Borrowing and returning never loses or duplicates an output: at every
\* iteration of transfer() each utxo the address started with is either back
\* in the pool or held by the returned transaction, never both.
PoolConservation ==
    /\ pool \cap held = {}
    /\ pool \cup held = initialPool

\* A returned transaction pays exactly its outputs plus the converged fee,
\* except that a change remainder at or below DUST_THRESHOLD that the
\* builder dropped also goes to the miners (build_transaction_with_fee).
TxBalanced ==
    phase = "done" =>
        LET absorbed == SumValue(held) - SumOutputs(tx.outputs) - fee
        IN  absorbed \in 0..DUST_THRESHOLD

\* The loop, seen from its caller, keeps the contract of transfer() (spec
\* 4.3, module BuilderContract): the retries are invisible (each gives its
\* utxos back), an Ok transaction pays exactly the fee of its own size, and
\* an Err leaves the pool as it was with a shortfall above the balance.
Contract == INSTANCE BuilderContract
    WITH outputs   <- tx.outputs,
         paid      <- IF phase = "done" THEN fee ELSE 0,
         shortfall <- IF phase = "short" THEN tx.required ELSE 0,
         rate      <- feePerVbytes

ImplementsContract == Contract!Spec

\* Spec 4.3: "Convergence is guaranteed": every call of transfer()
\* eventually returns Ok or Err.
FeeLoopTerminates == <>(phase \in {"done", "short"})

=============================================================================
