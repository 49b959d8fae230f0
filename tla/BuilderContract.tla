-------------------------- MODULE BuilderContract --------------------------
(***************************************************************************)
(* What transaction::transfer() promises its callers (spec 4.3), as one    *)
(* atomic step on the address's plain pool, with no loop and no fee        *)
(* iterations:                                                             *)
(*                                                                         *)
(*  - Ok: a transaction whose inputs come out of the pool, paying amount   *)
(*    to the receiver and a change above the dust limit or none, whose fee *)
(*    is exactly the fee of its own size at the requested rate ("final    *)
(*    when new_fee == fee ... not when it dominates"), and which pays that *)
(*    fee plus at most a dropped dust remainder;                           *)
(*  - Err: the pool is left as it was, and the shortfall descriptor names  *)
(*    more than the pool holds but no more than the amount plus the        *)
(*    largest fee a transaction from that pool can cost.                   *)
(*                                                                         *)
(* It says nothing about termination: that is FeeLoop's FeeLoopTerminates. *)
(***************************************************************************)
EXTENDS Transaction

VARIABLES
    pool,       \* the address's plain pool
    held,       \* the inputs of the returned transaction
    phase,      \* "loop" (called), "done" (Ok) or "short" (Err)
    outputs,    \* the output values of the returned transaction
    paid,       \* its fee
    shortfall,  \* the total_amount of Err(total_amount)
    amount,     \* the requested amount
    rate        \* fee_per_vbytes

vars == <<pool, held, phase, outputs, paid, shortfall, amount, rate>>

Init ==
    /\ pool \subseteq Utxos
    /\ held = {} /\ phase = "loop" /\ outputs = << >>
    /\ paid = 0 /\ shortfall = 0
    /\ amount \in Nat /\ rate \in Nat

\* The largest fee of a transaction drawing inputs from pool p.
MostFee(p) == (MockVsize(Cardinality(p), 2) * rate) \div 1000

Returns ==
    /\ phase = "loop" /\ phase' = "done"
    /\ held' # {} /\ held' \subseteq pool /\ pool' = pool \ held'
    /\ Len(outputs') \in {1, 2}
    /\ outputs'[1] = amount
    /\ Len(outputs') = 2 => outputs'[2] > DUST_THRESHOLD
    /\ paid' = FeeFor([inputs |-> held', outputs |-> outputs'], rate)
    /\ SumValue(held') - SumOutputs(outputs') - paid' \in 0 .. DUST_THRESHOLD
    /\ shortfall' = 0
    /\ UNCHANGED <<amount, rate>>

Fails ==
    /\ phase = "loop" /\ phase' = "short"
    /\ SumValue(pool) < shortfall'
    /\ shortfall' \in amount .. amount + MostFee(pool)
    /\ UNCHANGED <<pool, held, outputs, paid, amount, rate>>

Next == Returns \/ Fails

Spec == Init /\ [][Next]_vars

=============================================================================
