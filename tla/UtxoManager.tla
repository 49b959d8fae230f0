---------------------------- MODULE UtxoManager ----------------------------
(***************************************************************************)
(* The UTXO manager of the wallet canister (state::UtxoManager).  Its      *)
(* source is not among the repository files at hand, so its operations are *)
(* modelled from spec section 4.2: a pool of plain-bitcoin outputs per      *)
(* address from which the builders borrow outputs one at a time, and into  *)
(* which they return them.                                                 *)
(*                                                                         *)
(* A utxo is a model value; its satoshi value is the constant function     *)
(* Value.  The pool of one address is a set of utxos: insertion            *)
(* deduplicates on the outpoint, and take returns "any one" utxo, with no  *)
(* ordering guarantee.                                                     *)
(***************************************************************************)
EXTENDS Naturals, FiniteSets, FiniteSetsExt

CONSTANTS
    Utxos,      \* the outpoints that exist for the modelled address(es)
    Value       \* Value[u]: the satoshis held by outpoint u

ASSUME Value \in [Utxos -> Nat \ {0}]

\* Sum of the values of a set of utxos, tabulated once over every set of
\* utxos (a constant TLC evaluates a single time).
SumTable == [S \in SUBSET Utxos |-> MapThenSumSet(LAMBDA u : Value[u], S)]
SumValue(S) == SumTable[S]

\* get_bitcoin_balance(addr): the sum of the values in the address's pool.
GetBitcoinBalance(pool) == SumValue(pool)

\* record_btc_utxos(addr, utxos): bulk insert, deduplicated on the outpoint.
RecordBtcUtxos(pool, S) == pool \cup S

(***************************************************************************)
(* The builders' selection loop                                            *)
(*                                                                         *)
(*   while let Some(utxo) = manager.get_bitcoin_utxo(addr) {               *)
(*       sum += utxo.value; utxos.push(utxo);                              *)
(*       if sum > total_amount { break; }                                  *)
(*   }                                                                     *)
(*                                                                         *)
(* takes utxos in an order the manager chooses.  A set S can be the result *)
(* iff S is the whole pool or S overshoots the target, and some element of *)
(* S can have been taken last: the sum before it was still at most the     *)
(* target (weights are positive, so then every earlier prefix was too).    *)
(* The weight w is the value (plain loop) or the rune balance (runic loop).*)
(***************************************************************************)
TakeUntilBy(pool, target, w) ==
    LET SumW(S) == MapThenSumSet(LAMBDA u : w[u], S) IN
    IF pool = {} THEN {{}}
    ELSE { S \in SUBSET pool \ {{}} :
             /\ S = pool \/ SumW(S) > target
             /\ \E last \in S : SumW(S \ {last}) <= target }

\* The plain-bitcoin loop weighs each utxo by its value.
TakeUntil(pool, target) == TakeUntilBy(pool, target, Value)

(***************************************************************************)
(* The two-sender loop of multi_sender_txn.rs breaks as soon as the sum    *)
(* reaches the target (>=).  The test follows each push, so the first      *)
(* utxo is taken even for a target of 0.                                   *)
(***************************************************************************)
TakeUntilAtLeast(pool, target) ==
    IF pool = {} THEN {{}}
    ELSE { S \in SUBSET pool \ {{}} :
             /\ S = pool \/ SumValue(S) >= target
             /\ \E last \in S : S = {last} \/ SumValue(S \ {last}) < target }

=============================================================================
