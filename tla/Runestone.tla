----------------------------- MODULE Runestone -----------------------------
(***************************************************************************)
(* The rune builder of src/wallet/src/bitcoin/runestone.rs as pure         *)
(* operators: one pass of build_transaction_with_fee, the virtual size of  *)
(* its mock-signed transaction, and where the Runes protocol puts the      *)
(* runes of its inputs.                                                    *)
(*                                                                         *)
(* A utxo carries the runes RuneBal[u] (zero for a rune it does not hold). *)
(* The manager keeps one runic entry per (utxo, rune) pair (spec 3), so    *)
(* the runic pool of rune x holds every deposited utxo with a balance of   *)
(* x; plain utxos carry no rune.  Arithmetic on u64 wraps modulo           *)
(* 2^WordBits: a release build does not check overflow, and WordBits is    *)
(* chosen so that every genuine sum of the model stays below the word.     *)
(***************************************************************************)
EXTENDS Transaction

CONSTANTS
    Runes,      \* the rune ids
    RuneBal,    \* RuneBal[u][x]: the balance of rune x carried by utxo u
    RuneIdOf,   \* RuneIdOf[x]: the (block, tx) pair of rune id x
    WordBits    \* the width standing for u64

ASSUME /\ RuneBal \in [Utxos -> [Runes -> Nat]]
       /\ RuneIdOf \in [Runes -> Nat \X Nat]
       /\ WordBits \in Nat \ {0}

DEFAULT_POSTAGE == 10000

Word == 2^WordBits

\* u64 `a - b` and `a + b` of a release build.
U64Sub(a, b) == (a - b) % Word
U64Add(a, b) == (a + b) % Word

\* The pools the synchronizer fills from a set D of deposited utxos.
PlainPool(D) == {u \in D : \A x \in Runes : RuneBal[u][x] = 0}
RunicPool(D, x) == {u \in D : RuneBal[u][x] > 0}

\* Balance of rune x carried by a set of utxos: get_runestone_balance.
RuneSum(S, x) == MapThenSumSet(LAMBDA u : RuneBal[u][x], S)

\* LEB128 length of an integer, as the Runestone varints are written.
RECURSIVE VarintLen(_)
VarintLen(n) == IF n < 128 THEN 1 ELSE 1 + VarintLen(n \div 128)

(***************************************************************************)
(* Runestone { edicts: [Edict { id, amount, output: 2 }] }.encipher():     *)
(* OP_RETURN, OP_13 and one push of the payload Tag::Body, block, tx,      *)
(* amount, 2.  As an output: 8 value bytes, one length byte, the script.   *)
(***************************************************************************)
OpReturnSize(x, amount) ==
    8 + 1 + 3 + VarintLen(0) + VarintLen(RuneIdOf[x][1])
      + VarintLen(RuneIdOf[x][2]) + VarintLen(amount) + VarintLen(2)

\* An output is a record: who it pays ("opreturn", "sender", "receiver") and
\* its value.  A P2PKH output is 34 bytes.
OutputSize(o, x, amount) ==
    IF o.to = "opreturn" THEN OpReturnSize(x, amount) ELSE 34

\* mock_signature(&txn).vsize(): every input is a 148-byte P2PKH spend.
RuneMockVsize(tx, x, amount) ==
    10 + 148 * Cardinality(tx.runic \cup tx.fee_utxos)
       + FoldLeft(LAMBDA acc, o : acc + OutputSize(o, x, amount), 0, tx.outputs)

\* (txn_vsize * fee_per_vbytes) / 1000
RuneFeeFor(tx, x, amount, feePerVbytes) ==
    (RuneMockVsize(tx, x, amount) * feePerVbytes) \div 1000

\* A failed pass: short names the loop that fell short ("rune" or "btc");
\* runic is what the runic loop had taken; required the postage it asked.
\* btc_utxos, the sender's bitcoin inputs of a combined transaction, is
\* empty for a rune transfer.
NoRuneTx == [ok |-> FALSE, short |-> "none", required |-> 0,
             runic |-> {}, btc_utxos |-> {}, fee_utxos |-> {}, outputs |-> <<>>]

\* Mutation of RuneOutputs: the sender's rune-change postage is left out.
RuneOutputsNoSenderPostage(change) ==
    IF change
    THEN << [to |-> "opreturn", value |-> 0],
            [to |-> "receiver", value |-> DEFAULT_POSTAGE] >>
    ELSE << [to |-> "receiver", value |-> DEFAULT_POSTAGE] >>

\* Mutation of RuneOutputs: the two postage outputs in the other order.
RuneOutputsSwapped(change) ==
    IF change
    THEN << [to |-> "opreturn", value |-> 0],
            [to |-> "receiver", value |-> DEFAULT_POSTAGE],
            [to |-> "sender", value |-> DEFAULT_POSTAGE] >>
    ELSE << [to |-> "receiver", value |-> DEFAULT_POSTAGE] >>

\* The outputs before the change: the runestone, the sender's rune change
\* and the receiver's postage, or the receiver's postage alone.
RuneOutputs(change) ==
    IF change
    THEN << [to |-> "opreturn", value |-> 0],
            [to |-> "sender", value |-> DEFAULT_POSTAGE],
            [to |-> "receiver", value |-> DEFAULT_POSTAGE] >>
    ELSE << [to |-> "receiver", value |-> DEFAULT_POSTAGE] >>

(***************************************************************************)
(* build_transaction_with_fee(runeid, amount, ..., fee, true, postage):    *)
(* the set of passes the manager's take orders allow.  Every caller in     *)
(* lib.rs passes paid_by_sender = true, so the fee payer is the sender.    *)
(* The BTC shortfall returns the fee utxos to the manager and propagates   *)
(* Err((0, fee)) with `?`, dropping the runic utxos already taken.         *)
(***************************************************************************)
BuildRuneTransactionWithFee(runicPool, plain, x, amount, fee) ==
    UNION
    { IF RuneSum(R, x) < amount
      THEN {[NoRuneTx EXCEPT !.short = "rune"]}
      ELSE LET change   == RuneSum(R, x) > amount \/ Cardinality(R) > 1
               required == IF change THEN 2 * DEFAULT_POSTAGE ELSE DEFAULT_POSTAGE
               actual   == U64Sub(required, SumValue(R))
               need     == U64Add(fee, actual)
           IN { IF SumValue(F) < need
                THEN [NoRuneTx EXCEPT !.short = "btc", !.required = required,
                                      !.runic = R]
                ELSE LET remaining == U64Sub(U64Sub(SumValue(F), fee), actual) IN
                     [ok |-> TRUE, short |-> "none", required |-> required,
                      runic |-> R, btc_utxos |-> {}, fee_utxos |-> F,
                      outputs |-> RuneOutputs(change) \o
                                  (IF remaining > DUST_THRESHOLD
                                   THEN << [to |-> "sender", value |-> remaining] >>
                                   ELSE << >>)]
                : F \in TakeUntil(plain, need) }
      : R \in TakeUntilBy(runicPool, amount, [u \in Utxos |-> RuneBal[u][x]]) }

(***************************************************************************)
(* transfer() (runestone.rs 33-94) as a whole: the outcomes of the fee     *)
(* fixed-point loop from total_fee = fee on the sender's pools.  Each      *)
(* outcome records the fee of its last pass and the pools it leaves: "ok"  *)
(* without the borrowed utxos, "err" after the shortfall (the runic utxos  *)
(* gone when the bitcoin loop fell short), "trap" when the loop has not    *)
(* converged within fuel passes (the instruction limit).                   *)
(***************************************************************************)
RuneOutcome(kind, f, t, pl, ru) ==
    [kind |-> kind, fee |-> f, tx |-> t, plain |-> pl, runic |-> ru]

RECURSIVE RuneTransferLoop(_, _, _, _, _, _, _)
RuneTransferLoop(plain, runicPool, x, amount, feePerVbytes, fee, fuel) ==
    IF fuel = 0 THEN {RuneOutcome("trap", fee, NoRuneTx, plain, runicPool)}
    ELSE UNION
      { IF t.short = "rune" THEN {RuneOutcome("err", fee, t, plain, runicPool)}
        ELSE IF t.short = "btc"
        THEN {RuneOutcome("err", fee, t, plain, runicPool \ t.runic)}
        ELSE IF RuneFeeFor(t, x, amount, feePerVbytes) = fee
        THEN {RuneOutcome("ok", fee, t, plain \ t.fee_utxos, runicPool \ t.runic)}
        ELSE RuneTransferLoop(plain, runicPool, x, amount, feePerVbytes,
                              RuneFeeFor(t, x, amount, feePerVbytes), fuel - 1)
        : t \in BuildRuneTransactionWithFee(runicPool, plain, x, amount, fee) }

(***************************************************************************)
(* Runes protocol: with a runestone, the edict gives output 2 (index 3     *)
(* here) `amount` of rune x, all of it when amount is 0; every rune left   *)
(* unallocated goes to the first output that is not OP_RETURN.  Without a  *)
(* runestone everything goes to that output.  RunesAt(tx, x, amount)[i][y] *)
(* is the balance of rune y landing at output i.                           *)
(***************************************************************************)
RunesAt(tx, x, amount) ==
    LET stone   == tx.outputs[1].to = "opreturn"
        first   == IF stone THEN 2 ELSE 1
        inputs  == tx.runic \cup tx.fee_utxos
        edict   == IF ~stone THEN 0
                   ELSE IF amount = 0 THEN RuneSum(inputs, x)
                   ELSE IF amount < RuneSum(inputs, x) THEN amount
                   ELSE RuneSum(inputs, x)
    IN [i \in 1..Len(tx.outputs) |->
          [y \in Runes |->
             (IF i = 3 /\ y = x THEN edict ELSE 0)
           + (IF i = first
              THEN RuneSum(inputs, y) - (IF y = x THEN edict ELSE 0)
              ELSE 0)]]

\* The runes the receiver's outputs of tx carry.
ReceiverRunes(tx, x, amount) ==
    [y \in Runes |->
       FoldSeq(+, 0, [i \in 1..Len(tx.outputs) |->
                        IF tx.outputs[i].to = "receiver"
                        THEN RunesAt(tx, x, amount)[i][y] ELSE 0])]

=============================================================================
