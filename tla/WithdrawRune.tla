---------------------------- MODULE WithdrawRune ----------------------------
(***************************************************************************)
(* The rune endpoints of lib.rs, withdraw_runestone (262-349),             *)
(* withdraw_runestone_with_fee_paid_by_receiver (351-441) and              *)
(* withdraw_combined (443-489), each followed by its arm of                *)
(* build_and_submit (transaction_handler.rs 319-531 and 532-783).          *)
(*                                                                         *)
(* As in WithdrawBitcoin, each action is the code of one call between two  *)
(* awaits, and an action ending in a trap leaves the shared state as the   *)
(* last await committed it.  The awaits are get_fee_per_vbyte (when no fee *)
(* is given), the synchronizer of an address, the ECDSA signatures and     *)
(* bitcoin_send_transaction.  The synchronizer (spec 4.5) records every    *)
(* output the node lists for the address: plain ones in the plain pool,    *)
(* rune-bearing ones in the runic pool of each rune they hold.  The node   *)
(* lists the unspent outputs an address owns.                              *)
(***************************************************************************)
EXTENDS Combined

CONSTANTS
    Requests,         \* concurrent calls of the sender
    Endpoints,        \* subset of {"sender_pays", "receiver_pays", "combined"}
    Amounts,          \* rune amounts
    BtcAmounts,       \* btc_amount of withdraw_combined
    FeeRates,         \* fee_per_vbytes given or returned by the node
    MaxFeeRounds,     \* fee-loop passes before the instruction limit traps
    Owner,            \* Owner[u]: the address that owns output u
    Sender,           \* the caller's address
    Receiver,         \* the receiving principal's address
    InitialDeposits   \* the outputs already recorded when the calls begin

Addrs == {Sender, Receiver}

ASSUME Owner \in [Utxos -> Addrs]

VARIABLES
    plain,      \* plain[a]: the manager's plain pool of address a
    runic,      \* runic[a][x]: the runic pool of rune x of address a
    spent,      \* inputs of transactions the network accepted
    initRunic,  \* ghost: the runic pools when the calls began
    call        \* call[r]: the locals of call r, and where it is suspended

vars == <<plain, runic, spent, initRunic, call>>

PCs == {"idle", "fee", "sync1", "sync2", "csync1", "csync2", "sign", "broadcast",
        "done", "failed"}

(***************************************************************************)
(* A call's record: pc; ep, the endpoint; rune, amount; given, the caller  *)
(* passed fee_per_vbytes, and rate, its value; btc, btc_amount of         *)
(* withdraw_combined; synced, utxo_synced of                               *)
(* withdraw_runestone; btcBal, current_btc_balance; errFee, the fee of the *)
(* Err of the first build; tx and fee, the built transaction and its fee;  *)
(* why, what a failed call fell short of (a ghost); payerSynced, whether   *)
(* the call synced the address the builder draws bitcoin from (a ghost).   *)
(***************************************************************************)
Idle == [pc |-> "idle", ep |-> "sender_pays", rune |-> CHOOSE x \in Runes : TRUE,
         amount |-> 0, btc |-> 0, given |-> FALSE, rate |-> 0, synced |-> FALSE,
         btcBal |-> 0, errFee |-> 0, fee |-> 0, tx |-> NoRuneTx, why |-> "none",
         payerSynced |-> FALSE]

\* The outputs address a owns, and those the node lists for it.
Owned(a) == {u \in Utxos : Owner[u] = a}
Listed(a) == Owned(a) \ spent

TypeOK ==
    /\ plain \in [Addrs -> SUBSET Utxos]
    /\ \A a \in Addrs : plain[a] \subseteq PlainPool(Owned(a))
    /\ runic \in [Addrs -> [Runes -> SUBSET Utxos]]
    /\ spent \subseteq Utxos
    /\ \A r \in Requests :
         /\ call[r].pc \in PCs
         /\ call[r].ep \in Endpoints \cup {"sender_pays"}
         /\ call[r].why \in {"none", "rune", "btc", "fee", "trap"}

Init ==
    \E D \in InitialDeposits :
        /\ plain = [a \in Addrs |-> PlainPool(D \cap Owned(a))]
        /\ runic = [a \in Addrs |-> [x \in Runes |-> RunicPool(D \cap Owned(a), x)]]
        /\ spent = {}
        /\ initRunic = runic
        /\ call = [r \in Requests |-> Idle]

-----------------------------------------------------------------------------
(* The synchronous tails shared by several continuations *)

\* The synchronizer's records for address a.
SyncPlain(pl, a) == [pl EXCEPT ![a] = RecordBtcUtxos(@, PlainPool(Listed(a)))]
SyncRunic(ru, a) == [ru EXCEPT ![a] = [x \in Runes |-> @[x] \cup RunicPool(Listed(a), x)]]

\* The call goes on with record c, committing pools pl and ru.
Goto(r, c, pl, ru) ==
    /\ call' = [call EXCEPT ![r] = c]
    /\ plain' = pl /\ runic' = ru
    /\ UNCHANGED <<spent, initRunic>>

\* A trap: the call ends and the pools roll back to the last await.
Trap(r, c, why) ==
    /\ call' = [call EXCEPT ![r] = [c EXCEPT !.pc = "failed", !.why = why]]
    /\ UNCHANGED <<plain, runic, spent, initRunic>>

\* runestone::transfer on the sender's pools (every caller passes
\* paid_by_sender = true, so the builder draws bitcoin from the sender).
Transfers(c, pl, ru) ==
    RuneTransferLoop(pl[Sender], ru[Sender][c.rune], c.rune, c.amount, c.rate, 0,
                     MaxFeeRounds)

AfterPlain(pl, o) == [pl EXCEPT ![Sender] = o.plain]
AfterRunic(ru, c, o) == [ru EXCEPT ![Sender][c.rune] = o.runic]

\* Why an outcome failed.
Why(o) == IF o.kind = "trap" THEN "trap" ELSE o.tx.short

\* The second transfer (lib.rs 329-345 and 421-437): Ok signs, Err traps.
SecondBuild(r, c, pl, ru) ==
    \E o \in Transfers(c, pl, ru) :
       IF o.kind = "ok"
       THEN Goto(r, [c EXCEPT !.pc = "sign", !.tx = o.tx, !.fee = o.fee],
                 AfterPlain(pl, o), AfterRunic(ru, c, o))
       ELSE Trap(r, c, Why(o))

\* Mutation of FirstBuild: the runic utxos a bitcoin shortfall dropped are
\* recorded back, but into the plain pool (record_btc_utxos).
FirstBuildRunicToPlain(r, c, pl, ru) ==
    \E o \in Transfers(c, pl, ru) :
       LET pl2 == [pl EXCEPT ![Sender] = o.plain \cup o.tx.runic]
           ru2 == AfterRunic(ru, c, o)
           resync == IF c.ep = "sender_pays"
                     THEN o.fee > GetBitcoinBalance(pl2[Sender]) /\ ~c.synced
                     ELSE o.fee > c.btcBal
       IN \/ /\ o.kind = "ok"
             /\ Goto(r, [c EXCEPT !.pc = "sign", !.tx = o.tx, !.fee = o.fee], pl2, ru2)
          \/ /\ o.kind = "trap"
             /\ Trap(r, c, "trap")
          \/ /\ o.kind = "err" /\ resync
             /\ Goto(r, [c EXCEPT !.pc = "sync2", !.errFee = o.fee], pl2, ru2)
          \/ /\ o.kind = "err" /\ ~resync
             /\ SecondBuild(r, c, pl2, ru2)

\* The first transfer (lib.rs 298-328 and 392-420).  On Err((_, fee)) the
\* sender-pays endpoint syncs the sender when fee > its bitcoin balance and
\* it has not synced; the receiver-pays one syncs the receiver when
\* fee > the receiver balance read at the start.  Otherwise it builds again.
FirstBuild(r, c, pl, ru) ==
    \E o \in Transfers(c, pl, ru) :
       LET pl2 == AfterPlain(pl, o)
           ru2 == AfterRunic(ru, c, o)
           resync == IF c.ep = "sender_pays"
                     THEN o.fee > GetBitcoinBalance(pl2[Sender]) /\ ~c.synced
                     ELSE o.fee > c.btcBal
       IN \/ /\ o.kind = "ok"
             /\ Goto(r, [c EXCEPT !.pc = "sign", !.tx = o.tx, !.fee = o.fee], pl2, ru2)
          \/ /\ o.kind = "trap"
             /\ Trap(r, c, "trap")
          \/ /\ o.kind = "err" /\ resync
             /\ Goto(r, [c EXCEPT !.pc = "sync2", !.errFee = o.fee], pl2, ru2)
          \/ /\ o.kind = "err" /\ ~resync
             /\ SecondBuild(r, c, pl2, ru2)

\* withdraw_runestone once the fee rate is known (lib.rs 278-298): sync the
\* sender when its rune balance is short, else build.
SenderPaysRated(r, c) ==
    IF RuneSum(runic[Sender][c.rune], c.rune) < c.amount
    THEN Goto(r, [c EXCEPT !.synced = TRUE, !.pc = "sync1"], plain, runic)
    ELSE FirstBuild(r, c, plain, runic)

\* withdraw_runestone_with_fee_paid_by_receiver after its rune check
\* (lib.rs 387-392): await the fee rate unless given, then build.
ReceiverPaysChecked(r, c, pl, ru) ==
    IF c.given THEN FirstBuild(r, c, pl, ru)
    ELSE Goto(r, [c EXCEPT !.pc = "fee"], pl, ru)

\* combined_txn::transfer on the sender's runic and plain pools and the
\* receiver's plain pool (lib.rs 473-486, paid_by_sender = false).
CombinedTransfers(c, pl, ru) ==
    CombinedTransferLoop(ru[Sender][c.rune], pl[Sender], pl[Receiver], c.rune, c.amount,
                         c.btc, c.rate, 0, MaxFeeRounds)

\* withdraw_combined's transfer and `.unwrap()` (lib.rs 473-487): Ok signs
\* with the three sets out of their pools; an Err traps, and the trap
\* undoes whatever the failed pass left taken.
CombinedBuild(r, c, pl, ru) ==
    \E o \in CombinedTransfers(c, pl, ru) :
       IF o.kind = "ok"
       THEN Goto(r, [c EXCEPT !.pc = "sign", !.tx = o.tx, !.fee = o.fee],
                 [pl EXCEPT ![Sender] = @ \ o.tx.btc_utxos,
                            ![Receiver] = @ \ o.tx.fee_utxos],
                 [ru EXCEPT ![Sender][c.rune] = @ \ o.tx.runic])
       ELSE Trap(r, c, Why(o))

(***************************************************************************)
(* The Runestone arm of build_and_submit (transaction_handler.rs 334-441)  *)
(* re-assembles the transaction from the utxos, amount and fee the builder *)
(* returned, with its own copy of the builder's output code.               *)
(***************************************************************************)
\* Mutation of Reassemble: the rune change is decided on the balance alone.
ReassembleChangeOnBalance(t, x, amount, fee) ==
    LET change    == RuneSum(t.runic, x) > amount
        required  == IF change THEN 2 * DEFAULT_POSTAGE ELSE DEFAULT_POSTAGE
        actual    == U64Sub(required, SumValue(t.runic))
        remaining == U64Sub(U64Sub(SumValue(t.fee_utxos), fee), actual)
        postages  == IF change
                     THEN << [to |-> "opreturn", value |-> 0],
                             [to |-> "sender", value |-> DEFAULT_POSTAGE],
                             [to |-> "receiver", value |-> DEFAULT_POSTAGE] >>
                     ELSE << [to |-> "receiver", value |-> DEFAULT_POSTAGE] >>
    IN postages \o (IF remaining > DUST_THRESHOLD
                    THEN << [to |-> "sender", value |-> remaining] >> ELSE << >>)

Reassemble(t, x, amount, fee) ==
    LET change    == RuneSum(t.runic, x) > amount \/ Cardinality(t.runic) > 1
        required  == IF change THEN 2 * DEFAULT_POSTAGE ELSE DEFAULT_POSTAGE
        actual    == U64Sub(required, SumValue(t.runic))
        remaining == U64Sub(U64Sub(SumValue(t.fee_utxos), fee), actual)
        postages  == IF change
                     THEN << [to |-> "opreturn", value |-> 0],
                             [to |-> "sender", value |-> DEFAULT_POSTAGE],
                             [to |-> "receiver", value |-> DEFAULT_POSTAGE] >>
                     ELSE << [to |-> "receiver", value |-> DEFAULT_POSTAGE] >>
    IN postages \o (IF remaining > DUST_THRESHOLD
                    THEN << [to |-> "sender", value |-> remaining] >> ELSE << >>)

-----------------------------------------------------------------------------
(* Actions *)

\* A call arrives (lib.rs 268-283, 358-372 and 451-461): withdraw_combined
\* first awaits the sync of the sender.
Start(r) ==
    /\ call[r].pc = "idle"
    /\ \E e \in Endpoints, x \in Runes, a \in Amounts, g \in BOOLEAN, f \in FeeRates,
          b \in BtcAmounts :
         LET c == [Idle EXCEPT !.ep = e, !.rune = x, !.amount = a, !.given = g,
                               !.rate = IF g THEN f ELSE 0,
                               !.btc = IF e = "combined" THEN b ELSE 0,
                               !.btcBal = GetBitcoinBalance(plain[Receiver])]
         IN IF e = "sender_pays"
            THEN IF g THEN SenderPaysRated(r, c)
                 ELSE Goto(r, [c EXCEPT !.pc = "fee"], plain, runic)
            ELSE IF e = "combined" THEN Goto(r, [c EXCEPT !.pc = "csync1"], plain, runic)
            ELSE IF RuneSum(runic[Sender][x], x) < a
                 THEN Goto(r, [c EXCEPT !.pc = "sync1"], plain, runic)
                 ELSE ReceiverPaysChecked(r, c, plain, runic)

\* get_fee_per_vbyte returns.
FeeRateDone(r) ==
    /\ call[r].pc = "fee"
    /\ \E f \in FeeRates :
         LET c == [call[r] EXCEPT !.rate = f] IN
         IF c.ep = "sender_pays" THEN SenderPaysRated(r, c)
         ELSE IF c.ep = "combined" THEN CombinedBuild(r, c, plain, runic)
         ELSE FirstBuild(r, c, plain, runic)

\* The sync of the sender for runes returns (lib.rs 285-297 and 373-385):
\* record, re-read the rune balance, trap if still short.
Sync1Done(r) ==
    /\ call[r].pc = "sync1"
    /\ LET c  == [call[r] EXCEPT !.payerSynced = TRUE]
           pl == SyncPlain(plain, Sender)
           ru == SyncRunic(runic, Sender)
       IN IF RuneSum(ru[Sender][c.rune], c.rune) < c.amount
          THEN Trap(r, c, "rune")
          ELSE IF c.ep = "sender_pays" THEN FirstBuild(r, c, pl, ru)
          ELSE ReceiverPaysChecked(r, c, pl, ru)

\* Mutation of Sync2Done: a failed second build syncs again instead of
\* trapping, so the call retries without bound.
Sync2DoneRetryForever(r) ==
    /\ call[r].pc = "sync2"
    /\ LET a  == IF call[r].ep = "sender_pays" THEN Sender ELSE Receiver
           c  == [call[r] EXCEPT !.payerSynced = @ \/ a = Sender,
                                 !.btcBal = GetBitcoinBalance(SyncPlain(plain, a)[a])]
           pl == SyncPlain(plain, a)
           ru == SyncRunic(runic, a)
       IN IF c.btcBal < c.errFee THEN Trap(r, c, "btc")
          ELSE \E o \in Transfers(c, pl, ru) :
                 IF o.kind = "ok"
                 THEN Goto(r, [c EXCEPT !.pc = "sign", !.tx = o.tx, !.fee = o.fee],
                           AfterPlain(pl, o), AfterRunic(ru, c, o))
                 ELSE Goto(r, c, AfterPlain(pl, o), AfterRunic(ru, c, o))

\* The sync after a BTC shortfall returns (lib.rs 317-327 and 408-418): the
\* sender-pays endpoint synced the sender, the receiver-pays one the
\* receiver.  Record, re-read that balance, trap if below the fee, else
\* build again.
Sync2Done(r) ==
    /\ call[r].pc = "sync2"
    /\ LET a  == IF call[r].ep = "sender_pays" THEN Sender ELSE Receiver
           c  == [call[r] EXCEPT !.payerSynced = @ \/ a = Sender,
                                 !.btcBal = GetBitcoinBalance(SyncPlain(plain, a)[a])]
           pl == SyncPlain(plain, a)
           ru == SyncRunic(runic, a)
       IN IF c.btcBal < c.errFee THEN Trap(r, c, "btc")
          ELSE SecondBuild(r, c, pl, ru)

\* withdraw_combined: the sync of the sender returns (lib.rs 457-461); it
\* records every listed output and awaits the sync of the receiver.
CSync1Done(r) ==
    /\ call[r].pc = "csync1"
    /\ Goto(r, [call[r] EXCEPT !.pc = "csync2"], SyncPlain(plain, Sender),
            SyncRunic(runic, Sender))

\* withdraw_combined: the sync of the receiver returns (lib.rs 463-472);
\* await the fee rate unless given, then build.
CSync2Done(r) ==
    /\ call[r].pc = "csync2"
    /\ LET pl == SyncPlain(plain, Receiver)
           ru == SyncRunic(runic, Receiver)
       IN IF call[r].given THEN CombinedBuild(r, call[r], pl, ru)
          ELSE Goto(r, [call[r] EXCEPT !.pc = "fee"], pl, ru)

\* The ECDSA signatures of every input have returned.
SignDone(r) ==
    /\ call[r].pc = "sign"
    /\ call' = [call EXCEPT ![r].pc = "broadcast"]
    /\ UNCHANGED <<plain, runic, spent, initRunic>>

\* A signature call is rejected: the call traps after its inputs left the
\* pools at an earlier await.
SignFails(r) ==
    /\ call[r].pc = "sign"
    /\ Trap(r, call[r], "none")

\* bitcoin_send_transaction: accepted unless an input is already spent, in
\* which case `.expect("failed to submit transaction")` traps.
Broadcast(r) ==
    /\ call[r].pc = "broadcast"
    /\ LET ins == call[r].tx.runic \cup call[r].tx.btc_utxos \cup call[r].tx.fee_utxos IN
       IF ins \cap spent = {}
       THEN /\ spent' = spent \cup ins
            /\ call' = [call EXCEPT ![r].pc = "done"]
            /\ UNCHANGED <<plain, runic, initRunic>>
       ELSE Trap(r, call[r], "none")

RequestStep(r) ==
    \/ FeeRateDone(r) \/ Sync1Done(r) \/ Sync2Done(r) \/ CSync1Done(r) \/ CSync2Done(r)
    \/ SignDone(r) \/ SignFails(r) \/ Broadcast(r)

\* lib.rs 519-523: get_runestone_balance_of(of), a public update any
\* principal may call at any time, syncs address of with target u64::MAX,
\* so every listed output is recorded, and then reads its rune balances.
BalanceOf ==
    \E a \in Addrs :
        /\ plain' = SyncPlain(plain, a) /\ runic' = SyncRunic(runic, a)
        /\ UNCHANGED <<spent, initRunic, call>>

Next == (\E r \in Requests : Start(r) \/ RequestStep(r)) \/ BalanceOf

Spec == Init /\ [][Next]_vars /\ \A r \in Requests : WF_vars(RequestStep(r))

(***************************************************************************)
(* Properties                                                              *)
(***************************************************************************)

\* The transaction build_and_submit signs and sends is the one the builder
\* measured the fee of: the re-assembly in transaction_handler.rs (the
\* Runestone or the Combined arm) yields the builder's outputs (spec 9,
\* "byte-identical outputs").
SignedMatchesBuilt ==
    \A r \in Requests :
       call[r].pc \in {"sign", "broadcast", "done"} =>
          LET c == call[r] IN
          IF c.ep = "combined"
          THEN ReassembleCombined(c.tx, c.rune, c.amount, c.btc, c.fee) = c.tx.outputs
          ELSE Reassemble(c.tx, c.rune, c.amount, c.fee) = c.tx.outputs

\* Every input of a combined transaction is signed with the key of the
\* address that owns it: the receiver's key exactly at the positions of
\* index_of_utxos_receiver, which must be where the builder put the
\* receiver's fee utxos (transaction_handler.rs 607-610 and 724-771).
CombinedInputsSignedByOwner ==
    \A r \in Requests :
       (call[r].ep = "combined" /\ call[r].pc \in {"sign", "broadcast", "done"}) =>
          LET ins == CombinedInputs(call[r].tx) IN
          \A p \in 0 .. Len(ins) - 1 :
             Owner[ins[p + 1]] = CombinedSigner(Sender, Receiver, call[r].tx, p)

\* The receiver's outputs of a combined transaction carry exactly
\* rune_amount of the rune, although the builder drains every runic output
\* of the rune: the rest goes back to the sender through the edict to
\* output 2 and the change postage (combined_txn.rs 227-268, spec 8.3).
CombinedReceiverGetsAmount ==
    \A r \in Requests :
       (call[r].ep = "combined" /\ call[r].pc \in {"sign", "broadcast", "done"}) =>
          ReceiverRunes(call[r].tx, call[r].rune, call[r].amount)
            = [y \in Runes |-> IF y = call[r].rune THEN call[r].amount ELSE 0]

\* A combined transaction conserves bitcoin (spec 8.2): its inputs pay its
\* outputs and the measured fee, and the miners get at most the two
\* changes dropped as dust on top, although the postage deficit is
\* computed in u64 and paid from the receiver's inputs.
CombinedTxBalanced ==
    \A r \in Requests :
       (call[r].ep = "combined" /\ call[r].pc \in {"sign", "broadcast", "done"}) =>
          LET t == call[r].tx IN
          SumValue(t.runic \cup t.btc_utxos \cup t.fee_utxos)
            - FoldLeft(LAMBDA acc, o : acc + o.value, 0, t.outputs) - call[r].fee
            \in 0 .. 2 * DUST_THRESHOLD

\* Every call ends: it returns a txid or traps, after at most two syncs.
CallsTerminate ==
    \A r \in Requests : call[r].pc # "idle" ~> call[r].pc \in {"done", "failed"}

\* In withdraw_runestone_with_fee_paid_by_receiver, the bitcoin that pays
\* the fee and the postage comes from the receiver's plain pool.
FeePaidByReceiver ==
    \A r \in Requests :
       (call[r].ep = "receiver_pays" /\ call[r].pc \in {"sign", "broadcast", "done"})
          => call[r].tx.fee_utxos \subseteq Owned(Receiver)

\* A call that fails for lack of bitcoin has first synced the address it
\* draws bitcoin from (spec 4.6: retry once after a second sync).
ShortfallSyncsPayer ==
    \A r \in Requests :
       (call[r].pc = "failed" /\ call[r].why = "btc") => call[r].payerSynced

\* When no call is in flight, every runic output the manager held when the
\* calls began is back in its runic pool, unless a built transaction took
\* it (those are spent, or orphaned by a failed signature or broadcast).
RunicPoolsRestored ==
    (\A r \in Requests : call[r].pc \in {"idle", "done", "failed"})
       => \A a \in Addrs, x \in Runes :
             initRunic[a][x] \ UNION {call[r].tx.runic : r \in Requests} \subseteq runic[a][x]

=============================================================================
