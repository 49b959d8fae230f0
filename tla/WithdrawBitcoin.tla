-------------------------- MODULE WithdrawBitcoin --------------------------
(***************************************************************************)
(* Concurrent withdraw_bitcoin and withdraw_bitcoin_from_multiple_addresses*)
(* calls (lib.rs) of one caller, against the UTXO manager's pools of two   *)
(* addresses, the UTXO synchronizer and the Bitcoin network.               *)
(*                                                                         *)
(* The canister runs one message at a time; a call is suspended at every   *)
(* await, and the state it changed up to that await is committed.  A trap *)
(* rolls back to the last commit.  So each action below is the code of one *)
(* call between two awaits, and an action ending in a trap leaves the      *)
(* shared state as it found it.  The awaits of withdraw_bitcoin are: the   *)
(* synchronizer's fetch (bitcoin_get_utxos), get_fee_per_vbyte when no fee *)
(* is given, the ECDSA signatures, and bitcoin_send_transaction.           *)
(*                                                                         *)
(* The synchronizer (updater::fetch_utxos_and_update_balances) is not     *)
(* among the sources at hand; per spec 4.5 it records every output the     *)
(* node lists for the address, deduplicated against the pool.  The node    *)
(* lists confirmed unspent outputs: an output spent by a transaction still *)
(* in the mempool is listed until that transaction confirms.               *)
(***************************************************************************)
EXTENDS MultiSender, Addressing, TLC

CONSTANTS
    Requests,       \* concurrent calls of one caller
    Addrs,          \* the P2PKH addresses of the principals involved
    Owner,          \* Owner[u]: the address output u pays
    Caller,         \* the caller's address
    Amounts,        \* amounts a call may ask for
    FeeRates,       \* fee_per_vbytes given by the caller or by the node
    MaxFeeRounds,   \* fee-loop iterations before the instruction limit traps
    Endpoints,      \* the endpoints calls use: "single", "multi"
    MultiAmounts,   \* amounts a withdraw_bitcoin_from_multiple_addresses call asks
    Principal0s,    \* addresses a multi call may name as principal0's
    NoReply         \* model value: the node has not answered yet

VARIABLES
    pool,           \* pool[a]: the manager's plain pool of address a
    known,          \* ghost: every utxo ever recorded into the pool
    nodeUtxos,      \* outputs bitcoin_get_utxos lists, of every address
    spent,          \* inputs of transactions the network accepted
    pc,             \* pc[r]: where call r is suspended
    amount,         \* amount[r]
    feeGiven,       \* feeGiven[r]: the caller passed Some(fee_per_vbytes)
    feePerVbytes,   \* feePerVbytes[r]
    synced,         \* synced[r][i]: utxo_synced (utxo_synced<i> of the multi call)
    balance,        \* balance[r][i]: current_balance (current_balance<i>)
    addr,           \* addr[r][i]: the address of slot i (withdraw_bitcoin: slot 0)
    required,       \* required[r][i]: required_amount<i> of the multi call's Err
    built,          \* built[r]: the multi call's transaction and fee, kept to sign
    reply,          \* reply[r]: the utxo list the node returned to r
    held            \* held[r]: inputs of r's built transaction

walletVars == <<pool, known, nodeUtxos, spent, pc, amount, feeGiven, feePerVbytes,
                synced, balance, addr, required, built, reply, held>>

vars == <<walletVars, lifecycleVars>>

Slots == {0, 1}

Owned(a) == {u \in Utxos : Owner[u] = a}

PCs == {"idle", "sync1", "fee", "sync2", "mfee", "msync0", "msync1", "mresync0",
        "mresync1", "sign", "broadcast", "done", "failed"}

TypeOK ==
    /\ LifecycleTypeOK
    /\ \A a \in Addrs : pool[a] \subseteq Owned(a)
    /\ known \subseteq Utxos
    /\ nodeUtxos \subseteq Utxos /\ spent \subseteq Utxos
    /\ pc \in [Requests -> PCs]
    /\ amount \in [Requests -> Amounts \cup MultiAmounts \cup {0}]
    /\ feeGiven \in [Requests -> BOOLEAN]
    /\ feePerVbytes \in [Requests -> FeeRates \cup {0}]
    /\ synced \in [Requests -> [Slots -> BOOLEAN]]
    /\ balance \in [Requests -> [Slots -> 0..SumValue(Utxos)]]
    /\ addr \in [Requests -> [Slots -> Addrs]]
    /\ required \in [Requests -> [Slots -> Nat]]
    /\ \A r \in Requests : built[r].tx.utxos0 \cup built[r].tx.utxos1 \subseteq Utxos
    /\ reply \in [Requests -> SUBSET Utxos \cup {NoReply}]
    /\ held \in [Requests -> SUBSET Utxos]

\* The canister starts with an empty manager; the address's deposits are on
\* chain, listed by the node.
Init ==
    /\ LifecycleInit
    /\ pool = [a \in Addrs |-> {}] /\ known = {} /\ spent = {}
    /\ nodeUtxos = Utxos
    /\ pc = [r \in Requests |-> "idle"]
    /\ amount = [r \in Requests |-> 0]
    /\ feeGiven = [r \in Requests |-> FALSE]
    /\ feePerVbytes = [r \in Requests |-> 0]
    /\ synced = [r \in Requests |-> [i \in Slots |-> FALSE]]
    /\ balance = [r \in Requests |-> [i \in Slots |-> 0]]
    /\ addr = [r \in Requests |-> [i \in Slots |-> Caller]]
    /\ required = [r \in Requests |-> [i \in Slots |-> 0]]
    /\ built = [r \in Requests |-> [tx |-> NoMultiTx, fee |-> 0]]
    /\ reply = [r \in Requests |-> NoReply]
    /\ held = [r \in Requests |-> {}]

\* bitcoin::transfer and multi_sender_txn::transfer from fee 0 are pure
\* functions of the pools, the amount and the rate: tabulated once over
\* every amount, rate and pool of the model (nested, so that a lookup
\* compares small keys).
Transfers == [a \in Amounts |-> [f \in FeeRates |-> [p \in SUBSET Owned(Caller) |->
                TransferLoop(p, a, f, 0, MaxFeeRounds)]]]

\* multi_sender_txn::transfer reads and changes only the two senders' pools.
SenderPools(a0, S0, S1) ==
    [a \in Addrs |-> IF a = Caller THEN S1 ELSE IF a = a0 THEN S0 ELSE {}]

MultiTransfers ==
    [a0 \in Principal0s |-> [a \in MultiAmounts |-> [f \in FeeRates |->
       [S0 \in SUBSET Owned(a0) |-> [S1 \in SUBSET Owned(Caller) |->
          MultiTransferLoop(SenderPools(a0, S0, S1), a0, Caller, SplitAmount(a)[1],
                            SplitAmount(a)[2], f, 0, MaxFeeRounds)]]]]]

-----------------------------------------------------------------------------
(* The synchronous tails shared by several continuations *)

\* A trap: the call ends, and the shared state rolls back to the last await.
Trap(r) ==
    /\ pc' = [pc EXCEPT ![r] = "failed"]
    /\ UNCHANGED <<pool, known, held, reply, built>>

\* pool after the call's synchronizer recorded its reply into address a.
Recorded(r, a) == [pool EXCEPT ![a] = RecordBtcUtxos(@, reply[r])]

\* lib.rs 104-139 up to the first await after it: run bitcoin::transfer for
\* amount a on the caller's pool of P (known k after the records of this execution).
\* Ok: the inputs are held and the call goes on to sign.  Err(required):
\* trap when the call has already synced and required < current_balance
\* (bal), else sync again.  A fee loop that never converges traps on the
\* instruction limit.
FirstTransfer(r, a, P, k, sy, bal, rate) ==
    \E o \in Transfers[a][rate][P[Caller]] :
       \/ /\ o.kind = "ok"
          /\ pool' = [P EXCEPT ![Caller] = o.pool] /\ known' = k
          /\ held' = [held EXCEPT ![r] = o.tx.inputs]
          /\ pc' = [pc EXCEPT ![r] = "sign"]
          /\ UNCHANGED <<reply, built>>
       \/ /\ o.kind = "err"
          /\ ~(sy /\ o.tx.required < bal)
          /\ pool' = [P EXCEPT ![Caller] = o.pool] /\ known' = k
          /\ pc' = [pc EXCEPT ![r] = "sync2"]
          /\ reply' = [reply EXCEPT ![r] = NoReply]
          /\ UNCHANGED <<held, built>>
       \/ /\ \/ o.kind = "trap"
             \/ o.kind = "err" /\ sy /\ o.tx.required < bal
          /\ Trap(r)

-----------------------------------------------------------------------------
(* withdraw_bitcoin *)

\* lib.rs 80-112: a call arrives, reads the balance, and either awaits the
\* synchronizer (balance < amount), or awaits the fee rate, or builds.
Start(r) ==
    /\ pc[r] = "idle"
    /\ KeyReady
    /\ \E a \in Amounts, given \in BOOLEAN, rate \in FeeRates :
          LET bal == GetBitcoinBalance(pool[Caller]) IN
          /\ amount' = [amount EXCEPT ![r] = a]
          /\ feeGiven' = [feeGiven EXCEPT ![r] = given]
          /\ balance' = [balance EXCEPT ![r][0] = bal]
          /\ synced' = [synced EXCEPT ![r][0] = bal < a]
          /\ feePerVbytes' = [feePerVbytes EXCEPT ![r] = IF given THEN rate ELSE 0]
          /\ IF bal < a
             THEN /\ pc' = [pc EXCEPT ![r] = "sync1"]
                  /\ UNCHANGED <<pool, known, held, reply>>
             ELSE IF ~given
             THEN /\ pc' = [pc EXCEPT ![r] = "fee"]
                  /\ UNCHANGED <<pool, known, held, reply>>
             ELSE FirstTransfer(r, a, pool, known, FALSE, bal, rate)
    /\ UNCHANGED <<nodeUtxos, spent, addr, required, built>>

\* The address whose outputs the call's pending synchronizer fetches.
SyncAddr(r) == addr[r][IF pc[r] \in {"msync1", "mresync1"} THEN 1 ELSE 0]

\* The node answers a call's bitcoin_get_utxos with the outputs it lists
\* for the address.
NodeListsUtxos(r) ==
    /\ pc[r] \in {"sync1", "sync2", "msync0", "msync1", "mresync0", "mresync1"}
    /\ reply[r] = NoReply
    /\ reply' = [reply EXCEPT ![r] = nodeUtxos \cap Owned(SyncAddr(r))]
    /\ UNCHANGED <<pool, known, nodeUtxos, spent, pc, amount, feeGiven,
                   feePerVbytes, synced, balance, addr, required, built, held>>

\* Mutation of Sync1Done: the re-read balance adds the listed outputs to
\* the old balance, counting again those already in the pool.
Sync1DoneBalanceNoDedup(r) ==
    /\ pc[r] = "sync1"
    /\ reply[r] # NoReply
    /\ LET P == Recorded(r, Caller)
           k == known \cup reply[r]
           bal == GetBitcoinBalance(pool[Caller]) + SumValue(reply[r])
       IN  /\ balance' = [balance EXCEPT ![r][0] = bal]
           /\ IF bal < amount[r]
              THEN Trap(r)
              ELSE IF ~feeGiven[r]
              THEN /\ pool' = P /\ known' = k
                   /\ pc' = [pc EXCEPT ![r] = "fee"]
                   /\ UNCHANGED <<held, reply>>
              ELSE FirstTransfer(r, amount[r], P, k, TRUE, bal, feePerVbytes[r])
    /\ UNCHANGED <<nodeUtxos, spent, amount, feeGiven, feePerVbytes, synced, addr, required, built>>

\* lib.rs 89-112 after the first sync: record the listed outputs, re-read
\* the balance, trap "not enough balance" if still short, then await the
\* fee rate or build.
Sync1Done(r) ==
    /\ pc[r] = "sync1"
    /\ reply[r] # NoReply
    /\ LET P == Recorded(r, Caller)
           k == known \cup reply[r]
           bal == GetBitcoinBalance(P[Caller])
       IN  /\ balance' = [balance EXCEPT ![r][0] = bal]
           /\ IF bal < amount[r]
              THEN Trap(r)
              ELSE IF ~feeGiven[r]
              THEN /\ pool' = P /\ known' = k
                   /\ pc' = [pc EXCEPT ![r] = "fee"]
                   /\ UNCHANGED <<held, reply>>
              ELSE FirstTransfer(r, amount[r], P, k, TRUE, bal, feePerVbytes[r])
    /\ UNCHANGED <<nodeUtxos, spent, amount, feeGiven, feePerVbytes, synced, addr, required, built>>

\* lib.rs 100-112: get_fee_per_vbyte returns, the call builds.
FeeRateDone(r) ==
    /\ pc[r] = "fee"
    /\ \E rate \in FeeRates :
          /\ feePerVbytes' = [feePerVbytes EXCEPT ![r] = rate]
          /\ FirstTransfer(r, amount[r], pool, known, synced[r][0], balance[r][0], rate)
    /\ UNCHANGED <<nodeUtxos, spent, amount, feeGiven, synced, balance, addr, required, built>>

\* Mutation of Sync2Done: a failed second build syncs again instead of
\* trapping, so the call retries without bound.
Sync2DoneRetryForever(r) ==
    /\ pc[r] = "sync2"
    /\ reply[r] # NoReply
    /\ LET P == Recorded(r, Caller) IN
       \E o \in Transfers[amount[r]][feePerVbytes[r]][P[Caller]] :
          IF o.kind = "ok"
          THEN /\ pool' = [P EXCEPT ![Caller] = o.pool]
               /\ known' = known \cup reply[r]
               /\ held' = [held EXCEPT ![r] = o.tx.inputs]
               /\ pc' = [pc EXCEPT ![r] = "sign"]
               /\ UNCHANGED reply
          ELSE /\ reply' = [reply EXCEPT ![r] = NoReply]
               /\ UNCHANGED <<pool, known, held, pc>>
    /\ UNCHANGED <<nodeUtxos, spent, amount, feeGiven, feePerVbytes, synced,
                   balance, addr, required, built>>

\* lib.rs 117-136: after the second sync, record and build once more; any
\* failure traps "not enough balance".
Sync2Done(r) ==
    /\ pc[r] = "sync2"
    /\ reply[r] # NoReply
    /\ LET P == Recorded(r, Caller) IN
       \E o \in Transfers[amount[r]][feePerVbytes[r]][P[Caller]] :
          IF o.kind = "ok"
          THEN /\ pool' = [P EXCEPT ![Caller] = o.pool]
               /\ known' = known \cup reply[r]
               /\ held' = [held EXCEPT ![r] = o.tx.inputs]
               /\ pc' = [pc EXCEPT ![r] = "sign"]
               /\ UNCHANGED reply
          ELSE Trap(r)
    /\ UNCHANGED <<nodeUtxos, spent, amount, feeGiven, feePerVbytes, synced,
                   balance, addr, required, built>>

-----------------------------------------------------------------------------
(* withdraw_bitcoin_from_multiple_addresses: slot 0 is principal0's        *)
(* address, slot 1 the caller's.  Its awaits: get_fee_per_vbyte when no    *)
(* fee is given, up to two syncs before the build, up to two after an Err. *)

\* What a continuation of call r carries across its awaits: the two
\* addresses, the halves of the amount (lib.rs 151-160), the fee rate and
\* utxo_synced0/1.
Args(r) == [addr |-> addr[r], amount |-> amount[r], amt |-> SplitAmount(amount[r]),
            rate |-> feePerVbytes[r], synced |-> synced[r]]

Balances(x, P) == [i \in Slots |-> GetBitcoinBalance(P[x.addr[i]])]

Loop(x, P) ==
    LET a0 == x.addr[0]
        Keep(o) == [a \in Addrs |-> IF a \in {a0, Caller} THEN o.pools[a] ELSE P[a]]
    IN {[o EXCEPT !.pools = Keep(o)] :
          o \in MultiTransfers[a0][x.amount][x.rate][P[a0]][P[Caller]]}

\* Ok: the call holds both senders' inputs and goes on to sign.
MultiHold(r, o, k) ==
    /\ pool' = o.pools /\ known' = k
    /\ held' = [held EXCEPT ![r] = o.tx.utxos0 \cup o.tx.utxos1]
    /\ built' = [built EXCEPT ![r] = [tx |-> o.tx, fee |-> o.fee]]
    /\ pc' = [pc EXCEPT ![r] = "sign"]
    /\ UNCHANGED reply

\* The call awaits the synchronizer at p, its changes up to here committed.
AwaitSync(r, p, P, k) ==
    /\ pool' = P /\ known' = k
    /\ pc' = [pc EXCEPT ![r] = p]
    /\ reply' = [reply EXCEPT ![r] = NoReply]
    /\ UNCHANGED <<held, built>>

\* lib.rs 232-255: re-read both balances, trap if one is below what the
\* failed build required, else build once more; any failure traps.
MultiSecondTransfer(r, x, P, k, req) ==
    LET b == Balances(x, P) IN
    IF b[0] < req[0] \/ b[1] < req[1] THEN Trap(r)
    ELSE \E o \in Loop(x, P) : IF o.kind = "ok" THEN MultiHold(r, o, k) ELSE Trap(r)

\* lib.rs 213-231: from slot `from` on, sync the address of a slot whose
\* required amount exceeds the balance read before the build and that did
\* not sync yet; then the second build.
MultiResync(r, x, P, k, bal, req, from) ==
    LET short(i) == i >= from /\ req[i] > bal[i] /\ ~x.synced[i] IN
    IF short(0) THEN AwaitSync(r, "mresync0", P, k)
    ELSE IF short(1) THEN AwaitSync(r, "mresync1", P, k)
    ELSE MultiSecondTransfer(r, x, P, k, req)

\* lib.rs 192-212: re-read both balances, trap if either half is short,
\* run multi_sender_txn::transfer; Err((required0, required1)) re-syncs.
MultiFirstTransfer(r, x, P, k) ==
    LET b == Balances(x, P) IN
    /\ balance' = [balance EXCEPT ![r] = b]
    /\ IF b[0] < x.amt[1] \/ b[1] < x.amt[2]
       THEN Trap(r) /\ UNCHANGED required
       ELSE \E o \in Loop(x, P) :
              LET req == [i \in Slots |-> o.tx.required[i + 1]] IN
              CASE o.kind = "ok"   -> MultiHold(r, o, k) /\ UNCHANGED required
                [] o.kind = "trap" -> Trap(r) /\ UNCHANGED required
                [] o.kind = "err"  -> /\ required' = [required EXCEPT ![r] = req]
                                      /\ MultiResync(r, x, P, k, b, req, 0)

\* lib.rs 170-191 after the fee rate: read both balances and sync the
\* address of each short half, else build.
MultiAfterFee(r, x, P, k) ==
    LET b == Balances(x, P)
        sy == [i \in Slots |-> b[i] < x.amt[i + 1]]
    IN /\ synced' = [synced EXCEPT ![r] = sy]
       /\ IF sy[0] THEN AwaitSync(r, "msync0", P, k) /\ UNCHANGED required
          ELSE IF sy[1] THEN AwaitSync(r, "msync1", P, k) /\ UNCHANGED required
          ELSE MultiFirstTransfer(r, [x EXCEPT !.synced = sy], P, k)
       /\ balance' = [balance EXCEPT ![r] = b]

\* lib.rs 144-169: a call names principal0 and an amount, and awaits the
\* fee rate or goes on.
MultiStart(r) ==
    /\ pc[r] = "idle"
    /\ KeyReady
    /\ \E a \in MultiAmounts, given \in BOOLEAN, rate \in FeeRates, p0 \in Principal0s :
          LET A == [i \in Slots |-> IF i = 0 THEN p0 ELSE Caller] IN
          /\ amount' = [amount EXCEPT ![r] = a]
          /\ feeGiven' = [feeGiven EXCEPT ![r] = given]
          /\ feePerVbytes' = [feePerVbytes EXCEPT ![r] = IF given THEN rate ELSE 0]
          /\ addr' = [addr EXCEPT ![r] = A]
          /\ IF ~given
             THEN /\ pc' = [pc EXCEPT ![r] = "mfee"]
                  /\ UNCHANGED <<pool, known, held, reply, built, synced, balance, required>>
             ELSE MultiAfterFee(r, [addr |-> A, amount |-> a, amt |-> SplitAmount(a), rate |-> rate,
                                    synced |-> synced[r]], pool, known)
    /\ UNCHANGED <<nodeUtxos, spent>>

MultiFeeRateDone(r) ==
    /\ pc[r] = "mfee"
    /\ \E rate \in FeeRates :
          /\ feePerVbytes' = [feePerVbytes EXCEPT ![r] = rate]
          /\ MultiAfterFee(r, [Args(r) EXCEPT !.rate = rate], pool, known)
    /\ UNCHANGED <<nodeUtxos, spent, amount, feeGiven, addr>>

\* lib.rs 178-191: principal0's outputs recorded; sync the caller's address
\* if its half was short at the first read, else build.
MultiSync0Done(r) ==
    /\ pc[r] = "msync0" /\ reply[r] # NoReply
    /\ LET P == Recorded(r, addr[r][0]) IN
       IF balance[r][1] < Args(r).amt[2]
       THEN AwaitSync(r, "msync1", P, known \cup reply[r]) /\ UNCHANGED <<balance, required>>
       ELSE MultiFirstTransfer(r, Args(r), P, known \cup reply[r])
    /\ UNCHANGED <<nodeUtxos, spent, amount, feeGiven, feePerVbytes, synced, addr>>

MultiSync1Done(r) ==
    /\ pc[r] = "msync1" /\ reply[r] # NoReply
    /\ MultiFirstTransfer(r, Args(r), Recorded(r, addr[r][1]), known \cup reply[r])
    /\ UNCHANGED <<nodeUtxos, spent, amount, feeGiven, feePerVbytes, synced, addr>>

MultiResync0Done(r) ==
    /\ pc[r] = "mresync0" /\ reply[r] # NoReply
    /\ MultiResync(r, Args(r), Recorded(r, addr[r][0]), known \cup reply[r],
                   balance[r], required[r], 1)
    /\ UNCHANGED <<nodeUtxos, spent, amount, feeGiven, feePerVbytes, synced,
                   balance, addr, required>>

MultiResync1Done(r) ==
    /\ pc[r] = "mresync1" /\ reply[r] # NoReply
    /\ MultiSecondTransfer(r, Args(r), Recorded(r, addr[r][1]), known \cup reply[r],
                           required[r])
    /\ UNCHANGED <<nodeUtxos, spent, amount, feeGiven, feePerVbytes, synced,
                   balance, addr, required>>

-----------------------------------------------------------------------------
(* Signing and broadcast, both shapes *)

\* transaction_handler.rs 95-126 (160-307 for two senders): the ECDSA
\* signatures return, one per input; the call goes on to broadcast.
SignDone(r) ==
    /\ pc[r] = "sign"
    /\ pc' = [pc EXCEPT ![r] = "broadcast"]
    /\ UNCHANGED <<pool, known, nodeUtxos, spent, amount, feeGiven,
                   feePerVbytes, synced, balance, addr, required, built, reply, held>>

\* An ECDSA call fails (signer's .unwrap()): the call traps after the
\* utxos left the pool at the first await, so they stay out of it.
SignFails(r) ==
    /\ pc[r] = "sign"
    /\ Trap(r)
    /\ UNCHANGED <<nodeUtxos, spent, amount, feeGiven, feePerVbytes, synced,
                   balance, addr, required, built>>

\* transaction_handler.rs 127-136 (308-317): the network accepts a
\* transaction none of whose inputs is already spent, otherwise the
\* .unwrap() / .expect() of bitcoin_send_transaction traps.
Broadcast(r) ==
    /\ pc[r] = "broadcast"
    /\ IF held[r] \cap spent = {}
       THEN /\ spent' = spent \cup held[r]
            /\ pc' = [pc EXCEPT ![r] = "done"]
            /\ UNCHANGED <<pool, known, held, reply>>
       ELSE /\ Trap(r)
            /\ UNCHANGED spent
    /\ UNCHANGED <<nodeUtxos, amount, feeGiven, feePerVbytes, synced, balance, addr, required, built>>

\* Accepted transactions confirm: the node stops listing their inputs.
Confirm ==
    /\ nodeUtxos \cap spent # {}
    /\ nodeUtxos' = nodeUtxos \ spent
    /\ UNCHANGED <<pool, known, spent, pc, amount, feeGiven, feePerVbytes,
                   synced, balance, addr, required, built, reply, held>>

RequestStep(r) ==
    \/ NodeListsUtxos(r) \/ Sync1Done(r) \/ FeeRateDone(r) \/ Sync2Done(r)
    \/ MultiFeeRateDone(r) \/ MultiSync0Done(r) \/ MultiSync1Done(r)
    \/ MultiResync0Done(r) \/ MultiResync1Done(r)
    \/ SignDone(r) \/ SignFails(r) \/ Broadcast(r)

\* The setup task's steps; they touch only the config.
SetupStep == Setup /\ UNCHANGED walletVars

\* An upgrade, once every call has returned or trapped (the canister is
\* stopped first); the manager's pools are in stable memory and survive,
\* while the config is reset to its default (Lifecycle's Upgrade).
CanisterUpgrade ==
    /\ \A r \in Requests : pc[r] \in {"idle", "done", "failed"}
    /\ Upgrade
    /\ UNCHANGED walletVars

Next ==
    \/ /\ \/ \E r \in Requests :
             \/ "single" \in Endpoints /\ Start(r)
             \/ "multi" \in Endpoints /\ MultiStart(r)
             \/ RequestStep(r)
          \/ Confirm
       /\ UNCHANGED lifecycleVars
    \/ SetupStep
    \/ CanisterUpgrade

\* The management canister answers every call, and the canister runs every
\* continuation whose answer has arrived: each call's own steps, and the
\* setup task's, are weakly fair (an armed timer fires).  Callers (Start),
\* confirmations and upgrades owe nothing.
Spec ==
    /\ Init /\ [][Next]_vars
    /\ \A r \in Requests : WF_vars(RequestStep(r) /\ UNCHANGED lifecycleVars)
    /\ WF_vars(SetupStep)

-----------------------------------------------------------------------------
(* Properties *)

\* Call r built a transaction: it is signing it, broadcasting it, or the
\* network accepted it (its inputs stay listed until it confirms).
Built(r) == pc[r] \in {"sign", "broadcast", "done"}

\* Spec 3: "A UTXO handed out by the manager is removed from its pool until
\* explicitly returned. No two concurrent builds may see the same UTXO."
\* No output is an input of two calls' built transactions: neither while
\* the first is being signed nor after the network accepted it.
NoDoubleSelection ==
    \A r1, r2 \in Requests :
        r1 # r2 /\ Built(r1) /\ Built(r2) => held[r1] \cap held[r2] = {}

\* No output the manager ever recorded disappears while still unspent: it
\* is in the pool, or it is an input of some call's transaction (in flight,
\* or leaked by a call that trapped after its first await).  Borrowing in
\* the fee loop, the Err paths and the traps must all put it back.
NoUtxoVanishes ==
    \A u \in known \ spent :
        u \in pool[Owner[u]] \/ \E r \in Requests : u \in held[r]

\* What the LegoBitcoin arm of transaction_handler.rs re-assembles from the
\* two senders' utxos, the two halves of the amount and the fee, and then
\* signs, is the transaction multi_sender_txn::transfer built: the same
\* receiver output and the same change for each sender.
MultiSignedMatchesBuilt ==
    \A r \in Requests :
        built[r].tx.ok =>
            LET amt == SplitAmount(amount[r]) IN
            LegoOutputs(addr[r][0], addr[r][1], built[r].tx.utxos0, built[r].tx.utxos1,
                        amt[1], amt[2], built[r].fee) = built[r].tx.outputs

\* Every input of a two-sender transaction is signed with the key of the
\* address that owns it: principal0's key at the positions the LegoBitcoin
\* arm recorded while pushing principal0's utxos, the caller's elsewhere.
\* A wrong key makes the network reject the transaction after its inputs
\* left both senders' pools.
MultiInputsSignedByOwner ==
    \A r \in Requests :
        built[r].tx.ok =>
            LET t == built[r].tx
                ins == LegoInputs(t.utxos0, t.utxos1)
            IN \A p \in 0 .. Len(ins) - 1 :
                  Owner[ins[p + 1]] = LegoSigner(addr[r][0], addr[r][1], t.utxos0, p)

\* Value paid to address a by the outputs of a two-sender transaction.
PaidTo(outs, a) == MapThenSumSet(LAMBDA i : outs[i].value, {i \in DOMAIN outs : outs[i].to = a})

\* A two-sender transaction the call goes on to sign pays the fee its own
\* size costs at the call's rate (the fixed point of transfer()'s loop),
\* and each sender's inputs pay exactly its half of the amount, its share
\* of that fee and its change, or leave at most the dust limit to the fee.
\* (The senders of the model are distinct addresses.)
MultiFeePaid ==
    \A r \in Requests :
        built[r].tx.ok =>
            LET tx == built[r].tx
                f == built[r].fee
                amt == SplitAmount(amount[r])
                in(i) == SumValue(IF i = 0 THEN tx.utxos0 ELSE tx.utxos1)
            IN /\ f = MultiFeeFor(tx, feePerVbytes[r])
               /\ \A i \in Slots :
                     in(i) - PaidTo(tx.outputs, addr[r][i]) - amt[i + 1] - SplitFee(f)[i + 1]
                        \in 0 .. DUST_THRESHOLD

\* Every withdraw_bitcoin call that has started eventually returns a txid
\* or traps: the second build is the last retry.
CallsTerminate ==
    \A r \in Requests : pc[r] # "idle" ~> pc[r] \in {"done", "failed"}

=============================================================================
