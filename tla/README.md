# TLA+ models of the Ord-Indexer wallet and indexer canisters

This directory holds TLA+ models of the custodial Bitcoin + Rune wallet canister
in `src/wallet/src` and of the rune indexer's sync loop in
`src/ord_canister/src/index.rs`, and the TLC configurations that check them. Every
definition is written from the Rust source. A few definitions come from
`spec.md` instead, because the code they stand for (the UTXO manager
`state::UtxoManager`, the synchronizer `updater.rs` and the signer
`bitcoin/signer.rs`, and the indexer's `updater.rs`) is not among the
repository files at hand. PROJECT.json
marks those with `spec_modelled`.

## 1. Inventory

### Components and their state

| Component | Source | State | Operations |
|---|---|---|---|
| Addressing | `bitcoin/address.rs`, `utils.rs` | none | `principal_to_subaccount`, `generate_addresses_from_principal`, `account_to_p2pkh_address`, `address_validation` |
| Config / lifecycle | `state/config.rs`, `lib.rs` 34-72 | network, key name, cached ECDSA key (stable cell, reset to `Config::default()` by every upgrade) | `init` (and a 0 s timer that runs `lazy_ecdsa_setup`), empty `pre_upgrade`/`post_upgrade` |
| UTXO manager | not at hand (spec 4.2) | per address: plain pool; per (address, rune): runic pool | `get_bitcoin_utxo`, `get_runic_utxo`, `record_btc_utxos`, `record_runic_utxos`, `get_bitcoin_balance`, `get_runestone_balance`, `all_rune_with_balances` |
| Synchronizer | not at hand (spec 4.5) | none of its own | `fetch_utxos_and_update_balances(addr, target)`: awaits `bitcoin_get_utxos` (and the rune indexer), records into the manager |
| Builders (4 shapes) | `bitcoin/transaction.rs`, `multi_sender_txn.rs`, `runestone.rs`, `combined_txn.rs` | borrow from the manager during one synchronous call | `transfer()`: fee fixed-point loop around `build_transaction_with_fee` |
| Signing coordinator | `transaction_handler.rs` | none | `build_and_submit`: re-assemble (3 shapes), one ECDSA await per input, `bitcoin_send_transaction` |
| Orchestrator | `lib.rs` 74-524 | per call: `utxo_synced`, `current_balance` across awaits | `withdraw_bitcoin`, `withdraw_bitcoin_from_multiple_addresses`, `withdraw_runestone`, `withdraw_runestone_with_fee_paid_by_receiver`, `withdraw_combined`, balance queries |
| Rune indexer canister | `ord_canister/src/index.rs` | indexed height, rune tables (separate canister) | `sync` timer loop: compare with RPC best, reorg check, `index_block` |

### How they interact

A call from a user runs in `lib.rs`. It reads balances from the manager. If
they are short, it awaits the synchronizer. It may await the node's fee
percentiles. Then it calls a builder. The builder's `transfer()` borrows
outputs from the manager and may give them back, all inside one synchronous
piece of code. Last, `build_and_submit` awaits one ECDSA signature per input
and then the broadcast.

The canister is single-threaded, but calls interleave at every await. On the
Internet Computer the state a call changed before an await is committed, and a
trap rolls back only to the last await. So:

- a build that traps (an `unwrap`, `"not enough balance"`, or the instruction
  limit) undoes its own takes and returns;
- outputs taken before the first ECDSA await stay out of the pool if signing
  or the broadcast later traps.

### What is hard

- **Interleaving at awaits.** Two calls on one address share the pool. The
  synchronizer's deduplication is only against the pool. So a sync re-records
  outputs another call has borrowed, or outputs just broadcast but not yet
  confirmed.
- **Termination of the fee loop.** The loop tests `new_fee == fee` for
  equality. A fee that decides whether the change output exists can make it
  alternate between two values forever.
- **Partial failure.** A trap after the first await leaks the borrowed outputs
  until a sync. A missed return in a retry path loses them for good.
- **Arithmetic edges.** Change at the dust threshold; the receiver amount has
  no lower bound; `2*postage - btc_in_runic` is u64 and underflows (rune and
  combined builders).
- **Protocol sequence.** The retry-once logic of each endpoint mixes a balance
  read before an await with the builder's shortfall after it.

### Properties that make each component correct

- **Manager and builders:** borrowing is conservative (nothing lost or
  duplicated); a built transaction balances (inputs = outputs + fee + a
  dropped dust change); no output is dust; the fee loop terminates; runes are
  conserved; runic outputs never fund bitcoin.
- **Orchestrator:** no two in-flight calls spend one output; the pool never
  offers spent outputs; no unspent output vanishes; every call terminates
  (retry at most once).
- **Signing:** the transaction signed is the one whose fee was measured.

## 2. Plan

Modules, in order of importance. Those marked ✓ exist.

1. ✓ `UtxoManager`: plain pool operators and the builders' take-until loop.
2. ✓ `Transaction`: the plain-bitcoin builder and its fee loop as pure
   operators (`RECURSIVE TransferLoop`).
3. ✓ `FeeLoop`: the same loop one iteration per step, for termination and
   conservation.
4. ✓ `WithdrawBitcoin` (composes 1-2 with the synchronizer, signer and
   network): concurrent `withdraw_bitcoin` calls.
5. ✓ `Runestone` and `RuneTransfer`: the `runestone.rs` builder with runic
   pools, u64 arithmetic modulo a reduced word, and where the runes land
   (edict to output 2, implicit change to output 1).
6. ✓ `WithdrawRune`: both rune endpoints (fee payer, receiver-pays divergence).
7. ✓ `MultiSender`: the two-sender builder, with its sign-time re-assembly
   (`LegoOutputs`) checked against it inside `WithdrawBitcoin`, which now
   composes `withdraw_bitcoin_from_multiple_addresses` with `withdraw_bitcoin`.
8. ✓ `Combined`: the combined builder and the signer's Combined arm,
   composed into `WithdrawRune` as `withdraw_combined`.
9. ✓ `OrdSync`: the indexer's timer loop (reorg detection, retry with a delay).
10. `Wallet`: all endpoints on shared pools of two addresses.
11. ✓ `Lifecycle`: the config, `init`'s setup timer, `lazy_ecdsa_setup` and
    upgrades, composed into `WithdrawBitcoin` (calls racing the setup).
12. ✓ `Addressing`: subaccounts, P2PKH addresses and `address_validation`,
    with hashes as injections, composed into `WithdrawBitcoin`.

Abstract specification: ✓ `BuilderContract` states what `transfer()`
promises its caller as one atomic step (spec 4.3): an Ok transaction draws
its inputs from the pool, pays the amount, a change above the dust limit or
none, and **exactly** the fee of its own size ("not when it dominates"); an
Err leaves the pool as it was with a shortfall above the balance and at most
the amount plus the largest fee the pool can cost. `FeeLoop` implements it
(`ImplementsContract`, via `INSTANCE BuilderContract WITH outputs <-
tx.outputs, paid <- fee, shortfall <- tx.required, rate <- feePerVbytes`):
the retries are stuttering steps, since each gives its inputs back. The
contract is safety only; termination is the `fee_loop_termination` finding.

Abstract specification: ✓ `IndexLedger` states what the indexer promises
of the blocks it applies: a ledger that starts at `set_beginning_block`'s
block and grows one block at a time. Each block builds on the last and none
lies above the stop height. `OrdSync` implements it
(`ImplementsIndexLedger`, `INSTANCE IndexLedger` with the same `applied`).
The node, the loop's locals and the failures are hidden. Every loop step
that does not apply a block is a stuttering step.

A further abstraction worth stating is the manager as a **lending
library**: every output is available, lent to exactly one call, or gone
(spent). `WithdrawBitcoin` would refine it, except that the synchronizer
breaks it (the `withdraw_double_selection` finding).

## 3. Modules

| Module | Models | State ↔ code |
|---|---|---|
| `UtxoManager` | spec 4.2; selection loops of `transaction.rs` 55-71 and `multi_sender_txn.rs` 117-136 | a pool is a set of utxo model values; `Value` gives each one's sats. `TakeUntil(pool, t)` is the set of results the `while let Some(utxo) = get_bitcoin_utxo` loop can return, for every order the manager may hand outputs out in; `TakeUntilAtLeast` is the same with the two-sender loop's `>=` exit test. |
| `MultiSender` | `multi_sender_txn.rs`, `lib.rs` 151-160, `transaction_handler.rs` 138-234 | pools are a function from address to set. `SplitAmount` (extra satoshi to principal0) and `SplitFee` (extra satoshi to the caller); `BuildMultiWithFee` is one pass (both take loops, Err with both totals, outputs `[to, value]`: the receiver, then each sender's change above the dust limit); `MultiTransferLoop` is the whole `transfer()` with both senders' inputs given back on every retry. `LegoOutputs` is the signer's re-assembly of the outputs (`transaction_handler.rs` 194-234), transcribed on its own (its own even/odd fee split, `remaining` and dust tests) rather than through `SplitFee` and `MultiOutputs`, so `MultiSignedMatchesBuilt` compares two independent translations. |
| `Transaction` | `transaction.rs` | `BuildTransactionWithFee` returns the transactions one pass can build (`ok`, `required`, `inputs`, `outputs`). `MockVsize` is `10 + 148·in + 34·out` (the mock signature is 72 + 33 bytes). `TransferLoop` is the whole `transfer()` loop; its fuel stands for the instruction limit, which turns a loop that never converges into a trap. |
| `FeeLoop` | `transfer()` | one action per iteration outcome: `BuildShort` (Err), `BuildConverged` (Ok) and `BuildRetry` (return the inputs, new fee). |
| `BuilderContract` | spec 4.3 (the contract of `transfer()`) | abstract: `Returns` (Ok in one step) and `Fails` (Err); `FeeLoop` instantiates it as `Contract` with a refinement mapping. |
| `Runestone` | `runestone.rs` 96-252, Runes protocol | `RuneBal[u][x]` is the balance of rune x in utxo u; the runic pool of x is every deposited utxo with some x (one manager entry per (utxo, rune) pair, spec 3). `BuildRuneTransactionWithFee` is one pass: the runic loop (`TakeUntilBy` weighted by balance), the postage arithmetic with `U64Sub`/`U64Add` modulo `2^WordBits`, the fee loop, the outputs as records `[to, value]`. `OpReturnSize` is the enciphered edict's size (LEB128 varints). `RunesAt` is the protocol's allocation: the edict to output 2 (amount 0 meaning all), the rest to the first non-OP_RETURN output. |
| `RuneTransfer` | `runestone.rs` 33-94 | one `transfer()` call, one iteration per action: `BuildRuneShort` (Err on runes, runic utxos returned), `BuildBtcShort` (Err on bitcoin: fee utxos returned, runic utxos not), `BuildConverged`, `BuildRetry` (both returned, new fee). |
| `Combined` | `combined_txn.rs`, `transaction_handler.rs` 532-783 | `BuildCombinedWithFee` is one pass with `paid_by_sender = false`: the runic loop drains the rune's whole runic pool, the sender's loop pays `btc_amount`, the receiver's loop pays the fee plus the postage deficit (`U64Sub`/`U64Add`); a transaction record gains `btc_utxos`. `CombinedTransferLoop` is `transfer()`. `CombinedInputs` is the input order (runic, sender's, receiver's), `CombinedReceiverIndices` the signer's `index_of_utxos_receiver`, `ReassembleCombined` its copy of the output code. |
| `WithdrawRune` | `lib.rs` 262-489, `transaction_handler.rs` 334-783 | one call of `withdraw_runestone` (`sender_pays`), `withdraw_runestone_with_fee_paid_by_receiver` (`receiver_pays`) or `withdraw_combined` (`combined`). `call[r].pc` is the await it waits at (`fee`, `sync1`, `sync2`, `csync1` and `csync2` for the combined endpoint's syncs of the sender and the receiver, `sign`, `broadcast`); `plain[a]`, `runic[a][x]` are the manager's pools of address a; `Transfers` is the whole `runestone::transfer` (`RuneTransferLoop`); `FirstBuild`/`SecondBuild` are the code after the first and second `transfer`; `Trap` keeps the pools of the last await. `Reassemble` is the sign-time re-assembly of the rune outputs. `CombinedBuild` is the combined `transfer` and its `unwrap`. `BalanceOf` is `get_runestone_balance_of` from any principal: a sync of either address between any two steps. |
| `IndexLedger` | spec 5 | the abstract ledger: `applied` only; `Apply` appends a block on top of the last one, up to `StopHeight`. |
| `OrdSync` | `ord_canister/src/index.rs` 20-26, 107-177 | `chain` is the node's best chain, a sequence of branch ids; the hash of the block at height h is the prefix of length h, so a block's `prev_blockhash` is its `Front`. `applied` is the blocks `index_block` applied (its `Last` is `highest_block`). `pc` is where the one sync task is (`timer` armed; awaiting `best`, the tip's hash, then `header`, its height, then `block`, then `index`; or `stopped` at 840 000). `height`, `current`, `best` and `blk` are its locals. The node may move between the hash and the header, and the pass decides on the header's height. `Mine` and `Reorg` are the node; `Fail` is an Err from any awaited call. |
| `Lifecycle` | `lib.rs` 34-71, `state/config.rs` | `network`, `keyname`, `ecdsaKey` are the `StableCell` config; the key is abstracted to the key name it was fetched for. `setup` is the setup task: `armed` (0 s timer pending), `awaiting` (`ecdsa_public_key` outstanding), `over`. `SetupFires`, `SetupReply` (Ok caches the key; Err traps and nothing re-arms the timer), `Upgrade` (empty hooks: timers dropped; `init_stable_config` makes the cell with `StableConfig::new(memory, Config::default())`, which overwrites the stored config, so network, key name and key are all `Unset`/`NoKey` again). `KeyReady` is the guard every address derivation needs. |
| `Addressing` | `utils.rs`, `bitcoin/address.rs`, `lib.rs` 497-505 | pure operators on the config's `network` and `ecdsaKey`. A hash is its tagged preimage (collision resistance as injectivity): `PrincipalToSubaccount` is SHA3 of the principal's bytes; `SubaccountWithNum` is SHA3 of the canister id's bytes and `ToBeBytes(num, 16)`. `AccountToP2pkhAddress` is a record of the version byte (`0` mainnet, `111` otherwise) and the key hash of the key derived along `DerivationPath` (owner bytes, subaccount; spec 4.1, as `account_to_derivation_path` is not under `src/`). Base58 and the checksum are a bijection of that record and are left out. `AddressValidation` returns `parse_error`, `network_error` or `ok`, with the bitcoin crate's rule that a legacy address is valid on mainnet exactly when its version byte is mainnet's. |
| `WithdrawBitcoin` | `lib.rs` 75-259, `transaction_handler.rs` 86-137, spec 4.5 | each call is one of the two endpoints. `pc[r]` marks the await a call is suspended at (`withdraw_bitcoin`: `sync1`, `fee`, `sync2`; the two-sender endpoint: `mfee`, `msync0`, `msync1`, `mresync0`, `mresync1`; both: `sign`, `broadcast`); each action is the code between two awaits, and `Trap` rolls back the shared state. `pool[a]` is the manager's pool of address a; `addr[r]`, `synced[r]`, `balance[r]`, `required[r]` are the call's two addresses, `utxo_synced0/1`, `current_balance0/1` and the Err's required amounts; `built[r]` is the two-sender transaction and fee kept for signing. `nodeUtxos` is what `bitcoin_get_utxos` lists; `spent` is the inputs of accepted transactions; `held[r]` is the inputs of r's transaction; `known` is a ghost variable. `Transfers` and `MultiTransfers` tabulate the builders' loops once over every pool of the model. `Lifecycle` is composed in: `Start` and `MultiStart` need `KeyReady`; `SetupStep` and `CanisterUpgrade` (only with no call suspended, as the canister is stopped first) change only the config. `LegoSigner` is the LegoBitcoin arm's choice of key per input. |

## 4. Runs

| Run | Checks | Result |
|---|---|---|
| `fee_loop_safety` (`MCFeeLoop`, `FeeLoop.cfg`) | `PoolConservation`, `TxBalanced`, `ImplementsContract` (refines `BuilderContract`) over 4 outputs (all 16 starting pools), 3 amounts, 2 fee rates | pass |
| `fee_loop_termination` (`FeeLoopTermination.cfg`) | `FeeLoopTerminates` from the single 51210-sat output | **violated**: the fee cycles 226 → 192 → 226 for a 50000-sat withdrawal at 1 sat/vbyte |
| `withdraw_bitcoin` (`MCWithdrawBitcoin`, `WithdrawBitcoin.cfg`) | `NoUtxoVanishes`, `MultiSignedMatchesBuilt`, `MultiFeePaid`, `MultiInputsSignedByOwner`, `OwnAddressesValid`, `CallsTerminate`: setup, upgrades and 2 calls, each of either endpoint; 3 deposits to the caller and 2 to principal0; 40000 for `withdraw_bitcoin`, 30001 and 49800 for the two-sender endpoint; with or without a given fee | pass (≈33 500 states) |
| `withdraw_double_selection` | `NoDoubleSelection` | **violated**: call B's sync re-records the outputs call A is signing with (TLC's shortest trace); also reachable after A's broadcast, while the node still lists A's inputs (mempool window) |
| `rune_transfer` (`MCRuneTransfer`, `RuneTransfer.cfg`) | `TxBalanced`, `ReceiverGetsAmount`: all 32 deposits of 2 plain and 3 single-rune outputs, 2 runes, amounts 80/100/250, 2 fee rates | pass (≈1 100 states) |
| `withdraw_rune` (`MCWithdrawRune`, `WithdrawRune.cfg`) | `SignedMatchesBuilt`, `CombinedInputsSignedByOwner`, `CombinedTxBalanced`, `CombinedReceiverGetsAmount`, `CallsTerminate`: the three endpoints, every deposit subset of 5 outputs, rune amounts 100/250, `btc_amount` 5000/40000, and third-party `get_runestone_balance_of` syncs of either address | pass (≈6 800 states) |
| `withdraw_rune_fee_payer` | `FeePaidByReceiver` | **violated**: the receiver-pays endpoint builds with the sender's plain pool, so the sender pays the fee |
| `withdraw_rune_shortfall_sync` | `ShortfallSyncsPayer` | **violated**: an `Err((0, fee))` with the fee still 0 skips the sender's re-sync and fails without it |
| `withdraw_rune_pools_restored` | `RunicPoolsRestored` | **violated**: the BTC shortfall drops the runic utxos, and the receiver's sync await commits the loss |
| `rune_multi_rune` | `ReceiverGetsAmount` with one output holding two runes | **violated**: no runestone, so both runes go to the receiver |
| `rune_underflow` | `ShortOnlyWhenUnfunded` with a 25000-sat runic output | **violated**: `2*postage - btc_in_runic` wraps and a funded transfer fails |
| `ord_sync` (`OrdSync.cfg`) | `ImplementsIndexLedger` (refines `IndexLedger`), `CatchesUp`: heights 1..5, one confirmation, stop at 3, up to 2 reorganisations and 2 failed calls | pass (≈10 000 states) |

Every property of a passing run has a mutant in PROJECT.json: a plausible bug
in the mapped code that TLC must catch. Among them: a retry that does not
return its outputs, change computed without the fee, a second sync that
retries without bound, runic utxos returned to the plain pool, and the two
rune postage outputs dropped or swapped.

### Bounds

- **FeeLoop.** The values put one output (u4) exactly in the band where the
  change output exists at the 1-output fee but not at the 2-output fee. They
  also cover multi-input selections and change below the dust limit.
- **WithdrawBitcoin.** Two calls suffice for every pairwise interleaving of
  awaits. The caller's three deposits (30000, 25000, 12000) make a 40000
  withdrawal need two outputs, and 40000 + 40000 exceeds the 67000 sats
  held, so shortfalls, second syncs and traps occur (the double-selection
  run also uses 20000). Principal0 holds 15000 and 10000. The two-sender
  amounts are chosen for the paths they open: 30001 is odd (the extra
  satoshi to principal0) and succeeds; 49800 asks 24900 of each sender, just
  under principal0's 25000 and the caller's 25000 output, so the first read
  passes and the build fails on the fee: both re-sync branches and the
  second build happen. The rate 1250 makes the fee of a 3-input, 3-output
  transaction odd, so the fee split matters (at 1000 every fee is even).
  One network (`regtest`): the network selects the key name and the
  address version byte, and mainnet's byte is left unchecked (see "Not
  modelled"). Principals are two self-authenticating ones and the anonymous
  one. The numbers are 0, 1, 255 and 256, so they fall on both sides of a
  byte boundary of `to_be_bytes`. The
  setup's Ok and Err replies and an upgrade before or after the timer fires
  all occur.
  With `MaxFeeRounds = 3`, every loop of the model gives the same non-trap
  outcomes and the same trap possibility as at 8 rounds.
  Such loops cycle because the manager may hand out outputs in a different
  order on each retry (one input, then two, then one, ...). Spec 4.2 gives no
  order guarantee, so the model allows every order.

- **WithdrawRune.** One call at a time: the questions are about one call's
  sequence of awaits, and two calls would only repeat the double selection
  of `WithdrawBitcoin`. Every subset of the five outputs may already be in
  the manager. `MaxFeeRounds = 3`: for every deposit set and amount of this
  model, the loop's non-trap outcomes at 3 rounds are those at 8. The
  combined endpoint syncs both addresses first, so it always sees all of
  `a1`, `a2` (19946 sats, under the 20000 postage: the transaction is built
  and its properties are checked); `btc_amount` 40000 exceeds the sender's
  30300 sats, so the sender's shortfall and its trap occur. The u64 wrap of
  `combined_txn.rs:155` needs runic outputs above the postage, the case the
  `rune_underflow` run shows for the identical rune-builder code.
- **OrdSync.** Five heights are enough for a reorganisation below
  `highest_block` (orphaning it), one between `get_best_from_rpc` and
  `get_block` (the prev-hash check), and mining on past the stop height
  (`StopHeight + 1 + REQUIRED_CONFIRMATIONS = 5`), so an off-by-one in the
  840 000 test is visible. Heights and the stop are scaled down: the loop's
  control does not depend on their size.
- **RuneTransfer.** `a1`, `a2` (100 and 150 runes, spec scenario E3) make
  the runic loop take one or two outputs, with and without rune change; `b1`
  alone pays 80 exactly (no runestone); `p2` (8000 sats) cannot pay two
  postages, so both shortfalls occur. `WordBits = 24`: every real sum is
  below 2^24, so only an underflow wraps, as with u64.

### Fairness

- **FeeLoop.** `WF_vars(Next)`: `transfer()` has no await, so once called it
  runs until it returns or traps.
- **RuneTransfer.** No fairness: termination is not checked here (the loop
  can cycle like the plain one; `fee_loop_termination` shows how).
- **WithdrawRune.** Each call's continuations are weakly fair, as in
  `WithdrawBitcoin`: every awaited management-canister call is answered.
- **OrdSync.** The loop's steps are weakly fair: the timer fires and every
  awaited call returns, Ok or Err. The node gets no fairness, and its
  mining, reorganisations and failures are bounded, so `CatchesUp` is about
  the loop once the node has settled.
- **WithdrawBitcoin.** Each call's continuations are weakly fair. The
  management canister answers every call, and the canister runs a delivered
  reply. Callers (`Start`, `MultiStart`) and block confirmations get no
  fairness. The setup task's steps are weakly fair (an armed timer fires,
  the management canister answers); upgrades get none.

## 5. Not modelled, and why

- **Left out entirely.** The bytes of hashing, key derivation, base58,
  sighash, DER and consensus serialization: byte formatting beyond TLC's
  reach with no control flow of interest. `Addressing` keeps hashes and key
  derivation as injections. Runestone encoding: the external ordinals library.
- **Synchronizer.** Its target argument is ignored: it records every output
  listed.
- **New outputs.** Outputs created by the wallet's own transactions (change,
  postage) are not fed back to the node; each model's deposits are fixed.
- **paid_by_sender = false** in the rune builder, and `true` in the
  combined builder: no caller passes it.
- **Indexer.** `updater.rs` is not at hand: `index_block` is modelled as
  appending the block on Ok and changing nothing on Err. The rune tables and
  the query endpoints (`get_runes_by_utxo` and the like) are read-only and
  not modelled. After a reorganisation below `highest_block` the loop has no
  rollback and never indexes again; `CatchesUp` excludes that case, and the
  hazard list records it.
- **Lifecycle.** An upgrade is taken only with no call suspended: the
  canister is stopped first, which waits for open call contexts. An Err
  from `ecdsa_public_key`, or an upgrade before the timer fires, leaves the
  key uncached for good (no call can start again). The model reaches both.
  No property states "every call is eventually served", because the code
  does not keep that promise under any fairness it justifies; the hazard
  list records it. After an upgrade the config is `Config::default()`:
  `bitcoin_network()`, `keyname()` and `ecdsa_public_key()` all trap, which
  the model has as no call starting again (`Start` needs `KeyReady`). No
  run states "the key survives an upgrade", which TLC would find violated
  in one `CanisterUpgrade` step; the hazard list records the reset at
  `config.rs:73`.
- **Third-party sync.** Any principal may call `get_runestone_balance_of`
  (`lib.rs` 519-523) to sync any address. `WithdrawRune` models it
  (`BalanceOf`), but `WithdrawBitcoin` does not, because the extra
  interleavings would push `withdraw_bitcoin`'s states past its mutants'
  time limit. One such sync between a rune withdrawal's build and its
  broadcast leaves the inputs in the pool after they are spent. The hazard
  list records this. `get_bitcoin_balance_of` only reads the node.
- **Addressing.** `withdraw_bitcoin` runs on regtest only, because all
  three networks triple its states (170 s). So `OwnAddressesValid` checks
  the `_ => 0x6f` arm and the crate's test-network rule, not mainnet's
  arm. `Principals` holds the classes a caller can have: 29-byte
  self-authenticating principals and the anonymous one. A `Principal`
  argument (`to` of `withdraw_runestone_with_fee_paid_by_receiver`,
  `receiver_principal` of `withdraw_combined`) may be any 29 bytes or
  fewer. A 26-byte one made of the canister id and the 16 bytes of a number
  gets the address of `generate_address(num)`. No run checks address
  distinctness; the hazard list records this collision.
- **Zero amounts.** No run includes an amount of 0. A 0-rune withdrawal
  builds an edict that hands the receiver every unit of that rune in the
  inputs. Adding 0 to `rune_transfer`'s amounts makes TLC report
  `ReceiverGetsAmount` violated, and the hazard list records this.
- **Planned.** A refinement of the manager by an abstract lending library,
  listed in the plan above.
