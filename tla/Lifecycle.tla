----------------------------- MODULE Lifecycle -----------------------------
(***************************************************************************)
(* The wallet canister's config (src/wallet/src/state/config.rs) and its   *)
(* lifecycle (lib.rs 34-71): init stores the network and its key name and  *)
(* arms a 0-second timer; the timer's task, lazy_ecdsa_setup, awaits the   *)
(* management canister's ecdsa_public_key and caches the key.  Every       *)
(* endpoint derives the caller's address from that key                     *)
(* (generate_addresses_from_principal -> account_to_p2pkh_address ->       *)
(* config.ecdsa_public_key()), which traps while it is not cached.         *)
(*                                                                         *)
(* The key is abstracted to the name it was fetched for: the management    *)
(* canister returns one key per key name.                                  *)
(***************************************************************************)
EXTENDS Naturals

CONSTANTS
    Networks,   \* the BitcoinNetwork values init may be given
    NoKey       \* model value: ecdsa_public_key is None

VARIABLES
    network,    \* config.bitcoin_network: a BitcoinNetwork, or Unset (None)
    keyname,    \* config.keyname: a key name, or Unset (None)
    ecdsaKey,   \* config.ecdsa_public_key: NoKey, or the key of a key name
    setup       \* "armed" (timer pending), "awaiting" (ecdsa_public_key
                \* outstanding), "over" (no setup task left)

lifecycleVars == <<network, keyname, ecdsaKey, setup>>

BitcoinNetwork == {"mainnet", "testnet", "regtest"}

ASSUME Networks \subseteq BitcoinNetwork

\* A None field of Config::default() (config.rs 15-20).
Unset == "unset"

\* lib.rs 53-57: the threshold-ECDSA key name of each network.
KeyName(n) ==
    CASE n = "mainnet" -> "key_1"
      [] n = "testnet" -> "test_key_1"
      [] n = "regtest" -> "dfx_test_key"

LifecycleTypeOK ==
    /\ network \in BitcoinNetwork \cup {Unset}
    /\ keyname = IF network = Unset THEN Unset ELSE KeyName(network)
    /\ ecdsaKey \in {NoKey} \cup {KeyName(n) : n \in BitcoinNetwork}
    /\ setup \in {"armed", "awaiting", "over"}

\* lib.rs 51-65 on the StableCell of config.rs 68-76 (Config::default()
\* until then): init writes the network and the key name, leaves the key
\* None and arms the setup timer.
LifecycleInit ==
    /\ network \in Networks
    /\ keyname = KeyName(network)
    /\ ecdsaKey = NoKey
    /\ setup = "armed"

\* lib.rs 34-43 up to its await: the timer fires and the spawned task reads
\* the key id (config.keyname(), config.rs 43-48 and 59-65) and calls
\* ecdsa_public_key.
SetupFires ==
    /\ setup = "armed"
    /\ setup' = "awaiting"
    /\ UNCHANGED <<network, keyname, ecdsaKey>>

\* lib.rs 42-50: the reply.  Ok: the key of the configured name is written
\* into the config.  Err: .expect traps, nothing is written, and no code
\* arms the timer again.
SetupReply ==
    /\ setup = "awaiting"
    /\ \/ ecdsaKey' = keyname
       \/ UNCHANGED ecdsaKey
    /\ setup' = "over"
    /\ UNCHANGED <<network, keyname>>

Setup == SetupFires \/ SetupReply

\* lib.rs 67-71 and config.rs 70-74: an upgrade of the stopped canister, so
\* no call context is open (the setup's call, if any, has been answered).
\* pre_upgrade and post_upgrade are empty: the old instance's timers are
\* dropped and none is armed, and init is not run again.  The new
\* instance's config cell is made by StableConfig::new(memory,
\* Config::default()), which writes the default over the stored config:
\* network, key name and key are all None again.
Upgrade ==
    /\ setup # "awaiting"
    /\ setup' = "over"
    /\ network' = Unset /\ keyname' = Unset /\ ecdsaKey' = NoKey

\* config.rs 51-57: the cached key, which every address derivation reads;
\* config.ecdsa_public_key() traps without it.
KeyReady == ecdsaKey # NoKey

=============================================================================
