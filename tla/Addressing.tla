----------------------------- MODULE Addressing -----------------------------
(***************************************************************************)
(* The wallet's addressing (src/wallet/src/utils.rs and                    *)
(* src/wallet/src/bitcoin/address.rs): the account of a caller or of a     *)
(* number, its P2PKH address on the configured network, and                *)
(* address_validation, which every endpoint applies to those addresses     *)
(* with .unwrap().                                                         *)
(*                                                                         *)
(* Hashes are collision-resistant, so each is modelled as an injection: a  *)
(* digest is represented by its preimage.  SHA3-256, child key derivation  *)
(* and RIPEMD-160(SHA-256(.)) each get a tag of their own.  Base58 is a    *)
(* bijection between the 25 payload bytes and the string, and the checksum *)
(* is a function of the other 21 bytes.  So an address string is           *)
(* represented by its version byte and its key hash, and parsing it gives  *)
(* them back.  A string that is not an address is the model value          *)
(* Unparsable.                                                             *)
(***************************************************************************)
EXTENDS Lifecycle, Sequences

CONSTANTS
    Principals,     \* the principals whose deposit addresses are derived
    CanisterId,     \* ic_cdk::id(), the owner of every account
    PrincipalBytes, \* PrincipalBytes[p]: p.as_slice(), a sequence of bytes
    Nums,           \* the numbers generate_address is called with
    Unparsable      \* a string that does not parse as an address

ASSUME CanisterId \in DOMAIN PrincipalBytes /\ Principals \subseteq DOMAIN PrincipalBytes

\* The version bytes of mainnet's legacy addresses (P2PKH and P2SH).
MainPrefixes == {0, 5}

\* u128::to_be_bytes: w bytes, most significant first.
RECURSIVE ToBeBytes(_, _)
ToBeBytes(num, w) ==
    IF w = 0 THEN << >> ELSE ToBeBytes(num \div 256, w - 1) \o << num % 256 >>

Sha3(bytes) == <<"sha3", bytes>>

\* utils.rs 13-19: the subaccount of a principal is SHA3-256 of its bytes.
PrincipalToSubaccount(p) == Sha3(PrincipalBytes[p])

\* utils.rs 35-42: SHA3-256 of the canister id followed by the number's 16
\* big-endian bytes.  The buffer's 0x08 fill is overwritten by finalize.
SubaccountWithNum(num) == Sha3(PrincipalBytes[CanisterId] \o ToBeBytes(num, 16))

\* utils.rs 21-33: a caller's account is the canister's, with the caller's
\* subaccount.
DepositAccount(p) == [owner |-> CanisterId, subaccount |-> PrincipalToSubaccount(p)]

\* lib.rs 497-505: generate_address(num)'s account.
NumberedAccount(num) == [owner |-> CanisterId, subaccount |-> SubaccountWithNum(num)]

\* account_to_derivation_path (bitcoin/utils.rs): the owner's bytes and the
\* subaccount (spec 4.1).
DerivationPath(acct) == << PrincipalBytes[acct.owner], acct.subaccount >>

\* Mutation of AccountToP2pkhAddress: the prefix match reversed, the
\* mainnet prefix for the test networks.
AccountToP2pkhAddressPrefixSwapped(n, key, acct) ==
    [prefix |-> IF n = "mainnet" THEN 111 ELSE 0,
     hash   |-> <<"hash160", <<"derive", key, DerivationPath(acct)>> >>]

\* address.rs 35-53: the version byte of the network (0x00 mainnet, 0x6f
\* otherwise), then RIPEMD-160(SHA-256) of the key derived from the cached
\* key along the account's path.
AccountToP2pkhAddress(n, key, acct) ==
    [prefix |-> IF n = "mainnet" THEN 0 ELSE 111,
     hash   |-> <<"hash160", <<"derive", key, DerivationPath(acct)>> >>]

\* address.rs 12-16: the bitcoin crate's network of the configured one.
CrateNetwork(n) == CASE n = "mainnet" -> "bitcoin"
                     [] n = "testnet" -> "testnet"
                     [] n = "regtest" -> "regtest"

\* address.rs 18-22: the bitcoin crate's test.  A legacy address records
\* only whether its version byte is mainnet's; one of a test network is
\* valid for every test network (regtest shares testnet's version bytes).
IsValidForNetwork(a, cn) ==
    IF a.prefix \in MainPrefixes THEN cn = "bitcoin" ELSE cn # "bitcoin"

\* address.rs 10-33: Err on a string that does not parse, Err when the
\* address is not valid for the configured network, else Ok
\* (require_network succeeds on an address valid for the network).
AddressValidation(n, s) ==
    CASE s = Unparsable -> "parse_error"
      [] ~IsValidForNetwork(s, CrateNetwork(n)) -> "network_error"
      [] OTHER -> "ok"

\* The address of a caller and of a number on the configured network, from
\* the cached key.
DepositAddress(p) == AccountToP2pkhAddress(network, ecdsaKey, DepositAccount(p))
NumberedAddress(num) == AccountToP2pkhAddress(network, ecdsaKey, NumberedAccount(num))

-----------------------------------------------------------------------------
(* Properties *)

\* Once the key is cached, every address the wallet derives for itself
\* passes address_validation on the configured network:
\* account_to_p2pkh_address's prefix match and the crate network match of
\* address_validation agree, so the .unwrap()s of lib.rs 83, 163-164, 271,
\* 362-363 and 454-455 never trap on the wallet's own addresses.
OwnAddressesValid ==
    KeyReady =>
        /\ \A p \in Principals : AddressValidation(network, DepositAddress(p)) = "ok"
        /\ \A num \in Nums : AddressValidation(network, NumberedAddress(num)) = "ok"

=============================================================================
