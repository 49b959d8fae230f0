------------------------- MODULE MCWithdrawBitcoin -------------------------
(***************************************************************************)
(* Model of WithdrawBitcoin for TLC: two concurrent calls on one address   *)
(* holding three deposits.  20000 is covered by one deposit with change;   *)
(* 40000 needs two, and two calls together ask for more than the address  *)
(* holds.                                                                  *)
(***************************************************************************)
EXTENDS WithdrawBitcoin

CONSTANTS u1, u2, u3, v1, v2, r1, r2, A0, A1, P0, P1, Anon, Canister

\* Principals of the IC's classes: two self-authenticating ones (29 bytes,
\* class byte 0x02), the anonymous one, and the canister's own id (10
\* bytes, class 0x01).  Numbers include both sides of a byte boundary.
MCPrincipals == {P0, P1, Anon}
SelfAuth(b) == [i \in 1 .. 29 |-> IF i = 29 THEN 2 ELSE b]
MCPrincipalBytes == (P0 :> SelfAuth(7)) @@ (P1 :> SelfAuth(9)) @@ (Anon :> <<4>>)
                    @@ (Canister :> <<0, 0, 0, 0, 0, 32, 0, 7, 1, 1>>)
MCNums == {0, 1, 255, 256}

MCAddrs == {A0, A1}
MCUtxos == {u1, u2, u3, v1, v2}
MCValue == (u1 :> 30000) @@ (u2 :> 25000) @@ (u3 :> 12000)
           @@ (v1 :> 15000) @@ (v2 :> 10000)
MCOwner == [u \in MCUtxos |-> IF u \in {v1, v2} THEN A0 ELSE A1]
MCRequests == {r1, r2}
MCAmounts == {20000, 40000}
MCFeeRates == {1250}
MCMultiAmounts == {30001, 49800}

=============================================================================
