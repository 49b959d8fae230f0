----------------------------- MODULE MCFeeLoop -----------------------------
(***************************************************************************)
(* Model of FeeLoop for TLC.  Four outpoints of the sender, values chosen  *)
(* so that single- and multi-input selections, change above and below the  *)
(* dust limit, and fee-driven growth of the input set all occur:           *)
(*   u4 - 50000 = 1210 lies between 1000 + fee(1 in, 1 out) = 1192 and     *)
(*   1000 + fee(1 in, 2 out) = 1226 at 1000 millisat/vbyte, the band where *)
(*   whether a change output exists depends on the fee itself.             *)
(***************************************************************************)
EXTENDS FeeLoop

CONSTANTS u1, u2, u3, u4

MCUtxos == {u1, u2, u3, u4}
MCValue == (u1 :> 30000) @@ (u2 :> 21200) @@ (u3 :> 1400) @@ (u4 :> 51210)
MCAmounts == {500, 20000, 50000}
MCFeeRates == {1000, 2000}
MCInitialPools == SUBSET MCUtxos

\* A sender whose only output is u4: the manager's take order plays no part.
MCSingleOutputPools == {{u4}}

=============================================================================
