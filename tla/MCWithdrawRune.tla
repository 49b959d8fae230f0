--------------------------- MODULE MCWithdrawRune ---------------------------
(***************************************************************************)
(* Model of WithdrawRune for TLC.  The sender owns plain outputs p1 and   *)
(* p2 and the runic outputs a1, a2 (100 and 150 of rune rA, as in spec     *)
(* scenario E3).  a1 and a2 together carry 19946 sats, so a transfer that   *)
(* spends both needs only 54 of the 20000 postage sats from p2 (300 sats): *)
(* its pass at fee 0 succeeds and the next falls short with a fee above   *)
(* the balance, the one case in which the endpoints sync after a          *)
(* shortfall.  The receiver owns a plain output q1.  The manager may hold *)
(* any of them (earlier syncs) when the calls begin; the node lists them  *)
(* all.                                                                    *)
(***************************************************************************)
EXTENDS WithdrawRune

CONSTANTS p1, p2, a1, a2, q1, rA, r1, r2, S, R

MCUtxos == {p1, p2, a1, a2, q1}
MCValue == (p1 :> 30000) @@ (p2 :> 300) @@ (a1 :> 546) @@ (a2 :> 19400)
           @@ (q1 :> 30000)
MCRunes == {rA}
MCRuneBal == (p1 :> (rA :> 0)) @@ (p2 :> (rA :> 0)) @@ (a1 :> (rA :> 100)) @@ (a2 :> (rA :> 150))
             @@ (q1 :> (rA :> 0))
MCRuneIdOf == rA :> <<840000, 1>>
MCOwner == (p1 :> S) @@ (p2 :> S) @@ (a1 :> S) @@ (a2 :> S) @@ (q1 :> R)
MCAmounts == {100, 250}
MCFeeRates == {1000}
MCBtcAmounts == {5000, 40000}
MCInitialDeposits == SUBSET MCUtxos

MCOneRequest == {r1}
MCTwoRequests == {r1, r2}
MCBothEndpoints == {"sender_pays", "receiver_pays"}
MCAllEndpoints == {"sender_pays", "receiver_pays", "combined"}
MCSenderPays == {"sender_pays"}
MCReceiverPays == {"receiver_pays"}

=============================================================================
