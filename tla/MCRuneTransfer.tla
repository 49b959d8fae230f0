--------------------------- MODULE MCRuneTransfer ---------------------------
(***************************************************************************)
(* Model of RuneTransfer for TLC.  Two plain outputs of the sender (one    *)
(* that pays any fee, one too small for two postages) and runic outputs    *)
(* of two runes, each with the 546 sats a rune output usually holds:       *)
(*   a1, a2 hold 100 and 150 of rune rA (spec scenario E3), b1 80 of rB.   *)
(* Three further outputs appear only in the runs that ask about them:      *)
(*   m1 holds 50 of rA and 70 of rB in one utxo (spec 3 allows it);        *)
(*   a3 holds 200 of rA and 25000 sats, more than two postages.            *)
(***************************************************************************)
EXTENDS RuneTransfer

CONSTANTS p1, p2, a1, a2, b1, m1, a3, rA, rB

MCUtxos == {p1, p2, a1, a2, b1, m1, a3}
MCValue == (p1 :> 30000) @@ (p2 :> 8000) @@ (a1 :> 546) @@ (a2 :> 546)
           @@ (b1 :> 546) @@ (m1 :> 546) @@ (a3 :> 25000)
MCRunes == {rA, rB}
Bal(a, b) == (rA :> a) @@ (rB :> b)
MCRuneBal == (p1 :> Bal(0, 0)) @@ (p2 :> Bal(0, 0)) @@ (a1 :> Bal(100, 0))
             @@ (a2 :> Bal(150, 0)) @@ (b1 :> Bal(0, 80))
             @@ (m1 :> Bal(50, 70)) @@ (a3 :> Bal(200, 0))
MCRuneIdOf == (rA :> <<840000, 1>>) @@ (rB :> <<840000, 7>>)
MCFeeRates == {1000, 5000}

\* Every deposit of single-rune outputs with ordinary postage.
MCDeposits == SUBSET {p1, p2, a1, a2, b1}
MCAmounts == {80, 100, 250}

\* A sender whose only runic output carries two runes.
MCMultiDeposits == {{m1, p1}}
MCMultiAmounts == {50}

\* A sender whose only runic output carries more than two postages.
MCRichDeposits == {{a3, p1}}
MCRichAmounts == {200}

=============================================================================
