---------------------------- MODULE IndexLedger ----------------------------
(***************************************************************************)
(* What the rune indexer promises about the blocks it applies (spec 5): a  *)
(* ledger that starts at the block set_beginning_block names and only ever *)
(* grows, one block at a time.  Each new block builds on the last one, and *)
(* none lies above the 840_000 stop.  Nothing is ever rolled back or       *)
(* rewritten.  Blocks are identified as in OrdSync: the hash of the block   *)
(* at height h of a branch is its history, a sequence of length h.         *)
(***************************************************************************)
EXTENDS Naturals, Sequences, SequencesExt

CONSTANTS Forks, Main, FirstHeight, StopHeight

VARIABLE applied

Init == applied = << [h \in 1 .. FirstHeight |-> Main] >>

\* A block on top of the last one applied, at most at the stop height.
Apply ==
    \E f \in Forks :
        LET b == Last(applied) \o << f >>
        IN  /\ Len(b) <= StopHeight
            /\ applied' = Append(applied, b)

Spec == Init /\ [][Apply]_applied

=============================================================================
