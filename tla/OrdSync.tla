------------------------------ MODULE OrdSync ------------------------------
(***************************************************************************)
(* The rune indexer's synchronisation loop, sync() of                      *)
(* src/ord_canister/src/index.rs, against a Bitcoin node whose best chain  *)
(* grows and reorganises while the loop awaits it.                         *)
(*                                                                         *)
(* One task at a time: each pass ends by arming the next timer (sync(5) or *)
(* sync(0)), or by returning without one.  A pass reads highest_block, then *)
(* awaits get_best_from_rpc, updater::get_block and updater::index_block.  *)
(*                                                                         *)
(* A block hash commits to the whole history below it, so the hash of the  *)
(* block at height h of a chain is its prefix of length h, and a block's   *)
(* prev_blockhash is the prefix one shorter.  The timer delays (5 or 0     *)
(* seconds) are not modelled: no property depends on time.  The          *)
(* cmp-header feature's extra await is off by default and not modelled.   *)
(***************************************************************************)
EXTENDS Naturals, Sequences, SequencesExt

CONSTANTS
    Forks,                  \* values telling the blocks of two branches apart
    Main,                   \* the branch the node follows at the start
    FirstHeight,            \* FIRST_HEIGHT, set by set_beginning_block
    InitHeight,             \* the node's height when the loop starts
    MaxHeight,              \* bound on the node's chain
    RequiredConfirmations,  \* REQUIRED_CONFIRMATIONS
    StopHeight,             \* the 840_000 of index.rs line 133
    MaxReorgs,              \* bound on the node's reorganisations
    MaxFailures             \* bound on failed RPC and indexing calls

ASSUME /\ Main \in Forks
       /\ FirstHeight <= InitHeight /\ InitHeight <= MaxHeight

VARIABLES
    chain,      \* the node's best chain: chain[h] is the branch of block h
    applied,    \* hashes of the blocks index_block applied, oldest first;
                \* the last one is highest_block
    pc,         \* "timer" (armed), "best", "block", "index" (awaiting), "stopped"
    height,     \* height, read from highest_block when the timer fired
    current,    \* current, read with it
    best,       \* the hash get_best_block_hash returned
    blk,        \* the block get_block returned
    reorgs,     \* reorganisations so far
    failures    \* failed calls so far

vars == <<chain, applied, pc, height, current, best, blk, reorgs, failures>>

\* The hash of the block at height h of chain c.
Hash(c, h) == SubSeq(c, 1, h)

Hashes == UNION {[1 .. n -> Forks] : n \in 1 .. MaxHeight}

Tip == Last(applied)

TypeOK ==
    /\ chain \in [1 .. Len(chain) -> Forks] /\ Len(chain) \in InitHeight .. MaxHeight
    /\ applied \in Seq(Hashes) /\ applied # << >>
    /\ Len(Tip) \in FirstHeight .. StopHeight
    /\ pc \in {"timer", "best", "header", "block", "index", "stopped"}
    /\ height \in 0 .. MaxHeight /\ current \in Hashes \cup {<< >>}
    /\ best \in Hashes \cup {<< >>} /\ blk \in Hashes \cup {<< >>}
    /\ reorgs \in 0 .. MaxReorgs /\ failures \in 0 .. MaxFailures

\* init_rune -> set_beginning_block(hash): highest_block is the block at
\* FIRST_HEIGHT; the first sync() arms the timer.
Init ==
    /\ chain = [h \in 1 .. InitHeight |-> Main]
    /\ applied = << Hash(chain, FirstHeight) >>
    /\ pc = "timer"
    /\ height = 0 /\ current = << >> /\ best = << >> /\ blk = << >>
    /\ reorgs = 0 /\ failures = 0

\* An awaited call returns Err (the node or the indexer failed).
Fail == failures < MaxFailures /\ failures' = failures + 1

-----------------------------------------------------------------------------
(* The loop *)

\* Mutation of TimerFires: the stop test off by one (height > 840_000).
TimerFiresStopsLate ==
    /\ pc = "timer"
    /\ height' = Len(Tip) /\ current' = Tip
    /\ pc' = IF Len(Tip) > StopHeight THEN "stopped" ELSE "best"
    /\ UNCHANGED <<chain, applied, best, blk, reorgs, failures>>

\* index.rs 129-136: the timer fires, the task reads highest_block and stops
\* for good at 840_000, else awaits get_best_from_rpc.
TimerFires ==
    /\ pc = "timer"
    /\ height' = Len(Tip) /\ current' = Tip
    /\ pc' = IF Len(Tip) >= StopHeight THEN "stopped" ELSE "best"
    /\ UNCHANGED <<chain, applied, best, blk, reorgs, failures>>

\* index.rs 107-109, 137, 168-173: get_best_block_hash returns the hash of
\* the node's tip; the pass awaits its header.  An Err: sync(5).
BestHashReply ==
    /\ pc = "best"
    /\ \/ best' = Hash(chain, Len(chain)) /\ pc' = "header" /\ UNCHANGED failures
       \/ Fail /\ pc' = "timer" /\ UNCHANGED best
    /\ UNCHANGED <<chain, applied, height, current, blk, reorgs>>

\* Mutation of HeaderReply: an Err from the node ends the loop without
\* arming a timer.
HeaderReplyErrStops ==
    /\ pc = "header"
    /\ \/ /\ pc' = IF height + RequiredConfirmations >= Len(best) THEN "timer" ELSE "block"
          /\ UNCHANGED failures
       \/ Fail /\ pc' = "stopped"
    /\ UNCHANGED <<chain, applied, height, current, best, blk, reorgs>>

\* index.rs 110-111, 137-142, 168-173: the header of that hash arrives with
\* its height, even if the node has since moved on.  Not
\* REQUIRED_CONFIRMATIONS ahead: sync(5), else await get_block(height + 1).
\* An Err: sync(5).
HeaderReply ==
    /\ pc = "header"
    /\ \/ /\ pc' = IF height + RequiredConfirmations >= Len(best) THEN "timer" ELSE "block"
          /\ UNCHANGED failures
       \/ Fail /\ pc' = "timer"
    /\ UNCHANGED <<chain, applied, height, current, best, blk, reorgs>>

\* Mutation of BlockReply: the block is indexed without the
\* prev_blockhash check.
BlockReplyNoReorgCheck ==
    /\ pc = "block"
    /\ \/ /\ blk' = Hash(chain, height + 1) /\ pc' = "index"
          /\ UNCHANGED failures
       \/ Fail /\ pc' = "timer" /\ UNCHANGED blk
    /\ UNCHANGED <<chain, applied, height, current, best, reorgs>>

\* index.rs 143-157, 163-166: block height + 1 of the node's chain as it is
\* now arrives.  If it does not build on the block read from highest_block,
\* "reorg detected": sync(5) and nothing else (no rollback).  Else await
\* index_block.  An Err: sync(5).
BlockReply ==
    /\ pc = "block"
    /\ \/ /\ LET b == Hash(chain, height + 1) IN
             IF Front(b) # current
             THEN pc' = "timer" /\ UNCHANGED blk
             ELSE pc' = "index" /\ blk' = b
          /\ UNCHANGED failures
       \/ Fail /\ pc' = "timer" /\ UNCHANGED blk
    /\ UNCHANGED <<chain, applied, height, current, best, reorgs>>

\* index.rs 158-161: index_block(height + 1, block) returns.  Ok: the block
\* is applied and becomes highest_block; an Err is logged.  Either way
\* sync(0).
IndexDone ==
    /\ pc = "index"
    /\ \/ applied' = Append(applied, blk) /\ UNCHANGED failures
       \/ Fail /\ UNCHANGED applied
    /\ pc' = "timer"
    /\ UNCHANGED <<chain, height, current, best, blk, reorgs>>

Indexer == TimerFires \/ BestHashReply \/ HeaderReply \/ BlockReply \/ IndexDone

-----------------------------------------------------------------------------
(* The node *)

\* A block is mined on the best chain.
Mine ==
    /\ Len(chain) < MaxHeight
    /\ chain' = Append(chain, Last(chain))
    /\ UNCHANGED <<applied, pc, height, current, best, blk, reorgs, failures>>

\* The node switches to a branch forking below height k, at least as long.
\* The block at FIRST_HEIGHT is final.
Reorg ==
    /\ reorgs < MaxReorgs
    /\ \E k \in FirstHeight + 1 .. Len(chain), f \in Forks, n \in {0, 1} :
          /\ f # chain[k] /\ Len(chain) + n <= MaxHeight
          /\ chain' = SubSeq(chain, 1, k - 1) \o [i \in 1 .. Len(chain) + n - k + 1 |-> f]
    /\ reorgs' = reorgs + 1
    /\ UNCHANGED <<applied, pc, height, current, best, blk, failures>>

Next == Indexer \/ Mine \/ Reorg

\* Timers fire and the node answers: the loop's steps are weakly fair.  The
\* node owes nothing: it may stop mining.
Spec == Init /\ [][Next]_vars /\ WF_vars(Indexer)

-----------------------------------------------------------------------------
(* Properties *)

\* The loop keeps the indexer's ledger (module IndexLedger): from the block
\* of set_beginning_block, each step applies one block on top of
\* highest_block and none above 840_000, and no step removes or rewrites an
\* applied block.  So the runes state is built from one hash-linked chain,
\* even when the node reorganises between get_best_from_rpc and get_block
\* (index.rs 147, the prev_blockhash check) and index_block fails (index.rs
\* 133, 158-161).
Ledger == INSTANCE IndexLedger

ImplementsIndexLedger == Ledger!Spec

\* highest_block is no longer on the node's best chain.
Orphaned == Tip # Hash(chain, Len(Tip))

\* Once the node settles, the loop indexes every block with
\* REQUIRED_CONFIRMATIONS on top, up to 840_000, and no Err (of the node or
\* of index_block) ends the loop: unless a reorganisation orphaned
\* highest_block, which the loop never rolls back.
CatchesUp ==
    <>[](Len(Tip) >= StopHeight \/ Orphaned
         \/ Len(Tip) + RequiredConfirmations >= Len(chain))

=============================================================================
