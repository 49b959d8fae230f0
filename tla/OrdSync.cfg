\* The indexer's sync loop against a node that mines, reorganises and fails.
CONSTANTS
    b0 = b0
    b1 = b1
    Forks = {b0, b1}
    Main = b0
    FirstHeight = 1
    InitHeight = 2
    MaxHeight = 5
    RequiredConfirmations = 1
    StopHeight = 3
    MaxReorgs = 2
    MaxFailures = 2

SPECIFICATION Spec

INVARIANT TypeOK
PROPERTY CatchesUp
PROPERTY ImplementsIndexLedger

\* The loop returns without a timer at 840_000, and the node stops mining.
CHECK_DEADLOCK FALSE
