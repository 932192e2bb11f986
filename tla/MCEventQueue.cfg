\* Five additions to a queue of three: it fills, drains and fills again.
SPECIFICATION Spec
CONSTANTS
    Events <- MCEvents
    InterruptSets <- MCInterruptSets
    Size = 3
    IntMax = 7
    MaxSeqno = 5
INVARIANTS TypeOK HeadIsFirst UsedIsLength QueriesAgree
PROPERTY ImplementsFifo
