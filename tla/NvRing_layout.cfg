CONSTANTS
    BufSize = 19
    Header = 3
    Sizes <- MixedSizes
SPECIFICATION Spec
INVARIANTS
    TypeOK
    NoOverlap
    HeadersChain
    AccountingExact
    NextOnItem
PROPERTIES
    ImplementsQueue
\* exit(0) ends the process, and a lock holder past the last item is not followed.
CHECK_DEADLOCK FALSE
