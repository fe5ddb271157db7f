CONSTANTS
    BufSize = 11
    Header = 3
    Sizes <- SmallSizes
SPECIFICATION Spec
INVARIANTS
    NextCheckHolds
\* exit(0) ends the process, and a lock holder past the last item is not followed.
CHECK_DEADLOCK FALSE
