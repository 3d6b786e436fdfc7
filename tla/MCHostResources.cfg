\* One run of _pipeline; descriptors 0..6 are more than it ever has open.
CONSTANT MaxFd = 6

SPECIFICATION Spec

INVARIANTS
    TypeOK
    NothingLeaks
    HandlesLive
    StdioKept
PROPERTIES
    CleanupEnds

\* The process ends.
CHECK_DEADLOCK FALSE
