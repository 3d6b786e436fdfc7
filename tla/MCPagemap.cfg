CONSTANTS
    Place <- MCPlace
    Lengths = {2, 5}
    Size = 5
    PageSize = 2
    Pages = 3
    Frame = {0, 1, 2}
    Ranges <- MCRanges
    MaxTrail = 3

SPECIFICATION Spec

INVARIANTS
    TypeOK
    TraceOfLastFailure
    AnswersExact
