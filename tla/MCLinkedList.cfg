\* With four nodes a ring of two can be spliced into a list of two, and
\* removed nodes keep stale pointers into both.
CONSTANTS
    Header = {h}
    Node = {a, b, c, d}
    None = None

SYMMETRY Interchangeable

SPECIFICATION Spec

INVARIANTS
    Consistent
    ForeachExact
    GetIsModular
PROPERTY
    ImplementsRings
