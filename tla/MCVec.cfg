\* Five elements grow the block to eight cells and let it shrink to four.
CONSTANTS
    Elem = {a, b}
    MaxSize = 5

SPECIFICATION Spec

INVARIANTS
    InBounds
    SpaceBounded
    ForeachInOrder
PROPERTY
    ImplementsStack
