CONSTANTS
    Node = {1, 2, 3, 4, 5, 6, 7}
    Null = Null
    MaxDrift = 4

SPECIFICATION Spec

INVARIANTS SearchTree FindsWhatIsThere SoundUntilRepair ForeachInOrder
