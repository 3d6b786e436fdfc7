\* Three invocations, any mixture of multiplications, diagnostics and kills.
CONSTANTS
    Junk = Junk
    Zero = Zero
    Lhs = Lhs
    Rhs = Rhs
    Good = Good
    Bad = Bad
    NoLine = NoLine
    Matrix <- MCMatrix
    Mul <- MCMul
    FifoDepth = 1
    BufSize = 768
    MaxRuns = 3

SPECIFICATION Spec

INVARIANTS
    TypeOK
    ResultIsProduct
    QuiescentOnReturn
    InstrHasDescriptor
    FifoNeverOverflows
    IInv
PROPERTIES
    OrphansStay
    MultiplyTerminates
