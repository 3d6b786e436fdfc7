CONSTANTS
    Header = {h}
    Node = {a, b}
    None = None

SPECIFICATION RawSpec

PROPERTY
    FindReturns
