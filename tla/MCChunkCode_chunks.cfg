SPECIFICATION Spec
CONSTANTS
    Nil = Nil
    Bits = 3
    GfPoly = 11
    NumPolys = 2
    Messages <- SmallMessages
    MaxReceived = 4
INVARIANTS
    DecodesExactly
    
