\* A ring of four slots holds up to three items; every wrap-around is reached.
CONSTANTS
    Size = 4
    Item = {a, b}
    None = None
SPECIFICATION Spec
INVARIANT RingInv
PROPERTY RefinesFifo
