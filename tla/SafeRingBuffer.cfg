\* A ring of three slots, pushes of three distinct items: every wrap-around
\* of both indices, the empty and the full ring are reached.
CONSTANTS
    Size = 3
    Item = {a, b, c}
    None = None
SPECIFICATION Spec
INVARIANTS RingInv NoSlotRace
PROPERTY RefinesFifo
