\* Ids 1 and 2 both receive interrupts.
CONSTANTS
    MaxCid = 4
    MaxTask = 4
    MaxPrio = 1
    WordBits = 4
    Receivers = {1, 2}
    MaxLive = 3
    MaxSpare = 0
    Disciplines = {TRUE}
SPECIFICATION Spec
INVARIANT NoLostWake
