\* A start-up call or none, every section; four lists: by size, large first, with
\* a device region, and too short.
CONSTANTS
    MaxCid = 4
    MaxTask = 4
    MaxPrio = 3
    WordBits = 1
    NumSlots = 24
    MaxBits = 4
    ObjBits <- MCObjBits
    UntypedLists <- MCUntypedLists
    MaxSetup = 1
    Sections = {"output", "ntfn", "page", "unmap", "prepare", "memory", "address"}
    PageNumBits = 1
    Epoch = 2
    Lengths = {0, 1, 2, 3}
    Chunk = 2
    PartBits = 2
    Addresses = {6, 17}
    ArgRange = 18
    RingSize = 2
SPECIFICATION Spec
INVARIANTS KernelNeverRefuses PanicOnlyWhenShort
INVARIANTS OneTokenPerCall PrintedInOrder AddressDecoded PassMeansDone
PROPERTY Completes
