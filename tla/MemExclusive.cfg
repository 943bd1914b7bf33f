\* Three coroutines, three addresses, two frames: the slots run out.
CONSTANTS
    MaxPageNum = 2
    Addrs = {1, 2, 3}
    Tasks = {t1, t2, t3}
    Exclusive = TRUE
    t1 = t1
    t2 = t2
    t3 = t3
SPECIFICATION Spec
INVARIANTS TypeOK OneOwnerPerSlot NoSlotLeak TableMatchesKernel
