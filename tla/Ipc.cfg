\* Three callers share five calls; the threads are preempted anywhere, or
\* switched only by yield.
CONSTANTS
    MaxCid = 5
    MaxTask = 4
    MaxPrio = 2
    WordBits = 1
    CoroutineNum = 3
    SendNum = 5
    RingSize = 3
    Schedulers = {TRUE, FALSE}
SPECIFICATION Spec
INVARIANTS NoPanic OneTokenPerCall StatusMeansWake NoStrandedItem
PROPERTY Completes
