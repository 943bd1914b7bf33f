\* The smallest instance that strands a request.
CONSTANTS
    MaxCid = 4
    MaxTask = 3
    MaxPrio = 2
    WordBits = 1
    CoroutineNum = 2
    SendNum = 2
    RingSize = 2
    Schedulers = {TRUE}
SPECIFICATION Spec
PROPERTY PrintsTestPass
