\* Ids 0, 1 and 3 receive interrupts.  A disciplined program keeps up to three
\* coroutines; any other makes the ready ring and the task array run out.
CONSTANTS
    MaxCid = 5
    MaxTask = 4
    MaxPrio = 2
    WordBits = 4
    Receivers = {0, 1, 3}
    MaxLive = 5
    MaxSpare = 2
    Disciplines = {TRUE, FALSE}
SPECIFICATION Spec
INVARIANTS TasksMatchIds NoLostWake ReadyExact NoPanic
PROPERTIES ReturnsOnlyBlocked HighestPriorityFirst
CHECK_DEADLOCK FALSE
