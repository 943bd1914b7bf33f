\* Two threads and two peers that send two bytes each; the good case, each
\* fault by itself, and the pair that lets a SYN be answered too soon.
CONSTANTS
    ThreadNum = 2
    Peers = {p1, p2}
    MaxData = 2
    QueueSize = 3
    FaultSets = {{}, {"sweep_syn"}, {"early_syn"}, {"retransmit"},
                 {"burst"}, {"reset"}, {"tx_full"}, {"sweep_syn", "retransmit"}}
SPECIFICATION Spec
INVARIANTS TypeOK OneTokenPerCall NoOrphanSender NoByteLost
           GivenSocketsConnected
PROPERTIES SelfDeadlockOnlyLate AllServed
