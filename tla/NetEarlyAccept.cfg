\* The ACK that ends the handshake misses the poll that saw the SYN.
CONSTANTS
    c1 = c1
    c2 = c2
    p1 = p1
    p2 = p2
    MaxCid = 5
    MaxTask = 5
    MaxPrio = 3
    WordBits = 2
    Clients = {c1, c2}
    Peers = {p1, p2}
    MaxData = 1
    RingSize = 4
    QueueSize = 3
    SwitchCnt = 2
    FaultSets = {{"late_ack"}}
SPECIFICATION Spec
INVARIANT AcceptsConnected
