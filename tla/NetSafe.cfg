\* Two clients and two peers on three networks: peers come before anyone
\* listens, stop talking and find full buffers; they reset accepted connections;
\* ACKs miss the poll, SYNs are repeated and connections reset before accept().
\* A byte per peer is enough for all of tcp_server: '.' ends it, and a peer that
\* falls silent after another byte leaves it in the Recv after a Send.
CONSTANTS
    c1 = c1
    c2 = c2
    p1 = p1
    p2 = p2
    MaxCid = 5
    MaxTask = 5
    MaxPrio = 3
    WordBits = 2
    Clients = {c1, c2}
    Peers = {p1, p2}
    MaxData = 1
    RingSize = 4
    QueueSize = 3
    SwitchCnt = 2
    FaultSets = {{"refused", "tx_full", "silent"},
                 {"tx_full", "reset"},
                 {"late_ack", "retransmit", "early_reset"}}
SPECIFICATION Spec
INVARIANTS NoPanic OneTokenPerCall OneOwnerPerSocket FlagMeansWake NoStrandedFrame
SYMMETRY Symmetry
\* A failed assertion stops the network thread.
CHECK_DEADLOCK FALSE
