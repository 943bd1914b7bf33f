----------------------------- MODULE SyncServer -----------------------------
(***************************************************************************)
(* The synchronous TCP server: net_stack_test of sync_tcp_test.rs, which   *)
(* polls one endpoint per client thread, and the tcp_server threads that   *)
(* call it with sync_listen, sync_recv and sync_send of net/sync_tcp.rs.   *)
(* A call is a blocking send on the thread's endpoint and a blocking       *)
(* receive on the same one; the server takes requests with nb_recv and     *)
(* answers Recv and Send with a blocking send, Listen with the nb_send of  *)
(* listen_table.rs when a SYN comes in.                                    *)
(*                                                                         *)
(* One step of the server is one nb_recv with its request, one received    *)
(* frame or one task of RECV_BLOCKED_TASKS.  Endpoints, the bound          *)
(* notification, smoltcp and the peers are external.  A frame is announced *)
(* by the notification as soon as it is there, unless it comes between a   *)
(* poll and its acknowledgement, which takes back what the frame signals.  *)
(***************************************************************************)
EXTENDS Integers, Sequences, FiniteSets, SequencesExt

CONSTANTS ThreadNum,   \* THREAD_NUM, 32
          Peers,       \* remote hosts, each opening one connection
          MaxData,     \* bytes a peer sends, the last of them '.'
          QueueSize,   \* LISTEN_QUEUE_SIZE
          FaultSets    \* kinds of run: what each does beyond the good case

ASSUME SyncAssumption ==
    /\ ThreadNum \in Nat \ {0}
    /\ MaxData \in Nat \ {0}
    /\ QueueSize \in Nat \ {0}
    /\ FaultSets \subseteq SUBSET {
          "sweep_syn",    \* a SYN comes while the first loop still runs
          "early_syn",    \* a SYN comes before the thread it is for receives
          "retransmit",   \* a SYN is sent again
          "burst",        \* a peer does not wait for the answer to its byte
          "reset",        \* a peer resets its connection
          "tx_full"}      \* the send buffer of a connection may be full

Threads == 1 .. ThreadNum
NoOne == 0
NoFd == 0

VARIABLES
    pc,           \* of the server: "sweep", "ntfn", "lock", "polls", "tasks",
                  \* "spin"
    idx,          \* where its for loop is
    listen_cnt,   \* requests of this sweep
    polling,      \* inside iface_poll: "no", "irq" or "send"; "ack": past the
                  \* poll of an interrupt, before its acknowledgement
    hand,         \* the thread its blocking reply goes to, or NoOne
    waiting,      \* syn_queue and block_ep: the handle and thread of each Listen
    poll_eps,     \* POLL_EPS
    blocked,      \* RECV_BLOCKED_TASKS
    sock,         \* SOCKET_SET; a handle is an index
    frames,       \* received frames the device still holds
    ntfn,         \* the bound notification is active
    peer,         \* the remote hosts
    faults,       \* the kind of run, fixed from the start
    cl            \* the tcp_server threads

server == <<pc, idx, listen_cnt, polling>>
stack == <<waiting, poll_eps, sock, frames, peer>>
vars == <<server, hand, stack, blocked, ntfn, faults, cl>>

(* net_stack_test up to its loops, with create_c_s_ipc_channel: a client   *)
(* thread is about to send ("ready"), blocked in ep.send ("sending"), past *)
(* it ("sent"), blocked in ep.recv ("recv") or suspended ("done").         *)
Init ==
    /\ pc = "sweep" /\ idx = 1 /\ listen_cnt = 0 /\ polling = "no" /\ hand = NoOne
    /\ waiting = <<>> /\ poll_eps = <<>> /\ blocked = <<>>
    /\ sock = <<>> /\ frames = <<>> /\ ntfn = FALSE
    /\ peer = [p \in Peers |-> [st |-> "idle", sent |-> 0, echoed |-> 0]]
    /\ faults \in FaultSets
    /\ cl = [c \in Threads |-> [st |-> "ready", op |-> "Listen", fd |-> NoFd,
                                data |-> "none", seen |-> 0]]

-----------------------------------------------------------------------------
(* tcp_server and the calls of net/sync_tcp.rs. *)

(* What a thread does with the answer to its call: '.' ends the            *)
(* conversation, with a last Send ("Bye").                                 *)
Continue(s) ==
    CASE s.op = "Listen" -> [s EXCEPT !.st = "ready", !.op = "Recv"]
      [] s.op = "Recv" -> [s EXCEPT !.st = "ready", !.seen = @ + 1,
                                    !.op = IF s.data = "." THEN "Bye" ELSE "Send"]
      [] s.op = "Send" -> [s EXCEPT !.st = "ready", !.op = "Recv"]
      [] s.op = "Bye" -> [s EXCEPT !.st = "done"]

ClientSend(c) ==
    /\ cl[c].st = "ready"
    /\ cl' = [cl EXCEPT ![c].st = "sending"]
    /\ UNCHANGED <<server, hand, stack, blocked, ntfn>>

ClientRecv(c) ==
    /\ cl[c].st = "sent"
    /\ cl' = [cl EXCEPT ![c].st = "recv"]
    /\ UNCHANGED <<server, hand, stack, blocked, ntfn>>

-----------------------------------------------------------------------------
(* iface_poll(true): the server takes the received frames one by one, and  *)
(* goes on with its loop, or with a reply, when there is none left.        *)

SockOf(p) == {h \in DOMAIN sock : sock[h].peer = {p}}
Listening == {h \in DOMAIN sock : sock[h].st = "listen"}

(* The guard of POLL_EPS lives from its lock to the end of the loop body. *)
Held == pc \in {"polls", "tasks"}

PollFrame(type) ==
    /\ polling \in {"irq", "send"}
    /\ pc # "spin"
    /\ frames # <<>>
    /\ Head(frames).type = type
    /\ frames' = Tail(frames)
    /\ UNCHANGED <<idx, listen_cnt, polling, hand, blocked, ntfn>>

(* Mutant of IncomingSyn: the endpoint is not added to POLL_EPS. *)
IncomingSynNoPush ==
    LET l == Head(waiting)
    IN  /\ waiting' = Tail(waiting)
        /\ cl' = [cl EXCEPT ![l.thread] = IF @.st = "recv"
                                          THEN Continue([@ EXCEPT !.fd = l.handle])
                                          ELSE @]
        /\ UNCHANGED <<pc, poll_eps>>

(* Mutant of IncomingSyn: the Listen that came last is answered. *)
IncomingSynLast ==
    LET l == Last(waiting)
    IN  /\ waiting' = Front(waiting)
        /\ cl' = [cl EXCEPT ![l.thread] = IF @.st = "recv"
                                          THEN Continue([@ EXCEPT !.fd = l.handle])
                                          ELSE @]
        /\ IF Held THEN pc' = "spin" /\ UNCHANGED poll_eps
                   ELSE poll_eps' = Append(poll_eps, l.thread) /\ UNCHANGED pc

(* incoming_tcp_packet: the Listen that has waited longest is answered     *)
(* with nb_send, which drops the message if the thread does not receive,   *)
(* and its endpoint goes to POLL_EPS: a spin lock, so if the server itself *)
(* holds it this is where it stays.                                        *)
IncomingSyn ==
    LET l == Head(waiting)
    IN  /\ waiting' = Tail(waiting)
        /\ cl' = [cl EXCEPT ![l.thread] = IF @.st = "recv"
                                          THEN Continue([@ EXCEPT !.fd = l.handle])
                                          ELSE @]
        /\ IF Held THEN pc' = "spin" /\ UNCHANGED poll_eps
                   ELSE poll_eps' = Append(poll_eps, l.thread) /\ UNCHANGED pc

(* TCP: a SYN takes the first listening socket, a repeated one finds the   *)
(* socket it has.                                                          *)
TcpSyn(p) ==
    IF SockOf(p) # {} \/ Listening = {}
    THEN UNCHANGED <<sock, peer>>
    ELSE /\ sock' = [sock EXCEPT ![Min(Listening)] =
                        [@ EXCEPT !.peer = {p}, !.st = "established"]]
         /\ peer' = [peer EXCEPT ![p].st = "established"]

(* A SYN is seen by the listen table first, then by TCP. *)
PollSyn ==
    /\ PollFrame("SYN")
    /\ IF waiting = <<>> \/ Len(waiting) >= QueueSize
       THEN UNCHANGED <<waiting, cl, pc, poll_eps>>
       ELSE IncomingSyn
    /\ IF pc' = "spin" THEN UNCHANGED <<sock, peer>> ELSE TcpSyn(Head(frames).peer)

PollData ==
    /\ PollFrame("DATA")
    /\ sock' = [h \in DOMAIN sock |->
                   IF sock[h].peer = {Head(frames).peer}
                   THEN [sock[h] EXCEPT !.rx = Append(@, Head(frames).byte)]
                   ELSE sock[h]]
    /\ UNCHANGED <<pc, waiting, poll_eps, peer, cl>>

PollReset ==
    /\ PollFrame("RST")
    /\ sock' = [h \in DOMAIN sock |->
                   IF sock[h].peer = {Head(frames).peer}
                   THEN [sock[h] EXCEPT !.st = "closed"] ELSE sock[h]]
    /\ UNCHANGED <<pc, waiting, poll_eps, peer, cl>>

(* The end of the poll ... *)
PollEnd ==
    /\ polling \in {"irq", "send"}
    /\ pc # "spin"
    /\ frames = <<>>
    /\ polling' = IF polling = "irq" THEN "ack" ELSE "no"
    /\ UNCHANGED <<pc, idx, listen_cnt, hand, stack, blocked, ntfn, cl>>

(* ... and of net_interrupt_handler: the device's interrupt status is      *)
(* cleared and the interrupt acknowledged.                                 *)
IrqAck ==
    /\ polling = "ack"
    /\ polling' = "no"
    /\ UNCHANGED <<pc, idx, listen_cnt, hand, stack, blocked, ntfn, cl>>

-----------------------------------------------------------------------------
(* The requests.  The server's loop moves on at once, but takes no further *)
(* step before the poll has ended and the reply is delivered.              *)

GoOn(label, i) == pc' = label /\ idx' = i

Go(label) == pc = label /\ polling = "no" /\ hand = NoOne

NetInterrupt ==
    /\ ntfn' = FALSE
    /\ polling' = "irq"
    /\ UNCHANGED <<hand, stack, blocked, cl>>

ReqListen(c) ==
    /\ cl[c].op = "Listen"
    /\ sock' = Append(sock, [st |-> "listen", peer |-> {}, rx |-> <<>>])
    /\ waiting' = Append(waiting, [handle |-> Len(sock) + 1, thread |-> c])
    /\ cl' = [cl EXCEPT ![c].st = "sent"]
    /\ UNCHANGED <<polling, hand, poll_eps, frames, peer, blocked>>

(* Recv: the one byte asked for if there is one, else a blocked task. *)
ReqRecv(c) ==
    LET h == cl[c].fd
    IN  /\ cl[c].op = "Recv"
        /\ IF sock[h].rx # <<>>
           THEN /\ sock' = [sock EXCEPT ![h].rx = Tail(@)]
                /\ cl' = [cl EXCEPT ![c].st = "sent", ![c].data = Head(sock[h].rx)]
                /\ hand' = c
                /\ UNCHANGED blocked
           ELSE /\ blocked' = Append(blocked, [thread |-> c, complete |-> FALSE])
                /\ cl' = [cl EXCEPT ![c].st = "sent"]
                /\ UNCHANGED <<sock, hand>>
        /\ UNCHANGED <<polling, waiting, poll_eps, frames, peer>>

(* can_send(): the connection stands and its buffer has room. *)
CanSend(h, room) == sock[h].st = "established" /\ room

(* Send: the byte goes out with a poll before the answer; a socket that    *)
(* cannot send gets no answer.                                             *)
ReqSend(c) ==
    LET h == cl[c].fd
    IN  /\ cl[c].op \in {"Send", "Bye"}
        /\ cl' = [cl EXCEPT ![c].st = "sent"]
        /\ \E room \in {TRUE} \cup {"tx_full" \notin faults} :
           IF CanSend(h, room)
           THEN /\ polling' = "send"
                /\ hand' = c
                /\ peer' = [p \in Peers |-> IF sock[h].peer = {p}
                                            THEN [peer[p] EXCEPT !.echoed = @ + 1]
                                            ELSE peer[p]]
           ELSE UNCHANGED <<polling, hand, peer>>
        /\ UNCHANGED <<waiting, poll_eps, sock, frames, blocked>>

(* nb_recv on the endpoint of thread c: the notification bound to the      *)
(* server comes first, then a request.                                     *)
NbRecv(c) ==
    \/ ntfn /\ NetInterrupt
    \/ /\ ~ntfn
       /\ cl[c].st = "sending"
       /\ ReqListen(c) \/ ReqRecv(c) \/ ReqSend(c)
       /\ UNCHANGED ntfn
    \/ /\ ~ntfn
       /\ cl[c].st # "sending"
       /\ UNCHANGED <<polling, hand, stack, blocked, ntfn, cl>>

-----------------------------------------------------------------------------
(* The two loops of the server. *)

(* The first loop: a sweep over all endpoints, whether or not their        *)
(* threads have got as far as their call.                                  *)
Sweep ==
    /\ Go("sweep")
    /\ idx <= ThreadNum
    /\ NbRecv(idx)
    /\ listen_cnt' = IF ~ntfn /\ cl[idx].st = "sending" THEN listen_cnt + 1
                                                        ELSE listen_cnt
    /\ GoOn("sweep", idx + 1)

(* Mutant of SweepEnd: a sweep that misses one request will do. *)
SweepEndOneShort ==
    /\ Go("sweep")
    /\ idx > ThreadNum
    /\ listen_cnt' = 0
    /\ GoOn(IF listen_cnt >= ThreadNum - 1 THEN "ntfn" ELSE "sweep", 1)
    /\ UNCHANGED <<polling, hand, stack, blocked, ntfn, cl>>

(* It ends with a sweep in which every endpoint had a request. *)
SweepEnd ==
    /\ Go("sweep")
    /\ idx > ThreadNum
    /\ listen_cnt' = 0
    /\ GoOn(IF listen_cnt = ThreadNum THEN "ntfn" ELSE "sweep", 1)
    /\ UNCHANGED <<polling, hand, stack, blocked, ntfn, cl>>

(* Mutant of PollNtfn: POLL_EPS is locked before the notification is       *)
(* polled.                                                                 *)
PollNtfnLocked ==
    /\ Go("ntfn")
    /\ IF ntfn THEN NetInterrupt ELSE UNCHANGED <<polling, hand, stack, blocked, ntfn, cl>>
    /\ GoOn("polls", 1)
    /\ UNCHANGED listen_cnt

(* The second loop: the notification, ... *)
PollNtfn ==
    /\ Go("ntfn")
    /\ IF ntfn THEN NetInterrupt ELSE UNCHANGED <<polling, hand, stack, blocked, ntfn, cl>>
    /\ GoOn("lock", 1)
    /\ UNCHANGED listen_cnt

(* ... POLL_EPS.lock() ... *)
LockEps ==
    /\ Go("lock")
    /\ GoOn("polls", 1)
    /\ UNCHANGED <<polling, hand, stack, blocked, ntfn, listen_cnt, cl>>

(* ... and its endpoints, ... *)
PollEps ==
    /\ Go("polls")
    /\ idx <= Len(poll_eps)
    /\ NbRecv(poll_eps[idx])
    /\ GoOn("polls", idx + 1)
    /\ UNCHANGED listen_cnt

PollEpsEnd ==
    /\ Go("polls")
    /\ idx > Len(poll_eps)
    /\ GoOn("tasks", 1)
    /\ UNCHANGED <<polling, hand, stack, blocked, ntfn, listen_cnt, cl>>

(* Mutant of BlockedTask: the bytes stay in the socket. *)
BlockedTaskPeeks ==
    LET c == blocked[idx].thread
        h == cl[c].fd
    IN  /\ Go("tasks")
        /\ idx <= Len(blocked)
        /\ IF sock[h].rx # <<>>
           THEN /\ cl' = [cl EXCEPT ![c].data = Head(sock[h].rx)]
                /\ blocked' = [blocked EXCEPT ![idx].complete = TRUE]
                /\ hand' = c
           ELSE UNCHANGED <<cl, blocked, hand>>
        /\ GoOn("tasks", idx + 1)
        /\ UNCHANGED <<polling, stack, ntfn, listen_cnt>>

(* ... and process_blocked_task, which reads all there is into the         *)
(* thread's buffer, whatever length was asked for.                         *)
BlockedTask ==
    LET c == blocked[idx].thread
        h == cl[c].fd
    IN  /\ Go("tasks")
        /\ idx <= Len(blocked)
        /\ IF sock[h].rx # <<>>
           THEN /\ sock' = [sock EXCEPT ![h].rx = <<>>]
                /\ cl' = [cl EXCEPT ![c].data = Head(sock[h].rx)]
                /\ blocked' = [blocked EXCEPT ![idx].complete = TRUE]
                /\ hand' = c
           ELSE UNCHANGED <<sock, cl, blocked, hand>>
        /\ GoOn("tasks", idx + 1)
        /\ UNCHANGED <<polling, waiting, poll_eps, frames, peer, ntfn, listen_cnt>>

(* Mutant of TasksEnd: completed tasks are kept. *)
TasksEndKeeps ==
    /\ Go("tasks")
    /\ idx > Len(blocked)
    /\ GoOn("ntfn", 1)
    /\ blocked' = [k \in DOMAIN blocked |-> [blocked[k] EXCEPT !.complete = FALSE]]
    /\ UNCHANGED <<polling, hand, stack, ntfn, listen_cnt, cl>>

Pending == {k \in DOMAIN blocked : ~blocked[k].complete}

(* ... after which the completed ones are dropped, the others keeping      *)
(* their order.                                                            *)
TasksEnd ==
    /\ Go("tasks")
    /\ idx > Len(blocked)
    /\ GoOn("ntfn", 1)
    /\ \E f \in [1 .. Cardinality(Pending) -> Pending] :
          /\ \A i, j \in DOMAIN f : i < j => f[i] < f[j]
          /\ blocked' = [i \in DOMAIN f |-> blocked[f[i]]]
    /\ UNCHANGED <<polling, hand, stack, ntfn, listen_cnt, cl>>

(* The blocking ep.send of an answer. *)
Reply ==
    /\ hand # NoOne
    /\ polling = "no"
    /\ cl[hand].st = "recv"
    /\ cl' = [cl EXCEPT ![hand] = Continue(@)]
    /\ hand' = NoOne
    /\ UNCHANGED <<server, stack, blocked, ntfn>>

(* POLL_EPS.lock() by its holder. *)
Spin == pc = "spin" /\ UNCHANGED <<server, hand, stack, blocked, ntfn, cl>>

-----------------------------------------------------------------------------
(* External: the peers. *)

Arrive(f) ==
    /\ frames' = Append(frames, f)
    /\ ntfn' = (ntfn \/ polling \notin {"irq", "ack"})
    /\ UNCHANGED <<server, hand, waiting, poll_eps, sock, blocked, cl>>

(* A frame that comes now finds the server with ntfn.poll() still ahead of *)
(* it, or in the poll that follows.  A SYN carries it as a history of its  *)
(* arrival, which no action looks at.                                      *)
Timely == \/ pc \in {"sweep", "ntfn"} /\ polling # "ack"
          \/ pc = "lock" /\ polling = "irq"

Syn(p) == [type |-> "SYN", peer |-> p, timely |-> Timely]

PeerConnect(p) ==
    /\ peer[p].st = "idle"
    /\ Len(waiting) > Cardinality({q \in Peers : peer[q].st = "syn_sent"})
    /\ "sweep_syn" \notin faults => pc # "sweep"
    /\ "early_syn" \notin faults =>
          \A k \in DOMAIN waiting : cl[waiting[k].thread].st = "recv"
    /\ peer' = [peer EXCEPT ![p].st = "syn_sent"]
    /\ Arrive(Syn(p))

PeerRetransmit(p) ==
    /\ "retransmit" \in faults
    /\ peer[p].st = "syn_sent"
    /\ peer' = [peer EXCEPT ![p].st = "syn_resent"]
    /\ Arrive(Syn(p))

PeerData(p) ==
    /\ peer[p].st = "established"
    /\ peer[p].sent < MaxData
    /\ "burst" \notin faults => peer[p].sent = peer[p].echoed
    /\ peer' = [peer EXCEPT ![p].sent = @ + 1]
    /\ Arrive([type |-> "DATA", peer |-> p,
               byte |-> IF peer[p].sent + 1 = MaxData THEN "." ELSE "x"])

PeerReset(p) ==
    /\ "reset" \in faults
    /\ peer[p].st = "established"
    /\ peer' = [peer EXCEPT ![p].st = "reset"]
    /\ Arrive([type |-> "RST", peer |-> p])

-----------------------------------------------------------------------------

ServerThread ==
    /\ \/ Sweep \/ SweepEnd \/ PollNtfn \/ PollEps \/ PollEpsEnd
       \/ LockEps \/ BlockedTask \/ TasksEnd \/ Reply \/ Spin
       \/ PollSyn \/ PollData \/ PollReset \/ PollEnd \/ IrqAck
    /\ UNCHANGED faults

ClientThreads ==
    /\ \E c \in Threads : ClientSend(c) \/ ClientRecv(c)
    /\ UNCHANGED faults

Network(p) ==
    /\ PeerConnect(p) \/ PeerRetransmit(p) \/ PeerData(p) \/ PeerReset(p)
    /\ UNCHANGED faults

Next == \/ ServerThread
        \/ ClientThreads
        \/ \E p \in Peers : Network(p)

(* Round-robin threads of one priority, and peers that go on talking. *)
Fairness == /\ WF_vars(ServerThread)
            /\ WF_vars(ClientThreads)
            /\ WF_vars((\E p \in Peers : PeerData(p)) /\ UNCHANGED faults)

Spec == Init /\ [][Next]_vars /\ Fairness

-----------------------------------------------------------------------------
(* Properties. *)

(* Every state component keeps its type; POLL_EPS has an endpoint at most  *)
(* once, so the Vec does not grow with the calls.                          *)
TypeOK ==
    /\ pc \in {"sweep", "ntfn", "lock", "polls", "tasks", "spin"}
    /\ polling \in {"no", "irq", "send", "ack"}
    /\ idx \in 1 .. ThreadNum + 1
    /\ listen_cnt \in 0 .. ThreadNum
    /\ hand \in Threads \cup {NoOne}
    /\ poll_eps \in Seq(Threads) /\ Len(poll_eps) <= ThreadNum
    /\ Len(blocked) <= ThreadNum
    /\ \A c \in Threads :
          /\ cl[c].st \in {"ready", "sending", "sent", "recv", "done"}
          /\ cl[c].fd \in {NoFd} \cup DOMAIN sock

(* The places of the server that hold the call of thread c. *)
Tokens(c) ==
    Cardinality({k \in DOMAIN waiting : waiting[k].thread = c})
      + Cardinality({k \in DOMAIN blocked : blocked[k] = [thread |-> c, complete |-> FALSE]})
      + (IF hand = c THEN 1 ELSE 0)

Cut(c) == cl[c].fd # NoFd /\ sock[cl[c].fd].st = "closed"

(* The runs in which a SYN may be taken while the thread whose Listen it   *)
(* answers is not yet in ep.recv: it comes early, or again while threads   *)
(* are still starting.                                                     *)
Hasty == "early_syn" \in faults \/ {"sweep_syn", "retransmit"} \subseteq faults

(* A thread inside a call, past its ep.send, has the call in exactly one   *)
(* place of the server: the listen table, RECV_BLOCKED_TASKS or the reply  *)
(* being sent; a thread outside has none.  Only a Listen whose thread had  *)
(* not reached ep.recv, and a Send on a connection that was cut or whose   *)
(* buffer is full, are lost.                                               *)
OneTokenPerCall ==
    \A c \in Threads :
        IF cl[c].st \in {"sent", "recv"}
        THEN \/ Tokens(c) = 1
             \/ /\ Tokens(c) = 0
                /\ \/ Hasty /\ cl[c].op = "Listen"
                   \/ /\ cl[c].op \in {"Send", "Bye"}
                      /\ Cut(c) \/ "tx_full" \in faults
        ELSE Tokens(c) = 0

(* Once the first loop has ended, a thread blocked in ep.send is on an     *)
(* endpoint the second loop looks at: no thread is left calling a server   *)
(* that no longer listens to it, in whatever order they started.           *)
NoOrphanSender ==
    pc \in {"ntfn", "lock", "polls", "tasks"} =>
        \A c \in Threads : cl[c].st = "sending" => c \in Range(poll_eps)

(* The server waits for POLL_EPS while it holds it itself (listen_table.rs *)
(* :164 under sync_tcp_test.rs:104) only for a SYN that came after its     *)
(* ntfn.poll(), or between a poll and its acknowledgement: one that came   *)
(* before is taken while the lock is free, however long the server takes.  *)
SelfDeadlockOnlyLate ==
    [][pc # "spin" /\ pc' = "spin" => ~Head(frames).timely]_vars

InFlight(p) == Cardinality({k \in DOMAIN frames :
                              frames[k].type = "DATA" /\ frames[k].peer = p})

(* A byte the server has read and its thread has not looked at yet. *)
Read(c) == hand = c /\ cl[c].op = "Recv"

(* If a peer waits for the answer to each byte, no byte is lost between    *)
(* the two read paths: each byte sent is in the device, in the socket, in  *)
(* the answer being sent or was seen by the thread, which looks at the     *)
(* first byte of its buffer only.                                          *)
NoByteLost ==
    "burst" \notin faults =>
        \A c \in Threads :
            cl[c].fd # NoFd => \A p \in sock[cl[c].fd].peer :
                peer[p].sent = InFlight(p) + Len(sock[cl[c].fd].rx)
                                 + (IF Read(c) THEN 1 ELSE 0) + cl[c].seen

(* The socket a thread was given is the one its peer is connected to,      *)
(* unless a SYN is repeated: the handle from the listen table and TCP's    *)
(* choice of a listening socket agree.                                     *)
GivenSocketsConnected ==
    "retransmit" \notin faults /\ pc # "spin" =>
        \A c \in Threads : cl[c].fd # NoFd => sock[cl[c].fd].peer # {}

(* If every peer connects, each to a thread that is in ep.recv, and goes   *)
(* on talking, then every thread is served byte by byte and ends on '.',   *)
(* unless the server spins on its own lock, never leaves its first loop    *)
(* (some sweep took the Listens of a part of the threads) or never hears   *)
(* of a frame that came just before an acknowledgement.                    *)
AllServed ==
    (faults \subseteq {"sweep_syn"} /\ <>(\A p \in Peers : peer[p].st # "idle"))
        => \/ <>(\A c \in Threads : cl[c].st = "done")
           \/ <>[](pc = "spin")
           \/ <>[](pc = "sweep")
           \/ <>[](frames # <<>> /\ ~ntfn)
=============================================================================
