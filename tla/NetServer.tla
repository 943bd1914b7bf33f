----------------------------- MODULE NetServer -----------------------------
(***************************************************************************)
(* The asynchronous TCP server: the network thread of net/mod.rs with the  *)
(* listen table of net/listen_table.rs, and the tcp_server coroutines of   *)
(* async_tcp_test.rs that use it through the calls of net/tcp.rs.          *)
(*                                                                         *)
(* The network thread's executor runs net_poll, nw_recv_req_coroutine and  *)
(* one tcp_accept_coroutine per Listen; a coroutine runs from its resume   *)
(* to its next yield without interference by the others.  smoltcp, the     *)
(* device, the kernel's interrupt path and the remote peers are external.  *)
(*                                                                         *)
(* A receiver finds its ring empty in one step and clears its flag in the  *)
(* next, so a push between the two is left behind.  A push is one step:    *)
(* item, flag and user interrupt.  Taken apart (as AsyncIpc does) it could *)
(* only wake a receiver once more than needed: the item is in the ring     *)
(* before the flag is looked at, and a flag that is found cleared leads to *)
(* an interrupt.                                                           *)
(***************************************************************************)
EXTENDS Executor, SequencesExt

CONSTANTS Clients,     \* the tcp_server coroutines, 32 in the test
          Peers,       \* remote hosts, each opening one connection
          MaxData,     \* bytes a peer sends, the last one '.'
          RingSize,    \* MAX_ITEM_NUM
          QueueSize,   \* LISTEN_QUEUE_SIZE
          SwitchCnt,   \* requests between two offers to switch, 20
          FaultSets    \* kinds of network: what each does beyond the good case

ASSUME NetAssumption ==
    /\ MaxData \in Nat \ {0}
    /\ RingSize \in Nat \ {0}
    /\ QueueSize \in Nat \ {0}
    /\ SwitchCnt \in Nat \ {0}
    /\ FaultSets \subseteq SUBSET {
          "late_ack",     \* the ACK of a SYN-ACK misses the poll
          "retransmit",   \* a SYN is sent again
          "refused",      \* a peer connects before anyone listens
          "reset",        \* a peer resets an accepted connection
          "early_reset",  \* a peer resets one that accept() has not taken
          "tx_full",      \* the send buffer of a connection may be full
          "silent"}       \* a peer may stop talking without a '.'
    /\ MaxPrio > 2

\* The first two coroutines of the network thread.
Poller == 0
Receiver == 1

NoItem == [type |-> "none"]
NoFd == 0
NetPollReq == [type |-> "NetPollReq"]

VARIABLES
    ex,                  \* the EXECUTOR of the network thread
    running,             \* TRUE: inside ex.current, FALSE: about to fetch
    co,                  \* where each coroutine resumes, and its locals
    immediate,           \* the network thread's IMMEDIATE_VALUE
    cnt,                 \* cnt of nw_recv_req_coroutine
    req_items, res_items, recv_req_status, recv_reply_status,
    sock,                \* SOCKET_SET; a handle is an index
    syn_queue,           \* the listen table entry of the port: handles
    block_cids,          \*   and the coroutines waiting for a SYN
    socket2cid,          \* SOCKET_2_CID
    frames,              \* received frames the device still holds
    rx_cmplt,            \* the device's interrupt status
    masked,              \* the interrupt is not acknowledged yet
    late,                \* history: the last frame came between poll and ack
    peer,                \* the remote hosts
    faults,              \* the kind of network, fixed from the start
    cl,                  \* the tcp_server coroutines
    reply                \* its recv_reply_coroutine: resumes due, and where

ring == <<req_items, res_items, recv_req_status, recv_reply_status>>
stack == <<sock, syn_queue, block_cids, socket2cid>>
device == <<frames, rx_cmplt, masked, late>>
client == <<cl, reply>>
vars == <<ex, running, co, immediate, cnt, ring, stack, device, peer, faults, client>>

(* The items of MessageBuilder; a reply other than ListenReply carries no  *)
(* handle, and neither does Listen.                                        *)
Message(type, c, fd) == [type |-> type, client |-> c, fd |-> fd]

NewCo == [pc |-> "none", caller |-> NoFd, handler |-> NoFd, item |-> NoItem]

(* net::init and create_c_s_ipc_channel up to the run loop, and the client *)
(* up to spawning its tcp_server coroutines.                               *)
Init ==
    /\ ex = Spawn(Spawn(New, 0), 1)
    /\ running = FALSE
    /\ co = [c \in TaskIds |-> IF c = Poller THEN [NewCo EXCEPT !.pc = "poll"]
                               ELSE NewCo]
    /\ immediate = [c \in TaskIds |-> NoItem]
    /\ cnt = 0
    /\ req_items = <<>> /\ res_items = <<>>
    /\ recv_req_status = FALSE /\ recv_reply_status = FALSE
    /\ sock = <<>> /\ syn_queue = <<>> /\ block_cids = <<>> /\ socket2cid = <<>>
    /\ frames = <<>> /\ rx_cmplt = FALSE /\ masked = FALSE /\ late = FALSE
    /\ peer = [p \in Peers |-> [st |-> "idle", sent |-> 0]]
    /\ faults \in FaultSets
    /\ cl = [c \in Clients |->
                [st |-> "ready", op |-> "Listen", fd |-> NoFd, data |-> "none"]]
    /\ reply = [wakes |-> 1, pc |-> "read"]

-----------------------------------------------------------------------------
(* A request enters the ring: write_free_item().unwrap(), then the flag    *)
(* and the user interrupt of the receiver, on the client's and on the      *)
(* kernel's side alike.                                                    *)
PushReq(item, e) ==
    /\ req_items' = Append(req_items, item)
    /\ recv_req_status' = TRUE
    /\ ex' = LET d == IF recv_req_status THEN e ELSE DelayWake(e, Receiver)
             IN  IF Len(req_items) = RingSize THEN [d EXCEPT !.panic = TRUE] ELSE d

(* A reply enters the ring, with the same protocol towards the client.     *)
PushRes(item) ==
    /\ res_items' = Append(res_items, item)
    /\ recv_reply_status' = TRUE
    /\ reply' = IF recv_reply_status THEN reply ELSE [reply EXCEPT !.wakes = @ + 1]

NoReply == UNCHANGED <<res_items, recv_reply_status, reply>>

ResFull == Len(res_items) = RingSize

Failed(e) == [e EXCEPT !.panic = TRUE]

-----------------------------------------------------------------------------
(* Received frames.  w is what a poll changes: the executor, the sockets,  *)
(* the listen table's waiters and the peers.                               *)

SockOf(socks, p) == {h \in DOMAIN socks : socks[h].peer = {p}}
Listening(socks) == {h \in DOMAIN socks : socks[h].st = "listen"}

(* Mutant of SnoopSyn: the coroutine that listened last is woken. *)
SnoopSynLast(w) ==
    IF Len(syn_queue) < QueueSize /\ w.blk # <<>>
    THEN [w EXCEPT !.ex = Wake(@, Last(w.blk)), !.blk = Front(@)]
    ELSE w

(* snoop_tcp_packet and incoming_tcp_packet: before TCP sees a first SYN,  *)
(* the coroutine that has waited longest is woken, whatever becomes of the *)
(* connection.                                                             *)
SnoopSyn(w) ==
    IF Len(syn_queue) < QueueSize /\ w.blk # <<>>
    THEN [w EXCEPT !.ex = Wake(@, Head(w.blk)), !.blk = Tail(@)]
    ELSE w

(* TCP: a SYN takes the first listening socket (a repeated one finds the   *)
(* socket it already has) or is refused; the handshake ends with the ACK.  *)
TcpSyn(w, p) ==
    IF SockOf(w.sock, p) # {} THEN w
    ELSE IF Listening(w.sock) = {} THEN [w EXCEPT !.peer[p].st = "idle"]
    ELSE LET h == find_first_one(Listening(w.sock))
         IN  [w EXCEPT !.sock[h].peer = {p},
                       !.sock[h].st = IF "late_ack" \in faults
                                      THEN "syn_received" ELSE "established",
                       !.peer[p].st = IF "late_ack" \in faults
                                      THEN "syn_acked" ELSE "established"]

Ingress(w, f) ==
    LET H == SockOf(w.sock, f.peer)
        h == CHOOSE x \in H : TRUE
    IN  CASE f.type = "SYN" -> TcpSyn(SnoopSyn(w), f.peer)
          [] f.type # "SYN" /\ H = {} -> w
          [] f.type = "ACK" /\ H # {} -> [w EXCEPT !.sock[h].st = "established"]
          [] f.type = "RST" /\ H # {} -> [w EXCEPT !.sock[h].st = "closed"]
          [] f.type = "DATA" /\ H # {} -> [w EXCEPT !.sock[h].rx = Append(@, f.byte)]

(* iface_poll(true): all frames the device holds, one after the other. *)
IfacePoll(e, socks) ==
    LET turn[i \in 0 .. Len(frames)] ==
            IF i = 0 THEN [ex |-> e, sock |-> socks, blk |-> block_cids, peer |-> peer]
                     ELSE Ingress(turn[i - 1], frames[i])
    IN  turn[Len(frames)]

Polled(w) ==
    /\ sock' = w.sock /\ block_cids' = w.blk /\ peer' = w.peer
    /\ frames' = <<>> /\ late' = FALSE

-----------------------------------------------------------------------------
(* The network thread. *)

Go(c) == running /\ ex.current = c /\ ~ex.panic

(* run_until_blocked and the loop around it. *)
FetchNext ==
    /\ ~running /\ ~ex.panic
    /\ LET f == Fetch(ex)
       IN  ex' = f.ex /\ running' = (f.got # NoCid)
    /\ UNCHANGED <<co, immediate, cnt, ring, stack, device, peer, client>>

(* net_poll, up to the poll ... *)
NetPoll ==
    /\ Go(Poller)
    /\ co[Poller].pc = "poll"
    /\ LET w == IfacePoll(ex, sock) IN Polled(w) /\ ex' = w.ex
    /\ co' = [co EXCEPT ![Poller].pc = "ack"]
    /\ UNCHANGED <<running, immediate, cnt, ring, syn_queue, socket2cid, rx_cmplt,
                   masked, client>>

(* Mutant of NetPollAck: the interrupt is not acknowledged. *)
NetPollNoAck ==
    /\ Go(Poller)
    /\ co[Poller].pc = "ack"
    /\ rx_cmplt' = FALSE
    /\ co' = [co EXCEPT ![Poller].pc = "poll"]
    /\ running' = FALSE
    /\ UNCHANGED <<ex, immediate, cnt, ring, stack, frames, masked, late, peer, client>>

(* ... then interrupt_handler, irq_handler_ack and the yield. *)
NetPollAck ==
    /\ Go(Poller)
    /\ co[Poller].pc = "ack"
    /\ rx_cmplt' = FALSE
    /\ masked' = FALSE
    /\ co' = [co EXCEPT ![Poller].pc = "poll"]
    /\ running' = FALSE
    /\ UNCHANGED <<ex, immediate, cnt, ring, stack, frames, late, peer, client>>

(* nw_recv_req_coroutine after an item: every SwitchCnt items it offers to *)
(* switch to a coroutine of a higher priority.                             *)
ReqDone(e) ==
    LET s == SwitchPossible(e)
    IN  IF cnt + 1 < SwitchCnt
        THEN cnt' = cnt + 1 /\ ex' = e /\ UNCHANGED running
        ELSE /\ cnt' = 0
             /\ ex' = IF s.yes THEN Wake(s.ex, Receiver) ELSE s.ex
             /\ running' = ~s.yes

TakeReq(type) ==
    /\ Go(Receiver) /\ co[Receiver].pc = "none"
    /\ req_items # <<>>
    /\ Head(req_items).type = type
    /\ req_items' = Tail(req_items)
    /\ UNCHANGED recv_req_status

ReqPoll ==
    /\ TakeReq("NetPollReq")
    /\ ReqDone(Wake(ex, Poller))
    /\ NoReply
    /\ UNCHANGED <<co, immediate, stack, device, peer, cl>>

ReqListen ==
    /\ TakeReq("Listen")
    /\ LET cid == find_first_one(FreeCids(ex))
       IN  /\ ReqDone(Spawn(ex, 2))
           /\ co' = IF ex'.panic THEN co
                    ELSE [co EXCEPT ![cid] = [NewCo EXCEPT !.pc = "start",
                                              !.caller = Head(req_items).client]]
    /\ NoReply
    /\ UNCHANGED <<immediate, stack, device, peer, cl>>

(* can_send(): the connection stands and its buffer has room. *)
CanSend(h, room) == sock[h].st = "established" /\ room

(* Send: a socket that cannot send gets no reply.  The reply is built      *)
(* before the poll and written after it.                                   *)
ReqSend ==
    /\ TakeReq("Send")
    /\ \E room \in {TRUE} \cup {"tx_full" \notin faults} :
       LET i == Head(req_items)
           w == IfacePoll(ex, sock)
       IN  IF CanSend(i.fd, room)
           THEN /\ Polled(w)
                /\ ReqDone(IF ResFull THEN Failed(w.ex) ELSE w.ex)
                /\ PushRes(Message("SendReply", i.client, NoFd))
           ELSE /\ ReqDone(ex)
                /\ NoReply
                /\ UNCHANGED <<sock, block_cids, peer, frames, late>>
    /\ UNCHANGED <<co, immediate, syn_queue, socket2cid, rx_cmplt, masked, cl>>

(* recv_slice into the caller's TcpBuffer, one byte as the caller asks. *)
RecvSlice(i) ==
    /\ sock' = [sock EXCEPT ![i.fd].rx = Tail(@)]
    /\ cl' = [cl EXCEPT ![i.client].data = Head(sock[i.fd].rx)]
    /\ PushRes(Message("RecvReply", i.client, NoFd))

(* Mutant of ReqRecv: the socket's coroutine is woken without the request. *)
ReqRecvNoValue ==
    /\ TakeReq("Recv")
    /\ LET i == Head(req_items)
       IN  IF sock[i.fd].rx # <<>>
           THEN RecvSlice(i) /\ ReqDone(ex) /\ UNCHANGED immediate
           ELSE /\ ReqDone(Wake(ex, socket2cid[i.fd]))
                /\ NoReply
                /\ UNCHANGED <<sock, cl, immediate>>
    /\ UNCHANGED <<co, syn_queue, block_cids, socket2cid, device, peer>>

(* Recv: answered at once if there is data, else handed to the socket's    *)
(* coroutine, which the unwrap of SOCKET_2_CID must find.                  *)
ReqRecv ==
    /\ TakeReq("Recv")
    /\ LET i == Head(req_items)
       IN  IF sock[i.fd].rx # <<>>
           THEN /\ RecvSlice(i)
                /\ ReqDone(IF ResFull THEN Failed(ex) ELSE ex)
                /\ UNCHANGED immediate
           ELSE /\ IF i.fd \in DOMAIN socket2cid
                   THEN /\ immediate' = [immediate EXCEPT ![socket2cid[i.fd]] = i]
                        /\ ReqDone(Wake(ex, socket2cid[i.fd]))
                   ELSE ReqDone(Failed(ex)) /\ UNCHANGED immediate
                /\ NoReply
                /\ UNCHANGED <<sock, cl>>
    /\ UNCHANGED <<co, syn_queue, block_cids, socket2cid, device, peer>>

(* No item is found ... *)
ReqEmpty ==
    /\ Go(Receiver) /\ co[Receiver].pc = "none"
    /\ req_items = <<>>
    /\ co' = [co EXCEPT ![Receiver].pc = "clear"]
    /\ UNCHANGED <<ex, running, immediate, cnt, ring, stack, device, peer, client>>

(* Mutant of ReqIdle: the flag stays set. *)
ReqIdleKeepsStatus ==
    /\ Go(Receiver) /\ co[Receiver].pc = "clear"
    /\ cnt' = 0
    /\ co' = [co EXCEPT ![Receiver].pc = "none"]
    /\ running' = FALSE
    /\ UNCHANGED <<ex, immediate, ring, stack, device, peer, client>>

(* ... then the flag is cleared, whatever was pushed since, and the yield. *)
ReqIdle ==
    /\ Go(Receiver) /\ co[Receiver].pc = "clear"
    /\ recv_req_status' = FALSE
    /\ cnt' = 0
    /\ co' = [co EXCEPT ![Receiver].pc = "none"]
    /\ running' = FALSE
    /\ UNCHANGED <<ex, immediate, req_items, res_items, recv_reply_status,
                   stack, device, peer, client>>

-----------------------------------------------------------------------------
(* tcp_accept_coroutine and tcp_recv_coroutine. *)

GoCo(c, pc) == Go(c) /\ c \notin {Poller, Receiver} /\ co[c].pc = pc

(* A new listening socket, and its place in the listen table. *)
AcceptStart(c) ==
    LET h == Len(sock) + 1
    IN  /\ GoCo(c, "start")
        /\ sock' = Append(sock, [st |-> "listen", peer |-> {}, rx |-> <<>>])
        /\ syn_queue' = Append(syn_queue, h)
        /\ block_cids' = Append(block_cids, c)
        /\ co' = [co EXCEPT ![c].pc = "listening", ![c].handler = h]
        /\ running' = FALSE
        /\ UNCHANGED <<ex, immediate, cnt, ring, socket2cid, device, peer, client>>

(* SOCKET_2_CID gets the coroutine, under the handle it made itself. *)
BindCid(c) ==
    socket2cid' = [h \in DOMAIN socket2cid \cup {co[c].handler} |->
                     IF h = co[c].handler THEN c ELSE socket2cid[h]]

(* Mutant of AcceptWoken: the handle stays at the front of the queue. *)
AcceptWokenPeeks(c) ==
    LET h == Head(syn_queue)
    IN  /\ GoCo(c, "listening")
        /\ PushRes(Message("ListenReply", co[c].caller, h))
        /\ BindCid(c)
        /\ co' = [co EXCEPT ![c].pc = "parked"]
        /\ running' = FALSE
        /\ UNCHANGED <<ex, immediate, cnt, req_items, recv_req_status, sock,
                       syn_queue, block_cids, device, peer, cl>>

(* Woken: accept() takes the handle at the front of the queue and asserts  *)
(* that it is connected; the caller gets that handle, SOCKET_2_CID the     *)
(* coroutine's own.                                                        *)
AcceptWoken(c) ==
    /\ GoCo(c, "listening")
    /\ immediate' = [immediate EXCEPT ![c] = NoItem]
    /\ IF \/ syn_queue = <<>>
          \/ sock[Head(syn_queue)].st # "established"
          \/ ResFull
       THEN /\ ex' = Failed(ex)
            /\ NoReply
            /\ UNCHANGED <<running, co, syn_queue, socket2cid>>
       ELSE /\ PushRes(Message("ListenReply", co[c].caller, Head(syn_queue)))
            /\ syn_queue' = Tail(syn_queue)
            /\ BindCid(c)
            /\ co' = [co EXCEPT ![c].pc = "parked"]
            /\ running' = FALSE
            /\ UNCHANGED ex
    /\ UNCHANGED <<cnt, req_items, recv_req_status, sock, block_cids, device, peer, cl>>

(* The request in hand: answer it, or wake oneself and look again later.   *)
TryRecv(c, i) ==
    IF sock[i.fd].rx # <<>>
    THEN /\ RecvSlice(i)
         /\ ex' = IF ResFull THEN Failed(ex) ELSE ex
         /\ co' = [co EXCEPT ![c].pc = "parked", ![c].item = NoItem]
    ELSE /\ ex' = Wake(ex, c)
         /\ co' = [co EXCEPT ![c].pc = "retry", ![c].item = i]
         /\ NoReply
         /\ UNCHANGED <<sock, cl>>

(* Resumed in the outer loop: the value is the request, if there is one. *)
TcpRecv(c) ==
    /\ GoCo(c, "parked")
    /\ IF immediate[c] = NoItem
       THEN NoReply /\ UNCHANGED <<ex, co, sock, cl>>
       ELSE TryRecv(c, immediate[c])
    /\ immediate' = [immediate EXCEPT ![c] = NoItem]
    /\ running' = FALSE
    /\ UNCHANGED <<cnt, req_items, recv_req_status, syn_queue, block_cids,
                   socket2cid, device, peer>>

(* Resumed in the inner loop: whatever value came with it is dropped. *)
TcpRetry(c) ==
    /\ GoCo(c, "retry")
    /\ TryRecv(c, co[c].item)
    /\ immediate' = [immediate EXCEPT ![c] = NoItem]
    /\ running' = FALSE
    /\ UNCHANGED <<cnt, req_items, recv_req_status, syn_queue, block_cids,
                   socket2cid, device, peer>>

-----------------------------------------------------------------------------
(* The client: tcp_server with listen, recv and send of net/tcp.rs.  '.'   *)
(* ends the conversation, with a last Send ("Bye").                        *)

ClientCall(c) ==
    /\ cl[c].st = "ready" /\ reply.pc = "read"
    /\ PushReq(Message(IF cl[c].op = "Bye" THEN "Send" ELSE cl[c].op, c, cl[c].fd), ex)
    /\ cl' = [cl EXCEPT ![c].st = "waiting"]
    /\ UNCHANGED <<running, co, immediate, cnt, res_items, recv_reply_status, stack,
                   device, peer, reply>>

(* Each call asserts the type of its reply. *)
Expected(op) == CASE op = "Listen" -> "ListenReply"
                  [] op = "Recv" -> "RecvReply"
                  [] op \in {"Send", "Bye"} -> "SendReply"

Continue(s, r) ==
    CASE r.type # Expected(s.op) -> [s EXCEPT !.st = "panic"]
      [] r.type = "ListenReply" /\ s.op = "Listen" ->
            [s EXCEPT !.st = "ready", !.op = "Recv", !.fd = r.fd]
      [] r.type = "RecvReply" /\ s.op = "Recv" ->
            [s EXCEPT !.st = "ready", !.op = IF s.data = "." THEN "Bye" ELSE "Send"]
      [] r.type = "SendReply" /\ s.op = "Send" -> [s EXCEPT !.st = "ready", !.op = "Recv"]
      [] r.type = "SendReply" /\ s.op = "Bye" -> [s EXCEPT !.st = "done"]

(* recv_reply_coroutine and the coroutine it wakes. *)
ClientReply ==
    /\ reply.wakes > 0 /\ reply.pc = "read"
    /\ res_items # <<>>
    /\ LET r == Head(res_items)
       IN  cl' = [cl EXCEPT ![r.client] = Continue(@, r)]
    /\ res_items' = Tail(res_items)
    /\ UNCHANGED <<ex, running, co, immediate, cnt, req_items, recv_req_status,
                   recv_reply_status, stack, device, peer, reply>>

ClientEmpty ==
    /\ reply.wakes > 0 /\ reply.pc = "read"
    /\ res_items = <<>>
    /\ reply' = [reply EXCEPT !.pc = "clear"]
    /\ UNCHANGED <<ex, running, co, immediate, cnt, ring, stack, device, peer, cl>>

ClientIdle ==
    /\ reply.pc = "clear"
    /\ recv_reply_status' = FALSE
    /\ reply' = [wakes |-> reply.wakes - 1, pc |-> "read"]
    /\ UNCHANGED <<ex, running, co, immediate, cnt, req_items, res_items,
                   recv_req_status, stack, device, peer, cl>>

-----------------------------------------------------------------------------
(* External: the peers, the device and the kernel's interrupt path. *)

(* Between the poll of net_poll and its ack a frame is seen by neither:    *)
(* interrupt_handler clears what the frame set.                            *)
InWindow == running /\ ex.current = Poller /\ co[Poller].pc = "ack"

Arrive(f) ==
    /\ frames' = Append(frames, f)
    /\ rx_cmplt' = TRUE
    /\ late' = InWindow
    /\ UNCHANGED <<ex, running, co, immediate, cnt, ring, stack, masked, faults, client>>

Outstanding == {p \in Peers : peer[p].st = "syn_sent"}

PeerConnect(p) ==
    /\ peer[p].st = "idle"
    /\ \/ "refused" \in faults
       \/ Cardinality(Listening(sock)) > Cardinality(Outstanding)
    /\ peer' = [peer EXCEPT ![p].st = "syn_sent"]
    /\ Arrive([type |-> "SYN", peer |-> p])

PeerRetransmit(p) ==
    /\ "retransmit" \in faults
    /\ peer[p].st = "syn_sent"
    /\ peer' = [peer EXCEPT ![p].st = "syn_resent"]
    /\ Arrive([type |-> "SYN", peer |-> p])

PeerAck(p) ==
    /\ peer[p].st = "syn_acked"
    /\ peer' = [peer EXCEPT ![p].st = "established"]
    /\ Arrive([type |-> "ACK", peer |-> p])

PeerData(p) ==
    /\ peer[p].st = "established"
    /\ peer[p].sent < MaxData
    /\ peer' = [peer EXCEPT ![p].sent = @ + 1]
    /\ \E b \in {"x", "."} :
          /\ b = "." => peer[p].sent + 1 = MaxData
          /\ b = "x" => peer[p].sent + 1 < MaxData \/ "silent" \in faults
          /\ Arrive([type |-> "DATA", peer |-> p, byte |-> b])

PeerReset(p) ==
    /\ peer[p].st = "established"
    /\ IF SockOf(sock, p) \cap Range(syn_queue) = {}
       THEN "reset" \in faults
       ELSE "early_reset" \in faults
    /\ peer' = [peer EXCEPT ![p].st = "reset"]
    /\ Arrive([type |-> "RST", peer |-> p])

(* The device interrupt: the kernel writes a NetPollReq item and keeps the *)
(* interrupt masked until it is acknowledged.                              *)
Irq ==
    /\ rx_cmplt /\ ~masked /\ ~ex.panic
    /\ masked' = TRUE
    /\ PushReq(NetPollReq, ex)
    /\ UNCHANGED <<running, co, immediate, cnt, res_items, recv_reply_status, stack,
                   frames, rx_cmplt, late, peer, faults, client>>

-----------------------------------------------------------------------------

Coroutine == \/ NetPoll \/ NetPollAck
             \/ ReqPoll \/ ReqListen \/ ReqSend \/ ReqRecv \/ ReqEmpty \/ ReqIdle
             \/ \E c \in TaskIds :
                   AcceptStart(c) \/ AcceptWoken(c) \/ TcpRecv(c) \/ TcpRetry(c)

NetworkThread == (FetchNext \/ Coroutine) /\ UNCHANGED faults

ClientThread == /\ \/ \E c \in Clients : ClientCall(c)
                   \/ ClientReply \/ ClientEmpty \/ ClientIdle
                /\ UNCHANGED faults

Network == \E p \in Peers : \/ PeerConnect(p) \/ PeerRetransmit(p)
                            \/ PeerAck(p) \/ PeerData(p) \/ PeerReset(p)

Next == NetworkThread \/ ClientThread \/ Network \/ Irq

(* Both threads get their time slices, the peers go on, and a pending      *)
(* unmasked interrupt is delivered.                                        *)
Fairness == /\ WF_vars(NetworkThread) /\ WF_vars(ClientThread)
            /\ WF_vars(Network) /\ WF_vars(Irq)

Spec == Init /\ [][Next]_vars /\ Fairness

(* Clients are interchangeable, and so are peers. *)
Symmetry == Permutations(Clients) \cup Permutations(Peers)

-----------------------------------------------------------------------------
(* Properties. *)

(* The state has its type; cnt of nw_recv_req_coroutine stays below the    *)
(* number at which it offers to switch.                                    *)
TypeOK ==
    /\ ExecutorType(ex)
    /\ running \in BOOLEAN
    /\ \A c \in TaskIds :
          /\ co[c].pc \in {"none", "clear", "poll", "ack", "start", "listening", "parked", "retry"}
          /\ co[c].handler \in {NoFd} \cup DOMAIN sock
    /\ cnt \in 0 .. SwitchCnt - 1
    /\ \A h \in DOMAIN sock :
          /\ sock[h].st \in {"listen", "syn_received", "established", "closed"}
          /\ sock[h].peer \subseteq Peers
    /\ Range(syn_queue) \subseteq DOMAIN sock
    /\ Range(block_cids) \subseteq TaskIds
    /\ DOMAIN socket2cid \subseteq DOMAIN sock

(* What accept() asserts of the listen table (listen_table.rs:121) does    *)
(* not hold for the coroutine that is in it.                               *)
AcceptFailed ==
    /\ running /\ ex.current \notin {Poller, Receiver}
    /\ co[ex.current].pc = "listening"
    /\ syn_queue = <<>> \/ sock[Head(syn_queue)].st # "established"

(* On every kind of network the assertion in accept() is the only assert!, *)
(* unwrap or panic! of the two threads that can fail, and it fails only if *)
(* an ACK misses the poll of its SYN, a SYN comes twice or a connection is *)
(* reset before it is accepted.  So the rings never overflow, SOCKET_2_CID *)
(* knows every socket a client was given and every reply has the type its  *)
(* call expects (net/mod.rs, net/listen_table.rs, net/tcp.rs).             *)
NoPanic ==
    IF ex.panic
    THEN AcceptFailed /\ faults \cap {"late_ack", "retransmit", "early_reset"} # {}
    ELSE \A c \in Clients : cl[c].st # "panic"

Occurrences(c, s) == Cardinality({k \in DOMAIN s : s[k].type # "NetPollReq"
                                                   /\ s[k].client = c})

Holders(c) ==
    {d \in TaskIds :
        \/ co[d].pc \in {"start", "listening"} /\ co[d].caller = c
        \/ immediate[d] # NoItem /\ immediate[d].client = c
        \/ co[d].item # NoItem /\ co[d].item.client = c}

Tokens(c) == Occurrences(c, req_items) + Occurrences(c, res_items)
                + Cardinality(Holders(c))

(* The call of a client whose connection was cut, or cannot take a byte.   *)
Cut(c) ==
    /\ cl[c].fd # NoFd
    /\ \/ sock[cl[c].fd].st = "closed"
       \/ cl[c].op \in {"Send", "Bye"} /\ "tx_full" \in faults

(* A client that waits has its call in exactly one place: the request      *)
(* ring, a coroutine of the network thread or the reply ring; only a       *)
(* connection cut by its peer, or a Send into a full buffer, may lose one. *)
(* Nobody else has a call anywhere.  So each call of net/tcp.rs is         *)
(* answered at most once, and neither nw_recv_req_coroutine nor            *)
(* tcp_recv_coroutine drops it.  The state has its type, cnt below         *)
(* SwitchCnt included.                                                     *)
OneTokenPerCall ==
    /\ TypeOK
    /\ ~ex.panic =>
        \A c \in Clients :
            IF cl[c].st = "waiting"
            THEN Tokens(c) = 1 \/ (Cut(c) /\ Tokens(c) = 0)
            ELSE Tokens(c) = 0

(* A socket a client was given by listen() belongs to no other client, and *)
(* SOCKET_2_CID maps it to the coroutine that made it, so a Recv of the    *)
(* client waits in that coroutine and in no other.                         *)
OneOwnerPerSocket ==
    \A c \in Clients :
        cl[c].fd # NoFd =>
            /\ cl[c].fd \in DOMAIN socket2cid
            /\ co[socket2cid[cl[c].fd]].handler = cl[c].fd
            /\ co[socket2cid[cl[c].fd]].caller = c
            /\ \A d \in Clients \ {c} : cl[d].fd # cl[c].fd

(* Every frame the device holds will be looked at (the interrupt will be   *)
(* raised, its request is on the way, or net_poll is going to run) unless  *)
(* the last one came between iface_poll and interrupt_handler of net_poll: *)
(* only a frame in that window, with none after it, is left lying.         *)
NoStrandedFrame ==
    frames # <<>> /\ ~ex.panic =>
        \/ rx_cmplt /\ ~masked
        \/ \E k \in DOMAIN req_items : req_items[k] = NetPollReq
        \/ Poller \in Queued(ex, 0)
        \/ Go(Poller) /\ co[Poller].pc = "poll"
        \/ late

(* A flag that is set has a resume of its reader behind it, though three   *)
(* parties set the two flags and the readers clear them late: the next     *)
(* push, which then sends no interrupt, relies on it (net/mod.rs:164,      *)
(* async_lib.rs:316).                                                      *)
FlagMeansWake ==
    ~ex.panic =>
        /\ recv_req_status => \/ Receiver \in ex.delay \cup Queued(ex, 1)
                              \/ Go(Receiver)
        /\ recv_reply_status => reply.wakes > 0

(* The ways in which the system comes to rest too early: an item was       *)
(* pushed between the empty test and the clear of its flag, or a frame     *)
(* came between the poll and its acknowledgement.                          *)
RequestLeft == /\ req_items # <<>> /\ ~recv_req_status
               /\ Receiver \notin ex.delay \cup Queued(ex, 1) /\ ~Go(Receiver)
ReplyLeft == res_items # <<>> /\ ~recv_reply_status /\ reply.wakes = 0
FrameLeft == frames # <<>> /\ ~rx_cmplt

(* Every tcp_server coroutine gets a connection, answers it byte by byte   *)
(* and ends on '.', unless the system comes to rest for good with a        *)
(* request, a reply or a frame left lying in one of these three windows.   *)
AllServed ==
    \/ <>(\A c \in Clients : cl[c].st = "done")
    \/ <>[](RequestLeft \/ ReplyLeft \/ FrameLeft)

(* accept() asserts that the handle it takes is connected                  *)
(* (listen_table.rs:121): a coroutine that resumes in it finds one.        *)
AcceptsConnected ==
    \A c \in TaskIds :
        GoCo(c, "listening") =>
            syn_queue # <<>> /\ sock[Head(syn_queue)].st = "established"
=============================================================================
