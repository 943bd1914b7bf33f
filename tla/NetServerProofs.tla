-------------------------- MODULE NetServerProofs --------------------------
(***************************************************************************)
(* What the asynchronous TCP server guarantees, proved for any number of   *)
(* clients and of peers, and for every kind of network.                    *)
(***************************************************************************)
EXTENDS NetServer, ExecutorProofs

(* The sizes the code has: a ring has a slot for every client and two for  *)
(* the interrupt, there is a task for every client's coroutine, and the    *)
(* interrupt handler can name the receiver.                                *)
Sizes ==
    /\ IsFiniteSet(Clients)
    /\ RingSize >= Cardinality(Clients) + 2
    /\ MaxTask >= Cardinality(Clients) + 2 /\ MaxTask > 2
    /\ WordBits > 1

One(b) == IF b THEN 1 ELSE 0

-----------------------------------------------------------------------------
(* Types. *)

Requests == [type : {"Listen", "Recv", "Send"}, client : Clients, fd : Nat]
Replies == [type : {"ListenReply", "RecvReply", "SendReply"}, client : Clients, fd : Nat]
Bytes == {"x", "."}
States == {"listen", "syn_received", "established", "closed"}
Sockets == [st : States, peer : SUBSET Peers, rx : Seq(Bytes)]
Hosts == [st : {"idle", "syn_sent", "syn_resent", "syn_acked", "established", "reset"},
          sent : Nat]
Received == [type : {"SYN", "ACK", "RST"}, peer : Peers]
              \cup [type : {"DATA"}, peer : Peers, byte : Bytes]
Calls == [st : {"ready", "waiting", "done", "panic"},
          op : {"Listen", "Recv", "Send", "Bye"}, fd : Nat, data : Bytes \cup {"none"}]
Contexts == [pc : {"none", "clear", "poll", "ack", "start", "listening", "parked", "retry"},
             caller : Clients \cup {NoFd}, handler : Nat, item : Requests \cup {NoItem}]

(* A socket has a peer from its SYN on. *)
SocketsOK(s) ==
    /\ s \in Seq(Sockets)
    /\ \A h \in DOMAIN s : \/ s[h].st = "listen" /\ s[h].peer = {}
                           \/ s[h].st # "listen" /\ \E p \in Peers : s[h].peer = {p}

(* The reply reader r is resumed at least once more when its flag f is set *)
(* or is about to be cleared.                                              *)
ReplyOK(f, r) ==
    /\ r \in [wakes : Nat, pc : {"read", "clear"}]
    /\ f \/ r.pc = "clear" => r.wakes > 0

TypeInv ==
    /\ ExecutorType(ex) /\ ex.delay \subseteq {Receiver}
    /\ running \in BOOLEAN
    /\ co \in [TaskIds -> Contexts]
    /\ immediate \in [TaskIds -> Requests \cup {NoItem}]
    /\ cnt \in 0 .. SwitchCnt - 1
    /\ req_items \in Seq(Requests \cup {NetPollReq})
    /\ res_items \in Seq(Replies)
    /\ recv_req_status \in BOOLEAN /\ recv_reply_status \in BOOLEAN
    /\ SocketsOK(sock)
    /\ syn_queue \in Seq(Nat) /\ block_cids \in Seq(TaskIds)
    /\ socket2cid \in [DOMAIN socket2cid -> TaskIds]
    /\ frames \in Seq(Received) /\ rx_cmplt \in BOOLEAN
    /\ masked \in BOOLEAN /\ late \in BOOLEAN
    /\ peer \in [Peers -> Hosts]
    /\ faults \in FaultSets
    /\ cl \in [Clients -> Calls] /\ ReplyOK(recv_reply_status, reply)
    /\ \A d \in TaskIds : co[d].handler \in 0 .. Len(sock)
    /\ \A k \in DOMAIN syn_queue : syn_queue[k] \in 1 .. Len(sock)
    /\ DOMAIN socket2cid \subseteq 1 .. Len(sock)

(* Handle h is client c's, in the socket set s: SOCKET_2_CID has the       *)
(* coroutine that made it, for that client, and the connection is made.    *)
Owns(s, c, h) ==
    /\ h \in DOMAIN socket2cid
    /\ co[socket2cid[h]].handler = h
    /\ co[socket2cid[h]].caller = c
    /\ co[socket2cid[h]].pc \in {"parked", "retry"}
    /\ socket2cid[h] \notin {Poller, Receiver}
    /\ s[h].st \in {"established", "closed"}

(* Every handle a client has, or will find in a reply, is its own. *)
GivenIn(s) ==
    /\ \A c \in Clients : cl[c].fd # NoFd => Owns(s, c, cl[c].fd)
    /\ \A r \in Range(res_items) : r.type = "ListenReply" => Owns(s, r.client, r.fd)

-----------------------------------------------------------------------------
(* The rest holds while the network thread has not panicked. *)

(* The coroutines made for a Listen, and those that wait in accept(). *)
Accepts == {d \in TaskIds \ {Poller, Receiver} : co[d].pc # "none"}
Listeners == {d \in Accepts : co[d].pc = "listening"}

Run(d) == running /\ ex.current = d

(* A queue holds live coroutines of its priority, one of a Listen once;    *)
(* the interrupt handler wakes the receiver only.                          *)
Shape(x) ==
    /\ ExecutorType(x) /\ QueuesTyped(x) /\ IdsMatch(x) /\ ~x.panic
    /\ x.delay \subseteq {Receiver}
    /\ {Poller, Receiver} \subseteq Live(x)
    /\ \A c \in Live(x) : x.tasks[c] = IF c \in {Poller, Receiver} THEN c ELSE 2
    /\ \A p \in Prios : \A c \in Queued(x, p) : x.tasks[c] = p
    /\ \A i, j \in DOMAIN x.ready[2] : x.ready[2][i] = x.ready[2][j] => i = j

(* The task array and the coroutines agree; only a coroutine of a Listen   *)
(* has a request in hand.                                                  *)
CoInv ==
    /\ Live(ex) = Accepts \cup {Poller, Receiver}
    /\ co[Poller].pc \in {"poll", "ack"} /\ co[Receiver].pc \in {"none", "clear"}
    /\ co[Poller].pc = "ack" => Run(Poller)
    /\ co[Receiver].pc = "clear" => Run(Receiver)
    /\ running => ex.current \in Live(ex)
    /\ \A d \in Accepts : co[d].pc \in {"start", "listening", "parked", "retry"}
                          /\ co[d].caller \in Clients
    /\ \A d \in TaskIds \ Accepts : immediate[d] = NoItem /\ co[d].item = NoItem

(* A coroutine is at one place: queued, running, or blocked, a listener in *)
(* block_cids; past accept() it runs only for a request.                   *)
SchedInv(x, b) ==
    \A d \in Accepts :
        /\ d \in Queued(x, 2) => ~Run(d)
        /\ d \in Range(b) <=> d \in Listeners /\ d \notin Queued(x, 2) /\ ~Run(d)
        /\ co[d].pc = "parked" /\ (d \in Queued(x, 2) \/ Run(d)) => immediate[d] # NoItem

Before(d, e) == co[d].handler < co[e].handler

(* Listeners go to accept() in the order in which they made their sockets. *)
OrderInv(x, b) ==
    /\ \A k \in DOMAIN b : b[k] \in Accepts
    /\ \A i, j \in DOMAIN b : i < j => Before(b[i], b[j])
    /\ \A d \in Listeners, e \in Range(b) : d \notin Range(b) => Before(d, e)
    /\ \A i, j \in DOMAIN x.ready[2] :
          i < j /\ x.ready[2][i] \in Listeners /\ x.ready[2][j] \in Listeners =>
              Before(x.ready[2][i], x.ready[2][j])
    /\ \A d, e \in Listeners : Run(d) /\ e # d => Before(d, e)

(* The queue of the listen table has the sockets of the listeners, oldest  *)
(* first; a socket has one maker.                                          *)
QueueInv ==
    /\ \A i, j \in DOMAIN syn_queue : i < j => syn_queue[i] < syn_queue[j]
    /\ Range(syn_queue) = {co[d].handler : d \in Listeners}
    /\ \A d \in Accepts : co[d].handler = NoFd <=> co[d].pc = "start"
    /\ \A d, e \in Accepts : co[d].handler = co[e].handler /\ co[d].handler # NoFd => d = e

Request(op) == IF op = "Bye" THEN "Send" ELSE op

(* What is on its way for a client is what it waits for. *)
CallInv ==
    /\ \A c \in Clients : cl[c].st # "panic" /\ (cl[c].fd = NoFd <=> cl[c].op = "Listen")
    /\ \A i \in Range(req_items) \ {NetPollReq} :
          i.type = Request(cl[i.client].op) /\ i.fd = cl[i.client].fd
    /\ \A r \in Range(res_items) : r.type = Expected(cl[r.client].op)
    /\ \A d \in Accepts :
          LET c == co[d].caller
              i == Message("Recv", c, co[d].handler)
          IN  /\ co[d].pc \in {"start", "listening"} => cl[c].op = "Listen"
              /\ immediate[d] # NoItem =>
                    co[d].pc = "parked" /\ immediate[d] = i /\ cl[c].op = "Recv"
              /\ co[d].pc = "retry" => co[d].item = i /\ cl[c].op = "Recv"
              /\ co[d].pc # "retry" => co[d].item = NoItem
              /\ cl[c].op = "Listen" /\ co[d].pc \in {"parked", "retry"} =>
                    \E r \in Range(res_items) : r.client = c
    /\ \A d, e \in Accepts : co[d].caller = co[e].caller => d = e

(* How many items of a sequence are in T. *)
Count(s, T) == Cardinality({k \in DOMAIN s : s[k] \in T})

ItemsOf(c) == {i \in Requests \cup Replies : i.client = c}

(* A coroutine of a Listen has its caller's request in hand. *)
Holding(d) == \/ co[d].pc \in {"start", "listening", "retry"}
              \/ immediate[d] # NoItem
Held(c) == \E d \in Accepts : co[d].caller = c /\ Holding(d)

Places(c) == Count(req_items, ItemsOf(c)) + Count(res_items, ItemsOf(c)) + One(Held(c))

(* A client waits for one answer, unless its connection was cut or has no  *)
(* room for its byte.                                                      *)
TokenInv(s) ==
    \A c \in Clients :
        IF cl[c].st = "waiting"
        THEN \/ Places(c) = 1
             \/ /\ Places(c) = 0 /\ cl[c].fd # NoFd
                /\ \/ s[cl[c].fd].st = "closed"
                   \/ Request(cl[c].op) = "Send" /\ "tx_full" \in faults
        ELSE Places(c) = 0

(* The interrupt is masked while a poll is due, but for one.  The receiver *)
(* runs once for its flag, and once more for its spawn or for a flag it    *)
(* has cleared.                                                            *)
WakesInv(x) ==
    /\ Count(req_items, {NetPollReq}) + Len(x.ready[0]) + One(Run(Poller)) <= 1 + One(masked)
    /\ Len(x.ready[1]) + One(Receiver \in x.delay) + One(Run(Receiver))
          <= 1 + One(recv_req_status)
    /\ One(recv_req_status)
          <= Len(x.ready[1]) + One(Receiver \in x.delay) + One(Run(Receiver))

Connected == {"syn_acked", "established", "reset"}

(* Sockets s, peers q and the frames after the i-th: a peer has one        *)
(* socket, a socket that listens has not left the queue; a reset is a      *)
(* peer's last frame and, unless it may come early, follows accept().      *)
StackInv(s, q, i) ==
    /\ \A p \in Peers : q[p].st \in Connected <=> \E h \in DOMAIN s : s[h].peer = {p}
    /\ \A h, g \in DOMAIN s : s[h].peer = s[g].peer /\ s[h].peer # {} => h = g
    /\ \A h \in DOMAIN s : s[h].st = "listen" => h \in Range(syn_queue)
    /\ \A h \in DOMAIN s, p \in Peers : s[h].st = "closed" /\ s[h].peer = {p} =>
          /\ q[p].st = "reset"
          /\ \A k \in DOMAIN frames : k > i /\ frames[k].type = "ACK" => frames[k].peer # p
    /\ \A k \in DOMAIN frames : k > i /\ frames[k].type = "RST" =>
          /\ q[frames[k].peer].st = "reset"
          /\ "early_reset" \notin faults =>
                \A h \in Range(syn_queue) : s[h].peer # {frames[k].peer}
          /\ \A j \in DOMAIN frames :
                j > k /\ frames[j].type = "ACK" => frames[j].peer # frames[k].peer

Prompt == faults \cap {"late_ack", "retransmit", "early_reset"} = {}

(* With prompt handshakes a listener that was woken has its connection. *)
GoodInv(s, q, b, i) ==
    Prompt =>
        /\ \A k \in DOMAIN frames : k > i /\ frames[k].type = "SYN" =>
              /\ q[frames[k].peer].st = "syn_sent"
              /\ \A j \in DOMAIN frames :
                    j > k /\ frames[j].type = "SYN" => frames[j].peer # frames[k].peer
        /\ \A h \in DOMAIN s : s[h].st # "syn_received"
        /\ \A d \in Listeners : d \notin Range(b) => s[co[d].handler].st # "listen"
        /\ \A h \in Range(syn_queue) : s[h].st # "closed"

(* But for a late last frame, the device's interrupt is not lost. *)
StrandInv ==
    /\ frames # <<>> /\ ~late => rx_cmplt
    /\ masked => NetPollReq \in Range(req_items) \/ Poller \in Queued(ex, 0) \/ Run(Poller)
    /\ co[Poller].pc = "ack" /\ frames # <<>> => late

RunInv ==
    /\ Shape(ex) /\ CoInv /\ SchedInv(ex, block_cids) /\ OrderInv(ex, block_cids) /\ QueueInv
    /\ CallInv /\ TokenInv(sock) /\ WakesInv(ex)
    /\ StackInv(sock, peer, 0) /\ GoodInv(sock, peer, block_cids, 0)
    /\ StrandInv

NetInv ==
    /\ TypeInv /\ GivenIn(sock)
    /\ ~ex.panic => RunInv
    /\ Sizes /\ ex.panic => AcceptFailed /\ ~Prompt

-----------------------------------------------------------------------------
(* The executor of the network thread. *)

LEMMA NetSized ==
    /\ 0 \in Prios /\ 1 \in Prios /\ 2 \in Prios
    /\ Poller = 0 /\ Receiver = 1 /\ NoFd = 0 /\ Poller \in TaskIds
    /\ RingSize \in Nat \ {0} /\ SwitchCnt \in Nat \ {0} /\ MaxData \in Nat \ {0}
    /\ QueueSize \in Nat \ {0} /\ MaxTask \in Nat \ {0} /\ WordBits \in Nat \ {0}
BY NetAssumption, Constants DEF Prios, TaskIds, Poller, Receiver, NoFd

(* The parts of Shape that are about the queues. *)
LEMMA ShapeQueues ==
    ASSUME NEW x, Shape(x)
    PROVE  /\ x.ready \in [Prios -> Seq(TaskIds)]
           /\ x.tasks \in [TaskIds -> Prios \cup {NoTask}]
           /\ Poller \in TaskIds /\ Receiver \in TaskIds
           /\ \A p \in Prios : /\ Len(x.ready[p]) \in Nat
                               /\ DOMAIN x.ready[p] = 1 .. Len(x.ready[p])
                               /\ Queued(x, p) \subseteq Live(x)
           /\ x.tasks[Poller] = 0 /\ x.tasks[Receiver] = 1
           /\ \A c \in Live(x) \ {Poller, Receiver} : x.tasks[c] = 2
           /\ Queued(x, 0) \subseteq {Poller} /\ Queued(x, 1) \subseteq {Receiver}
           /\ Queued(x, 2) \subseteq Live(x) \ {Poller, Receiver}
<1>1. x.ready \in [Prios -> Seq(TaskIds)]  BY DEF Shape, QueuesTyped
<1>2. x.tasks \in [TaskIds -> Prios \cup {NoTask}]  BY DEF Shape, ExecutorType
<1>3. Poller \in Live(x) /\ Receiver \in Live(x)  BY DEF Shape
<1>4. x.tasks[Poller] = 0 /\ x.tasks[Receiver] = 1  BY <1>3, NetSized DEF Shape
<1>5. \A c \in Live(x) \ {Poller, Receiver} : x.tasks[c] = 2  BY DEF Shape
<1>6. ASSUME NEW p \in Prios
      PROVE  /\ Len(x.ready[p]) \in Nat /\ DOMAIN x.ready[p] = 1 .. Len(x.ready[p])
             /\ Queued(x, p) \subseteq Live(x)
  <2>1. x.ready[p] \in Seq(TaskIds)  BY <1>1
  <2>2. Len(x.ready[p]) \in Nat /\ DOMAIN x.ready[p] = 1 .. Len(x.ready[p])
    BY <2>1, LenProperties
  <2>3. \A c \in Queued(x, p) : c \in TaskIds  BY <2>1, <2>2 DEF Queued
  <2>4. \A c \in Queued(x, p) : x.tasks[c] = p  BY DEF Shape
  <2> QED  BY <2>2, <2>3, <2>4, Constants DEF Live
<1>7. \A p \in Prios : \A c \in Queued(x, p) : c \in Live(x) /\ x.tasks[c] = p
  BY <1>6 DEF Shape
<1>8. Queued(x, 0) \subseteq {Poller} /\ Queued(x, 1) \subseteq {Receiver}
      /\ Queued(x, 2) \subseteq Live(x) \ {Poller, Receiver}
  BY <1>4, <1>5, <1>7, NetSized
<1> QED  BY <1>1, <1>2, <1>3, <1>4, <1>5, <1>6, <1>8 DEF Live

(* The queues hold the ids that are in them. *)
LEMMA QueuedAppend ==
    ASSUME NEW x, NEW e, NEW p, x.ready[p] \in Seq(TaskIds), NEW c \in TaskIds,
           e.ready[p] = Append(x.ready[p], c)
    PROVE  Queued(e, p) = Queued(x, p) \cup {c}
<1> DEFINE s == x.ready[p]
           t == Append(s, c)
<1>1. /\ Len(s) \in Nat /\ DOMAIN s = 1 .. Len(s) /\ DOMAIN t = 1 .. Len(s) + 1
      /\ \A k \in 1 .. Len(s) : t[k] = s[k]
      /\ t[Len(s) + 1] = c
  BY AppendFacts
<1> HIDE DEF s, t
<1>2. {t[k] : k \in DOMAIN t} \subseteq {s[k] : k \in DOMAIN s} \cup {c}  BY <1>1
<1>3. {s[k] : k \in DOMAIN s} \subseteq {t[k] : k \in DOMAIN t}  BY <1>1
<1>4. c \in {t[k] : k \in DOMAIN t}
  <2>1. Len(s) + 1 \in DOMAIN t  BY <1>1
  <2> QED  BY <1>1, <2>1
<1> QED  BY <1>2, <1>3, <1>4 DEF Queued, s, t

LEMMA QueuedTail ==
    ASSUME NEW x, NEW e, NEW p, x.ready[p] \in Seq(TaskIds), x.ready[p] # <<>>,
           e.ready[p] = Tail(x.ready[p])
    PROVE  /\ Queued(x, p) = Queued(e, p) \cup {Head(x.ready[p])}
           /\ Head(x.ready[p]) \in Queued(x, p)
<1> DEFINE s == x.ready[p]
           t == Tail(s)
<1>1. /\ Head(s) = s[1] /\ Len(s) \in Nat \ {0}
      /\ DOMAIN s = 1 .. Len(s) /\ DOMAIN t = 1 .. Len(s) - 1
      /\ \A k \in 1 .. Len(s) - 1 : t[k] = s[k + 1]
  BY TailFacts
<1> HIDE DEF s, t
<1>2. ASSUME NEW k \in DOMAIN s  PROVE s[k] \in {t[j] : j \in DOMAIN t} \cup {Head(s)}
  <2>1. CASE k = 1  BY <1>1, <2>1
  <2>2. CASE k # 1
    <3>1. k - 1 \in DOMAIN t /\ t[k - 1] = s[k]  BY <1>1, <2>2
    <3> QED  BY <3>1
  <2> QED  BY <2>1, <2>2
<1>3. {t[k] : k \in DOMAIN t} \subseteq {s[k] : k \in DOMAIN s}  BY <1>1
<1>4. Head(s) \in {s[k] : k \in DOMAIN s}
  <2>1. 1 \in DOMAIN s  BY <1>1
  <2> QED  BY <1>1, <2>1
<1> QED  BY <1>2, <1>3, <1>4 DEF Queued, s, t

(* Shape looks at the queues, the tasks, the ids and the word only. *)
LEMMA ShapeSame ==
    ASSUME NEW x, Shape(x), NEW e, ExecutorType(e), ~e.panic,
           e.ready = x.ready, e.tasks = x.tasks, e.num = x.num, e.ids = x.ids,
           e.delay \subseteq {Receiver}
    PROVE  /\ Shape(e) /\ Live(e) = Live(x)
           /\ \A p \in Prios : Queued(e, p) = Queued(x, p)
<1>1. Live(e) = Live(x)  BY DEF Live
<1>2. \A p \in Prios : Queued(e, p) = Queued(x, p)  BY DEF Queued
<1> QED  BY <1>1, <1>2 DEF Shape, QueuesTyped, IdsMatch

(* A sequence grows by one that is not in it. *)
LEMMA DistinctAppend ==
    ASSUME NEW S, NEW s \in Seq(S), NEW c \in S, \A k \in DOMAIN s : s[k] # c,
           \A i, j \in DOMAIN s : s[i] = s[j] => i = j
    PROVE  \A i, j \in DOMAIN Append(s, c) : Append(s, c)[i] = Append(s, c)[j] => i = j
<1> DEFINE t == Append(s, c)
<1>1. /\ Len(s) \in Nat /\ DOMAIN s = 1 .. Len(s) /\ DOMAIN t = 1 .. Len(s) + 1
      /\ \A k \in 1 .. Len(s) : t[k] = s[k]
      /\ t[Len(s) + 1] = c
  BY AppendFacts
<1> HIDE DEF t
<1>2. \A k \in 1 .. Len(s) + 1 : k \in 1 .. Len(s) \/ k = Len(s) + 1  BY <1>1
<1>3. \A i, j \in DOMAIN t : t[i] = t[j] => i = j
  BY <1>1, <1>2
<1> QED  BY <1>3 DEF t

(* wake: the id is appended to its queue. *)
LEMMA ShapeWake ==
    ASSUME NEW x, Shape(x), NEW c \in Live(x),
           c \notin {Poller, Receiver} => c \notin Queued(x, 2)
    PROVE  LET e == Wake(x, c)
               p == x.tasks[c]
           IN  /\ ~e.panic => /\ Shape(e) /\ Frame(x, e) /\ e.delay = x.delay
                              /\ e.ready = [x.ready EXCEPT ![p] = Append(@, c)]
               /\ Len(x.ready[p]) < MaxTask - 1 => ~e.panic
<1> DEFINE e == Wake(x, c)
           p == x.tasks[c]
<1>0. /\ ExecutorType(x) /\ QueuesTyped(x) /\ IdsMatch(x) /\ ~x.panic
      /\ x.ready \in [Prios -> Seq(TaskIds)]
  BY ShapeQueues DEF Shape
<1>1. c \in TaskIds /\ c \in Cids /\ p \in Prios /\ p # NoTask
  BY ShapeQueues, Constants DEF Live
<1>2. e = PushReady(x, p, c)  BY <1>1 DEF Wake
<1> HIDE DEF e, p
<1>3. /\ ExecutorType(e) /\ Frame(x, e) /\ e.delay = x.delay
      /\ \/ /\ Len(x.ready[p]) < MaxTask - 1
            /\ e.ready = [x.ready EXCEPT ![p] = Append(@, c)]
            /\ e.panic = x.panic
         \/ ~(Len(x.ready[p]) < MaxTask - 1) /\ e.panic
  BY <1>0, <1>1, <1>2, PushReadyFacts
<1>4. ASSUME ~e.panic
      PROVE  Shape(e) /\ e.ready = [x.ready EXCEPT ![p] = Append(@, c)]
  <2>1. e.ready = [x.ready EXCEPT ![p] = Append(@, c)]  BY <1>3, <1>4
  <2>2. QueuesTyped(e)  BY <1>0, <1>1, <1>2, PushReadyQueued
  <2>3. Live(e) = Live(x) /\ IdsMatch(e) /\ e.tasks = x.tasks
    BY <1>0, <1>3 DEF Frame, Live, IdsMatch
  <2>4. e.ready[p] = Append(x.ready[p], c) /\ \A q \in Prios \ {p} : e.ready[q] = x.ready[q]
    BY <1>0, <1>1, <2>1
  <2>5. x.ready[p] \in Seq(TaskIds) /\ x.ready[2] \in Seq(TaskIds)  BY <1>0, <1>1, NetSized
  <2>6. Queued(e, p) = Queued(x, p) \cup {c}  BY <1>1, <2>4, <2>5, QueuedAppend
  <2>7. \A q \in Prios \ {p} : Queued(e, q) = Queued(x, q)  BY <2>4 DEF Queued
  <2>8. \A q \in Prios : \A d \in Queued(e, q) : e.tasks[d] = q
    BY <2>3, <2>6, <2>7 DEF Shape, p
  <2>9. \A i, j \in DOMAIN e.ready[2] : e.ready[2][i] = e.ready[2][j] => i = j
    <3>1. CASE p = 2
      <4>1. c \notin Queued(x, 2)  BY <3>1, ShapeQueues DEF p
      <4>2. \A k \in DOMAIN x.ready[2] : x.ready[2][k] # c  BY <4>1 DEF Queued
      <4>3. \A i, j \in DOMAIN x.ready[2] : x.ready[2][i] = x.ready[2][j] => i = j
        BY DEF Shape
      <4> DEFINE s == x.ready[2]
      <4>4. s \in Seq(TaskIds) /\ e.ready[2] = Append(s, c)  BY <2>4, <2>5, <3>1
      <4> HIDE DEF s
      <4>5. \A i, j \in DOMAIN Append(s, c) : Append(s, c)[i] = Append(s, c)[j] => i = j
        <5>1. \A k \in DOMAIN s : s[k] # c  BY <4>2 DEF s
        <5>2. \A i, j \in DOMAIN s : s[i] = s[j] => i = j  BY <4>3 DEF s
        <5> QED  BY <1>1, <4>4, <5>1, <5>2, DistinctAppend
      <4> QED  BY <4>4, <4>5
    <3>2. CASE p # 2  BY <2>4, <3>2, NetSized DEF Shape
    <3> QED  BY <3>1, <3>2
  <2>10. Shape(e)
    BY <1>0, <1>3, <1>4, <2>2, <2>3, <2>8, <2>9 DEF Shape
  <2> QED  BY <2>1, <2>10
<1>5. Len(x.ready[p]) < MaxTask - 1 => ~e.panic  BY <1>0, <1>3
<1> QED  BY <1>3, <1>4, <1>5 DEF e, p

(* actual_wake, whatever the queues hold. *)
LEMMA ActualWakeType ==
    ASSUME NEW x, ExecutorType(x), x.delay \subseteq {Receiver}
    PROVE  LET e == ActualWake(x)
           IN  /\ ExecutorType(e) /\ e.delay = {} /\ Frame(x, e)
               /\ x.panic => e.panic
<1> DEFINE y == [x EXCEPT !.delay = {}]
           e == ActualWake(x)
<1>1. /\ ExecutorType(y) /\ y.delay = {} /\ y.panic = x.panic /\ Frame(x, y)
  BY DEF ExecutorType, Frame
<1>2. e = IF Receiver \in x.delay THEN Wake(y, Receiver) ELSE y
  BY ActualWakeSingle, NetSized
<1> HIDE DEF y, e
<1>3. CASE Receiver \in x.delay
  <2>1. Receiver \in TaskIds  BY <1>3, Constants DEF ExecutorType
  <2>3. e = Wake(y, Receiver)  BY <1>2, <1>3
  <2>4. ExecutorType(e) /\ Frame(y, e) /\ e.delay = y.delay /\ (y.panic => e.panic)
    BY <1>1, <2>1, <2>3, WakeFacts
  <2> QED  BY <1>1, <2>4 DEF Frame, e
<1>4. CASE Receiver \notin x.delay  BY <1>1, <1>2, <1>4 DEF e
<1> QED  BY <1>3, <1>4

(* actual_wake moves the receiver from the word to its queue. *)
LEMMA ShapeActualWake ==
    ASSUME NEW x, Shape(x)
    PROVE  LET e == ActualWake(x)
           IN  /\ ~e.panic => /\ Shape(e) /\ Frame(x, e) /\ e.delay = {}
                              /\ \A q \in Prios \ {1} : e.ready[q] = x.ready[q]
                              /\ Len(e.ready[1]) = Len(x.ready[1]) + One(Receiver \in x.delay)
               /\ (Receiver \in x.delay => Len(x.ready[1]) < MaxTask - 1) => ~e.panic
<1> DEFINE y == [x EXCEPT !.delay = {}]
           e == ActualWake(x)
<1>0. ExecutorType(x) /\ x.delay \subseteq {Receiver} /\ ~x.panic  BY DEF Shape
<1>1. /\ ExecutorType(y) /\ y.delay = {} /\ ~y.panic /\ Frame(x, y) /\ y.ready = x.ready
  BY <1>0 DEF ExecutorType, Frame
<1>2. e = IF Receiver \in x.delay THEN Wake(y, Receiver) ELSE y
  BY <1>0, ActualWakeSingle, NetSized
<1> HIDE DEF y, e
<1>3. Shape(y) /\ Live(y) = Live(x)  BY <1>1, ShapeSame DEF Frame
<1>4. CASE Receiver \notin x.delay
  <2>1. e = y  BY <1>2, <1>4
  <2>2. Len(e.ready[1]) = Len(x.ready[1]) + One(Receiver \in x.delay)
    <3>1. Len(x.ready[1]) \in Nat  BY ShapeQueues, NetSized
    <3> QED  BY <1>1, <1>4, <2>1, <3>1 DEF One
  <2> QED  BY <1>1, <1>3, <2>1, <2>2 DEF e
<1>5. CASE Receiver \in x.delay
  <2>1. e = Wake(y, Receiver) /\ Receiver \in Live(y) /\ y.tasks[Receiver] = 1
    BY <1>2, <1>3, <1>5, ShapeQueues DEF Shape
  <2> DEFINE p == y.tasks[Receiver]
  <2>w. /\ ~e.panic => /\ Shape(e) /\ Frame(y, e) /\ e.delay = y.delay
                        /\ e.ready = [y.ready EXCEPT ![p] = Append(@, Receiver)]
        /\ Len(y.ready[p]) < MaxTask - 1 => ~e.panic
    BY <1>3, <2>1, ShapeWake
  <2>2. /\ ~e.panic => /\ Shape(e) /\ Frame(y, e) /\ e.delay = y.delay
                        /\ e.ready = [y.ready EXCEPT ![1] = Append(@, Receiver)]
        /\ Len(y.ready[1]) < MaxTask - 1 => ~e.panic
    BY <2>1, <2>w
  <2>3. ASSUME ~e.panic
        PROVE  /\ \A q \in Prios \ {1} : e.ready[q] = x.ready[q]
               /\ Len(e.ready[1]) = Len(x.ready[1]) + One(Receiver \in x.delay)
    <3>1. x.ready \in [Prios -> Seq(TaskIds)] /\ Receiver \in TaskIds  BY ShapeQueues
    <3>2. x.ready[1] \in Seq(TaskIds) /\ e.ready[1] = Append(x.ready[1], Receiver)
      BY <1>1, <2>2, <2>3, <3>1, NetSized
    <3>3. Len(e.ready[1]) = Len(x.ready[1]) + 1  BY <3>1, <3>2, AppendFacts
    <3> QED  BY <1>1, <1>5, <2>2, <2>3, <3>1, <3>3 DEF One
  <2>4. ~e.panic => Frame(x, e)  BY <1>1, <2>2 DEF Frame
  <2> QED  BY <1>1, <1>5, <2>2, <2>3, <2>4 DEF e
<1> QED  BY <1>4, <1>5

(* What fetch took from the executor y that actual_wake left. *)
Fetched(y, f) ==
    \/ f.got = NoCid /\ f.ex = y
    \/ LET p == y.tasks[f.got]
       IN  /\ f.got \in Live(y)
           /\ y.ready[p] # <<>> /\ f.got = Head(y.ready[p])
           /\ f.ex.ready[p] = Tail(y.ready[p])
           /\ \A q \in Prios \ {p} : f.ex.ready[q] = y.ready[q]
           /\ f.ex.current = f.got

LEMMA ShapeFetch ==
    ASSUME NEW x, Shape(x), ~Fetch(x).ex.panic
    PROVE  LET f == Fetch(x)
               y == ActualWake(x)
           IN  /\ Shape(y) /\ Shape(f.ex) /\ Fetched(y, f)
               /\ f.ex.tasks = x.tasks /\ f.ex.delay = {}
<1> DEFINE f == Fetch(x)
           y == ActualWake(x)
<1>0. ExecutorType(x) /\ QueuesTyped(x)  BY DEF Shape
<1>1. /\ ExecutorType(f.ex) /\ QueuesTyped(f.ex) /\ f.ex.tasks = x.tasks
      /\ f.ex.num = x.num /\ f.ex.ids = x.ids /\ f.ex.delay = {} /\ f.ex.panic = y.panic
  BY <1>0, FetchFacts
<1>2. \/ y.bitmap = {} /\ f.ex = y /\ f.got = NoCid
      \/ \E p \in y.bitmap : Popped(y, f, p)
  BY <1>0, FetchCases
<1>p. ~f.ex.panic  OBVIOUS
<1>3. Shape(y) /\ Frame(x, y)
  <2>1. ~y.panic  BY <1>1, <1>p
  <2> QED  BY <2>1, ShapeActualWake
<1> HIDE DEF f, y
<1>4. CASE f.ex = y /\ f.got = NoCid
  <2>1. Fetched(y, f)  BY <1>4 DEF Fetched
  <2> QED  BY <1>1, <1>3, <1>4, <2>1 DEF f, y
<1>5. ASSUME NEW p \in y.bitmap, Popped(y, f, p), ~(f.ex = y /\ f.got = NoCid)
      PROVE  Fetched(y, f) /\ Shape(f.ex)
  <2>1. p \in Prios  BY <1>3, <1>5 DEF Shape, ExecutorType
  <2>2. y.ready[p] \in Seq(TaskIds) /\ y.ready \in [Prios -> Seq(TaskIds)]
    BY <1>3, <2>1, ShapeQueues
  <2>3. y.ready[p] # <<>>  BY <1>5 DEF Popped
  <2>4. /\ Head(y.ready[p]) = y.ready[p][1] /\ 1 \in DOMAIN y.ready[p]
    BY <2>2, <2>3, TailFacts
  <2>5. Head(y.ready[p]) \in Queued(y, p)  BY <2>4 DEF Queued
  <2>6. Head(y.ready[p]) \in Live(y) /\ y.tasks[Head(y.ready[p])] = p
    BY <1>3, <2>1, <2>5, ShapeQueues DEF Shape
  <2>7. /\ f.got \in Live(y) /\ f.got = Head(y.ready[p])
        /\ f.ex.ready[p] = Tail(y.ready[p]) /\ f.ex.current = f.got
        /\ \A q \in Prios \ {p} : f.ex.ready[q] = y.ready[q]
    BY <1>5, <2>3, <2>6 DEF Popped, Live
  <2>8. Fetched(y, f)  BY <2>3, <2>6, <2>7 DEF Fetched
  <2>9. Queued(f.ex, p) \subseteq Queued(y, p)  BY <2>2, <2>3, <2>7, QueuedTail
  <2>10. \A q \in Prios : Queued(f.ex, q) \subseteq Queued(y, q)
    <3>1. \A q \in Prios \ {p} : Queued(f.ex, q) = Queued(y, q)  BY <2>7 DEF Queued
    <3> QED  BY <2>9, <3>1
  <2>11. \A i, j \in DOMAIN f.ex.ready[2] : f.ex.ready[2][i] = f.ex.ready[2][j] => i = j
    <3>i. \A i, j \in DOMAIN y.ready[2] : y.ready[2][i] = y.ready[2][j] => i = j
      BY <1>3 DEF Shape
    <3>1. CASE p = 2
      <4> DEFINE s == y.ready[2]
                 t == Tail(s)
      <4>1. s \in Seq(TaskIds) /\ s # <<>> /\ f.ex.ready[2] = t  BY <2>2, <2>3, <2>7, <3>1
      <4>2. /\ Len(s) \in Nat \ {0} /\ DOMAIN s = 1 .. Len(s)
            /\ DOMAIN t = 1 .. Len(s) - 1
            /\ \A k \in 1 .. Len(s) - 1 : t[k] = s[k + 1]
        BY <4>1, TailFacts
      <4>3. \A i, j \in DOMAIN s : s[i] = s[j] => i = j  BY <3>i
      <4> HIDE DEF s, t
      <4>4. \A i, j \in DOMAIN t : t[i] = t[j] => i = j
        <5> SUFFICES ASSUME NEW i \in DOMAIN t, NEW j \in DOMAIN t, t[i] = t[j]
                     PROVE  i = j
          OBVIOUS
        <5>1. i + 1 \in DOMAIN s /\ j + 1 \in DOMAIN s /\ s[i + 1] = s[j + 1]  BY <4>2
        <5>2. i + 1 = j + 1  BY <4>3, <5>1
        <5> QED  BY <4>2, <5>2
      <4> QED  BY <4>1, <4>4
    <3>2. CASE p # 2  BY <2>7, <3>i, <3>2, NetSized
    <3> QED  BY <3>1, <3>2
  <2>12. f.ex.tasks = y.tasks /\ f.ex.num = y.num /\ f.ex.ids = y.ids
    BY <1>1, <1>3 DEF Frame
  <2>13. Live(f.ex) = Live(y) /\ IdsMatch(f.ex)
    BY <1>3, <2>12 DEF Live, IdsMatch, Shape
  <2>14. Shape(f.ex)
    BY <1>1, <1>3, <1>p, <2>10, <2>11, <2>12, <2>13 DEF Shape, f
  <2> QED  BY <2>8, <2>14
<1> QED  BY <1>1, <1>2, <1>3, <1>4, <1>5 DEF f, y

(* spawn of a coroutine for a Listen. *)
LEMMA ShapeSpawn ==
    ASSUME NEW x, Shape(x), ~Spawn(x, 2).panic
    PROVE  LET e == Spawn(x, 2)
               c == find_first_one(FreeCids(x))
           IN  /\ Shape(e) /\ e.delay = x.delay /\ e.current = x.current
               /\ c \in TaskIds /\ c \notin Live(x) /\ c \notin {Poller, Receiver}
               /\ Live(e) = Live(x) \cup {c}
               /\ e.ready = [x.ready EXCEPT ![2] = Append(@, c)]
               /\ e.tasks = [x.tasks EXCEPT ![c] = 2]
<1> DEFINE e == Spawn(x, 2)
           f == find_first_one(FreeCids(x))
<1>0. ExecutorType(x) /\ QueuesTyped(x) /\ IdsMatch(x) /\ ~x.panic /\ ~e.panic
      /\ x.ready \in [Prios -> Seq(TaskIds)] /\ x.tasks \in [TaskIds -> Prios \cup {NoTask}]
  BY ShapeQueues DEF Shape
<1>1. ExecutorType(e) /\ \E c \in TaskIds : Spawned(x, e, 2, c)
  BY <1>0, NetSized, SpawnFacts
<1> HIDE DEF e
<1>2. PICK c \in TaskIds : Spawned(x, e, 2, c)  BY <1>1
<1>3. /\ QueuesTyped(e) /\ IdsMatch(e) /\ c \notin Live(x) /\ Live(e) = Live(x) \cup {c}
      /\ \A p \in Prios : \A d \in Queued(e, p) : d \in Queued(x, p) \/ (d = c /\ p = 2)
  BY <1>0, <1>2, NetSized, SpawnedMatch
<1>4. /\ e.ready = [x.ready EXCEPT ![2] = Append(@, c)] /\ e.delay = x.delay
      /\ e.current = x.current /\ e.tasks = [x.tasks EXCEPT ![c] = 2]
  BY <1>2 DEF Spawned
<1>5. f = c
  <2>1. c \in FreeCids(x) /\ \A d \in TaskIds \ x.ids : c <= d
    BY <1>2, Constants DEF Spawned, FreeCids
  <2>2. FreeCids(x) \in SUBSET Nat /\ FreeCids(x) # {}  BY <2>1, Constants DEF FreeCids
  <2>3. f \in FreeCids(x) /\ f <= c  BY <2>1, <2>2, FirstOne
  <2> HIDE DEF f
  <2>4. f \in Nat /\ c \in Nat /\ f \in TaskIds \ x.ids
    BY <2>2, <2>3, Constants DEF FreeCids, TaskIds
  <2> QED  BY <2>1, <2>3, <2>4
<1> HIDE DEF f
<1>6. \A p \in Prios : \A d \in Queued(x, p) : d # c  BY <1>3, ShapeQueues
<1>7. \A d \in TaskIds : e.tasks[d] = IF d = c THEN 2 ELSE x.tasks[d]  BY <1>0, <1>2, <1>4
<1>8. \A p \in Prios : \A d \in Queued(e, p) : e.tasks[d] = p
  <2> SUFFICES ASSUME NEW p \in Prios, NEW d \in Queued(e, p)  PROVE e.tasks[d] = p
    OBVIOUS
  <2>1. CASE d = c /\ p = 2  BY <1>2, <1>7, <2>1
  <2>2. CASE d \in Queued(x, p)
    <3>1. d \in TaskIds /\ x.tasks[d] = p  BY <2>2, ShapeQueues DEF Shape, Live
    <3> QED  BY <1>6, <1>7, <2>2, <3>1
  <2> QED  BY <1>3, <2>1, <2>2
<1>9. \A i, j \in DOMAIN e.ready[2] : e.ready[2][i] = e.ready[2][j] => i = j
  <2> DEFINE s == x.ready[2]
  <2>1. s \in Seq(TaskIds) /\ e.ready[2] = Append(s, c)  BY <1>0, <1>4, NetSized
  <2>2. \A k \in DOMAIN s : s[k] # c  BY <1>6, NetSized DEF Queued
  <2>3. \A i, j \in DOMAIN s : s[i] = s[j] => i = j  BY DEF Shape
  <2> HIDE DEF s
  <2>4. \A i, j \in DOMAIN Append(s, c) : Append(s, c)[i] = Append(s, c)[j] => i = j
    BY <2>1, <2>2, <2>3, DistinctAppend
  <2> QED  BY <2>1, <2>4
<1>10. c \notin {Poller, Receiver}  BY <1>3 DEF Shape
<1>11. \A d \in Live(e) : e.tasks[d] = IF d \in {Poller, Receiver} THEN d ELSE 2
  BY <1>3, <1>7, <1>10 DEF Shape, Live
<1>12. Shape(e)
  BY <1>0, <1>1, <1>3, <1>4, <1>8, <1>9, <1>11 DEF Shape
<1> QED  BY <1>2, <1>3, <1>4, <1>5, <1>10, <1>12 DEF e, f

(* delay_wake of the receiver: the bit is set, or the word has no such bit. *)
LEMMA DelayWakeType ==
    ASSUME NEW x, ExecutorType(x), x.delay \subseteq {Receiver}
    PROVE  LET e == DelayWake(x, Receiver)
           IN  /\ ExecutorType(e) /\ e.delay \subseteq {Receiver}
               /\ Frame(x, e) /\ e.ready = x.ready
               /\ x.panic => e.panic
               /\ WordBits > 1 => e.panic = x.panic
               /\ e.panic \/ Receiver \in e.delay
<1>1. CASE Receiver < WordBits
  <2>1. Receiver \in 0 .. WordBits - 1  BY <1>1, NetSized
  <2> QED  BY <1>1, <2>1 DEF DelayWake, ExecutorType, Frame
<1>2. CASE ~(Receiver < WordBits)
  BY <1>2, NetSized DEF DelayWake, ExecutorType, Frame
<1> QED  BY <1>1, <1>2

-----------------------------------------------------------------------------
(* nw_recv_req_coroutine after an item. *)

LEMMA ReqDoneType ==
    ASSUME NEW e, ExecutorType(e), e.delay \subseteq {Receiver}, e.current = Receiver,
           running, cnt \in 0 .. SwitchCnt - 1, ReqDone(e)
    PROVE  /\ ExecutorType(ex') /\ ex'.delay \subseteq {Receiver} /\ Frame(e, ex')
           /\ cnt' \in 0 .. SwitchCnt - 1 /\ running' \in BOOLEAN
           /\ e.panic => ex'.panic
<1> DEFINE s == SwitchPossible(e)
           y == ActualWake(e)
<1>0. Receiver \in TaskIds  BY NetSized, Constants DEF ExecutorType, NoCid
<1>1. s.ex = y /\ s.yes \in BOOLEAN  BY DEF SwitchPossible
<1>2. ExecutorType(y) /\ y.delay = {} /\ Frame(e, y) /\ (e.panic => y.panic)
  BY ActualWakeType
<1> HIDE DEF y
<1>3. LET z == Wake(y, Receiver)
      IN  ExecutorType(z) /\ Frame(y, z) /\ z.delay = y.delay /\ (y.panic => z.panic)
  BY <1>0, <1>2, WakeFacts
<1> HIDE DEF s
<1>4. \/ cnt + 1 < SwitchCnt /\ cnt' = cnt + 1 /\ ex' = e /\ running' = running
      \/ /\ cnt' = 0 /\ running' = ~s.yes
         /\ ex' = IF s.yes THEN Wake(y, Receiver) ELSE y
  BY <1>1 DEF ReqDone, s
<1>5. CASE cnt + 1 < SwitchCnt /\ cnt' = cnt + 1 /\ ex' = e /\ running' = running
  BY <1>5, NetSized DEF Frame
<1>6. CASE /\ cnt' = 0 /\ running' = ~s.yes
           /\ ex' = IF s.yes THEN Wake(y, Receiver) ELSE y
  <2>1. cnt' \in 0 .. SwitchCnt - 1  BY <1>6, NetSized
  <2>2. CASE s.yes  BY <1>1, <1>2, <1>3, <1>6, <2>1, <2>2 DEF Frame
  <2>3. CASE ~s.yes  BY <1>1, <1>2, <1>6, <2>1, <2>3 DEF Frame
  <2> QED  BY <2>2, <2>3
<1> QED  BY <1>4, <1>5, <1>6

LEMMA ReqDoneShape ==
    ASSUME NEW e, Shape(e), e.current = Receiver, running,
           cnt \in 0 .. SwitchCnt - 1, ReqDone(e)
    PROVE  /\ ~ex'.panic =>
                 /\ Shape(ex') /\ Frame(e, ex')
                 /\ \A q \in Prios \ {1} : ex'.ready[q] = e.ready[q]
                 /\ Len(ex'.ready[1]) + One(Receiver \in ex'.delay) + One(running')
                       <= Len(e.ready[1]) + One(Receiver \in e.delay) + 1
                 /\ running' \/ Len(ex'.ready[1]) >= 1
           /\ Len(e.ready[1]) + One(Receiver \in e.delay) <= 1 /\ MaxTask > 2 => ~ex'.panic
<1> DEFINE s == SwitchPossible(e)
           y == ActualWake(e)
           z == Wake(y, Receiver)
<1>1. s.ex = y /\ s.yes \in BOOLEAN  BY DEF SwitchPossible
<1>2. /\ ~y.panic => /\ Shape(y) /\ Frame(e, y) /\ y.delay = {}
                     /\ \A q \in Prios \ {1} : y.ready[q] = e.ready[q]
                     /\ Len(y.ready[1]) = Len(e.ready[1]) + One(Receiver \in e.delay)
      /\ (Receiver \in e.delay => Len(e.ready[1]) < MaxTask - 1) => ~y.panic
  BY ShapeActualWake
<1>3. ExecutorType(e) /\ e.delay \subseteq {Receiver} /\ ~e.panic  BY DEF Shape
<1>4. ExecutorType(y)  BY <1>3, ActualWakeType
<1>5. \A b : One(b) \in {0, 1}  BY DEF One
<1>6. Len(e.ready[1]) \in Nat  BY ShapeQueues, NetSized
<1>7. Receiver \in Live(e) /\ Receiver \in TaskIds  BY ShapeQueues DEF Shape
<1> HIDE DEF y, z, s
<1>8. \/ ex' = e /\ running' = running
      \/ s.yes /\ running' = FALSE /\ ex' = z
      \/ ~s.yes /\ running' = TRUE /\ ex' = y
  BY <1>1 DEF ReqDone, s, z
<1>9. CASE ex' = e /\ running' = running
  <2>1. One(running') = 1  BY <1>9 DEF One
  <2>2. \A q \in Prios \ {1} : ex'.ready[q] = e.ready[q]  BY <1>9
  <2>3. Len(ex'.ready[1]) + One(Receiver \in ex'.delay) + One(running')
                       <= Len(e.ready[1]) + One(Receiver \in e.delay) + 1
    <3>1. One(Receiver \in ex'.delay) = One(Receiver \in e.delay)  BY <1>9 DEF One
    <3>2. Len(ex'.ready[1]) = Len(e.ready[1])  BY <1>9
    <3>3. One(Receiver \in e.delay) \in {0, 1}  BY <1>5
    <3> QED  BY <1>6, <2>1, <3>1, <3>2, <3>3
  <2>4. running'  BY <1>9
  <2> QED  BY <1>3, <1>9, <2>2, <2>3, <2>4 DEF Frame
<1>10. CASE ~s.yes /\ running' = TRUE /\ ex' = y
  <2>1. One(running') = 1  BY <1>10 DEF One
  <2>2. ~y.panic => One(Receiver \in y.delay) = 0  BY <1>2 DEF One
  <2>3. Len(e.ready[1]) + One(Receiver \in e.delay) <= 1 /\ MaxTask > 2 => ~y.panic
    BY <1>2, <1>5, <1>6, NetSized
  <2>4. ~y.panic => Len(y.ready[1]) + One(Receiver \in y.delay) + One(running')
                       <= Len(e.ready[1]) + One(Receiver \in e.delay) + 1
    BY <1>2, <1>5, <1>6, <2>1, <2>2
  <2> QED  BY <1>2, <1>10, <2>3, <2>4
<1>11. CASE s.yes /\ running' = FALSE /\ ex' = z
  <2>0. Receiver \in TaskIds /\ (y.panic => z.panic)
    BY <1>4, <1>7, WakeFacts DEF z
  <2>1. ASSUME ~y.panic
        PROVE  /\ ~z.panic => /\ Shape(z) /\ Frame(y, z) /\ z.delay = y.delay
                              /\ z.ready = [y.ready EXCEPT ![1] = Append(@, Receiver)]
               /\ Len(y.ready[1]) < MaxTask - 1 => ~z.panic
    <3>1. Shape(y) /\ Receiver \in Live(y) /\ y.tasks[Receiver] = 1
      BY <1>2, <2>1, ShapeQueues DEF Shape
    <3> DEFINE p == y.tasks[Receiver]
    <3>2. /\ ~z.panic => /\ Shape(z) /\ Frame(y, z) /\ z.delay = y.delay
                         /\ z.ready = [y.ready EXCEPT ![p] = Append(@, Receiver)]
          /\ Len(y.ready[p]) < MaxTask - 1 => ~z.panic
      BY <3>1, ShapeWake DEF z
    <3> QED  BY <3>1, <3>2
  <2>2. ASSUME ~z.panic
        PROVE  /\ Shape(z) /\ Frame(e, z) /\ \A q \in Prios \ {1} : z.ready[q] = e.ready[q]
               /\ Len(z.ready[1]) + One(Receiver \in z.delay) + One(running')
                       <= Len(e.ready[1]) + One(Receiver \in e.delay) + 1
               /\ Len(z.ready[1]) >= 1
    <3>1. ~y.panic  BY <2>0, <2>2
    <3>2. y.ready \in [Prios -> Seq(TaskIds)]  BY <1>2, <3>1, ShapeQueues
    <3>3. y.ready[1] \in Seq(TaskIds) /\ z.ready[1] = Append(y.ready[1], Receiver)
          /\ \A q \in Prios \ {1} : z.ready[q] = y.ready[q]
      BY <2>1, <2>2, <3>1, <3>2, NetSized
    <3>4. Len(z.ready[1]) = Len(y.ready[1]) + 1  BY <1>7, <3>3, AppendFacts
    <3>5. One(Receiver \in z.delay) = 0 /\ One(running') = 0
      BY <1>2, <1>11, <2>1, <2>2, <3>1 DEF One
    <3>6. Frame(e, z)  BY <1>2, <2>1, <2>2, <3>1 DEF Frame
    <3>7. Len(y.ready[1]) = Len(e.ready[1]) + One(Receiver \in e.delay)  BY <1>2, <3>1
    <3>8. Len(z.ready[1]) + One(Receiver \in z.delay) + One(running')
                       <= Len(e.ready[1]) + One(Receiver \in e.delay) + 1
      BY <1>5, <1>6, <3>4, <3>5, <3>7
    <3>9. One(Receiver \in e.delay) \in Nat  BY <1>5
    <3>10. Len(z.ready[1]) >= 1  BY <1>6, <3>4, <3>7, <3>9
    <3> QED  BY <1>2, <2>1, <2>2, <3>1, <3>3, <3>6, <3>8, <3>10
  <2>3. Len(e.ready[1]) + One(Receiver \in e.delay) <= 1 /\ MaxTask > 2 => ~z.panic
    BY <1>2, <1>5, <1>6, <2>1, NetSized
  <2> QED  BY <1>11, <2>2, <2>3
<1> QED  BY <1>8, <1>9, <1>10, <1>11

-----------------------------------------------------------------------------
(* Sequences: what is in one, and how often. *)

LEMMA RangeAppend ==
    ASSUME NEW S, NEW s \in Seq(S), NEW x \in S
    PROVE  Range(Append(s, x)) = Range(s) \cup {x}
<1> DEFINE t == Append(s, x)
<1>1. /\ Len(s) \in Nat /\ DOMAIN s = 1 .. Len(s) /\ DOMAIN t = 1 .. Len(s) + 1
      /\ \A k \in 1 .. Len(s) : t[k] = s[k]
      /\ t[Len(s) + 1] = x
  BY AppendFacts
<1> HIDE DEF t
<1>2. Range(t) \subseteq Range(s) \cup {x}  BY <1>1 DEF Range
<1>3. Range(s) \subseteq Range(t)  BY <1>1 DEF Range
<1>4. Len(s) + 1 \in DOMAIN t  BY <1>1
<1>5. x \in Range(t)  BY <1>1, <1>4 DEF Range
<1> QED  BY <1>2, <1>3, <1>5 DEF t

LEMMA RangeTail ==
    ASSUME NEW S, NEW s \in Seq(S), s # <<>>
    PROVE  /\ Range(s) = Range(Tail(s)) \cup {Head(s)}
           /\ Head(s) \in Range(s) /\ Head(s) \in S /\ Tail(s) \in Seq(S)
<1> DEFINE t == Tail(s)
<1>1. /\ Head(s) = s[1] /\ Head(s) \in S /\ t \in Seq(S) /\ Len(s) \in Nat \ {0}
      /\ DOMAIN s = 1 .. Len(s) /\ DOMAIN t = 1 .. Len(s) - 1
      /\ \A k \in 1 .. Len(s) - 1 : t[k] = s[k + 1]
  BY TailFacts
<1> HIDE DEF t
<1>2. ASSUME NEW k \in DOMAIN s  PROVE s[k] \in Range(t) \cup {Head(s)}
  <2>1. CASE k = 1  BY <1>1, <2>1
  <2>2. CASE k # 1
    <3>1. k - 1 \in DOMAIN t /\ t[k - 1] = s[k]  BY <1>1, <2>2
    <3> QED  BY <3>1 DEF Range
  <2> QED  BY <2>1, <2>2
<1>3. Range(t) \subseteq Range(s)  BY <1>1 DEF Range
<1>4. 1 \in DOMAIN s  BY <1>1
<1>5. Head(s) \in Range(s)  BY <1>1, <1>4 DEF Range
<1> QED  BY <1>1, <1>2, <1>3, <1>5 DEF Range, t

LEMMA RangeIn ==
    ASSUME NEW S, NEW s \in Seq(S)
    PROVE  Range(s) \subseteq S /\ DOMAIN s = 1 .. Len(s) /\ Len(s) \in Nat
BY LenProperties DEF Range

LEMMA CountType ==
    ASSUME NEW S, NEW s \in Seq(S), NEW T
    PROVE  /\ IsFiniteSet({k \in DOMAIN s : s[k] \in T})
           /\ Count(s, T) \in Nat
           /\ Count(s, T) = 0 <=> \A x \in Range(s) : x \notin T
<1> DEFINE A == {k \in DOMAIN s : s[k] \in T}
<1>1. IsFiniteSet(1 .. Len(s)) /\ DOMAIN s = 1 .. Len(s)  BY LenProperties, FS_Interval
<1>2. IsFiniteSet(A)  BY <1>1, FS_Subset
<1>3. A = {} <=> \A x \in Range(s) : x \notin T  BY DEF Range
<1> HIDE DEF A
<1>4. Cardinality(A) \in Nat /\ (Cardinality(A) = 0 <=> A = {})
  BY <1>2, FS_CardinalityType, FS_EmptySet
<1> QED  BY <1>2, <1>3, <1>4 DEF Count, A

LEMMA CountEmpty ==
    ASSUME NEW T
    PROVE  Count(<<>>, T) = 0
<1>1. {k \in DOMAIN <<>> : <<>>[k] \in T} = {}  OBVIOUS
<1> QED  BY <1>1, FS_EmptySet DEF Count

LEMMA CountAppend ==
    ASSUME NEW S, NEW s \in Seq(S), NEW x \in S, NEW T
    PROVE  Count(Append(s, x), T) = Count(s, T) + One(x \in T)
<1> DEFINE t == Append(s, x)
           A == {k \in DOMAIN s : s[k] \in T}
           B == {k \in DOMAIN t : t[k] \in T}
<1>1. /\ Len(s) \in Nat /\ DOMAIN s = 1 .. Len(s) /\ DOMAIN t = 1 .. Len(s) + 1
      /\ \A k \in 1 .. Len(s) : t[k] = s[k]
      /\ t[Len(s) + 1] = x
  BY AppendFacts
<1>2. IsFiniteSet(A) /\ Cardinality(A) \in Nat  BY CountType DEF Count
<1> HIDE DEF t
<1>3. CASE x \in T
  <2>1. B = A \cup {Len(s) + 1} /\ Len(s) + 1 \notin A  BY <1>1, <1>3
  <2> HIDE DEF A, B
  <2>2. Cardinality(B) = Cardinality(A) + 1  BY <1>2, <2>1, FS_AddElement
  <2> QED  BY <1>3, <2>2 DEF Count, A, B, t, One
<1>4. CASE x \notin T
  <2>1. B = A  BY <1>1, <1>4
  <2> HIDE DEF A, B
  <2>2. Cardinality(B) = Cardinality(A) + 0  BY <1>2, <2>1
  <2> QED  BY <1>4, <2>2 DEF Count, A, B, t, One
<1> QED  BY <1>3, <1>4

LEMMA CountTail ==
    ASSUME NEW S, NEW s \in Seq(S), s # <<>>, NEW T
    PROVE  Count(s, T) = Count(Tail(s), T) + One(Head(s) \in T)
<1> DEFINE t == Tail(s)
           A == {k \in DOMAIN s : s[k] \in T}
           B == {k \in DOMAIN t : t[k] \in T}
           D == A \ {1}
           f == [k \in B |-> k + 1]
<1>1. /\ Head(s) = s[1] /\ Len(s) \in Nat \ {0} /\ DOMAIN s = 1 .. Len(s)
      /\ DOMAIN t = 1 .. Len(s) - 1 /\ \A k \in 1 .. Len(s) - 1 : t[k] = s[k + 1]
      /\ t \in Seq(S)
  BY TailFacts
<1>2. IsFiniteSet(A) /\ Cardinality(A) \in Nat  BY CountType DEF Count
<1> HIDE DEF t
<1>3. IsFiniteSet(B) /\ Cardinality(B) \in Nat
  <2>1. t \in Seq(S)  BY <1>1
  <2> QED  BY <2>1, CountType DEF Count
<1>4. f \in Bijection(B, D)
  <2>1. \A k \in B : k + 1 \in D  BY <1>1
  <2>2. \A k \in D : k - 1 \in B /\ f[k - 1] = k  BY <1>1
  <2>3. B \subseteq Nat  BY <1>1
  <2> HIDE DEF B, D
  <2>4. f \in Injection(B, D)  BY <2>1, <2>3 DEF Injection, IsInjective
  <2>5. f \in Surjection(B, D)  BY <2>1, <2>2 DEF Surjection
  <2> QED  BY <2>4, <2>5 DEF Bijection
<1> HIDE DEF f
<1>5. Cardinality(B) = Cardinality(D)
  <2> HIDE DEF B, D
  <2>1. ExistsBijection(B, D)  BY <1>4 DEF ExistsBijection
  <2> QED  BY <1>3, <2>1, FS_Bijection
<1>6. CASE Head(s) \in T
  <2>1. 1 \in A  BY <1>1, <1>6
  <2> HIDE DEF A, B
  <2>2. Cardinality(A \ {1}) = Cardinality(A) - 1  BY <1>2, <2>1, FS_RemoveElement
  <2>3. Cardinality(A) = Cardinality(B) + 1  BY <1>2, <1>5, <2>2 DEF D
  <2> QED  BY <1>6, <2>3 DEF Count, A, B, t, One
<1>7. CASE Head(s) \notin T
  <2>1. D = A  BY <1>1, <1>7
  <2> HIDE DEF A, B, D
  <2>2. Cardinality(A) = Cardinality(B) + 0  BY <1>3, <1>5, <2>1
  <2> QED  BY <1>7, <2>2 DEF Count, A, B, t, One
<1> QED  BY <1>6, <1>7

LEMMA CountOnce ==
    ASSUME NEW S, NEW s \in Seq(S), NEW T, Count(s, T) <= 1,
           NEW i \in DOMAIN s, NEW j \in DOMAIN s, s[i] \in T, s[j] \in T
    PROVE  i = j
<1> DEFINE A == {k \in DOMAIN s : s[k] \in T}
<1>1. i \in A /\ j \in A  OBVIOUS
<1>2. IsFiniteSet(A) /\ Cardinality(A) \in Nat /\ Cardinality(A) <= 1
  BY CountType DEF Count
<1> HIDE DEF A
<1>3. Cardinality(A) # 0  BY <1>1, <1>2, FS_EmptySet
<1>4. Cardinality(A) = 1  BY <1>2, <1>3
<1>5. \E x : A = {x}  BY <1>2, <1>4, FS_Singleton
<1> QED  BY <1>1, <1>5

(* A sequence over S without repetitions is no longer than S is large. *)
LEMMA DistinctLength ==
    ASSUME NEW S, IsFiniteSet(S), NEW s \in Seq(S),
           \A i, j \in DOMAIN s : s[i] = s[j] => i = j
    PROVE  Len(s) <= Cardinality(S) /\ Cardinality(S) \in Nat
<1>1. Len(s) \in Nat /\ s \in [1 .. Len(s) -> S] /\ DOMAIN s = 1 .. Len(s)
  BY LenProperties
<1>2. s \in Injection(1 .. Len(s), S)  BY <1>1 DEF Injection, IsInjective
<1>3. Cardinality(1 .. Len(s)) <= Cardinality(S)  BY <1>2, FS_Injection
<1>4. Cardinality(1 .. Len(s)) = Len(s)  BY <1>1, FS_Interval
<1> QED  BY <1>3, <1>4, FS_CardinalityType

LEMMA OneType == \A b : One(b) \in {0, 1}
BY DEF One

-----------------------------------------------------------------------------
(* Calls. *)

Items == Requests \cup Replies \cup {NetPollReq}

LEMMA ItemFacts ==
    /\ NoItem \notin Requests /\ NetPollReq \notin Requests \cup Replies
    /\ \A i \in Requests \cup Replies : i.client \in Clients /\ i # NetPollReq
    /\ \A i \in Requests \cup Replies : \A c : i \in ItemsOf(c) <=> i.client = c
    /\ \A c : NetPollReq \notin ItemsOf(c)
<1>1. \A i \in Requests \cup Replies : i.client \in Clients /\ i.type # "none" /\ i.type # "NetPollReq"
  BY DEF Requests, Replies
<1>2. NoItem.type = "none" /\ NetPollReq.type = "NetPollReq"  BY DEF NoItem, NetPollReq
<1>3. NoItem \notin Requests /\ NetPollReq \notin Requests \cup Replies  BY <1>1, <1>2
<1>4. \A i \in Requests \cup Replies : i.client \in Clients /\ i # NetPollReq  BY <1>1, <1>2
<1> QED  BY <1>3, <1>4 DEF ItemsOf

(* A ring has one place for each client of D, and the interrupt's. *)
LEMMA RingLength ==
    ASSUME NEW s \in Seq(Items), NEW D, IsFiniteSet(D),
           \A c \in Clients : Count(s, ItemsOf(c)) <= One(c \in D)
    PROVE  Len(s) <= Count(s, {NetPollReq}) + Cardinality(D)
<1> DEFINE A == {k \in DOMAIN s : s[k] \in {NetPollReq}}
           B == {k \in DOMAIN s : s[k] \notin {NetPollReq}}
           f == [k \in B |-> s[k].client]
<1>1. Len(s) \in Nat /\ DOMAIN s = 1 .. Len(s) /\ \A k \in DOMAIN s : s[k] \in Items
  BY LenProperties
<1>2. \A k \in B : s[k] \in Requests \cup Replies  BY <1>1 DEF Items
<1>3. \A k \in B : s[k].client \in Clients /\ s[k] \in ItemsOf(s[k].client)
  BY <1>2, ItemFacts
<1>4. ASSUME NEW k \in B  PROVE s[k].client \in D
  <2>1. s[k] \in Range(s)  BY DEF Range
  <2>2. Count(s, ItemsOf(s[k].client)) # 0  BY <1>3, <2>1, CountType
  <2>3. Count(s, ItemsOf(s[k].client)) \in Nat  BY CountType
  <2>4. Count(s, ItemsOf(s[k].client)) <= One(s[k].client \in D)  BY <1>3
  <2> QED  BY <2>2, <2>3, <2>4 DEF One
<1>5. ASSUME NEW k \in B, NEW j \in B, s[k].client = s[j].client  PROVE k = j
  <2>1. Count(s, ItemsOf(s[k].client)) <= 1
    <3>1. Count(s, ItemsOf(s[k].client)) \in Nat  BY CountType
    <3> QED  BY <1>3, <3>1 DEF One
  <2>2. s[k] \in ItemsOf(s[k].client) /\ s[j] \in ItemsOf(s[k].client)  BY <1>3, <1>5
  <2> QED  BY <2>1, <2>2, CountOnce
<1>6. IsFiniteSet(A) /\ IsFiniteSet(B)
  <2>1. IsFiniteSet(DOMAIN s)  BY <1>1, FS_Interval
  <2> QED  BY <2>1, FS_Subset
<1>7. A \cup B = 1 .. Len(s) /\ A \cap B = {}  BY <1>1
<1>8. Cardinality(A) = Count(s, {NetPollReq})  BY DEF Count
<1> HIDE DEF A, B
<1>9. f \in Injection(B, D)  BY <1>4, <1>5 DEF Injection, IsInjective
<1>10. Cardinality(B) <= Cardinality(D)  BY <1>9, FS_Injection
<1>11. Cardinality(A) \in Nat /\ Cardinality(B) \in Nat /\ Cardinality(D) \in Nat
  BY <1>6, FS_CardinalityType
<1>12. Cardinality(A \cup B) = Cardinality(A) + Cardinality(B) - Cardinality(A \cap B)
  BY <1>6, FS_Union
<1>13. Cardinality(A \cap B) = 0  BY <1>7, FS_EmptySet
<1>14. Cardinality(A \cup B) = Len(s)
  <2>1. Cardinality(1 .. Len(s)) = Len(s)  BY <1>1, FS_Interval
  <2> QED  BY <1>7, <2>1
<1> QED  BY <1>8, <1>10, <1>11, <1>12, <1>13, <1>14

(* There are no more coroutines than callers. *)
LEMMA AcceptsFew ==
    ASSUME NEW D, IsFiniteSet(D), \A d \in Accepts : co[d].caller \in D, CallInv
    PROVE  /\ IsFiniteSet(Accepts) /\ Cardinality(Accepts) <= Cardinality(D)
           /\ Cardinality(D) \in Nat /\ Cardinality(Accepts) \in Nat
<1> DEFINE f == [d \in Accepts |-> co[d].caller]
<1>1. \A d, e \in Accepts : co[d].caller = co[e].caller => d = e  BY DEF CallInv
<1>2. f \in Injection(Accepts, D)  BY <1>1 DEF Injection, IsInjective
<1> HIDE DEF f
<1> QED  BY <1>2, FS_Injection, FS_CardinalityType

LEMMA ReadyFew ==
    ASSUME NEW x, Shape(x), Live(x) = Accepts \cup {Poller, Receiver}, CoInv, CallInv,
           IsFiniteSet(Clients)
    PROVE  Len(x.ready[2]) <= Cardinality(Clients) /\ Cardinality(Clients) \in Nat
<1>1. /\ IsFiniteSet(Accepts) /\ Cardinality(Accepts) <= Cardinality(Clients)
      /\ Cardinality(Clients) \in Nat /\ Cardinality(Accepts) \in Nat
  BY AcceptsFew DEF CoInv
<1> DEFINE s == x.ready[2]
<1>2. s \in Seq(TaskIds) /\ Queued(x, 2) \subseteq Accepts
      /\ \A i, j \in DOMAIN s : s[i] = s[j] => i = j
  BY ShapeQueues, NetSized DEF Shape
<1>3. DOMAIN s = 1 .. Len(s) /\ Len(s) \in Nat  BY <1>2, LenProperties
<1>4. \A k \in DOMAIN s : s[k] \in Accepts  BY <1>2 DEF Queued
<1> HIDE DEF s
<1>5. s \in Seq(Accepts)  BY <1>2, <1>3, <1>4
<1>6. Len(s) <= Cardinality(Accepts)  BY <1>1, <1>2, <1>5, DistinctLength
<1> QED  BY <1>1, <1>3, <1>6 DEF s

LEMMA PlacesType ==
    ASSUME TypeInv, NEW c
    PROVE  /\ Count(req_items, ItemsOf(c)) \in Nat /\ Count(res_items, ItemsOf(c)) \in Nat
           /\ One(Held(c)) \in {0, 1} /\ Places(c) \in Nat
<1>1. req_items \in Seq(Requests \cup {NetPollReq}) /\ res_items \in Seq(Replies)
  BY DEF TypeInv
<1>2. Count(req_items, ItemsOf(c)) \in Nat /\ Count(res_items, ItemsOf(c)) \in Nat
  BY <1>1, CountType
<1> QED  BY <1>2, OneType DEF Places

(* A call that is somewhere is nowhere else. *)
LEMMA TokenAt ==
    ASSUME TypeInv, TokenInv(sock), NEW c \in Clients
    PROVE  /\ Places(c) <= 1
           /\ Places(c) = 1 => cl[c].st = "waiting"
           /\ \A i \in Range(req_items) : i # NetPollReq /\ i.client = c =>
                 /\ Count(req_items, ItemsOf(c)) = 1 /\ Count(res_items, ItemsOf(c)) = 0
                 /\ ~Held(c) /\ cl[c].st = "waiting"
           /\ \A r \in Range(res_items) : r.client = c =>
                 /\ Count(req_items, ItemsOf(c)) = 0 /\ Count(res_items, ItemsOf(c)) = 1
                 /\ ~Held(c) /\ cl[c].st = "waiting"
           /\ Held(c) =>
                 /\ Count(req_items, ItemsOf(c)) = 0 /\ Count(res_items, ItemsOf(c)) = 0
                 /\ cl[c].st = "waiting"
<1>1. req_items \in Seq(Requests \cup {NetPollReq}) /\ res_items \in Seq(Replies)
  BY DEF TypeInv
<1> DEFINE a == Count(req_items, ItemsOf(c))
           b == Count(res_items, ItemsOf(c))
           h == One(Held(c))
<1>2. a \in Nat /\ b \in Nat /\ h \in {0, 1} /\ Places(c) = a + b + h
  BY PlacesType DEF Places
<1>3. h = 1 <=> Held(c)  BY DEF One
<1>4. a = 0 <=> \A x \in Range(req_items) : x \notin ItemsOf(c)  BY <1>1, CountType
<1>5. b = 0 <=> \A x \in Range(res_items) : x \notin ItemsOf(c)  BY <1>1, CountType
<1> HIDE DEF a, b, h
<1>6. Places(c) <= 1 /\ (Places(c) = 1 => cl[c].st = "waiting")
  BY <1>2 DEF TokenInv
<1>7. ASSUME NEW i \in Range(req_items), i # NetPollReq, i.client = c  PROVE a # 0
  <2>1. i \in Requests  BY <1>1, <1>7, RangeIn
  <2>2. i \in ItemsOf(c)  BY <1>7, <2>1, ItemFacts
  <2> QED  BY <1>4, <2>2
<1>8. ASSUME NEW i \in Range(res_items), i.client = c  PROVE b # 0
  <2>1. i \in Replies  BY <1>1, <1>8, RangeIn
  <2>2. i \in ItemsOf(c)  BY <1>8, <2>1, ItemFacts
  <2> QED  BY <1>5, <2>2
<1>9. a # 0 => a = 1 /\ b = 0 /\ ~Held(c) /\ cl[c].st = "waiting"  BY <1>2, <1>3, <1>6
<1>10. b # 0 => a = 0 /\ b = 1 /\ ~Held(c) /\ cl[c].st = "waiting"  BY <1>2, <1>3, <1>6
<1>11. Held(c) => a = 0 /\ b = 0 /\ cl[c].st = "waiting"  BY <1>2, <1>3, <1>6
<1> QED  BY <1>6, <1>7, <1>8, <1>9, <1>10, <1>11 DEF a, b

-----------------------------------------------------------------------------
(* iface_poll. *)

(* A poll: t has what it changed after each frame. *)
PollTurns(t) ==
    /\ t[0] = [ex |-> ex, sock |-> sock, blk |-> block_cids, peer |-> peer]
    /\ \A i \in 0 .. Len(frames) - 1 : t[i + 1] = Ingress(t[i], frames[i + 1])
    /\ IfacePoll(ex, sock) = t[Len(frames)]

LEMMA IfacePollTurns ==
    ASSUME Len(frames) \in Nat
    PROVE  \E t : PollTurns(t)
<1> DEFINE base == [ex |-> ex, sock |-> sock, blk |-> block_cids, peer |-> peer]
           n == Len(frames)
           Turns(g, m) == g = [i \in 0 .. m |-> IF i = 0 THEN base
                                                ELSE Ingress(g[i - 1], frames[i])]
           S == {m \in Nat : \E g : Turns(g, m)}
<1>0. n \in Nat  OBVIOUS
<1> DEFINE t == CHOOSE g : Turns(g, n)
<1>p. IfacePoll(ex, sock) = t[n]  BY DEF IfacePoll
<1> HIDE DEF base, n, t
<1>1. 0 \in S
  <2>1. Turns([i \in 0 .. 0 |-> base], 0)  OBVIOUS
  <2> QED  BY <2>1
<1>2. ASSUME NEW m \in 0 .. n - 1, m \in S  PROVE m + 1 \in S
  <2>1. PICK g : Turns(g, m)  BY <1>2
  <2> DEFINE h == [i \in 0 .. m + 1 |-> IF i <= m THEN g[i] ELSE Ingress(g[m], frames[m + 1])]
  <2>2. Turns(h, m + 1)
    <3>1. ASSUME NEW i \in 0 .. m + 1
          PROVE  h[i] = IF i = 0 THEN base ELSE Ingress(h[i - 1], frames[i])
      <4>1. CASE i = 0  BY <2>1, <4>1
      <4>2. CASE i \in 1 .. m  BY <2>1, <4>2
      <4>3. CASE i = m + 1  BY <2>1, <4>3
      <4> QED  BY <4>1, <4>2, <4>3
    <3> QED  BY <3>1
  <2>3. m + 1 \in Nat  BY <1>0
  <2> HIDE DEF h, Turns
  <2> QED  BY <2>2, <2>3
<1>3. n \in S
  <2> HIDE DEF S
  <2>1. \A i \in 0 .. n - 1 : i \in S => i + 1 \in S  BY <1>2
  <2>2. \A i \in 0 .. n : i \in S  BY ONLY <1>0, <1>1, <2>1, UpTo
  <2> QED  BY <1>0, <2>2
<1>4. Turns(t, n)  BY <1>3 DEF t
<1>5. t[0] = base  BY <1>0, <1>4
<1>6. ASSUME NEW i \in 0 .. n - 1  PROVE t[i + 1] = Ingress(t[i], frames[i + 1])
  BY <1>0, <1>4
<1>7. PollTurns(t)  BY <1>p, <1>5, <1>6 DEF PollTurns, base, n
<1> QED  BY <1>7

(* What every poll keeps, whatever it meets ... *)
PollType(w) ==
    /\ w = [ex |-> w.ex, sock |-> w.sock, blk |-> w.blk, peer |-> w.peer]
    /\ ExecutorType(w.ex) /\ w.ex.delay = ex.delay /\ Frame(ex, w.ex)
    /\ SocketsOK(w.sock) /\ Len(w.sock) = Len(sock)
    /\ w.blk \in Seq(TaskIds) /\ w.peer \in [Peers -> Hosts]
    /\ \A h \in DOMAIN sock : sock[h].st \in {"established", "closed"} =>
                              w.sock[h].st \in {"established", "closed"}

(* ... and, after i frames, as long as no queue overflows. *)
PollRun(w, i) ==
    /\ Shape(w.ex) /\ w.ex.ready[0] = ex.ready[0] /\ w.ex.ready[1] = ex.ready[1]
    /\ SchedInv(w.ex, w.blk) /\ OrderInv(w.ex, w.blk)
    /\ StackInv(w.sock, w.peer, i) /\ GoodInv(w.sock, w.peer, w.blk, i)
    /\ \A h \in DOMAIN sock : sock[h].st = "closed" => w.sock[h].st = "closed"

PollInv(w, i) ==
    /\ PollType(w)
    /\ ~w.ex.panic => PollRun(w, i)
    /\ Sizes => ~w.ex.panic

(* snoop_tcp_packet touches the executor and the waiters only. *)
LEMMA SnoopType ==
    ASSUME NEW w, PollType(w)
    PROVE  LET v == SnoopSyn(w)
           IN  /\ PollType(v) /\ v.sock = w.sock /\ v.peer = w.peer
               /\ w.ex.panic => v.ex.panic
               /\ \/ v = w
                  \/ /\ w.blk # <<>> /\ v.blk = Tail(w.blk)
                     /\ v.ex = Wake(w.ex, Head(w.blk))
<1> DEFINE v == SnoopSyn(w)
           e == Wake(w.ex, Head(w.blk))
           u == [ex |-> e, sock |-> w.sock, blk |-> Tail(w.blk), peer |-> w.peer]
<1>1. CASE Len(syn_queue) < QueueSize /\ w.blk # <<>>
  <2>1. w = [ex |-> w.ex, sock |-> w.sock, blk |-> w.blk, peer |-> w.peer]  BY DEF PollType
  <2>2. v = u
    <3>1. v = [w EXCEPT !.ex = e, !.blk = Tail(@)]  BY <1>1 DEF SnoopSyn
    <3> HIDE DEF v, e
    <3> QED  BY <2>1, <3>1
  <2>3. Head(w.blk) \in TaskIds /\ Tail(w.blk) \in Seq(TaskIds)  BY <1>1, TailFacts DEF PollType
  <2>4. ExecutorType(e) /\ Frame(w.ex, e) /\ e.delay = w.ex.delay /\ (w.ex.panic => e.panic)
    BY <2>3, WakeFacts DEF PollType
  <2> HIDE DEF v, e
  <2>5. v.ex = e /\ v.sock = w.sock /\ v.blk = Tail(w.blk) /\ v.peer = w.peer /\ v = u
    BY <2>2
  <2>6. Frame(ex, e)  BY <2>4 DEF PollType, Frame
  <2>7. PollType(v)  BY <2>3, <2>4, <2>5, <2>6 DEF PollType
  <2> QED  BY <1>1, <2>4, <2>5, <2>7 DEF v, e
<1>2. CASE ~(Len(syn_queue) < QueueSize /\ w.blk # <<>>)  BY <1>2 DEF SnoopSyn
<1> QED  BY <1>1, <1>2

(* ... and the one that waited longest joins those that were woken. *)
LEMMA SnoopRun ==
    ASSUME TypeInv, CoInv, CallInv, NEW w, PollType(w), Shape(w.ex),
           SchedInv(w.ex, w.blk), OrderInv(w.ex, w.blk)
    PROVE  LET v == SnoopSyn(w)
           IN  /\ ~v.ex.panic =>
                     /\ Shape(v.ex) /\ v.ex.ready[0] = w.ex.ready[0]
                     /\ v.ex.ready[1] = w.ex.ready[1]
                     /\ SchedInv(v.ex, v.blk) /\ OrderInv(v.ex, v.blk)
               /\ Sizes => ~v.ex.panic
<1> DEFINE v == SnoopSyn(w)
           c == Head(w.blk)
           b == w.blk
           t == Tail(w.blk)
           x == w.ex
           y == v.ex
<1>0. v = w \/ (b # <<>> /\ v.blk = t /\ y = Wake(x, c))  BY SnoopType
<1>1. CASE v = w  BY <1>1 DEF Shape
<1>2. CASE b # <<>> /\ v.blk = t /\ y = Wake(x, c)
  <2>1. /\ c = b[1] /\ c \in TaskIds /\ t \in Seq(TaskIds) /\ Len(b) \in Nat \ {0}
        /\ DOMAIN b = 1 .. Len(b) /\ DOMAIN t = 1 .. Len(b) - 1
        /\ \A k \in 1 .. Len(b) - 1 : t[k] = b[k + 1]
    BY <1>2, TailFacts DEF PollType
  <2>w. w.blk \in Seq(TaskIds) /\ w.blk # <<>> /\ Frame(ex, w.ex)  BY <1>2 DEF PollType
  <2>r. Range(b) = Range(t) \cup {c}  BY <2>w, RangeTail
  <2> HIDE DEF v, c, t
  <2>2. 1 \in DOMAIN b  BY <2>1
  <2>3. c \in Accepts /\ c \in Range(b)  BY <2>1, <2>2 DEF OrderInv, Range
  <2>4. c \in Listeners /\ c \notin Queued(x, 2) /\ ~Run(c)  BY <2>3 DEF SchedInv
  <2>5. Live(x) = Accepts \cup {Poller, Receiver}
    BY DEF PollType, Frame, Live, CoInv
  <2>6. c \in Live(x) /\ c \notin {Poller, Receiver}  BY <2>3, <2>5 DEF Accepts
  <2>7. x.tasks[c] = 2  BY <2>6, ShapeQueues
  <2> DEFINE p == x.tasks[c]
  <2>8. /\ ~y.panic => /\ Shape(y) /\ Frame(x, y) /\ y.delay = x.delay
                       /\ y.ready = [x.ready EXCEPT ![p] = Append(@, c)]
        /\ Len(x.ready[p]) < MaxTask - 1 => ~y.panic
    BY <1>2, <2>4, <2>6, ShapeWake
  <2>9. Sizes => ~y.panic
    <3>1. ASSUME Sizes  PROVE Len(x.ready[2]) < MaxTask - 1
      <4>1. Len(x.ready[2]) <= Cardinality(Clients) /\ Cardinality(Clients) \in Nat
        BY <2>5, <3>1, ReadyFew DEF Sizes
      <4>2. Len(x.ready[2]) \in Nat  BY ShapeQueues, NetSized
      <4> QED  BY <3>1, <4>1, <4>2, NetSized DEF Sizes
    <3> QED  BY <2>7, <2>8, <3>1
  <2>10. ASSUME ~y.panic
         PROVE  /\ y.ready[0] = x.ready[0] /\ y.ready[1] = x.ready[1]
                /\ SchedInv(y, t) /\ OrderInv(y, t)
    <3>1. x.ready \in [Prios -> Seq(TaskIds)]  BY ShapeQueues
    <3>2. y.ready = [x.ready EXCEPT ![2] = Append(@, c)]  BY <2>7, <2>8, <2>10
    <3>3. /\ y.ready[0] = x.ready[0] /\ y.ready[1] = x.ready[1]
          /\ y.ready[2] = Append(x.ready[2], c) /\ x.ready[2] \in Seq(TaskIds)
      BY <3>1, <3>2, NetSized
    <3>c. c \in TaskIds  BY <2>1
    <3>d. y.ready[2] = Append(x.ready[2], c) /\ x.ready[2] \in Seq(TaskIds)  BY <3>3
    <3>4. Queued(y, 2) = Queued(x, 2) \cup {c}
      <4> HIDE DEF x, y
      <4> QED  BY ONLY <3>c, <3>d, QueuedAppend
    <3>5. Range(b) = Range(t) \cup {c}  BY <2>r
    <3>6. c \notin Range(t)
      <4>1. \A k \in DOMAIN t : Before(c, t[k])
        <5> SUFFICES ASSUME NEW k \in DOMAIN t  PROVE Before(c, t[k])
          OBVIOUS
        <5>1. k + 1 \in DOMAIN b /\ 1 < k + 1 /\ t[k] = b[k + 1]  BY <2>1
        <5> QED  BY <2>1, <2>2, <5>1 DEF OrderInv
      <4>2. co[c].handler \in Nat  BY <2>1 DEF TypeInv, Contexts
      <4>3. ~Before(c, c)  BY <4>2 DEF Before
      <4> QED  BY <4>1, <4>3 DEF Range
    <3>7. SchedInv(y, t)
      BY <2>3, <2>4, <3>4, <3>5, <3>6 DEF SchedInv, Listeners
    <3>8. \A k \in DOMAIN t : t[k] \in Accepts
      <4> SUFFICES ASSUME NEW k \in DOMAIN t  PROVE t[k] \in Accepts
        OBVIOUS
      <4>1. k + 1 \in DOMAIN b /\ t[k] = b[k + 1]  BY <2>1
      <4> QED  BY <4>1 DEF OrderInv
    <3>9. \A i, j \in DOMAIN t : i < j => Before(t[i], t[j])
      <4> SUFFICES ASSUME NEW i \in DOMAIN t, NEW j \in DOMAIN t, i < j
                   PROVE  Before(t[i], t[j])
        OBVIOUS
      <4>1. i + 1 \in DOMAIN b /\ j + 1 \in DOMAIN b /\ i + 1 < j + 1
            /\ t[i] = b[i + 1] /\ t[j] = b[j + 1]
        BY <2>1
      <4> QED  BY <4>1 DEF OrderInv
    <3>10. \A d \in Listeners, e \in Range(t) : d \notin Range(t) => Before(d, e)
      <4> SUFFICES ASSUME NEW d \in Listeners, NEW e \in Range(t), d \notin Range(t)
                   PROVE  Before(d, e)
        OBVIOUS
      <4>1. CASE d = c
        <5>1. PICK k \in DOMAIN t : e = t[k]  BY DEF Range
        <5>2. k + 1 \in DOMAIN b /\ 1 < k + 1 /\ e = b[k + 1]  BY <2>1, <5>1
        <5> QED  BY <2>1, <2>2, <4>1, <5>2 DEF OrderInv
      <4>2. CASE d # c  BY <3>5, <4>2 DEF OrderInv
      <4> QED  BY <4>1, <4>2
    <3>11. \A i, j \in DOMAIN y.ready[2] :
              i < j /\ y.ready[2][i] \in Listeners /\ y.ready[2][j] \in Listeners =>
                  Before(y.ready[2][i], y.ready[2][j])
      <4> DEFINE r == x.ready[2]
                 z == Append(r, c)
      <4>1. /\ Len(r) \in Nat /\ DOMAIN r = 1 .. Len(r) /\ DOMAIN z = 1 .. Len(r) + 1
            /\ \A k \in 1 .. Len(r) : z[k] = r[k]
            /\ z[Len(r) + 1] = c
        <5>1. r \in Seq(TaskIds)  BY <3>3
        <5> HIDE DEF r
        <5> QED  BY <3>c, <5>1, AppendFacts
      <4>2. \A i, j \in DOMAIN r : i < j /\ r[i] \in Listeners /\ r[j] \in Listeners =>
                                      Before(r[i], r[j])
        BY DEF OrderInv
      <4>3. \A i \in DOMAIN r : r[i] \in Listeners => Before(r[i], c)
        <5> SUFFICES ASSUME NEW i \in DOMAIN r, r[i] \in Listeners  PROVE Before(r[i], c)
          OBVIOUS
        <5>1. r[i] \in Queued(x, 2)  BY DEF Queued
        <5>2. r[i] \notin Range(b)  BY <5>1 DEF SchedInv, Listeners
        <5> QED  BY <2>3, <5>2 DEF OrderInv
      <4> HIDE DEF r, z
      <4>4. ASSUME NEW i \in DOMAIN z, NEW j \in DOMAIN z, i < j,
                   z[i] \in Listeners, z[j] \in Listeners
            PROVE  Before(z[i], z[j])
        <5>1. i \in DOMAIN r /\ z[i] = r[i]  BY <4>1, <4>4
        <5>2. CASE j = Len(r) + 1  BY <4>1, <4>3, <4>4, <5>1, <5>2
        <5>3. CASE j # Len(r) + 1
          <6>1. j \in DOMAIN r /\ z[j] = r[j]  BY <4>1, <4>4, <5>3
          <6> QED  BY <4>2, <4>4, <5>1, <6>1
        <5> QED  BY <5>2, <5>3
      <4>5. y.ready[2] = z  BY <3>3 DEF z, r
      <4> QED  BY <4>4, <4>5
    <3>12. OrderInv(y, t)  BY <3>8, <3>9, <3>10, <3>11 DEF OrderInv
    <3> QED  BY <3>3, <3>7, <3>12
  <2> QED  BY <1>2, <2>8, <2>9, <2>10 DEF v
<1> QED  BY <1>0, <1>1, <1>2

(* The socket set and the peers after a frame. *)
Put(w, h, x, q) == [ex |-> w.ex, sock |-> [w.sock EXCEPT ![h] = x], blk |-> w.blk, peer |-> q]

(* A connected socket is put in the place of another one. *)
LEMMA PutSocket ==
    ASSUME NEW s, SocketsOK(s), NEW h \in DOMAIN s, NEW x \in Sockets,
           x.st # "listen", NEW p \in Peers, x.peer = {p}
    PROVE  LET t == [s EXCEPT ![h] = x]
           IN  /\ SocketsOK(t) /\ Len(t) = Len(s) /\ DOMAIN t = DOMAIN s
               /\ t[h] = x /\ \A g \in DOMAIN s \ {h} : t[g] = s[g]
<1> DEFINE t == [s EXCEPT ![h] = x]
<1>1. s \in Seq(Sockets)  BY DEF SocketsOK
<1>2. Len(s) \in Nat /\ DOMAIN s = 1 .. Len(s) /\ \A g \in DOMAIN s : s[g] \in Sockets
  BY <1>1, LenProperties
<1>3. /\ DOMAIN t = DOMAIN s /\ t[h] = x /\ \A g \in DOMAIN s \ {h} : t[g] = s[g]
  BY <1>1, <1>2
<1>4. t \in Seq(Sockets) /\ Len(t) = Len(s)  BY <1>1, <1>2
<1> HIDE DEF t
<1>5. SocketsOK(t)  BY <1>3, <1>4 DEF SocketsOK
<1> QED  BY <1>3, <1>4, <1>5 DEF t

LEMMA SocketFacts ==
    ASSUME NEW s, SocketsOK(s), NEW h \in DOMAIN s
    PROVE  /\ s[h] \in Sockets /\ DOMAIN s = 1 .. Len(s) /\ Len(s) \in Nat
           /\ s[h] = [st |-> s[h].st, peer |-> s[h].peer, rx |-> s[h].rx]
<1>1. s \in Seq(Sockets)  BY DEF SocketsOK
<1>2. Len(s) \in Nat /\ DOMAIN s = 1 .. Len(s) /\ \A g \in DOMAIN s : s[g] \in Sockets
  BY <1>1, LenProperties
<1>3. s[h] \in Sockets  BY <1>2
<1> QED  BY <1>2, <1>3 DEF Sockets

(* What TCP does with a SYN. *)
AnswerSt == IF "late_ack" \in faults THEN "syn_received" ELSE "established"
PeerSt == IF "late_ack" \in faults THEN "syn_acked" ELSE "established"

Accepted(v, u, p, h) ==
    /\ h \in Listening(v.sock) /\ \A g \in Listening(v.sock) : h <= g
    /\ u = Put(v, h, [st |-> AnswerSt, peer |-> {p}, rx |-> v.sock[h].rx],
               [v.peer EXCEPT ![p].st = PeerSt])

LEMMA TcpSynCases ==
    ASSUME NEW v, PollType(v), NEW p \in Peers
    PROVE  LET u == TcpSyn(v, p)
           IN  \/ SockOf(v.sock, p) # {} /\ u = v
               \/ /\ SockOf(v.sock, p) = {} /\ Listening(v.sock) = {}
                  /\ u = [ex |-> v.ex, sock |-> v.sock, blk |-> v.blk,
                          peer |-> [v.peer EXCEPT ![p].st = "idle"]]
               \/ SockOf(v.sock, p) = {} /\ \E h \in DOMAIN v.sock : Accepted(v, u, p, h)
<1> DEFINE u == TcpSyn(v, p)
           h == find_first_one(Listening(v.sock))
           s == v.sock
<1>0. /\ v = [ex |-> v.ex, sock |-> v.sock, blk |-> v.blk, peer |-> v.peer]
      /\ SocketsOK(s) /\ v.peer \in [Peers -> Hosts]
  BY DEF PollType
<1>1. CASE SockOf(s, p) # {}  BY <1>1 DEF TcpSyn
<1>2. CASE SockOf(s, p) = {} /\ Listening(s) = {}
  <2>1. u = [v EXCEPT !.peer[p].st = "idle"]  BY <1>2 DEF TcpSyn
  <2> HIDE DEF u
  <2>2. u = [ex |-> v.ex, sock |-> v.sock, blk |-> v.blk,
             peer |-> [v.peer EXCEPT ![p].st = "idle"]]
    BY <1>0, <2>1
  <2> QED  BY <1>2, <2>2 DEF u
<1>3. CASE SockOf(s, p) = {} /\ Listening(s) # {}
  <2>1. u = [v EXCEPT !.sock[h].peer = {p}, !.sock[h].st = AnswerSt, !.peer[p].st = PeerSt]
    BY <1>3 DEF TcpSyn, AnswerSt, PeerSt
  <2>2. Listening(s) \in SUBSET Nat
    <3>1. s \in Seq(Sockets)  BY <1>0 DEF SocketsOK
    <3>2. DOMAIN s = 1 .. Len(s) /\ Len(s) \in Nat  BY <3>1, LenProperties
    <3> QED  BY <3>2 DEF Listening
  <2>3. h \in Listening(s) /\ \A g \in Listening(s) : h <= g  BY <1>3, <2>2, FirstOne
  <2>4. h \in DOMAIN s  BY <2>3 DEF Listening
  <2>5. s[h] = [st |-> s[h].st, peer |-> s[h].peer, rx |-> s[h].rx]
    BY <1>0, <2>4, SocketFacts
  <2> HIDE DEF u, h
  <2> DEFINE x == [st |-> AnswerSt, peer |-> {p}, rx |-> s[h].rx]
             t == [s EXCEPT ![h].peer = {p}, ![h].st = AnswerSt]
  <2>6. t = [s EXCEPT ![h] = x]
    <3>1. t = [s EXCEPT ![h] = [[s[h] EXCEPT !.peer = {p}] EXCEPT !.st = AnswerSt]]
      BY <2>4
    <3>2. [[s[h] EXCEPT !.peer = {p}] EXCEPT !.st = AnswerSt] = x
      <4>1. PICK a, b : s[h] = [st |-> a, peer |-> b, rx |-> s[h].rx]  BY <2>5
      <4>2. [s[h] EXCEPT !.peer = {p}] = [st |-> a, peer |-> {p}, rx |-> s[h].rx]  BY <4>1
      <4> DEFINE y == [s[h] EXCEPT !.peer = {p}]
      <4>3. y = [st |-> a, peer |-> {p}, rx |-> s[h].rx]  BY <4>2
      <4> HIDE DEF y
      <4>4. [y EXCEPT !.st = AnswerSt] = x  BY <4>3
      <4> QED  BY <4>4 DEF y
    <3> QED  BY <3>1, <3>2
  <2>7. u = [ex |-> v.ex, sock |-> t, blk |-> v.blk, peer |-> [v.peer EXCEPT ![p].st = PeerSt]]
    BY <1>0, <2>1
  <2>8. u = Put(v, h, x, [v.peer EXCEPT ![p].st = PeerSt])
    BY <2>6, <2>7 DEF Put
  <2>9. Accepted(v, u, p, h)  BY <2>3, <2>8 DEF Accepted
  <2> QED  BY <1>3, <2>4, <2>9 DEF u
<1> QED  BY <1>1, <1>2, <1>3

(* What TCP does with any other frame. *)
Handled(w, u, f, h) ==
    LET x == u.sock[h]
    IN  /\ w.sock[h].peer = {f.peer}
        /\ u = Put(w, h, x, w.peer)
        /\ x \in Sockets /\ x.peer = {f.peer}
        /\ x.st = IF f.type = "ACK" THEN "established"
                  ELSE IF f.type = "RST" THEN "closed" ELSE w.sock[h].st

LEMMA IngressCases ==
    ASSUME NEW w, PollType(w), NEW f \in Received, f.type # "SYN"
    PROVE  LET u == Ingress(w, f)
           IN  u = w \/ \E h \in DOMAIN w.sock : Handled(w, u, f, h)
<1> DEFINE u == Ingress(w, f)
           H == SockOf(w.sock, f.peer)
           h == CHOOSE x \in H : TRUE
           s == w.sock
<1>0. /\ w = [ex |-> w.ex, sock |-> w.sock, blk |-> w.blk, peer |-> w.peer]
      /\ SocketsOK(s) /\ w.peer \in [Peers -> Hosts]
  BY DEF PollType
<1>1. f.type \in {"ACK", "RST", "DATA"} /\ f.peer \in Peers
      /\ (f.type = "DATA" => f.byte \in Bytes)
  BY DEF Received
<1>2. CASE H = {}  BY <1>1, <1>2 DEF Ingress
<1>3. CASE H # {}
  <2>1. h \in H  BY <1>3
  <2>2. h \in DOMAIN s /\ s[h].peer = {f.peer}  BY <2>1 DEF SockOf
  <2>3. s[h] \in Sockets /\ s[h] = [st |-> s[h].st, peer |-> s[h].peer, rx |-> s[h].rx]
    BY <1>0, <2>2, SocketFacts
  <2>4. /\ f.type = "ACK" => u = [w EXCEPT !.sock[h].st = "established"]
        /\ f.type = "RST" => u = [w EXCEPT !.sock[h].st = "closed"]
        /\ f.type = "DATA" => u = [w EXCEPT !.sock[h].rx = Append(@, f.byte)]
    BY <1>1, <1>3 DEF Ingress
  <2> HIDE DEF u, h, H
  <2> DEFINE x == IF f.type = "ACK" THEN [s[h] EXCEPT !.st = "established"]
                  ELSE IF f.type = "RST" THEN [s[h] EXCEPT !.st = "closed"]
                  ELSE [s[h] EXCEPT !.rx = Append(@, f.byte)]
  <2>5. u = Put(w, h, x, w.peer)
    <3>1. CASE f.type = "ACK"  BY <1>0, <2>4, <3>1 DEF Put
    <3>2. CASE f.type = "RST"  BY <1>0, <2>4, <3>2 DEF Put
    <3>3. CASE f.type = "DATA"  BY <1>0, <2>4, <3>3 DEF Put
    <3> QED  BY <1>1, <3>1, <3>2, <3>3
  <2>6. x \in Sockets /\ x.peer = {f.peer}
        /\ x.st = IF f.type = "ACK" THEN "established"
                  ELSE IF f.type = "RST" THEN "closed" ELSE s[h].st
    <3>1. s[h].rx \in Seq(Bytes) /\ s[h].st \in States /\ s[h].peer \in SUBSET Peers
      BY <2>3 DEF Sockets
    <3>2. f.type = "DATA" => Append(s[h].rx, f.byte) \in Seq(Bytes)
      BY <1>1, <3>1, AppendFacts
    <3>3. CASE f.type = "ACK"
      BY <2>2, <2>3, <3>1, <3>3 DEF Sockets, States
    <3>4. CASE f.type = "RST"
      BY <2>2, <2>3, <3>1, <3>4 DEF Sockets, States
    <3>5. CASE f.type = "DATA"
      BY <2>2, <2>3, <3>1, <3>2, <3>5 DEF Sockets, States
    <3> QED  BY <1>1, <3>3, <3>4, <3>5
  <2>7. u.sock[h] = x
    <3>1. DOMAIN s = 1 .. Len(s) /\ s \in Seq(Sockets)  BY <1>0, <2>2, SocketFacts DEF SocketsOK
    <3> HIDE DEF x
    <3>2. u.sock = [s EXCEPT ![h] = x]  BY <2>5 DEF Put
    <3> QED  BY <2>2, <3>1, <3>2
  <2> HIDE DEF x
  <2>8. Handled(w, u, f, h)  BY <2>2, <2>5, <2>6, <2>7 DEF Handled
  <2> QED  BY <2>2, <2>8 DEF u
<1> QED  BY <1>2, <1>3

(* The types, through one frame. *)
LEMMA IngressType ==
    ASSUME NEW w, PollType(w), NEW f \in Received
    PROVE  LET u == Ingress(w, f)
           IN  PollType(u) /\ (w.ex.panic => u.ex.panic)
<1> DEFINE u == Ingress(w, f)
           v == SnoopSyn(w)
           p == f.peer
<1>0. p \in Peers  BY DEF Received
<1>s. ASSUME NEW y, PollType(y), NEW h \in DOMAIN y.sock, NEW x \in Sockets, x.st # "listen",
             x.peer = {p}, NEW q \in [Peers -> Hosts],
             y.sock[h].st \in {"established", "closed"} => x.st \in {"established", "closed"}
      PROVE  PollType(Put(y, h, x, q))
  <2> DEFINE z == Put(y, h, x, q)
             t == [y.sock EXCEPT ![h] = x]
  <2>1. z = [ex |-> y.ex, sock |-> t, blk |-> y.blk, peer |-> q]  BY DEF Put
  <2>2. SocketsOK(y.sock) /\ Len(y.sock) = Len(sock)  BY <1>s DEF PollType
  <2>3. /\ SocketsOK(t) /\ Len(t) = Len(y.sock) /\ DOMAIN t = DOMAIN y.sock
        /\ t[h] = x /\ \A g \in DOMAIN y.sock \ {h} : t[g] = y.sock[g]
    BY <1>0, <1>s, <2>2, PutSocket
  <2> HIDE DEF z, t
  <2>4. z.ex = y.ex /\ z.sock = t /\ z.blk = y.blk /\ z.peer = q
        /\ z = [ex |-> z.ex, sock |-> z.sock, blk |-> z.blk, peer |-> z.peer]
    BY <2>1
  <2>5. DOMAIN y.sock = 1 .. Len(sock)  BY <1>s, <2>2, SocketFacts
  <2>6. ASSUME NEW g \in DOMAIN sock, sock[g].st \in {"established", "closed"}
        PROVE  t[g].st \in {"established", "closed"}
    <3>1. y.sock[g].st \in {"established", "closed"}  BY <1>s, <2>6 DEF PollType
    <3>2. CASE g = h  BY <1>s, <2>3, <3>1, <3>2
    <3>3. CASE g # h /\ g \in DOMAIN y.sock  BY <2>3, <3>1, <3>3
    <3>4. CASE g \notin DOMAIN y.sock
      <4>1. t[g] = y.sock[g]  BY <2>3, <2>5, <2>2, <3>4, SocketFacts DEF t
      <4> QED  BY <3>1, <4>1
    <3> QED  BY <3>2, <3>3, <3>4
  <2>7. PollType(z)  BY <1>s, <2>2, <2>3, <2>4, <2>6 DEF PollType
  <2> QED  BY <2>7 DEF z
<1>1. CASE f.type = "SYN"
  <2>1. u = TcpSyn(v, p)  BY <1>1 DEF Ingress
  <2>2. PollType(v) /\ (w.ex.panic => v.ex.panic)  BY SnoopType
  <2> HIDE DEF u, v
  <2>3. v.peer \in [Peers -> Hosts] /\ SocketsOK(v.sock)  BY <2>2 DEF PollType
  <2>4. \A st \in {"idle", "syn_acked", "established"} :
           [v.peer EXCEPT ![p].st = st] \in [Peers -> Hosts]
    BY <1>0, <2>3 DEF Hosts
  <2>5. CASE u = v  BY <2>2, <2>5 DEF u
  <2>6. CASE u = [ex |-> v.ex, sock |-> v.sock, blk |-> v.blk,
                  peer |-> [v.peer EXCEPT ![p].st = "idle"]]
    <3>1. u.ex = v.ex /\ u.sock = v.sock /\ u.blk = v.blk
          /\ u.peer = [v.peer EXCEPT ![p].st = "idle"]
          /\ u = [ex |-> u.ex, sock |-> u.sock, blk |-> u.blk, peer |-> u.peer]
      BY <2>6
    <3>2. u.peer \in [Peers -> Hosts]  BY <2>4, <3>1
    <3>3. PollType(u)  BY <2>2, <3>1, <3>2 DEF PollType
    <3> QED  BY <2>2, <3>1, <3>3 DEF u
  <2>7. ASSUME NEW h \in DOMAIN v.sock, Accepted(v, u, p, h)
        PROVE  PollType(u) /\ u.ex = v.ex
    <3> DEFINE x == [st |-> AnswerSt, peer |-> {p}, rx |-> v.sock[h].rx]
               q == [v.peer EXCEPT ![p].st = PeerSt]
    <3>1. u = Put(v, h, x, q) /\ v.sock[h].st = "listen"  BY <2>7 DEF Accepted, Listening
    <3>2. v.sock[h].rx \in Seq(Bytes)  BY <2>3, <2>7, SocketFacts DEF Sockets
    <3>3. x \in Sockets /\ x.st # "listen" /\ x.peer = {p}
      BY <1>0, <3>2 DEF Sockets, States, AnswerSt
    <3>4. q \in [Peers -> Hosts]  BY <2>4 DEF PeerSt
    <3> HIDE DEF x, q
    <3>5. PollType(u)  BY <1>s, <2>2, <2>7, <3>1, <3>3, <3>4
    <3>6. u.ex = v.ex  BY <3>1 DEF Put
    <3> QED  BY <3>5, <3>6
  <2>8. \/ u = v
        \/ u = [ex |-> v.ex, sock |-> v.sock, blk |-> v.blk,
                peer |-> [v.peer EXCEPT ![p].st = "idle"]]
        \/ \E h \in DOMAIN v.sock : Accepted(v, u, p, h)
    BY <1>0, <2>1, <2>2, TcpSynCases
  <2> QED  BY <2>2, <2>5, <2>6, <2>7, <2>8 DEF u
<1>2. CASE f.type # "SYN"
  <2>1. u = w \/ \E h \in DOMAIN w.sock : Handled(w, u, f, h)  BY <1>2, IngressCases
  <2> HIDE DEF u
  <2>2. ASSUME NEW h \in DOMAIN w.sock, Handled(w, u, f, h)  PROVE PollType(u) /\ u.ex = w.ex
    <3> DEFINE x == u.sock[h]
    <3>1. /\ w.sock[h].peer = {p} /\ u = Put(w, h, x, w.peer)
          /\ x \in Sockets /\ x.peer = {p}
          /\ x.st = IF f.type = "ACK" THEN "established"
                    ELSE IF f.type = "RST" THEN "closed" ELSE w.sock[h].st
      BY <2>2 DEF Handled
    <3> HIDE DEF x
    <3>2. SocketsOK(w.sock) /\ w.peer \in [Peers -> Hosts]  BY DEF PollType
    <3>3. w.sock[h].st # "listen"  BY <2>2, <3>1, <3>2 DEF SocketsOK
    <3>4. PollType(u)  BY <1>s, <2>2, <3>1, <3>2, <3>3
    <3>5. u.ex = w.ex  BY <3>1 DEF Put
    <3> QED  BY <3>4, <3>5
  <2> QED  BY <2>1, <2>2 DEF u
<1> QED  BY <1>1, <1>2

(* A frame that changes nothing. *)
LEMMA StackNext ==
    ASSUME NEW s, NEW q, NEW b, NEW i \in Nat, frames \in Seq(Received),
           StackInv(s, q, i), GoodInv(s, q, b, i)
    PROVE  StackInv(s, q, i + 1) /\ GoodInv(s, q, b, i + 1)
<1>1. \A k \in DOMAIN frames : k > i + 1 => k > i  BY LenProperties
<1>2. StackInv(s, q, i + 1)  BY <1>1 DEF StackInv
<1>3. GoodInv(s, q, b, i + 1)  BY <1>1 DEF GoodInv
<1> QED  BY <1>2, <1>3

(* Socket h takes the connection of p. *)
LEMMA StackAccept ==
    ASSUME NEW s, SocketsOK(s), NEW q, NEW i \in Nat, frames \in Seq(Received),
           Range(syn_queue) \subseteq DOMAIN s,
           StackInv(s, q, i), NEW p \in Peers, SockOf(s, p) = {},
           NEW h \in DOMAIN s, s[h].st = "listen",
           NEW t, DOMAIN t = DOMAIN s, t[h].peer = {p}, t[h].st = AnswerSt,
           \A g \in DOMAIN s \ {h} : t[g] = s[g],
           NEW r, \A a \in Peers \ {p} : r[a] = q[a], r[p].st = PeerSt
    PROVE  StackInv(t, r, i + 1)
<1>1. \A k \in DOMAIN frames : /\ k > i + 1 => k > i
                               /\ frames[k].peer \in Peers
  BY LenProperties DEF Received
<1>2. s[h].peer = {}  BY DEF SocketsOK
<1>3. \A g \in DOMAIN s : s[g].peer # {p}  BY DEF SockOf
<1>4. AnswerSt \notin {"listen", "closed"} /\ PeerSt \in Connected
  BY DEF AnswerSt, PeerSt, Connected
<1>5. q[p].st \notin Connected  BY <1>3 DEF StackInv
<1>6. \A a \in Peers : r[a].st \in Connected <=> \E g \in DOMAIN t : t[g].peer = {a}
  <2> SUFFICES ASSUME NEW a \in Peers
               PROVE  r[a].st \in Connected <=> \E g \in DOMAIN t : t[g].peer = {a}
    OBVIOUS
  <2>1. CASE a = p  BY <1>4, <2>1
  <2>2. CASE a # p
    <3>1. q[a].st \in Connected <=> \E g \in DOMAIN s : s[g].peer = {a}  BY DEF StackInv
    <3>2. \A g \in DOMAIN s : t[g].peer = {a} <=> s[g].peer = {a}  BY <1>2, <2>2
    <3> QED  BY <2>2, <3>1, <3>2
  <2> QED  BY <2>1, <2>2
<1>7. \A g, k \in DOMAIN t : t[g].peer = t[k].peer /\ t[g].peer # {} => g = k
  BY <1>3 DEF StackInv
<1>8. \A g \in DOMAIN t : t[g].st = "listen" => g \in Range(syn_queue)
  BY <1>4 DEF StackInv
<1>9. \A g \in DOMAIN t, a \in Peers : t[g].st = "closed" /\ t[g].peer = {a} =>
          /\ r[a].st = "reset"
          /\ \A k \in DOMAIN frames : k > i + 1 /\ frames[k].type = "ACK" => frames[k].peer # a
  <2> SUFFICES ASSUME NEW g \in DOMAIN t, NEW a \in Peers, t[g].st = "closed", t[g].peer = {a}
               PROVE  /\ r[a].st = "reset"
                      /\ \A k \in DOMAIN frames : k > i + 1 /\ frames[k].type = "ACK" =>
                                                      frames[k].peer # a
    OBVIOUS
  <2>1. g # h /\ s[g].st = "closed" /\ s[g].peer = {a} /\ a # p  BY <1>3, <1>4
  <2> QED  BY <1>1, <2>1 DEF StackInv
<1>10. \A k \in DOMAIN frames : k > i + 1 /\ frames[k].type = "RST" =>
          /\ r[frames[k].peer].st = "reset"
          /\ "early_reset" \notin faults => \A g \in Range(syn_queue) : t[g].peer # {frames[k].peer}
          /\ \A j \in DOMAIN frames :
                j > k /\ frames[j].type = "ACK" => frames[j].peer # frames[k].peer
  <2> SUFFICES ASSUME NEW k \in DOMAIN frames, k > i + 1, frames[k].type = "RST"
               PROVE  /\ r[frames[k].peer].st = "reset"
                      /\ "early_reset" \notin faults => \A g \in Range(syn_queue) : t[g].peer # {frames[k].peer}
                      /\ \A j \in DOMAIN frames :
                            j > k /\ frames[j].type = "ACK" => frames[j].peer # frames[k].peer
    OBVIOUS
  <2>1. /\ q[frames[k].peer].st = "reset"
        /\ "early_reset" \notin faults => \A g \in Range(syn_queue) : s[g].peer # {frames[k].peer}
        /\ \A j \in DOMAIN frames :
              j > k /\ frames[j].type = "ACK" => frames[j].peer # frames[k].peer
    BY <1>1 DEF StackInv
  <2>2. frames[k].peer # p  BY <1>5, <2>1 DEF Connected
  <2>3. "early_reset" \notin faults => \A g \in Range(syn_queue) : t[g].peer # {frames[k].peer}
    <3> SUFFICES ASSUME "early_reset" \notin faults, NEW g \in Range(syn_queue)
                 PROVE  t[g].peer # {frames[k].peer}
      OBVIOUS
    <3>1. CASE g = h  BY <2>2, <3>1
    <3>2. CASE g \in DOMAIN s \ {h}  BY <2>1, <3>2
    <3> QED  BY <3>1, <3>2
  <2> QED  BY <1>1, <2>1, <2>2, <2>3
<1> QED  BY <1>6, <1>7, <1>8, <1>9, <1>10 DEF StackInv

(* Nobody listens: the connection is refused. *)
LEMMA StackRefuse ==
    ASSUME NEW s, NEW q, NEW i \in Nat, frames \in Seq(Received),
           StackInv(s, q, i), NEW p \in Peers, SockOf(s, p) = {},
           NEW r, \A a \in Peers \ {p} : r[a] = q[a], r[p].st = "idle"
    PROVE  StackInv(s, r, i + 1)
<1>1. \A k \in DOMAIN frames : /\ k > i + 1 => k > i
                               /\ frames[k].peer \in Peers
  BY LenProperties DEF Received
<1>3. \A g \in DOMAIN s : s[g].peer # {p}  BY DEF SockOf
<1>5. q[p].st \notin Connected /\ "idle" \notin Connected  BY <1>3 DEF StackInv, Connected
<1>6. \A a \in Peers : r[a].st \in Connected <=> \E g \in DOMAIN s : s[g].peer = {a}
  <2> SUFFICES ASSUME NEW a \in Peers
               PROVE  r[a].st \in Connected <=> \E g \in DOMAIN s : s[g].peer = {a}
    OBVIOUS
  <2>1. CASE a = p  BY <1>3, <1>5, <2>1
  <2>2. CASE a # p  BY <2>2 DEF StackInv
  <2> QED  BY <2>1, <2>2
<1>9. \A g \in DOMAIN s, a \in Peers : s[g].st = "closed" /\ s[g].peer = {a} =>
          /\ r[a].st = "reset"
          /\ \A k \in DOMAIN frames : k > i + 1 /\ frames[k].type = "ACK" => frames[k].peer # a
  BY <1>1, <1>3 DEF StackInv
<1>10. \A k \in DOMAIN frames : k > i + 1 /\ frames[k].type = "RST" =>
          /\ r[frames[k].peer].st = "reset"
          /\ "early_reset" \notin faults => \A g \in Range(syn_queue) : s[g].peer # {frames[k].peer}
          /\ \A j \in DOMAIN frames :
                j > k /\ frames[j].type = "ACK" => frames[j].peer # frames[k].peer
  <2> SUFFICES ASSUME NEW k \in DOMAIN frames, k > i + 1, frames[k].type = "RST"
               PROVE  /\ r[frames[k].peer].st = "reset"
                      /\ "early_reset" \notin faults => \A g \in Range(syn_queue) : s[g].peer # {frames[k].peer}
                      /\ \A j \in DOMAIN frames :
                            j > k /\ frames[j].type = "ACK" => frames[j].peer # frames[k].peer
    OBVIOUS
  <2>1. /\ q[frames[k].peer].st = "reset"
        /\ "early_reset" \notin faults => \A g \in Range(syn_queue) : s[g].peer # {frames[k].peer}
        /\ \A j \in DOMAIN frames :
              j > k /\ frames[j].type = "ACK" => frames[j].peer # frames[k].peer
    BY <1>1 DEF StackInv
  <2>2. frames[k].peer # p  BY <1>5, <2>1 DEF Connected
  <2> QED  BY <1>1, <2>1, <2>2
<1> QED  BY <1>6, <1>9, <1>10 DEF StackInv

(* A frame for the connection of socket h. *)
ForSocket(s, q, i, h, t) ==
    /\ SocketsOK(s) /\ StackInv(s, q, i) /\ Range(syn_queue) \subseteq DOMAIN s
    /\ i \in Nat /\ frames \in Seq(Received) /\ i + 1 \in DOMAIN frames
    /\ h \in DOMAIN s /\ s[h].peer = {frames[i + 1].peer}
    /\ DOMAIN t = DOMAIN s /\ t[h].peer = s[h].peer
    /\ t[h].st = IF frames[i + 1].type = "ACK" THEN "established"
                 ELSE IF frames[i + 1].type = "RST" THEN "closed" ELSE s[h].st
    /\ \A g \in DOMAIN s \ {h} : t[g] = s[g]

LEMMA StackHandled ==
    ASSUME NEW s, NEW q, NEW i, NEW h, NEW t, ForSocket(s, q, i, h, t)
    PROVE  /\ StackInv(t, q, i + 1)
           /\ s[h].st = "closed" => t[h].st = "closed"
           /\ t[h].st = "closed" /\ Prompt => s[h].st = "closed" \/ h \notin Range(syn_queue)
<1> USE DEF ForSocket
<1> DEFINE f == frames[i + 1]
           p == f.peer
<1>0. p \in Peers /\ i + 1 > i  BY LenProperties DEF Received
<1>1. \A k \in DOMAIN frames : /\ k > i + 1 => k > i
                               /\ frames[k].peer \in Peers
  BY LenProperties DEF Received
<1>2. s[h].st = "closed" => f.type # "ACK"  BY <1>0 DEF StackInv
<1>3. f.type = "RST" => /\ q[p].st = "reset" /\ ("early_reset" \notin faults => h \notin Range(syn_queue))
                        /\ \A k \in DOMAIN frames : k > i + 1 /\ frames[k].type = "ACK" =>
                                                        frames[k].peer # p
  BY <1>0 DEF StackInv
<1>4. s[h].st # "listen"  BY <1>0 DEF SocketsOK
<1>5. \A g \in DOMAIN s : t[g].peer = s[g].peer  OBVIOUS
<1>6. \A a \in Peers : q[a].st \in Connected <=> \E g \in DOMAIN t : t[g].peer = {a}
  <2>1. \A a \in Peers : q[a].st \in Connected <=> \E g \in DOMAIN s : s[g].peer = {a}
    BY DEF StackInv
  <2> QED  BY <1>5, <2>1
<1>7. \A g, k \in DOMAIN t : t[g].peer = t[k].peer /\ t[g].peer # {} => g = k
  <2>1. \A g, k \in DOMAIN s : s[g].peer = s[k].peer /\ s[g].peer # {} => g = k
    BY DEF StackInv
  <2> QED  BY <1>5, <2>1
<1>8. \A g \in DOMAIN t : t[g].st = "listen" => g \in Range(syn_queue)
  BY <1>4 DEF StackInv
<1>9. \A g \in DOMAIN t, a \in Peers : t[g].st = "closed" /\ t[g].peer = {a} =>
          /\ q[a].st = "reset"
          /\ \A k \in DOMAIN frames : k > i + 1 /\ frames[k].type = "ACK" => frames[k].peer # a
  <2> SUFFICES ASSUME NEW g \in DOMAIN t, NEW a \in Peers, t[g].st = "closed", t[g].peer = {a}
               PROVE  /\ q[a].st = "reset"
                      /\ \A k \in DOMAIN frames : k > i + 1 /\ frames[k].type = "ACK" =>
                                                      frames[k].peer # a
    OBVIOUS
  <2>1. CASE s[g].st = "closed"  BY <1>1, <1>5, <2>1 DEF StackInv
  <2>2. CASE s[g].st # "closed"
    <3>1. g = h /\ f.type = "RST" /\ a = p  BY <1>5, <2>2
    <3> QED  BY <1>3, <3>1
  <2> QED  BY <2>1, <2>2
<1>10. \A k \in DOMAIN frames : k > i + 1 /\ frames[k].type = "RST" =>
          /\ q[frames[k].peer].st = "reset"
          /\ "early_reset" \notin faults => \A g \in Range(syn_queue) : t[g].peer # {frames[k].peer}
          /\ \A j \in DOMAIN frames :
                j > k /\ frames[j].type = "ACK" => frames[j].peer # frames[k].peer
  BY <1>1, <1>5 DEF StackInv
<1>11. StackInv(t, q, i + 1)  BY <1>6, <1>7, <1>8, <1>9, <1>10 DEF StackInv
<1> QED  BY <1>2, <1>3, <1>11 DEF Prompt

(* With prompt handshakes, a SYN that is accepted finds the socket of the  *)
(* coroutine that was woken for it: b are the waiters before, c after.     *)
Woken(b, c) ==
    \/ c = b
    \/ \E d \in Listeners : /\ Range(b) = Range(c) \cup {d}
                            /\ \A e \in Range(b) : e = d \/ Before(d, e)

ForListener(s, q, i, p, h, t, r) ==
    /\ StackInv(s, q, i) /\ SocketsOK(s) /\ Range(syn_queue) \subseteq DOMAIN s
    /\ i \in Nat /\ frames \in Seq(Received) /\ i + 1 \in DOMAIN frames
    /\ frames[i + 1].type = "SYN" /\ p = frames[i + 1].peer /\ p \in Peers
    /\ h \in DOMAIN s /\ s[h].st = "listen"
    /\ \A g \in DOMAIN s : s[g].st = "listen" => h <= g
    /\ DOMAIN t = DOMAIN s /\ t[h].st = AnswerSt
    /\ \A g \in DOMAIN s \ {h} : t[g] = s[g]
    /\ \A a \in Peers \ {p} : r[a] = q[a]

LEMMA GoodAccept ==
    ASSUME NEW s, NEW q, NEW b, NEW c, NEW i, NEW p, NEW h, NEW t, NEW r,
           ForListener(s, q, i, p, h, t, r), GoodInv(s, q, b, i), Woken(b, c),
           QueueInv, \A d \in Accepts : co[d].handler \in Nat
    PROVE  GoodInv(t, r, c, i + 1)
<1> USE DEF ForListener, Woken
<1> SUFFICES ASSUME Prompt  PROVE GoodInv(t, r, c, i + 1)
  BY DEF GoodInv
<1>1. \A k \in DOMAIN frames : /\ k > i + 1 => k > i
                               /\ frames[k].peer \in Peers
  BY LenProperties DEF Received
<1>2. AnswerSt = "established"  BY DEF AnswerSt, Prompt
<1>3. \A k \in DOMAIN frames : k > i + 1 /\ frames[k].type = "SYN" =>
              /\ r[frames[k].peer].st = "syn_sent"
              /\ \A j \in DOMAIN frames :
                    j > k /\ frames[j].type = "SYN" => frames[j].peer # frames[k].peer
  <2>1. i + 1 > i  OBVIOUS
  <2>2. \A k \in DOMAIN frames : k > i + 1 /\ frames[k].type = "SYN" => frames[k].peer # p
    BY <2>1 DEF GoodInv
  <2> QED  BY <1>1, <2>2 DEF GoodInv
<1>4. \A g \in DOMAIN t : t[g].st # "syn_received"  BY <1>2 DEF GoodInv
<1>5. \A g \in Range(syn_queue) : t[g].st # "closed"  BY <1>2 DEF GoodInv
<1>6. \A d \in Listeners : co[d].handler \in DOMAIN s
  BY DEF QueueInv
<1>7. \A d \in Listeners : d \notin Range(b) => t[co[d].handler].st # "listen"
  BY <1>2, <1>6 DEF GoodInv
<1>8. ASSUME NEW d \in Listeners, Range(b) = Range(c) \cup {d},
             \A e \in Range(b) : e = d \/ Before(d, e)
      PROVE  t[co[d].handler].st # "listen"
  <2> SUFFICES ASSUME t[co[d].handler].st = "listen"  PROVE FALSE
    OBVIOUS
  <2>1. h # co[d].handler /\ s[co[d].handler].st = "listen"  BY <1>2, <1>6
  <2>2. h <= co[d].handler  BY <1>6, <2>1
  <2>3. h \in Range(syn_queue)  BY DEF StackInv
  <2>4. PICK e \in Listeners : h = co[e].handler  BY <2>3 DEF QueueInv
  <2>5. e \in Range(b)  BY <2>4 DEF GoodInv
  <2>6. Before(d, e)  BY <1>8, <2>1, <2>4, <2>5
  <2>7. co[d].handler \in Nat /\ co[e].handler \in Nat  BY <1>8, <2>4 DEF Listeners
  <2> QED  BY <2>1, <2>2, <2>4, <2>6, <2>7 DEF Before
<1>9. \A d \in Listeners : d \notin Range(c) => t[co[d].handler].st # "listen"
  <2>1. CASE c = b  BY <1>7, <2>1
  <2>2. ASSUME NEW d \in Listeners, Range(b) = Range(c) \cup {d},
               \A e \in Range(b) : e = d \/ Before(d, e)
        PROVE  \A e \in Listeners : e \notin Range(c) => t[co[e].handler].st # "listen"
    BY <1>7, <1>8, <2>2
  <2> QED  BY <2>1, <2>2
<1> QED  BY <1>3, <1>4, <1>5, <1>9 DEF GoodInv

(* ... and one that is refused finds no socket that listens. *)
LEMMA GoodRefuse ==
    ASSUME NEW s, NEW q, NEW b, NEW c, NEW i \in Nat, frames \in Seq(Received),
           GoodInv(s, q, b, i), QueueInv, Listening(s) = {},
           Range(syn_queue) \subseteq DOMAIN s,
           i + 1 \in DOMAIN frames, frames[i + 1].type = "SYN",
           NEW r, \A a \in Peers \ {frames[i + 1].peer} : r[a] = q[a]
    PROVE  GoodInv(s, r, c, i + 1)
<1> SUFFICES ASSUME Prompt  PROVE GoodInv(s, r, c, i + 1)
  BY DEF GoodInv
<1>1. \A k \in DOMAIN frames : /\ k > i + 1 => k > i
                               /\ frames[k].peer \in Peers
  BY LenProperties DEF Received
<1>3. \A k \in DOMAIN frames : k > i + 1 /\ frames[k].type = "SYN" =>
              /\ r[frames[k].peer].st = "syn_sent"
              /\ \A j \in DOMAIN frames :
                    j > k /\ frames[j].type = "SYN" => frames[j].peer # frames[k].peer
  <2>1. i + 1 > i  OBVIOUS
  <2>2. \A k \in DOMAIN frames :
           k > i + 1 /\ frames[k].type = "SYN" => frames[k].peer # frames[i + 1].peer
    BY <2>1 DEF GoodInv
  <2> QED  BY <1>1, <2>2 DEF GoodInv
<1>6. \A d \in Listeners : co[d].handler \in DOMAIN s  BY DEF QueueInv
<1>7. \A d \in Listeners : s[co[d].handler].st # "listen"  BY <1>6 DEF Listening
<1> QED  BY <1>3, <1>7 DEF GoodInv

(* The waiters after a SYN: the same, or without the one that waited longest. *)
LEMMA SnoopWaiters ==
    ASSUME TypeInv, NEW w, PollType(w), OrderInv(w.ex, w.blk), SchedInv(w.ex, w.blk)
    PROVE  LET v == SnoopSyn(w)
               b == w.blk
               c == v.blk
           IN  \/ c = b
               \/ \E d \in Listeners : /\ Range(b) = Range(c) \cup {d}
                                       /\ \A e \in Range(b) : e = d \/ Before(d, e)
<1> DEFINE v == SnoopSyn(w)
           b == w.blk
           d == Head(b)
<1>1. CASE v = w  BY <1>1
<1>2. CASE b # <<>> /\ v.blk = Tail(b)
  <2>1. b \in Seq(TaskIds)  BY DEF PollType
  <2>2. Range(b) = Range(Tail(b)) \cup {d} /\ d \in Range(b)  BY <1>2, <2>1, RangeTail
  <2>3. d = b[1] /\ DOMAIN b = 1 .. Len(b) /\ Len(b) \in Nat \ {0}  BY <1>2, <2>1, TailFacts
  <2> HIDE DEF d
  <2>4. \A k \in DOMAIN b : b[k] \in Accepts  BY DEF OrderInv
  <2>5. d \in Accepts  BY <2>2, <2>4 DEF Range
  <2>6. d \in Listeners  BY <2>2, <2>5 DEF SchedInv
  <2>7. ASSUME NEW e \in Range(b)  PROVE e = d \/ Before(d, e)
    <3>1. PICK k \in DOMAIN b : e = b[k]  BY DEF Range
    <3>2. CASE k = 1  BY <2>3, <3>1, <3>2
    <3>3. CASE k # 1
      <4>1. 1 \in DOMAIN b /\ 1 < k  BY <2>3, <3>3
      <4> QED  BY <2>3, <3>1, <4>1 DEF OrderInv
    <3> QED  BY <3>2, <3>3
  <2> QED  BY <1>2, <2>2, <2>6, <2>7
<1>3. v = w \/ (b # <<>> /\ v.blk = Tail(b))  BY SnoopType
<1> QED  BY <1>1, <1>2, <1>3

LEMMA IngressStep ==
    ASSUME TypeInv, CoInv, CallInv, QueueInv, NEW i \in 0 .. Len(frames) - 1, NEW w, PollInv(w, i)
    PROVE  PollInv(Ingress(w, frames[i + 1]), i + 1)
<1> DEFINE f == frames[i + 1]
           p == f.peer
           u == Ingress(w, f)
           v == SnoopSyn(w)
           s == w.sock
<1>f. frames \in Seq(Received)  BY DEF TypeInv
<1>0. /\ i \in Nat /\ i + 1 \in DOMAIN frames /\ f \in Received /\ p \in Peers
  <2>1. Len(frames) \in Nat /\ DOMAIN frames = 1 .. Len(frames)  BY <1>f, LenProperties
  <2>2. i \in Nat /\ i + 1 \in DOMAIN frames  BY <2>1
  <2>3. f \in Received  BY <1>f, <2>1, <2>2
  <2> QED  BY <2>2, <2>3 DEF Received
<1>1. PollType(w) /\ (~w.ex.panic => PollRun(w, i)) /\ (Sizes => ~w.ex.panic)  BY DEF PollInv
<1>2. PollType(u) /\ (w.ex.panic => u.ex.panic)  BY <1>0, <1>1, IngressType
<1>3. SocketsOK(s) /\ Len(s) = Len(sock) /\ w.peer \in [Peers -> Hosts]  BY <1>1 DEF PollType
<1>4. Range(syn_queue) \subseteq DOMAIN s /\ DOMAIN sock = DOMAIN s
  <2>1. s \in Seq(Sockets) /\ sock \in Seq(Sockets)  BY <1>3 DEF SocketsOK, TypeInv
  <2>2. DOMAIN s = 1 .. Len(sock) /\ DOMAIN sock = 1 .. Len(sock)  BY <1>3, <2>1, LenProperties
  <2> QED  BY <2>2 DEF TypeInv, Range
<1>5. \A d \in Accepts : co[d].handler \in Nat  BY DEF TypeInv, Contexts, Accepts
<1>6. CASE w.ex.panic  BY <1>1, <1>2, <1>6 DEF PollInv
<1>7. CASE ~w.ex.panic /\ f.type # "SYN"
  <2>1. u = w \/ \E h \in DOMAIN s : Handled(w, u, f, h)  BY <1>0, <1>1, <1>7, IngressCases
  <2>2. PollRun(w, i)  BY <1>1, <1>7
  <2>3. StackInv(s, w.peer, i + 1) /\ GoodInv(s, w.peer, w.blk, i + 1)
    BY <1>0, <1>f, <2>2, StackNext DEF PollRun
  <2> HIDE DEF u
  <2>4. CASE u = w
    <3>1. PollRun(w, i + 1)  BY <2>2, <2>3 DEF PollRun
    <3> QED  BY <1>1, <2>4, <3>1 DEF PollInv, u
  <2>5. ASSUME NEW h \in DOMAIN s, Handled(w, u, f, h)
        PROVE  PollInv(u, i + 1)
    <3> DEFINE x == u.sock[h]
               t == u.sock
    <3>1. /\ s[h].peer = {p} /\ u = Put(w, h, x, w.peer)
          /\ x \in Sockets /\ x.peer = {p}
          /\ x.st = IF f.type = "ACK" THEN "established"
                    ELSE IF f.type = "RST" THEN "closed" ELSE s[h].st
      BY <2>5 DEF Handled
    <3>2. u.ex = w.ex /\ u.blk = w.blk /\ u.peer = w.peer /\ t = [s EXCEPT ![h] = x]
      BY <3>1 DEF Put
    <3>3. s[h].st # "listen"  BY <1>3, <3>1 DEF SocketsOK
    <3> HIDE DEF x
    <3>4. x.st # "listen"  BY <3>1, <3>3
    <3>5. DOMAIN t = DOMAIN s /\ t[h] = x /\ \A g \in DOMAIN s \ {h} : t[g] = s[g]
      BY <1>0, <1>3, <2>5, <3>1, <3>2, <3>4, PutSocket
    <3> HIDE DEF t
    <3>p. t[h].peer = s[h].peer /\ t[h].st = IF f.type = "ACK" THEN "established"
                       ELSE IF f.type = "RST" THEN "closed" ELSE s[h].st
      BY <3>1, <3>5
    <3>6. /\ StackInv(t, w.peer, i + 1)
          /\ s[h].st = "closed" => t[h].st = "closed"
          /\ t[h].st = "closed" /\ Prompt => s[h].st = "closed" \/ h \notin Range(syn_queue)
      <4>1. StackInv(s, w.peer, i)  BY <2>2 DEF PollRun
      <4>2. SocketsOK(s) /\ Range(syn_queue) \subseteq DOMAIN s  BY <1>3, <1>4
      <4>3. h \in DOMAIN s /\ s[h].peer = {frames[i + 1].peer}  BY <2>5, <3>1
      <4>4. DOMAIN t = DOMAIN s /\ \A g \in DOMAIN s \ {h} : t[g] = s[g]  BY <3>5
      <4>5. i \in Nat /\ i + 1 \in DOMAIN frames  BY <1>0
      <4>6. ForSocket(s, w.peer, i, h, t)
        BY <1>f, <3>p, <4>1, <4>2, <4>3, <4>4, <4>5 DEF ForSocket
      <4> QED  BY <4>6, StackHandled
    <3>7. GoodInv(t, w.peer, w.blk, i + 1)
      <4> SUFFICES ASSUME Prompt  PROVE GoodInv(t, w.peer, w.blk, i + 1)
        BY DEF GoodInv
      <4>1. \A g \in DOMAIN t : t[g].st # "syn_received"
        BY <2>3, <3>5, <3>p DEF GoodInv
      <4>2. \A g \in Range(syn_queue) : t[g].st # "closed"
        BY <1>4, <2>3, <3>5, <3>6 DEF GoodInv
      <4>3. \A d \in Listeners : d \notin Range(w.blk) => t[co[d].handler].st # "listen"
        <5>1. \A d \in Listeners : co[d].handler \in DOMAIN s  BY <1>4 DEF QueueInv
        <5> QED  BY <2>3, <3>4, <3>5, <5>1 DEF GoodInv
      <4> QED  BY <2>3, <4>1, <4>2, <4>3 DEF GoodInv
    <3>8. \A g \in DOMAIN sock : sock[g].st = "closed" => t[g].st = "closed"
      BY <1>4, <2>2, <3>5, <3>6 DEF PollRun
    <3>9. PollRun(u, i + 1)  BY <2>2, <3>2, <3>6, <3>7, <3>8 DEF PollRun, t
    <3> QED  BY <1>1, <1>2, <3>2, <3>9 DEF PollInv, u
  <2> QED  BY <2>1, <2>4, <2>5 DEF u
<1>8. CASE ~w.ex.panic /\ f.type = "SYN"
  <2>1. u = TcpSyn(v, p)  BY <1>8 DEF Ingress
  <2>2. PollRun(w, i)  BY <1>1, <1>8
  <2>3. PollType(v) /\ v.sock = s /\ v.peer = w.peer  BY <1>1, SnoopType
  <2>4. /\ ~v.ex.panic =>
              /\ Shape(v.ex) /\ v.ex.ready[0] = w.ex.ready[0] /\ v.ex.ready[1] = w.ex.ready[1]
              /\ SchedInv(v.ex, v.blk) /\ OrderInv(v.ex, v.blk)
        /\ Sizes => ~v.ex.panic
    BY <1>1, <2>2, SnoopRun DEF PollRun
  <2>5. \/ v.blk = w.blk
        \/ \E d \in Listeners : /\ Range(w.blk) = Range(v.blk) \cup {d}
                                /\ \A e \in Range(w.blk) : e = d \/ Before(d, e)
    BY <1>1, <2>2, SnoopWaiters DEF PollRun
  <2>6. \/ SockOf(v.sock, p) # {} /\ u = v
        \/ /\ SockOf(v.sock, p) = {} /\ Listening(v.sock) = {}
           /\ u = [ex |-> v.ex, sock |-> v.sock, blk |-> v.blk,
                   peer |-> [v.peer EXCEPT ![p].st = "idle"]]
        \/ SockOf(v.sock, p) = {} /\ \E h \in DOMAIN v.sock : Accepted(v, u, p, h)
    <3>1. p \in Peers /\ PollType(v) /\ u = TcpSyn(v, p)  BY <1>0, <2>1, <2>3
    <3> HIDE DEF u, v, p
    <3> QED  BY ONLY <3>1, TcpSynCases
  <2>7. StackInv(s, w.peer, i) /\ GoodInv(s, w.peer, w.blk, i)
        /\ StackInv(s, w.peer, i + 1) /\ GoodInv(s, w.peer, w.blk, i + 1)
    BY <1>0, <1>f, <2>2, StackNext DEF PollRun
  <2> HIDE DEF u, v
  <2>8. ASSUME u.ex = v.ex, u.blk = v.blk, StackInv(u.sock, u.peer, i + 1),
               GoodInv(u.sock, u.peer, u.blk, i + 1),
               \A g \in DOMAIN sock : sock[g].st = "closed" => u.sock[g].st = "closed"
        PROVE  PollInv(u, i + 1)
    <3>1. ~u.ex.panic => PollRun(u, i + 1)  BY <2>2, <2>4, <2>8 DEF PollRun
    <3> QED  BY <1>2, <2>4, <2>8, <3>1 DEF PollInv, u
  <2>9. CASE SockOf(s, p) # {} /\ u = v
    <3>1. PICK h \in DOMAIN s : s[h].peer = {p}  BY <2>9 DEF SockOf
    <3>2. w.peer[p].st \in Connected  BY <1>0, <2>7, <3>1 DEF StackInv
    <3>3. ~Prompt
      <4>1. i + 1 > i  BY <1>0
      <4>2. Prompt => w.peer[p].st = "syn_sent"  BY <1>0, <1>8, <2>7, <4>1 DEF GoodInv
      <4> QED  BY <3>2, <4>2 DEF Connected
    <3>4. GoodInv(s, w.peer, v.blk, i + 1)  BY <3>3 DEF GoodInv
    <3>5. \A g \in DOMAIN sock : sock[g].st = "closed" => s[g].st = "closed"
      BY <2>2 DEF PollRun
    <3>6. u.ex = v.ex /\ u.blk = v.blk /\ u.sock = s /\ u.peer = w.peer  BY <2>3, <2>9
    <3>7. StackInv(u.sock, u.peer, i + 1) /\ GoodInv(u.sock, u.peer, u.blk, i + 1)
      BY <2>7, <3>4, <3>6
    <3>8. \A g \in DOMAIN sock : sock[g].st = "closed" => u.sock[g].st = "closed"
      BY <3>5, <3>6
    <3> QED  BY <2>8, <3>6, <3>7, <3>8 DEF u
  <2>10. CASE /\ SockOf(s, p) = {} /\ Listening(s) = {}
              /\ u = [ex |-> v.ex, sock |-> v.sock, blk |-> v.blk,
                      peer |-> [v.peer EXCEPT ![p].st = "idle"]]
    <3>1. u.ex = v.ex /\ u.sock = s /\ u.blk = v.blk
          /\ u.peer = [w.peer EXCEPT ![p].st = "idle"]
      BY <2>3, <2>10
    <3>2. (\A a \in Peers \ {p} : u.peer[a] = w.peer[a]) /\ u.peer[p].st = "idle"
      BY <1>0, <1>3, <3>1 DEF Hosts
    <3>3. StackInv(s, u.peer, i + 1)
      <4>1. i \in Nat /\ StackInv(s, w.peer, i) /\ p \in Peers /\ SockOf(s, p) = {}
        BY <1>0, <2>7, <2>10
      <4> HIDE DEF s, p
      <4> QED  BY ONLY <1>f, <3>2, <4>1, StackRefuse
    <3>4. GoodInv(s, u.peer, u.blk, i + 1)
      <4>1. frames[i + 1].peer = p /\ frames[i + 1].type = "SYN" /\ i \in Nat
            /\ i + 1 \in DOMAIN frames
        BY <1>0, <1>8
      <4> QED  BY <1>f, <1>4, <2>7, <2>10, <3>1, <3>2, <4>1, GoodRefuse
    <3>5. \A g \in DOMAIN sock : sock[g].st = "closed" => s[g].st = "closed"
      BY <2>2 DEF PollRun
    <3>6. StackInv(u.sock, u.peer, i + 1) /\ GoodInv(u.sock, u.peer, u.blk, i + 1)
      BY <3>1, <3>3, <3>4
    <3>7. \A g \in DOMAIN sock : sock[g].st = "closed" => u.sock[g].st = "closed"
      BY <3>1, <3>5
    <3> QED  BY <2>8, <3>1, <3>6, <3>7 DEF u
  <2>11. ASSUME SockOf(s, p) = {}, NEW h \in DOMAIN s, Accepted(v, u, p, h)
         PROVE  PollInv(u, i + 1)
    <3> DEFINE x == [st |-> AnswerSt, peer |-> {p}, rx |-> s[h].rx]
               q == [w.peer EXCEPT ![p].st = PeerSt]
    <3>1. /\ h \in Listening(s) /\ \A g \in Listening(s) : h <= g
          /\ u = Put(v, h, x, q)
      BY <2>3, <2>11 DEF Accepted
    <3>2. u.ex = v.ex /\ u.blk = v.blk /\ u.peer = q /\ u.sock = [s EXCEPT ![h] = x]
      BY <2>3, <3>1 DEF Put
    <3>3. x \in Sockets /\ x.st = AnswerSt /\ x.st # "listen" /\ x.peer = {p}
      <4>1. s[h].rx \in Seq(Bytes)  BY <1>3, <2>11, SocketFacts DEF Sockets
      <4> QED  BY <1>0, <4>1 DEF Sockets, States, AnswerSt
    <3> HIDE DEF x
    <3> DEFINE t == u.sock
    <3>4. DOMAIN t = DOMAIN s /\ t[h] = x /\ \A g \in DOMAIN s \ {h} : t[g] = s[g]
      BY <1>0, <1>3, <2>11, <3>2, <3>3, PutSocket
    <3>5. (\A a \in Peers \ {p} : q[a] = w.peer[a]) /\ q[p].st = PeerSt
      BY <1>0, <1>3 DEF Hosts
    <3> HIDE DEF t, q
    <3>6. s[h].st = "listen" /\ \A g \in DOMAIN s : s[g].st = "listen" => h <= g
      BY <3>1 DEF Listening
    <3>7. t[h].peer = {p} /\ t[h].st = AnswerSt  BY <3>3, <3>4
    <3>8. StackInv(t, q, i + 1)
      <4>1. i \in Nat /\ StackInv(s, w.peer, i) /\ p \in Peers /\ SockOf(s, p) = {}
            /\ SocketsOK(s) /\ Range(syn_queue) \subseteq DOMAIN s /\ h \in DOMAIN s
        BY <1>0, <1>3, <1>4, <2>7, <2>11
      <4>2. DOMAIN t = DOMAIN s /\ \A g \in DOMAIN s \ {h} : t[g] = s[g]  BY <3>4
      <4> HIDE DEF s, p
      <4> QED  BY ONLY <1>f, <3>5, <3>6, <3>7, <4>1, <4>2, StackAccept
    <3>9. GoodInv(t, q, v.blk, i + 1)
      <4>1. i \in Nat /\ StackInv(s, w.peer, i) /\ p \in Peers /\ SocketsOK(s)
            /\ Range(syn_queue) \subseteq DOMAIN s /\ h \in DOMAIN s /\ p = frames[i + 1].peer
            /\ i + 1 \in DOMAIN frames /\ frames[i + 1].type = "SYN"
        BY <1>0, <1>3, <1>4, <1>8, <2>7, <2>11
      <4>2. DOMAIN t = DOMAIN s /\ \A g \in DOMAIN s \ {h} : t[g] = s[g]  BY <3>4
      <4>3. ForListener(s, w.peer, i, p, h, t, q)
        <5> HIDE DEF s, p, f
        <5> QED  BY <1>f, <3>5, <3>6, <3>7, <4>1, <4>2 DEF ForListener
      <4>4. Woken(w.blk, v.blk)  BY <2>5 DEF Woken
      <4> QED  BY <1>5, <2>7, <4>3, <4>4, GoodAccept
    <3>10. \A g \in DOMAIN sock : sock[g].st = "closed" => t[g].st = "closed"
      <4>1. \A g \in DOMAIN sock : sock[g].st = "closed" => s[g].st = "closed"
        BY <2>2 DEF PollRun
      <4> QED  BY <1>4, <3>4, <3>6, <4>1
    <3> QED  BY <2>8, <3>2, <3>8, <3>9, <3>10 DEF t
  <2> QED  BY <2>3, <2>6, <2>9, <2>10, <2>11 DEF u
<1> QED  BY <1>6, <1>7, <1>8

(* A poll, from the first frame to the last. *)
LEMMA PollFacts ==
    ASSUME TypeInv, RunInv
    PROVE  PollInv(IfacePoll(ex, sock), Len(frames))
<1> DEFINE n == Len(frames)
           base == [ex |-> ex, sock |-> sock, blk |-> block_cids, peer |-> peer]
<1>0. n \in Nat  BY LenProperties DEF TypeInv
<1>1. PICK t : PollTurns(t)  BY <1>0, IfacePollTurns
<1>2. /\ t[0] = base
      /\ \A i \in 0 .. n - 1 : t[i + 1] = Ingress(t[i], frames[i + 1])
      /\ IfacePoll(ex, sock) = t[n]
  BY <1>1 DEF PollTurns
<1>3. PollInv(base, 0)
  <2>1. base.ex = ex /\ base.sock = sock /\ base.blk = block_cids /\ base.peer = peer
        /\ base = [ex |-> base.ex, sock |-> base.sock, blk |-> base.blk, peer |-> base.peer]
    OBVIOUS
  <2> HIDE DEF base
  <2>2. PollType(base)  BY <2>1 DEF PollType, TypeInv, Frame
  <2>3. PollRun(base, 0)  BY <2>1 DEF PollRun, RunInv
  <2>4. ~base.ex.panic  BY <2>1 DEF RunInv, Shape
  <2> QED  BY <2>2, <2>3, <2>4 DEF PollInv
<1>4. CoInv /\ CallInv /\ QueueInv  BY DEF RunInv
<1> DEFINE S == {i \in 0 .. n : PollInv(t[i], i)}
<1> HIDE DEF n, base
<1>5. 0 \in S  BY <1>0, <1>2, <1>3
<1>6. ASSUME NEW i \in 0 .. n - 1, i \in S  PROVE i + 1 \in S
  <2>1. PollInv(t[i], i)  BY <1>6
  <2>2. i \in 0 .. Len(frames) - 1  BY DEF n
  <2>3. PollInv(Ingress(t[i], frames[i + 1]), i + 1)  BY <1>4, <2>1, <2>2, IngressStep
  <2>4. t[i + 1] = Ingress(t[i], frames[i + 1])  BY <1>2
  <2>5. i + 1 \in 0 .. n  BY <1>0
  <2> QED  BY <2>3, <2>4, <2>5
<1> HIDE DEF S
<1>7. \A i \in 0 .. n - 1 : i \in S => i + 1 \in S  BY <1>6
<1>8. \A i \in 0 .. n : i \in S  BY ONLY <1>0, <1>5, <1>7, UpTo
<1>9. n \in S  BY <1>0, <1>8
<1> QED  BY <1>2, <1>9 DEF S, n

-----------------------------------------------------------------------------
(* Steps.  First what a step keeps of the parts it does not touch. *)

(* The coroutines of the Listens, their queue and the listen table. *)
AcceptPart ==
    /\ \A d \in TaskIds \ {Poller, Receiver} : co'[d] = co[d] /\ (Run(d)' <=> Run(d))
    /\ ex'.ready[2] = ex.ready[2] /\ ex'.tasks = ex.tasks
    /\ UNCHANGED <<immediate, syn_queue>>

LEMMA AcceptsSame ==
    ASSUME \A d \in TaskIds \ {Poller, Receiver} : co'[d] = co[d]
    PROVE  Accepts' = Accepts /\ Listeners' = Listeners
<1>1. Accepts' = Accepts  BY DEF Accepts, Poller, Receiver
<1> QED  BY <1>1 DEF Listeners, Accepts

LEMMA SchedKept ==
    ASSUME AcceptPart, block_cids' = block_cids, SchedInv(ex, block_cids),
           OrderInv(ex, block_cids)
    PROVE  SchedInv(ex, block_cids)' /\ OrderInv(ex, block_cids)'
<1>1. Accepts' = Accepts /\ Listeners' = Listeners  BY AcceptsSame DEF AcceptPart
<1>2. \A d \in Accepts : d \in TaskIds \ {Poller, Receiver}  BY DEF Accepts
<1>3. \A d \in Accepts : co'[d] = co[d] /\ (Run(d)' <=> Run(d))  BY <1>2 DEF AcceptPart
<1>4. Queued(ex, 2)' = Queued(ex, 2)  BY DEF Queued, AcceptPart
<1>5. SchedInv(ex, block_cids)'
  BY <1>1, <1>3, <1>4 DEF SchedInv, AcceptPart
<1>6. \A d \in Listeners : d \in Accepts  BY DEF Listeners
<1>7. \A d, e \in Accepts : Before(d, e)' <=> Before(d, e)  BY <1>3 DEF Before
<1>8. \A k \in DOMAIN block_cids : block_cids[k] \in Accepts  BY DEF OrderInv
<1>9. Range(block_cids) \subseteq Accepts  BY <1>8 DEF Range
<1>10. OrderInv(ex, block_cids)'
  BY <1>1, <1>3, <1>6, <1>7, <1>8, <1>9 DEF OrderInv, AcceptPart
<1> QED  BY <1>5, <1>10

LEMMA QueueKept ==
    ASSUME AcceptPart, QueueInv
    PROVE  QueueInv'
<1>1. Accepts' = Accepts /\ Listeners' = Listeners  BY AcceptsSame DEF AcceptPart
<1>3. \A d \in Accepts : co'[d] = co[d]  BY DEF AcceptPart, Accepts
<1>4. \A d \in Listeners : co'[d] = co[d]  BY <1>3 DEF Listeners
<1>5. {co[d].handler : d \in Listeners}' = {co[d].handler : d \in Listeners}  BY <1>1, <1>4
<1> QED  BY <1>1, <1>3, <1>5 DEF QueueInv, AcceptPart

(* The calls: rings, coroutines with a request, clients. *)
LEMMA CallKept ==
    ASSUME \A d \in TaskIds \ {Poller, Receiver} : co'[d] = co[d],
           UNCHANGED <<immediate, req_items, res_items, cl>>
    PROVE  /\ CallInv => CallInv'
           /\ \A c : Places(c)' = Places(c)
<1>1. Accepts' = Accepts  BY AcceptsSame
<1>2. \A d \in Accepts : co'[d] = co[d]  BY DEF Accepts
<1>3. CallInv => CallInv'  BY <1>1, <1>2 DEF CallInv, Message
<1>4. ASSUME NEW c  PROVE Held(c)' <=> Held(c)
  BY <1>1, <1>2 DEF Held, Holding
<1>5. ASSUME NEW c  PROVE Places(c)' = Places(c)
  BY <1>4 DEF Places, One, Count
<1> QED  BY <1>3, <1>5

(* The tokens follow the places; a connection stays cut. *)
LEMMA TokenKept ==
    ASSUME TokenInv(sock), \A c \in Clients : Places(c)' = Places(c),
           \A c \in Clients : (cl'[c].st = "waiting" <=> cl[c].st = "waiting")
                              /\ cl'[c].fd = cl[c].fd /\ cl'[c].op = cl[c].op,
           faults' = faults,
           \A c \in Clients : cl[c].fd # NoFd /\ sock[cl[c].fd].st = "closed" =>
                              sock'[cl[c].fd].st = "closed"
    PROVE  TokenInv(sock)'
BY DEF TokenInv

(* The handles. *)
LEMMA GivenKept ==
    ASSUME TypeInv, GivenIn(sock),
           \A d \in TaskIds \ {Poller, Receiver} :
              co[d].pc \in {"parked", "retry"} =>
                 /\ co'[d].handler = co[d].handler /\ co'[d].caller = co[d].caller
                 /\ co'[d].pc \in {"parked", "retry"},
           \A h \in DOMAIN sock : sock[h].st \in {"established", "closed"} =>
                 sock'[h].st \in {"established", "closed"},
           socket2cid' = socket2cid,
           \A c \in Clients : cl'[c].fd = cl[c].fd,
           \A r \in Range(res_items)' : r \in Range(res_items) \/ r.type # "ListenReply"
    PROVE  GivenIn(sock)'
<1>1. ASSUME NEW c, NEW h, Owns(sock, c, h)  PROVE Owns(sock, c, h)'
  <2>1. socket2cid[h] \in TaskIds \ {Poller, Receiver} /\ h \in DOMAIN sock
    <3>1. DOMAIN sock = 1 .. Len(sock)  BY LenProperties DEF TypeInv, SocketsOK
    <3> QED  BY <1>1, <3>1 DEF Owns, TypeInv
  <2> QED  BY <1>1, <2>1 DEF Owns
<1> QED  BY <1>1 DEF GivenIn

(* The sockets, the peers and the frames. *)
LEMMA StackKept ==
    ASSUME TypeInv, DOMAIN sock' = DOMAIN sock,
           \A h \in DOMAIN sock : sock'[h].st = sock[h].st /\ sock'[h].peer = sock[h].peer,
           UNCHANGED <<peer, frames, syn_queue, faults>>, StackInv(sock, peer, 0)
    PROVE  StackInv(sock, peer, 0)'
<1>1. DOMAIN sock = 1 .. Len(sock)  BY LenProperties DEF TypeInv, SocketsOK
<1>2. Range(syn_queue) \subseteq DOMAIN sock  BY <1>1 DEF TypeInv, Range
<1>3. \A p \in Peers : (\E h \in DOMAIN sock' : sock'[h].peer = {p})
                         <=> \E h \in DOMAIN sock : sock[h].peer = {p}
  OBVIOUS
<1>4. \A p \in Peers : peer'[p].st \in Connected <=> \E h \in DOMAIN sock' : sock'[h].peer = {p}
  BY <1>3 DEF StackInv
<1>5. \A h, g \in DOMAIN sock' : sock'[h].peer = sock'[g].peer /\ sock'[h].peer # {} => h = g
  BY DEF StackInv
<1>6. \A h \in DOMAIN sock' : sock'[h].st = "listen" => h \in Range(syn_queue)'
  BY DEF StackInv
<1>7. \A h \in DOMAIN sock', p \in Peers : sock'[h].st = "closed" /\ sock'[h].peer = {p} =>
          /\ peer'[p].st = "reset"
          /\ \A k \in DOMAIN frames' : k > 0 /\ frames'[k].type = "ACK" => frames'[k].peer # p
  BY DEF StackInv
<1>8. \A k \in DOMAIN frames' : k > 0 /\ frames'[k].type = "RST" =>
          /\ peer'[frames'[k].peer].st = "reset"
          /\ "early_reset" \notin faults' =>
                \A h \in Range(syn_queue)' : sock'[h].peer # {frames'[k].peer}
          /\ \A j \in DOMAIN frames' :
                j > k /\ frames'[j].type = "ACK" => frames'[j].peer # frames'[k].peer
  BY <1>2 DEF StackInv
<1> QED  BY <1>4, <1>5, <1>6, <1>7, <1>8 DEF StackInv, Connected

LEMMA GoodKept ==
    ASSUME TypeInv, QueueInv, DOMAIN sock' = DOMAIN sock,
           \A h \in DOMAIN sock : sock'[h].st = sock[h].st,
           Listeners' = Listeners, \A d \in Listeners : co'[d] = co[d],
           UNCHANGED <<peer, frames, syn_queue, faults, block_cids>>,
           GoodInv(sock, peer, block_cids, 0)
    PROVE  GoodInv(sock, peer, block_cids, 0)'
<1>1. DOMAIN sock = 1 .. Len(sock)  BY LenProperties DEF TypeInv, SocketsOK
<1>2. Range(syn_queue) \subseteq DOMAIN sock  BY <1>1 DEF TypeInv, Range
<1>3. \A d \in Listeners : co[d].handler \in DOMAIN sock  BY <1>2 DEF QueueInv
<1>4. Prompt' <=> Prompt  BY DEF Prompt
<1> QED  BY <1>2, <1>3, <1>4 DEF GoodInv

(* With unchanged variables. *)
LEMMA StackSame ==
    ASSUME TypeInv, QueueInv, StackInv(sock, peer, 0), GoodInv(sock, peer, block_cids, 0),
           UNCHANGED <<sock, peer, frames, syn_queue, faults, block_cids>>,
           \A d \in TaskIds \ {Poller, Receiver} : co'[d] = co[d]
    PROVE  StackInv(sock, peer, 0)' /\ GoodInv(sock, peer, block_cids, 0)'
<1>1. Listeners' = Listeners  BY AcceptsSame
<1>2. \A d \in Listeners : co'[d] = co[d]  BY DEF Listeners, Accepts
<1>3. StackInv(sock, peer, 0)'  BY StackKept
<1>4. GoodInv(sock, peer, block_cids, 0)'  BY <1>1, <1>2, GoodKept
<1> QED  BY <1>3, <1>4

LEMMA NetParts ==
    ASSUME NetInv
    PROVE  /\ TypeInv /\ GivenIn(sock)
           /\ ~ex.panic => /\ RunInv /\ Shape(ex) /\ CoInv /\ SchedInv(ex, block_cids)
                           /\ OrderInv(ex, block_cids) /\ QueueInv
                           /\ CallInv /\ TokenInv(sock) /\ WakesInv(ex)
                           /\ StackInv(sock, peer, 0) /\ GoodInv(sock, peer, block_cids, 0)
                           /\ StrandInv
BY DEF NetInv, RunInv

LEMMA NetParts2 ==
    ASSUME TypeInv', GivenIn(sock)', faults' = faults,
           ~ex'.panic => /\ Shape(ex') /\ CoInv' /\ SchedInv(ex, block_cids)'
                           /\ OrderInv(ex, block_cids)' /\ QueueInv'
                           /\ CallInv' /\ TokenInv(sock)' /\ WakesInv(ex)'
                           /\ StackInv(sock, peer, 0)' /\ GoodInv(sock, peer, block_cids, 0)'
                           /\ StrandInv',
           Sizes => ~ex'.panic \/ (AcceptFailed' /\ ~Prompt)
    PROVE  NetInv'
<1>1. Prompt' <=> Prompt  BY DEF Prompt
<1>2. Shape(ex)' <=> Shape(ex')  BY DEF Shape
<1>3. Sizes' <=> Sizes  BY DEF Sizes
<1> QED  BY <1>1, <1>2, <1>3 DEF NetInv, RunInv

(* The network thread stays where it has panicked. *)
LEMMA PanicKept ==
    ASSUME NetInv, ex.panic, ex'.current = ex.current,
           UNCHANGED <<running, co, syn_queue, sock>>
    PROVE  Sizes => AcceptFailed' /\ ~Prompt
BY DEF NetInv, AcceptFailed

(* The first of the ready queue runs. *)
LEMMA FetchAccept ==
    ASSUME SchedInv(ex, block_cids), OrderInv(ex, block_cids), Shape(ex),
           ~running, running', ex'.current \notin {Poller, Receiver},
           ex.ready[2] # <<>>, ex'.current = Head(ex.ready[2]),
           ex'.ready[2] = Tail(ex.ready[2]),
           UNCHANGED <<co, immediate, block_cids>>
    PROVE  SchedInv(ex, block_cids)' /\ OrderInv(ex, block_cids)'
<1> DEFINE c == Head(ex.ready[2])
           s == ex.ready[2]
           t == Tail(ex.ready[2])
<1>1. s \in Seq(TaskIds) /\ \A i, j \in DOMAIN s : s[i] = s[j] => i = j
  BY ShapeQueues, NetSized DEF Shape
<1>2. /\ c = s[1] /\ c \in TaskIds /\ t \in Seq(TaskIds) /\ Len(s) \in Nat \ {0}
      /\ DOMAIN s = 1 .. Len(s) /\ DOMAIN t = 1 .. Len(s) - 1
      /\ \A k \in 1 .. Len(s) - 1 : t[k] = s[k + 1]
  BY <1>1, TailFacts
<1>3. Queued(ex, 2) = Queued(ex', 2) \cup {c} /\ c \in Queued(ex, 2)
  BY <1>1, QueuedTail
<1>e. ex'.current = c /\ ex'.ready[2] = t  OBVIOUS
<1> HIDE DEF c, t
<1>4. c \notin Queued(ex', 2)
  <2> SUFFICES ASSUME NEW k \in DOMAIN t, t[k] = c  PROVE FALSE
    BY <1>e DEF Queued
  <2>1. k + 1 \in DOMAIN s /\ 1 \in DOMAIN s /\ s[k + 1] = s[1] /\ k + 1 # 1  BY <1>2
  <2> QED  BY <1>1, <2>1
<1>5. Accepts' = Accepts /\ Listeners' = Listeners  BY DEF Accepts, Listeners
<1>6. \A d : ~Run(d) /\ (Run(d)' <=> d = c)  BY <1>e DEF Run
<1>7. SchedInv(ex, block_cids)'
  <2>1. Queued(ex, 2)' = Queued(ex', 2)  BY DEF Queued
  <2> SUFFICES ASSUME NEW d \in Accepts
               PROVE  /\ d \in Queued(ex', 2) => ~Run(d)'
                      /\ d \in Range(block_cids) <=>
                            d \in Listeners /\ d \notin Queued(ex', 2) /\ ~Run(d)'
                      /\ co[d].pc = "parked" /\ (d \in Queued(ex', 2) \/ Run(d)') =>
                            immediate[d] # NoItem
    BY <1>5, <2>1 DEF SchedInv
  <2>2. CASE d = c  BY <1>3, <1>4, <1>6, <2>2 DEF SchedInv
  <2>3. CASE d # c  BY <1>3, <1>6, <2>3 DEF SchedInv
  <2> QED  BY <2>2, <2>3
<1>8. \A d, e : Before(d, e)' <=> Before(d, e)  BY DEF Before
<1>9. \A i, j \in DOMAIN t : i < j /\ t[i] \in Listeners /\ t[j] \in Listeners =>
                                Before(t[i], t[j])
  <2> SUFFICES ASSUME NEW i \in DOMAIN t, NEW j \in DOMAIN t, i < j,
                      t[i] \in Listeners, t[j] \in Listeners
               PROVE  Before(t[i], t[j])
    OBVIOUS
  <2>1. i + 1 \in DOMAIN s /\ j + 1 \in DOMAIN s /\ i + 1 < j + 1
        /\ t[i] = s[i + 1] /\ t[j] = s[j + 1]
    BY <1>2
  <2> QED  BY <2>1 DEF OrderInv
<1>10. ASSUME NEW e \in Listeners, c \in Listeners, e # c  PROVE Before(c, e)
  <2>1. CASE e \in Queued(ex, 2)
    <3>1. PICK k \in DOMAIN s : e = s[k]  BY <2>1 DEF Queued
    <3>2. 1 \in DOMAIN s /\ 1 < k  BY <1>2, <1>10, <3>1
    <3> QED  BY <1>2, <1>10, <3>1, <3>2 DEF OrderInv
  <2>2. CASE e \notin Queued(ex, 2)
    <3>1. e \in Range(block_cids)  BY <1>6, <1>10, <2>2 DEF SchedInv, Listeners
    <3>2. c \notin Range(block_cids)  BY <1>3, <1>10 DEF SchedInv, Listeners
    <3> QED  BY <1>10, <3>1, <3>2 DEF OrderInv
  <2> QED  BY <2>1, <2>2
<1>11. OrderInv(ex, block_cids)'
  <2>1. \A i, j \in DOMAIN ex'.ready[2] :
           i < j /\ ex'.ready[2][i] \in Listeners /\ ex'.ready[2][j] \in Listeners =>
               Before(ex'.ready[2][i], ex'.ready[2][j])
    BY <1>9, <1>e
  <2>2. \A d, e \in Listeners : Run(d)' /\ e # d => Before(d, e)  BY <1>6, <1>10
  <2>3. /\ \A k \in DOMAIN block_cids : block_cids[k] \in Accepts
        /\ \A i, j \in DOMAIN block_cids : i < j => Before(block_cids[i], block_cids[j])
        /\ \A d \in Listeners, e \in Range(block_cids) :
              d \notin Range(block_cids) => Before(d, e)
    BY DEF OrderInv
  <2> QED  BY <1>5, <1>8, <2>1, <2>2, <2>3 DEF OrderInv
<1> QED  BY <1>7, <1>11

(* What the network thread's bookkeeping has when nobody panicked. *)
LEMMA WakesFacts ==
    ASSUME TypeInv, NEW x, Shape(x)
    PROVE  /\ Count(req_items, {NetPollReq}) \in Nat
           /\ Len(x.ready[0]) \in Nat /\ Len(x.ready[1]) \in Nat
           /\ One(masked) \in {0, 1} /\ One(recv_req_status) \in {0, 1}
           /\ One(Run(Poller)) \in {0, 1} /\ One(Run(Receiver)) \in {0, 1}
           /\ One(Receiver \in x.delay) \in {0, 1}
<1>1. req_items \in Seq(Requests \cup {NetPollReq})  BY DEF TypeInv
<1>2. Count(req_items, {NetPollReq}) \in Nat  BY <1>1, CountType
<1> QED  BY <1>2, OneType, ShapeQueues, NetSized

LEMMA FetchNextStep ==
    ASSUME NetInv, FetchNext, faults' = faults
    PROVE  NetInv'
<1> DEFINE f == Fetch(ex)
           y == ActualWake(ex)
<1>1. /\ ~running /\ ~ex.panic /\ ex' = f.ex /\ running' = (f.got # NoCid)
      /\ UNCHANGED <<co, immediate, cnt, req_items, res_items, recv_req_status,
                     recv_reply_status, sock, syn_queue, block_cids, socket2cid,
                     frames, rx_cmplt, masked, late, peer, cl, reply>>
  BY DEF FetchNext, ring, stack, device, client
<1>2. /\ TypeInv /\ GivenIn(sock) /\ RunInv /\ Shape(ex) /\ CoInv /\ SchedInv(ex, block_cids)
      /\ OrderInv(ex, block_cids) /\ QueueInv
      /\ CallInv /\ TokenInv(sock) /\ WakesInv(ex)
      /\ StackInv(sock, peer, 0) /\ GoodInv(sock, peer, block_cids, 0) /\ StrandInv
  BY <1>1, NetParts
<1>3. /\ ExecutorType(f.ex) /\ f.ex.delay = {} /\ f.ex.panic = y.panic
  BY <1>2, FetchFacts DEF Shape
<1>4. TypeInv'
  <2>1. running' \in BOOLEAN  BY <1>1
  <2> HIDE DEF f
  <2> QED  BY <1>1, <1>2, <1>3, <2>1 DEF TypeInv
<1>5. GivenIn(sock)'  BY <1>1, <1>2 DEF GivenIn, Owns
<1>w. /\ Count(req_items, {NetPollReq}) \in Nat
      /\ Len(ex.ready[0]) \in Nat /\ Len(ex.ready[1]) \in Nat
      /\ One(masked) \in {0, 1} /\ One(recv_req_status) \in {0, 1}
      /\ One(Run(Poller)) = 0 /\ One(Run(Receiver)) = 0
      /\ One(Receiver \in ex.delay) \in {0, 1}
  BY <1>1, <1>2, WakesFacts DEF Run, One
<1>l. /\ Count(req_items, {NetPollReq}) + Len(ex.ready[0]) <= 1 + One(masked)
      /\ Len(ex.ready[1]) + One(Receiver \in ex.delay) <= 1 + One(recv_req_status)
      /\ One(recv_req_status) <= Len(ex.ready[1]) + One(Receiver \in ex.delay)
  BY <1>2, <1>w DEF WakesInv
<1>6. Sizes => ~ex'.panic
  <2>1. ASSUME Sizes, Receiver \in ex.delay  PROVE Len(ex.ready[1]) < MaxTask - 1
    <3>1. One(Receiver \in ex.delay) = 1  BY <2>1 DEF One
    <3>2. MaxTask > 2 /\ MaxTask \in Nat  BY <2>1, NetSized DEF Sizes
    <3> QED  BY <1>w, <1>l, <3>1, <3>2
  <2>2. (Receiver \in ex.delay => Len(ex.ready[1]) < MaxTask - 1) => ~y.panic
    BY <1>2, ShapeActualWake
  <2> QED  BY <1>1, <1>3, <2>1, <2>2
<1>7. ASSUME ~ex'.panic
      PROVE  /\ Shape(ex') /\ CoInv' /\ SchedInv(ex, block_cids)'
             /\ OrderInv(ex, block_cids)' /\ QueueInv'
             /\ CallInv' /\ TokenInv(sock)' /\ WakesInv(ex)'
             /\ StackInv(sock, peer, 0)' /\ GoodInv(sock, peer, block_cids, 0)'
             /\ StrandInv'
  <2>1. ~f.ex.panic /\ ~y.panic  BY <1>1, <1>3, <1>7
  <2>2. /\ Shape(y) /\ Shape(f.ex) /\ Fetched(y, f)
        /\ f.ex.tasks = ex.tasks /\ f.ex.delay = {}
    BY <1>2, <2>1, ShapeFetch
  <2>3. /\ Frame(ex, y) /\ \A q \in Prios \ {1} : y.ready[q] = ex.ready[q]
        /\ Len(y.ready[1]) = Len(ex.ready[1]) + One(Receiver \in ex.delay)
    BY <1>2, <2>1, ShapeActualWake
  <2>4. y.ready[0] = ex.ready[0] /\ y.ready[2] = ex.ready[2]  BY <2>3, NetSized
  <2> DEFINE c == f.got
             p == y.tasks[c]
  <2> HIDE DEF f, y
  <2>5. \/ c = NoCid /\ ex' = y
        \/ /\ c \in Live(y) /\ y.ready[p] # <<>> /\ c = Head(y.ready[p])
           /\ ex'.ready[p] = Tail(y.ready[p])
           /\ \A q \in Prios \ {p} : ex'.ready[q] = y.ready[q]
           /\ ex'.current = c
    BY <1>1, <2>2 DEF Fetched
  <2>6. Live(ex') = Live(ex) /\ Live(y) = Live(ex)
    BY <1>1, <2>2, <2>3 DEF Live, Frame
  <2>7. \A q \in Prios : Len(y.ready[q]) \in Nat /\ y.ready[q] \in Seq(TaskIds)
    BY <2>2, ShapeQueues
  <2>n. NoCid \notin TaskIds /\ \A d \in Live(y) : d \in TaskIds  BY Constants DEF Live
  <2>m. Poller # NoCid /\ Receiver # NoCid /\ Poller # Receiver  BY NetSized DEF NoCid
  <2>8. CoInv'
    <3>1. running' => ex'.current \in Live(ex')  BY <1>1, <2>5, <2>6
    <3>2. co[Poller].pc = "poll" /\ co[Receiver].pc = "none"  BY <1>1, <1>2 DEF CoInv, Run
    <3>3. Live(ex)' = Live(ex')  BY DEF Live
    <3> QED  BY <1>1, <1>2, <2>6, <3>1, <3>2, <3>3 DEF CoInv, Accepts
  <2>9. CallInv' /\ \A a \in Clients : Places(a)' = Places(a)
    BY <1>1, <1>2, CallKept
  <2>10. TokenInv(sock)'  BY <1>1, <1>2, <2>9, TokenKept
  <2>11. StackInv(sock, peer, 0)' /\ GoodInv(sock, peer, block_cids, 0)'
    BY <1>1, <1>2, StackSame
  <2>12. QueueInv'
    BY <1>1, <1>2 DEF QueueInv, Accepts, Listeners
  <2>13. y.tasks[Poller] = 0 /\ y.tasks[Receiver] = 1
         /\ \A d \in Live(y) \ {Poller, Receiver} : y.tasks[d] = 2
    BY <2>2, ShapeQueues
  <2>14. SchedInv(ex, block_cids)' /\ OrderInv(ex, block_cids)'
    <3>1. CASE c = NoCid \/ c \in {Poller, Receiver}
      <4>1. ex'.ready[2] = ex.ready[2]
        BY <2>4, <2>5, <2>13, <2>n, <3>1, NetSized, Constants
      <4>2. \A d \in TaskIds \ {Poller, Receiver} : Run(d)' <=> Run(d)
        BY <1>1, <2>5, <2>n, <3>1 DEF Run
      <4>3. AcceptPart  BY <1>1, <2>2, <4>1, <4>2 DEF AcceptPart
      <4> QED  BY <1>1, <1>2, <4>3, SchedKept
    <3>2. CASE c # NoCid /\ c \notin {Poller, Receiver}
      <4>1. p = 2 /\ ex'.current = c /\ c = Head(y.ready[p]) /\ y.ready[p] # <<>>
            /\ ex'.ready[p] = Tail(y.ready[p]) /\ running'
        BY <1>1, <2>5, <2>13, <3>2
      <4>2. /\ ex'.current \notin {Poller, Receiver} /\ ex.ready[2] # <<>>
            /\ ex'.current = Head(ex.ready[2]) /\ ex'.ready[2] = Tail(ex.ready[2])
        BY <2>4, <3>2, <4>1
      <4> QED  BY <1>1, <1>2, <4>1, <4>2, FetchAccept
    <3> QED  BY <3>1, <3>2
  <2>15. /\ Len(ex'.ready[0]) + One(Run(Poller)') = Len(ex.ready[0])
         /\ Len(ex'.ready[1]) + One(Run(Receiver)') = Len(y.ready[1])
    <3>0. Len(y.ready[0]) \in Nat /\ Len(y.ready[1]) \in Nat /\ y.ready[0] \in Seq(TaskIds)
          /\ y.ready[1] \in Seq(TaskIds)
      BY <2>7, NetSized
    <3>1. CASE c = NoCid
      <4>1. ~Run(Poller)' /\ ~Run(Receiver)' /\ ex' = y  BY <1>1, <2>5, <2>n, <3>1 DEF Run
      <4> QED  BY <2>4, <3>0, <4>1 DEF One
    <3>2. CASE c = Poller
      <4>1. p = 0 /\ Run(Poller)' /\ ~Run(Receiver)'
        BY <1>1, <2>5, <2>13, <2>m, <3>2 DEF Run
      <4>2. y.ready[0] # <<>> /\ ex'.ready[0] = Tail(y.ready[0]) /\ ex'.ready[1] = y.ready[1]
        BY <2>5, <2>n, <3>2, <4>1, NetSized
      <4>3. Len(ex'.ready[0]) = Len(y.ready[0]) - 1  BY <3>0, <4>2, TailFacts
      <4> QED  BY <2>4, <3>0, <4>1, <4>2, <4>3 DEF One
    <3>3. CASE c = Receiver
      <4>1. p = 1 /\ Run(Receiver)' /\ ~Run(Poller)'
        BY <1>1, <2>5, <2>13, <2>m, <3>3 DEF Run
      <4>2. y.ready[1] # <<>> /\ ex'.ready[1] = Tail(y.ready[1]) /\ ex'.ready[0] = y.ready[0]
        BY <2>5, <2>m, <3>3, <4>1, NetSized
      <4>3. Len(ex'.ready[1]) = Len(y.ready[1]) - 1  BY <3>0, <4>2, TailFacts
      <4> QED  BY <2>4, <3>0, <4>1, <4>2, <4>3 DEF One
    <3>4. CASE c # NoCid /\ c \notin {Poller, Receiver}
      <4>1. p = 2 /\ ~Run(Receiver)' /\ ~Run(Poller)'
        BY <1>1, <2>5, <2>13, <3>4 DEF Run
      <4>2. ex'.ready[1] = y.ready[1] /\ ex'.ready[0] = y.ready[0]
        BY <2>5, <3>4, <4>1, NetSized
      <4> QED  BY <2>4, <3>0, <4>1, <4>2 DEF One
    <3> QED  BY <3>1, <3>2, <3>3, <3>4
  <2>16. WakesInv(ex)'
    <3>1. One(Receiver \in ex'.delay) = 0  BY <1>1, <2>2 DEF One
    <3>2. Len(ex'.ready[0]) \in Nat /\ Len(ex'.ready[1]) \in Nat
      <4>1. Shape(ex')  BY <1>1, <2>2
      <4> QED  BY <4>1, ShapeQueues, NetSized
    <3>3. One(Run(Poller)') \in {0, 1} /\ One(Run(Receiver)') \in {0, 1}  BY OneType
    <3>4. Count(req_items, {NetPollReq})' = Count(req_items, {NetPollReq})  BY <1>1 DEF Count, NetPollReq
    <3>5. Count(req_items, {NetPollReq}) + Len(ex'.ready[0]) + One(Run(Poller)')
             <= 1 + One(masked)
      BY <1>w, <1>l, <2>15, <3>2, <3>3
    <3>6. Len(ex'.ready[1]) + One(Receiver \in ex'.delay) + One(Run(Receiver)')
             <= 1 + One(recv_req_status)
      BY <1>w, <1>l, <2>3, <2>15, <3>1, <3>2, <3>3
    <3>7. One(recv_req_status)
             <= Len(ex'.ready[1]) + One(Receiver \in ex'.delay) + One(Run(Receiver)')
      BY <1>w, <1>l, <2>3, <2>15, <3>1, <3>2, <3>3
    <3> QED  BY <1>1, <3>4, <3>5, <3>6, <3>7 DEF WakesInv, One, Run
  <2>17. StrandInv'
    <3>1. ASSUME Poller \in Queued(ex, 0)  PROVE Poller \in Queued(ex, 0)' \/ Run(Poller)'
      <4>1. CASE c = Poller  BY <1>1, <2>5, <2>n, <4>1, NetSized, Constants DEF Run
      <4>2. CASE c # Poller
        <5>1. ex'.ready[0] = ex.ready[0]
          BY <2>4, <2>5, <2>13, <4>2, NetSized
        <5> QED  BY <3>1, <5>1 DEF Queued
      <4> QED  BY <4>1, <4>2
    <3>2. ~Run(Poller)  BY <1>1 DEF Run
    <3> QED  BY <1>1, <1>2, <3>1, <3>2 DEF StrandInv, NetPollReq
  <2> QED  BY <1>1, <2>2, <2>8, <2>9, <2>10, <2>11, <2>12, <2>14, <2>16, <2>17
<1> QED  BY <1>4, <1>5, <1>6, <1>7, NetParts2

(* The network thread stands still. *)
LEMMA ThreadKept ==
    ASSUME UNCHANGED <<running, co, immediate, syn_queue, block_cids>>,
           ex'.ready = ex.ready, ex'.tasks = ex.tasks, ex'.current = ex.current,
           CoInv, SchedInv(ex, block_cids), OrderInv(ex, block_cids), QueueInv
    PROVE  /\ CoInv' /\ SchedInv(ex, block_cids)' /\ OrderInv(ex, block_cids)' /\ QueueInv'
           /\ \A d : Run(d)' <=> Run(d)
<1>1. \A d : Run(d)' <=> Run(d)  BY DEF Run
<1>2. AcceptPart  BY <1>1 DEF AcceptPart
<1>3. Live(ex)' = Live(ex) /\ Accepts' = Accepts  BY DEF Live, Accepts
<1>4. CoInv'  BY <1>1, <1>3 DEF CoInv
<1> QED  BY <1>1, <1>2, <1>4, SchedKept, QueueKept

LEMMA ArriveStep ==
    ASSUME NetInv, NEW f \in Received, Arrive(f), peer' \in [Peers -> Hosts],
           ~ex.panic => StackInv(sock, peer, 0)' /\ GoodInv(sock, peer, block_cids, 0)'
    PROVE  NetInv'
<1>1. /\ frames' = Append(frames, f) /\ rx_cmplt' = TRUE /\ late' = InWindow
      /\ UNCHANGED <<ex, running, co, immediate, cnt, req_items, res_items, recv_req_status,
                     recv_reply_status, sock, syn_queue, block_cids, socket2cid,
                     masked, faults, cl, reply>>
  BY DEF Arrive, ring, stack, client
<1>2. TypeInv /\ GivenIn(sock)  BY NetParts
<1>3. TypeInv'
  <2>1. frames' \in Seq(Received)  BY <1>1, <1>2, AppendFacts DEF TypeInv
  <2>2. late' \in BOOLEAN  BY <1>1, <1>2 DEF InWindow, TypeInv
  <2> QED  BY <1>1, <1>2, <2>1, <2>2 DEF TypeInv
<1>4. GivenIn(sock)'  BY <1>1, <1>2 DEF GivenIn, Owns
<1>5. ASSUME ~ex.panic
      PROVE  /\ Shape(ex') /\ CoInv' /\ SchedInv(ex, block_cids)'
             /\ OrderInv(ex, block_cids)' /\ QueueInv'
             /\ CallInv' /\ TokenInv(sock)' /\ WakesInv(ex)' /\ StrandInv'
  <2>1. /\ Shape(ex) /\ CoInv /\ SchedInv(ex, block_cids)
        /\ OrderInv(ex, block_cids) /\ QueueInv
        /\ CallInv /\ TokenInv(sock) /\ WakesInv(ex) /\ StrandInv
    BY <1>5, NetParts
  <2>2. /\ CoInv' /\ SchedInv(ex, block_cids)' /\ OrderInv(ex, block_cids)' /\ QueueInv'
        /\ \A d : Run(d)' <=> Run(d)
    BY <1>1, <2>1, ThreadKept
  <2>3. CallInv' /\ \A a \in Clients : Places(a)' = Places(a)  BY <1>1, <2>1, CallKept
  <2>4. TokenInv(sock)'  BY <1>1, <2>1, <2>3, TokenKept
  <2>5. WakesInv(ex)'
    BY <1>1, <2>1 DEF WakesInv, One, Count, Run, NetPollReq
  <2>6. StrandInv'
    <3>1. co[Poller].pc = "ack" => InWindow  BY <2>1 DEF CoInv, Run, InWindow
    <3> QED  BY <1>1, <2>1, <2>2, <3>1 DEF StrandInv, Queued, NetPollReq
  <2> QED  BY <1>1, <2>1, <2>2, <2>3, <2>4, <2>5, <2>6
<1>6. Sizes => ~ex'.panic \/ (AcceptFailed' /\ ~Prompt)  BY <1>1, PanicKept
<1> QED  BY <1>1, <1>3, <1>4, <1>5, <1>6, NetParts2

(* A frame of peer p arrives, and p changes. *)
LEMMA StackArrive ==
    ASSUME TypeInv, StackInv(sock, peer, 0), NEW f \in Received, NEW p \in Peers, f.peer = p,
           frames' = Append(frames, f), UNCHANGED <<sock, syn_queue, faults>>,
           \A a \in Peers \ {p} : peer'[a] = peer[a],
           peer'[p].st \in Connected <=> peer[p].st \in Connected,
           peer[p].st = "reset" => peer'[p].st = "reset",
           f.type = "ACK" => peer[p].st # "reset",
           f.type = "RST" => /\ peer'[p].st = "reset"
                             /\ "early_reset" \notin faults =>
                                   \A h \in Range(syn_queue) : sock[h].peer # {p}
    PROVE  StackInv(sock, peer, 0)'
<1> DEFINE n == Len(frames)
           F == frames'
<1>1. /\ n \in Nat /\ DOMAIN frames = 1 .. n /\ DOMAIN F = 1 .. n + 1
      /\ \A k \in 1 .. n : F[k] = frames[k] /\ frames[k].peer \in Peers
      /\ F[n + 1] = f
  <2>1. frames \in Seq(Received)  BY DEF TypeInv
  <2>2. \A k \in DOMAIN frames : frames[k] \in Received  BY <2>1, LenProperties
  <2> QED  BY <2>1, <2>2, AppendFacts DEF Received
<1> HIDE DEF n, F
<1>2. \A k \in DOMAIN F : k = n + 1 \/ (k \in 1 .. n /\ k > 0)  BY <1>1
<1>3. \A a \in Peers : peer'[a].st \in Connected <=> \E h \in DOMAIN sock : sock[h].peer = {a}
  <2> SUFFICES ASSUME NEW a \in Peers
               PROVE  peer'[a].st \in Connected <=> \E h \in DOMAIN sock : sock[h].peer = {a}
    OBVIOUS
  <2>1. peer[a].st \in Connected <=> \E h \in DOMAIN sock : sock[h].peer = {a}
    BY DEF StackInv
  <2>2. peer'[a].st \in Connected <=> peer[a].st \in Connected  OBVIOUS
  <2> QED  BY <2>1, <2>2
<1>4. \A h \in DOMAIN sock, a \in Peers : sock[h].st = "closed" /\ sock[h].peer = {a} =>
          /\ peer'[a].st = "reset"
          /\ \A k \in DOMAIN F : k > 0 /\ F[k].type = "ACK" => F[k].peer # a
  <2> SUFFICES ASSUME NEW h \in DOMAIN sock, NEW a \in Peers, sock[h].st = "closed",
                      sock[h].peer = {a}
               PROVE  /\ peer'[a].st = "reset"
                      /\ \A k \in DOMAIN F : k > 0 /\ F[k].type = "ACK" => F[k].peer # a
    OBVIOUS
  <2>1. /\ peer[a].st = "reset"
        /\ \A k \in DOMAIN frames : k > 0 /\ frames[k].type = "ACK" => frames[k].peer # a
    BY DEF StackInv
  <2>2. peer'[a].st = "reset"  BY <2>1
  <2>3. f.type = "ACK" => f.peer # a  BY <2>1
  <2> QED  BY <1>1, <1>2, <2>1, <2>2, <2>3
<1>5. \A k \in DOMAIN F : k > 0 /\ F[k].type = "RST" =>
          /\ peer'[F[k].peer].st = "reset"
          /\ "early_reset" \notin faults => \A h \in Range(syn_queue) : sock[h].peer # {F[k].peer}
          /\ \A j \in DOMAIN F : j > k /\ F[j].type = "ACK" => F[j].peer # F[k].peer
  <2> SUFFICES ASSUME NEW k \in DOMAIN F, k > 0, F[k].type = "RST"
               PROVE  /\ peer'[F[k].peer].st = "reset"
                      /\ "early_reset" \notin faults => \A h \in Range(syn_queue) : sock[h].peer # {F[k].peer}
                      /\ \A j \in DOMAIN F : j > k /\ F[j].type = "ACK" => F[j].peer # F[k].peer
    OBVIOUS
  <2>1. CASE k = n + 1
    <3>1. \A j \in DOMAIN F : ~(j > k)  BY <1>1, <2>1
    <3> QED  BY <1>1, <2>1, <3>1
  <2>2. CASE k \in 1 .. n
    <3>1. /\ peer[frames[k].peer].st = "reset"
          /\ "early_reset" \notin faults =>
                \A h \in Range(syn_queue) : sock[h].peer # {frames[k].peer}
          /\ \A j \in DOMAIN frames :
                j > k /\ frames[j].type = "ACK" => frames[j].peer # frames[k].peer
      BY <1>1, <2>2 DEF StackInv
    <3>2. peer'[F[k].peer].st = "reset"  BY <1>1, <2>2, <3>1
    <3>3. f.type = "ACK" => f.peer # frames[k].peer  BY <3>1
    <3>4. ASSUME NEW j \in DOMAIN F, j > k, F[j].type = "ACK"  PROVE F[j].peer # F[k].peer
      <4>1. CASE j = n + 1  BY <1>1, <2>2, <3>3, <3>4, <4>1
      <4>2. CASE j # n + 1
        <5>1. j \in 1 .. n  BY <1>2, <4>2
        <5> QED  BY <1>1, <2>2, <3>1, <3>4, <5>1
      <4> QED  BY <4>1, <4>2
    <3> QED  BY <1>1, <2>2, <3>1, <3>2, <3>4
  <2> QED  BY <1>2, <2>1, <2>2
<1>6. /\ \A h, g \in DOMAIN sock : sock[h].peer = sock[g].peer /\ sock[h].peer # {} => h = g
      /\ \A h \in DOMAIN sock : sock[h].st = "listen" => h \in Range(syn_queue)
  BY DEF StackInv
<1>7. sock' = sock /\ faults' = faults /\ Range(syn_queue)' = Range(syn_queue)  OBVIOUS
<1> QED  BY ONLY <1>3, <1>4, <1>5, <1>6, <1>7 DEF StackInv, F, Connected

LEMMA GoodArrive ==
    ASSUME TypeInv, GoodInv(sock, peer, block_cids, 0),
           NEW f \in Received, NEW p \in Peers, f.peer = p,
           frames' = Append(frames, f), UNCHANGED <<sock, syn_queue, co, block_cids, faults>>,
           \A a \in Peers \ {p} : peer'[a] = peer[a],
           Prompt => peer[p].st # "syn_sent" /\ (f.type = "SYN" => peer'[p].st = "syn_sent")
    PROVE  GoodInv(sock, peer, block_cids, 0)'
<1> DEFINE n == Len(frames)
           F == frames'
<1>1. /\ n \in Nat /\ DOMAIN frames = 1 .. n /\ DOMAIN F = 1 .. n + 1
      /\ \A k \in 1 .. n : F[k] = frames[k] /\ frames[k].peer \in Peers
      /\ F[n + 1] = f
  <2>1. frames \in Seq(Received)  BY DEF TypeInv
  <2>2. \A k \in DOMAIN frames : frames[k] \in Received  BY <2>1, LenProperties
  <2> QED  BY <2>1, <2>2, AppendFacts DEF Received
<1> HIDE DEF n, F
<1>2. \A k \in DOMAIN F : k = n + 1 \/ (k \in 1 .. n /\ k > 0)  BY <1>1
<1>3. (Prompt' <=> Prompt) /\ Listeners' = Listeners  BY DEF Prompt, Listeners, Accepts
<1>4. ASSUME Prompt, NEW k \in DOMAIN F, k > 0, F[k].type = "SYN"
      PROVE  /\ peer'[F[k].peer].st = "syn_sent"
             /\ \A j \in DOMAIN F : j > k /\ F[j].type = "SYN" => F[j].peer # F[k].peer
  <2>1. CASE k = n + 1
    <3>1. \A j \in DOMAIN F : ~(j > k)  BY <1>1, <2>1
    <3> QED  BY <1>1, <1>4, <2>1, <3>1
  <2>2. CASE k \in 1 .. n
    <3>1. /\ peer[frames[k].peer].st = "syn_sent"
          /\ \A j \in DOMAIN frames :
                j > k /\ frames[j].type = "SYN" => frames[j].peer # frames[k].peer
      BY <1>1, <1>4, <2>2 DEF GoodInv
    <3>2. frames[k].peer # p  BY <1>4, <3>1
    <3>3. peer'[F[k].peer].st = "syn_sent"  BY <1>1, <2>2, <3>1, <3>2
    <3>4. ASSUME NEW j \in DOMAIN F, j > k, F[j].type = "SYN"  PROVE F[j].peer # F[k].peer
      <4>1. CASE j = n + 1  BY <1>1, <2>2, <3>2, <4>1
      <4>2. CASE j # n + 1
        <5>1. j \in 1 .. n  BY <1>2, <4>2
        <5> QED  BY <1>1, <2>2, <3>1, <3>4, <5>1
      <4> QED  BY <4>1, <4>2
    <3> QED  BY <3>3, <3>4
  <2> QED  BY <1>2, <2>1, <2>2
<1> QED  BY <1>3, <1>4 DEF GoodInv, F

(* What the steps of the peers have in common. *)
LEMMA PeerStep ==
    ASSUME NetInv, NEW p \in Peers, NEW f \in Received, f.peer = p, Arrive(f), NEW r \in Hosts,
           peer' = [peer EXCEPT ![p] = r],
           r.st \in Connected <=> peer[p].st \in Connected,
           peer[p].st # "reset",
           f.type = "RST" => r.st = "reset" /\ ("early_reset" \notin faults =>
                                SockOf(sock, p) \cap Range(syn_queue) = {}),
           Prompt => peer[p].st # "syn_sent" /\ (f.type = "SYN" => r.st = "syn_sent")
    PROVE  NetInv'
<1>1. TypeInv  BY NetParts
<1>2. peer \in [Peers -> Hosts]  BY <1>1 DEF TypeInv
<1>3. peer' \in [Peers -> Hosts] /\ peer'[p] = r /\ \A a \in Peers \ {p} : peer'[a] = peer[a]
  BY <1>2
<1>4. frames' = Append(frames, f) /\ UNCHANGED <<sock, syn_queue, block_cids, co, faults>>
  BY DEF Arrive, stack
<1>5. ASSUME ~ex.panic  PROVE StackInv(sock, peer, 0)' /\ GoodInv(sock, peer, block_cids, 0)'
  <2>1. StackInv(sock, peer, 0) /\ GoodInv(sock, peer, block_cids, 0)  BY <1>5, NetParts
  <2>2. f.type = "RST" /\ "early_reset" \notin faults =>
           \A h \in Range(syn_queue) : sock[h].peer # {p}
    <3>1. DOMAIN sock = 1 .. Len(sock)  BY <1>1, LenProperties DEF TypeInv, SocketsOK
    <3>2. Range(syn_queue) \subseteq DOMAIN sock  BY <1>1, <3>1 DEF TypeInv, Range
    <3> QED  BY <3>2 DEF SockOf
  <2>3. StackInv(sock, peer, 0)'  BY <1>1, <1>3, <1>4, <2>1, <2>2, StackArrive
  <2>4. GoodInv(sock, peer, block_cids, 0)'  BY <1>1, <1>3, <1>4, <2>1, GoodArrive
  <2> QED  BY <2>3, <2>4
<1> QED  BY <1>3, <1>5, ArriveStep

LEMMA NetworkStep ==
    ASSUME NetInv, Network
    PROVE  NetInv'
<1>1. peer \in [Peers -> Hosts]  BY NetParts DEF TypeInv
<1>2. PICK p \in Peers : \/ PeerConnect(p) \/ PeerRetransmit(p)
                         \/ PeerAck(p) \/ PeerData(p) \/ PeerReset(p)
  BY DEF Network
<1> DEFINE q == peer[p]
<1>3. /\ q \in Hosts /\ q.sent \in Nat
      /\ \A t \in {"syn_sent", "syn_resent", "established", "reset"} :
            /\ [q EXCEPT !.st = t] \in Hosts
            /\ [q EXCEPT !.st = t].st = t
      /\ [q EXCEPT !.sent = @ + 1] \in Hosts /\ [q EXCEPT !.sent = @ + 1].st = q.st
  BY <1>1 DEF Hosts
<1>4. /\ \A t \in {"SYN", "ACK", "RST"} : [type |-> t, peer |-> p] \in Received
      /\ \A b \in Bytes : [type |-> "DATA", peer |-> p, byte |-> b] \in Received
  BY DEF Received
<1>5. CASE PeerConnect(p)
  <2> DEFINE f == [type |-> "SYN", peer |-> p]
             r == [q EXCEPT !.st = "syn_sent"]
  <2>1. q.st = "idle" /\ Arrive(f) /\ peer' = [peer EXCEPT ![p] = r]
    BY <1>5 DEF PeerConnect
  <2>2. f.type = "SYN" /\ f.peer = p /\ f \in Received /\ r \in Hosts /\ r.st = "syn_sent"
    BY <1>3, <1>4
  <2> HIDE DEF f, r
  <2> QED  BY <2>1, <2>2, PeerStep DEF Connected
<1>6. CASE PeerRetransmit(p)
  <2> DEFINE f == [type |-> "SYN", peer |-> p]
             r == [q EXCEPT !.st = "syn_resent"]
  <2>1. q.st = "syn_sent" /\ Arrive(f) /\ peer' = [peer EXCEPT ![p] = r] /\ ~Prompt
    BY <1>6 DEF PeerRetransmit, Prompt
  <2>2. f.type = "SYN" /\ f.peer = p /\ f \in Received /\ r \in Hosts /\ r.st = "syn_resent"
    BY <1>3, <1>4
  <2> HIDE DEF f, r
  <2> QED  BY <2>1, <2>2, PeerStep DEF Connected
<1>7. CASE PeerAck(p)
  <2> DEFINE f == [type |-> "ACK", peer |-> p]
             r == [q EXCEPT !.st = "established"]
  <2>1. q.st = "syn_acked" /\ Arrive(f) /\ peer' = [peer EXCEPT ![p] = r]
    BY <1>7 DEF PeerAck
  <2>2. f.type = "ACK" /\ f.peer = p /\ f \in Received /\ r \in Hosts /\ r.st = "established"
    BY <1>3, <1>4
  <2> HIDE DEF f, r
  <2> QED  BY <2>1, <2>2, PeerStep DEF Connected
<1>8. CASE PeerData(p)
  <2>b. PICK b \in {"x", "."} : Arrive([type |-> "DATA", peer |-> p, byte |-> b])
    BY <1>8 DEF PeerData
  <2> DEFINE f == [type |-> "DATA", peer |-> p, byte |-> b]
             r == [q EXCEPT !.sent = @ + 1]
  <2>1. q.st = "established" /\ Arrive(f) /\ peer' = [peer EXCEPT ![p] = r]
    BY <1>8, <2>b DEF PeerData
  <2>2. f.type = "DATA" /\ f.peer = p /\ f \in Received /\ r \in Hosts /\ r.st = "established"
    <3>1. b \in Bytes  BY DEF Bytes
    <3> QED  BY <1>3, <1>4, <2>1, <3>1
  <2> HIDE DEF f, r
  <2> QED  BY <2>1, <2>2, PeerStep DEF Connected
<1>9. CASE PeerReset(p)
  <2> DEFINE f == [type |-> "RST", peer |-> p]
             r == [q EXCEPT !.st = "reset"]
  <2>1. q.st = "established" /\ Arrive(f) /\ peer' = [peer EXCEPT ![p] = r]
        /\ ("early_reset" \notin faults => SockOf(sock, p) \cap Range(syn_queue) = {})
    BY <1>9 DEF PeerReset
  <2>2. f.type = "RST" /\ f.peer = p /\ f \in Received /\ r \in Hosts /\ r.st = "reset"
    BY <1>3, <1>4
  <2> HIDE DEF f, r
  <2> QED  BY <2>1, <2>2, PeerStep DEF Connected
<1> QED  BY <1>2, <1>5, <1>6, <1>7, <1>8, <1>9

-----------------------------------------------------------------------------
(* The steps of the client and of the interrupt. *)

LEMMA FailedType ==
    ASSUME NEW x, ExecutorType(x)
    PROVE  /\ ExecutorType(Failed(x)) /\ Failed(x).panic /\ Failed(x).delay = x.delay
           /\ Failed(x).ready = x.ready /\ Frame(x, Failed(x))
BY DEF ExecutorType, Failed, Frame

(* A request enters the ring. *)
LEMMA PushReqFacts ==
    ASSUME TypeInv, NEW i \in Requests \cup {NetPollReq}, PushReq(i, ex)
    PROVE  /\ ExecutorType(ex') /\ ex'.delay \subseteq {Receiver} /\ Frame(ex, ex')
           /\ ex'.ready = ex.ready /\ (ex.panic => ex'.panic)
           /\ recv_req_status' = TRUE
           /\ req_items' \in Seq(Requests \cup {NetPollReq})
           /\ Range(req_items)' = Range(req_items) \cup {i}
           /\ \A T : Count(req_items', T) = Count(req_items, T) + One(i \in T)
           /\ WordBits > 1 /\ Len(req_items) < RingSize => ex'.panic = ex.panic
           /\ ex'.panic \/ recv_req_status \/ Receiver \in ex'.delay
<1>1. /\ ExecutorType(ex) /\ ex.delay \subseteq {Receiver}
      /\ req_items \in Seq(Requests \cup {NetPollReq})
  BY DEF TypeInv
<1> DEFINE e == DelayWake(ex, Receiver)
           d == IF recv_req_status THEN ex ELSE e
<1>2. /\ ExecutorType(e) /\ e.delay \subseteq {Receiver} /\ Frame(ex, e) /\ e.ready = ex.ready
      /\ ex.panic => e.panic
      /\ WordBits > 1 => e.panic = ex.panic
      /\ e.panic \/ Receiver \in e.delay
  BY <1>1, DelayWakeType
<1>3. /\ req_items' = Append(req_items, i) /\ recv_req_status' = TRUE
      /\ ex' = IF Len(req_items) = RingSize THEN [d EXCEPT !.panic = TRUE] ELSE d
  BY DEF PushReq
<1> HIDE DEF e
<1>4. /\ ExecutorType(d) /\ d.delay \subseteq {Receiver} /\ Frame(ex, d) /\ d.ready = ex.ready
      /\ ex.panic => d.panic
      /\ WordBits > 1 => d.panic = ex.panic
      /\ d.panic \/ recv_req_status \/ Receiver \in d.delay
  BY <1>1, <1>2 DEF Frame
<1> HIDE DEF d
<1>5. /\ ExecutorType(ex') /\ ex'.delay \subseteq {Receiver} /\ Frame(ex, ex')
      /\ ex'.ready = ex.ready /\ (ex.panic => ex'.panic)
      /\ WordBits > 1 /\ Len(req_items) < RingSize => ex'.panic = ex.panic
      /\ ex'.panic \/ recv_req_status \/ Receiver \in ex'.delay
  <2>1. Len(req_items) \in Nat  BY <1>1, RangeIn
  <2>2. CASE Len(req_items) = RingSize
    <3>1. ex' = Failed(d)  BY <1>3, <2>2 DEF Failed
    <3>2. /\ ExecutorType(Failed(d)) /\ Failed(d).panic /\ Failed(d).delay = d.delay
          /\ Failed(d).ready = d.ready /\ Frame(d, Failed(d))
      BY <1>4, FailedType
    <3>3. ~(Len(req_items) < RingSize)  BY <2>2, NetSized
    <3>4. Frame(ex, ex')  BY <1>4, <3>1, <3>2 DEF Frame
    <3> QED  BY <1>4, <3>1, <3>2, <3>3, <3>4
  <2>3. CASE Len(req_items) # RingSize  BY <1>3, <1>4, <2>3
  <2> QED  BY <2>2, <2>3
<1>6. req_items' \in Seq(Requests \cup {NetPollReq})  BY <1>1, <1>3, AppendFacts
<1>7. Range(req_items)' = Range(req_items) \cup {i}
  <2>1. Range(Append(req_items, i)) = Range(req_items) \cup {i}  BY <1>1, RangeAppend
  <2>2. Range(req_items)' = Range(req_items')  BY DEF Range
  <2> QED  BY <1>3, <2>1, <2>2
<1>8. ASSUME NEW T  PROVE Count(req_items', T) = Count(req_items, T) + One(i \in T)
  BY <1>1, <1>3, CountAppend
<1> QED  BY <1>3, <1>5, <1>6, <1>7, <1>8

(* What the thread keeps when a request enters the ring. *)
LEMMA PushReqRun ==
    ASSUME TypeInv, RunInv, ~ex'.panic, NEW i \in Requests \cup {NetPollReq}, PushReq(i, ex),
           UNCHANGED <<running, co, immediate, syn_queue, block_cids>>
    PROVE  /\ Shape(ex') /\ CoInv' /\ SchedInv(ex, block_cids)'
           /\ OrderInv(ex, block_cids)' /\ QueueInv'
           /\ \A d : Run(d)' <=> Run(d)
           /\ Len(ex'.ready[1]) + One(Receiver \in ex'.delay) + One(Run(Receiver)') \in 1 .. 2
<1>1. /\ ExecutorType(ex') /\ ex'.delay \subseteq {Receiver} /\ Frame(ex, ex')
      /\ ex'.ready = ex.ready
      /\ recv_req_status \/ Receiver \in ex'.delay
  BY PushReqFacts
<1>2. /\ ex'.tasks = ex.tasks /\ ex'.num = ex.num /\ ex'.ids = ex.ids /\ ex'.current = ex.current
  BY <1>1 DEF Frame
<1>3. Shape(ex) /\ CoInv /\ SchedInv(ex, block_cids) /\ OrderInv(ex, block_cids) /\ QueueInv
      /\ WakesInv(ex)
  BY DEF RunInv
<1>4. Shape(ex')  BY <1>1, <1>2, <1>3, ShapeSame
<1>5. /\ CoInv' /\ SchedInv(ex, block_cids)' /\ OrderInv(ex, block_cids)' /\ QueueInv'
      /\ \A d : Run(d)' <=> Run(d)
  BY <1>1, <1>2, <1>3, ThreadKept
<1>6. Len(ex.ready[1]) \in Nat /\ \A b : One(b) \in {0, 1}
  BY <1>3, ShapeQueues, NetSized, OneType
<1>7. /\ Len(ex.ready[1]) + One(Receiver \in ex.delay) + One(Run(Receiver)) <= 1 + One(recv_req_status)
      /\ One(recv_req_status) <= Len(ex.ready[1]) + One(Receiver \in ex.delay) + One(Run(Receiver))
  BY <1>3 DEF WakesInv
<1>8. One(Run(Receiver)') = One(Run(Receiver))  BY <1>5 DEF One
<1>9. CASE recv_req_status
  <2>1. ex'.delay = ex.delay
    BY <1>9 DEF PushReq
  <2>2. One(Receiver \in ex'.delay) = One(Receiver \in ex.delay) /\ One(recv_req_status) = 1
    BY <1>9, <2>1 DEF One
  <2> QED  BY <1>1, <1>4, <1>5, <1>6, <1>7, <1>8, <2>2
<1>10. CASE ~recv_req_status
  <2>1. One(recv_req_status) = 0  BY <1>10 DEF One
  <2>2. One(Receiver \in ex'.delay) = 1 /\ One(Receiver \in ex.delay) \in {0, 1}
        /\ One(Run(Receiver)) \in {0, 1}
    BY <1>1, <1>6, <1>10 DEF One
  <2> QED  BY <1>1, <1>4, <1>5, <1>6, <1>7, <1>8, <2>1, <2>2
<1> QED  BY <1>9, <1>10

(* The calls in the request ring: a new one is at one more place. *)
LEMMA PlacesPushReq ==
    ASSUME TypeInv, NEW i \in Requests \cup {NetPollReq}, PushReq(i, ex),
           UNCHANGED <<co, immediate, res_items>>, NEW a
    PROVE  Places(a)' = Places(a) + One(i \in ItemsOf(a))
<1>1. Count(req_items', ItemsOf(a)) = Count(req_items, ItemsOf(a)) + One(i \in ItemsOf(a))
  BY PushReqFacts
<1>2. Held(a)' <=> Held(a)  BY DEF Held, Holding, Accepts
<1>3. One(Held(a)') = One(Held(a)) /\ One(Held(a)) \in {0, 1} /\ One(i \in ItemsOf(a)) \in {0, 1}
  BY <1>2 DEF One
<1>4. Places(a)' = Count(req_items', ItemsOf(a)) + Count(res_items', ItemsOf(a)) + One(Held(a)')
  BY DEF Places, Count, One
<1>5. Count(req_items, ItemsOf(a)) \in Nat /\ Count(res_items, ItemsOf(a)) \in Nat
  BY PlacesType
<1>6. Count(res_items', ItemsOf(a)) = Count(res_items, ItemsOf(a))  OBVIOUS
<1>7. Places(a) = Count(req_items, ItemsOf(a)) + Count(res_items, ItemsOf(a)) + One(Held(a))
  BY DEF Places
<1> QED  BY ONLY <1>1, <1>3, <1>4, <1>5, <1>6, <1>7

LEMMA IrqStep ==
    ASSUME NetInv, Irq
    PROVE  NetInv'
<1>1. /\ rx_cmplt /\ ~masked /\ ~ex.panic /\ masked' = TRUE /\ PushReq(NetPollReq, ex)
      /\ UNCHANGED <<running, co, immediate, cnt, res_items, recv_reply_status, sock, syn_queue,
                     block_cids, socket2cid, frames, rx_cmplt, late, peer, faults, cl, reply>>
  BY DEF Irq, stack, client
<1>2. /\ TypeInv /\ GivenIn(sock) /\ RunInv /\ QueueInv /\ CallInv /\ TokenInv(sock)
      /\ WakesInv(ex) /\ StackInv(sock, peer, 0) /\ GoodInv(sock, peer, block_cids, 0) /\ StrandInv
      /\ Shape(ex)
  BY <1>1, NetParts
<1> DEFINE i == NetPollReq
<1>3. i \in Requests \cup {NetPollReq} /\ PushReq(i, ex)  BY <1>1
<1>4. /\ ExecutorType(ex') /\ ex'.delay \subseteq {Receiver} /\ ex'.ready = ex.ready
      /\ recv_req_status' = TRUE
      /\ req_items' \in Seq(Requests \cup {NetPollReq})
      /\ Range(req_items)' = Range(req_items) \cup {NetPollReq}
      /\ \A T : Count(req_items', T) = Count(req_items, T) + One(NetPollReq \in T)
      /\ WordBits > 1 /\ Len(req_items) < RingSize => ex'.panic = ex.panic
  BY <1>2, <1>3, PushReqFacts
<1> HIDE DEF i
<1>5. TypeInv'  BY <1>1, <1>2, <1>4 DEF TypeInv
<1>6. GivenIn(sock)'  BY <1>1, <1>2 DEF GivenIn, Owns
<1>7. Count(req_items, {NetPollReq}) + Len(ex.ready[0]) + One(Run(Poller)) <= 1 + One(masked)
  BY <1>2 DEF WakesInv
<1>8. /\ Count(req_items, {NetPollReq}) \in Nat /\ Len(ex.ready[0]) \in Nat
      /\ One(Run(Poller)) \in {0, 1} /\ One(masked) = 0 /\ One(masked') = 1
  BY <1>1, <1>2, WakesFacts DEF One
<1>9. Sizes => ~ex'.panic
  <2> SUFFICES ASSUME Sizes  PROVE ~ex'.panic
    OBVIOUS
  <2>1. req_items \in Seq(Items)
    <3>1. req_items \in Seq(Requests \cup {NetPollReq})  BY <1>2 DEF TypeInv
    <3>2. Requests \cup {NetPollReq} \subseteq Items  BY DEF Items
    <3> QED  BY <3>1, <3>2
  <2>2. ASSUME NEW c \in Clients  PROVE Count(req_items, ItemsOf(c)) <= One(c \in Clients)
    <3>1. Places(c) <= 1  BY <1>2, TokenAt
    <3>2. One(c \in Clients) = 1  BY DEF One
    <3>3. Count(req_items, ItemsOf(c)) \in Nat /\ Count(res_items, ItemsOf(c)) \in Nat
          /\ One(Held(c)) \in {0, 1}
      BY <1>2, PlacesType
    <3> QED  BY <3>1, <3>2, <3>3 DEF Places
  <2>3. Len(req_items) <= Count(req_items, {NetPollReq}) + Cardinality(Clients)
    BY <2>1, <2>2, RingLength DEF Sizes
  <2>4. Len(req_items) \in Nat /\ Cardinality(Clients) \in Nat
    BY <2>1, RangeIn, FS_CardinalityType DEF Sizes
  <2>5. Len(req_items) < RingSize
    <3>1. RingSize >= Cardinality(Clients) + 2 /\ RingSize \in Nat  BY NetSized DEF Sizes
    <3>2. Count(req_items, {NetPollReq}) <= 1  BY ONLY <1>7, <1>8
    <3> QED  BY ONLY <1>8, <2>3, <2>4, <3>1, <3>2
  <2> QED  BY <1>1, <1>4, <2>5 DEF Sizes
<1>10. ASSUME ~ex'.panic
       PROVE  /\ Shape(ex') /\ CoInv' /\ SchedInv(ex, block_cids)'
              /\ OrderInv(ex, block_cids)' /\ QueueInv'
              /\ CallInv' /\ TokenInv(sock)' /\ WakesInv(ex)'
              /\ StackInv(sock, peer, 0)' /\ GoodInv(sock, peer, block_cids, 0)'
              /\ StrandInv'
  <2>1. /\ Shape(ex') /\ CoInv' /\ SchedInv(ex, block_cids)'
        /\ OrderInv(ex, block_cids)' /\ QueueInv'
        /\ \A d : Run(d)' <=> Run(d)
        /\ Len(ex'.ready[1]) + One(Receiver \in ex'.delay) + One(Run(Receiver)') \in 1 .. 2
    BY <1>1, <1>2, <1>3, <1>10, PushReqRun
  <2>2. CallInv'
    <3>1. Accepts' = Accepts  BY <1>1 DEF Accepts
    <3>2. Range(req_items)' \ {NetPollReq} = Range(req_items) \ {NetPollReq}  BY <1>4
    <3> QED  BY <1>1, <1>2, <3>1, <3>2 DEF CallInv, Message, NetPollReq
  <2>3. TokenInv(sock)'
    <3>1. ASSUME NEW a \in Clients  PROVE Places(a)' = Places(a)
      <4>1. Places(a)' = Places(a) + One(i \in ItemsOf(a))
        BY <1>1, <1>2, <1>3, PlacesPushReq
      <4>2. One(i \in ItemsOf(a)) = 0  BY ItemFacts DEF One, i
      <4>3. Places(a) \in Nat  BY <1>2, PlacesType
      <4> QED  BY <4>1, <4>2, <4>3
    <3> QED  BY <1>1, <1>2, <3>1, TokenKept
  <2>4. WakesInv(ex)'
    <3>1. Count(req_items', {NetPollReq}) = Count(req_items, {NetPollReq}) + 1
      BY <1>4 DEF One
    <3>2. Count(req_items, {NetPollReq})' = Count(req_items', {NetPollReq})  BY DEF Count, NetPollReq
    <3>3. One(Run(Poller)') = One(Run(Poller)) /\ One(recv_req_status') = 1  BY <1>4, <2>1 DEF One
    <3>4. Count(req_items', {NetPollReq}) + Len(ex'.ready[0]) + One(Run(Poller)') <= 1 + One(masked')
      BY <1>4, <1>7, <1>8, <3>1, <3>3
    <3>5. Len(ex'.ready[1]) + One(Receiver \in ex'.delay) + One(Run(Receiver)') <= 1 + One(recv_req_status')
      BY <2>1, <3>3
    <3>6. One(recv_req_status') <= Len(ex'.ready[1]) + One(Receiver \in ex'.delay) + One(Run(Receiver)')
      BY <2>1, <3>3
    <3> QED  BY <3>2, <3>4, <3>5, <3>6 DEF WakesInv, One, Run
  <2>5. StackInv(sock, peer, 0)' /\ GoodInv(sock, peer, block_cids, 0)'
    BY <1>1, <1>2, StackSame
  <2>6. StrandInv'
    BY <1>1, <1>2, <1>4 DEF StrandInv, NetPollReq
  <2> QED  BY <2>1, <2>2, <2>3, <2>4, <2>5, <2>6
<1> QED  BY <1>1, <1>5, <1>6, <1>9, <1>10, NetParts2

(* The parts of CallInv, after a step. *)
Awaited(A, q, i, v, R) ==
    \A d \in A :
        LET c == q[d].caller
            m == Message("Recv", c, q[d].handler)
        IN  /\ q[d].pc \in {"start", "listening"} => v[c].op = "Listen"
            /\ i[d] # NoItem => q[d].pc = "parked" /\ i[d] = m /\ v[c].op = "Recv"
            /\ q[d].pc = "retry" => q[d].item = m /\ v[c].op = "Recv"
            /\ q[d].pc # "retry" => q[d].item = NoItem
            /\ v[c].op = "Listen" /\ q[d].pc \in {"parked", "retry"} =>
                  \E r \in R : r.client = c

CallParts(A, q, i, v, Q, R) ==
    /\ \A c \in Clients : v[c].st # "panic" /\ (v[c].fd = NoFd <=> v[c].op = "Listen")
    /\ \A j \in Q \ {NetPollReq} : j.type = Request(v[j.client].op) /\ j.fd = v[j.client].fd
    /\ \A r \in R : r.type = Expected(v[r.client].op)
    /\ Awaited(A, q, i, v, R)
    /\ \A d, e \in A : q[d].caller = q[e].caller => d = e

LEMMA CallNext ==
    /\ CallInv <=> CallParts(Accepts, co, immediate, cl, Range(req_items), Range(res_items))
    /\ CallInv' <=> CallParts(Accepts', co', immediate', cl', Range(req_items)', Range(res_items)')
<1>1. CallInv <=> CallParts(Accepts, co, immediate, cl, Range(req_items), Range(res_items))
  BY DEF CallInv, CallParts, Awaited
<1>2. CallInv' <=> CallParts(Accepts, co, immediate, cl, Range(req_items), Range(res_items))'
  BY <1>1, PTL
<1> QED  BY <1>1, <1>2 DEF CallParts, Awaited, Message, NetPollReq, Request, Expected, NoItem

LEMMA ClientCallStep ==
    ASSUME NetInv, NEW c \in Clients, ClientCall(c), faults' = faults
    PROVE  NetInv'
<1> DEFINE i == Message(IF cl[c].op = "Bye" THEN "Send" ELSE cl[c].op, c, cl[c].fd)
<1>1. /\ cl[c].st = "ready" /\ PushReq(i, ex) /\ cl' = [cl EXCEPT ![c].st = "waiting"]
      /\ UNCHANGED <<running, co, immediate, cnt, res_items, recv_reply_status, sock, syn_queue,
                     block_cids, socket2cid, frames, rx_cmplt, masked, late, peer, reply>>
  BY DEF ClientCall, stack, device
<1>2. TypeInv /\ GivenIn(sock)  BY NetParts
<1>3. cl \in [Clients -> Calls] /\ cl[c] \in Calls  BY <1>2 DEF TypeInv
<1>4. /\ i \in Requests /\ i \in Requests \cup {NetPollReq} /\ i.client = c /\ i.fd = cl[c].fd
      /\ i.type = Request(cl[c].op)
  BY <1>3 DEF Calls, Requests, Message, Request
<1> HIDE DEF i
<1>5. /\ cl' \in [Clients -> Calls] /\ cl'[c].st = "waiting"
      /\ \A a \in Clients : cl'[a].op = cl[a].op /\ cl'[a].fd = cl[a].fd
      /\ \A a \in Clients \ {c} : cl'[a] = cl[a]
  BY <1>1, <1>3 DEF Calls
<1>6. /\ ExecutorType(ex') /\ ex'.delay \subseteq {Receiver} /\ ex'.ready = ex.ready
      /\ ex.panic => ex'.panic
      /\ recv_req_status' = TRUE
      /\ req_items' \in Seq(Requests \cup {NetPollReq})
      /\ Range(req_items)' = Range(req_items) \cup {i}
      /\ \A T : Count(req_items', T) = Count(req_items, T) + One(i \in T)
      /\ WordBits > 1 /\ Len(req_items) < RingSize => ex'.panic = ex.panic
  BY <1>1, <1>2, <1>4, PushReqFacts
<1>7. TypeInv'  BY <1>1, <1>2, <1>5, <1>6 DEF TypeInv
<1>8. GivenIn(sock)'  BY <1>1, <1>2, <1>5 DEF GivenIn, Owns
<1>9. ASSUME ~ex.panic
      PROVE  /\ RunInv /\ QueueInv /\ CallInv /\ TokenInv(sock) /\ Shape(ex)
             /\ WakesInv(ex) /\ StackInv(sock, peer, 0) /\ GoodInv(sock, peer, block_cids, 0)
             /\ StrandInv /\ Places(c) = 0
             /\ Count(req_items, {NetPollReq}) + Len(ex.ready[0]) + One(Run(Poller))
                   <= 1 + One(masked)
  <2>1. TokenInv(sock) /\ WakesInv(ex)  BY <1>9, NetParts
  <2>2. Places(c) = 0  BY <1>1, <2>1 DEF TokenInv
  <2>3. Count(req_items, {NetPollReq}) + Len(ex.ready[0]) + One(Run(Poller)) <= 1 + One(masked)
    BY <2>1 DEF WakesInv
  <2> QED  BY <1>9, <2>2, <2>3, NetParts
<1>10. i # NetPollReq  BY <1>4, ItemFacts
<1>11. Sizes => ~ex'.panic \/ (AcceptFailed' /\ ~Prompt)
  <2>p. ex'.current = ex.current  BY <1>1, <1>2, <1>4, PushReqFacts DEF Frame
  <2>q. CASE ex.panic  BY <1>1, <2>p, <2>q, PanicKept
  <2> SUFFICES ASSUME Sizes, ~ex.panic  PROVE ~ex'.panic
    BY <2>q
  <2>0. ~ex.panic  OBVIOUS
  <2> DEFINE D == Clients \ {c}
  <2>1. req_items \in Seq(Items)
    <3>1. req_items \in Seq(Requests \cup {NetPollReq})  BY <1>2 DEF TypeInv
    <3>2. Requests \cup {NetPollReq} \subseteq Items  BY DEF Items
    <3> QED  BY <3>1, <3>2
  <2>2. ASSUME NEW a \in Clients  PROVE Count(req_items, ItemsOf(a)) <= One(a \in D)
    <3>1. Places(a) <= 1 /\ Places(c) = 0  BY <1>2, <1>9, <2>0, TokenAt
    <3>3. /\ Count(req_items, ItemsOf(a)) \in Nat /\ Count(res_items, ItemsOf(a)) \in Nat
          /\ One(Held(a)) \in {0, 1}
          /\ Places(a) = Count(req_items, ItemsOf(a)) + Count(res_items, ItemsOf(a)) + One(Held(a))
      BY <1>2, PlacesType DEF Places
    <3>4. Count(req_items, ItemsOf(a)) <= Places(a)  BY <3>3
    <3>5. CASE a = c
      <4>1. One(a \in D) = 0  BY <3>5 DEF One
      <4> QED  BY <3>1, <3>4, <3>5, <4>1
    <3>6. CASE a # c
      <4>1. One(a \in D) = 1  BY <3>6 DEF One
      <4> QED  BY <3>1, <3>3, <3>4, <4>1
    <3> QED  BY <3>5, <3>6
  <2>3. IsFiniteSet(Clients) /\ RingSize >= Cardinality(Clients) + 2 /\ RingSize \in Nat
    BY NetSized DEF Sizes
  <2>4. IsFiniteSet(D) /\ Cardinality(D) = Cardinality(Clients) - 1 /\ Cardinality(Clients) \in Nat
    BY <2>3, FS_RemoveElement, FS_CardinalityType
  <2> HIDE DEF D
  <2>5. Len(req_items) <= Count(req_items, {NetPollReq}) + Cardinality(D)
    BY <2>1, <2>2, <2>4, RingLength
  <2>6. Len(req_items) \in Nat  BY <2>1, RangeIn
  <2>7. /\ Count(req_items, {NetPollReq}) \in Nat /\ Len(ex.ready[0]) \in Nat
        /\ One(Run(Poller)) \in {0, 1} /\ One(masked) \in {0, 1}
    BY <1>2, <1>9, <2>0, WakesFacts
  <2>8. Count(req_items, {NetPollReq}) <= 2  BY <1>9, <2>0, <2>7
  <2>9. Len(req_items) < RingSize  BY ONLY <2>3, <2>4, <2>5, <2>6, <2>7, <2>8
  <2> QED  BY <1>6, <2>0, <2>9 DEF Sizes
<1>12. ASSUME ~ex'.panic
       PROVE  /\ Shape(ex') /\ CoInv' /\ SchedInv(ex, block_cids)'
              /\ OrderInv(ex, block_cids)' /\ QueueInv'
              /\ CallInv' /\ TokenInv(sock)' /\ WakesInv(ex)'
              /\ StackInv(sock, peer, 0)' /\ GoodInv(sock, peer, block_cids, 0)'
              /\ StrandInv'
  <2>0. /\ ~ex.panic /\ RunInv /\ QueueInv /\ CallInv /\ TokenInv(sock) /\ Shape(ex)
        /\ WakesInv(ex) /\ StackInv(sock, peer, 0) /\ GoodInv(sock, peer, block_cids, 0)
        /\ StrandInv /\ Places(c) = 0
    BY <1>6, <1>9, <1>12
  <2>1. /\ Shape(ex') /\ CoInv' /\ SchedInv(ex, block_cids)'
        /\ OrderInv(ex, block_cids)' /\ QueueInv'
        /\ \A d : Run(d)' <=> Run(d)
        /\ Len(ex'.ready[1]) + One(Receiver \in ex'.delay) + One(Run(Receiver)') \in 1 .. 2
    BY <1>1, <1>2, <1>4, <1>12, <2>0, PushReqRun
  <2>2. CallInv'
    <3>1. Accepts' = Accepts  BY <1>1 DEF Accepts
    <3>2. \A a \in Clients : cl'[a].st # "panic" /\ (cl'[a].fd = NoFd <=> cl'[a].op = "Listen")
      BY <1>5, <2>0 DEF CallInv
    <3>3. \A j \in Range(req_items) \ {NetPollReq} : j.client \in Clients
      <4>1. req_items \in Seq(Requests \cup {NetPollReq})  BY <1>2 DEF TypeInv
      <4> QED  BY <4>1, RangeIn, ItemFacts
    <3>4. \A j \in Range(req_items)' \ {NetPollReq} :
             j.type = Request(cl'[j.client].op) /\ j.fd = cl'[j.client].fd
      <4> SUFFICES ASSUME NEW j \in Range(req_items)' \ {NetPollReq}
                   PROVE  j.type = Request(cl'[j.client].op) /\ j.fd = cl'[j.client].fd
        OBVIOUS
      <4>1. CASE j = i  BY <1>4, <1>5, <4>1
      <4>2. CASE j # i
        <5>1. j \in Range(req_items) \ {NetPollReq}  BY <1>6, <4>2
        <5> QED  BY <1>5, <2>0, <3>3, <5>1 DEF CallInv
      <4> QED  BY <4>1, <4>2
    <3>5. \A r \in Range(res_items) : r.client \in Clients
      <4>1. res_items \in Seq(Replies)  BY <1>2 DEF TypeInv
      <4> QED  BY <4>1, RangeIn, ItemFacts
    <3>6. \A r \in Range(res_items) : r.type = Expected(cl'[r.client].op)
      BY <1>5, <2>0, <3>5 DEF CallInv
    <3>7. \A d \in Accepts : co[d].caller \in Clients  BY <2>1, <1>1, <3>1 DEF CoInv
    <3>8. Awaited(Accepts, co, immediate, cl', Range(res_items))
      BY <1>5, <2>0, <3>7 DEF CallInv, Awaited
    <3>9. \A d, e \in Accepts : co[d].caller = co[e].caller => d = e  BY <2>0 DEF CallInv
    <3>10. Range(res_items)' = Range(res_items)  BY <1>1
    <3> QED  BY <1>1, <3>1, <3>2, <3>4, <3>6, <3>8, <3>9, <3>10, CallNext DEF CallParts
  <2>3. TokenInv(sock)'
    <3>1. \A a \in Clients : Places(a)' = Places(a) + One(i \in ItemsOf(a))
      BY <1>1, <1>2, <1>4, PlacesPushReq
    <3>2. \A a \in Clients : One(i \in ItemsOf(a)) = IF a = c THEN 1 ELSE 0
      BY <1>4, ItemFacts DEF One
    <3>3. \A a \in Clients : Places(a) \in Nat  BY <1>2, PlacesType
    <3>4. Places(c)' = 1 /\ \A a \in Clients \ {c} : Places(a)' = Places(a)
      BY <2>0, <3>1, <3>2, <3>3
    <3> QED  BY <1>1, <1>5, <2>0, <3>4 DEF TokenInv
  <2>4. WakesInv(ex)'
    <3>1. Count(req_items', {NetPollReq}) = Count(req_items, {NetPollReq})
      <4>1. One(i \in {NetPollReq}) = 0  BY <1>10 DEF One
      <4>2. Count(req_items, {NetPollReq}) \in Nat  BY <1>2, <2>0, WakesFacts
      <4> QED  BY <1>6, <4>1, <4>2
    <3>2. Count(req_items, {NetPollReq})' = Count(req_items', {NetPollReq})  BY DEF Count, NetPollReq
    <3>3. /\ One(Run(Poller)') = One(Run(Poller)) /\ One(recv_req_status') = 1
          /\ One(masked') = One(masked)
      BY <1>1, <1>6, <2>1 DEF One
    <3>4. Count(req_items', {NetPollReq}) + Len(ex'.ready[0]) + One(Run(Poller)') <= 1 + One(masked')
      BY <1>6, <1>9, <2>0, <3>1, <3>3
    <3>5. Len(ex'.ready[1]) + One(Receiver \in ex'.delay) + One(Run(Receiver)') <= 1 + One(recv_req_status')
      BY <2>1, <3>3
    <3>6. One(recv_req_status') <= Len(ex'.ready[1]) + One(Receiver \in ex'.delay) + One(Run(Receiver)')
      BY <2>1, <3>3
    <3> QED  BY <3>2, <3>4, <3>5, <3>6 DEF WakesInv, One, Run
  <2>5. StackInv(sock, peer, 0)' /\ GoodInv(sock, peer, block_cids, 0)'
    BY <1>1, <1>2, <2>0, StackSame
  <2>6. StrandInv'
    BY <1>1, <1>6, <2>0, <2>1 DEF StrandInv, NetPollReq, Queued
  <2> QED  BY <2>1, <2>2, <2>3, <2>4, <2>5, <2>6
<1> QED  BY <1>7, <1>8, <1>11, <1>12, NetParts2

(* The client alone moves: the rest of the invariant stands. *)
LEMMA ClientKept ==
    ASSUME TypeInv, RunInv,
           UNCHANGED <<ex, running, co, immediate, cnt, req_items, recv_req_status, sock,
                       syn_queue, block_cids, socket2cid, frames, rx_cmplt, masked, late, peer, faults>>
    PROVE  /\ Shape(ex') /\ CoInv' /\ SchedInv(ex, block_cids)'
           /\ OrderInv(ex, block_cids)' /\ QueueInv' /\ WakesInv(ex)'
           /\ StackInv(sock, peer, 0)' /\ GoodInv(sock, peer, block_cids, 0)'
           /\ StrandInv'
<1>1. /\ Shape(ex) /\ CoInv /\ SchedInv(ex, block_cids) /\ OrderInv(ex, block_cids) /\ QueueInv
      /\ WakesInv(ex) /\ StackInv(sock, peer, 0) /\ GoodInv(sock, peer, block_cids, 0) /\ StrandInv
  BY DEF RunInv
<1>2. CoInv' /\ SchedInv(ex, block_cids)' /\ OrderInv(ex, block_cids)' /\ QueueInv'
  BY <1>1, ThreadKept
<1>3. StackInv(sock, peer, 0)' /\ GoodInv(sock, peer, block_cids, 0)'  BY <1>1, StackSame
<1>4. WakesInv(ex)'  BY <1>1 DEF WakesInv, One, Run, Count, NetPollReq
<1>5. StrandInv'  BY <1>1 DEF StrandInv, Run, NetPollReq, Queued
<1> QED  BY <1>1, <1>2, <1>3, <1>4, <1>5

(* The reply reader moves on, and the rest stays. *)
LEMMA ReaderStep ==
    ASSUME NetInv, recv_reply_status' \in BOOLEAN, ReplyOK(recv_reply_status, reply)',
           UNCHANGED <<ex, running, co, immediate, cnt, req_items, res_items, recv_req_status,
                       sock, syn_queue, block_cids, socket2cid, frames, rx_cmplt, masked, late, peer,
                       faults, cl>>
    PROVE  NetInv'
<1>2. TypeInv /\ GivenIn(sock) /\ (~ex.panic => RunInv /\ CallInv /\ TokenInv(sock))  BY NetParts
<1>3. TypeInv'  BY <1>2 DEF TypeInv
<1>4. GivenIn(sock)'  BY <1>2 DEF GivenIn, Owns
<1>5. ASSUME ~ex.panic  PROVE CallInv' /\ TokenInv(sock)'
  <2>1. CallInv' /\ \A a \in Clients : Places(a)' = Places(a)  BY <1>2, <1>5, CallKept
  <2> QED  BY <1>2, <1>5, <2>1, TokenKept
<1>6. Sizes => ~ex'.panic \/ (AcceptFailed' /\ ~Prompt)  BY PanicKept
<1>7. ~ex.panic => /\ Shape(ex') /\ CoInv' /\ SchedInv(ex, block_cids)'
                   /\ OrderInv(ex, block_cids)' /\ QueueInv' /\ WakesInv(ex)'
                   /\ StackInv(sock, peer, 0)' /\ GoodInv(sock, peer, block_cids, 0)'
                   /\ StrandInv'
  BY <1>2, ClientKept
<1>8. ex'.panic = ex.panic  OBVIOUS
<1> QED  BY <1>3, <1>4, <1>5, <1>6, <1>7, <1>8, NetParts2

LEMMA ClientEmptyStep ==
    ASSUME NetInv, ClientEmpty, faults' = faults
    PROVE  NetInv'
<1>1. /\ reply.wakes > 0 /\ reply' = [reply EXCEPT !.pc = "clear"]
      /\ recv_reply_status' = recv_reply_status
      /\ UNCHANGED <<ex, running, co, immediate, cnt, req_items, res_items, recv_req_status,
                     sock, syn_queue, block_cids, socket2cid, frames, rx_cmplt, masked, late, peer,
                     faults, cl>>
  BY DEF ClientEmpty, ring, stack, device
<1>2. recv_reply_status \in BOOLEAN /\ ReplyOK(recv_reply_status, reply)  BY NetParts DEF TypeInv
<1>3. ReplyOK(recv_reply_status, reply)'  BY <1>1, <1>2 DEF ReplyOK
<1> QED  BY <1>1, <1>2, <1>3, ReaderStep

LEMMA ClientIdleStep ==
    ASSUME NetInv, ClientIdle, faults' = faults
    PROVE  NetInv'
<1>1. /\ reply.pc = "clear" /\ reply' = [wakes |-> reply.wakes - 1, pc |-> "read"]
      /\ recv_reply_status' = FALSE
      /\ UNCHANGED <<ex, running, co, immediate, cnt, req_items, res_items, recv_req_status,
                     sock, syn_queue, block_cids, socket2cid, frames, rx_cmplt, masked, late, peer,
                     faults, cl>>
  BY DEF ClientIdle, stack, device
<1>2. reply.wakes \in Nat /\ reply.wakes > 0  BY <1>1, NetParts DEF TypeInv, ReplyOK
<1>3. reply.wakes - 1 \in Nat  BY <1>2
<1>4. ReplyOK(recv_reply_status, reply)'  BY <1>1, <1>3 DEF ReplyOK
<1> QED  BY <1>1, <1>4, ReaderStep

(* What a client makes of a reply. *)
LEMMA ContinueFacts ==
    ASSUME NEW s \in Calls, NEW r \in Replies
    PROVE  LET v == Continue(s, r)
           IN  /\ v \in Calls /\ v.st # "waiting"
               /\ v.fd = IF r.type = "ListenReply" /\ s.op = "Listen" THEN r.fd ELSE s.fd
               /\ r.type = Expected(s.op) =>
                     /\ v.st # "panic"
                     /\ v.op # "Listen"
                     /\ r.type = "ListenReply" <=> s.op = "Listen"
<1>1. /\ s.op \in {"Listen", "Recv", "Send", "Bye"} /\ s.st \in {"ready", "waiting", "done", "panic"}
      /\ s.fd \in Nat /\ s.data \in Bytes \cup {"none"}
      /\ r.type \in {"ListenReply", "RecvReply", "SendReply"} /\ r.fd \in Nat
  BY DEF Calls, Replies
<1>2. /\ Expected("Listen") = "ListenReply" /\ Expected("Recv") = "RecvReply"
      /\ Expected("Send") = "SendReply" /\ Expected("Bye") = "SendReply"
  BY DEF Expected
<1> DEFINE v == Continue(s, r)
<1>3. CASE r.type # Expected(s.op)
  <2>1. v = [s EXCEPT !.st = "panic"]  BY <1>1, <1>2, <1>3 DEF Continue
  <2>2. ~(r.type = "ListenReply" /\ s.op = "Listen")  BY <1>2, <1>3
  <2> QED  BY <1>1, <1>3, <2>1, <2>2 DEF Calls
<1>4. CASE r.type = Expected(s.op)
  <2>1. CASE s.op = "Listen"
    <3>1. v = [s EXCEPT !.st = "ready", !.op = "Recv", !.fd = r.fd]
      BY <1>1, <1>2, <1>4, <2>1 DEF Continue
    <3> QED  BY <1>1, <1>2, <1>4, <2>1, <3>1 DEF Calls
  <2>2. CASE s.op = "Recv"
    <3> DEFINE o == IF s.data = "." THEN "Bye" ELSE "Send"
    <3>1. v = [s EXCEPT !.st = "ready", !.op = o]
      BY <1>1, <1>2, <1>4, <2>2 DEF Continue
    <3> QED  BY <1>1, <1>2, <1>4, <2>2, <3>1 DEF Calls
  <2>3. CASE s.op = "Send"
    <3>1. v = [s EXCEPT !.st = "ready", !.op = "Recv"]
      BY <1>1, <1>2, <1>4, <2>3 DEF Continue
    <3> QED  BY <1>1, <1>2, <1>4, <2>3, <3>1 DEF Calls
  <2>4. CASE s.op = "Bye"
    <3>1. v = [s EXCEPT !.st = "done"]
      BY <1>1, <1>2, <1>4, <2>4 DEF Continue
    <3> QED  BY <1>1, <1>2, <1>4, <2>4, <3>1 DEF Calls
  <2> QED  BY <1>1, <2>1, <2>2, <2>3, <2>4
<1> QED  BY <1>3, <1>4

LEMMA ClientReplyStep ==
    ASSUME NetInv, ClientReply, faults' = faults
    PROVE  NetInv'
<1> DEFINE r == Head(res_items)
           c == r.client
           v == Continue(cl[c], r)
<1>1. /\ res_items # <<>> /\ res_items' = Tail(res_items) /\ cl' = [cl EXCEPT ![c] = v]
      /\ UNCHANGED <<ex, running, co, immediate, cnt, req_items, recv_req_status,
                     recv_reply_status, sock, syn_queue, block_cids, socket2cid, frames,
                     rx_cmplt, masked, late, peer, faults, reply>>
  BY DEF ClientReply, stack, device
<1>2. TypeInv /\ GivenIn(sock) /\ (~ex.panic => RunInv /\ CallInv /\ TokenInv(sock) /\ CoInv)
  BY NetParts
<1>3. res_items \in Seq(Replies) /\ cl \in [Clients -> Calls]  BY <1>2 DEF TypeInv
<1>4. /\ Range(res_items) = Range(res_items)' \cup {r} /\ r \in Range(res_items)
      /\ r \in Replies /\ res_items' \in Seq(Replies)
  <2>1. /\ Range(res_items) = Range(Tail(res_items)) \cup {Head(res_items)}
        /\ Head(res_items) \in Range(res_items) /\ Head(res_items) \in Replies
        /\ Tail(res_items) \in Seq(Replies)
    BY <1>1, <1>3, RangeTail
  <2>2. Range(res_items)' = Range(res_items')  BY DEF Range
  <2> QED  BY <1>1, <2>1, <2>2
<1>5. c \in Clients /\ cl[c] \in Calls  BY <1>3, <1>4, ItemFacts
<1>6. /\ v \in Calls /\ v.st # "waiting"
      /\ v.fd = IF r.type = "ListenReply" /\ cl[c].op = "Listen" THEN r.fd ELSE cl[c].fd
      /\ r.type = Expected(cl[c].op) => /\ v.st # "panic" /\ v.op # "Listen"
                                        /\ r.type = "ListenReply" <=> cl[c].op = "Listen"
  BY <1>4, <1>5, ContinueFacts
<1>t. \A T : Count(res_items, T) = Count(res_items', T) + One(r \in T)
  BY <1>1, <1>3, CountTail
<1> HIDE DEF v, c, r
<1>7. cl' \in [Clients -> Calls] /\ cl'[c] = v /\ \A a \in Clients \ {c} : cl'[a] = cl[a]
  BY <1>1, <1>3, <1>5, <1>6
<1>8. TypeInv'  BY <1>1, <1>2, <1>4, <1>7 DEF TypeInv
<1>9. \A a, h : Owns(sock, a, h)' <=> Owns(sock, a, h)  BY <1>1 DEF Owns
<1>10. GivenIn(sock)'
  <2>1. ASSUME NEW a \in Clients, cl'[a].fd # NoFd  PROVE Owns(sock, a, cl'[a].fd)
    <3>1. CASE a # c  BY <1>2, <1>7, <2>1, <3>1 DEF GivenIn
    <3>2. CASE a = c /\ r.type = "ListenReply" /\ cl[c].op = "Listen"
      BY <1>2, <1>4, <1>6, <1>7, <3>2 DEF GivenIn, c
    <3>3. CASE a = c /\ ~(r.type = "ListenReply" /\ cl[c].op = "Listen")
      BY <1>2, <1>6, <1>7, <2>1, <3>3 DEF GivenIn
    <3> QED  BY <3>1, <3>2, <3>3
  <2>2. \A q \in Range(res_items)' : q.type = "ListenReply" => Owns(sock, q.client, q.fd)
    BY <1>2, <1>4 DEF GivenIn
  <2> QED  BY <1>9, <2>1, <2>2 DEF GivenIn
<1>11. Sizes => ~ex'.panic \/ (AcceptFailed' /\ ~Prompt)  BY <1>1, PanicKept
<1>12. ASSUME ~ex.panic  PROVE CallInv' /\ TokenInv(sock)'
  <2>1. CallInv /\ TokenInv(sock) /\ CoInv  BY <1>2, <1>12
  <2>2. /\ Count(req_items, ItemsOf(c)) = 0 /\ Count(res_items, ItemsOf(c)) = 1
        /\ ~Held(c) /\ cl[c].st = "waiting"
    BY <1>2, <1>4, <1>5, <2>1, TokenAt DEF c
  <2>3. r.type = Expected(cl[c].op)  BY <1>4, <2>1 DEF CallInv, c
  <2>4. \A a \in Clients : One(r \in ItemsOf(a)) = IF a = c THEN 1 ELSE 0
    BY <1>4, ItemFacts DEF One, c
  <2>5. /\ Accepts' = Accepts /\ Range(req_items)' = Range(req_items)
        /\ co' = co /\ immediate' = immediate
    BY <1>1 DEF Accepts
  <2>6. /\ req_items \in Seq(Requests \cup {NetPollReq})
        /\ \A j \in Range(req_items) \ {NetPollReq} : j.client \in Clients /\ j.client # c
    <3>1. req_items \in Seq(Requests \cup {NetPollReq})  BY <1>2 DEF TypeInv
    <3>2. \A j \in Range(req_items) : j \notin ItemsOf(c)  BY <2>2, <3>1, CountType
    <3>3. \A j \in Range(req_items) : j \in Requests \cup {NetPollReq}  BY <3>1, RangeIn
    <3>4. \A j \in Requests : j.client \in Clients /\ (j.client = c => j \in ItemsOf(c))
      BY ItemFacts
    <3> QED  BY <3>1, <3>2, <3>3, <3>4
  <2>7. \A a \in Clients : Count(res_items', ItemsOf(a)) \in Nat  BY <1>4, CountType
  <2>8. Count(res_items', ItemsOf(c)) = 0  BY <1>5, <1>t, <2>2, <2>4, <2>7
  <2>9. \A q \in Range(res_items)' : q.client \in Clients /\ q.client # c
    <3>1. \A q \in Range(res_items') : q \notin ItemsOf(c)  BY <1>4, <2>8, CountType
    <3>2. \A q \in Range(res_items') : q \in Replies  BY <1>4, RangeIn
    <3>3. Range(res_items)' = Range(res_items')  BY DEF Range
    <3> QED  BY <3>1, <3>2, <3>3, ItemFacts
  <2>10. CallInv'
    <3>1. \A a \in Clients : cl'[a].st # "panic" /\ (cl'[a].fd = NoFd <=> cl'[a].op = "Listen")
      <4> SUFFICES ASSUME NEW a \in Clients
                   PROVE  cl'[a].st # "panic" /\ (cl'[a].fd = NoFd <=> cl'[a].op = "Listen")
        OBVIOUS
      <4>1. CASE a # c  BY <1>7, <2>1, <4>1 DEF CallInv
      <4>2. CASE a = c
        <5>1. v.st # "panic" /\ v.op # "Listen"  BY <1>6, <2>3
        <5>2. v.fd # NoFd
          <6>1. CASE cl[c].op = "Listen"
            <7>1. v.fd = r.fd /\ r.type = "ListenReply"  BY <1>6, <2>3, <6>1
            <7>2. r.fd \in DOMAIN socket2cid  BY <1>2, <1>4, <7>1 DEF GivenIn, Owns
            <7>3. Len(sock) \in Nat  BY <1>2, LenProperties DEF TypeInv, SocketsOK
            <7>4. r.fd \in 1 .. Len(sock)  BY <1>2, <7>2 DEF TypeInv
            <7> QED  BY <7>1, <7>3, <7>4, NetSized
          <6>2. CASE cl[c].op # "Listen"
            <7>1. cl[c].fd # NoFd  BY <1>5, <2>1, <6>2 DEF CallInv
            <7> QED  BY <1>6, <6>2, <7>1
          <6> QED  BY <6>1, <6>2
        <5> QED  BY <1>7, <4>2, <5>1, <5>2
      <4> QED  BY <4>1, <4>2
    <3>2. \A j \in Range(req_items) \ {NetPollReq} :
             j.type = Request(cl'[j.client].op) /\ j.fd = cl'[j.client].fd
      BY <1>7, <2>1, <2>6 DEF CallInv
    <3>3. \A q \in Range(res_items)' : q.type = Expected(cl'[q.client].op)
      BY <1>4, <1>7, <2>1, <2>9 DEF CallInv
    <3>4. Awaited(Accepts, co, immediate, cl', Range(res_items)')
      <4>0. Awaited(Accepts, co, immediate, cl, Range(res_items))
        BY <2>1, CallNext DEF CallParts
      <4>1. ASSUME NEW d \in Accepts, co[d].caller = c
            PROVE  co[d].pc = "parked" /\ immediate[d] = NoItem /\ co[d].item = NoItem
        <5>1. ~Holding(d)  BY <2>2, <4>1 DEF Held
        <5>2. co[d].pc = "parked" /\ immediate[d] = NoItem
          BY <2>1, <5>1 DEF Holding, CoInv
        <5> QED  BY <4>0, <5>2 DEF Awaited
      <4>2. v.op # "Listen"  BY <1>6, <2>3
      <4>3. \A d \in Accepts : co[d].caller \in Clients  BY <2>1 DEF CoInv
      <4>4. \A a \in Clients \ {c} : (\E q \in Range(res_items) : q.client = a) =>
                                       \E q \in Range(res_items)' : q.client = a
        BY <1>4 DEF c
      <4> QED  BY <1>7, <4>0, <4>1, <4>2, <4>3, <4>4 DEF Awaited
    <3>5. \A d, e \in Accepts : co[d].caller = co[e].caller => d = e  BY <2>1 DEF CallInv
    <3> QED  BY <2>5, <3>1, <3>2, <3>3, <3>4, <3>5, CallNext DEF CallParts
  <2>11. TokenInv(sock)'
    <3>1. \A a \in Clients : Held(a)' <=> Held(a)  BY <2>5 DEF Held, Holding
    <3>2. \A a \in Clients : Places(a)' = Count(req_items, ItemsOf(a)) + Count(res_items', ItemsOf(a))
                                          + One(Held(a))
      BY <1>1, <3>1 DEF Places, One, Count
    <3>3. \A a \in Clients \ {c} : Places(a)' = Places(a)
      <4> SUFFICES ASSUME NEW a \in Clients \ {c}  PROVE Places(a)' = Places(a)
        OBVIOUS
      <4>1. One(r \in ItemsOf(a)) = 0  BY <2>4
      <4>2. Count(res_items, ItemsOf(a)) = Count(res_items', ItemsOf(a))  BY <1>t, <2>7, <4>1
      <4> QED  BY <3>2, <4>2 DEF Places
    <3>4. ASSUME NEW a \in Clients, a = c  PROVE Places(a)' = 0
      <4>1. One(Held(a)) = 0  BY <2>2, <3>4 DEF One
      <4> QED  BY <2>2, <2>8, <3>2, <3>4, <4>1
    <3> QED  BY <1>1, <1>6, <1>7, <2>1, <3>3, <3>4 DEF TokenInv
  <2> QED  BY <2>10, <2>11
<1>13. ~ex.panic => /\ Shape(ex') /\ CoInv' /\ SchedInv(ex, block_cids)'
                    /\ OrderInv(ex, block_cids)' /\ QueueInv' /\ WakesInv(ex)'
                    /\ StackInv(sock, peer, 0)' /\ GoodInv(sock, peer, block_cids, 0)'
                    /\ StrandInv'
  BY <1>1, <1>2, ClientKept
<1>14. ex'.panic = ex.panic  BY <1>1
<1> QED  BY <1>8, <1>10, <1>11, <1>12, <1>13, <1>14, NetParts2

-----------------------------------------------------------------------------
(* net_poll. *)

(* The network thread's own part of the state while it runs. *)
LEMMA Running ==
    ASSUME NetInv, ~ex.panic
    PROVE  /\ TypeInv /\ GivenIn(sock) /\ RunInv /\ Shape(ex) /\ CoInv /\ SchedInv(ex, block_cids)
           /\ OrderInv(ex, block_cids) /\ QueueInv
           /\ CallInv /\ TokenInv(sock) /\ WakesInv(ex)
           /\ StackInv(sock, peer, 0) /\ GoodInv(sock, peer, block_cids, 0) /\ StrandInv
           /\ Poller \in TaskIds /\ Receiver \in TaskIds /\ Poller # Receiver
BY NetParts, ShapeQueues, NetSized

(* The coroutine yields, or goes on; no other one is touched. *)
LEMMA NetPollAckStep ==
    ASSUME NetInv, NetPollAck, faults' = faults
    PROVE  NetInv'
<1>1. /\ running /\ ex.current = Poller /\ ~ex.panic /\ co[Poller].pc = "ack"
      /\ rx_cmplt' = FALSE /\ masked' = FALSE /\ co' = [co EXCEPT ![Poller].pc = "poll"]
      /\ running' = FALSE
      /\ UNCHANGED <<ex, immediate, cnt, req_items, res_items, recv_req_status,
                     recv_reply_status, sock, syn_queue, block_cids, socket2cid, frames,
                     late, peer, cl, reply>>
  BY DEF NetPollAck, Go, ring, stack, client
<1>2. /\ TypeInv /\ GivenIn(sock) /\ RunInv /\ Shape(ex) /\ CoInv /\ SchedInv(ex, block_cids)
      /\ OrderInv(ex, block_cids) /\ QueueInv
      /\ CallInv /\ TokenInv(sock) /\ WakesInv(ex)
      /\ StackInv(sock, peer, 0) /\ GoodInv(sock, peer, block_cids, 0) /\ StrandInv
      /\ Poller \in TaskIds /\ Receiver \in TaskIds /\ Poller # Receiver
  BY <1>1, Running
<1>3. co \in [TaskIds -> Contexts]  BY <1>2 DEF TypeInv
<1>4. /\ co' \in [TaskIds -> Contexts] /\ co'[Poller].pc = "poll"
      /\ \A d \in TaskIds \ {Poller} : co'[d] = co[d]
      /\ \A d \in TaskIds : co'[d].handler = co[d].handler /\ co'[d].caller = co[d].caller
                            /\ co'[d].item = co[d].item
  BY <1>1, <1>2, <1>3 DEF Contexts
<1>5. TypeInv'  BY <1>1, <1>2, <1>4 DEF TypeInv
<1>6. GivenIn(sock)'
  BY <1>1, <1>2, <1>4, GivenKept
<1>7. \A d : ~Run(d)'  BY <1>1 DEF Run
<1>8. \A d \in TaskIds \ {Poller, Receiver} : co'[d] = co[d] /\ ~Run(d)
  BY <1>1, <1>4 DEF Run
<1>9. AcceptPart  BY <1>1, <1>7, <1>8 DEF AcceptPart
<1>10. Accepts' = Accepts  BY <1>8, AcceptsSame
<1>11. CoInv'
  <2>1. Live(ex)' = Live(ex)  BY <1>1
  <2>2. \A d \in Accepts : co'[d] = co[d]  BY <1>8 DEF Accepts
  <2>3. co[Receiver].pc = "none"  BY <1>1, <1>2 DEF CoInv, Run
  <2> QED  BY <1>1, <1>2, <1>4, <1>10, <2>1, <2>2, <2>3 DEF CoInv
<1>12. SchedInv(ex, block_cids)' /\ OrderInv(ex, block_cids)' /\ QueueInv'
  BY <1>1, <1>2, <1>9, SchedKept, QueueKept
<1>13. CallInv' /\ TokenInv(sock)'
  <2>1. CallInv' /\ \A a \in Clients : Places(a)' = Places(a)  BY <1>1, <1>2, <1>8, CallKept
  <2> QED  BY <1>1, <1>2, <2>1, TokenKept
<1>14. WakesInv(ex)'
  <2>1. /\ Count(req_items, {NetPollReq}) \in Nat
        /\ Len(ex.ready[0]) \in Nat /\ Len(ex.ready[1]) \in Nat
        /\ One(masked) \in {0, 1} /\ One(recv_req_status) \in {0, 1}
        /\ One(Run(Receiver)) \in {0, 1} /\ One(Receiver \in ex.delay) \in {0, 1}
    BY <1>2, WakesFacts
  <2>2. One(Run(Poller)) = 1 /\ One(Run(Poller)') = 0 /\ One(Run(Receiver)') = 0
        /\ One(masked') = 0
    BY <1>1, <1>7 DEF One, Run
  <2>3. /\ Count(req_items, {NetPollReq}) + Len(ex.ready[0]) + One(Run(Poller)) <= 1 + One(masked)
        /\ Len(ex.ready[1]) + One(Receiver \in ex.delay) + One(Run(Receiver))
              <= 1 + One(recv_req_status)
        /\ One(recv_req_status)
              <= Len(ex.ready[1]) + One(Receiver \in ex.delay) + One(Run(Receiver))
    BY <1>2 DEF WakesInv
  <2>4. Count(req_items, {NetPollReq}) + Len(ex.ready[0]) + One(Run(Poller)') <= 1 + One(masked')
    BY <2>1, <2>2, <2>3
  <2>5. Len(ex.ready[1]) + One(Receiver \in ex.delay) + One(Run(Receiver)')
              <= 1 + One(recv_req_status)
    BY <2>1, <2>2, <2>3
  <2>6. One(Run(Receiver)) = 0  BY <1>1, <1>2 DEF One, Run
  <2>7. One(recv_req_status)
              <= Len(ex.ready[1]) + One(Receiver \in ex.delay) + One(Run(Receiver)')
    BY <2>1, <2>2, <2>3, <2>6
  <2> QED  BY <1>1, <2>4, <2>5, <2>7 DEF WakesInv, One, Run, Count, NetPollReq
<1>15. StackInv(sock, peer, 0)' /\ GoodInv(sock, peer, block_cids, 0)'
  BY <1>1, <1>2, <1>8, StackSame
<1>16. StrandInv'  BY <1>1, <1>2, <1>4 DEF StrandInv
<1>17. Sizes => ~ex'.panic  BY <1>1
<1> QED  BY <1>1, <1>2, <1>5, <1>6, <1>11, <1>12, <1>13, <1>14, <1>15, <1>16, <1>17, NetParts2

(* The state after a poll, the executor aside. *)
LEMMA PollNext ==
    ASSUME PollRun(IfacePoll(ex, sock), Len(frames)), Polled(IfacePoll(ex, sock)),
           UNCHANGED <<syn_queue, faults>>,
           \A d \in TaskIds \ {Poller, Receiver} : co'[d] = co[d]
    PROVE  StackInv(sock, peer, 0)' /\ GoodInv(sock, peer, block_cids, 0)'
<1> DEFINE w == IfacePoll(ex, sock)
<1>1. PollRun(w, Len(frames)) /\ sock' = w.sock /\ block_cids' = w.blk /\ peer' = w.peer
      /\ frames' = <<>>
  BY DEF Polled
<1> HIDE DEF w
<1>2. StackInv(w.sock, w.peer, Len(frames)) /\ GoodInv(w.sock, w.peer, w.blk, Len(frames))
  BY <1>1 DEF PollRun
<1>3. DOMAIN frames' = {}  BY <1>1
<1>4. Listeners' = Listeners /\ \A d \in Listeners : co'[d] = co[d]
  BY AcceptsSame DEF Listeners, Accepts
<1>5. Range(syn_queue)' = Range(syn_queue) /\ (Prompt' <=> Prompt)  BY DEF Prompt
<1>6. StackInv(sock, peer, 0)'  BY <1>1, <1>2, <1>3, <1>5 DEF StackInv, Connected
<1>7. GoodInv(sock, peer, block_cids, 0)'  BY <1>1, <1>2, <1>3, <1>4, <1>5 DEF GoodInv
<1> QED  BY <1>6, <1>7

(* Types and handles after a poll. *)
LEMMA PollTypeNext ==
    ASSUME TypeInv, PollType(IfacePoll(ex, sock)), Polled(IfacePoll(ex, sock))
    PROVE  /\ SocketsOK(sock') /\ Len(sock') = Len(sock) /\ DOMAIN sock' = DOMAIN sock
           /\ block_cids' \in Seq(TaskIds) /\ peer' \in [Peers -> Hosts]
           /\ frames' \in Seq(Received)
           /\ \A h \in DOMAIN sock : sock[h].st \in {"established", "closed"} =>
                                     sock'[h].st \in {"established", "closed"}
<1> DEFINE w == IfacePoll(ex, sock)
<1>1. PollType(w) /\ sock' = w.sock /\ block_cids' = w.blk /\ peer' = w.peer /\ frames' = <<>>
  BY DEF Polled
<1> HIDE DEF w
<1>2. DOMAIN w.sock = 1 .. Len(w.sock)  BY <1>1, LenProperties DEF PollType, SocketsOK
<1>3. DOMAIN sock = 1 .. Len(sock)  BY LenProperties DEF TypeInv, SocketsOK
<1> QED  BY <1>1, <1>2, <1>3 DEF PollType

LEMMA NetPollStep ==
    ASSUME NetInv, NetPoll, faults' = faults
    PROVE  NetInv'
<1> DEFINE w == IfacePoll(ex, sock)
<1>1. /\ running /\ ex.current = Poller /\ ~ex.panic /\ co[Poller].pc = "poll"
      /\ Polled(w) /\ ex' = w.ex /\ co' = [co EXCEPT ![Poller].pc = "ack"]
      /\ UNCHANGED <<running, immediate, cnt, req_items, res_items, recv_req_status,
                     recv_reply_status, syn_queue, socket2cid, rx_cmplt, masked,
                     cl, reply>>
  BY DEF NetPoll, Go, ring, client
<1>2. /\ TypeInv /\ GivenIn(sock) /\ RunInv /\ Shape(ex) /\ CoInv /\ SchedInv(ex, block_cids)
      /\ OrderInv(ex, block_cids) /\ QueueInv
      /\ CallInv /\ TokenInv(sock) /\ WakesInv(ex)
      /\ StackInv(sock, peer, 0) /\ GoodInv(sock, peer, block_cids, 0) /\ StrandInv
      /\ Poller \in TaskIds /\ Receiver \in TaskIds /\ Poller # Receiver
  BY <1>1, Running
<1>3. co \in [TaskIds -> Contexts]  BY <1>2 DEF TypeInv
<1>4. /\ co' \in [TaskIds -> Contexts] /\ co'[Poller].pc = "ack"
      /\ \A d \in TaskIds \ {Poller} : co'[d] = co[d]
      /\ \A d \in TaskIds : co'[d].handler = co[d].handler /\ co'[d].caller = co[d].caller
                            /\ co'[d].item = co[d].item
  BY <1>1, <1>2, <1>3 DEF Contexts
<1>5. PollInv(w, Len(frames))  BY <1>2, PollFacts
<1>6. PollType(w) /\ (~w.ex.panic => PollRun(w, Len(frames))) /\ (Sizes => ~w.ex.panic)
  BY <1>5 DEF PollInv
<1>7. /\ SocketsOK(sock') /\ Len(sock') = Len(sock) /\ DOMAIN sock' = DOMAIN sock
      /\ block_cids' \in Seq(TaskIds) /\ peer' \in [Peers -> Hosts]
      /\ frames' \in Seq(Received)
      /\ \A h \in DOMAIN sock : sock[h].st \in {"established", "closed"} =>
                                sock'[h].st \in {"established", "closed"}
  BY <1>1, <1>2, <1>6, PollTypeNext
<1>8. \A d \in TaskIds \ {Poller, Receiver} : co'[d] = co[d]  BY <1>4
<1>9. ~w.ex.panic => StackInv(sock, peer, 0)' /\ GoodInv(sock, peer, block_cids, 0)'
  BY <1>1, <1>6, <1>8, PollNext
<1>10. /\ sock' = w.sock /\ block_cids' = w.blk /\ frames' = <<>> /\ late' = FALSE
  BY <1>1 DEF Polled
<1> HIDE DEF w
<1>11. /\ ExecutorType(ex') /\ ex'.delay = ex.delay /\ Frame(ex, ex')  BY <1>1, <1>6 DEF PollType
<1>12. TypeInv'  BY <1>1, <1>2, <1>4, <1>7, <1>10, <1>11 DEF TypeInv
<1>13. GivenIn(sock)'  BY <1>1, <1>2, <1>4, <1>7, GivenKept
<1>14. Sizes => ~ex'.panic  BY <1>1, <1>6
<1>15. ASSUME ~ex'.panic
       PROVE  /\ Shape(ex') /\ CoInv' /\ SchedInv(ex, block_cids)'
              /\ OrderInv(ex, block_cids)' /\ QueueInv'
              /\ CallInv' /\ TokenInv(sock)' /\ WakesInv(ex)'
              /\ StackInv(sock, peer, 0)' /\ GoodInv(sock, peer, block_cids, 0)'
              /\ StrandInv'
  <2>1. PollRun(w, Len(frames))  BY <1>1, <1>6, <1>15
  <2>2. /\ Shape(ex') /\ ex'.ready[0] = ex.ready[0] /\ ex'.ready[1] = ex.ready[1]
        /\ SchedInv(ex', block_cids') /\ OrderInv(ex', block_cids')
        /\ \A h \in DOMAIN sock : sock[h].st = "closed" => sock'[h].st = "closed"
    BY <1>1, <1>10, <2>1 DEF PollRun
  <2>3. /\ ex'.tasks = ex.tasks /\ ex'.current = ex.current  BY <1>11 DEF Frame
  <2>4. \A d : Run(d)' <=> Run(d)  BY <1>1, <2>3 DEF Run
  <2>5. Accepts' = Accepts /\ Listeners' = Listeners /\ \A d \in Accepts : co'[d] = co[d]
    BY <1>8, AcceptsSame DEF Accepts
  <2>6. CoInv'
    <3>1. Live(ex)' = Live(ex)  BY <2>3 DEF Live
    <3>2. Run(Poller)'  BY <1>1, <2>4 DEF Run
    <3>3. co'[Receiver].pc = "none"  BY <1>1, <1>2, <1>4 DEF CoInv, Run
    <3> QED  BY <1>1, <1>2, <1>4, <2>3, <2>5, <3>1, <3>2, <3>3 DEF CoInv
  <2>7. SchedInv(ex, block_cids)' /\ OrderInv(ex, block_cids)'
    <3>1. Queued(ex, 2)' = Queued(ex', 2) /\ Range(block_cids)' = Range(block_cids')
      BY DEF Queued, Range
    <3>2. SchedInv(ex, block_cids)'  BY <1>1, <2>2, <2>4, <2>5, <3>1 DEF SchedInv
    <3>3. \A d, e \in Accepts : Before(d, e)' <=> Before(d, e)  BY <2>5 DEF Before
    <3>4. \A d \in Listeners : d \in Accepts  BY DEF Listeners
    <3>5. Range(block_cids') \subseteq Accepts  BY <2>2 DEF OrderInv, Range
    <3>6. OrderInv(ex, block_cids)'
      BY <2>2, <2>4, <2>5, <3>1, <3>3, <3>4, <3>5 DEF OrderInv
    <3> QED  BY <3>2, <3>6
  <2>8. QueueInv'
    <3>1. \A d \in Listeners : co'[d] = co[d]  BY <2>5 DEF Listeners
    <3>2. {co[d].handler : d \in Listeners}' = {co[d].handler : d \in Listeners}  BY <2>5, <3>1
    <3> QED  BY <1>1, <1>2, <2>5, <3>2 DEF QueueInv
  <2>9. CallInv' /\ TokenInv(sock)'
    <3>1. CallInv' /\ \A a \in Clients : Places(a)' = Places(a)  BY <1>1, <1>2, <1>8, CallKept
    <3>2. \A a \in Clients : cl[a].fd # NoFd => cl[a].fd \in DOMAIN sock
      <4>1. DOMAIN sock = 1 .. Len(sock)  BY <1>2, LenProperties DEF TypeInv, SocketsOK
      <4> QED  BY <1>2, <4>1 DEF GivenIn, Owns, TypeInv
    <3> QED  BY <1>1, <1>2, <2>2, <3>1, <3>2, TokenKept
  <2>10. WakesInv(ex)'
    <3>1. One(Run(Poller)') = One(Run(Poller)) /\ One(Run(Receiver)') = One(Run(Receiver))
          /\ One(Receiver \in ex'.delay) = One(Receiver \in ex.delay)
      BY <1>11, <2>4 DEF One
    <3> QED  BY <1>1, <1>2, <1>11, <2>2, <2>3 DEF WakesInv, One, Run, Count, NetPollReq
  <2>11. StrandInv'  BY <1>1, <1>10, <2>4 DEF StrandInv, Run
  <2> QED  BY <1>1, <1>9, <1>15, <2>2, <2>6, <2>7, <2>8, <2>9, <2>10, <2>11
<1> QED  BY <1>12, <1>13, <1>14, <1>15, NetParts2

-----------------------------------------------------------------------------
(* nw_recv_req_coroutine. *)

LEMMA ReqEmptyStep ==
    ASSUME NetInv, ReqEmpty, faults' = faults
    PROVE  NetInv'
<1>1. /\ running /\ ex.current = Receiver /\ ~ex.panic
      /\ co' = [co EXCEPT ![Receiver].pc = "clear"]
      /\ UNCHANGED <<ex, running, cnt, recv_req_status, immediate, req_items, res_items,
                     recv_reply_status, sock, syn_queue, block_cids, socket2cid, frames, rx_cmplt,
                     masked, late, peer, cl, reply>>
  BY DEF ReqEmpty, Go, ring, stack, device, client
<1>2. /\ TypeInv /\ GivenIn(sock) /\ RunInv /\ Shape(ex) /\ CoInv /\ SchedInv(ex, block_cids)
      /\ OrderInv(ex, block_cids) /\ QueueInv
      /\ CallInv /\ TokenInv(sock) /\ WakesInv(ex)
      /\ StackInv(sock, peer, 0) /\ GoodInv(sock, peer, block_cids, 0) /\ StrandInv
      /\ Poller \in TaskIds /\ Receiver \in TaskIds /\ Poller # Receiver
  BY <1>1, Running
<1>3. co \in [TaskIds -> Contexts]  BY <1>2 DEF TypeInv
<1>4. /\ co' \in [TaskIds -> Contexts] /\ co'[Receiver].pc = "clear"
      /\ \A d \in TaskIds \ {Receiver} : co'[d] = co[d]
      /\ \A d \in TaskIds : co'[d].handler = co[d].handler /\ co'[d].caller = co[d].caller
                            /\ co'[d].item = co[d].item
  BY <1>1, <1>2, <1>3 DEF Contexts
<1>5. TypeInv'
  <2>1. cnt' \in 0 .. SwitchCnt - 1  BY <1>1, <1>2, NetSized DEF TypeInv
  <2> QED  BY <1>1, <1>2, <1>4, <2>1 DEF TypeInv
<1>6. GivenIn(sock)'  BY <1>1, <1>2, <1>4, GivenKept
<1>7. \A d : (Run(d)' <=> Run(d)) /\ (d # Receiver => ~Run(d))  BY <1>1 DEF Run
<1>8. \A d \in TaskIds \ {Poller, Receiver} : co'[d] = co[d] /\ ~Run(d)
  BY <1>1, <1>4 DEF Run
<1>9. AcceptPart  BY <1>1, <1>7, <1>8 DEF AcceptPart
<1>10. Accepts' = Accepts  BY <1>8, AcceptsSame
<1>11. CoInv'
  <2>1. Live(ex)' = Live(ex)  BY <1>1
  <2>2. \A d \in Accepts : co'[d] = co[d]  BY <1>8 DEF Accepts
  <2>3. co[Poller].pc = "poll" /\ co'[Poller] = co[Poller]
    BY <1>1, <1>2, <1>4 DEF CoInv, Run
  <2>4. Run(Receiver)' /\ ex'.current \in Live(ex)  BY <1>1, <1>2, <1>7 DEF CoInv, Run
  <2> QED  BY <1>1, <1>2, <1>4, <1>10, <2>1, <2>2, <2>3, <2>4 DEF CoInv
<1>12. SchedInv(ex, block_cids)' /\ OrderInv(ex, block_cids)' /\ QueueInv'
  BY <1>1, <1>2, <1>9, SchedKept, QueueKept
<1>13. CallInv' /\ TokenInv(sock)'
  <2>1. CallInv' /\ \A a \in Clients : Places(a)' = Places(a)  BY <1>1, <1>2, <1>8, CallKept
  <2> QED  BY <1>1, <1>2, <2>1, TokenKept
<1>14. WakesInv(ex)'  BY <1>1, <1>2, <1>7 DEF WakesInv, One, Count, NetPollReq
<1>15. StackInv(sock, peer, 0)' /\ GoodInv(sock, peer, block_cids, 0)'
  BY <1>1, <1>2, <1>8, StackSame
<1>16. StrandInv'
  <2>1. co'[Poller] = co[Poller]  BY <1>2, <1>4
  <2> QED  BY <1>1, <1>2, <1>7, <2>1 DEF StrandInv, NetPollReq, Queued
<1>17. Sizes => ~ex'.panic  BY <1>1
<1> QED  BY <1>1, <1>2, <1>5, <1>6, <1>11, <1>12, <1>13, <1>14, <1>15, <1>16, <1>17, NetParts2

LEMMA ReqIdleStep ==
    ASSUME NetInv, ReqIdle, faults' = faults
    PROVE  NetInv'
<1>1. /\ running /\ ex.current = Receiver /\ ~ex.panic
      /\ recv_req_status' = FALSE /\ cnt' = 0 /\ running' = FALSE
      /\ co' = [co EXCEPT ![Receiver].pc = "none"]
      /\ UNCHANGED <<ex, immediate, req_items, res_items, recv_reply_status, sock,
                     syn_queue, block_cids, socket2cid, frames, rx_cmplt, masked, late, peer,
                     cl, reply>>
  BY DEF ReqIdle, Go, stack, device, client
<1>2. /\ TypeInv /\ GivenIn(sock) /\ RunInv /\ Shape(ex) /\ CoInv /\ SchedInv(ex, block_cids)
      /\ OrderInv(ex, block_cids) /\ QueueInv
      /\ CallInv /\ TokenInv(sock) /\ WakesInv(ex)
      /\ StackInv(sock, peer, 0) /\ GoodInv(sock, peer, block_cids, 0) /\ StrandInv
      /\ Poller \in TaskIds /\ Receiver \in TaskIds /\ Poller # Receiver
  BY <1>1, Running
<1>3. co \in [TaskIds -> Contexts]  BY <1>2 DEF TypeInv
<1>4. /\ co' \in [TaskIds -> Contexts] /\ co'[Receiver].pc = "none"
      /\ \A d \in TaskIds \ {Receiver} : co'[d] = co[d]
      /\ \A d \in TaskIds : co'[d].handler = co[d].handler /\ co'[d].caller = co[d].caller
                            /\ co'[d].item = co[d].item
  BY <1>1, <1>2, <1>3 DEF Contexts
<1>5. TypeInv'
  <2>1. cnt' \in 0 .. SwitchCnt - 1  BY <1>1, <1>2, NetSized DEF TypeInv
  <2> QED  BY <1>1, <1>2, <1>4, <2>1 DEF TypeInv
<1>6. GivenIn(sock)'  BY <1>1, <1>2, <1>4, GivenKept
<1>7. \A d : ~Run(d)' /\ (d # Receiver => ~Run(d))  BY <1>1 DEF Run
<1>8. \A d \in TaskIds \ {Poller, Receiver} : co'[d] = co[d] /\ ~Run(d)
  BY <1>1, <1>4 DEF Run
<1>9. AcceptPart  BY <1>1, <1>7, <1>8 DEF AcceptPart
<1>10. Accepts' = Accepts  BY <1>8, AcceptsSame
<1>11. CoInv'
  <2>1. Live(ex)' = Live(ex)  BY <1>1
  <2>2. \A d \in Accepts : co'[d] = co[d]  BY <1>8 DEF Accepts
  <2>3. co[Poller].pc = "poll" /\ co'[Poller] = co[Poller]
    BY <1>1, <1>2, <1>4 DEF CoInv, Run
  <2> QED  BY <1>1, <1>2, <1>4, <1>10, <2>1, <2>2, <2>3 DEF CoInv
<1>12. SchedInv(ex, block_cids)' /\ OrderInv(ex, block_cids)' /\ QueueInv'
  BY <1>1, <1>2, <1>9, SchedKept, QueueKept
<1>13. CallInv' /\ TokenInv(sock)'
  <2>1. CallInv' /\ \A a \in Clients : Places(a)' = Places(a)  BY <1>1, <1>2, <1>8, CallKept
  <2> QED  BY <1>1, <1>2, <2>1, TokenKept
<1>14. WakesInv(ex)'
  <2>1. /\ Count(req_items, {NetPollReq}) \in Nat
        /\ Len(ex.ready[0]) \in Nat /\ Len(ex.ready[1]) \in Nat
        /\ One(masked) \in {0, 1} /\ One(recv_req_status) \in {0, 1}
        /\ One(Run(Poller)) \in {0, 1} /\ One(Receiver \in ex.delay) \in {0, 1}
    BY <1>2, WakesFacts
  <2>2. One(Run(Receiver)) = 1 /\ One(Run(Poller)') = 0 /\ One(Run(Receiver)') = 0
        /\ One(recv_req_status') = 0
    BY <1>1, <1>7 DEF One, Run
  <2>3. /\ Count(req_items, {NetPollReq}) + Len(ex.ready[0]) + One(Run(Poller)) <= 1 + One(masked)
        /\ Len(ex.ready[1]) + One(Receiver \in ex.delay) + One(Run(Receiver))
              <= 1 + One(recv_req_status)
    BY <1>2 DEF WakesInv
  <2>4. Count(req_items, {NetPollReq}) + Len(ex.ready[0]) + One(Run(Poller)') <= 1 + One(masked)
    BY <2>1, <2>2, <2>3
  <2>5. Len(ex.ready[1]) + One(Receiver \in ex.delay) + One(Run(Receiver)')
              <= 1 + One(recv_req_status')
    BY <2>1, <2>2, <2>3
  <2>6. One(recv_req_status')
              <= Len(ex.ready[1]) + One(Receiver \in ex.delay) + One(Run(Receiver)')
    BY <2>1, <2>2
  <2> QED  BY <1>1, <2>4, <2>5, <2>6 DEF WakesInv, One, Run, Count, NetPollReq
<1>15. StackInv(sock, peer, 0)' /\ GoodInv(sock, peer, block_cids, 0)'
  BY <1>1, <1>2, <1>8, StackSame
<1>16. StrandInv'
  <2>1. co'[Poller] = co[Poller]  BY <1>2, <1>4
  <2> QED  BY <1>1, <1>2, <1>7, <2>1 DEF StrandInv, NetPollReq, Queued
<1>17. Sizes => ~ex'.panic  BY <1>1
<1> QED  BY <1>1, <1>2, <1>5, <1>6, <1>11, <1>12, <1>13, <1>14, <1>15, <1>16, <1>17, NetParts2

(* A request leaves the ring. *)
LEMMA TakeReqFacts ==
    ASSUME TypeInv, NEW t, TakeReq(t)
    PROVE  LET i == Head(req_items)
           IN  /\ running /\ ex.current = Receiver /\ ~ex.panic /\ co[Receiver].pc = "none"
               /\ recv_req_status' = recv_req_status
               /\ i.type = t /\ i \in Range(req_items) /\ i \in Requests \cup {NetPollReq}
               /\ t # "NetPollReq" => i \in Requests /\ i.client \in Clients
               /\ req_items' \in Seq(Requests \cup {NetPollReq})
               /\ Range(req_items) = Range(req_items)' \cup {i}
               /\ \A T : Count(req_items, T) = Count(req_items', T) + One(i \in T)
<1>1. req_items \in Seq(Requests \cup {NetPollReq})  BY DEF TypeInv
<1>2. /\ running /\ ex.current = Receiver /\ ~ex.panic /\ co[Receiver].pc = "none"
      /\ recv_req_status' = recv_req_status /\ req_items # <<>>
      /\ Head(req_items).type = t /\ req_items' = Tail(req_items)
  BY DEF TakeReq, Go
<1>3. /\ Range(req_items) = Range(Tail(req_items)) \cup {Head(req_items)}
      /\ Head(req_items) \in Range(req_items) /\ Head(req_items) \in Requests \cup {NetPollReq}
      /\ Tail(req_items) \in Seq(Requests \cup {NetPollReq})
  BY <1>1, <1>2, RangeTail
<1>4. Range(req_items)' = Range(req_items')  BY DEF Range
<1>5. ASSUME NEW T  PROVE Count(req_items, T) = Count(req_items', T) + One(Head(req_items) \in T)
  BY <1>1, <1>2, CountTail
<1>6. t # "NetPollReq" => Head(req_items) \in Requests /\ Head(req_items).client \in Clients
  <2>1. NetPollReq.type = "NetPollReq"  BY DEF NetPollReq
  <2> QED  BY <1>2, <1>3, <2>1, ItemFacts
<1> QED  BY <1>2, <1>3, <1>4, <1>5, <1>6

(* The receiver goes on, or gives way to a coroutine of a higher priority. *)
LEMMA ReqDoneRun ==
    ASSUME TypeInv, WakesInv(ex), Shape(ex), running, ex.current = Receiver,
           NEW e, Shape(e), e.current = Receiver, e.delay = ex.delay, e.ready[1] = ex.ready[1],
           ReqDone(e), recv_req_status' = recv_req_status
    PROVE  /\ ~ex'.panic =>
                 /\ Shape(ex') /\ Frame(e, ex')
                 /\ \A q \in Prios \ {1} : ex'.ready[q] = e.ready[q]
                 /\ \A d : d # Receiver => ~Run(d) /\ ~Run(d)'
                 /\ Len(ex'.ready[1]) + One(Receiver \in ex'.delay) + One(Run(Receiver)')
                       \in 1 .. 1 + One(recv_req_status)
           /\ Sizes => ~ex'.panic
<1>1. cnt \in 0 .. SwitchCnt - 1  BY DEF TypeInv
<1>2. /\ ~ex'.panic =>
            /\ Shape(ex') /\ Frame(e, ex')
            /\ \A q \in Prios \ {1} : ex'.ready[q] = e.ready[q]
            /\ Len(ex'.ready[1]) + One(Receiver \in ex'.delay) + One(running')
                  <= Len(e.ready[1]) + One(Receiver \in e.delay) + 1
            /\ running' \/ Len(ex'.ready[1]) >= 1
      /\ Len(e.ready[1]) + One(Receiver \in e.delay) <= 1 /\ MaxTask > 2 => ~ex'.panic
  BY <1>1, ReqDoneShape
<1>3. Len(ex.ready[1]) + One(Receiver \in ex.delay) + One(Run(Receiver)) <= 1 + One(recv_req_status)
  BY DEF WakesInv
<1>4. One(Run(Receiver)) = 1  BY DEF One, Run
<1>5. /\ Len(ex.ready[1]) \in Nat /\ One(Receiver \in ex.delay) \in {0, 1}
      /\ One(recv_req_status) \in {0, 1}
  BY WakesFacts
<1>6. Len(e.ready[1]) + One(Receiver \in e.delay) <= One(recv_req_status)
  BY <1>3, <1>4, <1>5
<1>7. ASSUME ~ex'.panic
      PROVE  /\ \A d : d # Receiver => ~Run(d) /\ ~Run(d)'
             /\ Len(ex'.ready[1]) + One(Receiver \in ex'.delay) + One(Run(Receiver)')
                   \in 1 .. 1 + One(recv_req_status)
  <2>1. ex'.current = Receiver  BY <1>2, <1>7 DEF Frame
  <2>2. Run(Receiver)' <=> running'  BY <2>1 DEF Run
  <2>3. One(Run(Receiver)') = One(running')  BY <2>2 DEF One
  <2>4. \A d : d # Receiver => ~Run(d) /\ ~Run(d)'  BY <2>1 DEF Run
  <2>5. Shape(ex')  BY <1>2, <1>7
  <2>6. Len(ex'.ready[1]) \in Nat /\ \A b : One(b) \in {0, 1}  BY <2>5, ShapeQueues, NetSized, OneType
  <2>7. Len(ex'.ready[1]) + One(Receiver \in ex'.delay) + One(running')
                  <= Len(e.ready[1]) + One(Receiver \in e.delay) + 1
    BY <1>2, <1>7
  <2>8. One(Receiver \in ex'.delay) \in {0, 1} /\ One(running') \in {0, 1}  BY <2>6
  <2>9. Len(e.ready[1]) \in Nat /\ One(Receiver \in e.delay) \in {0, 1}  BY <1>5
  <2>10. Len(ex'.ready[1]) + One(Receiver \in ex'.delay) + One(running') <= 1 + One(recv_req_status)
    <3>1. Len(ex'.ready[1]) \in Nat  BY <2>6
    <3> DEFINE A == Len(ex'.ready[1]) + One(Receiver \in ex'.delay) + One(running')
               B == Len(e.ready[1]) + One(Receiver \in e.delay)
               S == One(recv_req_status)
    <3>2. A \in Nat /\ B \in Nat /\ S \in Nat
      <4>1. One(Receiver \in ex'.delay) \in Nat /\ One(running') \in Nat
            /\ One(Receiver \in e.delay) \in Nat
        BY <2>8, <2>9
      <4> QED  BY <1>5, <2>9, <3>1, <4>1
    <3>3. A <= B + 1 /\ B <= S  BY <1>6, <2>7
    <3> HIDE DEF A, B, S
    <3>4. A <= 1 + S  BY <3>2, <3>3
    <3> QED  BY <3>4 DEF A, S
  <2>11. 1 <= Len(ex'.ready[1]) + One(Receiver \in ex'.delay) + One(running')
    <3>1. running' \/ Len(ex'.ready[1]) >= 1  BY <1>2, <1>7
    <3>2. running' => One(running') = 1  BY DEF One
    <3> QED  BY <2>6, <2>8, <3>1, <3>2
  <2>12. Len(ex'.ready[1]) + One(Receiver \in ex'.delay) + One(running') \in Nat
         /\ One(recv_req_status) \in Nat
    BY <1>5, <2>6, <2>8
  <2> QED  BY <2>3, <2>4, <2>10, <2>11, <2>12
<1>8. Sizes => ~ex'.panic
  <2>1. Len(e.ready[1]) + One(Receiver \in e.delay) <= 1  BY <1>5, <1>6
  <2> QED  BY <1>2, <2>1 DEF Sizes
<1> QED  BY <1>2, <1>7, <1>8

(* The receiver's step leaves the other coroutines alone. *)
LEMMA ReqKept ==
    ASSUME CoInv, SchedInv(ex, block_cids), OrderInv(ex, block_cids), QueueInv, Shape(ex),
           UNCHANGED <<co, immediate, syn_queue, block_cids>>,
           ex'.ready[2] = ex.ready[2], ex'.tasks = ex.tasks, ex'.current = Receiver,
           \A d : d # Receiver => ~Run(d) /\ ~Run(d)', co[Receiver].pc = "none"
    PROVE  CoInv' /\ SchedInv(ex, block_cids)' /\ OrderInv(ex, block_cids)' /\ QueueInv'
<1>1. AcceptPart  BY DEF AcceptPart
<1>2. Live(ex)' = Live(ex) /\ Accepts' = Accepts  BY DEF Live, Accepts
<1>3. co[Poller].pc # "ack"  BY NetSized DEF CoInv
<1>4. CoInv'  BY <1>2, <1>3 DEF CoInv, Shape
<1> QED  BY <1>1, <1>4, SchedKept, QueueKept

LEMMA ReqWakes ==
    ASSUME TypeInv, WakesInv(ex), masked' = masked, recv_req_status' = recv_req_status,
           Count(req_items', {NetPollReq}) + Len(ex'.ready[0])
              = Count(req_items, {NetPollReq}) + Len(ex.ready[0]),
           \A d : d # Receiver => ~Run(d) /\ ~Run(d)',
           Len(ex'.ready[1]) + One(Receiver \in ex'.delay) + One(Run(Receiver)')
              \in 1 .. 1 + One(recv_req_status)
    PROVE  WakesInv(ex)'
<1>1. One(Run(Poller)) = 0 /\ One(Run(Poller)') = 0  BY NetSized DEF One
<1>2. Count(req_items, {NetPollReq}) + Len(ex.ready[0]) + One(Run(Poller)) <= 1 + One(masked)
  BY DEF WakesInv
<1>3. Count(req_items', {NetPollReq}) + Len(ex'.ready[0]) + One(Run(Poller)') <= 1 + One(masked')
  BY <1>1, <1>2
<1>4. Count(req_items, {NetPollReq})' = Count(req_items', {NetPollReq})  BY DEF Count, NetPollReq
<1>5. One(recv_req_status) \in {0, 1}  BY OneType
<1>6. /\ Len(ex'.ready[1]) + One(Receiver \in ex'.delay) + One(Run(Receiver)') <= 1 + One(recv_req_status')
      /\ One(recv_req_status') <= Len(ex'.ready[1]) + One(Receiver \in ex'.delay) + One(Run(Receiver)')
  BY <1>5
<1> QED  BY <1>3, <1>4, <1>6 DEF WakesInv, One, Run

(* The ring of replies has room for everyone's. *)
LEMMA ResRoom ==
    ASSUME TypeInv, TokenInv(sock), Sizes
    PROVE  ~ResFull
<1>1. IsFiniteSet(Clients) /\ RingSize >= Cardinality(Clients) + 2 /\ RingSize \in Nat
  BY NetSized DEF Sizes
<1>2. res_items \in Seq(Replies) /\ res_items \in Seq(Items)
  <2>1. res_items \in Seq(Replies)  BY DEF TypeInv
  <2>2. Replies \subseteq Items  BY DEF Items
  <2> QED  BY <2>1, <2>2
<1>3. ASSUME NEW c \in Clients  PROVE Count(res_items, ItemsOf(c)) <= One(c \in Clients)
  <2>1. Places(c) <= 1  BY TokenAt
  <2>2. One(c \in Clients) = 1  BY DEF One
  <2>3. Count(req_items, ItemsOf(c)) \in Nat /\ Count(res_items, ItemsOf(c)) \in Nat
        /\ One(Held(c)) \in {0, 1}
    BY PlacesType
  <2> QED  BY <2>1, <2>2, <2>3 DEF Places
<1>4. Len(res_items) <= Count(res_items, {NetPollReq}) + Cardinality(Clients)
  BY <1>1, <1>2, <1>3, RingLength
<1>5. Count(res_items, {NetPollReq}) = 0
  <2>1. \A r \in Range(res_items) : r \notin {NetPollReq}  BY <1>2, RangeIn, ItemFacts
  <2> QED  BY <1>2, <2>1, CountType
<1>6. Len(res_items) \in Nat /\ Cardinality(Clients) \in Nat
  BY <1>1, <1>2, RangeIn, FS_CardinalityType
<1> QED  BY <1>1, <1>4, <1>5, <1>6 DEF ResFull

(* A reply enters its ring. *)
LEMMA PushResFacts ==
    ASSUME TypeInv, NEW r \in Replies, PushRes(r)
    PROVE  /\ res_items' \in Seq(Replies)
           /\ recv_reply_status' \in BOOLEAN /\ ReplyOK(recv_reply_status, reply)'
           /\ Range(res_items)' = Range(res_items) \cup {r}
           /\ \A T : Count(res_items', T) = Count(res_items, T) + One(r \in T)
<1>1. res_items \in Seq(Replies) /\ res_items' = Append(res_items, r)  BY DEF TypeInv, PushRes
<1>2. recv_reply_status' \in BOOLEAN /\ ReplyOK(recv_reply_status, reply)'
  <2>1. /\ recv_reply_status' = TRUE
        /\ reply' = IF recv_reply_status THEN reply ELSE [reply EXCEPT !.wakes = @ + 1]
    BY DEF PushRes
  <2>2. reply \in [wakes : Nat, pc : {"read", "clear"}] /\ (recv_reply_status => reply.wakes > 0)
    BY DEF TypeInv, ReplyOK
  <2>3. CASE recv_reply_status  BY <2>1, <2>2, <2>3 DEF ReplyOK
  <2>4. CASE ~recv_reply_status
    <3>1. reply.wakes + 1 \in Nat /\ reply.wakes + 1 > 0  BY <2>2
    <3> QED  BY <2>1, <2>2, <2>4, <3>1 DEF ReplyOK
  <2> QED  BY <2>3, <2>4
<1>3. Range(Append(res_items, r)) = Range(res_items) \cup {r}  BY <1>1, RangeAppend
<1>4. Range(res_items)' = Range(res_items')  BY DEF Range
<1>5. ASSUME NEW T  PROVE Count(res_items', T) = Count(res_items, T) + One(r \in T)
  BY <1>1, CountAppend
<1>6. res_items' \in Seq(Replies)  BY <1>1, AppendFacts
<1> QED  BY <1>1, <1>2, <1>3, <1>4, <1>5, <1>6

(* The request of a client that is taken from the ring. *)
LEMMA ReqCall ==
    ASSUME TypeInv, GivenIn(sock), CallInv, TokenInv(sock), NEW t, t # "NetPollReq", TakeReq(t)
    PROVE  LET i == Head(req_items)
               c == i.client
           IN  /\ i \in Requests /\ c \in Clients /\ i.type = t
               /\ Count(req_items, ItemsOf(c)) = 1 /\ Count(req_items', ItemsOf(c)) = 0
               /\ Count(res_items, ItemsOf(c)) = 0 /\ ~Held(c) /\ cl[c].st = "waiting"
               /\ t = Request(cl[c].op) /\ i.fd = cl[c].fd
               /\ t # "Listen" => i.fd # NoFd /\ Owns(sock, c, i.fd) /\ i.fd \in DOMAIN sock
               /\ \A a \in Clients \ {c} :
                     Count(req_items', ItemsOf(a)) = Count(req_items, ItemsOf(a))
               /\ Count(req_items', {NetPollReq}) = Count(req_items, {NetPollReq})
               /\ \A j \in Range(req_items)' \ {NetPollReq} :
                     j \in Range(req_items) /\ j.client \in Clients /\ j.client # c
               /\ NetPollReq \in Range(req_items) => NetPollReq \in Range(req_items)'
<1> DEFINE i == Head(req_items)
           c == i.client
<1>1. /\ i.type = t /\ i \in Range(req_items) /\ i \in Requests /\ c \in Clients
      /\ req_items' \in Seq(Requests \cup {NetPollReq})
      /\ Range(req_items) = Range(req_items)' \cup {i}
      /\ \A T : Count(req_items, T) = Count(req_items', T) + One(i \in T)
  BY TakeReqFacts
<1> HIDE DEF i
<1>2. i # NetPollReq /\ i \in ItemsOf(c) /\ \A a \in Clients \ {c} : i \notin ItemsOf(a)
  BY <1>1, ItemFacts
<1> HIDE DEF c
<1>3. /\ Count(req_items, ItemsOf(c)) = 1 /\ Count(res_items, ItemsOf(c)) = 0
      /\ ~Held(c) /\ cl[c].st = "waiting"
  BY <1>1, <1>2, TokenAt DEF c
<1>4. t = Request(cl[c].op) /\ i.fd = cl[c].fd  BY <1>1, <1>2 DEF CallInv, c
<1>5. \A T : Count(req_items', T) \in Nat  BY <1>1, CountType
<1>6. Count(req_items', ItemsOf(c)) = 0
  <2>1. One(i \in ItemsOf(c)) = 1  BY <1>2 DEF One
  <2>2. Count(req_items', ItemsOf(c)) \in Nat  BY <1>5
  <2> QED  BY <1>1, <1>3, <2>1, <2>2
<1>7. ASSUME NEW a \in Clients \ {c}
      PROVE  Count(req_items', ItemsOf(a)) = Count(req_items, ItemsOf(a))
  <2>1. One(i \in ItemsOf(a)) = 0  BY <1>2 DEF One
  <2>2. Count(req_items', ItemsOf(a)) \in Nat  BY <1>5
  <2> QED  BY <1>1, <2>1, <2>2
<1>8. Count(req_items', {NetPollReq}) = Count(req_items, {NetPollReq})
  <2>1. One(i \in {NetPollReq}) = 0  BY <1>2 DEF One
  <2>2. Count(req_items', {NetPollReq}) \in Nat  BY <1>5
  <2> QED  BY <1>1, <2>1, <2>2
<1>9. ASSUME NEW j \in Range(req_items)' \ {NetPollReq}
      PROVE  j \in Range(req_items) /\ j.client \in Clients /\ j.client # c
  <2>1. Range(req_items)' = Range(req_items')  BY DEF Range
  <2>2. j \in Requests  BY <1>1, <1>9, <2>1, RangeIn
  <2>3. j \notin ItemsOf(c)  BY <1>1, <1>6, <1>9, <2>1, CountType
  <2> QED  BY <1>1, <1>9, <2>2, <2>3, ItemFacts
<1>10. ASSUME t # "Listen"  PROVE i.fd # NoFd /\ Owns(sock, c, i.fd) /\ i.fd \in DOMAIN sock
  <2>1. cl[c].op # "Listen"  BY <1>4, <1>10 DEF Request
  <2>2. cl[c].fd # NoFd  BY <1>1, <2>1 DEF CallInv, c
  <2>3. Owns(sock, c, i.fd)  BY <1>1, <1>4, <2>2 DEF GivenIn, c
  <2>4. DOMAIN sock = 1 .. Len(sock)  BY LenProperties DEF TypeInv, SocketsOK
  <2> QED  BY <1>4, <2>2, <2>3, <2>4 DEF Owns, TypeInv
<1> QED  BY <1>1, <1>2, <1>3, <1>4, <1>6, <1>7, <1>8, <1>9, <1>10 DEF i, c

LEMMA ReqPollStep ==
    ASSUME NetInv, ReqPoll, faults' = faults
    PROVE  NetInv'
<1> DEFINE i == Head(req_items)
           e == Wake(ex, Poller)
<1>1. /\ TakeReq("NetPollReq") /\ ReqDone(e)
      /\ UNCHANGED <<co, immediate, res_items, recv_reply_status, sock, syn_queue, block_cids,
                     socket2cid, frames, rx_cmplt, masked, late, peer, cl, reply>>
  BY DEF ReqPoll, NoReply, stack, device
<1>2. ~ex.panic  BY <1>1 DEF TakeReq, Go
<1>3. /\ TypeInv /\ GivenIn(sock) /\ RunInv /\ Shape(ex) /\ CoInv /\ SchedInv(ex, block_cids)
      /\ OrderInv(ex, block_cids) /\ QueueInv
      /\ CallInv /\ TokenInv(sock) /\ WakesInv(ex)
      /\ StackInv(sock, peer, 0) /\ GoodInv(sock, peer, block_cids, 0) /\ StrandInv
      /\ Poller \in TaskIds /\ Receiver \in TaskIds /\ Poller # Receiver
  BY <1>2, Running
<1>4. /\ running /\ ex.current = Receiver /\ co[Receiver].pc = "none"
      /\ recv_req_status' = recv_req_status
      /\ i.type = "NetPollReq" /\ i \in Range(req_items) /\ i \in Requests \cup {NetPollReq}
      /\ req_items' \in Seq(Requests \cup {NetPollReq})
      /\ Range(req_items) = Range(req_items)' \cup {i}
      /\ \A T : Count(req_items, T) = Count(req_items', T) + One(i \in T)
  BY <1>1, <1>3, TakeReqFacts
<1> HIDE DEF i
<1>5. i = NetPollReq  BY <1>4 DEF Requests
<1>6. Poller \in Live(ex) /\ ex.tasks[Poller] = 0  BY <1>3, ShapeQueues DEF Shape
<1>7. /\ ExecutorType(e) /\ Frame(ex, e) /\ e.delay = ex.delay
  BY <1>3, WakeFacts DEF Shape
<1>8. /\ ~e.panic => /\ Shape(e) /\ e.ready = [ex.ready EXCEPT ![0] = Append(@, Poller)]
      /\ Len(ex.ready[0]) < MaxTask - 1 => ~e.panic
  <2> DEFINE p == ex.tasks[Poller]
  <2>1. /\ ~e.panic => /\ Shape(e) /\ e.ready = [ex.ready EXCEPT ![p] = Append(@, Poller)]
        /\ Len(ex.ready[p]) < MaxTask - 1 => ~e.panic
    BY <1>3, <1>6, ShapeWake
  <2> QED  BY <1>6, <2>1
<1> HIDE DEF e
<1>9. e.current = Receiver /\ e.delay \subseteq {Receiver} /\ cnt \in 0 .. SwitchCnt - 1
  BY <1>3, <1>4, <1>7 DEF Frame, TypeInv
<1>10. /\ ExecutorType(ex') /\ ex'.delay \subseteq {Receiver}
       /\ cnt' \in 0 .. SwitchCnt - 1 /\ running' \in BOOLEAN
       /\ e.panic => ex'.panic
  BY <1>1, <1>4, <1>7, <1>9, ReqDoneType
<1>11. TypeInv'  BY <1>1, <1>3, <1>4, <1>10 DEF TypeInv
<1>12. GivenIn(sock)'  BY <1>1, <1>3 DEF GivenIn, Owns
<1>13. /\ Count(req_items, {NetPollReq}) = Count(req_items', {NetPollReq}) + 1
       /\ Count(req_items', {NetPollReq}) \in Nat
  <2>1. One(i \in {NetPollReq}) = 1  BY <1>5 DEF One
  <2> QED  BY <1>4, <2>1, CountType
<1>14. ex.ready[0] \in Seq(TaskIds) /\ ex.ready \in [Prios -> Seq(TaskIds)] /\ Len(ex.ready[0]) \in Nat
  BY <1>3, ShapeQueues, NetSized
<1>15. Sizes => ~e.panic
  <2> SUFFICES ASSUME Sizes  PROVE Len(ex.ready[0]) < MaxTask - 1
    BY <1>8
  <2>1. Count(req_items, {NetPollReq}) + Len(ex.ready[0]) + One(Run(Poller)) <= 1 + One(masked)
    BY <1>3 DEF WakesInv
  <2>2. One(Run(Poller)) \in {0, 1} /\ One(masked) \in {0, 1}  BY OneType
  <2>3. Len(ex.ready[0]) <= 1  BY ONLY <1>13, <1>14, <2>1, <2>2
  <2>4. MaxTask > 2 /\ MaxTask \in Nat  BY NetSized DEF Sizes
  <2> QED  BY <1>14, <2>3, <2>4
<1>16. ASSUME ~e.panic
       PROVE  /\ ~ex'.panic =>
                    /\ Shape(ex') /\ Frame(e, ex')
                    /\ \A q \in Prios \ {1} : ex'.ready[q] = e.ready[q]
                    /\ \A d : d # Receiver => ~Run(d) /\ ~Run(d)'
                    /\ Len(ex'.ready[1]) + One(Receiver \in ex'.delay) + One(Run(Receiver)')
                          \in 1 .. 1 + One(recv_req_status)
              /\ Sizes => ~ex'.panic
  <2>1. e.ready[1] = ex.ready[1]  BY <1>8, <1>14, <1>16, NetSized
  <2>2. Shape(e) /\ e.delay = ex.delay  BY <1>7, <1>8, <1>16
  <2> QED  BY <1>1, <1>3, <1>4, <1>9, <2>1, <2>2, ReqDoneRun
<1>17. Sizes => ~ex'.panic  BY <1>15, <1>16
<1>18. ASSUME ~ex'.panic
       PROVE  /\ Shape(ex') /\ CoInv' /\ SchedInv(ex, block_cids)'
              /\ OrderInv(ex, block_cids)' /\ QueueInv'
              /\ CallInv' /\ TokenInv(sock)' /\ WakesInv(ex)'
              /\ StackInv(sock, peer, 0)' /\ GoodInv(sock, peer, block_cids, 0)'
              /\ StrandInv'
  <2>1. ~e.panic  BY <1>10, <1>18
  <2>2. /\ Shape(ex') /\ Frame(e, ex')
        /\ \A q \in Prios \ {1} : ex'.ready[q] = e.ready[q]
        /\ \A d : d # Receiver => ~Run(d) /\ ~Run(d)'
        /\ Len(ex'.ready[1]) + One(Receiver \in ex'.delay) + One(Run(Receiver)')
              \in 1 .. 1 + One(recv_req_status)
    BY <1>16, <1>18, <2>1
  <2>3. ex'.ready[2] = ex.ready[2] /\ ex'.ready[0] = Append(ex.ready[0], Poller)
    <3>1. e.ready = [ex.ready EXCEPT ![0] = Append(@, Poller)]  BY <1>8, <2>1
    <3>2. e.ready[2] = ex.ready[2] /\ e.ready[0] = Append(ex.ready[0], Poller)
      BY <1>14, <3>1, NetSized
    <3> QED  BY <2>2, <3>2, NetSized
  <2>4. ex'.tasks = ex.tasks /\ ex'.current = Receiver  BY <1>7, <1>9, <2>2 DEF Frame
  <2>5. CoInv' /\ SchedInv(ex, block_cids)' /\ OrderInv(ex, block_cids)' /\ QueueInv'
    BY <1>1, <1>3, <1>4, <2>2, <2>3, <2>4, ReqKept
  <2>6. CallInv'
    <3>1. Accepts' = Accepts  BY <1>1 DEF Accepts
    <3>2. Range(req_items)' \ {NetPollReq} = Range(req_items) \ {NetPollReq}  BY <1>4, <1>5
    <3> QED  BY <1>1, <1>3, <3>1, <3>2 DEF CallInv, Message, NetPollReq
  <2>7. TokenInv(sock)'
    <3>1. ASSUME NEW a \in Clients  PROVE Places(a)' = Places(a)
      <4>1. One(i \in ItemsOf(a)) = 0  BY <1>5, ItemFacts DEF One
      <4>2. Count(req_items', ItemsOf(a)) \in Nat  BY <1>4, CountType
      <4>3. Count(req_items, ItemsOf(a)) = Count(req_items', ItemsOf(a))  BY <1>4, <4>1, <4>2
      <4>4. Held(a)' <=> Held(a)  BY <1>1 DEF Held, Holding, Accepts
      <4>5. Places(a)' = Count(req_items', ItemsOf(a)) + Count(res_items, ItemsOf(a)) + One(Held(a))
        BY <1>1, <4>4 DEF Places, Count, One
      <4> QED  BY <4>3, <4>5 DEF Places
    <3> QED  BY <1>1, <1>3, <3>1, TokenKept
  <2>8. WakesInv(ex)'
    <3>1. Len(ex'.ready[0]) = Len(ex.ready[0]) + 1  BY <1>3, <1>14, <2>3, AppendFacts
    <3>2. Count(req_items', {NetPollReq}) + Len(ex'.ready[0])
              = Count(req_items, {NetPollReq}) + Len(ex.ready[0])
      <4> DEFINE a == Count(req_items', {NetPollReq})
                 b == Count(req_items, {NetPollReq})
                 l == Len(ex.ready[0])
                 m == Len(ex'.ready[0])
      <4>1. b = a + 1 /\ a \in Nat /\ l \in Nat /\ m = l + 1  BY <1>13, <1>14, <3>1
      <4> HIDE DEF a, b, l, m
      <4>2. a + m = b + l  BY <4>1
      <4> QED  BY <4>2 DEF a, b, l, m
    <3> QED  BY <1>1, <1>3, <1>4, <2>2, <3>2, ReqWakes
  <2>9. StackInv(sock, peer, 0)' /\ GoodInv(sock, peer, block_cids, 0)'
    BY <1>1, <1>3, StackSame
  <2>10. StrandInv'
    <3>1. Poller \in Queued(ex', 0)
      <4> DEFINE s == ex.ready[0]
                 x == ex'
      <4>1. s \in Seq(TaskIds) /\ x.ready[0] = Append(s, Poller)  BY <1>14, <2>3
      <4>2. Len(s) + 1 \in DOMAIN Append(s, Poller) /\ Append(s, Poller)[Len(s) + 1] = Poller
        BY <1>3, <4>1, AppendFacts
      <4> HIDE DEF s, x
      <4>3. Poller \in Queued(x, 0)  BY <4>1, <4>2 DEF Queued
      <4> QED  BY <4>3 DEF x
    <3>2. Queued(ex, 0)' = Queued(ex', 0)  BY DEF Queued
    <3> QED  BY <1>1, <1>3, <3>1, <3>2 DEF StrandInv
  <2> QED  BY <2>2, <2>5, <2>6, <2>7, <2>8, <2>9, <2>10
<1> QED  BY <1>11, <1>12, <1>17, <1>18, NetParts2

(* Client c's request left the ring: it is answered, or dropped. *)
LEMMA AnsweredCall ==
    ASSUME CallInv, CoInv, TypeInv, NEW c \in Clients, UNCHANGED <<co, immediate>>,
           \A a \in Clients : /\ cl'[a].op = cl[a].op /\ cl'[a].fd = cl[a].fd
                              /\ cl'[a].st = cl[a].st,
           \A j \in Range(req_items)' \ {NetPollReq} : j \in Range(req_items) /\ j.client \in Clients,
           Range(res_items) \subseteq Range(res_items)',
           \A r \in Range(res_items)' : \/ r \in Range(res_items)
                                        \/ r.client = c /\ r.type = Expected(cl[c].op)
    PROVE  CallInv'
<1>1. CallParts(Accepts, co, immediate, cl, Range(req_items), Range(res_items))  BY CallNext
<1>2. Accepts' = Accepts /\ \A d \in Accepts : co[d].caller \in Clients  BY DEF Accepts, CoInv
<1>3. \A r \in Range(res_items) : r.client \in Clients
  BY RangeIn, ItemFacts DEF TypeInv
<1>4. \A a \in Clients : cl'[a].st # "panic" /\ (cl'[a].fd = NoFd <=> cl'[a].op = "Listen")
  BY <1>1 DEF CallParts
<1>5. \A j \in Range(req_items)' \ {NetPollReq} :
         j.type = Request(cl'[j.client].op) /\ j.fd = cl'[j.client].fd
  BY <1>1 DEF CallParts
<1>6. \A r \in Range(res_items)' : r.type = Expected(cl'[r.client].op)
  BY <1>1, <1>3 DEF CallParts
<1>7. Awaited(Accepts, co, immediate, cl', Range(res_items)')
  BY <1>1, <1>2 DEF CallParts, Awaited
<1>8. \A d, e \in Accepts : co[d].caller = co[e].caller => d = e  BY <1>1 DEF CallParts
<1> QED  BY <1>2, <1>4, <1>5, <1>6, <1>7, <1>8, CallNext DEF CallParts

LEMMA AnsweredPlaces ==
    ASSUME TypeInv, NEW c \in Clients, UNCHANGED <<co, immediate>>, ~Held(c),
           Count(req_items', ItemsOf(c)) = 0, Count(res_items', ItemsOf(c)) \in Nat,
           \A a \in Clients \ {c} :
              /\ Count(req_items', ItemsOf(a)) = Count(req_items, ItemsOf(a))
              /\ Count(res_items', ItemsOf(a)) = Count(res_items, ItemsOf(a))
    PROVE  /\ Places(c)' = Count(res_items', ItemsOf(c))
           /\ \A a \in Clients \ {c} : Places(a)' = Places(a)
<1>1. \A a \in Clients : Held(a)' <=> Held(a)  BY DEF Held, Holding, Accepts
<1>2. \A a \in Clients : Places(a)' = Count(req_items', ItemsOf(a)) + Count(res_items', ItemsOf(a))
                                        + One(Held(a))
  BY <1>1 DEF Places, Count, One
<1>3. One(Held(c)) = 0  BY DEF One
<1>4. Places(c)' = Count(res_items', ItemsOf(c))
  <2> DEFINE n == Count(res_items', ItemsOf(c))
  <2>1. Places(c)' = 0 + n + 0 /\ n \in Nat  BY <1>2, <1>3
  <2> HIDE DEF n
  <2>2. Places(c)' = n  BY <2>1
  <2> QED  BY <2>2 DEF n
<1>5. ASSUME NEW a \in Clients \ {c}  PROVE Places(a)' = Places(a)
  BY <1>2 DEF Places
<1> QED  BY <1>4, <1>5

(* A socket that cannot send: no reply. *)
LEMMA ReqSendCut ==
    ASSUME NetInv, faults' = faults,
           sock[Head(req_items).fd].st # "established" \/ "tx_full" \in faults,
           TakeReq("Send"), ReqDone(ex), NoReply,
           UNCHANGED <<co, immediate, sock, syn_queue, block_cids,
                       socket2cid, frames, rx_cmplt, masked, late, peer, cl>>
    PROVE  NetInv'
<1>1. /\ TakeReq("Send") /\ ReqDone(ex)
      /\ UNCHANGED <<co, immediate, res_items, recv_reply_status, sock, syn_queue, block_cids,
                     socket2cid, frames, rx_cmplt, masked, late, peer, cl, reply>>
  BY DEF NoReply
<1>2. ~ex.panic  BY <1>1 DEF TakeReq, Go
<1>3. /\ TypeInv /\ GivenIn(sock) /\ RunInv /\ Shape(ex) /\ CoInv /\ SchedInv(ex, block_cids)
      /\ OrderInv(ex, block_cids) /\ QueueInv
      /\ CallInv /\ TokenInv(sock) /\ WakesInv(ex)
      /\ StackInv(sock, peer, 0) /\ GoodInv(sock, peer, block_cids, 0) /\ StrandInv
      /\ Poller \in TaskIds /\ Receiver \in TaskIds /\ Poller # Receiver
  BY <1>2, Running
<1>4. PICK i : i = Head(req_items)  OBVIOUS
<1>5. /\ running /\ ex.current = Receiver /\ co[Receiver].pc = "none"
      /\ recv_req_status' = recv_req_status
      /\ req_items' \in Seq(Requests \cup {NetPollReq})
  BY <1>1, <1>3, TakeReqFacts
<1>6. /\ i \in Requests /\ i.client \in Clients
      /\ Count(req_items', ItemsOf(i.client)) = 0
      /\ Count(res_items, ItemsOf(i.client)) = 0 /\ ~Held(i.client) /\ cl[i.client].st = "waiting"
      /\ i.fd = cl[i.client].fd
      /\ "Send" = Request(cl[i.client].op)
      /\ i.fd # NoFd /\ Owns(sock, i.client, i.fd)
      /\ \A a \in Clients \ {i.client} :
            Count(req_items', ItemsOf(a)) = Count(req_items, ItemsOf(a))
      /\ Count(req_items', {NetPollReq}) = Count(req_items, {NetPollReq})
      /\ \A j \in Range(req_items)' \ {NetPollReq} :
            j \in Range(req_items) /\ j.client \in Clients /\ j.client # i.client
      /\ NetPollReq \in Range(req_items) => NetPollReq \in Range(req_items)'
  BY <1>1, <1>3, <1>4, ReqCall
<1>7. cnt \in 0 .. SwitchCnt - 1 /\ ExecutorType(ex) /\ ex.delay \subseteq {Receiver}
  BY <1>3 DEF TypeInv
<1>8. /\ ExecutorType(ex') /\ ex'.delay \subseteq {Receiver}
      /\ cnt' \in 0 .. SwitchCnt - 1 /\ running' \in BOOLEAN
  BY <1>1, <1>5, <1>7, ReqDoneType
<1>9. TypeInv'  BY <1>1, <1>3, <1>5, <1>8 DEF TypeInv
<1>10. GivenIn(sock)'  BY <1>1, <1>3 DEF GivenIn, Owns
<1>11. /\ ~ex'.panic =>
            /\ Shape(ex') /\ Frame(ex, ex')
            /\ \A q \in Prios \ {1} : ex'.ready[q] = ex.ready[q]
            /\ \A d : d # Receiver => ~Run(d) /\ ~Run(d)'
            /\ Len(ex'.ready[1]) + One(Receiver \in ex'.delay) + One(Run(Receiver)')
                  \in 1 .. 1 + One(recv_req_status)
       /\ Sizes => ~ex'.panic
  BY <1>1, <1>3, <1>5, ReqDoneRun
<1>12. ASSUME ~ex'.panic
       PROVE  /\ Shape(ex') /\ CoInv' /\ SchedInv(ex, block_cids)'
              /\ OrderInv(ex, block_cids)' /\ QueueInv'
              /\ CallInv' /\ TokenInv(sock)' /\ WakesInv(ex)'
              /\ StackInv(sock, peer, 0)' /\ GoodInv(sock, peer, block_cids, 0)'
              /\ StrandInv'
  <2>1. ex'.ready[2] = ex.ready[2] /\ ex'.ready[0] = ex.ready[0]  BY <1>11, <1>12, NetSized
  <2>2. ex'.tasks = ex.tasks /\ ex'.current = Receiver  BY <1>5, <1>11, <1>12 DEF Frame
  <2>3. CoInv' /\ SchedInv(ex, block_cids)' /\ OrderInv(ex, block_cids)' /\ QueueInv'
    BY <1>1, <1>3, <1>5, <1>11, <1>12, <2>1, <2>2, ReqKept
  <2>4. CallInv'
    <3>1. Range(res_items)' = Range(res_items)  BY <1>1
    <3> QED  BY <1>1, <1>3, <1>6, <3>1, AnsweredCall
  <2>5. TokenInv(sock)'
    <3>1. Count(res_items', ItemsOf(i.client)) = 0  BY <1>1, <1>6
    <3>2. Places(i.client)' = 0 /\ \A a \in Clients \ {i.client} : Places(a)' = Places(a)
      BY <1>1, <1>3, <1>6, <3>1, AnsweredPlaces
    <3>3. sock[i.fd].st = "closed" \/ (Request(cl[i.client].op) = "Send" /\ "tx_full" \in faults)
      BY <1>4, <1>6 DEF Owns
    <3> QED  BY <1>1, <1>3, <1>6, <3>2, <3>3 DEF TokenInv
  <2>6. WakesInv(ex)'  BY <1>1, <1>3, <1>5, <1>6, <1>11, <1>12, <2>1, ReqWakes
  <2>7. StackInv(sock, peer, 0)' /\ GoodInv(sock, peer, block_cids, 0)'
    BY <1>1, <1>3, StackSame
  <2>8. StrandInv'
    <3>1. Queued(ex, 0)' = Queued(ex, 0) /\ ~Run(Poller)  BY <1>3, <1>11, <1>12, <2>1 DEF Queued
    <3> QED  BY <1>1, <1>3, <1>6, <3>1 DEF StrandInv, NetPollReq
  <2> QED  BY <1>11, <1>12, <2>3, <2>4, <2>5, <2>6, <2>7, <2>8
<1> QED  BY <1>9, <1>10, <1>11, <1>12, NetParts2

(* The coroutines after a poll. *)
LEMMA SchedFrom ==
    ASSUME NEW x, NEW b, SchedInv(x, b), OrderInv(x, b), ex'.ready[2] = x.ready[2],
           block_cids' = b, UNCHANGED <<co, immediate>>,
           \A d \in TaskIds \ {Poller, Receiver} : Run(d)' <=> Run(d)
    PROVE  SchedInv(ex, block_cids)' /\ OrderInv(ex, block_cids)'
<1>1. Accepts' = Accepts /\ Listeners' = Listeners  BY DEF Accepts, Listeners
<1>2. \A d \in Accepts : Run(d)' <=> Run(d)  BY DEF Accepts
<1>3. Queued(ex, 2)' = Queued(x, 2) /\ Range(block_cids)' = Range(b)  BY DEF Queued
<1>4. SchedInv(ex, block_cids)'  BY <1>1, <1>2, <1>3 DEF SchedInv
<1>5. \A d, e : Before(d, e)' <=> Before(d, e)  BY DEF Before
<1>6. \A d \in Listeners : d \in Accepts  BY DEF Listeners
<1>7. OrderInv(ex, block_cids)'  BY <1>1, <1>2, <1>3, <1>5, <1>6 DEF OrderInv
<1> QED  BY <1>4, <1>7

(* Send: a poll, and the reply. *)
LEMMA ReqSendAnswer ==
    ASSUME NetInv, faults' = faults, sock[Head(req_items).fd].st = "established",
           TakeReq("Send"), Polled(IfacePoll(ex, sock)),
           ReqDone(IF ResFull THEN Failed(IfacePoll(ex, sock).ex) ELSE IfacePoll(ex, sock).ex),
           PushRes(Message("SendReply", Head(req_items).client, NoFd)),
           UNCHANGED <<co, immediate, syn_queue, socket2cid, rx_cmplt, masked, cl>>
    PROVE  NetInv'
<1> DEFINE w == IfacePoll(ex, sock)
           e == IF ResFull THEN Failed(w.ex) ELSE w.ex
<1>1. /\ TakeReq("Send") /\ Polled(w) /\ ReqDone(e)
      /\ PushRes(Message("SendReply", Head(req_items).client, NoFd))
      /\ UNCHANGED <<co, immediate, syn_queue, socket2cid, rx_cmplt, masked, cl>>
      /\ late' = FALSE
  BY DEF Polled
<1>2. ~ex.panic  BY <1>1 DEF TakeReq, Go
<1>3. /\ TypeInv /\ GivenIn(sock) /\ RunInv /\ Shape(ex) /\ CoInv /\ SchedInv(ex, block_cids)
      /\ OrderInv(ex, block_cids) /\ QueueInv
      /\ CallInv /\ TokenInv(sock) /\ WakesInv(ex)
      /\ StackInv(sock, peer, 0) /\ GoodInv(sock, peer, block_cids, 0) /\ StrandInv
      /\ Poller \in TaskIds /\ Receiver \in TaskIds /\ Poller # Receiver
  BY <1>2, Running
<1>4. PICK i : i = Head(req_items)  OBVIOUS
<1>5. /\ running /\ ex.current = Receiver /\ co[Receiver].pc = "none"
      /\ recv_req_status' = recv_req_status
      /\ req_items' \in Seq(Requests \cup {NetPollReq})
  BY <1>1, <1>3, TakeReqFacts
<1>6. /\ i \in Requests /\ i.client \in Clients
      /\ Count(req_items', ItemsOf(i.client)) = 0
      /\ Count(res_items, ItemsOf(i.client)) = 0 /\ ~Held(i.client) /\ cl[i.client].st = "waiting"
      /\ "Send" = Request(cl[i.client].op)
      /\ \A a \in Clients \ {i.client} :
            Count(req_items', ItemsOf(a)) = Count(req_items, ItemsOf(a))
      /\ Count(req_items', {NetPollReq}) = Count(req_items, {NetPollReq})
      /\ \A j \in Range(req_items)' \ {NetPollReq} :
            j \in Range(req_items) /\ j.client \in Clients /\ j.client # i.client
      /\ NetPollReq \in Range(req_items) => NetPollReq \in Range(req_items)'
  BY <1>1, <1>3, <1>4, ReqCall
<1> DEFINE r == Message("SendReply", i.client, NoFd)
<1>7. /\ r \in Replies /\ r.client = i.client /\ r.type = "SendReply" /\ PushRes(r)
  BY <1>1, <1>4, <1>6, NetSized DEF Replies, Message
<1> HIDE DEF r
<1>8. /\ res_items' \in Seq(Replies)
      /\ recv_reply_status' \in BOOLEAN /\ ReplyOK(recv_reply_status, reply)'
      /\ Range(res_items)' = Range(res_items) \cup {r}
      /\ \A T : Count(res_items', T) = Count(res_items, T) + One(r \in T)
  BY <1>3, <1>7, PushResFacts
<1>9. PollInv(w, Len(frames))  BY <1>3, PollFacts
<1>10. PollType(w) /\ (~w.ex.panic => PollRun(w, Len(frames))) /\ (Sizes => ~w.ex.panic)
  BY <1>9 DEF PollInv
<1>11. /\ SocketsOK(sock') /\ Len(sock') = Len(sock) /\ DOMAIN sock' = DOMAIN sock
       /\ block_cids' \in Seq(TaskIds) /\ peer' \in [Peers -> Hosts]
       /\ frames' \in Seq(Received)
       /\ \A h \in DOMAIN sock : sock[h].st \in {"established", "closed"} =>
                                 sock'[h].st \in {"established", "closed"}
  BY <1>1, <1>3, <1>10, PollTypeNext
<1>12. ~w.ex.panic => StackInv(sock, peer, 0)' /\ GoodInv(sock, peer, block_cids, 0)'
  BY <1>1, <1>10, PollNext
<1>13. /\ sock' = w.sock /\ block_cids' = w.blk /\ frames' = <<>>  BY <1>1 DEF Polled
<1> HIDE DEF w
<1>14. /\ ExecutorType(w.ex) /\ w.ex.delay = ex.delay /\ Frame(ex, w.ex)  BY <1>10 DEF PollType
<1>15. /\ ExecutorType(e) /\ e.delay = ex.delay /\ Frame(ex, e) /\ (w.ex.panic => e.panic)
       /\ ResFull => e.panic
       /\ ~ResFull => e = w.ex
  <2>1. CASE ResFull
    <3>1. e = Failed(w.ex)  BY <2>1
    <3>2. ExecutorType(Failed(w.ex)) /\ Failed(w.ex).panic /\ Failed(w.ex).delay = w.ex.delay
          /\ Frame(w.ex, Failed(w.ex))
      BY <1>14, FailedType
    <3> QED  BY <1>14, <2>1, <3>1, <3>2 DEF Frame
  <2>2. CASE ~ResFull  BY <1>14, <2>2
  <2> QED  BY <2>1, <2>2
<1> HIDE DEF e
<1>16. cnt \in 0 .. SwitchCnt - 1 /\ e.delay \subseteq {Receiver} /\ e.current = Receiver
  BY <1>3, <1>5, <1>15 DEF TypeInv, Frame
<1>17. /\ ExecutorType(ex') /\ ex'.delay \subseteq {Receiver}
       /\ cnt' \in 0 .. SwitchCnt - 1 /\ running' \in BOOLEAN /\ (e.panic => ex'.panic)
  BY <1>1, <1>5, <1>15, <1>16, ReqDoneType
<1>18. TypeInv'  BY <1>1, <1>3, <1>5, <1>8, <1>11, <1>17 DEF TypeInv
<1>19. GivenIn(sock)'
  <2>1. \A q \in Range(res_items)' : q \in Range(res_items) \/ q.type # "ListenReply"
    BY <1>7, <1>8
  <2> QED  BY <1>1, <1>3, <1>11, <2>1, GivenKept
<1>20. ASSUME ~e.panic
       PROVE  /\ ~ex'.panic =>
                    /\ Shape(ex') /\ Frame(e, ex')
                    /\ \A q \in Prios \ {1} : ex'.ready[q] = e.ready[q]
                    /\ \A d : d # Receiver => ~Run(d) /\ ~Run(d)'
                    /\ Len(ex'.ready[1]) + One(Receiver \in ex'.delay) + One(Run(Receiver)')
                          \in 1 .. 1 + One(recv_req_status)
              /\ Sizes => ~ex'.panic
  <2>1. PollRun(w, Len(frames)) /\ e = w.ex  BY <1>10, <1>15, <1>20
  <2>2. Shape(e) /\ e.ready[1] = ex.ready[1]  BY <2>1 DEF PollRun
  <2> QED  BY <1>1, <1>3, <1>5, <1>15, <1>16, <2>2, ReqDoneRun
<1>21. Sizes => ~ex'.panic
  <2>1. Sizes => ~e.panic  BY <1>3, <1>10, <1>15, ResRoom
  <2> QED  BY <1>20, <2>1
<1>22. ASSUME ~ex'.panic
       PROVE  /\ Shape(ex') /\ CoInv' /\ SchedInv(ex, block_cids)'
              /\ OrderInv(ex, block_cids)' /\ QueueInv'
              /\ CallInv' /\ TokenInv(sock)' /\ WakesInv(ex)'
              /\ StackInv(sock, peer, 0)' /\ GoodInv(sock, peer, block_cids, 0)'
              /\ StrandInv'
  <2>0. ~e.panic /\ ~w.ex.panic /\ e = w.ex /\ PollRun(w, Len(frames))
    BY <1>10, <1>15, <1>17, <1>22
  <2>1. /\ Shape(ex') /\ Frame(e, ex')
        /\ \A q \in Prios \ {1} : ex'.ready[q] = e.ready[q]
        /\ \A d : d # Receiver => ~Run(d) /\ ~Run(d)'
        /\ Len(ex'.ready[1]) + One(Receiver \in ex'.delay) + One(Run(Receiver)')
              \in 1 .. 1 + One(recv_req_status)
    BY <1>20, <1>22, <2>0
  <2>2. /\ w.ex.ready[0] = ex.ready[0]
        /\ SchedInv(w.ex, w.blk) /\ OrderInv(w.ex, w.blk)
        /\ \A h \in DOMAIN sock : sock[h].st = "closed" => sock'[h].st = "closed"
    BY <1>13, <2>0 DEF PollRun
  <2>3. ex'.ready[2] = w.ex.ready[2] /\ ex'.ready[0] = ex.ready[0]
    BY <2>0, <2>1, <2>2, NetSized
  <2>4. ex'.tasks = ex.tasks /\ ex'.current = Receiver  BY <1>15, <1>16, <2>1 DEF Frame
  <2>5. SchedInv(ex, block_cids)' /\ OrderInv(ex, block_cids)'
    <3>1. \A d \in TaskIds \ {Poller, Receiver} : Run(d)' <=> Run(d)  BY <2>1
    <3> QED  BY <1>1, <1>13, <2>2, <2>3, <3>1, SchedFrom
  <2>6. CoInv'
    <3>1. Live(ex)' = Live(ex) /\ Accepts' = Accepts  BY <1>1, <2>4 DEF Live, Accepts
    <3>2. co[Poller].pc # "ack" /\ co[Receiver].pc = "none"  BY <1>3, <1>5, <2>1 DEF CoInv
    <3>3. Receiver \in Live(ex)  BY <1>3 DEF Shape
    <3> QED  BY <1>1, <1>3, <2>4, <3>1, <3>2, <3>3 DEF CoInv
  <2>7. QueueInv'
    <3>1. Accepts' = Accepts /\ Listeners' = Listeners  BY <1>1 DEF Accepts, Listeners
    <3> QED  BY <1>1, <1>3, <3>1 DEF QueueInv
  <2>8. CallInv'
    <3>1. r.type = Expected(cl[i.client].op)
      <4>1. cl[i.client].op \in {"Listen", "Recv", "Send", "Bye"}
        BY <1>3, <1>6 DEF TypeInv, Calls
      <4>2. cl[i.client].op \in {"Send", "Bye"}  BY <1>6, <4>1 DEF Request
      <4> QED  BY <1>7, <4>2 DEF Expected
    <3> QED  BY <1>1, <1>3, <1>6, <1>7, <1>8, <3>1, AnsweredCall
  <2>9. TokenInv(sock)'
    <3>1. \A a \in Clients : One(r \in ItemsOf(a)) = IF a = i.client THEN 1 ELSE 0
      BY <1>7, ItemFacts DEF One
    <3>2. \A a \in Clients : Count(res_items, ItemsOf(a)) \in Nat  BY <1>3, PlacesType
    <3>3. /\ Count(res_items', ItemsOf(i.client)) = 1
          /\ \A a \in Clients \ {i.client} :
                Count(res_items', ItemsOf(a)) = Count(res_items, ItemsOf(a))
      BY <1>6, <1>8, <3>1, <3>2
    <3>4. Places(i.client)' = 1 /\ \A a \in Clients \ {i.client} : Places(a)' = Places(a)
      BY <1>1, <1>3, <1>6, <3>3, AnsweredPlaces
    <3>5. \A a \in Clients : cl[a].fd # NoFd => cl[a].fd \in DOMAIN sock
      <4>1. DOMAIN sock = 1 .. Len(sock)  BY <1>3, LenProperties DEF TypeInv, SocketsOK
      <4> QED  BY <1>3, <4>1 DEF GivenIn, Owns, TypeInv
    <3> QED  BY <1>1, <1>3, <1>6, <2>2, <3>4, <3>5 DEF TokenInv
  <2>10. WakesInv(ex)'  BY <1>1, <1>3, <1>5, <1>6, <2>1, <2>3, ReqWakes
  <2>11. StrandInv'
    <3>1. Queued(ex, 0)' = Queued(ex, 0) /\ ~Run(Poller)  BY <1>3, <2>1, <2>3 DEF Queued
    <3> QED  BY <1>1, <1>3, <1>6, <1>13, <3>1 DEF StrandInv, NetPollReq
  <2> QED  BY <1>12, <2>0, <2>1, <2>5, <2>6, <2>7, <2>8, <2>9, <2>10, <2>11
<1> QED  BY <1>18, <1>19, <1>21, <1>22, NetParts2

(* recv_slice: a byte leaves the socket, a reply enters the ring. *)
LEMMA RecvSliceFacts ==
    ASSUME TypeInv, NEW i \in Requests, i.fd \in DOMAIN sock, sock[i.fd].rx # <<>>, RecvSlice(i)
    PROVE  /\ SocketsOK(sock') /\ Len(sock') = Len(sock) /\ DOMAIN sock' = DOMAIN sock
           /\ \A h \in DOMAIN sock : sock'[h].st = sock[h].st /\ sock'[h].peer = sock[h].peer
           /\ cl' \in [Clients -> Calls]
           /\ \A a \in Clients : /\ cl'[a].op = cl[a].op /\ cl'[a].fd = cl[a].fd
                                 /\ cl'[a].st = cl[a].st
           /\ res_items' \in Seq(Replies)
           /\ recv_reply_status' \in BOOLEAN /\ ReplyOK(recv_reply_status, reply)'
           /\ \E r \in Replies :
                 /\ r.client = i.client /\ r.type = "RecvReply"
                 /\ Range(res_items)' = Range(res_items) \cup {r}
                 /\ \A T : Count(res_items', T) = Count(res_items, T) + One(r \in T)
<1> DEFINE r == Message("RecvReply", i.client, NoFd)
           h == i.fd
           s == sock[h]
           t == [s EXCEPT !.rx = Tail(@)]
<1>1. /\ sock' = [sock EXCEPT ![h] = t]
      /\ cl' = [cl EXCEPT ![i.client].data = Head(s.rx)]
      /\ PushRes(r)
  BY DEF RecvSlice
<1>2. i.client \in Clients  BY ItemFacts
<1>3. r \in Replies /\ r.client = i.client /\ r.type = "RecvReply"
  BY <1>2, NetSized DEF Replies, Message
<1>4. sock \in Seq(Sockets) /\ DOMAIN sock = 1 .. Len(sock) /\ Len(sock) \in Nat
  BY LenProperties DEF TypeInv, SocketsOK
<1>5. s \in Sockets /\ s.rx \in Seq(Bytes)
  <2>1. s \in Sockets  BY <1>4
  <2> HIDE DEF s
  <2> QED  BY <2>1 DEF Sockets
<1>6. Head(s.rx) \in Bytes /\ Tail(s.rx) \in Seq(Bytes)  BY <1>5, TailFacts
<1>7. t \in Sockets /\ t.st = s.st /\ t.peer = s.peer  BY <1>5, <1>6 DEF Sockets
<1> HIDE DEF t, r
<1>8. /\ DOMAIN sock' = DOMAIN sock
      /\ \A g \in DOMAIN sock : sock'[g] = IF g = h THEN t ELSE sock[g]
  BY <1>1
<1>9. \A g \in DOMAIN sock : sock[g] \in Sockets  BY <1>4
<1>10. sock' \in Seq(Sockets) /\ Len(sock') = Len(sock)
  <2>1. \A g \in DOMAIN sock : sock'[g] \in Sockets  BY <1>7, <1>8, <1>9
  <2>2. sock' = [g \in 1 .. Len(sock) |-> sock'[g]]  BY <1>1, <1>4
  <2>3. sock' \in Seq(Sockets)  BY <1>4, <2>1, <2>2
  <2> QED  BY <1>4, <1>8, <2>3, LenProperties
<1>11. \A g \in DOMAIN sock : sock'[g].st = sock[g].st /\ sock'[g].peer = sock[g].peer
  BY <1>7, <1>8
<1>12. SocketsOK(sock')
  <2>1. \A g \in DOMAIN sock : \/ sock[g].st = "listen" /\ sock[g].peer = {}
                               \/ sock[g].st # "listen" /\ \E p \in Peers : sock[g].peer = {p}
    BY DEF SocketsOK, TypeInv
  <2>2. \A g \in DOMAIN sock : \/ sock'[g].st = "listen" /\ sock'[g].peer = {}
                               \/ sock'[g].st # "listen" /\ \E p \in Peers : sock'[g].peer = {p}
    BY ONLY <1>11, <2>1
  <2> QED  BY ONLY <1>8, <1>10, <2>2 DEF SocketsOK
<1>13. /\ cl' \in [Clients -> Calls]
       /\ \A a \in Clients : /\ cl'[a].op = cl[a].op /\ cl'[a].fd = cl[a].fd
                             /\ cl'[a].st = cl[a].st
  <2>1. cl \in [Clients -> Calls]  BY DEF TypeInv
  <2> QED  BY <1>1, <1>2, <1>6, <2>1 DEF Calls
<1>14. /\ res_items' \in Seq(Replies)
       /\ recv_reply_status' \in BOOLEAN /\ ReplyOK(recv_reply_status, reply)'
       /\ Range(res_items)' = Range(res_items) \cup {r}
       /\ \A T : Count(res_items', T) = Count(res_items, T) + One(r \in T)
  BY <1>1, <1>3, PushResFacts
<1> QED  BY <1>3, <1>8, <1>10, <1>11, <1>12, <1>13, <1>14

LEMMA ReqRecvAnswer ==
    ASSUME NetInv, ReqRecv, faults' = faults, sock[Head(req_items).fd].rx # <<>>
    PROVE  NetInv'
<1> DEFINE e == IF ResFull THEN Failed(ex) ELSE ex
<1>1. /\ TakeReq("Recv") /\ RecvSlice(Head(req_items)) /\ ReqDone(e)
      /\ UNCHANGED <<co, immediate, syn_queue, block_cids, socket2cid, frames, rx_cmplt, masked, late,
                     peer>>
  BY DEF ReqRecv, device
<1>2. ~ex.panic  BY <1>1 DEF TakeReq, Go
<1>3. /\ TypeInv /\ GivenIn(sock) /\ RunInv /\ Shape(ex) /\ CoInv /\ SchedInv(ex, block_cids)
      /\ OrderInv(ex, block_cids) /\ QueueInv
      /\ CallInv /\ TokenInv(sock) /\ WakesInv(ex)
      /\ StackInv(sock, peer, 0) /\ GoodInv(sock, peer, block_cids, 0) /\ StrandInv
      /\ Poller \in TaskIds /\ Receiver \in TaskIds /\ Poller # Receiver
  BY <1>2, Running
<1>4. PICK i : i = Head(req_items)  OBVIOUS
<1>5. /\ running /\ ex.current = Receiver /\ co[Receiver].pc = "none"
      /\ recv_req_status' = recv_req_status
      /\ req_items' \in Seq(Requests \cup {NetPollReq})
  BY <1>1, <1>3, TakeReqFacts
<1>6. /\ i \in Requests /\ i.client \in Clients
      /\ Count(req_items', ItemsOf(i.client)) = 0
      /\ Count(res_items, ItemsOf(i.client)) = 0 /\ ~Held(i.client) /\ cl[i.client].st = "waiting"
      /\ "Recv" = Request(cl[i.client].op)
      /\ \A a \in Clients \ {i.client} :
            Count(req_items', ItemsOf(a)) = Count(req_items, ItemsOf(a))
      /\ Count(req_items', {NetPollReq}) = Count(req_items, {NetPollReq})
      /\ \A j \in Range(req_items)' \ {NetPollReq} :
            j \in Range(req_items) /\ j.client \in Clients /\ j.client # i.client
      /\ NetPollReq \in Range(req_items) => NetPollReq \in Range(req_items)'
  BY <1>1, <1>3, <1>4, ReqCall
<1>o. i.fd = cl[i.client].fd /\ i.fd # NoFd /\ Owns(sock, i.client, i.fd)
  BY <1>1, <1>3, <1>4, ReqCall
<1>d. i.fd \in DOMAIN sock
  <2>1. DOMAIN sock = 1 .. Len(sock)  BY <1>3, LenProperties DEF TypeInv, SocketsOK
  <2> QED  BY <1>3, <1>o, <2>1 DEF Owns, TypeInv
<1>7. /\ SocketsOK(sock') /\ Len(sock') = Len(sock) /\ DOMAIN sock' = DOMAIN sock
      /\ \A h \in DOMAIN sock : sock'[h].st = sock[h].st /\ sock'[h].peer = sock[h].peer
      /\ cl' \in [Clients -> Calls]
      /\ \A a \in Clients : /\ cl'[a].op = cl[a].op /\ cl'[a].fd = cl[a].fd
                            /\ cl'[a].st = cl[a].st
      /\ res_items' \in Seq(Replies)
      /\ recv_reply_status' \in BOOLEAN /\ ReplyOK(recv_reply_status, reply)'
      /\ \E r \in Replies :
            /\ r.client = i.client /\ r.type = "RecvReply"
            /\ Range(res_items)' = Range(res_items) \cup {r}
            /\ \A T : Count(res_items', T) = Count(res_items, T) + One(r \in T)
  BY <1>1, <1>3, <1>4, <1>6, <1>d, RecvSliceFacts
<1>8. PICK r \in Replies :
            /\ r.client = i.client /\ r.type = "RecvReply"
            /\ Range(res_items)' = Range(res_items) \cup {r}
            /\ \A T : Count(res_items', T) = Count(res_items, T) + One(r \in T)
  BY <1>7
<1>14. ExecutorType(ex)  BY <1>3 DEF TypeInv
<1>15. /\ ExecutorType(e) /\ e.delay = ex.delay /\ Frame(ex, e)
       /\ ResFull => e.panic
       /\ ~ResFull => e = ex
  <2>1. CASE ResFull
    <3>1. e = Failed(ex)  BY <2>1
    <3>2. ExecutorType(Failed(ex)) /\ Failed(ex).panic /\ Failed(ex).delay = ex.delay
          /\ Frame(ex, Failed(ex))
      BY <1>14, FailedType
    <3> QED  BY <2>1, <3>1, <3>2
  <2>2. CASE ~ResFull  BY <1>14, <2>2 DEF Frame
  <2> QED  BY <2>1, <2>2
<1> HIDE DEF e
<1>16. cnt \in 0 .. SwitchCnt - 1 /\ e.delay \subseteq {Receiver} /\ e.current = Receiver
  BY <1>3, <1>5, <1>15 DEF TypeInv, Frame
<1>17. /\ ExecutorType(ex') /\ ex'.delay \subseteq {Receiver}
       /\ cnt' \in 0 .. SwitchCnt - 1 /\ running' \in BOOLEAN /\ (e.panic => ex'.panic)
  BY <1>1, <1>5, <1>15, <1>16, ReqDoneType
<1>18. TypeInv'  BY <1>1, <1>3, <1>5, <1>7, <1>17 DEF TypeInv
<1>19. GivenIn(sock)'
  <2>1. \A q \in Range(res_items)' : q \in Range(res_items) \/ q.type # "ListenReply"
    BY <1>8
  <2> QED  BY <1>1, <1>3, <1>7, <2>1, GivenKept
<1>20. ASSUME ~e.panic
       PROVE  /\ e = ex
              /\ ~ex'.panic =>
                    /\ Shape(ex') /\ Frame(ex, ex')
                    /\ \A q \in Prios \ {1} : ex'.ready[q] = ex.ready[q]
                    /\ \A d : d # Receiver => ~Run(d) /\ ~Run(d)'
                    /\ Len(ex'.ready[1]) + One(Receiver \in ex'.delay) + One(Run(Receiver)')
                          \in 1 .. 1 + One(recv_req_status)
              /\ Sizes => ~ex'.panic
  <2>1. e = ex /\ ReqDone(ex)  BY <1>1, <1>15, <1>20
  <2> QED  BY <1>3, <1>5, <2>1, ReqDoneRun
<1>21. Sizes => ~ex'.panic
  <2>1. Sizes => ~e.panic  BY <1>2, <1>3, <1>15, ResRoom
  <2> QED  BY <1>20, <2>1
<1>22. ASSUME ~ex'.panic
       PROVE  /\ Shape(ex') /\ CoInv' /\ SchedInv(ex, block_cids)'
              /\ OrderInv(ex, block_cids)' /\ QueueInv'
              /\ CallInv' /\ TokenInv(sock)' /\ WakesInv(ex)'
              /\ StackInv(sock, peer, 0)' /\ GoodInv(sock, peer, block_cids, 0)'
              /\ StrandInv'
  <2>1. /\ Shape(ex') /\ Frame(ex, ex')
        /\ \A q \in Prios \ {1} : ex'.ready[q] = ex.ready[q]
        /\ \A d : d # Receiver => ~Run(d) /\ ~Run(d)'
        /\ Len(ex'.ready[1]) + One(Receiver \in ex'.delay) + One(Run(Receiver)')
              \in 1 .. 1 + One(recv_req_status)
    BY <1>17, <1>20, <1>22
  <2>2. ex'.ready[2] = ex.ready[2] /\ ex'.ready[0] = ex.ready[0]  BY <2>1, NetSized
  <2>3. ex'.tasks = ex.tasks /\ ex'.current = Receiver  BY <1>5, <2>1 DEF Frame
  <2>4. CoInv' /\ SchedInv(ex, block_cids)' /\ OrderInv(ex, block_cids)' /\ QueueInv'
    BY <1>1, <1>3, <1>5, <2>1, <2>2, <2>3, ReqKept
  <2>5. CallInv'
    <3>1. r.type = Expected(cl[i.client].op)
      <4>1. cl[i.client].op = "Recv"
        BY <1>3, <1>6 DEF TypeInv, Calls, Request
      <4> QED  BY <1>8, <4>1 DEF Expected
    <3> QED  BY <1>1, <1>3, <1>6, <1>7, <1>8, <3>1, AnsweredCall
  <2>6. TokenInv(sock)'
    <3>1. \A a \in Clients : One(r \in ItemsOf(a)) = IF a = i.client THEN 1 ELSE 0
      BY <1>8, ItemFacts DEF One
    <3>2. \A a \in Clients : Count(res_items, ItemsOf(a)) \in Nat  BY <1>3, PlacesType
    <3>3. /\ Count(res_items', ItemsOf(i.client)) = 1
          /\ \A a \in Clients \ {i.client} :
                Count(res_items', ItemsOf(a)) = Count(res_items, ItemsOf(a))
      BY <1>6, <1>8, <3>1, <3>2
    <3>4. Places(i.client)' = 1 /\ \A a \in Clients \ {i.client} : Places(a)' = Places(a)
      BY <1>1, <1>3, <1>6, <3>3, AnsweredPlaces
    <3>5. \A a \in Clients : cl[a].fd # NoFd => cl[a].fd \in DOMAIN sock
      <4>1. DOMAIN sock = 1 .. Len(sock)  BY <1>3, LenProperties DEF TypeInv, SocketsOK
      <4> QED  BY <1>3, <4>1 DEF GivenIn, Owns, TypeInv
    <3> QED  BY <1>3, <1>6, <1>7, <3>4, <3>5 DEF TokenInv
  <2>7. WakesInv(ex)'  BY <1>1, <1>3, <1>5, <1>6, <2>1, <2>2, ReqWakes
  <2>8. StackInv(sock, peer, 0)' /\ GoodInv(sock, peer, block_cids, 0)'
    <3>1. Listeners' = Listeners  BY <1>1 DEF Listeners, Accepts
    <3>2. StackInv(sock, peer, 0)'  BY <1>1, <1>3, <1>7, StackKept
    <3>3. GoodInv(sock, peer, block_cids, 0)'  BY <1>1, <1>3, <1>7, <3>1, GoodKept
    <3> QED  BY <3>2, <3>3
  <2>9. StrandInv'
    <3>1. Queued(ex, 0)' = Queued(ex, 0) /\ ~Run(Poller)  BY <1>3, <2>1, <2>2 DEF Queued
    <3> QED  BY <1>1, <1>3, <1>6, <3>1 DEF StrandInv, NetPollReq
  <2> QED  BY <2>1, <2>4, <2>5, <2>6, <2>7, <2>8, <2>9
<1> QED  BY <1>18, <1>19, <1>21, <1>22, NetParts2

(* A coroutine that is past accept() is woken. *)
LEMMA WokenSched ==
    ASSUME SchedInv(ex, block_cids), OrderInv(ex, block_cids), ex.ready[2] \in Seq(TaskIds),
           NEW d \in Accepts, d \notin Listeners, ex'.ready[2] = Append(ex.ready[2], d),
           block_cids' = block_cids, Accepts' = Accepts, Listeners' = Listeners,
           \A a \in Accepts \ {d} : /\ co'[a] = co[a] /\ immediate'[a] = immediate[a]
                                    /\ ~Run(a) /\ ~Run(a)',
           co'[d].handler = co[d].handler, ~Run(d)',
           co'[d].pc = "parked" => immediate'[d] # NoItem
    PROVE  SchedInv(ex, block_cids)' /\ OrderInv(ex, block_cids)'
<1> DEFINE s == ex.ready[2]
           t == ex'.ready[2]
<1>0. d \in TaskIds  BY DEF Accepts
<1>1. /\ Len(s) \in Nat /\ DOMAIN s = 1 .. Len(s) /\ DOMAIN t = 1 .. Len(s) + 1
      /\ \A k \in 1 .. Len(s) : t[k] = s[k]
      /\ t[Len(s) + 1] = d
  BY <1>0, AppendFacts
<1>2. Queued(ex, 2)' = Queued(ex, 2) \cup {d}
  <2>1. Queued(ex', 2) = Queued(ex, 2) \cup {d}  BY <1>0, QueuedAppend
  <2>2. Queued(ex, 2)' = Queued(ex', 2)  BY DEF Queued
  <2> QED  BY <2>1, <2>2
<1>3. d \notin Range(block_cids)  BY DEF SchedInv
<1>4. SchedInv(ex, block_cids)'
  <2> SUFFICES ASSUME NEW a \in Accepts
               PROVE  /\ a \in Queued(ex, 2) \cup {d} => ~Run(a)'
                      /\ a \in Range(block_cids) <=>
                            a \in Listeners /\ a \notin Queued(ex, 2) \cup {d} /\ ~Run(a)'
                      /\ co'[a].pc = "parked" /\ (a \in Queued(ex, 2) \cup {d} \/ Run(a)') =>
                            immediate'[a] # NoItem
    BY <1>2 DEF SchedInv
  <2>1. CASE a = d  BY <1>3, <2>1
  <2>2. CASE a # d  BY <2>2 DEF SchedInv
  <2> QED  BY <2>1, <2>2
<1>5. \A a, e \in Accepts : Before(a, e)' <=> Before(a, e)  BY DEF Before
<1>6. \A a \in Listeners : a \in Accepts  BY DEF Listeners
<1>7. Range(block_cids) \subseteq Accepts  BY DEF OrderInv, Range
<1>8. \A i, j \in DOMAIN t : i < j /\ t[i] \in Listeners /\ t[j] \in Listeners => Before(t[i], t[j])
  <2> SUFFICES ASSUME NEW i \in DOMAIN t, NEW j \in DOMAIN t, i < j,
                      t[i] \in Listeners, t[j] \in Listeners
               PROVE  Before(t[i], t[j])
    OBVIOUS
  <2> HIDE DEF t
  <2>1. j # Len(s) + 1  BY <1>1
  <2>2. i \in DOMAIN s /\ j \in DOMAIN s /\ t[i] = s[i] /\ t[j] = s[j]  BY <1>1, <2>1
  <2> QED  BY <2>2 DEF OrderInv
<1>9. \A a \in Listeners : ~Run(a)'  BY <1>6
<1>10. \A k \in DOMAIN block_cids : block_cids[k] \in Accepts  BY DEF OrderInv
<1>11. OrderInv(ex, block_cids)'
  <2>0. \A a \in Accepts : co'[a].handler = co[a].handler  OBVIOUS
  <2>1. \A i, j \in DOMAIN t : i < j /\ t[i] \in Listeners /\ t[j] \in Listeners =>
                                  co'[t[i]].handler < co'[t[j]].handler
    BY <1>6, <1>8, <2>0 DEF Before
  <2>2. \A i, j \in DOMAIN block_cids : i < j =>
           co'[block_cids[i]].handler < co'[block_cids[j]].handler
    BY <1>10, <2>0 DEF OrderInv, Before
  <2>3. \A a \in Listeners, e \in Range(block_cids) :
           a \notin Range(block_cids) => co'[a].handler < co'[e].handler
    BY <1>6, <1>7, <2>0 DEF OrderInv, Before
  <2> HIDE DEF t
  <2>4. ex'.ready[2] = t  BY DEF t
  <2> QED  BY <1>9, <1>10, <2>1, <2>2, <2>3, <2>4 DEF OrderInv, Before
<1> QED  BY <1>4, <1>11

(* Waking a coroutine of a Listen does not overflow the queue. *)
LEMMA WakeRoom ==
    ASSUME Shape(ex), CoInv, CallInv, NEW d \in Accepts, d \notin Queued(ex, 2)
    PROVE  LET e == Wake(ex, d)
           IN  /\ ExecutorType(e) /\ Frame(ex, e) /\ e.delay = ex.delay
               /\ ~e.panic => /\ Shape(e)
                              /\ e.ready = [ex.ready EXCEPT ![2] = Append(@, d)]
               /\ Sizes => ~e.panic
<1> DEFINE e == Wake(ex, d)
           p == ex.tasks[d]
<1>1. d \in Live(ex) /\ d \in TaskIds /\ d \notin {Poller, Receiver}  BY DEF CoInv, Accepts
<1>2. p = 2  BY <1>1, ShapeQueues
<1>3. ExecutorType(e) /\ Frame(ex, e) /\ e.delay = ex.delay  BY <1>1, WakeFacts DEF Shape
<1>4. /\ ~e.panic => /\ Shape(e) /\ e.ready = [ex.ready EXCEPT ![p] = Append(@, d)]
      /\ Len(ex.ready[p]) < MaxTask - 1 => ~e.panic
  BY <1>1, ShapeWake
<1>5. ASSUME Sizes  PROVE Len(ex.ready[2]) < MaxTask - 1
  <2>1. IsFiniteSet(Clients) /\ MaxTask >= Cardinality(Clients) + 2 /\ MaxTask \in Nat
    BY <1>5, NetSized DEF Sizes
  <2>2. Live(ex) = Accepts \cup {Poller, Receiver}  BY DEF CoInv
  <2>3. Len(ex.ready[2]) <= Cardinality(Clients) /\ Cardinality(Clients) \in Nat
    BY <2>1, <2>2, ReadyFew
  <2>4. Len(ex.ready[2]) \in Nat  BY ShapeQueues, NetSized
  <2> QED  BY <2>1, <2>3, <2>4
<1> QED  BY <1>2, <1>3, <1>4, <1>5

(* Recv without data: the socket's coroutine gets the request. *)
LEMMA ReqRecvWake ==
    ASSUME NetInv, ReqRecv, faults' = faults, sock[Head(req_items).fd].rx = <<>>
    PROVE  NetInv'
<1>1. /\ TakeReq("Recv")
      /\ IF Head(req_items).fd \in DOMAIN socket2cid
         THEN /\ immediate' = [immediate EXCEPT ![socket2cid[Head(req_items).fd]] = Head(req_items)]
              /\ ReqDone(Wake(ex, socket2cid[Head(req_items).fd]))
         ELSE ReqDone(Failed(ex)) /\ UNCHANGED immediate
      /\ UNCHANGED <<co, res_items, recv_reply_status, reply, cl, sock, syn_queue,
                     block_cids, socket2cid, frames, rx_cmplt, masked, late, peer>>
  BY DEF ReqRecv, device, NoReply
<1>2. ~ex.panic  BY <1>1 DEF TakeReq, Go
<1>3. /\ TypeInv /\ GivenIn(sock) /\ RunInv /\ Shape(ex) /\ CoInv /\ SchedInv(ex, block_cids)
      /\ OrderInv(ex, block_cids) /\ QueueInv
      /\ CallInv /\ TokenInv(sock) /\ WakesInv(ex)
      /\ StackInv(sock, peer, 0) /\ GoodInv(sock, peer, block_cids, 0) /\ StrandInv
      /\ Poller \in TaskIds /\ Receiver \in TaskIds /\ Poller # Receiver
  BY <1>2, Running
<1>4. PICK i : i = Head(req_items)  OBVIOUS
<1>5. /\ running /\ ex.current = Receiver /\ co[Receiver].pc = "none"
      /\ recv_req_status' = recv_req_status
      /\ req_items' \in Seq(Requests \cup {NetPollReq})
  BY <1>1, <1>3, TakeReqFacts
<1>6. /\ i \in Requests /\ i.client \in Clients /\ i.type = "Recv"
      /\ Count(req_items', ItemsOf(i.client)) = 0
      /\ Count(res_items, ItemsOf(i.client)) = 0 /\ ~Held(i.client) /\ cl[i.client].st = "waiting"
      /\ "Recv" = Request(cl[i.client].op)
      /\ \A a \in Clients \ {i.client} :
            Count(req_items', ItemsOf(a)) = Count(req_items, ItemsOf(a))
      /\ Count(req_items', {NetPollReq}) = Count(req_items, {NetPollReq})
      /\ \A j \in Range(req_items)' \ {NetPollReq} :
            j \in Range(req_items) /\ j.client \in Clients /\ j.client # i.client
      /\ NetPollReq \in Range(req_items) => NetPollReq \in Range(req_items)'
  BY <1>1, <1>3, <1>4, ReqCall
<1>o. i.fd = cl[i.client].fd /\ i.fd # NoFd /\ Owns(sock, i.client, i.fd)
  BY <1>1, <1>3, <1>4, ReqCall
<1>7. PICK d : d = socket2cid[i.fd]  OBVIOUS
<1>8. /\ d \in TaskIds \ {Poller, Receiver} /\ co[d].handler = i.fd /\ co[d].caller = i.client
      /\ co[d].pc \in {"parked", "retry"} /\ i.fd \in DOMAIN socket2cid
  BY <1>3, <1>7, <1>o DEF Owns, TypeInv
<1>9. d \in Accepts /\ d \notin Listeners  BY <1>8 DEF Accepts, Listeners
<1>10. co[d].pc = "parked" /\ immediate[d] = NoItem
  <2>1. ~Holding(d)  BY <1>6, <1>8, <1>9 DEF Held
  <2> QED  BY <1>8, <2>1 DEF Holding
<1>11. d \notin Queued(ex, 2) /\ ~Run(d)  BY <1>3, <1>9, <1>10 DEF SchedInv
<1> DEFINE e == Wake(ex, d)
<1>12. immediate' = [immediate EXCEPT ![d] = i] /\ ReqDone(e)  BY <1>1, <1>4, <1>7, <1>8
<1>13. /\ ExecutorType(e) /\ Frame(ex, e) /\ e.delay = ex.delay
       /\ ~e.panic => Shape(e) /\ e.ready = [ex.ready EXCEPT ![2] = Append(@, d)]
       /\ Sizes => ~e.panic
  BY <1>3, <1>9, <1>11, WakeRoom
<1> HIDE DEF e
<1>14. /\ immediate' \in [TaskIds -> Requests \cup {NoItem}] /\ immediate'[d] = i
       /\ \A a \in TaskIds \ {d} : immediate'[a] = immediate[a]
  <2>1. immediate \in [TaskIds -> Requests \cup {NoItem}]  BY <1>3 DEF TypeInv
  <2> QED  BY <1>6, <1>8, <1>12, <2>1
<1>15. i # NoItem  BY <1>6, ItemFacts
<1>16. cnt \in 0 .. SwitchCnt - 1 /\ e.delay \subseteq {Receiver} /\ e.current = Receiver
  BY <1>3, <1>5, <1>13 DEF TypeInv, Frame
<1>17. /\ ExecutorType(ex') /\ ex'.delay \subseteq {Receiver}
       /\ cnt' \in 0 .. SwitchCnt - 1 /\ running' \in BOOLEAN /\ (e.panic => ex'.panic)
  BY <1>5, <1>12, <1>13, <1>16, ReqDoneType
<1>18. TypeInv'  BY <1>1, <1>3, <1>5, <1>14, <1>17 DEF TypeInv
<1>19. GivenIn(sock)'  BY <1>1, <1>3 DEF GivenIn, Owns
<1>r. ex.ready \in [Prios -> Seq(TaskIds)] /\ ex.ready[2] \in Seq(TaskIds)
  BY <1>3, ShapeQueues, NetSized
<1>20. ASSUME ~e.panic
       PROVE  /\ ~ex'.panic =>
                    /\ Shape(ex') /\ Frame(e, ex')
                    /\ \A q \in Prios \ {1} : ex'.ready[q] = e.ready[q]
                    /\ \A a : a # Receiver => ~Run(a) /\ ~Run(a)'
                    /\ Len(ex'.ready[1]) + One(Receiver \in ex'.delay) + One(Run(Receiver)')
                          \in 1 .. 1 + One(recv_req_status)
              /\ Sizes => ~ex'.panic
  <2>0. Shape(e) /\ e.ready = [ex.ready EXCEPT ![2] = Append(@, d)]  BY <1>13, <1>20
  <2>1. e.ready[1] = ex.ready[1]  BY <1>r, <2>0, NetSized
  <2> QED  BY <1>3, <1>5, <1>12, <1>13, <1>16, <2>0, <2>1, ReqDoneRun
<1>21. Sizes => ~ex'.panic  BY <1>13, <1>20
<1>22. ASSUME ~ex'.panic
       PROVE  /\ Shape(ex') /\ CoInv' /\ SchedInv(ex, block_cids)'
              /\ OrderInv(ex, block_cids)' /\ QueueInv'
              /\ CallInv' /\ TokenInv(sock)' /\ WakesInv(ex)'
              /\ StackInv(sock, peer, 0)' /\ GoodInv(sock, peer, block_cids, 0)'
              /\ StrandInv'
  <2>0. ~e.panic  BY <1>17, <1>22
  <2>1. /\ Shape(ex') /\ Frame(e, ex')
        /\ \A q \in Prios \ {1} : ex'.ready[q] = e.ready[q]
        /\ \A a : a # Receiver => ~Run(a) /\ ~Run(a)'
        /\ Len(ex'.ready[1]) + One(Receiver \in ex'.delay) + One(Run(Receiver)')
              \in 1 .. 1 + One(recv_req_status)
    BY <1>20, <1>22, <2>0
  <2>2. ex'.ready[2] = Append(ex.ready[2], d) /\ ex'.ready[0] = ex.ready[0]
    <3>1. e.ready = [ex.ready EXCEPT ![2] = Append(@, d)]  BY <1>13, <2>0
    <3>2. e.ready[2] = Append(ex.ready[2], d) /\ e.ready[0] = ex.ready[0]
      BY <1>r, <3>1, NetSized
    <3> QED  BY <2>1, <3>2, NetSized
  <2>3. ex'.tasks = ex.tasks /\ ex'.current = Receiver  BY <1>13, <1>16, <2>1 DEF Frame
  <2>4. Accepts' = Accepts /\ Listeners' = Listeners  BY <1>1 DEF Accepts, Listeners
  <2>5. SchedInv(ex, block_cids)' /\ OrderInv(ex, block_cids)'
    <3>1. \A a \in Accepts : a \in TaskIds /\ a # Receiver  BY DEF Accepts
    <3>2. \A a \in Accepts \ {d} : /\ co'[a] = co[a] /\ immediate'[a] = immediate[a]
                                   /\ ~Run(a) /\ ~Run(a)'
      BY <1>1, <1>14, <2>1, <3>1
    <3>3. ~Run(d)'  BY <1>9, <2>1, <3>1
    <3> QED  BY <1>1, <1>3, <1>9, <1>14, <1>15, <1>r, <2>2, <2>4, <3>2, <3>3, WokenSched
  <2>6. CoInv'
    <3>1. Live(ex)' = Live(ex)  BY <2>3 DEF Live
    <3>2. co[Poller].pc # "ack" /\ co[Receiver].pc = "none"  BY <1>3, <1>5, <2>1 DEF CoInv
    <3>3. Receiver \in Live(ex)  BY <1>3 DEF Shape
    <3>4. \A a \in TaskIds \ Accepts : immediate'[a] = immediate[a]  BY <1>9, <1>14
    <3> QED  BY <1>1, <1>3, <2>3, <2>4, <3>1, <3>2, <3>3, <3>4 DEF CoInv
  <2>7. QueueInv'  BY <1>1, <1>3, <2>4 DEF QueueInv
  <2>op. cl[i.client].op = "Recv"  BY <1>3, <1>6 DEF TypeInv, Calls, Request
  <2>8. CallInv'
    <3>1. CallParts(Accepts, co, immediate, cl, Range(req_items), Range(res_items))
      BY <1>3, CallNext
    <3>2. i = Message("Recv", i.client, i.fd)  BY <1>6 DEF Requests, Message
    <3>3. Awaited(Accepts, co, immediate', cl, Range(res_items))
      <4> SUFFICES ASSUME NEW a \in Accepts
                   PROVE  LET c == co[a].caller
                              m == Message("Recv", c, co[a].handler)
                          IN  /\ co[a].pc \in {"start", "listening"} => cl[c].op = "Listen"
                              /\ immediate'[a] # NoItem =>
                                    co[a].pc = "parked" /\ immediate'[a] = m /\ cl[c].op = "Recv"
                              /\ co[a].pc = "retry" => co[a].item = m /\ cl[c].op = "Recv"
                              /\ co[a].pc # "retry" => co[a].item = NoItem
                              /\ cl[c].op = "Listen" /\ co[a].pc \in {"parked", "retry"} =>
                                    \E r \in Range(res_items) : r.client = c
        BY DEF Awaited
      <4>1. CASE a = d  BY <1>8, <1>10, <1>14, <2>op, <3>1, <3>2, <4>1 DEF CallParts, Awaited
      <4>2. CASE a # d
        <5>1. immediate'[a] = immediate[a]  BY <1>14, <4>2 DEF Accepts
        <5> QED  BY <3>1, <5>1 DEF CallParts, Awaited
      <4> QED  BY <4>1, <4>2
    <3>4. Range(res_items)' = Range(res_items)  BY <1>1
    <3>5. \A j \in Range(req_items)' \ {NetPollReq} :
             j.type = Request(cl[j.client].op) /\ j.fd = cl[j.client].fd
      BY <1>6, <3>1 DEF CallParts
    <3> QED  BY <1>1, <2>4, <3>1, <3>3, <3>4, <3>5, CallNext DEF CallParts
  <2>9. TokenInv(sock)'
    <3>1. Held(i.client)'
      <4>1. Holding(d)'  BY <1>14, <1>15 DEF Holding
      <4> QED  BY <1>1, <1>8, <1>9, <2>4, <4>1 DEF Held
    <3>2. \A a \in Clients \ {i.client} : Held(a)' <=> Held(a)
      <4>1. \A b \in Accepts \ {d} : Holding(b)' <=> Holding(b)
        BY <1>1, <1>14 DEF Holding, Accepts
      <4> QED  BY <1>1, <1>8, <2>4, <4>1 DEF Held
    <3>3. \A a \in Clients : Places(a)' = Count(req_items', ItemsOf(a))
                                + Count(res_items, ItemsOf(a)) + One(Held(a)')
      BY <1>1 DEF Places, Count, One
    <3>4. One(Held(i.client)') = 1 /\ \A a \in Clients \ {i.client} : One(Held(a)') = One(Held(a))
      BY <3>1, <3>2 DEF One
    <3>5. Places(i.client)' = 1  BY <1>6, <3>3, <3>4
    <3>6. \A a \in Clients \ {i.client} : Places(a)' = Places(a)
      BY <1>6, <3>3, <3>4 DEF Places
    <3> QED  BY <1>1, <1>3, <1>6, <3>5, <3>6 DEF TokenInv
  <2>10. WakesInv(ex)'  BY <1>1, <1>3, <1>5, <1>6, <2>1, <2>2, ReqWakes
  <2>11. StackInv(sock, peer, 0)' /\ GoodInv(sock, peer, block_cids, 0)'
    BY <1>1, <1>3, StackSame
  <2>12. StrandInv'
    <3>1. Queued(ex, 0)' = Queued(ex, 0) /\ ~Run(Poller)  BY <1>3, <2>1, <2>2 DEF Queued
    <3> QED  BY <1>1, <1>3, <1>6, <3>1 DEF StrandInv, NetPollReq
  <2> QED  BY <2>1, <2>5, <2>6, <2>7, <2>8, <2>9, <2>10, <2>11, <2>12
<1> QED  BY <1>18, <1>19, <1>21, <1>22, NetParts2

(* Recv, with data or without. *)
LEMMA ReqRecvStep ==
    ASSUME NetInv, ReqRecv, faults' = faults
    PROVE  NetInv'
BY ReqRecvAnswer, ReqRecvWake

LEMMA ReqSendStep ==
    ASSUME NetInv, ReqSend, faults' = faults
    PROVE  NetInv'
<1>1. PICK room \in {TRUE} \cup {"tx_full" \notin faults} :
         LET i == Head(req_items)
             w == IfacePoll(ex, sock)
         IN  IF CanSend(i.fd, room)
             THEN /\ Polled(w)
                  /\ ReqDone(IF ResFull THEN Failed(w.ex) ELSE w.ex)
                  /\ PushRes(Message("SendReply", i.client, NoFd))
             ELSE /\ ReqDone(ex)
                  /\ NoReply
                  /\ UNCHANGED <<sock, block_cids, peer, frames, late>>
  BY DEF ReqSend
<1>2. TakeReq("Send") /\ UNCHANGED <<co, immediate, syn_queue, socket2cid, rx_cmplt, masked, cl>>
  BY DEF ReqSend
<1>3. CASE CanSend(Head(req_items).fd, room)
  <2>1. sock[Head(req_items).fd].st = "established"  BY <1>3 DEF CanSend
  <2> QED  BY <1>1, <1>2, <1>3, <2>1, ReqSendAnswer
<1>4. CASE ~CanSend(Head(req_items).fd, room)
  <2>1. sock[Head(req_items).fd].st # "established" \/ "tx_full" \in faults
    BY <1>4 DEF CanSend
  <2> QED  BY <1>1, <1>2, <1>4, <2>1, ReqSendCut
<1> QED  BY <1>3, <1>4

-----------------------------------------------------------------------------
(* Listen. *)

(* What spawn leaves alone, even when it panics. *)
LEMMA SpawnType ==
    ASSUME NEW x, ExecutorType(x), NEW p \in Prios
    PROVE  LET e == Spawn(x, p)
           IN  ExecutorType(e) /\ e.current = x.current /\ e.delay = x.delay
<1> DEFINE e == Spawn(x, p)
           c == find_first_one(FreeCids(x))
           z == [x EXCEPT !.ids = @ \cup {c}]
           y == PushReady(z, p, c)
<1>1. ExecutorType(e)  BY SpawnFacts
<1>2. CASE FreeCids(x) = {}
  <2>1. e = [x EXCEPT !.panic = TRUE]  BY <1>2 DEF Spawn
  <2> QED  BY <1>1, <2>1 DEF ExecutorType
<1>3. CASE FreeCids(x) # {}
  <2>1. FreeCids(x) \in SUBSET Nat  BY Constants DEF FreeCids
  <2>2. c \in FreeCids(x)  BY <1>3, <2>1, FirstOne
  <2>3. c \in Cids  BY <2>2 DEF FreeCids
  <2>4. \/ e = [y EXCEPT !.panic = TRUE]
        \/ e = [y EXCEPT !.tasks[c] = p, !.num = @ + 1]
    BY <1>3 DEF Spawn
  <2> HIDE DEF c
  <2>5. ExecutorType(z) /\ z.current = x.current /\ z.delay = x.delay
    BY <2>3 DEF ExecutorType
  <2> HIDE DEF z
  <2>6. ExecutorType(y) /\ Frame(z, y) /\ y.delay = z.delay
    BY <2>3, <2>5, PushReadyFacts
  <2> HIDE DEF y, e
  <2>7. e.current = y.current /\ e.delay = y.delay  BY <2>4, <2>6 DEF ExecutorType
  <2>8. e.current = x.current /\ e.delay = x.delay  BY <2>5, <2>6, <2>7 DEF Frame
  <2> QED  BY <1>1, <2>8 DEF e
<1> QED  BY <1>2, <1>3

(* There is a task for a client that has no coroutine yet. *)
LEMMA SpawnRoom ==
    ASSUME Shape(ex), CoInv, CallInv, Sizes, NEW c \in Clients,
           \A d \in Accepts : co[d].caller # c
    PROVE  ~Spawn(ex, 2).panic
<1> DEFINE e == Spawn(ex, 2)
           f == find_first_one(FreeCids(ex))
           z == [ex EXCEPT !.ids = @ \cup {f}]
           y == PushReady(z, 2, f)
           D == Clients \ {c}
<1>1. /\ IsFiniteSet(Clients) /\ MaxTask >= Cardinality(Clients) + 2 /\ MaxTask \in Nat
      /\ MaxTask > 0
  BY NetSized DEF Sizes
<1>2. IsFiniteSet(D) /\ Cardinality(D) = Cardinality(Clients) - 1 /\ Cardinality(Clients) \in Nat
  <2>1. IsFiniteSet(D) /\ Cardinality(D) = Cardinality(Clients) - 1  BY <1>1, FS_RemoveElement
  <2> QED  BY <1>1, <2>1, FS_CardinalityType
<1>3. \A d \in Accepts : co[d].caller \in D  BY DEF CoInv
<1>4. /\ IsFiniteSet(Accepts) /\ Cardinality(Accepts) <= Cardinality(D)
      /\ Cardinality(Accepts) \in Nat
  BY <1>2, <1>3, AcceptsFew
<1>5. Live(ex) = (Accepts \cup {Poller}) \cup {Receiver}  BY DEF CoInv
<1>6. IsFiniteSet(Live(ex)) /\ Cardinality(Live(ex)) <= Cardinality(Accepts) + 2
  <2> DEFINE A == Accepts
             B == A \cup {Poller}
             C == B \cup {Receiver}
  <2>1. IsFiniteSet(A) /\ Cardinality(A) \in Nat  BY <1>4
  <2> HIDE DEF A
  <2>2. IsFiniteSet(B) /\ (Cardinality(B) = Cardinality(A) \/ Cardinality(B) = Cardinality(A) + 1)
    BY <2>1, FS_AddElement
  <2> HIDE DEF B
  <2>3. IsFiniteSet(C) /\ (Cardinality(C) = Cardinality(B) \/ Cardinality(C) = Cardinality(B) + 1)
    BY <2>2, FS_AddElement
  <2> HIDE DEF C
  <2>4. Cardinality(C) <= Cardinality(A) + 2  BY <2>1, <2>2, <2>3
  <2>5. Live(ex) = C  BY <1>5 DEF A, B, C
  <2> QED  BY <2>3, <2>4, <2>5 DEF A
<1>7. Cardinality(Live(ex)) < MaxTask
  <2>1. Cardinality(Live(ex)) \in Nat  BY <1>6, FS_CardinalityType
  <2> QED  BY <1>1, <1>2, <1>4, <1>6, <2>1
<1>8. Cardinality(TaskIds) = MaxTask
  <2>1. Cardinality(0 .. MaxTask - 1) = (MaxTask - 1) - 0 + 1  BY <1>1, FS_Interval
  <2> QED  BY <1>1, <2>1 DEF TaskIds
<1>9. Live(ex) # TaskIds
  <2>1. Cardinality(Live(ex)) \in Nat  BY <1>6, FS_CardinalityType
  <2> QED  BY <1>1, <1>7, <1>8, <2>1
<1>10. Len(ex.ready[2]) < MaxTask - 1
  <2>1. Len(ex.ready[2]) <= Cardinality(Clients)
    BY <1>1, ReadyFew DEF CoInv
  <2>2. Len(ex.ready[2]) \in Nat  BY ShapeQueues, NetSized
  <2> QED  BY <1>1, <1>2, <2>1, <2>2
<1>11. ExecutorType(ex) /\ QueuesTyped(ex) /\ IdsMatch(ex) /\ ~ex.panic  BY DEF Shape
<1>12. PICK d \in TaskIds : d \notin Live(ex)  BY <1>9 DEF Live
<1>13. d \in FreeCids(ex)  BY <1>11, <1>12, Constants DEF FreeCids, IdsMatch
<1>14. FreeCids(ex) \in SUBSET Nat /\ FreeCids(ex) # {}  BY <1>13, Constants DEF FreeCids
<1>15. f \in FreeCids(ex) /\ f <= d  BY <1>13, <1>14, FirstOne
<1>16. f \in TaskIds /\ f \in Cids
  BY <1>15, <1>14, Constants DEF TaskIds, FreeCids
<1>17. e = IF y.panic \/ f \notin TaskIds THEN [y EXCEPT !.panic = TRUE]
          ELSE [y EXCEPT !.tasks[f] = 2, !.num = @ + 1]
  BY <1>14 DEF Spawn
<1> HIDE DEF f
<1>18. ExecutorType(z) /\ z.ready = ex.ready /\ z.panic = ex.panic
  BY <1>11, <1>16 DEF ExecutorType
<1> HIDE DEF z
<1>19. ExecutorType(y) /\ ~y.panic
  <2>1. Len(z.ready[2]) < MaxTask - 1 /\ ~z.panic  BY <1>10, <1>11, <1>18
  <2>2. 2 \in Prios /\ f \in Cids /\ ExecutorType(z)  BY <1>16, <1>18, NetSized
  <2>3. /\ ExecutorType(y)
        /\ \/ Len(z.ready[2]) < MaxTask - 1 /\ y.panic = z.panic
           \/ ~(Len(z.ready[2]) < MaxTask - 1) /\ y.panic
    BY ONLY <2>2, PushReadyFacts
  <2> QED  BY ONLY <2>1, <2>3
<1> HIDE DEF y, e
<1>20. ~e.panic
  <2>1. e = [y EXCEPT !.tasks[f] = 2, !.num = @ + 1]  BY ONLY <1>16, <1>17, <1>19
  <2> QED  BY ONLY <1>19, <2>1 DEF ExecutorType
<1> QED  BY <1>20 DEF e

(* The client of a Listen has no coroutine: its old one answered it.       *)
LEMMA ListenFresh ==
    ASSUME TypeInv, GivenIn(sock), CallInv, CoInv, TokenInv(sock), TakeReq("Listen")
    PROVE  \A d \in Accepts : co[d].caller # Head(req_items).client
<1>1. PICK c : c = Head(req_items).client  OBVIOUS
<1>2. /\ c \in Clients /\ Count(res_items, ItemsOf(c)) = 0 /\ ~Held(c)
      /\ "Listen" = Request(cl[c].op)
  BY <1>1, ReqCall
<1>3. cl[c].op = "Listen"  BY <1>2 DEF Request
<1>4. res_items \in Seq(Replies)  BY DEF TypeInv
<1>5. \A r \in Range(res_items) : r.client # c
  <2>1. \A r \in Range(res_items) : r \notin ItemsOf(c)  BY <1>2, <1>4, CountType
  <2>2. \A r \in Range(res_items) : r \in Replies  BY <1>4, RangeIn
  <2> QED  BY <2>1, <2>2, ItemFacts
<1> SUFFICES ASSUME NEW d \in Accepts, co[d].caller = c  PROVE FALSE
  BY <1>1
<1>6. ~Holding(d)  BY <1>2 DEF Held
<1>7. co[d].pc = "parked"  BY <1>6 DEF Holding, CoInv
<1>8. \E r \in Range(res_items) : r.client = c
  BY <1>3, <1>7, CallNext DEF CallParts, Awaited
<1> QED  BY <1>5, <1>8

(* A new coroutine n is queued behind the others. *)
LEMMA SpawnedSched ==
    ASSUME SchedInv(ex, block_cids), OrderInv(ex, block_cids), ex.ready[2] \in Seq(TaskIds),
           NEW n \in TaskIds, n \notin Accepts, ex'.ready[2] = Append(ex.ready[2], n),
           block_cids' = block_cids, Accepts' = Accepts \cup {n}, Listeners' = Listeners,
           \A a \in Accepts : co'[a] = co[a] /\ ~Run(a) /\ ~Run(a)',
           immediate' = immediate, co'[n].pc = "start", ~Run(n)'
    PROVE  SchedInv(ex, block_cids)' /\ OrderInv(ex, block_cids)'
<1> DEFINE s == ex.ready[2]
           t == ex'.ready[2]
<1>1. /\ Len(s) \in Nat /\ DOMAIN s = 1 .. Len(s) /\ DOMAIN t = 1 .. Len(s) + 1
      /\ \A k \in 1 .. Len(s) : t[k] = s[k]
      /\ t[Len(s) + 1] = n
  BY AppendFacts
<1>2. Queued(ex, 2)' = Queued(ex, 2) \cup {n}
  <2>0. n \in TaskIds /\ ex.ready[2] \in Seq(TaskIds) /\ ex'.ready[2] = Append(ex.ready[2], n)
    OBVIOUS
  <2>1. Queued(ex', 2) = Queued(ex, 2) \cup {n}  BY ONLY <2>0, QueuedAppend
  <2>2. Queued(ex, 2)' = Queued(ex', 2)  BY DEF Queued
  <2> QED  BY <2>1, <2>2
<1>3. Range(block_cids) \subseteq Accepts  BY DEF OrderInv, Range
<1>4. \A a \in Listeners : a \in Accepts  BY DEF Listeners
<1>5. SchedInv(ex, block_cids)'
  <2> SUFFICES ASSUME NEW a \in Accepts \cup {n}
               PROVE  /\ a \in Queued(ex, 2) \cup {n} => ~Run(a)'
                      /\ a \in Range(block_cids) <=>
                            a \in Listeners /\ a \notin Queued(ex, 2) \cup {n} /\ ~Run(a)'
                      /\ co'[a].pc = "parked" /\ (a \in Queued(ex, 2) \cup {n} \/ Run(a)') =>
                            immediate[a] # NoItem
    BY <1>2 DEF SchedInv
  <2>1. CASE a = n  BY <1>3, <1>4, <2>1
  <2>2. CASE a # n  BY <2>2 DEF SchedInv
  <2> QED  BY <2>1, <2>2
<1>6. \A i, j \in DOMAIN t : i < j /\ t[i] \in Listeners /\ t[j] \in Listeners =>
                                co'[t[i]].handler < co'[t[j]].handler
  <2> SUFFICES ASSUME NEW i \in DOMAIN t, NEW j \in DOMAIN t, i < j,
                      t[i] \in Listeners, t[j] \in Listeners
               PROVE  co'[t[i]].handler < co'[t[j]].handler
    OBVIOUS
  <2> HIDE DEF t
  <2>1. j # Len(s) + 1  BY <1>1, <1>4
  <2>2. i \in DOMAIN s /\ j \in DOMAIN s /\ t[i] = s[i] /\ t[j] = s[j]  BY <1>1, <2>1
  <2>3. co'[t[i]] = co[t[i]] /\ co'[t[j]] = co[t[j]]  BY <1>4
  <2> QED  BY <2>2, <2>3 DEF OrderInv, Before
<1>7. OrderInv(ex, block_cids)'
  <2>1. \A a \in Listeners : ~Run(a)'  BY <1>4
  <2>2. \A i, j \in DOMAIN block_cids : i < j =>
           co'[block_cids[i]].handler < co'[block_cids[j]].handler
    BY DEF OrderInv, Before
  <2>3. \A a \in Listeners, e \in Range(block_cids) :
           a \notin Range(block_cids) => co'[a].handler < co'[e].handler
    BY <1>3, <1>4 DEF OrderInv, Before
  <2>4. \A k \in DOMAIN block_cids : block_cids[k] \in Accepts \cup {n}  BY DEF OrderInv
  <2> HIDE DEF t
  <2>5. ex'.ready[2] = t  BY DEF t
  <2> QED  BY <1>6, <2>1, <2>2, <2>3, <2>4, <2>5 DEF OrderInv, Before
<1> QED  BY <1>5, <1>7

LEMMA ReqListenStep ==
    ASSUME NetInv, ReqListen, faults' = faults
    PROVE  NetInv'
<1> DEFINE e == Spawn(ex, 2)
<1>0. PICK n : n = find_first_one(FreeCids(ex))  OBVIOUS
<1>4. PICK i : i = Head(req_items)  OBVIOUS
<1>n. PICK k : k = [NewCo EXCEPT !.pc = "start", !.caller = i.client]  OBVIOUS
<1>k. k.pc = "start" /\ k.caller = i.client /\ k.handler = NoFd /\ k.item = NoItem
  BY <1>n DEF NewCo
<1>1. /\ TakeReq("Listen") /\ ReqDone(e)
      /\ co' = IF ex'.panic THEN co ELSE [co EXCEPT ![n] = k]
      /\ UNCHANGED <<immediate, res_items, recv_reply_status, reply, cl, sock, syn_queue,
                     block_cids, socket2cid, frames, rx_cmplt, masked, late, peer>>
  BY <1>0, <1>4, <1>n DEF ReqListen, device, stack, NoReply
<1>2. ~ex.panic  BY <1>1 DEF TakeReq, Go
<1>3. /\ TypeInv /\ GivenIn(sock) /\ RunInv /\ Shape(ex) /\ CoInv /\ SchedInv(ex, block_cids)
      /\ OrderInv(ex, block_cids) /\ QueueInv
      /\ CallInv /\ TokenInv(sock) /\ WakesInv(ex)
      /\ StackInv(sock, peer, 0) /\ GoodInv(sock, peer, block_cids, 0) /\ StrandInv
      /\ Poller \in TaskIds /\ Receiver \in TaskIds /\ Poller # Receiver
  BY <1>2, Running
<1>5. /\ running /\ ex.current = Receiver /\ co[Receiver].pc = "none"
      /\ recv_req_status' = recv_req_status
      /\ req_items' \in Seq(Requests \cup {NetPollReq})
  BY <1>1, <1>3, TakeReqFacts
<1>6. /\ i \in Requests /\ i.client \in Clients
      /\ Count(req_items', ItemsOf(i.client)) = 0
      /\ Count(res_items, ItemsOf(i.client)) = 0 /\ ~Held(i.client) /\ cl[i.client].st = "waiting"
      /\ "Listen" = Request(cl[i.client].op)
      /\ \A a \in Clients \ {i.client} :
            Count(req_items', ItemsOf(a)) = Count(req_items, ItemsOf(a))
      /\ Count(req_items', {NetPollReq}) = Count(req_items, {NetPollReq})
      /\ \A j \in Range(req_items)' \ {NetPollReq} :
            j \in Range(req_items) /\ j.client \in Clients /\ j.client # i.client
      /\ NetPollReq \in Range(req_items) => NetPollReq \in Range(req_items)'
  BY <1>1, <1>3, <1>4, ReqCall
<1>7. \A d \in Accepts : co[d].caller # i.client  BY <1>1, <1>3, <1>4, ListenFresh
<1>8. ExecutorType(ex) /\ ex.delay \subseteq {Receiver} /\ cnt \in 0 .. SwitchCnt - 1
  BY <1>3 DEF TypeInv
<1>9. ExecutorType(e) /\ e.current = ex.current /\ e.delay = ex.delay  BY <1>8, SpawnType, NetSized
<1>10. Sizes => ~e.panic  BY <1>3, <1>6, <1>7, SpawnRoom
<1>11. ~e.panic => /\ Shape(e)
                   /\ n \in TaskIds /\ n \notin Live(ex) /\ n \notin {Poller, Receiver}
                   /\ Live(e) = Live(ex) \cup {n}
                   /\ e.ready = [ex.ready EXCEPT ![2] = Append(@, n)]
                   /\ e.tasks = [ex.tasks EXCEPT ![n] = 2]
  BY <1>0, <1>3, ShapeSpawn
<1> HIDE DEF e
<1>12. /\ ExecutorType(ex') /\ ex'.delay \subseteq {Receiver}
       /\ cnt' \in 0 .. SwitchCnt - 1 /\ running' \in BOOLEAN /\ (e.panic => ex'.panic)
  BY <1>1, <1>5, <1>8, <1>9, ReqDoneType
<1>13. k \in Contexts /\ k.handler = 0
  <2>1. NewCo \in Contexts  BY NetSized DEF NewCo, Contexts
  <2> QED  BY <1>6, <1>k, <1>n, <2>1, NetSized DEF Contexts
<1>14. /\ co' \in [TaskIds -> Contexts]
       /\ \A d \in TaskIds : co'[d] = co[d] \/ (co'[d] = k /\ d = n /\ n \notin Accepts)
       /\ ~ex'.panic => n \in TaskIds /\ n \notin Accepts /\ co'[n] = k
                        /\ n \notin {Poller, Receiver}
  <2>1. co \in [TaskIds -> Contexts]  BY <1>3 DEF TypeInv
  <2>2. CASE ex'.panic  BY <1>1, <2>1, <2>2
  <2>3. CASE ~ex'.panic
    <3>1. n \in TaskIds /\ n \notin Live(ex) /\ n \notin {Poller, Receiver}
      BY <1>11, <1>12, <2>3
    <3>2. n \notin Accepts  BY <1>3, <3>1 DEF CoInv
    <3> QED  BY <1>1, <1>13, <2>1, <2>3, <3>1, <3>2
  <2> QED  BY <2>2, <2>3
<1>15. \A d \in TaskIds : co'[d].handler \in 0 .. Len(sock)
  <2>1. Len(sock) \in Nat  BY <1>3, LenProperties DEF TypeInv, SocketsOK
  <2>2. 0 \in 0 .. Len(sock)  BY <2>1
  <2>3. \A d \in TaskIds : co[d].handler \in 0 .. Len(sock)  BY <1>3 DEF TypeInv
  <2> QED  BY <1>13, <1>14, <2>2, <2>3
<1>18. TypeInv'  BY <1>1, <1>3, <1>5, <1>12, <1>14, <1>15 DEF TypeInv
<1>s. \A d \in TaskIds \ {Poller, Receiver} : co[d].pc \in {"parked", "retry"} => co'[d] = co[d]
  BY <1>14 DEF Accepts
<1>19. GivenIn(sock)'
  BY <1>1, <1>3, <1>s, GivenKept
<1>r. ex.ready \in [Prios -> Seq(TaskIds)] /\ ex.ready[2] \in Seq(TaskIds)
  BY <1>3, ShapeQueues, NetSized
<1>20. ASSUME ~e.panic
       PROVE  /\ ~ex'.panic =>
                    /\ Shape(ex') /\ Frame(e, ex')
                    /\ \A q \in Prios \ {1} : ex'.ready[q] = e.ready[q]
                    /\ \A a : a # Receiver => ~Run(a) /\ ~Run(a)'
                    /\ Len(ex'.ready[1]) + One(Receiver \in ex'.delay) + One(Run(Receiver)')
                          \in 1 .. 1 + One(recv_req_status)
              /\ Sizes => ~ex'.panic
  <2>0. Shape(e) /\ e.ready = [ex.ready EXCEPT ![2] = Append(@, n)]  BY <1>11, <1>20
  <2>1. Shape(e) /\ e.ready[1] = ex.ready[1]  BY <1>r, <2>0, NetSized
  <2> QED  BY <1>1, <1>3, <1>5, <1>9, <2>1, ReqDoneRun
<1>21. Sizes => ~ex'.panic  BY <1>10, <1>20
<1>22. ASSUME ~ex'.panic
       PROVE  /\ Shape(ex') /\ CoInv' /\ SchedInv(ex, block_cids)'
              /\ OrderInv(ex, block_cids)' /\ QueueInv'
              /\ CallInv' /\ TokenInv(sock)' /\ WakesInv(ex)'
              /\ StackInv(sock, peer, 0)' /\ GoodInv(sock, peer, block_cids, 0)'
              /\ StrandInv'
  <2>0. ~e.panic  BY <1>12, <1>22
  <2>1. /\ Shape(ex') /\ Frame(e, ex')
        /\ \A q \in Prios \ {1} : ex'.ready[q] = e.ready[q]
        /\ \A a : a # Receiver => ~Run(a) /\ ~Run(a)'
        /\ Len(ex'.ready[1]) + One(Receiver \in ex'.delay) + One(Run(Receiver)')
              \in 1 .. 1 + One(recv_req_status)
    BY <1>20, <1>22, <2>0
  <2>2. ex'.ready[2] = Append(ex.ready[2], n) /\ ex'.ready[0] = ex.ready[0]
    <3>1. e.ready = [ex.ready EXCEPT ![2] = Append(@, n)]  BY <1>11, <2>0
    <3>2. e.ready[2] = Append(ex.ready[2], n) /\ e.ready[0] = ex.ready[0]
      BY <1>r, <3>1, NetSized
    <3> QED  BY <2>1, <3>2, NetSized
  <2>3. ex'.tasks = e.tasks /\ ex'.current = Receiver  BY <1>5, <1>9, <2>1 DEF Frame
  <2>4. /\ n \in TaskIds /\ n \notin Accepts /\ co'[n] = k /\ n \notin {Poller, Receiver}
        /\ \A d \in TaskIds \ {n} : co'[d] = co[d]
    BY <1>14, <1>22
  <2>5. Accepts' = Accepts \cup {n}
    <3>1. k.pc = "start"  BY <1>k
    <3>2. \A d \in TaskIds \ {Poller, Receiver} :
             co'[d].pc # "none" <=> co[d].pc # "none" \/ d = n
      BY <2>4, <3>1
    <3> QED  BY <2>4, <3>2 DEF Accepts, Poller, Receiver
  <2>6. Listeners' = Listeners
    <3>1. k.pc = "start"  BY <1>k
    <3>2. \A d \in Accepts : d # n /\ d \in TaskIds  BY <2>4 DEF Accepts
    <3> QED  BY <2>4, <2>5, <3>1, <3>2 DEF Listeners
  <2>7. \A a \in Accepts : co'[a] = co[a] /\ ~Run(a) /\ ~Run(a)'
    <3>1. \A a \in Accepts : a \in TaskIds \ {n} /\ a # Receiver  BY <2>4 DEF Accepts
    <3> QED  BY <2>1, <2>4, <3>1
  <2>8. SchedInv(ex, block_cids)' /\ OrderInv(ex, block_cids)'
    <3>1. co'[n].pc = "start" /\ ~Run(n)'  BY <1>k, <2>1, <2>4
    <3> QED  BY <1>1, <1>3, <1>r, <2>2, <2>4, <2>5, <2>6, <2>7, <3>1, SpawnedSched
  <2>9. CoInv'
    <3>1. Live(ex)' = Live(ex) \cup {n}
      <4>1. Live(e) = Live(ex) \cup {n}  BY <1>11, <2>0
      <4> QED  BY <2>3, <4>1 DEF Live
    <3>2. co[Poller].pc # "ack" /\ co[Receiver].pc = "none"  BY <1>3, <1>5, <2>1 DEF CoInv
    <3>3. Receiver \in Live(ex)  BY <1>3 DEF Shape
    <3>4. co'[Poller] = co[Poller] /\ co'[Receiver] = co[Receiver]  BY <1>3, <2>4
    <3>5. \A a \in TaskIds \ (Accepts \cup {n}) : co'[a] = co[a] /\ immediate'[a] = immediate[a]
      BY <1>1, <2>4
    <3>6. \A a \in Accepts \cup {n} : co'[a].pc \in {"start", "listening", "parked", "retry"}
                                      /\ co'[a].caller \in Clients
      <4>1. k.pc = "start" /\ k.caller \in Clients  BY <1>6, <1>k
      <4> QED  BY <1>3, <2>4, <2>7, <4>1 DEF CoInv
    <3> QED  BY <1>3, <2>3, <2>5, <3>1, <3>2, <3>3, <3>4, <3>5, <3>6 DEF CoInv
  <2>10. QueueInv'
    <3>1. \A d \in Listeners : co'[d] = co[d]  BY <2>7 DEF Listeners
    <3>2. {co[d].handler : d \in Listeners}' = {co[d].handler : d \in Listeners}  BY <2>6, <3>1
    <3>3. k.pc = "start" /\ k.handler = NoFd  BY <1>k
    <3>4. \A d \in Accepts \cup {n} : co'[d].handler = NoFd <=> co'[d].pc = "start"
      BY <1>3, <2>4, <2>7, <3>3 DEF QueueInv
    <3>5. \A d, a \in Accepts \cup {n} :
             co'[d].handler = co'[a].handler /\ co'[d].handler # NoFd => d = a
      BY <1>3, <2>4, <2>7, <3>3 DEF QueueInv
    <3> QED  BY <1>1, <1>3, <2>5, <3>2, <3>4, <3>5 DEF QueueInv
  <2>op. cl[i.client].op = "Listen"  BY <1>6 DEF Request
  <2>11. CallInv'
    <3>1. CallParts(Accepts, co, immediate, cl, Range(req_items), Range(res_items))
      BY <1>3, CallNext
    <3>2. Awaited(Accepts \cup {n}, co', immediate, cl, Range(res_items))
      <4> SUFFICES ASSUME NEW a \in Accepts \cup {n}
                   PROVE  LET c == co'[a].caller
                              m == Message("Recv", c, co'[a].handler)
                          IN  /\ co'[a].pc \in {"start", "listening"} => cl[c].op = "Listen"
                              /\ immediate[a] # NoItem =>
                                    co'[a].pc = "parked" /\ immediate[a] = m /\ cl[c].op = "Recv"
                              /\ co'[a].pc = "retry" => co'[a].item = m /\ cl[c].op = "Recv"
                              /\ co'[a].pc # "retry" => co'[a].item = NoItem
                              /\ cl[c].op = "Listen" /\ co'[a].pc \in {"parked", "retry"} =>
                                    \E r \in Range(res_items) : r.client = c
        BY DEF Awaited
      <4>1. CASE a = n
        <5>1. immediate[n] = NoItem  BY <1>3, <2>4 DEF CoInv
        <5> QED  BY <1>k, <2>4, <2>op, <4>1, <5>1
      <4>2. CASE a \in Accepts
        <5>1. co'[a] = co[a]  BY <2>7, <4>2
        <5> QED  BY <3>1, <4>2, <5>1 DEF CallParts, Awaited
      <4> QED  BY <4>1, <4>2
    <3>3. \A d, a \in Accepts \cup {n} : co'[d].caller = co'[a].caller => d = a
      <4>1. k.caller = i.client  BY <1>k
      <4>2. \A d, a \in Accepts : co[d].caller = co[a].caller => d = a  BY <3>1 DEF CallParts
      <4> QED  BY <1>7, <2>4, <2>7, <4>1, <4>2
    <3>4. Range(res_items)' = Range(res_items)  BY <1>1
    <3>5. \A j \in Range(req_items)' \ {NetPollReq} :
             j.type = Request(cl[j.client].op) /\ j.fd = cl[j.client].fd
      BY <1>6, <3>1 DEF CallParts
    <3> QED  BY <1>1, <2>5, <3>1, <3>2, <3>3, <3>4, <3>5, CallNext DEF CallParts
  <2>12. TokenInv(sock)'
    <3>1. Held(i.client)'
      <4>1. Holding(n)' /\ co'[n].caller = i.client  BY <1>k, <2>4 DEF Holding
      <4> QED  BY <2>5, <4>1 DEF Held
    <3>2. \A a \in Clients \ {i.client} : Held(a)' <=> Held(a)
      <4>1. \A b \in Accepts : Holding(b)' <=> Holding(b)  BY <1>1, <2>7 DEF Holding
      <4>2. co'[n].caller = i.client  BY <1>k, <2>4
      <4> QED  BY <2>5, <2>7, <4>1, <4>2 DEF Held
    <3>3. \A a \in Clients : Places(a)' = Count(req_items', ItemsOf(a))
                                + Count(res_items, ItemsOf(a)) + One(Held(a)')
      BY <1>1 DEF Places, Count, One
    <3>4. One(Held(i.client)') = 1 /\ \A a \in Clients \ {i.client} : One(Held(a)') = One(Held(a))
      BY <3>1, <3>2 DEF One
    <3>5. Places(i.client)' = 1  BY <1>6, <3>3, <3>4
    <3>6. \A a \in Clients \ {i.client} : Places(a)' = Places(a)
      BY <1>6, <3>3, <3>4 DEF Places
    <3> QED  BY <1>1, <1>3, <1>6, <3>5, <3>6 DEF TokenInv
  <2>13. WakesInv(ex)'  BY <1>1, <1>3, <1>5, <1>6, <2>1, <2>2, ReqWakes
  <2>14. StackInv(sock, peer, 0)' /\ GoodInv(sock, peer, block_cids, 0)'
    <3>1. StackInv(sock, peer, 0)'  BY <1>1, <1>3, StackKept
    <3>2. \A d \in Listeners : co'[d] = co[d]  BY <2>7 DEF Listeners
    <3>3. GoodInv(sock, peer, block_cids, 0)'  BY <1>1, <1>3, <2>6, <3>2, GoodKept
    <3> QED  BY <3>1, <3>3
  <2>15. StrandInv'
    <3>1. Queued(ex, 0)' = Queued(ex, 0) /\ ~Run(Poller)  BY <1>3, <2>1, <2>2 DEF Queued
    <3>2. co'[Poller] = co[Poller]  BY <1>3, <2>4
    <3> QED  BY <1>1, <1>3, <1>6, <3>1, <3>2 DEF StrandInv, NetPollReq
  <2> QED  BY <2>1, <2>8, <2>9, <2>10, <2>11, <2>12, <2>13, <2>14, <2>15
<1> QED  BY <1>18, <1>19, <1>21, <1>22, NetParts2

-----------------------------------------------------------------------------
(* tcp_accept_coroutine and tcp_recv_coroutine. *)

(* A coroutine of a Listen runs, and no other one. *)
LEMMA AcceptRuns ==
    ASSUME NetInv, NEW c \in TaskIds, Go(c), c \notin {Poller, Receiver}
    PROVE  /\ c \in Accepts /\ c \notin Queued(ex, 2) /\ c \notin Range(block_cids)
           /\ running /\ ex.current = c /\ ~ex.panic /\ (\A d : Run(d) <=> d = c)
           /\ co[Poller].pc # "ack"
           /\ co[c].caller \in Clients
<1>1. running /\ ex.current = c /\ ~ex.panic  BY DEF Go
<1>2. CoInv /\ SchedInv(ex, block_cids) /\ Poller \in TaskIds  BY <1>1, Running
<1>3. c \in Accepts  BY <1>1, <1>2 DEF CoInv
<1>4. \A d : Run(d) <=> d = c  BY <1>1 DEF Run
<1>5. c \notin Queued(ex, 2) /\ c \notin Range(block_cids)
  BY <1>2, <1>3, <1>4 DEF SchedInv
<1>6. co[Poller].pc # "ack"  BY <1>2, <1>4 DEF CoInv
<1> QED  BY <1>1, <1>2, <1>3, <1>4, <1>5, <1>6 DEF CoInv

(* It yields. *)
LEMMA YieldKept ==
    ASSUME TypeInv, CoInv, WakesInv(ex), StrandInv, NEW c \in Accepts, \A d : Run(d) <=> d = c,
           co[Poller].pc # "ack", running' = FALSE,
           UNCHANGED <<req_items, recv_req_status, frames, rx_cmplt, masked, late, faults>>,
           ex'.ready[0] = ex.ready[0], ex'.ready[1] = ex.ready[1], ex'.delay = ex.delay,
           ex'.tasks = ex.tasks,
           \A d \in TaskIds \ {c} : co'[d] = co[d] /\ immediate'[d] = immediate[d],
           co'[c].pc \in {"start", "listening", "parked", "retry"}, co'[c].caller = co[c].caller,
           Poller \in TaskIds, Receiver \in TaskIds
    PROVE  /\ Accepts' = Accepts /\ CoInv' /\ WakesInv(ex)' /\ StrandInv'
           /\ \A d : ~Run(d)'
           /\ Listeners \ {c} = Listeners' \ {c}
<1>1. c \in TaskIds \ {Poller, Receiver} /\ co[c].pc # "none"  BY DEF Accepts
<1>2. \A d : ~Run(d)'  BY DEF Run
<1>3. Accepts' = Accepts  BY <1>1 DEF Accepts, Poller, Receiver
<1>4. Listeners \ {c} = Listeners' \ {c}  BY <1>3 DEF Listeners, Accepts
<1>5. Live(ex)' = Live(ex)  BY DEF Live
<1>6. co'[Poller] = co[Poller] /\ co'[Receiver] = co[Receiver]  BY <1>1
<1>7. CoInv'
  <2>1. \A d \in Accepts : co'[d].pc \in {"start", "listening", "parked", "retry"}
                           /\ co'[d].caller \in Clients
    BY DEF CoInv, Accepts
  <2>2. \A d \in TaskIds \ Accepts : co'[d] = co[d] /\ immediate'[d] = immediate[d]  OBVIOUS
  <2> QED  BY <1>3, <1>5, <1>6, <2>1, <2>2 DEF CoInv
<1>8. WakesInv(ex)'
  <2>1. Poller # c /\ Receiver # c  BY <1>1
  <2>2. One(Run(Poller)) = 0 /\ One(Run(Receiver)) = 0  BY <2>1 DEF One
  <2>3. One(Run(Poller)') = 0 /\ One(Run(Receiver)') = 0  BY <1>2 DEF One
  <2>4. /\ Count(req_items, {NetPollReq}) + Len(ex.ready[0]) + 0 <= 1 + One(masked)
        /\ Len(ex.ready[1]) + One(Receiver \in ex.delay) + 0 <= 1 + One(recv_req_status)
        /\ One(recv_req_status) <= Len(ex.ready[1]) + One(Receiver \in ex.delay) + 0
    BY <2>2 DEF WakesInv
  <2>5. /\ Count(req_items, {NetPollReq}) + Len(ex'.ready[0]) + One(Run(Poller)')
              <= 1 + One(masked)
        /\ Len(ex'.ready[1]) + One(Receiver \in ex'.delay) + One(Run(Receiver)')
              <= 1 + One(recv_req_status)
        /\ One(recv_req_status)
              <= Len(ex'.ready[1]) + One(Receiver \in ex'.delay) + One(Run(Receiver)')
    BY <2>3, <2>4
  <2>6. Count(req_items, {NetPollReq})' = Count(req_items, {NetPollReq})
    BY DEF Count, NetPollReq
  <2> QED  BY <2>5, <2>6 DEF WakesInv, One, Run
<1>9. StrandInv'
  <2>1. Queued(ex, 0)' = Queued(ex, 0) /\ ~Run(Poller)  BY <1>1 DEF Queued
  <2> QED  BY <1>6, <2>1 DEF StrandInv, NetPollReq
<1> QED  BY <1>2, <1>3, <1>4, <1>7, <1>8, <1>9

(* A new listening socket. *)
LEMMA AcceptStartStep ==
    ASSUME NetInv, NEW c \in TaskIds, AcceptStart(c), faults' = faults
    PROVE  NetInv'
<1>h. PICK h : h = Len(sock) + 1  OBVIOUS
<1>n. PICK n : n = [st |-> "listen", peer |-> {}, rx |-> <<>>]  OBVIOUS
<1>1. /\ Go(c) /\ c \notin {Poller, Receiver} /\ co[c].pc = "start" /\ running' = FALSE
      /\ sock' = Append(sock, n) /\ syn_queue' = Append(syn_queue, h)
      /\ block_cids' = Append(block_cids, c)
      /\ co' = [co EXCEPT ![c].pc = "listening", ![c].handler = h]
      /\ UNCHANGED <<ex, immediate, cnt, req_items, recv_req_status, res_items, recv_reply_status,
                     socket2cid, frames, rx_cmplt, masked, late, peer, cl, reply>>
  BY <1>h, <1>n DEF AcceptStart, GoCo, ring, device, client
<1>2. /\ c \in Accepts /\ c \notin Queued(ex, 2) /\ c \notin Range(block_cids)
      /\ running /\ ex.current = c /\ ~ex.panic /\ (\A d : Run(d) <=> d = c)
      /\ co[Poller].pc # "ack" /\ co[c].caller \in Clients
  BY <1>1, AcceptRuns
<1>3. /\ TypeInv /\ GivenIn(sock) /\ RunInv /\ Shape(ex) /\ CoInv /\ SchedInv(ex, block_cids)
      /\ OrderInv(ex, block_cids) /\ QueueInv
      /\ CallInv /\ TokenInv(sock) /\ WakesInv(ex)
      /\ StackInv(sock, peer, 0) /\ GoodInv(sock, peer, block_cids, 0) /\ StrandInv
      /\ Poller \in TaskIds /\ Receiver \in TaskIds /\ Poller # Receiver
  BY <1>2, Running
<1>4. /\ sock \in Seq(Sockets) /\ syn_queue \in Seq(Nat) /\ block_cids \in Seq(TaskIds)
      /\ co \in [TaskIds -> Contexts] /\ (\A d \in TaskIds : co[d].handler \in 0 .. Len(sock))
      /\ (\A k \in DOMAIN syn_queue : syn_queue[k] \in 1 .. Len(sock))
      /\ DOMAIN socket2cid \subseteq 1 .. Len(sock)
  BY <1>3 DEF TypeInv, SocketsOK
<1>5. n \in Sockets /\ n.st = "listen" /\ n.peer = {}
  <2>1. <<>> \in Seq(Bytes)  OBVIOUS
  <2> QED  BY <1>n, <2>1 DEF Sockets, States
<1>6. /\ Len(sock) \in Nat /\ DOMAIN sock = 1 .. Len(sock) /\ DOMAIN sock' = 1 .. Len(sock) + 1
      /\ Len(sock') = Len(sock) + 1 /\ sock' \in Seq(Sockets)
      /\ (\A k \in 1 .. Len(sock) : sock'[k] = sock[k])
      /\ sock'[Len(sock) + 1] = n
  BY <1>1, <1>4, <1>5, AppendFacts
<1>7. h \in Nat /\ h # NoFd /\ h \in 1 .. Len(sock) + 1 /\ h > Len(sock)  BY <1>6, <1>h, NetSized
<1>8. /\ Len(syn_queue) \in Nat /\ DOMAIN syn_queue = 1 .. Len(syn_queue)
      /\ DOMAIN syn_queue' = 1 .. Len(syn_queue) + 1 /\ syn_queue' \in Seq(Nat)
      /\ (\A k \in 1 .. Len(syn_queue) : syn_queue'[k] = syn_queue[k])
      /\ syn_queue'[Len(syn_queue) + 1] = h
  BY <1>1, <1>4, <1>7, AppendFacts
<1>9. /\ Len(block_cids) \in Nat /\ DOMAIN block_cids = 1 .. Len(block_cids)
      /\ DOMAIN block_cids' = 1 .. Len(block_cids) + 1 /\ block_cids' \in Seq(TaskIds)
      /\ (\A k \in 1 .. Len(block_cids) : block_cids'[k] = block_cids[k])
      /\ block_cids'[Len(block_cids) + 1] = c
  BY <1>1, <1>4, AppendFacts
<1>10. /\ co' \in [TaskIds -> Contexts]
       /\ co'[c].pc = "listening" /\ co'[c].handler = h /\ co'[c].caller = co[c].caller
       /\ co'[c].item = co[c].item
       /\ \A d \in TaskIds \ {c} : co'[d] = co[d]
  BY <1>1, <1>4, <1>7 DEF Contexts
<1>11. /\ Range(syn_queue)' = Range(syn_queue) \cup {h}
       /\ Range(block_cids)' = Range(block_cids) \cup {c}
  <2>1. Range(Append(syn_queue, h)) = Range(syn_queue) \cup {h}  BY <1>4, <1>7, RangeAppend
  <2>2. Range(Append(block_cids, c)) = Range(block_cids) \cup {c}  BY <1>4, RangeAppend
  <2> QED  BY <1>1, <2>1, <2>2 DEF Range
<1>12. TypeInv'
  <2>1. SocketsOK(sock')
    <3> SUFFICES ASSUME NEW g \in DOMAIN sock'
                 PROVE  \/ sock'[g].st = "listen" /\ sock'[g].peer = {}
                        \/ sock'[g].st # "listen" /\ \E p \in Peers : sock'[g].peer = {p}
      BY <1>6 DEF SocketsOK
    <3>1. CASE g = Len(sock) + 1  BY <1>5, <1>6, <3>1
    <3>2. CASE g # Len(sock) + 1
      <4>1. g \in DOMAIN sock /\ sock'[g] = sock[g]  BY <1>6, <3>2
      <4> QED  BY <1>3, <4>1 DEF TypeInv, SocketsOK
    <3> QED  BY <3>1, <3>2
  <2>2. \A d \in TaskIds : co'[d].handler \in 0 .. Len(sock')
    <3>1. h \in 0 .. Len(sock) + 1 /\ 0 .. Len(sock) \subseteq 0 .. Len(sock) + 1  BY <1>6, <1>7
    <3> QED  BY <1>4, <1>6, <1>10, <3>1
  <2>3. \A k \in DOMAIN syn_queue' : syn_queue'[k] \in 1 .. Len(sock')
    <3> SUFFICES ASSUME NEW k \in DOMAIN syn_queue'  PROVE syn_queue'[k] \in 1 .. Len(sock) + 1
      BY <1>6
    <3>1. CASE k = Len(syn_queue) + 1  BY <1>7, <1>8, <3>1
    <3>2. CASE k # Len(syn_queue) + 1
      <4>1. k \in DOMAIN syn_queue /\ syn_queue'[k] = syn_queue[k]  BY <1>8, <3>2
      <4>2. syn_queue'[k] \in 1 .. Len(sock)  BY <1>4, <4>1
      <4> QED  BY <1>6, <4>2
    <3> QED  BY <3>1, <3>2
  <2>4. DOMAIN socket2cid \subseteq 1 .. Len(sock')
    <3>1. 1 .. Len(sock) \subseteq 1 .. Len(sock) + 1  BY <1>6
    <3> QED  BY <1>4, <1>6, <3>1
  <2> QED  BY <1>1, <1>3, <1>8, <1>9, <1>10, <2>1, <2>2, <2>3, <2>4 DEF TypeInv
<1>13. GivenIn(sock)'
  <2>1. \A d \in TaskIds \ {Poller, Receiver} :
              co[d].pc \in {"parked", "retry"} => co'[d] = co[d]
    BY <1>1, <1>10
  <2>2. \A g \in DOMAIN sock : sock'[g] = sock[g]  BY <1>6
  <2>3. \A r \in Range(res_items)' : r \in Range(res_items)  BY <1>1
  <2> QED  BY <1>1, <1>3, <2>1, <2>2, <2>3, GivenKept
<1>14. /\ Accepts' = Accepts /\ CoInv' /\ WakesInv(ex)' /\ StrandInv'
       /\ \A d : ~Run(d)'
       /\ Listeners \ {c} = Listeners' \ {c}
  BY <1>1, <1>2, <1>3, <1>10, YieldKept
<1>15. Listeners' = Listeners \cup {c} /\ c \notin Listeners
  <2>1. c \notin Listeners  BY <1>1 DEF Listeners
  <2>2. c \in Listeners'  BY <1>2, <1>10, <1>14 DEF Listeners
  <2> QED  BY <1>14, <2>1, <2>2
<1>16. \A d \in Accepts \ {c} : co'[d] = co[d] /\ co[d].handler <= Len(sock) /\ co[d].handler \in Nat
  <2>1. \A d \in Accepts : d \in TaskIds  BY DEF Accepts
  <2> QED  BY <1>4, <1>6, <1>10, <2>1
<1>17. SchedInv(ex, block_cids)'
  <2> SUFFICES ASSUME NEW d \in Accepts
               PROVE  /\ d \in Range(block_cids) \cup {c} <=>
                            d \in Listeners \cup {c} /\ d \notin Queued(ex, 2)
                      /\ co'[d].pc = "parked" /\ d \in Queued(ex, 2) => immediate[d] # NoItem
    BY <1>1, <1>11, <1>14, <1>15 DEF SchedInv
  <2>1. CASE d = c  BY <1>2, <2>1
  <2>2. CASE d # c  BY <1>2, <1>3, <1>16, <2>2 DEF SchedInv
  <2> QED  BY <2>1, <2>2
<1>18. OrderInv(ex, block_cids)'
  <2>0. Range(block_cids) \subseteq Accepts \ {c} /\ \A d \in Listeners : d \in Accepts \ {c}
    BY <1>2, <1>3, <1>15 DEF OrderInv, Range, Listeners
  <2>1. \A d \in Accepts \ {c} : co'[d].handler < co'[c].handler
    BY <1>7, <1>10, <1>16, <1>6
  <2>2. \A k \in DOMAIN block_cids' : block_cids'[k] \in Accepts
    BY <1>2, <1>3, <1>9 DEF OrderInv
  <2>3. ASSUME NEW i \in DOMAIN block_cids', NEW j \in DOMAIN block_cids', i < j
        PROVE  co'[block_cids'[i]].handler < co'[block_cids'[j]].handler
    <3>1. i \in DOMAIN block_cids /\ block_cids'[i] = block_cids[i]  BY <1>9, <2>3
    <3>2. block_cids[i] \in Accepts \ {c}  BY <2>0, <3>1 DEF Range
    <3>3. CASE j = Len(block_cids) + 1  BY <1>9, <2>1, <3>1, <3>2, <3>3
    <3>4. CASE j # Len(block_cids) + 1
      <4>1. j \in DOMAIN block_cids /\ block_cids'[j] = block_cids[j]  BY <1>9, <3>4
      <4>2. block_cids[j] \in Accepts \ {c}  BY <2>0, <4>1 DEF Range
      <4>3. co[block_cids[i]].handler < co[block_cids[j]].handler
        BY <1>3, <2>3, <3>1, <4>1 DEF OrderInv, Before
      <4> QED  BY <1>16, <3>1, <3>2, <4>1, <4>2, <4>3
    <3> QED  BY <3>3, <3>4
  <2>4. ASSUME NEW d \in Listeners \cup {c}, NEW e \in Range(block_cids) \cup {c},
               d \notin Range(block_cids) \cup {c}
        PROVE  co'[d].handler < co'[e].handler
    <3>1. d \in Accepts \ {c} /\ d \in Listeners  BY <2>0, <2>4
    <3>2. CASE e = c  BY <2>1, <3>1, <3>2
    <3>3. CASE e # c
      <4>1. e \in Range(block_cids) /\ e \in Accepts \ {c}  BY <2>0, <2>4, <3>3
      <4>2. co[d].handler < co[e].handler  BY <1>3, <2>4, <3>1, <4>1 DEF OrderInv, Before
      <4> QED  BY <1>16, <3>1, <4>1, <4>2
    <3> QED  BY <3>2, <3>3
  <2>5. ASSUME NEW i \in DOMAIN ex.ready[2], NEW j \in DOMAIN ex.ready[2], i < j,
               ex.ready[2][i] \in Listeners \cup {c}, ex.ready[2][j] \in Listeners \cup {c}
        PROVE  co'[ex.ready[2][i]].handler < co'[ex.ready[2][j]].handler
    <3>1. ex.ready[2][i] # c /\ ex.ready[2][j] # c  BY <1>2 DEF Queued
    <3>2. ex.ready[2][i] \in Listeners /\ ex.ready[2][j] \in Listeners  BY <2>5, <3>1
    <3>3. co[ex.ready[2][i]].handler < co[ex.ready[2][j]].handler
      BY <1>3, <2>5, <3>2 DEF OrderInv, Before
    <3> QED  BY <1>16, <2>0, <3>2, <3>3
  <2> QED  BY <1>1, <1>11, <1>14, <1>15, <2>2, <2>3, <2>4, <2>5 DEF OrderInv, Before
<1>19. QueueInv'
  <2>1. ASSUME NEW i \in DOMAIN syn_queue', NEW j \in DOMAIN syn_queue', i < j
        PROVE  syn_queue'[i] < syn_queue'[j]
    <3>1. i \in DOMAIN syn_queue /\ syn_queue'[i] = syn_queue[i]  BY <1>8, <2>1
    <3>2. syn_queue[i] \in 1 .. Len(sock)  BY <1>4, <3>1
    <3>3. CASE j = Len(syn_queue) + 1
      <4>1. syn_queue'[j] = h  BY <1>8, <3>3
      <4> QED  BY <1>6, <1>7, <3>1, <3>2, <4>1
    <3>4. CASE j # Len(syn_queue) + 1
      <4>1. j \in DOMAIN syn_queue /\ syn_queue'[j] = syn_queue[j]  BY <1>8, <3>4
      <4> QED  BY <1>3, <2>1, <3>1, <4>1 DEF QueueInv
    <3> QED  BY <3>3, <3>4
  <2>2. \A d \in Listeners : co'[d] = co[d]  BY <1>15, <1>16 DEF Listeners
  <2>3. {co[d].handler : d \in Listeners}' = {co[d].handler : d \in Listeners} \cup {h}
    BY <1>10, <1>15, <2>2
  <2>4. Range(syn_queue)' = {co[d].handler : d \in Listeners}'
    BY <1>3, <1>11, <2>3 DEF QueueInv
  <2>5. \A d \in Accepts : co'[d].handler = NoFd <=> co'[d].pc = "start"
    BY <1>3, <1>7, <1>10, <1>16 DEF QueueInv
  <2>6. \A d, e \in Accepts : co'[d].handler = co'[e].handler /\ co'[d].handler # NoFd => d = e
    <3>1. \A d \in Accepts \ {c} : co'[d].handler # h  BY <1>6, <1>7, <1>16
    <3> QED  BY <1>3, <1>10, <1>16, <3>1 DEF QueueInv
  <2> QED  BY <1>14, <2>1, <2>4, <2>5, <2>6 DEF QueueInv
<1>20. CallInv'
  <2>1. CallParts(Accepts, co, immediate, cl, Range(req_items), Range(res_items))
    BY <1>3, CallNext
  <2>2. Awaited(Accepts, co', immediate, cl, Range(res_items))
    <3> SUFFICES ASSUME NEW a \in Accepts
                 PROVE  LET b == co'[a].caller
                            m == Message("Recv", b, co'[a].handler)
                        IN  /\ co'[a].pc \in {"start", "listening"} => cl[b].op = "Listen"
                            /\ immediate[a] # NoItem =>
                                  co'[a].pc = "parked" /\ immediate[a] = m /\ cl[b].op = "Recv"
                            /\ co'[a].pc = "retry" => co'[a].item = m /\ cl[b].op = "Recv"
                            /\ co'[a].pc # "retry" => co'[a].item = NoItem
                            /\ cl[b].op = "Listen" /\ co'[a].pc \in {"parked", "retry"} =>
                                  \E r \in Range(res_items) : r.client = b
      BY DEF Awaited
    <3>1. CASE a = c  BY <1>1, <1>10, <2>1, <3>1 DEF CallParts, Awaited
    <3>2. CASE a # c
      <4>1. co'[a] = co[a]  BY <1>16, <3>2
      <4> QED  BY <2>1, <4>1 DEF CallParts, Awaited
    <3> QED  BY <3>1, <3>2
  <2>3. \A d, a \in Accepts : co'[d].caller = co'[a].caller => d = a
    <3>1. \A d \in Accepts : co'[d].caller = co[d].caller  BY <1>10, <1>16
    <3> QED  BY <2>1, <3>1 DEF CallParts
  <2>4. Range(res_items)' = Range(res_items) /\ Range(req_items)' = Range(req_items)  BY <1>1
  <2> QED  BY <1>1, <1>14, <2>1, <2>2, <2>3, <2>4, CallNext DEF CallParts
<1>21. TokenInv(sock)'
  <2>1. \A a \in Clients : Held(a)' <=> Held(a)
    <3>1. \A d \in Accepts : (Holding(d)' <=> Holding(d)) /\ co'[d].caller = co[d].caller
      BY <1>1, <1>10, <1>16 DEF Holding
    <3> QED  BY <1>14, <3>1 DEF Held
  <2>2. \A a \in Clients : Places(a)' = Places(a)
    BY <1>1, <2>1 DEF Places, Count, One
  <2>3. \A a \in Clients : cl[a].fd # NoFd => cl[a].fd \in DOMAIN sock
    BY <1>3, <1>4, <1>6 DEF GivenIn, Owns
  <2> QED  BY <1>1, <1>3, <1>6, <2>2, <2>3, TokenKept
<1>22. StackInv(sock, peer, 0)'
  <2>0. DOMAIN sock' = DOMAIN sock \cup {h} /\ sock'[h] = n /\ \A g \in DOMAIN sock : sock'[g] = sock[g]
    BY <1>6, <1>h
  <2>q. Range(syn_queue) \subseteq DOMAIN sock  BY <1>4, <1>6 DEF Range
  <2>1. \A p \in Peers : peer[p].st \in Connected <=> \E g \in DOMAIN sock' : sock'[g].peer = {p}
    BY <1>3, <1>5, <2>0 DEF StackInv
  <2>2. \A f, g \in DOMAIN sock' : sock'[f].peer = sock'[g].peer /\ sock'[f].peer # {} => f = g
    BY <1>3, <1>5, <2>0 DEF StackInv
  <2>3. \A g \in DOMAIN sock' : sock'[g].st = "listen" => g \in Range(syn_queue)'
    BY <1>3, <1>11, <2>0 DEF StackInv
  <2>4. \A g \in DOMAIN sock', p \in Peers : sock'[g].st = "closed" /\ sock'[g].peer = {p} =>
          /\ peer[p].st = "reset"
          /\ \A k \in DOMAIN frames : k > 0 /\ frames[k].type = "ACK" => frames[k].peer # p
    BY <1>3, <1>5, <2>0 DEF StackInv
  <2>5. \A k \in DOMAIN frames : k > 0 /\ frames[k].type = "RST" =>
          /\ peer[frames[k].peer].st = "reset"
          /\ "early_reset" \notin faults =>
                \A g \in Range(syn_queue)' : sock'[g].peer # {frames[k].peer}
          /\ \A j \in DOMAIN frames :
                j > k /\ frames[j].type = "ACK" => frames[j].peer # frames[k].peer
    BY <1>3, <1>5, <1>11, <2>0, <2>q DEF StackInv
  <2> HIDE DEF Connected
  <2>6. peer' = peer /\ frames' = frames /\ faults' = faults  BY <1>1
  <2> QED  BY ONLY <2>1, <2>2, <2>3, <2>4, <2>5, <2>6 DEF StackInv, Connected
<1>23. GoodInv(sock, peer, block_cids, 0)'
  <2>0. DOMAIN sock' = DOMAIN sock \cup {h} /\ sock'[h] = n /\ \A g \in DOMAIN sock : sock'[g] = sock[g]
    BY <1>6, <1>h
  <2>q. Range(syn_queue) \subseteq DOMAIN sock  BY <1>4, <1>6 DEF Range
  <2>l. \A d \in Listeners : co'[d] = co[d] /\ co[d].handler \in DOMAIN sock
    BY <1>3, <1>15, <1>16, <2>q DEF Listeners, QueueInv
  <2>p. Prompt' <=> Prompt  BY DEF Prompt
  <2> SUFFICES ASSUME Prompt
               PROVE  /\ \A k \in DOMAIN frames : k > 0 /\ frames[k].type = "SYN" =>
                            /\ peer[frames[k].peer].st = "syn_sent"
                            /\ \A j \in DOMAIN frames : j > k /\ frames[j].type = "SYN" =>
                                  frames[j].peer # frames[k].peer
                      /\ \A g \in DOMAIN sock' : sock'[g].st # "syn_received"
                      /\ \A d \in Listeners \cup {c} : d \notin Range(block_cids) \cup {c} =>
                            sock'[co'[d].handler].st # "listen"
                      /\ \A g \in Range(syn_queue) \cup {h} : sock'[g].st # "closed"
    BY <1>1, <1>11, <1>15, <2>p DEF GoodInv
  <2>1. \A g \in DOMAIN sock' : sock'[g].st # "syn_received"  BY <1>3, <1>5, <2>0 DEF GoodInv
  <2>2. \A d \in Listeners \cup {c} : d \notin Range(block_cids) \cup {c} =>
                            sock'[co'[d].handler].st # "listen"
    BY <1>3, <2>0, <2>l DEF GoodInv
  <2>3. \A g \in Range(syn_queue) \cup {h} : sock'[g].st # "closed"
    BY <1>3, <1>5, <2>0, <2>q DEF GoodInv
  <2> QED  BY <1>3, <2>1, <2>2, <2>3 DEF GoodInv
<1> QED  BY <1>1, <1>2, <1>3, <1>12, <1>13, <1>14, <1>17, <1>18, <1>19, <1>20, <1>21, <1>22, <1>23,
            NetParts2

(* The listener that runs made the socket at the front of the queue. *)
LEMMA FrontOfQueue ==
    ASSUME TypeInv, OrderInv(ex, block_cids), QueueInv, NEW c \in Listeners, Run(c)
    PROVE  /\ syn_queue # <<>> /\ Head(syn_queue) = co[c].handler
           /\ co[c].handler \in 1 .. Len(sock) /\ co[c].handler # NoFd
           /\ Range(Tail(syn_queue)) = Range(syn_queue) \ {co[c].handler}
           /\ Tail(syn_queue) \in Seq(Nat)
           /\ \A k \in DOMAIN Tail(syn_queue) : Tail(syn_queue)[k] \in 1 .. Len(sock)
           /\ \A i, j \in DOMAIN Tail(syn_queue) : i < j => Tail(syn_queue)[i] < Tail(syn_queue)[j]
<1> DEFINE h == co[c].handler
           t == Tail(syn_queue)
<1>1. syn_queue \in Seq(Nat) /\ \A k \in DOMAIN syn_queue : syn_queue[k] \in 1 .. Len(sock)
  BY DEF TypeInv
<1>2. DOMAIN syn_queue = 1 .. Len(syn_queue) /\ Len(syn_queue) \in Nat  BY <1>1, RangeIn
<1>3. h \in Range(syn_queue)  BY DEF QueueInv
<1>4. PICK k \in DOMAIN syn_queue : syn_queue[k] = h  BY <1>3 DEF Range
<1>5. syn_queue # <<>>  BY <1>2, <1>4
<1>6. /\ Head(syn_queue) = syn_queue[1] /\ t \in Seq(Nat) /\ Len(syn_queue) \in Nat \ {0}
      /\ DOMAIN t = 1 .. Len(syn_queue) - 1
      /\ \A j \in 1 .. Len(syn_queue) - 1 : t[j] = syn_queue[j + 1]
  BY <1>1, <1>5, TailFacts
<1>7. \A j \in DOMAIN syn_queue : syn_queue[j] \in Nat  BY <1>1, <1>2
<1>8. k = 1
  <2> SUFFICES ASSUME k # 1  PROVE FALSE
    OBVIOUS
  <2>1. 1 \in DOMAIN syn_queue /\ 1 < k  BY <1>2, <1>6
  <2>2. syn_queue[1] < h  BY <1>4, <2>1 DEF QueueInv
  <2>3. syn_queue[1] \in Range(syn_queue)  BY <2>1 DEF Range
  <2>4. PICK d \in Listeners : co[d].handler = syn_queue[1]  BY <2>3 DEF QueueInv
  <2>5. h \in Nat /\ syn_queue[1] \in Nat  BY <1>4, <1>7, <2>1
  <2>6. d # c  BY <2>2, <2>4, <2>5
  <2>7. h < syn_queue[1]  BY <2>4, <2>6 DEF OrderInv, Before
  <2> QED  BY <2>2, <2>5, <2>7
<1>9. Head(syn_queue) = h /\ h \in 1 .. Len(sock) /\ h # NoFd
  <2>1. Head(syn_queue) = h /\ h \in 1 .. Len(sock)  BY <1>1, <1>4, <1>6, <1>8
  <2>2. Len(sock) \in Nat  BY LenProperties DEF TypeInv, SocketsOK
  <2> QED  BY <2>1, <2>2, NetSized
<1>10. \A j \in DOMAIN t : j + 1 \in DOMAIN syn_queue /\ 1 < j + 1 /\ t[j] = syn_queue[j + 1]
  BY <1>2, <1>6
<1>11. Range(t) = Range(syn_queue) \ {h}
  <2>1. Range(syn_queue) = Range(t) \cup {Head(syn_queue)}  BY <1>1, <1>5, RangeTail
  <2>2. \A j \in DOMAIN t : t[j] # h
    <3> SUFFICES ASSUME NEW j \in DOMAIN t  PROVE t[j] # h
      OBVIOUS
    <3>1. syn_queue[k] < syn_queue[j + 1]  BY <1>8, <1>10 DEF QueueInv
    <3>2. syn_queue[j + 1] \in Nat /\ syn_queue[k] \in Nat  BY <1>7, <1>10
    <3> QED  BY <1>4, <1>10, <3>1, <3>2
  <2>3. h \notin Range(t)  BY <2>2 DEF Range
  <2> QED  BY <1>9, <2>1, <2>3
<1>12. \A j \in DOMAIN t : t[j] \in 1 .. Len(sock)  BY <1>1, <1>10
<1>13. \A i, j \in DOMAIN t : i < j => t[i] < t[j]
  <2> SUFFICES ASSUME NEW i \in DOMAIN t, NEW j \in DOMAIN t, i < j  PROVE t[i] < t[j]
    OBVIOUS
  <2>1. i + 1 < j + 1  BY <1>6
  <2> QED  BY <1>10, <2>1 DEF QueueInv
<1> QED  BY <1>5, <1>6, <1>9, <1>11, <1>12, <1>13

(* accept() would panic: nothing but the panic flag changes. *)
LEMMA AcceptFails ==
    ASSUME NetInv, NEW c \in TaskIds, AcceptWoken(c), faults' = faults,
           syn_queue = <<>> \/ sock[Head(syn_queue)].st # "established" \/ ResFull
    PROVE  NetInv'
<1>1. /\ Go(c) /\ c \notin {Poller, Receiver} /\ co[c].pc = "listening"
      /\ immediate' = [immediate EXCEPT ![c] = NoItem] /\ ex' = Failed(ex)
      /\ UNCHANGED <<running, co, syn_queue, socket2cid, res_items, recv_reply_status,
                     reply, cnt, req_items, recv_req_status, sock, block_cids, frames,
                     rx_cmplt, masked, late, peer, cl>>
  BY DEF AcceptWoken, GoCo, NoReply, device
<1>2. /\ c \in Accepts /\ c \notin Queued(ex, 2) /\ c \notin Range(block_cids)
      /\ running /\ ex.current = c /\ ~ex.panic /\ (\A d : Run(d) <=> d = c)
  BY <1>1, AcceptRuns
<1>3. /\ TypeInv /\ GivenIn(sock) /\ OrderInv(ex, block_cids) /\ QueueInv /\ TokenInv(sock)
      /\ GoodInv(sock, peer, block_cids, 0)
  BY <1>2, Running
<1>4. /\ ExecutorType(Failed(ex)) /\ Failed(ex).panic /\ Failed(ex).delay = ex.delay
  BY <1>3, FailedType DEF TypeInv
<1>5. immediate' \in [TaskIds -> Requests \cup {NoItem}]  BY <1>1, <1>3 DEF TypeInv
<1>6. TypeInv'  BY <1>1, <1>3, <1>4, <1>5 DEF TypeInv
<1>7. GivenIn(sock)'  BY <1>1, <1>3 DEF GivenIn, Owns
<1>8. c \in Listeners  BY <1>1, <1>2 DEF Listeners
<1>9. /\ syn_queue # <<>> /\ Head(syn_queue) = co[c].handler
      /\ co[c].handler \in 1 .. Len(sock)
  BY <1>2, <1>3, <1>8, FrontOfQueue
<1>10. Sizes /\ Prompt => FALSE
  <2> SUFFICES ASSUME Sizes, Prompt  PROVE FALSE
    OBVIOUS
  <2>1. ~ResFull  BY <1>3, ResRoom
  <2>2. DOMAIN sock = 1 .. Len(sock)  BY <1>3, LenProperties DEF TypeInv, SocketsOK
  <2>3. sock[co[c].handler] \in Sockets  BY <1>3, <1>9, <2>2 DEF TypeInv, SocketsOK
  <2>4. sock[co[c].handler].st \in States  BY <2>3 DEF Sockets
  <2>5. co[c].handler \in Range(syn_queue)  BY <1>3, <1>8 DEF QueueInv
  <2>6. /\ sock[co[c].handler].st # "listen" /\ sock[co[c].handler].st # "syn_received"
        /\ sock[co[c].handler].st # "closed"
    BY <1>2, <1>3, <1>8, <1>9, <2>2, <2>5 DEF GoodInv
  <2> QED  BY <1>9, <2>1, <2>4, <2>6 DEF States
<1>11. Sizes => AcceptFailed' /\ ~Prompt
  <2> SUFFICES ASSUME Sizes  PROVE AcceptFailed'
    BY <1>10
  <2>1. ~ResFull  BY <1>3, ResRoom
  <2>2. ex'.current = c  BY <1>1, <1>2 DEF Failed
  <2> QED  BY <1>1, <1>2, <2>1, <2>2 DEF AcceptFailed
<1> QED  BY <1>1, <1>4, <1>6, <1>7, <1>11, NetParts2

(* accept() takes the coroutine's own handle, and the caller gets it. *)
LEMMA AcceptGives ==
    ASSUME NetInv, NEW c \in TaskIds, AcceptWoken(c), faults' = faults,
           syn_queue # <<>>, sock[Head(syn_queue)].st = "established", ~ResFull
    PROVE  NetInv'
<1>h. PICK h : h = co[c].handler  OBVIOUS
<1>a. PICK a : a = co[c].caller  OBVIOUS
<1>1. /\ Go(c) /\ c \notin {Poller, Receiver} /\ co[c].pc = "listening" /\ running' = FALSE
      /\ immediate' = [immediate EXCEPT ![c] = NoItem] /\ ex' = ex
      /\ PushRes(Message("ListenReply", a, Head(syn_queue))) /\ syn_queue' = Tail(syn_queue)
      /\ socket2cid' = [g \in DOMAIN socket2cid \cup {h} |-> IF g = h THEN c ELSE socket2cid[g]]
      /\ co' = [co EXCEPT ![c].pc = "parked"]
      /\ UNCHANGED <<cnt, req_items, recv_req_status, sock, block_cids, frames, rx_cmplt,
                     masked, late, peer, cl>>
  BY <1>h, <1>a DEF AcceptWoken, GoCo, BindCid, device
<1>2. /\ c \in Accepts /\ c \notin Queued(ex, 2) /\ c \notin Range(block_cids)
      /\ running /\ ex.current = c /\ ~ex.panic /\ (\A d : Run(d) <=> d = c)
      /\ co[Poller].pc # "ack" /\ a \in Clients
  BY <1>1, <1>a, AcceptRuns
<1>3. /\ TypeInv /\ GivenIn(sock) /\ RunInv /\ Shape(ex) /\ CoInv /\ SchedInv(ex, block_cids)
      /\ OrderInv(ex, block_cids) /\ QueueInv
      /\ CallInv /\ TokenInv(sock) /\ WakesInv(ex)
      /\ StackInv(sock, peer, 0) /\ GoodInv(sock, peer, block_cids, 0) /\ StrandInv
      /\ Poller \in TaskIds /\ Receiver \in TaskIds /\ Poller # Receiver
  BY <1>2, Running
<1>4. c \in Listeners  BY <1>1, <1>2 DEF Listeners
<1>5. /\ Head(syn_queue) = h /\ h \in 1 .. Len(sock) /\ h # NoFd
      /\ Range(syn_queue)' = Range(syn_queue) \ {h} /\ h \in Range(syn_queue)
      /\ syn_queue' \in Seq(Nat)
      /\ (\A k \in DOMAIN syn_queue' : syn_queue'[k] \in 1 .. Len(sock))
      /\ (\A i, j \in DOMAIN syn_queue' : i < j => syn_queue'[i] < syn_queue'[j])
  <2>1. /\ Head(syn_queue) = co[c].handler
        /\ co[c].handler \in 1 .. Len(sock) /\ co[c].handler # NoFd
        /\ Range(Tail(syn_queue)) = Range(syn_queue) \ {co[c].handler}
        /\ Tail(syn_queue) \in Seq(Nat)
        /\ \A k \in DOMAIN Tail(syn_queue) : Tail(syn_queue)[k] \in 1 .. Len(sock)
        /\ \A i, j \in DOMAIN Tail(syn_queue) : i < j => Tail(syn_queue)[i] < Tail(syn_queue)[j]
    BY <1>2, <1>3, <1>4, FrontOfQueue
  <2>2. Range(syn_queue)' = Range(Tail(syn_queue))  BY <1>1 DEF Range
  <2>3. h \in Range(syn_queue)  BY <1>3, <1>4, <1>h DEF QueueInv
  <2> QED  BY <1>1, <1>h, <2>1, <2>2, <2>3
<1>6. sock[h].st = "established" /\ h \in DOMAIN sock
  <2>1. DOMAIN sock = 1 .. Len(sock)  BY <1>3, LenProperties DEF TypeInv, SocketsOK
  <2> QED  BY <1>5, <2>1
<1>7. PICK r : r = Message("ListenReply", a, h)  OBVIOUS
<1>8. r \in Replies /\ r.client = a /\ r.type = "ListenReply" /\ r.fd = h
  <2>1. h \in Nat
    <3>1. Len(sock) \in Nat  BY <1>3, LenProperties DEF TypeInv, SocketsOK
    <3> QED  BY <1>5, <3>1
  <2> QED  BY <1>2, <1>7, <2>1 DEF Replies, Message
<1>9. /\ res_items' \in Seq(Replies)
      /\ recv_reply_status' \in BOOLEAN /\ ReplyOK(recv_reply_status, reply)'
      /\ Range(res_items)' = Range(res_items) \cup {r}
      /\ \A T : Count(res_items', T) = Count(res_items, T) + One(r \in T)
  <2>1. PushRes(r)  BY <1>1, <1>5, <1>7
  <2> QED  BY <1>3, <1>8, <2>1, PushResFacts
<1>10. immediate[c] = NoItem
  <2>1. immediate[c] # NoItem => co[c].pc = "parked"
    BY <1>2, <1>3, CallNext DEF CallParts, Awaited
  <2> QED  BY <1>1, <2>1
<1>11. immediate' = immediate
  <2>1. immediate \in [TaskIds -> Requests \cup {NoItem}]  BY <1>3 DEF TypeInv
  <2> QED  BY <1>1, <1>10, <2>1
<1>12. /\ co' \in [TaskIds -> Contexts]
       /\ co'[c].pc = "parked" /\ co'[c].handler = h /\ co'[c].caller = a
       /\ co'[c].item = co[c].item
       /\ \A d \in TaskIds \ {c} : co'[d] = co[d]
  <2>1. co \in [TaskIds -> Contexts]  BY <1>3 DEF TypeInv
  <2> QED  BY <1>1, <1>a, <1>h, <2>1 DEF Contexts
<1>13. \A d \in Accepts \ {c} : co'[d] = co[d]  BY <1>12 DEF Accepts
<1>14. /\ socket2cid' \in [DOMAIN socket2cid' -> TaskIds]
       /\ DOMAIN socket2cid' = DOMAIN socket2cid \cup {h} /\ socket2cid'[h] = c
       /\ \A g \in DOMAIN socket2cid : g # h => socket2cid'[g] = socket2cid[g]
  <2>1. socket2cid \in [DOMAIN socket2cid -> TaskIds]  BY <1>3 DEF TypeInv
  <2> QED  BY <1>1, <2>1
<1>15. TypeInv'
  <2>1. \A d \in TaskIds : co'[d].handler \in 0 .. Len(sock)
    BY <1>3, <1>12, <1>h DEF TypeInv
  <2>2. DOMAIN socket2cid' \subseteq 1 .. Len(sock)  BY <1>3, <1>5, <1>14 DEF TypeInv
  <2> QED  BY <1>1, <1>3, <1>5, <1>9, <1>11, <1>12, <1>14, <2>1, <2>2 DEF TypeInv
<1>16. GivenIn(sock)'
  <2>1. ASSUME NEW b, NEW g, Owns(sock, b, g)  PROVE Owns(sock, b, g)'
    <3>1. PICK d : d = socket2cid[g]  OBVIOUS
    <3>2. /\ g \in DOMAIN socket2cid /\ d \in TaskIds \ {Poller, Receiver}
          /\ co[d].handler = g /\ co[d].caller = b /\ co[d].pc \in {"parked", "retry"}
          /\ sock[g].st \in {"established", "closed"}
      BY <1>3, <2>1, <3>1 DEF Owns, TypeInv
    <3>3. d # c /\ d \in Accepts  BY <1>1, <3>2 DEF Accepts
    <3>4. g # h
      <4>1. g = h => co[d].handler = co[c].handler /\ co[d].handler # NoFd
        BY <1>5, <1>h, <3>2
      <4> QED  BY <1>2, <1>3, <3>3, <4>1 DEF QueueInv
    <3>5. socket2cid'[g] = d /\ g \in DOMAIN socket2cid' /\ co'[d] = co[d]
      BY <1>13, <1>14, <3>1, <3>2, <3>3, <3>4
    <3> QED  BY <1>1, <3>2, <3>5 DEF Owns
  <2>2. Owns(sock, a, h)'
    BY <1>1, <1>6, <1>12, <1>14 DEF Owns
  <2> QED  BY <1>1, <1>3, <1>8, <1>9, <2>1, <2>2 DEF GivenIn
<1>17. /\ Accepts' = Accepts /\ CoInv' /\ WakesInv(ex)' /\ StrandInv'
       /\ \A d : ~Run(d)'
       /\ Listeners \ {c} = Listeners' \ {c}
  <2>1. co'[c].pc \in {"start", "listening", "parked", "retry"} /\ co'[c].caller = co[c].caller
    BY <1>12, <1>a
  <2> QED  BY <1>1, <1>2, <1>3, <1>11, <1>12, <2>1, YieldKept
<1>18. Listeners' = Listeners \ {c}
  <2>1. c \notin Listeners'  BY <1>12 DEF Listeners
  <2> QED  BY <1>17, <2>1
<1>19. SchedInv(ex, block_cids)'
  <2> SUFFICES ASSUME NEW d \in Accepts
               PROVE  /\ d \in Range(block_cids) <=>
                            d \in Listeners \ {c} /\ d \notin Queued(ex, 2)
                      /\ co'[d].pc = "parked" /\ d \in Queued(ex, 2) => immediate[d] # NoItem
    BY <1>1, <1>11, <1>17, <1>18 DEF SchedInv
  <2>1. CASE d = c  BY <1>2, <2>1
  <2>2. CASE d # c  BY <1>2, <1>3, <1>13, <2>2 DEF SchedInv
  <2> QED  BY <2>1, <2>2
<1>20. \A d \in Accepts : co'[d].handler = co[d].handler /\ co'[d].caller = co[d].caller
  BY <1>12, <1>13, <1>a, <1>h
<1>21. OrderInv(ex, block_cids)'
  <2>1. Range(block_cids) \subseteq Accepts /\ \A d \in Listeners : d \in Accepts
    BY <1>3 DEF OrderInv, Range, Listeners
  <2>2. \A d, e \in Accepts : Before(d, e)' <=> Before(d, e)  BY <1>20 DEF Before
  <2>3. \A k \in DOMAIN block_cids : block_cids[k] \in Accepts  BY <1>3 DEF OrderInv
  <2>4. \A i, j \in DOMAIN block_cids : i < j =>
           co'[block_cids[i]].handler < co'[block_cids[j]].handler
    BY <1>3, <1>20, <2>3 DEF OrderInv, Before
  <2>5. \A d \in Listeners \ {c}, e \in Range(block_cids) :
           d \notin Range(block_cids) => Before(d, e)'
    BY <1>3, <2>1, <2>2 DEF OrderInv
  <2>6. \A i, j \in DOMAIN ex.ready[2] :
          i < j /\ ex.ready[2][i] \in Listeners \ {c} /\ ex.ready[2][j] \in Listeners \ {c} =>
              co'[ex.ready[2][i]].handler < co'[ex.ready[2][j]].handler
    BY <1>3, <1>20, <2>1 DEF OrderInv, Before
  <2> QED  BY <1>1, <1>17, <1>18, <2>3, <2>4, <2>5, <2>6 DEF OrderInv, Before
<1>22. QueueInv'
  <2>1. {co[d].handler : d \in Listeners}' = {co[d].handler : d \in Listeners} \ {h}
    <3>1. {co[d].handler : d \in Listeners}' = {co'[d].handler : d \in Listeners \ {c}}
      BY <1>18
    <3>2. \A d \in Listeners \ {c} : co'[d].handler = co[d].handler /\ co[d].handler # h
      BY <1>2, <1>3, <1>5, <1>20, <1>h DEF QueueInv, Listeners
    <3> QED  BY <1>4, <1>h, <3>1, <3>2
  <2>2. Range(syn_queue)' = {co[d].handler : d \in Listeners}'
    BY <1>3, <1>5, <2>1 DEF QueueInv
  <2>3. \A d \in Accepts : co'[d].handler = NoFd <=> co'[d].pc = "start"
    BY <1>3, <1>5, <1>12, <1>13 DEF QueueInv
  <2>4. \A d, e \in Accepts : co'[d].handler = co'[e].handler /\ co'[d].handler # NoFd => d = e
    BY <1>3, <1>20 DEF QueueInv
  <2> QED  BY <1>5, <1>17, <2>2, <2>3, <2>4 DEF QueueInv
<1>23. CallInv'
  <2>1. CallParts(Accepts, co, immediate, cl, Range(req_items), Range(res_items))
    BY <1>3, CallNext
  <2>2. cl[a].op = "Listen"  BY <1>1, <1>2, <1>a, <2>1 DEF CallParts, Awaited
  <2>3. Awaited(Accepts, co', immediate, cl, Range(res_items)')
    <3> SUFFICES ASSUME NEW d \in Accepts
                 PROVE  LET b == co'[d].caller
                            m == Message("Recv", b, co'[d].handler)
                        IN  /\ co'[d].pc \in {"start", "listening"} => cl[b].op = "Listen"
                            /\ immediate[d] # NoItem =>
                                  co'[d].pc = "parked" /\ immediate[d] = m /\ cl[b].op = "Recv"
                            /\ co'[d].pc = "retry" => co'[d].item = m /\ cl[b].op = "Recv"
                            /\ co'[d].pc # "retry" => co'[d].item = NoItem
                            /\ cl[b].op = "Listen" /\ co'[d].pc \in {"parked", "retry"} =>
                                  \E q \in Range(res_items)' : q.client = b
      BY DEF Awaited
    <3>1. CASE d = c  BY <1>1, <1>8, <1>9, <1>10, <1>12, <2>1, <3>1 DEF CallParts, Awaited
    <3>2. CASE d # c
      <4>1. co'[d] = co[d]  BY <1>13, <3>2
      <4> QED  BY <1>9, <2>1, <4>1 DEF CallParts, Awaited
    <3> QED  BY <3>1, <3>2
  <2>4. \A d, e \in Accepts : co'[d].caller = co'[e].caller => d = e
    BY <1>20, <2>1 DEF CallParts
  <2>5. \A q \in Range(res_items)' : q.type = Expected(cl[q.client].op)
    <3>1. Expected("Listen") = "ListenReply"  BY DEF Expected
    <3> QED  BY <1>8, <1>9, <2>1, <2>2, <3>1 DEF CallParts
  <2>6. Range(req_items)' = Range(req_items)  BY <1>1
  <2> QED  BY <1>1, <1>11, <1>17, <2>1, <2>3, <2>4, <2>5, <2>6, CallNext DEF CallParts
<1>24. TokenInv(sock)'
  <2>1. Held(a) /\ Holding(c)  BY <1>1, <1>2, <1>a DEF Held, Holding
  <2>2. /\ Count(req_items, ItemsOf(a)) = 0 /\ Count(res_items, ItemsOf(a)) = 0
        /\ cl[a].st = "waiting"
    BY <1>2, <1>3, <2>1, TokenAt
  <2>3. ~Held(a)'
    <3>1. ~Holding(c)'  BY <1>10, <1>11, <1>12 DEF Holding
    <3>2. \A d \in Accepts : co[d].caller = a => d = c  BY <1>2, <1>3, <1>a DEF CallInv
    <3> QED  BY <1>17, <1>20, <3>1, <3>2 DEF Held
  <2>4. \A b \in Clients \ {a} : Held(b)' <=> Held(b)
    <3>1. \A d \in Accepts \ {c} : Holding(d)' <=> Holding(d)  BY <1>11, <1>13 DEF Holding
    <3> QED  BY <1>17, <1>20, <1>a, <3>1 DEF Held
  <2>5. \A b \in Clients : Places(b)' = Count(req_items, ItemsOf(b))
                              + Count(res_items', ItemsOf(b)) + One(Held(b)')
    BY <1>1 DEF Places, Count, One
  <2>6. One(Held(a)') = 0 /\ \A b \in Clients \ {a} : One(Held(b)') = One(Held(b))
    BY <2>3, <2>4 DEF One
  <2>7. \A b \in Clients : One(r \in ItemsOf(b)) = IF b = a THEN 1 ELSE 0
    BY <1>8, ItemFacts DEF One
  <2>8. \A b \in Clients : Count(res_items, ItemsOf(b)) \in Nat  BY <1>3, PlacesType
  <2>9. /\ Count(res_items', ItemsOf(a)) = 1
        /\ \A b \in Clients \ {a} : Count(res_items', ItemsOf(b)) = Count(res_items, ItemsOf(b))
    BY <1>2, <1>9, <2>2, <2>7, <2>8
  <2>10. Places(a)' = 1  BY <1>2, <2>2, <2>5, <2>6, <2>9
  <2>11. \A b \in Clients \ {a} : Places(b)' = Places(b)
    BY <2>5, <2>6, <2>9 DEF Places
  <2> QED  BY <1>1, <1>3, <2>2, <2>10, <2>11 DEF TokenInv
<1>25. StackInv(sock, peer, 0)'
  <2>1. \A g \in DOMAIN sock : sock[g].st = "listen" => g \in Range(syn_queue)'
    BY <1>3, <1>5, <1>6 DEF StackInv
  <2>2. \A k \in DOMAIN frames : k > 0 /\ frames[k].type = "RST" =>
          /\ peer[frames[k].peer].st = "reset"
          /\ "early_reset" \notin faults =>
                \A g \in Range(syn_queue)' : sock[g].peer # {frames[k].peer}
          /\ \A j \in DOMAIN frames :
                j > k /\ frames[j].type = "ACK" => frames[j].peer # frames[k].peer
    BY <1>3, <1>5 DEF StackInv
  <2>3. peer' = peer /\ frames' = frames /\ sock' = sock /\ faults' = faults /\ StackInv(sock, peer, 0)
    BY <1>1, <1>3
  <2> QED  BY ONLY <2>1, <2>2, <2>3 DEF StackInv, Connected
<1>26. GoodInv(sock, peer, block_cids, 0)'
  <2>p. Prompt' <=> Prompt  BY DEF Prompt
  <2>1. \A d \in Listeners \ {c} : co'[d].handler = co[d].handler  BY <1>20 DEF Listeners
  <2> QED  BY <1>1, <1>3, <1>5, <1>18, <2>p, <2>1 DEF GoodInv
<1> QED  BY <1>1, <1>2, <1>3, <1>15, <1>16, <1>17, <1>19, <1>21, <1>22, <1>23, <1>24, <1>25, <1>26,
            NetParts2

LEMMA AcceptWokenStep ==
    ASSUME NetInv, NEW c \in TaskIds, AcceptWoken(c), faults' = faults
    PROVE  NetInv'
BY AcceptFails, AcceptGives

(* Coroutine c looks at its socket for request i. *)
Try(c, i) ==
    /\ Go(c) /\ c \notin {Poller, Receiver} /\ co[c].pc \in {"parked", "retry"}
    /\ i = Message("Recv", co[c].caller, co[c].handler)
    /\ Holding(c) /\ cl[co[c].caller].op = "Recv"
    /\ TryRecv(c, i)
    /\ immediate' = [immediate EXCEPT ![c] = NoItem]
    /\ running' = FALSE
    /\ UNCHANGED <<cnt, req_items, recv_req_status, syn_queue, block_cids,
                   socket2cid, frames, rx_cmplt, masked, late, peer, faults>>

(* The request in its hand is its caller's, about its own socket. *)
LEMMA TryFacts ==
    ASSUME NetInv, NEW c \in TaskIds, NEW i, Try(c, i)
    PROVE  LET a == co[c].caller
               h == co[c].handler
           IN  /\ i \in Requests /\ i.client = a /\ i.fd = h /\ i # NoItem
               /\ a \in Clients /\ h \in DOMAIN sock /\ h # NoFd /\ c \notin Listeners
               /\ Held(a) /\ Count(req_items, ItemsOf(a)) = 0 /\ Count(res_items, ItemsOf(a)) = 0
               /\ cl[a].st = "waiting"
               /\ immediate' \in [TaskIds -> Requests \cup {NoItem}] /\ immediate'[c] = NoItem
               /\ \A d \in TaskIds \ {c} : immediate'[d] = immediate[d]
               /\ \A d \in Accepts : co[d].caller = a => d = c
<1> DEFINE a == co[c].caller
           h == co[c].handler
<1>0. /\ Go(c) /\ c \notin {Poller, Receiver} /\ co[c].pc \in {"parked", "retry"} /\ Holding(c)
      /\ i = Message("Recv", a, h) /\ immediate' = [immediate EXCEPT ![c] = NoItem]
  BY DEF Try
<1>1. c \in Accepts /\ ~ex.panic /\ a \in Clients  BY <1>0, AcceptRuns
<1>2. TypeInv /\ QueueInv /\ CallInv /\ TokenInv(sock)  BY <1>1, Running
<1>3. DOMAIN sock = 1 .. Len(sock) /\ Len(sock) \in Nat
  BY <1>2, LenProperties DEF TypeInv, SocketsOK
<1>4. h \in 0 .. Len(sock) /\ h # 0  BY <1>0, <1>1, <1>2, NetSized DEF TypeInv, QueueInv
<1>5. h \in DOMAIN sock /\ h \in Nat /\ h # NoFd  BY <1>3, <1>4, NetSized
<1> HIDE DEF a, h
<1>6. i \in Requests /\ i.client = a /\ i.fd = h  BY <1>0, <1>1, <1>5 DEF Requests, Message
<1>7. i # NoItem  BY <1>6, ItemFacts
<1>8. c \notin Listeners  BY <1>0 DEF Listeners
<1>9. Held(a)  BY <1>0, <1>1 DEF Held, a
<1>10. Count(req_items, ItemsOf(a)) = 0 /\ Count(res_items, ItemsOf(a)) = 0 /\ cl[a].st = "waiting"
  BY <1>1, <1>2, <1>9, TokenAt
<1>11. /\ immediate' \in [TaskIds -> Requests \cup {NoItem}] /\ immediate'[c] = NoItem
       /\ \A d \in TaskIds \ {c} : immediate'[d] = immediate[d]
  <2>1. immediate \in [TaskIds -> Requests \cup {NoItem}]  BY <1>2 DEF TypeInv
  <2> QED  BY <1>0, <2>1
<1>12. \A d \in Accepts : co[d].caller = a => d = c  BY <1>1, <1>2 DEF CallInv, a
<1> QED  BY <1>1, <1>5, <1>6, <1>7, <1>8, <1>9, <1>10, <1>11, <1>12 DEF a, h

(* A coroutine past accept() changes what it has in hand. *)
LEMMA PastAccept ==
    ASSUME TypeInv, QueueInv, NEW c \in Accepts, c \notin Listeners, Accepts' = Accepts,
           Listeners \ {c} = Listeners' \ {c}, co[c].pc # "start",
           \A d \in TaskIds \ {c} : co'[d] = co[d],
           co'[c].pc \in {"parked", "retry"}, co'[c].handler = co[c].handler,
           syn_queue' = syn_queue
    PROVE  QueueInv' /\ Listeners' = Listeners /\ \A d \in Listeners : co'[d] = co[d]
<1>1. c \notin Listeners'  BY DEF Listeners
<1>2. Listeners' = Listeners  BY <1>1
<1>3. \A d \in Accepts \ {c} : co'[d] = co[d]  BY DEF Accepts
<1>4. \A d \in Listeners : co'[d] = co[d]  BY <1>3 DEF Listeners
<1>5. {co[d].handler : d \in Listeners}' = {co[d].handler : d \in Listeners}  BY <1>2, <1>4
<1>6. \A d \in Accepts : co'[d].handler = NoFd <=> co'[d].pc = "start"
  BY <1>3 DEF QueueInv
<1>7. \A d, e \in Accepts : co'[d].handler = co'[e].handler /\ co'[d].handler # NoFd => d = e
  BY <1>3 DEF QueueInv
<1>8. QueueInv'  BY <1>5, <1>6, <1>7 DEF QueueInv
<1> QED  BY <1>2, <1>4, <1>8

(* The socket has data: the caller gets its reply. *)
LEMMA TryAnswer ==
    ASSUME NetInv, NEW c \in TaskIds, NEW i, Try(c, i), sock[i.fd].rx # <<>>
    PROVE  NetInv'
<1>h. PICK h : h = co[c].handler  OBVIOUS
<1>a. PICK a : a = co[c].caller  OBVIOUS
<1>1. /\ Go(c) /\ c \notin {Poller, Receiver} /\ co[c].pc \in {"parked", "retry"}
      /\ Holding(c) /\ cl[a].op = "Recv" /\ running' = FALSE
      /\ RecvSlice(i) /\ ex' = IF ResFull THEN Failed(ex) ELSE ex
      /\ co' = [co EXCEPT ![c].pc = "parked", ![c].item = NoItem]
      /\ UNCHANGED <<cnt, req_items, recv_req_status, syn_queue, block_cids,
                     socket2cid, frames, rx_cmplt, masked, late, peer, faults>>
  BY <1>a DEF Try, TryRecv
<1>2. /\ c \in Accepts /\ c \notin Queued(ex, 2) /\ c \notin Range(block_cids)
      /\ running /\ ex.current = c /\ ~ex.panic /\ (\A d : Run(d) <=> d = c)
      /\ co[Poller].pc # "ack"
  BY <1>1, AcceptRuns
<1>3. /\ TypeInv /\ GivenIn(sock) /\ RunInv /\ Shape(ex) /\ CoInv /\ SchedInv(ex, block_cids)
      /\ OrderInv(ex, block_cids) /\ QueueInv
      /\ CallInv /\ TokenInv(sock) /\ WakesInv(ex)
      /\ StackInv(sock, peer, 0) /\ GoodInv(sock, peer, block_cids, 0) /\ StrandInv
      /\ Poller \in TaskIds /\ Receiver \in TaskIds /\ Poller # Receiver
  BY <1>2, Running
<1>4. /\ i \in Requests /\ i.client = a /\ i.fd = h /\ i # NoItem
      /\ a \in Clients /\ h \in DOMAIN sock /\ h # NoFd /\ c \notin Listeners
      /\ Held(a) /\ Count(req_items, ItemsOf(a)) = 0 /\ Count(res_items, ItemsOf(a)) = 0
      /\ cl[a].st = "waiting"
      /\ immediate' \in [TaskIds -> Requests \cup {NoItem}] /\ immediate'[c] = NoItem
      /\ \A d \in TaskIds \ {c} : immediate'[d] = immediate[d]
      /\ \A d \in Accepts : co[d].caller = a => d = c
  BY <1>a, <1>h, TryFacts
<1>5. /\ SocketsOK(sock') /\ Len(sock') = Len(sock) /\ DOMAIN sock' = DOMAIN sock
      /\ \A g \in DOMAIN sock : sock'[g].st = sock[g].st /\ sock'[g].peer = sock[g].peer
      /\ cl' \in [Clients -> Calls]
      /\ \A b \in Clients : /\ cl'[b].op = cl[b].op /\ cl'[b].fd = cl[b].fd
                            /\ cl'[b].st = cl[b].st
      /\ res_items' \in Seq(Replies)
      /\ recv_reply_status' \in BOOLEAN /\ ReplyOK(recv_reply_status, reply)'
      /\ \E r \in Replies :
            /\ r.client = i.client /\ r.type = "RecvReply"
            /\ Range(res_items)' = Range(res_items) \cup {r}
            /\ \A T : Count(res_items', T) = Count(res_items, T) + One(r \in T)
  BY <1>1, <1>3, <1>4, RecvSliceFacts
<1>6. PICK r \in Replies :
            /\ r.client = a /\ r.type = "RecvReply"
            /\ Range(res_items)' = Range(res_items) \cup {r}
            /\ \A T : Count(res_items', T) = Count(res_items, T) + One(r \in T)
  BY <1>4, <1>5
<1>7. /\ co' \in [TaskIds -> Contexts]
      /\ co'[c].pc = "parked" /\ co'[c].handler = h /\ co'[c].caller = a
      /\ co'[c].item = NoItem
      /\ \A d \in TaskIds \ {c} : co'[d] = co[d]
  <2>1. co \in [TaskIds -> Contexts]  BY <1>3 DEF TypeInv
  <2> QED  BY <1>1, <1>a, <1>h, <2>1 DEF Contexts
<1>8. ExecutorType(ex') /\ ex'.delay = ex.delay /\ (ResFull => ex'.panic) /\ (~ResFull => ex' = ex)
  <2>1. ExecutorType(ex)  BY <1>3 DEF TypeInv
  <2>2. ExecutorType(Failed(ex)) /\ Failed(ex).panic /\ Failed(ex).delay = ex.delay
    BY <2>1, FailedType
  <2> QED  BY <1>1, <2>1, <2>2
<1>9. TypeInv'
  <2>1. \A d \in TaskIds : co'[d].handler = co[d].handler  BY <1>7, <1>h
  <2> QED  BY <1>1, <1>3, <1>4, <1>5, <1>7, <1>8, <2>1 DEF TypeInv
<1>10. GivenIn(sock)'
  <2>1. \A q \in Range(res_items)' : q \in Range(res_items) \/ q.type # "ListenReply"
    BY <1>6
  <2>2. \A d \in TaskIds \ {Poller, Receiver} :
              co[d].pc \in {"parked", "retry"} =>
                 /\ co'[d].handler = co[d].handler /\ co'[d].caller = co[d].caller
                 /\ co'[d].pc \in {"parked", "retry"}
    BY <1>7, <1>a, <1>h
  <2> QED  BY <1>1, <1>3, <1>5, <2>1, <2>2, GivenKept
<1>11. Sizes => ~ex'.panic  BY <1>2, <1>3, <1>8, ResRoom
<1>12. ASSUME ~ex'.panic
       PROVE  /\ Shape(ex') /\ CoInv' /\ SchedInv(ex, block_cids)'
              /\ OrderInv(ex, block_cids)' /\ QueueInv'
              /\ CallInv' /\ TokenInv(sock)' /\ WakesInv(ex)'
              /\ StackInv(sock, peer, 0)' /\ GoodInv(sock, peer, block_cids, 0)'
              /\ StrandInv'
  <2>0. ex' = ex  BY <1>8, <1>12
  <2>1. /\ Accepts' = Accepts /\ CoInv' /\ WakesInv(ex)' /\ StrandInv'
        /\ \A d : ~Run(d)'
        /\ Listeners \ {c} = Listeners' \ {c}
    <3>1. co'[c].pc \in {"start", "listening", "parked", "retry"} /\ co'[c].caller = co[c].caller
      BY <1>7, <1>a
    <3> QED  BY <1>1, <1>2, <1>3, <1>4, <1>7, <2>0, <3>1, YieldKept
  <2>2. QueueInv' /\ Listeners' = Listeners /\ \A d \in Listeners : co'[d] = co[d]
    <3>1. co[c].pc # "start" /\ co'[c].pc \in {"parked", "retry"} /\ co'[c].handler = co[c].handler
      BY <1>1, <1>7, <1>h
    <3> QED  BY <1>1, <1>2, <1>3, <1>4, <1>7, <2>1, <3>1, PastAccept
  <2>3. \A d \in Accepts \ {c} : co'[d] = co[d] /\ immediate'[d] = immediate[d]
    BY <1>4, <1>7 DEF Accepts
  <2>4. SchedInv(ex, block_cids)'
    <3> SUFFICES ASSUME NEW d \in Accepts
                 PROVE  /\ d \in Range(block_cids) <=> d \in Listeners /\ d \notin Queued(ex, 2)
                        /\ co'[d].pc = "parked" /\ d \in Queued(ex, 2) => immediate'[d] # NoItem
      BY <1>1, <2>0, <2>1, <2>2 DEF SchedInv
    <3>1. CASE d = c  BY <1>2, <1>4, <3>1
    <3>2. CASE d # c  BY <1>2, <1>3, <2>3, <3>2 DEF SchedInv
    <3> QED  BY <3>1, <3>2
  <2>5. OrderInv(ex, block_cids)'
    <3>1. \A d \in Accepts : co'[d].handler = co[d].handler  BY <1>7, <1>h, <2>3
    <3>2. Range(block_cids) \subseteq Accepts /\ (\A d \in Listeners : d \in Accepts)
          /\ \A k \in DOMAIN block_cids : block_cids[k] \in Accepts
      BY <1>3 DEF OrderInv, Range, Listeners
    <3>3. \A j, k \in DOMAIN block_cids : j < k =>
             co'[block_cids[j]].handler < co'[block_cids[k]].handler
      BY <1>3, <3>1, <3>2 DEF OrderInv, Before
    <3>4. \A d \in Listeners, e \in Range(block_cids) :
             d \notin Range(block_cids) => co'[d].handler < co'[e].handler
      BY <1>3, <3>1, <3>2 DEF OrderInv, Before
    <3>5. \A j, k \in DOMAIN ex.ready[2] :
            j < k /\ ex.ready[2][j] \in Listeners /\ ex.ready[2][k] \in Listeners =>
                co'[ex.ready[2][j]].handler < co'[ex.ready[2][k]].handler
      BY <1>3, <3>1, <3>2 DEF OrderInv, Before
    <3> QED  BY <1>1, <2>0, <2>1, <2>2, <3>2, <3>3, <3>4, <3>5 DEF OrderInv, Before
  <2>6. CallInv'
    <3>1. CallParts(Accepts, co, immediate, cl, Range(req_items), Range(res_items))
      BY <1>3, CallNext
    <3>2. \A b \in Clients : cl'[b].st # "panic" /\ (cl'[b].fd = NoFd <=> cl'[b].op = "Listen")
      BY <1>5, <3>1 DEF CallParts
    <3>3. \A j \in Range(req_items) \ {NetPollReq} :
             j.type = Request(cl'[j.client].op) /\ j.fd = cl'[j.client].fd
      <4>1. \A j \in Range(req_items) \ {NetPollReq} : j.client \in Clients
        BY <1>3, RangeIn, ItemFacts DEF TypeInv
      <4> QED  BY <1>5, <3>1, <4>1 DEF CallParts
    <3>4. \A q \in Range(res_items)' : q.type = Expected(cl'[q.client].op)
      <4>1. \A q \in Range(res_items) : q.client \in Clients
        BY <1>3, RangeIn, ItemFacts DEF TypeInv
      <4>2. Expected("Recv") = "RecvReply"  BY DEF Expected
      <4>3. cl'[a].op = "Recv"  BY <1>1, <1>4, <1>5
      <4> QED  BY <1>5, <1>6, <3>1, <4>1, <4>2, <4>3 DEF CallParts
    <3>5. Awaited(Accepts, co', immediate', cl', Range(res_items)')
      <4> SUFFICES ASSUME NEW d \in Accepts
                   PROVE  LET b == co'[d].caller
                              m == Message("Recv", b, co'[d].handler)
                          IN  /\ co'[d].pc \in {"start", "listening"} => cl'[b].op = "Listen"
                              /\ immediate'[d] # NoItem =>
                                    co'[d].pc = "parked" /\ immediate'[d] = m /\ cl'[b].op = "Recv"
                              /\ co'[d].pc = "retry" => co'[d].item = m /\ cl'[b].op = "Recv"
                              /\ co'[d].pc # "retry" => co'[d].item = NoItem
                              /\ cl'[b].op = "Listen" /\ co'[d].pc \in {"parked", "retry"} =>
                                    \E q \in Range(res_items)' : q.client = b
        BY DEF Awaited
      <4>1. CASE d = c
        <5>1. cl'[a].op = "Recv"  BY <1>1, <1>4, <1>5
        <5> QED  BY <1>4, <1>7, <4>1, <5>1
      <4>2. CASE d # c
        <5>1. co'[d] = co[d] /\ immediate'[d] = immediate[d]  BY <2>3, <4>2
        <5>2. co[d].caller \in Clients  BY <1>3 DEF CoInv
        <5>3. cl'[co[d].caller].op = cl[co[d].caller].op  BY <1>5, <5>2
        <5> QED  BY <1>6, <3>1, <5>1, <5>3 DEF CallParts, Awaited
      <4> QED  BY <4>1, <4>2
    <3>6. \A d, e \in Accepts : co'[d].caller = co'[e].caller => d = e
      <4>1. \A d \in Accepts : co'[d].caller = co[d].caller  BY <1>7, <1>a, <2>3
      <4> QED  BY <3>1, <4>1 DEF CallParts
    <3>7. Range(req_items)' = Range(req_items)  BY <1>1
    <3> QED  BY <2>1, <3>2, <3>3, <3>4, <3>5, <3>6, <3>7, CallNext DEF CallParts
  <2>7. TokenInv(sock)'
    <3>1. ~Held(a)'
      <4>1. ~Holding(c)'  BY <1>4, <1>7 DEF Holding
      <4>2. \A d \in Accepts : co'[d].caller = co[d].caller  BY <1>7, <1>a, <2>3
      <4> QED  BY <1>4, <2>1, <4>1, <4>2 DEF Held
    <3>2. \A b \in Clients \ {a} : Held(b)' <=> Held(b)
      <4>1. \A d \in Accepts \ {c} : Holding(d)' <=> Holding(d)  BY <2>3 DEF Holding
      <4>2. \A d \in Accepts : co'[d].caller = co[d].caller  BY <1>7, <1>a, <2>3
      <4> QED  BY <1>a, <2>1, <4>1, <4>2 DEF Held
    <3>3. \A b \in Clients : Places(b)' = Count(req_items, ItemsOf(b))
                                + Count(res_items', ItemsOf(b)) + One(Held(b)')
      BY <1>1 DEF Places, Count, One
    <3>4. One(Held(a)') = 0 /\ \A b \in Clients \ {a} : One(Held(b)') = One(Held(b))
      BY <3>1, <3>2 DEF One
    <3>5. \A b \in Clients : One(r \in ItemsOf(b)) = IF b = a THEN 1 ELSE 0
      BY <1>6, ItemFacts DEF One
    <3>6. \A b \in Clients : Count(res_items, ItemsOf(b)) \in Nat  BY <1>3, PlacesType
    <3>7. /\ Count(res_items', ItemsOf(a)) = 1
          /\ \A b \in Clients \ {a} : Count(res_items', ItemsOf(b)) = Count(res_items, ItemsOf(b))
      BY <1>4, <1>6, <3>5, <3>6
    <3>8. Places(a)' = 1  BY <1>4, <3>3, <3>4, <3>7
    <3>9. \A b \in Clients \ {a} : Places(b)' = Places(b)
      BY <3>3, <3>4, <3>7 DEF Places
    <3>10. \A b \in Clients : cl[b].fd # NoFd => cl[b].fd \in DOMAIN sock
      <4>1. DOMAIN sock = 1 .. Len(sock)  BY <1>3, LenProperties DEF TypeInv, SocketsOK
      <4> QED  BY <1>3, <4>1 DEF GivenIn, Owns, TypeInv
    <3>11. \A b \in Clients : Request(cl'[b].op) = Request(cl[b].op)  BY <1>5
    <3>12. "tx_full" \in faults' <=> "tx_full" \in faults  BY <1>1
    <3> QED  BY <1>3, <1>4, <1>5, <3>8, <3>9, <3>10, <3>11, <3>12 DEF TokenInv
  <2>8. StackInv(sock, peer, 0)'  BY <1>1, <1>3, <1>5, StackKept
  <2>9. GoodInv(sock, peer, block_cids, 0)'  BY <1>1, <1>3, <1>5, <2>2, GoodKept
  <2> QED  BY <1>3, <2>0, <2>1, <2>2, <2>4, <2>5, <2>6, <2>7, <2>8, <2>9
<1> QED  BY <1>1, <1>9, <1>10, <1>11, <1>12, NetParts2

(* It has none: the coroutine queues itself, to look again. *)
LEMMA TryWake ==
    ASSUME NetInv, NEW c \in TaskIds, NEW i, Try(c, i), sock[i.fd].rx = <<>>
    PROVE  NetInv'
<1>h. PICK h : h = co[c].handler  OBVIOUS
<1>a. PICK a : a = co[c].caller  OBVIOUS
<1>1. /\ Go(c) /\ c \notin {Poller, Receiver} /\ co[c].pc \in {"parked", "retry"}
      /\ Holding(c) /\ cl[a].op = "Recv" /\ running' = FALSE
      /\ i = Message("Recv", a, h)
      /\ ex' = Wake(ex, c)
      /\ co' = [co EXCEPT ![c].pc = "retry", ![c].item = i]
      /\ UNCHANGED <<cnt, req_items, recv_req_status, syn_queue, block_cids,
                     socket2cid, frames, rx_cmplt, masked, late, peer, faults,
                     sock, cl, res_items, recv_reply_status, reply>>
  BY <1>a, <1>h DEF Try, TryRecv, NoReply
<1>2. /\ c \in Accepts /\ c \notin Queued(ex, 2) /\ c \notin Range(block_cids)
      /\ running /\ ex.current = c /\ ~ex.panic /\ (\A d : Run(d) <=> d = c)
      /\ co[Poller].pc # "ack"
  BY <1>1, AcceptRuns
<1>3. /\ TypeInv /\ GivenIn(sock) /\ RunInv /\ Shape(ex) /\ CoInv /\ SchedInv(ex, block_cids)
      /\ OrderInv(ex, block_cids) /\ QueueInv
      /\ CallInv /\ TokenInv(sock) /\ WakesInv(ex)
      /\ StackInv(sock, peer, 0) /\ GoodInv(sock, peer, block_cids, 0) /\ StrandInv
      /\ Poller \in TaskIds /\ Receiver \in TaskIds /\ Poller # Receiver
  BY <1>2, Running
<1>4. /\ i \in Requests /\ i # NoItem /\ a \in Clients /\ c \notin Listeners
      /\ Held(a)
      /\ immediate' \in [TaskIds -> Requests \cup {NoItem}] /\ immediate'[c] = NoItem
      /\ \A d \in TaskIds \ {c} : immediate'[d] = immediate[d]
      /\ \A d \in Accepts : co[d].caller = a => d = c
  BY <1>a, <1>h, TryFacts
<1>7. /\ co' \in [TaskIds -> Contexts]
      /\ co'[c].pc = "retry" /\ co'[c].handler = h /\ co'[c].caller = a
      /\ co'[c].item = i
      /\ \A d \in TaskIds \ {c} : co'[d] = co[d]
  <2>1. co \in [TaskIds -> Contexts]  BY <1>3 DEF TypeInv
  <2> QED  BY <1>1, <1>4, <1>a, <1>h, <2>1 DEF Contexts
<1>8. /\ ExecutorType(ex') /\ Frame(ex, ex') /\ ex'.delay = ex.delay
      /\ ~ex'.panic => /\ Shape(ex')
                       /\ ex'.ready = [ex.ready EXCEPT ![2] = Append(@, c)]
      /\ Sizes => ~ex'.panic
  BY <1>1, <1>2, <1>3, WakeRoom
<1>9. TypeInv'
  <2>1. \A d \in TaskIds : co'[d].handler = co[d].handler  BY <1>7, <1>h
  <2> QED  BY <1>1, <1>3, <1>4, <1>7, <1>8, <2>1 DEF TypeInv
<1>10. GivenIn(sock)'
  <2>1. \A d \in TaskIds \ {Poller, Receiver} :
              co[d].pc \in {"parked", "retry"} =>
                 /\ co'[d].handler = co[d].handler /\ co'[d].caller = co[d].caller
                 /\ co'[d].pc \in {"parked", "retry"}
    BY <1>7, <1>a, <1>h
  <2> QED  BY <1>1, <1>3, <2>1, GivenKept
<1>11. Sizes => ~ex'.panic  BY <1>8
<1>12. ASSUME ~ex'.panic
       PROVE  /\ Shape(ex') /\ CoInv' /\ SchedInv(ex, block_cids)'
              /\ OrderInv(ex, block_cids)' /\ QueueInv'
              /\ CallInv' /\ TokenInv(sock)' /\ WakesInv(ex)'
              /\ StackInv(sock, peer, 0)' /\ GoodInv(sock, peer, block_cids, 0)'
              /\ StrandInv'
  <2>r. ex.ready \in [Prios -> Seq(TaskIds)] /\ ex.ready[2] \in Seq(TaskIds)
    BY <1>3, ShapeQueues, NetSized
  <2>0. ex'.ready[2] = Append(ex.ready[2], c) /\ ex'.ready[0] = ex.ready[0]
        /\ ex'.ready[1] = ex.ready[1] /\ ex'.tasks = ex.tasks
    <3>1. ex'.ready = [ex.ready EXCEPT ![2] = Append(@, c)]  BY <1>8, <1>12
    <3> QED  BY <1>8, <2>r, <3>1, NetSized DEF Frame
  <2>1. /\ Accepts' = Accepts /\ CoInv' /\ WakesInv(ex)' /\ StrandInv'
        /\ \A d : ~Run(d)'
        /\ Listeners \ {c} = Listeners' \ {c}
    <3>1. co'[c].pc \in {"start", "listening", "parked", "retry"} /\ co'[c].caller = co[c].caller
      BY <1>7, <1>a
    <3>2. /\ running' = FALSE
          /\ UNCHANGED <<req_items, recv_req_status, frames, rx_cmplt, masked, late, faults>>
      BY <1>1
    <3>3. \A d \in TaskIds \ {c} : co'[d] = co[d] /\ immediate'[d] = immediate[d]
      BY <1>4, <1>7
    <3>4. ex'.ready[0] = ex.ready[0] /\ ex'.ready[1] = ex.ready[1] /\ ex'.delay = ex.delay
          /\ ex'.tasks = ex.tasks
      BY <1>8, <2>0
    <3> QED  BY ONLY <1>2, <1>3, <3>1, <3>2, <3>3, <3>4, YieldKept
  <2>2. QueueInv' /\ Listeners' = Listeners /\ \A d \in Listeners : co'[d] = co[d]
    <3>1. co[c].pc # "start" /\ co'[c].pc \in {"parked", "retry"} /\ co'[c].handler = co[c].handler
      BY <1>1, <1>7, <1>h
    <3> QED  BY <1>1, <1>2, <1>3, <1>4, <1>7, <2>1, <3>1, PastAccept
  <2>3. \A d \in Accepts \ {c} : co'[d] = co[d] /\ immediate'[d] = immediate[d]
    BY <1>4, <1>7 DEF Accepts
  <2>4. SchedInv(ex, block_cids)' /\ OrderInv(ex, block_cids)'
    <3>1. \A d \in Accepts \ {c} : /\ co'[d] = co[d] /\ immediate'[d] = immediate[d]
                                   /\ ~Run(d) /\ ~Run(d)'
      BY <1>2, <2>1, <2>3
    <3>2. co'[c].handler = co[c].handler /\ ~Run(c)' /\ co'[c].pc # "parked"
      BY <1>7, <1>h, <2>1
    <3> QED  BY <1>1, <1>2, <1>3, <1>4, <2>0, <2>1, <2>2, <2>r, <3>1, <3>2, WokenSched
  <2>6. CallInv'
    <3>1. CallParts(Accepts, co, immediate, cl, Range(req_items), Range(res_items))
      BY <1>3, CallNext
    <3>5. Awaited(Accepts, co', immediate', cl, Range(res_items))
      <4> SUFFICES ASSUME NEW d \in Accepts
                   PROVE  LET b == co'[d].caller
                              m == Message("Recv", b, co'[d].handler)
                          IN  /\ co'[d].pc \in {"start", "listening"} => cl[b].op = "Listen"
                              /\ immediate'[d] # NoItem =>
                                    co'[d].pc = "parked" /\ immediate'[d] = m /\ cl[b].op = "Recv"
                              /\ co'[d].pc = "retry" => co'[d].item = m /\ cl[b].op = "Recv"
                              /\ co'[d].pc # "retry" => co'[d].item = NoItem
                              /\ cl[b].op = "Listen" /\ co'[d].pc \in {"parked", "retry"} =>
                                    \E q \in Range(res_items) : q.client = b
        BY DEF Awaited
      <4>1. CASE d = c  BY <1>1, <1>4, <1>7, <4>1
      <4>2. CASE d # c
        <5>1. co'[d] = co[d] /\ immediate'[d] = immediate[d]  BY <2>3, <4>2
        <5> QED  BY <3>1, <5>1 DEF CallParts, Awaited
      <4> QED  BY <4>1, <4>2
    <3>6. \A d, e \in Accepts : co'[d].caller = co'[e].caller => d = e
      <4>1. \A d \in Accepts : co'[d].caller = co[d].caller  BY <1>7, <1>a, <2>3
      <4> QED  BY <3>1, <4>1 DEF CallParts
    <3>7. Range(req_items)' = Range(req_items) /\ Range(res_items)' = Range(res_items)  BY <1>1
    <3> QED  BY <1>1, <2>1, <3>1, <3>5, <3>6, <3>7, CallNext DEF CallParts
  <2>7. TokenInv(sock)'
    <3>0. \A d \in Accepts : co'[d].caller = co[d].caller  BY <1>7, <1>a, <2>3
    <3>1. \A d \in Accepts : Holding(d)' <=> Holding(d)
      <4>1. Holding(c)'  BY <1>7 DEF Holding
      <4> QED  BY <1>1, <2>3, <4>1 DEF Holding
    <3>2. \A b \in Clients : Held(b)' <=> Held(b)  BY <2>1, <3>0, <3>1 DEF Held
    <3>3. \A b \in Clients : Places(b)' = Places(b)  BY <1>1, <3>2 DEF Places, Count, One
    <3> QED  BY <1>1, <1>3, <3>3, TokenKept
  <2>8. StackInv(sock, peer, 0)'  BY <1>1, <1>3, StackKept
  <2>9. GoodInv(sock, peer, block_cids, 0)'  BY <1>1, <1>3, <2>2, GoodKept
  <2> QED  BY <1>8, <1>12, <2>1, <2>2, <2>4, <2>6, <2>7, <2>8, <2>9
<1> QED  BY <1>1, <1>9, <1>10, <1>11, <1>12, NetParts2

(* Resumed in the outer loop, a coroutine has a request. *)
LEMMA TcpRecvStep ==
    ASSUME NetInv, NEW c \in TaskIds, TcpRecv(c), faults' = faults
    PROVE  NetInv'
<1>1. /\ Go(c) /\ c \notin {Poller, Receiver} /\ co[c].pc = "parked"  BY DEF TcpRecv, GoCo
<1>2. /\ c \in Accepts /\ Run(c) /\ ~ex.panic  BY <1>1, AcceptRuns
<1>3. SchedInv(ex, block_cids) /\ CallInv  BY <1>2, Running
<1>4. immediate[c] # NoItem  BY <1>1, <1>2, <1>3 DEF SchedInv
<1>5. immediate[c] = Message("Recv", co[c].caller, co[c].handler) /\ cl[co[c].caller].op = "Recv"
  BY <1>2, <1>3, <1>4 DEF CallInv
<1>6. Holding(c)  BY <1>4 DEF Holding
<1> PICK i : i = immediate[c]  OBVIOUS
<1>7. Try(c, i)  BY <1>1, <1>4, <1>5, <1>6 DEF Try, TcpRecv, device
<1> QED  BY <1>7, TryAnswer, TryWake

(* Resumed in the inner loop, it has the one it keeps. *)
LEMMA TcpRetryStep ==
    ASSUME NetInv, NEW c \in TaskIds, TcpRetry(c), faults' = faults
    PROVE  NetInv'
<1>1. /\ Go(c) /\ c \notin {Poller, Receiver} /\ co[c].pc = "retry"  BY DEF TcpRetry, GoCo
<1>2. /\ c \in Accepts /\ Run(c) /\ ~ex.panic  BY <1>1, AcceptRuns
<1>3. CallInv  BY <1>2, Running
<1>5. co[c].item = Message("Recv", co[c].caller, co[c].handler) /\ cl[co[c].caller].op = "Recv"
  BY <1>1, <1>2, <1>3 DEF CallInv
<1>6. Holding(c)  BY <1>1 DEF Holding
<1> PICK i : i = co[c].item  OBVIOUS
<1>7. Try(c, i)  BY <1>1, <1>5, <1>6 DEF Try, TcpRetry, device
<1> QED  BY <1>7, TryAnswer, TryWake

-----------------------------------------------------------------------------
(* The invariant holds from the start. *)

(* The network thread spawns net_poll and nw_recv_req_coroutine. *)
LEMMA StartFacts ==
    LET e == Spawn(Spawn(New, 0), 1)
    IN  /\ ExecutorType(e) /\ e.delay = {}
        /\ ~e.panic => /\ Shape(e) /\ Live(e) = {Poller, Receiver}
                       /\ Len(e.ready[0]) = 1 /\ Len(e.ready[1]) = 1 /\ e.ready[2] = <<>>
        /\ MaxTask > 2 => ~e.panic
<1> DEFINE x == Spawn(New, 0)
           e == Spawn(x, 1)
<1>1. /\ ExecutorType(New) /\ QueuesTyped(New) /\ IdsMatch(New) /\ Exact(New)
      /\ Live(New) = {} /\ New.delay = {} /\ ~New.panic
      /\ \A p \in Prios : Queued(New, p) = {}
  BY NewFacts
<1>2. New.ready = [p \in Prios |-> <<>>] /\ New.ids = {}  BY DEF New
<1>3. ExecutorType(x) /\ x.delay = {}  BY <1>1, NetSized, SpawnType
<1>4. ~x.panic => \E c \in TaskIds : Spawned(New, x, 0, c)  BY <1>1, NetSized, SpawnFacts
<1>5. MaxTask > 2 => Exact(x) /\ ~x.panic
  <2>1. Cardinality(Live(New)) = 0  BY <1>1, FS_EmptySet
  <2> QED  BY <1>1, <2>1, NetSized, SpawnFits
<1> HIDE DEF x
<1>6. ExecutorType(e) /\ e.delay = {}  BY <1>3, NetSized, SpawnType
<1>7. ~e.panic => \E c \in TaskIds : Spawned(x, e, 1, c)  BY <1>3, NetSized, SpawnFacts
<1>8. ASSUME ~x.panic
      PROVE  /\ Spawned(New, x, 0, Poller) /\ QueuesTyped(x) /\ IdsMatch(x)
             /\ Live(x) = {Poller} /\ Cardinality(Live(x)) = 1
             /\ \A p \in Prios : \A d \in Queued(x, p) : d = Poller /\ p = 0
  <2>1. PICK c \in TaskIds : Spawned(New, x, 0, c)  BY <1>4, <1>8
  <2>2. c = Poller
    <3>1. 0 \in TaskIds \ New.ids /\ c <= 0  BY <1>2, <2>1, NetSized DEF Spawned
    <3> QED  BY <3>1, NetSized DEF TaskIds
  <2>3. Cardinality(Live(New)) = 0  BY <1>1, FS_EmptySet
  <2> QED  BY <1>1, <2>1, <2>2, <2>3, NetSized, SpawnedMatch
<1>9. MaxTask > 2 => ~e.panic
  BY <1>3, <1>5, <1>8, NetSized, SpawnFits
<1> HIDE DEF e
<1>10. ASSUME ~e.panic
       PROVE  /\ Shape(e) /\ Live(e) = {Poller, Receiver}
              /\ Len(e.ready[0]) = 1 /\ Len(e.ready[1]) = 1 /\ e.ready[2] = <<>>
  <2>1. PICK c \in TaskIds : Spawned(x, e, 1, c)  BY <1>7, <1>10
  <2>2. /\ ~x.panic /\ Spawned(New, x, 0, Poller) /\ QueuesTyped(x) /\ IdsMatch(x)
        /\ Live(x) = {Poller}
        /\ \A p \in Prios : \A d \in Queued(x, p) : d = Poller /\ p = 0
    BY <1>8, <2>1 DEF Spawned
  <2>3. c = Receiver
    <3>1. x.ids = {0}  BY <2>2, NetSized DEF IdsMatch
    <3>2. c \in TaskIds \ {0} /\ \A d \in TaskIds \ {0} : c <= d  BY <2>1, <3>1 DEF Spawned
    <3>3. 1 \in TaskIds  BY <3>2, NetSized DEF TaskIds
    <3> QED  BY <3>2, <3>3, NetSized DEF TaskIds
  <2>4. /\ QueuesTyped(e) /\ IdsMatch(e) /\ Live(e) = {Poller, Receiver}
        /\ \A p \in Prios : \A d \in Queued(e, p) : d \in Queued(x, p) \/ (d = c /\ p = 1)
    BY <1>3, <2>1, <2>2, <2>3, NetSized, SpawnedMatch
  <2>5. x.ready = [New.ready EXCEPT ![0] = Append(@, Poller)] /\ x.tasks = [New.tasks EXCEPT ![Poller] = 0]
    BY <2>2 DEF Spawned
  <2>6. e.ready = [x.ready EXCEPT ![1] = Append(@, Receiver)] /\ e.tasks = [x.tasks EXCEPT ![Receiver] = 1]
    BY <2>1, <2>3 DEF Spawned
  <2>7. x.ready[0] = Append(<<>>, Poller) /\ x.ready[1] = <<>> /\ x.ready[2] = <<>>
        /\ x.ready \in [Prios -> Seq(TaskIds)]
    BY <1>2, <2>2, <2>5, NetSized DEF QueuesTyped
  <2>8. e.ready[0] = Append(<<>>, Poller) /\ e.ready[1] = Append(<<>>, Receiver) /\ e.ready[2] = <<>>
    BY <2>6, <2>7, NetSized
  <2>9. Len(e.ready[0]) = 1 /\ Len(e.ready[1]) = 1 /\ DOMAIN e.ready[2] = {}  BY <2>8
  <2>10. e.tasks[Poller] = 0 /\ e.tasks[Receiver] = 1
    BY <1>1, <1>3, <2>1, <2>3, <2>5, <2>6, NetSized DEF ExecutorType
  <2>11. \A p \in Prios : \A d \in Queued(e, p) : e.tasks[d] = p
    BY <2>2, <2>3, <2>4, <2>10
  <2> QED  BY <1>6, <1>10, <2>4, <2>8, <2>9, <2>10, <2>11, NetSized DEF Shape
<1> QED  BY <1>6, <1>9, <1>10 DEF e, x

LEMMA NetStart == Init => NetInv
<1> SUFFICES ASSUME Init  PROVE NetInv  OBVIOUS
<1>1. /\ ExecutorType(ex) /\ ex.delay = {}
      /\ ~ex.panic => /\ Shape(ex) /\ Live(ex) = {Poller, Receiver}
                      /\ Len(ex.ready[0]) = 1 /\ Len(ex.ready[1]) = 1 /\ ex.ready[2] = <<>>
      /\ MaxTask > 2 => ~ex.panic
  BY StartFacts DEF Init
<1>2. /\ running = FALSE /\ cnt = 0 /\ req_items = <<>> /\ res_items = <<>>
      /\ recv_req_status = FALSE /\ recv_reply_status = FALSE
      /\ sock = <<>> /\ syn_queue = <<>> /\ block_cids = <<>> /\ socket2cid = <<>>
      /\ frames = <<>> /\ rx_cmplt = FALSE /\ masked = FALSE /\ late = FALSE
      /\ faults \in FaultSets
      /\ reply = [wakes |-> 1, pc |-> "read"]
      /\ immediate = [c \in TaskIds |-> NoItem]
      /\ peer = [p \in Peers |-> [st |-> "idle", sent |-> 0]]
      /\ cl = [c \in Clients |->
                [st |-> "ready", op |-> "Listen", fd |-> NoFd, data |-> "none"]]
  BY DEF Init
<1>3. /\ \A c \in TaskIds : /\ co[c].pc = IF c = Poller THEN "poll" ELSE "none"
                            /\ co[c].caller = NoFd /\ co[c].handler = NoFd /\ co[c].item = NoItem
      /\ co \in [TaskIds -> Contexts]
  <2> DEFINE P == [NewCo EXCEPT !.pc = "poll"]
  <2>1. /\ NewCo \in Contexts /\ P \in Contexts /\ P.pc = "poll" /\ NewCo.pc = "none"
        /\ NewCo.caller = NoFd /\ NewCo.handler = NoFd /\ NewCo.item = NoItem
        /\ P.caller = NoFd /\ P.handler = NoFd /\ P.item = NoItem
    BY DEF NewCo, Contexts, NoFd
  <2> HIDE DEF P
  <2>2. co = [c \in TaskIds |-> IF c = Poller THEN P ELSE NewCo]  BY DEF Init, P
  <2> QED  BY <2>1, <2>2
<1>4. /\ DOMAIN sock = {} /\ DOMAIN syn_queue = {} /\ DOMAIN block_cids = {}
      /\ DOMAIN socket2cid = {} /\ DOMAIN frames = {} /\ Len(sock) = 0
      /\ Range(res_items) = {} /\ Range(req_items) = {} /\ Range(syn_queue) = {}
      /\ Range(block_cids) = {}
  BY <1>2 DEF Range
<1>5. /\ \A c \in Clients : /\ cl[c].st = "ready" /\ cl[c].op = "Listen" /\ cl[c].fd = NoFd
      /\ cl \in [Clients -> Calls]
  BY <1>2 DEF Calls, NoFd
<1>6. /\ \A p \in Peers : peer[p].st = "idle"
      /\ peer \in [Peers -> Hosts]
  BY <1>2 DEF Hosts
<1>7. TypeInv
  <2>1. cnt \in 0 .. SwitchCnt - 1  BY <1>2, NetSized
  <2>2. SocketsOK(sock)  BY <1>2, <1>4 DEF SocketsOK
  <2>3. immediate \in [TaskIds -> Requests \cup {NoItem}]  BY <1>2
  <2>4. \A d \in TaskIds : co[d].handler \in 0 .. Len(sock)  BY <1>3, <1>4, NetSized
  <2>5. /\ req_items \in Seq(Requests \cup {NetPollReq}) /\ res_items \in Seq(Replies)
        /\ syn_queue \in Seq(Nat) /\ block_cids \in Seq(TaskIds) /\ frames \in Seq(Received)
        /\ socket2cid \in [DOMAIN socket2cid -> TaskIds]
    BY <1>2
  <2>6. ReplyOK(recv_reply_status, reply)  BY <1>2 DEF ReplyOK
  <2> QED  BY <1>1, <1>2, <1>3, <1>4, <1>5, <1>6, <2>1, <2>2, <2>3, <2>4, <2>5, <2>6 DEF TypeInv
<1>8. GivenIn(sock)  BY <1>4, <1>5 DEF GivenIn
<1>9. ASSUME ~ex.panic  PROVE RunInv
  <2>1. Shape(ex) /\ Live(ex) = {Poller, Receiver} /\ Poller \in TaskIds /\ Receiver \in TaskIds
        /\ Poller # Receiver
    BY <1>1, <1>9, ShapeQueues, NetSized
  <2>2. Accepts = {} /\ Listeners = {}  BY <1>3 DEF Accepts, Listeners
  <2>3. \A d : ~Run(d)  BY <1>2 DEF Run
  <2>4. CoInv
    <3>1. \A d \in TaskIds : immediate[d] = NoItem /\ co[d].item = NoItem  BY <1>2, <1>3
    <3> QED  BY <1>2, <1>3, <2>1, <2>2, <3>1 DEF CoInv
  <2>5. SchedInv(ex, block_cids)  BY <2>2 DEF SchedInv
  <2>6. OrderInv(ex, block_cids)
    <3>1. DOMAIN ex.ready[2] = {}  BY <1>1, <1>9
    <3> QED  BY <1>4, <2>2, <3>1 DEF OrderInv
  <2>7. QueueInv  BY <1>4, <2>2 DEF QueueInv
  <2>8. CallInv  BY <1>4, <1>5, <2>2 DEF CallInv
  <2>9. TokenInv(sock)
    <3>1. \A c \in Clients : Places(c) = 0
      <4> SUFFICES ASSUME NEW c \in Clients  PROVE Places(c) = 0  OBVIOUS
      <4>1. Count(req_items, ItemsOf(c)) = 0 /\ Count(res_items, ItemsOf(c)) = 0
        BY <1>2, CountEmpty
      <4>2. One(Held(c)) = 0  BY <2>2 DEF One, Held
      <4> QED  BY <4>1, <4>2 DEF Places
    <3> QED  BY <1>5, <3>1 DEF TokenInv
  <2>10. WakesInv(ex)
    <3>1. Count(req_items, {NetPollReq}) = 0  BY <1>2, CountEmpty
    <3>2. One(Run(Poller)) = 0 /\ One(Run(Receiver)) = 0 /\ One(masked) = 0
          /\ One(recv_req_status) = 0 /\ One(Receiver \in ex.delay) = 0
      BY <1>1, <1>2, <2>3 DEF One
    <3>3. Len(ex.ready[0]) = 1 /\ Len(ex.ready[1]) = 1  BY <1>1, <1>9
    <3>4. Count(req_items, {NetPollReq}) + Len(ex.ready[0]) + One(Run(Poller)) <= 1 + One(masked)
      BY ONLY <3>1, <3>2, <3>3
    <3>5. Len(ex.ready[1]) + One(Receiver \in ex.delay) + One(Run(Receiver))
             <= 1 + One(recv_req_status)
      BY ONLY <3>2, <3>3
    <3>6. One(recv_req_status)
             <= Len(ex.ready[1]) + One(Receiver \in ex.delay) + One(Run(Receiver))
      BY ONLY <3>2, <3>3
    <3> QED  BY ONLY <3>4, <3>5, <3>6 DEF WakesInv
  <2>11. StackInv(sock, peer, 0)  BY <1>4, <1>6 DEF StackInv, Connected
  <2>12. GoodInv(sock, peer, block_cids, 0)  BY <1>4, <2>2 DEF GoodInv
  <2>13. StrandInv  BY <1>2, <1>3, <2>1 DEF StrandInv
  <2> QED  BY <2>1, <2>4, <2>5, <2>6, <2>7, <2>8, <2>9, <2>10, <2>11, <2>12, <2>13 DEF RunInv
<1>10. Sizes => ~ex.panic  BY <1>1 DEF Sizes
<1> QED  BY <1>7, <1>8, <1>9, <1>10 DEF NetInv

(* A step that changes nothing. *)
LEMMA NetStutter ==
    ASSUME NetInv, UNCHANGED vars
    PROVE  NetInv'
<1>1. UNCHANGED <<ex, running, co, immediate, cnt, req_items, res_items, recv_req_status,
                  recv_reply_status, sock, syn_queue, block_cids, socket2cid, frames, rx_cmplt,
                  masked, late, peer, faults, cl, reply>>
  BY DEF vars, ring, stack, device, client
<1>2. TypeInv'  BY <1>1, NetParts DEF TypeInv
<1>3. GivenIn(sock)'  BY <1>1, NetParts DEF GivenIn, Owns
<1>4. ASSUME ~ex'.panic
      PROVE  /\ Shape(ex') /\ CoInv' /\ SchedInv(ex, block_cids)'
             /\ OrderInv(ex, block_cids)' /\ QueueInv'
             /\ CallInv' /\ TokenInv(sock)' /\ WakesInv(ex)'
             /\ StackInv(sock, peer, 0)' /\ GoodInv(sock, peer, block_cids, 0)'
             /\ StrandInv'
  <2>1. ~ex.panic /\ ex' = ex  BY <1>1, <1>4
  <2>2. /\ Shape(ex) /\ CoInv /\ SchedInv(ex, block_cids) /\ OrderInv(ex, block_cids) /\ QueueInv
        /\ CallInv /\ TokenInv(sock) /\ WakesInv(ex) /\ StackInv(sock, peer, 0)
        /\ GoodInv(sock, peer, block_cids, 0) /\ StrandInv
    BY <2>1, NetParts
  <2>3. /\ CoInv' /\ SchedInv(ex, block_cids)' /\ OrderInv(ex, block_cids)' /\ QueueInv'
        /\ \A d : Run(d)' <=> Run(d)
    BY <1>1, <2>2, ThreadKept
  <2>4. CallInv'
    <3>1. Accepts' = Accepts /\ Range(req_items)' = Range(req_items)
          /\ Range(res_items)' = Range(res_items)
      BY <1>1 DEF Accepts
    <3> QED  BY <1>1, <2>2, <3>1, CallNext
  <2>5. TokenInv(sock)'
    <3>1. \A c \in Clients : Places(c)' = Places(c)
      BY <1>1 DEF Places, Count, One, Held, Holding, Accepts, ItemsOf
    <3> QED  BY <1>1, <2>2, <3>1, TokenKept
  <2>6. WakesInv(ex)'  BY <1>1, <2>2, <2>3 DEF WakesInv, Count, One
  <2>7. StackInv(sock, peer, 0)' /\ GoodInv(sock, peer, block_cids, 0)'
    BY <1>1, <2>2, NetParts, StackSame
  <2>8. StrandInv'  BY <1>1, <2>2, <2>3 DEF StrandInv, Queued
  <2> QED  BY <2>1, <2>2, <2>3, <2>4, <2>5, <2>6, <2>7, <2>8
<1>5. Sizes => ~ex'.panic \/ (AcceptFailed' /\ ~Prompt)
  BY <1>1, PanicKept
<1> QED  BY <1>1, <1>2, <1>3, <1>4, <1>5, NetParts2

LEMMA NetInductive == NetInv /\ [Next]_vars => NetInv'
<1> SUFFICES ASSUME NetInv, [Next]_vars  PROVE NetInv'  OBVIOUS
<1>1. CASE UNCHANGED vars  BY <1>1, NetStutter
<1>2. CASE Network  BY <1>2, NetworkStep
<1>3. CASE Irq  BY <1>3, IrqStep
<1>4. CASE ClientThread
  BY <1>4, ClientCallStep, ClientReplyStep, ClientEmptyStep, ClientIdleStep DEF ClientThread
<1>5. CASE NetworkThread
  <2>1. faults' = faults /\ (FetchNext \/ Coroutine)  BY <1>5 DEF NetworkThread
  <2>2. CASE FetchNext  BY <2>1, <2>2, FetchNextStep
  <2>3. CASE NetPoll \/ NetPollAck  BY <2>1, <2>3, NetPollStep, NetPollAckStep
  <2>4. CASE ReqPoll \/ ReqListen \/ ReqSend \/ ReqRecv \/ ReqEmpty \/ ReqIdle
    BY <2>1, <2>4, ReqPollStep, ReqListenStep, ReqSendStep, ReqRecvStep, ReqEmptyStep, ReqIdleStep
  <2>5. CASE \E c \in TaskIds : AcceptStart(c) \/ AcceptWoken(c) \/ TcpRecv(c) \/ TcpRetry(c)
    BY <2>1, <2>5, AcceptStartStep, AcceptWokenStep, TcpRecvStep, TcpRetryStep
  <2> QED  BY <2>1, <2>2, <2>3, <2>4, <2>5 DEF Coroutine
<1> QED  BY <1>1, <1>2, <1>3, <1>4, <1>5 DEF Next

LEMMA NetInvariant == Spec => []NetInv
BY NetStart, NetInductive, PTL DEF Spec

-----------------------------------------------------------------------------
(* What follows from the invariant. *)

(* The places of a call are the ones Tokens counts. *)
LEMMA TokensArePlaces ==
    ASSUME TypeInv, CoInv, CallInv, NEW c \in Clients
    PROVE  Tokens(c) = Places(c)
<1>1. /\ \A i \in Requests \cup Replies : i.type # "NetPollReq" /\ (i \in ItemsOf(c) <=> i.client = c)
      /\ NetPollReq.type = "NetPollReq" /\ NetPollReq \notin ItemsOf(c)
  BY ItemFacts DEF Requests, Replies, NetPollReq
<1>2. ASSUME NEW s \in Seq(Requests \cup Replies \cup {NetPollReq})
      PROVE  Occurrences(c, s) = Count(s, ItemsOf(c))
  <2>1. \A k \in DOMAIN s : s[k] \in Requests \cup Replies \cup {NetPollReq}
    BY LenProperties, ElementOfSeq
  <2>2. {k \in DOMAIN s : s[k].type # "NetPollReq" /\ s[k].client = c}
           = {k \in DOMAIN s : s[k] \in ItemsOf(c)}
    BY <1>1, <2>1
  <2> QED  BY <2>2 DEF Occurrences, Count
<1>3. /\ req_items \in Seq(Requests \cup Replies \cup {NetPollReq})
      /\ res_items \in Seq(Requests \cup Replies \cup {NetPollReq})
  <2>1. req_items \in Seq(Requests \cup {NetPollReq}) /\ res_items \in Seq(Replies)  BY DEF TypeInv
  <2> QED  BY <2>1
<1> DEFINE H == {d \in Accepts : co[d].caller = c /\ Holding(d)}
<1>4. Holders(c) = H
  <2>1. ASSUME NEW d \in TaskIds, d \notin Accepts
        PROVE  ~(\/ co[d].pc \in {"start", "listening"} /\ co[d].caller = c
                 \/ immediate[d] # NoItem /\ immediate[d].client = c
                 \/ co[d].item # NoItem /\ co[d].item.client = c)
    BY <2>1 DEF CoInv, Accepts
  <2>2. ASSUME NEW d \in Accepts
        PROVE  (\/ co[d].pc \in {"start", "listening"} /\ co[d].caller = c
                \/ immediate[d] # NoItem /\ immediate[d].client = c
                \/ co[d].item # NoItem /\ co[d].item.client = c)
               <=> co[d].caller = c /\ Holding(d)
    <3> DEFINE m == Message("Recv", co[d].caller, co[d].handler)
    <3>1. m.client = co[d].caller /\ m.type = "Recv"  BY DEF Message
    <3>2. m # NoItem  BY <3>1 DEF NoItem
    <3> HIDE DEF m
    <3>3. /\ immediate[d] # NoItem => immediate[d] = m
          /\ co[d].pc = "retry" => co[d].item = m
          /\ co[d].pc # "retry" => co[d].item = NoItem
      BY DEF CallInv, m
    <3> QED  BY <3>1, <3>2, <3>3 DEF Holding
  <2>3. Accepts \subseteq TaskIds  BY DEF Accepts
  <2> QED  BY <2>1, <2>2, <2>3 DEF Holders
<1>5. Cardinality(H) = One(Held(c))
  <2>1. CASE Held(c)
    <3>1. PICK d \in Accepts : co[d].caller = c /\ Holding(d)  BY <2>1 DEF Held
    <3>2. H = {d}  BY <3>1 DEF CallInv
    <3>3. Cardinality({d}) = 1  BY FS_Singleton
    <3> QED  BY <2>1, <3>2, <3>3 DEF One
  <2>2. CASE ~Held(c)
    <3>1. H = {}  BY <2>2 DEF Held
    <3> QED  BY <2>2, <3>1, FS_EmptySet DEF One
  <2> QED  BY <2>1, <2>2
<1> HIDE DEF H
<1>6. Occurrences(c, req_items) = Count(req_items, ItemsOf(c))
      /\ Occurrences(c, res_items) = Count(res_items, ItemsOf(c))
  BY <1>2, <1>3
<1> QED  BY <1>4, <1>5, <1>6 DEF Tokens, Places

(* Of all the assert!, unwrap and panic! of the two threads only accept()'s *)
(* assertion on the front of the listen table's queue can fail, and only   *)
(* if an ACK misses the poll of its SYN, a SYN comes twice or a connection *)
(* is reset before it is accepted, however many clients and peers there    *)
(* are: the rings never overflow, SOCKET_2_CID knows every socket a client *)
(* was given and every reply has the type its call expects.                *)
THEOREM OnlyAcceptPanics == ASSUME Sizes PROVE Spec => []NoPanic
<1>1. NetInv => NoPanic
  <2> SUFFICES ASSUME NetInv  PROVE NoPanic  OBVIOUS
  <2>1. CASE ex.panic  BY <2>1 DEF NetInv, NoPanic, Prompt
  <2>2. CASE ~ex.panic  BY <2>2 DEF NetInv, RunInv, CallInv, NoPanic
  <2> QED  BY <2>1, <2>2
<1> QED  BY <1>1, NetInvariant, PTL

(* A client of the TCP server that waits has its call in exactly one       *)
(* place, request ring, coroutine or reply ring, unless its peer cut the   *)
(* connection or the send buffer was full, and a client that does not wait *)
(* has none anywhere, on every kind of network.                            *)
THEOREM TcpCallsKeepOneToken == Spec => []OneTokenPerCall
<1>1. NetInv => OneTokenPerCall
  <2> SUFFICES ASSUME NetInv  PROVE OneTokenPerCall  OBVIOUS
  <2>1. TypeInv /\ (~ex.panic => CoInv /\ CallInv /\ TokenInv(sock))  BY NetParts
  <2>2. TypeOK
    <3>1. /\ SocketsOK(sock) /\ sock \in Seq(Sockets) /\ DOMAIN sock = 1 .. Len(sock) /\ Len(sock) \in Nat
      BY <2>1, LenProperties DEF TypeInv, SocketsOK
    <3>2. \A h \in DOMAIN sock : sock[h].st \in States /\ sock[h].peer \subseteq Peers
      <4>1. \A h \in DOMAIN sock : sock[h] \in Sockets  BY <3>1, ElementOfSeq
      <4> QED  BY <4>1 DEF Sockets
    <3>3. \A c \in TaskIds :
            /\ co[c].pc \in {"none", "clear", "poll", "ack", "start", "listening", "parked", "retry"}
            /\ co[c].handler \in {NoFd} \cup DOMAIN sock
      <4>1. co \in [TaskIds -> Contexts] /\ \A d \in TaskIds : co[d].handler \in 0 .. Len(sock)
        BY <2>1 DEF TypeInv
      <4>2. \A c \in TaskIds : co[c].handler = 0 \/ co[c].handler \in 1 .. Len(sock)
        BY <3>1, <4>1
      <4> QED  BY <3>1, <4>1, <4>2, NetSized DEF Contexts
    <3>4. Range(syn_queue) \subseteq DOMAIN sock  BY <2>1, <3>1 DEF TypeInv, Range
    <3>5. Range(block_cids) \subseteq TaskIds  BY <2>1, RangeIn DEF TypeInv
    <3> QED  BY <2>1, <3>1, <3>2, <3>3, <3>4, <3>5 DEF TypeOK, TypeInv, States
  <2>3. ASSUME ~ex.panic, NEW c \in Clients
        PROVE  IF cl[c].st = "waiting" THEN Tokens(c) = 1 \/ (Cut(c) /\ Tokens(c) = 0)
                                       ELSE Tokens(c) = 0
    <3>1. Tokens(c) = Places(c)  BY <2>1, <2>3, TokensArePlaces
    <3>2. cl[c].op \in {"Listen", "Recv", "Send", "Bye"}  BY <2>1 DEF TypeInv, Calls
    <3> QED  BY <2>1, <2>3, <3>1, <3>2 DEF TokenInv, Cut, Request
  <2> QED  BY <2>2, <2>3 DEF OneTokenPerCall
<1> QED  BY <1>1, NetInvariant, PTL

(* A socket listen() gave to a client is no other client's, and            *)
(* SOCKET_2_CID maps it to the coroutine that made it for that client.     *)
THEOREM SocketsHaveOneOwner == Spec => []OneOwnerPerSocket
<1>1. NetInv => OneOwnerPerSocket
  <2> SUFFICES ASSUME NetInv  PROVE OneOwnerPerSocket  OBVIOUS
  <2>1. \A c \in Clients : cl[c].fd # NoFd => Owns(sock, c, cl[c].fd)  BY NetParts DEF GivenIn
  <2> QED  BY <2>1 DEF Owns, OneOwnerPerSocket
<1> QED  BY <1>1, NetInvariant, PTL

(* A set flag has a resume of its reader behind it, on every kind of       *)
(* network and with any number of clients: the push that finds it set and  *)
(* sends no interrupt may rely on it.                                      *)
THEOREM FlagsMeanWakes == Spec => []FlagMeansWake
<1>1. NetInv => FlagMeansWake
  <2> SUFFICES ASSUME NetInv, ~ex.panic
               PROVE  /\ recv_req_status => \/ Receiver \in ex.delay \cup Queued(ex, 1)
                                            \/ Go(Receiver)
                      /\ recv_reply_status => reply.wakes > 0
    BY DEF FlagMeansWake
  <2>1. TypeInv /\ Shape(ex) /\ WakesInv(ex)  BY NetParts
  <2>2. recv_reply_status => reply.wakes > 0  BY <2>1 DEF TypeInv, ReplyOK
  <2>3. ASSUME recv_req_status, Receiver \notin ex.delay, ~Run(Receiver)
        PROVE  Receiver \in Queued(ex, 1)
    <3>1. One(recv_req_status) <= Len(ex.ready[1]) + One(Receiver \in ex.delay) + One(Run(Receiver))
      BY <2>1 DEF WakesInv
    <3>2. One(recv_req_status) = 1 /\ One(Receiver \in ex.delay) = 0 /\ One(Run(Receiver)) = 0
      BY <2>3 DEF One
    <3>3. Len(ex.ready[1]) \in Nat /\ DOMAIN ex.ready[1] = 1 .. Len(ex.ready[1])
          /\ Queued(ex, 1) \subseteq {Receiver}
      BY <2>1, ShapeQueues, NetSized
    <3>4. 1 \in DOMAIN ex.ready[1]  BY <3>1, <3>2, <3>3
    <3>5. ex.ready[1][1] \in Queued(ex, 1)  BY <3>4 DEF Queued
    <3> QED  BY <3>3, <3>5
  <2> QED  BY <2>2, <2>3 DEF Run, Go
<1> QED  BY <1>1, NetInvariant, PTL

(* A frame the device holds will be looked at (its interrupt will be       *)
(* raised, its request is on the way, or net_poll is going to run), unless *)
(* the last frame came between the poll of net_poll and its                *)
(* interrupt_handler.                                                      *)
THEOREM FramesAreSeen == Spec => []NoStrandedFrame
<1>1. NetInv => NoStrandedFrame
  <2> SUFFICES ASSUME NetInv, frames # <<>>, ~ex.panic, ~late
               PROVE  \/ rx_cmplt /\ ~masked
                      \/ \E k \in DOMAIN req_items : req_items[k] = NetPollReq
                      \/ Poller \in Queued(ex, 0)
                      \/ Go(Poller) /\ co[Poller].pc = "poll"
    BY DEF NoStrandedFrame
  <2>1. TypeInv /\ CoInv /\ StrandInv  BY NetParts
  <2>2. rx_cmplt /\ co[Poller].pc = "poll"
        /\ (masked => NetPollReq \in Range(req_items) \/ Poller \in Queued(ex, 0) \/ Run(Poller))
    BY <2>1 DEF StrandInv, CoInv
  <2> QED  BY <2>2 DEF Range, Run, Go
<1> QED  BY <1>1, NetInvariant, PTL
=============================================================================
